----------------------------- MODULE PublishProofs -----------------------------
(***************************************************************************)
(* What `publish' keeps, for all findings, limits and faults: comments are *)
(* posted once, the summary exists once, what a run plans to place inline  *)
(* is there when it writes its summary, and the next run knows it.         *)
(***************************************************************************)
EXTENDS Publish, SequenceTheorems, TLAPS

-------------------------------------------------------------------------------
(* The inductive invariant.                                               *)

\* The reviewed findings to place inline are open and not posted: recheck and
\* upsert have reset what an earlier life of the finding left behind.
PlanIsNew ==
    /\ run.phase \in {"idle", "review"} => run.plan = {}
    /\ run.phase \in {"check", "list"} =>
          \A f \in run.plan : run.state.book[f] = [status |-> "open", posted |-> FALSE]

\* What is about to be posted is not on the pull request.
SentIsNew == run.phase = "post" => \A f \in run.sent : inline[f] = 0

\* What is planned and not sent was found there.
RestIsInline ==
    run.phase \in {"post", "unsure"} => run.plan \ run.sent \subseteq OnPullRequest

\* The state knows every comment, but for those whose POST was not answered.
KnowsComments ==
    run.phase \in {"post", "unsure", "summary", "adopt"} =>
        \A f \in OnPullRequest :
            \/ run.phase = "unsure" /\ f \in run.sent
            \/ IsTracked(run.state.book, f) => run.state.book[f].posted

PublishInv ==
    /\ TypeOK /\ InlineOnce /\ OneSummary /\ PlannedIsInline
    /\ PlanIsNew /\ SentIsNew /\ RestIsInline /\ KnowsComments

-------------------------------------------------------------------------------
(* Operators on books.                                                    *)

\* What a book says of one finding.
LEMMA EntriesOfBooks ==
    ASSUME NEW b \in Books, NEW f \in Findings
    PROVE  /\ b[f] \in Entries \cup {Absent}
           /\ b[f].posted \in BOOLEAN
           /\ b[f].status \in Tracked => b[f] # Absent
<1>1. b[f] \in Entries \cup {Absent}  BY DEF Books
<1>2. CASE b[f] \in Entries  BY <1>2 DEF Entries, Absent
<1>3. CASE b[f] = Absent  BY <1>3 DEF Absent, Tracked
<1> QED  BY <1>1, <1>2, <1>3 DEF Entries, Absent, Tracked

\* mark_posted changes nothing but `posted'.
LEMMA MarkedBooks ==
    ASSUME NEW b \in Books, NEW ids
    PROVE  /\ MarkPosted(b, ids) \in Books
           /\ \A f \in Findings :
                /\ MarkPosted(b, ids)[f].status = b[f].status
                /\ MarkPosted(b, ids)[f].posted =
                      (b[f].posted \/ (f \in ids /\ b[f] # Absent))
<1>1. ASSUME NEW f \in Findings, b[f] # Absent, f \in ids
      PROVE  /\ [b[f] EXCEPT !.posted = TRUE] \in Entries
             /\ [b[f] EXCEPT !.posted = TRUE].status = b[f].status
             /\ [b[f] EXCEPT !.posted = TRUE].posted
  <2>1. b[f] \in Entries  BY <1>1 DEF Books
  <2> QED  BY <2>1 DEF Entries
<1>2. ASSUME NEW f \in Findings
      PROVE  b[f] \in Entries \cup {Absent} /\ b[f].posted \in BOOLEAN
  BY EntriesOfBooks
<1>3. MarkPosted(b, ids) \in Books
  BY <1>1, <1>2 DEF MarkPosted, Books
<1>4. ASSUME NEW f \in Findings
      PROVE  MarkPosted(b, ids)[f] = IF f \in ids /\ b[f] # Absent
                                     THEN [b[f] EXCEPT !.posted = TRUE] ELSE b[f]
  BY DEF MarkPosted
<1>5. ASSUME NEW f \in Findings
      PROVE  /\ MarkPosted(b, ids)[f].status = b[f].status
             /\ MarkPosted(b, ids)[f].posted = (b[f].posted \/ (f \in ids /\ b[f] # Absent))
  <2>1. CASE f \in ids /\ b[f] # Absent  BY <1>1, <1>2, <1>4, <2>1
  <2>2. CASE ~(f \in ids /\ b[f] # Absent)  BY <1>2, <1>4, <2>2
  <2> QED  BY <2>1, <2>2
<1> QED  BY <1>3, <1>5

\* What leaves the machine keeps every posted finding that is tracked.
LEMMA ProjectedBooks ==
    ASSUME NEW b \in Books
    PROVE  /\ Projection(b) \in Books
           /\ \A f \in Findings : HasPosted(b, f) => HasPosted(Projection(b), f)
<1>1. Projection(b) \in Books  BY DEF Projection, Books
<1>2. ASSUME NEW f \in Findings, HasPosted(b, f)
      PROVE  HasPosted(Projection(b), f)
  <2>1. Public(b[f])  BY <1>2 DEF Public, HasPosted, IsTracked, Tracked
  <2>2. Projection(b)[f] = b[f]  BY <2>1 DEF Projection
  <2> QED  BY <1>2, <2>2 DEF HasPosted, IsTracked
<1> QED  BY <1>1, <1>2

\* What the run writes into its summary.
LEMMA StagedStates ==
    ASSUME TypeOK
    PROVE  /\ Staged \in States
           /\ \A f \in Findings : HasPosted(run.state.book, f) => HasPosted(Staged.book, f)
<1> DEFINE marked == MarkPosted(run.state.book, run.surfaced)
<1>1. run.state \in States /\ run.state.book \in Books
  BY DEF TypeOK, Runs, States
<1>2. marked \in Books /\ Projection(marked) \in Books
  BY <1>1, MarkedBooks, ProjectedBooks
<1>3. Staged = [run.state EXCEPT !.book = Projection(marked)]  BY DEF Staged
<1>4. Staged \in States /\ Staged.book = Projection(marked)
  BY <1>1, <1>2, <1>3 DEF States
<1>5. ASSUME NEW f \in Findings, HasPosted(run.state.book, f)
      PROVE  HasPosted(Staged.book, f)
  <2>1. HasPosted(marked, f)
    <3>1. /\ marked[f].status = run.state.book[f].status
          /\ marked[f].posted = (run.state.book[f].posted \/
                (f \in run.surfaced /\ run.state.book[f] # Absent))
      BY <1>1, MarkedBooks
    <3> QED  BY <1>5, <3>1 DEF HasPosted, IsTracked
  <2> QED  BY <1>2, <1>4, <2>1, ProjectedBooks
<1> QED  BY <1>4, <1>5

\* A recheck changes the status of what is tracked and nothing else.
LEMMA RecheckedBooks ==
    ASSUME NEW b \in Books, NEW verdict \in [Findings -> Verdicts]
    PROVE  /\ Rechecked(b, verdict) \in Books
           /\ \A f \in Findings :
                 Rechecked(b, verdict)[f] =
                    IF IsTracked(b, f) THEN [b[f] EXCEPT !.status = RecheckStatus(verdict[f])]
                    ELSE b[f]
<1>1. ASSUME NEW f \in Findings
      PROVE  Rechecked(b, verdict)[f] =
                IF IsTracked(b, f) THEN [b[f] EXCEPT !.status = RecheckStatus(verdict[f])]
                ELSE b[f]
  BY DEF Rechecked
<1>2. ASSUME NEW f \in Findings, IsTracked(b, f)
      PROVE  [b[f] EXCEPT !.status = RecheckStatus(verdict[f])] \in Entries
  <2>1. b[f] \in Entries
    BY <1>2, EntriesOfBooks DEF IsTracked
  <2>2. verdict[f] \in Verdicts  OBVIOUS
  <2>3. RecheckStatus(verdict[f]) \in {"open", "uncertain", "resolved", "rejected"}
    BY <2>2 DEF RecheckStatus, Verdicts
  <2> QED  BY <2>1, <2>3 DEF Entries
<1>3. ASSUME NEW f \in Findings
      PROVE  b[f] \in Entries \cup {Absent}
  BY EntriesOfBooks
<1>4. Rechecked(b, verdict) \in Books
  BY <1>2, <1>3 DEF Rechecked, Books
<1> QED  BY <1>1, <1>4

\* The final verdicts: an accepted one is of a finding that is not posted, or
\* was closed and is reopened.
LEMMA FinalVerdicts ==
    ASSUME NEW b \in Books, NEW verdict \in [Findings -> Verdicts],
           NEW found \in [Findings -> Verdicts \cup {"none"}],
           NEW f \in DOMAIN Final(b, verdict, found)
    PROVE  /\ f \in Findings
           /\ Final(b, verdict, found)[f] \in Verdicts
           /\ ~HasPosted(Rechecked(b, verdict), f)
<1> DEFINE again == Reenter(b, verdict)
           fresh == {g \in Findings : found[g] # "none" /\ ~IsTracked(Rechecked(b, verdict), g)}
<1>1. Final(b, verdict, found) =
         [g \in again \cup fresh |-> IF g \in again THEN "accepted" ELSE found[g]]
  BY DEF Final
<1>2. f \in again \cup fresh  BY <1>1
<1>3. Final(b, verdict, found)[f] = IF f \in again THEN "accepted" ELSE found[f]
  BY <1>1, <1>2
<1>4. CASE f \in again
  BY <1>3, <1>4 DEF Reenter, Verdicts
<1>5. CASE f \in fresh /\ f \notin again
  <2>1. f \in Findings /\ found[f] # "none" /\ found[f] \in Verdicts \cup {"none"}
    BY <1>5
  <2>2. ~HasPosted(Rechecked(b, verdict), f)
    BY <1>5 DEF HasPosted
  <2> QED  BY <1>3, <1>5, <2>1, <2>2
<1> QED  BY <1>2, <1>4, <1>5

\* A finding with an accepted verdict comes out of a review open and not posted.
LEMMA ReviewedBooks ==
    ASSUME NEW b \in Books, NEW verdict \in [Findings -> Verdicts],
           NEW found \in [Findings -> Verdicts \cup {"none"}], NEW merged
    PROVE  LET final == Final(b, verdict, found) IN
           /\ Accepted(final) \subseteq Findings
           /\ AfterReview(Rechecked(b, verdict), final, merged) \in Books
           /\ \A f \in Accepted(final) \ merged :
                 AfterReview(Rechecked(b, verdict), final, merged)[f] =
                    [status |-> "open", posted |-> FALSE]
<1> DEFINE final == Final(b, verdict, found)
           checked == Rechecked(b, verdict)
<1> HIDE DEF final, checked
<1>1. checked \in Books  BY RecheckedBooks DEF checked
<1>2. ASSUME NEW f \in DOMAIN final
      PROVE  f \in Findings /\ final[f] \in Verdicts /\ ~HasPosted(checked, f)
  BY FinalVerdicts DEF final, checked
<1>3. ASSUME NEW f \in DOMAIN final
      PROVE  /\ Upsert(checked[f], final[f]) \in Entries
             /\ final[f] = "accepted" =>
                   Upsert(checked[f], final[f]) = [status |-> "open", posted |-> FALSE]
  <2>1. /\ checked[f] \in Entries \cup {Absent}
        /\ checked[f].posted \in BOOLEAN
    BY <1>1, <1>2, EntriesOfBooks
  <2>2. FreshStatus(final[f]) \in {"open", "uncertain", "rejected"}
    BY <1>2 DEF FreshStatus, Verdicts
  <2>3. Upsert(checked[f], final[f]) \in Entries
    BY <2>1, <2>2 DEF Upsert, Entries
  <2>4. ASSUME final[f] = "accepted"
        PROVE  ~(checked[f].posted /\ ~(Closed(checked[f]) /\ FreshStatus(final[f]) \in Tracked))
    <3>1. FreshStatus(final[f]) \in Tracked
      BY <2>4 DEF FreshStatus, Tracked
    <3>2. CASE checked[f] = Absent  BY <3>2 DEF Absent
    <3>3. CASE checked[f] \in Entries
      BY <1>2, <3>1, <3>3 DEF Entries, Closed, HasPosted, IsTracked, Tracked
    <3> QED  BY <2>1, <3>2, <3>3
  <2>5. ASSUME final[f] = "accepted"
        PROVE  Upsert(checked[f], final[f]) = [status |-> "open", posted |-> FALSE]
    <3>1. FreshStatus(final[f]) = "open"  BY <2>5 DEF FreshStatus
    <3> QED  BY <2>1, <2>4, <2>5, <3>1 DEF Upsert
  <2> QED  BY <2>3, <2>5
<1>4. ASSUME NEW f \in Findings
      PROVE  checked[f] \in Entries \cup {Absent}
  BY <1>1, EntriesOfBooks
<1>5. AfterReview(Rechecked(b, verdict), final, merged) \in Books
  BY <1>3, <1>4 DEF AfterReview, Books, checked
<1>6. Accepted(final) \subseteq Findings
  BY <1>2 DEF Accepted
<1>7. ASSUME NEW f \in Accepted(final) \ merged
      PROVE  AfterReview(Rechecked(b, verdict), final, merged)[f] =
                [status |-> "open", posted |-> FALSE]
  <2>1. f \in DOMAIN final /\ final[f] = "accepted" /\ f \in Findings /\ f \notin merged
    BY <1>6, <1>7 DEF Accepted
  <2>2. AfterReview(Rechecked(b, verdict), final, merged)[f] = Upsert(checked[f], final[f])
    BY <2>1 DEF AfterReview, checked
  <2> QED  BY <1>3, <2>1, <2>2
<1> QED  BY <1>5, <1>6, <1>7 DEF final

-------------------------------------------------------------------------------
(* The steps.                                                             *)

\* A review plans what is open and not posted, and goes to the check.
LEMMA ReviewStep ==
    ASSUME TypeOK, Review
    PROVE  /\ run' \in Runs /\ run'.phase = "check"
           /\ \A f \in run'.plan :
                 run'.state.book[f] = [status |-> "open", posted |-> FALSE]
<1>1. /\ run \in Runs /\ run.state \in States /\ run.state.book \in Books
      /\ run.on \in Targets \cup {"none"}
  BY DEF TypeOK, Runs, States
<1>2. PICK verdict \in [Findings -> Verdicts], found \in [Findings -> Verdicts \cup {"none"}] :
         Finish(Rechecked(run.state.book, verdict), Final(run.state.book, verdict, found))
  BY DEF Review
<1> DEFINE checked == Rechecked(run.state.book, verdict)
           final == Final(run.state.book, verdict, found)
<1>3. PICK merged \in SUBSET Accepted(final) :
         \E plan \in SUBSET (Accepted(final) \ merged), complete \in BOOLEAN :
            run' = [run EXCEPT
               !.phase = "check", !.plan = plan, !.surfaced = Accepted(final) \ merged,
               !.reopened = {f \in Accepted(final) \ merged : Closed(checked[f])},
               !.state = [key |-> run.on, complete |-> complete,
                          book |-> AfterReview(checked, final, merged)]]
  BY <1>2 DEF Finish
<1> DEFINE book == AfterReview(checked, final, merged)
           reopened == {f \in Accepted(final) \ merged : Closed(checked[f])}
<1>4. /\ Accepted(final) \subseteq Findings /\ book \in Books
      /\ \A f \in Accepted(final) \ merged : book[f] = [status |-> "open", posted |-> FALSE]
  <2>1. run.state.book \in Books
    BY <1>1
  <2> QED  BY <2>1, ReviewedBooks, ZenonT(30)
<1>5. reopened \subseteq Findings  BY <1>4
<1> HIDE DEF final, book, reopened
<1>6. PICK plan \in SUBSET (Accepted(final) \ merged), complete \in BOOLEAN :
         run' = [run EXCEPT
            !.phase = "check", !.plan = plan, !.surfaced = Accepted(final) \ merged,
            !.reopened = reopened,
            !.state = [key |-> run.on, complete |-> complete, book |-> book]]
  BY <1>3 DEF final, book, reopened
<1> DEFINE state == [key |-> run.on, complete |-> complete, book |-> book]
<1>7. state \in States /\ state.book = book  BY <1>1, <1>4 DEF States
<1> HIDE DEF state
<1>8. run' = [run EXCEPT !.phase = "check", !.plan = plan,
                 !.surfaced = Accepted(final) \ merged,
                 !.reopened = reopened, !.state = state]
  BY <1>6 DEF state
<1>9. run' \in Runs /\ run'.phase = "check" /\ run'.plan = plan /\ run'.state = state
  BY <1>1, <1>4, <1>5, <1>7, <1>8 DEF Runs, Phases
<1> QED  BY <1>4, <1>6, <1>7, <1>9

\* The lists of GitHub become part of the state; what is neither there nor posted
\* before is sent.
LEMMA ListStep ==
    ASSUME TypeOK, PlanIsNew, ListInline
    PROVE  /\ run' \in Runs /\ run'.phase \in {"post", "summary"}
           /\ run'.plan = run.plan
           /\ run'.phase = "summary" => run'.plan \subseteq OnPullRequest
           /\ \A f \in run'.sent : inline[f] = 0
           /\ run'.plan \ run'.sent \subseteq OnPullRequest
           /\ \A f \in OnPullRequest :
                 IsTracked(run'.state.book, f) => run'.state.book[f].posted
<1> DEFINE book == MarkPosted(run.state.book, OnPullRequest)
           todo == {f \in run.plan : ~HasPosted(book, f)}
           phase == IF todo = {} THEN "summary" ELSE "post"
<1>1. /\ run \in Runs /\ run.state \in States /\ run.state.book \in Books
      /\ run.plan \subseteq Findings /\ OnPullRequest \subseteq Findings
      /\ inline \in [Findings -> Nat] /\ run.phase = "list"
  BY DEF TypeOK, Runs, States, OnPullRequest, ListInline
<1>2. run' = [run EXCEPT !.state.book = book, !.sent = todo, !.phase = phase]
  BY DEF ListInline
<1>3. /\ book \in Books
      /\ \A f \in Findings :
            /\ book[f].status = run.state.book[f].status
            /\ book[f].posted = (run.state.book[f].posted \/
                  (f \in OnPullRequest /\ run.state.book[f] # Absent))
  BY <1>1, MarkedBooks
<1>4. \A f \in run.plan : run.state.book[f] = [status |-> "open", posted |-> FALSE]
  BY <1>1 DEF PlanIsNew
<1>5. ASSUME NEW f \in run.plan
      PROVE  f \in todo <=> f \notin OnPullRequest
  <2>1. book[f].status = "open" /\ book[f].posted = (f \in OnPullRequest)
    BY <1>1, <1>3, <1>4, <1>5 DEF Absent
  <2> QED  BY <2>1 DEF HasPosted, IsTracked, Tracked
<1>6. ASSUME NEW f \in OnPullRequest, IsTracked(book, f)
      PROVE  book[f].posted
  <2>1. run.state.book[f].status \in Tracked  BY <1>1, <1>3, <1>6 DEF IsTracked
  <2>2. run.state.book[f] # Absent  BY <1>1, <2>1, EntriesOfBooks
  <2> QED  BY <1>1, <1>3, <2>2
<1>7. todo \subseteq run.plan /\ phase \in {"post", "summary"} /\ (phase = "summary" => todo = {})
  OBVIOUS
<1> HIDE DEF book, todo, phase
<1>8. /\ run' \in Runs /\ run'.phase = phase /\ run'.plan = run.plan
      /\ run'.sent = todo /\ run'.state.book = book
  BY <1>1, <1>2, <1>3, <1>7 DEF Runs, States, Phases
<1>9. \A f \in todo : inline[f] = 0
  BY <1>1, <1>5, <1>7 DEF OnPullRequest
<1> QED  BY <1>5, <1>6, <1>7, <1>8, <1>9

\* After a POST that is known to have landed, the state knows what was sent.
LEMMA SentStep ==
    ASSUME TypeOK, Sent
    PROVE  /\ run' \in Runs /\ run'.phase = "summary" /\ run'.plan = run.plan
           /\ \A f \in Findings :
                 IsTracked(run'.state.book, f) =>
                    /\ IsTracked(run.state.book, f)
                    /\ run.state.book[f].posted => run'.state.book[f].posted
                    /\ f \in run.sent => run'.state.book[f].posted
<1> DEFINE book == MarkPosted(run.state.book, run.sent)
<1>1. run \in Runs /\ run.state \in States /\ run.state.book \in Books
  BY DEF TypeOK, Runs, States
<1>2. run' = [run EXCEPT !.phase = "summary", !.state.book = book]
  BY DEF Sent
<1>3. /\ book \in Books
      /\ \A f \in Findings :
            /\ book[f].status = run.state.book[f].status
            /\ book[f].posted = (run.state.book[f].posted \/
                  (f \in run.sent /\ run.state.book[f] # Absent))
  BY <1>1, MarkedBooks
<1> HIDE DEF book
<1>4. /\ run' \in Runs /\ run'.phase = "summary" /\ run'.plan = run.plan
      /\ run'.state.book = book
  BY <1>1, <1>2, <1>3 DEF Runs, States, Phases
<1>5. ASSUME NEW f \in Findings, IsTracked(book, f)
      PROVE  /\ IsTracked(run.state.book, f) /\ run.state.book[f] # Absent
             /\ run.state.book[f].posted => book[f].posted
  <2>1. run.state.book[f].status \in Tracked  BY <1>3, <1>5 DEF IsTracked
  <2>2. run.state.book[f].posted \in BOOLEAN /\ run.state.book[f] # Absent
    BY <1>1, <2>1, EntriesOfBooks
  <2> QED  BY <1>3, <2>1, <2>2 DEF IsTracked
<1> QED  BY <1>3, <1>4, <1>5

\* A run that ends, for whatever reason, leaves GitHub as it is.
LEMMA IdleStep ==
    ASSUME PublishInv, run' = Idle,
           target' \in Targets, inline' = inline,
           summaries' \in Seq(States), Len(summaries') <= 1
    PROVE  PublishInv'
<1>1. Idle \in Runs /\ Idle.phase = "idle" /\ Idle.plan = {}
  <2>1. Empty \in States  BY DEF Empty, States, Books
  <2> QED  BY <2>1 DEF Idle, Runs, Phases
<1> QED
  BY <1>1 DEF PublishInv, TypeOK, InlineOnce, OneSummary, PlannedIsInline, PlanIsNew,
     SentIsNew, RestIsInline, KnowsComments

\* A step of the run that leaves GitHub as it is, and stays before the POST.
LEMMA EarlyStep ==
    ASSUME PublishInv, UNCHANGED <<target, inline, summaries>>, run' \in Runs,
           run'.phase \in {"review", "check", "list"},
           run'.phase = "review" => run'.plan = {},
           \A f \in run'.plan : run'.state.book[f] = [status |-> "open", posted |-> FALSE]
    PROVE  PublishInv'
BY DEF PublishInv, TypeOK, InlineOnce, OneSummary, PlannedIsInline, PlanIsNew,
     SentIsNew, RestIsInline, KnowsComments

\* Initially GitHub has nothing.
LEMMA InitPublish == Init => PublishInv
<1> SUFFICES ASSUME Init PROVE PublishInv  OBVIOUS
<1>1. Idle \in Runs /\ Idle.phase = "idle" /\ Idle.plan = {}
  <2>1. Empty \in States  BY DEF Empty, States, Books
  <2> QED  BY <2>1 DEF Idle, Runs, Phases
<1>2. summaries = <<>> /\ summaries \in Seq(States) /\ Len(summaries) = 0
  BY DEF Init
<1> QED
  BY <1>1, <1>2 DEF Init, PublishInv, TypeOK, InlineOnce, OneSummary, PlannedIsInline,
     PlanIsNew, SentIsNew, RestIsInline, KnowsComments

\* Every step keeps the invariant.
LEMMA StepPublish == PublishInv /\ [Next]_vars => PublishInv'
<1> SUFFICES ASSUME PublishInv, [Next]_vars PROVE PublishInv'  OBVIOUS
<1>1. /\ TypeOK /\ InlineOnce /\ OneSummary /\ PlannedIsInline
      /\ PlanIsNew /\ SentIsNew /\ RestIsInline /\ KnowsComments
  BY DEF PublishInv
<1>2. /\ target \in Targets /\ inline \in [Findings -> Nat] /\ summaries \in Seq(States)
      /\ run \in Runs /\ run.state \in States /\ run.state.book \in Books
      /\ run.phase \in Phases /\ run.plan \subseteq Findings /\ run.sent \subseteq Findings
      /\ run.on \in Targets \cup {"none"} /\ Len(summaries) <= 1
  BY <1>1 DEF TypeOK, Runs, States, OneSummary
<1>3. Staged \in States  BY <1>1, StagedStates
<1>4. summaries # <<>> =>
         /\ Replace(Staged) \in Seq(States) /\ Len(Replace(Staged)) = Len(summaries)
  <2>1. summaries # <<>> => 1 \in 1 .. Len(summaries)  BY <1>2
  <2> QED  BY <1>2, <1>3, <2>1, ExceptSeq DEF Replace
<1>5. /\ <<Staged>> \in Seq(States) /\ Len(<<Staged>>) = 1
      /\ <<>> \in Seq(States) /\ Len(<<>>) = 0
  BY <1>3
<1>6. ASSUME Move PROVE PublishInv'
  <2>1. target' \in Targets /\ UNCHANGED <<inline, summaries, run>>
    BY <1>6 DEF Move
  <2> QED
    BY <1>1, <2>1 DEF PublishInv, TypeOK, InlineOnce, OneSummary, PlannedIsInline, PlanIsNew,
       SentIsNew, RestIsInline, KnowsComments, OnPullRequest
<1>7. ASSUME Seed PROVE PublishInv'
  <2>1. Idle \in Runs /\ Idle.plan = {}
    <3>1. Empty \in States  BY DEF Empty, States, Books
    <3> QED  BY <3>1 DEF Idle, Runs, Phases
  <2>2. summaries # <<>> => summaries[1] \in States  BY <1>2
  <2>3. run' \in Runs /\ run'.phase = "review" /\ run'.plan = {}
    <3>1. CASE summaries # <<>> /\ run' = [Idle EXCEPT !.phase = "review", !.on = target,
                                                       !.state = summaries[1]]
      BY <1>2, <2>1, <2>2, <3>1 DEF Runs, Phases
    <3>2. CASE run' = [Idle EXCEPT !.phase = "review", !.on = target]
      BY <1>2, <2>1, <3>2 DEF Runs, Phases
    <3> QED  BY <1>7, <3>1, <3>2 DEF Seed
  <2> QED  BY <1>7, <2>3, EarlyStep DEF Seed
<1>8. ASSUME Reuse PROVE PublishInv'
  <2>1. /\ run' \in Runs /\ run'.phase = "check" /\ run'.plan = {}
        /\ UNCHANGED <<target, inline, summaries>>
    BY <1>1, <1>2, <1>8 DEF Reuse, GoTo, PlanIsNew, Runs, Phases
  <2> QED  BY <2>1, EarlyStep
<1>9. ASSUME NothingToReview PROVE PublishInv'
  <2>1. PICK excluded \in BOOLEAN :
           run' = [run EXCEPT !.phase = "check", !.state =
              [key |-> run.on, complete |-> ~excluded,
               book |-> IF excluded THEN run.state.book
                        ELSE [f \in Findings |-> IF IsTracked(run.state.book, f)
                              THEN [run.state.book[f] EXCEPT !.status = "resolved"]
                              ELSE run.state.book[f]]]]
    BY <1>9 DEF NothingToReview
  <2> DEFINE all == [f \in Findings |-> IF IsTracked(run.state.book, f)
                                        THEN [run.state.book[f] EXCEPT !.status = "resolved"]
                                        ELSE run.state.book[f]]
             state == [key |-> run.on, complete |-> ~excluded,
                       book |-> IF excluded THEN run.state.book ELSE all]
  <2>2. all \in Books
    <3>1. ASSUME NEW f \in Findings
          PROVE  /\ run.state.book[f] \in Entries \cup {Absent}
                 /\ IsTracked(run.state.book, f) =>
                       [run.state.book[f] EXCEPT !.status = "resolved"] \in Entries
      <4>1. /\ run.state.book[f] \in Entries \cup {Absent}
            /\ IsTracked(run.state.book, f) => run.state.book[f] \in Entries
        BY <1>2, EntriesOfBooks DEF IsTracked
      <4> QED  BY <4>1 DEF Entries
    <3> QED  BY <3>1 DEF Books
  <2>3. state \in States  BY <1>2, <2>2 DEF States
  <2> HIDE DEF all, state
  <2>4. run' = [run EXCEPT !.phase = "check", !.state = state]
    BY <2>1 DEF state, all
  <2>5. run' \in Runs /\ run'.phase = "check" /\ run'.plan = {}
    BY <1>1, <1>2, <1>9, <2>3, <2>4 DEF NothingToReview, PlanIsNew, Runs, Phases
  <2> QED  BY <1>9, <2>5, EarlyStep DEF NothingToReview
<1>10. ASSUME Review PROVE PublishInv'
  BY <1>1, <1>10, ReviewStep, EarlyStep DEF Review
<1>11. ASSUME CheckTarget PROVE PublishInv'
  <2>1. UNCHANGED <<target, inline, summaries>> /\ run.phase = "check"
    BY <1>11 DEF CheckTarget
  <2>2. CASE run' = Idle  BY <1>2, <2>1, <2>2, IdleStep
  <2>3. CASE run' = [run EXCEPT !.phase = "list"]
    <3>1. /\ run' \in Runs /\ run'.phase = "list" /\ run'.plan = run.plan
          /\ run'.state = run.state
      BY <1>2, <2>3 DEF Runs, Phases
    <3> QED  BY <1>1, <2>1, <3>1, EarlyStep DEF PlanIsNew
  <2> QED  BY <1>11, <2>2, <2>3 DEF CheckTarget, GoTo
<1>12. ASSUME ListInline PROVE PublishInv'
  <2>1. UNCHANGED <<target, inline, summaries>> /\ OnPullRequest' = OnPullRequest
    BY <1>12 DEF ListInline, OnPullRequest
  <2>2. /\ run' \in Runs /\ run'.phase \in {"post", "summary"}
        /\ run'.phase = "summary" => run'.plan \subseteq OnPullRequest
        /\ \A f \in run'.sent : inline[f] = 0
        /\ run'.plan \ run'.sent \subseteq OnPullRequest
        /\ \A f \in OnPullRequest :
              IsTracked(run'.state.book, f) => run'.state.book[f].posted
    BY <1>1, <1>12, ListStep
  <2> QED
    BY <1>1, <2>1, <2>2 DEF PublishInv, TypeOK, InlineOnce, OneSummary, PlannedIsInline,
       PlanIsNew, SentIsNew, RestIsInline, KnowsComments
<1>13. ASSUME run.phase = "post", Land
       PROVE  /\ inline' \in [Findings -> Nat] /\ InlineOnce'
              /\ OnPullRequest' = OnPullRequest \cup run.sent
  <2>1. ASSUME NEW f \in Findings
        PROVE  inline'[f] = IF f \in run.sent THEN inline[f] + 1 ELSE inline[f]
    BY <1>13 DEF Land
  <2>2. inline' \in [Findings -> Nat]  BY <1>2, <1>13 DEF Land
  <2>3. \A f \in run.sent : inline[f] = 0  BY <1>1, <1>13 DEF SentIsNew
  <2> QED  BY <1>1, <1>2, <2>1, <2>2, <2>3 DEF InlineOnce, OnPullRequest
<1>14. ASSUME PostReview PROVE PublishInv'
  <2>1. UNCHANGED <<target, summaries>> /\ run.phase = "post" /\ Land /\ Sent
    BY <1>14 DEF PostReview
  <2>2. /\ run' \in Runs /\ run'.phase = "summary" /\ run'.plan = run.plan
        /\ \A f \in Findings :
              IsTracked(run'.state.book, f) =>
                 /\ IsTracked(run.state.book, f)
                 /\ run.state.book[f].posted => run'.state.book[f].posted
                 /\ f \in run.sent => run'.state.book[f].posted
    BY <1>1, <2>1, SentStep
  <2>3. /\ inline' \in [Findings -> Nat] /\ InlineOnce'
        /\ OnPullRequest' = OnPullRequest \cup run.sent
    BY <1>13, <2>1
  <2>4. PlannedIsInline'
    BY <1>1, <2>1, <2>2, <2>3 DEF RestIsInline, PlannedIsInline
  <2>5. KnowsComments'
    <3> SUFFICES ASSUME NEW f \in OnPullRequest \cup run.sent, IsTracked(run'.state.book, f)
                 PROVE  run'.state.book[f].posted
      BY <2>2, <2>3 DEF KnowsComments
    <3>1. f \in Findings  BY <1>2 DEF OnPullRequest
    <3> QED  BY <1>1, <2>1, <2>2, <3>1 DEF KnowsComments
  <2> QED
    BY <1>1, <2>1, <2>2, <2>3, <2>4, <2>5 DEF PublishInv, TypeOK, OneSummary, PlanIsNew,
       SentIsNew, RestIsInline
<1>15. ASSUME PostRefused PROVE PublishInv'
  <2>1. /\ UNCHANGED <<target, inline, summaries>> /\ run.phase = "post"
        /\ run' = [run EXCEPT !.phase = "summary", !.refused = TRUE]
    BY <1>15 DEF PostRefused
  <2>2. /\ run' \in Runs /\ run'.phase = "summary" /\ run'.refused /\ run'.state = run.state
        /\ OnPullRequest' = OnPullRequest
    BY <1>2, <2>1 DEF Runs, Phases, OnPullRequest
  <2> QED
    BY <1>1, <2>1, <2>2 DEF PublishInv, TypeOK, InlineOnce, OneSummary, PlannedIsInline,
       PlanIsNew, SentIsNew, RestIsInline, KnowsComments
<1>16. ASSUME PostUnanswered PROVE PublishInv'
  <2>1. /\ UNCHANGED <<target, summaries>> /\ run.phase = "post"
        /\ run' = [run EXCEPT !.phase = "unsure"] /\ (Land \/ UNCHANGED inline)
    BY <1>16 DEF PostUnanswered, GoTo
  <2>2. /\ run' \in Runs /\ run'.phase = "unsure" /\ run'.state = run.state
        /\ run'.plan = run.plan /\ run'.sent = run.sent
    BY <1>2, <2>1 DEF Runs, Phases
  <2>3. /\ inline' \in [Findings -> Nat] /\ InlineOnce'
        /\ OnPullRequest \subseteq OnPullRequest'
        /\ OnPullRequest' \subseteq OnPullRequest \cup run.sent
    <3>1. CASE Land  BY <1>13, <2>1, <3>1
    <3>2. CASE UNCHANGED inline  BY <1>1, <1>2, <3>2 DEF InlineOnce, OnPullRequest
    <3> QED  BY <2>1, <3>1, <3>2
  <2> QED
    BY <1>1, <2>1, <2>2, <2>3 DEF PublishInv, TypeOK, OneSummary, PlannedIsInline,
       PlanIsNew, SentIsNew, RestIsInline, KnowsComments
<1>17. ASSUME ReconcileReview PROVE PublishInv'
  <2>1. UNCHANGED <<target, inline, summaries>> /\ run.phase = "unsure"
    BY <1>17 DEF ReconcileReview
  <2>2. CASE run' = Idle  BY <1>2, <2>1, <2>2, IdleStep
  <2>3. CASE run.sent \subseteq OnPullRequest /\ Sent
    <3>1. /\ run' \in Runs /\ run'.phase = "summary" /\ run'.plan = run.plan
          /\ \A f \in Findings :
                IsTracked(run'.state.book, f) =>
                   /\ IsTracked(run.state.book, f)
                   /\ run.state.book[f].posted => run'.state.book[f].posted
                   /\ f \in run.sent => run'.state.book[f].posted
      BY <1>1, <2>3, SentStep
    <3>2. OnPullRequest' = OnPullRequest /\ OnPullRequest \subseteq Findings
      BY <2>1 DEF OnPullRequest
    <3>3. PlannedIsInline'
      BY <1>1, <2>1, <2>3, <3>1, <3>2 DEF RestIsInline, PlannedIsInline
    <3>4. KnowsComments'
      <4> SUFFICES ASSUME NEW f \in OnPullRequest, IsTracked(run'.state.book, f)
                   PROVE  run'.state.book[f].posted
        BY <3>1, <3>2 DEF KnowsComments
      <4> QED  BY <1>1, <2>1, <3>1, <3>2 DEF KnowsComments
    <3> QED
      BY <1>1, <2>1, <3>1, <3>3, <3>4 DEF PublishInv, TypeOK, InlineOnce, OneSummary,
         PlanIsNew, SentIsNew, RestIsInline
  <2> QED  BY <1>17, <2>2, <2>3 DEF ReconcileReview
<1>18. ASSUME UpdateSummary PROVE PublishInv'
  BY <1>2, <1>4, <1>18, IdleStep DEF UpdateSummary
<1>19. ASSUME CreateSummary PROVE PublishInv'
  BY <1>2, <1>5, <1>19, IdleStep DEF CreateSummary
<1>20. ASSUME CreateUnanswered PROVE PublishInv'
  <2>1. /\ UNCHANGED <<target, inline>> /\ run.phase = "summary"
        /\ summaries' \in {<<>>, <<Staged>>}
        /\ run' = [run EXCEPT !.phase = "adopt"]
    BY <1>20 DEF CreateUnanswered, GoTo
  <2>2. /\ run' \in Runs /\ run'.phase = "adopt" /\ run'.state = run.state
        /\ run'.plan = run.plan /\ run'.refused = run.refused
        /\ OnPullRequest' = OnPullRequest
    BY <1>2, <2>1 DEF Runs, Phases, OnPullRequest
  <2>3. summaries' \in Seq(States) /\ Len(summaries') <= 1
    <3>1. CASE summaries' = <<>>  BY <1>5, <3>1
    <3>2. CASE summaries' = <<Staged>>
      <4>1. Len(<<Staged>>) <= 1  BY <1>5
      <4> QED  BY <1>5, <3>2, <4>1
    <3> QED  BY <2>1, <3>1, <3>2
  <2>4. TypeOK' /\ InlineOnce' /\ OneSummary'
    BY <1>1, <2>1, <2>2, <2>3 DEF TypeOK, InlineOnce, OneSummary
  <2>5. PlannedIsInline' /\ KnowsComments'
    BY <1>1, <2>1, <2>2 DEF PlannedIsInline, KnowsComments
  <2> QED
    BY <2>2, <2>4, <2>5 DEF PublishInv, PlanIsNew, SentIsNew, RestIsInline
<1>21. ASSUME Adopt PROVE PublishInv'
  BY <1>2, <1>4, <1>21, IdleStep DEF Adopt
<1>22. ASSUME Stop PROVE PublishInv'
  BY <1>2, <1>22, IdleStep DEF Stop
<1>23. ASSUME UNCHANGED vars PROVE PublishInv'
  BY <1>1, <1>23 DEF vars, PublishInv, TypeOK, InlineOnce, OneSummary, PlannedIsInline,
     PlanIsNew, SentIsNew, RestIsInline, KnowsComments, OnPullRequest
<1> QED
  BY <1>6, <1>7, <1>8, <1>9, <1>10, <1>11, <1>12, <1>14, <1>15, <1>16, <1>17, <1>18,
     <1>19, <1>20, <1>21, <1>22, <1>23 DEF Next, Publishing

\* In every behaviour.
LEMMA PublishKeeps == Spec => []PublishInv
BY InitPublish, StepPublish, PTL DEF Spec

\* Every variable keeps its type.
THEOREM PublishTypes == Spec => []TypeOK
<1>1. PublishInv => TypeOK  BY DEF PublishInv
<1> QED  BY <1>1, PublishKeeps, PTL

\* No finding gets a second inline comment: for all findings, also when answers
\* are lost and runs end between any two requests.
THEOREM CommentsAreUnique == Spec => []InlineOnce
<1>1. PublishInv => InlineOnce  BY DEF PublishInv
<1> QED  BY <1>1, PublishKeeps, PTL

\* There is never a second summary comment.
THEOREM SummaryIsUnique == Spec => []OneSummary
<1>1. PublishInv => OneSummary  BY DEF PublishInv
<1> QED  BY <1>1, PublishKeeps, PTL

\* A run that writes its summary has posted what it planned to place inline.
THEOREM PlansArePosted == Spec => []PlannedIsInline
<1>1. PublishInv => PlannedIsInline  BY DEF PublishInv
<1> QED  BY <1>1, PublishKeeps, PTL

\* The summary that a run leaves knows every comment of what it tracks.
THEOREM CommentsAreRemembered == Spec => CommentedIsRemembered
<1>1. ASSUME PublishInv, [Next]_vars, summaries' # summaries,
             NEW f \in OnPullRequest, IsTracked(run.state.book, f)
      PROVE  HasPosted(summaries'[1].book, f)
  <2>1. /\ run.phase \in {"summary", "adopt"} /\ summaries'[1] = Staged
    <3>1. Replace(Staged)[1] = Staged \/ summaries = <<>>
      <4>1. summaries \in Seq(States)  BY <1>1 DEF PublishInv, TypeOK
      <4> QED  BY <4>1 DEF Replace
    <3>2. <<Staged>>[1] = Staged  OBVIOUS
    <3>3. CASE UpdateSummary \/ Adopt
      BY <1>1, <3>1, <3>3 DEF UpdateSummary, Adopt
    <3>4. CASE CreateSummary \/ CreateUnanswered
      BY <1>1, <3>2, <3>4 DEF CreateSummary, CreateUnanswered
    <3>5. UpdateSummary \/ Adopt \/ CreateSummary \/ CreateUnanswered
      BY <1>1 DEF Next, Publishing, vars, Move, Seed, Reuse, NothingToReview, Review,
         CheckTarget, ListInline, PostReview, PostRefused, PostUnanswered,
         ReconcileReview, Stop
    <3> QED  BY <3>3, <3>4, <3>5
  <2>2. f \in Findings  BY DEF OnPullRequest
  <2>3. HasPosted(run.state.book, f)
    BY <1>1, <2>1 DEF PublishInv, KnowsComments, HasPosted
  <2> QED  BY <1>1, <2>1, <2>2, <2>3, StagedStates DEF PublishInv
<1>2. PublishInv /\ [Next]_vars =>
         [summaries' # summaries =>
            \A f \in OnPullRequest :
               IsTracked(run.state.book, f) => HasPosted(summaries'[1].book, f)]_vars
  BY <1>1
<1> QED  BY <1>2, PublishKeeps, PTL DEF Spec, CommentedIsRemembered
===============================================================================
