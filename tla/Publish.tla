-------------------------------- MODULE Publish --------------------------------
(***************************************************************************)
(* What `revera review' leaves on one pull request, run after run: it reads*)
(* its state from the summary comment of the run before, rechecks what it  *)
(* knows, validates what it finds, posts one review with inline comments   *)
(* and writes the summary comment with the new state.  Between two requests*)
(* to GitHub the process may end, answers may be lost, and the pull request*)
(* may move; the only thing that lasts is what is on the pull request.     *)
(*                                                                         *)
(* Runs of one pull request follow each other: the queue has one lane per  *)
(* repository and a run that is superseded is killed first.                *)
(***************************************************************************)
EXTENDS Naturals, Sequences, FiniteSets

CONSTANTS
    Findings,         \* identities of findings: hash of file and defect key
    Targets,          \* what may be reviewed: head, and base branch
    MaxFindings,      \* review.max_findings
    PublishUncertain, \* review.publish_uncertain
    Faults            \* {"network"}: answers are lost and lists cannot be had

ASSUME MaxFindingsAssumption == MaxFindings \in Nat
ASSUME UncertainAssumption   == PublishUncertain \in BOOLEAN
ASSUME FaultsAssumption      == Faults \subseteq {"network"}

VARIABLES
    target,     \* GitHub: what the pull request is now
    inline,     \* GitHub: how many inline comments carry each identity
    summaries,  \* GitHub: the states in our summary comments, oldest first
    run         \* the run in progress

vars == <<target, inline, summaries, run>>

-------------------------------------------------------------------------------
(* ReviewState.                                                           *)

Verdicts == {"accepted", "rejected", "uncertain"}
Tracked  == {"open", "uncertain"}
Entries  == [status : {"open", "uncertain", "resolved", "rejected"}, posted : BOOLEAN]
Absent   == [status |-> "absent", posted |-> FALSE]

Books  == [Findings -> Entries \cup {Absent}]
States == [book : Books, complete : BOOLEAN, key : Targets \cup {"none"}]
Empty  == [book |-> [f \in Findings |-> Absent], complete |-> FALSE, key |-> "none"]

Phases == {"idle", "review", "check", "list", "post", "unsure", "summary", "adopt"}
Runs   == [phase : Phases, on : Targets \cup {"none"}, state : States,
           plan : SUBSET Findings, surfaced : SUBSET Findings,
           reopened : SUBSET Findings, sent : SUBSET Findings, refused : BOOLEAN]
Idle   == [phase |-> "idle", on |-> "none", state |-> Empty,
           plan |-> {}, surfaced |-> {}, reopened |-> {}, sent |-> {}, refused |-> FALSE]

IsTracked(book, f) == book[f].status \in Tracked
HasPosted(book, f) == IsTracked(book, f) /\ book[f].posted

MarkPosted(book, ids) ==
    [f \in Findings |-> IF f \in ids /\ book[f] # Absent
                        THEN [book[f] EXCEPT !.posted = TRUE] ELSE book[f]]

\* recheck_transition, and the status of a finding with a fresh verdict.
RecheckStatus(v) == IF v = "accepted" THEN "open" ELSE IF v = "rejected" THEN "resolved" ELSE v
FreshStatus(v) == IF v = "accepted" THEN "open" ELSE v

Closed(e) == e.status \in {"resolved", "rejected"}

\* Mutant of Upsert: what was posted once stays posted.
UpsertKeepsPosted(e, v) == [status |-> FreshStatus(v), posted |-> e.posted]

\* `posted' survives while the finding stays open and is reset when it comes back.
Upsert(e, v) ==
    [status |-> FreshStatus(v),
     posted |-> e.posted /\ ~(Closed(e) /\ FreshStatus(v) \in Tracked)]

\* public_projection: what may leave the machine.
Public(e) ==
    \/ e.status = "open"
    \/ e.status = "uncertain" /\ (e.posted \/ PublishUncertain)
    \/ e.status = "resolved" /\ e.posted

Projection(book) == [f \in Findings |-> IF Public(book[f]) THEN book[f] ELSE Absent]

-------------------------------------------------------------------------------
TypeOK ==
    /\ target \in Targets
    /\ inline \in [Findings -> Nat]
    /\ summaries \in Seq(States)
    /\ run \in Runs

Init ==
    /\ target \in Targets
    /\ inline = [f \in Findings |-> 0]
    /\ summaries = <<>>
    /\ run = Idle

\* A push, or another base branch.
Move ==
    /\ \E t \in Targets \ {target} : target' = t
    /\ UNCHANGED <<inline, summaries, run>>

GoTo(phase) == run' = [run EXCEPT !.phase = phase]

\* The state of the run before is in our summary comment.  If the comments
\* cannot be listed, or there is none, the run starts from nothing.
Seed ==
    /\ run.phase = "idle"
    /\ \/ /\ summaries # <<>>
          /\ run' = [Idle EXCEPT !.phase = "review", !.on = target, !.state = summaries[1]]
       \/ /\ summaries = <<>> \/ "network" \in Faults
          /\ run' = [Idle EXCEPT !.phase = "review", !.on = target]
    /\ UNCHANGED <<target, inline, summaries>>

-------------------------------------------------------------------------------
(* The review: prepare, the strategies, finish.                           *)

CanReuse ==
    /\ run.state.complete /\ run.state.key = run.on
    /\ \A f \in Findings : run.state.book[f].status = "open" => run.state.book[f].posted

\* The short circuit for identical content; its summary lists what is open.
Reuse ==
    /\ run.phase = "review" /\ CanReuse
    /\ GoTo("check")
    /\ UNCHANGED <<target, inline, summaries>>

\* Nothing is different from the base: what was open is resolved.  A diff with
\* nothing but excluded files changes no finding and is not complete.
NothingToReview ==
    LET book == run.state.book IN
    /\ run.phase = "review"
    /\ \E excluded \in BOOLEAN :
          run' = [run EXCEPT !.phase = "check", !.state =
              [key |-> run.on, complete |-> ~excluded,
               book |-> IF excluded THEN book
                        ELSE [f \in Findings |-> IF IsTracked(book, f)
                              THEN [book[f] EXCEPT !.status = "resolved"] ELSE book[f]]]]
    /\ UNCHANGED <<target, inline, summaries>>

Rechecked(book, verdict) ==
    [f \in Findings |-> IF IsTracked(book, f)
                        THEN [book[f] EXCEPT !.status = RecheckStatus(verdict[f])]
                        ELSE book[f]]

\* Accepted again and never posted: they are published by this run.
Reenter(book, verdict) ==
    {f \in Findings : /\ IsTracked(book, f) /\ verdict[f] = "accepted"
                      /\ ~HasPosted(Rechecked(book, verdict), f)}

\* `verdict' is that of the recheck for what is tracked; `found' that of the
\* candidates, "none" for what no strategy proposed or was below the severity
\* threshold; an accepted recheck below it is "uncertain".
Final(book, verdict, found) ==
    LET again == Reenter(book, verdict)
        fresh == {f \in Findings : found[f] # "none"
                                   /\ ~IsTracked(Rechecked(book, verdict), f)}
    IN  [f \in again \cup fresh |-> IF f \in again THEN "accepted" ELSE found[f]]

Accepted(final) == {f \in DOMAIN final : final[f] = "accepted"}

\* carried_findings; "uncertain" stands here also for what is open and below the
\* severity threshold, which finish takes out of the open ones after dedup.
Carried(book) == {f \in Findings : HasPosted(book, f)}

\* The state takes every verdict; what was merged into another finding leaves it.
AfterReview(checked, final, merged) ==
    [f \in Findings |-> IF f \in merged THEN Absent
                        ELSE IF f \in DOMAIN final THEN Upsert(checked[f], final[f])
                        ELSE checked[f]]

\* finish: dedup merges some accepted findings into others, and anchoring places
\* some of the rest inline.
Finish(checked, final) ==
    \E merged \in SUBSET Accepted(final) :
    LET publishable == Accepted(final) \ merged IN
    /\ merged # {} => publishable \cup Carried(checked) # {}
    /\ \E plan \in SUBSET publishable, complete \in BOOLEAN :
       /\ Cardinality(plan) <= MaxFindings
       /\ run' = [run EXCEPT
            !.phase = "check", !.plan = plan, !.surfaced = publishable,
            !.reopened = {f \in publishable : Closed(checked[f])},
            !.state = [key |-> run.on, complete |-> complete,
                       book |-> AfterReview(checked, final, merged)]]

Review ==
    LET book == run.state.book IN
    /\ run.phase = "review"
    /\ \E verdict \in [Findings -> Verdicts], found \in [Findings -> Verdicts \cup {"none"}] :
       /\ \A f \in Findings : ~IsTracked(book, f) => verdict[f] = "uncertain"
       /\ Finish(Rechecked(book, verdict), Final(book, verdict, found))
    /\ UNCHANGED <<target, inline, summaries>>

-------------------------------------------------------------------------------
(* publish.                                                               *)

\* The freshness check: what moved is not published.
CheckTarget ==
    /\ run.phase = "check"
    /\ IF target = run.on THEN GoTo("list") ELSE run' = Idle
    /\ UNCHANGED <<target, inline, summaries>>

OnPullRequest == {f \in Findings : inline[f] > 0}

\* Mutant of ListInline: the state alone says what was posted.
ListInlineFromState ==
    /\ run.phase = "list"
    /\ LET todo == {f \in run.plan : ~HasPosted(run.state.book, f)}
       IN  run' = [run EXCEPT !.sent = todo, !.phase = IF todo = {} THEN "summary" ELSE "post"]
    /\ UNCHANGED <<target, inline, summaries>>

\* Our comments on the pull request are the record of what was posted.
ListInline ==
    /\ run.phase = "list"
    /\ LET book == MarkPosted(run.state.book, OnPullRequest)
           todo == {f \in run.plan : ~HasPosted(book, f)}
       IN  run' = [run EXCEPT !.state.book = book, !.sent = todo,
                              !.phase = IF todo = {} THEN "summary" ELSE "post"]
    /\ UNCHANGED <<target, inline, summaries>>

Land == inline' = [f \in Findings |-> IF f \in run.sent THEN inline[f] + 1 ELSE inline[f]]

Sent == run' = [run EXCEPT !.phase = "summary",
                           !.state.book = MarkPosted(run.state.book, run.sent)]

PostReview ==
    /\ run.phase = "post"
    /\ Land /\ Sent
    /\ UNCHANGED <<target, summaries>>

\* 422: a line is not part of the diff; the summary lists the findings instead.
PostRefused ==
    /\ run.phase = "post"
    /\ run' = [run EXCEPT !.phase = "summary", !.refused = TRUE]
    /\ UNCHANGED <<target, inline, summaries>>

PostUnanswered ==
    /\ run.phase = "post" /\ "network" \in Faults
    /\ Land \/ UNCHANGED inline
    /\ GoTo("unsure")
    /\ UNCHANGED <<target, summaries>>

\* Go on only if every comment is there; the POST is not repeated.
ReconcileReview ==
    /\ run.phase = "unsure"
    /\ IF run.sent \subseteq OnPullRequest THEN Sent ELSE run' = Idle
    /\ UNCHANGED <<target, inline, summaries>>

Staged == [run.state EXCEPT !.book = Projection(MarkPosted(@, run.surfaced))]

Replace(s) == [summaries EXCEPT ![1] = s]

\* The PATCH is repeated until it is answered, or the run ends with an error,
\* whether GitHub took it or not.
UpdateSummary ==
    /\ run.phase = "summary" /\ summaries # <<>>
    /\ summaries' = Replace(Staged)
    /\ run' = Idle
    /\ UNCHANGED <<target, inline>>

CreateSummary ==
    /\ run.phase = "summary" /\ summaries = <<>>
    /\ summaries' = <<Staged>>
    /\ run' = Idle
    /\ UNCHANGED <<target, inline>>

CreateUnanswered ==
    /\ run.phase = "summary" /\ summaries = <<>> /\ "network" \in Faults
    /\ summaries' \in {<<>>, <<Staged>>}
    /\ GoTo("adopt")
    /\ UNCHANGED <<target, inline>>

\* Mutant of Adopt: post it again.
AdoptNone ==
    /\ run.phase = "adopt"
    /\ run' = Idle
    /\ summaries' = Append(summaries, Staged)
    /\ UNCHANGED <<target, inline>>

\* The comment that may have been created is taken over if it is there, and
\* written once more; a second one is never posted.
Adopt ==
    /\ run.phase = "adopt"
    /\ run' = Idle
    /\ summaries' = IF summaries = <<>> THEN summaries ELSE Replace(Staged)
    /\ UNCHANGED <<target, inline>>

\* The process is killed, or a request fails for good.
Stop ==
    /\ run.phase # "idle"
    /\ run' = Idle
    /\ UNCHANGED <<target, inline, summaries>>

Publishing ==
    \/ CheckTarget \/ ListInline \/ PostReview \/ PostRefused \/ PostUnanswered
    \/ ReconcileReview \/ UpdateSummary \/ CreateSummary \/ CreateUnanswered \/ Adopt

Next == Move \/ Seed \/ Reuse \/ NothingToReview \/ Review \/ Publishing \/ Stop

Spec == Init /\ [][Next]_vars

-------------------------------------------------------------------------------
(* Properties.                                                            *)

\* No finding gets a second inline comment, whatever is lost and wherever a run
\* ends: "the durable record of what was published, independent of the summary
\* blob".
InlineOnce == \A f \in Findings : inline[f] <= 1

\* "Never post a second one blindly": there is one summary comment.
OneSummary == Len(summaries) <= 1

\* A run that comes to its summary has every finding it meant to place inline
\* on the pull request, unless GitHub refused the lines: nothing that was only
\* listed in a summary before, or only seemed to be posted, is left out.
PlannedIsInline ==
    run.phase \in {"summary", "adopt"} /\ ~run.refused => run.plan \subseteq OnPullRequest

\* A finding that the run still tracks and whose comment is on the pull request
\* is known as posted to the next run, also if an earlier run posted it and could
\* not write so, or this run had no state to start from: it is neither dropped
\* from the state as unpublished nor taken for a finding that must be posted.
CommentedIsRemembered ==
    [][summaries' # summaries =>
         \A f \in OnPullRequest :
            IsTracked(run.state.book, f) => HasPosted(summaries'[1].book, f)]_vars
===============================================================================
