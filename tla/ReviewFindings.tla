---------------------------- MODULE ReviewFindings ----------------------------
(***************************************************************************)
(* What one run of `revera review' does with findings, from the state it    *)
(* starts from and the candidates its investigators submit to the report,   *)
(* the inline places and the new state: recheck, collapse, validate, join   *)
(* rediscoveries, compare with what is posted, anchor.  Publish leaves this *)
(* to one step, Review; FinishImplementsReview relates the two.             *)
(*                                                                         *)
(* All findings are in one file.  An identity is the hash of the file and   *)
(* the finding's defect key; titles count as similar whenever lines overlap.*)
(***************************************************************************)
EXTENDS UnifiedDiff, FiniteSets

CONSTANTS
    Findings,     \* identities: numbers, in the order of the state's list
    File,         \* the file they are in
    Inputs,       \* where a run may start: [book, change, most], see FindingsInit
    Spans,        \* line ranges of candidates
    Severities,   \* the higher, the worse
    MinSeverity,  \* review.min_severity
    InlineMin,    \* review.inline_min_severity
    MaxFindings   \* review.max_findings

ASSUME FindingsAssumption == Findings \subseteq Nat \ {0} /\ IsFiniteSet(Findings)
ASSUME SeveritiesAssumption ==
    Severities \subseteq Nat /\ MinSeverity \in Nat /\ InlineMin \in Nat
ASSUME MaxFindingsAssumption == MaxFindings \in Nat
ASSUME SpansAssumption == Spans \subseteq Nat \X Nat

VARIABLES
    stage,     \* prepare, investigate, validate, dedup, anchor, done
    change,    \* the change under review
    most,      \* bound: how many candidates are submitted
    book,      \* ReviewState.findings
    rechecks,  \* prepared.rechecks: the new verdict on what was tracked
    items,     \* the list of findings on its way through finish
    low,       \* below_threshold_prior: tracked, and now below the threshold
    places,    \* where each publishable finding is reported
    reopened,  \* the findings that came back
    start      \* history: the state the run started from

findingsVars == <<stage, change, most, book, rechecks, items, low, places, reopened, start>>

-------------------------------------------------------------------------------
Tracked   == {"open", "uncertain"}
Untracked == [status |-> "absent", posted |-> FALSE]
NotMerged == 0

Entries == {Untracked}
           \cup [status : {"open", "uncertain", "resolved", "rejected"}, posted : BOOLEAN]

ASSUME InputsAssumption ==
    \A input \in Inputs : /\ input.book \in [Findings -> Entries]
                          /\ input.change \in Seq(FileDiffs)
                          /\ input.most \in Nat

IsTracked(b, f) == b[f].status \in Tracked
HasPosted(b, f) == IsTracked(b, f) /\ b[f].posted

\* A finding; `merged' is duplicate_of.
Finding(id, at, sev, status) ==
    [id |-> id, at |-> at, sev |-> sev, status |-> status, merged |-> NotMerged]

Candidates == {Finding(f, at, s, "none") : f \in Findings, at \in Spans, s \in Severities}

IsPublishable(item) == item.status = "accepted" /\ item.merged = NotMerged

\* A verdict may move the severity, up or down, and the lines.
NoOpinion == [status |-> "none"]
Opinions  == [status : {"accepted"}, sev : Severities, at : Spans]
             \cup [status : {"rejected", "uncertain"}]

FindingsInit ==
    /\ stage = "prepare"
    /\ \E input \in Inputs : /\ book = input.book
                             /\ change = input.change
                             /\ most = input.most
    /\ rechecks = [f \in Findings |-> NoOpinion]
    /\ items = <<>>
    /\ low = {}
    /\ places = [f \in Findings |-> "none"]
    /\ reopened = {}
    /\ start = book

RecheckStatus(v) == IF v = "accepted" THEN "open" ELSE IF v = "rejected" THEN "resolved" ELSE v

\* prepare: every open or uncertain finding is validated again.
Recheck ==
    /\ stage = "prepare"
    /\ stage' = "investigate"
    /\ rechecks' \in [Findings -> Opinions \cup {NoOpinion}]
    /\ \A f \in Findings : IsTracked(book, f) <=> rechecks'[f] # NoOpinion
    /\ book' = [f \in Findings |->
                  IF IsTracked(book, f)
                  THEN [book[f] EXCEPT !.status = RecheckStatus(rechecks'[f].status)]
                  ELSE book[f]]
    /\ UNCHANGED <<change, most, items, low, places, reopened, start>>

-------------------------------------------------------------------------------
(* Candidates: collapse, the threshold, and what is already tracked.      *)

Overlap(a, b) == a.at[1] <= b.at[2] /\ b.at[1] <= a.at[2]

\* One defect: the same key, or overlapping lines and similar titles.
Alike(a, b) == a.id = b.id \/ Overlap(a, b)

\* A candidate that is like none before it stands for itself; another one joins
\* the first that is alike, and the worse severity counts.
Joined(out, c) ==
    LET alike == {i \in DOMAIN out : Alike(out[i], c)}
    IN  IF alike = {} THEN Append(out, c)
        ELSE [out EXCEPT ![Min(alike)].sev = Max({@, c.sev})]

Collapse(list) ==
    LET out[n \in 0..Len(list)] == IF n = 0 THEN <<>> ELSE Joined(out[n - 1], list[n])
    IN  out[Len(list)]

\* The n-th of a set of numbers, and what a list has there, in its order.
Nth(S, n)        == CHOOSE k \in S : Cardinality({j \in S : j < k}) = n - 1
Retain(list, at) == [n \in 1..Cardinality(at) |-> list[Nth(at, n)]]

\* Accepted again and never posted: they are published by this run.
Reentering ==
    {f \in Findings : rechecks[f].status = "accepted" /\ ~HasPosted(book, f)}

Reentered ==
    Retain([f \in Reentering |-> Finding(f, rechecks[f].at, rechecks[f].sev, "accepted")],
           Reentering)

IsSevere(item) == item.sev >= MinSeverity
IsNews(item)   == ~(IsTracked(book, item.id) /\ item.id \notin Reentering)

Investigate ==
    /\ stage = "investigate"
    /\ stage' = "validate"
    /\ \E n \in 0..most : \E list \in [1..n -> Candidates] :
          LET out == Collapse(list) IN
          items' = Retain(out, {i \in DOMAIN out : IsSevere(out[i]) /\ IsNews(out[i])})
    /\ UNCHANGED <<change, most, book, rechecks, low, places, reopened, start>>

-------------------------------------------------------------------------------
(* Verdicts.                                                              *)

\* Also one that is not accepted may come with another severity.
WithVerdict(item, v, s) == [item EXCEPT !.status = v, !.sev = s]
Judged(item) ==
    {WithVerdict(item, v, s) : v \in {"accepted", "rejected", "uncertain"}, s \in Severities}

SameId(list, i) == {j \in DOMAIN list : list[j].id = list[i].id}
Firsts(list)    == {i \in DOMAIN list : \A j \in SameId(list, i) : i <= j}

\* Mutant of Canonical: whatever came first stays.
CanonicalKeepsFirst(list) == Retain(list, Firsts(list))

\* The first accepted verdict on the identity of the i-th finding, or else that one.
Standing(list, i) ==
    LET accepted == {j \in SameId(list, i) : IsPublishable(list[j])}
    IN  IF accepted = {} THEN list[i] ELSE list[Min(accepted)]

\* canonicalize_findings: one finding for each identity, in its first place.
Canonical(list) == Retain([i \in DOMAIN list |-> Standing(list, i)], Firsts(list))

\* The validators answer; what re-enters joins the list; the threshold applies
\* again, to the severities of the verdicts.
Validate ==
    /\ stage = "validate"
    /\ stage' = "dedup"
    /\ \E judged \in [DOMAIN items -> UNION {Judged(items[i]) : i \in DOMAIN items}] :
        LET all == Canonical(judged \o Reentered) IN
        /\ \A i \in DOMAIN items : judged[i] \in Judged(items[i])
        /\ items' = Retain(all, {i \in DOMAIN all : IsSevere(all[i])})
        /\ low' = {f \in Findings : rechecks[f].status = "accepted"
                                    /\ rechecks[f].sev < MinSeverity}
                  \cup {f \in Findings : IsTracked(book, f) /\ \E i \in DOMAIN all :
                                    all[i].id = f /\ ~IsSevere(all[i])}
    /\ UNCHANGED <<change, most, book, rechecks, places, reopened, start>>

-------------------------------------------------------------------------------
(* Deduplication: a model groups what has one cause and one fix.           *)

\* carried_findings: open, posted and not among the run's own findings.
Carried(b, list) ==
    {f \in Findings : /\ b[f].status = "open" /\ b[f].posted
                      /\ \A i \in DOMAIN list : list[i].id # f}

News   == {i \in DOMAIN items : IsPublishable(items[i])}
Refs   == ({"new"} \X News) \cup ({"posted"} \X Carried(book, items))
Groups == SUBSET (Refs \cup {<<"unknown", 0>>})

\* An answer is refused as a whole.
IsValid(answer) ==
    /\ \A g \in answer : g \subseteq Refs /\ Cardinality(g) >= 2
    /\ \A g, h \in answer : g = h \/ g \cap h = {}

Numbers(kind, g) == {r[2] : r \in {x \in g : x[1] = kind}}

\* The worst of the new findings, the first of several.
Winner(news) ==
    Min({i \in news : \A j \in news : items[j].sev <= items[i].sev})

\* Mutant of Target: the first finding of a group stays.
TargetFirst(g) ==
    IF Numbers("posted", g) # {} THEN Min(Numbers("posted", g))
    ELSE items[Min(Numbers("new", g))].id

\* What the others of a group are duplicates of: a posted finding if there is one.
Target(g) ==
    IF Numbers("posted", g) # {} THEN Min(Numbers("posted", g))
    ELSE items[Winner(Numbers("new", g))].id

Merged(answer, i) ==
    LET of == {g \in answer : <<"new", i>> \in g}
    IN  IF of = {} \/ items[i].id \in {Target(g) : g \in of} THEN items[i]
        ELSE [items[i] EXCEPT !.merged = CHOOSE t \in {Target(g) : g \in of} : TRUE]

\* Mutant of Apply: groups are applied until one is refused.
ApplyWhatIsValid(answer) ==
    [i \in DOMAIN items |-> Merged({g \in answer : IsValid({g})}, i)]

Apply(answer) ==
    IF IsValid(answer) THEN [i \in DOMAIN items |-> Merged(answer, i)] ELSE items

\* No call is made without a new finding and another one; a call that fails, or
\* has no time or request left, is an empty answer.
Dedup ==
    /\ stage = "dedup"
    /\ stage' = "anchor"
    /\ IF News = {} \/ Cardinality(Refs) < 2 THEN UNCHANGED items
       ELSE \E g \in Groups, h \in Groups : items' = Apply({g, h} \ {{}})
    /\ UNCHANGED <<change, most, book, rechecks, low, places, reopened, start>>

-------------------------------------------------------------------------------
(* Anchors and the new state.                                             *)

HeadLines == HeadSideLines(ParseUnified(Text(change)), File)

Anchors  == {i \in News : items[i].at[1] \in HeadLines}
Eligible == {i \in Anchors : items[i].sev >= InlineMin}

\* By line, then place in the list.
Above(i, j) ==
    \/ items[i].at[1] < items[j].at[1]
    \/ items[i].at[1] = items[j].at[1] /\ i < j

GoesFirst(i, j) ==
    \/ items[i].sev > items[j].sev
    \/ items[i].sev = items[j].sev /\ Above(i, j)

\* Mutant of Inline: by line alone.
InlineByLine ==
    {i \in Eligible : Cardinality({j \in Eligible : Above(j, i)}) < MaxFindings}

Inline == {i \in Eligible : Cardinality({j \in Eligible : GoesFirst(j, i)}) < MaxFindings}

Place(i) == IF items[i].sev < InlineMin THEN "lower"
            ELSE IF i \in Inline THEN "inline" ELSE "outside"

FreshStatus(v) == IF v = "accepted" THEN "open" ELSE v
Closed(e)      == e.status \in {"resolved", "rejected"}
ComesBack(e, status) == Closed(e) /\ status \in Tracked

\* ReviewState::upsert.
Upsert(e, status) ==
    [status |-> status, posted |-> e.posted /\ ~ComesBack(e, status)]

\* A merged finding leaves the state; one below the threshold is uncertain from
\* now on; the verdicts come last.
NewEntry(f) ==
    LET own == {i \in DOMAIN items : items[i].id = f} IN
    IF \E i \in own : items[i].merged # NotMerged THEN Untracked
    ELSE IF own # {}
    THEN Upsert(IF f \in low THEN Upsert(book[f], "uncertain") ELSE book[f],
                FreshStatus(items[Min(own)].status))
    ELSE IF f \in low THEN Upsert(book[f], "uncertain") ELSE book[f]

Anchor ==
    /\ stage = "anchor"
    /\ stage' = "done"
    /\ places' = [f \in Findings |->
                    IF \E i \in News : items[i].id = f
                    THEN Place(CHOOSE i \in News : items[i].id = f) ELSE "none"]
    /\ book' = [f \in Findings |-> NewEntry(f)]
    /\ reopened' = {items[i].id : i \in {j \in News : ComesBack(book[items[j].id], "open")}}
    /\ UNCHANGED <<change, most, rechecks, items, low, start>>

FindingsNext == Recheck \/ Investigate \/ Validate \/ Dedup \/ Anchor

FindingsSpec == FindingsInit /\ [][FindingsNext]_findingsVars

-------------------------------------------------------------------------------
(* Properties.                                                            *)

\* The list that a finding is in, and what a merged one was merged into.
Own(f)     == {i \in DOMAIN items : items[i].id = f}
IsShown(f) == places[f] # "none" \/ f \in Carried(book, items)

\* The lines on which GitHub is asked to place comments are the lines the change
\* really has on its new side, with notes on missing newlines, files renamed, added
\* or deleted, several hunks and text that looks like a header.  Two cases are left
\* out, both read wrong by parse_unified and DiffSet::file: an added line that begins
\* with `++ ', and a path that an earlier file of the diff had before it was renamed,
\* or seems to have from the text of a line.
HeadLinesAreReal ==
    \A i \in DOMAIN change :
        \/ Misread(change[i]) \/ Shadowed(change, i)
        \/ HeadSideLines(ParseUnified(Text(change)), Path(change[i])) = RealLines(change[i])

\* Whatever is accepted, new or again, is shown: inline, in one of the summary's
\* sections, as carried over, or through the finding it was merged into, which
\* is no less severe if it is new.  Left out is what was merged into a posted
\* finding that this run found to be below the threshold: that is shown nowhere.
NothingVanishes ==
    stage = "done" =>
        /\ \A i \in DOMAIN items : items[i].status = "accepted" =>
              LET into == items[i].merged IN
              \/ into = NotMerged /\ places[items[i].id] # "none"
              \/ into # NotMerged /\ (IsShown(into) \/ into \in low)
        /\ \A i, j \in DOMAIN items :
              items[i].merged = items[j].id => items[i].sev <= items[j].sev
        /\ \A f \in Findings \ low :
              rechecks[f].status = "accepted" => IsShown(f) \/ Own(f) # {}

\* Inline places go to lines of the change, to what is severe enough, and to the
\* most severe findings when there are more than max_findings.
MostSevereInline ==
    LET inline   == {i \in DOMAIN items : places[items[i].id] = "inline"}
        eligible == {i \in DOMAIN items : /\ IsPublishable(items[i])
                                         /\ items[i].sev >= InlineMin
                                         /\ items[i].at[1] \in HeadLines}
    IN  stage = "done" =>
            /\ inline \subseteq eligible
            /\ Cardinality(inline) = Min({MaxFindings, Cardinality(eligible)})
            /\ \A i \in inline, j \in eligible \ inline : items[j].sev <= items[i].sev

\* The run as Publish has it: what is reported, and the new state.
AbstractRun ==
    [phase    |-> IF stage = "done" THEN "check" ELSE "review",
     on       |-> "head",
     state    |-> [book     |-> IF stage = "done" THEN book ELSE start,
                   complete |-> FALSE,
                   key      |-> IF stage = "done" THEN "head" ELSE "none"],
     plan     |-> {f \in Findings : places[f] = "inline"},
     surfaced |-> {f \in Findings : places[f] # "none"},
     reopened |-> reopened,
     sent     |-> {},
     refused  |-> FALSE]

P == INSTANCE Publish WITH
        Targets <- {"head"}, PublishUncertain <- FALSE, Faults <- {},
        target <- "head", inline <- [f \in Findings |-> 0], summaries <- <<>>,
        run <- AbstractRun

\* The verdicts of the run, as one step sees them: a tracked finding that was
\* accepted below the threshold is uncertain.
Verdict ==
    [f \in Findings |->
        IF ~IsTracked(start, f) \/ (f \in low /\ Own(f) = {}) THEN "uncertain"
        ELSE rechecks[f].status]

Found == [f \in Findings |-> IF Own(f) = {} THEN "none" ELSE items[Min(Own(f))].status]

\* finish, from collapse to the new state, does what Publish's one step Review
\* promises: no more inline places than max_findings, posted findings neither
\* proposed again nor forgotten, a closed finding reopened only by a fresh
\* verdict, and nothing out of the state but what was merged into another.
FinishImplementsReview ==
    [][stage' = "done" =>
         P!Finish(P!Rechecked(start, Verdict), P!Final(start, Verdict, Found))]_findingsVars
===============================================================================
