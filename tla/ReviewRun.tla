------------------------------- MODULE ReviewRun -------------------------------
(***************************************************************************)
(* One run of `revera review` as its strategies conduct it (src/pipeline): *)
(* pass the gates of ReviewCommand, index, recheck what is tracked, let    *)
(* agents investigate, validate their candidates, deduplicate, report,     *)
(* publish and exit.  What matters is what the run may claim (complete or  *)
(* partial), which candidates reach the report, and when each stage ends.  *)
(*                                                                         *)
(* An agent is what AgentLoop shows of it: it submits or stops at any time *)
(* up to its budget and the grace period.  Time is counted in ticks and    *)
(* passes only while some agent works.  The request ledger may be spent at *)
(* any time.  What verdicts do to the state and to the comments is in      *)
(* Publish; severities, prompts and the wording of reasons are left out.   *)
(***************************************************************************)
EXTENDS ReviewCommand, Integers, FiniteSets

CONSTANTS
    Findings,       \* defects, by finding id
    Histories,      \* sets of findings the state may hold at the start
    IndexTimes,     \* how long indexing may take, in ticks
    Verdicts,       \* what validators may say: accepted, rejected, uncertain
    Invocations,    \* bound: what is called, with which files and checkout
    Lanes,          \* scouts of a panel, and most questions of a plan
    Concurrency,    \* review.concurrency
    RunSeconds,     \* run_max_seconds, in ticks
    ReserveMax,     \* most time held back for validation: 120 seconds
    AgentSeconds,   \* agent_max_seconds
    WorkerSeconds,  \* worker_max_seconds
    Grace,          \* TERMINAL_GRACE
    DedupMargin,    \* 10 seconds
    DedupMax        \* 60 seconds

ASSUME ReviewAssumption ==
    /\ Histories \subseteq SUBSET Findings
    /\ Verdicts \subseteq {"accepted", "rejected", "uncertain"}
    /\ IndexTimes \subseteq 0 .. RunSeconds
    /\ Invocations \subseteq [call : Calls, sources : Sources, tree : Trees]
    /\ Lanes \in Nat \ {0} /\ Concurrency \in Nat
    /\ {RunSeconds, ReserveMax, AgentSeconds, WorkerSeconds, Grace,
        DedupMargin, DedupMax} \subseteq Nat

LaneIds == 1 .. Lanes

VARIABLES
    strategy,       \* baseline, panel or delegated
    validate,       \* review.validate
    publish,        \* whether the review is to be published
    exit,           \* the exit code, once the command ended
    tracked,        \* findings the state holds as open or uncertain
    posted,         \* those of them that were posted
    now,            \* ticks since the start
    phase,          \* the stage the run is in
    spent,          \* the ledger has no requests left
    check,          \* validator agents of the stage, by finding
    rechecked,      \* verdicts of the recheck
    lane,           \* scouts or workers
    lead,           \* the investigator, or the lead's plan or synthesis
    submitted,      \* candidates from lanes so far
    raw,            \* candidates the strategy hands to finish
    partial,        \* partial_reasons, by kind; "scope" is no index or an omitted file
    dropped         \* findings that are duplicates of others

vars == <<strategy, validate, publish, exit, tracked, posted, now, phase, spent, check, rechecked,
          lane, lead, submitted, raw, partial, dropped>>
command == <<strategy, validate, publish, exit, tracked, posted>>

\* "unknown" is a validator that gave no verdict; its finding is uncertain.
NoCheck == [at |-> "none", until |-> 0, verdict |-> "none"]
NoAgent == [at |-> "none", until |-> 0, result |-> "none"]

Smaller(a, b) == IF a <= b THEN a ELSE b

Init ==
    /\ strategy = "baseline" /\ validate = TRUE /\ publish = "dry-run"
    /\ exit = {}
    /\ tracked \in Histories
    /\ posted \in SUBSET tracked
    /\ now = 0
    /\ phase = "command"
    /\ spent = FALSE
    /\ check = [f \in Findings |-> NoCheck]
    /\ rechecked = [f \in Findings |-> "none"]
    /\ lane = [l \in LaneIds |-> NoAgent]
    /\ lead = NoAgent
    /\ submitted = {}
    /\ raw = {}
    /\ partial = {}
    /\ dropped = {}

-------------------------------------------------------------------------------
(* The command's first part. *)

Command ==
    /\ phase = "command"
    /\ \E i \in Invocations :
          LET cfg  == Loaded(i.call, i.sources)
              goes == Admitted(i.call, i.sources) /\ Ready(i.call, i.tree)
          IN  \/ /\ goes
                 /\ strategy' = cfg.strategy /\ validate' = cfg.validate
                 /\ publish' = Publishes(i.call, cfg)
                 /\ phase' = "index"
                 /\ UNCHANGED exit
              \/ /\ ~goes
                 /\ exit' = {Refusal(i.call, i.sources, i.tree)}
                 /\ phase' = "ended"
                 /\ UNCHANGED <<strategy, validate, publish>>
    /\ UNCHANGED <<tracked, posted, now, spent, check, rechecked, lane, lead, submitted, raw,
                   partial, dropped>>

-------------------------------------------------------------------------------
(* Deadlines.                                                              *)

Deadline == RunSeconds

\* validation_reserve: a quarter of the run, capped; nothing without validation.
Reserve == IF validate THEN Smaller(RunSeconds \div 4, ReserveMax) ELSE 0

InvestigationDeadline == Deadline - Reserve

\* What is left until d.
Left(d) == IF now < d THEN d - now ELSE 0

\* The latest end of an agent with a budget of seconds clamped to d.
AgentEnd(seconds, d) == now + Smaller(seconds, Left(d)) + Grace

\* timeout_at: even the grace period ends at the investigation's deadline.
CutOff(end) == Smaller(end, InvestigationDeadline)

\* Mutant of Permits: the setting as it is.
PermitsAsSet == Concurrency

\* A concurrency of 0 is not refused by the configuration and counts as 1.
Permits == IF Concurrency = 0 THEN 1 ELSE Concurrency

Running(a) == a.at = "running"
BusyLanes == {l \in LaneIds : Running(lane[l])}
BusyChecks == {f \in Findings : Running(check[f])}

-------------------------------------------------------------------------------
(* Validators, of rechecks and of candidates.                              *)

\* validate_candidates spawns one task per candidate, or skips them all once the
\* deadline has passed.
Spawned(fs) ==
    [f \in Findings |->
        CASE f \notin fs                    -> NoCheck
          [] f \in fs /\ now < Deadline     -> [NoCheck EXCEPT !.at = "waiting"]
          [] f \in fs /\ ~(now < Deadline)  -> [NoCheck EXCEPT !.at = "over", !.verdict = "unknown"]]

\* Mutant of CheckStarts: the deadline is looked at when tasks are spawned only.
CheckStartsAnyway(f) ==
    /\ check[f].at = "waiting"
    /\ Cardinality(BusyChecks) < Permits
    /\ check' = [check EXCEPT ![f] = [@ EXCEPT !.at = "running",
                                               !.until = now + AgentSeconds + Grace]]

\* A permit is free: the validator's budget is what is left, if anything is.
CheckStarts(f) ==
    /\ check[f].at = "waiting"
    /\ Cardinality(BusyChecks) < Permits
    /\ \/ /\ Left(Deadline) > 0
          /\ check' = [check EXCEPT ![f] = [@ EXCEPT !.at = "running",
                                                     !.until = AgentEnd(AgentSeconds, Deadline)]]
       \/ /\ Left(Deadline) = 0
          /\ check' = [check EXCEPT ![f] = [@ EXCEPT !.at = "over", !.verdict = "unknown"]]

CheckEnds(f) ==
    /\ Running(check[f])
    /\ \E v \in Verdicts \cup {"unknown"} :
          check' = [check EXCEPT ![f] = [NoCheck EXCEPT !.at = "over", !.verdict = v]]

Checking ==
    /\ phase \in {"recheck", "validate"}
    /\ \E f \in Findings : CheckStarts(f) \/ CheckEnds(f)
    /\ UNCHANGED <<command, now, phase, spent, rechecked, lane, lead, submitted, raw, partial,
                   dropped>>

ChecksOver == \A f \in Findings : check[f].at \in {"none", "over"}

\* The reason of validate_candidates, if some task ended without a verdict.
Inconclusive == IF \E f \in Findings : check[f].verdict = "unknown" THEN {phase} ELSE {}

-------------------------------------------------------------------------------
(* prepare.                                                                *)

\* Vera configures and indexes until the deadline at most, and may fail; the
\* rechecks follow.
Index ==
    /\ phase = "index"
    /\ now' \in IndexTimes
    /\ partial' \in SUBSET {"scope"}
    /\ phase' = "recheck"
    /\ check' = [f \in Findings |->
                    IF ~validate \/ f \notin tracked THEN NoCheck
                    ELSE IF now' < Deadline THEN [NoCheck EXCEPT !.at = "waiting"]
                    ELSE [NoCheck EXCEPT !.at = "over", !.verdict = "unknown"]]
    /\ UNCHANGED <<command, spent, rechecked, lane, lead, submitted, raw, dropped>>

\* How each strategy begins: one investigator, the scouts, or the lead's plan.
\* All have budgets up to the investigation's deadline; only lanes are cut off.
Investigating(agent) == [NoAgent EXCEPT !.at = "running",
                                        !.until = AgentEnd(AgentSeconds, InvestigationDeadline)]
FirstPhase ==
    CASE strategy = "baseline"  -> "investigate"
      [] strategy = "panel"     -> "lanes"
      [] strategy = "delegated" -> "plan"

\* The rechecks are over, and files that were left out of the diff are known.
Prepared ==
    /\ phase = "recheck"
    /\ ChecksOver
    /\ rechecked' = [f \in Findings |-> check[f].verdict]
    /\ \E omitted \in SUBSET {"scope"} : partial' = partial \cup Inconclusive \cup omitted
    /\ check' = [f \in Findings |-> NoCheck]
    /\ phase' = FirstPhase
    /\ lane' = [l \in LaneIds |->
                   IF strategy = "panel" THEN [NoAgent EXCEPT !.at = "waiting"] ELSE NoAgent]
    /\ lead' = IF strategy = "panel" THEN NoAgent ELSE Investigating(lead)
    /\ UNCHANGED <<command, now, spent, submitted, raw, dropped>>

-------------------------------------------------------------------------------
(* Lanes: the scouts of a panel, the workers of a plan.                    *)

LaneSeconds == IF strategy = "panel" THEN AgentSeconds ELSE WorkerSeconds

\* Lanes start in turn.  A lane whose turn comes too late is skipped.
LaneStarts(l) ==
    /\ lane[l].at = "waiting"
    /\ \A k \in LaneIds : k < l => lane[k].at # "waiting"
    /\ Cardinality(BusyLanes) < Permits
    /\ LET late == spent \/ now >= InvestigationDeadline
       IN  lane' = [lane EXCEPT ![l] =
               IF late THEN [@ EXCEPT !.at = "over", !.result = "skipped"]
               ELSE [@ EXCEPT !.at = "running",
                              !.until = CutOff(AgentEnd(LaneSeconds, InvestigationDeadline))]]
    /\ UNCHANGED submitted

\* "full": a complete submission.  "short": one of a scout or an investigator that is
\* malformed in part or names what was not checked; a worker's that says it was
\* blocked.  "stopped": no submission, from a budget, an error or the deadline.
Outcomes == {"full", "short", "stopped"}

\* "gaps": a worker that answers its question, but names what it could not check or
\* had candidates dropped as malformed.
LaneOutcomes == Outcomes \cup (IF strategy = "delegated" THEN {"gaps"} ELSE {})

LaneEnds(l) ==
    /\ Running(lane[l])
    /\ \E r \in LaneOutcomes, fs \in SUBSET Findings :
          /\ r = "stopped" => fs = {}
          /\ lane' = [lane EXCEPT ![l] = [at |-> "over", until |-> 0, result |-> r]]
          /\ submitted' = submitted \cup fs

Laning ==
    /\ phase = "lanes"
    /\ \E l \in LaneIds : LaneStarts(l) \/ LaneEnds(l)
    /\ UNCHANGED <<command, now, phase, spent, check, rechecked, lead, raw, partial,
                   dropped>>

LanesOver == \A l \in LaneIds : lane[l].at \in {"none", "over"}

\* Mutant of Shortfall: a skipped lane gives no reason.
ShortfallOfRunning ==
    {r \in {"short", "stopped"} : \E l \in LaneIds : lane[l].result = r}

\* The reasons lanes give for a partial review.  The gaps that a worker names are
\* listed as coverage gaps and are no reason; what was dropped is not mentioned.
Shortfall ==
    {r \in {"short", "stopped", "skipped"} : \E l \in LaneIds : lane[l].result = r}

-------------------------------------------------------------------------------
(* finish: which candidates are validated, and what is reported.           *)

\* recheck_transition: still open or uncertain after its recheck.
StillTracked == {f \in tracked : rechecked[f] # "rejected"}

\* Accepted again but never posted: it publishes on this run.
Reenter == {f \in tracked \ posted : rechecked[f] = "accepted"}

\* Candidates that are tracked already are dropped, unless they re-enter.
\* Without validation every candidate is kept.
Candidates(fs) == IF validate THEN fs \ (StillTracked \ Reenter) ELSE fs

Finish(fs, reasons) ==
    /\ raw' = fs
    /\ partial' = partial \cup reasons
    /\ phase' = "validate"
    /\ check' = Spawned(IF validate THEN Candidates(fs) ELSE {})

PanelOver ==
    /\ phase = "lanes" /\ strategy = "panel"
    /\ LanesOver
    /\ Finish(submitted, Shortfall)
    /\ UNCHANGED <<command, now, spent, rechecked, lane, lead, submitted, dropped>>

\* The baseline investigator submits or stops.
Investigated ==
    /\ phase = "investigate"
    /\ Running(lead)
    /\ \E r \in Outcomes, fs \in SUBSET Findings :
          /\ r = "stopped" => fs = {}
          /\ lead' = NoAgent
          /\ Finish(fs, {r} \ {"full"})
    /\ UNCHANGED <<command, now, spent, rechecked, lane, submitted, dropped>>

\* The lead plans n questions, one worker each.  With none, for whatever reason,
\* the baseline investigator takes over and the review is partial.
Planned ==
    /\ phase = "plan"
    /\ Running(lead)
    /\ \E n \in 0 .. Lanes :
          \/ /\ n = 0
             /\ phase' = "investigate"
             /\ lead' = Investigating(lead)
             /\ partial' = partial \cup {"plan"}
             /\ UNCHANGED lane
          \/ /\ n > 0
             /\ phase' = "lanes"
             /\ lead' = NoAgent
             /\ lane' = [l \in LaneIds |->
                            IF l <= n THEN [NoAgent EXCEPT !.at = "waiting"] ELSE NoAgent]
             /\ UNCHANGED partial
    /\ UNCHANGED <<command, now, spent, check, rechecked, submitted, raw, dropped>>

\* The lead synthesises, or too late for that the workers' candidates stand.
WorkersOver ==
    /\ phase = "lanes" /\ strategy = "delegated"
    /\ LanesOver
    /\ \/ /\ now >= InvestigationDeadline
          /\ Finish(submitted, Shortfall \cup {"synthesis"})
          /\ UNCHANGED lead
       \/ /\ now < InvestigationDeadline
          /\ lead' = [NoAgent EXCEPT !.at = "running",
                         !.until = CutOff(AgentEnd(AgentSeconds, InvestigationDeadline))]
          /\ partial' = partial \cup Shortfall
          /\ phase' = "synthesis"
          /\ UNCHANGED <<raw, check>>
    /\ UNCHANGED <<command, now, spent, rechecked, lane, submitted, dropped>>

\* Mutant of Fallback: a lead that stops leaves nothing.
FallbackNothing == {}

\* What the workers found is not lost with the synthesis.
Fallback == submitted

Synthesised ==
    /\ phase = "synthesis"
    /\ Running(lead)
    /\ \E r \in Outcomes, fs \in SUBSET Findings :
          /\ r = "stopped" => fs = Fallback
          /\ lead' = NoAgent
          /\ Finish(fs, CASE r = "full"    -> {}
                            [] r = "short"   -> {"short"}
                            [] r = "stopped" -> {"synthesis"})
    /\ UNCHANGED <<command, now, spent, rechecked, lane, submitted, dropped>>

-------------------------------------------------------------------------------
(* Deduplication and the report.                                           *)

\* Accepted by a verdict of this run; the same finding may have two.
Publishable ==
    {f \in Findings : validate /\ (check[f].verdict = "accepted" \/ f \in Reenter)}

\* Posted findings that are still open are compared with the new ones.
Carried == {f \in posted \cap StillTracked : rechecked[f] = "accepted"} \ Publishable

DedupTime ==
    LET left == Left(Deadline - DedupMargin)
    IN  Smaller(left, DedupMax)

\* Optional: with two items, requests and time left, one request may group them.
Validated ==
    /\ phase = "validate"
    /\ ChecksOver
    /\ partial' = partial \cup Inconclusive
    /\ \/ /\ validate /\ ~spent
          /\ Publishable # {}
          /\ Cardinality(Publishable \cup Carried) >= 2
          /\ DedupTime > 0
          /\ phase' = "dedup"
          /\ lead' = [NoAgent EXCEPT !.at = "running", !.until = now + DedupTime]
       \/ /\ \/ ~validate \/ spent \/ Publishable = {} \/ DedupTime = 0
             \/ Cardinality(Publishable \cup Carried) < 2
          /\ phase' = "done"
          /\ lead' = NoAgent
    /\ UNCHANGED <<command, now, spent, check, rechecked, lane, submitted, raw, dropped>>

\* Duplicates point at a finding that stays; an error or a timeout keeps all.
Deduplicated ==
    /\ phase = "dedup"
    /\ Running(lead)
    /\ \E ds \in SUBSET Publishable :
          /\ (Publishable \cup Carried) \ ds # {}
          /\ dropped' = ds
    /\ lead' = NoAgent
    /\ phase' = "done"
    /\ UNCHANGED <<command, now, spent, check, rechecked, lane, submitted, raw, partial>>

-------------------------------------------------------------------------------
(* The command's last part. *)

\* prepare or the first client fails.
Fail ==
    /\ phase = "index"
    /\ phase' = "ended"
    /\ exit' = {1}
    /\ UNCHANGED <<strategy, validate, publish, tracked, posted, now, spent, check, rechecked,
                   lane, lead, submitted, raw, partial, dropped>>

\* The report is published, which may fail, and written with the state.
End ==
    /\ phase = "done"
    /\ \E published \in {TRUE, publish # "comment"}, written \in BOOLEAN :
          /\ partial' = partial \cup (IF published THEN {} ELSE {"publish"})
          /\ exit' = {Exit(partial = {}, published, written)}
    /\ phase' = "ended"
    /\ UNCHANGED <<strategy, validate, publish, tracked, posted, now, spent, check, rechecked,
                   lane, lead, submitted, raw, dropped>>

-------------------------------------------------------------------------------
\* The run's requests are used up.
Spend ==
    /\ ~spent /\ phase \notin {"command", "done", "ended"}
    /\ spent' = TRUE
    /\ UNCHANGED <<command, now, phase, check, rechecked, lane, lead, submitted, raw, partial,
                   dropped>>

Busy == {check[f] : f \in BusyChecks} \cup {lane[l] : l \in BusyLanes}
            \cup {a \in {lead} : Running(a)}

\* Time passes while agents work, up to the first deadline, once every task that
\* may start has started.
Tick ==
    /\ Busy # {}
    /\ \A a \in Busy : now < a.until
    /\ \A f \in Findings : check[f].at = "waiting" => Cardinality(BusyChecks) >= Permits
    /\ \A l \in LaneIds : lane[l].at = "waiting" => Cardinality(BusyLanes) >= Permits
    /\ now' = now + 1
    /\ UNCHANGED <<command, phase, spent, check, rechecked, lane, lead, submitted, raw, partial,
                   dropped>>

Step ==
    \/ Command \/ Fail \/ End
    \/ Index \/ Prepared \/ Checking
    \/ Laning \/ PanelOver
    \/ Investigated \/ Planned \/ WorkersOver \/ Synthesised
    \/ Validated \/ Deduplicated

Next == Step \/ Tick \/ Spend

Spec == Init /\ [][Next]_vars

\* Every agent ends, at the latest when its timer does.
FairSpec == Spec /\ WF_vars(Step) /\ WF_vars(Tick)

-------------------------------------------------------------------------------
\* The findings that the check counts.
Accepted == Publishable \ dropped

\* The exit code, or the check of a review that the server started, says so.
Complete ==
    \/ exit = {0}
    \/ /\ phase = "ended" /\ publish = "comment"
       /\ \E e \in exit : CheckSays(e, partial = {}, Accepted) = "success"

\* What the report lists with a verdict, duplicates included.
Reported == Candidates(raw) \cup Reenter

\* "complete: every stage finished", of exit code 0 and of a green check: every
\* scout submitted in full and every planned worker answered, every recheck and
\* every candidate got a verdict of its own, nothing was left out, whatever ran into
\* which deadline, and what is to be posted was validated and posted.  A worker's
\* answer may name gaps or have lost malformed candidates: the code does not count
\* that against the review.
CompleteMeansChecked ==
    Complete =>
        /\ publish = "comment" => validate /\ "publish" \notin partial
        /\ \A l \in LaneIds : \/ lane[l].result \in {"none", "full"}
                              \/ lane[l].result = "gaps" /\ strategy = "delegated"
        /\ strategy = "panel" => \A l \in LaneIds : lane[l].result = "full"
        /\ strategy = "delegated" => lane[1].result # "none"
        /\ validate => \A f \in tracked : rechecked[f] \in Verdicts
        /\ validate => \A f \in Candidates(raw) : check[f].verdict \in Verdicts

\* A candidate that a scout or worker submitted is in the report or is tracked
\* already, whoever else timed out; only the lead's own submission replaces what
\* its workers found.
CandidatesSurvive ==
    phase \in {"done", "ended"} =>
        \A f \in submitted :
            \/ f \in Reported \cup StillTracked
            \/ strategy = "delegated" /\ "synthesis" \notin partial

\* The run ends at most three grace periods after its deadline: the rechecks',
\* the plan's and the investigator's that takes over from it.
ReportInTime == now <= Deadline + 3 * Grace

\* A command always ends, with an exit code.
RunFinishes == <>(phase = "ended")
===============================================================================
