------------------------------ MODULE ReviewQueue ------------------------------
(***************************************************************************)
(* The job queue of `revera serve' and everything that moves a job through *)
(* it: admission (enqueue, retarget, close, removal), the dispatcher, the  *)
(* workers with their GitHub check run, the commit under the queue lock,   *)
(* the job summaries, shutdown, restart and the recovery of checks.        *)
(*                                                                         *)
(* Each action is one critical section of the queue lock or one stretch    *)
(* between two awaits.  A worker holds the queue lock from writing its     *)
(* checkpoint to writing its summary (two files), so the actions that take *)
(* the lock wait while a worker is in that window; a crash does not.       *)
(***************************************************************************)
EXTENDS QueueOps, FiniteSets

CONSTANTS
    Keys,           \* keys in play: <<repository, number, source>>
    Heads, Bases,   \* commits and base branches of the reviews that are asked for
    Targets,        \* base branches a pull request may be retargeted to
    Results,        \* what a run may report besides being cancelled
    ConfigStates,   \* {TRUE}: configured; {TRUE, FALSE}: revera.yaml may be missing
    Faults,         \* which failures the environment may produce
    Reconciles,     \* bound: whether the instance recovers checks left open
    MaxJobs,        \* bound: jobs created
    MaxRestarts,    \* bound: how often the process starts again
    Concurrency,    \* permits of the dispatcher's semaphore
    ExternalLimit   \* preferences.external.concurrency

Sources == {Installed, External}

ASSUME KeysAssumption ==
    /\ Keys \subseteq Nat \X Nat \X Sources
    /\ \A k \in Keys : k[3] = Installed => IndexKey(k) \in Keys
    /\ \A k \in Keys : k[3] = External => k[2] # 0
ASSUME ResultsAssumption ==
    "failed" \in Results /\ Results \subseteq {"complete", "partial", "failed", "skipped"}
ASSUME ConfigAssumption == ConfigStates \subseteq BOOLEAN /\ ConfigStates # {}
ASSUME BoundsAssumption ==
    /\ MaxJobs \in Nat /\ MaxRestarts \in Nat /\ Reconciles \in BOOLEAN
    /\ Concurrency \in Nat \ {0} /\ ExternalLimit \in Nat \ {0}

JobIds   == 1..MaxJobs
None     == 0
Slot     == 0..MaxJobs
NoJob    == [kind |-> "unused"]
Contents == [head : Heads, base : Bases]
Jobs     == [kind : {"review", "index", "remove"}, key : Keys,
             content : Contents \cup {NoContent}]

Terminal == {"complete", "partial", "failed", "skipped", "cancelled"}
Statuses == {"none", "queued", "running"} \cup Terminal

\* A worker between the dispatcher taking its job and the permit coming back.
InRun    == {"start", "work", "check", "commit", "summarise"}
Stages   == {"none", "error", "release", "leave"} \cup InRun
CheckRuns == [github : {"none", "open", "cancelled", "done"},
              known : BOOLEAN, recorded : BOOLEAN, pending : BOOLEAN]
NoCheck  == [github |-> "none", known |-> FALSE, recorded |-> FALSE, pending |-> FALSE]

RecoveryAt(at, jobs) == [at |-> at, jobs |-> jobs, id |-> None, completed |-> FALSE]
NoRecovery == RecoveryAt("idle", {})

VARIABLES
    created,     \* jobs created so far; the next one is created + 1
    job,         \* the jobs
    pending,     \* Queue.pending: key -> job waiting, or None
    running,     \* Queue.running: key -> job running, or None
    cancel,      \* running jobs whose cancel watch is true
    notified,    \* the permit stored by notify_one
    dispatcher,  \* where the dispatch loop is
    phase,       \* the server: up, stopping, draining
    worker,      \* where each worker is
    outcome,     \* a worker's result: exit code and `cancelled' of run_inner
    status,      \* JobSummary.status, in memory and in meta.json
    check,       \* the check run at GitHub, whether the worker knows its id, and
                 \* CheckRecovery in the summary
    seen,        \* Seen: key -> the job whose checkpoint it holds, or None
    saved,       \* seen.json
    recovery,    \* where recover_checks is: the jobs that may become its candidates,
                 \* then its candidates, then the one it asked GitHub about
    restarts     \* how often the process started again

queueVars == <<created, job, pending, running, cancel>>
seenVars  == <<seen, saved>>
vars == <<created, job, pending, running, cancel, notified, dispatcher, phase,
          worker, outcome, status, check, seen, saved, recovery, restarts>>

TypeOK ==
    /\ created \in Slot
    /\ job \in [JobIds -> Jobs \cup {NoJob}]
    /\ pending \in [Keys -> Slot]
    /\ running \in [Keys -> Slot]
    /\ cancel \subseteq JobIds
    /\ notified \in BOOLEAN
    /\ dispatcher \in {"waiting", "scanning", "stopped"}
    /\ phase \in {"up", "stopping", "draining"}
    /\ worker \in [JobIds -> Stages]
    /\ outcome \in [JobIds -> Results \cup {"none", "cancelled"}]
    /\ status \in [JobIds -> Statuses]
    /\ check \in [JobIds -> CheckRuns]
    /\ seen \in [Keys -> Slot]
    /\ saved \in [Keys -> Slot]
    /\ recovery \in [at : {"idle", "begun", "listed", "asked"}, jobs : SUBSET JobIds,
                    id : Slot, completed : BOOLEAN]
    /\ restarts \in 0..MaxRestarts

Init ==
    /\ created = 0
    /\ job = [i \in JobIds |-> NoJob]
    /\ pending = [k \in Keys |-> None]
    /\ running = [k \in Keys |-> None]
    /\ cancel = {}
    /\ notified = FALSE
    /\ dispatcher = "waiting"
    /\ phase = "up"
    /\ worker = [i \in JobIds |-> "none"]
    /\ outcome = [i \in JobIds |-> "none"]
    /\ status = [i \in JobIds |-> "none"]
    /\ check = [i \in JobIds |-> NoCheck]
    /\ seen = [k \in Keys |-> None]
    /\ saved = [k \in Keys |-> None]
    /\ recovery = NoRecovery
    /\ restarts = 0

-------------------------------------------------------------------------------
(* Summaries.                                                              *)

IsSummarised(i) == job[i].kind # "remove"

\* Mutant of Settled: a later write wins over a cancellation.
SettledAnyway(i, s) == IF IsSummarised(i) THEN s ELSE status[i]

\* change_job: "Cancellation is final even if the runner was concurrently
\* starting or finishing."
Settled(i, s) == IF status[i] = "cancelled" \/ ~IsSummarised(i) THEN status[i] ELSE s

Transition(i, s) == status' = [status EXCEPT ![i] = Settled(i, s)]

\* The summaries after the jobs `ids' were transitioned to cancelled.
Cancelled(ids) ==
    [i \in JobIds |-> IF i \in ids /\ IsSummarised(i) THEN "cancelled" ELSE status[i]]

\* Which of the jobs `ids' get their summary rewritten: all, unless the disk fails.
Written(ids) == IF "disk" \in Faults THEN SUBSET ids ELSE {ids}

\* The queue lock is free: no worker is between checkpoint and summary.
QueueFree == \A i \in JobIds : worker[i] # "summarise"

At(k) == {pending[k], running[k]} \ {None}
Active(i) == \E k \in Keys : i \in At(k)

-------------------------------------------------------------------------------
(* Requests: webhooks, the dashboard, reconciliation.                      *)

\* The summaries after `new' displaced the pending job of its key and, for a
\* review, the running one if its cancel watch is now true.
Displaced(new, cancelNow) ==
    {pending[new.key]}
        \cup (IF new.kind = "review" THEN {running[new.key]} \cap cancelNow ELSE {})

\* What admitting `new' does to the running job of its key.
CancelNow(new, force) ==
    LET r == running[new.key]
    IN  IF r # None /\ Supersedes(job[r], r \in cancel, new, force)
        THEN cancel \cup {r} ELSE cancel

Admit(new, force, configured) ==
    LET k == new.key
        i == created + 1
    IN  /\ created < MaxJobs
        /\ created' = i
        /\ job' = [job EXCEPT ![i] = new]
        /\ cancel' = CancelNow(new, force)
        /\ \E done \in Written(Displaced(new, cancel')) :
              status' = [Cancelled(done)
                            EXCEPT ![i] = IF configured THEN "queued" ELSE "skipped"]
        /\ pending' = [pending EXCEPT ![k] = IF configured THEN i ELSE None]

\* The new job's summary cannot be written: the job is dropped, what it displaced
\* stays cancelled.
AdmitFails(new, force) ==
    LET k == new.key
    IN  /\ "disk" \in Faults
        /\ cancel' = CancelNow(new, force)
        /\ \E done \in Written(Displaced(new, cancel')) :
              status' = Cancelled(done)
        /\ pending' = [pending EXCEPT ![k] = None]
        /\ UNCHANGED <<created, job>>

IsDuplicate(new, force) ==
    LET r == running[new.key] IN r # None /\ Duplicates(job[r], r \in cancel, new, force)

\* enqueue_checked for a review or an index.  The preferences, approvals and
\* admission that may refuse it leave no trace; a duplicate only wakes the
\* dispatcher.
Submit(new, force, configured) ==
    /\ phase = "up"
    /\ QueueFree
    /\ \/ IsDuplicate(new, force) /\ UNCHANGED <<created, job, pending, cancel, status>>
       \/ ~IsDuplicate(new, force) /\ Admit(new, force, configured)
       \/ ~IsDuplicate(new, force) /\ AdmitFails(new, force)
    /\ notified' = TRUE
    /\ UNCHANGED <<running, dispatcher, phase, worker, outcome, check, seenVars,
                   recovery, restarts>>

RequestUnchanged ==
    UNCHANGED <<running, dispatcher, phase, worker, outcome, check, seenVars,
                recovery, restarts>>

\* The first critical section of retarget: a pull request has a new base, jobs
\* for another base go.  Its replacement is a Submit of its own, later.
Retarget(k, base) ==
    LET stale == {i \in At(k) : job[i].content.base # base}
    IN  /\ k[2] # 0 /\ k[3] = Installed
        /\ QueueFree
        /\ stale # {}
        /\ pending' = [pending EXCEPT ![k] = IF @ \in stale THEN None ELSE @]
        /\ cancel' = cancel \cup (stale \cap {running[k]})
        /\ \E done \in Written(stale) : status' = Cancelled(done)
        /\ UNCHANGED <<created, job, notified>>
        /\ RequestUnchanged

\* Who closes a key: a closed pull request; or a cancel from the dashboard, which
\* looks up the key of a job first and may find another job there by the time it
\* closes the key.
CloseMayReach(k) == k[2] # 0 \/ \E i \in JobIds : job[i] = Index(k)

\* Mutant of Close: the running job is not told.
CloseWithoutCancel(k) ==
    /\ CloseMayReach(k)
    /\ QueueFree
    /\ At(k) # {}
    /\ pending' = [pending EXCEPT ![k] = None]
    /\ \E done \in Written(At(k)) : status' = Cancelled(done)
    /\ UNCHANGED <<created, job, cancel, notified>>
    /\ RequestUnchanged

\* close: drop what waits, tell what runs, and say so in the summaries.
Close(k) ==
    /\ CloseMayReach(k)
    /\ QueueFree
    /\ At(k) # {}
    /\ pending' = [pending EXCEPT ![k] = None]
    /\ cancel' = cancel \cup (At(k) \cap {running[k]})
    /\ \E done \in Written(At(k)) : status' = Cancelled(done)
    /\ UNCHANGED <<created, job, notified>>
    /\ RequestUnchanged

\* A repository was removed, renamed or disapproved: its work is cancelled and
\* a removal of its workspace takes the repository's index key.  A summary that
\* cannot be written ends the handler before it wakes the dispatcher, and so does
\* a summary written without the fix controller's note of it.
RemoveRepo(k) ==
    LET lane == {q \in Keys : Lane(q) = Lane(k)}
        gone == UNION {At(q) : q \in lane}
        i    == created + 1
    IN  /\ k[2] = 0
        /\ QueueFree
        /\ created < MaxJobs
        /\ created' = i
        /\ job' = [job EXCEPT ![i] = Remove(k)]
        /\ pending' = [q \in Keys |-> IF q = k THEN i
                                      ELSE IF q \in lane THEN None ELSE pending[q]]
        /\ cancel' = cancel \cup ({running[q] : q \in lane} \ {None})
        /\ \E done \in Written(gone) :
              /\ status' = Cancelled(done)
              /\ \/ done = gone /\ notified' = TRUE
                 \/ "disk" \in Faults /\ UNCHANGED notified
        /\ RequestUnchanged

-------------------------------------------------------------------------------
(* The dispatcher.                                                         *)

BusyLanes       == {Lane(k) : k \in {q \in Keys : running[q] # None}}
ExternalRunning == {k \in Keys : k[3] = External /\ running[k] # None}

\* Mutant of Eligible: the lane may be busy.
EligibleInBusyLane(k) ==
    /\ pending[k] # None
    /\ k[3] = External => Cardinality(ExternalRunning) < ExternalLimit

\* Mutant of Eligible: the limit is off by one.
EligibleOneMore(k) ==
    /\ pending[k] # None
    /\ Lane(k) \notin BusyLanes
    /\ k[3] = External => Cardinality(ExternalRunning) <= ExternalLimit

Eligible(k) ==
    /\ pending[k] # None
    /\ Lane(k) \notin BusyLanes
    /\ k[3] = External => Cardinality(ExternalRunning) < ExternalLimit

\* take_with_external_limit: the first eligible key in the order of the map.
First(k) == Eligible(k) /\ \A q \in Keys : Eligible(q) => q = k \/ Before(k, q)

Permits == Concurrency - Cardinality({i \in JobIds : worker[i] # "none"})

DispatcherUnchanged ==
    UNCHANGED <<created, job, cancel, phase, outcome, status, check, seenVars, recovery, restarts>>

Wake ==
    /\ dispatcher = "waiting"
    /\ notified
    /\ notified' = FALSE
    /\ dispatcher' = "scanning"
    /\ UNCHANGED <<pending, running, worker>>
    /\ DispatcherUnchanged

\* One turn of the inner loop.  The loop holds the only handle that acquires
\* permits, so trying for one and taking a job are one step.  A job that was
\* taken when shutdown aborts the loop looks like a worker yet to start.
Take ==
    /\ dispatcher = "scanning"
    /\ QueueFree
    /\ \/ \E k \in Keys :
            /\ Permits > 0
            /\ First(k)
            /\ pending' = [pending EXCEPT ![k] = None]
            /\ running' = [running EXCEPT ![k] = pending[k]]
            /\ worker' = [worker EXCEPT ![pending[k]] = "start"]
            /\ UNCHANGED dispatcher
       \/ /\ Permits = 0 \/ \A k \in Keys : ~Eligible(k)
          /\ dispatcher' = "waiting"
          /\ UNCHANGED <<pending, running, worker>>
    /\ UNCHANGED notified
    /\ DispatcherUnchanged

-------------------------------------------------------------------------------
(* A worker: run, run_inner and the task around them.                      *)

Step(i, from, to) ==
    /\ worker[i] = from
    /\ worker' = [worker EXCEPT ![i] = to]
    /\ UNCHANGED <<created, job, pending, dispatcher, phase, recovery, restarts>>

\* The start of run_inner.  Without a configuration there is nothing to run.
Begin(i, configured) ==
    LET runs == ~IsSummarised(i) \/ configured
    IN  /\ Step(i, "start", IF runs THEN "work" ELSE "release")
        /\ Transition(i, IF runs THEN "running" ELSE "skipped")
        /\ UNCHANGED <<running, cancel, notified, outcome, check, seenVars>>

\* The job directory, its log or the running summary cannot be written; or, the
\* job skipped, old jobs cannot be deleted.
BeginFails(i) ==
    /\ "disk" \in Faults
    /\ IsSummarised(i)
    /\ Step(i, "start", "error")
    /\ \/ UNCHANGED status
       \/ FALSE \in ConfigStates /\ Transition(i, "skipped")
    /\ UNCHANGED <<running, cancel, notified, outcome, check, seenVars>>

\* Removal deletes the workspace and the checkpoint of the whole repository.
Forget(k) == [q \in Keys |-> IF Lane(q) = Lane(k) THEN None ELSE seen[q]]

RemoveWorkspace(i) ==
    /\ ~IsSummarised(i)
    /\ Step(i, "work", "release")
    /\ seen' = Forget(job[i].key)
    /\ saved' = seen'
    /\ UNCHANGED <<running, cancel, notified, outcome, status, check>>

\* The workspace cannot be deleted, or the checkpoint cannot be written without it.
RemoveFails(i) ==
    /\ "disk" \in Faults
    /\ ~IsSummarised(i)
    /\ Step(i, "work", "error")
    /\ seen' \in {seen, Forget(job[i].key)}
    /\ UNCHANGED <<running, cancel, notified, outcome, status, check, saved>>

NeedsCheck(i) == job[i].kind = "review" /\ job[i].key[3] = Installed

\* POST check-runs.
PostCheck(i) ==
    /\ NeedsCheck(i)
    /\ check[i].github = "none"
    /\ Step(i, "work", "work")
    /\ check' = [check EXCEPT ![i].github = "open", ![i].known = TRUE]
    /\ UNCHANGED <<running, cancel, notified, outcome, status, seenVars>>

\* GitHub has the check but the server never learns its id: the answer is lost,
\* or a cancel drops the request while it is in flight.
PostAbandoned(i) ==
    /\ NeedsCheck(i)
    /\ "network" \in Faults \/ i \in cancel
    /\ check[i].github = "none"
    /\ Step(i, "work", "work")
    /\ check' = [check EXCEPT ![i].github = "open"]
    /\ UNCHANGED <<running, cancel, notified, outcome, status, seenVars>>

\* The check's id is written to the summary.
RecordCheck(i) ==
    /\ check[i].known /\ ~check[i].recorded
    /\ Step(i, "work", "work")
    /\ check' = [check EXCEPT ![i].recorded = TRUE, ![i].pending = TRUE]
    /\ UNCHANGED <<running, cancel, notified, outcome, status, seenVars>>

\* The work ends with a result, at its time limit ("failed"), or because the
\* biased select sees the cancel watch; a cancel sent by now counts either way.
WorkEnds(i, result) ==
    /\ IsSummarised(i)
    /\ Step(i, "work", "check")
    /\ NeedsCheck(i) /\ ~check[i].recorded => result = "failed"
    /\ job[i].kind = "index" => result \in {"complete", "failed"}
    /\ outcome' = [outcome EXCEPT ![i] = IF i \in cancel THEN "cancelled" ELSE result]
    /\ UNCHANGED <<running, cancel, notified, status, check, seenVars>>

\* The work fails and its log cannot take the reason: nothing concludes the check.
WorkFails(i) ==
    /\ "disk" \in Faults
    /\ IsSummarised(i)
    /\ Step(i, "work", "error")
    /\ UNCHANGED <<running, cancel, notified, outcome, status, check, seenVars>>

Concluded(i) == IF outcome[i] = "cancelled" THEN "cancelled" ELSE "done"

\* complete_check: PATCH the conclusion and note that nothing is pending.
PatchCheck(i) ==
    /\ check[i].known
    /\ Step(i, "check", "commit")
    /\ check' = [check EXCEPT ![i].github = Concluded(i), ![i].pending = FALSE]
    /\ UNCHANGED <<running, cancel, notified, outcome, status, seenVars>>

\* The PATCH fails before or after GitHub took it, or what comes after it cannot
\* be written: the conclusion stays pending.  If `pending' itself cannot be
\* written there is no PATCH.
PatchFails(i) ==
    /\ check[i].known
    /\ Step(i, "check", "commit")
    /\ \/ /\ Faults \cap {"network", "disk"} # {}
          /\ \E github \in {check[i].github, Concluded(i)} :
                check' = [check EXCEPT ![i].github = github,
                                       ![i].pending = check[i].recorded]
       \/ /\ "disk" \in Faults
          /\ UNCHANGED check
    /\ UNCHANGED <<running, cancel, notified, outcome, status, seenVars>>

SkipCheck(i) ==
    /\ ~check[i].known
    /\ Step(i, "check", "commit")
    /\ UNCHANGED <<running, cancel, notified, outcome, status, check, seenVars>>

\* Under the queue lock, a cancel that arrived since the work ended sends the
\* worker back to conclude its check as cancelled.
CancelledLate(i) ==
    /\ QueueFree
    /\ outcome[i] # "cancelled"
    /\ i \in cancel
    /\ Step(i, "commit", "check")
    /\ outcome' = [outcome EXCEPT ![i] = "cancelled"]
    /\ UNCHANGED <<running, cancel, notified, status, check, seenVars>>

\* Seen.finished; an index that failed and an external review leave no mark.
Finished(i) ==
    IF outcome[i] = "cancelled" \/ job[i].key[3] = External
       \/ (job[i].kind = "index" /\ outcome[i] = "failed")
    THEN seen
    ELSE [seen EXCEPT ![job[i].key] = i]

\* Mutant of Checkpoint: the cancel watch is not read again.
CheckpointUnchecked(i) ==
    /\ QueueFree
    /\ Step(i, "commit", "summarise")
    /\ seen' = Finished(i)
    /\ saved' = IF outcome[i] = "cancelled" THEN saved ELSE seen'
    /\ UNCHANGED <<running, cancel, notified, outcome, status, check>>

\* The checkpoint, in memory and on disk, the queue lock held from here on.
Checkpoint(i) ==
    /\ QueueFree
    /\ outcome[i] = "cancelled" \/ i \notin cancel
    /\ Step(i, "commit", "summarise")
    /\ seen' = Finished(i)
    /\ saved' = IF outcome[i] = "cancelled" THEN saved ELSE seen'
    /\ UNCHANGED <<running, cancel, notified, outcome, status, check>>

\* The checkpoint changed in memory and could not be written.
CheckpointFails(i) ==
    /\ "disk" \in Faults
    /\ QueueFree
    /\ outcome[i] # "cancelled" /\ i \notin cancel
    /\ Step(i, "commit", "error")
    /\ seen' = Finished(i)
    /\ UNCHANGED <<running, cancel, notified, outcome, status, check, saved>>

Free(i) ==
    /\ running' = [k \in Keys |-> IF running[k] = i THEN None ELSE running[k]]
    /\ cancel' = cancel \ {i}

\* finish_summary and the removal from `running', the lock still held.
Summarise(i) ==
    /\ Step(i, "summarise", "release")
    /\ Transition(i, outcome[i])
    /\ Free(i)
    /\ UNCHANGED <<notified, outcome, check, seenVars>>

\* The summary cannot be written, or is written and the fix controller's note of
\* it is not.
SummaryFails(i) ==
    /\ "disk" \in Faults
    /\ Step(i, "summarise", "error")
    /\ UNCHANGED status \/ Transition(i, outcome[i])
    /\ UNCHANGED <<running, cancel, notified, outcome, check, seenVars>>

\* After the summary, deleting the event payload or pruning old jobs fails.
TidyFails(i) ==
    /\ "disk" \in Faults
    /\ outcome[i] # "none"
    /\ Step(i, "release", "error")
    /\ UNCHANGED <<running, cancel, notified, outcome, status, check, seenVars>>

\* run: an error of run_inner, wherever it arose, fails the job.
Fail(i) ==
    /\ Step(i, "error", "release")
    /\ Transition(i, "failed")
    /\ outcome' = [outcome EXCEPT ![i] = "none"]
    /\ UNCHANGED <<running, cancel, notified, check, seenVars>>

\* The failure itself cannot be written.
FailUnwritten(i) ==
    /\ "disk" \in Faults
    /\ Step(i, "error", "release")
    /\ outcome' = [outcome EXCEPT ![i] = "none"]
    /\ UNCHANGED <<running, cancel, notified, status, check, seenVars>>

\* The task around run: leave `running' if still there.
Release(i) ==
    /\ QueueFree
    /\ Step(i, "release", "leave")
    /\ Free(i)
    /\ UNCHANGED <<notified, outcome, status, check, seenVars>>

\* Mutant of Leave: nobody wakes the dispatcher.
LeaveQuietly(i) ==
    /\ Step(i, "leave", "none")
    /\ outcome' = [outcome EXCEPT ![i] = "none"]
    /\ UNCHANGED <<running, cancel, notified, status, check, seenVars>>

\* The permit goes back, and then the dispatcher is woken.
Leave(i) ==
    /\ Step(i, "leave", "none")
    /\ outcome' = [outcome EXCEPT ![i] = "none"]
    /\ notified' = TRUE
    /\ UNCHANGED <<running, cancel, status, check, seenVars>>

-------------------------------------------------------------------------------
(* Recovery of checks left open, at start and at every reconciliation.     *)

RecoveryUnchanged ==
    UNCHANGED <<queueVars, notified, dispatcher, phase, worker, outcome, status,
                seenVars, restarts>>

\* The pass goes on to the candidates that remain.
Remaining(jobs) ==
    IF jobs = {} THEN NoRecovery ELSE RecoveryAt("listed", jobs)

\* The jobs a pass may come to choose, by what it sees of the queue: those not
\* active.  A job that is over without a pending check gets none any more and is
\* left out.
Recoverable ==
    {i \in JobIds : ~Active(i) /\ (i > created \/ (check[i].recorded /\ check[i].pending))}

\* recover_checks looks at the queue,
RecoverBegin ==
    /\ Reconciles
    /\ phase = "up"
    /\ recovery = NoRecovery
    /\ QueueFree
    /\ Recoverable # {}
    /\ recovery' = RecoveryAt("begun", Recoverable)
    /\ UNCHANGED check
    /\ RecoveryUnchanged

\* Mutant of RecoverList: a job whose summary is final has nothing to recover.
RecoverListUnfinished ==
    /\ recovery.at = "begun"
    /\ recovery' = Remaining({i \in recovery.jobs :
                                /\ check[i].recorded /\ check[i].pending
                                /\ status[i] \in {"queued", "running"}})
    /\ UNCHANGED check
    /\ RecoveryUnchanged

\* then, with another lock, at the summaries: its candidates are the jobs with a
\* pending check that were not active,
RecoverList ==
    /\ recovery.at = "begun"
    /\ recovery' = Remaining({i \in recovery.jobs :
                                check[i].recorded /\ check[i].pending})
    /\ UNCHANGED check
    /\ RecoveryUnchanged

\* and asks GitHub about one after the other without holding any lock.
RecoverRead(i) ==
    /\ recovery.at = "listed"
    /\ i \in recovery.jobs
    /\ recovery' = [at |-> "asked", jobs |-> recovery.jobs \ {i}, id |-> i,
                    completed |-> check[i].github # "open"]
    /\ UNCHANGED check
    /\ RecoveryUnchanged

\* Mutant of RecoverWrite: the candidate is taken as it was chosen.
RecoverWriteAnyway ==
    LET i == recovery.id
    IN  /\ recovery.at = "asked"
        /\ QueueFree
        /\ recovery' = Remaining(recovery.jobs)
        /\ check' = [check EXCEPT
                ![i].github = IF recovery.completed THEN @ ELSE "cancelled",
                ![i].pending = FALSE]
        /\ RecoveryUnchanged

\* With the queue lock: the candidate is checked again and, if GitHub showed it
\* open, cancelled there.
RecoverWrite ==
    LET i == recovery.id
    IN  /\ recovery.at = "asked"
        /\ QueueFree
        /\ recovery' = Remaining(recovery.jobs)
        /\ \/ /\ ~Active(i) /\ check[i].pending
              /\ check' = [check EXCEPT
                    ![i].github = IF recovery.completed THEN @ ELSE "cancelled",
                    ![i].pending = FALSE]
           \/ /\ Active(i) \/ ~check[i].pending
              /\ UNCHANGED check
        /\ RecoveryUnchanged

\* GitHub gives no token or no answer to the read or to the cancelling, or the
\* summary cannot be written: the whole pass ends.
RecoverFails ==
    LET i == recovery.id
    IN  /\ Faults \cap {"network", "disk"} # {}
        /\ recovery.at = "asked"
        /\ recovery' = NoRecovery
        /\ \/ UNCHANGED check
           \/ /\ QueueFree
              /\ ~Active(i) /\ check[i].pending /\ ~recovery.completed
              /\ check' = [check EXCEPT ![i].github = "cancelled"]
        /\ RecoveryUnchanged

\* The candidate's installation is gone: forget the check, whatever GitHub shows,
\* unless its job is active by now.
RecoverForgets(i) ==
    /\ "revoked" \in Faults
    /\ recovery.at = "listed"
    /\ i \in recovery.jobs
    /\ QueueFree
    /\ recovery' = Remaining(recovery.jobs \ {i})
    /\ check' = [check EXCEPT ![i].pending = @ /\ Active(i)]
    /\ RecoveryUnchanged

-------------------------------------------------------------------------------
(* Shutdown and restart.                                                   *)

\* serve_until: no new work; the dispatcher and the recovery are aborted.
BeginShutdown ==
    /\ "shutdown" \in Faults
    /\ phase = "up"
    /\ phase' = "stopping"
    /\ dispatcher' = "stopped"
    /\ recovery' = NoRecovery
    /\ UNCHANGED <<queueVars, notified, worker, outcome, status, check, seenVars, restarts>>

\* cancel_jobs.
CancelJobs ==
    /\ phase = "stopping"
    /\ QueueFree
    /\ phase' = "draining"
    /\ pending' = [k \in Keys |-> None]
    /\ cancel' = cancel \cup ({running[k] : k \in Keys} \ {None})
    /\ \E done \in Written(UNION {At(k) : k \in Keys}) : status' = Cancelled(done)
    /\ UNCHANGED <<created, job, running, notified, dispatcher, worker, outcome, check,
                   seenVars, recovery, restarts>>

\* Mutant of Restart: summaries are loaded as they are.
RestartKeepsStatus ==
    /\ "crash" \in Faults
    /\ restarts < MaxRestarts
    /\ restarts' = restarts + 1
    /\ pending' = [k \in Keys |-> None]
    /\ running' = [k \in Keys |-> None]
    /\ cancel' = {}
    /\ notified' = FALSE
    /\ dispatcher' = "waiting"
    /\ phase' = "up"
    /\ worker' = [i \in JobIds |-> "none"]
    /\ outcome' = [i \in JobIds |-> "none"]
    /\ seen' = saved
    /\ recovery' = NoRecovery
    /\ UNCHANGED <<created, job, check, status, saved>>

\* The process ends, by a crash or at the end of the drain, and starts again
\* from its files: Dashboard::load cancels what was unfinished.
Restart ==
    /\ "crash" \in Faults
    /\ restarts < MaxRestarts
    /\ restarts' = restarts + 1
    /\ pending' = [k \in Keys |-> None]
    /\ running' = [k \in Keys |-> None]
    /\ cancel' = {}
    /\ notified' = FALSE
    /\ dispatcher' = "waiting"
    /\ phase' = "up"
    /\ worker' = [i \in JobIds |-> "none"]
    /\ outcome' = [i \in JobIds |-> "none"]
    /\ status' = [i \in JobIds |-> IF status[i] \in {"queued", "running"}
                                   THEN "cancelled" ELSE status[i]]
    /\ seen' = saved
    /\ recovery' = NoRecovery
    /\ UNCHANGED <<created, job, check, saved>>

-------------------------------------------------------------------------------
ReviewKeys == {k \in Keys : k[2] # 0}
IndexKeys  == Keys \ ReviewKeys

Request ==
    \/ \E k \in ReviewKeys, c \in Contents, f \in BOOLEAN, conf \in ConfigStates :
          Submit(Review(k, c), f, conf)
    \/ \E k \in IndexKeys, conf \in ConfigStates : Submit(Index(k), FALSE, conf)
    \/ \E k \in Keys, b \in Targets : Retarget(k, b)
    \/ \E k \in Keys : Close(k)
    \/ \E k \in Keys : RemoveRepo(k)

Dispatch == Wake \/ Take

\* What a worker does when nothing fails.
Proceed(i) ==
    \/ \E conf \in ConfigStates : Begin(i, conf)
    \/ RemoveWorkspace(i)
    \/ PostCheck(i) \/ PostAbandoned(i) \/ RecordCheck(i)
    \/ \E r \in Results : WorkEnds(i, r)
    \/ PatchCheck(i) \/ SkipCheck(i)
    \/ CancelledLate(i) \/ Checkpoint(i) \/ Summarise(i)
    \/ Fail(i) \/ Release(i) \/ Leave(i)

Stumble(i) ==
    \/ BeginFails(i) \/ RemoveFails(i) \/ WorkFails(i) \/ PatchFails(i)
    \/ CheckpointFails(i) \/ SummaryFails(i) \/ TidyFails(i)
    \/ FailUnwritten(i)

Recover == RecoverBegin \/ RecoverList \/ (\E i \in JobIds : RecoverRead(i)) \/ RecoverWrite

Next ==
    \/ Request
    \/ Dispatch
    \/ \E i \in JobIds : Proceed(i) \/ Stumble(i)
    \/ Recover
    \/ RecoverFails
    \/ \E i \in JobIds : RecoverForgets(i)
    \/ BeginShutdown \/ CancelJobs \/ Restart

Spec == Init /\ [][Next]_vars

(***************************************************************************)
(* Fairness: the dispatcher and the workers are tokio tasks that are       *)
(* polled while runnable, and a run has a 55 minute limit, so the work of  *)
(* a worker ends.  Reconciliation, which recovers checks, is periodic, and *)
(* a shutdown that began cancels the jobs.  A recovery that keeps being    *)
(* tried does not fail every time.  Nothing is assumed of requests.        *)
(***************************************************************************)
Fairness ==
    /\ WF_vars(Dispatch)
    /\ \A i \in JobIds : WF_vars(Proceed(i))
    /\ WF_vars(Recover) /\ SF_vars(RecoverWrite)
    /\ WF_vars(CancelJobs)

FairSpec == Spec /\ Fairness

-------------------------------------------------------------------------------
(* Safety.                                                                 *)

\* The worker of i may touch the checkout of its lane.
InLane(i) == worker[i] \in InRun

\* Two workers never share a repository's checkout, though keys differ: the
\* lane check of take_with_external_limit and the id check on release hold
\* together over enqueues, cancels and late releases.
LaneExclusive ==
    \A i, j \in JobIds :
        InLane(i) /\ InLane(j) /\ Lane(job[i].key) = Lane(job[j].key) => i = j

\* No more external reviews run at once than the preference allows.
ExternalWithinLimit ==
    Cardinality({i \in JobIds : InLane(i) /\ job[i].key[3] = External}) <= ExternalLimit

\* The dashboard never shows an unfinished job that nothing holds: a queued or
\* running summary belongs to a job in the queue, and a waiting job is queued.
NoZombieSummary ==
    /\ \A i \in JobIds : status[i] \in {"queued", "running"} => Active(i)
    /\ \A k \in Keys : pending[k] # None /\ IsSummarised(pending[k])
                          => status[pending[k]] = "queued"

\* A running job is told to stop exactly when its summary says cancelled, so no
\* job runs on after the user saw it cancelled and none stops unannounced.
CancelMatchesSummary ==
    \A k \in Keys : running[k] # None /\ IsSummarised(running[k])
        => (running[k] \in cancel <=> status[running[k]] = "cancelled")

\* Whatever cannot be written: a job the user sees cancelled while it runs was
\* told to stop.
CancelledIsTold ==
    \A k \in Keys : running[k] # None /\ status[running[k]] = "cancelled"
        => running[k] \in cancel

\* "The final commit cannot race them": a job that ends up cancelled has not
\* moved the checkpoint of its pull request, so its commit is reviewed again.  A
\* crash may come between seen.json and the summary, and breaks it.
CancelledLeavesNoCheckpoint ==
    \A k \in Keys : seen[k] # None /\ restarts = 0 => status[seen[k]] # "cancelled"

\* "Hold the queue lock through cancellation so a newly active job keeps its
\* check": while a review works, the check it has recorded stays open, though the
\* recovery may have looked at the queue before the job was there and at its summary
\* after.
LiveChecksStayOpen ==
    \A i \in JobIds : worker[i] = "work" /\ check[i].recorded
        => check[i].github = "open" /\ check[i].pending

-------------------------------------------------------------------------------
(* What a step may never do.                                               *)

\* change_job: cancellation is final, whatever worker or failure writes next.
CancellationIsFinal ==
    [][\A i \in JobIds : status[i] = "cancelled" => status'[i] = "cancelled"]_status

-------------------------------------------------------------------------------
(* Progress.                                                               *)

\* No wakeup is lost: an accepted job comes to an end.
EveryJobSettles ==
    \A i \in JobIds : status[i] = "queued" ~> status[i] \in Terminal

\* docs/server.md:818 "Stored check identity lets startup cancel abandoned
\* checks": a check the summary knows to be open does not stay open while the
\* server is up.
ChecksAreRecovered ==
    \A i \in JobIds : check[i].pending ~> ~check[i].pending \/ phase # "up"
=============================================================================
