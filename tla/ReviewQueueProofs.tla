--------------------------- MODULE ReviewQueueProofs ---------------------------
(***************************************************************************)
(* Proofs about ReviewQueue, for every set of keys, every number of jobs   *)
(* and every combination of faults unless a theorem says otherwise.        *)
(***************************************************************************)
EXTENDS ReviewQueue, FiniteSetTheorems, TLAPS

-------------------------------------------------------------------------------
(* Jobs, keys and helpers have the types that the actions rely on.          *)

\* Review, index and removal jobs are jobs.
LEMMA JobTypes ==
    /\ \A k \in Keys, c \in Contents : Review(k, c) \in Jobs
    /\ \A k \in Keys : Index(k) \in Jobs /\ Remove(k) \in Jobs
BY DEF Review, Index, Remove, Jobs, NoContent

\* Slots hold no job or the identifier of one; the next identifier is one too.
LEMMA SlotFacts ==
    /\ None \in Slot /\ None \notin JobIds
    /\ JobIds \subseteq Slot
    /\ \A i \in Slot : i # None => i \in JobIds
    /\ \A i \in Slot : i < MaxJobs => i + 1 \in JobIds
BY BoundsAssumption DEF Slot, JobIds, None

\* Cancelling leaves every status a status.
LEMMA CancelledType ==
    ASSUME TypeOK, NEW ids
    PROVE  Cancelled(ids) \in [JobIds -> Statuses]
BY DEF TypeOK, Cancelled, Statuses, Terminal

\* A transition leaves every status a status.
LEMMA SettledType ==
    ASSUME TypeOK, NEW i \in JobIds, NEW s \in Statuses, Transition(i, s)
    PROVE  status' \in [JobIds -> Statuses]
BY DEF TypeOK, Transition, Settled

\* Freeing a slot keeps the slots and the cancellations.
LEMMA FreeType ==
    ASSUME TypeOK, NEW i \in JobIds, Free(i)
    PROVE  running' \in [Keys -> Slot] /\ cancel' \subseteq JobIds
BY SlotFacts DEF TypeOK, Free

\* A step of a run moves the worker and nothing of the queue.
LEMMA StepType ==
    ASSUME TypeOK, NEW i \in JobIds, NEW from, NEW to \in Stages, Step(i, from, to)
    PROVE  /\ worker' \in [JobIds -> Stages]
           /\ UNCHANGED <<created, job, pending, dispatcher, phase, recovery, restarts>>
BY DEF TypeOK, Step

\* Check runs keep their type when one is created or concluded.
LEMMA CheckRunTypes ==
    ASSUME NEW c \in CheckRuns
    PROVE  /\ [c EXCEPT !.pending = FALSE] \in CheckRuns
           /\ [c EXCEPT !.github = "cancelled"] \in CheckRuns
           /\ [c EXCEPT !.github = "done"] \in CheckRuns
           /\ [c EXCEPT !.github = "open"] \in CheckRuns
           /\ [c EXCEPT !.known = TRUE] \in CheckRuns
           /\ [c EXCEPT !.recorded = TRUE] \in CheckRuns
           /\ [c EXCEPT !.pending = TRUE] \in CheckRuns
BY DEF CheckRuns

\* The stretches of recover_checks.
Recoveries == [at : {"idle", "begun", "listed", "asked"}, jobs : SUBSET JobIds,
               id : Slot, completed : BOOLEAN]

\* Wherever the recovery is or goes on from, its state has the type.
LEMMA RecoveryTypes ==
    /\ NoRecovery \in Recoveries
    /\ \A jobs \in SUBSET JobIds :
          Remaining(jobs) \in Recoveries /\ RecoveryAt("begun", jobs) \in Recoveries
<1>1. ASSUME NEW jobs \in SUBSET JobIds, NEW at \in {"idle", "begun", "listed"}
      PROVE  RecoveryAt(at, jobs) \in Recoveries
  BY SlotFacts DEF RecoveryAt, Recoveries
<1> QED
  BY <1>1 DEF Remaining, NoRecovery

\* The initial state has the types.
LEMMA TypeInit == Init => TypeOK
<1> SUFFICES ASSUME Init PROVE TypeOK
  OBVIOUS
<1>1. created \in Slot /\ restarts \in 0..MaxRestarts
  BY BoundsAssumption, SlotFacts DEF Init, None
<1>2. job \in [JobIds -> Jobs \cup {NoJob}]
  BY DEF Init
<1>3. /\ pending \in [Keys -> Slot] /\ running \in [Keys -> Slot]
      /\ seen \in [Keys -> Slot] /\ saved \in [Keys -> Slot]
  BY SlotFacts DEF Init
<1>4. check \in [JobIds -> CheckRuns]
  BY DEF Init, CheckRuns, NoCheck
<1>5. recovery \in Recoveries
  BY RecoveryTypes DEF Init
<1>6. /\ worker \in [JobIds -> Stages] /\ status \in [JobIds -> Statuses]
      /\ outcome \in [JobIds -> Results \cup {"none", "cancelled"}]
  BY DEF Init, Stages, Statuses
<1> QED
  BY <1>1, <1>2, <1>3, <1>4, <1>5, <1>6 DEF Init, TypeOK, Recoveries

\* Admission cancels at most the running job of the same key.
LEMMA CancelNowBound ==
    ASSUME NEW new, NEW force
    PROVE  \/ CancelNow(new, force) = cancel
           \/ /\ running[new.key] # None
              /\ CancelNow(new, force) = cancel \cup {running[new.key]}
BY Zenon DEF CancelNow

\* Submitting a job keeps the types.
LEMMA TypeOfSubmit ==
    ASSUME TypeOK, NEW k \in Keys, NEW new \in Jobs, new.key = k,
           NEW force \in BOOLEAN, NEW conf \in BOOLEAN, Submit(new, force, conf)
    PROVE  TypeOK'
<1>1. CancelNow(new, force) \subseteq JobIds
  BY CancelNowBound, SlotFacts DEF TypeOK
<1>2. CASE UNCHANGED <<created, job, pending, cancel, status>>
  BY <1>2 DEF Submit, TypeOK, seenVars
<1>3. CASE Admit(new, force, conf)
  <2>1. created + 1 \in JobIds /\ created' \in Slot
    BY <1>3, SlotFacts DEF Admit, TypeOK
  <2>2. PICK done : status' = [Cancelled(done) EXCEPT
                                 ![created + 1] = IF conf THEN "queued" ELSE "skipped"]
    BY <1>3 DEF Admit
  <2>4. status' \in [JobIds -> Statuses]
    BY <2>2, CancelledType DEF Statuses, Terminal
  <2>3. job' \in [JobIds -> Jobs \cup {NoJob}] /\ pending' \in [Keys -> Slot]
        /\ cancel' \subseteq JobIds
    BY <1>1, <1>3, <2>1, SlotFacts DEF Admit, TypeOK
  <2> QED
    BY <2>1, <2>3, <2>4 DEF Submit, TypeOK, seenVars
<1>4. CASE AdmitFails(new, force)
  <2>1. status' \in [JobIds -> Statuses]
    BY <1>4, CancelledType DEF AdmitFails
  <2>2. pending' \in [Keys -> Slot] /\ cancel' \subseteq JobIds
    BY <1>1, <1>4, SlotFacts DEF AdmitFails, TypeOK
  <2> QED
    BY <1>4, <2>1, <2>2 DEF AdmitFails, Submit, TypeOK, seenVars
<1> QED
  BY <1>2, <1>3, <1>4 DEF Submit

\* Retargeting, closing and removal keep the types.
LEMMA TypeOfRequests ==
    ASSUME TypeOK, NEW k \in Keys,
           \/ \E b \in Targets : Retarget(k, b)
           \/ Close(k)
           \/ RemoveRepo(k)
    PROVE  TypeOK'
<1>1. CASE \E b \in Targets : Retarget(k, b)
  <2>1. status' \in [JobIds -> Statuses]
    BY <1>1, CancelledType DEF Retarget
  <2>2. pending' \in [Keys -> Slot] /\ cancel' \subseteq JobIds
    BY <1>1, SlotFacts DEF Retarget, At, TypeOK
  <2> QED
    BY <1>1, <2>1, <2>2 DEF Retarget, RequestUnchanged, TypeOK, seenVars
<1>2. CASE Close(k)
  <2>1. status' \in [JobIds -> Statuses]
    BY <1>2, CancelledType DEF Close
  <2>2. pending' \in [Keys -> Slot] /\ cancel' \subseteq JobIds
    BY <1>2, SlotFacts DEF Close, At, TypeOK
  <2> QED
    BY <1>2, <2>1, <2>2 DEF Close, RequestUnchanged, TypeOK, seenVars
<1>3. CASE RemoveRepo(k)
  <2>1. created + 1 \in JobIds
    BY <1>3, SlotFacts DEF RemoveRepo, TypeOK
  <2>2. status' \in [JobIds -> Statuses]
    BY <1>3, CancelledType DEF RemoveRepo
  <2>3. notified' \in BOOLEAN
    <3>1. notified' = TRUE \/ notified' = notified
      BY <1>3 DEF RemoveRepo
    <3> QED
      BY <3>1 DEF TypeOK
  <2>4. pending' \in [Keys -> Slot] /\ cancel' \subseteq JobIds /\ created' \in Slot
    BY <1>3, <2>1, SlotFacts DEF RemoveRepo, TypeOK
  <2>5. job' \in [JobIds -> Jobs \cup {NoJob}]
    BY <1>3, <2>1, JobTypes DEF RemoveRepo, TypeOK
  <2> QED
    BY <1>3, <2>2, <2>3, <2>4, <2>5 DEF RemoveRepo, RequestUnchanged, TypeOK, seenVars
<1> QED
  BY <1>1, <1>2, <1>3

\* Dispatching keeps the types.
LEMMA TypeOfDispatch ==
    ASSUME TypeOK, Dispatch
    PROVE  TypeOK'
<1>1. CASE Wake
  BY <1>1 DEF Wake, DispatcherUnchanged, TypeOK, seenVars
<1>2. CASE Take
  <2>1. ASSUME NEW k \in Keys, First(k),
               pending' = [pending EXCEPT ![k] = None],
               running' = [running EXCEPT ![k] = pending[k]],
               worker' = [worker EXCEPT ![pending[k]] = "start"],
               UNCHANGED dispatcher
        PROVE  TypeOK'
    <3>1. pending[k] \in JobIds
      BY <2>1, SlotFacts DEF First, Eligible, TypeOK
    <3>2. "start" \in Stages
      BY DEF Stages, InRun
    <3> QED
      BY <1>2, <2>1, <3>1, <3>2, SlotFacts DEF Take, DispatcherUnchanged, TypeOK, seenVars
  <2>2. CASE dispatcher' = "waiting" /\ UNCHANGED <<pending, running, worker>>
    BY <1>2, <2>2 DEF Take, DispatcherUnchanged, TypeOK, seenVars
  <2> QED
    BY <1>2, <2>1, <2>2 DEF Take
<1> QED
  BY <1>1, <1>2 DEF Dispatch

\* A run that proceeds keeps the types.
LEMMA TypeOfProceed ==
    ASSUME TypeOK, NEW i \in JobIds, Proceed(i)
    PROVE  TypeOK'
<1> USE StepType DEF Stages, InRun
<1>1. ASSUME NEW conf \in ConfigStates, Begin(i, conf) PROVE TypeOK'
  <2>1. PICK s \in Statuses : Transition(i, s)
    BY <1>1 DEF Begin, Statuses, Terminal
  <2>2. PICK to \in Stages : Step(i, "start", to)
    BY <1>1 DEF Begin
  <2> QED
    BY <1>1, <2>1, <2>2, SettledType DEF Begin, TypeOK, seenVars
<1>2. CASE RemoveWorkspace(i)
  BY <1>2, SlotFacts DEF RemoveWorkspace, Forget, TypeOK
<1>3. CASE PostCheck(i)
  <2>1. check' \in [JobIds -> CheckRuns]
    <3>1. check[i] \in CheckRuns
      BY DEF TypeOK
    <3>2. [[check[i] EXCEPT !.github = "open"] EXCEPT !.known = TRUE] \in CheckRuns
      BY <3>1, CheckRunTypes
    <3>3. check' = [check EXCEPT ![i] = [[check[i] EXCEPT !.github = "open"] EXCEPT !.known = TRUE]]
      BY <1>3, <3>1 DEF PostCheck, TypeOK, CheckRuns
    <3> QED
      BY <3>2, <3>3 DEF TypeOK
  <2> QED
    BY <1>3, <2>1 DEF PostCheck, TypeOK, seenVars
<1>4. CASE PostAbandoned(i)
  <2>1. check' \in [JobIds -> CheckRuns]
    <3>1. check[i] \in CheckRuns
      BY DEF TypeOK
    <3>2. [check[i] EXCEPT !.github = "open"] \in CheckRuns
      BY <3>1, CheckRunTypes
    <3>3. check' = [check EXCEPT ![i] = [check[i] EXCEPT !.github = "open"]]
      BY <1>4, <3>1 DEF PostAbandoned, TypeOK, CheckRuns
    <3> QED
      BY <3>2, <3>3 DEF TypeOK
  <2> QED
    BY <1>4, <2>1 DEF PostAbandoned, TypeOK, seenVars
<1>5. CASE RecordCheck(i)
  <2>1. check' \in [JobIds -> CheckRuns]
    <3>1. check[i] \in CheckRuns
      BY DEF TypeOK
    <3>2. [[check[i] EXCEPT !.recorded = TRUE] EXCEPT !.pending = TRUE] \in CheckRuns
      BY <3>1, CheckRunTypes
    <3>3. check' = [check EXCEPT ![i] = [[check[i] EXCEPT !.recorded = TRUE] EXCEPT !.pending = TRUE]]
      BY <1>5, <3>1 DEF RecordCheck, TypeOK, CheckRuns
    <3> QED
      BY <3>2, <3>3 DEF TypeOK
  <2> QED
    BY <1>5, <2>1 DEF RecordCheck, TypeOK, seenVars
<1>6. ASSUME NEW r \in Results, WorkEnds(i, r) PROVE TypeOK'
  <2>1. outcome' \in [JobIds -> Results \cup {"none", "cancelled"}]
    BY <1>6 DEF WorkEnds, TypeOK
  <2> QED
    BY <1>6, <2>1 DEF WorkEnds, TypeOK, seenVars
<1>7. CASE PatchCheck(i)
  <2>1. check' \in [JobIds -> CheckRuns]
    <3>1. /\ check[i] \in CheckRuns
          /\ Concluded(i) \in {"cancelled", "done"}
      BY DEF TypeOK, Concluded
    <3>2. [[check[i] EXCEPT !.github = Concluded(i)] EXCEPT !.pending = FALSE] \in CheckRuns
      BY <3>1, CheckRunTypes
    <3>3. check' = [check EXCEPT ![i] =
                        [[check[i] EXCEPT !.github = Concluded(i)] EXCEPT !.pending = FALSE]]
      BY <1>7, <3>1 DEF PatchCheck, TypeOK, CheckRuns
    <3> QED
      BY <3>2, <3>3 DEF TypeOK
  <2> QED
    BY <1>7, <2>1 DEF PatchCheck, TypeOK, seenVars
<1>8. CASE SkipCheck(i)
  BY <1>8 DEF SkipCheck, TypeOK, seenVars
<1>9. CASE CancelledLate(i)
  BY <1>9 DEF CancelledLate, TypeOK, seenVars
<1>10. CASE Checkpoint(i)
  BY <1>10, SlotFacts DEF Checkpoint, Finished, TypeOK
<1>11. CASE Summarise(i)
  <2>1. outcome[i] \in Statuses
    BY ResultsAssumption DEF TypeOK, Statuses, Terminal
  <2> QED
    BY <1>11, <2>1, FreeType, SettledType DEF Summarise, TypeOK, seenVars
<1>12. CASE Fail(i)
  <2>1. "failed" \in Statuses
    BY DEF Statuses, Terminal
  <2> QED
    BY <1>12, <2>1, SettledType DEF Fail, TypeOK, seenVars
<1>13. CASE Release(i)
  BY <1>13, FreeType DEF Release, TypeOK, seenVars
<1>14. CASE Leave(i)
  BY <1>14 DEF Leave, TypeOK, seenVars
<1> QED
  BY <1>1, <1>2, <1>3, <1>4, <1>5, <1>6, <1>7, <1>8, <1>9, <1>10, <1>11, <1>12,
     <1>13, <1>14 DEF Proceed

\* A run that stumbles keeps the types.
LEMMA TypeOfStumble ==
    ASSUME TypeOK, NEW i \in JobIds, Stumble(i)
    PROVE  TypeOK'
<1> USE StepType DEF Stages, InRun
<1>1. CASE BeginFails(i)
  <2>1. status' \in [JobIds -> Statuses]
    BY <1>1, SettledType DEF BeginFails, TypeOK, Statuses, Terminal
  <2> QED
    BY <1>1, <2>1 DEF BeginFails, TypeOK, seenVars
<1>2. CASE RemoveFails(i)
  BY <1>2, SlotFacts DEF RemoveFails, Forget, TypeOK
<1>3. CASE PatchFails(i)
  <2>1. check' \in [JobIds -> CheckRuns]
    <3>1. check[i] \in CheckRuns /\ check \in [JobIds -> CheckRuns]
      BY DEF TypeOK
    <3>2. \/ check' = check
          \/ \E github \in {check[i].github, Concluded(i)} :
                check' = [check EXCEPT ![i].github = github,
                                       ![i].pending = check[i].recorded]
      BY <1>3, Zenon DEF PatchFails
    <3>3. /\ {check[i].github, Concluded(i)} \subseteq {"none", "open", "cancelled", "done"}
          /\ check[i].recorded \in BOOLEAN
      BY <3>1 DEF CheckRuns, Concluded
    <3>4. ASSUME NEW github \in {check[i].github, Concluded(i)}
          PROVE  [check[i] EXCEPT !.github = github, !.pending = check[i].recorded] \in CheckRuns
      <4> HIDE DEF Concluded
      <4> QED  BY <3>1, <3>3, <3>4 DEF CheckRuns
    <3>5. ASSUME NEW github \in {check[i].github, Concluded(i)},
                 check' = [check EXCEPT ![i].github = github,
                                        ![i].pending = check[i].recorded]
          PROVE  check' \in [JobIds -> CheckRuns]
      <4> DEFINE c == [check[i] EXCEPT !.github = github, !.pending = check[i].recorded]
      <4>1. c \in CheckRuns /\ check' = [check EXCEPT ![i] = c]
        BY <3>4, <3>5
      <4> HIDE DEF c
      <4> QED  BY <3>1, <4>1
    <3> QED  BY <3>1, <3>2, <3>5
  <2> QED
    BY <1>3, <2>1 DEF PatchFails, TypeOK, seenVars
<1>4. CASE CheckpointFails(i)
  BY <1>4, SlotFacts DEF CheckpointFails, Finished, TypeOK
<1>5. CASE SummaryFails(i)
  <2>1. outcome[i] \in Statuses
    BY ResultsAssumption DEF TypeOK, Statuses, Terminal
  <2>2. status' \in [JobIds -> Statuses]
    BY <1>5, <2>1, SettledType DEF SummaryFails, TypeOK
  <2> QED
    BY <1>5, <2>2 DEF SummaryFails, TypeOK, seenVars
<1>6. CASE TidyFails(i)
  BY <1>6 DEF TidyFails, TypeOK, seenVars
<1>8. CASE WorkFails(i)
  BY <1>8 DEF WorkFails, TypeOK, seenVars
<1>7. CASE FailUnwritten(i)
  BY <1>7 DEF FailUnwritten, TypeOK, seenVars
<1> QED
  BY <1>1, <1>2, <1>3, <1>4, <1>5, <1>6, <1>7, <1>8 DEF Stumble

\* Recovery of checks keeps the types.
LEMMA TypeOfRecovery ==
    ASSUME TypeOK, Recover \/ RecoverFails \/ \E i \in JobIds : RecoverForgets(i)
    PROVE  TypeOK'
<1> USE DEF RecoveryUnchanged, queueVars, seenVars
<1>1. recovery \in Recoveries /\ (recovery' \in Recoveries /\ check' \in [JobIds -> CheckRuns]
                                    /\ RecoveryUnchanged => TypeOK')
  BY DEF TypeOK, Recoveries
<1>2. recovery.jobs \subseteq JobIds /\ recovery.id \in Slot
  BY <1>1 DEF Recoveries
<1>3. CASE RecoverBegin
  <2>1. Recoverable \subseteq JobIds
    BY DEF Recoverable
  <2> QED
    BY <1>1, <1>3, <2>1, RecoveryTypes DEF RecoverBegin, TypeOK
<1>4. CASE RecoverList
  <2>1. {i \in recovery.jobs : check[i].recorded /\ check[i].pending} \in SUBSET JobIds
    BY <1>2
  <2> QED
    BY <1>1, <1>4, <2>1, RecoveryTypes DEF RecoverList, TypeOK
<1>5. ASSUME NEW i \in JobIds, RecoverRead(i) PROVE TypeOK'
  <2>1. recovery' \in Recoveries
    BY <1>2, <1>5, SlotFacts DEF RecoverRead, Recoveries
  <2> QED
    BY <1>1, <1>5, <2>1 DEF RecoverRead, TypeOK
<1>6. CASE RecoverWrite
  <2>1. recovery' \in Recoveries
    BY <1>2, <1>6, RecoveryTypes DEF RecoverWrite
  <2>2. check' \in [JobIds -> CheckRuns]
    BY <1>6, SlotFacts DEF RecoverWrite, TypeOK, CheckRuns
  <2> QED
    BY <1>1, <1>6, <2>1, <2>2 DEF RecoverWrite
<1>7. CASE RecoverFails
  <2>1. check' \in [JobIds -> CheckRuns]
    BY <1>7, SlotFacts DEF RecoverFails, TypeOK, CheckRuns
  <2> QED
    BY <1>1, <1>7, <2>1, RecoveryTypes DEF RecoverFails
<1>8. ASSUME NEW i \in JobIds, RecoverForgets(i) PROVE TypeOK'
  <2>1. check' \in [JobIds -> CheckRuns]
    <3>1. check[i] \in CheckRuns /\ (check[i].pending /\ Active(i)) \in {FALSE, check[i].pending}
      BY Zenon DEF TypeOK
    <3>2. [check[i] EXCEPT !.pending = @ /\ Active(i)] \in CheckRuns
      BY <3>1 DEF CheckRuns
    <3> QED
      BY <1>8, <3>2, Zenon DEF RecoverForgets, TypeOK
  <2>2. recovery' \in Recoveries
    BY <1>2, <1>8, RecoveryTypes DEF RecoverForgets
  <2> QED
    BY <1>1, <1>8, <2>1, <2>2 DEF RecoverForgets
<1> QED
  BY <1>3, <1>4, <1>5, <1>6, <1>7, <1>8 DEF Recover

\* Closing, shutdown, crash and restart keep the types.
LEMMA TypeOfLifecycle ==
    ASSUME TypeOK, BeginShutdown \/ CancelJobs \/ Restart
    PROVE  TypeOK'
<1>1. CASE BeginShutdown
  BY <1>1, RecoveryTypes DEF BeginShutdown, TypeOK, queueVars, seenVars, Recoveries
<1>2. CASE CancelJobs
  <2>1. status' \in [JobIds -> Statuses]
    BY <1>2, CancelledType DEF CancelJobs
  <2> QED
    BY <1>2, <2>1, SlotFacts DEF CancelJobs, TypeOK, seenVars
<1>3. CASE Restart
  <2>1. restarts' \in 0..MaxRestarts
    BY <1>3, BoundsAssumption DEF Restart, TypeOK
  <2>2. status' \in [JobIds -> Statuses]
    BY <1>3 DEF Restart, TypeOK, Statuses, Terminal
  <2>3. worker' \in [JobIds -> Stages]
    BY <1>3 DEF Restart, Stages
  <2>4. recovery' \in Recoveries
    BY <1>3, RecoveryTypes DEF Restart
  <2> QED
    BY <1>3, <2>1, <2>2, <2>3, <2>4, SlotFacts DEF Restart, TypeOK, Recoveries
<1> QED
  BY <1>1, <1>2, <1>3

\* Every step keeps the types.
LEMMA TypeStep == TypeOK /\ [Next]_vars => TypeOK'
<1> SUFFICES ASSUME TypeOK, [Next]_vars PROVE TypeOK'
  OBVIOUS
<1>1. CASE Request
  <2>1. ASSUME NEW k \in ReviewKeys, NEW c \in Contents, NEW f \in BOOLEAN,
               NEW conf \in ConfigStates, Submit(Review(k, c), f, conf)
        PROVE  TypeOK'
    BY <2>1, TypeOfSubmit, JobTypes, ConfigAssumption DEF ReviewKeys, Review
  <2>2. ASSUME NEW k \in IndexKeys, NEW conf \in ConfigStates,
               Submit(Index(k), FALSE, conf)
        PROVE  TypeOK'
    BY <2>2, TypeOfSubmit, JobTypes, ConfigAssumption DEF IndexKeys, Index
  <2> QED
    BY <1>1, <2>1, <2>2, TypeOfRequests DEF Request
<1>2. CASE UNCHANGED vars
  BY <1>2 DEF vars, TypeOK
<1> QED
  BY <1>1, <1>2, TypeOfDispatch, TypeOfProceed, TypeOfStumble, TypeOfRecovery,
     TypeOfLifecycle DEF Next

\* Every variable keeps its type: whatever fails, no job id, key or stage leaks
\* from one structure of the server into another.
THEOREM TypeCorrect == Spec => []TypeOK
<1> QED
  BY TypeInit, TypeStep, PTL DEF Spec

-------------------------------------------------------------------------------
(* The queue and its workers.  LaneExclusive is not inductive: it says       *)
(* nothing of the queue, and the queue alone decides who starts.  What makes *)
(* it so: every worker inside a run is the running job of its own key        *)
(* (WorkersHold), and the running keys lie in different lanes (LanesHeld).   *)
(* The rest says which jobs may stand where.                                 *)

Unstarted == {"none", "leave"}

Fresh == \A i \in JobIds : i > created => worker[i] = "none"

PendingWaits ==
    \A k \in Keys : pending[k] # None =>
        /\ pending[k] <= created
        /\ job[pending[k]].key = k
        /\ worker[pending[k]] = "none"

RunningWorks ==
    \A k \in Keys : running[k] # None =>
        /\ running[k] <= created
        /\ job[running[k]].key = k
        /\ worker[running[k]] \notin Unstarted

WorkersHold ==
    \A i \in JobIds : InLane(i) => job[i].key \in Keys /\ running[job[i].key] = i

LanesHeld ==
    \A k, q \in Keys :
        running[k] # None /\ running[q] # None /\ Lane(k) = Lane(q) => k = q

CancelsRun == \A i \in cancel : \E k \in Keys : running[k] = i /\ i # None

QueueInv ==
    /\ Fresh /\ PendingWaits /\ RunningWorks
    /\ WorkersHold /\ LanesHeld /\ CancelsRun

\* The queue is in order at first.
LEMMA QueueInit == Init => QueueInv
BY DEF Init, QueueInv, Fresh, PendingWaits, RunningWorks, WorkersHold, LanesHeld,
       CancelsRun, InLane, InRun

\* A worker that goes on with its run, or gives it up, keeps the queue as it is.
LEMMA MoveKeepsQueue ==
    ASSUME TypeOK, QueueInv, NEW i \in JobIds, NEW from, NEW to, Step(i, from, to),
           from \notin Unstarted, to \notin Unstarted, to \in InRun => from \in InRun,
           UNCHANGED <<running, cancel>>
    PROVE  QueueInv'
<1>1. worker' = [worker EXCEPT ![i] = to] /\ worker[i] = from
      /\ UNCHANGED <<created, job, pending, running, cancel>>
  BY DEF Step
<1>2. Fresh'
  BY <1>1 DEF QueueInv, Fresh, Unstarted, TypeOK
<1>3. PendingWaits'
  BY <1>1 DEF QueueInv, PendingWaits, Unstarted, TypeOK
<1>4. RunningWorks'
  BY <1>1 DEF QueueInv, RunningWorks, TypeOK
<1>5. WorkersHold'
  BY <1>1 DEF QueueInv, WorkersHold, InLane, TypeOK
<1>6. LanesHeld' /\ CancelsRun'
  BY <1>1 DEF QueueInv, LanesHeld, CancelsRun, TypeOK
<1> QED
  BY <1>2, <1>3, <1>4, <1>5, <1>6 DEF QueueInv

\* A worker that gives up its key has left its run.
LEMMA FreeKeepsQueue ==
    ASSUME TypeOK, QueueInv, NEW i \in JobIds, NEW from, NEW to, Step(i, from, to),
           from \in {"summarise", "release"}, to \in {"release", "leave"}, Free(i)
    PROVE  QueueInv'
<1>1. worker' = [worker EXCEPT ![i] = to] /\ worker[i] = from
      /\ UNCHANGED <<created, job, pending>>
  BY DEF Step
<1>2. /\ running' = [k \in Keys |-> IF running[k] = i THEN None ELSE running[k]]
      /\ cancel' = cancel \ {i}
  BY DEF Free
<1>3. Fresh' /\ PendingWaits'
  BY <1>1 DEF QueueInv, Fresh, PendingWaits, TypeOK
<1>4. RunningWorks'
  BY <1>1, <1>2 DEF QueueInv, RunningWorks, TypeOK
<1>5. WorkersHold'
  BY <1>1, <1>2 DEF QueueInv, WorkersHold, InLane, InRun, TypeOK
<1>6. LanesHeld'
  BY <1>2 DEF QueueInv, LanesHeld
<1>7. CancelsRun'
  BY <1>1, <1>2 DEF QueueInv, CancelsRun, TypeOK
<1> QED
  BY <1>3, <1>4, <1>5, <1>6, <1>7 DEF QueueInv

\* A job that leaves the queue leaves it in order.
LEMMA LeaveKeepsQueue ==
    ASSUME TypeOK, QueueInv, NEW i \in JobIds, Leave(i)
    PROVE  QueueInv'
<1>1. worker' = [worker EXCEPT ![i] = "none"] /\ worker[i] = "leave"
      /\ UNCHANGED <<created, job, pending, running, cancel>>
  BY DEF Leave, Step
<1>2. Fresh' /\ PendingWaits'
  BY <1>1 DEF QueueInv, Fresh, PendingWaits, TypeOK
<1>3. RunningWorks'
  BY <1>1 DEF QueueInv, RunningWorks, Unstarted, TypeOK
<1>4. WorkersHold'
  BY <1>1 DEF QueueInv, WorkersHold, InLane, InRun, TypeOK
<1>5. LanesHeld' /\ CancelsRun'
  BY <1>1 DEF QueueInv, LanesHeld, CancelsRun, Unstarted, TypeOK
<1> QED
  BY <1>2, <1>3, <1>4, <1>5 DEF QueueInv

\* A request only drops waiting jobs, cancels running ones, or adds a new one.
LEMMA RequestKeepsQueue ==
    ASSUME TypeOK, TypeOK', QueueInv, UNCHANGED <<running, worker>>,
           \A i \in cancel' : i \in cancel \/ \E k \in Keys : i = running[k] /\ i # None,
           \/ /\ UNCHANGED <<created, job>>
              /\ \A k \in Keys : pending'[k] \in {None, pending[k]}
           \/ \E new \in Jobs :
                 /\ created < MaxJobs
                 /\ created' = created + 1
                 /\ job' = [job EXCEPT ![created'] = new]
                 /\ \A k \in Keys :
                       \/ pending'[k] \in {None, pending[k]}
                       \/ pending'[k] = created' /\ new.key = k
    PROVE  QueueInv'
<1>1. created \in Nat /\ created' \in Nat /\ created <= created'
  BY BoundsAssumption DEF TypeOK, Slot
<1>2. \A k \in Keys : running[k] \in Nat /\ pending[k] \in Nat
  BY BoundsAssumption DEF TypeOK, Slot
<1>3. \A i \in JobIds : i <= created => job'[i] = job[i]
  BY <1>1 DEF TypeOK, JobIds
<1>4. Fresh'
  BY <1>1 DEF QueueInv, Fresh, JobIds
<1>5. RunningWorks'
  BY <1>1, <1>2, <1>3, SlotFacts DEF QueueInv, RunningWorks, TypeOK
<1>6. \A i \in JobIds : InLane(i) => i <= created
  BY <1>1 DEF QueueInv, Fresh, InLane, InRun, JobIds
<1>7. WorkersHold'
  BY <1>3, <1>6 DEF QueueInv, WorkersHold, InLane
<1>8. LanesHeld'
  BY DEF QueueInv, LanesHeld
<1>9. CancelsRun'
  BY DEF QueueInv, CancelsRun, RunningWorks
<1>10. PendingWaits'
  <2>1. ASSUME NEW k \in Keys, pending'[k] # None, pending'[k] = pending[k]
        PROVE  /\ pending'[k] <= created'
               /\ job'[pending'[k]].key = k
               /\ worker'[pending'[k]] = "none"
    BY <1>1, <1>2, <1>3, <2>1, SlotFacts DEF QueueInv, PendingWaits, TypeOK
  <2>2. ASSUME NEW k \in Keys, NEW new \in Jobs, created < MaxJobs,
               created' = created + 1, job' = [job EXCEPT ![created'] = new],
               pending'[k] = created', new.key = k
        PROVE  /\ pending'[k] <= created'
               /\ job'[pending'[k]].key = k
               /\ worker'[pending'[k]] = "none"
    BY <1>1, <2>2, SlotFacts DEF QueueInv, Fresh, TypeOK
  <2> QED
    BY <2>1, <2>2 DEF PendingWaits
<1> QED
  BY <1>4, <1>5, <1>7, <1>8, <1>9, <1>10 DEF QueueInv

\* A job that is taken to run leaves the queue in order.
LEMMA TakeKeepsQueue ==
    ASSUME TypeOK, QueueInv, NEW k \in Keys, First(k),
           pending' = [pending EXCEPT ![k] = None],
           running' = [running EXCEPT ![k] = pending[k]],
           worker' = [worker EXCEPT ![pending[k]] = "start"],
           UNCHANGED <<created, job, cancel>>
    PROVE  QueueInv'
<1>1. /\ pending[k] \in JobIds /\ pending[k] # None
      /\ \A q \in Keys : running[q] # None => Lane(q) # Lane(k)
  BY SlotFacts DEF First, Eligible, BusyLanes, TypeOK
<1>2. /\ pending[k] <= created /\ job[pending[k]].key = k /\ worker[pending[k]] = "none"
  BY <1>1 DEF QueueInv, PendingWaits
<1>3. Fresh'
  BY <1>1, <1>2, BoundsAssumption DEF QueueInv, Fresh, TypeOK, JobIds, Slot
<1>4. PendingWaits'
  BY <1>1, <1>2, SlotFacts DEF QueueInv, PendingWaits, TypeOK
<1>5. RunningWorks'
  BY <1>1, <1>2, SlotFacts DEF QueueInv, RunningWorks, Unstarted, TypeOK
<1>6. WorkersHold'
  BY <1>1, <1>2, SlotFacts DEF QueueInv, WorkersHold, InLane, TypeOK
<1>7. LanesHeld'
  BY <1>1 DEF QueueInv, LanesHeld, TypeOK
<1>8. CancelsRun'
  BY <1>1 DEF QueueInv, CancelsRun, Unstarted, TypeOK
<1> QED
  BY <1>3, <1>4, <1>5, <1>6, <1>7, <1>8 DEF QueueInv

\* A submission keeps the queue in order.
LEMMA SubmitKeepsQueue ==
    ASSUME TypeOK, TypeOK', QueueInv, NEW k \in Keys, NEW new \in Jobs, new.key = k,
           NEW force \in BOOLEAN, NEW conf \in BOOLEAN, Submit(new, force, conf)
    PROVE  QueueInv'
<1>1. UNCHANGED <<running, worker>>
  BY DEF Submit
<1>2. \A i \in CancelNow(new, force) : i \in cancel \/ \E q \in Keys : i = running[q] /\ i # None
  BY CancelNowBound
<1>3. CASE UNCHANGED <<created, job, pending, cancel, status>>
  BY <1>1, <1>3, RequestKeepsQueue
<1>4. CASE Admit(new, force, conf)
  <2>1. /\ created < MaxJobs /\ created' = created + 1
        /\ job' = [job EXCEPT ![created'] = new]
        /\ cancel' = CancelNow(new, force)
    BY <1>4 DEF Admit
  <2>2. \A q \in Keys : \/ pending'[q] \in {None, pending[q]}
                        \/ pending'[q] = created' /\ new.key = q
    BY <1>4 DEF Admit, TypeOK
  <2> QED
    BY <1>1, <1>2, <2>1, <2>2, RequestKeepsQueue
<1>5. CASE AdmitFails(new, force)
  <2>1. UNCHANGED <<created, job>> /\ cancel' = CancelNow(new, force)
    BY <1>5 DEF AdmitFails
  <2>2. \A q \in Keys : pending'[q] \in {None, pending[q]}
    BY <1>5 DEF AdmitFails, TypeOK
  <2> QED
    BY <1>1, <1>2, <2>1, <2>2, RequestKeepsQueue
<1> QED
  BY <1>3, <1>4, <1>5 DEF Submit

\* Closing a pull request keeps the queue in order.
LEMMA ClosingKeepsQueue ==
    ASSUME TypeOK, TypeOK', QueueInv, NEW k \in Keys,
           \/ \E b \in Targets : Retarget(k, b)
           \/ Close(k)
           \/ RemoveRepo(k)
    PROVE  QueueInv'
<1>1. CASE \E b \in Targets : Retarget(k, b)
  <2>1. UNCHANGED <<created, job, running, worker>>
    BY <1>1 DEF Retarget, RequestUnchanged
  <2>2. \A q \in Keys : pending'[q] \in {None, pending[q]}
    BY <1>1 DEF Retarget, TypeOK
  <2>3. \A i \in cancel' : i \in cancel \/ \E q \in Keys : i = running[q] /\ i # None
    BY <1>1 DEF Retarget, At
  <2> QED
    BY <2>1, <2>2, <2>3, RequestKeepsQueue
<1>2. CASE Close(k)
  <2>1. UNCHANGED <<created, job, running, worker>>
    BY <1>2 DEF Close, RequestUnchanged
  <2>2. \A q \in Keys : pending'[q] \in {None, pending[q]}
    BY <1>2 DEF Close, TypeOK
  <2>3. \A i \in cancel' : i \in cancel \/ \E q \in Keys : i = running[q] /\ i # None
    BY <1>2 DEF Close, At
  <2> QED
    BY <2>1, <2>2, <2>3, RequestKeepsQueue
<1>3. CASE RemoveRepo(k)
  <2>1. /\ UNCHANGED <<running, worker>>
        /\ created < MaxJobs /\ created' = created + 1
        /\ job' = [job EXCEPT ![created'] = Remove(k)]
    BY <1>3 DEF RemoveRepo, RequestUnchanged
  <2>2. Remove(k) \in Jobs /\ Remove(k).key = k
    BY JobTypes DEF Remove
  <2>3. \A q \in Keys : \/ pending'[q] \in {None, pending[q]}
                        \/ pending'[q] = created' /\ Remove(k).key = q
    BY <1>3, <2>2 DEF RemoveRepo
  <2>4. \A i \in cancel' : i \in cancel \/ \E q \in Keys : i = running[q] /\ i # None
    BY <1>3 DEF RemoveRepo
  <2> QED
    BY <2>1, <2>2, <2>3, <2>4, RequestKeepsQueue
<1> QED
  BY <1>1, <1>2, <1>3

\* A run that proceeds keeps the queue in order.
LEMMA ProceedKeepsQueue ==
    ASSUME TypeOK, QueueInv, NEW i \in JobIds, Proceed(i)
    PROVE  QueueInv'
<1> USE MoveKeepsQueue DEF InRun, Unstarted
<1>1. ASSUME NEW conf \in ConfigStates, Begin(i, conf) PROVE QueueInv'
  <2>1. PICK to \in {"work", "release"} : Step(i, "start", to)
    BY <1>1 DEF Begin
  <2> QED
    BY <1>1, <2>1 DEF Begin
<1>2. CASE RemoveWorkspace(i)
  BY <1>2 DEF RemoveWorkspace
<1>3. CASE PostCheck(i) \/ PostAbandoned(i) \/ RecordCheck(i)
  BY <1>3 DEF PostCheck, PostAbandoned, RecordCheck
<1>4. ASSUME NEW r \in Results, WorkEnds(i, r) PROVE QueueInv'
  BY <1>4 DEF WorkEnds
<1>5. CASE PatchCheck(i) \/ SkipCheck(i)
  BY <1>5 DEF PatchCheck, SkipCheck
<1>6. CASE CancelledLate(i)
  BY <1>6 DEF CancelledLate
<1>7. CASE Checkpoint(i)
  BY <1>7 DEF Checkpoint
<1>8. CASE Summarise(i)
  BY <1>8, FreeKeepsQueue DEF Summarise
<1>9. CASE Fail(i)
  BY <1>9 DEF Fail
<1>10. CASE Release(i)
  BY <1>10, FreeKeepsQueue DEF Release
<1>11. CASE Leave(i)
  BY <1>11, LeaveKeepsQueue
<1> QED
  BY <1>1, <1>2, <1>3, <1>4, <1>5, <1>6, <1>7, <1>8, <1>9, <1>10, <1>11 DEF Proceed

\* A run that stumbles keeps the queue in order.
LEMMA StumbleKeepsQueue ==
    ASSUME TypeOK, QueueInv, NEW i \in JobIds, Stumble(i)
    PROVE  QueueInv'
BY MoveKeepsQueue
   DEF Stumble, BeginFails, RemoveFails, WorkFails, PatchFails, CheckpointFails, SummaryFails,
       TidyFails, FailUnwritten, InRun, Unstarted

\* Every step keeps the queue in order.
LEMMA QueueStep == TypeOK /\ TypeOK' /\ QueueInv /\ [Next]_vars => QueueInv'
<1> SUFFICES ASSUME TypeOK, TypeOK', QueueInv, [Next]_vars PROVE QueueInv'
  OBVIOUS
<1>1. CASE Request
  <2>1. ASSUME NEW k \in ReviewKeys, NEW c \in Contents, NEW f \in BOOLEAN,
               NEW conf \in ConfigStates, Submit(Review(k, c), f, conf)
        PROVE  QueueInv'
    BY <2>1, SubmitKeepsQueue, JobTypes, ConfigAssumption DEF ReviewKeys, Review
  <2>2. ASSUME NEW k \in IndexKeys, NEW conf \in ConfigStates,
               Submit(Index(k), FALSE, conf)
        PROVE  QueueInv'
    BY <2>2, SubmitKeepsQueue, JobTypes, ConfigAssumption DEF IndexKeys, Index
  <2> QED
    BY <1>1, <2>1, <2>2, ClosingKeepsQueue DEF Request
<1>2. CASE UNCHANGED <<queueVars, worker>>
  BY <1>2 DEF queueVars, QueueInv, Fresh, PendingWaits, RunningWorks, WorkersHold,
              LanesHeld, CancelsRun, InLane
<1>3. CASE Dispatch
  <2>1. CASE UNCHANGED <<pending, running, worker>>
    BY <1>2, <1>3, <2>1 DEF Dispatch, Wake, Take, DispatcherUnchanged, queueVars
  <2>2. ASSUME NEW k \in Keys, First(k), DispatcherUnchanged,
               pending' = [pending EXCEPT ![k] = None],
               running' = [running EXCEPT ![k] = pending[k]],
               worker' = [worker EXCEPT ![pending[k]] = "start"]
        PROVE  QueueInv'
    BY <2>2, TakeKeepsQueue DEF DispatcherUnchanged
  <2> QED
    BY <1>3, <2>1, <2>2 DEF Dispatch, Wake, Take
<1>4. CASE \E i \in JobIds : Proceed(i) \/ Stumble(i)
  BY <1>4, ProceedKeepsQueue, StumbleKeepsQueue
<1>5. CASE Recover \/ RecoverFails \/ \E i \in JobIds : RecoverForgets(i)
  BY <1>2, <1>5 DEF Recover, RecoverBegin, RecoverList, RecoverRead, RecoverWrite, RecoverFails,
                    RecoverForgets, RecoveryUnchanged
<1>6. CASE BeginShutdown
  BY <1>2, <1>6 DEF BeginShutdown
<1>7. CASE CancelJobs
  <2>1. UNCHANGED <<created, job, running, worker>>
    BY <1>7 DEF CancelJobs
  <2>2. \A k \in Keys : pending'[k] = None
    BY <1>7 DEF CancelJobs
  <2>3. \A i \in cancel' : i \in cancel \/ \E k \in Keys : i = running[k] /\ i # None
    BY <1>7 DEF CancelJobs
  <2> QED
    BY <2>1, <2>2, <2>3, RequestKeepsQueue
<1>8. CASE Restart
  BY <1>8 DEF Restart, QueueInv, Fresh, PendingWaits, RunningWorks, WorkersHold,
              LanesHeld, CancelsRun, InLane, InRun
<1>9. CASE UNCHANGED vars
  BY <1>2, <1>9 DEF vars, queueVars
<1> QED
  BY <1>1, <1>3, <1>4, <1>5, <1>6, <1>7, <1>8, <1>9 DEF Next

\* The types and the order of the queue hold in every reachable state.
LEMMA QueueInvariant == Spec => [](TypeOK /\ QueueInv)
<1>1. Init => TypeOK /\ QueueInv
  BY TypeInit, QueueInit
<1>2. TypeOK /\ QueueInv /\ [Next]_vars => TypeOK' /\ QueueInv'
  BY TypeStep, QueueStep
<1> QED
  BY <1>1, <1>2, PTL DEF Spec

\* The lane check of take_with_external_limit and the release of a key by the id
\* of its job are enough, for any number of repositories, keys, workers and
\* permits and over every fault and restart: two workers never share a checkout.
THEOREM LanesAreExclusive == Spec => []LaneExclusive
<1>1. TypeOK /\ QueueInv => LaneExclusive
  BY DEF QueueInv, WorkersHold, LanesHeld, LaneExclusive, JobIds, None
<1> QED
  BY <1>1, QueueInvariant, PTL

-------------------------------------------------------------------------------
(* The limit of external reviews.                                          *)

LimitInv ==
    /\ IsFiniteSet(ExternalRunning)
    /\ Cardinality(ExternalRunning) <= ExternalLimit

\* Only take gives a key a running job.
LEMMA RunningChanges ==
    ASSUME TypeOK, [Next]_vars
    PROVE  \/ \A k \in Keys : running'[k] # None => running[k] # None
           \/ \E k \in Keys : First(k) /\ running' = [running EXCEPT ![k] = pending[k]]
<1>1. CASE Request
  BY <1>1 DEF Request, Submit, Retarget, Close, RemoveRepo, RequestUnchanged
<1>2. CASE Dispatch
  BY <1>2 DEF Dispatch, Wake, Take
<1>3. ASSUME NEW i \in JobIds, Proceed(i) \/ Stumble(i)
      PROVE  \A k \in Keys : running'[k] # None => running[k] # None
  <2>1. Free(i) \/ UNCHANGED running
    BY <1>3 DEF Proceed, Begin, RemoveWorkspace, PostCheck, PostAbandoned, RecordCheck, WorkEnds,
         PatchCheck, SkipCheck, CancelledLate, Checkpoint, Summarise, Fail, Release, Leave,
         Stumble, BeginFails, RemoveFails, WorkFails, PatchFails, CheckpointFails,
         SummaryFails, TidyFails, FailUnwritten
  <2> QED  BY <2>1 DEF Free
<1>4. CASE Recover \/ RecoverFails \/ \E i \in JobIds : RecoverForgets(i)
  BY <1>4 DEF Recover, RecoverBegin, RecoverList, RecoverRead, RecoverWrite, RecoverFails,
              RecoverForgets, RecoveryUnchanged, queueVars
<1>5. CASE BeginShutdown \/ CancelJobs \/ UNCHANGED vars
  BY <1>5 DEF BeginShutdown, CancelJobs, vars, queueVars
<1>6. CASE Restart
  BY <1>6 DEF Restart
<1> QED  BY <1>1, <1>2, <1>3, <1>4, <1>5, <1>6 DEF Next

\* take counts before it starts one more; nothing else starts any.
LEMMA LimitStep == TypeOK /\ LimitInv /\ [Next]_vars => LimitInv'
<1> SUFFICES ASSUME TypeOK, LimitInv, [Next]_vars  PROVE LimitInv'
  OBVIOUS
<1>1. ExternalLimit \in Nat /\ Cardinality(ExternalRunning) \in Nat
  BY FS_CardinalityType, BoundsAssumption DEF LimitInv
<1>2. CASE ExternalRunning' \subseteq ExternalRunning
  <2>1. /\ IsFiniteSet(ExternalRunning')
        /\ Cardinality(ExternalRunning') <= Cardinality(ExternalRunning)
    BY <1>2, FS_Subset DEF LimitInv
  <2>2. Cardinality(ExternalRunning') \in Nat
    BY <2>1, FS_CardinalityType
  <2> QED  BY <1>1, <2>1, <2>2 DEF LimitInv
<1>3. ASSUME NEW k \in Keys, First(k), running' = [running EXCEPT ![k] = pending[k]]
      PROVE  LimitInv'
  <2>1. CASE k[3] # External
    BY <1>2, <1>3, <2>1 DEF ExternalRunning, TypeOK
  <2>2. CASE k[3] = External
    <3>1. Cardinality(ExternalRunning) < ExternalLimit /\ pending[k] # None
      BY <1>3, <2>2 DEF First, Eligible
    <3>2. ExternalRunning' = ExternalRunning \cup {k}
      BY <1>3, <2>2, <3>1 DEF ExternalRunning, TypeOK
    <3>3. /\ IsFiniteSet(ExternalRunning')
          /\ Cardinality(ExternalRunning') <= Cardinality(ExternalRunning) + 1
      BY <1>1, <3>2, FS_AddElement DEF LimitInv
    <3>4. Cardinality(ExternalRunning') \in Nat
      BY <3>3, FS_CardinalityType
    <3> QED  BY <1>1, <3>1, <3>3, <3>4 DEF LimitInv
  <2> QED  BY <2>1, <2>2
<1>4. CASE \A k \in Keys : running'[k] # None => running[k] # None
  BY <1>2, <1>4 DEF ExternalRunning
<1> QED  BY <1>3, <1>4, RunningChanges

\* Each worker inside an external review is the running job of its own key.
LEMMA LimitCounts == TypeOK /\ QueueInv /\ LimitInv => ExternalWithinLimit
<1> SUFFICES ASSUME TypeOK, QueueInv, LimitInv  PROVE ExternalWithinLimit
  OBVIOUS
<1> DEFINE inside == {i \in JobIds : InLane(i) /\ job[i].key[3] = External}
           keyOf  == [i \in inside |-> job[i].key]
<1>1. \A i \in inside : job[i].key \in Keys /\ running[job[i].key] = i /\ i # None
  BY DEF QueueInv, WorkersHold, JobIds, None
<1>2. keyOf \in [inside -> ExternalRunning]
  BY <1>1 DEF ExternalRunning
<1>3. \A i, j \in inside : keyOf[i] = keyOf[j] => i = j
  BY <1>1
<1>4. keyOf \in Injection(inside, ExternalRunning)
  <2> HIDE DEF keyOf, inside
  <2> QED  BY <1>2, <1>3 DEF Injection, IsInjective
<1>5. IsFiniteSet(inside) /\ Cardinality(inside) <= Cardinality(ExternalRunning)
  <2> HIDE DEF keyOf, inside
  <2> QED  BY <1>4, FS_Injection DEF LimitInv
<1>6. Cardinality(inside) \in Nat /\ Cardinality(ExternalRunning) \in Nat /\ ExternalLimit \in Nat
  BY <1>5, FS_CardinalityType, BoundsAssumption DEF LimitInv
<1>7. Cardinality(inside) <= ExternalLimit
  BY <1>5, <1>6 DEF LimitInv
<1> QED  BY <1>7 DEF ExternalWithinLimit

\* For any keys, permits and faults: no more external reviews have a worker
\* inside their run than the preference allows, though take counts keys and a key
\* is given back before its worker has ended.
THEOREM ExternalLimitHolds == Spec => []ExternalWithinLimit
<1>1. Init => LimitInv
  <2> SUFFICES ASSUME Init  PROVE LimitInv
    OBVIOUS
  <2>1. ExternalRunning = {}
    BY DEF Init, ExternalRunning
  <2>2. IsFiniteSet({}) /\ Cardinality({}) = 0
    BY FS_EmptySet
  <2>3. 0 <= ExternalLimit
    BY BoundsAssumption
  <2> QED  BY <2>1, <2>2, <2>3 DEF LimitInv
<1> QED  BY <1>1, LimitStep, LimitCounts, QueueInvariant, PTL DEF Spec

-------------------------------------------------------------------------------
(* The summaries.  A job that is told to stop and a job that is shown as     *)
(* cancelled are two pieces of state, written one after the other; these are *)
(* the invariants that relate them, whatever can or cannot be written.       *)

Unused == \A i \in JobIds : i > created => status[i] = "none"

RemovalsUnseen == \A i \in JobIds : ~IsSummarised(i) => status[i] = "none"

PendingQueued ==
    \A k \in Keys : pending[k] # None /\ IsSummarised(pending[k])
                       => status[pending[k]] = "queued"

\* A result is `cancelled' only while the worker's cancel watch is true.
OutcomeTold ==
    \A i \in JobIds :
        worker[i] \in {"check", "commit", "summarise"} /\ outcome[i] = "cancelled"
            => i \in cancel

SummaryInv == Unused /\ RemovalsUnseen /\ PendingQueued /\ CancelledIsTold /\ OutcomeTold

\* What every request, and the cancellation at shutdown, does to the summaries:
\* it cancels jobs it told to stop or took off the queue, and may add one job.
Requests ==
    /\ QueueFree
    /\ UNCHANGED <<running, worker, outcome>>
    /\ cancel \subseteq cancel'
    /\ created <= created'
    /\ \A i \in JobIds : i <= created =>
          /\ job'[i] = job[i]
          /\ \/ status'[i] = status[i]
             \/ /\ status'[i] = "cancelled"
                /\ IsSummarised(i)
                /\ i \in cancel' \/ \E k \in Keys : pending[k] = i /\ pending'[k] # i
    /\ \A i \in JobIds : i > created =>
          \/ status'[i] = "none"
          \/ /\ i <= created'
             /\ job'[i].kind # "remove"
             /\ status'[i] \in {"queued", "skipped"}
    /\ \A k \in Keys :
          \/ pending'[k] \in {None, pending[k]}
          \/ /\ pending'[k] > created
             /\ job'[pending'[k]].kind # "remove" => status'[pending'[k]] = "queued"

\* At first no summary is written.
LEMMA SummaryInit == Init => SummaryInv
BY DEF Init, SummaryInv, Unused, RemovalsUnseen, PendingQueued, CancelledIsTold,
       OutcomeTold, IsSummarised, NoJob

\* Identifiers in use were given out before.
LEMMA InUse ==
    ASSUME TypeOK, QueueInv
    PROVE  /\ \A k \in Keys : pending[k] # None => pending[k] <= created /\ pending[k] \in JobIds
           /\ \A k \in Keys : running[k] # None => running[k] <= created /\ running[k] \in JobIds
           /\ \A i \in cancel : i <= created
<1>1. \A i \in cancel : worker[i] # "none" /\ i \in JobIds
  BY DEF QueueInv, CancelsRun, RunningWorks, Unstarted, TypeOK
<1>2. \A i \in JobIds : worker[i] # "none" => i <= created
  BY BoundsAssumption DEF QueueInv, Fresh, TypeOK, Slot, JobIds
<1> QED
  BY <1>1, <1>2, SlotFacts DEF QueueInv, PendingWaits, RunningWorks, TypeOK

\* Requests write no summary but those of the jobs they cancel.
LEMMA RequestsKeepSummaries ==
    ASSUME TypeOK, TypeOK', QueueInv, QueueInv', SummaryInv, Requests
    PROVE  SummaryInv'
<1>1. created \in Nat /\ created' \in Nat /\ \A i \in JobIds : i \in Nat
  BY BoundsAssumption DEF TypeOK, Slot, JobIds
<1>2. \A k \in Keys : pending'[k] # None => pending'[k] \in JobIds
  BY SlotFacts DEF TypeOK
<1>3. Unused'
  BY <1>1 DEF SummaryInv, Unused, Requests
<1>4. RemovalsUnseen'
  BY <1>1 DEF SummaryInv, RemovalsUnseen, IsSummarised, Requests
<1>5. PendingQueued'
  <2> SUFFICES ASSUME NEW k \in Keys, pending'[k] # None, IsSummarised(pending[k])'
               PROVE  status'[pending'[k]] = "queued"
    BY DEF PendingQueued
  <2>1. CASE pending'[k] = pending[k]
    <3>1. pending[k] <= created /\ pending[k] \in JobIds
      BY <2>1, InUse
    <3>2. status[pending[k]] = "queued"
      BY <2>1, <3>1 DEF SummaryInv, PendingQueued, IsSummarised, Requests
    <3>3. pending[k] \notin cancel'
      BY <2>1 DEF QueueInv, CancelsRun, RunningWorks, PendingWaits, Unstarted, Requests
    <3>4. \A q \in Keys : pending[q] = pending[k] => q = k
      BY <2>1 DEF QueueInv, PendingWaits
    <3> QED
      BY <2>1, <3>1, <3>2, <3>3, <3>4 DEF Requests
  <2>2. CASE pending'[k] # pending[k]
    BY <2>2 DEF Requests, IsSummarised
  <2> QED
    BY <2>1, <2>2
<1>6. CancelledIsTold'
  <2> SUFFICES ASSUME NEW k \in Keys, running[k] # None, status'[running[k]] = "cancelled"
               PROVE  running[k] \in cancel'
    BY DEF CancelledIsTold, Requests
  <2>1. running[k] <= created /\ running[k] \in JobIds
    BY InUse
  <2>2. \A q \in Keys : pending[q] # running[k]
    BY DEF QueueInv, PendingWaits, RunningWorks, Unstarted
  <2> QED
    BY <2>1, <2>2 DEF Requests, SummaryInv, CancelledIsTold
<1>7. OutcomeTold'
  BY DEF SummaryInv, OutcomeTold, Requests
<1> QED
  BY <1>3, <1>4, <1>5, <1>6, <1>7 DEF SummaryInv

\* What the step of a worker does to the summaries: only its own may change, only
\* if the job has one and is not cancelled, and a job becomes cancelled when it
\* leaves its key or was told to.
Reports(i) ==
    /\ UNCHANGED <<created, job, pending>>
    /\ worker[i] # "none"
    /\ \/ UNCHANGED <<running, cancel>>
       \/ Free(i)
    /\ \A j \in JobIds : status'[j] # status[j] =>
          /\ j = i
          /\ IsSummarised(i)
          /\ status[i] # "cancelled"
          /\ status'[i] = "cancelled" => Free(i) \/ i \in cancel'
    /\ \A j \in JobIds : j # i => worker'[j] = worker[j] /\ outcome'[j] = outcome[j]
    /\ worker'[i] \in {"check", "commit", "summarise"} /\ outcome'[i] = "cancelled"
          => i \in cancel'

\* Reports of a run write the summary of its own job only.
LEMMA ReportsKeepSummaries ==
    ASSUME TypeOK, TypeOK', QueueInv, SummaryInv, NEW i \in JobIds, Reports(i)
    PROVE  SummaryInv'
<1>1. i <= created
  BY BoundsAssumption DEF Reports, QueueInv, Fresh, TypeOK, Slot, JobIds
<1>2. \A k \in Keys : pending[k] # i
  BY SlotFacts DEF Reports, QueueInv, PendingWaits
<1>3. Unused'
  BY <1>1, BoundsAssumption DEF SummaryInv, Unused, Reports, TypeOK, Slot, JobIds
<1>4. RemovalsUnseen'
  BY DEF SummaryInv, RemovalsUnseen, IsSummarised, Reports
<1>5. PendingQueued'
  BY <1>2, InUse DEF SummaryInv, PendingQueued, IsSummarised, Reports
<1>6. CancelledIsTold'
  <2> SUFFICES ASSUME NEW k \in Keys, running'[k] # None,
                      status'[running'[k]] = "cancelled"
               PROVE  running'[k] \in cancel'
    BY DEF CancelledIsTold
  <2>1. running'[k] = running[k] /\ running[k] \in JobIds
    BY InUse DEF Reports, Free
  <2>2. CASE running[k] = i
    BY <2>1, <2>2 DEF Reports, Free, SummaryInv, CancelledIsTold
  <2>3. CASE running[k] # i
    BY <2>1, <2>3 DEF Reports, Free, SummaryInv, CancelledIsTold
  <2> QED
    BY <2>2, <2>3
<1>7. OutcomeTold'
  BY DEF Reports, Free, SummaryInv, OutcomeTold
<1> QED
  BY <1>3, <1>4, <1>5, <1>6, <1>7 DEF SummaryInv

\* What cancelling does to the status of one job.
LEMMA CancelledValue ==
    ASSUME NEW ids, NEW i \in JobIds
    PROVE  /\ Cancelled(ids)[i] = IF i \in ids /\ IsSummarised(i) THEN "cancelled" ELSE status[i]
           /\ Cancelled(ids) = [j \in JobIds |-> Cancelled(ids)[j]]
BY DEF Cancelled

\* A write that is cut short has written some of what it was to write.
LEMMA WrittenBound == \A ids : \A done \in Written(ids) : done \subseteq ids
BY DEF Written

\* Only identifiers that were given out are cancelled.
LEMMA CancelInUse ==
    ASSUME TypeOK', QueueInv'
    PROVE  \A i \in cancel' : i \in JobIds /\ i <= created'
BY SlotFacts DEF QueueInv, CancelsRun, RunningWorks, TypeOK

\* A request that adds no job.
LEMMA CancelRequests ==
    ASSUME TypeOK, TypeOK', QueueInv, QueueInv', SummaryInv, NEW done, QueueFree,
           UNCHANGED <<created, job, running, worker, outcome>>,
           cancel \subseteq cancel',
           \A k \in Keys : pending'[k] \in {None, pending[k]},
           status' = Cancelled(done),
           \A i \in done \cap JobIds :
               i \in cancel' \/ \E k \in Keys : pending[k] = i /\ pending'[k] # i
    PROVE  Requests
<1>1. created \in Nat /\ \A i \in JobIds : i \in Nat
  BY BoundsAssumption DEF TypeOK, Slot, JobIds
<1>2. \A i \in done \cap JobIds : i <= created
  BY InUse, CancelInUse, SlotFacts
<1>3. \A i \in JobIds : i > created => status'[i] = "none"
  BY <1>1, <1>2, CancelledValue DEF SummaryInv, Unused
<1>4. \A i \in JobIds :
        \/ status'[i] = status[i]
        \/ status'[i] = "cancelled" /\ IsSummarised(i) /\ i \in done
  BY CancelledValue
<1> QED
  BY <1>1, <1>3, <1>4 DEF Requests

\* A request that adds a job.
LEMMA AddRequests ==
    ASSUME TypeOK, TypeOK', QueueInv, QueueInv', SummaryInv, NEW done, QueueFree, NEW new \in Jobs,
           UNCHANGED <<running, worker, outcome>>,
           cancel \subseteq cancel',
           created < MaxJobs, created' = created + 1,
           job' = [job EXCEPT ![created'] = new],
           \A k \in Keys : \/ pending'[k] \in {None, pending[k]}
                           \/ pending'[k] = created',
           \A i \in done \cap JobIds :
               \/ \E k \in Keys : running[k] = i /\ i \in cancel'
               \/ \E k \in Keys : pending[k] = i /\ pending'[k] # i,
           \/ new.kind = "remove" /\ status' = Cancelled(done)
           \/ /\ new.kind # "remove"
              /\ \E s \in {"queued", "skipped"} :
                    /\ status' = [Cancelled(done) EXCEPT ![created'] = s]
                    /\ s = "skipped" => \A k \in Keys : pending'[k] # created'
    PROVE  Requests
<1>1. /\ created \in Nat /\ created' \in JobIds
      /\ \A i \in JobIds : i \in Nat
  BY BoundsAssumption DEF TypeOK, Slot, JobIds
<1>2. \A i \in done \cap JobIds : i <= created
  BY InUse, SlotFacts
<1>3. \A i \in JobIds : i # created' => status'[i] = Cancelled(done)[i]
  BY CancelledValue
<1>4. \A i \in JobIds : i <= created =>
        \/ status'[i] = status[i]
        \/ status'[i] = "cancelled" /\ IsSummarised(i) /\ i \in done
  BY <1>1, <1>3, CancelledValue
<1>5. \A i \in JobIds : i > created =>
        \/ status'[i] = "none"
        \/ i = created' /\ new.kind # "remove" /\ status'[i] \in {"queued", "skipped"}
  <2> SUFFICES ASSUME NEW i \in JobIds, i > created
               PROVE  \/ status'[i] = "none"
                      \/ /\ i = created' /\ new.kind # "remove"
                         /\ status'[i] \in {"queued", "skipped"}
    OBVIOUS
  <2>1. Cancelled(done)[i] = "none"
    BY <1>1, <1>2, CancelledValue DEF SummaryInv, Unused
  <2> QED
    BY <1>1, <1>3, <2>1, CancelledValue
<1>6. \A i \in JobIds : i <= created => job'[i] = job[i]
  BY <1>1 DEF TypeOK
<1>7. job'[created'] = new
  BY <1>1 DEF TypeOK
<1>8. \A k \in Keys : pending'[k] = created' /\ new.kind # "remove" => status'[created'] = "queued"
  BY <1>1, CancelledValue
<1>9. \A i \in JobIds : i <= created /\ i \in done =>
          i \in cancel' \/ \E k \in Keys : pending[k] = i /\ pending'[k] # i
  OBVIOUS
<1>10. \A k \in Keys :
          \/ pending'[k] \in {None, pending[k]}
          \/ /\ pending'[k] > created
             /\ job'[pending'[k]].kind # "remove" => status'[pending'[k]] = "queued"
  BY <1>1, <1>7, <1>8
<1> QED
  BY <1>1, <1>4, <1>5, <1>6, <1>7, <1>9, <1>10 DEF Requests

\* A submission, as far as the summaries see it.
LEMMA SubmitRequests ==
    ASSUME TypeOK, TypeOK', QueueInv, QueueInv', SummaryInv,
           NEW k \in Keys, NEW new \in Jobs, new.key = k, new.kind # "remove",
           NEW force \in BOOLEAN, NEW conf \in BOOLEAN, Submit(new, force, conf)
    PROVE  Requests
<1>1. QueueFree /\ UNCHANGED <<running, worker, outcome>>
  BY DEF Submit
<1>2. \A done \in Written(Displaced(new, cancel')) :
        \A i \in done : i = pending[k] \/ (i = running[k] /\ i \in cancel')
  <2>1. \A i \in Displaced(new, cancel') :
            i = pending[k] \/ (i = running[k] /\ i \in cancel')
    BY DEF Displaced
  <2> QED
    BY <2>1, WrittenBound
<1>3. cancel \subseteq CancelNow(new, force)
  BY CancelNowBound
<1>4. CASE UNCHANGED <<created, job, pending, cancel, status>>
  BY <1>1, <1>4, BoundsAssumption DEF Requests, SummaryInv, Unused, TypeOK, Slot
<1>5. CASE Admit(new, force, conf)
  <2>1. /\ created < MaxJobs /\ created' = created + 1
        /\ job' = [job EXCEPT ![created'] = new]
        /\ cancel' = CancelNow(new, force)
        /\ pending' = [pending EXCEPT ![k] = IF conf THEN created' ELSE None]
    BY <1>5 DEF Admit
  <2>2. PICK done \in Written(Displaced(new, cancel')) :
            status' = [Cancelled(done) EXCEPT ![created'] = IF conf THEN "queued" ELSE "skipped"]
    BY <1>5 DEF Admit
  <2>3. created' # None /\ \A q \in Keys : pending[q] # created'
    BY <2>1, InUse, BoundsAssumption DEF TypeOK, Slot, None
  <2>4. \A i \in done \cap JobIds :
            \/ \E q \in Keys : running[q] = i /\ i \in cancel'
            \/ \E q \in Keys : pending[q] = i /\ pending'[q] # i
    BY <1>2, <2>1, <2>2, <2>3, SlotFacts DEF TypeOK
  <2>5. \A q \in Keys : pending'[q] \in {None, pending[q]} \/ pending'[q] = created'
    BY <2>1 DEF TypeOK
  <2>6. ~conf => \A q \in Keys : pending'[q] # created'
    BY <2>1, <2>3 DEF TypeOK
  <2> QED
    BY <1>1, <1>3, <2>1, <2>2, <2>4, <2>5, <2>6, AddRequests
<1>6. CASE AdmitFails(new, force)
  <2>1. /\ UNCHANGED <<created, job>>
        /\ cancel' = CancelNow(new, force)
        /\ pending' = [pending EXCEPT ![k] = None]
    BY <1>6 DEF AdmitFails
  <2>2. PICK done \in Written(Displaced(new, cancel')) :
            status' = Cancelled(done)
    BY <1>6 DEF AdmitFails
  <2>3. \A i \in done \cap JobIds :
            i \in cancel' \/ \E q \in Keys : pending[q] = i /\ pending'[q] # i
    BY <1>2, <2>1, <2>2, SlotFacts DEF TypeOK
  <2>4. \A q \in Keys : pending'[q] \in {None, pending[q]}
    BY <2>1 DEF TypeOK
  <2> QED
    BY <1>1, <1>3, <2>1, <2>2, <2>3, <2>4, CancelRequests
<1> QED
  BY <1>4, <1>5, <1>6 DEF Submit

\* Closing, as far as the summaries see it.
LEMMA ClosingRequests ==
    ASSUME TypeOK, TypeOK', QueueInv, QueueInv', SummaryInv, NEW k \in Keys,
           \/ \E b \in Targets : Retarget(k, b)
           \/ Close(k)
           \/ RemoveRepo(k)
    PROVE  Requests
<1>1. CASE \E b \in Targets : Retarget(k, b)
  <2>1. PICK b \in Targets : Retarget(k, b)
    BY <1>1
  <2> DEFINE stale == {i \in At(k) : job[i].content.base # b}
  <2>2. PICK done \in Written(stale) : status' = Cancelled(done)
    BY <2>1 DEF Retarget
  <2>3. /\ QueueFree /\ UNCHANGED <<created, job, running, worker, outcome>>
        /\ pending' = [pending EXCEPT ![k] = IF pending[k] \in stale THEN None ELSE pending[k]]
        /\ cancel' = cancel \cup (stale \cap {running[k]})
    BY <2>1 DEF Retarget, RequestUnchanged
  <2>4. \A i \in done \cap JobIds :
            i \in cancel' \/ \E q \in Keys : pending[q] = i /\ pending'[q] # i
    BY <2>2, <2>3, WrittenBound, SlotFacts DEF At, TypeOK
  <2>5. \A q \in Keys : pending'[q] \in {None, pending[q]}
    BY <2>3 DEF TypeOK
  <2> QED
    BY <2>2, <2>3, <2>4, <2>5, CancelRequests
<1>2. CASE Close(k)
  <2>1. PICK done \in Written(At(k)) : status' = Cancelled(done)
    BY <1>2 DEF Close
  <2>2. /\ QueueFree /\ UNCHANGED <<created, job, running, worker, outcome>>
        /\ pending' = [pending EXCEPT ![k] = None]
        /\ cancel' = cancel \cup (At(k) \cap {running[k]})
    BY <1>2 DEF Close, RequestUnchanged
  <2>3. \A i \in done \cap JobIds :
            i \in cancel' \/ \E q \in Keys : pending[q] = i /\ pending'[q] # i
    BY <2>1, <2>2, WrittenBound, SlotFacts DEF At, TypeOK
  <2>4. \A q \in Keys : pending'[q] \in {None, pending[q]}
    BY <2>2 DEF TypeOK
  <2> QED
    BY <2>1, <2>2, <2>3, <2>4, CancelRequests
<1>3. CASE RemoveRepo(k)
  <2> DEFINE lane == {q \in Keys : Lane(q) = Lane(k)}
             gone == UNION {At(q) : q \in lane}
  <2>1. PICK done \in Written(gone) : status' = Cancelled(done)
    BY <1>3 DEF RemoveRepo
  <2>2. /\ QueueFree /\ UNCHANGED <<running, worker, outcome>>
        /\ created < MaxJobs /\ created' = created + 1
        /\ job' = [job EXCEPT ![created'] = Remove(k)]
        /\ pending' = [q \in Keys |-> IF q = k THEN created'
                                      ELSE IF q \in lane THEN None ELSE pending[q]]
        /\ cancel' = cancel \cup ({running[q] : q \in lane} \ {None})
    BY <1>3 DEF RemoveRepo, RequestUnchanged
  <2>3. Remove(k) \in Jobs /\ Remove(k).kind = "remove"
    BY JobTypes DEF Remove
  <2>4. created' # None /\ \A q \in Keys : pending[q] # created'
    BY <2>2, InUse, BoundsAssumption DEF TypeOK, Slot, None
  <2>5. ASSUME NEW i \in done \cap JobIds
        PROVE  \/ \E q \in Keys : running[q] = i /\ i \in cancel'
               \/ \E q \in Keys : pending[q] = i /\ pending'[q] # i
    <3>1. PICK q \in lane : i \in At(q)
      BY <2>1, WrittenBound
    <3>2. CASE i = pending[q]
      BY <2>2, <2>4, <3>1, <3>2, SlotFacts
    <3>3. CASE i = running[q]
      BY <2>2, <3>1, <3>3, SlotFacts
    <3> QED
      BY <3>1, <3>2, <3>3 DEF At
  <2>6. \A q \in Keys : pending'[q] \in {None, pending[q]} \/ pending'[q] = created'
    BY <2>2
  <2> QED
    BY <2>1, <2>2, <2>3, <2>5, <2>6, AddRequests
<1> QED
  BY <1>1, <1>2, <1>3

\* Shutdown, as far as the summaries see it.
LEMMA ShutdownRequests ==
    ASSUME TypeOK, TypeOK', QueueInv, QueueInv', SummaryInv, CancelJobs
    PROVE  Requests
<1>1. PICK done \in Written(UNION {At(q) : q \in Keys}) : status' = Cancelled(done)
  BY DEF CancelJobs
<1>2. /\ QueueFree /\ UNCHANGED <<created, job, running, worker, outcome>>
      /\ pending' = [q \in Keys |-> None]
      /\ cancel' = cancel \cup ({running[q] : q \in Keys} \ {None})
  BY DEF CancelJobs
<1>3. ASSUME NEW i \in done \cap JobIds
      PROVE  i \in cancel' \/ \E q \in Keys : pending[q] = i /\ pending'[q] # i
  <2>1. PICK q \in Keys : i \in At(q)
    BY <1>1, WrittenBound
  <2> QED
    BY <1>2, <2>1, SlotFacts DEF At
<1> QED
  BY <1>1, <1>2, <1>3, CancelRequests

\* A worker's transition to anything but cancelled.
LEMMA TransitionReports ==
    ASSUME TypeOK, NEW i \in JobIds, NEW s, s # "cancelled", Transition(i, s)
    PROVE  \A j \in JobIds : status'[j] # status[j] =>
               /\ j = i /\ IsSummarised(i) /\ status[i] # "cancelled"
               /\ status'[i] # "cancelled"
BY DEF Transition, Settled, TypeOK

\* A run that proceeds, as far as the summaries see it.
LEMMA ProceedReports ==
    ASSUME TypeOK, SummaryInv, NEW i \in JobIds, Proceed(i)
    PROVE  Reports(i)
<1> USE DEF Reports, Step, SummaryInv, OutcomeTold, TypeOK
<1>1. ASSUME NEW conf \in ConfigStates, Begin(i, conf) PROVE Reports(i)
  <2>1. PICK s \in {"running", "skipped"} : Transition(i, s)
    BY <1>1 DEF Begin
  <2> QED
    BY <1>1, <2>1, TransitionReports DEF Begin
<1>2. CASE RemoveWorkspace(i)
  BY <1>2 DEF RemoveWorkspace
<1>3. CASE PostCheck(i) \/ PostAbandoned(i) \/ RecordCheck(i)
  BY <1>3 DEF PostCheck, PostAbandoned, RecordCheck
<1>4. ASSUME NEW r \in Results, WorkEnds(i, r) PROVE Reports(i)
  BY <1>4, ResultsAssumption DEF WorkEnds
<1>5. CASE PatchCheck(i) \/ SkipCheck(i)
  BY <1>5 DEF PatchCheck, SkipCheck
<1>6. CASE CancelledLate(i)
  BY <1>6 DEF CancelledLate
<1>7. CASE Checkpoint(i)
  BY <1>7 DEF Checkpoint
<1>8. CASE Summarise(i)
  BY <1>8 DEF Summarise, Transition, Settled, TypeOK
<1>9. CASE Fail(i)
  BY <1>9, TransitionReports DEF Fail
<1>10. CASE Release(i)
  BY <1>10 DEF Release
<1>11. CASE Leave(i)
  BY <1>11 DEF Leave
<1> QED
  BY <1>1, <1>2, <1>3, <1>4, <1>5, <1>6, <1>7, <1>8, <1>9, <1>10, <1>11 DEF Proceed

\* A run that stumbles, as far as the summaries see it.
LEMMA StumbleReports ==
    ASSUME TypeOK, SummaryInv, NEW i \in JobIds, Stumble(i)
    PROVE  Reports(i)
<1> USE DEF Reports, Step, SummaryInv, OutcomeTold, TypeOK
<1>1. CASE BeginFails(i)
  <2>1. \A j \in JobIds : status'[j] # status[j] =>
            /\ j = i /\ IsSummarised(i) /\ status[i] # "cancelled"
            /\ status'[i] # "cancelled"
    BY <1>1, TransitionReports DEF BeginFails
  <2> QED
    BY <1>1, <2>1 DEF BeginFails
<1>2. CASE RemoveFails(i) \/ PatchFails(i) \/ CheckpointFails(i)
  BY <1>2 DEF RemoveFails, PatchFails, CheckpointFails
<1>3. CASE SummaryFails(i)
  BY <1>3 DEF SummaryFails, Transition, Settled
<1>4. CASE WorkFails(i) \/ TidyFails(i) \/ FailUnwritten(i)
  BY <1>4 DEF WorkFails, TidyFails, FailUnwritten
<1> QED
  BY <1>1, <1>2, <1>3, <1>4 DEF Stumble

\* A restart keeps the summaries' invariant.
LEMMA RestartKeepsSummaries ==
    ASSUME TypeOK, SummaryInv, Restart
    PROVE  SummaryInv'
BY DEF SummaryInv, Unused, RemovalsUnseen, PendingQueued, CancelledIsTold, OutcomeTold,
       Restart, IsSummarised, TypeOK

\* The dispatcher takes the job of a key.
Starts(k) ==
    /\ First(k)
    /\ pending' = [pending EXCEPT ![k] = None]
    /\ running' = [running EXCEPT ![k] = pending[k]]
    /\ worker' = [worker EXCEPT ![pending[k]] = "start"]
    /\ UNCHANGED <<created, job, cancel, outcome, status, seen>>

\* A run that starts keeps the summaries' invariant.
LEMMA StartsKeepSummaries ==
    ASSUME TypeOK, QueueInv, SummaryInv, NEW k \in Keys, Starts(k)
    PROVE  SummaryInv'
<1> USE DEF Starts
<1>1. pending[k] # None /\ pending[k] \in JobIds
  BY InUse DEF First, Eligible
<1>2. status[pending[k]] # "cancelled"
  BY <1>1 DEF SummaryInv, PendingQueued, RemovalsUnseen
<1>3. Unused' /\ RemovalsUnseen'
  BY DEF SummaryInv, Unused, RemovalsUnseen, IsSummarised
<1>4. PendingQueued'
  BY DEF SummaryInv, PendingQueued, IsSummarised, TypeOK
<1>5. CancelledIsTold'
  BY <1>2 DEF SummaryInv, CancelledIsTold, TypeOK
<1>6. OutcomeTold'
  BY <1>1 DEF SummaryInv, OutcomeTold, TypeOK
<1> QED
  BY <1>3, <1>4, <1>5, <1>6 DEF SummaryInv

\* Every step is of one of five shapes.
LEMMA StepShapes ==
    ASSUME TypeOK, TypeOK', QueueInv, QueueInv', SummaryInv, [Next]_vars
    PROVE  \/ Requests
           \/ \E k \in Keys : Starts(k)
           \/ \E i \in JobIds : Reports(i)
           \/ Restart
           \/ UNCHANGED <<queueVars, worker, outcome, status>>
<1>1. CASE Request
  <2>1. ASSUME NEW k \in ReviewKeys, NEW c \in Contents, NEW f \in BOOLEAN,
               NEW conf \in ConfigStates, Submit(Review(k, c), f, conf)
        PROVE  Requests
    BY <2>1, SubmitRequests, JobTypes, ConfigAssumption DEF ReviewKeys, Review
  <2>2. ASSUME NEW k \in IndexKeys, NEW conf \in ConfigStates,
               Submit(Index(k), FALSE, conf)
        PROVE  Requests
    BY <2>2, SubmitRequests, JobTypes, ConfigAssumption DEF IndexKeys, Index
  <2> QED
    BY <1>1, <2>1, <2>2, ClosingRequests DEF Request
<1>2. CASE Dispatch
  <2>1. CASE UNCHANGED <<pending, running, worker>>
    BY <1>2, <2>1 DEF Dispatch, Wake, Take, DispatcherUnchanged, queueVars
  <2>2. ASSUME NEW k \in Keys, First(k), DispatcherUnchanged,
               pending' = [pending EXCEPT ![k] = None],
               running' = [running EXCEPT ![k] = pending[k]],
               worker' = [worker EXCEPT ![pending[k]] = "start"]
        PROVE  Starts(k)
    BY <2>2 DEF DispatcherUnchanged, Starts, seenVars
  <2> QED
    BY <1>2, <2>1, <2>2 DEF Dispatch, Wake, Take
<1>3. CASE \E i \in JobIds : Proceed(i) \/ Stumble(i)
  BY <1>3, ProceedReports, StumbleReports
<1>4. CASE Recover \/ RecoverFails \/ \E i \in JobIds : RecoverForgets(i)
  BY <1>4 DEF Recover, RecoverBegin, RecoverList, RecoverRead, RecoverWrite, RecoverFails,
              RecoverForgets, RecoveryUnchanged
<1>5. CASE BeginShutdown
  BY <1>5 DEF BeginShutdown
<1>6. CASE UNCHANGED vars
  BY <1>6 DEF vars, queueVars
<1> QED
  BY <1>1, <1>2, <1>3, <1>4, <1>5, <1>6, ShutdownRequests DEF Next

\* Every step keeps the summaries' invariant.
LEMMA SummaryStep ==
    TypeOK /\ TypeOK' /\ QueueInv /\ QueueInv' /\ SummaryInv /\ [Next]_vars => SummaryInv'
<1>1. UNCHANGED <<queueVars, worker, outcome, status>> /\ SummaryInv => SummaryInv'
  BY DEF queueVars, SummaryInv, Unused, RemovalsUnseen, PendingQueued, CancelledIsTold,
         OutcomeTold, IsSummarised
<1> QED
  BY <1>1, StepShapes, RequestsKeepSummaries, StartsKeepSummaries, ReportsKeepSummaries,
     RestartKeepsSummaries

\* Types, queue and summaries are in order in every reachable state.
LEMMA SummaryInvariant == Spec => [](TypeOK /\ QueueInv /\ SummaryInv)
<1>1. Init => TypeOK /\ QueueInv /\ SummaryInv
  BY TypeInit, QueueInit, SummaryInit
<1>2. TypeOK /\ QueueInv /\ SummaryInv /\ [Next]_vars => TypeOK' /\ QueueInv' /\ SummaryInv'
  BY TypeStep, QueueStep, SummaryStep
<1> QED
  BY <1>1, <1>2, PTL DEF Spec

\* Whatever summary, checkpoint or failure cannot be written: a job shown as
\* cancelled while it runs was told to stop.
THEOREM CancelledJobsAreTold == Spec => []CancelledIsTold
<1>1. SummaryInv => CancelledIsTold
  BY DEF SummaryInv
<1> QED
  BY <1>1, SummaryInvariant, PTL

\* change_job: no step of a worker, a request, the shutdown or a restart makes a
\* cancelled job anything else.
THEOREM CancelledStaysCancelled == Spec => CancellationIsFinal
<1>1. ASSUME TypeOK, TypeOK', QueueInv, QueueInv', SummaryInv, [Next]_vars
      PROVE  \A i \in JobIds : status[i] = "cancelled" => status'[i] = "cancelled"
  <2> SUFFICES ASSUME NEW i \in JobIds, status[i] = "cancelled"
               PROVE  status'[i] = "cancelled"
    OBVIOUS
  <2>1. i <= created
    BY <1>1, BoundsAssumption DEF SummaryInv, Unused, TypeOK, Slot, JobIds
  <2>2. CASE Requests
    BY <2>1, <2>2 DEF Requests
  <2>3. CASE \E k \in Keys : Starts(k)
    BY <2>3 DEF Starts
  <2>4. CASE \E j \in JobIds : Reports(j)
    BY <2>4 DEF Reports
  <2>5. CASE Restart
    BY <2>5 DEF Restart, TypeOK
  <2> QED
    BY <1>1, <2>2, <2>3, <2>4, <2>5, StepShapes
<1>2. TypeOK /\ TypeOK' /\ QueueInv /\ QueueInv' /\ SummaryInv /\ [Next]_vars
      => [\A i \in JobIds : status[i] = "cancelled" => status'[i] = "cancelled"]_status
  BY <1>1
<1> QED
  BY <1>2, SummaryInvariant, PTL DEF Spec, CancellationIsFinal

-------------------------------------------------------------------------------
(* The reports: what the summaries and the checkpoint say of the queue as long *)
(* as the disk takes every write, and, for the checkpoint, as long as the      *)
(* process does not die between the checkpoint and the summary.                *)

CancelledIsReported ==
    \A k \in Keys : running[k] # None /\ IsSummarised(running[k]) /\ running[k] \in cancel
                       => status[running[k]] = "cancelled"

Held(i) == \E k \in Keys : pending[k] = i \/ running[k] = i

UnfinishedIsHeld == \A i \in JobIds : status[i] \in {"queued", "running"} => Held(i)

OutcomeKnown ==
    \A i \in JobIds : worker[i] \in {"check", "commit", "summarise"} => outcome[i] # "none"

ReleasedIsFinished ==
    \A i \in JobIds : worker[i] \in {"release", "leave"} => status[i] \notin {"queued", "running"}

ReportInv == CancelledIsReported /\ UnfinishedIsHeld /\ OutcomeKnown /\ ReleasedIsFinished

\* Without disk faults a write has written everything.
LEMMA WrittenAll ==
    ASSUME "disk" \notin Faults
    PROVE  \A ids : Written(ids) = {ids}
BY DEF Written

\* At first there is nothing to report.
LEMMA ReportInit == Init => ReportInv
BY DEF Init, ReportInv, CancelledIsReported, UnfinishedIsHeld, OutcomeKnown,
       ReleasedIsFinished

\* A request whose cancellations are all written.
ReportedRequests ==
    /\ Requests
    /\ UNCHANGED outcome
    /\ \A i \in JobIds : i \in cancel' \ cancel /\ IsSummarised(i) => status'[i] = "cancelled"
    /\ \A k \in Keys :
          pending[k] # None /\ pending'[k] # pending[k] /\ IsSummarised(pending[k])
              => status'[pending[k]] = "cancelled"
    /\ \A i \in JobIds : i > created /\ status'[i] = "queued" => \E k \in Keys : pending'[k] = i

\* Requests keep the reports' invariant.
LEMMA RequestsKeepReports ==
    ASSUME TypeOK, TypeOK', QueueInv, QueueInv', SummaryInv, ReportInv, ReportedRequests
    PROVE  ReportInv'
<1> USE DEF ReportedRequests, Requests
<1>1. CancelledIsReported'
  <2> SUFFICES ASSUME NEW k \in Keys, running[k] # None, IsSummarised(running[k])',
                      running[k] \in cancel'
               PROVE  status'[running[k]] = "cancelled"
    BY DEF CancelledIsReported
  <2>1. running[k] \in JobIds /\ running[k] <= created
    BY InUse
  <2>2. IsSummarised(running[k])
    BY <2>1 DEF IsSummarised
  <2> QED
    BY <2>1, <2>2 DEF ReportInv, CancelledIsReported
<1>2. UnfinishedIsHeld'
  <2> SUFFICES ASSUME NEW i \in JobIds, status'[i] \in {"queued", "running"}
               PROVE  \E k \in Keys : pending'[k] = i \/ running[k] = i
    BY DEF UnfinishedIsHeld, Held
  <2>1. CASE i <= created
    <3>1. status[i] = status'[i] /\ IsSummarised(i)
      BY <2>1 DEF SummaryInv, RemovalsUnseen
    <3>2. PICK k \in Keys : pending[k] = i \/ running[k] = i
      BY <3>1 DEF ReportInv, UnfinishedIsHeld, Held
    <3> QED
      BY <3>1, <3>2, SlotFacts
  <2>2. CASE i > created
    BY <2>2
  <2> QED
    BY <2>1, <2>2, BoundsAssumption DEF TypeOK, Slot, JobIds
<1>3. OutcomeKnown'
  BY DEF ReportInv, OutcomeKnown
<1>4. ReleasedIsFinished'
  <2> SUFFICES ASSUME NEW i \in JobIds, worker[i] \in {"release", "leave"}
               PROVE  status'[i] \notin {"queued", "running"}
    BY DEF ReleasedIsFinished
  <2>1. i <= created
    BY BoundsAssumption DEF QueueInv, Fresh, TypeOK, Slot, JobIds
  <2> QED
    BY <2>1 DEF ReportInv, ReleasedIsFinished
<1> QED
  BY <1>1, <1>2, <1>3, <1>4 DEF ReportInv

\* A run that starts keeps the reports' invariant.
LEMMA StartsKeepReports ==
    ASSUME TypeOK, QueueInv, SummaryInv, ReportInv, NEW k \in Keys, Starts(k)
    PROVE  ReportInv'
<1> USE DEF Starts
<1>1. pending[k] \in JobIds /\ pending[k] # None /\ worker[pending[k]] = "none"
  BY InUse DEF First, Eligible, QueueInv, PendingWaits
<1>2. pending[k] \notin cancel
  BY <1>1 DEF QueueInv, CancelsRun, RunningWorks, Unstarted
<1>3. running[k] = None
  BY DEF First, Eligible, BusyLanes
<1>4. CancelledIsReported'
  BY <1>2 DEF ReportInv, CancelledIsReported, IsSummarised, TypeOK
<1>5. UnfinishedIsHeld'
  <2> SUFFICES ASSUME NEW i \in JobIds, status[i] \in {"queued", "running"}
               PROVE  \E q \in Keys : pending'[q] = i \/ running'[q] = i
    BY DEF UnfinishedIsHeld, Held
  <2>1. PICK q \in Keys : pending[q] = i \/ running[q] = i
    BY DEF ReportInv, UnfinishedIsHeld, Held
  <2>2. CASE q = k
    BY <1>3, <2>1, <2>2, SlotFacts DEF TypeOK
  <2>3. CASE q # k
    BY <2>1, <2>3 DEF TypeOK
  <2> QED
    BY <2>2, <2>3
<1>6. OutcomeKnown' /\ ReleasedIsFinished'
  BY <1>1 DEF ReportInv, OutcomeKnown, ReleasedIsFinished, TypeOK
<1> QED
  BY <1>4, <1>5, <1>6 DEF ReportInv

Unfinished == {"queued", "running"}

\* A worker's step after which its summary fits its stage.
ReportedStep(i, to) ==
    /\ worker' = [worker EXCEPT ![i] = to]
    /\ \A j \in JobIds : j # i => outcome'[j] = outcome[j]
    /\ to \in {"check", "commit", "summarise"} => outcome'[i] # "none"
    /\ to \in {"release", "leave"} => status'[i] \notin Unfinished
    /\ \/ UNCHANGED <<running, cancel>>
       \/ Free(i) /\ status'[i] \notin Unfinished
    /\ status'[i] \in Unfinished => status'[i] = status[i] \/ InLane(i)

\* One step of a run keeps the reports' invariant.
LEMMA StepKeepsReports ==
    ASSUME TypeOK, TypeOK', QueueInv, SummaryInv, ReportInv,
           NEW i \in JobIds, NEW to \in Stages, Reports(i), ReportedStep(i, to)
    PROVE  ReportInv'
<1> USE DEF Reports, ReportedStep
<1>1. CancelledIsReported'
  <2> SUFFICES ASSUME NEW k \in Keys, running'[k] # None,
                      job'[running'[k]].kind # "remove", running'[k] \in cancel'
               PROVE  status'[running'[k]] = "cancelled"
    BY DEF CancelledIsReported, IsSummarised
  <2>1. running'[k] = running[k] /\ running[k] \in cancel /\ running[k] \in JobIds
    BY InUse DEF Free
  <2>2. IsSummarised(running[k])
    BY <2>1 DEF IsSummarised
  <2> QED
    BY <2>1, <2>2 DEF ReportInv, CancelledIsReported
<1>2. UnfinishedIsHeld'
  <2> SUFFICES ASSUME NEW j \in JobIds, status'[j] \in Unfinished
               PROVE  \E k \in Keys : pending'[k] = j \/ running'[k] = j
    BY DEF UnfinishedIsHeld, Held, Unfinished
  <2>1. CASE j = i
    BY <2>1 DEF ReportInv, UnfinishedIsHeld, Held, Unfinished, QueueInv, WorkersHold
  <2>2. CASE j # i
    BY <2>2 DEF ReportInv, UnfinishedIsHeld, Held, Unfinished, Free
  <2> QED
    BY <2>1, <2>2
<1>3. OutcomeKnown'
  BY DEF ReportInv, OutcomeKnown, TypeOK
<1>4. ReleasedIsFinished'
  BY DEF ReportInv, ReleasedIsFinished, Unfinished, TypeOK
<1> QED
  BY <1>1, <1>2, <1>3, <1>4 DEF ReportInv

\* The result of a run is not one of an unfinished job.
LEMMA ResultTypes == \A r \in Results \cup {"cancelled"} : r \notin Unfinished /\ r # "none"
BY ResultsAssumption DEF Unfinished

\* A run that proceeds keeps the reports' invariant.
LEMMA ProceedKeepsReports ==
    ASSUME TypeOK, TypeOK', QueueInv, SummaryInv, ReportInv, NEW i \in JobIds, Proceed(i)
    PROVE  ReportInv'
<1> SUFFICES \E to \in Stages : ReportedStep(i, to)
  BY ProceedReports, StepKeepsReports
<1> USE DEF Step, InLane, InRun
<1>1. ASSUME NEW conf \in ConfigStates, Begin(i, conf)
      PROVE  \E to \in Stages : ReportedStep(i, to)
  <2>1. CASE ~IsSummarised(i) \/ conf
    <3>1. Step(i, "start", "work") /\ UNCHANGED <<running, cancel, outcome>>
      BY <1>1, <2>1 DEF Begin
    <3>2. ReportedStep(i, "work")
      BY <3>1 DEF ReportedStep
    <3> QED
      BY <3>2 DEF Stages
  <2>2. CASE IsSummarised(i) /\ ~conf
    <3>1. Step(i, "start", "release") /\ UNCHANGED <<running, cancel, outcome>>
      BY <1>1, <2>2 DEF Begin
    <3>2. status'[i] \notin Unfinished
      BY <1>1, <2>2 DEF Begin, Transition, Settled, Unfinished, TypeOK
    <3>3. ReportedStep(i, "release")
      BY <3>1, <3>2 DEF ReportedStep
    <3> QED
      BY <3>3 DEF Stages
  <2> QED
    BY <2>1, <2>2
<1>2. CASE RemoveWorkspace(i)
  <2>1. status'[i] \notin Unfinished
    BY <1>2 DEF RemoveWorkspace, SummaryInv, RemovalsUnseen, Unfinished
  <2>2. ReportedStep(i, "release")
    BY <1>2, <2>1 DEF RemoveWorkspace, ReportedStep
  <2> QED
    BY <2>2 DEF Stages
<1>3. CASE PostCheck(i) \/ PostAbandoned(i) \/ RecordCheck(i)
  <2>1. ReportedStep(i, "work")
    BY <1>3 DEF PostCheck, PostAbandoned, RecordCheck, ReportedStep
  <2> QED
    BY <2>1 DEF Stages
<1>4. ASSUME NEW r \in Results, WorkEnds(i, r)
      PROVE  \E to \in Stages : ReportedStep(i, to)
  <2>1. outcome'[i] # "none" /\ \A j \in JobIds : j # i => outcome'[j] = outcome[j]
    BY <1>4, ResultTypes DEF WorkEnds, TypeOK
  <2>2. ReportedStep(i, "check")
    BY <1>4, <2>1 DEF WorkEnds, ReportedStep
  <2> QED
    BY <2>2 DEF Stages
<1>5. CASE PatchCheck(i) \/ SkipCheck(i)
  <2>1. ReportedStep(i, "commit")
    BY <1>5 DEF PatchCheck, SkipCheck, ReportedStep, ReportInv, OutcomeKnown
  <2> QED
    BY <2>1 DEF Stages
<1>6. CASE CancelledLate(i)
  <2>1. ReportedStep(i, "check")
    BY <1>6 DEF CancelledLate, ReportedStep, TypeOK
  <2> QED
    BY <2>1 DEF Stages
<1>7. CASE Checkpoint(i)
  <2>1. ReportedStep(i, "summarise")
    BY <1>7 DEF Checkpoint, ReportedStep, ReportInv, OutcomeKnown
  <2> QED
    BY <2>1 DEF Stages
<1>8. CASE Summarise(i)
  <2>1. outcome[i] \notin Unfinished
    BY <1>8, ResultTypes DEF Summarise, ReportInv, OutcomeKnown, TypeOK
  <2>2. status'[i] \notin Unfinished
    BY <1>8, <2>1 DEF Summarise, Transition, Settled, Unfinished, SummaryInv,
                      RemovalsUnseen, TypeOK
  <2>3. ReportedStep(i, "release")
    BY <1>8, <2>2 DEF Summarise, ReportedStep
  <2> QED
    BY <2>3 DEF Stages
<1>9. CASE Fail(i)
  <2>1. status'[i] \notin Unfinished
    BY <1>9 DEF Fail, Transition, Settled, Unfinished, SummaryInv, RemovalsUnseen, TypeOK
  <2>2. ReportedStep(i, "release")
    BY <1>9, <2>1 DEF Fail, ReportedStep, TypeOK
  <2> QED
    BY <2>2 DEF Stages
<1>10. CASE Release(i)
  <2>1. ReportedStep(i, "leave")
    BY <1>10 DEF Release, ReportedStep, ReportInv, ReleasedIsFinished, Unfinished
  <2> QED
    BY <2>1 DEF Stages
<1>11. CASE Leave(i)
  <2>1. ReportedStep(i, "none")
    BY <1>11 DEF Leave, ReportedStep, TypeOK
  <2> QED
    BY <2>1 DEF Stages
<1> QED
  BY <1>1, <1>2, <1>3, <1>4, <1>5, <1>6, <1>7, <1>8, <1>9, <1>10, <1>11 DEF Proceed

\* A run that stumbles keeps the reports' invariant.
LEMMA StumbleKeepsReports ==
    ASSUME "disk" \notin Faults, TypeOK, TypeOK', QueueInv, SummaryInv, ReportInv,
           NEW i \in JobIds, Stumble(i)
    PROVE  ReportInv'
<1>1. PatchFails(i)
  BY DEF Stumble, BeginFails, RemoveFails, WorkFails, CheckpointFails, SummaryFails, TidyFails,
         FailUnwritten
<1>2. ReportedStep(i, "commit")
  BY <1>1 DEF PatchFails, Step, ReportedStep, ReportInv, OutcomeKnown, Unfinished
<1>3. Reports(i) /\ "commit" \in Stages
  BY StumbleReports DEF Stages, InRun
<1> QED
  BY <1>2, <1>3, StepKeepsReports

\* Jobs a submission cancels are reported.
LEMMA SubmitIsReported ==
    ASSUME "disk" \notin Faults, TypeOK, TypeOK', QueueInv, QueueInv', SummaryInv,
           NEW k \in Keys, NEW new \in Jobs, new.key = k, new.kind # "remove",
           NEW force \in BOOLEAN, NEW conf \in BOOLEAN, Submit(new, force, conf)
    PROVE  ReportedRequests
<1>1. Requests /\ UNCHANGED outcome
  BY SubmitRequests DEF Submit
<1>2. CASE UNCHANGED <<created, job, pending, cancel, status>>
  BY <1>1, <1>2 DEF ReportedRequests, SummaryInv, Unused
<1>3. CASE Admit(new, force, conf)
  <2> DEFINE i == created + 1
  <2>1. /\ i \in JobIds /\ i # None
        /\ \A j \in JobIds : j <= created => j # i
        /\ \A j \in JobIds : j > created => ~(j <= created)
    <3>1. created < MaxJobs /\ created \in Nat
      BY <1>3, BoundsAssumption DEF Admit, TypeOK, Slot
    <3> QED
      BY <3>1, BoundsAssumption DEF JobIds, None
  <2>2. /\ pending' = [pending EXCEPT ![k] = IF conf THEN i ELSE None]
        /\ cancel' = CancelNow(new, force)
        /\ status' = [Cancelled(Displaced(new, cancel'))
                         EXCEPT ![i] = IF conf THEN "queued" ELSE "skipped"]
    <3>1. PICK done \in Written(Displaced(new, cancel')) :
              status' = [Cancelled(done) EXCEPT ![i] = IF conf THEN "queued" ELSE "skipped"]
      BY <1>3 DEF Admit
    <3>2. done = Displaced(new, cancel')
      BY WrittenAll
    <3>3. /\ pending' = [pending EXCEPT ![k] = IF conf THEN i ELSE None]
          /\ cancel' = CancelNow(new, force)
      BY <1>3 DEF Admit
    <3> QED
      BY <3>1, <3>2, <3>3
  <2>3. \A j \in JobIds : j # i =>
            status'[j] = IF j \in Displaced(new, cancel') /\ IsSummarised(j)
                         THEN "cancelled" ELSE status[j]
    BY <2>2, CancelledValue
  <2>4. ASSUME NEW j \in cancel' \ cancel, j \in JobIds, IsSummarised(j)
        PROVE  status'[j] = "cancelled"
    <3>1. j = running[k] /\ j # None /\ Supersedes(job[j], j \in cancel, new, force)
      BY <2>2, <2>4 DEF CancelNow
    <3>2. new.kind = "review"
      BY <3>1 DEF Supersedes, QueuesBehind, Jobs
    <3>3. j \in Displaced(new, cancel')
      BY <2>4, <3>1, <3>2 DEF Displaced
    <3>4. j <= created
      BY <3>1, InUse
    <3> QED
      BY <2>1, <2>3, <2>4, <3>3, <3>4
  <2>5. ASSUME NEW q \in Keys, pending[q] # None, pending'[q] # pending[q],
               IsSummarised(pending[q])
        PROVE  status'[pending[q]] = "cancelled"
    <3>1. q = k /\ pending[q] \in Displaced(new, cancel')
      BY <2>2, <2>5 DEF Displaced, TypeOK
    <3> QED
      BY <2>1, <2>3, <2>5, <3>1, InUse
  <2>6. ASSUME NEW j \in JobIds, j > created, status'[j] = "queued"
        PROVE  \E q \in Keys : pending'[q] = j
    <3>1. CASE j = i
      <4>1. status'[i] = IF conf THEN "queued" ELSE "skipped"
        BY <2>1, <2>2, CancelledValue
      <4> QED
        BY <2>2, <2>6, <3>1, <4>1 DEF TypeOK
    <3>2. CASE j # i
      BY <2>3, <2>6, <3>2 DEF SummaryInv, Unused
    <3> QED
      BY <3>1, <3>2
  <2> QED
    BY <1>1, <2>4, <2>5, <2>6 DEF ReportedRequests
<1> QED
  BY <1>2, <1>3 DEF Submit, AdmitFails

\* A request that only cancels jobs, and writes that of all of them.
LEMMA CancelIsReported ==
    ASSUME TypeOK, SummaryInv, Requests, UNCHANGED outcome, NEW done,
           status' = Cancelled(done),
           cancel' \ cancel \subseteq done,
           \A k \in Keys : pending[k] # None /\ pending'[k] # pending[k] => pending[k] \in done
    PROVE  ReportedRequests
<1>1. \A i \in JobIds : i \in done /\ IsSummarised(i) => status'[i] = "cancelled"
  BY CancelledValue
<1>2. \A i \in JobIds : i > created => status'[i] # "queued"
  BY CancelledValue DEF SummaryInv, Unused
<1> QED
  BY <1>1, <1>2, SlotFacts DEF ReportedRequests, TypeOK

\* Jobs a closing cancels are reported.
LEMMA ClosingIsReported ==
    ASSUME "disk" \notin Faults, TypeOK, TypeOK', QueueInv, QueueInv', SummaryInv,
           \/ \E k \in Keys : \/ \E b \in Targets : Retarget(k, b)
                            \/ Close(k)
                            \/ RemoveRepo(k)
           \/ CancelJobs
    PROVE  ReportedRequests
<1>1. Requests
  BY ClosingRequests, ShutdownRequests
<1>2. ASSUME NEW k \in Keys, NEW b \in Targets, Retarget(k, b) PROVE ReportedRequests
  <2> DEFINE stale == {i \in At(k) : job[i].content.base # b}
  <2>1. /\ status' = Cancelled(stale)
        /\ pending' = [pending EXCEPT ![k] = IF pending[k] \in stale THEN None ELSE pending[k]]
        /\ cancel' = cancel \cup (stale \cap {running[k]})
        /\ UNCHANGED outcome
    BY <1>2, WrittenAll DEF Retarget, RequestUnchanged
  <2> HIDE DEF stale
  <2>2. \A q \in Keys : pending'[q] # pending[q] => pending[q] \in stale
    BY <2>1 DEF TypeOK
  <2> QED
    BY <1>1, <2>1, <2>2, CancelIsReported
<1>3. ASSUME NEW k \in Keys, Close(k) PROVE ReportedRequests
  <2>1. /\ status' = Cancelled(At(k))
        /\ pending' = [pending EXCEPT ![k] = None]
        /\ cancel' = cancel \cup (At(k) \cap {running[k]})
        /\ UNCHANGED outcome
    BY <1>3, WrittenAll DEF Close, RequestUnchanged
  <2>2. \A q \in Keys : pending[q] # None /\ pending'[q] # pending[q] => pending[q] \in At(k)
    BY <2>1 DEF At, TypeOK
  <2> QED
    BY <1>1, <2>1, <2>2, CancelIsReported
<1>4. ASSUME NEW k \in Keys, RemoveRepo(k) PROVE ReportedRequests
  <2> DEFINE lane == {q \in Keys : Lane(q) = Lane(k)}
             gone == UNION {At(q) : q \in lane}
  <2>1. /\ status' = Cancelled(gone)
        /\ pending' = [q \in Keys |-> IF q = k THEN created + 1
                                      ELSE IF q \in lane THEN None ELSE pending[q]]
        /\ cancel' = cancel \cup ({running[q] : q \in lane} \ {None})
        /\ UNCHANGED outcome
    BY <1>4, WrittenAll DEF RemoveRepo, RequestUnchanged
  <2>2. \A q \in Keys : pending[q] # None /\ pending'[q] # pending[q] => pending[q] \in gone
    BY <2>1 DEF At
  <2>3. cancel' \ cancel \subseteq gone
    BY <2>1 DEF At
  <2> HIDE DEF gone
  <2> QED
    BY <1>1, <2>1, <2>2, <2>3, CancelIsReported
<1>5. CASE CancelJobs
  <2> DEFINE gone == UNION {At(q) : q \in Keys}
  <2>1. /\ status' = Cancelled(gone)
        /\ cancel' = cancel \cup ({running[q] : q \in Keys} \ {None})
        /\ UNCHANGED outcome
    BY <1>5, WrittenAll DEF CancelJobs
  <2>2. \A q \in Keys : pending[q] # None => pending[q] \in gone
    BY DEF At
  <2>3. cancel' \ cancel \subseteq gone
    BY <2>1 DEF At
  <2> HIDE DEF gone
  <2> QED
    BY <1>1, <2>1, <2>2, <2>3, CancelIsReported
<1> QED
  BY <1>2, <1>3, <1>4, <1>5

\* Every step keeps the reports' invariant.
LEMMA ReportStep ==
    ASSUME "disk" \notin Faults
    PROVE  /\ TypeOK /\ TypeOK' /\ QueueInv /\ QueueInv' /\ SummaryInv /\ ReportInv
           /\ [Next]_vars
           => ReportInv'
<1> SUFFICES ASSUME TypeOK, TypeOK', QueueInv, QueueInv', SummaryInv, ReportInv, [Next]_vars
             PROVE  ReportInv'
  OBVIOUS
<1>1. CASE Request
  <2>1. ASSUME NEW k \in ReviewKeys, NEW c \in Contents, NEW f \in BOOLEAN,
               NEW conf \in ConfigStates, Submit(Review(k, c), f, conf)
        PROVE  ReportedRequests
    BY <2>1, SubmitIsReported, JobTypes, ConfigAssumption DEF ReviewKeys, Review
  <2>2. ASSUME NEW k \in IndexKeys, NEW conf \in ConfigStates,
               Submit(Index(k), FALSE, conf)
        PROVE  ReportedRequests
    BY <2>2, SubmitIsReported, JobTypes, ConfigAssumption DEF IndexKeys, Index
  <2> QED
    BY <1>1, <2>1, <2>2, ClosingIsReported, RequestsKeepReports DEF Request
<1>2. CASE UNCHANGED <<queueVars, worker, outcome, status>>
  BY <1>2 DEF queueVars, ReportInv, CancelledIsReported, UnfinishedIsHeld, Held,
              OutcomeKnown, ReleasedIsFinished, IsSummarised
<1>3. CASE Dispatch
  <2>1. CASE UNCHANGED <<pending, running, worker>>
    BY <1>2, <1>3, <2>1 DEF Dispatch, Wake, Take, DispatcherUnchanged, queueVars
  <2>2. ASSUME NEW k \in Keys, First(k), DispatcherUnchanged,
               pending' = [pending EXCEPT ![k] = None],
               running' = [running EXCEPT ![k] = pending[k]],
               worker' = [worker EXCEPT ![pending[k]] = "start"]
        PROVE  Starts(k)
    BY <2>2 DEF DispatcherUnchanged, Starts, seenVars
  <2> QED
    BY <1>3, <2>1, <2>2, StartsKeepReports DEF Dispatch, Wake, Take
<1>4. CASE \E i \in JobIds : Proceed(i) \/ Stumble(i)
  BY <1>4, ProceedKeepsReports, StumbleKeepsReports
<1>5. CASE Recover \/ RecoverFails \/ \E i \in JobIds : RecoverForgets(i)
  BY <1>2, <1>5 DEF Recover, RecoverBegin, RecoverList, RecoverRead, RecoverWrite, RecoverFails,
                    RecoverForgets, RecoveryUnchanged
<1>6. CASE BeginShutdown
  BY <1>2, <1>6 DEF BeginShutdown
<1>7. CASE CancelJobs
  BY <1>7, ClosingIsReported, RequestsKeepReports
<1>8. CASE Restart
  BY <1>8 DEF Restart, ReportInv, CancelledIsReported, UnfinishedIsHeld, OutcomeKnown,
              ReleasedIsFinished, TypeOK
<1>9. CASE UNCHANGED vars
  BY <1>2, <1>9 DEF vars, queueVars
<1> QED
  BY <1>1, <1>3, <1>4, <1>5, <1>6, <1>7, <1>8, <1>9 DEF Next

\* Types, queue, summaries and reports are in order in every reachable state.
LEMMA ReportInvariant ==
    ASSUME "disk" \notin Faults
    PROVE  Spec => [](TypeOK /\ QueueInv /\ SummaryInv /\ ReportInv)
<1>1. Init => ReportInv
  BY ReportInit
<1>2. /\ TypeOK /\ TypeOK' /\ QueueInv /\ QueueInv' /\ SummaryInv /\ ReportInv /\ [Next]_vars
      => ReportInv'
  BY ReportStep
<1> QED
  BY <1>1, <1>2, SummaryInvariant, PTL DEF Spec

\* While the disk takes every write, a running job is told to stop exactly when its
\* summary says cancelled.
THEOREM CancelsMatchSummaries ==
    ASSUME "disk" \notin Faults
    PROVE  Spec => []CancelMatchesSummary
<1>1. SummaryInv /\ ReportInv => CancelMatchesSummary
  BY DEF SummaryInv, CancelledIsTold, ReportInv, CancelledIsReported, CancelMatchesSummary
<1> QED
  BY <1>1, ReportInvariant, PTL

\* While the disk takes every write, nothing is shown queued or running that the
\* queue does not hold, crashes and restarts included.
THEOREM NoZombies ==
    ASSUME "disk" \notin Faults
    PROVE  Spec => []NoZombieSummary
<1>1. SummaryInv /\ ReportInv => NoZombieSummary
  BY SlotFacts DEF SummaryInv, PendingQueued, ReportInv, UnfinishedIsHeld, Held,
                   NoZombieSummary, Active, At
<1> QED
  BY <1>1, ReportInvariant, PTL

-------------------------------------------------------------------------------
(* The checkpoint.  CancelledLeavesNoCheckpoint says nothing of the worker   *)
(* that moved it: until it wrote its summary a cancel could still arrive.    *)
(* It cannot because that worker holds the queue lock (QueueFree), and later *)
(* it cannot because nothing holds the job any more.                         *)

SeenSettled ==
    \A k \in Keys : seen[k] # None =>
        /\ seen[k] <= created
        /\ status[seen[k]] # "cancelled"
        /\ \/ worker[seen[k]] = "summarise" /\ outcome[seen[k]] # "cancelled"
           \/ worker[seen[k]] \in {"error", "release", "leave", "none"} /\ ~Held(seen[k])

HeldNext(i) == \E k \in Keys : pending'[k] = i \/ running'[k] = i

\* Requests record no head as seen.
LEMMA RequestsKeepSeen ==
    ASSUME TypeOK, TypeOK', QueueInv, QueueInv', SeenSettled, Requests, UNCHANGED <<outcome, seen>>
    PROVE  SeenSettled'
<1> SUFFICES ASSUME NEW k \in Keys, seen[k] # None
             PROVE  /\ seen[k] <= created'
                    /\ status'[seen[k]] # "cancelled"
                    /\ worker'[seen[k]] \in {"error", "release", "leave", "none"}
                    /\ ~HeldNext(seen[k])
  BY DEF SeenSettled, Held, HeldNext
<1>1. PICK i \in JobIds : i = seen[k] /\ i <= created /\ status[i] # "cancelled"
  BY SlotFacts DEF TypeOK, SeenSettled
<1>2. worker[i] \in {"error", "release", "leave", "none"} /\ ~Held(i)
  BY <1>1 DEF SeenSettled, Requests, QueueFree
<1>3. i \notin cancel'
  BY <1>2 DEF QueueInv, CancelsRun, Held, Requests
<1>4. status'[i] = status[i]
  BY <1>1, <1>2, <1>3 DEF Requests, Held
<1>5. i <= created' /\ ~(i > created)
  BY <1>1, BoundsAssumption DEF Requests, TypeOK, Slot, JobIds
<1>6. ~HeldNext(i)
  BY <1>1, <1>2, <1>5, SlotFacts DEF Requests, Held, HeldNext
<1> QED
  BY <1>1, <1>2, <1>4, <1>5, <1>6 DEF Requests

\* A run that starts records no head as seen.
LEMMA StartsKeepSeen ==
    ASSUME TypeOK, QueueInv, SeenSettled, NEW k \in Keys, Starts(k)
    PROVE  SeenSettled'
<1>1. pending[k] # None /\ worker[pending[k]] = "none"
  BY DEF Starts, First, Eligible, QueueInv, PendingWaits
<1>2. \A q \in Keys : seen[q] # None => seen[q] # pending[k]
  BY <1>1 DEF SeenSettled, Held
<1> QED
  BY <1>2, SlotFacts DEF Starts, SeenSettled, Held, TypeOK

\* A step of a worker, seen from the checkpoint.
\* A step of a worker, seen from the checkpoint: a job that has a checkpoint and
\* is not over yet leaves its key, and one that is over stays over.
LEMMA StepKeepsSeen ==
    ASSUME TypeOK, QueueInv, SeenSettled,
           NEW i \in JobIds, NEW to \in Stages, Reports(i),
           worker' = [worker EXCEPT ![i] = to],
           \A j \in JobIds : j # i => outcome'[j] = outcome[j],
           \A k \in Keys : seen'[k] \in {None, seen[k]},
           worker[i] = "summarise" =>
               /\ to = "release"
               /\ Free(i)
               /\ outcome[i] # "cancelled" /\ status[i] # "cancelled"
                      => status'[i] # "cancelled",
           worker[i] \in {"error", "release", "leave"} =>
               /\ to \in {"error", "release", "leave", "none"}
               /\ status[i] # "cancelled" => status'[i] # "cancelled"
    PROVE  SeenSettled'
<1> SUFFICES ASSUME NEW k \in Keys, seen'[k] # None
             PROVE  /\ seen'[k] <= created'
                    /\ status'[seen'[k]] # "cancelled"
                    /\ \/ /\ worker'[seen'[k]] = "summarise"
                          /\ outcome'[seen'[k]] # "cancelled"
                       \/ /\ worker'[seen'[k]] \in {"error", "release", "leave", "none"}
                          /\ ~HeldNext(seen'[k])
  BY DEF SeenSettled, Held, HeldNext
<1>1. PICK j \in JobIds : j = seen[k] /\ j = seen'[k]
  BY SlotFacts DEF TypeOK
<1>2. /\ created' = created /\ j <= created
      /\ status[j] # "cancelled"
      /\ \/ worker[j] = "summarise" /\ outcome[j] # "cancelled"
         \/ worker[j] \in {"error", "release", "leave", "none"} /\ ~Held(j)
  BY <1>1, SlotFacts DEF SeenSettled, Reports
<1>3. ~Held(j) => ~HeldNext(j)
  BY SlotFacts DEF Reports, Free, Held, HeldNext
<1>4. CASE j # i
  <2>1. status'[j] = status[j] /\ worker'[j] = worker[j] /\ outcome'[j] = outcome[j]
    BY <1>4 DEF Reports, TypeOK
  <2> QED
    BY <1>1, <1>2, <1>3, <2>1
<1>5. CASE j = i
  <2>1. worker'[i] = to /\ worker[i] # "none"
    BY DEF Reports, TypeOK
  <2>2. CASE worker[i] = "summarise"
    <3>1. \A q \in Keys : pending'[q] # i
      BY <2>1, SlotFacts DEF Reports, QueueInv, PendingWaits, TypeOK
    <3>2. \A q \in Keys : running'[q] # i
      BY <2>2, SlotFacts DEF Free
    <3> QED
      BY <1>1, <1>2, <1>5, <2>1, <2>2, <3>1, <3>2 DEF HeldNext
  <2>3. CASE worker[i] # "summarise"
    BY <1>1, <1>2, <1>3, <1>5, <2>1, <2>3
  <2> QED
    BY <2>2, <2>3
<1> QED
  BY <1>4, <1>5

\* The worker that moves the checkpoint was not told to stop.
LEMMA CheckpointKeepsSeen ==
    ASSUME TypeOK, QueueInv, SummaryInv, SeenSettled, NEW i \in JobIds, Checkpoint(i)
    PROVE  SeenSettled'
<1>1. /\ worker[i] = "commit" /\ worker' = [worker EXCEPT ![i] = "summarise"]
      /\ UNCHANGED <<created, job, pending, running, cancel, outcome, status>>
      /\ outcome[i] = "cancelled" \/ i \notin cancel
  BY DEF Checkpoint, Step
<1>2. \A k \in Keys : seen[k] # i
  BY <1>1, SlotFacts DEF SeenSettled
<1>3. i <= created
  BY <1>1, BoundsAssumption DEF QueueInv, Fresh, TypeOK, Slot, JobIds
<1>4. outcome[i] # "cancelled" => status[i] # "cancelled"
  <2>1. job[i].key \in Keys /\ running[job[i].key] = i /\ i # None
    BY <1>1, SlotFacts DEF QueueInv, WorkersHold, InLane, InRun
  <2> QED
    BY <1>1, <2>1 DEF SummaryInv, CancelledIsTold
<1>5. \A k \in Keys : seen'[k] = seen[k] \/ (seen'[k] = i /\ outcome[i] # "cancelled")
  BY DEF Checkpoint, Finished, TypeOK
<1> SUFFICES ASSUME NEW k \in Keys, seen'[k] # None
             PROVE  /\ seen'[k] <= created
                    /\ status[seen'[k]] # "cancelled"
                    /\ \/ /\ worker'[seen'[k]] = "summarise"
                          /\ outcome[seen'[k]] # "cancelled"
                       \/ /\ worker'[seen'[k]] \in {"error", "release", "leave", "none"}
                          /\ ~Held(seen'[k])
  BY <1>1 DEF SeenSettled, Held
<1>6. CASE seen'[k] = seen[k]
  BY <1>1, <1>2, <1>6, SlotFacts DEF SeenSettled, TypeOK
<1>7. CASE seen'[k] = i /\ outcome[i] # "cancelled"
  BY <1>1, <1>3, <1>4, <1>7 DEF TypeOK
<1> QED
  BY <1>5, <1>6, <1>7

\* A run that goes on or stumbles keeps what was seen in order.
LEMMA ProceedKeepsSeen ==
    ASSUME "disk" \notin Faults, TypeOK, QueueInv, SummaryInv, ReportInv, SeenSettled,
           NEW i \in JobIds, Proceed(i) \/ Stumble(i)
    PROVE  SeenSettled'
<1> USE DEF Step
<1>1. Reports(i)
  BY ProceedReports, StumbleReports
<1>2. CASE Checkpoint(i)
  BY <1>2, CheckpointKeepsSeen
<1>3. CASE RemoveWorkspace(i)
  <2>1. /\ worker' = [worker EXCEPT ![i] = "release"] /\ worker[i] = "work"
        /\ UNCHANGED outcome
        /\ \A k \in Keys : seen'[k] \in {None, seen[k]}
    BY <1>3 DEF RemoveWorkspace, Forget
  <2> QED
    BY <1>1, <2>1, StepKeepsSeen DEF Stages
<1>4. CASE Summarise(i)
  <2>1. outcome[i] # "cancelled" /\ status[i] # "cancelled" => status'[i] # "cancelled"
    BY <1>4 DEF Summarise, Transition, Settled, TypeOK
  <2>2. /\ worker' = [worker EXCEPT ![i] = "release"] /\ worker[i] = "summarise"
        /\ Free(i) /\ UNCHANGED <<outcome, seen>>
    BY <1>4 DEF Summarise, seenVars
  <2> QED
    BY <1>1, <2>1, <2>2, StepKeepsSeen DEF Stages
<1>5. CASE Fail(i)
  <2>1. status[i] # "cancelled" => status'[i] # "cancelled"
    BY <1>5 DEF Fail, Transition, Settled, TypeOK
  <2>2. /\ worker' = [worker EXCEPT ![i] = "release"] /\ worker[i] = "error"
        /\ \A j \in JobIds : j # i => outcome'[j] = outcome[j]
        /\ UNCHANGED seen
    BY <1>5 DEF Fail, seenVars, TypeOK
  <2> QED
    BY <1>1, <2>1, <2>2, StepKeepsSeen DEF Stages
<1>6. CASE Release(i) \/ Leave(i)
  <2>1. PICK to \in {"leave", "none"} : worker' = [worker EXCEPT ![i] = to]
    BY <1>6 DEF Release, Leave
  <2>2. /\ worker[i] \in {"release", "leave"}
        /\ \A j \in JobIds : j # i => outcome'[j] = outcome[j]
        /\ UNCHANGED <<seen, status>>
    BY <1>6 DEF Release, Leave, seenVars, TypeOK
  <2> QED
    BY <1>1, <2>1, <2>2, StepKeepsSeen DEF Stages
<1>7. ASSUME NEW to \in Stages, worker[i] \in {"start", "work", "check", "commit"},
             worker' = [worker EXCEPT ![i] = to],
             \A j \in JobIds : j # i => outcome'[j] = outcome[j],
             UNCHANGED seen
      PROVE  SeenSettled'
  BY <1>1, <1>7, StepKeepsSeen
<1>8. ASSUME NEW conf \in ConfigStates, Begin(i, conf) PROVE SeenSettled'
  BY <1>7, <1>8 DEF Begin, Stages, InRun, seenVars
<1>9. CASE PostCheck(i) \/ PostAbandoned(i) \/ RecordCheck(i)
  BY <1>7, <1>9 DEF PostCheck, PostAbandoned, RecordCheck, Stages, InRun, seenVars
<1>10. ASSUME NEW r \in Results, WorkEnds(i, r) PROVE SeenSettled'
  BY <1>7, <1>10 DEF WorkEnds, Stages, InRun, seenVars, TypeOK
<1>11. CASE PatchCheck(i) \/ SkipCheck(i) \/ PatchFails(i) \/ CancelledLate(i)
  BY <1>7, <1>11 DEF PatchCheck, SkipCheck, PatchFails, CancelledLate, Stages, InRun,
                     seenVars, TypeOK
<1>12. CASE Stumble(i)
  BY <1>11, <1>12 DEF Stumble, BeginFails, RemoveFails, WorkFails, CheckpointFails, SummaryFails,
                      TidyFails, FailUnwritten
<1> QED
  BY <1>2, <1>3, <1>4, <1>5, <1>6, <1>8, <1>9, <1>10, <1>11, <1>12 DEF Proceed

\* Every step keeps what was seen in order.
LEMMA SeenStep ==
    ASSUME "disk" \notin Faults, "crash" \notin Faults
    PROVE  /\ TypeOK /\ TypeOK' /\ QueueInv /\ QueueInv' /\ SummaryInv /\ ReportInv
           /\ SeenSettled /\ [Next]_vars
           => SeenSettled'
<1> SUFFICES ASSUME TypeOK, TypeOK', QueueInv, QueueInv', SummaryInv, ReportInv,
                    SeenSettled, [Next]_vars
             PROVE  SeenSettled'
  OBVIOUS
<1>1. CASE Request
  <2>1. ASSUME NEW k \in ReviewKeys, NEW c \in Contents, NEW f \in BOOLEAN,
               NEW conf \in ConfigStates, Submit(Review(k, c), f, conf)
        PROVE  Requests /\ UNCHANGED <<outcome, seen>>
    BY <2>1, SubmitRequests, JobTypes, ConfigAssumption
       DEF ReviewKeys, Review, Submit, seenVars
  <2>2. ASSUME NEW k \in IndexKeys, NEW conf \in ConfigStates,
               Submit(Index(k), FALSE, conf)
        PROVE  Requests /\ UNCHANGED <<outcome, seen>>
    BY <2>2, SubmitRequests, JobTypes, ConfigAssumption
       DEF IndexKeys, Index, Submit, seenVars
  <2>3. ASSUME NEW k \in Keys,
               (\E b \in Targets : Retarget(k, b)) \/ Close(k) \/ RemoveRepo(k)
        PROVE  Requests /\ UNCHANGED <<outcome, seen>>
    BY <2>3, ClosingRequests DEF Retarget, Close, RemoveRepo, RequestUnchanged, seenVars
  <2> QED
    BY <1>1, <2>1, <2>2, <2>3, RequestsKeepSeen DEF Request
<1>2. CASE UNCHANGED <<created, pending, running, worker, outcome, status, seen>>
  BY <1>2 DEF SeenSettled, Held
<1>3. CASE Dispatch
  <2>1. CASE UNCHANGED <<pending, running, worker>>
    BY <1>2, <1>3, <2>1 DEF Dispatch, Wake, Take, DispatcherUnchanged, seenVars
  <2>2. ASSUME NEW k \in Keys, First(k), DispatcherUnchanged,
               pending' = [pending EXCEPT ![k] = None],
               running' = [running EXCEPT ![k] = pending[k]],
               worker' = [worker EXCEPT ![pending[k]] = "start"]
        PROVE  Starts(k)
    BY <2>2 DEF DispatcherUnchanged, Starts, seenVars
  <2> QED
    BY <1>3, <2>1, <2>2, StartsKeepSeen DEF Dispatch, Wake, Take
<1>4. CASE \E i \in JobIds : Proceed(i) \/ Stumble(i)
  BY <1>4, ProceedKeepsSeen
<1>5. CASE Recover \/ RecoverFails \/ \E i \in JobIds : RecoverForgets(i)
  BY <1>2, <1>5 DEF Recover, RecoverBegin, RecoverList, RecoverRead, RecoverWrite, RecoverFails,
                    RecoverForgets, RecoveryUnchanged, queueVars, seenVars
<1>6. CASE BeginShutdown
  BY <1>2, <1>6 DEF BeginShutdown, queueVars, seenVars
<1>7. CASE CancelJobs
  BY <1>7, ShutdownRequests, RequestsKeepSeen DEF CancelJobs, seenVars
<1>8. CASE UNCHANGED vars
  BY <1>2, <1>8 DEF vars
<1> QED
  BY <1>1, <1>3, <1>4, <1>5, <1>6, <1>7, <1>8 DEF Next, Restart

\* As long as the disk takes every write and the process does not die in between,
\* a job that ends up cancelled has not moved the checkpoint of its pull request:
\* run's second look at the cancel watch and the lock it holds from there are
\* enough.
THEOREM CancelledCommitsNothing ==
    ASSUME "disk" \notin Faults, "crash" \notin Faults
    PROVE  Spec => []CancelledLeavesNoCheckpoint
<1>1. Init => SeenSettled
  BY DEF Init, SeenSettled
<1>2. /\ TypeOK /\ TypeOK' /\ QueueInv /\ QueueInv' /\ SummaryInv /\ ReportInv
      /\ SeenSettled /\ [Next]_vars
      => SeenSettled'
  BY SeenStep
<1>3. SeenSettled => CancelledLeavesNoCheckpoint
  BY DEF SeenSettled, CancelledLeavesNoCheckpoint
<1> QED
  BY <1>1, <1>2, <1>3, ReportInvariant, PTL DEF Spec

-------------------------------------------------------------------------------
(* The checks of working jobs.  A job has no check before its worker begins, *)
(* so what a worker finds open is its own; and the recovery, whenever it     *)
(* chose its candidates, closes a check only of a job that has left the      *)
(* queue by then, which a working job has not (WorkersHold).                 *)

Unchecked(i) == ~check[i].known /\ ~check[i].recorded

UnstartedUnchecked ==
    /\ \A i \in JobIds : i > created \/ worker[i] = "start" => Unchecked(i)
    /\ \A k \in Keys : pending[k] # None => Unchecked(pending[k])

WorkingOpen ==
    \A i \in JobIds : worker[i] = "work" =>
        /\ check[i].known => check[i].github = "open"
        /\ check[i].recorded => check[i].known /\ check[i].pending

CheckInv == UnstartedUnchecked /\ WorkingOpen

\* At first no job has a check.
LEMMA CheckInit == Init => CheckInv
BY DEF Init, CheckInv, UnstartedUnchecked, WorkingOpen, Unchecked, NoCheck

\* Steps that write no check and let no worker begin keep the checks: a job that
\* comes to wait is new, and one that is started was waiting.
LEMMA QuietKeepsChecks ==
    ASSUME TypeOK, TypeOK', QueueInv, CheckInv, UNCHANGED check, created <= created',
           \A k \in Keys : pending'[k] \in {None, pending[k]} \/ pending'[k] > created,
           \A i \in JobIds : worker'[i] = "work" => worker[i] = "work",
           \A i \in JobIds : worker'[i] = "start" =>
               worker[i] = "start" \/ \E k \in Keys : pending[k] = i
    PROVE  CheckInv'
<1>1. created \in Nat /\ created' \in Nat /\ \A i \in JobIds : i \in Nat
  BY BoundsAssumption DEF TypeOK, Slot, JobIds
<1>2. \A k \in Keys : pending'[k] # None => pending'[k] \in JobIds
  BY SlotFacts DEF TypeOK
<1>3. UnstartedUnchecked'
  BY <1>1, <1>2, SlotFacts DEF CheckInv, UnstartedUnchecked, Unchecked
<1>4. WorkingOpen'
  BY DEF CheckInv, WorkingOpen
<1> QED
  BY <1>3, <1>4 DEF CheckInv

\* What a worker does to the checks: only its own job's may change; before its work
\* it changes none, and while it works it opens the check before it records it.
LEMMA WorkerKeepsChecks ==
    ASSUME TypeOK, TypeOK', QueueInv, CheckInv, NEW i \in JobIds,
           UNCHANGED <<created, pending>>, worker[i] # "none",
           \A j \in JobIds : j # i => worker'[j] = worker[j] /\ check'[j] = check[j],
           worker'[i] # "start",
           worker'[i] = "work" =>
              \/ worker[i] = "start" /\ UNCHANGED check
              \/ /\ worker[i] = "work"
                 /\ check'[i].known => check'[i].github = "open"
                 /\ check'[i].recorded => check'[i].known /\ check'[i].pending
    PROVE  CheckInv'
<1>1. created \in Nat /\ i \in Nat /\ i <= created
  BY BoundsAssumption DEF QueueInv, Fresh, TypeOK, Slot, JobIds
<1>2. \A k \in Keys : pending[k] # i
  BY SlotFacts DEF QueueInv, PendingWaits
<1>3. ASSUME NEW j \in JobIds, j > created \/ worker'[j] = "start"
      PROVE  Unchecked(j)'
  BY <1>1, <1>3 DEF CheckInv, UnstartedUnchecked, Unchecked
<1>4. ASSUME NEW k \in Keys, pending[k] # None
      PROVE  Unchecked(pending[k])'
  BY <1>2, <1>4, SlotFacts DEF CheckInv, UnstartedUnchecked, Unchecked, TypeOK
<1>5. UnstartedUnchecked'
  BY <1>3, <1>4 DEF UnstartedUnchecked, Unchecked
<1>6. ASSUME NEW j \in JobIds, worker'[j] = "work"
      PROVE  /\ check'[j].known => check'[j].github = "open"
             /\ check'[j].recorded => check'[j].known /\ check'[j].pending
  <2>1. CASE j = i /\ worker[i] = "start" /\ UNCHANGED check
    BY <2>1 DEF CheckInv, UnstartedUnchecked, Unchecked
  <2>2. CASE j # i
    BY <1>6, <2>2 DEF CheckInv, WorkingOpen
  <2> QED
    BY <1>6, <2>1, <2>2
<1>7. WorkingOpen'
  BY <1>6 DEF WorkingOpen
<1> QED
  BY <1>5, <1>7 DEF CheckInv

\* A run that proceeds keeps the checks in order.
LEMMA ProceedKeepsChecks ==
    ASSUME TypeOK, TypeOK', QueueInv, CheckInv, NEW i \in JobIds, Proceed(i)
    PROVE  CheckInv'
<1> USE WorkerKeepsChecks DEF Step, TypeOK
<1>1. ASSUME NEW conf \in ConfigStates, Begin(i, conf) PROVE CheckInv'
  BY <1>1 DEF Begin
<1>2. CASE RemoveWorkspace(i)
  BY <1>2 DEF RemoveWorkspace
<1>3. CASE PostCheck(i) \/ PostAbandoned(i) \/ RecordCheck(i)
  <2>1. worker[i] = "work" /\ worker' = worker
    BY <1>3 DEF PostCheck, PostAbandoned, RecordCheck
  <2>2. /\ check[i].known => check[i].github = "open"
        /\ check[i].recorded => check[i].known /\ check[i].pending
    BY <2>1 DEF CheckInv, WorkingOpen
  <2>3. CASE PostCheck(i) \/ PostAbandoned(i)
    <3>1. ~check[i].known /\ ~check[i].recorded
      BY <2>2, <2>3 DEF PostCheck, PostAbandoned
    <3>2. /\ check'[i].github = "open" /\ check'[i].recorded = check[i].recorded
          /\ \A j \in JobIds : j # i => check'[j] = check[j]
      BY <2>3 DEF PostCheck, PostAbandoned, CheckRuns
    <3> QED
      BY <2>1, <2>3, <3>1, <3>2 DEF PostCheck, PostAbandoned
  <2>4. CASE RecordCheck(i)
    <3>1. check[i] \in CheckRuns /\ check[i].known
      BY <2>4 DEF RecordCheck
    <3>2. /\ check'[i] = [check[i] EXCEPT !.recorded = TRUE, !.pending = TRUE]
          /\ \A j \in JobIds : j # i => check'[j] = check[j]
      BY <2>4 DEF RecordCheck
    <3>3. /\ check'[i].github = check[i].github /\ check'[i].known
          /\ check'[i].pending
      BY <3>1, <3>2 DEF CheckRuns
    <3> QED
      BY <2>1, <2>2, <2>4, <3>1, <3>2, <3>3 DEF RecordCheck
  <2> QED
    BY <1>3, <2>3, <2>4
<1>4. ASSUME NEW r \in Results, WorkEnds(i, r) PROVE CheckInv'
  BY <1>4 DEF WorkEnds
<1>5. CASE PatchCheck(i)
  BY <1>5 DEF PatchCheck
<1>6. CASE SkipCheck(i) \/ CancelledLate(i) \/ Checkpoint(i) \/ Summarise(i)
  BY <1>6 DEF SkipCheck, CancelledLate, Checkpoint, Summarise
<1>7. CASE Fail(i) \/ Release(i) \/ Leave(i)
  BY <1>7 DEF Fail, Release, Leave
<1> QED
  BY <1>1, <1>2, <1>3, <1>4, <1>5, <1>6, <1>7 DEF Proceed

\* A run that stumbles keeps the checks in order.
LEMMA StumbleKeepsChecks ==
    ASSUME TypeOK, TypeOK', QueueInv, CheckInv, NEW i \in JobIds, Stumble(i)
    PROVE  CheckInv'
<1> USE WorkerKeepsChecks DEF Step, TypeOK
<1>1. CASE PatchFails(i)
  BY <1>1 DEF PatchFails
<1>2. CASE BeginFails(i) \/ RemoveFails(i) \/ WorkFails(i) \/ CheckpointFails(i)
  BY <1>2 DEF BeginFails, RemoveFails, WorkFails, CheckpointFails
<1>3. CASE SummaryFails(i) \/ TidyFails(i) \/ FailUnwritten(i)
  BY <1>3 DEF SummaryFails, TidyFails, FailUnwritten
<1> QED
  BY <1>1, <1>2, <1>3 DEF Stumble

\* The recovery writes no check of an active job and never what is recorded of one.
LEMMA RecoveryKeepsChecks ==
    ASSUME TypeOK, TypeOK', QueueInv, CheckInv,
           Recover \/ RecoverFails \/ \E i \in JobIds : RecoverForgets(i)
    PROVE  CheckInv'
<1>1. UNCHANGED <<created, pending, worker>>
  BY DEF Recover, RecoverBegin, RecoverList, RecoverRead, RecoverWrite, RecoverFails,
         RecoverForgets, RecoveryUnchanged, queueVars
<1>2. \A j \in JobIds :
         /\ check'[j].known = check[j].known /\ check'[j].recorded = check[j].recorded
         /\ Active(j) => check'[j].github = check[j].github
                            /\ (check[j].pending => check'[j].pending)
  <2>1. CASE RecoverBegin \/ RecoverList \/ \E i \in JobIds : RecoverRead(i)
    BY <2>1 DEF RecoverBegin, RecoverList, RecoverRead
  <2>2. CASE RecoverWrite
    BY <2>2 DEF RecoverWrite, TypeOK, CheckRuns
  <2>3. CASE RecoverFails
    <3>1. \/ UNCHANGED check
          \/ /\ ~Active(recovery.id)
             /\ check' = [check EXCEPT ![recovery.id].github = "cancelled"]
      BY <2>3, Zenon DEF RecoverFails
    <3>2. \A j \in JobIds :
             \/ check'[j] = check[j]
             \/ ~Active(j) /\ check'[j] = [check[j] EXCEPT !.github = "cancelled"]
      BY <3>1 DEF TypeOK
    <3>3. \A j \in JobIds : check[j] \in CheckRuns
      BY DEF TypeOK
    <3> QED
      BY <3>2, <3>3 DEF CheckRuns
  <2>4. ASSUME NEW i \in JobIds, RecoverForgets(i)
        PROVE  \A j \in JobIds :
                  /\ check'[j].known = check[j].known /\ check'[j].recorded = check[j].recorded
                  /\ Active(j) => check'[j].github = check[j].github
                                     /\ (check[j].pending => check'[j].pending)
    <3>1. /\ \A j \in JobIds : j # i => check'[j] = check[j]
          /\ check'[i].known = check[i].known /\ check'[i].recorded = check[i].recorded
          /\ check'[i].github = check[i].github
          /\ check'[i].pending = (check[i].pending /\ Active(i))
      BY <2>4 DEF RecoverForgets, TypeOK, CheckRuns
    <3>2. Active(i) /\ check[i].pending => check'[i].pending
      BY <3>1, Zenon
    <3> QED
      BY <3>1, <3>2
  <2> QED
    BY <2>1, <2>2, <2>3, <2>4 DEF Recover
<1>4. \A j \in JobIds : worker[j] = "work" => Active(j)
  BY SlotFacts DEF QueueInv, WorkersHold, InLane, InRun, Active, At
<1>5. UnstartedUnchecked'
  BY <1>1, <1>2, SlotFacts DEF CheckInv, UnstartedUnchecked, Unchecked, TypeOK
<1>6. WorkingOpen'
  BY <1>1, <1>2, <1>4 DEF CheckInv, WorkingOpen
<1> QED
  BY <1>5, <1>6 DEF CheckInv

\* Every step keeps the checks in order.
LEMMA CheckStep ==
    /\ TypeOK /\ TypeOK' /\ QueueInv /\ QueueInv' /\ SummaryInv /\ CheckInv /\ [Next]_vars
    => CheckInv'
<1> SUFFICES ASSUME TypeOK, TypeOK', QueueInv, QueueInv', SummaryInv, CheckInv, [Next]_vars
             PROVE  CheckInv'
  OBVIOUS
<1>1. ASSUME Requests, UNCHANGED check PROVE CheckInv'
  BY <1>1, QuietKeepsChecks DEF Requests
<1>2. CASE Request
  <2>1. UNCHANGED check
    BY <1>2 DEF Request, Submit, Retarget, Close, RemoveRepo, RequestUnchanged
  <2>2. ASSUME NEW k \in ReviewKeys, NEW c \in Contents, NEW f \in BOOLEAN,
               NEW conf \in ConfigStates, Submit(Review(k, c), f, conf)
        PROVE  Requests
    BY <2>2, SubmitRequests, JobTypes, ConfigAssumption DEF ReviewKeys, Review
  <2>3. ASSUME NEW k \in IndexKeys, NEW conf \in ConfigStates,
               Submit(Index(k), FALSE, conf)
        PROVE  Requests
    BY <2>3, SubmitRequests, JobTypes, ConfigAssumption DEF IndexKeys, Index
  <2> QED
    BY <1>1, <1>2, <2>1, <2>2, <2>3, ClosingRequests DEF Request
<1>3. CASE Dispatch
  <2>1. UNCHANGED <<created, check>>
    BY <1>3 DEF Dispatch, Wake, Take, DispatcherUnchanged
  <2>2. CASE UNCHANGED <<pending, worker>>
    BY <2>1, <2>2 DEF CheckInv, UnstartedUnchecked, WorkingOpen, Unchecked
  <2>3. ASSUME NEW k \in Keys, First(k),
               pending' = [pending EXCEPT ![k] = None],
               worker' = [worker EXCEPT ![pending[k]] = "start"]
        PROVE  CheckInv'
    <3>1. \A i \in JobIds : worker'[i] # worker[i] => worker'[i] = "start" /\ pending[k] = i
      BY <2>3 DEF TypeOK
    <3>2. \A q \in Keys : pending'[q] \in {None, pending[q]}
      BY <2>3 DEF TypeOK
    <3>3. created <= created'
      BY <2>1, BoundsAssumption DEF TypeOK, Slot
    <3> QED
      BY <2>1, <3>1, <3>2, <3>3, QuietKeepsChecks
  <2> QED
    BY <1>3, <2>2, <2>3 DEF Dispatch, Wake, Take
<1>4. CASE \E i \in JobIds : Proceed(i) \/ Stumble(i)
  BY <1>4, ProceedKeepsChecks, StumbleKeepsChecks
<1>5. CASE Recover \/ RecoverFails \/ \E i \in JobIds : RecoverForgets(i)
  BY <1>5, RecoveryKeepsChecks
<1>6. CASE CancelJobs
  BY <1>1, <1>6, ShutdownRequests DEF CancelJobs
<1>7. CASE Restart
  BY <1>7 DEF Restart, CheckInv, UnstartedUnchecked, WorkingOpen, Unchecked
<1>8. CASE BeginShutdown \/ UNCHANGED vars
  BY <1>8 DEF BeginShutdown, vars, queueVars, CheckInv, UnstartedUnchecked, WorkingOpen,
              Unchecked
<1> QED
  BY <1>2, <1>3, <1>4, <1>5, <1>6, <1>7, <1>8 DEF Next

\* "Hold the queue lock through cancellation so a newly active job keeps its
\* check": under every fault and for any number of keys and jobs, whatever the
\* recovery saw of the queue and of the summaries and whenever GitHub answered it,
\* the check that a working review has recorded is open at GitHub and pending.
THEOREM WorkingChecksStayOpen == Spec => []LiveChecksStayOpen
<1>1. Init => CheckInv
  BY CheckInit
<1>2. /\ TypeOK /\ TypeOK' /\ QueueInv /\ QueueInv' /\ SummaryInv /\ CheckInv /\ [Next]_vars
      => CheckInv'
  BY CheckStep
<1>3. CheckInv => LiveChecksStayOpen
  BY DEF CheckInv, WorkingOpen, LiveChecksStayOpen
<1> QED
  BY <1>1, <1>2, <1>3, SummaryInvariant, PTL DEF Spec
=============================================================================
