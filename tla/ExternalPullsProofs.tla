------------------------- MODULE ExternalPullsProofs -------------------------
(***************************************************************************)
(* The hourly cap holds, what is untracked stays quiet, and a review keeps *)
(* its checkout, for all pull requests, heads, limits and reservations.    *)
(***************************************************************************)
EXTENDS ExternalPulls, FiniteSetTheorems, TLAPS

-------------------------------------------------------------------------------
(* The inductive invariant.                                                *)

Entries    == [status : {"none", "tracking", "stopped"}, head : Heads \cup {NoHead}]
Runs1      == [job : Jobs \cup {NoJob}, told : BOOLEAN]
Slots      == Tickets \cup {NoTicket}
PollPlaces == {"idle", "token", "repo", "read", "check", "reserve", "queue", "release",
               "record", "failed", "stop", "close", "prune"}
Polls      == [at : PollPlaces, due : SUBSET (Pulls \X Entries), pull : Pulls \cup {Idle},
               item : Entries, token : BOOLEAN, head : Heads \cup {NoHead},
               ticket : Slots, wait : BOOLEAN]
Manuals    == [at : {"idle", "reserve", "queue", "release"}, pull : Pulls \cup {Idle},
               head : Heads \cup {NoHead}, ticket : Slots]

QueueTypes ==
    /\ github \in [Pulls -> [head : Heads, state : {"open", "closed", "hidden"}]]
    /\ tracked \in [Pulls -> Entries]
    /\ pending \in [Pulls -> Jobs \cup {NoJob}]
    /\ running \in [Pulls -> Runs1]
    /\ checkouts \subseteq Pulls

TicketTypes ==
    /\ admissions \subseteq Tickets
    /\ IsFiniteSet(admissions)
    /\ used \subseteq Tickets
    /\ poll \in Polls
    /\ manual \in Manuals

\* A poll between two items has none; from its second read on it has a head.
HasItem ==
    /\ poll.at \notin {"idle", "prune"} => poll.pull \in Pulls
    /\ poll.at \in {"check", "reserve", "queue", "release", "record"} => poll.head \in Heads
    /\ manual.at # "idle" => manual.pull \in Pulls /\ manual.head \in Heads

Types == QueueTypes /\ TicketTypes /\ HasItem

\* A reservation belongs to a job that was queued, or to one operation under way.
OneHolder ==
    /\ InFlight \cap used = {}
    /\ poll.ticket # NoTicket => poll.ticket # manual.ticket
    /\ poll.ticket # NoTicket => poll.at \in {"queue", "release"}
    /\ manual.ticket # NoTicket => manual.at \in {"queue", "release"}

CapInv == ReservationsMatch /\ OneHolder

\* A poll that is about to queue a review and may still do so works for an entry
\* that is tracked, or whose key is about to be closed.
MayQueue ==
    poll.at \in {"reserve", "queue"} /\ poll.token =>
        tracked[poll.pull].status = "tracking" \/ poll.pull \in closing

QuietInv == UntrackedStaysQuiet /\ MayQueue

IInv == Types /\ CapInv /\ QuietInv /\ CheckoutIsKept

-------------------------------------------------------------------------------
(* Helpers.                                                                *)

\* The poll goes on with another item, or has none left.
LEMMA NextItemIs ==
    ASSUME NEW due, due \subseteq Pulls \X Entries, NEW next, next \in NextItem(due)
    PROVE  /\ next \in Polls
           /\ next.at \in {"token", "prune"}
           /\ next.at # "prune" => next.pull \in Pulls
           /\ next.ticket = NoTicket
<1>1. NoPoll \in Polls /\ NoPoll.ticket = NoTicket
  BY DEF NoPoll, Polls, PollPlaces, Slots, Entries, NoEntry
<1>2. CASE due = {}
  BY <1>1, <1>2 DEF NextItem, Polls, PollPlaces
<1>3. CASE due # {}
  <2>1. PICK d \in due :
           next = [NoPoll EXCEPT !.at = "token", !.due = due \ {d}, !.pull = d[1], !.item = d[2]]
    BY <1>3 DEF NextItem
  <2>2. d[1] \in Pulls /\ d[2] \in Entries /\ due \ {d} \in SUBSET (Pulls \X Entries)
    OBVIOUS
  <2> QED  BY <1>1, <2>1, <2>2 DEF Polls, PollPlaces
<1> QED  BY <1>2, <1>3

\* What a close, a job or a refusal makes of the queue.
LEMMA QueueTyped ==
    ASSUME QueueTypes, NEW p \in Pulls, NEW j \in Jobs, NEW h \in Heads,
           CloseQueue(p) \/ Enqueued(p, j) \/ Refused(p, h)
    PROVE  pending' \in [Pulls -> Jobs \cup {NoJob}] /\ running' \in [Pulls -> Runs1]
<1>1. ASSUME NEW told \in BOOLEAN
      PROVE  [running EXCEPT ![p].told = told] \in [Pulls -> Runs1]
  <2>1. running[p] \in Runs1 /\ running \in [Pulls -> Runs1]
    BY DEF QueueTypes
  <2> DEFINE r == [running[p] EXCEPT !.told = told]
  <2>2. r \in Runs1
    BY <2>1 DEF Runs1
  <2> HIDE DEF r
  <2>3. [running EXCEPT ![p] = r] \in [Pulls -> Runs1]
    BY <2>1, <2>2
  <2> QED  BY <2>3 DEF r
<1>2. /\ \A g \in Heads : Told(p, g) \in BOOLEAN
      /\ (running[p].told \/ Runs(p)) \in BOOLEAN
  BY DEF QueueTypes, Told, Runs, Runs1
<1>3. \A k \in Jobs \cup {NoJob} : [pending EXCEPT ![p] = k] \in [Pulls -> Jobs \cup {NoJob}]
  BY DEF QueueTypes
<1>4. CASE CloseQueue(p)
  BY <1>1, <1>2, <1>3, <1>4 DEF CloseQueue
<1>5. CASE Enqueued(p, j)
  <2>1. j.head \in Heads
    BY DEF Jobs
  <2> QED  BY <1>1, <1>2, <1>3, <1>5, <2>1 DEF Enqueued
<1>6. CASE Refused(p, h)
  BY <1>1, <1>2, <1>3, <1>6 DEF Refused, QueueTypes
<1> QED  BY <1>4, <1>5, <1>6

\* A set of reservations that one reservation joins or leaves.
LEMMA Reserving ==
    ASSUME TicketTypes, NEW t, Reserved(t) \/ Release(t) \/ admissions' = admissions \ {t}
    PROVE  /\ admissions' \subseteq Tickets /\ IsFiniteSet(admissions')
           /\ Cardinality(admissions) \in Nat
           /\ Reserved(t) => Cardinality(admissions') = Cardinality(admissions) + 1
           /\ ~Reserved(t) => Cardinality(admissions') <= Cardinality(admissions)
<1>1. IsFiniteSet(admissions) /\ admissions \subseteq Tickets /\ Cardinality(admissions) \in Nat
  BY FS_CardinalityType DEF TicketTypes
<1>2. CASE Reserved(t)
  BY <1>1, <1>2, FS_AddElement DEF Reserved
<1>3. CASE ~Reserved(t)
  <2>1. admissions' = admissions \ {t}
    BY <1>3 DEF Release
  <2>2. /\ IsFiniteSet(admissions \ {t})
        /\ Cardinality(admissions \ {t}) = IF t \in admissions THEN Cardinality(admissions) - 1
                                                               ELSE Cardinality(admissions)
    BY <1>1, FS_RemoveElement
  <2>3. Cardinality(admissions') <= Cardinality(admissions)
    BY <1>1, <2>1, <2>2
  <2> QED  BY <1>1, <1>3, <2>1, <2>2, <2>3
<1> QED  BY <1>1, <1>2, <1>3

-------------------------------------------------------------------------------
(* Types.                                                                  *)

LEMMA TypesInit == Init => Types
<1> SUFFICES ASSUME Init  PROVE Types
  OBVIOUS
<1>1. QueueTypes
  BY ExternalAssumption DEF Init, QueueTypes, Entries, NoEntry, Runs1, NotRun, NoJob, Jobs
<1>2. poll \in Polls /\ manual \in Manuals
  BY DEF Init, NoPoll, NoSubmission, Polls, PollPlaces, Manuals, Slots, Entries, NoEntry
<1>3. TicketTypes
  BY <1>2, FS_EmptySet DEF Init, TicketTypes
<1>4. HasItem
  BY DEF Init, HasItem, NoPoll, NoSubmission
<1> QED  BY <1>1, <1>3, <1>4 DEF Types

\* Users, GitHub and the workers.
LEMMA TypesOfOthers ==
    ASSUME Types, NEW p \in Pulls,
           Push(p) \/ Appear(p) \/ Track(p) \/ Untrack(p) \/ UntrackClose(p) \/ Submit(p)
           \/ Worker(p)
    PROVE  Types'
<1> USE DEF Types
<1>1. CASE Push(p) \/ Appear(p)
  <2>1. QueueTypes'  BY <1>1 DEF Push, Appear, QueueTypes
  <2> QED  BY <1>1, <2>1 DEF Push, Appear, TicketTypes, HasItem
<1>2. CASE Track(p) \/ Untrack(p)
  <2>1. QueueTypes'  BY <1>2 DEF Track, Untrack, QueueTypes, Entries, NoEntry
  <2> QED  BY <1>2, <2>1 DEF Track, Untrack, TicketTypes, HasItem
<1>3. CASE UntrackClose(p)
  <2>1. QueueTypes'
    BY <1>3 DEF UntrackClose, CloseQueue, Runs, QueueTypes, Runs1
  <2>2. poll' \in Polls /\ poll'.at = poll.at /\ poll'.pull = poll.pull /\ poll'.head = poll.head
    BY <1>3 DEF UntrackClose, Revoked, TicketTypes, Polls
  <2> QED  BY <1>3, <2>1, <2>2 DEF UntrackClose, TicketTypes, HasItem
<1>4. CASE Submit(p)
  <2>1. manual' \in Manuals /\ manual'.pull \in Pulls /\ manual'.head \in Heads
    BY <1>4 DEF Submit, Manuals, Slots, QueueTypes
  <2> QED  BY <1>4, <2>1 DEF Submit, SubmissionUnchanged, QueueTypes, TicketTypes, HasItem
<1>5. CASE Worker(p)
  <2>1. [NotRun EXCEPT !.job = pending[p]] \in Runs1 /\ NotRun \in Runs1
    BY DEF QueueTypes, Runs1, NotRun
  <2>2. CASE Start(p)
    BY <2>1, <2>2 DEF Start, QueueTypes, TicketTypes, HasItem
  <2>3. CASE Finish(p)
    BY <2>1, <2>3 DEF Finish, QueueTypes, TicketTypes, HasItem
  <2> QED  BY <1>5, <2>2, <2>3 DEF Worker
<1> QED  BY <1>1, <1>2, <1>3, <1>4, <1>5

LEMMA TypesOfExpire ==
    ASSUME Types, NEW t \in Tickets, Expire(t)
    PROVE  Types'
<1> USE DEF Types
<1>1. poll' \in Polls /\ manual' \in Manuals /\ HasItem'
  BY DEF Expire, TicketTypes, Polls, Manuals, Slots, HasItem
<1>2. TicketTypes'
  BY <1>1, Reserving DEF Expire, TicketTypes
<1> QED  BY <1>1, <1>2 DEF Expire, QueueTypes

LEMMA TypesOfManual ==
    ASSUME Types, ManualStep
    PROVE  Types'
<1> USE DEF Types
<1>1. NoSubmission \in Manuals
  BY DEF NoSubmission, Manuals, Slots
<1>2. CASE SubmitReserve
  <2>1. QueueTypes' /\ UNCHANGED <<poll, used>>
    BY <1>2 DEF SubmitReserve, SubmissionUnchanged, QueueTypes
  <2>2. CASE \E t \in Tickets : Reserved(t) /\ manual' = [manual EXCEPT !.at = "queue", !.ticket = t]
    <3>1. manual' \in Manuals /\ manual'.pull = manual.pull /\ manual'.head = manual.head
          /\ manual.at # "idle"
      BY <1>2, <2>2 DEF SubmitReserve, TicketTypes, Manuals, Slots
    <3>2. TicketTypes'
      BY <2>1, <2>2, <3>1, Reserving DEF TicketTypes
    <3> QED  BY <2>1, <3>1, <3>2 DEF HasItem
  <2>3. CASE manual' = NoSubmission /\ UNCHANGED admissions
    BY <1>1, <2>1, <2>3 DEF TicketTypes, HasItem, NoSubmission
  <2> QED  BY <1>2, <2>2, <2>3 DEF SubmitReserve
<1>3. CASE SubmitQueue
  <2>1. /\ manual.at = "queue" /\ manual.pull \in Pulls /\ manual.head \in Heads
        /\ UNCHANGED <<github, tracked, checkouts, poll, admissions>>
    BY <1>3 DEF SubmitQueue, SubmissionUnchanged, HasItem
  <2>2. [trigger |-> "manual", head |-> manual.head] \in Jobs
    BY <2>1 DEF Jobs
  <2>3. QueueTypes'
    BY <1>3, <2>1, <2>2, QueueTyped DEF SubmitQueue, QueueTypes
  <2>4. /\ manual' \in Manuals
        /\ manual'.at # "idle" => manual'.pull \in Pulls /\ manual'.head \in Heads
    BY <1>1, <1>3, <2>1 DEF SubmitQueue, NoSubmission, TicketTypes, Manuals
  <2>5. used' \subseteq Tickets
    BY <1>3 DEF SubmitQueue, TicketTypes, Manuals, Slots
  <2> QED  BY <2>1, <2>3, <2>4, <2>5 DEF TicketTypes, HasItem
<1>4. CASE SubmitRelease
  BY <1>1, <1>4, Reserving
  DEF SubmitRelease, SubmissionUnchanged, QueueTypes, TicketTypes, HasItem, NoSubmission
<1> QED  BY <1>2, <1>3, <1>4 DEF ManualStep

\* The poll and its ticket: what its steps leave alone, and what they make of it.
LEMMA TypesOfPoll ==
    ASSUME Types, PollStep
    PROVE  Types'
<1> USE DEF Types
<1>1. ASSUME PollUnchanged, UNCHANGED <<tracked, pending, running>>
      PROVE  QueueTypes' /\ manual' = manual
  BY <1>1 DEF PollUnchanged, QueueTypes
<1>2. ASSUME UNCHANGED <<admissions, used, manual>>, poll' \in Polls,
             poll'.at \notin {"idle", "prune"} => poll'.pull \in Pulls,
             poll'.at \in {"check", "reserve", "queue", "release", "record"} => poll'.head \in Heads
      PROVE  TicketTypes' /\ HasItem'
  BY <1>2 DEF TicketTypes, HasItem
<1>3. ASSUME NEW due, due \subseteq Pulls \X Entries, poll' \in NextItem(due)
      PROVE  /\ poll' \in Polls
             /\ poll'.at \notin {"idle", "prune"} => poll'.pull \in Pulls
             /\ poll'.at \notin {"check", "reserve", "queue", "release", "record"}
  BY <1>3, NextItemIs
<1>4. poll \in Polls /\ poll.due \subseteq Pulls \X Entries
  BY DEF TicketTypes, Polls
<1>5. CASE PollBegin
  <2>1. {<<p, tracked[p]>> : p \in Tracking} \subseteq Pulls \X Entries
    BY DEF Tracking, QueueTypes
  <2> HIDE DEF Types
  <2> QED  BY <1>1, <1>2, <1>3, <1>5, <2>1 DEF PollBegin, PollUnchanged, Types
<1>6. CASE PollToken
  <2>1. poll' \in Polls /\ poll'.pull \in Pulls /\ poll'.at = "repo"
    BY <1>4, <1>6 DEF PollToken, Polls, PollPlaces, HasItem
  <2> QED  BY <1>1, <1>2, <1>6, <2>1 DEF PollToken, PollUnchanged
<1>7. CASE ReadRepo
  <2>1. /\ poll' \in Polls /\ poll'.pull \in Pulls
        /\ poll'.at \in {"failed", "stop", "read"}
    BY <1>4, <1>7 DEF ReadRepo, ReadFails, Polls, PollPlaces, HasItem
  <2> QED  BY <1>1, <1>2, <1>7, <2>1 DEF ReadRepo, PollUnchanged
<1>8. CASE ReadPull
  <2>1. poll.pull \in Pulls /\ github[poll.pull].head \in Heads
    BY <1>8 DEF ReadPull, HasItem, QueueTypes
  <2>2. /\ poll' \in Polls /\ poll'.pull \in Pulls
        /\ poll'.at \in {"record", "check"} => poll'.head \in Heads
        /\ poll'.at \in {"failed", "stop", "record", "check"}
    BY <1>4, <1>8, <2>1 DEF ReadPull, ReadFails, Polls, PollPlaces
  <2> QED  BY <1>1, <1>2, <1>8, <2>2 DEF ReadPull, PollUnchanged
<1>9. CASE PollCheck
  <2>1. /\ poll' \in Polls
        /\ poll'.at \notin {"idle", "prune"} => poll'.pull \in Pulls
        /\ poll'.at \in {"check", "reserve", "queue", "release", "record"} => poll'.head \in Heads
    <3>1. CASE poll' = [poll EXCEPT !.at = "reserve"]
      BY <1>4, <1>9, <3>1 DEF PollCheck, Polls, PollPlaces, HasItem
    <3>2. CASE poll' \in NextItem(poll.due)  BY <1>3, <1>4, <3>2
    <3> QED  BY <1>9, <3>1, <3>2 DEF PollCheck
  <2> QED  BY <1>1, <1>2, <1>9, <2>1 DEF PollCheck, PollUnchanged
<1>10. CASE PollReserve
  <2>1. QueueTypes' /\ UNCHANGED <<manual, used>>
    BY <1>1, <1>10 DEF PollReserve
  <2>2. CASE \E t \in Tickets : Reserved(t) /\ poll' = [poll EXCEPT !.at = "queue", !.ticket = t]
    <3>1. PICK t \in Tickets : Reserved(t) /\ poll' = [poll EXCEPT !.at = "queue", !.ticket = t]
      BY <2>2
    <3>2. /\ poll' \in Polls /\ poll'.at = "queue"
          /\ poll'.pull = poll.pull /\ poll'.head = poll.head /\ poll.at = "reserve"
      BY <1>4, <1>10, <3>1 DEF PollReserve, Polls, PollPlaces, Slots
    <3>3. admissions' \subseteq Tickets /\ IsFiniteSet(admissions')
      BY <3>1, Reserving
    <3> QED  BY <2>1, <3>2, <3>3 DEF TicketTypes, HasItem
  <2>3. CASE poll' = [poll EXCEPT !.at = "failed", !.wait = TRUE] /\ UNCHANGED admissions
    <3>1. poll' \in Polls /\ poll'.at = "failed" /\ poll'.pull \in Pulls
      BY <1>4, <1>10, <2>3 DEF PollReserve, Polls, PollPlaces, HasItem
    <3> QED  BY <1>2, <2>1, <2>3, <3>1
  <2> QED  BY <1>10, <2>2, <2>3 DEF PollReserve
<1>11. CASE PollQueue
  <2>1. poll.at = "queue" /\ poll.pull \in Pulls /\ poll.head \in Heads
    BY <1>11 DEF PollQueue, HasItem
  <2>2. [trigger |-> "tracking", head |-> poll.head] \in Jobs
    BY <2>1 DEF Jobs
  <2>3. QueueTypes' /\ UNCHANGED <<manual, admissions>>
    BY <1>11, <2>1, <2>2, QueueTyped DEF PollQueue, PollUnchanged, QueueTypes
  <2>4. poll' \in Polls /\ poll'.pull = poll.pull /\ poll'.head = poll.head
    BY <1>4, <1>11 DEF PollQueue, Polls, PollPlaces, Slots
  <2>5. used' \subseteq Tickets
    BY <1>4, <1>11 DEF PollQueue, TicketTypes, Polls, Slots
  <2> QED  BY <2>1, <2>3, <2>4, <2>5 DEF TicketTypes, HasItem
<1>12. CASE PollRelease
  <2>1. /\ poll' \in Polls /\ poll'.at = "failed" /\ poll'.pull \in Pulls
    BY <1>4, <1>12 DEF PollRelease, AfterRefusal, Polls, PollPlaces, Slots, HasItem
  <2>2. admissions' \subseteq Tickets /\ IsFiniteSet(admissions')
    BY <1>12, Reserving DEF PollRelease
  <2> QED  BY <1>1, <1>12, <2>1, <2>2 DEF PollRelease, TicketTypes, HasItem
<1>13. CASE PollRecord
  <2>1. QueueTypes' /\ manual' = manual
    <3>1. tracked \in [Pulls -> Entries]
      BY DEF QueueTypes
    <3>2. poll.pull \in Pulls /\ poll.head \in Heads
      BY <1>13 DEF PollRecord, HasItem
    <3> DEFINE e == [tracked[poll.pull] EXCEPT !.head = poll.head]
    <3>3. e \in Entries
      BY <3>1, <3>2 DEF Entries
    <3>4. tracked' \in {tracked, [tracked EXCEPT ![poll.pull] = e]}
      BY <1>13 DEF PollRecord
    <3> HIDE DEF e
    <3>5. tracked' \in [Pulls -> Entries]
      BY <3>1, <3>3, <3>4
    <3> QED  BY <1>13, <3>5 DEF PollRecord, PollUnchanged, QueueTypes
  <2> QED  BY <1>2, <1>3, <1>4, <1>13, <2>1 DEF PollRecord
<1>14. CASE PollFailed
  <2>1. (IF poll.wait THEN {} ELSE poll.due) \subseteq Pulls \X Entries
    BY <1>4
  <2> QED  BY <1>1, <1>2, <1>3, <1>14, <2>1 DEF PollFailed
<1>15. CASE PollStop
  <2>1. QueueTypes' /\ manual' = manual
    <3>1. tracked \in [Pulls -> Entries]
      BY DEF QueueTypes
    <3> DEFINE e == [tracked[poll.pull] EXCEPT !.status = "stopped"]
    <3>2. poll.pull \in Pulls => e \in Entries
      BY <3>1 DEF Entries
    <3>3. tracked' = [tracked EXCEPT ![poll.pull] = e]
      BY <1>15 DEF PollStop
    <3> HIDE DEF e
    <3>4. tracked' \in [Pulls -> Entries]
      BY <3>1, <3>2, <3>3
    <3> QED  BY <1>15, <3>4 DEF PollStop, PollUnchanged, QueueTypes
  <2>2. poll' \in Polls /\ poll'.at = "close" /\ poll'.pull \in Pulls
    BY <1>4, <1>15 DEF PollStop, Polls, PollPlaces, HasItem
  <2> QED  BY <1>2, <1>15, <2>1, <2>2 DEF PollStop
<1>16. CASE PollClose
  <2>1. QueueTypes' /\ manual' = manual
    BY <1>16 DEF PollClose, CloseQueue, Runs, PollUnchanged, QueueTypes, Runs1
  <2> QED  BY <1>2, <1>3, <1>4, <1>16, <2>1 DEF PollClose
<1>17. CASE Prune
  <2>1. NoPoll \in Polls /\ NoPoll.at = "idle"
    BY DEF NoPoll, Polls, PollPlaces, Slots, Entries, NoEntry
  <2>2. QueueTypes'
    BY <1>17 DEF Prune, QueueTypes
  <2> QED  BY <1>17, <2>1, <2>2 DEF Prune, TicketTypes, HasItem
<1> QED  BY <1>5, <1>6, <1>7, <1>8, <1>9, <1>10, <1>11, <1>12, <1>13, <1>14, <1>15, <1>16, <1>17
         DEF PollStep

\* Every step keeps the types.
LEMMA TypesStep == Types /\ [Next]_vars => Types'
<1> SUFFICES ASSUME Types, [Next]_vars  PROVE Types'
  OBVIOUS
<1>1. CASE \E p \in Pulls : Push(p) \/ Appear(p) \/ Track(p) \/ Untrack(p) \/ UntrackClose(p)
                            \/ Submit(p) \/ Worker(p)
  BY <1>1, TypesOfOthers
<1>2. CASE \E t \in Tickets : Expire(t)  BY <1>2, TypesOfExpire
<1>3. CASE LimitPasses  BY <1>3 DEF LimitPasses, Types, QueueTypes, TicketTypes, HasItem
<1>4. CASE Crash
  <2>1. QueueTypes'
    BY <1>4 DEF Crash, Types, QueueTypes, Runs1, NotRun
  <2>2. poll' \in Polls /\ manual' \in Manuals /\ HasItem'
    BY <1>4 DEF Crash, NoPoll, NoSubmission, Polls, PollPlaces, Manuals, Slots, Entries, NoEntry,
                HasItem
  <2> QED  BY <1>4, <2>1, <2>2 DEF Crash, Types, TicketTypes
<1>5. CASE ManualStep  BY <1>5, TypesOfManual
<1>6. CASE PollStep  BY <1>6, TypesOfPoll
<1>7. CASE UNCHANGED vars  BY <1>7 DEF vars, Types, QueueTypes, TicketTypes, HasItem
<1> QED  BY <1>1, <1>2, <1>3, <1>4, <1>5, <1>6, <1>7 DEF Next

-------------------------------------------------------------------------------
(* The hourly cap.                                                         *)

\* Nobody takes or returns a reservation; an operation without one may be anywhere.
LEMMA CapUntouched ==
    ASSUME CapInv, UNCHANGED <<admissions, used>>,
           poll'.ticket = poll.ticket, manual'.ticket = manual.ticket,
           poll.ticket # NoTicket => poll'.at \in {"queue", "release"},
           manual.ticket # NoTicket => manual'.at \in {"queue", "release"}
    PROVE  CapInv'
BY DEF CapInv, ReservationsMatch, OneHolder, InFlight

\* The poll between two items, or at the end of a round.
LEMMA CapOfNextItem ==
    ASSUME CapInv, UNCHANGED <<admissions, used, manual>>, poll.at \notin {"queue", "release"},
           NEW due, due \subseteq Pulls \X Entries, poll' \in NextItem(due)
    PROVE  CapInv'
<1>1. poll.ticket = NoTicket
  BY DEF CapInv, OneHolder
<1>2. poll'.ticket = NoTicket
  BY NextItemIs
<1> QED  BY <1>1, <1>2, CapUntouched DEF CapInv, OneHolder

\* A reservation for an operation that had none, while the cap leaves one.
LEMMA CapOfReserve ==
    ASSUME Types, CapInv, CapLeft, NEW t \in Tickets, Reserved(t), used' = used,
           \/ /\ poll.at = "reserve" /\ poll'.at = "queue" /\ poll'.ticket = t /\ manual' = manual
           \/ /\ manual.at = "reserve" /\ manual'.at = "queue" /\ manual'.ticket = t /\ poll' = poll
    PROVE  CapInv'
<1>1. /\ Cardinality(admissions') = Cardinality(admissions) + 1
      /\ Cardinality(admissions) \in Nat
  BY Reserving DEF Types
<1>2. Cardinality(admissions') <= PerHour
  BY <1>1, ExternalAssumption DEF CapLeft
<1>3. t # NoTicket /\ t \notin admissions /\ admissions' = admissions \cup {t}
  BY ExternalAssumption DEF Reserved, NoTicket
<1>4. used \subseteq admissions /\ admissions = used \cup InFlight
  BY DEF CapInv, ReservationsMatch
<1>5. CASE poll.at = "reserve" /\ poll'.at = "queue" /\ poll'.ticket = t /\ manual' = manual
  <2>1. poll.ticket = NoTicket
    BY <1>5 DEF CapInv, OneHolder
  <2> QED  BY <1>2, <1>3, <1>4, <1>5, <2>1 DEF CapInv, ReservationsMatch, OneHolder, InFlight
<1>6. CASE manual.at = "reserve" /\ manual'.at = "queue" /\ manual'.ticket = t /\ poll' = poll
  <2>1. manual.ticket = NoTicket
    BY <1>6 DEF CapInv, OneHolder
  <2> QED  BY <1>2, <1>3, <1>4, <1>6, <2>1 DEF CapInv, ReservationsMatch, OneHolder, InFlight
<1> QED  BY <1>5, <1>6

\* A reservation that its operation hands to a queued job, or takes back.
LEMMA CapOfHandOver ==
    ASSUME Types, CapInv, NEW t,
           \/ admissions' = admissions /\ used' = used \cup ({t} \ {NoTicket})
           \/ admissions' = admissions \ {t} /\ used' = used,
           \/ t = poll.ticket /\ poll'.ticket = NoTicket /\ manual' = manual
           \/ t = manual.ticket /\ manual'.ticket = NoTicket /\ poll' = poll
    PROVE  CapInv'
<1>1. Cardinality(admissions') <= PerHour
  <2>1. Cardinality(admissions) \in Nat /\ Cardinality(admissions) <= PerHour
    BY Reserving, FS_CardinalityType DEF Types, TicketTypes, CapInv, ReservationsMatch
  <2>2. CASE admissions' = admissions  BY <2>1, <2>2
  <2>3. CASE admissions' = admissions \ {t}
    <3>1. Cardinality(admissions') <= Cardinality(admissions) \/ Reserved(t)
      BY <2>3, Reserving DEF Types
    <3>2. ~Reserved(t)
      BY <2>3 DEF Reserved
    <3>3. Cardinality(admissions') \in Nat
      BY <2>3, Reserving, FS_CardinalityType DEF Types
    <3> QED  BY <2>1, <3>1, <3>2, <3>3, ExternalAssumption
  <2> QED  BY <2>2, <2>3
<1>2. NoTicket \notin admissions /\ NoTicket \notin used
  BY ExternalAssumption DEF Types, TicketTypes, NoTicket
<1> QED  BY <1>1, <1>2 DEF CapInv, ReservationsMatch, OneHolder, InFlight

LEMMA CapInit == Init => CapInv
BY FS_EmptySet, ExternalAssumption
DEF Init, CapInv, ReservationsMatch, OneHolder, InFlight, NoPoll, NoSubmission

\* Every step keeps the cap.
LEMMA CapStep ==
    ASSUME Types, CapInv, [Next]_vars
    PROVE  CapInv'
<1>0. /\ poll \in Polls /\ manual \in Manuals /\ poll.due \subseteq Pulls \X Entries
      /\ NoTicket \notin Tickets
  BY ExternalAssumption DEF Types, TicketTypes, Polls, NoTicket
<1>1. ASSUME NEW p \in Pulls, Push(p) \/ Appear(p) \/ Track(p) \/ Untrack(p) \/ Worker(p)
      PROVE  CapInv'
  BY <1>1, CapUntouched DEF Push, Appear, Track, Untrack, Worker, Start, Finish, CapInv, OneHolder
<1>2. ASSUME NEW p \in Pulls, UntrackClose(p)  PROVE CapInv'
  <2>1. poll'.ticket = poll.ticket /\ poll'.at = poll.at
    BY <1>0, <1>2 DEF UntrackClose, Revoked, Polls
  <2> QED  BY <1>2, <2>1, CapUntouched DEF UntrackClose, CapInv, OneHolder
<1>3. ASSUME NEW p \in Pulls, Submit(p)  PROVE CapInv'
  <2>1. manual.ticket = NoTicket /\ manual'.ticket = NoTicket
    BY <1>3 DEF Submit, CapInv, OneHolder
  <2> QED  BY <1>3, <2>1, CapUntouched DEF Submit, SubmissionUnchanged, CapInv, OneHolder
<1>4. ASSUME NEW t \in Tickets, Expire(t)  PROVE CapInv'
  <2>1. /\ admissions' = admissions \ {t} /\ used' = used \ {t}
        /\ poll'.ticket = (IF poll.ticket = t THEN NoTicket ELSE poll.ticket) /\ poll'.at = poll.at
        /\ manual'.ticket = (IF manual.ticket = t THEN NoTicket ELSE manual.ticket)
        /\ manual'.at = manual.at
    BY <1>0, <1>4 DEF Expire, Polls, Manuals
  <2>2. Cardinality(admissions') <= PerHour
    <3>1. Cardinality(admissions') <= Cardinality(admissions) /\ Cardinality(admissions) \in Nat
      BY <2>1, Reserving DEF Types, Reserved
    <3>2. Cardinality(admissions') \in Nat
      BY <2>1, Reserving, FS_CardinalityType DEF Types
    <3> QED  BY <3>1, <3>2, ExternalAssumption DEF CapInv, ReservationsMatch
  <2> QED  BY <1>0, <2>1, <2>2 DEF CapInv, ReservationsMatch, OneHolder, InFlight
<1>5. CASE Crash
  BY <1>5 DEF Crash, NoPoll, NoSubmission, CapInv, ReservationsMatch, OneHolder, InFlight
<1>6. CASE SubmitReserve
  <2>1. manual.at = "reserve" /\ poll' = poll /\ used' = used
    BY <1>6 DEF SubmitReserve, SubmissionUnchanged
  <2>2. ASSUME CapLeft, NEW t \in Tickets, Reserved(t),
               manual' = [manual EXCEPT !.at = "queue", !.ticket = t]
        PROVE  CapInv'
    <3>1. manual'.at = "queue" /\ manual'.ticket = t
      BY <1>0, <2>2 DEF Manuals
    <3> QED  BY <2>1, <2>2, <3>1, CapOfReserve
  <2>3. CASE manual' = NoSubmission /\ UNCHANGED admissions
    BY <2>1, <2>3, CapUntouched DEF NoSubmission, CapInv, OneHolder
  <2> QED  BY <1>6, <2>2, <2>3 DEF SubmitReserve
<1>7. CASE SubmitQueue
  <2>1. manual.at = "queue" /\ poll' = poll /\ admissions' = admissions
    BY <1>7 DEF SubmitQueue, SubmissionUnchanged
  <2>2. CASE manual' = NoSubmission /\ used' = used \cup ({manual.ticket} \ {NoTicket})
    BY <2>1, <2>2, CapOfHandOver DEF NoSubmission
  <2>3. CASE manual' = [manual EXCEPT !.at = "release"] /\ used' = used
    <3>1. manual'.at = "release" /\ manual'.ticket = manual.ticket
      BY <1>0, <2>3 DEF Manuals
    <3> QED  BY <2>1, <2>3, <3>1, CapUntouched DEF CapInv, OneHolder
  <2> QED  BY <1>7, <2>2, <2>3 DEF SubmitQueue
<1>8. CASE SubmitRelease
  BY <1>8, CapOfHandOver DEF SubmitRelease, SubmissionUnchanged, Release, NoSubmission
<1>9. CASE PollBegin \/ PollCheck \/ PollRecord \/ PollFailed \/ PollClose
  <2>1. UNCHANGED <<admissions, used, manual>> /\ poll.at \notin {"queue", "release"}
    BY <1>9 DEF PollBegin, PollCheck, PollRecord, PollFailed, PollClose, PollUnchanged
  <2>2. {<<p, tracked[p]>> : p \in Tracking} \subseteq Pulls \X Entries
    BY DEF Types, QueueTypes, Tracking
  <2>3. CASE \E due \in SUBSET (Pulls \X Entries) : poll' \in NextItem(due)
    BY <2>1, <2>3, CapOfNextItem
  <2>4. CASE poll' = [poll EXCEPT !.at = "reserve"]
    <3>1. poll'.ticket = poll.ticket /\ poll.ticket = NoTicket
      BY <1>0, <2>1, <2>4 DEF Polls, CapInv, OneHolder
    <3> QED  BY <2>1, <3>1, CapUntouched DEF CapInv, OneHolder
  <2>5. (IF poll.wait THEN {} ELSE poll.due) \in SUBSET (Pulls \X Entries)
    BY <1>0
  <2>6. \/ poll' = [poll EXCEPT !.at = "reserve"]
        \/ \E due \in SUBSET (Pulls \X Entries) : poll' \in NextItem(due)
    BY <1>0, <1>9, <2>2, <2>5 DEF PollBegin, PollCheck, PollRecord, PollFailed, PollClose
  <2> QED  BY <2>3, <2>4, <2>6
<1>10. CASE PollToken \/ ReadRepo \/ ReadPull \/ PollStop
  <2>1. UNCHANGED <<admissions, used, manual>> /\ poll.at \notin {"queue", "release"}
    BY <1>10 DEF PollToken, ReadRepo, ReadPull, PollStop, PollUnchanged
  <2>2. poll'.ticket = poll.ticket /\ poll.ticket = NoTicket
    BY <1>0, <1>10, <2>1 DEF PollToken, ReadRepo, ReadPull, ReadFails, PollStop, Polls, CapInv, OneHolder
  <2> QED  BY <2>1, <2>2, CapUntouched DEF CapInv, OneHolder
<1>11. CASE PollReserve
  <2>1. poll.at = "reserve" /\ manual' = manual /\ used' = used
    BY <1>11 DEF PollReserve, PollUnchanged
  <2>2. ASSUME CapLeft, NEW t \in Tickets, Reserved(t),
               poll' = [poll EXCEPT !.at = "queue", !.ticket = t]
        PROVE  CapInv'
    <3>1. poll'.at = "queue" /\ poll'.ticket = t
      BY <1>0, <2>2 DEF Polls
    <3> QED  BY <2>1, <2>2, <3>1, CapOfReserve
  <2>3. CASE poll' = [poll EXCEPT !.at = "failed", !.wait = TRUE] /\ UNCHANGED admissions
    <3>1. poll'.ticket = poll.ticket /\ poll.ticket = NoTicket
      BY <1>0, <2>1, <2>3 DEF Polls, CapInv, OneHolder
    <3> QED  BY <2>1, <2>3, <3>1, CapUntouched DEF CapInv, OneHolder
  <2> QED  BY <1>11, <2>2, <2>3 DEF PollReserve
<1>12. CASE PollQueue
  <2>1. poll.at = "queue" /\ manual' = manual /\ admissions' = admissions
    BY <1>12 DEF PollQueue, PollUnchanged
  <2>2. CASE /\ poll' = [poll EXCEPT !.at = "record", !.ticket = NoTicket]
             /\ used' = used \cup ({poll.ticket} \ {NoTicket})
    <3>1. poll'.ticket = NoTicket
      BY <1>0, <2>2 DEF Polls
    <3> QED  BY <2>1, <2>2, <3>1, CapOfHandOver
  <2>3. CASE poll' = [poll EXCEPT !.at = "release"] /\ used' = used
    <3>1. poll'.at = "release" /\ poll'.ticket = poll.ticket
      BY <1>0, <2>3 DEF Polls
    <3> QED  BY <2>1, <2>3, <3>1, CapUntouched DEF CapInv, OneHolder
  <2> QED  BY <1>12, <2>2, <2>3 DEF PollQueue
<1>13. CASE PollRelease
  <2>1. poll'.ticket = NoTicket
    BY <1>0, <1>13 DEF PollRelease, Polls
  <2> QED  BY <1>13, <2>1, CapOfHandOver DEF PollRelease, PollUnchanged, Release
<1>14. CASE Prune
  <2>1. poll.ticket = NoTicket /\ poll'.ticket = NoTicket
    BY <1>14 DEF Prune, NoPoll, CapInv, OneHolder
  <2> QED  BY <1>14, <2>1, CapUntouched DEF Prune, CapInv, OneHolder
<1>15. CASE LimitPasses \/ UNCHANGED vars
  BY <1>15, CapUntouched DEF LimitPasses, vars, CapInv, OneHolder
<1> QED  BY <1>1, <1>2, <1>3, <1>4, <1>5, <1>6, <1>7, <1>8, <1>9, <1>10, <1>11, <1>12, <1>13,
            <1>14, <1>15 DEF Next, ManualStep, PollStep

-------------------------------------------------------------------------------
(* What is untracked stays quiet.                                          *)

\* What UntrackedStaysQuiet says of one pull request.
Settled(p) ==
    /\ tracked[p].status = "stopped"
    /\ p \notin closing
    /\ ~(poll.at = "close" /\ poll.pull = p)
Quiet(p) ==
    /\ pending[p].trigger # "tracking"
    /\ running[p].job.trigger = "tracking" => running[p].told

\* A step that neither settles a pull request nor makes one loud.
LEMMA QuietKept ==
    ASSUME QuietInv, MayQueue',
           \A p \in Pulls : Settled(p)' => Quiet(p)' \/ (Settled(p) /\ (Quiet(p) => Quiet(p)'))
    PROVE  QuietInv'
BY DEF QuietInv, UntrackedStaysQuiet, Settled, Quiet

\* The queue stays quiet about what it was quiet about, but for a tracking job.
LEMMA QueueStaysQuiet ==
    ASSUME QueueTypes, NEW p \in Pulls, NEW q \in Pulls, NEW j \in Jobs, NEW h \in Heads,
           CloseQueue(p) \/ Enqueued(p, j) \/ Refused(p, h), Quiet(q)
    PROVE  Quiet(q)' \/ (q = p /\ Enqueued(p, j) /\ j.trigger = "tracking")
<1>1. /\ pending \in [Pulls -> Jobs \cup {NoJob}] /\ running \in [Pulls -> Runs1]
      /\ Told(p, h) \in BOOLEAN /\ Told(p, j.head) \in BOOLEAN
      /\ running[p].told => Told(p, h) /\ Told(p, j.head)
  BY DEF QueueTypes, Told, Runs, Runs1
<1>2. CASE CloseQueue(p)
  BY <1>1, <1>2 DEF CloseQueue, Quiet, NoJob, Runs1
<1>3. CASE Enqueued(p, j)
  BY <1>1, <1>3 DEF Enqueued, Quiet, Runs1
<1>4. CASE Refused(p, h)
  BY <1>1, <1>4 DEF Refused, Quiet, NoJob, Runs1
<1> QED  BY <1>2, <1>3, <1>4

\* A key that is closed is quiet.
LEMMA CloseQuiets ==
    ASSUME QueueTypes, NEW p \in Pulls, CloseQueue(p)
    PROVE  /\ Quiet(p)'
           /\ \A q \in Pulls \ {p} : pending'[q] = pending[q] /\ running'[q] = running[q]
<1>1. pending'[p] = NoJob /\ running'[p].job = running[p].job
  BY DEF QueueTypes, CloseQueue, Runs1
<1>2. running'[p].told = (running[p].told \/ Runs(p))
  BY DEF QueueTypes, CloseQueue, Runs1
<1>3. running[p].job.trigger = "tracking" => Runs(p)
  BY DEF Runs, NoJob
<1>4. \A q \in Pulls \ {p} : pending'[q] = pending[q] /\ running'[q] = running[q]
  BY DEF QueueTypes, CloseQueue
<1>5. NoJob.trigger # "tracking"
  BY DEF NoJob
<1> QED  BY <1>1, <1>2, <1>3, <1>4, <1>5 DEF Quiet

LEMMA QuietInit == Init => QuietInv
BY DEF Init, QuietInv, UntrackedStaysQuiet, MayQueue, NoJob, NotRun, NoPoll, NoEntry

\* Every step keeps the untracked quiet.
LEMMA QuietStep ==
    ASSUME Types, QuietInv, [Next]_vars
    PROVE  QuietInv'
<1>0. /\ poll \in Polls /\ manual \in Manuals /\ poll.due \subseteq Pulls \X Entries
      /\ tracked \in [Pulls -> Entries]
      /\ pending \in [Pulls -> Jobs \cup {NoJob}] /\ running \in [Pulls -> Runs1]
  BY DEF Types, QueueTypes, TicketTypes, Polls
<1>1. ASSUME NEW p \in Pulls, Push(p) \/ Appear(p) \/ Submit(p)  PROVE QuietInv'
  BY <1>1, QuietKept DEF Push, Appear, Submit, SubmissionUnchanged, QuietInv, MayQueue, Settled, Quiet
<1>2. ASSUME NEW p \in Pulls, Worker(p)  PROVE QuietInv'
  <2>1. MayQueue' /\ UNCHANGED <<tracked, closing, poll>>
    BY <1>2 DEF Worker, Start, Finish, QuietInv, MayQueue
  <2>2. ASSUME NEW q \in Pulls, Quiet(q)  PROVE Quiet(q)'
    <3>1. CASE Start(p)
      BY <1>0, <2>2, <3>1 DEF Start, Quiet, NoJob, NotRun
    <3>2. CASE Finish(p)
      BY <1>0, <2>2, <3>2 DEF Finish, Quiet, NoJob, NotRun
    <3> QED  BY <1>2, <3>1, <3>2 DEF Worker
  <2> QED  BY <2>1, <2>2, QuietKept DEF Settled
<1>3. ASSUME NEW p \in Pulls, Track(p)  PROVE QuietInv'
  <2>1. /\ tracked'[p].status = "tracking" /\ \A q \in Pulls \ {p} : tracked'[q] = tracked[q]
        /\ UNCHANGED <<closing, poll, pending, running>>
    BY <1>0, <1>3 DEF Track, NoEntry
  <2>2. MayQueue'
    BY <1>0, <2>1 DEF QuietInv, MayQueue, Types, HasItem
  <2> QED  BY <2>1, <2>2, QuietKept DEF Settled, Quiet
<1>4. ASSUME NEW p \in Pulls, Untrack(p)  PROVE QuietInv'
  <2>1. /\ \A q \in Pulls \ {p} : tracked'[q] = tracked[q]
        /\ closing' = closing \cup {p} /\ UNCHANGED <<poll, pending, running>>
    BY <1>0, <1>4 DEF Untrack
  <2>2. MayQueue'
    BY <1>0, <2>1 DEF QuietInv, MayQueue, Types, HasItem
  <2> QED  BY <2>1, <2>2, QuietKept DEF Settled, Quiet
<1>5. ASSUME NEW p \in Pulls, UntrackClose(p)  PROVE QuietInv'
  <2>1. /\ poll'.at = poll.at /\ poll'.pull = poll.pull
        /\ poll'.token = (poll.token /\ poll.pull # p)
        /\ closing' = closing \ {p} /\ tracked' = tracked
    BY <1>0, <1>5 DEF UntrackClose, Revoked, Polls
  <2>2. MayQueue'
    BY <2>1 DEF QuietInv, MayQueue
  <2>3. /\ Quiet(p)'
        /\ \A q \in Pulls \ {p} : pending'[q] = pending[q] /\ running'[q] = running[q]
    BY <1>5, CloseQuiets DEF UntrackClose, Types
  <2> QED  BY <2>1, <2>2, <2>3, QuietKept DEF Settled, Quiet
<1>6. ASSUME NEW t \in Tickets, Expire(t)  PROVE QuietInv'
  <2>1. poll'.at = poll.at /\ poll'.pull = poll.pull /\ poll'.token = poll.token
    BY <1>0, <1>6 DEF Expire, Polls
  <2> QED  BY <1>6, <2>1, QuietKept DEF Expire, QuietInv, MayQueue, Settled, Quiet
<1>7. CASE Crash
  <2>1. \A p \in Pulls : Quiet(p)'
    BY <1>7 DEF Crash, Quiet, NoJob, NotRun
  <2>2. MayQueue'
    BY <1>7 DEF Crash, NoPoll, MayQueue
  <2> QED  BY <2>1, <2>2, QuietKept
<1>8. CASE LimitPasses \/ SubmitReserve \/ SubmitRelease \/ UNCHANGED vars
  BY <1>8, QuietKept DEF LimitPasses, SubmitReserve, SubmitRelease, SubmissionUnchanged, vars,
                         QuietInv, MayQueue, Settled, Quiet
<1>9. CASE SubmitQueue
  <2>1. /\ manual.pull \in Pulls /\ manual.head \in Heads
        /\ UNCHANGED <<tracked, closing, poll>>
    BY <1>9 DEF SubmitQueue, SubmissionUnchanged, Types, HasItem
  <2>2. [trigger |-> "manual", head |-> manual.head] \in Jobs
    BY <2>1 DEF Jobs
  <2>3. ASSUME NEW q \in Pulls, Quiet(q)  PROVE Quiet(q)'
    BY <1>9, <2>1, <2>2, <2>3, QueueStaysQuiet DEF SubmitQueue, Types
  <2> QED  BY <2>1, <2>3, QuietKept DEF QuietInv, MayQueue, Settled
<1>10. CASE PollBegin \/ PollToken \/ ReadRepo \/ ReadPull \/ PollFailed \/ PollRelease
  <2>1. /\ UNCHANGED <<tracked, closing, pending, running>> /\ poll.at # "close"
    BY <1>10 DEF PollBegin, PollToken, ReadRepo, ReadPull, PollFailed, PollRelease, PollUnchanged
  <2>2. poll'.at \notin {"reserve", "queue"}
    <3>1. CASE PollBegin \/ PollFailed
      <4>1. {<<p, tracked[p]>> : p \in Tracking} \subseteq Pulls \X Entries
        BY <1>0 DEF Tracking
      <4> QED  BY <1>0, <3>1, <4>1, NextItemIs DEF PollBegin, PollFailed
    <3>2. CASE PollToken \/ ReadRepo \/ ReadPull \/ PollRelease
      BY <1>0, <3>2 DEF PollToken, ReadRepo, ReadPull, ReadFails, PollRelease, AfterRefusal, Polls
    <3> QED  BY <1>10, <3>1, <3>2
  <2> QED  BY <2>1, <2>2, QuietKept DEF MayQueue, Settled, Quiet
<1>11. CASE PollCheck \/ PollReserve
  <2>1. /\ UNCHANGED <<tracked, closing, pending, running>> /\ poll.at \in {"check", "reserve"}
    BY <1>11 DEF PollCheck, PollReserve, PollUnchanged
  <2>2. MayQueue'
    <3>1. CASE PollCheck
      <4>1. CASE poll' \in NextItem(poll.due)
        BY <1>0, <4>1, NextItemIs DEF MayQueue
      <4>2. CASE StillSelected(poll.pull) /\ poll' = [poll EXCEPT !.at = "reserve"]
        BY <1>0, <2>1, <4>2 DEF StillSelected, MayQueue, Polls
      <4> QED  BY <3>1, <4>1, <4>2 DEF PollCheck
    <3>2. CASE PollReserve
      BY <1>0, <2>1, <3>2 DEF PollReserve, QuietInv, MayQueue, Polls
    <3> QED  BY <1>11, <3>1, <3>2
  <2> QED  BY <2>1, <2>2, QuietKept DEF Settled, Quiet
<1>12. CASE PollQueue
  <2>1. /\ poll.at = "queue" /\ poll.pull \in Pulls /\ poll.head \in Heads
        /\ UNCHANGED <<tracked, closing>> /\ poll'.at \in {"record", "release"}
    BY <1>0, <1>12 DEF PollQueue, PollUnchanged, Types, HasItem, Polls
  <2> DEFINE j == [trigger |-> "tracking", head |-> poll.head]
  <2>2. j \in Jobs
    BY <2>1 DEF Jobs
  <2>3. ASSUME NEW q \in Pulls, Quiet(q)
        PROVE  Quiet(q)' \/ (q = poll.pull /\ poll.token)
    <3>1. CASE poll.token /\ (Enqueued(poll.pull, j) \/ Refused(poll.pull, poll.head))
      BY <2>1, <2>2, <2>3, <3>1, QueueStaysQuiet DEF Types
    <3>2. CASE UNCHANGED <<pending, running>>
      BY <2>3, <3>2 DEF Quiet
    <3> QED  BY <1>12, <3>1, <3>2 DEF PollQueue
  <2>4. ASSUME NEW q \in Pulls, q = poll.pull, poll.token  PROVE ~Settled(q)'
    BY <2>1, <2>4 DEF QuietInv, MayQueue, Settled
  <2> QED  BY <2>1, <2>3, <2>4, QuietKept DEF MayQueue, Settled
<1>13. CASE PollRecord
  <2>1. /\ UNCHANGED <<closing, pending, running>> /\ poll.at = "record"
        /\ \A q \in Pulls : tracked'[q].status = tracked[q].status
    BY <1>0, <1>13 DEF PollRecord, PollUnchanged, Entries
  <2>2. MayQueue'
    BY <1>0, <1>13, NextItemIs DEF PollRecord, MayQueue
  <2> QED  BY <2>1, <2>2, QuietKept DEF Settled, Quiet
<1>14. CASE PollStop
  <2>1. /\ UNCHANGED <<closing, pending, running>> /\ poll.at = "stop" /\ poll.pull \in Pulls
        /\ \A q \in Pulls \ {poll.pull} : tracked'[q] = tracked[q]
        /\ poll'.at = "close" /\ poll'.pull = poll.pull
    BY <1>0, <1>14 DEF PollStop, PollUnchanged, Polls, Types, HasItem
  <2> QED  BY <2>1, QuietKept DEF MayQueue, Settled, Quiet
<1>15. CASE PollClose
  <2>1. UNCHANGED <<tracked, closing>> /\ poll.at = "close" /\ poll.pull \in Pulls
    BY <1>15 DEF PollClose, PollUnchanged, Types, HasItem
  <2>2. MayQueue'
    BY <1>0, <1>15, NextItemIs DEF PollClose, MayQueue
  <2>3. /\ \A q \in Pulls : q = poll.pull => Quiet(q)'
        /\ \A q \in Pulls \ {poll.pull} : pending'[q] = pending[q] /\ running'[q] = running[q]
    BY <1>15, <2>1, CloseQuiets DEF PollClose, Types
  <2> QED  BY <2>1, <2>2, <2>3, QuietKept DEF Settled, Quiet
<1>16. CASE Prune
  BY <1>16, QuietKept DEF Prune, NoPoll, MayQueue, Settled, Quiet
<1> QED  BY <1>1, <1>2, <1>3, <1>4, <1>5, <1>6, <1>7, <1>8, <1>9, <1>10, <1>11, <1>12, <1>13,
            <1>14, <1>15, <1>16 DEF Next, ManualStep, PollStep

-------------------------------------------------------------------------------
(* Checkouts.                                                              *)

\* Every step keeps the checkouts of what runs.
LEMMA CheckoutStep ==
    ASSUME Types, CheckoutIsKept, [Next]_vars
    PROVE  CheckoutIsKept'
<1>0. running \in [Pulls -> Runs1]
  BY DEF Types, QueueTypes
<1>1. ASSUME UNCHANGED checkouts, \A p \in Pulls : running'[p].job = running[p].job
      PROVE  CheckoutIsKept'
  BY <1>1 DEF CheckoutIsKept, Runs
<1>2. ASSUME NEW p \in Pulls, Worker(p)  PROVE CheckoutIsKept'
  <2>1. CASE Start(p)
    BY <1>0, <2>1 DEF Start, CheckoutIsKept, Runs
  <2>2. CASE Finish(p)
    BY <1>0, <2>2 DEF Finish, CheckoutIsKept, Runs, NotRun
  <2> QED  BY <1>2, <2>1, <2>2 DEF Worker
<1>3. CASE Prune
  <2>1. \E old \in SUBSET {p \in Pulls : ~Kept(p)} : \E repos :
          /\ \A p \in Pulls : p[1] \in repos => ~Kept(p)
          /\ checkouts' = {p \in checkouts \ old : p[1] \notin repos}
    BY <1>3 DEF Prune
  <2>2. running' = running
    BY <1>3 DEF Prune
  <2> QED  BY <2>1, <2>2 DEF CheckoutIsKept, Runs, Kept
<1>4. CASE Crash
  BY <1>4 DEF Crash, CheckoutIsKept, Runs, NotRun
<1>5. ASSUME NEW p \in Pulls, UntrackClose(p)  PROVE CheckoutIsKept'
  BY <1>0, <1>1, <1>5 DEF UntrackClose, CloseQueue, Runs1
<1>6. ASSUME NEW p \in Pulls, Push(p) \/ Appear(p) \/ Track(p) \/ Untrack(p) \/ Submit(p)
      PROVE  CheckoutIsKept'
  BY <1>1, <1>6 DEF Push, Appear, Track, Untrack, Submit, SubmissionUnchanged
<1>7. ASSUME NEW p \in Pulls, NEW j, NEW h, CloseQueue(p) \/ Enqueued(p, j) \/ Refused(p, h)
      PROVE  \A q \in Pulls : running'[q].job = running[q].job
  BY <1>0, <1>7 DEF CloseQueue, Enqueued, Refused, Runs1
<1>8. CASE ManualStep
  <2>1. UNCHANGED checkouts
    BY <1>8 DEF ManualStep, SubmitReserve, SubmitQueue, SubmitRelease, SubmissionUnchanged
  <2>2. CASE SubmitQueue
    <3>1. manual.pull \in Pulls
      BY <2>2 DEF SubmitQueue, Types, HasItem
    <3> QED  BY <1>1, <1>7, <2>1, <2>2, <3>1 DEF SubmitQueue
  <2>3. CASE SubmitReserve \/ SubmitRelease
    BY <1>1, <2>1, <2>3 DEF SubmitReserve, SubmitRelease
  <2> QED  BY <1>8, <2>2, <2>3 DEF ManualStep
<1>10. CASE PollStep /\ ~Prune
  <2>1. UNCHANGED checkouts
    BY <1>10 DEF PollStep, PollBegin, PollToken, ReadRepo, ReadPull, PollCheck, PollReserve, PollQueue,
                PollRelease, PollRecord, PollFailed, PollStop, PollClose, PollUnchanged
  <2>2. CASE PollQueue \/ PollClose
    <3>1. poll.pull \in Pulls
      BY <2>2 DEF PollQueue, PollClose, Types, HasItem
    <3>2. CASE UNCHANGED running  BY <1>1, <2>1, <3>2
    <3> QED  BY <1>1, <1>7, <2>1, <2>2, <3>1, <3>2 DEF PollQueue, PollClose
  <2>3. CASE ~PollQueue /\ ~PollClose
    <3>1. UNCHANGED running
      BY <1>10, <2>3 DEF PollStep, PollBegin, PollToken, ReadRepo, ReadPull, PollCheck, PollReserve,
                         PollRelease, PollRecord, PollFailed, PollStop
    <3> QED  BY <1>1, <2>1, <3>1
  <2> QED  BY <2>2, <2>3
<1>9. CASE LimitPasses \/ (\E t \in Tickets : Expire(t)) \/ UNCHANGED vars
  BY <1>1, <1>9 DEF LimitPasses, Expire, vars
<1> QED  BY <1>2, <1>3, <1>4, <1>5, <1>6, <1>8, <1>9, <1>10 DEF Next

-------------------------------------------------------------------------------
(* The theorems.                                                           *)

LEMMA ExternalInvariant == Spec => []IInv
<1>1. Init => IInv
  <2>1. Init => CheckoutIsKept
    BY DEF Init, CheckoutIsKept, Runs, NotRun
  <2> QED  BY <2>1, TypesInit, CapInit, QuietInit DEF IInv
<1>2. IInv /\ [Next]_vars => IInv'
  BY TypesStep, CapStep, QuietStep, CheckoutStep DEF IInv
<1> QED  BY <1>1, <1>2, PTL DEF Spec

\* external.rs admit, enqueue: however polls and submissions interleave, expire and
\* fail, no more reviews are asked for in an hour than the policy allows, and no
\* reservation is lost or kept by nobody.
THEOREM CapHolds == Spec => []ReservationsMatch
<1>1. IInv => ReservationsMatch
  BY DEF IInv, CapInv
<1> QED  BY <1>1, ExternalInvariant, PTL

\* external.rs untrack: after it no review that tracking asked for waits or runs on,
\* wherever a poll was in its work on the pull request.
THEOREM UntrackEndsReviews == Spec => []UntrackedStaysQuiet
<1>1. IInv => UntrackedStaysQuiet
  BY DEF IInv, QuietInv
<1> QED  BY <1>1, ExternalInvariant, PTL

\* external.rs prune: no review loses its checkout.
THEOREM ReviewsKeepCheckouts == Spec => []CheckoutIsKept
<1>1. IInv => CheckoutIsKept
  BY DEF IInv
<1> QED  BY <1>1, ExternalInvariant, PTL
===============================================================================
