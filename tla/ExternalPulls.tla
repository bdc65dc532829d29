----------------------------- MODULE ExternalPulls -----------------------------
(***************************************************************************)
(* Reviews of public pull requests the server is not installed on          *)
(* (src/src/server/external.rs): tracking, the poll, manual submissions,   *)
(* the hourly cap, and pruning of their checkouts, with as much of the     *)
(* review queue as they meet (ReviewQueue models the rest of it).          *)
(*                                                                         *)
(* Each action is one critical section of the store's or the queue's lock, *)
(* or one read from GitHub.  A poll keeps copies of the entries it found   *)
(* due; everybody else works between its steps.                            *)
(***************************************************************************)
EXTENDS Naturals, FiniteSets

CONSTANTS
    Pulls,        \* <<repository, number>>
    Heads,        \* the commits a pull request may have
    PerHour,      \* Policy.reviews_per_hour
    MaxTracked,   \* Policy.max_tracked
    Concurrency,  \* Policy.concurrency
    Tickets,      \* bound: reservations that exist at one time
    MaxEvents     \* bound: requests, pushes, faults and crashes

ASSUME ExternalAssumption ==
    /\ Pulls \subseteq Nat \X Nat
    /\ Heads \subseteq Nat \ {0}
    /\ PerHour \in Nat \ {0} /\ MaxTracked \in Nat \ {0} /\ Concurrency \in Nat \ {0}
    /\ MaxEvents \in Nat
    /\ 0 \notin Tickets

NoHead   == 0     \* Tracked.head_sha before the first review: the empty string
NoTicket == 0
Idle     == <<0, 0>>
ASSUME IdleAssumption == Idle \notin Pulls

VARIABLES
    github,      \* the pull requests: head, and open, closed or hidden
    tracked,     \* Store.tracked (in memory and in external.json)
    admissions,  \* Store.admissions: the reservations of the last hour
    limited,     \* Store.retry_at lies ahead
    pending,     \* the external jobs waiting in the queue
    running,     \* the external jobs running
    checkouts,   \* the checkouts on disk that a run works in
    poll,        \* the poll under `external_poll'
    manual,      \* a submission from the dashboard
    closing,     \* untracked, queue not closed yet
    used,        \* history: reservations whose job was queued
    reviewed,    \* history: pull request -> heads a review was finished of
    excused,     \* history: pull requests whose review somebody called off: stopped,
                 \* lost with the process, or displaced by a submission of an older
                 \* head or one that was then refused
    events

vars == <<github, tracked, admissions, limited, pending, running, checkouts, poll,
          manual, closing, used, reviewed, excused, events>>

NoJob    == [trigger |-> "none", head |-> NoHead]
Jobs     == [trigger : {"tracking", "manual"}, head : Heads]
NotRun   == [job |-> NoJob, told |-> FALSE]
NoEntry  == [status |-> "none", head |-> NoHead]
NoPoll   == [at |-> "idle", due |-> {}, pull |-> Idle, item |-> NoEntry,
             token |-> FALSE, head |-> NoHead, ticket |-> NoTicket, wait |-> FALSE]
NoSubmission == [at |-> "idle", pull |-> Idle, head |-> NoHead, ticket |-> NoTicket]

Event == events < MaxEvents /\ events' = events + 1
Runs(p)  == running[p].job # NoJob
Tracking == {p \in Pulls : tracked[p].status = "tracking"}

Init ==
    /\ github \in [Pulls -> [head : {h \in Heads : \A g \in Heads : h <= g}, state : {"open"}]]
    /\ tracked \in [Pulls -> {NoEntry, [NoEntry EXCEPT !.status = "tracking"]}]
    /\ Cardinality(Tracking) <= MaxTracked
    /\ admissions = {}
    /\ limited = FALSE
    /\ pending = [p \in Pulls |-> NoJob]
    /\ running = [p \in Pulls |-> NotRun]
    /\ checkouts = {}
    /\ poll = NoPoll
    /\ manual = NoSubmission
    /\ closing = {}
    /\ used = {}
    /\ reviewed = [p \in Pulls |-> {}]
    /\ excused = {}
    /\ events = 0

-------------------------------------------------------------------------------
(* GitHub and the clock.                                                   *)

\* A new head; heads are numbered as they appear.
Push(p) ==
    /\ Event
    /\ \E h \in Heads : h > github[p].head /\ github' = [github EXCEPT ![p].head = h]
    /\ UNCHANGED <<tracked, admissions, limited, pending, running, checkouts, poll,
                   manual, closing, used, reviewed, excused>>

\* Closed and merged, or private and deleted; and back.
Appear(p) ==
    /\ Event
    /\ \E s \in {"open", "closed", "hidden"} \ {github[p].state} :
          github' = [github EXCEPT ![p].state = s]
    /\ UNCHANGED <<tracked, admissions, limited, pending, running, checkouts, poll,
                   manual, closing, used, reviewed, excused>>

\* An hour after a reservation.  Its operation, should it still be under way,
\* finds nothing to release.
Expire(t) ==
    /\ t \in admissions
    /\ admissions' = admissions \ {t}
    /\ used' = used \ {t}
    /\ poll' = [poll EXCEPT !.ticket = IF @ = t THEN NoTicket ELSE @]
    /\ manual' = [manual EXCEPT !.ticket = IF @ = t THEN NoTicket ELSE @]
    /\ UNCHANGED <<github, tracked, limited, pending, running, checkouts, closing,
                   reviewed, excused, events>>

\* retry_at is reached.
LimitPasses ==
    /\ limited
    /\ limited' = FALSE
    /\ UNCHANGED <<github, tracked, admissions, pending, running, checkouts, poll,
                   manual, closing, used, reviewed, excused, events>>

-------------------------------------------------------------------------------
(* The queue, as the external reviews meet it.                             *)

\* Queue::close: what waits goes, what runs is told, lookups lose their token.
CloseQueue(p) ==
    /\ pending' = [pending EXCEPT ![p] = NoJob]
    /\ running' = [running EXCEPT ![p].told = @ \/ Runs(p)]

Revoked(p) == [poll EXCEPT !.token = @ /\ poll.pull # p]

\* Queue::enqueue of a forced review: behind a run of the same head, in place of
\* a run of another.
Told(p, head) == running[p].told \/ (Runs(p) /\ running[p].job.head # head)

Enqueued(p, j) ==
    /\ pending' = [pending EXCEPT ![p] = j]
    /\ running' = [running EXCEPT ![p].told = Told(p, j.head)]

\* enqueue_inner, refused: before the queue is touched (the server stops, or the token
\* of the lookup was revoked), or after (it is not configured, or the summary cannot
\* be written), when what the job displaced is gone.
Refused(p, head) ==
    \/ UNCHANGED <<pending, running, excused>>
    \/ /\ pending' = [pending EXCEPT ![p] = NoJob]
       /\ running' = [running EXCEPT ![p].told = Told(p, head)]
       /\ excused' = excused \cup {q \in {p} : pending[q] # NoJob \/ Runs(q)}

\* take_with_external_limit: one job of a repository at a time; its worker prepares
\* the checkout of the pull request (prepare_external).
Start(p) ==
    /\ pending[p] # NoJob
    /\ \A q \in Pulls : Runs(q) => q[1] # p[1]
    /\ Cardinality({q \in Pulls : Runs(q)}) < Concurrency
    /\ pending' = [pending EXCEPT ![p] = NoJob]
    /\ running' = [running EXCEPT ![p] = [NotRun EXCEPT !.job = pending[p]]]
    /\ checkouts' = checkouts \cup {p}
    /\ UNCHANGED <<github, tracked, admissions, limited, poll, manual,
                   closing, used, reviewed, excused, events>>

\* The worker is done, or was told to stop; its checkout may go or stay from here on.
Finish(p) ==
    /\ Runs(p)
    /\ reviewed' = [reviewed EXCEPT ![p] =
                        @ \cup (IF running[p].told THEN {} ELSE {running[p].job.head})]
    /\ running' = [running EXCEPT ![p] = NotRun]
    /\ checkouts' = checkouts \ {p}
    /\ UNCHANGED <<github, tracked, admissions, limited, pending, poll, manual,
                   closing, used, excused, events>>

-------------------------------------------------------------------------------
(* Tracking.                                                               *)

\* track: the entry starts with no head, so its first poll asks for a review.  The
\* actor and the installed repositories only refuse it.
Track(p) ==
    /\ Event
    /\ ~limited /\ github[p].state = "open"
    /\ p \notin Tracking
    /\ Cardinality(Tracking) < MaxTracked
    /\ tracked' = [tracked EXCEPT ![p] = [NoEntry EXCEPT !.status = "tracking"]]
    /\ UNCHANGED <<github, admissions, limited, pending, running, checkouts, poll,
                   manual, closing, used, reviewed, excused>>

\* untrack marks the entry ...
Untrack(p) ==
    /\ Event
    /\ tracked[p].status # "none"
    /\ tracked' = [tracked EXCEPT ![p].status = "stopped"]
    /\ closing' = closing \cup {p}
    /\ excused' = excused \cup {p}
    /\ UNCHANGED <<github, admissions, limited, pending, running, checkouts, poll,
                   manual, used, reviewed>>

\* ... and then closes the key in the queue.
UntrackClose(p) ==
    /\ p \in closing
    /\ closing' = closing \ {p}
    /\ CloseQueue(p)
    /\ poll' = Revoked(p)
    /\ UNCHANGED <<github, tracked, admissions, limited, checkouts, manual, used,
                   reviewed, excused, events>>

-------------------------------------------------------------------------------
(* The hourly cap.                                                         *)

\* Store::admit: the reservation a job is given before it is queued.
CapLeft == Cardinality(admissions) < PerHour
Reserved(t) == t \in Tickets \ admissions /\ admissions' = admissions \cup {t}

\* Mutant of Release: the reservation of a refused job is kept.
KeepReservation(t) == admissions' = admissions

\* enqueue, refused: the reservation is taken back.
Release(t) == admissions' = admissions \ {t}

-------------------------------------------------------------------------------
(* A manual submission: read, reserve, queue or release.                   *)

SubmissionUnchanged ==
    UNCHANGED <<github, tracked, limited, checkouts, poll, closing, reviewed>>

\* resolve: an open, public pull request.
Submit(p) ==
    /\ Event
    /\ manual.at = "idle" /\ ~limited /\ github[p].state = "open"
    /\ manual' = [at |-> "reserve", pull |-> p, head |-> github[p].head, ticket |-> NoTicket]
    /\ UNCHANGED <<admissions, pending, running, used, excused>>
    /\ SubmissionUnchanged

SubmitReserve ==
    /\ manual.at = "reserve"
    /\ \/ /\ CapLeft
          /\ \E t \in Tickets :
                Reserved(t) /\ manual' = [manual EXCEPT !.at = "queue", !.ticket = t]
       \/ ~CapLeft /\ manual' = NoSubmission /\ UNCHANGED admissions
    /\ UNCHANGED <<pending, running, used, excused, events>>
    /\ SubmissionUnchanged

\* Nobody looks whether the pull request moved on since it was read.
SubmitQueue ==
    /\ manual.at = "queue"
    /\ \/ /\ Enqueued(manual.pull, [trigger |-> "manual", head |-> manual.head])
          /\ used' = used \cup ({manual.ticket} \ {NoTicket})
          /\ manual' = NoSubmission
          /\ excused' = excused \cup {p \in {manual.pull} : github[p].head # manual.head}
          /\ UNCHANGED events
       \/ /\ Event
          /\ manual' = [manual EXCEPT !.at = "release"]
          /\ Refused(manual.pull, manual.head)
          /\ UNCHANGED used
    /\ UNCHANGED admissions
    /\ SubmissionUnchanged

SubmitRelease ==
    /\ manual.at = "release"
    /\ Release(manual.ticket)
    /\ manual' = NoSubmission
    /\ UNCHANGED <<pending, running, used, excused, events>>
    /\ SubmissionUnchanged

-------------------------------------------------------------------------------
(* The poll.                                                               *)

PollUnchanged ==
    UNCHANGED <<github, checkouts, manual, closing, reviewed>>

\* The next item, with its copy and the token of its lookup; none is left: prune.
NextItem(due) ==
    IF due = {} THEN {[NoPoll EXCEPT !.at = "prune"]}
    ELSE {[NoPoll EXCEPT !.at = "token", !.due = due \ {d}, !.pull = d[1], !.item = d[2]] :
             d \in due}

\* The tracked entries that are due: all, the rounds being as far apart as next_poll.
PollBegin ==
    /\ poll.at = "idle"
    /\ poll' \in NextItem({<<p, tracked[p]>> : p \in Tracking})
    /\ UNCHANGED <<tracked, admissions, limited, pending, running, used, excused, events>>
    /\ PollUnchanged

PollToken ==
    /\ poll.at = "token"
    /\ poll' = [poll EXCEPT !.at = "repo", !.token = TRUE]
    /\ UNCHANGED <<tracked, admissions, limited, pending, running, used, excused, events>>
    /\ PollUnchanged

\* A read that fails: the local rate limit, GitHub's (which sets it), or another
\* fault.  `wait' is Failure.retry_after.
ReadFails ==
    \/ /\ limited
       /\ poll' = [poll EXCEPT !.at = "failed", !.wait = TRUE]
       /\ UNCHANGED <<limited, events>>
    \/ /\ ~limited /\ Event
       /\ \E wait \in BOOLEAN :
             /\ limited' = wait
             /\ poll' = [poll EXCEPT !.at = "failed", !.wait = wait]

ReadRepo ==
    /\ poll.at = "repo"
    /\ \/ ReadFails
       \/ /\ ~limited
          /\ poll' = [poll EXCEPT
                !.at = IF github[poll.pull].state = "hidden" THEN "stop" ELSE "read"]
          /\ UNCHANGED <<limited, events>>
    /\ UNCHANGED <<tracked, admissions, pending, running, used, excused>>
    /\ PollUnchanged

\* The pull request: its state now.  An answer "not modified" to the entry's ETag,
\* which is recorded with its head, says what a body with that head says.
ReadPull ==
    LET g == github[poll.pull]
    IN  /\ poll.at = "read"
        /\ \/ ReadFails
           \/ /\ ~limited
              /\ poll' = [poll EXCEPT !.head = g.head,
                    !.at = IF g.state # "open" THEN "stop"
                           ELSE IF poll.item.head = g.head THEN "record" ELSE "check"]
              /\ UNCHANGED <<limited, events>>
        /\ UNCHANGED <<tracked, admissions, pending, running, used, excused>>
        /\ PollUnchanged

\* Mutant of StillSelected: the entry is not looked at again.
SelectedOnce(p) == TRUE

\* The entry is still tracked and nobody recorded another head.
StillSelected(p) ==
    tracked[p].status = "tracking" /\ tracked[p].head = poll.item.head

PollCheck ==
    /\ poll.at = "check"
    /\ IF StillSelected(poll.pull) THEN poll' = [poll EXCEPT !.at = "reserve"]
                                   ELSE poll' \in NextItem(poll.due)
    /\ UNCHANGED <<tracked, admissions, limited, pending, running, used, excused, events>>
    /\ PollUnchanged

PollReserve ==
    /\ poll.at = "reserve"
    /\ \/ /\ CapLeft
          /\ \E t \in Tickets :
                Reserved(t) /\ poll' = [poll EXCEPT !.at = "queue", !.ticket = t]
       \/ /\ ~CapLeft
          /\ poll' = [poll EXCEPT !.at = "failed", !.wait = TRUE]
          /\ UNCHANGED admissions
    /\ UNCHANGED <<tracked, limited, pending, running, used, excused, events>>
    /\ PollUnchanged

PollQueue ==
    /\ poll.at = "queue"
    /\ \/ /\ poll.token
          /\ Enqueued(poll.pull, [trigger |-> "tracking", head |-> poll.head])
          /\ used' = used \cup ({poll.ticket} \ {NoTicket})
          /\ poll' = [poll EXCEPT !.at = "record", !.ticket = NoTicket]
          /\ UNCHANGED <<excused, events>>
       \/ /\ \/ ~poll.token /\ UNCHANGED <<pending, running, excused, events>>
             \/ poll.token /\ Event /\ Refused(poll.pull, poll.head)
          /\ poll' = [poll EXCEPT !.at = "release"]
          /\ UNCHANGED used
    /\ UNCHANGED <<tracked, admissions, limited>>
    /\ PollUnchanged

\* Mutant of AfterRefusal: the refusal is not passed on.
RefusalIgnored == "record"

\* enqueue(...).await?: a refused review is an error of the poll.
AfterRefusal == "failed"

PollRelease ==
    /\ poll.at = "release"
    /\ Release(poll.ticket)
    /\ poll' = [poll EXCEPT !.at = AfterRefusal, !.ticket = NoTicket]
    /\ UNCHANGED <<tracked, limited, pending, running, used, excused, events>>
    /\ PollUnchanged

\* The new head, once its review is queued.
PollRecord ==
    LET p == poll.pull
    IN  /\ poll.at = "record"
        /\ tracked' = IF tracked[p].status # "tracking" THEN tracked
                      ELSE [tracked EXCEPT ![p].head = poll.head]
        /\ poll' \in NextItem(poll.due)
        /\ UNCHANGED <<admissions, limited, pending, running, used, excused, events>>
        /\ PollUnchanged

\* poll, after an error: a limit ends this round.
PollFailed ==
    /\ poll.at = "failed"
    /\ poll' \in NextItem(IF poll.wait THEN {} ELSE poll.due)
    /\ UNCHANGED <<tracked, admissions, limited, pending, running, used, excused, events>>
    /\ PollUnchanged

\* stop marks the entry ...
PollStop ==
    /\ poll.at = "stop"
    /\ tracked' = [tracked EXCEPT ![poll.pull].status = "stopped"]
    /\ excused' = excused \cup {poll.pull}
    /\ poll' = [poll EXCEPT !.at = "close"]
    /\ UNCHANGED <<admissions, limited, pending, running, used, events>>
    /\ PollUnchanged

\* ... and closes the key in the queue.
PollClose ==
    /\ poll.at = "close"
    /\ CloseQueue(poll.pull)
    /\ poll' \in NextItem(poll.due)
    /\ UNCHANGED <<tracked, admissions, limited, used, excused, events>>
    /\ PollUnchanged

\* prune keeps the checkouts of what waits, runs or is tracked.
Kept(p) == pending[p] # NoJob \/ Runs(p) \/ p \in Tracking

\* Whole repositories none of whose pull requests are kept, then single checkouts,
\* each when it is old or over the limit (any, here).
Prune ==
    /\ poll.at = "prune"
    /\ \E old \in SUBSET {p \in Pulls : ~Kept(p)} :
       \E repos \in SUBSET {p[1] : p \in old} :
          /\ \A p \in Pulls : p[1] \in repos => ~Kept(p)
          /\ checkouts' = {p \in checkouts \ old : p[1] \notin repos}
    /\ poll' = NoPoll
    /\ UNCHANGED <<github, tracked, admissions, limited, pending, running, manual,
                   closing, used, reviewed, excused, events>>

-------------------------------------------------------------------------------
\* The process ends and starts again: the store and the checkouts are on disk, the
\* queue and everything under way are not.
Crash ==
    /\ Event
    /\ pending' = [p \in Pulls |-> NoJob]
    /\ running' = [p \in Pulls |-> NotRun]
    /\ poll' = NoPoll
    /\ manual' = NoSubmission
    /\ closing' = {}
    /\ checkouts' = {}
    /\ used' = admissions
    /\ excused' = excused \cup {p \in Pulls : pending[p] # NoJob \/ Runs(p)}
    /\ UNCHANGED <<github, tracked, admissions, limited, reviewed>>

PollStep ==
    \/ PollBegin \/ PollToken \/ ReadRepo \/ ReadPull \/ PollCheck \/ PollReserve
    \/ PollQueue \/ PollRelease \/ PollRecord \/ PollFailed \/ PollStop \/ PollClose
    \/ Prune
ManualStep == SubmitReserve \/ SubmitQueue \/ SubmitRelease
Worker(p)  == Start(p) \/ Finish(p)

Next ==
    \/ \E p \in Pulls :
          \/ Push(p) \/ Appear(p)
          \/ Track(p) \/ Untrack(p) \/ UntrackClose(p) \/ Submit(p)
          \/ Worker(p)
    \/ \E t \in Tickets : Expire(t)
    \/ LimitPasses
    \/ ManualStep
    \/ PollStep
    \/ Crash

\* The reconcile cadence polls again and again; handlers and workers run to their
\* end; the clock advances.
Fairness ==
    /\ WF_vars(PollStep)
    /\ WF_vars(ManualStep)
    /\ WF_vars(LimitPasses)
    /\ \A t \in Tickets : WF_vars(Expire(t))
    /\ \A p \in Pulls : WF_vars(UntrackClose(p)) /\ WF_vars(Worker(p))

Spec == Init /\ [][Next]_vars /\ Fairness

-------------------------------------------------------------------------------
(* What the external reviews promise.                                      *)

InFlight == {poll.ticket, manual.ticket} \ {NoTicket}

\* The hourly cap holds however polls and submissions interleave, every reservation
\* belongs to a queued job or to an operation under way, and a refused operation
\* gives its own back (external.rs enqueue).
ReservationsMatch ==
    /\ Cardinality(admissions) <= PerHour
    /\ used \subseteq admissions
    /\ admissions = used \cup InFlight

\* Once a pull request is untracked and its key closed, no review tracking asked for
\* waits, and one that runs was told to stop, although a poll may have been anywhere
\* in its work on it (external.rs untrack, poll_one; queue.rs close, admits).
UntrackedStaysQuiet ==
    \A p \in Pulls :
        /\ tracked[p].status = "stopped"
        /\ p \notin closing
        /\ ~(poll.at = "close" /\ poll.pull = p)
        => /\ pending[p].trigger # "tracking"
           /\ running[p].job.trigger = "tracking" => running[p].told

\* No prune takes the checkout of a review away (external.rs prune).
CheckoutIsKept == \A p \in Pulls : Runs(p) => p \in checkouts

\* The head of a tracked pull request is reviewed, through rate limits, the hourly
\* cap, refusals, failed reads and answers without a body, unless it moves on or is
\* called off (external.rs poll).
TrackedHeadsAreReviewed ==
    \A p \in Pulls, h \in Heads :
        tracked[p].status = "tracking" /\ github[p].head = h
            ~> h \in reviewed[p] \/ github[p].head # h \/ p \in excused
=============================================================================
