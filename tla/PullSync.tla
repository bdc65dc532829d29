------------------------------- MODULE PullSync -------------------------------
(***************************************************************************)
(* How `revera serve' keeps up with the pull requests of one installed     *)
(* repository in auto mode: webhooks, the reconciliation that lists open   *)
(* pull requests, and the lookups that a rerun, a mention or the dashboard *)
(* starts.  All three read GitHub at one time and change the queue at a    *)
(* later one; the cache of pull requests, the observations, the admission  *)
(* tokens and the checkpoint decide which of them may still do so.         *)
(*                                                                         *)
(* GitHub is the variable `pr': what a pull request really is, with a      *)
(* version the code does not see and an `updated_at' it does, in seconds,  *)
(* so that two versions may share it.  The queue is the one of ReviewQueue *)
(* reduced to pending and running jobs of one lane; removal of the         *)
(* repository is modelled there.                                           *)
(***************************************************************************)
EXTENDS QueueOps

CONSTANTS
    Numbers,        \* pull requests
    Heads, Bases,   \* commits and base branches
    Setups,         \* {TRUE}: configured; FALSE in it: setup may still be incomplete
    Faults,         \* what GitHub and the environment may do
    MaxVersion,     \* bound: versions of a pull request, the first included
    MaxLookups,     \* bound: lookups
    MaxCancels,     \* bound: cancellations from the dashboard
    MaxFaults       \* bound: lost webhooks, failed requests and crashes

\* lost: a webhook never arrives.  reordered: a later webhook is delivered
\* first.  overlapping: one is delivered while another is still handled.
\* outage: a request or a run fails.  crash: the process starts again.
FaultKinds == {"lost", "reordered", "overlapping", "outage", "crash"}

ASSUME NumbersAssumption == Numbers \subseteq Nat \ {0}
\* No commit has an empty name, which stands for a pull request that was never seen.
ASSUME HeadsAssumption   == "" \notin Heads
ASSUME SetupsAssumption  == Setups \subseteq BOOLEAN /\ Setups # {}
ASSUME FaultsAssumption  == Faults \subseteq FaultKinds
ASSUME BoundsAssumption  ==
    /\ MaxVersion \in Nat \ {0} /\ MaxLookups \in Nat
    /\ MaxCancels \in Nat /\ MaxFaults \in Nat

VARIABLES
    pr,          \* GitHub: the pull requests
    hooks,       \* webhooks sent and not yet handled to the end
    cache,       \* pulls::Cache.repos: the open pull requests, as last heard of
    listed,      \* whether the cache has an entry for the repository
    changes,     \* pulls::Cache.changes since the listing read its generation
    listing,     \* the reconciliation: its phase, what it read, the pulls
                 \* observed since its admission, the jobs it is about to enqueue
    lookup,      \* a lookup in flight, and whether its token is current
    pending,     \* Queue.pending
    running,     \* Queue.running, with the cancel watch
    seen,        \* Seen: heads and base_refs
    initialized, \* SeenRepo.initialized
    configured,  \* whether revera.yaml exists
    skipped,     \* unconfigured_reviews: pulls whose last job was skipped for setup
    newest,      \* history: the newest version a webhook handler began with
    closed,      \* history: the version of the last close that was handled
    reviewed,    \* history: the content of the last review that was committed
    used         \* lookups, cancellations and faults so far

syncVars  == <<cache, listed, changes>>
queueVars == <<pending, running, skipped>>
historyVars == <<newest, closed, reviewed>>
vars == <<pr, hooks, cache, listed, changes, listing, lookup, pending, running,
          seen, initialized, configured, skipped, newest, closed, reviewed, used>>

-------------------------------------------------------------------------------
(* Data.                                                                   *)

Versions == 1..MaxVersion
Pulls == [open : BOOLEAN, head : Heads, base : Bases,
          version : Versions, at : Versions]

\* `Closed' is a pull request that is not open, and nothing more is kept of it.
Closed  == [open |-> FALSE]
Unheard == [open |-> FALSE, unheard |-> TRUE]
NoJob   == [kind |-> "none"]

Content(pull) == [head |-> pull.head, base |-> pull.base]
Contents == [head : Heads, base : Bases]
OpenPulls == {p \in Pulls : p.open}

OpenOrClosed(pull) == IF pull.open THEN pull ELSE Closed

\* A review of `pull'; `asked' says that somebody asked for it, which in the
\* code is its trigger and its `force'.
Job(pull, asked) == [kind |-> "review", content |-> Content(pull),
                     version |-> pull.version, asked |-> asked]
Jobs == [kind : {"review"}, content : Contents, version : Versions, asked : BOOLEAN]
Runs == [job : Jobs, cancel : BOOLEAN]
NotRunning == [job |-> NoJob, cancel |-> FALSE]

Hooks == [n : Numbers, kind : {"review", "retarget", "close"}, pull : Pulls,
          stage : {"sent", "observed", "cached", "retargeted"},
          admitted : BOOLEAN, asked : BOOLEAN]

NoListing == [phase |-> "idle", pages |-> [n \in Numbers |-> Unheard],
              touched |-> {}, jobs |-> {}]
NoLookup  == [phase |-> "idle", n |-> 0, admitted |-> FALSE, pull |-> Closed]

TypeOK ==
    /\ pr \in [Numbers -> Pulls]
    /\ hooks \subseteq Hooks
    /\ cache \in [Numbers -> OpenPulls \cup {Closed}]
    /\ listed \in BOOLEAN
    /\ changes \in [Numbers -> OpenPulls \cup {Closed, Unheard}]
    /\ listing \in [phase : {"idle", "begun", "reading", "applied", "observed"},
                    pages : [Numbers -> OpenPulls \cup {Closed, Unheard}],
                    touched : SUBSET Numbers, jobs : SUBSET Numbers]
    /\ lookup \in [phase : {"idle", "asking", "fetched"}, n : Numbers \cup {0},
                   admitted : BOOLEAN, pull : OpenPulls \cup {Closed}]
    /\ pending \in [Numbers -> Jobs \cup {NoJob}]
    /\ running \in [Numbers -> Runs \cup {NotRunning}]
    /\ seen \in [Numbers -> Contents \cup {NoContent}]
    /\ initialized \in BOOLEAN
    /\ configured \in BOOLEAN
    /\ skipped \subseteq Numbers
    /\ newest \in [Numbers -> 0..MaxVersion]
    /\ closed \in [Numbers -> 0..MaxVersion]
    /\ reviewed \in [Numbers -> Contents \cup {NoContent}]
    /\ used \in [lookups : 0..MaxLookups, cancels : 0..MaxCancels, faults : 0..MaxFaults]

\* The server starts with pull requests it has never heard of.
Init ==
    /\ pr \in [Numbers -> [open : {TRUE}, head : Heads, base : Bases,
                           version : {1}, at : {1}]]
    /\ hooks = {}
    /\ cache = [n \in Numbers |-> Closed]
    /\ listed = FALSE
    /\ changes = [n \in Numbers |-> Unheard]
    /\ listing = NoListing
    /\ lookup = NoLookup
    /\ pending = [n \in Numbers |-> NoJob]
    /\ running = [n \in Numbers |-> NotRunning]
    /\ seen = [n \in Numbers |-> NoContent]
    /\ initialized = FALSE
    /\ configured \in Setups
    /\ skipped = {}
    /\ newest = [n \in Numbers |-> 0]
    /\ closed = [n \in Numbers |-> 0]
    /\ reviewed = [n \in Numbers |-> NoContent]
    /\ used = [lookups |-> 0, cancels |-> 0, faults |-> 0]

Fault == used.faults < MaxFaults /\ used' = [used EXCEPT !.faults = @ + 1]

-------------------------------------------------------------------------------
(* GitHub.  Every change sends a webhook with the pull request as it is.   *)

Change(n, kind, pull) ==
    /\ pr[n].version < MaxVersion
    /\ \E at \in {pr[n].at, pr[n].at + 1} :
         LET new == [pull EXCEPT !.version = @ + 1, !.at = at]
         IN  /\ pr' = [pr EXCEPT ![n] = new]
             /\ hooks' = hooks \cup {[n |-> n, kind |-> kind, pull |-> new,
                    stage |-> "sent", admitted |-> FALSE, asked |-> FALSE]}
    /\ UNCHANGED <<syncVars, listing, lookup, queueVars, seen, initialized,
                   configured, historyVars, used>>

Push(n) == \E h \in Heads \ {pr[n].head} :
    pr[n].open /\ Change(n, "review", [pr[n] EXCEPT !.head = h])
EditBase(n) == \E b \in Bases \ {pr[n].base} :
    pr[n].open /\ Change(n, "retarget", [pr[n] EXCEPT !.base = b])
ClosePull(n)  == pr[n].open /\ Change(n, "close", [pr[n] EXCEPT !.open = FALSE])
ReopenPull(n) == ~pr[n].open /\ Change(n, "review", [pr[n] EXCEPT !.open = TRUE])

LoseHook(h) ==
    /\ "lost" \in Faults /\ h.stage = "sent" /\ Fault
    /\ hooks' = hooks \ {h}
    /\ UNCHANGED <<pr, syncVars, listing, lookup, queueVars, seen, initialized,
                   configured, historyVars>>

GitHub == \E n \in Numbers : Push(n) \/ EditBase(n) \/ ClosePull(n) \/ ReopenPull(n)

-------------------------------------------------------------------------------
(* The queue.                                                              *)

Contains(n) == pending[n] # NoJob \/ running[n] # NotRunning

\* Mutant of Dropped: the cancel watch of the running job is not read.
DroppedThoughCancelled(n, new) ==
    running[n] # NotRunning /\ Duplicates(running[n].job, FALSE, new, new.asked)

\* Queue::enqueue keeps the running job and drops the new one.
Dropped(n, new) ==
    running[n] # NotRunning /\ Duplicates(running[n].job, running[n].cancel, new, new.asked)

\* enqueue_checked once nothing forbids it.  Without a configuration the job
\* ends as skipped, and a job that waited is gone as well.
Enqueue(n, new) ==
    IF Dropped(n, new)
    THEN UNCHANGED queueVars
    ELSE /\ pending' = [pending EXCEPT ![n] = IF configured THEN new ELSE NoJob]
         /\ running' = [running EXCEPT ![n].cancel =
                \/ @
                \/ /\ running[n] # NotRunning
                   /\ Supersedes(running[n].job, @, new, new.asked)]
         /\ skipped' = IF configured THEN skipped \ {n} ELSE skipped \cup {n}

\* observe_pull: only a listing in flight has a token for it to matter to.
Observe(n) ==
    listing' = [listing EXCEPT !.touched =
                    IF listing.phase = "idle" THEN @ ELSE @ \cup {n}]

\* Mutant of Revoke: closing leaves the tokens of lookups alone.
RevokeNothing(n) == UNCHANGED lookup

\* The admission token of the pull request is dropped from the queue.
Revoke(n) ==
    lookup' = [lookup EXCEPT !.admitted = @ /\ lookup.n # n]

\* Queue::close, but for the hooks that hold a token.
CloseKey(n) ==
    /\ Observe(n)
    /\ Revoke(n)
    /\ pending' = [pending EXCEPT ![n] = NoJob]
    /\ running' = [running EXCEPT ![n].cancel = running[n] # NotRunning]
    /\ UNCHANGED skipped

Expelled(n, others) ==
    {[h EXCEPT !.admitted = @ /\ h.n # n] : h \in others}

-------------------------------------------------------------------------------
(* Webhooks.  A handler observes the pull request, updates the cache and   *)
(* then changes the queue; other tasks may run in between.                 *)

Earlier(h) == {g \in hooks : g.n = h.n /\ g.pull.version < h.pull.version}

Arrives(h) == \A g \in Earlier(h) :
    \/ g.stage = "sent" /\ "reordered" \in Faults
    \/ g.stage # "sent" /\ "overlapping" \in Faults

MoveHook(h, new) == hooks' = (hooks \ {h}) \cup {new}

HookObserve(h) ==
    /\ h.stage = "sent" /\ Arrives(h)
    /\ MoveHook(h, [h EXCEPT !.stage = "observed"])
    /\ Observe(h.n)
    /\ newest' = [newest EXCEPT ![h.n] = IF @ < h.pull.version THEN h.pull.version ELSE @]
    /\ UNCHANGED <<pr, syncVars, lookup, queueVars, seen, initialized, configured,
                   closed, reviewed, used>>

\* Cache::webhook: what is heard last stays, whatever its version.  A change
\* matters to the listing that has read the generation before it and to no other.
HookCache(h) ==
    /\ h.stage = "observed"
    /\ MoveHook(h, [h EXCEPT !.stage = "cached"])
    /\ changes' = [changes EXCEPT ![h.n] =
                      IF listing.phase = "reading" THEN OpenOrClosed(h.pull) ELSE @]
    /\ cache' = IF listed THEN [cache EXCEPT ![h.n] = OpenOrClosed(h.pull)] ELSE cache
    /\ UNCHANGED <<pr, listed, listing, lookup, queueVars, seen, initialized,
                   configured, historyVars, used>>

HookReview(h) ==
    /\ h.stage = "cached" /\ h.kind = "review"
    /\ hooks' = hooks \ {h}
    /\ Enqueue(h.n, Job(h.pull, FALSE))
    /\ UNCHANGED <<pr, syncVars, listing, lookup, seen, initialized, configured,
                   historyVars, used>>

HookClose(h) ==
    /\ h.stage = "cached" /\ h.kind = "close"
    /\ hooks' = Expelled(h.n, hooks \ {h})
    /\ CloseKey(h.n)
    /\ closed' = [closed EXCEPT ![h.n] = h.pull.version]
    /\ UNCHANGED <<pr, syncVars, seen, initialized, configured, newest, reviewed, used>>

OldBase(n, h) == pending[n] # NoJob /\ pending[n].content.base # h.pull.base
RunsOldBase(n, h) == running[n] # NotRunning /\ running[n].job.content.base # h.pull.base

\* Server::retarget, up to releasing the queue with a token in hand.
Retarget(h) ==
    LET n == h.n
        asked == \/ OldBase(n, h) /\ pending[n].asked
                 \/ RunsOldBase(n, h) /\ ~running[n].cancel /\ running[n].job.asked
    IN  /\ h.stage = "cached" /\ h.kind = "retarget"
        /\ MoveHook(h, [h EXCEPT !.stage = "retargeted", !.admitted = TRUE, !.asked = asked])
        /\ pending' = [pending EXCEPT ![n] = IF OldBase(n, h) THEN NoJob ELSE @]
        /\ running' = [running EXCEPT ![n].cancel = @ \/ RunsOldBase(n, h)]
        /\ UNCHANGED <<pr, syncVars, listing, lookup, skipped, seen, initialized,
                       configured, historyVars, used>>

\* Its end: the review of the new base, unless the pull request was closed.
Replace(h) ==
    /\ h.stage = "retargeted"
    /\ hooks' = hooks \ {h}
    /\ IF h.admitted THEN Enqueue(h.n, Job(h.pull, h.asked)) ELSE UNCHANGED queueVars
    /\ UNCHANGED <<pr, syncVars, listing, lookup, seen, initialized, configured,
                   historyVars, used>>

Handle(h) ==
    HookObserve(h) \/ HookCache(h) \/ HookReview(h) \/ HookClose(h) \/ Retarget(h) \/ Replace(h)

-------------------------------------------------------------------------------
(* Reconciliation: one listing of the open pull requests at a time.        *)

\* The admission of the repository; what is observed from here on counts.
ListBegin ==
    /\ listing.phase = "idle"
    /\ listing' = [NoListing EXCEPT !.phase = "begun"]
    /\ UNCHANGED <<pr, hooks, syncVars, lookup, queueVars, seen, initialized,
                   configured, historyVars, used>>

\* Cache::generation: changes made from here on are newer than the listing.
ListAsk ==
    /\ listing.phase = "begun"
    /\ listing' = [listing EXCEPT !.phase = "reading"]
    /\ UNCHANGED <<pr, hooks, syncVars, lookup, queueVars, seen, initialized,
                   configured, historyVars, used>>

\* GitHub answers page by page.
ListRead(n) ==
    /\ listing.phase = "reading" /\ listing.pages[n] = Unheard
    /\ listing' = [listing EXCEPT !.pages[n] = OpenOrClosed(pr[n])]
    /\ UNCHANGED <<pr, hooks, syncVars, lookup, queueVars, seen, initialized,
                   configured, historyVars, used>>

\* Mutant of Merged: on equal times the listing wins.
MergedOnTies(n) ==
    LET read  == listing.pages[n]
        known == IF read.open /\ cache[n].open /\ cache[n].at > read.at THEN cache[n] ELSE read
    IN  IF changes[n] = Unheard \/ (changes[n].open /\ known.open /\ changes[n].at <= known.at)
        THEN known ELSE changes[n]

\* listing_since, for one pull request.
Merged(n) ==
    LET read  == listing.pages[n]
        known == IF read.open /\ cache[n].open /\ cache[n].at > read.at THEN cache[n] ELSE read
    IN  IF changes[n] = Unheard \/ (changes[n].open /\ known.open /\ changes[n].at < known.at)
        THEN known ELSE changes[n]

ListApply ==
    /\ listing.phase = "reading"
    /\ \A n \in Numbers : listing.pages[n] # Unheard
    /\ listing' = [listing EXCEPT !.phase = "applied"]
    /\ cache' = [n \in Numbers |-> Merged(n)]
    /\ listed' = TRUE
    /\ changes' = [n \in Numbers |-> Unheard]
    /\ UNCHANGED <<pr, hooks, lookup, queueVars, seen, initialized,
                   configured, historyVars, used>>

\* Queue::admits, for a pull request of the listing.
Admitted == {n \in Numbers : listing.pages[n].open /\ n \notin listing.touched}

\* The first listing records heads without reviewing them, but keeps what a
\* review has committed and leaves out what setup made the server skip.
Baseline(n) ==
    IF ~initialized /\ seen[n] = NoContent /\ n \in Admitted \ skipped
    THEN Content(listing.pages[n]) ELSE seen[n]

\* Mutant of ListObserve: pull requests skipped for setup are not retried.
ListObserveForgets ==
    /\ listing.phase = "applied"
    /\ seen' = [n \in Numbers |-> Baseline(n)]
    /\ initialized' = TRUE
    /\ listing' = [listing EXCEPT !.phase = "observed",
           !.jobs = {n \in Admitted \ skipped : seen'[n] # Content(listing.pages[n])}]
    /\ UNCHANGED <<pr, hooks, syncVars, lookup, queueVars, configured, historyVars, used>>

\* observe_with_preferences, and the checkpoint it saves.
ListObserve ==
    /\ listing.phase = "applied"
    /\ seen' = [n \in Numbers |-> Baseline(n)]
    /\ initialized' = TRUE
    /\ listing' = [listing EXCEPT !.phase = "observed",
           !.jobs = {n \in Admitted : n \in skipped \/ seen'[n] # Content(listing.pages[n])}]
    /\ UNCHANGED <<pr, hooks, syncVars, lookup, queueVars, configured, historyVars, used>>

Current(n) == listed /\ cache[n].open /\ Content(cache[n]) = Content(listing.pages[n])

\* Mutants of Admissible: without the observations, and without the checkpoint.
AdmissibleThoughObserved(n) ==
    /\ ~Contains(n)
    /\ n \in skipped \/ seen[n] # Content(listing.pages[n])
AdmissibleAgain(n) == n \notin listing.touched /\ ~Contains(n) /\ Current(n)

\* What enqueue_reconcile still asks of a candidate, under the queue lock.
Admissible(n) ==
    /\ n \notin listing.touched
    /\ ~Contains(n)
    /\ Current(n)
    /\ n \in skipped \/ seen[n] # Content(listing.pages[n])

ListEnqueue(n) ==
    /\ listing.phase = "observed" /\ n \in listing.jobs
    /\ listing' = [listing EXCEPT !.jobs = @ \ {n}]
    /\ IF Admissible(n) THEN Enqueue(n, Job(listing.pages[n], FALSE)) ELSE UNCHANGED queueVars
    /\ UNCHANGED <<pr, hooks, syncVars, lookup, seen, initialized, configured,
                   historyVars, used>>

ListEnd ==
    /\ listing.phase = "observed" /\ listing.jobs = {}
    /\ listing' = NoListing
    /\ UNCHANGED <<pr, hooks, syncVars, lookup, queueVars, seen, initialized,
                   configured, historyVars, used>>

\* A page cannot be had; the pass ends and the cache stays as it was.
ListFails ==
    /\ "outage" \in Faults /\ listing.phase = "reading" /\ Fault
    /\ listing' = NoListing
    /\ changes' = [n \in Numbers |-> Unheard]
    /\ UNCHANGED <<pr, hooks, cache, listed, lookup, queueVars, seen, initialized,
                   configured, historyVars>>

Reconcile ==
    \/ ListBegin \/ ListAsk \/ ListApply \/ ListObserve \/ ListEnd
    \/ \E n \in Numbers : ListRead(n) \/ ListEnqueue(n)

-------------------------------------------------------------------------------
(* Lookups: check reruns, mentions and dashboard requests fetch the pull   *)
(* request themselves, with a token taken before.                          *)

LookupBegin(n) ==
    /\ lookup.phase = "idle" /\ used.lookups < MaxLookups
    /\ used' = [used EXCEPT !.lookups = @ + 1]
    /\ lookup' = [phase |-> "asking", n |-> n, admitted |-> TRUE, pull |-> Closed]
    /\ UNCHANGED <<pr, hooks, syncVars, listing, queueVars, seen, initialized,
                   configured, historyVars>>

\* A pull request that is closed by now ends it.
LookupFetch ==
    /\ lookup.phase = "asking"
    /\ lookup' = IF pr[lookup.n].open
                 THEN [lookup EXCEPT !.phase = "fetched", !.pull = pr[lookup.n]]
                 ELSE NoLookup
    /\ UNCHANGED <<pr, hooks, syncVars, listing, queueVars, seen, initialized,
                   configured, historyVars, used>>

\* The token is checked under the lock that applies a close.
LookupEnqueue ==
    /\ lookup.phase = "fetched"
    /\ lookup' = NoLookup
    /\ IF lookup.admitted THEN Enqueue(lookup.n, Job(lookup.pull, TRUE)) ELSE UNCHANGED queueVars
    /\ UNCHANGED <<pr, hooks, syncVars, listing, seen, initialized, configured,
                   historyVars, used>>

LookupFails ==
    /\ "outage" \in Faults /\ lookup.phase = "asking" /\ Fault
    /\ lookup' = NoLookup
    /\ UNCHANGED <<pr, hooks, syncVars, listing, queueVars, seen, initialized,
                   configured, historyVars>>

\* The dashboard cancels the jobs of a pull request: the same close, no event.
Cancel(n) ==
    /\ used.cancels < MaxCancels /\ Contains(n)
    /\ used' = [used EXCEPT !.cancels = @ + 1]
    /\ hooks' = Expelled(n, hooks)
    /\ CloseKey(n)
    /\ UNCHANGED <<pr, syncVars, seen, initialized, configured, historyVars>>

-------------------------------------------------------------------------------
(* Runs, one at a time, the smallest number first; setup; restart.         *)

RunStart(n) ==
    /\ pending[n] # NoJob
    /\ \A m \in Numbers : running[m] = NotRunning /\ (m < n => pending[m] = NoJob)
    /\ pending' = [pending EXCEPT ![n] = NoJob]
    /\ running' = [running EXCEPT ![n] = [job |-> pending[n], cancel |-> FALSE]]
    /\ UNCHANGED <<pr, hooks, syncVars, listing, lookup, skipped, seen, initialized,
                   configured, historyVars, used>>

\* The commit under the queue lock: a review that was not cancelled is seen,
\* whatever it reported.
RunEnd(n) ==
    /\ running[n] # NotRunning
    /\ running' = [running EXCEPT ![n] = NotRunning]
    /\ IF running[n].cancel
       THEN UNCHANGED <<seen, reviewed>>
       ELSE /\ seen' = [seen EXCEPT ![n] = running[n].job.content]
            /\ reviewed' = [reviewed EXCEPT ![n] = running[n].job.content]
    /\ UNCHANGED <<pr, hooks, syncVars, listing, lookup, pending, skipped, initialized,
                   configured, newest, closed, used>>

\* The server itself could not run it: nothing is seen.
RunFails(n) ==
    /\ "outage" \in Faults /\ running[n] # NotRunning /\ Fault
    /\ running' = [running EXCEPT ![n] = NotRunning]
    /\ UNCHANGED <<pr, hooks, syncVars, listing, lookup, pending, skipped, seen, initialized,
                   configured, historyVars>>

Configure ==
    /\ ~configured
    /\ configured' = TRUE
    /\ UNCHANGED <<pr, hooks, syncVars, listing, lookup, queueVars, seen, initialized,
                   historyVars, used>>

\* Only the checkpoint and the summaries are on disk.  GitHub does not send a
\* webhook again that was being handled.
Restart ==
    /\ "crash" \in Faults /\ Fault
    /\ hooks' = {h \in hooks : h.stage = "sent"}
    /\ cache' = [n \in Numbers |-> Closed]
    /\ listed' = FALSE
    /\ changes' = [n \in Numbers |-> Unheard]
    /\ listing' = NoListing
    /\ lookup' = NoLookup
    /\ pending' = [n \in Numbers |-> NoJob]
    /\ running' = [n \in Numbers |-> NotRunning]
    /\ UNCHANGED <<pr, skipped, seen, initialized, configured, historyVars>>

Lookup  == (\E n \in Numbers : LookupBegin(n)) \/ LookupFetch \/ LookupEnqueue
Run     == \E n \in Numbers : RunStart(n) \/ RunEnd(n)
Trouble == \/ \E h \in hooks : LoseHook(h)
           \/ ListFails \/ LookupFails \/ (\E n \in Numbers : RunFails(n)) \/ Restart

Next ==
    \/ GitHub
    \/ \E h \in hooks : Handle(h)
    \/ Reconcile
    \/ Lookup
    \/ \E n \in Numbers : Cancel(n)
    \/ Run
    \/ Configure
    \/ Trouble

Spec == Init /\ [][Next]_vars

\* A handler, the reconciliation loop and a run go on once they can.  Nobody
\* has to push, ask, cancel or complete the setup, and nothing has to fail.
Fairness ==
    /\ WF_vars(\E h \in hooks : Handle(h))
    /\ WF_vars(Reconcile)
    /\ WF_vars(LookupFetch \/ LookupEnqueue)
    /\ WF_vars(Run)

FairSpec == Spec /\ Fairness

-------------------------------------------------------------------------------
(* Properties.                                                             *)

\* A listing that was read before a webhook never takes the cache back behind
\* what that webhook said: an entry it leaves is at least as new as the newest
\* entry before, and a pull request the webhook closed does not come back.
ListingKeepsWebhookData ==
    [][ListApply => \A n \in Numbers : cache'[n].open =>
           /\ cache[n].open => cache'[n].version >= cache[n].version
           /\ changes[n] # Unheard => changes[n].open]_vars

\* The background check never puts a version into the queue that is older than
\* one a webhook handler has begun with, so it never replaces newer work.
BackgroundIsNewest ==
    [][\A n \in Numbers : ListEnqueue(n) /\ pending'[n] # pending[n] /\ pending'[n] # NoJob
           => pending'[n].version >= newest[n]]_vars

\* The background check never repeats a review that was committed after it had
\* chosen its candidates.
FinishedIsNotRepeated ==
    [][\A n \in Numbers : ListEnqueue(n) /\ pending'[n] # pending[n] /\ n \notin skipped
           => pending'[n].content # reviewed[n]]_vars

\* While webhooks arrive once and in order, nobody has asked or cancelled and
\* nothing has failed, the newest content the server has heard of is reviewed,
\* running or waiting, whatever the reconciliation does meanwhile.
NewestIsHeld ==
    \A n \in Numbers :
        (/\ used = [lookups |-> 0, cancels |-> 0, faults |-> 0]
         /\ pr[n].open /\ configured
         /\ newest[n] = pr[n].version /\ {h \in hooks : h.n = n} = {})
        => \/ reviewed[n] = Content(pr[n])
           \/ pending[n] # NoJob /\ pending[n].content = Content(pr[n])
           \/ /\ running[n] # NotRunning /\ ~running[n].cancel
              /\ running[n].job.content = Content(pr[n])
           \/ n \in skipped

\* A pull request that was closed stays closed: no review of a version from
\* before the last close is waiting, or running without being told to stop.
ClosedStaysClosed ==
    \A n \in Numbers :
        /\ pending[n] # NoJob => pending[n].version > closed[n]
        /\ running[n] # NotRunning /\ ~running[n].cancel => running[n].job.version > closed[n]

\* Once changes and failures end, every open pull request gets to be seen with
\* its content, and none stays skipped for a setup that is complete: what was
\* lost, late or out of order is recovered by the reconciliation.
EventuallyCaughtUp ==
    <>[](\A n \in Numbers : configured /\ pr[n].open
            => seen[n] = Content(pr[n]) /\ n \notin skipped)
=============================================================================
