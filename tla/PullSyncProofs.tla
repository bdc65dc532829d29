---------------------------- MODULE PullSyncProofs ----------------------------
(***************************************************************************)
(* How the server keeps up with a repository, for all pull requests,       *)
(* commits, bounds and faults: what a listing may do to the cache and to   *)
(* the queue whatever goes wrong; and, while webhooks are handled one at a *)
(* time and in order, what becomes of the newest version and of a close.   *)
(***************************************************************************)
EXTENDS PullSync, TLAPS

-------------------------------------------------------------------------------
(* Data.                                                                   *)

Places == {"idle", "begun", "reading", "applied", "observed"}
Pages  == [Numbers -> OpenPulls \cup {Closed, Unheard}]
Listings == [phase : Places, pages : Pages, touched : SUBSET Numbers, jobs : SUBSET Numbers]
Lookups  == [phase : {"idle", "asking", "fetched"}, n : Numbers \cup {0},
             admitted : BOOLEAN, pull : OpenPulls \cup {Closed}]

\* The run of n goes on and nobody has told it to stop.
Alive(n) == running[n] # NotRunning /\ ~running[n].cancel

\* Records that stand for nothing are none of the data.
LEMMA NothingIsApart ==
    /\ NoJob \notin Jobs
    /\ NotRunning \notin Runs /\ NotRunning.job = NoJob /\ NotRunning.cancel = FALSE
    /\ ~Closed.open /\ ~Unheard.open /\ Closed # Unheard
    /\ \A p \in OpenPulls : p.open /\ p \in Pulls /\ p # Closed /\ p # Unheard
<1>1. NoJob \notin Jobs
  BY DEF NoJob, Jobs
<1>2. NotRunning \notin Runs /\ NotRunning.job = NoJob /\ NotRunning.cancel = FALSE
  BY <1>1 DEF NotRunning, Runs
<1>3. ~Closed.open /\ ~Unheard.open
  BY DEF Closed, Unheard
<1>4. Closed # Unheard
  <2>1. DOMAIN Closed = {"open"} /\ DOMAIN Unheard = {"open", "unheard"}
    BY DEF Closed, Unheard
  <2> QED  BY <2>1
<1>5. \A p \in OpenPulls : p.open /\ p \in Pulls /\ p # Closed /\ p # Unheard
  BY <1>3 DEF OpenPulls
<1> QED  BY <1>1, <1>2, <1>3, <1>4, <1>5

\* What is kept of a pull request is the pull request, if it is open.
LEMMA OpenOrClosedIs ==
    ASSUME NEW p \in Pulls
    PROVE  /\ OpenOrClosed(p) \in OpenPulls \cup {Closed}
           /\ OpenOrClosed(p).open => OpenOrClosed(p) = p
           /\ p.open => OpenOrClosed(p) = p /\ p \in OpenPulls
           /\ OpenOrClosed(p).open = p.open
<1>1. p.open \in BOOLEAN
  BY DEF Pulls
<1>2. CASE p.open
  BY <1>2 DEF OpenOrClosed, OpenPulls
<1>3. CASE ~p.open
  <2>1. OpenOrClosed(p) = Closed
    BY <1>3 DEF OpenOrClosed
  <2>2. Closed.open = FALSE /\ p.open = FALSE
    BY <1>1, <1>3 DEF Closed
  <2> QED  BY <2>1, <2>2
<1> QED  BY <1>1, <1>2, <1>3

\* The job of a pull request.
LEMMA JobIs ==
    ASSUME NEW p \in Pulls, NEW asked \in BOOLEAN
    PROVE  /\ Job(p, asked) \in Jobs /\ Job(p, asked) # NoJob
           /\ Job(p, asked).content = Content(p) /\ Job(p, asked).version = p.version
           /\ Job(p, asked).kind = "review" /\ Job(p, asked).asked = asked
           /\ Content(p) \in Contents
<1>1. Content(p) \in Contents
  BY DEF Content, Contents, Pulls
<1>2. Job(p, asked) \in Jobs
  BY <1>1 DEF Job, Jobs, Pulls
<1> QED  BY <1>1, <1>2, NothingIsApart DEF Job

\* The first listing, and no listing at all.
LEMMA NoListingIs ==
    /\ NoListing \in Listings /\ NoListing.phase = "idle"
    /\ NoListing.touched = {} /\ NoListing.jobs = {}
    /\ \A n \in Numbers : NoListing.pages[n] = Unheard
    /\ NoLookup \in Lookups /\ NoLookup.phase = "idle" /\ NoLookup.pull = Closed
    /\ NoLookup.n = 0 /\ ~NoLookup.admitted
BY DEF NoListing, Listings, Places, Pages, NoLookup, Lookups

\* A webhook that moves on is a webhook about the same.
Like(g, h) == g.n = h.n /\ g.kind = h.kind /\ g.pull = h.pull

LEMMA MovedHook ==
    ASSUME NEW h \in Hooks, NEW s \in {"sent", "observed", "cached", "retargeted"},
           NEW admitted \in BOOLEAN, NEW asked \in BOOLEAN
    PROVE  /\ [h EXCEPT !.stage = s] \in Hooks
           /\ Like([h EXCEPT !.stage = s], h)
           /\ [h EXCEPT !.stage = s].stage = s
           /\ [h EXCEPT !.stage = s].admitted = h.admitted
           /\ [h EXCEPT !.admitted = admitted] \in Hooks
           /\ Like([h EXCEPT !.admitted = admitted], h)
           /\ [h EXCEPT !.admitted = admitted].stage = h.stage
           /\ [h EXCEPT !.admitted = admitted].admitted = admitted
           /\ [h EXCEPT !.stage = s, !.admitted = admitted, !.asked = asked] \in Hooks
           /\ Like([h EXCEPT !.stage = s, !.admitted = admitted, !.asked = asked], h)
           /\ [h EXCEPT !.stage = s, !.admitted = admitted, !.asked = asked].stage = s
           /\ [h EXCEPT !.stage = s, !.admitted = admitted, !.asked = asked].admitted = admitted
<1>1. /\ [h EXCEPT !.stage = s] \in Hooks
      /\ Like([h EXCEPT !.stage = s], h)
      /\ [h EXCEPT !.stage = s].stage = s
      /\ [h EXCEPT !.stage = s].admitted = h.admitted
  BY DEF Hooks, Like
<1>2. /\ [h EXCEPT !.admitted = admitted] \in Hooks
      /\ Like([h EXCEPT !.admitted = admitted], h)
      /\ [h EXCEPT !.admitted = admitted].stage = h.stage
      /\ [h EXCEPT !.admitted = admitted].admitted = admitted
  BY DEF Hooks, Like
<1>3. /\ [h EXCEPT !.stage = s, !.admitted = admitted, !.asked = asked] \in Hooks
      /\ Like([h EXCEPT !.stage = s, !.admitted = admitted, !.asked = asked], h)
      /\ [h EXCEPT !.stage = s, !.admitted = admitted, !.asked = asked].stage = s
      /\ [h EXCEPT !.stage = s, !.admitted = admitted, !.asked = asked].admitted = admitted
  BY DEF Hooks, Like
<1> QED  BY <1>1, <1>2, <1>3

\* Webhooks that lose their tokens are webhooks about the same, at the same stage.
LEMMA ExpelledIs ==
    ASSUME NEW n, NEW others, others \subseteq Hooks
    PROVE  /\ Expelled(n, others) \subseteq Hooks
           /\ \A g \in Expelled(n, others) : \E h \in others :
                 /\ Like(g, h) /\ g.stage = h.stage
                 /\ g.admitted = (h.admitted /\ h.n # n)
                 /\ g = [h EXCEPT !.admitted = @ /\ h.n # n]
<1> SUFFICES ASSUME NEW h \in others
             PROVE  LET g == [h EXCEPT !.admitted = @ /\ h.n # n]
                    IN  g \in Hooks /\ Like(g, h) /\ g.stage = h.stage
                        /\ g.admitted = (h.admitted /\ h.n # n)
  BY DEF Expelled
<1> DEFINE b == h.admitted /\ h.n # n
<1>1. h \in Hooks /\ b \in BOOLEAN
  BY DEF Hooks
<1> HIDE DEF b
<1>2. LET g == [h EXCEPT !.admitted = b]
      IN  g \in Hooks /\ Like(g, h) /\ g.stage = h.stage /\ g.admitted = b
  BY <1>1 DEF Hooks, Like
<1> QED  BY <1>2 DEF b

-------------------------------------------------------------------------------
(* The queue.                                                              *)

GitHubTypes ==
    /\ pr \in [Numbers -> Pulls]
    /\ hooks \subseteq Hooks
    /\ cache \in [Numbers -> OpenPulls \cup {Closed}]
    /\ listed \in BOOLEAN
    /\ changes \in [Numbers -> OpenPulls \cup {Closed, Unheard}]
    /\ listing \in Listings
    /\ lookup \in Lookups

QueueTypes ==
    /\ pending \in [Numbers -> Jobs \cup {NoJob}]
    /\ running \in [Numbers -> Runs \cup {NotRunning}]
    /\ skipped \subseteq Numbers

SeenTypes ==
    /\ seen \in [Numbers -> Contents \cup {NoContent}]
    /\ initialized \in BOOLEAN
    /\ configured \in BOOLEAN
    /\ newest \in [Numbers -> 0..MaxVersion]
    /\ closed \in [Numbers -> 0..MaxVersion]
    /\ reviewed \in [Numbers -> Contents \cup {NoContent}]
    /\ used \in [lookups : 0..MaxLookups, cancels : 0..MaxCancels, faults : 0..MaxFaults]

LEMMA TypesTogether == TypeOK <=> GitHubTypes /\ QueueTypes /\ SeenTypes
BY DEF TypeOK, GitHubTypes, QueueTypes, SeenTypes, Listings, Lookups, Pages, Places

\* A run that may be told to stop.
LEMMA Cancelling ==
    ASSUME running \in [Numbers -> Runs \cup {NotRunning}], NEW n \in Numbers,
           NEW b \in BOOLEAN, running[n] = NotRunning => ~b,
           running' = [running EXCEPT ![n].cancel = b]
    PROVE  /\ running' \in [Numbers -> Runs \cup {NotRunning}]
           /\ \A m \in Numbers \ {n} : running'[m] = running[m]
           /\ running'[n].job = running[n].job /\ running'[n].cancel = b
           /\ running'[n] = NotRunning <=> running[n] = NotRunning
<1> DEFINE r == [running[n] EXCEPT !.cancel = b]
<1>1. running' = [running EXCEPT ![n] = r]
  OBVIOUS
<1>2. /\ r \in Runs \cup {NotRunning} /\ r.job = running[n].job /\ r.cancel = b
      /\ r = NotRunning <=> running[n] = NotRunning
  <2>1. CASE running[n] = NotRunning
    <3>1. b = FALSE
      BY <2>1
    <3>2. [NotRunning EXCEPT !.cancel = FALSE] = NotRunning
      <4>1. NotRunning = [x \in {"job", "cancel"} |-> NotRunning[x]]
        BY DEF NotRunning
      <4> QED  BY <4>1, NothingIsApart
    <3>3. r = NotRunning
      BY <2>1, <3>1, <3>2
    <3> QED  BY <2>1, <3>1, <3>3, NothingIsApart
  <2>2. CASE running[n] \in Runs
    <3>1. r \in Runs /\ r.job = running[n].job /\ r.cancel = b
      BY <2>2 DEF Runs
    <3> HIDE DEF r
    <3> QED  BY <2>2, <3>1, NothingIsApart
  <2> QED  BY <2>1, <2>2
<1> HIDE DEF r
<1> QED  BY <1>1, <1>2

\* Only one of what enqueue decides: the running job does the work, or the new job
\* waits, or there is no setup and nothing waits.
LEMMA EnqueueIs ==
    ASSUME QueueTypes, configured \in BOOLEAN, NEW n \in Numbers, NEW new \in Jobs,
           Enqueue(n, new)
    PROVE  /\ QueueTypes'
           /\ \A m \in Numbers \ {n} : /\ pending'[m] = pending[m] /\ running'[m] = running[m]
                                       /\ m \in skipped' <=> m \in skipped
           /\ running'[n].job = running[n].job
           /\ running'[n] = NotRunning <=> running[n] = NotRunning
           /\ \/ /\ Alive(n) /\ running[n].job.content = new.content
                 /\ UNCHANGED <<pending, running, skipped>>
              \/ /\ pending'[n] = IF configured THEN new ELSE NoJob
                 /\ n \in skipped' <=> ~configured
                 /\ Alive(n)' => Alive(n) /\ running[n].job.content = new.content
<1> USE DEF QueueTypes
<1>1. CASE Dropped(n, new)
  <2>1. Alive(n) /\ running[n].job.content = new.content
    BY <1>1 DEF Dropped, Duplicates, SameContent, Alive
  <2>2. UNCHANGED <<pending, running, skipped>>
    BY <1>1 DEF Enqueue, queueVars
  <2> QED  BY <2>1, <2>2
<1>2. CASE ~Dropped(n, new)
  <2> DEFINE told == /\ running[n] # NotRunning
                     /\ Supersedes(running[n].job, running[n].cancel, new, new.asked)
             b == running[n].cancel \/ told
  <2>1. /\ pending' = [pending EXCEPT ![n] = IF configured THEN new ELSE NoJob]
        /\ running' = [running EXCEPT ![n].cancel = b]
        /\ skipped' = IF configured THEN skipped \ {n} ELSE skipped \cup {n}
    BY <1>2 DEF Enqueue
  <2>2. b \in BOOLEAN /\ (running[n] = NotRunning => ~b)
    <3>1. running[n].cancel \in BOOLEAN
      BY NothingIsApart DEF Runs
    <3> HIDE DEF told
    <3>2. running[n] = NotRunning => ~told
      BY DEF told
    <3> QED  BY <3>1, <3>2, NothingIsApart
  <2>3. ~b => \/ running[n] = NotRunning
              \/ Alive(n) /\ running[n].job.content = new.content
    <3> SUFFICES ASSUME ~b, running[n] # NotRunning
                 PROVE  ~running[n].cancel /\ running[n].job.content = new.content
      BY DEF Alive
    <3>1. ~Supersedes(running[n].job, running[n].cancel, new, new.asked)
      OBVIOUS
    <3>2. ~Duplicates(running[n].job, running[n].cancel, new, new.asked)
      BY <1>2 DEF Dropped
    <3>3. QueuesBehind(running[n].job, new, new.asked)
      BY <3>1, <3>2 DEF Supersedes
    <3>4. new.kind # "index"
      BY DEF Jobs
    <3> QED  BY <3>3, <3>4 DEF QueuesBehind, SameContent
  <2> HIDE DEF b
  <2>4. /\ running' \in [Numbers -> Runs \cup {NotRunning}]
        /\ \A m \in Numbers \ {n} : running'[m] = running[m]
        /\ running'[n].job = running[n].job /\ running'[n].cancel = b
        /\ running'[n] = NotRunning <=> running[n] = NotRunning
    BY <2>1, <2>2, Cancelling
  <2>5. Alive(n)' => Alive(n) /\ running[n].job.content = new.content
    BY <2>3, <2>4 DEF Alive
  <2>6. /\ pending' \in [Numbers -> Jobs \cup {NoJob}] /\ skipped' \subseteq Numbers
        /\ \A m \in Numbers \ {n} : pending'[m] = pending[m] /\ (m \in skipped' <=> m \in skipped)
        /\ pending'[n] = IF configured THEN new ELSE NoJob
        /\ n \in skipped' <=> ~configured
    BY <2>1
  <2> QED  BY <2>4, <2>5, <2>6
<1> QED  BY <1>1, <1>2

\* Closing a key leaves nothing that waits and nothing that goes on.
LEMMA CloseKeyIs ==
    ASSUME QueueTypes, GitHubTypes, NEW n \in Numbers, CloseKey(n)
    PROVE  /\ QueueTypes' /\ listing' \in Listings /\ lookup' \in Lookups
           /\ \A m \in Numbers \ {n} : pending'[m] = pending[m] /\ running'[m] = running[m]
           /\ pending'[n] = NoJob /\ ~Alive(n)' /\ skipped' = skipped
           /\ running'[n].job = running[n].job
           /\ running'[n] = NotRunning <=> running[n] = NotRunning
           /\ listing'.phase = listing.phase /\ listing'.pages = listing.pages
           /\ listing'.jobs = listing.jobs
           /\ listing'.touched = IF listing.phase = "idle" THEN listing.touched
                                 ELSE listing.touched \cup {n}
           /\ lookup'.phase = lookup.phase /\ lookup'.n = lookup.n /\ lookup'.pull = lookup.pull
           /\ lookup'.admitted = (lookup.admitted /\ lookup.n # n)
<1> DEFINE b == running[n] # NotRunning
<1>1. running' = [running EXCEPT ![n].cancel = b] /\ b \in BOOLEAN
  BY DEF CloseKey
<1> HIDE DEF b
<1>2. /\ running' \in [Numbers -> Runs \cup {NotRunning}]
      /\ \A m \in Numbers \ {n} : running'[m] = running[m]
      /\ running'[n].job = running[n].job /\ running'[n].cancel = b
      /\ running'[n] = NotRunning <=> running[n] = NotRunning
  BY <1>1, Cancelling DEF QueueTypes, b
<1>3. ~Alive(n)'
  BY <1>2 DEF Alive, b
<1>4. /\ pending' \in [Numbers -> Jobs \cup {NoJob}] /\ skipped' = skipped
      /\ \A m \in Numbers \ {n} : pending'[m] = pending[m]
      /\ pending'[n] = NoJob
  BY DEF CloseKey, QueueTypes
<1>5. /\ listing' \in Listings
      /\ listing'.phase = listing.phase /\ listing'.pages = listing.pages
      /\ listing'.jobs = listing.jobs
      /\ listing'.touched = IF listing.phase = "idle" THEN listing.touched
                            ELSE listing.touched \cup {n}
  BY DEF CloseKey, Observe, GitHubTypes, Listings
<1>6. /\ lookup' \in Lookups
      /\ lookup'.phase = lookup.phase /\ lookup'.n = lookup.n /\ lookup'.pull = lookup.pull
      /\ lookup'.admitted = (lookup.admitted /\ lookup.n # n)
  BY DEF CloseKey, Revoke, GitHubTypes, Lookups
<1> QED  BY <1>2, <1>3, <1>4, <1>5, <1>6 DEF QueueTypes

-------------------------------------------------------------------------------
(* Types, the clock (a version takes a second at most), and what a listing  *)
(* and a lookup are about.                                                  *)

Timely == \A n \in Numbers : pr[n].at <= pr[n].version

Aims ==
    /\ \A n \in listing.jobs : listing.phase = "observed" /\ listing.pages[n].open
    /\ lookup.phase # "idle" => lookup.n \in Numbers
    /\ lookup.phase = "fetched" => lookup.pull.open

Types == GitHubTypes /\ QueueTypes /\ SeenTypes /\ Timely /\ Aims

\* What a change of a pull request on GitHub leaves.
Changed(n) ==
    \E kind \in {"review", "retarget", "close"} :
        /\ pr' = [pr EXCEPT ![n] = pr'[n]]
        /\ pr'[n] \in Pulls /\ pr'[n].version = pr[n].version + 1
        /\ pr'[n].at >= pr[n].at /\ pr'[n].at <= pr'[n].version
        /\ kind = "close" <=> ~pr'[n].open
        /\ hooks' = hooks \cup {[n |-> n, kind |-> kind, pull |-> pr'[n],
                       stage |-> "sent", admitted |-> FALSE, asked |-> FALSE]}
        /\ UNCHANGED <<syncVars, listing, lookup, queueVars, seen, initialized,
                       configured, historyVars, used>>

LEMMA ChangeIs ==
    ASSUME Types, NEW n \in Numbers, NEW kind \in {"review", "retarget", "close"},
           NEW pull \in Pulls, pull.version = pr[n].version, Change(n, kind, pull),
           kind = "close" <=> ~pull.open
    PROVE  Changed(n)
<1>1. /\ pr[n] \in Pulls /\ pr[n].version \in Versions /\ pr[n].at \in Versions
      /\ pr[n].at <= pr[n].version
  BY DEF Types, GitHubTypes, Timely, Pulls
<1>2. PICK at \in {pr[n].at, pr[n].at + 1} :
         LET new == [pull EXCEPT !.version = @ + 1, !.at = at]
         IN  /\ pr' = [pr EXCEPT ![n] = new]
             /\ hooks' = hooks \cup {[n |-> n, kind |-> kind, pull |-> new,
                    stage |-> "sent", admitted |-> FALSE, asked |-> FALSE]}
  BY DEF Change
<1> DEFINE new == [pull EXCEPT !.version = @ + 1, !.at = at]
<1>3. pr[n].version < MaxVersion
  BY DEF Change
<1>4. at \in Versions /\ pr[n].version + 1 \in Versions /\ at >= pr[n].at
      /\ at <= pr[n].version + 1
  BY <1>1, <1>2, <1>3, BoundsAssumption DEF Versions
<1>5. /\ new \in Pulls /\ new.version = pr[n].version + 1 /\ new.at = at /\ new.open = pull.open
  BY <1>4 DEF Pulls
<1>6. pr' = [pr EXCEPT ![n] = new]
  BY <1>2
<1>7. hooks' = hooks \cup {[n |-> n, kind |-> kind, pull |-> new,
                    stage |-> "sent", admitted |-> FALSE, asked |-> FALSE]}
  BY <1>2
<1> HIDE DEF new
<1>8. pr'[n] = new
  BY <1>6 DEF Types, GitHubTypes
<1> QED  BY <1>4, <1>5, <1>6, <1>7, <1>8 DEF Changed, Change

\* Everything that happens to a pull request is a change of it.
LEMMA GitHubIs ==
    ASSUME Types, NEW n \in Numbers, Push(n) \/ EditBase(n) \/ ClosePull(n) \/ ReopenPull(n)
    PROVE  Changed(n)
<1>1. pr[n] \in Pulls
  BY DEF Types, GitHubTypes
<1>2. CASE Push(n)
  <2>1. PICK h \in Heads \ {pr[n].head} : Change(n, "review", [pr[n] EXCEPT !.head = h])
        /\ pr[n].open
    BY <1>2 DEF Push
  <2> DEFINE pull == [pr[n] EXCEPT !.head = h]
  <2>2. pull \in Pulls /\ pull.version = pr[n].version /\ pull.open
    BY <1>1, <2>1 DEF Pulls
  <2> HIDE DEF pull
  <2>3. Change(n, "review", pull)
    BY <2>1 DEF pull
  <2> QED  BY <2>2, <2>3, ChangeIs
<1>3. CASE EditBase(n)
  <2>1. PICK b \in Bases \ {pr[n].base} : Change(n, "retarget", [pr[n] EXCEPT !.base = b])
        /\ pr[n].open
    BY <1>3 DEF EditBase
  <2> DEFINE pull == [pr[n] EXCEPT !.base = b]
  <2>2. pull \in Pulls /\ pull.version = pr[n].version /\ pull.open
    BY <1>1, <2>1 DEF Pulls
  <2> HIDE DEF pull
  <2>3. Change(n, "retarget", pull)
    BY <2>1 DEF pull
  <2> QED  BY <2>2, <2>3, ChangeIs
<1>4. CASE ClosePull(n)
  <2> DEFINE pull == [pr[n] EXCEPT !.open = FALSE]
  <2>1. pull \in Pulls /\ pull.version = pr[n].version /\ ~pull.open
    BY <1>1 DEF Pulls
  <2>2. Change(n, "close", pull)
    BY <1>4 DEF ClosePull
  <2> HIDE DEF pull
  <2> QED  BY <2>1, <2>2, ChangeIs
<1>5. CASE ReopenPull(n)
  <2> DEFINE pull == [pr[n] EXCEPT !.open = TRUE]
  <2>1. pull \in Pulls /\ pull.version = pr[n].version /\ pull.open
    BY <1>1 DEF Pulls
  <2>2. Change(n, "review", pull)
    BY <1>5 DEF ReopenPull
  <2> HIDE DEF pull
  <2> QED  BY <2>1, <2>2, ChangeIs
<1> QED  BY <1>2, <1>3, <1>4, <1>5

\* A change keeps the types.
LEMMA ChangedTypes ==
    ASSUME Types, NEW n \in Numbers, Changed(n)
    PROVE  Types'
<1>1. PICK kind \in {"review", "retarget", "close"} :
        hooks' = hooks \cup {[n |-> n, kind |-> kind, pull |-> pr'[n],
                       stage |-> "sent", admitted |-> FALSE, asked |-> FALSE]}
  BY DEF Changed
<1>2. /\ pr' \in [Numbers -> Pulls] /\ \A m \in Numbers \ {n} : pr'[m] = pr[m]
      /\ pr'[n] \in Pulls /\ pr'[n].at <= pr'[n].version
  BY DEF Changed, Types, GitHubTypes
<1>3. hooks' \subseteq Hooks
  <2>1. [n |-> n, kind |-> kind, pull |-> pr'[n], stage |-> "sent", admitted |-> FALSE,
         asked |-> FALSE] \in Hooks
    BY <1>2 DEF Hooks
  <2> QED  BY <1>1, <2>1 DEF Types, GitHubTypes
<1>4. Timely'
  BY <1>2 DEF Timely, Types
<1> QED  BY <1>2, <1>3, <1>4 DEF Changed, Types, GitHubTypes, QueueTypes, SeenTypes, Aims,
            syncVars, queueVars, historyVars

\* A change of base tells what works for the old one.
LEMMA RetargetIs ==
    ASSUME Types, NEW h \in hooks, Retarget(h)
    PROVE  /\ QueueTypes' /\ hooks' \subseteq Hooks /\ skipped' = skipped
           /\ \A m \in Numbers \ {h.n} : pending'[m] = pending[m] /\ running'[m] = running[m]
           /\ pending'[h.n] \in {pending[h.n], NoJob}
           /\ running'[h.n].job = running[h.n].job
           /\ running'[h.n] = NotRunning <=> running[h.n] = NotRunning
           /\ running[h.n].cancel => running'[h.n].cancel
           /\ \E new \in Hooks : /\ Like(new, h) /\ new.stage = "retargeted" /\ new.admitted
                                 /\ hooks' = (hooks \ {h}) \cup {new}
<1> DEFINE n == h.n
           asked == \/ OldBase(n, h) /\ pending[n].asked
                    \/ RunsOldBase(n, h) /\ ~running[n].cancel /\ running[n].job.asked
           b == running[n].cancel \/ RunsOldBase(n, h)
           new == [h EXCEPT !.stage = "retargeted", !.admitted = TRUE, !.asked = asked]
<1>1. h \in Hooks /\ n \in Numbers
  BY DEF Types, GitHubTypes, Hooks
<1>2. pending[n] \in Jobs \cup {NoJob} /\ running[n] \in Runs \cup {NotRunning}
  BY <1>1 DEF Types, QueueTypes
<1>3. asked \in BOOLEAN
  <2>1. pending[n] # NoJob => pending[n].asked \in BOOLEAN
    BY <1>2 DEF Jobs
  <2>2. running[n] # NotRunning => running[n].job.asked \in BOOLEAN
    BY <1>2 DEF Runs, Jobs
  <2> QED  BY <2>1, <2>2 DEF OldBase, RunsOldBase
<1>4. b \in BOOLEAN /\ (running[n] = NotRunning => ~b) /\ (running[n].cancel => b)
  <2>1. running[n].cancel \in BOOLEAN
    BY <1>2, NothingIsApart DEF Runs
  <2> QED  BY <2>1, NothingIsApart DEF RunsOldBase
<1>5. /\ running' = [running EXCEPT ![n].cancel = b]
      /\ pending' = [pending EXCEPT ![n] = IF OldBase(n, h) THEN NoJob ELSE @]
      /\ skipped' = skipped
  BY DEF Retarget
<1>6. hooks' = (hooks \ {h}) \cup {new}
  BY DEF Retarget, MoveHook
<1> HIDE DEF asked
<1>7. new \in Hooks /\ Like(new, h) /\ new.stage = "retargeted" /\ new.admitted
  BY <1>1, <1>3 DEF Hooks, Like
<1> HIDE DEF b, new
<1>8. /\ running' \in [Numbers -> Runs \cup {NotRunning}]
      /\ \A m \in Numbers \ {n} : running'[m] = running[m]
      /\ running'[n].job = running[n].job /\ running'[n].cancel = b
      /\ running'[n] = NotRunning <=> running[n] = NotRunning
  BY <1>1, <1>4, <1>5, Cancelling DEF Types, QueueTypes
<1>9. /\ pending' \in [Numbers -> Jobs \cup {NoJob}]
      /\ \A m \in Numbers \ {n} : pending'[m] = pending[m]
      /\ pending'[n] \in {pending[n], NoJob}
  BY <1>1, <1>5 DEF Types, QueueTypes
<1>10. hooks' \subseteq Hooks
  BY <1>6, <1>7 DEF Types, GitHubTypes
<1> QED  BY <1>4, <1>5, <1>6, <1>7, <1>8, <1>9, <1>10 DEF Types, QueueTypes

\* A webhook that is handled keeps the types.
LEMMA HandleTypes ==
    ASSUME Types, NEW h \in hooks, Handle(h)
    PROVE  Types'
<1> USE DEF Types, GitHubTypes, QueueTypes, SeenTypes, Timely, Aims, syncVars, queueVars,
            historyVars
<1>1. h \in Hooks /\ h.n \in Numbers /\ h.pull \in Pulls /\ h.admitted \in BOOLEAN
      /\ h.asked \in BOOLEAN /\ h.pull.version \in 1..MaxVersion
  BY DEF Hooks, Pulls, Versions
<1>2. \A s \in {"sent", "observed", "cached", "retargeted"} :
         MoveHook(h, [h EXCEPT !.stage = s]) => hooks' \subseteq Hooks
  <2> SUFFICES ASSUME NEW s \in {"sent", "observed", "cached", "retargeted"},
                      MoveHook(h, [h EXCEPT !.stage = s])
               PROVE  hooks' \subseteq Hooks
    OBVIOUS
  <2>1. [h EXCEPT !.stage = s] \in Hooks
    BY <1>1 DEF Hooks
  <2> QED  BY <2>1 DEF MoveHook
<1>3. OpenOrClosed(h.pull) \in OpenPulls \cup {Closed}
  BY <1>1, OpenOrClosedIs
<1>4. CASE HookObserve(h)
  <2>1. listing' \in Listings /\ listing'.phase = listing.phase
        /\ listing'.jobs = listing.jobs /\ listing'.pages = listing.pages
    BY <1>1, <1>4 DEF HookObserve, Observe, Listings
  <2>2. newest' \in [Numbers -> 0..MaxVersion]
    BY <1>1, <1>4 DEF HookObserve
  <2> QED  BY <1>2, <1>4, <2>1, <2>2 DEF HookObserve
<1>5. CASE HookCache(h)
  <2>1. cache' \in [Numbers -> OpenPulls \cup {Closed}]
        /\ changes' \in [Numbers -> OpenPulls \cup {Closed, Unheard}]
    BY <1>1, <1>3, <1>5 DEF HookCache
  <2> QED  BY <1>2, <1>5, <2>1 DEF HookCache
<1>6. CASE HookReview(h)
  <2>1. QueueTypes'
    BY <1>1, <1>6, EnqueueIs, JobIs DEF HookReview
  <2> QED  BY <1>6, <2>1 DEF HookReview
<1>7. CASE HookClose(h)
  <2>1. QueueTypes' /\ listing' \in Listings /\ lookup' \in Lookups /\ Aims'
    BY <1>1, <1>7, CloseKeyIs DEF HookClose
  <2>2. hooks' \subseteq Hooks
    BY <1>7, ExpelledIs DEF HookClose
  <2>3. closed' \in [Numbers -> 0..MaxVersion]
    BY <1>1, <1>7 DEF HookClose
  <2> QED  BY <1>7, <2>1, <2>2, <2>3 DEF HookClose
<1>8. CASE Retarget(h)
  <2>1. QueueTypes' /\ hooks' \subseteq Hooks
    BY <1>1, <1>8, RetargetIs DEF Retarget
  <2> QED  BY <1>8, <2>1 DEF Retarget
<1>9. CASE Replace(h)
  <2>1. CASE h.admitted
    <3>1. QueueTypes'
      BY <1>1, <1>9, <2>1, EnqueueIs, JobIs DEF Replace
    <3> QED  BY <1>9, <3>1 DEF Replace
  <2>2. CASE ~h.admitted
    BY <1>9, <2>2 DEF Replace
  <2> QED  BY <2>1, <2>2
<1> QED  BY <1>4, <1>5, <1>6, <1>7, <1>8, <1>9 DEF Handle

\* A fault counts.
LEMMA FaultIs ==
    ASSUME SeenTypes, Fault
    PROVE  /\ used' \in [lookups : 0..MaxLookups, cancels : 0..MaxCancels, faults : 0..MaxFaults]
           /\ used'.faults > 0
BY BoundsAssumption DEF Fault, SeenTypes

\* What the merge leaves of a pull request was known before.
LEMMA MergedIs ==
    ASSUME GitHubTypes, NEW n \in Numbers, listing.pages[n] # Unheard
    PROVE  /\ Merged(n) \in OpenPulls \cup {Closed}
           /\ Merged(n) \in {listing.pages[n], cache[n], changes[n]}
<1>1. /\ listing.pages[n] \in OpenPulls \cup {Closed} /\ cache[n] \in OpenPulls \cup {Closed}
      /\ changes[n] \in OpenPulls \cup {Closed, Unheard}
  BY DEF GitHubTypes, Listings, Pages
<1> QED  BY <1>1 DEF Merged

\* Listings keep the types.
LEMMA ListTypes ==
    ASSUME Types, Reconcile \/ ListFails
    PROVE  Types'
<1> USE DEF Types, GitHubTypes, QueueTypes, SeenTypes, Timely, syncVars, queueVars, historyVars
<1>0. Aims
  OBVIOUS
<1>1. listing \in Listings /\ \A n \in Numbers : listing.pages[n] \in OpenPulls \cup {Closed, Unheard}
  BY DEF Listings, Pages
<1>2. CASE ListBegin
  <2>1. listing' \in Listings /\ Aims'
    BY <1>0, <1>2, NoListingIs DEF ListBegin, Listings, Places, Aims
  <2> QED  BY <1>2, <2>1 DEF ListBegin
<1>3. CASE ListAsk
  <2>1. listing' \in Listings /\ Aims'
    BY <1>0, <1>3 DEF ListAsk, Listings, Places, Aims
  <2> QED  BY <1>3, <2>1 DEF ListAsk
<1>4. ASSUME NEW n \in Numbers, ListRead(n)  PROVE Types'
  <2>1. OpenOrClosed(pr[n]) \in OpenPulls \cup {Closed, Unheard}
    BY OpenOrClosedIs
  <2> DEFINE pages == [listing.pages EXCEPT ![n] = OpenOrClosed(pr[n])]
  <2>2. pages \in Pages
    BY <1>1, <2>1 DEF Listings, Pages
  <2>3. listing' = [listing EXCEPT !.pages = pages]
    BY <1>4 DEF ListRead
  <2> HIDE DEF pages
  <2>4. listing' \in Listings
    BY <1>1, <2>2, <2>3 DEF Listings
  <2>5. Aims'
    BY <1>0, <1>1, <1>4, <2>3 DEF ListRead, Aims, Listings
  <2> QED  BY <1>4, <2>4, <2>5 DEF ListRead
<1>5. CASE ListApply
  <2>1. listing' \in Listings /\ Aims'
    BY <1>0, <1>5 DEF ListApply, Listings, Places, Aims
  <2>2. \A n \in Numbers : Merged(n) \in OpenPulls \cup {Closed}
    BY <1>5, MergedIs DEF ListApply
  <2>3. cache' \in [Numbers -> OpenPulls \cup {Closed}]
    BY <1>5, <2>2 DEF ListApply
  <2> QED  BY <1>5, <2>1, <2>3 DEF ListApply
<1>6. CASE ListObserve
  <2> DEFINE jobs == {n \in Admitted : n \in skipped \/ seen'[n] # Content(listing.pages[n])}
  <2>1. jobs \subseteq Numbers
    BY DEF Admitted
  <2>2. listing' = [listing EXCEPT !.phase = "observed", !.jobs = jobs]
    BY <1>6 DEF ListObserve
  <2> HIDE DEF jobs
  <2>3. listing' \in Listings /\ listing'.phase = "observed" /\ listing'.jobs = jobs
        /\ listing'.pages = listing.pages
    BY <1>1, <2>1, <2>2 DEF Listings, Places
  <2>6. Aims'
    BY <1>0, <1>6, <2>3 DEF Aims, ListObserve, jobs, Admitted
  <2>4. \A n \in Numbers : Baseline(n) \in Contents \cup {NoContent}
    <3> SUFFICES ASSUME NEW n \in Numbers, n \in Admitted
                 PROVE  Content(listing.pages[n]) \in Contents
      BY DEF Baseline
    <3>1. listing.pages[n] \in OpenPulls
      BY <1>1, NothingIsApart DEF Admitted
    <3> QED  BY <3>1, NothingIsApart DEF Content, Contents, Pulls
  <2>5. seen' \in [Numbers -> Contents \cup {NoContent}]
    BY <1>6, <2>4 DEF ListObserve
  <2> QED  BY <1>6, <2>3, <2>5, <2>6 DEF ListObserve
<1>7. ASSUME NEW n \in Numbers, ListEnqueue(n)  PROVE Types'
  <2>1. listing' \in Listings /\ Aims'
    BY <1>0, <1>7 DEF ListEnqueue, Listings, Aims
  <2>2. CASE Admissible(n)
    <3>1. listing.pages[n] \in Pulls
      <4>1. listing.pages[n].open
        BY <1>0, <1>7 DEF ListEnqueue, Aims
      <4> QED  BY <1>1, <4>1, NothingIsApart
    <3>2. Enqueue(n, Job(listing.pages[n], FALSE))
      BY <1>7, <2>2 DEF ListEnqueue
    <3>3. QueueTypes'
      BY <3>1, <3>2, EnqueueIs, JobIs
    <3> QED  BY <1>7, <2>1, <3>3 DEF ListEnqueue
  <2>3. CASE ~Admissible(n)
    BY <1>7, <2>1, <2>3 DEF ListEnqueue
  <2> QED  BY <2>2, <2>3
<1>8. CASE ListEnd
  BY <1>0, <1>8, NoListingIs DEF ListEnd, Aims
<1>9. CASE ListFails
  <2>1. changes' \in [Numbers -> OpenPulls \cup {Closed, Unheard}]
    BY <1>9 DEF ListFails
  <2>2. used' \in [lookups : 0..MaxLookups, cancels : 0..MaxCancels, faults : 0..MaxFaults]
    BY <1>9, FaultIs DEF ListFails
  <2> QED  BY <1>0, <1>9, <2>1, <2>2, NoListingIs DEF ListFails, Aims
<1> QED  BY <1>2, <1>3, <1>4, <1>5, <1>6, <1>7, <1>8, <1>9 DEF Reconcile

\* Lookups keep the types.
LEMMA LookupTypes ==
    ASSUME Types, Lookup \/ LookupFails
    PROVE  Types'
<1> USE DEF Types, GitHubTypes, QueueTypes, SeenTypes, Timely, syncVars, queueVars, historyVars
<1>0. Aims /\ lookup \in Lookups
  OBVIOUS
<1>1. ASSUME NEW n \in Numbers, LookupBegin(n)  PROVE Types'
  <2>1. lookup' \in Lookups /\ Aims'
    BY <1>0, <1>1 DEF LookupBegin, Lookups, Aims
  <2>2. used' \in [lookups : 0..MaxLookups, cancels : 0..MaxCancels, faults : 0..MaxFaults]
    BY <1>1, BoundsAssumption DEF LookupBegin
  <2> QED  BY <1>1, <2>1, <2>2 DEF LookupBegin
<1>2. CASE LookupFetch
  <2>1. lookup.n \in Numbers /\ lookup.phase = "asking"
    BY <1>0, <1>2 DEF LookupFetch, Aims
  <2> DEFINE fetched == [lookup EXCEPT !.phase = "fetched", !.pull = pr[lookup.n]]
  <2>2. pr[lookup.n].open => fetched \in Lookups /\ fetched.pull.open /\ fetched.n = lookup.n
    BY <1>0, <2>1, OpenOrClosedIs DEF Lookups
  <2>3. lookup' = IF pr[lookup.n].open THEN fetched ELSE NoLookup
    BY <1>2 DEF LookupFetch
  <2> HIDE DEF fetched
  <2>4. lookup' \in Lookups /\ Aims'
    BY <1>0, <1>2, <2>1, <2>2, <2>3, NoListingIs DEF Aims, LookupFetch
  <2> QED  BY <1>2, <2>4 DEF LookupFetch
<1>3. CASE LookupEnqueue
  <2>1. lookup' \in Lookups /\ Aims'
    BY <1>0, <1>3, NoListingIs DEF LookupEnqueue, Aims
  <2>2. lookup.n \in Numbers /\ lookup.pull \in Pulls
    BY <1>0, <1>3, NothingIsApart DEF LookupEnqueue, Aims, Lookups
  <2>3. CASE lookup.admitted
    <3>1. Enqueue(lookup.n, Job(lookup.pull, TRUE))
      BY <1>3, <2>3 DEF LookupEnqueue
    <3>2. QueueTypes'
      BY <2>2, <3>1, EnqueueIs, JobIs
    <3> QED  BY <1>3, <2>1, <3>2 DEF LookupEnqueue
  <2>4. CASE ~lookup.admitted
    BY <1>3, <2>1, <2>4 DEF LookupEnqueue
  <2> QED  BY <2>3, <2>4
<1>4. CASE LookupFails
  <2>1. lookup' \in Lookups /\ Aims'
    BY <1>0, <1>4, NoListingIs DEF LookupFails, Aims
  <2>2. used' \in [lookups : 0..MaxLookups, cancels : 0..MaxCancels, faults : 0..MaxFaults]
    BY <1>4, FaultIs DEF LookupFails
  <2> QED  BY <1>4, <2>1, <2>2 DEF LookupFails
<1> QED  BY <1>1, <1>2, <1>3, <1>4 DEF Lookup

\* The rest keeps the types.
LEMMA OtherTypes ==
    ASSUME Types,
           \/ \E h \in hooks : LoseHook(h)
           \/ \E n \in Numbers : Cancel(n) \/ RunStart(n) \/ RunEnd(n) \/ RunFails(n)
           \/ Configure \/ Restart
    PROVE  Types'
<1> USE DEF Types, GitHubTypes, QueueTypes, SeenTypes, Timely, syncVars, queueVars, historyVars
<1>0. Aims
  OBVIOUS
<1>1. Fault => used' \in [lookups : 0..MaxLookups, cancels : 0..MaxCancels, faults : 0..MaxFaults]
  BY FaultIs
<1>2. ASSUME NEW h \in hooks, LoseHook(h)  PROVE Types'
  BY <1>0, <1>1, <1>2 DEF LoseHook, Aims
<1>3. ASSUME NEW n \in Numbers, Cancel(n)  PROVE Types'
  <2>1. QueueTypes' /\ listing' \in Listings /\ lookup' \in Lookups /\ Aims'
    BY <1>0, <1>3, CloseKeyIs DEF Cancel, Aims
  <2>2. hooks' \subseteq Hooks
    BY <1>3, ExpelledIs DEF Cancel
  <2>3. used' \in [lookups : 0..MaxLookups, cancels : 0..MaxCancels, faults : 0..MaxFaults]
    BY <1>3, BoundsAssumption DEF Cancel
  <2> QED  BY <1>3, <2>1, <2>2, <2>3 DEF Cancel
<1>4. ASSUME NEW n \in Numbers, RunStart(n)  PROVE Types'
  <2>1. pending[n] \in Jobs
    BY <1>4 DEF RunStart
  <2>2. [job |-> pending[n], cancel |-> FALSE] \in Runs
    BY <2>1 DEF Runs
  <2>3. QueueTypes'
    BY <1>4, <2>2 DEF RunStart
  <2> QED  BY <1>0, <1>4, <2>3 DEF RunStart, Aims
<1>5. ASSUME NEW n \in Numbers, RunEnd(n)  PROVE Types'
  <2>1. running[n].job.content \in Contents
    BY <1>5 DEF RunEnd, Runs, Jobs
  <2>2. /\ seen' \in [Numbers -> Contents \cup {NoContent}]
        /\ reviewed' \in [Numbers -> Contents \cup {NoContent}]
    BY <1>5, <2>1 DEF RunEnd
  <2>3. QueueTypes'
    BY <1>5 DEF RunEnd
  <2> QED  BY <1>0, <1>5, <2>2, <2>3 DEF RunEnd, Aims
<1>6. ASSUME NEW n \in Numbers, RunFails(n)  PROVE Types'
  BY <1>0, <1>1, <1>6 DEF RunFails, Aims
<1>7. CASE Configure
  BY <1>0, <1>7 DEF Configure, Aims
<1>8. CASE Restart
  <2>1. listing' \in Listings /\ lookup' \in Lookups /\ Aims'
    BY <1>8, NoListingIs DEF Restart, Aims
  <2>2. /\ hooks' \subseteq Hooks
        /\ cache' \in [Numbers -> OpenPulls \cup {Closed}]
        /\ changes' \in [Numbers -> OpenPulls \cup {Closed, Unheard}]
        /\ QueueTypes'
    BY <1>8 DEF Restart
  <2> QED  BY <1>1, <1>8, <2>1, <2>2 DEF Restart
<1> QED  BY <1>2, <1>3, <1>4, <1>5, <1>6, <1>7, <1>8

LEMMA InitTypes == Init => Types
<1> SUFFICES ASSUME Init  PROVE Types
  OBVIOUS
<1> USE DEF Init
<1>1. \A n \in Numbers : pr[n] \in Pulls /\ pr[n].at = 1 /\ pr[n].version = 1
  <2>1. 1 \in Versions
    BY BoundsAssumption DEF Versions
  <2> SUFFICES ASSUME NEW n \in Numbers
               PROVE  pr[n] \in Pulls /\ pr[n].at = 1 /\ pr[n].version = 1
    OBVIOUS
  <2>2. pr[n] \in [open : {TRUE}, head : Heads, base : Bases, version : {1}, at : {1}]
    OBVIOUS
  <2> QED  BY <2>1, <2>2 DEF Pulls
<1>2. pr \in [Numbers -> Pulls]
  BY <1>1
<1>3. GitHubTypes
  BY <1>2, NoListingIs DEF GitHubTypes
<1>4. QueueTypes
  BY DEF QueueTypes
<1>5. SeenTypes
  <2>1. configured \in BOOLEAN
    BY SetupsAssumption
  <2>2. used \in [lookups : 0..MaxLookups, cancels : 0..MaxCancels, faults : 0..MaxFaults]
    BY BoundsAssumption
  <2>3. 0 \in 0..MaxVersion
    BY BoundsAssumption
  <2> QED  BY <2>1, <2>2, <2>3 DEF SeenTypes
<1>6. Timely
  BY <1>1 DEF Timely
<1>7. Aims
  BY NoListingIs DEF Aims
<1> QED  BY <1>3, <1>4, <1>5, <1>6, <1>7 DEF Types

LEMMA TypesStep == Types /\ [Next]_vars => Types'
<1> SUFFICES ASSUME Types, [Next]_vars  PROVE Types'
  OBVIOUS
<1>1. CASE GitHub
  BY <1>1, GitHubIs, ChangedTypes DEF GitHub
<1>2. CASE UNCHANGED vars
  BY <1>2 DEF vars, Types, GitHubTypes, QueueTypes, SeenTypes, Timely, Aims, syncVars, queueVars,
     historyVars
<1> QED  BY <1>1, <1>2, HandleTypes, ListTypes, LookupTypes, OtherTypes DEF Next, Run, Trouble

\* The variables have their types, whatever is lost, late or out of order.
THEOREM SyncTypes == Spec => []TypeOK
<1>1. Types => TypeOK
  BY TypesTogether DEF Types
<1> QED  BY <1>1, InitTypes, TypesStep, PTL DEF Spec

-------------------------------------------------------------------------------
(* What the server keeps of a pull request is what GitHub said at some time.*)

\* x is the pull request as it is, or as a webhook, the cache, a listing or a
\* lookup has it.
Known(n, x) ==
    \/ x = pr[n]
    \/ \E h \in hooks : h.n = n /\ x = h.pull
    \/ x \in {cache[n], changes[n], listing.pages[n]} /\ x.open
    \/ x = lookup.pull /\ lookup.n = n /\ x.open

\* One version is one content, and time does not go back.
Coherent(x, y) ==
    /\ x.version = y.version => x = y
    /\ x.version <= y.version => x.at <= y.at

SnapInv == \A n \in Numbers : \A x \in Pulls : Known(n, x) =>
    /\ x.version <= pr[n].version
    /\ \A y \in Pulls : Known(n, y) => Coherent(x, y)

\* What was not heard from GitHub in this step was known before it.
Remembered ==
    /\ pr' = pr
    /\ \A g \in hooks' : \E h \in hooks : Like(g, h)
    /\ \A n \in Numbers : \A x \in {cache'[n], changes'[n], listing'.pages[n]} :
          x.open => Known(n, x)
    /\ lookup'.pull.open => Known(lookup'.n, lookup'.pull)

\* The ways in which a handler leaves the webhooks.
LEMMA HandleHooks ==
    ASSUME Types, NEW h \in hooks, Handle(h)
    PROVE  \/ /\ HookObserve(h) \/ HookCache(h) \/ Retarget(h)
              /\ \E new \in Hooks : /\ Like(new, h) /\ new.stage # "sent"
                                    /\ new.stage = "retargeted" => new.admitted
                                    /\ hooks' = (hooks \ {h}) \cup {new}
           \/ (HookReview(h) \/ Replace(h)) /\ hooks' = hooks \ {h}
           \/ HookClose(h) /\ hooks' = Expelled(h.n, hooks \ {h})
<1>1. h \in Hooks
  BY DEF Types, GitHubTypes
<1>2. CASE HookObserve(h)
  <2> DEFINE new == [h EXCEPT !.stage = "observed"]
  <2>1. new \in Hooks /\ Like(new, h) /\ new.stage = "observed"
    BY <1>1 DEF Hooks, Like
  <2>2. hooks' = (hooks \ {h}) \cup {new}
    BY <1>2 DEF HookObserve, MoveHook
  <2> HIDE DEF new
  <2> QED  BY <1>2, <2>1, <2>2
<1>3. CASE HookCache(h)
  <2> DEFINE new == [h EXCEPT !.stage = "cached"]
  <2>1. new \in Hooks /\ Like(new, h) /\ new.stage = "cached"
    BY <1>1 DEF Hooks, Like
  <2>2. hooks' = (hooks \ {h}) \cup {new}
    BY <1>3 DEF HookCache, MoveHook
  <2> HIDE DEF new
  <2> QED  BY <1>3, <2>1, <2>2
<1>4. CASE Retarget(h)
  <2>1. PICK new \in Hooks : /\ Like(new, h) /\ new.stage = "retargeted" /\ new.admitted
                             /\ hooks' = (hooks \ {h}) \cup {new}
    BY <1>4, RetargetIs
  <2> QED  BY <1>4, <2>1
<1>5. CASE HookReview(h) \/ Replace(h)
  BY <1>5 DEF HookReview, Replace
<1>6. CASE HookClose(h)
  BY <1>6 DEF HookClose
<1> QED  BY <1>2, <1>3, <1>4, <1>5, <1>6 DEF Handle

LEMMA HandleLike ==
    ASSUME Types, NEW h \in hooks, Handle(h)
    PROVE  \A g \in hooks' : \E k \in hooks : Like(g, k)
<1>1. \A k \in hooks : Like(k, k)
  BY DEF Like
<1>2. hooks \ {h} \subseteq Hooks
  BY DEF Types, GitHubTypes
<1>3. hooks' = Expelled(h.n, hooks \ {h}) => \A g \in hooks' : \E k \in hooks : Like(g, k)
  BY <1>2, ExpelledIs
<1> QED  BY <1>1, <1>3, HandleHooks

LEMMA HandleRemembers ==
    ASSUME Types, NEW h \in hooks, Handle(h)
    PROVE  Remembered
<1>1. \A g \in hooks' : \E k \in hooks : Like(g, k)
  BY HandleLike
<1>2. /\ h.pull \in Pulls /\ h.n \in Numbers /\ Known(h.n, h.pull)
  BY DEF Known, Types, GitHubTypes, Hooks
<1>3. pr' = pr
  BY DEF Handle, HookObserve, HookCache, HookReview, HookClose, Retarget, Replace
<1>4. OpenOrClosed(h.pull).open => Known(h.n, OpenOrClosed(h.pull))
  BY <1>2, OpenOrClosedIs
<1>5. \A n \in Numbers : \A x \in {cache[n], changes[n], listing.pages[n]} : x.open => Known(n, x)
  BY DEF Known
<1>6. lookup.pull.open => Known(lookup.n, lookup.pull)
  BY DEF Known
<1>7. CASE HookCache(h)
  <2>1. \A n \in Numbers : cache'[n] \in {cache[n], IF n = h.n THEN OpenOrClosed(h.pull) ELSE cache[n]}
    BY <1>2, <1>7 DEF HookCache, Types, GitHubTypes
  <2>2. \A n \in Numbers : changes'[n] \in {changes[n], IF n = h.n THEN OpenOrClosed(h.pull)
                                                       ELSE changes[n]}
    BY <1>2, <1>7 DEF HookCache, Types, GitHubTypes
  <2>3. listing' = listing /\ lookup' = lookup
    BY <1>7 DEF HookCache
  <2> QED  BY <1>1, <1>3, <1>4, <1>5, <1>6, <2>1, <2>2, <2>3 DEF Remembered
<1>8. CASE ~HookCache(h)
  <2>1. UNCHANGED syncVars
    BY <1>8 DEF Handle, HookObserve, HookReview, HookClose, Retarget, Replace
  <2>2. listing'.pages = listing.pages
    <3>1. CASE HookObserve(h)
      BY <3>1 DEF HookObserve, Observe, Types, GitHubTypes, Listings
    <3>2. CASE HookClose(h)
      BY <1>2, <3>2, CloseKeyIs DEF HookClose, Types
    <3> QED  BY <1>8, <3>1, <3>2 DEF Handle, HookReview, Retarget, Replace
  <2>3. lookup'.n = lookup.n /\ lookup'.pull = lookup.pull
    <3>1. CASE HookClose(h)
      BY <1>2, <3>1, CloseKeyIs DEF HookClose, Types
    <3> QED  BY <1>8, <3>1 DEF Handle, HookObserve, HookReview, Retarget, Replace
  <2> QED  BY <1>1, <1>3, <1>5, <1>6, <2>1, <2>2, <2>3 DEF Remembered, syncVars
<1> QED  BY <1>7, <1>8

LEMMA ListRemembers ==
    ASSUME Types, Reconcile \/ ListFails
    PROVE  Remembered
<1>1. \A n \in Numbers : \A x \in {cache[n], changes[n], listing.pages[n]} : x.open => Known(n, x)
  BY DEF Known
<1>2. lookup.pull.open => Known(lookup.n, lookup.pull)
  BY DEF Known
<1>3. pr' = pr /\ hooks' = hooks /\ lookup' = lookup
  BY DEF Reconcile, ListBegin, ListAsk, ListRead, ListApply, ListObserve, ListEnqueue, ListEnd,
     ListFails
<1>4. \A g \in hooks' : \E h \in hooks : Like(g, h)
  BY <1>3 DEF Like
<1>5. CASE ListApply
  <2>1. \A n \in Numbers : cache'[n] \in {listing.pages[n], cache[n], changes[n]}
    BY <1>5, MergedIs DEF ListApply, Types
  <2>2. /\ \A n \in Numbers : changes'[n] = Unheard
        /\ listing'.pages = listing.pages
    BY <1>5 DEF ListApply, Types, GitHubTypes, Listings
  <2> QED  BY <1>1, <1>2, <1>3, <1>4, <2>1, <2>2, NothingIsApart DEF Remembered
<1>6. ASSUME NEW n \in Numbers, ListRead(n)  PROVE Remembered
  <2>1. /\ \A m \in Numbers : listing'.pages[m] = IF m = n THEN OpenOrClosed(pr[n])
                                                 ELSE listing.pages[m]
        /\ UNCHANGED syncVars
    BY <1>6 DEF ListRead, Types, GitHubTypes, Listings, Pages
  <2>2. OpenOrClosed(pr[n]).open => Known(n, OpenOrClosed(pr[n]))
    BY OpenOrClosedIs DEF Types, GitHubTypes, Known
  <2> QED  BY <1>1, <1>2, <1>3, <1>4, <2>1, <2>2 DEF Remembered, syncVars
<1>7. CASE ListBegin \/ ListAsk \/ ListObserve \/ ListEnd \/ ListFails \/ \E n \in Numbers : ListEnqueue(n)
  <2>1. /\ \A n \in Numbers : listing'.pages[n] \in {listing.pages[n], Unheard}
        /\ \A n \in Numbers : changes'[n] \in {changes[n], Unheard}
        /\ cache' = cache
    BY <1>7, NoListingIs DEF ListBegin, ListAsk, ListObserve, ListEnd, ListFails, ListEnqueue,
       Types, GitHubTypes, Listings, syncVars
  <2> QED  BY <1>1, <1>2, <1>3, <1>4, <2>1, NothingIsApart DEF Remembered
<1> QED  BY <1>5, <1>6, <1>7 DEF Reconcile

LEMMA OtherRemembers ==
    ASSUME Types, \/ Lookup \/ LookupFails
                  \/ \E h \in hooks : LoseHook(h)
                  \/ \E n \in Numbers : Cancel(n) \/ RunStart(n) \/ RunEnd(n) \/ RunFails(n)
                  \/ Configure \/ Restart \/ UNCHANGED vars
    PROVE  Remembered
<1>1. \A n \in Numbers : \A x \in {cache[n], changes[n], listing.pages[n]} : x.open => Known(n, x)
  BY DEF Known
<1>2. lookup.pull.open => Known(lookup.n, lookup.pull)
  BY DEF Known
<1>3. \A k \in hooks : Like(k, k)
  BY DEF Like
<1>4. CASE Lookup \/ LookupFails
  <2>1. /\ pr' = pr /\ hooks' = hooks /\ cache' = cache /\ changes' = changes /\ listing' = listing
    BY <1>4 DEF Lookup, LookupBegin, LookupFetch, LookupEnqueue, LookupFails, syncVars
  <2>2. lookup'.pull.open => lookup'.pull = pr[lookup'.n]
    <3>1. CASE LookupFetch /\ pr[lookup.n].open
      <4>1. lookup' = [lookup EXCEPT !.phase = "fetched", !.pull = pr[lookup.n]]
        BY <3>1 DEF LookupFetch
      <4> QED  BY <4>1 DEF Types, GitHubTypes, Lookups
    <3>2. CASE LookupFetch /\ ~pr[lookup.n].open
      BY <3>2, NoListingIs, NothingIsApart DEF LookupFetch
    <3>3. CASE LookupEnqueue \/ LookupFails \/ \E n \in Numbers : LookupBegin(n)
      <4>1. lookup'.pull = Closed
        <5>1. CASE LookupEnqueue \/ LookupFails
          BY <5>1, NoListingIs DEF LookupEnqueue, LookupFails
        <5>2. ASSUME NEW n \in Numbers, LookupBegin(n)  PROVE lookup'.pull = Closed
          BY <5>2 DEF LookupBegin
        <5> QED  BY <3>3, <5>1, <5>2
      <4> QED  BY <4>1, NothingIsApart
    <3> QED  BY <1>4, <3>1, <3>2, <3>3 DEF Lookup
  <2> QED  BY <1>1, <1>3, <2>1, <2>2 DEF Remembered, Known
<1>5. ASSUME NEW n \in Numbers, Cancel(n)  PROVE Remembered
  <2>1. /\ pr' = pr /\ cache' = cache /\ changes' = changes /\ listing'.pages = listing.pages
        /\ lookup'.n = lookup.n /\ lookup'.pull = lookup.pull
    BY <1>5, CloseKeyIs DEF Cancel, syncVars, Types
  <2>2. \A g \in hooks' : \E h \in hooks : Like(g, h)
    BY <1>5, ExpelledIs DEF Cancel, Types, GitHubTypes
  <2> QED  BY <1>1, <1>2, <2>1, <2>2 DEF Remembered
<1>6. CASE Restart
  <2>1. /\ pr' = pr /\ hooks' \subseteq hooks
        /\ \A n \in Numbers : cache'[n] = Closed /\ changes'[n] = Unheard
        /\ listing' = NoListing /\ lookup' = NoLookup
    BY <1>6 DEF Restart
  <2> QED  BY <1>3, <2>1, NoListingIs, NothingIsApart DEF Remembered
<1>7. CASE \/ \E h \in hooks : LoseHook(h)
           \/ \E n \in Numbers : RunStart(n) \/ RunEnd(n) \/ RunFails(n)
           \/ Configure \/ UNCHANGED vars
  <2>1. /\ pr' = pr /\ hooks' \subseteq hooks
        /\ cache' = cache /\ changes' = changes /\ listing' = listing /\ lookup' = lookup
    BY <1>7 DEF LoseHook, RunStart, RunEnd, RunFails, Configure, syncVars, vars
  <2> QED  BY <1>1, <1>2, <1>3, <2>1 DEF Remembered
<1> QED  BY <1>4, <1>5, <1>6, <1>7

\* Every step either is a change on GitHub or works with what is known.
LEMMA StepIs ==
    ASSUME Types, [Next]_vars
    PROVE  (\E n \in Numbers : Changed(n)) \/ Remembered
<1>1. CASE GitHub
  BY <1>1, GitHubIs DEF GitHub
<1> QED  BY <1>1, HandleRemembers, ListRemembers, OtherRemembers DEF Next, Run, Trouble

\* What was coherent stays so.
LEMMA SnapStep ==
    ASSUME Types, SnapInv, [Next]_vars
    PROVE  SnapInv'
<1>1. CASE Remembered
  <2>1. ASSUME NEW n \in Numbers, NEW x \in Pulls, Known(n, x)'  PROVE Known(n, x)
    <3>1. CASE x = pr'[n]
      BY <1>1, <3>1 DEF Remembered, Known
    <3>2. CASE \E g \in hooks' : g.n = n /\ x = g.pull
      BY <1>1, <3>2 DEF Remembered, Known, Like
    <3>3. CASE x \in {cache'[n], changes'[n], listing'.pages[n]} /\ x.open
      BY <1>1, <3>3 DEF Remembered
    <3>4. CASE x = lookup'.pull /\ lookup'.n = n /\ x.open
      BY <1>1, <3>4 DEF Remembered
    <3> QED  BY <2>1, <3>1, <3>2, <3>3, <3>4 DEF Known
  <2>2. pr' = pr
    BY <1>1 DEF Remembered
  <2> SUFFICES ASSUME NEW n \in Numbers, NEW x \in Pulls, Known(n, x)'
               PROVE  /\ x.version <= pr'[n].version
                      /\ \A y \in Pulls : Known(n, y)' => Coherent(x, y)
    BY DEF SnapInv, Coherent
  <2> QED  BY <2>1, <2>2 DEF SnapInv
<1>2. ASSUME NEW n \in Numbers, Changed(n)  PROVE SnapInv'
  <2>1. /\ pr[n] \in Pulls /\ pr'[n] \in Pulls /\ pr'[n].version = pr[n].version + 1
        /\ pr'[n].at >= pr[n].at
        /\ \A m \in Numbers \ {n} : pr'[m] = pr[m]
        /\ pr[n].version \in Nat /\ pr[n].at \in Nat /\ pr'[n].at \in Nat
    BY <1>2 DEF Changed, Types, GitHubTypes, Pulls, Versions
  <2>2. /\ \A g \in hooks' : g \in hooks \/ (g.n = n /\ g.pull = pr'[n])
        /\ cache' = cache /\ changes' = changes /\ listing' = listing /\ lookup' = lookup
    BY <1>2 DEF Changed, syncVars
  <2>3. \A m \in Numbers : \A x \in Pulls :
           Known(m, x)' => Known(m, x) \/ (m = n /\ x = pr'[n])
    <3> SUFFICES ASSUME NEW m \in Numbers, NEW x \in Pulls, Known(m, x)'
                 PROVE  Known(m, x) \/ (m = n /\ x = pr'[n])
      OBVIOUS
    <3>1. CASE x = pr'[m]
      BY <2>1, <3>1 DEF Known
    <3>2. CASE \E g \in hooks' : g.n = m /\ x = g.pull
      BY <2>2, <3>2 DEF Known
    <3>3. CASE \/ x \in {cache'[m], changes'[m], listing'.pages[m]} /\ x.open
               \/ x = lookup'.pull /\ lookup'.n = m /\ x.open
      BY <2>2, <3>3 DEF Known
    <3> QED  BY <3>1, <3>2, <3>3 DEF Known
  <2>4. \A x \in Pulls : Known(n, x) => x.version <= pr[n].version /\ x.at <= pr[n].at
    BY <2>1 DEF SnapInv, Coherent, Known
  <2>5. \A x \in Pulls : x.version \in Nat /\ x.at \in Nat
    BY DEF Pulls, Versions
  <2>6. \A x \in Pulls : Known(n, x) => Coherent(x, pr'[n]) /\ Coherent(pr'[n], x)
    BY <2>1, <2>4, <2>5 DEF Coherent
  <2>7. Coherent(pr'[n], pr'[n])
    BY <2>1 DEF Coherent
  <2> SUFFICES ASSUME NEW m \in Numbers, NEW x \in Pulls, Known(m, x)'
               PROVE  /\ x.version <= pr'[m].version
                      /\ \A y \in Pulls : Known(m, y)' => Coherent(x, y)
    BY DEF SnapInv, Coherent
  <2>8. CASE m # n
    BY <2>1, <2>3, <2>8 DEF SnapInv
  <2>9. CASE m = n
    <3>1. x.version <= pr'[n].version
      BY <2>1, <2>3, <2>4, <2>5, <2>9
    <3>2. \A y \in Pulls : Known(m, y)' => Coherent(x, y)
      BY <2>3, <2>6, <2>7, <2>9 DEF SnapInv
    <3> QED  BY <2>9, <3>1, <3>2
  <2> QED  BY <2>8, <2>9
<1> QED  BY <1>1, <1>2, StepIs

LEMMA SnapInit == Init => SnapInv
<1> SUFFICES ASSUME Init, NEW n \in Numbers, NEW x \in Pulls, Known(n, x)
             PROVE  /\ x.version <= pr[n].version
                    /\ \A y \in Pulls : Known(n, y) => Coherent(x, y)
  BY DEF SnapInv
<1>1. \A y : Known(n, y) => y = pr[n]
  BY NoListingIs, NothingIsApart DEF Init, Known
<1>2. pr[n] \in Pulls /\ pr[n].version \in Nat /\ pr[n].at \in Nat
  BY InitTypes DEF Types, GitHubTypes, Pulls, Versions
<1> QED  BY <1>1, <1>2 DEF Coherent

-------------------------------------------------------------------------------
(* What a listing may do, whatever goes wrong.                             *)

\* The cache has nothing before the first listing, a change that is kept for the
\* listing in flight is what the cache has, and a page that is read while there is
\* none is as new as the cache.  No page is read before the generation.
CacheOf(n) ==
    /\ listing.phase = "begun" => ~listing.pages[n].open
    /\ ~listed => cache[n] = Closed
    /\ listing.phase # "reading" => changes[n] = Unheard
    /\ listed /\ changes[n] # Unheard => cache[n] = changes[n]
    /\ (/\ listing.phase = "reading" /\ changes[n] = Unheard
        /\ cache[n].open /\ listing.pages[n].open)
          => listing.pages[n].version >= cache[n].version
CacheInv == \A n \in Numbers : CacheOf(n)

\* A pull request that was not observed since the listing began has a page as new as
\* the newest that any handler began with.
ListOf(n) ==
    /\ newest[n] <= pr[n].version
    /\ listing.phase # "idle" /\ n \notin listing.touched /\ listing.pages[n].open
           => listing.pages[n].version >= newest[n]
ListInv == \A n \in Numbers : ListOf(n)

\* What is open in the cache or a page is a pull request that is known.
LEMMA PagesAreKnown ==
    ASSUME Types, SnapInv, NEW n \in Numbers
    PROVE  /\ \A x \in {cache[n], changes[n], listing.pages[n]} :
                 x.open => /\ x \in Pulls /\ Known(n, x)
                           /\ x.version \in Nat /\ x.at \in Nat /\ x.version <= pr[n].version
           /\ pr[n] \in Pulls /\ pr[n].version \in Nat /\ Known(n, pr[n])
<1>1. \A x \in {cache[n], changes[n], listing.pages[n]} : x.open => x \in Pulls
  BY NothingIsApart DEF Types, GitHubTypes, Listings, Pages
<1>2. \A x \in {cache[n], changes[n], listing.pages[n]} : x.open => Known(n, x)
  BY DEF Known
<1>3. pr[n] \in Pulls /\ Known(n, pr[n])
  BY DEF Types, GitHubTypes, Known
<1>4. \A x \in Pulls : x.version \in Nat /\ x.at \in Nat
  BY DEF Pulls, Versions
<1> QED  BY <1>1, <1>2, <1>3, <1>4 DEF SnapInv

\* Most steps leave the cache and what a listing has read alone.
Aside ==
    /\ UNCHANGED syncVars
    /\ listing'.phase = listing.phase /\ listing'.pages = listing.pages
    /\ listing.phase # "idle" => listing.touched \subseteq listing'.touched

LEMMA MostStepsAside ==
    ASSUME Types, [Next]_vars
    PROVE  \/ Aside \/ Reconcile \/ ListFails \/ Restart
           \/ \E h \in hooks : HookCache(h)
<1>1. ASSUME NEW h \in hooks, Handle(h), ~HookCache(h)  PROVE Aside
  <2>1. h.n \in Numbers
    BY DEF Types, GitHubTypes, Hooks
  <2>2. CASE HookObserve(h)
    BY <2>2 DEF HookObserve, Observe, Types, GitHubTypes, Listings, Aside
  <2>3. CASE HookClose(h)
    BY <2>1, <2>3, CloseKeyIs DEF HookClose, Types, Aside
  <2> QED  BY <1>1, <2>2, <2>3 DEF Handle, HookReview, Retarget, Replace, Aside
<1>2. ASSUME NEW n \in Numbers, Cancel(n)  PROVE Aside
  BY <1>2, CloseKeyIs DEF Cancel, Types, Aside
<1>3. CASE GitHub
  BY <1>3, GitHubIs DEF GitHub, Changed, Aside
<1>4. CASE Lookup \/ LookupFails
  BY <1>4 DEF Lookup, LookupBegin, LookupFetch, LookupEnqueue, LookupFails, Aside
<1>5. CASE \/ \E h \in hooks : LoseHook(h)
           \/ \E n \in Numbers : RunStart(n) \/ RunEnd(n) \/ RunFails(n)
           \/ Configure \/ UNCHANGED vars
  BY <1>5 DEF LoseHook, RunStart, RunEnd, RunFails, Configure, vars, syncVars, Aside
<1> QED  BY <1>1, <1>2, <1>3, <1>4, <1>5 DEF Next, Run, Trouble

LEMMA CacheStep ==
    ASSUME Types, SnapInv, CacheInv, [Next]_vars
    PROVE  CacheInv'
<1> SUFFICES ASSUME NEW n \in Numbers
             PROVE  CacheOf(n)'
  BY DEF CacheInv
<1>1. CacheOf(n) /\ listing \in Listings /\ listing.pages \in Pages
  BY DEF CacheInv, Types, GitHubTypes, Listings
<1>2. CASE Aside
  BY <1>1, <1>2 DEF Aside, CacheOf, syncVars
<1>3. ASSUME NEW h \in hooks, HookCache(h)  PROVE CacheOf(n)'
  <2>1. h.n \in Numbers /\ h.pull \in Pulls
    BY DEF Types, GitHubTypes, Hooks
  <2>2. OpenOrClosed(h.pull) # Unheard
    BY <2>1, OpenOrClosedIs, NothingIsApart
  <2>3. /\ listing' = listing /\ listed' = listed
        /\ changes'[n] = IF n = h.n /\ listing.phase = "reading" THEN OpenOrClosed(h.pull)
                         ELSE changes[n]
        /\ cache'[n] = IF n = h.n /\ listed THEN OpenOrClosed(h.pull) ELSE cache[n]
    BY <1>3, <2>1 DEF HookCache, Types, GitHubTypes
  <2> QED  BY <1>1, <2>2, <2>3 DEF CacheOf
<1>4. CASE Restart
  BY <1>4, NoListingIs DEF Restart, CacheOf
<1>5. CASE ListFails \/ ListEnd
  <2>1. CASE ListFails
    BY <1>1, <2>1, NoListingIs DEF ListFails, CacheOf
  <2>2. CASE ListEnd
    BY <1>1, <2>2, NoListingIs DEF ListEnd, CacheOf, syncVars
  <2> QED  BY <1>5, <2>1, <2>2
<1>6. CASE ListBegin \/ ListAsk
  <2>1. CASE ListBegin
    <3>1. listing'.pages = NoListing.pages /\ UNCHANGED syncVars /\ listing'.phase = "begun"
          /\ listing.phase = "idle"
      BY <2>1, NoListingIs DEF ListBegin, Listings
    <3> QED  BY <1>1, <3>1, NoListingIs, NothingIsApart DEF CacheOf, syncVars
  <2>2. CASE ListAsk
    <3>1. listing'.pages = listing.pages /\ UNCHANGED syncVars /\ listing'.phase = "reading"
          /\ listing.phase = "begun"
      BY <1>1, <2>2 DEF ListAsk, Listings
    <3> QED  BY <1>1, <3>1 DEF CacheOf, syncVars
  <2> QED  BY <1>6, <2>1, <2>2
<1>7. ASSUME NEW m \in Numbers, ListRead(m)  PROVE CacheOf(n)'
  <2>1. /\ listing'.phase = "reading" /\ listing.phase = "reading" /\ UNCHANGED syncVars
        /\ listing'.pages[n] = IF n = m THEN OpenOrClosed(pr[m]) ELSE listing.pages[n]
    BY <1>1, <1>7 DEF ListRead, Listings, Pages
  <2>2. CASE n # m
    BY <1>1, <2>1, <2>2 DEF CacheOf, syncVars
  <2>3. CASE n = m
    <3>1. OpenOrClosed(pr[n]).open => OpenOrClosed(pr[n]) = pr[n]
      BY OpenOrClosedIs, PagesAreKnown
    <3>2. cache[n].open => pr[n].version >= cache[n].version
      BY PagesAreKnown
    <3> QED  BY <1>1, <2>1, <2>3, <3>1, <3>2 DEF CacheOf, syncVars
  <2> QED  BY <2>2, <2>3
<1>8. CASE ListApply
  <2>1. listing'.phase = "applied" /\ listed' = TRUE /\ changes'[n] = Unheard
    BY <1>1, <1>8 DEF ListApply, Listings
  <2> QED  BY <2>1 DEF CacheOf
<1>9. CASE ListObserve \/ \E m \in Numbers : ListEnqueue(m)
  <2>1. /\ UNCHANGED syncVars /\ listing.phase # "reading"
        /\ listing'.phase \notin {"begun", "reading"}
    BY <1>1, <1>9 DEF ListObserve, ListEnqueue, Listings
  <2> QED  BY <1>1, <2>1 DEF CacheOf, syncVars
<1> QED  BY <1>2, <1>3, <1>4, <1>5, <1>6, <1>7, <1>8, <1>9, MostStepsAside DEF Reconcile

LEMMA ListStep ==
    ASSUME Types, SnapInv, ListInv, [Next]_vars
    PROVE  ListInv'
<1> SUFFICES ASSUME NEW n \in Numbers
             PROVE  ListOf(n)'
  BY DEF ListInv
<1>1. ListOf(n) /\ listing \in Listings /\ listing.pages \in Pages
  BY DEF ListInv, Types, GitHubTypes, Listings
<1>2. /\ pr[n].version \in Nat /\ newest[n] \in Nat /\ newest \in [Numbers -> 0..MaxVersion]
      /\ pr \in [Numbers -> Pulls]
  BY PagesAreKnown DEF Types, SeenTypes, GitHubTypes
<1>3. pr'[n].version >= pr[n].version /\ pr'[n].version \in Nat
  <2>1. ASSUME NEW m \in Numbers, Changed(m)
        PROVE  pr'[n].version >= pr[n].version /\ pr'[n].version \in Nat
    BY <1>2, <2>1 DEF Changed
  <2> QED  BY <1>2, <2>1, StepIs DEF Remembered
<1>4. CASE newest'[n] = newest[n] /\ Aside
  BY <1>1, <1>2, <1>3, <1>4 DEF ListOf, Aside
<1>5. ASSUME NEW h \in hooks, HookObserve(h)  PROVE ListOf(n)'
  <2>1. h.n \in Numbers /\ h.pull \in Pulls /\ h.pull.version \in Nat
    BY DEF Types, GitHubTypes, Hooks, Pulls, Versions
  <2>2. h.pull.version <= pr[h.n].version
    BY <2>1 DEF SnapInv, Known
  <2>3. /\ newest'[n] = IF n = h.n /\ newest[n] < h.pull.version THEN h.pull.version ELSE newest[n]
        /\ listing'.phase = listing.phase /\ listing'.pages = listing.pages
        /\ listing.phase # "idle" => listing'.touched = listing.touched \cup {h.n}
        /\ pr' = pr
    BY <1>1, <1>2, <1>5, <2>1 DEF HookObserve, Observe, Listings
  <2> QED  BY <1>1, <1>2, <2>1, <2>2, <2>3 DEF ListOf
<1>6. newest' = newest \/ \E h \in hooks : HookObserve(h)
  <2>1. CASE GitHub
    BY <2>1, GitHubIs DEF GitHub, Changed, historyVars
  <2> QED  BY <2>1 DEF Next, Handle, HookCache, HookReview, HookClose, Retarget, Replace,
     Reconcile, ListBegin, ListAsk, ListRead, ListApply, ListObserve, ListEnqueue, ListEnd, Lookup,
     LookupBegin, LookupFetch, LookupEnqueue, Cancel, Run, RunStart, RunEnd, Configure, Trouble,
     LoseHook, ListFails, LookupFails, RunFails, Restart, historyVars, vars
<1>7. CASE newest' = newest /\ \E h \in hooks : HookCache(h)
  BY <1>1, <1>2, <1>3, <1>7 DEF ListOf, HookCache
<1>8. CASE newest' = newest /\ (Restart \/ ListFails \/ ListEnd \/ ListBegin)
  <2>1. listing'.phase = "idle" \/ ~listing'.pages[n].open
    <3>1. CASE ListBegin
      BY <3>1, NoListingIs, NothingIsApart DEF ListBegin, Listings
    <3> QED  BY <1>8, <3>1, NoListingIs DEF Restart, ListFails, ListEnd
  <2> QED  BY <1>1, <1>2, <1>3, <1>8, <2>1 DEF ListOf
<1>9. ASSUME NEW m \in Numbers, ListRead(m), newest' = newest  PROVE ListOf(n)'
  <2>1. /\ listing'.phase = listing.phase /\ listing'.touched = listing.touched
        /\ listing'.pages[n] = IF n = m THEN OpenOrClosed(pr[m]) ELSE listing.pages[n]
        /\ pr' = pr /\ listing.phase # "idle"
    BY <1>1, <1>9 DEF ListRead, Listings, Pages
  <2>2. OpenOrClosed(pr[n]).open => OpenOrClosed(pr[n]) = pr[n]
    BY OpenOrClosedIs, PagesAreKnown
  <2> QED  BY <1>1, <1>2, <1>9, <2>1, <2>2 DEF ListOf
<1>10. CASE newest' = newest /\ (ListAsk \/ ListApply \/ ListObserve \/ \E m \in Numbers : ListEnqueue(m))
  <2>1. /\ listing'.pages = listing.pages /\ listing'.touched = listing.touched
        /\ listing.phase # "idle"
    BY <1>1, <1>10 DEF ListAsk, ListApply, ListObserve, ListEnqueue, Listings
  <2> QED  BY <1>1, <1>2, <1>3, <1>10, <2>1 DEF ListOf
<1> QED  BY <1>4, <1>5, <1>6, <1>7, <1>8, <1>9, <1>10, MostStepsAside DEF Reconcile

\* A review that was committed is what the checkpoint has.
SeenInv == \A n \in Numbers : reviewed[n] \in {seen[n], NoContent}

\* What waits behind a run that nobody told to stop is the same content.
BehindInv == \A n \in Numbers :
    pending[n] # NoJob /\ Alive(n) => pending[n].content = running[n].job.content

LEMMA SeenStep ==
    ASSUME Types, SeenInv, [Next]_vars
    PROVE  SeenInv'
<1> SUFFICES ASSUME NEW n \in Numbers
             PROVE  reviewed'[n] \in {seen'[n], NoContent}
  BY DEF SeenInv
<1>1. reviewed[n] \in {seen[n], NoContent}
  BY DEF SeenInv
<1>2. CASE UNCHANGED <<seen, reviewed>>
  BY <1>1, <1>2
<1>3. CASE ListObserve
  <2>1. seen'[n] = Baseline(n) /\ reviewed' = reviewed
    BY <1>3 DEF ListObserve, historyVars
  <2>2. Baseline(n) = seen[n] \/ seen[n] = NoContent
    BY DEF Baseline
  <2> QED  BY <1>1, <2>1, <2>2
<1>4. ASSUME NEW m \in Numbers, RunEnd(m)  PROVE reviewed'[n] \in {seen'[n], NoContent}
  <2>1. CASE n = m /\ ~running[m].cancel
    BY <1>4, <2>1 DEF RunEnd, Types, SeenTypes
  <2>2. CASE n # m \/ running[m].cancel
    BY <1>1, <1>4, <2>2 DEF RunEnd, Types, SeenTypes
  <2> QED  BY <2>1, <2>2
<1>5. CASE GitHub
  BY <1>2, <1>5, GitHubIs DEF GitHub, Changed, historyVars
<1>6. ASSUME NEW h \in hooks, Handle(h)  PROVE UNCHANGED <<seen, reviewed>>
  BY <1>6 DEF Handle, HookObserve, HookCache, HookReview, HookClose, Retarget, Replace,
     historyVars
<1>7. Reconcile \/ ListFails => ListObserve \/ UNCHANGED <<seen, reviewed>>
  BY DEF Reconcile, ListBegin, ListAsk, ListRead, ListApply, ListEnqueue, ListEnd, ListFails,
     historyVars
<1>8. Lookup \/ LookupFails \/ (\E m \in Numbers : Cancel(m)) => UNCHANGED <<seen, reviewed>>
  BY DEF Lookup, LookupBegin, LookupFetch, LookupEnqueue, LookupFails, Cancel, historyVars
<1>9. \/ \E m \in Numbers : RunStart(m) \/ RunFails(m)
      \/ Configure \/ (\E h \in hooks : LoseHook(h)) \/ Restart \/ UNCHANGED vars
      => UNCHANGED <<seen, reviewed>>
  BY DEF RunStart, RunFails, Configure, LoseHook, Restart, vars, historyVars
<1> QED  BY <1>2, <1>3, <1>4, <1>5, <1>6, <1>7, <1>8, <1>9 DEF Next, Run, Trouble

-------------------------------------------------------------------------------
(* The steps that touch the queue.                                         *)

\* A review of `pull' is enqueued for n, in the sense of EnqueueIs.
Enqueued(n, pull) ==
    /\ \A m \in Numbers \ {n} : /\ pending'[m] = pending[m] /\ running'[m] = running[m]
                                /\ m \in skipped' <=> m \in skipped
    /\ \/ /\ Alive(n) /\ running[n].job.content = Content(pull)
          /\ UNCHANGED queueVars
       \/ /\ configured => /\ pending'[n] # NoJob /\ n \notin skipped'
                           /\ pending'[n].content = Content(pull)
                           /\ pending'[n].version = pull.version
          /\ ~configured => pending'[n] = NoJob /\ n \in skipped'
          /\ running'[n].job = running[n].job
          /\ Alive(n)' => Alive(n) /\ running[n].job.content = Content(pull)

LEMMA EnqueuedIs ==
    ASSUME Types, NEW n \in Numbers, NEW pull \in Pulls, NEW asked \in BOOLEAN,
           Enqueue(n, Job(pull, asked))
    PROVE  Enqueued(n, pull)
<1> DEFINE new == Job(pull, asked)
<1>1. /\ new \in Jobs /\ new # NoJob /\ new.content = Content(pull) /\ new.version = pull.version
  BY JobIs
<1>2. Enqueue(n, new)
  OBVIOUS
<1> HIDE DEF new
<1>3. QueueTypes /\ configured \in BOOLEAN
  BY DEF Types, SeenTypes
<1>4. /\ \A m \in Numbers \ {n} : /\ pending'[m] = pending[m] /\ running'[m] = running[m]
                                  /\ m \in skipped' <=> m \in skipped
      /\ running'[n].job = running[n].job
      /\ \/ /\ Alive(n) /\ running[n].job.content = new.content
            /\ UNCHANGED <<pending, running, skipped>>
         \/ /\ pending'[n] = IF configured THEN new ELSE NoJob
            /\ n \in skipped' <=> ~configured
            /\ Alive(n)' => Alive(n) /\ running[n].job.content = new.content
  BY <1>1, <1>2, <1>3, EnqueueIs
<1> QED  BY <1>1, <1>3, <1>4 DEF Enqueued, queueVars

\* Work for n goes, and nothing comes: what waits may go, a run may be told to stop.
Withdrawn(n) ==
    /\ skipped' = skipped
    /\ \A m \in Numbers \ {n} : pending'[m] = pending[m] /\ running'[m] = running[m]
    /\ pending'[n] \in {pending[n], NoJob}
    /\ Alive(n)' => Alive(n) /\ running'[n].job = running[n].job

\* Every step leaves the queue alone, enqueues what a webhook, a page or an admitted
\* lookup has, withdraws work, starts or ends a run, or empties the queue.
QueueStep ==
    \/ UNCHANGED queueVars
    \/ \E h \in hooks : (HookReview(h) \/ (Replace(h) /\ h.admitted)) /\ Enqueued(h.n, h.pull)
    \/ \E n \in Numbers : ListEnqueue(n) /\ Admissible(n) /\ Enqueued(n, listing.pages[n])
    \/ LookupEnqueue /\ lookup.admitted /\ lookup.n \in Numbers /\ Enqueued(lookup.n, lookup.pull)
    \/ \E h \in hooks : (HookClose(h) \/ Retarget(h)) /\ Withdrawn(h.n)
    \/ \E n \in Numbers : (Cancel(n) \/ RunFails(n)) /\ Withdrawn(n)
    \/ \E n \in Numbers : RunStart(n) \/ RunEnd(n)
    \/ Restart

LEMMA QueueStepIs ==
    ASSUME Types, [Next]_vars
    PROVE  QueueStep
<1>1. ASSUME NEW h \in hooks, Handle(h)  PROVE QueueStep
  <2>1. h.n \in Numbers /\ h.pull \in Pulls /\ h.asked \in BOOLEAN
    BY DEF Types, GitHubTypes, Hooks
  <2>2. CASE HookReview(h)
    <3>1. Enqueue(h.n, Job(h.pull, FALSE))
      BY <2>2 DEF HookReview
    <3>2. Enqueued(h.n, h.pull)
      BY <2>1, <3>1, EnqueuedIs
    <3>3. \E k \in hooks : (HookReview(k) \/ (Replace(k) /\ k.admitted)) /\ Enqueued(k.n, k.pull)
      BY <2>2, <3>2, Zenon
    <3> QED  BY <3>3 DEF QueueStep
  <2>3. CASE Replace(h) /\ h.admitted
    <3>1. Enqueue(h.n, Job(h.pull, h.asked))
      BY <2>3 DEF Replace
    <3>2. Enqueued(h.n, h.pull)
      BY <2>1, <3>1, EnqueuedIs
    <3> QED  BY <2>3, <3>2 DEF QueueStep
  <2>4. CASE HookClose(h)
    <3>1. CloseKey(h.n) /\ QueueTypes /\ GitHubTypes
      BY <2>4 DEF HookClose, Types
    <3>2. Withdrawn(h.n)
      BY <2>1, <3>1, CloseKeyIs DEF Withdrawn
    <3> QED  BY <2>4, <3>2 DEF QueueStep
  <2>5. CASE Retarget(h)
    <3>1. Withdrawn(h.n)
      BY <2>5, RetargetIs DEF Withdrawn, Alive
    <3> QED  BY <2>5, <3>1 DEF QueueStep
  <2>6. CASE HookObserve(h) \/ HookCache(h) \/ (Replace(h) /\ ~h.admitted)
    BY <2>6 DEF HookObserve, HookCache, Replace, QueueStep
  <2> QED  BY <1>1, <2>2, <2>3, <2>4, <2>5, <2>6 DEF Handle
<1>2. CASE Reconcile \/ ListFails
  <2>1. ASSUME NEW n \in Numbers, ListEnqueue(n), Admissible(n)  PROVE QueueStep
    <3>1. listing.pages[n] \in Pulls
      <4>1. listing.pages[n] \in OpenPulls \cup {Closed, Unheard} /\ listing.pages[n].open
        BY <2>1 DEF ListEnqueue, Types, Aims, GitHubTypes, Listings, Pages
      <4> QED  BY <4>1, NothingIsApart
    <3>2. Enqueued(n, listing.pages[n])
      BY <2>1, <3>1, EnqueuedIs DEF ListEnqueue
    <3> QED  BY <2>1, <3>2 DEF QueueStep
  <2>2. ASSUME NEW n \in Numbers, ListEnqueue(n), ~Admissible(n)  PROVE UNCHANGED queueVars
    BY <2>2 DEF ListEnqueue
  <2>3. ASSUME NEW n \in Numbers, ListRead(n)  PROVE UNCHANGED queueVars
    BY <2>3 DEF ListRead
  <2>4. CASE ListBegin \/ ListAsk \/ ListApply \/ ListObserve \/ ListEnd \/ ListFails
    BY <2>4 DEF ListBegin, ListAsk, ListApply, ListObserve, ListEnd, ListFails, QueueStep
  <2> QED  BY <1>2, <2>1, <2>2, <2>3, <2>4 DEF Reconcile, QueueStep
<1>3. CASE Lookup \/ LookupFails
  <2>1. CASE LookupEnqueue /\ lookup.admitted
    <3>1. lookup.n \in Numbers /\ lookup.pull \in Pulls
      BY <2>1, NothingIsApart DEF LookupEnqueue, Types, Aims, GitHubTypes, Lookups
    <3>2. Enqueued(lookup.n, lookup.pull)
      BY <2>1, <3>1, EnqueuedIs DEF LookupEnqueue
    <3> QED  BY <2>1, <3>1, <3>2 DEF QueueStep
  <2>2. CASE (LookupEnqueue /\ ~lookup.admitted) \/ LookupFetch \/ LookupFails
    BY <2>2 DEF LookupEnqueue, LookupFetch, LookupFails, QueueStep
  <2>3. ASSUME NEW n \in Numbers, LookupBegin(n)  PROVE UNCHANGED queueVars
    BY <2>3 DEF LookupBegin
  <2> QED  BY <1>3, <2>1, <2>2, <2>3 DEF Lookup, QueueStep
<1>4. ASSUME NEW n \in Numbers, Cancel(n)  PROVE QueueStep
  <2>1. CloseKey(n) /\ QueueTypes /\ GitHubTypes
    BY <1>4 DEF Cancel, Types
  <2>2. Withdrawn(n)
    BY <2>1, CloseKeyIs DEF Withdrawn
  <2> QED  BY <1>4, <2>2 DEF QueueStep
<1>5. ASSUME NEW n \in Numbers, RunFails(n)  PROVE QueueStep
  <2>1. Withdrawn(n)
    BY <1>5 DEF RunFails, Withdrawn, Types, QueueTypes, Alive
  <2> QED  BY <1>5, <2>1 DEF QueueStep
<1>6. CASE GitHub
  BY <1>6, GitHubIs DEF GitHub, Changed, QueueStep
<1>7. CASE (\E h \in hooks : LoseHook(h)) \/ Configure \/ UNCHANGED vars
  BY <1>7 DEF LoseHook, Configure, vars, QueueStep, queueVars
<1>8. CASE (\E n \in Numbers : RunStart(n) \/ RunEnd(n)) \/ Restart
  BY <1>8 DEF QueueStep
<1> QED  BY <1>1, <1>2, <1>3, <1>4, <1>5, <1>6, <1>7, <1>8 DEF Next, Run, Trouble

LEMMA BehindStep ==
    ASSUME Types, BehindInv, [Next]_vars
    PROVE  BehindInv'
<1> SUFFICES ASSUME NEW n \in Numbers, (pending[n] # NoJob)', Alive(n)'
             PROVE  pending'[n].content = running'[n].job.content
  BY DEF BehindInv, Alive
<1>1. pending[n] # NoJob /\ Alive(n) => pending[n].content = running[n].job.content
  BY DEF BehindInv
<1>2. CASE pending'[n] = pending[n] /\ running'[n] = running[n]
  BY <1>1, <1>2 DEF Alive
<1>3. ASSUME NEW m \in Numbers, NEW pull \in Pulls, Enqueued(m, pull)
      PROVE  pending'[n].content = running'[n].job.content
  <2>1. CASE n # m
    BY <1>2, <1>3, <2>1 DEF Enqueued
  <2>2. CASE n = m /\ UNCHANGED queueVars
    BY <1>2, <2>2 DEF queueVars
  <2>3. CASE n = m /\ ~UNCHANGED queueVars
    BY <1>3, <2>3 DEF Enqueued, Types, SeenTypes
  <2> QED  BY <2>1, <2>2, <2>3
<1>4. ASSUME NEW m \in Numbers, Withdrawn(m)
      PROVE  pending'[n].content = running'[n].job.content
  <2>1. CASE n # m
    BY <1>2, <1>4, <2>1 DEF Withdrawn
  <2>2. CASE n = m
    BY <1>1, <1>4, <2>2 DEF Withdrawn
  <2> QED  BY <2>1, <2>2
<1>5. ASSUME NEW m \in Numbers, RunStart(m)
      PROVE  pending'[n].content = running'[n].job.content
  <2>1. n # m => running'[n] = NotRunning
    BY <1>5 DEF RunStart, Types, QueueTypes
  <2>2. n = m => pending'[n] = NoJob
    BY <1>5 DEF RunStart, Types, QueueTypes
  <2> QED  BY <2>1, <2>2 DEF Alive
<1>6. ASSUME NEW m \in Numbers, RunEnd(m)
      PROVE  pending'[n].content = running'[n].job.content
  <2>1. n # m => pending'[n] = pending[n] /\ running'[n] = running[n]
    BY <1>6 DEF RunEnd, Types, QueueTypes
  <2>2. n = m => running'[n] = NotRunning
    BY <1>6 DEF RunEnd, Types, QueueTypes
  <2> QED  BY <1>2, <2>1, <2>2 DEF Alive
<1>7. CASE Restart
  BY <1>7 DEF Restart
<1>8. CASE UNCHANGED queueVars
  BY <1>2, <1>8 DEF queueVars
<1>9. /\ \A h \in hooks : h.n \in Numbers /\ h.pull \in Pulls
      /\ \A m \in Numbers : ListEnqueue(m) => listing.pages[m] \in Pulls
      /\ LookupEnqueue => lookup.pull \in Pulls
  <2>1. \A h \in hooks : h.n \in Numbers /\ h.pull \in Pulls
    BY DEF Types, GitHubTypes, Hooks
  <2>2. ASSUME NEW m \in Numbers, ListEnqueue(m)  PROVE listing.pages[m] \in Pulls
    <3>1. listing.pages[m] \in OpenPulls \cup {Closed, Unheard} /\ listing.pages[m].open
      BY <2>2 DEF ListEnqueue, Types, Aims, GitHubTypes, Listings, Pages
    <3> QED  BY <3>1, NothingIsApart
  <2>3. LookupEnqueue => lookup.pull \in Pulls
    BY NothingIsApart DEF LookupEnqueue, Types, Aims, GitHubTypes, Lookups
  <2> QED  BY <2>1, <2>2, <2>3
<1> QED  BY <1>3, <1>4, <1>5, <1>6, <1>7, <1>8, <1>9, QueueStepIs DEF QueueStep

-------------------------------------------------------------------------------
(* The theorems that hold whatever goes wrong.                             *)

IInv == Types /\ SnapInv /\ CacheInv /\ ListInv /\ SeenInv /\ BehindInv

LEMMA IInvInit == Init => IInv
<1> SUFFICES ASSUME Init  PROVE IInv
  OBVIOUS
<1>1. Types /\ SnapInv
  BY InitTypes, SnapInit
<1>2. CacheInv
  BY NoListingIs, NothingIsApart DEF Init, CacheInv, CacheOf
<1>3. ListInv
  <2>1. \A n \in Numbers : newest[n] = 0 /\ pr[n].version \in Nat /\ listing.phase = "idle"
    BY <1>1, PagesAreKnown, NoListingIs DEF Init
  <2> QED  BY <2>1 DEF ListInv, ListOf
<1>4. SeenInv
  BY DEF Init, SeenInv
<1>5. BehindInv
  BY DEF Init, BehindInv
<1> QED  BY <1>1, <1>2, <1>3, <1>4, <1>5 DEF IInv

LEMMA IInvStep == IInv /\ [Next]_vars => IInv'
BY TypesStep, SnapStep, CacheStep, ListStep, SeenStep, BehindStep DEF IInv

LEMMA IInvHolds == Spec => []IInv
BY IInvInit, IInvStep, PTL DEF Spec

\* What the merge leaves is at least as new as what the cache had, and nothing that
\* a webhook closed.
LEMMA MergeKeepsUp ==
    ASSUME IInv, ListApply, NEW n \in Numbers, cache'[n].open
    PROVE  /\ cache[n].open => cache'[n].version >= cache[n].version
           /\ changes[n] # Unheard => changes[n].open
<1> DEFINE read  == listing.pages[n]
           known == IF read.open /\ cache[n].open /\ cache[n].at > read.at THEN cache[n] ELSE read
<1>1. /\ cache'[n] = Merged(n) /\ listing.phase = "reading" /\ read # Unheard
  BY DEF ListApply
<1>2. Merged(n) = IF changes[n] = Unheard \/ (changes[n].open /\ known.open /\ changes[n].at < known.at)
                  THEN known ELSE changes[n]
  BY DEF Merged
<1>3. Types /\ SnapInv /\ CacheOf(n)
  BY DEF IInv, CacheInv
<1>4. /\ \A x \in {cache[n], changes[n], read} :
            x.open => /\ x \in Pulls /\ Known(n, x) /\ x.version \in Nat /\ x.at \in Nat
      /\ cache[n] \in OpenPulls \cup {Closed} /\ changes[n] \in OpenPulls \cup {Closed, Unheard}
  BY <1>3, PagesAreKnown DEF Types, GitHubTypes
<1>5. cache[n].open => listed
  BY <1>3, NothingIsApart DEF CacheOf
<1>6. CASE changes[n] = Unheard
  <2>1. cache'[n] = known
    BY <1>1, <1>2, <1>6
  <2>2. cache[n].open /\ read.open => read.version >= cache[n].version
    BY <1>1, <1>3, <1>6 DEF CacheOf
  <2> HIDE DEF read
  <2>3. cache[n].open => cache'[n].version >= cache[n].version
    BY <1>4, <2>1, <2>2
  <2> QED  BY <1>6, <2>3
<1>7. CASE changes[n] # Unheard /\ Merged(n) = changes[n]
  BY <1>1, <1>3, <1>4, <1>5, <1>7 DEF CacheOf
<1>8. CASE changes[n] # Unheard /\ changes[n].open /\ known.open /\ changes[n].at < known.at
  <2> SUFFICES ASSUME cache[n].open  PROVE cache'[n].version >= cache[n].version
    BY <1>8
  <2>1. cache[n] = changes[n] /\ cache'[n] = known
    BY <1>1, <1>2, <1>3, <1>5, <1>8 DEF CacheOf
  <2>2. cache[n].version \in Nat /\ cache[n].at \in Nat
    BY <1>4
  <2>3. known = read
    <3> HIDE DEF read
    <3> QED  BY <1>8, <2>1, <2>2
  <2>4. read.open /\ cache[n].at < read.at
    BY <1>8, <2>1, <2>3
  <2> HIDE DEF read, known
  <2>5. Coherent(read, cache[n]) /\ read.version \in Nat /\ read.at \in Nat
    BY <1>3, <1>4, <2>4 DEF SnapInv
  <2> QED  BY <2>1, <2>2, <2>3, <2>4, <2>5 DEF Coherent
<1> QED  BY <1>2, <1>6, <1>7, <1>8

\* A listing never takes the cache back behind what a webhook said, whatever is lost,
\* late or out of order: cache.rs merges by time, and times tell versions apart well
\* enough.
THEOREM KeepsWebhookData == Spec => ListingKeepsWebhookData
<1>1. IInv /\ [Next]_vars =>
        [ListApply => \A n \in Numbers : cache'[n].open =>
             /\ cache[n].open => cache'[n].version >= cache[n].version
             /\ changes[n] # Unheard => changes[n].open]_vars
  BY MergeKeepsUp
<1> QED  BY <1>1, IInvHolds, PTL DEF Spec, ListingKeepsWebhookData

\* What the background check puts into the queue is the page it read.
LEMMA ListEnqueues ==
    ASSUME IInv, NEW n \in Numbers, ListEnqueue(n), pending'[n] # pending[n], pending'[n] # NoJob
    PROVE  /\ Admissible(n) /\ listing.pages[n] \in Pulls /\ listing.pages[n].open
           /\ listing.phase = "observed"
           /\ pending'[n].version = listing.pages[n].version
           /\ pending'[n].content = Content(listing.pages[n])
<1>1. Admissible(n) /\ Enqueue(n, Job(listing.pages[n], FALSE))
  BY DEF ListEnqueue, queueVars
<1>2. listing.phase = "observed" /\ listing.pages[n].open
  BY DEF ListEnqueue, IInv, Types, Aims
<1>3. listing.pages[n] \in Pulls
  BY <1>2, PagesAreKnown DEF IInv
<1>4. Enqueued(n, listing.pages[n])
  BY <1>1, <1>3, EnqueuedIs DEF IInv
<1>5. configured \in BOOLEAN
  BY DEF IInv, Types, SeenTypes
<1> QED  BY <1>1, <1>2, <1>3, <1>4, <1>5 DEF Enqueued, queueVars

\* The background check never replaces newer work: no fault lets it put a version into
\* the queue that is older than one a webhook handler has begun with.
THEOREM BackgroundAddsNewest == Spec => BackgroundIsNewest
<1>1. ASSUME IInv, NEW n \in Numbers, ListEnqueue(n), pending'[n] # pending[n], pending'[n] # NoJob
      PROVE  pending'[n].version >= newest[n]
  <2>1. ListOf(n)
    BY <1>1 DEF IInv, ListInv
  <2> QED  BY <1>1, <2>1, ListEnqueues DEF ListOf, Admissible
<1>2. IInv /\ [Next]_vars =>
        [\A n \in Numbers : ListEnqueue(n) /\ pending'[n] # pending[n] /\ pending'[n] # NoJob
             => pending'[n].version >= newest[n]]_vars
  BY <1>1
<1> QED  BY <1>2, IInvHolds, PTL DEF Spec, BackgroundIsNewest

\* A pull request's content is never the empty one.
LEMMA ContentIsSomething ==
    ASSUME NEW p \in Pulls
    PROVE  Content(p) # NoContent
<1>1. Content(p).head = p.head /\ NoContent.head = "" /\ p.head \in Heads
  BY DEF Content, NoContent, Pulls
<1> QED  BY <1>1, HeadsAssumption

\* The background check never repeats a review that was committed after it had chosen
\* its candidates, because it looks at the checkpoint again under the queue lock.
THEOREM NothingIsRepeated == Spec => FinishedIsNotRepeated
<1>1. ASSUME IInv, NEW n \in Numbers, ListEnqueue(n), pending'[n] # pending[n], n \notin skipped
      PROVE  pending'[n].content # reviewed[n]
  <2>1. CASE pending'[n] # NoJob
    <3>1. /\ pending'[n].content = Content(listing.pages[n]) /\ listing.pages[n] \in Pulls
          /\ seen[n] # Content(listing.pages[n])
      BY <1>1, <2>1, ListEnqueues DEF Admissible
    <3>2. reviewed[n] \in {seen[n], NoContent}
      BY <1>1 DEF IInv, SeenInv
    <3> QED  BY <3>1, <3>2, ContentIsSomething
  <2>2. CASE pending'[n] = NoJob
    <3>1. ~Admissible(n)
      BY <1>1, <2>2 DEF Admissible, Contains
    <3> QED  BY <1>1, <3>1 DEF ListEnqueue, queueVars
  <2> QED  BY <2>1, <2>2
<1>2. IInv /\ [Next]_vars =>
        [\A n \in Numbers : ListEnqueue(n) /\ pending'[n] # pending[n] /\ n \notin skipped
             => pending'[n].content # reviewed[n]]_vars
  BY <1>1
<1> QED  BY <1>2, IInvHolds, PTL DEF Spec, FinishedIsNotRepeated

-------------------------------------------------------------------------------
(* While webhooks are handled one at a time and in order, if they arrive.  *)

InOrder == Faults \cap {"reordered", "overlapping"} = {}

\* Nobody has asked or cancelled, and nothing has failed.
Quiet == used = [lookups |-> 0, cancels |-> 0, faults |-> 0]

\* A version is announced once.
OneEach == \A g, h \in hooks : g.n = h.n /\ g.pull.version = h.pull.version => g = h

\* A webhook says what it is about, and is newer than the last close; a handler has
\* begun with nothing that is as new as one that is still to come, and works on the
\* oldest there is.  Only a cancellation takes the token of a change of base.
OrderOf(h) ==
    /\ h.kind = "close" <=> ~h.pull.open
    /\ h.pull.version > closed[h.n]
    /\ h.stage = "sent" => newest[h.n] < h.pull.version
    /\ h.stage # "sent" =>
          /\ newest[h.n] = h.pull.version
          /\ \A g \in hooks : g.n = h.n /\ g # h => g.pull.version > h.pull.version
    /\ Quiet /\ h.stage = "retargeted" => h.admitted
OrderInv == OneEach /\ \A h \in hooks : OrderOf(h)

\* What a lookup with a token or a page of a pull request that was not observed has
\* is newer than the last close.
ClosedOf(n) ==
    /\ closed[n] <= pr[n].version
    /\ closed[n] = pr[n].version => ~pr[n].open
    /\ lookup.phase = "fetched" /\ lookup.admitted /\ lookup.n = n
           => lookup.pull.version > closed[n]
    /\ listing.phase # "idle" /\ n \notin listing.touched /\ listing.pages[n].open
           => listing.pages[n].version > closed[n]
ClosedInv == \A n \in Numbers : ClosedOf(n)

\* Numbers and versions.
LEMMA HookIs ==
    ASSUME Types, SnapInv, NEW h \in hooks
    PROVE  /\ h \in Hooks /\ h.n \in Numbers /\ h.pull \in Pulls /\ h.pull.version \in Nat
           /\ h.pull.version <= pr[h.n].version
           /\ h.pull.version = pr[h.n].version => h.pull = pr[h.n]
<1>1. h \in Hooks /\ h.n \in Numbers /\ h.pull \in Pulls /\ h.pull.version \in Nat
  BY DEF Types, GitHubTypes, Hooks, Pulls, Versions
<1>2. Known(h.n, h.pull) /\ Known(h.n, pr[h.n]) /\ pr[h.n] \in Pulls
  BY <1>1, PagesAreKnown DEF Known
<1>3. h.pull.version <= pr[h.n].version /\ Coherent(h.pull, pr[h.n])
  BY <1>1, <1>2 DEF SnapInv
<1> QED  BY <1>1, <1>3 DEF Coherent

LEMMA NumbersAre ==
    ASSUME Types, NEW n \in Numbers
    PROVE  /\ pr[n] \in Pulls /\ pr[n].version \in Nat /\ pr[n].open \in BOOLEAN
           /\ newest[n] \in Nat /\ closed[n] \in Nat
BY DEF Types, GitHubTypes, SeenTypes, Pulls, Versions

\* A quiet step follows a quiet state, and is none that asks, cancels or fails.
LEMMA QuietStep ==
    ASSUME Types, [Next]_vars, Quiet'
    PROVE  /\ Quiet /\ ~Fault
           /\ \A n \in Numbers : ~Cancel(n) /\ ~LookupBegin(n)
<1>1. used \in [lookups : 0..MaxLookups, cancels : 0..MaxCancels, faults : 0..MaxFaults]
  BY DEF Types, SeenTypes
<1>2. used'.lookups = 0 /\ used'.cancels = 0 /\ used'.faults = 0
  BY DEF Quiet
<1>3. ~Fault
  BY <1>1, <1>2 DEF Fault
<1>4. \A n \in Numbers : ~Cancel(n) /\ ~LookupBegin(n)
  BY <1>1, <1>2 DEF Cancel, LookupBegin
<1>5. used' = used
  <2>1. CASE GitHub
    BY <2>1, GitHubIs DEF GitHub, Changed
  <2>2. ASSUME NEW h \in hooks, Handle(h)  PROVE used' = used
    BY <2>2 DEF Handle, HookObserve, HookCache, HookReview, HookClose, Retarget, Replace
  <2>3. CASE Reconcile
    BY <2>3 DEF Reconcile, ListBegin, ListAsk, ListRead, ListApply, ListObserve, ListEnqueue, ListEnd
  <2>4. CASE Lookup
    BY <1>4, <2>4 DEF Lookup, LookupFetch, LookupEnqueue
  <2>5. CASE Run \/ Configure \/ UNCHANGED vars
    BY <2>5 DEF Run, RunStart, RunEnd, Configure, vars
  <2>6. ~Trouble
    BY <1>3 DEF Trouble, LoseHook, ListFails, LookupFails, RunFails, Restart
  <2> QED  BY <1>4, <2>1, <2>2, <2>3, <2>4, <2>5, <2>6 DEF Next
<1> QED  BY <1>3, <1>4, <1>5 DEF Quiet

\* How a step may leave the webhooks.
LEMMA HooksAre ==
    ASSUME Types, [Next]_vars
    PROVE  \/ hooks' \subseteq hooks /\ UNCHANGED <<newest, closed>>
           \/ \E n \in Numbers : Changed(n)
           \/ \E n \in Numbers : Cancel(n)
           \/ \E h \in hooks : Handle(h)
<1>1. CASE GitHub
  BY <1>1, GitHubIs DEF GitHub
<1>2. CASE Reconcile \/ Lookup
  BY <1>2 DEF Reconcile, ListBegin, ListAsk, ListRead, ListApply, ListObserve, ListEnqueue, ListEnd,
     Lookup, LookupBegin, LookupFetch, LookupEnqueue, historyVars
<1>3. CASE Run \/ Configure \/ UNCHANGED vars
  BY <1>3 DEF Run, RunStart, RunEnd, Configure, vars, historyVars
<1>4. CASE Trouble
  BY <1>4 DEF Trouble, LoseHook, ListFails, LookupFails, RunFails, Restart, historyVars
<1> QED  BY <1>1, <1>2, <1>3, <1>4 DEF Next

\* The webhook of a change that was just made.
SentFor(h, n) ==
    /\ h.n = n /\ h.stage = "sent" /\ h.pull = pr'[n]
    /\ h.pull.version = pr[n].version + 1
    /\ h.kind = "close" <=> ~h.pull.open

LEMMA ChangeSends ==
    ASSUME NEW n \in Numbers, Changed(n)
    PROVE  \E new : hooks' = hooks \cup {new} /\ SentFor(new, n)
<1>1. PICK kind \in {"review", "retarget", "close"} :
        /\ pr'[n].version = pr[n].version + 1
        /\ kind = "close" <=> ~pr'[n].open
        /\ hooks' = hooks \cup {[n |-> n, kind |-> kind, pull |-> pr'[n],
                       stage |-> "sent", admitted |-> FALSE, asked |-> FALSE]}
  BY DEF Changed
<1> DEFINE new == [n |-> n, kind |-> kind, pull |-> pr'[n],
                   stage |-> "sent", admitted |-> FALSE, asked |-> FALSE]
<1>2. new.n = n /\ new.kind = kind /\ new.pull = pr'[n] /\ new.stage = "sent"
  OBVIOUS
<1>3. hooks' = hooks \cup {new}
  BY <1>1
<1> HIDE DEF new
<1>4. SentFor(new, n)
  BY <1>1, <1>2 DEF SentFor
<1> QED  BY <1>3, <1>4

LEMMA OneEachStep ==
    ASSUME Types, SnapInv, OneEach, [Next]_vars
    PROVE  OneEach'
<1> SUFFICES ASSUME NEW g \in hooks', NEW h \in hooks', g.n = h.n,
                    g.pull.version = h.pull.version
             PROVE  g = h
  BY DEF OneEach
<1>1. \A a, b \in hooks : a.n = b.n /\ a.pull.version = b.pull.version => a = b
  BY DEF OneEach
<1>2. CASE hooks' \subseteq hooks
  BY <1>1, <1>2
<1>3. ASSUME NEW n \in Numbers, Changed(n)  PROVE g = h
  <2>1. PICK new : hooks' = hooks \cup {new} /\ SentFor(new, n)
    BY <1>3, ChangeSends
  <2>2. \A k \in hooks : k.n = n => k.pull.version # pr[n].version + 1
    BY HookIs, NumbersAre
  <2> QED  BY <1>1, <2>1, <2>2 DEF SentFor
<1>4. ASSUME NEW n, NEW others \in SUBSET hooks, hooks' = Expelled(n, others)  PROVE g = h
  <2>1. others \subseteq Hooks
    BY DEF Types, GitHubTypes
  <2>2. PICK a \in others : Like(g, a) /\ g = [a EXCEPT !.admitted = @ /\ a.n # n]
    BY <1>4, <2>1, ExpelledIs
  <2>3. PICK b \in others : Like(h, b) /\ h = [b EXCEPT !.admitted = @ /\ b.n # n]
    BY <1>4, <2>1, ExpelledIs
  <2>4. a \in hooks /\ b \in hooks /\ a.n = b.n /\ a.pull.version = b.pull.version
    <3>1. Like(g, a) /\ Like(h, b)
      BY <2>2, <2>3
    <3> QED  BY <3>1 DEF Like
  <2>5. a = b
    BY <1>1, <2>4
  <2> QED  BY <2>2, <2>3, <2>5
<1>5. ASSUME NEW k \in hooks, NEW new, Like(new, k), hooks' = (hooks \ {k}) \cup {new}
      PROVE  g = h
  BY <1>1, <1>5 DEF Like
<1>6. ASSUME NEW n \in Numbers, Cancel(n)  PROVE g = h
  BY <1>4, <1>6 DEF Cancel
<1>7. ASSUME NEW k \in hooks, Handle(k)  PROVE g = h
  <2>1. CASE hooks' = hooks \ {k}
    BY <1>2, <2>1
  <2>2. CASE hooks' = Expelled(k.n, hooks \ {k})
    BY <1>4, <2>2
  <2>3. CASE \E new \in Hooks : Like(new, k) /\ hooks' = (hooks \ {k}) \cup {new}
    BY <1>5, <2>3
  <2> QED  BY <1>7, <2>1, <2>2, <2>3, HandleHooks
<1> QED  BY <1>2, <1>3, <1>6, <1>7, HooksAre

\* Webhooks that go on as they were, while no handler begins and nothing is closed.
LEMMA OrderKept ==
    ASSUME OrderInv, OneEach', UNCHANGED <<newest, closed>>,
           \A g \in hooks' : \E k \in hooks :
              /\ Like(g, k) /\ (g.stage = "sent" <=> k.stage = "sent")
              /\ Quiet' /\ g.stage = "retargeted" => g.admitted
    PROVE  \A g \in hooks' : OrderOf(g)'
<1> SUFFICES ASSUME NEW g \in hooks'
             PROVE  OrderOf(g)'
  OBVIOUS
<1>1. PICK k \in hooks : /\ Like(g, k) /\ (g.stage = "sent" <=> k.stage = "sent")
                         /\ Quiet' /\ g.stage = "retargeted" => g.admitted
  OBVIOUS
<1>2. OrderOf(k)
  BY DEF OrderInv
<1>3. \A h \in hooks' : g.stage # "sent" /\ h.n = g.n /\ h # g => h.pull.version > g.pull.version
  <2> SUFFICES ASSUME NEW h \in hooks', g.stage # "sent", h.n = g.n, h # g
               PROVE  h.pull.version > g.pull.version
    OBVIOUS
  <2>1. PICK j \in hooks : Like(h, j)
    OBVIOUS
  <2>2. h.pull.version # g.pull.version
    BY DEF OneEach
  <2>3. j # k
    BY <1>1, <2>1, <2>2 DEF Like
  <2> QED  BY <1>1, <1>2, <2>1, <2>3 DEF OrderOf, Like
<1>4. newest' = newest /\ closed' = closed
  OBVIOUS
<1> QED  BY <1>1, <1>2, <1>3, <1>4 DEF OrderOf, Like

\* A handler begins with the oldest webhook there is, and no other is at work.
LEMMA Arriving ==
    ASSUME InOrder, Types, SnapInv, OrderInv, NEW h \in hooks, HookObserve(h)
    PROVE  \A k \in hooks : k.n = h.n /\ k # h => k.stage = "sent" /\ k.pull.version > h.pull.version
<1> SUFFICES ASSUME NEW k \in hooks, k.n = h.n, k # h
             PROVE  k.stage = "sent" /\ k.pull.version > h.pull.version
  OBVIOUS
<1>1. Arrives(h) /\ h.stage = "sent"
  BY DEF HookObserve
<1>2. k \notin Earlier(h)
  BY <1>1 DEF InOrder, Arrives
<1>3. /\ k.pull.version \in Nat /\ h.pull.version \in Nat /\ newest[h.n] \in Nat
  BY HookIs, NumbersAre
<1>4. k.pull.version # h.pull.version
  BY DEF OrderInv, OneEach
<1>5. k.pull.version > h.pull.version
  BY <1>2, <1>3, <1>4 DEF Earlier
<1>6. OrderOf(h) /\ OrderOf(k)
  BY DEF OrderInv
<1>7. k.stage = "sent"
  BY <1>1, <1>3, <1>5, <1>6 DEF OrderOf
<1> QED  BY <1>5, <1>7

LEMMA ObserveOrder ==
    ASSUME InOrder, Types, SnapInv, OrderInv, OneEach', NEW h \in hooks, HookObserve(h)
    PROVE  \A g \in hooks' : OrderOf(g)'
<1> DEFINE new == [h EXCEPT !.stage = "observed"]
<1>1. h \in Hooks /\ h.n \in Numbers /\ h.pull.version \in Nat
  BY HookIs
<1>2. new \in Hooks /\ Like(new, h) /\ new.stage = "observed"
  BY <1>1 DEF Hooks, Like
<1>3. hooks' = (hooks \ {h}) \cup {new} /\ closed' = closed
  BY DEF HookObserve, MoveHook
<1> HIDE DEF new
<1>4. \A k \in hooks : k.n = h.n /\ k # h => k.stage = "sent" /\ k.pull.version > h.pull.version
  BY Arriving
<1>5. OrderOf(h) /\ h.stage = "sent"
  BY DEF OrderInv, HookObserve
<1>6. /\ newest'[h.n] = h.pull.version
      /\ \A n \in Numbers \ {h.n} : newest'[n] = newest[n]
  BY <1>1, <1>5 DEF HookObserve, OrderOf, Types, SeenTypes
<1>7. OrderOf(new)'
  <2>1. \A g \in hooks' : g.n = new.n /\ g # new => g.pull.version > new.pull.version
    BY <1>2, <1>3, <1>4 DEF Like
  <2> QED  BY <1>2, <1>3, <1>5, <1>6, <2>1 DEF OrderOf, Like
<1>8. ASSUME NEW k \in hooks, k # h  PROVE OrderOf(k)'
  <2>1. OrderOf(k) /\ k.n \in Numbers
    BY HookIs DEF OrderInv
  <2>2. CASE k.n = h.n
    BY <1>3, <1>4, <1>6, <1>8, <2>1, <2>2 DEF OrderOf
  <2>3. CASE k.n # h.n
    <3>1. \A g \in hooks' : g.n = k.n => g \in hooks
      BY <1>2, <1>3, <2>3 DEF Like
    <3>2. Quiet' => Quiet
      BY DEF HookObserve, Quiet
    <3> QED  BY <1>3, <1>6, <2>1, <2>3, <3>1, <3>2 DEF OrderOf
  <2> QED  BY <2>2, <2>3
<1> QED  BY <1>3, <1>7, <1>8

LEMMA CloseOrder ==
    ASSUME Types, SnapInv, OrderInv, OneEach', NEW h \in hooks, HookClose(h)
    PROVE  \A g \in hooks' : OrderOf(g)'
<1> SUFFICES ASSUME NEW g \in hooks'
             PROVE  OrderOf(g)'
  OBVIOUS
<1>1. /\ hooks \ {h} \subseteq Hooks /\ hooks' = Expelled(h.n, hooks \ {h})
      /\ h.stage = "cached" /\ newest' = newest /\ used' = used
  BY DEF HookClose, Types, GitHubTypes
<1>2. /\ h.n \in Numbers /\ closed'[h.n] = h.pull.version
      /\ \A n \in Numbers \ {h.n} : closed'[n] = closed[n]
  BY HookIs DEF HookClose, Types, SeenTypes
<1>3. \A x \in hooks' : \E k \in hooks \ {h} : /\ Like(x, k) /\ x.stage = k.stage
                                              /\ x.admitted = (k.admitted /\ k.n # h.n)
  BY <1>1, ExpelledIs
<1>4. PICK k \in hooks \ {h} : /\ Like(g, k) /\ g.stage = k.stage
                               /\ g.admitted = (k.admitted /\ k.n # h.n)
  BY <1>3
<1>5. OrderOf(k) /\ OrderOf(h) /\ k.n \in Numbers
  BY HookIs DEF OrderInv
<1>6. k.pull.version \in Nat /\ h.pull.version \in Nat
  BY HookIs
<1>7. k.n = h.n => k.pull.version > h.pull.version /\ k.stage = "sent"
  BY <1>1, <1>5, <1>6 DEF OrderOf
<1>8. g.pull.version > closed'[g.n]
  BY <1>2, <1>4, <1>5, <1>7 DEF OrderOf, Like
<1>9. \A x \in hooks' : g.stage # "sent" /\ x.n = g.n /\ x # g => x.pull.version > g.pull.version
  <2> SUFFICES ASSUME NEW x \in hooks', g.stage # "sent", x.n = g.n, x # g
               PROVE  x.pull.version > g.pull.version
    OBVIOUS
  <2>1. PICK j \in hooks \ {h} : Like(x, j)
    BY <1>3
  <2>2. x.pull.version # g.pull.version
    BY DEF OneEach
  <2>3. j # k
    BY <1>4, <2>1, <2>2 DEF Like
  <2> QED  BY <1>4, <1>5, <2>1, <2>3 DEF OrderOf, Like
<1>10. Quiet' /\ g.stage = "retargeted" => g.admitted
  BY <1>1, <1>4, <1>5, <1>7 DEF OrderOf, Quiet
<1> QED  BY <1>1, <1>4, <1>5, <1>8, <1>9, <1>10 DEF OrderOf, Like

LEMMA ChangedOrder ==
    ASSUME Types, SnapInv, ListInv, ClosedInv, OrderInv, NEW n \in Numbers, Changed(n)
    PROVE  \A g \in hooks' : OrderOf(g)'
<1>1. PICK new : hooks' = hooks \cup {new} /\ SentFor(new, n)
  BY ChangeSends
<1>2. newest' = newest /\ closed' = closed /\ used' = used
  BY DEF Changed, historyVars
<1>3. /\ newest[n] <= pr[n].version /\ closed[n] <= pr[n].version
      /\ pr[n].version \in Nat /\ newest[n] \in Nat /\ closed[n] \in Nat
  BY NumbersAre DEF ListInv, ListOf, ClosedInv, ClosedOf
<1>4. OrderOf(new)'
  BY <1>1, <1>2, <1>3 DEF OrderOf, SentFor
<1>5. ASSUME NEW k \in hooks  PROVE OrderOf(k)'
  <2>1. OrderOf(k) /\ k.pull.version \in Nat /\ k.pull.version <= pr[k.n].version
    BY HookIs DEF OrderInv
  <2>2. new.n = k.n => new.pull.version > k.pull.version
    BY <1>1, <1>3, <2>1 DEF SentFor
  <2> QED  BY <1>1, <1>2, <2>1, <2>2 DEF OrderOf, Quiet
<1> QED  BY <1>1, <1>4, <1>5

LEMMA OrderStep ==
    ASSUME InOrder, Types, SnapInv, ListInv, ClosedInv, OrderInv, [Next]_vars
    PROVE  OrderInv'
<1>1. OneEach'
  BY OneEachStep DEF OrderInv
<1> SUFFICES \A g \in hooks' : OrderOf(g)'
  BY <1>1 DEF OrderInv
<1>2. \A k \in hooks : Like(k, k) /\ (Quiet /\ k.stage = "retargeted" => k.admitted)
  BY DEF OrderInv, OrderOf, Like
<1>3. Quiet' => Quiet
  BY QuietStep
<1>4. CASE hooks' \subseteq hooks /\ UNCHANGED <<newest, closed>>
  BY <1>1, <1>2, <1>3, <1>4, OrderKept
<1>5. ASSUME NEW n \in Numbers, Changed(n)  PROVE \A g \in hooks' : OrderOf(g)'
  BY <1>5, ChangedOrder
<1>6. ASSUME NEW n \in Numbers, Cancel(n)  PROVE \A g \in hooks' : OrderOf(g)'
  <2>1. hooks' = Expelled(n, hooks) /\ hooks \subseteq Hooks /\ UNCHANGED <<newest, closed>>
    BY <1>6 DEF Cancel, historyVars, Types, GitHubTypes
  <2>2. ~Quiet'
    BY <1>6, QuietStep
  <2>3. \A g \in hooks' : \E k \in hooks :
              /\ Like(g, k) /\ (g.stage = "sent" <=> k.stage = "sent")
              /\ Quiet' /\ g.stage = "retargeted" => g.admitted
    BY <2>1, <2>2, ExpelledIs
  <2> QED  BY <1>1, <2>1, <2>3, OrderKept
<1>7. ASSUME NEW h \in hooks, Handle(h)  PROVE \A g \in hooks' : OrderOf(g)'
  <2>1. CASE HookObserve(h)
    BY <1>1, <2>1, ObserveOrder
  <2>2. CASE HookClose(h)
    BY <1>1, <2>2, CloseOrder
  <2>3. CASE HookReview(h) \/ Replace(h)
    BY <1>4, <2>3 DEF HookReview, Replace, historyVars
  <2>4. CASE ~HookObserve(h) /\ (HookCache(h) \/ Retarget(h))
    <3>1. PICK new \in Hooks : /\ Like(new, h) /\ new.stage # "sent"
                               /\ new.stage = "retargeted" => new.admitted
                               /\ hooks' = (hooks \ {h}) \cup {new}
      <4>1. ~HookReview(h) /\ ~Replace(h) /\ ~HookClose(h)
        BY <2>4 DEF HookCache, Retarget, HookReview, Replace, HookClose
      <4> QED  BY <1>7, <2>4, <4>1, HandleHooks
    <3>2. h.stage # "sent" /\ UNCHANGED <<newest, closed>>
      BY <2>4 DEF HookCache, Retarget, historyVars
    <3>3. \A g \in hooks' : \E k \in hooks :
              /\ Like(g, k) /\ (g.stage = "sent" <=> k.stage = "sent")
              /\ Quiet' /\ g.stage = "retargeted" => g.admitted
      BY <1>2, <1>3, <3>1, <3>2
    <3> QED  BY <1>1, <3>2, <3>3, OrderKept
  <2> QED  BY <1>7, <2>1, <2>2, <2>3, <2>4 DEF Handle
<1> QED  BY <1>4, <1>5, <1>6, <1>7, HooksAre

\* A close says so, and takes the tokens of its pull request.
LEMMA CloseCloses ==
    ASSUME Types, SnapInv, ClosedInv, OrderInv, NEW h \in hooks, HookClose(h), NEW n \in Numbers
    PROVE  ClosedOf(n)'
<1>1. ClosedOf(n) /\ OrderOf(h) /\ h.n \in Numbers
  BY HookIs DEF ClosedInv, OrderInv
<1>2. /\ closed'[n] = IF n = h.n THEN h.pull.version ELSE closed[n]
      /\ pr' = pr /\ CloseKey(h.n) /\ h.kind = "close" /\ h.pull.open = FALSE
  BY <1>1, HookIs DEF HookClose, Types, SeenTypes, OrderOf, Pulls
<1>3. /\ listing'.phase = listing.phase /\ listing'.pages = listing.pages
      /\ listing'.touched = IF listing.phase = "idle" THEN listing.touched
                            ELSE listing.touched \cup {h.n}
      /\ lookup'.phase = lookup.phase /\ lookup'.n = lookup.n /\ lookup'.pull = lookup.pull
      /\ lookup'.admitted = (lookup.admitted /\ lookup.n # h.n)
  BY <1>1, <1>2, CloseKeyIs DEF Types
<1>4. CASE n # h.n
  BY <1>1, <1>2, <1>3, <1>4 DEF ClosedOf
<1>5. CASE n = h.n
  <2>1. h.pull.version <= pr[n].version /\ (h.pull.version = pr[n].version => h.pull = pr[n])
    BY <1>5, HookIs
  <2> QED  BY <1>2, <1>3, <1>5, <2>1 DEF ClosedOf
<1> QED  BY <1>4, <1>5

LEMMA ClosedStep ==
    ASSUME Types, SnapInv, ClosedInv, OrderInv, [Next]_vars
    PROVE  ClosedInv'
<1> SUFFICES ASSUME NEW n \in Numbers
             PROVE  ClosedOf(n)'
  BY DEF ClosedInv
<1>1. ClosedOf(n) /\ listing \in Listings /\ listing.pages \in Pages /\ lookup \in Lookups
  BY DEF ClosedInv, Types, GitHubTypes, Listings
<1>2. /\ pr[n].version \in Nat /\ closed[n] \in Nat
  BY NumbersAre
<1>3. pr[n].open => pr[n].version > closed[n]
  BY <1>1, <1>2 DEF ClosedOf
<1>4. closed' = closed \/ \E h \in hooks : HookClose(h)
  <2>1. ASSUME NEW h \in hooks, Handle(h)  PROVE HookClose(h) \/ closed' = closed
    BY <2>1 DEF Handle, HookObserve, HookCache, HookReview, Retarget, Replace, historyVars
  <2>2. ASSUME NEW m \in Numbers, Cancel(m)  PROVE closed' = closed
    BY <2>2 DEF Cancel, historyVars
  <2>3. ASSUME NEW m \in Numbers, Changed(m)  PROVE closed' = closed
    BY <2>3 DEF Changed, historyVars
  <2> QED  BY <2>1, <2>2, <2>3, HooksAre
<1>5. ASSUME NEW h \in hooks, HookClose(h)  PROVE ClosedOf(n)'
  BY <1>5, CloseCloses
<1>6. ASSUME NEW m \in Numbers, Changed(m)  PROVE ClosedOf(n)'
  <2>1. /\ pr'[n] = pr[n] \/ (n = m /\ pr'[n].version = pr[n].version + 1)
        /\ closed' = closed /\ listing' = listing /\ lookup' = lookup
    BY <1>6 DEF Changed, Types, GitHubTypes, historyVars
  <2> QED  BY <1>1, <1>2, <2>1 DEF ClosedOf
<1>7. CASE closed' = closed /\ pr' = pr /\ Aside
           /\ (lookup' = lookup \/ lookup'.phase # "fetched")
  BY <1>1, <1>7 DEF ClosedOf, Aside
<1>8. CASE LookupFetch
  <2>1. CASE pr[lookup.n].open
    <3>1. lookup' = [lookup EXCEPT !.phase = "fetched", !.pull = pr[lookup.n]]
      BY <1>8, <2>1 DEF LookupFetch
    <3>2. lookup'.n = lookup.n /\ lookup'.pull = pr[lookup.n]
      BY <1>1, <3>1 DEF Lookups
    <3>3. pr' = pr /\ closed' = closed /\ listing' = listing
      BY <1>8 DEF LookupFetch, historyVars
    <3> QED  BY <1>1, <1>3, <2>1, <3>2, <3>3 DEF ClosedOf
  <2>2. CASE ~pr[lookup.n].open
    BY <1>1, <1>8, <2>2, NoListingIs DEF LookupFetch, historyVars, ClosedOf
  <2> QED  BY <2>1, <2>2
<1>9. ASSUME NEW m \in Numbers, Cancel(m)  PROVE ClosedOf(n)'
  <2>1. /\ listing'.phase = listing.phase /\ listing'.pages = listing.pages
        /\ listing.phase # "idle" => listing.touched \subseteq listing'.touched
        /\ lookup'.phase = lookup.phase /\ lookup'.n = lookup.n /\ lookup'.pull = lookup.pull
        /\ lookup'.admitted = (lookup.admitted /\ lookup.n # m)
    BY <1>9, CloseKeyIs DEF Cancel, Types
  <2>2. pr' = pr /\ closed' = closed
    BY <1>9 DEF Cancel, historyVars
  <2> QED  BY <1>1, <2>1, <2>2 DEF ClosedOf
<1>10. ASSUME NEW m \in Numbers, ListRead(m)  PROVE ClosedOf(n)'
  <2>1. /\ listing'.phase = listing.phase /\ listing'.touched = listing.touched
        /\ listing'.pages[n] = IF n = m THEN OpenOrClosed(pr[m]) ELSE listing.pages[n]
        /\ pr' = pr /\ listing.phase # "idle" /\ closed' = closed /\ lookup' = lookup
    BY <1>1, <1>10 DEF ListRead, Listings, Pages, historyVars
  <2>2. OpenOrClosed(pr[n]).open => OpenOrClosed(pr[n]) = pr[n]
    BY OpenOrClosedIs, NumbersAre
  <2> QED  BY <1>1, <1>3, <2>1, <2>2 DEF ClosedOf
<1>11. CASE ListAsk \/ ListApply \/ ListObserve \/ \E m \in Numbers : ListEnqueue(m)
  <2>1. /\ listing'.pages = listing.pages /\ listing'.touched = listing.touched
        /\ listing.phase # "idle"
    BY <1>1, <1>11 DEF ListAsk, ListApply, ListObserve, ListEnqueue, Listings
  <2>2. pr' = pr /\ closed' = closed /\ lookup' = lookup
    BY <1>11 DEF ListAsk, ListApply, ListObserve, ListEnqueue, historyVars
  <2> QED  BY <1>1, <2>1, <2>2 DEF ClosedOf
<1>12. CASE Restart \/ ListFails \/ ListEnd \/ ListBegin
  <2>1. listing'.phase = "idle" \/ ~listing'.pages[n].open
    <3>1. CASE ListBegin
      BY <3>1, NoListingIs, NothingIsApart DEF ListBegin, Listings
    <3> QED  BY <1>12, <3>1, NoListingIs DEF Restart, ListFails, ListEnd
  <2>2. /\ pr' = pr /\ closed' = closed
        /\ lookup' = lookup \/ lookup'.phase = "idle"
    BY <1>12, NoListingIs DEF Restart, ListFails, ListEnd, ListBegin, historyVars
  <2> QED  BY <1>1, <2>1, <2>2 DEF ClosedOf
<1>13. ASSUME NEW h \in hooks, HookCache(h)  PROVE ClosedOf(n)'
  BY <1>1, <1>13 DEF ClosedOf, HookCache, historyVars
<1>14. CASE Aside /\ ~GitHub /\ closed' = closed /\ ~LookupFetch /\ ~Reconcile
            /\ \A m \in Numbers : ~Cancel(m)
  <2>1. pr' = pr
    <3>1. CASE Remembered
      BY <3>1 DEF Remembered
    <3> QED  BY <1>14, <3>1, HandleRemembers, ListRemembers, OtherRemembers DEF Next, Run, Trouble
  <2>2. lookup' = lookup \/ lookup'.phase # "fetched" \/ \E h \in hooks : HookClose(h)
    <3>1. ASSUME NEW h \in hooks, Handle(h), ~HookClose(h)  PROVE lookup' = lookup
      BY <3>1 DEF Handle, HookObserve, HookCache, HookReview, Retarget, Replace
    <3>2. CASE Lookup
      <4>1. ASSUME NEW m \in Numbers, LookupBegin(m)  PROVE lookup'.phase # "fetched"
        BY <4>1 DEF LookupBegin
      <4>2. LookupEnqueue => lookup'.phase # "fetched"
        BY NoListingIs DEF LookupEnqueue
      <4> QED  BY <1>14, <3>2, <4>1, <4>2 DEF Lookup
    <3>3. CASE Run \/ Configure \/ UNCHANGED vars
      BY <3>3 DEF Run, RunStart, RunEnd, Configure, vars
    <3>4. CASE Trouble
      BY <3>4, NoListingIs DEF Trouble, LoseHook, ListFails, LookupFails, RunFails, Restart
    <3> QED  BY <1>14, <3>1, <3>2, <3>3, <3>4 DEF Next
  <2> QED  BY <1>5, <1>7, <1>14, <2>1, <2>2
<1> QED
  <2>1. CASE GitHub
    BY <1>6, <2>1, GitHubIs DEF GitHub
  <2>2. CASE Reconcile
    BY <1>10, <1>11, <1>12, <2>2 DEF Reconcile
  <2> QED  BY <1>4, <1>5, <1>8, <1>9, <1>12, <1>13, <1>14, <2>1, <2>2, MostStepsAside

\* Nothing from before the last close gets into the queue, or is left in it.
LEMMA StaysStep ==
    ASSUME InOrder, Types, SnapInv, ClosedInv, OrderInv, ClosedStaysClosed, [Next]_vars
    PROVE  ClosedStaysClosed'
<1> DEFINE Above(n) == /\ pending[n] # NoJob => pending[n].version > closed[n]
                       /\ Alive(n) => running[n].job.version > closed[n]
<1>1. /\ ClosedStaysClosed <=> \A n \in Numbers : Above(n)
      /\ (\A n \in Numbers : Above(n)') => ClosedStaysClosed'
  BY DEF ClosedStaysClosed, Alive
<1> SUFFICES ASSUME NEW n \in Numbers
             PROVE  Above(n)'
  BY <1>1
<1>2. Above(n)
  BY <1>1
<1>3. CASE pending'[n] = pending[n] /\ running'[n] = running[n] /\ closed'[n] = closed[n]
  BY <1>2, <1>3 DEF Alive
<1>4. ASSUME NEW h \in hooks, HookClose(h)  PROVE Above(n)'
  <2>1. h.n \in Numbers /\ CloseKey(h.n) /\ closed' = [closed EXCEPT ![h.n] = h.pull.version]
    BY <1>4, HookIs DEF HookClose
  <2>2. CASE n = h.n
    <3>1. pending'[n] = NoJob /\ ~Alive(n)'
      BY <2>1, <2>2, CloseKeyIs DEF Types
    <3> QED  BY <3>1
  <2>3. CASE n # h.n
    <3>1. pending'[n] = pending[n] /\ running'[n] = running[n]
      BY <2>1, <2>3, CloseKeyIs DEF Types
    <3> QED  BY <1>3, <2>1, <2>3, <3>1 DEF Types, SeenTypes
  <2> QED  BY <2>2, <2>3
<1>5. closed' = closed \/ \E h \in hooks : HookClose(h)
  <2>1. ASSUME NEW h \in hooks, Handle(h)  PROVE HookClose(h) \/ closed' = closed
    BY <2>1 DEF Handle, HookObserve, HookCache, HookReview, Retarget, Replace, historyVars
  <2>2. ASSUME NEW m \in Numbers, Cancel(m)  PROVE closed' = closed
    BY <2>2 DEF Cancel, historyVars
  <2>3. ASSUME NEW m \in Numbers, Changed(m)  PROVE closed' = closed
    BY <2>3 DEF Changed, historyVars
  <2> QED  BY <2>1, <2>2, <2>3, HooksAre
<1>6. ASSUME closed' = closed, NEW m \in Numbers, NEW pull \in Pulls, Enqueued(m, pull),
             pull.version > closed[m]
      PROVE  Above(n)'
  <2>1. CASE n # m
    BY <1>3, <1>6, <2>1 DEF Enqueued
  <2>2. CASE n = m /\ UNCHANGED queueVars
    BY <1>3, <1>6, <2>2 DEF queueVars
  <2>3. CASE n = m /\ ~UNCHANGED queueVars
    <3>1. configured \in BOOLEAN
      BY DEF Types, SeenTypes
    <3>2. pending'[n] # NoJob => pending'[n].version = pull.version
      BY <1>6, <2>3, <3>1 DEF Enqueued
    <3>3. Alive(n)' => Alive(n) /\ running'[n].job = running[n].job
      BY <1>6, <2>3 DEF Enqueued
    <3> QED  BY <1>2, <1>6, <2>3, <3>2, <3>3
  <2> QED  BY <2>1, <2>2, <2>3
<1>7. ASSUME closed' = closed, NEW m \in Numbers, Withdrawn(m)  PROVE Above(n)'
  <2>1. CASE n # m
    BY <1>3, <1>7, <2>1 DEF Withdrawn
  <2>2. CASE n = m
    BY <1>2, <1>7, <2>2 DEF Withdrawn
  <2> QED  BY <2>1, <2>2
<1>8. ASSUME NEW m \in Numbers, RunStart(m)  PROVE Above(n)'
  <2>1. /\ closed' = closed
        /\ pending'[n] = IF n = m THEN NoJob ELSE pending[n]
        /\ running'[n] = IF n = m THEN [job |-> pending[n], cancel |-> FALSE] ELSE running[n]
        /\ pending[m] # NoJob
    BY <1>8 DEF RunStart, historyVars, Types, QueueTypes
  <2> QED  BY <1>2, <1>3, <2>1
<1>9. ASSUME NEW m \in Numbers, RunEnd(m)  PROVE Above(n)'
  <2>1. /\ closed' = closed /\ pending' = pending
        /\ running'[n] = IF n = m THEN NotRunning ELSE running[n]
    BY <1>9 DEF RunEnd, Types, QueueTypes
  <2> QED  BY <1>2, <1>3, <2>1 DEF Alive
<1>10. CASE Restart
  <2>1. pending'[n] = NoJob /\ running'[n] = NotRunning
    BY <1>10 DEF Restart
  <2> QED  BY <2>1 DEF Alive
<1>11. /\ \A h \in hooks : h.n \in Numbers /\ h.pull \in Pulls /\ h.pull.version > closed[h.n]
  BY HookIs DEF OrderInv, OrderOf
<1>12. ASSUME NEW m \in Numbers, ListEnqueue(m), Admissible(m)
       PROVE  listing.pages[m] \in Pulls /\ listing.pages[m].version > closed[m]
  <2>1. listing.pages[m].open /\ listing.phase = "observed" /\ m \notin listing.touched
    BY <1>12 DEF ListEnqueue, Types, Aims, Admissible
  <2>2. listing.pages[m] \in Pulls
    BY <2>1, PagesAreKnown
  <2> QED  BY <2>1, <2>2 DEF ClosedInv, ClosedOf
<1>13. ASSUME LookupEnqueue, lookup.admitted
       PROVE  lookup.n \in Numbers /\ lookup.pull \in Pulls /\ lookup.pull.version > closed[lookup.n]
  <2>1. lookup.phase = "fetched" /\ lookup.n \in Numbers /\ lookup.pull.open
    BY <1>13 DEF LookupEnqueue, Types, Aims
  <2>2. lookup.pull \in Pulls
    BY <2>1, NothingIsApart DEF Types, GitHubTypes, Lookups
  <2> QED  BY <1>13, <2>1, <2>2 DEF ClosedInv, ClosedOf
<1> HIDE DEF Above
<1>14. CASE closed' = closed
  <2>1. CASE UNCHANGED queueVars
    BY <1>3, <1>14, <2>1 DEF queueVars
  <2>2. CASE \E h \in hooks : Enqueued(h.n, h.pull)
    BY <1>6, <1>11, <1>14, <2>2
  <2>3. CASE \E m \in Numbers : ListEnqueue(m) /\ Admissible(m) /\ Enqueued(m, listing.pages[m])
    BY <1>6, <1>12, <1>14, <2>3
  <2>4. CASE LookupEnqueue /\ lookup.admitted /\ Enqueued(lookup.n, lookup.pull)
    BY <1>6, <1>13, <1>14, <2>4
  <2>5. CASE \E m \in Numbers : Withdrawn(m)
    BY <1>7, <1>14, <2>5
  <2>6. CASE \E h \in hooks : Withdrawn(h.n)
    BY <1>7, <1>11, <1>14, <2>6
  <2> QED  BY <1>8, <1>9, <1>10, <2>1, <2>2, <2>3, <2>4, <2>5, <2>6, QueueStepIs DEF QueueStep
<1> QED  BY <1>4, <1>5, <1>14

\* A close is final while webhooks are handled in order: nothing from before it waits
\* or goes on, whatever a listing or a lookup had read, and whatever is lost or fails.
OrderedInv == IInv /\ OrderInv /\ ClosedInv /\ ClosedStaysClosed

LEMMA OrderedInit == Init => OrderedInv
<1> SUFFICES ASSUME Init  PROVE OrderedInv
  OBVIOUS
<1>1. IInv
  BY IInvInit
<1>2. OrderInv
  BY DEF Init, OrderInv, OneEach
<1>3. ClosedInv
  <2>1. ASSUME NEW n \in Numbers  PROVE ClosedOf(n)
    <3>1. closed[n] = 0 /\ pr[n].version = 1 /\ listing.phase = "idle" /\ lookup.phase = "idle"
      <4>1. pr[n] \in [open : {TRUE}, head : Heads, base : Bases, version : {1}, at : {1}]
        BY DEF Init
      <4> QED  BY <4>1, NoListingIs DEF Init
    <3> QED  BY <3>1 DEF ClosedOf
  <2> QED  BY <2>1 DEF ClosedInv
<1>4. ClosedStaysClosed
  BY DEF Init, ClosedStaysClosed
<1> QED  BY <1>1, <1>2, <1>3, <1>4 DEF OrderedInv

LEMMA OrderedStep == InOrder /\ OrderedInv /\ [Next]_vars => OrderedInv'
<1> SUFFICES ASSUME InOrder, OrderedInv, [Next]_vars  PROVE OrderedInv'
  OBVIOUS
<1>1. Types /\ SnapInv /\ ListInv /\ IInv
  BY DEF OrderedInv, IInv
<1>2. IInv'
  BY <1>1, IInvStep
<1>3. OrderInv' /\ ClosedInv' /\ ClosedStaysClosed'
  BY <1>1, OrderStep, ClosedStep, StaysStep DEF OrderedInv
<1> QED  BY <1>2, <1>3 DEF OrderedInv

THEOREM CloseIsFinal ==
    ASSUME InOrder
    PROVE  Spec => []ClosedStaysClosed
<1>1. OrderedInv => ClosedStaysClosed
  BY DEF OrderedInv
<1>2. OrderedInv /\ [Next]_vars => OrderedInv'
  BY OrderedStep
<1> QED  BY <1>1, <1>2, OrderedInit, PTL DEF Spec

-------------------------------------------------------------------------------
(* The newest content is held.                                             *)

\* Before anybody asks there is no lookup.
LookInv == used.lookups = 0 => lookup.phase = "idle"

\* The newest version of an open pull request was handled to the end.
Handled(n) ==
    /\ Quiet /\ pr[n].open /\ newest[n] = pr[n].version
    /\ \A h \in hooks : h.n # n

\* Nothing else waits or goes on, and it was reviewed, waits, goes on or was skipped.
Held(n) ==
    /\ pending[n] # NoJob => pending[n].content = Content(pr[n])
    /\ Alive(n) => running[n].job.content = Content(pr[n])
    /\ \/ pending[n] # NoJob \/ Alive(n)
       \/ reviewed[n] = Content(pr[n]) \/ n \in skipped
HeldInv == \A n \in Numbers : Handled(n) => Held(n)

LEMMA LookStep ==
    ASSUME Types, LookInv, [Next]_vars
    PROVE  LookInv'
<1>1. used \in [lookups : 0..MaxLookups, cancels : 0..MaxCancels, faults : 0..MaxFaults]
  BY DEF Types, SeenTypes
<1>2. CASE used'.lookups = used.lookups /\ (lookup'.phase = "idle" \/ lookup'.phase = lookup.phase)
  BY <1>2 DEF LookInv
<1>3. ASSUME NEW n \in Numbers, LookupBegin(n)  PROVE LookInv'
  BY <1>1, <1>3 DEF LookupBegin, LookInv
<1>4. CASE LookupFetch
  BY <1>4 DEF LookupFetch, LookInv
<1>5. ASSUME NEW n \in Numbers, Cancel(n)  PROVE LookInv'
  <2>1. lookup'.phase = lookup.phase
    BY <1>5, CloseKeyIs DEF Cancel, Types
  <2>2. used'.lookups = used.lookups
    BY <1>1, <1>5 DEF Cancel
  <2> QED  BY <1>2, <2>1, <2>2
<1>6. ASSUME NEW h \in hooks, Handle(h)  PROVE LookInv'
  <2>1. used' = used
    BY <1>6 DEF Handle, HookObserve, HookCache, HookReview, HookClose, Retarget, Replace
  <2>2. CASE HookClose(h)
    <3>1. h.n \in Numbers /\ CloseKey(h.n)
      BY <2>2 DEF HookClose, Types, GitHubTypes, Hooks
    <3>2. lookup'.phase = lookup.phase
      BY <3>1, CloseKeyIs DEF Types
    <3> QED  BY <1>2, <2>1, <3>2
  <2>3. CASE ~HookClose(h)
    <3>1. lookup' = lookup
      BY <1>6, <2>3 DEF Handle, HookObserve, HookCache, HookReview, Retarget, Replace
    <3> QED  BY <1>2, <2>1, <3>1
  <2> QED  BY <2>2, <2>3
<1>7. CASE GitHub
  BY <1>2, <1>7, GitHubIs DEF GitHub, Changed
<1>8. CASE Reconcile
  BY <1>2, <1>8 DEF Reconcile, ListBegin, ListAsk, ListRead, ListApply, ListObserve, ListEnqueue,
     ListEnd
<1>9. CASE LookupEnqueue \/ Run \/ Configure \/ UNCHANGED vars
  BY <1>2, <1>9, NoListingIs DEF LookupEnqueue, Run, RunStart, RunEnd, Configure, vars
<1>10. CASE Trouble
  <2>1. Fault
    BY <1>10 DEF Trouble, LoseHook, ListFails, LookupFails, RunFails, Restart
  <2>2. used'.lookups = used.lookups
    BY <1>1, <2>1 DEF Fault
  <2>3. lookup' = lookup \/ lookup' = NoLookup
    BY <1>10 DEF Trouble, LoseHook, ListFails, LookupFails, RunFails, Restart
  <2> QED  BY <1>2, <2>2, <2>3, NoListingIs
<1> QED  BY <1>3, <1>4, <1>5, <1>6, <1>7, <1>8, <1>9, <1>10 DEF Next, Lookup

\* A review of the newest content is enqueued.
LEMMA EnqueuedHolds ==
    ASSUME Types, BehindInv, NEW n \in Numbers, Enqueued(n, pr[n]), pr' = pr
    PROVE  Held(n)'
<1>1. CASE UNCHANGED queueVars /\ Alive(n) /\ running[n].job.content = Content(pr[n])
  BY <1>1 DEF BehindInv, Held, Alive, queueVars
<1>2. CASE ~(UNCHANGED queueVars /\ Alive(n) /\ running[n].job.content = Content(pr[n]))
  <2>1. configured \in BOOLEAN
    BY DEF Types, SeenTypes
  <2>2. /\ configured => /\ pending'[n] # NoJob /\ pending'[n].content = Content(pr[n])
        /\ ~configured => pending'[n] = NoJob /\ n \in skipped'
        /\ running'[n].job = running[n].job
        /\ Alive(n)' => Alive(n) /\ running[n].job.content = Content(pr[n])
    BY <1>2 DEF Enqueued
  <2> QED  BY <2>1, <2>2 DEF Held
<1> QED  BY <1>1, <1>2

\* What other pull requests do is nothing to this one.
LEMMA HeldApart ==
    ASSUME NEW n \in Numbers, Held(n), UNCHANGED <<pr, reviewed>>,
           pending'[n] = pending[n], running'[n] = running[n], n \in skipped' <=> n \in skipped
    PROVE  Held(n)'
BY DEF Held, Alive

\* The steps that handle a webhook.
LEMMA HandleHeld ==
    ASSUME OrderedInv, HeldInv, NEW n \in Numbers, NEW h \in hooks, Handle(h), Quiet, Handled(n)'
    PROVE  Held(n)'
<1>1. Types /\ SnapInv /\ BehindInv /\ OrderOf(h) /\ [Next]_vars
  BY DEF OrderedInv, IInv, OrderInv, Next
<1>2. /\ h.n \in Numbers /\ h.pull \in Pulls
      /\ h.pull.version = pr[h.n].version => h.pull = pr[h.n]
  BY <1>1, HookIs
<1>3. pr' = pr
  BY DEF Handle, HookObserve, HookCache, HookReview, HookClose, Retarget, Replace
<1>4. reviewed' = reviewed
  BY DEF Handle, HookObserve, HookCache, HookReview, HookClose, Retarget, Replace, historyVars
<1>5. CASE HookObserve(h) \/ HookCache(h) \/ Retarget(h)
  <2>1. PICK new \in Hooks : Like(new, h) /\ hooks' = (hooks \ {h}) \cup {new}
    <3>1. ~HookReview(h) /\ ~Replace(h) /\ ~HookClose(h)
      BY <1>5 DEF HookObserve, HookCache, Retarget, HookReview, Replace, HookClose
    <3> QED  BY <1>1, <3>1, HandleHooks
  <2>2. n # h.n
    BY <2>1 DEF Handled, Like
  <2>3. \A g \in hooks : g.n # n
    BY <2>1, <2>2 DEF Handled
  <2>4. newest'[n] = newest[n]
    BY <1>1, <1>2, <1>5, <2>2 DEF HookObserve, HookCache, Retarget, historyVars, Types, SeenTypes
  <2>5. Held(n)
    BY <1>3, <2>3, <2>4 DEF HeldInv, Handled
  <2>6. pending'[n] = pending[n] /\ running'[n] = running[n] /\ (n \in skipped' <=> n \in skipped)
    <3>1. CASE Retarget(h)
      BY <1>1, <2>2, <3>1, RetargetIs
    <3>2. CASE HookObserve(h) \/ HookCache(h)
      BY <3>2 DEF HookObserve, HookCache, queueVars
    <3> QED  BY <1>5, <3>1, <3>2
  <2> QED  BY <1>3, <1>4, <2>5, <2>6, HeldApart
<1>6. CASE (HookReview(h) \/ Replace(h) \/ HookClose(h)) /\ n # h.n
  <2>1. ASSUME NEW g \in hooks, g.n = n  PROVE FALSE
    <3>1. CASE hooks' = hooks \ {h}
      BY <1>6, <2>1, <3>1 DEF Handled
    <3>2. CASE hooks' = Expelled(h.n, hooks \ {h})
      <4> DEFINE k == [g EXCEPT !.admitted = @ /\ g.n # h.n]
      <4>1. k \in hooks'
        BY <1>6, <2>1, <3>2 DEF Expelled
      <4>2. k.n = n
        BY <1>1, <2>1 DEF Types, GitHubTypes, Hooks
      <4> HIDE DEF k
      <4> QED  BY <4>1, <4>2 DEF Handled
    <3> QED  BY <1>6, <3>1, <3>2 DEF HookReview, Replace, HookClose
  <2>2. newest' = newest
    BY <1>6 DEF HookReview, Replace, HookClose, historyVars
  <2>3. Held(n)
    BY <1>3, <2>1, <2>2 DEF HeldInv, Handled
  <2>4. pending'[n] = pending[n] /\ running'[n] = running[n] /\ (n \in skipped' <=> n \in skipped)
    <3>1. CASE Enqueued(h.n, h.pull)
      BY <1>6, <3>1 DEF Enqueued
    <3>2. CASE Withdrawn(h.n)
      BY <1>6, <3>2 DEF Withdrawn
    <3>3. CASE UNCHANGED queueVars
      BY <3>3 DEF queueVars
    <3>4. HookReview(h) => Enqueued(h.n, h.pull)
      <4> SUFFICES ASSUME HookReview(h)  PROVE Enqueued(h.n, h.pull)
        OBVIOUS
      <4>1. Enqueue(h.n, Job(h.pull, FALSE))
        BY DEF HookReview
      <4> QED  BY <1>1, <1>2, <4>1, EnqueuedIs
    <3>5. Replace(h) => Enqueued(h.n, h.pull) \/ UNCHANGED queueVars
      <4> SUFFICES ASSUME Replace(h), h.admitted  PROVE Enqueued(h.n, h.pull)
        BY DEF Replace
      <4>1. Enqueue(h.n, Job(h.pull, h.asked)) /\ h.asked \in BOOLEAN
        BY <1>1 DEF Replace, Types, GitHubTypes, Hooks
      <4> QED  BY <1>1, <1>2, <4>1, EnqueuedIs
    <3>6. HookClose(h) => Withdrawn(h.n)
      <4> SUFFICES ASSUME HookClose(h)  PROVE Withdrawn(h.n)
        OBVIOUS
      <4>1. CloseKey(h.n)
        BY DEF HookClose
      <4> QED  BY <1>1, <1>2, <4>1, CloseKeyIs DEF Withdrawn, Types
    <3> QED  BY <1>6, <3>1, <3>2, <3>3, <3>4, <3>5, <3>6
  <2> QED  BY <1>3, <1>4, <2>3, <2>4, HeldApart
<1>7. CASE (HookReview(h) \/ Replace(h) \/ HookClose(h)) /\ n = h.n
  <2>1. h.stage # "sent" /\ newest' = newest
    BY <1>7 DEF HookReview, Replace, HookClose, historyVars
  <2>2. newest[n] = h.pull.version /\ newest[n] = pr[n].version /\ pr[n].open
    BY <1>1, <1>3, <1>7, <2>1 DEF OrderOf, Handled
  <2>3. h.pull = pr[n]
    BY <1>2, <1>7, <2>2
  <2>4. ~HookClose(h)
    BY <1>1, <2>2, <2>3 DEF OrderOf, HookClose
  <2>5. Enqueued(n, pr[n])
    <3>1. CASE HookReview(h)
      <4>1. Enqueue(n, Job(pr[n], FALSE))
        BY <1>7, <2>3, <3>1 DEF HookReview
      <4> QED  BY <1>1, <1>2, <2>3, <4>1, EnqueuedIs
    <3>2. CASE Replace(h)
      <4>1. h.admitted /\ h.asked \in BOOLEAN
        BY <1>1, <3>2 DEF Replace, OrderOf, Types, GitHubTypes, Hooks
      <4>2. Enqueue(n, Job(pr[n], h.asked))
        BY <1>7, <2>3, <3>2, <4>1 DEF Replace
      <4> QED  BY <1>1, <1>2, <2>3, <4>1, <4>2, EnqueuedIs
    <3> QED  BY <1>7, <2>4, <3>1, <3>2
  <2> QED  BY <1>1, <1>3, <2>5, EnqueuedHolds
<1> QED  BY <1>5, <1>6, <1>7 DEF Handle

\* The steps that leave the webhooks and what was heard of them alone.
LEMMA HeldOtherwise ==
    ASSUME OrderedInv, LookInv, HeldInv, NEW n \in Numbers, [Next]_vars, Quiet, Quiet', Handled(n)',
           ~GitHub, \A h \in hooks : ~Handle(h)
    PROVE  Held(n)'
<1>1. Types /\ SnapInv /\ BehindInv /\ ListInv
  BY DEF OrderedInv, IInv
<1>2. ~Fault /\ \A m \in Numbers : ~Cancel(m) /\ ~LookupBegin(m)
  BY <1>1, QuietStep
<1>3. ~Trouble
  BY <1>2 DEF Trouble, LoseHook, ListFails, LookupFails, RunFails, Restart
<1>4. ~Lookup
  <2>1. lookup.phase = "idle"
    BY DEF Quiet, LookInv
  <2> QED  BY <1>2, <2>1 DEF Lookup, LookupFetch, LookupEnqueue
<1>5. Reconcile \/ Run \/ Configure \/ UNCHANGED vars
  BY <1>2, <1>3, <1>4 DEF Next
<1>6. /\ pr' = pr /\ hooks' = hooks /\ newest' = newest
  BY <1>5 DEF Reconcile, ListBegin, ListAsk, ListRead, ListApply, ListObserve, ListEnqueue, ListEnd,
     Run, RunStart, RunEnd, Configure, vars, historyVars
<1>7. Held(n)
  BY <1>6 DEF HeldInv, Handled
<1>8. CASE Reconcile
  <2>1. reviewed' = reviewed
    BY <1>8 DEF Reconcile, ListBegin, ListAsk, ListRead, ListApply, ListObserve, ListEnqueue,
       ListEnd, historyVars
  <2>2. CASE UNCHANGED queueVars
    BY <1>6, <1>7, <2>1, <2>2, HeldApart DEF queueVars
  <2>3. ASSUME NEW m \in Numbers, ListEnqueue(m), Admissible(m)  PROVE Held(n)'
    <3>1. listing.pages[m].open /\ listing.phase = "observed" /\ m \notin listing.touched
      BY <1>1, <2>3 DEF ListEnqueue, Types, Aims, Admissible
    <3>2. listing.pages[m] \in Pulls
      BY <1>1, <3>1, PagesAreKnown
    <3>3. Enqueue(m, Job(listing.pages[m], FALSE))
      BY <2>3 DEF ListEnqueue
    <3>4. Enqueued(m, listing.pages[m])
      BY <1>1, <3>2, <3>3, EnqueuedIs
    <3>5. CASE n # m
      <4>1. pending'[n] = pending[n] /\ running'[n] = running[n] /\ (n \in skipped' <=> n \in skipped)
        BY <3>4, <3>5 DEF Enqueued
      <4> QED  BY <1>6, <1>7, <2>1, <4>1, HeldApart
    <3>6. CASE n = m
      <4>1. listing.pages[n].version >= newest[n]
        BY <1>1, <3>1, <3>6 DEF ListInv, ListOf
      <4>2. newest[n] = pr[n].version
        BY <1>6 DEF Handled
      <4>3. /\ listing.pages[n].version <= pr[n].version /\ listing.pages[n].version \in Nat
            /\ Known(n, listing.pages[n]) /\ Known(n, pr[n]) /\ pr[n] \in Pulls
            /\ pr[n].version \in Nat
        BY <1>1, <3>1, <3>6, PagesAreKnown
      <4>4. listing.pages[n] = pr[n]
        BY <1>1, <3>2, <3>6, <4>1, <4>2, <4>3 DEF SnapInv, Coherent
      <4>5. Enqueued(n, pr[n])
        BY <3>4, <3>6, <4>4
      <4> QED  BY <1>1, <1>6, <4>5, EnqueuedHolds
    <3> QED  BY <3>5, <3>6
  <2>4. ASSUME NEW m \in Numbers, ListEnqueue(m), ~Admissible(m)  PROVE UNCHANGED queueVars
    BY <2>4 DEF ListEnqueue
  <2>5. CASE ListBegin \/ ListAsk \/ ListApply \/ ListObserve \/ ListEnd
             \/ \E m \in Numbers : ListRead(m)
    BY <2>2, <2>5 DEF ListBegin, ListAsk, ListApply, ListObserve, ListEnd, ListRead
  <2> QED  BY <1>8, <2>2, <2>3, <2>4, <2>5 DEF Reconcile
<1>9. ASSUME NEW m \in Numbers, RunStart(m)  PROVE Held(n)'
  <2>1. /\ pending'[n] = IF n = m THEN NoJob ELSE pending[n]
        /\ running'[n] = IF n = m THEN [job |-> pending[n], cancel |-> FALSE] ELSE running[n]
        /\ skipped' = skipped /\ reviewed' = reviewed /\ pending[m] # NoJob
    BY <1>1, <1>9 DEF RunStart, historyVars, Types, QueueTypes
  <2>2. CASE n # m
    BY <1>6, <1>7, <2>1, <2>2, HeldApart
  <2>3. CASE n = m
    <3>1. /\ pending[n] \in Jobs /\ pending[n].content = Content(pr[n])
      BY <1>1, <1>7, <2>1, <2>3 DEF Held, Types, QueueTypes
    <3>2. running'[n].job = pending[n] /\ running'[n].cancel = FALSE /\ pending'[n] = NoJob
      BY <2>1, <2>3
    <3>3. Alive(n)'
      BY <2>1, <2>3, <3>1, <3>2, NothingIsApart DEF Alive
    <3> QED  BY <1>6, <3>1, <3>2, <3>3 DEF Held
  <2> QED  BY <2>2, <2>3
<1>10. ASSUME NEW m \in Numbers, RunEnd(m)  PROVE Held(n)'
  <2>1. /\ pending' = pending /\ skipped' = skipped /\ running[m] # NotRunning
        /\ running'[n] = IF n = m THEN NotRunning ELSE running[n]
        /\ reviewed'[n] = IF n = m /\ ~running[m].cancel THEN running[m].job.content
                          ELSE reviewed[n]
    BY <1>1, <1>10 DEF RunEnd, Types, QueueTypes, SeenTypes
  <2>2. CASE n # m
    BY <1>6, <1>7, <2>1, <2>2 DEF Held, Alive
  <2>3. CASE n = m
    <3>1. ~Alive(n)'
      BY <2>1, <2>3 DEF Alive
    <3>2. CASE running[n].cancel
      BY <1>6, <1>7, <2>1, <2>3, <3>1, <3>2 DEF Held, Alive
    <3>3. CASE ~running[n].cancel
      BY <1>6, <1>7, <2>1, <2>3, <3>1, <3>3 DEF Held, Alive
    <3> QED  BY <3>2, <3>3
  <2> QED  BY <2>2, <2>3
<1>11. CASE Configure \/ UNCHANGED vars
  BY <1>6, <1>7, <1>11, HeldApart DEF Configure, vars, queueVars, historyVars
<1> QED  BY <1>5, <1>8, <1>9, <1>10, <1>11 DEF Run

LEMMA HeldStep ==
    ASSUME OrderedInv, LookInv, HeldInv, [Next]_vars
    PROVE  HeldInv'
<1> SUFFICES ASSUME NEW n \in Numbers, Handled(n)'
             PROVE  Held(n)'
  BY DEF HeldInv
<1>1. Types /\ ListInv
  BY DEF OrderedInv, IInv
<1>2. Quiet /\ Quiet'
  BY <1>1, QuietStep DEF Handled
<1>3. ASSUME NEW m \in Numbers, Changed(m)  PROVE Held(n)'
  <2>1. /\ UNCHANGED <<newest, queueVars, reviewed>>
        /\ n # m => pr'[n] = pr[n]
        /\ pr'[m].version = pr[m].version + 1 /\ hooks \subseteq hooks'
    BY <1>1, <1>3 DEF Changed, historyVars, Types, GitHubTypes
  <2>2. n # m
    <3>1. newest[m] <= pr[m].version /\ pr[m].version \in Nat /\ newest[m] \in Nat
      BY <1>1, NumbersAre DEF ListInv, ListOf
    <3>2. newest[m] # pr'[m].version
      BY <2>1, <3>1
    <3> QED  BY <2>1, <3>2 DEF Handled
  <2>3. Held(n)
    BY <1>2, <2>1, <2>2 DEF HeldInv, Handled
  <2> QED  BY <2>1, <2>2, <2>3 DEF Held, Alive, queueVars
<1>4. CASE GitHub
  BY <1>1, <1>3, <1>4, GitHubIs DEF GitHub
<1>5. ASSUME NEW h \in hooks, Handle(h)  PROVE Held(n)'
  BY <1>2, <1>5, HandleHeld
<1>6. CASE ~GitHub /\ \A h \in hooks : ~Handle(h)
  BY <1>2, <1>6, HeldOtherwise
<1> QED  BY <1>4, <1>5, <1>6

\* While webhooks are handled in order, nobody has asked or cancelled and nothing has
\* failed, a reconciliation in flight cannot lose the newest content.
THEOREM NewestStaysHeld ==
    ASSUME InOrder
    PROVE  Spec => []NewestIsHeld
<1>1. Init => OrderedInv /\ LookInv /\ HeldInv
  <2> SUFFICES ASSUME Init  PROVE LookInv /\ HeldInv
    BY OrderedInit
  <2>1. LookInv
    BY NoListingIs DEF Init, LookInv
  <2>2. HeldInv
    <3>1. ASSUME NEW n \in Numbers  PROVE newest[n] # pr[n].version
      <4>1. pr[n] \in [open : {TRUE}, head : Heads, base : Bases, version : {1}, at : {1}]
        BY DEF Init
      <4> QED  BY <4>1 DEF Init
    <3> QED  BY <3>1 DEF HeldInv, Handled
  <2> QED  BY <2>1, <2>2
<1>2. OrderedInv /\ LookInv /\ HeldInv /\ [Next]_vars => (OrderedInv /\ LookInv /\ HeldInv)'
  <2> SUFFICES ASSUME OrderedInv, LookInv, HeldInv, [Next]_vars
               PROVE  OrderedInv' /\ LookInv' /\ HeldInv'
    OBVIOUS
  <2>1. OrderedInv'
    BY OrderedStep
  <2>2. LookInv'
    BY LookStep DEF OrderedInv, IInv
  <2>3. HeldInv'
    BY HeldStep
  <2> QED  BY <2>1, <2>2, <2>3
<1>3. HeldInv => NewestIsHeld
  <2> SUFFICES ASSUME HeldInv, NEW n \in Numbers, Quiet, pr[n].open,
                      newest[n] = pr[n].version, {h \in hooks : h.n = n} = {}
               PROVE  \/ reviewed[n] = Content(pr[n])
                      \/ pending[n] # NoJob /\ pending[n].content = Content(pr[n])
                      \/ /\ running[n] # NotRunning /\ ~running[n].cancel
                         /\ running[n].job.content = Content(pr[n])
                      \/ n \in skipped
    BY DEF NewestIsHeld, Quiet
  <2>1. Held(n)
    BY DEF HeldInv, Handled
  <2> QED  BY <2>1 DEF Held, Alive
<1> QED  BY <1>1, <1>2, <1>3, PTL DEF Spec
=============================================================================
