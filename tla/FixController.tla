----------------------------- MODULE FixController -----------------------------
(***************************************************************************)
(* The fix controller (src/src/server/fixes.rs): requests for fixes of one *)
(* complete review, their confirmation, the dispatcher and its workers,    *)
(* generation and validation, delivery to GitHub by an administrator or on *)
(* the worker's own, the follow-up review, cancellation, invalidation by a *)
(* closed pull request, shutdown and restart.                              *)
(*                                                                         *)
(* Each action is one critical section of the store lock, or one stretch   *)
(* between two awaits.  A record is persisted before memory changes, so    *)
(* memory and disk agree; a write that fails is not modelled.              *)
(***************************************************************************)
EXTENDS FixPatch

CONSTANTS
    MaxFixes,     \* bound: records ever made
    MaxAttempts,  \* limits.attempts
    Concurrent,   \* limits.concurrent
    MaxChanges,   \* bound: changes of settings, role, pull request and shutdowns
    MaxRestarts,  \* bound: how often the process starts again
    Origins,      \* where requests come from: "auto", "dashboard", "mention"
    Deliveries,   \* what an administrator may choose: "draft_pr", "same_branch"
    Policies,     \* the settings there may be: execution, and drafts without a click
    Faults        \* what may go wrong outside: "network", "disconnect", "crash"

ASSUME FixAssumption ==
    /\ Origins \subseteq {"auto", "dashboard", "mention"}
    /\ Deliveries \subseteq {"draft_pr", "same_branch"}
    /\ Policies \subseteq [execution : BOOLEAN, auto : BOOLEAN] /\ Policies # {}
    /\ MaxFixes \in Nat /\ MaxAttempts \in Nat \ {0} /\ Concurrent \in Nat \ {0}
    /\ MaxChanges \in Nat /\ MaxRestarts \in Nat

Fixes  == 1..MaxFixes
Final  == {"cancelled", "discarded"}
Held   == {"publishing", "published", "verifying", "verified"}
Broken == {"failed", "validation_failed", "unsupported", "stale", "publish_failed"}
Live   == {"awaiting_confirmation", "queued", "generating", "validating", "ready"}
States == {"absent"} \cup Live \cup Held \cup Broken \cup Final
Working == {"generating", "validating"}

\* The worker inside generate, which a cancel ends at its next await.
InGenerate == {"start", "look", "prepare", "retry", "begin", "edit", "check", "verify"}
Places == {"idle", "end", "offer", "deliver", "leave"} \cup InGenerate
Posts  == {"none", "claimed", "created", "rechecked", "written", "lost", "follow", "enqueue"}

VARIABLES
    state,      \* Record.state
    consent,    \* Record.consent
    authority,  \* who answers for it: the requester, an administrator
                \* (ContextData.authority_by), or nobody (requested after a review)
    preview,    \* ContextData.preview_only
    attempt,    \* Record.attempt
    checked,    \* Record.tests and Record.verification: none, bad or good
    patch,      \* the attempt whose patch.json is on disk, or 0
    place,      \* Store.running, and where its worker is
    snapshot,   \* policy.execution as the worker read it at its start
    told,       \* the cancel watches that are true
    post,       \* publish_authorized, from its claim to its return
    mode,       \* what it delivers: draft_pr or same_branch, and for whom
    follow,     \* the follow-up review of verify_review
    settings,   \* the current policy: execution, automatic drafts
    role,       \* the requester's role at GitHub
    pull,       \* the pull request against the reviewed head
    scan,       \* fix_notify's permit and the dispatch loop
    inventory,  \* the installations were listed since the start
    phase,      \* up or stopping
    changes, restarts,
    approvals,  \* history: claims of a ready fix
    writes      \* history: branches written at GitHub

recordVars == <<state, consent, authority, preview, attempt, checked, patch>>
workerVars == <<place, snapshot, told>>
postVars   == <<post, mode, follow, approvals, writes>>
worldVars  == <<settings, role, pull, inventory, phase, changes, restarts>>
vars == <<recordVars, workerVars, postVars, worldVars, scan>>

None == [by |-> "none", as |-> "none"]
Modes == [by : {"admin", "auto"}, as : {"draft_pr", "same_branch"}] \cup {None}

TypeOK ==
    /\ state \in [Fixes -> States]
    /\ consent \in [Fixes -> {"none", "once", "persistent"}]
    /\ authority \in [Fixes -> {"requester", "admin", "auto"}]
    /\ preview \in [Fixes -> BOOLEAN]
    /\ attempt \in [Fixes -> 0..MaxAttempts]
    /\ checked \in [Fixes -> {"none", "bad", "good"}]
    /\ patch \in [Fixes -> 0..MaxAttempts]
    /\ place \in [Fixes -> Places]
    /\ snapshot \in [Fixes -> BOOLEAN]
    /\ told \subseteq Fixes
    /\ post \in [Fixes -> Posts]
    /\ mode \in [Fixes -> Modes]
    /\ follow \in [Fixes -> {"none", "asked", "queued"}]
    /\ settings \in Policies
    /\ role \in {"maintainer", "author", "other"}
    /\ pull \in {"reviewed", "moved", "closed"}
    /\ scan \in [notified : BOOLEAN, on : BOOLEAN]
    /\ inventory \in BOOLEAN
    /\ phase \in {"up", "stopping"}
    /\ changes \in 0..MaxChanges
    /\ restarts \in 0..MaxRestarts
    /\ approvals \in [Fixes -> Nat]
    /\ writes \in [Fixes -> Nat]

Init ==
    /\ state = [f \in Fixes |-> "absent"]
    /\ consent = [f \in Fixes |-> "none"]
    /\ authority = [f \in Fixes |-> "requester"]
    /\ preview = [f \in Fixes |-> FALSE]
    /\ attempt = [f \in Fixes |-> 0]
    /\ checked = [f \in Fixes |-> "none"]
    /\ patch = [f \in Fixes |-> 0]
    /\ place = [f \in Fixes |-> "idle"]
    /\ snapshot = [f \in Fixes |-> FALSE]
    /\ told = {}
    /\ post = [f \in Fixes |-> "none"]
    /\ mode = [f \in Fixes |-> None]
    /\ follow = [f \in Fixes |-> "none"]
    /\ settings \in Policies
    /\ role = "maintainer"
    /\ pull = "reviewed"
    /\ scan = [notified |-> TRUE, on |-> FALSE]
    /\ inventory = FALSE
    /\ phase = "up"
    /\ changes = 0
    /\ restarts = 0
    /\ approvals = [f \in Fixes |-> 0]
    /\ writes = [f \in Fixes |-> 0]

-------------------------------------------------------------------------------
(* The record.                                                             *)

\* Mutant of Changed: a late result wins over a cancellation.
ChangedAnyway(f, s) == s

\* change: cancellation and discard are final for whoever finishes later.
Changed(f, s) == IF state[f] \in Final THEN state[f] ELSE s

Change(f, s) == state' = [state EXCEPT ![f] = Changed(f, s)]
Set(f, s)    == state' = [state EXCEPT ![f] = s]

\* Record.active.
Active(f) == state[f] \in (Live \cup Held)

Notify == scan' = [scan EXCEPT !.notified = TRUE]

-------------------------------------------------------------------------------
(* Requests: mentions, checks, the dashboard, the end of a review.          *)

\* authorize: what the requester may have; NoAccess is an error.
Access(origin) ==
    CASE origin \in {"auto", "dashboard"} -> "full"
      [] role = "maintainer" -> "full"
      [] role = "author" -> "preview"
      [] OTHER -> "denied"

\* One record per request, unless an active one has the same key: the reviewed
\* findings are those of one review here, so the key only differs by who asked.
\* The pull request was looked at before the lock, so it may have moved since.
\* Refusals by rate leave no record.
Request(f, origin, once, skip) ==
    LET access  == Access(origin)
        private == access = "preview"
        may     == access # "denied"
        given   == IF ~may THEN "none"
                   ELSE IF once THEN "once"
                   ELSE IF settings.execution THEN "persistent" ELSE "none"
        queue   == given # "none" /\ (once \/ origin = "auto" \/ skip)
    IN  /\ state[f] = "absent"
        /\ \A g \in Fixes : g < f => state[g] # "absent"
        /\ origin = "auto" => settings.execution
        /\ once => origin = "dashboard"
        /\ ~\E g \in Fixes : Active(g) /\ preview[g] = private
        /\ Set(f, IF ~may THEN "failed" ELSE IF queue THEN "queued" ELSE "awaiting_confirmation")
        /\ consent' = [consent EXCEPT ![f] = given]
        /\ authority' = [authority EXCEPT ![f] = CASE origin = "dashboard" -> "admin"
                                                   [] origin = "auto" -> "auto"
                                                   [] OTHER -> "requester"]
        /\ preview' = [preview EXCEPT ![f] = private]
        /\ IF may THEN Notify ELSE UNCHANGED scan
        /\ UNCHANGED <<attempt, checked, patch, workerVars, postVars, worldVars>>

\* The dashboard confirms a generation.
Confirm(f, once) ==
    /\ state[f] = "awaiting_confirmation"
    /\ once \/ settings.execution
    /\ consent' = [consent EXCEPT ![f] = IF once THEN "once" ELSE "persistent"]
    /\ authority' = [authority EXCEPT ![f] = "admin"]
    /\ Set(f, "queued")
    /\ Notify
    /\ UNCHANGED <<preview, attempt, checked, patch, workerVars, postVars, worldVars>>

Regenerable(f) ==
    /\ attempt[f] < MaxAttempts
    /\ state[f] \in {"ready", "failed", "validation_failed", "unsupported", "cancelled"}

\* The dashboard asks for another attempt, when no worker is at the last one.
Regenerate(f) ==
    /\ Regenerable(f)
    /\ place[f] = "idle"
    /\ authority' = [authority EXCEPT ![f] = "admin"]
    /\ Set(f, "queued")
    /\ Notify
    /\ UNCHANGED <<consent, preview, attempt, checked, patch, workerVars, postVars, worldVars>>

Tell(fs) == told' = told \cup {f \in fs : place[f] # "idle"}

\* stop: cancel or discard from the dashboard, `fix cancel' from a comment.
Stop(f, final) ==
    /\ state[f] \notin Held \cup {"absent"}
    /\ Tell({f})
    /\ Set(f, final)
    /\ UNCHANGED <<consent, authority, preview, attempt, checked, patch,
                   place, snapshot, postVars, worldVars, scan>>

\* invalidate: the pull request was closed, its review cancelled, or the
\* repository removed.
Invalidate ==
    LET gone == {f \in Fixes : state[f] \in Live}
    IN  /\ gone # {}
        /\ Tell(gone)
        /\ state' = [f \in Fixes |-> IF f \in gone THEN "cancelled" ELSE state[f]]
        /\ UNCHANGED <<consent, authority, preview, attempt, checked, patch,
                       place, snapshot, postVars, worldVars, scan>>

-------------------------------------------------------------------------------
(* The dispatcher.                                                          *)

Waiting == {f \in Fixes : state[f] = "queued" /\ place[f] = "idle" /\ inventory}
Running == {f \in Fixes : place[f] # "idle"}

Wake ==
    /\ phase = "up"
    /\ scan.notified /\ ~scan.on
    /\ scan' = [notified |-> FALSE, on |-> TRUE]
    /\ UNCHANGED <<recordVars, workerVars, postVars, worldVars>>

\* One turn of the inner loop: the oldest queued fix, while there is room.
Dispatch ==
    /\ phase = "up"
    /\ scan.on
    /\ \/ \E f \in Waiting :
            /\ Cardinality(Running) < Concurrent
            /\ \A g \in Waiting : f <= g
            /\ place' = [place EXCEPT ![f] = "start"]
            /\ UNCHANGED scan
       \/ /\ Waiting = {} \/ Cardinality(Running) >= Concurrent
          /\ scan' = [scan EXCEPT !.on = FALSE]
          /\ UNCHANGED place
    /\ UNCHANGED <<recordVars, snapshot, told, postVars, worldVars>>

-------------------------------------------------------------------------------
(* A worker: run, generate, generate_until.                                 *)

\* The worker moves on; a step whose poll began before the cancel is its last.
Step(f, from, to) ==
    /\ place[f] = from
    /\ place' = [place EXCEPT ![f] = IF f \in told /\ from \in InGenerate THEN "end" ELSE to]
    /\ UNCHANGED <<told, postVars, worldVars>>

\* The select of run: a cancel drops generate wherever it waits.
Drop(f) ==
    /\ f \in told
    /\ place[f] \in InGenerate
    /\ place' = [place EXCEPT ![f] = "end"]
    /\ UNCHANGED <<recordVars, snapshot, told, postVars, worldVars, scan>>

\* An error, or the time limit.
Fail(f) ==
    /\ place[f] \in InGenerate
    /\ Step(f, place[f], "end")
    /\ Change(f, "failed")
    /\ UNCHANGED <<consent, authority, preview, attempt, checked, patch, snapshot, scan>>

Begin(f) ==
    /\ Step(f, "start", IF state[f] = "queued" THEN "look" ELSE "end")
    /\ snapshot' = [snapshot EXCEPT ![f] = settings.execution]
    /\ UNCHANGED <<recordVars, scan>>

\* What authorize_execution asks: the administrator who confirmed, or the
\* requester's role now.
Permitted(f) == authority[f] # "requester" \/ role # "other"
PreviewOnly(f) == preview[f] \/ (authority[f] = "requester" /\ role = "author")

\* Mutant of Look: consent is not asked for.
LookWithoutConsent(f) ==
    /\ pull = "reviewed"
    /\ Permitted(f)
    /\ Step(f, "look", "prepare")
    /\ UNCHANGED <<recordVars, snapshot, scan>>

\* The pull request is read, the permission checked, then the consent.
Look(f) ==
    /\ \/ /\ pull # "reviewed"
          /\ Step(f, "look", "end")
          /\ Change(f, "stale")
          /\ UNCHANGED preview
       \/ /\ pull = "reviewed"
          /\ Permitted(f)
          /\ preview' = IF state[f] \in Final THEN preview
                        ELSE [preview EXCEPT ![f] = PreviewOnly(f)]
          /\ IF consent[f] = "none" \/ (consent[f] = "persistent" /\ ~snapshot[f])
             THEN Step(f, "look", "end") /\ Change(f, "awaiting_confirmation")
             ELSE Step(f, "look", "prepare") /\ UNCHANGED state
    /\ UNCHANGED <<consent, authority, attempt, checked, patch, snapshot, scan>>

\* The sandbox is probed and the reviewed head checked out.
Prepare(f, available) ==
    /\ Step(f, "prepare", IF available THEN "retry" ELSE "end")
    /\ IF available THEN UNCHANGED state ELSE Change(f, "unsupported")
    /\ UNCHANGED <<consent, authority, preview, attempt, checked, patch, snapshot, scan>>

\* Another attempt: the pull request and the permission are read again; or the
\* attempts, or the requests, are used up.
Retry(f) ==
    /\ \/ /\ attempt[f] < MaxAttempts
          /\ pull = "reviewed" /\ Permitted(f)
          /\ preview' = IF state[f] \in Final THEN preview
                        ELSE [preview EXCEPT ![f] = PreviewOnly(f)]
          /\ Step(f, "retry", "begin")
          /\ UNCHANGED state
       \/ /\ Step(f, "retry", "end")
          /\ Change(f, "validation_failed")
          /\ UNCHANGED preview
    /\ UNCHANGED <<consent, authority, attempt, checked, patch, snapshot, scan>>

\* The attempt starts from a clean record.
Attempt(f) ==
    /\ state[f] \notin Final
    /\ Step(f, "begin", "edit")
    /\ Change(f, "generating")
    /\ attempt' = [attempt EXCEPT ![f] = @ + 1]
    /\ checked' = [checked EXCEPT ![f] = "none"]
    /\ UNCHANGED <<consent, authority, preview, patch, snapshot, scan>>

\* It was cancelled meanwhile: nothing changes, and the worker returns.
AttemptRefused(f) ==
    /\ state[f] \in Final
    /\ Step(f, "begin", "end")
    /\ UNCHANGED <<recordVars, snapshot, scan>>

\* The fixer ran in the sandbox.
Edited(f) ==
    /\ Step(f, "edit", "check")
    /\ Change(f, "validating")
    /\ UNCHANGED <<consent, authority, preview, attempt, checked, patch, snapshot, scan>>

\* The patch is computed (FixPatch) and kept if it is allowed; only one without
\* any error goes on to the tests.
PatchChecked(f, kept, clean) ==
    /\ clean => kept
    /\ Step(f, "check", IF clean THEN "verify" ELSE "retry")
    /\ patch' = [patch EXCEPT ![f] = IF kept THEN attempt[f] ELSE 0]
    /\ UNCHANGED <<state, consent, authority, preview, attempt, checked, snapshot, scan>>

\* The tests ran and a fresh verifier judged the patch.
Verified(f, good) ==
    /\ Step(f, "verify", IF good THEN "end" ELSE "retry")
    /\ checked' = IF state[f] \in Final THEN checked
                  ELSE [checked EXCEPT ![f] = IF good THEN "good" ELSE "bad"]
    /\ IF good THEN Change(f, "ready") ELSE UNCHANGED state
    /\ UNCHANGED <<consent, authority, preview, attempt, patch, snapshot, scan>>

\* automatic_draft_allowed.
AutoAllowed(f) == settings.auto /\ ~preview[f]

\* After generate: a ready fix may be published without a click.
Offer(f) ==
    /\ f \notin told /\ state[f] = "ready" /\ AutoAllowed(f)
    /\ Step(f, "end", "offer")
    /\ UNCHANGED <<recordVars, snapshot, scan>>

NoOffer(f) ==
    /\ \/ place[f] = "end" /\ ~(f \notin told /\ state[f] = "ready" /\ AutoAllowed(f))
       \/ place[f] = "offer"
    /\ Step(f, place[f], "leave")
    /\ UNCHANGED <<recordVars, snapshot, scan>>

\* Mutant of Leave: the dispatcher is not woken.
LeaveQuietly(f) ==
    /\ place[f] = "leave"
    /\ place' = [place EXCEPT ![f] = "idle"]
    /\ told' = told \ {f}
    /\ snapshot' = [snapshot EXCEPT ![f] = FALSE]
    /\ UNCHANGED <<recordVars, postVars, worldVars, scan>>

\* The worker leaves `running' and wakes the dispatcher.
Leave(f) ==
    /\ place[f] = "leave"
    /\ place' = [place EXCEPT ![f] = "idle"]
    /\ told' = told \ {f}
    /\ snapshot' = [snapshot EXCEPT ![f] = FALSE]
    /\ Notify
    /\ UNCHANGED <<recordVars, postVars, worldVars>>

-------------------------------------------------------------------------------
(* Publication: publish_authorized, deliver.                                *)

PostStep(f, from, to) ==
    /\ post[f] = from
    /\ post' = [post EXCEPT ![f] = to]
    /\ UNCHANGED <<mode, approvals>>

Claim(f, by, as) ==
    /\ post' = [post EXCEPT ![f] = "claimed"]
    /\ mode' = [mode EXCEPT ![f] = [by |-> by, as |-> as]]
    /\ approvals' = [approvals EXCEPT ![f] = @ + 1]
    /\ Set(f, "publishing")
    /\ UNCHANGED <<consent, authority, preview, attempt, checked, patch,
                   snapshot, told, follow, writes, worldVars, scan>>

\* Mutant of Approve: a fix that is being published can be approved again.
ApproveAgain(f, as) ==
    /\ state[f] \in {"ready", "publishing"}
    /\ Claim(f, "admin", as)
    /\ UNCHANGED place

\* An administrator approves: the claim is taken under the lock, before GitHub
\* is asked anything.
Approve(f, as) ==
    /\ state[f] = "ready"
    /\ Claim(f, "admin", as)
    /\ UNCHANGED place

\* The worker's own claim, the settings read again under the lock.
ApproveAutomatically(f) ==
    /\ place[f] = "offer"
    /\ state[f] = "ready" /\ AutoAllowed(f)
    /\ place' = [place EXCEPT ![f] = "deliver"]
    /\ Claim(f, "auto", "draft_pr")

\* Mutant of Deliverable: who asked for it is forgotten.
DeliverableForAll(f) ==
    /\ pull = "reviewed"
    /\ mode[f].by = "auto" => AutoAllowed(f)

\* live, fresh, the grants and capabilities of deliver.
Deliverable(f) ==
    /\ pull = "reviewed"
    /\ ~preview[f]
    /\ mode[f].by = "auto" => AutoAllowed(f)

PostUnchanged ==
    UNCHANGED <<consent, authority, preview, attempt, checked, patch, workerVars, scan>>

\* The first look: the pull request, the grants, the settings, the patch, its
\* tests and verdict; then the commit, which no branch shows yet.
CreateCommit(f) ==
    /\ Deliverable(f) /\ checked[f] = "good"
    /\ PostStep(f, "claimed", "created")
    /\ UNCHANGED <<state, follow, writes, worldVars>>
    /\ PostUnchanged

\* Everything that may have changed meanwhile is looked at again.
Recheck(f) ==
    /\ Deliverable(f)
    /\ PostStep(f, "created", "rechecked")
    /\ UNCHANGED <<state, follow, writes, worldVars>>
    /\ PostUnchanged

\* The one write of a branch.  The pull request's own branch is only moved from
\* the reviewed head.  The answer, or the draft pull request that is opened for
\* a new branch, may be lost.
WriteBranch(f, answered) ==
    /\ answered \/ "network" \in Faults
    /\ mode[f].as = "same_branch" => pull # "moved"
    /\ PostStep(f, "rechecked", IF answered THEN "written" ELSE "lost")
    /\ writes' = [writes EXCEPT ![f] = @ + 1]
    /\ pull' = IF mode[f].as = "same_branch" /\ pull = "reviewed" THEN "moved" ELSE pull
    /\ UNCHANGED <<state, follow, settings, role, inventory, phase, changes, restarts>>
    /\ PostUnchanged

\* The automatic claim is the worker's: it goes on when that returns.
Return(f) ==
    /\ post' = [post EXCEPT ![f] = "none"]
    /\ mode' = [mode EXCEPT ![f] = None]
    /\ place' = [place EXCEPT ![f] = IF @ = "deliver" THEN "leave" ELSE @]
    /\ UNCHANGED <<approvals, consent, authority, preview, attempt, checked, patch,
                   snapshot, told, worldVars, scan>>

\* An error before the write, or no answer to it: not retried.
Refused(f) ==
    /\ post[f] \in {"claimed", "created", "rechecked", "lost"}
    /\ Change(f, "publish_failed")
    /\ Return(f)
    /\ UNCHANGED <<follow, writes>>

\* The delivery is recorded; a follow-up review is due unless turned off.
Published(f, rereview) ==
    /\ post[f] = "written"
    /\ Change(f, "published")
    /\ IF rereview
       THEN PostStep(f, "written", "follow") /\ PostUnchanged /\ UNCHANGED worldVars
       ELSE Return(f)
    /\ UNCHANGED <<follow, writes>>

\* followup: the fix waits for the review before that is enqueued.
Follow(f) ==
    /\ PostStep(f, "follow", "enqueue")
    /\ Change(f, "verifying")
    /\ follow' = [follow EXCEPT ![f] = "asked"]
    /\ UNCHANGED <<writes, worldVars>>
    /\ PostUnchanged

Enqueue(f) ==
    /\ phase = "up"
    /\ post[f] = "enqueue"
    /\ follow' = [follow EXCEPT ![f] = "queued"]
    /\ Return(f)
    /\ UNCHANGED <<state, writes>>

\* Mutant of Unfollowed: the fix keeps waiting.
UnfollowedSilently(f) ==
    /\ post[f] \in {"follow", "enqueue"}
    /\ follow' = [follow EXCEPT ![f] = "none"]
    /\ Return(f)
    /\ UNCHANGED <<writes, state>>

\* The published head has moved, or the review was not admitted.
Unfollowed(f) ==
    /\ post[f] \in {"follow", "enqueue"}
    /\ Change(f, "published")
    /\ follow' = [follow EXCEPT ![f] = "none"]
    /\ Return(f)
    /\ UNCHANGED writes

\* review_finished and review_terminated: only a complete review of the
\* delivered commit verifies.
ReviewEnds(f, complete) ==
    /\ follow[f] = "queued"
    /\ follow' = [follow EXCEPT ![f] = "none"]
    /\ IF state[f] = "verifying"
       THEN Change(f, IF complete THEN "verified" ELSE "published")
       ELSE UNCHANGED state
    /\ UNCHANGED <<consent, authority, preview, attempt, checked, patch, workerVars,
                   post, mode, approvals, writes, worldVars, scan>>

-------------------------------------------------------------------------------
(* The world, shutdown and restart.                                         *)

\* The browser closes the connection of an approval: its handler is dropped.
Disconnect(f) ==
    /\ "disconnect" \in Faults
    /\ post[f] # "none" /\ mode[f].by = "admin"
    /\ Return(f)
    /\ UNCHANGED <<state, follow, writes>>

WorldStep ==
    /\ changes < MaxChanges
    /\ changes' = changes + 1
    /\ UNCHANGED <<recordVars, postVars, inventory, restarts>>

ChangeSettings(s) ==
    /\ s # settings
    /\ WorldStep
    /\ settings' = s
    /\ Notify
    /\ UNCHANGED <<workerVars, role, pull, phase>>

\* The requester loses a role, the pull request moves, closes or reopens.
ChangeRole ==
    /\ WorldStep
    /\ role' \in {"author", "other"} /\ role' # role
    /\ UNCHANGED <<workerVars, settings, pull, phase, scan>>

ChangePull ==
    /\ WorldStep
    /\ pull' \in (CASE pull = "reviewed" -> {"moved", "closed"}
                    [] pull = "moved" -> {}
                    [] pull = "closed" -> {"reviewed"})
    /\ UNCHANGED <<workerVars, settings, role, phase, scan>>

\* shutdown: no dispatch any more, every worker told, what was queued or being
\* generated has failed.
Shutdown ==
    /\ phase = "up"
    /\ changes < MaxChanges
    /\ changes' = changes + 1
    /\ phase' = "stopping"
    /\ Tell(Fixes)
    /\ state' = [f \in Fixes |-> IF state[f] \in {"queued"} \cup Working
                                 THEN "failed" ELSE state[f]]
    /\ scan' = [scan EXCEPT !.on = FALSE]
    /\ UNCHANGED <<consent, authority, preview, attempt, checked, patch, place, snapshot,
                   postVars, settings, role, pull, inventory, restarts>>

\* Store::load.
Reloaded(s) ==
    CASE s \in Working -> "failed"
      [] s = "publishing" -> "publish_failed"
      [] s = "verifying" -> "published"
      [] OTHER -> s

Restart ==
    /\ "crash" \in Faults
    /\ restarts < MaxRestarts
    /\ restarts' = restarts + 1
    /\ state' = [f \in Fixes |-> Reloaded(state[f])]
    /\ place' = [f \in Fixes |-> "idle"]
    /\ snapshot' = [f \in Fixes |-> FALSE]
    /\ told' = {}
    /\ post' = [f \in Fixes |-> "none"]
    /\ mode' = [f \in Fixes |-> None]
    /\ follow' = [f \in Fixes |-> "none"]
    /\ scan' = [notified |-> TRUE, on |-> FALSE]
    /\ inventory' = FALSE
    /\ phase' = "up"
    /\ UNCHANGED <<consent, authority, preview, attempt, checked, patch,
                   settings, role, pull, changes, approvals, writes>>

\* The reconciliation has listed the installations and wakes the dispatcher.
Discover ==
    /\ ~inventory
    /\ inventory' = TRUE
    /\ Notify
    /\ UNCHANGED <<recordVars, workerVars, postVars, settings, role, pull, phase,
                   changes, restarts>>

-------------------------------------------------------------------------------
User(f) ==
    \/ \E o \in Origins, once, skip \in BOOLEAN : Request(f, o, once, skip)
    \/ \E once \in BOOLEAN : Confirm(f, once)
    \/ Regenerate(f)
    \/ \E s \in Final : Stop(f, s)
    \/ \E as \in Deliveries : Approve(f, as)

Generate(f) ==
    \/ Begin(f) \/ Look(f) \/ \E ok \in BOOLEAN : Prepare(f, ok)
    \/ Retry(f) \/ Attempt(f) \/ AttemptRefused(f) \/ Edited(f)
    \/ place[f] = "check" /\ \E o \in Outcomes : PatchChecked(f, o.kept, o.clean)
    \/ \E good \in BOOLEAN : Verified(f, good)

Worker(f) ==
    \/ Generate(f) \/ Drop(f) \/ Fail(f)
    \/ Offer(f) \/ NoOffer(f) \/ ApproveAutomatically(f) \/ Leave(f)

Publish(f) ==
    \/ CreateCommit(f) \/ Recheck(f) \/ \E ok \in BOOLEAN : WriteBranch(f, ok)
    \/ Refused(f) \/ \E again \in BOOLEAN : Published(f, again)
    \/ Follow(f) \/ Enqueue(f) \/ Unfollowed(f)

World ==
    \/ \E s \in Policies : ChangeSettings(s)
    \/ ChangeRole \/ ChangePull \/ Shutdown \/ Restart

Next ==
    \/ \E f \in Fixes : User(f)
    \/ Invalidate
    \/ Wake \/ Dispatch \/ Discover
    \/ \E f \in Fixes : Worker(f) \/ Publish(f) \/ Disconnect(f)
    \/ \E f \in Fixes, complete \in BOOLEAN : ReviewEnds(f, complete)
    \/ World

Spec == Init /\ [][Next]_vars

(***************************************************************************)
(* Fairness: the dispatch loop, the workers, the handlers and the reviews  *)
(* of the queue come to an end (a fix has a time limit, a review as well), *)
(* and the installations are listed sooner or later.  Nothing is assumed   *)
(* of users, settings or GitHub.                                           *)
(***************************************************************************)
Fairness ==
    /\ WF_vars(Wake) /\ WF_vars(Dispatch) /\ WF_vars(Discover)
    /\ \A f \in Fixes : /\ WF_vars(Worker(f))
                         /\ WF_vars(Publish(f))
                         /\ WF_vars(\E complete \in BOOLEAN : ReviewEnds(f, complete))

FairSpec == Spec /\ Fairness

-------------------------------------------------------------------------------
(* Safety.                                                                  *)

\* No model work is paid for without consent, whichever way the fix was queued:
\* a request that was denied and is then regenerated has none either.
ConsentBeforeWork ==
    \A f \in Fixes : state[f] \in Working => consent[f] # "none"

\* docs/server.md:438 "a private, patch-only preview, never publication": also
\* after the fix is confirmed or regenerated by an administrator.
PrivateStaysPrivate ==
    \A f \in Fixes : preview[f] => writes[f] = 0

\* No record is left in a busy state without somebody at it, so a fix that can
\* neither be cancelled nor regenerated does not stay that way.
NobodyIsStranded ==
    phase = "up" =>
    \A f \in Fixes :
        /\ state[f] \in Working => place[f] \in InGenerate
        /\ state[f] = "publishing" => post[f] \notin {"none", "follow", "enqueue"}
        /\ state[f] = "verifying" => follow[f] = "queued" \/ post[f] = "enqueue"

-------------------------------------------------------------------------------
(* The abstract specification.                                              *)

StageOf(s) ==
    CASE s = "absent" -> "none"
      [] s \in {"awaiting_confirmation", "queued"} -> "asked"
      [] s \in Working -> "working"
      [] s = "ready" -> "ready"
      [] s = "publishing" -> "delivering"
      [] s \in {"published", "verifying", "verified"} -> "delivered"
      [] s \in Broken -> "ended"
      [] s \in Final -> "dropped"

\* The patch that would be delivered is the one of this attempt, and it passed.
Proven(f) == checked[f] = "good" /\ patch[f] = attempt[f]

Lifecycle == INSTANCE FixLifecycle WITH
    stage  <- [f \in Fixes |-> StageOf(state[f])],
    proven <- [f \in Fixes |-> Proven(f)]

\* The controller keeps the promise: over cancels that race a worker's result,
\* answers that are lost, restarts in any state and two claims at once.
KeepsThePromise == Lifecycle!Spec

-------------------------------------------------------------------------------
(* Progress.                                                                *)

Busy(f) == state[f] \in {"queued", "publishing", "verifying"} \cup Working

\* A fix that somebody waits for comes to rest, unless the server stops or older
\* fixes are regenerated again and again.
EveryFixSettles ==
    <>[][~\E f \in Fixes : Regenerate(f)]_vars =>
        \A f \in Fixes : Busy(f) ~> ~Busy(f) \/ phase = "stopping"
=============================================================================
