# TLA+ models of Revera

Revera reviews pull requests with language models. It is a command line tool
(`revera review`, `revera index`) and a GitHub App server (`revera serve`) that
queues reviews, runs the command line tool for each one, prepares fixes and
shows all of it on a dashboard. This directory holds TLA+ modules translated
from the Rust sources, the TLC configurations that check them on small
instances, and theorems about them that TLAPS checks. `PROJECT.json` maps every
definition to the lines it stands for; file names below are relative to the
crate's source directory, `src/src`.

    tlc -workers 2 -config queue_recovery.cfg MCReviewQueue    # a run
    tlapm ReviewQueueProofs.tla                                # a proof

## The system

| Component | Sources | State | What makes it hard | Modules |
|---|---|---|---|---|
| Review queue, dispatcher, job runner, job summaries | `server/queue.rs`, `mod.rs`, `runner.rs`, `dashboard.rs` | `pending`, `running`, the stored wakeup, a worker's stage, `meta.json`, `seen.json`, check runs | requests, dispatcher and workers interleave at every await; two files and GitHub must agree; crashes | `QueueOps`, `ReviewQueue` |
| Pull request synchronisation | `server/reconcile.rs`, `pulls.rs`, `events.rs` | `Seen`, the cache of pull requests, tokens in flight | listings and lookups race webhooks; lost and late deliveries | `PullSync` |
| Owners and installations | `server/dashboard.rs`, `api.rs`, `reconcile.rs`, `mod.rs` | allowed and revoked logins, pins, the inventory | accounts are renamed and their logins taken by others, while work of them is under way | `Owners` |
| External pull requests | `server/external.rs` | tracked targets, reservations of the last hour, checkouts | a poll, submissions and untracking interleave; rate limits | `ExternalPulls` |
| Fix controller | `server/fixes.rs` | a record per fix, artifacts, consents | restart in every state; effects at GitHub that must not happen twice | `FixController`, `FixLifecycle` |
| Fix engine | `fix/*` | a workspace and its patch | what is committed must be what was checked | `FixPatch` |
| Command line | `cli.rs`, `config.rs`, `main.rs`, `report.rs` | none between calls | settings from a pull request that must not decide over itself; the exit code | `ReviewCommand` |
| Review pipeline | `pipeline/*` | lanes, validators, deadlines | stages that time out, fail or are cut off, and what the report then claims | `ReviewRun` |
| Findings, anchors, diff | `findings.rs`, `pipeline/dedup.rs`, `anchor.rs`, `diff.rs` | none | merging, limits, boundaries | `ReviewFindings`, `UnifiedDiff` |
| Agent | `agent.rs`, `tools.rs` | turns, deadlines, budgets | slow providers and tools at a deadline | `AgentLoop` |
| Provider routes | `provider/*` | the ledger of requests, the sticky route | concurrent callers on one budget; retries, fallbacks | `ModelRoutes`, `Protocols` |
| GitHub publication, review state | `github/publish.rs`, `state.rs` | what is on the pull request | a POST whose answer is lost | `Publish` |

Who calls whom: a webhook, a dashboard request, a poll or the reconciliation
asks `Server::enqueue*`, which changes the queue under its lock, writes the
summaries and wakes the dispatcher. The dispatcher spawns a worker for each job
it takes. The worker talks to GitHub (check run), runs `revera review` in a
child process, and commits its checkpoint and its summary. The child passes the
gates of `cli.rs`, lets the pipeline drive agents, which spend the run's ledger
of model requests, and publishes to GitHub. The fix controller takes findings of
a complete review, prepares a patch, delivers it as a branch or draft, and waits
for the review of what it delivered; `change_job` tells it of every review that
ends without completing.

How the modules compose. `PullSync`, `Owners` and `ExternalPulls` each carry as
much of the queue as they meet, with the decision of `Queue::enqueue` from
`QueueOps` or restated for the one kind of job they have. `AgentLoop` EXTENDS
`ModelRoutes`, which EXTENDS `Protocols`: one agent in time, with other callers
on its ledger. `ReviewRun` EXTENDS `ReviewCommand`; its agents are what
`AgentLoop` shows of them (they end within budget and grace). `ReviewFindings`
works on the diffs of `UnifiedDiff` and implements the step `Review` of
`Publish`. `FixController` EXTENDS `FixPatch` and implements `FixLifecycle`.
MC modules give the constants of an instance and symmetries, nothing else.

## Modules

In every server module an action is one critical section of a lock, or one
stretch of code between two awaits. History variables and bounds are named in
the comments of the VARIABLES and CONSTANTS.

### ReviewQueue, QueueOps

The variables are the fields of `Queue` (`pending`, `running` with the cancel
watch in `cancel`), `Server` (`notified` is the permit stored in `notify`,
`phase` stands for `stopping` and the stages of `serve_until`), a worker's place
in `runner::run` (`worker`, `outcome`), the job summaries (`status`, with
`CheckRecovery` in `check`), `Seen` in memory and on disk (`seen`, `saved`), and
the pass of `recover_checks` (`recovery`: the jobs that were not active, those
with a pending check, the one GitHub was asked about). A worker holds the queue
lock between its checkpoint and its summary, which are two files: actions that
take the lock wait for `QueueFree`, and a crash does not.

`Submit` is `enqueue_checked` (with `Queue::enqueue`), `Retarget` the first
section of `Server::retarget`, `Close` `Server::close`, `RemoveRepo`
`Server::remove_repo`, `Wake` and `Take` the loops of `dispatch`, `Begin` ...
`Fail` the stretches of `run_inner` and `run`, `Release` and `Leave` the end of
the spawned task. `recover_checks` has four stretches, between which anything may
happen: `RecoverBegin` looks at the queue, `RecoverList` at the summaries,
`RecoverRead` asks GitHub about one candidate without a lock (or `RecoverForgets`
gives up a check it may not reach), `RecoverWrite` looks again at the queue and the
summary and closes the check. `BeginShutdown` and `CancelJobs` are
`serve_until`, `Restart` `Dashboard::load`. The `*Fails` actions are the error
paths of the same code; each needs a fault of the constant `Faults`: `network`
(a request or its answer is lost), `disk` (a write fails), `crash`, `shutdown`,
`revoked` (an installation is gone).

Left out: who may enqueue (in `Owners` and `PullSync`; a refusal changes
nothing here), pruning of old jobs, what a review says.

### PullSync

Three kinds of tasks read GitHub at one time and change the queue at a later
one, and the module is about what each may still do then. A webhook handler
observes its pull request (`HookObserve`), updates the cache (`HookCache`) and
then enqueues, closes or retargets; the last releases the queue with a token in
hand (`Retarget`, `Replace`). The reconciliation takes the repository's
admission (`ListBegin`), reads the generation of the cache (`ListAsk`), reads
page by page (`ListRead`), merges (`ListApply`; `Merged` is `listing_since`),
chooses candidates and saves the checkpoint (`ListObserve`), and enqueues each
if it is still admissible (`ListEnqueue`). A lookup takes a token, fetches and
enqueues with force.

`pr` is GitHub's truth. Its `version` is for the properties only; the code
compares `at`, which stands for `updated_at` and may be equal for two versions,
because GitHub's timestamps have seconds. Left out: the trigger preferences
mention and off, drafts and skipped authors, index jobs, and checkpoints
written by older releases.

### Owners

`prefs` is `Preferences`: logins allowed and revoked, and pins of logins to
account IDs. `AllowedByName`, `OwnerAllowed`, `Implicit` are the code's
predicates. A round (`Round`, `Ask`, `Store`, `Collect`, `Evict`, `List`,
`ListEnd`) is `once_locked`; decisions and saved settings share its lock. A
webhook or a dashboard request is let in at one step and enqueues at a later
one, where it is asked again (`Enqueue`). `granted`, `promised` and `overlooked`
are histories. An account has one repository at most. Left out: removal jobs in
the queue, the names in `seen.json`, settings that change more than one approved
and one revoked owner at a time, `installation_repositories` events.

### ExternalPulls

`PollBegin` ... `PollClose` and `Prune` are the stretches of `poll_one`, with
the copy of the entry that a poll keeps across its reads; `Submit*` is
`submit`, `Untrack` and `UntrackClose` the two halves of `untrack`. A ticket is
a reservation of the hourly cap. `excused` records the reviews that somebody
called off. Left out: discovery, the ignore list, ETags as such (they are
recorded with the head), the limit of 100 remembered entries, writes of the
store that fail, who may track what. Every tracked entry is due in each round.

### FixController, FixLifecycle, FixPatch

`FixLifecycle` is what `docs/server.md` promises of a fix, with neither workers
nor GitHub. `FixController` has every state of a record and every operation that
changes one: `Request`, `Confirm`, `Regenerate`, `Stop`, `Invalidate`, the
dispatcher (`Wake`, `Dispatch`), the stretches of a worker (`Begin` ...
`Leave`), of a delivery (`Approve`, `CreateCommit`, `Recheck`, `WriteBranch`,
`Published`) and of the follow-up review, settings, roles, shutdown and
`Restart` (`Store::load`). A record is persisted before memory changes, so one
state stands for both; writes do not fail. Left out: rate limits, the summary
line at GitHub, the claims of comments and check actions; a worker's last step
after a cancel within the same poll.

`FixPatch` has the head that is exported, the tools that edit the workspace, the
comparison with the head, the policy, and the commit; `PatchChecked` of the
controller takes its outcome from there. Left out: sizes, malformed paths, the
text of the unified diff, warnings.

### AgentLoop, ModelRoutes, Protocols

`Protocols` says which optional fields a request of each wire format carries
after what it gave up, and what each answer means. A 400 refuses one field that
was sent. `ModelRoutes` has the ledger (`Reserve`, `Record`), the attempts of a
request with their retries, and the routes with the position its clients share.
A caller may drop its request at any await; its reservation stays, as in the
code. `AgentLoop` is `run_agent_checked`: deadlines, notice, repair, nudge, tool
batches. Time is counted in ticks that pass only while the agent waits. Left
out: the transcript, the early warning at a fifth of the tool budget,
adjustments learned across requests, fallback reports, and an adapter whose
build fails (none does).

### ReviewCommand, ReviewRun

`ReviewCommand` is pure: which configuration a call uses (`Loaded`), every gate
in order (`Skipped`, `Admitted`, `Ready`), the exit code and the conclusion of
the check (`Exit`, `CheckSays`), and the calls the server makes (`ReviewCall`,
`ExternalCall`). Left out: budgets, profiles, notes, and the reuse of an earlier
outcome, which is in `Publish`. `ReviewRun` conducts one run: gates, index,
rechecks, the three strategies, validators under the semaphore, deduplication,
report, publication, exit. A delegated worker may also end with `gaps`: it
answered, and named what it could not check or had candidates dropped as
malformed, which is no reason for a partial review, as in the code. Errors come at preparation, at the first
client, and when publishing and writing.

### ReviewFindings, UnifiedDiff

`ReviewFindings` has a step per stage: `Recheck`, `Investigate` (collapse and
threshold), `Validate` (canonical findings), `Dedup`, `Anchor`. All findings are
in one file; an identity is the hash of file and defect key; titles count as
similar whenever lines overlap; verdicts may move severities. The lines that a
verdict may give a new candidate (`validate.rs` 256-261) are left out: a candidate
is at any lines there are already when it comes, and no property follows it from
the candidate's lines to the verdict's. `Retain` is the `retain` of
a list, by positions; `Canonical` says of the loop of `canonicalize_findings` what
its result is. Names begin with `findings` where its proofs share a module with
`AgentLoop`'s. `UnifiedDiff` prints a change line by line, as git does, and reads
it back with the parser's prefix tests in their order: files that are changed,
renamed, added or deleted, with or without hunks, notes on missing newlines, and
text of a line that looks like a header. `Paths` are the paths there may be;
`PathsAssumption` says that `/dev/null` is none of them. Numbers of lines are
unbounded (the code's are `u32`), and the status of a file is left out.
`HeadLinesAreReal` leaves out what `parse_unified` and `DiffSet::file` read wrong:
a file with an added line that begins with `++ ` (`Misread`), and a path that an
earlier file of the diff has, or seems to have from a line's text (`Shadowed`).

### Publish

A run of `revera review` keeps nothing on the machine that the next one uses:
what lasts is the pull request. `inline` counts our comments of each finding,
`summaries` are the states in our summary comments, `run` is the run in
progress. `PostUnanswered` and `CreateUnanswered` are POSTs whose answer is
lost, whether GitHub took them or not, and `Stop` is a process that ends at any
point. Left out: findings below `inline_min_severity` (which are never posted
inline, and which `blocks_reuse` does not count, so that a state with such findings
is reused all the same), pruning to 200 findings,
the block with a fix's status, and a POST that GitHub carries out after its run
has ended.

## Runs

Every run ends within four minutes with two workers. Configurations other than
`external` say `CHECK_DEADLOCK FALSE`: the system rests when nothing is asked of
it, or the bounds end every behaviour.

| Run | Instance | Shows |
|---|---|---|
| `queue_disk` | an installed repository and two external ones, two permits, external limit 1; retargeting, writes that fail, answers that are lost, shutdown; no recovery | `LaneExclusive`, `CancelledIsTold`, `ExternalWithinLimit`, `CancellationIsFinal` |
| `queue_recovery` | fair; one pull request that may be retargeted, two results; recovery, lost answers, missing configuration, revocation, a crash | `NoZombieSummary`, `CancelledLeavesNoCheckpoint`, `LiveChecksStayOpen`, `EveryJobSettles`, `ChecksAreRecovered` |
| `sync_ordered` | webhooks in order, two heads and bases, a lookup, an outage | `NewestIsHeld`, `ClosedStaysClosed` |
| `sync_converges` | fair; lost, reordered, overlapping webhooks, an outage or a crash, a cancellation, late setup | `ListingKeepsWebhookData`, `BackgroundIsNewest`, `FinishedIsNotRepeated`, `EventuallyCaughtUp` |
| `access` | two accounts, three logins, any two decisions or rounds and any two events | `AllowedMeansApproved`, `RevokedHasNoWork` |
| `agent` | fair to the agent and the clock; three routes, one without a key, a second caller, two time budgets | `RequestsInBudget`, `EndsInTime`, `AgentEnds` |
| `external` | fair; two pull requests of one repository, one review an hour, any two events | `ReservationsMatch`, `UntrackedStaysQuiet`, `TrackedHeadsAreReviewed` |
| `findings` | three findings in every earlier state, two candidates, four severities, one inline place; diffs with up to two hunks or files | `HeadLinesAreReal`, `NothingVanishes`, `MostSevereInline`, `FinishImplementsReview` |
| `fix` | one fix, two attempts, every origin, delivery and policy, two changes of the world, a restart | `ConsentBeforeWork`, `PrivateStaysPrivate`, `KeepsThePromise` (refinement of `FixLifecycle`) |
| `fix_live` | fair; two fixes and one place to run | `NobodyIsStranded`, `EveryFixSettles` |
| `pipeline` | fair; every call and setting of `MCReviewRun`, two lanes, two findings | `CompleteMeansChecked`, `CandidatesSurvive`, `ReportInTime`, `RunFinishes` |
| `publish` | two findings, two targets, one inline place, lost answers, any number of runs | `InlineOnce`, `OneSummary`, `PlannedIsInline`, `CommentedIsRemembered` |

**Bounds.** *Queue*: two jobs give a running job and one that waits behind it or
supersedes it; two permits and three repositories let two workers meet and reach
an external limit of one; one restart compares what was written with what is
read, and a second would read the same files. Jobs are asked for with one base and
retargeted to a second, which cancels as a new head does. `queue_disk` has no
recovery (`Reconciles`): its properties are about queue and summaries, which a pass
does not write. *Sync*: three versions are a
change before, during and after a listing, and a base changed twice; one fault
is one webhook lost, one request failed or one crash. *Access*: one account with
a repository and one that takes its login; two operations are a decision and the
round or eviction that meets it. *Agent*: four requests among two callers use up
the ledger; budgets below and above the least time kept for the wrap-up turn.
*External*: one ticket is one review an hour, which both operations want; two
events let a push, an untrack, a fault or a crash meet another. *Findings*: a
new finding may be merged into another new one, which may be merged into a
tracked one. *Fix*: a second attempt, a second claim and a restart in any state
need one fix; `fix_live` has two, because one waits for the other's place.
*Pipeline*: two lanes are one that fails and one that does not, two findings one
tracked and one new; four ticks hold a reserve, a stage and its grace; the MC
module varies one setting at a time. *Publish*: comments stay finite because the
properties hold. Findings, targets and accounts are interchangeable where
symmetry is declared, and only safety is checked there.

**Fairness.** Weak fairness of what the runtime polls once it can run: the
dispatcher, a worker's normal steps (a run has a limit of 55 minutes), the
reconciliation and the poll (periodic), handlers, timers. The write of
`recover_checks` alone (`RecoverWrite`) is strongly fair: the pass is repeated and GitHub is not
unreachable every time. Expiry of an hourly reservation and of a rate limit is
the clock. In `agent` providers and tools are not fair: `AgentEnds` holds if
nothing is ever answered. In `pipeline` an agent ends at the latest with its
timer, which `agent` shows. Requests, users, settings and faults are never fair.
`EveryFixSettles` supposes that regenerations stop, since an administrator who
regenerates an older fix again and again keeps a younger one waiting. `fix_live`
leaves out `disconnect`: a browser that closes the connection of an approval
drops its handler at an await, and the fix stays `publishing` until the next
restart; `fix` has it, for safety.

**What the properties except.** `ClosedStaysClosed` and `NewestIsHeld` are about
webhooks handled in the order of their changes. `CancelledLeavesNoCheckpoint`
does not hold over a crash between two files. `RevokedHasNoWork` excepts what an
eviction overlooks until the next round (below). `HeadLinesAreReal` and
`NothingVanishes` except the cases named below. `TrackedHeadsAreReviewed`
excepts reviews that somebody called off. `CompleteMeansChecked` excepts what an
answered worker says it could not check (below).

## Where code and documentation part

Met while modelling; the properties above are stated so that they hold of the
code as it is.

* An index request replaces a waiting removal of the same repository
  (`server/queue.rs` 184), so its workspace stays; docs/server.md 817 says that
  removing a repository deletes it.
* A cancel while the check run is being created ends the job without the check's
  number (`server/runner.rs` 935): the check stays open, where docs/server.md
  612 says that cancelled work gets a cancelled check. Recovery, after a
  restart, concludes every unfinished check as cancelled.
* A lookup that read an older head replaces a newer one that waits
  (`server/mod.rs` 171; also a submission, `server/external.rs` 363), against
  docs/server.md 597. A poll that was under way when its entry was untracked and
  tracked again records its head over the fresh entry (`external.rs` 789).
* A finding that was posted inline, resolved and found again is not posted
  again, because its old comment has the same identity (`github/publish.rs`
  190); docs/how-it-works.md 252 says that it is.
* An added line that begins with `++ ` is read as a file header (`diff.rs` 541),
  and `DiffSet::file` finds an earlier file by the path it had before it was
  renamed (`diff.rs` 48).
* An accepted finding that is merged into a posted one which this run found to be
  below the threshold is shown nowhere (`pipeline/common.rs` 855-905).
* A delegated worker's `gaps`, "what you could not check" (`prompts/worker.md`
  13), only become coverage gaps (`pipeline/delegated.rs` 351-354); its malformed
  candidates (268) and the lead's malformed questions (140-148) are dropped
  without a word. Neither is a reason for a partial review, so it is `complete`,
  exits with 0 and its check may be green. docs/how-it-works.md 136 says `partial`
  for "something was not checked" and "malformed model output". `CompleteMeansChecked`
  excepts such workers by name, and no others.
* docs/configuration.md 248 and 256 call the budgets hard limits; a stage may
  outlive `run_max_seconds` by the grace period of its last request, three times
  at most (`ReportInTime`).
* An eviction judges a repository by one name, so a job that waits behind a run
  of an older name survives a revocation until the next round
  (`server/reconcile.rs` 442-479), against docs/server.md 133.

## Proofs

All proofs are checked from nothing, for all values of the constants under the
named assumptions of each module. Each names an inductive invariant, shows
`Init => Inv` and `Inv /\ [Next]_vars => Inv'` with one step per action, and
derives its theorems.

* `ReviewQueueProofs` - `TypeCorrect`, `LanesAreExclusive`, `ExternalLimitHolds`,
  `CancelledJobsAreTold`, `CancelledStaysCancelled`. That the lane check of `take`
  suffices needs `QueueInv`: unused job numbers are unused, a pending job has no
  worker, a running job has one and sits at its own key, a worker that may touch
  a checkout is in `running`, running keys never share a lane. `take` counts keys,
  which are at least as many as the external workers. `SummaryInv` relates cancel
  watches and summaries under any failure. Supposing that the disk does not fail:
  `CancelsMatchSummaries`, `NoZombies`; and without a crash
  `CancelledCommitsNothing`. TLC shows each violated with those faults.
  `WorkingChecksStayOpen`, under any failure: a job that works is active, and the
  second look of `RecoverWrite`, not the first of `RecoverBegin`, is what spares it.
* `PullSyncProofs` - whatever is lost, late, doubled up or fails:
  `KeepsWebhookData`, `BackgroundAddsNewest`, `NothingIsRepeated`. The invariant
  says that everything the server keeps of a pull request (webhook, cache, change,
  page, lookup) is coherent (`SnapInv`: one version is one content, and times do
  not go back, so merging by time never undoes a version), how the cache and a page
  read behind it are related (`CacheInv`), and that a page of a pull request that
  was not observed is as new as any handler's work (`ListInv`). While webhooks
  are handled one at a time and in order (`InOrder`; some may be lost, requests and
  runs may fail, the server may crash): `CloseIsFinal` and `NewestStaysHeld`, from
  `OrderInv` (a handler works on the oldest webhook there is, and all others are
  newer than it and than the last close) and `ClosedInv` (so is whatever a lookup
  with a token or an unobserved page has). TLC shows both violated out of order.
  That a head is never empty is `HeadsAssumption`.
* `OwnersProofs` - `OnlyTheApproved` from `OwnersInv`: what a login is pinned to
  was decided by an administrator, and a name that is allowed and pinned to nobody
  is a promise; `RevocationEndsWork` from `WorkInv`: an eviction has collected
  what works under a revoked name, but for what it overlooked.
* `AgentFindingsProofs` - of agents and routes: `LedgerInOrder`,
  `RunStaysInBudget` (every attempt in flight has its reservation),
  `AgentStaysInTime` (the grace period is for one request),
  `EveryAdjustmentGivesUpMore` (a request is sent again only with less). Of
  findings: `ListIsSound`, `NothingIsLost`, `WorstIsInline`,
  `StagesImplementReview`, and `RunIsOneReview`, the refinement of `Publish`: the
  last step of a run is a `Review`, every other one a stutter. The invariant has
  the recheck of the state (`BookInv`), each identity once in the list after the
  verdicts, with what was accepted again in it or below the threshold (`ListInv`),
  and where merged findings went (`MergedInv`). Lists are taken apart by rank: the
  number of members of a set before one of them is its place among them
  (`Leading`, `NthOf`), which gives what `Retain` keeps and that the `Inline` places
  are the first `MaxFindings` of a strict total order. Induction over a list is
  over the set of lengths for which the claim holds (`AllNumbers`, from the least
  member of a well-founded set). That candidates have numbers for lines, and that
  severities are numbers, are `SpansAssumption` and `SeveritiesAssumption`. Of diffs:
  `HeadLinesAreRead`, for any number of files, hunks and lines. A text is read to
  its end by reading its beginning first (`ReadBoth`), so what each line keeps, the
  hunk keeps (`BodyIsRead`), and likewise the file (`HunksAreRead`) and the diff
  (`TextIsRead`); the invariant of a hunk is that the next number is the first one
  plus the count of lines of the new side so far (`NumbersGrow`). `ReadAll` is a
  recursive function, not a RECURSIVE operator, and `ReadIs` says which one.
* `FixControllerProofs` - `WorkIsConsented`, `PreviewsStayPrivate`, and
  `ControllerKeepsThePromise`, the refinement of `FixLifecycle`. The invariant is
  a conjunction of facts about one fix (`Facts`): a worker in `generate` holds
  its record, a claim holds it in `publishing`, what is written is proven and
  approved; a step of one fix leaves the others' facts alone. With `AttendedInv`
  (who is told has been dropped) and no browser that leaves, `BusyFixesAreAttended`
  shows `NobodyIsStranded`. Of the patches,
  `AllowedPatchIsCommitted` (an allowed patch makes a commit that is the workspace
  as it was compared) and `ForbiddenStaysAsItWas`; these have no run, and the
  ASSUMEs of `MCFixController` evaluate the same facts on an instance.
* `ExternalPullsProofs` - `CapHolds`, `UntrackEndsReviews`, `ReviewsKeepCheckouts`.
  `ReviewsKeepCheckouts` has no run, since a prune decides in one step.
  A reservation belongs to one queued job or to one operation under way; a poll
  that may still queue works for an entry that is tracked, or for a key that is
  about to be closed.
* `ReviewRunProofs` - `HeadDecidesNothing`, `PostsAreVouchedFor`,
  `ServerAndReviewAgree`, `CheckIsHonest` about the command. `CompleteIsChecked`
  from `IInv`: per phase, which lanes, rechecks and validators are over, and that
  whatever is not over in full left a reason in `partial`, except a worker that
  answered with gaps. `NothingSubmittedIsLost`
  from `SubmittedInv`: what lanes submitted is handed on. `RunEndsInTime` from
  `TimeInv`: no timer that runs is past what its stage allows, and only the plan
  and what follows it may begin a grace period late.
* `PublishProofs` - `PublishTypes`, `CommentsAreUnique`, `SummaryIsUnique`,
  `PlansArePosted`, `CommentsAreRemembered` from `PublishInv`: what is about to
  be posted is not on the pull request, because what was listed there is marked
  as posted before the plan is sent.

Only model-checked: every property under fairness, which is out of the prover's
reach. All other properties of the runs have a theorem.

## Not modelled

* `web.rs`: fetching pages is I/O; its requests are counted per run, and nothing
  waits for them.
* `server/mentions.rs`, but for the lookup it starts: which comments count, the
  claim on disk before the network (at most once, by choice), its limit.
* HTTP routing, sign-in, assets and the handlers of `server/api.rs` that only
  answer from state of others; the dashboard's web application.
* The sandbox of fixes and its processes, the fix agent's dialogue, what tools
  read; prompts, reports' wording, transcripts, statistics.
* `fsutil.rs`, `git.rs`, `vera.rs`, `timing.rs`, `tls.rs`, `redact.rs`, the
  subcommands that only look, evaluation and scripts: no state that outlives a
  call.
* Two crashes in a row, disks that lose a write that was acknowledged, and
  clocks that run backwards: the code assumes none of them.
