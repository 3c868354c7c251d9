# Verification of the Tuezday control plane

Tuezday runs marketing work for many workspaces: signals are discovered, drafts
are generated and approved, and approved drafts are published, replied with or
advertised through external providers. This directory holds TLA+ models of the
parts of that program that decide *who may do what, when, and how often*: the
leases, the durable job queue, the schedules, the governed path from a proposed
publication to a post, the automation and the content pipelines that draft what is
proposed, the review of drafts, the email sequences, and the reading of discovery
sources. Each module is translated
from the TypeScript source; `PROJECT.json` names the lines of every definition.

1. [The system](#1-the-system)
2. [The modules](#2-the-modules)
3. [Task leases](#3-task-leases)
4. [The job queue](#4-the-job-queue)
5. [Schedules and ticks](#5-schedules-and-ticks)
6. [Governed publishing](#6-governed-publishing)
7. [Content pipelines](#7-content-pipelines)
8. [Automation and review](#8-automation-and-review)
9. [Outreach](#9-outreach)
10. [Discovery](#10-discovery)
11. [The runs](#11-the-runs)
12. [Fairness](#12-fairness)
13. [The proofs](#13-the-proofs)
14. [Disagreements between documents and code](#14-disagreements-between-documents-and-code)
15. [What is not modelled](#15-what-is-not-modelled)
16. [Plan](#16-plan)

## 1. The system

The worker (`apps/worker`) is a single settled loop that calls
`POST /internal/background-jobs/tick`. The API (`apps/api`) owns everything
else: one SQLite database, synchronous transactions, and services that await
only providers, models and webhooks. During a deployment, or by configuration,
several API processes may share the database.

| Component | State it keeps | Operations | Interacts with | Hard part |
|---|---|---|---|---|
| task leases (`task-leases.ts`) | `task_leases`: owner, version, expiry per key | claim, renew, release, `withTaskLease` | dispatcher, discovery scheduler, automation | late timers, stale releases, crashes |
| job queue (`background-jobs.ts`, `background-job-runner.ts`) | `background_jobs`, `background_workspace_dispatch`, executions in memory | enqueue, fair claim, renew, complete, retry with backoff, dead-letter, requeue | every background feature | zombie executions, reclaim, retry budget, fairness, caps |
| schedules (`background-schedules.ts`) | `background_schedules` | reconcile, admit | enqueues jobs, runs under the dispatcher lease | several dispatchers, stale scans, crash between admit and enqueue |
| external actions (`external-action-coordinator.ts`, `external-actions.ts`) | `external_actions`, decisions | propose, authorize, deny, cancel, repropose, run, dispatch | policy, adapters, routes, publish job | every await: overlapping runs, state checked before and used after |
| publications (`publications.ts`, publish adapter) | `publications` receipts | create, attempt, resume, retry, delete | providers, webhooks | duplicate posts, lost answers, asynchronous uploads |
| cadences (`cadences.ts`) | `posting_cadences` | fill slots, stop, delete | propose actions, delete receipts | races with a dispatch in flight |
| automation (`automation.ts`, `automation-settings.ts`) | settings of a workspace | run over matched signals, generate or queue a run, approve | task leases, drafts, pipeline runs | a call that lost its lease, settings read before the awaits, a path switched half way |
| drafts and approval (`drafts.ts`, `signal-drafting.ts`, `draft-editor.ts`) | `drafts`, `approval_decisions`, `draft_revision_turns` | submit, decide, edit, revise | gate of external actions, models | content changed after approval or during a revision |
| action policy (`external-action-policy.ts`) | rules per scope | resolve, upsert, delete | gate of external actions | change between proposal and dispatch |
| action batches (`external-action-batches.ts`) | none | preview, authorize many | coordinator | stale preview |
| pipeline engine (`pipeline-engine.ts`) | `pipeline_runs`, `pipeline_run_steps` | start, claim, execute, escalate, decide | drafts, agents, tick job | lease without renewal, finish without fence |
| outreach (`outreach-engine.ts`, `outreach-sequences.ts`, `external-action-email.ts`, `email-recipient-safety.ts`, `mailbox-inbox.ts`) | sequences, enrolments, messages, permissions, suppressions, inbox items | enroll, draft, review, send, handle replies, stop, pause, unsubscribe, permit, import | coordinator, Gmail, approval | overlapping ticks over stale rows, consent, caps |
| discovery (`discovery-scheduler.ts`, `discovery-jobs.ts`, `discovery.ts`, `paging.ts`, `tracked-social-accounts.ts`) | `discovery_jobs`, sources with their cursor, items | tick, enqueue due, claim, renew, fetch a page, checkpoint, fail, edit | task leases, providers | an execution half way, expired tokens, edits during a fetch |
| launches, social inbox, ads | launch messages, inbox items, ad launches | send, poll, launch | coordinator, providers | partial sends |
| content, stories, matching, brain, chat, evaluation | rows of content and scores | create, score, select | models | data rather than control |

What makes the modelled components correct:

- *leases*: at most one holder, and nobody but the holder ends a live lease;
- *queue*: one active job per key, one writer per job, a bounded number of
  retries, no workspace with more jobs in hand than its cap, fair batches, an
  immutable ledger, and no accepted job forgotten whose kind is known;
- *schedules*: each occurrence admitted exactly once, never early, never
  bunched, and none lost;
- *pipelines*: one execution of a run at a time while its lease lasts, somebody at
  every running run until a call is lost, no pass
  done twice, bounded loops over all resumes, one draft per run, and no draft
  from which a step is missing;
- *automation*: one draft per work item, whoever loses a lease, nothing approved by
  the system after a stop, and no review overwritten by an answer that came late;
- *outreach*: one active sequence per person, mails in the order of the sequence,
  none without its approvals or after an opt-out, and a cap exceeded by no more
  than the calls that overlap;
- *discovery*: no post of a target whose posts keep their places skipped, no cursor
  written from a stale copy, nothing stored for what a source no longer names, and
  everything found in the end;
- *publishing*: nothing is posted without its gate and with a guardrail up,
  outcomes are final, success means a post, one receipt per action, and what was
  let out concludes.

`PROJECT.json` lists, under "hazards", each place where these can go wrong and
the property that watches it, or why none does.

## 2. The modules

| Module | What it is |
|---|---|
| `TaskLease` | one lease row and the calls of `withTaskLease` competing for it |
| `TaskLeaseProofs` | theorems about it |
| `BackgroundJobs` | the queue's tables, its operations, and executions in several processes |
| `DurableQueue` | what the queue promises, without leases, clocks or retries |
| `BackgroundJobsProofs` | theorems about `BackgroundJobs` |
| `JobQueueLiveness` | the queue when trouble is finite |
| `JobDispatch` | ticks: `TaskLease` and `BackgroundJobs` composed with the schedules |
| `ExternalActions` | actions, receipts, coordinator, publish adapter, routes, event loop |
| `Automation` | the automation of one campaign on top of `TaskLease`, the drafts it makes on either path, and people's work on them |
| `PipelineRuns` | one run, its step rows and drafts, and the calls that execute it |
| `ExternalActionLiveness` | the same under the fairness of worker and event loop |
| `Outreach` | sequences, enrollments, messages and their actions, recipients, replies, and the calls that work on them |
| `DiscoveryJobs` | one source, its job row and cursor, the scheduler's lease, the ticks and the provider |
| `JobDispatchProofs`, `ExternalActionsProofs`, `PipelineRunsProofs`, `AutomationProofs`, `OutreachProofs`, `DiscoveryJobsProofs` | theorems about these modules |
| `MC*` | instances for model checking; the `.cfg` files give the constants |

A mutant of a definition stands directly before it ("Mutant of ..."). It is what
the definition would be with a plausible bug; no run uses it as it stands. For
every property of a passing run `PROJECT.json` names a mutant that breaks it.

## 3. Task leases

`lease` is the row (owner, version, expiry) or `NoLease`; `clock` is the database
clock every statement reads. For each call, `pc`, `token` and `aborted` are the
progress of `withTaskLease`, its `latestToken`, and its abort signal. Claim, renewal
and release are single SQL statements, so each is one action. Two calls may pass the
same owner string: the automation job passes the instance and the id of the job, which
two executions of that job in one process share (`background-job-handlers.ts:309`), so
only versions separate them. `Heartbeat` may fire at any time, also long after it was
due, `Finish` at any time, and `Crash` takes a call away without a release.

`OnlyTheHolderEndsALiveLease` is what unfenced releases would break.
`Fenced` and `LostIsFinal` are stated for the proofs (section 13): the first is
the inductive core of `AtMostOneHolder`, the second what a renewal of an expired
row would break. The module has no run of its own: `JobDispatch` instantiates it and
`Automation` extends it, and both properties are proved.

## 4. The job queue

`jobs` is the table; `activeKey` says whether the unique column is set.
`execs` are the executions under way in all processes, each with the version it
was granted: an execution whose lease expired stays in the set and goes on, as
its handler does. A claim is one action because it is one transaction: the
candidate scan, the live counts, the fairness passes, the updates and the
dispatch times. The passes of the code, one claim for each workspace at a time, are
expressed by the position of a job in its workspace's queue (`Pass`) and an order
on the admissible candidates (`TakenBefore`).

*Kinds.* A row keeps its kind when a build drops it, and in a deployment processes
of several builds share the table: `Knows[p]` are the kinds of the build of `p`. The
claim updates a row before `toClaim` looks at its kind. So `Grant` leases every row
of the batch, but only those of a kind the process knows become executions, count
against the cap and stamp the workspace as dispatched; past the others the pass goes
on to the next row of the same workspace. Such a row keeps a live lease that nobody
works under, and is leased again, by whatever process claims next, when it has run
out. Hence what is claimed: `WorkspaceCap` bounds the jobs in hand (`InHand`: leased
by a process that knows the kind), and leases of other rows come on top;
`FairBatches` speaks of what a process claims out of the jobs it knows; and
`EveryJobSettles` is promised of jobs of a kind that every process has. A kind that
is gone everywhere never settles (section 14).

`Settle` is the shape of all outcomes: written if the claim is still live, else
counted as lost. `Retry` includes the dead-lettering of a last attempt, and the time
a handler may name itself (`RetryDelays`); `RequeueDeadLetter` lets the operator
choose attempts and time.
`Abandon` is an execution that stops on its abort signal and writes nothing.
`BackoffDelays` is the interval the deterministic jitter falls into; the hash of
the id is not modelled. Enqueueing a key that is held changes nothing and is not
an action. Statistics and listings only read.

The queue is at-least-once: after an expiry two executions of a job may run side
by side, and the model contains that. What is guaranteed is the database:
`AtMostOneWriter`, and the refinement `ImplementsDurableQueue`, which maps the
tables to `DurableQueue`: accepted jobs stay until they settle once, by the
latest hand-out.

## 5. Schedules and ticks

`JobDispatch` extends `BackgroundJobs` and instantiates `TaskLease` for the key
`background-jobs:dispatcher`. A tick claims the lease, reconciles, scans, handles
each due row in a transaction of its own, claims a batch, and releases the lease
before executing. Within its process a tick does not yield until then
(`Yielding`), which is why its lease is not renewed; a process that stalls longer
than the lease shares the phase with another one, and everything it read
(`now`, `due`) is stale. Processes of a rolling deployment have different
intervals and different sets of known kinds.

`ImplementsTaskLease` checks that the ticks are a correct use of the lease
protocol. The jobs here may be claimed only by ticks; in `BackgroundJobs` any
process claims at any time, which covers more.

## 6. Governed publishing

`ExternalActions` follows publications of one draft to one destination, because
that is where actions meet. What revalidation would build now is one value
(`subject`, or `NoSubject` when it refuses), and the fingerprint of an action is
the subject and the policy it was proposed with. Guardrails are a set.
`receipts` keeps deleted rows as `"deleted"`, since an id is never used again
and a call in flight may still name it.

*The event loop.* Services run to completion between awaits. The only awaits
with anything outside behind them are the provider call and the webhooks of
`post.published`, so `loop` names the call that runs, and other calls get their
turn only when it is idle or in one of these two. Each step of a call makes at
most one write, and `Crash` may fall between any two. The module assumes a
single API process, as the code of the coordinator does; what two processes could
add is not examined.

*Calls.* `Propose`, `Repropose` and `Authorize` start a call at the gate or the
dispatch; `Run` (publish job or route) reads the runnable actions once and
dispatches them in turn (`todo`); `Retry` attempts a receipt without an action.
`Dispatch`, `Execute`, `Attempt`, the provider's answers (`Published`,
`Processing`, `Failure`), `Notified` and `Conclude` are the sections of
`dispatch` and `attemptPublicationDetailed` between writes and awaits. `Failure`
leaves open whether the provider made the post before its answer was lost, and
so does `Crash`; `posted` remembers for which actions a post exists.

*Others.* `Cancel`, `DeleteReceipt` and `StopCadence` are synchronous.
`StopCadence` is the clean-up of the cadence and its deletion, each modelled as
one step although it commits in several statements: nothing awaits in between.
`Change` is a change of content, destination, policy or guardrail. No code
deletes drafts, connections or actions, or writes the publication status
`cancelled`.

## 7. Content pipelines

`run` is the row of `pipeline_runs`, `rows` the step rows in the order of their
insertion, `drafts` what the run has handed to the approval gate. A call is an
execution: a turn of a tick, or the request that starts or resumes the run. Its
record is what `executePipelineRun` has in memory, mostly `EngineState`.

*Selection.* A tick reads its batch of queued runs and executes them one after
another, so between `Select` and `Claim` anything may happen to the run. Runs
share nothing else, hence one run is modelled. `Claim` is the update with the
lease in its condition and all that follows before the first await, the loading
of the state included (`Loaded`).

*Steps.* `Pass` is `runPass` up to the model call: the deadline, the cache, or a
new attempt row. `Succeed`, `NeedsHuman` and `Fail` are what the answer leads to,
with the retries, the token budget (one unit per attempt) and the escalation.
`Throw` is what `AgentRunner.run` does not make a result: it throws if the gateway
can do no agent steps (`runner.ts:98`), and rethrows whatever is no `GatewayError`
(`:211`). Neither `executePipelineRun` nor the tick catches it, so the attempt and
the run stay running in a process that lives on, and the tick drops the rest of its
batch (which is `Blocked` for the runs in it).
`Revise`, `Rescore`, `SkipLoop` and `LeaveLoop` are the revise loop. A draft is
named by the pass that wrote it, a critique is below the threshold or not. An
insert that meets the unique index ends the call without any further write.

*The end.* `Propose`, `RecordProposal` and `Finish` are the three writes of the
handoff; `Finish` writes by id, as the code does. Nothing is awaited between
them, but a process may die there, and the model lets another call come in too,
which another process could. `AutoApprove` follows a tick's own execution of an
automated live run.

*The lease.* It is as long as the deadline of a call, is never renewed, and the
deadline is only looked at before a pass; so a call that waits for its model can
outlive its lease, and another one takes over while it goes on. `late` records
that this has happened. `LeaseFencesExecutions`, `PassesAreDoneOnce`,
`RunningIsExecuting`, `OneDraftPerRun` and `ChecklistIsComplete` are claimed up
to then; `ProposedAfterEveryStep` holds always. `lost` counts the calls that died or
threw: `RunningIsExecuting` and `ChecklistIsComplete` say that without such a call no
running run is stranded and no part of the checklist is missing, whatever is paused,
resumed, selected and cancelled; once a call is lost, the run does stay running
(section 14). `OneDraftPerRun` counts one more
draft for each call that was lost, as long as the proposal has no step row: a
process that dies after that row leaves every later call to submit once more
before it meets the row, however many calls there are. `StepsAssumption` is what
the contracts validate of a definition: its steps have different keys, and a loop
takes its score from a step before it.

*Bounds.* Three calls in all, at most two at once: one executes, one is stale,
one more resumes. A call begins only while calls and elapsed time together are
below three, which keeps the instance small and leaves two calls before a lease
can expire and one after. A lease of 1 and a clock to 2 let it expire; a pass has
two attempts, as `STEP_MAX_ATTEMPTS` says; a token budget of 5 is exceeded by
runs with retries and not without; one revision, one call lost. The origins are an
automated live run and a dry run of a person.

## 8. Automation and review

A work item is a signal that matches the campaign, on one of its channels.
`Automation` extends `TaskLease`, whose calls are those of `runAutomationWithLease`.

*The run.* `Start` is the claim and the synchronous beginning of `runAutomation`:
settings, campaign and definition are read into `work[c].read` and never again.
`Consider` is the body of the loop up to its await: the item is skipped, queued for
the engine, or generated. `Commit` is `submitAutomaticDraft` after the model has
answered, `GenerationFails` its `catch`, `QueueShadow` the shadow run that follows.
The work does not look at its abort signal, so a call that lost the lease goes on
with all of these; `LeaseStep` and `End` are the lease meanwhile.

*The engine.* `runs` has the status of the run with an item's key; `PickUp` and
`EndRun` are a turn of the pipeline tick, where `PipelineRuns` has each step of it.
The draft and its approval are one step because nothing outside is awaited between
them; a process that dies there leaves the draft at the gate, which `EndRun` allows.
`DieProposing` is the death one step earlier, after which the draft is submitted and
the run does not say so. `TakeOver` is a live call that outlives its lease and the tick
that takes its run over (`"taken"`: two calls are at it); the first of them that is
through proposes or not (`EndRun`), and the other may propose as well. `ProposeAgain`
is that second proposal, after a death or next to a late call: `submitDraft` comes
before the insert of the unique step row (`pipeline-engine.ts:875`), so the row stops
neither.

*Review.* `Act` is a person's edit, resubmission, approval or rejection, from the
application, a link or the public API. `Ask` and `Revise` are `reviseDraft` before
and after its call of the model; a process that dies in between leaves the turn
running, and its draft untouched. `Change` is an edit of one of the settings, of the
campaign's mode, or of the definition.

`OneDraftPerItem` rests on three keys that do not know each other: the draft that
exists, the unique key of the legacy draft, and the unique key of the run.
`excuses` records the three events after which drafts of one item can meet: path or
definition have changed (`"switch"`), and even then each path makes one; or a call of
the engine died at its proposal (`"death"`) or outlived its lease (`"late"`), and then
both are the engine's. `StoppedMeansNoApprovals`
allows the legacy call that began before the stop (section 14), and nothing else.

*Bounds.* Two calls with one owner string (symmetric), one item, a lease of one tick
and a clock of one, so that the second call takes over while the first generates; one
event, which is a change of one setting, a death at a proposal or a takeover; one
revision; three writes of people per draft, enough for an edit, a resubmission (which
restores the state a revision started from) and an edit. The campaign begins automatic
with a definition, on each path and with the switch up or down, so the one change can
be the stop, its end, the way to manual, or the switch of the path.

## 9. Outreach

`Outreach` follows sequences over one audience. `enrollments`, `messages` and
`actions` are the rows of `outreach_enrollments`, `outreach_messages` and of the
external actions that send them, named by sequence, person and step, as the
unique indexes do. `permissions` and `suppressions` are what decides about a
recipient; the reasons of a suppression are reduced to the one the founder's
permission lifts (`"founder"`) and those it does not (`"lasting"`). `optedOut` is a
history of who unsubscribed, by link or by a reply that was handled.

*Calls.* `Begin` is the first section of `runOutreach`, up to its first await,
and lists the sequences; `OpenSequence` enrolls, synchronously, and lists the
enrollments whose rows (`rows`) the call then works from, however old they are by
their turn. `Advance` and `HandleReply` are `advanceEnrollment` up to an await:
the draft of the next mail (`Draft`), or the call to Gmail (`Accept`,
`AcceptAndDie`, `FailSend`). `Authorize` and `Resume` are the request that
authorizes an action and the job that resumes one. The coordinator's steps between
two awaits, which `ExternalActions` has one by one, are one step here; a crash
falls at each await and between the writes after it.

*Others.* `Review`, `Deny`, `Stop`, `SetStatus`, `Unsubscribe`, `Import` and
`UpdatePermission` are requests without an await. `Ingest` and `Classify` are the
poll of the mailbox, which labels a reply some time after it has stored it, or
never.

*Bounds.* Two sequences over one person, an automatic one of two mails and one of a
single mail that is reviewed and gated; a daily cap of 2; two calls; one reply; three
events, where an event is anything that is not a turn of the only call under way: a
second call, a failure, a crash, a reply, a request of a person, the clock. Three are
what the deepest hazards need (an opt-out, a change of mind and a call that overlaps).

## 10. Discovery

`DiscoveryJobs` follows one connected source with its targets. `job` is the newest
row of `discovery_jobs` for it, `cursor` its `cursorJson`: a checkpoint per target
with the watermark (`high`), and while a scan is half way its token, the boundary
to read down to and the newest post of its first page. `prints` are the
fingerprints of what the targets name now, `missing` the targets whose tracked account
is disabled or deleted, `found` the items with the fingerprint they were read under.
The provider has `posts`, numbered from the oldest, and `deleted` ones.

*Two orders.* The number of a post is its place by publication, and `newestItem`
compares publication (`Newest`). The list of the provider has the same order, except
on LinkedIn, which is asked for `LAST_MODIFIED`: `stamps` says when a post was last
modified, `Ahead` which of two stands first, and an edited post moves to the front
(`Edit`; `edits` counts how often that happened). `Page` takes the first posts of the
list from the token on and cuts them where the boundary stands among them, by place,
as `stopAtBoundary` does; the next watermark is chosen by publication. So an edit of
the post at the watermark hides newer ones behind it, and they are lost when a later
post becomes the watermark (section 14). A target is `Steady` unless it is of this
kind and one of its posts was edited or deleted; `NothingMissed` and
`EveryPostIsFound` speak of steady targets.

*The tick.* `Begin` claims the lease `discovery:scheduler` and lists the sources
that are due; `Enqueue` inserts a job from that list, which may be stale by then;
`Claim` takes a queued or an expired row; `Open` reads the source again, compares
the version the job was queued for, and reconciles the cursor with the targets. If an
account of any target is missing, it fails there, before it reads anything of the
others (`requireTrackedAccounts`); tests assert that. Besides pages a job has budgets of
calls, bytes, items and time; `Open` lets them cost it any number of pages but the first.
From then on the tick keeps a copy of the cursor (`own`).

*Pages.* A call to the provider is an await. `Arrive` is its answer and the
transaction of `persistDiscoveryPage` (`Stored`) with its fences (`Admitted`): the
live claim, the version, the accounts, the fingerprint of the target. `Page` is what
the provider returns from a token on and what the adapter makes of it; `Offset` are
the targets whose token is a position (LinkedIn), the others name a post.
`Checkpointed` is `checkpointPage`, `Advanced` the execution after it. `Reject`,
`Refuse` and `Break` are a token the provider no longer knows, a target it refuses,
and any other failure; `Looping` is the top of the loop with the signals, the budget
and the choice of the next target. `Settle` writes the source's failure, fenced by the
version alone, and ends the job, fenced by the claim.

*Around it.* Leases are a holder and a flag, since only their order matters:
`Stall` lets those of a living process lapse, `Expire` those of a dead one, and
`Notice` raises the abort signal at the next renewal. `Update` and `EditAccount` are
the edits of the source and of a tracked account; `updatedAt` is part of an
account's fingerprint, so an edit of its notes changes it as well. `SwitchAccount`
disables, deletes or enables an account, which makes a new version of the sources that
name it and withdraws their job.

*Bounds.* Two ticks, two targets, one of each kind of token and order, with two posts
and one post to begin with, pages of one post, two pages in a job of which other budgets
may take one: so jobs of a single page occur, fewer than there are targets, as well as
jobs that end half way through a target. At most three posts per target and two events
(faults, edits, posts, deletions). Two events are an account that is disabled and enabled
again, an edit of the source under a stalled tick, or a crash and a new post.

## 11. The runs

All runs are exhaustive. `CHECK_DEADLOCK FALSE` is set because every instance
stops when its bounds (clock, ids, crashes, events) are used up.

| Run | Instance | What it shows |
|---|---|---|
| `queue_safety` | 2 processes, 2 jobs of 2 kinds of which one process lacks one, 2 keys (symmetric), 2 attempts, lease 2, clock to 4 | expiry, reclaim, retry, burial and requeue all occur, and leases of rows without a claim between them; safety and refinement |
| `queue_fairness` | full table of 4 jobs over 3 workspaces, of a known and a retired kind, batch 2, cap 2 | all distributions of jobs and kinds; a second pass and a third workspace are what fairness needs |
| `queue_liveness` | 2 jobs of a known or a retired kind, 1 process, a workspace with room for 1, budget of 1 trouble, nobody enqueues after 4, clock to 16 | every accepted job of a known kind settles, also behind a row of the retired kind that takes the room again and again; the clock bound is above what the requests, the budget, the attempts and the backoff can use, so it stops no such job |
| `job_dispatch` | 2 ticks in 2 processes, intervals 2 and 3, a known and a retired kind, clock to 3 | overlapping dispatchers and stale scans; two occurrences of a schedule fit |
| `publish_runs` | 2 callers (symmetric), 2 actions of a cadence, 2 receipts, 2 changes of the kill switch or the content, or one and a crash | overlapping dispatches of two actions of one draft, the gate when the content changes under them; the second change lets the switch go down, or the content come back |
| `publish_liveness` | 2 callers, 1 action, 2 receipts, 1 crash, 1 retry, 1 change | everything let out concludes, with at most one receipt per action |
| `pipeline_runs` | draft, critique, revise (1 iteration), 3 calls of which 2 overlap, see section 7 | stale selections, escalations, resumes, retries, an expired lease, a cancel, and a crash or an exception |
| `automation` | 2 calls, 1 owner string, 1 item, 1 event, 1 revision, see section 8 | a lost lease during a generation, a late call of the engine, both paths and the switch between them, the stop, reviews during a revision |
| `outreach` | 2 sequences, 1 person, 2 calls, 3 events, see section 9 | overlapping ticks over stale rows, replies, opt-outs, blocks, resumed sends, crashes |
| `discovery` | 2 ticks, 2 targets, 2 events, see section 10 | scans over several jobs, jobs of one page for two targets, takeovers of ticks and jobs, edits and missing accounts during a fetch, posts that move in the list, and that a source with its accounts is caught up in the end |
| `publish_overlap`, `pipeline_cancelled` | see section 14 | a promise of a document is refuted |

Two jobs, actions or calls are enough for the pairwise properties, which talk of
two of them; the theorems of section 13 hold for any number.

## 12. Fairness

`JobQueueLiveness` assumes that an execution under way settles (handlers are
bounded by time-outs), that some process answers ticks (the worker's loop always
calls again), and that time passes. Crashes, shutdowns, stalls longer than a
lease and extra renewals draw on a finite budget: with infinitely many crashes
nothing could be promised. The policy keeps twice the heartbeat interval below
the lease, so a lease ends under a living, unstalled execution only as one of
these troubles. Nothing is assumed of requests but that they end (`LastRequest`), since
the clock of the instance does.

`ExternalActionLiveness` assumes that the call which has the event loop runs
(weak), that the loop serves each settled await and each run of the worker in
turn (strong, since other calls hold the loop in between), and that time passes.
The provider answers in the end and does not take an upload back to processing
once the post is out. People retry a bounded number of times, because two people
retrying for ever can keep two calls overwriting each other. Changes and crashes
are bounded by the instance. An action that is dispatching may stay so while
something visible holds it (`Held`: it has diverged, a guardrail is up, or its
cadence is gone); `docs/deferred-improvements.md` (33) records that gap.

`DiscoveryJobs` assumes that the worker keeps asking for ticks (some tick that can
begin does), that a tick which has begun goes on and its calls to the provider are
answered, with a page or an error, and that time lets the leases of dead processes
and the backoff of a source run out. Renewals, crashes, stalls, edits and the
provider's refusals are free to happen or not, the last ones within the bound on
events. No tick is promised to begin in particular, and no page to be admitted.
`EveryPostIsFound` is promised of a source that stays on and has all its accounts
(`Readable`). `PipelineRuns` and `Outreach` state safety only: a run whose call was
lost, or an enrollment whose process died at the wrong place, stays where it is
(section 14).

## 13. The proofs

Checked by TLAPS, for any sets of calls, owners, jobs, workspaces, keys,
processes, actions, receipts, targets, sequences and people, any definition of a
pipeline, and any lease, cap, batch, interval and backoff within the assumptions
that the modules name. `MaxClock` is an arbitrary natural, as are the other bounds
of the instances. Every safety property and refinement that a passing run checks is
proved; what is left to TLC is liveness.

The inductive invariants are conjunctions of named parts; most modules have one,
`TaskLeaseProofs`, `BackgroundJobsProofs` and `PipelineRunsProofs` build theirs in
layers, each using the one below. A lemma per action (for calls, per kind of step)
shows that the parts it can disturb are preserved, and one of the frame shows the
rest. Action properties follow from the
invariant in the state before the step.

`TaskLeaseProofs`

- `Typing`: `TypeOK` is inductive.
- `Fencing`: `Fenced` is inductive together with `TypeOK`. It says that tokens
  are unique and never ahead of the row, and that the call whose token the row
  carries is the one whose owner it names; the last part is what makes the owner
  comparison harmless when owners collide.
- `MutualExclusion`: two holders would both carry the row's version, so they
  are one call.
- `LossIsFinal`: needs one more invariant, that a call whose signal is raised
  no longer matches a live row.
- `HolderKeepsTheLease`: `OnlyTheHolderEndsALiveLease`, from the invariant `Bounded`
  that no lease runs longer than one renewed now would; another call that settles
  does not match the row, by `Fenced`, and a claim needs a lease that has ended.

`BackgroundJobsProofs`

- `Typing`: one lemma per operation. The claim is treated as `Grant(p, B)` for an
  arbitrary set `B` of due jobs, so neither cardinalities nor the order of the
  scan enter the proofs, up to the last two.
- `KeyUniqueness`: `OneActiveJobPerKey` is inductive with `TypeOK`; its first
  conjunct (the column is set exactly in active rows) is the strengthening.
- `Fencing` and `SingleWriter`: a grant always makes a version that no execution
  has, hence versions name executions, hence at most one execution matches.
- `LedgerIsFinal`: every write goes through a live claim, a grant of due rows or
  an insert of a new id, and none of them touches a terminal row.
- `BudgetIsKept`: `RetryBudget` needs `BudgetInv`: a running row is at an attempt
  that has not failed yet, and the execution that has the version of the row is at
  the attempt of the row. Without the second part a late execution could record
  the failure of an attempt that has already failed.
- `PromiseIsKept`: the refinement, step by step. An insert is `Accept`, a grant is
  `HandOut`, and an outcome that is written is `Settle`, because the live claim
  carries the latest hand-out; outcomes that are lost, renewals, retries, stalls
  and the clock are stutters or drop a hand-out. It uses `OneActiveJobPerKey`
  (a free unique column is a key nobody holds) and `Fenced`.
- `TheCapHolds`: `WorkspaceCap`, for processes of whichever builds, is inductive with
  `TypeOK`. It counts the jobs in hand; leases of rows that made no claim are not
  bounded by it. The passes number the claims of a workspace (`PassesAre`), a batch
  claims those whose number fits under the cap (`BatchFits`), and no other step makes
  a lease live.
- `BatchesAreFair`: what one process claims of the jobs it knows, under `[]ScanFits`,
  that the scan reaches all that is due; beyond it the property fails (section 14). A
  workspace that waits has a job of the first pass (`WaitingHasAFirst`), and what is
  taken before a job of the batch is in the batch (`BatchIsClosed`), so whatever the
  batch took instead is of the first pass as well and of a workspace dispatched no
  later.

`JobDispatchProofs` extends the proofs of the queue, whose operations are steps of
the dispatcher too.

- `DispatchInvariance`: `DispatchInv` says of each admitted occurrence that it lies
  behind its schedule's next one by an interval in use (`OccurrencesAreBehind`),
  that what a tick has read was due when it read it, and that a process works in
  one dispatch phase at a time.
- `OneJobEach`, `OccurrencesAreSpaced`: conjuncts of it. A stale scan cannot admit
  again, since the admission compares the row with what was read, and the row has
  moved by at least an interval.
- `NothingIsSkipped`: the one step that moves a schedule past an occurrence is
  the admission, and the transaction inserts the job; a key that is held already
  is the key of that very occurrence.
- `DispatchUsesTheLease`: every step maps to a step of `TaskLease` or a stutter.

`ExternalActionsProofs`

- `ExternalInvariance`: `ExternalInv` relates the rows to the history (what is out
  was let out, what succeeded was posted, at most one receipt that is not deleted
  per action) and the calls to the rows. Its core is `OneRuns` with `IsCurrent`:
  only the call that has the event loop is between a check and its use, so what
  it has made sure of (`Cleared`) still holds when it uses it.
- `SuccessesArePosted`, `OneReceiptAtATime`: conjuncts of it.
- `TheGateHolds`, `GuardrailsHold`: a call to the provider begins in the step
  `Attempt` of a call, and the invariant says what is true there.
- `OutcomesStay`: each move of a status is one the transition table allows, and
  none leaves a success or a cancellation.

`PipelineRunsProofs` has two layers.

- `PipelineInvariance`, `TheGateIsEarned`: `PipelineInv` holds whatever the leases
  do. What a call remembers comes from rows that succeeded (`Backed`), and rows
  that succeeded stay; so the steps a call has passed are done, even if another
  call did them.
- `FencedInvariance`: `FencedInv` holds until a call outlives its lease. An
  executing call is within its deadline, which is the expiry of the row
  (`LeaseCovers`), so there is one; hence its memory is complete (`Complete`), what
  it asks for is new (`AsksAnew`), and the passes of a step succeed in order
  (`PassesInOrder`). `LeavesLoops` and `TriedLoopsStayNeeded` say that a loop is
  left for good, which is what keeps a resume from marking as skipped a loop that
  an earlier call has tried. `DraftsAreCounted`, `ChecklistIsCurrent`,
  `ProposalIsLast` and `SomebodyIsAtIt` account for calls that are lost.
- `LeasesFence`, `NoPassIsRepeated`, `NobodyStrandsARun`,
  `OneDraftReachesTheGate`, `TheChecklistIsComplete` follow from it.
  `NobodyStrandsARun` is about runs no call of which died, threw or outlived its
  lease: a resume is not stranded on the attempts of the pass it resumes.

`AutomationProofs` extends those of the lease.

- `AutomationInvariance`: `AutomationInv` says where each draft and run of an item
  came from, as long as path and definition have not been switched
  (`DraftsHaveOrigin`, `RunsHaveOrigin`), that calls under way have read what is
  still so, and that a revision under way was asked for a draft in the state it
  remembers unless the draft has been written since (`TurnsAreBased`).
- `ItemsAreDraftedOnce`: two drafts of one item have one origin or two
  (`OriginsAreUsedOnce`), and one origin makes two only if it is a run of the engine
  a call of which died at its proposal or was taken over late.
- `StopsHold`: an approval by the system is made by a legacy call that has items
  left, which had read that it may (`WorkIsAllowed`), or by a tick that has just
  looked.
- `ReviewsAreKept`: the number of writes of a draft stands for its text and state.
- `AutomationMutualExclusion`, `AutomationHolderKeepsTheLease`: the steps of the
  automation are steps of `TaskLease` or stutters.

`OutreachProofs`

- `OutreachInvariance`: `OutreachInv` lets a call work from rows that are as old as
  may be: they were read, and enrollments never go back (`CallIsFine`). The
  messages of an enrollment are those of its first steps, all but the last sent
  (`RowsAreOrdered`), and whoever unsubscribed has a lasting suppression
  (`OptOutsLast`).
- `PeopleAreInOneSequence`, `SequencesAreMailedInOrder`: conjuncts of it or direct
  consequences.
- `TheCapIsExceededByOverlapOnly`: inductive as it stands, given that what was sent
  today is finite; a send is admitted below the cap, and at most all but one of
  the callers are sending then.
- `UnsubscribersAreLeftAlone`, `NothingUnapprovedLeaves`: every step by which a mail
  begins passes the checks of the recipient and of the approval in that same step
  (`MailsBeginRightly`), and the invariant turns the check of the suppression into
  what the history says.

`DiscoveryJobsProofs`

- `DiscoveryInvariance`: a checkpoint is `Sound` if everything up to its watermark
  is stored and, between the watermark and the newest post of its first page, all
  but what its token still leads to. Soundness is claimed, for targets that are
  `Steady` (their list has the order of publication, which is proved and not assumed),
  of the stored cursor and
  of the copy of every tick, stale ones included, because a copy may become the
  cursor. `HolderIsCurrent` says that the tick with the live claim has the stored
  cursor, up to targets it starts over.
- `NothingIsMissed`, `TheCursorIsCurrent`: conjuncts of it.
- `NothingStaleIsStored`: the fence of the fingerprint. It is about posts only: a
  refused target or token writes the cursor without looking at the fingerprint.

Model-checked only is liveness, with the fairness it rests on, which is out of the
prover's reach: `EveryJobSettles`, `AuthorizedWorkConcludes`, `EveryPostIsFound`. The
refuted properties of section 14 have nothing to prove.

## 14. Disagreements between documents and code

Two are the only property of a run that ends in a counterexample.

| Run | The document says | The code does |
|---|---|---|
| `publish_overlap` | a scheduled first attempt calls `publishPost` once (sprint 75, 6.2) | a run during the await calls it again |
| `pipeline_cancelled` | cancelled is terminal (comment and table in the contracts) | the execution under way finishes the run by id, and its draft is submitted |

Others were met while modelling and have no run of their own. The behaviour is
in the models; no property claims its absence.

- A job of a kind the deployed builds do not have (any more) is leased, gets no
  execution, and is leased again whenever its lease has run out, without end and
  beyond its attempts: `claimBackgroundJobs` updates the row (`background-jobs.ts:303`)
  before `toClaim` rejects the kind (`:122`, `:338`). Sprint 73, 6, says "Unknown kinds
  and malformed payloads dead-letter without invoking product code". `KnownToAll` in
  `EveryJobSettles` excepts exactly these jobs.
- Until such a lease ends the next batch counts it against the workspace's cap, and
  within a batch it does not count: so a workspace can have more live leases than the
  cap, and fewer jobs in hand than it could.
- An exception of the agent runner that is no error of the gateway
  (`runner.ts:98`, `:211`) ends the turn of the tick and leaves the run running, with
  its process alive (`Throw`); no later tick selects it, as with a call whose process
  died.
- A live call that outlives its lease proposes next to the call that took the run
  over: two drafts for one run and one item, of which the second ends on the unique
  step row (`pipeline-engine.ts:875`), though "the lease fence keeps one run from
  executing twice concurrently" (`schema.ts`). `OneDraftPerItem` excuses it as
  `"late"`, `OneDraftPerRun` after `late`.
- LinkedIn is listed by last modification (`connected-adapters.ts:537`) and cut where
  the watermark stands (`:652`), but the watermark is the newest post by publication
  (`paging.ts:347`). An edit of the post at the watermark moves it before posts that
  were not read; these are cut off, and lost when a later post becomes the watermark.
  Sprint 49 says "do not move the high-watermark forward until the gap has been
  traversed"
  (`docs/specs/sprint-49-bounded-leased-job-execution.md:516`). `Steady` excepts it.
- A pipeline run that is resumed after a revision submits the draft from before
  it, against "the engine takes the final validated Draft output" (sprint 64,
  D-64.4): `runPass` sets the latest draft for cached passes too
  (`pipeline-engine.ts:843`), and the replay begins with the plain draft step.
- An out-of-office reply does not pause a sequence: its return date is stored in
  `nextDueAt`, but the next step's due time is computed from the sent mail alone
  (`outreach-engine.ts:670`), so the next tick sends it. The comment at line 639
  says "paused → wait for nextDueAt", and the test at
  `outreach-replies.test.ts:227`, which looks at one tick only, "step 2 not sent
  during the pause".
- An unsubscribe reply is handled as any other reply while it has no label, which
  ends the enrollment; the label that comes later is never acted upon, so the
  person stays mailable (`mailbox-inbox.ts:89`, `outreach-engine.ts:207`).
- A tick that dies between the insert of a step's message and the write of the
  enrollment's step leaves an enrollment that meets the unique index at every
  later tick.
- A discovery execution that lost its lease still writes the health of the source
  (`writeSourceFailure` is fenced by the version only), against "the stale owner
  stops without changing source health" (sprint 49, 5.5).
- `completeDiscoveryJob` writes the counts of the last execution over what earlier
  ones of the same job had stored.
- Shutdown and lease loss do consume an attempt of a job, against sprint 73, 8:
  the claim spends it and nothing gives it back.
- Fairness among workspaces begins after the scan limit has cut the candidates,
  so the oldest undispatched workspace may not be seen (sprint 73, 12).
- A retry of a receipt is not checked against other live receipts of the same
  draft and destination, which a comment in `publications.ts` says block a dupe.
- The tick selects queued runs only: a pipeline run whose process died stays
  `running`, though the comment above the tick says a crash is a re-call at the
  next one.
- A switch of the generation path, or of the definition it needs, while a run or a
  generation for a signal is under way gives the signal two drafts, against "a
  signal already drafted for a campaign+channel is skipped" (`automation.ts:286`):
  the engine's drafts carry no automation key, and the legacy path does not look at
  runs.
- A legacy generation that was under way when the kill switch went up is still
  approved by the system (`automation.ts:298`, `:435`), while the engine's tick looks
  again; sprint 65, D-65.4, says "Kill switch semantics match legacy exactly".
- An approval names no version of the draft (`routes/drafts.ts:309`, and the links of
  mails and chats), while a revision does: it approves the text of that moment, which
  may not be the text that was seen.
- Attempts of a pipeline step that fail or stop to ask spend tokens that are not
  compared with the budget.

## 15. What is not modelled

- The adapters of the other action kinds (email sends are in `Outreach`), runs of
  receipts without an action, and several API processes in `ExternalActions`.
- In discovery: keyless feeds, which have no cursor; the merging of items into
  stories; matching, routing, packages and deliverables, which the same tick runs
  after its jobs; the deletion of a source. `lastError`, `status` and the counts of
  a job are only displayed and left out.
- In automation and review: several campaigns and items, which share nothing but the
  settings; the row that pairs a shadow run with its draft; manual generation, media
  and notifications. Two writes of a draft in one millisecond, which `updatedAt` does
  not tell apart, are left out.
- In outreach: several mailboxes, the window and the days of sending, open
  tracking, and drafts whose generation is refused by a budget. Gmail gives no
  idempotency key either: a crash after it took a mail and before the delivery says
  so sends it again (`AcceptAndDie`).
- Components of the table in section 1 without a module: `PROJECT.json` gives the
  reason for each. Most are rows with one writer at a time, data rather than
  control, or I/O.
- A crash after the provider made the post and before the receipt says so leads
  to a second post. The runs with crashes contain this; no property forbids it,
  because the code has nothing to prevent it (no idempotency key is passed). The
  model contains two more such behaviours: a slow attempt that overwrites a
  published receipt, and an action proposed again after its receipt was deleted.
- The text of content, prompts, scores, and everything the components table
  calls data rather than control.
- Deletion of workspaces, which no code path does.
- Providers, models, browsers: their answers are arbitrary.

## 16. Plan

Done: sections 3 to 10, and the proofs of section 13. Next:

- models for `ActionPolicy` (resolution over scopes), `ActionBatches` (preview and
  record of a batch on top of `ExternalActions`: two confirmations of one batch
  overlap, and the later one records a failure over the success of the first),
  and the fingerprint of an approval that `Covered` stands for;
- proofs that the dispatcher keeps what the queue promises on its own (`RetryBudget`,
  `WorkspaceCap` and `ImplementsDurableQueue` of `DispatchSpec`), and an abstract
  specification of what an external action promises, which `ExternalActions`
  implements.

New runs take over from older ones where they cover the same question, so that
all runs together stay quick enough to be repeated on every change.
