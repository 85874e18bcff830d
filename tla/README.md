# Formal model of the contribution workbench

The repository is a self-hosted service that finds open-source issues, plans a
contribution, runs it in a sandbox, reviews it and publishes a draft pull
request. It is a FastAPI application (`src/app/api.py`) and several worker
processes (`app/cli.py` starts them) around one SQLite database. There is no
message broker: the processes talk through rows, chiefly the rows of the `jobs`
table and append-only *version* or *event* tables. What makes the system hard is
therefore not its algorithms but who may write which row when, what a process
does with something it read earlier, and what a dead process leaves behind.

## 1. How the database behaves

Every module rests on these facts.

* `app/database.py:16-57` opens SQLite through SQLAlchemy with `autoflush=False`
  and `expire_on_commit=False`. Under the driver's legacy transaction mode a
  `SELECT` opens no transaction. A session that reads a row, decides, and
  commits is *not* atomic: other processes commit between its read and its write.
* The `UPDATE` such a session sends is `... WHERE id = ?` and carries only the
  attributes whose values it changed. A stale decision overwrites some columns
  and leaves others as another process wrote them.
* A guarded `UPDATE ... WHERE state = ... AND lease_owner = ...` is a
  compare-and-set: it tests and writes the row as it is.
* An append to a version table takes `sequence = last + 1` under a unique
  constraint, so it is a compare-and-set on the chain: what was read before
  cannot have changed if the commit succeeds.
* CHECK constraints refuse a row (`app/models.py:361-395`); the statement raises
  `IntegrityError` and its transaction is rolled back.
* Some services take the write lock before they read (`BEGIN IMMEDIATE`): the
  coordinator `contribution_workflow.py:302`, `workbench.py:102`,
  `task_visibility.py:98`, `cla.py:44`, `task_erasure.py:184`, `coding.py:1182`,
  `providers/model_secrets.py:136`. These are atomic as a whole.

So a compare-and-set is one action, a `BEGIN IMMEDIATE` transaction is one
action, and a read-modify-write through the session is two: a *read* action that
records what the session holds and a *write* action that applies the changed
attributes to the row as it has become, or nothing when a constraint refuses it.

## 2. Inventory

| component | state it keeps | operations | what makes it correct | modelled in |
|---|---|---|---|---|
| **Job queue** `jobs.py` | a row per job: state, lease owner and expiry, attempt count, cancel flag, run_after | enqueue, lease_next, start, heartbeat, succeed, fail, time_out, request_cancel, cancel, retry, recover_expired | an attempt has one holder and one accepted result; a cancellation is not lost; leases end; queued jobs run | `JobRows`, `JobLease`, `AttemptFence` |
| **Job workers** `worker.py`, `workbench_worker.py` | what a process knows of its job; a heartbeat task | poll, execute, heartbeat, settle | only the owner settles | `JobLease`; the workbench worker in each module whose jobs it runs |
| **Execution attempts** `executions.py` | chain of stage versions (explore, implement, verify) | start, start_stage, finish_stage, advance_stage, retry_stage, retry_verification_environment | a stage starts and ends once, in order; a version that was written can be read | `ExecutionStage`, `StageLedger`, `StageChain` |
| **Stage control and workers** `execution_control.py`, `execution_worker.py` | stage runs binding a pending version to a job; one leased run | schedule_current, lease_next, begin, complete, request_cancel, reconcile_expired, prepare_retry; run_once | job and stage agree; a stage is closed for its own run; the budget of runs is kept | `ExecutionStage` |
| **Sandbox worker** `sandbox_worker/*.py` | containers, volumes | explore, implement, verify, prepare a workspace, reclaim bundles | nothing runs on after its stage; a verification runs in its own bundle; volumes are reclaimed | `SandboxRun`, `VerificationEnvironment` |
| **Environment recovery** `execution_recovery.py`, `execution_environment.py` | receipts in the workbench history | restore, resume after repair | a recovery never exceeds the budget | `VerificationEnvironment` |
| **Artifacts** `artifacts.py` | files and the rows naming them | store_bytes, attach, finalize_execution_bundle | no row without its file | `StageEvidence`, `TaskErasure` |
| **Tasks, plans, locks, approvals** `task_states.py`, `plans.py`, `plan_locks.py`, `approvals.py` | append-only versions, a lock and an approval per plan | create, revise, lock, approve, revoke_if_stale, transition | what runs is what was approved | `PlanApproval`, `EvidenceChain` |
| **Planner** `planner.py`, `planning_budget.py` | the journal of a request, plan versions | request, archive, context and turn jobs, save | a stop ends it; calls stay near the budget | `PlannerRounds` |
| **Coding proposals and change sets** `coding*.py`, `changesets.py`, `proposal_*.py` | jobs of a lineage, proposals | request, read, propose, correct, extend, accept, repair | one change set per attempt; a repair keeps what was reviewed | `ProposalLineage`, `RepairRounds` |
| **Coordinator** `contribution_workflow.py` | the journal of a task | advance, stop, resume, authorize | each step is taken once; repairs are earned; a stop ends it | `AutomationLoop`, `PlanApproval` |
| **Conversation** `conversation.py`, `agent_runtime.py` | messages, decisions, jobs | receive, decide, dispatch, confirm | a paused conversation starts nothing; every message is answered | `Conversation` |
| **Reviews, publishing intents, pull request events, audit** `reviews.py`, `publish_intents.py`, `pull_request_events.py`, `audit.py` | records over states and an audit chain | create, confirm, ingest, verify | a record once written is accepted by its readers | `EvidenceChain` |
| **Publication** `publication.py`, `publication_documents.py` | previews, a confirmation, a write job | request, renew, confirm, publish, reconcile | at most one pull request, the confirmed one | `Publication` |
| **Publishing account** `publisher_service.py`, `publisher_accounts.py` | account versions, a vault | save, test, disconnect | a publication keeps the account it was confirmed for | `PublisherAccount` |
| **Pull request lifecycle** `pr_updates.py`, `pr_lifecycle.py`, `cla.py` | previews, confirmations, receipts | prepare, confirm, write, reconcile | a remote write is sent once | `RemoteWrites` |
| **Providers** `providers/*.py` | invocations, budgets, one-time gateway credentials | analyze, issue, consume, stream, poll | calls stay within the budget; an answer is one completion | `ProviderAnalysis`, `ModelCall` |
| **Workspace disposal** `workspace_disposals.py` | chain of disposal versions | prepare, claim, succeed, fail, retry, mark_worker_lost, destroy | a success is real | `WorkspaceDisposal` |
| **Visibility and erasure** `task_visibility.py`, `task_erasure.py` | visibility versions, shared files | archive, restore, delete, erase | an inactive task is settled; others keep their files | `TaskErasure` |
| **Discovery, scoring, product views** `service.py`, `scoring.py`, `product_experience.py` | scan runs, picks of the day, notices, versions of decisions | scan, notify, set_disposition, create_preference | the leaderboard of a day is one scan's; a match is announced as new once | `Discovery` |
| **Model settings** `model_settings.py`, `model_settings_api.py` | defaults, a task's versions of its selection | save, select, message, execute, authorize | what is authorized is what was planned and shown; work asks the authorized model | `ModelSelection` |
| **Coding session** `coding.py` | a session, its turns, change set proposals | context, message, propose, accept, with retries and cancellations | the transcript stays readable; one model job at a time | `CodingChat` |
| Execution acceptance and chat views, task lifecycle view, provider content, dashboard pages | pure functions, views | | | not modelled (section 7) |

`PROJECT.json` lists the components with their status, and under `hazards` the
places where this code is hard to test.

## 3. Modules

| module | models |
|---|---|
| `JobRows` | rows of the `jobs` table and the writes `JobService` makes to them (constant operators) |
| `JobLease` | the queue, the workers' protocol, requests, crashes, time |
| `AttemptFence` | *abstract*: numbered attempts, each granted, revoked or accepted |
| `ExecutionStage` | one execution attempt: stage versions, runs, jobs, sandbox workers, reapers, requests, the coordinator (over `JobRows`) |
| `StageLedger` | *abstract*: what an attempt promises of its stages |
| `StageChain` | the versions of an attempt as they are written, replayed and read back |
| `StageEvidence` | the files and rows of a stage's evidence |
| `RepairRounds` | the change of a plan over its repair rounds |
| `EvidenceChain` | states, records and audit events of whole tasks |
| `PlanApproval` | plan, lock, approval, attempt, the start job |
| `AutomationLoop` | the coordinator carrying a plan through its attempts |
| `ProposalLineage` | the model jobs that propose one change set |
| `Conversation` | the messages of a task, their decisions and jobs |
| `TaskErasure` | archiving, restoring and erasing tasks that share files |
| `PlannerRounds` | the planning jobs of concurrent requests |
| `ModelCall` | one model call through the gateway |
| `SandboxRun` | the containers and volumes of the stages of an attempt |
| `VerificationEnvironment` | the preparation, use, restoration and disposal of the bundle a change is verified in |
| `Publication`, `RemoteWrites` | the draft pull request, and what is written on it later |
| `PublisherAccount` | the publishing account over two databases |
| `WorkspaceDisposal` | the disposal chain of a workspace |
| `ProviderAnalysis` | the attempts of an analysis under one budget |
| `Discovery` | scans, the leaderboard of the day, their notices, decisions |
| `ModelSelection` | the models of a task while it is planned, authorized and executed |
| `CodingChat` | the coding session of an attempt: transcript, proposals, acceptance |
| `MCJobLease`, `MCRequests`, `MCExecutionStage`, `MCStageCasts`, `MCAgents`, `MCContribution`, `MCServices`, `MCRecords` | instances for TLC |
| `JobRowsProofs`, `JobLeaseProofs`, `ExecutionStageProofs`, `AgentsProofs`, `ContributionProofs`, `PublicationProofs`, `ServicesProofs`, `RecordsProofs` | proofs (section 6) |

Definitions whose comment begins with "Mutant of" are plausible bugs; no
specification uses them. Each shows that the property it is paired with in
`PROJECT.json` would notice that bug.

**Composition.** `ExecutionStage` is built on `JobRows`, whose writes `JobLease`
verifies; the other modules model a job by what `JobLease` shows a job to be: a
row that is queued, running or settled, an attempt that may be taken away from
a worker that goes on, a cancellation that is seen at the next look. The five
`MC` modules named after a group (`MCRequests`, `MCAgents`, `MCContribution`,
`MCServices`, `MCRecords`) put components that share no variable side by side: a
variable chosen in the initial state (`component`; `part` in `MCRequests`) says
which of them runs while the others rest. A
behaviour of such a module is a behaviour of one component, so what is found of
the group is found of each, and the theorems are about each component's own
specification.

### JobRows and JobLease

`jobs` is the table. A row keeps `state`, `lease_owner`, `lease_expires_at`,
`attempt_count`, `cancel_requested`, `run_after` and, for `completed_at`, whether
it is set (`completed`). `Consistent` is the pair of CHECK constraints.

Times are relative to the present, so that a lease is a small number that goes
down with `Tick` and the state space stays finite. A process compares a row with
a clock reading it took some ticks ago: `run_once` reads the clock once, then
waits for the database, so its reading carries an `age`.

`worker[w].pc` follows `run_once`:

| code | actions |
|---|---|
| `lease_next`: `recover_expired` (read rows, commit), select, guarded UPDATE | `ReadExpired`, `RecoverExpired`, `SelectJob`, `ClaimJob` |
| `start`, first `heartbeat` | `StartJob`, `ExtendForWork` |
| `_heartbeat_loop` | `Heartbeat` |
| the scan returns, raises, or is timed out | `FinishWork` |
| second look at `cancel_requested` | `ReadCancellation` |
| `succeed`, `cancel`, `fail`, `time_out`, with the except clauses | `Succeed`, `Cancel`, `Fail`, `TimeOut` |
| an error that leaves `run_forever`; a kill | `Down`, `Crash`; `Restart` starts the process again |

An API request reads (`ReadForCancel`, `ReadForRetry`) and commits later
(`RequestCancel`, `Retry`). `accepted` is a history variable: the attempts whose
success was committed. `Fence` maps `granted` to `attempt_count` and `holder` to
`lease_owner`.

### ExecutionStage

`versions` is the chain of stage versions, `runs` the stage runs and `jobs[k]`
the job of run `k` (`max_attempts = 1`, an assumption of the module that
`schedule_current` makes true). A version is its stage, its status and whether a
failure was put down to a stale environment. `OwnsPending(k)` and
`OwnsRunning(k)` are the two tests of `_reconcile_terminal`.

| code | actions |
|---|---|
| `schedule_current` (coordinator or endpoint) | `ScheduleCurrent` |
| `advance_stage` then `schedule_current` in one transaction | `AcceptChangeSet`, `ScheduleVerification`, `RestoreVerification` |
| `prepare_retry` | `PrepareRetry` |
| `request_cancel` of stage control, `cancel` and `retry` of the API | `ReadForCancel`, `ReadForRetry`, then `CancelRun`, `CancelJob`, `RetryJob` |
| `recover_expired` of a process that polls for other kinds of job | `ReapRead`, `ReapWrite` |
| `lease_next` = `reconcile_expired` (recover, look for stranded runs, reconcile each) + `JobService.lease_next` | `ReadExpired`, `RecoverExpired`, `ReadStranded`, `Reconcile`, `Reconciled`, `ClaimJob` |
| `begin` | `Begin` |
| `complete` as succeeded, as failed | `Succeed`, `FailStage` |
| `_schedule_verify` | `FollowUp` |
| heartbeat task, `asyncio.timeout`, except clause of `run_once` | `Heartbeat`, `TimeOut`, `Settle` |

A worker's `phase` says why it reconciles: before leasing (`poll`), inside the
lease (`lease`, which recovers expired jobs once more), after an interruption
(`settle`) and after failing a job whose stage never began (`after`). A conflict
raised by `_reconcile_terminal` or by `_settle` is not caught before
`run_forever`, so it ends the process: those branches go to `Down`.

`MCStageCasts` explores this module by *casts*: `cast`, chosen initially, says
which processes take part, how many crashes there may be and how many runs a
stage may have. `Casts` (safety) are one worker with two requests; two workers
with another process and a crash; one worker with the other process and three
runs per stage. `LiveCasts` (liveness) are one worker with a request, another
process and a crash, or a worker and a crash with two runs per stage.

### The records

**StageChain** (`executions.py`). `chain` holds each version with the key it was
written under; hashes are positions, or one of two values where callers may
differ in what they bring along. `Ask*` is a caller of stage control, of the
change sets or of the coordinator that decides to call; `Look` is
`_stage_replay`, `_current_for_transition` and the admission of the request;
`AppendVersion` is `_append` with `RowOK`, the CHECK constraints of the table;
`Repeat` is a call repeated under its key because its answer was lost.
`VerifiedHistory` is `_verified_history`, edge by edge (`StartEdge`, `EndEdge`,
`AdvanceEdge`, `RestoreEdge`, `RetryEdge`, `AbandonEdge`).

**StageEvidence** (`artifacts.py`, `verification.py`). `disk` are the files by
content, `artifactRows` and `manifests` the rows, `holder` the run whose open
transaction has the write lock, `inserted` what it has not committed yet.
`RunStep` is the worker from `VerifyService.run` over `Complete`, `LookForFile`,
`OpenFile` and `ReplaceFile` (`_atomic_write`), `LookForRow` and `InsertRow`
(`attach`) to `Finalize`; `Die` and `LoseRun` come between any two of them. A
Verify *stage* succeeds even when its commands failed: its result says so.

**RepairRounds** (`coding_repair.py`). `base` are the original files, `View`
what `repair_context` shows, `edits` what the model proposes, `changeset` the
cumulative operations, `reviewed` the tree Implement left. `Propose` parses,
validates and rebases; `Implement` checks priors and applies; `StartRepair` is
`start_repair`. A first proposal may write a file as it is and is then refused by
Implement; an empty cumulative change raises outside the correction path
(`coding.py:1036-1045`).

**EvidenceChain**. `states[t]`, `records[t]` and `audit` are the state versions,
the records and the audit events; a record is named by its place. A request asks
(`Approve`, `Start`, `StartNextAttempt`, `Review`, `CreateIntent`, `Confirm`,
`Ingest`), prepares its audit event (`Prepare`, whose `tail` is what it read as
the newest) and commits (`Commit`: unique numbers, unique sequences, triggers).
What a request reads before that is one action: reviews and confirmations take
the write lock before they prepare, and the others compare again when they
commit. Archiving and deleting leave an audit event each, so that every erasure
removes events from the chain. `Accepted` is `get_verified` of each record with
everything it rests on. Restoring a task, and the account's own audit events,
are not modelled. The event chain of a pull request may fork
(`pull_request_events.py:112`).

### The main process

**PlanApproval**. A read-modify-write through the session is a pair of actions
(`ReadForRevision`/`InsertRevision`, `ReadForLock`/`InsertLock`); a transition of
the task's state is a compare-and-set (`Extend`). `starter` follows
`ContributionStartWorker.execute`: `ReadAuthorization`, `FetchHead`, `CheckStop`,
`AutoLock`, `AutoApprove`, `AutoStart`, `Announce`, each its own commit, any of
them followed by `LoseStart` or `FailStart` and a retry of the job.

**AutomationLoop**. `ReadTick` is the reading half of `advance_workflows` and
`_advance` and takes a `Decision`; `CommitTick` writes it. Between them a subtask
may end, the user may stop, resume, review by hand or accept.

**ProposalLineage**. `jobs` is the lineage, `coder` each worker between its
commits: `LeaseJob`, `ReadBudget` (what remains), `CountCall`, then one of
`AnswerRead`/`FinishRead`, `AnswerProposal`, `AnswerRejected`, `StepFails`.
`Correct`, `ResumeJob`, `ExtendBudget` are the three ways on from a failure, and
`Apply` is `accept_existing` by the coordinator.

**Conversation** is the current protocol: a message waits, is understood by a job
(`LeaseTurn`, `CallModel`, `AnswerModel`, `TurnFails`, `TurnIsLost`), is decided,
dispatched (`Dispatch`, or reobserved when the task has changed) and finished by
`ConversationTick`; "stop" and "continue" take effect when they are received.

**TaskErasure**. `EraserStep` is the erasing worker: it leases the clean-up,
takes the write lock (`BeginErasure` computes what is doomed), unlinks file by
file and commits, or restores what it has backed up (`AbortErasure`); `KillEraser`
may come anywhere. `StoreFile` and `CommitWork` are the two halves of a worker
that stores an artifact. The triggers of migration v0031 are guards.

### Agents

**PlannerRounds**. `row` is the job at the end of a request's chain, `at` what
the process that handles it has done. `Look` reads, `Handle` commits; between them
other transactions commit. `Die`, `Expire` and stalled handlers are included. Two
requests may both find the planner idle (`planner.py:221`); that one does not
overwrite the other's plan follows from the look at the latest plan in
`create_revision` and from the unique version number.

**ModelCall**. `handler` is the gateway's side of a call and `call` the worker's;
`completions` is what the hosted API was made to produce, in order. A handler may
outlive its client; a streaming call posts again after a pending answer whose polls
fail; use counts are lost when the gateway restarts, but each credential is posted
by one call only. A malformed answer is recorded with no usage.

**SandboxRun**. `boxes` are the containers, `process` each worker process with
what it awaits; `Interrupt` delivers the cancellation of the heartbeat or of the
timeout at any await, and `Unwinds`, `RemoveContainer`, `DestroyVolume` are the
`finally` clauses, which a second cancellation interrupts. `destroy` swallows
failures. The volume of an Implement is created before `begin` is called.
`ExecutionWorkspaceDisposalService.destroy` (modelled in `WorkspaceDisposal`) is
called by nothing but its tests; only its `prepare` is
(`execution_control.py:630`). `DockerCodexExecRunner` is not wired and not modelled.

**VerificationEnvironment**. `preps` are the preparation jobs with their volumes;
`box` is the one sandbox worker. Its cleanup decides, awaits `docker volume rm`,
then records (`DecideDisposal`, `RemoveBundle`, `RecordDisposal`), so that the
bundle of a verification scheduled in between is gone when it runs; the
verification then fails as stale and is restored. A restoration that succeeded
but whose baseline did not pass is kept until the task is stopped; a volume that
was created but not recorded when the worker died is never reclaimed.

### Services

**Publication**. The worker's `publish` is one action per remote request
(`FindPull`, `CheckBase`, `EnsureFork`, `EnsureBranch`, `RecheckBase`,
`CheckMarker`, `AppendMarker`, `PostPull`, `RecordPull`), so that the upstream,
the account, others and the lease change between them. **RemoteWrites** has the
three later writes in one protocol. **PublisherAccount** commits the business
database and the vault apart, and may die between. **WorkspaceDisposal** is
`destroy` with its appends as compare-and-sets. **ProviderAnalysis** restores its
ledger from recorded invocations; what a lost attempt spent and had not recorded
is the history variable `hidden`.

### Discovery, model selection, the coding session

**Discovery**. `scanning[s]` is where the coroutine of a scan is: the run is
inserted (`StartScan`), GitHub is awaited, everything found is written in one
transaction (`WriteScan`: `done` is the order of these commits, as
`completed_at`), and a second one notifies (`Compare` reads the scan before and
the shortlist, `Notify` writes; `FailNotify` turns the committed run into a failed
one). Scans overlap because nothing stops one that lost its lease; `LoseScan` may
come at any await. `Raises` is the comparison with nothing of section 5. What
GitHub returns, and how it is filtered and scored, is a choice of facts.
`AskDecision`/`WriteDecision` are `set_disposition` and `create_preference`, whose
version number is unique.

**ModelSelection**. `bindings` are the versions of a task's selection, `history`
its workbench events, `handling[c]` what a request has read: `AskSelection`/
`Select` (`task_models`, not repeated under the write lock), `AskPlan`/`CommitPlan`
(`message`), `AskExecution`/`AuthorizeExecution` (`execute` and, under the lock,
`authorize_execution`). `BindForMessage` binds the defaults whatever the task is
doing. `ReadTick` and `EnqueueCode` are the coordinator, which compares the
selection with the authorized one (`task_identity`) and later enqueues a job bound
to the selection there is then. `late` is a history variable: the requests that
had read the task as idle when it was put to work.

**CodingChat**. `rows` are the jobs of the session, `turns` and `drafts` what they
produced, `hand[w]` a worker between its reads, the model and the write:
`CaptureContext`/`KeepSession`, then `AskModel`, `ReadAgain` and `StoreAnswer` or
`StoreDraft` for a turn or a proposal. A request reads (`ReadForMessage`,
`ReadForProposal`, `ReadForAccept`) and commits later; `ReadToRetry`,
`ReadToCancel`, `ReadLapsed` and the write `WriteRow` are `JobService`'s `retry`,
`request_cancel` and `recover_expired`, which write over a row whatever it has
become; `overturned` remembers the successes they wrote over.
## 4. What is checked

All passing runs explore the whole state space of their instance. Deadlock is
checked in `requests`, `es_stages` and `es_live` (in `requests` of the job queue:
the other parts may stutter); the other systems really stop when all their bounds
are used up, and there the liveness properties say that they stop in a state of
rest.

| run | instance | question | states |
|---|---|---|---|
| `requests` | `MCRequests`: 1 job, 2 workers, 2 requests, 2 attempts, 1 crash; 3 scans over 2 days; 2 requests about the models of a task; 2 requests and 2 workers of a coding session | no interleaving of stale reads and writes shares an attempt, reopens an accepted one or drops a cancellation; the queue implements `AttemptFence`; leaderboards are whole and matches new; what is authorized was confirmed; a transcript stays readable | 2.4 M |
| `es_stages` | `MCStageCasts`: the three casts of `Casts` | chain and jobs agree; a version is closed only for its own run; with retries and a restored verification the chain implements `StageLedger` | 2.1 M |
| `es_live` | `MCStageCasts`: the two of `LiveCasts` | a running stage ends; a stranded stage is closed | 625 k |
| `agents` | `MCAgents`: 1 polling worker and 2 crashes; 2 planning requests; 2 calls; 2 runs of a stage; 2 verifications | an answer is one completion, nothing runs on after its stage, the planner stops and keeps near its budget, a change is verified in its bundle, everything comes to rest | 964 k |
| `contribution` | `MCContribution`: 2 plans, 2 attempts of a plan, 2 coders, 3 messages, 2 tasks sharing a file | what runs was approved, repairs are earned, calls bounded, a pause holds, erasure spares others, everything settles | 649 k |
| `services` | `MCServices`: 2 attempts of each write, 2 previews, 3 keys, 3 calls of destroy, 2 analysts | remote writes are sent once, the account is kept, a disposal is real, calls are counted | 3.2 M |
| `records` | `MCRecords`: 2 callers and keys, 2 paths, 2 tasks and requests, 2 runs | what is written can be read, a draft follows its review, repairs are exact, evidence is whole | 1.3 M |

The runs `jl_terminal`, `es_queued_cancel`, `other_tasks`, `repair_reverts` and
`sandbox_leftovers` expect a violation: each shows a disagreement between the
code and what the repository says of it (section 5).

**Properties, by module.**

* `JobLease`: `AttemptsFence`: two processes may come to run the same job but
  never on the same attempt, and the row's owner holds the current one.
  `AcceptedIsClosed`: an attempt whose success was committed is never active
  again. `ResultIsCurrent`: a success is recorded by the owner of the current
  attempt, over a live lease, once. `CancelIsDurable`: no step erases a
  cancellation requested under a lease. `FenceSpec`: refinement.
* `ExecutionStage`: `ChainMatchesJobs`: chain and jobs disagree only in ways
  reconciliation closes or that stop the job for good. `RunningTogether`: a job
  runs only under its own running version. `ClosedByOwner`: what closes an open
  version is the run it is bound to. `LedgerSpec`: refinement. `StagesSettle`:
  liveness.
* `StageChain`: `ChainHolds` is `ReaderAccepts` (no call leaves an attempt that can
  never be read again) and `AnswersStand` (a call told it succeeded finds what it
  asked for right after the version it named).
* `StageEvidence`: `EvidenceIsReadable`: the evidence of a run that succeeded is
  whole and shows what was hashed, and only one run of a stage succeeds.
* `RepairRounds`: `ViewIsReviewed`, `RepairIsExact`: the model is shown the
  reviewed tree, and an implemented repair leaves it with this round's edits.
* `EvidenceChain`: `RecordsHold` is `RecordsAccepted` (a committed record passes
  every check of its readers until a task is erased) and `DraftFollowsReview`
  (nothing comes between the good review of the latest attempt and its draft pull
  request).
* `PlanApproval`: `AttemptIsApproved`: an attempt runs a plan approved in the
  state just before its own. `AutomationLoop`: `WorkIsEarned` (`RepairsAreEarned`
  and `LateWorkIsBounded`). `ProposalLineage`: `LineageIsBounded`
  (`CallsAreBounded` and `CorrectionStands`). `Conversation`: `PausedIsQuiet`.
  `TaskErasure`: `HidingIsSafe` (`InactiveIsSettled` and `SurvivorsKeepFiles`).
  `ContributionSettles`: liveness of the four that have one.
* `PlannerRounds`: `CallsNearBudget` (concurrent handlers compare before they
  append), `StoppedWorkEnds`. `ModelCall`: `AnswerIsWhole`. `SandboxRun`:
  `NothingRunsOn` (`RecordedIsQuiet` and `NoStrays`). `VerificationEnvironment`: `VerifiedInItsBundle`,
  `BundlesAreReclaimed`. `AgentsSettle`: liveness of the five.
* `Publication`: `AtMostOnePost`, `ConfirmedIsCurrent`. `RemoteWrites`:
  `SentAtMostOnce`. `PublisherAccount`: `PublicationKeepsAccount`.
  `WorkspaceDisposal`: `SuccessIsReal`. `ProviderAnalysis`: `OverspendIsHidden`.
* `Discovery`: `LeaderboardIsWhole`: the leaderboard of a day is the whole selection
  of the last scan of that day to write. `NewMatchesAreNew`: an issue is announced as
  new again only after a scan that did not find it.
* `ModelSelection`: `AuthorizedAsConfirmed`: what is authorized is what the plan was
  bound under and what the page showed, or the defaults adopted once by a task that
  had no selection. `StrayWorkIsBounded`: the jobs of an execution that ask another
  model than was authorized are at most the requests that had read the task as idle,
  and one if it had no selection.
* `CodingChat`: `TranscriptReads`: every answer in the transcript is verified by the
  job of its message, and the session by its capture, unless the success of that job
  was written over. `ModelJobsAreBounded`: requests add at most one model job each
  beyond "Coding session already has an active model Job".

**Bounds, and why they suffice.**

* *Processes.* Two of each role give every pair of concurrent operations of every
  kind; a third would repeat one of the two.
* *Job queue and stages.* Two attempts are the least for which "requeue" and
  "give up" differ; one is what a stage job has. Leases of one tick and two for
  work let a lease expire, be renewed, and be compared with a reading one tick old
  (`MaxAge`) before or after any step. A lease that expired more than `MaxAge`
  ticks ago behaves like one that expired `MaxAge` ago (`Aged`). The chain needs
  no bound of its own: a version opened without a run stays pending until a run
  within the budget takes it.
* *Records.* `MaxVersions = 9` is the length of a chain with all three stages,
  a verification that could not begin and its restoration; two `Hashes` let two
  callers bring different content along; `MaxRepeats = 1` repeats one call at any later time.
  `LoneStates = 11` and `LoneAudit = 8` let one task alone go through approval,
  attempt, review, repair, second review, intent, draft and an event of its pull
  request, or back to planning from a ready attempt and through a second one to
  the draft that must not be the first one's; `SharedStates = 7` and `SharedAudit = 4` bound two tasks side by side,
  where it is only the audit chain that relates them.
* *Main process.* `MaxEvents = 2` is an authorization with a stop or a start;
  `MaxLog = 3` a start, a blocker and a resumption; `MaxHeads = 1` one push
  upstream; `MaxTalk = 4` two messages that are notes, or more that are commands;
  `MaxErasures = 2` a clean-up that fails and one that does not; `CallLimit = 3`
  with `MoreCalls = 1` lets a lineage exhaust, extend and exhaust its budget.
* *Agents and services.* `MaxVerifyRuns = 2` a verification and its restoration;
  `MaxHolds = 2` blockers from elsewhere; `MaxFaults`, `MaxLosses`, `MaxCancels`,
  `MaxDeaths` one of each, together. `Overlap = FALSE`: one publisher (section 6).
  `Outcomes`, `Usages` and `Limits` are the values that lead to different branches.
* *Discovery.* Three scans are the least with one written between the two that
  announce an issue; `MaxDays = 2` lets a scan run past midnight; one issue, good or
  poor, with `TopN = 1` makes a leaderboard empty or full. `MaxEvents = 4` bounds
  scans, days and decisions together.
* *Model selection.* One profile beside the environment's model; `MaxBindings = 2`
  and `MaxHistory = 4` suffice for a plan, a change, an authorization and a stop or
  another change, and for a task authorized before there were settings
  (`SelectionInit`); `MaxRecords = 8` bounds the records of all kinds together.
* *Coding session.* `MaxTurns = 3` is two messages with an answer between; four jobs
  are a capture, two turns and a proposal, or two that race; `MaxRewrites = 1` is one
  retry, cancellation or recovery decided at any time and written at any later one,
  and `ChatTries = 2` lets a row be granted again.

Symmetry is used only in runs without liveness: workers, requests and reapers in
`es_stages` (the set of casts is closed under the permutations); processes of a kind
in `requests`, those of all parts exchanged together because only one part moves;
in `records`, hashes, and callers and keys of one component together with tasks and
requests of another, which never move in the same behaviour.

**Fairness.** Weak fairness of each worker's protocol, because `run_forever`
keeps polling and every awaited call either returns or is ended by
`asyncio.timeout`; of `Restart`, because the deployment restarts a dead process
(`src/docs/deployment/compose.yaml`, `restart: unless-stopped`); of the
coordinator's tick, which the main process repeats in a loop
(`advance_workflows`, `advance_conversations`, `advance_environment_recovery`);
of `Tick`, that is, of the passing of time that lets a lease expire. Nothing is
asked of users, heartbeats, other processes, crashes, or of anything that goes
wrong. "At rest" properties are stated as `[]<>`: a user may ask for something
new at any time, but what was asked for comes to an end again and again; the
bounds on requests make that "eventually, once nothing more is asked".
`AgentsSettle` is claimed of a single polling process; with two, a row may be
requeued with all its attempts used and is never leased (section 5). `es_live`
has one request for the same reason.

## 5. Where the code disagrees with its documentation

| run | code | says otherwise |
|---|---|---|
| `jl_terminal` | `recover_expired` (`jobs.py:502`) writes `timed_out` over a job that succeeded after it was read; for a stage job this leaves a succeeded stage with a timed-out job | `docs/tasks.md:143-147` |
| `es_queued_cancel` | the job endpoint (`api.py:2644`) cancels the job of a pending stage without its stage | `docs/execution-state.md:92` |
| `other_tasks` | erasing a task removes its audit events from the chain that the approvals, attempts and accounts of all other tasks verify (`task_erasure.py:109`) | `task_erasure.py:93-94` |
| `repair_reverts` | a repair that restores an original file is validated, rebased, and then refused by Implement (`coding_repair.py:113`) | `coding_repair.py:103` |
| `sandbox_leftovers` | an Implement whose inputs fail their provenance checks leaves its volume (`execution_worker.py:219`) | `docs/sandbox-implementation.md:63-64` |

Seen while modelling, without a run of their own:

* The decision "requeue" of `recover_expired` may be taken before the last
  attempt was granted elsewhere: the job is queued with no attempt left and every
  later `lease_next` fails on `ck_job_attempts` (`docs/tasks.md:148-149`).
* A cancellation between the read and the write of `recover_expired` leaves the
  job queued with `cancel_requested`, at which neither lease nor recovery looks.
* With two sandbox workers `_reconcile_terminal` may close a stage that another
  worker just began; with two concurrent requests a stale retry may requeue a job
  whose single attempt is used up, and its running stage is never closed.
* With overlapping publishers a task may open two pull requests: the marker is
  looked for and appended in two transactions. The deployment runs one.
* The "continue" of `contribution_workflow.py:211-262` reaches further than
  `docs/contribution-workbench.md:34` says.
* The gateway reports every upstream error as 502, so that refusals become
  retryable unless they say "end of life", "not found" or "authorization".
* A shortlisted opportunity that was not in the previous scan and reappears
  ineligible raises `TypeError` (`product_experience.py:483`,
  `_candidate_change_hash(*previous_candidate)`), and the notices are created after
  the commit but inside the same `try`, so a committed scan may be marked failed with
  its picks left in place (`Raises`, `FailNotify`).
* The change hash of an opportunity covers the number of its scan, so a shortlisted
  opportunity is announced as updated by every scan that finds it again, not on
  material changes only (`docs/tasks.md:654-656`).
* A message of the conversation binds the current defaults to a task that has no
  selection, in flight or not; the next tick of an execution authorized before then
  may be blocked as stale (`docs/tasks.md:1177-1179`,
  `tests/test_model_settings.py:254`).
* A request to plan that names a profile writes the whole selection as it had read
  it, so that it may silently undo a selection made in between.
* `recover_expired`, `retry` and `request_cancel` write unconditionally: when one of
  them overturns the success of a turn's job, its transcript can never be read again,
  and with it the coding session is lost.

## 6. What is proved

TLAPS proves these for every value of the constants the modules' named
assumptions allow. The assumptions say that bounds are natural numbers (not zero
where zero would switch the component off), that "none" values are not members of
the sets they stand beside, that the sets of requests, coders and analysts are
finite where they are counted (also `Issues`, `Handlers`, `Chatters`), and for
`JobRows` that the lease of a running job is at least that of a claim. Other sets need
not even be finite.

| module | theorem (property) |
|---|---|
| `JobLeaseProofs` | `TypeCorrect` (types), `AttemptsAreFenced` (`AttemptsFence`), `AcceptedStaysClosed` (`AcceptedIsClosed`), `ResultsAreCurrent` (`ResultIsCurrent`), `CancellationIsDurable` (`CancelIsDurable`), `QueueImplementsFence` (`FenceSpec`) |
| `ExecutionStageProofs` | `TypeCorrect` (types), `ChainAgreesWithJobs` (`ChainMatchesJobs`), `ClosedForItsRun` (`ClosedByOwner`), `ChainImplementsLedger` (`LedgerSpec`), `RunsTogether` (`RunningTogether`) |
| `RecordsProofs` | `ShownIsReviewed` (`ViewIsReviewed`), `RepairsAreExact` (`RepairIsExact`), `SucceededIsReadable` (`EvidenceIsReadable`), `AttemptStaysReadable` (`ReaderAccepts`), `AnswersAreTrue` (`AnswersStand`), `DraftsFollowReviews` (`DraftFollowsReview`), `RecordsStayAccepted` (`RecordsAccepted`), `RecordsKeepHolding` (`RecordsHold`), `ChainKeepsHolding` (`ChainHolds`) |
| `ContributionProofs` | `InactiveStaysSettled` (`InactiveIsSettled`), `SurvivorsStayWhole` (`SurvivorsKeepFiles`), `AttemptsAreApproved` (`AttemptIsApproved`), `LineageCallsAreBounded` (`CallsAreBounded`), `CorrectionIsAlone` (`CorrectionStands`), `PauseHolds` (`PausedIsQuiet`), `RepairsStayEarned` (`RepairsAreEarned`), `LateWorkStaysBounded` (`LateWorkIsBounded`), `HidingStaysSafe` (`HidingIsSafe`), `LineageStaysBounded` (`LineageIsBounded`), `WorkStaysEarned` (`WorkIsEarned`) |
| `AgentsProofs` | `OverrunIsBounded` (`CallsNearBudget`), `StopIsFinal` (`StoppedWorkEnds`), `AnswersAreWhole` (`AnswerIsWhole`), `RecordedStaysQuiet` (`RecordedIsQuiet`), `StraysAreExcused` (`NoStrays`), `NothingRunsOnAlone` (`NothingRunsOn`), `VerifiesInItsBundle` (`VerifiedInItsBundle`) |
| `PublicationProofs` | `ConfirmedStaysCurrent` (`ConfirmedIsCurrent`), `PullIsOpenedOnce` (`AtMostOnePost`), `WriteIsSentOnce` (`SentAtMostOnce`), `AccountStays` (`PublicationKeepsAccount`) |
| `ServicesProofs` | `DisposalIsReal` (`SuccessIsReal`), `BudgetIsKept` (`OverspendIsHidden`), `LeaderboardStaysWhole` (`LeaderboardIsWhole`), `NewMatchesStayNew` (`NewMatchesAreNew`), `DecisionsStayDifferent` (`DecisionsDiffer`), `AuthorizationsAreConfirmed` (`AuthorizedAsConfirmed`), `StrayWorkStaysBounded` (`StrayWorkIsBounded`), `TranscriptStaysReadable` (`TranscriptReads`), `ModelJobsStayBounded` (`ModelJobsAreBounded`) |

`PullIsOpenedOnce` assumes `~Overlap`, that no publisher runs on after another
took its job, as in the deployment's single publisher process
(`src/docs/deployment/compose.yaml`); without it the theorem is false. `RunsTogether`
assumes that there is at most one sandbox worker, as in the same file (one
`sandbox-worker` service, no replicas), or that nobody cancels or retries
(`Clients = {}`), which are the casts of `es_stages`; with two workers and a request
it is false. Every
other theorem is about any number of processes. The parts of the merged properties
(`NothingRunsOn`, `HidingIsSafe`, `LineageIsBounded`, `WorkIsEarned`, `RecordsHold`,
`ChainHolds`) are proved one by one and then together.

### Arguments

**JobLease.** `Basic` strengthens the type invariant: rows satisfy the
constraints and have no owner and no lease unless active, and a process names a
job wherever it acts on one. `StepKinds` then reduces `Next` to three kinds of
step: `Grants` (a claim), `Accepts` (a success), and `Keeps`, which for every row
leaves the attempt count, and either leaves the owner or clears it. A stale write
is a `Keeps` step whatever it read, because it never sets an owner and never
touches the attempt count. The refinement maps `Grants` to `Grant`, `Accepts` to
`Accept`, and `Keeps` to `Revoke` of the rows that lost their owner.

**ExecutionStage.** The invariant is `Bound /\ Chain /\ Procs`.
`ChainMatchesJobs` is not inductive: a stale write may put a job that ended back
in the queue, and nothing in the property says that it cannot be leased. `Chain`
adds what does: a job has *no attempt* only while its version is pending, or was
cancelled, which nothing reopens. So a job whose stage failed or timed out has
used its attempt, and `ck_job_attempts` keeps it from becoming active. `Procs`
says what processes know. Every step is one of five moves (of the jobs alone,
start, close, schedule, open), and each move is treated once.
*Jobs and versions together*: `RunsTogether` adds `Calm`: of the jobs a worker knows
to have ended when it reconciles, none is active. A job known to have ended can come
back in between only by a lease, and with one worker a lease is that worker's own
step: nobody else makes a job active (`NoneActivated`, shown of the coordinator, the
requests, other processes and time), and the worker leases nothing while it
reconciles. Without requests `Calm` follows for any number of workers: nothing is ever
cancelled (`NotCancelled`), and a job that ended otherwise has used its only attempt.
So the one step that closes a version without its job, `Reconcile`, finds a job that
is not running, and every other closing writes the job in the same transaction
(`ClosedWithItsJob`). With two workers and a request `Calm` fails: a stage job that
was cancelled unleased is retried and leased by one worker while the other still
knows it as cancelled.

**StageChain.** `ChainInv`: every version and every edge is good, where the
reason of an edge tells an advance from a retry, and no version has an inventory
before an Implement succeeded (that is what makes the reader's checks of later
versions succeed); a request about to append is still admitted at the version it
names (`Admitted`), because the version at a place never changes. `NextIsGood`
shows once that what a request appends follows from what it was admitted at;
`ReplayIsNext` that a replay answers with the version right after the named one,
which gives `AnswersStand`.

**StageEvidence.** `EvidenceInv` is about one run at a time (`RunKeeps`): the
files of all contents it has gone past are whole, and so are the rows it has
committed or, if it holds the write lock, inserted. Files are named by content,
so another run that writes the same file replaces it by itself. `InTurn`: a run
starts when the one before it has been lost or has ended without success.

**RepairRounds.** `RepairInv` ties the view to the reviewed tree by phase; the
lemma `CumulativeIsExact` says that laying the cumulative operations over the
original files is laying the edits over the view, and needs that a deletion
leaves no file.

**EvidenceChain.** `TasksInv`: states are only appended; each record names the
states it is about, and conversely a state `executing` comes from an attempt and
`ready` from a good review; attempts are in the order of their states; a request
that is still in time still fits. The step that matters is the confirmation: a
review older than the newest attempt cannot be the one confirmed, because between
its `ready` and the current one there would be an attempt's state, and the unique
sequence refuses a confirmation that read an older state. `AuditInv`, while
nothing was erased: one event for each record that has one, numbered 1..N, each
naming the one before it; the tail a request has read is a prefix, so the unique
number refuses it unless it is still the newest. `RecordsAccepted` follows from
both; after an erasure `AuditInv` is false, which is the finding `other_tasks`.

**PlanApproval.** States are only appended, so what an approval and an attempt
name stays true; an attempt is only started in the state its plan's approval
appended, which an attempt then follows, so no approval is used twice.
**AutomationLoop.** `AutoInv` adds to `RepairsAreEarned` that each plan has a
first attempt, that a repair a tick has decided upon is still due unless an
attempt followed, and that after a stop the only late work is what was decided
before it. **ProposalLineage.** `CallInv`: calls, and workers that have read the
budget and not counted their call, exceed the limit by at most one less than the
workers; `CallsAreBounded` alone forgets the workers between the two. `TailInv`:
all jobs but the last have succeeded, and a draft fails only with its runs used
up. **Conversation.** `MessagesInv` (messages keep their shape and `pausedAt`
does not pass them) is all the action property needs. **TaskErasure.**
`ErasureInv`: while the eraser has the write lock nothing is active and what is
left to unlink is named by the deleted task alone; a content about to be
committed is on disk.

**PlannerRounds.** `JournalInv`: calls, and handlers that have compared and not
appended, pass the limit by at most the number of requests. `StopHolds` is about
one step: every write to a row guards `cancel`. **ModelCall.** `ModelInv`: the
text a handler has collected is a prefix of a completion begun for its own call,
whatever earlier tries still receive, and a reply a worker accepts is whole.
**SandboxRun.** `RunHolds`, run by run: every container up is awaited by its
process or excused, one about to be removed has met a fault or a cancellation, and
an Implement past its last container has none. An Implement that succeeded keeps
its volume because only its own process removes it.
**VerificationEnvironment.** `EnvironmentInv`: a receipt stands with the success of
its job; a worker that has mounted a bundle or runs in it is at the bundle the
running verification names, and that bundle is still frozen, because the one process
that could dispose of it is the one that verifies; a second verification was
scheduled with a bundle in which the baseline passed. That the latest preparation
exists (`Receipt` is a greatest element) is shown by well-founded induction on finite
sets of numbers (`GreatestExists`).

**Publication.** `ConfirmedInv`: while a preview is confirmed nothing prepares
another, and the account cannot change before the write job succeeded. `PostInv`:
nothing was posted without the marker, only the attempt that holds the write job
goes on, and it is about to post only if it appended the marker itself and nothing
was posted before. **RemoteWrites.** `SendInv`: an attempt of the current job has
seen no mark only while there is none, it marks while holding the job, and at most
one attempt is about to send. **PublisherAccount.** `AccountInv`: once a
publication is confirmed no probe of another login can connect, because a probe
that read the latest version finds an account that was still pending when no
publication could be confirmed with it.
**WorkspaceDisposal.** Whoever is about to record a success has seen the volume
go. **ProviderAnalysis.** `AnalysisInv`: calls made, with those that
late analysts may still make, are at most those counted and those hidden, and at
most the budget and those hidden.
**Discovery.** `ScansInv`: a scan is past its write exactly if its results are in, and
no two results are in the same place of the order. `NoticesInv`: what a scan compares
itself with is the last one completed before it. A scan that announces an issue did
not find it in that one, which was completed no earlier than a scan that announced
the issue before, and is not that scan, because that one had found it. `DecisionsInv`: a request about to append still follows the version it
read, or fails on the number.
**ModelSelection.** `SelectionInv`: versions and events are only appended, every
version but the first has its event, an event names the version bound after it, and
plans are bound anew only with a new number once the models changed; so what a page
showed stays what it was unless an event between says otherwise, which is what
`authorize_execution` looks for. `WorkInv` is an argument about credit: while the task
is at work every request that will still select had read it as idle (`late`), each
selection it makes and the first binding of a task without one pay for one job, and
the coordinator, which compares before each job, enqueues at most one per change.
**CodingChat.** `ChatInv`: each turn job owns the message it answers; an answer was
written with its job's success, which only an overturning write takes back; the
session is the result of every capture that succeeded. `LoadInv` counts: open jobs
that were not revived, with the requests that have seen none and not yet added
theirs, are at most the requests there are, because a request sees none only when no
job is open, and the others that have seen none are still counted as requests.

### Only model-checked

* Liveness (`StagesSettle`, `AgentsSettle`, `ContributionSettles`,
  `BundlesAreReclaimed`): fairness and `ENABLED` are out of the prover's reach.
* Every safety invariant and every safety action property of a passing run is a
  theorem; of the findings (section 5) TLC's counterexamples are all there is.

## 7. What is not modelled, and the plan

Not modelled at all: the content of prompts, plans and change sets, hashing,
canonical JSON, the work done inside containers (a choice of outcomes), read-only
views, migrations. *Execution acceptance and chat*, *task lifecycle view*,
*dashboard*: they read and format what others wrote (the writes of the chat are
`CodingChat`). *Provider content*: schemas, prompts, fixtures. Of *model settings*,
the connections, their credentials and tests; of *discovery*, the quotas of the
selection, scores and recommendations, and reminders.

In `JobLease`: priorities and the order of the queue (a free choice), payloads
and results, the rollback of a caller's transaction by `enqueue(commit=False)`
(`jobs.py:137`), `max_attempts` that differ between jobs. In `ExecutionStage`:
the admission of an attempt (`start`, in `PlanApproval` and `EvidenceChain`),
artifact bundles (in `StageEvidence`), idempotency keys (in `StageChain`). In
`Conversation`: the former protocols kept for messages of older releases. In
`ProposalLineage`: the reading of files within a turn. In `RemoteWrites`: the
polling of reviews and checks.

What remains: the reading of files
within a turn of `ProposalLineage`; the polling of reviews and checks in
`RemoteWrites`; connections of the model settings as a module of their own.

## 8. Running

`tlc -config requests.cfg MCRequests`, and likewise `jl_terminal` with `MCJobLease`;
`es_stages`, `es_live`, `es_queued_cancel` with `MCStageCasts`;
`agents`, `contribution`, `services`, `records` with `MCAgents`,
`MCContribution`, `MCServices`, `MCRecords`; `other_tasks` with `EvidenceChain`,
`repair_reverts` with `RepairRounds`, `sandbox_leftovers` with `SandboxRun`.
`tlapm X.tla` for each of the eight proof modules `X`.
