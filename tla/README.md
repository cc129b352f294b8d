# TLA+ development of the Technocore agent orchestrator

The orchestrator takes one engineering task through a fixed sequence of model roles
(planner, challenger/implementer, reviewer) and a deterministic verifier. It keeps every
decision in SQLite, works in isolated Git worktrees, and shows the run in a Technocore
room. This directory holds TLA+ models of the parts of it that are hard to test, the TLC
configurations that check them on small instances, and TLAPS proofs of the properties
that matter most for every size. Paths below are relative to
`src/src/technocore_orchestrator/` unless they start with `src/`.

`PROJECT.json` is the index: components, runs, the source lines each definition models,
the hazards with the properties that cover them, the findings and the theorems.

## 1. Inventory of the system

| Component | Source | State it keeps | Operations | Hard behaviour |
|---|---|---|---|---|
| Run state machine | `domain/state_machine.py`, `domain/models.py` | none; `RunState`, `EventKind` tables | `apply_transition` | which sender may move which state; no way out of a terminal state |
| Supervisor | `orchestrator.py` | a coroutine over durable records | `run`, `resume`, `cancel`, `_drive_run`, `_invoke*`, `_emit`, `_terminalize_run`, `reconcile_transports` | crash between two durable writes; deadline and cancellation at any await; schema repair; resume from records alone |
| Durable store | `storage/sqlite.py` | runs, events, invocations, role_results, checks, worktrees, nonces, collaboration_messages | transactions of one method each | the idempotence keys; published rows are immutable; nonce order |
| Event transport | `publication.py`, `technocore.py` | transport columns; the room (service) | `publish`, `reconcile`, `publish_signed`, `read_room` | unknown write outcome, late commit, gap in the history, duplicate copies |
| Live viewer | `viewer.py` | cursor | `read` | room read first, database afterwards |
| Run control | `runtime.py`, `windows_lock.py`, `cli.py` | lock file, cancellation marker | `run_with_control`, `request_active_cancellation`, `cancel` | several processes; probe = short acquisition; stale markers |
| Collaboration | `gateway.py`, `collaboration_backend.py`, `domain/collaboration.py` | rows of messages, `called_tools`, acknowledged and resolved ids | MCP tools, `publish`, `acknowledge`, `read_new_messages`, validation in the supervisor | overlapping tool calls, retries of failed tools, unknown outcomes, crash during the handoff |
| Worktrees | `worktrees.py`, their callers in `orchestrator.py` | Git worktrees and branches, worktree rows, the dictionary of known trees | `create`, `refresh`, `retarget_readonly`, `commit_pending_changes`, `validate_candidate`, `_restore_worktrees`, `_ensure_worktree` | crash between Git and SQLite, or in the middle of a Git command |
| Cleanup | `operations.py` | worktree rows' status | `cleanup_run` | removal and its mark are two steps; no lock, so cleanups overlap |
| Verifier, process execution | `verification.py`, `execution.py`, `process_host.py`, `windows_job.py` | job handle, output limiter, results of the suite | `Verifier.run`, `ProcessRunner.run` | host, provider and what it leaves behind run by themselves and hold the pipes; time and output limits; cancellation at any await, also twice |
| Model adapters, prompts | `adapters/`, `prompts.py`, `fake_harness.py` | none | `invoke` | answer parsing only |
| Real runtime, rooms | `real_runtime.py`, `room_security.py`, `network.py` | room file, the room's notes at the service | `build_real_runtime`, `OwnedRoomProvisioner` | provisioning cut short, or by two commands at once; refused and lost writes |
| Configuration | `config.py`, `profile.py`, `managed_project.py` | generated repository, resolved configuration | make once, load, validate | files left in part by a crash; two commands for one run |
| Identities | `identity.py`, `storage/sqlite.py` | key files, last nonce of each key | create, load, sign | exclusive open, part of a file after a crash, a clock that runs backwards |
| Reports | `artifacts.py`, `reporting.py`, `evaluation.py` | report files, generation lock, output folder | `generate_reports`, `export_run_output` | several files replaced one after the other; a folder made once from what others may change |
| CLI | `cli.py`, `errors.py` | none | `run`, `resume`, `cancel`, `report`, `cleanup`, `identity create` | commands as sequences of steps with different locks, each of which may fail |
| Web viewer | `web_viewer.py` | session token | serve | none beyond the live viewer's |

How they interact: the CLI enters `run_with_control`, which holds the run's kernel lock
and watches the marker; inside it the supervisor drives the run, writing each decision to
the store *before* it is published; `_emit` then publishes the event to the room and marks
it. A model invocation opens a `RoleGateway`, whose tools write collaboration rows and room
messages; when the provider process ends, the supervisor validates those rows and stores
the result. The viewer and the cancel command are other processes that see only the
database, the room and the control files.

What makes each part correct:

* **Supervisor**: whatever crashes come between, the records a resumed run reads fit
  together; attempts are numbered without reuse; no answer that is already durable is asked
  for again; no launch while an outcome is unknown; completion rests on evidence about one
  commit; a terminal run is frozen; launches and revisions are bounded; every run ends.
* **Transport**: a receipt names a real copy; published events are in order; the read-back
  cursor cannot overlook a copy; no event is written twice; all are published in the end;
  the viewer shows only entries whose rows are published, and catches up, unless a message that
  will never be published is in its way.
* **Run control**: one operation at a time; only a live request cancels; every command ends
  with the lock free.
* **Collaboration**: accepted messages are in the room exactly once and in order; a new role
  can read all of it; nothing precedes its acknowledgement; each message is published once.
* **Worktrees, cleanup**: work that is not committed is never destroyed; a tree is removed
  only after the run, and marked removed only when it is gone; what is reviewed is the
  candidate, the whole candidate, and what the implementer's tree holds.
* **Process execution**: no process outlives the call that caused it; output is kept whole or
  the limit is named as the reason; a suite that passes really ran its required jobs; a
  call ends, however it is canceled.
* **Commands and setup**: a run is recorded only when all that its resume needs is there,
  whole, and agrees with the record; no nonce is used twice, whatever the clock does.
* **Reports and output**: the files of a report set are never newer than those they name; no
  file goes back to an earlier report; the output folder holds one report and, of what the run
  made, only its candidate.

## 2. Modules

| Module | Models | Uses |
|---|---|---|
| `StateMachine` | `_TRANSITIONS`, `_EXPECTED_SENDERS`, warnings | |
| `RunLifecycle` | abstract specification: the run's state moves only along transitions, with at most `MaxRevisions` revisions | `StateMachine` |
| `Workflow` | the supervisor over its durable records | `StateMachine` |
| `WorkflowProperties` | its properties, the refinement of `RunLifecycle`, inductive strengthenings | `Workflow`, `RunLifecycle` (INSTANCE) |
| `WorkflowProofs` | theorems: types, launches, attempts, refinement | `WorkflowProperties` |
| `WorkflowEvidenceProofs` | theorems: the records fit together, events and completion rest on evidence | `WorkflowProofs` |
| `EventTransport`, `EventTransportProofs` | events on their way to the room and into the viewer; theorems | |
| `RunControl`, `RunControlProofs` | lock and marker; theorems | |
| `Collaboration`, `CollaborationProofs` | tools, room, validation, handoff; theorems | |
| `Worktrees`, `WorktreesProofs` | Git worktrees beside their rows, the candidate's commit, cleanup; theorems | |
| `ProcessRunner`, `ProcessRunnerProofs` | one child process after the other, with its host, job, pipes and limits; theorems | |
| `RunSetup` | what commands do before they may drive a run: files, identities, nonces, notes, lock, row | |
| `Deliverables` | what they do afterwards: reports and the output folder, beside a driver and cleanups | `RunSetup` (EXTENDS) |
| `DeliverablesProofs` | theorems about both | `Deliverables` |
| `MC*` | instances for TLC | |

Definitions named `Faulty...` are deliberately broken variants of the definition that
follows them. Nothing uses them: each stands for a plausible bug (a dropped guard, an
off-by-one) and shows that a property would notice it (`mutants` in `PROJECT.json`).

### Workflow

`runState`, `events`, `invocations`, `checks`, `head` are what SQLite and Git keep;
`pc` and `repair` are the coroutine, lost in a crash. Every value of `pc` is a point
between two durable writes or an await. One action is one transaction with what surrounds
it: `Accept` is `accept_event` (transition and insertion in one transaction), `Start` and
`Finish` are `start_invocation` and `_terminalize_invocation`, `EmitPublished` and
`EmitFailed` are the answer to the publication. `DriveInvoke`, `DriveVerify`, `Adopt*` and
`EmitVerification` are the branches of `_drive_run`, with the record checks by which it
refuses its own database (`RecordsConsistent`). `Interrupt` is the deadline or a
cancellation at an await; `Crash` is the death of the process anywhere; `Resume` and
`CancelIdle` start again from the records. A model's answer is its verdict; whether it
moved the branch is `ModelMayCommit`. Git trees, prompts, usage and timestamps are left out.
The store is assumed to work: a transaction that itself fails
(`suppress(WorkflowError)` around `fail_invocation`) is not modelled.

### EventTransport

Refines the one step "publish" of Workflow into the signed POST (`Send`, `Commit`), its
answer, and the marks. A lost answer (`AnswerLost`) makes the event uncertain and the POST
may still commit (`late`); an over-long answer to a committed write is an ordinary failure.
`Found`, `PublishAgain`, `ReadBackFails`, `Reconciled` are `reconcile_transports`; `Fetch`
and `Show` are the viewer's two reads. The constant `Hazards` names the faults a run
explores, so that a property that needs a fault to be absent says so in its configuration.

A collaboration message is `Other`. Its row and its calls are in Collaboration; here it is
what the viewer makes of it: `unmarked` while its call is to mark the row published
(`OtherMessage`, `OtherMarked`), or `lost` when the message is in the room and the row will
never be marked: the answer and the read-back failed (`OtherLost`), the message was committed after
its call had been given up (`LateOther`), or the invocation's gateway was closed or the process
died in between (`CloseGateway`). Nothing reconciles such a row, and the invocation is not accepted
(`orchestrator.py:1177`), so the run only terminates; hence `Emit` asks that there is none.
`Durable` is the check of both kinds of entries: one that fails refuses the whole window.

### RunControl

Each `run`, `resume` and `cancel` command is a process whose file system steps are separate
actions. A probe of a free lock holds it until it is closed (`Probe`, `EndProbe`), so it can
refuse a starting supervisor. `markedAt` and `cause` are history variables: who held the lock
when the marker was made, and which marker canceled an operation.

### Collaboration

`rows` is the table, `room` the sequence of messages; a row's `inv` is the `prior_count` of
its invocation, which identifies it. The model may call the tools offered in its phase in
any order, concurrently, and repeatedly, and may acknowledge any published message; a call
that is refused changes nothing and is no step. `calls` are the writes in flight (sent,
committed, or being looked up after a lost answer). `Accepted` is the end of a valid
invocation, `Rejected` any failure of it; a rejected invocation ends the run.
`PublishHandoff` and `ReuseHandoff` are `_publish_candidate_handoff`, which a resumed run
enters again after a crash. A read of the room is counted only when it succeeds; since the
role chooses its cursor, success never depends on what other messages are there, and the
property `NewRolesReadEverything` says what the verification would find.

### Worktrees

`tree` is what Git and the file system hold, `row` and `observed` the tables, `known` the
supervisor's dictionary, which dies with it. The supervisor's steps are separated at every Git command
that writes and at every transaction: `CreateTree`, `RecordTree`, `ObserveTree` for a new
tree; `RetargetTree`, `ObserveTree` for a reviewer's tree after a revision; `CheckPending`,
`AddChanges`, `CommitStaged`, `Validate`, `AcceptCandidate` for a candidate
that the supervisor commits, `CheckCommitted` for one that is there already (the model
committed it, or an earlier materialization did before a crash). `CutShort` is what a command
leaves that ends in the middle: part of a new tree, a reviewer's tree between two commits,
staged changes, whatever the model had done. `stage` keeps of the run's state what the
trees depend on, `answer` what `role_results` and `invocations` say of the last
invocation. `Cleanup`, `Inspect`, `RemoveTree`, `MarkRemoved`, `MarkRetained` are
`cleanup_run`, which may overlap with itself (it takes no lock) and die (`CleanupDies`);
the operator may at any time work in a retained tree (`OperatorEdits`). A refusal by a
guard (a path that exists, a dirty tree, staged changes) is the run's failure, `Fail`, which can happen anywhere.
What Git refuses atomically (`worktree remove` of a dirty tree) is one step.

### ProcessRunner

`pc` is where `ProcessRunner.run` stands: `spawned` between the creation of the host and its
assignment to the Job Object, `wait` for the first of exit, overflow and timeout, `grace` and
`kill` in `_terminate_process`, `drain` and `settle` for the two ways of waiting for the
output. `Feed` and `Drain` are its tasks beside that. `host`, `tree`, `piped` are the
world: the host starts the provider only after the launch frame (`StartProvider`), the
provider may start others, each may write, end, ignore CTRL_BREAK, and each holds the pipes
while it lives. `doomed` says that the kernel kills what is in the job (terminated, or its
last handle closed). `waitsForPipes` chooses whether asyncio's `Process.wait()` returns before
the pipes are closed, which depends on the Python release. `Cancel` is the first cancellation
of the call, `CancelAgain` a second one, which ends the wait for shielded tasks.
`Record` is the loop of `Verifier.run`; `genuine` is a history variable. A cancellation
while asyncio is still creating the host is left to asyncio.

### RunSetup and Deliverables

A slot is an operating system process that runs commands one after the other; `proc` holds
its command, the step it is at, the identities it has loaded and the nonce of the note it is
writing. A file is absent, a part (opened, not wholly written) or whole, and then names its
writer: the key in an identity file is fresh, so the writer identifies it. `Open` is the exclusive
open or `mkdir`, `Write` the content, so a crash or fault between them leaves a part for good.
`Ensure`, `Load`, `ReadNote`, `Sign`, `Posted`, `NotPosted`, `Verify`, `TakeLock`,
`CreateRow`, `MatchRow` follow `cli.py` into `build_real_runtime`, `OwnedRoomProvisioner`,
`allocate_nonce` and the store. Only the real profile is modelled; the fake one skips identities and
room. The clock is read anew for each nonce and may go anywhere in its range; the stored
nonce is one more than in the code, so that 0 means none.

Deliverables keeps of the run what reports tell apart (state, worktree, observation,
candidate) and lets the driver change it under the run lock. `LockGeneration`, `Snapshot`,
`Replace` are `generate_reports`; `BeginExport`, `ExportCode`, `CopyCode`, `CopyReports`,
`Publish` are `export_run_output`, which holds no lock. `CopyCode` is the loop over the changed
paths, one path in each step, so that the tree may be edited, committed or removed
between two paths, and a folder's `code` is the set of what its paths were copied as (`Copies`): the file of a
commit, the file with the implementer's uncommitted edits, what an operator made of it, or
"deleted". An operator may work in the retained tree of a run that is over, at any time, and no
step of the orchestrator sees when; instead of an action of its own, which would only double the
states, `CopiedAs` offers the operator's file wherever the run is over, and `Clean` finds such a tree
with uncommitted work or without. That the operator also edits the tree of a run that is not over is not
modelled. `Error` and `Regenerate` are the CLI's
error path, which reports on a run that exists and decides whether to export before it
generates. `Clean` is `cleanup`, `CancelRun` the cancellation of an idle run.
`Crash` loses what a process had in memory and its temporary folder, and frees its locks.

## 3. Runs

| Run | Question | Bounds |
|---|---|---|
| `workflow_safety` | Do records, evidence, launches, order and lifecycle survive a crash anywhere, and does every run end? | 1 revision, 1 schema repair, 8 launches, 1 crash |
| `workflow_budget` | Is `max_model_invocations` a maximum? (violated) | 5 launches, 1 repair, no crash |
| `workflow_blocked` | Does a blocked result stop the run? (violated) | 1 crash |
| `transport_safety` | Are receipts, order, read-back and viewer sound under every fault? | 3 events, 2 faults, 1 collaboration message, 1 forgotten message |
| `transport_retries` | Without interruptions, crashes, late commits and over-long answers: one copy each, all published, viewer at the end of the room unless a lost message is in its way? | 3 events, 2 faults, 2 collaboration messages, nothing forgotten |
| `transport_interrupted` | One copy each with a cancellation? (violated) | 2 events, 1 fault |
| `control_safety` | One operation, live requests, every command ends? | 2 drivers, 2 cancelers, 1 crash |
| `collaboration_safety` | Is the accepted conversation whole, ordered, without duplicates? | 1 revision, 16 messages, 1 fault |
| `worktrees_safety` | Is no work lost, and do reviewers, rows and trees agree? | 1 revision, 2 cleanups, 2 crashes |
| `process_safety` | Does anything outlive its call, vanish unnoticed, pass without having run, or hang? | 2 streams, 1 descendant, 2 chunks written, limit of 1, 2 jobs, 1 of them required |
| `commands_safety` | Do racing and dying commands leave resumable runs, fresh nonces and consistent reports and output? | 2 processes (symmetric), 3 commands, 1 fault or crash, clock 0..1, nonces up to 2, 2 candidates |
| `exports_complete` | Does the output folder always hold the candidate's files? (violated) | 2 processes, 3 commands, no fault, 1 candidate |

Why the bounds suffice. A second revision repeats the states of the first, which already
has "count before" and "count after" on both sides of every comparison; 8 launches are one
more than the 7 that one revision without repairs needs, so that the limit is met both with
and without a repair left; one crash already separates every pair of neighbouring writes. Three events give an event with a
predecessor and a successor, two faults a failure during the recovery from a failure. Two
drivers and two cancelers are the smallest number with two requests for one operation
and two operations for one request. Sixteen rows are the whole accepted conversation with
one revision. It is run with one fault because a second multiplies the states by forty;
what a second would reach, a crash after a lost answer, differs from a crash alone
only in the status of the row. For the worktrees one revision is the first time that a
reviewer's tree is an old one, two cleanups are the smallest number that overlap, and two
crashes are one of the supervisor's and one of a cleanup's; since all five
properties are also proved, the bounds there only serve to find mistakes early. Two
streams share one output limit, and with a limit of one chunk of two written the limit is
met, passed, and passed only while the last output is drained; two jobs are
a required one and an optional one that may fail. Three commands are a `run`, another one
that races with it, and a third that meets what they left, perhaps half done by the one fault;
only two are ever at work at once. Two candidates are the smallest number with
a report of an earlier one, and with a commit that is not the base and may still be edited; two
nonces are those of one provisioning, so that a second one, or one that is
repeated after a crash, meets the end of the range. The changed paths of a candidate need no bound, since a
folder's `code` is a set. Two collaboration messages are one that is lost behind one that is published.

Deadlock is checked where the system never stops (Workflow: an exited run can always be
resumed; EventTransport: the viewer polls; Worktrees: likewise resumed). In ProcessRunner `Finished` stutters once the suite is over, so that a
call that cannot go on before would be found. RunControl, Collaboration and Deliverables stop when all
commands are over, or the run is, and say `CHECK_DEADLOCK FALSE`.

Fairness. *Workflow*: weak fairness of the supervisor's steps (the event loop runs, every
await has a timeout) and strong fairness of `Resume` (an operator who resumes a stopped run
again and again; a crash can disable it again and again, until the bound). *EventTransport*:
weak fairness of the supervisor, the service's commit, the calls of the tools, the resumption and the viewer's
polling; only in the run without interruptions, since nothing prevents an operator from interrupting forever. *RunControl*: weak
fairness of every process; the operation is bounded by the wall-clock deadline, a
command's wait by five seconds. *ProcessRunner*: weak
fairness of the runner's steps (the event loop and its timers) and of the kernel's kill of a
doomed job; nothing is assumed of the processes, nor of those who cancel. *Collaboration*,
*Worktrees* and *Deliverables* state no liveness.

That every await is bounded, on which `EveryRunEnds` and `EveryCommandEnds` rest, has one
exception in the code: the wait for the last output of a child process (`execution.py:277`),
while a descendant that outlived its host holds the pipes. ProcessRunner models it (`Held`), and
`CallsEndUnlessHeld` excludes exactly it. A run in which that happens need not end before the
descendant does, and the command that drives it neither; the two properties are about all others.

`ViewerCatchesUp` has two conditions. A lost collaboration message is part of the property
(`Blocked`). A room that forgets messages the viewer has not shown is excluded by
`MaxReaped = 0`: then `read_room` reports a gap and the viewer, which keeps its cursor, refuses
from then on as well.

## 4. Findings

1. `workflow_budget`: a schema repair starts another process without asking
   `_next_invocation_attempt` again, so the total may pass `max_model_invocations` by up
   to `max_schema_repairs`. `LaunchesBounded` is what does hold, and is proved.
2. `workflow_blocked`: a result is durable before it is looked at; a crash in between lets the
   resumed run adopt a planner's, challenger's or implementer's blocked result.
3. `transport_interrupted`: an event whose publication was interrupted (or whose process
   died) stays `local_pending` and is published again without being read back.
4. `exports_complete`: the export looks for the worktree once and then takes each missing path for a
   deletion. A `cleanup` in between empties it under the export, and the folder, which is
   made only once, calls the candidate's files deleted, all or those not yet copied.

Other things that the models show, which contradict no statement of the code or its documents
or are too small for a run of their own:

* `run_with_control` removes the old marker after it has taken the lock (`runtime.py:93`), and
  with it perhaps a new request that was already confirmed. `cancel` asks again after five
  seconds, so the request is late, not lost.
* Validation of a handoff compares the kind of the acknowledged message (`orchestrator.py:1207`) and
  the commit only for a candidate, so that a superseded plan or review is accepted.
* A descendant that outlives the host holds the pipes. `run` then waits for the end of the output
  without a limit of its own, and a single cancellation during that first wait goes on waiting for it; only
  a second one, or the end of the descendant, ends the call (`Held`).
* A terminal run may have no output folder, although `src/README.md:457` says "Each terminal workflow
  creates one collision-resistant directory": after `cancel` of an idle run, which does not
  export; when the generation lock is busy; and when a run ends between the observation of a new
  head and the candidate's event, since `generate_reports` then refuses for good
  (`reporting.py:810`).
* A collaboration message that is in the room but whose row is not published (its answer and its
  read-back were lost, or its call was given up) makes the viewer refuse every window that has it,
  for good (`viewer.py:121`): the page of such a run stays at the message before, also for the
  workflow events behind it. `ViewerCatchesUp` says so.
* The export compares the candidate with the stored observation and then copies what is in the
  worktree, path by path (`artifacts.py:134`, `artifacts.py:143`). The first export of a completed run may therefore hold
  what an operator has edited or committed there since, under the approved candidate's name; and
  if the tree is removed meanwhile, some files and the rest as "deleted". What cannot happen is
  that a completed run's folder has files of another commit or edits that the implementer never
  committed (`OnlyTheCandidateIsExported`). A failed run's folder may have both, and `report` on
  an active run makes the one folder early. After a cleanup the export of a run fails.
* A crash in `identity create` leaves a part of a file that every later command refuses and
  that none replaces (`identity.py:161`).

## 5. Proofs

TLAPS proves, for every value of the constants that satisfies the named assumptions:

* **Workflow** (`LimitsAssumption`). `BaseHolds`: `BaseInv == TypeOK /\
  AttemptsNumberInvocations /\ StageFacts` is inductive. `StageFacts` is needed because
  the actions work on "the last invocation of the role that the state waits for" and on
  "the last event": types alone do not say that there is one, nor that the state still
  waits for that role. Lemmas describe each helper once (`AcceptAppends`, `MarkKeeps`,
  `StartAppends`, `FinishKeeps`, `LatestMember`, ...), and each action has a step of its own.
  From it: `TypeCorrect`, `AttemptsNumbered`.
  `LaunchesAreBounded` adds `LaunchBudget`, which says how far a repair in progress may
  exceed the limit. `UnresolvedFailsClosed` and `AnswersAreUsed` add `UnresolvedIsCurrent`: an
  invocation without an outcome is the last one of the role the state waits for, and then, as
  while a process runs, earlier checkpoints account for every stored result; so a state
  that moves on leaves nothing unresolved behind, and a launch asks for nothing that is there. `TerminalFrozen` is an action property: after a terminal
  event only marks change. `LifecycleImplemented` shows that Workflow implements
  `RunLifecycle`: an accepted event is a lifecycle step, the number of `revision_required`
  events is the lifecycle's counter, everything else stutters.
* **The evidence of Workflow** (`WorkflowEvidenceProofs`). None of the three properties is
  inductive, because each speaks of records of which the supervisor sees only the last ones.
  `EvidenceInv` says how far the records run ahead of each other. Its parts: an event has
  its expected sender (`SenderFacts`); the numbers of events of each kind fit the
  run's state, which is what makes "before" and "after" comparisons of `_drive_run` sound
  (`CountFacts`); the checkpoints account for all stored results but at most one, of the role
  that the state waits for (`ResultFacts`, `StoredFacts`); events cite results, one each, and a
  result that is not yet accounted for is later than all that are cited (`CiteFacts`,
  `NewerFacts`, `OnceFacts`), so that the adoption of the *latest* result never cites one
  twice; candidates are commits of the branch, and what is reviewed, approved and
  verified is the last of them (`CandidateFacts`, `ReviewFacts`, `CheckFacts`). From
  `EvidenceHolds` follow `RecordsFitTogether`, `EventsRestOnResults` and
  `CompletionRestsOnEvidence`. Counting needs cardinalities: `EventsOf` of an appended
  sequence is the old set, or the old set with one element more.
* **EventTransport** (`TransportAssumption`). `TransportHolds`: `TransportInv` is inductive. What
  makes it so is `MayWrite`: an event is written, is being written, or may still be committed
  late, only when all events before it are published. Hence a copy that arrives at any time is
  behind the published copies of all earlier events (`RoomFacts`), which gives
  `OrderOfPublication` and, with it, that a read-back that starts behind the last
  published event cannot overlook a copy (`ReadBackIsComplete`). `HistoryIsKept` is an action
  property. `OneCopyWithoutHazards` has the hypothesis `Hazards = {}`, under which the run
  `transport_retries` checks `AtMostOneCopy`; its invariant `CopyFacts` adds that an event
  with a copy is published, uncertain (and then found by the read-back), or being answered.
  The run `transport_interrupted` shows that the hypothesis is needed.
* **RunControl** (`ControlAssumption`). `ControlHolds`: `ControlInv == TypeOK /\
  LockHolders /\ LiveMarker` is inductive. `LockHolders` (whoever has a lease holds the lock)
  gives `OperationsExclude`; `LiveMarker` (the marker that a running operation sees was made
  while it held the lock) gives `StaleRequestsAreDropped`.
* **Worktrees** (`WorktreeAssumption`). `TreesHold`: `TreesInv` is inductive. It adds to the
  type invariant and the state properties: the supervisor and the cleanups never work at
  the same time (`CleanupsComeAfter`, because `cleanup_run` asks for a terminal run and a
  terminal run is never driven again); a candidate is only made while implementing
  (`MaterializesAnswers`); a new or retargeted tree is right before it is known
  (`NewTreesAreRight`); what is known stays so (`KnownTreesAreRight`); a tree about to be
  marked removed is gone (`MarkedTreesAreGone`). From it follow `RemovedTreesAreGoneAlways`,
  `LiveTreesStayAlways`, `ReviewedIsThere`, `ReviewersSee`, and the action property
  `WorkIsKept`.
* **Collaboration** (`ConversationAssumption`). `ConversationHolds`: `ConversationInv` is
  inductive. One write at most is in flight, that of the last row, and its tool has not been called
  (`CallFacts`: this is the mutation lock and the check of `called_tools`); no row has two
  copies, and one that is published stands before the copies of all later rows
  (`RoomFacts`); rows answer earlier ones, and those up to `prior` are published
  (`RowFacts`); a published row of the current invocation is of a tool that is marked as called,
  and the supervisor's own step adds one handoff at most (`StageFacts`); what the gateway remembers is
  in its published rows (`GatewayFacts`); and an answer comes after a published
  acknowledgement of its invocation (`AckFacts`). The subtle step is an acknowledgement: its
  target might be any published row, and that it is an *accepted* one follows only because the
  current invocation cannot have published anything before its acknowledgement
  (`FirstPublication`). From the invariant follow `AcceptedIsWhole`, `RolesReadEverything`,
  `AcknowledgementsComeFirst`, `MessagesOnce`, and the action property `MessagesStay`.
* **RunSetup and Deliverables** (`SetupAssumption`, `DeliverablesAssumption`). `SetupHolds`:
  `SetupInv` is inductive. For each process it says what the command has made, loaded and
  verified by the step it is at (`PathFacts`, `MadeFacts`, `KeyFacts`, `VerifiedFacts`), and
  that a part of a file has one writer (`WriteFacts`, `WritersApart`), so that no one else finishes
  or replaces it: whoever reads a whole identity reads the key that stays.
  `RecordedRunsHold` and `NoncesHold` follow. `ReportInv` adds to it, for `DeliverablesHold`, that
  what a report says of the run was so, and still is if the run had ended (`TreeFacts`, `ReportsTrue`);
  that the holder of the generation lock has the newest report, and the files it has yet to
  replace are older (`GenerationFacts`); and that the payload of a folder being prepared is not
  newer than `run.json` and not older than the command's own report, and that what it has of a
  completed run's code at any time of the copying is allowed (`FolderFacts`, `TrueCode`): the driver has
  left such a run's tree clean at the candidate, and it stays so but for an operator. The
  second bound is why a folder is of one report: a copied digest that agrees can only
  be of the payload itself. `ReportFilesStayInOrder`, `OutputHoldsOneReport`,
  `ExportsOnlyTheCandidate` and the action property `ReportsHoldGround` follow. The proofs never use that
  the run lock excludes a second driver: these properties do not rest on it.
* **ProcessRunner** (`RunnerAssumption`). `RunnerInvariant`: `RunnerInv` is inductive. It adds to the
  type invariant that what is drained and kept is bounded by what was written (`Bounded`), that
  no provider exists before the launch frame and no frame is sent before the host is in the
  job (`Gated`), that during a call whatever lives is in an owned job (`InTheJob`), and that a call that has
  ended has closed it (`Reaped`). `NothingOutlives` follows: the launch gate is what
  makes the property true, because a host that dies before its assignment has started nothing.
  `ResultsHold` adds what a result rests on. Instead of a sum over the pipes, which would need
  an induction, `OutputFacts` says that the chunks written can be told apart into kept ones and
  those of each pipe, with the right numbers: when all pipes are empty, every chunk is a kept one.
  With `ReturnFacts` (nothing that could write is left when a call returns), `ProviderFacts` (a
  return code of zero is the provider's) and `StopFacts` (a tree that was told to stop has a
  reason, or a cancellation that never returns) follow `NothingDropped` and `VerifiedRan`.

How the parts stand:

* *Checked and proved.* Every invariant and every safety action property of the passing runs is also the subject of a
  theorem (`theorems` in `PROJECT.json` names the pairs): TLC shows it on a small instance, the
  proof for every value of the constants, thus without the bounds of section 3. The inductive
  invariants were themselves checked with TLC before they were proved.
* *Proved only.* The type invariants of Workflow, RunControl, Worktrees and ProcessRunner,
  `AttemptsNumberInvocations`, `TerminalRunsAreFrozen`, and the action properties of `HistoryIsKept` and
  `MessagesStay`, which need no run.
* *Checked only.* Liveness: `EveryRunEnds`, `EveryEventPublished`, `ViewerCatchesUp`,
  `EveryCommandEnds` and `CallsEndUnlessHeld`, because the prover reaches neither fairness nor
  ENABLED. The four findings are counterexamples of TLC.
* *Assumed.* The named assumptions on constants only, which TLC evaluates in every run. No lemma
  rests on an induction over data: where a least or greatest element is needed, it comes from
  the well-foundedness of the natural numbers (`LeastNumber`, `GreatestNumber`).

## 6. Not modelled

* Prompts, adapters and parsing of answers: no state. Validation of configurations, cryptography and
  encodings: pure functions whose outcome is success or failure in the models.
* Rendering and redaction of reports, and the comparison of reports: layout.
* The web page: a single-threaded server of what the live viewer reads, with no protocol of its own.
* The relocation of a storage root (one transaction) and the migration of an old database.
* The contents of Git trees (paths, modes, diffs, ignored files) and the preparation of the
  repository, which end in success or failure.
* The HTTP server of the gateway, and the listener and provider checks of the runtime.
* Failures of SQLite itself and of the file system on the control files, among them two processes that remove
  the marker at the same moment.
* A cancellation while asyncio creates a process, which depends on asyncio's internals.
* Someone who tampers with the files of a finished output folder.

## 7. Plan

Done, in this order, the most important behaviour first: `StateMachine` and
`RunLifecycle`; `Workflow`; `EventTransport`; `RunControl`; `Collaboration`; `Worktrees`;
`ProcessRunner`; `RunSetup` and `Deliverables`; and for each of them the theorems of its safety
properties, the evidence of Workflow, the transport, the conversation and the commands last.

Next:

1. An abstract specification of a publication (accepted, then published, in order), which
   EventTransport implements, proved step by step; Workflow's `EmitPublished` as its abstraction.
2. An abstract conversation (messages accepted one invocation at a time) that Collaboration implements.
3. The planner's and the verifier's trees in Worktrees, and its stages composed with Workflow's states.
4. The relocation of a storage root.
