------------------------------ MODULE Workflow ------------------------------
(***************************************************************************)
(* One workflow run: the supervisor of orchestrator.py driving it over the *)
(* durable records of storage/sqlite.py.  The supervisor may crash between *)
(* any two durable writes, may be interrupted by the wall-clock deadline   *)
(* or by an operator at any await, and may be started again by `resume` or *)
(* `cancel`, which know nothing but the durable records.                   *)
(*                                                                         *)
(* Git is reduced to the commit the implementer's branch points to, the    *)
(* room to the transport status of each event, and a model's answer to the *)
(* verdict the supervisor acts on.                                         *)
(***************************************************************************)
EXTENDS Naturals, Sequences, FiniteSets, StateMachine

CONSTANTS
    MaxRevisionCycles,    \* limits.max_revision_cycles
    MaxModelInvocations,  \* limits.max_model_invocations
    MaxSchemaRepairs,     \* limits.max_schema_repairs
    MaxCrashes            \* bound of the model: supervisor crashes explored

ASSUME LimitsAssumption ==
    /\ MaxRevisionCycles \in Nat
    /\ MaxModelInvocations \in Nat \ {0}
    /\ MaxSchemaRepairs \in Nat
    /\ MaxCrashes \in Nat

VARIABLES
    \* Durable: SQLite and Git.
    runState,     \* runs.state
    events,       \* accepted events of the run, in rowid order
    invocations,  \* per model role, its invocations in start order
    checks,       \* recorded verifier suites
    head,         \* commit of the implementer's worktree and branch
    \* Lost in a crash: the supervisor process.
    pc,           \* where its coroutine is
    repair,       \* repair_index of the schema-repair loop
    \* Bound.
    crashes

durableVars == <<runState, events, invocations, checks, head>>
vars == <<durableVars, pc, repair, crashes>>

(***************************************************************************)
(* Records                                                                 *)
(***************************************************************************)

ModelRoles == {"planner", "implementer", "reviewer"}

\* Where a supervisor coroutine can be between two durable writes or awaits.
Stages ==
    {"publish", "reconcile", "reconcile_cancel", "restore", "drive", "invoking",
     "repairing", "returned", "materialize", "handoff", "verifying", "verified",
     "failing", "canceling", "publish_final", "exited"}

TransportStatuses == {"local_pending", "published", "uncertain", "failed"}

Phases == {"propose", "challenge", "finalize", "implement", "revise", "review"}

Verdicts ==
    {"accepted", "changes_ready", "candidate_committed",
     "approved", "revision_required", "blocked"}

BaseCommit == 0   \* repository.base_commit; later commits are numbered
NoCommit == 0     \* an event without a git_commit artifact

Event ==
    [kind : EventKinds, sender : Roles, attempt : Nat, candidate : Nat,
     status : TransportStatuses]

Invocation ==
    [phase : Phases, attempt : Nat, commit : Nat,
     status : {"started", "succeeded", "failed", "canceled"},
     verdict : Verdicts \cup {"none"}]

CheckSet == [candidate : Nat, passed : BOOLEAN]

TypeOK ==
    /\ runState \in RunStates
    /\ events \in Seq(Event)
    /\ invocations \in [ModelRoles -> Seq(Invocation)]
    /\ checks \in SUBSET CheckSet
    /\ head \in Nat
    /\ pc \in Stages
    /\ repair \in 0 .. MaxSchemaRepairs
    /\ crashes \in 0 .. MaxCrashes

(***************************************************************************)
(* Queries on the durable records                                          *)
(***************************************************************************)

IsTerminal == runState \in TerminalStates

\* Positions of the accepted events of a kind, and of a set of kinds.
EventsOf(kinds) == {i \in DOMAIN events : events[i].kind \in kinds}

\* The last position of a non-empty set of positions.
Latest(positions) == CHOOSE i \in positions : \A j \in positions : j <= i

\* _latest_candidate, and the baseline of an implementation attempt.
PriorCandidate ==
    LET ready == EventsOf({"implementation_ready"})
    IN  IF ready = {} THEN BaseCommit ELSE events[Latest(ready)].candidate

\* The role and phase of the model invocation each state needs.
RoleStates == {"planning", "challenging", "finalizing", "implementing", "reviewing"}

RoleOf(state) ==
    CASE state \in {"planning", "finalizing"} -> "planner"
      [] state \in {"challenging", "implementing"} -> "implementer"
      [] state = "reviewing" -> "reviewer"

PhasesOf(state) ==
    CASE state \in {"planning", "finalizing"} -> {"propose", "finalize"}
      [] state = "challenging" -> {"challenge"}
      [] state = "implementing" -> {"implement", "revise"}
      [] state = "reviewing" -> {"review"}

PhaseOf(state) ==
    CASE state = "planning" -> "propose"
      [] state = "challenging" -> "challenge"
      [] state = "finalizing" -> "finalize"
      [] state = "implementing" ->
            IF EventsOf({"implementation_ready"}) = {} THEN "implement" ELSE "revise"
      [] state = "reviewing" -> "review"

\* The commit the invocation's worktree and prompt are at.
CommitOf(state) ==
    IF state \in {"implementing", "reviewing"} THEN PriorCandidate ELSE BaseCommit

\* list_role_results: the stored results of the type a state works with.
Results(state) ==
    {i \in DOMAIN invocations[RoleOf(state)] :
        /\ invocations[RoleOf(state)][i].status = "succeeded"
        /\ invocations[RoleOf(state)][i].phase \in PhasesOf(state)}

FaultyLatestResult(state) == invocations[RoleOf(state)][1]   \* the oldest row

LatestResult(state) == invocations[RoleOf(state)][Latest(Results(state))]

\* How many of those results earlier checkpoints of the run account for.
Consumed(state) ==
    CASE state \in {"planning", "challenging"} -> 0
      [] state = "finalizing" -> 1
      [] state = "implementing" -> Cardinality(EventsOf({"implementation_ready"}))
      [] state = "reviewing" ->
            Cardinality(EventsOf({"revision_required", "review_approved"}))

\* The single checkpoints that a state reads back (_single_event), with the
\* stored results they cite (_proposed_plan, _stored_plan_challenge, _stored_plan).
RequiredCheckpoints(state) ==
    CASE state = "challenging" -> {"plan_proposed"}
      [] state = "finalizing" -> {"plan_proposed", "plan_challenged"}
      [] state \in {"ready", "implementing", "reviewing", "verifying"} -> {"plan_finalized"}
      [] OTHER -> {}

CitesResult(event, role) ==
    \E i \in DOMAIN invocations[role] :
        /\ invocations[role][i].attempt = event.attempt
        /\ invocations[role][i].status = "succeeded"

CheckpointReadable(kind) ==
    /\ Cardinality(EventsOf({kind})) = 1
    /\ \A i \in EventsOf({kind}) : CitesResult(events[i], ExpectedSender[kind])

\* The review that asked for the revision being implemented.
RevisionReadable ==
    EventsOf({"implementation_ready"}) # {} =>
        /\ EventsOf({"revision_required"}) # {}
        /\ \E i \in DOMAIN invocations["reviewer"] :
              /\ invocations["reviewer"][i].attempt
                    = events[Latest(EventsOf({"revision_required"}))].attempt
              /\ invocations["reviewer"][i].verdict = "revision_required"

\* Every StateError by which _drive_run refuses records that do not fit together.
RecordsConsistent(state) ==
    /\ \A kind \in RequiredCheckpoints(state) : CheckpointReadable(kind)
    /\ state \in RoleStates =>
          Cardinality(Results(state)) \in {Consumed(state), Consumed(state) + 1}
    /\ state = "implementing" => RevisionReadable
    /\ state \in {"reviewing", "verifying"} => EventsOf({"implementation_ready"}) # {}

\* A stored result no checkpoint accounts for yet is used again, not asked for again.
FaultyHasResult(state) == FALSE   \* restarts ask the role again

HasResult(state) == Cardinality(Results(state)) = Consumed(state) + 1

TotalInvocations ==
    Len(invocations["planner"]) + Len(invocations["implementer"]) + Len(invocations["reviewer"])

\* _next_invocation_attempt: 1 + max(attempts, default=0).
NextAttempt(role) ==
    LET attempts == {0} \cup {invocations[role][i].attempt : i \in DOMAIN invocations[role]}
    IN  1 + Latest(attempts)

AttemptSpace == 100

FaultyMayInvokeUnbounded(role) ==   \* the limit is not looked at
    LET own == invocations[role]
    IN  Len(own) > 0 => own[Len(own)].status # "started"

FaultyMayInvokeUnresolved(role) ==   \* an unresolved invocation is passed over
    TotalInvocations < MaxModelInvocations

\* _next_invocation_attempt returns instead of raising.
MayInvoke(role) ==
    /\ TotalInvocations < MaxModelInvocations
    /\ LET own == invocations[role]
       IN  Len(own) > 0 => own[Len(own)].status # "started"
    /\ NextAttempt(role) <= AttemptSpace

(***************************************************************************)
(* Durable writes                                                          *)
(***************************************************************************)

\* accept_event: the event, its transition and the new state in one transaction.
Accept(kind, sender, attempt, candidate) ==
    /\ \E next \in RunStates :
          /\ Applies(runState, kind, sender, next)
          /\ runState' = next
    /\ events' = Append(events,
          [kind |-> kind, sender |-> sender, attempt |-> attempt,
           candidate |-> candidate, status |-> "local_pending"])

\* mark_event_transport.
Mark(i, status) == events' = [events EXCEPT ![i].status = status]

\* start_invocation.
Start(role, attempt) ==
    invocations' = [invocations EXCEPT ![role] = Append(@,
        [phase |-> PhaseOf(runState), attempt |-> attempt, commit |-> CommitOf(runState),
         status |-> "started", verdict |-> "none"])]

\* complete_invocation, fail_invocation, cancel_invocation: the status and, for a
\* success, the role result in one transaction.
Finish(status, verdict) ==
    LET role == RoleOf(runState)
    IN  invocations' = [invocations EXCEPT
            ![role][Len(invocations[role])].status = status,
            ![role][Len(invocations[role])].verdict = verdict]

\* An implementer process may have committed on its branch, although the prompt
\* asks it not to (its candidate_committed outcome exists for that).
ModelMayCommit ==
    head' \in IF runState = "implementing" THEN {head, head + 1} ELSE {head}

(***************************************************************************)
(* _emit: accept, publish, mark                                            *)
(***************************************************************************)

EmitPublished ==
    /\ pc = "publish"
    /\ Mark(Len(events), "published")
    /\ pc' = IF IsTerminal THEN "exited" ELSE "drive"
    /\ UNCHANGED <<runState, invocations, checks, head, repair, crashes>>

EmitFailed ==
    /\ pc = "publish"
    /\ \E status \in {"uncertain", "failed"} : Mark(Len(events), status)
    /\ pc' = "failing"
    /\ UNCHANGED <<runState, invocations, checks, head, repair, crashes>>

(***************************************************************************)
(* _drive_run: one pass of its loop                                        *)
(***************************************************************************)

\* Supervisor events that need no model: run_started and implementation_started.
DriveSupervisor ==
    /\ pc = "drive"
    /\ RecordsConsistent(runState)
    /\ \/ /\ runState = "created"
          /\ Accept("run_started", "supervisor", 1, NoCommit)
       \/ /\ runState = "ready"
          /\ MayInvoke("implementer")
          /\ Accept("implementation_started", "supervisor", NextAttempt("implementer"), NoCommit)
    /\ pc' = "publish"
    /\ UNCHANGED <<invocations, checks, head, repair, crashes>>

\* A role's result is missing: start the first attempt of _invoke_with_schema_repair.
DriveInvoke ==
    /\ pc = "drive"
    /\ runState \in RoleStates
    /\ RecordsConsistent(runState)
    /\ ~HasResult(runState)
    /\ MayInvoke(RoleOf(runState))
    /\ Start(RoleOf(runState), NextAttempt(RoleOf(runState)))
    /\ pc' = "invoking"
    /\ UNCHANGED <<runState, events, checks, head, repair, crashes>>

\* The result about to be acted on: the one just returned, after the invoke
\* method's check that it is not blocked, or a stored one, without that check.
ResultInHand ==
    \/ /\ pc = "returned"
       /\ runState # "reviewing" => LatestResult(runState).verdict # "blocked"
    \/ /\ pc = "drive"
       /\ runState \in RoleStates
       /\ RecordsConsistent(runState)
       /\ HasResult(runState)

AdoptPlanning ==
    /\ ResultInHand
    /\ \/ runState = "planning" /\
          Accept("plan_proposed", "planner", LatestResult(runState).attempt, NoCommit)
       \/ runState = "challenging" /\
          Accept("plan_challenged", "implementer", LatestResult(runState).attempt, NoCommit)
       \/ runState = "finalizing" /\
          Accept("plan_finalized", "planner", LatestResult(runState).attempt, NoCommit)
    /\ pc' = "publish"
    /\ UNCHANGED <<invocations, checks, head, repair, crashes>>

AdoptImplementation ==
    /\ ResultInHand
    /\ runState = "implementing"
    /\ pc' = "materialize"
    /\ UNCHANGED <<durableVars, repair, crashes>>

FaultyRevisionsExhausted ==   \* one revision too many
    Cardinality(EventsOf({"revision_required"})) > MaxRevisionCycles

RevisionsExhausted ==
    Cardinality(EventsOf({"revision_required"})) >= MaxRevisionCycles

AdoptReview ==
    /\ ResultInHand
    /\ runState = "reviewing"
    /\ LET review == LatestResult(runState)
       IN  \/ /\ review.verdict = "approved"
              /\ Accept("review_approved", "reviewer", review.attempt, NoCommit)
           \/ /\ review.verdict = "revision_required"
              /\ ~RevisionsExhausted
              /\ Accept("revision_required", "reviewer", review.attempt, PriorCandidate)
    /\ pc' = "publish"
    /\ UNCHANGED <<invocations, checks, head, repair, crashes>>

\* A returned blocked result, a blocked review or one revision too many.
RefuseResult ==
    /\ \/ /\ pc = "returned"
          /\ LatestResult(runState).verdict = "blocked"
       \/ /\ ResultInHand
          /\ runState = "reviewing"
          /\ \/ LatestResult(runState).verdict = "blocked"
             \/ /\ LatestResult(runState).verdict = "revision_required"
                /\ RevisionsExhausted
    /\ pc' = "failing"
    /\ UNCHANGED <<durableVars, repair, crashes>>

\* States in which _ensure_worktree creates or retargets a tree, and awaits Git.
AwaitsWorktree == runState \in {"planning", "challenging", "reviewing", "verifying"}

\* A worktree command fails, the records do not fit, or no invocation is left.
DriveFailed ==
    /\ pc = "drive"
    /\ \/ AwaitsWorktree
       \/ ~RecordsConsistent(runState)
       \/ runState \in RoleStates /\ ~HasResult(runState) /\ ~MayInvoke(RoleOf(runState))
       \/ runState = "ready" /\ ~MayInvoke("implementer")
    /\ pc' = "failing"
    /\ UNCHANGED <<durableVars, repair, crashes>>

(***************************************************************************)
(* _invoke and _invoke_with_schema_repair                                  *)
(***************************************************************************)

VerdictsOf(state) ==
    CASE state \in {"planning", "challenging", "finalizing"} -> {"accepted", "blocked"}
      [] state = "implementing" -> {"changes_ready", "candidate_committed", "blocked"}
      [] state = "reviewing" -> {"approved", "revision_required", "blocked"}

InvocationSucceeded ==
    /\ pc = "invoking"
    /\ \E verdict \in VerdictsOf(runState) : Finish("succeeded", verdict)
    /\ ModelMayCommit
    /\ repair' = 0
    /\ pc' = "returned"
    /\ UNCHANGED <<runState, events, checks, crashes>>

RepairsExhausted == repair >= MaxSchemaRepairs

\* RoleResultValidationError: the answer does not match its schema.
InvocationMalformed ==
    /\ pc = "invoking"
    /\ Finish("failed", "none")
    /\ ModelMayCommit
    /\ IF RepairsExhausted
         THEN pc' = "failing" /\ repair' = 0
         ELSE pc' = "repairing" /\ repair' = repair + 1
    /\ UNCHANGED <<runState, events, checks, crashes>>

\* first attempt + repair_index: the attempt after the one just failed, without asking
\* _next_invocation_attempt again.
RepairAttempt(own) == own[Len(own)].attempt + 1

RepairInvocation ==
    /\ pc = "repairing"
    /\ LET role == RoleOf(runState)
       IN  Start(role, RepairAttempt(invocations[role]))
    /\ pc' = "invoking"
    /\ UNCHANGED <<runState, events, checks, head, repair, crashes>>

\* Any other failure: exit status, timeout, output limit, protocol or transport.
InvocationFailed ==
    /\ pc = "invoking"
    /\ Finish("failed", "none")
    /\ ModelMayCommit
    /\ repair' = 0
    /\ pc' = "failing"
    /\ UNCHANGED <<runState, events, checks, crashes>>

(***************************************************************************)
(* _materialize_candidate, _publish_candidate_handoff and the candidate    *)
(***************************************************************************)

\* changes_ready on an unmoved branch: commit_pending_changes.
CommitPending ==
    /\ pc = "materialize"
    /\ LatestResult(runState).verdict = "changes_ready"
    /\ head = PriorCandidate
    /\ head' = head + 1
    /\ pc' = "handoff"
    /\ UNCHANGED <<runState, events, invocations, checks, repair, crashes>>

\* The branch moved already, by an earlier materialization or by the model: validate
\* its commit.  It must change something with respect to the base commit.
ValidateCommitted ==
    /\ pc = "materialize"
    /\ \/ LatestResult(runState).verdict = "changes_ready" /\ head # PriorCandidate
       \/ LatestResult(runState).verdict = "candidate_committed" /\ head # BaseCommit
    /\ pc' = "handoff"
    /\ UNCHANGED <<durableVars, repair, crashes>>

AcceptCandidate ==
    /\ pc = "handoff"
    /\ Accept("implementation_ready", "implementer", LatestResult(runState).attempt, head)
    /\ pc' = "publish"
    /\ UNCHANGED <<invocations, checks, head, repair, crashes>>

(***************************************************************************)
(* Verification                                                            *)
(***************************************************************************)

RecordedChecks == {c \in checks : c.candidate = PriorCandidate}

DriveVerify ==
    /\ pc = "drive"
    /\ runState = "verifying"
    /\ RecordsConsistent(runState)
    /\ RecordedChecks = {}
    /\ pc' = "verifying"
    /\ UNCHANGED <<durableVars, repair, crashes>>

RecordChecks ==
    /\ pc = "verifying"
    /\ \E passed \in BOOLEAN :
          checks' = checks \cup {[candidate |-> PriorCandidate, passed |-> passed]}
    /\ pc' = "verified"
    /\ UNCHANGED <<runState, events, invocations, head, repair, crashes>>

FaultyVerificationEvent(suite) == "verification_passed"

VerificationEvent(suite) ==
    IF suite.passed THEN "verification_passed" ELSE "verification_failed"

\* _emit_verification, from the suite just run or from the recorded one.
EmitVerification ==
    /\ \/ pc = "verified"
       \/ /\ pc = "drive"
          /\ runState = "verifying"
          /\ RecordsConsistent(runState)
    /\ \E suite \in RecordedChecks :
          Accept(VerificationEvent(suite), "verifier", 1, PriorCandidate)
    /\ pc' = "publish"
    /\ UNCHANGED <<invocations, checks, head, repair, crashes>>

FaultyStepFailed ==   \* the supervisor gives up without a terminal event
    /\ pc \in {"restore", "materialize", "handoff", "verifying"}
    /\ pc' = "exited"
    /\ UNCHANGED <<durableVars, repair, crashes>>

\* A Git command, the collaboration hand-off or the verifier raises.
StepFailed ==
    /\ pc \in {"restore", "materialize", "handoff", "verifying"}
    /\ pc' = "failing"
    /\ UNCHANGED <<durableVars, repair, crashes>>

(***************************************************************************)
(* Deadline, cancellation and _terminalize_run                             *)
(***************************************************************************)

\* asyncio.timeout fires (the handler will accept run_failed) or the supervisor's task
\* is canceled (run_canceled) at an await.  cancel() has no handler of its own.
Interrupt(handler) ==
    /\ \/ pc \in {"publish", "reconcile", "reconcile_cancel", "restore", "invoking",
                  "materialize", "handoff", "verifying"}
       \/ pc = "drive" /\ AwaitsWorktree
    /\ IF pc = "invoking"
         THEN Finish("canceled", "none") /\ ModelMayCommit
         ELSE UNCHANGED <<invocations, head>>
    /\ pc' = IF pc = "reconcile_cancel" THEN "exited" ELSE handler
    /\ repair' = 0
    /\ UNCHANGED <<runState, events, checks, crashes>>

Unpublished == {i \in DOMAIN events : events[i].status # "published"}

\* list_event_records: a terminal event waits behind an unpublished one.
FinalStage == IF Unpublished # {} THEN "exited" ELSE "publish_final"

Terminalize ==
    /\ pc \in {"failing", "canceling"}
    /\ IF IsTerminal
         THEN pc' = "exited" /\ UNCHANGED <<runState, events>>
         ELSE /\ Accept(IF pc = "failing" THEN "run_failed" ELSE "run_canceled",
                        "supervisor", 1, NoCommit)
              /\ pc' = FinalStage
    /\ UNCHANGED <<invocations, checks, head, repair, crashes>>

\* The terminal event is published, refused or left unknown; or the publication is
\* itself interrupted, and the event stays as it was accepted.
FinalPublish ==
    /\ pc = "publish_final"
    /\ \/ \E status \in {"published", "uncertain", "failed"} : Mark(Len(events), status)
       \/ UNCHANGED events
    /\ pc' = "exited"
    /\ UNCHANGED <<runState, invocations, checks, head, repair, crashes>>

(***************************************************************************)
(* resume, cancel and reconcile_transports                                 *)
(***************************************************************************)

\* resume on a stopped run, within its deadline or past it.
Resume ==
    /\ pc = "exited"
    /\ \/ pc' = "reconcile"
       \/ ~IsTerminal /\ pc' = "failing"
    /\ UNCHANGED <<durableVars, repair, crashes>>

\* cancel on a stopped run: refused while an invocation has no known outcome.
CancelIdle ==
    /\ pc = "exited"
    /\ ~IsTerminal
    /\ \A role \in ModelRoles : \A i \in DOMAIN invocations[role] :
          invocations[role][i].status # "started"
    /\ pc' = "reconcile_cancel"
    /\ UNCHANGED <<durableVars, repair, crashes>>

\* The transports are visited in order and a failure ends the pass, so the event at
\* hand is always the first one not yet published.
FirstUnpublished == CHOOSE i \in Unpublished : \A j \in Unpublished : i <= j

\* Read back (an uncertain write) or published now.
ReconcileEvent ==
    /\ pc \in {"reconcile", "reconcile_cancel"}
    /\ Unpublished # {}
    /\ Mark(FirstUnpublished, "published")
    /\ UNCHANGED <<runState, invocations, checks, head, pc, repair, crashes>>

\* The read-back fails or finds a broken room (an uncertain event stays so), or
\* the publication is refused or of unknown outcome.
ReconcileFailed ==
    /\ pc \in {"reconcile", "reconcile_cancel"}
    /\ Unpublished # {}
    /\ \/ \E status \in {"uncertain", "failed"} : Mark(FirstUnpublished, status)
       \/ events[FirstUnpublished].status = "uncertain" /\ UNCHANGED events
    /\ pc' = IF pc = "reconcile" THEN "failing" ELSE "exited"
    /\ UNCHANGED <<runState, invocations, checks, head, repair, crashes>>

ReconcileDone ==
    /\ Unpublished = {}
    /\ \/ pc = "reconcile" /\ pc' = IF IsTerminal THEN "exited" ELSE "restore"
       \/ pc = "reconcile_cancel" /\ pc' = "canceling"
    /\ UNCHANGED <<durableVars, repair, crashes>>

\* _restore_worktrees: every recorded tree is found clean at its commit.
Restore ==
    /\ pc = "restore"
    /\ pc' = "drive"
    /\ UNCHANGED <<durableVars, repair, crashes>>

\* The supervisor process dies; only its durable records remain.
Crash ==
    /\ pc # "exited"
    /\ crashes < MaxCrashes
    /\ crashes' = crashes + 1
    /\ pc' = "exited"
    /\ repair' = 0
    /\ UNCHANGED durableVars

(***************************************************************************)
(* Specification                                                           *)
(***************************************************************************)

\* run() has just committed create_run.
Init ==
    /\ runState = "created"
    /\ events = << >>
    /\ invocations = [role \in ModelRoles |-> << >>]
    /\ checks = {}
    /\ head = BaseCommit
    /\ pc = "drive"
    /\ repair = 0
    /\ crashes = 0

SupervisorStep ==
    \/ EmitPublished \/ EmitFailed
    \/ DriveSupervisor \/ DriveInvoke \/ DriveVerify \/ DriveFailed
    \/ InvocationSucceeded \/ InvocationMalformed \/ RepairInvocation \/ InvocationFailed
    \/ AdoptPlanning \/ AdoptImplementation \/ AdoptReview \/ RefuseResult
    \/ CommitPending \/ ValidateCommitted \/ AcceptCandidate
    \/ RecordChecks \/ EmitVerification \/ StepFailed
    \/ Terminalize \/ FinalPublish
    \/ ReconcileEvent \/ ReconcileFailed \/ ReconcileDone \/ Restore

Next ==
    \/ SupervisorStep
    \/ \E handler \in {"failing", "canceling"} : Interrupt(handler)
    \/ Resume
    \/ CancelIdle
    \/ Crash

Spec == Init /\ [][Next]_vars

\* The event loop keeps running the coroutine: every await is bounded by a timeout.
\* An operator who resumes a stopped run again and again is served in the end.
FairSpec ==
    /\ Spec
    /\ WF_vars(SupervisorStep)
    /\ SF_vars(Resume)
=============================================================================
