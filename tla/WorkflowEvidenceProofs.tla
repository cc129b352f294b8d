----------------------- MODULE WorkflowEvidenceProofs -----------------------
(***************************************************************************)
(* Proofs about the evidence that Workflow leaves: its records fit         *)
(* together, each event cites its own result, and a completed run rests on *)
(* one commit that was reviewed, verified and is on the branch.            *)
(***************************************************************************)
EXTENDS WorkflowProofs

(***************************************************************************)
(* The invariant                                                           *)
(***************************************************************************)

\* The kinds of events that account for the results that a state works with.
CheckpointsOf(state) ==
    CASE state \in {"planning", "finalizing"} -> {"plan_proposed", "plan_finalized"}
      [] state = "challenging" -> {"plan_challenged"}
      [] state = "implementing" -> {"implementation_ready"}
      [] state = "reviewing" -> {"revision_required", "review_approved"}

Count(kinds) == Cardinality(EventsOf(kinds))

SenderFacts == \A i \in DOMAIN events : events[i].sender = ExpectedSender[events[i].kind]

BeforePlan == {"created", "planning"}
BeforeChallenge == {"created", "planning", "challenging"}
BeforeReady == {"created", "planning", "challenging", "finalizing"}

\* How many checkpoints a run that goes on has, of which kinds.
CountFacts ==
    ~IsTerminal =>
        /\ Count({"plan_proposed"}) = IF runState \in BeforePlan THEN 0 ELSE 1
        /\ Count({"plan_challenged"}) = IF runState \in BeforeChallenge THEN 0 ELSE 1
        /\ Count({"plan_finalized"}) = IF runState \in BeforeReady THEN 0 ELSE 1
        /\ Count({"plan_proposed", "plan_finalized"}) =
              IF runState \in BeforePlan THEN 0 ELSE IF runState \in BeforeReady THEN 1 ELSE 2
        /\ Count({"implementation_ready"}) =
              IF runState \in {"reviewing", "verifying"} THEN Count({"revision_required"}) + 1
                                                         ELSE Count({"revision_required"})

\* In a run that goes on the checkpoints account for every stored result, but for one more
\* of the role that the state waits for.
SameWork(state) == runState \in RoleStates /\ PhasesOf(state) = PhasesOf(runState)

ResultFacts ==
    ~IsTerminal => \A state \in RoleStates :
        \/ Cardinality(Results(state)) = Count(CheckpointsOf(state))
        \/ /\ SameWork(state)
           /\ Cardinality(Results(state)) = Count(CheckpointsOf(state)) + 1

StoredFacts ==
    pc \in {"returned", "materialize", "handoff"} => HasResult(runState)

\* Each event of a model role cites a result, one that is not yet accounted for is later
\* than those cited, and no two cite the same.
CiteFacts ==
    \A i \in ModelEvents : \E n \in DOMAIN invocations[events[i].sender] :
        LET inv == invocations[events[i].sender][n]
        IN  inv.attempt = events[i].attempt /\ inv.status = "succeeded"
            /\ Supports(inv.verdict, events[i].kind)

NewerFacts ==
    runState \in RoleStates /\ HasResult(runState) =>
        \A i \in ModelEvents : events[i].sender = RoleOf(runState) =>
            events[i].attempt < LatestResult(runState).attempt

OnceFacts ==
    \A i, j \in ModelEvents :
        events[i].sender = events[j].sender /\ events[i].attempt = events[j].attempt => i = j

\* Candidates are commits of the branch; the one that is reviewed is its last.
CandidateFacts ==
    /\ \A i \in EventsOf({"implementation_ready"}) : events[i].candidate \in 1 .. head
    /\ pc = "handoff" => head # BaseCommit
    /\ runState \in {"reviewing", "verifying", "completed"} =>
          EventsOf({"implementation_ready"}) # {} /\ head = PriorCandidate

\* The review at hand is of the last candidate, and so is the one that approved it.
ReviewFacts ==
    /\ runState = "reviewing" =>
          /\ pc = "invoking" => LastOf("reviewer").commit = PriorCandidate
          /\ HasResult(runState) => LatestResult(runState).commit = PriorCandidate
    /\ runState \in {"verifying", "completed"} => ApprovedAt(PriorCandidate)

\* One suite is recorded, for the approved candidate.
Suite(passed) == [candidate |-> PriorCandidate, passed |-> passed]

CheckFacts ==
    /\ runState \notin TerminalStates \cup {"verifying"} => checks = {}
    /\ pc = "verifying" => checks = {}
    /\ runState = "verifying" => \E passed \in BOOLEAN : checks \subseteq {Suite(passed)}
    /\ runState = "completed" => checks = {Suite(TRUE)}

EvidenceInv ==
    /\ SenderFacts /\ CountFacts /\ ResultFacts /\ StoredFacts
    /\ CiteFacts /\ NewerFacts /\ OnceFacts
    /\ CandidateFacts /\ ReviewFacts /\ CheckFacts

USE LimitsAssumption

(***************************************************************************)
(* What a step does to the records                                         *)
(***************************************************************************)

\* An event of a model role cites the result that its state waited for.
Cites(kind, sender, attempt) ==
    sender \in ModelRoles =>
        /\ runState \in RoleStates
        /\ sender = RoleOf(runState)
        /\ kind \in CheckpointsOf(runState)
        /\ HasResult(runState)
        /\ attempt = LatestResult(runState).attempt
        /\ Supports(LatestResult(runState).verdict, kind)

Adopts(kind, sender, attempt, candidate) ==
    /\ Accept(kind, sender, attempt, candidate)
    /\ Cites(kind, sender, attempt)
    /\ kind = "implementation_ready" => candidate = head /\ head # BaseCommit
    /\ kind = "verification_passed" => Suite(TRUE) \in checks
    /\ pc' \in {"publish", "publish_final", "exited"}
    /\ UNCHANGED <<invocations, checks, head>>

Adoption ==
    \E kind \in EventKinds, sender \in Roles, attempt \in Nat, candidate \in Nat :
        Adopts(kind, sender, attempt, candidate)

Launch == DriveInvoke \/ RepairInvocation

Answer ==
    /\ pc = "invoking"
    /\ \/ /\ pc' = "returned"
          /\ \E verdict \in Verdicts : Finish("succeeded", verdict)
       \/ /\ pc' \in {"repairing", "failing", "canceling"}
          /\ \E status \in {"failed", "canceled"} : Finish(status, "none")
    /\ ModelMayCommit
    /\ UNCHANGED <<runState, events, checks, crashes>>

\* Steps that leave the events but for their transport, and the invocations, as they are.
Rest ==
    /\ MarkedOnly
    /\ UNCHANGED invocations
    /\ pc' = "invoking" => pc = "invoking"
    /\ pc' \in {"returned", "materialize", "handoff"} => HasResult(runState)
    /\ pc' = "handoff" => head' # BaseCommit
    /\ UNCHANGED head \/ (runState = "implementing" /\ head' = head + 1)
    /\ \/ UNCHANGED checks
       \/ runState = "verifying" /\ checks = {} /\ \E passed \in BOOLEAN : checks' = {Suite(passed)}
    /\ pc' = "verifying" => checks' = {}

\* The set of candidates' checks is the whole set, in a run that is being verified.
LEMMA ChecksRecorded ==
    ASSUME CheckFacts, runState = "verifying"
    PROVE  RecordedChecks = checks
<1>1. PICK passed \in BOOLEAN : checks \subseteq {Suite(passed)}
  BY DEF CheckFacts
<1>. QED  BY <1>1 DEF RecordedChecks, Suite

\* A result in hand is one that no checkpoint accounts for.
LEMMA InHandIsNew ==
    ASSUME BaseInv, StoredFacts, ResultInHand
    PROVE  HasResult(runState) /\ runState \in RoleStates
BY DEF ResultInHand, StoredFacts, BaseInv, StageFacts

LEMMA AdoptionSteps ==
    ASSUME BaseInv, EvidenceInv,
           \/ DriveSupervisor \/ AdoptPlanning \/ AdoptReview \/ AcceptCandidate
           \/ EmitVerification \/ (Terminalize /\ ~IsTerminal)
    PROVE  Adoption
<1>. USE DEF EventKinds, ExpectedSender, Roles, NoCommit, ModelRoles, EvidenceInv
<1>1. CASE DriveSupervisor
  <2>1. NextAttempt("implementer") \in Nat
    BY NextAttemptCounts DEF BaseInv, TypeOK
  <2>2. PICK kind \in {"run_started", "implementation_started"}, attempt \in Nat :
             Accept(kind, "supervisor", attempt, NoCommit)
    BY <1>1, <2>1 DEF DriveSupervisor
  <2>3. Adopts(kind, "supervisor", attempt, NoCommit)
    BY <1>1, <2>2 DEF DriveSupervisor, Adopts, Cites
  <2>. QED  BY <2>2, <2>3 DEF Adoption
<1>2. CASE AdoptPlanning
  <2>1. /\ LatestResult(runState).attempt \in Nat
        /\ HasResult(runState) /\ runState \in RoleStates
    BY <1>2, ResultInHandStored, InHandIsNew DEF AdoptPlanning, Invocation
  <2>2. PICK kind \in {"plan_proposed", "plan_challenged", "plan_finalized"},
             sender \in {"planner", "implementer"} :
             /\ Accept(kind, sender, LatestResult(runState).attempt, NoCommit)
             /\ sender = RoleOf(runState) /\ kind \in CheckpointsOf(runState)
    BY <1>2 DEF AdoptPlanning, RoleOf, CheckpointsOf
  <2>3. Adopts(kind, sender, LatestResult(runState).attempt, NoCommit)
    BY <1>2, <2>1, <2>2 DEF AdoptPlanning, Adopts, Cites, Supports
  <2>. QED  BY <2>1, <2>2, <2>3 DEF Adoption
<1>3. CASE AdoptReview
  <2>1. /\ LatestResult(runState).attempt \in Nat /\ PriorCandidate \in Nat
        /\ HasResult(runState) /\ runState \in RoleStates
    BY <1>3, ResultInHandStored, InHandIsNew, PriorCandidateType
       DEF AdoptReview, Invocation, BaseInv, TypeOK
  <2>2. PICK kind \in {"review_approved", "revision_required"}, candidate \in Nat :
             /\ Accept(kind, "reviewer", LatestResult(runState).attempt, candidate)
             /\ Supports(LatestResult(runState).verdict, kind)
    BY <1>3, <2>1 DEF AdoptReview, Supports
  <2>3. "reviewer" = RoleOf(runState) /\ kind \in CheckpointsOf(runState)
    BY <1>3, <2>2 DEF AdoptReview, RoleOf, CheckpointsOf
  <2>4. Adopts(kind, "reviewer", LatestResult(runState).attempt, candidate)
    BY <1>3, <2>1, <2>2, <2>3 DEF AdoptReview, Adopts, Cites
  <2>. QED  BY <2>1, <2>2, <2>4 DEF Adoption
<1>4. CASE AcceptCandidate
  <2>1. runState = "implementing" /\ Results(runState) # {} /\ head \in Nat /\ HasResult(runState)
    BY <1>4 DEF AcceptCandidate, BaseInv, StageFacts, TypeOK, StoredFacts
  <2>2. LatestResult(runState).attempt \in Nat /\ runState \in RoleStates
    BY <2>1, LatestResultType DEF BaseInv, TypeOK, RoleStates, Invocation
  <2>3. "implementer" = RoleOf(runState) /\ "implementation_ready" \in CheckpointsOf(runState)
    BY <2>1 DEF RoleOf, CheckpointsOf
  <2>4. Adopts("implementation_ready", "implementer", LatestResult(runState).attempt, head)
    BY <1>4, <2>1, <2>2, <2>3 DEF AcceptCandidate, Adopts, Cites, Supports, CandidateFacts
  <2>. QED  BY <2>1, <2>2, <2>4 DEF Adoption
<1>5. CASE EmitVerification
  <2>1. runState = "verifying" /\ PriorCandidate \in Nat /\ RecordedChecks = checks
    BY <1>5, PriorCandidateType, ChecksRecorded DEF EmitVerification, BaseInv, StageFacts, TypeOK
  <2>2. PICK suite \in checks : Accept(VerificationEvent(suite), "verifier", 1, PriorCandidate)
    BY <1>5, <2>1 DEF EmitVerification
  <2>3. suite.passed => suite = Suite(TRUE)
    BY <2>1, <2>2 DEF CheckFacts, Suite
  <2>4. /\ VerificationEvent(suite) \in {"verification_passed", "verification_failed"}
        /\ VerificationEvent(suite) = "verification_passed" => suite.passed
    BY DEF VerificationEvent
  <2>5. Adopts(VerificationEvent(suite), "verifier", 1, PriorCandidate)
    BY <1>5, <2>2, <2>3, <2>4 DEF EmitVerification, Adopts, Cites
  <2>. QED  BY <2>1, <2>4, <2>5 DEF Adoption
<1>6. CASE Terminalize /\ ~IsTerminal
  <2>1. PICK kind \in {"run_failed", "run_canceled"} : Accept(kind, "supervisor", 1, NoCommit)
    BY <1>6 DEF Terminalize
  <2>2. Adopts(kind, "supervisor", 1, NoCommit)
    BY <1>6, <2>1 DEF Terminalize, FinalStage, Adopts, Cites
  <2>. QED  BY <2>1, <2>2 DEF Adoption
<1>. QED  BY <1>1, <1>2, <1>3, <1>4, <1>5, <1>6

LEMMA AnswerStages ==
    ASSUME BaseInv,
           \/ InvocationSucceeded \/ InvocationMalformed \/ InvocationFailed
           \/ \E handler \in {"failing", "canceling"} : pc = "invoking" /\ Interrupt(handler)
    PROVE  Answer
<1>1. CASE InvocationSucceeded
  <2>1. VerdictsOf(runState) \subseteq Verdicts
    BY <1>1, RunningInvocation, VerdictsType DEF InvocationSucceeded
  <2>. QED  BY <1>1, <2>1 DEF InvocationSucceeded, Answer
<1>2. CASE InvocationMalformed \/ InvocationFailed
  BY <1>2 DEF InvocationMalformed, InvocationFailed, Answer
<1>3. ASSUME NEW handler \in {"failing", "canceling"}, pc = "invoking", Interrupt(handler)
      PROVE  Answer
  BY <1>3 DEF Interrupt, Answer
<1>. QED  BY <1>1, <1>2, <1>3

LEMMA CandidateStages ==
    ASSUME BaseInv, EvidenceInv, AdoptImplementation \/ CommitPending \/ ValidateCommitted
    PROVE  Rest
<1>1. CASE AdoptImplementation
  BY <1>1, InHandIsNew DEF EvidenceInv, AdoptImplementation, Rest, MarkedOnly, durableVars
<1>2. CASE CommitPending \/ ValidateCommitted
  <2>1. HasResult(runState) /\ runState = "implementing" /\ head \in Nat
    BY <1>2 DEF CommitPending, ValidateCommitted, BaseInv, TypeOK, StageFacts, EvidenceInv, StoredFacts
  <2>2. head # PriorCandidate => head # BaseCommit
    <3>1. CASE EventsOf({"implementation_ready"}) = {}
      BY <3>1 DEF PriorCandidate
    <3>2. CASE EventsOf({"implementation_ready"}) # {}
      <4>1. PICK i \in EventsOf({"implementation_ready"}) : TRUE
        BY <3>2
      <4>. QED  BY <2>1, <4>1 DEF EvidenceInv, CandidateFacts, BaseCommit
    <3>. QED  BY <3>1, <3>2
  <2>3. CASE CommitPending
    <3>1. head' # BaseCommit /\ head' = head + 1
      BY <2>1, <2>3 DEF CommitPending, BaseCommit
    <3>. QED  BY <2>1, <2>3, <3>1 DEF CommitPending, Rest, MarkedOnly
  <2>4. CASE ValidateCommitted
    BY <2>1, <2>2, <2>4 DEF ValidateCommitted, Rest, MarkedOnly, durableVars
  <2>. QED  BY <1>2, <2>3, <2>4
<1>. QED  BY <1>1, <1>2

LEMMA RestStages ==
    ASSUME BaseInv, EvidenceInv,
           \/ EmitPublished \/ EmitFailed \/ FinalPublish \/ ReconcileEvent \/ ReconcileFailed
           \/ RefuseResult \/ DriveFailed \/ StepFailed \/ Resume \/ CancelIdle
           \/ ReconcileDone \/ Restore \/ Crash \/ (Terminalize /\ IsTerminal)
           \/ DriveVerify \/ RecordChecks \/ UNCHANGED vars
           \/ \E handler \in {"failing", "canceling"} : pc # "invoking" /\ Interrupt(handler)
    PROVE  Rest
<1>1. CASE EmitPublished \/ EmitFailed \/ FinalPublish
  <2>1. Len(events) \in Nat
    BY DEF BaseInv, TypeOK
  <2>. QED  BY <1>1, <2>1 DEF EmitPublished, EmitFailed, FinalPublish, Rest, MarkedOnly, TransportStatuses
<1>2. CASE ReconcileEvent \/ ReconcileFailed
  <2>1. Unpublished # {} /\ Unpublished \in SUBSET Nat
    BY <1>2 DEF ReconcileEvent, ReconcileFailed, Unpublished, BaseInv, TypeOK
  <2>. QED  BY <1>2, <2>1, FirstUnpublishedNat
            DEF ReconcileEvent, ReconcileFailed, Rest, MarkedOnly, TransportStatuses
<1>3. CASE \/ RefuseResult \/ DriveFailed \/ StepFailed \/ Resume \/ CancelIdle
           \/ ReconcileDone \/ Restore \/ Crash \/ (Terminalize /\ IsTerminal)
  BY <1>3 DEF RefuseResult, DriveFailed, StepFailed, Resume, CancelIdle, ReconcileDone,
              Restore, Crash, Terminalize, Rest, MarkedOnly, durableVars
<1>4. CASE DriveVerify
  <2>1. checks = {}
    BY <1>4, ChecksRecorded DEF DriveVerify, EvidenceInv
  <2>. QED  BY <1>4, <2>1 DEF DriveVerify, Rest, MarkedOnly, durableVars
<1>5. CASE RecordChecks
  <2>1. checks = {} /\ runState = "verifying"
    BY <1>5 DEF RecordChecks, EvidenceInv, CheckFacts, BaseInv, StageFacts
  <2>. QED  BY <1>5, <2>1 DEF RecordChecks, Rest, MarkedOnly, Suite
<1>6. CASE UNCHANGED vars
  BY <1>6 DEF vars, durableVars, Rest, MarkedOnly, EvidenceInv, StoredFacts, CandidateFacts, CheckFacts
<1>7. ASSUME NEW handler \in {"failing", "canceling"}, pc # "invoking", Interrupt(handler)
      PROVE  Rest
  BY <1>7 DEF Interrupt, Rest, MarkedOnly
<1>. QED  BY <1>1, <1>2, <1>3, <1>4, <1>5, <1>6, <1>7

\* A step accepts an event, launches a model, takes its answer, or does none of these.
LEMMA EvidenceSteps ==
    ASSUME BaseInv, EvidenceInv, [Next]_vars
    PROVE  Adoption \/ Launch \/ Answer \/ Rest
BY AdoptionSteps, AnswerStages, CandidateStages, RestStages DEF Next, SupervisorStep, Launch

(***************************************************************************)
(* Effects on events and results                                           *)
(***************************************************************************)

\* Accepting adds an event behind the others, from the sender of its kind.
LEMMA AdoptionAppends ==
    ASSUME BaseInv, NEW kind \in EventKinds, NEW sender \in Roles, NEW attempt \in Nat,
           NEW candidate \in Nat, Adopts(kind, sender, attempt, candidate)
    PROVE  /\ ~IsTerminal /\ Applies(runState, kind, sender, runState')
           /\ sender = ExpectedSender[kind]
           /\ Len(events) \in Nat
           /\ DOMAIN events = 1 .. Len(events)
           /\ DOMAIN events' = 1 .. (Len(events) + 1)
           /\ events'[Len(events) + 1] =
                 [kind |-> kind, sender |-> sender, attempt |-> attempt,
                  candidate |-> candidate, status |-> "local_pending"]
           /\ \A i \in DOMAIN events : events'[i] = events[i]
<1>. DEFINE event == [kind |-> kind, sender |-> sender, attempt |-> attempt,
                      candidate |-> candidate, status |-> "local_pending"]
<1>1. /\ runState' \in RunStates /\ Applies(runState, kind, sender, runState')
      /\ events' = Append(events, event)
  BY DEF Adopts, Accept
<1>2. ~IsTerminal /\ sender = ExpectedSender[kind]
  BY <1>1 DEF Applies, IsTerminal
<1>3. events \in Seq(Event)
  BY DEF BaseInv, TypeOK
<1>. HIDE DEF event
<1>4. /\ Len(events) \in Nat /\ DOMAIN events = 1 .. Len(events)
      /\ DOMAIN events' = 1 .. (Len(events) + 1) /\ events'[Len(events) + 1] = event
      /\ \A i \in DOMAIN events : events'[i] = events[i]
  BY <1>1, <1>3
<1>. QED  BY <1>1, <1>2, <1>4 DEF event

LEMMA AdoptionAdds ==
    ASSUME BaseInv, NEW kind \in EventKinds, NEW sender \in Roles, NEW attempt \in Nat,
           NEW candidate \in Nat, Adopts(kind, sender, attempt, candidate), NEW CONSTANT kinds
    PROVE  /\ EventsOf(kinds)' = IF kind \in kinds THEN EventsOf(kinds) \cup {Len(events) + 1}
                                                  ELSE EventsOf(kinds)
           /\ Count(kinds) \in Nat
           /\ Count(kinds)' = IF kind \in kinds THEN Count(kinds) + 1 ELSE Count(kinds)
<1>. DEFINE n == Len(events)
<1>1. /\ n \in Nat /\ DOMAIN events = 1 .. n /\ DOMAIN events' = 1 .. (n + 1)
      /\ events'[n + 1].kind = kind
      /\ \A i \in DOMAIN events : events'[i] = events[i]
  <2>1. /\ Len(events) \in Nat /\ DOMAIN events = 1 .. Len(events)
        /\ DOMAIN events' = 1 .. (Len(events) + 1)
        /\ events'[Len(events) + 1] =
              [kind |-> kind, sender |-> sender, attempt |-> attempt,
               candidate |-> candidate, status |-> "local_pending"]
        /\ \A i \in DOMAIN events : events'[i] = events[i]
    BY AdoptionAppends, Zenon
  <2>. QED  BY <2>1
<1>. HIDE DEF n
<1>2. n + 1 \notin DOMAIN events /\ DOMAIN events' = DOMAIN events \cup {n + 1}
  BY <1>1
<1>3. EventsOf(kinds)' = IF kind \in kinds THEN EventsOf(kinds) \cup {n + 1} ELSE EventsOf(kinds)
  BY <1>1, <1>2 DEF EventsOf
<1>4. IsFiniteSet(EventsOf(kinds)) /\ Cardinality(EventsOf(kinds)) \in Nat
  BY EventsOfFinite DEF BaseInv, TypeOK
<1>5. n + 1 \notin EventsOf(kinds)
  BY <1>2 DEF EventsOf
<1>6. Cardinality(EventsOf(kinds) \cup {n + 1}) = Cardinality(EventsOf(kinds)) + 1
  BY <1>4, <1>5, FS_AddElement
<1>. QED  BY <1>3, <1>4, <1>6 DEF Count, n

\* Marking keeps kinds, senders, attempts and candidates.
LEMMA MarkedEvents ==
    ASSUME BaseInv, MarkedOnly
    PROVE  /\ runState' = runState
           /\ DOMAIN events' = DOMAIN events
           /\ \A i \in DOMAIN events :
                 /\ events'[i].kind = events[i].kind /\ events'[i].sender = events[i].sender
                 /\ events'[i].attempt = events[i].attempt
                 /\ events'[i].candidate = events[i].candidate
<1>1. runState' = runState /\ events \in Seq(Event)
  BY DEF MarkedOnly, BaseInv, TypeOK
<1>2. CASE events' = events
  BY <1>1, <1>2
<1>3. ASSUME NEW n \in Nat, NEW status \in TransportStatuses, Mark(n, status)
      PROVE  /\ DOMAIN events' = DOMAIN events
             /\ \A i \in DOMAIN events :
                   /\ events'[i].kind = events[i].kind /\ events'[i].sender = events[i].sender
                   /\ events'[i].attempt = events[i].attempt
                   /\ events'[i].candidate = events[i].candidate
  <2>1. events' \in Seq(Event) /\ Len(events') = Len(events)
    BY <1>1, <1>3, MarkKeeps
  <2>2. DOMAIN events = 1 .. Len(events) /\ DOMAIN events' = DOMAIN events
    BY <1>1, <2>1
  <2>. QED  BY <1>1, <1>3, <2>2, MarkKeeps
<1>. QED  BY <1>1, <1>2, <1>3 DEF MarkedOnly

LEMMA MarkedKeeps ==
    ASSUME BaseInv, MarkedOnly
    PROVE  /\ ModelEvents' = ModelEvents
           /\ PriorCandidate' = PriorCandidate
           /\ \A kinds : Count(kinds)' = Count(kinds) /\ EventsOf(kinds)' = EventsOf(kinds)
<1>1. ASSUME NEW CONSTANT kinds PROVE EventsOf(kinds)' = EventsOf(kinds)
  BY MarkedEvents DEF EventsOf
<1>2. ModelEvents' = ModelEvents
  BY MarkedEvents DEF ModelEvents
<1>3. PriorCandidate' = PriorCandidate
  <2>. DEFINE ready == EventsOf({"implementation_ready"})
  <2>1. ready' = ready
    BY <1>1
  <2>2. Latest(ready)' = Latest(ready)
    BY <2>1 DEF Latest
  <2>3. CASE ready = {}
    BY <2>1, <2>3 DEF PriorCandidate
  <2>4. CASE ready # {}
    <3>1. Latest(ready) \in DOMAIN events
      <4>1. ready \in SUBSET (0 .. Len(events)) /\ Len(events) \in Nat
        BY EventsOfFinite DEF BaseInv, TypeOK
      <4>2. Latest(ready) \in ready
        BY <2>4, <4>1, LatestMember
      <4>. QED  BY <4>2 DEF EventsOf
    <3>. QED  BY <2>1, <2>2, <2>4, <3>1, MarkedEvents DEF PriorCandidate
  <2>. QED  BY <2>3, <2>4
<1>. QED  BY <1>1, <1>2, <1>3 DEF Count

\* What Consumed counts in the state at hand is what CheckpointsOf names.
LEMMA ConsumedCounts ==
    ASSUME CountFacts, runState \in RoleStates
    PROVE  Consumed(runState) = Count(CheckpointsOf(runState))
<1>1. ~IsTerminal
  BY DEF IsTerminal, TerminalStates, RoleStates
<1>2. CASE runState \in {"planning", "finalizing"}
  BY <1>1, <1>2 DEF CountFacts, Consumed, CheckpointsOf, BeforePlan, BeforeReady
<1>3. CASE runState = "challenging"
  BY <1>1, <1>3 DEF CountFacts, Consumed, CheckpointsOf, BeforeChallenge
<1>4. CASE runState \in {"implementing", "reviewing"}
  BY <1>4 DEF Consumed, CheckpointsOf, Count
<1>. QED  BY <1>2, <1>3, <1>4 DEF RoleStates

\* A launch appends an invocation at the commit that its state is about.
LEMMA LaunchAppends ==
    ASSUME BaseInv, Launch, NEW role, role = RoleOf(runState)
    PROVE  /\ runState \in RoleStates /\ role \in ModelRoles
           /\ UNCHANGED <<runState, events, checks, head>> /\ pc' = "invoking"
           /\ Len(invocations[role]) \in Nat
           /\ DOMAIN invocations[role] = 1 .. Len(invocations[role])
           /\ DOMAIN invocations'[role] = 1 .. (Len(invocations[role]) + 1)
           /\ Len(invocations'[role]) = Len(invocations[role]) + 1
           /\ \A i \in DOMAIN invocations[role] : invocations'[role][i] = invocations[role][i]
           /\ invocations'[role][Len(invocations[role]) + 1].status = "started"
           /\ invocations'[role][Len(invocations[role]) + 1].commit = CommitOf(runState)
           /\ \A other \in ModelRoles \ {role} : invocations'[other] = invocations[other]
<1>1. runState \in RoleStates /\ role \in ModelRoles
  BY LaunchAttempts, RoleOfState DEF Launch
<1>2. UNCHANGED <<runState, events, checks, head>> /\ pc' = "invoking"
  BY DEF Launch, DriveInvoke, RepairInvocation
<1>. DEFINE own == invocations[role]
            after == invocations'[role]
<1>3. /\ own \in Seq(Invocation) /\ after \in Seq(Invocation)
      /\ Len(after) = Len(own) + 1
      /\ \A i \in 1 .. Len(own) : after[i] = own[i]
      /\ after[Len(after)].status = "started" /\ after[Len(after)].commit = CommitOf(runState)
      /\ \A other \in ModelRoles \ {role} : invocations'[other] = invocations[other]
  BY <1>1, LaunchAttempts, StartAppends DEF Launch, BaseInv, TypeOK
<1>4. Len(own) \in Nat /\ DOMAIN own = 1 .. Len(own) /\ DOMAIN after = 1 .. (Len(own) + 1)
  <2>. HIDE DEF own, after
  <2>. QED  BY <1>3
<1>. QED  BY <1>1, <1>2, <1>3, <1>4

LEMMA LaunchKeepsResults ==
    ASSUME BaseInv, Launch, NEW state \in RoleStates
    PROVE  Results(state)' = Results(state)
<1>. DEFINE role == RoleOf(runState)
            own == invocations[RoleOf(state)]
            after == invocations'[RoleOf(state)]
<1>1. RoleOf(state) \in ModelRoles
  BY RoleOfState
<1>2. /\ \A i \in DOMAIN own : i \in DOMAIN after /\ after[i] = own[i]
      /\ \A i \in DOMAIN after : i \in DOMAIN own \/ after[i].status = "started"
  <2>1. CASE RoleOf(state) # role
    BY <1>1, <2>1, LaunchAppends
  <2>2. CASE RoleOf(state) = role
    BY <2>2, LaunchAppends
  <2>. QED  BY <2>1, <2>2
<1>3. /\ Results(state) = {i \in DOMAIN own : own[i].status = "succeeded" /\ own[i].phase \in PhasesOf(state)}
      /\ Results(state)' = {i \in DOMAIN after : after[i].status = "succeeded" /\ after[i].phase \in PhasesOf(state)}
  BY DEF Results
<1>. HIDE DEF own, after
<1>. QED  BY <1>2, <1>3

\* An answer settles the last invocation of its role, which had no outcome.
LEMMA AnswerSettles ==
    ASSUME BaseInv, UnresolvedIsCurrent, Answer,
           NEW role, role = RoleOf(runState), NEW last, last = Len(invocations[role])
    PROVE  /\ runState \in RoleStates /\ role \in ModelRoles /\ Awaited
           /\ UNCHANGED <<runState, events, checks>>
           /\ last \in DOMAIN invocations[role] /\ last \in Nat
           /\ DOMAIN invocations[role] = 1 .. last
           /\ \A r \in ModelRoles : DOMAIN invocations'[r] = DOMAIN invocations[r]
           /\ \A other \in ModelRoles \ {role} : invocations'[other] = invocations[other]
           /\ \A i \in DOMAIN invocations[role] : i # last => invocations'[role][i] = invocations[role][i]
           /\ invocations[role][last].status = "started"
           /\ invocations[role][last].phase \in PhasesOf(runState)
           /\ invocations[role][last].attempt = last
           /\ invocations'[role][last].attempt = last
           /\ invocations'[role][last].phase = invocations[role][last].phase
           /\ invocations'[role][last].commit = invocations[role][last].commit
           /\ invocations'[role][last].status = "succeeded" <=> pc' = "returned"
<1>1. /\ runState \in RoleStates /\ role \in ModelRoles /\ invocations[role] # << >>
      /\ invocations[role] \in Seq(Invocation)
      /\ LastOf(role).phase \in PhasesOf(runState)
  BY RunningInvocation DEF Answer, BaseInv, TypeOK
<1>2. Awaited /\ LastOf(role).status = "started" /\ UNCHANGED <<runState, events, checks>>
  BY DEF Answer, UnresolvedIsCurrent
<1>3. last \in Nat /\ last \in DOMAIN invocations[role] /\ DOMAIN invocations[role] = 1 .. last
  BY <1>1
<1>4. invocations[role][last].attempt = last
  BY <1>1, <1>3 DEF BaseInv, AttemptsNumberInvocations
<1>5. PICK status \in {"succeeded", "failed", "canceled"}, verdict \in Verdicts \cup {"none"} :
           Finish(status, verdict) /\ (status = "succeeded" <=> pc' = "returned")
  BY DEF Answer
<1>6. /\ invocations' \in [ModelRoles -> Seq(Invocation)]
      /\ \A r \in ModelRoles : Len(invocations'[r]) = Len(invocations[r])
      /\ \A other \in ModelRoles \ {role} : invocations'[other] = invocations[other]
      /\ \A i \in 1 .. last : i # last => invocations'[role][i] = invocations[role][i]
      /\ invocations'[role][last].status = status
      /\ invocations'[role][last].phase = invocations[role][last].phase
      /\ invocations'[role][last].attempt = invocations[role][last].attempt
      /\ invocations'[role][last].commit = invocations[role][last].commit
  BY <1>1, <1>5, FinishKeeps DEF BaseInv
<1>7. \A r \in ModelRoles : DOMAIN invocations'[r] = DOMAIN invocations[r]
  <2>. SUFFICES ASSUME NEW r \in ModelRoles PROVE DOMAIN invocations'[r] = DOMAIN invocations[r]
    OBVIOUS
  <2>. DEFINE own == invocations[r]
              after == invocations'[r]
  <2>1. own \in Seq(Invocation) /\ after \in Seq(Invocation) /\ Len(after) = Len(own)
    BY <1>6 DEF BaseInv, TypeOK
  <2>. HIDE DEF own, after
  <2>2. DOMAIN after = DOMAIN own
    BY <2>1
  <2>. QED  BY <2>2 DEF own, after
<1>. QED  BY <1>1, <1>2, <1>3, <1>4, <1>5, <1>6, <1>7 DEF LastOf

LEMMA AnswerResults ==
    ASSUME BaseInv, UnresolvedIsCurrent, Answer, NEW state \in RoleStates,
           NEW last, last = Len(invocations[RoleOf(runState)])
    PROVE  /\ last \notin Results(runState)
           /\ Results(state)' = IF pc' = "returned" /\ SameWork(state)
                                 THEN Results(state) \cup {last} ELSE Results(state)
<1>. DEFINE role == RoleOf(runState)
            own == invocations[RoleOf(state)]
            after == invocations'[RoleOf(state)]
<1>1. RoleOf(state) \in ModelRoles /\ runState \in RoleStates
  BY RoleOfState, AnswerSettles
<1>2. last \notin Results(runState)
  BY AnswerSettles DEF Results
<1>3. SameWork(state) => RoleOf(state) = role
  BY <1>1 DEF SameWork, RoleStates, RoleOf, PhasesOf
<1>4. \A phase \in PhasesOf(runState) : phase \in PhasesOf(state) => SameWork(state)
  BY <1>1 DEF SameWork, RoleStates, PhasesOf
<1>5. /\ Results(state) = {i \in DOMAIN own : own[i].status = "succeeded" /\ own[i].phase \in PhasesOf(state)}
      /\ Results(state)' = {i \in DOMAIN after : after[i].status = "succeeded" /\ after[i].phase \in PhasesOf(state)}
  BY DEF Results
<1>6. CASE RoleOf(state) # role
  <2>1. after = own
    BY <1>1, <1>6, AnswerSettles
  <2>. QED  BY <1>2, <1>3, <1>5, <1>6, <2>1
<1>7. CASE RoleOf(state) = role
  <2>1. /\ DOMAIN after = DOMAIN own /\ last \in DOMAIN own
        /\ \A i \in DOMAIN own : i # last => after[i] = own[i]
        /\ own[last].status = "started" /\ after[last].phase = own[last].phase
        /\ own[last].phase \in PhasesOf(runState)
        /\ after[last].status = "succeeded" <=> pc' = "returned"
    BY <1>1, <1>7, AnswerSettles
  <2>2. SameWork(state) => PhasesOf(state) = PhasesOf(runState)
    BY DEF SameWork
  <2>. HIDE DEF own, after
  <2>3. CASE pc' = "returned" /\ SameWork(state)
    BY <1>2, <1>5, <2>1, <2>2, <2>3
  <2>4. CASE ~ (pc' = "returned" /\ SameWork(state))
    BY <1>2, <1>4, <1>5, <2>1, <2>4
  <2>. QED  BY <1>2, <2>3, <2>4
<1>. QED  BY <1>6, <1>7

\* States that work with the same results share their role, checkpoints and results;
\* others have no checkpoint in common.
LEMMA WorkClasses ==
    ASSUME NEW state \in RoleStates, runState \in RoleStates
    PROVE  IF SameWork(state)
             THEN /\ Results(state) = Results(runState) /\ RoleOf(state) = RoleOf(runState)
                  /\ CheckpointsOf(state) = CheckpointsOf(runState)
             ELSE CheckpointsOf(state) \cap CheckpointsOf(runState) = {}
<1>1. SameWork(state) => RoleOf(state) = RoleOf(runState) /\ CheckpointsOf(state) = CheckpointsOf(runState)
  BY DEF SameWork, RoleStates, RoleOf, PhasesOf, CheckpointsOf
<1>2. SameWork(state) => Results(state) = Results(runState)
  BY <1>1 DEF SameWork, Results
<1>3. ~SameWork(state) => CheckpointsOf(state) \cap CheckpointsOf(runState) = {}
  BY DEF SameWork, RoleStates, PhasesOf, CheckpointsOf
<1>. QED  BY <1>1, <1>2, <1>3

\* Checkpoints are sent by model roles only.
LEMMA CheckpointSenders ==
    ASSUME NEW kind \in EventKinds, ExpectedSender[kind] \notin ModelRoles,
           NEW state \in RoleStates
    PROVE  kind \notin CheckpointsOf(state)
BY DEF EventKinds, ExpectedSender, ModelRoles, RoleStates, CheckpointsOf

\* After an event of a model role, or one in a state that waits for none, the checkpoints
\* account for all results; what other events change is the end of the run at most.
LEMMA AdoptionAccounts ==
    ASSUME BaseInv, EvidenceInv, NEW kind \in EventKinds, NEW sender \in Roles,
           NEW attempt \in Nat, NEW candidate \in Nat,
           Adopts(kind, sender, attempt, candidate), ~IsTerminal'
    PROVE  /\ \A state \in RoleStates : Results(state)' = Results(state)
           /\ \/ \A state \in RoleStates :
                    Cardinality(Results(state))' = Count(CheckpointsOf(state))'
              \/ /\ runState' = runState /\ sender \notin ModelRoles
                 /\ \A state \in RoleStates :
                       Count(CheckpointsOf(state))' = Count(CheckpointsOf(state))
<1>1. /\ ~IsTerminal /\ Applies(runState, kind, sender, runState')
      /\ sender = ExpectedSender[kind]
  BY AdoptionAppends, Zenon
<1>2. \A state \in RoleStates : Results(state)' = Results(state)
  BY DEF Adopts, Results
<1>3. \A state \in RoleStates :
         /\ Count(CheckpointsOf(state)) \in Nat
         /\ Count(CheckpointsOf(state))' =
               IF kind \in CheckpointsOf(state) THEN Count(CheckpointsOf(state)) + 1
                                               ELSE Count(CheckpointsOf(state))
  BY AdoptionAdds, Zenon
<1>4. CASE sender \in ModelRoles
  <2>1. /\ runState \in RoleStates /\ kind \in CheckpointsOf(runState)
        /\ Cardinality(Results(runState)) = Count(CheckpointsOf(runState)) + 1
    BY <1>4, ConsumedCounts DEF Adopts, Cites, HasResult, EvidenceInv
  <2>2. ASSUME NEW state \in RoleStates
        PROVE  Cardinality(Results(state))' = Count(CheckpointsOf(state))'
    <3>1. CASE SameWork(state)
      BY <1>2, <1>3, <2>1, <3>1, WorkClasses
    <3>2. CASE ~SameWork(state)
      <4>1. kind \notin CheckpointsOf(state)
        BY <2>1, <3>2, WorkClasses
      <4>2. Cardinality(Results(state)) = Count(CheckpointsOf(state))
        BY <1>1, <3>2 DEF EvidenceInv, ResultFacts
      <4>. QED  BY <1>2, <1>3, <4>1, <4>2
    <3>. QED  BY <3>1, <3>2
  <2>. QED  BY <1>2, <2>2
<1>5. CASE sender \notin ModelRoles
  <2>1. \A state \in RoleStates : Count(CheckpointsOf(state))' = Count(CheckpointsOf(state))
    BY <1>1, <1>3, <1>5, CheckpointSenders
  <2>2. CASE runState \in RoleStates
    <3>1. runState' = runState
      BY <1>1, <1>5, <2>2 DEF Applies, Transitions, IsTerminal, TerminalStates, RoleStates,
         ExpectedSender, ModelRoles
    <3>. QED  BY <1>2, <1>5, <2>1, <3>1
  <2>3. CASE runState \notin RoleStates
    <3>1. \A state \in RoleStates : Cardinality(Results(state)) = Count(CheckpointsOf(state))
      BY <1>1, <2>3 DEF EvidenceInv, ResultFacts, SameWork
    <3>. QED  BY <1>2, <2>1, <3>1
  <2>. QED  BY <2>2, <2>3
<1>. QED  BY <1>4, <1>5

(***************************************************************************)
(* Counts                                                                  *)
(***************************************************************************)

LEMMA SenderNext ==
    ASSUME BaseInv, EvidenceInv, UnresolvedIsCurrent, [Next]_vars
    PROVE  SenderFacts'
<1>0. SenderFacts
  BY DEF EvidenceInv
<1>1. CASE Adoption
  <2>1. PICK kind \in EventKinds, sender \in Roles, attempt \in Nat, candidate \in Nat :
             Adopts(kind, sender, attempt, candidate)
    BY <1>1 DEF Adoption
  <2>2. /\ sender = ExpectedSender[kind] /\ Len(events) \in Nat
        /\ DOMAIN events = 1 .. Len(events) /\ DOMAIN events' = 1 .. (Len(events) + 1)
        /\ events'[Len(events) + 1] =
              [kind |-> kind, sender |-> sender, attempt |-> attempt,
               candidate |-> candidate, status |-> "local_pending"]
        /\ \A i \in DOMAIN events : events'[i] = events[i]
    BY <2>1, AdoptionAppends, Zenon
  <2>. QED  BY <1>0, <2>2 DEF SenderFacts
<1>2. CASE Launch \/ Answer
  <2>1. UNCHANGED events
    BY <1>2, LaunchAppends, AnswerSettles
  <2>. QED  BY <1>0, <2>1 DEF SenderFacts
<1>3. CASE Rest
  BY <1>0, <1>3, MarkedEvents DEF Rest, SenderFacts
<1>. QED  BY <1>1, <1>2, <1>3, EvidenceSteps

LEMMA CountNext ==
    ASSUME BaseInv, EvidenceInv, UnresolvedIsCurrent, [Next]_vars
    PROVE  CountFacts'
<1>. SUFFICES ASSUME ~IsTerminal' PROVE CountFacts'
  BY DEF CountFacts
<1>0. CountFacts
  BY DEF EvidenceInv
<1>1. CASE Adoption
  <2>1. PICK kind \in EventKinds, sender \in Roles, attempt \in Nat, candidate \in Nat :
             Adopts(kind, sender, attempt, candidate)
    BY <1>1 DEF Adoption
  <2>2. ~IsTerminal /\ Applies(runState, kind, sender, runState')
    BY <2>1, AdoptionAppends, Zenon
  <2>3. ASSUME NEW kinds
        PROVE  /\ Count(kinds) \in Nat
               /\ Count(kinds)' = IF kind \in kinds THEN Count(kinds) + 1 ELSE Count(kinds)
    BY <2>1, AdoptionAdds, Zenon
  <2>4. /\ Count({"plan_proposed"}) = IF runState \in BeforePlan THEN 0 ELSE 1
        /\ Count({"plan_challenged"}) = IF runState \in BeforeChallenge THEN 0 ELSE 1
        /\ Count({"plan_finalized"}) = IF runState \in BeforeReady THEN 0 ELSE 1
        /\ Count({"plan_proposed", "plan_finalized"}) =
              IF runState \in BeforePlan THEN 0 ELSE IF runState \in BeforeReady THEN 1 ELSE 2
        /\ Count({"implementation_ready"}) =
              IF runState \in {"reviewing", "verifying"} THEN Count({"revision_required"}) + 1
                                                         ELSE Count({"revision_required"})
    BY <1>0, <2>2 DEF CountFacts
  <2>5. \/ kind \in Warnings /\ runState' = runState
        \/ <<runState, kind, runState'>> \in Transitions
    BY <2>2 DEF Applies, IsTerminal, TerminalStates
  <2>6. CASE kind \in Warnings /\ runState' = runState
    BY <2>3, <2>4, <2>6 DEF CountFacts, Warnings
  <2>7. CASE <<runState, kind, runState'>> \in Transitions
    <3>1. /\ Count({"plan_proposed"})' = IF runState' \in BeforePlan THEN 0 ELSE 1
          /\ Count({"plan_challenged"})' = IF runState' \in BeforeChallenge THEN 0 ELSE 1
      BY <2>3, <2>4, <2>7 DEF Transitions, BeforePlan, BeforeChallenge
    <3>2. /\ Count({"plan_finalized"})' = IF runState' \in BeforeReady THEN 0 ELSE 1
          /\ Count({"plan_proposed", "plan_finalized"})' =
                IF runState' \in BeforePlan THEN 0 ELSE IF runState' \in BeforeReady THEN 1 ELSE 2
      BY <2>3, <2>4, <2>7 DEF Transitions, BeforePlan, BeforeReady
    <3>3. Count({"implementation_ready"})' =
            IF runState' \in {"reviewing", "verifying"} THEN Count({"revision_required"})' + 1
                                                        ELSE Count({"revision_required"})'
      BY <2>2, <2>3, <2>4, <2>7 DEF Transitions, IsTerminal, TerminalStates
    <3>. QED  BY <3>1, <3>2, <3>3 DEF CountFacts
  <2>. QED  BY <2>5, <2>6, <2>7
<1>2. CASE Launch \/ Answer
  <2>1. UNCHANGED <<runState, events>>
    BY <1>2, LaunchAppends, AnswerSettles
  <2>2. \A kinds : Count(kinds)' = Count(kinds)
    BY <2>1 DEF Count, EventsOf
  <2>. QED  BY <1>0, <2>1, <2>2 DEF CountFacts, IsTerminal
<1>3. CASE Rest
  <2>1. /\ runState' = runState /\ \A kinds : Count(kinds)' = Count(kinds)
    BY <1>3, MarkedEvents, MarkedKeeps DEF Rest
  <2>. QED  BY <1>0, <2>1 DEF CountFacts, IsTerminal
<1>. QED  BY <1>1, <1>2, <1>3, EvidenceSteps

LEMMA ResultNext ==
    ASSUME BaseInv, EvidenceInv, UnresolvedIsCurrent, [Next]_vars
    PROVE  ResultFacts'
<1>. SUFFICES ASSUME ~IsTerminal', NEW state \in RoleStates
              PROVE  \/ Cardinality(Results(state))' = Count(CheckpointsOf(state))'
                     \/ /\ SameWork(state)'
                        /\ Cardinality(Results(state))' = Count(CheckpointsOf(state))' + 1
  BY DEF ResultFacts
<1>0. ResultFacts /\ CountFacts
  BY DEF EvidenceInv
<1>1. CASE Adoption
  <2>1. PICK kind \in EventKinds, sender \in Roles, attempt \in Nat, candidate \in Nat :
             Adopts(kind, sender, attempt, candidate)
    BY <1>1 DEF Adoption
  <2>2. ~IsTerminal
    BY <2>1, AdoptionAppends, Zenon
  <2>3. /\ Results(state)' = Results(state)
        /\ \/ Cardinality(Results(state))' = Count(CheckpointsOf(state))'
           \/ runState' = runState /\ Count(CheckpointsOf(state))' = Count(CheckpointsOf(state))
    BY <2>1, AdoptionAccounts, Zenon
  <2>4. runState' = runState => (SameWork(state)' <=> SameWork(state))
    BY DEF SameWork
  <2>. QED  BY <1>0, <2>2, <2>3, <2>4 DEF ResultFacts
<1>2. CASE Launch \/ Answer
  <2>1. UNCHANGED <<runState, events>> /\ ~IsTerminal /\ runState \in RoleStates
    BY <1>2, LaunchAppends, AnswerSettles DEF IsTerminal, TerminalStates, RoleStates
  <2>2. Count(CheckpointsOf(state))' = Count(CheckpointsOf(state)) /\ (SameWork(state)' <=> SameWork(state))
    BY <2>1 DEF Count, EventsOf, SameWork
  <2>3. CASE Results(state)' = Results(state)
    BY <1>0, <2>1, <2>2, <2>3 DEF ResultFacts
  <2>4. CASE Results(state)' # Results(state)
    <3>. DEFINE last == Len(invocations[RoleOf(runState)])
    <3>1. Answer /\ SameWork(state) /\ Results(state)' = Results(state) \cup {last}
          /\ last \notin Results(runState)
      BY <1>2, <2>4, LaunchKeepsResults, AnswerResults
    <3>2. Results(state) = Results(runState) /\ CheckpointsOf(state) = CheckpointsOf(runState)
      BY <2>1, <3>1, WorkClasses
    <3>3. Cardinality(Results(runState)) = Count(CheckpointsOf(runState))
      BY <1>0, <2>1, <3>1, AnswerSettles, ConsumedCounts DEF Awaited
    <3>4. IsFiniteSet(Results(runState))
      BY <2>1, ResultsFinite DEF BaseInv, TypeOK
    <3>5. Cardinality(Results(runState) \cup {last}) = Cardinality(Results(runState)) + 1
      BY <3>1, <3>4, FS_AddElement
    <3>. QED  BY <2>2, <3>1, <3>2, <3>3, <3>5
  <2>. QED  BY <2>3, <2>4
<1>3. CASE Rest
  <2>1. /\ runState' = runState /\ Count(CheckpointsOf(state))' = Count(CheckpointsOf(state))
        /\ UNCHANGED invocations
    BY <1>3, MarkedEvents, MarkedKeeps DEF Rest
  <2>2. Results(state)' = Results(state) /\ (SameWork(state)' <=> SameWork(state))
    BY <2>1 DEF Results, SameWork
  <2>. QED  BY <1>0, <2>1, <2>2 DEF ResultFacts, IsTerminal
<1>. QED  BY <1>1, <1>2, <1>3, EvidenceSteps

\* A result at hand has a checkpoint missing, and one that is awaited has none.
LEMMA HasResultCounts ==
    ASSUME CountFacts, runState \in RoleStates
    PROVE  HasResult(runState) <=>
              Cardinality(Results(runState)) = Count(CheckpointsOf(runState)) + 1
BY ConsumedCounts DEF HasResult

\* A model's answer is at hand if it matched its schema only.
LEMMA AnswerHas ==
    ASSUME BaseInv, EvidenceInv, UnresolvedIsCurrent, [Next]_vars, Answer
    PROVE  HasResult(runState)' <=> pc' = "returned"
<1>. DEFINE last == Len(invocations[RoleOf(runState)])
<1>1. /\ runState \in RoleStates /\ UNCHANGED <<runState, events>>
      /\ Cardinality(Results(runState)) = Consumed(runState)
  BY AnswerSettles DEF Awaited
<1>2. Consumed(runState)' = Consumed(runState) /\ Consumed(runState) \in Nat
  BY <1>1, ConsumedType DEF Consumed, EventsOf, BaseInv, TypeOK
<1>3. IsFiniteSet(Results(runState))
  BY <1>1, ResultsFinite DEF BaseInv, TypeOK
<1>4. Results(runState)' = IF pc' = "returned" THEN Results(runState) \cup {last} ELSE Results(runState)
  <2>1. PICK state \in RoleStates : state = runState
    BY <1>1
  <2>2. Results(state)' = IF pc' = "returned" THEN Results(state) \cup {last} ELSE Results(state)
    BY <2>1, AnswerResults DEF SameWork
  <2>3. Results(state)' = Results(runState)'
    BY <1>1, <2>1 DEF Results
  <2>. QED  BY <2>1, <2>2, <2>3
<1>5. last \notin Results(runState)
  BY <1>1, AnswerResults
<1>6. Cardinality(Results(runState) \cup {last}) = Cardinality(Results(runState)) + 1
  BY <1>3, <1>5, FS_AddElement
<1>. QED  BY <1>1, <1>2, <1>4, <1>6 DEF HasResult

\* A launch leaves no result at hand.
LEMMA LaunchHas ==
    ASSUME BaseInv, EvidenceInv, UnresolvedIsCurrent, Launch
    PROVE  ~HasResult(runState)'
<1>1. runState \in RoleStates /\ UNCHANGED <<runState, events>> /\ Awaited
  BY LaunchAppends, LaunchResolved DEF Launch
<1>2. Consumed(runState)' = Consumed(runState) /\ Consumed(runState) \in Nat
  BY <1>1, ConsumedType DEF Consumed, EventsOf, BaseInv, TypeOK
<1>3. Results(runState)' = Results(runState)
  <2>1. PICK state \in RoleStates : state = runState
    BY <1>1
  <2>2. Results(state)' = Results(state)
    BY LaunchKeepsResults
  <2>3. Results(state)' = Results(runState)'
    BY <1>1, <2>1 DEF Results
  <2>. QED  BY <2>1, <2>2, <2>3
<1>. QED  BY <1>1, <1>2, <1>3 DEF HasResult, Awaited

\* What is at hand changes neither with the transport of an event nor with the stage.
LEMMA RestHas ==
    ASSUME BaseInv, Rest
    PROVE  HasResult(runState)' = HasResult(runState) /\ Results(runState)' = Results(runState)
<1>1. /\ runState' = runState /\ UNCHANGED invocations
      /\ \A kinds : Cardinality(EventsOf(kinds))' = Cardinality(EventsOf(kinds))
  BY MarkedEvents, MarkedKeeps DEF Rest, Count
<1>2. Results(runState)' = Results(runState)
  BY <1>1 DEF Results
<1>3. Consumed(runState)' = Consumed(runState)
  BY <1>1 DEF Consumed
<1>. QED  BY <1>2, <1>3 DEF HasResult

\* An event leaves a result at hand only if it is a warning.
LEMMA AdoptionHas ==
    ASSUME BaseInv, EvidenceInv, UnresolvedIsCurrent, [Next]_vars,
           NEW kind \in EventKinds, NEW sender \in Roles,
           NEW attempt \in Nat, NEW candidate \in Nat,
           Adopts(kind, sender, attempt, candidate),
           runState' \in RoleStates, HasResult(runState)'
    PROVE  /\ runState' = runState /\ HasResult(runState)
           /\ Results(runState)' = Results(runState) /\ sender \notin ModelRoles
<1>. DEFINE size(s) == Cardinality(Results(s))
            cited(s) == Count(CheckpointsOf(s))
<1>0. ~IsTerminal' /\ CountFacts /\ CountFacts'
  BY CountNext DEF IsTerminal, TerminalStates, RoleStates, EvidenceInv
<1>1. PICK state \in RoleStates : state = runState'
  OBVIOUS
<1>2. size(state)' = cited(state)' + 1
  <2>1. Cardinality(Results(runState)') = Count(CheckpointsOf(runState))' + 1
    <3>1. (CountFacts /\ runState \in RoleStates)' =>
             (HasResult(runState) <=>
                 Cardinality(Results(runState)) = Count(CheckpointsOf(runState)) + 1)'
      BY HasResultCounts, PTL
    <3>. QED  BY <1>0, <3>1
  <2>2. Results(runState)' = Results(state)' /\ CheckpointsOf(runState)' = CheckpointsOf(state)
    BY <1>1 DEF Results, CheckpointsOf
  <2>3. Count(CheckpointsOf(runState))' = Count(CheckpointsOf(state))'
    BY <2>2 DEF Count, EventsOf
  <2>. QED  BY <2>1, <2>2, <2>3
<1>3. cited(state)' \in Nat
  <2>1. cited(state) \in Nat /\ cited(state)' \in {cited(state), cited(state) + 1}
    BY AdoptionAdds, Zenon
  <2>. QED  BY <2>1
<1>4. /\ runState' = runState /\ sender \notin ModelRoles
      /\ Results(state)' = Results(state) /\ cited(state)' = cited(state)
  <2>1. size(state)' # cited(state)'
    BY <1>2, <1>3
  <2>2. /\ \A s \in RoleStates : Results(s)' = Results(s)
        /\ \/ \A s \in RoleStates :
                 Cardinality(Results(s))' = Count(CheckpointsOf(s))'
           \/ /\ runState' = runState /\ sender \notin ModelRoles
              /\ \A s \in RoleStates :
                    Count(CheckpointsOf(s))' = Count(CheckpointsOf(s))
    BY <1>0, AdoptionAccounts, Zenon
  <2>. QED  BY <2>1, <2>2
<1>5. Results(runState)' = Results(runState)
  BY <1>1, <1>4 DEF Results, Adopts
<1>6. HasResult(runState)
  BY <1>0, <1>1, <1>2, <1>4, HasResultCounts
<1>. QED  BY <1>4, <1>5, <1>6

LEMMA StoredNext ==
    ASSUME BaseInv, EvidenceInv, UnresolvedIsCurrent, [Next]_vars
    PROVE  StoredFacts'
<1>1. CASE Adoption
  BY <1>1 DEF Adoption, Adopts, StoredFacts
<1>2. CASE Launch
  BY <1>2, LaunchAppends DEF StoredFacts
<1>3. CASE Answer
  BY <1>3, AnswerHas DEF Answer, StoredFacts
<1>4. CASE Rest
  BY <1>4, RestHas DEF Rest, StoredFacts
<1>. QED  BY <1>1, <1>2, <1>3, <1>4, EvidenceSteps

(***************************************************************************)
(* Citations                                                               *)
(***************************************************************************)

\* The result at hand is a stored one, and its attempt its number.
LEMMA LatestStored ==
    ASSUME BaseInv, runState \in RoleStates, HasResult(runState)
    PROVE  \E n \in DOMAIN invocations[RoleOf(runState)] :
              /\ n = Latest(Results(runState)) /\ n \in Nat
              /\ LatestResult(runState) = invocations[RoleOf(runState)][n]
              /\ LatestResult(runState).status = "succeeded"
              /\ LatestResult(runState).attempt = n
<1>1. Results(runState) # {}
  BY HasResultStored DEF BaseInv, TypeOK
<1>2. /\ Latest(Results(runState)) \in Results(runState)
      /\ LatestResult(runState).status = "succeeded"
  BY <1>1, LatestResultType DEF BaseInv, TypeOK
<1>. DEFINE n == Latest(Results(runState))
<1>3. n \in DOMAIN invocations[RoleOf(runState)]
  BY <1>2 DEF Results
<1>4. RoleOf(runState) \in ModelRoles
  BY RoleOfState
<1>5. n \in Nat /\ invocations[RoleOf(runState)][n].attempt = n
  BY <1>3, <1>4 DEF BaseInv, TypeOK, AttemptsNumberInvocations
<1>. QED  BY <1>2, <1>3, <1>5 DEF LatestResult

\* A cited invocation is never changed, by a later launch or answer.
LEMMA SettledStays ==
    ASSUME BaseInv, UnresolvedIsCurrent, Launch \/ Answer,
           NEW role \in ModelRoles, NEW n \in DOMAIN invocations[role],
           invocations[role][n].status = "succeeded"
    PROVE  n \in DOMAIN invocations'[role] /\ invocations'[role][n] = invocations[role][n]
<1>. DEFINE current == RoleOf(runState)
<1>1. CASE Launch
  <2>1. /\ DOMAIN invocations[current] = 1 .. Len(invocations[current])
        /\ DOMAIN invocations'[current] = 1 .. (Len(invocations[current]) + 1)
        /\ Len(invocations[current]) \in Nat
        /\ \A i \in DOMAIN invocations[current] : invocations'[current][i] = invocations[current][i]
        /\ \A other \in ModelRoles \ {current} : invocations'[other] = invocations[other]
    BY <1>1, LaunchAppends
  <2>. QED  BY <2>1
<1>2. CASE Answer
  <2>. DEFINE last == Len(invocations[current])
  <2>1. /\ \A r \in ModelRoles : DOMAIN invocations'[r] = DOMAIN invocations[r]
        /\ \A other \in ModelRoles \ {current} : invocations'[other] = invocations[other]
    BY <1>2, AnswerSettles
  <2>2. /\ \A i \in DOMAIN invocations[current] : i # last => invocations'[current][i] = invocations[current][i]
        /\ invocations[current][last].status = "started"
    BY <1>2, AnswerSettles
  <2>. QED  BY <2>1, <2>2
<1>. QED  BY <1>1, <1>2

Cited(sender, attempt, kind) ==
    \E n \in DOMAIN invocations[sender] :
        LET inv == invocations[sender][n]
        IN  inv.attempt = attempt /\ inv.status = "succeeded" /\ Supports(inv.verdict, kind)

\* An event of a model role cites its result when it is accepted.
LEMMA AdoptionCites ==
    ASSUME BaseInv, NEW kind \in EventKinds, NEW sender \in ModelRoles,
           NEW attempt \in Nat, NEW candidate \in Nat,
           Adopts(kind, sender, attempt, candidate)
    PROVE  Cited(sender, attempt, kind) /\ Cited(sender, attempt, kind)'
<1>1. /\ runState \in RoleStates /\ sender = RoleOf(runState) /\ HasResult(runState)
      /\ attempt = LatestResult(runState).attempt
      /\ Supports(LatestResult(runState).verdict, kind)
      /\ UNCHANGED invocations
  BY DEF Adopts, Cites
<1>2. Cited(sender, attempt, kind)
  BY <1>1, LatestStored DEF Cited
<1>. QED  BY <1>1, <1>2 DEF Cited

LEMMA CiteNext ==
    ASSUME BaseInv, EvidenceInv, UnresolvedIsCurrent, [Next]_vars
    PROVE  CiteFacts'
<1>0. \A i \in ModelEvents : events[i].sender \in ModelRoles
         /\ Cited(events[i].sender, events[i].attempt, events[i].kind)
  BY DEF EvidenceInv, CiteFacts, ModelEvents, Cited
<1>. SUFFICES ASSUME NEW i, i \in ModelEvents'
              PROVE  \E n \in DOMAIN invocations'[events'[i].sender] :
                        /\ invocations'[events'[i].sender][n].attempt = events'[i].attempt
                        /\ invocations'[events'[i].sender][n].status = "succeeded"
                        /\ Supports(invocations'[events'[i].sender][n].verdict, events'[i].kind)
  BY DEF CiteFacts
<1>1. CASE Adoption
  <2>1. PICK kind \in EventKinds, sender \in Roles, attempt \in Nat, candidate \in Nat :
             Adopts(kind, sender, attempt, candidate)
    BY <1>1 DEF Adoption
  <2>2. /\ Len(events) \in Nat
        /\ DOMAIN events = 1 .. Len(events) /\ DOMAIN events' = 1 .. (Len(events) + 1)
        /\ events'[Len(events) + 1] =
              [kind |-> kind, sender |-> sender, attempt |-> attempt,
               candidate |-> candidate, status |-> "local_pending"]
        /\ \A j \in DOMAIN events : events'[j] = events[j]
    BY <2>1, AdoptionAppends, Zenon
  <2>3. UNCHANGED invocations
    BY <2>1 DEF Adopts
  <2>4. CASE i \in DOMAIN events
    <3>1. i \in ModelEvents /\ events'[i] = events[i]
      BY <2>2, <2>4 DEF ModelEvents
    <3>. QED  BY <1>0, <2>3, <3>1 DEF Cited
  <2>5. CASE i \notin DOMAIN events
    <3>1. i = Len(events) + 1 /\ events'[i].sender \in ModelRoles
      BY <2>2, <2>5 DEF ModelEvents
    <3>2. /\ sender \in ModelRoles /\ events'[i].sender = sender
          /\ events'[i].attempt = attempt /\ events'[i].kind = kind
      BY <2>2, <3>1
    <3>3. Cited(sender, attempt, kind)
      BY <2>1, <3>2, AdoptionCites
    <3>. QED  BY <2>3, <3>2, <3>3 DEF Cited
  <2>. QED  BY <2>4, <2>5
<1>2. CASE Launch \/ Answer
  <2>1. UNCHANGED events
    BY <1>2, LaunchAppends, AnswerSettles
  <2>2. i \in ModelEvents
    BY <2>1 DEF ModelEvents
  <2>3. PICK n \in DOMAIN invocations[events[i].sender] :
             /\ invocations[events[i].sender][n].attempt = events[i].attempt
             /\ invocations[events[i].sender][n].status = "succeeded"
             /\ Supports(invocations[events[i].sender][n].verdict, events[i].kind)
    BY <1>0, <2>2 DEF Cited
  <2>4. /\ n \in DOMAIN invocations'[events[i].sender]
        /\ invocations'[events[i].sender][n] = invocations[events[i].sender][n]
    BY <1>0, <1>2, <2>2, <2>3, SettledStays
  <2>. QED  BY <2>1, <2>3, <2>4 DEF Cited
<1>3. CASE Rest
  <2>1. /\ i \in ModelEvents /\ UNCHANGED invocations
        /\ events'[i].sender = events[i].sender /\ events'[i].attempt = events[i].attempt
        /\ events'[i].kind = events[i].kind
    BY <1>3, MarkedEvents, MarkedKeeps DEF Rest, ModelEvents
  <2>. QED  BY <1>0, <2>1 DEF Cited
<1>. QED  BY <1>1, <1>2, <1>3, EvidenceSteps

\* The attempt that an event cites is the number of an invocation with a result.
LEMMA CitedNumber ==
    ASSUME BaseInv, EvidenceInv, NEW i \in ModelEvents
    PROVE  LET own == invocations[events[i].sender]
           IN  /\ events[i].sender \in ModelRoles
               /\ events[i].attempt \in DOMAIN own /\ events[i].attempt \in Nat
               /\ own[events[i].attempt].status = "succeeded"
               /\ Supports(own[events[i].attempt].verdict, events[i].kind)
<1>1. events[i].sender \in ModelRoles
  BY DEF ModelEvents
<1>2. PICK n \in DOMAIN invocations[events[i].sender] :
             /\ invocations[events[i].sender][n].attempt = events[i].attempt
             /\ invocations[events[i].sender][n].status = "succeeded"
             /\ Supports(invocations[events[i].sender][n].verdict, events[i].kind)
  BY DEF EvidenceInv, CiteFacts
<1>3. invocations[events[i].sender][n].attempt = n /\ n \in Nat
  BY <1>1, <1>2 DEF BaseInv, TypeOK, AttemptsNumberInvocations
<1>. QED  BY <1>1, <1>2, <1>3

\* An answer that matched its schema is the result at hand.
LEMMA AnswerLatest ==
    ASSUME BaseInv, UnresolvedIsCurrent, Answer, pc' = "returned",
           NEW role, role = RoleOf(runState), NEW last, last = Len(invocations[role])
    PROVE  LatestResult(runState)' = invocations'[role][last]
<1>1. /\ runState \in RoleStates /\ role \in ModelRoles /\ UNCHANGED runState
      /\ last \in Nat /\ DOMAIN invocations[role] = 1 .. last
  BY AnswerSettles
<1>. DEFINE stored == Results(runState) \cup {last}
<1>2. Results(runState)' = stored
  <2>1. PICK state \in RoleStates : state = runState
    BY <1>1
  <2>2. Results(state)' = Results(state) \cup {last}
    BY <2>1, AnswerResults DEF SameWork
  <2>. QED  BY <1>1, <2>1, <2>2 DEF Results
<1>3. stored \in SUBSET (0 .. last) /\ last \in stored
  BY <1>1 DEF Results
<1>. HIDE DEF stored
<1>4. Latest(stored) \in stored /\ \A j \in stored : j <= Latest(stored)
  BY <1>1, <1>3, LatestMember
<1>5. Latest(stored) = last
  <2>1. \A j \in stored : j \in Nat /\ j <= last
    BY <1>1, <1>3
  <2>2. Latest(stored) \in Nat /\ Latest(stored) <= last /\ last <= Latest(stored)
    BY <1>3, <1>4, <2>1
  <2>. QED  BY <1>1, <2>2
<1>. QED  BY <1>1, <1>2, <1>5 DEF LatestResult, Latest

LEMMA NewerNext ==
    ASSUME BaseInv, EvidenceInv, UnresolvedIsCurrent, [Next]_vars
    PROVE  NewerFacts'
<1>. SUFFICES ASSUME runState' \in RoleStates, HasResult(runState)',
                     NEW i, i \in ModelEvents', events'[i].sender = RoleOf(runState')
              PROVE  events'[i].attempt < LatestResult(runState)'.attempt
  BY DEF NewerFacts, RoleOf
<1>0. NewerFacts
  BY DEF EvidenceInv
<1>1. CASE Adoption
  <2>1. PICK kind \in EventKinds, sender \in Roles, attempt \in Nat, candidate \in Nat :
             Adopts(kind, sender, attempt, candidate)
    BY <1>1 DEF Adoption
  <2>2. /\ Len(events) \in Nat
        /\ DOMAIN events = 1 .. Len(events) /\ DOMAIN events' = 1 .. (Len(events) + 1)
        /\ events'[Len(events) + 1] =
              [kind |-> kind, sender |-> sender, attempt |-> attempt,
               candidate |-> candidate, status |-> "local_pending"]
        /\ \A j \in DOMAIN events : events'[j] = events[j]
    BY <2>1, AdoptionAppends, Zenon
  <2>3. /\ runState' = runState /\ HasResult(runState) /\ Results(runState)' = Results(runState)
        /\ sender \notin ModelRoles /\ UNCHANGED invocations
    BY <2>1, AdoptionHas DEF Adopts
  <2>4. i \in ModelEvents /\ events'[i] = events[i]
    BY <2>2, <2>3 DEF ModelEvents
  <2>5. LatestResult(runState)' = LatestResult(runState)
    BY <2>3 DEF LatestResult, Latest
  <2>. QED  BY <1>0, <2>3, <2>4, <2>5 DEF NewerFacts
<1>2. CASE Launch
  BY <1>2, LaunchHas
<1>3. CASE Answer
  <2>. DEFINE role == RoleOf(runState)
              last == Len(invocations[role])
  <2>1. /\ runState \in RoleStates /\ role \in ModelRoles /\ UNCHANGED <<runState, events>>
        /\ last \in Nat /\ DOMAIN invocations[role] = 1 .. last
        /\ invocations[role][last].status = "started"
        /\ invocations'[role][last].attempt = last
    BY <1>3, AnswerSettles
  <2>2. pc' = "returned"
    BY <1>3, AnswerHas
  <2>3. LatestResult(runState)' = invocations'[role][last]
    BY <1>3, <2>2, AnswerLatest
  <2>4. i \in ModelEvents /\ events[i].sender = role /\ events'[i] = events[i]
    BY <2>1 DEF ModelEvents
  <2>5. events[i].attempt \in 1 .. last /\ events[i].attempt # last
    BY <2>1, <2>4, CitedNumber
  <2>. QED  BY <2>1, <2>3, <2>4, <2>5
<1>4. CASE Rest
  <2>1. /\ runState' = runState /\ i \in ModelEvents /\ UNCHANGED invocations
        /\ events'[i].sender = events[i].sender /\ events'[i].attempt = events[i].attempt
    BY <1>4, MarkedEvents, MarkedKeeps DEF Rest, ModelEvents
  <2>2. HasResult(runState) /\ Results(runState)' = Results(runState)
    BY <1>4, RestHas
  <2>3. LatestResult(runState)' = LatestResult(runState)
    BY <2>1, <2>2 DEF LatestResult, Latest
  <2>. QED  BY <1>0, <2>1, <2>2, <2>3 DEF NewerFacts
<1>. QED  BY <1>1, <1>2, <1>3, <1>4, EvidenceSteps

LEMMA OnceNext ==
    ASSUME BaseInv, EvidenceInv, UnresolvedIsCurrent, [Next]_vars
    PROVE  OnceFacts'
<1>. SUFFICES ASSUME NEW i, i \in ModelEvents', NEW j, j \in ModelEvents',
                     events'[i].sender = events'[j].sender, events'[i].attempt = events'[j].attempt
              PROVE  i = j
  BY DEF OnceFacts
<1>0. OnceFacts /\ NewerFacts
  BY DEF EvidenceInv
<1>1. CASE Adoption
  <2>1. PICK kind \in EventKinds, sender \in Roles, attempt \in Nat, candidate \in Nat :
             Adopts(kind, sender, attempt, candidate)
    BY <1>1 DEF Adoption
  <2>2. /\ Len(events) \in Nat
        /\ DOMAIN events = 1 .. Len(events) /\ DOMAIN events' = 1 .. (Len(events) + 1)
        /\ events'[Len(events) + 1] =
              [kind |-> kind, sender |-> sender, attempt |-> attempt,
               candidate |-> candidate, status |-> "local_pending"]
        /\ \A k \in DOMAIN events : events'[k] = events[k]
    BY <2>1, AdoptionAppends, Zenon
  <2>3. ASSUME NEW k, k \in ModelEvents' PROVE k \in ModelEvents \/ k = Len(events) + 1
    BY <2>2, <2>3 DEF ModelEvents
  <2>4. ASSUME NEW k \in ModelEvents, sender \in ModelRoles, events[k].sender = sender
        PROVE  events[k].attempt # attempt
    <3>1. /\ runState \in RoleStates /\ sender = RoleOf(runState) /\ HasResult(runState)
          /\ attempt = LatestResult(runState).attempt
      BY <2>1, <2>4 DEF Adopts, Cites
    <3>2. events[k].attempt < attempt /\ events[k].attempt \in Nat
      BY <1>0, <2>4, <3>1, CitedNumber DEF NewerFacts
    <3>. QED  BY <3>2
  <2>5. ASSUME NEW k \in ModelEvents
        PROVE  events'[k] = events[k] /\ k # Len(events) + 1 /\ events[k].sender \in ModelRoles
    BY <2>2 DEF ModelEvents
  <2>6. events'[Len(events) + 1].sender = sender /\ events'[Len(events) + 1].attempt = attempt
    BY <2>2
  <2>7. CASE i \in ModelEvents /\ j \in ModelEvents
    BY <1>0, <2>5, <2>7 DEF OnceFacts
  <2>8. CASE i \in ModelEvents /\ j = Len(events) + 1
    BY <2>4, <2>5, <2>6, <2>8
  <2>9. CASE j \in ModelEvents /\ i = Len(events) + 1
    BY <2>4, <2>5, <2>6, <2>9
  <2>. QED  BY <2>3, <2>7, <2>8, <2>9
<1>2. CASE Launch \/ Answer
  <2>1. UNCHANGED events
    BY <1>2, LaunchAppends, AnswerSettles
  <2>. QED  BY <1>0, <2>1 DEF OnceFacts, ModelEvents
<1>3. CASE Rest
  <2>1. ASSUME NEW k, k \in ModelEvents'
        PROVE  /\ k \in ModelEvents
               /\ events'[k].sender = events[k].sender /\ events'[k].attempt = events[k].attempt
    BY <1>3, <2>1, MarkedEvents, MarkedKeeps DEF Rest, ModelEvents
  <2>. QED  BY <1>0, <2>1 DEF OnceFacts
<1>. QED  BY <1>1, <1>2, <1>3, EvidenceSteps

(***************************************************************************)
(* Candidates, reviews and checks                                          *)
(***************************************************************************)

\* The candidate at hand is that of the event just accepted, if it brings one.
LEMMA AdoptionCandidate ==
    ASSUME BaseInv, NEW kind \in EventKinds, NEW sender \in Roles, NEW attempt \in Nat,
           NEW candidate \in Nat, Adopts(kind, sender, attempt, candidate)
    PROVE  PriorCandidate' = IF kind = "implementation_ready" THEN candidate ELSE PriorCandidate
<1>. DEFINE n == Len(events)
            ready == EventsOf({"implementation_ready"})
            after == EventsOf({"implementation_ready"})'
<1>1. /\ n \in Nat /\ DOMAIN events = 1 .. n /\ DOMAIN events' = 1 .. (n + 1)
      /\ events'[n + 1].candidate = candidate
      /\ \A i \in DOMAIN events : events'[i] = events[i]
  <2>1. /\ Len(events) \in Nat /\ DOMAIN events = 1 .. Len(events)
        /\ DOMAIN events' = 1 .. (Len(events) + 1)
        /\ events'[Len(events) + 1] =
              [kind |-> kind, sender |-> sender, attempt |-> attempt,
               candidate |-> candidate, status |-> "local_pending"]
        /\ \A i \in DOMAIN events : events'[i] = events[i]
    BY AdoptionAppends, Zenon
  <2>. QED  BY <2>1
<1>2. after = IF kind = "implementation_ready" THEN ready \cup {n + 1} ELSE ready
  <2>1. EventsOf({"implementation_ready"})' =
           IF kind \in {"implementation_ready"}
             THEN EventsOf({"implementation_ready"}) \cup {Len(events) + 1}
             ELSE EventsOf({"implementation_ready"})
    BY AdoptionAdds, Zenon
  <2>. QED  BY <2>1
<1>3. ready \in SUBSET (0 .. n)
  BY EventsOfFinite DEF BaseInv, TypeOK
<1>4. /\ PriorCandidate = IF ready = {} THEN BaseCommit ELSE events[Latest(ready)].candidate
      /\ PriorCandidate' = IF after = {} THEN BaseCommit ELSE events'[Latest(after)].candidate
  BY DEF PriorCandidate, Latest
<1>5. ready # {} => Latest(ready) \in DOMAIN events
  <2>1. ready # {} => Latest(ready) \in ready
    BY <1>1, <1>3, LatestMember
  <2>. QED  BY <2>1 DEF EventsOf
<1>. HIDE DEF n, ready, after
<1>6. CASE kind = "implementation_ready"
  <2>1. after \in SUBSET (0 .. (n + 1)) /\ after # {} /\ n + 1 \in Nat
    BY <1>1, <1>2, <1>3, <1>6
  <2>2. Latest(after) \in after /\ \A j \in after : j <= Latest(after)
    BY <2>1, LatestMember
  <2>3. Latest(after) = n + 1
    <3>1. n + 1 \in after /\ \A j \in after : j \in Nat /\ j <= n + 1
      BY <1>1, <1>2, <1>3, <1>6
    <3>2. Latest(after) \in Nat /\ Latest(after) <= n + 1 /\ n + 1 <= Latest(after)
      BY <2>2, <3>1
    <3>. QED  BY <2>1, <3>2
  <2>. QED  BY <1>1, <1>4, <1>6, <2>1, <2>3
<1>7. CASE kind # "implementation_ready"
  BY <1>1, <1>2, <1>4, <1>5, <1>7
<1>. QED  BY <1>6, <1>7

\* The branch moves while a candidate is implemented only.
LEMMA HeadMoves ==
    ASSUME BaseInv, Answer \/ Rest
    PROVE  /\ head \in Nat /\ head' \in {head, head + 1}
           /\ head' # head => runState = "implementing"
<1>1. head \in Nat
  BY DEF BaseInv, TypeOK
<1>. QED  BY <1>1 DEF Answer, ModelMayCommit, Rest

LEMMA CandidateNext ==
    ASSUME BaseInv, EvidenceInv, UnresolvedIsCurrent, [Next]_vars
    PROVE  CandidateFacts'
<1>0. CandidateFacts /\ head \in Nat
  BY DEF EvidenceInv, BaseInv, TypeOK
<1>1. CASE Adoption
  <2>1. PICK kind \in EventKinds, sender \in Roles, attempt \in Nat, candidate \in Nat :
             Adopts(kind, sender, attempt, candidate)
    BY <1>1 DEF Adoption
  <2>2. /\ ~IsTerminal /\ Applies(runState, kind, sender, runState')
        /\ Len(events) \in Nat
        /\ DOMAIN events = 1 .. Len(events) /\ DOMAIN events' = 1 .. (Len(events) + 1)
        /\ events'[Len(events) + 1] =
              [kind |-> kind, sender |-> sender, attempt |-> attempt,
               candidate |-> candidate, status |-> "local_pending"]
        /\ \A k \in DOMAIN events : events'[k] = events[k]
    BY <2>1, AdoptionAppends, Zenon
  <2>3. PriorCandidate' = IF kind = "implementation_ready" THEN candidate ELSE PriorCandidate
    BY <2>1, AdoptionCandidate, Zenon
  <2>4. /\ head' = head /\ pc' # "handoff"
        /\ kind = "implementation_ready" => candidate = head /\ head # BaseCommit
    BY <2>1 DEF Adopts
  <2>5. \A i \in EventsOf({"implementation_ready"})' : events'[i].candidate \in 1 .. head'
    <3>. SUFFICES ASSUME NEW i, i \in EventsOf({"implementation_ready"})'
                  PROVE  events'[i].candidate \in 1 .. head'
      OBVIOUS
    <3>1. i \in DOMAIN events' /\ events'[i].kind = "implementation_ready"
      BY DEF EventsOf
    <3>2. CASE i = Len(events) + 1
      <4>1. events'[i].candidate = candidate /\ kind = "implementation_ready"
        BY <2>2, <3>1, <3>2
      <4>. QED  BY <1>0, <2>4, <4>1 DEF BaseCommit
    <3>3. CASE i # Len(events) + 1
      <4>1. i \in EventsOf({"implementation_ready"}) /\ events'[i] = events[i]
        BY <2>2, <3>1, <3>3 DEF EventsOf
      <4>. QED  BY <1>0, <2>4, <4>1 DEF CandidateFacts
    <3>. QED  BY <3>2, <3>3
  <2>6. ASSUME runState' \in {"reviewing", "verifying", "completed"}
        PROVE  EventsOf({"implementation_ready"})' # {} /\ head' = PriorCandidate'
    <3>1. CASE kind = "implementation_ready"
      <4>1. Len(events) + 1 \in EventsOf({"implementation_ready"})'
        BY <2>2, <3>1 DEF EventsOf
      <4>. QED  BY <2>3, <2>4, <3>1, <4>1
    <3>2. CASE kind # "implementation_ready"
      <4>1. runState \in {"reviewing", "verifying", "completed"}
        BY <2>2, <2>6, <3>2 DEF Applies, Transitions
      <4>2. PICK i \in EventsOf({"implementation_ready"}) : TRUE
        BY <1>0, <4>1 DEF CandidateFacts
      <4>3. i \in EventsOf({"implementation_ready"})'
        BY <2>2, <4>2 DEF EventsOf
      <4>. QED  BY <1>0, <2>3, <2>4, <3>2, <4>1, <4>3 DEF CandidateFacts
    <3>. QED  BY <3>1, <3>2
  <2>. QED  BY <2>4, <2>5, <2>6 DEF CandidateFacts
<1>2. CASE Launch
  <2>1. UNCHANGED <<runState, events, head>> /\ pc' # "handoff"
    BY <1>2, LaunchAppends
  <2>2. /\ EventsOf({"implementation_ready"})' = EventsOf({"implementation_ready"})
        /\ PriorCandidate' = PriorCandidate
    BY <2>1 DEF EventsOf, PriorCandidate, Latest
  <2>. QED  BY <1>0, <2>1, <2>2 DEF CandidateFacts
<1>3. CASE Answer \/ Rest
  <2>1. /\ runState' = runState
        /\ EventsOf({"implementation_ready"})' = EventsOf({"implementation_ready"})
        /\ PriorCandidate' = PriorCandidate
        /\ \A i \in DOMAIN events : events'[i].candidate = events[i].candidate
    <3>1. CASE Answer
      <4>1. UNCHANGED <<runState, events>>
        BY <3>1 DEF Answer
      <4>. QED  BY <4>1 DEF EventsOf, PriorCandidate, Latest
    <3>2. CASE Rest
      BY <3>2, MarkedEvents, MarkedKeeps DEF Rest
    <3>. QED  BY <1>3, <3>1, <3>2
  <2>2. /\ head' \in {head, head + 1}
        /\ head' # head => runState = "implementing"
        /\ pc' = "handoff" => head' # BaseCommit
    BY <1>3, HeadMoves DEF Rest, Answer
  <2>3. \A i \in EventsOf({"implementation_ready"}) : i \in DOMAIN events
    BY DEF EventsOf
  <2>. QED  BY <1>0, <2>1, <2>2, <2>3 DEF CandidateFacts
<1>. QED  BY <1>1, <1>2, <1>3, EvidenceSteps

\* A launch, an answer, or a change of stage or transport keeps the candidate at hand.
LEMMA CandidateKept ==
    ASSUME BaseInv, Launch \/ Answer \/ Rest
    PROVE  runState' = runState /\ PriorCandidate' = PriorCandidate
<1>1. CASE Launch \/ Answer
  <2>1. UNCHANGED <<runState, events>>
    BY <1>1, LaunchAppends DEF Answer
  <2>. QED  BY <2>1 DEF PriorCandidate, EventsOf, Latest
<1>2. CASE Rest
  BY <1>2, MarkedEvents, MarkedKeeps DEF Rest
<1>. QED  BY <1>1, <1>2

\* An approval of a commit stays, in a state that waits for no model.
LEMMA ApprovalStays ==
    ASSUME BaseInv, UnresolvedIsCurrent, runState \notin RoleStates,
           Adoption \/ Launch \/ Answer \/ Rest, NEW commit, ApprovedAt(commit)
    PROVE  ApprovedAt(commit)'
<1>1. PICK i \in EventsOf({"review_approved"}), n \in DOMAIN invocations["reviewer"] :
           /\ invocations["reviewer"][n].attempt = events[i].attempt
           /\ invocations["reviewer"][n].verdict = "approved"
           /\ invocations["reviewer"][n].commit = commit
  BY DEF ApprovedAt
<1>2. Adoption \/ Rest
  BY LaunchAppends, AnswerSettles
<1>3. i \in DOMAIN events /\ events[i].kind = "review_approved"
  BY DEF EventsOf
<1>4. UNCHANGED invocations
  BY <1>2 DEF Adoption, Adopts, Rest
<1>5. i \in DOMAIN events' /\ events'[i].kind = "review_approved" /\ events'[i].attempt = events[i].attempt
  <2>1. CASE Adoption
    <3>1. PICK kind \in EventKinds, sender \in Roles, attempt \in Nat, candidate \in Nat :
               Adopts(kind, sender, attempt, candidate)
      BY <2>1 DEF Adoption
    <3>2. /\ Len(events) \in Nat
          /\ DOMAIN events = 1 .. Len(events) /\ DOMAIN events' = 1 .. (Len(events) + 1)
          /\ \A k \in DOMAIN events : events'[k] = events[k]
      BY <3>1, AdoptionAppends, Zenon
    <3>. QED  BY <1>3, <3>2
  <2>2. CASE Rest
    BY <1>3, <2>2, MarkedEvents DEF Rest
  <2>. QED  BY <1>2, <2>1, <2>2
<1>6. i \in EventsOf({"review_approved"})'
  BY <1>5 DEF EventsOf
<1>. QED  BY <1>1, <1>4, <1>5, <1>6 DEF ApprovedAt

\* The approving review is of the candidate at hand.
LEMMA ApprovalGiven ==
    ASSUME BaseInv, EvidenceInv, NEW sender \in Roles, NEW attempt \in Nat, NEW candidate \in Nat,
           Adopts("review_approved", sender, attempt, candidate), runState = "reviewing",
           NEW commit, commit = PriorCandidate
    PROVE  ApprovedAt(commit)'
<1>1. "review_approved" \in EventKinds
  BY DEF EventKinds, ExpectedSender
<1>2. sender = ExpectedSender["review_approved"]
  BY <1>1, AdoptionAppends, Zenon
<1>3. sender = "reviewer" /\ sender \in ModelRoles
  BY <1>2 DEF ExpectedSender, ModelRoles
<1>4. /\ runState \in RoleStates /\ RoleOf(runState) = "reviewer" /\ HasResult(runState)
      /\ attempt = LatestResult(runState).attempt
      /\ LatestResult(runState).verdict = "approved"
      /\ UNCHANGED invocations
  BY <1>3 DEF Adopts, Cites, Supports
<1>5. LatestResult(runState).commit = commit
  BY <1>4 DEF EvidenceInv, ReviewFacts
<1>6. PICK n \in DOMAIN invocations["reviewer"] :
           LatestResult(runState) = invocations["reviewer"][n]
  BY <1>4, LatestStored
<1>. DEFINE i == Len(events) + 1
<1>7. i \in EventsOf({"review_approved"})' /\ events'[i].attempt = attempt
  <2>1. /\ Len(events) \in Nat /\ DOMAIN events' = 1 .. (Len(events) + 1)
        /\ events'[Len(events) + 1] =
              [kind |-> "review_approved", sender |-> sender, attempt |-> attempt,
               candidate |-> candidate, status |-> "local_pending"]
    BY <1>1, AdoptionAppends, Zenon
  <2>. QED  BY <2>1 DEF EventsOf
<1>. QED  BY <1>4, <1>5, <1>6, <1>7 DEF ApprovedAt

LEMMA ReviewNext ==
    ASSUME BaseInv, EvidenceInv, UnresolvedIsCurrent, [Next]_vars
    PROVE  ReviewFacts'
<1>0. ReviewFacts
  BY DEF EvidenceInv
<1>1. ASSUME runState' = "reviewing", pc' = "invoking"
      PROVE  LastOf("reviewer")'.commit = PriorCandidate'
  <2>1. CASE Launch
    <3>1. /\ runState = "reviewing" /\ RoleOf(runState) = "reviewer"
          /\ PriorCandidate' = PriorCandidate
      BY <1>1, <2>1, CandidateKept DEF RoleOf
    <3>2. /\ Len(invocations'["reviewer"]) = Len(invocations["reviewer"]) + 1
          /\ invocations'["reviewer"][Len(invocations["reviewer"]) + 1].commit = CommitOf(runState)
      BY <2>1, <3>1, LaunchAppends
    <3>. QED  BY <3>1, <3>2 DEF LastOf, CommitOf
  <2>2. CASE Rest
    BY <1>0, <1>1, <2>2, CandidateKept DEF Rest, ReviewFacts, LastOf
  <2>3. ~Answer /\ ~Adoption
    BY <1>1 DEF Answer, Adoption, Adopts
  <2>. QED  BY <2>1, <2>2, <2>3, EvidenceSteps
<1>2. ASSUME runState' = "reviewing", HasResult(runState)'
      PROVE  LatestResult(runState)'.commit = PriorCandidate'
  <2>1. CASE Adoption
    <3>1. PICK kind \in EventKinds, sender \in Roles, attempt \in Nat, candidate \in Nat :
               Adopts(kind, sender, attempt, candidate)
      BY <2>1 DEF Adoption
    <3>2. runState' \in RoleStates
      BY <1>2 DEF RoleStates
    <3>3. /\ runState' = runState /\ HasResult(runState) /\ sender \notin ModelRoles
          /\ Results(runState)' = Results(runState) /\ UNCHANGED invocations
      BY <1>2, <3>1, <3>2, AdoptionHas DEF Adopts
    <3>4. sender = ExpectedSender[kind]
      BY <3>1, AdoptionAppends, Zenon
    <3>5. kind # "implementation_ready"
      BY <3>3, <3>4 DEF ExpectedSender, ModelRoles
    <3>6. PriorCandidate' = IF kind = "implementation_ready" THEN candidate ELSE PriorCandidate
      BY <3>1, AdoptionCandidate, Zenon
    <3>7. LatestResult(runState)' = LatestResult(runState)
      BY <3>3 DEF LatestResult, Latest
    <3>. QED  BY <1>0, <1>2, <3>3, <3>5, <3>6, <3>7 DEF ReviewFacts
  <2>2. CASE Launch
    BY <1>2, <2>2, LaunchHas
  <2>3. CASE Answer
    <3>1. /\ runState = "reviewing" /\ PriorCandidate' = PriorCandidate
          /\ RoleOf(runState) = "reviewer"
      BY <1>2, <2>3, CandidateKept DEF RoleOf
    <3>2. pc' = "returned" /\ pc = "invoking"
      BY <1>2, <2>3, AnswerHas DEF Answer
    <3>3. /\ LatestResult(runState)' = invocations'["reviewer"][Len(invocations["reviewer"])]
          /\ invocations'["reviewer"][Len(invocations["reviewer"])].commit
                = invocations["reviewer"][Len(invocations["reviewer"])].commit
      BY <2>3, <3>1, <3>2, AnswerLatest, AnswerSettles
    <3>. QED  BY <1>0, <3>1, <3>2, <3>3 DEF ReviewFacts, LastOf
  <2>4. CASE Rest
    <3>1. /\ runState = "reviewing" /\ PriorCandidate' = PriorCandidate
          /\ UNCHANGED <<runState, invocations>>
          /\ HasResult(runState) /\ Results(runState)' = Results(runState)
      BY <1>2, <2>4, CandidateKept, RestHas DEF Rest
    <3>2. LatestResult(runState)' = LatestResult(runState)
      BY <3>1 DEF LatestResult, Latest
    <3>. QED  BY <1>0, <3>1, <3>2 DEF ReviewFacts
  <2>. QED  BY <2>1, <2>2, <2>3, <2>4, EvidenceSteps
<1>3. ASSUME runState' \in {"verifying", "completed"}, NEW commit, commit = PriorCandidate'
      PROVE  ApprovedAt(commit)'
  <2>1. CASE Adoption
    <3>1. PICK kind \in EventKinds, sender \in Roles, attempt \in Nat, candidate \in Nat :
               Adopts(kind, sender, attempt, candidate)
      BY <2>1 DEF Adoption
    <3>2. ~IsTerminal /\ Applies(runState, kind, sender, runState')
      BY <3>1, AdoptionAppends, Zenon
    <3>3. \/ runState = "reviewing" /\ kind = "review_approved"
          \/ runState = "verifying" /\ kind # "implementation_ready"
      BY <1>3, <3>2 DEF Applies, Transitions, IsTerminal, TerminalStates, Warnings
    <3>4. PriorCandidate' = IF kind = "implementation_ready" THEN candidate ELSE PriorCandidate
      BY <3>1, AdoptionCandidate, Zenon
    <3>5. commit = PriorCandidate
      BY <1>3, <3>3, <3>4
    <3>6. CASE runState = "reviewing" /\ kind = "review_approved"
      BY <3>1, <3>5, <3>6, ApprovalGiven
    <3>7. CASE runState = "verifying"
      <4>1. ApprovedAt(commit) /\ runState \notin RoleStates
        BY <1>0, <3>5, <3>7 DEF ReviewFacts, RoleStates
      <4>. QED  BY <2>1, <4>1, ApprovalStays
    <3>. QED  BY <3>3, <3>6, <3>7
  <2>2. CASE Launch \/ Answer \/ Rest
    <3>1. runState \in {"verifying", "completed"} /\ commit = PriorCandidate
      BY <1>3, <2>2, CandidateKept
    <3>2. ApprovedAt(commit) /\ runState \notin RoleStates
      BY <1>0, <3>1 DEF ReviewFacts, RoleStates
    <3>. QED  BY <2>2, <3>2, ApprovalStays
  <2>. QED  BY <2>1, <2>2, EvidenceSteps
<1>4. runState' \in {"verifying", "completed"} => ApprovedAt(PriorCandidate)'
  <2>1. PICK commit : commit = PriorCandidate'
    OBVIOUS
  <2>. QED  BY <1>3, <2>1 DEF ApprovedAt
<1>. QED  BY <1>1, <1>2, <1>4 DEF ReviewFacts

LEMMA CheckNext ==
    ASSUME BaseInv, EvidenceInv, UnresolvedIsCurrent, [Next]_vars
    PROVE  CheckFacts'
<1>0. CheckFacts
  BY DEF EvidenceInv
<1>1. CASE Adoption
  <2>1. PICK kind \in EventKinds, sender \in Roles, attempt \in Nat, candidate \in Nat :
             Adopts(kind, sender, attempt, candidate)
    BY <1>1 DEF Adoption
  <2>2. ~IsTerminal /\ Applies(runState, kind, sender, runState')
    BY <2>1, AdoptionAppends, Zenon
  <2>3. PriorCandidate' = IF kind = "implementation_ready" THEN candidate ELSE PriorCandidate
    BY <2>1, AdoptionCandidate, Zenon
  <2>4. /\ UNCHANGED checks /\ pc' # "verifying"
        /\ kind = "verification_passed" => Suite(TRUE) \in checks
    BY <2>1 DEF Adopts
  <2>5. runState' \notin TerminalStates \cup {"verifying"} => checks' = {}
    BY <1>0, <2>2, <2>4 DEF CheckFacts, Applies, Transitions, IsTerminal, TerminalStates
  <2>6. ASSUME runState' = "verifying"
        PROVE  \E passed \in BOOLEAN : checks' \subseteq {Suite(passed)'}
    <3>1. \/ runState = "reviewing"
          \/ runState = "verifying" /\ kind # "implementation_ready"
      BY <2>2, <2>6 DEF Applies, Transitions, Warnings
    <3>2. CASE runState = "reviewing"
      BY <1>0, <2>4, <3>2 DEF CheckFacts, TerminalStates
    <3>3. CASE runState = "verifying" /\ kind # "implementation_ready"
      BY <1>0, <2>3, <2>4, <3>3 DEF CheckFacts, Suite
    <3>. QED  BY <3>1, <3>2, <3>3
  <2>7. ASSUME runState' = "completed"
        PROVE  checks' = {Suite(TRUE)'}
    <3>1. runState = "verifying" /\ kind = "verification_passed"
      BY <2>2, <2>7 DEF Applies, Transitions, IsTerminal, TerminalStates
    <3>2. PICK passed \in BOOLEAN : checks \subseteq {Suite(passed)}
      BY <1>0, <3>1 DEF CheckFacts
    <3>3. checks = {Suite(TRUE)}
      BY <2>4, <3>1, <3>2
    <3>4. Suite(TRUE)' = Suite(TRUE)
      BY <2>3, <3>1 DEF Suite
    <3>. QED  BY <2>4, <3>3, <3>4
  <2>. QED  BY <2>4, <2>5, <2>6, <2>7 DEF CheckFacts
<1>2. CASE Launch \/ Answer \/ Rest
  <2>1. runState' = runState /\ PriorCandidate' = PriorCandidate
    BY <1>2, CandidateKept
  <2>2. \A passed : Suite(passed)' = Suite(passed)
    BY <2>1 DEF Suite
  <2>3. CASE Launch \/ Answer
    <3>1. UNCHANGED checks /\ pc' # "verifying"
      BY <2>3, LaunchAppends DEF Answer
    <3>. QED  BY <1>0, <2>1, <2>2, <3>1 DEF CheckFacts
  <2>4. CASE Rest
    <3>1. /\ pc' = "verifying" => checks' = {}
          /\ \/ UNCHANGED checks
             \/ runState = "verifying" /\ \E passed \in BOOLEAN : checks' = {Suite(passed)}
      BY <2>4 DEF Rest
    <3>. QED  BY <1>0, <2>1, <2>2, <3>1 DEF CheckFacts, TerminalStates
  <2>. QED  BY <1>2, <2>3, <2>4
<1>. QED  BY <1>1, <1>2, EvidenceSteps

(***************************************************************************)
(* The invariant holds                                                     *)
(***************************************************************************)

LEMMA EvidenceInit == Init => EvidenceInv
<1>. SUFFICES ASSUME Init PROVE EvidenceInv
  OBVIOUS
<1>1. /\ runState = "created" /\ pc = "drive" /\ checks = {} /\ events = << >>
      /\ \A role \in ModelRoles : invocations[role] = << >>
  BY DEF Init
<1>2. /\ \A kinds : EventsOf(kinds) = {} /\ Count(kinds) = 0
      /\ ModelEvents = {}
  <2>1. DOMAIN events = {}
    BY <1>1
  <2>2. ModelEvents = {} /\ \A kinds : EventsOf(kinds) = {}
    BY <2>1 DEF ModelEvents, EventsOf
  <2>3. Cardinality({}) = 0
    BY FS_EmptySet
  <2>. QED  BY <2>2, <2>3 DEF Count
<1>3. \A state \in RoleStates : Cardinality(Results(state)) = 0
  <2>. SUFFICES ASSUME NEW state \in RoleStates PROVE Cardinality(Results(state)) = 0
    OBVIOUS
  <2>1. Results(state) = {}
    BY <1>1, RoleOfState DEF Results
  <2>. QED  BY <2>1, FS_EmptySet
<1>4. SenderFacts /\ CiteFacts /\ OnceFacts
  BY <1>1, <1>2 DEF SenderFacts, CiteFacts, OnceFacts
<1>5. CountFacts /\ ResultFacts
  BY <1>1, <1>2, <1>3 DEF CountFacts, ResultFacts, BeforePlan, BeforeChallenge, BeforeReady
<1>6. StoredFacts /\ NewerFacts /\ CandidateFacts /\ ReviewFacts /\ CheckFacts
  BY <1>1, <1>2 DEF StoredFacts, NewerFacts, CandidateFacts, ReviewFacts, CheckFacts, RoleStates
<1>. QED  BY <1>4, <1>5, <1>6 DEF EvidenceInv

LEMMA EvidenceNext ==
    BaseInv /\ UnresolvedIsCurrent /\ EvidenceInv /\ [Next]_vars => EvidenceInv'
<1>. SUFFICES ASSUME BaseInv, UnresolvedIsCurrent, EvidenceInv, [Next]_vars PROVE EvidenceInv'
  OBVIOUS
<1>1. SenderFacts' /\ CountFacts' /\ ResultFacts' /\ StoredFacts'
  BY SenderNext, CountNext, ResultNext, StoredNext
<1>2. CiteFacts' /\ NewerFacts' /\ OnceFacts'
  BY CiteNext, NewerNext, OnceNext
<1>3. CandidateFacts' /\ ReviewFacts' /\ CheckFacts'
  BY CandidateNext, ReviewNext, CheckNext
<1>. QED  BY <1>1, <1>2, <1>3 DEF EvidenceInv

\* The records always fit together as EvidenceInv says.
THEOREM EvidenceHolds == Spec => []EvidenceInv
BY EvidenceInit, EvidenceNext, BaseHolds, CurrentHolds, PTL DEF Spec

(***************************************************************************)
(* What follows from it                                                    *)
(***************************************************************************)

LEMMA CheckpointsReadable ==
    ASSUME BaseInv, EvidenceInv,
           NEW kind \in {"plan_proposed", "plan_challenged", "plan_finalized"},
           Count({kind}) = 1
    PROVE  CheckpointReadable(kind)
<1>. SUFFICES ASSUME NEW i \in EventsOf({kind})
              PROVE  CitesResult(events[i], ExpectedSender[kind])
  BY DEF CheckpointReadable, Count
<1>1. i \in DOMAIN events /\ events[i].sender = ExpectedSender[kind]
  BY DEF EventsOf, EvidenceInv, SenderFacts
<1>2. i \in ModelEvents
  BY <1>1 DEF ModelEvents, ExpectedSender, ModelRoles
<1>3. /\ events[i].attempt \in DOMAIN invocations[events[i].sender]
      /\ invocations[events[i].sender][events[i].attempt].status = "succeeded"
      /\ events[i].sender \in ModelRoles /\ events[i].attempt \in Nat
  BY <1>2, CitedNumber
<1>4. invocations[events[i].sender][events[i].attempt].attempt = events[i].attempt
  BY <1>3 DEF BaseInv, AttemptsNumberInvocations
<1>. QED  BY <1>1, <1>3, <1>4 DEF CitesResult

\* A candidate is implemented again only on a review that asked for it.
LEMMA RevisionsReadable ==
    ASSUME BaseInv, EvidenceInv, runState = "implementing"
    PROVE  RevisionReadable
<1>. DEFINE asked == EventsOf({"revision_required"})
            ready == EventsOf({"implementation_ready"})
<1>. SUFFICES ASSUME ready # {}
              PROVE  /\ asked # {}
                     /\ \E i \in DOMAIN invocations["reviewer"] :
                           /\ invocations["reviewer"][i].attempt = events[Latest(asked)].attempt
                           /\ invocations["reviewer"][i].verdict = "revision_required"
  BY DEF RevisionReadable
<1>1. asked # {}
  <2>1. Cardinality(ready) = Cardinality(asked)
    BY DEF EvidenceInv, CountFacts, Count, IsTerminal, TerminalStates
  <2>2. IsFiniteSet(ready) /\ IsFiniteSet(asked)
    BY EventsOfFinite DEF BaseInv, TypeOK
  <2>. QED  BY <2>1, <2>2, FS_EmptySet
<1>2. Latest(asked) \in asked
  <2>1. asked \in SUBSET (0 .. Len(events)) /\ Len(events) \in Nat
    BY EventsOfFinite DEF BaseInv, TypeOK
  <2>. QED  BY <1>1, <2>1, LatestMember
<1>. DEFINE i == Latest(asked)
<1>3. i \in DOMAIN events /\ events[i].kind = "revision_required"
  BY <1>2 DEF EventsOf
<1>4. events[i].sender = "reviewer" /\ i \in ModelEvents
  BY <1>3 DEF EvidenceInv, SenderFacts, ExpectedSender, ModelEvents, ModelRoles
<1>5. /\ events[i].attempt \in DOMAIN invocations["reviewer"]
      /\ Supports(invocations["reviewer"][events[i].attempt].verdict, "revision_required")
      /\ "reviewer" \in ModelRoles
  BY <1>3, <1>4, CitedNumber
<1>6. invocations["reviewer"][events[i].attempt].attempt = events[i].attempt
  BY <1>5 DEF BaseInv, AttemptsNumberInvocations
<1>. QED  BY <1>1, <1>5, <1>6 DEF Supports

LEMMA RecordsFit == BaseInv /\ EvidenceInv => RecordsConsistent(runState)
<1>. SUFFICES ASSUME BaseInv, EvidenceInv PROVE RecordsConsistent(runState)
  OBVIOUS
<1>1. ASSUME NEW kind \in RequiredCheckpoints(runState)
      PROVE  CheckpointReadable(kind)
  <2>1. ~IsTerminal
    BY <1>1 DEF RequiredCheckpoints, IsTerminal, TerminalStates
  <2>2. kind \in {"plan_proposed", "plan_challenged", "plan_finalized"} /\ Count({kind}) = 1
    BY <1>1, <2>1 DEF RequiredCheckpoints, EvidenceInv, CountFacts,
       BeforePlan, BeforeChallenge, BeforeReady
  <2>. QED  BY <2>2, CheckpointsReadable
<1>2. ASSUME runState \in RoleStates
      PROVE  Cardinality(Results(runState)) \in {Consumed(runState), Consumed(runState) + 1}
  <2>1. ~IsTerminal /\ Consumed(runState) = Count(CheckpointsOf(runState))
    BY <1>2, ConsumedCounts DEF EvidenceInv, IsTerminal, TerminalStates, RoleStates
  <2>. QED  BY <1>2, <2>1 DEF EvidenceInv, ResultFacts
<1>3. runState = "implementing" => RevisionReadable
  BY RevisionsReadable
<1>4. runState \in {"reviewing", "verifying"} => EventsOf({"implementation_ready"}) # {}
  BY DEF EvidenceInv, CandidateFacts
<1>. QED  BY <1>1, <1>2, <1>3, <1>4 DEF RecordsConsistent

LEMMA CompletionRests == BaseInv /\ EvidenceInv => CompletionIsEvidenced
<1>. SUFFICES ASSUME BaseInv, EvidenceInv, runState = "completed"
              PROVE  /\ PriorCandidate # BaseCommit
                     /\ ApprovedAt(PriorCandidate)
                     /\ RecordedChecks = {Suite(TRUE)}
                     /\ head = PriorCandidate
  BY DEF CompletionIsEvidenced, Suite
<1>. DEFINE ready == EventsOf({"implementation_ready"})
<1>1. ready # {} /\ head = PriorCandidate
  BY DEF EvidenceInv, CandidateFacts
<1>2. PriorCandidate # BaseCommit
  <2>1. ready \in SUBSET (0 .. Len(events)) /\ Len(events) \in Nat
    BY EventsOfFinite DEF BaseInv, TypeOK
  <2>2. Latest(ready) \in ready
    BY <1>1, <2>1, LatestMember
  <2>3. events[Latest(ready)].candidate \in 1 .. head
    BY <2>2 DEF EvidenceInv, CandidateFacts
  <2>. QED  BY <1>1, <2>3 DEF PriorCandidate, BaseCommit
<1>3. ApprovedAt(PriorCandidate) /\ checks = {Suite(TRUE)}
  BY DEF EvidenceInv, ReviewFacts, CheckFacts
<1>4. RecordedChecks = {Suite(TRUE)}
  BY <1>3 DEF RecordedChecks, Suite
<1>. QED  BY <1>1, <1>2, <1>3, <1>4

\* None of the StateErrors by which _drive_run refuses its own database is reachable,
\* wherever the supervisor crashed, was interrupted or was started again.
THEOREM RecordsFitTogether == Spec => []RecordsAlwaysConsistent
<1>1. BaseInv /\ EvidenceInv => RecordsAlwaysConsistent
  BY RecordsFit DEF RecordsAlwaysConsistent
<1>. QED  BY <1>1, BaseHolds, EvidenceHolds, PTL

\* Every event of a model role rests on a stored result of that role whose verdict
\* supports it, and no result is used for two events.
THEOREM EventsRestOnResults == Spec => []EventsCiteTheirResults
<1>1. EvidenceInv => EventsCiteTheirResults
  BY DEF EvidenceInv, CiteFacts, OnceFacts, EventsCiteTheirResults
<1>. QED  BY <1>1, EvidenceHolds, PTL

\* A completed run was reviewed, verified and left on its branch at one and the same
\* commit, which is not the commit that the run started from.
THEOREM CompletionRestsOnEvidence == Spec => []CompletionIsEvidenced
BY CompletionRests, BaseHolds, EvidenceHolds, PTL

=============================================================================
