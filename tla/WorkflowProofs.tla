--------------------------- MODULE WorkflowProofs ---------------------------
(***************************************************************************)
(* Proofs about Workflow for every value of its limits.                    *)
(***************************************************************************)
EXTENDS WorkflowProperties, TLAPS, Integers, FiniteSetTheorems, WellFoundedInduction

(***************************************************************************)
(* Queries                                                                 *)
(***************************************************************************)

\* Latest returns the greatest element of a bounded, non-empty set of positions.
LEMMA LatestMember ==
    ASSUME NEW n \in Nat, NEW positions \in SUBSET (0 .. n), positions # {}
    PROVE  /\ Latest(positions) \in positions
           /\ \A j \in positions : j <= Latest(positions)
<1>. DEFINE distances == {d \in 0 .. n : n - d \in positions}
<1>1. distances \subseteq Nat
  BY SMT
<1>2. distances # {}
  <2>1. PICK i \in positions : TRUE
    OBVIOUS
  <2>2. i \in 0 .. n /\ n - i \in 0 .. n /\ n - (n - i) = i
    BY SMT
  <2>. QED  BY <2>2
<1>3. PICK d \in distances : \A e \in distances : ~ (<<e, d>> \in OpToRel(<, Nat))
  <2>. HIDE DEF distances
  <2>. QED  BY <1>1, <1>2, NatLessThanWellFounded, WFMin
<1>4. \A e \in distances : d <= e
  <2>. SUFFICES ASSUME NEW e \in distances PROVE d <= e
    OBVIOUS
  <2>1. d \in Nat /\ e \in Nat
    BY <1>1
  <2>2. ~ (<<e, d>> \in OpToRel(<, Nat))
    BY <1>3
  <2>3. ~ (e < d)
    BY <2>1, <2>2, Zenon DEF OpToRel
  <2>. QED  BY <2>1, <2>3
<1>5. n - d \in positions
  BY <1>3
<1>6. \A j \in positions : j <= n - d
  <2>. SUFFICES ASSUME NEW j \in positions PROVE j <= n - d
    OBVIOUS
  <2>1. j \in 0 .. n /\ n - j \in 0 .. n /\ n - (n - j) = j
    BY SMT
  <2>2. n - j \in distances
    BY <2>1
  <2>3. d \in Nat /\ d <= n - j
    BY <2>2, <1>1, <1>4
  <2>. QED  BY <2>1, <2>3, SMT
<1>. QED  BY <1>5, <1>6 DEF Latest

\* The role a state waits for is a model role, and its phase one of the state's.
LEMMA RoleOfState ==
    ASSUME NEW state \in RoleStates
    PROVE  /\ RoleOf(state) \in ModelRoles
           /\ PhaseOf(state) \in Phases
           /\ PhaseOf(state) \in PhasesOf(state)
BY DEF RoleStates, RoleOf, ModelRoles, PhaseOf, PhasesOf, Phases

\* Sets of event positions are finite and bounded by the number of events.
LEMMA EventsOfFinite ==
    ASSUME events \in Seq(Event), NEW kinds
    PROVE  /\ EventsOf(kinds) \in SUBSET (0 .. Len(events))
           /\ IsFiniteSet(EventsOf(kinds))
           /\ Cardinality(EventsOf(kinds)) \in Nat
<1>1. EventsOf(kinds) \in SUBSET (1 .. Len(events)) /\ Len(events) \in Nat
  BY DEF EventsOf
<1>2. IsFiniteSet(1 .. Len(events))
  BY <1>1, FS_Interval
<1>3. IsFiniteSet(EventsOf(kinds))
  BY <1>1, <1>2, FS_Subset
<1>. QED  BY <1>1, <1>3, FS_CardinalityType

\* The prior candidate is a commit.
LEMMA PriorCandidateType ==
    ASSUME events \in Seq(Event)
    PROVE  PriorCandidate \in Nat
<1>. DEFINE ready == EventsOf({"implementation_ready"})
<1>1. CASE ready = {}
  BY <1>1 DEF PriorCandidate, BaseCommit
<1>2. CASE ready # {}
  <2>1. Latest(ready) \in ready
    <3>1. ready \in SUBSET (0 .. Len(events)) /\ Len(events) \in Nat
      BY EventsOfFinite
    <3>. QED  BY <1>2, <3>1, LatestMember
  <2>2. Latest(ready) \in DOMAIN events
    BY <2>1 DEF EventsOf
  <2>3. events[Latest(ready)] \in Event
    BY <2>2
  <2>. QED  BY <1>2, <2>3 DEF PriorCandidate, Event
<1>. QED  BY <1>1, <1>2

LEMMA CommitType ==
    ASSUME events \in Seq(Event), NEW state
    PROVE  CommitOf(state) \in Nat
BY PriorCandidateType DEF CommitOf, BaseCommit

\* Positions of a role's stored results.
LEMMA ResultsFinite ==
    ASSUME invocations \in [ModelRoles -> Seq(Invocation)], NEW state \in RoleStates
    PROVE  /\ Results(state) \in SUBSET (0 .. Len(invocations[RoleOf(state)]))
           /\ IsFiniteSet(Results(state))
           /\ Cardinality(Results(state)) \in Nat
<1>. DEFINE own == invocations[RoleOf(state)]
<1>1. own \in Seq(Invocation)
  BY RoleOfState
<1>2. Results(state) \in SUBSET (1 .. Len(own)) /\ Len(own) \in Nat
  BY <1>1 DEF Results
<1>3. IsFiniteSet(1 .. Len(own))
  BY <1>2, FS_Interval
<1>4. IsFiniteSet(Results(state))
  BY <1>2, <1>3, FS_Subset
<1>. QED  BY <1>2, <1>4, FS_CardinalityType

\* The latest of a role's stored results is one of its invocations.
LEMMA LatestResultType ==
    ASSUME invocations \in [ModelRoles -> Seq(Invocation)], NEW state \in RoleStates,
           Results(state) # {}
    PROVE  /\ Latest(Results(state)) \in Results(state)
           /\ LatestResult(state) \in Invocation
           /\ LatestResult(state).status = "succeeded"
<1>1. Latest(Results(state)) \in Results(state)
  <2>1. Len(invocations[RoleOf(state)]) \in Nat
    BY RoleOfState
  <2>. QED  BY <2>1, ResultsFinite, LatestMember
<1>2. Latest(Results(state)) \in DOMAIN invocations[RoleOf(state)]
  BY <1>1 DEF Results
<1>3. RoleOf(state) \in ModelRoles
  BY RoleOfState
<1>4. LatestResult(state) \in Invocation
  BY <1>2, <1>3 DEF LatestResult
<1>5. LatestResult(state).status = "succeeded"
  BY <1>1 DEF LatestResult, Results
<1>. QED  BY <1>1, <1>4, <1>5

LEMMA ConsumedType ==
    ASSUME events \in Seq(Event), NEW state \in RoleStates
    PROVE  Consumed(state) \in Nat
BY EventsOfFinite DEF Consumed, RoleStates

\* A result at hand is one that is stored.
LEMMA HasResultStored ==
    ASSUME events \in Seq(Event), NEW state \in RoleStates, HasResult(state)
    PROVE  Results(state) # {}
<1>1. Consumed(state) \in Nat
  BY ConsumedType
<1>2. Cardinality(Results(state)) # 0
  BY <1>1 DEF HasResult
<1>. QED  BY <1>2, FS_EmptySet

\* Where attempts number the invocations, the next attempt is the next number.
LEMMA NextAttemptCounts ==
    ASSUME invocations \in [ModelRoles -> Seq(Invocation)], AttemptsNumberInvocations,
           NEW role \in ModelRoles
    PROVE  NextAttempt(role) = Len(invocations[role]) + 1
<1>. DEFINE own == invocations[role]
            attempts == {0} \cup {own[i].attempt : i \in DOMAIN own}
<1>1. own \in Seq(Invocation) /\ Len(own) \in Nat /\ DOMAIN own = 1 .. Len(own)
  OBVIOUS
<1>2. attempts = 0 .. Len(own)
  <2>1. \A i \in DOMAIN own : own[i].attempt = i
    BY DEF AttemptsNumberInvocations
  <2>2. {own[i].attempt : i \in DOMAIN own} = 1 .. Len(own)
    BY <2>1, <1>1
  <2>3. {0} \cup (1 .. Len(own)) = 0 .. Len(own)
    <3>. HIDE DEF own
    <3>. QED  BY <1>1, SMT
  <2>. QED  BY <2>2, <2>3
<1>3. /\ Latest(attempts) \in attempts
      /\ \A j \in attempts : j <= Latest(attempts)
  BY <1>1, <1>2, LatestMember
<1>4. Latest(attempts) = Len(own)
  <2>. HIDE DEF attempts
  <2>. QED  BY <1>1, <1>2, <1>3
<1>5. NextAttempt(role) = 1 + Latest(attempts)
  BY Zenon DEF NextAttempt
<1>. QED
  <2>. HIDE DEF attempts
  <2>. QED  BY <1>4, <1>5, <1>1

(***************************************************************************)
(* Durable writes                                                          *)
(***************************************************************************)

\* Accepting an event appends it, in a run that has not ended.
LEMMA AcceptAppends ==
    ASSUME TypeOK, NEW kind \in EventKinds, NEW sender, NEW attempt \in Nat,
           NEW candidate \in Nat, Accept(kind, sender, attempt, candidate)
    PROVE  /\ ~IsTerminal
           /\ runState' \in RunStates
           /\ Applies(runState, kind, sender, runState')
           /\ events' \in Seq(Event)
           /\ Len(events') = Len(events) + 1
           /\ events' # << >>
<1>. DEFINE event == [kind |-> kind, sender |-> sender, attempt |-> attempt,
                      candidate |-> candidate, status |-> "local_pending"]
<1>1. /\ runState' \in RunStates
      /\ Applies(runState, kind, sender, runState')
      /\ events' = Append(events, event)
  BY DEF Accept
<1>2. ~IsTerminal /\ sender = ExpectedSender[kind]
  BY <1>1 DEF Applies, IsTerminal
<1>3. sender \in Roles
  BY <1>2 DEF EventKinds, ExpectedSender, Roles
<1>4. event \in Event
  BY <1>3 DEF Event, TransportStatuses
<1>5. events \in Seq(Event)
  BY DEF TypeOK
<1>. HIDE DEF event
<1>6. events' \in Seq(Event) /\ Len(events') = Len(events) + 1 /\ events' # << >>
  BY <1>1, <1>4, <1>5
<1>. QED  BY <1>1, <1>2, <1>6

\* Marking the transport of an event changes nothing else of any event.
LEMMA MarkKeeps ==
    ASSUME events \in Seq(Event), NEW n, NEW status \in TransportStatuses, Mark(n, status)
    PROVE  /\ events' \in Seq(Event)
           /\ Len(events') = Len(events)
           /\ \A i \in 1 .. Len(events) :
                 /\ events'[i].kind = events[i].kind
                 /\ events'[i].sender = events[i].sender
                 /\ events'[i].attempt = events[i].attempt
                 /\ events'[i].candidate = events[i].candidate
                 /\ events'[i].status = IF i = n THEN status ELSE events[i].status
<1>1. events' = [i \in 1 .. Len(events) |->
                   IF i = n THEN [events[i] EXCEPT !.status = status] ELSE events[i]]
  <2>1. DOMAIN events = 1 .. Len(events)
    OBVIOUS
  <2>2. events' = [events EXCEPT ![n] = [events[n] EXCEPT !.status = status]]
    BY DEF Mark
  <2>. QED  BY <2>1, <2>2
<1>2. \A i \in 1 .. Len(events) : events[i] \in Event
  OBVIOUS
<1>3. \A i \in 1 .. Len(events) : events'[i] \in Event
  BY <1>1, <1>2 DEF Event
<1>4. events' \in Seq(Event) /\ Len(events') = Len(events)
  <2>1. Len(events) \in Nat
    OBVIOUS
  <2>2. events' \in [1 .. Len(events) -> Event]
    BY <1>1, <1>3
  <2>. QED  BY <2>1, <2>2
<1>5. \A i \in 1 .. Len(events) :
          events'[i] = IF i = n THEN [events[i] EXCEPT !.status = status] ELSE events[i]
  BY <1>1
<1>6. \A e \in Event :
          LET marked == [e EXCEPT !.status = status]
          IN  /\ marked.kind = e.kind
              /\ marked.sender = e.sender
              /\ marked.attempt = e.attempt
              /\ marked.candidate = e.candidate
              /\ marked.status = status
  BY DEF Event
<1>7. \A i \in 1 .. Len(events) :
                 /\ events'[i].kind = events[i].kind
                 /\ events'[i].sender = events[i].sender
                 /\ events'[i].attempt = events[i].attempt
                 /\ events'[i].candidate = events[i].candidate
                 /\ events'[i].status = IF i = n THEN status ELSE events[i].status
  <2>. SUFFICES ASSUME NEW i \in 1 .. Len(events)
                PROVE  /\ events'[i].kind = events[i].kind
                       /\ events'[i].sender = events[i].sender
                       /\ events'[i].attempt = events[i].attempt
                       /\ events'[i].candidate = events[i].candidate
                       /\ events'[i].status = IF i = n THEN status ELSE events[i].status
    OBVIOUS
  <2>1. CASE i = n
    BY <2>1, <1>2, <1>5, <1>6
  <2>2. CASE i # n
    BY <2>2, <1>5
  <2>. QED  BY <2>1, <2>2
<1>. QED  BY <1>4, <1>7

\* Starting an attempt appends one invocation of the role the run waits for.
LEMMA StartAppends ==
    ASSUME TypeOK, runState \in RoleStates, NEW attempt \in Nat,
           Start(RoleOf(runState), attempt)
    PROVE  LET role == RoleOf(runState)
           IN  /\ invocations' \in [ModelRoles -> Seq(Invocation)]
               /\ invocations'[role] # << >>
               /\ Len(invocations'[role]) = Len(invocations[role]) + 1
               /\ \A i \in 1 .. Len(invocations[role]) :
                     invocations'[role][i] = invocations[role][i]
               /\ invocations'[role][Len(invocations'[role])].attempt = attempt
               /\ invocations'[role][Len(invocations'[role])].phase \in PhasesOf(runState)
               /\ invocations'[role][Len(invocations'[role])].status = "started"
               /\ invocations'[role][Len(invocations'[role])].commit = CommitOf(runState)
               /\ \A other \in ModelRoles \ {role} : invocations'[other] = invocations[other]
<1>. DEFINE role == RoleOf(runState)
            started == [phase |-> PhaseOf(runState), attempt |-> attempt,
                        commit |-> CommitOf(runState),
                        status |-> "started", verdict |-> "none"]
<1>1. role \in ModelRoles /\ PhaseOf(runState) \in Phases /\ PhaseOf(runState) \in PhasesOf(runState)
  BY RoleOfState
<1>2. invocations' = [invocations EXCEPT ![role] = Append(invocations[role], started)]
  BY DEF Start
<1>3. started \in Invocation
  <2>1. CommitOf(runState) \in Nat
    BY CommitType DEF TypeOK
  <2>. QED  BY <1>1, <2>1 DEF Invocation
<1>4. /\ started.attempt = attempt /\ started.phase \in PhasesOf(runState)
      /\ started.status = "started" /\ started.commit = CommitOf(runState)
  BY <1>1
<1>5. invocations \in [ModelRoles -> Seq(Invocation)]
  BY DEF TypeOK
<1>. HIDE DEF started, role
<1>6. /\ invocations'[role] = Append(invocations[role], started)
      /\ \A other \in ModelRoles \ {role} : invocations'[other] = invocations[other]
      /\ invocations' \in [ModelRoles -> Seq(Invocation)]
  BY <1>1, <1>2, <1>3, <1>5
<1>7. invocations[role] \in Seq(Invocation)
  BY <1>1, <1>5
<1>8. /\ invocations'[role] # << >>
      /\ Len(invocations'[role]) = Len(invocations[role]) + 1
      /\ \A i \in 1 .. Len(invocations[role]) : invocations'[role][i] = invocations[role][i]
      /\ invocations'[role][Len(invocations'[role])] = started
  BY <1>3, <1>6, <1>7
<1>. QED  BY <1>4, <1>6, <1>8 DEF role

\* Finishing an attempt changes only the outcome of the role's last invocation.
LEMMA FinishKeeps ==
    ASSUME TypeOK, runState \in RoleStates, invocations[RoleOf(runState)] # << >>,
           NEW status \in {"succeeded", "failed", "canceled"},
           NEW verdict \in Verdicts \cup {"none"}, Finish(status, verdict)
    PROVE  LET role == RoleOf(runState)
               last == Len(invocations[role])
           IN  /\ invocations' \in [ModelRoles -> Seq(Invocation)]
               /\ \A r \in ModelRoles : Len(invocations'[r]) = Len(invocations[r])
               /\ \A other \in ModelRoles \ {role} : invocations'[other] = invocations[other]
               /\ \A i \in 1 .. last : i # last => invocations'[role][i] = invocations[role][i]
               /\ invocations'[role][last].status = status
               /\ invocations'[role][last].phase = invocations[role][last].phase
               /\ invocations'[role][last].attempt = invocations[role][last].attempt
               /\ invocations'[role][last].commit = invocations[role][last].commit
               /\ invocations'[role][last].verdict = verdict
<1>. DEFINE role == RoleOf(runState)
            own == invocations[role]
            last == Len(own)
            finished == [own[last] EXCEPT !.status = status, !.verdict = verdict]
<1>1. role \in ModelRoles /\ invocations \in [ModelRoles -> Seq(Invocation)]
  BY RoleOfState DEF TypeOK
<1>2. own \in Seq(Invocation) /\ last \in 1 .. Len(own) /\ own[last] \in Invocation
  BY <1>1
<1>3. /\ finished \in Invocation
      /\ finished.status = status
      /\ finished.phase = own[last].phase
      /\ finished.attempt = own[last].attempt
      /\ finished.commit = own[last].commit
      /\ finished.verdict = verdict
  <2>. HIDE DEF own, last
  <2>. QED  BY <1>2 DEF Invocation
<1>4. invocations' = [invocations EXCEPT ![role] = [own EXCEPT ![last] = finished]]
  BY <1>1, <1>2 DEF Finish
<1>. HIDE DEF role, finished, last
<1>5. /\ invocations'[role] = [own EXCEPT ![last] = finished]
      /\ \A other \in ModelRoles \ {role} : invocations'[other] = invocations[other]
      /\ DOMAIN invocations' = ModelRoles
  BY <1>1, <1>4
<1>6. /\ [own EXCEPT ![last] = finished] \in Seq(Invocation)
      /\ Len([own EXCEPT ![last] = finished]) = Len(own)
      /\ [own EXCEPT ![last] = finished][last] = finished
      /\ \A i \in 1 .. Len(own) : i # last => [own EXCEPT ![last] = finished][i] = own[i]
  <2>. HIDE DEF own
  <2>. QED  BY <1>2, <1>3
<1>7. invocations' \in [ModelRoles -> Seq(Invocation)]
  <2>1. invocations' = [r \in ModelRoles |-> invocations'[r]]
    BY <1>1, <1>4
  <2>2. \A r \in ModelRoles : invocations'[r] \in Seq(Invocation)
    BY <1>1, <1>5, <1>6
  <2>. QED  BY <2>1, <2>2
<1>8. \A r \in ModelRoles : Len(invocations'[r]) = Len(invocations[r])
  BY <1>5, <1>6
<1>. QED  BY <1>3, <1>5, <1>6, <1>7, <1>8 DEF role, last

\* Both keep the numbering of attempts.
LEMMA StartNumbers ==
    ASSUME TypeOK, AttemptsNumberInvocations, runState \in RoleStates,
           Start(RoleOf(runState), Len(invocations[RoleOf(runState)]) + 1)
    PROVE  AttemptsNumberInvocations'
<1>. DEFINE role == RoleOf(runState)
            n == Len(invocations[role])
<1>1. role \in ModelRoles /\ invocations \in [ModelRoles -> Seq(Invocation)] /\ n \in Nat
  BY RoleOfState DEF TypeOK
<1>2. /\ invocations' \in [ModelRoles -> Seq(Invocation)]
      /\ Len(invocations'[role]) = n + 1
      /\ \A i \in 1 .. n : invocations'[role][i] = invocations[role][i]
      /\ invocations'[role][n + 1].attempt = n + 1
      /\ \A other \in ModelRoles \ {role} : invocations'[other] = invocations[other]
  BY <1>1, StartAppends, n + 1 \in Nat
<1>. HIDE DEF role, n
<1>. SUFFICES ASSUME NEW r \in ModelRoles, NEW i \in DOMAIN invocations'[r]
              PROVE  invocations'[r][i].attempt = i
  BY DEF AttemptsNumberInvocations
<1>3. CASE r # role
  BY <1>2, <1>3 DEF AttemptsNumberInvocations
<1>4. CASE r = role
  <2>1. i \in 1 .. n + 1 /\ DOMAIN invocations[role] = 1 .. n
    BY <1>1, <1>2, <1>4 DEF n
  <2>2. CASE i = n + 1
    BY <1>2, <1>4, <2>2
  <2>3. CASE i # n + 1
    BY <1>1, <1>2, <1>4, <2>1, <2>3 DEF AttemptsNumberInvocations
  <2>. QED  BY <2>2, <2>3
<1>. QED  BY <1>3, <1>4

LEMMA FinishNumbers ==
    ASSUME TypeOK, AttemptsNumberInvocations, runState \in RoleStates,
           invocations[RoleOf(runState)] # << >>,
           NEW status \in {"succeeded", "failed", "canceled"},
           NEW verdict \in Verdicts \cup {"none"}, Finish(status, verdict)
    PROVE  AttemptsNumberInvocations'
<1>. DEFINE role == RoleOf(runState)
            n == Len(invocations[role])
<1>1. role \in ModelRoles /\ invocations \in [ModelRoles -> Seq(Invocation)] /\ n \in Nat
  BY RoleOfState DEF TypeOK
<1>2. /\ invocations' \in [ModelRoles -> Seq(Invocation)]
      /\ Len(invocations'[role]) = n
      /\ \A other \in ModelRoles \ {role} : invocations'[other] = invocations[other]
      /\ \A i \in 1 .. n : i # n => invocations'[role][i] = invocations[role][i]
      /\ invocations'[role][n].attempt = invocations[role][n].attempt
  BY <1>1, FinishKeeps
<1>. HIDE DEF role, n
<1>. SUFFICES ASSUME NEW r \in ModelRoles, NEW i \in DOMAIN invocations'[r]
              PROVE  invocations'[r][i].attempt = i
  BY DEF AttemptsNumberInvocations
<1>3. CASE r # role
  BY <1>2, <1>3 DEF AttemptsNumberInvocations
<1>4. CASE r = role
  <2>1. i \in 1 .. n /\ DOMAIN invocations[role] = 1 .. n
    BY <1>1, <1>2, <1>4 DEF n
  <2>2. invocations'[role][i].attempt = invocations[role][i].attempt
    BY <1>2, <2>1
  <2>. QED  BY <1>1, <1>4, <2>1, <2>2 DEF AttemptsNumberInvocations
<1>. QED  BY <1>3, <1>4

(***************************************************************************)
(* Types, attempts and the position of the coroutine                       *)
(***************************************************************************)

BaseInv == TypeOK /\ AttemptsNumberInvocations /\ StageFacts

USE LimitsAssumption

\* The first state satisfies the base invariant.
LEMMA BaseInit == Init => BaseInv
<1>. SUFFICES ASSUME Init PROVE BaseInv
  OBVIOUS
<1>. USE DEF Init
<1>1. \A role \in ModelRoles : invocations[role] = << >>
  OBVIOUS
<1>2. TypeOK
  <2>1. invocations \in [ModelRoles -> Seq(Invocation)]
    OBVIOUS
  <2>. QED  BY <2>1 DEF TypeOK, RunStates, Stages, BaseCommit
<1>3. AttemptsNumberInvocations
  BY <1>1 DEF AttemptsNumberInvocations
<1>4. StageFacts
  BY DEF StageFacts
<1>. QED  BY <1>2, <1>3, <1>4 DEF BaseInv

\* A step that leaves the invocations alone and ends at a stage of which nothing is
\* claimed keeps attempts and stage facts.
PlainStages ==
    {"reconcile", "reconcile_cancel", "restore", "drive", "failing", "canceling", "exited"}

LEMMA PlainStep ==
    ASSUME AttemptsNumberInvocations, UNCHANGED invocations, pc' \in PlainStages, repair' = 0
    PROVE  AttemptsNumberInvocations' /\ StageFacts'
BY DEF AttemptsNumberInvocations, StageFacts, PlainStages

\* Accepting an event and going to publish it keeps the base invariant.
LEMMA AcceptStep ==
    ASSUME BaseInv, NEW kind \in EventKinds, NEW sender, NEW attempt \in Nat,
           NEW candidate \in Nat, Accept(kind, sender, attempt, candidate),
           pc' \in {"publish", "publish_final", "exited"},
           UNCHANGED <<invocations, checks, head, repair, crashes>>,
           pc \notin {"invoking", "repairing"}
    PROVE  BaseInv'
<1>1. runState' \in RunStates /\ events' \in Seq(Event) /\ events' # << >>
  BY AcceptAppends DEF BaseInv
<1>2. TypeOK'
  BY <1>1 DEF BaseInv, TypeOK, Stages
<1>3. AttemptsNumberInvocations'
  BY DEF BaseInv, AttemptsNumberInvocations
<1>4. StageFacts'
  BY <1>1 DEF BaseInv, StageFacts
<1>. QED  BY <1>2, <1>3, <1>4 DEF BaseInv

\* The result in hand is the latest of the stored results of the state's role.
LEMMA ResultInHandStored ==
    ASSUME BaseInv, ResultInHand \/ pc = "returned"
    PROVE  /\ pc \in {"returned", "drive"}
           /\ runState \in RoleStates
           /\ Results(runState) # {}
           /\ LatestResult(runState) \in Invocation
<1>1. pc \in {"returned", "drive"} /\ runState \in RoleStates
  BY DEF ResultInHand, BaseInv, StageFacts
<1>2. Results(runState) # {}
  <2>1. CASE pc = "returned"
    <3>. DEFINE own == invocations[RoleOf(runState)]
    <3>1. own \in Seq(Invocation) /\ own # << >>
      BY <1>1, <2>1, RoleOfState DEF BaseInv, TypeOK, StageFacts
    <3>2. own[Len(own)].status = "succeeded" /\ own[Len(own)].phase \in PhasesOf(runState)
      BY <2>1 DEF BaseInv, StageFacts, LastOf
    <3>3. Len(own) \in DOMAIN own
      <4>. HIDE DEF own
      <4>. QED  BY <3>1
    <3>4. Len(own) \in Results(runState)
      BY <3>2, <3>3 DEF Results
    <3>. QED  BY <3>4
  <2>2. CASE pc # "returned"
    BY <1>1, <2>2, HasResultStored DEF ResultInHand, BaseInv, TypeOK
  <2>. QED  BY <2>1, <2>2
<1>. QED  BY <1>1, <1>2, LatestResultType DEF BaseInv, TypeOK

\* The invocation that runs is the last one of the role the run waits for.
LEMMA RunningInvocation ==
    ASSUME BaseInv, pc \in {"invoking", "repairing"}
    PROVE  /\ runState \in RoleStates
           /\ RoleOf(runState) \in ModelRoles
           /\ invocations[RoleOf(runState)] \in Seq(Invocation)
           /\ invocations[RoleOf(runState)] # << >>
           /\ LastOf(RoleOf(runState)).phase \in PhasesOf(runState)
BY RoleOfState DEF BaseInv, StageFacts, TypeOK

\* Starting the next attempt keeps the base invariant.
LEMMA StartStep ==
    ASSUME BaseInv, runState \in RoleStates,
           Start(RoleOf(runState), Len(invocations[RoleOf(runState)]) + 1),
           pc' = "invoking",
           UNCHANGED <<runState, events, checks, head, repair, crashes>>
    PROVE  BaseInv'
<1>. DEFINE role == RoleOf(runState)
<1>1. role \in ModelRoles /\ Len(invocations[role]) + 1 \in Nat
  BY RoleOfState DEF BaseInv, TypeOK
<1>2. /\ invocations' \in [ModelRoles -> Seq(Invocation)]
      /\ invocations'[role] # << >>
      /\ invocations'[role][Len(invocations'[role])].phase \in PhasesOf(runState)
  BY <1>1, StartAppends DEF BaseInv
<1>3. TypeOK'
  BY <1>2 DEF BaseInv, TypeOK, Stages
<1>4. AttemptsNumberInvocations'
  BY StartNumbers DEF BaseInv
<1>5. StageFacts'
  BY <1>2 DEF StageFacts, LastOf
<1>. QED  BY <1>3, <1>4, <1>5 DEF BaseInv

\* Finishing the running attempt keeps the base invariant, whatever comes next.
LEMMA FinishStep ==
    ASSUME BaseInv, pc = "invoking", ModelMayCommit,
           NEW status \in {"succeeded", "failed", "canceled"},
           NEW verdict \in Verdicts \cup {"none"}, Finish(status, verdict),
           UNCHANGED <<runState, events, checks, crashes>>,
           \/ pc' \in {"failing", "canceling"} /\ repair' = 0
           \/ pc' = "repairing" /\ repair' \in 0 .. MaxSchemaRepairs
           \/ pc' = "returned" /\ repair' = 0 /\ status = "succeeded"
    PROVE  BaseInv'
<1>. DEFINE role == RoleOf(runState)
            last == Len(invocations[role])
<1>1. /\ runState \in RoleStates
      /\ role \in ModelRoles
      /\ invocations[role] # << >>
      /\ invocations[role][last].phase \in PhasesOf(runState)
  BY RunningInvocation DEF LastOf
<1>2. /\ invocations' \in [ModelRoles -> Seq(Invocation)]
      /\ Len(invocations'[role]) = last
      /\ invocations'[role][last].status = status
      /\ invocations'[role][last].phase = invocations[role][last].phase
  BY <1>1, FinishKeeps DEF BaseInv
<1>3. invocations'[role] # << >>
  BY <1>1, <1>2 DEF BaseInv, TypeOK
<1>4. head' \in Nat
  BY DEF ModelMayCommit, BaseInv, TypeOK
<1>5. TypeOK'
  BY <1>2, <1>4 DEF BaseInv, TypeOK, Stages
<1>6. AttemptsNumberInvocations'
  BY <1>1, FinishNumbers DEF BaseInv
<1>7. StageFacts'
  BY <1>1, <1>2, <1>3 DEF StageFacts, LastOf
<1>. QED  BY <1>5, <1>6, <1>7 DEF BaseInv

LEMMA VerdictsType ==
    ASSUME NEW state \in RoleStates
    PROVE  VerdictsOf(state) \subseteq Verdicts
BY DEF RoleStates, VerdictsOf, Verdicts

(***************************************************************************)
(* Every step keeps the base invariant                                     *)
(***************************************************************************)

LEMMA EmitSteps == BaseInv /\ (EmitPublished \/ EmitFailed \/ FinalPublish) => BaseInv'
<1>. SUFFICES ASSUME BaseInv, EmitPublished \/ EmitFailed \/ FinalPublish PROVE BaseInv'
  OBVIOUS
<1>1. events \in Seq(Event) /\ repair = 0
  BY DEF BaseInv, TypeOK, StageFacts, EmitPublished, EmitFailed, FinalPublish
<1>2. events' \in Seq(Event)
  BY <1>1, MarkKeeps DEF EmitPublished, EmitFailed, FinalPublish, TransportStatuses
<1>3. TypeOK'
  BY <1>2 DEF BaseInv, TypeOK, Stages, EmitPublished, EmitFailed, FinalPublish
<1>4. AttemptsNumberInvocations' /\ StageFacts'
  BY <1>1, PlainStep DEF BaseInv, PlainStages, EmitPublished, EmitFailed, FinalPublish
<1>. QED  BY <1>3, <1>4 DEF BaseInv

LEMMA ReconcileSteps == BaseInv /\ (ReconcileEvent \/ ReconcileFailed) => BaseInv'
<1>. SUFFICES ASSUME BaseInv, ReconcileEvent \/ ReconcileFailed PROVE BaseInv'
  OBVIOUS
<1>1. events \in Seq(Event) /\ repair = 0
  BY DEF BaseInv, TypeOK, StageFacts, ReconcileEvent, ReconcileFailed
<1>2. events' \in Seq(Event)
  BY <1>1, MarkKeeps DEF ReconcileEvent, ReconcileFailed, TransportStatuses
<1>3. TypeOK'
  BY <1>2 DEF BaseInv, TypeOK, Stages, ReconcileEvent, ReconcileFailed
<1>4. AttemptsNumberInvocations' /\ StageFacts'
  BY <1>1, PlainStep DEF BaseInv, PlainStages, ReconcileEvent, ReconcileFailed
<1>. QED  BY <1>3, <1>4 DEF BaseInv

\* Control steps that write nothing durable: they end at a plain stage.
LEMMA ControlSteps ==
    BaseInv /\ (RefuseResult \/ DriveFailed \/ StepFailed \/ Resume \/ CancelIdle
                 \/ ReconcileDone \/ Restore \/ Crash) => BaseInv'
<1>. SUFFICES ASSUME BaseInv,
                     RefuseResult \/ DriveFailed \/ StepFailed \/ Resume \/ CancelIdle
                        \/ ReconcileDone \/ Restore \/ Crash
              PROVE  BaseInv'
  OBVIOUS
<1>1. UNCHANGED durableVars /\ pc' \in PlainStages
  BY DEF RefuseResult, DriveFailed, StepFailed, Resume, CancelIdle, ReconcileDone,
         Restore, Crash, PlainStages, durableVars
<1>2. repair' = 0 /\ crashes' \in 0 .. MaxCrashes
  BY DEF BaseInv, TypeOK, StageFacts, ResultInHand, RefuseResult, DriveFailed, StepFailed,
         Resume, CancelIdle, ReconcileDone, Restore, Crash
<1>3. TypeOK'
  BY <1>1, <1>2 DEF BaseInv, TypeOK, Stages, PlainStages, durableVars
<1>4. AttemptsNumberInvocations' /\ StageFacts'
  BY <1>1, <1>2, PlainStep DEF BaseInv, durableVars
<1>. QED  BY <1>3, <1>4 DEF BaseInv

\* A deadline or a cancellation, with and without a running invocation.
LEMMA InterruptStep ==
    ASSUME BaseInv, NEW handler \in {"failing", "canceling"}, Interrupt(handler)
    PROVE  BaseInv'
<1>1. CASE pc = "invoking"
  BY <1>1, FinishStep DEF Interrupt, Verdicts
<1>2. CASE pc # "invoking"
  <2>1. UNCHANGED durableVars /\ pc' \in PlainStages /\ repair' = 0 /\ UNCHANGED crashes
    BY <1>2 DEF Interrupt, PlainStages, durableVars
  <2>2. TypeOK'
    BY <2>1 DEF BaseInv, TypeOK, Stages, PlainStages, durableVars
  <2>. QED  BY <2>1, <2>2, PlainStep DEF BaseInv, durableVars
<1>. QED  BY <1>1, <1>2

\* A model answers, answers badly, or fails.
LEMMA AnswerSteps ==
    BaseInv /\ (InvocationSucceeded \/ InvocationMalformed \/ InvocationFailed) => BaseInv'
<1>1. ASSUME BaseInv, InvocationSucceeded PROVE BaseInv'
  <2>1. PICK verdict \in VerdictsOf(runState) : Finish("succeeded", verdict)
    BY <1>1 DEF InvocationSucceeded
  <2>2. verdict \in Verdicts \cup {"none"}
    BY <1>1, <2>1, RunningInvocation, VerdictsType DEF InvocationSucceeded
  <2>. QED  BY <1>1, <2>1, <2>2, FinishStep DEF InvocationSucceeded
<1>2. ASSUME BaseInv, InvocationMalformed PROVE BaseInv'
  <2>1. repair' \in 0 .. MaxSchemaRepairs
    BY <1>2 DEF InvocationMalformed, RepairsExhausted, BaseInv, TypeOK
  <2>2. \/ pc' = "failing" /\ repair' = 0
        \/ pc' = "repairing"
    BY <1>2 DEF InvocationMalformed
  <2>. QED  BY <1>2, <2>1, <2>2, FinishStep DEF InvocationMalformed
<1>3. ASSUME BaseInv, InvocationFailed PROVE BaseInv'
  BY <1>3, FinishStep DEF InvocationFailed
<1>. QED  BY <1>1, <1>2, <1>3

\* The first attempt of a role, and a repair of its answer.
LEMMA LaunchSteps == BaseInv /\ (DriveInvoke \/ RepairInvocation) => BaseInv'
<1>1. ASSUME BaseInv, DriveInvoke PROVE BaseInv'
  <2>1. NextAttempt(RoleOf(runState)) = Len(invocations[RoleOf(runState)]) + 1
    BY <1>1, NextAttemptCounts, RoleOfState DEF DriveInvoke, BaseInv, TypeOK
  <2>. QED  BY <1>1, <2>1, StartStep DEF DriveInvoke
<1>2. ASSUME BaseInv, RepairInvocation PROVE BaseInv'
  <2>. DEFINE own == invocations[RoleOf(runState)]
  <2>1. runState \in RoleStates /\ RoleOf(runState) \in ModelRoles
        /\ own \in Seq(Invocation) /\ own # << >>
    BY <1>2, RunningInvocation DEF RepairInvocation
  <2>2. own[Len(own)].attempt = Len(own)
    BY <1>2, <2>1 DEF BaseInv, AttemptsNumberInvocations
  <2>3. Start(RoleOf(runState), Len(own) + 1)
    BY <1>2, <2>2 DEF RepairInvocation, RepairAttempt
  <2>. QED  BY <1>2, <2>1, <2>3, StartStep DEF RepairInvocation
<1>. QED  BY <1>1, <1>2

\* Events that cite no model result.
LEMMA SupervisorEvents == BaseInv /\ (DriveSupervisor \/ Terminalize) => BaseInv'
<1>. USE DEF EventKinds, ExpectedSender, NoCommit
<1>1. ASSUME BaseInv, DriveSupervisor PROVE BaseInv'
  <2>1. NextAttempt("implementer") \in Nat
    BY <1>1, NextAttemptCounts DEF BaseInv, TypeOK, ModelRoles
  <2>2. CASE runState = "created"
    BY <1>1, <2>2, AcceptStep DEF DriveSupervisor
  <2>3. CASE runState = "ready"
    BY <1>1, <2>1, <2>3, AcceptStep DEF DriveSupervisor
  <2>. QED  BY <1>1, <2>2, <2>3 DEF DriveSupervisor
<1>2. ASSUME BaseInv, Terminalize PROVE BaseInv'
  <2>1. CASE IsTerminal
    <3>1. /\ UNCHANGED <<runState, events, invocations, checks, head, repair, crashes>>
          /\ pc' = "exited" /\ pc \in {"failing", "canceling"}
      BY <1>2, <2>1 DEF Terminalize
    <3>2. TypeOK' /\ repair' = 0
      BY <1>2, <3>1 DEF BaseInv, TypeOK, Stages, StageFacts
    <3>. QED  BY <1>2, <3>1, <3>2, PlainStep DEF BaseInv, PlainStages
  <2>2. CASE ~IsTerminal
    <3>1. /\ Accept(IF pc = "failing" THEN "run_failed" ELSE "run_canceled",
                    "supervisor", 1, NoCommit)
          /\ pc' \in {"publish_final", "exited"}
          /\ pc \in {"failing", "canceling"}
          /\ UNCHANGED <<invocations, checks, head, repair, crashes>>
      BY <1>2, <2>2 DEF Terminalize, FinalStage
    <3>2. (IF pc = "failing" THEN "run_failed" ELSE "run_canceled") \in EventKinds
      OBVIOUS
    <3>. QED  BY <1>2, <3>1, <3>2, AcceptStep
  <2>. QED  BY <2>1, <2>2
<1>. QED  BY <1>1, <1>2

\* Events that cite a stored result of a model.
LEMMA AdoptSteps ==
    BaseInv /\ (AdoptPlanning \/ AdoptReview \/ AcceptCandidate) => BaseInv'
<1>. USE DEF EventKinds, ExpectedSender, NoCommit
<1>1. ASSUME BaseInv, AdoptPlanning PROVE BaseInv'
  <2>1. LatestResult(runState).attempt \in Nat /\ pc \in {"returned", "drive"}
    BY <1>1, ResultInHandStored DEF AdoptPlanning, Invocation
  <2>2. PICK kind \in {"plan_proposed", "plan_challenged", "plan_finalized"},
             sender \in Roles :
             Accept(kind, sender, LatestResult(runState).attempt, NoCommit)
    BY <1>1 DEF AdoptPlanning, Roles
  <2>. QED  BY <1>1, <2>1, <2>2, AcceptStep DEF AdoptPlanning
<1>2. ASSUME BaseInv, AdoptReview PROVE BaseInv'
  <2>1. LatestResult(runState).attempt \in Nat /\ pc \in {"returned", "drive"}
    BY <1>2, ResultInHandStored DEF AdoptReview, Invocation
  <2>2. PriorCandidate \in Nat
    BY <1>2, PriorCandidateType DEF BaseInv, TypeOK
  <2>3. PICK kind \in {"review_approved", "revision_required"}, candidate \in Nat :
             Accept(kind, "reviewer", LatestResult(runState).attempt, candidate)
    BY <1>2, <2>2 DEF AdoptReview
  <2>. QED  BY <1>2, <2>1, <2>3, AcceptStep DEF AdoptReview
<1>3. ASSUME BaseInv, AcceptCandidate PROVE BaseInv'
  <2>1. runState = "implementing" /\ Results(runState) # {} /\ head \in Nat
    BY <1>3 DEF AcceptCandidate, BaseInv, StageFacts, TypeOK
  <2>2. LatestResult(runState).attempt \in Nat
    BY <1>3, <2>1, LatestResultType DEF BaseInv, TypeOK, RoleStates, Invocation
  <2>. QED  BY <1>3, <2>1, <2>2, AcceptStep DEF AcceptCandidate
<1>. QED  BY <1>1, <1>2, <1>3

\* The implementer's result is turned into a commit and handed off.
LEMMA CandidateSteps ==
    BaseInv /\ (AdoptImplementation \/ CommitPending \/ ValidateCommitted) => BaseInv'
<1>. SUFFICES ASSUME BaseInv, AdoptImplementation \/ CommitPending \/ ValidateCommitted
              PROVE  BaseInv'
  OBVIOUS
<1>1. /\ pc' \in {"materialize", "handoff"}
      /\ UNCHANGED <<runState, events, invocations, checks, repair, crashes>>
      /\ head' \in Nat
  BY DEF BaseInv, TypeOK, durableVars, AdoptImplementation, CommitPending, ValidateCommitted
<1>2. runState = "implementing" /\ Results(runState) # {} /\ repair = 0
  <2>1. CASE AdoptImplementation
    BY <2>1, ResultInHandStored DEF AdoptImplementation, BaseInv, StageFacts
  <2>2. CASE CommitPending \/ ValidateCommitted
    BY <2>2 DEF CommitPending, ValidateCommitted, BaseInv, StageFacts
  <2>. QED  BY <2>1, <2>2
<1>3. TypeOK'
  BY <1>1 DEF BaseInv, TypeOK, Stages
<1>4. AttemptsNumberInvocations'
  BY <1>1 DEF BaseInv, AttemptsNumberInvocations
<1>5. Results(runState)' = Results(runState)
  BY <1>1 DEF Results
<1>6. StageFacts'
  BY <1>1, <1>2, <1>5 DEF StageFacts
<1>. QED  BY <1>3, <1>4, <1>6 DEF BaseInv

\* The verifier runs, its suite is recorded and reported.
LEMMA VerifySteps ==
    BaseInv /\ (DriveVerify \/ RecordChecks \/ EmitVerification) => BaseInv'
<1>. USE DEF EventKinds, ExpectedSender
<1>1. ASSUME BaseInv, DriveVerify \/ RecordChecks PROVE BaseInv'
  <2>1. /\ pc' \in {"verifying", "verified"}
        /\ runState = "verifying"
        /\ repair = 0
        /\ UNCHANGED <<runState, events, invocations, head, repair, crashes>>
    BY <1>1 DEF DriveVerify, RecordChecks, BaseInv, StageFacts, durableVars
  <2>2. checks' \in SUBSET CheckSet
    <3>1. PriorCandidate \in Nat /\ checks \in SUBSET CheckSet
      BY <1>1, PriorCandidateType DEF BaseInv, TypeOK
    <3>. QED  BY <1>1, <3>1 DEF DriveVerify, RecordChecks, CheckSet, durableVars
  <2>3. TypeOK'
    BY <1>1, <2>1, <2>2 DEF BaseInv, TypeOK, Stages
  <2>4. AttemptsNumberInvocations' /\ StageFacts'
    BY <1>1, <2>1 DEF BaseInv, AttemptsNumberInvocations, StageFacts
  <2>. QED  BY <2>3, <2>4 DEF BaseInv
<1>2. ASSUME BaseInv, EmitVerification PROVE BaseInv'
  <2>1. PriorCandidate \in Nat
    BY <1>2, PriorCandidateType DEF BaseInv, TypeOK
  <2>2. PICK kind \in {"verification_passed", "verification_failed"} :
             Accept(kind, "verifier", 1, PriorCandidate)
    BY <1>2 DEF EmitVerification, VerificationEvent
  <2>. QED  BY <1>2, <2>1, <2>2, AcceptStep DEF EmitVerification
<1>. QED  BY <1>1, <1>2

\* Every step, or none, keeps the base invariant.
LEMMA BaseNext == BaseInv /\ [Next]_vars => BaseInv'
<1>. SUFFICES ASSUME BaseInv, [Next]_vars PROVE BaseInv'
  OBVIOUS
<1>1. CASE SupervisorStep
  BY <1>1, EmitSteps, ReconcileSteps, ControlSteps, AnswerSteps, LaunchSteps,
     SupervisorEvents, AdoptSteps, CandidateSteps, VerifySteps DEF SupervisorStep
<1>2. ASSUME NEW handler \in {"failing", "canceling"}, Interrupt(handler) PROVE BaseInv'
  BY <1>2, InterruptStep
<1>3. CASE Resume \/ CancelIdle \/ Crash
  BY <1>3, ControlSteps
<1>4. CASE UNCHANGED vars
  BY <1>4 DEF vars, durableVars, BaseInv, TypeOK, AttemptsNumberInvocations, StageFacts,
              LastOf, Results
<1>. QED  BY <1>1, <1>2, <1>3, <1>4 DEF Next

\* Every reachable state is well typed, numbers the attempts of each role 1, 2, 3, ...
\* and has its coroutine where the records allow it to be.
THEOREM BaseHolds == Spec => []BaseInv
BY BaseInit, BaseNext, PTL DEF Spec

\* The durable records and the supervisor's state always have their types.
THEOREM TypeCorrect == Spec => []TypeOK
<1>1. BaseInv => TypeOK
  BY DEF BaseInv
<1>. QED  BY <1>1, BaseHolds, PTL

\* start_invocation's key (run, role, attempt) is never used twice, with any number of
\* crashes, restarts and schema repairs.
THEOREM AttemptsNumbered == Spec => []AttemptsNumberInvocations
<1>1. BaseInv => AttemptsNumberInvocations
  BY DEF BaseInv
<1>. QED  BY <1>1, BaseHolds, PTL

(***************************************************************************)
(* Launches                                                                *)
(***************************************************************************)

Answered ==
    /\ pc = "invoking"
    /\ \E status \in {"succeeded", "failed", "canceled"}, verdict \in Verdicts \cup {"none"} :
          Finish(status, verdict)
    /\ UNCHANGED <<runState, events, checks, crashes>>

\* A step starts an invocation, finishes the running one, or leaves them all alone.
LEMMA InvocationSteps ==
    ASSUME BaseInv, [Next]_vars
    PROVE  \/ DriveInvoke
           \/ RepairInvocation
           \/ Answered /\ pc' \in {"returned", "failing", "canceling"}
           \/ Answered /\ Finish("failed", "none") /\ pc' = "repairing" /\ repair' = repair + 1
           \/ UNCHANGED invocations /\ pc' \notin {"invoking", "repairing"}
           \/ UNCHANGED vars
<1>1. CASE InvocationSucceeded
  <2>1. VerdictsOf(runState) \subseteq Verdicts
    BY <1>1, RunningInvocation, VerdictsType DEF InvocationSucceeded
  <2>. QED  BY <1>1, <2>1 DEF InvocationSucceeded, Answered
<1>2. CASE InvocationMalformed
  BY <1>2 DEF InvocationMalformed, Answered
<1>3. CASE InvocationFailed
  BY <1>3 DEF InvocationFailed, Answered
<1>4. ASSUME NEW handler \in {"failing", "canceling"}, Interrupt(handler)
      PROVE  \/ Answered /\ pc' \in {"returned", "failing", "canceling"}
             \/ UNCHANGED invocations /\ pc' \notin {"invoking", "repairing"}
  BY <1>4 DEF Interrupt, Answered
<1>5. CASE \/ EmitPublished \/ EmitFailed \/ FinalPublish \/ ReconcileEvent \/ ReconcileFailed
           \/ DriveSupervisor \/ Terminalize \/ EmitVerification \/ RecordChecks
  BY <1>5 DEF EmitPublished, EmitFailed, FinalPublish, ReconcileEvent, ReconcileFailed,
              DriveSupervisor, Terminalize, FinalStage, EmitVerification, RecordChecks
<1>6. CASE \/ AdoptPlanning \/ AdoptReview \/ AcceptCandidate
           \/ AdoptImplementation \/ CommitPending \/ ValidateCommitted \/ DriveVerify
  BY <1>6 DEF AdoptPlanning, AdoptReview, AcceptCandidate, AdoptImplementation,
              CommitPending, ValidateCommitted, DriveVerify, durableVars
<1>7. CASE \/ RefuseResult \/ DriveFailed \/ StepFailed \/ Resume \/ CancelIdle
           \/ ReconcileDone \/ Restore \/ Crash
  BY <1>7 DEF RefuseResult, DriveFailed, StepFailed, Resume, CancelIdle, ReconcileDone,
              Restore, Crash, durableVars
<1>. QED  BY <1>1, <1>2, <1>3, <1>4, <1>5, <1>6, <1>7 DEF Next, SupervisorStep

\* Starting adds one to the invocations of the run, finishing adds none.
LEMMA StartTotal ==
    ASSUME TypeOK, runState \in RoleStates, NEW attempt \in Nat,
           Start(RoleOf(runState), attempt)
    PROVE  TotalInvocations' = TotalInvocations + 1 /\ TotalInvocations \in Nat
<1>1. /\ \A role \in ModelRoles : Len(invocations[role]) \in Nat
      /\ Len(invocations'[RoleOf(runState)]) = Len(invocations[RoleOf(runState)]) + 1
      /\ \A other \in ModelRoles \ {RoleOf(runState)} : invocations'[other] = invocations[other]
  BY StartAppends DEF TypeOK
<1>. DEFINE role == RoleOf(runState)
            n(r) == Len(invocations[r])
            after(r) == Len(invocations'[r])
<1>2. role \in ModelRoles
  BY RoleOfState
<1>3. \A r \in ModelRoles : n(r) \in Nat /\ after(r) = IF r = role THEN n(r) + 1 ELSE n(r)
  BY <1>1
<1>4. /\ TotalInvocations = n("planner") + n("implementer") + n("reviewer")
      /\ TotalInvocations' = after("planner") + after("implementer") + after("reviewer")
  BY DEF TotalInvocations
<1>. HIDE DEF role, n, after
<1>. QED  BY <1>2, <1>3, <1>4 DEF ModelRoles

LEMMA AnsweredTotal ==
    ASSUME BaseInv, Answered
    PROVE  TotalInvocations' = TotalInvocations
<1>1. \A r \in ModelRoles : Len(invocations'[r]) = Len(invocations[r])
  BY RunningInvocation, FinishKeeps DEF Answered, BaseInv
<1>. QED  BY <1>1 DEF TotalInvocations, ModelRoles

\* The attempts that the two launching actions start.
LEMMA LaunchAttempts ==
    ASSUME BaseInv, DriveInvoke \/ RepairInvocation
    PROVE  /\ runState \in RoleStates
           /\ Start(RoleOf(runState), Len(invocations[RoleOf(runState)]) + 1)
           /\ Len(invocations[RoleOf(runState)]) + 1 \in Nat
<1>. DEFINE own == invocations[RoleOf(runState)]
<1>1. runState \in RoleStates
  BY RunningInvocation DEF DriveInvoke, RepairInvocation
<1>2. RoleOf(runState) \in ModelRoles /\ own \in Seq(Invocation)
  BY <1>1, RoleOfState DEF BaseInv, TypeOK
<1>3. CASE DriveInvoke
  <2>1. NextAttempt(RoleOf(runState)) = Len(own) + 1
    BY <1>2, NextAttemptCounts DEF BaseInv, TypeOK
  <2>. QED  BY <1>1, <1>2, <1>3, <2>1 DEF DriveInvoke
<1>4. CASE RepairInvocation
  <2>1. own # << >>
    BY <1>4, RunningInvocation DEF RepairInvocation
  <2>2. own[Len(own)].attempt = Len(own)
    BY <1>2, <2>1 DEF BaseInv, AttemptsNumberInvocations
  <2>. QED  BY <1>1, <1>2, <1>4, <2>2 DEF RepairInvocation, RepairAttempt
<1>. QED  BY <1>3, <1>4

LEMMA LaunchNext == BaseInv /\ LaunchBudget /\ [Next]_vars => LaunchBudget'
<1>. SUFFICES ASSUME BaseInv, LaunchBudget, [Next]_vars PROVE LaunchBudget'
  OBVIOUS
<1>. USE DEF LaunchBudget, LaunchesBounded
<1>0. /\ TotalInvocations \in Nat
      /\ repair \in 0 .. MaxSchemaRepairs
      /\ pc \notin {"invoking", "repairing"} => repair = 0
  <2>1. \A role \in ModelRoles : Len(invocations[role]) \in Nat
    BY DEF BaseInv, TypeOK
  <2>. QED  BY <2>1 DEF TotalInvocations, ModelRoles, BaseInv, TypeOK, StageFacts
<1>1. CASE DriveInvoke
  <2>1. TotalInvocations' = TotalInvocations + 1
    BY <1>1, LaunchAttempts, StartTotal DEF BaseInv
  <2>2. TotalInvocations < MaxModelInvocations /\ repair' = 0 /\ pc' = "invoking"
    BY <1>0, <1>1 DEF DriveInvoke, MayInvoke
  <2>. QED  BY <1>0, <2>1, <2>2
<1>2. CASE RepairInvocation
  <2>1. TotalInvocations' = TotalInvocations + 1
    BY <1>2, LaunchAttempts, StartTotal DEF BaseInv
  <2>2. pc = "repairing" /\ pc' = "invoking" /\ repair' = repair
    BY <1>2 DEF RepairInvocation
  <2>. QED  BY <1>0, <2>1, <2>2
<1>3. CASE Answered /\ pc' \in {"returned", "failing", "canceling"}
  BY <1>3, <1>0, AnsweredTotal DEF Answered
<1>4. CASE Answered /\ pc' = "repairing" /\ repair' = repair + 1
  BY <1>4, <1>0, AnsweredTotal DEF Answered
<1>5. CASE UNCHANGED invocations /\ pc' \notin {"invoking", "repairing"}
  BY <1>5 DEF TotalInvocations
<1>6. CASE UNCHANGED vars
  BY <1>6 DEF TotalInvocations, vars, durableVars
<1>. QED  BY <1>1, <1>2, <1>3, <1>4, <1>5, <1>6, InvocationSteps

\* A run never launches more model processes than its limit and the repairs of one
\* answer, whatever crashes and restarts happen: the budget survives them because it is
\* counted from the durable invocations.
THEOREM LaunchesAreBounded == Spec => []LaunchesBounded
<1>1. Init => LaunchBudget
  <2>. SUFFICES ASSUME Init PROVE LaunchBudget
    OBVIOUS
  <2>1. TotalInvocations = 0
    BY DEF Init, TotalInvocations, ModelRoles
  <2>. QED  BY <2>1 DEF Init, LaunchBudget, LaunchesBounded
<1>2. BaseInv /\ LaunchBudget /\ [Next]_vars => LaunchBudget'
  BY LaunchNext
<1>3. LaunchBudget => LaunchesBounded
  BY DEF LaunchBudget
<1>. QED  BY <1>1, <1>2, <1>3, BaseHolds, PTL DEF Spec

(***************************************************************************)
(* Terminal runs, and the abstract lifecycle                               *)
(***************************************************************************)

\* A step accepts one event, or leaves state and event kinds as they are.
AcceptedEvent(kind) ==
    \E sender \in Roles, attempt \in Nat, candidate \in Nat :
        Accept(kind, sender, attempt, candidate)

MarkedOnly ==
    /\ runState' = runState
    /\ \/ events' = events
       \/ \E n \in Nat, status \in TransportStatuses : Mark(n, status)

\* The event that a reconciliation visits has a position.
LEMMA FirstUnpublishedNat ==
    ASSUME Unpublished # {}, Unpublished \in SUBSET Nat
    PROVE  FirstUnpublished \in Nat
<1>1. \E i \in Unpublished : \A j \in Unpublished : i <= j
  <2>1. PICK i \in Unpublished : \A j \in Unpublished : ~ (<<j, i>> \in OpToRel(<, Nat))
    BY NatLessThanWellFounded, WFMin
  <2>2. \A j \in Unpublished : i <= j
    <3>. SUFFICES ASSUME NEW j \in Unpublished PROVE i <= j
      OBVIOUS
    <3>1. i \in Nat /\ j \in Nat
      OBVIOUS
    <3>2. ~ (j < i)
      BY <2>1, <3>1, Zenon DEF OpToRel
    <3>. QED  BY <3>1, <3>2
  <2>. QED  BY <2>2
<1>. QED  BY <1>1 DEF FirstUnpublished

LEMMA EventSteps ==
    ASSUME BaseInv, [Next]_vars
    PROVE  \/ MarkedOnly
           \/ /\ \E kind \in EventKinds \ {"revision_required"} : AcceptedEvent(kind)
              /\ UNCHANGED <<invocations, checks, head>>
           \/ /\ AcceptedEvent("revision_required")
              /\ ~RevisionsExhausted
              /\ UNCHANGED <<invocations, checks, head>>
<1>. USE DEF EventKinds, ExpectedSender, Roles, NoCommit
<1>1. CASE EmitPublished \/ EmitFailed \/ FinalPublish
  <2>1. Len(events) \in Nat
    BY DEF BaseInv, TypeOK
  <2>. QED  BY <1>1, <2>1 DEF EmitPublished, EmitFailed, FinalPublish, MarkedOnly, TransportStatuses
<1>2. CASE ReconcileEvent \/ ReconcileFailed
  <2>1. Unpublished # {} /\ Unpublished \in SUBSET Nat
    BY <1>2 DEF ReconcileEvent, ReconcileFailed, Unpublished, BaseInv, TypeOK
  <2>2. FirstUnpublished \in Nat
    BY <2>1, FirstUnpublishedNat
  <2>. QED  BY <1>2, <2>2 DEF ReconcileEvent, ReconcileFailed, MarkedOnly, TransportStatuses
<1>3. CASE DriveSupervisor
  <2>1. NextAttempt("implementer") \in Nat
    BY NextAttemptCounts DEF BaseInv, TypeOK, ModelRoles
  <2>. QED  BY <1>3, <2>1 DEF DriveSupervisor, AcceptedEvent
<1>4. CASE AdoptPlanning
  <2>1. LatestResult(runState).attempt \in Nat
    BY <1>4, ResultInHandStored DEF AdoptPlanning, Invocation
  <2>. QED  BY <1>4, <2>1 DEF AdoptPlanning, AcceptedEvent
<1>5. CASE AdoptReview
  <2>1. LatestResult(runState).attempt \in Nat /\ PriorCandidate \in Nat
    BY <1>5, ResultInHandStored, PriorCandidateType DEF AdoptReview, Invocation, BaseInv, TypeOK
  <2>. QED  BY <1>5, <2>1 DEF AdoptReview, AcceptedEvent
<1>6. CASE AcceptCandidate
  <2>1. runState = "implementing" /\ Results(runState) # {} /\ head \in Nat
    BY <1>6 DEF AcceptCandidate, BaseInv, StageFacts, TypeOK
  <2>2. LatestResult(runState).attempt \in Nat
    BY <2>1, LatestResultType DEF BaseInv, TypeOK, RoleStates, Invocation
  <2>. QED  BY <1>6, <2>1, <2>2 DEF AcceptCandidate, AcceptedEvent
<1>7. CASE EmitVerification
  <2>1. PriorCandidate \in Nat
    BY PriorCandidateType DEF BaseInv, TypeOK
  <2>. QED  BY <1>7, <2>1 DEF EmitVerification, VerificationEvent, AcceptedEvent
<1>8. CASE Terminalize
  BY <1>8 DEF Terminalize, AcceptedEvent, MarkedOnly
<1>9. CASE \/ InvocationSucceeded \/ InvocationMalformed \/ RepairInvocation \/ InvocationFailed
           \/ DriveInvoke \/ AdoptImplementation \/ CommitPending \/ ValidateCommitted
           \/ DriveVerify \/ RecordChecks
  BY <1>9 DEF InvocationSucceeded, InvocationMalformed, RepairInvocation, InvocationFailed,
              DriveInvoke, AdoptImplementation, CommitPending, ValidateCommitted,
              DriveVerify, RecordChecks, MarkedOnly, durableVars
<1>10. CASE \/ RefuseResult \/ DriveFailed \/ StepFailed \/ Resume \/ CancelIdle
            \/ ReconcileDone \/ Restore \/ Crash \/ UNCHANGED vars
            \/ \E handler \in {"failing", "canceling"} : Interrupt(handler)
  BY <1>10 DEF RefuseResult, DriveFailed, StepFailed, Resume, CancelIdle, ReconcileDone,
               Restore, Crash, Interrupt, MarkedOnly, durableVars, vars
<1>. QED
  BY <1>1, <1>2, <1>3, <1>4, <1>5, <1>6, <1>7, <1>8, <1>9, <1>10 DEF Next, SupervisorStep

\* A run that has ended stays frozen: no event, launch, verifier result or commit is
\* added to it by any resume, cancel, publication or interruption.
LEMMA FrozenNext ==
    ASSUME BaseInv, [Next]_vars, IsTerminal
    PROVE  /\ runState' = runState
           /\ Len(events') = Len(events)
           /\ UNCHANGED <<invocations, checks, head>>
<1>1. runState \in TerminalStates
  BY DEF IsTerminal
<1>2. ASSUME NEW kind \in EventKinds, AcceptedEvent(kind) PROVE FALSE
  BY <1>2, AcceptAppends DEF AcceptedEvent, BaseInv
<1>3. "revision_required" \in EventKinds
  BY DEF EventKinds, ExpectedSender
<1>4. MarkedOnly
  BY <1>2, <1>3, EventSteps
<1>5. runState' = runState /\ Len(events') = Len(events)
  BY <1>4, MarkKeeps DEF MarkedOnly, BaseInv, TypeOK
<1>6. /\ pc \notin {"invoking", "repairing", "returned", "materialize", "handoff",
                    "verifying", "verified"}
      /\ runState \notin RoleStates \cup {"verifying"}
  BY <1>1 DEF BaseInv, StageFacts, TerminalStates, RoleStates
<1>7. UNCHANGED invocations
  BY <1>6, InvocationSteps DEF DriveInvoke, RepairInvocation, Answered, vars, durableVars
<1>8. UNCHANGED <<checks, head>>
  BY <1>6 DEF Next, SupervisorStep, vars, durableVars, EmitPublished, EmitFailed,
      DriveSupervisor, DriveInvoke, DriveVerify, DriveFailed,
      InvocationSucceeded, InvocationMalformed, RepairInvocation, InvocationFailed,
      AdoptPlanning, AdoptImplementation, AdoptReview, RefuseResult,
      CommitPending, ValidateCommitted, AcceptCandidate, RecordChecks, EmitVerification,
      StepFailed, Terminalize, FinalPublish, ReconcileEvent, ReconcileFailed,
      ReconcileDone, Restore, Interrupt, Resume, CancelIdle, Crash
<1>. QED  BY <1>5, <1>7, <1>8

\* A run that has ended stays as it is: no event or invocation is added, and its state, its
\* checks and its branch stay, whatever commands follow.
THEOREM TerminalFrozen == Spec => TerminalRunsAreFrozen
<1>1. BaseInv /\ [Next]_vars =>
        [IsTerminal =>
            /\ runState' = runState
            /\ Len(events') = Len(events)
            /\ UNCHANGED <<invocations, checks, head>>]_vars
  BY FrozenNext
<1>. QED  BY <1>1, BaseHolds, PTL DEF Spec, TerminalRunsAreFrozen

\* Accepting an event of a kind adds one to the events of that kind, marking none.
LEMMA AcceptCounts ==
    ASSUME TypeOK, NEW kind \in EventKinds, AcceptedEvent(kind), NEW counted
    PROVE  Cardinality(EventsOf({counted}))' =
              IF kind = counted THEN Cardinality(EventsOf({counted})) + 1
                                ELSE Cardinality(EventsOf({counted}))
<1>1. PICK sender \in Roles, attempt \in Nat, candidate \in Nat :
           Accept(kind, sender, attempt, candidate)
  BY DEF AcceptedEvent
<1>. DEFINE event == [kind |-> kind, sender |-> sender, attempt |-> attempt,
                      candidate |-> candidate, status |-> "local_pending"]
            n == Len(events)
<1>2. events' = Append(events, event) /\ event.kind = kind
  BY <1>1 DEF Accept
<1>3. events \in Seq(Event) /\ n \in Nat
  BY DEF TypeOK
<1>. HIDE DEF event, n
<1>4. /\ DOMAIN events = 1 .. n
      /\ DOMAIN events' = 1 .. (n + 1)
      /\ events'[n + 1] = event
      /\ \A i \in 1 .. n : events'[i] = events[i]
  BY <1>2, <1>3 DEF n
<1>5. EventsOf({counted})' =
         IF kind = counted THEN EventsOf({counted}) \cup {n + 1} ELSE EventsOf({counted})
  <2>1. EventsOf({counted})' = {i \in 1 .. (n + 1) : events'[i].kind = counted}
    BY <1>4 DEF EventsOf
  <2>2. EventsOf({counted}) = {i \in 1 .. n : events[i].kind = counted}
    BY <1>4 DEF EventsOf
  <2>3. 1 .. (n + 1) = (1 .. n) \cup {n + 1} /\ n + 1 \notin 1 .. n
    BY <1>3
  <2>. QED  BY <1>2, <1>4, <2>1, <2>2, <2>3
<1>6. n + 1 \notin EventsOf({counted}) /\ IsFiniteSet(EventsOf({counted}))
  <2>1. n + 1 \notin EventsOf({counted})
    BY <1>3, <1>4 DEF EventsOf
  <2>2. IsFiniteSet(EventsOf({counted}))
    BY <1>3, EventsOfFinite
  <2>. QED  BY <2>1, <2>2
<1>. QED  BY <1>5, <1>6, FS_AddElement

LEMMA MarkCounts ==
    ASSUME TypeOK, MarkedOnly, NEW CONSTANT kinds
    PROVE  EventsOf(kinds)' = EventsOf(kinds)
<1>1. CASE events' = events
  BY <1>1 DEF EventsOf
<1>2. CASE events' # events
  <2>1. /\ DOMAIN events' = DOMAIN events
        /\ \A i \in DOMAIN events : events'[i].kind = events[i].kind
    BY <1>2, MarkKeeps DEF MarkedOnly, TypeOK
  <2>. QED  BY <2>1 DEF EventsOf
<1>. QED  BY <1>1, <1>2

\* The supervisor's run is a run of the abstract lifecycle: every accepted event is one
\* of its transitions, and no run asks for more revisions than the limit.
LEMMA LifecycleInit == Init => Lifecycle!Init
<1>. SUFFICES ASSUME Init PROVE Lifecycle!Init
  OBVIOUS
<1>1. EventsOf({"revision_required"}) = {}
  BY DEF Init, EventsOf
<1>. QED  BY <1>1, FS_EmptySet DEF Init, Lifecycle!Init

LEMMA LifecycleNext ==
    BaseInv /\ [Next]_vars => [Lifecycle!Next]_(Lifecycle!lifecycleVars)
<1>. SUFFICES ASSUME BaseInv, [Next]_vars
              PROVE  [Lifecycle!Next]_(Lifecycle!lifecycleVars)
  OBVIOUS
<1>. DEFINE revisions == Cardinality(EventsOf({"revision_required"}))
<1>1. Lifecycle!EventKinds = EventKinds /\ Lifecycle!ExpectedSender = ExpectedSender
  BY DEF Lifecycle!EventKinds, EventKinds, Lifecycle!ExpectedSender, ExpectedSender
<1>2. ASSUME NEW kind \in EventKinds, AcceptedEvent(kind),
             kind = "revision_required" => ~RevisionsExhausted
      PROVE  Lifecycle!Next
  <2>1. PICK sender \in Roles : Applies(runState, kind, sender, runState')
    BY <1>2, AcceptAppends DEF AcceptedEvent, BaseInv
  <2>2. sender = ExpectedSender[kind]
    BY <2>1 DEF Applies
  <2>3. Lifecycle!Applies(runState, kind, Lifecycle!ExpectedSender[kind], runState')
    BY <1>1, <2>1, <2>2 DEF Applies, Lifecycle!Applies, Transitions, Lifecycle!Transitions,
       TerminalStates, Lifecycle!TerminalStates, Warnings, Lifecycle!Warnings
  <2>4. revisions' = IF kind = "revision_required" THEN revisions + 1 ELSE revisions
    BY <1>2, AcceptCounts DEF BaseInv
  <2>5. kind = "revision_required" => revisions < MaxRevisionCycles
    <3>1. revisions \in Nat
      BY EventsOfFinite DEF BaseInv, TypeOK
    <3>. QED  BY <1>2, <3>1 DEF RevisionsExhausted
  <2>. QED  BY <1>1, <2>3, <2>4, <2>5 DEF Lifecycle!Next, Lifecycle!AcceptEvent
<1>3. CASE MarkedOnly
  <2>1. revisions' = revisions
    BY <1>3, MarkCounts DEF BaseInv
  <2>. QED  BY <1>3, <2>1 DEF MarkedOnly, Lifecycle!lifecycleVars
<1>. QED  BY <1>2, <1>3, EventSteps DEF EventKinds, ExpectedSender

\* Workflow implements the abstract lifecycle of a run: every step is one of its own, or
\* changes nothing that it sees.
THEOREM LifecycleImplemented == Spec => ImplementsLifecycle
BY LifecycleInit, LifecycleNext, BaseHolds, PTL
   DEF Spec, ImplementsLifecycle, Lifecycle!Spec

(***************************************************************************)
(* Invocations without an outcome, and answers that are durable            *)
(***************************************************************************)

\* Whether the run waits for an answer depends on its state, the kinds of its events
\* and the stored results only.
LEMMA MarkKeepsAwaited ==
    ASSUME BaseInv, MarkedOnly, UNCHANGED invocations
    PROVE  Awaited' = Awaited
<1>1. runState' = runState
  BY DEF MarkedOnly
<1>2. Results(runState)' = Results(runState)
  BY <1>1 DEF Results
<1>3. /\ EventsOf({"implementation_ready"})' = EventsOf({"implementation_ready"})
      /\ EventsOf({"revision_required", "review_approved"})'
            = EventsOf({"revision_required", "review_approved"})
  BY MarkCounts DEF BaseInv
<1>4. Consumed(runState)' = Consumed(runState)
  BY <1>1, <1>3 DEF Consumed
<1>. QED  BY <1>1, <1>2, <1>4 DEF Awaited

\* In a run that goes on and does not wait for an answer nothing is unresolved.
LEMMA NothingUnresolved ==
    ASSUME UnresolvedIsCurrent, ~IsTerminal, ~Awaited
    PROVE  ~Unresolved
BY DEF UnresolvedIsCurrent, Unresolved

\* Where nothing is unresolved and no answer is waited for, the invariant is plain.
LEMMA ResolvedStep ==
    ASSUME UNCHANGED invocations, ~Unresolved, pc' \notin {"invoking", "repairing"}
    PROVE  UnresolvedIsCurrent'
BY DEF UnresolvedIsCurrent, Unresolved

\* The steps that accept an event, or go on with a result, in a run that does not end.
Advance ==
    \/ DriveSupervisor \/ AdoptPlanning \/ AdoptReview \/ AcceptCandidate \/ EmitVerification
    \/ AdoptImplementation \/ CommitPending \/ ValidateCommitted

\* The steps that change neither invocations nor what the run waits for.
Quiet ==
    /\ MarkedOnly
    /\ UNCHANGED invocations
    /\ pc' \notin {"invoking", "repairing", "returned", "materialize", "handoff"}

LEMMA UnresolvedSteps ==
    ASSUME BaseInv, [Next]_vars
    PROVE  \/ DriveInvoke \/ RepairInvocation
           \/ Answered /\ pc' \in {"returned", "failing", "canceling"}
           \/ Answered /\ Finish("failed", "none") /\ pc' = "repairing"
           \/ Advance
           \/ Terminalize
           \/ Quiet
           \/ UNCHANGED vars
<1>1. CASE EmitPublished \/ EmitFailed \/ FinalPublish
  <2>1. Len(events) \in Nat
    BY DEF BaseInv, TypeOK
  <2>. QED  BY <1>1, <2>1 DEF EmitPublished, EmitFailed, FinalPublish, Quiet, MarkedOnly, TransportStatuses
<1>2. CASE ReconcileEvent \/ ReconcileFailed
  <2>1. Unpublished # {} /\ Unpublished \in SUBSET Nat
    BY <1>2 DEF ReconcileEvent, ReconcileFailed, Unpublished, BaseInv, TypeOK
  <2>. QED  BY <1>2, <2>1, FirstUnpublishedNat
            DEF ReconcileEvent, ReconcileFailed, Quiet, MarkedOnly, TransportStatuses
<1>3. CASE \/ RefuseResult \/ DriveFailed \/ StepFailed \/ Resume \/ CancelIdle
           \/ ReconcileDone \/ Restore \/ Crash \/ DriveVerify \/ RecordChecks
  BY <1>3 DEF RefuseResult, DriveFailed, StepFailed, Resume, CancelIdle, ReconcileDone,
              Restore, Crash, DriveVerify, RecordChecks, Quiet, MarkedOnly, durableVars
<1>4. ASSUME NEW handler \in {"failing", "canceling"}, Interrupt(handler)
      PROVE  Quiet \/ (Answered /\ pc' \in {"returned", "failing", "canceling"})
  BY <1>4 DEF Interrupt, Answered, Quiet, MarkedOnly
<1>5. CASE InvocationSucceeded
  <2>1. VerdictsOf(runState) \subseteq Verdicts
    BY <1>5, RunningInvocation, VerdictsType DEF InvocationSucceeded
  <2>. QED  BY <1>5, <2>1 DEF InvocationSucceeded, Answered
<1>6. CASE InvocationMalformed \/ InvocationFailed
  BY <1>6 DEF InvocationMalformed, InvocationFailed, Answered
<1>. QED  BY <1>1, <1>2, <1>3, <1>4, <1>5, <1>6 DEF Next, SupervisorStep, Advance

\* A step that goes on finds nothing unresolved.
LEMMA AdvanceResolved ==
    ASSUME BaseInv, UnresolvedIsCurrent, Advance
    PROVE  ~Unresolved
<1>1. CASE DriveSupervisor \/ EmitVerification
  <2>1. runState \in {"created", "ready", "verifying"}
    BY <1>1 DEF DriveSupervisor, EmitVerification, BaseInv, StageFacts
  <2>. QED  BY <2>1, NothingUnresolved DEF IsTerminal, TerminalStates, Awaited, RoleStates
<1>2. CASE AcceptCandidate \/ CommitPending \/ ValidateCommitted
  BY <1>2 DEF AcceptCandidate, CommitPending, ValidateCommitted, UnresolvedIsCurrent
<1>3. CASE AdoptPlanning \/ AdoptReview \/ AdoptImplementation
  <2>1. ResultInHand
    BY <1>3 DEF AdoptPlanning, AdoptReview, AdoptImplementation
  <2>2. CASE pc = "returned"
    BY <2>2 DEF UnresolvedIsCurrent
  <2>3. CASE pc # "returned"
    <3>1. runState \in RoleStates /\ HasResult(runState)
      BY <2>1, <2>3 DEF ResultInHand
    <3>2. Consumed(runState) \in Nat
      BY <3>1, ConsumedType DEF BaseInv, TypeOK
    <3>3. ~Awaited
      BY <3>1, <3>2 DEF HasResult, Awaited
    <3>4. ~IsTerminal
      BY <3>1 DEF IsTerminal, TerminalStates, RoleStates
    <3>. QED  BY <3>3, <3>4, NothingUnresolved
  <2>. QED  BY <2>2, <2>3
<1>. QED  BY <1>1, <1>2, <1>3 DEF Advance

\* A launch finds nothing unresolved, and the stored results all accounted for.
LEMMA LaunchResolved ==
    ASSUME BaseInv, UnresolvedIsCurrent, DriveInvoke \/ RepairInvocation
    PROVE  ~Unresolved /\ Awaited
<1>1. CASE RepairInvocation
  BY <1>1 DEF RepairInvocation, UnresolvedIsCurrent
<1>2. CASE DriveInvoke
  <2>. DEFINE own == invocations[RoleOf(runState)]
  <2>1. /\ runState \in RoleStates /\ RecordsConsistent(runState) /\ ~HasResult(runState)
        /\ MayInvoke(RoleOf(runState))
    BY <1>2 DEF DriveInvoke
  <2>2. Awaited
    BY <2>1 DEF RecordsConsistent, HasResult, Awaited
  <2>3. own \in Seq(Invocation) /\ (Len(own) > 0 => own[Len(own)].status # "started")
    BY <2>1, RoleOfState DEF MayInvoke, BaseInv, TypeOK
  <2>4. \A i \in DOMAIN own : i = Len(own) => own[i].status # "started"
    <3>. HIDE DEF own
    <3>. QED  BY <2>3
  <2>5. ~IsTerminal
    BY <2>1 DEF IsTerminal, TerminalStates, RoleStates
  <2>6. ~Unresolved
    BY <2>4, <2>5 DEF UnresolvedIsCurrent, Unresolved
  <2>. QED  BY <2>2, <2>6
<1>. QED  BY <1>1, <1>2

\* Starting an attempt stores no result, and the attempt is the only one without outcome.
LEMMA LaunchKeepsCurrent ==
    ASSUME BaseInv, UnresolvedIsCurrent, DriveInvoke \/ RepairInvocation
    PROVE  UnresolvedIsCurrent'
<1>. DEFINE role == RoleOf(runState)
            own == invocations[role]
            after == invocations'[role]
<1>1. /\ ~Unresolved /\ Awaited
      /\ runState \in RoleStates /\ role \in ModelRoles
      /\ UNCHANGED <<runState, events>> /\ pc' = "invoking"
  BY LaunchResolved, RoleOfState DEF Awaited, DriveInvoke, RepairInvocation
<1>2. /\ own \in Seq(Invocation) /\ after \in Seq(Invocation)
      /\ Len(after) = Len(own) + 1
      /\ \A i \in 1 .. Len(own) : after[i] = own[i]
      /\ after[Len(after)].status = "started"
      /\ \A other \in ModelRoles \ {role} : invocations'[other] = invocations[other]
  BY <1>1, LaunchAttempts, StartAppends DEF BaseInv, TypeOK
<1>3. Results(runState)' = Results(runState)
  <2>1. Results(runState) = {i \in DOMAIN own : own[i].status = "succeeded" /\ own[i].phase \in PhasesOf(runState)}
    BY DEF Results
  <2>2. Results(runState)' = {i \in DOMAIN after : after[i].status = "succeeded" /\ after[i].phase \in PhasesOf(runState)}
    BY <1>1 DEF Results
  <2>3. DOMAIN own = 1 .. Len(own) /\ DOMAIN after = 1 .. (Len(own) + 1) /\ Len(own) \in Nat
    <3>. HIDE DEF own, after
    <3>. QED  BY <1>2
  <2>. HIDE DEF own, after
  <2>4. \A i \in DOMAIN after : i \in DOMAIN own \/ after[i].status = "started"
    BY <1>2, <2>3
  <2>5. \A i \in DOMAIN own : i \in DOMAIN after /\ after[i] = own[i]
    BY <1>2, <2>3
  <2>. QED  BY <2>1, <2>2, <2>4, <2>5
<1>4. Awaited'
  BY <1>1, <1>3 DEF Awaited, Consumed, EventsOf
<1>5. ASSUME NEW r \in ModelRoles, NEW i \in DOMAIN invocations'[r],
             invocations'[r][i].status = "started"
      PROVE  i = Len(invocations'[r]) /\ r = role
  <2>1. r = role
    BY <1>1, <1>2, <1>5 DEF Unresolved
  <2>2. i \notin DOMAIN own
    BY <1>1, <1>2, <1>5, <2>1 DEF Unresolved
  <2>3. i = Len(after)
    <3>1. i \in DOMAIN after
      BY <1>5, <2>1
    <3>. HIDE DEF own, after
    <3>. QED  BY <1>2, <2>2, <3>1
  <2>. QED  BY <2>1, <2>3
<1>6. LastOf(RoleOf(runState))'.status = "started"
  BY <1>1, <1>2 DEF LastOf
<1>. QED  BY <1>1, <1>4, <1>5, <1>6 DEF UnresolvedIsCurrent

\* The end of an attempt leaves none without outcome; a failed one stores no result.
LEMMA AnswerKeepsCurrent ==
    ASSUME BaseInv, UnresolvedIsCurrent, Answered,
           \/ pc' \in {"returned", "failing", "canceling"}
           \/ Finish("failed", "none") /\ pc' = "repairing"
    PROVE  UnresolvedIsCurrent'
<1>. DEFINE role == RoleOf(runState)
            own == invocations[role]
            after == invocations'[role]
            last == Len(own)
<1>1. /\ pc = "invoking" /\ UNCHANGED <<runState, events>> /\ Awaited
      /\ runState \in RoleStates /\ role \in ModelRoles /\ own # << >>
      /\ own \in Seq(Invocation)
  BY RunningInvocation DEF Answered, UnresolvedIsCurrent
<1>2. PICK status \in {"succeeded", "failed", "canceled"}, verdict \in Verdicts \cup {"none"} :
           Finish(status, verdict) /\ (pc' = "repairing" => status = "failed")
  BY DEF Answered
<1>3. /\ invocations' \in [ModelRoles -> Seq(Invocation)]
      /\ Len(after) = last
      /\ \A other \in ModelRoles \ {role} : invocations'[other] = invocations[other]
      /\ \A i \in 1 .. last : i # last => after[i] = own[i]
      /\ after[last].status = status
  BY <1>1, <1>2, FinishKeeps DEF BaseInv
<1>4. DOMAIN own = 1 .. last /\ DOMAIN after = 1 .. last
  <2>1. after \in Seq(Invocation)
    BY <1>1, <1>3
  <2>. HIDE DEF own, after
  <2>. QED  BY <1>1, <1>3, <2>1
<1>5. ~IsTerminal
  BY <1>1 DEF IsTerminal, TerminalStates, RoleStates
<1>6. ASSUME NEW r \in ModelRoles, NEW i \in DOMAIN invocations'[r]
      PROVE  invocations'[r][i].status # "started"
  <2>1. CASE r # role
    BY <1>3, <1>5, <2>1 DEF UnresolvedIsCurrent
  <2>2. CASE r = role /\ i = last
    BY <1>2, <1>3, <2>2
  <2>3. CASE r = role /\ i # last
    BY <1>3, <1>4, <2>3 DEF UnresolvedIsCurrent
  <2>. QED  BY <2>1, <2>2, <2>3
<1>7. ASSUME pc' = "repairing" PROVE Awaited'
  <2>1. after[last].status # "succeeded" /\ own[last].status # "succeeded"
    BY <1>1, <1>2, <1>3, <1>7 DEF UnresolvedIsCurrent, LastOf
  <2>2. Results(runState) = {i \in DOMAIN own : own[i].status = "succeeded" /\ own[i].phase \in PhasesOf(runState)}
    BY DEF Results
  <2>3. Results(runState)' = {i \in DOMAIN after : after[i].status = "succeeded" /\ after[i].phase \in PhasesOf(runState)}
    BY <1>1 DEF Results
  <2>4. Results(runState)' = Results(runState)
    <3>. HIDE DEF own, after, last
    <3>. QED  BY <1>3, <1>4, <2>1, <2>2, <2>3
  <2>. QED  BY <1>1, <2>4 DEF Awaited, Consumed, EventsOf
<1>8. (~Unresolved)'
  BY <1>6 DEF Unresolved
<1>9. pc' # "invoking"
  OBVIOUS
<1>. QED  BY <1>6, <1>7, <1>8, <1>9 DEF UnresolvedIsCurrent

LEMMA QuietKeepsCurrent ==
    ASSUME BaseInv, UnresolvedIsCurrent, Quiet
    PROVE  UnresolvedIsCurrent'
<1>1. Awaited' = Awaited /\ runState' = runState /\ invocations' = invocations
  BY MarkKeepsAwaited DEF Quiet, MarkedOnly
<1>2. IsTerminal' = IsTerminal
  BY <1>1 DEF IsTerminal
<1>. QED  BY <1>1, <1>2 DEF UnresolvedIsCurrent, Quiet

\* An event that ends the run leaves whatever has no outcome as it is.
LEMMA TerminalizeKeepsCurrent ==
    ASSUME BaseInv, UnresolvedIsCurrent, Terminalize
    PROVE  UnresolvedIsCurrent'
<1>1. UNCHANGED invocations /\ pc' \in {"exited", "publish_final"}
  BY DEF Terminalize, FinalStage
<1>2. IsTerminal'
  <2>1. CASE IsTerminal
    BY <2>1 DEF Terminalize, IsTerminal
  <2>2. CASE ~IsTerminal
    <3>1. PICK kind \in {"run_failed", "run_canceled"} :
               Applies(runState, kind, "supervisor", runState')
      BY <2>2 DEF Terminalize, Accept
    <3>. QED  BY <3>1 DEF Applies, Transitions, IsTerminal, TerminalStates, Warnings
  <2>. QED  BY <2>1, <2>2
<1>. QED  BY <1>1, <1>2 DEF UnresolvedIsCurrent

LEMMA CurrentNext == BaseInv /\ UnresolvedIsCurrent /\ [Next]_vars => UnresolvedIsCurrent'
<1>. SUFFICES ASSUME BaseInv, UnresolvedIsCurrent, [Next]_vars PROVE UnresolvedIsCurrent'
  OBVIOUS
<1>1. CASE Advance
  <2>1. UNCHANGED invocations /\ pc' \notin {"invoking", "repairing"}
    BY <1>1 DEF Advance, DriveSupervisor, AdoptPlanning, AdoptReview, AcceptCandidate,
        EmitVerification, AdoptImplementation, CommitPending, ValidateCommitted, durableVars
  <2>. QED  BY <1>1, <2>1, AdvanceResolved, ResolvedStep
<1>2. CASE UNCHANGED vars
  BY <1>2 DEF UnresolvedIsCurrent, Unresolved, Awaited, Results, Consumed, EventsOf, LastOf,
              IsTerminal, vars, durableVars
<1>. QED  BY <1>1, <1>2, UnresolvedSteps, LaunchKeepsCurrent, AnswerKeepsCurrent,
             TerminalizeKeepsCurrent, QuietKeepsCurrent

LEMMA CurrentHolds == Spec => []UnresolvedIsCurrent
<1>1. Init => UnresolvedIsCurrent
  BY DEF Init, UnresolvedIsCurrent
<1>. QED  BY <1>1, CurrentNext, BaseHolds, PTL DEF Spec

LEMMA TotalNat == TypeOK => TotalInvocations \in Nat
<1>. SUFFICES ASSUME TypeOK PROVE TotalInvocations \in Nat
  OBVIOUS
<1>. DEFINE n(r) == Len(invocations[r])
<1>1. \A r \in ModelRoles : n(r) \in Nat
  BY DEF TypeOK
<1>2. TotalInvocations = n("planner") + n("implementer") + n("reviewer")
  BY DEF TotalInvocations
<1>. HIDE DEF n
<1>. QED  BY <1>1, <1>2 DEF ModelRoles

\* Only the two launching actions add an invocation.
LEMMA OnlyLaunchesAdd ==
    ASSUME BaseInv, [Next]_vars, TotalInvocations' > TotalInvocations
    PROVE  DriveInvoke \/ RepairInvocation
<1>1. TotalInvocations' # TotalInvocations
  <2>1. TotalInvocations \in Nat
    BY TotalNat DEF BaseInv
  <2>. QED  BY <2>1
<1>2. ~Answered
  BY <1>1, AnsweredTotal
<1>3. invocations' # invocations
  BY <1>1 DEF TotalInvocations
<1>. QED  BY <1>2, <1>3, InvocationSteps DEF vars, durableVars

\* While an invocation of the run has no known outcome no model process is launched, by
\* no restart, repair or later phase: the run fails closed instead of guessing.
THEOREM UnresolvedFailsClosed == Spec => NoLaunchWhileUnresolved
<1>1. BaseInv /\ UnresolvedIsCurrent /\ [Next]_vars =>
        [TotalInvocations' > TotalInvocations => ~Unresolved]_vars
  BY OnlyLaunchesAdd, LaunchResolved
<1>. QED  BY <1>1, BaseHolds, CurrentHolds, PTL DEF Spec, NoLaunchWhileUnresolved

\* No role is asked for an answer that is durable already: whenever a process is
\* launched, earlier checkpoints account for every stored result of the state's role.
THEOREM AnswersAreUsed == Spec => NoAnswerAskedTwice
<1>1. BaseInv /\ UnresolvedIsCurrent /\ [Next]_vars =>
        [TotalInvocations' > TotalInvocations /\ runState \in RoleStates =>
            Cardinality(Results(runState)) = Consumed(runState)]_vars
  BY OnlyLaunchesAdd, LaunchResolved DEF Awaited
<1>. QED  BY <1>1, BaseHolds, CurrentHolds, PTL DEF Spec, NoAnswerAskedTwice
=============================================================================
