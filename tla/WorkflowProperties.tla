------------------------- MODULE WorkflowProperties -------------------------
(***************************************************************************)
(* What must hold of Workflow, whatever crashes, deadlines, cancellations  *)
(* and restarts come between its durable writes.                           *)
(***************************************************************************)
EXTENDS Workflow

(***************************************************************************)
(* Records                                                                 *)
(***************************************************************************)

\* A role's attempts are numbered 1, 2, 3, ...: the key (run, role, attempt) under
\* which start_invocation would silently return an earlier record is never reused,
\* neither by schema repairs nor after a restart.
AttemptsNumberInvocations ==
    \A role \in ModelRoles : \A i \in DOMAIN invocations[role] :
        invocations[role][i].attempt = i

\* Whatever the interleaving of crashes and restarts, the records a driving
\* supervisor reads back fit together: none of the StateErrors by which _drive_run
\* refuses its own database is reachable.
RecordsAlwaysConsistent ==
    pc \in {"drive", "returned", "materialize", "handoff", "publish", "verifying"} =>
        RecordsConsistent(runState)

\* The model roles' events each cite a stored result of their own role whose verdict
\* supports the event, and no two events cite the same result.
Supports(verdict, kind) ==
    CASE kind = "review_approved" -> verdict = "approved"
      [] kind = "revision_required" -> verdict = "revision_required"
      [] OTHER -> TRUE

ModelEvents == {i \in DOMAIN events : events[i].sender \in ModelRoles}

EventsCiteTheirResults ==
    /\ \A i \in ModelEvents : \E n \in DOMAIN invocations[events[i].sender] :
          LET inv == invocations[events[i].sender][n]
          IN  /\ inv.attempt = events[i].attempt
              /\ inv.status = "succeeded"
              /\ Supports(inv.verdict, events[i].kind)
    /\ \A i, j \in ModelEvents :
          events[i].sender = events[j].sender /\ events[i].attempt = events[j].attempt
            => i = j

\* A completed run rests on evidence about one and the same commit: the last
\* candidate was approved by a review that was shown exactly it, its recorded checks
\* passed, and it is what the implementer's branch points to.
ApprovedAt(commit) ==
    \E i \in EventsOf({"review_approved"}) : \E n \in DOMAIN invocations["reviewer"] :
        /\ invocations["reviewer"][n].attempt = events[i].attempt
        /\ invocations["reviewer"][n].verdict = "approved"
        /\ invocations["reviewer"][n].commit = commit

CompletionIsEvidenced ==
    runState = "completed" =>
        /\ PriorCandidate # BaseCommit
        /\ ApprovedAt(PriorCandidate)
        /\ RecordedChecks = {[candidate |-> PriorCandidate, passed |-> TRUE]}
        /\ head = PriorCandidate

\* Model processes launched by the run: the configured limit, which
\* _next_invocation_attempt enforces, plus at most the repairs of one last result.
LaunchesBounded == TotalInvocations <= MaxModelInvocations + MaxSchemaRepairs

\* README.md, limits table: "Maximum total Claude and Codex process launches in one
\* workflow, including repairs and revisions."
InvocationBudget == TotalInvocations <= MaxModelInvocations

\* A result that reports the task as blocked stops the run ("planner reported that the
\* task is blocked"): no event moves the workflow on with it.
BlockedResultsStopTheRun ==
    \A i \in ModelEvents : \A n \in DOMAIN invocations[events[i].sender] :
        invocations[events[i].sender][n].attempt = events[i].attempt =>
            invocations[events[i].sender][n].verdict # "blocked"

(***************************************************************************)
(* Steps                                                                   *)
(***************************************************************************)

\* A terminal run is evidence: no event, model launch, verifier result or commit is
\* added to it, whatever is still resumed, canceled or published.
TerminalRunsAreFrozen ==
    [][IsTerminal =>
        /\ runState' = runState
        /\ Len(events') = Len(events)
        /\ UNCHANGED <<invocations, checks, head>>]_vars

\* "A provider invocation with an unknown terminal outcome fails closed instead of
\* guessing": while any invocation of the run is unresolved, no other is launched.
Unresolved ==
    \E role \in ModelRoles : \E i \in DOMAIN invocations[role] :
        invocations[role][i].status = "started"

NoLaunchWhileUnresolved ==
    [][TotalInvocations' > TotalInvocations => ~Unresolved]_vars

\* A stored role result is used: a role is not asked again for an answer that is
\* already durable, however often the supervisor is restarted in between.
NoAnswerAskedTwice ==
    [][TotalInvocations' > TotalInvocations /\ runState \in RoleStates =>
        Cardinality(Results(runState)) = Consumed(runState)]_vars

(***************************************************************************)
(* Refinement and liveness                                                 *)
(***************************************************************************)

Lifecycle == INSTANCE RunLifecycle WITH
    MaxRevisions <- MaxRevisionCycles,
    state <- runState,
    revisions <- Cardinality(EventsOf({"revision_required"}))

\* The run's state moves as the abstract lifecycle allows, with bounded revisions.
ImplementsLifecycle == Lifecycle!Spec

\* Every run ends, as long as the supervisor keeps running and stopped runs are resumed.
EveryRunEnds == <>IsTerminal

(***************************************************************************)
(* Inductive strengthenings, for the proofs                                *)
(***************************************************************************)

LastOf(role) == invocations[role][Len(invocations[role])]

\* What the position of the coroutine says about the records it works with.
StageFacts ==
    /\ pc \in {"publish", "publish_final"} => events # << >>
    /\ pc \in {"invoking", "repairing", "returned"} =>
          /\ runState \in RoleStates
          /\ invocations[RoleOf(runState)] # << >>
          /\ LastOf(RoleOf(runState)).phase \in PhasesOf(runState)
    /\ pc = "returned" => LastOf(RoleOf(runState)).status = "succeeded"
    /\ pc \in {"materialize", "handoff"} =>
          runState = "implementing" /\ Results(runState) # {}
    /\ pc \in {"verifying", "verified"} => runState = "verifying"
    /\ pc \notin {"invoking", "repairing"} => repair = 0

\* Launches granted so far: an initial attempt is within the limit, and every repair
\* of it may go one further.
LaunchBudget ==
    /\ pc = "invoking" => TotalInvocations <= MaxModelInvocations + repair
    /\ pc = "repairing" => TotalInvocations < MaxModelInvocations + repair
    /\ LaunchesBounded

\* The run waits for a new answer of the role that its state names.
Awaited ==
    /\ runState \in RoleStates
    /\ Cardinality(Results(runState)) = Consumed(runState)

\* An invocation without an outcome is the last one of the role the run waits for,
\* whose answer is still missing, unless the run has ended.
UnresolvedIsCurrent ==
    /\ \A role \in ModelRoles : \A i \in DOMAIN invocations[role] :
          invocations[role][i].status = "started" =>
              /\ i = Len(invocations[role])
              /\ IsTerminal \/ (Awaited /\ role = RoleOf(runState))
    /\ pc \in {"invoking", "repairing"} => Awaited
    /\ pc = "invoking" => LastOf(RoleOf(runState)).status = "started"
    /\ pc \in {"repairing", "returned", "materialize", "handoff"} => ~Unresolved
=============================================================================
