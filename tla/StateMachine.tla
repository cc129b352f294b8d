---------------------------- MODULE StateMachine ----------------------------
(***************************************************************************)
(* The pure transition rules of domain/state_machine.py: which role may    *)
(* send which event, which event is legal in which run state, and the      *)
(* single state it leads to.                                               *)
(***************************************************************************)

Roles == {"supervisor", "planner", "implementer", "reviewer", "verifier"}

RunStates ==
    {"created", "planning", "challenging", "finalizing", "ready",
     "implementing", "reviewing", "verifying", "completed", "failed", "canceled"}

TerminalStates == {"completed", "failed", "canceled"}

\* The one role whose signature authorizes each kind of event.
ExpectedSender ==
    [run_started            |-> "supervisor",
     plan_proposed          |-> "planner",
     plan_challenged        |-> "implementer",
     plan_finalized         |-> "planner",
     implementation_started |-> "supervisor",
     implementation_ready   |-> "implementer",
     revision_required      |-> "reviewer",
     review_approved        |-> "reviewer",
     verification_passed    |-> "verifier",
     verification_failed    |-> "verifier",
     run_failed             |-> "supervisor",
     run_canceled           |-> "supervisor",
     transport_warning      |-> "supervisor",
     security_warning       |-> "supervisor"]

EventKinds == DOMAIN ExpectedSender

\* The explicit transition table, as <<state, event kind, next state>>.
Transitions ==
    {<<"created",      "run_started",            "planning">>,
     <<"planning",     "plan_proposed",          "challenging">>,
     <<"challenging",  "plan_challenged",        "finalizing">>,
     <<"finalizing",   "plan_finalized",         "ready">>,
     <<"ready",        "implementation_started", "implementing">>,
     <<"implementing", "implementation_ready",   "reviewing">>,
     <<"reviewing",    "revision_required",      "implementing">>,
     <<"reviewing",    "review_approved",        "verifying">>,
     <<"verifying",    "verification_passed",    "completed">>,
     <<"verifying",    "verification_failed",    "failed">>}

Warnings == {"transport_warning", "security_warning"}

\* apply_transition accepts event kind from sender in state and moves to next.
Applies(state, kind, sender, next) ==
    /\ state \notin TerminalStates
    /\ sender = ExpectedSender[kind]
    /\ \/ kind = "run_failed" /\ next = "failed"
       \/ kind = "run_canceled" /\ next = "canceled"
       \/ kind \in Warnings /\ next = state
       \/ <<state, kind, next>> \in Transitions
=============================================================================
