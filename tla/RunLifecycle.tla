---------------------------- MODULE RunLifecycle ----------------------------
(***************************************************************************)
(* What a workflow run promises to whoever only watches its state: it moves *)
(* along the phases of the state machine, asks for at most MaxRevisions    *)
(* revisions, and once it is completed, failed or canceled it stays so.    *)
(* It is the abstract specification that Workflow implements.              *)
(***************************************************************************)
EXTENDS Naturals, StateMachine

CONSTANT MaxRevisions   \* a natural number, limits.max_revision_cycles

VARIABLES state,      \* the state column of the run record
          revisions   \* accepted revision_required events

lifecycleVars == <<state, revisions>>

LifecycleTypeOK ==
    /\ state \in RunStates
    /\ revisions \in 0 .. MaxRevisions

Init ==
    /\ state = "created"
    /\ revisions = 0

\* One accepted event, from whichever role the state machine expects.
AcceptEvent(kind) ==
    /\ Applies(state, kind, ExpectedSender[kind], state')
    /\ IF kind = "revision_required"
         THEN /\ revisions < MaxRevisions
              /\ revisions' = revisions + 1
         ELSE revisions' = revisions

Next == \E kind \in EventKinds : AcceptEvent(kind)

Spec == Init /\ [][Next]_lifecycleVars
=============================================================================
