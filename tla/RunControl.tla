----------------------------- MODULE RunControl -----------------------------
(***************************************************************************)
(* Which process may drive a run, and how another one stops it: the kernel *)
(* lock and the cancellation marker of runtime.py, as used by the `run`,   *)
(* `resume` and `cancel` commands of cli.py.  Every command is a process;  *)
(* each of its file system steps is an action, and a process may die       *)
(* between any two of them.                                                *)
(***************************************************************************)
EXTENDS Naturals, FiniteSets

CONSTANTS
    Drivers,      \* `run` and `resume` commands for one run
    Cancelers,    \* `cancel` commands for the same run
    Nobody,       \* the owner of a free lock, and of no marker
    MaxCrashes    \* bound of the model: processes that die

ASSUME ControlAssumption ==
    /\ Drivers \cap Cancelers = {}
    /\ Nobody \notin Drivers \cup Cancelers
    /\ MaxCrashes \in Nat

Processes == Drivers \cup Cancelers

VARIABLES
    stage,     \* where each process is
    lock,      \* the process that holds the run's kernel lock, or Nobody
    marker,    \* whether the cancellation marker exists
    markedAt,  \* history: the lock's owner when the marker was created
    cause,     \* history: markedAt of the marker that canceled each operation
    again,     \* cancel commands that are making their second request
    ended,     \* whether the run's durable state is terminal
    crashes    \* bound

vars == <<stage, lock, marker, markedAt, cause, again, ended, crashes>>

Stages ==
    {"start", "owning", "running", "canceling", "closing", "releasing",      \* run_with_control
     "look", "probe", "probing", "tidy", "mark", "confirm", "confirming",    \* cancel
     "withdraw", "waiting",
     "done", "refused", "unacknowledged", "dead"}

Over == {"done", "refused", "unacknowledged", "dead"}

\* Where a process has a lease of the run's lock to close.
Holding ==
    {"owning", "running", "canceling", "closing", "releasing", "probing", "confirming"}

TypeOK ==
    /\ stage \in [Processes -> Stages]
    /\ lock \in {Nobody} \cup {p \in Processes : stage[p] \in Holding}
    /\ marker \in BOOLEAN
    /\ markedAt \in Processes \cup {Nobody}
    /\ cause \in [Processes -> Processes \cup {Nobody}]
    /\ again \in SUBSET Processes
    /\ ended \in BOOLEAN
    /\ crashes \in 0 .. MaxCrashes

Go(p, next) == stage' = [stage EXCEPT ![p] = next]

CreateMarker == marker' = TRUE /\ markedAt' = IF marker THEN markedAt ELSE lock

RemoveMarker == marker' = FALSE /\ markedAt' = Nobody

(***************************************************************************)
(* run_with_control                                                        *)
(***************************************************************************)

\* _acquire_control_lock: a lock that is held, for however short a time, refuses.
Acquire(p) ==
    /\ stage[p] = "start"
    /\ IF lock = Nobody
         THEN lock' = p /\ Go(p, "owning")
         ELSE Go(p, "refused") /\ UNCHANGED lock
    /\ UNCHANGED <<marker, markedAt, cause, again, ended, crashes>>

FaultyClear(p) ==   \* a marker left from an earlier request stays
    /\ stage[p] = "owning"
    /\ Go(p, "running")
    /\ UNCHANGED <<lock, marker, markedAt, cause, again, ended, crashes>>

\* What an earlier request left behind is removed before the operation starts.
Clear(p) ==
    /\ stage[p] = "owning"
    /\ RemoveMarker
    /\ Go(p, "running")
    /\ UNCHANGED <<lock, cause, again, ended, crashes>>

FaultyWatch(p) ==   \* the lease is closed before the canceled task has ended
    /\ stage[p] = "running"
    /\ marker
    /\ cause' = [cause EXCEPT ![p] = markedAt]
    /\ lock' = Nobody
    /\ Go(p, "canceling")
    /\ UNCHANGED <<marker, markedAt, again, ended, crashes>>

\* _watch_for_cancel finds the marker while the task runs, and the task is canceled.
Watch(p) ==
    /\ stage[p] = "running"
    /\ marker
    /\ cause' = [cause EXCEPT ![p] = markedAt]
    /\ Go(p, "canceling")
    /\ UNCHANGED <<lock, marker, markedAt, again, ended, crashes>>

\* The operation returns, raises, or has handled its cancellation.  It may stop
\* without ending the run: a refused resume, or a canceled `cancel`.
EndOperation(p) ==
    /\ stage[p] \in {"running", "canceling"}
    /\ ended' \in {ended, TRUE}
    /\ Go(p, "closing")
    /\ UNCHANGED <<lock, marker, markedAt, cause, again, crashes>>

Close(p) ==
    /\ stage[p] = "closing"
    /\ RemoveMarker
    /\ Go(p, "releasing")
    /\ UNCHANGED <<lock, cause, again, ended, crashes>>

Release(p) ==
    /\ stage[p] = "releasing"
    /\ lock' = Nobody
    /\ Go(p, "done")
    /\ UNCHANGED <<marker, markedAt, cause, again, ended, crashes>>

(***************************************************************************)
(* cancel, and request_active_cancellation                                 *)
(***************************************************************************)

Look(p) ==
    /\ stage[p] = "look"
    /\ Go(p, IF ended THEN "done" ELSE "probe")
    /\ UNCHANGED <<lock, marker, markedAt, cause, again, ended, crashes>>

\* _control_lock_is_active: the probe of a free lock holds it until it is closed.
Probe(p) ==
    /\ stage[p] = "probe"
    /\ IF lock = Nobody
         THEN lock' = p /\ Go(p, "probing")
         ELSE Go(p, "mark") /\ UNCHANGED lock
    /\ UNCHANGED <<marker, markedAt, cause, again, ended, crashes>>

FaultyEndProbe(p) ==   \* the lease of a probe is never closed
    /\ stage[p] \in {"probing", "confirming"}
    /\ Go(p, IF stage[p] = "probing" THEN "tidy" ELSE "withdraw")
    /\ UNCHANGED <<lock, marker, markedAt, cause, again, ended, crashes>>

EndProbe(p) ==
    /\ stage[p] \in {"probing", "confirming"}
    /\ lock' = Nobody
    /\ Go(p, IF stage[p] = "probing" THEN "tidy" ELSE "withdraw")
    /\ UNCHANGED <<marker, markedAt, cause, again, ended, crashes>>

\* Nobody drives the run: the request is withdrawn, and the command cancels the idle
\* run under the lock.
Withdraw(p) ==
    /\ stage[p] \in {"tidy", "withdraw"}
    /\ RemoveMarker
    /\ Go(p, "start")
    /\ UNCHANGED <<lock, cause, again, ended, crashes>>

Mark(p) ==
    /\ stage[p] = "mark"
    /\ CreateMarker
    /\ Go(p, "confirm")
    /\ UNCHANGED <<lock, cause, again, ended, crashes>>

\* The second probe: the request stands if the lock is still held.
Confirm(p) ==
    /\ stage[p] = "confirm"
    /\ IF lock = Nobody
         THEN lock' = p /\ Go(p, "confirming")
         ELSE Go(p, IF p \in again THEN "unacknowledged" ELSE "waiting") /\ UNCHANGED lock
    /\ UNCHANGED <<marker, markedAt, cause, again, ended, crashes>>

\* The command polls the run's state, and after five seconds requests a second time.
Wait(p) ==
    /\ stage[p] = "waiting"
    /\ \/ ended /\ Go(p, "done") /\ UNCHANGED again
       \/ Go(p, "probe") /\ again' = again \cup {p}
    /\ UNCHANGED <<lock, marker, markedAt, cause, ended, crashes>>

(***************************************************************************)
(* Specification                                                           *)
(***************************************************************************)

\* The process dies; the kernel releases its lock.
Crash(p) ==
    /\ stage[p] \notin Over
    /\ crashes < MaxCrashes
    /\ crashes' = crashes + 1
    /\ lock' = IF lock = p THEN Nobody ELSE lock
    /\ Go(p, "dead")
    /\ UNCHANGED <<marker, markedAt, cause, again, ended>>

Init ==
    /\ stage = [p \in Processes |-> IF p \in Drivers THEN "start" ELSE "look"]
    /\ lock = Nobody
    /\ marker \in BOOLEAN   \* possibly left by commands of the past
    /\ markedAt = Nobody
    /\ cause = [p \in Processes |-> Nobody]
    /\ again = {}
    /\ ended = FALSE
    /\ crashes = 0

ProcessStep(p) ==
    \/ Acquire(p) \/ Clear(p) \/ Watch(p) \/ EndOperation(p) \/ Close(p) \/ Release(p)
    \/ Look(p) \/ Probe(p) \/ EndProbe(p) \/ Withdraw(p)
    \/ Mark(p) \/ Confirm(p) \/ Wait(p)

Next == \E p \in Processes : ProcessStep(p) \/ Crash(p)

Spec == Init /\ [][Next]_vars

\* Every command that is not stopped by a crash goes on: the operation is bounded by the
\* run's wall-clock deadline, and no step of a command waits for another process.
FairSpec == Spec /\ \A p \in Processes : WF_vars(ProcessStep(p))

(***************************************************************************)
(* Properties                                                              *)
(***************************************************************************)

Operating == {p \in Processes : stage[p] \in {"running", "canceling"}}

\* "Own one run lock": two commands never drive or cancel the run at the same time, and
\* an operation that is still handling its cancellation counts.
OneOperation == Cardinality(Operating) <= 1

\* An operation is canceled only by a request that was made while it owned the run:
\* never by the marker of a command or of a supervisor of the past.
OnlyLiveRequestsCancel ==
    \A p \in Processes : stage[p] = "canceling" => cause[p] = p

\* Every command ends and leaves the lock free, whatever the others do.
EveryCommandEnds == <>[](lock = Nobody /\ \A p \in Processes : stage[p] \in Over)

(***************************************************************************)
(* Inductive strengthenings, for the proofs                                *)
(***************************************************************************)

LockHolders == \A p \in Processes : stage[p] \in Holding => lock = p

LiveMarker ==
    \A p \in Processes :
        /\ stage[p] = "running" /\ marker => markedAt = p
        /\ stage[p] = "canceling" => cause[p] = p

ControlInv == TypeOK /\ LockHolders /\ LiveMarker
=============================================================================
