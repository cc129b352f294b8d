-------------------------- MODULE RunControlProofs --------------------------
(***************************************************************************)
(* Proofs about RunControl for any number of commands and crashes: the     *)
(* lease of the kernel lock excludes a second operation, and the marker    *)
(* that an operation finds was made while it held the lock.                *)
(***************************************************************************)
EXTENDS RunControl, FiniteSetTheorems, TLAPS

LEMMA ControlInit == Init => ControlInv
<1>. SUFFICES ASSUME Init PROVE ControlInv
  OBVIOUS
<1>1. \A p \in Processes : stage[p] \in {"start", "look"} /\ stage[p] \in Stages
  BY DEF Init, Stages
<1>2. TypeOK
  <2>1. stage \in [Processes -> Stages] /\ cause \in [Processes -> Processes \cup {Nobody}]
    BY <1>1 DEF Init
  <2>2. crashes \in 0 .. MaxCrashes
    BY ControlAssumption DEF Init
  <2>. QED  BY <2>1, <2>2 DEF Init, TypeOK
<1>3. LockHolders /\ LiveMarker
  BY <1>1 DEF LockHolders, LiveMarker, Holding
<1>. QED  BY <1>2, <1>3 DEF ControlInv

\* The steps of an operation under its lock.
LEMMA OperationSteps ==
    ASSUME ControlInv, NEW p \in Processes,
           Acquire(p) \/ Clear(p) \/ Watch(p) \/ EndOperation(p) \/ Close(p) \/ Release(p)
    PROVE  ControlInv'
<1>. USE DEF ControlInv, TypeOK, LockHolders, LiveMarker, Holding, Stages, Go, RemoveMarker
<1>1. CASE Acquire(p)
  BY <1>1, ControlAssumption DEF Acquire, Processes
<1>2. CASE Clear(p)
  BY <1>2 DEF Clear
<1>3. CASE Watch(p)
  BY <1>3 DEF Watch
<1>4. CASE EndOperation(p)
  BY <1>4 DEF EndOperation
<1>5. CASE Close(p)
  BY <1>5 DEF Close
<1>6. CASE Release(p)
  BY <1>6 DEF Release
<1>. QED  BY <1>1, <1>2, <1>3, <1>4, <1>5, <1>6

\* The steps of a cancel command before it has an operation of its own.
LEMMA RequestSteps ==
    ASSUME ControlInv, NEW p \in Processes,
           Look(p) \/ Probe(p) \/ EndProbe(p) \/ Withdraw(p) \/ Mark(p) \/ Confirm(p) \/ Wait(p)
    PROVE  ControlInv'
<1>. USE DEF ControlInv, TypeOK, LockHolders, LiveMarker, Holding, Stages, Go
<1>1. CASE Look(p)
  BY <1>1 DEF Look
<1>2. CASE Probe(p)
  BY <1>2, ControlAssumption DEF Probe, Processes
<1>3. CASE EndProbe(p)
  BY <1>3 DEF EndProbe
<1>4. CASE Withdraw(p)
  BY <1>4 DEF Withdraw, RemoveMarker
<1>5. CASE Mark(p)
  BY <1>5 DEF Mark, CreateMarker
<1>6. CASE Confirm(p)
  BY <1>6, ControlAssumption DEF Confirm, Processes
<1>7. CASE Wait(p)
  BY <1>7 DEF Wait
<1>. QED  BY <1>1, <1>2, <1>3, <1>4, <1>5, <1>6, <1>7

LEMMA CrashStep ==
    ASSUME ControlInv, NEW p \in Processes, Crash(p)
    PROVE  ControlInv'
BY ControlAssumption
   DEF ControlInv, TypeOK, LockHolders, LiveMarker, Holding, Stages, Over, Go, Crash, Processes

LEMMA ControlNext == ControlInv /\ [Next]_vars => ControlInv'
<1>. SUFFICES ASSUME ControlInv, [Next]_vars PROVE ControlInv'
  OBVIOUS
<1>1. CASE UNCHANGED vars
  BY <1>1 DEF ControlInv, TypeOK, LockHolders, LiveMarker, vars
<1>2. ASSUME NEW p \in Processes, ProcessStep(p) PROVE ControlInv'
  BY <1>2, OperationSteps, RequestSteps DEF ProcessStep
<1>3. ASSUME NEW p \in Processes, Crash(p) PROVE ControlInv'
  BY <1>3, CrashStep
<1>. QED  BY <1>1, <1>2, <1>3 DEF Next

\* The lock's owner, every lease holder and the marker of a running operation agree,
\* in every reachable state of any number of commands.
THEOREM ControlHolds == Spec => []ControlInv
BY ControlInit, ControlNext, PTL DEF Spec

\* run_with_control: two commands never drive or cancel one run at the same time, not even
\* while one of them is still handling its cancellation.
THEOREM OperationsExclude == Spec => []OneOperation
<1>1. ControlInv => OneOperation
  <2>. SUFFICES ASSUME ControlInv PROVE Cardinality(Operating) <= 1
    BY DEF OneOperation
  <2>1. Operating \subseteq {lock}
    BY DEF ControlInv, LockHolders, Holding, Operating
  <2>2. IsFiniteSet({lock}) /\ Cardinality({lock}) = 1
    BY FS_Singleton
  <2>3. Cardinality(Operating) <= Cardinality({lock})
    BY <2>1, <2>2, FS_Subset
  <2>. QED  BY <2>2, <2>3
<1>. QED  BY <1>1, ControlHolds, PTL

\* _remove_cancel_request at the start of an operation: a marker of the past never cancels
\* it, whoever made the marker and however it was left behind.
THEOREM StaleRequestsAreDropped == Spec => []OnlyLiveRequestsCancel
<1>1. ControlInv => OnlyLiveRequestsCancel
  BY DEF ControlInv, LiveMarker, OnlyLiveRequestsCancel
<1>. QED  BY <1>1, ControlHolds, PTL
=============================================================================
