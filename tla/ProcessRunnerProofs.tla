------------------------ MODULE ProcessRunnerProofs ------------------------
(***************************************************************************)
(* Proofs about ProcessRunner for any number of streams, descendants, jobs *)
(* and chunks, and without any fairness: whatever the processes do and     *)
(* however a call ends, it leaves no living process behind; output is not  *)
(* lost without the result saying so, and a passed suite really ran.       *)
(***************************************************************************)
EXTENDS ProcessRunner, TLAPS, FiniteSetTheorems

\* A pipe holds no more than was written; a call is made only while results are missing.
Bounded ==
    /\ \A s \in Streams : piped[s] <= written
    /\ pc \in {"idle", "spawned", "returned"} \cup Calling => Len(passed) < Jobs

\* The launch gate: until the host has its job it has nothing below it, and it cannot
\* start anything because it has not been fed.
Gated == pc = "spawned" => ~fed /\ tree = {}

\* While a call is collected its processes are in the job, or there are none left.
InTheJob == pc \in Calling => job = "owned" \/ ~Alive

\* Between two calls, and at the end, what still lives is being killed.
Reaped == pc \in Ended \cup {"idle"} => doomed \/ ~Alive

RunnerInv == TypeOK /\ Bounded /\ Gated /\ InTheJob /\ Reaped

\* Of n chunks, those in a pipe, when it is known which are kept.
Pending(n, kept, pipe, s) == {i \in 1 .. n : i \notin kept /\ pipe[i] = s}

\* As long as nothing was dropped, each chunk written is kept or in its pipe.
OutputFacts ==
    ~overflow =>
        \E kept \in SUBSET (1 .. written) : \E pipe \in [1 .. written -> Streams] :
            /\ Cardinality(kept) = used
            /\ \A s \in Streams : Cardinality(Pending(written, kept, pipe, s)) = piped[s]

\* A call returns when nothing is left that could write; what it reports is complete.
ReturnFacts ==
    pc = "returned" => ~Alive /\ (reason # "output_limit_exceeded" => used = written)

\* A return code of zero is the provider's, which the host had started.
ProviderFacts ==
    /\ tree # {} => started
    /\ host = "exited" /\ code = 0 => started
    /\ pc \in {"spawned", "returned"} \cup Calling => host # "none"

\* A tree that was told to stop has its reason, or a cancellation that ends the call.
StopFacts ==
    /\ canceled => pc \in {"grace", "kill", "settle", "canceled", "failed"}
    /\ signalled => reason # "exited" \/ canceled

\* The results so far are of providers that really ended by themselves.
SuiteFacts ==
    /\ \A i \in 1 .. Len(passed) : passed[i] => i \in genuine
    /\ pc = "finished" => Len(passed) = Jobs

ResultsInv == OutputFacts /\ ReturnFacts /\ ProviderFacts /\ StopFacts /\ SuiteFacts

\* The least of two numbers, as the limiter computes it.
LEMMA LeastOfTwo ==
    ASSUME NEW a \in Nat, NEW b \in Nat
    PROVE  /\ Min({a, b}) \in Nat
           /\ Min({a, b}) <= a /\ Min({a, b}) <= b
<1>1. \E x \in {a, b} : \A y \in {a, b} : x <= y
  OBVIOUS
<1>2. Min({a, b}) \in {a, b} /\ \A y \in {a, b} : Min({a, b}) <= y
  BY <1>1 DEF Min
<1>. QED  BY <1>2

LEMMA RunnerInit == Init => RunnerInv
<1>. SUFFICES ASSUME Init PROVE RunnerInv
  OBVIOUS
<1>1. piped \in [Streams -> 0 .. MaxWritten] /\ \A s \in Streams : piped[s] = 0
  BY RunnerAssumption DEF Init
<1>2. TypeOK
  <2>1. passed \in Seq(BOOLEAN) /\ Len(passed) = 0
    BY DEF Init
  <2>2. {fed, started, doomed, signalled, overflow, canceled, waitsForPipes} \subseteq BOOLEAN
    BY DEF Init
  <2>3. written \in 0 .. MaxWritten /\ used \in 0 .. OutputLimit
    BY RunnerAssumption DEF Init
  <2>. QED  BY <1>1, <2>1, <2>2, <2>3, RunnerAssumption DEF Init, TypeOK
<1>3. Bounded
  BY <1>1, RunnerAssumption DEF Init, Bounded
<1>4. Gated /\ InTheJob /\ Reaped
  BY DEF Init, Gated, InTheJob, Reaped, Alive, Calling
<1>. QED  BY <1>2, <1>3, <1>4 DEF RunnerInv

\* What the processes do by themselves.
LEMMA ProcessSteps == RunnerInv /\ ProcessStep => RunnerInv'
<1>. SUFFICES ASSUME RunnerInv, ProcessStep PROVE RunnerInv'
  OBVIOUS
<1>. USE DEF RunnerInv, TypeOK, Gated, InTheJob, Reaped, Alive, Calling, Ended, output, suite
<1>1. CASE StartProvider
  BY <1>1 DEF StartProvider, Bounded
<1>2. CASE HostFails
  BY <1>2 DEF HostFails, Bounded
<1>3. CASE TreeChanges
  <2>1. tree' \subseteq {"provider"} \cup Descendants /\ (tree = {} => tree' = {}) /\ (doomed => doomed')
    BY <1>3 DEF TreeChanges
  <2>2. code' \in {0, 1}
    BY <1>3 DEF TreeChanges
  <2>3. TypeOK'
    BY <1>3, <2>1, <2>2 DEF TreeChanges
  <2>. QED  BY <1>3, <2>1, <2>3 DEF TreeChanges, Bounded
<1>4. CASE HostExits
  BY <1>4 DEF HostExits, Bounded
<1>5. CASE BreakEndsHost
  BY <1>5 DEF BreakEndsHost, Bounded
<1>6. CASE JobDies
  BY <1>6 DEF JobDies, Bounded
<1>7. ASSUME NEW s \in Streams, Write(s) PROVE RunnerInv'
  <2>1. written' \in 0 .. MaxWritten /\ written' = written + 1
    BY <1>7, RunnerAssumption DEF Write
  <2>2. piped[s] + 1 \in 0 .. MaxWritten /\ piped[s] + 1 <= written'
    BY <1>7, <2>1, RunnerAssumption DEF Write, Bounded
  <2>3. piped' \in [Streams -> 0 .. MaxWritten]
    BY <1>7, <2>2 DEF Write
  <2>4. TypeOK'
    BY <1>7, <2>1, <2>3 DEF Write, outside
  <2>5. Bounded'
    BY <1>7, <2>1, <2>2 DEF Write, Bounded, outside
  <2>. QED  BY <1>7, <2>4, <2>5 DEF Write, outside
<1>. QED  BY <1>1, <1>2, <1>3, <1>4, <1>5, <1>6, <1>7 DEF ProcessStep

\* From the spawn to the launch frame.
LEMMA StartSteps == RunnerInv /\ (Spawn \/ RefuseStart \/ Assign \/ AssignFails \/ Feed) => RunnerInv'
<1>. SUFFICES ASSUME RunnerInv, Spawn \/ RefuseStart \/ Assign \/ AssignFails \/ Feed
              PROVE  RunnerInv'
  OBVIOUS
<1>. USE DEF RunnerInv, TypeOK, Gated, InTheJob, Reaped, Alive, Calling, Ended, outside, suite, Bounded
<1>1. CASE Spawn
  <2>1. piped' \in [Streams -> 0 .. MaxWritten] /\ \A s \in Streams : piped'[s] = 0
    BY <1>1, RunnerAssumption DEF Spawn
  <2>2. written' \in 0 .. MaxWritten /\ used' \in 0 .. OutputLimit
    BY <1>1, RunnerAssumption DEF Spawn
  <2>3. {fed', started', doomed', signalled', overflow', canceled', waitsForPipes'} \subseteq BOOLEAN
    BY <1>1 DEF Spawn
  <2>4. TypeOK'
    BY <1>1, <2>1, <2>2, <2>3 DEF Spawn
  <2>. QED  BY <1>1, <2>1, <2>4 DEF Spawn
<1>2. CASE RefuseStart
  BY <1>2 DEF RefuseStart, output
<1>3. CASE Assign
  BY <1>3 DEF Assign, output
<1>4. CASE AssignFails
  BY <1>4 DEF AssignFails, output
<1>5. CASE Feed
  BY <1>5 DEF Feed, output
<1>. QED  BY <1>1, <1>2, <1>3, <1>4, <1>5

LEMMA DrainStep == ASSUME RunnerInv, NEW s \in Streams, Drain(s) PROVE RunnerInv'
<1>. USE DEF RunnerInv, TypeOK
<1>. DEFINE retained == Min({piped[s], OutputLimit - used})
<1>1. piped[s] \in Nat /\ OutputLimit - used \in Nat
  BY RunnerAssumption
<1>2. retained \in Nat /\ retained <= OutputLimit - used
  BY <1>1, LeastOfTwo
<1>3. used' = used + retained /\ overflow' = (overflow \/ retained # piped[s])
  BY DEF Drain
<1>. HIDE DEF retained
<1>4. used' \in 0 .. OutputLimit
  BY <1>2, <1>3, RunnerAssumption
<1>5. overflow' \in BOOLEAN
  BY <1>3
<1>6. piped' \in [Streams -> 0 .. MaxWritten]
  BY RunnerAssumption DEF Drain
<1>7. TypeOK'
  BY <1>4, <1>5, <1>6 DEF Drain, outside, suite
<1>8. Bounded'
  BY DEF Drain, Bounded, suite
<1>9. (Gated /\ InTheJob /\ Reaped)'
  BY DEF Drain, Gated, InTheJob, Reaped, Alive, outside
<1>. QED  BY <1>7, <1>8, <1>9

\* _collect_process_result, the ways out of run(), and the suite.
LEMMA CollectSteps ==
    RunnerInv /\ (Exits \/ Overflows \/ TimesOut \/ Stopped \/ GraceExpires \/ Cancel) => RunnerInv'
<1>. SUFFICES ASSUME RunnerInv, Exits \/ Overflows \/ TimesOut \/ Stopped \/ GraceExpires \/ Cancel
              PROVE  RunnerInv'
  OBVIOUS
<1>. USE DEF RunnerInv, TypeOK, Bounded, Gated, InTheJob, Reaped, Alive, Calling, Ended, outside, suite,
             output, Terminate, AfterTermination
<1>1. CASE Exits
  BY <1>1 DEF Exits
<1>2. CASE Overflows
  BY <1>2 DEF Overflows
<1>3. CASE TimesOut
  BY <1>3 DEF TimesOut
<1>4. CASE Stopped
  BY <1>4 DEF Stopped
<1>5. CASE GraceExpires
  BY <1>5 DEF GraceExpires
<1>6. CASE Cancel
  BY <1>6 DEF Cancel
<1>. QED  BY <1>1, <1>2, <1>3, <1>4, <1>5, <1>6

\* The ways out of run(): the job is closed last.
LEMMA EndSteps == RunnerInv /\ (StopFails \/ Return \/ Settle \/ CancelAgain \/ Record) => RunnerInv'
<1>. SUFFICES ASSUME RunnerInv, StopFails \/ Return \/ Settle \/ CancelAgain \/ Record
              PROVE  RunnerInv'
  OBVIOUS
<1>. USE DEF RunnerInv, TypeOK, Bounded, Gated, InTheJob, Reaped, Alive, Calling, Ended, outside, suite,
             output, Close
<1>1. CASE StopFails
  BY <1>1 DEF StopFails
<1>2. CASE Return
  BY <1>2 DEF Return
<1>3. CASE Settle
  BY <1>3 DEF Settle
<1>4. CASE CancelAgain
  BY <1>4 DEF CancelAgain
<1>5. CASE Record
  <2>1. Passes(reason, code) \in BOOLEAN
    BY DEF Passes
  <2>2. /\ passed' \in Seq(BOOLEAN)
        /\ Len(passed') = Len(passed) + 1
    BY <1>5, <2>1 DEF Record
  <2>3. Len(passed) + 1 \in 1 .. Jobs
    BY <1>5, RunnerAssumption DEF Record
  <2>4. genuine' \subseteq 1 .. Jobs
    BY <1>5, <2>3 DEF Record
  <2>5. pc' \in {"idle", "finished"} /\ (pc' = "idle" => Len(passed') < Jobs)
    BY <1>5, <2>2 DEF Record
  <2>6. TypeOK'
    BY <1>5, <2>2, <2>3, <2>4, <2>5 DEF Record
  <2>. QED  BY <1>5, <2>5, <2>6 DEF Record
<1>. QED  BY <1>1, <1>2, <1>3, <1>4, <1>5

LEMMA RunnerNext == RunnerInv /\ [Next]_vars => RunnerInv'
<1>. SUFFICES ASSUME RunnerInv, [Next]_vars PROVE RunnerInv'
  OBVIOUS
<1>1. CASE RunnerStep
  BY <1>1, StartSteps, DrainStep, CollectSteps, EndSteps DEF RunnerStep
<1>2. CASE ProcessStep
  BY <1>2, ProcessSteps
<1>3. CASE Cancel \/ CancelAgain
  BY <1>3, CollectSteps, EndSteps
<1>4. CASE UNCHANGED vars
  BY <1>4 DEF RunnerInv, TypeOK, Bounded, Gated, InTheJob, Reaped, Alive, vars
<1>. QED  BY <1>1, <1>2, <1>3, <1>4 DEF Next, Finished

(***************************************************************************)
(* What becomes of the output                                              *)
(***************************************************************************)

LEMMA PendingFinite ==
    ASSUME TypeOK, NEW kept \in SUBSET (1 .. written), NEW pipe, NEW s
    PROVE  IsFiniteSet(kept) /\ IsFiniteSet(Pending(written, kept, pipe, s))
<1>1. written \in Nat
  BY RunnerAssumption DEF TypeOK
<1>2. IsFiniteSet(1 .. written)
  BY <1>1, FS_Interval
<1>. QED  BY <1>2, FS_Subset DEF Pending

\* A chunk that is written is in its pipe.
LEMMA WriteOutput ==
    ASSUME TypeOK, OutputFacts, NEW t \in Streams, Write(t) PROVE OutputFacts'
<1>. SUFFICES ASSUME ~overflow'
              PROVE  \E kept \in SUBSET (1 .. written') : \E pipe \in [1 .. written' -> Streams] :
                        /\ Cardinality(kept) = used'
                        /\ \A s \in Streams : Cardinality(Pending(written', kept, pipe, s)) = piped'[s]
  BY DEF OutputFacts
<1>1. /\ written \in Nat /\ written' = written + 1 /\ used' = used /\ ~overflow
      /\ piped' = [piped EXCEPT ![t] = piped[t] + 1]
      /\ \A s \in Streams : piped[s] \in Nat
  BY RunnerAssumption DEF TypeOK, Write
<1>2. PICK kept \in SUBSET (1 .. written) : \E pipe \in [1 .. written -> Streams] :
        /\ Cardinality(kept) = used
        /\ \A s \in Streams : Cardinality(Pending(written, kept, pipe, s)) = piped[s]
  BY <1>1 DEF OutputFacts
<1>3. PICK pipe \in [1 .. written -> Streams] :
        /\ Cardinality(kept) = used
        /\ \A s \in Streams : Cardinality(Pending(written, kept, pipe, s)) = piped[s]
  BY <1>2
<1>. DEFINE longer == [i \in 1 .. (written + 1) |-> IF i = written + 1 THEN t ELSE pipe[i]]
<1>4. /\ longer \in [1 .. (written + 1) -> Streams]
      /\ longer[written + 1] = t
      /\ \A i \in 1 .. written : longer[i] = pipe[i]
  BY <1>1
<1>5. \A i : i \in 1 .. (written + 1) <=> (i \in 1 .. written \/ i = written + 1)
  BY <1>1
<1>6. ~ (written + 1 \in 1 .. written)
  BY <1>1
<1>. HIDE DEF longer
<1>7. Pending(written', kept, longer, t) = Pending(written, kept, pipe, t) \cup {written + 1}
  BY <1>1, <1>4, <1>5, <1>6 DEF Pending
<1>8. ASSUME NEW s \in Streams, s # t PROVE Pending(written', kept, longer, s) = Pending(written, kept, pipe, s)
  BY <1>1, <1>4, <1>5, <1>6, <1>8 DEF Pending
<1>9. Cardinality(Pending(written', kept, longer, t)) = piped[t] + 1
  <2>1. ~ (written + 1 \in Pending(written, kept, pipe, t))
    BY <1>6 DEF Pending
  <2>2. IsFiniteSet(Pending(written, kept, pipe, t))
    BY PendingFinite
  <2>3. Cardinality(Pending(written, kept, pipe, t) \cup {written + 1})
          = Cardinality(Pending(written, kept, pipe, t)) + 1
    BY <2>1, <2>2, FS_AddElement
  <2>. QED  BY <1>3, <1>7, <2>3
<1>10. ASSUME NEW s \in Streams PROVE Cardinality(Pending(written', kept, longer, s)) = piped'[s]
  <2>1. piped'[t] = piped[t] + 1 /\ (s # t => piped'[s] = piped[s])
    BY <1>1 DEF TypeOK
  <2>2. CASE s = t
    BY <1>9, <2>1, <2>2
  <2>3. CASE s # t
    <3>1. Cardinality(Pending(written', kept, longer, s)) = Cardinality(Pending(written, kept, pipe, s))
      BY <1>8, <2>3
    <3>. QED  BY <1>3, <2>1, <2>3, <3>1
  <2>. QED  BY <2>2, <2>3
<1>11. kept \in SUBSET (1 .. written') /\ longer \in [1 .. written' -> Streams]
  BY <1>1, <1>4, <1>5
<1>12. Cardinality(kept) = used'
  BY <1>1, <1>3
<1>. QED  BY <1>10, <1>11, <1>12

\* What is drained while the limit holds is kept.
LEMMA DrainOutput ==
    ASSUME TypeOK, OutputFacts, NEW t \in Streams, Drain(t) PROVE OutputFacts'
<1>. SUFFICES ASSUME ~overflow'
              PROVE  \E kept \in SUBSET (1 .. written') : \E pipe \in [1 .. written' -> Streams] :
                        /\ Cardinality(kept) = used'
                        /\ \A s \in Streams : Cardinality(Pending(written', kept, pipe, s)) = piped'[s]
  BY DEF OutputFacts
<1>1. /\ written \in Nat /\ written' = written /\ ~overflow
      /\ used \in Nat /\ used' = used + piped[t]
      /\ piped' = [piped EXCEPT ![t] = 0]
      /\ \A s \in Streams : piped[s] \in Nat
  <2>. DEFINE retained == Min({piped[t], OutputLimit - used})
  <2>1. used' = used + retained /\ overflow' = (overflow \/ retained # piped[t])
    BY DEF Drain
  <2>2. retained = piped[t] /\ ~overflow
    BY <2>1
  <2>. HIDE DEF retained
  <2>. QED  BY <2>1, <2>2, RunnerAssumption DEF TypeOK, Drain
<1>2. PICK kept \in SUBSET (1 .. written) : \E pipe \in [1 .. written -> Streams] :
        /\ Cardinality(kept) = used
        /\ \A s \in Streams : Cardinality(Pending(written, kept, pipe, s)) = piped[s]
  BY <1>1 DEF OutputFacts
<1>3. PICK pipe \in [1 .. written -> Streams] :
        /\ Cardinality(kept) = used
        /\ \A s \in Streams : Cardinality(Pending(written, kept, pipe, s)) = piped[s]
  BY <1>2
<1>. DEFINE more == kept \cup Pending(written, kept, pipe, t)
<1>4. more \in SUBSET (1 .. written)
  BY DEF Pending
<1>5. Cardinality(more) = used + piped[t]
  <2>1. IsFiniteSet(kept) /\ IsFiniteSet(Pending(written, kept, pipe, t))
    BY PendingFinite
  <2>2. kept \cap Pending(written, kept, pipe, t) = {}
    BY DEF Pending
  <2>3. Cardinality(more) = Cardinality(kept) + Cardinality(Pending(written, kept, pipe, t)) - Cardinality({})
    BY <2>1, <2>2, FS_Union
  <2>. QED  BY <1>1, <1>3, <2>3, FS_EmptySet
<1>6. Pending(written', more, pipe, t) = {}
  BY <1>1 DEF Pending
<1>7. ASSUME NEW s \in Streams, s # t PROVE Pending(written', more, pipe, s) = Pending(written, kept, pipe, s)
  BY <1>1, <1>7 DEF Pending
<1>. HIDE DEF more
<1>8. ASSUME NEW s \in Streams PROVE Cardinality(Pending(written', more, pipe, s)) = piped'[s]
  <2>1. piped'[t] = 0 /\ (s # t => piped'[s] = piped[s])
    BY <1>1 DEF TypeOK
  <2>2. CASE s = t
    BY <1>6, <2>1, <2>2, FS_EmptySet
  <2>3. CASE s # t
    <3>1. Cardinality(Pending(written', more, pipe, s)) = Cardinality(Pending(written, kept, pipe, s))
      BY <1>7, <2>3
    <3>. QED  BY <1>3, <2>1, <2>3, <3>1
  <2>. QED  BY <2>2, <2>3
<1>9. more \in SUBSET (1 .. written') /\ pipe \in [1 .. written' -> Streams]
  BY <1>1, <1>4
<1>10. Cardinality(more) = used'
  BY <1>1, <1>5
<1>. QED  BY <1>8, <1>9, <1>10

\* A call starts with nothing written.
LEMMA NoOutput ==
    ASSUME written = 0, used = 0, \A s \in Streams : piped[s] = 0 PROVE OutputFacts
<1>1. 1 .. written = {}
  BY SMT
<1>2. {} \in SUBSET (1 .. written) /\ [i \in {} |-> {}] \in [1 .. written -> Streams]
  BY <1>1
<1>3. \A s \in Streams : Pending(written, {}, [i \in {} |-> {}], s) = {}
  BY <1>1 DEF Pending
<1>4. Cardinality({}) = 0
  BY FS_EmptySet
<1>5. \A s \in Streams : Cardinality(Pending(written, {}, [i \in {} |-> {}], s)) = piped[s]
  BY <1>3, <1>4
<1>. QED  BY <1>2, <1>4, <1>5, Zenon DEF OutputFacts

\* When the pipes are empty, all that was written is kept.
LEMMA EmptyPipes ==
    ASSUME TypeOK, OutputFacts, ~overflow, \A s \in Streams : piped[s] = 0
    PROVE  used = written
<1>1. written \in Nat
  BY RunnerAssumption DEF TypeOK
<1>2. PICK kept \in SUBSET (1 .. written) : \E pipe \in [1 .. written -> Streams] :
        /\ Cardinality(kept) = used
        /\ \A s \in Streams : Cardinality(Pending(written, kept, pipe, s)) = piped[s]
  BY DEF OutputFacts
<1>3. PICK pipe \in [1 .. written -> Streams] :
        /\ Cardinality(kept) = used
        /\ \A s \in Streams : Cardinality(Pending(written, kept, pipe, s)) = piped[s]
  BY <1>2
<1>4. ASSUME NEW s \in Streams PROVE Pending(written, kept, pipe, s) = {}
  <2>1. IsFiniteSet(Pending(written, kept, pipe, s))
    BY PendingFinite
  <2>. QED  BY <1>3, <2>1, FS_EmptySet
<1>5. kept = 1 .. written
  <2>1. ASSUME NEW i \in 1 .. written PROVE i \in kept
    <3>1. pipe[i] \in Streams
      OBVIOUS
    <3>. QED  BY <1>4, <3>1 DEF Pending
  <2>. QED  BY <2>1
<1>6. Cardinality(1 .. written) = written
  BY <1>1, FS_Interval
<1>. QED  BY <1>3, <1>5, <1>6

(***************************************************************************)
(* What the results rest on                                                *)
(***************************************************************************)

LEMMA OutputNext == TypeOK /\ OutputFacts /\ [Next]_vars => OutputFacts'
<1>. SUFFICES ASSUME TypeOK, OutputFacts, [Next]_vars PROVE OutputFacts'
  OBVIOUS
<1>1. ASSUME NEW s \in Streams, Write(s) \/ Drain(s) PROVE OutputFacts'
  BY <1>1, WriteOutput, DrainOutput
<1>2. CASE Spawn
  <2>1. written' = 0 /\ used' = 0 /\ \A s \in Streams : piped'[s] = 0
    BY <1>2 DEF Spawn
  <2>2. (written = 0 /\ used = 0 /\ (\A s \in Streams : piped[s] = 0) => OutputFacts)'
    BY NoOutput, PTL
  <2>. QED  BY <2>1, <2>2
<1>3. CASE UNCHANGED output
  BY <1>3 DEF output, OutputFacts
<1>4. CASE RunnerStep /\ ~Spawn /\ ~ \E s \in Streams : Drain(s)
  BY <1>3, <1>4 DEF RunnerStep, RefuseStart, Assign, AssignFails, Feed, Exits, Overflows, TimesOut,
     Stopped, GraceExpires, StopFails, Return, Settle, Record
<1>5. CASE ProcessStep /\ ~ \E s \in Streams : Write(s)
  BY <1>3, <1>5 DEF ProcessStep, StartProvider, HostFails, TreeChanges, HostExits, BreakEndsHost,
     JobDies
<1>6. CASE Cancel \/ CancelAgain \/ Finished \/ UNCHANGED vars
  BY <1>3, <1>6 DEF Cancel, CancelAgain, Finished, vars, output
<1>. QED  BY <1>1, <1>2, <1>4, <1>5, <1>6 DEF Next

\* A call that has returned only waits for its result to be recorded.
LEMMA ReturnedIsQuiet == ReturnFacts /\ pc = "returned" /\ Next => Record
<1>. SUFFICES ASSUME ReturnFacts, pc = "returned", Next PROVE Record
  OBVIOUS
<1>1. host # "running" /\ tree = {}
  BY DEF ReturnFacts, Alive
<1>2. ~ProcessStep
  BY <1>1 DEF ProcessStep, StartProvider, HostFails, TreeChanges, HostExits, BreakEndsHost, JobDies,
     Write, Alive
<1>3. RunnerStep => Record
  BY DEF RunnerStep, Spawn, RefuseStart, Assign, AssignFails, Feed, Drain, Exits, Overflows,
     TimesOut, Stopped, GraceExpires, StopFails, Return, Settle, Calling
<1>4. ~Cancel /\ ~CancelAgain /\ ~Finished
  BY DEF Cancel, CancelAgain, Finished
<1>. QED  BY <1>2, <1>3, <1>4 DEF Next

LEMMA ReturnNext == TypeOK /\ OutputFacts /\ ReturnFacts /\ [Next]_vars => ReturnFacts'
<1>. SUFFICES ASSUME TypeOK, OutputFacts, ReturnFacts, [Next]_vars, pc' = "returned"
              PROVE  ~Alive' /\ (reason' # "output_limit_exceeded" => used' = written')
  BY DEF ReturnFacts
<1>1. CASE Return
  <2>1. /\ ~Alive /\ \A s \in Streams : piped[s] = 0
        /\ reason' = IF overflow THEN "output_limit_exceeded" ELSE reason
        /\ UNCHANGED <<host, tree, written, used>>
    BY <1>1 DEF Return, Drained, outside, output
  <2>2. ~overflow => used = written
    BY <2>1, EmptyPipes
  <2>. QED  BY <2>1, <2>2 DEF Alive
<1>2. CASE Next /\ ~Return
  <2>1. pc = "returned"
    <3>1. CASE RunnerStep
      BY <1>2, <3>1 DEF RunnerStep, Spawn, RefuseStart, Assign, AssignFails, Feed, Drain, Exits,
         Overflows, TimesOut, Stopped, GraceExpires, StopFails, Settle, Record, Terminate,
         AfterTermination, Close
    <3>2. CASE ProcessStep
      BY <3>2 DEF ProcessStep, StartProvider, HostFails, TreeChanges, HostExits, BreakEndsHost,
         JobDies, Write
    <3>3. CASE Cancel \/ CancelAgain \/ Finished
      BY <3>3 DEF Cancel, CancelAgain, Finished, Terminate, AfterTermination, Close, vars
    <3>. QED  BY <1>2, <3>1, <3>2, <3>3 DEF Next
  <2>2. Record
    BY <1>2, <2>1, ReturnedIsQuiet
  <2>. QED  BY <2>2 DEF Record
<1>3. CASE UNCHANGED vars
  BY <1>3 DEF vars, ReturnFacts, Alive
<1>. QED  BY <1>1, <1>2, <1>3

LEMMA ProviderNext == TypeOK /\ ProviderFacts /\ [Next]_vars => ProviderFacts'
<1>. SUFFICES ASSUME TypeOK, ProviderFacts, [Next]_vars PROVE ProviderFacts'
  OBVIOUS
<1>. USE DEF ProviderFacts, TypeOK, Calling
<1>1. CASE ProcessStep
  <2>1. CASE StartProvider
    BY <2>1 DEF StartProvider
  <2>2. CASE HostFails
    BY <2>2 DEF HostFails
  <2>3. CASE TreeChanges
    BY <2>3 DEF TreeChanges
  <2>4. CASE HostExits
    BY <2>4 DEF HostExits
  <2>5. CASE BreakEndsHost \/ JobDies
    BY <2>5 DEF BreakEndsHost, JobDies, Alive
  <2>6. ASSUME NEW s \in Streams, Write(s) PROVE ProviderFacts'
    BY <2>6 DEF Write, outside
  <2>. QED  BY <1>1, <2>1, <2>2, <2>3, <2>4, <2>5, <2>6 DEF ProcessStep
<1>2. CASE Spawn
  BY <1>2 DEF Spawn
<1>3. CASE Assign \/ AssignFails \/ RefuseStart
  BY <1>3 DEF Assign, AssignFails, RefuseStart, outside
<1>4. CASE Feed
  BY <1>4 DEF Feed
<1>5. ASSUME NEW s \in Streams, Drain(s) PROVE ProviderFacts'
  BY <1>5 DEF Drain, outside
<1>6. CASE Exits \/ Overflows \/ TimesOut \/ Stopped \/ GraceExpires \/ Cancel
  BY <1>6 DEF Exits, Overflows, TimesOut, Stopped, GraceExpires, Cancel, Terminate,
     AfterTermination, outside
<1>7. CASE StopFails \/ Return \/ Settle \/ CancelAgain
  BY <1>7 DEF StopFails, Return, Settle, CancelAgain, Close, outside
<1>8. CASE Record
  BY <1>8 DEF Record, outside
<1>9. CASE Finished \/ UNCHANGED vars
  BY <1>9 DEF Finished, vars
<1>. QED
  BY <1>1, <1>2, <1>3, <1>4, <1>5, <1>6, <1>7, <1>8, <1>9 DEF Next, RunnerStep

LEMMA StopNext == TypeOK /\ StopFacts /\ [Next]_vars => StopFacts'
<1>. SUFFICES ASSUME TypeOK, StopFacts, [Next]_vars PROVE StopFacts'
  OBVIOUS
<1>. USE DEF StopFacts, TypeOK
<1>1. CASE ProcessStep
  BY <1>1 DEF ProcessStep, StartProvider, HostFails, TreeChanges, HostExits, BreakEndsHost, JobDies,
     Write
<1>2. CASE Spawn \/ RefuseStart \/ Assign \/ AssignFails \/ Feed
  BY <1>2 DEF Spawn, RefuseStart, Assign, AssignFails, Feed
<1>3. ASSUME NEW s \in Streams, Drain(s) PROVE StopFacts'
  BY <1>3 DEF Drain
<1>4. CASE Exits \/ Stopped \/ GraceExpires
  BY <1>4 DEF Exits, Stopped, GraceExpires, AfterTermination
<1>5. CASE Overflows \/ TimesOut
  BY <1>5 DEF Overflows, TimesOut, Terminate, AfterTermination
<1>6. CASE Cancel
  BY <1>6 DEF Cancel, Terminate, AfterTermination
<1>7. CASE StopFails \/ Return \/ Settle \/ CancelAgain
  BY <1>7 DEF StopFails, Return, Settle, CancelAgain, Close
<1>8. CASE Record
  BY <1>8 DEF Record
<1>9. CASE Finished \/ UNCHANGED vars
  BY <1>9 DEF Finished, vars
<1>. QED
  BY <1>1, <1>2, <1>3, <1>4, <1>5, <1>6, <1>7, <1>8, <1>9 DEF Next, RunnerStep

\* A result that passes is of a provider that was started, not stopped, and fully heard.
LEMMA PassedIsGenuine ==
    ASSUME RunnerInv, ResultsInv, Record, Passes(reason, code)
    PROVE  Len(passed) + 1 \in genuine'
<1>1. pc = "returned" /\ reason = "exited" /\ code = 0
  BY DEF Record, Passes
<1>2. used = written /\ host # "running"
  BY <1>1 DEF ResultsInv, ReturnFacts, Alive
<1>3. host = "exited"
  BY <1>1, <1>2 DEF ResultsInv, ProviderFacts, RunnerInv, TypeOK
<1>4. started
  BY <1>1, <1>3 DEF ResultsInv, ProviderFacts
<1>5. ~signalled
  BY <1>1 DEF ResultsInv, StopFacts
<1>. QED  BY <1>1, <1>2, <1>4, <1>5 DEF Record

LEMMA SuiteNext == RunnerInv /\ ResultsInv /\ [Next]_vars => SuiteFacts'
<1>. SUFFICES ASSUME RunnerInv, ResultsInv, [Next]_vars PROVE SuiteFacts'
  OBVIOUS
<1>1. CASE Record
  <2>1. /\ passed \in Seq(BOOLEAN) /\ Len(passed) \in Nat /\ Len(passed) < Jobs /\ Jobs \in Nat
        /\ \A i \in 1 .. Len(passed) : passed[i] => i \in genuine
    BY <1>1, RunnerAssumption
       DEF RunnerInv, TypeOK, Bounded, ResultsInv, SuiteFacts, Record
  <2>2. Passes(reason, code) \in BOOLEAN
    BY DEF Passes
  <2>3. /\ Len(passed') = Len(passed) + 1
        /\ \A i \in 1 .. Len(passed) : passed'[i] = passed[i]
        /\ passed'[Len(passed) + 1] = Passes(reason, code)
    BY <1>1, <2>1, <2>2 DEF Record
  <2>4. genuine \subseteq genuine'
    BY <1>1 DEF Record
  <2>5. ASSUME NEW i \in 1 .. Len(passed'), passed'[i] PROVE i \in genuine'
    <3>1. CASE i \in 1 .. Len(passed)
      BY <2>1, <2>3, <2>4, <2>5, <3>1
    <3>2. CASE i = Len(passed) + 1
      <4>1. Passes(reason, code)
        BY <2>3, <2>5, <3>2
      <4>. QED  BY <1>1, <3>2, <4>1, PassedIsGenuine
    <3>3. i \in 1 .. Len(passed) \/ i = Len(passed) + 1
      BY <2>1, <2>3
    <3>. QED  BY <3>1, <3>2, <3>3
  <2>6. pc' = "finished" => Len(passed') = Jobs
    BY <1>1, <2>1, <2>3 DEF Record
  <2>. QED  BY <2>5, <2>6 DEF SuiteFacts
<1>2. CASE UNCHANGED <<passed, genuine>> /\ (pc' = "finished" => pc = "finished")
  BY <1>2 DEF ResultsInv, SuiteFacts
<1>3. CASE RunnerStep /\ ~Record
  BY <1>2, <1>3 DEF RunnerStep, Spawn, RefuseStart, Assign, AssignFails, Feed, Drain, Exits,
     Overflows, TimesOut, Stopped, GraceExpires, StopFails, Return, Settle, Terminate,
     AfterTermination, Close, suite
<1>4. CASE ProcessStep
  BY <1>2, <1>4 DEF ProcessStep, StartProvider, HostFails, TreeChanges, HostExits, BreakEndsHost,
     JobDies, Write, suite
<1>5. CASE Cancel \/ CancelAgain \/ Finished \/ UNCHANGED vars
  BY <1>2, <1>5 DEF Cancel, CancelAgain, Finished, Terminate, AfterTermination, Close, suite, vars
<1>. QED  BY <1>1, <1>3, <1>4, <1>5 DEF Next

LEMMA ResultsInit == Init => ResultsInv
<1>. SUFFICES ASSUME Init PROVE ResultsInv
  OBVIOUS
<1>1. OutputFacts
  BY NoOutput DEF Init
<1>2. ReturnFacts /\ ProviderFacts /\ StopFacts
  BY DEF Init, ReturnFacts, ProviderFacts, StopFacts, Calling
<1>3. SuiteFacts
  BY DEF Init, SuiteFacts
<1>. QED  BY <1>1, <1>2, <1>3 DEF ResultsInv

LEMMA ResultsNext == RunnerInv /\ ResultsInv /\ [Next]_vars => ResultsInv'
BY OutputNext, ReturnNext, ProviderNext, StopNext, SuiteNext DEF RunnerInv, ResultsInv

\* The inductive invariant of a call and of the suite holds, whatever the processes do.
THEOREM RunnerInvariant == Spec => []RunnerInv
BY RunnerInit, RunnerNext, PTL DEF Spec

\* The types of the runner's state: no more output is kept than the limit allows, and no
\* more results are recorded than there are jobs.
THEOREM RunnerTypes == Spec => []TypeOK
<1>1. RunnerInv => TypeOK
  BY DEF RunnerInv
<1>. QED  BY <1>1, RunnerInvariant, PTL

\* Process-tree ownership: when run() is left, whichever step leaves it, everything that
\* it caused to exist is dead or is being killed.
THEOREM NothingOutlives == Spec => []NothingOutlivesTheCall
<1>1. RunnerInv => NothingOutlivesTheCall
  BY DEF RunnerInv, Reaped, NothingOutlivesTheCall
<1>. QED  BY <1>1, RunnerInvariant, PTL

\* What the results rest on holds of every call and of the suite so far.
THEOREM ResultsHold == Spec => []ResultsInv
<1>1. Init => RunnerInv /\ ResultsInv
  BY RunnerInit, ResultsInit
<1>2. RunnerInv /\ ResultsInv /\ [Next]_vars => (RunnerInv /\ ResultsInv)'
  BY RunnerNext, ResultsNext
<1>. QED  BY <1>1, <1>2, PTL DEF Spec

\* A result that does not blame the limit carries everything that was written.
THEOREM NothingDropped == Spec => []NothingIsDroppedSilently
<1>1. ResultsInv => NothingIsDroppedSilently
  BY DEF ResultsInv, ReturnFacts, NothingIsDroppedSilently
<1>. QED  BY <1>1, ResultsHold, PTL

\* A suite passes only when every required job's provider really ran to its end.
THEOREM VerifiedRan == Spec => []VerifiedJobsRan
<1>1. ResultsInv => VerifiedJobsRan
  <2>. SUFFICES ASSUME ResultsInv, pc = "finished", SuitePassed, NEW i \in Required
                PROVE  i \in genuine
    BY DEF VerifiedJobsRan
  <2>1. i \in 1 .. Len(passed)
    BY RunnerAssumption DEF ResultsInv, SuiteFacts
  <2>2. passed[i]
    BY <2>1 DEF SuitePassed
  <2>. QED  BY <2>1, <2>2 DEF ResultsInv, SuiteFacts
<1>. QED  BY <1>1, ResultsHold, PTL

=============================================================================
