--------------------------- MODULE ProcessRunner ---------------------------
(***************************************************************************)
(* Child processes under time and output limits (execution.py,             *)
(* process_host.py, windows_job.py), called once for each job of a         *)
(* verification suite (verification.py).  The supervisor spawns a trusted  *)
(* host, puts it into a Job Object, and only then sends it the launch      *)
(* frame, on which the host starts the provider.  The host, the provider   *)
(* and what the provider leaves behind run by themselves and hold the      *)
(* ends of the output pipes.                                               *)
(***************************************************************************)
EXTENDS Naturals, Sequences, FiniteSetsExt

CONSTANTS
    Streams,       \* the output pipes
    Descendants,   \* processes that the provider may start
    OutputLimit,   \* output_limit_bytes, in chunks
    MaxWritten,    \* bound of the model: chunks written in one call
    Jobs,          \* number of verification jobs
    Required       \* the required ones

ASSUME RunnerAssumption ==
    /\ OutputLimit \in Nat \ {0}
    /\ MaxWritten \in Nat
    /\ Jobs \in Nat \ {0}
    /\ Required \subseteq 1 .. Jobs
    /\ "provider" \notin Descendants

VARIABLES
    pc,         \* where ProcessRunner.run is
    host,       \* the host process
    code,       \* its return code, once it has exited
    fed,        \* the launch frame is in the host's stdin
    started,    \* the host has started the provider
    tree,       \* the living processes below the host
    job,        \* the Job Object: "none", "owned" (host and tree are in it), "closed"
    doomed,     \* the job was terminated, or closed: its processes are being killed
    signalled,  \* the tree was told to stop
    piped,      \* chunks in each pipe that are not drained
    written,    \* history: chunks written in this call
    used,       \* chunks kept
    overflow,   \* the event of that name
    drains,     \* whether the drain tasks run or were canceled
    reason,     \* termination_reason
    canceled,   \* run() handles a CancelledError
    passed,     \* results of the suite so far
    genuine,    \* history: the jobs whose provider ended by itself, with all its output kept
    waitsForPipes   \* whether asyncio's Process.wait() also waits for the pipes (depends on the Python release)

vars == <<pc, host, code, fed, started, tree, job, doomed, signalled, piped, written, used,
          overflow, drains, reason, canceled, passed, genuine, waitsForPipes>>

outside == <<host, code, fed, started, tree>>
output == <<piped, written, used, overflow>>
suite == <<passed, genuine, waitsForPipes>>

Calling == {"wait", "grace", "kill", "drain", "settle"}
Ended == {"returned", "failed", "canceled", "finished"}

TypeOK ==
    /\ pc \in {"idle", "spawned"} \cup Calling \cup Ended
    /\ host \in {"none", "running", "exited"}
    /\ code \in {0, 1}
    /\ tree \subseteq {"provider"} \cup Descendants
    /\ job \in {"none", "owned", "closed"}
    /\ piped \in [Streams -> 0 .. MaxWritten]
    /\ written \in 0 .. MaxWritten
    /\ used \in 0 .. OutputLimit
    /\ drains \in {"running", "canceled"}
    /\ reason \in {"exited", "timed_out", "output_limit_exceeded"}
    /\ passed \in Seq(BOOLEAN) /\ Len(passed) <= Jobs
    /\ genuine \subseteq 1 .. Jobs
    /\ {fed, started, doomed, signalled, overflow, canceled, waitsForPipes} \subseteq BOOLEAN

Alive == host = "running" \/ tree # {}

(***************************************************************************)
(* The processes                                                           *)
(***************************************************************************)

\* subprocess.run, once the frame has been read and the executable verified.
StartProvider ==
    /\ host = "running" /\ fed /\ ~started /\ ~doomed
    /\ started' = TRUE
    /\ tree' = tree \cup {"provider"}
    /\ UNCHANGED <<pc, host, code, fed, job, doomed, signalled, output, drains, reason, canceled, suite>>

\* The host rejects the launch, or dies before it.
HostFails ==
    /\ host = "running" /\ ~started
    /\ host' = "exited" /\ code' = 1
    /\ UNCHANGED <<pc, fed, started, tree, job, doomed, signalled, output, drains, reason, canceled, suite>>

\* The provider may start processes that share its pipes, and any of them may end.
TreeChanges ==
    /\ \/ \E d \in Descendants : "provider" \in tree /\ ~doomed /\ tree' = tree \cup {d} /\ UNCHANGED code
       \/ \E d \in tree \cap Descendants : tree' = tree \ {d} /\ UNCHANGED code
       \/ "provider" \in tree /\ tree' = tree \ {"provider"} /\ code' \in {0, 1}
    /\ UNCHANGED <<pc, host, fed, started, job, doomed, signalled, output, drains, reason, canceled, suite>>

\* The host returns what the provider returned.
HostExits ==
    /\ host = "running" /\ started /\ "provider" \notin tree
    /\ host' = "exited"
    /\ UNCHANGED <<pc, code, fed, started, tree, job, doomed, signalled, output, drains, reason, canceled, suite>>

\* CTRL_BREAK reaches the process group.  The host does not handle it; the others may
\* end, or ignore it.
BreakEndsHost ==
    /\ host = "running" /\ signalled
    /\ host' = "exited" /\ code' = 1
    /\ UNCHANGED <<pc, fed, started, tree, job, doomed, signalled, output, drains, reason, canceled, suite>>

\* What is in a job that was terminated or closed dies.
JobDies ==
    /\ doomed /\ Alive
    /\ host' = "exited" /\ tree' = {}
    /\ code' = IF host = "running" THEN 1 ELSE code
    /\ UNCHANGED <<pc, fed, started, job, doomed, signalled, output, drains, reason, canceled, suite>>

Write(s) ==
    /\ Alive /\ written < MaxWritten
    /\ written' = written + 1
    /\ piped' = [piped EXCEPT ![s] = @ + 1]
    /\ UNCHANGED <<pc, outside, job, doomed, signalled, used, overflow, drains, reason, canceled, suite>>

(***************************************************************************)
(* ProcessRunner.run up to its tasks                                       *)
(***************************************************************************)

Spawn ==
    /\ pc = "idle"
    /\ pc' = "spawned"
    /\ host' = "running" /\ code' = 0 /\ fed' = FALSE /\ started' = FALSE /\ tree' = {}
    /\ job' = "none" /\ doomed' = FALSE /\ signalled' = FALSE
    /\ piped' = [s \in Streams |-> 0] /\ written' = 0 /\ used' = 0 /\ overflow' = FALSE
    /\ drains' = "running" /\ reason' = "exited"
    /\ UNCHANGED <<canceled, suite>>

\* The executable or the host changed, or no process could be created.
RefuseStart ==
    /\ pc = "idle"
    /\ pc' = "failed"
    /\ UNCHANGED <<outside, job, doomed, signalled, output, drains, reason, canceled, suite>>

FaultyAssign ==   \* a host that could not be assigned is taken for one that has exited
    /\ pc = "spawned"
    /\ pc' = "wait"
    /\ job' \in IF host = "running" THEN {"owned", "closed"} ELSE {"closed"}
    /\ UNCHANGED <<outside, doomed, signalled, output, drains, reason, canceled, suite>>

\* WindowsJob.create_for_process: a host that has exited needs no job.
Assign ==
    /\ pc = "spawned"
    /\ pc' = "wait"
    /\ job' = IF host = "running" THEN "owned" ELSE "closed"
    /\ UNCHANGED <<outside, doomed, signalled, output, drains, reason, canceled, suite>>

\* The job cannot be created or the host not assigned: the host is killed.
AssignFails ==
    /\ pc = "spawned"
    /\ pc' = "failed"
    /\ host' = "exited" /\ code' = 1
    /\ job' = "closed"
    /\ UNCHANGED <<fed, started, tree, doomed, signalled, output, drains, reason, canceled, suite>>

Feed ==
    /\ pc \in Calling /\ host = "running" /\ ~fed
    /\ fed' = TRUE
    /\ UNCHANGED <<pc, host, code, started, tree, job, doomed, signalled, output, drains, reason, canceled, suite>>

\* _drain_stream with the limiter that both streams share.
Drain(s) ==
    /\ pc \in Calling /\ drains = "running" /\ piped[s] > 0
    /\ LET retained == Min({piped[s], OutputLimit - used}) IN
         /\ used' = used + retained
         /\ overflow' = (overflow \/ retained # piped[s])
    /\ piped' = [piped EXCEPT ![s] = 0]
    /\ UNCHANGED <<pc, outside, job, doomed, signalled, written, drains, reason, canceled, suite>>

(***************************************************************************)
(* _collect_process_result                                                 *)
(***************************************************************************)

\* wait_task is done.
WaitDone == host = "exited" /\ (waitsForPipes => tree = {})

\* Both drain tasks have met the end of their stream.
Drained == ~Alive /\ \A s \in Streams : piped[s] = 0

\* Where run() goes on when the host has stopped.
AfterTermination(handlesCancel) == IF handlesCancel THEN "settle" ELSE "drain"

\* _terminate_process returns at once when there is a return code.
Terminate(handlesCancel) ==
    IF host = "exited"
      THEN pc' = AfterTermination(handlesCancel) /\ UNCHANGED signalled
      ELSE pc' = "grace" /\ signalled' = TRUE

Exits ==
    /\ pc = "wait" /\ WaitDone
    /\ pc' = "drain"
    /\ UNCHANGED <<outside, job, doomed, signalled, output, drains, reason, canceled, suite>>

Overflows ==
    /\ pc = "wait" /\ overflow
    /\ reason' = "output_limit_exceeded"
    /\ Terminate(FALSE)
    /\ UNCHANGED <<outside, job, doomed, output, drains, canceled, suite>>

FaultyTimesOut ==   \* the time starts with the first output
    /\ pc = "wait" /\ ~WaitDone /\ written > 0
    /\ reason' = "timed_out"
    /\ Terminate(FALSE)
    /\ UNCHANGED <<outside, job, doomed, output, drains, canceled, suite>>

TimesOut ==
    /\ pc = "wait" /\ ~WaitDone
    /\ reason' = "timed_out"
    /\ Terminate(FALSE)
    /\ UNCHANGED <<outside, job, doomed, output, drains, canceled, suite>>

\* The host has exited within the grace period, or after the job was terminated.
Stopped ==
    /\ pc \in {"grace", "kill"} /\ WaitDone
    /\ pc' = AfterTermination(canceled)
    /\ UNCHANGED <<outside, job, doomed, signalled, output, drains, reason, canceled, suite>>

GraceExpires ==
    /\ pc = "grace" /\ ~WaitDone
    /\ pc' = "kill"
    /\ doomed' = (doomed \/ job = "owned")
    /\ UNCHANGED <<outside, job, signalled, output, drains, reason, canceled, suite>>

\* windows_job.close in the `finally` of run(): the kernel kills what is left.
Close(end) ==
    /\ pc' = end
    /\ job' = "closed"
    /\ doomed' = (doomed \/ job = "owned")

\* The job cannot be terminated, or the host outlives its termination.
StopFails ==
    /\ \/ pc = "grace" /\ ~WaitDone
       \/ pc = "kill" /\ ~WaitDone
    /\ Close("failed")
    /\ UNCHANGED <<outside, signalled, output, drains, reason, canceled, suite>>

FaultyReturn ==   \* the limit is not looked at again after the drain tasks have ended
    /\ pc = "drain" /\ Drained
    /\ UNCHANGED reason
    /\ Close("returned")
    /\ UNCHANGED <<outside, signalled, output, drains, canceled, suite>>

\* gather of the drain tasks, then the overflow event once more.
Return ==
    /\ pc = "drain" /\ Drained
    /\ reason' = IF overflow THEN "output_limit_exceeded" ELSE reason
    /\ Close("returned")
    /\ UNCHANGED <<outside, signalled, output, drains, canceled, suite>>

\* The deadline of the run or its operator cancels the call at an await.  While it waits
\* for the drain tasks, these are canceled with it.
Cancel ==
    /\ pc \in {"wait", "grace", "kill", "drain"} /\ ~canceled
    /\ canceled' = TRUE
    /\ drains' = IF pc = "drain" THEN "canceled" ELSE drains
    /\ Terminate(TRUE)
    /\ UNCHANGED <<outside, job, doomed, output, reason, suite>>

\* _settle_io_tasks, and the CancelledError is raised again.
Settle ==
    /\ pc = "settle" /\ (drains = "canceled" \/ Drained)
    /\ Close("canceled")
    /\ UNCHANGED <<outside, signalled, output, drains, reason, canceled, suite>>

\* A second cancellation ends the wait for the shielded termination.
CancelAgain ==
    /\ pc \in {"grace", "kill", "settle"} /\ canceled
    /\ Close("canceled")
    /\ UNCHANGED <<outside, signalled, output, drains, reason, canceled, suite>>

(***************************************************************************)
(* Verifier.run                                                            *)
(***************************************************************************)

FaultyPasses(why, returncode) == returncode = 0

Passes(why, returncode) == why = "exited" /\ returncode = 0

\* One result after the other; a call that fails ends the suite without a result.
Record ==
    /\ pc = "returned"
    /\ passed' = Append(passed, Passes(reason, code))
    /\ genuine' = IF started /\ code = 0 /\ ~signalled /\ used = written
                    THEN genuine \cup {Len(passed) + 1} ELSE genuine
    /\ pc' = IF Len(passed) + 1 < Jobs THEN "idle" ELSE "finished"
    /\ UNCHANGED <<outside, job, doomed, signalled, output, drains, reason, canceled, waitsForPipes>>

\* VerificationSuiteResult.passed
SuitePassed == \A i \in 1 .. Len(passed) : passed[i] \/ i \notin Required

(***************************************************************************)
(* Specification                                                           *)
(***************************************************************************)

Init ==
    /\ pc = "idle"
    /\ host = "none" /\ code = 0 /\ fed = FALSE /\ started = FALSE /\ tree = {}
    /\ job = "none" /\ doomed = FALSE /\ signalled = FALSE
    /\ piped = [s \in Streams |-> 0] /\ written = 0 /\ used = 0 /\ overflow = FALSE
    /\ drains = "running" /\ reason = "exited" /\ canceled = FALSE
    /\ passed = <<>> /\ genuine = {}
    /\ waitsForPipes \in BOOLEAN

RunnerStep ==
    \/ Spawn \/ RefuseStart \/ Assign \/ AssignFails \/ Feed
    \/ \E s \in Streams : Drain(s)
    \/ Exits \/ Overflows \/ TimesOut \/ Stopped \/ GraceExpires \/ StopFails
    \/ Return \/ Settle \/ Record

ProcessStep ==
    \/ StartProvider \/ HostFails \/ TreeChanges \/ HostExits \/ BreakEndsHost \/ JobDies
    \/ \E s \in Streams : Write(s)

Finished == pc \in {"finished", "failed", "canceled"} /\ UNCHANGED vars

Next == RunnerStep \/ ProcessStep \/ Cancel \/ CancelAgain \/ Finished

Spec == Init /\ [][Next]_vars

\* The event loop goes on and its timers fire; the kernel kills what it was told to kill.
\* Nothing is assumed of the processes, or of those who cancel.
FairSpec == Spec /\ WF_vars(RunnerStep) /\ WF_vars(JobDies)

(***************************************************************************)
(* Properties                                                              *)
(***************************************************************************)

\* execution.py, "process-tree ownership": when run() is left, in whichever way, every
\* process that it caused to exist is dead or is being killed by the kernel.  The launch
\* frame is what makes this so: nothing starts before its host is in the job.
NothingOutlivesTheCall == pc \in Ended => doomed \/ ~Alive

\* A result that does not blame the limit carries everything that was written, even when
\* the last chunks are drained after the host has exited.
NothingIsDroppedSilently ==
    pc = "returned" /\ reason # "output_limit_exceeded" => used = written

\* "Deterministic verification": when a suite passes, the provider of each required job
\* really ran, ended by itself with status 0, and all of its output was kept.
VerifiedJobsRan == pc = "finished" /\ SuitePassed => Required \subseteq genuine

\* The host is gone, but a process that it left behind holds the pipes and run() waits
\* for the end of its output.
Held == pc \in {"drain", "settle"} /\ drains = "running" /\ host = "exited" /\ tree # {}

\* Whatever the processes do, and whenever the call is canceled, run() ends; the one
\* thing that can hold it forever is a descendant that survives its host, because the
\* job is closed only after the output has ended.
CallsEndUnlessHeld == <>(pc \in {"finished", "failed", "canceled"}) \/ <>[]Held
=============================================================================
