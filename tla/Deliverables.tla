---------------------------- MODULE Deliverables ----------------------------
(***************************************************************************)
(* What a run leaves to its operator: the report set (reporting.py), which *)
(* is generated again and again, and the output folder (artifacts.py),     *)
(* which is made once.  The commands of RunSetup go on here: they drive    *)
(* the run, and they, `report` and `cancel` generate and export, under two *)
(* different locks or none, while `cleanup` may remove the worktree.       *)
(***************************************************************************)
EXTENDS RunSetup, Sequences

CONSTANT MaxCandidates   \* bound of the model: commits in the implementer's worktree

ASSUME DeliverablesAssumption == MaxCandidates \in Nat

VARIABLES
    state,       \* the run's durable state
    tree,        \* the implementer's worktree: its head, and whether it is edited or removed
    observed,    \* the head of its latest observation
    candidate,   \* the candidate of the latest IMPLEMENTATION_READY event
    genLock,     \* the generation lock
    generations, \* how many reports have been generated
    draft,       \* the report that a command has generated
    reports,     \* the files of the report directory
    folder,      \* the output folder that a command prepares
    output       \* the output folder

runVars == <<state, tree, observed, candidate>>
outVars == <<draft, folder>>
vars == <<setupVars, runVars, genLock, generations, reports, outVars, output>>

Stopped == {"failed", "canceled"}
Terminal == state \in {"completed"} \cup Stopped

\* The order in which generate_reports replaces its files.  conversation.jsonl is
\* written and copied with events.jsonl.
ReportFiles == <<"events.jsonl", "report.md", "run.json">>

Blank == [id |-> 0, outcome |-> "active", candidate |-> 0]
Report == [id : Nat, outcome : {"active", "completed"} \cup Stopped, candidate : 0 .. MaxCandidates]

\* What a changed path of the candidate may be exported as: the file of a commit, the file
\* with edits that were never committed, what an operator made of it after the run's end,
\* or "deleted", as it is not there.
Copies ==
    {<<"edited">>, <<"operator">>, <<"lost">>} \cup {<<"commit", c>> : c \in 0 .. MaxCandidates}

Empty == [made |-> FALSE, payload |-> Blank, code |-> {}, copies |-> {}]
Folder == [made : BOOLEAN, payload : Report, code : SUBSET Copies, copies : SUBSET Report]

Unlock(p) == lock' = IF lock = p THEN Nobody ELSE lock

(***************************************************************************)
(* The run, as its driver changes what is reported                         *)
(***************************************************************************)

reporting == <<genLock, generations, reports, outVars, output>>

Driving(p, s) == proc[p].step = <<"work">> /\ state = s

Edit(p) ==
    /\ Driving(p, "implementing") /\ ~tree.edited /\ tree.head < MaxCandidates
    /\ tree' = [tree EXCEPT !.edited = TRUE]
    /\ UNCHANGED <<setupVars, state, observed, candidate, reporting>>

Commit(p) ==
    /\ Driving(p, "implementing") /\ tree.edited
    /\ tree' = [tree EXCEPT !.head = @ + 1, !.edited = FALSE]
    /\ UNCHANGED <<setupVars, state, observed, candidate, reporting>>

\* After a commit, and when a resumed run restores its worktrees.
Observe(p) ==
    /\ Driving(p, "implementing") /\ observed # tree.head
    /\ observed' = tree.head
    /\ UNCHANGED <<setupVars, state, tree, candidate, reporting>>

FaultyAccept(p) ==   \* "candidate worktree is dirty" is not an error
    /\ Driving(p, "implementing") /\ observed = tree.head
    /\ candidate # observed
    /\ candidate' = observed
    /\ state' = "reviewing"
    /\ UNCHANGED <<setupVars, tree, observed, reporting>>

\* The candidate's event.
Accept(p) ==
    /\ Driving(p, "implementing") /\ observed = tree.head /\ ~tree.edited
    /\ candidate # observed
    /\ candidate' = observed
    /\ state' = "reviewing"
    /\ UNCHANGED <<setupVars, tree, observed, reporting>>

\* A review asks for a revision, or the approved candidate is verified.
Review(p) ==
    /\ Driving(p, "reviewing")
    /\ state' \in {"implementing", "completed"}
    /\ UNCHANGED <<setupVars, tree, observed, candidate, reporting>>

\* _terminalize_run
Stop(p) ==
    /\ proc[p].step = <<"work">> /\ ~Terminal
    /\ state' \in Stopped
    /\ UNCHANGED <<setupVars, tree, observed, candidate, reporting>>

\* run_with_control is left: by the end of the run, or by an error that leaves it as it is.
LeaveWork(p) ==
    /\ proc[p].step = <<"work">>
    /\ Unlock(p)
    /\ \/ state \in {"completed", "canceled"} /\ Continue(p, <<"generate", "export">>)
       \/ state \notin {"completed", "canceled"} /\ Error(p)
    /\ UNCHANGED <<file, remote, row, bounds, runVars, reporting>>

(***************************************************************************)
(* The commands                                                            *)
(***************************************************************************)

\* _regenerate_report_if_run_exists: whether to export is decided before the generation.
Regenerate(p) ==
    /\ proc[p].step = <<"regenerate">>
    /\ \/ row = Nobody /\ Leave(p)
       \/ row # Nobody /\ Go(p, <<"generate", IF Terminal THEN "export" ELSE "over">>)
    /\ UNCHANGED <<file, remote, lock, row, bounds, runVars, reporting>>

StartCommand(p) ==
    /\ Whole("config") /\ row # Nobody
    /\ \/ Start(p, "report", <<"generate", "export">>)
       \/ Start(p, "cancel", <<"load">>) /\ ~Terminal
       \/ Start(p, "cleanup", <<"clean">>) /\ Terminal
    /\ UNCHANGED <<runVars, reporting>>

\* WorkflowOrchestrator.cancel under the run lock.
CancelRun(p) ==
    /\ proc[p].step = <<"row">> /\ proc[p].cmd = "cancel"
    /\ state' = IF Terminal THEN state ELSE "canceled"
    /\ lock' = Nobody
    /\ Continue(p, <<"generate", "over">>)
    /\ UNCHANGED <<file, remote, row, bounds, tree, observed, candidate, reporting>>

\* cleanup takes no lock; it keeps a tree with uncommitted edits, which are those of the
\* implementer or, as the run is over, of an operator who worked in it or restored it.
Clean(p) ==
    /\ proc[p].step = <<"clean">>
    /\ \E dirty \in BOOLEAN : tree' = [tree EXCEPT !.removed = @ \/ ~dirty]
    /\ Leave(p)
    /\ UNCHANGED <<file, remote, lock, row, bounds, state, observed, candidate, reporting>>

(***************************************************************************)
(* generate_reports                                                        *)
(***************************************************************************)

\* The command ends, and with it what it has in memory and in its temporary folder.
Finish(p) ==
    /\ Leave(p)
    /\ draft' = [draft EXCEPT ![p] = Blank]
    /\ folder' = [folder EXCEPT ![p] = Empty]

elsewhere == <<file, remote, lock, row, bounds, runVars>>

FaultyLockGeneration(p) ==   \* one generation does not exclude another
    /\ proc[p].step[1] = "generate"
    /\ genLock' = p /\ Go(p, <<"snapshot", proc[p].step[2]>>)
    /\ UNCHANGED <<elsewhere, generations, reports, outVars, output>>

\* The lock is not waited for.
LockGeneration(p) ==
    /\ proc[p].step[1] = "generate"
    /\ \/ genLock = Nobody /\ genLock' = p /\ Go(p, <<"snapshot", proc[p].step[2]>>)
       \/ genLock # Nobody /\ Leave(p) /\ UNCHANGED genLock
    /\ UNCHANGED <<elsewhere, generations, reports, outVars, output>>

\* _build_run_payload in one read transaction.  The candidate must be the observed head.
Snapshot(p) ==
    /\ proc[p].step[1] = "snapshot"
    /\ \/ /\ candidate \notin {0, observed}
          /\ genLock' = Nobody /\ Leave(p)
          /\ UNCHANGED <<generations, draft>>
       \/ /\ candidate \in {0, observed}
          /\ generations' = generations + 1
          /\ draft' = [draft EXCEPT ![p] =
                [id |-> generations + 1, outcome |-> IF Terminal THEN state ELSE "active",
                 candidate |-> candidate]]
          /\ Go(p, <<"replace", proc[p].step[2], 1>>)
          /\ UNCHANGED genLock
    /\ UNCHANGED <<elsewhere, reports, folder, output>>

FaultyReplaced(i) == ReportFiles[Len(ReportFiles) + 1 - i]

\* The file that is replaced as the i-th.
Replaced(i) == ReportFiles[i]

Replace(p) ==
    /\ proc[p].step[1] = "replace"
    /\ LET goal == proc[p].step[2]
           i == proc[p].step[3] IN
         /\ reports' = [reports EXCEPT ![Replaced(i)] = draft[p]]
         /\ \/ /\ i < Len(ReportFiles)
               /\ Go(p, <<"replace", goal, i + 1>>) /\ UNCHANGED <<genLock, outVars>>
            \/ /\ i = Len(ReportFiles) /\ goal = "export"
               /\ Go(p, <<"export">>) /\ genLock' = Nobody /\ UNCHANGED outVars
            \/ /\ i = Len(ReportFiles) /\ goal = "over"
               /\ Finish(p) /\ genLock' = Nobody
    /\ UNCHANGED <<elsewhere, generations, output>>

(***************************************************************************)
(* export_run_output                                                       *)
(***************************************************************************)

exportUnchanged == <<elsewhere, genLock, generations, reports>>

\* A folder that is there is verified and returned.  Otherwise the payload is read from
\* the run.json that is there now.
BeginExport(p) ==
    /\ proc[p].step = <<"export">>
    /\ \/ output.made /\ Finish(p)
       \/ /\ ~output.made
          /\ folder' = [folder EXCEPT ![p].payload = reports["run.json"]]
          /\ Go(p, <<"code">>) /\ UNCHANGED draft
    /\ UNCHANGED <<exportUnchanged, output>>

\* _export_changed_code up to the files: the observed head must be the reported
\* candidate, and the worktree must be there.
ExportCode(p) ==
    /\ proc[p].step = <<"code">>
    /\ LET c == folder[p].payload.candidate
           available == observed = c /\ ~tree.removed IN
         \/ c = 0 /\ Go(p, <<"copy reports">>) /\ UNCHANGED outVars
         \/ c # 0 /\ available /\ Go(p, <<"copy code">>) /\ UNCHANGED outVars
         \/ c # 0 /\ ~available /\ Finish(p)
    /\ UNCHANGED <<exportUnchanged, output>>

\* What a path may be copied as at this moment.  An operator may have worked in the tree of
\* a run that is over, at any time, and nothing would tell.
CopiedAs ==
    IF tree.removed THEN {<<"lost">>}
    ELSE {<<"commit", tree.head>>}
         \cup {c \in {<<"edited">>} : tree.edited} \cup {c \in {<<"operator">>} : Terminal}

\* One changed path after the other, whatever happens to the tree in between.  A path
\* that goes away while it is copied, or that is no regular file, is an error.
CopyCode(p) ==
    /\ proc[p].step = <<"copy code">>
    /\ \/ /\ \E copy \in CopiedAs : folder' = [folder EXCEPT ![p].code = @ \cup {copy}]
          /\ Go(p, <<"copy code">>) \/ Go(p, <<"copy reports">>)
          /\ UNCHANGED draft
       \/ Finish(p)
    /\ UNCHANGED <<exportUnchanged, output>>

FaultyUnchanged(p) == TRUE

\* Each copy must have the digest of the file that this command generated.
Unchanged(p) == \A i \in DOMAIN ReportFiles : reports[ReportFiles[i]] = draft[p]

CopyReports(p) ==
    /\ proc[p].step = <<"copy reports">>
    /\ \/ /\ Unchanged(p)
          /\ folder' = [folder EXCEPT ![p].copies = {reports[f] : f \in Range(ReportFiles)}]
          /\ Go(p, <<"rename">>) /\ UNCHANGED draft
       \/ ~Unchanged(p) /\ Finish(p)
    /\ UNCHANGED <<exportUnchanged, output>>

\* The rename to a folder that is there fails.
Publish(p) ==
    /\ proc[p].step = <<"rename">>
    /\ output' = IF output.made THEN output ELSE [folder[p] EXCEPT !.made = TRUE]
    /\ Finish(p)
    /\ UNCHANGED exportUnchanged

(***************************************************************************)
(* Specification                                                           *)
(***************************************************************************)

\* A process dies, and the kernel frees its locks.
Crash(p) ==
    /\ proc[p].step # <<"idle">> /\ faults < MaxFaults
    /\ faults' = faults + 1
    /\ Finish(p)
    /\ Unlock(p)
    /\ genLock' = IF genLock = p THEN Nobody ELSE genLock
    /\ UNCHANGED <<file, remote, row, commands, runVars, generations, reports, output>>

Init ==
    /\ SetupInit
    /\ state = "implementing"
    /\ tree = [head |-> 0, edited |-> FALSE, removed |-> FALSE]
    /\ observed = 0 /\ candidate = 0
    /\ genLock = Nobody /\ generations = 0
    /\ draft = [p \in Slots |-> Blank]
    /\ reports = [f \in Range(ReportFiles) |-> Blank]
    /\ folder = [p \in Slots |-> Empty] /\ output = Empty

Step(p) ==
    \/ SetupStep(p) /\ UNCHANGED <<runVars, reporting>>
    \/ Edit(p) \/ Commit(p) \/ Observe(p) \/ Accept(p) \/ Review(p) \/ Stop(p)
    \/ LeaveWork(p)
    \/ Regenerate(p) \/ StartCommand(p) \/ CancelRun(p) \/ Clean(p)
    \/ LockGeneration(p) \/ Snapshot(p) \/ Replace(p)
    \/ BeginExport(p) \/ ExportCode(p) \/ CopyCode(p) \/ CopyReports(p) \/ Publish(p)
    \/ Crash(p)

Next == \E p \in Slots : Step(p)

Spec == Init /\ [][Next]_vars

(***************************************************************************)
(* Properties                                                              *)
(***************************************************************************)

TypeOK ==
    /\ file \in [Files -> Slots \cup {Nobody, Part}]
    /\ \A p \in Slots : proc[p].keys \in [Roles -> Slots \cup {Nobody}] /\ proc[p].nonce \in 0 .. MaxNonce
    /\ note["owner"] \in Slots \cup {Nobody}
    /\ last \in [Slots -> 0 .. MaxNonce] /\ accepted \in [Slots -> 0 .. MaxNonce]
    /\ lock \in {Nobody} \cup Slots /\ genLock \in {Nobody} \cup Slots
    /\ row \in {Nobody} \cup [Roles -> Slots]
    /\ state \in {"implementing", "reviewing", "completed"} \cup Stopped
    /\ observed \in 0 .. MaxCandidates /\ candidate \in 0 .. MaxCandidates
    /\ draft \in [Slots -> Report] /\ output \in Folder

\* Whichever commands raced or died before: what a recorded run needs for its resume is
\* there, whole, and is what the run was recorded with: the baseline, the configuration,
\* the room's name, each role's identity, and the room's owner and members.
RecordedRunsCanResume ==
    row # Nobody =>
        /\ \A f \in RunFiles : Whole(f)
        /\ \A r \in Roles : file[r] = row[r]
        /\ note["owner"] = row["supervisor"] /\ note["allow"] = row

\* allocate_nonce: whatever the clock does, across commands and crashes, the durable
\* nonce of an identity is not below any that the service has accepted, and no two
\* commands have signed with the same one.
NoncesAreFresh ==
    /\ \A k \in Slots : accepted[k] <= last[k]
    /\ \A p, q \in Slots : p # q /\ proc[p].nonce # 0 /\ Signer(p) = Signer(q)
                            => proc[p].nonce # proc[q].nonce

\* "internally consistent report set": run.json, which names the digests of the others, is
\* never newer than they are, wherever a generation is cut short.
ReportFilesInOrder ==
    /\ reports["run.json"].id <= reports["report.md"].id
    /\ reports["report.md"].id <= reports["events.jsonl"].id

\* No file of the set goes back to an earlier report, whichever commands generate: its
\* candidate stays or advances, and the outcome of a run that has ended stays.
ReportsNeverGoBack ==
    [][\A f \in Range(ReportFiles) :
          /\ reports[f].candidate <= reports'[f].candidate
          /\ reports[f].outcome # "active" => reports'[f].outcome = reports[f].outcome]_vars

\* The output folder holds one report set, and the candidate that its manifest and its
\* code are of is that report's.
OutputIsOneReport ==
    output.made =>
        /\ output.copies = {output.payload}
        /\ output.code = {} <=> output.payload.candidate = 0

\* A folder whose report says that the run completed has files of the approved candidate,
\* and nothing of any other commit or of edits that the implementer never committed,
\* whichever commands race or die.  A path is otherwise only what the run's end allows: as
\* an operator left it, or recorded as deleted, and then the tree has been removed.
OnlyTheCandidateIsExported ==
    output.made /\ output.payload.outcome = "completed" =>
        /\ output.code \subseteq {<<"commit", candidate>>, <<"operator">>, <<"lost">>}
        /\ <<"lost">> \in output.code => tree.removed

\* README.md, of the folder's code directory: "complete generated codebase".
OutputCodeIsComplete == output.made => <<"lost">> \notin output.code
=============================================================================
