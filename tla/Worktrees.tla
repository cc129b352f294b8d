----------------------------- MODULE Worktrees ------------------------------
(***************************************************************************)
(* The Git worktrees of a run beside their rows in SQLite: creation,       *)
(* restoration, retargeting and the candidate's commit by the supervisor   *)
(* (worktrees.py, and its callers in orchestrator.py), and the removal of  *)
(* a finished run's trees by cleanup_run of operations.py, which takes no  *)
(* lock.  Each Git command and each transaction is a step of its own, and  *)
(* a Git command may be cut short with its caller.                         *)
(*                                                                         *)
(* Commits are numbered along the candidate branch.  The planner's and the *)
(* verifier's trees are treated as the reviewer's.                         *)
(***************************************************************************)
EXTENDS Naturals, FiniteSets

CONSTANTS
    Cleaners,      \* `cleanup --apply` commands
    MaxRevisions,  \* limits.max_revision_cycles
    MaxCrashes     \* bound of the model: processes that die

ASSUME WorktreeAssumption == MaxRevisions \in Nat /\ MaxCrashes \in Nat

VARIABLES
    tree,       \* Git: the worktree of each role, and its HEAD
    row,        \* worktrees.status, or none
    observed,   \* roles whose row has a worktree_observations row
    stage,      \* the run's state, as far as it concerns the trees
    answer,     \* the last result of the role at work, stored or running
    candidate,  \* the commit of the last implementation_ready event, or the base
    revisions,  \* revision_required events
    pc,         \* where the supervisor is
    known,      \* its worktrees dictionary: head_commit of each ManagedWorktree
    step,       \* where each cleanup is
    todo,       \* the rows it has yet to visit
    crashes     \* bound

vars == <<tree, row, observed, stage, answer, candidate, revisions, pc, known, step, todo,
          crashes>>
runVars == <<stage, answer, candidate, revisions>>
cleanerVars == <<step, todo>>

Roles == {"implementer", "reviewer"}

BaseCommit == 0

Answers == {"none", "started", "changes_ready", "candidate_committed", "approved",
            "revision_required"}

\* is: a directory that is not a complete worktree is "broken".  Uncommitted work is
\* staged or only changed.
Tree == [is : {"absent", "broken", "present"}, head : Nat, staged : BOOLEAN, changed : BOOLEAN]

NoTree == [is |-> "absent", head |-> BaseCommit, staged |-> FALSE, changed |-> FALSE]

TypeOK ==
    /\ tree \in [Roles -> Tree]
    /\ row \in [Roles -> {"none", "active", "retained", "removed"}]
    /\ observed \subseteq {role \in Roles : row[role] # "none"}
    /\ stage \in {"implementing", "reviewing", "terminal"}
    /\ answer \in Answers
    /\ candidate \in Nat
    /\ revisions \in 0 .. MaxRevisions
    /\ pc \in {"down", "restoring", "driving", "creating", "recording", "observing",
               "retargeting", "invoking", "materializing", "adding", "committing", "validating",
               "validated"}
    /\ \E roles \in SUBSET Roles : known \in [roles -> Nat]
    /\ step \in [Cleaners -> {"idle", "inspect", "remove", "mark", "retain"}]
    /\ todo \in [Cleaners -> SUBSET Roles]
    /\ crashes \in 0 .. MaxCrashes

Dirty(role) == tree[role].staged \/ tree[role].changed

\* is_clean succeeds, and says so.
IsClean(role) == tree[role].is = "present" /\ ~Dirty(role)

Recorded == {role \in Roles : row[role] # "none"}

Set(role, field) == tree' = [tree EXCEPT ![role] = field]

Know(role, head) ==
    known' = [r \in DOMAIN known \cup {role} |-> IF r = role THEN head ELSE known[r]]

(***************************************************************************)
(* _restore_worktrees                                                      *)
(***************************************************************************)

Resume ==
    /\ pc = "down"
    /\ pc' = "restoring"
    /\ known' = << >>
    /\ UNCHANGED <<tree, row, observed, runVars, cleanerVars, crashes>>

\* refresh and is_clean: only the implementer's tree may hold uncommitted work.
Restorable(role) == tree[role].is = "present" /\ (role = "implementer" \/ IsClean(role))

RestoreTree ==
    /\ pc = "restoring"
    /\ \E role \in Recorded \ DOMAIN known :
          /\ row[role] # "removed"
          /\ role \in observed
          /\ Restorable(role)
          /\ Know(role, tree[role].head)
    /\ UNCHANGED <<tree, row, observed, runVars, pc, cleanerVars, crashes>>

\* A run that has ended is restored for its outcome only.
RestoreDone ==
    /\ pc = "restoring"
    /\ Recorded \subseteq DOMAIN known
    /\ pc' = IF stage = "terminal" THEN "down" ELSE "driving"
    /\ UNCHANGED <<tree, row, observed, runVars, known, cleanerVars, crashes>>

(***************************************************************************)
(* _drive_run and _ensure_worktree                                         *)
(***************************************************************************)

RoleAtWork == IF stage = "implementing" THEN "implementer" ELSE "reviewer"

CommitToShow == IF stage = "implementing" THEN BaseCommit ELSE candidate

FaultyEnsured == RoleAtWork \in DOMAIN known   \* the reviewer's old tree will do

\* The tree is there and at the right commit, as far as the dictionary knows.
Ensured ==
    /\ RoleAtWork \in DOMAIN known
    /\ RoleAtWork # "implementer" => known[RoleAtWork] = CommitToShow

EnsureTree ==
    /\ pc = "driving"
    /\ ~Ensured
    /\ pc' = IF RoleAtWork \in DOMAIN known THEN "retargeting" ELSE "creating"
    /\ UNCHANGED <<tree, row, observed, runVars, known, cleanerVars, crashes>>

\* create: git worktree add.  A path that exists is refused.
CreateTree ==
    /\ pc = "creating"
    /\ tree[RoleAtWork].is = "absent"
    /\ Set(RoleAtWork, [NoTree EXCEPT !.is = "present", !.head = CommitToShow])
    /\ pc' = "recording"
    /\ UNCHANGED <<row, observed, runVars, known, cleanerVars, crashes>>

\* record_worktree.
RecordTree ==
    /\ pc = "recording"
    /\ row' = [row EXCEPT ![RoleAtWork] = "active"]
    /\ pc' = "observing"
    /\ UNCHANGED <<tree, observed, runVars, known, cleanerVars, crashes>>

\* retarget_readonly: git checkout --detach, in a clean tree.
RetargetTree ==
    /\ pc = "retargeting"
    /\ IsClean(RoleAtWork)
    /\ Set(RoleAtWork, [tree[RoleAtWork] EXCEPT !.head = CommitToShow])
    /\ pc' = "observing"
    /\ UNCHANGED <<row, observed, runVars, known, cleanerVars, crashes>>

ObserveTree ==
    /\ pc = "observing"
    /\ observed' = observed \cup {RoleAtWork}
    /\ Know(RoleAtWork, CommitToShow)
    /\ pc' = "driving"
    /\ UNCHANGED <<tree, row, runVars, cleanerVars, crashes>>

(***************************************************************************)
(* Invocations and the reviewer's decision                                 *)
(***************************************************************************)

Invoke ==
    /\ pc = "driving"
    /\ stage # "terminal"
    /\ Ensured
    /\ answer = "none"
    /\ answer' = "started"
    /\ pc' = "invoking"
    /\ UNCHANGED <<tree, row, observed, stage, candidate, revisions, known, cleanerVars, crashes>>

\* What a model may do to the tree it works in; a read-only tree stays as it is.
Edit ==
    IF stage # "implementing" THEN UNCHANGED tree
    ELSE \E head \in {tree["implementer"].head, tree["implementer"].head + 1},
            staged, changed \in BOOLEAN :
            Set("implementer", [is |-> "present", head |-> head, staged |-> staged,
                                changed |-> changed])

\* complete_invocation stores the result.
ModelAnswers ==
    /\ pc = "invoking"
    /\ Edit
    /\ answer' \in IF stage = "implementing" THEN {"changes_ready", "candidate_committed"}
                   ELSE {"approved", "revision_required"}
    /\ pc' = "driving"
    /\ UNCHANGED <<row, observed, stage, candidate, revisions, known, cleanerVars, crashes>>

RevisionsLeft == revisions < MaxRevisions

Decide ==
    /\ pc = "driving"
    /\ Ensured
    /\ \/ answer = "approved" /\ stage' = "terminal" /\ UNCHANGED revisions
       \/ /\ answer = "revision_required"
          /\ RevisionsLeft
          /\ stage' = "implementing"
          /\ revisions' = revisions + 1
    /\ answer' = "none"
    /\ pc' = IF stage' = "terminal" THEN "down" ELSE "driving"
    /\ UNCHANGED <<tree, row, observed, candidate, known, cleanerVars, crashes>>

(***************************************************************************)
(* _materialize_candidate                                                  *)
(***************************************************************************)

Materialize ==
    /\ pc = "driving"
    /\ Ensured
    /\ answer \in {"changes_ready", "candidate_committed"}
    /\ pc' = "materializing"
    /\ UNCHANGED <<tree, row, observed, runVars, known, cleanerVars, crashes>>

\* HEAD is still at the last candidate: commit_pending_changes takes exactly the declared,
\* unstaged changes.
Pending ==
    /\ answer = "changes_ready"
    /\ tree["implementer"].head = candidate
    /\ tree["implementer"].changed /\ ~tree["implementer"].staged

CheckPending ==
    /\ pc = "materializing"
    /\ Pending
    /\ pc' = "adding"
    /\ UNCHANGED <<tree, row, observed, runVars, known, cleanerVars, crashes>>

AddChanges ==
    /\ pc = "adding"
    /\ Set("implementer", [tree["implementer"] EXCEPT !.staged = TRUE, !.changed = FALSE])
    /\ pc' = "committing"
    /\ UNCHANGED <<row, observed, runVars, known, cleanerVars, crashes>>

CommitStaged ==
    /\ pc = "committing"
    /\ Set("implementer",
           [tree["implementer"] EXCEPT !.staged = FALSE, !.head = @ + 1])
    /\ pc' = "validating"
    /\ UNCHANGED <<row, observed, runVars, known, cleanerVars, crashes>>

\* HEAD has moved, by an earlier materialization or by the model.
CheckCommitted ==
    /\ pc = "materializing"
    /\ answer = "changes_ready" => tree["implementer"].head # candidate
    /\ pc' = "validating"
    /\ UNCHANGED <<tree, row, observed, runVars, known, cleanerVars, crashes>>

FaultyValidCandidate == tree["implementer"].head # BaseCommit   \* a dirty tree passes

\* validate_candidate: something changed since the base, and nothing is left uncommitted.
ValidCandidate == IsClean("implementer") /\ tree["implementer"].head # BaseCommit

Validate ==
    /\ pc = "validating"
    /\ ValidCandidate
    /\ pc' = "validated"
    /\ UNCHANGED <<tree, row, observed, runVars, known, cleanerVars, crashes>>

\* The implementation_ready event.
AcceptCandidate ==
    /\ pc = "validated"
    /\ candidate' = tree["implementer"].head
    /\ stage' = "reviewing"
    /\ answer' = "none"
    /\ Know("implementer", candidate')
    /\ pc' = "driving"
    /\ UNCHANGED <<tree, row, observed, revisions, cleanerVars, crashes>>

(***************************************************************************)
(* The supervisor stops                                                    *)
(***************************************************************************)

\* What a Git command or a model that is cut short leaves behind.
CutShort ==
    \/ UNCHANGED tree
    \/ pc = "creating" /\ tree[RoleAtWork].is = "absent"
          /\ Set(RoleAtWork, [NoTree EXCEPT !.is = "broken"])
    \/ pc = "retargeting" /\ IsClean(RoleAtWork)
          /\ Set(RoleAtWork, [tree[RoleAtWork] EXCEPT !.changed = TRUE])
    \/ pc = "adding"
          /\ Set("implementer", [tree["implementer"] EXCEPT !.staged = TRUE])
    \/ pc = "invoking" /\ Edit

\* Any error, the deadline or a cancellation ends the run.  One that has ended stays so.
Fail ==
    /\ pc # "down"
    /\ CutShort
    /\ stage' = "terminal"
    /\ pc' = "down"
    /\ UNCHANGED <<row, observed, answer, candidate, revisions, known, cleanerVars, crashes>>

Crash ==
    /\ pc # "down"
    /\ crashes < MaxCrashes
    /\ crashes' = crashes + 1
    /\ CutShort
    /\ pc' = "down"
    /\ UNCHANGED <<row, observed, runVars, known, cleanerVars>>

(***************************************************************************)
(* cleanup_run                                                             *)
(***************************************************************************)

FaultyMayClean == pc = "down"   \* nobody drives the run now, but it may be resumed

MayClean == stage = "terminal"

\* The rows are listed once; removed ones are passed over.
Cleanup(c) ==
    /\ step[c] = "idle"
    /\ MayClean
    /\ todo' = [todo EXCEPT ![c] = {role \in Recorded : row[role] # "removed"}]
    /\ todo'[c] # {}
    /\ step' = [step EXCEPT ![c] = "inspect"]
    /\ UNCHANGED <<tree, row, observed, runVars, pc, known, crashes>>

\* The implementer's row is the older one.
Current(c) == IF "implementer" \in todo[c] THEN "implementer" ELSE "reviewer"

Inspect(c) ==
    /\ step[c] = "inspect"
    /\ step' = [step EXCEPT ![c] =
          IF Current(c) \in observed /\ IsClean(Current(c)) THEN "remove" ELSE "retain"]
    /\ UNCHANGED <<tree, row, observed, runVars, pc, known, todo, crashes>>

FaultyRemovable(role) == tree[role].is = "present"   \* --force, after the first inspection

\* remove inspects the tree again, and Git itself refuses a dirty one.
Removable(role) == IsClean(role)

FaultyAfterRemoval(role) == "mark"   \* a refused removal is not noticed

AfterRemoval(role) == IF Removable(role) THEN "mark" ELSE "retain"

RemoveTree(c) ==
    /\ step[c] = "remove"
    /\ IF Removable(Current(c)) THEN Set(Current(c), NoTree) ELSE UNCHANGED tree
    /\ step' = [step EXCEPT ![c] = AfterRemoval(Current(c))]
    /\ UNCHANGED <<row, observed, runVars, pc, known, todo, crashes>>

Visited(c) ==
    /\ todo' = [todo EXCEPT ![c] = @ \ {Current(c)}]
    /\ step' = [step EXCEPT ![c] = IF todo'[c] = {} THEN "idle" ELSE "inspect"]

MarkRemoved(c) ==
    /\ step[c] = "mark"
    /\ row' = [row EXCEPT ![Current(c)] = "removed"]
    /\ Visited(c)
    /\ UNCHANGED <<tree, observed, runVars, pc, known, crashes>>

\* mark_worktree_status: "removed worktree status is immutable".
MayRetain(role) == row[role] # "removed"

\* The refusal of the mark ends the whole command.
MarkRetained(c) ==
    /\ step[c] = "retain"
    /\ IF MayRetain(Current(c))
         THEN row' = [row EXCEPT ![Current(c)] = "retained"] /\ Visited(c)
         ELSE /\ todo' = [todo EXCEPT ![c] = {}]
              /\ step' = [step EXCEPT ![c] = "idle"]
              /\ UNCHANGED row
    /\ UNCHANGED <<tree, observed, runVars, pc, known, crashes>>

\* The command dies, possibly in the middle of the removal of a clean tree.
CleanupDies(c) ==
    /\ step[c] # "idle"
    /\ crashes < MaxCrashes
    /\ crashes' = crashes + 1
    /\ \/ UNCHANGED tree
       \/ /\ step[c] = "remove"
          /\ Removable(Current(c))
          /\ Set(Current(c), [NoTree EXCEPT !.is = "broken"])
    /\ step' = [step EXCEPT ![c] = "idle"]
    /\ todo' = [todo EXCEPT ![c] = {}]
    /\ UNCHANGED <<row, observed, runVars, pc, known>>

\* The operator looks into a finished run, and works in one of its trees.
OperatorEdits(role) ==
    /\ stage = "terminal"
    /\ tree[role].is = "present"
    /\ Set(role, [tree[role] EXCEPT !.changed = TRUE])
    /\ UNCHANGED <<row, observed, runVars, pc, known, cleanerVars, crashes>>

(***************************************************************************)
(* Specification                                                           *)
(***************************************************************************)

Init ==
    /\ tree = [role \in Roles |-> NoTree]
    /\ row = [role \in Roles |-> "none"]
    /\ observed = {}
    /\ stage = "implementing"
    /\ answer = "none"
    /\ candidate = BaseCommit
    /\ revisions = 0
    /\ pc = "driving"
    /\ known = << >>
    /\ step = [c \in Cleaners |-> "idle"]
    /\ todo = [c \in Cleaners |-> {}]
    /\ crashes = 0

Supervisor ==
    \/ Resume \/ RestoreTree \/ RestoreDone
    \/ EnsureTree \/ CreateTree \/ RecordTree \/ RetargetTree \/ ObserveTree
    \/ Invoke \/ ModelAnswers \/ Decide
    \/ Materialize \/ CheckPending \/ AddChanges \/ CommitStaged
    \/ CheckCommitted \/ Validate \/ AcceptCandidate
    \/ Fail \/ Crash

Next ==
    \/ Supervisor
    \/ \E c \in Cleaners :
          Cleanup(c) \/ Inspect(c) \/ RemoveTree(c) \/ MarkRemoved(c) \/ MarkRetained(c)
             \/ CleanupDies(c)
    \/ \E role \in Roles : OperatorEdits(role)

Spec == Init /\ [][Next]_vars

(***************************************************************************)
(* Properties                                                              *)
(***************************************************************************)

\* "Dirty or unrecognized worktrees remain for investigation": uncommitted work is never
\* destroyed, whoever removes, retargets or dies at the moment it appears; only the
\* implementer itself may undo it, or the supervisor commit it.
NoWorkIsLost ==
    [][\A role \in Roles : Dirty(role) /\ pc # "invoking" =>
          Dirty(role)' \/ tree'[role].head = tree[role].head + 1]_tree

\* A row says removed only when the tree is gone, however many cleanups overlap.
RemovedTreesAreGone ==
    \A role \in Roles : row[role] = "removed" => tree[role].is = "absent"

\* A tree is not removed, nor its row settled, while the run can still need it.
LiveTreesStay ==
    \A role \in Roles : stage # "terminal" /\ row[role] # "none" =>
        row[role] = "active" /\ tree[role].is = "present"

\* A reviewer at work sees exactly the candidate, even in a tree that a dead supervisor
\* was retargeting, and under a candidate that replaced the one it saw before.
ReviewersSeeTheCandidate ==
    stage = "reviewing" /\ pc = "invoking" =>
        IsClean("reviewer") /\ tree["reviewer"].head = candidate

\* While a candidate is under review, the implementer's tree is that candidate and nothing
\* else: a revision starts from what was reviewed.
ReviewedIsWhatIsThere ==
    stage = "reviewing" => IsClean("implementer") /\ tree["implementer"].head = candidate

(***************************************************************************)
(* Inductive strengthening                                                 *)
(***************************************************************************)

\* Where a path does not exist there is no work.
AbsentTreesAreEmpty ==
    \A role \in Roles : tree[role].is = "absent" => ~Dirty(role)

\* The supervisor and the cleanups never touch the trees at the same time.
CleanupsComeAfter ==
    /\ stage = "terminal" => pc \in {"down", "restoring"}
    /\ \A c \in Cleaners : step[c] # "idle" => stage = "terminal" /\ todo[c] # {}

MarkedTreesAreGone ==
    \A c \in Cleaners : step[c] = "mark" => tree[Current(c)].is = "absent"

\* A candidate is made while implementing, from an implementer's answer.
MaterializesAnswers ==
    /\ pc \in {"materializing", "adding", "committing", "validating", "validated"} =>
          stage = "implementing"
    /\ stage = "reviewing" => answer \notin {"changes_ready", "candidate_committed"}
    /\ pc = "validated" => IsClean("implementer")

\* A tree that is being recorded is there, clean and at its commit.
NewTreesAreRight ==
    /\ pc \in {"recording", "observing"} =>
          IsClean(RoleAtWork) /\ tree[RoleAtWork].head = CommitToShow
    /\ pc \in {"creating", "recording"} => RoleAtWork \notin DOMAIN known
    /\ pc = "observing" => row[RoleAtWork] # "none"
    /\ pc = "retargeting" => RoleAtWork # "implementer" /\ row[RoleAtWork] # "none"

\* What the supervisor knows of the reviewer's tree is so, except while it is retargeted.
KnownTreesAreRight ==
    /\ pc # "down" => \A role \in DOMAIN known : row[role] # "none"
    /\ pc # "down" /\ ~(pc = "observing" /\ stage = "reviewing") /\ stage # "terminal"
          /\ "reviewer" \in DOMAIN known =>
             IsClean("reviewer") /\ known["reviewer"] = tree["reviewer"].head
    /\ pc \in {"invoking", "materializing", "adding", "committing", "validating", "validated"} =>
          Ensured

TreesInv ==
    /\ TypeOK
    /\ LiveTreesStay
    /\ RemovedTreesAreGone
    /\ ReviewedIsWhatIsThere
    /\ AbsentTreesAreEmpty
    /\ CleanupsComeAfter
    /\ MarkedTreesAreGone
    /\ MaterializesAnswers
    /\ NewTreesAreRight
    /\ KnownTreesAreRight
=============================================================================
