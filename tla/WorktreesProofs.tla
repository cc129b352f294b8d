--------------------------- MODULE WorktreesProofs --------------------------
(***************************************************************************)
(* Proofs about Worktrees for any number of cleanups, revisions and        *)
(* crashes.                                                                *)
(***************************************************************************)
EXTENDS Worktrees, TLAPS

LEMMA KnowAdds ==
    ASSUME TypeOK, NEW role \in Roles, NEW head \in Nat, Know(role, head)
    PROVE  /\ \E roles \in SUBSET Roles : known' \in [roles -> Nat]
           /\ DOMAIN known' = DOMAIN known \cup {role}
           /\ known'[role] = head
           /\ \A r \in DOMAIN known : r # role => known'[r] = known[r]
<1>1. PICK roles \in SUBSET Roles : known \in [roles -> Nat]
  BY DEF TypeOK
<1>2. known' \in [roles \cup {role} -> Nat]
  BY <1>1 DEF Know
<1>3. roles \cup {role} \in SUBSET Roles
  BY <1>1
<1>. QED  BY <1>1, <1>2, <1>3 DEF Know

\* Replacing one tree.
LEMMA SetChanges ==
    ASSUME tree \in [Roles -> Tree], NEW role \in Roles, NEW field \in Tree, Set(role, field)
    PROVE  /\ tree' \in [Roles -> Tree]
           /\ tree'[role] = field
           /\ \A r \in Roles : r # role => tree'[r] = tree[r]
BY DEF Set

\* The ways in which a tree's work changes.
LEMMA FieldTypes ==
    ASSUME NEW t \in Tree
    PROVE  /\ [t EXCEPT !.changed = TRUE] \in Tree
           /\ [t EXCEPT !.changed = TRUE].is = t.is
           /\ [t EXCEPT !.staged = TRUE] \in Tree
           /\ [t EXCEPT !.staged = TRUE].is = t.is
           /\ [t EXCEPT !.staged = FALSE, !.head = @ + 1] \in Tree
           /\ [t EXCEPT !.staged = FALSE, !.head = @ + 1].is = t.is
<1>1. t.head + 1 \in Nat
  BY DEF Tree
<1>. QED  BY <1>1 DEF Tree

\* A model at work changes the implementer's tree only, and leaves one there.
LEMMA EditChanges ==
    ASSUME TypeOK, Edit
    PROVE  /\ tree' \in [Roles -> Tree]
           /\ tree'["reviewer"] = tree["reviewer"]
           /\ stage # "implementing" => tree' = tree
           /\ tree' = tree \/ tree'["implementer"].is = "present"
BY DEF TypeOK, Edit, Set, Roles, Tree

LEMMA TreesInit == Init => TreesInv
<1>. SUFFICES ASSUME Init PROVE TreesInv
  OBVIOUS
<1>1. NoTree \in Tree /\ NoTree.is = "absent"
  BY DEF NoTree, Tree, BaseCommit
<1>2. \E roles \in SUBSET Roles : known \in [roles -> Nat]
  <2>1. known \in [{} -> Nat]
    BY DEF Init
  <2>. QED  BY <2>1
<1>3. TypeOK
  <2>1. revisions \in 0 .. MaxRevisions /\ crashes \in 0 .. MaxCrashes
    BY WorktreeAssumption DEF Init
  <2>2. tree \in [Roles -> Tree] /\ candidate \in Nat
    BY <1>1 DEF Init, BaseCommit
  <2>. QED  BY <1>2, <2>1, <2>2 DEF Init, TypeOK, Answers
<1>4. DOMAIN known = {}
  BY DEF Init
<1>. QED
  BY <1>1, <1>3, <1>4
     DEF Init, TreesInv, LiveTreesStay, RemovedTreesAreGone, ReviewedIsWhatIsThere,
         AbsentTreesAreEmpty, CleanupsComeAfter, MarkedTreesAreGone, MaterializesAnswers,
         NewTreesAreRight, KnownTreesAreRight, Dirty, NoTree

\* Restoring and ensuring the trees.
LEMMA RestoreSteps ==
    ASSUME TreesInv, Resume \/ RestoreTree \/ RestoreDone \/ EnsureTree
    PROVE  TreesInv'
<1>. USE DEF TreesInv, TypeOK, LiveTreesStay, RemovedTreesAreGone, ReviewedIsWhatIsThere,
         AbsentTreesAreEmpty, CleanupsComeAfter, MarkedTreesAreGone, MaterializesAnswers,
         NewTreesAreRight, KnownTreesAreRight, Dirty, IsClean, Current, RoleAtWork,
         CommitToShow, Ensured, runVars, cleanerVars, Roles
<1>1. CASE Resume
  <2>1. known' \in [{} -> Nat] /\ DOMAIN known' = {}
    BY <1>1 DEF Resume
  <2>. QED  BY <1>1, <2>1 DEF Resume
<1>2. CASE RestoreTree
  <2>1. PICK role \in Recorded \ DOMAIN known :
           Restorable(role) /\ Know(role, tree[role].head)
    BY <1>2 DEF RestoreTree
  <2>2. role \in Roles /\ tree[role].head \in Nat /\ row[role] # "none"
    BY <2>1 DEF Recorded, Tree
  <2>3. /\ \E roles \in SUBSET Roles : known' \in [roles -> Nat]
        /\ DOMAIN known' = DOMAIN known \cup {role}
        /\ known'[role] = tree[role].head
        /\ \A r \in DOMAIN known : r # role => known'[r] = known[r]
    BY <2>1, <2>2, KnowAdds
  <2>. QED  BY <1>2, <2>1, <2>2, <2>3 DEF RestoreTree, Restorable
<1>3. CASE RestoreDone
  BY <1>3 DEF RestoreDone
<1>4. CASE EnsureTree
  BY <1>4 DEF EnsureTree
<1>. QED  BY <1>1, <1>2, <1>3, <1>4

\* Creating and retargeting the tree of the role at work.
LEMMA CreateSteps ==
    ASSUME TreesInv, CreateTree \/ RecordTree \/ RetargetTree \/ ObserveTree
    PROVE  TreesInv'
<1>. USE DEF TreesInv, TypeOK, LiveTreesStay, RemovedTreesAreGone, ReviewedIsWhatIsThere,
         AbsentTreesAreEmpty, CleanupsComeAfter, MarkedTreesAreGone, MaterializesAnswers,
         NewTreesAreRight, KnownTreesAreRight, Dirty, IsClean, Current, RoleAtWork,
         CommitToShow, Ensured, runVars, cleanerVars, Roles
<1>1. RoleAtWork \in Roles /\ CommitToShow \in Nat
  BY DEF BaseCommit
<1>2. CASE CreateTree
  <2>1. [NoTree EXCEPT !.is = "present", !.head = CommitToShow] \in Tree
    BY <1>1 DEF NoTree, Tree
  <2>. QED  BY <1>1, <1>2, <2>1 DEF CreateTree, Set, NoTree, Tree
<1>3. CASE RecordTree
  BY <1>1, <1>3 DEF RecordTree
<1>4. CASE RetargetTree
  BY <1>1, <1>4 DEF RetargetTree, Set, Tree
<1>5. CASE ObserveTree
  <2>1. /\ \E roles \in SUBSET Roles : known' \in [roles -> Nat]
        /\ DOMAIN known' = DOMAIN known \cup {RoleAtWork}
        /\ known'[RoleAtWork] = CommitToShow
        /\ \A r \in DOMAIN known : r # RoleAtWork => known'[r] = known[r]
    BY <1>1, <1>5, KnowAdds DEF ObserveTree
  <2>. QED  BY <1>1, <1>5, <2>1 DEF ObserveTree
<1>. QED  BY <1>2, <1>3, <1>4, <1>5

\* A model answers, and its decision or its candidate becomes an event.
LEMMA WorkSteps ==
    ASSUME TreesInv,
           Invoke \/ ModelAnswers \/ Decide \/ Materialize \/ CheckPending \/ AddChanges
             \/ CommitStaged \/ CheckCommitted \/ Validate \/ AcceptCandidate
    PROVE  TreesInv'
<1>. USE DEF TreesInv, TypeOK, LiveTreesStay, RemovedTreesAreGone, ReviewedIsWhatIsThere,
         AbsentTreesAreEmpty, CleanupsComeAfter, MarkedTreesAreGone, MaterializesAnswers,
         NewTreesAreRight, KnownTreesAreRight, Dirty, IsClean, Current, RoleAtWork,
         CommitToShow, Ensured, runVars, cleanerVars, Roles
<1>1. CASE Invoke
  BY <1>1 DEF Invoke, Answers
<1>2. CASE ModelAnswers
  <2>1. /\ tree' \in [Roles -> Tree]
        /\ tree'["reviewer"] = tree["reviewer"]
        /\ stage # "implementing" => tree' = tree
        /\ tree' = tree \/ tree'["implementer"].is = "present"
    BY <1>2, EditChanges DEF ModelAnswers
  <2>. QED  BY <1>2, <2>1 DEF ModelAnswers, Answers
<1>3. CASE Decide
  BY <1>3, WorktreeAssumption DEF Decide, RevisionsLeft, Answers
<1>4. CASE Materialize
  BY <1>4 DEF Materialize
<1>5. CASE CheckPending
  BY <1>5 DEF CheckPending
<1>6. CASE AddChanges
  <2>1. stage = "implementing" /\ row["implementer"] # "none"
    BY <1>6 DEF AddChanges
  <2>2. tree["implementer"] \in Tree /\ tree["implementer"].is = "present"
    BY <2>1
  <2>3. /\ tree' \in [Roles -> Tree]
        /\ tree'["reviewer"] = tree["reviewer"]
        /\ tree'["implementer"].is = "present"
    BY <1>6, <2>2 DEF AddChanges, Set, Tree
  <2>. QED  BY <1>6, <2>1, <2>3 DEF AddChanges
<1>7. CASE CommitStaged
  <2>1. stage = "implementing" /\ row["implementer"] # "none"
    BY <1>7 DEF CommitStaged
  <2>2. tree["implementer"] \in Tree /\ tree["implementer"].is = "present"
    BY <2>1
  <2>3. /\ tree' \in [Roles -> Tree]
        /\ tree'["reviewer"] = tree["reviewer"]
        /\ tree'["implementer"].is = "present"
    <3>. DEFINE field == [tree["implementer"] EXCEPT !.staged = FALSE, !.head = @ + 1]
    <3>1. field \in Tree /\ field.is = "present"
      BY <2>2, FieldTypes
    <3>2. Set("implementer", field)
      BY <1>7 DEF CommitStaged
    <3>. HIDE DEF field
    <3>. QED  BY <3>1, <3>2, SetChanges
  <2>. QED  BY <1>7, <2>1, <2>3 DEF CommitStaged
<1>8. CASE CheckCommitted
  BY <1>8 DEF CheckCommitted
<1>9. CASE Validate
  BY <1>9 DEF Validate, ValidCandidate
<1>10. CASE AcceptCandidate
  <2>1. candidate' = tree["implementer"].head /\ candidate' \in Nat
    BY <1>10 DEF AcceptCandidate, Tree
  <2>2. /\ \E roles \in SUBSET Roles : known' \in [roles -> Nat]
        /\ DOMAIN known' = DOMAIN known \cup {"implementer"}
        /\ \A r \in DOMAIN known : r # "implementer" => known'[r] = known[r]
    BY <1>10, <2>1, KnowAdds DEF AcceptCandidate
  <2>. QED  BY <1>10, <2>1, <2>2 DEF AcceptCandidate, Answers
<1>. QED
  BY <1>1, <1>2, <1>3, <1>4, <1>5, <1>6, <1>7, <1>8, <1>9, <1>10

\* What a command cut short leaves: nothing appears or disappears but the tree that was
\* being created, and a run that has ended is left alone.
LEMMA CutShortChanges ==
    ASSUME TreesInv, CutShort
    PROVE  /\ tree' \in [Roles -> Tree]
           /\ stage = "terminal" => tree' = tree
           /\ stage = "reviewing" => tree'["implementer"] = tree["implementer"]
           /\ \A role \in Roles :
                 /\ tree[role].is = "present" => tree'[role].is = "present"
                 /\ tree'[role].is = "absent" => tree'[role] = tree[role]
<1>. USE DEF TreesInv, TypeOK, LiveTreesStay, RemovedTreesAreGone, ReviewedIsWhatIsThere,
         AbsentTreesAreEmpty, CleanupsComeAfter, MarkedTreesAreGone, MaterializesAnswers,
         NewTreesAreRight, KnownTreesAreRight, Dirty, IsClean, Current, RoleAtWork,
         CommitToShow, Ensured, runVars, cleanerVars, Roles
<1>1. RoleAtWork \in Roles
  OBVIOUS
<1>2. CASE UNCHANGED tree
  BY <1>2
<1>3. CASE pc = "creating" /\ tree[RoleAtWork].is = "absent"
             /\ Set(RoleAtWork, [NoTree EXCEPT !.is = "broken"])
  <2>1. [NoTree EXCEPT !.is = "broken"] \in Tree
    BY DEF NoTree, Tree, BaseCommit
  <2>. QED  BY <1>1, <1>3, <2>1 DEF Set, NoTree
<1>4. CASE pc = "retargeting" /\ IsClean(RoleAtWork)
             /\ Set(RoleAtWork, [tree[RoleAtWork] EXCEPT !.changed = TRUE])
  <2>. DEFINE field == [tree[RoleAtWork] EXCEPT !.changed = TRUE]
  <2>1. field \in Tree /\ field.is = tree[RoleAtWork].is
    BY <1>1, FieldTypes
  <2>2. Set(RoleAtWork, field) /\ stage # "terminal" /\ RoleAtWork # "implementer"
    BY <1>4
  <2>. HIDE DEF field
  <2>. QED  BY <1>1, <1>4, <2>1, <2>2, SetChanges
<1>5. CASE pc = "adding" /\ Set("implementer", [tree["implementer"] EXCEPT !.staged = TRUE])
  <2>1. stage = "implementing" /\ tree["implementer"].is = "present"
    BY <1>5
  <2>. DEFINE field == [tree["implementer"] EXCEPT !.staged = TRUE]
  <2>2. field \in Tree /\ field.is = "present"
    BY <2>1, FieldTypes
  <2>3. Set("implementer", field)
    BY <1>5
  <2>. HIDE DEF field
  <2>. QED  BY <2>1, <2>2, <2>3, SetChanges
<1>6. CASE pc = "invoking" /\ Edit
  BY <1>6, EditChanges
<1>. QED  BY <1>2, <1>3, <1>4, <1>5, <1>6 DEF CutShort

LEMMA StopSteps ==
    ASSUME TreesInv, Fail \/ Crash
    PROVE  TreesInv'
<1>. USE DEF TreesInv, TypeOK, LiveTreesStay, RemovedTreesAreGone, ReviewedIsWhatIsThere,
         AbsentTreesAreEmpty, CleanupsComeAfter, MarkedTreesAreGone, MaterializesAnswers,
         NewTreesAreRight, KnownTreesAreRight, Dirty, IsClean, Current, RoleAtWork,
         CommitToShow, Ensured, runVars, cleanerVars, Roles
<1>1. /\ tree' \in [Roles -> Tree]
      /\ stage = "terminal" => tree' = tree
      /\ stage = "reviewing" => tree'["implementer"] = tree["implementer"]
      /\ \A role \in Roles :
            /\ tree[role].is = "present" => tree'[role].is = "present"
            /\ tree'[role].is = "absent" => tree'[role] = tree[role]
  BY CutShortChanges DEF Fail, Crash
<1>2. CASE Fail
  BY <1>1, <1>2 DEF Fail
<1>3. CASE Crash
  BY <1>1, <1>3, WorktreeAssumption DEF Crash
<1>. QED  BY <1>2, <1>3

\* Cleanups, and the operator beside them.
LEMMA CleanupSteps ==
    ASSUME TreesInv, NEW c \in Cleaners,
           Cleanup(c) \/ Inspect(c) \/ RemoveTree(c) \/ MarkRemoved(c) \/ MarkRetained(c)
             \/ CleanupDies(c)
    PROVE  TreesInv'
<1>. USE DEF TreesInv, TypeOK, LiveTreesStay, RemovedTreesAreGone, ReviewedIsWhatIsThere,
         AbsentTreesAreEmpty, CleanupsComeAfter, MarkedTreesAreGone, MaterializesAnswers,
         NewTreesAreRight, KnownTreesAreRight, Dirty, IsClean, Current, RoleAtWork,
         CommitToShow, Ensured, runVars, cleanerVars, Roles
<1>1. step[c] # "idle" => Current(c) \in Roles /\ Current(c) \in todo[c]
  OBVIOUS
<1>2. NoTree \in Tree /\ [NoTree EXCEPT !.is = "broken"] \in Tree
  BY DEF NoTree, Tree, BaseCommit
<1>3. CASE Cleanup(c)
  BY <1>3 DEF Cleanup, MayClean, Recorded
<1>4. CASE Inspect(c)
  BY <1>4 DEF Inspect
<1>5. CASE RemoveTree(c)
  BY <1>1, <1>2, <1>5 DEF RemoveTree, AfterRemoval, Removable, Set, NoTree
<1>6. CASE MarkRemoved(c)
  BY <1>1, <1>6 DEF MarkRemoved, Visited
<1>7. CASE MarkRetained(c)
  BY <1>1, <1>7 DEF MarkRetained, MayRetain, Visited
<1>8. CASE CleanupDies(c)
  BY <1>1, <1>2, <1>8, WorktreeAssumption DEF CleanupDies, Removable, Set, NoTree
<1>. QED  BY <1>3, <1>4, <1>5, <1>6, <1>7, <1>8

LEMMA OperatorStep ==
    ASSUME TreesInv, NEW role \in Roles, OperatorEdits(role)
    PROVE  TreesInv'
<1>. USE DEF TreesInv, TypeOK, LiveTreesStay, RemovedTreesAreGone, ReviewedIsWhatIsThere,
         AbsentTreesAreEmpty, CleanupsComeAfter, MarkedTreesAreGone, MaterializesAnswers,
         NewTreesAreRight, KnownTreesAreRight, Dirty, IsClean, Current, RoleAtWork,
         CommitToShow, Ensured, runVars, cleanerVars, Roles
<1>1. /\ tree' \in [Roles -> Tree]
      /\ \A r \in Roles : tree'[r].is = tree[r].is
      /\ \A r \in Roles : tree[r].is = "absent" => tree'[r] = tree[r]
  <2>. DEFINE field == [tree[role] EXCEPT !.changed = TRUE]
  <2>1. field \in Tree /\ field.is = "present" /\ tree[role].is = "present"
    BY FieldTypes DEF OperatorEdits
  <2>2. Set(role, field)
    BY DEF OperatorEdits
  <2>. HIDE DEF field
  <2>. QED  BY <2>1, <2>2, SetChanges
<1>. QED  BY <1>1 DEF OperatorEdits

LEMMA TreesNext == TreesInv /\ [Next]_vars => TreesInv'
<1>. SUFFICES ASSUME TreesInv, [Next]_vars PROVE TreesInv'
  OBVIOUS
<1>1. CASE Supervisor
  BY <1>1, RestoreSteps, CreateSteps, WorkSteps, StopSteps DEF Supervisor
<1>2. ASSUME NEW c \in Cleaners,
             Cleanup(c) \/ Inspect(c) \/ RemoveTree(c) \/ MarkRemoved(c) \/ MarkRetained(c)
               \/ CleanupDies(c)
      PROVE  TreesInv'
  BY <1>2, CleanupSteps
<1>3. ASSUME NEW role \in Roles, OperatorEdits(role) PROVE TreesInv'
  BY <1>3, OperatorStep
<1>4. CASE UNCHANGED vars
  BY <1>4
     DEF vars, runVars, cleanerVars, TreesInv, TypeOK, LiveTreesStay, RemovedTreesAreGone,
         ReviewedIsWhatIsThere, AbsentTreesAreEmpty, CleanupsComeAfter, MarkedTreesAreGone,
         MaterializesAnswers, NewTreesAreRight, KnownTreesAreRight, Dirty, IsClean, Current,
         RoleAtWork, CommitToShow, Ensured
<1>. QED  BY <1>1, <1>2, <1>3, <1>4 DEF Next

\* _restore_worktrees, _ensure_worktree, _materialize_candidate and cleanup_run together:
\* what the supervisor knows of its trees is so, and it is gone when they are removed.
THEOREM TreesHold == Spec => []TreesInv
BY TreesInit, TreesNext, PTL DEF Spec

\* cleanup_run, remove and mark_worktree_status: the rows and the trees agree on what is
\* removed, for any number of overlapping cleanups that die anywhere.
THEOREM RemovedTreesAreGoneAlways == Spec => []RemovedTreesAreGone
BY TreesHold, PTL DEF TreesInv

\* The terminal-run guard of cleanup_run keeps every tree that a run can still need.
THEOREM LiveTreesStayAlways == Spec => []LiveTreesStay
BY TreesHold, PTL DEF TreesInv

\* validate_candidate: under every candidate, the implementer's tree is that candidate.
THEOREM ReviewedIsThere == Spec => []ReviewedIsWhatIsThere
BY TreesHold, PTL DEF TreesInv

\* retarget_readonly and _restore_worktrees: a reviewer is never shown another commit.
THEOREM ReviewersSee == Spec => []ReviewersSeeTheCandidate
<1>1. TreesInv => ReviewersSeeTheCandidate
  BY DEF TreesInv, KnownTreesAreRight, ReviewersSeeTheCandidate, Ensured, RoleAtWork,
         CommitToShow
<1>. QED  BY <1>1, TreesHold, PTL

\* remove, retarget_readonly and commit_pending_changes: no step but the implementer's own
\* makes uncommitted work disappear, except the commit that takes it.
THEOREM WorkIsKept == Spec => NoWorkIsLost
<1>. DEFINE Kept(role) == Dirty(role)' \/ tree'[role].head = tree[role].head + 1
<1>1. ASSUME TreesInv, Next, NEW role \in Roles, Dirty(role), pc # "invoking"
      PROVE  Kept(role)
  <2>. USE <1>1 DEF TreesInv, TypeOK, Dirty, IsClean
  <2>1. CASE UNCHANGED tree
    BY <2>1
  <2>2. CASE CreateTree
    <3>1. [NoTree EXCEPT !.is = "present", !.head = CommitToShow] \in Tree
      BY DEF NoTree, Tree, CommitToShow, BaseCommit
    <3>. QED  BY <2>2, <3>1, SetChanges DEF CreateTree, AbsentTreesAreEmpty, RoleAtWork, Roles
  <2>3. CASE RetargetTree
    <3>1. RoleAtWork \in Roles /\ role # RoleAtWork
      BY <2>3 DEF RetargetTree, RoleAtWork, Roles
    <3>2. tree'[role] = tree[role]
      BY <2>3, <3>1 DEF RetargetTree, Set
    <3>. QED  BY <3>2
  <2>4. CASE AddChanges
    <3>1. tree'["implementer"].staged /\ \A r \in Roles : r # "implementer" => tree'[r] = tree[r]
      BY <2>4 DEF AddChanges, Set, Roles, Tree
    <3>. QED  BY <3>1
  <2>5. CASE CommitStaged
    <3>1. /\ tree'["implementer"].head = tree["implementer"].head + 1
          /\ \A r \in Roles : r # "implementer" => tree'[r] = tree[r]
      BY <2>5 DEF CommitStaged, Set, Roles, Tree
    <3>. QED  BY <3>1
  <2>6. CASE CutShort
    BY <2>6 DEF CutShort, Set, AbsentTreesAreEmpty, Roles, RoleAtWork, Tree
  <2>7. ASSUME NEW c \in Cleaners, RemoveTree(c) \/ CleanupDies(c)
        PROVE  Kept(role)
    BY <2>7 DEF RemoveTree, CleanupDies, Removable, Set, Roles
  <2>8. ASSUME NEW r \in Roles, OperatorEdits(r) PROVE Kept(role)
    <3>1. tree'[r].changed /\ \A other \in Roles : other # r => tree'[other] = tree[other]
      BY <2>8 DEF OperatorEdits, Set, Tree
    <3>. QED  BY <3>1
  <2>. QED
    BY <2>1, <2>2, <2>3, <2>4, <2>5, <2>6, <2>7, <2>8
       DEF Next, Supervisor, Resume, RestoreTree, RestoreDone, EnsureTree, RecordTree,
           ObserveTree, Invoke, ModelAnswers, Decide, Materialize, CheckPending,
           CheckCommitted, Validate, AcceptCandidate, Fail, Crash, Cleanup, Inspect,
           MarkRemoved, MarkRetained
<1>2. TreesInv /\ [Next]_vars =>
          [\A role \in Roles : Dirty(role) /\ pc # "invoking" => Kept(role)]_tree
  BY <1>1 DEF vars
<1>. QED  BY <1>2, TreesHold, PTL DEF Spec, NoWorkIsLost
=============================================================================
