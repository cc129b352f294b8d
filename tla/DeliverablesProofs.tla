------------------------- MODULE DeliverablesProofs -------------------------
(***************************************************************************)
(* Proofs about Deliverables and RunSetup: a recorded run can be resumed,  *)
(* nonces are fresh, the report files and the output folder are of one     *)
(* report, and a completed run's folder holds the approved candidate, with *)
(* any number of commands, faults and slots.                               *)
(***************************************************************************)
EXTENDS Deliverables, TLAPS, FiniteSetTheorems

(***************************************************************************)
(* The invariant of the setup                                              *)
(***************************************************************************)

SlotOrNobody == Slots \cup {Nobody}

ProcType ==
    /\ proc = [p \in Slots |-> [cmd |-> proc[p].cmd, step |-> proc[p].step,
                                keys |-> proc[p].keys, nonce |-> proc[p].nonce]]
    /\ \A p \in Slots : proc[p].keys \in [Roles -> SlotOrNobody] /\ proc[p].nonce \in 0 .. MaxNonce

SetupTypes ==
    /\ ProcType
    /\ file \in [Files -> Slots \cup {Nobody, Part}]
    /\ note = [n \in Notes |-> note[n]] /\ note["owner"] \in SlotOrNobody
    /\ last \in [Slots -> 0 .. MaxNonce] /\ accepted \in [Slots -> 0 .. MaxNonce]
    /\ lock \in SlotOrNobody
    /\ row \in {Nobody} \cup [Roles -> Slots]

Stage(p) == proc[p].step[1]
Object(p) == proc[p].step[2]

Making(p, f) == Stage(p) \in {"open", "write"} /\ Object(p) = f

\* The stages after the identities are loaded, and after the room's name is written.
RoomStages == {"read", "sign", "post", "verify", "lock", "row"}

Keyed(p) == Stage(p) \in RoomStages \/ Making(p, "room")

\* Which commands come to a stage.
PathFacts(p) ==
    /\ (\E f \in RunFiles : Making(p, f)) => proc[p].cmd = "run"
    /\ (\E r \in Roles : Making(p, r)) => proc[p].cmd \in {"run", "resume", "identity"}
    /\ Stage(p) \in {"ensure", "read", "sign", "post", "verify"} => proc[p].cmd \in {"run", "resume"}
    /\ Stage(p) \in {"load", "lock", "row"} => proc[p].cmd \in {"run", "resume", "cancel"}

\* What `run` has made when it comes to a stage.
MadeFacts(p) ==
    proc[p].cmd = "run" =>
        /\ \/ Stage(p) \in {"ensure", "load"} \cup RoomStages
           \/ \E f \in Files \ {"repository"} : Making(p, f)
           => Whole("repository")
        /\ Stage(p) = "load" \/ Keyed(p) => Whole("config")
        /\ Stage(p) \in RoomStages => Whole("room")

\* The keys in hand are those of the identities.
KeyFacts(p) ==
    Keyed(p) => proc[p].keys = [r \in Roles |-> file[r]] /\ \A r \in Roles : Whole(r)

\* A file that a command is writing is its own.
WriteFacts(p) == \A f \in Files : proc[p].step = <<"write", f>> => file[f] = Part

\* A verified room stays so.
VerifiedFacts(p) ==
    Stage(p) \in {"lock", "row"} /\ proc[p].cmd \in {"run", "resume"} =>
        \A n \in Notes : note[n] = Wanted(p, n)

NonceFacts(p) ==
    proc[p].nonce # 0 => Stage(p) = "post" /\ proc[p].nonce <= last[Signer(p)]

Local(p) ==
    /\ PathFacts(p) /\ MadeFacts(p) /\ KeyFacts(p) /\ WriteFacts(p)
    /\ VerifiedFacts(p) /\ NonceFacts(p)

WritersApart ==
    \A p, q \in Slots : \A f \in Files :
        proc[p].step = <<"write", f>> /\ proc[q].step = <<"write", f>> => p = q

SetupInv ==
    /\ SetupTypes /\ \A p \in Slots : Local(p)
    /\ WritersApart /\ RecordedRunsCanResume /\ NoncesAreFresh

(***************************************************************************)
(* The invariant of the run and its reports                                *)
(***************************************************************************)

ReportNames == {"events.jsonl", "report.md", "run.json"}

RunTypes ==
    /\ state \in {"implementing", "reviewing", "completed"} \cup Stopped
    /\ tree \in [head : 0 .. MaxCandidates, edited : BOOLEAN, removed : BOOLEAN]
    /\ genLock \in SlotOrNobody /\ generations \in Nat
    /\ draft \in [Slots -> Report] /\ folder \in [Slots -> Folder]
    /\ reports \in [ReportNames -> Report] /\ output \in Folder

\* Candidates are observed heads; the one under review, or approved, is the branch.
TreeFacts ==
    /\ candidate \in Nat /\ observed \in Nat /\ candidate <= observed /\ observed <= tree.head
    /\ tree.edited => tree.head < MaxCandidates
    /\ state \in {"reviewing", "completed"} =>
          candidate = tree.head /\ candidate # 0 /\ ~tree.edited

\* What a report says of the run was so, and is so still if the run had ended.
TrueOfRun(report) ==
    /\ report.candidate <= candidate
    /\ report.outcome # "active" => state = report.outcome /\ report.candidate = candidate

\* One report is older than another, or the same.
OlderOrSame(a, b) ==
    /\ a.id < b.id \/ a = b
    /\ a.candidate <= b.candidate
    /\ a.outcome # "active" => b.outcome = a.outcome

ReportsTrue ==
    /\ \A f \in ReportNames : TrueOfRun(reports[f]) /\ reports[f].id <= generations
    /\ ReportFilesInOrder
    /\ TrueOfRun(output.payload)

\* A generation has the lock, and the newest report.
GenerationFacts(p) ==
    /\ Stage(p) \in {"snapshot", "replace"} => genLock = p
    /\ Stage(p) = "replace" =>
          /\ proc[p].step[3] \in 1 .. 3
          /\ draft[p].id = generations /\ TrueOfRun(draft[p])
          /\ \A i \in 1 .. 3 :
                IF i < proc[p].step[3]
                  THEN reports[ReportFiles[i]] = draft[p]
                  ELSE /\ reports[ReportFiles[i]].id < draft[p].id
                       /\ OlderOrSame(reports[ReportFiles[i]], draft[p])

Exporting == {"code", "copy code", "copy reports", "rename"}

\* What a completed run's folder holds, at any time of its preparation.
TrueCode(x) ==
    x.payload.outcome = "completed" =>
        /\ x.code \subseteq {<<"commit", candidate>>, <<"operator">>, <<"lost">>}
        /\ <<"lost">> \in x.code => tree.removed

ExportedCode(x) == x.code = {} <=> x.payload.candidate = 0

\* A folder that is being prepared is of a report not newer than run.json, and not older
\* than the command's own.
FolderFacts(p) ==
    /\ Stage(p) \notin Exporting => folder[p] = Empty
    /\ Stage(p) \in {"export"} => draft[p].id <= reports["run.json"].id
    /\ Stage(p) \in {"code", "copy code", "copy reports"} =>
          /\ draft[p].id <= folder[p].payload.id
          /\ folder[p].payload.id < reports["run.json"].id \/ folder[p].payload = reports["run.json"]
    /\ TrueOfRun(folder[p].payload) /\ TrueCode(folder[p])
    /\ Stage(p) = "code" => folder[p].code = {}
    /\ Stage(p) = "copy code" => folder[p].payload.candidate # 0
    /\ Stage(p) \in {"copy reports", "rename"} => ExportedCode(folder[p])
    /\ Stage(p) = "rename" => folder[p].copies = {folder[p].payload}

ReportInv ==
    /\ RunTypes /\ TreeFacts /\ ReportsTrue
    /\ \A p \in Slots : GenerationFacts(p) /\ FolderFacts(p)
    /\ OutputIsOneReport /\ OnlyTheCandidateIsExported

(***************************************************************************)
(* What a step does to its process                                         *)
(***************************************************************************)

USE SetupAssumption, DeliverablesAssumption

\* Only the process of p changes, if any.
Frame(p) == ProcType' /\ \A q \in Slots : q # p => proc'[q] = proc[q]

\* A process that is replaced as a whole.
LEMMA ProcSets ==
    ASSUME ProcType, NEW p \in Slots, NEW x,
           x = [cmd |-> x.cmd, step |-> x.step, keys |-> x.keys, nonce |-> x.nonce],
           x.keys \in [Roles -> SlotOrNobody], x.nonce \in 0 .. MaxNonce,
           proc' = [proc EXCEPT ![p] = x]
    PROVE  Frame(p) /\ proc'[p] = x
<1>1. DOMAIN proc = Slots
  BY DEF ProcType
<1>2. proc' = [q \in Slots |-> IF q = p THEN x ELSE proc[q]]
  BY <1>1
<1>3. proc'[p] = x /\ \A q \in Slots : q # p => proc'[q] = proc[q]
  BY <1>2
<1>4. ASSUME NEW q \in Slots
      PROVE  /\ proc'[q] = [cmd |-> proc'[q].cmd, step |-> proc'[q].step,
                            keys |-> proc'[q].keys, nonce |-> proc'[q].nonce]
             /\ proc'[q].keys \in [Roles -> SlotOrNobody] /\ proc'[q].nonce \in 0 .. MaxNonce
  <2>1. CASE q = p
    BY <1>3, <2>1
  <2>2. CASE q # p
    BY <1>3, <2>2 DEF ProcType
  <2>. QED  BY <2>1, <2>2
<1>5. ProcType'
  BY <1>2, <1>4 DEF ProcType
<1>. QED  BY <1>3, <1>5 DEF Frame

\* What a process is made of.
LEMMA ProcParts ==
    ASSUME ProcType, NEW p \in Slots
    PROVE  /\ DOMAIN proc = Slots
           /\ proc[p] = [cmd |-> proc[p].cmd, step |-> proc[p].step,
                         keys |-> proc[p].keys, nonce |-> proc[p].nonce]
           /\ proc[p].keys \in [Roles -> SlotOrNobody] /\ proc[p].nonce \in 0 .. MaxNonce
BY DEF ProcType

LEMMA IdleParts ==
    /\ Idle = [cmd |-> "none", step |-> <<"idle">>, keys |-> Unloaded, nonce |-> 0]
    /\ Unloaded \in [Roles -> SlotOrNobody] /\ 0 \in 0 .. MaxNonce
BY DEF Idle, Unloaded, SlotOrNobody

LEMMA GoSets ==
    ASSUME ProcType, NEW p \in Slots, NEW next, Go(p, next)
    PROVE  /\ Frame(p) /\ proc'[p].step = next
           /\ proc'[p].cmd = proc[p].cmd /\ proc'[p].keys = proc[p].keys
           /\ proc'[p].nonce = proc[p].nonce
<1>. DEFINE x == [cmd |-> proc[p].cmd, step |-> next, keys |-> proc[p].keys, nonce |-> proc[p].nonce]
<1>1. /\ x = [cmd |-> x.cmd, step |-> x.step, keys |-> x.keys, nonce |-> x.nonce]
      /\ x.keys \in [Roles -> SlotOrNobody] /\ x.nonce \in 0 .. MaxNonce
      /\ x.cmd = proc[p].cmd /\ x.step = next /\ x.keys = proc[p].keys /\ x.nonce = proc[p].nonce
  BY ProcParts, IdleParts
<1>2. proc' = [proc EXCEPT ![p] = x]
  <2>1. proc[p] = [cmd |-> proc[p].cmd, step |-> proc[p].step,
                   keys |-> proc[p].keys, nonce |-> proc[p].nonce]
    BY ProcParts
  <2>2. x = [proc[p] EXCEPT !.step = next]
    BY <2>1
  <2>3. proc' = [proc EXCEPT ![p] = [proc[p] EXCEPT !.step = next]]
    BY ProcParts DEF Go
  <2>. HIDE DEF x
  <2>. QED  BY <2>2, <2>3
<1>. HIDE DEF x
<1>3. Frame(p) /\ proc'[p] = x
  BY <1>1, <1>2, ProcSets
<1>. QED  BY <1>1, <1>3

LEMMA ContinueSets ==
    ASSUME ProcType, NEW p \in Slots, NEW next, Continue(p, next)
    PROVE  Frame(p) /\ proc'[p].step = next /\ proc'[p].nonce = 0 /\ proc'[p].cmd = "none"
<1>. DEFINE x == [cmd |-> "none", step |-> next, keys |-> Unloaded, nonce |-> 0]
<1>1. /\ x = [cmd |-> x.cmd, step |-> x.step, keys |-> x.keys, nonce |-> x.nonce]
      /\ x.keys \in [Roles -> SlotOrNobody] /\ x.nonce \in 0 .. MaxNonce
      /\ x.cmd = "none" /\ x.step = next /\ x.keys = Unloaded /\ x.nonce = 0
  BY ProcParts, IdleParts
<1>2. proc' = [proc EXCEPT ![p] = x]
  <2>1. x = [Idle EXCEPT !.step = next]
    BY IdleParts
  <2>. HIDE DEF x
  <2>. QED  BY <2>1 DEF Continue
<1>. HIDE DEF x
<1>3. Frame(p) /\ proc'[p] = x
  BY <1>1, <1>2, ProcSets
<1>. QED  BY <1>1, <1>3

LEMMA LeaveSets ==
    ASSUME ProcType, NEW p \in Slots, Leave(p)
    PROVE  Frame(p) /\ proc'[p].step = <<"idle">> /\ proc'[p].nonce = 0 /\ proc'[p].cmd = "none"
<1>. DEFINE x == [cmd |-> "none", step |-> <<"idle">>, keys |-> Unloaded, nonce |-> 0]
<1>1. /\ x = [cmd |-> x.cmd, step |-> x.step, keys |-> x.keys, nonce |-> x.nonce]
      /\ x.keys \in [Roles -> SlotOrNobody] /\ x.nonce \in 0 .. MaxNonce
      /\ x.cmd = "none" /\ x.step = <<"idle">> /\ x.keys = Unloaded /\ x.nonce = 0
  BY ProcParts, IdleParts
<1>2. proc' = [proc EXCEPT ![p] = x]
  BY IdleParts DEF Leave
<1>. HIDE DEF x
<1>3. Frame(p) /\ proc'[p] = x
  BY <1>1, <1>2, ProcSets
<1>. QED  BY <1>1, <1>3

\* Two fields at once.
LEMMA LoadSets ==
    ASSUME ProcType, NEW p \in Slots, NEW keys \in [Roles -> SlotOrNobody], NEW next,
           proc' = [proc EXCEPT ![p].keys = keys, ![p].step = next]
    PROVE  /\ Frame(p) /\ proc'[p].step = next /\ proc'[p].cmd = proc[p].cmd
           /\ proc'[p].nonce = proc[p].nonce /\ proc'[p].keys = keys
<1>1. PICK x : x = [proc[p] EXCEPT !.keys = keys, !.step = next]
  OBVIOUS
<1>2. x = [cmd |-> proc[p].cmd, step |-> next, keys |-> keys, nonce |-> proc[p].nonce]
  <2>1. proc[p] = [cmd |-> proc[p].cmd, step |-> proc[p].step,
                   keys |-> proc[p].keys, nonce |-> proc[p].nonce]
    BY ProcParts
  <2>. QED  BY <1>1, <2>1
<1>3. /\ x = [cmd |-> x.cmd, step |-> x.step, keys |-> x.keys, nonce |-> x.nonce]
      /\ x.keys \in [Roles -> SlotOrNobody] /\ x.nonce \in 0 .. MaxNonce
  BY <1>2, ProcParts
<1>4. proc' = [proc EXCEPT ![p] = x]
  BY <1>1, ProcParts
<1>5. Frame(p) /\ proc'[p] = x
  BY <1>3, <1>4, ProcSets
<1>. QED  BY <1>2, <1>5

LEMMA NonceSets ==
    ASSUME ProcType, NEW p \in Slots, NEW nonce \in 0 .. MaxNonce, NEW next,
           proc' = [proc EXCEPT ![p].nonce = nonce, ![p].step = next]
    PROVE  /\ Frame(p) /\ proc'[p].step = next /\ proc'[p].cmd = proc[p].cmd
           /\ proc'[p].nonce = nonce /\ proc'[p].keys = proc[p].keys
<1>1. PICK x : x = [proc[p] EXCEPT !.nonce = nonce, !.step = next]
  OBVIOUS
<1>2. x = [cmd |-> proc[p].cmd, step |-> next, keys |-> proc[p].keys, nonce |-> nonce]
  <2>1. proc[p] = [cmd |-> proc[p].cmd, step |-> proc[p].step,
                   keys |-> proc[p].keys, nonce |-> proc[p].nonce]
    BY ProcParts
  <2>. QED  BY <1>1, <2>1
<1>3. /\ x = [cmd |-> x.cmd, step |-> x.step, keys |-> x.keys, nonce |-> x.nonce]
      /\ x.keys \in [Roles -> SlotOrNobody] /\ x.nonce \in 0 .. MaxNonce
  BY <1>2, ProcParts
<1>4. proc' = [proc EXCEPT ![p] = x]
  BY <1>1, ProcParts
<1>5. Frame(p) /\ proc'[p] = x
  BY <1>3, <1>4, ProcSets
<1>. QED  BY <1>2, <1>5

LEMMA StartSets ==
    ASSUME ProcType, NEW p \in Slots, NEW c, NEW first, Start(p, c, first)
    PROVE  /\ Frame(p) /\ proc'[p].step = first /\ proc'[p].cmd = c
           /\ proc'[p].nonce = proc[p].nonce /\ proc'[p].keys = proc[p].keys
           /\ proc[p].step = <<"idle">> /\ UNCHANGED <<file, remote, lock, row, faults>>
<1>1. PICK x : x = [proc[p] EXCEPT !.cmd = c, !.step = first]
  OBVIOUS
<1>2. x = [cmd |-> c, step |-> first, keys |-> proc[p].keys, nonce |-> proc[p].nonce]
  <2>1. proc[p] = [cmd |-> proc[p].cmd, step |-> proc[p].step,
                   keys |-> proc[p].keys, nonce |-> proc[p].nonce]
    BY ProcParts
  <2>. QED  BY <1>1, <2>1
<1>3. /\ x = [cmd |-> x.cmd, step |-> x.step, keys |-> x.keys, nonce |-> x.nonce]
      /\ x.keys \in [Roles -> SlotOrNobody] /\ x.nonce \in 0 .. MaxNonce
  BY <1>2, ProcParts
<1>4. proc' = [proc EXCEPT ![p] = x]
  BY <1>1, ProcParts DEF Start
<1>5. Frame(p) /\ proc'[p] = x
  BY <1>3, <1>4, ProcSets
<1>. QED  BY <1>2, <1>5 DEF Start

\* Stages in which a command has no keys, files or notes in hand.
QuietStages ==
    {"idle", "regenerate", "generate", "snapshot", "replace", "export", "code", "copy code",
     "copy reports", "rename", "clean", "work"}

Quiet(p) ==
    /\ Frame(p) /\ proc'[p].nonce = 0 /\ Stage(p)' \in QuietStages
    /\ UNCHANGED <<file, remote, row>> /\ lock' \in SlotOrNobody

\* A process that begins no write leaves the writers apart.
LEMMA NoNewWriter ==
    ASSUME WritersApart, NEW p \in Slots, Frame(p),
           \A f \in Files : proc'[p].step # <<"write", f>>
    PROVE  WritersApart'
<1>. SUFFICES ASSUME NEW q \in Slots, NEW r \in Slots, NEW f \in Files,
                     proc'[q].step = <<"write", f>>, proc'[r].step = <<"write", f>>
              PROVE  q = r
  BY Zenon DEF WritersApart
<1>1. q # p /\ r # p
  OBVIOUS
<1>2. proc[q].step = <<"write", f>> /\ proc[r].step = <<"write", f>>
  BY <1>1 DEF Frame
<1>. QED  BY <1>2 DEF WritersApart

\* A step that writes neither files nor notes nor rows.
LEMMA WalkKeeps ==
    ASSUME SetupInv, NEW p \in Slots, Frame(p), Local(p)', Stage(p)' # "write",
           proc'[p].nonce = 0,
           UNCHANGED <<file, remote, row>>, lock' \in SlotOrNobody
    PROVE  SetupInv'
<1>1. SetupTypes'
  BY DEF SetupInv, SetupTypes, Frame, remote
<1>2. ASSUME NEW q \in Slots, q # p PROVE Local(q)'
  <2>1. proc'[q] = proc[q] /\ Local(q)
    BY <1>2 DEF Frame, SetupInv
  <2>. QED  BY <2>1 DEF Local, PathFacts, MadeFacts, KeyFacts, WriteFacts, VerifiedFacts, NonceFacts,
                 Keyed, Making, Stage, Object, Whole, Wanted, Signer, remote
<1>3. WritersApart'
  <2>1. \A f \in Files : proc'[p].step # <<"write", f>>
    BY DEF Stage
  <2>. QED  BY <2>1, NoNewWriter DEF SetupInv
<1>4. RecordedRunsCanResume'
  BY DEF SetupInv, RecordedRunsCanResume, Whole, remote
<1>5. NoncesAreFresh'
  BY DEF SetupInv, NoncesAreFresh, Frame, Signer, remote
<1>. QED  BY <1>1, <1>2, <1>3, <1>4, <1>5 DEF SetupInv

LEMMA QuietLocal ==
    ASSUME NEW p \in Slots, Stage(p)' \in QuietStages, proc'[p].nonce = 0
    PROVE  Local(p)' /\ Stage(p)' # "write"
<1>1. Stage(p)' \notin RoomStages \cup {"ensure", "load", "open", "write"}
  BY DEF QuietStages, RoomStages
<1>2. ~Keyed(p)' /\ \A f : ~Making(p, f)'
  BY <1>1 DEF Keyed, Making
<1>3. PathFacts(p)' /\ MadeFacts(p)' /\ KeyFacts(p)'
  BY <1>1, <1>2 DEF PathFacts, MadeFacts, KeyFacts, RoomStages
<1>4. WriteFacts(p)' /\ VerifiedFacts(p)' /\ NonceFacts(p)'
  BY <1>1 DEF WriteFacts, VerifiedFacts, NonceFacts, RoomStages, Stage
<1>. QED  BY <1>1, <1>3, <1>4 DEF Local

LEMMA QuietKeeps ==
    ASSUME SetupInv, NEW p \in Slots, Quiet(p)
    PROVE  SetupInv'
BY QuietLocal, WalkKeeps DEF Quiet

(***************************************************************************)
(* Files                                                                   *)
(***************************************************************************)

\* A command has a nonce while it writes a note only.
LEMMA NoNonce ==
    ASSUME SetupInv, NEW p \in Slots, Stage(p) # "post"
    PROVE  proc[p].nonce = 0
BY DEF SetupInv, Local, NonceFacts

\* What comes after a file that is whole.
LEMMA DoneLocal ==
    ASSUME SetupInv, NEW p \in Slots, NEW f \in Files, Done(p, f),
           \/ proc[p].step = <<"write", f>>
           \/ f \in Roles /\ proc[p].step = <<"ensure", f>>,
           \A g \in Files : Whole(g) => file'[g] = file[g],
           file'[f] \in Slots
    PROVE  /\ Frame(p) /\ proc'[p].nonce = 0 /\ Local(p)' /\ Stage(p)' # "write"
           /\ Stage(p)' \in {"idle", "ensure", "open", "load", "read"}
<1>1. ProcType /\ Local(p) /\ \A g \in Files : Whole(g) => Whole(g)'
  BY DEF SetupInv, SetupTypes, Whole
<1>2. Stage(p) \in {"write", "ensure"} /\ proc[p].nonce = 0 /\ Whole(f)'
  BY NoNonce DEF Stage, Whole
<1>3. CASE proc[p].cmd = "identity"
  <2>1. Leave(p)
    BY <1>3 DEF Done
  <2>2. Frame(p) /\ proc'[p].step = <<"idle">> /\ proc'[p].nonce = 0
    BY <1>1, <2>1, LeaveSets
  <2>3. Stage(p)' \in QuietStages /\ Stage(p)' = "idle"
    BY <2>2 DEF QuietStages, Stage
  <2>. QED  BY <2>2, <2>3, QuietLocal
<1>4. CASE proc[p].cmd # "identity"
  <2>1. Go(p, After(p, f))
    BY <1>4 DEF Done
  <2>2. /\ Frame(p) /\ proc'[p].step = After(p, f) /\ proc'[p].cmd = proc[p].cmd
        /\ proc'[p].nonce = 0 /\ proc'[p].keys = proc[p].keys
    BY <1>1, <1>2, <2>1, GoSets
  <2>3. /\ proc[p].cmd \in {"run", "resume"}
        /\ f \in RunFiles => proc[p].cmd = "run"
        /\ f # "repository" /\ proc[p].cmd = "run" => Whole("repository")'
        /\ f = "room" /\ proc[p].cmd = "run" => Whole("config")'
        /\ f = "room" => proc'[p].keys = [r \in Roles |-> file'[r]] /\ \A r \in Roles : Whole(r)'
    <3>1. PathFacts(p) /\ MadeFacts(p) /\ KeyFacts(p)
      BY <1>1 DEF Local
    <3>2. CASE proc[p].step = <<"write", f>>
      <4>1. Stage(p) = "write" /\ Object(p) = f /\ Making(p, f)
        BY <3>2 DEF Stage, Object, Making
      <4>2. proc[p].cmd \in {"run", "resume"} /\ (f \in RunFiles => proc[p].cmd = "run")
        BY <1>4, <3>1, <4>1 DEF PathFacts, Files
      <4>3. proc[p].cmd = "run" => /\ f # "repository" => Whole("repository")
                                   /\ f = "room" => Whole("config")
        BY <3>1, <4>1 DEF MadeFacts, Keyed
      <4>4. f = "room" => proc[p].keys = [r \in Roles |-> file[r]] /\ \A r \in Roles : Whole(r)
        BY <3>1, <4>1 DEF KeyFacts, Keyed
      <4>5. f = "room" => /\ \A r \in Roles : file'[r] = file[r] /\ Whole(r)'
                          /\ proc[p].keys = [r \in Roles |-> file'[r]]
        BY <1>1, <4>4 DEF Files
      <4>. QED  BY <1>1, <2>2, <4>2, <4>3, <4>5 DEF Files, RunFiles
    <3>3. CASE f \in Roles /\ proc[p].step = <<"ensure", f>>
      <4>1. Stage(p) = "ensure"
        BY <3>3 DEF Stage
      <4>. QED  BY <1>1, <3>1, <3>3, <4>1 DEF PathFacts, MadeFacts, Roles, RunFiles, Files
    <3>. QED  BY <3>2, <3>3
  <2>4. \/ f = "repository" /\ proc'[p].step = <<"ensure", "supervisor">>
        \/ f = "supervisor" /\ proc'[p].step = <<"ensure", "agent">>
        \/ f = "agent" /\ proc[p].cmd = "run" /\ proc'[p].step = <<"open", "config">>
        \/ f = "agent" /\ proc[p].cmd = "resume" /\ proc'[p].step = <<"load">>
        \/ f = "config" /\ proc'[p].step = <<"load">>
        \/ f = "room" /\ proc'[p].step = <<"read", "owner">>
    BY <2>2, <2>3 DEF After, Files, RunFiles, Roles
  <2>5. /\ Stage(p)' \in {"ensure", "open", "load", "read"}
        /\ Stage(p)' = "read" <=> f = "room"
        /\ Stage(p)' = "open" => f = "agent" /\ Object(p)' = "config" /\ proc[p].cmd = "run"
        /\ Stage(p)' = "load" => f = "config" \/ proc[p].cmd = "resume"
    BY <2>4 DEF Stage, Object
  <2>6. /\ Keyed(p)' <=> f = "room"
        /\ \A g : Making(p, g)' => g = "config" /\ proc[p].cmd = "run"
    BY <2>5 DEF Keyed, Making, RoomStages
  <2>7. PathFacts(p)'
    BY <2>2, <2>3, <2>5, <2>6 DEF PathFacts, Roles
  <2>8. MadeFacts(p)'
    BY <1>2, <2>2, <2>3, <2>4, <2>5, <2>6 DEF MadeFacts, RoomStages
  <2>9. KeyFacts(p)'
    BY <2>3, <2>6 DEF KeyFacts
  <2>10. WriteFacts(p)' /\ VerifiedFacts(p)' /\ NonceFacts(p)'
    BY <2>2, <2>5 DEF WriteFacts, VerifiedFacts, NonceFacts, Stage
  <2>. QED  BY <2>2, <2>5, <2>7, <2>8, <2>9, <2>10 DEF Local
<1>. QED  BY <1>3, <1>4

LEMMA LeaveQuiet ==
    ASSUME SetupInv, NEW p \in Slots, Leave(p) \/ Error(p),
           UNCHANGED <<file, remote, row>>, lock' \in SlotOrNobody
    PROVE  SetupInv'
<1>1. /\ Frame(p) /\ proc'[p].nonce = 0
      /\ proc'[p].step = <<"idle">> \/ proc'[p].step = <<"regenerate">>
  BY LeaveSets, ContinueSets DEF SetupInv, SetupTypes, Error
<1>2. Stage(p)' \in QuietStages
  <2>1. CASE proc'[p].step = <<"idle">>
    BY <2>1 DEF Stage, QuietStages
  <2>2. CASE proc'[p].step = <<"regenerate">>
    BY <2>2 DEF Stage, QuietStages
  <2>. QED  BY <1>1, <2>1, <2>2
<1>. QED  BY <1>1, <1>2, QuietKeeps DEF Quiet

LEMMA EnsureKeeps ==
    ASSUME SetupInv, NEW p \in Slots, NEW r \in Roles, Ensure(p, r)
    PROVE  SetupInv'
<1>1. /\ proc[p].step = <<"ensure", r>> /\ Stage(p) = "ensure" /\ r \in Files
      /\ UNCHANGED <<file, remote, lock, row>> /\ lock' \in SlotOrNobody
  BY DEF Ensure, Stage, Files, SetupInv, SetupTypes
<1>2. CASE Go(p, <<"open", r>>)
  <2>1. /\ Frame(p) /\ proc'[p].step = <<"open", r>> /\ proc'[p].cmd = proc[p].cmd
        /\ proc'[p].nonce = 0
    BY <1>1, <1>2, GoSets, NoNonce DEF SetupInv, SetupTypes
  <2>2. Stage(p)' = "open" /\ Object(p)' = r /\ r \notin RunFiles
    BY <2>1 DEF Stage, Object, Roles, RunFiles
  <2>3. ~Keyed(p)' /\ \A f : Making(p, f)' => f = r
    BY <2>2 DEF Keyed, Making, RoomStages, RunFiles
  <2>4. /\ proc[p].cmd \in {"run", "resume"}
        /\ proc[p].cmd = "run" => Whole("repository")
    BY <1>1 DEF SetupInv, Local, PathFacts, MadeFacts
  <2>5. PathFacts(p)' /\ MadeFacts(p)' /\ KeyFacts(p)'
    BY <1>1, <2>1, <2>2, <2>3, <2>4 DEF PathFacts, MadeFacts, KeyFacts, RoomStages, Whole
  <2>6. WriteFacts(p)' /\ VerifiedFacts(p)' /\ NonceFacts(p)'
    BY <2>1, <2>2 DEF WriteFacts, VerifiedFacts, NonceFacts, Stage
  <2>. QED  BY <1>1, <2>1, <2>2, <2>5, <2>6, WalkKeeps DEF Local
<1>3. CASE Leave(p)
  BY <1>1, <1>3, LeaveQuiet
<1>4. CASE Whole(r) /\ Done(p, r)
  <2>1. file'[r] \in Slots /\ \A g \in Files : Whole(g) => file'[g] = file[g]
    BY <1>1, <1>4 DEF Whole
  <2>2. Frame(p) /\ proc'[p].nonce = 0 /\ Local(p)' /\ Stage(p)' # "write"
    BY <1>1, <1>4, <2>1, DoneLocal
  <2>. QED  BY <1>1, <2>2, WalkKeeps
<1>. QED  BY <1>2, <1>3, <1>4 DEF Ensure

\* Where no whole file changes, and no note, other commands are as before.
LEMMA OthersLocal ==
    ASSUME SetupInv, NEW q \in Slots, proc'[q] = proc[q],
           \A g \in Files : Whole(g) => file'[g] = file[g],
           \A g \in Files : proc[q].step = <<"write", g>> => file'[g] = file[g],
           UNCHANGED remote
    PROVE  Local(q)'
<1>1. Local(q)
  BY DEF SetupInv
<1>2. /\ Stage(q)' = Stage(q) /\ Object(q)' = Object(q) /\ (Keyed(q)' <=> Keyed(q))
      /\ \A f : Making(q, f)' <=> Making(q, f)
      /\ \A n : Wanted(q, n)' = Wanted(q, n)
      /\ Signer(q)' = Signer(q)
  BY DEF Stage, Object, Keyed, Making, Wanted, Signer
<1>3. \A g \in Files : Whole(g) => Whole(g)'
  BY DEF Whole
<1>4. PathFacts(q)' /\ MadeFacts(q)'
  BY <1>1, <1>2, <1>3 DEF Local, PathFacts, MadeFacts, Files, RunFiles
<1>5. KeyFacts(q)'
  BY <1>1, <1>2, <1>3 DEF Local, KeyFacts, Files
<1>6. WriteFacts(q)' /\ VerifiedFacts(q)' /\ NonceFacts(q)'
  BY <1>1, <1>2 DEF Local, WriteFacts, VerifiedFacts, NonceFacts, remote
<1>. QED  BY <1>4, <1>5, <1>6 DEF Local

\* What a recorded run needs stays as it is.
LEMMA RecordedStays ==
    ASSUME SetupInv, \A g \in Files : Whole(g) => file'[g] = file[g], UNCHANGED <<note, row>>
    PROVE  RecordedRunsCanResume'
<1>. SUFFICES ASSUME row # Nobody
              PROVE  /\ \A f \in RunFiles : Whole(f)'
                     /\ \A r \in Roles : file'[r] = row[r]
                     /\ note["owner"] = row["supervisor"] /\ note["allow"] = row
  BY DEF RecordedRunsCanResume
<1>1. /\ \A f \in RunFiles : Whole(f)
      /\ \A r \in Roles : file[r] = row[r]
      /\ note["owner"] = row["supervisor"] /\ note["allow"] = row
  BY DEF SetupInv, RecordedRunsCanResume
<1>2. \A r \in Roles : Whole(r)
  BY <1>1 DEF SetupInv, SetupTypes, Whole
<1>. QED  BY <1>1, <1>2 DEF Whole, Files

LEMMA OpenKeeps ==
    ASSUME SetupInv, NEW p \in Slots, NEW f \in Files, Open(p, f)
    PROVE  SetupInv'
<1>0. /\ proc[p].step = <<"open", f>> /\ Stage(p) = "open" /\ Object(p) = f /\ Making(p, f)
      /\ UNCHANGED <<remote, lock, row>> /\ lock' \in SlotOrNobody /\ Local(p)
  BY DEF Open, Stage, Object, Making, SetupInv, SetupTypes
<1>1. CASE Leave(p) /\ UNCHANGED file
  BY <1>0, <1>1, LeaveQuiet
<1>2. CASE /\ file[f] = Nobody
           /\ file' = [file EXCEPT ![f] = Part]
           /\ Go(p, <<"write", f>>)
  <2>1. /\ Frame(p) /\ proc'[p].step = <<"write", f>> /\ proc'[p].cmd = proc[p].cmd
        /\ proc'[p].nonce = 0 /\ proc'[p].keys = proc[p].keys
    BY <1>0, <1>2, GoSets, NoNonce DEF SetupInv, SetupTypes
  <2>2. /\ file \in [Files -> Slots \cup {Nobody, Part}]
        /\ file' \in [Files -> Slots \cup {Nobody, Part}]
        /\ file'[f] = Part /\ \A g \in Files : g # f => file'[g] = file[g]
    BY <1>2 DEF SetupInv, SetupTypes
  <2>3. \A g \in Files : Whole(g) => g # f /\ file'[g] = file[g]
    BY <1>2, <2>2 DEF Whole
  <2>4. SetupTypes'
    BY <1>0, <2>1, <2>2 DEF SetupInv, SetupTypes, Frame, remote
  <2>5. \A q \in Slots : \A g \in Files : proc[q].step = <<"write", g>> => g # f
    BY <1>2 DEF SetupInv, Local, WriteFacts
  <2>6. ASSUME NEW q \in Slots PROVE Local(q)'
    <3>1. CASE q # p
      BY <1>0, <2>1, <2>2, <2>3, <2>5, <3>1, OthersLocal DEF Frame
    <3>2. CASE q = p
      <4>1. /\ Stage(p)' = "write" /\ Object(p)' = f
            /\ \A g : Making(p, g)' => g = f
            /\ Keyed(p)' => f = "room" /\ Keyed(p)
        BY <1>0, <2>1 DEF Stage, Object, Making, Keyed, RoomStages
      <4>2. PathFacts(p)'
        BY <1>0, <2>1, <4>1 DEF Local, PathFacts
      <4>3. MadeFacts(p)'
        BY <1>0, <2>1, <2>3, <4>1 DEF Local, MadeFacts, RoomStages, Whole, Files, RunFiles
      <4>4. KeyFacts(p)'
        BY <1>0, <2>1, <2>3, <4>1 DEF Local, KeyFacts, Whole, Files
      <4>5. WriteFacts(p)' /\ VerifiedFacts(p)' /\ NonceFacts(p)'
        BY <2>1, <2>2, <4>1 DEF WriteFacts, VerifiedFacts, NonceFacts
      <4>. QED  BY <3>2, <4>2, <4>3, <4>4, <4>5 DEF Local
    <3>. QED  BY <3>1, <3>2
  <2>7. WritersApart'
    <3>. SUFFICES ASSUME NEW a \in Slots, NEW b \in Slots, NEW g \in Files,
                         proc'[a].step = <<"write", g>>, proc'[b].step = <<"write", g>>
                  PROVE  a = b
      BY DEF WritersApart
    <3>1. CASE a = p \/ b = p
      BY <2>1, <2>5, <3>1 DEF Frame
    <3>2. CASE a # p /\ b # p
      BY <2>1, <3>2 DEF Frame, SetupInv, WritersApart
    <3>. QED  BY <3>1, <3>2
  <2>8. RecordedRunsCanResume'
    BY <1>0, <2>3, RecordedStays DEF remote
  <2>9. NoncesAreFresh'
    BY <1>0, <2>1 DEF SetupInv, NoncesAreFresh, Frame, Signer, remote
  <2>. QED  BY <2>4, <2>6, <2>7, <2>8, <2>9 DEF SetupInv
<1>. QED  BY <1>1, <1>2 DEF Open

LEMMA WriteKeeps ==
    ASSUME SetupInv, NEW p \in Slots, NEW f \in Files, Write(p, f)
    PROVE  SetupInv'
<1>1. /\ proc[p].step = <<"write", f>> /\ Done(p, f) /\ UNCHANGED <<remote, lock, row>>
      /\ file \in [Files -> Slots \cup {Nobody, Part}]
      /\ file' \in [Files -> Slots \cup {Nobody, Part}]
      /\ file'[f] = p /\ \A g \in Files : g # f => file'[g] = file[g]
  BY DEF Write, SetupInv, SetupTypes
<1>2. \A g \in Files : Whole(g) => g # f /\ file'[g] = file[g]
  BY <1>1 DEF Whole, SetupInv, Local, WriteFacts
<1>3. Frame(p) /\ proc'[p].nonce = 0 /\ Local(p)' /\ Stage(p)' # "write"
  BY <1>1, <1>2, DoneLocal
<1>4. SetupTypes'
  BY <1>1, <1>3 DEF SetupInv, SetupTypes, Frame, remote
<1>5. \A q \in Slots : \A g \in Files : q # p /\ proc[q].step = <<"write", g>> => g # f
  BY <1>1 DEF SetupInv, WritersApart
<1>6. ASSUME NEW q \in Slots PROVE Local(q)'
  BY <1>1, <1>2, <1>3, <1>5, OthersLocal DEF Frame
<1>7. WritersApart'
  <2>1. \A g \in Files : proc'[p].step # <<"write", g>>
    BY <1>3 DEF Stage
  <2>. QED  BY <1>3, <2>1, NoNewWriter DEF SetupInv
<1>8. RecordedRunsCanResume'
  BY <1>1, <1>2, RecordedStays DEF remote
<1>9. NoncesAreFresh'
  BY <1>1, <1>3 DEF SetupInv, NoncesAreFresh, Frame, Signer, remote
<1>. QED  BY <1>4, <1>6, <1>7, <1>8, <1>9 DEF SetupInv

LEMMA StartKeeps ==
    ASSUME SetupInv, NEW p \in Slots, StartSetup(p) \/ StartCommand(p)
    PROVE  SetupInv'
<1>1. PICK c, first :
           /\ Start(p, c, first)
           /\ \/ c = "run" /\ first = <<"open", "repository">>
              \/ c = "resume" /\ first = <<"ensure", "supervisor">>
              \/ c = "identity" /\ \E r \in Roles : first = <<"open", r>>
              \/ c = "cancel" /\ first = <<"load">>
              \/ first = <<"generate", "export">> \/ first = <<"clean">>
  BY DEF StartSetup, StartCommand
<1>2. /\ Frame(p) /\ proc'[p].step = first /\ proc'[p].cmd = c /\ proc'[p].nonce = proc[p].nonce
      /\ proc[p].step = <<"idle">> /\ UNCHANGED <<file, remote, lock, row>> /\ lock' \in SlotOrNobody
  BY <1>1, StartSets DEF SetupInv, SetupTypes
<1>3. proc'[p].nonce = 0
  BY <1>2, NoNonce DEF Stage
<1>4. CASE Stage(p)' \in QuietStages
  BY <1>2, <1>3, <1>4, QuietKeeps DEF Quiet
<1>5. CASE Stage(p)' \notin QuietStages
  <2>1. \/ c = "run" /\ Stage(p)' = "open" /\ Object(p)' = "repository"
        \/ c = "resume" /\ Stage(p)' = "ensure"
        \/ c = "identity" /\ Stage(p)' = "open" /\ Object(p)' \in Roles
        \/ c = "cancel" /\ Stage(p)' = "load"
    <3>0. CASE first = <<"generate", "export">>
      BY <1>2, <1>5, <3>0 DEF Stage, QuietStages
    <3>1. CASE first = <<"clean">>
      BY <1>2, <1>5, <3>1 DEF Stage, QuietStages
    <3>2. CASE c = "run" /\ first = <<"open", "repository">>
      BY <1>2, <3>2 DEF Stage, Object
    <3>3. CASE c = "resume" /\ first = <<"ensure", "supervisor">>
      BY <1>2, <3>3 DEF Stage
    <3>4. CASE c = "identity" /\ \E r \in Roles : first = <<"open", r>>
      <4>1. PICK r \in Roles : first = <<"open", r>>
        BY <3>4
      <4>. QED  BY <1>2, <3>4, <4>1 DEF Stage, Object
    <3>5. CASE c = "cancel" /\ first = <<"load">>
      BY <1>2, <3>5 DEF Stage
    <3>. QED  BY <1>1, <3>0, <3>1, <3>2, <3>3, <3>4, <3>5
  <2>2. ~Keyed(p)'
    BY <2>1 DEF Keyed, Making, RoomStages, Roles
  <2>3. PathFacts(p)' /\ MadeFacts(p)' /\ KeyFacts(p)'
    BY <1>2, <2>1, <2>2 DEF PathFacts, MadeFacts, KeyFacts, Making, RoomStages, RunFiles, Roles, Files
  <2>4. WriteFacts(p)' /\ VerifiedFacts(p)' /\ NonceFacts(p)' /\ Stage(p)' # "write"
    BY <1>3, <2>1 DEF WriteFacts, VerifiedFacts, NonceFacts, Stage
  <2>. QED  BY <1>2, <1>3, <2>3, <2>4, WalkKeeps DEF Local
<1>. QED  BY <1>4, <1>5

LEMMA FaultKeeps ==
    ASSUME SetupInv, NEW p \in Slots, SetupFault(p)
    PROVE  SetupInv'
<1>1. (Leave(p) \/ Error(p)) /\ UNCHANGED <<file, remote, row>> /\ lock' \in SlotOrNobody
  BY DEF SetupFault, SetupInv, SetupTypes
<1>. QED  BY <1>1, LeaveQuiet

LEMMA LoadKeeps ==
    ASSUME SetupInv, NEW p \in Slots, Load(p)
    PROVE  SetupInv'
<1>0. /\ proc[p].step = <<"load">> /\ Stage(p) = "load" /\ Local(p)
      /\ UNCHANGED <<file, remote, lock, row>> /\ lock' \in SlotOrNobody
  BY DEF Load, Stage, SetupInv, SetupTypes
<1>. DEFINE keys == [r \in Roles |-> file[r]]
            next == CASE proc[p].cmd = "run"    -> <<"open", "room">>
                      [] proc[p].cmd = "resume" -> <<"read", "owner">>
                      [] proc[p].cmd = "cancel" -> <<"lock">>
<1>1. CASE Leave(p)
  BY <1>0, <1>1, LeaveQuiet
<1>2. CASE /\ \A r \in Roles : Whole(r)
           /\ proc[p].cmd # "run" => Whole("room")
           /\ proc' = [proc EXCEPT ![p].keys = keys, ![p].step = next]
  <2>1. keys \in [Roles -> SlotOrNobody]
    BY <1>2 DEF Whole, SlotOrNobody
  <2>. HIDE DEF keys, next
  <2>2. /\ Frame(p) /\ proc'[p].step = next /\ proc'[p].cmd = proc[p].cmd
        /\ proc'[p].nonce = 0 /\ proc'[p].keys = keys
    <3>1. ProcType /\ proc[p].nonce = 0
      BY <1>0, NoNonce DEF SetupInv, SetupTypes
    <3>2. /\ Frame(p) /\ proc'[p].step = next /\ proc'[p].cmd = proc[p].cmd
          /\ proc'[p].nonce = proc[p].nonce /\ proc'[p].keys = keys
      BY <1>2, <2>1, <3>1, LoadSets, Zenon
    <3>. QED  BY <3>1, <3>2
  <2>3. \/ proc[p].cmd = "run" /\ Stage(p)' = "open" /\ Object(p)' = "room"
        \/ proc[p].cmd = "resume" /\ Stage(p)' = "read"
        \/ proc[p].cmd = "cancel" /\ Stage(p)' = "lock"
    BY <1>0, <2>2 DEF Local, PathFacts, next, Stage, Object
  <2>4. PathFacts(p)'
    BY <2>2, <2>3 DEF PathFacts, Making, Roles
  <2>5. MadeFacts(p)'
    BY <1>0, <2>2, <2>3 DEF Local, MadeFacts, Whole, RoomStages
  <2>6. KeyFacts(p)'
    BY <1>0, <1>2, <2>2 DEF KeyFacts, keys, Whole
  <2>7. WriteFacts(p)' /\ VerifiedFacts(p)' /\ NonceFacts(p)' /\ Stage(p)' # "write"
    BY <2>2, <2>3 DEF WriteFacts, VerifiedFacts, NonceFacts, Stage
  <2>. QED  BY <1>0, <2>2, <2>4, <2>5, <2>6, <2>7, WalkKeeps DEF Local
<1>. QED  BY <1>1, <1>2 DEF Load

(***************************************************************************)
(* Notes, nonces, the lock and the row                                     *)
(***************************************************************************)

\* The keys that a command has after it loaded them are those of the files.
LEMMA KeysInHand ==
    ASSUME SetupInv, NEW p \in Slots, Stage(p) \in RoomStages
    PROVE  /\ proc[p].keys = [r \in Roles |-> file[r]]
           /\ proc[p].keys \in [Roles -> Slots] /\ Signer(p) \in Slots
<1>1. Local(p) /\ Keyed(p)
  BY DEF SetupInv, Keyed
<1>2. proc[p].keys = [r \in Roles |-> file[r]] /\ \A r \in Roles : file[r] \in Slots
  BY <1>1 DEF Local, KeyFacts, Whole
<1>. QED  BY <1>2 DEF Signer, Roles

\* From one stage at the room to another.
LEMMA RoomLocal ==
    ASSUME SetupInv, NEW p \in Slots, Stage(p) \in RoomStages, Stage(p)' \in RoomStages,
           Stage(p) \in {"lock", "row"} => Stage(p)' \in {"lock", "row"},
           proc'[p].cmd = proc[p].cmd, proc'[p].keys = proc[p].keys, UNCHANGED file
    PROVE  PathFacts(p)' /\ MadeFacts(p)' /\ KeyFacts(p)' /\ WriteFacts(p)' /\ Stage(p)' # "write"
<1>1. Local(p) /\ Keyed(p)
  BY DEF SetupInv, Keyed
<1>2. Stage(p)' \notin {"open", "write", "ensure", "load"} /\ \A f : ~Making(p, f)'
  BY DEF RoomStages, Making
<1>3. PathFacts(p)'
  <2>1. /\ Stage(p) \in {"read", "sign", "post", "verify"} => proc[p].cmd \in {"run", "resume"}
        /\ Stage(p) \in {"lock", "row"} => proc[p].cmd \in {"run", "resume", "cancel"}
    BY <1>1 DEF Local, PathFacts
  <2>. QED  BY <1>2, <2>1 DEF PathFacts, RoomStages
<1>4. MadeFacts(p)'
  BY <1>1, <1>2 DEF Local, MadeFacts, Whole
<1>5. KeyFacts(p)'
  BY <1>1 DEF Local, KeyFacts, Whole
<1>6. WriteFacts(p)'
  BY <1>2 DEF WriteFacts, Stage
<1>. QED  BY <1>2, <1>3, <1>4, <1>5, <1>6

LEMMA RoomWalk ==
    ASSUME SetupInv, NEW p \in Slots, Stage(p) \in RoomStages, Stage(p)' \in RoomStages,
           Stage(p) \in {"lock", "row"} => Stage(p)' \in {"lock", "row"},
           proc'[p].cmd = proc[p].cmd, proc'[p].keys = proc[p].keys, proc'[p].nonce = 0,
           Frame(p), UNCHANGED <<file, remote, row>>, lock' \in SlotOrNobody,
           Stage(p)' \in {"lock", "row"} /\ proc[p].cmd \in {"run", "resume"} =>
               \A n \in Notes : note[n] = Wanted(p, n)
    PROVE  SetupInv'
<1>1. PathFacts(p)' /\ MadeFacts(p)' /\ KeyFacts(p)' /\ WriteFacts(p)' /\ Stage(p)' # "write"
  BY RoomLocal
<1>2. VerifiedFacts(p)'
  BY DEF VerifiedFacts, Wanted, remote
<1>3. NonceFacts(p)'
  BY DEF NonceFacts
<1>. QED  BY <1>1, <1>2, <1>3, WalkKeeps DEF Local

LEMMA NextNoteSets ==
    ASSUME ProcType, NEW p \in Slots, NEW n, NextNote(p, n)
    PROVE  /\ Frame(p) /\ proc'[p].cmd = proc[p].cmd /\ proc'[p].keys = proc[p].keys
           /\ proc'[p].nonce = 0 /\ Stage(p)' \in {"read", "verify"}
<1>1. PICK next : next = IF n = "owner" THEN <<"read", "allow">> ELSE <<"verify">>
  OBVIOUS
<1>2. 0 \in 0 .. MaxNonce /\ proc' = [proc EXCEPT ![p].nonce = 0, ![p].step = next]
  BY <1>1, IdleParts DEF NextNote
<1>3. /\ Frame(p) /\ proc'[p].step = next /\ proc'[p].cmd = proc[p].cmd
      /\ proc'[p].nonce = 0 /\ proc'[p].keys = proc[p].keys
  BY <1>2, NonceSets, Zenon
<1>4. CASE next = <<"read", "allow">>
  BY <1>3, <1>4 DEF Stage
<1>5. CASE next = <<"verify">>
  BY <1>3, <1>5 DEF Stage
<1>. QED  BY <1>1, <1>3, <1>4, <1>5

\* Another command, when nonces are allocated or a note becomes what it wants as well.
LEMMA OthersRemote ==
    ASSUME SetupInv, NEW q \in Slots, proc'[q] = proc[q], UNCHANGED file, last' \in [Slots -> 0 .. MaxNonce],
           \A k \in Slots : last[k] <= last'[k],
           \A n \in Notes : note'[n] = note[n] \/ (Stage(q) \in RoomStages => note'[n] = Wanted(q, n))
    PROVE  Local(q)'
<1>1. Local(q)
  BY DEF SetupInv
<1>2. /\ Stage(q)' = Stage(q) /\ Object(q)' = Object(q) /\ (Keyed(q)' <=> Keyed(q))
      /\ \A f : Making(q, f)' <=> Making(q, f)
      /\ \A n : Wanted(q, n)' = Wanted(q, n)
      /\ Signer(q)' = Signer(q)
      /\ \A f \in Files : Whole(f)' <=> Whole(f)
  BY DEF Stage, Object, Keyed, Making, Wanted, Signer, Whole
<1>3. PathFacts(q)' /\ MadeFacts(q)' /\ KeyFacts(q)' /\ WriteFacts(q)'
  BY <1>1 DEF Local, PathFacts, MadeFacts, KeyFacts, WriteFacts, Stage, Object, Keyed, Making, Whole
<1>4. VerifiedFacts(q)'
  BY <1>1, <1>2 DEF Local, VerifiedFacts, RoomStages
<1>5. NonceFacts(q)'
  <2>. SUFFICES ASSUME proc[q].nonce # 0
                PROVE  Stage(q) = "post" /\ proc[q].nonce <= last'[Signer(q)]
    BY <1>2 DEF NonceFacts
  <2>1. Stage(q) = "post" /\ proc[q].nonce <= last[Signer(q)]
    BY <1>1 DEF Local, NonceFacts
  <2>2. Signer(q) \in Slots
    BY <2>1, KeysInHand DEF RoomStages
  <2>3. last[Signer(q)] \in Nat /\ last'[Signer(q)] \in Nat /\ proc[q].nonce \in Nat
    BY <2>2 DEF SetupInv, SetupTypes, ProcType
  <2>. QED  BY <2>1, <2>2, <2>3
<1>. QED  BY <1>3, <1>4, <1>5 DEF Local

LEMMA ReadKeeps ==
    ASSUME SetupInv, NEW p \in Slots, NEW n \in Notes, ReadNote(p, n)
    PROVE  SetupInv'
<1>1. /\ Stage(p) = "read" /\ Stage(p) \in RoomStages /\ ProcType
      /\ UNCHANGED <<file, remote, lock, row>> /\ lock' \in SlotOrNobody
  BY DEF ReadNote, Stage, SetupInv, SetupTypes, RoomStages
<1>2. CASE NextNote(p, n)
  <2>1. /\ Frame(p) /\ proc'[p].cmd = proc[p].cmd /\ proc'[p].keys = proc[p].keys
        /\ proc'[p].nonce = 0 /\ Stage(p)' \in {"read", "verify"}
    BY <1>1, <1>2, NextNoteSets
  <2>2. Stage(p)' \in RoomStages /\ Stage(p)' \notin {"lock", "row"}
    BY <2>1 DEF RoomStages
  <2>. QED  BY <1>1, <2>1, <2>2, RoomWalk
<1>3. CASE Go(p, <<"sign", n>>)
  <2>1. /\ Frame(p) /\ proc'[p].cmd = proc[p].cmd /\ proc'[p].keys = proc[p].keys
        /\ proc'[p].nonce = 0 /\ proc'[p].step = <<"sign", n>>
    BY <1>1, <1>3, GoSets, NoNonce
  <2>2. Stage(p)' \in RoomStages /\ Stage(p)' \notin {"lock", "row"}
    BY <2>1 DEF RoomStages, Stage
  <2>. QED  BY <1>1, <2>1, <2>2, RoomWalk
<1>4. CASE Error(p)
  BY <1>1, <1>4, LeaveQuiet
<1>. QED  BY <1>2, <1>3, <1>4 DEF ReadNote

\* The clock may be anywhere: the nonce is new.
LEMMA NonceIsNew ==
    ASSUME NEW previous \in Nat, NEW clock \in Nat
    PROVE  Nonce(previous, clock) \in Nat /\ Nonce(previous, clock) > previous
<1>1. \E x \in {clock, previous} : \A y \in {clock, previous} : x >= y
  <2>1. CASE clock >= previous
    BY <2>1
  <2>2. CASE previous >= clock
    BY <2>2
  <2>. QED  BY <2>1, <2>2
<1>2. PICK m : m = Max({clock, previous})
  OBVIOUS
<1>3. m \in {clock, previous} /\ \A y \in {clock, previous} : m >= y
  BY <1>1, <1>2 DEF Max
<1>. QED  BY <1>2, <1>3 DEF Nonce

LEMMA SignKeeps ==
    ASSUME SetupInv, NEW p \in Slots, NEW n \in Notes, Sign(p, n)
    PROVE  SetupInv'
<1>1. /\ Stage(p) = "sign" /\ Stage(p) \in RoomStages /\ ProcType
      /\ UNCHANGED <<file, note, accepted, lock, row>> /\ lock' \in SlotOrNobody
  BY DEF Sign, Stage, SetupInv, SetupTypes, RoomStages
<1>2. Signer(p) \in Slots
  BY <1>1, KeysInHand
<1>0. PICK clock \in 0 .. MaxClock : \E next :
         /\ next = Nonce(last[Signer(p)], clock)
         /\ \/ /\ ~Exhausted(next)
               /\ last' = [last EXCEPT ![Signer(p)] = next]
               /\ proc' = [proc EXCEPT ![p].nonce = next, ![p].step = <<"post", n>>]
            \/ Error(p) /\ UNCHANGED last
  BY DEF Sign
<1>3. PICK next :
         /\ next = Nonce(last[Signer(p)], clock)
         /\ \/ /\ ~Exhausted(next)
               /\ last' = [last EXCEPT ![Signer(p)] = next]
               /\ proc' = [proc EXCEPT ![p].nonce = next, ![p].step = <<"post", n>>]
            \/ Error(p) /\ UNCHANGED last
  BY <1>0
<1>4. CASE Error(p) /\ UNCHANGED last
  BY <1>1, <1>4, LeaveQuiet DEF remote
<1>5. CASE /\ ~Exhausted(next)
           /\ last' = [last EXCEPT ![Signer(p)] = next]
           /\ proc' = [proc EXCEPT ![p].nonce = next, ![p].step = <<"post", n>>]
  <2>1. last \in [Slots -> 0 .. MaxNonce] /\ accepted \in [Slots -> 0 .. MaxNonce] /\ MaxNonce \in Nat
    BY DEF SetupInv, SetupTypes
  <2>2. next \in 0 .. MaxNonce /\ next > last[Signer(p)]
    <3>1. last[Signer(p)] \in Nat /\ clock \in Nat
      BY <1>2, <2>1
    <3>2. next \in Nat /\ next > last[Signer(p)]
      BY <1>3, <3>1, NonceIsNew
    <3>. QED  BY <1>5, <2>1, <3>2 DEF Exhausted
  <2>3. PICK to : to = <<"post", n>>
    OBVIOUS
  <2>4. /\ Frame(p) /\ proc'[p].step = to /\ proc'[p].cmd = proc[p].cmd
        /\ proc'[p].nonce = next /\ proc'[p].keys = proc[p].keys
    <3>1. proc' = [proc EXCEPT ![p].nonce = next, ![p].step = to]
      BY <1>5, <2>3
    <3>. QED  BY <1>1, <2>2, <3>1, NonceSets, Zenon
  <2>5. Stage(p)' = "post" /\ Stage(p)' \in RoomStages /\ Signer(p)' = Signer(p)
    BY <2>3, <2>4 DEF Stage, RoomStages, Signer
  <2>6. /\ last' \in [Slots -> 0 .. MaxNonce] /\ last'[Signer(p)] = next
        /\ \A k \in Slots : last[k] <= last'[k]
    BY <1>2, <1>5, <2>1, <2>2
  <2>7. ASSUME NEW q \in Slots PROVE Local(q)'
    <3>1. CASE q # p
      BY <1>1, <2>4, <2>6, <3>1, OthersRemote DEF Frame
    <3>2. CASE q = p
      <4>1. PathFacts(p)' /\ MadeFacts(p)' /\ KeyFacts(p)' /\ WriteFacts(p)'
        BY <1>1, <2>4, <2>5, RoomLocal
      <4>2. VerifiedFacts(p)'
        BY <2>5 DEF VerifiedFacts
      <4>3. NonceFacts(p)'
        <5>1. next <= last'[Signer(p)]
          BY <2>2, <2>6
        <5>. QED  BY <2>4, <2>5, <5>1 DEF NonceFacts
      <4>. QED  BY <3>2, <4>1, <4>2, <4>3 DEF Local
    <3>. QED  BY <3>1, <3>2
  <2>8. SetupTypes'
    BY <1>1, <2>4, <2>6 DEF SetupInv, SetupTypes, Frame
  <2>9. WritersApart'
    <3>1. \A f \in Files : proc'[p].step # <<"write", f>>
      BY <2>5 DEF Stage
    <3>. QED  BY <2>4, <3>1, NoNewWriter DEF SetupInv
  <2>10. RecordedRunsCanResume'
    BY <1>1 DEF SetupInv, RecordedRunsCanResume, Whole
  <2>11. NoncesAreFresh'
    <3>1. \A k \in Slots : accepted'[k] <= last'[k]
      <4>. SUFFICES ASSUME NEW k \in Slots PROVE accepted[k] <= last'[k]
        BY <1>1
      <4>1. accepted[k] \in Nat /\ last[k] \in Nat /\ last'[k] \in Nat /\ accepted[k] <= last[k]
        BY <2>1, <2>6 DEF SetupInv, NoncesAreFresh
      <4>. QED  BY <2>6, <4>1
    <3>2. ASSUME NEW q \in Slots, q # p, proc[q].nonce # 0, Signer(q) = Signer(p)
          PROVE  proc[q].nonce # next
      <4>1. proc[q].nonce <= last[Signer(p)]
        BY <3>2 DEF SetupInv, Local, NonceFacts
      <4>2. proc[q].nonce \in Nat /\ last[Signer(p)] \in Nat /\ next \in Nat
        BY <1>1, <1>2, <2>1, <2>2 DEF ProcType
      <4>. QED  BY <2>2, <4>1, <4>2
    <3>. SUFFICES ASSUME NEW a \in Slots, NEW b \in Slots, a # b, proc'[a].nonce # 0,
                         Signer(a)' = Signer(b)'
                  PROVE  proc'[a].nonce # proc'[b].nonce
      BY <3>1 DEF NoncesAreFresh
    <3>3. \A q \in Slots : q # p => proc'[q] = proc[q] /\ Signer(q)' = Signer(q)
      BY <2>4 DEF Frame, Signer
    <3>4. CASE a = p
      <4>1. CASE proc[b].nonce = 0
        BY <2>4, <3>3, <3>4, <4>1
      <4>. QED  BY <2>4, <2>5, <3>2, <3>3, <3>4, <4>1
    <3>5. CASE b = p
      BY <2>4, <2>5, <3>2, <3>3, <3>5
    <3>6. CASE a # p /\ b # p
      BY <3>3, <3>6 DEF SetupInv, NoncesAreFresh
    <3>. QED  BY <3>4, <3>5, <3>6
  <2>. QED  BY <2>7, <2>8, <2>9, <2>10, <2>11 DEF SetupInv
<1>. QED  BY <1>3, <1>4, <1>5

\* What one command wants of a note, every command at the room wants, and the run's row.
LEMMA AllWantTheSame ==
    ASSUME SetupInv, NEW p \in Slots, Stage(p) \in RoomStages, NEW n \in Notes
    PROVE  /\ \A q \in Slots : Stage(q) \in RoomStages => Wanted(q, n) = Wanted(p, n)
           /\ row # Nobody => Wanted(p, n) = IF n = "owner" THEN row["supervisor"] ELSE row
<1>1. \A q \in Slots : Stage(q) \in RoomStages => proc[q].keys = proc[p].keys
  BY KeysInHand
<1>2. row # Nobody => proc[p].keys = row
  <2>1. proc[p].keys = [r \in Roles |-> file[r]]
    BY KeysInHand
  <2>2. row # Nobody => row \in [Roles -> Slots] /\ \A r \in Roles : file[r] = row[r]
    BY DEF SetupInv, SetupTypes, RecordedRunsCanResume
  <2>. QED  BY <2>1, <2>2
<1>. QED  BY <1>1, <1>2 DEF Wanted

LEMMA PostedKeeps ==
    ASSUME SetupInv, NEW p \in Slots, NEW n \in Notes, Posted(p, n)
    PROVE  SetupInv'
<1>1. /\ Stage(p) = "post" /\ Stage(p) \in RoomStages /\ ProcType
      /\ UNCHANGED <<file, last, lock, row>> /\ lock' \in SlotOrNobody
      /\ last \in [Slots -> 0 .. MaxNonce] /\ accepted \in [Slots -> 0 .. MaxNonce]
      /\ proc[p].nonce \in 0 .. MaxNonce
  BY DEF Posted, Stage, SetupInv, SetupTypes, RoomStages, ProcType
<1>2. Signer(p) \in Slots
  BY <1>1, KeysInHand
<1>3. /\ note' = [m \in Notes |-> IF m = n THEN Wanted(p, n) ELSE note[m]]
      /\ n = "owner" => Wanted(p, n) \in Slots
  <2>1. note = [m \in Notes |-> note[m]] /\ note' = [note EXCEPT ![n] = Wanted(p, n)]
    BY DEF Posted, SetupInv, SetupTypes
  <2>. QED  BY <1>2, <2>1 DEF Wanted, Signer
<1>4. /\ accepted' = [accepted EXCEPT ![Signer(p)] = proc[p].nonce]
      /\ proc[p].nonce > accepted[Signer(p)] /\ proc[p].nonce <= last[Signer(p)]
  <2>1. accepted[Signer(p)] \in Nat
    BY <1>1, <1>2
  <2>2. proc[p].nonce > accepted[Signer(p)] /\ accepted' = [accepted EXCEPT ![Signer(p)] = proc[p].nonce]
    BY DEF Posted, Accepts
  <2>3. proc[p].nonce # 0
    BY <1>1, <2>1, <2>2
  <2>. QED  BY <2>2, <2>3 DEF SetupInv, Local, NonceFacts
<1>5. /\ Frame(p) /\ proc'[p].nonce = 0 /\ Local(p)' /\ Stage(p)' # "write"
  <2>1. CASE NextNote(p, n)
    <3>1. /\ Frame(p) /\ proc'[p].cmd = proc[p].cmd /\ proc'[p].keys = proc[p].keys
          /\ proc'[p].nonce = 0 /\ Stage(p)' \in {"read", "verify"}
      BY <1>1, <2>1, NextNoteSets
    <3>2. PathFacts(p)' /\ MadeFacts(p)' /\ KeyFacts(p)' /\ WriteFacts(p)' /\ Stage(p)' # "write"
      BY <1>1, <3>1, RoomLocal DEF RoomStages
    <3>3. VerifiedFacts(p)' /\ NonceFacts(p)'
      BY <3>1 DEF VerifiedFacts, NonceFacts
    <3>. QED  BY <3>1, <3>2, <3>3 DEF Local
  <2>2. CASE Error(p)
    <3>1. Frame(p) /\ proc'[p].nonce = 0 /\ proc'[p].step = <<"regenerate">>
      BY <1>1, <2>2, ContinueSets DEF Error
    <3>2. Stage(p)' \in QuietStages
      BY <3>1 DEF Stage, QuietStages
    <3>. QED  BY <3>1, <3>2, QuietLocal
  <2>. QED  BY <2>1, <2>2 DEF Posted
<1>6. ASSUME NEW q \in Slots PROVE Local(q)'
  <2>1. CASE q # p
    <3>1. \A m \in Notes : note'[m] = note[m] \/ (Stage(q) \in RoomStages => note'[m] = Wanted(q, m))
      BY <1>1, <1>3, AllWantTheSame
    <3>2. \A k \in Slots : last[k] <= last'[k]
      BY <1>1
    <3>. QED  BY <1>1, <1>5, <2>1, <3>1, <3>2, OthersRemote DEF Frame
  <2>. QED  BY <1>5, <2>1
<1>7. accepted' \in [Slots -> 0 .. MaxNonce] /\ \A k \in Slots : accepted'[k] <= last[k]
  BY <1>1, <1>2, <1>4 DEF SetupInv, NoncesAreFresh
<1>8. SetupTypes'
  <2>1. note' = [m \in Notes |-> note'[m]] /\ note'["owner"] \in SlotOrNobody
    BY <1>3 DEF SetupInv, SetupTypes, Notes, SlotOrNobody
  <2>. QED  BY <1>1, <1>5, <1>7, <2>1 DEF SetupInv, SetupTypes, Frame
<1>9. WritersApart'
  <2>1. \A f \in Files : proc'[p].step # <<"write", f>>
    BY <1>5 DEF Stage
  <2>. QED  BY <1>5, <2>1, NoNewWriter DEF SetupInv
<1>10. RecordedRunsCanResume'
  <2>. SUFFICES ASSUME row # Nobody
                PROVE  /\ \A f \in RunFiles : Whole(f)
                       /\ \A r \in Roles : file[r] = row[r]
                       /\ note'["owner"] = row["supervisor"] /\ note'["allow"] = row
    BY <1>1 DEF RecordedRunsCanResume, Whole
  <2>1. /\ \A f \in RunFiles : Whole(f)
        /\ \A r \in Roles : file[r] = row[r]
        /\ note["owner"] = row["supervisor"] /\ note["allow"] = row
    BY DEF SetupInv, RecordedRunsCanResume
  <2>2. Wanted(p, n) = IF n = "owner" THEN row["supervisor"] ELSE row
    BY <1>1, AllWantTheSame
  <2>. QED  BY <1>3, <2>1, <2>2 DEF Notes
<1>11. NoncesAreFresh'
  <2>1. \A k \in Slots : accepted'[k] <= last'[k]
    BY <1>1, <1>7
  <2>2. \A a, b \in Slots : a # b /\ proc'[a].nonce # 0 /\ Signer(a)' = Signer(b)'
                             => proc'[a].nonce # proc'[b].nonce
    BY <1>5 DEF Frame, SetupInv, NoncesAreFresh, Signer
  <2>. QED  BY <2>1, <2>2 DEF NoncesAreFresh
<1>. QED  BY <1>6, <1>8, <1>9, <1>10, <1>11 DEF SetupInv

LEMMA NotPostedKeeps ==
    ASSUME SetupInv, NEW p \in Slots, NEW n \in Notes, NotPosted(p, n)
    PROVE  SetupInv'
<1>1. /\ Stage(p) = "post" /\ Stage(p) \in RoomStages /\ ProcType
      /\ UNCHANGED <<file, remote, lock, row>> /\ lock' \in SlotOrNobody
  BY DEF NotPosted, Stage, SetupInv, SetupTypes, RoomStages, remote
<1>2. CASE NextNote(p, n)
  <2>1. /\ Frame(p) /\ proc'[p].cmd = proc[p].cmd /\ proc'[p].keys = proc[p].keys
        /\ proc'[p].nonce = 0 /\ Stage(p)' \in {"read", "verify"}
    BY <1>1, <1>2, NextNoteSets
  <2>2. Stage(p)' \in RoomStages /\ Stage(p)' \notin {"lock", "row"}
    BY <2>1 DEF RoomStages
  <2>. QED  BY <1>1, <2>1, <2>2, RoomWalk
<1>3. CASE Error(p)
  BY <1>1, <1>3, LeaveQuiet
<1>. QED  BY <1>2, <1>3 DEF NotPosted

LEMMA VerifyKeeps ==
    ASSUME SetupInv, NEW p \in Slots, Verify(p)
    PROVE  SetupInv'
<1>1. /\ Stage(p) = "verify" /\ Stage(p) \in RoomStages /\ ProcType
      /\ UNCHANGED <<file, remote, lock, row>> /\ lock' \in SlotOrNobody
  BY DEF Verify, Stage, SetupInv, SetupTypes, RoomStages
<1>2. CASE (\A n \in Notes : note[n] = Wanted(p, n)) /\ Go(p, <<"lock">>)
  <2>1. /\ Frame(p) /\ proc'[p].cmd = proc[p].cmd /\ proc'[p].keys = proc[p].keys
        /\ proc'[p].nonce = 0 /\ proc'[p].step = <<"lock">>
    BY <1>1, <1>2, GoSets, NoNonce
  <2>2. Stage(p)' = "lock" /\ Stage(p)' \in RoomStages
    BY <2>1 DEF RoomStages, Stage
  <2>. QED  BY <1>1, <1>2, <2>1, <2>2, RoomWalk
<1>3. CASE Error(p)
  BY <1>1, <1>3, LeaveQuiet
<1>. QED  BY <1>2, <1>3 DEF Verify

LEMMA LockKeeps ==
    ASSUME SetupInv, NEW p \in Slots, TakeLock(p)
    PROVE  SetupInv'
<1>1. /\ Stage(p) = "lock" /\ Stage(p) \in RoomStages /\ ProcType
      /\ UNCHANGED <<file, remote, row>> /\ lock' \in SlotOrNobody
  BY DEF TakeLock, Stage, SetupInv, SetupTypes, RoomStages, SlotOrNobody
<1>2. CASE Go(p, <<"row">>)
  <2>1. /\ Frame(p) /\ proc'[p].cmd = proc[p].cmd /\ proc'[p].keys = proc[p].keys
        /\ proc'[p].nonce = 0 /\ proc'[p].step = <<"row">>
    BY <1>1, <1>2, GoSets, NoNonce
  <2>2. Stage(p)' = "row" /\ Stage(p)' \in RoomStages
    BY <2>1 DEF RoomStages, Stage
  <2>3. proc[p].cmd \in {"run", "resume"} => \A n \in Notes : note[n] = Wanted(p, n)
    BY <1>1 DEF SetupInv, Local, VerifiedFacts
  <2>. QED  BY <1>1, <2>1, <2>2, <2>3, RoomWalk
<1>3. CASE Leave(p) \/ Error(p)
  BY <1>1, <1>3, LeaveQuiet
<1>. QED  BY <1>2, <1>3 DEF TakeLock

LEMMA CreateKeeps ==
    ASSUME SetupInv, NEW p \in Slots, CreateRow(p)
    PROVE  SetupInv'
<1>1. /\ Stage(p) = "row" /\ Stage(p) \in RoomStages /\ ProcType /\ proc[p].cmd = "run" /\ Local(p)
      /\ UNCHANGED <<file, remote>> /\ lock' \in SlotOrNobody
  BY DEF CreateRow, Stage, SetupInv, SetupTypes, RoomStages, SlotOrNobody
<1>2. CASE row' = proc[p].keys /\ Go(p, <<"work">>)
  <2>1. Frame(p) /\ proc'[p].nonce = 0 /\ proc'[p].step = <<"work">>
    BY <1>1, <1>2, GoSets, NoNonce
  <2>2. Local(p)' /\ Stage(p)' # "write"
    <3>1. Stage(p)' \in QuietStages
      BY <2>1 DEF Stage, QuietStages
    <3>. QED  BY <2>1, <3>1, QuietLocal
  <2>3. \A q \in Slots : Local(q)'
    BY <1>1, <2>1, <2>2, OthersLocal DEF Frame
  <2>4. /\ row' = [r \in Roles |-> file[r]] /\ row' \in [Roles -> Slots]
        /\ \A f \in RunFiles : Whole(f)
        /\ note["owner"] = Wanted(p, "owner") /\ note["allow"] = Wanted(p, "allow")
    <3>1. \A f \in RunFiles : Whole(f)
      BY <1>1 DEF Local, MadeFacts, Keyed, RunFiles
    <3>2. \A n \in Notes : note[n] = Wanted(p, n)
      BY <1>1 DEF Local, VerifiedFacts
    <3>3. row' = [r \in Roles |-> file[r]] /\ row' \in [Roles -> Slots]
      BY <1>1, <1>2, KeysInHand
    <3>. QED  BY <3>1, <3>2, <3>3 DEF Notes
  <2>5. SetupTypes'
    BY <1>1, <2>1, <2>4 DEF SetupInv, SetupTypes, Frame, remote
  <2>6. WritersApart'
    <3>1. \A f \in Files : proc'[p].step # <<"write", f>>
      BY <2>2 DEF Stage
    <3>. QED  BY <2>1, <3>1, NoNewWriter DEF SetupInv
  <2>7. RecordedRunsCanResume'
    <3>1. Wanted(p, "owner") = row'["supervisor"] /\ Wanted(p, "allow") = row'
      BY <1>2 DEF Wanted
    <3>2. \A r \in Roles : file'[r] = row'[r]
      BY <1>1, <2>4
    <3>3. \A f \in RunFiles : Whole(f)'
      BY <1>1, <2>4 DEF Whole
    <3>. QED  BY <1>1, <2>4, <3>1, <3>2, <3>3 DEF RecordedRunsCanResume, remote
  <2>8. NoncesAreFresh'
    BY <1>1, <2>1 DEF SetupInv, NoncesAreFresh, Frame, Signer, remote
  <2>. QED  BY <2>3, <2>5, <2>6, <2>7, <2>8 DEF SetupInv
<1>3. CASE Error(p) /\ UNCHANGED row
  BY <1>1, <1>3, LeaveQuiet
<1>. QED  BY <1>2, <1>3 DEF CreateRow

LEMMA MatchKeeps ==
    ASSUME SetupInv, NEW p \in Slots, MatchRow(p)
    PROVE  SetupInv'
<1>1. /\ Stage(p) = "row" /\ ProcType
      /\ UNCHANGED <<file, remote, row>> /\ lock' \in SlotOrNobody
  BY DEF MatchRow, Stage, SetupInv, SetupTypes, SlotOrNobody
<1>2. CASE Go(p, <<"work">>)
  <2>1. Frame(p) /\ proc'[p].nonce = 0 /\ proc'[p].step = <<"work">>
    BY <1>1, <1>2, GoSets, NoNonce
  <2>2. Stage(p)' \in QuietStages
    BY <2>1 DEF Stage, QuietStages
  <2>. QED  BY <1>1, <2>1, <2>2, QuietKeeps DEF Quiet
<1>3. CASE Error(p)
  BY <1>1, <1>3, LeaveQuiet
<1>. QED  BY <1>2, <1>3 DEF MatchRow

(***************************************************************************)
(* The setup as a whole                                                    *)
(***************************************************************************)

LEMMA OneWord ==
    ASSUME NEW p, NEW stage, proc[p].step = <<stage>>
    PROVE  Stage(p) = stage
BY DEF Stage

LEMMA OneWordNext ==
    ASSUME NEW p, NEW stage, proc'[p].step = <<stage>>
    PROVE  Stage(p)' = stage
BY DEF Stage

LEMMA GoQuiet ==
    ASSUME SetupInv, NEW p \in Slots, NEW next, next[1] \in QuietStages,
           (Go(p, next) /\ Stage(p) # "post") \/ Continue(p, next),
           UNCHANGED <<file, remote, row>>, lock' \in SlotOrNobody
    PROVE  SetupInv'
<1>1. Frame(p) /\ proc'[p].nonce = 0 /\ proc'[p].step = next
  BY GoSets, ContinueSets, NoNonce DEF SetupInv, SetupTypes
<1>2. Stage(p)' \in QuietStages
  BY <1>1 DEF Stage
<1>. QED  BY <1>1, <1>2, QuietKeeps DEF Quiet

LEMMA SetupStutters ==
    ASSUME SetupInv, UNCHANGED setupVars
    PROVE  SetupInv'
<1>1. UNCHANGED <<proc, file, note, accepted, last, lock, row>> /\ UNCHANGED remote
  BY DEF setupVars, remote
<1>2. SetupTypes'
  BY <1>1 DEF SetupInv, SetupTypes, ProcType
<1>3. \A q \in Slots : Local(q)'
  BY <1>1, OthersLocal
<1>4. WritersApart' /\ NoncesAreFresh' /\ RecordedRunsCanResume'
  BY <1>1 DEF SetupInv, WritersApart, NoncesAreFresh, Signer, RecordedRunsCanResume, Whole
<1>. QED  BY <1>2, <1>3, <1>4 DEF SetupInv

LEMMA SetupStepKeeps ==
    ASSUME SetupInv, NEW p \in Slots, SetupStep(p)
    PROVE  SetupInv'
BY StartKeeps, FaultKeeps, EnsureKeeps, OpenKeeps, WriteKeeps, LoadKeeps, ReadKeeps, SignKeeps,
   PostedKeeps, NotPostedKeeps, VerifyKeeps, LockKeeps, CreateKeeps, MatchKeeps
   DEF SetupStep

LEMMA SetupInits ==
    ASSUME Init
    PROVE  SetupInv
<1>1. /\ proc = [p \in Slots |-> Idle]
      /\ file = [f \in Files |-> Nobody]
      /\ note = [n \in Notes |-> Nobody]
      /\ accepted = [k \in Slots |-> 0] /\ last = [k \in Slots |-> 0]
      /\ lock = Nobody /\ row = Nobody
  BY DEF Init, SetupInit
<1>2. \A p \in Slots : proc[p] = [cmd |-> "none", step |-> <<"idle">>, keys |-> Unloaded, nonce |-> 0]
  BY <1>1, IdleParts
<1>3. \A p \in Slots : Stage(p) = "idle" /\ proc[p].nonce = 0 /\ proc[p].cmd = "none"
  BY <1>2 DEF Stage
<1>4. SetupTypes
  <2>1. ProcType
    BY <1>1, <1>2, IdleParts DEF ProcType
  <2>. QED  BY <1>1, <2>1 DEF SetupTypes, SlotOrNobody, Notes
<1>5. ASSUME NEW p \in Slots PROVE Local(p)
  <2>1. ~Keyed(p) /\ \A f : ~Making(p, f)
    BY <1>3 DEF Keyed, Making, RoomStages
  <2>. QED  BY <1>3, <2>1 DEF Local, PathFacts, MadeFacts, KeyFacts, WriteFacts, VerifiedFacts, NonceFacts,
                 RoomStages, Stage
<1>6. WritersApart
  BY <1>3 DEF WritersApart, Stage
<1>7. RecordedRunsCanResume /\ NoncesAreFresh
  BY <1>1, <1>3 DEF RecordedRunsCanResume, NoncesAreFresh
<1>. QED  BY <1>4, <1>5, <1>6, <1>7 DEF SetupInv

LEMMA SetupSteps ==
    ASSUME SetupInv, [Next]_vars
    PROVE  SetupInv'
<1>1. CASE UNCHANGED vars
  BY <1>1, SetupStutters DEF vars
<1>2. ASSUME NEW p \in Slots, Step(p) PROVE SetupInv'
  <2>0. lock \in SlotOrNobody /\ Nobody \in SlotOrNobody
    BY DEF SetupInv, SetupTypes, SlotOrNobody
  <2>1. CASE SetupStep(p)
    BY <2>1, SetupStepKeeps
  <2>2. CASE Edit(p) \/ Commit(p) \/ Observe(p) \/ Accept(p) \/ Review(p) \/ Stop(p)
    BY <2>2, SetupStutters DEF Edit, Commit, Observe, Accept, Review, Stop
  <2>3. CASE LeaveWork(p)
    <3>1. /\ Continue(p, <<"generate", "export">>) \/ Continue(p, <<"regenerate">>)
          /\ UNCHANGED <<file, remote, row>> /\ lock' \in SlotOrNobody
      BY <2>0, <2>3 DEF LeaveWork, Unlock, Error
    <3>2. <<"generate", "export">>[1] \in QuietStages /\ <<"regenerate">>[1] \in QuietStages
      BY DEF QuietStages
    <3>. QED  BY <3>1, <3>2, GoQuiet
  <2>4. CASE Regenerate(p)
    <3>0. UNCHANGED <<file, remote, lock, row>> /\ Stage(p) # "post"
      BY <2>4 DEF Regenerate, Stage
    <3>1. CASE Leave(p)
      BY <2>0, <3>0, <3>1, LeaveQuiet
    <3>2. CASE Go(p, <<"generate", IF Terminal THEN "export" ELSE "over">>)
      <4>1. PICK next : next = <<"generate", IF Terminal THEN "export" ELSE "over">>
        OBVIOUS
      <4>2. next[1] \in QuietStages
        BY <4>1 DEF QuietStages
      <4>. QED  BY <2>0, <3>0, <3>2, <4>1, <4>2, GoQuiet
    <3>. QED  BY <2>4, <3>1, <3>2 DEF Regenerate
  <2>5. CASE StartCommand(p)
    BY <2>5, StartKeeps
  <2>6. CASE CancelRun(p)
    <3>1. Continue(p, <<"generate", "over">>) /\ UNCHANGED <<file, remote, row>> /\ lock' \in SlotOrNobody
      BY <2>0, <2>6 DEF CancelRun
    <3>2. <<"generate", "over">>[1] \in QuietStages
      BY DEF QuietStages
    <3>. QED  BY <3>1, <3>2, GoQuiet
  <2>7. CASE Clean(p)
    BY <2>0, <2>7, LeaveQuiet DEF Clean
  <2>8. CASE LockGeneration(p)
    <3>0. UNCHANGED <<file, remote, lock, row>> /\ Stage(p) # "post"
      BY <2>8 DEF LockGeneration, Stage, elsewhere
    <3>1. CASE Leave(p)
      BY <2>0, <3>0, <3>1, LeaveQuiet
    <3>2. CASE Go(p, <<"snapshot", proc[p].step[2]>>)
      <4>1. <<"snapshot", proc[p].step[2]>>[1] \in QuietStages
        BY DEF QuietStages
      <4>. QED  BY <2>0, <3>0, <3>2, <4>1, GoQuiet
    <3>. QED  BY <2>8, <3>1, <3>2 DEF LockGeneration
  <2>9. CASE Snapshot(p)
    <3>0. UNCHANGED <<file, remote, lock, row>> /\ Stage(p) # "post"
      BY <2>9 DEF Snapshot, Stage, elsewhere
    <3>1. CASE Leave(p)
      BY <2>0, <3>0, <3>1, LeaveQuiet
    <3>2. CASE Go(p, <<"replace", proc[p].step[2], 1>>)
      <4>1. <<"replace", proc[p].step[2], 1>>[1] \in QuietStages
        BY DEF QuietStages
      <4>. QED  BY <2>0, <3>0, <3>2, <4>1, GoQuiet
    <3>. QED  BY <2>9, <3>1, <3>2 DEF Snapshot
  <2>10. CASE Replace(p)
    <3>0. UNCHANGED <<file, remote, lock, row>> /\ Stage(p) # "post"
      BY <2>10 DEF Replace, Stage, elsewhere
    <3>1. CASE Leave(p)
      BY <2>0, <3>0, <3>1, LeaveQuiet
    <3>2. CASE Go(p, <<"replace", proc[p].step[2], proc[p].step[3] + 1>>)
      <4>1. <<"replace", proc[p].step[2], proc[p].step[3] + 1>>[1] \in QuietStages
        BY DEF QuietStages
      <4>. QED  BY <2>0, <3>0, <3>2, <4>1, GoQuiet
    <3>3. CASE Go(p, <<"export">>)
      <4>1. <<"export">>[1] \in QuietStages
        BY DEF QuietStages
      <4>. QED  BY <2>0, <3>0, <3>3, <4>1, GoQuiet
    <3>. QED  BY <2>10, <3>1, <3>2, <3>3 DEF Replace, Finish
  <2>11. CASE BeginExport(p) \/ ExportCode(p) \/ CopyCode(p) \/ CopyReports(p) \/ Publish(p)
    <3>0. UNCHANGED <<file, remote, lock, row>> /\ Stage(p) # "post"
      <4>1. UNCHANGED exportUnchanged
        BY <2>11 DEF BeginExport, ExportCode, CopyCode, CopyReports, Publish
      <4>2. Stage(p) # "post"
        <5>1. \/ proc[p].step = <<"export">> \/ proc[p].step = <<"code">> \/ proc[p].step = <<"copy code">>
              \/ proc[p].step = <<"copy reports">> \/ proc[p].step = <<"rename">>
          BY <2>11 DEF BeginExport, ExportCode, CopyCode, CopyReports, Publish
        <5>. QED  BY <5>1, OneWord
      <4>. QED  BY <4>1, <4>2 DEF elsewhere, exportUnchanged
    <3>1. CASE Leave(p)
      BY <2>0, <3>0, <3>1, LeaveQuiet
    <3>2. ASSUME NEW stage \in {"code", "copy code", "copy reports", "rename"}, Go(p, <<stage>>)
          PROVE  SetupInv'
      <4>1. <<stage>>[1] \in QuietStages
        BY DEF QuietStages
      <4>. QED  BY <2>0, <3>0, <3>2, <4>1, GoQuiet
    <3>. QED  BY <2>11, <3>1, <3>2 DEF BeginExport, ExportCode, CopyCode, CopyReports, Publish, Finish
  <2>12. CASE Crash(p)
    <3>1. Leave(p) /\ UNCHANGED <<file, remote, row>> /\ lock' \in SlotOrNobody
      BY <2>0, <2>12 DEF Crash, Unlock, Finish
    <3>. QED  BY <3>1, LeaveQuiet
  <2>. QED  BY <1>2, <2>1, <2>2, <2>3, <2>4, <2>5, <2>6, <2>7, <2>8, <2>9, <2>10, <2>11, <2>12 DEF Step
<1>. QED  BY <1>1, <1>2 DEF Next

\* Every command's progress agrees with the files, notes, nonces and row that there are.
THEOREM SetupHolds == Spec => []SetupInv
<1>. QED  BY SetupInits, SetupSteps, PTL DEF Spec

\* However many commands race for one run, fail or die, what a recorded run needs is there.
THEOREM RecordedRunsHold == Spec => []RecordedRunsCanResume
<1>1. SetupInv => RecordedRunsCanResume
  BY DEF SetupInv
<1>. QED  BY <1>1, SetupHolds, PTL

\* Whatever the clock does, and whichever command dies, no nonce is used again.
THEOREM NoncesHold == Spec => []NoncesAreFresh
<1>1. SetupInv => NoncesAreFresh
  BY DEF SetupInv
<1>. QED  BY <1>1, SetupHolds, PTL

(***************************************************************************)
(* Steps apart from the reports and the output                             *)
(***************************************************************************)

Busy == Exporting \cup {"snapshot", "replace", "export"}

\* A process that is not at a report or a folder, and does not come to one.
Apart(p) == Frame(p) /\ Stage(p) \notin Exporting /\ Stage(p)' \notin Busy

LEMMA ApartLeave ==
    ASSUME SetupInv, NEW p \in Slots, Stage(p) \notin Exporting, Leave(p) \/ Error(p)
    PROVE  Apart(p)
<1>1. Frame(p) /\ (proc'[p].step = <<"idle">> \/ proc'[p].step = <<"regenerate">>)
  BY LeaveSets, ContinueSets DEF SetupInv, SetupTypes, Error
<1>2. CASE proc'[p].step = <<"idle">>
  <2>1. Stage(p)' = "idle"
    BY <1>2 DEF Stage
  <2>. QED  BY <1>1, <2>1 DEF Apart, Busy, Exporting
<1>3. CASE proc'[p].step = <<"regenerate">>
  <2>1. Stage(p)' = "regenerate"
    BY <1>3 DEF Stage
  <2>. QED  BY <1>1, <2>1 DEF Apart, Busy, Exporting
<1>. QED  BY <1>1, <1>2, <1>3

LEMMA ApartGo ==
    ASSUME SetupInv, NEW p \in Slots, NEW next, next[1] \notin Busy, Stage(p) \notin Exporting,
           Go(p, next) \/ Continue(p, next)
    PROVE  Apart(p)
<1>1. Frame(p) /\ proc'[p].step = next
  BY GoSets, ContinueSets DEF SetupInv, SetupTypes
<1>. QED  BY <1>1 DEF Apart, Stage

LEMMA ApartFiles ==
    ASSUME SetupInv, NEW p \in Slots, NEW f \in Files,
           Open(p, f) \/ Write(p, f) \/ (f \in Roles /\ Ensure(p, f))
    PROVE  Apart(p)
<1>1. /\ file \in [Files -> Slots \cup {Nobody, Part}]
      /\ <<"open", f>>[1] \notin Busy /\ <<"write", f>>[1] \notin Busy
  BY DEF SetupInv, SetupTypes, Busy, Exporting
<1>2. CASE Open(p, f)
  <2>1. Stage(p) \notin Exporting /\ (Go(p, <<"write", f>>) \/ Leave(p))
    BY <1>2 DEF Open, Stage, Exporting
  <2>. QED  BY <1>1, <2>1, ApartGo, ApartLeave
<1>3. ASSUME proc[p].step = <<"write", f>> \/ (f \in Roles /\ proc[p].step = <<"ensure", f>>), Done(p, f),
             file'[f] \in Slots, \A g \in Files : Whole(g) => file'[g] = file[g],
             Stage(p) \notin Exporting
      PROVE  Apart(p)
  <2>1. Frame(p) /\ Stage(p)' \in {"idle", "ensure", "open", "load", "read"}
    BY <1>3, DoneLocal
  <2>. QED  BY <1>3, <2>1 DEF Apart, Busy, Exporting
<1>4. CASE Write(p, f)
  <2>1. proc[p].step = <<"write", f>> /\ Done(p, f) /\ file' = [file EXCEPT ![f] = p]
    BY <1>4 DEF Write
  <2>2. file'[f] \in Slots /\ \A g \in Files : Whole(g) => file'[g] = file[g]
    BY <1>1, <2>1 DEF SetupInv, Local, WriteFacts, Whole
  <2>3. Stage(p) \notin Exporting
    BY <2>1 DEF Stage, Exporting
  <2>. QED  BY <1>3, <2>1, <2>2, <2>3
<1>5. CASE f \in Roles /\ Ensure(p, f)
  <2>1. proc[p].step = <<"ensure", f>> /\ UNCHANGED file
    BY <1>5 DEF Ensure
  <2>2. Stage(p) \notin Exporting
    BY <2>1 DEF Stage, Exporting
  <2>3. CASE Whole(f) /\ Done(p, f)
    BY <1>3, <1>5, <2>1, <2>2, <2>3 DEF Whole
  <2>. QED  BY <1>1, <1>5, <2>2, <2>3, ApartGo, ApartLeave DEF Ensure
<1>. QED  BY <1>2, <1>4, <1>5

LEMMA ApartStart ==
    ASSUME SetupInv, NEW p \in Slots, StartSetup(p) \/ StartCommand(p)
    PROVE  Apart(p)
<1>1. PICK c, first :
           /\ Start(p, c, first)
           /\ \/ first = <<"open", "repository">>
              \/ first = <<"ensure", "supervisor">>
              \/ \E r \in Roles : first = <<"open", r>>
              \/ first = <<"load">>
              \/ first = <<"generate", "export">> \/ first = <<"clean">>
  BY DEF StartSetup, StartCommand
<1>2. Frame(p) /\ proc'[p].step = first /\ proc[p].step = <<"idle">>
  BY <1>1, StartSets DEF SetupInv, SetupTypes
<1>3. Stage(p) \notin Exporting /\ Stage(p)' = first[1]
  BY <1>2 DEF Stage, Exporting
<1>4. first[1] \notin Busy
  <2>1. CASE first = <<"open", "repository">>
    BY <2>1 DEF Busy, Exporting
  <2>2. CASE first = <<"ensure", "supervisor">>
    BY <2>2 DEF Busy, Exporting
  <2>3. CASE \E r \in Roles : first = <<"open", r>>
    BY <2>3 DEF Busy, Exporting
  <2>4. CASE first = <<"load">>
    BY <2>4 DEF Busy, Exporting
  <2>5. CASE first = <<"generate", "export">>
    BY <2>5 DEF Busy, Exporting
  <2>6. CASE first = <<"clean">>
    BY <2>6 DEF Busy, Exporting
  <2>. QED  BY <1>1, <2>1, <2>2, <2>3, <2>4, <2>5, <2>6
<1>. QED  BY <1>2, <1>3, <1>4 DEF Apart

LEMMA ApartLoad ==
    ASSUME SetupInv, NEW p \in Slots, Load(p)
    PROVE  Apart(p)
<1>1. Stage(p) = "load" /\ Stage(p) \notin Exporting /\ proc[p].cmd \in {"run", "resume", "cancel"}
  <2>1. Stage(p) = "load" /\ Local(p)
    BY DEF Load, Stage, SetupInv
  <2>. QED  BY <2>1 DEF Local, PathFacts, Exporting
<1>2. CASE Leave(p)
  BY <1>1, <1>2, ApartLeave
<1>3. ASSUME NEW keys, NEW next, \A r \in Roles : Whole(r), keys = [r \in Roles |-> file[r]],
             \/ next = <<"open", "room">> \/ next = <<"read", "owner">> \/ next = <<"lock">>,
             proc' = [proc EXCEPT ![p].keys = keys, ![p].step = next]
      PROVE  Apart(p)
  <2>1. keys \in [Roles -> SlotOrNobody] /\ ProcType
    BY <1>3 DEF Whole, SlotOrNobody, SetupInv, SetupTypes
  <2>2. /\ Frame(p) /\ proc'[p].step = next /\ proc'[p].cmd = proc[p].cmd
        /\ proc'[p].nonce = proc[p].nonce /\ proc'[p].keys = keys
    <3>1. ProcType
      BY <2>1
    <3>2. proc' = [proc EXCEPT ![p].keys = keys, ![p].step = next]
      BY <1>3
    <3>. QED  BY <2>1, <3>1, <3>2, LoadSets, Zenon
  <2>3. next[1] \notin Busy
    <3>1. CASE next = <<"open", "room">>
      BY <3>1 DEF Busy, Exporting
    <3>2. CASE next = <<"read", "owner">>
      BY <3>2 DEF Busy, Exporting
    <3>3. CASE next = <<"lock">>
      BY <3>3 DEF Busy, Exporting
    <3>. QED  BY <1>3, <3>1, <3>2, <3>3
  <2>. QED  BY <1>1, <2>2, <2>3 DEF Apart, Stage
<1>. QED  BY <1>1, <1>2, <1>3 DEF Load

LEMMA ApartRoom ==
    ASSUME SetupInv, NEW p \in Slots, NEW n \in Notes,
           ReadNote(p, n) \/ Sign(p, n) \/ Posted(p, n) \/ NotPosted(p, n)
    PROVE  Apart(p)
<1>1. ProcType /\ Stage(p) \in {"read", "sign", "post"} /\ Stage(p) \notin Exporting
  <2>1. ProcType /\ Stage(p) \in {"read", "sign", "post"}
    BY DEF ReadNote, Sign, Posted, NotPosted, Stage, SetupInv, SetupTypes
  <2>. QED  BY <2>1 DEF Exporting
<1>2. CASE NextNote(p, n)
  <2>1. Frame(p) /\ Stage(p)' \in {"read", "verify"}
    BY <1>1, <1>2, NextNoteSets
  <2>. QED  BY <1>1, <2>1 DEF Apart, Busy, Exporting
<1>3. CASE Error(p)
  BY <1>1, <1>3, ApartLeave
<1>4. CASE Go(p, <<"sign", n>>)
  <2>1. <<"sign", n>>[1] \notin Busy
    BY DEF Busy, Exporting
  <2>. QED  BY <1>1, <1>4, <2>1, ApartGo
<1>5. ASSUME NEW clock \in 0 .. MaxClock, NEW next, next = Nonce(last[Signer(p)], clock), ~Exhausted(next),
             proc' = [proc EXCEPT ![p].nonce = next, ![p].step = <<"post", n>>], Sign(p, n)
      PROVE  Apart(p)
  <2>1. Signer(p) \in Slots
    BY <1>1, KeysInHand DEF RoomStages
  <2>2. next \in 0 .. MaxNonce
    <3>1. last[Signer(p)] \in Nat /\ clock \in Nat /\ MaxNonce \in Nat
      BY <2>1 DEF SetupInv, SetupTypes
    <3>2. next \in Nat
      BY <1>5, <3>1, NonceIsNew
    <3>. QED  BY <1>5, <3>1, <3>2 DEF Exhausted
  <2>3. PICK to : to = <<"post", n>>
    OBVIOUS
  <2>4. /\ Frame(p) /\ proc'[p].step = to /\ proc'[p].cmd = proc[p].cmd
        /\ proc'[p].nonce = next /\ proc'[p].keys = proc[p].keys
    <3>1. proc' = [proc EXCEPT ![p].nonce = next, ![p].step = to]
      BY <1>5, <2>3
    <3>. QED  BY <1>1, <2>2, <3>1, NonceSets, Zenon
  <2>5. Stage(p)' = "post"
    BY <2>3, <2>4 DEF Stage
  <2>. QED  BY <1>1, <2>4, <2>5 DEF Apart, Busy, Exporting
<1>6. CASE Sign(p, n)
  <2>1. PICK clock \in 0 .. MaxClock :
           \/ /\ ~Exhausted(Nonce(last[Signer(p)], clock))
              /\ proc' = [proc EXCEPT ![p].nonce = Nonce(last[Signer(p)], clock), ![p].step = <<"post", n>>]
           \/ Error(p)
    BY <1>6 DEF Sign
  <2>. QED  BY <1>3, <1>5, <1>6, <2>1
<1>. QED  BY <1>2, <1>3, <1>4, <1>6 DEF ReadNote, Posted, NotPosted

LEMMA ApartSteps ==
    ASSUME SetupInv, NEW p \in Slots,
           \/ SetupStep(p) \/ StartCommand(p) \/ LeaveWork(p) \/ Regenerate(p) \/ CancelRun(p) \/ Clean(p)
    PROVE  Apart(p)
<1>1. CASE SetupFault(p)
  <2>1. Stage(p) \notin Exporting /\ (Leave(p) \/ Error(p))
    BY <1>1 DEF SetupFault, Stage, Exporting
  <2>. QED  BY <2>1, ApartLeave
<1>2. CASE Verify(p) \/ TakeLock(p) \/ CreateRow(p) \/ MatchRow(p)
  <2>1. /\ Stage(p) \in {"verify", "lock", "row"}
        /\ Leave(p) \/ Error(p) \/ Go(p, <<"lock">>) \/ Go(p, <<"row">>) \/ Go(p, <<"work">>)
    BY <1>2 DEF Verify, TakeLock, CreateRow, MatchRow, Stage
  <2>2. /\ Stage(p) \notin Exporting
        /\ <<"lock">>[1] \notin Busy /\ <<"row">>[1] \notin Busy /\ <<"work">>[1] \notin Busy
    BY <2>1 DEF Busy, Exporting
  <2>. QED  BY <2>1, <2>2, ApartGo, ApartLeave
<1>3. CASE SetupStep(p)
  <2>1. \A r \in Roles : r \in Files
    BY DEF Files
  <2>. QED  BY <1>1, <1>2, <1>3, <2>1, ApartFiles, ApartStart, ApartLoad, ApartRoom DEF SetupStep
<1>4. CASE LeaveWork(p) \/ CancelRun(p)
  <2>1. /\ Stage(p) \notin Exporting
        /\ Error(p) \/ Continue(p, <<"generate", "export">>) \/ Continue(p, <<"generate", "over">>)
    <3>1. CASE LeaveWork(p)
      BY <3>1 DEF LeaveWork, Stage, Exporting
    <3>2. CASE CancelRun(p)
      BY <3>2 DEF CancelRun, Stage, Exporting
    <3>. QED  BY <1>4, <3>1, <3>2
  <2>2. <<"generate", "export">>[1] \notin Busy /\ <<"generate", "over">>[1] \notin Busy
    BY DEF Busy, Exporting
  <2>. QED  BY <2>1, <2>2, ApartGo, ApartLeave
<1>5. CASE Regenerate(p) \/ Clean(p)
  <2>1. PICK goal : goal = IF Terminal THEN "export" ELSE "over"
    OBVIOUS
  <2>2. Stage(p) \notin Exporting /\ (Leave(p) \/ Go(p, <<"generate", goal>>))
    <3>1. CASE Regenerate(p)
      BY <2>1, <3>1 DEF Regenerate, Stage, Exporting
    <3>2. CASE Clean(p)
      BY <3>2 DEF Clean, Stage, Exporting
    <3>. QED  BY <1>5, <3>1, <3>2
  <2>3. <<"generate", goal>>[1] \notin Busy
    BY DEF Busy, Exporting
  <2>. QED  BY <2>2, <2>3, ApartGo, ApartLeave
<1>. QED  BY <1>3, <1>4, <1>5, ApartStart

(***************************************************************************)
(* The run and its reports                                                 *)
(***************************************************************************)

LEMMA ReportFileNames ==
    /\ Len(ReportFiles) = 3 /\ DOMAIN ReportFiles = 1 .. 3
    /\ ReportFiles[1] = "events.jsonl" /\ ReportFiles[2] = "report.md" /\ ReportFiles[3] = "run.json"
    /\ Range(ReportFiles) = ReportNames
BY DEF ReportFiles, ReportNames, Range

LEMMA BlankTypes == Blank \in Report /\ Empty \in Folder
BY DEF Blank, Report, Empty, Folder, Copies, Stopped

LEMMA EmptyFolders ==
    ASSUME NEW p \in Slots
    PROVE  /\ folder[p] = Empty => TrueCode(folder[p])
           /\ folder'[p] = Empty => TrueCode(folder[p])'
BY DEF TrueCode, Empty, Blank

\* What was true of the run stays true of it, and a completed run keeps its candidate.
RunMoved ==
    /\ \A report \in Report :
          TrueOfRun(report) =>
             /\ report.candidate <= candidate'
             /\ report.outcome # "active" => state' = report.outcome /\ report.candidate = candidate'
    /\ tree.removed => tree'.removed
    /\ candidate' = candidate \/ state # "completed"

LEMMA SameRun ==
    ASSUME UNCHANGED runVars
    PROVE  RunMoved /\ (TreeFacts => TreeFacts')
BY DEF runVars, RunMoved, TrueOfRun, TreeFacts

LEMMA OthersReport ==
    ASSUME ReportInv, NEW q \in Slots, proc'[q] = proc[q], draft'[q] = draft[q], folder'[q] = folder[q],
           RunMoved,
           Stage(q) \in {"snapshot", "replace"} => UNCHANGED <<genLock, generations, reports>>,
           \/ reports'["run.json"] = reports["run.json"]
           \/ reports["run.json"].id < reports'["run.json"].id,
           reports' \in [ReportNames -> Report]
    PROVE  GenerationFacts(q)' /\ FolderFacts(q)'
<1>1. /\ GenerationFacts(q) /\ FolderFacts(q) /\ Stage(q)' = Stage(q)
      /\ draft[q] \in Report /\ folder[q].payload \in Report
      /\ reports["run.json"] \in Report /\ reports'["run.json"] \in Report
  <2>1. draft[q] \in Report /\ folder[q] \in Folder /\ reports["run.json"] \in Report
    BY DEF ReportInv, RunTypes, ReportNames
  <2>. QED  BY <2>1 DEF ReportInv, Stage, Folder, ReportNames
<1>2. GenerationFacts(q)'
  <2>. SUFFICES ASSUME Stage(q) \in {"snapshot", "replace"}
                PROVE  GenerationFacts(q)'
    BY <1>1 DEF GenerationFacts
  <2>1. UNCHANGED <<genLock, generations, reports>>
    OBVIOUS
  <2>2. TrueOfRun(draft[q]) => TrueOfRun(draft[q])'
    BY <1>1 DEF RunMoved, TrueOfRun
  <2>. QED  BY <1>1, <2>1, <2>2 DEF GenerationFacts, OlderOrSame
<1>3. TrueOfRun(folder[q].payload)'
  BY <1>1 DEF RunMoved, TrueOfRun, FolderFacts
<1>4. TrueCode(folder[q])' /\ (ExportedCode(folder[q]) => ExportedCode(folder[q])')
  <2>1. TrueCode(folder[q]) /\ TrueOfRun(folder[q].payload)
    BY <1>1 DEF FolderFacts
  <2>2. folder[q].payload.outcome = "completed" => state = "completed"
    BY <2>1 DEF TrueOfRun
  <2>. QED  BY <2>1, <2>2 DEF TrueCode, ExportedCode, RunMoved
<1>5. /\ Stage(q) \in {"export"} => draft[q].id <= reports'["run.json"].id
      /\ Stage(q) \in {"code", "copy code", "copy reports"} =>
            /\ draft[q].id <= folder[q].payload.id
            /\ folder[q].payload.id < reports'["run.json"].id \/ folder[q].payload = reports'["run.json"]
  <2>1. /\ draft[q].id \in Nat /\ folder[q].payload.id \in Nat
        /\ reports["run.json"].id \in Nat /\ reports'["run.json"].id \in Nat
    BY <1>1 DEF Report
  <2>2. /\ Stage(q) \in {"export"} => draft[q].id <= reports["run.json"].id
        /\ Stage(q) \in {"code", "copy code", "copy reports"} =>
              /\ draft[q].id <= folder[q].payload.id
              /\ folder[q].payload.id < reports["run.json"].id \/ folder[q].payload = reports["run.json"]
    BY <1>1 DEF FolderFacts
  <2>3. CASE reports'["run.json"] = reports["run.json"]
    BY <2>2, <2>3
  <2>4. CASE reports["run.json"].id < reports'["run.json"].id
    <3>1. CASE Stage(q) = "export"
      BY <2>1, <2>2, <2>4, <3>1
    <3>2. CASE Stage(q) \in {"code", "copy code", "copy reports"}
      <4>1. /\ draft[q].id <= folder[q].payload.id
            /\ folder[q].payload.id < reports["run.json"].id \/ folder[q].payload.id = reports["run.json"].id
        BY <2>2, <3>2, Zenon
      <4>2. folder[q].payload.id < reports'["run.json"].id
        BY <2>1, <2>4, <4>1
      <4>. QED  BY <3>2, <4>1, <4>2, Zenon
    <3>. QED  BY <3>1, <3>2
  <2>. QED  BY <2>3, <2>4
<1>6. FolderFacts(q)'
  BY <1>1, <1>3, <1>4, <1>5 DEF FolderFacts
<1>. QED  BY <1>2, <1>6

\* The run moves, or a process apart from reports and folders does.
LEMMA MovesKeep ==
    ASSUME ReportInv, UNCHANGED reporting, RunMoved, RunTypes', TreeFacts',
           \A q \in Slots : proc'[q] = proc[q] \/ (Stage(q) \notin Exporting /\ Stage(q)' \notin Busy)
    PROVE  ReportInv'
<1>1. /\ UNCHANGED <<genLock, generations, draft, reports, folder, output>>
      /\ reports \in [ReportNames -> Report] /\ output.payload \in Report
  BY DEF reporting, outVars, ReportInv, RunTypes, Folder
<1>2. ReportsTrue'
  BY <1>1 DEF ReportInv, ReportsTrue, RunMoved, TrueOfRun, ReportFilesInOrder
<1>3. ASSUME NEW q \in Slots PROVE GenerationFacts(q)' /\ FolderFacts(q)'
  <2>1. CASE proc'[q] = proc[q]
    BY <1>1, <2>1, OthersReport
  <2>2. CASE Stage(q) \notin Exporting /\ Stage(q)' \notin Busy
    <3>1. folder'[q] = Empty /\ TrueOfRun(folder[q].payload)
      BY <1>1, <2>2 DEF ReportInv, FolderFacts
    <3>2. TrueOfRun(folder[q].payload)'
      <4>1. folder[q].payload \in Report
        BY DEF ReportInv, RunTypes, Folder
      <4>. QED  BY <1>1, <3>1, <4>1 DEF RunMoved, TrueOfRun
    <3>. QED  BY <2>2, <3>1, <3>2, EmptyFolders DEF GenerationFacts, FolderFacts, Busy, Exporting
  <2>. QED  BY <2>1, <2>2
<1>4. OutputIsOneReport'
  BY <1>1 DEF ReportInv, OutputIsOneReport
<1>5. OnlyTheCandidateIsExported'
  <2>1. output.payload.outcome = "completed" => state = "completed"
    BY DEF ReportInv, ReportsTrue, TrueOfRun
  <2>. QED  BY <1>1, <2>1 DEF ReportInv, OnlyTheCandidateIsExported, RunMoved
<1>. QED  BY <1>2, <1>3, <1>4, <1>5 DEF ReportInv

LEMMA ApartKeeps ==
    ASSUME ReportInv, NEW p \in Slots, Apart(p), UNCHANGED <<runVars, reporting>>
    PROVE  ReportInv'
<1>1. RunTypes' /\ TreeFacts' /\ RunMoved
  BY SameRun DEF ReportInv, RunTypes, runVars, reporting, outVars
<1>2. \A q \in Slots : proc'[q] = proc[q] \/ (Stage(q) \notin Exporting /\ Stage(q)' \notin Busy)
  BY DEF Apart, Frame
<1>. QED  BY <1>1, <1>2, MovesKeep

\* While the run has not ended, no report says that it has.
LEMMA NotEnded ==
    ASSUME ReportInv, ~Terminal, NEW report \in Report, TrueOfRun(report)
    PROVE  report.outcome = "active"
BY DEF Terminal, TrueOfRun, Report

LEMMA RunKeeps ==
    ASSUME ReportInv, NEW p \in Slots,
           Edit(p) \/ Commit(p) \/ Observe(p) \/ Accept(p) \/ Review(p) \/ Stop(p)
    PROVE  ReportInv'
<1>1. /\ UNCHANGED reporting /\ UNCHANGED setupVars /\ ~Terminal
      /\ UNCHANGED <<genLock, generations, draft, reports, folder, output, proc>>
  BY DEF Edit, Commit, Observe, Accept, Review, Stop, Driving, Terminal, Stopped, reporting, outVars, setupVars
<1>2. /\ state \in {"implementing", "reviewing", "completed"} \cup Stopped
      /\ tree.head \in 0 .. MaxCandidates /\ tree.edited \in BOOLEAN /\ tree.removed \in BOOLEAN
      /\ candidate \in Nat /\ observed \in Nat /\ candidate <= observed /\ observed <= tree.head
      /\ tree.edited => tree.head < MaxCandidates
      /\ state = "reviewing" => candidate = tree.head /\ candidate # 0 /\ ~tree.edited
  BY DEF ReportInv, RunTypes, TreeFacts
<1>0. tree = [head |-> tree.head, edited |-> tree.edited, removed |-> tree.removed]
  BY DEF ReportInv, RunTypes
<1>3. /\ state' \in {"implementing", "reviewing", "completed"} \cup Stopped
      /\ tree'.head \in 0 .. MaxCandidates /\ tree'.edited \in BOOLEAN /\ tree'.removed = tree.removed
      /\ candidate' \in Nat /\ observed' \in Nat /\ candidate' <= observed' /\ observed' <= tree'.head
      /\ tree'.edited => tree'.head < MaxCandidates
      /\ state' \in {"reviewing", "completed"} => candidate' = tree'.head /\ candidate' # 0 /\ ~tree'.edited
      /\ candidate <= candidate'
  <2>1. CASE Edit(p)
    <3>1. tree' = [tree EXCEPT !.edited = TRUE] /\ state = "implementing" /\ tree.head < MaxCandidates
          /\ UNCHANGED <<state, observed, candidate>>
      BY <2>1 DEF Edit, Driving
    <3>2. tree' = [head |-> tree.head, edited |-> TRUE, removed |-> tree.removed]
      BY <1>0, <3>1
    <3>3. tree'.head = tree.head /\ tree'.edited = TRUE /\ tree'.removed = tree.removed
      BY <3>2
    <3>. QED  BY <1>2, <3>1, <3>3
  <2>2. CASE Commit(p)
    <3>1. tree' = [tree EXCEPT !.head = @ + 1, !.edited = FALSE] /\ state = "implementing" /\ tree.edited
          /\ UNCHANGED <<state, observed, candidate>>
      BY <2>2 DEF Commit, Driving
    <3>2. tree' = [head |-> tree.head + 1, edited |-> FALSE, removed |-> tree.removed]
      <4>1. tree' = [tree EXCEPT !.head = tree.head + 1, !.edited = FALSE]
        BY <3>1
      <4>. QED  BY <1>0, <4>1
    <3>3. tree'.head = tree.head + 1 /\ tree'.edited = FALSE /\ tree'.removed = tree.removed
      BY <3>2
    <3>. QED  BY <1>2, <3>1, <3>3
  <2>3. CASE Observe(p)
    BY <1>2, <2>3 DEF Observe, Driving
  <2>4. CASE Accept(p)
    BY <1>2, <2>4 DEF Accept, Driving
  <2>5. CASE Review(p)
    BY <1>2, <2>5 DEF Review, Driving
  <2>6. CASE Stop(p)
    BY <1>2, <2>6 DEF Stop, Terminal, Stopped
  <2>. QED  BY <2>1, <2>2, <2>3, <2>4, <2>5, <2>6
<1>4. RunTypes'
  <2>1. tree' \in [head : 0 .. MaxCandidates, edited : BOOLEAN, removed : BOOLEAN]
    <3>1. tree' = [head |-> tree'.head, edited |-> tree'.edited, removed |-> tree'.removed]
      BY <1>0 DEF Edit, Commit, Observe, Accept, Review, Stop
    <3>. QED  BY <1>2, <1>3, <3>1
  <2>. QED  BY <1>1, <1>3, <2>1 DEF ReportInv, RunTypes
<1>5. TreeFacts'
  BY <1>3 DEF TreeFacts
<1>6. RunMoved
  <2>1. ASSUME NEW report \in Report, TrueOfRun(report)
        PROVE  /\ report.candidate <= candidate'
               /\ report.outcome # "active" => state' = report.outcome /\ report.candidate = candidate'
    <3>1. report.outcome = "active" /\ report.candidate <= candidate /\ report.candidate \in Nat
      BY <1>1, <2>1, NotEnded DEF TrueOfRun, Report
    <3>. QED  BY <1>2, <1>3, <3>1
  <2>2. state # "completed"
    BY <1>1 DEF Terminal
  <2>. QED  BY <1>3, <2>1, <2>2 DEF RunMoved
<1>. QED  BY <1>1, <1>4, <1>5, <1>6, MovesKeep

LEMMA CancelKeeps ==
    ASSUME SetupInv, ReportInv, NEW p \in Slots, CancelRun(p)
    PROVE  ReportInv'
<1>1. /\ UNCHANGED reporting /\ UNCHANGED <<tree, observed, candidate>> /\ Apart(p)
      /\ state' = IF Terminal THEN state ELSE "canceled"
      /\ UNCHANGED <<genLock, generations, draft, reports, folder, output>>
  BY ApartSteps DEF CancelRun, reporting, outVars
<1>2. RunTypes'
  BY <1>1 DEF ReportInv, RunTypes, Stopped
<1>3. TreeFacts'
  BY <1>1 DEF ReportInv, TreeFacts
<1>4. RunMoved
  <2>1. CASE Terminal
    BY <1>1, <2>1 DEF RunMoved, TrueOfRun
  <2>2. CASE ~Terminal
    BY <1>1, <2>2, NotEnded DEF RunMoved, TrueOfRun
  <2>. QED  BY <2>1, <2>2
<1>5. \A q \in Slots : proc'[q] = proc[q] \/ (Stage(q) \notin Exporting /\ Stage(q)' \notin Busy)
  BY <1>1 DEF Apart, Frame
<1>. QED  BY <1>1, <1>2, <1>3, <1>4, <1>5, MovesKeep

LEMMA CleanKeeps ==
    ASSUME SetupInv, ReportInv, NEW p \in Slots, Clean(p)
    PROVE  ReportInv'
<1>1. /\ UNCHANGED reporting /\ UNCHANGED <<state, observed, candidate>> /\ Apart(p)
      /\ \E dirty \in BOOLEAN : tree' = [tree EXCEPT !.removed = @ \/ ~dirty]
      /\ UNCHANGED <<genLock, generations, draft, reports, folder, output>>
  BY ApartSteps DEF Clean, reporting, outVars
<1>2. tree \in [head : 0 .. MaxCandidates, edited : BOOLEAN, removed : BOOLEAN]
  BY DEF ReportInv, RunTypes
<1>3. /\ tree' \in [head : 0 .. MaxCandidates, edited : BOOLEAN, removed : BOOLEAN]
      /\ tree'.head = tree.head /\ tree'.edited = tree.edited /\ (tree.removed => tree'.removed)
  BY <1>1, <1>2
<1>4. RunTypes' /\ TreeFacts'
  BY <1>1, <1>3 DEF ReportInv, RunTypes, TreeFacts
<1>5. RunMoved
  BY <1>1, <1>3 DEF RunMoved, TrueOfRun
<1>6. \A q \in Slots : proc'[q] = proc[q] \/ (Stage(q) \notin Exporting /\ Stage(q)' \notin Busy)
  BY <1>1 DEF Apart, Frame
<1>. QED  BY <1>1, <1>4, <1>5, <1>6, MovesKeep

(***************************************************************************)
(* The generation of the reports and the export                            *)
(***************************************************************************)

\* A step of one command at its report or its folder.
LEMMA ReportWalk ==
    ASSUME ReportInv, NEW p \in Slots, Frame(p), UNCHANGED runVars,
           RunTypes', ReportsTrue', GenerationFacts(p)', FolderFacts(p)',
           OutputIsOneReport', OnlyTheCandidateIsExported',
           \A q \in Slots : q # p => draft'[q] = draft[q] /\ folder'[q] = folder[q],
           \A q \in Slots : q # p /\ Stage(q) \in {"snapshot", "replace"} =>
               UNCHANGED <<genLock, generations, reports>>,
           \/ reports'["run.json"] = reports["run.json"]
           \/ reports["run.json"].id < reports'["run.json"].id
    PROVE  ReportInv'
<1>1. RunMoved /\ TreeFacts'
  BY SameRun DEF ReportInv
<1>2. reports' \in [ReportNames -> Report]
  BY DEF RunTypes
<1>3. ASSUME NEW q \in Slots PROVE GenerationFacts(q)' /\ FolderFacts(q)'
  <2>1. CASE q = p
    BY <2>1
  <2>2. CASE q # p
    <3>1. proc'[q] = proc[q] /\ draft'[q] = draft[q] /\ folder'[q] = folder[q]
      BY <2>2 DEF Frame
    <3>2. Stage(q) \in {"snapshot", "replace"} => UNCHANGED <<genLock, generations, reports>>
      BY <2>2
    <3>. QED  BY <1>1, <1>2, <3>1, <3>2, OthersReport
  <2>. QED  BY <2>1, <2>2
<1>. QED  BY <1>1, <1>3 DEF ReportInv

\* A step that replaces no file of the report set and no output.
LEMMA FilesStay ==
    ASSUME ReportInv, UNCHANGED <<runVars, reports, output>>,
           generations' \in Nat, generations <= generations'
    PROVE  /\ ReportsTrue' /\ OutputIsOneReport' /\ OnlyTheCandidateIsExported'
           /\ reports'["run.json"] = reports["run.json"]
<1>1. UNCHANGED <<state, tree, observed, candidate>>
  BY DEF runVars
<1>2. \A f \in ReportNames : TrueOfRun(reports[f])' /\ reports'[f].id <= generations'
  <2>. SUFFICES ASSUME NEW f \in ReportNames
                PROVE  TrueOfRun(reports[f])' /\ reports'[f].id <= generations'
    OBVIOUS
  <2>1. TrueOfRun(reports[f]) /\ reports[f].id <= generations /\ reports[f] \in Report /\ generations \in Nat
    BY DEF ReportInv, ReportsTrue, RunTypes
  <2>2. reports[f].id \in Nat
    BY <2>1 DEF Report
  <2>3. reports[f].id <= generations'
    BY <2>1, <2>2
  <2>. QED  BY <1>1, <2>1, <2>3 DEF TrueOfRun
<1>3. ReportFilesInOrder' /\ TrueOfRun(output.payload)'
  BY <1>1 DEF ReportInv, ReportsTrue, ReportFilesInOrder, TrueOfRun
<1>. QED  BY <1>1, <1>2, <1>3 DEF ReportInv, ReportsTrue, OutputIsOneReport, OnlyTheCandidateIsExported

\* The command ends.
LEMMA FinishKeeps ==
    ASSUME SetupInv, ReportInv, NEW p \in Slots, Finish(p),
           UNCHANGED <<runVars, reports, output, generations>>, genLock' \in SlotOrNobody,
           genLock' = genLock \/ genLock = p
    PROVE  ReportInv'
<1>1. Frame(p) /\ Stage(p)' = "idle"
  <2>1. Frame(p) /\ proc'[p].step = <<"idle">>
    BY LeaveSets DEF Finish, SetupInv, SetupTypes
  <2>. QED  BY <2>1 DEF Stage
<1>2. /\ draft' \in [Slots -> Report] /\ folder' \in [Slots -> Folder] /\ folder'[p] = Empty
      /\ \A q \in Slots : q # p => draft'[q] = draft[q] /\ folder'[q] = folder[q]
  BY BlankTypes DEF Finish, ReportInv, RunTypes
<1>3. RunTypes'
  BY <1>2 DEF ReportInv, RunTypes, runVars
<1>4. GenerationFacts(p)' /\ FolderFacts(p)'
  <2>1. TrueOfRun(Empty.payload)'
    BY DEF TrueOfRun, Empty, Blank, ReportInv, TreeFacts, runVars
  <2>. QED  BY <1>1, <1>2, <2>1, EmptyFolders DEF GenerationFacts, FolderFacts, Exporting
<1>5. generations' \in Nat /\ generations <= generations'
  BY DEF ReportInv, RunTypes
<1>6. \A q \in Slots : q # p /\ Stage(q) \in {"snapshot", "replace"} => genLock = q
  BY DEF ReportInv, GenerationFacts
<1>. QED  BY <1>1, <1>2, <1>3, <1>4, <1>5, <1>6, FilesStay, ReportWalk

LEMMA LeaveReport ==
    ASSUME SetupInv, ReportInv, NEW p \in Slots, Leave(p), Stage(p) \notin Exporting,
           UNCHANGED <<runVars, reports, outVars, output, generations>>, genLock' \in SlotOrNobody,
           genLock' = genLock \/ genLock = p
    PROVE  ReportInv'
<1>1. Frame(p) /\ Stage(p)' = "idle"
  <2>1. Frame(p) /\ proc'[p].step = <<"idle">>
    BY LeaveSets DEF SetupInv, SetupTypes
  <2>. QED  BY <2>1 DEF Stage
<1>2. draft' = draft /\ folder' = folder /\ folder[p] = Empty
  BY DEF outVars, ReportInv, FolderFacts
<1>3. RunTypes'
  BY <1>2 DEF ReportInv, RunTypes, runVars
<1>4. GenerationFacts(p)' /\ FolderFacts(p)'
  <2>1. TrueOfRun(Empty.payload)'
    BY DEF TrueOfRun, Empty, Blank, ReportInv, TreeFacts, runVars
  <2>. QED  BY <1>1, <1>2, <2>1, EmptyFolders DEF GenerationFacts, FolderFacts, Exporting
<1>5. generations' \in Nat /\ generations <= generations'
  BY DEF ReportInv, RunTypes
<1>6. \A q \in Slots : q # p /\ Stage(q) \in {"snapshot", "replace"} => genLock = q
  BY DEF ReportInv, GenerationFacts
<1>. QED  BY <1>1, <1>2, <1>3, <1>4, <1>5, <1>6, FilesStay, ReportWalk

LEMMA LockGenerationKeeps ==
    ASSUME SetupInv, ReportInv, NEW p \in Slots, LockGeneration(p)
    PROVE  ReportInv'
<1>1. /\ Stage(p) = "generate" /\ Stage(p) \notin Exporting
      /\ UNCHANGED <<runVars, generations, reports, outVars, output>>
  BY DEF LockGeneration, elsewhere, Stage, Exporting
<1>2. genLock \in SlotOrNobody /\ generations \in Nat
  BY DEF ReportInv, RunTypes
<1>3. CASE genLock = Nobody /\ genLock' = p /\ Go(p, <<"snapshot", proc[p].step[2]>>)
  <2>1. Frame(p) /\ Stage(p)' = "snapshot"
    <3>1. Frame(p) /\ proc'[p].step = <<"snapshot", proc[p].step[2]>>
      BY <1>3, GoSets DEF SetupInv, SetupTypes
    <3>. QED  BY <3>1 DEF Stage
  <2>2. \A q \in Slots : Stage(q) \notin {"snapshot", "replace"}
    BY <1>3 DEF ReportInv, GenerationFacts
  <2>3. draft' = draft /\ folder' = folder /\ folder[p] = Empty /\ TrueOfRun(folder[p].payload)
    BY <1>1 DEF outVars, ReportInv, FolderFacts
  <2>4. RunTypes'
    BY <1>1, <1>3, <2>3 DEF ReportInv, RunTypes, runVars, SlotOrNobody
  <2>5. GenerationFacts(p)' /\ FolderFacts(p)'
    <3>1. TrueOfRun(folder[p].payload)'
      BY <1>1, <2>3 DEF TrueOfRun, runVars
    <3>. QED  BY <1>3, <2>1, <2>3, <3>1, EmptyFolders DEF GenerationFacts, FolderFacts, Exporting
  <2>. QED  BY <1>1, <1>2, <2>1, <2>2, <2>3, <2>4, <2>5, FilesStay, ReportWalk
<1>4. CASE Leave(p) /\ UNCHANGED genLock
  BY <1>1, <1>2, <1>4, LeaveReport
<1>. QED  BY <1>3, <1>4 DEF LockGeneration

LEMMA SnapshotKeeps ==
    ASSUME SetupInv, ReportInv, NEW p \in Slots, Snapshot(p)
    PROVE  ReportInv'
<1>1. /\ Stage(p) = "snapshot" /\ Stage(p) \notin Exporting
      /\ UNCHANGED <<runVars, reports, folder, output>>
      /\ UNCHANGED <<state, tree, observed, candidate>>
  BY DEF Snapshot, elsewhere, Stage, Exporting, runVars
<1>2. genLock = p /\ generations \in Nat /\ folder[p] = Empty /\ TrueOfRun(folder[p].payload)
  BY <1>1 DEF ReportInv, RunTypes, GenerationFacts, FolderFacts
<1>3. CASE genLock' = Nobody /\ Leave(p) /\ UNCHANGED <<generations, draft>>
  BY <1>1, <1>2, <1>3, LeaveReport DEF outVars, SlotOrNobody
<1>4. CASE /\ generations' = generations + 1
           /\ draft' = [draft EXCEPT ![p] =
                 [id |-> generations + 1, outcome |-> IF Terminal THEN state ELSE "active",
                  candidate |-> candidate]]
           /\ Go(p, <<"replace", proc[p].step[2], 1>>)
           /\ UNCHANGED genLock
  <2>1. Frame(p) /\ Stage(p)' = "replace" /\ proc'[p].step[3] = 1
    <3>1. Frame(p) /\ proc'[p].step = <<"replace", proc[p].step[2], 1>>
      BY <1>4, GoSets DEF SetupInv, SetupTypes
    <3>. QED  BY <3>1 DEF Stage
  <2>2. PICK new : new = [id |-> generations + 1, outcome |-> IF Terminal THEN state ELSE "active",
                          candidate |-> candidate]
    OBVIOUS
  <2>3. /\ new \in Report /\ new.id = generations + 1 /\ new.candidate = candidate
        /\ new.outcome = IF Terminal THEN state ELSE "active"
    <3>1. candidate \in 0 .. MaxCandidates /\ state \in {"implementing", "reviewing", "completed"} \cup Stopped
      BY DEF ReportInv, RunTypes, TreeFacts
    <3>. QED  BY <1>2, <2>2, <3>1 DEF Report, Terminal
  <2>4. /\ draft' \in [Slots -> Report] /\ draft'[p] = new
        /\ \A q \in Slots : q # p => draft'[q] = draft[q]
    <3>1. draft' = [draft EXCEPT ![p] = new]
      BY <1>4, <2>2
    <3>. QED  BY <2>3, <3>1 DEF ReportInv, RunTypes
  <2>5. RunTypes'
    BY <1>1, <1>2, <1>4, <2>4 DEF ReportInv, RunTypes
  <2>6. TrueOfRun(new) /\ TrueOfRun(new)'
    BY <1>1, <2>3 DEF TrueOfRun, Terminal, ReportInv, TreeFacts
  <2>7. ASSUME NEW f \in ReportNames
        PROVE  reports[f].id < new.id /\ OlderOrSame(reports[f], new)
    <3>1. TrueOfRun(reports[f]) /\ reports[f].id <= generations /\ reports[f].id \in Nat
      BY DEF ReportInv, ReportsTrue, RunTypes, Report
    <3>2. reports[f].id < new.id
      BY <1>2, <2>3, <3>1
    <3>3. reports[f].outcome # "active" => state = reports[f].outcome /\ Terminal
      <4>1. reports[f].outcome \in {"active", "completed"} \cup Stopped
        BY DEF ReportInv, RunTypes, Report
      <4>. QED  BY <3>1, <4>1 DEF TrueOfRun, Terminal
    <3>. QED  BY <2>3, <3>1, <3>2, <3>3 DEF OlderOrSame, TrueOfRun
  <2>8. GenerationFacts(p)'
    <3>1. \A i \in 1 .. 3 : ReportFiles[i] \in ReportNames
      BY ReportFileNames DEF ReportNames
    <3>2. \A i \in 1 .. 3 : ~ (i < 1)
      OBVIOUS
    <3>3. /\ genLock' = p /\ draft'[p].id = generations' /\ reports' = reports
      BY <1>1, <1>2, <1>4, <2>3, <2>4
    <3>4. \A i \in 1 .. 3 : reports[ReportFiles[i]].id < new.id /\ OlderOrSame(reports[ReportFiles[i]], new)
      BY <2>7, <3>1
    <3>5. TrueOfRun(draft[p])'
      BY <1>1, <2>4, <2>6 DEF TrueOfRun
    <3>. QED  BY <2>1, <2>4, <3>2, <3>3, <3>4, <3>5 DEF GenerationFacts, OlderOrSame
  <2>9. FolderFacts(p)'
    <3>1. TrueOfRun(folder[p].payload)'
      BY <1>1, <1>2 DEF TrueOfRun
    <3>. QED  BY <1>1, <1>2, <2>1, <3>1, EmptyFolders DEF FolderFacts, Exporting
  <2>10. \A q \in Slots : q # p => Stage(q) \notin {"snapshot", "replace"}
    BY <1>2 DEF ReportInv, GenerationFacts
  <2>11. generations' \in Nat /\ generations <= generations'
    BY <1>2, <1>4
  <2>. QED  BY <1>1, <2>1, <2>4, <2>5, <2>8, <2>9, <2>10, <2>11, FilesStay, ReportWalk
<1>. QED  BY <1>3, <1>4 DEF Snapshot

\* What the replacement of a file does to the report set.
LEMMA ReplaceSets ==
    ASSUME ReportInv, NEW p \in Slots, Replace(p)
    PROVE  /\ Stage(p) = "replace" /\ proc[p].step[3] \in 1 .. 3 /\ genLock = p
           /\ draft[p] \in Report /\ draft[p].id = generations /\ TrueOfRun(draft[p])
           /\ reports' = [reports EXCEPT ![ReportFiles[proc[p].step[3]]] = draft[p]]
           /\ reports' \in [ReportNames -> Report]
           /\ \A j \in 1 .. 3 :
                 /\ j < proc[p].step[3] => reports[ReportFiles[j]] = draft[p]
                 /\ j >= proc[p].step[3] => /\ reports[ReportFiles[j]].id < draft[p].id
                                            /\ OlderOrSame(reports[ReportFiles[j]], draft[p])
                 /\ j <= proc[p].step[3] => reports'[ReportFiles[j]] = draft[p]
                 /\ j > proc[p].step[3] => reports'[ReportFiles[j]] = reports[ReportFiles[j]]
<1>1. Stage(p) = "replace" /\ reports' = [reports EXCEPT ![ReportFiles[proc[p].step[3]]] = draft[p]]
  BY DEF Replace, Replaced, Stage
<1>2. GenerationFacts(p) /\ draft[p] \in Report /\ reports \in [ReportNames -> Report]
  BY DEF ReportInv, RunTypes
<1>3. /\ proc[p].step[3] \in 1 .. 3 /\ genLock = p
      /\ draft[p].id = generations /\ TrueOfRun(draft[p])
      /\ \A j \in 1 .. 3 :
            IF j < proc[p].step[3]
              THEN reports[ReportFiles[j]] = draft[p]
              ELSE /\ reports[ReportFiles[j]].id < draft[p].id
                   /\ OlderOrSame(reports[ReportFiles[j]], draft[p])
  BY <1>1, <1>2 DEF GenerationFacts
<1>4. PICK i : i = proc[p].step[3]
  OBVIOUS
<1>5. i \in 1 .. 3 /\ \A j \in 1 .. 3 : ReportFiles[j] \in ReportNames /\ (ReportFiles[j] = ReportFiles[i] => j = i)
  <2>1. \A j \in 1 .. 3 : j = 1 \/ j = 2 \/ j = 3
    OBVIOUS
  <2>. QED  BY <1>3, <1>4, <2>1, ReportFileNames DEF ReportNames
<1>6. reports' = [reports EXCEPT ![ReportFiles[i]] = draft[p]]
  BY <1>1, <1>4
<1>7. /\ reports' \in [ReportNames -> Report]
      /\ \A j \in 1 .. 3 : reports'[ReportFiles[j]] = IF j = i THEN draft[p] ELSE reports[ReportFiles[j]]
  BY <1>2, <1>5, <1>6
<1>8. ASSUME NEW j \in 1 .. 3
      PROVE  /\ j < i => reports[ReportFiles[j]] = draft[p]
             /\ j >= i => /\ reports[ReportFiles[j]].id < draft[p].id
                          /\ OlderOrSame(reports[ReportFiles[j]], draft[p])
             /\ j <= i => reports'[ReportFiles[j]] = draft[p]
             /\ j > i => reports'[ReportFiles[j]] = reports[ReportFiles[j]]
  <2>1. CASE j < i
    BY <1>3, <1>4, <1>5, <1>7, <2>1
  <2>2. CASE j = i
    BY <1>3, <1>4, <1>5, <1>7, <2>2
  <2>3. CASE j > i
    BY <1>3, <1>4, <1>5, <1>7, <2>3
  <2>. QED  BY <1>5, <2>1, <2>2, <2>3
<1>. QED  BY <1>1, <1>2, <1>3, <1>4, <1>7, <1>8

\* The set stays in order, and true of the run.
LEMMA ReplaceTrue ==
    ASSUME ReportInv, NEW p \in Slots, Replace(p), UNCHANGED <<runVars, output, generations>>
    PROVE  /\ ReportsTrue' /\ OutputIsOneReport' /\ OnlyTheCandidateIsExported'
           /\ \/ reports'["run.json"] = reports["run.json"]
              \/ reports["run.json"].id < reports'["run.json"].id
           /\ proc[p].step[3] = 3 => reports'["run.json"] = draft[p]
<1>1. PICK i : i = proc[p].step[3]
  OBVIOUS
<1>2. /\ i \in 1 .. 3 /\ draft[p] \in Report /\ draft[p].id = generations /\ TrueOfRun(draft[p])
      /\ reports' \in [ReportNames -> Report]
      /\ \A j \in 1 .. 3 :
            /\ j < i => reports[ReportFiles[j]] = draft[p]
            /\ j >= i => /\ reports[ReportFiles[j]].id < draft[p].id
                         /\ OlderOrSame(reports[ReportFiles[j]], draft[p])
            /\ j <= i => reports'[ReportFiles[j]] = draft[p]
            /\ j > i => reports'[ReportFiles[j]] = reports[ReportFiles[j]]
  BY <1>1, ReplaceSets
<1>3. UNCHANGED <<state, tree, observed, candidate>>
  BY DEF runVars
<1>4. /\ \A f \in ReportNames : TrueOfRun(reports[f]) /\ reports[f].id <= generations
      /\ ReportFilesInOrder /\ reports \in [ReportNames -> Report] /\ generations \in Nat
  BY DEF ReportInv, ReportsTrue, RunTypes
<1>5. \A f \in ReportNames : \E j \in 1 .. 3 : f = ReportFiles[j]
  BY ReportFileNames DEF ReportNames
<1>6. ASSUME NEW f \in ReportNames
      PROVE  TrueOfRun(reports[f])' /\ reports'[f].id <= generations'
  <2>1. reports'[f] = draft[p] \/ reports'[f] = reports[f]
    <3>1. PICK j \in 1 .. 3 : f = ReportFiles[j]
      BY <1>5
    <3>2. j <= i \/ j > i
      BY <1>2
    <3>. QED  BY <1>2, <3>1, <3>2
  <2>2. TrueOfRun(reports'[f]) /\ reports'[f].id <= generations
    <3>1. CASE reports'[f] = draft[p]
      BY <1>2, <1>4, <3>1
    <3>2. CASE reports'[f] = reports[f]
      BY <1>4, <3>2
    <3>. QED  BY <2>1, <3>1, <3>2
  <2>. QED  BY <1>3, <2>2 DEF TrueOfRun
<1>7. /\ reports["run.json"].id \in Nat /\ reports["report.md"].id \in Nat /\ reports["events.jsonl"].id \in Nat
      /\ draft[p].id \in Nat
  BY <1>2, <1>4 DEF Report, ReportNames
<1>8. i = 1 \/ i = 2 \/ i = 3
  BY <1>2
<1>9. ReportFilesInOrder'
  <2>1. CASE i = 1
    <3>1. /\ reports'["events.jsonl"] = draft[p] /\ reports'["report.md"] = reports["report.md"]
          /\ reports'["run.json"] = reports["run.json"] /\ reports["report.md"].id < draft[p].id
      BY <1>2, <2>1, ReportFileNames
    <3>. QED  BY <1>4, <1>7, <3>1 DEF ReportFilesInOrder
  <2>2. CASE i = 2
    <3>1. /\ reports'["events.jsonl"] = draft[p] /\ reports'["report.md"] = draft[p]
          /\ reports'["run.json"] = reports["run.json"] /\ reports["run.json"].id < draft[p].id
      BY <1>2, <2>2, ReportFileNames
    <3>. QED  BY <1>7, <3>1 DEF ReportFilesInOrder
  <2>3. CASE i = 3
    <3>1. /\ reports'["events.jsonl"] = draft[p] /\ reports'["report.md"] = draft[p]
          /\ reports'["run.json"] = draft[p]
      BY <1>2, <2>3, ReportFileNames
    <3>. QED  BY <1>7, <3>1 DEF ReportFilesInOrder
  <2>. QED  BY <1>8, <2>1, <2>2, <2>3
<1>10. /\ \/ reports'["run.json"] = reports["run.json"]
          \/ reports["run.json"].id < reports'["run.json"].id
       /\ i = 3 => reports'["run.json"] = draft[p]
  <2>1. CASE i = 3
    BY <1>2, <2>1, ReportFileNames
  <2>2. CASE i < 3
    BY <1>2, <2>2, ReportFileNames
  <2>. QED  BY <1>8, <2>1, <2>2
<1>11. TrueOfRun(output.payload)'
  BY <1>3 DEF ReportInv, ReportsTrue, TrueOfRun
<1>12. OutputIsOneReport' /\ OnlyTheCandidateIsExported'
  BY <1>3 DEF ReportInv, OutputIsOneReport, OnlyTheCandidateIsExported
<1>. QED  BY <1>1, <1>6, <1>9, <1>10, <1>11, <1>12 DEF ReportsTrue

LEMMA ReplaceKeeps ==
    ASSUME SetupInv, ReportInv, NEW p \in Slots, Replace(p)
    PROVE  ReportInv'
<1>1. /\ UNCHANGED <<runVars, output, generations>> /\ UNCHANGED <<state, tree, observed, candidate>>
  BY DEF Replace, elsewhere, runVars
<1>2. PICK i : i = proc[p].step[3]
  OBVIOUS
<1>3. /\ Stage(p) = "replace" /\ i \in 1 .. 3 /\ genLock = p /\ draft[p] \in Report
      /\ draft[p].id = generations /\ TrueOfRun(draft[p]) /\ reports' \in [ReportNames -> Report]
      /\ \A j \in 1 .. 3 :
            /\ j < i => reports[ReportFiles[j]] = draft[p]
            /\ j >= i => /\ reports[ReportFiles[j]].id < draft[p].id
                         /\ OlderOrSame(reports[ReportFiles[j]], draft[p])
            /\ j <= i => reports'[ReportFiles[j]] = draft[p]
            /\ j > i => reports'[ReportFiles[j]] = reports[ReportFiles[j]]
  BY <1>2, ReplaceSets
<1>4. /\ ReportsTrue' /\ OutputIsOneReport' /\ OnlyTheCandidateIsExported'
      /\ \/ reports'["run.json"] = reports["run.json"]
         \/ reports["run.json"].id < reports'["run.json"].id
      /\ i = 3 => reports'["run.json"] = draft[p]
  BY <1>1, <1>2, ReplaceTrue
<1>5. /\ folder[p] = Empty /\ TrueOfRun(folder[p].payload)' /\ TrueOfRun(Empty.payload)'
      /\ TrueCode(folder[p])'
  <2>1. folder[p] = Empty
    BY <1>3 DEF ReportInv, FolderFacts, Exporting
  <2>2. TrueOfRun(folder[p].payload)
    BY DEF ReportInv, FolderFacts
  <2>3. candidate \in Nat
    BY DEF ReportInv, TreeFacts
  <2>4. TrueOfRun(Empty.payload)'
    BY <1>1, <2>3 DEF TrueOfRun, Empty, Blank
  <2>5. folder'[p] = folder[p] \/ folder'[p] = Empty
    BY BlankTypes DEF Replace, outVars, Finish, ReportInv, RunTypes
  <2>. QED  BY <1>1, <2>1, <2>2, <2>4, <2>5, EmptyFolders DEF TrueOfRun
<1>6. \A q \in Slots : q # p => Stage(q) \notin {"snapshot", "replace"}
  BY <1>3 DEF ReportInv, GenerationFacts
<1>7. Len(ReportFiles) = 3
  BY ReportFileNames
<1>8. CASE /\ i < 3 /\ Go(p, <<"replace", proc[p].step[2], i + 1>>)
           /\ UNCHANGED <<genLock, outVars>>
  <2>1. Frame(p) /\ Stage(p)' = "replace" /\ proc'[p].step[3] = i + 1
    <3>1. Frame(p) /\ proc'[p].step = <<"replace", proc[p].step[2], i + 1>>
      BY <1>8, GoSets DEF SetupInv, SetupTypes
    <3>. QED  BY <3>1 DEF Stage
  <2>2. draft' = draft /\ folder' = folder
    BY <1>8 DEF outVars
  <2>3. RunTypes'
    BY <1>1, <1>3, <1>8, <2>2 DEF ReportInv, RunTypes
  <2>4. GenerationFacts(p)'
    <3>1. i + 1 \in 1 .. 3 /\ draft'[p].id = generations' /\ genLock' = p /\ TrueOfRun(draft[p])'
      BY <1>1, <1>3, <1>8, <2>2 DEF TrueOfRun
    <3>2. ASSUME NEW j \in 1 .. 3
          PROVE  IF j < i + 1
                   THEN reports'[ReportFiles[j]] = draft[p]
                   ELSE /\ reports'[ReportFiles[j]].id < draft[p].id
                        /\ OlderOrSame(reports'[ReportFiles[j]], draft[p])
      <4>1. CASE j <= i
        BY <1>3, <4>1
      <4>2. CASE j > i
        BY <1>3, <4>2
      <4>. QED  BY <1>3, <4>1, <4>2
    <3>. QED  BY <2>1, <2>2, <3>1, <3>2 DEF GenerationFacts, OlderOrSame
  <2>5. FolderFacts(p)'
    BY <1>5, <2>1, <2>2 DEF FolderFacts, Exporting
  <2>. QED  BY <1>1, <1>4, <1>6, <2>1, <2>2, <2>3, <2>4, <2>5, ReportWalk
<1>9. CASE i = 3 /\ Go(p, <<"export">>) /\ genLock' = Nobody /\ UNCHANGED outVars
  <2>1. Frame(p) /\ Stage(p)' = "export"
    <3>1. Frame(p) /\ proc'[p].step = <<"export">>
      BY <1>9, GoSets DEF SetupInv, SetupTypes
    <3>. QED  BY <3>1 DEF Stage
  <2>2. draft' = draft /\ folder' = folder
    BY <1>9 DEF outVars
  <2>3. RunTypes'
    BY <1>1, <1>3, <1>9, <2>2 DEF ReportInv, RunTypes, SlotOrNobody
  <2>4. GenerationFacts(p)'
    BY <2>1 DEF GenerationFacts
  <2>5. FolderFacts(p)'
    <3>1. draft'[p].id <= reports'["run.json"].id
      BY <1>3, <1>4, <1>9, <2>2 DEF Report
    <3>. QED  BY <1>5, <2>1, <2>2, <3>1 DEF FolderFacts, Exporting
  <2>. QED  BY <1>1, <1>4, <1>6, <2>1, <2>2, <2>3, <2>4, <2>5, ReportWalk
<1>10. CASE i = 3 /\ Finish(p) /\ genLock' = Nobody
  <2>1. Frame(p) /\ Stage(p)' = "idle"
    <3>1. Frame(p) /\ proc'[p].step = <<"idle">>
      BY <1>10, LeaveSets DEF Finish, SetupInv, SetupTypes
    <3>. QED  BY <3>1 DEF Stage
  <2>2. /\ draft' \in [Slots -> Report] /\ folder' \in [Slots -> Folder] /\ folder'[p] = Empty
        /\ \A q \in Slots : q # p => draft'[q] = draft[q] /\ folder'[q] = folder[q]
    BY <1>10, BlankTypes DEF Finish, ReportInv, RunTypes
  <2>3. RunTypes'
    BY <1>1, <1>3, <1>10, <2>2 DEF ReportInv, RunTypes, SlotOrNobody
  <2>4. GenerationFacts(p)' /\ FolderFacts(p)'
    BY <1>5, <2>1, <2>2 DEF GenerationFacts, FolderFacts, Exporting
  <2>. QED  BY <1>1, <1>4, <1>6, <2>1, <2>2, <2>3, <2>4, ReportWalk
<1>. QED  BY <1>2, <1>7, <1>8, <1>9, <1>10 DEF Replace

\* What a folder is before a step of the export.
Prepared(p, to, x) ==
    /\ x \in Folder /\ TrueOfRun(x.payload) /\ TrueCode(x)
    /\ to \in {"code", "copy code", "copy reports"} =>
          /\ draft[p].id <= x.payload.id
          /\ x.payload.id < reports["run.json"].id \/ x.payload = reports["run.json"]
    /\ to = "code" => x.code = {}
    /\ to = "copy code" => x.payload.candidate # 0
    /\ to \in {"copy reports", "rename"} => ExportedCode(x)
    /\ to = "rename" => x.copies = {x.payload}

\* A step of the export that goes on to another, with the folder that it leaves.
LEMMA ExportWalk ==
    ASSUME SetupInv, ReportInv, NEW p \in Slots, NEW to \in Exporting, Go(p, <<to>>),
           UNCHANGED exportUnchanged, UNCHANGED <<draft, output>>,
           NEW x, folder' = [folder EXCEPT ![p] = x], Prepared(p, to, x)
    PROVE  ReportInv'
<1>1. /\ UNCHANGED <<runVars, genLock, generations, reports, draft, output>>
      /\ UNCHANGED <<state, tree, observed, candidate>>
  BY DEF exportUnchanged, elsewhere, runVars
<1>2. Frame(p) /\ Stage(p)' = to
  <2>1. Frame(p) /\ proc'[p].step = <<to>>
    BY GoSets DEF SetupInv, SetupTypes
  <2>. QED  BY <2>1, OneWordNext
<1>3. /\ folder' \in [Slots -> Folder] /\ folder'[p] = x
      /\ \A q \in Slots : q # p => folder'[q] = folder[q]
  BY DEF ReportInv, RunTypes, Prepared
<1>4. RunTypes'
  BY <1>1, <1>3 DEF ReportInv, RunTypes
<1>5. generations' \in Nat /\ generations <= generations'
  <2>1. generations \in Nat
    BY DEF ReportInv, RunTypes
  <2>. QED  BY <1>1, <2>1
<1>6. GenerationFacts(p)'
  BY <1>2 DEF GenerationFacts, Exporting
<1>7. FolderFacts(p)'
  <2>1. TrueOfRun(folder[p].payload)' /\ TrueCode(folder[p])'
    BY <1>1, <1>3 DEF TrueOfRun, TrueCode, Prepared
  <2>2. to # "export"
    BY DEF Exporting
  <2>. QED  BY <1>1, <1>2, <1>3, <2>1, <2>2 DEF FolderFacts, Prepared, ExportedCode
<1>. QED  BY <1>1, <1>2, <1>3, <1>4, <1>5, <1>6, <1>7, FilesStay, ReportWalk

\* What a folder in preparation is, whatever the step.
LEMMA InHand ==
    ASSUME ReportInv, NEW p \in Slots, Stage(p) \in Exporting
    PROVE  /\ Prepared(p, Stage(p), folder[p])
           /\ folder[p] \in Folder /\ folder[p].payload \in Report
           /\ folder = [folder EXCEPT ![p] = folder[p]]
<1>1. folder \in [Slots -> Folder] /\ FolderFacts(p)
  BY DEF ReportInv, RunTypes
<1>2. folder[p] \in Folder /\ folder[p].payload \in Report /\ folder = [folder EXCEPT ![p] = folder[p]]
  BY <1>1 DEF Folder
<1>. QED  BY <1>1, <1>2 DEF FolderFacts, Prepared

LEMMA FinishExport ==
    ASSUME SetupInv, ReportInv, NEW p \in Slots, Finish(p), UNCHANGED exportUnchanged, UNCHANGED output
    PROVE  ReportInv'
<1>1. UNCHANGED <<runVars, reports, output, generations, genLock>> /\ genLock' \in SlotOrNobody
  BY DEF exportUnchanged, elsewhere, ReportInv, RunTypes
<1>. QED  BY <1>1, FinishKeeps

LEMMA BeginExportKeeps ==
    ASSUME SetupInv, ReportInv, NEW p \in Slots, BeginExport(p)
    PROVE  ReportInv'
<1>1. Stage(p) = "export" /\ UNCHANGED exportUnchanged /\ UNCHANGED output
  BY DEF BeginExport, Stage
<1>2. CASE Finish(p)
  BY <1>1, <1>2, FinishExport
<1>3. CASE /\ folder' = [folder EXCEPT ![p].payload = reports["run.json"]]
           /\ Go(p, <<"code">>) /\ UNCHANGED draft
  <2>1. folder[p] = Empty /\ folder \in [Slots -> Folder]
    BY <1>1 DEF ReportInv, RunTypes, FolderFacts, Exporting
  <2>2. PICK x : x = [Empty EXCEPT !.payload = reports["run.json"]]
    OBVIOUS
  <2>3. x = [made |-> FALSE, payload |-> reports["run.json"], code |-> {}, copies |-> {}]
    BY <2>2 DEF Empty
  <2>4. folder' = [folder EXCEPT ![p] = x]
    BY <1>3, <2>1, <2>2
  <2>5. reports["run.json"] \in Report /\ TrueOfRun(reports["run.json"])
    BY DEF ReportInv, RunTypes, ReportsTrue, ReportNames
  <2>6. x \in Folder /\ x.payload = reports["run.json"] /\ x.code = {}
    BY <2>3, <2>5 DEF Folder
  <2>7. draft[p].id <= reports["run.json"].id
    BY <1>1 DEF ReportInv, FolderFacts
  <2>8. Prepared(p, "code", x) /\ "code" \in Exporting
    BY <2>5, <2>6, <2>7 DEF Prepared, Exporting, TrueCode
  <2>. QED  BY <1>1, <1>3, <2>4, <2>8, ExportWalk
<1>. QED  BY <1>2, <1>3 DEF BeginExport

LEMMA ExportCodeKeeps ==
    ASSUME SetupInv, ReportInv, NEW p \in Slots, ExportCode(p)
    PROVE  ReportInv'
<1>1. Stage(p) = "code" /\ UNCHANGED exportUnchanged /\ UNCHANGED output
  <2>1. proc[p].step = <<"code">> /\ UNCHANGED exportUnchanged /\ UNCHANGED output
    BY DEF ExportCode
  <2>. QED  BY <2>1, OneWord
<1>2. /\ folder[p] \in Folder /\ TrueOfRun(folder[p].payload)
      /\ folder = [folder EXCEPT ![p] = folder[p]]
      /\ draft[p].id <= folder[p].payload.id
      /\ folder[p].payload.id < reports["run.json"].id \/ folder[p].payload = reports["run.json"]
      /\ folder[p].code = {} /\ TrueCode(folder[p])
  BY <1>1, InHand DEF Prepared, Exporting
<1>3. CASE Finish(p)
  BY <1>1, <1>3, FinishExport
<1>4. CASE folder[p].payload.candidate = 0 /\ Go(p, <<"copy reports">>) /\ UNCHANGED outVars
  <2>1. folder' = [folder EXCEPT ![p] = folder[p]] /\ draft' = draft
    BY <1>2, <1>4 DEF outVars
  <2>4. ExportedCode(folder[p])
    BY <1>2, <1>4 DEF ExportedCode
  <2>5. Prepared(p, "copy reports", folder[p]) /\ "copy reports" \in Exporting
    BY <1>2, <2>4 DEF Prepared, Exporting
  <2>. QED  BY <1>1, <1>4, <2>1, <2>5, ExportWalk
<1>5. CASE folder[p].payload.candidate # 0 /\ Go(p, <<"copy code">>) /\ UNCHANGED outVars
  <2>1. folder' = [folder EXCEPT ![p] = folder[p]] /\ draft' = draft
    BY <1>2, <1>5 DEF outVars
  <2>2. Prepared(p, "copy code", folder[p]) /\ "copy code" \in Exporting
    BY <1>2, <1>5 DEF Prepared, Exporting
  <2>. QED  BY <1>1, <1>5, <2>1, <2>2, ExportWalk
<1>. QED  BY <1>3, <1>4, <1>5 DEF ExportCode

\* One more path is copied, and the folder is what it may be.
LEMMA CopiedPath ==
    ASSUME ReportInv, NEW p \in Slots, NEW copy \in CopiedAs,
           folder[p] \in Folder, TrueOfRun(folder[p].payload), TrueCode(folder[p]),
           NEW x, x = [folder[p] EXCEPT !.code = @ \cup {copy}]
    PROVE  /\ x \in Folder /\ x.payload = folder[p].payload /\ x.code # {}
           /\ TrueCode(x)
<1>1. tree.head \in 0 .. MaxCandidates /\ tree.edited \in BOOLEAN /\ tree.removed \in BOOLEAN
  BY DEF ReportInv, RunTypes
<1>2. /\ tree.removed => copy = <<"lost">>
      /\ ~tree.removed => \/ copy = <<"commit", tree.head>>
                          \/ copy = <<"edited">> /\ tree.edited
                          \/ copy = <<"operator">>
  BY DEF CopiedAs
<1>3. copy \in Copies
  <2>1. CASE tree.removed
    BY <1>2, <2>1 DEF Copies
  <2>2. CASE ~tree.removed
    BY <1>1, <1>2, <2>2 DEF Copies
  <2>. QED  BY <1>1, <2>1, <2>2
<1>4. /\ x \in Folder /\ x.payload = folder[p].payload
      /\ x.code = folder[p].code \cup {copy}
  BY <1>3 DEF Folder
<1>5. folder[p].payload.outcome = "completed" => candidate = tree.head /\ ~tree.edited
  BY DEF TrueOfRun, ReportInv, TreeFacts
<1>6. TrueCode(x)
  <2>. SUFFICES ASSUME folder[p].payload.outcome = "completed"
                PROVE  /\ x.code \subseteq {<<"commit", candidate>>, <<"operator">>, <<"lost">>}
                       /\ <<"lost">> \in x.code => tree.removed
    BY <1>4 DEF TrueCode
  <2>1. /\ folder[p].code \subseteq {<<"commit", candidate>>, <<"operator">>, <<"lost">>}
        /\ <<"lost">> \in folder[p].code => tree.removed
    BY DEF TrueCode
  <2>2. \/ copy = <<"commit", candidate>> \/ copy = <<"operator">>
        \/ copy = <<"lost">> /\ tree.removed
    BY <1>1, <1>2, <1>5
  <2>3. <<"commit", candidate>> # <<"lost">> /\ <<"operator">> # <<"lost">>
    OBVIOUS
  <2>. QED  BY <1>4, <2>1, <2>2, <2>3
<1>. QED  BY <1>4, <1>6

LEMMA CopyCodeKeeps ==
    ASSUME SetupInv, ReportInv, NEW p \in Slots, CopyCode(p)
    PROVE  ReportInv'
<1>1. Stage(p) = "copy code" /\ UNCHANGED exportUnchanged /\ UNCHANGED output
  <2>1. proc[p].step = <<"copy code">> /\ UNCHANGED exportUnchanged /\ UNCHANGED output
    BY DEF CopyCode
  <2>. QED  BY <2>1, OneWord
<1>2. /\ folder[p] \in Folder /\ TrueOfRun(folder[p].payload) /\ TrueCode(folder[p])
      /\ draft[p].id <= folder[p].payload.id
      /\ folder[p].payload.id < reports["run.json"].id \/ folder[p].payload = reports["run.json"]
      /\ folder[p].payload.candidate # 0
  BY <1>1, InHand DEF Prepared, Exporting
<1>3. CASE Finish(p)
  BY <1>1, <1>3, FinishExport
<1>4. ASSUME NEW copy \in CopiedAs, folder' = [folder EXCEPT ![p].code = @ \cup {copy}],
             Go(p, <<"copy code">>) \/ Go(p, <<"copy reports">>), UNCHANGED draft
      PROVE  ReportInv'
  <2>1. PICK x : x = [folder[p] EXCEPT !.code = @ \cup {copy}]
    OBVIOUS
  <2>2. folder' = [folder EXCEPT ![p] = x]
    BY <1>4, <2>1 DEF ReportInv, RunTypes
  <2>3. /\ x \in Folder /\ x.payload = folder[p].payload /\ x.code # {}
        /\ TrueCode(x)
    BY <1>2, <2>1, CopiedPath
  <2>4. /\ Prepared(p, "copy code", x) /\ Prepared(p, "copy reports", x)
        /\ {"copy code", "copy reports"} \subseteq Exporting
    BY <1>2, <2>3 DEF Prepared, Exporting, ExportedCode
  <2>. QED  BY <1>1, <1>4, <2>2, <2>4, ExportWalk
<1>. QED  BY <1>3, <1>4 DEF CopyCode

\* The files are those that this command generated: nothing was replaced since.
LEMMA CopyReportsKeeps ==
    ASSUME SetupInv, ReportInv, NEW p \in Slots, CopyReports(p)
    PROVE  ReportInv'
<1>1. Stage(p) = "copy reports" /\ UNCHANGED exportUnchanged /\ UNCHANGED output
  <2>1. proc[p].step = <<"copy reports">> /\ UNCHANGED exportUnchanged /\ UNCHANGED output
    BY DEF CopyReports
  <2>. QED  BY <2>1, OneWord
<1>2. /\ folder[p] \in Folder /\ TrueOfRun(folder[p].payload) /\ folder[p].payload \in Report
      /\ draft[p].id <= folder[p].payload.id
      /\ folder[p].payload.id < reports["run.json"].id \/ folder[p].payload = reports["run.json"]
      /\ ExportedCode(folder[p]) /\ TrueCode(folder[p])
  BY <1>1, InHand DEF Prepared, Exporting
<1>3. CASE Finish(p)
  BY <1>1, <1>3, FinishExport
<1>4. CASE /\ Unchanged(p)
           /\ folder' = [folder EXCEPT ![p].copies = {reports[f] : f \in Range(ReportFiles)}]
           /\ Go(p, <<"rename">>) /\ UNCHANGED draft
  <2>1. \A f \in ReportNames : reports[f] = draft[p]
    <3>1. \A i \in 1 .. 3 : reports[ReportFiles[i]] = draft[p]
      BY <1>4, ReportFileNames DEF Unchanged
    <3>. QED  BY <3>1, ReportFileNames DEF ReportNames
  <2>2. folder[p].payload = draft[p] /\ draft[p] \in Report
    <3>1. reports["run.json"] = draft[p] /\ draft[p] \in Report
      BY <2>1 DEF ReportNames, ReportInv, RunTypes
    <3>2. draft[p].id \in Nat /\ folder[p].payload.id \in Nat
      BY <1>2, <3>1 DEF Report
    <3>. QED  BY <1>2, <3>1, <3>2
  <2>3. {reports[f] : f \in Range(ReportFiles)} = {folder[p].payload}
    BY <2>1, <2>2, ReportFileNames DEF ReportNames
  <2>4. PICK x : x = [folder[p] EXCEPT !.copies = {folder[p].payload}]
    OBVIOUS
  <2>5. /\ folder' = [folder EXCEPT ![p] = x]
        /\ x \in Folder /\ x.payload = folder[p].payload /\ x.code = folder[p].code
        /\ x.copies = {x.payload}
    BY <1>2, <1>4, <2>3, <2>4 DEF Folder, ReportInv, RunTypes
  <2>6. ExportedCode(x) /\ TrueCode(x)
    BY <1>2, <2>5 DEF ExportedCode, TrueCode
  <2>7. Prepared(p, "rename", x) /\ "rename" \in Exporting
    BY <1>2, <2>5, <2>6 DEF Prepared, Exporting
  <2>. QED  BY <1>1, <1>4, <2>5, <2>7, ExportWalk
<1>. QED  BY <1>3, <1>4 DEF CopyReports

LEMMA PublishKeeps ==
    ASSUME SetupInv, ReportInv, NEW p \in Slots, Publish(p)
    PROVE  ReportInv'
<1>1. /\ Stage(p) = "rename" /\ UNCHANGED exportUnchanged /\ Finish(p) /\ Stage(p) \in Exporting
      /\ output' = IF output.made THEN output ELSE [folder[p] EXCEPT !.made = TRUE]
  BY DEF Publish, Stage, Exporting
<1>2. CASE output.made
  BY <1>1, <1>2, FinishExport
<1>3. CASE ~output.made
  <2>1. /\ folder[p] \in Folder /\ TrueOfRun(folder[p].payload) /\ TrueCode(folder[p])
        /\ ExportedCode(folder[p]) /\ folder[p].copies = {folder[p].payload}
    BY <1>1, InHand DEF Prepared
  <2>2. /\ output' \in Folder /\ output'.payload = folder[p].payload
        /\ output'.code = folder[p].code /\ output'.copies = folder[p].copies
    BY <1>1, <1>3, <2>1 DEF Folder
  <2>3. /\ UNCHANGED <<runVars, genLock, generations, reports>>
        /\ UNCHANGED <<state, tree, observed, candidate>>
    BY <1>1 DEF exportUnchanged, elsewhere, runVars
  <2>4. Frame(p) /\ Stage(p)' = "idle"
    <3>1. Frame(p) /\ proc'[p].step = <<"idle">>
      BY <1>1, LeaveSets DEF Finish, SetupInv, SetupTypes
    <3>. QED  BY <3>1 DEF Stage
  <2>5. /\ draft' \in [Slots -> Report] /\ folder' \in [Slots -> Folder] /\ folder'[p] = Empty
        /\ \A q \in Slots : q # p => draft'[q] = draft[q] /\ folder'[q] = folder[q]
    BY <1>1, BlankTypes DEF Finish, ReportInv, RunTypes
  <2>6. RunTypes'
    BY <2>2, <2>3, <2>5 DEF ReportInv, RunTypes
  <2>7. ReportsTrue'
    BY <2>1, <2>2, <2>3 DEF ReportInv, ReportsTrue, TrueOfRun, ReportFilesInOrder
  <2>8. OutputIsOneReport' /\ OnlyTheCandidateIsExported'
    BY <2>1, <2>2, <2>3 DEF OutputIsOneReport, OnlyTheCandidateIsExported, ExportedCode, TrueCode
  <2>9. GenerationFacts(p)' /\ FolderFacts(p)'
    <3>1. candidate \in Nat
      BY DEF ReportInv, TreeFacts
    <3>2. TrueOfRun(folder[p].payload)'
      BY <2>3, <2>5, <3>1 DEF TrueOfRun, Empty, Blank
    <3>. QED  BY <2>4, <2>5, <3>2, EmptyFolders DEF GenerationFacts, FolderFacts, Exporting
  <2>. QED  BY <2>3, <2>4, <2>5, <2>6, <2>7, <2>8, <2>9, ReportWalk
<1>. QED  BY <1>2, <1>3

LEMMA CrashKeeps ==
    ASSUME SetupInv, ReportInv, NEW p \in Slots, Crash(p)
    PROVE  ReportInv'
<1>1. /\ Finish(p) /\ UNCHANGED <<runVars, reports, output, generations>>
      /\ genLock' \in SlotOrNobody /\ (genLock' = genLock \/ genLock = p)
  BY DEF Crash, ReportInv, RunTypes, SlotOrNobody
<1>. QED  BY <1>1, FinishKeeps

(***************************************************************************)
(* The whole                                                               *)
(***************************************************************************)

DeliverablesInv == SetupInv /\ ReportInv

LEMMA ReportInits ==
    ASSUME Init
    PROVE  ReportInv
<1>1. /\ state = "implementing" /\ observed = 0 /\ candidate = 0
      /\ tree = [head |-> 0, edited |-> FALSE, removed |-> FALSE]
      /\ genLock = Nobody /\ generations = 0
      /\ draft = [p \in Slots |-> Blank] /\ reports = [f \in ReportNames |-> Blank]
      /\ folder = [p \in Slots |-> Empty] /\ output = Empty
      /\ proc = [p \in Slots |-> Idle]
  BY ReportFileNames DEF Init, SetupInit
<1>2. \A p \in Slots : Stage(p) = "idle"
  <2>. SUFFICES ASSUME NEW p \in Slots PROVE Stage(p) = "idle"
    OBVIOUS
  <2>1. proc[p].step = <<"idle">>
    BY <1>1 DEF Idle
  <2>. QED  BY <2>1 DEF Stage
<1>3. RunTypes
  <2>1. tree \in [head : 0 .. MaxCandidates, edited : BOOLEAN, removed : BOOLEAN]
    BY <1>1
  <2>. QED  BY <1>1, <2>1, BlankTypes DEF RunTypes, SlotOrNobody
<1>4. TreeFacts
  BY <1>1 DEF TreeFacts
<1>5. TrueOfRun(Blank) /\ Blank.id = 0 /\ Empty.payload = Blank /\ ~Empty.made
  BY <1>1 DEF TrueOfRun, Blank, Empty
<1>6. ReportsTrue
  BY <1>1, <1>5 DEF ReportsTrue, ReportFilesInOrder, ReportNames
<1>7. \A p \in Slots : GenerationFacts(p) /\ FolderFacts(p)
  BY <1>1, <1>2, <1>5, EmptyFolders DEF GenerationFacts, FolderFacts, Exporting
<1>8. OutputIsOneReport /\ OnlyTheCandidateIsExported
  BY <1>1, <1>5 DEF OutputIsOneReport, OnlyTheCandidateIsExported
<1>. QED  BY <1>3, <1>4, <1>6, <1>7, <1>8 DEF ReportInv

LEMMA ReportSteps ==
    ASSUME SetupInv, ReportInv, [Next]_vars
    PROVE  ReportInv'
<1>1. CASE UNCHANGED vars
  <2>1. UNCHANGED <<runVars, reporting>> /\ \A q \in Slots : proc'[q] = proc[q]
    BY <1>1 DEF vars, reporting, setupVars
  <2>2. RunTypes' /\ TreeFacts' /\ RunMoved
    BY <2>1, SameRun DEF ReportInv, RunTypes, runVars, reporting, outVars
  <2>. QED  BY <2>1, <2>2, MovesKeep
<1>2. ASSUME NEW p \in Slots, Step(p) PROVE ReportInv'
  <2>1. CASE SetupStep(p) /\ UNCHANGED <<runVars, reporting>>
    BY <2>1, ApartSteps, ApartKeeps
  <2>2. CASE LeaveWork(p) \/ Regenerate(p) \/ StartCommand(p)
    <3>1. UNCHANGED <<runVars, reporting>>
      BY <2>2 DEF LeaveWork, Regenerate, StartCommand
    <3>. QED  BY <2>2, <3>1, ApartSteps, ApartKeeps
  <2>. QED  BY <1>2, <2>1, <2>2, RunKeeps, CancelKeeps, CleanKeeps, LockGenerationKeeps, SnapshotKeeps,
               ReplaceKeeps, BeginExportKeeps, ExportCodeKeeps, CopyCodeKeeps, CopyReportsKeeps,
               PublishKeeps, CrashKeeps DEF Step
<1>. QED  BY <1>1, <1>2 DEF Next

\* The setup and the reports together.
THEOREM DeliverablesHold == Spec => []DeliverablesInv
<1>1. Init => DeliverablesInv
  BY SetupInits, ReportInits DEF DeliverablesInv
<1>2. DeliverablesInv /\ [Next]_vars => DeliverablesInv'
  BY SetupSteps, ReportSteps DEF DeliverablesInv
<1>. QED  BY <1>1, <1>2, PTL DEF Spec

\* The types of the commands, the run, the report set and the output.
THEOREM DeliverablesTypes == Spec => []TypeOK
<1>1. DeliverablesInv => TypeOK
  <2>. SUFFICES ASSUME DeliverablesInv PROVE TypeOK
    OBVIOUS
  <2>1. candidate \in 0 .. MaxCandidates /\ observed \in 0 .. MaxCandidates
    BY DEF DeliverablesInv, ReportInv, RunTypes, TreeFacts
  <2>. QED  BY <2>1 DEF DeliverablesInv, SetupInv, SetupTypes, ProcType, ReportInv, RunTypes, SlotOrNobody, TypeOK
<1>. QED  BY <1>1, DeliverablesHold, PTL

\* Wherever generations are cut short, run.json is never newer than the files it names.
THEOREM ReportFilesStayInOrder == Spec => []ReportFilesInOrder
<1>1. DeliverablesInv => ReportFilesInOrder
  BY DEF DeliverablesInv, ReportInv, ReportsTrue
<1>. QED  BY <1>1, DeliverablesHold, PTL

\* Whichever commands generate meanwhile, the output folder is of one report.
THEOREM OutputHoldsOneReport == Spec => []OutputIsOneReport
<1>1. DeliverablesInv => OutputIsOneReport
  BY DEF DeliverablesInv, ReportInv
<1>. QED  BY <1>1, DeliverablesHold, PTL

\* A completed run's folder has the files of the approved candidate and no others of the run;
\* what is different is an operator's, and what is missing was removed.
THEOREM ExportsOnlyTheCandidate == Spec => []OnlyTheCandidateIsExported
<1>1. DeliverablesInv => OnlyTheCandidateIsExported
  BY DEF DeliverablesInv, ReportInv
<1>. QED  BY <1>1, DeliverablesHold, PTL

\* No file of the report set goes back.
LEMMA ReportsAdvance ==
    ASSUME DeliverablesInv, [Next]_vars, NEW f \in ReportNames
    PROVE  /\ reports[f].candidate <= reports'[f].candidate
           /\ reports[f].outcome # "active" => reports'[f].outcome = reports[f].outcome
<1>1. CASE reports'[f] = reports[f]
  <2>1. reports[f].candidate \in Nat
    BY DEF DeliverablesInv, ReportInv, RunTypes, Report
  <2>. QED  BY <1>1, <2>1
<1>2. ASSUME NEW p \in Slots, Replace(p), reports'[f] # reports[f]
      PROVE  OlderOrSame(reports[f], reports'[f])
  <2>1. PICK i : i = proc[p].step[3]
    OBVIOUS
  <2>2. /\ i \in 1 .. 3
        /\ \A j \in 1 .. 3 :
              /\ j < i => reports[ReportFiles[j]] = draft[p]
              /\ j >= i => OlderOrSame(reports[ReportFiles[j]], draft[p])
              /\ j <= i => reports'[ReportFiles[j]] = draft[p]
              /\ j > i => reports'[ReportFiles[j]] = reports[ReportFiles[j]]
    BY <1>2, <2>1, ReplaceSets DEF DeliverablesInv
  <2>3. PICK j \in 1 .. 3 : f = ReportFiles[j]
    BY ReportFileNames DEF ReportNames
  <2>4. j < i \/ j = i \/ j > i
    BY <2>2
  <2>5. CASE j < i
    BY <1>2, <2>2, <2>3, <2>5
  <2>6. CASE j = i
    BY <2>2, <2>3, <2>6
  <2>7. CASE j > i
    BY <1>2, <2>2, <2>3, <2>7
  <2>. QED  BY <2>4, <2>5, <2>6, <2>7
<1>3. ASSUME NEW p \in Slots, Step(p)
      PROVE  Replace(p) \/ reports' = reports
  BY <1>3 DEF Step, Edit, Commit, Observe, Accept, Review, Stop, LeaveWork, Regenerate, StartCommand,
              CancelRun, Clean, LockGeneration, Snapshot, BeginExport, ExportCode, CopyCode, CopyReports,
              Publish, Crash, reporting, exportUnchanged
<1>4. CASE UNCHANGED vars
  BY <1>1, <1>4 DEF vars
<1>5. CASE Next
  <2>1. reports' = reports \/ \E p \in Slots : Replace(p)
    BY <1>3, <1>5 DEF Next
  <2>. QED  BY <1>1, <1>2, <2>1 DEF OlderOrSame
<1>. QED  BY <1>4, <1>5

\* No report file, once replaced, gives way to one of an earlier snapshot of the database.
THEOREM ReportsHoldGround == Spec => ReportsNeverGoBack
<1>1. DeliverablesInv /\ [Next]_vars =>
         [\A f \in Range(ReportFiles) :
             /\ reports[f].candidate <= reports'[f].candidate
             /\ reports[f].outcome # "active" => reports'[f].outcome = reports[f].outcome]_vars
  BY ReportsAdvance, ReportFileNames
<1>. QED  BY <1>1, DeliverablesHold, PTL DEF Spec, ReportsNeverGoBack
=============================================================================
