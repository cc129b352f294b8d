------------------------------ MODULE RunSetup ------------------------------
(***************************************************************************)
(* What a command does before it may drive a run (cli.py): the files that  *)
(* it makes once and never overwrites, the role identities, the room's     *)
(* ownership notes with their signed nonces, the run lock and the run's    *)
(* row.  Commands are processes that share one storage root and one run    *)
(* id, may be started together, and may fail or die between any two steps. *)
(***************************************************************************)
EXTENDS Naturals, FiniteSetsExt

CONSTANTS
    Slots,         \* processes that run commands, one after the other
    Nobody,        \* nothing: no file, no note, no row, no owner
    Part,          \* a file that was opened and not, or not wholly, written
    MaxCommands,   \* bound of the model: commands started
    MaxFaults,     \* bound of the model: commands that fail or die by an outside fault
    MaxClock,      \* bound of the model: readings of the clock
    MaxNonce       \* 2^63 - 1 in the code

ASSUME SetupAssumption ==
    /\ Nobody \notin Slots /\ Part \notin Slots /\ Part # Nobody
    /\ {MaxCommands, MaxFaults, MaxClock, MaxNonce} \subseteq Nat

\* The room's owner, and one for the roles that it admits.
Roles == {"supervisor", "agent"}

\* Opened with O_CREAT and O_EXCL, or made with an exclusive mkdir.
RunFiles == {"repository", "config", "room"}
Files == RunFiles \cup Roles

Notes == {"owner", "allow"}

VARIABLES
    proc,       \* the process in each slot: its command, where that is, the identities that it
                \* has loaded, and the nonce of the note that it is writing
    file,       \* who wrote each file; the key in an identity's file is new, so its writer names it
    note,       \* the room's ownership notes at the service
    accepted,   \* the highest nonce that the service has accepted of each key
    last,       \* identity_nonces: the last nonce allocated to each key, one more than in the code
    lock,       \* the run lock
    row,        \* the participants of the run's row
    commands, faults   \* bounds

remote == <<note, accepted, last>>
bounds == <<commands, faults>>
setupVars == <<proc, file, remote, lock, row, bounds>>

Unloaded == [r \in Roles |-> Nobody]

Whole(f) == file[f] \in Slots

Idle == [cmd |-> "none", step |-> <<"idle">>, keys |-> Unloaded, nonce |-> 0]

Go(p, next) == proc' = [proc EXCEPT ![p].step = next]

\* The command ends; an error before the store is open does no more than that.
Leave(p) == proc' = [proc EXCEPT ![p] = Idle]

\* What comes after the run is the same for every command, and needs no identities.
Continue(p, next) == proc' = [proc EXCEPT ![p] = [Idle EXCEPT !.step = next]]

\* A later error goes through _regenerate_report_if_run_exists.
Error(p) == Continue(p, <<"regenerate">>)

(***************************************************************************)
(* Files                                                                   *)
(***************************************************************************)

\* What follows a file of `run` or `resume`.
After(p, f) ==
    CASE f = "repository"                        -> <<"ensure", "supervisor">>
      [] f = "supervisor"                        -> <<"ensure", "agent">>
      [] f = "agent" /\ proc[p].cmd = "run"      -> <<"open", "config">>
      [] f = "agent" /\ proc[p].cmd = "resume"   -> <<"load">>
      [] f = "config"                            -> <<"load">>
      [] f = "room"                              -> <<"read", "owner">>

\* `identity create` ends with its file.
Done(p, f) == IF proc[p].cmd = "identity" THEN Leave(p) ELSE Go(p, After(p, f))

\* _ensure_protected_identities: a whole identity is loaded, a part of one is an error.
Ensure(p, r) ==
    /\ proc[p].step = <<"ensure", r>>
    /\ \/ file[r] = Nobody /\ Go(p, <<"open", r>>)
       \/ file[r] = Part /\ Leave(p)
       \/ Whole(r) /\ Done(p, r)
    /\ UNCHANGED <<file, remote, lock, row, bounds>>

FaultyOpen(p, f) ==   \* a file that is there is opened again
    /\ proc[p].step = <<"open", f>>
    /\ file' = [file EXCEPT ![f] = Part]
    /\ Go(p, <<"write", f>>)
    /\ UNCHANGED <<remote, lock, row, bounds>>

\* The exclusive open, or mkdir: what is there already is an error.
Open(p, f) ==
    /\ proc[p].step = <<"open", f>>
    /\ \/ /\ file[f] = Nobody
          /\ file' = [file EXCEPT ![f] = Part]
          /\ Go(p, <<"write", f>>)
       \/ /\ file[f] # Nobody
          /\ UNCHANGED file
          /\ Leave(p)
    /\ UNCHANGED <<remote, lock, row, bounds>>

Write(p, f) ==
    /\ proc[p].step = <<"write", f>>
    /\ file' = [file EXCEPT ![f] = p]
    /\ Done(p, f)
    /\ UNCHANGED <<remote, lock, row, bounds>>

\* build_real_runtime: the identities, and the room's name, which only `run` makes up.
Load(p) ==
    /\ proc[p].step = <<"load">>
    /\ LET complete == (\A r \in Roles : Whole(r)) /\ (proc[p].cmd # "run" => Whole("room"))
           next == CASE proc[p].cmd = "run"    -> <<"open", "room">>
                     [] proc[p].cmd = "resume" -> <<"read", "owner">>
                     [] proc[p].cmd = "cancel" -> <<"lock">> IN
         \/ /\ complete
            /\ proc' = [proc EXCEPT ![p].keys = [r \in Roles |-> file[r]], ![p].step = next]
         \/ ~complete /\ Leave(p)
    /\ UNCHANGED <<file, remote, lock, row, bounds>>

(***************************************************************************)
(* OwnedRoomProvisioner                                                    *)
(***************************************************************************)

Wanted(p, n) == IF n = "owner" THEN proc[p].keys["supervisor"] ELSE proc[p].keys

NextNote(p, n) ==
    proc' = [proc EXCEPT ![p].nonce = 0,
                         ![p].step = IF n = "owner" THEN <<"read", "allow">> ELSE <<"verify">>]

\* The owner is claimed when there is none; the list of those admitted is replaced.
ReadNote(p, n) ==
    /\ proc[p].step = <<"read", n>>
    /\ \/ note[n] = Wanted(p, n) /\ NextNote(p, n)
       \/ note[n] # Wanted(p, n) /\ (n = "allow" \/ note[n] = Nobody) /\ Go(p, <<"sign", n>>)
       \/ n = "owner" /\ note[n] \notin {Nobody, Wanted(p, n)} /\ Error(p)
    /\ UNCHANGED <<file, remote, lock, row, bounds>>

\* All notes are the supervisor's.
Signer(p) == proc[p].keys["supervisor"]

FaultyNonce(previous, clock) == clock + 1

\* max(clock, previous + 1); the clock may stand still or run backwards.
Nonce(previous, clock) == Max({clock, previous}) + 1

FaultyExhausted(next) == FALSE

Exhausted(next) == next > MaxNonce

\* SQLiteStore.allocate_nonce and the signature.
Sign(p, n) ==
    /\ proc[p].step = <<"sign", n>>
    /\ \E clock \in 0 .. MaxClock :
         LET next == Nonce(last[Signer(p)], clock) IN
           \/ /\ ~Exhausted(next)
              /\ last' = [last EXCEPT ![Signer(p)] = next]
              /\ proc' = [proc EXCEPT ![p].nonce = next, ![p].step = <<"post", n>>]
           \/ /\ Exhausted(next)
              /\ UNCHANGED last
              /\ Error(p)
    /\ UNCHANGED <<file, note, accepted, lock, row, bounds>>

\* The service: only the first owner is written, and only with a new nonce.
Accepts(p, n) == proc[p].nonce > accepted[Signer(p)] /\ (n = "owner" => note[n] = Nobody)

\* The write is committed, and answered or found by the read-back; or neither is known.
Posted(p, n) ==
    /\ proc[p].step = <<"post", n>> /\ Accepts(p, n)
    /\ note' = [note EXCEPT ![n] = Wanted(p, n)]
    /\ accepted' = [accepted EXCEPT ![Signer(p)] = proc[p].nonce]
    /\ NextNote(p, n) \/ Error(p)
    /\ UNCHANGED <<file, last, lock, row, bounds>>

\* The write is refused or lost; the read-back may find what another command wrote.
NotPosted(p, n) ==
    /\ proc[p].step = <<"post", n>>
    /\ Error(p) \/ (note[n] = Wanted(p, n) /\ NextNote(p, n))
    /\ UNCHANGED <<file, note, accepted, last, lock, row, bounds>>

Verify(p) ==
    /\ proc[p].step = <<"verify">>
    /\ IF \A n \in Notes : note[n] = Wanted(p, n) THEN Go(p, <<"lock">>) ELSE Error(p)
    /\ UNCHANGED <<file, remote, lock, row, bounds>>

(***************************************************************************)
(* The run lock and the run's row                                          *)
(***************************************************************************)

TakeLock(p) ==
    /\ proc[p].step = <<"lock">>
    /\ \/ lock = Nobody /\ lock' = p /\ Go(p, <<"row">>)
       \/ lock # Nobody /\ UNCHANGED lock /\ (IF proc[p].cmd = "cancel" THEN Leave(p) ELSE Error(p))
    /\ UNCHANGED <<file, remote, row, bounds>>

\* create_run: one row for each run id.
CreateRow(p) ==
    /\ proc[p].step = <<"row">> /\ proc[p].cmd = "run"
    /\ \/ row = Nobody /\ row' = proc[p].keys /\ Go(p, <<"work">>) /\ UNCHANGED lock
       \/ row # Nobody /\ Error(p) /\ lock' = Nobody /\ UNCHANGED row
    /\ UNCHANGED <<file, remote, bounds>>

\* record_participant_set: the participants must be those of the row.
MatchRow(p) ==
    /\ proc[p].step = <<"row">> /\ proc[p].cmd = "resume"
    /\ \/ row = proc[p].keys /\ Go(p, <<"work">>) /\ UNCHANGED lock
       \/ row # proc[p].keys /\ Error(p) /\ lock' = Nobody
    /\ UNCHANGED <<file, remote, row, bounds>>

(***************************************************************************)
(* Specification                                                           *)
(***************************************************************************)

\* The first step of `run`, `resume` and `identity create`; the others read the
\* resolved configuration first, as `resume` does.
Start(p, c, first) ==
    /\ proc[p].step = <<"idle">> /\ commands < MaxCommands
    /\ commands' = commands + 1
    /\ proc' = [proc EXCEPT ![p].cmd = c, ![p].step = first]
    /\ UNCHANGED <<file, remote, lock, row, faults>>

StartSetup(p) ==
    \/ Start(p, "run", <<"open", "repository">>)
    \/ Start(p, "resume", <<"ensure", "supervisor">>) /\ Whole("config")
    \/ \E r \in Roles : Start(p, "identity", <<"open", r>>)

\* A full disk, a Git that fails, a service that cannot be reached.
SetupFault(p) ==
    /\ faults < MaxFaults
    /\ \/ proc[p].step[1] \in {"open", "write", "ensure", "load"} /\ Leave(p)
       \/ proc[p].step[1] \in {"read", "verify"} /\ Error(p)
    /\ faults' = faults + 1
    /\ UNCHANGED <<file, remote, lock, row, commands>>

SetupInit ==
    /\ proc = [p \in Slots |-> Idle]
    /\ file = [f \in Files |-> Nobody]
    /\ note = [n \in Notes |-> Nobody]
    /\ accepted = [k \in Slots |-> 0] /\ last = [k \in Slots |-> 0]
    /\ lock = Nobody /\ row = Nobody
    /\ commands = 0 /\ faults = 0

SetupStep(p) ==
    \/ StartSetup(p) \/ SetupFault(p)
    \/ \E r \in Roles : Ensure(p, r)
    \/ \E f \in Files : Open(p, f) \/ Write(p, f)
    \/ Load(p)
    \/ \E n \in Notes : ReadNote(p, n) \/ Sign(p, n) \/ Posted(p, n) \/ NotPosted(p, n)
    \/ Verify(p) \/ TakeLock(p) \/ CreateRow(p) \/ MatchRow(p)
=============================================================================
