--------------------------- MODULE EventTransport ---------------------------
(***************************************************************************)
(* How accepted workflow events reach the Technocore room: _emit,          *)
(* _terminalize_run and reconcile_transports of orchestrator.py over the   *)
(* transport columns of the events table, the signed writes and reads of   *)
(* technocore.py, and the viewer that checks the room against the          *)
(* database.  Events are named by their position in the run, messages by   *)
(* their sequence number in the room.                                      *)
(***************************************************************************)
EXTENDS Naturals, Sequences, FiniteSets

CONSTANTS
    Hazards,      \* which of the faults below the model explores
    MaxEvents,    \* bound of the model: accepted events
    MaxFaults,    \* bound of the model: lost answers, refusals, hazards, crashes
    MaxOthers,    \* bound of the model: collaboration messages in the room
    MaxReaped     \* bound of the model: messages the room forgets

\* The supervisor's task is canceled or reaches its deadline; its process dies; a write
\* commits after its client gave up; the answer to a committed write is over-long.
AllHazards == {"interrupt", "crash", "late_commit", "oversized_answer"}

ASSUME TransportAssumption ==
    /\ Hazards \subseteq AllHazards
    /\ MaxEvents \in Nat \ {0}
    /\ MaxFaults \in Nat
    /\ MaxOthers \in Nat
    /\ MaxReaped \in Nat

VARIABLES
    outbox,    \* events table: transport_status and technocore_seq, in rowid order
    ended,     \* the last accepted event was terminal
    pc,        \* where the supervisor is
    mode,      \* who called publish: _emit, _terminalize_run or reconcile_transports
    target,    \* the event being published
    request,   \* what became of the POST: none, sent, committed
    receipt,   \* sequence number in the answer
    late,      \* events whose abandoned POST the service may still commit
    room,      \* the messages of the room
    unmarked,  \* collaboration messages whose call is to find them and mark their row published
    lost,      \* collaboration messages whose call has failed: their row is never published
    reaped,    \* how many of its oldest messages the room has forgotten
    cursor,    \* last sequence number the viewer has shown
    fetched,   \* last sequence number of the window the viewer is checking
    faults     \* bound

supervisorVars == <<pc, mode, target, request, receipt>>
viewerVars == <<cursor, fetched>>
otherVars == <<unmarked, lost>>
vars == <<outbox, ended, supervisorVars, late, room, otherVars, reaped, viewerVars, faults>>

Modes == {"emit", "final", "reconcile"}
Statuses == {"local_pending", "published", "uncertain", "failed"}

Other == 0   \* a collaboration message
NoSeq == 0

TypeOK ==
    /\ outbox \in Seq([status : Statuses, seq : Nat])
    /\ Len(outbox) <= MaxEvents
    /\ ended \in BOOLEAN
    /\ pc \in {"drive", "reconcile", "publish", "mark", "terminalize", "exited"}
    /\ mode \in Modes
    /\ target \in 0 .. MaxEvents
    /\ request \in {"none", "sent", "committed"}
    /\ receipt \in Nat
    /\ late \subseteq 1 .. MaxEvents
    /\ room \in Seq(0 .. MaxEvents)
    /\ unmarked \subseteq DOMAIN room
    /\ lost \subseteq DOMAIN room
    /\ reaped \in 0 .. MaxReaped
    /\ cursor \in 0 .. Len(room)
    /\ fetched \in 0 .. Len(room)
    /\ faults \in 0 .. MaxFaults

(***************************************************************************)
(* The room                                                                *)
(***************************************************************************)

\* Sequence numbers that read_room(cursor = since) returns, and RoomRead.gap_detected.
View(since) == {seq \in 1 .. Len(room) : seq > since /\ seq > reaped}
Gap(since) == View(since) # {} /\ reaped > since

Copies(event) == {seq \in 1 .. Len(room) : room[seq] = event}

\* The service commits the write at hand, or one its client has given up.
Commit ==
    /\ request = "sent"
    /\ room' = Append(room, target)
    /\ request' = "committed"
    /\ receipt' = Len(room) + 1
    /\ UNCHANGED <<outbox, ended, pc, mode, target, late, otherVars, reaped, viewerVars, faults>>

LateCommit ==
    /\ \E event \in late :
          /\ room' = Append(room, event)
          /\ late' = late \ {event}
    /\ UNCHANGED <<outbox, ended, supervisorVars, otherVars, reaped, viewerVars, faults>>

\* The service keeps a bounded history; its newest message stays.
Reap ==
    /\ reaped < MaxReaped
    /\ reaped + 1 < Len(room)
    /\ reaped' = reaped + 1
    /\ UNCHANGED <<outbox, ended, supervisorVars, late, room, otherVars, viewerVars, faults>>

(***************************************************************************)
(* Collaboration messages, in the same room.  The module Collaboration has *)
(* their rows and calls; here a message is what the viewer makes of it:    *)
(* that its row is published at its sequence number, not yet, or never.    *)
(***************************************************************************)

\* A tool or a handoff: the row is recorded and its message is committed.
OtherMessage ==
    /\ pc = "drive"
    /\ Cardinality(Copies(Other)) < MaxOthers
    /\ room' = Append(room, Other)
    /\ unmarked' = unmarked \cup {Len(room) + 1}
    /\ UNCHANGED <<outbox, ended, supervisorVars, late, lost, reaped, viewerVars, faults>>

\* The answer, or the read-back after a lost one, has the message: its row is marked.
OtherMarked ==
    /\ \E seq \in unmarked : unmarked' = unmarked \ {seq}
    /\ UNCHANGED <<outbox, ended, supervisorVars, late, room, lost, reaped, viewerVars, faults>>

\* The read-back fails as well, or the answer was over-long: the row stays uncertain or
\* failed, and nothing reads the message back again.
OtherLost ==
    /\ faults < MaxFaults
    /\ \E seq \in unmarked :
          /\ unmarked' = unmarked \ {seq}
          /\ lost' = lost \cup {seq}
    /\ faults' = faults + 1
    /\ UNCHANGED <<outbox, ended, supervisorVars, late, room, reaped, viewerVars>>

\* The service commits a message after its call was given up.
LateOther ==
    /\ "late_commit" \in Hazards
    /\ faults < MaxFaults
    /\ Cardinality(Copies(Other)) < MaxOthers
    /\ room' = Append(room, Other)
    /\ lost' = lost \cup {Len(room) + 1}
    /\ faults' = faults + 1
    /\ UNCHANGED <<outbox, ended, supervisorVars, late, unmarked, reaped, viewerVars>>

\* The end of an invocation closes its gateway, and gives up the calls in flight.
CloseGateway ==
    /\ unmarked' = {}
    /\ lost' = lost \cup unmarked

(***************************************************************************)
(* publish and its three callers                                           *)
(***************************************************************************)

FaultyUnpublished == {i \in DOMAIN outbox : outbox[i].status = "uncertain"}

Unpublished == {i \in DOMAIN outbox : outbox[i].status # "published"}

\* published_sequence_before: where the read-back of an event starts.
CursorOf(event) ==
    LET prior == {outbox[i].seq : i \in {j \in DOMAIN outbox :
                      j < event /\ outbox[j].status = "published"}}
    IN  CHOOSE seq \in prior \cup {0} : \A other \in prior : other <= seq

FaultySince(event) == CursorOf(event) + 1   \* one past the first message to look at

\* The since parameter of the read-back.
Since(event) == CursorOf(event)

Pending == [status |-> "local_pending", seq |-> NoSeq]

MarkAs(event, status, seq) == outbox' = [outbox EXCEPT ![event] = [status |-> status, seq |-> seq]]

\* TechnocoreEventPublisher.publish: the signed write leaves.
Send(event, caller) ==
    /\ target' = event
    /\ mode' = caller
    /\ request' = "sent"
    /\ receipt' = NoSeq
    /\ pc' = "publish"

Abandon == target' = 0 /\ request' = "none" /\ receipt' = NoSeq

\* _emit: the event, which may end the run, is accepted and then published.  An
\* invocation with a message that is not published is not accepted.  Room is left within
\* the bound for a terminal event.
Emit ==
    /\ pc = "drive"
    /\ unmarked = {} /\ lost = {}
    /\ outbox' = Append(outbox, Pending)
    /\ ended' \in BOOLEAN
    /\ ~ended' => Len(outbox) + 1 < MaxEvents
    /\ Send(Len(outbox) + 1, "emit")
    /\ UNCHANGED <<late, room, otherVars, reaped, viewerVars, faults>>

FaultyIsTerminal == FALSE   \* a run may be ended a second time

IsTerminal == ended

\* _terminalize_run: the terminal event waits behind unpublished ones.
Terminalize ==
    /\ pc \in {"terminalize", "drive"}
    /\ IF IsTerminal
         THEN /\ pc' = "exited"
              /\ UNCHANGED <<outbox, ended, mode, target, request, receipt>>
         ELSE /\ outbox' = Append(outbox, Pending)
              /\ ended' = TRUE
              /\ IF Unpublished = {}
                   THEN Send(Len(outbox) + 1, "final")
                   ELSE pc' = "exited" /\ UNCHANGED <<mode, target, request, receipt>>
    /\ CloseGateway
    /\ UNCHANGED <<late, room, reaped, viewerVars, faults>>

\* What publish's caller does after an answer, and after a failure.
AfterSuccess == CASE mode = "emit" -> IF IsTerminal THEN "exited" ELSE "drive"
                  [] mode = "final" -> "exited"
                  [] mode = "reconcile" -> "reconcile"

AfterFailure == IF mode = "final" THEN "exited" ELSE "terminalize"

\* publish_signed returns the posted record, and the caller marks the event.
Answer ==
    /\ pc = "publish"
    /\ request = "committed"
    /\ pc' = "mark"
    /\ UNCHANGED <<outbox, ended, mode, target, request, receipt, late, room, otherVars, reaped,
                   viewerVars, faults>>

MarkPublished ==
    /\ pc = "mark"
    /\ MarkAs(target, "published", receipt)
    /\ pc' = AfterSuccess
    /\ Abandon
    /\ UNCHANGED <<ended, mode, late, room, otherVars, reaped, viewerVars, faults>>

\* The client closes its connection: the service may still commit what it was sent.
LoseRequest == late' = IF request = "sent" /\ "late_commit" \in Hazards
                         THEN late \cup {target} ELSE late

\* WriteOutcomeUnknownError: the answer is lost, whatever became of the write.
AnswerLost ==
    /\ pc = "publish"
    /\ faults < MaxFaults
    /\ MarkAs(target, "uncertain", NoSeq)
    /\ LoseRequest
    /\ pc' = AfterFailure
    /\ faults' = faults + 1
    /\ Abandon
    /\ UNCHANGED <<ended, mode, room, otherVars, reaped, viewerVars>>

\* Any other WorkflowError: the write was refused or never left, or it was committed
\* and its answer was longer than max_response_bytes.
Refused ==
    /\ pc = "publish"
    /\ faults < MaxFaults
    /\ request = "sent" \/ "oversized_answer" \in Hazards
    /\ MarkAs(target, "failed", NoSeq)
    /\ pc' = AfterFailure
    /\ faults' = faults + 1
    /\ Abandon
    /\ UNCHANGED <<ended, mode, late, room, otherVars, reaped, viewerVars>>

(***************************************************************************)
(* reconcile_transports                                                    *)
(***************************************************************************)

Resume ==
    /\ pc = "exited"
    /\ pc' = "reconcile"
    /\ UNCHANGED <<outbox, ended, mode, target, request, receipt, late, room, otherVars, reaped,
                   viewerVars, faults>>

FaultyFirstUnpublished == CHOOSE i \in Unpublished : \A j \in Unpublished : j <= i

\* list_event_records is ordered, and a failure ends the pass.
FirstUnpublished == CHOOSE i \in Unpublished : \A j \in Unpublished : i <= j

FaultyReadBack(event) == View(Since(event))   \* takes any message for the event

\* TechnocoreEventPublisher.reconcile: the copies of the event behind the cursor.
ReadBack(event) == Copies(event) \cap View(Since(event))

FaultyNeedsReadBack(event) == FALSE   \* every event is written again

\* Only an uncertain write is read back before the event is published again.
NeedsReadBack(event) == outbox[event].status = "uncertain"

Found ==
    /\ pc = "reconcile"
    /\ Unpublished # {}
    /\ NeedsReadBack(FirstUnpublished)
    /\ ~Gap(Since(FirstUnpublished))
    /\ \E seq \in ReadBack(FirstUnpublished) :
          /\ ReadBack(FirstUnpublished) = {seq}
          /\ MarkAs(FirstUnpublished, "published", seq)
    /\ UNCHANGED <<ended, supervisorVars, late, room, otherVars, reaped, viewerVars, faults>>

PublishAgain ==
    /\ pc = "reconcile"
    /\ Unpublished # {}
    /\ NeedsReadBack(FirstUnpublished) =>
          /\ ~Gap(Since(FirstUnpublished))
          /\ ReadBack(FirstUnpublished) = {}
    /\ Send(FirstUnpublished, "reconcile")
    /\ UNCHANGED <<outbox, ended, late, room, otherVars, reaped, viewerVars, faults>>

\* A gap in the history, or two copies of one event: the event stays uncertain.
ReadBackFails ==
    /\ pc = "reconcile"
    /\ Unpublished # {}
    /\ NeedsReadBack(FirstUnpublished)
    /\ \/ Gap(Since(FirstUnpublished))
       \/ Cardinality(ReadBack(FirstUnpublished)) > 1
    /\ pc' = "terminalize"
    /\ UNCHANGED <<outbox, ended, mode, target, request, receipt, late, room, otherVars, reaped,
                   viewerVars, faults>>

Reconciled ==
    /\ pc = "reconcile"
    /\ Unpublished = {}
    /\ pc' = IF IsTerminal THEN "exited" ELSE "drive"
    /\ UNCHANGED <<outbox, ended, mode, target, request, receipt, late, room, otherVars, reaped,
                   viewerVars, faults>>

\* A cancellation or the deadline at an await: no except clause marks the event.
Interrupt ==
    /\ "interrupt" \in Hazards
    /\ faults < MaxFaults
    /\ pc \in {"reconcile", "publish"}
    /\ pc' = IF pc = "publish" THEN AfterFailure ELSE "terminalize"
    /\ LoseRequest
    /\ faults' = faults + 1
    /\ Abandon
    /\ UNCHANGED <<outbox, ended, mode, room, otherVars, reaped, viewerVars>>

Crash ==
    /\ "crash" \in Hazards
    /\ faults < MaxFaults
    /\ pc # "exited"
    /\ pc' = "exited"
    /\ LoseRequest
    /\ CloseGateway
    /\ faults' = faults + 1
    /\ Abandon
    /\ UNCHANGED <<outbox, ended, mode, room, reaped, viewerVars>>

(***************************************************************************)
(* The viewer                                                              *)
(***************************************************************************)

\* TechnocoreTimeline.read: a window of the room, then its check against the database.
Fetch ==
    /\ fetched = cursor
    /\ ~Gap(cursor)
    /\ fetched' = Len(room)
    /\ UNCHANGED <<outbox, ended, supervisorVars, late, room, otherVars, reaped, cursor, faults>>

FaultyDurableEarly(seq) ==   \* shown before it is marked
    room[seq] # Other => outbox[room[seq]].seq \in {seq, NoSeq}

FaultyDurableOther(seq) ==   \* takes every message for a workflow event
    room[seq] # Other /\ outbox[room[seq]].seq = seq

\* _collaboration_entry and _workflow_entry: the row is published at this number.
Durable(seq) ==
    IF room[seq] = Other
      THEN seq \notin unmarked \cup lost
      ELSE outbox[room[seq]].status = "published" /\ outbox[room[seq]].seq = seq

\* The window is shown as a whole, or refused as a whole and fetched again.
Show ==
    /\ fetched > cursor
    /\ IF \A seq \in (cursor + 1) .. fetched : Durable(seq)
         THEN cursor' = fetched /\ UNCHANGED fetched
         ELSE fetched' = cursor /\ UNCHANGED cursor
    /\ UNCHANGED <<outbox, ended, supervisorVars, late, room, otherVars, reaped, faults>>

(***************************************************************************)
(* Specification                                                           *)
(***************************************************************************)

Init ==
    /\ outbox = << >>
    /\ ended = FALSE
    /\ pc = "drive"
    /\ mode = "emit"
    /\ target = 0
    /\ request = "none"
    /\ receipt = NoSeq
    /\ late = {}
    /\ room = << >>
    /\ unmarked = {}
    /\ lost = {}
    /\ reaped = 0
    /\ cursor = 0
    /\ fetched = 0
    /\ faults = 0

SupervisorStep ==
    \/ Emit \/ Terminalize
    \/ Answer \/ MarkPublished \/ AnswerLost \/ Refused
    \/ Found \/ PublishAgain \/ ReadBackFails \/ Reconciled

Next ==
    \/ SupervisorStep \/ Resume \/ Interrupt \/ Crash
    \/ Commit \/ LateCommit \/ Reap
    \/ OtherMessage \/ OtherMarked \/ OtherLost \/ LateOther
    \/ Fetch \/ Show

Spec == Init /\ [][Next]_vars

\* The event loop runs, the service answers, also the tools' calls, the operator resumes a
\* stopped run and the page polls the viewer.
FairSpec ==
    /\ Spec
    /\ WF_vars(SupervisorStep)
    /\ WF_vars(Commit)
    /\ WF_vars(OtherMarked)
    /\ WF_vars(Resume)
    /\ WF_vars(Fetch)
    /\ WF_vars(Show)

(***************************************************************************)
(* Properties                                                              *)
(***************************************************************************)

\* A published event's recorded sequence number is that of a copy of it in the room,
\* whether it comes from the answer to the write or from a read-back.
ReceiptsAreReal ==
    \A i \in DOMAIN outbox : outbox[i].status = "published" =>
        outbox[i].seq \in DOMAIN room /\ room[outbox[i].seq] = i

\* The published events appear in the room in the order of their acceptance.
PublishedInOrder ==
    \A i, j \in DOMAIN outbox :
        i < j /\ outbox[j].status = "published" =>
            outbox[i].status = "published" /\ outbox[i].seq < outbox[j].seq

\* A read-back cannot overlook its event: whatever copies of an unpublished event the room
\* has, by whichever attempt, they all lie behind the cursor it reads from.
ReadBackReaches ==
    \A i \in Unpublished : \A seq \in Copies(i) : seq > Since(i)

\* The viewer shows an entry only where the database says that it is published: an event
\* never twice, even if the room has two copies of it, and no collaboration message whose
\* call failed, or is not over.
ViewerShowsDurableEvents ==
    \A seq \in 1 .. cursor :
        IF room[seq] = Other
          THEN seq \notin unmarked \cup lost
          ELSE /\ outbox[room[seq]].status = "published"
               /\ outbox[room[seq]].seq = seq

\* technocore.py: "The request may have committed; callers must reconcile before
\* retrying."  No event is written to the room twice.
AtMostOneCopy ==
    \A i \in DOMAIN outbox : Cardinality(Copies(i)) <= 1

\* Every accepted event is published in the end, and the run's end with it.
EveryEventPublished ==
    <>[](ended /\ \A i \in DOMAIN outbox : outbox[i].status = "published")

\* A message that will never be published holds up every window that it is in.
Blocked == \E seq \in lost : seq > cursor

\* The viewer reaches the end of the room, unless a collaboration message whose call failed
\* after its commit is in its way: then it stays before that message for good.
ViewerCatchesUp == <>[](cursor = Len(room) \/ Blocked)
=============================================================================
