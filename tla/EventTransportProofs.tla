------------------------ MODULE EventTransportProofs ------------------------
(***************************************************************************)
(* Proofs about EventTransport for any number of events, faults, other     *)
(* messages and forgotten ones: receipts are real and in order, a          *)
(* read-back reaches every copy, and the viewer shows what is durable.     *)
(***************************************************************************)
EXTENDS EventTransport, TLAPS, FiniteSetTheorems, WellFoundedInduction

\* An event is only ever written to the room once all events before it are published.
MayWrite(event) ==
    /\ event \in DOMAIN outbox
    /\ \A i \in 1 .. (event - 1) : outbox[i].status = "published"

\* Room is left for a terminal event; nothing new is accepted before the rest is published.
DriveFacts ==
    /\ ~ended => Len(outbox) < MaxEvents
    /\ pc = "drive" => ~ended /\ Unpublished = {}

\* The write at hand is of an event that is not published; if it is not a reconciliation's,
\* of the last one.  A receipt is the number of its copy.
WriteFacts ==
    /\ pc \in {"publish", "mark"} <=> request # "none"
    /\ pc = "mark" => request = "committed"
    /\ request # "none" =>
          /\ MayWrite(target)
          /\ outbox[target].status # "published"
          /\ mode # "reconcile" => target = Len(outbox)
    /\ request = "committed" => receipt \in DOMAIN room /\ room[receipt] = target

LateFacts == \A event \in late : MayWrite(event)

\* Each copy in the room is of an accepted event, behind the published copies of all
\* events before it.
RoomFacts ==
    \A seq \in DOMAIN room : room[seq] # Other =>
        /\ room[seq] \in DOMAIN outbox
        /\ \A i \in 1 .. (room[seq] - 1) : outbox[i].status = "published" /\ outbox[i].seq < seq

TransportInv ==
    /\ TypeOK
    /\ DriveFacts
    /\ WriteFacts
    /\ LateFacts
    /\ RoomFacts
    /\ ReceiptsAreReal
    /\ ViewerShowsDurableEvents

\* Without the hazards: an event has one copy at most, and one only while it is
\* published, uncertain, or being answered; and the room keeps its newest message.
CopyFacts ==
    /\ late = {}
    /\ \A s, t \in DOMAIN room : room[s] = room[t] /\ room[s] # Other => s = t
    /\ \A s \in DOMAIN room : room[s] # Other =>
          \/ outbox[room[s]].status \in {"published", "uncertain"}
          \/ request = "committed" /\ target = room[s]
    /\ request = "sent" => \A s \in DOMAIN room : room[s] # target
    /\ reaped = 0 \/ reaped < Len(room)

USE TransportAssumption

Entry == [status : Statuses, seq : Nat]

(***************************************************************************)
(* The outbox and the room                                                 *)
(***************************************************************************)

\* A bounded set of numbers that is not empty has a least element.
LEMMA LeastNumber ==
    ASSUME NEW numbers \in SUBSET Nat, numbers # {}
    PROVE  \E i \in numbers : \A j \in numbers : i <= j
<1>1. PICK i \in numbers : \A j \in numbers : ~ (<<j, i>> \in OpToRel(<, Nat))
  BY NatLessThanWellFounded, WFMin
<1>2. ASSUME NEW j \in numbers PROVE i <= j
  <2>1. ~ (j < i)
    BY <1>1, Zenon DEF OpToRel
  <2>. QED  BY <2>1
<1>. QED  BY <1>2

LEMMA GreatestNumber ==
    ASSUME NEW n \in Nat, NEW numbers \in SUBSET (0 .. n), numbers # {}
    PROVE  \E i \in numbers : \A j \in numbers : j <= i
<1>. DEFINE distances == {d \in 0 .. n : n - d \in numbers}
<1>1. distances \in SUBSET Nat
  BY SMT
<1>2. distances # {}
  <2>1. PICK i \in numbers : TRUE
    OBVIOUS
  <2>2. i \in 0 .. n /\ n - i \in 0 .. n /\ n - (n - i) = i
    BY SMT
  <2>. QED  BY <2>2
<1>3. PICK d \in distances : \A other \in distances : d <= other
  <2>. HIDE DEF distances
  <2>. QED  BY <1>1, <1>2, LeastNumber
<1>4. ASSUME NEW j \in numbers PROVE j <= n - d
  <2>1. j \in 0 .. n /\ n - j \in 0 .. n /\ n - (n - j) = j
    BY SMT
  <2>2. n - j \in distances
    BY <2>1
  <2>3. d \in Nat /\ d <= n - j
    BY <2>2, <1>1, <1>3
  <2>. QED  BY <2>1, <2>3, SMT
<1>. QED  BY <1>3, <1>4

\* Marking an event changes its own entry only.
LEMMA MarkKeeps ==
    ASSUME outbox \in Seq(Entry), NEW event \in DOMAIN outbox, NEW status \in Statuses,
           NEW seq \in Nat, MarkAs(event, status, seq)
    PROVE  /\ outbox' \in Seq(Entry)
           /\ Len(outbox') = Len(outbox)
           /\ DOMAIN outbox' = DOMAIN outbox
           /\ outbox'[event].status = status /\ outbox'[event].seq = seq
           /\ \A i \in DOMAIN outbox : i # event => outbox'[i] = outbox[i]
<1>. DEFINE entry == [status |-> status, seq |-> seq]
<1>1. entry \in Entry /\ entry.status = status /\ entry.seq = seq
  BY DEF Entry
<1>2. outbox' = [outbox EXCEPT ![event] = entry]
  BY DEF MarkAs
<1>. HIDE DEF entry
<1>. QED  BY <1>1, <1>2

\* Accepting an event appends its entry.
LEMMA AcceptKeeps ==
    ASSUME outbox \in Seq(Entry), outbox' = Append(outbox, Pending)
    PROVE  /\ outbox' \in Seq(Entry)
           /\ Len(outbox) \in Nat
           /\ Len(outbox') = Len(outbox) + 1
           /\ DOMAIN outbox = 1 .. Len(outbox)
           /\ DOMAIN outbox' = 1 .. (Len(outbox) + 1)
           /\ outbox'[Len(outbox) + 1].status = "local_pending"
           /\ \A i \in DOMAIN outbox : outbox'[i] = outbox[i]
<1>1. Pending \in Entry /\ Pending.status = "local_pending"
  BY DEF Pending, Entry, Statuses, NoSeq
<1>. QED  BY <1>1

\* A message is appended to the room.
LEMMA RoomKeeps ==
    ASSUME room \in Seq(0 .. MaxEvents), NEW message \in 0 .. MaxEvents,
           room' = Append(room, message)
    PROVE  /\ room' \in Seq(0 .. MaxEvents)
           /\ Len(room) \in Nat
           /\ Len(room') = Len(room) + 1
           /\ DOMAIN room = 1 .. Len(room)
           /\ DOMAIN room' = 1 .. (Len(room) + 1)
           /\ room'[Len(room) + 1] = message
           /\ \A seq \in DOMAIN room : room'[seq] = room[seq]
OBVIOUS

LEMMA Positions ==
    ASSUME TypeOK
    PROVE  /\ outbox \in Seq(Entry)
           /\ Len(outbox) \in 0 .. MaxEvents
           /\ DOMAIN outbox = 1 .. Len(outbox)
           /\ \A i \in DOMAIN outbox : i \in 1 .. MaxEvents /\ outbox[i] \in Entry
           /\ room \in Seq(0 .. MaxEvents)
           /\ Len(room) \in Nat
           /\ DOMAIN room = 1 .. Len(room)
<1>1. /\ outbox \in Seq(Entry) /\ Len(outbox) <= MaxEvents
      /\ room \in Seq(0 .. MaxEvents)
  BY DEF TypeOK, Entry
<1>. QED  BY <1>1

\* The event that a reconciliation takes is not published, and those before it are.
LEMMA FirstIsNext ==
    ASSUME TypeOK, Unpublished # {}
    PROVE  /\ FirstUnpublished \in DOMAIN outbox
           /\ outbox[FirstUnpublished].status # "published"
           /\ MayWrite(FirstUnpublished)
<1>1. Unpublished \in SUBSET Nat
  BY Positions DEF Unpublished
<1>2. \E i \in Unpublished : \A j \in Unpublished : i <= j
  BY <1>1, LeastNumber
<1>3. FirstUnpublished \in Unpublished /\ \A j \in Unpublished : FirstUnpublished <= j
  BY <1>2 DEF FirstUnpublished
<1>4. FirstUnpublished \in DOMAIN outbox /\ outbox[FirstUnpublished].status # "published"
  BY <1>3 DEF Unpublished
<1>5. ASSUME NEW i \in 1 .. (FirstUnpublished - 1) PROVE outbox[i].status = "published"
  <2>1. i \in DOMAIN outbox /\ ~ (FirstUnpublished <= i)
    BY <1>4, Positions
  <2>. QED  BY <1>3, <2>1 DEF Unpublished
<1>. QED  BY <1>4, <1>5 DEF MayWrite

\* Once everything is published, the event that is accepted next may be written.
LEMMA LastMayBeWritten ==
    ASSUME TypeOK, Unpublished = {}, outbox' = Append(outbox, Pending),
           NEW event, event = Len(outbox')
    PROVE  MayWrite(event)' /\ outbox'[event].status # "published"
<1>1. /\ outbox \in Seq(Entry) /\ DOMAIN outbox = 1 .. Len(outbox) /\ Len(outbox) \in Nat
      /\ \A i \in DOMAIN outbox : outbox[i].status = "published"
  BY Positions DEF Unpublished
<1>2. /\ DOMAIN outbox' = 1 .. (Len(outbox) + 1) /\ event = Len(outbox) + 1
      /\ outbox'[Len(outbox) + 1].status = "local_pending"
      /\ \A i \in DOMAIN outbox : outbox'[i] = outbox[i]
  BY <1>1, AcceptKeeps
<1>3. event - 1 = Len(outbox) /\ event \in DOMAIN outbox'
  BY <1>1, <1>2
<1>4. \A i \in 1 .. (event - 1) : outbox'[i].status = "published"
  BY <1>1, <1>2, <1>3
<1>. QED  BY <1>2, <1>3, <1>4 DEF MayWrite

(***************************************************************************)
(* What a step does to the outbox and to the room                          *)
(***************************************************************************)

Accepts ==
    /\ Len(outbox) < MaxEvents
    /\ outbox' = Append(outbox, Pending)

Marks ==
    \E event \in DOMAIN outbox, status \in Statuses, seq \in Nat :
        /\ outbox[event].status # "published"
        /\ MayWrite(event)
        /\ MarkAs(event, status, seq)
        /\ status = "published" => seq \in DOMAIN room /\ room[seq] = event

\* An event is accepted, or the next one to be published is marked.
LEMMA OutboxSteps ==
    ASSUME TransportInv, [Next]_vars
    PROVE  UNCHANGED outbox \/ Accepts \/ Marks
<1>. USE DEF TransportInv
<1>1. CASE Emit \/ Terminalize
  <2>1. Len(outbox) \in Nat /\ (~ended => Len(outbox) < MaxEvents) /\ (pc = "drive" => ~ended)
    BY Positions DEF DriveFacts
  <2>. QED  BY <1>1, <2>1 DEF Emit, Terminalize, Accepts, IsTerminal
<1>2. CASE MarkPublished
  <2>1. request = "committed" /\ receipt \in Nat
    BY <1>2 DEF MarkPublished, WriteFacts, TypeOK
  <2>2. MayWrite(target) /\ outbox[target].status # "published"
        /\ receipt \in DOMAIN room /\ room[receipt] = target
    BY <2>1 DEF WriteFacts
  <2>. QED  BY <1>2, <2>1, <2>2 DEF MarkPublished, Marks, MayWrite, Statuses
<1>3. CASE AnswerLost \/ Refused
  <2>1. MayWrite(target) /\ outbox[target].status # "published"
    BY <1>3 DEF AnswerLost, Refused, WriteFacts
  <2>. QED  BY <1>3, <2>1 DEF AnswerLost, Refused, Marks, MayWrite, Statuses, NoSeq
<1>4. CASE Found
  <2>1. PICK seq \in ReadBack(FirstUnpublished) : MarkAs(FirstUnpublished, "published", seq)
    BY <1>4 DEF Found
  <2>2. seq \in Nat /\ seq \in DOMAIN room /\ room[seq] = FirstUnpublished
    BY Positions DEF ReadBack, Copies
  <2>3. /\ FirstUnpublished \in DOMAIN outbox /\ MayWrite(FirstUnpublished)
        /\ outbox[FirstUnpublished].status # "published"
    BY <1>4, FirstIsNext DEF Found
  <2>. QED  BY <2>1, <2>2, <2>3 DEF Marks, Statuses
<1>5. CASE \/ Answer \/ PublishAgain \/ ReadBackFails \/ Reconciled
           \/ Resume \/ Interrupt \/ Crash
  BY <1>5 DEF Answer, PublishAgain, ReadBackFails, Reconciled, Resume, Interrupt, Crash
<1>6. CASE Commit \/ LateCommit \/ OtherMessage \/ OtherMarked \/ OtherLost \/ LateOther
           \/ Reap \/ Fetch \/ Show \/ UNCHANGED vars
  BY <1>6 DEF Commit, LateCommit, OtherMessage, OtherMarked, OtherLost, LateOther, Reap, Fetch,
              Show, vars
<1>. QED  BY <1>1, <1>2, <1>3, <1>4, <1>5, <1>6 DEF Next, SupervisorStep

Posts ==
    \E message \in 0 .. MaxEvents :
        /\ room' = Append(room, message)
        /\ message = Other \/ MayWrite(message)
        /\ UNCHANGED outbox

\* A message is another's, or of an event that may be written.
LEMMA RoomSteps ==
    ASSUME TransportInv, [Next]_vars
    PROVE  UNCHANGED room \/ Posts
<1>. USE DEF TransportInv
<1>1. CASE Commit
  <2>1. target \in 0 .. MaxEvents /\ MayWrite(target)
    BY <1>1 DEF Commit, WriteFacts, TypeOK
  <2>. QED  BY <1>1, <2>1 DEF Commit, Posts
<1>2. CASE LateCommit
  <2>1. \A event \in late : event \in 0 .. MaxEvents /\ MayWrite(event)
    BY DEF LateFacts, TypeOK
  <2>. QED  BY <1>2, <2>1 DEF LateCommit, Posts
<1>3. CASE OtherMessage \/ LateOther
  BY <1>3 DEF OtherMessage, LateOther, Posts, Other
<1>4. CASE \/ Emit \/ Terminalize \/ Answer \/ MarkPublished \/ AnswerLost \/ Refused
           \/ Found \/ PublishAgain \/ ReadBackFails \/ Reconciled
  BY <1>4 DEF Emit, Terminalize, Answer, MarkPublished, AnswerLost, Refused, Found,
              PublishAgain, ReadBackFails, Reconciled
<1>5. CASE \/ Resume \/ Interrupt \/ Crash \/ OtherMarked \/ OtherLost \/ Reap
           \/ Fetch \/ Show \/ UNCHANGED vars
  BY <1>5 DEF Resume, Interrupt, Crash, OtherMarked, OtherLost, Reap, Fetch, Show, vars
<1>. QED  BY <1>1, <1>2, <1>3, <1>4, <1>5 DEF Next, SupervisorStep

\* Published entries and messages stay as they are.
Grows ==
    /\ Len(outbox) <= Len(outbox')
    /\ \A i \in DOMAIN outbox :
          i \in DOMAIN outbox' /\ (outbox[i].status = "published" => outbox'[i] = outbox[i])
    /\ Len(room) <= Len(room')
    /\ \A seq \in DOMAIN room : seq \in DOMAIN room' /\ room'[seq] = room[seq]

LEMMA StepsGrow ==
    ASSUME TransportInv, [Next]_vars
    PROVE  /\ Grows
           /\ outbox' \in Seq(Entry) /\ Len(outbox') <= MaxEvents
           /\ room' \in Seq(0 .. MaxEvents)
<1>0. TypeOK
  BY DEF TransportInv
<1>1. /\ outbox' \in Seq(Entry) /\ Len(outbox') <= MaxEvents /\ Len(outbox) <= Len(outbox')
      /\ \A i \in DOMAIN outbox :
            i \in DOMAIN outbox' /\ (outbox[i].status = "published" => outbox'[i] = outbox[i])
  <2>1. CASE UNCHANGED outbox
    BY <1>0, <2>1, Positions
  <2>2. CASE Accepts
    BY <1>0, <2>2, Positions, AcceptKeeps DEF Accepts
  <2>3. CASE Marks
    <3>1. PICK event \in DOMAIN outbox, status \in Statuses, seq \in Nat :
               outbox[event].status # "published" /\ MarkAs(event, status, seq)
      BY <2>3 DEF Marks
    <3>2. outbox \in Seq(Entry) /\ Len(outbox) \in 0 .. MaxEvents
      BY <1>0, Positions
    <3>. QED  BY <3>1, <3>2, MarkKeeps
  <2>. QED  BY <2>1, <2>2, <2>3, OutboxSteps
<1>2. /\ room' \in Seq(0 .. MaxEvents) /\ Len(room) <= Len(room')
      /\ \A seq \in DOMAIN room : seq \in DOMAIN room' /\ room'[seq] = room[seq]
  <2>1. CASE UNCHANGED room
    BY <1>0, <2>1, Positions
  <2>2. CASE Posts
    <3>1. PICK message \in 0 .. MaxEvents : room' = Append(room, message)
      BY <2>2 DEF Posts
    <3>. QED  BY <1>0, <3>1, Positions, RoomKeeps
  <2>. QED  BY <2>1, <2>2, RoomSteps
<1>. QED  BY <1>1, <1>2 DEF Grows

\* What may be written stays so.
LEMMA MayWriteStays ==
    ASSUME TransportInv, [Next]_vars, NEW event, MayWrite(event)
    PROVE  MayWrite(event)'
<1>1. Grows /\ DOMAIN outbox = 1 .. Len(outbox) /\ Len(outbox) \in Nat
  BY StepsGrow, Positions DEF TransportInv
<1>2. event \in 1 .. Len(outbox)
  BY <1>1 DEF MayWrite
<1>3. \A i \in 1 .. (event - 1) : i \in DOMAIN outbox
  BY <1>1, <1>2
<1>. QED  BY <1>1, <1>3 DEF MayWrite, Grows

(***************************************************************************)
(* The invariant                                                           *)
(***************************************************************************)

LEMMA TransportInit == Init => TransportInv
<1>. SUFFICES ASSUME Init PROVE TransportInv
  OBVIOUS
<1>1. TypeOK
  <2>1. outbox \in Seq([status : Statuses, seq : Nat]) /\ Len(outbox) = 0
    BY DEF Init
  <2>2. room \in Seq(0 .. MaxEvents) /\ Len(room) = 0
    BY DEF Init
  <2>3. MaxEvents \in Nat /\ MaxReaped \in Nat /\ MaxFaults \in Nat
    OBVIOUS
  <2>4. /\ ended \in BOOLEAN /\ mode \in Modes
        /\ pc \in {"drive", "reconcile", "publish", "mark", "terminalize", "exited"}
        /\ request \in {"none", "sent", "committed"}
        /\ late \subseteq 1 .. MaxEvents
        /\ unmarked \subseteq DOMAIN room /\ lost \subseteq DOMAIN room
    BY DEF Init, Modes
  <2>5. /\ target \in 0 .. MaxEvents /\ receipt \in Nat /\ Len(outbox) <= MaxEvents
        /\ reaped \in 0 .. MaxReaped /\ faults \in 0 .. MaxFaults
        /\ cursor \in 0 .. Len(room) /\ fetched \in 0 .. Len(room)
    BY <2>1, <2>2, <2>3 DEF Init, NoSeq
  <2>. QED  BY <2>1, <2>2, <2>4, <2>5 DEF TypeOK
<1>2. DriveFacts /\ WriteFacts /\ LateFacts /\ RoomFacts
  BY DEF Init, DriveFacts, WriteFacts, LateFacts, RoomFacts, Unpublished
<1>3. ReceiptsAreReal /\ ViewerShowsDurableEvents
  BY DEF Init, ReceiptsAreReal, ViewerShowsDurableEvents
<1>. QED  BY <1>1, <1>2, <1>3 DEF TransportInv

\* A message whose row is not published is one of those, or is new in the room.
LEMMA OthersNext ==
    ASSUME TransportInv, [Next]_vars
    PROVE  \A seq \in (unmarked \cup lost)' :
              \/ seq \in unmarked \cup lost
              \/ seq = Len(room) + 1 /\ room' = Append(room, Other)
<1>1. CASE OtherMessage \/ OtherMarked \/ OtherLost \/ LateOther
  BY <1>1 DEF OtherMessage, OtherMarked, OtherLost, LateOther
<1>2. CASE Terminalize \/ Crash
  BY <1>2 DEF Terminalize, Crash, CloseGateway
<1>3. CASE ~ (OtherMessage \/ OtherMarked \/ OtherLost \/ LateOther \/ Terminalize \/ Crash)
  <2>1. UNCHANGED otherVars
    BY <1>3 DEF Next, SupervisorStep, vars, Emit, Answer, MarkPublished, AnswerLost, Refused,
       Found, PublishAgain, ReadBackFails, Reconciled, Resume, Interrupt, Commit, LateCommit,
       Reap, Fetch, Show
  <2>. QED  BY <2>1 DEF otherVars
<1>. QED  BY <1>1, <1>2, <1>3

LEMMA TypeNext ==
    ASSUME TransportInv, [Next]_vars
    PROVE  TypeOK'
<1>0. /\ TypeOK /\ Len(outbox) \in 0 .. MaxEvents
      /\ outbox' \in Seq(Entry) /\ Len(outbox') <= MaxEvents
      /\ room' \in Seq(0 .. MaxEvents) /\ Len(room) \in Nat /\ Len(room') \in Nat
      /\ Len(room) <= Len(room')
  BY StepsGrow, Positions DEF TransportInv, Grows
<1>1. /\ ended' \in BOOLEAN
      /\ pc' \in {"drive", "reconcile", "publish", "mark", "terminalize", "exited"}
      /\ mode' \in Modes
      /\ request' \in {"none", "sent", "committed"}
  BY <1>0 DEF TypeOK, Next, SupervisorStep, vars, supervisorVars, Modes, Send, Abandon,
     AfterSuccess, AfterFailure, IsTerminal, Emit, Terminalize, Answer, MarkPublished,
     AnswerLost, Refused, Found, PublishAgain, ReadBackFails, Reconciled, Resume, Interrupt,
     Crash, Commit, LateCommit, OtherMessage, OtherMarked, OtherLost, LateOther, Reap, Fetch, Show
<1>2. target' \in 0 .. MaxEvents /\ receipt' \in Nat
  <2>1. CASE Emit \/ Terminalize
    <3>1. Len(outbox) + 1 \in 0 .. MaxEvents \/ target' = target
      BY <1>0, <2>1 DEF TransportInv, DriveFacts, Emit, Terminalize, IsTerminal
    <3>. QED  BY <1>0, <2>1, <3>1 DEF Emit, Terminalize, Send, TypeOK, NoSeq
  <2>2. CASE PublishAgain
    <3>1. FirstUnpublished \in 0 .. MaxEvents
      BY <1>0, <2>2, FirstIsNext, Positions DEF PublishAgain
    <3>. QED  BY <2>2, <3>1 DEF PublishAgain, Send, NoSeq
  <2>3. CASE Commit
    BY <1>0, <2>3 DEF Commit, TypeOK
  <2>4. CASE ~ (Emit \/ Terminalize \/ PublishAgain \/ Commit)
    BY <1>0, <2>4 DEF TypeOK, Next, SupervisorStep, vars, supervisorVars, Abandon, NoSeq,
       Answer, MarkPublished, AnswerLost, Refused, Found, ReadBackFails, Reconciled, Resume,
       Interrupt, Crash, LateCommit, OtherMessage, OtherMarked, OtherLost, LateOther, Reap,
       Fetch, Show
  <2>. QED  BY <2>1, <2>2, <2>3, <2>4
<1>3. late' \subseteq 1 .. MaxEvents
  <2>1. request = "sent" => target \in 1 .. MaxEvents
    BY <1>0, Positions DEF TransportInv, WriteFacts, MayWrite
  <2>. QED  BY <1>0, <2>1 DEF TypeOK, Next, SupervisorStep, vars, LoseRequest,
     Emit, Terminalize, Answer, MarkPublished, AnswerLost, Refused, Found, PublishAgain,
     ReadBackFails, Reconciled, Resume, Interrupt, Crash, Commit, LateCommit, OtherMessage, OtherMarked,
     OtherLost, LateOther,
     Reap, Fetch, Show
<1>4. reaped' \in 0 .. MaxReaped /\ faults' \in 0 .. MaxFaults
  <2>1. CASE Reap
    BY <1>0, <2>1 DEF TypeOK, Reap
  <2>2. CASE ~ Reap
    <3>1. reaped' = reaped
      BY <2>2 DEF Next, SupervisorStep, vars, Emit, Terminalize, Answer, MarkPublished,
         AnswerLost, Refused, Found, PublishAgain, ReadBackFails, Reconciled, Resume,
         Interrupt, Crash, Commit, LateCommit, OtherMessage, OtherMarked, OtherLost, LateOther,
         Fetch, Show
    <3>2. faults' = faults \/ (faults < MaxFaults /\ faults' = faults + 1)
      BY <2>2 DEF Next, SupervisorStep, vars, Emit, Terminalize, Answer, MarkPublished,
         AnswerLost, Refused, Found, PublishAgain, ReadBackFails, Reconciled, Resume,
         Interrupt, Crash, Commit, LateCommit, OtherMessage, OtherMarked, OtherLost, LateOther,
         Fetch, Show
    <3>. QED  BY <1>0, <3>1, <3>2 DEF TypeOK
  <2>. QED  BY <2>1, <2>2
<1>5. cursor' \in 0 .. Len(room') /\ fetched' \in 0 .. Len(room')
  <2>1. /\ cursor' \in {cursor, fetched}
        /\ fetched' \in {cursor, fetched, Len(room)}
    BY DEF Next, SupervisorStep, vars, viewerVars, Emit, Terminalize, Answer, MarkPublished,
     AnswerLost, Refused, Found, PublishAgain, ReadBackFails, Reconciled, Resume, Interrupt,
     Crash, Commit, LateCommit, OtherMessage, OtherMarked, OtherLost, LateOther, Reap, Fetch, Show
  <2>. QED  BY <1>0, <2>1 DEF TypeOK
<1>6. unmarked' \subseteq DOMAIN room' /\ lost' \subseteq DOMAIN room'
  <2>1. \A seq \in DOMAIN room : seq \in DOMAIN room'
    BY StepsGrow DEF Grows
  <2>2. room' = Append(room, Other) => Len(room) + 1 \in DOMAIN room'
    BY <1>0 DEF TypeOK
  <2>. QED  BY <1>0, <2>1, <2>2, OthersNext DEF TypeOK
<1>. QED  BY <1>0, <1>1, <1>2, <1>3, <1>4, <1>5, <1>6 DEF TypeOK, Entry

\* The run's end, and what is accepted while the run is driven.
LEMMA DriveNext ==
    ASSUME TransportInv, [Next]_vars
    PROVE  DriveFacts'
<1>0. /\ TypeOK /\ DriveFacts /\ outbox \in Seq(Entry)
      /\ Len(outbox) \in 0 .. MaxEvents /\ DOMAIN outbox = 1 .. Len(outbox)
  BY Positions DEF TransportInv
<1>1. CASE Emit \/ Terminalize
  <2>1. Len(outbox') = Len(outbox) + 1 \/ outbox' = outbox
    BY <1>0, <1>1, AcceptKeeps DEF Emit, Terminalize
  <2>2. CASE Emit
    BY <1>0, <2>1, <2>2, AcceptKeeps DEF Emit, Send, DriveFacts
  <2>3. CASE Terminalize
    BY <1>0, <2>3 DEF Terminalize, IsTerminal, Send, DriveFacts, Unpublished
  <2>. QED  BY <1>1, <2>2, <2>3
<1>2. CASE MarkPublished
  <2>1. MarkAs(target, "published", receipt) /\ receipt \in Nat /\ "published" \in Statuses
    BY <1>0, <1>2 DEF MarkPublished, TypeOK, Statuses
  <2>2. MayWrite(target) /\ (mode # "reconcile" => target = Len(outbox))
    BY <1>2 DEF MarkPublished, TransportInv, WriteFacts
  <2>3. /\ DOMAIN outbox' = DOMAIN outbox /\ Len(outbox') = Len(outbox)
        /\ outbox'[target].status = "published"
        /\ \A i \in DOMAIN outbox : i # target => outbox'[i] = outbox[i]
    BY <1>0, <2>1, <2>2, MarkKeeps DEF MayWrite
  <2>4. pc' = "drive" => mode # "reconcile" /\ ~ended
    BY <1>0, <1>2 DEF MarkPublished, AfterSuccess, IsTerminal, TypeOK, Modes
  <2>5. target = Len(outbox) => Unpublished' = {}
    <3>1. target = Len(outbox) => \A i \in DOMAIN outbox : i = target \/ i \in 1 .. (target - 1)
      BY <1>0
    <3>. QED  BY <2>2, <2>3, <3>1 DEF MayWrite, Unpublished
  <2>. QED  BY <1>0, <1>2, <2>2, <2>3, <2>4, <2>5 DEF MarkPublished, DriveFacts
<1>3. CASE AnswerLost \/ Refused \/ Found
  <2>1. ended' = ended /\ pc' # "drive"
    BY <1>3 DEF AnswerLost, Refused, Found, AfterFailure, supervisorVars
  <2>2. PICK event \in DOMAIN outbox, status \in Statuses, seq \in Nat : MarkAs(event, status, seq)
    <3>1. CASE AnswerLost \/ Refused
      <4>1. target \in DOMAIN outbox
        BY <3>1 DEF TransportInv, WriteFacts, MayWrite, AnswerLost, Refused
      <4>. QED  BY <3>1, <4>1 DEF AnswerLost, Refused, Statuses, NoSeq
    <3>2. CASE Found
      <4>1. FirstUnpublished \in DOMAIN outbox
        BY <1>0, <3>2, FirstIsNext DEF Found
      <4>2. \A seq \in ReadBack(FirstUnpublished) : seq \in Nat
        BY <1>0, Positions DEF ReadBack, Copies
      <4>. QED  BY <3>2, <4>1, <4>2 DEF Found, Statuses
    <3>. QED  BY <1>3, <3>1, <3>2
  <2>3. Len(outbox') = Len(outbox)
    BY <1>0, <2>2, MarkKeeps
  <2>. QED  BY <1>0, <2>1, <2>3 DEF DriveFacts
<1>4. CASE \/ Answer \/ PublishAgain \/ ReadBackFails \/ Reconciled
           \/ Resume \/ Interrupt \/ Crash
  BY <1>0, <1>4 DEF Answer, PublishAgain, ReadBackFails, Reconciled, Resume, Interrupt, Crash,
     Send, AfterFailure, DriveFacts, Unpublished, IsTerminal
<1>5. CASE Commit \/ LateCommit \/ OtherMessage \/ OtherMarked \/ OtherLost \/ LateOther
           \/ Reap \/ Fetch \/ Show \/ UNCHANGED vars
  BY <1>0, <1>5 DEF Commit, LateCommit, OtherMessage, OtherMarked, OtherLost, LateOther, Reap,
                    Fetch, Show, vars, supervisorVars,
     DriveFacts, Unpublished
<1>. QED  BY <1>1, <1>2, <1>3, <1>4, <1>5 DEF Next, SupervisorStep

\* The write at hand.
LEMMA WriteNext ==
    ASSUME TransportInv, [Next]_vars
    PROVE  WriteFacts'
<1>0. /\ TypeOK /\ WriteFacts /\ DriveFacts
      /\ DOMAIN outbox = 1 .. Len(outbox) /\ Len(outbox) \in Nat
      /\ DOMAIN room = 1 .. Len(room) /\ Len(room) \in Nat /\ room \in Seq(0 .. MaxEvents)
  BY Positions DEF TransportInv
<1>1. CASE Emit \/ Terminalize
  <2>1. CASE UNCHANGED request
    BY <1>0, <1>1, <2>1 DEF Emit, Terminalize, WriteFacts, MayWrite, Send, IsTerminal
  <2>2. CASE request' # request
    <3>1. /\ Unpublished = {} /\ outbox' = Append(outbox, Pending)
          /\ target' = Len(outbox) + 1 /\ request' = "sent" /\ pc' = "publish"
      BY <1>0, <1>1, <2>2 DEF Emit, Terminalize, Send, IsTerminal, DriveFacts
    <3>2. Len(outbox') = Len(outbox) + 1
      BY <1>0, <3>1, AcceptKeeps, Positions
    <3>3. MayWrite(target)' /\ outbox'[target'].status # "published"
      BY <1>0, <3>1, <3>2, LastMayBeWritten
    <3>. QED  BY <3>1, <3>2, <3>3 DEF WriteFacts
  <2>. QED  BY <2>1, <2>2
<1>2. CASE PublishAgain
  <2>1. /\ FirstUnpublished \in DOMAIN outbox /\ MayWrite(FirstUnpublished)
        /\ outbox[FirstUnpublished].status # "published"
    BY <1>0, <1>2, FirstIsNext DEF PublishAgain
  <2>. QED  BY <1>2, <2>1 DEF PublishAgain, Send, WriteFacts, MayWrite
<1>3. CASE Answer
  BY <1>0, <1>3 DEF Answer, WriteFacts, MayWrite
<1>4. CASE MarkPublished \/ AnswerLost \/ Refused \/ Interrupt \/ Crash
  BY <1>0, <1>4 DEF MarkPublished, AnswerLost, Refused, Interrupt, Crash, Abandon,
     AfterSuccess, AfterFailure, WriteFacts, TypeOK, Modes
<1>5. CASE Found \/ ReadBackFails \/ Reconciled \/ Resume
  BY <1>0, <1>5 DEF Found, ReadBackFails, Reconciled, Resume, supervisorVars, WriteFacts
<1>6. CASE Commit
  <2>1. /\ room' = Append(room, target) /\ target \in 0 .. MaxEvents
        /\ receipt' = Len(room) + 1 /\ request = "sent" /\ request' = "committed"
        /\ UNCHANGED <<outbox, pc, mode, target>>
    BY <1>0, <1>6 DEF Commit, TypeOK
  <2>2. receipt' \in DOMAIN room' /\ room'[receipt'] = target
    BY <1>0, <2>1, RoomKeeps
  <2>. QED  BY <1>0, <2>1, <2>2 DEF WriteFacts, MayWrite
<1>7. CASE LateCommit \/ OtherMessage \/ OtherMarked \/ OtherLost \/ LateOther
           \/ Reap \/ Fetch \/ Show \/ UNCHANGED vars
  <2>1. UNCHANGED <<outbox, supervisorVars>>
    BY <1>7 DEF LateCommit, OtherMessage, OtherMarked, OtherLost, LateOther, Reap, Fetch, Show, vars
  <2>. QED  BY <1>0, <2>1, StepsGrow DEF WriteFacts, MayWrite, supervisorVars, Grows
<1>. QED  BY <1>1, <1>2, <1>3, <1>4, <1>5, <1>6, <1>7 DEF Next, SupervisorStep

\* The abandoned writes that may still be committed.
LEMMA LateNext ==
    ASSUME TransportInv, [Next]_vars
    PROVE  LateFacts'
<1>1. late' \subseteq late \/ (late' = late \cup {target} /\ request = "sent")
  BY DEF Next, SupervisorStep, vars, LoseRequest, Emit, Terminalize, Answer, MarkPublished,
     AnswerLost, Refused, Found, PublishAgain, ReadBackFails, Reconciled, Resume, Interrupt,
     Crash, Commit, LateCommit, OtherMessage, OtherMarked, OtherLost, LateOther, Reap, Fetch, Show
<1>2. request = "sent" => MayWrite(target)
  BY DEF TransportInv, WriteFacts
<1>3. \A event \in late' : MayWrite(event)
  BY <1>1, <1>2 DEF TransportInv, LateFacts
<1>4. ASSUME NEW event \in late' PROVE MayWrite(event)'
  BY <1>3, <1>4, MayWriteStays
<1>. QED  BY <1>4 DEF LateFacts

\* A receipt, once marked, stays; a new one is the number of a copy.
LEMMA ReceiptsNext ==
    ASSUME TransportInv, [Next]_vars
    PROVE  ReceiptsAreReal'
<1>0. TypeOK /\ ReceiptsAreReal /\ Grows /\ outbox \in Seq(Entry)
  BY StepsGrow, Positions DEF TransportInv
<1>. SUFFICES ASSUME NEW i, i \in DOMAIN outbox', outbox'[i].status = "published"
              PROVE  outbox'[i].seq \in DOMAIN room /\ room[outbox'[i].seq] = i
  BY <1>0 DEF ReceiptsAreReal, Grows
<1>1. CASE UNCHANGED outbox
  BY <1>0, <1>1 DEF ReceiptsAreReal
<1>2. CASE Accepts
  BY <1>0, <1>2, AcceptKeeps DEF Accepts, ReceiptsAreReal
<1>3. CASE Marks
  <2>1. PICK event \in DOMAIN outbox, status \in Statuses, seq \in Nat :
             /\ MarkAs(event, status, seq)
             /\ status = "published" => seq \in DOMAIN room /\ room[seq] = event
    BY <1>3 DEF Marks
  <2>2. /\ DOMAIN outbox' = DOMAIN outbox
        /\ outbox'[event].status = status /\ outbox'[event].seq = seq
        /\ \A j \in DOMAIN outbox : j # event => outbox'[j] = outbox[j]
    BY <1>0, <2>1, MarkKeeps
  <2>. QED  BY <1>0, <2>1, <2>2 DEF ReceiptsAreReal
<1>. QED  BY <1>1, <1>2, <1>3, OutboxSteps

\* A new copy lies behind the receipts of the events before its own.
LEMMA RoomNext ==
    ASSUME TransportInv, [Next]_vars
    PROVE  RoomFacts'
<1>0. /\ TypeOK /\ ReceiptsAreReal /\ RoomFacts /\ Grows
      /\ DOMAIN outbox = 1 .. Len(outbox) /\ Len(outbox) \in Nat
      /\ DOMAIN room = 1 .. Len(room) /\ Len(room) \in Nat /\ room \in Seq(0 .. MaxEvents)
  BY StepsGrow, Positions DEF TransportInv
<1>1. ASSUME NEW seq \in DOMAIN room, room[seq] # Other
      PROVE  /\ room[seq] \in DOMAIN outbox'
             /\ \A i \in 1 .. (room[seq] - 1) : outbox'[i].status = "published" /\ outbox'[i].seq < seq
  <2>1. /\ room[seq] \in 1 .. Len(outbox)
        /\ \A i \in 1 .. (room[seq] - 1) : outbox[i].status = "published" /\ outbox[i].seq < seq
    BY <1>0, <1>1 DEF RoomFacts
  <2>2. \A i \in 1 .. (room[seq] - 1) : i \in DOMAIN outbox
    BY <1>0, <2>1
  <2>. QED  BY <1>0, <2>1, <2>2 DEF Grows
<1>2. CASE UNCHANGED room
  BY <1>1, <1>2 DEF RoomFacts
<1>3. CASE Posts
  <2>1. PICK message \in 0 .. MaxEvents :
             /\ room' = Append(room, message)
             /\ message = Other \/ MayWrite(message)
             /\ UNCHANGED outbox
    BY <1>3 DEF Posts
  <2>2. /\ DOMAIN room' = 1 .. (Len(room) + 1) /\ room'[Len(room) + 1] = message
        /\ \A seq \in DOMAIN room : room'[seq] = room[seq]
    BY <1>0, <2>1, RoomKeeps
  <2>3. ASSUME message # Other, NEW i \in 1 .. (message - 1)
        PROVE  outbox[i].status = "published" /\ outbox[i].seq < Len(room) + 1
    <3>1. MayWrite(message)
      BY <2>1, <2>3
    <3>2. outbox[i].status = "published" /\ message \in 1 .. Len(outbox)
      BY <1>0, <2>3, <3>1 DEF MayWrite
    <3>3. i \in DOMAIN outbox
      BY <1>0, <2>3, <3>2
    <3>4. outbox[i].seq \in 1 .. Len(room)
      BY <1>0, <3>2, <3>3 DEF ReceiptsAreReal
    <3>. QED  BY <1>0, <3>2, <3>4
  <2>4. message # Other => message \in DOMAIN outbox
    BY <2>1 DEF MayWrite
  <2>. QED
    <3>. SUFFICES ASSUME NEW seq, seq \in DOMAIN room', room'[seq] # Other
                  PROVE  /\ room'[seq] \in DOMAIN outbox'
                         /\ \A i \in 1 .. (room'[seq] - 1) :
                               outbox'[i].status = "published" /\ outbox'[i].seq < seq
      BY DEF RoomFacts
    <3>1. CASE seq \in DOMAIN room
      BY <1>1, <2>2, <3>1
    <3>2. CASE seq = Len(room) + 1
      BY <2>1, <2>2, <2>3, <2>4, <3>2
    <3>. QED  BY <1>0, <2>2, <3>1, <3>2
<1>. QED  BY <1>2, <1>3, RoomSteps

\* The viewer moves past what it has checked only.
LEMMA ViewerNext ==
    ASSUME TransportInv, [Next]_vars
    PROVE  ViewerShowsDurableEvents'
<1>0. /\ TypeOK /\ ViewerShowsDurableEvents /\ RoomFacts /\ Grows
      /\ DOMAIN room = 1 .. Len(room) /\ Len(room) \in Nat
      /\ cursor \in 0 .. Len(room) /\ fetched \in 0 .. Len(room)
  BY StepsGrow, Positions DEF TransportInv, TypeOK
<1>1. cursor' = cursor \/ (Show /\ cursor' = fetched /\ \A seq \in (cursor + 1) .. fetched : Durable(seq))
  BY DEF Next, SupervisorStep, vars, viewerVars, Emit, Terminalize, Answer, MarkPublished,
     AnswerLost, Refused, Found, PublishAgain, ReadBackFails, Reconciled, Resume, Interrupt,
     Crash, Commit, LateCommit, OtherMessage, OtherMarked, OtherLost, LateOther, Reap, Fetch, Show
<1>2. ASSUME NEW seq \in 1 .. cursor' PROVE Durable(seq)
  <2>1. CASE seq \in 1 .. cursor
    BY <2>1, <1>0 DEF ViewerShowsDurableEvents, Durable
  <2>2. CASE ~ (seq \in 1 .. cursor)
    BY <1>0, <1>1, <2>2
  <2>. QED  BY <2>1, <2>2
<1>3. \A seq \in 1 .. cursor' : seq \in DOMAIN room /\ seq # Len(room) + 1
  BY <1>0, <1>1
<1>4. \A seq \in DOMAIN room : room'[seq] = room[seq]
  BY <1>0 DEF Grows
<1>5. \A seq \in DOMAIN room : room[seq] # Other => room[seq] \in DOMAIN outbox
  BY <1>0 DEF RoomFacts
<1>. SUFFICES ASSUME NEW seq, seq \in 1 .. cursor'
              PROVE  IF room[seq] = Other
                       THEN seq \notin (unmarked \cup lost)'
                       ELSE /\ outbox'[room[seq]].status = "published"
                            /\ outbox'[room[seq]].seq = seq
  BY <1>3, <1>4 DEF ViewerShowsDurableEvents
<1>6. CASE room[seq] = Other
  <2>1. seq \notin unmarked \cup lost /\ seq # Len(room) + 1
    BY <1>2, <1>3, <1>6 DEF Durable
  <2>. QED  BY <1>6, <2>1, OthersNext
<1>7. CASE room[seq] # Other
  BY <1>0, <1>2, <1>3, <1>5, <1>7 DEF Durable, Grows
<1>. QED  BY <1>6, <1>7

LEMMA TransportNext == TransportInv /\ [Next]_vars => TransportInv'
BY TypeNext, DriveNext, WriteNext, LateNext, RoomNext, ReceiptsNext, ViewerNext
   DEF TransportInv

(***************************************************************************)
(* What the invariant says of order and of read-backs                      *)
(***************************************************************************)

\* The copy that an event's receipt names lies behind those of the events before it.
LEMMA OrderHolds == TransportInv => PublishedInOrder
<1>. SUFFICES ASSUME TransportInv, NEW i \in DOMAIN outbox, NEW j \in DOMAIN outbox,
                     i < j, outbox[j].status = "published"
              PROVE  outbox[i].status = "published" /\ outbox[i].seq < outbox[j].seq
  BY DEF PublishedInOrder
<1>1. /\ outbox[j].seq \in DOMAIN room /\ room[outbox[j].seq] = j
      /\ DOMAIN outbox = 1 .. Len(outbox) /\ Len(outbox) \in Nat
  BY Positions DEF TransportInv, ReceiptsAreReal
<1>2. i \in 1 .. (j - 1) /\ j # Other
  BY <1>1 DEF Other
<1>. QED  BY <1>1, <1>2 DEF TransportInv, RoomFacts

\* The cursor is the sequence number of a published event before the given one, or zero.
LEMMA CursorIsPrior ==
    ASSUME TransportInv, NEW event \in DOMAIN outbox
    PROVE  /\ CursorOf(event) \in 0 .. Len(room)
           /\ \/ CursorOf(event) = 0
              \/ \E j \in DOMAIN outbox : /\ j < event /\ outbox[j].status = "published"
                                          /\ CursorOf(event) = outbox[j].seq
<1>. DEFINE before == {j \in DOMAIN outbox : j < event /\ outbox[j].status = "published"}
            prior == {outbox[i].seq : i \in before}
<1>1. DOMAIN room = 1 .. Len(room) /\ Len(room) \in Nat
  BY Positions DEF TransportInv
<1>2. \A i \in before : outbox[i].seq \in 1 .. Len(room)
  BY <1>1 DEF TransportInv, ReceiptsAreReal
<1>3. prior \subseteq 0 .. Len(room)
  <2>. HIDE DEF before
  <2>. QED  BY <1>1, <1>2
<1>4. CursorOf(event) = CHOOSE seq \in prior \cup {0} : \A other \in prior : other <= seq
  BY DEF CursorOf
<1>5. \E seq \in prior \cup {0} : \A other \in prior : other <= seq
  <2>. HIDE DEF prior
  <2>1. prior \cup {0} \in SUBSET (0 .. Len(room)) /\ prior \cup {0} # {}
    BY <1>1, <1>3
  <2>2. PICK seq \in prior \cup {0} : \A other \in prior \cup {0} : other <= seq
    BY <1>1, <2>1, GreatestNumber, Zenon
  <2>. QED  BY <2>2
<1>6. CursorOf(event) \in prior \cup {0}
  <2>. HIDE DEF prior
  <2>. QED  BY <1>4, <1>5
<1>. QED  BY <1>1, <1>3, <1>6

\* Each copy of an event lies behind the cursor its read-back starts from.
LEMMA ReachHolds == TransportInv => ReadBackReaches
<1>. SUFFICES ASSUME TransportInv, NEW i \in Unpublished, NEW seq \in Copies(i)
              PROVE  seq > Since(i)
  BY DEF ReadBackReaches
<1>1. /\ DOMAIN outbox = 1 .. Len(outbox) /\ Len(outbox) \in Nat
      /\ DOMAIN room = 1 .. Len(room) /\ Len(room) \in Nat
      /\ i \in DOMAIN outbox /\ seq \in DOMAIN room /\ room[seq] = i
  BY Positions DEF TransportInv, Unpublished, Copies
<1>2. \A j \in 1 .. (i - 1) : outbox[j].seq < seq
  BY <1>1 DEF TransportInv, RoomFacts, Other
<1>3. CASE CursorOf(i) = 0
  BY <1>1, <1>3 DEF Since
<1>4. ASSUME NEW j \in DOMAIN outbox, j < i, CursorOf(i) = outbox[j].seq
      PROVE  CursorOf(i) < seq
  BY <1>1, <1>2, <1>4
<1>5. CursorOf(i) \in 0 .. Len(room)
  BY <1>1, CursorIsPrior
<1>. QED  BY <1>1, <1>3, <1>4, <1>5, CursorIsPrior DEF Since

(***************************************************************************)
(* Copies when nothing is interrupted, and answers are read                *)
(***************************************************************************)

\* A read-back that is complete and finds nothing means that the room has no copy.
LEMMA NothingToFind ==
    ASSUME TransportInv, reaped = 0 \/ reaped < Len(room),
           NEW event \in Unpublished, ~Gap(Since(event)), ReadBack(event) = {}
    PROVE  \A seq \in DOMAIN room : room[seq] # event
<1>. SUFFICES ASSUME NEW seq \in DOMAIN room, room[seq] = event PROVE FALSE
  OBVIOUS
<1>1. /\ DOMAIN room = 1 .. Len(room) /\ Len(room) \in Nat /\ reaped \in Nat
      /\ event \in DOMAIN outbox
  BY Positions DEF TransportInv, TypeOK, Unpublished
<1>2. seq \in Copies(event)
  BY <1>1 DEF Copies
<1>3. seq > Since(event) /\ Since(event) \in Nat
  BY <1>1, <1>2, ReachHolds, CursorIsPrior DEF ReadBackReaches, Since
<1>4. seq <= reaped
  BY <1>1, <1>2, <1>3 DEF ReadBack, View
<1>5. Len(room) \in View(Since(event)) /\ reaped > Since(event)
  BY <1>1, <1>3, <1>4 DEF View
<1>. QED  BY <1>5 DEF Gap

LEMMA CopyInit == Init => CopyFacts
BY DEF Init, CopyFacts

LEMMA CopyNext ==
    ASSUME Hazards = {}, TransportInv, CopyFacts, [Next]_vars
    PROVE  CopyFacts'
<1>0. /\ TypeOK /\ WriteFacts /\ RoomFacts /\ outbox \in Seq(Entry)
      /\ DOMAIN outbox = 1 .. Len(outbox) /\ Len(outbox) \in Nat
      /\ DOMAIN room = 1 .. Len(room) /\ Len(room) \in Nat /\ room \in Seq(0 .. MaxEvents)
  BY Positions DEF TransportInv
<1>1. CASE Emit \/ Terminalize
  <2>1. /\ UNCHANGED <<room, late, reaped>>
        /\ request # "none" => UNCHANGED <<outbox, request, target>>
        /\ UNCHANGED outbox \/ outbox' = Append(outbox, Pending)
        /\ UNCHANGED <<request, target>> \/ (request' = "sent" /\ target' = Len(outbox) + 1)
    BY <1>0, <1>1 DEF Emit, Terminalize, Send, WriteFacts
  <2>2. \A i \in DOMAIN outbox : outbox'[i] = outbox[i]
    BY <1>0, <2>1, AcceptKeeps
  <2>3. \A s \in DOMAIN room : room[s] # Other => room[s] \in 1 .. Len(outbox)
    BY <1>0 DEF RoomFacts
  <2>4. Len(outbox) + 1 # Other /\ ~ (Len(outbox) + 1 \in 1 .. Len(outbox))
    BY <1>0 DEF Other
  <2>5. ASSUME NEW s \in DOMAIN room, room[s] # Other
        PROVE  \/ outbox'[room[s]].status \in {"published", "uncertain"}
               \/ request' = "committed" /\ target' = room[s]
    <3>1. outbox'[room[s]] = outbox[room[s]]
      BY <1>0, <2>2, <2>3, <2>5
    <3>2. request = "committed" => UNCHANGED <<request, target>>
      BY <2>1
    <3>. QED  BY <2>5, <3>1, <3>2 DEF CopyFacts
  <2>6. request' = "sent" => \A s \in DOMAIN room : room[s] # target'
    <3>1. CASE UNCHANGED <<request, target>>
      BY <3>1 DEF CopyFacts
    <3>2. CASE target' = Len(outbox) + 1
      BY <2>3, <2>4, <3>2
    <3>. QED  BY <2>1, <3>1, <3>2
  <2>. QED  BY <2>1, <2>5, <2>6 DEF CopyFacts
<1>2. CASE Commit
  <2>1. /\ request = "sent" /\ request' = "committed" /\ room' = Append(room, target)
        /\ UNCHANGED <<outbox, target, late, reaped>> /\ target \in 0 .. MaxEvents
        /\ reaped \in Nat
    BY <1>0, <1>2 DEF Commit, TypeOK
  <2>2. /\ Len(room') = Len(room) + 1 /\ DOMAIN room' = 1 .. (Len(room) + 1)
        /\ room'[Len(room) + 1] = target /\ \A s \in DOMAIN room : room'[s] = room[s]
    BY <1>0, <2>1, RoomKeeps
  <2>3. \A s \in DOMAIN room' : s \in DOMAIN room \/ s = Len(room) + 1
    BY <1>0, <2>2
  <2>4. \A s \in DOMAIN room : room[s] # target
    BY <2>1 DEF CopyFacts
  <2>. QED  BY <1>0, <2>1, <2>2, <2>3, <2>4 DEF CopyFacts
<1>3. CASE OtherMessage \/ LateOther
  <2>1. room' = Append(room, Other) /\ UNCHANGED <<outbox, target, request, late, reaped>>
        /\ Other \in 0 .. MaxEvents /\ reaped \in Nat
    BY <1>0, <1>3 DEF OtherMessage, LateOther, TypeOK, supervisorVars, Other
  <2>2. /\ Len(room') = Len(room) + 1 /\ DOMAIN room' = 1 .. (Len(room) + 1)
        /\ room'[Len(room) + 1] = Other /\ \A s \in DOMAIN room : room'[s] = room[s]
    BY <1>0, <2>1, RoomKeeps
  <2>3. \A s \in DOMAIN room' : s \in DOMAIN room \/ s = Len(room) + 1
    BY <1>0, <2>2
  <2>4. request = "sent" => target # Other
    BY <1>0 DEF WriteFacts, MayWrite, Other
  <2>. QED  BY <1>0, <2>1, <2>2, <2>3, <2>4 DEF CopyFacts
<1>4. CASE MarkPublished \/ AnswerLost \/ Refused
  <2>1. /\ UNCHANGED <<room, late, reaped>> /\ request' = "none"
    BY <1>4 DEF MarkPublished, AnswerLost, Refused, Abandon, LoseRequest
  <2>2. PICK status \in Statuses, seq \in Nat :
             /\ MarkAs(target, status, seq)
             /\ status \in {"published", "uncertain"} \/ request = "sent"
    BY <1>0, <1>4 DEF MarkPublished, AnswerLost, Refused, Statuses, NoSeq, TypeOK
  <2>3. request # "none" /\ target \in DOMAIN outbox
    BY <1>0, <1>4 DEF MarkPublished, AnswerLost, Refused, WriteFacts, MayWrite
  <2>4. /\ outbox'[target].status = status
        /\ \A i \in DOMAIN outbox : i # target => outbox'[i] = outbox[i]
    BY <1>0, <2>2, <2>3, MarkKeeps
  <2>5. request = "sent" => \A s \in DOMAIN room : room[s] # target
    BY DEF CopyFacts
  <2>6. \A s \in DOMAIN room : room[s] # Other => room[s] \in DOMAIN outbox
    BY <1>0 DEF RoomFacts
  <2>7. ASSUME NEW s \in DOMAIN room, room[s] # Other
        PROVE  outbox'[room[s]].status \in {"published", "uncertain"}
    <3>1. CASE room[s] = target
      BY <2>2, <2>4, <2>5, <3>1
    <3>2. CASE room[s] # target
      BY <2>4, <2>6, <2>7, <3>2 DEF CopyFacts
    <3>. QED  BY <3>1, <3>2
  <2>. QED  BY <2>1, <2>7 DEF CopyFacts
<1>5. CASE Found
  <2>1. /\ UNCHANGED <<room, late, reaped, request, target>> /\ request = "none"
    BY <1>0, <1>5 DEF Found, supervisorVars, WriteFacts
  <2>2. PICK seq \in Nat : MarkAs(FirstUnpublished, "published", seq)
    BY <1>0, <1>5 DEF Found, ReadBack, Copies
  <2>3. FirstUnpublished \in DOMAIN outbox
    BY <1>0, <1>5, FirstIsNext DEF Found
  <2>4. /\ outbox'[FirstUnpublished].status = "published"
        /\ \A i \in DOMAIN outbox : i # FirstUnpublished => outbox'[i] = outbox[i]
    BY <1>0, <2>2, <2>3, MarkKeeps DEF Statuses
  <2>5. \A s \in DOMAIN room : room[s] # Other => room[s] \in DOMAIN outbox
    BY <1>0 DEF RoomFacts
  <2>. QED  BY <2>1, <2>4, <2>5 DEF CopyFacts
<1>6. CASE PublishAgain
  <2>1. /\ UNCHANGED <<outbox, room, late, reaped>> /\ request = "none"
        /\ request' = "sent" /\ target' = FirstUnpublished /\ Unpublished # {}
    BY <1>0, <1>6 DEF PublishAgain, Send, WriteFacts
  <2>2. /\ FirstUnpublished \in Unpublished /\ FirstUnpublished # Other
        /\ outbox[FirstUnpublished].status # "published"
    BY <1>0, <2>1, FirstIsNext DEF Unpublished, Other
  <2>3. \A s \in DOMAIN room : room[s] # FirstUnpublished
    <3>1. CASE NeedsReadBack(FirstUnpublished)
      <4>1. ~Gap(Since(FirstUnpublished)) /\ ReadBack(FirstUnpublished) = {}
        BY <1>6, <3>1 DEF PublishAgain
      <4>. QED  BY <2>2, <4>1, NothingToFind DEF CopyFacts
    <3>2. CASE ~NeedsReadBack(FirstUnpublished)
      BY <2>1, <2>2, <3>2 DEF NeedsReadBack, CopyFacts
    <3>. QED  BY <3>1, <3>2
  <2>. QED  BY <2>1, <2>3 DEF CopyFacts
<1>7. CASE \/ Answer \/ ReadBackFails \/ Reconciled \/ Resume \/ LateCommit \/ Reap
           \/ Interrupt \/ Crash \/ OtherMarked \/ OtherLost \/ Fetch \/ Show
           \/ UNCHANGED vars
  <2>1. UNCHANGED <<outbox, room, late, request, target>>
    BY <1>7 DEF Answer, ReadBackFails, Reconciled, Resume, LateCommit, Reap, Interrupt, Crash,
       OtherMarked, OtherLost, Fetch, Show, vars, supervisorVars, CopyFacts
  <2>2. UNCHANGED reaped \/ reaped' < Len(room)
    BY <1>0, <1>7 DEF Answer, ReadBackFails, Reconciled, Resume, LateCommit, Reap, Interrupt,
       Crash, OtherMarked, OtherLost, Fetch, Show, vars, CopyFacts, TypeOK
  <2>. QED  BY <1>0, <2>1, <2>2 DEF CopyFacts
<1>. QED  BY <1>1, <1>2, <1>3, <1>4, <1>5, <1>6, <1>7 DEF Next, SupervisorStep

LEMMA CopiesAreOne == TransportInv /\ CopyFacts => AtMostOneCopy
<1>. SUFFICES ASSUME TransportInv, CopyFacts, NEW i \in DOMAIN outbox
              PROVE  Cardinality(Copies(i)) <= 1
  BY DEF AtMostOneCopy
<1>1. \A s, t \in Copies(i) : s = t
  <2>1. DOMAIN room = 1 .. Len(room) /\ DOMAIN outbox = 1 .. Len(outbox) /\ Len(outbox) \in Nat
    BY Positions DEF TransportInv
  <2>2. i # Other
    BY <2>1 DEF Other
  <2>. QED  BY <2>1, <2>2 DEF CopyFacts, Copies
<1>2. CASE Copies(i) = {}
  BY <1>2, FS_EmptySet
<1>3. ASSUME NEW s \in Copies(i) PROVE Cardinality(Copies(i)) = 1
  BY <1>1, FS_Singleton
<1>. QED  BY <1>2, <1>3

(***************************************************************************)
(* The theorems                                                            *)
(***************************************************************************)

\* The inductive invariant holds, whatever fails and however often.
THEOREM TransportHolds == Spec => []TransportInv
BY TransportInit, TransportNext, PTL DEF Spec

\* The transport's state has the types the events table and the room give it.
THEOREM TransportTypes == Spec => []TypeOK
<1>1. TransportInv => TypeOK
  BY DEF TransportInv
<1>. QED  BY <1>1, TransportHolds, PTL

\* The recorded sequence number of each published event is that of a copy of it.
THEOREM ReceiptsHold == Spec => []ReceiptsAreReal
<1>1. TransportInv => ReceiptsAreReal
  BY DEF TransportInv
<1>. QED  BY <1>1, TransportHolds, PTL

\* Events are published in the order of acceptance, none before an earlier one.
THEOREM OrderOfPublication == Spec => []PublishedInOrder
BY OrderHolds, TransportHolds, PTL

\* No step takes back a message, an accepted event or a receipt, or changes one.
THEOREM HistoryIsKept == Spec => [][Grows]_vars
<1>1. TransportInv /\ [Next]_vars => [Grows]_vars
  BY StepsGrow
<1>. QED  BY <1>1, TransportHolds, PTL DEF Spec

\* reconcile reads from a cursor that lies before every copy of its event.
THEOREM ReadBackIsComplete == Spec => []ReadBackReaches
BY ReachHolds, TransportHolds, PTL

\* The viewer shows a workflow event only where the database has it published.
THEOREM ViewerIsDurable == Spec => []ViewerShowsDurableEvents
<1>1. TransportInv => ViewerShowsDurableEvents
  BY DEF TransportInv
<1>. QED  BY <1>1, TransportHolds, PTL

\* Lost answers and refusals alone never make two copies of an event: it takes an
\* interruption, a crash, a late commit or an answer too long to read.
THEOREM OneCopyWithoutHazards == Hazards = {} => (Spec => []AtMostOneCopy)
<1>. SUFFICES ASSUME Hazards = {} PROVE Spec => []AtMostOneCopy
  OBVIOUS
<1>1. Init => TransportInv /\ CopyFacts
  BY TransportInit, CopyInit
<1>2. TransportInv /\ CopyFacts /\ [Next]_vars => (TransportInv /\ CopyFacts)'
  BY TransportNext, CopyNext
<1>. QED  BY <1>1, <1>2, CopiesAreOne, PTL DEF Spec

=============================================================================
