------------------------ MODULE CollaborationProofs -------------------------
(***************************************************************************)
(* Proofs about Collaboration for any number of messages, revisions and    *)
(* faults: what the accepted invocations leave behind is whole, and an     *)
(* invocation publishes each kind of message once, after its               *)
(* acknowledgement.                                                        *)
(***************************************************************************)
EXTENDS Collaboration, TLAPS

\* One call at most is in flight: that of the last row, which the current invocation added.
\* It is of a tool that may still be called, and its message is not in the room before the
\* service has committed it.
CallFacts ==
    /\ \A c, d \in calls : c = d
    /\ stage = "over" => calls = {}
    /\ \A c \in calls :
          /\ c.row = Len(rows) /\ c.row > prior
          /\ c.tool # "read"
          /\ c.tool = "handoff" <=> stage = "handoff"
          /\ c.tool # "handoff" => c.tool \in RequiredTools /\ called[c.tool] = 0
          /\ rows[c.row].kind = KindOf(c.tool)
          /\ rows[c.row].status # "published"
          /\ c.state # "lookup" => c.row \notin late
          /\ c.state = "sent" => \A s \in DOMAIN room : room[s] # c.row
          /\ c.tool = "acknowledge" => rows[c.row].reply \in 1 .. prior
          /\ c.tool = "resolve" => rows[c.row].reply = acknowledged /\ acknowledged # None

\* No message has two copies, and none is committed a second time; a published row is at
\* its number, before the copies of all later rows.
RoomFacts ==
    /\ \A s, t \in DOMAIN room : room[s] = room[t] => s = t
    /\ \A s \in DOMAIN room : room[s] \notin late
    /\ \A i \in DOMAIN rows :
          rows[i].status = "published" =>
             /\ rows[i].seq \in DOMAIN room /\ room[rows[i].seq] = i
             /\ \A s \in DOMAIN room : room[s] > i => rows[i].seq < s

\* A row answers an earlier one.  The rows of accepted invocations are published, those
\* after them are the current invocation's.
RowFacts ==
    \A i \in DOMAIN rows :
        /\ rows[i].reply < i /\ rows[i].inv < i
        /\ i <= prior => rows[i].status = "published"
        /\ i > prior => rows[i].inv = prior

\* The current invocation's rows are its tools' messages, the published ones those of tools
\* that are called; the supervisor's own step adds the handoff of the candidate alone.
StageFacts ==
    /\ stage = "handoff" =>
          /\ Len(rows) <= prior + 1
          /\ Len(rows) = prior + 1 =>
                rows[prior + 1].kind = "candidate_ready" /\ rows[prior + 1].cand = candidate
    /\ stage = "role" =>
          \A i \in DOMAIN rows : i > prior =>
             \E tool \in RequiredTools \ {"read"} :
                rows[i].kind = KindOf(tool) /\ (rows[i].status = "published" => called[tool] # 0)

\* What the gateway remembers is in its published rows.
GatewayFacts ==
    /\ stage # "role" => acknowledged = None /\ resolved = None
    /\ acknowledged # None =>
          /\ acknowledged <= prior
          /\ \E j \in DOMAIN rows :
                /\ j > prior
                /\ rows[j].kind = "handoff_acknowledged" /\ rows[j].status = "published"
                /\ rows[j].reply = acknowledged
    /\ resolved # None =>
          resolved > prior /\ rows[resolved].reply = acknowledged /\ acknowledged # None

Unanswering == {"plan_proposed", "handoff_acknowledged", "candidate_ready"}

\* Row i comes after its invocation's published acknowledgement of what it answers.
FollowsAcknowledgement(i) ==
    \E j \in DOMAIN rows :
        /\ j < i
        /\ rows[j].kind = "handoff_acknowledged" /\ rows[j].status = "published"
        /\ rows[j].inv = rows[i].inv /\ rows[j].reply = Answers(i)

AckFacts ==
    \A i \in DOMAIN rows : rows[i].kind \notin Unanswering => FollowsAcknowledgement(i)

ConversationInv ==
    /\ TypeOK
    /\ CallFacts
    /\ RoomFacts
    /\ RowFacts
    /\ StageFacts
    /\ GatewayFacts
    /\ AckFacts
    /\ PublishedOnce

\* No step takes a message back: rows are added, what they say stays, and a published one
\* stays as it is.
RowsKept ==
    /\ Len(rows) <= Len(rows')
    /\ \A i \in DOMAIN rows :
          /\ rows'[i].kind = rows[i].kind /\ rows'[i].inv = rows[i].inv
          /\ rows'[i].reply = rows[i].reply /\ rows'[i].cand = rows[i].cand
          /\ rows[i].status = "published" => rows'[i] = rows[i]

RoomKept ==
    /\ Len(room) <= Len(room')
    /\ \A s \in DOMAIN room : room'[s] = room[s]

USE ConversationAssumption

(***************************************************************************)
(* Rows, copies and kinds                                                  *)
(***************************************************************************)

Entry(tool, reply, cand) ==
    [kind |-> KindOf(tool), inv |-> prior, reply |-> reply, cand |-> cand,
     status |-> "local_pending", seq |-> None]

\* A message of each tool is of a kind of its own.
LEMMA KindsApart ==
    ASSUME phase \in Phases
    PROVE  /\ \A tool \in Tools \ {"read"} : KindOf(tool) \in Kinds
           /\ \A tool, other \in Tools \ {"read"} : KindOf(tool) = KindOf(other) => tool = other
           /\ \A tool \in Tools \ {"read", "acknowledge"} : KindOf(tool) # "handoff_acknowledged"
           /\ \A tool \in Tools \ {"read", "handoff"} : KindOf(tool) # "candidate_ready"
           /\ phase # "propose" => KindOf("submit") # "plan_proposed"
           /\ phase = "propose" => KindOf("submit") = "plan_proposed"
           /\ KindOf("acknowledge") = "handoff_acknowledged"
           /\ KindOf("resolve") = "findings_resolved"
           /\ KindOf("handoff") = "candidate_ready"
<1>1. SubmissionKind \in
        {"plan_proposed", "plan_challenged", "plan_finalized", "implementation_submitted",
         "review_submitted"}
  BY DEF SubmissionKind, Phases
<1>2. /\ KindOf("acknowledge") = "handoff_acknowledged" /\ KindOf("resolve") = "findings_resolved"
      /\ KindOf("submit") = SubmissionKind /\ KindOf("handoff") = "candidate_ready"
  BY DEF KindOf
<1>3. phase # "propose" => SubmissionKind # "plan_proposed"
  BY DEF SubmissionKind, Phases
<1>4. phase = "propose" => SubmissionKind = "plan_proposed"
  BY DEF SubmissionKind
<1>5. \A tool \in Tools \ {"read"} :
        tool = "acknowledge" \/ tool = "resolve" \/ tool = "submit" \/ tool = "handoff"
  BY DEF Tools
<1>6. \A tool \in Tools \ {"read"} : KindOf(tool) \in Kinds
  BY <1>1, <1>2, <1>5 DEF Kinds
<1>7. \A tool, other \in Tools \ {"read"} : KindOf(tool) = KindOf(other) => tool = other
  BY <1>1, <1>2, <1>5
<1>8. /\ \A tool \in Tools \ {"read", "acknowledge"} : KindOf(tool) # "handoff_acknowledged"
      /\ \A tool \in Tools \ {"read", "handoff"} : KindOf(tool) # "candidate_ready"
  BY <1>1, <1>2, <1>5
<1>. QED  BY <1>2, <1>3, <1>4, <1>6, <1>7, <1>8

\* Recording a message appends its row.
LEMMA AppendKeeps ==
    ASSUME rows \in Seq(Row), NEW entry \in Row, rows' = Append(rows, entry)
    PROVE  /\ rows' \in Seq(Row)
           /\ Len(rows) \in Nat
           /\ Len(rows') = Len(rows) + 1
           /\ DOMAIN rows = 1 .. Len(rows)
           /\ DOMAIN rows' = 1 .. (Len(rows) + 1)
           /\ rows'[Len(rows) + 1] = entry
           /\ \A i \in DOMAIN rows : rows'[i] = rows[i]
OBVIOUS

\* Marking a message changes its own row's status and number.
LEMMA MarkKeeps ==
    ASSUME rows \in Seq(Row), NEW row \in DOMAIN rows, NEW seq \in Nat,
           NEW status \in {"local_pending", "published", "uncertain", "failed"},
           MarkRow(row, status, seq)
    PROVE  /\ rows' \in Seq(Row)
           /\ Len(rows') = Len(rows)
           /\ DOMAIN rows' = DOMAIN rows
           /\ rows'[row].status = status /\ rows'[row].seq = seq
           /\ rows'[row].kind = rows[row].kind /\ rows'[row].inv = rows[row].inv
           /\ rows'[row].reply = rows[row].reply /\ rows'[row].cand = rows[row].cand
           /\ \A i \in DOMAIN rows : i # row => rows'[i] = rows[i]
<1>1. rows[row] \in Row
  BY SMT
<1>. DEFINE entry == [kind |-> rows[row].kind, inv |-> rows[row].inv, reply |-> rows[row].reply,
                      cand |-> rows[row].cand, status |-> status, seq |-> seq]
<1>2. /\ entry \in Row /\ entry.status = status /\ entry.seq = seq
      /\ entry.kind = rows[row].kind /\ entry.inv = rows[row].inv
      /\ entry.reply = rows[row].reply /\ entry.cand = rows[row].cand
  BY <1>1 DEF Row
<1>3. /\ rows' = [rows EXCEPT ![row] = rows'[row]]
      /\ rows'[row] = [rows[row] EXCEPT !.status = status, !.seq = seq]
  BY DEF MarkRow
<1>4. PICK old \in Row : old = rows[row]
  BY <1>1
<1>5. PICK new : new = [old EXCEPT !.status = status, !.seq = seq]
  OBVIOUS
<1>6. new = entry
  BY <1>4, <1>5 DEF Row
<1>7. rows' = [rows EXCEPT ![row] = entry]
  BY <1>3, <1>4, <1>5, <1>6
<1>. HIDE DEF entry
<1>. QED  BY <1>2, <1>7

\* Committing a message appends its row to the room.
LEMMA RoomAppend ==
    ASSUME room \in Seq(1 .. Len(rows)), NEW row \in 1 .. Len(rows), room' = Append(room, row)
    PROVE  /\ room' \in Seq(1 .. Len(rows))
           /\ Len(room) \in Nat
           /\ Len(room') = Len(room) + 1
           /\ DOMAIN room = 1 .. Len(room)
           /\ DOMAIN room' = 1 .. (Len(room) + 1)
           /\ room'[Len(room) + 1] = row
           /\ \A s \in DOMAIN room : room'[s] = room[s]
OBVIOUS

LEMMA Basics ==
    ASSUME ConversationInv
    PROVE  /\ rows \in Seq(Row) /\ Len(rows) \in Nat /\ DOMAIN rows = 1 .. Len(rows)
           /\ \A i \in DOMAIN rows :
                 /\ rows[i] \in Row /\ i \in Nat /\ rows[i].seq \in Nat
                 /\ rows[i].inv \in Nat /\ rows[i].reply \in Nat /\ rows[i].kind \in Kinds
           /\ room \in Seq(1 .. Len(rows)) /\ Len(room) \in Nat /\ DOMAIN room = 1 .. Len(room)
           /\ \A s \in DOMAIN room : room[s] \in DOMAIN rows
           /\ prior \in Nat /\ prior <= Len(rows)
           /\ acknowledged \in Nat /\ resolved \in Nat /\ None = 0
<1>1. rows \in Seq(Row) /\ Len(rows) \in Nat /\ DOMAIN rows = 1 .. Len(rows)
  BY DEF ConversationInv, TypeOK
<1>2. room \in Seq(1 .. Len(rows)) /\ Len(room) \in Nat /\ DOMAIN room = 1 .. Len(room)
  BY DEF ConversationInv, TypeOK
<1>3. prior \in Nat /\ prior <= Len(rows) /\ acknowledged \in Nat /\ resolved \in Nat
  BY <1>1 DEF ConversationInv, TypeOK
<1>4. ASSUME NEW i \in DOMAIN rows
      PROVE  /\ rows[i] \in Row /\ i \in Nat /\ rows[i].seq \in Nat
             /\ rows[i].inv \in Nat /\ rows[i].reply \in Nat /\ rows[i].kind \in Kinds
  <2>1. rows[i] \in Row /\ i \in Nat
    BY <1>1
  <2>. QED  BY <2>1 DEF Row
<1>5. \A s \in DOMAIN room : room[s] \in DOMAIN rows
  BY <1>1, <1>2
<1>. QED  BY <1>1, <1>2, <1>3, <1>4, <1>5 DEF None

\* The call in flight is that of the last row.
LEMMA TheCall ==
    ASSUME ConversationInv, NEW call \in calls
    PROVE  /\ calls = {call} /\ calls \ {call} = {}
           /\ call.row = Len(rows) /\ call.row \in DOMAIN rows /\ call.row > prior
           /\ call.tool \in Tools \ {"read"} /\ call.state \in {"sent", "committed", "lookup"}
           /\ call = [tool |-> call.tool, row |-> call.row, state |-> call.state]
           /\ rows[call.row].inv = prior
           /\ rows[call.row].status # "published"
<1>1. call \in [tool : Tools, row : DOMAIN rows, state : {"sent", "committed", "lookup"}]
  BY DEF ConversationInv, TypeOK
<1>2. /\ \A c, d \in calls : c = d
      /\ call.row = Len(rows) /\ call.row > prior /\ call.tool # "read"
      /\ rows[call.row].status # "published"
  BY DEF ConversationInv, CallFacts
<1>3. rows[call.row].inv = prior
  BY <1>1, <1>2 DEF ConversationInv, RowFacts
<1>. QED  BY <1>1, <1>2, <1>3

\* Before its tool is called, the current invocation has published no message of a kind.
LEMMA PublishedMeansCalled ==
    ASSUME ConversationInv, stage = "role", NEW i \in DOMAIN rows, i > prior,
           rows[i].status = "published",
           NEW tool \in Tools \ {"read"}, rows[i].kind = KindOf(tool)
    PROVE  called[tool] # 0
<1>1. PICK other \in RequiredTools \ {"read"} :
        rows[i].kind = KindOf(other) /\ called[other] # 0
  BY DEF ConversationInv, StageFacts
<1>2. other \in Tools \ {"read"}
  BY DEF RequiredTools, Tools
<1>3. other = tool
  BY <1>1, <1>2, KindsApart DEF ConversationInv, TypeOK
<1>. QED  BY <1>1, <1>3

\* The rows of the current invocation are those after the accepted ones.
LEMMA CurrentRows ==
    ASSUME ConversationInv, NEW i \in DOMAIN rows
    PROVE  i > prior <=> rows[i].inv = prior
<1>1. rows[i].inv < i /\ (i > prior => rows[i].inv = prior)
  BY DEF ConversationInv, RowFacts
<1>. QED  BY <1>1, Basics

\* What an acknowledgement or a message answers stands in rows that no step changes.
LEMMA AcknowledgementsStay ==
    ASSUME ConversationInv, RowsKept, rows' \in Seq(Row), NEW i \in DOMAIN rows,
           rows[i].kind \notin Unanswering
    PROVE  /\ i \in DOMAIN rows' /\ rows'[i].kind \notin Unanswering
           /\ FollowsAcknowledgement(i)'
<1>1. PICK j \in DOMAIN rows :
        /\ j < i
        /\ rows[j].kind = "handoff_acknowledged" /\ rows[j].status = "published"
        /\ rows[j].inv = rows[i].inv /\ rows[j].reply = Answers(i)
  BY DEF ConversationInv, AckFacts, FollowsAcknowledgement
<1>2. DOMAIN rows \subseteq DOMAIN rows'
  <2>1. Len(rows') \in Nat /\ DOMAIN rows' = 1 .. Len(rows')
    OBVIOUS
  <2>. QED  BY <2>1, Basics DEF RowsKept
<1>3. /\ rows'[i].kind = rows[i].kind /\ rows'[i].inv = rows[i].inv
      /\ rows'[i].reply = rows[i].reply
      /\ rows'[j] = rows[j]
  BY <1>1 DEF RowsKept
<1>4. Answers(i)' = Answers(i)
  <2>. DEFINE reply == rows[i].reply
  <2>1. CASE reply = None
    BY <2>1, <1>3 DEF Answers
  <2>2. CASE reply # None
    <3>1. reply \in DOMAIN rows
      <4>1. reply < i
        BY DEF ConversationInv, RowFacts
      <4>. QED  BY <4>1, <2>2, Basics
    <3>2. rows'[reply].inv = rows[reply].inv /\ rows'[reply].reply = rows[reply].reply
      BY <3>1 DEF RowsKept
    <3>. QED  BY <3>2, <1>3 DEF Answers
  <2>. QED  BY <2>1, <2>2
<1>5. j \in DOMAIN rows'
  BY <1>2
<1>6. /\ rows'[j].kind = "handoff_acknowledged" /\ rows'[j].status = "published"
      /\ rows'[j].inv = rows'[i].inv /\ rows'[j].reply = Answers(i)'
  BY <1>1, <1>3, <1>4
<1>. QED  BY <1>1, <1>2, <1>3, <1>5, <1>6 DEF FollowsAcknowledgement

(***************************************************************************)
(* Steps that leave the rows and the room alone                            *)
(***************************************************************************)

LEMMA ConversationInit == Init => ConversationInv
<1>. SUFFICES ASSUME Init PROVE ConversationInv
  OBVIOUS
<1>1. rows = << >> /\ Len(rows) = 0 /\ DOMAIN rows = {} /\ rows \in Seq(Row)
  BY DEF Init
<1>2. room = << >> /\ DOMAIN room = {} /\ room \in Seq(1 .. Len(rows))
  BY DEF Init
<1>3. TypeOK
  BY <1>1, <1>2 DEF Init, TypeOK, Phases, None
<1>4. CallFacts
  BY DEF Init, CallFacts
<1>5. RoomFacts /\ RowFacts /\ AckFacts
  BY <1>1, <1>2 DEF RoomFacts, RowFacts, AckFacts
<1>6. StageFacts
  BY <1>1 DEF Init, StageFacts
<1>7. GatewayFacts
  BY DEF Init, GatewayFacts
<1>8. PublishedOnce
  BY <1>1 DEF PublishedOnce, Publications
<1>. QED  BY <1>3, <1>4, <1>5, <1>6, <1>7, <1>8 DEF ConversationInv

\* The end of a call, or of an invocation: nothing is in flight, and what was on its way
\* may still arrive.
Settled ==
    /\ UNCHANGED <<rows, room>>
    /\ calls' = {}
    /\ late' \subseteq late \cup {call.row : call \in {c \in calls : c.state = "sent"}}

LEMMA SettledKeeps ==
    ASSUME ConversationInv, Settled
    PROVE  /\ CallFacts' /\ RoomFacts' /\ AckFacts' /\ PublishedOnce'
           /\ late' \subseteq DOMAIN rows'
<1>. USE DEF Settled
<1>1. CallFacts'
  BY DEF CallFacts
<1>2. ASSUME NEW row \in late' PROVE row \in DOMAIN rows /\ \A s \in DOMAIN room : room[s] # row
  <2>1. CASE row \in late
    BY <2>1 DEF ConversationInv, TypeOK, RoomFacts
  <2>2. CASE row \notin late
    <3>1. PICK call \in calls : call.state = "sent" /\ call.row = row
      BY <2>2
    <3>2. call.row \in DOMAIN rows
      BY TheCall
    <3>. QED  BY <3>1, <3>2 DEF ConversationInv, CallFacts
  <2>. QED  BY <2>1, <2>2
<1>3. RoomFacts'
  BY <1>2 DEF ConversationInv, RoomFacts
<1>4. AckFacts'
  BY DEF ConversationInv, AckFacts, FollowsAcknowledgement, Answers
<1>5. PublishedOnce'
  BY DEF ConversationInv, PublishedOnce, Publications
<1>. QED  BY <1>1, <1>2, <1>3, <1>4, <1>5

LEMMA OpenGatewayKeeps ==
    ASSUME OpenGateway
    PROVE  /\ calls' = {} /\ acknowledged' = None /\ resolved' = None
           /\ called' \in [Tools -> 0 .. 2]
           /\ \A tool \in Tools \ {"read"} : called'[tool] <= 1
           /\ GatewayFacts'
<1>1. calls' = {} /\ acknowledged' = None /\ resolved' = None
  BY DEF OpenGateway
<1>2. called' = [tool \in Tools |-> 0]
  BY DEF OpenGateway
<1>. QED  BY <1>1, <1>2 DEF GatewayFacts

\* The invocation ends with its rows published: they are the accepted ones now.
LEMMA AcceptedKeeps ==
    ASSUME ConversationInv, UNCHANGED rows, prior' = Len(rows),
           \A i \in DOMAIN rows : i > prior => rows[i].status = "published"
    PROVE  RowFacts' /\ StageFacts'
<1>1. ASSUME NEW i \in DOMAIN rows
      PROVE  /\ rows[i].reply < i /\ rows[i].inv < i /\ rows[i].status = "published"
             /\ ~ (i > Len(rows))
  BY Basics DEF ConversationInv, RowFacts
<1>2. RowFacts'
  BY <1>1 DEF RowFacts
<1>3. StageFacts'
  BY <1>1, Basics DEF StageFacts
<1>. QED  BY <1>2, <1>3

LEMMA ReadKeeps == ASSUME ConversationInv, Read PROVE ConversationInv'
<1>1. /\ stage = "role" /\ called["read"] < 2
      /\ called' = [called EXCEPT !["read"] = called["read"] + 1]
      /\ UNCHANGED <<rows, room, late, stage, phase, prior, candidate, revisions, calls,
                     acknowledged, resolved, faults>>
  BY DEF Read, runVars
<1>2. "read" \in Tools /\ called["read"] \in 0 .. 2 /\ called \in [Tools -> 0 .. 2]
  BY DEF ConversationInv, TypeOK, Tools
<1>3. \A tool \in Tools \ {"read"} : called'[tool] = called[tool]
  BY <1>1, <1>2
<1>4. called' \in [Tools -> 0 .. 2]
  BY <1>1, <1>2
<1>5. TypeOK'
  BY <1>1, <1>3, <1>4 DEF ConversationInv, TypeOK
<1>6. \A tool \in RequiredTools \ {"read"} : tool \in Tools \ {"read"}
  BY DEF RequiredTools, Tools
<1>7. RequiredTools' = RequiredTools /\ \A tool \in Tools : KindOf(tool)' = KindOf(tool)
  BY <1>1 DEF RequiredTools, KindOf, SubmissionKind
<1>8. CallFacts'
  <2>1. \A c \in calls : c.tool \in Tools \ {"read"}
    BY TheCall
  <2>. QED  BY <1>1, <1>3, <1>7, <2>1 DEF ConversationInv, CallFacts
<1>9. StageFacts'
  BY <1>1, <1>3, <1>6, <1>7 DEF ConversationInv, StageFacts
<1>10. GatewayFacts' /\ RoomFacts' /\ RowFacts' /\ AckFacts' /\ PublishedOnce'
  BY <1>1 DEF ConversationInv, GatewayFacts, RoomFacts, RowFacts, AckFacts,
              FollowsAcknowledgement, Answers, PublishedOnce, Publications
<1>. QED  BY <1>5, <1>8, <1>9, <1>10 DEF ConversationInv

LEMMA NotFoundKeeps == ASSUME ConversationInv, NotFound PROVE ConversationInv'
<1>1. PICK call \in calls :
        /\ call.state = "lookup"
        /\ calls' = calls \ {call}
        /\ stage' = IF call.tool = "handoff" THEN "over" ELSE stage
        /\ UNCHANGED <<called, acknowledged, resolved>>
  BY DEF NotFound, Raise
<1>2. UNCHANGED <<rows, room, late, phase, prior, candidate, revisions, faults>>
  BY DEF NotFound
<1>3. calls' = {}
  BY <1>1, TheCall
<1>4. Settled
  BY <1>2, <1>3 DEF Settled
<1>5. stage' = stage \/ (stage' = "over" /\ stage = "handoff")
  BY <1>1 DEF ConversationInv, CallFacts
<1>6. TypeOK'
  BY <1>1, <1>2, <1>3, <1>5 DEF ConversationInv, TypeOK
<1>7. RowFacts' /\ GatewayFacts'
  BY <1>1, <1>2, <1>5 DEF ConversationInv, RowFacts, GatewayFacts
<1>8. StageFacts'
  <2>1. RequiredTools' = RequiredTools /\ \A tool \in Tools : KindOf(tool)' = KindOf(tool)
    BY <1>2 DEF RequiredTools, KindOf, SubmissionKind
  <2>2. \A tool \in RequiredTools : tool \in Tools
    BY DEF RequiredTools, Tools
  <2>. QED  BY <1>1, <1>2, <1>5, <2>1, <2>2 DEF ConversationInv, StageFacts
<1>. QED  BY <1>4, <1>6, <1>7, <1>8, SettledKeeps DEF ConversationInv

LEMMA RejectedKeeps == ASSUME ConversationInv, Rejected PROVE ConversationInv'
<1>1. /\ stage' = "over" /\ OpenGateway /\ Abandoned
      /\ UNCHANGED <<rows, room, phase, prior, candidate, revisions, faults>>
  BY DEF Rejected
<1>2. Settled
  BY <1>1, OpenGatewayKeeps DEF Settled, Abandoned
<1>3. TypeOK'
  BY <1>1, <1>2, OpenGatewayKeeps, SettledKeeps DEF ConversationInv, TypeOK, None
<1>4. RowFacts' /\ StageFacts'
  BY <1>1 DEF ConversationInv, RowFacts, StageFacts
<1>. QED  BY <1>1, <1>2, <1>3, <1>4, OpenGatewayKeeps, SettledKeeps DEF ConversationInv

LEMMA SchemaRepairKeeps == ASSUME ConversationInv, SchemaRepair PROVE ConversationInv'
<1>1. /\ stage = "role" /\ Len(rows) = prior /\ OpenGateway
      /\ UNCHANGED <<rows, room, late, stage, phase, prior, candidate, revisions, faults>>
  BY DEF SchemaRepair, runVars
<1>2. Settled
  BY <1>1, OpenGatewayKeeps DEF Settled
<1>3. TypeOK'
  BY <1>1, <1>2, OpenGatewayKeeps, SettledKeeps DEF ConversationInv, TypeOK, None
<1>4. \A i \in DOMAIN rows : ~ (i > prior)
  BY <1>1, Basics
<1>5. RowFacts' /\ StageFacts'
  BY <1>1, <1>4, AcceptedKeeps
<1>. QED  BY <1>2, <1>3, <1>5, <1>1, OpenGatewayKeeps, SettledKeeps DEF ConversationInv

LEMMA CrashKeeps == ASSUME ConversationInv, Crash PROVE ConversationInv'
<1>1. /\ stage # "over" /\ stage' = IF stage = "role" THEN "over" ELSE stage
      /\ OpenGateway /\ Abandoned
      /\ faults < MaxFaults /\ faults' = faults + 1
      /\ UNCHANGED <<rows, room, phase, prior, candidate, revisions>>
  BY DEF Crash
<1>2. Settled
  BY <1>1, OpenGatewayKeeps DEF Settled, Abandoned
<1>3. stage' \in {"handoff", "over"} /\ (stage' = "handoff" => stage = "handoff")
  BY <1>1 DEF ConversationInv, TypeOK
<1>4. TypeOK'
  BY <1>1, <1>2, <1>3, OpenGatewayKeeps, SettledKeeps DEF ConversationInv, TypeOK, None
<1>5. RowFacts' /\ StageFacts'
  BY <1>1, <1>3 DEF ConversationInv, RowFacts, StageFacts
<1>. QED  BY <1>2, <1>4, <1>5, <1>1, OpenGatewayKeeps, SettledKeeps DEF ConversationInv

LEMMA AcceptedStepKeeps == ASSUME ConversationInv, Accepted PROVE ConversationInv'
<1>1. /\ Valid /\ prior' = Len(rows) /\ OpenGateway /\ Abandoned
      /\ UNCHANGED <<rows, room, faults>>
  BY DEF Accepted
<1>2. /\ stage' \in {"role", "handoff", "over"} /\ phase' \in Phases
      /\ candidate' \in {candidate, candidate + 1}
      /\ revisions' \in 0 .. MaxRevisions
  <2>. CASE /\ phase \in {"propose", "challenge", "finalize"}
    BY DEF ConversationInv, TypeOK, Accepted, Phases
  <2>. CASE phase \in {"implement", "revise"}
    BY DEF ConversationInv, TypeOK, Accepted, Phases
  <2>. CASE phase = "review"
    BY DEF ConversationInv, TypeOK, Accepted, Phases
  <2>. QED  BY DEF ConversationInv, TypeOK, Phases
<1>3. \A i \in DOMAIN rows : i > prior => rows[i].status = "published"
  <2>. DEFINE count == Len(ExpectedKinds)
  <2>1. count \in Nat
    BY DEF ExpectedKinds
  <2>2. /\ Len(rows) = prior + count
        /\ \A i \in 1 .. count : rows[prior + i].status = "published"
    BY <1>1 DEF Valid, Delivered
  <2>. HIDE DEF count
  <2>3. ASSUME NEW i \in DOMAIN rows, i > prior PROVE rows[i].status = "published"
    <3>1. i - prior \in 1 .. count /\ prior + (i - prior) = i
      BY <2>1, <2>2, <2>3, Basics
    <3>. QED  BY <2>2, <3>1
  <2>. QED  BY <2>3
<1>4. Settled
  BY <1>1, OpenGatewayKeeps DEF Settled, Abandoned
<1>5. TypeOK'
  BY <1>1, <1>2, <1>4, Basics, OpenGatewayKeeps, SettledKeeps DEF ConversationInv, TypeOK, None
<1>6. RowFacts' /\ StageFacts'
  BY <1>1, <1>3, AcceptedKeeps
<1>. QED  BY <1>1, <1>4, <1>5, <1>6, OpenGatewayKeeps, SettledKeeps DEF ConversationInv

LEMMA ReuseHandoffKeeps == ASSUME ConversationInv, ReuseHandoff PROVE ConversationInv'
<1>1. /\ stage = "handoff" /\ calls = {} /\ HandoffExists
      /\ UNCHANGED <<rows, room, late, candidate, revisions, calls, called, acknowledged,
                     resolved, faults>>
  BY DEF ReuseHandoff, gatewayVars
<1>2. Settled
  BY <1>1 DEF Settled
<1>3. CASE ~ \A i \in Handoffs : Delivered(i)
  <2>1. stage' = "over" /\ UNCHANGED <<phase, prior>>
    BY <1>3 DEF ReuseHandoff
  <2>2. TypeOK'
    BY <1>1, <2>1 DEF ConversationInv, TypeOK
  <2>3. RowFacts' /\ StageFacts' /\ GatewayFacts'
    BY <1>1, <2>1 DEF ConversationInv, RowFacts, StageFacts, GatewayFacts
  <2>. QED  BY <1>2, <2>2, <2>3, SettledKeeps DEF ConversationInv
<1>4. CASE \A i \in Handoffs : Delivered(i)
  <2>1. stage' = "role" /\ phase' = "review" /\ prior' = Len(rows)
    BY <1>4 DEF ReuseHandoff
  <2>2. TypeOK'
    BY <1>1, <2>1, Basics DEF ConversationInv, TypeOK, Phases
  <2>3. ASSUME NEW i \in DOMAIN rows, i > prior PROVE rows[i].status = "published"
    <3>1. Len(rows) <= prior + 1
      BY <1>1 DEF ConversationInv, StageFacts
    <3>2. i = prior + 1 /\ Len(rows) = prior + 1
      BY <2>3, <3>1, Basics
    <3>3. rows[i].kind = "candidate_ready" /\ rows[i].cand = candidate
      BY <1>1, <3>2 DEF ConversationInv, StageFacts
    <3>. QED  BY <1>4, <3>3 DEF Handoffs, Delivered
  <2>4. RowFacts' /\ StageFacts'
    BY <1>1, <2>1, <2>3, AcceptedKeeps
  <2>5. GatewayFacts'
    BY <1>1, <2>1 DEF ConversationInv, GatewayFacts
  <2>. QED  BY <1>2, <2>2, <2>4, <2>5, SettledKeeps DEF ConversationInv
<1>. QED  BY <1>3, <1>4

(***************************************************************************)
(* Commits                                                                 *)
(***************************************************************************)

LEMMA PhaseKept ==
    ASSUME UNCHANGED phase
    PROVE  /\ RequiredTools' = RequiredTools
           /\ \A tool \in Tools : KindOf(tool)' = KindOf(tool)
           /\ \A tool \in RequiredTools : tool \in Tools
BY DEF RequiredTools, KindOf, SubmissionKind, Tools

LEMMA StepKeeps ==
    ASSUME ConversationInv, NEW call \in calls, NEW state \in {"sent", "committed", "lookup"},
           Step(call, state)
    PROVE  \E next \in [tool : Tools, row : DOMAIN rows, state : {"sent", "committed", "lookup"}] :
              /\ calls' = {next}
              /\ next.tool = call.tool /\ next.row = call.row /\ next.state = state
<1>1. PICK old : old = call
  OBVIOUS
<1>2. old = [tool |-> call.tool, row |-> call.row, state |-> call.state]
  BY <1>1, TheCall
<1>3. PICK next : next = [old EXCEPT !.state = state]
  OBVIOUS
<1>4. next = [tool |-> call.tool, row |-> call.row, state |-> state]
  BY <1>2, <1>3
<1>5. calls' = {next}
  <2>1. calls \ {call} = {}
    BY TheCall
  <2>. QED  BY <1>1, <1>3, <2>1 DEF Step
<1>6. call.tool \in Tools /\ call.row \in DOMAIN rows
  BY TheCall
<1>. QED  BY <1>4, <1>5, <1>6

\* A message that is not in the room is appended to it.
LEMMA CommitKeeps ==
    ASSUME ConversationInv, UNCHANGED rows, NEW row \in DOMAIN rows, room' = Append(room, row),
           \A s \in DOMAIN room : room[s] # row,
           late' \subseteq late, row \notin late'
    PROVE  /\ RoomFacts' /\ AckFacts' /\ PublishedOnce'
           /\ room' \in Seq(1 .. Len(rows'))
           /\ \A s \in DOMAIN room' : room'[s] = row \/ (s \in DOMAIN room /\ room'[s] = room[s])
<1>1. /\ room' \in Seq(1 .. Len(rows)) /\ Len(room) \in Nat
      /\ DOMAIN room = 1 .. Len(room) /\ DOMAIN room' = 1 .. (Len(room) + 1)
      /\ room'[Len(room) + 1] = row
      /\ \A s \in DOMAIN room : room'[s] = room[s]
  BY Basics, RoomAppend
<1>2. \A s \in DOMAIN room' : s \in Nat /\ (s \in DOMAIN room \/ s = Len(room) + 1)
  BY <1>1
<1>3. ASSUME NEW s \in DOMAIN room', NEW t \in DOMAIN room', room'[s] = room'[t] PROVE s = t
  <2>1. s \in DOMAIN room /\ t \in DOMAIN room => s = t
    BY <1>1, <1>3 DEF ConversationInv, RoomFacts
  <2>. QED  BY <1>1, <1>2, <1>3, <2>1
<1>4. \A s \in DOMAIN room' : room'[s] \notin late'
  BY <1>1, <1>2 DEF ConversationInv, RoomFacts
<1>5. ASSUME NEW i \in DOMAIN rows, rows[i].status = "published"
      PROVE  /\ rows[i].seq \in DOMAIN room' /\ room'[rows[i].seq] = i
             /\ \A s \in DOMAIN room' : room'[s] > i => rows[i].seq < s
  <2>1. /\ rows[i].seq \in DOMAIN room /\ room[rows[i].seq] = i
        /\ \A s \in DOMAIN room : room[s] > i => rows[i].seq < s
    BY <1>5 DEF ConversationInv, RoomFacts
  <2>2. rows[i].seq < Len(room) + 1 /\ rows[i].seq \in DOMAIN room'
    BY <1>1, <2>1
  <2>. QED  BY <1>1, <1>2, <2>1, <2>2
<1>6. RoomFacts'
  BY <1>3, <1>4, <1>5 DEF RoomFacts
<1>7. AckFacts' /\ PublishedOnce'
  BY DEF ConversationInv, AckFacts, FollowsAcknowledgement, Answers, PublishedOnce, Publications
<1>. QED  BY <1>1, <1>2, <1>6, <1>7

LEMMA CommitStepKeeps == ASSUME ConversationInv, Commit PROVE ConversationInv'
<1>1. PICK call \in calls :
        call.state = "sent" /\ room' = Append(room, call.row) /\ Step(call, "committed")
  BY DEF Commit
<1>2. UNCHANGED <<rows, late, stage, phase, prior, candidate, revisions, called, acknowledged,
                  resolved, faults>>
  BY DEF Commit, runVars
<1>3. /\ call.row \in DOMAIN rows /\ calls = {call}
      /\ call.tool \in Tools \ {"read"}
  BY TheCall
<1>4. PICK next \in [tool : Tools, row : DOMAIN rows, state : {"sent", "committed", "lookup"}] :
        /\ calls' = {next}
        /\ next.tool = call.tool /\ next.row = call.row /\ next.state = "committed"
  BY <1>1, StepKeeps
<1>5. \A s \in DOMAIN room : room[s] # call.row
  BY <1>1 DEF ConversationInv, CallFacts
<1>6. call.row \notin late
  BY <1>1 DEF ConversationInv, CallFacts
<1>7. /\ RoomFacts' /\ AckFacts' /\ PublishedOnce'
      /\ room' \in Seq(1 .. Len(rows'))
  BY <1>1, <1>2, <1>3, <1>5, <1>6, CommitKeeps
<1>8. TypeOK'
  BY <1>2, <1>4, <1>7 DEF ConversationInv, TypeOK
<1>9. CallFacts'
  BY <1>1, <1>2, <1>3, <1>4, <1>6, PhaseKept DEF ConversationInv, CallFacts
<1>10. RowFacts' /\ StageFacts' /\ GatewayFacts'
  BY <1>2, PhaseKept DEF ConversationInv, RowFacts, StageFacts, GatewayFacts
<1>. QED  BY <1>7, <1>8, <1>9, <1>10 DEF ConversationInv

LEMMA LateCommitKeeps == ASSUME ConversationInv, LateCommit PROVE ConversationInv'
<1>1. PICK row \in late : room' = Append(room, row) /\ late' = late \ {row}
  BY DEF LateCommit
<1>2. UNCHANGED <<rows, stage, phase, prior, candidate, revisions, calls, called, acknowledged,
                  resolved, faults>>
  BY DEF LateCommit, runVars, gatewayVars
<1>3. row \in DOMAIN rows /\ \A s \in DOMAIN room : room[s] # row
  BY DEF ConversationInv, TypeOK, RoomFacts
<1>4. /\ RoomFacts' /\ AckFacts' /\ PublishedOnce'
      /\ room' \in Seq(1 .. Len(rows'))
      /\ \A s \in DOMAIN room' : room'[s] = row \/ (s \in DOMAIN room /\ room'[s] = room[s])
  BY <1>1, <1>2, <1>3, CommitKeeps
<1>5. TypeOK'
  BY <1>1, <1>2, <1>4 DEF ConversationInv, TypeOK
<1>6. ASSUME NEW c \in calls, c.state = "sent" PROVE \A s \in DOMAIN room' : room'[s] # c.row
  <2>1. c.row \notin late /\ \A s \in DOMAIN room : room[s] # c.row
    BY <1>6 DEF ConversationInv, CallFacts
  <2>. QED  BY <1>4, <2>1
<1>7. \A c \in calls : c.tool \in Tools
  BY TheCall
<1>8. CallFacts'
  BY <1>1, <1>2, <1>6, <1>7, PhaseKept DEF ConversationInv, CallFacts
<1>9. RowFacts' /\ StageFacts' /\ GatewayFacts'
  BY <1>2, PhaseKept DEF ConversationInv, RowFacts, StageFacts, GatewayFacts
<1>. QED  BY <1>4, <1>5, <1>8, <1>9 DEF ConversationInv

(***************************************************************************)
(* Answers                                                                 *)
(***************************************************************************)

\* Marking the row of the call keeps every published message.
LEMMA MarkEffects ==
    ASSUME ConversationInv, NEW call \in calls, NEW seq \in Nat,
           NEW status \in {"local_pending", "published", "uncertain", "failed"},
           MarkRow(call.row, status, seq)
    PROVE  /\ rows' \in Seq(Row) /\ Len(rows') = Len(rows) /\ DOMAIN rows' = DOMAIN rows
           /\ rows'[call.row].status = status /\ rows'[call.row].seq = seq
           /\ \A i \in DOMAIN rows :
                 /\ rows'[i].kind = rows[i].kind /\ rows'[i].inv = rows[i].inv
                 /\ rows'[i].reply = rows[i].reply /\ rows'[i].cand = rows[i].cand
                 /\ i # call.row => rows'[i] = rows[i]
           /\ RowsKept
           /\ AckFacts'
<1>1. call.row \in DOMAIN rows /\ rows[call.row].status # "published"
  BY TheCall
<1>2. rows \in Seq(Row) /\ Len(rows) \in Nat
  BY Basics
<1>3. /\ rows' \in Seq(Row) /\ Len(rows') = Len(rows) /\ DOMAIN rows' = DOMAIN rows
      /\ rows'[call.row].status = status /\ rows'[call.row].seq = seq
      /\ rows'[call.row].kind = rows[call.row].kind /\ rows'[call.row].inv = rows[call.row].inv
      /\ rows'[call.row].reply = rows[call.row].reply
      /\ rows'[call.row].cand = rows[call.row].cand
      /\ \A i \in DOMAIN rows : i # call.row => rows'[i] = rows[i]
  BY <1>1, <1>2, MarkKeeps
<1>4. RowsKept
  BY <1>1, <1>2, <1>3 DEF RowsKept
<1>5. AckFacts'
  <2>1. ASSUME NEW i \in DOMAIN rows, rows'[i].kind \notin Unanswering
        PROVE  FollowsAcknowledgement(i)'
    BY <1>3, <1>4, <2>1, AcknowledgementsStay DEF RowsKept
  <2>. QED  BY <1>3, <2>1 DEF AckFacts, Unanswering
<1>. QED  BY <1>3, <1>4, <1>5

\* A call that is not known to have succeeded publishes nothing.
LEMMA UnpublishedKeeps ==
    ASSUME ConversationInv, NEW call \in calls, NEW status \in {"uncertain", "failed"},
           MarkRow(call.row, status, None),
           UNCHANGED <<room, phase, prior, candidate, called, acknowledged, resolved>>,
           stage' = stage \/ (stage' = "over" /\ stage = "handoff"),
           late' \subseteq late \cup {call.row},
           call.row \in late' \ late => call.state = "sent"
    PROVE  RoomFacts' /\ RowFacts' /\ StageFacts' /\ GatewayFacts' /\ AckFacts' /\ PublishedOnce'
<1>1. /\ rows' \in Seq(Row) /\ Len(rows') = Len(rows) /\ DOMAIN rows' = DOMAIN rows
      /\ rows'[call.row].status = status
      /\ \A i \in DOMAIN rows :
            /\ rows'[i].kind = rows[i].kind /\ rows'[i].inv = rows[i].inv
            /\ rows'[i].reply = rows[i].reply /\ rows'[i].cand = rows[i].cand
            /\ i # call.row => rows'[i] = rows[i]
      /\ AckFacts'
  BY MarkEffects, Basics
<1>2. call.row \in DOMAIN rows /\ call.row > prior /\ rows[call.row].status # "published"
  BY TheCall
<1>3. \A i \in DOMAIN rows : rows'[i].status = "published" =>
        i # call.row /\ rows'[i] = rows[i] /\ rows[i].status = "published"
  BY <1>1
<1>4. \A i \in DOMAIN rows : rows[i].status = "published" => rows'[i] = rows[i]
  BY <1>1, <1>2
<1>5. RoomFacts'
  <2>1. \A s \in DOMAIN room : room[s] \notin late'
    BY DEF ConversationInv, RoomFacts, CallFacts
  <2>. QED  BY <1>1, <1>3, <2>1 DEF ConversationInv, RoomFacts
<1>6. RowFacts'
  <2>1. \A i \in DOMAIN rows :
          /\ rows'[i].reply < i /\ rows'[i].inv < i
          /\ i <= prior => rows'[i].status = "published"
          /\ i > prior => rows'[i].inv = prior
    BY <1>1, <1>4 DEF ConversationInv, RowFacts
  <2>. QED  BY <1>1, <2>1 DEF RowFacts
<1>7. StageFacts'
  <2>1. ASSUME stage' = "role", NEW i \in DOMAIN rows, i > prior
        PROVE  \E tool \in RequiredTools \ {"read"} :
                  rows'[i].kind = KindOf(tool) /\ (rows'[i].status = "published" => called[tool] # 0)
    <3>1. PICK tool \in RequiredTools \ {"read"} :
            rows[i].kind = KindOf(tool) /\ (rows[i].status = "published" => called[tool] # 0)
      BY <2>1 DEF ConversationInv, StageFacts
    <3>. QED  BY <1>1, <1>3, <3>1
  <2>2. ASSUME stage' = "handoff"
        PROVE  /\ Len(rows') <= prior + 1
               /\ Len(rows') = prior + 1 =>
                    rows'[prior + 1].kind = "candidate_ready" /\ rows'[prior + 1].cand = candidate
    BY <1>1, <2>2, Basics DEF ConversationInv, StageFacts
  <2>. QED  BY <1>1, <2>1, <2>2, PhaseKept DEF StageFacts
<1>8. GatewayFacts'
  <2>1. ASSUME acknowledged # None
        PROVE  /\ acknowledged <= prior
               /\ \E j \in DOMAIN rows :
                     /\ j > prior
                     /\ rows'[j].kind = "handoff_acknowledged" /\ rows'[j].status = "published"
                     /\ rows'[j].reply = acknowledged
    BY <1>4, <2>1 DEF ConversationInv, GatewayFacts
  <2>2. ASSUME resolved # None
        PROVE  resolved > prior /\ rows'[resolved].reply = acknowledged /\ acknowledged # None
    <3>1. resolved \in DOMAIN rows
      BY <2>2, Basics DEF ConversationInv, TypeOK
    <3>. QED  BY <1>1, <2>2, <3>1 DEF ConversationInv, GatewayFacts
  <2>3. stage' # "role" => acknowledged = None /\ resolved = None
    BY DEF ConversationInv, GatewayFacts
  <2>. QED  BY <1>1, <2>1, <2>2, <2>3 DEF GatewayFacts
<1>9. PublishedOnce'
  <2>1. Publications(Kinds)' \subseteq Publications(Kinds)
    BY <1>1, <1>3 DEF Publications
  <2>2. \A i, j \in Publications(Kinds)' :
          rows'[i].inv = rows'[j].inv /\ rows'[i].kind = rows'[j].kind => i = j
    BY <1>1, <2>1 DEF ConversationInv, PublishedOnce, Publications
  <2>3. \A i, j \in DOMAIN rows' :
          rows'[i].kind = "candidate_ready" /\ rows'[j].kind = "candidate_ready"
            /\ rows'[i].cand = rows'[j].cand => i = j
    BY <1>1 DEF ConversationInv, PublishedOnce
  <2>. QED  BY <2>2, <2>3 DEF PublishedOnce
<1>. QED  BY <1>1, <1>5, <1>6, <1>7, <1>8, <1>9

LEMMA AnswerLostKeeps == ASSUME ConversationInv, AnswerLost PROVE ConversationInv'
<1>1. PICK call \in calls :
        /\ call.state \in {"sent", "committed"}
        /\ MarkRow(call.row, "uncertain", None)
        /\ late' = IF call.state = "sent" THEN late \cup {call.row} ELSE late
        /\ Step(call, "lookup")
  BY DEF AnswerLost
<1>2. /\ UNCHANGED <<room, stage, phase, prior, candidate, revisions, called, acknowledged,
                     resolved>>
      /\ faults < MaxFaults /\ faults' = faults + 1
  BY DEF AnswerLost, runVars
<1>3. /\ rows' \in Seq(Row) /\ Len(rows') = Len(rows) /\ DOMAIN rows' = DOMAIN rows
      /\ rows'[call.row].status = "uncertain"
      /\ \A i \in DOMAIN rows : rows'[i].kind = rows[i].kind /\ rows'[i].reply = rows[i].reply
  BY <1>1, MarkEffects, Basics
<1>4. /\ call.row \in DOMAIN rows /\ call.tool \in Tools \ {"read"} /\ calls = {call}
      /\ call.row = Len(rows) /\ call.row > prior
  BY TheCall
<1>5. PICK next \in [tool : Tools, row : DOMAIN rows, state : {"sent", "committed", "lookup"}] :
        /\ calls' = {next}
        /\ next.tool = call.tool /\ next.row = call.row /\ next.state = "lookup"
  BY <1>1, StepKeeps
<1>6. late' \subseteq late \cup {call.row} /\ (call.row \in late' \ late => call.state = "sent")
  BY <1>1
<1>7. RoomFacts' /\ RowFacts' /\ StageFacts' /\ GatewayFacts' /\ AckFacts' /\ PublishedOnce'
  BY <1>1, <1>2, <1>6, UnpublishedKeeps
<1>8. TypeOK'
  BY <1>2, <1>3, <1>4, <1>5, <1>6 DEF ConversationInv, TypeOK
<1>9. CallFacts'
  BY <1>2, <1>3, <1>4, <1>5, PhaseKept DEF ConversationInv, CallFacts
<1>. QED  BY <1>7, <1>8, <1>9 DEF ConversationInv

LEMMA RefusedKeeps == ASSUME ConversationInv, Refused PROVE ConversationInv'
<1>1. PICK call \in calls :
        /\ call.state \in {"sent", "committed"}
        /\ MarkRow(call.row, "failed", None)
        /\ calls' = calls \ {call}
        /\ stage' = IF call.tool = "handoff" THEN "over" ELSE stage
        /\ UNCHANGED <<called, acknowledged, resolved>>
  BY DEF Refused, Raise
<1>2. /\ UNCHANGED <<room, late, phase, prior, candidate, revisions>>
      /\ faults < MaxFaults /\ faults' = faults + 1
  BY DEF Refused
<1>3. rows' \in Seq(Row) /\ Len(rows') = Len(rows) /\ DOMAIN rows' = DOMAIN rows
  BY <1>1, MarkEffects, Basics
<1>4. calls' = {}
  BY <1>1, TheCall
<1>5. stage' = stage \/ (stage' = "over" /\ stage = "handoff")
  BY <1>1 DEF ConversationInv, CallFacts
<1>6. RoomFacts' /\ RowFacts' /\ StageFacts' /\ GatewayFacts' /\ AckFacts' /\ PublishedOnce'
  BY <1>1, <1>2, <1>5, UnpublishedKeeps
<1>7. TypeOK'
  BY <1>1, <1>2, <1>3, <1>4, <1>5 DEF ConversationInv, TypeOK
<1>8. CallFacts'
  BY <1>4 DEF CallFacts
<1>. QED  BY <1>6, <1>7, <1>8 DEF ConversationInv

\* The only published message of its kind and invocation is that of the call that succeeds.
LEMMA FirstOfItsKind ==
    ASSUME ConversationInv, NEW call \in calls, NEW j \in DOMAIN rows, j # call.row,
           rows[j].status = "published"
    PROVE  ~ (rows[j].inv = rows[call.row].inv /\ rows[j].kind = rows[call.row].kind)
<1>. SUFFICES ASSUME rows[j].inv = rows[call.row].inv, rows[j].kind = rows[call.row].kind
              PROVE  FALSE
  OBVIOUS
<1>1. /\ call.row = Len(rows) /\ call.row > prior /\ rows[call.row].inv = prior
      /\ call.row \in DOMAIN rows /\ call.tool \in Tools \ {"read"}
  BY TheCall
<1>2. j > prior
  BY <1>1, CurrentRows
<1>3. CASE call.tool = "handoff"
  <2>1. Len(rows) <= prior + 1
    BY <1>3 DEF ConversationInv, CallFacts, StageFacts
  <2>. QED  BY <1>1, <1>2, <2>1, Basics
<1>4. CASE call.tool # "handoff"
  <2>1. /\ stage # "handoff" /\ stage # "over" /\ called[call.tool] = 0
        /\ rows[call.row].kind = KindOf(call.tool)
    BY <1>4 DEF ConversationInv, CallFacts
  <2>2. stage = "role"
    BY <2>1 DEF ConversationInv, TypeOK
  <2>3. called[call.tool] # 0
    BY <1>1, <1>2, <2>1, <2>2, PublishedMeansCalled
  <2>. QED  BY <2>1, <2>3
<1>. QED  BY <1>3, <1>4

\* The message of the call is found in the room and marked as published.
LEMMA PublishedKeeps ==
    ASSUME ConversationInv, NEW call \in calls, NEW seq \in Copies(call.row),
           MarkRow(call.row, "published", seq), UNCHANGED <<room, late>>
    PROVE  RoomFacts' /\ AckFacts' /\ PublishedOnce'
<1>1. seq \in DOMAIN room /\ room[seq] = call.row /\ seq \in Nat
  BY Basics DEF Copies
<1>2. /\ rows' \in Seq(Row) /\ Len(rows') = Len(rows) /\ DOMAIN rows' = DOMAIN rows
      /\ rows'[call.row].status = "published" /\ rows'[call.row].seq = seq
      /\ \A i \in DOMAIN rows :
            /\ rows'[i].kind = rows[i].kind /\ rows'[i].inv = rows[i].inv
            /\ rows'[i].reply = rows[i].reply /\ rows'[i].cand = rows[i].cand
            /\ i # call.row => rows'[i] = rows[i]
      /\ AckFacts'
  BY <1>1, MarkEffects
<1>3. call.row = Len(rows) /\ call.row \in DOMAIN rows
  BY TheCall
<1>4. RoomFacts'
  <2>1. \A s \in DOMAIN room : room[s] \in DOMAIN rows /\ ~ (room[s] > call.row)
    BY <1>3, Basics
  <2>2. ASSUME NEW i \in DOMAIN rows, rows'[i].status = "published"
        PROVE  /\ rows'[i].seq \in DOMAIN room /\ room[rows'[i].seq] = i
               /\ \A s \in DOMAIN room : room[s] > i => rows'[i].seq < s
    <3>1. CASE i = call.row
      BY <1>1, <1>2, <2>1, <3>1
    <3>2. CASE i # call.row
      BY <1>2, <2>2, <3>2 DEF ConversationInv, RoomFacts
    <3>. QED  BY <3>1, <3>2
  <2>. QED  BY <1>2, <2>2 DEF ConversationInv, RoomFacts
<1>5. PublishedOnce'
  <2>1. ASSUME NEW i \in DOMAIN rows, NEW j \in DOMAIN rows,
               rows'[i].status = "published", rows'[j].status = "published",
               rows'[i].inv = rows'[j].inv, rows'[i].kind = rows'[j].kind
        PROVE  i = j
    <3>1. CASE i # call.row /\ j # call.row
      <4>1. /\ rows[i].status = "published" /\ rows[j].status = "published"
            /\ rows[i].inv = rows[j].inv /\ rows[i].kind = rows[j].kind
        BY <1>2, <2>1, <3>1
      <4>2. i \in Publications(Kinds) /\ j \in Publications(Kinds)
        BY <4>1, Basics DEF Publications
      <4>. QED  BY <4>1, <4>2 DEF ConversationInv, PublishedOnce
    <3>2. CASE i = call.row /\ j # call.row
      <4>1. /\ rows[j].status = "published"
            /\ rows[j].inv = rows[call.row].inv /\ rows[j].kind = rows[call.row].kind
        BY <1>2, <2>1, <3>2
      <4>. QED  BY <3>2, <4>1, FirstOfItsKind
    <3>3. CASE i # call.row /\ j = call.row
      <4>1. /\ rows[i].status = "published"
            /\ rows[i].inv = rows[call.row].inv /\ rows[i].kind = rows[call.row].kind
        BY <1>2, <2>1, <3>3
      <4>. QED  BY <3>3, <4>1, FirstOfItsKind
    <3>. QED  BY <3>1, <3>2, <3>3
  <2>2. \A i, j \in Publications(Kinds)' :
          rows'[i].inv = rows'[j].inv /\ rows'[i].kind = rows'[j].kind => i = j
    BY <1>2, <2>1 DEF Publications
  <2>3. \A i, j \in DOMAIN rows' :
          rows'[i].kind = "candidate_ready" /\ rows'[j].kind = "candidate_ready"
            /\ rows'[i].cand = rows'[j].cand => i = j
    BY <1>2 DEF ConversationInv, PublishedOnce
  <2>. QED  BY <2>2, <2>3 DEF PublishedOnce
<1>. QED  BY <1>2, <1>4, <1>5

\* The handoff of the candidate is published: the review begins.
LEMMA HandoffReturns ==
    ASSUME ConversationInv, NEW call \in calls, NEW seq \in Copies(call.row),
           MarkRow(call.row, "published", seq), Return(call),
           UNCHANGED <<room, late, candidate, revisions, faults>>,
           call.tool = "handoff"
    PROVE  ConversationInv'
<1>1. RoomFacts' /\ AckFacts' /\ PublishedOnce'
  BY PublishedKeeps
<1>2. /\ stage' = "role" /\ phase' = "review" /\ prior' = Len(rows)
      /\ UNCHANGED <<called, acknowledged, resolved>>
      /\ calls' = calls \ {call}
  BY DEF Return
<1>3. calls' = {} /\ call.row = Len(rows) /\ call.row > prior /\ call.row \in DOMAIN rows
  BY <1>2, TheCall
<1>4. seq \in Nat
  BY Basics DEF Copies
<1>5. /\ rows' \in Seq(Row) /\ Len(rows') = Len(rows) /\ DOMAIN rows' = DOMAIN rows
      /\ rows'[call.row].status = "published"
      /\ \A i \in DOMAIN rows :
            /\ rows'[i].inv = rows[i].inv /\ rows'[i].reply = rows[i].reply
            /\ i # call.row => rows'[i] = rows[i]
  BY <1>4, MarkEffects
<1>6. stage = "handoff" /\ Len(rows) <= prior + 1
  BY DEF ConversationInv, CallFacts, StageFacts
<1>7. TypeOK'
  BY <1>2, <1>3, <1>5, Basics DEF ConversationInv, TypeOK, Phases
<1>8. CallFacts'
  BY <1>3 DEF CallFacts
<1>9. RowFacts'
  <2>1. ASSUME NEW i \in DOMAIN rows
        PROVE  /\ rows'[i].reply < i /\ rows'[i].inv < i /\ rows'[i].status = "published"
               /\ ~ (i > Len(rows))
    <3>1. rows[i].reply < i /\ rows[i].inv < i /\ (i <= prior => rows[i].status = "published")
      BY DEF ConversationInv, RowFacts
    <3>2. i <= prior \/ i = call.row
      BY <1>3, <1>6, Basics
    <3>. QED  BY <1>5, <3>1, <3>2, Basics
  <2>. QED  BY <1>2, <1>5, <2>1 DEF RowFacts
<1>10. StageFacts'
  <2>1. \A i \in DOMAIN rows' : ~ (i > prior')
    BY <1>2, <1>5, Basics
  <2>. QED  BY <1>2, <2>1 DEF StageFacts
<1>11. GatewayFacts'
  <2>1. acknowledged = None /\ resolved = None
    BY <1>6 DEF ConversationInv, GatewayFacts
  <2>. QED  BY <1>2, <2>1 DEF GatewayFacts
<1>. QED  BY <1>1, <1>7, <1>8, <1>9, <1>10, <1>11 DEF ConversationInv

\* The gateway learns that a tool's message is published.
LEMMA ToolReturns ==
    ASSUME ConversationInv, NEW call \in calls, NEW seq \in Copies(call.row),
           MarkRow(call.row, "published", seq), Return(call),
           UNCHANGED <<room, late, candidate, revisions, faults>>,
           call.tool # "handoff"
    PROVE  ConversationInv'
<1>1. RoomFacts' /\ AckFacts' /\ PublishedOnce'
  BY PublishedKeeps
<1>2. /\ UNCHANGED <<stage, phase, prior>>
      /\ calls' = calls \ {call}
      /\ called' = [called EXCEPT ![call.tool] = called[call.tool] + 1]
      /\ acknowledged' =
            IF call.tool = "acknowledge" THEN rows[call.row].reply ELSE acknowledged
      /\ resolved' = IF call.tool = "resolve" THEN call.row ELSE resolved
  BY DEF Return, Learn
<1>3. /\ calls' = {} /\ call.row = Len(rows) /\ call.row > prior /\ call.row \in DOMAIN rows
      /\ call.tool \in Tools \ {"read"}
  BY <1>2, TheCall
<1>4. seq \in Nat
  BY Basics DEF Copies
<1>5. /\ rows' \in Seq(Row) /\ Len(rows') = Len(rows) /\ DOMAIN rows' = DOMAIN rows
      /\ rows'[call.row].status = "published"
      /\ \A i \in DOMAIN rows :
            /\ rows'[i].kind = rows[i].kind
            /\ rows'[i].inv = rows[i].inv /\ rows'[i].reply = rows[i].reply
            /\ i # call.row => rows'[i] = rows[i]
  BY <1>4, MarkEffects
<1>6. /\ call.tool \in RequiredTools /\ called[call.tool] = 0
      /\ stage # "handoff" /\ stage # "over"
      /\ rows[call.row].kind = KindOf(call.tool)
      /\ call.tool = "acknowledge" => rows[call.row].reply \in 1 .. prior
      /\ call.tool = "resolve" => rows[call.row].reply = acknowledged /\ acknowledged # None
  BY DEF ConversationInv, CallFacts
<1>7. stage = "role" /\ called \in [Tools -> 0 .. 2]
  BY <1>6 DEF ConversationInv, TypeOK
<1>8. /\ called' \in [Tools -> 0 .. 2]
      /\ called'[call.tool] = 1
      /\ \A tool \in Tools : tool # call.tool => called'[tool] = called[tool]
  BY <1>2, <1>3, <1>6, <1>7
<1>9. TypeOK'
  <2>1. acknowledged' \in 0 .. Len(rows) /\ resolved' \in 0 .. Len(rows)
    BY <1>2, <1>3, <1>6, Basics DEF ConversationInv, TypeOK
  <2>2. \A tool \in Tools \ {"read"} : called'[tool] <= 1
    BY <1>3, <1>8 DEF ConversationInv, TypeOK
  <2>. QED  BY <1>2, <1>3, <1>5, <1>8, <2>1, <2>2 DEF ConversationInv, TypeOK
<1>10. CallFacts'
  BY <1>3 DEF CallFacts
<1>11. RowFacts'
  <2>1. \A i \in DOMAIN rows :
          /\ rows'[i].reply < i /\ rows'[i].inv < i
          /\ i <= prior => rows'[i].status = "published"
          /\ i > prior => rows'[i].inv = prior
    BY <1>5 DEF ConversationInv, RowFacts
  <2>. QED  BY <1>2, <1>5, <2>1 DEF RowFacts
<1>12. StageFacts'
  <2>1. ASSUME NEW i \in DOMAIN rows, i > prior
        PROVE  \E tool \in RequiredTools \ {"read"} :
                  /\ rows'[i].kind = KindOf(tool)
                  /\ rows'[i].status = "published" => called'[tool] # 0
    <3>1. CASE i = call.row
      BY <1>3, <1>5, <1>6, <1>8, <3>1
    <3>2. CASE i # call.row
      <4>1. PICK tool \in RequiredTools \ {"read"} :
              rows[i].kind = KindOf(tool) /\ (rows[i].status = "published" => called[tool] # 0)
        BY <1>7, <2>1 DEF ConversationInv, StageFacts
      <4>2. tool \in Tools
        BY DEF RequiredTools, Tools
      <4>3. called[tool] # 0 => called'[tool] # 0
        BY <1>8, <4>2
      <4>. QED  BY <1>5, <3>2, <4>1, <4>3
    <3>. QED  BY <3>1, <3>2
  <2>. QED  BY <1>2, <1>5, <1>7, <2>1, PhaseKept DEF StageFacts
<1>13. acknowledged # None => called["acknowledge"] # 0
  <2>. SUFFICES ASSUME acknowledged # None PROVE called["acknowledge"] # 0
    OBVIOUS
  <2>1. PICK j \in DOMAIN rows :
          j > prior /\ rows[j].kind = "handoff_acknowledged" /\ rows[j].status = "published"
    BY DEF ConversationInv, GatewayFacts
  <2>2. "acknowledge" \in Tools \ {"read"} /\ KindOf("acknowledge") = "handoff_acknowledged"
    BY DEF Tools, KindOf
  <2>. QED  BY <1>7, <2>1, <2>2, PublishedMeansCalled
<1>14. GatewayFacts'
  <2>1. ASSUME acknowledged' # None
        PROVE  /\ acknowledged' <= prior
               /\ \E j \in DOMAIN rows :
                     /\ j > prior
                     /\ rows'[j].kind = "handoff_acknowledged" /\ rows'[j].status = "published"
                     /\ rows'[j].reply = acknowledged'
    <3>1. CASE call.tool = "acknowledge"
      <4>1. rows[call.row].kind = "handoff_acknowledged"
        BY <1>6, <3>1 DEF KindOf
      <4>2. acknowledged' = rows[call.row].reply /\ rows[call.row].reply <= prior
        BY <1>2, <1>6, <3>1, Basics
      <4>. QED  BY <1>3, <1>5, <4>1, <4>2
    <3>2. CASE call.tool # "acknowledge"
      <4>1. acknowledged' = acknowledged
        BY <1>2, <3>2
      <4>2. PICK j \in DOMAIN rows :
              /\ j > prior
              /\ rows[j].kind = "handoff_acknowledged" /\ rows[j].status = "published"
              /\ rows[j].reply = acknowledged
        BY <2>1, <4>1 DEF ConversationInv, GatewayFacts
      <4>3. rows'[j] = rows[j]
        BY <1>5, <4>2, TheCall
      <4>. QED  BY <2>1, <4>1, <4>2, <4>3 DEF ConversationInv, GatewayFacts
    <3>. QED  BY <3>1, <3>2
  <2>2. ASSUME resolved' # None
        PROVE  /\ resolved' > prior
               /\ rows'[resolved'].reply = acknowledged' /\ acknowledged' # None
    <3>1. CASE call.tool = "resolve"
      BY <1>2, <1>3, <1>5, <1>6, <3>1
    <3>2. CASE call.tool # "resolve"
      <4>1. resolved' = resolved /\ resolved # None
        BY <1>2, <2>2, <3>2
      <4>2. resolved > prior /\ rows[resolved].reply = acknowledged /\ acknowledged # None
        BY <4>1 DEF ConversationInv, GatewayFacts
      <4>3. acknowledged' = acknowledged
        BY <1>2, <1>6, <1>13, <4>2
      <4>4. resolved \in DOMAIN rows
        BY <4>1, Basics DEF ConversationInv, TypeOK
      <4>. QED  BY <1>5, <4>1, <4>2, <4>3, <4>4
    <3>. QED  BY <3>1, <3>2
  <2>. QED  BY <1>2, <1>5, <1>7, <2>1, <2>2 DEF GatewayFacts
<1>. QED  BY <1>1, <1>9, <1>10, <1>11, <1>12, <1>14 DEF ConversationInv

LEMMA AnsweredKeeps ==
    ASSUME ConversationInv, Answered \/ FoundAfterAll PROVE ConversationInv'
<1>1. /\ \E call \in calls : \E seq \in Copies(call.row) :
            MarkRow(call.row, "published", seq) /\ Return(call)
      /\ UNCHANGED <<room, late, candidate, revisions, faults>>
  BY DEF Answered, FoundAfterAll
<1>2. PICK call \in calls : \E seq \in Copies(call.row) :
        MarkRow(call.row, "published", seq) /\ Return(call)
  BY <1>1
<1>3. PICK seq \in Copies(call.row) : MarkRow(call.row, "published", seq) /\ Return(call)
  BY <1>2
<1>. QED  BY <1>1, <1>3, HandoffReturns, ToolReturns

(***************************************************************************)
(* New messages                                                            *)
(***************************************************************************)

\* A message that may be sent: what it answers, and in which invocation, is determined.
MaySend(tool, reply, cand) ==
    /\ calls = {}
    /\ tool \in Tools \ {"read"}
    /\ reply \in 0 .. Len(rows)
    /\ cand \in Nat
    /\ tool = "handoff" =>
          /\ stage = "handoff" /\ Len(rows) = prior /\ cand = candidate
          /\ \A i \in DOMAIN rows :
                ~ (rows[i].kind = "candidate_ready" /\ rows[i].cand = candidate)
    /\ tool # "handoff" => stage = "role" /\ tool \in RequiredTools /\ called[tool] = 0
    /\ tool = "acknowledge" => reply \in 1 .. prior
    /\ tool = "resolve" => reply = acknowledged /\ reply # None
    /\ tool = "submit" /\ phase # "propose" =>
          reply # None /\ (reply = acknowledged \/ reply = resolved)

\* What a sent message answers is acknowledged.
LEMMA SentAnswers ==
    ASSUME ConversationInv, NEW tool, NEW reply, NEW cand, MaySend(tool, reply, cand),
           KindOf(tool) \notin Unanswering
    PROVE  /\ reply # None /\ acknowledged # None
           /\ \/ reply = acknowledged /\ rows[reply].inv # prior
              \/ rows[reply].inv = prior /\ rows[reply].reply = acknowledged
           /\ reply \in DOMAIN rows
<1>1. tool = "resolve" \/ (tool = "submit" /\ phase # "propose")
  <2>1. tool \in {"acknowledge", "resolve", "submit", "handoff"}
    BY DEF MaySend, Tools
  <2>2. tool # "acknowledge" /\ tool # "handoff"
    BY DEF KindOf, Unanswering
  <2>3. tool = "submit" => phase # "propose"
    BY DEF KindOf, SubmissionKind, Unanswering
  <2>. QED  BY <2>1, <2>2, <2>3
<1>2. reply # None /\ (reply = acknowledged \/ reply = resolved)
  BY <1>1 DEF MaySend
<1>3. reply \in DOMAIN rows
  BY <1>2, Basics DEF MaySend
<1>4. CASE reply = acknowledged
  <2>1. reply <= prior
    BY <1>2, <1>4 DEF ConversationInv, GatewayFacts
  <2>2. rows[reply].inv # prior
    BY <1>3, <2>1, CurrentRows, Basics
  <2>. QED  BY <1>2, <1>3, <1>4, <2>2
<1>5. CASE reply = resolved
  <2>1. reply > prior /\ rows[reply].reply = acknowledged /\ acknowledged # None
    BY <1>2, <1>5 DEF ConversationInv, GatewayFacts
  <2>2. rows[reply].inv = prior
    BY <1>3, <2>1, CurrentRows
  <2>. QED  BY <1>2, <1>3, <2>1, <2>2
<1>. QED  BY <1>2, <1>4, <1>5

LEMMA PublishKeeps ==
    ASSUME ConversationInv, NEW tool, NEW reply, NEW cand, MaySend(tool, reply, cand),
           Publish(tool, reply, cand),
           UNCHANGED <<room, late, runVars, called, acknowledged, resolved, faults>>
    PROVE  ConversationInv'
<1>. DEFINE entry == Entry(tool, reply, cand)
            call == [tool |-> tool, row |-> Len(rows) + 1, state |-> "sent"]
<1>1. UNCHANGED <<room, late, stage, phase, prior, candidate, revisions, called, acknowledged,
                  resolved, faults>>
  BY DEF runVars
<1>2. rows' = Append(rows, entry) /\ calls' = {call}
  BY DEF Publish, Entry, MaySend
<1>3. KindOf(tool) \in Kinds
  BY KindsApart DEF MaySend, ConversationInv, TypeOK
<1>4. /\ entry \in Row
      /\ entry.kind = KindOf(tool) /\ entry.inv = prior /\ entry.reply = reply
      /\ entry.cand = cand /\ entry.status = "local_pending"
  BY <1>3, Basics DEF Entry, Row, MaySend
<1>5. call.tool = tool /\ call.row = Len(rows) + 1 /\ call.state = "sent"
  OBVIOUS
<1>6. /\ rows' \in Seq(Row) /\ Len(rows) \in Nat
      /\ Len(rows') = Len(rows) + 1
      /\ DOMAIN rows = 1 .. Len(rows) /\ DOMAIN rows' = 1 .. (Len(rows) + 1)
      /\ rows'[Len(rows) + 1] = entry
      /\ \A i \in DOMAIN rows : rows'[i] = rows[i]
  BY <1>2, <1>4, Basics, AppendKeeps
<1>7. \A i \in DOMAIN rows' : i \in DOMAIN rows \/ i = Len(rows) + 1
  BY <1>6
<1>8. RowsKept
  BY <1>6 DEF RowsKept
<1>9. room \in Seq(1 .. Len(rows'))
  BY <1>6, Basics
<1>10. TypeOK'
  <2>1. call \in [tool : Tools, row : DOMAIN rows', state : {"sent", "committed", "lookup"}]
    BY <1>6 DEF MaySend
  <2>2. prior \in 0 .. Len(rows') /\ acknowledged \in 0 .. Len(rows') /\ resolved \in 0 .. Len(rows')
        /\ late \subseteq DOMAIN rows'
    BY <1>6 DEF ConversationInv, TypeOK
  <2>. HIDE DEF call
  <2>. QED  BY <1>1, <1>2, <1>6, <1>9, <2>1, <2>2 DEF ConversationInv, TypeOK
<1>. HIDE DEF entry, call
<1>11. tool \in Tools /\ KindOf(tool)' = KindOf(tool) /\ RequiredTools' = RequiredTools
  BY <1>1, PhaseKept DEF MaySend
<1>12. CallFacts'
  <2>1. call.row = Len(rows') /\ call.row > prior
    BY <1>5, <1>6, Basics
  <2>2. call.row \notin late /\ \A s \in DOMAIN room : room[s] # call.row
    <3>1. ~ (call.row \in DOMAIN rows)
      BY <1>5, <1>6
    <3>. QED  BY <3>1, Basics DEF ConversationInv, TypeOK
  <2>3. rows'[call.row] = entry
    BY <1>5, <1>6
  <2>4. /\ tool = "acknowledge" => entry.reply \in 1 .. prior
        /\ tool = "resolve" => entry.reply = acknowledged /\ acknowledged # None
    BY <1>4 DEF MaySend
  <2>5. /\ tool # "read" /\ stage # "over"
        /\ tool = "handoff" <=> stage = "handoff"
        /\ tool # "handoff" => tool \in RequiredTools /\ called[tool] = 0
    BY DEF MaySend
  <2>. QED  BY <1>1, <1>2, <1>4, <1>5, <1>11, <2>1, <2>2, <2>3, <2>4, <2>5 DEF CallFacts
<1>13. RoomFacts'
  <2>1. ASSUME NEW i \in DOMAIN rows', rows'[i].status = "published"
        PROVE  /\ rows'[i].seq \in DOMAIN room /\ room[rows'[i].seq] = i
               /\ \A s \in DOMAIN room : room[s] > i => rows'[i].seq < s
    <3>1. i \in DOMAIN rows /\ rows'[i] = rows[i]
      BY <1>4, <1>6, <1>7, <2>1
    <3>. QED  BY <2>1, <3>1 DEF ConversationInv, RoomFacts
  <2>. QED  BY <1>1, <2>1 DEF ConversationInv, RoomFacts
<1>14. RowFacts'
  <2>1. ASSUME NEW i \in DOMAIN rows'
        PROVE  /\ rows'[i].reply < i /\ rows'[i].inv < i
               /\ i <= prior => rows'[i].status = "published"
               /\ i > prior => rows'[i].inv = prior
    <3>1. CASE i \in DOMAIN rows
      BY <1>6, <3>1 DEF ConversationInv, RowFacts
    <3>2. CASE i = Len(rows) + 1
      <4>1. reply <= Len(rows) /\ prior <= Len(rows) /\ reply \in Nat /\ prior \in Nat
        BY Basics DEF MaySend
      <4>2. rows'[i].reply = reply /\ rows'[i].inv = prior
        BY <1>4, <1>6, <3>2
      <4>. QED  BY <1>6, <3>2, <4>1, <4>2
    <3>. QED  BY <1>7, <3>1, <3>2
  <2>. QED  BY <1>1, <2>1 DEF RowFacts
<1>15. StageFacts'
  <2>1. ASSUME stage = "handoff"
        PROVE  /\ Len(rows') <= prior + 1
               /\ Len(rows') = prior + 1 =>
                    rows'[prior + 1].kind = "candidate_ready" /\ rows'[prior + 1].cand = candidate
    <3>1. tool = "handoff" /\ Len(rows) = prior /\ cand = candidate
      BY <2>1 DEF MaySend
    <3>2. KindOf(tool) = "candidate_ready"
      BY <3>1 DEF KindOf
    <3>. QED  BY <1>4, <1>6, <3>1, <3>2, Basics
  <2>2. ASSUME stage = "role", NEW i \in DOMAIN rows', i > prior
        PROVE  \E other \in RequiredTools \ {"read"} :
                  rows'[i].kind = KindOf(other) /\ (rows'[i].status = "published" => called[other] # 0)
    <3>1. CASE i \in DOMAIN rows
      BY <1>6, <2>2, <3>1 DEF ConversationInv, StageFacts
    <3>2. CASE i = Len(rows) + 1
      BY <1>4, <1>6, <2>2, <3>2 DEF MaySend
    <3>. QED  BY <1>7, <3>1, <3>2
  <2>. QED  BY <1>1, <2>1, <2>2, PhaseKept DEF StageFacts
<1>16. GatewayFacts'
  <2>1. ASSUME acknowledged # None
        PROVE  /\ acknowledged <= prior
               /\ \E j \in DOMAIN rows' :
                     /\ j > prior
                     /\ rows'[j].kind = "handoff_acknowledged" /\ rows'[j].status = "published"
                     /\ rows'[j].reply = acknowledged
    <3>1. PICK j \in DOMAIN rows :
            /\ j > prior
            /\ rows[j].kind = "handoff_acknowledged" /\ rows[j].status = "published"
            /\ rows[j].reply = acknowledged
      BY <2>1 DEF ConversationInv, GatewayFacts
    <3>2. j \in DOMAIN rows' /\ rows'[j] = rows[j]
      BY <1>6
    <3>. QED  BY <2>1, <3>1, <3>2 DEF ConversationInv, GatewayFacts
  <2>2. ASSUME resolved # None
        PROVE  resolved > prior /\ rows'[resolved].reply = acknowledged /\ acknowledged # None
    <3>1. resolved \in DOMAIN rows
      BY <2>2, Basics DEF ConversationInv, TypeOK
    <3>. QED  BY <1>6, <2>2, <3>1 DEF ConversationInv, GatewayFacts
  <2>. QED  BY <1>1, <2>1, <2>2 DEF ConversationInv, GatewayFacts
<1>17. AckFacts'
  <2>1. ASSUME NEW i \in DOMAIN rows', rows'[i].kind \notin Unanswering
        PROVE  FollowsAcknowledgement(i)'
    <3>1. CASE i \in DOMAIN rows
      BY <1>6, <1>8, <2>1, <3>1, AcknowledgementsStay
    <3>2. CASE i = Len(rows) + 1
      <4>1. rows'[i] = entry /\ KindOf(tool) \notin Unanswering
        BY <1>4, <1>6, <2>1, <3>2
      <4>2. /\ reply # None /\ acknowledged # None /\ reply \in DOMAIN rows
            /\ \/ reply = acknowledged /\ rows[reply].inv # prior
               \/ rows[reply].inv = prior /\ rows[reply].reply = acknowledged
        BY <4>1, SentAnswers
      <4>3. rows'[reply] = rows[reply]
        BY <1>6, <4>2
      <4>4. Answers(i)' = acknowledged
        BY <1>4, <4>1, <4>2, <4>3 DEF Answers
      <4>5. PICK j \in DOMAIN rows :
              /\ j > prior
              /\ rows[j].kind = "handoff_acknowledged" /\ rows[j].status = "published"
              /\ rows[j].reply = acknowledged
        BY <4>2 DEF ConversationInv, GatewayFacts
      <4>6. rows[j].inv = prior
        BY <4>5, CurrentRows
      <4>7. j \in DOMAIN rows' /\ j < i /\ rows'[j] = rows[j]
        BY <1>6, <3>2
      <4>8. rows'[j].inv = rows'[i].inv /\ rows'[j].reply = Answers(i)'
        BY <1>4, <4>1, <4>4, <4>5, <4>6, <4>7
      <4>. QED  BY <4>5, <4>7, <4>8 DEF FollowsAcknowledgement
    <3>. QED  BY <1>7, <3>1, <3>2
  <2>. QED  BY <2>1 DEF AckFacts, Unanswering
<1>18. PublishedOnce'
  <2>1. ASSUME NEW i \in Publications(Kinds)' PROVE i \in Publications(Kinds) /\ rows'[i] = rows[i]
    <3>1. i \in DOMAIN rows' /\ rows'[i].kind \in Kinds /\ rows'[i].status = "published"
      BY DEF Publications
    <3>2. i \in DOMAIN rows /\ rows'[i] = rows[i]
      BY <1>4, <1>6, <1>7, <3>1
    <3>. QED  BY <3>1, <3>2 DEF Publications
  <2>2. \A i, j \in Publications(Kinds)' :
          rows'[i].inv = rows'[j].inv /\ rows'[i].kind = rows'[j].kind => i = j
    BY <2>1 DEF ConversationInv, PublishedOnce
  <2>3. ASSUME NEW i \in DOMAIN rows, rows[i].kind = "candidate_ready"
        PROVE  ~ (entry.kind = "candidate_ready" /\ rows[i].cand = entry.cand)
    <3>1. CASE tool = "handoff"
      BY <1>4, <2>3, <3>1 DEF MaySend
    <3>2. CASE tool # "handoff"
      <4>1. KindOf(tool) # "candidate_ready"
        BY <3>2, KindsApart DEF MaySend, ConversationInv, TypeOK
      <4>. QED  BY <1>4, <4>1
    <3>. QED  BY <3>1, <3>2
  <2>4. ASSUME NEW i \in DOMAIN rows', NEW j \in DOMAIN rows',
               rows'[i].kind = "candidate_ready", rows'[j].kind = "candidate_ready",
               rows'[i].cand = rows'[j].cand
        PROVE  i = j
    <3>1. CASE i \in DOMAIN rows /\ j \in DOMAIN rows
      BY <1>6, <2>4, <3>1 DEF ConversationInv, PublishedOnce
    <3>2. CASE i \in DOMAIN rows /\ j = Len(rows) + 1
      BY <1>6, <2>3, <2>4, <3>2
    <3>3. CASE i = Len(rows) + 1 /\ j \in DOMAIN rows
      BY <1>6, <2>3, <2>4, <3>3
    <3>. QED  BY <1>7, <3>1, <3>2, <3>3
  <2>. QED  BY <2>2, <2>4 DEF PublishedOnce
<1>. QED  BY <1>10, <1>12, <1>13, <1>14, <1>15, <1>16, <1>17, <1>18 DEF ConversationInv

\* Before an invocation has acknowledged anything, only accepted messages are published.
LEMMA FirstPublication ==
    ASSUME ConversationInv, stage = "role", phase # "propose", called["acknowledge"] = 0,
           NEW target \in DOMAIN rows, rows[target].status = "published"
    PROVE  target <= prior
<1>. SUFFICES ASSUME target > prior PROVE FALSE
  BY Basics
<1>1. "acknowledge" \in Tools \ {"read"} /\ KindOf("acknowledge") = "handoff_acknowledged"
  BY DEF Tools, KindOf
<1>2. \A i \in DOMAIN rows :
        rows[i].status = "published" /\ i > prior => rows[i].kind # "handoff_acknowledged"
  BY <1>1, PublishedMeansCalled
<1>3. rows[target].kind \notin Unanswering
  <2>1. PICK tool \in RequiredTools \ {"read"} : rows[target].kind = KindOf(tool)
    BY DEF ConversationInv, StageFacts
  <2>2. tool \in Tools \ {"read", "handoff"}
    BY DEF RequiredTools, Tools
  <2>3. KindOf(tool) # "candidate_ready" /\ KindOf(tool) # "plan_proposed"
    <3>1. KindOf("resolve") # "plan_proposed" /\ KindOf("acknowledge") # "plan_proposed"
      BY DEF KindOf
    <3>2. KindOf("submit") # "plan_proposed"
      BY KindsApart DEF ConversationInv, TypeOK
    <3>3. tool \in {"acknowledge", "resolve", "submit"}
      BY <2>2 DEF Tools
    <3>. QED  BY <2>2, <3>1, <3>2, <3>3, KindsApart DEF ConversationInv, TypeOK
  <2>. QED  BY <1>2, <2>1, <2>3 DEF Unanswering
<1>4. PICK j \in DOMAIN rows :
        /\ rows[j].kind = "handoff_acknowledged" /\ rows[j].status = "published"
        /\ rows[j].inv = rows[target].inv
  BY <1>3 DEF ConversationInv, AckFacts, FollowsAcknowledgement
<1>5. j > prior
  BY <1>4, CurrentRows
<1>. QED  BY <1>2, <1>4, <1>5

LEMMA AcknowledgeKeeps == ASSUME ConversationInv, Acknowledge PROVE ConversationInv'
<1>1. /\ MayCall("acknowledge")
      /\ UNCHANGED <<room, late, runVars, called, acknowledged, resolved, faults>>
  BY DEF Acknowledge
<1>2. PICK target \in DOMAIN rows :
        rows[target].status = "published" /\ Publish("acknowledge", target, None)
  BY DEF Acknowledge
<1>3. /\ stage = "role" /\ calls = {} /\ called["acknowledge"] = 0
      /\ "acknowledge" \in RequiredTools /\ phase # "propose"
  BY <1>1 DEF MayCall, LockFree, NotCalled, RequiredTools
<1>4. target <= prior
  BY <1>2, <1>3, FirstPublication
<1>5. target \in 1 .. prior /\ target \in 0 .. Len(rows) /\ None \in Nat
  BY <1>4, Basics
<1>6. MaySend("acknowledge", target, None)
  BY <1>3, <1>5 DEF MaySend, Tools
<1>. QED  BY <1>1, <1>2, <1>6, PublishKeeps

LEMMA ResolveKeeps == ASSUME ConversationInv, Resolve PROVE ConversationInv'
<1>1. /\ MayCall("resolve") /\ acknowledged # None /\ Publish("resolve", acknowledged, None)
      /\ UNCHANGED <<room, late, runVars, called, acknowledged, resolved, faults>>
  BY DEF Resolve
<1>2. acknowledged \in 0 .. Len(rows) /\ None \in Nat
  BY Basics DEF ConversationInv, TypeOK
<1>3. MaySend("resolve", acknowledged, None)
  BY <1>1, <1>2 DEF MaySend, Tools, MayCall, LockFree, NotCalled
<1>. QED  BY <1>1, <1>3, PublishKeeps

LEMMA SubmitKeeps == ASSUME ConversationInv, Submit PROVE ConversationInv'
<1>. DEFINE reply == IF phase = "revise" THEN resolved ELSE acknowledged
<1>1. /\ MayCall("submit")
      /\ phase # "propose" => reply # None
      /\ Publish("submit", reply, None)
      /\ UNCHANGED <<room, late, runVars, called, acknowledged, resolved, faults>>
  BY DEF Submit
<1>2. reply \in 0 .. Len(rows) /\ None \in Nat
  BY Basics DEF ConversationInv, TypeOK
<1>3. MaySend("submit", reply, None)
  BY <1>1, <1>2 DEF MaySend, Tools, MayCall, LockFree, NotCalled
<1>. HIDE DEF reply
<1>. QED  BY <1>1, <1>3, PublishKeeps

LEMMA PublishHandoffKeeps == ASSUME ConversationInv, PublishHandoff PROVE ConversationInv'
<1>1. /\ stage = "handoff" /\ calls = {} /\ Handoffs = {}
      /\ UNCHANGED <<room, late, runVars, called, acknowledged, resolved, faults>>
  BY DEF PublishHandoff, HandoffExists
<1>2. PICK submission \in Submissions : Publish("handoff", submission, candidate)
  BY DEF PublishHandoff
<1>3. submission \in 0 .. Len(rows) /\ candidate \in Nat
  BY Basics DEF Submissions, ConversationInv, TypeOK
<1>4. \A i \in DOMAIN rows : ~ (rows[i].kind = "candidate_ready" /\ rows[i].cand = candidate)
  BY <1>1 DEF Handoffs
<1>5. Len(rows) = prior
  <2>1. /\ Len(rows) <= prior + 1
        /\ Len(rows) = prior + 1 =>
             rows[prior + 1].kind = "candidate_ready" /\ rows[prior + 1].cand = candidate
    BY <1>1 DEF ConversationInv, StageFacts
  <2>2. Len(rows) = prior + 1 => prior + 1 \in DOMAIN rows
    BY Basics
  <2>. QED  BY <1>4, <2>1, <2>2, Basics
<1>6. MaySend("handoff", submission, candidate)
  BY <1>1, <1>3, <1>4, <1>5 DEF MaySend, Tools
<1>. QED  BY <1>1, <1>2, <1>6, PublishKeeps

LEMMA ConversationNext == ConversationInv /\ [Next]_vars => ConversationInv'
<1>. SUFFICES ASSUME ConversationInv, [Next]_vars PROVE ConversationInv'
  OBVIOUS
<1>1. CASE Read
  BY <1>1, ReadKeeps
<1>2. CASE Acknowledge
  BY <1>2, AcknowledgeKeeps
<1>3. CASE Resolve
  BY <1>3, ResolveKeeps
<1>4. CASE Submit
  BY <1>4, SubmitKeeps
<1>5. CASE Commit
  BY <1>5, CommitStepKeeps
<1>6. CASE Answered \/ FoundAfterAll
  BY <1>6, AnsweredKeeps
<1>7. CASE AnswerLost
  BY <1>7, AnswerLostKeeps
<1>8. CASE NotFound
  BY <1>8, NotFoundKeeps
<1>9. CASE Refused
  BY <1>9, RefusedKeeps
<1>10. CASE Accepted
  BY <1>10, AcceptedStepKeeps
<1>11. CASE Rejected
  BY <1>11, RejectedKeeps
<1>12. CASE SchemaRepair
  BY <1>12, SchemaRepairKeeps
<1>13. CASE PublishHandoff
  BY <1>13, PublishHandoffKeeps
<1>14. CASE ReuseHandoff
  BY <1>14, ReuseHandoffKeeps
<1>15. CASE Crash
  BY <1>15, CrashKeeps
<1>16. CASE LateCommit
  BY <1>16, LateCommitKeeps
<1>17. CASE UNCHANGED vars
  <2>1. UNCHANGED <<rows, room, late, stage, phase, prior, candidate, revisions, calls, called,
                    acknowledged, resolved, faults>>
    BY <1>17 DEF vars, runVars, gatewayVars
  <2>2. TypeOK'
    BY <2>1 DEF ConversationInv, TypeOK
  <2>3. CallFacts'
    <3>1. \A c \in calls : c.tool \in Tools
      BY TheCall
    <3>. QED  BY <2>1, <3>1, PhaseKept DEF ConversationInv, CallFacts
  <2>4. RoomFacts' /\ RowFacts' /\ GatewayFacts' /\ AckFacts' /\ PublishedOnce'
    BY <2>1 DEF ConversationInv, RoomFacts, RowFacts, GatewayFacts, AckFacts,
                FollowsAcknowledgement, Answers, PublishedOnce, Publications
  <2>5. StageFacts'
    BY <2>1, PhaseKept DEF ConversationInv, StageFacts
  <2>. QED  BY <2>2, <2>3, <2>4, <2>5 DEF ConversationInv
<1>. QED
  BY <1>1, <1>2, <1>3, <1>4, <1>5, <1>6, <1>7, <1>8, <1>9, <1>10, <1>11, <1>12, <1>13, <1>14,
     <1>15, <1>16, <1>17 DEF Next

(***************************************************************************)
(* What the invariant implies                                              *)
(***************************************************************************)

LEMMA RowsStep == ConversationInv /\ [Next]_vars => RowsKept
<1>. SUFFICES ASSUME ConversationInv, [Next]_vars PROVE RowsKept
  OBVIOUS
<1>1. CASE \E tool, reply, cand : Publish(tool, reply, cand) /\ prior' = prior
  <2>1. PICK tool, reply, cand : rows' = Append(rows, Entry(tool, reply, cand))
    BY <1>1 DEF Publish, Entry
  <2>2. /\ Len(rows') = Len(rows) + 1
        /\ \A i \in DOMAIN rows : rows'[i] = rows[i]
    <3>. DEFINE entry == Entry(tool, reply, cand)
    <3>. HIDE DEF entry
    <3>1. rows' = Append(rows, entry)
      BY <2>1 DEF entry
    <3>. QED  BY <3>1, Basics
  <2>. QED  BY <2>2, Basics DEF RowsKept
<1>2. CASE \E call \in calls : \E seq \in Nat :
             \E status \in {"local_pending", "published", "uncertain", "failed"} :
                MarkRow(call.row, status, seq)
  BY <1>2, MarkEffects
<1>3. CASE UNCHANGED rows
  BY <1>3, Basics DEF RowsKept
<1>4. CASE Acknowledge \/ Resolve \/ Submit \/ PublishHandoff
  BY <1>1, <1>4 DEF Acknowledge, Resolve, Submit, PublishHandoff, runVars
<1>5. CASE Answered \/ FoundAfterAll
  <2>1. PICK call \in calls : \E seq \in Copies(call.row) : MarkRow(call.row, "published", seq)
    BY <1>5 DEF Answered, FoundAfterAll
  <2>2. \A seq \in Copies(call.row) : seq \in Nat
    BY Basics DEF Copies
  <2>. QED  BY <1>2, <2>1, <2>2
<1>6. CASE AnswerLost \/ Refused
  <2>1. \E call \in calls : \E status \in {"uncertain", "failed"} : MarkRow(call.row, status, None)
    BY <1>6 DEF AnswerLost, Refused
  <2>. QED  BY <1>2, <2>1, Basics
<1>7. CASE Read \/ Commit \/ NotFound \/ Accepted \/ Rejected \/ SchemaRepair \/ ReuseHandoff
             \/ Crash \/ LateCommit \/ UNCHANGED vars
  BY <1>3, <1>7 DEF Read, Commit, NotFound, Accepted, Rejected, SchemaRepair, ReuseHandoff, Crash,
     LateCommit, vars
<1>. QED  BY <1>4, <1>5, <1>6, <1>7 DEF Next

LEMMA RoomStep == ConversationInv /\ [Next]_vars => RoomKept
<1>. SUFFICES ASSUME ConversationInv, [Next]_vars PROVE RoomKept
  OBVIOUS
<1>1. CASE UNCHANGED room
  BY <1>1, Basics DEF RoomKept
<1>2. CASE \E row \in DOMAIN rows : room' = Append(room, row)
  BY <1>2, Basics, RoomAppend DEF RoomKept
<1>3. CASE Commit
  <2>1. \A call \in calls : call.row \in DOMAIN rows
    BY TheCall
  <2>. QED  BY <1>2, <1>3, <2>1 DEF Commit
<1>4. CASE LateCommit
  <2>1. late \subseteq DOMAIN rows
    BY DEF ConversationInv, TypeOK
  <2>. QED  BY <1>2, <1>4, <2>1 DEF LateCommit
<1>5. CASE ~ (Commit \/ LateCommit)
  BY <1>1, <1>5 DEF Next, Read, Acknowledge, Resolve, Submit, Answered, AnswerLost, FoundAfterAll,
     NotFound, Refused, Accepted, Rejected, SchemaRepair, PublishHandoff, ReuseHandoff, Crash, vars
<1>. QED  BY <1>3, <1>4, <1>5

LEMMA WholeHolds == ConversationInv => AcceptedConversationIsWhole
<1>. SUFFICES ASSUME ConversationInv PROVE AcceptedConversationIsWhole
  OBVIOUS
<1>1. ASSUME NEW i \in 1 .. prior
      PROVE  /\ i \in DOMAIN rows /\ rows[i].status = "published"
             /\ rows[i].seq \in DOMAIN room /\ room[rows[i].seq] = i
             /\ \A s \in DOMAIN room : room[s] > i => rows[i].seq < s
  <2>1. i \in DOMAIN rows /\ i <= prior
    BY Basics
  <2>2. rows[i].status = "published"
    BY <2>1 DEF ConversationInv, RowFacts
  <2>. QED  BY <2>1, <2>2 DEF ConversationInv, RoomFacts
<1>2. ASSUME NEW i \in 1 .. prior PROVE Copies(i) = {rows[i].seq}
  BY <1>1 DEF ConversationInv, RoomFacts, Copies
<1>3. ASSUME NEW i \in 1 .. prior, NEW j \in 1 .. (i - 1) PROVE rows[j].seq < rows[i].seq
  <2>1. j \in 1 .. prior /\ i > j
    BY Basics
  <2>. QED  BY <1>1, <2>1
<1>. QED  BY <1>1, <1>2, <1>3 DEF AcceptedConversationIsWhole

LEMMA ReadableHolds == ConversationInv => NewRolesReadEverything
<1>. SUFFICES ASSUME ConversationInv, Len(rows) = prior, NEW seq \in DOMAIN room
              PROVE  Verified(seq)
  BY DEF NewRolesReadEverything
<1>1. room[seq] \in DOMAIN rows /\ room[seq] <= prior
  BY Basics
<1>2. rows[room[seq]].status = "published"
  BY <1>1 DEF ConversationInv, RowFacts
<1>3. rows[room[seq]].seq = seq
  BY <1>1, <1>2 DEF ConversationInv, RoomFacts
<1>. QED  BY <1>2, <1>3 DEF Verified

LEMMA AcknowledgedHolds == ConversationInv => NothingBeforeItsAcknowledgement
<1>. SUFFICES ASSUME ConversationInv,
                     NEW i \in Publications(
                        Kinds \ {"plan_proposed", "handoff_acknowledged", "candidate_ready"})
              PROVE  \E j \in Publications({"handoff_acknowledged"}) :
                        /\ rows[j].inv = rows[i].inv
                        /\ rows[j].reply = Answers(i)
                        /\ rows[j].seq < rows[i].seq
  BY DEF NothingBeforeItsAcknowledgement
<1>1. i \in DOMAIN rows /\ rows[i].kind \notin Unanswering /\ rows[i].status = "published"
  BY DEF Publications, Unanswering
<1>2. PICK j \in DOMAIN rows :
        /\ j < i
        /\ rows[j].kind = "handoff_acknowledged" /\ rows[j].status = "published"
        /\ rows[j].inv = rows[i].inv /\ rows[j].reply = Answers(i)
  BY <1>1 DEF ConversationInv, AckFacts, FollowsAcknowledgement
<1>3. rows[i].seq \in DOMAIN room /\ room[rows[i].seq] = i
  BY <1>1 DEF ConversationInv, RoomFacts
<1>4. \A s \in DOMAIN room : room[s] > j => rows[j].seq < s
  BY <1>2 DEF ConversationInv, RoomFacts
<1>5. rows[j].seq < rows[i].seq
  BY <1>1, <1>2, <1>3, <1>4, Basics
<1>. QED  BY <1>2, <1>5 DEF Publications

(***************************************************************************)
(* The theorems                                                            *)
(***************************************************************************)

\* The inductive invariant holds, however the calls of an invocation overlap, fail and are
\* repeated, and wherever the supervisor dies.
THEOREM ConversationHolds == Spec => []ConversationInv
BY ConversationInit, ConversationNext, PTL DEF Spec

\* The conversation's state has the types of its table and of the gateway's fields.
THEOREM ConversationTypes == Spec => []TypeOK
<1>1. ConversationInv => TypeOK
  BY DEF ConversationInv
<1>. QED  BY <1>1, ConversationHolds, PTL

\* The accepted conversation is published, in the room once, in the order of the database.
THEOREM AcceptedIsWhole == Spec => []AcceptedConversationIsWhole
BY WholeHolds, ConversationHolds, PTL

\* A role that starts can read every message of the room, whatever window it asks for.
THEOREM RolesReadEverything == Spec => []NewRolesReadEverything
BY ReadableHolds, ConversationHolds, PTL

\* Nothing enters the room as an answer before the acknowledgement of what it answers.
THEOREM AcknowledgementsComeFirst == Spec => []NothingBeforeItsAcknowledgement
BY AcknowledgedHolds, ConversationHolds, PTL

\* An invocation publishes a kind of message once, and a candidate is handed over once.
THEOREM MessagesOnce == Spec => []PublishedOnce
<1>1. ConversationInv => PublishedOnce
  BY DEF ConversationInv
<1>. QED  BY <1>1, ConversationHolds, PTL

\* No step takes a message back, in the database or in the room, or changes what it says;
\* what is known to be published stays so.
THEOREM MessagesStay == Spec => [][RowsKept /\ RoomKept]_vars
<1>1. ConversationInv /\ [Next]_vars => [RowsKept /\ RoomKept]_vars
  BY RowsStep, RoomStep
<1>. QED  BY <1>1, ConversationHolds, PTL DEF Spec

=============================================================================
