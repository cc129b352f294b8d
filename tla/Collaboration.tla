--------------------------- MODULE Collaboration ----------------------------
(***************************************************************************)
(* The shared engineering conversation of one run: the phase-scoped tools  *)
(* of gateway.py, the record-publish-mark sequence and the verified reads  *)
(* of collaboration_backend.py, and the supervisor's validation of what an *)
(* invocation published (_validate_collaboration_invocation and            *)
(* _publish_candidate_handoff of orchestrator.py).                         *)
(*                                                                         *)
(* A message is its row in collaboration_messages.  The model may call the *)
(* tools of its phase in any order, concurrently, and as often as it       *)
(* likes; a call that is refused changes nothing and is no step.           *)
(***************************************************************************)
EXTENDS Naturals, Sequences, FiniteSets

CONSTANTS
    MaxRevisions,   \* limits.max_revision_cycles
    MaxRows,        \* bound of the model: messages
    MaxFaults       \* bound of the model: lost answers, refusals, crashes

ASSUME ConversationAssumption ==
    /\ MaxRevisions \in Nat
    /\ MaxRows \in Nat
    /\ MaxFaults \in Nat

VARIABLES
    rows,          \* collaboration_messages, in rowid order
    room,          \* the room: the rows of its messages, in sequence order
    late,          \* rows whose abandoned POST the service may still commit
    stage,         \* what the supervisor waits for: a role, its own handoff, nothing
    phase,         \* the collaboration phase of the invocation
    prior,         \* prior_count: the rows of earlier, accepted invocations
    candidate,     \* the latest candidate commit
    revisions,     \* accepted reviews that required a revision
    calls,         \* state-changing tool calls in flight
    called,        \* called_tools, as a count per tool
    acknowledged,  \* acknowledged_event_id, as its row
    resolved,      \* resolution_event_id, as its row
    faults         \* bound

gatewayVars == <<calls, called, acknowledged, resolved>>
runVars == <<stage, phase, prior, candidate, revisions>>
vars == <<rows, room, late, runVars, gatewayVars, faults>>

Phases == {"propose", "challenge", "finalize", "implement", "revise", "review"}

Kinds ==
    {"plan_proposed", "plan_challenged", "plan_finalized", "handoff_acknowledged",
     "implementation_submitted", "candidate_ready", "findings_resolved", "review_submitted"}

Tools == {"read", "acknowledge", "resolve", "submit", "handoff"}

None == 0   \* no row, no sequence number, no candidate

Row ==
    [kind : Kinds, inv : Nat, reply : Nat, cand : Nat,
     status : {"local_pending", "published", "uncertain", "failed"}, seq : Nat]

TypeOK ==
    /\ rows \in Seq(Row)
    /\ room \in Seq(1 .. Len(rows))
    /\ late \subseteq DOMAIN rows
    /\ stage \in {"role", "handoff", "over"}
    /\ phase \in Phases
    /\ prior \in 0 .. Len(rows)
    /\ candidate \in Nat
    /\ revisions \in 0 .. MaxRevisions
    /\ calls \subseteq [tool : Tools, row : DOMAIN rows, state : {"sent", "committed", "lookup"}]
    /\ called \in [Tools -> 0 .. 2]
    /\ \A tool \in Tools \ {"read"} : called[tool] <= 1
    /\ acknowledged \in 0 .. Len(rows)
    /\ resolved \in 0 .. Len(rows)
    /\ faults \in 0 .. MaxFaults

(***************************************************************************)
(* Phases                                                                  *)
(***************************************************************************)

\* The tools that are offered in a phase and must each be called exactly once.
RequiredTools ==
    {"read", "submit"}
        \cup (IF phase = "propose" THEN {} ELSE {"acknowledge"})
        \cup (IF phase = "revise" THEN {"resolve"} ELSE {})

SubmissionKind ==
    CASE phase = "propose" -> "plan_proposed"
      [] phase = "challenge" -> "plan_challenged"
      [] phase = "finalize" -> "plan_finalized"
      [] phase \in {"implement", "revise"} -> "implementation_submitted"
      [] phase = "review" -> "review_submitted"

KindOf(tool) ==
    CASE tool = "acknowledge" -> "handoff_acknowledged"
      [] tool = "resolve" -> "findings_resolved"
      [] tool = "submit" -> SubmissionKind
      [] tool = "handoff" -> "candidate_ready"

ExpectedKinds ==
    CASE phase = "propose" -> <<SubmissionKind>>
      [] phase = "revise" -> <<"handoff_acknowledged", "findings_resolved", SubmissionKind>>
      [] OTHER -> <<"handoff_acknowledged", SubmissionKind>>

ExpectedTargets ==
    CASE phase = "challenge" -> {"plan_proposed"}
      [] phase = "finalize" -> {"plan_challenged"}
      [] phase = "implement" -> {"plan_proposed", "plan_finalized"}
      [] phase = "revise" -> {"review_submitted"}
      [] phase = "review" -> {"candidate_ready"}

(***************************************************************************)
(* The room                                                                *)
(***************************************************************************)

Copies(row) == {seq \in DOMAIN room : room[seq] = row}

\* A write that its caller has given up is committed after all.
LateCommit ==
    /\ \E row \in late :
          /\ room' = Append(room, row)
          /\ late' = late \ {row}
    /\ UNCHANGED <<rows, runVars, gatewayVars, faults>>

(***************************************************************************)
(* read_new_messages                                                       *)
(***************************************************************************)

\* Every message of a window is compared with its row.
Verified(seq) == rows[room[seq]].status = "published" /\ rows[room[seq]].seq = seq

\* A read fails, and is no step, when a message of its window is not verified; the role
\* chooses the window, and one that begins after that message succeeds.
Read ==
    /\ stage = "role"
    /\ called["read"] < 2
    /\ called' = [called EXCEPT !["read"] = @ + 1]
    /\ UNCHANGED <<rows, room, late, runVars, calls, acknowledged, resolved, faults>>

(***************************************************************************)
(* State-changing tools: backend.publish                                   *)
(***************************************************************************)

\* record_collaboration_message, and the signed write leaves.
Publish(tool, reply, cand) ==
    /\ Len(rows) < MaxRows
    /\ rows' = Append(rows,
          [kind |-> KindOf(tool), inv |-> prior, reply |-> reply, cand |-> cand,
           status |-> "local_pending", seq |-> None])
    /\ calls' = calls \cup {[tool |-> tool, row |-> Len(rows) + 1, state |-> "sent"]}

FaultyLockFree == TRUE   \* the tools run concurrently

\* mutation_lock.
LockFree == calls = {}

FaultyNotCalled(tool) == TRUE

NotCalled(tool) == called[tool] = 0

MayCall(tool) ==
    /\ stage = "role"
    /\ tool \in RequiredTools
    /\ LockFree
    /\ NotCalled(tool)

Acknowledge ==
    /\ MayCall("acknowledge")
    /\ \E target \in DOMAIN rows :
          /\ rows[target].status = "published"
          /\ Publish("acknowledge", target, None)
    /\ UNCHANGED <<room, late, runVars, called, acknowledged, resolved, faults>>

Resolve ==
    /\ MayCall("resolve")
    /\ acknowledged # None
    /\ Publish("resolve", acknowledged, None)
    /\ UNCHANGED <<room, late, runVars, called, acknowledged, resolved, faults>>

\* publish_plan, publish_plan_challenge, publish_candidate or publish_review.
Submit ==
    /\ MayCall("submit")
    /\ \E reply \in {IF phase = "revise" THEN resolved ELSE acknowledged} :
          /\ phase # "propose" => reply # None
          /\ Publish("submit", reply, None)
    /\ UNCHANGED <<room, late, runVars, called, acknowledged, resolved, faults>>

Step(call, state) == calls' = (calls \ {call}) \cup {[call EXCEPT !.state = state]}

MarkRow(row, status, seq) ==
    rows' = [rows EXCEPT ![row].status = status, ![row].seq = seq]

\* What the gateway remembers of a call that succeeded.
Learn(call) ==
    /\ called' = [called EXCEPT ![call.tool] = @ + 1]
    /\ acknowledged' = IF call.tool = "acknowledge" THEN rows[call.row].reply ELSE acknowledged
    /\ resolved' = IF call.tool = "resolve" THEN call.row ELSE resolved

\* A call that raises: the supervisor's own handoff ends the run, a tool call may be
\* made again.
FaultyRaise(call) ==   \* the gateway takes the tool for called
    /\ calls' = calls \ {call}
    /\ stage' = IF call.tool = "handoff" THEN "over" ELSE stage
    /\ Learn(call)

Raise(call) ==
    /\ calls' = calls \ {call}
    /\ stage' = IF call.tool = "handoff" THEN "over" ELSE stage
    /\ UNCHANGED <<called, acknowledged, resolved>>

\* A candidate whose handoff is published goes to review.
Return(call) ==
    /\ calls' = calls \ {call}
    /\ IF call.tool = "handoff"
         THEN /\ stage' = "role" /\ phase' = "review" /\ prior' = Len(rows)
              /\ UNCHANGED <<called, acknowledged, resolved>>
         ELSE Learn(call) /\ UNCHANGED <<stage, phase, prior>>

Commit ==
    /\ \E call \in calls :
          /\ call.state = "sent"
          /\ room' = Append(room, call.row)
          /\ Step(call, "committed")
    /\ UNCHANGED <<rows, late, runVars, called, acknowledged, resolved, faults>>

Answered ==
    /\ \E call \in calls :
          /\ call.state = "committed"
          /\ \E seq \in Copies(call.row) : MarkRow(call.row, "published", seq)
          /\ Return(call)
    /\ UNCHANGED <<room, late, candidate, revisions, faults>>

\* WriteOutcomeUnknownError: marked, and the room is read back.
AnswerLost ==
    /\ faults < MaxFaults
    /\ \E call \in calls :
          /\ call.state \in {"sent", "committed"}
          /\ MarkRow(call.row, "uncertain", None)
          /\ late' = IF call.state = "sent" THEN late \cup {call.row} ELSE late
          /\ Step(call, "lookup")
    /\ faults' = faults + 1
    /\ UNCHANGED <<room, runVars, called, acknowledged, resolved>>

\* _reconcile_unknown_write reads the room from its beginning.
FoundAfterAll ==
    /\ \E call \in calls : \E seq \in Copies(call.row) :
          /\ call.state = "lookup"
          /\ MarkRow(call.row, "published", seq)
          /\ Return(call)
    /\ UNCHANGED <<room, late, candidate, revisions, faults>>

\* The message is not in the room, the room has forgotten messages, or the read fails.
NotFound ==
    /\ \E call \in calls :
          /\ call.state = "lookup"
          /\ Raise(call)
    /\ UNCHANGED <<rows, room, late, phase, prior, candidate, revisions, faults>>

\* Any other failure: refused, never sent, or committed with an over-long answer.
Refused ==
    /\ faults < MaxFaults
    /\ \E call \in calls :
          /\ call.state \in {"sent", "committed"}
          /\ MarkRow(call.row, "failed", None)
          /\ Raise(call)
    /\ faults' = faults + 1
    /\ UNCHANGED <<room, late, phase, prior, candidate, revisions>>

(***************************************************************************)
(* The end of an invocation                                                *)
(***************************************************************************)

FaultyDelivered(row) == TRUE

Delivered(row) == rows[row].status = "published"

\* _validate_collaboration_invocation, on the rows that the invocation added.
Valid ==
    LET count == Len(ExpectedKinds)
        ack == prior + 1
        submission == Len(rows)
        target == rows[ack].reply
    IN  /\ \A tool \in RequiredTools : called[tool] = 1
        /\ Len(rows) = prior + count
        /\ \A i \in 1 .. count :
              rows[prior + i].kind = ExpectedKinds[i] /\ Delivered(prior + i)
        /\ phase # "propose" =>
              /\ rows[target].kind \in ExpectedTargets
              /\ phase # "revise" => rows[submission].reply = target
              /\ phase = "review" => rows[target].cand = candidate
              /\ phase = "revise" =>
                    rows[ack + 1].reply = target /\ rows[submission].reply = ack + 1

\* The gateway of the next invocation, whose rows are those after prior.
OpenGateway ==
    /\ calls' = {}
    /\ called' = [tool \in Tools |-> 0]
    /\ acknowledged' = None
    /\ resolved' = None

\* Closing the gateway gives up the calls still in flight; the service may commit theirs.
Abandoned == late' = late \cup {call.row : call \in {c \in calls : c.state = "sent"}}

\* The role's process ends and its messages are accepted.  A new candidate is then
\* handed over, unless a revision submits the reviewed one again.
Accepted ==
    /\ stage = "role"
    /\ Valid
    /\ CASE phase = "propose" -> phase' = "challenge" /\ UNCHANGED <<stage, candidate, revisions>>
         [] phase = "challenge" -> phase' = "finalize" /\ UNCHANGED <<stage, candidate, revisions>>
         [] phase = "finalize" -> phase' = "implement" /\ UNCHANGED <<stage, candidate, revisions>>
         [] phase = "implement" ->
              /\ stage' = "handoff" /\ candidate' = candidate + 1
              /\ UNCHANGED <<phase, revisions>>
         [] phase = "revise" ->
              /\ stage' = "handoff" /\ candidate' \in {candidate, candidate + 1}
              /\ UNCHANGED <<phase, revisions>>
         [] phase = "review" ->
              /\ \/ stage' = "over" /\ UNCHANGED <<phase, revisions>>
                 \/ /\ revisions < MaxRevisions
                    /\ phase' = "revise" /\ revisions' = revisions + 1
                    /\ UNCHANGED stage
              /\ UNCHANGED candidate
    /\ prior' = Len(rows)
    /\ OpenGateway
    /\ Abandoned
    /\ UNCHANGED <<rows, room, faults>>

\* An invalid conversation, a provider failure or any later check fails the run.
Rejected ==
    /\ stage = "role"
    /\ stage' = "over"
    /\ OpenGateway
    /\ Abandoned
    /\ UNCHANGED <<rows, room, phase, prior, candidate, revisions, faults>>

\* A malformed final answer is repaired by another attempt only if the invocation has
\* published nothing.
SchemaRepair ==
    /\ stage = "role"
    /\ Len(rows) = prior
    /\ OpenGateway
    /\ UNCHANGED <<rows, room, late, runVars, faults>>

(***************************************************************************)
(* _publish_candidate_handoff                                              *)
(***************************************************************************)

Handoffs == {i \in DOMAIN rows : rows[i].kind = "candidate_ready" /\ rows[i].cand = candidate}

Submissions ==
    {i \in DOMAIN rows : rows[i].kind = "implementation_submitted" /\ rows[i].status = "published"}

HandoffExists == Handoffs # {}

PublishHandoff ==
    /\ stage = "handoff"
    /\ calls = {}
    /\ ~HandoffExists
    /\ \E submission \in Submissions :
          /\ \A other \in Submissions : other <= submission
          /\ Publish("handoff", submission, candidate)
    /\ UNCHANGED <<room, late, runVars, called, acknowledged, resolved, faults>>

\* The handoff of an earlier attempt is used if it is known to be published.
ReuseHandoff ==
    /\ stage = "handoff"
    /\ calls = {}
    /\ HandoffExists
    /\ IF \A i \in Handoffs : Delivered(i)
         THEN stage' = "role" /\ phase' = "review" /\ prior' = Len(rows)
         ELSE stage' = "over" /\ UNCHANGED <<phase, prior>>
    /\ UNCHANGED <<rows, room, late, candidate, revisions, gatewayVars, faults>>

\* The supervisor dies.  An open invocation fails the resumed run; a handoff is taken up
\* again.  A crash between two invocations changes nothing here.
Crash ==
    /\ faults < MaxFaults
    /\ stage # "over"
    /\ faults' = faults + 1
    /\ stage' = IF stage = "role" THEN "over" ELSE stage
    /\ OpenGateway
    /\ Abandoned
    /\ UNCHANGED <<rows, room, phase, prior, candidate, revisions>>

(***************************************************************************)
(* Specification                                                           *)
(***************************************************************************)

Init ==
    /\ rows = << >>
    /\ room = << >>
    /\ late = {}
    /\ stage = "role"
    /\ phase = "propose"
    /\ prior = 0
    /\ candidate = 0
    /\ revisions = 0
    /\ calls = {}
    /\ called = [tool \in Tools |-> 0]
    /\ acknowledged = None
    /\ resolved = None
    /\ faults = 0

Next ==
    \/ Read \/ Acknowledge \/ Resolve \/ Submit
    \/ Commit \/ Answered \/ AnswerLost \/ FoundAfterAll \/ NotFound \/ Refused
    \/ Accepted \/ Rejected \/ SchemaRepair
    \/ PublishHandoff \/ ReuseHandoff
    \/ Crash \/ LateCommit

Spec == Init /\ [][Next]_vars

(***************************************************************************)
(* Properties                                                              *)
(***************************************************************************)

\* The conversation that the next role reads is whole: every message of the accepted
\* invocations is published, stands in the room exactly once, at its recorded sequence
\* number, and the room's order is that of the database.
AcceptedConversationIsWhole ==
    \A i \in 1 .. prior :
        /\ rows[i].status = "published"
        /\ Copies(i) = {rows[i].seq}
        /\ \A j \in 1 .. (i - 1) : rows[j].seq < rows[i].seq

\* A role that has published nothing yet can read the whole conversation: no message in the
\* room fails the verification of read_new_messages.
NewRolesReadEverything ==
    stage = "role" /\ Len(rows) = prior => \A seq \in DOMAIN room : Verified(seq)

\* The message that a message answers in the end: a revision answers through the
\* resolution of the findings.
Answers(i) ==
    LET reply == rows[i].reply
    IN  IF reply # None /\ rows[reply].inv = rows[i].inv THEN rows[reply].reply ELSE reply

Publications(kinds) == {i \in DOMAIN rows : rows[i].kind \in kinds /\ rows[i].status = "published"}

\* Even in an invocation that is rejected later, nothing but the first plan enters the
\* room before the same invocation's acknowledgement of the message it answers.
NothingBeforeItsAcknowledgement ==
    \A i \in Publications(Kinds \ {"plan_proposed", "handoff_acknowledged", "candidate_ready"}) :
        \E j \in Publications({"handoff_acknowledged"}) :
            /\ rows[j].inv = rows[i].inv
            /\ rows[j].reply = Answers(i)
            /\ rows[j].seq < rows[i].seq

\* An invocation publishes each kind of message at most once, however its calls overlap
\* and are repeated, and a candidate is handed over at most once, across crashes.
PublishedOnce ==
    /\ \A i, j \in Publications(Kinds) :
          rows[i].inv = rows[j].inv /\ rows[i].kind = rows[j].kind => i = j
    /\ \A i, j \in DOMAIN rows :
          rows[i].kind = "candidate_ready" /\ rows[j].kind = "candidate_ready"
            /\ rows[i].cand = rows[j].cand => i = j

=============================================================================
