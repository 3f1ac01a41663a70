---------------------------- MODULE CallDialogue ----------------------------
(***************************************************************************)
(* The conversation of one answered call: the agent's session, the turns   *)
(* it takes, what they collect, and the hand-over to a human with the      *)
(* escalation row a member then works on.                                  *)
(*                                                                         *)
(* Every request reads the call and the session, may then wait long (a     *)
(* turn asks a language model), and writes what it computed from its read. *)
(* "reading" holds that read; "overlapped" tells on which row a request    *)
(* wrote over what another had written since.  The session's               *)
(* conversation_log is written together with turn_count and is left out.   *)
(* How the call is dialled and how its callbacks are ordered is VoiceCalls.*)
(***************************************************************************)
EXTENDS Integers, Sequences, FiniteSets

CONSTANTS
    Requests,       \* concurrent requests
    Policies,       \* voice_agent sections a Business Brain may have: [budget, actions, fields]
    Ungoverned,     \* no ACTIVE version, or one without a voice_agent section
    Fields,         \* what a proposal may try to collect
    MaxAsked,       \* turns on which the model is asked, in a behaviour
    MaxChanges,     \* changes of the governing version or the agent's configuration
    MaxEscalations  \* escalation rows in a behaviour

AgentAction == {"CONTINUE", "COLLECT_INFORMATION", "REQUEST_HUMAN", "END_CALL"}
\* One outcome of each kind.
TRANSACTIONAL_ONLY_OUTCOMES == {"CONFIRMED"}
CallOutcome == TRANSACTIONAL_ONLY_OUTCOMES \cup {"NO_CONTACT"}

ASSUME DialogueAssumption ==
    /\ \A p \in Policies : /\ p.budget \in Nat
                           /\ p.actions \subseteq AgentAction
                           /\ p.fields \subseteq Fields
    /\ Ungoverned \notin Policies
    /\ {MaxAsked, MaxChanges, MaxEscalations} \subseteq Nat

VARIABLES
    call,           \* VoiceCall: call_type and status
    session,        \* VoiceCallSession: status, turn_count, outcome, collected_information
    escalations,    \* VoiceCallEscalation rows: status, assigned member, accepted_at set
    brain,          \* the section that governs the business now
    handover,       \* CallAgentConfiguration.human_escalation_enabled
    reading,        \* what each request has read
    asked,          \* accepted turns on which the model was asked
    told,           \* fields the accepted turns collected
    overlapped,     \* rows written from an old read: "session", "call", "desk"
    changes

vars == <<call, session, escalations, brain, handover, reading, asked, told, overlapped, changes>>

CallStatus == {"CONNECTED", "IN_PROGRESS", "COMPLETED", "ESCALATED", "FAILED"}
CallSessionStatus == {"ACTIVE", "COMPLETED", "FAILED", "ESCALATED"}
NoSession == [status |-> "NONE", turns |-> 0, outcome |-> "NONE", info |-> {}]

\* The part of CALL_TRANSITIONS a call with a conversation can take.
CALL_TRANSITIONS(s) ==
    CASE s = "CONNECTED" -> {"IN_PROGRESS", "COMPLETED", "FAILED", "ESCALATED"}
      [] s = "IN_PROGRESS" -> {"COMPLETED", "FAILED", "ESCALATED"}
      [] OTHER -> {}

ESCALATION_TRANSITIONS(s) ==
    CASE s = "REQUESTED" -> {"ASSIGNED", "CANCELLED"}
      [] s = "ASSIGNED" -> {"ACCEPTED", "CANCELLED"}
      [] s = "ACCEPTED" -> {"RESOLVED"}
      [] OTHER -> {}

Idle == [job |-> "none"]

Init ==
    /\ \E type \in {"TRANSACTIONAL", "MARKETING"} : call = [type |-> type, status |-> "CONNECTED"]
    /\ session = NoSession
    /\ escalations = <<>>
    /\ brain \in Policies \cup {Ungoverned}
    /\ handover \in BOOLEAN
    /\ reading = [r \in Requests |-> Idle]
    /\ asked = 0
    /\ told = {}
    /\ overlapped = {}
    /\ changes = 0

-----------------------------------------------------------------------------
(* The business changes what governs the agent, in the middle of a call.   *)

ActivateVersion(p) ==
    /\ p # brain /\ changes < MaxChanges
    /\ changes' = changes + 1
    /\ brain' = p
    /\ UNCHANGED <<call, session, escalations, handover, reading, asked, told, overlapped>>

UpsertAgentConfig ==
    /\ changes < MaxChanges
    /\ changes' = changes + 1
    /\ handover' = ~handover
    /\ UNCHANGED <<call, session, escalations, brain, reading, asked, told, overlapped>>

-----------------------------------------------------------------------------
(* A request reads.                                                        *)

\* begin, from the answering webhook: an ungoverned agent does not start, and
\* the webhook answers all the same.
Begin ==
    /\ call.status = "CONNECTED" /\ session = NoSession /\ brain # Ungoverned
    /\ session' = [session EXCEPT !.status = "ACTIVE"]
    /\ call' = [call EXCEPT !.status = "IN_PROGRESS"]
    /\ UNCHANGED <<escalations, brain, handover, reading, asked, told, overlapped, changes>>

AnswerTwiML == Begin
AnswerNCCO == Begin

Opens(r, what) ==
    /\ reading[r] = Idle
    /\ reading' = [reading EXCEPT ![r] = what]
    /\ UNCHANGED <<call, session, escalations, brain, handover, asked, told, overlapped, changes>>

\* A mutant: the budget is compared one turn late.
Forced_OneMore(p) == session.turns > p.budget

Forced(p) == session.turns >= p.budget

\* The start of handle_turn, up to the language model.  The governing section
\* is the one that is active now, whichever the call began under.
StartTurn(r) ==
    /\ session.status = "ACTIVE" /\ brain # Ungoverned
    /\ asked < MaxAsked
    /\ Opens(r, [job |-> "turn", status |-> call.status, session |-> session,
                 policy |-> brain, handover |-> handover, forced |-> Forced(brain)])

\* What a caller said comes in a callback, which hangs up on a call that is
\* over; a member may also type it.
Over == call.status \notin {"CONNECTED", "IN_PROGRESS"}
GatherCallback(r) == ~Over /\ StartTurn(r)
InputCallback(r) == ~Over /\ StartTurn(r)
TypedTurn(r) == StartTurn(r)

StartRecord(r) ==
    /\ session.status = "ACTIVE"
    /\ Opens(r, [job |-> "record", session |-> session])

\* Requests that end the call without a turn: an operator's hand-over, and the
\* provider's callbacks.
StartEnding(r, target) == Opens(r, [job |-> target, status |-> call.status])

\* The request fails, or is refused: it leaves nothing.
Fail(r) ==
    /\ reading[r] # Idle
    /\ reading' = [reading EXCEPT ![r] = Idle]
    /\ UNCHANGED <<call, session, escalations, brain, handover, asked, told, overlapped, changes>>

-----------------------------------------------------------------------------
(* What a turn may be.                                                     *)

\* _validate_outcome_for_call.
MayRecord(outcome) == call.type = "MARKETING" => outcome \notin TRANSACTIONAL_ONLY_OUTCOMES

\* _validate_proposal, and the checks of the action before anything is written;
\* what the action does not use is left out.
Acceptable(q, action, outcome, info) ==
    /\ action \in q.policy.actions
    /\ IF action = "COLLECT_INFORMATION" THEN info \subseteq q.policy.fields ELSE info = {}
    /\ IF action = "END_CALL" THEN outcome # "NONE" /\ MayRecord(outcome) ELSE outcome = "NONE"
    /\ action = "REQUEST_HUMAN" => q.handover

\* Over the budget the model is not asked.
ForcedProposal(q, action, outcome, info) ==
    /\ info = {}
    /\ IF q.handover THEN action = "REQUEST_HUMAN" /\ outcome = "NONE"
                     ELSE action = "END_CALL" /\ outcome = "NO_CONTACT"

Proposal(q, action, outcome, info) ==
    IF q.forced THEN ForcedProposal(q, action, outcome, info) ELSE Acceptable(q, action, outcome, info)

\* A mutant: what was collected before is dropped.
Merged_Replaced(q, info) == IF info = {} THEN q.session.info ELSE info

\* _apply_collected_information.
Merged(q, info) == q.session.info \cup info

\* UPDATE of the session by id: a column the request did not change stays.
Put(db, seen, new) == IF new = seen THEN db ELSE new

Closing(action) ==
    CASE action = "REQUEST_HUMAN" -> "ESCALATED"
      [] action = "END_CALL" -> "COMPLETED"
      [] OTHER -> session.status

\* _end_active_session looks the session up again.
Ended(s, status) == IF s.status = "ACTIVE" THEN [s EXCEPT !.status = status] ELSE s

NewEscalation == [status |-> "REQUESTED", member |-> FALSE, accepted |-> FALSE]

\* A mutant: the transition is validated after the row of the escalation.
HandsOver_Unchecked(seen) ==
    /\ Len(escalations) < MaxEscalations
    /\ escalations' = Append(escalations, NewEscalation)
    /\ call' = IF "ESCALATED" \in CALL_TRANSITIONS(call.status) THEN [call EXCEPT !.status = "ESCALATED"] ELSE call

\* escalate_call, but for the session.
HandsOver(seen) ==
    /\ "ESCALATED" \in CALL_TRANSITIONS(seen)
    /\ Len(escalations) < MaxEscalations
    /\ escalations' = Append(escalations, NewEscalation)
    /\ call' = [call EXCEPT !.status = "ESCALATED"]

Late(row, when) == IF when THEN {row} ELSE {}

Settles(r) ==
    /\ reading' = [reading EXCEPT ![r] = Idle]
    /\ UNCHANGED <<brain, handover, changes>>

\* The rest of handle_turn, in one transaction.
FinishTurn(r, action, outcome, info) ==
    LET q == reading[r] IN
    /\ q.job = "turn"
    /\ Proposal(q, action, outcome, info)
    /\ LET collected == IF action = "COLLECT_INFORMATION" THEN info ELSE {}
           written == [session EXCEPT
               !.turns = q.session.turns + 1,
               !.info = Put(@, q.session.info, Merged(q, collected)),
               !.outcome = IF action = "END_CALL" THEN Put(@, q.session.outcome, outcome) ELSE @]
       IN  /\ session' = Ended(written, Closing(action))
           /\ told' = told \cup collected
    /\ CASE action = "REQUEST_HUMAN" -> HandsOver(q.status)
         [] action = "END_CALL" ->
                /\ "COMPLETED" \in CALL_TRANSITIONS(q.status)
                /\ call' = [call EXCEPT !.status = "COMPLETED"]
                /\ UNCHANGED escalations
         [] OTHER -> UNCHANGED <<call, escalations>>
    /\ asked' = IF q.forced THEN asked ELSE asked + 1
    /\ overlapped' = overlapped \cup Late("session", session.turns # q.session.turns)
                                \cup Late("call", action \in {"REQUEST_HUMAN", "END_CALL"} /\ call.status # q.status)
    /\ Settles(r)

\* record_outcome.
FinishRecord(r, outcome) ==
    LET q == reading[r] IN
    /\ q.job = "record" /\ MayRecord(outcome)
    /\ session' = [session EXCEPT !.outcome = Put(@, q.session.outcome, outcome)]
    /\ UNCHANGED <<call, escalations, asked, told, overlapped>>
    /\ Settles(r)

\* create_escalation of the operator.
FinishEscalate(r) ==
    LET q == reading[r] IN
    /\ q.job = "ESCALATED"
    /\ HandsOver(q.status)
    /\ session' = Ended(session, "ESCALATED")
    /\ overlapped' = overlapped \cup Late("call", call.status # q.status)
    /\ UNCHANGED <<asked, told>>
    /\ Settles(r)

\* complete_call and fail_call, from the provider's callbacks.
FinishEnding(r) ==
    LET q == reading[r] IN
    /\ q.job \in {"COMPLETED", "FAILED"} /\ q.job \in CALL_TRANSITIONS(q.status)
    /\ call' = [call EXCEPT !.status = q.job]
    /\ session' = Ended(session, q.job)
    /\ overlapped' = overlapped \cup Late("call", call.status # q.status)
    /\ UNCHANGED <<escalations, asked, told>>
    /\ Settles(r)

-----------------------------------------------------------------------------
(* The escalation desk.                                                    *)

OpenEscalation(r, i, target) ==
    /\ target \in ESCALATION_TRANSITIONS(escalations[i].status)
    /\ Opens(r, [job |-> "desk", row |-> i, target |-> target, seen |-> escalations[i]])

Worked(e, target) ==
    [e EXCEPT !.status = target,
              !.member = @ \/ target = "ASSIGNED",
              !.accepted = @ \/ target = "ACCEPTED"]

\* assign, accept, resolve and cancel_escalation.
TransitionEscalation(r) ==
    LET q == reading[r] IN
    /\ q.job = "desk"
    /\ escalations' = [escalations EXCEPT ![q.row] = Worked(@, q.target)]
    /\ overlapped' = overlapped \cup Late("desk", escalations[q.row] # q.seen)
    /\ UNCHANGED <<call, session, asked, told>>
    /\ Settles(r)

-----------------------------------------------------------------------------
Next ==
    \/ \E p \in Policies \cup {Ungoverned} : ActivateVersion(p)
    \/ UpsertAgentConfig
    \/ AnswerTwiML \/ AnswerNCCO
    \/ \E r \in Requests :
         \/ GatherCallback(r) \/ InputCallback(r) \/ TypedTurn(r) \/ StartRecord(r) \/ Fail(r)
         \/ \E target \in {"ESCALATED", "COMPLETED", "FAILED"} : StartEnding(r, target)
         \/ \E i \in 1..Len(escalations), target \in {"ASSIGNED", "ACCEPTED", "RESOLVED", "CANCELLED"} :
               OpenEscalation(r, i, target)
         \/ \E action \in AgentAction, outcome \in CallOutcome \cup {"NONE"}, info \in SUBSET Fields :
               FinishTurn(r, action, outcome, info)
         \/ \E outcome \in CallOutcome : FinishRecord(r, outcome)
         \/ FinishEscalate(r) \/ FinishEnding(r) \/ TransitionEscalation(r)

Spec == Init /\ [][Next]_vars

-----------------------------------------------------------------------------
(* Properties.                                                             *)

\* While turns do not overlap, the model is never asked on more of them than
\* the most generous section allows, however the sections change meanwhile.
BudgetHolds == "session" \in overlapped \/ asked = 0 \/ \E p \in Policies : asked <= p.budget

\* What the caller was thanked for stays in the session until the call is over
\* and after, unless another turn wrote an older read over it.
ToldIsKept == "session" \in overlapped \/ told \subseteq session.info

\* The call and the desk agree, unless two requests ended the call on one read:
\* a call that was handed over has one escalation and no open session, and an
\* escalation belongs to a call that was handed over.
HandedOverOnce ==
    "call" \notin overlapped =>
        /\ Len(escalations) = (IF call.status = "ESCALATED" THEN 1 ELSE 0)
        /\ escalations # <<>> => session.status # "ACTIVE"
=============================================================================
