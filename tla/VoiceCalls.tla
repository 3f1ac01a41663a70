----------------------------- MODULE VoiceCalls -----------------------------
(***************************************************************************)
(* One outbound call of the Call Agent, from the request to the end of the *)
(* conversation.  The row is written by requests of the business, by the   *)
(* transaction that dials, by the provider's status callbacks, by the      *)
(* answering webhook (TwiML or NCCO) and by the turns of the agent.        *)
(*                                                                         *)
(* A dial is one transaction around a call to the provider: the phone may  *)
(* ring before the row says so, and the row may never say so.  Any other   *)
(* handler reads the row, decides, and writes by id: "held" is the read of *)
(* a handler that acts after somebody else has written, and "raced" tells  *)
(* what acted on such a read.  A read acted on in time is one step.        *)
(*                                                                         *)
(* A provider's acknowledgement (queued, initiated) only touches columns   *)
(* of the attempt that are left out here.                                  *)
(***************************************************************************)
EXTENDS Integers, Sequences, FiniteSets

CONSTANTS
    Endings,        \* how a phone leg may end, a subset of FinalEvents
    MaxAttempts,    \* CallAgentConfiguration.max_attempts
    MaxTurns,       \* voice_agent.max_turns of the Business Brain
    CanEscalate,    \* CallAgentConfiguration.human_escalation_enabled
    MaxLegs,        \* phone calls placed in a behaviour
    MaxFaults       \* in a behaviour: reads acted on late, dials that crash, lost callbacks

FinalEvents == {"completed", "busy", "no-answer", "failed", "canceled", "declined"}
ProviderEvents == {"ringing", "in-progress"} \cup FinalEvents

ASSUME VoiceAssumption ==
    /\ Endings \subseteq FinalEvents
    /\ CanEscalate \in BOOLEAN
    /\ {MaxAttempts, MaxTurns, MaxLegs, MaxFaults} \subseteq Nat

VARIABLES
    call,       \* VoiceCall: status ("absent" before the commit) and provider_reference
    attempts,   \* VoiceCallAttempt rows: the leg on record (0 for none), whether FAILED
    active,     \* ACTIVE VoiceCallSession rows
    turns,      \* turn_count of the ACTIVE session
    announced,  \* voice events in the outbox; an escalation row comes with its event
    dial,       \* the transaction that is dialling
    legs,       \* phone legs at the provider: the callbacks each has sent
    taken,      \* callbacks answered with success, which are not repeated
    missed,     \* one of them met no call, or was never repeated
    held,       \* reads that will be acted on late
    raced,      \* what acted on one: a "dial", or another "write"
    faults

vars == <<call, attempts, active, turns, announced, dial, legs, taken,
          missed, held, raced, faults>>

NoDial == [on |-> FALSE, creating |-> FALSE, locks |-> FALSE, leg |-> 0,
           seen |-> [status |-> "absent", live |-> FALSE, tries |-> 0, active |-> 0]]

Init ==
    /\ call = [status |-> "absent", ref |-> 0]
    /\ attempts = <<>>
    /\ active = 0
    /\ turns = 0
    /\ announced = {}
    /\ dial = NoDial
    /\ legs = <<>>
    /\ taken = {}
    /\ missed = FALSE
    /\ held = {}
    /\ raced = {}
    /\ faults = 0

-----------------------------------------------------------------------------
(* The transition tables.                                                  *)

CALL_TRANSITIONS(s) ==
    CASE s = "REQUESTED" -> {"AUTHORIZED", "CANCELLED", "FAILED", "EXPIRED"}
      [] s = "AUTHORIZED" -> {"QUEUED", "CANCELLED", "FAILED", "EXPIRED"}
      [] s = "QUEUED" -> {"INITIATING", "CANCELLED", "FAILED", "EXPIRED"}
      [] s = "INITIATING" -> {"RINGING", "CANCELLED", "FAILED", "EXPIRED"}
      [] s = "RINGING" -> {"CONNECTED", "NO_ANSWER", "BUSY", "DECLINED", "FAILED", "CANCELLED", "EXPIRED"}
      [] s = "CONNECTED" -> {"IN_PROGRESS", "COMPLETED", "FAILED", "ESCALATED"}
      [] s = "IN_PROGRESS" -> {"COMPLETED", "FAILED", "ESCALATED"}
      [] OTHER -> {}

Dialable == {"AUTHORIZED", "QUEUED", "INITIATING"}
Terminal == {"COMPLETED", "FAILED", "NO_ANSWER", "BUSY", "DECLINED", "CANCELLED", "EXPIRED", "ESCALATED"}
CallStatus == Dialable \cup Terminal \cup {"REQUESTED", "RINGING", "CONNECTED", "IN_PROGRESS"}
ConnectionFailures == {"BUSY", "NO_ANSWER", "DECLINED"}

\* PROVIDER_STATUS_TRANSITIONS; an acknowledgement maps to nothing.
Target(event) ==
    CASE event = "ringing" -> "RINGING"
      [] event = "in-progress" -> "CONNECTED"
      [] event = "completed" -> "COMPLETED"
      [] event = "busy" -> "BUSY"
      [] event = "no-answer" -> "NO_ANSWER"
      [] event = "failed" -> "FAILED"
      [] event = "canceled" -> "CANCELLED"
      [] event = "declined" -> "DECLINED"

-----------------------------------------------------------------------------
(* Reads and writes of the row.                                            *)

\* The reference on the call belongs to an attempt that has not failed.
Live == call.ref # 0 /\ \E i \in 1..Len(attempts) : attempts[i].ref = call.ref /\ ~attempts[i].failed

Fresh == [status |-> call.status, live |-> Live, tries |-> Len(attempts), active |-> active]
Reads == {Fresh} \cup held

Exists == call.status # "absent"

\* A handler has read the row and is about to be overtaken.  One that read a
\* call that is over has nothing left to do.
Hold ==
    /\ Exists /\ call.status \notin Terminal /\ Fresh \notin held
    /\ faults < MaxFaults
    /\ faults' = faults + 1
    /\ held' = held \cup {Fresh}
    /\ UNCHANGED <<call, attempts, active, turns, announced, dial, legs, taken, missed, raced>>

ActsOn(r, what) ==
    /\ held' = IF r = Fresh THEN held ELSE held \ {r}
    /\ raced' = IF r = Fresh THEN raced ELSE raced \cup {what}

\* UPDATE of the status: waits for a dial that has written the row.
SetStatus(to) == ~dial.locks /\ call' = [call EXCEPT !.status = to]

\* _end_active_session: with two rows ACTIVE the query raises.
EndSession == active <= 1 /\ active' = 0 /\ turns' = 0

Announces(to) ==
    announced' = announced \cup (CASE to = "COMPLETED" -> {"call_completed"}
                                   [] to = "FAILED" -> {"call_failed"}
                                   [] OTHER -> {})

\* complete_call and fail_call end the session and emit; the other endings only move.
Finish(to) ==
    /\ SetStatus(to)
    /\ Announces(to)
    /\ IF to \in {"COMPLETED", "FAILED"} THEN EndSession ELSE UNCHANGED <<active, turns>>

-----------------------------------------------------------------------------
(* Requests of the business.                                               *)

\* request_call and authorize_call in one transaction, with initiate=false.
RequestCall ==
    /\ ~Exists /\ ~dial.on
    /\ call' = [call EXCEPT !.status = "AUTHORIZED"]
    /\ UNCHANGED <<attempts, active, turns, announced, dial, legs, taken, missed, held, raced, faults>>

\* The same with initiate=true: the row is not visible until the dial commits.
RequestAndDial ==
    /\ ~Exists /\ ~dial.on
    /\ dial' = [NoDial EXCEPT !.on = TRUE, !.creating = TRUE]
    /\ UNCHANGED <<call, attempts, active, turns, announced, legs, taken, missed, held, raced, faults>>

\* A mutant: the reference on the call is not looked at.
StartDial_Again(r) ==
    /\ Exists /\ ~dial.on
    /\ r.status \in Dialable /\ r.tries < MaxAttempts
    /\ ActsOn(r, "dial")
    /\ dial' = [on |-> TRUE, creating |-> FALSE, locks |-> r.status # "INITIATING", leg |-> 0, seen |-> r]
    /\ UNCHANGED <<call, attempts, active, turns, announced, legs, taken, missed, faults>>

\* initiate_call of a call that is on record, up to the provider: it writes
\* QUEUED and INITIATING unless it found the retry-stable state.  The number
\* of the attempt is read afresh and unique, so dials do not overlap here.
StartDial(r) ==
    /\ Exists /\ ~dial.on
    /\ r.status \in Dialable /\ ~r.live /\ r.tries < MaxAttempts
    /\ ActsOn(r, "dial")
    /\ dial' = [on |-> TRUE, creating |-> FALSE, locks |-> r.status # "INITIATING", leg |-> 0, seen |-> r]
    /\ UNCHANGED <<call, attempts, active, turns, announced, legs, taken, missed, faults>>

\* The same call of initiate_call when the attempts are used up.
GiveUp(r) ==
    /\ Exists
    /\ r.status \in Dialable /\ ~r.live /\ r.tries >= MaxAttempts
    /\ ActsOn(r, "write")
    /\ Finish("FAILED")
    /\ UNCHANGED <<attempts, dial, legs, taken, missed, faults>>

CancelCall(r) ==
    /\ Exists
    /\ "CANCELLED" \in CALL_TRANSITIONS(r.status)
    /\ ActsOn(r, "write")
    /\ Finish("CANCELLED")
    /\ UNCHANGED <<attempts, dial, legs, taken, missed, faults>>

\* A mutant: the session is left open for the human.
Escalates_KeepSession ==
    /\ SetStatus("ESCALATED")
    /\ announced' = announced \cup {"escalation_requested"}
    /\ UNCHANGED <<active, turns>>

\* escalate_call: the row of the escalation with its event, the session, the call.
Escalates ==
    /\ SetStatus("ESCALATED")
    /\ EndSession
    /\ announced' = announced \cup {"escalation_requested"}

EscalateCall(r) ==
    /\ Exists
    /\ "ESCALATED" \in CALL_TRANSITIONS(r.status)
    /\ ActsOn(r, "write")
    /\ Escalates
    /\ UNCHANGED <<attempts, dial, legs, taken, missed, faults>>

-----------------------------------------------------------------------------
(* The provider, and the end of the dial.                                  *)

\* The phone starts to ring, or is about to.
PlaceCall ==
    /\ dial.on /\ dial.leg = 0 /\ Len(legs) < MaxLegs
    /\ legs' = Append(legs, {})
    /\ dial' = [dial EXCEPT !.leg = Len(legs) + 1]
    /\ UNCHANGED <<call, attempts, active, turns, announced, taken, missed, held, raced, faults>>

\* What a committed dial writes besides the attempt: the status only when it
\* moved it, so that a dial of an INITIATING call leaves the column alone.
Dialled(to, ref) ==
    [status |-> IF dial.creating \/ dial.locks \/ to # "INITIATING" THEN to ELSE call.status,
     ref |-> IF ref = 0 THEN call.ref ELSE ref]

Overtaken == ~dial.creating /\ dial.seen # Fresh

Commit(to, ref) ==
    /\ call' = Dialled(to, ref)
    /\ attempts' = Append(attempts, [ref |-> ref, failed |-> ref = 0])
    /\ dial' = NoDial
    /\ raced' = IF Overtaken THEN raced \cup {"write"} ELSE raced
    /\ UNCHANGED <<legs, taken, missed, held, faults>>

DialSucceeds == dial.leg # 0 /\ Commit("INITIATING", dial.leg) /\ UNCHANGED <<active, turns, announced>>

\* A retryable failure; a timeout leaves a leg that nobody has on record.
DialFailsRetryably == dial.on /\ Commit("INITIATING", 0) /\ UNCHANGED <<active, turns, announced>>

DialFails ==
    /\ dial.on /\ dial.leg = 0
    /\ Commit("FAILED", 0)
    /\ Announces("FAILED")
    /\ EndSession

\* The process stops before the commit: the rows are gone, the leg is not.
DialCrashes ==
    /\ dial.on /\ faults < MaxFaults
    /\ faults' = faults + 1
    /\ dial' = NoDial
    /\ UNCHANGED <<call, attempts, active, turns, announced, legs, taken, missed, held, raced>>

Over(n) == legs[n] \cap FinalEvents # {}

\* A leg rings, is answered, or ends; one that was answered completes or fails.
LegMoves(n, event) ==
    /\ ~Over(n) /\ event \notin legs[n]
    /\ CASE event = "ringing" -> TRUE
         [] event = "in-progress" -> "ringing" \in legs[n]
         [] event = "completed" -> "in-progress" \in legs[n]
         [] event = "failed" -> TRUE
         [] OTHER -> "in-progress" \notin legs[n]
    /\ legs' = [legs EXCEPT ![n] = @ \cup {event}]
    /\ UNCHANGED <<call, attempts, active, turns, announced, dial, taken, missed, held, raced, faults>>

-----------------------------------------------------------------------------
(* Callbacks.                                                              *)

Pending(n, event) == event \in legs[n] /\ <<n, event>> \notin taken

Takes(n, event) == taken' = taken \cup {<<n, event>>}

\* An event of a leg whose call is not committed finds neither the reference
\* nor the id: it is answered with success (Twilio) or recorded as processed
\* without a call (Vonage).  An event the provider does not repeat after an
\* error is as lost.
MissEvent(n, event) ==
    /\ Pending(n, event)
    /\ \/ ~Exists /\ UNCHANGED faults
       \/ faults < MaxFaults /\ faults' = faults + 1
    /\ Takes(n, event)
    /\ missed' = TRUE
    /\ UNCHANGED <<call, attempts, active, turns, announced, dial, legs, held, raced>>

\* A mutant: an outcome that cannot be reached from INITIATING is not a failure.
SyncStatus_Direct(current, target) == target

\* The status sync_provider_status leads to.
SyncStatus(current, target) ==
    IF target \in ConnectionFailures /\ current = "INITIATING" THEN "FAILED" ELSE target

\* Whether the transitions on the way there are allowed: completed while
\* RINGING connects first.
SyncAllowed(current, target) ==
    \/ target = "COMPLETED" /\ current = "RINGING"
    \/ SyncStatus(current, target) \in CALL_TRANSITIONS(current)

\* _sync_latest_attempt: the last row, whichever leg the event is about.
MarkAttempt(failed) ==
    attempts' = IF attempts = <<>> THEN attempts ELSE [attempts EXCEPT ![Len(attempts)].failed = failed]

\* A mutant: the webhook row survives the error, and the next try is a duplicate.
SyncEvent_KeepsRow(n, event, r) ==
    /\ Pending(n, event) /\ Exists
    /\ ActsOn(r, "write")
    /\ Takes(n, event)
    /\ LET to == SyncStatus(r.status, Target(event))
       IN  IF r.status \in Terminal \/ r.status = Target(event) \/ ~SyncAllowed(r.status, Target(event))
           THEN UNCHANGED <<call, attempts, active, turns, announced>>
           ELSE /\ Finish(to)
                /\ MarkAttempt(Target(event) = "FAILED")
    /\ UNCHANGED <<dial, legs, missed, faults>>

\* process_event for a status: an error rolls back the row of the webhook too,
\* so the provider's next try is not a duplicate.
SyncEvent(n, event, r) ==
    /\ Pending(n, event) /\ Exists
    /\ ActsOn(r, "write")
    /\ Takes(n, event)
    /\ LET to == SyncStatus(r.status, Target(event))
       IN  IF r.status \in Terminal \/ r.status = Target(event)
           THEN UNCHANGED <<call, attempts, active, turns, announced>>
           ELSE /\ SyncAllowed(r.status, Target(event))
                /\ Finish(to)
                /\ MarkAttempt(Target(event) = "FAILED")
    /\ UNCHANGED <<dial, legs, missed, faults>>

\* start_session, on an answer that found no ACTIVE session.
StartSession(sessions) ==
    /\ sessions = 0 /\ active < 2
    /\ SetStatus("IN_PROGRESS")
    /\ active' = active + 1
    /\ turns' = 0

\* The answering webhook connects the call when the callbacks are late, and
\* begins a session unless one is ACTIVE: a call it has to connect it locks
\* before it looks.  When the agent cannot begin, what was written stays.
Answer(n, r) ==
    /\ "in-progress" \in legs[n] /\ ~Over(n) /\ Exists
    /\ r.status \in {"INITIATING", "RINGING", "CONNECTED"}
    /\ ActsOn(r, "write")
    /\ \/ StartSession(IF r.status = "CONNECTED" THEN r.active ELSE active)
       \/ r.status # "CONNECTED" /\ SetStatus("CONNECTED") /\ UNCHANGED <<active, turns>>
    /\ UNCHANGED <<attempts, announced, dial, legs, taken, missed, faults>>

\* The proposals _validate_proposal lets through; collecting information is a reply.
AgentActions == {"REPLY", "REQUEST_HUMAN", "END_CALL"}

\* Over the budget the agent is not consulted.
Proposals == IF turns < MaxTurns THEN AgentActions
             ELSE {IF CanEscalate THEN "REQUEST_HUMAN" ELSE "END_CALL"}

\* handle_turn on the one ACTIVE session.
AgentTurn(r, action) ==
    /\ Exists /\ r.status \notin Terminal
    /\ active = 1
    /\ action \in Proposals
    /\ ActsOn(r, "write")
    /\ CASE action = "REPLY" -> turns' = turns + 1 /\ UNCHANGED <<call, active, announced>>
         [] action = "REQUEST_HUMAN" ->
                CanEscalate /\ "ESCALATED" \in CALL_TRANSITIONS(r.status) /\ Escalates
         [] action = "END_CALL" ->
                "COMPLETED" \in CALL_TRANSITIONS(r.status) /\ Finish("COMPLETED")
    /\ UNCHANGED <<attempts, dial, legs, taken, missed, faults>>

-----------------------------------------------------------------------------
Next ==
    \/ RequestCall \/ RequestAndDial
    \/ PlaceCall \/ DialSucceeds \/ DialFailsRetryably \/ DialFails \/ DialCrashes
    \/ Hold
    \/ \E r \in Reads : StartDial(r) \/ GiveUp(r) \/ CancelCall(r) \/ EscalateCall(r)
    \/ \E n \in 1..Len(legs), event \in {"ringing", "in-progress"} \cup Endings : LegMoves(n, event)
    \/ \E n \in 1..Len(legs), event \in ProviderEvents : MissEvent(n, event)
    \/ \E n \in 1..Len(legs), event \in ProviderEvents, r \in Reads : SyncEvent(n, event, r)
    \/ \E n \in 1..Len(legs), r \in Reads : Answer(n, r)
    \/ \E r \in Reads, action \in AgentActions : AgentTurn(r, action)

\* The provider repeats a callback that was answered with an error: as long as
\* one of them can be handled, one of them is.  The dial ends one way or
\* another.  Nobody has to request, answer or talk.
HandleCallback ==
    \E n \in 1..Len(legs), event \in ProviderEvents, r \in Reads : SyncEvent(n, event, r)
EndDial == DialSucceeds \/ DialFailsRetryably \/ DialFails

Spec == Init /\ [][Next]_vars /\ WF_vars(EndDial) /\ WF_vars(HandleCallback)

-----------------------------------------------------------------------------
(* Properties.                                                             *)

\* Legs that exist at the provider and that no attempt refers to.
Untracked == {n \in 1..Len(legs) : n # dial.leg /\ \A i \in 1..Len(attempts) : attempts[i].ref # n}

\* A customer's phone is rung once for a call: a second leg means that two
\* requests dialled on the same read, or that the outcome of the first dial
\* was lost with its transaction or with the provider's answer.
DialledOnce == Len(legs) > 1 => "dial" \in raced \/ Untracked # {}

\* A call that is over has no open conversation: the endings that do not
\* close the session are only reachable before there is one.
NoOrphanSession == call.status \in Terminal /\ active > 0 => raced # {}

\* A final callback that was answered with success has ended the call, since
\* it will not be sent again.
TakenIsApplied ==
    (\E t \in taken : t[2] \in FinalEvents) => call.status \in Terminal \/ missed \/ raced # {}

\* When the phone call of a dial that is on record is over, the row says so
\* in the end, whatever order the callbacks came in.
CallEnds ==
    \A n \in 1..MaxLegs :
        (n <= Len(legs) /\ Over(n)) ~> (call.status \in Terminal \/ missed \/ raced # {} \/ Untracked # {})
=============================================================================
