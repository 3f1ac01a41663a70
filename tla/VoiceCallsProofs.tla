-------------------------- MODULE VoiceCallsProofs --------------------------
(***************************************************************************)
(* Proofs about VoiceCalls, for any number of attempts, turns, legs and    *)
(* faults: a phone rings once, no session outlives its call, and a final   *)
(* callback that was acknowledged has ended the call.                      *)
(*                                                                         *)
(* Each property excuses what a late write may do.  The invariants say     *)
(* what holds as long as the excuse does not: the phone that rings is the  *)
(* one on record, a session is open only in a call under way, and only a   *)
(* dial moves a call back.                                                 *)
(***************************************************************************)
EXTENDS VoiceCalls, TLAPS

ReadType == [status : CallStatus \cup {"absent"}, live : BOOLEAN, tries : Nat, active : 0..2]
AttemptType == [ref : Nat, failed : BOOLEAN]
DialType == [on : BOOLEAN, creating : BOOLEAN, locks : BOOLEAN, leg : Nat, seen : ReadType]

\* Every variable has its type.
TypeOK ==
    /\ call \in [status : CallStatus \cup {"absent"}, ref : Nat]
    /\ attempts \in Seq(AttemptType)
    /\ active \in 0..2
    /\ turns \in 0..MaxTurns
    /\ announced \subseteq {"call_completed", "call_failed", "escalation_requested"}
    /\ dial \in DialType
    /\ legs \in Seq(SUBSET ProviderEvents)
    /\ taken \subseteq Nat \X ProviderEvents
    /\ missed \in BOOLEAN
    /\ held \subseteq ReadType
    /\ raced \subseteq {"dial", "write"}
    /\ faults \in 0..MaxFaults

\* The dial under way.
DialInv ==
    /\ ~dial.on => dial.leg = 0
    /\ dial.leg <= Len(legs)
    /\ dial.on /\ dial.creating => ~Exists
    /\ dial.on /\ ~dial.creating => Exists /\ dial.seen.status \in Dialable
    /\ ~Exists => attempts = <<>> /\ active = 0

NoneOnRecord == \A i \in 1..Len(attempts) : attempts[i].ref = 0

\* As long as nobody dialled on an old read and no leg got lost, a dial
\* means that no leg is on record, and a leg on record stops the next dial.
OneLeg ==
    ("dial" \notin raced /\ Untracked = {}) =>
        /\ dial.on => NoneOnRecord
        /\ call.status \in Dialable => NoneOnRecord \/ Live
        /\ Len(legs) <= 1

\* As long as nobody wrote late, a session is open only in a call under way,
\* and a call whose end was reported is over.
Orderly ==
    raced = {} =>
        /\ active > 0 => call.status = "IN_PROGRESS"
        /\ (\E t \in taken : t[2] \in FinalEvents) => call.status \in Terminal \/ missed

CallInv == TypeOK /\ DialInv /\ OneLeg /\ Orderly

-----------------------------------------------------------------------------
LEMMA ReadsTyped == TypeOK => Fresh \in ReadType /\ Reads \subseteq ReadType
<1> SUFFICES ASSUME TypeOK PROVE Fresh \in ReadType /\ Reads \subseteq ReadType
  OBVIOUS
<1>1. Live \in BOOLEAN
  BY DEF Live
<1>2. call.status \in CallStatus \cup {"absent"} /\ Len(attempts) \in Nat /\ active \in 0..2
  BY DEF TypeOK
<1>3. Fresh \in ReadType
  BY <1>1, <1>2 DEF Fresh, ReadType
<1> QED
  BY <1>3 DEF TypeOK, Reads

LEMMA NoDialTyped == NoDial \in DialType
BY DEF NoDial, DialType, ReadType

\* The statuses are distinct, and the final ones of the provider end a call.
LEMMA Statuses ==
    /\ Dialable \cap Terminal = {}
    /\ \A s \in Dialable \cup Terminal : s \notin {"absent", "IN_PROGRESS", "CONNECTED", "RINGING"}
    /\ \A event \in ProviderEvents : Target(event) \in CallStatus \ Dialable
    /\ \A event \in FinalEvents : Target(event) \in Terminal
<1>1. ASSUME NEW event \in FinalEvents PROVE Target(event) \in Terminal
  BY <1>1 DEF FinalEvents, Target, Terminal
<1>2. ASSUME NEW event \in ProviderEvents PROVE Target(event) \in CallStatus \ Dialable
  <2>1. CASE event \in FinalEvents
    BY <1>1, <2>1 DEF CallStatus, Terminal, Dialable
  <2>2. CASE event = "ringing"
    BY <2>2 DEF Target, CallStatus, Dialable
  <2>3. CASE event = "in-progress"
    BY <2>3 DEF Target, CallStatus, Dialable
  <2> QED
    BY <2>1, <2>2, <2>3 DEF ProviderEvents
<1> QED
  BY <1>1, <1>2 DEF Dialable, Terminal

\* What sync_provider_status writes.
LEMMA SyncShape ==
    ASSUME NEW current, NEW event \in ProviderEvents
    PROVE  /\ SyncStatus(current, Target(event)) \in CallStatus \ Dialable
           /\ event \in FinalEvents => SyncStatus(current, Target(event)) \in Terminal
           /\ current = "IN_PROGRESS" /\ SyncAllowed(current, Target(event)) =>
                 SyncStatus(current, Target(event)) \in {"COMPLETED", "FAILED"}
<1>1. /\ SyncStatus(current, Target(event)) \in CallStatus \ Dialable
      /\ event \in FinalEvents => SyncStatus(current, Target(event)) \in Terminal
  BY Statuses DEF SyncStatus, CallStatus, Terminal, Dialable
<1>2. ASSUME current = "IN_PROGRESS", SyncAllowed(current, Target(event))
      PROVE  SyncStatus(current, Target(event)) \in {"COMPLETED", "FAILED"}
  <2>1. SyncStatus(current, Target(event)) = Target(event)
    BY <1>2 DEF SyncStatus
  <2>2. CALL_TRANSITIONS("IN_PROGRESS") = {"COMPLETED", "FAILED", "ESCALATED"}
    BY DEF CALL_TRANSITIONS
  <2>3. Target(event) \in {"COMPLETED", "FAILED", "ESCALATED"}
    BY <1>2, <2>1, <2>2 DEF SyncAllowed
  <2>4. Target(event) # "ESCALATED"
    BY DEF ProviderEvents, FinalEvents, Target
  <2> QED
    BY <2>1, <2>3, <2>4
<1> QED
  BY <1>1, <1>2

\* The legs on record are the same.
SameRecord ==
    /\ Len(attempts') = Len(attempts)
    /\ \A i \in 1..Len(attempts) : attempts'[i].ref = attempts[i].ref

LEMMA MarkShape ==
    ASSUME TypeOK, NEW failed \in BOOLEAN, MarkAttempt(failed)
    PROVE  attempts' \in Seq(AttemptType) /\ SameRecord
<1>1. CASE attempts = <<>>
  BY <1>1 DEF MarkAttempt, TypeOK, SameRecord
<1>2. CASE attempts # <<>>
  <2>1. attempts' = [attempts EXCEPT ![Len(attempts)].failed = failed]
    BY <1>2 DEF MarkAttempt
  <2>2. Len(attempts) \in 1..Len(attempts)
    BY <1>2 DEF TypeOK
  <2>3. PICK k \in 1..Len(attempts) : k = Len(attempts)
    BY <2>2
  <2>4. PICK a : a = [attempts[k] EXCEPT !.failed = failed]
    OBVIOUS
  <2>5. attempts[k] \in AttemptType
    BY DEF TypeOK
  <2>6. a \in AttemptType /\ a.ref = attempts[k].ref
    BY <2>4, <2>5 DEF AttemptType
  <2>7. attempts' = [attempts EXCEPT ![k] = a]
    BY <2>1, <2>3, <2>4
  <2> QED
    BY <2>6, <2>7 DEF TypeOK, SameRecord
<1> QED
  BY <1>1, <1>2

-----------------------------------------------------------------------------
(* What a step has to respect for an invariant to survive it.              *)

LEMMA OneLegStays ==
    ASSUME CallInv, UNCHANGED dial, Len(legs') = Len(legs), SameRecord, raced \subseteq raced',
           (call' = call /\ attempts' = attempts) \/ call'.status \notin Dialable
    PROVE  OneLeg'
<1>1. Untracked' = Untracked
  BY DEF Untracked, SameRecord
<1>2. NoneOnRecord' <=> NoneOnRecord
  BY DEF NoneOnRecord, SameRecord
<1>3. call' = call /\ attempts' = attempts => (Live' <=> Live)
  BY DEF Live
<1> QED
  BY <1>1, <1>2, <1>3 DEF CallInv, OneLeg

LEMMA ActsOnFacts ==
    ASSUME CallInv, NEW r \in Reads, NEW what \in {"dial", "write"}, ActsOn(r, what)
    PROVE  /\ held' \subseteq ReadType /\ raced' \subseteq {"dial", "write"}
           /\ raced \subseteq raced'
           /\ raced' = {} => raced = {} /\ r = Fresh
           /\ what = "dial" /\ "dial" \notin raced' => r = Fresh
BY DEF CallInv, TypeOK, ActsOn

\* A handler writes a status that is none of the dial's.
LEMMA StatusWritten ==
    ASSUME CallInv, NEW r \in Reads, Exists, ActsOn(r, "write"),
           NEW to \in CallStatus \ Dialable, call' = [call EXCEPT !.status = to],
           attempts' \in Seq(AttemptType), SameRecord,
           active' \in 0..2, turns' \in 0..MaxTurns,
           announced' \subseteq {"call_completed", "call_failed", "escalation_requested"},
           taken' \subseteq Nat \X ProviderEvents,
           raced = {} /\ r = Fresh /\ active' > 0 => to = "IN_PROGRESS",
           raced = {} /\ r = Fresh /\ (\E t \in taken' : t[2] \in FinalEvents) =>
               to \in Terminal \/ missed,
           UNCHANGED <<dial, legs, missed, faults>>
    PROVE  CallInv'
<1>1. call'.status = to /\ call' \in [status : CallStatus \cup {"absent"}, ref : Nat]
  BY DEF CallInv, TypeOK
<1>2. TypeOK'
  BY <1>1, ActsOnFacts DEF CallInv, TypeOK
<1>3. to # "absent"
  BY DEF CallStatus, Terminal, Dialable
<1>4. DialInv'
  BY <1>1, <1>3 DEF CallInv, DialInv, Exists
<1>5. OneLeg'
  BY <1>1, ActsOnFacts, OneLegStays
<1>6. Orderly'
  BY <1>1, ActsOnFacts DEF Orderly
<1> QED
  BY <1>2, <1>4, <1>5, <1>6 DEF CallInv

\* A handler finds nothing to write.
LEMMA NothingWritten ==
    ASSUME CallInv, NEW r \in Reads, ActsOn(r, "write"),
           taken' \subseteq Nat \X ProviderEvents, turns' \in 0..MaxTurns,
           raced = {} /\ r = Fresh /\ (\E t \in taken' : t[2] \in FinalEvents) =>
               call.status \in Terminal \/ missed,
           UNCHANGED <<call, attempts, active, announced, dial, legs, missed, faults>>
    PROVE  CallInv'
<1>1. TypeOK'
  BY ActsOnFacts DEF CallInv, TypeOK
<1>2. DialInv'
  BY DEF CallInv, DialInv, Exists
<1>3. OneLeg'
  BY ActsOnFacts, OneLegStays DEF SameRecord
<1>4. Orderly'
  BY ActsOnFacts DEF CallInv, Orderly
<1> QED
  BY <1>1, <1>2, <1>3, <1>4 DEF CallInv

LEMMA FinishFacts ==
    ASSUME CallInv, NEW to \in CallStatus \ Dialable, Finish(to)
    PROVE  /\ call' = [call EXCEPT !.status = to]
           /\ active' \in 0..2 /\ turns' \in 0..MaxTurns
           /\ announced' \subseteq {"call_completed", "call_failed", "escalation_requested"}
           /\ to \in {"COMPLETED", "FAILED"} => active' = 0
           /\ to \notin {"COMPLETED", "FAILED"} => active' = active
<1>1. announced' \subseteq {"call_completed", "call_failed", "escalation_requested"}
  BY DEF Finish, Announces, CallInv, TypeOK
<1> QED
  BY <1>1, VoiceAssumption DEF Finish, SetStatus, EndSession, CallInv, TypeOK, VoiceAssumption

-----------------------------------------------------------------------------
(* The handlers.                                                           *)

LEMMA GiveUpStep ==
    ASSUME CallInv, NEW r \in Reads, GiveUp(r) PROVE CallInv'
<1>1. "FAILED" \in CallStatus \ Dialable /\ "FAILED" \in Terminal
  BY DEF CallStatus, Terminal, Dialable
<1>2. attempts' \in Seq(AttemptType) /\ SameRecord /\ taken' \subseteq Nat \X ProviderEvents
  BY DEF GiveUp, CallInv, TypeOK, SameRecord
<1> QED
  BY <1>1, <1>2, FinishFacts, StatusWritten DEF GiveUp

LEMMA CancelCallStep ==
    ASSUME CallInv, NEW r \in Reads, CancelCall(r) PROVE CallInv'
<1>1. "CANCELLED" \in CallStatus \ Dialable /\ "CANCELLED" \in Terminal
  BY DEF CallStatus, Terminal, Dialable
<1>2. attempts' \in Seq(AttemptType) /\ SameRecord /\ taken' \subseteq Nat \X ProviderEvents
  BY DEF CancelCall, CallInv, TypeOK, SameRecord
<1>3. r.status # "IN_PROGRESS"
  BY DEF CancelCall, CALL_TRANSITIONS
<1>4. raced = {} /\ r = Fresh => active = 0
  BY <1>3 DEF CallInv, Orderly, Fresh, TypeOK
<1> QED
  BY <1>1, <1>2, <1>4, FinishFacts, StatusWritten DEF CancelCall

LEMMA EscalatesFacts ==
    ASSUME CallInv, Escalates
    PROVE  /\ call' = [call EXCEPT !.status = "ESCALATED"]
           /\ active' = 0 /\ turns' \in 0..MaxTurns
           /\ announced' \subseteq {"call_completed", "call_failed", "escalation_requested"}
           /\ "ESCALATED" \in CallStatus \ Dialable /\ "ESCALATED" \in Terminal
BY VoiceAssumption DEF VoiceAssumption, Escalates, SetStatus, EndSession, CallInv, TypeOK,
   CallStatus, Terminal, Dialable

LEMMA EscalateCallStep ==
    ASSUME CallInv, NEW r \in Reads, EscalateCall(r) PROVE CallInv'
<1>1. attempts' \in Seq(AttemptType) /\ SameRecord /\ taken' \subseteq Nat \X ProviderEvents
  BY DEF EscalateCall, CallInv, TypeOK, SameRecord
<1>2. active' \in 0..2 /\ ~ (active' > 0)
  BY EscalatesFacts DEF EscalateCall
<1> QED
  BY <1>1, <1>2, EscalatesFacts, StatusWritten DEF EscalateCall

LEMMA AgentTurnStep ==
    ASSUME CallInv, NEW r \in Reads, NEW action \in AgentActions, AgentTurn(r, action)
    PROVE  CallInv'
<1>1. attempts' \in Seq(AttemptType) /\ SameRecord /\ taken' \subseteq Nat \X ProviderEvents
  BY DEF AgentTurn, CallInv, TypeOK, SameRecord
<1>2. CASE action = "REPLY"
  <2>1. turns' = turns + 1 /\ UNCHANGED <<call, active, announced>>
    BY <1>2 DEF AgentTurn
  <2>2. turns < MaxTurns
    BY <1>2 DEF AgentTurn, Proposals
  <2>3. turns' \in 0..MaxTurns
    BY <2>1, <2>2, VoiceAssumption DEF CallInv, TypeOK, VoiceAssumption
  <2>4. raced = {} /\ (\E t \in taken' : t[2] \in FinalEvents) => call.status \in Terminal \/ missed
    BY DEF AgentTurn, CallInv, Orderly
  <2> QED
    BY <1>1, <2>1, <2>3, <2>4, NothingWritten DEF AgentTurn
<1>3. CASE action = "REQUEST_HUMAN"
  <2>1. Escalates
    BY <1>3 DEF AgentTurn
  <2>2. active' \in 0..2 /\ ~ (active' > 0)
    BY <2>1, EscalatesFacts
  <2> QED
    BY <1>1, <2>1, <2>2, EscalatesFacts, StatusWritten DEF AgentTurn
<1>4. CASE action = "END_CALL"
  <2>1. Finish("COMPLETED")
    BY <1>4 DEF AgentTurn
  <2>2. "COMPLETED" \in CallStatus \ Dialable /\ "COMPLETED" \in Terminal
    BY DEF CallStatus, Terminal, Dialable
  <2> QED
    BY <1>1, <2>1, <2>2, FinishFacts, StatusWritten DEF AgentTurn
<1> QED
  BY <1>2, <1>3, <1>4 DEF AgentActions

LEMMA SyncEventStep ==
    ASSUME CallInv, NEW n \in 1..Len(legs), NEW event \in ProviderEvents, NEW r \in Reads,
           SyncEvent(n, event, r)
    PROVE  CallInv'
<1>1. /\ taken' = taken \cup {<<n, event>>}
      /\ taken' \subseteq Nat \X ProviderEvents
  <2>1. n \in Nat
    BY DEF CallInv, TypeOK
  <2> QED
    BY <2>1 DEF SyncEvent, Takes, CallInv, TypeOK
<1>2. CASE r.status \in Terminal \/ r.status = Target(event)
  <2>1. raced = {} /\ r = Fresh /\ (\E t \in taken' : t[2] \in FinalEvents) =>
            call.status \in Terminal \/ missed
    BY <1>1, <1>2, Statuses DEF CallInv, Orderly, Fresh
  <2>2. turns' \in 0..MaxTurns
    BY <1>2 DEF SyncEvent, CallInv, TypeOK
  <2> QED
    BY <1>1, <1>2, <2>1, <2>2, NothingWritten DEF SyncEvent
<1>3. CASE ~ (r.status \in Terminal \/ r.status = Target(event))
  <2>1. PICK to \in CallStatus \ Dialable :
           /\ to = SyncStatus(r.status, Target(event))
           /\ event \in FinalEvents => to \in Terminal
    BY SyncShape
  <2>2. /\ SyncAllowed(r.status, Target(event)) /\ Finish(to)
        /\ MarkAttempt(Target(event) = "FAILED")
    BY <1>3, <2>1 DEF SyncEvent
  <2>3. attempts' \in Seq(AttemptType) /\ SameRecord
    BY <2>2, MarkShape DEF CallInv
  <2>4. raced = {} /\ r = Fresh /\ active' > 0 => to = "IN_PROGRESS"
    <3>1. raced = {} /\ r = Fresh /\ active > 0 => to \in {"COMPLETED", "FAILED"}
      BY <2>1, <2>2, SyncShape DEF CallInv, Orderly, Fresh
    <3> QED
      BY <2>2, <3>1, FinishFacts DEF CallInv, TypeOK
  <2>5. raced = {} /\ r = Fresh /\ (\E t \in taken' : t[2] \in FinalEvents) =>
            to \in Terminal \/ missed
    BY <1>1, <1>3, <2>1 DEF CallInv, Orderly, Fresh
  <2> QED
    BY <1>1, <2>2, <2>3, <2>4, <2>5, FinishFacts, StatusWritten DEF SyncEvent
<1> QED
  BY <1>2, <1>3

LEMMA AnswerStep ==
    ASSUME CallInv, NEW n \in 1..Len(legs), NEW r \in Reads, Answer(n, r) PROVE CallInv'
<1>1. attempts' \in Seq(AttemptType) /\ SameRecord /\ taken' \subseteq Nat \X ProviderEvents
  BY DEF Answer, CallInv, TypeOK, SameRecord
<1>2. raced = {} /\ r = Fresh =>
          active = 0 /\ ((\E t \in taken' : t[2] \in FinalEvents) => missed)
  BY DEF Answer, CallInv, Orderly, Fresh, TypeOK, Terminal
<1>3. CASE SetStatus("IN_PROGRESS") /\ active < 2 /\ active' = active + 1 /\ turns' = 0
  <2>1. active' \in 0..2 /\ turns' \in 0..MaxTurns
    BY <1>3, VoiceAssumption DEF VoiceAssumption, CallInv, TypeOK
  <2>2. "IN_PROGRESS" \in CallStatus \ Dialable
    BY DEF CallStatus, Dialable
  <2>3. announced' \subseteq {"call_completed", "call_failed", "escalation_requested"}
    BY DEF Answer, CallInv, TypeOK
  <2> QED
    BY <1>1, <1>2, <1>3, <2>1, <2>2, <2>3, StatusWritten DEF Answer, SetStatus
<1>4. CASE SetStatus("CONNECTED") /\ UNCHANGED <<active, turns>>
  <2>1. "CONNECTED" \in CallStatus \ Dialable
    BY DEF CallStatus, Dialable
  <2>2. active' \in 0..2 /\ turns' \in 0..MaxTurns
        /\ announced' \subseteq {"call_completed", "call_failed", "escalation_requested"}
    BY <1>4 DEF Answer, CallInv, TypeOK
  <2>3. raced = {} /\ r = Fresh => ~ (active' > 0)
    BY <1>2, <1>4
  <2> QED
    BY <1>1, <1>2, <1>4, <2>1, <2>2, <2>3, StatusWritten DEF Answer, SetStatus
<1> QED
  BY <1>3, <1>4 DEF Answer, StartSession

-----------------------------------------------------------------------------
(* Requests that begin, and the dial.                                      *)

LEMMA LegsCounted == CallInv => Len(legs) \in Nat
BY DEF CallInv, TypeOK

LEMMA RequestStep ==
    ASSUME CallInv, RequestCall \/ RequestAndDial PROVE CallInv'
<1>1. NoneOnRecord /\ attempts = <<>> /\ active = 0 /\ ~dial.on /\ dial.leg = 0 /\ ~Exists
  BY DEF RequestCall, RequestAndDial, CallInv, DialInv, NoneOnRecord
<1>2. CASE RequestCall
  <2>1. call' \in [status : CallStatus \cup {"absent"}, ref : Nat] /\ call'.status = "AUTHORIZED"
    BY <1>2 DEF RequestCall, CallInv, TypeOK, CallStatus, Dialable
  <2>2. TypeOK' /\ DialInv'
    BY <1>1, <1>2, <2>1 DEF RequestCall, CallInv, TypeOK, DialInv, Exists
  <2>3. OneLeg'
    BY <1>1, <1>2 DEF RequestCall, CallInv, OneLeg, Untracked, NoneOnRecord
  <2>4. Orderly'
    BY <1>1, <1>2 DEF RequestCall, CallInv, Orderly, Exists, Terminal
  <2> QED
    BY <2>2, <2>3, <2>4 DEF CallInv
<1>3. CASE RequestAndDial
  <2>1. dial' \in DialType /\ dial'.on /\ dial'.creating /\ dial'.leg = 0
    BY <1>3, NoDialTyped DEF RequestAndDial, NoDial, DialType
  <2>2. TypeOK' /\ DialInv'
    BY <1>1, <1>3, <2>1 DEF RequestAndDial, CallInv, TypeOK, DialInv, Exists
  <2>3. OneLeg'
    BY <1>1, <1>3, <2>1 DEF RequestAndDial, CallInv, OneLeg, Untracked, NoneOnRecord
  <2>4. Orderly'
    BY <1>3 DEF RequestAndDial, CallInv, Orderly
  <2> QED
    BY <2>2, <2>3, <2>4 DEF CallInv
<1> QED
  BY <1>2, <1>3

LEMMA HoldStep == ASSUME CallInv, Hold PROVE CallInv'
<1>1. TypeOK'
  BY ReadsTyped, VoiceAssumption DEF Hold, CallInv, TypeOK, VoiceAssumption
<1>2. DialInv' /\ Orderly'
  BY DEF Hold, CallInv, DialInv, Orderly, Exists
<1>3. OneLeg'
  BY OneLegStays DEF Hold, SameRecord
<1> QED
  BY <1>1, <1>2, <1>3 DEF CallInv

LEMMA StartDialStep ==
    ASSUME CallInv, NEW r \in Reads, StartDial(r) PROVE CallInv'
<1> USE DEF StartDial
<1>1. r \in ReadType
  BY ReadsTyped DEF CallInv
<1>2. /\ dial' \in DialType /\ dial'.on /\ ~dial'.creating /\ dial'.leg = 0 /\ dial'.seen = r
      /\ dial.leg = 0
  BY <1>1 DEF DialType, CallInv, DialInv
<1>3. TypeOK'
  BY <1>2, ActsOnFacts DEF CallInv, TypeOK
<1>4. DialInv'
  BY <1>2 DEF CallInv, DialInv, Exists
<1>5. OneLeg'
  <2>1. SUFFICES ASSUME "dial" \notin raced', Untracked' = {}
                 PROVE  NoneOnRecord /\ Len(legs) <= 1
    BY <1>2 DEF OneLeg, NoneOnRecord
  <2>2. r = Fresh /\ "dial" \notin raced
    BY <2>1, ActsOnFacts
  <2>3. ~Live /\ call.status \in Dialable
    BY <2>2 DEF Fresh
  <2>4. Untracked = {}
    BY <1>2, <2>1 DEF Untracked
  <2> QED
    BY <2>2, <2>3, <2>4 DEF CallInv, OneLeg
<1>6. Orderly'
  BY ActsOnFacts DEF CallInv, Orderly
<1> QED
  BY <1>3, <1>4, <1>5, <1>6 DEF CallInv

LEMMA PlaceCallStep == ASSUME CallInv, PlaceCall PROVE CallInv'
<1> USE DEF PlaceCall
<1>1. /\ legs' \in Seq(SUBSET ProviderEvents) /\ Len(legs') = Len(legs) + 1
      /\ Len(legs) \in Nat
  BY DEF CallInv, TypeOK
<1>2. /\ dial' \in DialType /\ dial'.leg = Len(legs) + 1 /\ dial'.on = dial.on
      /\ dial'.creating = dial.creating /\ dial'.seen = dial.seen
  <2>1. dial \in DialType
    BY DEF CallInv, TypeOK
  <2>2. dial' = [dial EXCEPT !.leg = Len(legs) + 1] /\ Len(legs) + 1 \in Nat
    BY <1>1
  <2>3. dial' \in DialType /\ dial'.leg = Len(legs) + 1
    BY <2>1, <2>2 DEF DialType
  <2>4. dial'.on = dial.on /\ dial'.creating = dial.creating /\ dial'.seen = dial.seen
    BY <2>1, <2>2 DEF DialType
  <2> QED
    BY <2>3, <2>4
<1>3. TypeOK' /\ DialInv'
  BY <1>1, <1>2 DEF CallInv, TypeOK, DialInv, Exists
<1>4. OneLeg'
  <2>1. SUFFICES ASSUME "dial" \notin raced, Untracked' = {}
                 PROVE  NoneOnRecord /\ Len(legs) + 1 <= 1
    BY <1>1, <1>2 DEF OneLeg, NoneOnRecord
  <2>2. Untracked = {}
    BY <1>1, <1>2, <2>1 DEF Untracked
  <2>3. NoneOnRecord
    BY <2>1, <2>2 DEF CallInv, OneLeg
  <2>4. ASSUME Len(legs) # 0 PROVE FALSE
    <3>1. 1 \in 1..Len(legs)
      BY <1>1, <2>4
    <3>2. 1 \in Untracked
      BY <2>3, <3>1 DEF Untracked, NoneOnRecord
    <3> QED
      BY <2>2, <3>2
  <2> QED
    BY <1>1, <2>3, <2>4
<1>5. Orderly'
  BY DEF CallInv, Orderly
<1> QED
  BY <1>3, <1>4, <1>5 DEF CallInv

LEMMA CommitStep ==
    ASSUME CallInv, dial.on, NEW to \in {"INITIATING", "FAILED"}, NEW ref \in {0, dial.leg},
           Commit(to, ref), active' = active \/ active' = 0, turns' \in 0..MaxTurns,
           announced' \subseteq {"call_completed", "call_failed", "escalation_requested"}
    PROVE  CallInv'
<1> USE DEF Commit
<1>1. /\ to \in CallStatus /\ ref \in Nat /\ call.ref \in Nat
      /\ active' \in 0..2 /\ active' <= active
  BY DEF CallInv, TypeOK, DialType, CallStatus, Dialable, Terminal
<1>2. /\ call' \in [status : CallStatus \cup {"absent"}, ref : Nat]
      /\ ref # 0 => call'.ref = ref
      /\ call'.status = to \/ (~dial.creating /\ call'.status = call.status)
  BY <1>1 DEF Dialled, CallInv, TypeOK
<1>3. /\ attempts' \in Seq(AttemptType) /\ Len(attempts') = Len(attempts) + 1
      /\ Len(attempts) \in Nat
      /\ \A i \in 1..Len(attempts) : attempts'[i] = attempts[i]
      /\ attempts'[Len(attempts) + 1] = [ref |-> ref, failed |-> ref = 0]
  BY <1>1 DEF CallInv, TypeOK, AttemptType
<1>4. dial' \in DialType /\ ~dial'.on /\ dial'.leg = 0
  BY NoDialTyped DEF NoDial
<1>5. raced \subseteq raced' /\ raced' \subseteq {"dial", "write"}
  BY DEF CallInv, TypeOK
<1>6. TypeOK'
  BY <1>1, <1>2, <1>3, <1>4, <1>5 DEF CallInv, TypeOK
<1>7. DialInv'
  <2>1. call'.status # "absent"
    BY <1>2 DEF CallInv, DialInv, Exists
  <2> QED
    BY <1>4, <2>1, LegsCounted DEF DialInv, Exists
<1>8. OneLeg'
  <2>1. SUFFICES ASSUME "dial" \notin raced, Untracked' = {}
                 PROVE  (NoneOnRecord \/ Live)' /\ Len(legs) <= 1
    BY <1>4, <1>5 DEF OneLeg
  <2>2. Untracked = {}
    <3>1. ASSUME NEW n \in Untracked PROVE n \in Untracked'
      <4>1. n \in 1..Len(legs) /\ n # ref /\ \A i \in 1..Len(attempts) : attempts[i].ref # n
        BY DEF Untracked
      <4>2. \A i \in 1..Len(attempts') : attempts'[i].ref # n
        BY <1>3, <4>1
      <4> QED
        BY <1>4, <4>1, <4>2 DEF Untracked
    <3> QED
      BY <2>1, <3>1
  <2>3. NoneOnRecord /\ Len(legs) <= 1
    BY <2>1, <2>2 DEF CallInv, OneLeg
  <2>4. CASE ref = 0
    BY <1>3, <2>3, <2>4 DEF NoneOnRecord
  <2>5. CASE ref # 0
    <3>1. PICK k \in 1..Len(attempts') : attempts'[k] = [ref |-> ref, failed |-> ref = 0]
      BY <1>3
    <3>2. attempts'[k].ref = ref
      BY <3>1
    <3>3. ~ attempts'[k].failed
      <4>1. (ref = 0) = FALSE
        BY <2>5, Zenon
      <4>2. attempts'[k] = [ref |-> ref, failed |-> FALSE]
        BY <3>1, <4>1, Zenon
      <4> QED
        BY <4>2
    <3>4. call'.ref # 0 /\ attempts'[k].ref = call'.ref
      BY <1>2, <2>5, <3>2
    <3>5. Live'
      BY <3>3, <3>4, Zenon DEF Live
    <3> QED
      BY <2>3, <3>5
  <2> QED
    BY <2>3, <2>4, <2>5
<1>9. Orderly'
  <2>1. SUFFICES ASSUME raced' = {}
                 PROVE  /\ ~ (active' > 0)
                        /\ (\E t \in taken : t[2] \in FinalEvents) => missed
    BY DEF Orderly
  <2>2. raced = {} /\ ~Overtaken
    BY <2>1
  <2>3. call.status \in Dialable \cup {"absent"}
    BY <2>2 DEF Overtaken, CallInv, DialInv, Exists, Fresh
  <2>4. ~ (active > 0)
    BY <2>2, <2>3 DEF CallInv, Orderly, Dialable
  <2>5. (\E t \in taken : t[2] \in FinalEvents) => missed
    BY <2>2, <2>3 DEF CallInv, Orderly, Dialable, Terminal
  <2> QED
    BY <1>1, <2>4, <2>5 DEF CallInv, TypeOK
<1> QED
  BY <1>6, <1>7, <1>8, <1>9 DEF CallInv

LEMMA DialEndsStep ==
    ASSUME CallInv, DialSucceeds \/ DialFailsRetryably \/ DialFails PROVE CallInv'
<1>1. dial.on
  BY DEF DialSucceeds, DialFailsRetryably, DialFails, CallInv, DialInv
<1>2. turns \in 0..MaxTurns /\ 0 \in 0..MaxTurns
      /\ announced \subseteq {"call_completed", "call_failed", "escalation_requested"}
  BY VoiceAssumption DEF CallInv, TypeOK, VoiceAssumption
<1>3. CASE DialSucceeds
  BY <1>1, <1>2, <1>3, CommitStep DEF DialSucceeds
<1>4. CASE DialFailsRetryably
  BY <1>1, <1>2, <1>4, CommitStep DEF DialFailsRetryably
<1>5. CASE DialFails
  <2>1. announced' \subseteq {"call_completed", "call_failed", "escalation_requested"}
    BY <1>2, <1>5 DEF DialFails, Announces
  <2> QED
    BY <1>1, <1>2, <1>5, <2>1, CommitStep DEF DialFails, EndSession
<1> QED
  BY <1>3, <1>4, <1>5

LEMMA DialCrashesStep == ASSUME CallInv, DialCrashes PROVE CallInv'
<1> USE DEF DialCrashes
<1>1. dial' \in DialType /\ ~dial'.on /\ dial'.leg = 0
  BY NoDialTyped DEF NoDial
<1>2. TypeOK' /\ DialInv'
  BY <1>1, LegsCounted, VoiceAssumption
     DEF CallInv, TypeOK, DialInv, Exists, VoiceAssumption
<1>3. OneLeg'
  <2>1. Untracked \subseteq Untracked'
    BY <1>1 DEF Untracked
  <2>2. NoneOnRecord' <=> NoneOnRecord
    BY DEF NoneOnRecord
  <2> QED
    BY <1>1, <2>1, <2>2 DEF CallInv, OneLeg
<1>4. Orderly'
  BY DEF CallInv, Orderly
<1> QED
  BY <1>2, <1>3, <1>4 DEF CallInv

LEMMA LegMovesStep ==
    ASSUME CallInv, NEW n \in 1..Len(legs), NEW event \in ProviderEvents, LegMoves(n, event)
    PROVE  CallInv'
<1> USE DEF LegMoves
<1>1. legs' \in Seq(SUBSET ProviderEvents) /\ Len(legs') = Len(legs)
  BY DEF CallInv, TypeOK
<1>2. TypeOK' /\ DialInv' /\ Orderly'
  BY <1>1 DEF CallInv, TypeOK, DialInv, Orderly, Exists
<1>3. OneLeg'
  BY <1>1, OneLegStays DEF SameRecord
<1> QED
  BY <1>2, <1>3 DEF CallInv

LEMMA MissEventStep ==
    ASSUME CallInv, NEW n \in 1..Len(legs), NEW event \in ProviderEvents, MissEvent(n, event)
    PROVE  CallInv'
<1> USE DEF MissEvent
<1>1. n \in Nat /\ faults' \in 0..MaxFaults
  BY VoiceAssumption DEF CallInv, TypeOK, VoiceAssumption
<1>2. TypeOK'
  BY <1>1 DEF Takes, CallInv, TypeOK
<1>3. DialInv' /\ Orderly'
  BY DEF CallInv, DialInv, Orderly, Exists
<1>4. OneLeg'
  BY OneLegStays DEF SameRecord
<1> QED
  BY <1>2, <1>3, <1>4 DEF CallInv

-----------------------------------------------------------------------------

LEMMA CallInit == Init => CallInv
<1> SUFFICES ASSUME Init PROVE CallInv
  OBVIOUS
<1>1. TypeOK
  <2>1. /\ call \in [status : CallStatus \cup {"absent"}, ref : Nat]
        /\ attempts \in Seq(AttemptType) /\ legs \in Seq(SUBSET ProviderEvents)
        /\ dial \in DialType
    BY NoDialTyped DEF Init
  <2>2. 0 \in 0..MaxTurns /\ 0 \in 0..MaxFaults
    BY VoiceAssumption DEF VoiceAssumption
  <2>3. active \in 0..2
    BY DEF Init
  <2>4. missed \in BOOLEAN
    BY Zenon DEF Init
  <2>5. taken = {} /\ held = {} /\ announced = {} /\ raced = {} /\ turns = 0 /\ faults = 0
    BY DEF Init
  <2> QED
    BY <2>1, <2>2, <2>3, <2>4, <2>5 DEF TypeOK
<1>2. DialInv
  BY DEF Init, DialInv, NoDial, Exists
<1>3. OneLeg /\ Orderly
  BY DEF Init, OneLeg, Orderly, NoneOnRecord, NoDial
<1> QED
  BY <1>1, <1>2, <1>3 DEF CallInv

LEMMA CallStutter == CallInv /\ UNCHANGED vars => CallInv'
BY DEF vars, CallInv, TypeOK, DialInv, OneLeg, Orderly, Exists, NoneOnRecord, Live, Untracked

LEMMA CallInductive == CallInv /\ [Next]_vars => CallInv'
<1> SUFFICES ASSUME CallInv, [Next]_vars PROVE CallInv'
  OBVIOUS
<1>1. CASE RequestCall \/ RequestAndDial
  BY <1>1, RequestStep
<1>2. CASE PlaceCall
  BY <1>2, PlaceCallStep
<1>3. CASE DialSucceeds \/ DialFailsRetryably \/ DialFails
  BY <1>3, DialEndsStep
<1>4. CASE DialCrashes
  BY <1>4, DialCrashesStep
<1>5. CASE Hold
  BY <1>5, HoldStep
<1>6. ASSUME NEW r \in Reads, StartDial(r) \/ GiveUp(r) \/ CancelCall(r) \/ EscalateCall(r)
      PROVE  CallInv'
  BY <1>6, StartDialStep, GiveUpStep, CancelCallStep, EscalateCallStep
<1>7. ASSUME NEW n \in 1..Len(legs), NEW event \in {"ringing", "in-progress"} \cup Endings,
             LegMoves(n, event)
      PROVE  CallInv'
  <2>1. event \in ProviderEvents
    BY VoiceAssumption DEF VoiceAssumption, ProviderEvents
  <2> QED
    BY <1>7, <2>1, LegMovesStep
<1>8. ASSUME NEW n \in 1..Len(legs), NEW event \in ProviderEvents, MissEvent(n, event)
      PROVE  CallInv'
  BY <1>8, MissEventStep
<1>9. ASSUME NEW n \in 1..Len(legs), NEW event \in ProviderEvents, NEW r \in Reads,
             SyncEvent(n, event, r)
      PROVE  CallInv'
  BY <1>9, SyncEventStep
<1>10. ASSUME NEW n \in 1..Len(legs), NEW r \in Reads, Answer(n, r) PROVE CallInv'
  BY <1>10, AnswerStep
<1>11. ASSUME NEW r \in Reads, NEW action \in AgentActions, AgentTurn(r, action) PROVE CallInv'
  BY <1>11, AgentTurnStep
<1> QED
  BY <1>1, <1>2, <1>3, <1>4, <1>5, <1>6, <1>7, <1>8, <1>9, <1>10, <1>11, CallStutter DEF Next

LEMMA InvariantHolds == Spec => []CallInv
BY CallInit, CallInductive, PTL DEF Spec

\* The row of a call, its attempts, its session and what handlers hold in
\* hand have their types, and the agent's turns stay within the budget.
THEOREM TypeCorrect == Spec => []TypeOK
<1>1. CallInv => TypeOK
  BY DEF CallInv
<1> QED
  BY <1>1, InvariantHolds, PTL

\* A second phone leg means that a request dialled on an old read or that
\* the outcome of a dial was lost (initiate_call looks at the reference it
\* has on record, and the provider's answer puts it there).
THEOREM RungForOne == Spec => []DialledOnce
<1>1. CallInv => DialledOnce
  BY DEF CallInv, OneLeg, DialledOnce, TypeOK
<1> QED
  BY <1>1, InvariantHolds, PTL

\* Unless somebody wrote late, a call that is over has no ACTIVE session:
\* from a call under way only endings that close it are reachable.
THEOREM SessionsEnd == Spec => []NoOrphanSession
<1>1. CallInv => NoOrphanSession
  BY DEF CallInv, Orderly, NoOrphanSession, Terminal
<1> QED
  BY <1>1, InvariantHolds, PTL

\* A final callback that was acknowledged, and will not come again, has
\* ended the call, unless it met no call or somebody wrote late
\* (process_event answers with success only after sync_provider_status).
THEOREM AcknowledgedIsApplied == Spec => []TakenIsApplied
<1>1. CallInv => TakenIsApplied
  BY DEF CallInv, Orderly, TakenIsApplied
<1> QED
  BY <1>1, InvariantHolds, PTL
=============================================================================
