------------------------- MODULE CallDialogueProofs -------------------------
(***************************************************************************)
(* Proofs about CallDialogue, for every set of requests, of governing      *)
(* sections and of fields, and every bound on turns and escalations.       *)
(*                                                                         *)
(* A turn computes what it writes from the session it read before it asked *)
(* the model.  The inductive invariant says how far that read may lie      *)
(* behind: a session that has not been written from an old read only moves *)
(* on, and a turn whose number is still current has read its fields.       *)
(***************************************************************************)
EXTENDS CallDialogue, TLAPS

CallRow == [type : {"TRANSACTIONAL", "MARKETING"}, status : CallStatus]
SessionRow == [status : CallSessionStatus \cup {"NONE"}, turns : Nat,
               outcome : CallOutcome \cup {"NONE"}, info : SUBSET Fields]
EscalationRow == [status : {"REQUESTED", "ASSIGNED", "ACCEPTED", "RESOLVED", "CANCELLED"},
                  member : BOOLEAN, accepted : BOOLEAN]

\* What a request has read.
TurnRead == [job : {"turn"}, status : CallStatus, session : SessionRow,
             policy : Policies, handover : BOOLEAN, forced : BOOLEAN]
RecordRead == [job : {"record"}, session : SessionRow]
EndingRead == [job : {"ESCALATED", "COMPLETED", "FAILED"}, status : CallStatus]
DeskRead == [job : {"desk"}, row : Nat, target : {"ASSIGNED", "ACCEPTED", "RESOLVED", "CANCELLED"},
             seen : EscalationRow]
Readings == {Idle} \cup TurnRead \cup RecordRead \cup EndingRead \cup DeskRead

\* Every variable holds what its columns may hold.
TypeOK ==
    /\ call \in CallRow
    /\ session \in SessionRow
    /\ escalations \in Seq(EscalationRow)
    /\ brain \in Policies \cup {Ungoverned}
    /\ handover \in BOOLEAN
    /\ reading \in [Requests -> Readings]
    /\ asked \in Nat
    /\ told \subseteq Fields
    /\ overlapped \subseteq {"session", "call", "desk"}
    /\ changes \in Nat

\* A turn knows whether it may ask the model, and how current its read is.
TurnInv(q) ==
    q \in TurnRead =>
        /\ ~q.forced => q.session.turns < q.policy.budget
        /\ "session" \notin overlapped =>
              /\ q.session.turns <= session.turns
              /\ q.session.turns = session.turns => q.session.info = session.info

\* A member works on an escalation that exists.
DeskInv(q) == q \in DeskRead => q.row \in 1..Len(escalations)

ReadingInv == \A r \in Requests : TurnInv(reading[r]) /\ DeskInv(reading[r])

\* Every turn the model was asked on is counted.
AskedIsCounted == "session" \notin overlapped => asked <= session.turns

IInv ==
    /\ TypeOK
    /\ ReadingInv
    /\ AskedIsCounted
    /\ BudgetHolds
    /\ ToldIsKept
    /\ HandedOverOnce

-----------------------------------------------------------------------------
(* What the operators of the model return.                                 *)

\* A call leaves its status only while it is connected or in progress.
LEMMA LeavesOpenCall ==
    ASSUME NEW s, NEW t \in CALL_TRANSITIONS(s)
    PROVE  /\ s \in {"CONNECTED", "IN_PROGRESS"}
           /\ t \in CallStatus
  BY DEF CALL_TRANSITIONS, CallStatus

\* Ending a session touches its status alone.
LEMMA EndedFacts ==
    ASSUME NEW s \in SessionRow, NEW t \in CallSessionStatus
    PROVE  /\ Ended(s, t) \in SessionRow
           /\ Ended(s, t).turns = s.turns
           /\ Ended(s, t).info = s.info
           /\ Ended(s, t).outcome = s.outcome
           /\ t # "ACTIVE" => Ended(s, t).status # "ACTIVE"
           /\ s.status # "ACTIVE" => Ended(s, t).status # "ACTIVE"
  BY DEF Ended, SessionRow, CallSessionStatus

\* Handing a call over appends one escalation.
LEMMA HandsOverFacts ==
    ASSUME TypeOK, NEW seen, HandsOver(seen)
    PROVE  /\ seen \in {"CONNECTED", "IN_PROGRESS"}
           /\ escalations' \in Seq(EscalationRow)
           /\ Len(escalations') = Len(escalations) + 1
           /\ call' \in CallRow
           /\ call'.status = "ESCALATED"
  <1>1. seen \in {"CONNECTED", "IN_PROGRESS"}
    BY DEF HandsOver, CALL_TRANSITIONS
  <1>2. NewEscalation \in EscalationRow
    BY DEF NewEscalation, EscalationRow
  <1>3. /\ escalations \in Seq(EscalationRow)
        /\ escalations' = Append(escalations, NewEscalation)
    BY DEF HandsOver, TypeOK
  <1>4. /\ escalations' \in Seq(EscalationRow)
        /\ Len(escalations') = Len(escalations) + 1
    BY <1>2, <1>3
  <1>5. /\ call' \in CallRow
        /\ call'.status = "ESCALATED"
    BY DEF HandsOver, TypeOK, CallRow, CallStatus
  <1> QED
    BY <1>1, <1>4, <1>5

-----------------------------------------------------------------------------
(* The inductive step.                                                     *)

LEMMA InitIInv == Init => IInv
  <1> SUFFICES ASSUME Init PROVE IInv
    OBVIOUS
  <1>1. TypeOK
    <2>1. Idle \in Readings
      BY DEF Readings
    <2>2. reading \in [Requests -> Readings]
      BY <2>1 DEF Init
    <2>3. session \in SessionRow
      BY DEF Init, NoSession, SessionRow
    <2>4. call \in CallRow
      BY DEF Init, CallRow, CallStatus
    <2>5. escalations \in Seq(EscalationRow)
      BY DEF Init
    <2> QED
      BY <2>2, <2>3, <2>4, <2>5 DEF Init, TypeOK
  <1>2. ReadingInv
    <2>1. \A r \in Requests : reading[r] \notin TurnRead \cup DeskRead
      BY DEF Init, Idle, TurnRead, DeskRead
    <2> QED
      BY <2>1 DEF ReadingInv, TurnInv, DeskInv
  <1>3. AskedIsCounted /\ BudgetHolds /\ ToldIsKept
    BY DEF Init, NoSession, AskedIsCounted, BudgetHolds, ToldIsKept
  <1>4. HandedOverOnce
    <2>1. escalations = <<>> /\ Len(escalations) = 0 /\ call.status = "CONNECTED"
      BY DEF Init
    <2> QED
      BY <2>1 DEF HandedOverOnce
  <1> QED
    BY <1>1, <1>2, <1>3, <1>4 DEF IInv

\* What a request has read stays right while the session moves on, and while
\* the desk gains rows.
LEMMA ReadsStay ==
    ASSUME IInv,
           NEW r \in Requests,
           \A s \in Requests : s # r => reading'[s] = reading[s],
           overlapped \subseteq overlapped',
           Len(escalations) \in Nat, Len(escalations') \in Nat,
           Len(escalations) <= Len(escalations'),
           session \in SessionRow, session' \in SessionRow,
           "session" \notin overlapped' =>
               \/ session'.turns = session.turns + 1
               \/ session'.turns = session.turns /\ session'.info = session.info,
           TurnInv(reading[r])', DeskInv(reading[r])'
    PROVE  ReadingInv'
  <1> SUFFICES ASSUME NEW s \in Requests PROVE TurnInv(reading[s])' /\ DeskInv(reading[s])'
    BY DEF ReadingInv
  <1>1. CASE s = r
    BY <1>1
  <1>2. CASE s # r
    <2>1. reading'[s] = reading[s] /\ TurnInv(reading[s]) /\ DeskInv(reading[s])
      BY <1>2 DEF IInv, ReadingInv
    <2>2. TurnInv(reading[s])'
      <3> SUFFICES ASSUME reading[s] \in TurnRead
                   PROVE  /\ ~reading[s].forced => reading[s].session.turns < reading[s].policy.budget
                          /\ "session" \notin overlapped' =>
                                /\ reading[s].session.turns <= session'.turns
                                /\ reading[s].session.turns = session'.turns =>
                                     reading[s].session.info = session'.info
        BY <2>1 DEF TurnInv
      <3>1. reading[s].session.turns \in Nat /\ session.turns \in Nat
        BY DEF TurnRead, SessionRow
      <3> QED
        BY <2>1, <3>1 DEF TurnInv
    <2>3. DeskInv(reading[s])'
      BY <2>1 DEF DeskInv
    <2> QED
      BY <2>2, <2>3
  <1> QED
    BY <1>1, <1>2

\* The business changes what governs the agent.
LEMMA ChangeStep ==
    ASSUME IInv,
           \/ \E p \in Policies \cup {Ungoverned} : ActivateVersion(p)
           \/ UpsertAgentConfig
    PROVE  IInv'
  <1>1. /\ UNCHANGED <<call, session, escalations, reading, asked, told, overlapped>>
        /\ brain' \in Policies \cup {Ungoverned} /\ handover' \in BOOLEAN /\ changes' \in Nat
    <2>1. CASE \E p \in Policies \cup {Ungoverned} : ActivateVersion(p)
      BY <2>1 DEF IInv, TypeOK, ActivateVersion
    <2>2. CASE UpsertAgentConfig
      <3>1. (~handover) \in BOOLEAN
        OBVIOUS
      <3> QED
        BY <2>2, <3>1 DEF IInv, TypeOK, UpsertAgentConfig
    <2> QED
      BY <2>1, <2>2
  <1>2. TypeOK'
    BY <1>1 DEF IInv, TypeOK
  <1>3. ReadingInv'
    BY <1>1 DEF IInv, ReadingInv, TurnInv, DeskInv
  <1> QED
    BY <1>1, <1>2, <1>3 DEF IInv, AskedIsCounted, BudgetHolds, ToldIsKept, HandedOverOnce

LEMMA BeginStep ==
    ASSUME IInv, Begin
    PROVE  IInv'
  <1> USE DEF Begin
  <1>1. /\ call' \in CallRow /\ call'.status = "IN_PROGRESS" /\ call.status = "CONNECTED"
    BY DEF IInv, TypeOK, CallRow, CallStatus
  <1>2. /\ session' \in SessionRow
        /\ session'.turns = session.turns /\ session'.info = session.info
    BY DEF IInv, TypeOK, SessionRow, CallSessionStatus
  <1>3. TypeOK'
    BY <1>1, <1>2 DEF IInv, TypeOK
  <1>4. ReadingInv'
    BY <1>2 DEF IInv, ReadingInv, TurnInv, DeskInv
  <1>5. HandedOverOnce'
    <2>1. SUFFICES ASSUME "call" \notin overlapped
                   PROVE  Len(escalations) = 0 /\ escalations = <<>>
      BY <1>1 DEF HandedOverOnce
    <2>2. Len(escalations) = 0
      BY <1>1, <2>1 DEF IInv, HandedOverOnce
    <2> QED
      BY <2>2 DEF IInv, TypeOK
  <1> QED
    BY <1>2, <1>3, <1>4, <1>5 DEF IInv, AskedIsCounted, BudgetHolds, ToldIsKept

\* A request that reads, or gives up, moves nothing else.
LEMMA ReadStep ==
    ASSUME IInv,
           NEW r \in Requests, NEW q \in Readings, TurnInv(q), DeskInv(q),
           reading' = [reading EXCEPT ![r] = q],
           UNCHANGED <<call, session, escalations, brain, handover, asked, told, overlapped, changes>>
    PROVE  IInv'
  <1>1. TypeOK'
    BY DEF IInv, TypeOK
  <1>2. ReadingInv'
    <2> SUFFICES ASSUME NEW s \in Requests PROVE TurnInv(reading[s])' /\ DeskInv(reading[s])'
      BY DEF ReadingInv
    <2>1. reading'[s] = IF s = r THEN q ELSE reading[s]
      BY DEF IInv, TypeOK
    <2> QED
      BY <2>1 DEF IInv, ReadingInv, TurnInv, DeskInv
  <1> QED
    BY <1>1, <1>2 DEF IInv, AskedIsCounted, BudgetHolds, ToldIsKept, HandedOverOnce

\* No reading at all.
LEMMA IdleRead == Idle \in Readings /\ Idle \notin TurnRead /\ Idle \notin DeskRead
  BY DEF Idle, Readings, TurnRead, DeskRead

LEMMA StartTurnStep ==
    ASSUME IInv, NEW r \in Requests, StartTurn(r)
    PROVE  IInv'
  <1> DEFINE q == [job |-> "turn", status |-> call.status, session |-> session,
                   policy |-> brain, handover |-> handover, forced |-> Forced(brain)]
  <1>1. Opens(r, q) /\ brain \in Policies
    BY DEF StartTurn, IInv, TypeOK
  <1>2. q \in TurnRead
    <2>1. call.status \in CallStatus /\ session \in SessionRow /\ handover \in BOOLEAN
      BY DEF IInv, TypeOK, CallRow
    <2>2. Forced(brain) \in BOOLEAN
      BY DEF Forced
    <2> QED
      BY <1>1, <2>1, <2>2 DEF TurnRead
  <1>3. TurnInv(q)
    <2>1. brain.budget \in Nat /\ session.turns \in Nat
      BY <1>1, DialogueAssumption DEF IInv, TypeOK, SessionRow
    <2>2. /\ q.session = session /\ q.policy = brain
          /\ ~q.forced => session.turns < brain.budget
      <3>1. q.forced = Forced(brain) /\ q.session = session /\ q.policy = brain
        OBVIOUS
      <3>2. ~Forced(brain) => session.turns < brain.budget
        BY <2>1 DEF Forced
      <3> QED
        BY <3>1, <3>2
    <2> HIDE DEF q
    <2> QED
      BY <2>1, <2>2 DEF TurnInv
  <1>4. DeskInv(q)
    BY DEF DeskInv, DeskRead
  <1>5. q \in Readings
    BY <1>2 DEF Readings
  <1> HIDE DEF q
  <1> QED
    BY <1>1, <1>3, <1>4, <1>5, ReadStep DEF Opens

LEMMA StartRecordStep ==
    ASSUME IInv, NEW r \in Requests, StartRecord(r)
    PROVE  IInv'
  <1> DEFINE q == [job |-> "record", session |-> session]
  <1>1. q \in Readings /\ q \notin TurnRead /\ q \notin DeskRead
    BY DEF Readings, RecordRead, TurnRead, DeskRead, IInv, TypeOK
  <1>2. Opens(r, q)
    BY DEF StartRecord
  <1> HIDE DEF q
  <1> QED
    BY <1>1, <1>2, ReadStep DEF Opens, TurnInv, DeskInv

LEMMA StartEndingStep ==
    ASSUME IInv, NEW r \in Requests, NEW target \in {"ESCALATED", "COMPLETED", "FAILED"},
           StartEnding(r, target)
    PROVE  IInv'
  <1> DEFINE q == [job |-> target, status |-> call.status]
  <1>1. q \in Readings /\ q \notin TurnRead /\ q \notin DeskRead
    BY DEF Readings, EndingRead, TurnRead, DeskRead, IInv, TypeOK, CallRow
  <1>2. Opens(r, q)
    BY DEF StartEnding
  <1> HIDE DEF q
  <1> QED
    BY <1>1, <1>2, ReadStep DEF Opens, TurnInv, DeskInv

LEMMA OpenEscalationStep ==
    ASSUME IInv, NEW r \in Requests, NEW i \in 1..Len(escalations),
           NEW target \in {"ASSIGNED", "ACCEPTED", "RESOLVED", "CANCELLED"},
           OpenEscalation(r, i, target)
    PROVE  IInv'
  <1> DEFINE q == [job |-> "desk", row |-> i, target |-> target, seen |-> escalations[i]]
  <1>1. escalations \in Seq(EscalationRow) /\ Len(escalations) \in Nat
    BY DEF IInv, TypeOK
  <1>2. escalations[i] \in EscalationRow /\ i \in Nat
    BY <1>1
  <1>3. q \in DeskRead /\ q \notin TurnRead /\ q.row = i
    BY <1>2 DEF DeskRead, TurnRead
  <1>4. q \in Readings
    BY <1>3 DEF Readings
  <1>5. Opens(r, q)
    BY DEF OpenEscalation
  <1> HIDE DEF q
  <1> QED
    BY <1>3, <1>4, <1>5, ReadStep DEF Opens, TurnInv, DeskInv

LEMMA FailStep ==
    ASSUME IInv, NEW r \in Requests, Fail(r)
    PROVE  IInv'
  BY IdleRead, ReadStep DEF Fail, TurnInv, DeskInv

-----------------------------------------------------------------------------
(* The steps that write.                                                   *)

\* A request that wrote has read nothing more, and the others' reads stay.
LEMMA SettledReads ==
    ASSUME IInv, NEW r \in Requests, Settles(r),
           overlapped \subseteq overlapped',
           escalations' \in Seq(EscalationRow),
           Len(escalations) <= Len(escalations'),
           session' \in SessionRow,
           "session" \notin overlapped' =>
               \/ session'.turns = session.turns + 1
               \/ session'.turns = session.turns /\ session'.info = session.info
    PROVE  ReadingInv' /\ reading' \in [Requests -> Readings]
  <1>1. reading \in [Requests -> Readings] /\ reading' = [reading EXCEPT ![r] = Idle]
    BY DEF IInv, TypeOK, Settles
  <1>2. /\ reading' \in [Requests -> Readings]
        /\ reading'[r] = Idle
        /\ \A s \in Requests : s # r => reading'[s] = reading[s]
    BY <1>1, IdleRead
  <1>3. TurnInv(reading[r])' /\ DeskInv(reading[r])'
    BY <1>2, IdleRead DEF TurnInv, DeskInv
  <1>4. /\ session \in SessionRow
        /\ Len(escalations) \in Nat /\ Len(escalations') \in Nat
    BY DEF IInv, TypeOK
  <1> QED
    BY <1>2, <1>3, <1>4, ReadsStay

\* A call whose read is current, and that still may move, has no escalation.
LEMMA NoneYet ==
    ASSUME IInv, "call" \notin overlapped, call.status \in {"CONNECTED", "IN_PROGRESS"}
    PROVE  escalations = <<>> /\ Len(escalations) = 0
  BY DEF IInv, TypeOK, HandedOverOnce

LEMMA FinishRecordStep ==
    ASSUME IInv, NEW r \in Requests, NEW outcome \in CallOutcome, FinishRecord(r, outcome)
    PROVE  IInv'
  <1> USE DEF FinishRecord
  <1>1. reading[r] \in RecordRead
    BY DEF IInv, TypeOK, Readings, TurnRead, RecordRead, EndingRead, DeskRead, Idle
  <1>2. /\ session' \in SessionRow
        /\ session'.turns = session.turns /\ session'.info = session.info
        /\ session'.status = session.status
    <2>1. session \in SessionRow /\ Put(session.outcome, reading[r].session.outcome, outcome) \in CallOutcome \cup {"NONE"}
      BY DEF IInv, TypeOK, SessionRow, Put
    <2> QED
      BY <2>1 DEF SessionRow
  <1>3. ReadingInv' /\ reading' \in [Requests -> Readings]
    BY <1>2, SettledReads DEF IInv, TypeOK
  <1>4. TypeOK'
    BY <1>2, <1>3 DEF IInv, TypeOK, Settles
  <1> QED
    BY <1>2, <1>3, <1>4 DEF IInv, AskedIsCounted, BudgetHolds, ToldIsKept, HandedOverOnce

LEMMA FinishEscalateStep ==
    ASSUME IInv, NEW r \in Requests, FinishEscalate(r)
    PROVE  IInv'
  <1> DEFINE q == reading[r]
  <1>1. /\ HandsOver(q.status)
        /\ session' = Ended(session, "ESCALATED")
        /\ overlapped' = overlapped \cup Late("call", call.status # q.status)
        /\ UNCHANGED <<asked, told>>
        /\ Settles(r)
    BY DEF FinishEscalate
  <1>2. session \in SessionRow /\ "ESCALATED" \in CallSessionStatus
    BY DEF IInv, TypeOK, CallSessionStatus
  <1>3. /\ session' \in SessionRow
        /\ session'.turns = session.turns /\ session'.info = session.info
        /\ session'.status # "ACTIVE"
    BY <1>1, <1>2, EndedFacts
  <1>4. /\ q.status \in {"CONNECTED", "IN_PROGRESS"}
        /\ escalations' \in Seq(EscalationRow) /\ Len(escalations') = Len(escalations) + 1
        /\ call' \in CallRow /\ call'.status = "ESCALATED"
    BY <1>1, HandsOverFacts DEF IInv
  <1>5. /\ overlapped \subseteq overlapped' /\ overlapped' \subseteq {"session", "call", "desk"}
        /\ "session" \in overlapped' <=> "session" \in overlapped
        /\ "call" \notin overlapped' => "call" \notin overlapped /\ call.status = q.status
    BY <1>1 DEF Late, IInv, TypeOK
  <1>6. Len(escalations) \in Nat
    BY DEF IInv, TypeOK
  <1> HIDE DEF q
  <1>7. ReadingInv' /\ reading' \in [Requests -> Readings]
    BY <1>1, <1>3, <1>4, <1>5, <1>6, SettledReads
  <1>8. TypeOK'
    BY <1>1, <1>3, <1>4, <1>5, <1>7 DEF IInv, TypeOK, Settles
  <1>9. HandedOverOnce'
    <2>1. "call" \notin overlapped' => Len(escalations') = 1
      BY <1>4, <1>5, NoneYet
    <2> QED
      BY <1>3, <1>4, <2>1 DEF HandedOverOnce
  <1> QED
    BY <1>1, <1>3, <1>5, <1>7, <1>8, <1>9 DEF IInv, AskedIsCounted, BudgetHolds, ToldIsKept

LEMMA FinishEndingStep ==
    ASSUME IInv, NEW r \in Requests, FinishEnding(r)
    PROVE  IInv'
  <1> DEFINE q == reading[r]
  <1>1. /\ q.job \in {"COMPLETED", "FAILED"} /\ q.job \in CALL_TRANSITIONS(q.status)
        /\ call' = [call EXCEPT !.status = q.job]
        /\ session' = Ended(session, q.job)
        /\ overlapped' = overlapped \cup Late("call", call.status # q.status)
        /\ UNCHANGED <<escalations, asked, told>>
        /\ Settles(r)
    BY DEF FinishEnding
  <1>2. session \in SessionRow /\ q.job \in CallSessionStatus /\ q.job # "ACTIVE"
    BY <1>1 DEF IInv, TypeOK, CallSessionStatus
  <1>3. /\ session' \in SessionRow
        /\ session'.turns = session.turns /\ session'.info = session.info
        /\ session'.status # "ACTIVE"
    BY <1>1, <1>2, EndedFacts
  <1>4. /\ q.status \in {"CONNECTED", "IN_PROGRESS"}
        /\ call' \in CallRow /\ call'.status = q.job
    BY <1>1, LeavesOpenCall DEF IInv, TypeOK, CallRow, CallStatus
  <1>5. /\ overlapped \subseteq overlapped' /\ overlapped' \subseteq {"session", "call", "desk"}
        /\ "session" \in overlapped' <=> "session" \in overlapped
        /\ "call" \notin overlapped' => "call" \notin overlapped /\ call.status = q.status
    BY <1>1 DEF Late, IInv, TypeOK
  <1>6. escalations' \in Seq(EscalationRow) /\ Len(escalations) \in Nat
    BY <1>1 DEF IInv, TypeOK
  <1> HIDE DEF q
  <1>7. ReadingInv' /\ reading' \in [Requests -> Readings]
    BY <1>1, <1>3, <1>5, <1>6, SettledReads
  <1>8. TypeOK'
    BY <1>1, <1>3, <1>4, <1>5, <1>7 DEF IInv, TypeOK, Settles
  <1>9. HandedOverOnce'
    <2>1. "call" \notin overlapped' => Len(escalations') = 0
      BY <1>1, <1>4, <1>5, NoneYet
    <2> QED
      BY <1>1, <1>3, <1>4, <2>1 DEF HandedOverOnce
  <1> QED
    BY <1>1, <1>3, <1>5, <1>7, <1>8, <1>9 DEF IInv, AskedIsCounted, BudgetHolds, ToldIsKept

LEMMA TransitionEscalationStep ==
    ASSUME IInv, NEW r \in Requests, TransitionEscalation(r)
    PROVE  IInv'
  <1> DEFINE q == reading[r]
  <1>1. /\ q.job = "desk"
        /\ escalations' = [escalations EXCEPT ![q.row] = Worked(@, q.target)]
        /\ overlapped' = overlapped \cup Late("desk", escalations[q.row] # q.seen)
        /\ UNCHANGED <<call, session, asked, told>>
        /\ Settles(r)
    BY DEF TransitionEscalation
  <1>2. q \in DeskRead /\ q.target \in {"ASSIGNED", "ACCEPTED", "RESOLVED", "CANCELLED"}
    BY <1>1 DEF IInv, TypeOK, Readings, TurnRead, RecordRead, EndingRead, DeskRead, Idle
  <1>3. q.row \in 1..Len(escalations) /\ escalations \in Seq(EscalationRow)
    BY <1>2 DEF IInv, TypeOK, ReadingInv, DeskInv
  <1> HIDE DEF q
  <1>4. escalations[q.row] \in EscalationRow
    BY <1>3
  <1>5. Worked(escalations[q.row], q.target) \in EscalationRow
    <2>1. \A e \in EscalationRow :
             /\ (e.member \/ q.target = "ASSIGNED") \in BOOLEAN
             /\ (e.accepted \/ q.target = "ACCEPTED") \in BOOLEAN
      OBVIOUS
    <2> QED
      BY <1>2, <1>4, <2>1 DEF Worked, EscalationRow
  <1>6. escalations' \in Seq(EscalationRow) /\ Len(escalations') = Len(escalations) /\ Len(escalations) \in Nat
    BY <1>1, <1>3, <1>5
  <1>7. /\ overlapped \subseteq overlapped' /\ overlapped' \subseteq {"session", "call", "desk"}
        /\ "session" \in overlapped' <=> "session" \in overlapped
        /\ "call" \in overlapped' <=> "call" \in overlapped
    BY <1>1 DEF Late, IInv, TypeOK
  <1>8. ReadingInv' /\ reading' \in [Requests -> Readings]
    BY <1>1, <1>6, <1>7, SettledReads DEF IInv, TypeOK
  <1>9. TypeOK'
    BY <1>1, <1>6, <1>7, <1>8 DEF IInv, TypeOK, Settles
  <1>10. HandedOverOnce'
    <2>1. escalations' # <<>> => escalations # <<>>
      BY <1>6
    <2> QED
      BY <1>1, <1>6, <1>7, <2>1 DEF IInv, HandedOverOnce
  <1> QED
    BY <1>1, <1>7, <1>8, <1>9, <1>10 DEF IInv, AskedIsCounted, BudgetHolds, ToldIsKept

-----------------------------------------------------------------------------
(* A turn.                                                                 *)

LEMMA FinishTurnStep ==
    ASSUME IInv, NEW r \in Requests, NEW action \in AgentAction,
           NEW outcome \in CallOutcome \cup {"NONE"}, NEW info \in SUBSET Fields,
           FinishTurn(r, action, outcome, info)
    PROVE  IInv'
  <1> DEFINE q == reading[r]
             collected == IF action = "COLLECT_INFORMATION" THEN info ELSE {}
             o == IF action = "END_CALL" THEN Put(session.outcome, q.session.outcome, outcome)
                                         ELSE session.outcome
             written == [session EXCEPT !.turns = q.session.turns + 1,
                                        !.info = Put(@, q.session.info, q.session.info \cup collected),
                                        !.outcome = o]
  <1>1. /\ q.job = "turn"
        /\ session' = Ended(written, Closing(action))
        /\ told' = told \cup collected
        /\ asked' = IF q.forced THEN asked ELSE asked + 1
        /\ overlapped' = overlapped \cup Late("session", session.turns # q.session.turns)
               \cup Late("call", action \in {"REQUEST_HUMAN", "END_CALL"} /\ call.status # q.status)
        /\ Settles(r)
    BY DEF FinishTurn, Merged
  <1>2. q \in TurnRead
    BY <1>1 DEF IInv, TypeOK, Readings, TurnRead, RecordRead, EndingRead, DeskRead, Idle
  <1>3. /\ q.session \in SessionRow /\ q.session.turns \in Nat /\ q.forced \in BOOLEAN
        /\ q.policy \in Policies /\ q.policy.budget \in Nat
    BY <1>2, DialogueAssumption DEF TurnRead, SessionRow
  <1>4. session \in SessionRow /\ session.turns \in Nat
    BY DEF IInv, TypeOK, SessionRow
  <1>5. collected \in SUBSET Fields
    OBVIOUS
  <1>6. o \in CallOutcome \cup {"NONE"}
    BY <1>4 DEF Put, SessionRow
  <1>7. /\ written \in SessionRow /\ written.status = session.status
        /\ written.turns = q.session.turns + 1
        /\ q.session.info = session.info => written.info = session.info \cup collected
    <2> HIDE DEF q, collected, o
    <2>1. Put(session.info, q.session.info, q.session.info \cup collected) \in SUBSET Fields
      BY <1>3, <1>4, <1>5 DEF Put, SessionRow
    <2>2. q.session.turns + 1 \in Nat
      BY <1>3
    <2>3. q.session.info = session.info =>
            Put(session.info, q.session.info, q.session.info \cup collected) = session.info \cup collected
      BY DEF Put
    <2> QED
      BY <1>4, <1>6, <2>1, <2>2, <2>3 DEF SessionRow
  <1>8. /\ q.session.turns = session.turns /\ "session" \notin overlapped => q.session.info = session.info
        /\ ~q.forced => q.session.turns < q.policy.budget
    BY <1>2 DEF IInv, ReadingInv, TurnInv
  <1>9. /\ overlapped \subseteq overlapped' /\ overlapped' \subseteq {"session", "call", "desk"}
        /\ "session" \notin overlapped' => "session" \notin overlapped /\ q.session.turns = session.turns
        /\ "call" \notin overlapped' =>
              /\ "call" \notin overlapped
              /\ action \in {"REQUEST_HUMAN", "END_CALL"} => call.status = q.status
    BY <1>1 DEF Late, IInv, TypeOK
  <1>10. /\ action = "REQUEST_HUMAN" => HandsOver(q.status)
         /\ action = "END_CALL" =>
               /\ "COMPLETED" \in CALL_TRANSITIONS(q.status)
               /\ call' = [call EXCEPT !.status = "COMPLETED"]
               /\ UNCHANGED escalations
         /\ action \notin {"REQUEST_HUMAN", "END_CALL"} => UNCHANGED <<call, escalations>>
    BY DEF FinishTurn
  <1> HIDE DEF q, collected, o, written
  <1>11. /\ session' \in SessionRow
         /\ session'.turns = q.session.turns + 1
         /\ session'.info = written.info
         /\ action \in {"REQUEST_HUMAN", "END_CALL"} => session'.status # "ACTIVE"
         /\ session.status # "ACTIVE" => session'.status # "ACTIVE"
    <2>1. CASE action = "REQUEST_HUMAN"
      BY <1>1, <1>7, <2>1, EndedFacts DEF Closing, CallSessionStatus
    <2>2. CASE action = "END_CALL"
      BY <1>1, <1>7, <2>2, EndedFacts DEF Closing, CallSessionStatus
    <2>3. CASE action \notin {"REQUEST_HUMAN", "END_CALL"}
      <3>1. Closing(action) = session.status
        BY <2>3 DEF Closing
      <3>2. session' = written \/ session' = [written EXCEPT !.status = session.status]
        BY <1>1, <3>1 DEF Ended
      <3>3. [written EXCEPT !.status = session.status] = written
        BY <1>7 DEF SessionRow
      <3> QED
        BY <1>7, <2>3, <3>2, <3>3
    <2> QED
      BY <2>1, <2>2, <2>3
  <1>12. escalations \in Seq(EscalationRow) /\ call \in CallRow /\ Len(escalations) \in Nat
    BY DEF IInv, TypeOK
  <1>13. /\ escalations' \in Seq(EscalationRow)
         /\ Len(escalations) <= Len(escalations')
         /\ call' \in CallRow
    <2>1. CASE action = "REQUEST_HUMAN"
      BY <1>10, <1>12, <2>1, HandsOverFacts DEF IInv
    <2>2. CASE action = "END_CALL"
      BY <1>10, <1>12, <2>2 DEF CallRow, CallStatus
    <2>3. CASE action \notin {"REQUEST_HUMAN", "END_CALL"}
      BY <1>10, <1>12, <2>3
    <2> QED
      BY <2>1, <2>2, <2>3
  <1>14. ReadingInv' /\ reading' \in [Requests -> Readings]
    BY <1>1, <1>9, <1>11, <1>13, SettledReads
  <1>15. TypeOK'
    BY <1>1, <1>5, <1>9, <1>11, <1>13, <1>14 DEF IInv, TypeOK, Settles
  <1>16. AskedIsCounted'
    <2> SUFFICES ASSUME "session" \notin overlapped' PROVE asked' <= session'.turns
      BY DEF AskedIsCounted
    <2>1. asked <= session.turns /\ asked \in Nat
      BY <1>9 DEF IInv, AskedIsCounted, TypeOK
    <2> QED
      BY <1>1, <1>3, <1>4, <1>9, <1>11, <2>1
  <1>17. BudgetHolds'
    <2> SUFFICES ASSUME "session" \notin overlapped'
                 PROVE  asked' = 0 \/ \E p \in Policies : asked' <= p.budget
      BY DEF BudgetHolds
    <2>1. CASE q.forced
      BY <1>1, <1>9, <2>1 DEF IInv, BudgetHolds
    <2>2. CASE ~q.forced
      <3>1. asked <= session.turns /\ asked \in Nat
        BY <1>9 DEF IInv, AskedIsCounted, TypeOK
      <3>2. asked' <= q.policy.budget
        BY <1>1, <1>3, <1>4, <1>8, <1>9, <2>2, <3>1
      <3> QED
        BY <1>3, <3>2
    <2> QED
      BY <2>1, <2>2
  <1>18. ToldIsKept'
    BY <1>1, <1>7, <1>8, <1>9, <1>11 DEF IInv, ToldIsKept
  <1>19. HandedOverOnce'
    <2> SUFFICES ASSUME "call" \notin overlapped'
                 PROVE  /\ Len(escalations') = (IF call'.status = "ESCALATED" THEN 1 ELSE 0)
                        /\ escalations' # <<>> => session'.status # "ACTIVE"
      BY DEF HandedOverOnce
    <2>1. CASE action = "REQUEST_HUMAN"
      <3>1. /\ q.status \in {"CONNECTED", "IN_PROGRESS"}
            /\ Len(escalations') = Len(escalations) + 1 /\ call'.status = "ESCALATED"
        BY <1>10, <2>1, HandsOverFacts DEF IInv
      <3>2. Len(escalations) = 0
        BY <1>9, <2>1, <3>1, NoneYet
      <3> QED
        BY <1>11, <2>1, <3>1, <3>2
    <2>2. CASE action = "END_CALL"
      <3>1. q.status \in {"CONNECTED", "IN_PROGRESS"}
        BY <1>10, <2>2, LeavesOpenCall
      <3>2. escalations' = <<>> /\ Len(escalations') = 0
        BY <1>9, <1>10, <2>2, <3>1, NoneYet
      <3>3. call'.status = "COMPLETED"
        BY <1>10, <1>12, <2>2 DEF CallRow
      <3> QED
        BY <3>2, <3>3
    <2>3. CASE action \notin {"REQUEST_HUMAN", "END_CALL"}
      BY <1>9, <1>10, <1>11, <2>3 DEF IInv, HandedOverOnce
    <2> QED
      BY <2>1, <2>2, <2>3
  <1> QED
    BY <1>14, <1>15, <1>16, <1>17, <1>18, <1>19 DEF IInv

-----------------------------------------------------------------------------
(* The theorems.                                                           *)

LEMMA InductiveStep == IInv /\ [Next]_vars => IInv'
  <1> SUFFICES ASSUME IInv, [Next]_vars PROVE IInv'
    OBVIOUS
  <1>1. CASE \/ \E p \in Policies \cup {Ungoverned} : ActivateVersion(p)
             \/ UpsertAgentConfig
    BY <1>1, ChangeStep
  <1>2. CASE AnswerTwiML \/ AnswerNCCO
    BY <1>2, BeginStep DEF AnswerTwiML, AnswerNCCO
  <1>3. CASE \E r \in Requests :
               GatherCallback(r) \/ InputCallback(r) \/ TypedTurn(r) \/ StartRecord(r) \/ Fail(r)
    BY <1>3, StartTurnStep, StartRecordStep, FailStep DEF GatherCallback, InputCallback, TypedTurn
  <1>4. CASE \E r \in Requests, target \in {"ESCALATED", "COMPLETED", "FAILED"} : StartEnding(r, target)
    BY <1>4, StartEndingStep
  <1>5. CASE \E r \in Requests, i \in 1..Len(escalations),
                target \in {"ASSIGNED", "ACCEPTED", "RESOLVED", "CANCELLED"} : OpenEscalation(r, i, target)
    BY <1>5, OpenEscalationStep
  <1>6. CASE \E r \in Requests, action \in AgentAction, outcome \in CallOutcome \cup {"NONE"},
                info \in SUBSET Fields : FinishTurn(r, action, outcome, info)
    BY <1>6, FinishTurnStep
  <1>7. CASE \E r \in Requests, outcome \in CallOutcome : FinishRecord(r, outcome)
    BY <1>7, FinishRecordStep
  <1>8. CASE \E r \in Requests : FinishEscalate(r) \/ FinishEnding(r) \/ TransitionEscalation(r)
    BY <1>8, FinishEscalateStep, FinishEndingStep, TransitionEscalationStep
  <1>9. CASE UNCHANGED vars
    BY <1>9 DEF vars, IInv, TypeOK, ReadingInv, TurnInv, DeskInv, AskedIsCounted, BudgetHolds,
                ToldIsKept, HandedOverOnce
  <1> QED
    BY <1>1, <1>2, <1>3, <1>4, <1>5, <1>6, <1>7, <1>8, <1>9 DEF Next

LEMMA InvariantHolds == Spec => []IInv
  BY InitIInv, InductiveStep, PTL DEF Spec

\* Every row of a call's conversation stays within what its columns may hold.
THEOREM TypeCorrect == Spec => []TypeOK
  <1>1. IInv => TypeOK
    BY DEF IInv
  <1> QED
    BY <1>1, InvariantHolds, PTL

\* handle_turn compares turn_count with the section's maximum before it asks
\* the model: while no turn writes over another, the model is asked no more
\* often than the most generous section allows.
THEOREM WithinBudget == Spec => []BudgetHolds
  <1>1. IInv => BudgetHolds
    BY DEF IInv
  <1> QED
    BY <1>1, InvariantHolds, PTL

\* _apply_collected_information merges into what the turn read: while no turn
\* writes over another, nothing the caller told is dropped.
THEOREM CallerIsHeard == Spec => []ToldIsKept
  <1>1. IInv => ToldIsKept
    BY DEF IInv
  <1> QED
    BY <1>1, InvariantHolds, PTL

\* escalate_call leaves one escalation, an ESCALATED call and a closed
\* session, whichever of a turn and the operator hands over and however the
\* provider's callbacks fall between.
THEOREM OneHandover == Spec => []HandedOverOnce
  <1>1. IInv => HandedOverOnce
    BY DEF IInv
  <1> QED
    BY <1>1, InvariantHolds, PTL
=============================================================================
