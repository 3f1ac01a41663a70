---------------------------- MODULE OutboxProofs ----------------------------
(***************************************************************************)
(* Theorems about Outbox, for any number of events and workers and any     *)
(* lease, delay, batch size and number of attempts.                        *)
(*                                                                         *)
(* TypeOK is inductive.  The safety properties are not: they hold          *)
(* because of what a worker knows about the row it has in hand, which      *)
(* WorkerInv states, and IInv is their conjunction with it.                *)
(* The last section proves that Outbox implements Delivery.                *)
(***************************************************************************)
EXTENDS Outbox, TLAPS

\* A worker's place in its pass determines what it has not committed: a row
\* being inserted only after the lookup, and an outcome only after the call.
WorkerInv ==
    \A w \in Workers :
        /\ out[w] # "none" => cur[w] # None
        /\ out[w] \in Outcomes => pc[w] = "delivered"
        /\ \A e \in Events : tries[w][e] <= attempt_count[e]

IInv == TypeOK /\ WorkerInv /\ OneSender /\ FailedAfterMaxAttempts

-----------------------------------------------------------------------------
(* Type correctness                                                        *)

LEMMA BumpType ==
    ASSUME NEW n \in 0..(MaxAttempts + 1)
    PROVE  Bump(n) \in 0..(MaxAttempts + 1) /\ n <= Bump(n)
BY OutboxAssumption DEF Bump

LEMMA BatchType ==
    ASSUME NEW B \in Batches
    PROVE  B \subseteq Events /\ B \subseteq Claimable
BY DEF Batches, Claimable, Lapsed

LEMMA InitType == Init => TypeOK
BY OutboxAssumption DEF Init, TypeOK, Statuses, Outcomes

LEMMA ClaimType ==
    ASSUME TypeOK, NEW w \in Workers, Claim(w)
    PROVE  TypeOK'
<1>. USE OutboxAssumption DEF TypeOK, Claim
<1>1. PICK B \in Batches :
        /\ status' = [e \in Events |->
              IF e \in B THEN "PROCESSING"
              ELSE IF e \in Lapsed THEN "RETRYABLE" ELSE status[e]]
        /\ held' = [e \in Events |-> IF e \in B \cup Lapsed THEN 0 ELSE held[e]]
        /\ due' = [e \in Events |-> IF e \in B THEN 0 ELSE due[e]]
        /\ attempt_count' = [e \in Events |->
              IF e \in B THEN Bump(attempt_count[e]) ELSE attempt_count[e]]
        /\ tries' = [tries EXCEPT ![w] =
              [e \in Events |-> IF e \in B THEN Bump(attempt_count[e]) ELSE 0]]
        /\ todo' = [todo EXCEPT ![w] = B]
  OBVIOUS
<1>2. status' \in [Events -> Statuses]
  BY <1>1 DEF Statuses
<1>3. held' \in [Events -> 0..(Lease + 1)]
  BY <1>1
<1>4. \A e \in Events : status'[e] # "PROCESSING" => held'[e] = 0
  BY <1>1
<1>5. due' \in [Events -> -MaxOverdue..RetryDelay]
  BY <1>1
<1>6. attempt_count' \in [Events -> 0..(MaxAttempts + 1)]
  BY <1>1, BumpType
<1>7. tries' \in [Workers -> [Events -> 0..(MaxAttempts + 1)]]
  BY <1>1, BumpType
<1>8. todo' \in [Workers -> SUBSET Events]
  BY <1>1, BatchType
<1>9. /\ pc' \in [Workers -> {"idle", "loop", "checked", "delivered"}]
      /\ \A v \in Workers : cur'[v] # None <=> pc'[v] \in {"checked", "delivered"}
  OBVIOUS
<1>. QED BY <1>2, <1>3, <1>4, <1>5, <1>6, <1>7, <1>8, <1>9

LEMMA TickType == TypeOK /\ Tick => TypeOK'
<1>. SUFFICES ASSUME TypeOK, Tick PROVE TypeOK'
  OBVIOUS
<1>. USE OutboxAssumption DEF TypeOK, Tick, workerVars
<1>1. held' \in [Events -> 0..(Lease + 1)]
  OBVIOUS
<1>2. due' \in [Events -> -MaxOverdue..RetryDelay]
  OBVIOUS
<1>. QED BY <1>1, <1>2

\* What MarkProcessed, MarkRetryable and MarkFailed do to the types.
LEMMA SetStatusType ==
    ASSUME TypeOK, NEW e \in Events, NEW s \in Statuses \ {"PROCESSING"},
           NEW d \in 0..RetryDelay, SetStatus(e, s, d)
    PROVE  /\ status' \in [Events -> Statuses]
           /\ attempt_count' \in [Events -> 0..(MaxAttempts + 1)]
           /\ held' \in [Events -> 0..(Lease + 1)]
           /\ \A f \in Events : status'[f] # "PROCESSING" => held'[f] = 0
           /\ due' \in [Events -> -MaxOverdue..RetryDelay]
BY OutboxAssumption DEF TypeOK, SetStatus

LEMMA EndPassType ==
    ASSUME TypeOK, NEW w \in Workers, EndPass(w), UNCHANGED <<rowVars, comm, sends>>,
           faults' \in 0..MaxFaults
    PROVE  TypeOK'
BY OutboxAssumption DEF TypeOK, EndPass, rowVars

LEMMA StepType == TypeOK /\ [Next]_vars => TypeOK'
<1>. SUFFICES ASSUME TypeOK, [Next]_vars PROVE TypeOK'
  OBVIOUS
<1>1. ASSUME NEW e \in Events, Emit(e) PROVE TypeOK'
  BY <1>1 DEF TypeOK, Emit, Statuses, workerVars
<1>2. CASE Tick
  BY <1>2, TickType
<1>3. ASSUME NEW w \in Workers, Claim(w) PROVE TypeOK'
  BY <1>3, ClaimType
<1>4. ASSUME NEW w \in Workers, Begin(w) PROVE TypeOK'
  BY <1>4, OutboxAssumption DEF TypeOK, Begin, rowVars
<1>5. ASSUME NEW w \in Workers, Return(w) \/ NothingToSend(w) PROVE TypeOK'
  BY <1>5 DEF TypeOK, Return, NothingToSend, rowVars
<1>6. ASSUME NEW w \in Workers, Insert(w) PROVE TypeOK'
  BY <1>6 DEF TypeOK, Insert, rowVars
<1>7. ASSUME NEW w \in Workers, InsertCollides(w) PROVE TypeOK'
  BY <1>7, EndPassType DEF InsertCollides, TypeOK
<1>8. ASSUME NEW w \in Workers, Send(w) PROVE TypeOK'
  BY <1>8 DEF TypeOK, Send, rowVars, Outcomes
<1>9. ASSUME NEW w \in Workers, AutomationCommit(w) PROVE TypeOK'
  BY <1>9 DEF TypeOK, AutomationCommit, CommitOut, rowVars, Outcomes
<1>10. ASSUME NEW w \in Workers, Finish(w) PROVE TypeOK'
  <2>. USE OutboxAssumption DEF TypeOK, Finish
  <2>1. cur[w] \in Events
    BY <1>10
  <2>2. SetStatus(cur[w], "PROCESSED", 0)
    BY <1>10 DEF MarkProcessed
  <2>3. comm' \in [Events -> Outcomes \cup {"none"}]
    BY <1>10, <2>1 DEF CommitOut
  <2>4. /\ status' \in [Events -> Statuses]
        /\ attempt_count' \in [Events -> 0..(MaxAttempts + 1)]
        /\ held' \in [Events -> 0..(Lease + 1)]
        /\ \A f \in Events : status'[f] # "PROCESSING" => held'[f] = 0
        /\ due' \in [Events -> -MaxOverdue..RetryDelay]
    BY <2>1, <2>2, SetStatusType DEF Statuses
  <2>. QED
    BY <1>10, <2>1, <2>3, <2>4
<1>11. ASSUME NEW w \in Workers, RecordError(w) PROVE TypeOK'
  <2>. USE OutboxAssumption DEF RecordError
  <2>1. PICK e \in todo[w] :
          /\ todo' = [todo EXCEPT ![w] = @ \ {e}]
          /\ IF tries[w][e] >= MaxAttempts THEN MarkFailed(e) ELSE MarkRetryable(e)
    BY <1>11
  <2>2. e \in Events
    BY DEF TypeOK
  <2>3. SetStatus(e, "FAILED", 0) \/ SetStatus(e, "RETRYABLE", RetryDelay)
    BY <2>1 DEF MarkFailed, MarkRetryable
  <2>. QED
    BY <1>11, <2>1, <2>2, <2>3, SetStatusType DEF Statuses, TypeOK
<1>12. ASSUME NEW w \in Workers, HandlerRaises(w) \/ Crash(w) PROVE TypeOK'
  <2>1. faults' \in 0..MaxFaults
    BY <1>12, OutboxAssumption DEF TypeOK, HandlerRaises, Crash
  <2>. QED
    BY <1>12, <2>1, EndPassType DEF HandlerRaises, Crash
<1>13. CASE UNCHANGED vars
  BY <1>13 DEF TypeOK, vars, rowVars, workerVars
<1>. QED
  BY <1>1, <1>2, <1>3, <1>4, <1>5, <1>6, <1>7, <1>8, <1>9, <1>10, <1>11, <1>12, <1>13
     DEF Next, Progress

\* Every reachable state is well typed: in particular processing_started_at
\* is null on every row that is not PROCESSING, whoever marked it last.
THEOREM TypeCorrect == Spec => []TypeOK
BY InitType, StepType, PTL DEF Spec

-----------------------------------------------------------------------------
(* The safety properties                                                   *)

LEMMA InitInv == Init => IInv
BY InitType, OutboxAssumption
   DEF IInv, Init, WorkerInv, OneSender, HoldsKey,
       FailedAfterMaxAttempts, Outcomes

\* The steps that leave the worker's hands and the communications alone.
LEMMA QuietInv ==
    ASSUME IInv, TypeOK', UNCHANGED <<comm, pc, cur, out>>,
           \A w \in Workers, e \in Events : tries'[w][e] <= attempt_count'[e],
           \A e \in Events : status'[e] = "FAILED" => attempt_count'[e] >= MaxAttempts
    PROVE  IInv'
<1>1. WorkerInv'
  BY DEF IInv, WorkerInv
<1>2. OneSender'
  BY DEF IInv, OneSender, HoldsKey
<1>3. FailedAfterMaxAttempts'
  BY DEF FailedAfterMaxAttempts
<1>. QED BY <1>1, <1>2, <1>3 DEF IInv

\* A pass that ends gives up a key it held; whatever it had not committed
\* is gone, and no row or communication changes.
LEMMA EndPassInv ==
    ASSUME IInv, TypeOK', NEW w \in Workers, EndPass(w), UNCHANGED <<rowVars, comm>>
    PROVE  IInv'
<1>. USE OutboxAssumption DEF EndPass, rowVars
<1>1. WorkerInv'
  BY DEF IInv, TypeOK, WorkerInv, Outcomes
<1>2. OneSender'
  BY DEF IInv, TypeOK, OneSender, HoldsKey
<1>3. FailedAfterMaxAttempts'
  BY DEF IInv, FailedAfterMaxAttempts
<1>. QED BY <1>1, <1>2, <1>3 DEF IInv

LEMMA ClaimInv ==
    ASSUME IInv, TypeOK', NEW w \in Workers, Claim(w)
    PROVE  IInv'
<1>. USE OutboxAssumption
<1>1. PICK B \in Batches :
        /\ status' = [e \in Events |->
              IF e \in B THEN "PROCESSING"
              ELSE IF e \in Lapsed THEN "RETRYABLE" ELSE status[e]]
        /\ attempt_count' = [e \in Events |->
              IF e \in B THEN Bump(attempt_count[e]) ELSE attempt_count[e]]
        /\ tries' = [tries EXCEPT ![w] =
              [e \in Events |-> IF e \in B THEN Bump(attempt_count[e]) ELSE 0]]
  BY DEF Claim
<1>2. \A e \in Events : attempt_count[e] <= attempt_count'[e]
  BY <1>1, BumpType DEF IInv, TypeOK
<1>3. \A v \in Workers, e \in Events : tries'[v][e] <= attempt_count'[e]
  <2>. TAKE v \in Workers, e \in Events
  <2>. USE DEF IInv, TypeOK
  <2>1. CASE v = w
    BY <1>1, <2>1, BumpType
  <2>2. CASE v # w
    BY <1>1, <1>2, <2>2 DEF WorkerInv
  <2>. QED BY <2>1, <2>2
<1>4. WorkerInv'
  BY <1>3 DEF Claim, IInv, TypeOK, WorkerInv, Outcomes
<1>5. OneSender'
  BY DEF Claim, IInv, OneSender, HoldsKey
<1>6. FailedAfterMaxAttempts'
  BY <1>1, <1>2 DEF IInv, TypeOK, FailedAfterMaxAttempts
<1>. QED BY <1>4, <1>5, <1>6 DEF IInv

\* The insert waits for the key, and a key that was committed meanwhile
\* makes it collide: so the inserter is alone, before any record.
LEMMA InsertInv ==
    ASSUME IInv, TypeOK', NEW w \in Workers, Insert(w)
    PROVE  IInv'
<1>. USE OutboxAssumption DEF Insert, rowVars
<1>1. WorkerInv'
  BY DEF IInv, TypeOK, WorkerInv, Outcomes
<1>2. OneSender'
  BY DEF IInv, TypeOK, OneSender, HoldsKey, KeyFree
<1>3. FailedAfterMaxAttempts'
  BY DEF IInv, FailedAfterMaxAttempts
<1>. QED BY <1>1, <1>2, <1>3 DEF IInv

LEMMA SendInv ==
    ASSUME IInv, TypeOK', NEW w \in Workers, Send(w)
    PROVE  IInv'
<1>. USE OutboxAssumption DEF Send, rowVars
<1>1. WorkerInv'
  BY DEF IInv, TypeOK, WorkerInv, Outcomes
<1>2. OneSender'
  BY DEF IInv, TypeOK, OneSender, HoldsKey, Outcomes
<1>3. FailedAfterMaxAttempts'
  BY DEF IInv, FailedAfterMaxAttempts
<1>. QED BY <1>1, <1>2, <1>3 DEF IInv

\* A commit moves the record from the worker that holds the key to the
\* database: afterwards nobody holds it.
LEMMA CommitInv ==
    ASSUME IInv, TypeOK', NEW w \in Workers, pc[w] = "delivered", CommitOut(w),
           out' = [out EXCEPT ![w] = "none"]
    PROVE  /\ \A e \in Events : comm[e] # "none" => comm'[e] # "none"
           /\ \A e \in Events, v \in Workers :
                 comm'[e] # "none" /\ cur[v] = e => out'[v] = "none"
<1>. USE OutboxAssumption DEF CommitOut, IInv
<1>1. cur[w] \in Events
  BY DEF TypeOK
<1>2. \A e \in Events : comm[e] # "none" => comm'[e] # "none"
  BY <1>1 DEF TypeOK
<1>3. \A e \in Events, v \in Workers :
        comm'[e] # "none" /\ cur[v] = e => out'[v] = "none"
  BY <1>1 DEF TypeOK, OneSender, HoldsKey
<1>. QED BY <1>2, <1>3

LEMMA AutomationCommitInv ==
    ASSUME IInv, TypeOK', NEW w \in Workers, AutomationCommit(w)
    PROVE  IInv'
<1>. USE OutboxAssumption DEF AutomationCommit, rowVars
<1>1. /\ \A e \in Events : comm[e] # "none" => comm'[e] # "none"
      /\ \A e \in Events, v \in Workers :
            comm'[e] # "none" /\ cur[v] = e => out'[v] = "none"
  BY CommitInv
<1>2. WorkerInv'
  BY <1>1 DEF IInv, TypeOK, WorkerInv, Outcomes
<1>3. OneSender'
  BY <1>1 DEF IInv, TypeOK, OneSender, HoldsKey
<1>4. FailedAfterMaxAttempts'
  BY <1>1 DEF IInv, FailedAfterMaxAttempts
<1>. QED BY <1>2, <1>3, <1>4 DEF IInv

LEMMA FinishInv ==
    ASSUME IInv, TypeOK', NEW w \in Workers, Finish(w)
    PROVE  IInv'
<1>. USE OutboxAssumption DEF Finish
<1>1. /\ \A e \in Events : comm[e] # "none" => comm'[e] # "none"
      /\ \A e \in Events, v \in Workers :
            comm'[e] # "none" /\ cur[v] = e => out'[v] = "none"
  BY CommitInv
<1>2. /\ status' = [status EXCEPT ![cur[w]] = "PROCESSED"]
      /\ attempt_count' = attempt_count
  BY DEF MarkProcessed, SetStatus
<1>3. WorkerInv'
  BY <1>1, <1>2 DEF IInv, TypeOK, WorkerInv, Outcomes
<1>4. OneSender'
  BY <1>1 DEF IInv, TypeOK, OneSender, HoldsKey
<1>5. FailedAfterMaxAttempts'
  BY <1>2 DEF IInv, TypeOK, FailedAfterMaxAttempts
<1>. QED BY <1>3, <1>4, <1>5 DEF IInv

\* The count the worker compares with max_attempts is the one it loaded: it
\* may be older than the row's, and never larger.
LEMMA RecordErrorInv ==
    ASSUME IInv, TypeOK', NEW w \in Workers, RecordError(w)
    PROVE  IInv'
<1>. USE OutboxAssumption DEF RecordError
<1>1. PICK e \in Events :
        IF tries[w][e] >= MaxAttempts THEN MarkFailed(e) ELSE MarkRetryable(e)
  BY DEF IInv, TypeOK
<1>2. attempt_count' = attempt_count
  BY <1>1 DEF MarkFailed, MarkRetryable, SetStatus
<1>4. \A f \in Events : status'[f] = "FAILED" => attempt_count[f] >= MaxAttempts
  <2>1. CASE tries[w][e] >= MaxAttempts
    <3>1. attempt_count[e] >= MaxAttempts
      BY <2>1 DEF IInv, TypeOK, WorkerInv
    <3>. QED
      BY <1>1, <2>1, <3>1 DEF MarkFailed, SetStatus, IInv, TypeOK, FailedAfterMaxAttempts
  <2>2. CASE ~(tries[w][e] >= MaxAttempts)
    BY <1>1, <2>2 DEF MarkRetryable, SetStatus, IInv, TypeOK, FailedAfterMaxAttempts
  <2>. QED BY <2>1, <2>2
<1>5. \A v \in Workers, f \in Events : tries'[v][f] <= attempt_count'[f]
  BY <1>2 DEF IInv, WorkerInv
<1>. QED BY <1>2, <1>4, <1>5, QuietInv

LEMMA StepInv == IInv /\ [Next]_vars => IInv'
<1>. SUFFICES ASSUME IInv, [Next]_vars PROVE IInv'
  OBVIOUS
<1>0. TypeOK'
  BY StepType DEF IInv
<1>1. ASSUME NEW e \in Events, Emit(e) PROVE IInv'
  <2>. USE DEF Emit, workerVars
  <2>2. \A f \in Events : status'[f] = "FAILED" => attempt_count'[f] >= MaxAttempts
    BY <1>1 DEF IInv, TypeOK, FailedAfterMaxAttempts
  <2>. QED BY <1>0, <1>1, <2>2, QuietInv DEF IInv, WorkerInv
<1>2. CASE Tick
  BY <1>0, <1>2, QuietInv DEF Tick, workerVars, IInv, WorkerInv, FailedAfterMaxAttempts
<1>3. ASSUME NEW w \in Workers, Claim(w) PROVE IInv'
  BY <1>0, <1>3, ClaimInv
<1>4. ASSUME NEW w \in Workers, Begin(w) PROVE IInv'
  <2>. USE <1>4, OutboxAssumption DEF Begin, rowVars
  <2>1. out[w] = "none"
    BY DEF IInv, TypeOK, WorkerInv
  <2>2. WorkerInv'
    BY <2>1 DEF IInv, TypeOK, WorkerInv, Outcomes
  <2>3. OneSender'
    BY <2>1 DEF IInv, TypeOK, OneSender, HoldsKey
  <2>4. FailedAfterMaxAttempts'
    BY DEF IInv, FailedAfterMaxAttempts
  <2>. QED BY <1>0, <2>2, <2>3, <2>4 DEF IInv
<1>5. ASSUME NEW w \in Workers, Return(w) \/ NothingToSend(w) PROVE IInv'
  <2>. USE <1>5 DEF Return, NothingToSend, rowVars
  <2>1. WorkerInv'
    BY DEF IInv, TypeOK, WorkerInv, Outcomes
  <2>2. OneSender' /\ FailedAfterMaxAttempts'
    BY DEF IInv, OneSender, HoldsKey, FailedAfterMaxAttempts
  <2>. QED BY <1>0, <2>1, <2>2 DEF IInv
<1>6. ASSUME NEW w \in Workers, Insert(w) PROVE IInv'
  BY <1>0, <1>6, InsertInv
<1>7. ASSUME NEW w \in Workers, InsertCollides(w) \/ HandlerRaises(w) \/ Crash(w)
      PROVE IInv'
  BY <1>0, <1>7, EndPassInv DEF InsertCollides, HandlerRaises, Crash
<1>8. ASSUME NEW w \in Workers, Send(w) PROVE IInv'
  BY <1>0, <1>8, SendInv
<1>9. ASSUME NEW w \in Workers, AutomationCommit(w) PROVE IInv'
  BY <1>0, <1>9, AutomationCommitInv
<1>10. ASSUME NEW w \in Workers, Finish(w) PROVE IInv'
  BY <1>0, <1>10, FinishInv
<1>11. ASSUME NEW w \in Workers, RecordError(w) PROVE IInv'
  BY <1>0, <1>11, RecordErrorInv
<1>12. CASE UNCHANGED vars
  BY <1>0, <1>12, QuietInv DEF vars, rowVars, workerVars, IInv, WorkerInv, FailedAfterMaxAttempts
<1>. QED
  BY <1>1, <1>2, <1>3, <1>4, <1>5, <1>6, <1>7, <1>8, <1>9, <1>10, <1>11, <1>12
     DEF Next, Progress

LEMMA Invariance == Spec => []IInv
BY InitInv, StepInv, PTL DEF Spec

\* However many workers take an event up after its lease lapsed, at most one
\* is between the insert of its communication and the commit, and none is
\* once a communication is committed.
THEOREM SenderIsAlone == Spec => []OneSender
BY Invariance, PTL DEF IInv

\* A row is FAILED only after max_attempts claims, although the count its
\* worker compared may have been out of date.
THEOREM FailedLate == Spec => []FailedAfterMaxAttempts
BY Invariance, PTL DEF IInv

\* No step calls the provider for an event whose communication is
\* committed: a retry, a reclaim or a late worker never contacts again.
THEOREM NoSecondSend == Spec => NoSendAfterRecord
<1>1. IInv /\ [Next]_vars => [\A e \in Events : comm[e] # "none" => sends'[e] = sends[e]]_vars
  <2>. SUFFICES ASSUME IInv, Next, NEW e \in Events, comm[e] # "none"
                PROVE  sends'[e] = sends[e]
    BY DEF vars
  <2>1. ASSUME NEW w \in Workers, Send(w) PROVE sends'[e] = sends[e]
    <3>1. cur[w] # e
      BY <2>1 DEF Send, IInv, OneSender, HoldsKey
    <3>. QED BY <2>1, <3>1 DEF Send, IInv, TypeOK
  <2>2. ASSUME ~(\E w \in Workers : Send(w)) PROVE sends' = sends
    BY <2>2 DEF Next, Progress, Emit, Tick, Claim, Begin, Return, NothingToSend, Insert,
                InsertCollides, Finish, AutomationCommit, RecordError, HandlerRaises, Crash
  <2>. QED BY <2>1, <2>2
<1>. QED BY <1>1, Invariance, PTL DEF Spec, NoSendAfterRecord

-----------------------------------------------------------------------------
(* Every provider call is accounted for                                    *)

\* The record of a call exists, committed or in a worker's transaction.
Recorded(e) == comm[e] # "none" \/ \E w \in Workers : Sent(w, e)

LEMMA SameRecord ==
    ASSUME SendsAccounted, sends' = sends, lost' = lost,
           \A e \in Events : Recorded(e)' <=> Recorded(e)
    PROVE  SendsAccounted'
BY DEF SendsAccounted, Recorded

\* The steps that leave a worker's uncommitted row alone: a worker may turn
\* to another event, but only while it has no row.
LEMMA SameOut ==
    ASSUME IInv, SendsAccounted, UNCHANGED <<comm, out, sends, lost>>,
           \A w \in Workers : cur'[w] = cur[w] \/ out[w] \notin Outcomes
    PROVE  SendsAccounted'
<1>1. \A e \in Events : Recorded(e)' <=> Recorded(e)
  BY DEF Recorded, Sent, HoldsKey
<1>. QED BY <1>1, SameRecord

\* A pass cut short loses the record of the call it had made, if any: no
\* other worker and no committed row can have one of the same event.
LEMMA EndPassSends ==
    ASSUME IInv, SendsAccounted, NEW w \in Workers, EndPass(w), UNCHANGED <<comm, sends>>
    PROVE  SendsAccounted'
<1>. USE OutboxAssumption DEF EndPass
<1>. SUFFICES ASSUME NEW e \in Events
              PROVE  sends[e] = lost'[e] + (IF Recorded(e)' THEN 1 ELSE 0)
  BY DEF SendsAccounted, Recorded
<1>0. /\ sends[e] = lost[e] + (IF Recorded(e) THEN 1 ELSE 0)
      /\ lost[e] \in Nat
  BY DEF SendsAccounted, Recorded, IInv, TypeOK
<1>1. \A v \in Workers : Sent(v, e)' <=> (v # w /\ Sent(v, e))
  BY DEF Sent, HoldsKey, IInv, TypeOK, Outcomes
<1>2. CASE Sent(w, e)
  <2>1. lost'[e] = lost[e] + 1
    BY <1>2 DEF Sent, HoldsKey
  <2>2. Recorded(e)
    BY <1>2 DEF Recorded
  <2>3. ~Recorded(e)'
    BY <1>1, <1>2 DEF Recorded, Sent, IInv, OneSender
  <2>. QED BY <1>0, <2>1, <2>2, <2>3
<1>3. CASE ~Sent(w, e)
  <2>1. lost'[e] = lost[e]
    BY <1>3 DEF Sent, HoldsKey, Outcomes
  <2>2. Recorded(e)' <=> Recorded(e)
    BY <1>1, <1>3 DEF Recorded
  <2>. QED BY <1>0, <2>1, <2>2
<1>. QED BY <1>2, <1>3

\* A commit turns the record of a worker's transaction into a committed one.
LEMMA CommitSends ==
    ASSUME IInv, SendsAccounted, NEW w \in Workers, pc[w] = "delivered", CommitOut(w),
           out' = [out EXCEPT ![w] = "none"], UNCHANGED <<sends, lost>>,
           \A v \in Workers : v # w => cur'[v] = cur[v]
    PROVE  SendsAccounted'
<1>. USE OutboxAssumption DEF CommitOut
<1>0. cur[w] \in Events /\ out[w] \in Outcomes \cup {"none"}
  BY DEF IInv, TypeOK
<1>1. ASSUME NEW e \in Events PROVE Recorded(e)' <=> Recorded(e)
  <2>1. \A v \in Workers : Sent(v, e)' <=> (v # w /\ Sent(v, e))
    BY DEF Sent, HoldsKey, IInv, TypeOK, Outcomes
  <2>2. CASE e = cur[w]
    <3>1. CASE out[w] = "none"
      BY <1>0, <2>1, <2>2, <3>1 DEF Recorded, Sent, IInv, TypeOK, Outcomes
    <3>2. CASE out[w] \in Outcomes
      <4>1. comm'[e] # "none"
        BY <1>0, <2>2, <3>2 DEF IInv, TypeOK, Outcomes
      <4>2. Sent(w, e)
        BY <2>2, <3>2 DEF Sent, HoldsKey, Outcomes
      <4>. QED BY <4>1, <4>2 DEF Recorded
    <3>. QED BY <1>0, <3>1, <3>2
  <2>3. CASE e # cur[w]
    <3>1. comm'[e] = comm[e] /\ ~Sent(w, e)
      BY <1>0, <2>3 DEF IInv, TypeOK, Sent, HoldsKey
    <3>. QED BY <2>1, <3>1 DEF Recorded
  <2>. QED BY <2>2, <2>3
<1>. QED BY <1>1, SameRecord

LEMMA SendSends ==
    ASSUME IInv, SendsAccounted, NEW w \in Workers, Send(w)
    PROVE  SendsAccounted'
<1>. USE OutboxAssumption DEF Send
<1>. SUFFICES ASSUME NEW e \in Events
              PROVE  sends'[e] = lost[e] + (IF Recorded(e)' THEN 1 ELSE 0)
  BY DEF SendsAccounted, Recorded
<1>0. /\ sends[e] = lost[e] + (IF Recorded(e) THEN 1 ELSE 0)
      /\ lost[e] \in Nat
  BY DEF SendsAccounted, Recorded, IInv, TypeOK
<1>1. CASE e = cur[w]
  <2>1. ~Recorded(e)
    BY <1>1 DEF Recorded, Sent, HoldsKey, IInv, OneSender, Outcomes
  <2>2. Recorded(e)'
    BY <1>1 DEF Recorded, Sent, HoldsKey, IInv, TypeOK, Outcomes
  <2>3. sends'[e] = sends[e] + 1
    BY <1>1 DEF IInv, TypeOK
  <2>. QED BY <1>0, <2>1, <2>2, <2>3
<1>2. CASE e # cur[w]
  <2>1. Recorded(e)' <=> Recorded(e)
    BY <1>2 DEF Recorded, Sent, HoldsKey, IInv, TypeOK
  <2>2. sends'[e] = sends[e]
    BY <1>2 DEF IInv, TypeOK
  <2>. QED BY <1>0, <2>1, <2>2
<1>. QED BY <1>1, <1>2

LEMMA StepSends == IInv /\ SendsAccounted /\ [Next]_vars => SendsAccounted'
<1>. SUFFICES ASSUME IInv, SendsAccounted, [Next]_vars PROVE SendsAccounted'
  OBVIOUS
<1>1. CASE (\E e \in Events : Emit(e)) \/ Tick \/ UNCHANGED vars
  BY <1>1, SameOut DEF Emit, Tick, vars, workerVars
<1>2. ASSUME NEW w \in Workers, Claim(w) \/ Return(w) \/ NothingToSend(w) \/ RecordError(w)
      PROVE SendsAccounted'
  BY <1>2, SameOut DEF Claim, Return, NothingToSend, RecordError
<1>3. ASSUME NEW w \in Workers, Begin(w) PROVE SendsAccounted'
  <2>1. out[w] \notin Outcomes
    BY <1>3 DEF Begin, IInv, WorkerInv
  <2>2. \A v \in Workers : cur'[v] = cur[v] \/ out[v] \notin Outcomes
    BY <1>3, <2>1 DEF Begin, IInv, TypeOK
  <2>. QED BY <1>3, <2>2, SameOut DEF Begin
<1>4. ASSUME NEW w \in Workers, Insert(w) PROVE SendsAccounted'
  <2>1. \A e \in Events : Recorded(e)' <=> Recorded(e)
    BY <1>4 DEF Insert, Recorded, Sent, HoldsKey, Outcomes, IInv, TypeOK
  <2>. QED BY <1>4, <2>1, SameRecord DEF Insert
<1>5. ASSUME NEW w \in Workers, InsertCollides(w) \/ HandlerRaises(w) \/ Crash(w)
      PROVE SendsAccounted'
  BY <1>5, EndPassSends DEF InsertCollides, HandlerRaises, Crash
<1>6. ASSUME NEW w \in Workers, Send(w) PROVE SendsAccounted'
  BY <1>6, SendSends
<1>7. ASSUME NEW w \in Workers, AutomationCommit(w) PROVE SendsAccounted'
  BY <1>7, CommitSends DEF AutomationCommit
<1>8. ASSUME NEW w \in Workers, Finish(w) PROVE SendsAccounted'
  <2>1. \A v \in Workers : v # w => cur'[v] = cur[v]
    BY <1>8 DEF Finish, IInv, TypeOK
  <2>. QED BY <1>8, <2>1, CommitSends DEF Finish
<1>. QED
  BY <1>1, <1>2, <1>3, <1>4, <1>5, <1>6, <1>7, <1>8 DEF Next, Progress

\* Every call to a provider has its record, committed or about to be, or is
\* counted among those whose record was rolled back: nobody is contacted
\* twice for one event unless a record was lost.
THEOREM SendsCounted == Spec => []SendsAccounted
<1>1. Init => SendsAccounted
  BY OutboxAssumption DEF Init, SendsAccounted, Sent, HoldsKey
<1>. QED BY <1>1, Invariance, StepSends, PTL DEF Spec
-----------------------------------------------------------------------------
(* Every step is a step of Delivery.                                       *)

\* A worker works on events that were committed: a row never disappears.
KnownEvents ==
    \A w \in Workers :
        /\ \A e \in todo[w] : status[e] # "ABSENT"
        /\ cur[w] # None => status[cur[w]] # "ABSENT"

LEMMA InitKnown == Init => KnownEvents
BY DEF Init, KnownEvents

\* No step takes an event back, and a worker takes up events of its batch.
LEMMA StepKnown ==
    IInv /\ KnownEvents /\ [Next]_vars =>
        /\ KnownEvents'
        /\ \A e \in Events : status[e] # "ABSENT" => status'[e] # "ABSENT"
<1>. SUFFICES ASSUME IInv, KnownEvents, [Next]_vars
              PROVE  /\ KnownEvents'
                     /\ \A e \in Events : status[e] # "ABSENT" => status'[e] # "ABSENT"
  OBVIOUS
<1>. USE OutboxAssumption DEF IInv, TypeOK, KnownEvents
<1>1. ASSUME NEW e \in Events, Emit(e)
      PROVE  KnownEvents' /\ \A f \in Events : status[f] # "ABSENT" => status'[f] # "ABSENT"
  BY <1>1 DEF Emit, workerVars
<1>2. CASE Tick \/ UNCHANGED vars
  BY <1>2 DEF Tick, vars, rowVars, workerVars
<1>3. ASSUME NEW w \in Workers, Claim(w)
      PROVE  KnownEvents' /\ \A f \in Events : status[f] # "ABSENT" => status'[f] # "ABSENT"
  <2>1. PICK B \in Batches :
          /\ status' = [e \in Events |->
                IF e \in B THEN "PROCESSING"
                ELSE IF e \in Lapsed THEN "RETRYABLE" ELSE status[e]]
          /\ todo' = [todo EXCEPT ![w] = B]
    BY <1>3 DEF Claim
  <2>2. \A f \in Events : status[f] # "ABSENT" => status'[f] # "ABSENT"
    BY <2>1
  <2>3. B \subseteq Events /\ \A e \in B : status'[e] = "PROCESSING"
    BY <2>1, BatchType
  <2>. QED BY <1>3, <2>1, <2>2, <2>3 DEF Claim
<1>4. ASSUME NEW w \in Workers, Begin(w) \/ Return(w) \/ NothingToSend(w) \/ Insert(w)
                               \/ Send(w) \/ AutomationCommit(w)
      PROVE  KnownEvents' /\ status' = status
  <2>1. CASE Begin(w)
    BY <2>1 DEF Begin, rowVars
  <2>2. CASE Return(w) \/ NothingToSend(w) \/ Insert(w) \/ Send(w) \/ AutomationCommit(w)
    BY <2>2 DEF Return, NothingToSend, Insert, Send, AutomationCommit, rowVars
  <2>. QED BY <1>4, <2>1, <2>2
<1>5. ASSUME NEW w \in Workers, InsertCollides(w) \/ HandlerRaises(w) \/ Crash(w)
      PROVE  KnownEvents' /\ status' = status
  BY <1>5 DEF InsertCollides, HandlerRaises, Crash, EndPass, rowVars
<1>6. ASSUME NEW w \in Workers, Finish(w) \/ RecordError(w)
      PROVE  KnownEvents' /\ \A f \in Events : status[f] # "ABSENT" => status'[f] # "ABSENT"
  <2>1. \A f \in Events : status[f] # "ABSENT" => status'[f] # "ABSENT"
    BY <1>6 DEF Finish, RecordError, MarkProcessed, MarkRetryable, MarkFailed, SetStatus
  <2>2. todo' \in [Workers -> SUBSET Events] /\ \A v \in Workers : todo'[v] \subseteq todo[v]
    <3>1. PICK gone \in SUBSET Events : todo' = [todo EXCEPT ![w] = @ \ gone]
      <4>1. CASE Finish(w)
        <5>1. todo' = [todo EXCEPT ![w] = @ \ {}]
          BY <4>1 DEF Finish
        <5>. QED BY <5>1
      <4>2. CASE RecordError(w)
        <5>1. PICK e \in todo[w] : todo' = [todo EXCEPT ![w] = @ \ {e}]
          BY <4>2 DEF RecordError
        <5>. QED BY <5>1
      <4>. QED BY <1>6, <4>1, <4>2
    <3>. QED BY <3>1
  <2>3. \A v \in Workers : cur'[v] # None => cur'[v] = cur[v] /\ cur[v] \in Events
    BY <1>6 DEF Finish, RecordError
  <2>. QED BY <2>1, <2>2, <2>3
<1>. QED
  BY <1>1, <1>2, <1>3, <1>4, <1>5, <1>6 DEF Next, Progress

\* The names Delivery has for the state of the outbox.
Announced == {e \in Events : status[e] # "ABSENT"}
OnRecord == {e \in Events : comm[e] # "none"}
Attempts == [e \in Events |-> AttemptFor(e)]

\* The worker that holds the key says how far the attempt is.
LEMMA HolderTells ==
    ASSUME IInv, NEW w \in Workers, NEW e \in Events, HoldsKey(w, e)
    PROVE  AttemptFor(e) = IF out[w] \in Outcomes THEN "called" ELSE "begun"
BY DEF AttemptFor, Sent, IInv, OneSender

LEMMA NobodyTells ==
    ASSUME NEW e \in Events, \A w \in Workers : ~HoldsKey(w, e)
    PROVE  AttemptFor(e) = "none"
BY DEF AttemptFor, Sent

\* An attempt stays as it is while nobody touches its row.
LEMMA SameAttempt ==
    ASSUME NEW e \in Events,
           \A w \in Workers : HoldsKey(w, e)' <=> HoldsKey(w, e),
           \A w \in Workers : HoldsKey(w, e) => out'[w] = out[w]
    PROVE  AttemptFor(e)' = AttemptFor(e)
BY DEF AttemptFor, Sent

\* The steps between two statements about the communication.
LEMMA QuietStep ==
    ASSUME IInv, out' = out, comm' = comm, sends' = sends, Announced' = Announced,
           \A w \in Workers : cur'[w] = cur[w] \/ out[w] = "none"
    PROVE  UNCHANGED Promise!vars
<1>1. \A e \in Events : AttemptFor(e)' = AttemptFor(e)
  BY SameAttempt DEF HoldsKey
<1>. QED BY <1>1 DEF Promise!vars, Announced

\* The end of a worker's hold on the key of the event in its hand.
LEMMA LetGo ==
    ASSUME IInv, NEW w \in Workers, NEW e \in Events, HoldsKey(w, e), out'[w] = "none",
           \A v \in Workers \ {w} : out'[v] = out[v] /\ cur'[v] = cur[v]
    PROVE  Attempts' = [Attempts EXCEPT ![e] = "none"]
<1>1. \A v \in Workers \ {w} : ~HoldsKey(v, e)
  BY DEF IInv, OneSender
<1>2. \A v \in Workers : ~HoldsKey(v, e)'
  BY <1>1 DEF HoldsKey
<1>3. AttemptFor(e)' = "none"
  BY <1>2 DEF AttemptFor, Sent
<1>4. ASSUME NEW f \in Events \ {e} PROVE AttemptFor(f)' = AttemptFor(f)
  <2>1. \A v \in Workers : HoldsKey(v, f) => v # w
    BY DEF HoldsKey
  <2>2. \A v \in Workers : HoldsKey(v, f)' <=> HoldsKey(v, f)
    BY <2>1 DEF HoldsKey
  <2>. QED BY <2>1, <2>2, SameAttempt
<1>. QED BY <1>3, <1>4 DEF Attempts

LEMMA InsertPromised ==
    ASSUME IInv, KnownEvents, NEW w \in Workers, Insert(w), NEW e \in Events, e = cur[w]
    PROVE  Promise!Attempt(e)
<1>1. e \in Events /\ comm[e] = "none" /\ out[w] = "none" /\ status[e] # "ABSENT"
  BY DEF Insert, IInv, TypeOK, KnownEvents
<1>2. \A v \in Workers : ~HoldsKey(v, e)
  BY DEF Insert, KeyFree
<1>3. AttemptFor(e) = "none"
  BY <1>1, <1>2, NobodyTells
<1>4. /\ out' = [out EXCEPT ![w] = "PENDING"] /\ cur' = cur
      /\ UNCHANGED <<status, comm, sends>>
  BY DEF Insert, rowVars
<1>5. HoldsKey(w, e)' /\ \A v \in Workers : ~Sent(v, e)'
  BY <1>2, <1>4 DEF HoldsKey, Sent, Outcomes, IInv, TypeOK
<1>6. AttemptFor(e)' = "begun"
  BY <1>5 DEF AttemptFor
<1>7. \A f \in Events \ {e} : AttemptFor(f)' = AttemptFor(f)
  BY <1>4, SameAttempt DEF HoldsKey, IInv, TypeOK
<1>8. Attempts' = [Attempts EXCEPT ![e] = "begun"]
  BY <1>6, <1>7 DEF Attempts
<1>. QED BY <1>1, <1>3, <1>4, <1>8 DEF Promise!Attempt, Attempts

LEMMA SendPromised ==
    ASSUME IInv, NEW w \in Workers, Send(w), NEW e \in Events, e = cur[w]
    PROVE  Promise!Call(e)
<1>1. out[w] = "PENDING" /\ HoldsKey(w, e)
  BY DEF Send, IInv, TypeOK, HoldsKey
<1>2. AttemptFor(e) = "begun"
  BY <1>1, HolderTells DEF Outcomes
<1>3. PICK o \in Outcomes : out' = [out EXCEPT ![w] = o]
  BY DEF Send
<1>4. cur' = cur /\ UNCHANGED <<status, comm>> /\ sends' = [sends EXCEPT ![e] = @ + 1]
  BY DEF Send, rowVars
<1>5. Sent(w, e)'
  BY <1>1, <1>3, <1>4 DEF Sent, HoldsKey, Outcomes, IInv, TypeOK
<1>6. AttemptFor(e)' = "called"
  BY <1>5 DEF AttemptFor
<1>7. \A f \in Events \ {e} : AttemptFor(f)' = AttemptFor(f)
  BY <1>3, <1>4, SameAttempt DEF HoldsKey, IInv, TypeOK
<1>8. Attempts' = [Attempts EXCEPT ![e] = "called"]
  BY <1>6, <1>7 DEF Attempts
<1>. QED BY <1>1, <1>2, <1>4, <1>8 DEF Promise!Call, Attempts

\* A commit of the worker's session with the event delivered.
LEMMA CommitPromised ==
    ASSUME IInv, NEW w \in Workers, pc[w] = "delivered", CommitOut(w),
           out' = [out EXCEPT ![w] = "none"], sends' = sends, Announced' = Announced,
           \A v \in Workers \ {w} : cur'[v] = cur[v],
           NEW e \in Events, e = cur[w]
    PROVE  Promise!Record(e) \/ UNCHANGED Promise!vars
<1>0. out[w] \in Outcomes \cup {"none"}
  BY DEF IInv, TypeOK
<1>1. CASE out[w] = "none"
  <2>1. out' = out /\ comm' = comm
    BY <1>0, <1>1 DEF IInv, TypeOK, CommitOut
  <2>. QED BY <1>1, <2>1, QuietStep
<1>2. CASE out[w] \in Outcomes
  <2>1. out[w] # "none" /\ HoldsKey(w, e)
    BY <1>2 DEF Outcomes, HoldsKey
  <2>2. AttemptFor(e) = "called"
    BY <1>2, <2>1, HolderTells
  <2>3. out'[w] = "none" /\ \A v \in Workers \ {w} : out'[v] = out[v] /\ cur'[v] = cur[v]
    BY DEF IInv, TypeOK
  <2>4. Attempts' = [Attempts EXCEPT ![e] = "none"]
    BY <2>1, <2>3, LetGo
  <2>5. OnRecord' = OnRecord \cup {e}
    BY <2>1 DEF OnRecord, CommitOut, IInv, TypeOK
  <2>. QED
    BY <2>2, <2>4, <2>5 DEF Promise!Record, Attempts, OnRecord, Announced
<1>. QED BY <1>0, <1>1, <1>2

LEMMA EndPassPromised ==
    ASSUME IInv, NEW w \in Workers, EndPass(w), UNCHANGED <<rowVars, comm, sends>>
    PROVE  (\E e \in Events : Promise!GiveUp(e)) \/ UNCHANGED Promise!vars
<1>0. /\ out'[w] = "none" /\ Announced' = Announced
      /\ \A v \in Workers \ {w} : out'[v] = out[v] /\ cur'[v] = cur[v]
  BY DEF EndPass, IInv, TypeOK, rowVars, Announced
<1>1. CASE out[w] = "none"
  <2>1. out' = out
    BY <1>1 DEF EndPass, IInv, TypeOK
  <2>. QED BY <1>0, <1>1, <2>1, QuietStep
<1>2. CASE out[w] # "none"
  <2>1. PICK e \in Events : HoldsKey(w, e)
    BY <1>2 DEF HoldsKey, IInv, TypeOK, WorkerInv
  <2>2. Attempts' = [Attempts EXCEPT ![e] = "none"]
    BY <1>0, <2>1, LetGo
  <2>. QED BY <1>0, <2>2 DEF Promise!GiveUp, Attempts, Announced
<1>. QED BY <1>1, <1>2

LEMMA InitPromised == Init => Promise!Init
<1>. SUFFICES ASSUME Init PROVE Promise!Init
  OBVIOUS
<1>1. \A e \in Events : AttemptFor(e) = "none"
  BY NobodyTells DEF Init, HoldsKey
<1>. QED BY <1>1 DEF Init, Promise!Init

LEMMA StepPromised == IInv /\ IInv' /\ KnownEvents /\ [Next]_vars => [Promise!Next]_(Promise!vars)
<1>. SUFFICES ASSUME IInv, IInv', KnownEvents, [Next]_vars PROVE [Promise!Next]_(Promise!vars)
  OBVIOUS
<1>. DEFINE Made == \E e \in Events : \/ Promise!Announce(e) \/ Promise!Attempt(e) \/ Promise!Call(e)
                                     \/ Promise!Record(e) \/ Promise!GiveUp(e)
<1>. SUFFICES Made \/ UNCHANGED Promise!vars
  BY DEF Promise!Next
<1>1. ASSUME NEW e \in Events, Emit(e) PROVE Made
  <2>1. \A f \in Events : AttemptFor(f)' = AttemptFor(f)
    BY <1>1, SameAttempt DEF Emit, workerVars, HoldsKey
  <2>2. Announced' = Announced \cup {e}
    BY <1>1 DEF Emit, Announced, IInv, TypeOK
  <2>3. Promise!Announce(e)
    BY <1>1, <2>1, <2>2 DEF Emit, Promise!Announce, Announced
  <2>. QED BY <2>3
<1>2. CASE Tick \/ UNCHANGED vars
  BY <1>2, QuietStep DEF Tick, vars, rowVars, workerVars, Announced
<1>3. ASSUME NEW w \in Workers, Claim(w) \/ RecordError(w)
      PROVE  UNCHANGED Promise!vars
  <2>1. \A e \in Events : status[e] # "ABSENT" <=> status'[e] # "ABSENT"
    <3>1. CASE Claim(w)
      <4>1. PICK B \in Batches :
              status' = [e \in Events |->
                  IF e \in B THEN "PROCESSING"
                  ELSE IF e \in Lapsed THEN "RETRYABLE" ELSE status[e]]
        BY <3>1 DEF Claim
      <4>2. \A e \in B \cup Lapsed : status[e] # "ABSENT"
        BY BatchType DEF Claimable, Waiting, Lapsed
      <4>. QED BY <4>1, <4>2
    <3>2. CASE RecordError(w)
      BY <3>2 DEF RecordError, MarkRetryable, MarkFailed, SetStatus, KnownEvents, IInv, TypeOK
    <3>. QED BY <1>3, <3>1, <3>2
  <2>2. Announced' = Announced
    BY <2>1 DEF Announced
  <2>. QED BY <1>3, <2>2, QuietStep DEF Claim, RecordError
<1>4. ASSUME NEW w \in Workers, Begin(w) \/ Return(w) \/ NothingToSend(w)
      PROVE  UNCHANGED Promise!vars
  <2>1. \A v \in Workers : cur'[v] = cur[v] \/ out[v] = "none"
    BY <1>4 DEF Begin, Return, NothingToSend, IInv, TypeOK, WorkerInv
  <2>. QED BY <1>4, <2>1, QuietStep DEF Begin, Return, NothingToSend, rowVars, Announced
<1>5. ASSUME NEW w \in Workers, Insert(w) PROVE Made
  <2>1. PICK e \in Events : e = cur[w]
    BY <1>5 DEF Insert, IInv, TypeOK
  <2>. QED BY <1>5, <2>1, InsertPromised
<1>6. ASSUME NEW w \in Workers, Send(w) PROVE Made
  <2>1. PICK e \in Events : e = cur[w]
    BY <1>6 DEF Send, IInv, TypeOK
  <2>. QED BY <1>6, <2>1, SendPromised
<1>7. ASSUME NEW w \in Workers, AutomationCommit(w) \/ Finish(w)
      PROVE  Made \/ UNCHANGED Promise!vars
  <2>1. Announced' = Announced
    BY <1>7 DEF AutomationCommit, Finish, MarkProcessed, SetStatus, KnownEvents, Announced,
                rowVars, IInv, TypeOK
  <2>2. /\ pc[w] = "delivered" /\ CommitOut(w) /\ out' = [out EXCEPT ![w] = "none"]
        /\ sends' = sends /\ \A v \in Workers \ {w} : cur'[v] = cur[v]
    BY <1>7 DEF AutomationCommit, Finish, IInv, TypeOK
  <2>3. PICK e \in Events : e = cur[w]
    BY <2>2 DEF IInv, TypeOK
  <2>4. Promise!Record(e) \/ UNCHANGED Promise!vars
    BY <2>1, <2>2, <2>3, CommitPromised
  <2>. QED BY <2>4
<1>8. ASSUME NEW w \in Workers, InsertCollides(w) \/ HandlerRaises(w) \/ Crash(w)
      PROVE  Made \/ UNCHANGED Promise!vars
  BY <1>8, EndPassPromised DEF InsertCollides, HandlerRaises, Crash
<1>. QED
  BY <1>1, <1>2, <1>3, <1>4, <1>5, <1>6, <1>7, <1>8 DEF Next, Progress

\* The outbox implements Delivery for any number of events and workers:
\* however leases lapse and passes end, attempts at one communication are of
\* an event that was emitted, never overlap, and none follows a record.
THEOREM Delivers == Spec => DeliversAsPromised
<1>1. Init => IInv /\ KnownEvents
  BY InitInv, InitKnown
<1>2. IInv /\ KnownEvents /\ [Next]_vars => IInv' /\ KnownEvents'
  BY StepInv, StepKnown
<1>. QED
  BY <1>1, <1>2, InitPromised, StepPromised, PTL
  DEF Spec, DeliversAsPromised, Promise!Spec
=============================================================================
