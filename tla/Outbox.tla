------------------------------- MODULE Outbox -------------------------------
(***************************************************************************)
(* The transactional outbox of the FIELDed backend: rows of outbox_events, *)
(* the workers that claim them under a lease, and the communication an     *)
(* event may lead to.  One worker is one caller of process_outbox_events:  *)
(* the background task of an application process or the command-line       *)
(* worker.                                                                 *)
(*                                                                         *)
(* Time is relative: "held" is the age of processing_started_at and "due"  *)
(* is available_at minus now, so that Tick may be taken for ever in a      *)
(* finite state space.  A worker's steps are its database statements and   *)
(* its provider call; what it has not committed lives in "out".            *)
(***************************************************************************)
EXTENDS Integers, FiniteSets

CONSTANTS
    Events,         \* rows of outbox_events
    BookingEvents,  \* those that also run booking automation
    Poison,         \* those whose handler never succeeds
    Workers,        \* callers of process_outbox_events
    None,           \* no event in hand
    BatchSize,      \* settings.outbox_batch_size
    MaxAttempts,    \* settings.outbox_max_attempts
    Lease,          \* settings.outbox_lease_seconds, in ticks
    RetryDelay,     \* retry_after_seconds of mark_retryable, in ticks
    MaxOverdue,     \* how long past due an event is told apart from another
    MaxFaults,      \* crashes, and handler errors of events outside Poison
    MaxSends        \* provider calls for one event

ASSUME OutboxAssumption ==
    /\ BookingEvents \subseteq Events
    /\ Poison \subseteq Events
    /\ None \notin Events
    /\ IsFiniteSet(Events)
    /\ BatchSize \in Nat \ {0}
    /\ MaxAttempts \in Nat \ {0}
    /\ Lease \in Nat
    /\ RetryDelay \in Nat
    /\ MaxOverdue \in Nat
    /\ MaxFaults \in Nat
    /\ MaxSends \in Nat \ {0}

VARIABLES
    status,         \* OutboxEvent.status, "ABSENT" before the row exists
    attempt_count,  \* OutboxEvent.attempt_count, saturated above MaxAttempts
    held,           \* ticks since processing_started_at, 0 when it is null
    due,            \* available_at - now, 0 while it does not matter
    comm,           \* the committed Communication row of the event
    pc,             \* where a worker is in its pass
    todo,           \* the part of its batch a worker has not begun
    cur,            \* the event it is handling
    tries,          \* attempt_count as the worker loaded it when it claimed
    out,            \* its uncommitted Communication row
    sends,          \* provider calls made for an event
    lost,           \* provider calls whose record was rolled back
    faults

rowVars    == <<status, attempt_count, held, due>>
workerVars == <<pc, todo, cur, tries, out>>
vars == <<rowVars, comm, workerVars, sends, lost, faults>>

Outcomes == {"SENT", "FAILED"}

Init ==
    /\ status = [e \in Events |-> "ABSENT"]
    /\ attempt_count = [e \in Events |-> 0]
    /\ held = [e \in Events |-> 0]
    /\ due = [e \in Events |-> 0]
    /\ comm = [e \in Events |-> "none"]
    /\ pc = [w \in Workers |-> "idle"]
    /\ todo = [w \in Workers |-> {}]
    /\ cur = [w \in Workers |-> None]
    /\ tries = [w \in Workers |-> [e \in Events |-> 0]]
    /\ out = [w \in Workers |-> "none"]
    /\ sends = [e \in Events |-> 0]
    /\ lost = [e \in Events |-> 0]
    /\ faults = 0

-----------------------------------------------------------------------------
(* The row's life outside a worker.                                        *)

\* A domain transaction commits its change and the event row together.
Emit(e) ==
    /\ status[e] = "ABSENT"
    /\ status' = [status EXCEPT ![e] = "PENDING"]
    /\ UNCHANGED <<attempt_count, held, due, comm, workerVars, sends, lost, faults>>

Waiting(e) == status[e] \in {"PENDING", "RETRYABLE"}

Tick ==
    /\ held' = [e \in Events |->
          IF status[e] = "PROCESSING" /\ held[e] <= Lease THEN held[e] + 1 ELSE held[e]]
    /\ due' = [e \in Events |->
          IF Waiting(e) /\ due[e] > -MaxOverdue THEN due[e] - 1 ELSE due[e]]
    /\ UNCHANGED <<status, attempt_count, comm, workerVars, sends, lost, faults>>

-----------------------------------------------------------------------------
(* claim_pending_events and the commit of the claim.                       *)

Lapsed_Never == {}
Lapsed == {e \in Events : status[e] = "PROCESSING" /\ held[e] > Lease}
Claimable == {e \in Events : Waiting(e) /\ due[e] <= 0} \cup Lapsed

\* The batches ORDER BY available_at LIMIT batch_size can return.  A lapsed
\* row has just been given available_at = now, and its due is 0.
Batches ==
    {B \in SUBSET Claimable :
        /\ B # {}
        /\ Cardinality(B) <= BatchSize
        /\ B # Claimable => Cardinality(B) = BatchSize
        /\ \A e \in B, f \in Claimable \ B : due[e] <= due[f]}

\* Attempts beyond MaxAttempts + 1 are not told apart: the code only
\* compares the count with max_attempts.
Bump(n) == IF n > MaxAttempts THEN n ELSE n + 1

Claim(w) ==
    /\ pc[w] = "idle"
    /\ \E B \in Batches :
        /\ status' = [e \in Events |->
              IF e \in B THEN "PROCESSING"
              ELSE IF e \in Lapsed THEN "RETRYABLE" ELSE status[e]]
        /\ held' = [e \in Events |-> IF e \in B \cup Lapsed THEN 0 ELSE held[e]]
        /\ due' = [e \in Events |-> IF e \in B THEN 0 ELSE due[e]]
        /\ attempt_count' = [e \in Events |->
              IF e \in B THEN Bump(attempt_count[e]) ELSE attempt_count[e]]
        /\ tries' = [tries EXCEPT ![w] =
              [e \in Events |-> IF e \in B THEN Bump(attempt_count[e]) ELSE 0]]
        /\ todo' = [todo EXCEPT ![w] = B]
    /\ pc' = [pc EXCEPT ![w] = "loop"]
    /\ UNCHANGED <<comm, cur, out, sends, lost, faults>>

-----------------------------------------------------------------------------
(* One event of the batch.                                                 *)

\* A pass that ends takes its unbegun events with it: they stay PROCESSING
\* until their lease lapses.
EndPass(w) ==
    /\ pc' = [pc EXCEPT ![w] = "idle"]
    /\ todo' = [todo EXCEPT ![w] = {}]
    /\ cur' = [cur EXCEPT ![w] = None]
    /\ out' = [out EXCEPT ![w] = "none"]
    /\ lost' = [e \in Events |->
          IF e = cur[w] /\ out[w] \in Outcomes THEN lost[e] + 1 ELSE lost[e]]
    /\ tries' = [tries EXCEPT ![w] = [e \in Events |-> 0]]

\* The loop of process_outbox_events over its batch: the idempotency lookup
\* of the orchestrator is the first statement it makes for the event.
Begin(w) ==
    /\ pc[w] = "loop"
    /\ \E e \in todo[w] :
        /\ todo' = [todo EXCEPT ![w] = @ \ {e}]
        /\ cur' = [cur EXCEPT ![w] = e]
        /\ pc' = [pc EXCEPT ![w] = IF comm[e] = "none" THEN "checked" ELSE "delivered"]
    /\ UNCHANGED <<rowVars, comm, tries, out, sends, lost, faults>>

Return(w) ==
    /\ pc[w] = "loop"
    /\ todo[w] = {}
    /\ pc' = [pc EXCEPT ![w] = "idle"]
    /\ UNCHANGED <<rowVars, comm, todo, cur, tries, out, sends, lost, faults>>

\* No communication comes of this handling: policy denies it, the event has
\* no targets and no template or address for an e-mail, or the e-mail service
\* swallows an error of its own.  The worker cannot tell.
NothingToSend(w) ==
    /\ pc[w] = "checked"
    /\ out[w] = "none"
    /\ pc' = [pc EXCEPT ![w] = "delivered"]
    /\ UNCHANGED <<rowVars, comm, todo, cur, tries, out, sends, lost, faults>>

\* A worker whose transaction has inserted the row of the event's unique
\* idempotency key: another's insert of that key waits for it to end.
HoldsKey(w, e) == cur[w] = e /\ out[w] # "none"
KeyFree_NotUnique(e) == TRUE
KeyFree(e) == \A w \in Workers : ~HoldsKey(w, e)

Insert_NotUnique(w) ==
    /\ pc[w] = "checked"
    /\ out[w] = "none"
    /\ out' = [out EXCEPT ![w] = "PENDING"]
    /\ UNCHANGED <<rowVars, comm, pc, todo, cur, tries, sends, lost, faults>>
Insert_NotChecked(w) ==
    /\ pc[w] = "checked"
    /\ out[w] = "none"
    /\ KeyFree(cur[w])
    /\ out' = [out EXCEPT ![w] = "PENDING"]
    /\ UNCHANGED <<rowVars, comm, pc, todo, cur, tries, sends, lost, faults>>
Insert(w) ==
    /\ pc[w] = "checked"
    /\ out[w] = "none"
    /\ KeyFree(cur[w])
    /\ comm[cur[w]] = "none"
    /\ out' = [out EXCEPT ![w] = "PENDING"]
    /\ UNCHANGED <<rowVars, comm, pc, todo, cur, tries, sends, lost, faults>>

\* Another worker committed the key after this one had looked: the insert
\* raises IntegrityError, and the pass ends as in HandlerRaises.
InsertCollides(w) ==
    /\ pc[w] = "checked"
    /\ out[w] = "none"
    /\ comm[cur[w]] # "none"
    /\ EndPass(w)
    /\ UNCHANGED <<rowVars, comm, sends, faults>>

\* The provider call, inside the transaction that records its outcome.
Send(w) ==
    /\ pc[w] = "checked"
    /\ out[w] = "PENDING"
    /\ sends[cur[w]] < MaxSends
    /\ \E o \in Outcomes : out' = [out EXCEPT ![w] = o]
    /\ sends' = [sends EXCEPT ![cur[w]] = @ + 1]
    /\ pc' = [pc EXCEPT ![w] = "delivered"]
    /\ UNCHANGED <<rowVars, comm, todo, cur, tries, lost, faults>>

\* What a commit of the worker's session does to the Communication row.
CommitOut(w) ==
    comm' = [comm EXCEPT ![cur[w]] = IF out[w] = "none" THEN @ ELSE out[w]]

\* Booking automation commits the session it shares with the orchestrator,
\* before the event itself is marked.
AutomationCommit(w) ==
    /\ pc[w] = "delivered"
    /\ cur[w] \in BookingEvents
    /\ out[w] # "none"
    /\ CommitOut(w)
    /\ out' = [out EXCEPT ![w] = "none"]
    /\ UNCHANGED <<rowVars, pc, todo, cur, tries, sends, lost, faults>>

\* An UPDATE of the row by id: the row's status, lease and claimant are not
\* in its WHERE clause.
SetStatus(e, s, delay) ==
    /\ status' = [status EXCEPT ![e] = s]
    /\ held' = [held EXCEPT ![e] = 0]
    /\ due' = [due EXCEPT ![e] = delay]
    /\ UNCHANGED attempt_count

MarkProcessed(e) == SetStatus(e, "PROCESSED", 0)
MarkRetryable(e) == SetStatus(e, "RETRYABLE", RetryDelay)
MarkFailed(e) == SetStatus(e, "FAILED", 0)

Finish(w) ==
    /\ pc[w] = "delivered"
    /\ cur[w] \notin Poison
    /\ MarkProcessed(cur[w])
    /\ CommitOut(w)
    /\ out' = [out EXCEPT ![w] = "none"]
    /\ cur' = [cur EXCEPT ![w] = None]
    /\ pc' = [pc EXCEPT ![w] = "loop"]
    /\ UNCHANGED <<todo, tries, sends, lost, faults>>

\* The handler raises before its first statement: the rollback finds no
\* transaction, the row stays loaded and its error status is written.
RecordError(w) ==
    /\ pc[w] = "loop"
    /\ \E e \in todo[w] :
        /\ todo' = [todo EXCEPT ![w] = @ \ {e}]
        /\ IF tries[w][e] >= MaxAttempts THEN MarkFailed(e) ELSE MarkRetryable(e)
    /\ UNCHANGED <<comm, pc, cur, tries, out, sends, lost, faults>>

\* The handler raises with a transaction open.  The rollback expires every
\* loaded row, so the next statement of the except block, which reads
\* event.attempt_count, needs a lazy load outside the greenlet and raises:
\* the pass ends and no error status is written.
HandlerRaises(w) ==
    /\ pc[w] \in {"checked", "delivered"}
    /\ \/ cur[w] \in Poison /\ UNCHANGED faults
       \/ cur[w] \notin Poison /\ faults < MaxFaults /\ faults' = faults + 1
    /\ EndPass(w)
    /\ UNCHANGED <<rowVars, comm, sends>>

\* The process stops; PostgreSQL rolls its open transaction back.
Crash(w) ==
    /\ pc[w] # "idle"
    /\ faults < MaxFaults
    /\ faults' = faults + 1
    /\ EndPass(w)
    /\ UNCHANGED <<rowVars, comm, sends>>

-----------------------------------------------------------------------------
Progress(w) ==
    Claim(w) \/ Begin(w) \/ Return(w) \/ Insert(w) \/ InsertCollides(w)
        \/ NothingToSend(w) \/ Send(w) \/ Finish(w)

Next ==
    \/ \E e \in Events : Emit(e)
    \/ Tick
    \/ \E w \in Workers :
        Progress(w) \/ AutomationCommit(w) \/ RecordError(w)
            \/ HandlerRaises(w) \/ Crash(w)

Spec == Init /\ [][Next]_vars

\* Clocks advance, and a worker in a pass or with something to claim goes
\* on: _outbox_worker_loop polls for ever and survives a failed pass, and
\* provider calls time out.  A handler that cannot succeed raises in the end.
\* Nothing is assumed of other errors and of crashes.
PoisonRaises(w) == cur[w] \in Poison /\ HandlerRaises(w)
Fairness ==
    /\ WF_vars(Tick)
    /\ \A w \in Workers : WF_vars(Progress(w) \/ PoisonRaises(w))
FairSpec == Spec /\ Fairness

-----------------------------------------------------------------------------
(* Properties                                                              *)

Statuses == {"ABSENT", "PENDING", "PROCESSING", "RETRYABLE", "PROCESSED", "FAILED"}

\* Each variable has its type; processing_started_at is set only while a
\* row is PROCESSING, and a worker has an event in hand exactly between
\* the lookup and the end of its handling.
TypeOK ==
    /\ status \in [Events -> Statuses]
    /\ attempt_count \in [Events -> 0..(MaxAttempts + 1)]
    /\ held \in [Events -> 0..(Lease + 1)]
    /\ \A e \in Events : status[e] # "PROCESSING" => held[e] = 0
    /\ due \in [Events -> -MaxOverdue..RetryDelay]
    /\ comm \in [Events -> Outcomes \cup {"none"}]
    /\ pc \in [Workers -> {"idle", "loop", "checked", "delivered"}]
    /\ todo \in [Workers -> SUBSET Events]
    /\ cur \in [Workers -> Events \cup {None}]
    /\ \A w \in Workers : cur[w] # None <=> pc[w] \in {"checked", "delivered"}
    /\ tries \in [Workers -> [Events -> 0..(MaxAttempts + 1)]]
    /\ out \in [Workers -> Outcomes \cup {"none", "PENDING"}]
    /\ \A w \in Workers : out[w] = "PENDING" => pc[w] = "checked"
    /\ sends \in [Events -> Nat]
    /\ lost \in [Events -> Nat]
    /\ faults \in 0..MaxFaults

\* The unique idempotency key serialises the workers that handle the same
\* event after its lease lapsed: at most one of them is between its insert
\* and its commit, and none once a communication is committed.
OneSender ==
    \A w \in Workers, e \in Events :
        HoldsKey(w, e) =>
            /\ comm[e] = "none"
            /\ \A v \in Workers : HoldsKey(v, e) => v = w

Sent(w, e) == HoldsKey(w, e) /\ out[w] \in Outcomes

\* A recipient is contacted again only when the record of an earlier call
\* was rolled back: calls are one for the record, committed or in flight,
\* plus one for each record lost, however many workers took the event up.
SendsAccounted ==
    \A e \in Events :
        sends[e] = lost[e] +
            (IF comm[e] # "none" \/ \E w \in Workers : Sent(w, e) THEN 1 ELSE 0)

\* No event is given up before max_attempts claims of it were made.
FailedAfterMaxAttempts ==
    \A e \in Events : status[e] = "FAILED" => attempt_count[e] >= MaxAttempts

\* No provider call is made for an event whose communication is committed:
\* a retry, a reclaimed lease or a late worker never contacts anyone again.
NoSendAfterRecord ==
    [][\A e \in Events : comm[e] # "none" => sends'[e] = sends[e]]_vars

\* An attempt is under way from its insert, which takes the unique key, to
\* the end of its transaction.
AttemptFor(e) ==
    IF \E w \in Workers : Sent(w, e) THEN "called"
    ELSE IF \E w \in Workers : HoldsKey(w, e) THEN "begun" ELSE "none"

\* The outbox does what Delivery promises: workers that share an event after
\* its lease lapsed, commits in the middle of an event and passes that are cut
\* short make one attempt at a time, of an event that was emitted, and none
\* after a record.
Promise == INSTANCE Delivery WITH
    announced <- {e \in Events : status[e] # "ABSENT"},
    attempt   <- [e \in Events |-> AttemptFor(e)],
    recorded  <- {e \in Events : comm[e] # "none"},
    calls     <- sends

DeliversAsPromised == Promise!Spec

Settled(e) == status[e] \in {"PROCESSED", "FAILED"}

\* An event whose handler can succeed is settled, marked PROCESSED or FAILED,
\* whatever passes were cut short on the way, by it or by an event that
\* cannot: what they claimed comes back when its lease lapses.  That is the
\* at-least-once delivery outbox/models.py speaks of.  The code keeps it for
\* batches of one only: in a larger batch the pass ends at the raising event,
\* the leases of the others lapse with its own, the reclaim gives them all one
\* available_at, and the next claim may put that event first again.
EventuallySettled ==
    \A e \in Events \ Poison : status[e] = "PENDING" ~> Settled(e)
=============================================================================
