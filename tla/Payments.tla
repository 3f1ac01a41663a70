------------------------------ MODULE Payments ------------------------------
(***************************************************************************)
(* Payments of one invoice: the requests that pay and refund, the Stripe   *)
(* webhooks that reconcile, and the invoice status derived from them.      *)
(*                                                                         *)
(* A request is one READ COMMITTED transaction.  It loads its payment,     *)
(* flushes what it changed (holding the row's lock from then on, and       *)
(* computing the invoice totals as its statements see them), and commits   *)
(* or is rolled back.  The provider is external: it moves money when it is *)
(* asked to, whatever becomes of the transaction that asked, and posts     *)
(* events it may deliver late, in any order and again and again.           *)
(***************************************************************************)
EXTENDS Integers, FiniteSets

CONSTANTS
    Payments,        \* payments, each known by its idempotency key
    Requests,        \* requests handled at the same time
    None,
    Total,           \* invoice.total
    Amounts,         \* amounts a client asks to pay or to refund
    ProviderSide,    \* what happens at the provider of its own accord
    ManualStatuses,  \* statuses a business member sets by hand
    MaxFaults        \* transactions that die before their commit

ASSUME PaymentsAssumption ==
    /\ None \notin Payments
    /\ IsFiniteSet(Payments)
    /\ Total \in Nat
    /\ Amounts \subseteq Nat \ {0}
    /\ IsFiniteSet(Amounts)
    /\ ProviderSide \subseteq {"decline", "cancel", "refund", "update", "dispute"}
    /\ ManualStatuses \subseteq {"unpaid", "partially_paid", "paid", "failed",
                                 "refunded", "partially_refunded", "void"}
    /\ MaxFaults \in Nat

VARIABLES
    row,      \* committed payments: status, refunded_amount, and whether
              \* they carry the reference of the provider's intent
    amount,   \* Payment.amount, and the amount of the provider's intent
    invoice,  \* Invoice.payment_status
    ledger,   \* payment_status of the invoice's ledger entry
    emitted,  \* outbox rows of payments: unique <<event type, payment>>
    events,   \* provider events that left a row in stripe_events
    txn,      \* what each request has in hand
    intent,   \* the provider's PaymentIntent
    moved,    \* money the provider has refunded
    dispute,  \* the provider's dispute
    mail,     \* events the provider has posted; it may deliver each again
    byHand,   \* some status was set by hand
    faults

dbVars == <<row, invoice, ledger, emitted, events>>
providerVars == <<amount, intent, moved, dispute, mail>>
vars == <<dbVars, providerVars, txn, byHand, faults>>

-----------------------------------------------------------------------------
PAYMENT_TRANSITIONS ==
    [pending            |-> {"processing", "failed", "expired", "cancelled"},
     processing         |-> {"succeeded", "failed", "expired", "cancelled"},
     succeeded          |-> {"refunded", "partially_refunded", "disputed"},
     partially_refunded |-> {"refunded", "disputed"},
     disputed           |-> {"refunded", "succeeded"},
     failed             |-> {},
     expired            |-> {},
     cancelled          |-> {},
     refunded           |-> {}]
PaymentStatus == DOMAIN PAYMENT_TRANSITIONS
Valid_NotFromProcessing(s, t) == s # "processing" /\ t \in PAYMENT_TRANSITIONS[s]
Valid(s, t) == t \in PAYMENT_TRANSITIONS[s]

Blank == [status |-> "absent", refunded |-> 0, ref |-> FALSE]
Idle == [step |-> "idle", on |-> "none", p |-> None, sum |-> 0, saw |-> Blank,
         new |-> Blank, inv |-> "unpaid", bill |-> "keep", emit |-> "none"]

Init ==
    /\ row = [p \in Payments |-> Blank]
    /\ amount = [p \in Payments |-> 0]
    /\ invoice = "unpaid"
    /\ ledger = "unpaid"
    /\ emitted = {}
    /\ events = {}
    /\ txn = [r \in Requests |-> Idle]
    /\ intent = [p \in Payments |-> "none"]
    /\ moved = [p \in Payments |-> 0]
    /\ dispute = [p \in Payments |-> "none"]
    /\ mail = {}
    /\ byHand = FALSE
    /\ faults = 0

-----------------------------------------------------------------------------
(* Totals of the invoice, and the status derived from them.                *)

\* A sum of amounts counts their units.
Units(f, S) == UNION {{x} \X (1 .. f[x]) : x \in S}
Sum(f, S) == Cardinality(Units(f, S))

PaidStatuses_InFlight == {"succeeded", "partially_refunded", "processing"}
PaidStatuses == {"succeeded", "partially_refunded"}
SuccessfulTotal(R, A) ==
    Sum(A, {p \in Payments : R[p].status \in PaidStatuses})

RefundedTotal(R) ==
    Sum([p \in Payments |-> R[p].refunded],
        {p \in Payments : R[p].status \in {"succeeded", "partially_refunded", "refunded"}})

NetPaid(R, A) == SuccessfulTotal(R, A) - RefundedTotal(R)
Outstanding == Total - NetPaid(row, amount)

Derived(R, A) ==
    IF RefundedTotal(R) > 0
    THEN IF RefundedTotal(R) >= Total THEN "refunded" ELSE "partially_refunded"
    ELSE IF NetPaid(R, A) <= 0 THEN "unpaid"
    ELSE IF NetPaid(R, A) < Total THEN "partially_paid" ELSE "paid"

-----------------------------------------------------------------------------
(* What a request does to the database.                                    *)

\* Another request has flushed the payment: its row lock is held.
Locked(p, r) == \E s \in Requests \ {r} : txn[s].step = "flushed" /\ txn[s].p = p

\* The request of t holds new as the row of its payment: its UPDATE sets
\* the columns it assigned and leaves the others as they are now.  inv is
\* the invoice status it loaded.  billed tells whether the handler calls
\* _update_invoice_payment_status, which leaves a void invoice alone.
Flushed(t, new, emit, billed, inv, A) ==
    [t EXCEPT !.step = "flushed", !.new = new, !.emit = emit, !.inv = inv,
              !.bill = IF billed /\ inv # "void"
                       THEN Derived([row EXCEPT ![t.p] = new], A) ELSE "keep"]

Write(r, new, emit, billed) ==
    LET t == txn[r] IN
    /\ ~Locked(t.p, r)
    /\ txn' = [txn EXCEPT ![r] = Flushed(t, new, emit, billed, invoice, amount)]

\* The handler returns, or the request fails, with nothing to commit.
Drop(r) == txn' = [txn EXCEPT ![r] = Idle]

\* The end of the request.  An event type the payment has emitted before
\* violates the outbox's unique key, and everything is rolled back.  An
\* invoice status equal to the one loaded is not in an UPDATE.
Commit(r) ==
    LET t == txn[r] IN
    /\ t.step = "flushed"
    /\ Drop(r)
    /\ IF <<t.emit, t.p>> \in emitted
       THEN UNCHANGED dbVars
       ELSE /\ row' = [row EXCEPT ![t.p] = t.new]
            /\ invoice' = IF t.bill \in {"keep", t.inv} THEN invoice ELSE t.bill
            /\ ledger' = IF t.bill = "keep" THEN ledger ELSE t.bill
            /\ emitted' = IF t.emit = "none" THEN emitted ELSE emitted \cup {<<t.emit, t.p>>}
            /\ UNCHANGED events
    /\ UNCHANGED <<providerVars, byHand, faults>>

\* The process stops, or the connection is lost: PostgreSQL rolls back.
Abort(r) ==
    /\ txn[r].step # "idle"
    /\ faults < MaxFaults
    /\ faults' = faults + 1
    /\ Drop(r)
    /\ UNCHANGED <<dbVars, providerVars, byHand>>

-----------------------------------------------------------------------------
(* What the provider's adapter says.                                       *)

EventTypes == {"succeeded", "payment_failed", "canceled", "refunded",
               "dispute.created", "dispute.won", "dispute.lost"}

\* parse_webhook_event: what is kept of an event, the payment its object
\* belongs to and the charge's cumulative amount_refunded.  A dispute
\* names its payment when its charge comes expanded.
WebhookEvent(on, p, sum) == [on |-> on, p |-> p, sum |-> sum]

\* initiate_payment: the provider may refuse, open an intent the customer
\* has still to confirm (Stripe), or capture at once (the stub).  A key it
\* has seen in a request that was rolled back comes with another
\* payment_id: it refuses.
InitiatePayment(p) ==
    {"refused"} \cup IF intent[p] = "none" THEN {"open", "captured"} ELSE {}

-----------------------------------------------------------------------------
(* Paying: create_payment and process_payment in one request.              *)

\* A committed payment with this key is returned as it is; a concurrent one
\* makes the insert of the key wait for it.
CreatePayment(r, p, a) ==
    /\ txn[r].step = "idle"
    /\ row[p].status = "absent"
    /\ \A s \in Requests : ~(txn[s].on = "pay" /\ txn[s].p = p)
    /\ a <= Outstanding
    /\ txn' = [txn EXCEPT ![r] = [Idle EXCEPT
          !.step = "loaded", !.on = "pay", !.p = p, !.sum = a, !.inv = invoice,
          !.saw = [status |-> "processing", refunded |-> 0, ref |-> FALSE]]]
    /\ UNCHANGED <<dbVars, providerVars, byHand, faults>>

\* The invoice was loaded by create_payment and is not loaded again.
SettledStatus_Eager == [refused |-> "failed", open |-> "succeeded", captured |-> "succeeded"]
SettledStatus == [refused |-> "failed", open |-> "processing", captured |-> "succeeded"]
SettledEvent ==
    [failed |-> "PAYMENT_FAILED", processing |-> "none", succeeded |-> "PAYMENT_SUCCEEDED"]

ProcessPayment(r) ==
    LET t == txn[r] IN
    /\ t.step = "loaded" /\ t.on = "pay"
    /\ \E answer \in InitiatePayment(t.p) :
        /\ LET s == SettledStatus[answer]
               new == [status |-> s, refunded |-> 0, ref |-> answer # "refused"]
               A == IF answer = "refused" THEN amount ELSE [amount EXCEPT ![t.p] = t.sum]
           IN /\ txn' = [txn EXCEPT ![r] =
                    Flushed(t, new, SettledEvent[s], s = "succeeded", t.inv, A)]
              /\ amount' = A
        /\ intent' = IF answer = "refused" THEN intent ELSE [intent EXCEPT ![t.p] = answer]
        /\ mail' = IF answer = "captured"
                   THEN mail \cup {WebhookEvent("succeeded", t.p, 0)} ELSE mail
    /\ UNCHANGED <<dbVars, moved, dispute, byHand, faults>>

-----------------------------------------------------------------------------
(* Refunding: refund_payment.                                              *)

Refundable == {"succeeded", "partially_refunded"}
RefundStatus(total, p) == IF total >= amount[p] THEN "refunded" ELSE "partially_refunded"

StartRefund(r, p, a) ==
    /\ txn[r].step = "idle"
    /\ row[p].status \in Refundable
    /\ a <= amount[p] - row[p].refunded
    /\ txn' = [txn EXCEPT ![r] = [Idle EXCEPT
          !.step = "loaded", !.on = "refund", !.p = p, !.sum = a, !.saw = row[p]]]
    /\ UNCHANGED <<dbVars, providerVars, byHand, faults>>

\* What the provider does for any refund: move the money and post the
\* charge with its cumulative amount_refunded.
Refund(p, a) ==
    /\ intent[p] = "captured"
    /\ dispute[p] \notin {"open", "lost"}
    /\ moved[p] + a <= amount[p]
    /\ moved' = [moved EXCEPT ![p] = @ + a]
    /\ mail' = mail \cup {WebhookEvent("refunded", p, moved[p] + a)}

\* The adapter's refund: an error of the provider's becomes a failure.
ProviderRefund(t, ok) == IF ok THEN Refund(t.p, t.sum) ELSE UNCHANGED <<moved, mail>>

AskRefund(r) ==
    LET t == txn[r] IN
    /\ t.step = "loaded" /\ t.on = "refund"
    /\ \E ok \in BOOLEAN :
        /\ ProviderRefund(t, ok)
        /\ IF ok THEN txn' = [txn EXCEPT ![r].step = "asked"] ELSE Drop(r)
    /\ UNCHANGED <<dbVars, amount, intent, dispute, byHand, faults>>

\* The transition is validated after the money has moved: from
\* partially_refunded to itself is no transition, and the request fails.
RecordRefund(r) ==
    LET t == txn[r]
        total == t.saw.refunded + t.sum
        s == RefundStatus(total, t.p)
    IN  /\ t.step = "asked"
        /\ IF Valid(t.saw.status, s)
           THEN Write(r, [row[t.p] EXCEPT !.status = s, !.refunded = total], "PAYMENT_REFUNDED", TRUE)
           ELSE Drop(r)
        /\ UNCHANGED <<dbVars, providerVars, byHand, faults>>

-----------------------------------------------------------------------------
(* Reconciling: a delivery of a provider event.                            *)

\* The payment an event names by its reference or its metadata is there.
Known(p) == row[p].status # "absent" /\ row[p].ref

Receive(r, m) ==
    /\ txn[r].step = "idle"
    /\ m \notin events
    /\ Known(m.p)
    /\ txn' = [txn EXCEPT ![r] = [Idle EXCEPT
          !.step = "loaded", !.on = m.on, !.p = m.p, !.sum = m.sum, !.saw = row[m.p]]]
    /\ UNCHANGED <<dbVars, providerVars, byHand, faults>>

\* Only an event whose payment is unknown leaves a row in stripe_events:
\* every later delivery of it is then a duplicate.
ReceiveUnknown(m) ==
    /\ m \notin events
    /\ ~Known(m.p)
    /\ events' = events \cup {m}
    /\ UNCHANGED <<row, invoice, ledger, emitted, providerVars, txn, byHand, faults>>

Handles(r, on) ==
    /\ txn[r].step = "loaded"
    /\ txn[r].on = on
    /\ UNCHANGED <<dbVars, providerVars, byHand, faults>>

\* A payment already in status s has no transition to s: redelivery of what
\* was applied ends here.
Move(r, s, emit, billed) ==
    IF Valid(txn[r].saw.status, s)
    THEN Write(r, [row[txn[r].p] EXCEPT !.status = s], emit, billed)
    ELSE Drop(r)

OnSucceeded(r) == Handles(r, "succeeded") /\ Move(r, "succeeded", "PAYMENT_SUCCEEDED", TRUE)
OnFailed(r) == Handles(r, "payment_failed") /\ Move(r, "failed", "PAYMENT_FAILED", FALSE)
OnCanceled(r) == Handles(r, "canceled") /\ Move(r, "cancelled", "none", FALSE)

\* refunded_amount is overwritten with what the event says before the
\* transition is validated, and stays so when it is not.  A Refund object
\* (charge.refund.updated) has no amount_refunded: it says 0.
OnRefunded_Adds(r) ==
    LET t == txn[r] IN
    /\ Handles(r, "refunded")
    /\ IF t.saw.status \in Refundable
       THEN Write(r, [row[t.p] EXCEPT !.refunded = t.saw.refunded + t.sum], "none", FALSE)
       ELSE Drop(r)
OnRefunded(r) ==
    LET t == txn[r]
        s == RefundStatus(t.sum, t.p)
    IN  /\ Handles(r, "refunded")
        /\ IF t.saw.status \notin Refundable THEN Drop(r)
           ELSE IF Valid(t.saw.status, s)
           THEN Write(r, [row[t.p] EXCEPT !.status = s, !.refunded = t.sum], "PAYMENT_REFUNDED", TRUE)
           ELSE Write(r, [row[t.p] EXCEPT !.refunded = t.sum], "none", FALSE)

OnDisputeCreated(r) ==
    Handles(r, "dispute.created") /\ Move(r, "disputed", "PAYMENT_DISPUTED", TRUE)

OnDisputeClosed(r, on, s) ==
    /\ Handles(r, on)
    /\ IF txn[r].saw.status = "disputed" THEN Move(r, s, "none", TRUE) ELSE Drop(r)

Handle(r) ==
    \/ OnSucceeded(r) \/ OnFailed(r) \/ OnCanceled(r) \/ OnRefunded(r)
    \/ OnDisputeCreated(r)
    \/ OnDisputeClosed(r, "dispute.lost", "refunded")
    \/ OnDisputeClosed(r, "dispute.won", "succeeded")

-----------------------------------------------------------------------------
(* The provider and the business member.                                   *)

Post(on, p) == mail' = mail \cup {WebhookEvent(on, p, 0)}

Confirm(p) ==
    /\ intent[p] = "open"
    /\ intent' = [intent EXCEPT ![p] = "captured"]
    /\ Post("succeeded", p)
    /\ UNCHANGED <<dbVars, amount, moved, dispute, txn, byHand, faults>>

\* A declined card leaves the intent open for another attempt.
Decline(p) ==
    /\ "decline" \in ProviderSide
    /\ intent[p] = "open"
    /\ Post("payment_failed", p)
    /\ UNCHANGED <<dbVars, amount, intent, moved, dispute, txn, byHand, faults>>

CancelIntent(p) ==
    /\ "cancel" \in ProviderSide
    /\ intent[p] = "open"
    /\ intent' = [intent EXCEPT ![p] = "canceled"]
    /\ Post("canceled", p)
    /\ UNCHANGED <<dbVars, amount, moved, dispute, txn, byHand, faults>>

RefundAtProvider(p, a) ==
    /\ "refund" \in ProviderSide
    /\ Refund(p, a)
    /\ UNCHANGED <<dbVars, amount, intent, dispute, txn, byHand, faults>>

UpdateRefund(p) ==
    /\ "update" \in ProviderSide
    /\ moved[p] > 0
    /\ Post("refunded", p)
    /\ UNCHANGED <<dbVars, amount, intent, moved, dispute, txn, byHand, faults>>

OpenDispute(p) ==
    /\ "dispute" \in ProviderSide
    /\ intent[p] = "captured"
    /\ dispute[p] = "none"
    /\ dispute' = [dispute EXCEPT ![p] = "open"]
    /\ Post("dispute.created", p)
    /\ UNCHANGED <<dbVars, amount, intent, moved, txn, byHand, faults>>

CloseDispute(p) ==
    /\ dispute[p] = "open"
    /\ \E o \in {"won", "lost"} :
        /\ dispute' = [dispute EXCEPT ![p] = o]
        /\ Post(IF o = "won" THEN "dispute.won" ELSE "dispute.lost", p)
    /\ UNCHANGED <<dbVars, amount, intent, moved, txn, byHand, faults>>

\* update_payment_status: any status, and the ledger is not told.
SetByHand(s) ==
    /\ invoice # "void"
    /\ invoice' = s
    /\ byHand' = TRUE
    /\ UNCHANGED <<row, ledger, emitted, events, providerVars, txn, faults>>

Provider(p) ==
    \/ Confirm(p) \/ Decline(p) \/ CancelIntent(p) \/ UpdateRefund(p)
    \/ OpenDispute(p) \/ CloseDispute(p)
    \/ \E a \in Amounts : RefundAtProvider(p, a)

Work(r) ==
    Commit(r) \/ Handle(r) \/ ProcessPayment(r) \/ AskRefund(r) \/ RecordRefund(r)

Next ==
    \/ \E r \in Requests : Work(r) \/ Abort(r)
    \/ \E r \in Requests, p \in Payments, a \in Amounts :
        CreatePayment(r, p, a) \/ StartRefund(r, p, a)
    \/ \E m \in mail : ReceiveUnknown(m) \/ \E r \in Requests : Receive(r, m)
    \/ \E p \in Payments : Provider(p)
    \/ \E s \in ManualStatuses : SetByHand(s)

Spec == Init /\ [][Next]_vars

\* payment_webhook, called with one of the provider's events.
Delivered(m) == m \in mail /\ (ReceiveUnknown(m) \/ \E r \in Requests : Receive(r, m))

\* A request that runs goes on to its end, and the provider delivers an
\* event again and again until one of its deliveries was acknowledged.
\* Only the captures are needed.  Clients, cards and faults owe nothing.
Mail == [on : {"succeeded"}, p : Payments, sum : {0}]
Fairness ==
    /\ \A r \in Requests : WF_vars(Work(r))
    /\ \A m \in Mail : SF_vars(Delivered(m))
FairSpec == Spec /\ Fairness

-----------------------------------------------------------------------------
(* Properties                                                              *)

InvoiceStatuses == {"unpaid", "partially_paid", "paid", "failed", "refunded",
                    "partially_refunded", "void"}
RowType == [status : PaymentStatus \cup {"absent"}, refunded : Nat, ref : BOOLEAN]
EventKinds == {"PAYMENT_SUCCEEDED", "PAYMENT_FAILED", "PAYMENT_REFUNDED", "PAYMENT_DISPUTED"}
TxnType == [step : {"idle", "loaded", "asked", "flushed"},
            on : EventTypes \cup {"none", "pay", "refund"},
            p : Payments \cup {None}, sum : Nat, saw : RowType, new : RowType,
            inv : InvoiceStatuses, bill : InvoiceStatuses \cup {"keep"},
            emit : EventKinds \cup {"none"}]

DbType ==
    /\ row \in [Payments -> RowType]
    /\ invoice \in InvoiceStatuses
    /\ ledger \in InvoiceStatuses
    /\ emitted \subseteq EventKinds \X Payments
    /\ events \subseteq mail
    /\ byHand \in BOOLEAN
    /\ faults \in 0..MaxFaults

ProviderType ==
    /\ amount \in [Payments -> Nat]
    /\ intent \in [Payments -> {"none", "open", "captured", "canceled"}]
    /\ moved \in [Payments -> Nat]
    /\ dispute \in [Payments -> {"none", "open", "won", "lost"}]
    /\ mail \subseteq [on : EventTypes, p : Payments, sum : Nat]

\* Each variable has its type, and a request that is not idle has a payment
\* in hand.
TypeOK ==
    /\ DbType
    /\ ProviderType
    /\ txn \in [Requests -> TxnType]
    /\ \A r \in Requests : txn[r].step # "idle" => txn[r].p \in Payments

Credited == {"succeeded", "partially_refunded", "refunded", "disputed"}

\* A payment counts as paid only when the provider captured its money and
\* the payment carries the reference to it, whichever events came late,
\* twice, out of order or at the same time.
CreditIsCaptured ==
    \A p \in Payments :
        row[p].status \in Credited => intent[p] = "captured" /\ row[p].ref

\* The customer's receipt is queued in the transaction that credits the
\* payment: no crash and no rollback leaves one without the other.
CreditIsAnnounced ==
    \A p \in Payments :
        row[p].status \in Credited => <<"PAYMENT_SUCCEEDED", p>> \in emitted

\* refunded_amount never claims more than the provider gave back, nor that
\* more than was paid, though refunds come from requests and from webhooks
\* that report cumulative sums in any order.
RefundIsBacked ==
    \A p \in Payments : row[p].refunded <= moved[p] /\ moved[p] <= amount[p]

\* An invoice that nobody set by hand says paid only when the provider
\* captured at least its total.
PaidIsCovered ==
    (invoice = "paid" /\ ~byHand) =>
        Total <= Sum(amount, {p \in Payments : intent[p] = "captured"})

\* A payment whose money is captured does not stay in processing, unless
\* its event came before the payment was committed.
CapturedAt(p) == intent[p] = "captured" /\ Known(p)
SuccessEvent(p) == WebhookEvent("succeeded", p, 0)
CaptureSettles ==
    \A p \in Payments :
        CapturedAt(p) ~> (row[p].status # "processing" \/ SuccessEvent(p) \in events)
=============================================================================
