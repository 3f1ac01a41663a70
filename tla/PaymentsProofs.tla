--------------------------- MODULE PaymentsProofs ---------------------------
(***************************************************************************)
(* Proofs about Payments, for every set of payments and of requests, every *)
(* invoice total, and whatever the provider does of its own accord.        *)
(*                                                                         *)
(* A request acts on what it saw of its payment when it loaded it, which   *)
(* other requests may have changed since.  The inductive invariant says    *)
(* what stays true of that snapshot: what was captured stays captured,     *)
(* what was announced stays announced, what was moved is not taken back.   *)
(***************************************************************************)
EXTENDS Payments, FiniteSetTheorems, TLAPS

Announced(p) == <<"PAYMENT_SUCCEEDED", p>> \in emitted
Captured(p) == intent[p] = "captured"

\* A committed payment.
RowInv(p) ==
    /\ row[p].status \in Credited => Captured(p) /\ row[p].ref /\ Announced(p)
    /\ row[p].ref => row[p].status # "absent"
    /\ row[p].refunded <= moved[p]
    /\ moved[p] <= amount[p]
    /\ intent[p] = "none" => moved[p] = 0

\* What a request that has loaded its payment knows of it.
SawInv(t) ==
    /\ t.saw.status # "absent"
    /\ t.saw.status \in Credited => Captured(t.p) /\ Announced(t.p)
    /\ t.saw.refunded <= moved[t.p]
    /\ t.on = "succeeded" => Captured(t.p)
    /\ t.on = "refunded" => t.sum <= moved[t.p]
    /\ t.step = "asked" => t.on = "refund" /\ t.saw.refunded + t.sum <= moved[t.p]
    /\ t.on = "pay" => row[t.p].status = "absent"
    /\ t.on # "pay" => row[t.p].ref

\* What a request is about to commit.
NewInv(t) ==
    /\ t.new.status # "absent"
    /\ t.on # "pay" => t.new.ref
    /\ t.new.refunded <= moved[t.p]
    /\ t.new.status \in Credited =>
          /\ Captured(t.p)
          /\ t.new.ref
          /\ t.emit = "PAYMENT_SUCCEEDED" \/ Announced(t.p)

TxnInv(t) ==
    /\ t.step # "idle" => SawInv(t)
    /\ t.step = "flushed" => NewInv(t)

OnePayer ==
    \A r, s \in Requests :
        (/\ txn[r].step # "idle" /\ txn[s].step # "idle"
         /\ txn[r].on = "pay" /\ txn[s].on = "pay"
         /\ txn[r].p = txn[s].p) => r = s

MailInv ==
    \A m \in mail :
        /\ m.on = "succeeded" => Captured(m.p)
        /\ m.on = "refunded" => m.sum <= moved[m.p]

IInv ==
    /\ TypeOK
    /\ \A p \in Payments : RowInv(p)
    /\ \A r \in Requests : TxnInv(txn[r])
    /\ OnePayer
    /\ MailInv

-----------------------------------------------------------------------------
LEMMA DerivedType ==
    ASSUME NEW R, NEW A
    PROVE  Derived(R, A) \in InvoiceStatuses
  BY DEF Derived, InvoiceStatuses

LEMMA StatusType ==
    PaymentStatus = {"pending", "processing", "succeeded", "partially_refunded",
                     "disputed", "failed", "expired", "cancelled", "refunded"}
  BY DEF PaymentStatus, PAYMENT_TRANSITIONS

LEMMA BlankType == Blank \in RowType
  BY DEF Blank, RowType

LEMMA IdleType == Idle \in TxnType
  BY BlankType DEF Idle, TxnType, InvoiceStatuses

LEMMA FlushedType ==
    ASSUME NEW t \in TxnType, NEW new \in RowType, NEW emit \in EventKinds \cup {"none"},
           NEW billed \in BOOLEAN, NEW inv \in InvoiceStatuses, NEW A
    PROVE  LET f == Flushed(t, new, emit, billed, inv, A) IN
           /\ f \in TxnType
           /\ f.step = "flushed"
           /\ f.new = new
           /\ f.emit = emit
           /\ f.p = t.p
           /\ f.on = t.on
           /\ f.sum = t.sum
           /\ f.saw = t.saw
  <1> DEFINE b == IF billed /\ inv # "void"
                  THEN Derived([row EXCEPT ![t.p] = new], A) ELSE "keep"
  <1>1. b \in InvoiceStatuses \cup {"keep"}
    BY DerivedType
  <1>2. Flushed(t, new, emit, billed, inv, A) =
          [t EXCEPT !.step = "flushed", !.new = new, !.emit = emit, !.inv = inv, !.bill = b]
    BY DEF Flushed
  <1> HIDE DEF b
  <1> QED
    BY <1>1, <1>2 DEF TxnType

-----------------------------------------------------------------------------
LEMMA InitIInv == Init => IInv
  <1> SUFFICES ASSUME Init PROVE IInv
    OBVIOUS
  <1>1. TypeOK
    <2>1. DbType
      <3>1. row \in [Payments -> RowType]
        BY BlankType DEF Init
      <3>2. faults \in 0..MaxFaults
        BY PaymentsAssumption DEF Init
      <3> QED
        BY <3>1, <3>2 DEF Init, DbType, InvoiceStatuses
    <2>2. ProviderType
      BY DEF Init, ProviderType
    <2>3. txn \in [Requests -> TxnType] /\ \A r \in Requests : txn[r].step = "idle"
      BY IdleType DEF Init, Idle
    <2> QED
      BY <2>1, <2>2, <2>3 DEF TypeOK
  <1>2. \A p \in Payments : RowInv(p)
    BY DEF Init, RowInv, Blank, Credited
  <1>3. \A r \in Requests : TxnInv(txn[r])
    BY DEF Init, TxnInv, Idle
  <1>4. OnePayer
    BY DEF Init, OnePayer, Idle
  <1>5. MailInv
    BY DEF Init, MailInv
  <1> QED
    BY <1>1, <1>2, <1>3, <1>4, <1>5 DEF IInv

-----------------------------------------------------------------------------
(* Steps of a request.                                                     *)

\* A rollback, or a handler that returns with nothing to commit.
LEMMA DropStep ==
    ASSUME IInv, NEW r \in Requests, Drop(r), faults' \in 0..MaxFaults,
           UNCHANGED <<dbVars, providerVars, byHand>>
    PROVE  IInv'
  <1> USE DEF dbVars, providerVars
  <1>1. /\ txn' \in [Requests -> TxnType]
        /\ txn'[r] = Idle
        /\ \A s \in Requests \ {r} : txn'[s] = txn[s]
    BY IdleType DEF IInv, TypeOK, Drop
  <1>2. txn'[r].step = "idle"
    BY <1>1 DEF Idle
  <1>3. TypeOK'
    BY <1>1, <1>2 DEF IInv, TypeOK, DbType, ProviderType
  <1>4. \A p \in Payments : RowInv(p)'
    BY DEF IInv, RowInv, Captured, Announced
  <1>5. \A s \in Requests : TxnInv(txn[s])'
    BY <1>1, <1>2 DEF IInv, TxnInv, SawInv, NewInv, Captured, Announced
  <1>6. OnePayer'
    BY <1>1, <1>2 DEF IInv, OnePayer
  <1>7. MailInv'
    BY DEF IInv, MailInv, Captured
  <1> QED
    BY <1>3, <1>4, <1>5, <1>6, <1>7 DEF IInv

\* A request that takes up a payment, and what it has to know of it.
LEMMA LoadStep ==
    ASSUME IInv, NEW r \in Requests, NEW t \in TxnType, txn' = [txn EXCEPT ![r] = t],
           t.step = "loaded", t.p \in Payments, SawInv(t),
           t.on = "pay" => \A s \in Requests : ~(txn[s].on = "pay" /\ txn[s].p = t.p),
           UNCHANGED <<dbVars, providerVars, byHand, faults>>
    PROVE  IInv'
  <1> USE DEF dbVars, providerVars
  <1>1. /\ txn' \in [Requests -> TxnType]
        /\ txn'[r] = t
        /\ \A s \in Requests \ {r} : txn'[s] = txn[s]
    BY DEF IInv, TypeOK
  <1>2. TypeOK'
    BY <1>1 DEF IInv, TypeOK, DbType, ProviderType
  <1>3. \A p \in Payments : RowInv(p)'
    BY DEF IInv, RowInv, Captured, Announced
  <1>4. \A s \in Requests : TxnInv(txn[s])'
    BY <1>1 DEF IInv, TxnInv, SawInv, NewInv, Captured, Announced
  <1>5. OnePayer'
    BY <1>1 DEF IInv, OnePayer
  <1>6. MailInv'
    BY DEF IInv, MailInv, Captured
  <1> QED
    BY <1>2, <1>3, <1>4, <1>5, <1>6 DEF IInv

\* A flush by a request that loaded a committed payment.
LEMMA WriteStep ==
    ASSUME IInv, NEW r \in Requests, NEW new \in RowType,
           NEW emit \in EventKinds \cup {"none"}, NEW billed \in BOOLEAN,
           txn[r].step \in {"loaded", "asked"}, txn[r].on # "pay",
           Write(r, new, emit, billed),
           new.status # "absent",
           new.ref = row[txn[r].p].ref,
           new.refunded <= moved[txn[r].p],
           new.status \in Credited =>
              Captured(txn[r].p) /\ (emit = "PAYMENT_SUCCEEDED" \/ Announced(txn[r].p)),
           UNCHANGED <<dbVars, providerVars, byHand, faults>>
    PROVE  IInv'
  <1> USE DEF dbVars, providerVars
  <1> DEFINE t == txn[r]
             f == Flushed(t, new, emit, billed, invoice, amount)
  <1>1. t \in TxnType /\ t.p \in Payments /\ invoice \in InvoiceStatuses
    BY DEF IInv, TypeOK, DbType
  <1>2. /\ f \in TxnType /\ f.step = "flushed" /\ f.new = new /\ f.emit = emit
        /\ f.p = t.p /\ f.on = t.on /\ f.sum = t.sum /\ f.saw = t.saw
    BY <1>1, FlushedType
  <1>3. txn' = [txn EXCEPT ![r] = f]
    BY DEF Write
  <1> HIDE DEF f
  <1>4. /\ txn' \in [Requests -> TxnType]
        /\ txn'[r] = f
        /\ \A s \in Requests \ {r} : txn'[s] = txn[s]
    BY <1>2, <1>3 DEF IInv, TypeOK
  <1>5. TypeOK'
    BY <1>1, <1>2, <1>4 DEF IInv, TypeOK, DbType, ProviderType
  <1>6. \A p \in Payments : RowInv(p)'
    BY DEF IInv, RowInv, Captured, Announced
  <1>7. SawInv(f)
    BY <1>2 DEF IInv, TxnInv, SawInv
  <1>8. NewInv(f)
    BY <1>2, <1>7 DEF NewInv, SawInv
  <1>9. \A s \in Requests : TxnInv(txn[s])'
    BY <1>4, <1>7, <1>8 DEF IInv, TxnInv, SawInv, NewInv, Captured, Announced
  <1>10. OnePayer'
    BY <1>2, <1>4 DEF IInv, OnePayer
  <1>11. MailInv'
    BY DEF IInv, MailInv, Captured
  <1> QED
    BY <1>5, <1>6, <1>9, <1>10, <1>11 DEF IInv

\* Whatever the request flushed is what its payment's row becomes.
LEMMA CommitStep ==
    ASSUME IInv, NEW r \in Requests, Commit(r)
    PROVE  IInv'
  <1> DEFINE t == txn[r]
  <1> USE DEF dbVars, providerVars
  <1>0. faults' \in 0..MaxFaults /\ Drop(r) /\ t.step = "flushed"
    BY DEF Commit, IInv, TypeOK, DbType
  <1>1. CASE <<t.emit, t.p>> \in emitted
    BY <1>0, <1>1, DropStep DEF Commit
  <1>2. CASE <<t.emit, t.p>> \notin emitted
    <2>1. /\ row' = [row EXCEPT ![t.p] = t.new]
          /\ invoice' \in InvoiceStatuses
          /\ ledger' \in InvoiceStatuses
          /\ emitted' = IF t.emit = "none" THEN emitted ELSE emitted \cup {<<t.emit, t.p>>}
          /\ UNCHANGED <<events, providerVars, byHand, faults>>
      BY <1>0, <1>2 DEF Commit, IInv, TypeOK, DbType, TxnType
    <2>2. t \in TxnType /\ t.p \in Payments /\ SawInv(t) /\ NewInv(t)
      BY <1>0 DEF IInv, TypeOK, TxnInv
    <2>3. /\ txn' \in [Requests -> TxnType]
          /\ txn'[r] = Idle
          /\ \A s \in Requests \ {r} : txn'[s] = txn[s]
      BY <1>0, IdleType DEF IInv, TypeOK, Drop
    <2>4. txn'[r].step = "idle"
      BY <2>3 DEF Idle
    <2>5. /\ row' \in [Payments -> RowType]
          /\ row'[t.p] = t.new
          /\ \A q \in Payments \ {t.p} : row'[q] = row[q]
      BY <2>1, <2>2 DEF IInv, TypeOK, DbType, TxnType
    <2>6. emitted' \subseteq EventKinds \X Payments /\ emitted \subseteq emitted'
      BY <2>1, <2>2 DEF IInv, TypeOK, DbType, TxnType
    <2>7. TypeOK'
      <3>1. DbType'
        BY <2>1, <2>5, <2>6 DEF IInv, TypeOK, DbType
      <3>2. ProviderType'
        BY <2>1 DEF IInv, TypeOK, ProviderType
      <3>3. \A s \in Requests : txn'[s].step # "idle" => txn'[s].p \in Payments
        BY <2>3, <2>4 DEF IInv, TypeOK
      <3> QED
        BY <3>1, <3>2, <3>3, <2>3 DEF TypeOK
    <2>8. ASSUME NEW p \in Payments PROVE RowInv(p)'
      <3>1. CASE p = t.p
        <4>1. t.new.status \in Credited => Announced(p)'
          BY <2>1, <2>2, <3>1, <2>6 DEF NewInv, Announced
        <4>2. moved[p] <= amount[p] /\ (intent[p] = "none" => moved[p] = 0)
          BY DEF IInv, RowInv
        <4> QED
          BY <2>1, <2>2, <2>5, <3>1, <4>1, <4>2 DEF RowInv, NewInv, Captured
      <3>2. CASE p # t.p
        BY <2>1, <2>5, <2>6, <3>2 DEF IInv, RowInv, Captured, Announced
      <3> QED
        BY <3>1, <3>2
    <2>9. ASSUME NEW s \in Requests PROVE TxnInv(txn[s])'
      <3>1. CASE s = r \/ txn[s].step = "idle"
        BY <2>3, <2>4, <3>1 DEF TxnInv
      <3>2. CASE s # r /\ txn[s].step # "idle"
        <4> DEFINE u == txn[s]
        <4>1. txn'[s] = u /\ u \in TxnType /\ u.p \in Payments /\ TxnInv(u) /\ SawInv(u)
          BY <2>3, <3>2 DEF IInv, TypeOK, TxnInv
        <4>2. /\ Captured(u.p) => Captured(u.p)'
              /\ Announced(u.p) => Announced(u.p)'
          BY <2>1, <2>6, <4>1 DEF Captured, Announced
        <4>3. u.on = "pay" => row'[u.p].status = "absent"
          <5>1. CASE u.p # t.p
            BY <2>5, <4>1, <5>1 DEF SawInv
          <5>2. CASE u.p = t.p
            <6>1. u.on = "pay" => t.on = "pay"
              BY <4>1, <2>2, <5>2 DEF SawInv, IInv, RowInv
            <6>2. ~(u.on = "pay" /\ t.on = "pay")
              BY <1>0, <3>2, <5>2 DEF IInv, OnePayer
            <6> QED
              BY <6>1, <6>2
          <5> QED
            BY <5>1, <5>2
        <4>4. u.on # "pay" => row'[u.p].ref
          <5>1. CASE u.p # t.p
            BY <2>5, <4>1, <5>1 DEF SawInv
          <5>2. CASE u.p = t.p
            <6>1. u.on # "pay" => t.on # "pay"
              BY <4>1, <2>2, <5>2 DEF SawInv, IInv, RowInv
            <6> QED
              BY <6>1, <2>2, <2>5, <5>2 DEF NewInv
          <5> QED
            BY <5>1, <5>2
        <4>5. SawInv(u)'
          BY <2>1, <4>1, <4>2, <4>3, <4>4 DEF SawInv, Captured
        <4>6. u.step = "flushed" => NewInv(u)'
          BY <2>1, <4>1, <4>2 DEF NewInv, TxnInv, Captured
        <4> QED
          BY <4>1, <4>5, <4>6 DEF TxnInv
      <3> QED
        BY <3>1, <3>2
    <2>10. OnePayer'
      BY <2>3, <2>4 DEF IInv, OnePayer
    <2>11. MailInv'
      BY <2>1 DEF IInv, MailInv, Captured
    <2> QED
      BY <2>7, <2>8, <2>9, <2>10, <2>11 DEF IInv
  <1> QED
    BY <1>1, <1>2

LEMMA CreatePaymentStep ==
    ASSUME IInv, NEW r \in Requests, NEW p \in Payments, NEW a \in Amounts,
           CreatePayment(r, p, a)
    PROVE  IInv'
  <1> DEFINE t == [Idle EXCEPT
          !.step = "loaded", !.on = "pay", !.p = p, !.sum = a, !.inv = invoice,
          !.saw = [status |-> "processing", refunded |-> 0, ref |-> FALSE]]
  <1>0. [status |-> "processing", refunded |-> 0, ref |-> FALSE] \in RowType
    BY StatusType DEF RowType
  <1>1. t \in TxnType
    BY <1>0, IdleType, PaymentsAssumption DEF IInv, TypeOK, DbType, TxnType
  <1>2. /\ t.step = "loaded" /\ t.p = p /\ t.on = "pay"
        /\ t.saw.status = "processing" /\ t.saw.refunded = 0
    BY IdleType DEF TxnType
  <1> HIDE DEF t
  <1>3. SawInv(t)
    BY <1>2 DEF SawInv, CreatePayment, Credited, IInv, TypeOK, ProviderType
  <1>4. txn' = [txn EXCEPT ![r] = t]
    BY DEF CreatePayment, t
  <1> QED
    BY <1>1, <1>2, <1>3, <1>4, LoadStep DEF CreatePayment

LEMMA StartRefundStep ==
    ASSUME IInv, NEW r \in Requests, NEW p \in Payments, NEW a \in Amounts,
           StartRefund(r, p, a)
    PROVE  IInv'
  <1> DEFINE t == [Idle EXCEPT
          !.step = "loaded", !.on = "refund", !.p = p, !.sum = a, !.saw = row[p]]
  <1>1. t \in TxnType
    BY IdleType, PaymentsAssumption DEF IInv, TypeOK, DbType, TxnType
  <1>2. t.step = "loaded" /\ t.p = p /\ t.on = "refund" /\ t.saw = row[p]
    BY IdleType DEF TxnType
  <1> HIDE DEF t
  <1>3. SawInv(t)
    BY <1>2 DEF SawInv, StartRefund, Refundable, Credited, IInv, RowInv
  <1>4. txn' = [txn EXCEPT ![r] = t]
    BY DEF StartRefund, t
  <1> QED
    BY <1>1, <1>2, <1>3, <1>4, LoadStep DEF StartRefund

LEMMA ReceiveStep ==
    ASSUME IInv, NEW r \in Requests, NEW m \in mail, Receive(r, m)
    PROVE  IInv'
  <1> DEFINE t == [Idle EXCEPT
          !.step = "loaded", !.on = m.on, !.p = m.p, !.sum = m.sum, !.saw = row[m.p]]
  <1>1. /\ m.on \in EventTypes /\ m.p \in Payments /\ m.sum \in Nat
        /\ m.on # "pay"
    BY DEF IInv, TypeOK, ProviderType, EventTypes
  <1>2. t \in TxnType
    BY IdleType, <1>1 DEF IInv, TypeOK, DbType, TxnType
  <1>3. t.step = "loaded" /\ t.p = m.p /\ t.on = m.on /\ t.sum = m.sum /\ t.saw = row[m.p]
    BY IdleType DEF TxnType
  <1> HIDE DEF t
  <1>4. SawInv(t)
    BY <1>1, <1>3 DEF SawInv, Receive, Known, IInv, RowInv, MailInv
  <1>5. txn' = [txn EXCEPT ![r] = t]
    BY DEF Receive, t
  <1> QED
    BY <1>1, <1>2, <1>3, <1>4, <1>5, LoadStep DEF Receive

\* process_payment: the provider is asked once for a payment, so the intent
\* it opens is the first, and nothing of it was refunded.
LEMMA ProcessPaymentStep ==
    ASSUME IInv, NEW r \in Requests, ProcessPayment(r)
    PROVE  IInv'
  <1>0. PICK t \in TxnType : t = txn[r]
    BY DEF IInv, TypeOK
  <1> DEFINE p == t.p
  <1> USE DEF dbVars
  <1>1. PICK answer \in {"refused", "open", "captured"} :
          /\ answer # "refused" => intent[p] = "none"
          /\ LET s == SettledStatus[answer]
                 new == [status |-> s, refunded |-> 0, ref |-> answer # "refused"]
                 A == IF answer = "refused" THEN amount ELSE [amount EXCEPT ![t.p] = t.sum]
             IN /\ txn' = [txn EXCEPT ![r] =
                      Flushed(t, new, SettledEvent[s], s = "succeeded", t.inv, A)]
                /\ amount' = A
          /\ intent' = IF answer = "refused" THEN intent ELSE [intent EXCEPT ![t.p] = answer]
          /\ mail' = IF answer = "captured"
                     THEN mail \cup {[on |-> "succeeded", p |-> t.p, sum |-> 0]} ELSE mail
    BY <1>0 DEF ProcessPayment, InitiatePayment, WebhookEvent
  <1>a. PICK A : A = amount'
    OBVIOUS
  <1> DEFINE s == SettledStatus[answer]
             new == [status |-> s, refunded |-> 0, ref |-> answer # "refused"]
             emit == SettledEvent[s]
             billed == (s = "succeeded")
             f == Flushed(t, new, emit, billed, t.inv, A)
  <1>2. /\ t.step = "loaded" /\ t.on = "pay" /\ t \in TxnType /\ p \in Payments
        /\ SawInv(t)
        /\ UNCHANGED <<row, invoice, ledger, emitted, events, moved, dispute, byHand, faults>>
    BY <1>0 DEF ProcessPayment, IInv, TypeOK, TxnInv
  <1>3. /\ s \in {"failed", "processing", "succeeded"}
        /\ s = "succeeded" <=> answer = "captured"
        /\ emit \in EventKinds \cup {"none"}
        /\ s = "succeeded" => emit = "PAYMENT_SUCCEEDED"
    BY DEF SettledStatus, SettledEvent, EventKinds
  <1>4. new \in RowType
    BY <1>3, StatusType DEF RowType
  <1>5. /\ f \in TxnType /\ f.step = "flushed" /\ f.new = new /\ f.emit = emit
        /\ f.p = p /\ f.on = "pay" /\ f.sum = t.sum /\ f.saw = t.saw
    <2>1. t.inv \in InvoiceStatuses /\ billed \in BOOLEAN
      BY <1>2 DEF TxnType
    <2> HIDE DEF new, emit, billed
    <2>2. emit \in EventKinds \cup {"none"}
      BY <1>3 DEF emit
    <2> QED
      BY <1>2, <1>4, <2>1, <2>2, FlushedType
  <1>6. txn' = [txn EXCEPT ![r] = f]
    BY <1>1, <1>a
  <1>7. new.status = s /\ new.refunded = 0 /\ (new.ref <=> answer # "refused")
    OBVIOUS
  <1> HIDE DEF f, new, emit, billed, s
  <1>8. /\ txn' \in [Requests -> TxnType]
        /\ txn'[r] = f
        /\ \A q \in Requests \ {r} : txn'[q] = txn[q]
    BY <1>5, <1>6 DEF IInv, TypeOK
  <1>9. /\ amount' \in [Payments -> Nat]
        /\ intent' \in [Payments -> {"none", "open", "captured", "canceled"}]
        /\ \A q \in Payments \ {p} : amount'[q] = amount[q] /\ intent'[q] = intent[q]
        /\ answer = "refused" => amount' = amount /\ intent' = intent
        /\ answer # "refused" => amount'[p] = t.sum /\ intent'[p] = answer /\ intent[p] = "none"
    BY <1>1, <1>a, <1>2 DEF IInv, TypeOK, ProviderType, TxnType
  <1>10. \A q \in Payments : Captured(q) => Captured(q)'
    BY <1>9 DEF Captured
  <1>11. TypeOK'
    <2>1. mail' \subseteq [on : EventTypes, p : Payments, sum : Nat] /\ mail \subseteq mail'
      BY <1>1, <1>2 DEF IInv, TypeOK, ProviderType, EventTypes
    <2>2. DbType'
      BY <1>2, <2>1 DEF IInv, TypeOK, DbType
    <2>3. ProviderType'
      BY <1>2, <1>9, <2>1 DEF IInv, TypeOK, ProviderType
    <2> QED
      BY <1>2, <1>5, <1>8, <2>2, <2>3 DEF IInv, TypeOK
  <1>12. ASSUME NEW q \in Payments PROVE RowInv(q)'
    <2>1. moved[p] \in Nat /\ t.sum \in Nat
      BY <1>2 DEF IInv, TypeOK, ProviderType, TxnType
    <2>2. CASE q = p
      <3>1. moved'[p] <= amount'[p] /\ (intent'[p] = "none" => moved'[p] = 0)
        BY <1>2, <1>9, <2>1 DEF IInv, RowInv
      <3> QED
        BY <1>2, <1>10, <2>2, <3>1 DEF IInv, RowInv, Announced
    <2>3. CASE q # p
      BY <1>2, <1>9, <2>3 DEF IInv, RowInv, Captured, Announced
    <2> QED
      BY <2>2, <2>3
  <1>13. /\ txn'[r].p = p /\ txn'[r].on = "pay" /\ txn'[r].step = "flushed"
         /\ txn'[r].saw = t.saw /\ txn'[r].new = new /\ txn'[r].emit = emit
    BY <1>5, <1>8
  <1>14. SawInv(txn[r])'
    BY <1>2, <1>10, <1>13 DEF SawInv, Announced
  <1>15. NewInv(txn[r])'
    <2>1. moved[p] \in Nat
      BY <1>2 DEF IInv, TypeOK, ProviderType
    <2>2. s = "succeeded" => intent'[p] = "captured"
      BY <1>3, <1>9
    <2> QED
      BY <1>2, <1>3, <1>7, <1>13, <2>1, <2>2 DEF NewInv, Captured, Credited
  <1>18. ASSUME NEW q \in Requests PROVE TxnInv(txn[q])'
    <2>1. CASE q = r
      BY <1>14, <1>15, <2>1 DEF TxnInv
    <2>2. CASE q # r
      <3>1. txn'[q] = txn[q] /\ TxnInv(txn[q])
        BY <1>8, <2>2 DEF IInv
      <3>2. txn[q].step # "idle" => txn[q].p \in Payments
        BY DEF IInv, TypeOK
      <3>3. txn[q].step # "idle" => SawInv(txn[q])'
        BY <1>2, <1>10, <3>1, <3>2 DEF TxnInv, SawInv, Announced
      <3>4. txn[q].step = "flushed" => NewInv(txn[q])'
        BY <1>2, <1>10, <3>1, <3>2 DEF TxnInv, NewInv, Announced
      <3> QED
        BY <3>1, <3>3, <3>4 DEF TxnInv
    <2> QED
      BY <2>1, <2>2
  <1>16. OnePayer'
    BY <1>0, <1>2, <1>5, <1>8 DEF IInv, OnePayer
  <1>17. MailInv'
    <2>1. answer = "captured" => intent'[p] = "captured"
      BY <1>9
    <2> QED
      BY <1>1, <1>2, <1>10, <2>1 DEF IInv, TypeOK, ProviderType, MailInv, Captured
  <1> QED
    BY <1>11, <1>12, <1>18, <1>16, <1>17 DEF IInv

-----------------------------------------------------------------------------
(* What the handlers flush.                                                *)

\* A refund asked for by a client is recorded after its money has moved.
LEMMA RecordRefundStep ==
    ASSUME IInv, NEW r \in Requests, RecordRefund(r)
    PROVE  IInv'
  <1> DEFINE t == txn[r]
             total == t.saw.refunded + t.sum
             s == RefundStatus(total, t.p)
             new == [row[t.p] EXCEPT !.status = s, !.refunded = total]
  <1>1. /\ t.step = "asked" /\ t \in TxnType /\ t.p \in Payments /\ SawInv(t)
        /\ UNCHANGED <<dbVars, providerVars, byHand, faults>>
    BY DEF RecordRefund, IInv, TypeOK, TxnInv
  <1>2. CASE Valid(t.saw.status, s)
    <2>1. Write(r, new, "PAYMENT_REFUNDED", TRUE)
      BY <1>2 DEF RecordRefund
    <2>2. s \in {"refunded", "partially_refunded"} /\ total \in Nat
      BY <1>1 DEF RefundStatus, TxnType, RowType
    <2>3. t.on = "refund" /\ total <= moved[t.p] /\ row[t.p].ref
      BY <1>1 DEF SawInv
    <2>4. Captured(t.p) /\ Announced(t.p)
      <3>1. t.saw.status \in PaymentStatus
        BY <1>1 DEF SawInv, TxnType, RowType
      <3>2. t.saw.status \in {"succeeded", "partially_refunded", "disputed"}
        BY <1>2, <2>2, <3>1, StatusType DEF Valid, PAYMENT_TRANSITIONS
      <3> QED
        BY <1>1, <3>2 DEF SawInv, Credited
    <2>5. new \in RowType /\ new.status = s /\ new.refunded = total /\ new.ref = row[t.p].ref
      BY <1>1, <2>2, StatusType DEF IInv, TypeOK, DbType, RowType
    <2> HIDE DEF new, s, total
    <2> QED
      BY <1>1, <2>1, <2>2, <2>3, <2>4, <2>5, WriteStep DEF EventKinds
  <1>3. CASE ~Valid(t.saw.status, s)
    BY <1>1, <1>3, DropStep DEF RecordRefund, IInv, TypeOK, DbType
  <1> QED
    BY <1>2, <1>3

\* A handler that moves the payment to status s, or returns.  What it saw
\* as credited is captured and announced, and so may be credited again.
LEMMA MoveStep ==
    ASSUME IInv, NEW r \in Requests, NEW on \in EventTypes, Handles(r, on),
           NEW s \in PaymentStatus, NEW emit \in EventKinds \cup {"none"},
           NEW billed \in BOOLEAN, Move(r, s, emit, billed),
           \/ s \notin Credited
           \/ on = "succeeded" /\ emit = "PAYMENT_SUCCEEDED"
           \/ Valid(txn[r].saw.status, s) => txn[r].saw.status \in Credited
    PROVE  IInv'
  <1> DEFINE t == txn[r]
             new == [row[t.p] EXCEPT !.status = s]
  <1>1. /\ t.step = "loaded" /\ t.on = on /\ t \in TxnType /\ t.p \in Payments /\ SawInv(t)
        /\ UNCHANGED <<dbVars, providerVars, byHand, faults>>
    BY DEF Handles, IInv, TypeOK, TxnInv
  <1>2. CASE Valid(t.saw.status, s)
    <2>1. Write(r, new, emit, billed)
      BY <1>2 DEF Move
    <2>2. new \in RowType /\ new.status = s /\ new.ref = row[t.p].ref
          /\ new.refunded = row[t.p].refunded /\ s # "absent"
      BY <1>1, StatusType DEF IInv, TypeOK, DbType, RowType
    <2>3. on # "pay" /\ row[t.p].ref /\ row[t.p].refunded <= moved[t.p]
      BY <1>1 DEF EventTypes, SawInv, IInv, RowInv
    <2>4. s \in Credited => Captured(t.p) /\ (emit = "PAYMENT_SUCCEEDED" \/ Announced(t.p))
      BY <1>1, <1>2 DEF SawInv
    <2> HIDE DEF new
    <2> QED
      BY <1>1, <2>1, <2>2, <2>3, <2>4, WriteStep
  <1>3. CASE ~Valid(t.saw.status, s)
    BY <1>1, <1>3, DropStep DEF Move, IInv, TypeOK, DbType
  <1> QED
    BY <1>2, <1>3

LEMMA OnRefundedStep ==
    ASSUME IInv, NEW r \in Requests, OnRefunded(r)
    PROVE  IInv'
  <1> DEFINE t == txn[r]
             s == RefundStatus(t.sum, t.p)
             full == [row[t.p] EXCEPT !.status = s, !.refunded = t.sum]
             part == [row[t.p] EXCEPT !.refunded = t.sum]
  <1>1. /\ t.step = "loaded" /\ t.on = "refunded" /\ t \in TxnType /\ t.p \in Payments
        /\ SawInv(t) /\ t.sum \in Nat /\ row[t.p] \in RowType
        /\ UNCHANGED <<dbVars, providerVars, byHand, faults>>
    BY DEF OnRefunded, Handles, IInv, TypeOK, DbType, TxnInv, TxnType
  <1>2. CASE t.saw.status \notin Refundable
    BY <1>1, <1>2, DropStep DEF OnRefunded, IInv, TypeOK, DbType
  <1>3. CASE t.saw.status \in Refundable
    <2>1. /\ Captured(t.p) /\ Announced(t.p) /\ t.sum <= moved[t.p] /\ row[t.p].ref
          /\ row[t.p].status # "absent"
      BY <1>1, <1>3 DEF SawInv, Refundable, Credited, IInv, RowInv
    <2>2. CASE Valid(t.saw.status, s)
      <3>1. Write(r, full, "PAYMENT_REFUNDED", TRUE)
        BY <1>3, <2>2 DEF OnRefunded
      <3>2. s \in {"refunded", "partially_refunded"}
        BY DEF RefundStatus
      <3>3. full \in RowType /\ full.status = s /\ full.refunded = t.sum
            /\ full.ref = row[t.p].ref
        BY <1>1, <3>2, StatusType DEF RowType
      <3> HIDE DEF full, s
      <3> QED
        BY <1>1, <2>1, <3>1, <3>2, <3>3, WriteStep DEF EventKinds
    <2>3. CASE ~Valid(t.saw.status, s)
      <3>1. Write(r, part, "none", FALSE)
        BY <1>3, <2>3 DEF OnRefunded
      <3>2. part \in RowType /\ part.status = row[t.p].status /\ part.refunded = t.sum
            /\ part.ref = row[t.p].ref
        BY <1>1 DEF RowType
      <3> HIDE DEF part
      <3> QED
        BY <1>1, <2>1, <3>1, <3>2, WriteStep
    <2> QED
      BY <2>2, <2>3
  <1> QED
    BY <1>2, <1>3

LEMMA HandleStep ==
    ASSUME IInv, NEW r \in Requests, Handle(r)
    PROVE  IInv'
  <1>1. /\ PaymentStatus = {"pending", "processing", "succeeded", "partially_refunded",
                            "disputed", "failed", "expired", "cancelled", "refunded"}
        /\ {"PAYMENT_SUCCEEDED", "PAYMENT_FAILED", "PAYMENT_DISPUTED", "none"}
              \subseteq EventKinds \cup {"none"}
        /\ {"succeeded", "payment_failed", "canceled", "dispute.created", "dispute.won",
            "dispute.lost"} \subseteq EventTypes
    BY StatusType DEF EventKinds, EventTypes
  <1>3. CASE OnSucceeded(r)
    BY <1>1, <1>3, MoveStep DEF OnSucceeded
  <1>4. CASE OnFailed(r)
    BY <1>1, <1>4, MoveStep DEF OnFailed, Credited
  <1>5. CASE OnCanceled(r)
    BY <1>1, <1>5, MoveStep DEF OnCanceled, Credited
  <1>6. CASE OnRefunded(r)
    BY <1>6, OnRefundedStep
  <1>7. CASE OnDisputeCreated(r)
    <2>1. Valid(txn[r].saw.status, "disputed") => txn[r].saw.status \in Credited
      <3>1. txn[r].step # "idle" /\ txn[r] \in TxnType
        BY <1>7 DEF OnDisputeCreated, Handles, IInv, TypeOK
      <3>2. txn[r].saw.status \in PaymentStatus
        BY <3>1 DEF IInv, TxnInv, SawInv, TxnType, RowType
      <3> QED
        BY <1>1, <3>2 DEF Valid, PAYMENT_TRANSITIONS, Credited
    <2> QED
      BY <1>1, <1>7, <2>1, MoveStep DEF OnDisputeCreated
  <1>8. ASSUME NEW on \in {"dispute.lost", "dispute.won"}, NEW s \in {"refunded", "succeeded"},
               OnDisputeClosed(r, on, s)
        PROVE  IInv'
    <2>1. Handles(r, on)
      BY <1>8 DEF OnDisputeClosed
    <2>2. CASE txn[r].saw.status = "disputed"
      <3>1. Move(r, s, "none", TRUE) /\ txn[r].saw.status \in Credited
        BY <1>8, <2>2 DEF OnDisputeClosed, Credited
      <3> QED
        BY <1>1, <2>1, <3>1, MoveStep
    <2>3. CASE txn[r].saw.status # "disputed"
      BY <1>8, <2>1, <2>3, DropStep DEF OnDisputeClosed, Handles, IInv, TypeOK, DbType
    <2> QED
      BY <2>2, <2>3
  <1> QED
    BY <1>3, <1>4, <1>5, <1>6, <1>7, <1>8 DEF Handle

-----------------------------------------------------------------------------
(* What the provider does.                                                 *)

\* Money moves one way: an intent once captured stays so, and refunds add
\* up.  The request that asked for a refund, if any, learns that it moved.
LEMMA MoneyStep ==
    ASSUME IInv, ProviderType',
           mail \subseteq mail',
           UNCHANGED <<dbVars, amount, byHand, faults>>,
           \A p \in Payments :
              /\ Captured(p) => intent'[p] = "captured"
              /\ moved[p] <= moved'[p]
              /\ moved'[p] <= amount[p]
              /\ intent'[p] = "none" => moved'[p] = 0,
           MailInv',
           txn' \in [Requests -> TxnType],
           \A q \in Requests :
              \/ txn'[q] = txn[q]
              \/ /\ txn[q].step = "loaded" /\ txn[q].on = "refund"
                 /\ txn'[q] = [txn[q] EXCEPT !.step = "asked"]
                 /\ txn[q].saw.refunded + txn[q].sum <= moved'[txn[q].p]
    PROVE  IInv'
  <1> USE DEF dbVars
  <1>1. ASSUME NEW q \in Requests
        PROVE  /\ txn'[q].step = txn[q].step
                    \/ (txn[q].step = "loaded" /\ txn'[q].step = "asked" /\ txn[q].on = "refund"
                        /\ txn[q].saw.refunded + txn[q].sum <= moved'[txn[q].p])
               /\ txn'[q].p = txn[q].p /\ txn'[q].on = txn[q].on /\ txn'[q].sum = txn[q].sum
               /\ txn'[q].saw = txn[q].saw /\ txn'[q].new = txn[q].new
               /\ txn'[q].emit = txn[q].emit
    <2>1. txn[q] \in TxnType
      BY DEF IInv, TypeOK
    <2> QED
      BY <2>1 DEF TxnType
  <1>2. TypeOK'
    <2>1. DbType'
      BY DEF IInv, TypeOK, DbType
    <2>2. \A q \in Requests : txn'[q].step # "idle" => txn'[q].p \in Payments
      BY <1>1 DEF IInv, TypeOK
    <2> QED
      BY <2>1, <2>2 DEF TypeOK
  <1>3. ASSUME NEW p \in Payments PROVE RowInv(p)'
    <2>1. /\ row[p].refunded \in Nat /\ moved[p] \in Nat /\ moved'[p] \in Nat
          /\ row[p].refunded <= moved[p]
      BY DEF IInv, TypeOK, DbType, ProviderType, RowType, RowInv
    <2>2. row'[p].refunded <= moved'[p]
      BY <2>1
    <2> QED
      BY <2>2 DEF IInv, RowInv, Captured, Announced
  <1>4. ASSUME NEW q \in Requests PROVE TxnInv(txn[q])'
    <2>1. CASE txn'[q].step = "idle"
      BY <2>1 DEF TxnInv
    <2>2. CASE txn'[q].step # "idle"
      <3>1. txn[q].step # "idle" /\ txn[q] \in TxnType /\ txn[q].p \in Payments
        BY <1>1, <2>2 DEF IInv, TypeOK
      <3>2. SawInv(txn[q]) /\ (txn[q].step = "flushed" => NewInv(txn[q]))
        BY <3>1 DEF IInv, TxnInv
      <3>3. /\ moved[txn[q].p] \in Nat /\ moved'[txn[q].p] \in Nat
            /\ moved[txn[q].p] <= moved'[txn[q].p]
            /\ txn[q].sum \in Nat /\ txn[q].saw.refunded \in Nat /\ txn[q].new.refunded \in Nat
        BY <3>1 DEF IInv, TypeOK, ProviderType, TxnType, RowType
      <3>4. Captured(txn[q].p) => intent'[txn[q].p] = "captured"
        BY <3>1
      <3>5. SawInv(txn[q])'
        BY <1>1, <3>2, <3>3, <3>4 DEF SawInv, Captured, Announced
      <3>6. txn'[q].step = "flushed" => NewInv(txn[q])'
        BY <1>1, <3>2, <3>3, <3>4 DEF NewInv, Captured, Announced
      <3> QED
        BY <3>5, <3>6 DEF TxnInv
    <2> QED
      BY <2>1, <2>2
  <1>5. OnePayer'
    BY <1>1 DEF IInv, OnePayer
  <1> QED
    BY <1>2, <1>3, <1>4, <1>5 DEF IInv

\* An event posted without touching the money.
LEMMA PostStep ==
    ASSUME IInv, NEW p \in Payments, NEW on \in EventTypes, Post(on, p),
           on = "succeeded" => intent'[p] = "captured",
           intent' \in [Payments -> {"none", "open", "captured", "canceled"}],
           dispute' \in [Payments -> {"none", "open", "won", "lost"}],
           \A q \in Payments : /\ Captured(q) => intent'[q] = "captured"
                               /\ intent'[q] = "none" => intent[q] = "none",
           UNCHANGED <<dbVars, amount, moved, txn, byHand, faults>>
    PROVE  IInv'
  <1>1. ProviderType' /\ mail \subseteq mail'
    BY DEF Post, WebhookEvent, IInv, TypeOK, ProviderType
  <1>2. MailInv'
    BY DEF Post, WebhookEvent, IInv, TypeOK, ProviderType, MailInv, Captured
  <1>3. \A q \in Payments : /\ moved[q] <= moved'[q]
                            /\ moved'[q] <= amount[q]
                            /\ intent'[q] = "none" => moved'[q] = 0
    BY DEF IInv, TypeOK, ProviderType, RowInv
  <1>4. txn' \in [Requests -> TxnType]
    BY DEF IInv, TypeOK
  <1> QED
    BY <1>1, <1>2, <1>3, <1>4, MoneyStep

\* A refund at the provider.
LEMMA RefundFacts ==
    ASSUME IInv, NEW p \in Payments, NEW a \in Nat, Refund(p, a),
           UNCHANGED <<amount, intent, dispute>>
    PROVE  /\ ProviderType'
           /\ mail \subseteq mail'
           /\ moved'[p] = moved[p] + a
           /\ \A q \in Payments : /\ Captured(q) => intent'[q] = "captured"
                                  /\ moved[q] <= moved'[q]
                                  /\ moved'[q] <= amount[q]
                                  /\ intent'[q] = "none" => moved'[q] = 0
           /\ MailInv'
  <1>1. /\ moved \in [Payments -> Nat] /\ moved[p] + a \in Nat
        /\ moved' = [moved EXCEPT ![p] = moved[p] + a]
        /\ intent[p] = "captured" /\ moved[p] + a <= amount[p]
        /\ mail' = mail \cup {[on |-> "refunded", p |-> p, sum |-> moved[p] + a]}
    BY DEF Refund, WebhookEvent, IInv, TypeOK, ProviderType
  <1>2. ProviderType' /\ mail \subseteq mail'
    BY <1>1 DEF IInv, TypeOK, ProviderType, EventTypes
  <1>3. moved'[p] = moved[p] + a /\ \A q \in Payments \ {p} : moved'[q] = moved[q]
    BY <1>1
  <1>4. \A q \in Payments : /\ Captured(q) => intent'[q] = "captured"
                            /\ moved[q] <= moved'[q]
                            /\ moved'[q] <= amount[q]
                            /\ intent'[q] = "none" => moved'[q] = 0
    BY <1>1, <1>3 DEF IInv, RowInv, Captured
  <1>5. ASSUME NEW m \in mail'
        PROVE  /\ m.on = "succeeded" => intent'[m.p] = "captured"
               /\ m.on = "refunded" => m.sum <= moved'[m.p]
    <2>1. CASE m \in mail
      <3>1. m.p \in Payments /\ m.sum \in Nat
        BY <2>1 DEF IInv, TypeOK, ProviderType
      <3>2. moved[m.p] \in Nat /\ moved'[m.p] \in Nat /\ moved[m.p] <= moved'[m.p]
        BY <1>2, <1>4, <3>1, <1>1 DEF ProviderType
      <3> QED
        BY <2>1, <3>1, <3>2 DEF IInv, MailInv, Captured
    <2>2. CASE m \notin mail
      BY <1>1, <1>3, <2>2
    <2> QED
      BY <2>1, <2>2
  <1> QED
    BY <1>2, <1>3, <1>4, <1>5 DEF MailInv, Captured

LEMMA AskRefundStep ==
    ASSUME IInv, NEW r \in Requests, AskRefund(r)
    PROVE  IInv'
  <1> DEFINE t == txn[r]
  <1>1. /\ t.step = "loaded" /\ t.on = "refund" /\ t \in TxnType /\ t.p \in Payments
        /\ t.sum \in Nat /\ SawInv(t)
        /\ UNCHANGED <<dbVars, amount, intent, dispute, byHand, faults>>
    BY DEF AskRefund, IInv, TypeOK, TxnInv, TxnType
  <1>2. CASE Drop(r) /\ UNCHANGED <<moved, mail>>
    BY <1>1, <1>2, DropStep DEF IInv, TypeOK, DbType, providerVars
  <1>3. CASE Refund(t.p, t.sum) /\ txn' = [txn EXCEPT ![r].step = "asked"]
    <2>1. PICK p \in Payments, a \in Nat : p = t.p /\ a = t.sum
      BY <1>1
    <2>2. Refund(p, a)
      BY <1>3, <2>1
    <2>3. t.saw.refunded + t.sum <= moved'[t.p]
      <3>1. moved'[p] = moved[p] + a
        BY <1>1, <2>2, RefundFacts
      <3>2. moved[p] \in Nat /\ t.saw.refunded \in Nat /\ t.saw.refunded <= moved[p]
        BY <1>1, <2>1 DEF IInv, TypeOK, ProviderType, TxnType, RowType, SawInv
      <3>3. moved'[t.p] = moved'[p]
        BY <2>1
      <3> QED
        BY <2>1, <3>1, <3>2, <3>3
    <2>4. txn' \in [Requests -> TxnType]
      BY <1>1, <1>3 DEF IInv, TypeOK, TxnType
    <2>5. txn'[r] = [t EXCEPT !.step = "asked"] /\ \A q \in Requests \ {r} : txn'[q] = txn[q]
      BY <1>3 DEF IInv, TypeOK
    <2> QED
      BY <1>1, <2>2, <2>3, <2>4, <2>5, RefundFacts, MoneyStep
  <1> QED
    BY <1>2, <1>3 DEF AskRefund, ProviderRefund

LEMMA ProviderStep ==
    ASSUME IInv, NEW p \in Payments, Provider(p)
    PROVE  IInv'
  <1>1. /\ {"succeeded", "payment_failed", "canceled", "refunded", "dispute.created",
            "dispute.won", "dispute.lost"} \subseteq EventTypes
        /\ intent \in [Payments -> {"none", "open", "captured", "canceled"}]
        /\ dispute \in [Payments -> {"none", "open", "won", "lost"}]
    BY DEF EventTypes, IInv, TypeOK, ProviderType
  <1>2. CASE Confirm(p)
    BY <1>1, <1>2, PostStep DEF Confirm, Captured
  <1>3. CASE Decline(p)
    BY <1>1, <1>3, PostStep DEF Decline, Captured
  <1>4. CASE CancelIntent(p)
    BY <1>1, <1>4, PostStep DEF CancelIntent, Captured
  <1>5. CASE UpdateRefund(p)
    BY <1>1, <1>5, PostStep DEF UpdateRefund, Captured
  <1>6. CASE OpenDispute(p)
    BY <1>1, <1>6, PostStep DEF OpenDispute, Captured
  <1>7. CASE CloseDispute(p)
    BY <1>1, <1>7, PostStep DEF CloseDispute, Captured
  <1>8. CASE \E a \in Amounts : RefundAtProvider(p, a)
    <2>1. PICK a \in Amounts : RefundAtProvider(p, a)
      BY <1>8
    <2>2. a \in Nat /\ Refund(p, a) /\ UNCHANGED <<dbVars, amount, intent, dispute, txn, byHand, faults>>
      BY <2>1, PaymentsAssumption DEF RefundAtProvider
    <2>3. txn' \in [Requests -> TxnType]
      BY <2>2 DEF IInv, TypeOK
    <2> QED
      BY <2>2, <2>3, RefundFacts, MoneyStep
  <1> QED
    BY <1>2, <1>3, <1>4, <1>5, <1>6, <1>7, <1>8 DEF Provider

-----------------------------------------------------------------------------
(* Steps that only the type invariant notices.                             *)

LEMMA QuietStep ==
    ASSUME IInv, invoice' \in InvoiceStatuses, events' \subseteq mail, byHand' \in BOOLEAN,
           UNCHANGED <<row, ledger, emitted, providerVars, txn, faults>>
    PROVE  IInv'
  <1> USE DEF providerVars
  <1>1. TypeOK'
    BY DEF IInv, TypeOK, DbType, ProviderType
  <1>2. \A p \in Payments : RowInv(p)'
    BY DEF IInv, RowInv, Captured, Announced
  <1>3. \A r \in Requests : TxnInv(txn[r])'
    BY DEF IInv, TxnInv, SawInv, NewInv, Captured, Announced
  <1>4. OnePayer' /\ MailInv'
    BY DEF IInv, OnePayer, MailInv, Captured
  <1> QED
    BY <1>1, <1>2, <1>3, <1>4 DEF IInv

LEMMA InductiveStep == IInv /\ [Next]_vars => IInv'
  <1> SUFFICES ASSUME IInv, [Next]_vars PROVE IInv'
    OBVIOUS
  <1>1. invoice \in InvoiceStatuses /\ events \subseteq mail /\ byHand \in BOOLEAN
        /\ ManualStatuses \subseteq InvoiceStatuses /\ faults \in 0..MaxFaults
    BY PaymentsAssumption DEF IInv, TypeOK, DbType, InvoiceStatuses
  <1>2. ASSUME NEW r \in Requests, Work(r) PROVE IInv'
    BY <1>2, CommitStep, HandleStep, ProcessPaymentStep, AskRefundStep, RecordRefundStep DEF Work
  <1>3. ASSUME NEW r \in Requests, Abort(r) PROVE IInv'
    <2>1. faults' \in 0..MaxFaults
      BY <1>1, <1>3, PaymentsAssumption DEF Abort
    <2> QED
      BY <1>3, <2>1, DropStep DEF Abort
  <1>4. ASSUME NEW r \in Requests, NEW p \in Payments, NEW a \in Amounts,
               CreatePayment(r, p, a) \/ StartRefund(r, p, a)
        PROVE  IInv'
    BY <1>4, CreatePaymentStep, StartRefundStep
  <1>5. ASSUME NEW m \in mail, ReceiveUnknown(m) PROVE IInv'
    BY <1>1, <1>5, QuietStep DEF ReceiveUnknown
  <1>6. ASSUME NEW m \in mail, NEW r \in Requests, Receive(r, m) PROVE IInv'
    BY <1>6, ReceiveStep
  <1>7. ASSUME NEW p \in Payments, Provider(p) PROVE IInv'
    BY <1>7, ProviderStep
  <1>8. ASSUME NEW s \in ManualStatuses, SetByHand(s) PROVE IInv'
    BY <1>1, <1>8, QuietStep DEF SetByHand
  <1>9. CASE UNCHANGED vars
    BY <1>1, <1>9, QuietStep DEF vars, dbVars
  <1> QED
    BY <1>2, <1>3, <1>4, <1>5, <1>6, <1>7, <1>8, <1>9 DEF Next

-----------------------------------------------------------------------------
\* The invariant every theorem below rests on.
LEMMA InvariantHolds == Spec => []IInv
  BY InitIInv, InductiveStep, PTL DEF Spec

\* Payments, requests, the outbox and the provider's events keep their
\* types, and a request under way always has a payment in hand.
THEOREM TypeCorrect == Spec => []TypeOK
  <1>1. IInv => TypeOK
    BY DEF IInv
  <1> QED
    BY <1>1, InvariantHolds, PTL

\* No order, repetition or interleaving of requests and webhooks credits a
\* payment whose money the provider has not captured (_handle_payment_intent,
\* process_payment, _handle_dispute).
THEOREM CreditCaptured == Spec => []CreditIsCaptured
  <1>1. IInv => CreditIsCaptured
    BY DEF IInv, RowInv, Captured, CreditIsCaptured
  <1> QED
    BY <1>1, InvariantHolds, PTL

\* A credited payment has its PAYMENT_SUCCEEDED row in the outbox (_emit and
\* _emit_payment_event in the transaction of the status).
THEOREM CreditAnnounced == Spec => []CreditIsAnnounced
  <1>1. IInv => CreditIsAnnounced
    BY DEF IInv, RowInv, Announced, CreditIsAnnounced
  <1> QED
    BY <1>1, InvariantHolds, PTL

\* refunded_amount never exceeds what the provider gave back, nor that what
\* was paid (refund_payment and _handle_refund).
THEOREM RefundBacked == Spec => []RefundIsBacked
  <1>1. IInv => RefundIsBacked
    BY DEF IInv, RowInv, RefundIsBacked
  <1> QED
    BY <1>1, InvariantHolds, PTL
-----------------------------------------------------------------------------
(* The invoice.  What a request is about to write on it was computed when  *)
(* it flushed, from rows that have moved on since; what keeps it true is   *)
(* that captured money is never un-captured and its amount never changes.  *)

CapturedMoney == {p \in Payments : Captured(p)}
Covered == Total <= Sum(amount, CapturedMoney)

CoverInv ==
    /\ (invoice = "paid" /\ ~byHand) => Covered
    /\ \A r \in Requests : (txn[r].step = "flushed" /\ txn[r].bill = "paid") => Covered

LEMMA UnitsAreFinite ==
    ASSUME NEW S \in SUBSET Payments, NEW f, \A x \in S : f[x] \in Nat
    PROVE  IsFiniteSet(Units(f, S))
  <1>1. IsFiniteSet(S)
    BY PaymentsAssumption, FS_Subset DEF PaymentsAssumption
  <1>2. PICK T : T = {{x} \X (1 .. f[x]) : x \in S}
    OBVIOUS
  <1>3. PICK h : h = [x \in S |-> {x} \X (1 .. f[x])]
    OBVIOUS
  <1>4. h \in Surjection(S, T)
    BY <1>2, <1>3 DEF Surjection
  <1>5. IsFiniteSet(T)
    BY <1>1, <1>4, FS_Surjection
  <1>6. ASSUME NEW x \in S PROVE IsFiniteSet({x} \X (1 .. f[x]))
    <2>1. IsFiniteSet({x})
      BY FS_Singleton
    <2>2. 1 \in Int /\ f[x] \in Int
      OBVIOUS
    <2>3. IsFiniteSet(1 .. f[x])
      BY <2>2, FS_Interval
    <2> QED
      BY <2>1, <2>3, FS_Product
  <1>7. \A U \in T : IsFiniteSet(U)
    BY <1>2, <1>6
  <1> QED
    BY <1>2, <1>5, <1>7, FS_UNION DEF Units

LEMMA SumType ==
    ASSUME NEW S \in SUBSET Payments, NEW f, \A x \in S : f[x] \in Nat
    PROVE  Sum(f, S) \in Nat
  BY UnitsAreFinite, FS_CardinalityType DEF Sum

LEMMA SumGrows ==
    ASSUME NEW S \in SUBSET Payments, NEW T \in SUBSET Payments, S \subseteq T,
           NEW f, NEW g, \A x \in S : f[x] \in Nat, \A x \in T : g[x] \in Nat,
           \A x \in S : f[x] <= g[x]
    PROVE  Sum(f, S) <= Sum(g, T)
  <1>1. ASSUME NEW u \in Units(f, S) PROVE u \in Units(g, T)
    <2>1. PICK x \in S : u \in {x} \X (1 .. f[x])
      BY DEF Units
    <2>2. u \in {x} \X (1 .. g[x])
      BY <2>1
    <2> QED
      BY <2>2 DEF Units
  <1>2. IsFiniteSet(Units(g, T))
    BY UnitsAreFinite
  <1> QED
    BY <1>1, <1>2, FS_Subset DEF Sum

\* Money the provider holds.
MoneyStays ==
    \A p \in Payments : Captured(p) => intent'[p] = "captured" /\ amount'[p] = amount[p]

LEMMA CoverageStays ==
    ASSUME IInv, IInv', MoneyStays, Covered PROVE Covered'
  <1>1. CapturedMoney \subseteq CapturedMoney'
    BY DEF CapturedMoney, MoneyStays, Captured
  <1>2. /\ \A x \in Payments : amount[x] \in Nat /\ amount'[x] \in Nat
        /\ \A x \in CapturedMoney : amount[x] <= amount'[x]
    BY DEF CapturedMoney, MoneyStays, IInv, TypeOK, ProviderType
  <1>3. PICK S \in SUBSET Payments : S = CapturedMoney
    BY DEF CapturedMoney
  <1>4. PICK T \in SUBSET Payments : T = CapturedMoney'
    BY DEF CapturedMoney
  <1>5. Sum(amount, S) <= Sum(amount', T)
    BY <1>1, <1>2, <1>3, <1>4, SumGrows
  <1>6. Sum(amount, S) \in Nat /\ Sum(amount', T) \in Nat
    BY <1>2, SumType
  <1>7. Total <= Sum(amount', T)
    BY <1>3, <1>5, <1>6, PaymentsAssumption DEF Covered, PaymentsAssumption
  <1> QED
    BY <1>4, <1>7 DEF Covered

LEMMA CoverStep ==
    ASSUME IInv, IInv', CoverInv, MoneyStays,
           (invoice' = "paid" /\ ~byHand') =>
               \/ invoice = "paid" /\ ~byHand
               \/ \E r \in Requests : txn[r].step = "flushed" /\ txn[r].bill = "paid",
           \A r \in Requests : (txn'[r].step = "flushed" /\ txn'[r].bill = "paid") =>
               \/ txn[r].step = "flushed" /\ txn[r].bill = "paid"
               \/ Covered'
    PROVE  CoverInv'
  BY CoverageStays DEF CoverInv

\* A request that computes paid has seen enough captured money.
LEMMA PaidWasSeen ==
    ASSUME NEW R, NEW A, NEW C \in SUBSET Payments,
           \A p \in Payments : R[p].refunded \in Nat /\ A[p] \in Nat,
           \A p \in Payments : R[p].status \in PaidStatuses => p \in C,
           Derived(R, A) = "paid"
    PROVE  Total <= Sum(A, C)
  <1>1. PICK S \in SUBSET Payments : S = {p \in Payments : R[p].status \in PaidStatuses}
    OBVIOUS
  <1>2. Sum(A, S) \in Nat /\ Sum(A, C) \in Nat /\ Sum(A, S) <= Sum(A, C)
    BY <1>1, SumType, SumGrows
  <1>3. RefundedTotal(R) \in Nat
    <2>1. PICK f : f = [p \in Payments |-> R[p].refunded]
      OBVIOUS
    <2>2. PICK T \in SUBSET Payments :
             T = {p \in Payments : R[p].status \in {"succeeded", "partially_refunded", "refunded"}}
      OBVIOUS
    <2>3. Sum(f, T) \in Nat
      BY <2>1, <2>2, SumType
    <2> QED
      BY <2>1, <2>2, <2>3 DEF RefundedTotal
  <1>4. ~ (NetPaid(R, A) < Total)
    BY DEF Derived
  <1>5. NetPaid(R, A) = Sum(A, S) - RefundedTotal(R)
    BY <1>1 DEF NetPaid, SuccessfulTotal
  <1> QED
    BY <1>2, <1>3, <1>4, <1>5, PaymentsAssumption DEF PaymentsAssumption
\* A request that flushes writes on the invoice only what the rows say with
\* its own payment as it will be.
LEMMA FlushStep ==
    ASSUME IInv, IInv', CoverInv, MoneyStays, NEW r \in Requests,
           NEW new, NEW emit, NEW billed, NEW inv,
           txn' = [txn EXCEPT ![r] = Flushed(txn[r], new, emit, billed, inv, amount')],
           UNCHANGED <<row, invoice, byHand>>
    PROVE  CoverInv'
  <1>1. \A s \in Requests \ {r} : txn'[s] = txn[s]
    BY DEF IInv, TypeOK
  <1>2. ASSUME txn'[r].step = "flushed", txn'[r].bill = "paid" PROVE Covered'
    <2>1. PICK R : R = [row EXCEPT ![txn[r].p] = new]
      OBVIOUS
    <2>2. /\ txn'[r].new = new /\ txn'[r].p = txn[r].p
          /\ txn'[r].bill = IF billed /\ inv # "void" THEN Derived(R, amount') ELSE "keep"
      BY <2>1 DEF Flushed, IInv, TypeOK, TxnType
    <2>3. Derived(R, amount') = "paid"
      BY <1>2, <2>2
    <2>4. txn[r].p \in Payments
      BY <1>2, <2>2 DEF IInv, TypeOK
    <2>5. new \in RowType
      BY <2>2 DEF IInv, TypeOK, TxnType
    <2>6. new.status \in PaidStatuses => intent'[txn[r].p] = "captured"
      BY <1>2, <2>2 DEF IInv, TxnInv, NewInv, Captured, PaidStatuses, Credited
    <2>7. PICK C \in SUBSET Payments : C = CapturedMoney'
      BY DEF CapturedMoney
    <2>8. \A p \in Payments : R[p] = IF p = txn[r].p THEN new ELSE row'[p]
      BY <2>1, <2>4 DEF IInv, TypeOK, DbType
    <2>9. \A p \in Payments : row'[p].status \in PaidStatuses => intent'[p] = "captured"
      BY DEF IInv, RowInv, Captured, PaidStatuses, Credited
    <2>10. \A p \in Payments : R[p].status \in PaidStatuses => p \in C
      BY <2>6, <2>7, <2>8, <2>9 DEF CapturedMoney, Captured
    <2>11. \A p \in Payments : R[p].refunded \in Nat /\ amount'[p] \in Nat
      BY <2>5, <2>8 DEF IInv, TypeOK, DbType, ProviderType, RowType
    <2>12. Total <= Sum(amount', C)
      BY <2>3, <2>10, <2>11, PaidWasSeen
    <2> QED
      BY <2>7, <2>12 DEF Covered
  <1> QED
    BY <1>1, <1>2, CoverStep

LEMMA NothingFlushed ==
    ASSUME IInv, IInv', CoverInv, MoneyStays, NEW r \in Requests,
           \A s \in Requests \ {r} : txn'[s] = txn[s],
           txn'[r].step # "flushed",
           UNCHANGED <<invoice, byHand>>
    PROVE  CoverInv'
  BY CoverStep

LEMMA DropCovers ==
    ASSUME IInv, IInv', CoverInv, MoneyStays, NEW r \in Requests, Drop(r),
           UNCHANGED <<invoice, byHand>>
    PROVE  CoverInv'
  BY NothingFlushed DEF Drop, Idle, IInv, TypeOK

LEMMA WriteCovers ==
    ASSUME IInv, IInv', CoverInv, NEW r \in Requests,
           NEW new, NEW emit, NEW billed, Write(r, new, emit, billed),
           UNCHANGED <<dbVars, providerVars, byHand>>
    PROVE  CoverInv'
  BY FlushStep DEF Write, MoneyStays, Captured, dbVars, providerVars

LEMMA CommitCovers ==
    ASSUME IInv, IInv', CoverInv, NEW r \in Requests, Commit(r) PROVE CoverInv'
  <1>1. MoneyStays
    BY DEF Commit, providerVars, MoneyStays, Captured
  <1>2. CASE invoice' = invoice
    BY <1>1, <1>2, DropCovers DEF Commit
  <1>3. CASE invoice' # invoice
    <2>1. txn[r].step = "flushed" /\ invoice' = txn[r].bill /\ UNCHANGED byHand
      BY <1>3 DEF Commit, dbVars
    <2>2. \A s \in Requests : txn'[s].step = "flushed" => txn'[s] = txn[s]
      BY DEF Commit, Drop, Idle, IInv, TypeOK
    <2> QED
      BY <1>1, <2>1, <2>2, CoverStep
  <1> QED
    BY <1>2, <1>3

LEMMA ProcessPaymentCovers ==
    ASSUME IInv, IInv', CoverInv, NEW r \in Requests, ProcessPayment(r) PROVE CoverInv'
  <1>1. PICK answer \in InitiatePayment(txn[r].p) :
           /\ amount' = IF answer = "refused" THEN amount
                        ELSE [amount EXCEPT ![txn[r].p] = txn[r].sum]
           /\ intent' = IF answer = "refused" THEN intent
                        ELSE [intent EXCEPT ![txn[r].p] = answer]
           /\ txn' = [txn EXCEPT ![r] = Flushed(txn[r],
                 [status |-> SettledStatus[answer], refunded |-> 0, ref |-> answer # "refused"],
                 SettledEvent[SettledStatus[answer]], SettledStatus[answer] = "succeeded",
                 txn[r].inv, amount')]
    BY DEF ProcessPayment
  <1>2. answer # "refused" => intent[txn[r].p] = "none"
    BY DEF InitiatePayment
  <1>3. MoneyStays
    BY <1>1, <1>2 DEF MoneyStays, Captured, IInv, TypeOK, ProviderType
  <1>4. UNCHANGED <<row, invoice, byHand>>
    BY DEF ProcessPayment, dbVars
  <1> QED
    BY <1>1, <1>3, <1>4, FlushStep

\* Whatever request r does, it flushes, drops what it has, or goes on without
\* writing.
LEMMA HandleCovers ==
    ASSUME IInv, IInv', CoverInv, NEW r \in Requests, Handle(r) PROVE CoverInv'
  <1>1. UNCHANGED <<dbVars, providerVars, byHand>>
    BY DEF Handle, OnSucceeded, OnFailed, OnCanceled, OnRefunded, OnDisputeCreated,
       OnDisputeClosed, Handles
  <1>2. Drop(r) \/ \E new, emit, billed : Write(r, new, emit, billed)
    BY DEF Handle, OnSucceeded, OnFailed, OnCanceled, OnRefunded, OnDisputeCreated,
       OnDisputeClosed, Move
  <1>3. MoneyStays /\ UNCHANGED invoice
    BY <1>1 DEF MoneyStays, Captured, providerVars, dbVars
  <1> QED
    BY <1>1, <1>2, <1>3, DropCovers, WriteCovers

LEMMA RecordRefundCovers ==
    ASSUME IInv, IInv', CoverInv, NEW r \in Requests, RecordRefund(r) PROVE CoverInv'
  <1>1. UNCHANGED <<dbVars, providerVars, byHand>>
    BY DEF RecordRefund
  <1>2. Drop(r) \/ \E new, emit, billed : Write(r, new, emit, billed)
    BY DEF RecordRefund
  <1>3. MoneyStays /\ UNCHANGED invoice
    BY <1>1 DEF MoneyStays, Captured, providerVars, dbVars
  <1> QED
    BY <1>1, <1>2, <1>3, DropCovers, WriteCovers

LEMMA AskRefundCovers ==
    ASSUME IInv, IInv', CoverInv, NEW r \in Requests, AskRefund(r) PROVE CoverInv'
  <1>1. MoneyStays /\ UNCHANGED <<invoice, byHand>>
    BY DEF AskRefund, MoneyStays, Captured, dbVars
  <1>2. CASE Drop(r)
    BY <1>1, <1>2, DropCovers
  <1>3. CASE txn' = [txn EXCEPT ![r].step = "asked"]
    <2>1. /\ \A s \in Requests \ {r} : txn'[s] = txn[s]
          /\ txn'[r].step = "asked"
      BY <1>3 DEF IInv, TypeOK, TxnType
    <2> QED
      BY <1>1, <2>1, NothingFlushed
  <1> QED
    BY <1>2, <1>3 DEF AskRefund

\* Requests that begin have nothing to write yet.
LEMMA BeginCovers ==
    ASSUME IInv, IInv', CoverInv, NEW r \in Requests, NEW t,
           t.step # "flushed", txn' = [txn EXCEPT ![r] = t],
           UNCHANGED <<dbVars, providerVars, byHand>>
    PROVE  CoverInv'
  <1>1. MoneyStays /\ UNCHANGED invoice
    BY DEF MoneyStays, Captured, providerVars, dbVars
  <1> QED
    BY <1>1, NothingFlushed DEF IInv, TypeOK

LEMMA ProviderCovers ==
    ASSUME IInv, IInv', CoverInv, NEW p \in Payments, Provider(p) PROVE CoverInv'
  <1>1. UNCHANGED <<amount, txn, invoice, byHand>>
    BY DEF Provider, Confirm, Decline, CancelIntent, UpdateRefund, OpenDispute, CloseDispute,
       RefundAtProvider, dbVars
  <1>2. \A q \in Payments : intent[q] = "captured" => intent'[q] = "captured"
    BY DEF Provider, Confirm, Decline, CancelIntent, UpdateRefund, OpenDispute, CloseDispute,
       RefundAtProvider, IInv, TypeOK, ProviderType
  <1>3. MoneyStays
    BY <1>1, <1>2 DEF MoneyStays, Captured
  <1> QED
    BY <1>1, <1>3, CoverStep

LEMMA CoverInductive == IInv /\ IInv' /\ CoverInv /\ [Next]_vars => CoverInv'
  <1> SUFFICES ASSUME IInv, IInv', CoverInv, [Next]_vars PROVE CoverInv'
    OBVIOUS
  <1>1. ASSUME NEW r \in Requests, Work(r) PROVE CoverInv'
    BY <1>1, CommitCovers, HandleCovers, ProcessPaymentCovers, AskRefundCovers,
       RecordRefundCovers DEF Work
  <1>2. ASSUME NEW r \in Requests, Abort(r) PROVE CoverInv'
    BY <1>2, DropCovers DEF Abort, MoneyStays, Captured, providerVars, dbVars
  <1>3. ASSUME NEW r \in Requests, NEW p \in Payments, NEW a \in Amounts, CreatePayment(r, p, a)
        PROVE  CoverInv'
    <2>1. PICK t : /\ txn' = [txn EXCEPT ![r] = t]
                   /\ t = [Idle EXCEPT
                        !.step = "loaded", !.on = "pay", !.p = p, !.sum = a, !.inv = invoice,
                        !.saw = [status |-> "processing", refunded |-> 0, ref |-> FALSE]]
      BY <1>3 DEF CreatePayment
    <2>2. t.step = "loaded"
      BY <2>1 DEF Idle
    <2> QED
      BY <1>3, <2>1, <2>2, BeginCovers DEF CreatePayment
  <1>4. ASSUME NEW r \in Requests, NEW p \in Payments, NEW a \in Amounts, StartRefund(r, p, a)
        PROVE  CoverInv'
    <2>1. PICK t : /\ txn' = [txn EXCEPT ![r] = t]
                   /\ t = [Idle EXCEPT
                        !.step = "loaded", !.on = "refund", !.p = p, !.sum = a, !.saw = row[p]]
      BY <1>4 DEF StartRefund
    <2>2. t.step = "loaded"
      BY <2>1 DEF Idle
    <2> QED
      BY <1>4, <2>1, <2>2, BeginCovers DEF StartRefund
  <1>5. ASSUME NEW m \in mail, NEW r \in Requests, Receive(r, m) PROVE CoverInv'
    <2>1. PICK t : /\ txn' = [txn EXCEPT ![r] = t]
                   /\ t = [Idle EXCEPT
                        !.step = "loaded", !.on = m.on, !.p = m.p, !.sum = m.sum, !.saw = row[m.p]]
      BY <1>5 DEF Receive
    <2>2. t.step = "loaded"
      BY <2>1 DEF Idle
    <2> QED
      BY <1>5, <2>1, <2>2, BeginCovers DEF Receive
  <1>6. ASSUME NEW m \in mail, ReceiveUnknown(m) PROVE CoverInv'
    BY <1>6, CoverStep DEF ReceiveUnknown, MoneyStays, Captured, providerVars
  <1>7. ASSUME NEW p \in Payments, Provider(p) PROVE CoverInv'
    BY <1>7, ProviderCovers
  <1>8. ASSUME NEW s \in ManualStatuses, SetByHand(s) PROVE CoverInv'
    BY <1>8, CoverStep DEF SetByHand, MoneyStays, Captured, providerVars
  <1>9. CASE UNCHANGED vars
    BY <1>9, CoverStep DEF vars, dbVars, MoneyStays, Captured, providerVars
  <1> QED
    BY <1>1, <1>2, <1>3, <1>4, <1>5, <1>6, <1>7, <1>8, <1>9 DEF Next

\* An invoice nobody set by hand says paid only when the provider holds at
\* least its total, for any number of payments, partial ones included, and
\* any overlap of requests and webhooks (_update_invoice_payment_status).
THEOREM PaidCovered == Spec => []PaidIsCovered
  <1>1. Init => CoverInv
    BY DEF Init, CoverInv, Idle
  <1>2. (IInv /\ CoverInv) /\ [Next]_vars => (IInv /\ CoverInv)'
    BY InductiveStep, CoverInductive
  <1>3. CoverInv => PaidIsCovered
    BY DEF CoverInv, Covered, CapturedMoney, Captured, PaidIsCovered
  <1> QED
    BY <1>1, <1>2, <1>3, InitIInv, PTL DEF Spec
=============================================================================
