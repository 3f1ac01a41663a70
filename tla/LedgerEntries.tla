--------------------------- MODULE LedgerEntries ---------------------------
(***************************************************************************)
(* The ledger entries of one invoice: the primary one and the adjustments  *)
(* that reference it, each with a copy of the invoice's payment status.    *)
(* A payment or a webhook derives a status, writes it to the invoice and   *)
(* copies it to every entry it finds; an adjustment copies it from the     *)
(* entry it adjusts; a member may set the invoice's by hand.               *)
(***************************************************************************)
EXTENDS Integers, FiniteSets

CONSTANTS
    Adjustments,
    Clerks,         \* requests handled at the same time
    Statuses        \* InvoicePaymentStatus values, "unpaid" and "void" among them

VARIABLES
    bill,       \* Invoice.payment_status
    entry,      \* ServiceLedgerEntry.payment_status, "absent" before the row
    posting,    \* what each request has in hand
    drifted     \* a status was set by hand, or by a request that was overtaken

ledgerVars == <<bill, entry, posting, drifted>>

Entries == {"primary"} \cup Adjustments
Recorded == {e \in Entries : entry[e] # "absent"}

NoPosting == [at |-> "idle", saw |-> "unpaid", new |-> "unpaid", to |-> {}, alone |-> TRUE]

LedgerInit ==
    /\ bill = "unpaid"
    /\ entry = [e \in Entries |-> IF e = "primary" THEN "unpaid" ELSE "absent"]
    /\ posting = [c \in Clerks |-> NoPosting]
    /\ drifted = FALSE

\* Whoever is under way when a request commits has been overtaken.
Done(c) == [d \in Clerks |->
    IF d = c THEN NoPosting ELSE [posting[d] EXCEPT !.alone = posting[d].at = "idle"]]

\* A status it did not change is not in its UPDATE, and takes no row lock.
Changes(c) == posting[c].new # posting[c].saw
InvoiceFree(c) == \A d \in Clerks \ {c} : ~(posting[d].at \in {"billed", "listed"} /\ Changes(d))

\* _update_invoice_payment_status: a void invoice is left alone.
StartSync(c, s) ==
    /\ posting[c].at = "idle"
    /\ bill # "void" /\ s # "void"
    /\ posting' = [posting EXCEPT ![c] = [NoPosting EXCEPT !.at = "derived", !.saw = bill, !.new = s]]
    /\ UNCHANGED <<bill, entry, drifted>>

BillSync(c) ==
    /\ posting[c].at = "derived"
    /\ Changes(c) => InvoiceFree(c)
    /\ posting' = [posting EXCEPT ![c].at = "billed"]
    /\ UNCHANGED <<bill, entry, drifted>>

\* get_by_invoice_id, and those whose status differs.
Copied_PrimaryOnly(s) == {e \in {"primary"} : entry[e] # s}
Copied(s) == {e \in Recorded : entry[e] # s}

ListEntries(c) ==
    /\ posting[c].at = "billed"
    /\ posting' = [posting EXCEPT ![c].at = "listed", ![c].to = Copied(posting[c].new)]
    /\ UNCHANGED <<bill, entry, drifted>>

FinishSync(c) ==
    LET t == posting[c] IN
    /\ t.at = "listed"
    /\ bill' = IF Changes(c) THEN t.new ELSE bill
    /\ entry' = [e \in Entries |-> IF e \in t.to THEN t.new ELSE entry[e]]
    /\ drifted' = ~t.alone
    /\ posting' = Done(c)

\* update_payment_status of the invoice service: the ledger is not told.
StartByHand(c, s) ==
    /\ posting[c].at = "idle"
    /\ bill # "void"
    /\ posting' = [posting EXCEPT ![c] = [NoPosting EXCEPT !.at = "byhand", !.saw = bill, !.new = s]]
    /\ UNCHANGED <<bill, entry, drifted>>

FinishByHand(c) ==
    /\ posting[c].at = "byhand"
    /\ InvoiceFree(c)
    /\ IF Changes(c) THEN bill' = posting[c].new /\ drifted' = TRUE ELSE UNCHANGED <<bill, drifted>>
    /\ posting' = Done(c)
    /\ UNCHANGED entry

\* create_adjustment: only a primary entry is adjusted, and it stays as it is.
StartAdjustment(c, a) ==
    /\ posting[c].at = "idle"
    /\ entry[a] = "absent" /\ \A d \in Clerks : a \notin posting[d].to
    /\ posting' = [posting EXCEPT ![c] =
          [NoPosting EXCEPT !.at = "adjusting", !.new = entry["primary"], !.to = {a}]]
    /\ UNCHANGED <<bill, entry, drifted>>

FinishAdjustment(c) ==
    LET t == posting[c] IN
    /\ t.at = "adjusting"
    /\ entry' = [e \in Entries |-> IF e \in t.to THEN t.new ELSE entry[e]]
    /\ drifted' = (drifted \/ ~t.alone)
    /\ posting' = Done(c)
    /\ UNCHANGED bill

FailPosting(c) ==
    /\ posting[c].at # "idle"
    /\ posting' = [posting EXCEPT ![c] = NoPosting]
    /\ UNCHANGED <<bill, entry, drifted>>

LedgerNext ==
    \E c \in Clerks :
        \/ \E s \in Statuses : StartSync(c, s) \/ StartByHand(c, s)
        \/ \E a \in Adjustments : StartAdjustment(c, a)
        \/ BillSync(c) \/ ListEntries(c) \/ FinishSync(c)
        \/ FinishByHand(c) \/ FinishAdjustment(c) \/ FailPosting(c)

-----------------------------------------------------------------------------
\* Every entry of the invoice, adjustments included, has the invoice's
\* payment status, unless a member set that by hand or a request was
\* overtaken; the next payment or webhook that is not repairs all of them.
LedgerFollows == ~drifted => \A e \in Recorded : entry[e] = bill
=============================================================================
