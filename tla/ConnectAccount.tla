--------------------------- MODULE ConnectAccount ---------------------------
(***************************************************************************)
(* A business's Stripe account: opened at Stripe inside the request's      *)
(* transaction, then copied back by refreshes and account.updated events,  *)
(* which carry no order.  Stripe is external: it opens an account whenever *)
(* it is asked to, changes it on its own, and delivers its events late, in *)
(* any order and again and again.                                          *)
(***************************************************************************)
EXTENDS Integers, FiniteSets

CONSTANTS
    Accounts,      \* accounts Stripe may open
    Members,       \* requests handled at the same time
    NoAccount,
    States,        \* states Stripe puts an account in
    MaxChanges     \* changes Stripe makes to accounts

Capability == [submitted : BOOLEAN, charges : BOOLEAN, payouts : BOOLEAN, disabled : BOOLEAN]

ASSUME ConnectAssumption == States \subseteq Capability /\ NoAccount \notin Accounts

VARIABLES
    account,    \* stripe_account_id
    status,     \* stripe_connect_status
    charges,    \* stripe_charges_enabled
    payouts,    \* stripe_payouts_enabled
    opened,     \* Stripe: the accounts it opened, as they are
    answered,   \* Stripe: every state of an account it has told of
    asking,     \* what each request has in hand
    changes,
    replaced    \* an account on record was replaced by another

connectVars == <<account, status, charges, payouts, opened, answered, asking, changes, replaced>>

New == [submitted |-> FALSE, charges |-> FALSE, payouts |-> FALSE, disabled |-> FALSE]

NoAsking == [at |-> "idle", acct |-> NoAccount, saw |-> New, row |-> <<>>]
Row == <<status, charges, payouts>>

ConnectInit ==
    /\ account = NoAccount /\ status = "none"
    /\ charges = FALSE /\ payouts = FALSE
    /\ opened = [a \in {} |-> New]
    /\ answered = {}
    /\ asking = [m \in Members |-> NoAsking]
    /\ changes = 0
    /\ replaced = FALSE

RowKept == UNCHANGED <<account, status, charges, payouts, replaced>>
StripeKept == UNCHANGED <<opened, answered, changes>>

\* create_connected_account: the row is read, Stripe opens an account, and
\* the commit comes later, or never.
StartAccount(m) ==
    /\ asking[m].at = "idle"
    /\ account = NoAccount
    /\ asking' = [asking EXCEPT ![m].at = "create"]
    /\ RowKept /\ StripeKept

OpenAccount(m, a) ==
    /\ asking[m].at = "create"
    /\ a \notin DOMAIN opened
    /\ opened' = [b \in DOMAIN opened \cup {a} |-> IF b = a THEN New ELSE opened[b]]
    /\ asking' = [asking EXCEPT ![m].at = "opened", ![m].acct = a]
    /\ RowKept /\ UNCHANGED <<answered, changes>>

KeepAccount(m) ==
    /\ asking[m].at = "opened"
    /\ account' = asking[m].acct
    /\ status' = "pending"
    /\ replaced' = (replaced \/ account # NoAccount)
    /\ asking' = [asking EXCEPT ![m] = NoAsking]
    /\ StripeKept /\ UNCHANGED <<charges, payouts>>

\* refresh_account_status reads the row and then Stripe's answer.
StartRefresh(m) ==
    /\ asking[m].at = "idle"
    /\ account # NoAccount
    /\ asking' = [asking EXCEPT ![m] = [NoAsking EXCEPT !.at = "refresh", !.acct = account, !.row = Row]]
    /\ RowKept /\ StripeKept

RetrieveAccount(m) ==
    /\ asking[m].at = "refresh"
    /\ asking' = [asking EXCEPT ![m].at = "answered", ![m].saw = opened[asking[m].acct]]
    /\ answered' = answered \cup {<<asking[m].acct, opened[asking[m].acct]>>}
    /\ RowKept /\ UNCHANGED <<opened, changes>>

\* handle_account_updated: the row is found by the account's id; an event
\* for an account that is not on record is acknowledged and lost.
ReceiveUpdate(m, a, s) ==
    /\ asking[m].at = "idle"
    /\ <<a, s>> \in answered
    /\ a = account
    /\ asking' = [asking EXCEPT ![m] = [NoAsking EXCEPT !.at = "answered", !.acct = a, !.saw = s, !.row = Row]]
    /\ RowKept /\ StripeKept

\* Mutant: the reason Stripe gives comes after the capabilities.
Derive_ReasonLast(s) ==
    IF s.charges THEN IF s.payouts THEN "active" ELSE "payouts_disabled"
    ELSE IF s.payouts THEN "charges_disabled"
    ELSE IF ~s.submitted THEN "pending"
    ELSE IF s.disabled THEN "restricted"
    ELSE "charges_disabled"

\* _derive_connect_status
Derive(s) ==
    IF s.disabled THEN "restricted"
    ELSE IF s.charges THEN IF s.payouts THEN "active" ELSE "payouts_disabled"
    ELSE IF s.payouts \/ s.submitted THEN "charges_disabled"
    ELSE "pending"

\* _apply_account_status: columns equal to those loaded are not written.
ApplyStatus(m) ==
    LET t == asking[m]
        put(old, new, now) == IF new = old THEN now ELSE new
    IN  /\ t.at = "answered"
        /\ status' = put(t.row[1], Derive(t.saw), status)
        /\ charges' = put(t.row[2], t.saw.charges, charges)
        /\ payouts' = put(t.row[3], t.saw.payouts, payouts)
        /\ asking' = [asking EXCEPT ![m] = NoAsking]
        /\ StripeKept /\ UNCHANGED <<account, replaced>>

\* Stripe fails, or the request does.
FailAsking(m) ==
    /\ asking[m].at # "idle"
    /\ asking' = [asking EXCEPT ![m] = NoAsking]
    /\ RowKept /\ StripeKept

\* The owner completes the onboarding, or Stripe changes the account; it
\* posts the account as it is then.
ChangeAccount(a, s) ==
    /\ changes < MaxChanges
    /\ a \in DOMAIN opened /\ s # opened[a]
    /\ opened' = [opened EXCEPT ![a] = s]
    /\ answered' = answered \cup {<<a, s>>}
    /\ changes' = changes + 1
    /\ RowKept /\ UNCHANGED <<asking>>

\* _resolve_stripe_connect: a direct charge goes to the account on record.
MayCharge ==
    /\ account # NoAccount
    /\ status \notin {"none", "pending", "restricted", "charges_disabled"}
    /\ charges

ConnectNext ==
    \/ \E a \in Accounts, s \in States : ChangeAccount(a, s)
    \/ \E m \in Members :
        \/ StartAccount(m) \/ KeepAccount(m) \/ StartRefresh(m) \/ RetrieveAccount(m)
        \/ ApplyStatus(m) \/ FailAsking(m)
        \/ \E a \in Accounts : OpenAccount(m, a)
        \/ \E x \in answered : ReceiveUpdate(m, x[1], x[2])

-----------------------------------------------------------------------------
\* A charge can go to the connected account only after Stripe has told of a
\* state of that very account in which charges were enabled and nothing
\* disabled it, however refreshes and events interleave and mix their
\* columns.  Where two requests opened an account each and the second
\* replaced the first, what is known of the first may be written to it.
ChargesWereEnabled ==
    MayCharge /\ ~replaced =>
        \E x \in answered : x[1] = account /\ x[2].charges /\ ~x[2].disabled
=============================================================================
