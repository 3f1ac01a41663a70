----------------------------- MODULE Fulfilment -----------------------------
(***************************************************************************)
(* What the lifecycle promises about a job, whatever order its requests    *)
(* come in: a booking is confirmed only on a quote the customer accepted,  *)
(* an enquiry says it is booked, or completed, only on a confirmed booking *)
(* of its, work starts only on one, an invoice is issued only for work     *)
(* that started, and none of these but what the enquiry says is taken back *)
(* or done twice.                                                          *)
(***************************************************************************)
EXTENDS Integers

CONSTANTS Quotes, Bookings, EnquiryOf, QuoteOf

VARIABLES
    accepted,   \* quotes the customer has accepted
    confirmed,  \* bookings the business has confirmed
    started,    \* bookings with a service execution
    billed,     \* bookings with an invoice: the invoice's number
    booked      \* enquiries that say they are booked or completed

work == <<accepted, confirmed, started, billed>>
vars == <<work, booked>>

Init ==
    /\ accepted = {}
    /\ confirmed = {}
    /\ started = {}
    /\ billed = [b \in Bookings |-> 0]
    /\ booked = {}

Accept(q) ==
    /\ accepted' = accepted \cup {q}
    /\ UNCHANGED <<confirmed, started, billed>>

\* One request may confirm several bookings.
Confirm(S) ==
    /\ \A b \in S : QuoteOf[b] \in accepted
    /\ confirmed' = confirmed \cup S
    /\ UNCHANGED <<accepted, started, billed>>

Start(b) ==
    /\ b \in confirmed
    /\ started' = started \cup {b}
    /\ UNCHANGED <<accepted, confirmed, billed>>

Bill(b) ==
    /\ b \in started
    /\ billed[b] = 0
    /\ billed'[b] \in Nat \ {0}
    /\ \A c \in Bookings : billed[c] # billed'[b]
    /\ billed' = [billed EXCEPT ![b] = billed'[b]]
    /\ UNCHANGED <<accepted, confirmed, started>>

\* What an enquiry says may change with any step, in step with its bookings.
Tell == booked' \subseteq {EnquiryOf[QuoteOf[b]] : b \in confirmed'}

Next ==
    /\ \/ \E q \in Quotes : Accept(q)
       \/ \E S \in SUBSET Bookings : Confirm(S)
       \/ \E b \in Bookings : Start(b)
       \/ \E b \in Bookings : Bill(b)
       \/ UNCHANGED work
    /\ Tell

Spec == Init /\ [][Next]_vars
=============================================================================
