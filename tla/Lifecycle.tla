----------------------------- MODULE Lifecycle -----------------------------
(***************************************************************************)
(* From an enquiry to an invoice: the five rows a job goes through, the    *)
(* transition tables that guard them, and the cascades from one row to     *)
(* the next.                                                               *)
(*                                                                         *)
(* A request reads its row, decides on what it read, and writes by id.     *)
(* Nothing locks the row in between, so a request that was overtaken acts  *)
(* on an old status: "loaded" holds such reads.  A request nobody          *)
(* overtakes reads and writes in one step.  Any number of requests may     *)
(* hold the same read, so acting on one does not use it up.  Every service *)
(* writes an outbox event with a unique key in its transaction; a key that *)
(* is taken rolls the transaction back, so the key is a guard.             *)
(***************************************************************************)
EXTENDS Integers, FiniteSets

CONSTANTS
    Enquiries,
    Quotes,
    Bookings,
    EnquiryOf,      \* the enquiry a quote is made for
    QuoteOf,        \* the quote a booking is made from
    Slots,          \* requested times, in half hours of UTC
    Offsets,        \* UTC offsets clients write them with, in half hours
    HourLimit,      \* max_concurrent of the business's concurrency rule
    WindowLimit,    \* max_capacity of its capacity rule
    Window,         \* time_window_minutes of that rule, in half hours
    MaxLoaded       \* reads in a behaviour that are acted on when they are stale

ASSUME LifecycleAssumption ==
    /\ EnquiryOf \in [Quotes -> Enquiries]
    /\ QuoteOf \in [Bookings -> Quotes]
    /\ IsFiniteSet(Bookings)
    /\ Slots \subseteq Nat
    /\ Offsets \subseteq Int
    /\ HourLimit \in Nat /\ WindowLimit \in Nat /\ Window \in Nat /\ MaxLoaded \in Nat

VARIABLES
    enquiry,    \* Enquiry.status, "absent" before the row exists
    quote,      \* Quote.status
    booking,    \* Booking.status, "reserving" while its transaction is open
    slot,       \* Booking.requested_at, which the database keeps in UTC
    offset,     \* the offset its request wrote it with
    execution,  \* ServiceExecution.status of the booking's execution
    invoice,    \* the sequence number of the execution's invoice, 0 for none
    emitted,    \* idempotency keys of the outbox
    loaded      \* reads whose request has not written yet

vars == <<enquiry, quote, booking, slot, offset, execution, invoice, emitted, loaded>>

Init ==
    /\ enquiry = [e \in Enquiries |-> "absent"]
    /\ quote = [q \in Quotes |-> "absent"]
    /\ booking = [b \in Bookings |-> "absent"]
    /\ slot = [b \in Bookings |-> 0]
    /\ offset = [b \in Bookings |-> 0]
    /\ execution = [b \in Bookings |-> "absent"]
    /\ invoice = [b \in Bookings |-> 0]
    /\ emitted = {}
    /\ loaded = {}

-----------------------------------------------------------------------------
(* The transition tables.                                                  *)

ENQUIRY_TRANSITIONS(s) ==
    CASE s = "draft" -> {"submitted", "cancelled"}
      [] s = "submitted" -> {"received", "expired", "cancelled"}
      [] s = "received" -> {"in_review", "declined", "expired"}
      [] s = "in_review" -> {"needs_information", "quoted", "declined", "expired"}
      [] s = "needs_information" -> {"in_review", "declined", "expired"}
      [] s = "quoted" -> {"customer_accepted", "expired", "cancelled"}
      [] s = "customer_accepted" -> {"booking_proposed", "cancelled"}
      [] s = "booking_proposed" -> {"booked", "cancelled"}
      [] s = "booked" -> {"in_progress", "cancelled"}
      [] s = "in_progress" -> {"completed", "cancelled"}
      [] OTHER -> {}

CUSTOMER_ALLOWED_TRANSITIONS(s) ==
    IF s \in {"draft", "submitted", "received", "in_review", "needs_information"}
    THEN {"cancelled"} ELSE {}

BUSINESS_ALLOWED_TRANSITIONS(s) ==
    CASE s = "submitted" -> {"received", "declined", "expired"}
      [] s = "received" -> {"in_review", "declined", "expired"}
      [] s = "in_review" -> {"needs_information", "quoted", "declined", "expired"}
      [] s = "needs_information" -> {"in_review", "declined", "expired"}
      [] OTHER -> {}

QUOTE_TRANSITIONS(s) ==
    CASE s = "draft" -> {"issued"}
      [] s = "issued" -> {"accepted", "declined", "expired"}
      [] OTHER -> {}

BOOKING_TRANSITIONS(s) ==
    CASE s = "requested" -> {"proposed", "declined", "cancelled", "expired"}
      [] s = "proposed" -> {"accepted", "declined", "cancelled", "expired"}
      [] s = "accepted" -> {"confirmed", "cancelled", "expired"}
      [] s = "confirmed" -> {"in_progress", "completed", "cancelled", "no_show"}
      [] s = "in_progress" -> {"completed", "cancelled"}
      [] OTHER -> {}

SERVICE_EXECUTION_TRANSITIONS(s) ==
    CASE s = "scheduled" -> {"in_progress", "cancelled", "no_show"}
      [] s = "in_progress" -> {"completed", "cancelled"}
      [] OTHER -> {}

EnquiryStatus == {"draft", "submitted", "received", "in_review", "needs_information",
    "quoted", "customer_accepted", "booking_proposed", "booked", "in_progress",
    "completed", "declined", "cancelled", "expired", "rejected"}
QuoteStatus == {"draft", "issued", "accepted", "declined", "expired"}
BookingStatus == {"requested", "proposed", "accepted", "confirmed", "in_progress",
    "completed", "declined", "cancelled", "expired", "rescheduled", "no_show"}
ServiceExecutionStatus == {"scheduled", "in_progress", "completed", "cancelled", "no_show"}

-----------------------------------------------------------------------------
(* Reads, and the outbox.                                                  *)

Invoices == {b \in Bookings : invoice[b] # 0}

\* get_next_invoice_number: the count of the business's invoices, plus one.
NextInvoiceNumber == Cardinality(Invoices) + 1

Committed(b) == booking[b] \notin {"absent", "reserving"}

\* What a request that starts now would read of the row it is about; for an
\* execution also the invoice number a completion would compute.
Read(row, id, status) ==
    [row |-> row, id |-> id, seen |-> status,
     number |-> IF row = "execution" THEN NextInvoiceNumber ELSE 0]
EnquiryReads == {Read("enquiry", e, enquiry[e]) : e \in {x \in Enquiries : enquiry[x] # "absent"}}
QuoteReads == {Read("quote", q, quote[q]) : q \in {x \in Quotes : quote[x] # "absent"}}
BookingReads == {Read("booking", b, booking[b]) : b \in {x \in Bookings : Committed(x)}}
ExecutionReads ==
    {Read("execution", b, execution[b]) : b \in {x \in Bookings : execution[x] # "absent"}}

Fresh == EnquiryReads \cup QuoteReads \cup BookingReads \cup ExecutionReads

\* A request has read its row and is about to be overtaken.
Load ==
    /\ Cardinality(loaded) < MaxLoaded
    /\ \E r \in Fresh \ loaded : loaded' = loaded \cup {r}
    /\ UNCHANGED <<enquiry, quote, booking, slot, offset, execution, invoice, emitted>>

\* The reads a request for this row may be acting on.
Requests(row) == {r \in Fresh \cup loaded : r.row = row}

Key(row, id, status) == <<row, id, status>>

\* Outbox rows of one transaction: all keys are new or nothing is written.
Emit(keys) ==
    /\ keys \cap emitted = {}
    /\ emitted' = emitted \cup keys

-----------------------------------------------------------------------------
(* Enquiries.                                                              *)

\* The row, its conversation and the move from draft to submitted are one
\* transaction.
CreateEnquiry(e) ==
    /\ enquiry[e] = "absent"
    /\ enquiry' = [enquiry EXCEPT ![e] = "submitted"]
    /\ Emit({Key("enquiry", e, "submitted")})
    /\ UNCHANGED <<quote, booking, slot, offset, execution, invoice, loaded>>

MayMoveEnquiry(seen, to, actor) ==
    /\ to \in ENQUIRY_TRANSITIONS(seen)
    /\ actor = "customer" => to \in CUSTOMER_ALLOWED_TRANSITIONS(seen)
    /\ actor = "business" => to \in BUSINESS_ALLOWED_TRANSITIONS(seen)

TransitionEnquiry(r, to, actor) ==
    /\ MayMoveEnquiry(r.seen, to, actor)
    /\ enquiry' = [enquiry EXCEPT ![r.id] = to]
    /\ Emit({Key("enquiry", r.id, to)})
    /\ UNCHANGED <<quote, booking, slot, offset, execution, invoice, loaded>>

TransitionMyEnquiry ==
    \E r \in Requests("enquiry"), to \in EnquiryStatus : TransitionEnquiry(r, to, "customer")

TransitionBusinessEnquiry ==
    \E r \in Requests("enquiry"), to \in EnquiryStatus : TransitionEnquiry(r, to, "business")

\* Each enquiry is read and moved in turn in one transaction; one that may
\* not move is skipped, a key that is taken undoes them all.
BulkTransitionEnquiries ==
    \E to \in EnquiryStatus, S \in SUBSET Enquiries :
        LET moved == {e \in S : MayMoveEnquiry(enquiry[e], to, "business")}
        IN  /\ moved # {}
            /\ enquiry' = [e \in Enquiries |-> IF e \in moved THEN to ELSE enquiry[e]]
            /\ Emit({Key("enquiry", e, to) : e \in moved})
            /\ UNCHANGED <<quote, booking, slot, offset, execution, invoice, loaded>>

-----------------------------------------------------------------------------
(* Quotes.                                                                 *)

\* The enquiry's status is written without the table, and nothing is emitted.
CreateQuote(r, q) ==
    /\ r.seen \in {"received", "in_review", "needs_information"}
    /\ quote[q] = "absent" /\ EnquiryOf[q] = r.id
    /\ quote' = [quote EXCEPT ![q] = "draft"]
    /\ enquiry' = [enquiry EXCEPT ![r.id] = "quoted"]
    /\ UNCHANGED <<booking, slot, offset, execution, invoice, emitted, loaded>>

CreateQuoteForEnquiry == \E r \in Requests("enquiry"), q \in Quotes : CreateQuote(r, q)

\* A cascade reads the enquiry as it is now and moves it if it is where the
\* cascade expects it.
Cascade(e, from, to) == [enquiry EXCEPT ![e] = IF @ = from THEN to ELSE @]

TransitionQuote(r, to, actor) ==
    /\ to \in QUOTE_TRANSITIONS(r.seen)
    /\ to \in (IF actor = "customer" THEN {"accepted", "declined"} ELSE {"issued", "expired"})
    /\ quote' = [quote EXCEPT ![r.id] = to]
    /\ enquiry' = IF actor = "customer" /\ to = "accepted"
                  THEN Cascade(EnquiryOf[r.id], "quoted", "customer_accepted") ELSE enquiry
    /\ Emit({Key("quote", r.id, to)})
    /\ UNCHANGED <<booking, slot, offset, execution, invoice, loaded>>

TransitionBusinessQuote ==
    \E r \in Requests("quote"), to \in QuoteStatus : TransitionQuote(r, to, "business")

TransitionMyQuote ==
    \E r \in Requests("quote"), to \in QuoteStatus : TransitionQuote(r, to, "customer")

-----------------------------------------------------------------------------
(* Bookings.                                                               *)

\* A time without its minutes: the date and the hour.
Hour(t) == t \div 2
Distance(s, t) == IF s > t THEN s - t ELSE t - s

\* What the client wrote for the instant t: datetimes keep the offset they were
\* parsed with, and replace() and .hour work on the written time.
Written(t, o) == t + o

\* _get_existing_bookings_for_availability; Slots lie within its 24 hours.
Existing == {b \in Bookings : Committed(b) /\ booking[b] \notin {"cancelled", "declined", "expired"}}

\* Loaded rows are in UTC.
ConcurrentIn(hour) == {b \in Existing : Hour(slot[b]) = hour}
InWindow(t) == {b \in Existing : 2 * Distance(slot[b], t) <= Window}

\* The written hour is looked for among hours of UTC.
CheckConcurrent(t, o) == Cardinality(ConcurrentIn(Hour(Written(t, o)))) < HourLimit
CheckCapacity(t) == Cardinality(InWindow(t)) < WindowLimit
Available(t, o) == CheckConcurrent(t, o) /\ CheckCapacity(t)

\* pg_advisory_xact_lock on the business and the hour of the requested time,
\* held until the transaction ends; the key is a hash of the hour's ISO form,
\* which ends with the offset.
LockKey(t, o) == <<Hour(Written(t, o)), o>>
LockFree_NoLock(t, o) == TRUE
LockFree(t, o) ==
    ~ \E b \in Bookings : booking[b] = "reserving" /\ LockKey(slot[b], offset[b]) = LockKey(t, o)

\* create_booking up to its availability check: everything it will write is
\* decided, nothing is visible yet.
ReserveSlot(b, t, o) ==
    /\ booking[b] = "absent"
    /\ quote[QuoteOf[b]] = "accepted"
    /\ LockFree(t, o)
    /\ Available(t, o)
    /\ booking' = [booking EXCEPT ![b] = "reserving"]
    /\ slot' = [slot EXCEPT ![b] = t]
    /\ offset' = [offset EXCEPT ![b] = o]
    /\ UNCHANGED <<enquiry, quote, execution, invoice, emitted, loaded>>

\* The rest of create_booking and its commit.  Nothing is emitted.
CreateBooking(b) ==
    /\ booking[b] = "reserving"
    /\ booking' = [booking EXCEPT ![b] = "requested"]
    /\ enquiry' = Cascade(EnquiryOf[QuoteOf[b]], "customer_accepted", "booking_proposed")
    /\ UNCHANGED <<quote, slot, offset, execution, invoice, emitted, loaded>>

\* The brain denies it, or the request fails.
DropReservation(b) ==
    /\ booking[b] = "reserving"
    /\ booking' = [booking EXCEPT ![b] = "absent"]
    /\ slot' = [slot EXCEPT ![b] = 0]
    /\ offset' = [offset EXCEPT ![b] = 0]
    /\ UNCHANGED <<enquiry, quote, execution, invoice, emitted, loaded>>

MayMoveBooking(seen, to, actor) ==
    /\ to \in BOOKING_TRANSITIONS(seen)
    /\ actor = "customer" => to = "cancelled" \/ (seen = "proposed" /\ to = "accepted")

\* The enquiry after a booking of its moved.
EnquiryAfterBooking(b, to) ==
    CASE to = "confirmed" -> Cascade(EnquiryOf[QuoteOf[b]], "booking_proposed", "booked")
      [] to = "completed" -> Cascade(EnquiryOf[QuoteOf[b]], "booked", "completed")
      [] OTHER -> enquiry

TransitionBooking(r, to, actor) ==
    /\ MayMoveBooking(r.seen, to, actor)
    /\ booking' = [booking EXCEPT ![r.id] = to]
    /\ enquiry' = EnquiryAfterBooking(r.id, to)
    /\ Emit({Key("booking", r.id, to)})
    /\ UNCHANGED <<quote, slot, offset, execution, invoice, loaded>>

TransitionBusinessBooking ==
    \E r \in Requests("booking"), to \in BookingStatus : TransitionBooking(r, to, "business")

TransitionMyBooking ==
    \E r \in Requests("booking"), to \in BookingStatus : TransitionBooking(r, to, "customer")

BulkTransitionBookings ==
    \E to \in BookingStatus, S \in SUBSET Bookings :
        LET moved == {b \in S : Committed(b) /\ MayMoveBooking(booking[b], to, "business")}
            of(e) == {b \in moved : EnquiryOf[QuoteOf[b]] = e}
        IN  /\ Cardinality(moved) > 1
            /\ booking' = [b \in Bookings |-> IF b \in moved THEN to ELSE booking[b]]
            /\ enquiry' = [e \in Enquiries |->
                  IF of(e) = {} THEN enquiry[e]
                  ELSE EnquiryAfterBooking(CHOOSE b \in of(e) : TRUE, to)[e]]
            /\ Emit({Key("booking", b, to) : b \in moved})
            /\ UNCHANGED <<quote, slot, offset, execution, invoice, loaded>>

-----------------------------------------------------------------------------
(* Service executions and their invoices.                                  *)

\* The request read the booking; the execution row is unique per booking.
CreateFromBooking_Accepted(r) ==
    /\ r.seen \in {"accepted", "confirmed", "in_progress"}
    /\ execution[r.id] = "absent"
    /\ execution' = [execution EXCEPT ![r.id] = "in_progress"]
    /\ UNCHANGED <<enquiry, quote, booking, slot, offset, invoice, emitted, loaded>>
CreateFromBooking(r) ==
    /\ r.seen \in {"confirmed", "in_progress"}
    /\ execution[r.id] = "absent"
    /\ execution' = [execution EXCEPT ![r.id] = "in_progress"]
    /\ UNCHANGED <<enquiry, quote, booking, slot, offset, invoice, emitted, loaded>>

CreateServiceExecution == \E r \in Requests("booking") : CreateFromBooking(r)

TransitionExecution(r, to) ==
    /\ to \in SERVICE_EXECUTION_TRANSITIONS(r.seen) \ {"completed"}
    /\ execution' = [execution EXCEPT ![r.id] = to]
    /\ Emit({Key("service", r.id, to)})
    /\ UNCHANGED <<enquiry, quote, booking, slot, offset, invoice, loaded>>

TransitionServiceExecution ==
    \E r \in Requests("execution"), to \in ServiceExecutionStatus : TransitionExecution(r, to)

\* _create_completion_records: the invoice, with a number nobody else's may
\* have, and the ledger entry, unless the execution has an invoice already.
CreateCompletionRecords(b, number) ==
    IF invoice[b] # 0 THEN UNCHANGED invoice
    ELSE /\ \A c \in Bookings : invoice[c] # number
         /\ invoice' = [invoice EXCEPT ![b] = number]

\* _cascade_booking_completion reads the booking as it is now.
CascadesTo(b) == booking[b] \in {"confirmed", "in_progress"}

Complete(r, number) ==
    /\ "completed" \in SERVICE_EXECUTION_TRANSITIONS(r.seen)
    /\ execution' = [execution EXCEPT ![r.id] = "completed"]
    /\ CreateCompletionRecords(r.id, number)
    /\ booking' = IF CascadesTo(r.id) THEN [booking EXCEPT ![r.id] = "completed"] ELSE booking
    /\ enquiry' = IF CascadesTo(r.id) THEN EnquiryAfterBooking(r.id, "completed") ELSE enquiry
    /\ Emit({Key("service", r.id, "completed")}
            \cup (IF invoice[r.id] = 0 THEN {Key("invoice", r.id, "issued")} ELSE {})
            \cup (IF CascadesTo(r.id) THEN {Key("booking", r.id, "completed")} ELSE {}))
    /\ UNCHANGED <<quote, slot, offset, loaded>>

\* The count behind the number is read after the row, before or after
\* another completion commits.
CompleteServiceExecution ==
    \E r \in Requests("execution") :
        \E number \in {r.number, NextInvoiceNumber} : Complete(r, number)

-----------------------------------------------------------------------------

CreateAnEnquiry == \E e \in Enquiries : CreateEnquiry(e)
CreateABooking ==
    \E b \in Bookings :
        \/ \E t \in Slots, o \in Offsets : ReserveSlot(b, t, o)
        \/ CreateBooking(b) \/ DropReservation(b)

Next ==
    \/ Load
    \/ CreateAnEnquiry \/ TransitionMyEnquiry \/ TransitionBusinessEnquiry
    \/ BulkTransitionEnquiries
    \/ CreateQuoteForEnquiry \/ TransitionBusinessQuote \/ TransitionMyQuote
    \/ CreateABooking \/ TransitionBusinessBooking \/ TransitionMyBooking
    \/ BulkTransitionBookings
    \/ CreateServiceExecution \/ TransitionServiceExecution \/ CompleteServiceExecution

Spec == Init /\ [][Next]_vars

-----------------------------------------------------------------------------
(* Properties.                                                             *)

Absent == {"absent"}

TypeOK ==
    /\ enquiry \in [Enquiries -> EnquiryStatus \cup Absent]
    /\ quote \in [Quotes -> QuoteStatus \cup Absent]
    /\ booking \in [Bookings -> BookingStatus \cup {"absent", "reserving"}]
    /\ slot \in [Bookings -> Slots \cup {0}]
    /\ offset \in [Bookings -> Offsets \cup {0}]
    /\ execution \in [Bookings -> ServiceExecutionStatus \cup Absent]
    /\ invoice \in [Bookings -> Nat]

Was(row, id, status) == Key(row, id, status) \in emitted

\* The lifecycle does what Fulfilment promises: overtaken requests may put
\* a row back into a status it had left, but no booking is confirmed without
\* an accepted quote, no enquiry says booked without a confirmed booking of
\* its, no work starts on a booking never confirmed, and no execution is
\* billed before it started, twice, or under a number in use.
Promise == INSTANCE Fulfilment WITH
    accepted <- {q \in Quotes : Was("quote", q, "accepted")},
    confirmed <- {b \in Bookings : Was("booking", b, "confirmed")},
    started <- {b \in Bookings : execution[b] # "absent"},
    billed <- invoice,
    booked <- {e \in Enquiries : enquiry[e] \in {"booked", "in_progress", "completed"}}

KeepsPromise == Promise!Spec

\* A cancelled, declined or expired booking can come back to life, by a request
\* that was overtaken; nothing checks its hour again.
Revived(b) == \E s \in {"cancelled", "declined", "expired"} : Was("booking", b, s)

\* The advisory lock, for requests that write their time in UTC, as the frontend
\* does: two of them for the same hour cannot both take its last place, so the
\* step that creates a booking leaves theirs in that hour in bounds, however
\* many others write the hour in some other way, unless one of theirs was
\* revived since the check.
UtcIn(hour) == {b \in ConcurrentIn(hour) : offset[b] = 0}
CreationKeepsHour ==
    [][\A b \in Bookings :
        booking[b] = "reserving" /\ booking'[b] = "requested" /\ offset[b] = 0 =>
            \/ Cardinality(UtcIn(Hour(slot[b]))) < HourLimit
            \/ \E c \in UtcIn(Hour(slot[b])) : Revived(c)]_vars
=============================================================================
