-------------------------- MODULE LifecycleProofs --------------------------
(***************************************************************************)
(* Proofs about Lifecycle: its types, that it implements Fulfilment, and   *)
(* that the advisory lock keeps the hour within its limit.                 *)
(*                                                                         *)
(* A request may act on any status its row ever had, so what a row says    *)
(* now is of little use: the invariants relate every status, of a row or   *)
(* of a read somebody still holds, to the outbox keys that must have been  *)
(* written before it, and keys are never taken back.                       *)
(***************************************************************************)
EXTENDS Lifecycle, FiniteSetTheorems, TLAPS

-----------------------------------------------------------------------------
(* What every status presupposes.                                          *)

Confirmed == {"confirmed", "in_progress", "completed", "no_show"}
Freed == {"cancelled", "declined", "expired"}
Booked == {"booked", "in_progress", "completed"}

HasQuote(b) == Was("quote", QuoteOf[b], "accepted")
EverConfirmed(b) == Was("booking", b, "confirmed")
EverFreed(b) == \E s \in Freed : Was("booking", b, s)
HasBooking(e) == \E b \in Bookings : EnquiryOf[QuoteOf[b]] = e /\ EverConfirmed(b)

AcceptedIsTold == \A q \in Quotes : quote[q] = "accepted" => Was("quote", q, "accepted")
BookingIsQuoted == \A b \in Bookings : booking[b] # "absent" => HasQuote(b)
ConfirmedIsTold == \A b \in Bookings : booking[b] \in Confirmed => EverConfirmed(b)
FreedIsTold == \A b \in Bookings : booking[b] \in Freed => EverFreed(b)
StartedIsConfirmed == \A b \in Bookings : execution[b] # "absent" => EverConfirmed(b)
BookedHasBooking == \A e \in Enquiries : enquiry[e] \in Booked => HasBooking(e)

\* What may be said of a read, however long ago it was made.
Sound(r) ==
    /\ r.row = "enquiry" => r.id \in Enquiries /\ r.seen \in EnquiryStatus
    /\ r.row = "quote" => r.id \in Quotes /\ r.seen \in QuoteStatus
    /\ r.row = "booking" =>
          /\ r.id \in Bookings /\ r.seen \in BookingStatus
          /\ Committed(r.id) /\ HasQuote(r.id)
          /\ r.seen \in Confirmed => EverConfirmed(r.id)
    /\ r.row = "execution" =>
          /\ r.id \in Bookings /\ r.seen \in ServiceExecutionStatus
          /\ execution[r.id] # "absent"
          /\ r.number \in Nat \ {0}

ReadsAreSound == \A r \in loaded : Sound(r)

RowsInv ==
    /\ AcceptedIsTold
    /\ BookingIsQuoted /\ ConfirmedIsTold /\ FreedIsTold
    /\ StartedIsConfirmed
    /\ BookedHasBooking

JobInv == TypeOK /\ RowsInv /\ ReadsAreSound

\* While a transaction that wrote its time in UTC holds the lock of an hour, no
\* other of its kind does, and the bookings of its kind that are in the hour and
\* were never given up leave it a place.
Holds(b) == booking[b] = "reserving" /\ offset[b] = 0
OneInHour ==
    \A b, c \in Bookings : Holds(b) /\ Holds(c) /\ Hour(slot[b]) = Hour(slot[c]) => b = c
NeverFreedIn(h) == {c \in UtcIn(h) : ~ EverFreed(c)}
HourHeld ==
    \A b \in Bookings : Holds(b) => Cardinality(NeverFreedIn(Hour(slot[b]))) < HourLimit

HourInv == OneInHour /\ HourHeld

LifecycleInv == JobInv /\ HourInv

-----------------------------------------------------------------------------
(* The operators.                                                          *)

LEMMA NumberIsPositive == NextInvoiceNumber \in Nat \ {0}
<1>1. IsFiniteSet(Invoices)
  BY LifecycleAssumption, FS_Subset DEF LifecycleAssumption, Invoices
<1> QED
  BY <1>1, FS_CardinalityType DEF NextInvoiceNumber

\* A request that starts now reads something sound, as the others did.
LEMMA RequestsAreSound ==
    ASSUME JobInv, NEW r \in Fresh \cup loaded
    PROVE  Sound(r)
<1>1. CASE r \in loaded
  BY <1>1 DEF JobInv, ReadsAreSound
<1>2. CASE r \in EnquiryReads
  BY <1>2 DEF EnquiryReads, Read, Sound, JobInv, TypeOK, Absent
<1>3. CASE r \in QuoteReads
  BY <1>3 DEF QuoteReads, Read, Sound, JobInv, TypeOK, Absent
<1>4. CASE r \in BookingReads
  BY <1>4 DEF BookingReads, Read, Sound, JobInv, TypeOK, Committed, RowsInv,
     BookingIsQuoted, ConfirmedIsTold
<1>5. CASE r \in ExecutionReads
  BY <1>5, NumberIsPositive DEF ExecutionReads, Read, Sound, JobInv, TypeOK, Absent
<1> QED
  BY <1>1, <1>2, <1>3, <1>4, <1>5 DEF Fresh

LEMMA CascadeShape ==
    ASSUME TypeOK, NEW e, NEW from, NEW to \in EnquiryStatus
    PROVE  /\ Cascade(e, from, to) \in [Enquiries -> EnquiryStatus \cup Absent]
           /\ \A x \in Enquiries : Cascade(e, from, to)[x] # enquiry[x] =>
                 x = e /\ enquiry[x] = from /\ Cascade(e, from, to)[x] = to
BY DEF Cascade, TypeOK

\* An enquiry becomes booked only when a booking of its is confirmed; the
\* cascade to completed starts from booked.
LEMMA AfterBookingShape ==
    ASSUME TypeOK, NEW b \in Bookings, NEW to
    PROVE  /\ EnquiryAfterBooking(b, to) \in [Enquiries -> EnquiryStatus \cup Absent]
           /\ \A x \in Enquiries : EnquiryAfterBooking(b, to)[x] \in Booked =>
                 \/ enquiry[x] \in Booked
                 \/ to = "confirmed" /\ x = EnquiryOf[QuoteOf[b]]
<1>1. CASE to = "confirmed"
  <2>1. EnquiryAfterBooking(b, to) = Cascade(EnquiryOf[QuoteOf[b]], "booking_proposed", "booked")
    BY <1>1 DEF EnquiryAfterBooking
  <2> QED
    BY <1>1, <2>1, CascadeShape DEF EnquiryStatus, Booked
<1>2. CASE to = "completed"
  <2>1. EnquiryAfterBooking(b, to) = Cascade(EnquiryOf[QuoteOf[b]], "booked", "completed")
    BY <1>2 DEF EnquiryAfterBooking
  <2> QED
    BY <1>2, <2>1, CascadeShape DEF EnquiryStatus, Booked
<1>3. CASE to # "confirmed" /\ to # "completed"
  <2>1. EnquiryAfterBooking(b, to) = enquiry
    BY <1>3 DEF EnquiryAfterBooking
  <2> QED
    BY <2>1 DEF TypeOK
<1> QED
  BY <1>1, <1>2, <1>3

-----------------------------------------------------------------------------
(* What a step has to respect for each invariant to survive it.            *)

LEMMA ReadsStay ==
    ASSUME JobInv, loaded' = loaded, emitted \subseteq emitted',
           \A b \in Bookings : Committed(b) => Committed(b)',
           \A b \in Bookings : execution[b] # "absent" => execution'[b] # "absent"
    PROVE  ReadsAreSound'
BY DEF JobInv, ReadsAreSound, Sound, HasQuote, EverConfirmed, Was

LEMMA EnquiriesStay ==
    ASSUME JobInv, emitted \subseteq emitted',
           \A e \in Enquiries : enquiry'[e] \in Booked =>
               enquiry[e] \in Booked \/ HasBooking(e)'
    PROVE  BookedHasBooking'
BY DEF JobInv, RowsInv, BookedHasBooking, HasBooking, EverConfirmed, Was

LEMMA QuotesStay ==
    ASSUME JobInv, emitted \subseteq emitted', UNCHANGED quote
    PROVE  AcceptedIsTold'
BY DEF JobInv, RowsInv, AcceptedIsTold, Was

LEMMA ExecutionsStay ==
    ASSUME JobInv, emitted \subseteq emitted',
           \A b \in Bookings : execution'[b] # "absent" =>
               execution[b] # "absent" \/ EverConfirmed(b)
    PROVE  StartedIsConfirmed'
BY DEF JobInv, RowsInv, StartedIsConfirmed, EverConfirmed, Was

LEMMA BookingsStay ==
    ASSUME JobInv, emitted \subseteq emitted', UNCHANGED booking
    PROVE  /\ BookingIsQuoted' /\ ConfirmedIsTold' /\ FreedIsTold'
           /\ \A b \in Bookings : Committed(b) => Committed(b)'
BY DEF JobInv, RowsInv, BookingIsQuoted, ConfirmedIsTold, FreedIsTold, HasQuote,
   EverConfirmed, EverFreed, Was, Committed

\* Bookings whose quote was accepted move to one status and say so.
LEMMA BookingsMove ==
    ASSUME JobInv, emitted \subseteq emitted',
           NEW S \in SUBSET Bookings, NEW to \in BookingStatus,
           booking' = [b \in Bookings |-> IF b \in S THEN to ELSE booking[b]],
           \A b \in S : HasQuote(b),
           \A b \in S : Key("booking", b, to) \in emitted',
           \A b \in S : to \in Confirmed => to = "confirmed" \/ EverConfirmed(b)
    PROVE  /\ booking' \in [Bookings -> BookingStatus \cup {"absent", "reserving"}]
           /\ BookingIsQuoted' /\ ConfirmedIsTold' /\ FreedIsTold'
           /\ \A b \in Bookings : Committed(b) => Committed(b)'
<1>1. booking' \in [Bookings -> BookingStatus \cup {"absent", "reserving"}]
  BY DEF JobInv, TypeOK
<1>2. BookingIsQuoted'
  BY DEF JobInv, RowsInv, BookingIsQuoted, HasQuote, Was
<1>3. ConfirmedIsTold'
  BY DEF JobInv, RowsInv, ConfirmedIsTold, EverConfirmed, Was
<1>4. FreedIsTold'
  BY DEF JobInv, RowsInv, FreedIsTold, EverFreed, Was
<1>5. ASSUME NEW b \in Bookings, Committed(b)
      PROVE  Committed(b)'
  BY <1>5 DEF Committed, BookingStatus
<1> QED
  BY <1>1, <1>2, <1>3, <1>4, <1>5

-----------------------------------------------------------------------------
(* The inductive step, one lemma per action.                               *)

USE DEF Emit

LEMMA LoadStep == ASSUME JobInv, Load PROVE JobInv'
<1>1. PICK r \in Fresh \ loaded : loaded' = loaded \cup {r}
  BY DEF Load
<1>2. Sound(r) /\ \A x \in loaded : Sound(x)
  BY <1>1, RequestsAreSound DEF JobInv, ReadsAreSound
<1>3. UNCHANGED <<enquiry, quote, booking, slot, offset, execution, invoice, emitted>>
  BY DEF Load
<1>4. TypeOK' /\ RowsInv'
  BY <1>3 DEF JobInv, TypeOK, RowsInv, AcceptedIsTold, BookingIsQuoted, ConfirmedIsTold,
     FreedIsTold, StartedIsConfirmed, BookedHasBooking, HasQuote, EverConfirmed, EverFreed,
     HasBooking, Was
<1>5. ASSUME NEW x \in loaded' PROVE Sound(x)'
  <2>1. Sound(x)
    BY <1>1, <1>2
  <2> QED
    BY <2>1, <1>3 DEF Sound, HasQuote, EverConfirmed, Was, Committed
<1> QED
  BY <1>4, <1>5 DEF JobInv, ReadsAreSound

LEMMA CreateEnquiryStep ==
    ASSUME JobInv, NEW e \in Enquiries, CreateEnquiry(e) PROVE JobInv'
<1> USE DEF CreateEnquiry
<1>1. TypeOK'
  BY DEF JobInv, TypeOK, EnquiryStatus
<1>2. BookedHasBooking'
  BY EnquiriesStay DEF JobInv, TypeOK, Booked
<1> QED
  BY <1>1, <1>2, QuotesStay, BookingsStay, ExecutionsStay, ReadsStay DEF JobInv, RowsInv

LEMMA TransitionEnquiryStep ==
    ASSUME JobInv, NEW r \in Requests("enquiry"), NEW to \in EnquiryStatus,
           NEW actor \in {"customer", "business"}, TransitionEnquiry(r, to, actor)
    PROVE  JobInv'
<1> USE DEF TransitionEnquiry
<1>1. to \notin Booked
  BY DEF MayMoveEnquiry, CUSTOMER_ALLOWED_TRANSITIONS, BUSINESS_ALLOWED_TRANSITIONS, Booked
<1>2. TypeOK'
  BY DEF JobInv, TypeOK
<1>3. BookedHasBooking'
  BY <1>1, EnquiriesStay DEF JobInv, TypeOK
<1> QED
  BY <1>2, <1>3, QuotesStay, BookingsStay, ExecutionsStay, ReadsStay DEF JobInv, RowsInv

LEMMA BulkTransitionEnquiriesStep ==
    ASSUME JobInv, BulkTransitionEnquiries PROVE JobInv'
<1>1. PICK to \in EnquiryStatus, S \in SUBSET Enquiries :
         LET moved == {e \in S : MayMoveEnquiry(enquiry[e], to, "business")}
         IN  /\ moved # {}
             /\ enquiry' = [e \in Enquiries |-> IF e \in moved THEN to ELSE enquiry[e]]
             /\ Emit({Key("enquiry", e, to) : e \in moved})
             /\ UNCHANGED <<quote, booking, slot, offset, execution, invoice, loaded>>
  BY DEF BulkTransitionEnquiries
<1>2. PICK moved : /\ moved = {e \in S : MayMoveEnquiry(enquiry[e], to, "business")}
                   /\ moved # {}
                   /\ enquiry' = [e \in Enquiries |-> IF e \in moved THEN to ELSE enquiry[e]]
                   /\ emitted \subseteq emitted'
  BY <1>1
<1>3. to \notin Booked
  BY <1>2 DEF MayMoveEnquiry, BUSINESS_ALLOWED_TRANSITIONS, Booked
<1>4. UNCHANGED <<quote, booking, slot, offset, execution, invoice, loaded>>
  BY <1>1
<1>5. TypeOK'
  BY <1>2, <1>4 DEF JobInv, TypeOK
<1>6. BookedHasBooking'
  BY <1>2, <1>3, EnquiriesStay
<1> QED
  BY <1>2, <1>4, <1>5, <1>6, QuotesStay, BookingsStay, ExecutionsStay, ReadsStay
     DEF JobInv, RowsInv

LEMMA CreateQuoteStep ==
    ASSUME JobInv, NEW r \in Requests("enquiry"), NEW q \in Quotes, CreateQuote(r, q)
    PROVE  JobInv'
<1> USE DEF CreateQuote
<1>1. TypeOK'
  BY DEF JobInv, TypeOK, EnquiryStatus, QuoteStatus
<1>2. BookedHasBooking'
  BY EnquiriesStay DEF JobInv, TypeOK, Booked
<1>3. AcceptedIsTold'
  BY DEF JobInv, RowsInv, TypeOK, AcceptedIsTold, Was
<1> QED
  BY <1>1, <1>2, <1>3, BookingsStay, ExecutionsStay, ReadsStay DEF JobInv, RowsInv

LEMMA TransitionQuoteStep ==
    ASSUME JobInv, NEW r \in Requests("quote"), NEW to \in QuoteStatus,
           NEW actor \in {"customer", "business"}, TransitionQuote(r, to, actor)
    PROVE  JobInv'
<1> USE DEF TransitionQuote
<1>1. r.id \in Quotes
  BY RequestsAreSound DEF Requests, Sound
<1>2. /\ enquiry' \in [Enquiries -> EnquiryStatus \cup Absent]
      /\ \A e \in Enquiries : enquiry'[e] \in Booked => enquiry[e] \in Booked
  <2>1. CASE enquiry' = enquiry
    BY <2>1 DEF JobInv, TypeOK
  <2>2. CASE enquiry' = Cascade(EnquiryOf[r.id], "quoted", "customer_accepted")
    BY <2>2, CascadeShape DEF JobInv, EnquiryStatus, Booked
  <2> QED
    BY <2>1, <2>2
<1>3. TypeOK'
  BY <1>2 DEF JobInv, TypeOK
<1>4. BookedHasBooking'
  BY <1>2, EnquiriesStay
<1>5. AcceptedIsTold'
  BY <1>1 DEF JobInv, RowsInv, TypeOK, AcceptedIsTold, Was
<1> QED
  BY <1>3, <1>4, <1>5, BookingsStay, ExecutionsStay, ReadsStay DEF JobInv, RowsInv

LEMMA ReserveSlotStep ==
    ASSUME JobInv, NEW b \in Bookings, NEW t \in Slots, NEW o \in Offsets,
           ReserveSlot(b, t, o) PROVE JobInv'
<1> USE DEF ReserveSlot
<1>1. TypeOK'
  BY DEF JobInv, TypeOK
<1>2. HasQuote(b)
  BY LifecycleAssumption DEF LifecycleAssumption, JobInv, RowsInv, AcceptedIsTold, HasQuote
<1>3. BookingIsQuoted' /\ ConfirmedIsTold' /\ FreedIsTold'
  BY <1>2 DEF JobInv, RowsInv, TypeOK, BookingIsQuoted, ConfirmedIsTold, FreedIsTold,
     HasQuote, EverConfirmed, EverFreed, Was, Confirmed, Freed
<1>4. \A c \in Bookings : Committed(c) => Committed(c)'
  BY DEF JobInv, TypeOK, Committed
<1>5. BookedHasBooking'
  BY EnquiriesStay
<1> QED
  BY <1>1, <1>3, <1>4, <1>5, QuotesStay, ExecutionsStay, ReadsStay DEF JobInv, RowsInv

LEMMA CreateBookingStep ==
    ASSUME JobInv, NEW b \in Bookings, CreateBooking(b) PROVE JobInv'
<1> USE DEF CreateBooking
<1>1. /\ enquiry' \in [Enquiries -> EnquiryStatus \cup Absent]
      /\ \A e \in Enquiries : enquiry'[e] \in Booked => enquiry[e] \in Booked
  BY CascadeShape DEF JobInv, EnquiryStatus, Booked
<1>2. TypeOK'
  BY <1>1 DEF JobInv, TypeOK, BookingStatus
<1>3. BookingIsQuoted' /\ ConfirmedIsTold' /\ FreedIsTold'
  BY DEF JobInv, RowsInv, TypeOK, BookingIsQuoted, ConfirmedIsTold, FreedIsTold,
     HasQuote, EverConfirmed, EverFreed, Was, Confirmed, Freed
<1>4. \A c \in Bookings : Committed(c) => Committed(c)'
  BY DEF JobInv, TypeOK, Committed
<1>5. BookedHasBooking'
  BY <1>1, EnquiriesStay
<1> QED
  BY <1>2, <1>3, <1>4, <1>5, QuotesStay, ExecutionsStay, ReadsStay DEF JobInv, RowsInv

LEMMA DropReservationStep ==
    ASSUME JobInv, NEW b \in Bookings, DropReservation(b) PROVE JobInv'
<1> USE DEF DropReservation
<1>1. TypeOK'
  BY DEF JobInv, TypeOK
<1>2. BookingIsQuoted' /\ ConfirmedIsTold' /\ FreedIsTold'
  BY DEF JobInv, RowsInv, TypeOK, BookingIsQuoted, ConfirmedIsTold, FreedIsTold,
     HasQuote, EverConfirmed, EverFreed, Was, Confirmed, Freed
<1>3. \A c \in Bookings : Committed(c) => Committed(c)'
  BY DEF JobInv, TypeOK, Committed
<1>4. BookedHasBooking'
  BY EnquiriesStay
<1> QED
  BY <1>1, <1>2, <1>3, <1>4, QuotesStay, ExecutionsStay, ReadsStay DEF JobInv, RowsInv

\* A booking goes on from a status only if the keys behind that status allow
\* the next one.
LEMMA MoveIsBacked ==
    ASSUME NEW seen, NEW to, NEW actor, MayMoveBooking(seen, to, actor), to \in Confirmed
    PROVE  to = "confirmed" \/ seen \in Confirmed
BY DEF MayMoveBooking, BOOKING_TRANSITIONS, Confirmed

LEMMA TransitionBookingStep ==
    ASSUME JobInv, NEW r \in Requests("booking"), NEW to \in BookingStatus,
           NEW actor \in {"customer", "business"}, TransitionBooking(r, to, actor)
    PROVE  JobInv'
<1> USE DEF TransitionBooking
<1>1. /\ r.id \in Bookings /\ HasQuote(r.id)
      /\ r.seen \in Confirmed => EverConfirmed(r.id)
  BY RequestsAreSound DEF Requests, Sound
<1>2. /\ booking' = [b \in Bookings |-> IF b \in {r.id} THEN to ELSE booking[b]]
      /\ Key("booking", r.id, to) \in emitted'
  BY <1>1 DEF JobInv, TypeOK
<1>3. to \in Confirmed => to = "confirmed" \/ EverConfirmed(r.id)
  BY <1>1, MoveIsBacked
<1>4. /\ booking' \in [Bookings -> BookingStatus \cup {"absent", "reserving"}]
      /\ BookingIsQuoted' /\ ConfirmedIsTold' /\ FreedIsTold'
      /\ \A b \in Bookings : Committed(b) => Committed(b)'
  <2>1. PICK S \in SUBSET Bookings : S = {r.id}
    BY <1>1
  <2>2. booking' = [b \in Bookings |-> IF b \in S THEN to ELSE booking[b]]
    BY <1>2, <2>1
  <2>3. /\ \A b \in S : HasQuote(b)
        /\ \A b \in S : Key("booking", b, to) \in emitted'
        /\ \A b \in S : to \in Confirmed => to = "confirmed" \/ EverConfirmed(b)
    BY <1>1, <1>2, <1>3, <2>1
  <2>4. emitted \subseteq emitted'
    OBVIOUS
  <2> QED
    BY <2>2, <2>3, <2>4, BookingsMove
<1>5. /\ enquiry' \in [Enquiries -> EnquiryStatus \cup Absent]
      /\ \A e \in Enquiries : enquiry'[e] \in Booked =>
            \/ enquiry[e] \in Booked
            \/ to = "confirmed" /\ e = EnquiryOf[QuoteOf[r.id]]
  BY <1>1, AfterBookingShape DEF JobInv
<1>6. TypeOK'
  BY <1>4, <1>5 DEF JobInv, TypeOK
<1>7. BookedHasBooking'
  <2>1. to = "confirmed" => EverConfirmed(r.id)'
    BY <1>2 DEF EverConfirmed, Was
  <2> QED
    BY <1>1, <1>5, <2>1, EnquiriesStay DEF HasBooking
<1> QED
  BY <1>4, <1>6, <1>7, QuotesStay, ExecutionsStay, ReadsStay DEF JobInv, RowsInv

LEMMA BulkTransitionBookingsStep ==
    ASSUME JobInv, BulkTransitionBookings PROVE JobInv'
<1>1. PICK to \in BookingStatus, S \in SUBSET Bookings :
         LET moved == {b \in S : Committed(b) /\ MayMoveBooking(booking[b], to, "business")}
             of(e) == {b \in moved : EnquiryOf[QuoteOf[b]] = e}
         IN  /\ Cardinality(moved) > 1
             /\ booking' = [b \in Bookings |-> IF b \in moved THEN to ELSE booking[b]]
             /\ enquiry' = [e \in Enquiries |->
                   IF of(e) = {} THEN enquiry[e]
                   ELSE EnquiryAfterBooking(CHOOSE b \in of(e) : TRUE, to)[e]]
             /\ Emit({Key("booking", b, to) : b \in moved})
             /\ UNCHANGED <<quote, slot, offset, execution, invoice, loaded>>
  BY DEF BulkTransitionBookings
<1>2. PICK moved \in SUBSET Bookings :
         /\ moved = {b \in S : Committed(b) /\ MayMoveBooking(booking[b], to, "business")}
         /\ booking' = [b \in Bookings |-> IF b \in moved THEN to ELSE booking[b]]
         /\ enquiry' = [e \in Enquiries |->
               IF {b \in moved : EnquiryOf[QuoteOf[b]] = e} = {} THEN enquiry[e]
               ELSE EnquiryAfterBooking(
                        CHOOSE b \in {x \in moved : EnquiryOf[QuoteOf[x]] = e} : TRUE, to)[e]]
         /\ \A b \in moved : Key("booking", b, to) \in emitted'
         /\ emitted \subseteq emitted'
  BY <1>1
<1>3. UNCHANGED <<quote, slot, offset, execution, invoice, loaded>>
  BY <1>1
<1>4. \A b \in moved : /\ HasQuote(b)
                       /\ to \in Confirmed => to = "confirmed" \/ EverConfirmed(b)
  BY <1>2, MoveIsBacked DEF Committed, JobInv, RowsInv, BookingIsQuoted, ConfirmedIsTold
<1>5. /\ booking' \in [Bookings -> BookingStatus \cup {"absent", "reserving"}]
      /\ BookingIsQuoted' /\ ConfirmedIsTold' /\ FreedIsTold'
      /\ \A b \in Bookings : Committed(b) => Committed(b)'
  BY <1>2, <1>4, BookingsMove
<1>6. ASSUME NEW e \in Enquiries
      PROVE  /\ enquiry'[e] \in EnquiryStatus \cup Absent
             /\ enquiry'[e] \in Booked => enquiry[e] \in Booked \/ HasBooking(e)'
  <2>1. CASE {b \in moved : EnquiryOf[QuoteOf[b]] = e} = {}
    BY <1>2, <2>1 DEF JobInv, TypeOK
  <2>2. CASE {b \in moved : EnquiryOf[QuoteOf[b]] = e} # {}
    <3>1. PICK b \in moved : EnquiryOf[QuoteOf[b]] = e /\ enquiry'[e] = EnquiryAfterBooking(b, to)[e]
      BY <1>2, <2>2
    <3>2. to = "confirmed" => EverConfirmed(b)'
      BY <1>2 DEF EverConfirmed, Was
    <3>3. b \in Bookings
      BY <1>2
    <3>4. /\ EnquiryAfterBooking(b, to) \in [Enquiries -> EnquiryStatus \cup Absent]
          /\ EnquiryAfterBooking(b, to)[e] \in Booked =>
                enquiry[e] \in Booked \/ to = "confirmed"
      BY <3>3, AfterBookingShape DEF JobInv
    <3> QED
      BY <3>1, <3>2, <3>3, <3>4 DEF HasBooking
  <2> QED
    BY <2>1, <2>2
<1>7. TypeOK'
  <2>1. enquiry' \in [Enquiries -> EnquiryStatus \cup Absent]
    BY <1>2, <1>6
  <2> QED
    BY <1>3, <1>5, <2>1 DEF JobInv, TypeOK
<1>8. BookedHasBooking'
  BY <1>2, <1>6, EnquiriesStay
<1> QED
  BY <1>2, <1>3, <1>5, <1>7, <1>8, QuotesStay, ExecutionsStay, ReadsStay DEF JobInv, RowsInv

LEMMA CreateFromBookingStep ==
    ASSUME JobInv, NEW r \in Requests("booking"), CreateFromBooking(r) PROVE JobInv'
<1> USE DEF CreateFromBooking
<1>1. r.id \in Bookings /\ EverConfirmed(r.id)
  BY RequestsAreSound DEF Requests, Sound, Confirmed
<1>2. TypeOK'
  BY DEF JobInv, TypeOK, ServiceExecutionStatus
<1>3. StartedIsConfirmed'
  BY <1>1, ExecutionsStay DEF JobInv, TypeOK
<1>4. \A b \in Bookings : execution[b] # "absent" => execution'[b] # "absent"
  BY DEF JobInv, TypeOK
<1>5. BookedHasBooking'
  BY EnquiriesStay
<1> QED
  BY <1>2, <1>3, <1>4, <1>5, QuotesStay, BookingsStay, ReadsStay DEF JobInv, RowsInv

LEMMA TransitionExecutionStep ==
    ASSUME JobInv, NEW r \in Requests("execution"), NEW to \in ServiceExecutionStatus,
           TransitionExecution(r, to)
    PROVE  JobInv'
<1> USE DEF TransitionExecution
<1>1. r.id \in Bookings /\ execution[r.id] # "absent"
  BY RequestsAreSound DEF Requests, Sound
<1>2. TypeOK'
  BY DEF JobInv, TypeOK
<1>3. StartedIsConfirmed'
  BY <1>1, ExecutionsStay DEF JobInv, TypeOK
<1>4. \A b \in Bookings : execution[b] # "absent" => execution'[b] # "absent"
  BY DEF JobInv, TypeOK, ServiceExecutionStatus
<1>5. BookedHasBooking'
  BY EnquiriesStay
<1> QED
  BY <1>2, <1>3, <1>4, <1>5, QuotesStay, BookingsStay, ReadsStay DEF JobInv, RowsInv

LEMMA CompleteStep ==
    ASSUME JobInv, NEW r \in Requests("execution"),
           NEW number \in {r.number, NextInvoiceNumber}, Complete(r, number)
    PROVE  JobInv'
<1> USE DEF Complete
<1>1. r.id \in Bookings /\ execution[r.id] # "absent" /\ number \in Nat \ {0}
  BY RequestsAreSound, NumberIsPositive DEF Requests, Sound
<1>2. /\ booking' \in [Bookings -> BookingStatus \cup {"absent", "reserving"}]
      /\ BookingIsQuoted' /\ ConfirmedIsTold' /\ FreedIsTold'
      /\ \A b \in Bookings : Committed(b) => Committed(b)'
  <2>1. CASE CascadesTo(r.id)
    <3>1. PICK S \in SUBSET Bookings : S = {r.id}
      BY <1>1
    <3>2. booking' = [b \in Bookings |-> IF b \in S THEN "completed" ELSE booking[b]]
      BY <2>1, <3>1 DEF JobInv, TypeOK
    <3>3. /\ \A b \in S : HasQuote(b)
          /\ \A b \in S : Key("booking", b, "completed") \in emitted'
          /\ \A b \in S : EverConfirmed(b)
      BY <1>1, <2>1, <3>1 DEF CascadesTo, JobInv, RowsInv, BookingIsQuoted, ConfirmedIsTold,
         Confirmed
    <3>4. emitted \subseteq emitted' /\ "completed" \in BookingStatus
      BY DEF BookingStatus
    <3> QED
      BY <3>2, <3>3, <3>4, BookingsMove
  <2>2. CASE ~ CascadesTo(r.id)
    BY <2>2, BookingsStay DEF JobInv, TypeOK
  <2> QED
    BY <2>1, <2>2
<1>3. /\ enquiry' \in [Enquiries -> EnquiryStatus \cup Absent]
      /\ \A e \in Enquiries : enquiry'[e] \in Booked => enquiry[e] \in Booked
  <2>1. CASE CascadesTo(r.id)
    BY <1>1, <2>1, AfterBookingShape DEF JobInv
  <2>2. CASE ~ CascadesTo(r.id)
    BY <2>2 DEF JobInv, TypeOK
  <2> QED
    BY <2>1, <2>2
<1>4. TypeOK'
  <2>1. invoice' \in [Bookings -> Nat]
    BY <1>1 DEF CreateCompletionRecords, JobInv, TypeOK
  <2>2. execution' \in [Bookings -> ServiceExecutionStatus \cup Absent]
    BY DEF JobInv, TypeOK, ServiceExecutionStatus
  <2> QED
    BY <1>2, <1>3, <2>1, <2>2 DEF JobInv, TypeOK
<1>5. StartedIsConfirmed'
  BY <1>1, ExecutionsStay DEF JobInv, TypeOK
<1>6. \A b \in Bookings : execution[b] # "absent" => execution'[b] # "absent"
  BY DEF JobInv, TypeOK
<1>7. BookedHasBooking'
  BY <1>3, EnquiriesStay
<1> QED
  BY <1>2, <1>4, <1>5, <1>6, <1>7, QuotesStay, ReadsStay DEF JobInv, RowsInv

-----------------------------------------------------------------------------

\* Every step is one of these, so a proof about the steps treats each once.
Step ==
    \/ Load
    \/ \E e \in Enquiries : CreateEnquiry(e)
    \/ \E r \in Requests("enquiry"), to \in EnquiryStatus, actor \in {"customer", "business"} :
           TransitionEnquiry(r, to, actor)
    \/ BulkTransitionEnquiries
    \/ \E r \in Requests("enquiry"), q \in Quotes : CreateQuote(r, q)
    \/ \E r \in Requests("quote"), to \in QuoteStatus, actor \in {"customer", "business"} :
           TransitionQuote(r, to, actor)
    \/ \E b \in Bookings, t \in Slots, o \in Offsets : ReserveSlot(b, t, o)
    \/ \E b \in Bookings : CreateBooking(b)
    \/ \E b \in Bookings : DropReservation(b)
    \/ \E r \in Requests("booking"), to \in BookingStatus, actor \in {"customer", "business"} :
           TransitionBooking(r, to, actor)
    \/ BulkTransitionBookings
    \/ \E r \in Requests("booking") : CreateFromBooking(r)
    \/ \E r \in Requests("execution"), to \in ServiceExecutionStatus : TransitionExecution(r, to)
    \/ \E r \in Requests("execution") :
           \E number \in {r.number, NextInvoiceNumber} : Complete(r, number)

LEMMA NextIsStep == Next => Step
BY DEF Next, Step, CreateAnEnquiry, TransitionMyEnquiry, TransitionBusinessEnquiry,
   CreateQuoteForEnquiry, TransitionBusinessQuote, TransitionMyQuote, CreateABooking,
   TransitionBusinessBooking, TransitionMyBooking, CreateServiceExecution,
   TransitionServiceExecution, CompleteServiceExecution

LEMMA JobInit == Init => JobInv
BY LifecycleAssumption DEF Init, JobInv, TypeOK, Absent, RowsInv, AcceptedIsTold,
   BookingIsQuoted, ConfirmedIsTold, FreedIsTold, StartedIsConfirmed, BookedHasBooking,
   ReadsAreSound, Confirmed, Freed, Booked

LEMMA JobStutter == JobInv /\ UNCHANGED vars => JobInv'
BY DEF vars, JobInv, TypeOK, RowsInv, AcceptedIsTold, BookingIsQuoted, ConfirmedIsTold,
   FreedIsTold, StartedIsConfirmed, BookedHasBooking, ReadsAreSound, Sound, HasQuote,
   EverConfirmed, EverFreed, HasBooking, Was, Committed

LEMMA JobStep == JobInv /\ Step => JobInv'
BY LoadStep, CreateEnquiryStep, TransitionEnquiryStep, BulkTransitionEnquiriesStep,
   CreateQuoteStep, TransitionQuoteStep, ReserveSlotStep, CreateBookingStep,
   DropReservationStep, TransitionBookingStep, BulkTransitionBookingsStep,
   CreateFromBookingStep, TransitionExecutionStep, CompleteStep DEF Step

LEMMA JobInductive == JobInv /\ [Next]_vars => JobInv'
BY NextIsStep, JobStutter, JobStep

LEMMA JobInvariant == Spec => []JobInv
BY JobInit, JobInductive, PTL DEF Spec

\* Every row of the lifecycle holds a status of its table, every booking a
\* slot and every invoice a number, whatever overtaken requests wrote.
THEOREM TypeCorrect == Spec => []TypeOK
<1>1. JobInv => TypeOK
  BY DEF JobInv
<1> QED
  BY <1>1, JobInvariant, PTL

-----------------------------------------------------------------------------
(* Every step is a step of Fulfilment.                                     *)

LEMMA TellsTheTruth == ASSUME BookedHasBooking' PROVE Promise!Tell
BY DEF Promise!Tell, BookedHasBooking, HasBooking, EverConfirmed, Booked

NoneStarts == \A b \in Bookings : execution'[b] # "absent" <=> execution[b] # "absent"

\* A step that accepts, confirms, starts and bills nothing.
LEMMA NoWork ==
    ASSUME JobInv', NEW K, emitted' = emitted \cup K,
           \A q \in Quotes : Key("quote", q, "accepted") \notin K,
           \A b \in Bookings : Key("booking", b, "confirmed") \notin K,
           NoneStarts, UNCHANGED invoice
    PROVE  Promise!Next
<1>1. /\ \A q \in Quotes : Was("quote", q, "accepted")' <=> Was("quote", q, "accepted")
      /\ \A b \in Bookings : Was("booking", b, "confirmed")' <=> Was("booking", b, "confirmed")
  BY DEF Was
<1>2. UNCHANGED {q \in Quotes : Was("quote", q, "accepted")}
  BY <1>1
<1>3. UNCHANGED {b \in Bookings : Was("booking", b, "confirmed")}
  BY <1>1
<1>4. UNCHANGED {b \in Bookings : execution[b] # "absent"}
  BY DEF NoneStarts
<1>5. UNCHANGED Promise!work
  BY <1>2, <1>3, <1>4 DEF Promise!work
<1> QED
  BY <1>5, TellsTheTruth DEF Promise!Next, JobInv, RowsInv

\* Nothing at all is said or started.
LEMMA NothingSaid ==
    ASSUME JobInv', UNCHANGED <<emitted, execution, invoice>> PROVE Promise!Next
<1>1. PICK K : K = {}
  OBVIOUS
<1>2. emitted' = emitted \cup K
  BY <1>1
<1>3. NoneStarts
  BY DEF NoneStarts
<1> QED
  BY <1>1, <1>2, <1>3, NoWork

LEMMA QuoteIsPromised ==
    ASSUME JobInv, JobInv', NEW r \in Requests("quote"), NEW to \in QuoteStatus,
           NEW actor \in {"customer", "business"}, TransitionQuote(r, to, actor)
    PROVE  Promise!Next
<1> USE DEF TransitionQuote
<1>1. r.id \in Quotes
  BY RequestsAreSound DEF Requests, Sound
<1>2. NoneStarts
  BY DEF NoneStarts
<1>3. PICK K : K = {Key("quote", r.id, to)} /\ emitted' = emitted \cup K
  OBVIOUS
<1>4. \A b \in Bookings : Key("booking", b, "confirmed") \notin K
  BY <1>3 DEF Key
<1>5. CASE to # "accepted"
  <2>1. \A q \in Quotes : Key("quote", q, "accepted") \notin K
    BY <1>3, <1>5 DEF Key
  <2> QED
    BY <1>2, <1>3, <1>4, <2>1, NoWork
<1>6. CASE to = "accepted"
  <2>1. \A q \in Quotes :
            Was("quote", q, "accepted")' <=> Was("quote", q, "accepted") \/ q = r.id
    BY <1>3, <1>6 DEF Was, Key
  <2>2. {q \in Quotes : Was("quote", q, "accepted")}' =
        {q \in Quotes : Was("quote", q, "accepted")} \cup {r.id}
    BY <1>1, <2>1
  <2>3. \A b \in Bookings : Was("booking", b, "confirmed")' <=> Was("booking", b, "confirmed")
    BY <1>3, <1>4 DEF Was
  <2>4. UNCHANGED {b \in Bookings : Was("booking", b, "confirmed")}
    BY <2>3
  <2>5. UNCHANGED <<{b \in Bookings : execution[b] # "absent"}, invoice>>
    BY <1>2 DEF NoneStarts
  <2>6. Promise!Accept(r.id)
    BY <2>2, <2>4, <2>5 DEF Promise!Accept
  <2> QED
    BY <1>1, <2>6, TellsTheTruth DEF Promise!Next, JobInv, RowsInv
<1> QED
  BY <1>5, <1>6

\* One booking or several are confirmed, or moved to another status.
LEMMA BookingsArePromised ==
    ASSUME JobInv, JobInv', NEW S \in SUBSET Bookings, NEW to \in BookingStatus,
           \A b \in S : HasQuote(b),
           emitted' = emitted \cup {Key("booking", b, to) : b \in S},
           UNCHANGED <<execution, invoice>>
    PROVE  Promise!Next
<1>1. NoneStarts
  BY DEF NoneStarts
<1>2. PICK K : K = {Key("booking", b, to) : b \in S} /\ emitted' = emitted \cup K
  OBVIOUS
<1>3. \A q \in Quotes : Key("quote", q, "accepted") \notin K
  BY <1>2 DEF Key
<1>4. CASE to # "confirmed"
  <2>1. \A b \in Bookings : Key("booking", b, "confirmed") \notin K
    BY <1>2, <1>4 DEF Key
  <2> QED
    BY <1>1, <1>2, <1>3, <2>1, NoWork
<1>5. CASE to = "confirmed"
  <2>1. \A b \in Bookings :
            Was("booking", b, "confirmed")' <=> Was("booking", b, "confirmed") \/ b \in S
    BY <1>2, <1>5 DEF Was, Key
  <2>2. {b \in Bookings : Was("booking", b, "confirmed")}' =
        {b \in Bookings : Was("booking", b, "confirmed")} \cup S
    BY <2>1
  <2>3. \A q \in Quotes : Was("quote", q, "accepted")' <=> Was("quote", q, "accepted")
    BY <1>2, <1>3 DEF Was
  <2>4. UNCHANGED {q \in Quotes : Was("quote", q, "accepted")}
    BY <2>3
  <2>5. UNCHANGED <<{b \in Bookings : execution[b] # "absent"}, invoice>>
    OBVIOUS
  <2>6. \A b \in S : QuoteOf[b] \in {q \in Quotes : Was("quote", q, "accepted")}
    BY LifecycleAssumption DEF LifecycleAssumption, HasQuote
  <2>7. Promise!Confirm(S)
    BY <2>2, <2>4, <2>5, <2>6 DEF Promise!Confirm
  <2> QED
    BY <2>7, TellsTheTruth DEF Promise!Next, JobInv, RowsInv
<1> QED
  BY <1>4, <1>5

LEMMA StartIsPromised ==
    ASSUME JobInv, JobInv', NEW r \in Requests("booking"), CreateFromBooking(r)
    PROVE  Promise!Next
<1> USE DEF CreateFromBooking
<1>1. r.id \in Bookings /\ EverConfirmed(r.id)
  BY RequestsAreSound DEF Requests, Sound, Confirmed
<1>2. {b \in Bookings : execution[b] # "absent"}' =
      {b \in Bookings : execution[b] # "absent"} \cup {r.id}
  BY <1>1 DEF JobInv, TypeOK
<1>3. UNCHANGED <<{q \in Quotes : Was("quote", q, "accepted")},
                  {b \in Bookings : Was("booking", b, "confirmed")}, invoice>>
  BY DEF Was
<1>4. Promise!Start(r.id)
  BY <1>1, <1>2, <1>3 DEF Promise!Start, EverConfirmed
<1> QED
  BY <1>1, <1>4, TellsTheTruth DEF Promise!Next, JobInv, RowsInv

LEMMA CompletionIsPromised ==
    ASSUME JobInv, JobInv', NEW r \in Requests("execution"),
           NEW number \in {r.number, NextInvoiceNumber}, Complete(r, number)
    PROVE  Promise!Next
<1> USE DEF Complete
<1>1. r.id \in Bookings /\ execution[r.id] # "absent" /\ number \in Nat \ {0}
  BY RequestsAreSound, NumberIsPositive DEF Requests, Sound
<1>2. NoneStarts
  BY <1>1 DEF NoneStarts, JobInv, TypeOK
<1>3. PICK K :
         /\ emitted' = emitted \cup K
         /\ \A k \in K : \/ k = Key("service", r.id, "completed")
                         \/ k = Key("invoice", r.id, "issued")
                         \/ k = Key("booking", r.id, "completed")
  OBVIOUS
<1>4. /\ \A q \in Quotes : Key("quote", q, "accepted") \notin K
      /\ \A b \in Bookings : Key("booking", b, "confirmed") \notin K
  BY <1>3 DEF Key
<1>5. CASE invoice[r.id] # 0
  BY <1>2, <1>3, <1>4, <1>5, NoWork DEF CreateCompletionRecords
<1>6. CASE invoice[r.id] = 0
  <2>1. /\ \A c \in Bookings : invoice[c] # number
        /\ invoice' = [invoice EXCEPT ![r.id] = number]
        /\ invoice'[r.id] = number
    BY <1>1, <1>6 DEF CreateCompletionRecords, JobInv, TypeOK
  <2>2. /\ \A q \in Quotes : Was("quote", q, "accepted")' <=> Was("quote", q, "accepted")
        /\ \A b \in Bookings :
              Was("booking", b, "confirmed")' <=> Was("booking", b, "confirmed")
    BY <1>3, <1>4 DEF Was
  <2>3. UNCHANGED {q \in Quotes : Was("quote", q, "accepted")}
    BY <2>2
  <2>4. UNCHANGED {b \in Bookings : Was("booking", b, "confirmed")}
    BY <2>2
  <2>5. UNCHANGED {b \in Bookings : execution[b] # "absent"}
    BY <1>2 DEF NoneStarts
  <2>6. Promise!Bill(r.id)
    BY <1>1, <1>6, <2>1, <2>3, <2>4, <2>5 DEF Promise!Bill
  <2> QED
    BY <1>1, <2>6, TellsTheTruth DEF Promise!Next, JobInv, RowsInv
<1> QED
  BY <1>5, <1>6

LEMMA StepIsPromised == JobInv /\ JobInv' /\ Step => Promise!Next
<1> SUFFICES ASSUME JobInv, JobInv', Step PROVE Promise!Next
  OBVIOUS
<1>1. CASE Load
  BY <1>1, NothingSaid DEF Load
<1>2. ASSUME NEW e \in Enquiries, CreateEnquiry(e) PROVE Promise!Next
  <2>1. PICK K : K = {Key("enquiry", e, "submitted")} /\ emitted' = emitted \cup K
    BY <1>2 DEF CreateEnquiry
  <2>2. NoneStarts /\ UNCHANGED invoice
    BY <1>2 DEF CreateEnquiry, NoneStarts
  <2> QED
    BY <2>1, <2>2, NoWork DEF Key
<1>3. ASSUME NEW r \in Requests("enquiry"), NEW to \in EnquiryStatus,
             NEW actor \in {"customer", "business"}, TransitionEnquiry(r, to, actor)
      PROVE  Promise!Next
  <2>1. PICK K : K = {Key("enquiry", r.id, to)} /\ emitted' = emitted \cup K
    BY <1>3 DEF TransitionEnquiry
  <2>2. NoneStarts /\ UNCHANGED invoice
    BY <1>3 DEF TransitionEnquiry, NoneStarts
  <2> QED
    BY <2>1, <2>2, NoWork DEF Key
<1>4. CASE BulkTransitionEnquiries
  <2>1. PICK to, M :
           /\ emitted' = emitted \cup {Key("enquiry", e, to) : e \in M}
           /\ UNCHANGED <<execution, invoice>>
    BY <1>4 DEF BulkTransitionEnquiries
  <2>2. PICK K : K = {Key("enquiry", e, to) : e \in M} /\ emitted' = emitted \cup K
    BY <2>1
  <2>3. NoneStarts
    BY <2>1 DEF NoneStarts
  <2> QED
    BY <2>1, <2>2, <2>3, NoWork DEF Key
<1>5. ASSUME NEW r \in Requests("enquiry"), NEW q \in Quotes, CreateQuote(r, q)
      PROVE  Promise!Next
  BY <1>5, NothingSaid DEF CreateQuote
<1>6. ASSUME NEW r \in Requests("quote"), NEW to \in QuoteStatus,
             NEW actor \in {"customer", "business"}, TransitionQuote(r, to, actor)
      PROVE  Promise!Next
  BY <1>6, QuoteIsPromised
<1>7. ASSUME NEW b \in Bookings, NEW t \in Slots, NEW o \in Offsets,
           ReserveSlot(b, t, o) PROVE Promise!Next
  BY <1>7, NothingSaid DEF ReserveSlot
<1>8. ASSUME NEW b \in Bookings, CreateBooking(b) \/ DropReservation(b) PROVE Promise!Next
  BY <1>8, NothingSaid DEF CreateBooking, DropReservation
<1>9. ASSUME NEW r \in Requests("booking"), NEW to \in BookingStatus,
             NEW actor \in {"customer", "business"}, TransitionBooking(r, to, actor)
      PROVE  Promise!Next
  <2>1. r.id \in Bookings /\ HasQuote(r.id)
    BY RequestsAreSound DEF Requests, Sound
  <2>2. PICK S \in SUBSET Bookings : S = {r.id}
    BY <2>1
  <2>3. /\ emitted' = emitted \cup {Key("booking", b, to) : b \in S}
        /\ UNCHANGED <<execution, invoice>>
    BY <1>9, <2>2 DEF TransitionBooking
  <2> QED
    BY <2>1, <2>2, <2>3, BookingsArePromised
<1>10. CASE BulkTransitionBookings
  <2>1. PICK to \in BookingStatus, M \in SUBSET Bookings :
           /\ \A b \in M : Committed(b)
           /\ emitted' = emitted \cup {Key("booking", b, to) : b \in M}
           /\ UNCHANGED <<execution, invoice>>
    BY <1>10 DEF BulkTransitionBookings
  <2>2. \A b \in M : HasQuote(b)
    BY <2>1 DEF Committed, JobInv, RowsInv, BookingIsQuoted
  <2> QED
    BY <2>1, <2>2, BookingsArePromised
<1>11. ASSUME NEW r \in Requests("booking"), CreateFromBooking(r) PROVE Promise!Next
  BY <1>11, StartIsPromised
<1>12. ASSUME NEW r \in Requests("execution"), NEW to \in ServiceExecutionStatus,
              TransitionExecution(r, to)
       PROVE  Promise!Next
  <2>1. r.id \in Bookings /\ execution[r.id] # "absent"
    BY RequestsAreSound DEF Requests, Sound
  <2>2. NoneStarts /\ UNCHANGED invoice
    BY <1>12, <2>1 DEF TransitionExecution, NoneStarts, JobInv, TypeOK, ServiceExecutionStatus
  <2>3. PICK K : K = {Key("service", r.id, to)} /\ emitted' = emitted \cup K
    BY <1>12 DEF TransitionExecution
  <2> QED
    BY <2>2, <2>3, NoWork DEF Key
<1>13. ASSUME NEW r \in Requests("execution"),
              NEW number \in {r.number, NextInvoiceNumber}, Complete(r, number)
       PROVE  Promise!Next
  BY <1>13, CompletionIsPromised
<1> QED
  BY <1>1, <1>2, <1>3, <1>4, <1>5, <1>6, <1>7, <1>8, <1>9, <1>10, <1>11, <1>12, <1>13 DEF Step

LEMMA InitIsPromised == Init => Promise!Init
BY DEF Init, Promise!Init, Was

LEMMA StutterIsPromised == UNCHANGED vars => UNCHANGED Promise!vars
BY DEF vars, Promise!vars, Promise!work, Was

\* The five rows and their cascades implement Fulfilment: whatever the
\* order of the requests and however old their reads, no booking is confirmed
\* without an accepted quote, no enquiry says booked without a confirmed
\* booking, no work starts on a booking never confirmed, and no execution is
\* billed twice or under a number in use.
THEOREM Fulfils == Spec => KeepsPromise
<1>1. JobInv /\ JobInv' /\ [Next]_vars => [Promise!Next]_(Promise!vars)
  BY NextIsStep, StepIsPromised, StutterIsPromised
<1> QED
  BY <1>1, InitIsPromised, JobInvariant, PTL DEF Spec, KeepsPromise, Promise!Spec

-----------------------------------------------------------------------------
(* The advisory lock.                                                      *)

LEMMA FewerAreFewer ==
    ASSUME NEW S, IsFiniteSet(S), NEW T \in SUBSET S
    PROVE  Cardinality(T) \in Nat /\ Cardinality(S) \in Nat /\ Cardinality(T) <= Cardinality(S)
BY FS_Subset, FS_CardinalityType

\* A part of an hour with a place left has one left.
LEMMA RoomForFewer ==
    ASSUME NEW h, NEW S \in SUBSET ConcurrentIn(h), NEW T \in SUBSET S,
           Cardinality(S) < HourLimit
    PROVE  Cardinality(T) < HourLimit
<1>1. IsFiniteSet(S)
  BY LifecycleAssumption, FS_Subset DEF LifecycleAssumption, ConcurrentIn, Existing
<1> QED
  BY <1>1, FewerAreFewer, LifecycleAssumption DEF LifecycleAssumption

\* The invariant survives a step that takes no lock, if whatever joins a
\* locked hour, its time written in UTC, is a booking that was given up before.
LEMMA HourStays ==
    ASSUME HourInv, emitted \subseteq emitted',
           \A b \in Bookings : booking'[b] = "reserving" =>
               booking[b] = "reserving" /\ slot'[b] = slot[b] /\ offset'[b] = offset[b],
           \A c \in Existing' : slot'[c] = slot[c] /\ offset'[c] = offset[c],
           \A c \in Existing' \ Existing :
               \/ EverFreed(c)
               \/ offset[c] # 0
               \/ \A b \in Bookings : Holds(b)' => Hour(slot[b]) # Hour(slot[c])
    PROVE  HourInv'
<1>0. \A b \in Bookings : Holds(b)' => Holds(b) /\ slot'[b] = slot[b]
  BY DEF Holds
<1>1. OneInHour'
  BY <1>0 DEF HourInv, OneInHour, Hour
<1>2. ASSUME NEW b \in Bookings, Holds(b)'
      PROVE  Cardinality(NeverFreedIn(Hour(slot[b])))' < HourLimit
  <2>1. Holds(b) /\ slot'[b] = slot[b]
    BY <1>0, <1>2
  <2>2. NeverFreedIn(Hour(slot[b]))' \subseteq NeverFreedIn(Hour(slot[b]))
    BY <1>2, <2>1 DEF NeverFreedIn, UtcIn, ConcurrentIn, Hour, EverFreed, Was
  <2>3. Cardinality(NeverFreedIn(Hour(slot[b]))) < HourLimit
    BY <2>1 DEF HourInv, HourHeld
  <2>4. NeverFreedIn(Hour(slot[b])) \subseteq ConcurrentIn(Hour(slot[b]))
    BY DEF NeverFreedIn, UtcIn
  <2>5. PICK h : h = Hour(slot[b])
    OBVIOUS
  <2>6. PICK S \in SUBSET ConcurrentIn(h) : S = NeverFreedIn(Hour(slot[b]))
    BY <2>4, <2>5
  <2>7. PICK T \in SUBSET S : T = NeverFreedIn(Hour(slot[b]))'
    BY <2>2, <2>6
  <2>8. Cardinality(T) < HourLimit
    BY <2>3, <2>6, RoomForFewer
  <2> QED
    BY <2>7, <2>8
<1> QED
  BY <1>1, <1>2 DEF HourInv, HourHeld

LEMMA HourUntouched ==
    ASSUME HourInv, UNCHANGED <<booking, slot, offset>>, emitted \subseteq emitted'
    PROVE  HourInv'
BY HourStays DEF Existing, Committed

\* Two keys of the same hour of UTC are one key.
LEMMA SameKey ==
    ASSUME NEW t \in Nat, NEW u \in Nat, Hour(t) = Hour(u)
    PROVE  LockKey(t, 0) = LockKey(u, 0)
<1>1. Written(t, 0) = t /\ Written(u, 0) = u
  BY DEF Written
<1> QED
  BY <1>1 DEF LockKey

LEMMA SlotsAreNumbers ==
    ASSUME JobInv
    PROVE  Slots \subseteq Nat /\ \A c \in Bookings : slot[c] \in Nat
<1>1. Slots \subseteq Nat
  BY LifecycleAssumption DEF LifecycleAssumption
<1>2. slot \in [Bookings -> Slots \cup {0}]
  BY DEF JobInv, TypeOK
<1>3. ASSUME NEW c \in Bookings PROVE slot[c] \in Nat
  <2>1. slot[c] \in Slots \/ slot[c] = 0
    BY <1>2
  <2>2. CASE slot[c] \in Slots
    BY <1>1, <2>2
  <2>3. CASE slot[c] = 0
    BY <2>3
  <2> QED
    BY <2>1, <2>2, <2>3
<1> QED
  BY <1>1, <1>3

LEMMA ReserveKeepsHour ==
    ASSUME JobInv, HourInv, NEW b \in Bookings, NEW t \in Slots, NEW o \in Offsets,
           ReserveSlot(b, t, o)
    PROVE  HourInv'
<1> USE DEF ReserveSlot
<1>1. /\ booking' = [booking EXCEPT ![b] = "reserving"] /\ booking'[b] = "reserving"
      /\ slot'[b] = t /\ offset'[b] = o
      /\ \A c \in Bookings \ {b} :
             slot'[c] = slot[c] /\ offset'[c] = offset[c] /\ booking'[c] = booking[c]
  BY DEF JobInv, TypeOK
<1>2. t \in Nat /\ \A c \in Bookings : slot[c] \in Nat
  BY SlotsAreNumbers
<1>3. OneInHour'
  <2>1. ASSUME NEW c \in Bookings \ {b}, Holds(c), o = 0
        PROVE  Hour(slot[c]) # Hour(t)
    BY <1>2, <2>1, SameKey DEF Holds, LockFree
  <2> QED
    BY <1>1, <2>1 DEF HourInv, OneInHour, Holds, Hour
<1>4. /\ Existing' = Existing
      /\ \A c \in Existing : slot'[c] = slot[c] /\ offset'[c] = offset[c]
  BY <1>1 DEF Existing, Committed
<1>5. ASSUME NEW h PROVE NeverFreedIn(h)' = NeverFreedIn(h)
  BY <1>4 DEF NeverFreedIn, UtcIn, ConcurrentIn, Hour, EverFreed, Was
<1>6. ASSUME NEW c \in Bookings, Holds(c)'
      PROVE  Cardinality(NeverFreedIn(Hour(slot[c])))' < HourLimit
  <2>1. CASE c = b
    <3>1. o = 0 /\ Written(t, o) = t
      BY <1>1, <1>2, <1>6, <2>1 DEF Holds, Written
    <3>2. Cardinality(ConcurrentIn(Hour(t))) < HourLimit
      BY <3>1 DEF Available, CheckConcurrent
    <3>3. NeverFreedIn(Hour(t)) \subseteq ConcurrentIn(Hour(t))
      BY DEF NeverFreedIn, UtcIn
    <3>4. Cardinality(NeverFreedIn(Hour(t))) < HourLimit
      BY <3>2, <3>3, RoomForFewer
    <3>5. NeverFreedIn(Hour(slot[c]))' = NeverFreedIn(Hour(t))
      BY <1>1, <1>4, <2>1 DEF NeverFreedIn, UtcIn, ConcurrentIn, Hour, EverFreed, Was
    <3> QED
      BY <3>4, <3>5
  <2>2. CASE c # b
    <3>1. Holds(c) /\ slot'[c] = slot[c]
      BY <1>1, <1>6, <2>2 DEF Holds
    <3>2. Cardinality(NeverFreedIn(Hour(slot[c]))) < HourLimit
      BY <3>1 DEF HourInv, HourHeld
    <3>3. NeverFreedIn(Hour(slot[c]))' = NeverFreedIn(Hour(slot[c]))
      BY <1>4, <3>1 DEF NeverFreedIn, UtcIn, ConcurrentIn, Hour, EverFreed, Was
    <3> QED
      BY <3>2, <3>3
  <2> QED
    BY <2>1, <2>2
<1> QED
  BY <1>3, <1>6 DEF HourInv, HourHeld

LEMMA CreateKeepsHour ==
    ASSUME JobInv, HourInv, NEW b \in Bookings, CreateBooking(b) PROVE HourInv'
<1> USE DEF CreateBooking
<1>1. /\ booking'[b] = "requested" /\ slot' = slot /\ offset' = offset
      /\ \A c \in Bookings \ {b} : booking'[c] = booking[c]
  BY DEF JobInv, TypeOK
<1>2. \A c \in Existing' \ Existing : c = b
  BY <1>1 DEF Existing, Committed
<1>3. offset[b] = 0 =>
         \A c \in Bookings : Holds(c)' => Hour(slot[c]) # Hour(slot[b])
  BY <1>1 DEF HourInv, OneInHour, Holds
<1>4. \A c \in Bookings : booking'[c] = "reserving" =>
          booking[c] = "reserving" /\ slot'[c] = slot[c] /\ offset'[c] = offset[c]
  BY <1>1
<1> QED
  BY <1>1, <1>2, <1>3, <1>4, HourStays

LEMMA DropKeepsHour ==
    ASSUME JobInv, HourInv, NEW b \in Bookings, DropReservation(b) PROVE HourInv'
<1> USE DEF DropReservation
<1>1. /\ booking'[b] = "absent"
      /\ \A c \in Bookings \ {b} :
             booking'[c] = booking[c] /\ slot'[c] = slot[c] /\ offset'[c] = offset[c]
  BY DEF JobInv, TypeOK
<1>2. /\ Existing' = Existing
      /\ \A c \in Existing : slot'[c] = slot[c] /\ offset'[c] = offset[c]
  BY <1>1 DEF Existing, Committed
<1> QED
  BY <1>1, <1>2, HourStays

\* Requests that move committed bookings: one that comes back into an hour
\* was given up before.
LEMMA MoveKeepsHour ==
    ASSUME JobInv, HourInv, emitted \subseteq emitted', UNCHANGED <<slot, offset>>,
           NEW S \in SUBSET Bookings, \A b \in S : Committed(b), NEW to \in BookingStatus,
           booking' = [b \in Bookings |-> IF b \in S THEN to ELSE booking[b]]
    PROVE  HourInv'
<1>1. \A b \in Bookings : booking'[b] = "reserving" => booking[b] = "reserving"
  BY DEF BookingStatus
<1>2. ASSUME NEW c \in Existing' \ Existing PROVE EverFreed(c)
  <2>1. c \in S /\ booking[c] \in Freed
    BY DEF Existing, Committed, Freed
  <2> QED
    BY <2>1 DEF JobInv, RowsInv, FreedIsTold
<1> QED
  BY <1>1, <1>2, HourStays

LEMMA HourStep == JobInv /\ HourInv /\ Step => HourInv'
<1> SUFFICES ASSUME JobInv, HourInv, Step PROVE HourInv'
  OBVIOUS
<1>1. CASE emitted \subseteq emitted' /\ UNCHANGED <<booking, slot, offset>>
  BY <1>1, HourUntouched
<1>2. ASSUME NEW r \in Requests("booking"), NEW to \in BookingStatus,
             NEW actor \in {"customer", "business"}, TransitionBooking(r, to, actor)
      PROVE  HourInv'
  <2>1. r.id \in Bookings /\ Committed(r.id)
    BY RequestsAreSound DEF Requests, Sound
  <2>2. PICK S \in SUBSET Bookings : S = {r.id}
    BY <2>1
  <2>3. booking' = [b \in Bookings |-> IF b \in S THEN to ELSE booking[b]]
    BY <1>2, <2>1, <2>2 DEF TransitionBooking, JobInv, TypeOK
  <2>4. UNCHANGED <<slot, offset>> /\ emitted \subseteq emitted'
    BY <1>2 DEF TransitionBooking
  <2> QED
    BY <2>1, <2>2, <2>3, <2>4, MoveKeepsHour
<1>3. CASE BulkTransitionBookings
  <2>1. PICK to \in BookingStatus, M \in SUBSET Bookings :
           /\ \A b \in M : Committed(b)
           /\ booking' = [b \in Bookings |-> IF b \in M THEN to ELSE booking[b]]
           /\ emitted \subseteq emitted'
           /\ UNCHANGED <<slot, offset>>
    BY <1>3 DEF BulkTransitionBookings
  <2> QED
    BY <2>1, MoveKeepsHour
<1>4. ASSUME NEW r \in Requests("execution"),
             NEW number \in {r.number, NextInvoiceNumber}, Complete(r, number)
      PROVE  HourInv'
  <2>1. UNCHANGED <<slot, offset>> /\ emitted \subseteq emitted'
    BY <1>4 DEF Complete
  <2>2. CASE ~ CascadesTo(r.id)
    BY <1>4, <2>1, <2>2, HourUntouched DEF Complete
  <2>3. CASE CascadesTo(r.id)
    <3>1. r.id \in Bookings /\ Committed(r.id)
      BY <2>3, RequestsAreSound DEF Requests, Sound, CascadesTo, Committed
    <3>2. PICK S \in SUBSET Bookings : S = {r.id}
      BY <3>1
    <3>3. booking' = [b \in Bookings |-> IF b \in S THEN "completed" ELSE booking[b]]
      BY <1>4, <2>3, <3>1, <3>2 DEF Complete, JobInv, TypeOK
    <3>4. "completed" \in BookingStatus
      BY DEF BookingStatus
    <3> QED
      BY <2>1, <3>1, <3>2, <3>3, <3>4, MoveKeepsHour
  <2> QED
    BY <2>2, <2>3
<1>5. ASSUME NEW b \in Bookings, NEW t \in Slots, NEW o \in Offsets,
           ReserveSlot(b, t, o) PROVE HourInv'
  BY <1>5, ReserveKeepsHour
<1>6. ASSUME NEW b \in Bookings, CreateBooking(b) \/ DropReservation(b) PROVE HourInv'
  BY <1>6, CreateKeepsHour, DropKeepsHour
<1>7. CASE Load \/ BulkTransitionEnquiries
  BY <1>1, <1>7 DEF Load, BulkTransitionEnquiries
<1> QED
  BY <1>1, <1>2, <1>3, <1>4, <1>5, <1>6, <1>7 DEF Step, CreateEnquiry, TransitionEnquiry,
     CreateQuote, TransitionQuote, CreateFromBooking, TransitionExecution

LEMMA HourInit == Init => HourInv
BY DEF Init, HourInv, OneInHour, HourHeld, Holds

LEMMA HourInductive == JobInv /\ HourInv /\ [Next]_vars => HourInv'
BY NextIsStep, HourStep, HourUntouched DEF vars

\* A booking that was given up is the only way an hour that had a place when
\* the lock was taken can be full when the booking is written.
LEMMA FullHourWasRevived ==
    ASSUME HourInv, NEW b \in Bookings, Holds(b)
    PROVE  \/ Cardinality(UtcIn(Hour(slot[b]))) < HourLimit
           \/ \E c \in UtcIn(Hour(slot[b])) : EverFreed(c)
<1>1. CASE \A c \in UtcIn(Hour(slot[b])) : ~ EverFreed(c)
  <2>1. NeverFreedIn(Hour(slot[b])) = UtcIn(Hour(slot[b]))
    BY <1>1 DEF NeverFreedIn
  <2> QED
    BY <2>1 DEF HourInv, HourHeld
<1> QED
  BY <1>1

\* Two requests for the last place of an hour that write their time in UTC:
\* the lock makes the second wait, so a booking is only ever written into an
\* hour where theirs leave room, unless an overtaken request brought one of them
\* back to life.
THEOREM LockKeepsHour == Spec => CreationKeepsHour
<1>1. Init => JobInv /\ HourInv
  BY JobInit, HourInit
<1>2. (JobInv /\ HourInv) /\ [Next]_vars => (JobInv /\ HourInv)'
  BY JobInductive, HourInductive
<1>3. HourInv /\ [Next]_vars =>
         [\A b \in Bookings :
             booking[b] = "reserving" /\ booking'[b] = "requested" /\ offset[b] = 0 =>
                 \/ Cardinality(UtcIn(Hour(slot[b]))) < HourLimit
                 \/ \E c \in UtcIn(Hour(slot[b])) : Revived(c)]_vars
  BY FullHourWasRevived DEF Holds, EverFreed, Freed, Revived
<1> QED
  BY <1>1, <1>2, <1>3, PTL DEF Spec, CreationKeepsHour
=============================================================================
