---------------------------- MODULE MCLifecycle ----------------------------
(* Model values for Lifecycle.                                             *)
EXTENDS Lifecycle, TLC

CONSTANTS e1, q1, q2, b1, b2

MCEnquiries == {e1}
MCQuotes == {q1, q2}
MCBookings == {b1, b2}
MCEnquiryOf == [q \in MCQuotes |-> e1]
MCQuoteOf == [b \in MCBookings |-> q1]
MCSlots == {1, 2}
\* Two hours: another hour, and one that is no slot's.
MCOffsets == {0, 2}
MCSymmetry == Permutations(MCBookings)

\* Review rounds and overtaken enquiry requests are explored up to the first
\* booking; from there on the enquiry has the shortest history behind it.
MCBound ==
    (\E b \in MCBookings : booking[b] # "absent") =>
        \A k \in emitted : k[1] = "enquiry" => k[3] \in {"submitted", "received"}
=============================================================================
