------------------------------ MODULE MCOutbox ------------------------------
(* Model values for Outbox.                                                *)
EXTENDS Outbox

CONSTANTS e1, e2, w1, w2

MCEvents == {e1, e2}
MCBooking == {e1}
MCPoison == {e2}
MCWorkers == {w1, w2}
=============================================================================
