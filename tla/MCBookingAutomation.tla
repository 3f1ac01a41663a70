------------------------ MODULE MCBookingAutomation ------------------------
(* Model values for BookingAutomation.                                     *)
EXTENDS BookingAutomation, TLC

CONSTANTS w1, w2

MCWorkers == {w1, w2}
MCSymmetry == Permutations(MCWorkers)
=============================================================================
