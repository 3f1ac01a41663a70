------------------------- MODULE MCBusinessRecords -------------------------
(* An instance of BusinessRecords for TLC.  The parts share nothing, so it  *)
(* is enough to follow the behaviours in which one of them moves.           *)
EXTENDS BusinessRecords, TLC

CONSTANTS j1, j2, j3, w1, w2, a1, a2, m1, m2, p1, p2, p3, d1, f1, f2, l1, l2, v1, v2,
          goal, budget

MCSymmetry == Permutations(Accounts) \cup Permutations(People)

MCState(c, p, d) == [submitted |-> TRUE, charges |-> c, payouts |-> p, disabled |-> d]
MCStates == {MCState(TRUE, TRUE, FALSE), MCState(TRUE, FALSE, FALSE), MCState(FALSE, TRUE, FALSE),
             MCState(TRUE, TRUE, TRUE), MCState(FALSE, FALSE, FALSE)}

VARIABLE turn   \* the part that moves in a behaviour

MCInit == Init /\ turn \in {"reviews", "ledger", "account", "members", "listing", "talk"}

MCNext ==
    /\ UNCHANGED turn
    /\ \/ turn = "reviews" /\ ReviewsMove
       \/ turn = "ledger" /\ LedgerMoves
       \/ turn = "account" /\ AccountMoves
       \/ turn = "members" /\ MembersMove
       \/ turn = "listing" /\ ListingMoves
       \/ turn = "talk" /\ TalkMoves

MCSpec == MCInit /\ [][MCNext]_<<vars, turn>>
=============================================================================
