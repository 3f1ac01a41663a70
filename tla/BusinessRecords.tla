-------------------------- MODULE BusinessRecords --------------------------
(***************************************************************************)
(* What a business keeps beside its jobs: the rating of its profile, the   *)
(* payment status of its ledger entries, the state of its Stripe account,  *)
(* its members, its own status, and its conversations with the assistant.  *)
(* The six share no variable; one step is a step of one.                   *)
(***************************************************************************)
EXTENDS Reviews, LedgerEntries, ConnectAccount, Membership, Listing, BrainConversation

vars == <<reviewVars, ledgerVars, connectVars, memberVars, listingVars, talkVars>>

Init ==
    /\ ReviewsInit /\ LedgerInit /\ ConnectInit
    /\ MembershipInit /\ ListingInit /\ ConversationInit

\* One of the parts moves.
ReviewsMove == ReviewsNext
    /\ UNCHANGED <<ledgerVars, connectVars, memberVars, listingVars, talkVars>>
LedgerMoves == LedgerNext
    /\ UNCHANGED <<reviewVars, connectVars, memberVars, listingVars, talkVars>>
AccountMoves == ConnectNext
    /\ UNCHANGED <<reviewVars, ledgerVars, memberVars, listingVars, talkVars>>
MembersMove == MembershipNext
    /\ UNCHANGED <<reviewVars, ledgerVars, connectVars, listingVars, talkVars>>
ListingMoves == ListingNext
    /\ UNCHANGED <<reviewVars, ledgerVars, connectVars, memberVars, talkVars>>
TalkMoves == ConversationNext
    /\ UNCHANGED <<reviewVars, ledgerVars, connectVars, memberVars, listingVars>>

Next ==
    \/ ReviewsMove \/ LedgerMoves \/ AccountMoves
    \/ MembersMove \/ ListingMoves \/ TalkMoves

Spec == Init /\ [][Next]_vars
=============================================================================
