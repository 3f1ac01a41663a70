----------------------------- MODULE MCContacts -----------------------------
(* An instance for TLC of Communications and of CallDialogue, the messages  *)
(* a business sends and the conversations it has.  They share nothing, so   *)
(* it is enough to follow the behaviours in which one of them moves.        *)
EXTENDS Communications, CallDialogue, TLC

CONSTANTS r1, r2, e1, e2, e3

\* Three events, two of them marketing; a capped Brain, one with a night
\* window besides, one whose rules deny everything, and no Brain.
Capped == [cap |-> 1, quiet |-> FALSE, from |-> 0, to |-> 0, rule |-> "PASS", only |-> "any"]
MCBrains == {Capped, [Capped EXCEPT !.quiet = TRUE, !.from = 1], NoBrain,
             [Capped EXCEPT !.cap = 0, !.rule = "DENY"]}

MCPolicies ==
    {[budget |-> 2, actions |-> AgentAction, fields |-> {"preferred_time", "notes"}],
     [budget |-> 1, actions |-> {"COLLECT_INFORMATION", "END_CALL"}, fields |-> {"notes"}]}
MCFields == {"preferred_time", "notes"}

\* The workers are named as the requests are, so that one permutation does.
MCSymmetry == Permutations(Requests) \cup Permutations(Marketing)

VARIABLE turn   \* the part that moves in a behaviour

\* The hand-over is enabled until the configuration changes.
MCInit ==
    /\ Init /\ CommunicationsInit
    /\ handover
    /\ \/ turn = "messages" /\ brain = Ungoverned /\ call.type = "MARKETING"
       \/ turn = "call" /\ inForce = NoBrain /\ provider = "resend" /\ channel = "on"

MCNext ==
    /\ UNCHANGED turn
    /\ \/ turn = "messages" /\ CommunicationsNext /\ UNCHANGED vars
       \/ turn = "call" /\ Next /\ UNCHANGED communicationsVars

MCSpec == MCInit /\ [][MCNext]_<<vars, communicationsVars, turn>>

\* Where a midnight passes, consent changes once and no receipts come, whoever
\* the provider is; of a call, at most one row is written from an old read.
MCBound ==
    /\ IF inForce = Capped THEN edits <= 1 /\ hooks = {} /\ provider = "resend" ELSE clock <= 1
    /\ Cardinality(overlapped) <= 1
=============================================================================
