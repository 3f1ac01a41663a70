------------------------------ MODULE Delivery ------------------------------
(***************************************************************************)
(* What the outbox promises about the communication of an event, whatever  *)
(* its workers do: it is made for an announced event, one attempt at a     *)
(* time; an attempt calls the provider at most once and ends with a record *)
(* or without one; and a recorded communication is never made again.       *)
(*                                                                         *)
(* An attempt that ends without a record may have called the provider.     *)
(* How an event is retried, and what its status says, is not said here: an *)
(* event may be reported as processed although nothing came of it.         *)
(***************************************************************************)
EXTENDS Integers

CONSTANT Events

VARIABLES
    announced,  \* events a domain transaction has committed
    attempt,    \* the attempt under way for an event: "none", "begun", "called"
    recorded,   \* events with a communication on record
    calls       \* provider calls made for an event

vars == <<announced, attempt, recorded, calls>>

Init ==
    /\ announced = {}
    /\ attempt = [e \in Events |-> "none"]
    /\ recorded = {}
    /\ calls = [e \in Events |-> 0]

Announce(e) ==
    /\ announced' = announced \cup {e}
    /\ UNCHANGED <<attempt, recorded, calls>>

Attempt(e) ==
    /\ e \in announced \ recorded
    /\ attempt[e] = "none"
    /\ attempt' = [attempt EXCEPT ![e] = "begun"]
    /\ UNCHANGED <<announced, recorded, calls>>

Call(e) ==
    /\ attempt[e] = "begun"
    /\ attempt' = [attempt EXCEPT ![e] = "called"]
    /\ calls' = [calls EXCEPT ![e] = @ + 1]
    /\ UNCHANGED <<announced, recorded>>

Record(e) ==
    /\ attempt[e] = "called"
    /\ attempt' = [attempt EXCEPT ![e] = "none"]
    /\ recorded' = recorded \cup {e}
    /\ UNCHANGED <<announced, calls>>

\* The attempt is given up, and what it did is forgotten.
GiveUp(e) ==
    /\ attempt' = [attempt EXCEPT ![e] = "none"]
    /\ UNCHANGED <<announced, recorded, calls>>

Next ==
    \E e \in Events : Announce(e) \/ Attempt(e) \/ Call(e) \/ Record(e) \/ GiveUp(e)

Spec == Init /\ [][Next]_vars
=============================================================================
