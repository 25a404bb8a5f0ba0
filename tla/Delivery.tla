------------------------------ MODULE Delivery ------------------------------
(***************************************************************************)
(* What DELIVER_AT_MOST_ONCE, DELIVER_AT_LEAST_ONCE and                    *)
(* DELIVER_EXACTLY_ONCE promise of a message, whichever way it goes and    *)
(* over how many connections: it is handed to the other side while its     *)
(* sender still answers for it, once unless it is AT_LEAST_ONCE, and the   *)
(* sender settles it only after that.  MqttSession implements it.          *)
(***************************************************************************)
EXTENDS Naturals

CONSTANTS
    Message,
    Qos          \* of each message: 0, 1 or 2

VARIABLES
    status,      \* new, open (the sender answers for it) or settled
    handed       \* how often the other side took it

vars == <<status, handed>>

Init ==
    /\ status = [m \in Message |-> "new"]
    /\ handed = [m \in Message |-> 0]

Offer(m) ==
    /\ status[m] = "new"
    /\ status' = [status EXCEPT ![m] = "open"]
    /\ UNCHANGED handed

Hand(m) ==
    /\ status[m] = "open"
    /\ Qos[m] = 1 \/ handed[m] = 0
    /\ handed' = [handed EXCEPT ![m] = @ + 1]
    /\ UNCHANGED status

\* Nobody answers for a message of QoS 0, which is therefore never settled.
Settle(m) ==
    /\ Qos[m] > 0
    /\ status[m] = "open" /\ handed[m] > 0
    /\ status' = [status EXCEPT ![m] = "settled"]
    /\ UNCHANGED handed

Next == \E m \in Message : Offer(m) \/ Hand(m) \/ Settle(m)

Spec == Init /\ [][Next]_vars
=============================================================================
