-------------------------- MODULE DatagramChannel ---------------------------
(***************************************************************************)
(* What the tunnel promises the tun devices at its two ends: an unreliable, *)
(* unordered channel of IP packets that may lose a packet or deliver it     *)
(* again, and never delivers anything the other end did not send.           *)
(***************************************************************************)
EXTENDS Naturals

CONSTANT Nodes

VARIABLES
    accepted,   \* accepted[n]: how many packets the tun device of n handed over
    delivered   \* delivered[n]: the packets handed to the tun device of n

vars == <<accepted, delivered>>

OtherEnd(n) == CHOOSE m \in Nodes : m # n

Init ==
    /\ accepted = [n \in Nodes |-> 0]
    /\ delivered = [n \in Nodes |-> {}]

Accept(n) ==
    /\ accepted' = [accepted EXCEPT ![n] = @ + 1]
    /\ UNCHANGED delivered

Deliver(n) ==
    /\ \E k \in 1..accepted[OtherEnd(n)] :
          delivered' = [delivered EXCEPT ![n] = @ \union {k}]
    /\ UNCHANGED accepted

Next == \E n \in Nodes : Accept(n) \/ Deliver(n)

Spec == Init /\ [][Next]_vars
=============================================================================
