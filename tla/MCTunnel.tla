------------------------------ MODULE MCTunnel ------------------------------
(* Tunnel with model values for the two nodes.                              *)
EXTENDS Tunnel

CONSTANTS a, b

BothNodes == {a, b}
FirstNode == {a}
=============================================================================
