----------------------------- MODULE MCRegistry -----------------------------
(* Instances of Registry for TLC.                                           *)
EXTENDS Registry, TLC

CONSTANTS m1, m2, u1, u2, c1, c2, c3, nobody

\* The calls are interchangeable.
CallSymmetry == Permutations(Calls)
===============================================================================
