--------------------------- MODULE MCUpdateStreams ---------------------------
(* Instances of UpdateStreams for TLC.                                      *)
EXTENDS UpdateStreams

CONSTANTS p1, p2, p3, s1, s2, s3, s4, c1

\* p1 may open two streams, s1 and s4.
Openers == [s \in Streams |-> CASE s \in {s1, s4} -> p1 [] s = s2 -> p2 [] s = s3 -> p3]
===============================================================================
