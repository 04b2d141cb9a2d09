---------------------------- MODULE MCStreamNames ----------------------------
(* Instances of StreamNames for TLC: four names in two buckets, one of the  *)
(* names unlisted.                                                          *)
EXTENDS StreamNames

CONSTANTS n1, n2, n3, n4

TwoBuckets == [n \in Name |-> IF n \in {n3, n4} THEN 2 ELSE 1]
=============================================================================
