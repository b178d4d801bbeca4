----------------------------- MODULE MCHashMap -----------------------------
(* An instance of HashMap for TLC: three keys that collide, one of them    *)
(* only until the table has grown.                                         *)
EXTENDS HashMap

CONSTANTS k1, k2, k3, v1
CollidingHash == [k \in Key |-> IF k = k3 THEN 5 ELSE 1]
=============================================================================
