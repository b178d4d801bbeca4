------------------------------ MODULE MapSpec ------------------------------
(***************************************************************************)
(* What callers of the hash map of src/src/globals.c rely on: a key is     *)
(* bound to the value of the last hashmap_put(), or to nothing.            *)
(***************************************************************************)
CONSTANTS Key, Val, NULL, Absent

VARIABLES m,       \* the binding of every key
          result   \* what the last lookup returned

vars == <<m, result>>

NoResult == [op |-> "none", key |-> Absent, val |-> NULL]
Value(k) == IF m[k] = Absent THEN NULL ELSE m[k]

Put(k, v) == m' = [m EXCEPT ![k] = v] /\ UNCHANGED result
\* hashmap_get() does not tell a NULL value from a missing one.
Get(k) == result' = [op |-> "get", key |-> k, val |-> Value(k)] /\ UNCHANGED m
Contains(k) ==
    /\ result' = [op |-> "contains", key |-> k, val |-> m[k] # Absent]
    /\ UNCHANGED m
Clear == m' = [k \in Key |-> Absent] /\ UNCHANGED result

Init == m = [k \in Key |-> Absent] /\ result = NoResult
Next == \/ \E k \in Key : Get(k) \/ Contains(k) \/ \E v \in Val : Put(k, v)
        \/ Clear

Spec == Init /\ [][Next]_vars
=============================================================================
