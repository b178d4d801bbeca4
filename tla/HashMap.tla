------------------------------ MODULE HashMap ------------------------------
(***************************************************************************)
(* The hash map of shecc (src/src/globals.c, hashmap_put and others): open *)
(* addressing with linear probing, doubled when half full.  It holds the   *)
(* functions, constants, macros, source files, token streams, include      *)
(* guards and interned strings of the compiler.                            *)
(*                                                                         *)
(* hashmap_put() is several steps here: the check of the load, one step    *)
(* per slot of the old table while it is rehashed, and the insertion.      *)
(* Either calloc() of a new table may fail; the old one then stays.        *)
(***************************************************************************)
EXTENDS Integers, FiniteSets

CONSTANTS
    Key, Val,
    NULL,       \* the null pointer, also a value a caller may store
    Absent,     \* no key, no binding
    Hash,       \* the FNV hash of a key, made non-negative
    InitCap,    \* the capacity asked for, rounded up to a power of two
    MaxCap,     \* bound: largest capacity
    MayFail     \* whether calloc() may fail

ASSUME KeyAssumption ==
    /\ Absent \notin Key \cup Val /\ NULL \in Val
    /\ Hash \in [Key -> Nat]
ASSUME CapAssumption ==
    /\ InitCap \in Nat \ {0} /\ MaxCap \in Nat /\ MayFail \in BOOLEAN

VARIABLES
    cap, size,  \* map->cap, map->size
    table,      \* map->table, a function on 0..(cap - 1)
    old_cap, old_table, \* of hashmap_rehash()
    i,          \* the next slot of old_table
    req,        \* the pair being put
    pc,         \* "idle", "rehash", "insert", or "aborted"
    failed,     \* calloc() has failed at least once
    result      \* what the last lookup returned

vars == <<cap, size, table, old_cap, old_table, i, req, pc, failed, result>>

Slot(c) == 0..(c - 1)
Free == [occupied |-> FALSE, key |-> Absent, val |-> NULL]
Node(k, v) == [occupied |-> TRUE, key |-> k, val |-> v]
Cleared(c) == [j \in Slot(c) |-> Free]
NoReq == [key |-> Absent, val |-> NULL]

\* Mutant of Index: the rehash probes from where the old table did.
IndexOld(k, c) == Hash[k] % (IF pc = "rehash" THEN old_cap ELSE c)

\* hashmap_hash_index(): the sizes are powers of two, so `& (size - 1)' is the
\* remainder.
Index(k, c) == Hash[k] % c

\* The slots passed on the way from s to j: up, and around the end.
Arc(s, j, c) == {a \in Slot(c) : IF s <= j THEN s <= a /\ a < j
                                           ELSE s <= a \/ a < j}

\* Mutant of StopAt: keys are not compared.
StopAtFree(t, k) == {j \in DOMAIN t : ~t[j].occupied}

\* Where the probe for k may stop: a free slot or the node of k.
StopAt(t, k) == {j \in DOMAIN t : ~t[j].occupied \/ t[j].key = k}
\* Where hashmap_rehash() stops, which has no equal keys to expect.
FreeIn(t) == {j \in DOMAIN t : ~t[j].occupied}

\* The first of the slots S that linear probing from the hash of k meets; none
\* if it comes back to the start.
Probe(S, k, c) ==
    {j \in S : Arc(Index(k, c), j, c) \cap S = {}}

-----------------------------------------------------------------------------
\* hashmap_create()
Init ==
    /\ cap = InitCap /\ size = 0 /\ table = Cleared(InitCap)
    /\ old_cap = 0 /\ old_table = Cleared(0) /\ i = 0
    /\ req = NoReq /\ pc = "idle" /\ failed = FALSE
    /\ result = [op |-> "none", key |-> Absent, val |-> NULL]

\* Mutant of Loaded: the table may fill up.
LoadedLate == cap <= size

\* "Check if size of map exceeds load factor 50%"
Loaded == cap \div 2 <= size

\* hashmap_put() up to the test of the load factor, with the first part of
\* hashmap_rehash().
Put(k, v) ==
    /\ pc = "idle" /\ cap <= MaxCap
    /\ req' = [key |-> k, val |-> v]
    /\ \/ /\ ~Loaded
          /\ pc' = "insert"
          /\ UNCHANGED <<cap, size, table, old_cap, old_table, i, failed>>
       \/ /\ Loaded
          /\ pc' = "rehash" /\ i' = 0
          /\ old_cap' = cap /\ old_table' = table
          /\ cap' = 2 * cap /\ table' = Cleared(2 * cap) /\ size' = 0
          /\ UNCHANGED failed
       \/ /\ Loaded /\ MayFail
          /\ pc' = "insert" /\ failed' = TRUE
          /\ UNCHANGED <<cap, size, table, old_cap, old_table, i>>
    /\ UNCHANGED result

\* Mutant of RehashSlot: a free slot of the old table is not passed.
RehashStuck ==
    /\ pc = "rehash" /\ i < old_cap
    /\ \/ ~old_table[i].occupied /\ UNCHANGED <<table, size, i>>
       \/ /\ old_table[i].occupied
          /\ \E j \in Probe(FreeIn(table), old_table[i].key, cap) :
               table' = [table EXCEPT ![j] = old_table[i]]
          /\ size' = size + 1 /\ i' = i + 1
    /\ UNCHANGED <<pc, cap, old_cap, old_table, req, failed, result>>

\* hashmap_rehash(): one slot of the old table.
RehashSlot ==
    /\ pc = "rehash" /\ i < old_cap
    /\ LET n == old_table[i]
           P == Probe(FreeIn(table), n.key, cap)
       IN  \/ /\ ~n.occupied
              /\ i' = i + 1 /\ UNCHANGED <<table, size, pc>>
           \/ /\ n.occupied
              /\ IF P = {}
                   THEN pc' = "aborted" /\ UNCHANGED <<table, size, i>>
                   ELSE /\ \E j \in P : table' = [table EXCEPT ![j] = n]
                        /\ size' = size + 1 /\ i' = i + 1 /\ UNCHANGED pc
    /\ UNCHANGED <<cap, old_cap, old_table, req, failed, result>>

\* Mutant of RehashDone: the old table is gone, its index is not.
RehashDoneStale ==
    /\ pc = "rehash" /\ i = old_cap
    /\ pc' = "insert"
    /\ old_cap' = 0 /\ old_table' = Cleared(0)
    /\ UNCHANGED <<i, cap, size, table, req, failed, result>>

RehashDone ==
    /\ pc = "rehash" /\ i = old_cap
    /\ pc' = "insert"
    /\ old_cap' = 0 /\ old_table' = Cleared(0) /\ i' = 0
    /\ UNCHANGED <<cap, size, table, req, failed, result>>

\* The rest of hashmap_put(): replace, insert, or give up.
Insert ==
    /\ pc = "insert"
    /\ LET P == Probe(StopAt(table, req.key), req.key, cap)
       IN  \/ \E j \in P :
                /\ table' = [table EXCEPT ![j] = Node(req.key, req.val)]
                /\ size' = IF table[j].occupied THEN size ELSE size + 1
                /\ pc' = "idle" /\ req' = NoReq
           \/ /\ P = {}
              /\ pc' = "aborted" /\ UNCHANGED <<table, size, req>>
    /\ UNCHANGED <<cap, old_cap, old_table, i, failed, result>>

\* hashmap_get_node(): the node found, if any.
Found(k) == {j \in Probe(StopAt(table, k), k, cap) : table[j].occupied}

\* hashmap_get() and hashmap_contains()
Get(k) ==
    /\ pc = "idle"
    /\ \/ \E j \in Found(k) :
            result' = [op |-> "get", key |-> k, val |-> table[j].val]
       \/ /\ Found(k) = {}
          /\ result' = [op |-> "get", key |-> k, val |-> NULL]
    /\ UNCHANGED <<cap, size, table, old_cap, old_table, i, req, pc, failed>>
Contains(k) ==
    /\ pc = "idle"
    /\ result' = [op |-> "contains", key |-> k, val |-> Found(k) # {}]
    /\ UNCHANGED <<cap, size, table, old_cap, old_table, i, req, pc, failed>>

\* hashmap_free(), and hashmap_create() of the next one.
Renew ==
    /\ pc = "idle"
    /\ cap' = InitCap /\ size' = 0 /\ table' = Cleared(InitCap)
    /\ UNCHANGED <<old_cap, old_table, i, req, pc, failed, result>>

\* A caller of a map that has given up never returns.
Aborted == pc = "aborted" /\ UNCHANGED vars

Next ==
    \/ \E k \in Key : Get(k) \/ Contains(k) \/ \E v \in Val : Put(k, v)
    \/ RehashSlot \/ RehashDone \/ Insert \/ Renew \/ Aborted

\* A call that has begun goes on.
Fairness == WF_vars(RehashSlot \/ RehashDone \/ Insert)
Spec == Init /\ [][Next]_vars /\ Fairness

-----------------------------------------------------------------------------
(* The map behind the table: what is in it, or still in the old one.       *)

Holds(t, S, k) == \E j \in S : t[j].occupied /\ t[j].key = k
Bound(t, S, k) == t[CHOOSE j \in S : t[j].occupied /\ t[j].key = k].val
Waiting == {j \in Slot(old_cap) : j >= i}
\* The bindings of the slots S of t and, for the other keys, W of o.
Merged(t, S, o, W) ==
    [k \in Key |-> IF Holds(t, S, k) THEN Bound(t, S, k)
                   ELSE IF Holds(o, W, k) THEN Bound(o, W, k)
                   ELSE Absent]
Contents == Merged(table, Slot(cap), old_table, Waiting)
M == INSTANCE MapSpec WITH m <- Contents

\* The hash map implements the map: whatever the collisions, the rehashing
\* and the failures of calloc(), every lookup returns the value of the last
\* put of that key, and a put changes no other key.
ImplementsMap == M!Spec

NodeType == [occupied : BOOLEAN, key : Key \cup {Absent}, val : Val]
TypeOK ==
    /\ cap \in Nat \ {0} /\ size \in Nat /\ old_cap \in Nat /\ i \in 0..old_cap
    /\ table \in [Slot(cap) -> NodeType]
    /\ old_table \in [Slot(old_cap) -> NodeType]
    /\ req \in [key : Key \cup {Absent}, val : Val]
    /\ pc \in {"idle", "rehash", "insert", "aborted"}
    /\ failed \in BOOLEAN

\* Every node can be found: no two nodes have the same key, and no free slot
\* lies between the hash of a key and its node.
Distinct(t, S) == \A a, b \in S : t[a].occupied /\ t[b].occupied
                                    /\ t[a].key = t[b].key => a = b
Chained(t, c) == \A j \in Slot(c) : t[j].occupied =>
                   \A a \in Arc(Index(t[j].key, c), j, c) : t[a].occupied
NodesReachable == Distinct(table, Slot(cap)) /\ Chained(table, cap)

\* The load test keeps a free slot: without a failure of calloc() the map is
\* never more than half full, size counts the nodes, and no call gives up.
HalfFull ==
    /\ size = Cardinality({j \in Slot(cap) : table[j].occupied})
    /\ ~failed => pc # "aborted" /\ size <= cap \div 2

\* Every put ends.
PutEnds == (pc # "idle" /\ ~failed) ~> pc = "idle"
=============================================================================
