--------------------------- MODULE HashMapProofs ---------------------------
(***************************************************************************)
(* The hash map implements a map, and without a failure of calloc() it     *)
(* always has room, for every set of keys and values, every hash function  *)
(* and every capacity.                                                     *)
(***************************************************************************)
EXTENDS HashMap, FiniteSetTheorems, TLAPS

\* The nodes of a table have keys.
Keyed(t, S) == \A j \in S : t[j].occupied => t[j].key \in Key

\* What holds before and after every step of a call.
IndInv ==
    /\ TypeOK
    /\ Keyed(table, Slot(cap)) /\ Keyed(old_table, Slot(old_cap))
    /\ Distinct(table, Slot(cap)) /\ Chained(table, cap)
    /\ Distinct(old_table, Slot(old_cap))
    \* no key is in both tables
    /\ \A j \in Slot(cap), l \in Waiting :
         table[j].occupied /\ old_table[l].occupied
           => table[j].key # old_table[l].key
    /\ pc \in {"idle", "insert"} => old_cap = 0 /\ i = 0
    /\ pc \in {"rehash", "insert"} => req.key \in Key

-----------------------------------------------------------------------------
(* Facts about the operators.                                              *)

\* The hash of a key is the number of a slot.
LEMMA IndexInTable ==
    ASSUME NEW k \in Key, NEW c \in Nat \ {0}
    PROVE  Index(k, c) \in Slot(c)
  <1>1. Hash[k] \in Nat
    BY KeyAssumption
  <1> QED
    BY <1>1 DEF Index, Slot

\* A table with distinct keys binds a key to the value of its only node.
LEMMA BoundToNode ==
    ASSUME NEW t, NEW S, NEW k, Distinct(t, S),
           NEW j \in S, t[j].occupied, t[j].key = k
    PROVE  Holds(t, S, k) /\ Bound(t, S, k) = t[j].val
  <1>1. PICK c : c = CHOOSE a \in S : t[a].occupied /\ t[a].key = k
    OBVIOUS
  <1>2. c \in S /\ t[c].occupied /\ t[c].key = k
    BY <1>1
  <1>3. c = j
    BY <1>2 DEF Distinct
  <1> QED
    BY <1>1, <1>3 DEF Holds, Bound

\* A node is found by the probe for its key.
LEMMA NodeIsProbed ==
    ASSUME NEW c \in Nat \ {0}, NEW t \in [Slot(c) -> NodeType],
           Distinct(t, Slot(c)), Chained(t, c),
           NEW j \in Slot(c), t[j].occupied
    PROVE  j \in Probe(StopAt(t, t[j].key), t[j].key, c)
  <1> DEFINE A == Arc(Index(t[j].key, c), j, c)
  <1>1. j \in StopAt(t, t[j].key)
    BY DEF StopAt
  <1>2. ASSUME NEW a \in A PROVE a \notin StopAt(t, t[j].key)
    <2>1. a \in Slot(c) /\ a # j
      BY <1>2 DEF Arc, Slot
    <2>2. t[a].occupied
      BY <1>2 DEF Chained
    <2>3. t[a].key # t[j].key
      BY <2>1, <2>2 DEF Distinct
    <2> QED
      BY <2>2, <2>3 DEF StopAt
  <1>3. A \cap StopAt(t, t[j].key) = {}
    BY <1>2
  <1> QED
    BY <1>1, <1>3 DEF Probe

\* Writing a node of key k where the probe for k ends keeps every node
\* within reach.
LEMMA NodeAdded ==
    ASSUME NEW c \in Nat \ {0}, NEW t \in [Slot(c) -> NodeType],
           Distinct(t, Slot(c)), Chained(t, c), Keyed(t, Slot(c)),
           NEW n \in NodeType, n.occupied, n.key \in Key,
           NEW S, NEW j \in Probe(S, n.key, c),
           S \subseteq StopAt(t, n.key), FreeIn(t) \subseteq S,
           \A a \in Slot(c) : t[a].occupied /\ t[a].key = n.key => a = j
    PROVE  LET u == [t EXCEPT ![j] = n]
           IN  /\ u \in [Slot(c) -> NodeType]
               /\ Distinct(u, Slot(c)) /\ Chained(u, c) /\ Keyed(u, Slot(c))
  <1> DEFINE u == [t EXCEPT ![j] = n]
  <1>1. j \in S /\ Arc(Index(n.key, c), j, c) \cap S = {} /\ j \in Slot(c)
    BY DEF Probe, StopAt
  <1>2. u \in [Slot(c) -> NodeType] /\ u[j] = n
        /\ \A a \in Slot(c) : a # j => u[a] = t[a]
    BY <1>1
  <1>3. Distinct(u, Slot(c))
    BY <1>1, <1>2 DEF Distinct
  <1>4. Keyed(u, Slot(c))
    BY <1>1, <1>2 DEF Keyed
  <1>5. \A a \in Slot(c) : t[a].occupied => u[a].occupied
    BY <1>1, <1>2
  <1>6. ASSUME NEW l \in Slot(c), u[l].occupied,
               NEW a \in Arc(Index(u[l].key, c), l, c)
        PROVE  u[a].occupied
    <2>1. a \in Slot(c)
      BY DEF Arc
    <2>2. CASE l = j
      <3>1. a \notin S
        BY <1>1, <1>2, <1>6, <2>2
      <3>2. t[a].occupied
        BY <3>1, <2>1 DEF FreeIn
      <3> QED
        BY <3>2, <1>5, <2>1
    <2>3. CASE l # j
      <3>1. u[l] = t[l]
        BY <1>2, <2>3
      <3>2. t[a].occupied
        BY <3>1, <1>6 DEF Chained
      <3> QED
        BY <3>2, <1>5, <2>1
    <2> QED
      BY <2>2, <2>3
  <1>7. Chained(u, c)
    BY <1>6 DEF Chained
  <1> QED
    BY <1>2, <1>3, <1>4, <1>7

\* A probe ends in one place.
LEMMA ProbeEndsOnce ==
    ASSUME NEW c \in Nat \ {0}, NEW k \in Key, NEW S \in SUBSET Slot(c),
           NEW a \in Probe(S, k, c), NEW b \in Probe(S, k, c)
    PROVE  a = b
  <1> DEFINE s == Index(k, c)
  <1>1. s \in Int /\ a \in S /\ b \in S /\ a \in Slot(c) /\ b \in Slot(c)
    BY IndexInTable DEF Probe, Slot
  <1>2. a \notin Arc(s, b, c) /\ b \notin Arc(s, a, c)
    BY <1>1 DEF Probe
  <1> HIDE DEF s
  <1> QED
    BY <1>1, <1>2 DEF Arc, Slot

\* The nodes of some slots of a table, and that those of two tables are of
\* different keys.
Nodes(t, S) == {t[j] : j \in {a \in S : t[a].occupied}}
Apart(t, S, o, W) ==
    /\ Distinct(t, S) /\ Distinct(o, W)
    /\ \A j \in S, l \in W : t[j].occupied /\ o[l].occupied
                            => t[j].key # o[l].key

\* What the two tables bind a key to.
LEMMA MergedBinding ==
    ASSUME NEW t, NEW S, NEW o, NEW W, NEW k \in Key, Apart(t, S, o, W)
    PROVE  /\ \A x \in Nodes(t, S) \cup Nodes(o, W) :
                x.key = k => Merged(t, S, o, W)[k] = x.val
           /\ (\A x \in Nodes(t, S) \cup Nodes(o, W) : x.key # k)
                => Merged(t, S, o, W)[k] = Absent
  <1>1. ASSUME NEW x \in Nodes(t, S), x.key = k
        PROVE  Merged(t, S, o, W)[k] = x.val
    <2>1. PICK j \in S : t[j].occupied /\ x = t[j]
      BY DEF Nodes
    <2>2. Holds(t, S, k) /\ Bound(t, S, k) = t[j].val
      BY <1>1, <2>1, BoundToNode DEF Apart
    <2> QED
      BY <2>1, <2>2 DEF Merged
  <1>2. ASSUME NEW x \in Nodes(o, W), x.key = k
        PROVE  Merged(t, S, o, W)[k] = x.val
    <2>1. PICK l \in W : o[l].occupied /\ x = o[l]
      BY DEF Nodes
    <2>2. Holds(o, W, k) /\ Bound(o, W, k) = o[l].val
      BY <1>2, <2>1, BoundToNode DEF Apart
    <2>3. ~Holds(t, S, k)
      BY <1>2, <2>1 DEF Holds, Apart
    <2> QED
      BY <2>1, <2>2, <2>3 DEF Merged
  <1>3. ASSUME \A x \in Nodes(t, S) \cup Nodes(o, W) : x.key # k
        PROVE  Merged(t, S, o, W)[k] = Absent
    <2>1. ~Holds(t, S, k) /\ ~Holds(o, W, k)
      BY <1>3 DEF Holds, Nodes
    <2> QED
      BY <2>1 DEF Merged
  <1> QED
    BY <1>1, <1>2, <1>3

\* Tables with the same nodes of a key bind it to the same value.
LEMMA SameBinding ==
    ASSUME NEW t, NEW S, NEW o, NEW W, Apart(t, S, o, W),
           NEW u, NEW T, NEW p, NEW X, Apart(u, T, p, X), NEW k \in Key,
           \A x : x.key = k => (x \in Nodes(t, S) \cup Nodes(o, W)
                                <=> x \in Nodes(u, T) \cup Nodes(p, X))
    PROVE  Merged(t, S, o, W)[k] = Merged(u, T, p, X)[k]
  <1>1. CASE \E x \in Nodes(t, S) \cup Nodes(o, W) : x.key = k
    <2>1. PICK x \in Nodes(t, S) \cup Nodes(o, W) : x.key = k
      BY <1>1
    <2>2. x \in Nodes(u, T) \cup Nodes(p, X)
      BY <2>1
    <2> QED
      BY <2>1, <2>2, MergedBinding
  <1>2. CASE ~\E x \in Nodes(t, S) \cup Nodes(o, W) : x.key = k
    BY <1>2, MergedBinding
  <1> QED
    BY <1>1, <1>2

-----------------------------------------------------------------------------
(* The invariant.                                                          *)

LEMMA InitInv == Init => IndInv
  <1> SUFFICES ASSUME Init PROVE IndInv
    OBVIOUS
  <1> USE KeyAssumption, CapAssumption DEF Init
  <1>1. Slot(0) = {} /\ Waiting = {}
    BY DEF Slot, Waiting
  <1>2. Free \in NodeType /\ NoReq \in [key : Key \cup {Absent}, val : Val]
    BY DEF Free, NodeType, NoReq
  <1>3. TypeOK
    <2>1. \A c \in Nat : Cleared(c) \in [Slot(c) -> NodeType]
      BY <1>2 DEF Cleared
    <2>2. table \in [Slot(cap) -> NodeType]
          /\ old_table \in [Slot(old_cap) -> NodeType]
      BY <2>1
    <2>3. cap \in Nat \ {0} /\ size \in Nat /\ old_cap \in Nat /\ i \in 0..old_cap
      OBVIOUS
    <2>4. pc \in {"idle", "rehash", "insert", "aborted"} /\ failed \in BOOLEAN
      OBVIOUS
    <2>5. req \in [key : Key \cup {Absent}, val : Val]
      BY <1>2
    <2> QED
      BY <2>2, <2>3, <2>4, <2>5, Zenon DEF TypeOK
  <1>4. \A j \in Slot(cap) : ~table[j].occupied
    BY DEF Cleared, Free
  <1>5. Keyed(table, Slot(cap)) /\ Distinct(table, Slot(cap))
        /\ Chained(table, cap)
    BY <1>4 DEF Keyed, Distinct, Chained
  <1>6. Keyed(old_table, Slot(old_cap)) /\ Distinct(old_table, Slot(old_cap))
    BY <1>1 DEF Keyed, Distinct
  <1> QED
    BY <1>1, <1>3, <1>5, <1>6 DEF IndInv

\* A put that begins, with a new table or without one.
LEMMA PutInv ==
    ASSUME IndInv, NEW k \in Key, NEW v \in Val, Put(k, v)
    PROVE  IndInv'
  <1>1. CASE UNCHANGED <<cap, size, table, old_cap, old_table, i>>
             /\ pc' = "insert" /\ failed' \in BOOLEAN
    <2>1. TypeOK'
      BY <1>1 DEF IndInv, TypeOK, Put
    <2>2. Waiting' = Waiting /\ pc = "idle"
      BY <1>1 DEF Waiting, Put
    <2> QED
      BY <1>1, <2>1, <2>2 DEF IndInv, Put, Keyed, Distinct, Chained
  <1>2. CASE /\ pc' = "rehash" /\ i' = 0
             /\ old_cap' = cap /\ old_table' = table
             /\ cap' = 2 * cap /\ table' = Cleared(2 * cap) /\ size' = 0
             /\ UNCHANGED failed
    <2>1. Free \in NodeType
      BY KeyAssumption DEF Free, NodeType
    <2>2. cap' \in Nat \ {0}
      BY <1>2 DEF IndInv, TypeOK
    <2>3. table' \in [Slot(cap') -> NodeType]
          /\ \A j \in Slot(cap') : ~table'[j].occupied
      BY <1>2, <2>1 DEF Cleared, Free
    <2>4. TypeOK'
      BY <1>2, <2>2, <2>3 DEF IndInv, TypeOK, Put
    <2>5. Keyed(table', Slot(cap')) /\ Distinct(table', Slot(cap'))
          /\ Chained(table', cap')
      BY <2>3 DEF Keyed, Distinct, Chained
    <2> QED
      BY <1>2, <2>3, <2>4, <2>5 DEF IndInv, Put
  <1> QED
    BY <1>1, <1>2 DEF Put, IndInv, TypeOK

\* One slot of the old table: its key is in no other place.
LEMMA RehashSlotInv ==
    ASSUME IndInv, RehashSlot
    PROVE  IndInv'
  <1> DEFINE n == old_table[i]
             P == Probe(FreeIn(table), n.key, cap)
  <1>1. i \in Waiting /\ i \in Slot(old_cap) /\ n \in NodeType
    BY DEF IndInv, TypeOK, RehashSlot, Waiting, Slot
  <1>2. CASE UNCHANGED <<table, size>> /\ i' \in {i, i + 1}
             /\ pc' \in {"rehash", "aborted"}
    <2>1. Waiting' \subseteq Waiting
      BY <1>2 DEF IndInv, TypeOK, RehashSlot, Waiting, Slot
    <2>2. TypeOK'
      BY <1>2 DEF IndInv, TypeOK, RehashSlot
    <2> QED
      BY <1>2, <2>1, <2>2 DEF IndInv, RehashSlot, Keyed, Distinct, Chained
  <1>3. ASSUME n.occupied, NEW j \in P, table' = [table EXCEPT ![j] = n],
               size' = size + 1, i' = i + 1, UNCHANGED pc
        PROVE  IndInv'
    <2>1. n.key \in Key
      BY <1>1, <1>3 DEF IndInv, Keyed
    <2>2. \A a \in Slot(cap) : table[a].occupied => table[a].key # n.key
      BY <1>1, <1>3 DEF IndInv
    <2>3. FreeIn(table) \subseteq StopAt(table, n.key)
      BY DEF FreeIn, StopAt
    <2>4. /\ table' \in [Slot(cap) -> NodeType]
          /\ Distinct(table', Slot(cap)) /\ Chained(table', cap)
          /\ Keyed(table', Slot(cap))
      <3>1. cap \in Nat \ {0} /\ table \in [Slot(cap) -> NodeType]
            /\ Distinct(table, Slot(cap)) /\ Chained(table, cap)
            /\ Keyed(table, Slot(cap))
        BY DEF IndInv, TypeOK
      <3> HIDE DEF n
      <3> QED
        BY <1>1, <1>3, <2>1, <2>2, <2>3, <3>1, NodeAdded
    <2>5. TypeOK'
      BY <1>3, <2>4 DEF IndInv, TypeOK, RehashSlot
    <2>6. Waiting' \subseteq Waiting \ {i}
      BY <1>3 DEF IndInv, TypeOK, RehashSlot, Waiting, Slot
    <2>7. ASSUME NEW a \in Slot(cap), NEW l \in Waiting',
                 table'[a].occupied, old_table[l].occupied
          PROVE  table'[a].key # old_table[l].key
      <3>1. CASE a = j
        <4>1. table'[a] = n
          BY <1>3, <3>1 DEF IndInv, TypeOK
        <4>2. l \in Slot(old_cap) /\ l # i
          BY <2>6 DEF Waiting
        <4> QED
          BY <1>1, <1>3, <2>7, <4>1, <4>2 DEF IndInv, Distinct
      <3>2. CASE a # j
        <4>1. table'[a] = table[a]
          BY <1>3, <3>2 DEF IndInv, TypeOK
        <4> QED
          BY <2>6, <2>7, <4>1 DEF IndInv
      <3> QED
        BY <3>1, <3>2
    <2> QED
      BY <1>3, <2>4, <2>5, <2>7 DEF IndInv, RehashSlot
  <1> QED
    BY <1>2, <1>3 DEF RehashSlot, IndInv, TypeOK

LEMMA RehashDoneInv ==
    ASSUME IndInv, RehashDone
    PROVE  IndInv'
  <1>1. Slot(0) = {} /\ Waiting' = {} /\ old_cap' = 0
    BY DEF Slot, Waiting, RehashDone
  <1>2. Cleared(0) \in [Slot(0) -> NodeType]
    BY <1>1 DEF Cleared
  <1>3. TypeOK'
    BY <1>1, <1>2 DEF IndInv, TypeOK, RehashDone
  <1>4. Keyed(old_table', Slot(old_cap')) /\ Distinct(old_table', Slot(old_cap'))
    BY <1>1 DEF Keyed, Distinct
  <1> QED
    BY <1>1, <1>3, <1>4 DEF IndInv, RehashDone, Keyed, Distinct, Chained

\* The put itself: the probe ends at the node of the key if there is one.
LEMMA NodeOfKey ==
    ASSUME IndInv, pc = "insert",
           NEW j \in Probe(StopAt(table, req.key), req.key, cap),
           NEW a \in Slot(cap), table[a].occupied, table[a].key = req.key
    PROVE  a = j
  <1> DEFINE k == req.key
  <1>1. cap \in Nat \ {0} /\ table \in [Slot(cap) -> NodeType]
        /\ Distinct(table, Slot(cap)) /\ Chained(table, cap) /\ k \in Key
    BY DEF IndInv, TypeOK
  <1>2. StopAt(table, k) \in SUBSET Slot(cap)
    BY <1>1 DEF StopAt
  <1>3. a \in Probe(StopAt(table, k), k, cap)
    BY <1>1, NodeIsProbed
  <1> QED
    BY <1>1, <1>2, <1>3, ProbeEndsOnce

LEMMA InsertInv ==
    ASSUME IndInv, Insert
    PROVE  IndInv'
  <1> DEFINE n == Node(req.key, req.val)
             P == Probe(StopAt(table, req.key), req.key, cap)
  <1>1. n \in NodeType /\ n.occupied /\ n.key = req.key /\ req.key \in Key
    BY DEF IndInv, TypeOK, Insert, Node, NodeType
  <1>2. CASE UNCHANGED <<table, size, req>> /\ pc' = "aborted"
    <2>1. TypeOK'
      BY <1>2 DEF IndInv, TypeOK, Insert
    <2>2. Waiting' = Waiting
      BY DEF Waiting, Insert
    <2> QED
      BY <1>2, <2>1, <2>2 DEF IndInv, Insert, Keyed, Distinct, Chained
  <1>3. ASSUME NEW j \in P, table' = [table EXCEPT ![j] = n],
               size' = IF table[j].occupied THEN size ELSE size + 1,
               pc' = "idle", req' = NoReq
        PROVE  IndInv'
    <2>1. \A a \in Slot(cap) : table[a].occupied /\ table[a].key = n.key
                                => a = j
      BY <1>1, NodeOfKey DEF Insert
    <2>2. FreeIn(table) \subseteq StopAt(table, n.key)
      BY DEF FreeIn, StopAt
    <2>3. /\ table' \in [Slot(cap) -> NodeType]
          /\ Distinct(table', Slot(cap)) /\ Chained(table', cap)
          /\ Keyed(table', Slot(cap))
      <3>1. cap \in Nat \ {0} /\ table \in [Slot(cap) -> NodeType]
            /\ Distinct(table, Slot(cap)) /\ Chained(table, cap)
            /\ Keyed(table, Slot(cap))
        BY DEF IndInv, TypeOK
      <3>2. j \in Probe(StopAt(table, n.key), n.key, cap)
        BY <1>1
      <3> HIDE DEF n
      <3> QED
        BY <1>1, <1>3, <2>1, <2>2, <3>1, <3>2, NodeAdded
    <2>4. NoReq \in [key : Key \cup {Absent}, val : Val]
      BY KeyAssumption DEF NoReq
    <2>5. TypeOK'
      BY <1>3, <2>3, <2>4 DEF IndInv, TypeOK, Insert
    <2>6. Waiting' = {} /\ old_cap = 0
      BY DEF IndInv, Waiting, Slot, Insert
    <2> QED
      BY <1>3, <2>3, <2>5, <2>6 DEF IndInv, Insert
  <1> QED
    BY <1>2, <1>3 DEF Insert

\* Lookups change no table.
LEMMA LookupInv ==
    ASSUME IndInv,
           UNCHANGED <<cap, size, table, old_cap, old_table, i, req, pc, failed>>
    PROVE  IndInv'
  <1>1. TypeOK' /\ Waiting' = Waiting
    BY DEF IndInv, TypeOK, Waiting
  <1> QED
    BY <1>1 DEF IndInv, Keyed, Distinct, Chained

LEMMA RenewInv ==
    ASSUME IndInv, Renew
    PROVE  IndInv'
  <1>1. Free \in NodeType
    BY KeyAssumption DEF Free, NodeType
  <1>2. table' \in [Slot(cap') -> NodeType]
        /\ \A j \in Slot(cap') : ~table'[j].occupied
    BY <1>1 DEF Renew, Cleared, Free
  <1>3. TypeOK'
    BY <1>2, CapAssumption DEF IndInv, TypeOK, Renew
  <1>4. Keyed(table', Slot(cap')) /\ Distinct(table', Slot(cap'))
        /\ Chained(table', cap')
    BY <1>2 DEF Keyed, Distinct, Chained
  <1>5. Waiting' = Waiting
    BY DEF Waiting, Renew
  <1> QED
    BY <1>2, <1>3, <1>4, <1>5 DEF IndInv, Renew, Keyed, Distinct, Chained

LEMMA StepInv == IndInv /\ [Next]_vars => IndInv'
  <1> SUFFICES ASSUME IndInv, [Next]_vars PROVE IndInv'
    OBVIOUS
  <1>1. CASE \E k \in Key : Get(k) \/ Contains(k)
    BY <1>1, LookupInv DEF Get, Contains
  <1>2. CASE \E k \in Key, v \in Val : Put(k, v)
    BY <1>2, PutInv
  <1>3. CASE Aborted \/ UNCHANGED vars
    BY <1>3, LookupInv DEF Aborted, vars
  <1>4. CASE RehashSlot \/ RehashDone \/ Insert \/ Renew
    BY <1>4, RehashSlotInv, RehashDoneInv, InsertInv, RenewInv
  <1> QED
    BY <1>1, <1>2, <1>3, <1>4 DEF Next

-----------------------------------------------------------------------------
(* The theorems.                                                           *)

\* The invariant above holds in every reachable state.
THEOREM Invariance == Spec => []IndInv
  BY InitInv, StepInv, PTL DEF Spec

\* The variables of the hash map keep their types, whatever is put into it.
THEOREM TypeCorrect == Spec => []TypeOK
  <1>1. IndInv => TypeOK
    BY DEF IndInv
  <1> QED
    BY <1>1, Invariance, PTL

\* Every node of the table can be found by the probe for its key, also in the
\* middle of a rehash.
THEOREM Reachability == Spec => []NodesReachable
  <1>1. IndInv => NodesReachable
    BY DEF IndInv, NodesReachable
  <1> QED
    BY <1>1, Invariance, PTL

-----------------------------------------------------------------------------
(* The refinement.                                                         *)

\* The invariant says that the tables are apart, before a step and after it.
LEMMA TablesApart ==
    ASSUME NEW t, NEW S, NEW o, NEW O, NEW W, W \subseteq O,
           Distinct(t, S), Distinct(o, O),
           \A j \in S, l \in W : t[j].occupied /\ o[l].occupied
                                 => t[j].key # o[l].key
    PROVE  Apart(t, S, o, W)
  BY DEF Apart, Distinct

LEMMA StateApart ==
    /\ IndInv => Apart(table, Slot(cap), old_table, Waiting)
    /\ IndInv' => Apart(table', Slot(cap'), old_table', Waiting')
  <1>1. Waiting \subseteq Slot(old_cap) /\ Waiting' \subseteq Slot(old_cap')
    BY DEF Waiting
  <1> QED
    BY <1>1, TablesApart DEF IndInv

\* A lookup finds the node of its key, and nothing else.
LEMMA FoundIsBound ==
    ASSUME IndInv, pc = "idle", NEW k \in Key
    PROVE  /\ \A j \in Found(k) : Contents[k] = table[j].val /\ Contents[k] \in Val
           /\ Found(k) = {} => Contents[k] = Absent
  <1>1. cap \in Nat \ {0} /\ table \in [Slot(cap) -> NodeType]
        /\ Distinct(table, Slot(cap)) /\ Chained(table, cap) /\ old_cap = 0
    BY DEF IndInv, TypeOK
  <1>2. Apart(table, Slot(cap), old_table, Waiting)
    BY StateApart
  <1>3. ASSUME NEW j \in Found(k)
        PROVE  Contents[k] = table[j].val /\ Contents[k] \in Val
    <2>1. j \in Slot(cap) /\ table[j].occupied /\ table[j].key = k
      BY <1>1 DEF Found, Probe, StopAt
    <2>2. table[j] \in Nodes(table, Slot(cap))
      BY <2>1 DEF Nodes
    <2>3. Contents[k] = table[j].val
      BY <1>2, <2>1, <2>2, MergedBinding DEF Contents
    <2> QED
      BY <1>1, <2>1, <2>3 DEF NodeType
  <1>4. ASSUME Found(k) = {} PROVE Contents[k] = Absent
    <2>1. \A j \in Slot(cap) : table[j].occupied => table[j].key # k
      <3> SUFFICES ASSUME NEW j \in Slot(cap), table[j].occupied, table[j].key = k
                   PROVE  FALSE
        OBVIOUS
      <3>1. j \in Probe(StopAt(table, k), k, cap)
        BY <1>1, NodeIsProbed
      <3> QED
        BY <1>4, <3>1 DEF Found
    <2>2. Waiting = {}
      BY <1>1 DEF Waiting, Slot
    <2>3. ~Holds(table, Slot(cap), k) /\ ~Holds(old_table, Waiting, k)
      BY <2>1, <2>2 DEF Holds
    <2> QED
      BY <2>3 DEF Contents, Merged
  <1> QED
    BY <1>3, <1>4

\* A step that moves nodes, or none, changes no binding.
LEMMA Moved ==
    ASSUME IndInv, IndInv',
           Nodes(table, Slot(cap)) \cup Nodes(old_table, Waiting)
             = Nodes(table', Slot(cap')) \cup Nodes(old_table', Waiting')
    PROVE  Contents' = Contents
  <1>1. \A k \in Key :
           Merged(table', Slot(cap'), old_table', Waiting')[k]
             = Merged(table, Slot(cap), old_table, Waiting)[k]
    BY StateApart, SameBinding
  <1> QED
    BY <1>1 DEF Contents, Merged

LEMMA PutMoves ==
    ASSUME IndInv, NEW k \in Key, NEW v \in Val, Put(k, v)
    PROVE  Contents' = Contents
  <1>1. CASE UNCHANGED <<cap, table, old_cap, old_table, i>>
    BY <1>1 DEF Contents, Waiting, Slot
  <1>2. CASE /\ i' = 0 /\ old_cap' = cap /\ old_table' = table
             /\ cap' = 2 * cap /\ table' = Cleared(2 * cap)
    <2>1. IndInv'
      BY PutInv
    <2>2. Waiting = {}
      BY DEF IndInv, Put, Waiting, Slot
    <2>3. Waiting' = Slot(cap)
      BY <1>2 DEF IndInv, TypeOK, Waiting, Slot
    <2>4. Nodes(table', Slot(cap')) = {}
      BY <1>2 DEF Nodes, Cleared, Free
    <2>5. Nodes(old_table, Waiting) = {}
      BY <2>2 DEF Nodes
    <2> QED
      BY <1>2, <2>1, <2>3, <2>4, <2>5, Moved
  <1> QED
    BY <1>1, <1>2 DEF Put

LEMMA RehashMoves ==
    ASSUME IndInv, RehashSlot \/ RehashDone
    PROVE  Contents' = Contents
  <1>1. IndInv'
    BY RehashSlotInv, RehashDoneInv
  <1>2. CASE RehashDone
    <2>1. Waiting = {} /\ Waiting' = {}
      BY <1>2 DEF IndInv, TypeOK, RehashDone, Waiting, Slot
    <2> QED
      BY <1>1, <1>2, <2>1, Moved DEF RehashDone, Nodes
  <1>3. CASE RehashSlot
    <2> DEFINE n == old_table[i]
               P == Probe(FreeIn(table), n.key, cap)
    <2>1. i \in Waiting /\ table \in [Slot(cap) -> NodeType]
      BY <1>3 DEF IndInv, TypeOK, RehashSlot, Waiting, Slot
    <2>2. CASE pc' = "aborted"
      BY <1>3, <2>2 DEF RehashSlot, Contents, Waiting
    <2>3. CASE i' = i + 1 /\ UNCHANGED table /\ ~n.occupied
      <3>1. Waiting' = Waiting \ {i}
        BY <1>3, <2>3 DEF IndInv, TypeOK, RehashSlot, Waiting, Slot
      <3>2. Nodes(old_table, Waiting') = Nodes(old_table, Waiting)
        BY <2>3, <3>1 DEF Nodes
      <3> QED
        BY <1>1, <1>3, <2>3, <3>2, Moved DEF RehashSlot
    <2>4. ASSUME i' = i + 1, n.occupied, NEW j \in P,
                 table' = [table EXCEPT ![j] = n]
          PROVE  Contents' = Contents
      <3>1. Waiting' = Waiting \ {i}
        BY <1>3, <2>4 DEF IndInv, TypeOK, RehashSlot, Waiting, Slot
      <3>2. j \in Slot(cap) /\ ~table[j].occupied
        BY <2>1, <2>4 DEF Probe, FreeIn
      <3>3. Nodes(table', Slot(cap)) = Nodes(table, Slot(cap)) \cup {n}
        BY <2>1, <2>4, <3>2 DEF Nodes
      <3>4. Nodes(old_table, Waiting) = Nodes(old_table, Waiting') \cup {n}
        BY <2>1, <2>4, <3>1 DEF Nodes
      <3> QED
        BY <1>1, <1>3, <3>3, <3>4, Moved DEF RehashSlot
    <2> QED
      BY <1>3, <2>2, <2>3, <2>4 DEF RehashSlot
  <1> QED
    BY <1>2, <1>3

\* The end of a put binds its key, and changes no other one.
LEMMA InsertBinds ==
    ASSUME IndInv, Insert, pc' # "aborted"
    PROVE  Contents' = [Contents EXCEPT ![req.key] = req.val]
  <1> DEFINE n == Node(req.key, req.val)
             P == Probe(StopAt(table, req.key), req.key, cap)
  <1>1. PICK j \in P : table' = [table EXCEPT ![j] = n]
    BY DEF Insert
  <1>2. /\ j \in Slot(cap) /\ table \in [Slot(cap) -> NodeType]
        /\ ~table[j].occupied \/ table[j].key = req.key
        /\ n.occupied /\ n.key = req.key /\ n.val = req.val
        /\ req.key \in Key /\ UNCHANGED <<cap, old_table>>
    BY <1>1 DEF IndInv, TypeOK, Insert, Node, Probe, StopAt
  <1>3. Waiting = {} /\ Waiting' = {}
    BY DEF IndInv, Insert, Waiting, Slot
  <1>4. IndInv'
    BY InsertInv
  <1>5. Apart(table, Slot(cap), old_table, {})
        /\ Apart(table', Slot(cap), old_table, {})
    BY <1>2, <1>3, <1>4, StateApart
  <1>6. Contents = Merged(table, Slot(cap), old_table, {})
        /\ Contents' = Merged(table', Slot(cap), old_table, {})
    BY <1>2, <1>3 DEF Contents
  <1> HIDE DEF n
  <1>7. Contents'[req.key] = req.val
    <2>1. n \in Nodes(table', Slot(cap))
      BY <1>1, <1>2 DEF Nodes
    <2> QED
      BY <1>2, <1>5, <1>6, <2>1, MergedBinding
  <1>8. ASSUME NEW k \in Key, k # req.key PROVE Contents'[k] = Contents[k]
    <2>1. \A x : x.key = k => (x \in Nodes(table', Slot(cap))
                               <=> x \in Nodes(table, Slot(cap)))
      BY <1>1, <1>2, <1>8 DEF Nodes
    <2>2. Nodes(old_table, {}) = {}
      BY DEF Nodes
    <2> QED
      BY <1>5, <1>6, <2>1, <2>2, SameBinding
  <1> QED
    BY <1>2, <1>6, <1>7, <1>8 DEF Merged

\* Every step of the hash map is a step of the map, or leaves it alone.
LEMMA StepRefines == IndInv /\ [Next]_vars => [M!Next]_(M!vars)
  <1> SUFFICES ASSUME IndInv, [Next]_vars PROVE M!Next \/ UNCHANGED M!vars
    OBVIOUS
  <1>1. CASE UNCHANGED vars \/ Aborted
    BY <1>1 DEF vars, Aborted, M!vars, Contents, Waiting
  <1>2. ASSUME NEW k \in Key, Get(k) PROVE M!Get(k)
    <2>1. pc = "idle" /\ UNCHANGED Contents
      BY <1>2 DEF Get, Contents, Waiting
    <2>2. CASE Found(k) = {}
      BY <1>2, <2>1, <2>2, FoundIsBound DEF Get, M!Get, M!Value
    <2>3. CASE Found(k) # {}
      <3>1. PICK j \in Found(k) :
              result' = [op |-> "get", key |-> k, val |-> table[j].val]
        BY <1>2, <2>3 DEF Get
      <3>2. Contents[k] = table[j].val /\ Contents[k] # Absent
        BY <2>1, FoundIsBound, KeyAssumption
      <3> QED
        BY <2>1, <3>1, <3>2 DEF M!Get, M!Value
    <2> QED
      BY <2>2, <2>3
  <1>3. ASSUME NEW k \in Key, Contains(k) PROVE M!Contains(k)
    <2>1. pc = "idle" /\ UNCHANGED Contents
      BY <1>3 DEF Contains, Contents, Waiting
    <2>2. (Found(k) # {}) = (Contents[k] # Absent)
      BY <2>1, FoundIsBound, KeyAssumption
    <2> QED
      BY <1>3, <2>1, <2>2, Zenon DEF Contains, M!Contains
  <1>4. ASSUME NEW k \in Key, NEW v \in Val, Put(k, v) PROVE UNCHANGED M!vars
    BY <1>4, PutMoves DEF Put, M!vars
  <1>5. CASE RehashSlot \/ RehashDone
    BY <1>5, RehashMoves DEF RehashSlot, RehashDone, M!vars
  <1>6. CASE Insert
    <2>1. CASE pc' = "aborted"
      BY <1>6, <2>1 DEF Insert, M!vars, Contents, Waiting
    <2>2. CASE pc' # "aborted"
      <3>1. req.key \in Key /\ req.val \in Val
        BY <1>6 DEF IndInv, TypeOK, Insert
      <3>2. M!Put(req.key, req.val)
        BY <1>6, <2>2, InsertBinds DEF Insert, M!Put
      <3> QED
        BY <3>1, <3>2 DEF M!Next
    <2> QED
      BY <2>1, <2>2
  <1>7. CASE Renew
    <2>1. Waiting' = {}
      BY <1>7 DEF Renew, IndInv, Waiting, Slot
    <2>2. \A j \in Slot(cap') : ~table'[j].occupied
      BY <1>7 DEF Renew, Cleared, Free
    <2>3. Contents' = [k \in Key |-> Absent]
      BY <2>1, <2>2 DEF Contents, Merged, Holds
    <2> QED
      BY <1>7, <2>3 DEF Renew, M!Next, M!Clear
  <1> QED
    BY <1>1, <1>2, <1>3, <1>4, <1>5, <1>6, <1>7 DEF Next, M!Next

\* The hash map implements the map of MapSpec: every lookup returns the value
\* of the last hashmap_put() of its key, through collisions, rehashing and
\* failures of calloc().
THEOREM Refinement == Spec => ImplementsMap
  <1>1. Init => M!Init
    <2> SUFFICES ASSUME Init PROVE M!Init
      OBVIOUS
    <2>1. Waiting = {} /\ \A j \in Slot(cap) : ~table[j].occupied
      BY DEF Init, Waiting, Slot, Cleared, Free
    <2>2. Contents = [k \in Key |-> Absent]
      BY <2>1 DEF Contents, Merged, Holds
    <2> QED
      BY <2>2 DEF Init, M!Init, M!NoResult
  <1> QED
    BY <1>1, StepRefines, Invariance, PTL DEF Spec, ImplementsMap, M!Spec

-----------------------------------------------------------------------------
(* The load of the table.                                                  *)

Occupied(t, S) == {j \in S : t[j].occupied}

\* size counts the nodes; a call is only ever about to insert into a table
\* that is less than half full, and all the nodes of the old table fit into
\* half of its slots.
CountInv ==
    /\ size = Cardinality(Occupied(table, Slot(cap)))
    /\ ~failed =>
         /\ pc # "aborted"
         /\ pc = "idle" => size <= cap \div 2
         /\ pc = "insert" => size < cap \div 2
         /\ pc = "rehash" =>
              /\ cap = 2 * old_cap
              /\ size + Cardinality(Occupied(old_table, Waiting)) <= old_cap \div 2

LEMMA SlotsFinite ==
    ASSUME NEW c \in Nat
    PROVE  IsFiniteSet(Slot(c)) /\ Cardinality(Slot(c)) = c
<1>1. 0 \in Int /\ c - 1 \in Int
  OBVIOUS
<1>2. /\ IsFiniteSet(0..(c - 1))
      /\ Cardinality(0..(c - 1)) = IF 0 > c - 1 THEN 0 ELSE (c - 1) - 0 + 1
  BY <1>1, FS_Interval
<1> QED BY <1>2 DEF Slot

LEMMA OccupiedFinite ==
    ASSUME NEW c \in Nat, NEW S \in SUBSET Slot(c), NEW t
    PROVE  /\ IsFiniteSet(Occupied(t, S))
           /\ Cardinality(Occupied(t, S)) \in Nat
           /\ Cardinality(Occupied(t, S)) <= c
<1>1. Occupied(t, S) \in SUBSET Slot(c)
  BY DEF Occupied
<1> QED BY <1>1, SlotsFinite, FS_Subset, FS_CardinalityType

\* Linear probing finds one of the slots it looks for, if there is one: the
\* nearest one going up from the hash and round the end.
LEMMA ProbeFinds ==
    ASSUME NEW c \in Nat \ {0}, NEW k \in Key, NEW S \in SUBSET Slot(c), S # {}
    PROVE  Probe(S, k, c) # {}
<1> DEFINE s == Index(k, c)
           D(j) == IF s <= j THEN j - s ELSE j - s + c
           R == {D(j) : j \in S}
<1>1. s \in Slot(c)
  BY IndexInTable
<1> HIDE DEF s
<1>2. \A j \in Slot(c) : j \in Int /\ s \in Int /\ D(j) \in Nat
  BY <1>1 DEF Slot
<1>3. R \subseteq Nat /\ R # {}
  BY <1>2
<1>4. PICK x \in R : \A y \in R : ~(<<y, x>> \in OpToRel(<, Nat))
  BY <1>3, NatLessThanWellFounded, WFMin
<1>5. PICK j \in S : x = D(j)
  BY <1>4
<1>6. ASSUME NEW a \in Arc(s, j, c), a \in S PROVE FALSE
  <2>1. D(a) < D(j) /\ D(a) \in Nat /\ D(j) \in Nat
    BY <1>1, <1>2, <1>5 DEF Arc, Slot
  <2>2. <<D(a), D(j)>> \in OpToRel(<, Nat)
    BY <2>1 DEF OpToRel
  <2> QED BY <1>4, <1>5, <1>6, <2>2
<1>7. j \in Probe(S, k, c)
  BY <1>6 DEF Probe, s
<1> QED BY <1>7

\* A table with fewer nodes than slots has a free one.
LEMMA FreeSlot ==
    ASSUME NEW c \in Nat \ {0}, NEW t \in [Slot(c) -> NodeType],
           Cardinality(Occupied(t, Slot(c))) < c
    PROVE  FreeIn(t) \in SUBSET Slot(c) /\ FreeIn(t) # {}
<1>1. FreeIn(t) \in SUBSET Slot(c)
  BY DEF FreeIn
<1>2. ASSUME FreeIn(t) = {} PROVE FALSE
  <2>1. Occupied(t, Slot(c)) = Slot(c)
    BY <1>2 DEF FreeIn, Occupied
  <2> QED BY <2>1, SlotsFinite
<1> QED BY <1>1, <1>2

\* Writing a node adds one, or replaces one.
LEMMA NodeCounted ==
    ASSUME NEW c \in Nat \ {0}, NEW t \in [Slot(c) -> NodeType],
           NEW j \in Slot(c), NEW n, n.occupied
    PROVE  Cardinality(Occupied([t EXCEPT ![j] = n], Slot(c)))
             = IF t[j].occupied THEN Cardinality(Occupied(t, Slot(c)))
               ELSE Cardinality(Occupied(t, Slot(c))) + 1
<1> DEFINE u == [t EXCEPT ![j] = n]
<1>1. Occupied(u, Slot(c)) = Occupied(t, Slot(c)) \cup {j}
  BY DEF Occupied
<1>2. IsFiniteSet(Occupied(t, Slot(c)))
  BY OccupiedFinite
<1>3. j \in Occupied(t, Slot(c)) <=> t[j].occupied
  BY DEF Occupied
<1> QED BY <1>1, <1>2, <1>3, FS_AddElement

LEMMA EmptyCounted ==
    ASSUME NEW t, NEW S, \A j \in S : ~t[j].occupied
    PROVE  Cardinality(Occupied(t, S)) = 0
<1>1. Occupied(t, S) = {}
  BY DEF Occupied
<1> QED BY <1>1, FS_EmptySet

LEMMA InitCount == Init => CountInv
<1> SUFFICES ASSUME Init PROVE CountInv
  OBVIOUS
<1>1. \A j \in Slot(cap) : ~table[j].occupied
  BY DEF Init, Cleared, Free
<1>2. size = Cardinality(Occupied(table, Slot(cap)))
  BY <1>1, EmptyCounted DEF Init
<1> QED BY <1>2, CapAssumption DEF Init, CountInv

LEMMA PutCount ==
    ASSUME IndInv, CountInv, NEW k \in Key, NEW v \in Val, Put(k, v)
    PROVE  CountInv'
<1>0. pc = "idle" /\ cap \in Nat \ {0} /\ size \in Nat
  BY DEF IndInv, TypeOK, Put
<1>1. CASE UNCHANGED <<cap, size, table, old_cap, old_table, i>> /\ pc' = "insert"
           /\ (failed' \/ (failed' = failed /\ ~Loaded))
  BY <1>0, <1>1 DEF CountInv, Loaded
<1>2. CASE /\ pc' = "rehash" /\ i' = 0
           /\ old_cap' = cap /\ old_table' = table
           /\ cap' = 2 * cap /\ table' = Cleared(2 * cap) /\ size' = 0
           /\ UNCHANGED failed
  <2>1. \A j \in Slot(cap') : ~table'[j].occupied
    BY <1>2 DEF Cleared, Free
  <2>2. Waiting' = Slot(cap)
    BY <1>2 DEF Waiting, Slot
  <2>3. Cardinality(Occupied(table', Slot(cap'))) = 0
    BY <2>1, EmptyCounted
  <2> QED BY <1>0, <1>2, <2>2, <2>3 DEF CountInv
<1> QED BY <1>1, <1>2 DEF Put

LEMMA RehashSlotCount ==
    ASSUME IndInv, CountInv, RehashSlot PROVE CountInv'
<1> DEFINE n == old_table[i]
           P == Probe(FreeIn(table), n.key, cap)
           O == Occupied(old_table, Waiting)
<1>1. /\ pc = "rehash" /\ i \in Waiting /\ i \in Slot(old_cap)
      /\ cap \in Nat \ {0} /\ table \in [Slot(cap) -> NodeType]
      /\ old_cap \in Nat \ {0} /\ size \in Nat
      /\ Waiting \in SUBSET Slot(old_cap)
  BY DEF IndInv, TypeOK, RehashSlot, Waiting, Slot
<1>2. IsFiniteSet(O) /\ Cardinality(O) \in Nat
  BY <1>1, OccupiedFinite
<1>3. UNCHANGED <<cap, old_cap, old_table, failed>>
  BY DEF RehashSlot
<1>4. i' = i + 1 => Waiting' = Waiting \ {i}
  BY <1>1, <1>3 DEF Waiting, Slot
<1>5. CASE ~n.occupied
  <2>1. i' = i + 1 /\ UNCHANGED <<table, size, pc>>
    BY <1>5 DEF RehashSlot
  <2>2. Occupied(old_table, Waiting') = O
    BY <1>4, <1>5, <2>1 DEF Occupied
  <2> QED BY <1>3, <2>1, <2>2 DEF CountInv
<1>6. CASE n.occupied
  <2>0. n.key \in Key
    BY <1>1, <1>6 DEF IndInv, Keyed
  <2>1. i \in O
    BY <1>1, <1>6 DEF Occupied
  <2>2. Occupied(old_table, Waiting \ {i}) = O \ {i}
    BY DEF Occupied
  <2>3. Cardinality(O \ {i}) = Cardinality(O) - 1 /\ Cardinality(O) >= 1
    <3>1. Cardinality(O \ {i}) = Cardinality(O) - 1 /\ IsFiniteSet(O \ {i})
      BY <1>2, <2>1, FS_RemoveElement
    <3>2. Cardinality(O \ {i}) \in Nat
      BY <3>1, FS_CardinalityType
    <3> QED BY <1>2, <3>1, <3>2
  <2>4. ASSUME ~failed PROVE P # {}
    <3>1. size < cap
      BY <1>1, <1>2, <2>3, <2>4 DEF CountInv
    <3>2. FreeIn(table) \in SUBSET Slot(cap) /\ FreeIn(table) # {}
      BY <1>1, <3>1, FreeSlot DEF CountInv
    <3> QED BY <1>1, <2>0, <3>2, ProbeFinds
  <2>5. CASE P = {}
    <3>1. failed /\ pc' = "aborted" /\ UNCHANGED <<table, size>>
      BY <1>6, <2>4, <2>5 DEF RehashSlot
    <3> QED BY <1>3, <3>1 DEF CountInv
  <2>6. CASE P # {}
    <3>1. PICK j \in P : table' = [table EXCEPT ![j] = n]
      BY <1>6, <2>6 DEF RehashSlot
    <3>2. size' = size + 1 /\ i' = i + 1 /\ pc' = pc
      BY <1>6, <2>6 DEF RehashSlot
    <3>3. j \in Slot(cap) /\ ~table[j].occupied
      BY <1>1 DEF Probe, FreeIn
    <3>4. Cardinality(Occupied(table', Slot(cap)))
            = Cardinality(Occupied(table, Slot(cap))) + 1
      BY <1>1, <1>6, <3>1, <3>3, NodeCounted
    <3>5. Occupied(old_table, Waiting') = O \ {i}
      BY <1>4, <2>2, <3>2
    <3> QED BY <1>1, <1>2, <1>3, <2>3, <3>2, <3>4, <3>5 DEF CountInv
  <2> QED BY <2>5, <2>6
<1> QED BY <1>5, <1>6

LEMMA RehashDoneCount ==
    ASSUME IndInv, CountInv, RehashDone PROVE CountInv'
<1>1. /\ pc = "rehash" /\ pc' = "insert" /\ i = old_cap
      /\ UNCHANGED <<cap, size, table, failed>>
  BY DEF RehashDone
<1>2. cap \in Nat \ {0} /\ old_cap \in Nat /\ size \in Nat
  BY DEF IndInv, TypeOK
<1>3. Waiting = {}
  BY <1>1, <1>2 DEF Waiting, Slot
<1>4. Cardinality(Occupied(old_table, Waiting)) = 0
  BY <1>3, EmptyCounted
<1> QED BY <1>1, <1>2, <1>4 DEF CountInv

LEMMA InsertCount ==
    ASSUME IndInv, CountInv, Insert PROVE CountInv'
<1> DEFINE n == Node(req.key, req.val)
           P == Probe(StopAt(table, req.key), req.key, cap)
<1>1. /\ pc = "insert" /\ req.key \in Key /\ n.occupied
      /\ cap \in Nat \ {0} /\ table \in [Slot(cap) -> NodeType] /\ size \in Nat
      /\ UNCHANGED <<cap, failed>>
  BY DEF IndInv, TypeOK, Insert, Node
<1>2. ASSUME ~failed PROVE P # {}
  <2>1. size < cap
    BY <1>1, <1>2 DEF CountInv
  <2>2. FreeIn(table) # {}
    BY <1>1, <2>1, FreeSlot DEF CountInv
  <2>3. StopAt(table, req.key) \in SUBSET Slot(cap) /\ StopAt(table, req.key) # {}
    BY <1>1, <2>2 DEF StopAt, FreeIn
  <2> QED BY <1>1, <2>3, ProbeFinds
<1>3. CASE P = {} /\ pc' = "aborted" /\ UNCHANGED <<table, size>>
  BY <1>1, <1>2, <1>3 DEF CountInv
<1>4. ASSUME NEW j \in P, table' = [table EXCEPT ![j] = n],
             size' = IF table[j].occupied THEN size ELSE size + 1, pc' = "idle"
      PROVE  CountInv'
  <2>1. j \in Slot(cap)
    BY <1>1 DEF Probe, StopAt
  <2> HIDE DEF n
  <2>2. size' = Cardinality(Occupied(table', Slot(cap')))
    BY <1>1, <1>4, <2>1, NodeCounted DEF CountInv
  <2>3. ~failed => size' <= cap \div 2
    <3>1. cap \div 2 \in Nat
      BY <1>1
    <3> QED BY <1>1, <1>4, <3>1 DEF CountInv
  <2> QED BY <1>1, <1>4, <2>2, <2>3 DEF CountInv
<1> QED BY <1>3, <1>4 DEF Insert

LEMMA RenewCount ==
    ASSUME IndInv, Renew PROVE CountInv'
<1>1. \A j \in Slot(cap') : ~table'[j].occupied
  BY DEF Renew, Cleared, Free
<1>2. Cardinality(Occupied(table', Slot(cap'))) = 0
  BY <1>1, EmptyCounted
<1>3. pc' = "idle" /\ size' = 0
  BY DEF Renew
<1>4. size' <= cap' \div 2
  <2>1. \A c \in Nat : c \div 2 \in Nat
    OBVIOUS
  <2>2. cap' \div 2 \in Nat
    BY <2>1, CapAssumption DEF Renew
  <2> QED BY <1>3, <2>2
<1> QED BY <1>2, <1>3, <1>4 DEF CountInv

\* Unless calloc() has failed, the map is never more than half full, and no
\* hashmap_put() comes back to where its probe started, whatever the hashes.
THEOREM Load == Spec => []HalfFull
<1>1. IndInv /\ CountInv /\ [Next]_vars => CountInv'
  <2> SUFFICES ASSUME IndInv, CountInv, [Next]_vars PROVE CountInv'
    OBVIOUS
  <2>1. CASE UNCHANGED <<cap, size, table, old_cap, old_table, i, pc, failed>>
    BY <2>1 DEF CountInv, Waiting
  <2>2. CASE \E k \in Key : Get(k) \/ Contains(k)
    BY <2>1, <2>2 DEF Get, Contains
  <2>3. CASE \E k \in Key, v \in Val : Put(k, v)
    BY <2>3, PutCount
  <2>4. CASE Aborted \/ UNCHANGED vars
    BY <2>1, <2>4 DEF Aborted, vars
  <2>5. CASE RehashSlot \/ RehashDone \/ Insert \/ Renew
    BY <2>5, RehashSlotCount, RehashDoneCount, InsertCount, RenewCount
  <2> QED BY <2>2, <2>3, <2>4, <2>5 DEF Next
<1>2. IndInv /\ CountInv => HalfFull
  <2> SUFFICES ASSUME IndInv, CountInv PROVE HalfFull
    OBVIOUS
  <2>1. /\ cap \in Nat /\ size \in Nat /\ old_cap \in Nat
        /\ pc \in {"idle", "rehash", "insert", "aborted"}
        /\ Waiting \in SUBSET Slot(old_cap)
    BY DEF IndInv, TypeOK, Waiting
  <2>2. Cardinality(Occupied(old_table, Waiting)) \in Nat
    BY <2>1, OccupiedFinite
  <2> QED BY <2>1, <2>2 DEF CountInv, HalfFull, Occupied
<1> QED BY <1>1, <1>2, InitCount, Invariance, PTL DEF Spec
=============================================================================
