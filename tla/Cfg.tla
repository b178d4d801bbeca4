-------------------------------- MODULE Cfg --------------------------------
(***************************************************************************)
(* The control-flow graph of a function: basic_block_t of                  *)
(* src/src/defs.h and the operations on it in src/src/globals.c.  Blocks   *)
(* are numbered in the order they are created, NULL is 0.  An instruction  *)
(* is [id, kind]: "stmt" for one the flow passes through, "cond" for an    *)
(* OP_branch, "true" for an OP_branch on the constant 1.                   *)
(***************************************************************************)
EXTENDS Integers, Sequences

CONSTANT MAX_BB_PRED     \* predecessors of one block

ASSUME PredAssumption == MAX_BB_PRED \in Nat \ {0}

NULL == 0
NoBlocks ==
    [next |-> <<>>, then_ |-> <<>>, else_ |-> <<>>, prev |-> <<>>,
     insn |-> <<>>, aborted |-> FALSE]
Blocks(g) == 1..Len(g.insn)
Newest(g) == Len(g.insn)

\* A new block; its number is Newest() of the result.
bb_create(g) ==
    [g EXCEPT !.next = Append(@, NULL), !.then_ = Append(@, NULL),
              !.else_ = Append(@, NULL), !.prev = Append(@, <<>>),
              !.insn = Append(@, <<>>)]

\* The predecessor is recorded; the forward pointer is overwritten whatever it
\* was.  NULL on either side, or too many predecessors, ends the compiler.
bb_connect(g, pred, succ, type) ==
    IF pred = NULL \/ succ = NULL
      THEN [g EXCEPT !.aborted = TRUE]
    ELSE IF Len(g.prev[succ]) >= MAX_BB_PRED
      THEN [g EXCEPT !.aborted = TRUE]
    ELSE LET h == [g EXCEPT !.prev = [@ EXCEPT ![succ] =
                                 Append(@, [bb |-> pred, type |-> type])]]
         IN  IF type = "NEXT" THEN [h EXCEPT !.next = [@ EXCEPT ![pred] = succ]]
             ELSE IF type = "THEN"
               THEN [h EXCEPT !.then_ = [@ EXCEPT ![pred] = succ]]
             ELSE [h EXCEPT !.else_ = [@ EXCEPT ![pred] = succ]]

\* add_insn() drops an instruction that has no block.
add_insn(g, bb, id, kind) ==
    IF bb = NULL THEN g
    ELSE [g EXCEPT !.insn = [@ EXCEPT ![bb] =
                        Append(@, [id |-> id, kind |-> kind])]]

-----------------------------------------------------------------------------
(* How control moves through a graph.                                      *)

Branches(g, b) ==
    /\ g.insn[b] # <<>>
    /\ g.insn[b][Len(g.insn[b])].kind \in {"cond", "true"}

\* The pointers of a block, whether or not its last instruction uses them.
Pointers(g, b) == {g.next[b], g.then_[b], g.else_[b]} \ {NULL}

\* The blocks that can be reached from a set of blocks.
ReachableFrom(g, S) ==
    LET R[k \in Nat] ==
          IF k = 0 THEN S
          ELSE LET B == R[k - 1] IN B \cup UNION {Pointers(g, b) : b \in B}
    IN  R[Newest(g)]

\* The first instruction met from the beginning of b: empty blocks are
\* passed.  -1 is the end of the function (block `exit'), 0 nowhere.
FirstInsn(g, b, exit) ==
    LET F[k \in Nat] ==
          [c \in Blocks(g) \cup {NULL} |->
             IF c = NULL \/ k = 0 THEN 0
             ELSE IF c = exit THEN -1
             ELSE IF g.insn[c] # <<>> THEN g.insn[c][1].id
             ELSE F[k - 1][g.next[c]]]
    IN  F[Newest(g) + 1][b]
=============================================================================
