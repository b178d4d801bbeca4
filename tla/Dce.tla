-------------------------------- MODULE Dce --------------------------------
(***************************************************************************)
(* Dead code elimination on one function: dce_insn() and dce_sweep() of    *)
(* src/src/ssa.c.  The instructions are reduced to what the pass looks at: *)
(* the kind, the result and the operands.  Post-dominators and their       *)
(* frontiers are those of FlowGraph, which the module Dominance shows      *)
(* build_r_idom() and build_rdf() to compute.                              *)
(*                                                                         *)
(* A function has a parameter p and one other variable, x or y: x is       *)
(* assigned once, y by the instructions that a phi has been unwound into.  *)
(***************************************************************************)
EXTENDS FlowGraph, SequencesExt

CONSTANTS
    MaxBranches,\* bound on the branches of a function
    Void        \* the graphs of functions without a result: "if", "switch",
                \* "loop", see VoidGraphs

ASSUME FunctionsAssumption ==
    MaxBranches \in Nat /\ Void \subseteq {"if", "switch", "loop"}

NULL == "none"
Names == {"p", "x", "y"}

VARIABLES
    graph,      \* the graph before the pass, and
    out,        \* while it is changed
    rdf, r_idom,\* its post-dominance frontiers, the nearest post-dominators
    rpo, rpo_r, \* the blocks in reverse post order, which is the order of
                \* the code, and that of the graph turned round
    code,       \* bb->insn_list, block by block
    phase,      \* "mark", "sweep", then those of Liveness
    bb,         \* position in rpo of the block the pass is at
    work_list,  \* of instructions <<block, index>>
    useful,     \* marked instructions
    live_blocks \* marked blocks: bb->useful

analysis == <<graph, rdf, r_idom, rpo, rpo_r>>
dce == <<analysis, out, code, phase, bb, work_list, useful, live_blocks>>

Insn(op, rd, rs) == [op |-> op, rd |-> rd, rs |-> rs]
NoInsn == <<entry, 0>>

-----------------------------------------------------------------------------
(* Functions.                                                              *)

\* The blocks in the order in which a traversal from r leaves them, the last
\* one first.  Successors are visited in the order of their numbers, or in
\* the other one.
Nearest(S, up) == CHOOSE b \in S : \A c \in S : IF up THEN b <= c ELSE b >= c
ReversePostOrder(g, r, up) ==
    LET T[k \in 0..(2 * N)] ==
          IF k = 0 THEN [stack |-> <<r>>, seen |-> {r}, left |-> << >>]
          ELSE LET t == T[k - 1]
                   top == Last(t.stack)
                   new == g[top] \ t.seen
               IN  IF t.stack = << >> THEN t
                   ELSE IF new = {}
                   THEN [t EXCEPT !.stack = Front(t.stack),
                                  !.left = <<top>> \o t.left]
                   ELSE [t EXCEPT !.stack = Append(t.stack, Nearest(new, up)),
                                  !.seen = @ \cup {Nearest(new, up)}]
    IN  T[2 * N].left

Preds(g, b) == Transpose(g)[b]
Branching(g) == {b \in Blocks : Cardinality(g[b]) = 2}

\* A target of each branch begins with it, as in if, && and ||, but not at
\* the last case of a switch, where both places are reached from elsewhere.
Fresh(g) == \A b \in Branching(g) : \E s \in g[b] : Preds(g, s) = {b}
Acyclic(g) == \A b \in Blocks : b \notin Reach(g, g[b], {})
VoidGraphs(g) ==
    CASE "loop" \in Void -> TRUE
      [] "switch" \in Void -> Acyclic(g)
      [] OTHER -> Acyclic(g) /\ Fresh(g)

\* Blocks are numbered by their first predecessor.
FirstPred(g, b) == Min(Preds(g, b) \cup {N})
Ordered(g) == \A b \in 2..(N - 2) : FirstPred(g, b) <= FirstPred(g, b + 1)
\* A branch does not lead to the exit: a function ends in blocks of its own.
Inner == {S \in Shapes : exit \in S => S = {exit}}
Graphs ==
    {g \in {[b \in Blocks |-> IF b = exit THEN {} ELSE f[b]] :
              f \in [Blocks \ {exit} -> Inner]} :
       /\ Cardinality(Branching(g)) <= MaxBranches
       /\ Ordered(g)
       /\ Reach(g, {entry}, {}) = Blocks
       /\ Reach(Transpose(g), {exit}, {}) = Blocks}

\* A call takes what was pushed just before.
Call(v) == <<Insn("push", NULL, v), Insn("call", NULL, NULL)>>
Branch(v) == Insn("branch", NULL, v)
Return(v) == Insn("return", NULL, v)

\* Where the variable is assigned, and the blocks where it then has a value.
Variables(g) ==
    {[name |-> "x", at |-> {d}, from |-> {b \in Blocks : Dominates(g, entry, d, b)}] :
        d \in Blocks \ {exit}}
    \cup
    {[name |-> "y", at |-> Preds(g, j),
      from |-> {b \in Blocks : Dominates(g, entry, j, b)}] :
        j \in {j \in Blocks \ {exit} : Cardinality(Preds(g, j)) = 2}}

\* The parameter is used, or the variable where it has a value.
Operand(var, b, own) == IF own /\ b \in var.from THEN var.name ELSE "p"

\* One block has a call, or none; with what the branches and returns use.
Body(g, var, caller, own, returns, b) ==
    (IF b \in var.at /\ var.name = "x" THEN <<Insn("alu", "x", "p")>> ELSE << >>)
    \o (IF b = caller THEN Call(Operand(var, b, own)) ELSE << >>)
    \o (IF b \in var.at /\ var.name = "y" THEN <<Insn("unwound_phi", "y", "p")>>
        ELSE << >>)
    \o (IF b \in Branching(g) THEN <<Branch(Operand(var, b, own))>> ELSE << >>)
    \o (IF returns /\ g[b] = {exit} THEN <<Return(Operand(var, b, own))>> ELSE << >>)

Init ==
    /\ graph \in Graphs /\ out = graph
    /\ rdf = [b \in Blocks |-> Frontier(Transpose(graph), exit, b)]
    /\ r_idom = [b \in Blocks \ {exit} |->
                   CHOOSE a \in Blocks : IsIdom(Transpose(graph), exit, a, b)]
    /\ rpo_r = ReversePostOrder(Transpose(graph), exit, TRUE)
    /\ \E up \in BOOLEAN : rpo = ReversePostOrder(graph, entry, up)
    /\ \E var \in Variables(graph), caller \in Blocks,
          own, returns \in BOOLEAN :
         /\ returns \/ VoidGraphs(graph)
         /\ code = [b \in Blocks |-> IF b = exit THEN << >> ELSE
                      Body(graph, var, caller, own, returns, b)]
    /\ phase = "mark" /\ bb = 1 /\ work_list = << >>
    /\ useful = {} /\ live_blocks = {}

-----------------------------------------------------------------------------
(* dce_insn()                                                              *)

At(i) == code[i[1]][i[2]]
Insns(b) == {<<b, k>> : k \in DOMAIN code[b]}

\* The pushes just before a call.
Pushes(b, k) ==
    {<<b, j>> : j \in {j \in 1..(k - 1) : \A m \in j..(k - 1) : code[b][m].op = "push"}}

\* dce_init_mark(), for each instruction of the block.
Starts(b) ==
    UNION {LET i == code[b][k]
           IN  IF i.op \in {"return", "unwound_phi"} THEN {<<b, k>>}
               ELSE IF i.op = "call" THEN {<<b, k>>} \cup Pushes(b, k)
               ELSE {} : k \in DOMAIN code[b]}

InitMark ==
    /\ phase = "mark" /\ bb <= N /\ work_list = << >>
    /\ Starts(rpo[bb]) # {}
    /\ useful' = useful \cup Starts(rpo[bb])
    /\ live_blocks' = live_blocks \cup {rpo[bb]}
    /\ work_list' = SetToSeq(Starts(rpo[bb]))
    /\ bb' = bb + 1
    /\ UNCHANGED <<analysis, out, code, phase>>

NothingToMark ==
    /\ phase = "mark" /\ work_list = << >>
    /\ \/ /\ bb <= N /\ Starts(rpo[bb]) = {}
          /\ bb' = bb + 1 /\ UNCHANGED phase
       \/ bb > N /\ phase' = "sweep" /\ bb' = 1
    /\ UNCHANGED <<analysis, out, code, work_list, useful, live_blocks>>

\* var->last_assign: optimize() has recorded the last instruction in the
\* order of rpo that assigns the variable.
Assigns(v) == {i \in UNION {Insns(b) : b \in Blocks} : At(i).rd = v}
Place(b) == CHOOSE n \in 1..N : rpo[n] = b
last_assign(v) ==
    IF v = NULL THEN {}
    ELSE {i \in Assigns(v) : \A j \in Assigns(v) : Place(j[1]) <= Place(i[1])}

\* The branches at the end of the blocks of RDF[].
Controls(b) ==
    {<<c, Len(code[c])>> : c \in {c \in rdf[b] : /\ code[c] # << >>
                                                 /\ Last(code[c]).op = "branch"}}

\* Mutant of Pop: what a branch tests is not traced back.
PopUntested ==
    /\ phase = "mark" /\ work_list # << >>
    /\ LET curr == Last(work_list)
           deps == IF At(curr).op = "branch" THEN {} ELSE last_assign(At(curr).rs)
           new == (deps \cup Controls(curr[1])) \ useful
       IN  /\ useful' = useful \cup new
           /\ live_blocks' = live_blocks \cup {i[1] : i \in new}
           /\ work_list' = Front(work_list) \o SetToSeq(new)
    /\ UNCHANGED <<analysis, out, code, phase, bb>>

Pop ==
    /\ phase = "mark" /\ work_list # << >>
    /\ LET curr == Last(work_list)
           new == (last_assign(At(curr).rs) \cup Controls(curr[1])) \ useful
       IN  /\ useful' = useful \cup new
           /\ live_blocks' = live_blocks \cup {i[1] : i \in new}
           /\ work_list' = Front(work_list) \o SetToSeq(new)
    /\ UNCHANGED <<analysis, out, code, phase, bb>>

-----------------------------------------------------------------------------
(* dce_sweep()                                                             *)

\* Mutant of Targets: one step up.
TargetsNear(b) == {r_idom[b]} \cap (live_blocks \ {exit})

\* Up r_idom to the first useful block, if there is one before func->exit.
Targets(b) ==
    LET J[k \in Nat] == IF k = 0 THEN r_idom[b]
                        ELSE IF J[k - 1] \in live_blocks \cup {exit} THEN J[k - 1]
                        ELSE r_idom[J[k - 1]]
    IN  {J[N]} \ {exit}

\* The instructions of s at the places K.
Kept(s, K) ==
    LET F[k \in 0..Len(s)] == IF k = 0 THEN << >>
                              ELSE IF k \in K THEN Append(F[k - 1], s[k])
                              ELSE F[k - 1]
    IN  F[Len(s)]

Sweep ==
    /\ phase = "sweep" /\ bb <= N
    /\ LET b == rpo[bb]
           redirected == b \in Branching(graph) /\ <<b, Len(code[b])>> \notin useful
       IN  /\ code' = [code EXCEPT ![b] = Kept(@, {k \in DOMAIN @ : <<b, k>> \in useful})]
           /\ out' = IF redirected THEN [out EXCEPT ![b] = Targets(b)] ELSE out
    /\ bb' = bb + 1
    /\ UNCHANGED <<analysis, phase, work_list, useful, live_blocks>>

Mark == InitMark \/ NothingToMark \/ Pop

Swept == phase = "sweep" /\ bb > N

-----------------------------------------------------------------------------
(* Properties.                                                             *)

\* Where control is after block b once code is generated: in a successor,
\* or, without one, in the block whose code comes next.  The end of the code
\* is 0.  Nothing follows a return.
Behind(b) == IF Place(b) = N THEN 0 ELSE rpo[Place(b) + 1]
Flow ==
    [b \in Blocks \cup {0} |-> IF b \in {exit, 0} THEN {}
                              ELSE IF out[b] = {} THEN {Behind(b)} ELSE out[b]]

\* The useful blocks, the exit and the end that a run comes to first after b.
Meets(g, b) ==
    LET dead == Blocks \ (live_blocks \cup {exit})
    IN  (g[b] \cup UNION {g[d] : d \in Reach(g, g[b] \cap dead, Blocks \ dead)})
        \ dead

\* Taking out the useless branches changes nothing else: from every block
\* that still runs, the useful blocks that may come next are those that
\* came next before, so that no run skips one or runs into one it would not
\* have entered.
SameOrder ==
    Swept =>
        \A b \in (Reach(Flow, {entry}, {}) \cap Blocks) \ {exit} :
            Meets(Flow, b) = Meets(graph, b)
=============================================================================
