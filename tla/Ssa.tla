-------------------------------- MODULE Ssa --------------------------------
(***************************************************************************)
(* Static single assignment form, as ssa_build() of src/src/ssa.c brings   *)
(* it about for one variable of a function: solve_globals(),               *)
(* solve_phi_insertion(), solve_phi_params() and unwind_phi().  No         *)
(* instruction these passes add relates two variables, so that one         *)
(* variable, its declaration and its scope are enough.                     *)
(*                                                                         *)
(* The dominator tree and the frontiers are those of FlowGraph, which the  *)
(* module Dominance shows build_idom() and build_df() to compute.          *)
(*                                                                         *)
(* When the form is there, the function is run, with a new value for the   *)
(* variable at every assignment: a version of the variable either holds    *)
(* the value the variable has in the C program at this moment or does not. *)
(***************************************************************************)
EXTENDS FlowGraph, Sequences

CONSTANTS
    Kinds,       \* of variable: "param", "local", "global", or "ret" for the
                 \* result of && || ?:
    MaxBranches, MaxDefs, MaxUses,  \* bounds on the branches, assignments and
                 \* uses of a function
    Reopened     \* whether a block statement may follow the variable's own
                 \* in the same basic block

ASSUME BoundsAssumption ==
    {MaxBranches, MaxDefs, MaxUses} \subseteq Nat /\ Reopened \in BOOLEAN

NoVar == -2
Base == -1       \* the variable itself, without subscript
Names == Nat \cup {Base}

VARIABLES
    out,         \* the graph
    tree, df,    \* block -> its children in the dominator tree, its frontier
    kind, decl,  \* decl: the block whose symbol_list has the variable
    inside,      \* blocks that begin inside the variable's C block
    scope,       \* blocks from whose bb->scope the variable is found
    code,        \* the instructions of each block, as far as they matter
    pc,
    worklist, solved,  \* of solve_phi_insertion(), and how far it is
    frames,      \* blocks bb_solve_phi_params() is in
    visited,     \* blocks it has been in
    stack, counter,    \* rename.stack, rename.counter
    phi_ops,
    at, ip,      \* the run: the next instruction is code[at][ip]
    defined,     \* whether the variable has a value
    holders      \* the versions that hold it

program == <<out, tree, df, kind, decl, inside, scope>>
renaming == <<frames, visited, stack, counter, phi_ops>>
running == <<at, ip, defined, holders>>
vars == <<program, code, pc, worklist, solved, renaming, running>>

-----------------------------------------------------------------------------
(* Functions with one variable.                                            *)

Insn(op, rd, rs) == [op |-> op, rd |-> rd, rs |-> rs]
Use == Insn("insn", NoVar, Base)
Def == Insn("insn", Base, NoVar)
Update == Insn("insn", Base, Base)
Bodies == {<<>>, <<Use>>, <<Def>>, <<Update>>, <<Def, Use>>}

Inner == Blocks \ {exit}
Branching(o) == {b \in Blocks : Cardinality(o[b]) = 2}
Defs(body) == \E n \in 1..Len(body) : body[n].rd # NoVar
Uses(body) == \E n \in 1..Len(body) : body[n].rs # NoVar
Refs(f) == {b \in Inner : f[b] # <<>>}
\* A declaration counts as an assignment.
Functions(k) ==
    {f \in [Inner -> Bodies] :
       /\ Cardinality({b \in Inner : Defs(f[b])}) <= MaxDefs - (IF k = "local" THEN 1 ELSE 0)
       /\ Cardinality({b \in Inner : Uses(f[b])}) <= MaxUses}

\* An allocat where the variable is declared, a branch where there is a choice.
Code(f, o, d, tests) ==
    [b \in Blocks |->
       (IF b = d THEN <<Insn("allocat", Base, NoVar)>> ELSE <<>>)
       \o (IF b = exit THEN <<>> ELSE f[b])
       \o (IF b \notin Branching(o) THEN <<>>
           ELSE <<Insn("branch", NoVar, IF b \in tests THEN Base ELSE NoVar)>>)]

\* A result of && || ?: is assigned in the two blocks that meet again at j,
\* and used only from there.
MeetAt(o, f, j) ==
    LET A == {b \in Inner : Defs(f[b])}
    IN  /\ A = {p \in Blocks : j \in o[p]} /\ Cardinality(A) = 2
        /\ \A a \in A : o[a] = {j} /\ f[a] = <<Def>>
        /\ \A b \in Refs(f) \ A : Dominates(o, entry, j, b)

\* The blocks that begin in a C block that is opened in d, in the middle of d or
\* at its start: entered only through d, as long as possible.
Under(o, d) == {b \in Inner : Dominates(o, entry, d, b)}
Regions(o, b) == UNION {{Under(o, d), Under(o, d) \ {d}} : d \in {a \in Inner : b \in Under(o, a)}}

\* If another C block is opened where the variable's has ended, in the same basic
\* block, then read_code_block() overwrites bb->scope of it with the new one.
Closing(o, S) == {b \in S : o[b] \cap S = {}}

\* The names differ, the graphs do not: blocks are numbered by their first
\* predecessor.
FirstPred(o, b) == CHOOSE p \in Blocks : b \in o[p] /\ \A q \in 1..(p - 1) : b \notin o[q]
Ordered(o) == \A b \in 2..(N - 2) : FirstPred(o, b) <= FirstPred(o, b + 1)

Graphs == {o \in FlowGraphs : Ordered(o) /\ Cardinality(Branching(o)) <= MaxBranches}

Init ==
    /\ out \in Graphs
    /\ tree = [b \in Blocks |-> {c \in Blocks \ {entry} : IsIdom(out, entry, b, c)}]
    /\ df = [b \in Blocks |-> Frontier(out, entry, b)]
    /\ kind \in Kinds
    /\ \E f \in Functions(kind), tests \in SUBSET Branching(out) :
         /\ Cardinality({b \in Inner : Uses(f[b])}) + Cardinality(tests) <= MaxUses
         /\ \/ /\ kind \in {"param", "global"}
               /\ decl = (IF kind = "param" THEN entry ELSE 0)
               /\ inside = Blocks /\ scope = (IF kind = "param" THEN Blocks ELSE {})
               /\ code = Code(f, out, 0, tests)
            \/ /\ kind = "ret" /\ \E j \in Inner : MeetAt(out, f, j)
               /\ tests = {}
               /\ decl = 0 /\ inside = Blocks /\ scope = Inner
               /\ code = Code(f, out, 0, tests)
            \/ /\ kind = "local" /\ decl \in Inner
               /\ inside \in Regions(out, decl)
               /\ Refs(f) \cup tests \subseteq inside \cup {decl}
               /\ \/ scope = inside \cup {decl}
                  \/ /\ Reopened
                     /\ Refs(f) \cup tests \subseteq Under(out, decl)
                     /\ \E b \in Closing(out, inside) \ (tests \cup {decl}) :
                          scope = (inside \cup {decl}) \ {b}
               /\ code = Code(f, out, decl, tests)
    /\ pc = "globals" /\ worklist = {} /\ solved = {}
    /\ frames = <<>> /\ visited = {} /\ stack = <<>> /\ counter = 0
    /\ phi_ops = [b \in Blocks |-> {}]
    /\ at = entry /\ ip = 1 /\ defined = FALSE /\ holders = {}

-----------------------------------------------------------------------------
(* solve_globals and solve_phi_insertion                                   *)

\* bb_solve_globals(): the variable is read before it is assigned in some
\* block.  The work list starts with the blocks that assign it; a parameter
\* is assigned at the entry.
Exposed == \E b \in Blocks : \E n \in 1..Len(code[b]) :
             /\ code[b][n].rs # NoVar
             /\ \A m \in 1..(n - 1) : code[b][m].rd = NoVar
RefBlocks == {b \in Blocks : Defs(code[b])} \cup (IF kind = "param" THEN {entry} ELSE {})

SolveGlobals ==
    /\ pc = "globals"
    /\ worklist' = IF Exposed THEN RefBlocks ELSE {}
    /\ pc' = "phis"
    /\ UNCHANGED <<program, code, solved, renaming, running>>

HasPhi(b) == code[b] # <<>> /\ code[b][1].op = "phi"
Phi == Insn("phi", Base, NoVar)

\* The frontier of a block, without the blocks where the variable cannot be
\* found or is declared.
Wanted(b) == {f \in df[b] : /\ f \in scope /\ f # decl /\ f # exit
                            /\ kind # "global" /\ ~HasPhi(f)}

\* Mutant of InsertPhis: a phi is not taken for an assignment.
InsertPhisOnce ==
    /\ pc = "phis"
    /\ \E b \in worklist \ solved : \E P \in {Wanted(b)} :
         /\ code' = [c \in Blocks |-> IF c \in P THEN <<Phi>> \o code[c] ELSE code[c]]
         /\ solved' = solved \cup {b}
    /\ UNCHANGED <<program, pc, worklist, renaming, running>>

\* One block of the work list; the ones that get a phi join the list.
InsertPhis ==
    /\ pc = "phis"
    /\ \E b \in worklist \ solved : \E P \in {Wanted(b)} :
         /\ code' = [c \in Blocks |-> IF c \in P THEN <<Phi>> \o code[c] ELSE code[c]]
         /\ worklist' = IF kind = "ret" THEN worklist ELSE worklist \cup P
         /\ solved' = solved \cup {b}
    /\ UNCHANGED <<program, pc, renaming, running>>

-----------------------------------------------------------------------------
(* solve_phi_params: the versions                                          *)

\* A parameter has its first version from the start.
StartRenaming ==
    /\ pc = "phis" /\ worklist = solved
    /\ stack' = IF kind = "param" THEN <<0>> ELSE <<>>
    /\ counter' = IF kind = "param" THEN 1 ELSE 0
    /\ pc' = "rename"
    /\ UNCHANGED <<program, code, worklist, solved, frames, visited, phi_ops, running>>

\* Assignments before the n-th instruction of a block; each is a new_name().
Assigned(b, n) == Cardinality({m \in 1..(n - 1) : code[b][m].rd # NoVar})
AllAssigned(b) == IF kind = "global" THEN 0 ELSE Assigned(b, Len(code[b]) + 1)

\* get_stack_top_subscript_var(): the given name if there is no version.
Top(s, name) == IF s = <<>> THEN name ELSE s[Len(s)]
Pushed(b) == stack \o [n \in 1..AllAssigned(b) |-> counter + n - 1]

Renamed(b) ==
    [n \in 1..Len(code[b]) |->
       LET insn == code[b][n]
           s == SubSeq(Pushed(b), 1, Len(stack) + Assigned(b, n))
       IN  IF kind = "global" THEN insn
           ELSE [insn EXCEPT !.rs = IF @ = NoVar THEN NoVar ELSE Top(s, Base),
                             !.rd = IF @ = NoVar THEN NoVar
                                    ELSE counter + Assigned(b, n)]]

\* Mutant of Enter: edges back to blocks that have their versions are skipped.
EnterForward(b) ==
    /\ code' = [code EXCEPT ![b] = Renamed(b)]
    /\ stack' = Pushed(b)
    /\ counter' = counter + AllAssigned(b)
    /\ phi_ops' = [c \in Blocks |->
                     IF c \in out[b] \ visited /\ HasPhi(c)
                       THEN phi_ops[c] \cup {<<b, Top(stack', code'[c][1].rd)>>}
                       ELSE phi_ops[c]]
    /\ frames' = Append(frames, b) /\ visited' = visited \cup {b}
    /\ UNCHANGED <<program, pc, worklist, solved, running>>

\* bb_solve_phi_params(), on a block and its outgoing edges.
Enter(b) ==
    /\ code' = [code EXCEPT ![b] = Renamed(b)]
    /\ stack' = Pushed(b)
    /\ counter' = counter + AllAssigned(b)
    /\ phi_ops' = [c \in Blocks |->
                     IF c \in out[b] /\ HasPhi(c)
                       THEN phi_ops[c] \cup {<<b, Top(stack', code'[c][1].rd)>>}
                       ELSE phi_ops[c]]
    /\ frames' = Append(frames, b) /\ visited' = visited \cup {b}
    /\ UNCHANGED <<program, pc, worklist, solved, running>>

EnterFunction == pc = "rename" /\ visited = {} /\ Enter(entry)
EnterChild ==
    /\ pc = "rename" /\ frames # <<>>
    /\ \E b \in tree[frames[Len(frames)]] \ visited : Enter(b)

\* Mutant of LeaveBlock: the names are popped as if the block had only one.
LeaveBlockOne ==
    /\ pc = "rename" /\ frames # <<>>
    /\ tree[frames[Len(frames)]] \subseteq visited
    /\ stack' = SubSeq(stack, 1, Len(stack) - 1)
    /\ frames' = SubSeq(frames, 1, Len(frames) - 1)
    /\ UNCHANGED <<program, code, pc, worklist, solved, visited, counter, phi_ops, running>>

\* Mutant of LeaveBlock: nothing is popped.
LeaveBlockKeep ==
    /\ pc = "rename" /\ frames # <<>>
    /\ tree[frames[Len(frames)]] \subseteq visited
    /\ frames' = SubSeq(frames, 1, Len(frames) - 1)
    /\ UNCHANGED <<program, code, pc, worklist, solved, visited, stack, counter, phi_ops, running>>

\* pop_name() for every assignment of the block.
LeaveBlock ==
    /\ pc = "rename" /\ frames # <<>>
    /\ tree[frames[Len(frames)]] \subseteq visited
    /\ stack' = SubSeq(stack, 1, Len(stack) - AllAssigned(frames[Len(frames)]))
    /\ frames' = SubSeq(frames, 1, Len(frames) - 1)
    /\ UNCHANGED <<program, code, pc, worklist, solved, visited, counter, phi_ops, running>>

StartUnwinding ==
    /\ pc = "rename" /\ visited # {} /\ frames = <<>>
    /\ pc' = "unwind"
    /\ UNCHANGED <<program, code, worklist, solved, renaming, running>>

-----------------------------------------------------------------------------
(* unwind_phi: a phi becomes copies in the predecessors                    *)

Ends(s, op) == s # <<>> /\ s[Len(s)].op = op
\* append_unwound_phi_insn()
Before(s, insn) == IF Ends(s, "branch")
                     THEN SubSeq(s, 1, Len(s) - 1) \o <<insn, s[Len(s)]>>
                     ELSE Append(s, insn)

CopyTo(s, rd, ops) == IF ops = {} THEN s
                      ELSE Before(s, Insn("copy", rd, (CHOOSE o \in ops : TRUE)[2]))

Unwind ==
    /\ pc = "unwind"
    /\ \E b \in {c \in Blocks : HasPhi(c)} :
         LET Copied(c) == CopyTo(code[c], code[b][1].rd, {o \in phi_ops[b] : o[1] = c})
         IN  code' = [c \in Blocks |-> IF c = b THEN Tail(Copied(c)) ELSE Copied(c)]
    /\ UNCHANGED <<program, pc, worklist, solved, renaming, running>>

-----------------------------------------------------------------------------
(* The run of the result, beside the C program.                            *)

StartRun ==
    /\ pc = "unwind" /\ ~\E b \in Blocks : HasPhi(b)
    /\ pc' = "run"
    /\ defined' = (kind \in {"param", "global"})
    /\ holders' = IF kind = "param" THEN {0}
                  ELSE IF kind = "global" THEN {Base} ELSE {}
    /\ UNCHANGED <<program, code, worklist, solved, renaming, at, ip>>

Execute ==
    /\ pc = "run" /\ ip <= Len(code[at])
    /\ \E insn \in {code[at][ip]} :
         /\ defined' = IF insn.op = "allocat" THEN FALSE
                       ELSE defined \/ (insn.op = "insn" /\ insn.rd # NoVar)
         /\ holders' = IF insn.rd = NoVar THEN holders
                       ELSE IF insn.op = "allocat" THEN {}
                       ELSE IF insn.op = "insn" THEN {insn.rd}
                       ELSE IF insn.rs \in holders THEN holders \cup {insn.rd}
                       ELSE holders \ {insn.rd}
         /\ ip' = IF insn.op = "branch" THEN Len(code[at]) + 1 ELSE ip + 1
    /\ UNCHANGED <<program, code, pc, worklist, solved, renaming, at>>

\* A value does not survive the end of the variable's block.
Jump ==
    /\ pc = "run" /\ ip > Len(code[at])
    /\ \E b \in out[at] :
         /\ at' = b
         /\ defined' = (defined /\ b \in inside)
         /\ holders' = IF b \in inside THEN holders ELSE {}
    /\ ip' = 1
    /\ UNCHANGED <<program, code, pc, worklist, solved, renaming>>

Return == pc = "run" /\ at = exit /\ ip > Len(code[at]) /\ UNCHANGED vars

Next ==
    \/ SolveGlobals \/ InsertPhis \/ StartRenaming
    \/ EnterFunction \/ EnterChild \/ LeaveBlock \/ StartUnwinding
    \/ Unwind \/ StartRun \/ Execute \/ Jump \/ Return

Spec == Init /\ [][Next]_vars

-----------------------------------------------------------------------------
\* At every use the version chosen by rename_var() holds the value the variable
\* has there, along every path: no phi is missing, every copy that stands for
\* one is in the right place and overwrites nothing that is still needed.
UsesRight ==
    pc = "run" /\ ip <= Len(code[at]) =>
      \E insn \in {code[at][ip]} :
        insn.op # "copy" /\ insn.rs # NoVar /\ defined => insn.rs \in holders

\* While the versions are given out, rename.stack holds those of the blocks
\* above the current one and no others, the latest on top.
Versions(b) == {code[b][n].rd : n \in 1..Len(code[b])} \ {NoVar, Base}
StackIsPath ==
    pc = "rename" =>
      /\ \A m, n \in 1..Len(stack) : m < n => stack[m] < stack[n]
      /\ {stack[n] : n \in 1..Len(stack)} =
           (UNION {Versions(frames[n]) : n \in 1..Len(frames)})
             \cup (IF kind = "param" THEN {0} ELSE {})

\* The form itself: a version has one definition, which dominates its uses; an
\* operand of a phi is defined above the edge it stands for, or is the phi's
\* own version if the variable has none on this edge.
Renaming == pc = "rename" /\ visited # {} /\ frames = <<>>
DefinedAbove(v, b, n) ==
    \/ v = Base \/ (kind = "param" /\ v = 0)
    \/ \E c \in Blocks : \E m \in 1..Len(code[c]) :
         /\ code[c][m].rd = v
         /\ IF c = b THEN m < n ELSE Dominates(out, entry, c, b)
SingleAssignment ==
    Renaming /\ kind # "global" =>
      /\ \A b, c \in Blocks : b # c => Versions(b) \cap Versions(c) = {}
      /\ \A b \in Blocks : Cardinality(Versions(b)) = AllAssigned(b)
      /\ \A b \in Blocks : \A n \in 1..Len(code[b]) :
           code[b][n].rs # NoVar => DefinedAbove(code[b][n].rs, b, n)
      /\ \A b \in Blocks : \A o \in phi_ops[b] :
           \/ DefinedAbove(o[2], o[1], Len(code[o[1]]) + 1)
           \/ /\ o[2] = code[b][1].rd
              /\ ~\E c \in Blocks : Versions(c) # {} /\ Dominates(out, entry, c, o[1])

\* A phi has one operand for each edge into its block, so that every path
\* into the block gets its copy.
PhiOperands ==
    Renaming => \A b \in Blocks : HasPhi(b) =>
      /\ {o[1] : o \in phi_ops[b]} = Transpose(out)[b]
      /\ Cardinality(phi_ops[b]) = Cardinality(Transpose(out)[b])
=============================================================================
