------------------------------ MODULE Liveness ------------------------------
(***************************************************************************)
(* liveness_analysis() of src/src/ssa.c on the function that dead code     *)
(* elimination has left: what each block needs (live_gen) and assigns      *)
(* (live_kill), and the iteration for what is live where it ends           *)
(* (live_out), which the register allocator keeps in memory.               *)
(***************************************************************************)
EXTENDS Dce

CONSTANT MaxLive    \* MAX_ANALYSIS_STACK_SIZE, places for live variables

ASSUME MaxLiveAssumption == MaxLive \in Nat

VARIABLES
    live_gen, live_kill,
    live_in, live_out,
    changed         \* of the loop of liveness_analysis()

vars == <<dce, live_gen, live_kill, live_in, live_out, changed>>
live == <<live_gen, live_kill, live_in, live_out, changed>>

Nothing == [b \in Blocks |-> {}]

LiveInit ==
    /\ Init
    /\ live_gen = Nothing /\ live_kill = Nothing
    /\ live_in = Nothing /\ live_out = Nothing /\ changed = FALSE

\* bb_reset_and_solve_locals(): operands that no instruction before assigns,
\* and what is assigned.  A phi's variable does not count as assigned where
\* the phi was unwound.
Killed(b, k) ==
    {code[b][j].rd : j \in {j \in 1..k : code[b][j].op # "unwound_phi"}} \ {NULL}
Needed(b) ==
    {code[b][k].rs : k \in {k \in DOMAIN code[b] :
                        code[b][k].rs \notin Killed(b, k - 1)}} \ {NULL}
\* On every block; then the parameters count as assigned by the first one.
SolveLocals ==
    /\ Swept
    /\ live_gen' = [b \in Blocks |-> Needed(b)]
    /\ live_kill' = [b \in Blocks |-> Killed(b, Len(code[b]))
                                      \cup (IF b = entry THEN {"p"} ELSE {})]
    /\ phase' = "live" /\ bb' = 1
    /\ UNCHANGED <<analysis, out, code, work_list, useful, live_blocks,
                   live_in, live_out, changed>>

\* compute_live_in()
LiveIn(b) == (live_out[b] \ live_kill[b]) \cup live_gen[b]

\* merge_live_in(): what finds no place is left out.
Fitting(S) == {T \in SUBSET S : Cardinality(T) = Min({MaxLive, Cardinality(S)})}

\* recompute_live_out(), in the order of build_reversed_rpo(): the blocks
\* as they were before the edges were changed.
Recompute ==
    /\ phase = "live" /\ bb <= N
    /\ LET b == rpo_r[bb]
       IN  /\ live_in' = [c \in Blocks |-> IF c \in out[b] THEN LiveIn(c)
                                           ELSE live_in[c]]
           /\ \E S \in Fitting(UNION {LiveIn(c) : c \in out[b]}) :
                /\ live_out' = [live_out EXCEPT ![b] = S]
                /\ changed' = (changed \/ S # live_out[b])
    /\ bb' = bb + 1
    /\ UNCHANGED <<analysis, out, code, phase, work_list, useful, live_blocks,
                   live_gen, live_kill>>

\* Mutant of PassEnds: one pass over the blocks.
PassEndsOnce ==
    /\ phase = "live" /\ bb > N
    /\ phase' = "done" /\ UNCHANGED <<bb, changed>>
    /\ UNCHANGED <<analysis, out, code, work_list, useful, live_blocks,
                   live_gen, live_kill, live_in, live_out>>

\* Mutant of PassEnds: `changed' is not reset.
PassEndsStale ==
    /\ phase = "live" /\ bb > N
    /\ IF changed THEN bb' = 1 /\ UNCHANGED <<phase, changed>>
       ELSE phase' = "done" /\ UNCHANGED <<bb, changed>>
    /\ UNCHANGED <<analysis, out, code, work_list, useful, live_blocks,
                   live_gen, live_kill, live_in, live_out>>

PassEnds ==
    /\ phase = "live" /\ bb > N
    /\ IF changed THEN bb' = 1 /\ changed' = FALSE /\ UNCHANGED phase
       ELSE phase' = "done" /\ UNCHANGED <<bb, changed>>
    /\ UNCHANGED <<analysis, out, code, work_list, useful, live_blocks,
                   live_gen, live_kill, live_in, live_out>>

Stop == phase = "done" /\ UNCHANGED vars

LiveNext ==
    \/ (InitMark \/ NothingToMark \/ Pop \/ Sweep) /\ UNCHANGED live
    \/ SolveLocals \/ Recompute \/ PassEnds \/ Stop

\* The passes are calls that go on.
Spec == LiveInit /\ [][LiveNext]_vars /\ WF_vars(LiveNext)

-----------------------------------------------------------------------------
(* Properties.                                                             *)

\* From the end of b, a block that needs v is reached through blocks that
\* do not assign it.
NeededLater(v, b) ==
    LET needing == {c \in Blocks : v \in live_gen[c]}
        passing == {c \in Blocks \ needing : v \notin live_kill[c]}
    IN  \E c \in out[b] :
            \/ c \in needing
            \/ \E d \in Reach(out, {c} \cap passing, Blocks \ passing) :
                   out[d] \cap needing # {}

\* The iteration ends with exactly the variables whose values are used later
\* on some path: a missing one would not be stored when the registers are
\* given to the next block, one too many would be stored for nothing.
LiveExact ==
    phase = "done" =>
        \A b \in Blocks : live_out[b] = {v \in Names : NeededLater(v, b)}

\* Elimination and analysis agree: where a variable is live, an instruction
\* that was kept has assigned it on every path, so that no load finds a
\* place that nothing has stored to.  (A phi's variable, which does not
\* count as assigned, is live too early.)
AssignedBefore ==
    phase = "done" => LiveIn(entry) \subseteq {"p", "y"}

\* The analysis reaches its fixed point.
Ends == <>(phase = "done")
=============================================================================
