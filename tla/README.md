# A formal model of shecc

shecc is a C compiler for 32-bit ARM and RISC-V that can compile itself. This
directory holds TLA+ models of its passes, the TLC configurations that check
them on small instances, and proofs of the most important facts for all values
of the constants. Source paths are relative to `src/` of the repository. File
and line numbers are those of this commit.

Modules are checked with `tlc -config X.cfg M`, proofs with `tlapm M.tla`.
`PROJECT.json` lists the components, the runs, the source lines behind every
definition (`map`), a mutant for every property (`mutants`), the theorems and
the hazards.

## 1. The system

The compiler is one sequential process, `main()` in `src/main.c`. It runs a
fixed series of passes over shared, global data structures:

    global_init -> lexer (tokens) -> preprocess -> parse
      -> ssa_build (rpo, idom, dom, df, solve_globals, check_var_cross_init,
                    solve_phi_insertion, solve_phi_params, unwind_phi)
      -> optimize (reversed rpo, idom, dom, df; SCCP, CSE, folding, DCE)
      -> liveness_analysis
      -> reg_alloc -> peephole -> arch_lower -> cfg_flatten
      -> elf_preprocess -> code_generate -> elf_postprocess -> elf_generate
      -> global_release

There are no threads, no messages and nothing that survives a crash. What is
hard lies elsewhere: a pass caches facts (a register's content, a block's
predecessors, a candidate dominator, a scope, a constant's value) that later
steps of the same pass make stale; a pass takes for granted what an earlier one
should have established; two functions that nobody compares have to agree (the
size of an instruction and its words, an epilogue and its prologue); the order
in which instructions, blocks and statements come is nearly unlimited and the
tests try a few; work lists must end; and arrays with fixed sizes may fill up,
in part unchecked.

| Component | State | Hard part, and what makes it correct | Modules |
|---|---|---|---|
| Driver, `main.c` | options | order of the passes only | – |
| Lexer, `lexer.c` | position, tokens | table lookup, conversions of numbers and escapes | – |
| Preprocessor, `preprocessor.c` | macros, hide sets, stack of conditionals, `#pragma once` | chains and nesting of conditionals over several files, what a macro stands for at each line, that expansion ends: the text must be the one C prescribes | `Preproc` |
| Parser, control flow, `parser.c` | current block, jump targets, labels, forward gotos | the graph must have exactly the flow of the statements, and the shape the later passes take for granted | `Cfg`, `CfgBuild` |
| Parser, declarations and expressions, `parser.c` | block scopes, operand and operator stacks | precedence, lookup through scopes, initialisers | – |
| Dominators, `ssa.c` 61–510 | `rpo`, `idom`, `dom_next`, `DF`, their reverse counterparts | works on unfinished results of earlier passes; must end with the dominators of the graph | `FlowGraph`, `Dominance` |
| SSA form, `ssa.c` 511–960, 1386–1408 | work lists, `rename.stack`, phi instructions | every use reads the value the variable has, along every path | `Ssa` |
| Optimizer, `ssa.c` 1410–1740, 1970–2443, `opt-sccp.c` | instruction lists, constants of variables | each rewriting sees what earlier ones left, and constants live in variables others share; a block must compute the same | `Optimizer` |
| Dead code, `ssa.c` 1742–1966 | `useful`, work list, edges | no instruction that is needed may go, and no run may go another way | `Dce` |
| Liveness, `ssa.c` 2502–2741 | `live_gen`, `live_kill`, `live_in`, `live_out` | must end, with liveness along paths; sets are cut at a fixed size | `Liveness` |
| Register allocator, `reg-alloc.c` | `REGS`, `phys_reg`, slots of the stack frame | cached register contents must be true when they are used, no value may be lost | `RegAlloc` |
| Peephole, `peephole.c` | the phase-2 list | nine rewritings one after the other; registers and memory must end the same | `Peephole` |
| Lowering, `arch-lower.c` | marks of branches | order of the blocks | `Layout` |
| Code generators, `arm-codegen.c`, `arm.c`, `riscv-codegen.c`, `riscv.c` | offsets, code buffer | the words must compute what the instruction means; sizes must agree with words, jumps with places, epilogues with prologues | `Arm`, `Riscv`, `Codegen`, `Layout` |
| ELF writer, `elf.c` | section buffers, symbol and string tables | offsets before contents are known | – |
| Hash map, `globals.c` 347–565 | table, capacity, size | collisions, rehashing in the middle of a put, `calloc()` failing; it must be a map | `MapSpec`, `HashMap` |
| Other data structures, `globals.c` | arenas, string buffers, symbol tables | pointers into a buffer that has moved | – |
| C library, `lib/c.c` | list of heap chunks | splitting and reuse of chunks | – |
| Build tools, tests, scripts | – | read as documentation of the intended behaviour | – |

How the modelled components meet. `CfgBuild` produces graphs; `WellFormed`,
`PredsReachable` and `ExitReachable` are what `Dominance` and `Ssa` take for
granted of them. `Dominance` computes the relations that `FlowGraph` defines by
paths; `Ssa` and `Dce` start from these relations. `Liveness` extends `Dce` and
runs on what it leaves. `Ssa` hands on programs in single-assignment form with
phis unwound into copies at the ends of the predecessors; `Optimizer` takes
their blocks, `RegAlloc` any such program with its liveness. `Peephole` takes
blocks of what the allocator emits. `Layout` composes lowering, the layout of
the blocks and one of two code generators, for whole programs. `Word` gives the
meaning of the operations to all who rewrite or translate them.

## 2. The modules

### Preprocessor: `Preproc`, `MCPreproc`

One step is one line of a file: an action for each directive (`Define`,
`Undef`, `If`, `Ifdef`, `Elif`, `Else`, `Endif`, `Include`, `Pragma`) and
`TextLine`. `files` is the C stack of `pp_preprocess_internal()`, one frame for
each file being read, with its position and its own stack `ci` of conditionals.
`pp_skip_cond_incl`, `pp_skip_inner_cond_incl`, the operator-precedence parser
of constant expressions (`Infix`, `InfixRest`, `Operand`) and the expansion with
hide sets (`Expand`) are operators; they read tokens exactly as the code does,
the tokens it reads once too often included. A call that yields no token leaves
its caller with an uninitialised `head.next` and a `cur` on a dead frame; the
model stops with status `dangling`.

Beside this stands C's meaning of the same lines, `Meant`: groups with a flag
each, expressions by their operators' precedence, macros replaced until nothing
is left but names they came from. `Includes` names the uses for which the two are
known to differ; the run leaves them out (section 4 lists them).

Left out: macros with parameters, `__FILE__` and `__LINE__`, `#error`, and `-E`.

### Control flow: `Cfg`, `CfgBuild`, `MCCfgBuild`

`Cfg` has `bb_create`, `bb_connect` and `add_insn` on graphs of blocks with
`next`, `then_`, `else_` and `prev`. `CfgBuild` has one action for the head and
one for the end of each statement. `frames` is the C stack of the recursive
descent, `break_bb` and `continue_bb` are the parser's two stacks, `backpatch`
the list of forward gotos. Any statement of the chosen language may follow.

Beside the graph `w.g` the actions build the flow `w.r` that the C language
prescribes: one node per instruction, edges by outcome of conditions.
`FlowPreserved` compares both.

`Uses` names what the run leaves out: `deadcode` (a statement with no
current block), `nested` (`&&` in the arms of `?:`), `logicinc` (`&&` in the
increment of `for`), `emptyinc` (`continue` in a `for` without increment) and
`deadloop` (a loop whose body never gets to its end and is never continued).
In every one of them the compiler crashes or produces a wrong graph. `Skip` ends a
function that turns out to need such a feature. `EndSwitch` leaves out a switch
without any label.

### Dominators: `FlowGraph`, `FlowGraphProofs`, `Dominance`, `DominanceProofs`

`FlowGraph` defines graphs with entry 1 and exit N, dominance by paths
(`Dominates`: every path passes), immediate dominators and frontiers.
`Dominance` has the algorithm for one function and one direction (`dir`, `rev`
being `bb_build_r_idom` and its kin):

* `Visit` and `Leave` are `bb_forward_traversal` with its post-order hook,
  `Reverse` is the renumbering and the list `rpo_next`;
* `NextBlock`, `Merge`, `Climb`, `Met`, `Assign`, `PassEnds` are `build_idom()`
  with every iteration of `intersect()` a step of its own; `idom = NULL` is a
  block without candidate, `pc = "stuck"` the use of `pred` uninitialised or a
  finger of `intersect()` at `NULL`, `pc = "lost"` a walk of `bb_build_df()` that
  leaves the tree;
* `BuildDom` and `BuildDf` are the two last passes.

The order of successors and of predecessors is open, as it is in `prev[]`.

### SSA form: `Ssa`, `SsaProofs`, `UsesProofs`

No instruction that the passes add relates two variables, so the module is
about one: a parameter, a local with its declaration, a global, or the result
of `&&`, `||` or `?:`. `SolveGlobals`, `InsertPhis` (one block of the work
list), `StartRenaming`, `EnterFunction`, `EnterChild`, `LeaveBlock`
(`bb_solve_phi_params`, with its recursion as `frames`), `StartUnwinding` and
`Unwind` are the code. `StartRun`, `Execute`, `Jump` and `Return` then execute
the result: each assignment creates a new value, and `holders` is the set of
versions that hold the variable's current value. Since every assignment makes a
new value, this set says all about the contents that the properties need.

C block scopes are sets of basic blocks. `Under(o, d)` are the blocks that begin
in a C block opened in `d`; `Regions` takes those as long as possible, entered
only through `d`; `Closing` are the blocks in which such a C block ends. The
program reads the variable only inside (`inside`), while the parser's `bb->scope`
finds it from `scope`. The two differ only when `Reopened` is true: then
another block statement opens in a basic block in which the first one ends.

Assumed: the tree and the frontiers are the true ones. `Dominance` is the reason.

### Optimizer: `Word`, `Optimizer`, `MCOptimizer`

`Word` has the signed integers of `W` bits, what each operation of the
intermediate code means on them (division truncates, shifts are arithmetic) and
byte-wise memory. `Optimizer` is one basic block in SSA form. A constant is kept
where the code keeps it, in the variable (`consts`, `init_val`), not in the
instruction, so that a rewriting that changes it changes it for all. `Casts` is
`optimize_constant_casts()`; then `optimize()` looks at one instruction after
the other, and `ConstFolding`, `Cse` and `Simplify` are what it does with one:
`mark_const`, `eval_const_arithmetic` and `eval_const_unary`; `cse` for
arithmetic and for array elements; operations of a variable with itself,
identities, strength reduction. What one part makes of the instruction is what
the next one looks at. `Trace` executes a block; `SameResult` compares the block
with the one it was built as.

`Uses` names what the run leaves out: `shared` (a constant of another instruction
is overwritten by strength reduction), `negative` (dividends), `other` (a read behind
an addition that is not its address), `address` (the address of a read is used
again) and `stored` (something is written between two reads of the same
element). Writes between reads of elements named differently are in the run, also where
both turn out to be the same place. Calls are not in the model.

### Dead code and liveness: `Dce`, `Liveness`, `LivenessProofs`

`Dce` is `dce_insn()` (the marks that start it, the work list one instruction at
a time, the assignments and control dependences an instruction pulls in) and
`dce_sweep()` (unmarked instructions go, a branch that is not marked is
redirected up the post-dominator tree). `last_assign` is one pointer for each
variable, set in the order of the blocks, as in the code. The function has
branches, a call with its argument, a variable assigned once and one assigned
by the copies of a phi. `Liveness` extends it: `SolveLocals`, `Recompute` for
each block of a round, in the order of the reversed traversal, and `PassEnds`.
`merge_live_in()` has `MaxLive` places and leaves out what finds none.

`Void` gives the graphs of functions without a result; the run has only `if`,
since the sweep goes wrong with a `switch` or an endless loop (section 4).

### Register allocator: `RegAlloc`, `MCRegAlloc`, `RegAllocProofs`

`reg_alloc()` makes one pass over the blocks of each function. Every SSA
instruction is rewritten to phase-2 instructions on `REG_CNT` registers. The
module runs the allocator and, in step with it, the code it emits.

* `st.REGS`, `st.phys_reg`, `st.space` are `REGS[]` (with its `polluted` flags),
  `var->phys_reg` and `var->space_is_allocated`. `st.reg` and `st.mem` are the
  registers and stack slots of the emitted code. Contents are symbolic: a place
  contains `v` when it holds the current value of `v`.
* The helpers `refresh`, `spill_var`, `load_var`, `find_best_spill`,
  `prepare_operand`, `prepare_dest`, `spill_alive`, `spill_live_out`,
  `extend_liveness` and `abi_lower_call_args` are operators from one `st` to the
  next. `find_best_spill` may pick any candidate: the cost heuristic never
  decides correctness.
* One action per opcode of the loop, all its calls included: `LoadImmediate`,
  `Binary`, `Unary`, `Read`, `Assign`, `AssignDead`, `AllocatScalar`,
  `AllocatAggregate`, `AddressOf`, `GlobalAddressOf`, `UnwoundPhi`, `Write`,
  `WriteFunc`, `FirstPush`/`NextPush`, `Call`, `Indirect`, `FuncRet`, `Branch`,
  `FallThrough`, `Return`, `ReturnVoid`, and `NextFunction` for the prologue.
* The instruction stream is not fixed. An action takes any operand that an SSA
  program may use at that point. Liveness is chosen when a variable is defined
  (`live_out`, `consumed`) and binds the program afterwards.
* `misread` collects operands that the last instruction did not find where the
  emitted code looks.

`Uses` names source features that the allocator compiles wrongly, and that are
left out of the runs: `indirect` (reading on after a call through a
pointer), `globalptr` (a store through a pointer that changes a global),
`funcptr` (a store of a function address that changes an exposed variable) and
`vaextra` (named parameters of a variadic function beyond the argument
registers). `Safe` says `Uses = {}` and that no parameter in register 1 or
above has its address taken.

### Peephole: `Peephole`, `MCPeephole`

One basic block of phase-2 code. The cursor `ir` moves over the list, and at
each place the functions of `peephole.c` are tried in their order, each an
operator that gets the code from there on and returns what it makes of it. The
fields `dest`, `src0`, `src1` are those of `ph2_ir_t`, and the patterns compare
them as the code does, whatever they stand for in an instruction. `SameEffect`
executes the block before and after, on registers and memory. `live` are the
registers read behind the block; the allocator does not pass them on.

`Expected` says what the allocator emits. Two kinds of pairs are left out since
`optimize()` has folded them: operations on two constants, and `x & 0` and `x | -1` with
the constant on the right, the only operand it looks at (`ssa.c:2182`). `Uses` names
what the run leaves out besides: `shared` (a register that a pattern takes for
a temporary is read later), `negative` (dividends), `left` (`0 & x` and `-1 | x`)
and `numbered` (a store and a load, where the register stored has the number
that is the offset of the load; `Regs` has 4 and `Offsets` has 4, so that they meet).

### Code generators: `Arm`, `Riscv`, `Codegen`, `Layout`, `Flow`, `LayoutProofs`

`Arm` and `Riscv` each have three parts: `Size`, what `update_elf_offset()` and
`cfg_flatten()` count; `Words`, what `emit_ph2_ir()` and `code_generate()` write;
and `Step`, what the machine does with such a word. A word is a record of its
fields instead of their packing into 32 bits; a field that does not fit is the
error the encoder reports. Both know what is written when there is no hardware
multiplication or division.

`Codegen` executes the words of one instruction at a time, from any contents of
the registers and with any of its registers the same, and compares with
`Word`'s meaning (`Correct`). `Layout` takes a whole program through `Lower`,
`Flatten` (one instruction at a time), `Emit`, and then executes it on the
machine (`Boot`, `Run`, `Library` for a function of the C library that may
change r12; it does not call back into the program). `Flow` is the abstract
specification: the phase-2 instructions in the order their control flow
prescribes. `FollowsFlow` is the refinement: where the machine is at the first
word of an instruction is where `Flow` is.

### Hash map: `MapSpec`, `HashMap`, `MCHashMap`, `HashMapProofs`

`MapSpec` is a function from keys to values with `Put`, `Get`, `Contains` and
`Clear`. `HashMap` is the open-addressing table: `Put` starts a put and, if the
map is loaded, allocates the larger table (`calloc()` may fail when `MayFail`);
`RehashSlot` moves one slot, `RehashDone` ends the rehash, `Insert` probes and
writes; `RehashStuck` is the abort when no free slot is found; `Get`,
`Contains`, and `Renew` (free and create). The refinement mapping `Contents`
merges the new table with the slots of the old one that still wait, so that the
abstract put takes effect exactly at `Insert` and a rehash is invisible.

## 3. The runs

All bounds are constants of the configurations. Every run ends without an error;
deadlock is checked in all of them (a finished pass stutters in a `Stop` or
`Return` of its own).

| Run | Instance | Holds |
|---|---|---|
| `preproc` | all programs of 4 lines out of 17 directives with 5 headers (`#pragma once`, an include guard around an `#include` of itself, an `#if` left open, an `#endif` too many, one with only a `#define`), of 6 conditional lines, and `#if` with up to 3 operands, each line followed by text that shows whether it is kept and what the macro stands for | `SameText`, `Refused`: the text is the one C prescribes, and only what does not match is refused |
| `cfgbuild` | functions of up to 4 statements, of `if else for do break continue return {}` of `while switch goto label break continue return` with `&&` and `?:` and two labels, or of `if else while break return` with `\|\|` | `NeverAborts`, `FlowPreserved`, `WellFormed`, `ExitReachable`, `PredsReachable` |
| `dominance` | all flow graphs of 5 blocks, both directions | `TypeOK`, `CandidatesAbove`, `IdomCorrect`, `FrontierCorrect`, `Ends` |
| `ssa` | 5 blocks, 2 branches, 2 assignments, 1 use, all kinds of variables | `UsesRight`, `StackIsPath`, `SingleAssignment`, `PhiOperands` |
| `optimizer` | blocks of up to 5 instructions on 4-bit integers, with two parameters, a global, up to two literals, casts, reads and writes of array elements; blocks of 7 with a write between two reads; without the five uses of section 2 | `SameResult` |
| `liveness` | functions of 6 blocks with 2 branches, a variable assigned once or by the copies of a phi, a call, both orders of the code; 2 places for live variables | `SameOrder`, `LiveExact`, `AssignedBefore`, `Ends` |
| `regalloc_blocks` | 3 registers, 2 locals one of which is a phi variable, 2 globals, no parameter, 3 blocks of 2 instructions and a branch; the globals symmetric | `OperandsFound`, `NothingLost`, `IndInv` |
| `regalloc_calls` | 4 registers, 2 for arguments, calls with up to 3 arguments, a global, an exposed parameter, an exposed constant | `TypeOK`, `OperandsFound`, `RegsTruthful`, `ExposedInMemory` |
| `peephole` | pairs of instructions, triples of memory accesses and of subtractions, 3 registers, 2 offsets, 4-bit integers; all of them but what `optimize()` folds and the four uses of section 2 | `SameEffect` |
| `codegen` | every instruction that computes or moves, every way its registers can be the same, 12 values of 8 bits in each register, both targets, with and without hardware multiplication and division | `Correct`, `Ends` |
| `layout` | programs whose `main` has any control flow of 5 blocks, with a function called directly, through a pointer, or from the C library; RISC-V, ARM, ARM with dynamic linking; stacks of 20 and 32 bytes, 6-bit immediates | `PlacedAsCounted`, `FollowsFlow`, `GlobalsFound`, `ReturnsRestore` |
| `hashmap` | 3 keys that collide, tables of 1 to 16 slots, `calloc()` failing at will, NULL among the values | `TypeOK`, `NodesReachable`, `HalfFull`, `ImplementsMap`, `PutEnds` |

Why the bounds are enough to be interesting:

* Preprocessor. Four lines nest one conditional in another, include a file twice,
  or redefine a macro between two uses; six conditional lines are two chains one
  in the other, or one chain with several `#elif`. Two operators are enough for
  precedence and associativity to matter.
* Control flow. Four statements nest a jump in a switch in a loop, or a loop in
  an `if` with an `else`. Each handler connects blocks created by itself
  and the one or two blocks it is given, so deeper nesting repeats cases.
* Dominators. Five blocks are the least with a loop entered at two places whose
  entries are not the root, and with a frontier behind a frontier. The irreducible
  ones need a second pass that changes something.
* SSA. Blocks are numbered by their first predecessor, which removes renamings
  of the same graph. Two assignments and two branches suffice for a phi that
  feeds a phi, a loop that carries a value, and both edges of a branch with
  copies. For a local the declaration is one of the assignments.
* Optimizer and peephole. A pattern spans at most three instructions; longer
  blocks are there so that one rewriting meets the result of another. Four bits
  have every power of two with its logarithm, and both signs. A read, a write and a read,
  with their addresses, are six instructions, and the seventh uses both reads.
* Dead code and liveness. Six blocks have an `if` with two branches inside a
  loop, or one behind the other, so that a useless branch is redirected past
  another useless one, and an iteration needs a third round.
* Register allocator. Three registers are the least an instruction with two
  operands and a result needs. In `regalloc_blocks` there are four variables, so that
  a register must be given up to make room, for an operand or for a result, and
  what it has may have to be stored first: the mutants of `NothingLost` (what is
  evicted is not stored) and of `OperandsFound` (an operand already prepared is evicted)
  are found. In `regalloc_calls`, which has the parameter, four are needed for
  two argument registers plus something to lose. Three blocks give a value that is
  defined in one block, passes through a second untouched and is read in a
  third. Calls with three arguments on two argument registers use the stack.
* Code generators. The 6-bit immediates of `layout` and the 4-bit ones of
  `codegen` put stacks, offsets and constants on both sides of what fits into
  one word, so that both encodings of every instruction are used. Eight bits are
  the least with a `char` and a `short` that differ from each other and an `int`.
  Five blocks have branches and jumps forwards, backwards and to the next block.
* Hash map. Two keys share every slot and the third only the smallest tables;
  1, 2, 4, 8 and 16 slots make every put of a new key grow the table at first,
  and a failed growth leads to a full one.

Every property has a mutant in its run: the model with one plausible bug of the
code (a dropped guard, a missing reset, a wrong order), with which TLC finds
the property violated. Their definitions stand before those they replace, with a
comment that says so.

**Fairness.** `HashMap` has weak fairness of the internal steps of a put: a call
that has begun is a loop in one thread and goes on. Calls themselves are not
fair. `Dominance` and `Liveness` have weak fairness of `Next`: each is one call
of a sequential function. `Codegen` has it too: the machine goes on with the
next word. All this is what a C program, or a processor, does whenever the
process runs. The other specifications have no fairness and no liveness property.

## 4. What was found

The constants `Uses`, `Includes`, `Void` and `Reopened` switch on what the
compiler gets wrong; the configurations leave them empty, and TLC finds a
counterexample when the word in the last column is added. Each but `"numbered"`
was reproduced with the compiler itself: in its output, in the emitted code, by
running the program, or as a crash.

| Where | What happens | Switched on by |
|---|---|---|
| `preprocessor.c:540` | a conditional inside a group that is left out is passed by a call that begins on it again: it eats the `#endif` of the outer one, and the program is refused | `Preproc`, `Includes = {"nested"}` |
| `preprocessor.c:487` | each round of the loop over operators ends with reading one and begins with reading the next: `1 + 2 + 3` is refused, `a && b \|\| 1` is wrong, the rest of a condition appears as text | `"chain"` |
| `preprocessor.c:342` | parentheses may hold one operand only; `(1 + 2)` is refused | `"bracketed"` |
| `preprocessor.c:357` | a condition still uses the replacement of a macro after `#undef` | `"undefined"` |
| `preprocessor.c:371` | a macro that leads back to itself is expanded without end in a condition | `"self"` |
| `preprocessor.c:1031` | the use of a macro without replacement links the result to an uninitialised `head.next` and to a local of a call that is over | `"empty"` |
| the same | a header of `#define` lines only; the compiler crashes | `"silent"` |
| `parser.c:3214` | `a ? (b && c) : 5` is wired to the end of the arm | `CfgBuild`, `Uses = {"nested"}` |
| `parser.c:3761` | after the warning about unreachable code most statements abort the compiler | `"deadcode"` |
| `CfgBuild` | `&&` in the increment of a `for`, `continue` in a `for` without increment, and a loop whose body always returns crash the compiler | `"logicinc"`, `"emptyinc"`, `"deadloop"` |
| `parser.c:4601` | `bb->scope` is overwritten when a block statement opens in the basic block in which another has ended; the first one's variables then get no phi there | `Ssa`, `Reopened = TRUE` |
| `ssa.c:2355` | strength reduction overwrites a constant that another instruction shares: a function returns 7 in place of 14 | `Optimizer`, `Uses = {"shared"}` |
| `ssa.c:2358` | a division by a power of two becomes a shift, a remainder a mask, both wrong for negative dividends; likewise in `peephole.c` | `"negative"` |
| `ssa.c:1468` | `cse()` takes any read behind an addition for a read of that address | `"other"` |
| `ssa.c:1488` | the addition taken out may still be used | `"address"` |
| `ssa.c:1468` | `cse()` makes a read of an element a copy of an earlier read of it, whatever was written in between: `x = s[i]; s[i] = 5; y = s[i];` gives `y` the old value. Nor does it look for calls, which the model does not have | `"stored"` |
| `ssa.c:1943` | in a function without result, a useless branch at the last `case` of a `switch`, or in a loop without end, is removed and no useful block found: the block has no successor, although the comment at `:1934` says that "register allocation will insert a jump instruction", and control runs into the code behind it. `switch (x) { case 1: g = 1; case 2: break; }` sets `g` for `x = 3` | `Dce`, `Void = {"switch"}`, `{"loop"}` |
| `reg-alloc.c:902` | `OP_indirect` leaves `REGS` as before the call | `RegAlloc`, `Uses = {"indirect"}` |
| `reg-alloc.c:575` | parameters have no vreg mapping; one that is exposed and not in register 0 is reloaded from a slot it was never given | two parameters in `Params`, the second in `AddrVars` |
| `reg-alloc.c:343`, `:600`, `:822` | loads keep globals cached that a pointer may change; a variadic function does not find named parameters beyond the argument registers; the store of a function's address does not spill exposed variables | `"globalptr"`, `"vaextra"` (with more `Params` than argument registers), `"funcptr"` |
| `peephole.c:60` | a register is taken for a temporary although the code behind reads it: `x = a + b; y = a + b; return x * y;` gives 15 for 2 and 3 | `Peephole`, `Uses = {"shared"}` |
| `peephole.c:735` | `0 & x` and `-1 \| x`, which `optimize()` leaves alone because it looks only at the second operand (`ssa.c:2182`): the operation is unlinked, and its result never written; `return 0 & x;` returns what the register had | `"left"` |
| `peephole.c:400`, `:416` | forwarding from a store to a load, and dropping a store behind a load, compare the register stored with the offset of the load: `store r4, [0]; load r1, [4]` becomes a move from r0, and `load r0, [4]; store r4, [0]` loses the store. Found on the model. The slot 0 exists on RISC-V only, and no C program was found whose code has such a pair | `"numbered"` |
| `arm-codegen.c:369` | a branch neither of whose targets is next, marked detached: the word that should jump to the else target is missed, and `do { x = x + 1; if (x == 7) break; } while (x < 5)` returns 1 | `Layout`, `Includes = {"apart"}` |
| `arm-codegen.c:487` | the emulated division of a negative register by itself gives -1 | `Codegen`, `Includes = {"self"}` |
| `riscv-codegen.c:450` | the extension of a `char` to a `short` clears the upper half | `"narrow"` |

Met while modelling, without a switch:

* `!` and `~` are among the unary operators of a condition (`preprocessor.c:249`)
  but no token is read as one (`:257`): `#if !defined(X)` is refused.
* Macros with parameters (not modelled): a redefinition adds its parameters to
  the old ones; an inner call of the same macro in an argument is not expanded;
  an object-like macro in the body sees the parameters of the macro it is used
  in; a name without an argument list is expanded.
* On RISC-V all eight registers pass arguments. With seven or eight arguments a
  register that still holds a variable dead since the first push makes the
  loads use other registers, and the last argument (`reg-alloc.c:876`) or the
  pointer of an indirect call (`:906`) may be loaded into a register that has an
  argument; which one is evicted depends on the costs of `find_best_spill()`.
  It is what the hypothesis `Spare` of `EveryOperandFound` leaves out.
* `OP_assign` of a register to itself is counted as nothing and written as one
  word on ARM; `peephole()` removes all of them before.
* `rv_encode_J` and the ARM `b` do not check that the distance fits.
* A `char` is loaded with its sign on RISC-V and without on ARM.
* `simple_sccp()` changes nothing: its tests of `is_const` come too early.
* `DF[64]`, `RDF[64]` and `rename.stack[64]` are written without a check; a
  variable whose address is taken gets a new slot with each assignment.
* Hash map: the comments say that a key "May be NULL" and that the old value
  "will be freed"; neither is the case.

## 5. The proofs

| Module | Theorem | Says |
|---|---|---|
| `RegAllocProofs` | `Inductive` | `Safe => (Spec => []IndInv)` |
| | `TypeCorrect`, `RegistersTruthful`, `NoValueLost`, `AddressedInMemory` | the checked properties, for any number of registers, variables, arguments and blocks |
| | `StraightLineCorrect` | every step but a call finds its operands, under `Safe` alone |
| | `ArgumentsStay`, `EveryOperandFound` | `Safe` and `Spare` give `Spec => []ArgsInv` and `Spec => []OperandsFound`: calls, direct and indirect, with arguments in registers and on the stack, find theirs, too |
| `FlowGraphProofs` | (lemmas) | `Reach` is the least closed set; dominance is a partial order, with one immediate dominator for each block |
| `DominanceProofs` | `Invariance`, `TypeCorrect`, `Candidates` | on every set of graphs, of any size, `pred` is never undefined, fingers never leave the tree |
| | `DominatorInvariance`, `Idom`, `Frontiers` | `Graphs \subseteq FlowGraphs => (Spec => []IdomCorrect)`, and `[]FrontierCorrect` |
| `SsaProofs` | `RenamingInvariance`, `StackOfPath`, `OneAssignment`, `OperandPerEdge` | `StackIsPath`, `SingleAssignment`, `PhiOperands`, for every number of blocks, branches, assignments and uses, with `Reopened` or without |
| `UsesProofs` | `UsesHold` | `Reopened = FALSE => (Spec => []UsesRight)`, on every graph, for every kind of variable, and every program of the model of any size |
| `LivenessProofs` | `Assigned` | `Spec => []AssignedBefore`, for every number of blocks and of places |
| | `Exact` | `MaxLive >= 2 => (Spec => []LiveExact)`: a function of the model has two variables, so that each has a place |
| | `Order` | `Void \subseteq {"if"} => (Spec => []SameOrder)`, for every number of blocks and branches |
| `HashMapProofs` | `Invariance`, `TypeCorrect`, `Reachability` | every node can be found, for every hash function, key set and capacity |
| | `Load` | `Spec => []HalfFull` |
| | `Refinement` | the table implements `MapSpec` |
| `LayoutProofs` | `Layout_PlacedAsCounted` | on both targets, and with dynamic linking, every instruction lies where its block was promised |

**Register allocator.** No single property is inductive. That a register may be
dropped needs that clean entries are saved (`CleanSaved`), that a saved value is
still current needs the mapping of exposed variables to be exact (`Exact`,
`Slots`), and that `spill_live_out` saves enough needs that only variables the
block defines are polluted (`DirtyKilled`) and that all others have been in
memory since the block began (`Resident`). `IndInv` adds that a live variable is
somewhere (`Present`), and that during a call all live variables are in memory.
`Good` is the same between two helpers of one instruction; each helper has a
lemma that it preserves `Good`, each action one that it preserves `IndInv`. The
hypothesis `Safe` excludes the programs that `Uses` stands for.

Nothing in `IndInv` keeps an argument where it was put: `OP_push` copies its operand
to the register of the next number, and the operand of a later push may be loaded
into any register that is free or whose variable may be evicted. `ArgsInv` adds
what stands in the way: during a call the registers below `args` have the arguments passed
(`Placed`), their variables stay alive until the call, which is why they are
not dropped (`Kept`), and besides them at most one register is taken
(`OneBeyond`), since all that was alive was spilled by the first push. So a
load finds a free register as long as the arguments leave two. That is the
hypothesis `Spare`: fewer than `REG_CNT - 1` arguments are in registers, either
because no more go there, as on ARM with 4 of 8, or because no call has more. On RISC-V, with 8 of 8, the theorem therefore covers calls of up to 6
arguments, and with 3 registers and 2 or 3 for arguments TLC finds `OperandsFound`
violated (section 4).

**Graphs.** `Reach` and the functions of the traversals are recursive. A function
that is chosen by its recursion exists because a step that maps a set to itself
can be repeated (`Iteration`, `Recursion`); induction runs over the least member of
a set of counterexamples (`LeastNat`, `SetInduction`). From `Reach` only two facts
are used afterwards: it is closed under the edges (`ReachClosed`), and it is in
every closed set (`ReachLeast`). Dominance is reflexive, transitive and
antisymmetric, and what dominates a block is ordered (`DominatesOrder`), so that
there is a lowest strict dominator (`IdomExists`, by counting) and one only.

**Dominators.** In the traversal a block on the stack is reachable from the root
and a block that was left has a predecessor that is on the stack or left later
(`TraverseInv`). So in reverse post order every block but the root has a
predecessor before it (`OrderInv`). When a block's turn comes, all blocks before
it have candidates, therefore one of its predecessors does, and `pred` is found
(`LoopInv`). A candidate comes before its block, so the fingers of `intersect()`
climb towards the root, which both reach at the latest (`TreeInv`).

That the result is right needs both directions. A candidate is never above a
dominator of its block (`BelowInv`): what dominates all predecessors dominates the
block, and `intersect()` does not climb past a common dominator (`MergeAbove`).
When a pass changes nothing, every candidate is above all predecessors of its
block (`PassInv`), so a path that avoids it would have a first block below it.
`DomInv` is the conjunction. Frontiers follow from the tree: the walk from a
predecessor goes through its dominators in order and stops at the immediate
dominator of the block. Both theorems are about the graphs the parser builds
(`FlowGraphs`), in which nothing is unreachable and the entry has no predecessor.

**SSA form.** The walk over the dominator tree is a path: the frames up to the k-th
are what dominates the k-th block, and of a block that was left no child is
missing (`WalkInv`). A block that was entered has an interval of subscripts to
itself (`VersInv`), and the stack has the heights `h[k]` at which the frames began,
each the sum of the assignments below (`StackInv`): so `LeaveBlock`, which pops
as many names as the block has assignments, restores what was there. Therefore
a name taken from the stack is defined above the use (`UseInv`), and an operand
above its edge, or there is no version above the edge at all (`OpInv`; here the
order matters in which the blocks of an edge are entered). With `TreeSpans`, which
says that the walk has been everywhere when it is over, the three properties follow.

`UsesRight`, the meaning of the form, has an invariant for each pass, joined in
`UsesInv`. Before the renaming `PlaceInv` says which blocks have a phi: those on
the frontier of a block that is done, and when the list is done the set is closed
under frontiers. During the renaming `OrderInv` says that versions grow
downwards in the tree, so that the version read is the latest of those above
(`Latest`). From both follows the fact the form rests on (`SameOnEdge`): on an
edge into a block without a phi, the latest version at the end of one block is that
at the beginning of the next. `Stands(I, O, K)` then says it without the tree: each
block `b` begins with the version `I[b]`, ends with `O[b]`, and each edge into a block
of `K`, from which on the version is right, passes it on (`Link`); a use is in
`K` or behind an assignment. This no longer speaks of dominance, and replacing a
phi by copies keeps it (`StandsUnwind`), since a copy stands behind all
assignments of its block and before the branch, and its target is a version that nobody
else on the way reads. The run keeps that the version which reaches the next
instruction, and each copy made in this block, are in `holders` (`RunOf`). With `Reopened`
`KindInv` fails where it says `scope = inside \cup {decl}`, and so does `UsesRight`.

**Dead code and liveness.** Of `AssignedBefore` the hard case is the variable that
is assigned once, in a block `d`. Its reads are dominated by `d` in the graph as
it is before the sweep (`Headed`), and whatever marks a read marks the assignment
(`MarkInv`). The sweep removes edges and adds others up the post-dominator
tree, which is not the dominator tree; still `d` dominates every read that is
left, since a redirected branch skips only blocks without useful instructions and the
block of a marked assignment is a live block (`Redirect`, `XInv`). The result is
that the swept graph is closed under what `d` dominates (`XLive`), and no round
brings the variable above `d`.
For `SameOrder` marking gives what the sweep relies on (`MarkOrder`): a branch that
is not marked is in no post-dominance frontier of a live block, or that block
would have marked it. Neither way of it decides whether a useful block runs (`Unsteering`), so
a useful block that lies on every path from one target lies on every path from
the branch (`Steered`). The same holds of a dead block with one successor. Therefore
all paths through dead blocks from a redirected branch meet the same useful block first,
and that is the nearest useful post-dominator, where the climb of `dce_sweep()` ends
(`ClimbEnds`, `OnlyMeets`). `SweepOrder` says of every block that it is as it was
or redirected there; `Tidy` is what holds when all are swept, and implies
the property (`SameMeets`).
What is left is the climb that ends at the exit, which leaves the block no successor. With a result
it does not occur, as the blocks before the exit return and are live (`Ended`).
Without one control falls into the next code, and the proof needs its order: in a graph
without cycles a target that only the branch leads to is the block the traversal
left just before the branch, or the other target is (`FallsThrough`, from one step
of the traversal, `ForthFollowing`); so control stays among the dead blocks behind
the branch until it is at the exit (`Descending`). The hypothesis
`Void \subseteq {"if"}` is that of the run. With `"switch"` or `"loop"` the property
is false, as section 4 says.

`LiveExact` is proved from two inclusions: a variable in `live_out` is needed on
some path (`NeededIn`), and a round without change leaves a solution of the
equations (`ExactInv`), which has everything that is needed since the path is
followed backwards (`NeededBefore`, `FixedHasNeeded`). With a place for each
variable `merge_live_in()` drops none (`FittingAll`).

**Hash map.** `IndInv` says of both tables that no key occurs twice and that no
free slot lies between the hash of a key and its node; that no key is in both;
and that the slots before `i` are done. Insertion at the first free slot keeps
the chain. With the chain the slot a probe stops at is unique, which gives the
value of the abstract map (`FoundIsBound`); a rehash step moves a binding from
one table to the other and leaves their union alone (`RehashMoves`). `CountInv`
counts: `size` is the number of occupied slots, and during a rehash those that are
moved and those that wait are together no more than half of the old capacity.

**Layout.** The heart are the lemmas `ArmCounted` and `RiscvCounted`: whatever
the instruction, the number of words `Words` writes is a quarter of what `Size`
counts. Both are proved by cases over the opcodes, the length of each literal
list of words being a lemma of its own (`Tuple1` and on). `Size` does not look at
what differs between the two passes, the offsets of blocks that come later
(`SizeFixed`). The invariant `Inv` then says that `place` has the sums of the
sizes so far (`Placed`), that `emitted` and the length of the code have the same
sums (`Written`), and which of the lists is complete at which stage (`Stages`).
The compiler of `Layout` has hardware multiplication and division; the lemmas
hold without, too.

**Assumptions** are the named `ASSUME`s of the modules, which TLC evaluates in
every run: `RegAssumption` (at least three registers), `VarAssumption` (parameters
are distinct locals), `BoundAssumption`, `PredAssumption`, `BlocksAssumption`,
`GraphsAssumption` (a graph maps blocks to sets of blocks), `KeyAssumption`,
`CapAssumption`, `BoundsAssumption`, `WidthAssumption`, `AddressAssumption`.

The hypothesis `Graphs \subseteq FlowGraphs` of `DominanceProofs` holds in the
runs, where the two are equal; that the graphs of `FlowGraphs` are what the parser
builds is what `WellFormed`, `ExitReachable` and `PredsReachable` of `CfgBuild` show.

The hypotheses `Spare` of `EveryOperandFound` and `Void \subseteq {"if"}` of `Order`
are explained above; each leaves out programs for which TLC finds the property
violated.

The hypothesis `Reopened = FALSE` of `UsesHold` leaves out one program shape, the
one of `parser.c:4601` in section 4, for which the property is false; the run has
it, too.

**Only model-checked**: the properties of `CfgBuild`, `Optimizer`, `Peephole`, `Codegen`, and those of `Layout` about the running program. `Preproc` is defined
with `RECURSIVE` operators, which the prover cannot take. The liveness properties
`Ends` (of three modules) and `PutEnds` stay with TLC, since liveness under
fairness is out of reach of TLAPS.

## 6. What is left out

In the modelled components:

* preprocessor: macros with parameters, `__FILE__`, `__LINE__`, `#error`, `-E`;
  shifts, remainders and `?:` in conditions;
* control flow: the loop of `read_expr()` over mixed chains of `&&`, `||` and
  arithmetic; `Cfg` stops at `MAX_BB_PRED`, where the code reads one entry too far;
* dominators and SSA: the sizes of `dom_next[]`, `DF[]`, `rename.stack[]` and
  `subscripts[]`; the warning pass `check_var_cross_init()`; two phis of one block
  that swap values (the copies of `unwind_phi()` run one after the other; `Ssa` has
  one variable and `RegAlloc` excludes reading a destination that is already
  stored);
* optimizer: `simple_sccp()`, calls, the rewriting of reads in dominated blocks, the searches for opcodes phase 1 does not produce,
  phi functions (unwound by then), unreachable blocks;
* register allocator: the initialisation code of globals, numeric stack offsets
  and the spill heuristic;
* code generators: a library function that calls a function of the program back,
  the packing of fields into 32 bits, `plt_generate()`, offsets
  from the top of the stack, addresses of read-only data, which are like those of
  data; the number of the system call of the exit is one that fits the width;
* hash map: a `NULL` key; the width of hashes, which are natural numbers here.

Not modelled at all: the driver, the lexer, declarations and expressions, the ELF
writer, arenas and symbol tables, the C library, the build tools. Instruction
encoders, ELF output, the IR dump and the build tools hold no state worth a model.

Real hazards of the code that no property covers yet: `DF[]` (`ssa.c:306`) and
`rename.stack` (`ssa.c:756`) have 64 entries that are written without a check;
`bb_connect()` looks for a free entry of `prev[]` before it compares with
`MAX_BB_PRED` (`globals.c:1062`); `break_bb` and `continue_bb` have no check
(`parser.c:637`); `arena_realloc()` grows only the last allocation in place
(`globals.c:272`); the absolute value of the hash `INT_MIN` (`globals.c:369`);
`malloc()` of `lib/c.c` does not test the result of `mmap`.

## 7. The plan

What is next, the most important first:

1. `ReadExpr` (`parser.c` 2380–2680): the operator stack and chains of logical
   operators, against a precedence reference; then composed with `CfgBuild`.
2. `Arena` and `Strbuf` (`globals.c` 105–345): alignment, growth in place or by
   a copy, pointers that stay valid. Theorem: live allocations do not overlap.
3. `Malloc` (`lib/c.c`): chunks cover the heap, free ones are reused.
4. The ELF writer beside `Layout`: section offsets and PLT entries against the
   bytes written.
5. Macros with parameters in `Preproc`.
6. `Dominance` and `Ssa` with bounded arrays.

Proofs still worth having: the stack discipline of `CfgBuild`; `GlobalsFound` of `Layout`.
