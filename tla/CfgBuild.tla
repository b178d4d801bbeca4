------------------------------ MODULE CfgBuild ------------------------------
(***************************************************************************)
(* How the parser of shecc (src/src/parser.c) builds the control-flow      *)
(* graph of a function while it reads the statements: read_func_body(),    *)
(* read_code_block(), read_body_statement() and the handlers of if, while, *)
(* for, do, switch, break, continue, return, goto and labels, and the      *)
(* expressions that branch (&&, ||, ?:).                                   *)
(*                                                                         *)
(* The parser is a recursive descent; `frames' is its C stack.  An action  *)
(* reads the head of one statement or returns from one.  The program is    *)
(* not fixed: any statement that may come next may be read.                *)
(*                                                                         *)
(* Along with the graph of the parser, `w.g', the actions build the flow   *)
(* the C language prescribes, `w.r': one node for every instruction, plus  *)
(* "nop" nodes for join points, heads and exits of loops, and labels.      *)
(* Code after a jump simply hangs on a node nobody reaches.                *)
(***************************************************************************)
EXTENDS Cfg

CONSTANTS
    Languages,   \* sets of statements and values of which programs are made
    Labels,      \* the labels of a function
    Uses,        \* features left out of the runs that pass (see Safe below)
    MaxStmts     \* bound: statements of one function

VARIABLES
    w,           \* the graph built so far, and the flow it stands for
    frames,      \* the calls of the recursive descent
    mode,        \* "stmt": a statement must follow; "done": one was read;
                 \* "end": the function is complete; "error": rejected;
                 \* "skip": not looked at any further
    break_bb, continue_bb,  \* the stacks of jump targets
    labels,      \* blocks of the labels seen so far
    backpatch,   \* forward gotos: [bb, label]
    left,        \* statements that may still be read
    language     \* the statements and values the program uses

vars == <<w, frames, mode, break_bb, continue_bb, labels, backpatch, left,
          language>>

entry == 1      \* func->bbs
exit == 2       \* func->exit

-----------------------------------------------------------------------------
(* The prescribed flow: node n continues at t[n], or at f[n] when it tests *)
(* a condition that is false.  w.at is the <<node, outcome>> that the next *)
(* node follows.                                                           *)

rEntry == 1
rExit == 2
rNode(r, kind) ==
    [kind |-> Append(r.kind, kind), t |-> Append(r.t, 0), f |-> Append(r.f, 0)]
rNewest(r) == Len(r.kind)
rGoto(r, at, n) == IF at[2] = "t" THEN [r EXCEPT !.t = [@ EXCEPT ![at[1]] = n]]
                                  ELSE [r EXCEPT !.f = [@ EXCEPT ![at[1]] = n]]

\* A point of the flow that may have several ways in.
Nop(x) == [x EXCEPT !.r = rNode(x.r, "nop")]
Flow(x, n) == [x EXCEPT !.r = rGoto(x.r, x.at, n)]
From(x, n, outcome) == [x EXCEPT !.at = <<n, outcome>>]
Meet(x, n) == From(Flow(x, n), n, "t")
\* What follows a jump to n.
Dead(x, n) == LET y == Nop(Flow(x, n)) IN From(y, rNewest(y.r), "t")

-----------------------------------------------------------------------------
(* Building blocks of the handlers; each maps a `w' to the next one.       *)

Create(x) == [x EXCEPT !.g = bb_create(x.g)]
Connect(x, pred, succ, type) ==
    [x EXCEPT !.g = bb_connect(x.g, pred, succ, type)]
In(x, b) == [x EXCEPT !.bb = b]
\* The k-th block created since x.
Made(x, k) == Newest(x.g) + k

\* An instruction in the current block, and its node.
Insn(x, kind) ==
    LET n == rNewest(x.r) + 1
        r == rGoto(rNode(x.r, kind), x.at, n)
    IN  [x EXCEPT !.r = r, !.at = <<n, "t">>,
                  !.g = add_insn(x.g, x.bb, n, kind)]
Node(x) == rNewest(x.r)

\* A new block after the current one.
Follow(x) == In(Connect(Create(x), x.bb, Made(x, 1), "NEXT"), Made(x, 1))

\* a && b and a || b: read_logical() on a, finalize_logical() on b.  `go' is
\* the branch that goes on to b, `out' the one that has decided.
Logical(x, go, out) ==
    LET shared == Made(x, 1)
        second == Made(x, 2)
        last == Made(x, 3)       \* finalize_logical: end
        other == Made(x, 4)
        \* the nodes of a, of b, of the value when both were tested, of the
        \* end and of the other value
        na == Node(x) + 1
        nb == Node(x) + 2
        join == Node(x) + 4
        early == Node(x) + 5
        on == IF go = "THEN" THEN "t" ELSE "f"
        off == IF go = "THEN" THEN "f" ELSE "t"
        a == Insn(Create(Create(Create(Create(x)))), "cond")
        ga == Connect(Connect(a, x.bb, shared, out), x.bb, second, go)
        b == Insn(From(In(ga, second), na, on), "cond")
        gb == Connect(Connect(b, second, other, go), second, shared, out)
        ge == Connect(Connect(gb, other, last, "NEXT"), shared, last, "NEXT")
        both == Nop(Insn(From(In(ge, other), nb, on), "stmt"))
        one == Insn(From(In(Meet(both, join), shared), na, off), "stmt")
        decided == [one EXCEPT !.r = rGoto(@, <<nb, off>>, early)]
    IN  In(Meet(decided, join), last)

\* The value of an operand without ?:.
Operand(x, e) ==
    IF e \notin {"and", "or"} THEN x
    ELSE Logical(x, IF e = "and" THEN "THEN" ELSE "ELSE",
                    IF e = "and" THEN "ELSE" ELSE "THEN")

\* c ? p : q: the arms are connected to the end before they are read, and the
\* branch to where reading them has ended.
read_ternary_operation(x, p, q) ==
    LET then_ == Made(x, 1)
        else_ == Made(x, 2)
        end_ternary == Made(x, 3)
        c == Insn(Create(Create(Create(x))), "cond")
        g0 == Connect(Connect(c, then_, end_ternary, "NEXT"),
                      else_, end_ternary, "NEXT")
        Assign(y, arm) == Insn([y EXCEPT !.bb = arm.bb, !.at = arm.at], "stmt")
        End(v1, no, join) ==
          Meet(Assign(Meet(Nop(v1), join), no), join)
        Else_(yes, no) ==
          LET g2 == Connect(no, x.bb, no.bb, "ELSE")
          IN  End(Assign(g2, yes), no, Node(no) + 2)
        Then_(yes) ==
          LET g1 == Connect(yes, x.bb, yes.bb, "THEN")
          IN  Else_(yes, Operand(From(In(g1, else_), Node(x) + 1, "f"), q))
    IN  In(Then_(Operand(In(g0, then_), p)), end_ternary)

\* The arms a ternary may have.
Arms == IF "nested" \in Uses THEN {"atom", "and"} ELSE {"atom"}

\* The value of an expression statement, an initialiser or a return.
Values(x, e) == IF e = "ternary"
                  THEN {read_ternary_operation(x, p, q) : p, q \in Arms}
                  ELSE {Operand(x, e)}
Exprs == language \cap {"atom", "and", "or", "ternary"}
Conditions == Exprs \ {"ternary"}

-----------------------------------------------------------------------------
(* The recursive descent.                                                  *)

Top == frames[Len(frames)]
Pop == SubSeq(frames, 1, Len(frames) - 1)
\* A statement may be read: one is required, or the enclosing block or
\* section of a switch goes on.
Here == IF mode = "done" /\ Top.k = "switch"
          THEN [frames EXCEPT ![Len(frames)] = [@ EXCEPT !.control = TRUE]]
          ELSE frames
Expecting ==
    /\ ~w.g.aborted
    /\ \/ mode = "stmt"
       \/ mode = "done" /\ Top.k = "block"
       \/ mode = "done" /\ Top.k = "switch" /\ Top.started
Reading(form) ==
    /\ Expecting /\ form \in language /\ left > 0 /\ left' = left - 1
    /\ w.bb # NULL \/ "deadcode" \in Uses
Returning(k) == ~w.g.aborted /\ mode = "done" /\ Top.k = k

Targets == UNCHANGED <<break_bb, continue_bb>>
Names == UNCHANGED <<labels, backpatch>>

Call(f) == frames' = Append(Here, f)
Return == frames' = Pop /\ mode' = "done"

Push(s, b, n) == Append(s, [bb |-> b, node |-> n])
Drop(s) == SubSeq(s, 1, Len(s) - 1)
Last(s) == s[Len(s)]

\* ';'
EmptyStatement ==
    /\ Expecting /\ mode' = "done" /\ frames' = Here
    /\ UNCHANGED <<w, left>> /\ Targets /\ Names

\* An assignment, a call or a declaration.  Without a block only the warning
\* about unreachable code remains of it.
Expression(e) ==
    /\ Expecting /\ left > 0 /\ left' = left - 1
    /\ w.bb # NULL \/ e = "atom" \/ "deadcode" \in Uses
    /\ w' \in {Insn(v, "stmt") : v \in Values(w, e)}
    /\ mode' = "done" /\ frames' = Here
    /\ Targets /\ Names

\* '{': read_code_block() sets the scope of its block, NULL or not.
OpenBlock ==
    /\ Reading("block")
    /\ w' = IF w.bb = NULL THEN [w EXCEPT !.g.aborted = TRUE] ELSE w
    /\ Call([k |-> "block"]) /\ mode' = "done"
    /\ Targets /\ Names
CloseBlock ==
    /\ Returning("block") /\ Len(frames) > 1
    /\ Return
    /\ UNCHANGED <<w, left>> /\ Targets /\ Names

-----------------------------------------------------------------------------
(* handle_if_statement                                                     *)

\* The condition in a block of its own, and the blocks of the two branches.
Test(x, e) ==
    LET c == Insn(Operand(Follow(x), e), "cond")
        then_ == Made(c, 1)
        else_ == Made(c, 2)
    IN  In(Connect(Connect(Create(Create(c)), c.bb, then_, "THEN"),
                   c.bb, else_, "ELSE"), then_)

If(e) ==
    /\ Reading("if")
    /\ \E x \in {Nop(Test(w, e))} :
           /\ w' = x
           /\ Call([k |-> "then", else_ |-> Newest(x.g), cond |-> x.at[1],
                    join |-> Node(x)])
    /\ mode' = "stmt"
    /\ Targets /\ Names

\* The block after a branch, if the branch has an end.
After(x) == IF x.bb = NULL THEN x ELSE Follow(x)

Else ==
    /\ Returning("then") /\ "else" \in language
    /\ LET x == After(w)
       IN  /\ w' = From(In(Flow(x, Top.join), Top.else_), Top.cond, "f")
           /\ frames' = Append(Pop, [k |-> "else", then_next |-> x.bb,
                                     join |-> Top.join])
    /\ mode' = "stmt"
    /\ UNCHANGED left /\ Targets /\ Names

\* Mutant of EndThen: the false branch is not connected.
EndThenOpen ==
    /\ Returning("then")
    /\ LET x == After(w)
           y == From(Flow(x, Top.join), Top.cond, "f")
       IN  w' = Meet(In(y, IF x.bb # NULL THEN x.bb ELSE Top.else_), Top.join)
    /\ Return
    /\ UNCHANGED left /\ Targets /\ Names

EndThen ==
    /\ Returning("then")
    /\ LET x == After(w)
           y == From(Flow(x, Top.join), Top.cond, "f")
           z == IF x.bb # NULL
                  THEN Connect(y, Top.else_, x.bb, "NEXT")
                  ELSE In(y, Top.else_)
       IN  w' = Meet(z, Top.join)
    /\ Return
    /\ UNCHANGED left /\ Targets /\ Names

\* Mutant of EndElse: a branch that has no end is joined too.
EndElseAlways ==
    /\ Returning("else")
    /\ LET x == After(w)
           y == Connect(In(Create(x), Made(x, 1)), Top.then_next, Made(x, 1), "NEXT")
       IN  w' = Meet(Connect(y, x.bb, Made(x, 1), "NEXT"), Top.join)
    /\ Return
    /\ UNCHANGED left /\ Targets /\ Names

EndElse ==
    /\ Returning("else")
    /\ LET x == After(w)
           n == Top.then_next
           y == IF n # NULL /\ x.bb # NULL
                  THEN Connect(Connect(In(Create(x), Made(x, 1)),
                                       n, Made(x, 1), "NEXT"),
                               x.bb, Made(x, 1), "NEXT")
                ELSE IF n # NULL THEN In(x, n)
                ELSE x
       IN  w' = Meet(y, Top.join)
    /\ Return
    /\ UNCHANGED left /\ Targets /\ Names

-----------------------------------------------------------------------------
(* Loops.                                                                  *)

\* handle_while_statement
While(e) ==
    /\ Reading("while")
    /\ \E x \in {Nop(Test(Meet(Nop(w), Node(w) + 1), e))} :
       LET head == Node(w) + 1
           cond == Made(w, 1)
       IN  /\ w' = x
           /\ continue_bb' = Push(continue_bb, cond, head)
           /\ break_bb' = Push(break_bb, Newest(x.g), Node(x))
           /\ Call([k |-> "while", cond |-> cond, else_ |-> Newest(x.g),
                    test |-> x.at[1], head |-> head, out |-> Node(x)])
    /\ mode' = "stmt" /\ Names

EndWhile ==
    /\ Returning("while")
    /\ LET x == Flow(w, Top.head)
           y == IF w.bb # NULL THEN Connect(x, w.bb, Top.cond, "NEXT") ELSE x
       IN  w' = In(Meet(From(y, Top.test, "f"), Top.out), Top.else_)
    /\ Return
    /\ continue_bb' = Drop(continue_bb) /\ break_bb' = Drop(break_bb)
    /\ UNCHANGED left /\ Names

\* for (init; cond; inc).  "none" is a part that is left out.  The increment
\* is read before the body; continue_bb is the block it begins in, Top.inc
\* the one it ends in.
ForTest(x, cond) ==
    IF cond = "none" THEN Insn(x, "true") ELSE Insn(Operand(x, cond), "cond")

\* Mutant of LeaveFor: an endless loop has no way out.
LeaveForNever(c, for_end) ==
    IF c.r.kind[Node(c)] = "true" THEN c ELSE Connect(c, c.bb, for_end, "ELSE")

LeaveFor(c, for_end) == Connect(c, c.bb, for_end, "ELSE")

For(init, cond, inc) ==
    /\ Reading("for")
    /\ \E s \in {IF init = "none" THEN Follow(w) ELSE Insn(Follow(w), "stmt")} :
       LET head == Node(s) + 1
           cond_start == Made(s, 1)
           for_end == Made(s, 2)
           c0 == Meet(Connect(Create(Create(Nop(s))), s.bb, cond_start, "NEXT"),
                      head)
       IN
       \E c \in {ForTest(In(c0, cond_start), cond)} :
       LET again == Node(c) + 1
           out == Node(c) + 2
           inc_ == Made(c, 1)
           i0 == From(In(Create(Nop(Nop(LeaveFor(c, for_end)))), inc_),
                      again, "t")
       IN
       \E i \in {IF inc = "none" THEN i0 ELSE Insn(Operand(i0, inc), "stmt")} :
       LET body_ == Made(i, 1)
           b == Connect(Create(Flow(i, head)), c.bb, body_, "THEN")
       IN  /\ w' = From(In(b, body_), c.at[1], "t")
           /\ break_bb' = Push(break_bb, for_end, out)
           /\ continue_bb' = Push(continue_bb, inc_, again)
           /\ Call([k |-> "for", inc |-> i.bb, cond_start |-> cond_start,
                    for_end |-> for_end, test |-> c.at[1],
                    again |-> again, out |-> out])
    /\ mode' = "stmt" /\ Names

\* The initialisation only adds an instruction: it is there when the increment
\* is.
Headers == {[init |-> "none", inc |-> "none"], [init |-> "atom", inc |-> "atom"]}
           \cup IF "logicinc" \in Uses THEN {[init |-> "none", inc |-> "and"]}
                ELSE {}

\* What the end of this loop shares with the programs left out by Uses: the
\* body never ends and `continue' leads to an empty increment, or nothing
\* leads to the increment at all.
ForFeatures ==
    LET empty == w.g.insn[Top.inc] = <<>>
        continued == w.g.prev[Last(continue_bb).bb] # <<>>
    IN  IF w.bb # NULL \/ (empty = ~continued) THEN {}
        ELSE IF empty THEN {"emptyinc"} ELSE {"deadloop"}

\* The increment leads back to the condition when the body leads to it, or
\* when it is not empty.
EndFor ==
    /\ Returning("for") /\ ForFeatures \subseteq Uses
    /\ LET x == Flow(w, Top.again)
           y == IF w.bb # NULL
                  THEN Connect(Connect(x, w.bb, Top.inc, "NEXT"),
                               Top.inc, Top.cond_start, "NEXT")
                ELSE IF w.g.insn[Top.inc] # <<>>
                  THEN Connect(x, Top.inc, Top.cond_start, "NEXT")
                ELSE x
       IN  w' = In(Meet(From(y, Top.test, "f"), Top.out), Top.for_end)
    /\ Return
    /\ continue_bb' = Drop(continue_bb) /\ break_bb' = Drop(break_bb)
    /\ UNCHANGED left /\ Names

\* do .. while (e)
Do ==
    /\ Reading("do")
    /\ LET head == Nop(Nop(Nop(w)))
           h == Node(w) + 1
           x == Follow(Meet(head, h))
           cond_ == Made(x, 1)
           do_while_end == Made(x, 2)
       IN  /\ w' = Create(Create(x))
           /\ continue_bb' = Push(continue_bb, cond_, h + 1)
           /\ break_bb' = Push(break_bb, do_while_end, h + 2)
           /\ Call([k |-> "do", bb |-> x.bb, cond_ |-> cond_,
                    do_while_end |-> do_while_end, head |-> h])
    /\ mode' = "stmt" /\ Names

\* The condition of the loop, or its end too, cannot be reached.
DoFeatures(e) ==
    IF \/ w.bb # NULL \/ w.g.prev[Top.cond_] # <<>>
       \/ e = "atom" /\ w.g.prev[Top.do_while_end] # <<>>
      THEN {} ELSE {"deadloop"}

\* The loop is closed only if the condition can be reached.
EndDo(e) ==
    /\ Returning("do") /\ DoFeatures(e) \subseteq Uses
    /\ LET h == Top.head
           x == IF w.bb # NULL THEN Connect(w, w.bb, Top.cond_, "NEXT") ELSE w
       IN
       \E c \in {Insn(Operand(In(Meet(x, h + 1), Top.cond_), e), "cond")} :
       LET y == IF c.g.prev[c.bb] # <<>>
                  THEN Connect(Connect(c, c.bb, Top.bb, "THEN"),
                               c.bb, Top.do_while_end, "ELSE")
                  ELSE c
           z == Flow(From(Flow(y, h), c.at[1], "f"), h + 2)
       IN  w' = In(From(z, h + 2, "t"), Top.do_while_end)
    /\ Return
    /\ continue_bb' = Drop(continue_bb) /\ break_bb' = Drop(break_bb)
    /\ UNCHANGED left /\ Names

-----------------------------------------------------------------------------
(* switch.  Top.bb tests the next case, w.bb is the body of the current    *)
(* section (true_body_).                                                   *)

Switch(e) ==
    /\ Reading("switch")
    /\ \E x \in {Nop(Operand(Follow(w), e))} :
       LET switch_end == Made(x, 1)
           y == Nop(Create(Create(x)))
       IN  /\ w' = From(In(y, Made(x, 2)), Node(y), "t")
           /\ break_bb' = Push(break_bb, switch_end, Node(x))
           /\ Call([k |-> "switch", bb |-> x.bb, at |-> x.at,
                    switch_end |-> switch_end, out |-> Node(x),
                    started |-> FALSE, is_default |-> FALSE,
                    control |-> FALSE])
    /\ mode' = "done"
    /\ UNCHANGED continue_bb /\ Names

\* The end of a section: its last block leads to the body of the next one.
Fallthrough(x, f) == IF f.control /\ x.bb # NULL THEN Follow(x) ELSE x

\* A case or default label.  A section before it ends here, and the test of
\* the case before it fails over to this one.
Section(kind) ==
    LET prev == Fallthrough(w, Top)
        test == Made(prev, 1)
        p1 == Connect(Create(prev), Top.bb, test, "ELSE")
        p2 == IF prev.bb = NULL THEN In(Create(p1), Made(p1, 1)) ELSE p1
        x == IF Top.started THEN p2 ELSE w
        bb == IF Top.started THEN test ELSE Top.bb
        n == Nop(x)
        \* x.at falls through to the label; Top.at is where the tests are
        y == [Flow(n, Node(n)) EXCEPT !.at = Top.at]
        c == Insn(In(y, bb), "cond")
        z == IF kind = "case"
               THEN Flow(Connect(c, bb, x.bb, "THEN"), Node(n))
               ELSE Flow(Connect(y, bb, x.bb, "NEXT"), Node(n))
    IN  /\ w' = From(In(z, x.bb), Node(n), "t")
        /\ frames' = Append(Pop,
             [Top EXCEPT !.bb = bb, !.started = TRUE, !.control = FALSE,
                         !.is_default = (kind = "default"),
                         !.at = IF kind = "case" THEN <<c.at[1], "f">>
                                                 ELSE <<Node(n), "f">>])

Label(kind) ==
    /\ Returning("switch") /\ ~Top.is_default /\ left > 0 /\ left' = left - 1
    /\ Section(kind)
    /\ UNCHANGED mode /\ Targets /\ Names

\* "Label default should be the last one"
DefaultNotLast ==
    /\ Returning("switch") /\ Top.is_default /\ left > 0
    /\ mode' = "error"
    /\ UNCHANGED <<w, frames, left>> /\ Targets /\ Names

\* Mutants of CloseTests and AfterSwitch: a missing default leads nowhere; the
\* end is used although nothing leads to it.
CloseNoDefault(x, f) == x
ContinueAfter(x, f) == In(x, f.switch_end)

\* Without a default the last test leads to the end.
CloseTests(x, f) ==
    IF f.started /\ ~f.is_default
      THEN Connect(x, f.bb, f.switch_end, "ELSE") ELSE x
\* No block follows a switch whose end nobody reaches.
AfterSwitch(x, f) ==
    In(x, IF x.g.prev[f.switch_end] = <<>> THEN NULL ELSE f.switch_end)

EndSwitch ==
    /\ Returning("switch")
    /\ Top.started \/ "deadcode" \in Uses
    /\ LET x == CloseTests(Fallthrough(w, Top), Top)
           y == IF x.bb # NULL
                  THEN Connect(x, x.bb, Top.switch_end, "NEXT") ELSE x
           tests == IF Top.is_default THEN y.r ELSE rGoto(y.r, Top.at, Top.out)
           z == Flow([y EXCEPT !.r = tests], Top.out)
       IN  w' = AfterSwitch(From(z, Top.out, "t"), Top)
    /\ Return
    /\ break_bb' = Drop(break_bb)
    /\ UNCHANGED <<left, continue_bb>> /\ Names

-----------------------------------------------------------------------------
(* Jumps.                                                                  *)

Break ==
    /\ Reading("break") /\ break_bb # <<>>
    /\ w' = Dead(In(Connect(w, w.bb, Last(break_bb).bb, "NEXT"), NULL),
                 Last(break_bb).node)
    /\ mode' = "done" /\ frames' = Here
    /\ Targets /\ Names

\* Mutant of Continue: the innermost break target is used.
ContinueBreaks ==
    /\ Reading("continue") /\ continue_bb # <<>>
    /\ w' = Dead(In(Connect(w, w.bb, Last(break_bb).bb, "NEXT"), NULL),
                 Last(continue_bb).node)
    /\ mode' = "done" /\ frames' = Here
    /\ Targets /\ Names

Continue ==
    /\ Reading("continue") /\ continue_bb # <<>>
    /\ w' = Dead(In(Connect(w, w.bb, Last(continue_bb).bb, "NEXT"), NULL),
                 Last(continue_bb).node)
    /\ mode' = "done" /\ frames' = Here
    /\ Targets /\ Names

\* handle_return_statement
ReturnStatement(e) ==
    /\ Reading("return")
    /\ \E v \in Values(w, e) :
         LET x == Insn(v, "stmt")
         IN  w' = Dead(In(Connect(x, x.bb, exit, "NEXT"), NULL), rExit)
    /\ mode' = "done" /\ frames' = Here
    /\ Targets /\ Names

\* The node of a label, known before the label is.
rLabel(l) == 2 + (CHOOSE f \in [Labels -> 1..MaxStmts] :
                    \A a, b \in Labels : f[a] = f[b] => a = b)[l]

\* handle_goto_statement: an if (1) around the jump.
Goto(l) ==
    /\ Reading("goto")
    /\ LET x == Insn(Follow(w), "true")
           then_ == Made(x, 1)
           else_ == Made(x, 2)
           y == Connect(Connect(Create(Create(x)), x.bb, then_, "THEN"),
                        x.bb, else_, "ELSE")
           jump == Flow(Insn(In(y, then_), "stmt"), rLabel(l))
       IN  /\ w' = From(In(IF labels[l] = NULL THEN jump
                           ELSE Connect(jump, then_, labels[l], "NEXT"),
                           else_), x.at[1], "f")
           /\ backpatch' = IF labels[l] # NULL THEN backpatch
                           ELSE Append(backpatch, [bb |-> then_, label |-> l])
    /\ mode' = "done" /\ frames' = Here
    /\ UNCHANGED labels /\ Targets

\* 'l:'
Labelled(l) ==
    /\ Reading("label") /\ labels[l] = NULL
    /\ LET x == Follow(w)
       IN  /\ w' = Insn(Meet(x, rLabel(l)), "stmt")
           /\ labels' = [labels EXCEPT ![l] = x.bb]
    /\ mode' = "done" /\ frames' = Here
    /\ UNCHANGED backpatch /\ Targets

-----------------------------------------------------------------------------
(* read_func_body: the whole function.                                     *)

Start ==
    [g |-> bb_create(bb_create(NoBlocks)), bb |-> entry,
     r |-> [kind |-> [i \in 1..(2 + MaxStmts) |-> "nop"],
            t |-> [i \in 1..(2 + MaxStmts) |-> 0],
            f |-> [i \in 1..(2 + MaxStmts) |-> 0]],
     at |-> <<rEntry, "t">>]

\* The backpatched gotos, in the order they were read.
Patched(x) ==
    LET P[i \in 0..Len(backpatch)] ==
          IF i = 0 THEN x
          ELSE Connect(P[i - 1], backpatch[i].bb, labels[backpatch[i].label],
                       "NEXT")
    IN  P[Len(backpatch)]

\* The last '}' of the function.
EndFunction ==
    /\ Returning("block") /\ Len(frames) = 1
    /\ IF \E i \in 1..Len(backpatch) : labels[backpatch[i].label] = NULL
         THEN mode' = "error" /\ UNCHANGED w
         ELSE /\ mode' = "end"
              /\ w' = Patched(Flow(IF w.bb = NULL THEN w
                                   ELSE Connect(w, w.bb, exit, "NEXT"), rExit))
    /\ UNCHANGED <<frames, left>> /\ Targets /\ Names

Begin ==
    /\ w = Start /\ frames = <<[k |-> "block"]>> /\ mode = "done"
    /\ break_bb = <<>> /\ continue_bb = <<>>
    /\ labels = [l \in Labels |-> NULL] /\ backpatch = <<>>
    /\ left = MaxStmts

\* The program is outside the class this instance is about.
Skip ==
    /\ \/ Returning("for") /\ ~(ForFeatures \subseteq Uses)
       \/ Returning("do") /\ ~(DoFeatures("atom") \subseteq Uses)
       \/ Returning("switch") /\ ~Top.started
    /\ mode' = "skip"
    /\ UNCHANGED <<w, frames, left>> /\ Targets /\ Names

\* The next function, or the next run of the compiler.
NextFunction ==
    /\ mode \in {"end", "error", "skip"} \/ w.g.aborted
    /\ w' = Start /\ frames' = <<[k |-> "block"]>> /\ mode' = "done"
    /\ break_bb' = <<>> /\ continue_bb' = <<>>
    /\ labels' = [l \in Labels |-> NULL] /\ backpatch' = <<>>
    /\ left' = MaxStmts

Init == Begin /\ language \in Languages

Statement ==
    \/ EmptyStatement \/ OpenBlock \/ CloseBlock
    \/ \E e \in Exprs : Expression(e) \/ ReturnStatement(e)
    \/ \E e \in Conditions : If(e) \/ While(e) \/ EndDo(e) \/ Switch(e)
    \/ Else \/ EndThen \/ EndElse \/ EndWhile \/ Do \/ EndFor
    \/ \E cond \in Conditions \cup {"none"}, h \in Headers :
         For(h.init, cond, h.inc)
    \/ Label("case") \/ Label("default") \/ DefaultNotLast \/ EndSwitch
    \/ Break \/ Continue
    \/ \E l \in Labels : Goto(l) \/ Labelled(l)
    \/ EndFunction \/ Skip \/ NextFunction

Next == Statement /\ UNCHANGED language

Spec == Init /\ [][Next]_vars

-----------------------------------------------------------------------------
(* Properties of the finished graph.                                       *)

Reachable == ReachableFrom(w.g, {entry})

\* The node that really follows node n of the prescribed flow.
rFirst(n) ==
    LET F[k \in Nat] ==
          [m \in 0..Node(w) |->
             IF m = 0 \/ k = 0 THEN 0
             ELSE IF m = rExit THEN -1
             ELSE IF w.r.kind[m] # "nop" THEN m
             ELSE F[k - 1][w.r.t[m]]]
    IN  F[Node(w) + 1][n]
rSuccs(n) == IF w.r.kind[n] = "cond" THEN {rFirst(w.r.t[n]), rFirst(w.r.f[n])}
             ELSE {rFirst(w.r.t[n])}
rReachable ==
    LET R[k \in Nat] ==
          IF k = 0 THEN {rFirst(rEntry)}
          ELSE LET B == R[k - 1] IN B \cup UNION {rSuccs(n) : n \in B \ {0, -1}}
    IN  R[Node(w)] \ {0, -1}

\* The instruction the graph executes after instruction i of block b.
After1(b, i) == IF i < Len(w.g.insn[b]) THEN w.g.insn[b][i + 1].id
                ELSE IF Branches(w.g, b) THEN FirstInsn(w.g, w.g.then_[b], exit)
                ELSE FirstInsn(w.g, w.g.next[b], exit)

\* The graph of a finished function executes what the statements say: from
\* every instruction that can be reached, and for either outcome of a
\* condition, the next instruction is the one the language prescribes.
FlowPreserved ==
    mode = "end" =>
      LET reach == Reachable IN
      /\ FirstInsn(w.g, entry, exit) = rFirst(rEntry)
      /\ \A n \in rReachable : \E b \in reach :
           \E i \in 1..Len(w.g.insn[b]) :
             /\ w.g.insn[b][i].id = n
             /\ After1(b, i) = rFirst(w.r.t[n])
             /\ w.r.kind[n] = "cond" =>
                  /\ i = Len(w.g.insn[b])
                  /\ FirstInsn(w.g, w.g.else_[b], exit) = rFirst(w.r.f[n])

PointerOf(p, type) == IF type = "NEXT" THEN w.g.next[p]
                      ELSE IF type = "THEN" THEN w.g.then_[p] ELSE w.g.else_[p]

\* What the later passes take for granted of a finished graph: a block that
\* ends in a branch has both branches and no other successor, any other block
\* but the exit has exactly one; and prev[] lists exactly the connections,
\* "The pred-succ pair must have only one connection".
WellFormed ==
    mode = "end" =>
      \A b \in Reachable :
        /\ IF Branches(w.g, b)
             THEN w.g.then_[b] # NULL /\ w.g.else_[b] # NULL /\ w.g.next[b] = NULL
             ELSE /\ w.g.then_[b] = NULL /\ w.g.else_[b] = NULL
                  /\ (w.g.next[b] = NULL) = (b = exit)
        /\ \A i \in 1..Len(w.g.prev[b]) :
             LET c == w.g.prev[b][i]
             IN  /\ PointerOf(c.bb, c.type) = b
                 /\ \A j \in 1..Len(w.g.prev[b]) :
                      w.g.prev[b][j].bb = c.bb => i = j

\* A predecessor that cannot be reached has no place in the dominator tree:
\* the graph of a finished function has none.
PredsReachable ==
    mode = "end" =>
      LET reach == Reachable IN
      \A b \in reach : \A i \in 1..Len(w.g.prev[b]) :
        w.g.prev[b][i].bb \in reach

\* The post-dominator tree hangs on the exit: build_r_idom() gives a block from
\* which the exit cannot be reached no parent, and bb_build_rdf() follows the
\* parents of the successors.  Even the endless loops of a finished function
\* have a way out.
ExitReachable ==
    mode = "end" =>
      \A b \in Reachable : exit \in ReachableFrom(w.g, {b})

\* No sequence of statements makes the parser connect a block that does not
\* exist or open a scope in one.
NeverAborts == ~w.g.aborted
=============================================================================
