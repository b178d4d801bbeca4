------------------------------ MODULE Preproc ------------------------------
(***************************************************************************)
(* The preprocessor (src/src/preprocessor.c): conditional inclusion, the   *)
(* definition and expansion of object-like macros, constant expressions,   *)
(* #include and #pragma once.  One step is one line of a file; a line is a *)
(* directive or text, and its tokens are strings.  The loop that skips a   *)
(* group and the two that evaluate and expand are operators.               *)
(*                                                                         *)
(* It is compared with C: a group is kept if its condition is the first of *)
(* its chain that holds and all around it is kept, an expression has the   *)
(* value its operators' precedence gives it, and a macro is replaced until *)
(* nothing is left but names it came from.                                 *)
(***************************************************************************)
EXTENDS Integers, SequencesExt, TLC

CONSTANTS
    Directives, \* lines a program may have
    MaxLines,   \* how many of them
    Conds,      \* conditional ones
    MaxConds,   \* how many if there are no others
    Bodies,     \* replacements of the macro A in
    Expressions,\* a condition
    Headers,    \* the lines of the headers by name
    Includes    \* features that go wrong, see Unlike

VARIABLES
    main,       \* the file compiled
    files,      \* the files being read, the innermost last
    MACROS,     \* macros by name
    PRAGMA_ONCE,
    out,        \* tokens of the result, newlines left out
    status      \* "run", "done"; "abort": error_at(); "hang"; "dangling":
                \* the result is linked to a local of a call that is over

vars == <<main, files, MACROS, PRAGMA_ONCE, out, status>>

-----------------------------------------------------------------------------
(* Lines.                                                                  *)

Line(op, name, tks) == [op |-> op, name |-> name, tks |-> tks]
Text(tks) == Line("text", "", tks)
Conditionals == {"if", "ifdef", "ifndef"}

Binary == {"+", "-", "*", "/", "%", "<<", ">>", "&", "|", "^", "&&", "||",
           "==", "!=", "<", "<=", ">", ">=", "?"}
Numeric == "0" :> 0 @@ "1" :> 1 @@ "2" :> 2 @@ "3" :> 3
Bool(p) == IF p THEN 1 ELSE 0

\* pp_read_constant_infix_expr(), the switch on the operator; what the
\* operator is of is left to C.
Apply(op, x, y) ==
    CASE op = "+" -> x + y
      [] op = "-" -> x - y
      [] op = "*" -> x * y
      [] op = "==" -> Bool(x = y)
      [] op = "!=" -> Bool(x # y)
      [] op = "<" -> Bool(x < y)
      [] op = "<=" -> Bool(x <= y)
      [] op = ">" -> Bool(x > y)
      [] op = ">=" -> Bool(x >= y)
      [] op = "&&" -> Bool(x # 0 /\ y # 0)
      [] op = "||" -> Bool(x # 0 \/ y # 0)

-----------------------------------------------------------------------------
(* Macros.                                                                 *)

is_macro_defined(macros, name) ==
    name \in DOMAIN macros /\ ~macros[name].is_disabled

\* The replacement of a macro by pp_preprocess_internal(), which calls itself
\* for it: hide holds the macros it is called for.
RECURSIVE Expand(_, _, _)
Expand(macros, tks, hide) ==
    IF tks = << >> THEN << >>
    ELSE LET t == Head(tks)
         IN  (IF t \notin hide /\ is_macro_defined(macros, t)
              THEN Expand(macros, macros[t].replacement, hide \cup {t}) ELSE <<t>>)
             \o Expand(macros, Tail(tks), hide)

\* A call that yields no token returns the uninitialized head.next and leaves
\* cur on its own frame.
RECURSIVE Empty(_, _, _)
Empty(macros, tks, hide) ==
    \E k \in DOMAIN tks :
       /\ tks[k] \notin hide /\ is_macro_defined(macros, tks[k])
       /\ \/ macros[tks[k]].replacement = << >>
          \/ Empty(macros, macros[tks[k]].replacement, hide \cup {tks[k]})

-----------------------------------------------------------------------------
(* Constant expressions.  They are read from the list e behind the first k *)
(* tokens; val is the value, k the place behind it, bad what goes wrong.   *)

Read(e, k, val) == [e |-> e, k |-> k, val |-> val, bad |-> ""]
Bad(why) == [e |-> << >>, k |-> 0, val |-> 0, bad |-> why]
Peek(e, k) == IF k < Len(e) THEN e[k + 1] ELSE "\n"

\* pp_get_operator_prio(), 0 for what it does not know
pp_get_operator_prio(op) ==
    CASE op = "?" -> 3
      [] op = "||" -> 4
      [] op = "&&" -> 5
      [] op = "|" -> 6
      [] op = "^" -> 7
      [] op = "&" -> 8
      [] op \in {"==", "!="} -> 9
      [] op \in {"<", "<=", ">", ">="} -> 10
      [] op \in {"+", "-"} -> 12
      [] op \in {"*", "/", "%"} -> 13
      [] OTHER -> 0

\* The operator, or "" and no progress if there is none.
pp_get_operator(e, k) ==
    IF Peek(e, k) \in Binary THEN [op |-> Peek(e, k), k |-> k + 1]
    ELSE [op |-> "", k |-> k]

\* A name is replaced by the tokens of its macro, disabled or not, and read
\* again; fuel runs out when this does not end.
RECURSIVE Operand(_, _, _, _)
Operand(macros, e, k, fuel) ==
    LET t == Peek(e, k)
    IN  CASE t \in DOMAIN Numeric -> Read(e, k + 1, Numeric[t])
          [] t = "(" ->
                 LET r == Operand(macros, e, k + 1, fuel)
                 IN  IF r.bad # "" THEN r
                     ELSE IF Peek(r.e, r.k) # ")" THEN Bad("abort")
                     ELSE [r EXCEPT !.k = @ + 1]
          [] t = "defined" ->         \* and the name in parentheses
                 Read(e, k + 2, Bool(is_macro_defined(macros, e[k + 2])))
          [] t \in Binary \cup {")", "\n"} -> Bad("abort")
          [] OTHER ->
                 IF t \notin DOMAIN macros THEN Read(e, k + 1, 0)
                 ELSE IF fuel = 0 THEN Bad("hang")
                 ELSE IF \/ macros[t].replacement = << >>
                         \/ Empty(macros, macros[t].replacement, {})
                 THEN Bad("dangling")
                 ELSE Operand(macros,
                              SubSeq(e, 1, k + 1)
                              \o Expand(macros, macros[t].replacement, {})
                              \o SubSeq(e, k + 2, Len(e)),
                              k + 1, fuel - 1)

RECURSIVE Infix(_, _, _, _), InfixRest(_, _, _)
Infix(macros, precedence, e, k) ==
    LET o == pp_get_operator(e, k)
        unary == IF o.op \in {"+", "-"} THEN 14 ELSE 0
        first == IF unary # 0 /\ unary >= precedence
                 THEN LET r == Infix(macros, unary, e, o.k)
                      IN  IF o.op = "-" THEN [r EXCEPT !.val = -@] ELSE r
                 ELSE Operand(macros, e, o.k, 1 + Cardinality(DOMAIN macros))
    IN  InfixRest(macros, precedence, first)

\* The loop; each round ends with a call of pp_get_operator() as it began.
InfixRest(macros, precedence, lhs) ==
    LET o == pp_get_operator(lhs.e, lhs.k)
        prio == pp_get_operator_prio(o.op)
        rhs == Infix(macros, prio, lhs.e, o.k)
        more == pp_get_operator(rhs.e, rhs.k)
    IN  IF lhs.bad # "" THEN lhs
        ELSE IF prio = 0 \/ prio <= precedence THEN [lhs EXCEPT !.k = o.k]
        ELSE IF rhs.bad # "" THEN rhs
        ELSE IF o.op \in {"?", "%"} THEN Bad("abort")
        ELSE InfixRest(macros, precedence,
                       [rhs EXCEPT !.val = Apply(o.op, lhs.val, @), !.k = more.k])

pp_read_constant_expr(macros, e) == Infix(macros, 0, e, 0)

-----------------------------------------------------------------------------
(* Skipping a group, from line k on.                                       *)

RECURSIVE pp_skip_inner_cond_incl(_, _)
pp_skip_inner_cond_incl(lines, k) ==
    IF k > Len(lines) THEN k
    ELSE IF lines[k].op \in Conditionals
    THEN pp_skip_inner_cond_incl(lines, pp_skip_inner_cond_incl(lines, k + 1))
    ELSE IF lines[k].op = "endif" THEN k + 1
    ELSE pp_skip_inner_cond_incl(lines, k + 1)

\* A conditional in the group is passed by the call above, which begins on it.
RECURSIVE pp_skip_cond_incl(_, _)
pp_skip_cond_incl(lines, k) ==
    IF k > Len(lines) \/ lines[k].op \in {"elif", "else", "endif"} THEN k
    ELSE IF lines[k].op \in Conditionals
    THEN pp_skip_cond_incl(lines, pp_skip_inner_cond_incl(lines, k))
    ELSE pp_skip_cond_incl(lines, k + 1)

-----------------------------------------------------------------------------
(* pp_preprocess_internal() over a file.  ci is the stack of conditionals   *)
(* of one file, the innermost last; any tells whether the call has produced *)
(* a token, a newline included.                                             *)

File(name) == [name |-> name, at |-> 1, ci |-> << >>, any |-> FALSE]
Cond(ctx, included) == [ctx |-> ctx, included |-> included]

Top == Last(files)
Lines == IF Top.name = "main" THEN main ELSE Headers[Top.name]
Here == Lines[Top.at]
At(op) == status = "run" /\ Top.at <= Len(Lines) /\ Here.op = op

\* On to line k with the stack ci; any as this step produces a token or not.
Goto(k, ci, any) ==
    files' = Append(Front(files), [Top EXCEPT !.at = k, !.ci = ci,
                                              !.any = @ \/ any])
Skip == pp_skip_cond_incl(Lines, Top.at + 1)
Fail(why) == status' = why /\ UNCHANGED <<main, files, MACROS, PRAGMA_ONCE, out>>

\* Tokens that are not part of a directive.
Emit(tks) ==
    IF Empty(MACROS, tks, {})
    THEN status' = "dangling" /\ UNCHANGED out
    ELSE out' = out \o Expand(MACROS, tks, {}) /\ UNCHANGED status

TextLine ==
    /\ At("text")
    /\ Emit(Here.tks)
    /\ Goto(Top.at + 1, Top.ci, TRUE)
    /\ UNCHANGED <<main, MACROS, PRAGMA_ONCE>>

\* The newline is consumed.
Define ==
    /\ At("define")
    /\ MACROS' = (Here.name :> [replacement |-> Here.tks, is_disabled |-> FALSE])
                 @@ MACROS
    /\ Goto(Top.at + 1, Top.ci, FALSE)
    /\ UNCHANGED <<main, PRAGMA_ONCE, out, status>>

Undef ==
    /\ At("undef")
    /\ MACROS' = IF Here.name \in DOMAIN MACROS
                 THEN [MACROS EXCEPT ![Here.name].is_disabled = TRUE] ELSE MACROS
    /\ Goto(Top.at + 1, Top.ci, TRUE)
    /\ UNCHANGED <<main, PRAGMA_ONCE, out, status>>

\* The rest of the line behind an expression is text when the group is kept.
Rest(r) == SubSeq(r.e, r.k + 1, Len(r.e))

If ==
    /\ At("if")
    /\ LET r == pp_read_constant_expr(MACROS, Here.tks)
           ci == Append(Top.ci, Cond("if", r.val # 0))
       IN  IF r.bad # "" THEN Fail(r.bad)
           ELSE /\ IF r.val # 0
                   THEN Emit(Rest(r)) /\ Goto(Top.at + 1, ci, TRUE)
                   ELSE Goto(Skip, ci, FALSE) /\ UNCHANGED <<out, status>>
                /\ UNCHANGED <<main, MACROS, PRAGMA_ONCE>>

\* #ifdef and #ifndef
Ifdef ==
    /\ At("ifdef") \/ At("ifndef")
    /\ LET included == is_macro_defined(MACROS, Here.name) = (Here.op = "ifdef")
           ci == Append(Top.ci, Cond("if", included))
       IN  IF included THEN Goto(Top.at + 1, ci, TRUE) ELSE Goto(Skip, ci, FALSE)
    /\ UNCHANGED <<main, MACROS, PRAGMA_ONCE, out, status>>

\* The group of an #elif is kept if none before was; in the mutant whenever
\* its condition holds.
TakesAnyway(cond, val) == val # 0
Takes(cond, val) == ~cond.included /\ val # 0

\* In the mutant the #else of a chain with an #elif is one.
StrayAfterElif == Top.ci = << >> \/ Last(Top.ci).ctx # "if"
Stray == Top.ci = << >> \/ Last(Top.ci).ctx = "else"

Elif ==
    /\ At("elif")
    /\ LET r == pp_read_constant_expr(MACROS, Here.tks)
           take == Takes(Last(Top.ci), r.val)
           ci == Append(Front(Top.ci), Cond("elif", take \/ Last(Top.ci).included))
       IN  IF Stray THEN Fail("abort")
           ELSE IF r.bad # "" THEN Fail(r.bad)
           ELSE /\ IF take
                   THEN Emit(Rest(r)) /\ Goto(Top.at + 1, ci, TRUE)
                   ELSE Goto(Skip, ci, FALSE) /\ UNCHANGED <<out, status>>
                /\ UNCHANGED <<main, MACROS, PRAGMA_ONCE>>

Else ==
    /\ At("else")
    /\ IF Stray THEN Fail("abort")
       ELSE /\ LET included == Last(Top.ci).included
                   ci == Append(Front(Top.ci), Cond("else", included))
               IN  IF included THEN Goto(Skip, ci, FALSE)
                   ELSE Goto(Top.at + 1, ci, TRUE)
            /\ UNCHANGED <<main, MACROS, PRAGMA_ONCE, out, status>>

Endif ==
    /\ At("endif")
    /\ IF Top.ci = << >> THEN Fail("abort")
       ELSE /\ Goto(Top.at + 1, Front(Top.ci), TRUE)
            /\ UNCHANGED <<main, MACROS, PRAGMA_ONCE, out, status>>

\* The newline is consumed, then the file is read.
Include ==
    /\ At("include")
    /\ LET after == [Top EXCEPT !.at = @ + 1]
       IN  files' = Append(Front(files), after)
                    \o (IF Here.name \in PRAGMA_ONCE THEN << >>
                        ELSE <<File(Here.name)>>)
    /\ UNCHANGED <<main, MACROS, PRAGMA_ONCE, out, status>>

\* #pragma once
Pragma ==
    /\ At("once")
    /\ PRAGMA_ONCE' = PRAGMA_ONCE \cup {Top.name}
    /\ Goto(Top.at + 1, Top.ci, TRUE)
    /\ UNCHANGED <<main, MACROS, out, status>>

\* The call returns to the file that includes this one, whose list goes on
\* with what it produced.
EndFile ==
    /\ status = "run" /\ Top.at > Len(Lines)
    /\ IF Top.ci # << >> THEN Fail("abort")
       ELSE /\ IF Len(files) = 1 THEN status' = "done" /\ UNCHANGED files
               ELSE IF ~Top.any THEN status' = "dangling" /\ UNCHANGED files
               ELSE /\ LET outer == Front(files)
                       IN  files' = Append(Front(outer),
                                           [Last(outer) EXCEPT !.any = TRUE])
                    /\ UNCHANGED status
            /\ UNCHANGED <<main, MACROS, PRAGMA_ONCE, out>>

Stop == status # "run" /\ UNCHANGED vars

-----------------------------------------------------------------------------
(* What C says of a program.                                               *)

\* The tokens with the names each came from; the first that can be replaced
\* is, until none can.
RECURSIVE Rescan(_, _)
Rescan(macros, ts) ==
    LET able == {k \in DOMAIN ts : /\ ts[k].t \in DOMAIN macros
                                   /\ ts[k].t \notin ts[k].from}
        k == Min(able)
        from == ts[k].from \cup {ts[k].t}
        new == [j \in DOMAIN macros[ts[k].t] |->
                  [t |-> macros[ts[k].t][j], from |-> from]]
    IN  IF able = {} THEN [j \in DOMAIN ts |-> ts[j].t]
        ELSE Rescan(macros, SubSeq(ts, 1, k - 1) \o new
                            \o SubSeq(ts, k + 1, Len(ts)))
Replaced(macros, tks) ==
    Rescan(macros, [k \in DOMAIN tks |-> [t |-> tks[k], from |-> {}]])

\* Nothing but operands and operators: the last operator of the lowest
\* precedence is evaluated last.  Parentheses hold one operand.
RECURSIVE Value(_)
Value(e) ==
    LET binary == {k \in 2..(Len(e) - 1) : e[k] \in Binary
                                           /\ e[k - 1] \notin Binary}
        lowest == {k \in binary : \A j \in binary :
                     pp_get_operator_prio(e[k]) <= pp_get_operator_prio(e[j])}
        k == Max(lowest)
    IN  IF e = << >> THEN 0
        ELSE IF binary # {} THEN Apply(e[k], Value(SubSeq(e, 1, k - 1)),
                                       Value(SubSeq(e, k + 1, Len(e))))
        ELSE CASE e[1] = "-" -> -Value(Tail(e))
               [] e[1] = "+" -> Value(Tail(e))
               [] e[1] = "(" -> Value(SubSeq(e, 2, Len(e) - 1))
               [] e[1] \in DOMAIN Numeric -> Numeric[e[1]]
               [] OTHER -> 0

\* A condition as C replaces it; the operand of defined is not replaced.
Condition(macros, line) ==
    IF line.tks[1] = "defined"
    THEN <<IF line.tks[2] \in DOMAIN macros THEN "1" ELSE "0">>
    ELSE Replaced(macros, line.tks)
Holds(macros, line) ==
    CASE line.op = "ifdef" -> line.name \in DOMAIN macros
      [] line.op = "ifndef" -> line.name \notin DOMAIN macros
      [] OTHER -> Value(Condition(macros, line)) # 0

\* Each operator binds tighter than the one before it.
Rising(e) ==
    LET ops == {k \in DOMAIN e : e[k] \in Binary}
        prio(k) == IF k = 1 THEN 14
                   ELSE IF e[k - 1] \in Binary THEN 14
                   ELSE pp_get_operator_prio(e[k])
    IN  \A j, k \in ops : j < k => prio(j) < prio(k)

\* More than one operand in parentheses.
Bracketed(e) == \E k \in DOMAIN e : e[k] = "(" /\ (k + 1 = Len(e) \/ e[k + 2] # ")")

\* What the program uses that the preprocessor is known to get wrong, here at
\* line l with s as below: a conditional in a group that is left out; in a
\* condition, operators that do not rise in precedence, parentheses around more
\* than an operand, a macro that was undefined, or one that leads back to
\* itself; a macro without replacement; a header that leaves nothing, not even
\* a newline.
Unlike(s, l, kept) ==
    (IF ~kept /\ l.op \in Conditionals THEN {"nested"} ELSE {})
    \cup
    (IF ~kept \/ l.op \notin {"if", "elif"} THEN {}
     ELSE LET e == Condition(s.macros, l)
          IN  (IF Rising(e) THEN {} ELSE {"chain"})
              \cup (IF Bracketed(e) THEN {"bracketed"} ELSE {})
              \cup (IF Range(l.tks) \cap s.gone = {} THEN {} ELSE {"undefined"})
              \cup (IF Range(e) \cap DOMAIN s.macros = {} THEN {} ELSE {"self"}))
    \cup (IF l.op = "define" /\ l.tks = << >> THEN {"empty"} ELSE {})
    \cup (IF /\ l.op = "include"
             /\ \A k \in DOMAIN Headers[l.name] :
                  Headers[l.name][k].op \in {"define", "include"}
          THEN {"silent"} ELSE {})

\* Every line in turn, kept or not.  conds: whether the group is kept,
\* whether a group of the chain has been, whether #else has come.
Kept(conds) == \A k \in DOMAIN conds : conds[k].now
Group(now, seen, else0) == [now |-> now, seen |-> seen, else0 |-> else0]

RECURSIVE C(_, _, _)
\* A line of a group that is kept.
Done(s, name, l) ==
    CASE l.op = "text" -> [s EXCEPT !.out = @ \o Replaced(s.macros, l.tks)]
      [] l.op = "define" -> [s EXCEPT !.macros = (l.name :> l.tks) @@ @,
                                      !.gone = @ \ {l.name}]
      [] l.op = "undef" ->
             [s EXCEPT !.macros = [n \in DOMAIN @ \ {l.name} |-> @[n]],
                       !.gone = @ \cup {l.name}]
      [] l.op = "once" -> [s EXCEPT !.once = @ \cup {name}]
      [] l.op = "include" ->
             IF l.name \in s.once THEN s
             ELSE [C([s EXCEPT !.conds = << >>], l.name, Headers[l.name])
                     EXCEPT !.conds = s.conds]

\* A directive that ends a group.
Turned(s, l) ==
    LET c == Last(s.conds)
        outer == Front(s.conds)
        on == Kept(outer) /\ ~c.seen /\ Holds(s.macros, l)
    IN  IF s.conds = << >> \/ (l.op # "endif" /\ c.else0) THEN [s EXCEPT !.ok = FALSE]
        ELSE [s EXCEPT !.conds =
                CASE l.op = "elif" -> Append(outer, Group(on, c.seen \/ on, FALSE))
                  [] l.op = "else" -> Append(outer, Group(~c.seen, TRUE, TRUE))
                  [] l.op = "endif" -> outer]

C(s, name, lines) ==
    IF lines = << >> THEN [s EXCEPT !.ok = s.conds = << >>]
    ELSE LET l == Head(lines)
             around == IF l.op = "elif" /\ s.conds # << >> THEN Front(s.conds)
                       ELSE s.conds
             s0 == [s EXCEPT !.unlike = @ \cup Unlike(s, l, Kept(around))]
             holds == Kept(s.conds) /\ Holds(s.macros, l)
             next == IF l.op \in Conditionals
                     THEN [s0 EXCEPT !.conds = Append(@, Group(holds, holds, FALSE))]
                     ELSE IF l.op \in {"elif", "else", "endif"} THEN Turned(s0, l)
                     ELSE IF Kept(s.conds) THEN Done(s0, name, l)
                     ELSE s0
         IN  IF next.ok THEN C(next, name, Tail(lines)) ELSE next

Meant(lines) ==
    C([macros |-> << >>, gone |-> {}, once |-> {}, out |-> << >>,
       conds |-> << >>, ok |-> TRUE, unlike |-> {}], "main", lines)

-----------------------------------------------------------------------------
\* Text behind every line shows which groups are kept and what A stands for.
Marked(ds) ==
    FoldLeft(LAMBDA s, k : s \o <<ds[k], Text(<<ToString(k), "A">>)>>,
             << >>, [k \in DOMAIN ds |-> k])

Init ==
    /\ \/ \E ds \in [1..MaxLines -> Directives] : main = Marked(ds)
       \/ \E ds \in [1..MaxConds -> Conds] : main = Marked(ds)
       \/ \E a \in Bodies, e \in Expressions :
            main = <<Line("define", "A", a)>> \o
                   Marked(<<Line("if", "", e), Line("else", "", << >>),
                            Line("endif", "", << >>)>>)
    /\ Meant(main).unlike \subseteq Includes
    /\ files = <<File("main")>>
    /\ MACROS = << >> /\ PRAGMA_ONCE = {} /\ out = << >> /\ status = "run"

Next == \/ TextLine \/ Define \/ Undef \/ If \/ Ifdef \/ Elif \/ Else \/ Endif
        \/ Include \/ Pragma \/ EndFile \/ Stop

Spec == Init /\ [][Next]_vars

-----------------------------------------------------------------------------
(* Properties.                                                             *)

\* The compiler is given the text C gives it: the groups #if, #elif and #else
\* select through all nesting and all files, with the macros as they are
\* defined at each line, and nothing of a condition.
SameText ==
    /\ status # "dangling"
    /\ status = "done" => Meant(main).ok /\ out = Meant(main).out

\* Only a program whose conditionals do not match, in some file, is refused,
\* and none sends the preprocessor round and round.
Refused == status \in {"abort", "hang"} => ~Meant(main).ok
=============================================================================
