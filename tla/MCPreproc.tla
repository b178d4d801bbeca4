----------------------------- MODULE MCPreproc -----------------------------
(* Instances of Preproc for TLC. *)
EXTENDS Preproc

D(op, name, tks) == Line(op, name, tks)
Bare(op) == Line(op, "", << >>)

TheConds == {D("ifdef", "A", << >>), D("if", "", <<"0">>), D("elif", "", <<"A">>),
             Bare("else"), Bare("endif"), Text(<< >>)}
TheDirectives ==
    TheConds \cup {D("define", "A", tks) : tks \in {<<"1">>, <<"B">>, << >>}} \cup
    {D("if", "", <<"A">>), D("define", "B", <<"A">>), D("undef", "A", << >>),
     D("ifndef", "A", << >>), D("elif", "", <<"defined", "A">>)} \cup
    {D("include", h, << >>) : h \in {"once", "guard", "open", "closed", "silent"}}

TheHeaders ==
    [once |-> <<Bare("once"), D("define", "A", <<"0">>), Text(<<"once", "A">>)>>,
     guard |-> <<D("ifndef", "G", << >>), D("define", "G", <<"1">>),
                 D("include", "guard", << >>), D("define", "A", <<"G">>),
                 Bare("endif")>>,
     open |-> <<D("ifdef", "A", << >>), Text(<<"open">>)>>,
     closed |-> <<Text(<<"closed">>), Bare("endif")>>,
     silent |-> <<D("define", "A", <<"3">>)>>]

Operands == {<<"0">>, <<"1">>, <<"2">>, <<"A">>, <<"B">>, <<"-", "1">>,
             <<"(", "A", ")">>}
Operators == {<<"+">>, <<"-">>, <<"*">>, <<"<">>, <<"==">>, <<"&&">>, <<"||">>}
Pairs == {x \o o \o y : x \in Operands, o \in Operators, y \in Operands}
TheExpressions ==
    Operands \cup Pairs \cup {e \o o \o z : e \in Pairs, o \in Operators,
                                            z \in Operands}
TheBodies == {<<"2">>, <<"1", "+", "1">>}
=============================================================================
