------------------------------- MODULE Flow --------------------------------
(***************************************************************************)
(* What a program of phase-2 code promises about the order in which its    *)
(* instructions are executed, whatever the machine: they follow each       *)
(* other, a branch goes where its condition says, a call comes back to     *)
(* what follows it.  The code is the list PH2_IR_FLATTEN with a label      *)
(* where a block begins.                                                   *)
(***************************************************************************)
EXTENDS SequencesExt

VARIABLES
    flat,       \* the code
    at,         \* index of the instruction that is executed
    frames,     \* the instructions calls come back to, the innermost first
    cond        \* the register the branches test, which may change any time

\* From k on, the first instruction that is not a label.
Next0(k) == CHOOSE j \in k..Len(flat) :
              flat[j].op # "label" /\ \A l \in k..(j - 1) : flat[l].op = "label"
Block(bb) == Next0(CHOOSE j \in DOMAIN flat : flat[j].op = "label" /\ flat[j].to = bb)

Defined == {flat[j].to : j \in {j \in DOMAIN flat : flat[j].op = "label"}}
Calls == {"call", "indirect", "main"}
Insn == flat[at]

Straight ==
    /\ Insn.op \notin Calls \cup {"start", "branch", "jump", "return", "exit"}
    /\ at' = Next0(at + 1)
    /\ UNCHANGED <<flat, frames>>

\* The start runs the initialization of the globals.
Jump ==
    /\ Insn.op \in {"start", "jump"}
    /\ at' = Block(Insn.to)
    /\ UNCHANGED <<flat, frames>>

Branch ==
    /\ Insn.op = "branch"
    /\ at' = Block(IF cond # 0 THEN Insn.to ELSE Insn.else_bb)
    /\ UNCHANGED <<flat, frames>>

Call ==
    /\ Insn.op \in Calls /\ Insn.to \in Defined
    /\ at' = Block(Insn.to)
    /\ frames' = <<Next0(at + 1)>> \o frames
    /\ UNCHANGED flat

\* A function of the C library.
Extern ==
    /\ Insn.op \in Calls /\ Insn.to \notin Defined
    /\ at' = Next0(at + 1)
    /\ UNCHANGED <<flat, frames>>

Return ==
    /\ Insn.op = "return" /\ frames # << >>
    /\ at' = Head(frames)
    /\ frames' = Tail(frames)
    /\ UNCHANGED flat

Init == at = 1 /\ frames = << >>
Next == Straight \/ Jump \/ Branch \/ Call \/ Extern \/ Return

Spec == Init /\ [][Next]_<<flat, at, frames>>
=============================================================================
