----------------------------- MODULE MCCfgBuild ----------------------------
(* The programs of the run: structured ones, ones with any jump, and ones  *)
(* with ||.                                                                *)
EXTENDS CfgBuild

StructuredAndJumps ==
    {{"block", "if", "else", "for", "do", "break", "continue", "return",
      "atom"},
     {"while", "switch", "break", "continue", "return", "goto", "label",
      "atom", "and", "ternary"},
     {"if", "else", "while", "break", "return", "or"}}
=============================================================================
