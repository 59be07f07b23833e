----------------------- MODULE MC_ContextAggregators -----------------------
(* TLC instance of ContextAggregators: one tool call, of any kind, in a     *)
(* conversation of two utterances.                                         *)
EXTENDS ContextAggregators

CONSTANT c1

const_Calls == {c1}
=============================================================================
