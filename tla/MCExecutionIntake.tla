------------------------- MODULE MCExecutionIntake -------------------------
(* ExecutionIntake with one entry, whose event is published up to twice. *)
EXTENDS ExecutionIntake, TLC

CONSTANTS d1, btc

MCSymbol == [d \in {d1} |-> btc]
Twice == [d \in {d1} |-> 2]
=============================================================================
