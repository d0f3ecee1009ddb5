-------------------------- MODULE MCOrderLifecycle --------------------------
(* Two attempts of one intent, or one order of three lots, for TLC. *)
EXTENDS OrderLifecycle

CONSTANTS c1, c2, x1, x2, i1

TwoIntentOf == [c \in {c1, c2} |-> i1]
TwoExIdOf == [c \in {c1, c2} |-> IF c = c1 THEN x1 ELSE x2]
OneIntentOf == [c \in {c1} |-> i1]
OneExIdOf == [c \in {c1} |-> x1]
OneSize == {Qty}
RoundedSizes == {Qty - 1, Qty}
EveryKeySet == {{"client"}, {"exchange"}}
ClientKeys == {{"client"}}
=============================================================================
