-------------------------- MODULE MCConfigRollout --------------------------
(* ConfigRollout with small sets of updates: for bot b1 the next two       *)
(* versions, one of them on another exchange.                              *)
EXTENDS ConfigRollout

CONSTANTS b1, b2, okx, bybit, h1, h2

MCUpdates ==
  { [bot |-> b1, version |-> 2, exchange |-> okx],
    [bot |-> b1, version |-> 2, exchange |-> bybit],
    [bot |-> b1, version |-> 3, exchange |-> bybit] }
=============================================================================
