--------------------------- MODULE MCControlPlane ---------------------------
(* ControlPlane with two registered exchanges and one without an adapter.  *)
(* Operators arm the usual pair, a pair without an adapter, or no pair.    *)
EXTENDS ControlPlane

CONSTANTS okx, bybit, kraken

MCArmTargets ==
  { [primary |-> okx, secondary |-> bybit],
    [primary |-> bybit, secondary |-> kraken],
    [primary |-> None, secondary |-> None] }
=============================================================================
