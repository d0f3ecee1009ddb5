-------------------------- MODULE MCFillRecording --------------------------
(* Model values for FillRecording: an entry, a maker entry, an exit and a  *)
(* close of the position guard, as the configurations combine them.        *)
EXTENDS FillRecording

CONSTANTS e, m, x, g

=============================================================================
