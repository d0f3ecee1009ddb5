----------------------------- MODULE MCOrderBook -----------------------------
(* OrderBook with numbers in place of its constants: see MCOrderBook.cfg. *)
EXTENDS OrderBook, TLC
=============================================================================
