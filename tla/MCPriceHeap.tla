---------------------------- MODULE MCPriceHeap ----------------------------
(***************************************************************************)
(* Seven price levels.  With six or more, removing a level can put one in  *)
(* its place that has to move up.                                          *)
(***************************************************************************)
EXTENDS PriceHeap

MCPrice == 1..7
=============================================================================
