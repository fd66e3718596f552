--------------------------- MODULE MCMarketNumbers ---------------------------
(***************************************************************************)
(* Every string of up to five characters, integers of one byte and scales  *)
(* of up to two places.  Markets with the default scales, with none, and   *)
(* with finer prices, the last two with a minimum of several lots, so that *)
(* less than an order may be is filled; and ones whose quote asset has     *)
(* fewer places.                                                           *)
(***************************************************************************)
EXTENDS MarketNumbers

MCRawText == UNION {[1..n -> {"0", "1", "2", "8", ".", "+", "-", " ", "e"}] : n \in 0..5}

WithScales(p, q, n) ==
    [DefaultPrecision EXCEPT !.priceScale = p, !.quantityScale = q, !.quoteScale = n]

FineContract == {
    DefaultPrecision,
    [WithScales(0, 0, 0) EXCEPT !.lotSize = 2, !.minQuantity = 6, !.maxQuantity = 20],
    [WithScales(2, 1, 2) EXCEPT !.tickSize = 5, !.minQuantity = 12, !.maxQuantity = 30]}

ShortText == UNION {[1..n -> {"0", "1", "2", "."}] : n \in 0..3}

CoarseContract == {WithScales(1, 1, 0)}

=============================================================================
