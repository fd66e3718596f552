--------------------------- MODULE BookRefinement ---------------------------
(***************************************************************************)
(* applyCommand over the order book implements price-time priority.  The   *)
(* arrival of a resting order is the sequence of the command that queued   *)
(* it; match logs written and match logs still in the result are the       *)
(* trades.                                                                 *)
(***************************************************************************)
EXTENDS ApplyCommand

ASSUME NoIncomingAssumption ==
    NoOrder \notin [id : OrderID, side : Side, market : BOOLEAN,
                    price : Price \cup {NoPrice}, amount : Int]

RestingOrders ==
    {[id |-> book.order[e].id, side |-> book.order[e].side, price |-> book.order[e].price,
      amount |-> book.order[e].amount, arrival |-> e] :
        e \in UNION {ToSet(book.queue[s][p]) : s \in Side, p \in Price}}

Incoming ==
    IF taker = NoOrder THEN NoOrder
    ELSE [id |-> taker.id, side |-> taker.side, market |-> taker.kind = "MARKET",
          price |-> taker.price, amount |-> taker.amount]

Trades ==
    [i \in 1..Len(matchLogs \o logs) |->
        LET log == (matchLogs \o logs)[i]
        IN  [taker |-> log.taker, maker |-> log.maker, price |-> log.price, amount |-> log.amount]]

Abstract == INSTANCE PriceTimePriority WITH
    Id <- OrderID, MaxTime <- MaxElem, NoIncoming <- NoOrder,
    resting <- RestingOrders, incoming <- Incoming, time <- sequence,
    trades <- Trades, stopped <- phase = "overflow"

(***************************************************************************)
(* Every behaviour of applyCommand is a behaviour of a price-time priority *)
(* book: best price first, then arrival; the maker's price; a reduction    *)
(* keeps its place, an increase or a new price loses it; a market order    *)
(* never rests; a refused quote amount stops the book where it is.         *)
(***************************************************************************)
PriceTimePriority == Abstract!Spec

=============================================================================
