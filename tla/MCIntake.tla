------------------------------ MODULE MCIntake ------------------------------
(***************************************************************************)
(* Requests that spell the same numbers in several ways, and ones that the *)
(* handlers must refuse; the market's contract may get a second version.   *)
(***************************************************************************)
EXTENDS Intake

Text(name) == [name |-> name, padded |-> FALSE]
Padded(name) == [name |-> name, padded |-> TRUE]

MCTicker == Text("BTC")

Precise(scale, tick, maxPrice, v) ==
    [priceScale |-> scale, quantityScale |-> 1, quoteScale |-> 1, tickSize |-> tick, lotSize |-> 2,
     minPrice |-> 1, maxPrice |-> maxPrice, minQuantity |-> 2, maxQuantity |-> 100, version |-> v]

\* Prices of one place; whole prices; whole prices that later get one place.
MCContracts == {
    <<Precise(1, 5, 127, 1)>>,
    <<Precise(0, 1, 20, 1), Precise(1, 5, 127, 2)>>}

OneByte == <<"1", "2", ".", "8">>

MCPrice == {
    <<>>, <<"0">>, <<"0", ".", "0">>, <<"1">>, <<"1", ".", "0">>, <<" ", "+", "0", "1">>,
    <<".", "5">>, <<".", "3">>, <<"-", "1">>, <<"1", "e", "1">>, <<"3", "0">>, OneByte}

MCAmount == {<<"2">>, <<"2", ".", "0">>, <<".", "1">>, <<"0">>}

Good == [kind |-> "CREATE", id |-> Text("c1"), ticker |-> MCTicker, user |-> Text("u"),
         type |-> "LIMIT", side |-> "BID", price |-> <<"1">>, amount |-> <<"2">>, nonce |-> 0]

\* One field is spelled another way, is another, or is bad.
Creates ==
    {[Good EXCEPT !.price = p, !.type = t] : p \in MCPrice, t \in {"LIMIT", "MARKET"}}
        \cup {[Good EXCEPT !.amount = a] : a \in MCAmount}
        \cup {[Good EXCEPT !.ticker = Padded("BTC")], [Good EXCEPT !.ticker = Text("ETH")],
              [Good EXCEPT !.ticker = Padded("")], [Good EXCEPT !.user = Padded("")],
              [Good EXCEPT !.id = Padded("")], [Good EXCEPT !.type = "STOP"],
              [Good EXCEPT !.side = "SELL"], [Good EXCEPT !.nonce = 1]}

GoodAmend == [kind |-> "AMEND", id |-> Text("c2"), ticker |-> MCTicker, order |-> Text("o"),
              price |-> <<"1">>, amount |-> {}]

Amends ==
    {[GoodAmend EXCEPT !.price = p] : p \in MCPrice}
        \cup {[GoodAmend EXCEPT !.amount = {a}] : a \in MCAmount}
        \cup {[GoodAmend EXCEPT !.ticker = Padded("BTC")], [GoodAmend EXCEPT !.order = Padded("")],
              [GoodAmend EXCEPT !.id = Text("c1")]}

GoodCancel == [kind |-> "CANCEL", id |-> Text("c2"), ticker |-> MCTicker, order |-> Text("o")]

Cancels == {GoodCancel, [GoodCancel EXCEPT !.ticker = Padded("BTC")],
            [GoodCancel EXCEPT !.order = Padded("")], [GoodCancel EXCEPT !.order = Padded("o")]}

MCRequest == Creates \cup Amends \cup Cancels \cup {Nobody}

=============================================================================
