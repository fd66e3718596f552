------------------------------ MODULE MCEngine ------------------------------
(***************************************************************************)
(* Engine over the real order book: outcomes are those of OrderEvents.     *)
(* BTC and ETH share the halt state.                                       *)
(***************************************************************************)
EXTENDS Engine

CONSTANTS Price, Amount, Nonce, n1, n2, MaxElem, MaxInt64, QuotePow, BasePow, NoOrder

B == INSTANCE OrderEvents

Limit(side, amount, nonce) ==
    [type |-> "CREATE", order |-> B!CreateOrder("LIMIT", side, 1, amount, nonce)]

Sell == Limit("ASK", 1, n1)
Buy == Limit("BID", 2, n2)
CancelBuy == [type |-> "CANCEL", id |-> Buy.order.id]

MCPayload == {Sell, Buy, CancelBuy}

MCApply(b, payload, s) ==
    IF payload.type = "CREATE" THEN B!ApplyCreate(b, payload.order, s)
    ELSE B!ApplyCancel(b, payload.id)

\* On BTC an order rests, another takes it, and what remains is cancelled.
\* Ids are reused with another payload and on another ticker.
MCRequest == {
    [id |-> "c1", ticker |-> "BTC", payload |-> Sell],
    [id |-> "c2", ticker |-> "BTC", payload |-> Buy],
    [id |-> "c2", ticker |-> "BTC", payload |-> CancelBuy],
    [id |-> "c3", ticker |-> "BTC", payload |-> CancelBuy],
    [id |-> "c2", ticker |-> "ETH", payload |-> Buy]}

\* The same on one ticker only.
RetryRequest == {r \in MCRequest : r.ticker = "BTC"}

MCTicker == {r.ticker : r \in Request}
MCCommandID == {"c1", "c2", "c3"}
MCEmpty == B!EmptyBook
MCBooks == B!Book
MCBatches == Seq(B!LogRecord \cup B!EventRecord)
=============================================================================
