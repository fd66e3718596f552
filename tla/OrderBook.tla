----------------------------- MODULE OrderBook -----------------------------
(***************************************************************************)
(* The order book of one market (internal/engine/order.go) and the         *)
(* matching loop over it (internal/engine/match.go), as operators on a     *)
(* book value.                                                             *)
(*                                                                         *)
(* A book is a record with one field per data structure of the Go type:    *)
(*                                                                         *)
(*   levels  which prices of each side have an entry in the map Bids/Asks  *)
(*   heap    which prices are in bidLevels/askLevels                       *)
(*   queue   PriceLevel.Queue, front first, as list element handles        *)
(*   total   PriceLevel.TotalAmount (int64)                                *)
(*   index   OrderBook.Index, order id -> list element handle or NoElem    *)
(*   order   what elem.Value points to, NoOrder once the element is gone   *)
(*                                                                         *)
(* The map, the heap and the Index are separate structures that the code   *)
(* keeps in step by hand; they are separate here for the same reason.  A   *)
(* handle is the sequence number of the command that pushed the element,   *)
(* so handles grow in the order in which elements are pushed.              *)
(***************************************************************************)
EXTENDS Integers, Sequences, FiniteSets, SequencesExt

CONSTANTS
    Price,        \* the limit prices in use, in ticks
    Amount,       \* the quantities a request may carry, in lots
    Nonce,        \* client nonces; the user id is folded into the nonce
    MaxElem,      \* number of list elements that can ever be pushed
    MaxInt64,     \* math.MaxInt64
    QuotePow,     \* 10^QuoteScale
    BasePow       \* 10^(PriceScale + QuantityScale)

ASSUME WidthAssumption ==
    /\ MaxInt64 \in Nat \ {0}
    /\ Price \subseteq 1..MaxInt64
    /\ Amount \subseteq 1..MaxInt64

ASSUME BookAssumption ==
    /\ MaxElem \in Nat
    /\ QuotePow \in Nat \ {0}
    /\ BasePow \in Nat \ {0}

CONSTANT NoOrder    \* a nil *models.BookOrder

NoPrice == 0        \* the price of a market order
NoElem == 0         \* absence from the Index map
NoAmount == 0       \* a nil EditOrderRequest.Amount

Side == {"BID", "ASK"}
Kind == {"LIMIT", "MARKET"}
Elem == 1..MaxElem

Opposite(s) == IF s = "BID" THEN "ASK" ELSE "BID"

(***************************************************************************)
(* GenerateOrderID hashes ticker|user|type|side|price|nonce.  The hash is  *)
(* taken to be collision free, so the id is the tuple that is hashed.      *)
(***************************************************************************)
OrderID == [kind : Kind, side : Side, price : Price \cup {NoPrice}, nonce : Nonce]

Order == [id : OrderID, kind : Kind, side : Side,
          price : Price \cup {NoPrice}, amount : Int]

ASSUME NoOrderAssumption == NoOrder \notin Order

\* CreateOrderAt: the book order of a create request.
CreateOrder(kind, side, price, amount, nonce) ==
    [id |-> [kind |-> kind, side |-> side, price |-> price, nonce |-> nonce],
     kind |-> kind, side |-> side, price |-> price, amount |-> amount]

Book == [levels : [Side -> SUBSET Price],
         heap   : [Side -> SUBSET Price],
         queue  : [Side -> [Price -> Seq(Elem)]],
         total  : [Side -> [Price -> Int]],
         index  : [OrderID -> Elem \cup {NoElem}],
         order  : [Elem -> Order \cup {NoOrder}]]

EmptyBook ==
    [levels |-> [s \in Side |-> {}],
     heap   |-> [s \in Side |-> {}],
     queue  |-> [s \in Side |-> [p \in Price |-> << >>]],
     total  |-> [s \in Side |-> [p \in Price |-> 0]],
     index  |-> [id \in OrderID |-> NoElem],
     order  |-> [e \in Elem |-> NoOrder]]

\* int64 addition wraps around silently.
Wrap(n) == ((n + MaxInt64 + 1) % (2 * (MaxInt64 + 1))) - (MaxInt64 + 1)

-----------------------------------------------------------------------------
(* Resting, cancelling and editing orders                                  *)

\* Mutant: the heap keeps the price.
DropPriceLevelKeepsHeap(b, s, p) ==
    [b EXCEPT !.levels[s] = @ \ {p}, !.queue[s][p] = << >>, !.total[s][p] = 0]

\* A level that is not in the map has been reset: a later AddOrder at its
\* price allocates a fresh PriceLevel.
DropPriceLevel(b, s, p) ==
    [b EXCEPT !.heap[s] = @ \ {p}, !.levels[s] = @ \ {p},
              !.queue[s][p] = << >>, !.total[s][p] = 0]

\* Mutants: to the front of the queue; no index entry when the level is there.
AddOrderFront(b, e, o) ==
    [b EXCEPT !.levels[o.side] = @ \cup {o.price},
              !.heap[o.side] = @ \cup {o.price},
              !.queue[o.side][o.price] = <<e>> \o @,
              !.total[o.side][o.price] = Wrap(@ + o.amount),
              !.index[o.id] = e,
              !.order[e] = o]

AddOrderHalfIndexed(b, e, o) ==
    [b EXCEPT !.levels[o.side] = @ \cup {o.price},
              !.heap[o.side] = @ \cup {o.price},
              !.queue[o.side][o.price] = Append(@, e),
              !.total[o.side][o.price] = Wrap(@ + o.amount),
              !.index[o.id] = IF o.price \in b.levels[o.side] THEN @ ELSE e,
              !.order[e] = o]

AddOrder(b, e, o) ==
    [b EXCEPT !.levels[o.side] = @ \cup {o.price},
              !.heap[o.side] = IF o.price \in b.levels[o.side] THEN @ ELSE @ \cup {o.price},
              !.queue[o.side][o.price] = Append(@, e),
              !.total[o.side][o.price] = Wrap(@ + o.amount),
              !.index[o.id] = e,
              !.order[e] = o]

\* The element leaves its queue, and the level's quantity; its id is forgotten.
Unlink(b, e) ==
    LET o == b.order[e]
    IN  [b EXCEPT !.queue[o.side][o.price] = RemoveFirst(@, e),
                  !.index[o.id] = NoElem,
                  !.total[o.side][o.price] = Wrap(@ - o.amount),
                  !.order[e] = NoOrder]

\* removeElement: unlink the element, and drop the level when its queue is
\* empty.
RemoveElement(b, e) ==
    LET o == b.order[e]
        unlinked == Unlink(b, e)
    IN  IF unlinked.queue[o.side][o.price] = << >>
        THEN DropPriceLevel(unlinked, o.side, o.price)
        ELSE unlinked

\* The lookups that RemoveOrder and EditOrderAt make before they touch the
\* book: an Index entry, the order behind it, and the map entry of its level.
Located(b, id) ==
    /\ b.index[id] # NoElem
    /\ b.order[b.index[id]] # NoOrder
    /\ b.order[b.index[id]].price \in b.levels[b.order[b.index[id]].side]

RemoveOrder(b, id) ==
    IF Located(b, id)
    THEN [book |-> RemoveElement(b, b.index[id]), removed |-> b.order[b.index[id]]]
    ELSE [book |-> b, removed |-> NoOrder]

NoEdit(b) == [book |-> b, before |-> NoOrder, after |-> NoOrder, rematch |-> FALSE]

\* EditOrderAt: e is the element that AddOrder pushes if the edit gives up
\* the order's place at its own price.
EditOrder(b, e, id, price, amount) ==
    IF ~Located(b, id) THEN NoEdit(b)
    ELSE LET at == b.index[id]
             before == b.order[at]
             target == IF amount = NoAmount THEN before.amount ELSE amount
             after == [before EXCEPT !.price = price, !.amount = target]
             edited(bb, rematch) ==
                 [book |-> bb, before |-> before, after |-> after, rematch |-> rematch]
         IN  IF price # before.price
             THEN edited(RemoveElement(b, at), TRUE)
             ELSE IF target > before.amount
             THEN edited(AddOrder(RemoveElement(b, at), e, after), FALSE)
             ELSE IF target < before.amount
             THEN edited([b EXCEPT !.order[at] = after,
                                   !.total[before.side][price] = Wrap(@ + (target - before.amount))],
                         FALSE)
             ELSE NoEdit(b)

-----------------------------------------------------------------------------
(* The matching loop                                                       *)

\* Peek of the max-heap of bids and of the min-heap of asks.
BestBid(prices) == Max(prices)
BestAsk(prices) == Min(prices)

CanMatchAtPrice(taker, price) ==
    \/ taker.kind = "MARKET"
    \/ taker.side = "BID" /\ taker.price >= price
    \/ taker.side = "ASK" /\ taker.price <= price

OppositeBest(b, taker) ==
    IF taker.side = "BID" THEN BestAsk(b.heap["ASK"]) ELSE BestBid(b.heap["BID"])

\* The loop's conditions, in the order in which they break out of it.
CanFill(b, taker) ==
    /\ b.heap[Opposite(taker.side)] # {}
    /\ taker.amount > 0
    /\ CanMatchAtPrice(taker, OppositeBest(b, taker))
    /\ b.queue[Opposite(taker.side)][OppositeBest(b, taker)] # << >>

MakerElem(b, taker) == Head(b.queue[Opposite(taker.side)][OppositeBest(b, taker)])
Maker(b, taker) == b.order[MakerElem(b, taker)]

TradeAmount(b, taker) ==
    IF taker.amount < Maker(b, taker).amount THEN taker.amount ELSE Maker(b, taker).amount

\* Precision.QuoteAmount, rounded down at the quote scale.
QuoteAmount(price, amount) == (price * amount * QuotePow) \div BasePow

QuoteOverflows(b, taker) ==
    QuoteAmount(OppositeBest(b, taker), TradeAmount(b, taker)) > MaxInt64

\* newMatchLog.  GenerateExecutionID hashes the ticker, the taker, the time of
\* its command (here the command's sequence) and the position in the result.
MatchLog(b, taker, command, position) ==
    [taker |-> taker.id, command |-> command, position |-> position,
     maker |-> Maker(b, taker).id, price |-> OppositeBest(b, taker),
     amount |-> TradeAmount(b, taker),
     quote |-> QuoteAmount(OppositeBest(b, taker), TradeAmount(b, taker))]

LogRecord == [taker : OrderID, command : Nat, position : Nat, maker : OrderID,
              price : Price, amount : Int, quote : Int]

\* Mutant: the taker's quantity, not the smaller of the two, is taken off.
MakerFillUnclamped(b, taker) ==
    [order |-> Maker(b, taker), filled |-> taker.amount,
     remaining |-> Maker(b, taker).amount - TradeAmount(b, taker)]

\* MakerFillTransition: the maker as it was before the execution.
MakerFill(b, taker) ==
    [order |-> Maker(b, taker), filled |-> TradeAmount(b, taker),
     remaining |-> Maker(b, taker).amount - TradeAmount(b, taker)]

TakerAfterFill(b, taker) == [taker EXCEPT !.amount = @ - TradeAmount(b, taker)]

\* What one iteration of the loop does to the book.
BookAfterFill(b, taker) ==
    LET s == Opposite(taker.side)
        p == OppositeBest(b, taker)
        e == MakerElem(b, taker)
        maker == MakerFill(b, taker)
        consumed == maker.remaining <= 0
        filled == [b EXCEPT
            !.order[e] = IF consumed THEN NoOrder ELSE [@ EXCEPT !.amount = maker.remaining],
            !.total[s][p] = Wrap(@ - maker.filled),
            !.queue[s][p] = IF consumed THEN Tail(@) ELSE @,
            !.index[maker.order.id] = IF consumed THEN NoElem ELSE @]
    IN  IF filled.queue[s][p] = << >> THEN DropPriceLevel(filled, s, p) ELSE filled

\* Match, as a function: the loop's state after n iterations, taken at a
\* number of iterations it cannot exceed (every one but the last consumes a
\* resting order).
Match(b, taker, command) ==
    LET iteration[n \in Nat] ==
            IF n = 0
            THEN [book |-> b, taker |-> taker, logs |-> << >>, makers |-> << >>, err |-> FALSE]
            ELSE LET m == iteration[n - 1]
                 IN  IF m.err \/ ~CanFill(m.book, m.taker) THEN m
                     ELSE IF QuoteOverflows(m.book, m.taker) THEN [m EXCEPT !.err = TRUE]
                     ELSE [m EXCEPT !.book = BookAfterFill(m.book, m.taker),
                                    !.taker = TakerAfterFill(m.book, m.taker),
                                    !.logs = Append(@, MatchLog(m.book, m.taker, command, Len(m.logs))),
                                    !.makers = Append(@, MakerFill(m.book, m.taker))]
    IN  iteration[MaxElem + 1]

-----------------------------------------------------------------------------
(* Snapshots                                                               *)

\* Mutant: both sides ascending.
ShownBeforeAscending(s, p, q) == p < q

\* Best price first.
ShownBefore(s, p, q) == IF s = "BID" THEN p > q ELSE p < q

\* The levels of a side, sorted.
ShownLevels(b, s) ==
    CHOOSE sorted \in [1..Cardinality(b.levels[s]) -> b.levels[s]] :
        \A i, j \in DOMAIN sorted : i < j => ShownBefore(s, sorted[i], sorted[j])

\* snapshotLevels: best price first, cut at depth (0 means all), with the
\* running sum of the level amounts.
Snapshot(b, s, depth) ==
    LET sorted == ShownLevels(b, s)
        cut == IF 0 < depth /\ depth < Len(sorted) THEN SubSeq(sorted, 1, depth) ELSE sorted
        cumulative[i \in 0..Len(cut)] ==
            IF i = 0 THEN 0 ELSE Wrap(cumulative[i - 1] + b.total[s][cut[i]])
    IN  [i \in 1..Len(cut) |->
            [price |-> cut[i], amount |-> b.total[s][cut[i]], cumulative |-> cumulative[i]]]

=============================================================================
