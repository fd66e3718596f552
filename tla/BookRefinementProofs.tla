------------------------ MODULE BookRefinementProofs ------------------------
(***************************************************************************)
(* Proof that applyCommand implements PriceTimePriority, for any prices,   *)
(* quantities and number of commands, while nonces are unique, and proofs  *)
(* about the histories that it keeps.                                      *)
(*                                                                         *)
(* The book's elements are the resting orders, and elements are handed out *)
(* in the order of the commands, so a sound book, whose queues are in the  *)
(* order of their elements, is a book in price-time order.  Each kind of   *)
(* change of BookProofs is a change of the set of resting orders, and each *)
(* step of a command is then one step of PriceTimePriority.                *)
(*                                                                         *)
(* The histories are the order events and the match logs of all commands,  *)
(* against each other and against the book.  The events of a command are   *)
(* published when it is done, so the invariant is about the history with   *)
(* what the command in progress has collected, the event of its amend and  *)
(* of its executed makers: the book and the history tell the same story    *)
(* between the iterations of a match, too.                                 *)
(***************************************************************************)
EXTENDS BookRefinement, BookProofs

-----------------------------------------------------------------------------
(* The resting orders of a book                                            *)

\* The order o, queued as the element e, as PriceTimePriority sees it.
RestingAs(e, o) ==
    [id |-> o.id, side |-> o.side, price |-> o.price, amount |-> o.amount, arrival |-> e]

\* All of a book's orders.
RestingIn(b) == {RestingAs(e, b.order[e]) : e \in {x \in Elem : b.order[x] # NoOrder}}

\* RestingOrders, of any book.
QueuedIn(b) ==
    {[id |-> b.order[e].id, side |-> b.order[e].side, price |-> b.order[e].price,
      amount |-> b.order[e].amount, arrival |-> e] :
        e \in UNION {ToSet(b.queue[s][p]) : s \in Side, p \in Price}}

\* What is queued is what rests.
LEMMA QueuedRests ==
    ASSUME NEW b, Sound(b)
    PROVE  QueuedIn(b) = RestingIn(b)
<1> DEFINE U == UNION {ToSet(b.queue[s][p]) : s \in Side, p \in Price}
           R == {x \in Elem : b.order[x] # NoOrder}
<1>1. ASSUME NEW s \in Side, NEW p \in Price
      PROVE  ToSet(b.queue[s][p]) = {b.queue[s][p][i] : i \in 1..Len(b.queue[s][p])}
  <2>1. b.queue[s][p] \in Seq(Elem)
      BY DEF Sound, Book
  <2>2. DOMAIN b.queue[s][p] = 1..Len(b.queue[s][p])
      BY <2>1
  <2> QED BY <2>2 DEF ToSet
<1>2. U \subseteq R
  <2> SUFFICES ASSUME NEW s \in Side, NEW p \in Price, NEW x \in ToSet(b.queue[s][p]) PROVE x \in R
      OBVIOUS
  <2>1. PICK q : q = b.queue[s][p]
      OBVIOUS
  <2>2. q \in Seq(Elem) /\ QueueOf(b, s, p)
      BY <2>1 DEF Sound, Book
  <2>3. PICK i \in 1..Len(q) : x = q[i]
      BY <1>1, <2>1
  <2>4. x \in Elem
      BY <2>2, <2>3
  <2>5. \A k \in 1..Len(q) : b.order[q[k]] # NoOrder
      BY <2>1, <2>2 DEF QueueOf
  <2> QED BY <2>3, <2>4, <2>5
<1>3. R \subseteq U
  <2> SUFFICES ASSUME NEW x \in Elem, b.order[x] # NoOrder PROVE x \in U
      OBVIOUS
  <2>1. PICK s, p : s = b.order[x].side /\ p = b.order[x].price
      OBVIOUS
  <2>2. s \in Side /\ p \in Price
      BY <2>1, RestingFacts
  <2>3. PICK i \in 1..Len(b.queue[s][p]) : b.queue[s][p][i] = x
    <3>1. Queued(b, x)
        BY DEF Sound
    <3> QED BY <2>1, <3>1 DEF Queued
  <2>4. x \in ToSet(b.queue[s][p])
    <3>1. x \in {b.queue[s][p][k] : k \in 1..Len(b.queue[s][p])}
        BY <2>3
    <3> QED BY <1>1, <2>2, <3>1
  <2> QED BY <2>2, <2>4
<1>4. U = R
    BY <1>2, <1>3
<1> HIDE DEF U, R
<1>5. QueuedIn(b) = {RestingAs(e, b.order[e]) : e \in U}
    BY DEF QueuedIn, RestingAs, U
<1> QED BY <1>4, <1>5 DEF RestingIn, R

\* Of the book before and after a step.
LEMMA RestingOrdersAre ==
    /\ Sound(book) => RestingOrders = RestingIn(book)
    /\ Sound(book') => RestingOrders' = RestingIn(book')
<1>1. RestingOrders = QueuedIn(book)
    BY DEF RestingOrders, QueuedIn
<1>2. RestingOrders' = QueuedIn(book')
    BY DEF RestingOrders, QueuedIn
<1> QED BY <1>1, <1>2, QueuedRests

\* Elements are told apart by their arrival.
LEMMA ArrivalsDiffer ==
    ASSUME NEW x, NEW y, NEW o, NEW m, RestingAs(x, o) = RestingAs(y, m)
    PROVE  x = y
BY DEF RestingAs

\* Without an element there is one resting order less.
LEMMA UnlinkedResting ==
    ASSUME NEW b, NEW r, NEW e \in Elem, Sound(b), b.order[e] # NoOrder, Unlinks(b, r, e)
    PROVE  /\ RestingAs(e, b.order[e]) \in RestingIn(b)
           /\ RestingIn(r) = RestingIn(b) \ {RestingAs(e, b.order[e])}
<1>1. r.order[e] = NoOrder /\ \A x \in Elem : x # e => r.order[x] = b.order[x]
  <2>1. r.order = [b.order EXCEPT ![e] = NoOrder] /\ b.order \in [Elem -> Order \cup {NoOrder}]
      BY DEF Unlinks, Sound, Book
  <2> QED BY <2>1
<1> QED BY <1>1, ArrivalsDiffer DEF RestingIn

WithAmount(r, n) == [r EXCEPT !.amount = n]

\* With another quantity, the order is where it was.
LEMMA ResizedResting ==
    ASSUME NEW b, NEW r, NEW e \in Elem, NEW n, Sound(b), b.order[e] # NoOrder, Resizes(b, r, e, n)
    PROVE  /\ RestingAs(e, b.order[e]) \in RestingIn(b)
           /\ RestingIn(r) = (RestingIn(b) \ {RestingAs(e, b.order[e])})
                                \cup {WithAmount(RestingAs(e, b.order[e]), n)}
<1>1. /\ r.order[e] = [b.order[e] EXCEPT !.amount = n]
      /\ \A x \in Elem : x # e => r.order[x] = b.order[x]
  <2>1. /\ r.order = [b.order EXCEPT ![e] = [@ EXCEPT !.amount = n]]
        /\ b.order \in [Elem -> Order \cup {NoOrder}]
      BY DEF Resizes, Sound, Book
  <2> QED BY <2>1
<1>2. b.order[e] \in Order /\ r.order[e] # NoOrder
  <2>1. SameIds(b, r) /\ b.order[e] \in Order
      BY RestingFacts, ResizeKeeps
  <2> QED BY <2>1 DEF SameIds
<1>3. RestingAs(e, r.order[e]) = WithAmount(RestingAs(e, b.order[e]), n)
    BY <1>1, <1>2 DEF RestingAs, WithAmount, Order
<1> QED BY <1>1, <1>2, <1>3, ArrivalsDiffer DEF RestingIn

\* With a new element there is one resting order more.
GainsResting(b, r, e, o) == RestingIn(r) = RestingIn(b) \cup {RestingAs(e, o)}

LEMMA LinkedResting ==
    ASSUME NEW b, NEW r, NEW e \in Elem, NEW o \in Order, Sound(b), b.order[e] = NoOrder,
           Links(b, r, e, o)
    PROVE  GainsResting(b, r, e, o)
<1>1. r.order[e] = o /\ \A x \in Elem : x # e => r.order[x] = b.order[x]
  <2>1. r.order = [b.order EXCEPT ![e] = o] /\ b.order \in [Elem -> Order \cup {NoOrder}]
      BY DEF Links, Sound, Book
  <2> QED BY <2>1
<1> QED BY <1>1, NoOrderAssumption DEF GainsResting, RestingIn

-----------------------------------------------------------------------------
(* The trades                                                              *)

\* A match log as a trade.
TradeOf(log) == [taker |-> log.taker, maker |-> log.maker, price |-> log.price, amount |-> log.amount]

\* A new log is a new trade.
LEMMA NewTrade ==
    ASSUME LogsHeld, NEW log \in LogRecord, logs' = Append(logs, log), matchLogs' = matchLogs
    PROVE  Trades' = Append(Trades, TradeOf(log))
<1>1. PICK h, k : h = matchLogs \o logs /\ k = matchLogs \o Append(logs, log)
    OBVIOUS
<1>2. /\ h \in Seq(LogRecord) /\ k \in Seq(LogRecord) /\ Len(k) = Len(h) + 1 /\ Len(h) \in Nat
      /\ \A i \in 1..Len(h) : k[i] = h[i]
      /\ k[Len(h) + 1] = log
  <2>1. PICK m, l, a : m = matchLogs /\ l = logs /\ a = Append(l, log)
      OBVIOUS
  <2>2. m \in Seq(LogRecord) /\ l \in Seq(LogRecord)
      BY <2>1 DEF LogsHeld
  <2>3. /\ a \in Seq(LogRecord) /\ Len(a) = Len(l) + 1
        /\ \A i \in 1..Len(l) : a[i] = l[i]
        /\ a[Len(l) + 1] = log
      BY <2>1, <2>2, AppendProperties
  <2>4. h = m \o l /\ k = m \o a
      BY <1>1, <2>1
  <2>5. /\ h \in Seq(LogRecord) /\ Len(h) = Len(m) + Len(l)
        /\ \A i \in 1..(Len(m) + Len(l)) : h[i] = IF i <= Len(m) THEN m[i] ELSE l[i - Len(m)]
      BY <2>2, <2>4, ConcatProperties
  <2>6. /\ k \in Seq(LogRecord) /\ Len(k) = Len(m) + Len(a)
        /\ \A i \in 1..(Len(m) + Len(a)) : k[i] = IF i <= Len(m) THEN m[i] ELSE a[i - Len(m)]
    <3>1. a \in Seq(LogRecord)
        BY <2>3
    <3> QED BY <2>2, <2>4, <3>1, ConcatProperties
  <2>7. Len(m) \in Nat /\ Len(l) \in Nat
      BY <2>2
  <2>8. ASSUME NEW i \in 1..Len(h) PROVE k[i] = h[i]
    <3>1. CASE i <= Len(m)
      <4>1. i \in 1..(Len(m) + Len(l)) /\ i \in 1..(Len(m) + Len(a))
          BY <2>3, <2>5, <2>7, <3>1
      <4>2. h[i] = m[i] /\ k[i] = m[i]
          BY <2>5, <2>6, <3>1, <4>1
      <4> QED BY <4>2
    <3>2. CASE i > Len(m)
      <4>1. i - Len(m) \in 1..Len(l)
          BY <2>5, <2>7, <3>2
      <4>2. h[i] = l[i - Len(m)] /\ k[i] = a[i - Len(m)]
          BY <2>3, <2>5, <2>6, <2>7, <3>2
      <4> QED BY <2>3, <4>1, <4>2
    <3> QED BY <2>5, <2>7, <3>1, <3>2
  <2>9. k[Len(h) + 1] = log
    <3>1. /\ (Len(h) + 1) - Len(m) = Len(l) + 1
          /\ Len(h) + 1 \in 1..(Len(m) + Len(a)) /\ ~(Len(h) + 1 <= Len(m))
        BY <2>3, <2>5, <2>7
    <3> QED BY <2>3, <2>6, <3>1
  <2>10. h \in Seq(LogRecord) /\ k \in Seq(LogRecord)
      BY <2>5, <2>6
  <2>11. Len(h) = Len(m) + Len(l) /\ Len(k) = Len(m) + Len(a) /\ Len(a) = Len(l) + 1
      BY <2>3, <2>5, <2>6
  <2>12. Len(k) = Len(h) + 1 /\ Len(h) \in Nat
      BY <2>7, <2>11
  <2> QED BY <2>8, <2>9, <2>10, <2>12
<1> DEFINE TR == {TradeOf(x) : x \in LogRecord}
           s == [i \in 1..Len(h) |-> TradeOf(h[i])]
           t == [i \in 1..Len(k) |-> TradeOf(k[i])]
<1>3. Trades = s
    BY <1>1 DEF Trades, TradeOf
<1>4. Trades' = t
    BY <1>1 DEF Trades, TradeOf
<1>5. s \in Seq(TR) /\ t \in Seq(TR) /\ Len(s) = Len(h) /\ Len(t) = Len(h) + 1
  <2>1. \A i \in 1..Len(h) : h[i] \in LogRecord
      BY <1>2
  <2>2. \A i \in 1..Len(k) : k[i] \in LogRecord
      BY <1>2
  <2>3. s \in [1..Len(h) -> TR] /\ t \in [1..Len(k) -> TR]
      BY <2>1, <2>2
  <2>4. Len(h) \in Nat /\ Len(k) \in Nat
      BY <1>2
  <2>5. ASSUME NEW T, NEW n \in Nat, NEW f \in [1..n -> T] PROVE f \in Seq(T) /\ Len(f) = n
      OBVIOUS
  <2> HIDE DEF s, t, TR
  <2>6. s \in Seq(TR) /\ Len(s) = Len(h)
      BY <2>3, <2>4, <2>5
  <2>7. t \in Seq(TR) /\ Len(t) = Len(k)
      BY <2>3, <2>4, <2>5
  <2> QED BY <1>2, <2>6, <2>7
<1>6. /\ \A i \in 1..Len(h) : s[i] = TradeOf(h[i])
      /\ \A i \in 1..(Len(h) + 1) : t[i] = TradeOf(k[i])
    BY <1>2
<1>7. TradeOf(log) \in TR
    OBVIOUS
<1> HIDE DEF s, t, TR
<1>8. PICK u : u = Append(s, TradeOf(log))
    OBVIOUS
<1>9. /\ u \in Seq(TR) /\ Len(u) = Len(h) + 1
      /\ \A i \in 1..Len(h) : u[i] = s[i]
      /\ u[Len(h) + 1] = TradeOf(log)
    BY <1>5, <1>7, <1>8, AppendProperties
<1>10. \A i \in 1..(Len(h) + 1) : t[i] = u[i]
  <2> SUFFICES ASSUME NEW i \in 1..(Len(h) + 1) PROVE t[i] = u[i]
      OBVIOUS
  <2>1. CASE i \in 1..Len(h)
      BY <1>2, <1>6, <1>9, <2>1
  <2>2. CASE i = Len(h) + 1
      BY <1>2, <1>6, <1>9, <2>2
  <2> QED BY <1>2, <2>1, <2>2
<1>11. t = u
    BY <1>5, <1>9, <1>10, SeqEqual
<1> QED BY <1>3, <1>4, <1>8, <1>11

\* Logs that only move from the result to the writer are the same trades.
LEMMA SameTrades == ASSUME LogsHeld, matchLogs' \o logs' = matchLogs \o logs PROVE Trades' = Trades
BY DEF Trades

-----------------------------------------------------------------------------
(* Price-time priority                                                     *)

\* The side's best price, of Peek.
BestOf(b, s) == IF s = "ASK" THEN BestAsk(b.heap[s]) ELSE BestBid(b.heap[s])

\* No resting order has a better price than its side's best.
LEMMA BestIsBest ==
    ASSUME NEW b, Sound(b), NEW x \in Elem, b.order[x] # NoOrder
    PROVE  LET o == b.order[x]
           IN  /\ b.heap[o.side] # {}
               /\ o.price \in Int /\ BestOf(b, o.side) \in Int
               /\ o.side = "ASK" => BestOf(b, o.side) <= o.price
               /\ o.side = "BID" => BestOf(b, o.side) >= o.price
<1>1. PICK s, p : s = b.order[x].side /\ p = b.order[x].price
    OBVIOUS
<1>2. s \in Side /\ p \in Price /\ b \in Book
    BY <1>1, RestingFacts
<1>3. b.queue[s][p] # << >>
  <2>1. \E i \in 1..Len(b.queue[s][p]) : b.queue[s][p][i] = x
      BY <1>1 DEF Sound, Queued
  <2> QED BY <2>1
<1>4. p \in b.heap[s]
    BY <1>2, <1>3 DEF Sound, LevelKnown
<1>5. PICK h : h = b.heap[s]
    OBVIOUS
<1>6. h \subseteq Price
    BY <1>2, <1>5 DEF Book
<1>7. MaxInt64 \in Nat /\ Price \subseteq 1..MaxInt64 /\ Price \subseteq Nat
  <2>1. MaxInt64 \in Nat /\ Price \subseteq 1..MaxInt64
      BY WidthAssumption
  <2>2. \A y \in 1..MaxInt64 : y \in Nat
      BY <2>1
  <2> QED BY <2>1, <2>2
<1>8. Min(h) \in h /\ Min(h) <= p
  <2>1. h \subseteq Nat /\ h # {}
      BY <1>4, <1>5, <1>6, <1>7
  <2> QED BY <1>4, <1>5, <2>1, MinIn
<1>9. Max(h) \in h /\ Max(h) >= p
  <2>1. h \subseteq 1..MaxInt64 /\ h # {}
      BY <1>4, <1>5, <1>6, <1>7
  <2> QED BY <1>4, <1>5, <1>7, <2>1, MaxIn
<1>10. p \in Int /\ Min(h) \in Int /\ Max(h) \in Int
    BY <1>2, <1>6, <1>8, <1>9, Prices
<1>11. BestOf(b, s) = IF s = "ASK" THEN Min(h) ELSE Max(h)
    BY <1>5 DEF BestOf, BestAsk, BestBid
<1>12. h # {}
    BY <1>4, <1>5
<1> QED BY <1>1, <1>5, <1>8, <1>9, <1>10, <1>11, <1>12

\* The matching loop looks at the best price of the other side.
LEMMA OppositeIsBest ==
    ASSUME NEW b, NEW o \in Order
    PROVE  /\ OppositeBest(b, o) = BestOf(b, Opposite(o.side))
           /\ Opposite(o.side) \in Side /\ Opposite(o.side) # o.side
           /\ \A s \in Side : s # o.side => s = Opposite(o.side)
<1>1. o.side = "BID" \/ o.side = "ASK"
    BY DEF Order, Side
<1> QED BY <1>1 DEF OppositeBest, BestOf, Opposite, Side

\* The maker of a fill comes before any other order of its side.
LEMMA MakerHasPriority ==
    ASSUME NEW b, Sound(b), NEW o \in Order, CanFill(b, o),
           NEW x \in Elem, b.order[x] # NoOrder, x # MakerElem(b, o),
           b.order[x].side = Opposite(o.side)
    PROVE  \/ IF Opposite(o.side) = "BID" THEN OppositeBest(b, o) > b.order[x].price
              ELSE OppositeBest(b, o) < b.order[x].price
           \/ OppositeBest(b, o) = b.order[x].price /\ MakerElem(b, o) < x
<1>1. PICK s, best, p, e : /\ s = Opposite(o.side) /\ best = OppositeBest(b, o)
                           /\ p = b.order[x].price /\ e = MakerElem(b, o)
    OBVIOUS
<1>2. best = BestOf(b, s) /\ (s = "BID" \/ s = "ASK") /\ b.order[x].side = s
    BY <1>1, OppositeIsBest DEF Side
<1>3. /\ p \in Int /\ best \in Int
      /\ s = "ASK" => best <= p
      /\ s = "BID" => best >= p
    BY <1>1, <1>2, BestIsBest
<1>4. CASE best # p
    BY <1>1, <1>2, <1>3, <1>4
<1>5. CASE best = p
  <2>1. PICK q : q = b.queue[s][p]
      OBVIOUS
  <2>2. s \in Side /\ p \in Price /\ b \in Book
      BY <1>1, <1>2, RestingFacts
  <2>3. q \in Seq(Elem) /\ InOrder(q)
    <3>1. QueueOf(b, s, p) /\ b.queue[s][p] \in Seq(Elem)
        BY <2>2 DEF Sound, Book
    <3> QED BY <2>1, <3>1 DEF QueueOf
  <2>4. q # << >> /\ e = Head(q)
      BY <1>1, <1>5, <2>1 DEF CanFill, MakerElem
  <2>5. PICK i \in 1..Len(q) : q[i] = x
    <3>1. \E i \in 1..Len(b.queue[s][p]) : b.queue[s][p][i] = x
        BY <1>1, <1>2 DEF Sound, Queued
    <3> QED BY <2>1, <3>1
  <2>6. e = q[1] /\ 1 \in 1..Len(q) /\ i # 1
      BY <1>1, <2>3, <2>4, <2>5
  <2>7. 1 < i
      BY <2>3, <2>5, <2>6
  <2>8. e < x
      BY <2>3, <2>5, <2>6, <2>7 DEF InOrder
  <2> QED BY <1>1, <1>5, <2>8
<1> QED BY <1>4, <1>5

\* When the loop ends with something left, nothing that rests crosses it.
LEMMA NothingCrosses ==
    ASSUME NEW b, Sound(b), NEW o \in Order, Priced(o), o.amount > 0, ~CanFill(b, o),
           NEW x \in Elem, b.order[x] # NoOrder, b.order[x].side # o.side
    PROVE  /\ o.kind # "MARKET"
           /\ o.price # b.order[x].price
           /\ ~(IF o.side = "BID" THEN o.price > b.order[x].price ELSE o.price < b.order[x].price)
<1>1. PICK s, best, p : s = Opposite(o.side) /\ best = OppositeBest(b, o) /\ p = b.order[x].price
    OBVIOUS
<1>2. /\ best = BestOf(b, s) /\ b.order[x].side = s
      /\ (o.side = "BID" /\ s = "ASK") \/ (o.side = "ASK" /\ s = "BID")
  <2>1. best = BestOf(b, s) /\ b.order[x].side = s
      BY <1>1, RestingFacts, OppositeIsBest
  <2>2. o.side = "BID" \/ o.side = "ASK"
      BY DEF Order, Side
  <2>3. s = IF o.side = "BID" THEN "ASK" ELSE "BID"
      BY <1>1 DEF Opposite
  <2>4. (o.side = "BID" /\ s = "ASK") \/ (o.side = "ASK" /\ s = "BID")
      BY <2>2, <2>3
  <2> QED BY <2>1, <2>4
<1>3. /\ b.heap[s] # {} /\ p \in Int /\ best \in Int
      /\ s = "ASK" => best <= p
      /\ s = "BID" => best >= p
    BY <1>1, <1>2, BestIsBest
<1>4. best \in Price /\ best \in b.heap[s] /\ s \in Side
    BY <1>1, <1>2, <1>3, BestIsLevel DEF Side
<1>5. b.queue[s][best] # << >>
    BY <1>4 DEF Sound, LevelKnown
<1>6. ~CanMatchAtPrice(o, best)
    BY <1>1, <1>3, <1>5 DEF CanFill
<1>7. o.price \in Int
    BY Prices DEF Priced, Order, NoPrice
<1> QED BY <1>1, <1>2, <1>3, <1>6, <1>7 DEF CanMatchAtPrice

-----------------------------------------------------------------------------
(* Each step of a command is a step of the abstract book                   *)

\* What is known of the state a step starts from.
Ready == UniqueNonces /\ Inv /\ IdsUnique /\ LogsHeld

\* An order that is matched, as PriceTimePriority sees it.
IncomingAs(o) ==
    [id |-> o.id, side |-> o.side, market |-> o.kind = "MARKET", price |-> o.price, amount |-> o.amount]

\* The incoming order is the taker.
LEMMA IncomingIs ==
    /\ taker = NoOrder => Incoming = NoOrder
    /\ taker # NoOrder => Incoming = IncomingAs(taker)
    /\ taker' = NoOrder => Incoming' = NoOrder
    /\ taker' # NoOrder => Incoming' = IncomingAs(taker')
BY DEF Incoming, IncomingAs

\* What all steps start from.
LEMMA ReadyFacts ==
    ASSUME Ready, Inv'
    PROVE  /\ Sound(book) /\ Sound(book') /\ Indexed(book)
           /\ RestingOrders = RestingIn(book) /\ RestingOrders' = RestingIn(book')
           /\ \A id : Carries(book, id) => id \in issued
           /\ issued \subseteq OrderID
           /\ sequence \in 0..MaxElem /\ MaxElem \in Nat
           /\ phase' # "rejected"
           /\ \A e \in Elem : e > sequence => book.order[e] = NoOrder
BY RestingOrdersAre, BookAssumption
   DEF Ready, Inv, IdsUnique, TypeOK, EventsNeverRejected, FreshElements

\* A worker takes a command: the abstract book ticks.
LEMMA Ticks ==
    ASSUME Ready, TakeCommand
    PROVE  /\ Abstract!Tick /\ phase = "idle"
           /\ taker = NoOrder /\ Incoming = NoOrder /\ logs = << >>
           /\ sequence' = sequence + 1
BY IncomingIs DEF Ready, LogsHeld, TakeCommand, Abstract!Tick

\* A create is an arrival: its id is new, so no resting order has it.
LEMMA CreateMaps == ASSUME Ready, Inv', Create PROVE Abstract!Next
<1>1. TakeCommand /\ book' = book /\ matchLogs' = matchLogs
    BY DEF Create
<1>2. PICK kind, side, limit, amount, nonce, price, o :
        /\ kind \in Kind /\ side \in Side /\ limit \in Price /\ amount \in Amount /\ nonce \in Nonce
        /\ price = IF kind = "LIMIT" THEN limit ELSE NoPrice
        /\ o = CreateOrder(kind, side, price, amount, nonce)
        /\ UniqueNonces => o.id \notin issued
        /\ BeginMatch(o, << >>)
    BY DEF Create
<1>3. PICK id : id = o.id
    OBVIOUS
<1>4. /\ o.side = side /\ o.kind = kind /\ o.price = price /\ o.amount = amount
      /\ id = [kind |-> kind, side |-> side, price |-> price, nonce |-> nonce]
    BY <1>2, <1>3 DEF CreateOrder
<1>5. id \in OrderID /\ o # NoOrder
  <2>1. price \in Price \cup {NoPrice}
      BY <1>2
  <2>2. taker' = o /\ phase' = "matching"
      BY <1>2 DEF BeginMatch
  <2>3. o # NoOrder
      BY <2>2 DEF Inv, TypeOK
  <2> QED BY <1>2, <1>4, <2>1, <2>3 DEF OrderID
<1>6. RestingOrders' = RestingOrders
    BY <1>1, ReadyFacts
<1>7. \A r \in RestingOrders : r.id # id
  <2>1. id \notin issued
      BY <1>2, <1>3 DEF Ready
  <2>2. \A x \in Elem : book.order[x] # NoOrder => book.order[x].id # id
      BY <2>1, ReadyFacts DEF Carries
  <2> QED BY <2>2, ReadyFacts DEF RestingIn, RestingAs
<1>8. /\ Incoming' = [id |-> id, side |-> side, market |-> kind = "MARKET",
                      price |-> IF kind = "MARKET" THEN 0 ELSE limit, amount |-> amount]
      /\ phase' = "matching" /\ Trades' = Trades
  <2>1. taker' = o /\ phase' = "matching" /\ logs' = logs
      BY <1>2 DEF BeginMatch
  <2>2. Trades' = Trades
      BY <1>1, <2>1, SameTrades DEF Ready
  <2>3. kind = "LIMIT" \/ kind = "MARKET"
      BY <1>2 DEF Kind
  <2>4. price = IF kind = "MARKET" THEN 0 ELSE limit
      BY <1>2, <2>3 DEF NoPrice
  <2>5. Incoming' = IncomingAs(o)
      BY <1>5, <2>1, IncomingIs
  <2> QED BY <1>3, <1>4, <2>1, <2>2, <2>4, <2>5 DEF IncomingAs
<1>9. Abstract!Arrive
  <2>1. side \in Abstract!Side /\ (kind = "MARKET") \in BOOLEAN
      BY <1>2 DEF Side, Abstract!Side
  <2>2. Abstract!Tick /\ phase = "idle"
      BY <1>1, Ticks
  <2> QED BY <1>2, <1>5, <1>6, <1>7, <1>8, <2>1, <2>2 DEF Abstract!Arrive
<1> QED BY <1>9 DEF Abstract!Next

\* A command that returns leaves no incoming order and no trade.
LEMMA Returned ==
    ASSUME Ready, Inv', TakeCommand, NEW events, Return(events), matchLogs' = matchLogs
    PROVE  /\ Incoming' = NoOrder /\ Trades' = Trades /\ phase' = "idle"
           /\ UNCHANGED <<Incoming, Trades, phase = "overflow">>
<1>1. phase = "idle" /\ Incoming = NoOrder /\ logs = << >>
    BY Ticks
<1>2. phase' = "idle" /\ taker' = NoOrder /\ logs' = << >>
    BY ReadyFacts DEF Return
<1>3. Incoming' = NoOrder
    BY <1>2, IncomingIs
<1>4. Trades' = Trades
    BY <1>1, <1>2, SameTrades DEF Ready
<1> QED BY <1>1, <1>2, <1>3, <1>4

\* A cancel takes a resting order out, or is ignored.
LEMMA CancelMaps == ASSUME Ready, Inv', Cancel PROVE Abstract!Next
<1>1. TakeCommand /\ matchLogs' = matchLogs
    BY DEF Cancel
<1>2. PICK id, result : /\ id \in issued
                        /\ result = RemoveOrder(book, id)
                        /\ book' = result.book
                        /\ Return(CancelEvents(result.removed))
    BY DEF Cancel
<1>3. Abstract!Tick /\ UNCHANGED <<Incoming, Trades, phase = "overflow">>
    BY <1>1, <1>2, Ticks, Returned
<1>4. CASE ~Located(book, id)
  <2>1. book' = book
      BY <1>2, <1>4 DEF RemoveOrder
  <2>2. RestingOrders' = RestingOrders
      BY <2>1, ReadyFacts
  <2> QED BY <1>3, <2>2 DEF Abstract!Next, Abstract!Ignore
<1>5. CASE Located(book, id)
  <2>1. PICK e : e = book.index[id]
      OBVIOUS
  <2>2. id \in OrderID
      BY <1>2, ReadyFacts
  <2>3. e \in Elem /\ book.order[e] # NoOrder
      BY <1>5, <2>1, <2>2, ReadyFacts DEF Located, Sound, Book
  <2>4. book' = RemoveElement(book, e)
      BY <1>2, <1>5, <2>1 DEF RemoveOrder
  <2>5. Unlinks(book, book', e)
      BY <2>3, <2>4, ReadyFacts, RemoveElementUnlinks
  <2>6. PICK r : r = RestingAs(e, book.order[e])
      OBVIOUS
  <2>7. r \in RestingOrders /\ RestingOrders' = RestingOrders \ {r}
      BY <2>3, <2>5, <2>6, ReadyFacts, UnlinkedResting
  <2> QED BY <1>3, <2>7 DEF Abstract!Next, Abstract!Cancel
<1> QED BY <1>4, <1>5

\* An edit keeps whose order it is and on which side.
LEMMA EditKeeps ==
    ASSUME NEW before \in Order, NEW after \in Order,
           after = [before EXCEPT !.price = after.price, !.amount = after.amount]
    PROVE  after.id = before.id /\ after.side = before.side
BY DEF Order

\* What an edit leaves of the order besides price and quantity.
LEMMA EditedIs ==
    ASSUME NEW before \in Order, CanRest(before), NEW after \in Order,
           after = [before EXCEPT !.price = after.price, !.amount = after.amount], NEW e
    PROVE  /\ after.price = before.price =>
                 RestingAs(e, after) = [id |-> before.id, side |-> before.side, price |-> before.price,
                                        amount |-> after.amount, arrival |-> e]
           /\ IncomingAs(after) = [id |-> before.id, side |-> before.side, market |-> FALSE,
                                   price |-> after.price, amount |-> after.amount]
           /\ after.amount \in Int /\ before.amount \in Int
<1>1. after.id = before.id /\ after.side = before.side /\ after.kind = "LIMIT"
    BY DEF Order, CanRest
<1>2. after.amount \in Int /\ before.amount \in Int
    BY DEF Order
<1> QED BY <1>1, <1>2 DEF RestingAs, IncomingAs

\* An amend ignores, reduces, increases or reprices.
LEMMA AmendMaps == ASSUME Ready, Inv', Amend PROVE Abstract!Next
<1>1. TakeCommand /\ matchLogs' = matchLogs
    BY DEF Amend
<1>2. PICK id, price, amount, edit, events :
          /\ id \in issued /\ price \in Price /\ amount \in Amount \cup {NoAmount}
          /\ edit = EditOrder(book, sequence + 1, id, price, amount)
          /\ events = AmendEvents(edit)
          /\ book' = edit.book
          /\ IF edit.rematch THEN BeginMatch(edit.after, events) ELSE Return(events)
    BY DEF Amend
<1>3. PICK e : e = sequence + 1
    OBVIOUS
<1>4. /\ e \in Elem /\ id \in OrderID /\ sequence' = e
      /\ \A x \in Elem : x >= e => book.order[x] = NoOrder
  <2>1. sequence < MaxElem /\ sequence' = sequence + 1
      BY <1>1 DEF TakeCommand
  <2>2. e \in Elem
      BY <1>3, <2>1, ReadyFacts DEF Elem
  <2>3. \A x \in Elem : x >= e => x > sequence
      BY <1>3, ReadyFacts DEF Elem
  <2> QED BY <1>2, <1>3, <2>1, <2>2, <2>3, ReadyFacts
<1>5. Abstract!Tick /\ phase = "idle" /\ logs = << >>
    BY <1>1, Ticks
<1>6. CASE edit = NoEdit(book)
  <2>1. book' = book /\ ~edit.rematch
      BY <1>2, <1>6 DEF NoEdit
  <2>2. Return(events)
      BY <1>2, <2>1
  <2>3. UNCHANGED <<RestingOrders, Incoming, Trades, phase = "overflow">>
      BY <1>1, <2>1, <2>2, ReadyFacts, Returned
  <2> QED BY <1>5, <2>3 DEF Abstract!Next, Abstract!Ignore
<1>7. CASE edit # NoEdit(book)
  <2>1. PICK at, before, after : at = book.index[id] /\ before = edit.before /\ after = edit.after
      OBVIOUS
  <2>2. EditsOrder(book, edit, e, at)
      BY <1>2, <1>3, <1>4, <1>7, <2>1, ReadyFacts, EditFacts
  <2>3. /\ at \in Elem /\ before = book.order[at] /\ before \in Order /\ before # NoOrder
        /\ after \in Order /\ CanRest(after)
        /\ after = [before EXCEPT !.price = after.price, !.amount = after.amount]
        /\ after.amount \in Amount \cup {before.amount}
      BY <2>1, <2>2, NoOrderAssumption DEF EditsOrder
  <2>4. CanRest(before)
      BY <2>3, ReadyFacts, RestingFacts DEF CanRest
  <2>5. PICK r : r = RestingAs(at, before)
      OBVIOUS
  <2>6. /\ r.id = before.id /\ r.side = before.side /\ r.price = before.price
        /\ r.amount = before.amount /\ r.arrival = at
        /\ before.amount \in Int /\ after.amount \in Int
      BY <2>3, <2>4, <2>5, EditedIs DEF RestingAs
  <2>7. CASE edit.rematch /\ after.price # before.price /\ Unlinks(book, book', at)
    <3>1. r \in RestingOrders /\ RestingOrders' = RestingOrders \ {r}
        BY <2>3, <2>5, <2>7, ReadyFacts, UnlinkedResting
    <3>2. taker' = after /\ logs' = logs /\ phase' = "matching"
        BY <1>2, <2>1, <2>7 DEF BeginMatch
    <3>3. Incoming' = [id |-> r.id, side |-> r.side, market |-> FALSE,
                       price |-> after.price, amount |-> after.amount]
      <4>1. Incoming' = IncomingAs(after)
          BY <2>3, <3>2, NoOrderAssumption, IncomingIs
      <4>2. IncomingAs(after) = [id |-> before.id, side |-> before.side, market |-> FALSE,
                                 price |-> after.price, amount |-> after.amount]
          BY <2>3, <2>4, EditedIs
      <4> QED BY <2>6, <4>1, <4>2
    <3>4. Trades' = Trades
        BY <1>1, <3>2, SameTrades DEF Ready
    <3>5. after.price \in Price \ {r.price} /\ after.amount \in Amount \cup {r.amount}
        BY <2>3, <2>6, <2>7 DEF CanRest
    <3>6. (phase = "overflow")' = (phase = "overflow")
        BY <1>5, <3>2
    <3>7. Abstract!Reprice
        BY <1>5, <3>1, <3>3, <3>4, <3>5, <3>6 DEF Abstract!Reprice
    <3> QED BY <3>7 DEF Abstract!Next
  <2>8. CASE /\ ~edit.rematch /\ after.price = before.price /\ after.amount < before.amount
             /\ Resizes(book, book', at, after.amount)
    <3>1. /\ r \in RestingOrders
          /\ RestingOrders' = (RestingOrders \ {r}) \cup {WithAmount(r, after.amount)}
      <4>1. /\ Sound(book) /\ book.order[at] # NoOrder /\ r = RestingAs(at, book.order[at])
            /\ RestingOrders = RestingIn(book) /\ RestingOrders' = RestingIn(book')
          BY <2>3, <2>5, ReadyFacts
      <4>2. /\ RestingAs(at, book.order[at]) \in RestingIn(book)
            /\ RestingIn(book') = (RestingIn(book) \ {RestingAs(at, book.order[at])})
                   \cup {WithAmount(RestingAs(at, book.order[at]), after.amount)}
          BY <2>3, <2>8, <4>1, ResizedResting
      <4> QED BY <4>1, <4>2
    <3>2. Return(events)
        BY <1>2, <2>8
    <3>3. UNCHANGED <<Incoming, Trades, phase = "overflow">>
        BY <1>1, <3>2, Returned
    <3>4. after.amount \in Amount /\ after.amount < r.amount
        BY <2>3, <2>6, <2>8
    <3>5. Abstract!Reduce
        BY <1>5, <3>1, <3>3, <3>4 DEF Abstract!Reduce, WithAmount
    <3> QED BY <3>5 DEF Abstract!Next
  <2>9. CASE /\ ~edit.rematch /\ after.price = before.price /\ after.amount > before.amount
             /\ \E mid : Unlinks(book, mid, at) /\ Sound(mid) /\ Links(mid, book', e, after)
    <3>1. PICK mid : Unlinks(book, mid, at) /\ Sound(mid) /\ Links(mid, book', e, after)
        BY <2>9
    <3>2. mid.order[e] = NoOrder
      <4>1. Shrinks(book, mid)
          BY <2>3, <3>1, ReadyFacts, UnlinkShrinks
      <4>2. e >= e
          BY <1>4 DEF Elem
      <4> QED BY <1>4, <4>1, <4>2 DEF Shrinks
    <3>3. r \in RestingOrders /\ RestingIn(mid) = RestingOrders \ {r}
        BY <2>3, <2>5, <3>1, ReadyFacts, UnlinkedResting
    <3>4. RestingOrders' = (RestingOrders \ {r}) \cup {RestingAs(e, after)}
      <4>1. RestingIn(book') = RestingIn(mid) \cup {RestingAs(e, after)}
        <5>1. PICK r2, o : r2 = book' /\ o = after
            OBVIOUS
        <5>2. /\ e \in Elem /\ o \in Order /\ Sound(mid) /\ mid.order[e] = NoOrder
              /\ Links(mid, r2, e, o)
            BY <1>4, <2>3, <3>1, <3>2, <5>1
        <5>3. GainsResting(mid, r2, e, o)
            BY <5>2, LinkedResting
        <5> QED BY <5>1, <5>3 DEF GainsResting
      <4> QED BY <3>3, <4>1, ReadyFacts
    <3>5. RestingAs(e, after) = [r EXCEPT !.amount = after.amount, !.arrival = sequence']
      <4>1. RestingAs(e, after) = [id |-> before.id, side |-> before.side, price |-> before.price,
                                   amount |-> after.amount, arrival |-> e]
        <5>1. after.price = before.price
            BY <2>9
        <5>2. after.id = before.id /\ after.side = before.side
            BY <2>3, <2>4, EditKeeps
        <5> QED BY <5>1, <5>2 DEF RestingAs
      <4>2. r = [id |-> before.id, side |-> before.side, price |-> before.price,
                 amount |-> before.amount, arrival |-> at]
          BY <2>5 DEF RestingAs
      <4>3. PICK n, q : n = after.amount /\ q = [r EXCEPT !.amount = n]
          OBVIOUS
      <4>4. [r EXCEPT !.amount = n, !.arrival = sequence'] = [q EXCEPT !.arrival = sequence']
          BY <4>3
      <4>5. q = [id |-> before.id, side |-> before.side, price |-> before.price,
                 amount |-> n, arrival |-> at]
          BY <4>2, <4>3
      <4>6. [q EXCEPT !.arrival = sequence'] =
              [id |-> before.id, side |-> before.side, price |-> before.price,
               amount |-> n, arrival |-> sequence']
          BY <4>5
      <4>7. RestingAs(e, after) = [q EXCEPT !.arrival = sequence']
          BY <1>4, <4>1, <4>3, <4>6
      <4> QED BY <4>3, <4>4, <4>7
    <3>6. Return(events)
        BY <1>2, <2>9
    <3>7. UNCHANGED <<Incoming, Trades, phase = "overflow">>
        BY <1>1, <3>6, Returned
    <3>8. after.amount \in Amount /\ after.amount > r.amount
        BY <2>3, <2>6, <2>9
    <3>9. Abstract!Increase
        BY <1>5, <3>3, <3>4, <3>5, <3>7, <3>8 DEF Abstract!Increase
    <3> QED BY <3>9 DEF Abstract!Next
  <2> QED BY <1>2, <2>1, <2>2, <2>7, <2>8, <2>9 DEF EditsOrder
<1> QED BY <1>6, <1>7

\* While it is matched, the taker is the incoming order.
LEMMA Matching ==
    ASSUME Ready, phase = "matching"
    PROVE  /\ taker \in Order /\ taker # NoOrder /\ Priced(taker) /\ taker.amount \in Int
           /\ 0 <= taker.amount /\ sequence \in Elem
           /\ Incoming = IncomingAs(taker) /\ Incoming # NoOrder
           /\ book.order[sequence] = NoOrder
<1>1. TakerLeft(beforeMatch, taker) /\ sequence \in Elem
    BY DEF Ready, Inv, MatchInProgress
<1>2. taker \in Order /\ taker # NoOrder /\ Priced(taker) /\ taker.amount \in Int /\ 0 <= taker.amount
    BY <1>1, NoOrderAssumption DEF TakerLeft, Priced, Order
<1>3. Incoming = IncomingAs(taker)
    BY <1>2, IncomingIs
<1>4. Incoming # NoOrder
  <2>1. /\ taker.id \in OrderID /\ taker.side \in Side /\ (taker.kind = "MARKET") \in BOOLEAN
        /\ taker.price \in Price \cup {NoPrice} /\ taker.amount \in Int
      BY <1>2 DEF Order
  <2>2. IncomingAs(taker) \in [id : OrderID, side : Side, market : BOOLEAN,
                               price : Price \cup {NoPrice}, amount : Int]
      BY <2>1 DEF IncomingAs
  <2> QED BY <1>3, <2>2, NoIncomingAssumption
<1>5. book.order[sequence] = NoOrder
    BY <1>1 DEF Ready, Inv, FreshElements
<1> QED BY <1>1, <1>2, <1>3, <1>4, <1>5

\* The maker crosses the incoming order and has priority on its side.
LEMMA MakerIsDue ==
    ASSUME Ready, phase = "matching", CanFill(book, taker), RestingOrders = RestingIn(book),
           NEW r, r = RestingAs(MakerElem(book, taker), Maker(book, taker))
    PROVE  r \in RestingOrders /\ Abstract!Crosses(Incoming, r) /\ Abstract!HasPriority(r)
<1>1. PICK e, m, p, s : /\ e = MakerElem(book, taker) /\ m = Maker(book, taker)
                        /\ p = OppositeBest(book, taker) /\ s = Opposite(taker.side)
    OBVIOUS
<1>2. /\ Sound(book) /\ taker \in Order /\ Priced(taker) /\ Incoming = IncomingAs(taker)
    BY Matching DEF Ready, Inv
<1>3. /\ e \in Elem /\ m = book.order[e] /\ m # NoOrder /\ m \in Order
      /\ m.side = s /\ m.price = p /\ p \in Price
    BY <1>1, <1>2, FillFacts
<1>4. r.id = m.id /\ r.side = s /\ r.price = p /\ r.amount = m.amount /\ r.arrival = e
    BY <1>1, <1>3 DEF RestingAs
<1>5. r \in RestingOrders
    BY <1>1, <1>3 DEF RestingIn
<1>6. Abstract!Crosses(Incoming, r)
  <2>1. CanMatchAtPrice(taker, p) /\ s # taker.side
      BY <1>1, <1>2, OppositeIsBest DEF CanFill
  <2>2. taker.side = "BID" \/ taker.side = "ASK"
      BY <1>2 DEF Order, Side
  <2>3. taker.price \in Int /\ p \in Int
      BY <1>2, <1>3, Prices DEF Order, NoPrice
  <2>4. taker.kind = "MARKET" \/ taker.price = p \/ Abstract!Better(taker.side, taker.price, p)
      BY <2>1, <2>2, <2>3 DEF CanMatchAtPrice, Abstract!Better
  <2> QED BY <1>2, <1>4, <2>1, <2>4 DEF Abstract!Crosses, IncomingAs
<1>7. Abstract!HasPriority(r)
  <2> SUFFICES ASSUME NEW y \in RestingOrders, y.side = r.side, y # r
               PROVE  Abstract!Better(r.side, r.price, y.price)
                         \/ (r.price = y.price /\ r.arrival < y.arrival)
      BY DEF Abstract!HasPriority
  <2>1. PICK x \in Elem : book.order[x] # NoOrder /\ y = RestingAs(x, book.order[x])
      BY DEF RestingIn
  <2>2. x # e
      BY <1>1, <1>3, <2>1
  <2>3. y.side = book.order[x].side /\ y.price = book.order[x].price /\ y.arrival = x
      BY <2>1 DEF RestingAs
  <2>4. \/ IF s = "BID" THEN p > book.order[x].price ELSE p < book.order[x].price
        \/ p = book.order[x].price /\ e < x
      BY <1>1, <1>2, <1>4, <2>1, <2>2, <2>3, MakerHasPriority
  <2> QED BY <1>4, <2>3, <2>4 DEF Abstract!Better
<1> QED BY <1>5, <1>6, <1>7

\* A quote that does not fit is a refusal of a trade that is due.
LEMMA OverflowMaps == ASSUME Ready, Inv', QuoteOverflow PROVE Abstract!Next
<1>1. /\ phase = "matching" /\ CanFill(book, taker) /\ phase' = "overflow"
      /\ book' = book /\ sequence' = sequence /\ taker' = taker /\ logs' = logs
      /\ matchLogs' = matchLogs
    BY DEF QuoteOverflow, command
<1>2. Incoming # NoOrder /\ Incoming = IncomingAs(taker) /\ Incoming' = Incoming
    BY <1>1, Matching, IncomingIs
<1>3. Incoming.amount > 0
    BY <1>1, <1>2 DEF CanFill, IncomingAs
<1>4. \E r \in RestingOrders : Abstract!Crosses(Incoming, r)
    BY <1>1, ReadyFacts, MakerIsDue
<1>5. Trades' = Trades
    BY <1>1, SameTrades DEF Ready
<1>6. RestingOrders' = RestingOrders
    BY <1>1, ReadyFacts
<1>7. Abstract!Refuse
    BY <1>1, <1>2, <1>3, <1>4, <1>5, <1>6 DEF Abstract!Refuse
<1> QED BY <1>7 DEF Abstract!Next

\* An iteration of the loop is a trade with the order that is due.
LEMMA FillMaps == ASSUME Ready, Inv', Fill PROVE Abstract!Next
<1>1. /\ phase = "matching" /\ CanFill(book, taker) /\ phase' = phase
      /\ book' = BookAfterFill(book, taker)
      /\ taker' = TakerAfterFill(book, taker)
      /\ logs' = Append(logs, MatchLog(book, taker, sequence, Len(logs)))
      /\ sequence' = sequence /\ matchLogs' = matchLogs
    BY DEF Fill
<1>2. /\ taker \in Order /\ taker.amount \in Int /\ sequence \in Nat
      /\ Incoming # NoOrder /\ Incoming = IncomingAs(taker)
    BY <1>1, Matching, ReadyFacts
<1>3. PICK e, m, n, r : /\ e = MakerElem(book, taker) /\ m = Maker(book, taker)
                        /\ n = TradeAmount(book, taker) /\ r = RestingAs(e, m)
    OBVIOUS
<1>4. /\ e \in Elem /\ m = book.order[e] /\ m # NoOrder /\ m \in Order /\ m.amount \in Int
      /\ m.price = OppositeBest(book, taker)
      /\ n \in Int /\ n > 0 /\ n <= taker.amount /\ n <= m.amount
    BY <1>1, <1>2, <1>3, ReadyFacts, FillFacts DEF Order
<1>5. r = [id |-> m.id, side |-> m.side, price |-> m.price, amount |-> m.amount, arrival |-> e]
    BY <1>3 DEF RestingAs
<1>6. r \in RestingOrders /\ Abstract!Crosses(Incoming, r) /\ Abstract!HasPriority(r)
    BY <1>1, <1>3, ReadyFacts, MakerIsDue
<1>7. Incoming = [id |-> taker.id, side |-> taker.side, market |-> taker.kind = "MARKET",
                  price |-> taker.price, amount |-> taker.amount]
    BY <1>2 DEF IncomingAs
<1>8. n = IF Incoming.amount < r.amount THEN Incoming.amount ELSE r.amount
    BY <1>3, <1>5, <1>7 DEF TradeAmount
<1>9. RestingOrders' = (RestingOrders \ {r})
          \cup (IF n = r.amount THEN {} ELSE {[r EXCEPT !.amount = @ - n]})
  <2>1. MakerFill(book, taker).remaining = m.amount - n
      BY <1>3 DEF MakerFill
  <2>2. CASE MakerFill(book, taker).remaining <= 0 /\ Unlinks(book, book', e)
    <3>1. n = r.amount
        BY <1>4, <1>5, <2>1, <2>2
    <3>2. RestingOrders' = RestingOrders \ {r}
        BY <1>3, <1>4, <2>2, ReadyFacts, UnlinkedResting
    <3> QED BY <3>1, <3>2
  <2>3. CASE MakerFill(book, taker).remaining > 0 /\ Resizes(book, book', e, m.amount - n)
    <3>1. n # r.amount
        BY <1>4, <1>5, <2>1, <2>3
    <3>2. PICK k : k = m.amount - n
        OBVIOUS
    <3>3. /\ Sound(book) /\ e \in Elem /\ book.order[e] # NoOrder /\ r = RestingAs(e, book.order[e])
          /\ RestingOrders = RestingIn(book) /\ RestingOrders' = RestingIn(book')
          /\ Resizes(book, book', e, k)
        BY <1>3, <1>4, <2>3, <3>2, ReadyFacts
    <3>4. /\ RestingAs(e, book.order[e]) \in RestingIn(book)
          /\ RestingIn(book') = (RestingIn(book) \ {RestingAs(e, book.order[e])})
                 \cup {WithAmount(RestingAs(e, book.order[e]), k)}
        BY <3>3, ResizedResting
    <3>5. [r EXCEPT !.amount = @ - n] = WithAmount(r, k)
        BY <1>5, <3>2 DEF WithAmount
    <3> QED BY <3>1, <3>3, <3>4, <3>5
  <2> QED BY <1>1, <1>2, <1>3, <2>1, <2>2, <2>3, ReadyFacts, FillUpdates
<1>10. Incoming' = [Incoming EXCEPT !.amount = @ - n]
  <2>1. taker' = [id |-> taker.id, kind |-> taker.kind, side |-> taker.side,
                  price |-> taker.price, amount |-> taker.amount - n]
      BY <1>1, <1>2, <1>3 DEF TakerAfterFill, Order
  <2>2. taker' # NoOrder
      BY <1>1 DEF Inv, TypeOK
  <2>3. Incoming' = IncomingAs(taker')
      BY <2>2, IncomingIs
  <2>4. Incoming' = [id |-> taker.id, side |-> taker.side, market |-> taker.kind = "MARKET",
                     price |-> taker.price, amount |-> taker.amount - n]
      BY <2>1, <2>3 DEF IncomingAs
  <2> QED BY <1>7, <2>4
<1>11. Trades' = Append(Trades, [taker |-> Incoming.id, maker |-> r.id, price |-> r.price, amount |-> n])
  <2>1. PICK log : log = MatchLog(book, taker, sequence, Len(logs))
      OBVIOUS
  <2>2. LogsHeld /\ Len(logs) \in Nat
      BY DEF Ready, LogsHeld
  <2>3. log \in LogRecord
      BY <1>1, <1>2, <2>1, <2>2, ReadyFacts, MatchLogTyped
  <2>4. Trades' = Append(Trades, TradeOf(log))
      BY <1>1, <2>1, <2>2, <2>3, NewTrade
  <2>5. /\ log.taker = taker.id /\ log.maker = m.id
        /\ log.price = m.price /\ log.amount = n
      BY <1>3, <1>4, <2>1 DEF MatchLog
  <2>6. TradeOf(log) = [taker |-> Incoming.id, maker |-> r.id, price |-> r.price, amount |-> n]
      BY <1>5, <1>7, <2>5 DEF TradeOf
  <2> QED BY <2>4, <2>6
<1>12. Incoming.amount > 0
    BY <1>1, <1>7 DEF CanFill
<1>13. Abstract!Trade
    BY <1>1, <1>2, <1>6, <1>8, <1>9, <1>10, <1>11, <1>12 DEF Abstract!Trade
<1> QED BY <1>13 DEF Abstract!Next

\* The end of the loop concludes: nothing crosses any more.
LEMMA SettleMaps == ASSUME Ready, Inv', Settle PROVE Abstract!Next
<1>1. /\ phase = "matching" /\ ~CanFill(book, taker)
      /\ matchLogs' = matchLogs \o logs
      /\ book' = IF Rests(taker) THEN AddOrder(book, sequence, taker) ELSE book
      /\ sequence' = sequence
    BY DEF Settle
<1>2. taker' = NoOrder /\ logs' = << >> /\ phase' = "idle"
    BY ReadyFacts DEF Settle, Return
<1>3. /\ taker \in Order /\ Priced(taker) /\ taker.amount \in Int /\ 0 <= taker.amount
      /\ sequence \in Elem /\ book.order[sequence] = NoOrder
      /\ Incoming # NoOrder /\ Incoming = IncomingAs(taker)
    BY <1>1, Matching
<1>4. /\ Incoming.id = taker.id /\ Incoming.side = taker.side /\ Incoming.price = taker.price
      /\ Incoming.amount = taker.amount /\ Incoming.market = (taker.kind = "MARKET")
    BY <1>3 DEF IncomingAs
<1>5. Incoming' = NoOrder
    BY <1>2, IncomingIs
<1>6. Incoming.amount = 0 \/ \A r \in RestingOrders : ~Abstract!Crosses(Incoming, r)
  <2> SUFFICES ASSUME Incoming.amount # 0, NEW r \in RestingOrders, Abstract!Crosses(Incoming, r)
               PROVE  FALSE
      OBVIOUS
  <2>1. PICK x \in Elem : book.order[x] # NoOrder /\ r = RestingAs(x, book.order[x])
      BY ReadyFacts DEF RestingIn
  <2>2. r.side = book.order[x].side /\ r.price = book.order[x].price
      BY <2>1 DEF RestingAs
  <2>3. book.order[x].side # taker.side /\ taker.amount > 0
      BY <1>3, <1>4, <2>2 DEF Abstract!Crosses
  <2>4. /\ taker.kind # "MARKET"
        /\ taker.price # r.price
        /\ ~(IF taker.side = "BID" THEN taker.price > r.price ELSE taker.price < r.price)
      BY <1>1, <1>3, <2>1, <2>2, <2>3, ReadyFacts, NothingCrosses
  <2> QED BY <1>4, <2>4 DEF Abstract!Crosses, Abstract!Better
<1>7. RestingOrders' = RestingOrders \cup
          (IF Incoming.amount = 0 \/ Incoming.market THEN {}
           ELSE {[id |-> Incoming.id, side |-> Incoming.side, price |-> Incoming.price,
                  amount |-> Incoming.amount, arrival |-> sequence]})
  <2>1. taker.kind = "LIMIT" \/ taker.kind = "MARKET"
      BY <1>3 DEF Order, Kind
  <2>2. CASE Rests(taker)
    <3>0. taker.amount > 0 /\ taker.kind = "LIMIT" /\ taker.kind # "MARKET"
        BY <2>2 DEF Rests
    <3>1. CanRest(taker) /\ Incoming.amount # 0 /\ ~Incoming.market
      <4>1. CanRest(taker) /\ Incoming.amount # 0
          BY <1>3, <1>4, <3>0 DEF CanRest, Priced
      <4>2. ~Incoming.market
          BY <1>4, <3>0, Zenon
      <4> QED BY <4>1, <4>2
    <3>2. Links(book, book', sequence, taker)
        BY <1>1, <1>3, <2>2, <3>1, ReadyFacts, AddOrderLinks
    <3>3. RestingOrders' = RestingOrders \cup {RestingAs(sequence, taker)}
      <4>1. PICK b, r, e, o : b = book /\ r = book' /\ e = sequence /\ o = taker
          OBVIOUS
      <4>2. /\ e \in Elem /\ o \in Order /\ Sound(b) /\ b.order[e] = NoOrder
            /\ Links(b, r, e, o)
          BY <1>3, <3>2, <4>1, ReadyFacts
      <4>3. GainsResting(b, r, e, o)
          BY <4>2, LinkedResting
      <4> QED BY <4>1, <4>3, ReadyFacts DEF GainsResting
    <3>4. RestingAs(sequence, taker)
          = [id |-> Incoming.id, side |-> Incoming.side, price |-> Incoming.price,
             amount |-> Incoming.amount, arrival |-> sequence]
        BY <1>4 DEF RestingAs
    <3> QED BY <3>1, <3>3, <3>4
  <2>3. CASE ~Rests(taker)
    <3>1. Incoming.amount = 0 \/ Incoming.market
      <4>1. ~(taker.amount > 0) \/ taker.kind = "MARKET"
          BY <2>1, <2>3 DEF Rests
      <4>2. CASE ~(taker.amount > 0)
        <5>1. Incoming.amount = 0
            BY <1>3, <1>4, <4>2
        <5> QED BY <5>1
      <4>3. CASE taker.kind = "MARKET"
          BY <1>4, <4>3, Zenon
      <4> QED BY <4>1, <4>2, <4>3
    <3>2. book' = book
        BY <1>1, <2>3
    <3>3. RestingOrders' = RestingOrders
        BY <3>2, ReadyFacts
    <3> QED BY <3>1, <3>3
  <2> QED BY <2>2, <2>3
<1>8. Trades' = Trades
  <2>1. logs \in Seq(LogRecord) /\ matchLogs \in Seq(LogRecord) /\ LogsHeld
      BY DEF Ready, LogsHeld
  <2>2. matchLogs \o logs \in Seq(LogRecord)
      BY <2>1
  <2>3. (matchLogs \o logs) \o << >> = matchLogs \o logs
      BY <2>2, ConcatEmptySeq
  <2> QED BY <1>1, <1>2, <2>1, <2>3, SameTrades
<1>9. Abstract!Conclude
    BY <1>1, <1>2, <1>3, <1>5, <1>6, <1>7, <1>8 DEF Abstract!Conclude
<1> QED BY <1>9 DEF Abstract!Next

\* A new worker's book is an empty abstract book.
LEMMA AbstractInit == Init => Abstract!Init
<1> SUFFICES ASSUME Init PROVE Abstract!Init
    OBVIOUS
<1>1. /\ book = EmptyBook /\ taker = NoOrder /\ sequence = 0 /\ phase = "idle"
      /\ logs = << >> /\ matchLogs = << >>
    BY DEF Init
<1>2. RestingOrders = {}
  <2>1. RestingOrders = RestingIn(EmptyBook)
      BY <1>1, EmptyBookSound, RestingOrdersAre
  <2>2. \A x \in Elem : EmptyBook.order[x] = NoOrder
      BY DEF EmptyBook
  <2> QED BY <2>1, <2>2 DEF RestingIn
<1>3. Incoming = NoOrder
    BY <1>1, IncomingIs
<1>4. Trades = << >>
  <2>1. Len(matchLogs \o logs) = 0
      BY <1>1
  <2>2. 1..Len(matchLogs \o logs) = {}
      BY <2>1
  <2> QED BY <2>2 DEF Trades
<1> QED BY <1>1, <1>2, <1>3, <1>4 DEF Abstract!Init

\* Every step is a step of the abstract book, or leaves it as it is.
LEMMA StepMaps == Ready /\ Inv' /\ [Next]_vars => [Abstract!Next]_(Abstract!vars)
<1> SUFFICES ASSUME Ready, Inv', [Next]_vars PROVE [Abstract!Next]_(Abstract!vars)
    OBVIOUS
<1>1. CASE UNCHANGED vars
  <2>1. /\ book' = book /\ sequence' = sequence /\ phase' = phase /\ taker' = taker
        /\ logs' = logs /\ matchLogs' = matchLogs
      BY <1>1 DEF vars, command
  <2>2. UNCHANGED Abstract!vars
      BY <2>1 DEF Abstract!vars, RestingOrders, Incoming, Trades
  <2> QED BY <2>2
<1>2. CASE Create
    BY <1>2, CreateMaps
<1>3. CASE Amend
    BY <1>3, AmendMaps
<1>4. CASE Cancel
    BY <1>4, CancelMaps
<1>5. CASE Fill
    BY <1>5, FillMaps
<1>6. CASE QuoteOverflow
    BY <1>6, OverflowMaps
<1>7. CASE Settle
    BY <1>7, SettleMaps
<1> QED BY <1>1, <1>2, <1>3, <1>4, <1>5, <1>6, <1>7 DEF Next

(***************************************************************************)
(* Every behaviour of applyCommand, its matching loop and its queues,      *)
(* heaps, levels and index, is a behaviour of a price-time priority book:  *)
(* a trade is always with the order that has priority, at its price, and   *)
(* an order keeps its place unless an edit gives it up.                    *)
(***************************************************************************)
THEOREM ImplementsPriceTimePriority == ASSUME UniqueNonces PROVE Spec => PriceTimePriority
<1>1. Init => Abstract!Init
    BY AbstractInit
<1>2. Init => IdsUnique /\ LogsHeld
    BY LogsInit, EmptyBookSound DEF Init, IdsUnique
<1>3. Inv /\ Inv' /\ IdsUnique /\ LogsHeld /\ [Next]_vars => IdsUnique' /\ LogsHeld'
    BY StepIds, LogsStep
<1>4. Inv /\ Inv' /\ IdsUnique /\ LogsHeld /\ [Next]_vars => [Abstract!Next]_(Abstract!vars)
    BY StepMaps DEF Ready
<1> QED BY <1>1, <1>2, <1>3, <1>4, Invariance, PTL DEF Spec, PriceTimePriority, Abstract!Spec

-----------------------------------------------------------------------------
(* One more event                                                          *)

\* The latest event of an order leaves it n at the price p.
Tells(h, id, n, p) ==
    \E i \in 1..Len(h) : Latest(h, id, i) /\ h[i].remaining = n /\ h[i].price = p

\* An order has no event yet.
Unheard(h, id) == \A i \in 1..Len(h) : h[i].id # id

\* The next event of the order may start at n and p.
Expects(h, id, n, p) == Unheard(h, id) \/ Tells(h, id, n, p)

\* The events of every order form a chain.
Chained(h) ==
    \A j \in 1..Len(h), i \in 1..Len(h) :
        Follows(h, j, i) =>
            /\ h[i].remaining > 0
            /\ h[j].previous = h[i].remaining
            /\ h[j].previousPrice = h[i].price

\* The sequence k is h with ev at its end.
Extends(h, k, ev) ==
    /\ h \in Seq(ValidEvents) /\ k \in Seq(ValidEvents) /\ ev \in ValidEvents
    /\ Len(k) = Len(h) + 1 /\ k[Len(k)] = ev
    /\ \A i \in 1..Len(h) : k[i] = h[i]

\* Append puts an event at the end.
LEMMA AppendExtends ==
    ASSUME NEW h \in Seq(ValidEvents), NEW ev \in ValidEvents
    PROVE  Extends(h, Append(h, ev), ev)
<1>1. PICK k : k = Append(h, ev)
    OBVIOUS
<1>2. k \in Seq(ValidEvents) /\ Len(k) = Len(h) + 1 /\ k[Len(h) + 1] = ev
      /\ \A i \in 1..Len(h) : k[i] = h[i]
    BY <1>1
<1> QED BY <1>1, <1>2 DEF Extends

\* An event that starts where the order's last one ended keeps the chain.
LEMMA ChainGrows ==
    ASSUME NEW h, NEW k, NEW ev, Extends(h, k, ev), Chained(h),
           Expects(h, ev.id, ev.previous, ev.previousPrice)
    PROVE  Chained(k)
<1>1. PICK n : n = Len(h)
    OBVIOUS
<1>2. /\ n \in Nat /\ Len(k) = n + 1 /\ k[n + 1] = ev /\ \A i \in 1..n : k[i] = h[i]
      /\ 1..n = 1..Len(h)
    BY <1>1 DEF Extends
<1>3. ev.previous > 0
    BY DEF Extends, ValidEvents, ValidEvent
<1> SUFFICES ASSUME NEW j \in 1..Len(k), NEW i \in 1..Len(k), Follows(k, j, i)
             PROVE  /\ k[i].remaining > 0
                    /\ k[j].previous = k[i].remaining
                    /\ k[j].previousPrice = k[i].price
    BY DEF Chained
<1>4. i < j /\ i \in 1..n /\ k[i] = h[i] /\ k[i].id = k[j].id
    BY <1>2 DEF Follows
<1>5. CASE j \in 1..n
  <2>1. \A x \in (i + 1)..(j - 1) : k[x] = h[x]
      BY <1>2, <1>4, <1>5
  <2>2. k[j] = h[j]
      BY <1>2, <1>5
  <2>3. Follows(h, j, i)
      BY <1>4, <2>1, <2>2 DEF Follows
  <2> QED BY <1>2, <1>4, <1>5, <2>2, <2>3 DEF Chained
<1>6. CASE j = n + 1
  <2>1. k[j] = ev
      BY <1>2, <1>6
  <2>2. \A x \in (i + 1)..n : h[x].id # ev.id
    <3>1. \A x \in (i + 1)..n : x \in 1..n /\ x \in (i + 1)..(j - 1)
        BY <1>2, <1>4, <1>6
    <3> QED BY <1>2, <2>1, <3>1 DEF Follows
  <2>3. h[i].id = ev.id
      BY <1>4, <2>1
  <2>4. Tells(h, ev.id, ev.previous, ev.previousPrice)
      BY <1>2, <1>4, <2>3 DEF Expects, Unheard
  <2>5. PICK l \in 1..n : Latest(h, ev.id, l) /\ h[l].remaining = ev.previous /\ h[l].price = ev.previousPrice
      BY <1>2, <2>4 DEF Tells
  <2>6. l = i
    <3>1. h[l].id = ev.id /\ \A x \in (l + 1)..n : h[x].id # ev.id
        BY <1>1, <2>5 DEF Latest
    <3>2. ~(l < i) /\ ~(i < l)
        BY <1>2, <1>4, <2>2, <2>3, <3>1
    <3> QED BY <1>2, <1>4, <3>2
  <2> QED BY <1>3, <1>4, <2>1, <2>5, <2>6
<1> QED BY <1>2, <1>5, <1>6

\* It is the latest of its order, and the latest of the others stay.
LEMMA LatestGrows ==
    ASSUME NEW h, NEW k, NEW ev, Extends(h, k, ev)
    PROVE  /\ Tells(k, ev.id, ev.remaining, ev.price)
           /\ \A id, n, p : id # ev.id /\ Tells(h, id, n, p) => Tells(k, id, n, p)
           /\ \A id : id # ev.id /\ Unheard(h, id) => Unheard(k, id)
<1>1. PICK m : m = Len(h)
    OBVIOUS
<1>2. /\ m \in Nat /\ Len(k) = m + 1 /\ k[m + 1] = ev /\ \A i \in 1..m : k[i] = h[i]
    BY <1>1 DEF Extends
<1>3. Tells(k, ev.id, ev.remaining, ev.price)
  <2>1. Latest(k, ev.id, m + 1)
      BY <1>2 DEF Latest
  <2> QED BY <1>2, <2>1 DEF Tells
<1>4. ASSUME NEW id, NEW n, NEW p, id # ev.id, Tells(h, id, n, p)
      PROVE  Tells(k, id, n, p)
  <2>1. PICK i \in 1..m : Latest(h, id, i) /\ h[i].remaining = n /\ h[i].price = p
      BY <1>1, <1>4 DEF Tells
  <2>2. Latest(k, id, i)
    <3>1. k[i].id = id
        BY <1>2, <2>1 DEF Latest
    <3>2. ASSUME NEW x \in (i + 1)..(m + 1) PROVE k[x].id # id
      <4>1. CASE x = m + 1
          BY <1>2, <1>4, <4>1
      <4>2. CASE x \in (i + 1)..m
        <5>1. x \in 1..m /\ h[x].id # id
            BY <1>1, <1>2, <2>1, <4>2 DEF Latest
        <5> QED BY <1>2, <5>1
      <4> QED BY <1>2, <4>1, <4>2
    <3> QED BY <1>2, <3>1, <3>2 DEF Latest
  <2> QED BY <1>2, <2>1, <2>2 DEF Tells
<1>5. ASSUME NEW id, id # ev.id, Unheard(h, id)
      PROVE  Unheard(k, id)
  <2>1. \A i \in 1..(m + 1) : i \in 1..m \/ i = m + 1
      BY <1>2
  <2> QED BY <1>1, <1>2, <1>5, <2>1 DEF Unheard
<1> QED BY <1>3, <1>4, <1>5

-----------------------------------------------------------------------------
(* What the book says of an order                                          *)

\* The order has n left at the price p, or does not rest and n is nothing.
Shows(b, id, n, p) ==
    IF b.index[id] = NoElem THEN n = 0
    ELSE n = b.order[b.index[id]].amount /\ p = b.order[b.index[id]].price

\* The order's latest event tells what the book shows of it.
Agrees(h, b, id) == \E n, p : Tells(h, id, n, p) /\ Shows(b, id, n, p)

\* Books b and r show the same of every order but one.
SameBut(b, r, id) ==
    \A i \in OrderID : i # id => \A n, p : Shows(b, i, n, p) => Shows(r, i, n, p)

\* What is told of a resting order.
LEMMA RestingIsShown ==
    ASSUME NEW b, Sound(b), Indexed(b), NEW e \in Elem, b.order[e] # NoOrder, NEW h,
           Agrees(h, b, b.order[e].id)
    PROVE  Tells(h, b.order[e].id, b.order[e].amount, b.order[e].price)
<1>1. b.index[b.order[e].id] = e /\ e # NoElem
    BY DEF Indexed, Elem, NoElem
<1> QED BY <1>1 DEF Agrees, Shows

\* An order that does not rest.
LEMMA AbsentIsShown ==
    ASSUME NEW b, Sound(b), Indexed(b), NEW id \in OrderID, ~Carries(b, id)
    PROVE  \A p : Shows(b, id, 0, p)
<1>1. b.index[id] \in Elem \cup {NoElem}
    BY DEF Sound, Book
<1>2. b.index[id] = NoElem
    BY <1>1 DEF Indexed, Carries
<1> QED BY <1>2 DEF Shows

\* What a removal leaves of the others, and of the order it removes.
LEMMA UnlinkShows ==
    ASSUME NEW b, Sound(b), Indexed(b), NEW r, NEW e \in Elem, b.order[e] # NoOrder, Unlinks(b, r, e)
    PROVE  SameBut(b, r, b.order[e].id) /\ \A p : Shows(r, b.order[e].id, 0, p)
<1>1. PICK o : o = b.order[e]
    OBVIOUS
<1>0. o.id \in OrderID /\ b \in Book
    BY <1>1, RestingFacts
<1>2. /\ o.id \in OrderID /\ b.index \in [OrderID -> Elem \cup {NoElem}]
      /\ b.order \in [Elem -> Order \cup {NoOrder}]
      /\ r.order = [b.order EXCEPT ![e] = NoOrder] /\ r.index = [b.index EXCEPT ![o.id] = NoElem]
    BY <1>0, <1>1 DEF Unlinks, Book
<1>3. ASSUME NEW i \in OrderID, NEW n, NEW p, i # o.id, Shows(b, i, n, p)
      PROVE  Shows(r, i, n, p)
  <2>1. PICK x : x = b.index[i]
      OBVIOUS
  <2>2. r.index[i] = x /\ x \in Elem \cup {NoElem}
      BY <1>2, <1>3, <2>1
  <2>3. CASE x = NoElem
      BY <1>3, <2>1, <2>2, <2>3 DEF Shows
  <2>4. CASE x # NoElem
    <3>1. x \in Elem /\ b.order[x].id = i
        BY <2>1, <2>2, <2>4 DEF Indexed
    <3>2. r.order[x] = b.order[x]
        BY <1>1, <1>2, <1>3, <3>1
    <3> QED BY <1>3, <2>1, <2>2, <2>4, <3>2 DEF Shows
  <2> QED BY <2>3, <2>4
<1>4. r.index[o.id] = NoElem
    BY <1>2
<1> QED BY <1>1, <1>3, <1>4 DEF SameBut, Shows

\* What adding an order shows of it, and leaves of the others.
LEMMA LinkShows ==
    ASSUME NEW b, Sound(b), Indexed(b), NEW r, NEW e \in Elem, b.order[e] = NoOrder,
           NEW o \in Order, Links(b, r, e, o)
    PROVE  SameBut(b, r, o.id) /\ Shows(r, o.id, o.amount, o.price)
<1>2. /\ o.id \in OrderID /\ b.index \in [OrderID -> Elem \cup {NoElem}]
      /\ b.order \in [Elem -> Order \cup {NoOrder}]
      /\ r.order = [b.order EXCEPT ![e] = o] /\ r.index = [b.index EXCEPT ![o.id] = e]
    BY DEF Links, Sound, Book, Order
<1>3. ASSUME NEW i \in OrderID, NEW n, NEW p, i # o.id, Shows(b, i, n, p)
      PROVE  Shows(r, i, n, p)
  <2>1. PICK x : x = b.index[i]
      OBVIOUS
  <2>2. r.index[i] = x /\ x \in Elem \cup {NoElem}
      BY <1>2, <1>3, <2>1
  <2>3. CASE x = NoElem
      BY <1>3, <2>1, <2>2, <2>3 DEF Shows
  <2>4. CASE x # NoElem
    <3>1. x \in Elem /\ b.order[x] # NoOrder
        BY <2>1, <2>2, <2>4 DEF Indexed
    <3>2. r.order[x] = b.order[x]
        BY <1>2, <3>1
    <3> QED BY <1>3, <2>1, <2>2, <2>4, <3>2 DEF Shows
  <2> QED BY <2>3, <2>4
<1>0. e # NoElem
    BY DEF Elem, NoElem
<1>4. r.index[o.id] = e /\ e # NoElem /\ r.order[e] = o
    BY <1>0, <1>2
<1> QED BY <1>3, <1>4 DEF SameBut, Shows

\* What a new amount shows of its order, and leaves of the others.
LEMMA ResizeShows ==
    ASSUME NEW b, Sound(b), Indexed(b), NEW r, NEW e \in Elem, b.order[e] # NoOrder,
           NEW n, Resizes(b, r, e, n)
    PROVE  SameBut(b, r, b.order[e].id) /\ Shows(r, b.order[e].id, n, b.order[e].price)
<1>1. PICK o : o = b.order[e]
    OBVIOUS
<1>2. /\ o \in Order /\ b.index \in [OrderID -> Elem \cup {NoElem}]
      /\ b.order \in [Elem -> Order \cup {NoOrder}]
      /\ r.order = [b.order EXCEPT ![e] = [@ EXCEPT !.amount = n]] /\ r.index = b.index
    BY <1>1, RestingFacts DEF Resizes, Book
<1>3. ASSUME NEW i \in OrderID, NEW m, NEW p, i # o.id, Shows(b, i, m, p)
      PROVE  Shows(r, i, m, p)
  <2>1. PICK x : x = b.index[i]
      OBVIOUS
  <2>2. r.index[i] = x /\ x \in Elem \cup {NoElem}
      BY <1>2, <1>3, <2>1
  <2>3. CASE x = NoElem
      BY <1>3, <2>1, <2>2, <2>3 DEF Shows
  <2>4. CASE x # NoElem
    <3>1. x \in Elem /\ b.order[x].id = i
        BY <2>1, <2>2, <2>4 DEF Indexed
    <3>2. r.order[x] = b.order[x]
        BY <1>1, <1>2, <1>3, <3>1
    <3> QED BY <1>3, <2>1, <2>2, <2>4, <3>2 DEF Shows
  <2> QED BY <2>3, <2>4
<1>4. r.index[o.id] = e /\ e # NoElem
    BY <1>1, <1>2 DEF Elem, NoElem, Indexed
<1>5. r.order[e] = [o EXCEPT !.amount = n]
    BY <1>1, <1>2
<1>6. r.order[e].amount = n /\ r.order[e].price = o.price
    BY <1>2, <1>5 DEF Order
<1> QED BY <1>1, <1>3, <1>4, <1>6 DEF SameBut, Shows

-----------------------------------------------------------------------------
(* One more event and one other order                                      *)

\* The history h and the book b tell the same story of the orders ids.
Explains(h, b, ids) ==
    /\ h \in Seq(ValidEvents) /\ Chained(h)
    /\ \A id \in ids : Agrees(h, b, id)

\* What ev adds to h is what changes from b to r.
Accounts(h, b, r, ev) ==
    /\ ev \in ValidEvents
    /\ Expects(h, ev.id, ev.previous, ev.previousPrice)
    /\ SameBut(b, r, ev.id)

\* Only the orders ids have events.
HeardOnly(h, ids) == \A i \in 1..Len(h) : h[i].id \in ids

\* What stays and what comes with ev.
Follow(h, k, ev) ==
    /\ Tells(k, ev.id, ev.remaining, ev.price)
    /\ \A id, n, p : id # ev.id /\ Tells(h, id, n, p) => Tells(k, id, n, p)
    /\ \A id : id # ev.id /\ Unheard(h, id) => Unheard(k, id)

\* An event that accounts for a change keeps the history in line.
LEMMA EventExplains ==
    ASSUME NEW h, NEW b, NEW r, NEW ev, NEW ids \in SUBSET OrderID,
           Explains(h, b, ids), Accounts(h, b, r, ev),
           ev.id \in ids => Shows(r, ev.id, ev.remaining, ev.price)
    PROVE  Explains(Append(h, ev), r, ids) /\ Follow(h, Append(h, ev), ev)
<1>1. PICK k : k = Append(h, ev)
    OBVIOUS
<1>2. Extends(h, k, ev)
    BY <1>1, AppendExtends DEF Explains, Accounts
<1>3. Chained(k) /\ k \in Seq(ValidEvents)
    BY <1>2, ChainGrows DEF Explains, Accounts, Extends
<1>4. Follow(h, k, ev)
    BY <1>2, LatestGrows DEF Follow
<1>5. ASSUME NEW id \in ids PROVE Agrees(k, r, id)
  <2>1. CASE id = ev.id
      BY <1>4, <2>1 DEF Follow, Agrees
  <2>2. CASE id # ev.id
    <3>1. PICK n, p : Tells(h, id, n, p) /\ Shows(b, id, n, p)
        BY DEF Explains, Agrees
    <3>2. Tells(k, id, n, p)
        BY <1>4, <2>2, <3>1 DEF Follow
    <3>3. Shows(r, id, n, p)
        BY <2>2, <3>1 DEF Accounts, SameBut
    <3> QED BY <3>2, <3>3 DEF Agrees
  <2> QED BY <2>1, <2>2
<1> QED BY <1>1, <1>3, <1>4, <1>5 DEF Explains

\* The orders heard of.
LEMMA HeardGrows ==
    ASSUME NEW h \in Seq(ValidEvents), NEW ev \in ValidEvents, NEW ids, HeardOnly(h, ids), ev.id \in ids
    PROVE  HeardOnly(Append(h, ev), ids)
<1>1. PICK k : k = Append(h, ev)
    OBVIOUS
<1>2. Extends(h, k, ev) /\ Len(h) \in Nat
    BY <1>1, AppendExtends
<1>3. \A i \in 1..(Len(h) + 1) : i \in 1..Len(h) \/ i = Len(h) + 1
    BY <1>2
<1> QED BY <1>1, <1>2, <1>3 DEF Extends, HeardOnly

\* The fields of an amend's event,
LEMMA AmendedFields ==
    ASSUME NEW before, NEW after
    PROVE  /\ AmendedEvent(before, after).id = after.id
           /\ AmendedEvent(before, after).previous = before.amount
           /\ AmendedEvent(before, after).previousPrice = before.price
           /\ AmendedEvent(before, after).remaining = after.amount
           /\ AmendedEvent(before, after).price = after.price
           /\ AmendedEvent(before, after).filled = 0
BY DEF AmendedEvent, Event

\* of a cancel's,
LEMMA CanceledFields ==
    ASSUME NEW o
    PROVE  /\ CanceledEvent(o).id = o.id
           /\ CanceledEvent(o).previous = o.amount
           /\ CanceledEvent(o).previousPrice = o.price
           /\ CanceledEvent(o).remaining = 0
           /\ CanceledEvent(o).filled = 0
BY DEF CanceledEvent, Event

\* of an execution's,
LEMMA FillFields ==
    ASSUME NEW o, NEW previous, NEW filled, NEW remaining
    PROVE  /\ FillEvent(o, previous, filled, remaining).id = o.id
           /\ FillEvent(o, previous, filled, remaining).previous = previous
           /\ FillEvent(o, previous, filled, remaining).previousPrice = o.price
           /\ FillEvent(o, previous, filled, remaining).remaining = remaining
           /\ FillEvent(o, previous, filled, remaining).price = o.price
           /\ FillEvent(o, previous, filled, remaining).filled = filled
BY DEF FillEvent, Event

\* and of those of a residual that rests or is dropped.
LEMMA ResidualFields ==
    ASSUME NEW o, NEW n
    PROVE  /\ RestingEvent(o).id = o.id /\ RestingEvent(o).filled = 0
           /\ RestingEvent(o).previous = o.amount /\ RestingEvent(o).previousPrice = o.price
           /\ RestingEvent(o).remaining = o.amount /\ RestingEvent(o).price = o.price
           /\ RemainderCanceledEvent(o, n).id = o.id /\ RemainderCanceledEvent(o, n).filled = 0
           /\ RemainderCanceledEvent(o, n).previous = n
           /\ RemainderCanceledEvent(o, n).previousPrice = o.price
           /\ RemainderCanceledEvent(o, n).remaining = 0
BY DEF RestingEvent, RemainderCanceledEvent, Event

-----------------------------------------------------------------------------
(* The events of the operations                                            *)

\* A cancel takes one order out and says so, or does nothing.
LEMMA RemoveAccounts ==
    ASSUME NEW b, Sound(b), Indexed(b), NEW id \in OrderID,
           NEW h, NEW ids \in SUBSET OrderID, \A i : Carries(b, i) => i \in ids, Explains(h, b, ids),
           NEW result, result = RemoveOrder(b, id)
    PROVE  \/ result.book = b /\ CancelEvents(result.removed) = << >>
           \/ \E ev : /\ CancelEvents(result.removed) = <<ev>>
                      /\ ev.id \in ids /\ Accounts(h, b, result.book, ev)
                      /\ Shows(result.book, ev.id, ev.remaining, ev.price)
<1>1. CASE ~Located(b, id)
  <2>1. result = [book |-> b, removed |-> NoOrder]
      BY <1>1 DEF RemoveOrder
  <2> QED BY <2>1 DEF CancelEvents
<1>2. CASE Located(b, id)
  <2>1. PICK e, o, r : e = b.index[id] /\ o = b.order[e] /\ r = RemoveElement(b, e)
      OBVIOUS
  <2>2. result = [book |-> r, removed |-> o]
      BY <1>2, <2>1 DEF RemoveOrder
  <2>3. e \in Elem /\ b.order[e] # NoOrder
      BY <1>2, <2>1 DEF Located, Sound, Book
  <2>4. o \in Order /\ CanRest(o) /\ o # NoOrder
      BY <2>1, <2>3, RestingFacts DEF Sound
  <2>5. Unlinks(b, r, e)
      BY <2>1, <2>3, RemoveElementUnlinks
  <2>6. SameBut(b, r, o.id) /\ \A p : Shows(r, o.id, 0, p)
      BY <2>1, <2>3, <2>5, UnlinkShows
  <2>7. o.id \in ids
      BY <2>1, <2>3 DEF Carries
  <2>8. Tells(h, o.id, o.amount, o.price)
      BY <2>1, <2>3, <2>7, RestingIsShown DEF Explains
  <2>9. PICK ev : ev = CanceledEvent(o)
      OBVIOUS
  <2>10. ev \in ValidEvents
      BY <2>4, <2>9, RestingIsPriced, OtherEventsAreValid
  <2>11. ev.id = o.id /\ ev.previous = o.amount /\ ev.previousPrice = o.price /\ ev.remaining = 0
      BY <2>9, CanceledFields
  <2>12. Accounts(h, b, r, ev) /\ Shows(r, ev.id, ev.remaining, ev.price)
      BY <2>6, <2>8, <2>10, <2>11 DEF Accounts, Expects
  <2> QED BY <2>2, <2>4, <2>7, <2>9, <2>11, <2>12 DEF CancelEvents
<1> QED BY <1>1, <1>2

\* So does an amend; an order that is matched again is not shown any more.
LEMMA EditAccounts ==
    ASSUME NEW b, Sound(b), Indexed(b), NEW e \in Elem, b.order[e] = NoOrder, NEW id \in OrderID,
           NEW price \in Price, NEW amount \in Amount \cup {NoAmount},
           NEW h, NEW ids \in SUBSET OrderID, \A i : Carries(b, i) => i \in ids, Explains(h, b, ids),
           NEW edit, edit = EditOrder(b, e, id, price, amount)
    PROVE  \/ edit.book = b /\ ~edit.rematch /\ AmendEvents(edit) = << >>
           \/ \E ev : /\ AmendEvents(edit) = <<ev>>
                      /\ ev.id = edit.after.id /\ ev.id \in ids /\ Accounts(h, b, edit.book, ev)
                      /\ ev.remaining = edit.after.amount /\ ev.price = edit.after.price
                      /\ edit.rematch \/ Shows(edit.book, ev.id, ev.remaining, ev.price)
<1>1. PICK at : at = b.index[id]
    OBVIOUS
<1>2. edit = NoEdit(b) \/ EditsOrder(b, edit, e, at)
    BY <1>1, EditFacts
<1>3. CASE edit = NoEdit(b)
    BY <1>3 DEF NoEdit, AmendEvents
<1>4. CASE EditsOrder(b, edit, e, at)
  <2>1. PICK r, o, after : r = edit.book /\ o = edit.before /\ after = edit.after
      OBVIOUS
  <2>2. /\ at \in Elem /\ o = b.order[at] /\ o \in Order /\ o # NoOrder
        /\ after \in Order /\ CanRest(after) /\ after.id = o.id
        /\ after = [o EXCEPT !.price = after.price, !.amount = after.amount]
    <3>1. /\ at \in Elem /\ o = b.order[at] /\ o \in Order
          /\ after \in Order /\ CanRest(after)
          /\ after = [o EXCEPT !.price = after.price, !.amount = after.amount]
        BY <1>4, <2>1 DEF EditsOrder
    <3> QED BY <3>1, NoOrderAssumption DEF Order
  <2>3. CanRest(o) /\ b.order[at] # NoOrder
      BY <2>2 DEF Sound
  <2>4. o.id \in ids /\ Tells(h, o.id, o.amount, o.price)
    <3>1. o.id \in ids
        BY <2>2 DEF Carries
    <3> QED BY <2>2, <2>3, <3>1, RestingIsShown DEF Explains
  <2>5. SameBut(b, r, o.id) /\ (edit.rematch \/ Shows(r, o.id, after.amount, after.price))
    <3>1. \/ edit.rematch /\ Unlinks(b, r, at)
          \/ after.price = o.price /\ Resizes(b, r, at, after.amount)
          \/ \E mid : Unlinks(b, mid, at) /\ Sound(mid) /\ Links(mid, r, e, after)
        BY <1>4, <2>1 DEF EditsOrder
    <3>2. CASE edit.rematch /\ Unlinks(b, r, at)
        BY <2>2, <2>3, <3>2, UnlinkShows
    <3>3. CASE after.price = o.price /\ Resizes(b, r, at, after.amount)
        BY <2>2, <2>3, <3>3, ResizeShows
    <3>4. CASE \E mid : Unlinks(b, mid, at) /\ Sound(mid) /\ Links(mid, r, e, after)
      <4>1. PICK mid : Unlinks(b, mid, at) /\ Sound(mid) /\ Links(mid, r, e, after)
          BY <3>4
      <4>2. SameBut(b, mid, o.id)
          BY <2>2, <2>3, <4>1, UnlinkShows
      <4>3. Indexed(mid) /\ mid.order[e] = NoOrder
        <5>1. Keeps(b, mid) /\ Shrinks(b, mid)
            BY <2>3, <2>2, <4>1, UnlinkShrinks
        <5> QED BY <5>1 DEF Keeps, Shrinks
      <4>4. SameBut(mid, r, after.id) /\ Shows(r, after.id, after.amount, after.price)
          BY <2>2, <4>1, <4>3, LinkShows
      <4> QED BY <2>2, <4>2, <4>4 DEF SameBut
    <3> QED BY <3>1, <3>2, <3>3, <3>4
  <2>6. PICK ev : ev = AmendedEvent(o, after)
      OBVIOUS
  <2>7. ev \in ValidEvents
      BY <2>2, <2>3, <2>6, RestingIsPriced, OtherEventsAreValid
  <2>8. /\ ev.id = after.id /\ ev.previous = o.amount /\ ev.previousPrice = o.price
        /\ ev.remaining = after.amount /\ ev.price = after.price
      BY <2>6, AmendedFields
  <2>9. Accounts(h, b, r, ev)
      BY <2>2, <2>4, <2>5, <2>7, <2>8 DEF Accounts, Expects
  <2>10. AmendEvents(edit) = <<ev>>
      BY <2>1, <2>2, <2>6 DEF AmendEvents
  <2> QED BY <2>1, <2>2, <2>4, <2>5, <2>8, <2>9, <2>10
<1> QED BY <1>2, <1>3, <1>4

\* A fill says what it does to the maker.
LEMMA FillAccounts ==
    ASSUME NEW b, Sound(b), Indexed(b), NEW o \in Order, CanFill(b, o),
           NEW h, NEW ids \in SUBSET OrderID, Explains(h, b, ids), Maker(b, o).id \in ids,
           NEW f, f = MakerFill(b, o),
           NEW ev, ev = FillEvent(f.order, f.order.amount, f.filled, f.remaining)
    PROVE  /\ ev.id = Maker(b, o).id /\ Accounts(h, b, BookAfterFill(b, o), ev)
           /\ Shows(BookAfterFill(b, o), ev.id, ev.remaining, ev.price)
<1>1. PICK e, m, n, r : /\ e = MakerElem(b, o) /\ m = Maker(b, o) /\ n = TradeAmount(b, o)
                        /\ r = BookAfterFill(b, o)
    OBVIOUS
<1>2. /\ e \in Elem /\ m = b.order[e] /\ m # NoOrder /\ m \in Order
      /\ n \in Int /\ n > 0 /\ n <= m.amount
    BY <1>1, FillFacts
<1>3. CanRest(m) /\ Priced(m) /\ m.amount \in Int
    BY <1>2, RestingIsPriced DEF Sound
<1>4. f = [order |-> m, filled |-> n, remaining |-> m.amount - n]
    BY <1>1 DEF MakerFill
<1>5. PICK left : left = m.amount - n
    OBVIOUS
<1>6. left \in Int /\ left >= 0 /\ m.amount = n + left
    BY <1>2, <1>3, <1>5
<1>7. ev = FillEvent(m, m.amount, n, left)
    BY <1>4, <1>5
<1>8. ev \in ValidEvents
    BY <1>2, <1>3, <1>6, <1>7, FillEventIsValid
<1>9. /\ ev.id = m.id /\ ev.previous = m.amount /\ ev.previousPrice = m.price
      /\ ev.remaining = left /\ ev.price = m.price
    BY <1>7, FillFields
<1>10. Tells(h, m.id, m.amount, m.price)
    BY <1>1, <1>2, RestingIsShown DEF Explains
<1>11. \/ left <= 0 /\ Unlinks(b, r, e)
       \/ left > 0 /\ Resizes(b, r, e, left)
  <2>1. f.remaining = left
      BY <1>4, <1>5
  <2> QED BY <1>1, <2>1, FillUpdates
<1>12. SameBut(b, r, m.id) /\ Shows(r, m.id, left, m.price)
  <2>1. CASE left <= 0 /\ Unlinks(b, r, e)
    <3>1. left = 0
        BY <1>6, <2>1
    <3> QED BY <1>2, <2>1, <3>1, UnlinkShows
  <2>2. CASE Resizes(b, r, e, left)
      BY <1>2, <2>2, ResizeShows
  <2> QED BY <1>11, <2>1, <2>2
<1> QED BY <1>1, <1>8, <1>9, <1>10, <1>12 DEF Accounts, Expects

-----------------------------------------------------------------------------
(* What is published and what is collected                                 *)

\* The published events, those that a command added before Match, and those
\* of the makers it has executed.
Story(h, amended, fills) == h \o (amended \o MakerFillEvents(fills))

\* Concatenation.
Joined(x, y) == x \o y

\* It stays within the valid events,
LEMMA Joins ==
    ASSUME NEW x \in Seq(ValidEvents), NEW y \in Seq(ValidEvents)
    PROVE  Joined(x, y) \in Seq(ValidEvents)
BY DEF Joined

\* and may be bracketed either way.
LEMMA Associates ==
    ASSUME NEW x \in Seq(ValidEvents), NEW y \in Seq(ValidEvents), NEW z \in Seq(ValidEvents)
    PROVE  Joined(x, Joined(y, z)) = Joined(Joined(x, y), z)
<1>1. x \o (y \o z) = (x \o y) \o z
    OBVIOUS
<1> QED BY <1>1, Zenon DEF Joined

\* Between commands it is what is published.
LEMMA StoryPublished ==
    ASSUME NEW h \in Seq(ValidEvents)
    PROVE  Story(h, << >>, << >>) = h
<1>1. MakerFillEvents(<< >>) = << >>
  <2>1. MakerFillEvents(<< >>) \in Seq(ValidEvents) /\ DOMAIN MakerFillEvents(<< >>) = DOMAIN << >>
    <3>1. << >> \in Seq(MakerFills)
        OBVIOUS
    <3> QED BY <3>1, MakerFillsAreValid DEF MakerFillEvents
  <2>2. PICK s : s = MakerFillEvents(<< >>)
      OBVIOUS
  <2>3. s \in Seq(ValidEvents) /\ DOMAIN s = {}
      BY <2>1, <2>2
  <2>4. s = << >>
      BY <2>3
  <2> QED BY <2>2, <2>4
<1>2. << >> \in Seq(ValidEvents)
    OBVIOUS
<1> QED BY <1>1, <1>2, ConcatEmptySeq DEF Story

\* An amend's event comes first.
LEMMA StoryBegins ==
    ASSUME NEW h \in Seq(ValidEvents), NEW ev \in ValidEvents
    PROVE  Story(h, <<ev>>, << >>) = Append(h, ev) /\ h \o <<ev>> = Append(h, ev)
<1>1. <<ev>> \in Seq(ValidEvents) /\ << >> \in Seq(MakerFills)
    OBVIOUS
<1>2. Story(h, <<ev>>, << >>) = h \o Story(<<ev>>, << >>, << >>)
  <2>1. PICK s : s = MakerFillEvents(<< >>)
      OBVIOUS
  <2>2. s \in Seq(ValidEvents)
      BY <1>1, <2>1, MakerFillsAreValid
  <2>3. << >> \o s = s /\ << >> \in Seq(ValidEvents)
      BY <2>2, ConcatEmptySeq
  <2> QED BY <2>1, <2>3 DEF Story
<1>3. Story(<<ev>>, << >>, << >>) = <<ev>>
    BY <1>1, StoryPublished
<1>4. h \o <<ev>> = Append(h, ev)
    BY <1>1, AppendIsConcat
<1> QED BY <1>2, <1>3, <1>4

\* An execution adds the maker's event.
LEMMA StoryGrows ==
    ASSUME NEW h \in Seq(ValidEvents), NEW amended \in Seq(ValidEvents),
           NEW fills \in Seq(MakerFills), NEW f \in MakerFills,
           NEW ev, ev = FillEvent(f.order, f.order.amount, f.filled, f.remaining)
    PROVE  Story(h, amended, Append(fills, f)) = Append(Story(h, amended, fills), ev) /\ ev \in ValidEvents
<1>1. PICK s, t : s = MakerFillEvents(fills) /\ t = MakerFillEvents(Append(fills, f))
    OBVIOUS
<1>2. Append(fills, f) \in Seq(MakerFills)
    OBVIOUS
<1>3. s \in Seq(ValidEvents) /\ t \in Seq(ValidEvents)
    BY <1>1, <1>2, MakerFillsAreValid
<1>4. PICK n : n = Len(fills)
    OBVIOUS
<1>5. PICK g : g = Append(fills, f)
    OBVIOUS
<1>6. /\ n \in Nat /\ DOMAIN fills = 1..n /\ DOMAIN g = 1..(n + 1)
      /\ g[n + 1] = f /\ \A i \in 1..n : g[i] = fills[i]
    BY <1>4, <1>5
<1>7. /\ DOMAIN s = 1..n /\ DOMAIN t = 1..(n + 1)
      /\ t[n + 1] = ev
      /\ \A i \in 1..n : t[i] = s[i]
  <2>1. DOMAIN s = 1..n /\ DOMAIN t = 1..(n + 1)
      BY <1>1, <1>5, <1>6 DEF MakerFillEvents
  <2>2. n + 1 \in 1..(n + 1) /\ \A i \in 1..n : i \in 1..(n + 1)
      BY <1>6
  <2>3. t[n + 1] = ev
      BY <1>1, <1>5, <1>6, <2>2 DEF MakerFillEvents
  <2>4. ASSUME NEW i \in 1..n PROVE t[i] = s[i]
    <3>1. s[i] = FillEvent(fills[i].order, fills[i].order.amount, fills[i].filled, fills[i].remaining)
        BY <1>1, <1>6 DEF MakerFillEvents
    <3>2. t[i] = FillEvent(g[i].order, g[i].order.amount, g[i].filled, g[i].remaining)
        BY <1>1, <1>5, <1>6, <2>2 DEF MakerFillEvents
    <3> QED BY <1>6, <3>1, <3>2
  <2> QED BY <2>1, <2>3, <2>4
<1>8. Len(s) = n /\ Len(t) = n + 1
    BY <1>3, <1>6, <1>7
<1>9. ev \in ValidEvents
  <2>1. ev = t[n + 1] /\ n + 1 \in 1..Len(t)
      BY <1>6, <1>7, <1>8
  <2> QED BY <1>3, <2>1
<1>10. t = Append(s, ev)
    BY <1>3, <1>6, <1>7, <1>8, <1>9
<1>11. PICK w : w = <<ev>>
    OBVIOUS
<1>12. PICK u, v : u = Joined(amended, s) /\ v = Joined(h, u)
    OBVIOUS
<1>13. u \in Seq(ValidEvents) /\ v \in Seq(ValidEvents) /\ w \in Seq(ValidEvents)
    BY <1>3, <1>9, <1>11, <1>12, Joins
<1>14. Joined(h, Joined(amended, t)) = Joined(v, w)
  <2>1. t = Joined(s, w)
      BY <1>3, <1>9, <1>10, <1>11, AppendIsConcat DEF Joined
  <2>2. Joined(amended, Joined(s, w)) = Joined(Joined(amended, s), w)
      BY <1>3, <1>13, Associates
  <2>3. Joined(h, Joined(u, w)) = Joined(Joined(h, u), w)
      BY <1>13, Associates
  <2> QED BY <1>12, <2>1, <2>2, <2>3, Zenon
<1>15. Joined(v, w) = Append(v, ev)
    BY <1>9, <1>11, <1>13, AppendIsConcat DEF Joined
<1>16. Story(h, amended, g) = Joined(h, Joined(amended, t)) /\ Story(h, amended, fills) = v
    BY <1>1, <1>5, <1>12, Zenon DEF Story, Joined
<1> QED BY <1>5, <1>9, <1>14, <1>15, <1>16, Zenon

\* The rest of a command's events, x and y, follows.
Completes(h, amended, fills, x, y) ==
    h \o (amended \o MakerFillEvents(fills) \o x \o y) = (Story(h, amended, fills) \o x) \o y

\* So it does, and the story is one of valid events.
LEMMA StoryEnds ==
    ASSUME NEW h \in Seq(ValidEvents), NEW amended \in Seq(ValidEvents),
           NEW fills \in Seq(MakerFills), NEW x \in Seq(ValidEvents), NEW y \in Seq(ValidEvents)
    PROVE  Completes(h, amended, fills, x, y) /\ Story(h, amended, fills) \in Seq(ValidEvents)
<1>1. PICK s, u, v : s = MakerFillEvents(fills) /\ u = Joined(amended, s) /\ v = Joined(u, x)
    OBVIOUS
<1>2. s \in Seq(ValidEvents) /\ u \in Seq(ValidEvents) /\ v \in Seq(ValidEvents)
  <2>1. s \in Seq(ValidEvents)
      BY <1>1, MakerFillsAreValid
  <2>2. u \in Seq(ValidEvents)
      BY <1>1, <2>1, Joins
  <2> QED BY <1>1, <2>1, <2>2, Joins
<1>3. Joined(h, Joined(v, y)) = Joined(Joined(h, v), y)
    BY <1>2, Associates
<1>4. Joined(h, v) = Joined(Joined(h, u), x) /\ Joined(h, u) \in Seq(ValidEvents)
  <2>1. Joined(h, Joined(u, x)) = Joined(Joined(h, u), x)
      BY <1>2, Associates
  <2>2. Joined(h, u) \in Seq(ValidEvents)
      BY <1>2, Joins
  <2> QED BY <1>1, <2>1, <2>2, Zenon
<1>5. Story(h, amended, fills) = Joined(h, u)
    BY <1>1, Zenon DEF Story, Joined
<1>6. h \o (amended \o MakerFillEvents(fills) \o x \o y) = Joined(h, Joined(v, y))
    BY <1>1, Zenon DEF Joined
<1>7. (Story(h, amended, fills) \o x) \o y = Joined(Joined(Joined(h, u), x), y)
    BY <1>5, Zenon DEF Joined
<1> QED BY <1>3, <1>4, <1>5, <1>6, <1>7, Zenon DEF Completes

-----------------------------------------------------------------------------
(* The last events of a match                                              *)

\* The history explains the book, of the orders ids, and knows of no others
\* than those issued.
Accounted(h, b, ids, all) == Explains(h, b, ids) /\ HeardOnly(h, all)

\* An order that is not among ids gets another event, and the book stays.
LEMMA EventOfTaker ==
    ASSUME NEW h, NEW b, NEW ids \in SUBSET OrderID, NEW all, Accounted(h, b, ids, all),
           NEW ev \in ValidEvents, ev.id \notin ids, ev.id \in all,
           Expects(h, ev.id, ev.previous, ev.previousPrice)
    PROVE  /\ Accounted(Append(h, ev), b, ids, all)
           /\ Tells(Append(h, ev), ev.id, ev.remaining, ev.price)
<1>1. Accounts(h, b, b, ev)
    BY DEF Accounts, SameBut
<1>2. PICK k : k = Append(h, ev)
    OBVIOUS
<1>3. Explains(k, b, ids) /\ Follow(h, k, ev)
    BY <1>1, <1>2, EventExplains DEF Accounted
<1>4. HeardOnly(k, all)
    BY <1>2, HeardGrows DEF Accounted, Explains
<1> QED BY <1>2, <1>3, <1>4 DEF Accounted, Follow

\* What the history says of an order before Match: nothing yet, or what its
\* amend left.
Announced(h, o, amended) ==
    IF amended = << >> THEN Unheard(h, o.id) ELSE Tells(h, o.id, o.amount, o.price)

\* The residual's event, as in MatchEvents.
Residual(before, after, filled, amended) ==
    IF after.amount > 0 /\ after.kind = "MARKET"
    THEN <<RemainderCanceledEvent(before, after.amount)>>
    ELSE IF Rests(after) /\ filled <= 0 /\ amended = << >> THEN <<RestingEvent(before)>>
    ELSE << >>

\* What is left of the taker in the end.
Left(after) == IF Rests(after) THEN after.amount ELSE 0

\* The history after Match, with the taker's events.
Concluded(h, before, after, n, amended) ==
    (h \o TakerFillEvents(before, n, after.amount)) \o Residual(before, after, n, amended)

\* Its fill and what becomes of its residual tell what is left of it.
LEMMA TakerIsAccounted ==
    ASSUME NEW before, NEW after, TakerLeft(before, after),
           NEW h, NEW b, NEW ids \in SUBSET OrderID, NEW all, Accounted(h, b, ids, all),
           before.id \notin ids, before.id \in all, NEW amended, Announced(h, before, amended),
           NEW n, n = before.amount - after.amount,
           NEW k, k = Concluded(h, before, after, n, amended)
    PROVE  Accounted(k, b, ids, all) /\ Tells(k, before.id, Left(after), before.price)
<1>1. PICK id, p, m : id = before.id /\ p = before.price /\ m = after.amount
    OBVIOUS
<1>2. /\ before.amount \in Int /\ m \in Int /\ n \in Int /\ n >= 0 /\ m >= 0
      /\ before.amount = n + m /\ Priced(before) /\ before.amount > 0
      /\ after.kind = "LIMIT" \/ after.kind = "MARKET"
    BY <1>1 DEF TakerLeft, Priced, Order, Kind
<1>3. PICK x, y, k1 : /\ x = TakerFillEvents(before, n, m) /\ y = Residual(before, after, n, amended)
                      /\ k1 = h \o x
    OBVIOUS
<1>4. k = k1 \o y
    BY <1>1, <1>3, Zenon DEF Concluded
<1>5. h \in Seq(ValidEvents)
    BY DEF Accounted, Explains
<1>6. /\ Accounted(k1, b, ids, all)
      /\ IF n <= 0 THEN Announced(k1, before, amended) ELSE Tells(k1, id, m, p)
  <2>1. CASE n <= 0
    <3>1. k1 = h
        BY <1>3, <1>5, <2>1, ConcatEmptySeq DEF TakerFillEvents
    <3> QED BY <2>1, <3>1
  <2>2. CASE ~(n <= 0)
    <3>1. PICK ev : ev = FillEvent(before, before.amount, n, m)
        OBVIOUS
    <3>2. ev \in ValidEvents
      <4>1. n > 0
          BY <1>2, <2>2
      <4>2. FillEvent(before, before.amount, n, m) \in ValidEvents
          BY <1>2, <4>1, FillEventIsValid
      <4> QED BY <3>1, <4>2
    <3>3. /\ ev.id = id /\ ev.previous = before.amount /\ ev.previousPrice = p
          /\ ev.remaining = m /\ ev.price = p
        BY <1>1, <3>1, FillFields
    <3>4. k1 = Append(h, ev)
      <4>1. x = <<ev>>
          BY <1>3, <2>2, <3>1 DEF TakerFillEvents
      <4> QED BY <1>3, <1>5, <3>2, <4>1, StoryBegins
    <3>5. Expects(h, id, before.amount, p)
        BY <1>1 DEF Announced, Expects
    <3> QED BY <1>1, <2>2, <3>2, <3>3, <3>4, <3>5, EventOfTaker
  <2> QED BY <2>1, <2>2
<1>7. k1 \in Seq(ValidEvents)
    BY <1>6 DEF Accounted, Explains
<1>8. Expects(k1, id, m, p)
  <2>1. CASE n <= 0
    <3>1. m = before.amount
        BY <1>2, <2>1
    <3> QED BY <1>1, <1>6, <2>1, <3>1 DEF Announced, Expects
  <2>2. CASE ~(n <= 0)
      BY <1>6, <2>2 DEF Expects
  <2> QED BY <2>1, <2>2
<1>9. CASE m > 0 /\ after.kind = "MARKET"
  <2>1. PICK ev : ev = RemainderCanceledEvent(before, m)
      OBVIOUS
  <2>2. ev \in ValidEvents
      BY <1>2, <1>9, <2>1, OtherEventsAreValid
  <2>3. ev.id = id /\ ev.previous = m /\ ev.previousPrice = p /\ ev.remaining = 0 /\ ev.price = p
      BY <1>1, <2>1 DEF RemainderCanceledEvent, Event
  <2>4. k = Append(k1, ev)
    <3>1. y = <<ev>>
        BY <1>1, <1>3, <1>9, <2>1 DEF Residual
    <3> QED BY <1>4, <1>7, <2>2, <3>1, StoryBegins
  <2>5. Left(after) = 0
      BY <1>9 DEF Left, Rests
  <2> QED BY <1>1, <1>6, <1>8, <2>2, <2>3, <2>4, <2>5, EventOfTaker
<1>10. CASE Rests(after) /\ n <= 0 /\ amended = << >>
  <2>1. PICK ev : ev = RestingEvent(before)
      OBVIOUS
  <2>2. ev \in ValidEvents
      BY <1>2, <2>1, OtherEventsAreValid
  <2>3. m = before.amount /\ Left(after) = m
      BY <1>1, <1>2, <1>10 DEF Left
  <2>4. ev.id = id /\ ev.previous = m /\ ev.previousPrice = p /\ ev.remaining = m /\ ev.price = p
      BY <1>1, <2>1, <2>3 DEF RestingEvent, Event
  <2>5. k = Append(k1, ev)
    <3>1. y = <<ev>>
        BY <1>1, <1>3, <1>10, <2>1 DEF Residual, Rests
    <3> QED BY <1>4, <1>7, <2>2, <3>1, StoryBegins
  <2> QED BY <1>1, <1>6, <1>8, <2>2, <2>3, <2>4, <2>5, EventOfTaker
<1>11. CASE ~(m > 0 /\ after.kind = "MARKET") /\ ~(Rests(after) /\ n <= 0 /\ amended = << >>)
  <2>1. k = k1
    <3>1. y = << >>
        BY <1>1, <1>3, <1>11 DEF Residual
    <3> QED BY <1>4, <1>7, <3>1, ConcatEmptySeq
  <2>2. Left(after) = m
      BY <1>1, <1>2, <1>11 DEF Left, Rests
  <2>3. Tells(k1, id, m, p)
    <3>1. CASE n <= 0
      <4>1. m = before.amount /\ m > 0
          BY <1>2, <3>1
      <4>2. Rests(after)
          BY <1>1, <1>2, <1>11, <4>1 DEF Rests
      <4> QED BY <1>1, <1>6, <1>11, <3>1, <4>1, <4>2 DEF Announced
    <3>2. CASE ~(n <= 0)
        BY <1>6, <3>2
    <3> QED BY <3>1, <3>2
  <2> QED BY <1>1, <1>6, <2>1, <2>2, <2>3
<1> QED BY <1>9, <1>10, <1>11

\* What the settled taker shows joins what the others do.
LEMMA TakerJoins ==
    ASSUME NEW k, NEW b, NEW r, NEW ids \in SUBSET OrderID, NEW id, NEW n, NEW p,
           Explains(k, b, ids), id \notin ids, SameBut(b, r, id), Tells(k, id, n, p), Shows(r, id, n, p)
    PROVE  \A all : (\A i \in all : i \in ids \/ i = id) => Explains(k, r, all)
<1>1. ASSUME NEW i \in ids PROVE Agrees(k, r, i)
  <2>1. PICK m, q : Tells(k, i, m, q) /\ Shows(b, i, m, q)
      BY DEF Explains, Agrees
  <2>2. Shows(r, i, m, q)
      BY <2>1 DEF SameBut
  <2> QED BY <2>1, <2>2 DEF Agrees
<1>2. Agrees(k, r, id)
    BY DEF Agrees
<1> QED BY <1>1, <1>2 DEF Explains

-----------------------------------------------------------------------------
(* The invariant of the history                                            *)

\* Everything the commands have reported so far.
Reported == Story(orderEvents, builder, makers)

\* The orders that are not being matched.
Others == IF phase = "matching" THEN issued \ {taker.id} ELSE issued

\* The history explains the book, but for the taker, of which it says what
\* it was before Match.  Once a quote has overflowed the book is ahead.
HistoryTold ==
    UniqueNonces =>
        /\ Chained(Reported)
        /\ phase # "overflow" => Accounted(Reported, book, Others, issued)
        /\ phase = "matching" => Announced(Reported, beforeMatch, builder)

\* A new worker has nothing to tell.
LEMMA NothingReported == Init => HistoryTold
<1> SUFFICES ASSUME Init PROVE HistoryTold
    OBVIOUS
<1>1. << >> \in Seq(ValidEvents)
    OBVIOUS
<1>2. Reported = << >>
    BY <1>1, StoryPublished DEF Init, Reported
<1>3. Others = {} /\ phase = "idle" /\ issued = {}
    BY DEF Init, Others
<1>4. Chained(<< >>) /\ \A all : HeardOnly(<< >>, all)
    BY DEF Chained, HeardOnly
<1> QED BY <1>1, <1>2, <1>3, <1>4 DEF HistoryTold, Accounted, Explains

\* Between commands.
LEMMA IdleReported ==
    ASSUME Inv, phase = "idle"
    PROVE  Reported = orderEvents /\ orderEvents \in Seq(ValidEvents) /\ Others = issued
BY StoryPublished DEF Inv, MatchInProgress, Reported, Others

\* A command that returns publishes its events.
LEMMA ReturnReports ==
    ASSUME Inv', NEW events \in Seq(ValidEvents), Return(events)
    PROVE  /\ phase' = "idle" /\ orderEvents' = orderEvents \o events
           /\ Reported' = orderEvents' /\ orderEvents' \in Seq(ValidEvents) /\ Others' = issued'
<1>1. phase' = "idle" /\ orderEvents' = orderEvents \o events
    BY ReturnFacts
<1>2. makers' = << >> /\ builder' = << >> /\ orderEvents' \in Seq(ValidEvents)
    BY <1>1 DEF Inv, MatchInProgress
<1>3. Story(orderEvents', << >>, << >>) = orderEvents'
    BY <1>2, StoryPublished
<1> QED BY <1>1, <1>2, <1>3 DEF Reported, Others

\* What it publishes explains the book it leaves.
LEMMA ReturnTells ==
    ASSUME Inv, Inv', NEW events \in Seq(ValidEvents), Return(events),
           UniqueNonces => Accounted(orderEvents \o events, book', issued', issued')
    PROVE  HistoryTold'
<1>1. /\ phase' = "idle" /\ orderEvents' = orderEvents \o events
      /\ Reported' = orderEvents' /\ Others' = issued'
    BY ReturnReports
<1> QED BY <1>1 DEF HistoryTold, Accounted, Explains

\* One that matches has announced its order, or not yet.
LEMMA MatchTells ==
    ASSUME Inv, phase = "idle", NEW events, NEW o, BeginMatch(o, events), NEW k,
           k = Story(orderEvents, events, << >>),
           UniqueNonces => /\ Accounted(k, book', issued' \ {o.id}, issued')
                           /\ Announced(k, o, events)
    PROVE  HistoryTold'
<1>1. /\ phase' = "matching" /\ taker' = o /\ beforeMatch' = o /\ builder' = events
      /\ makers' = makers /\ orderEvents' = orderEvents
    BY DEF BeginMatch
<1>2. makers = << >>
    BY DEF Inv, MatchInProgress
<1>3. Reported' = k /\ Others' = issued' \ {o.id}
    BY <1>1, <1>2 DEF Reported, Others
<1> QED BY <1>1, <1>3 DEF HistoryTold, Accounted, Explains

\* The state in which a command begins.
LEMMA BetweenCommands ==
    ASSUME Inv, IdsUnique, HistoryTold, UniqueNonces, phase = "idle"
    PROVE  /\ Sound(book) /\ Indexed(book) /\ issued \in SUBSET OrderID
           /\ orderEvents \in Seq(ValidEvents)
           /\ Accounted(orderEvents, book, issued, issued)
           /\ \A id : Carries(book, id) => id \in issued
BY IdleReported DEF Inv, TypeOK, IdsUnique, HistoryTold

\* The events of a command that does not match say what it does to the book.
Accurate(h, b, r, ids, events) ==
    \/ r = b /\ events = << >>
    \/ \E ev : /\ events = <<ev>> /\ ev.id \in ids
               /\ Accounts(h, b, r, ev) /\ Shows(r, ev.id, ev.remaining, ev.price)

\* Then the history with them explains the book it leaves.
LEMMA AccurateIsAccounted ==
    ASSUME NEW h, NEW b, NEW r, NEW ids \in SUBSET OrderID, Accounted(h, b, ids, ids),
           NEW events, Accurate(h, b, r, ids, events)
    PROVE  Accounted(h \o events, r, ids, ids)
<1>1. h \in Seq(ValidEvents)
    BY DEF Accounted, Explains
<1>2. CASE r = b /\ events = << >>
  <2>1. h \o events = h
      BY <1>1, <1>2, ConcatEmptySeq
  <2> QED BY <1>2, <2>1
<1>3. CASE \E ev : /\ events = <<ev>> /\ ev.id \in ids
                   /\ Accounts(h, b, r, ev) /\ Shows(r, ev.id, ev.remaining, ev.price)
  <2>1. PICK ev : /\ events = <<ev>> /\ ev.id \in ids
                  /\ Accounts(h, b, r, ev) /\ Shows(r, ev.id, ev.remaining, ev.price)
      BY <1>3
  <2>2. ev \in ValidEvents
      BY <2>1 DEF Accounts
  <2>3. h \o events = Append(h, ev)
      BY <1>1, <2>1, <2>2, StoryBegins
  <2>4. Explains(Append(h, ev), r, ids)
      BY <2>1, EventExplains DEF Accounted
  <2>5. HeardOnly(Append(h, ev), ids)
      BY <1>1, <2>1, <2>2, HeardGrows DEF Accounted
  <2> QED BY <2>3, <2>4, <2>5 DEF Accounted
<1> QED BY <1>2, <1>3 DEF Accurate

\* A new order has not been heard of.
LEMMA CreateTells == Inv /\ IdsUnique /\ HistoryTold /\ Create => HistoryTold'
<1> SUFFICES ASSUME Inv, IdsUnique, HistoryTold, Create PROVE HistoryTold'
    OBVIOUS
<1>1. PICK o : /\ UniqueNonces => o.id \notin issued
               /\ issued' = issued \cup {o.id} /\ BeginMatch(o, << >>)
    BY DEF Create
<1>2. phase = "idle" /\ book' = book
    BY DEF Create, TakeCommand
<1>3. Story(orderEvents, << >>, << >>) = orderEvents
    BY <1>2, StoryPublished DEF Inv, MatchInProgress
<1>4. ASSUME UniqueNonces
      PROVE  /\ Accounted(orderEvents, book', issued' \ {o.id}, issued')
             /\ Announced(orderEvents, o, << >>)
  <2>1. Accounted(orderEvents, book, issued, issued) /\ o.id \notin issued
      BY <1>1, <1>2, <1>4, BetweenCommands
  <2>2. issued' \ {o.id} = issued
      BY <1>1, <2>1
  <2>3. HeardOnly(orderEvents, issued') /\ Unheard(orderEvents, o.id)
      BY <1>1, <2>1 DEF Accounted, HeardOnly, Unheard
  <2> QED BY <1>2, <2>1, <2>2, <2>3 DEF Accounted, Announced
<1> QED BY <1>1, <1>2, <1>3, <1>4, MatchTells

\* An amend's event says what it does to the book.
LEMMA AmendTells == Inv /\ Inv' /\ IdsUnique /\ HistoryTold /\ Amend => HistoryTold'
<1> SUFFICES ASSUME Inv, Inv', IdsUnique, HistoryTold, Amend PROVE HistoryTold'
    OBVIOUS
<1>0. /\ Sound(book) /\ FreshElements /\ sequence \in 0..MaxElem /\ MaxElem \in Nat
      /\ issued \subseteq OrderID
    BY BookAssumption DEF Inv, TypeOK
<1>1. /\ phase = "idle" /\ sequence < MaxElem /\ issued' = issued
    BY DEF Amend, TakeCommand
<1>2. PICK id, price, amount, edit, events :
          /\ id \in issued /\ price \in Price /\ amount \in Amount \cup {NoAmount}
          /\ edit = EditOrder(book, sequence + 1, id, price, amount)
          /\ events = AmendEvents(edit)
          /\ book' = edit.book
          /\ IF edit.rematch THEN BeginMatch(edit.after, events) ELSE Return(events)
    BY DEF Amend
<1>3. PICK e : e = sequence + 1
    OBVIOUS
<1>4. e \in Elem /\ id \in OrderID /\ edit = EditOrder(book, e, id, price, amount)
    BY <1>0, <1>1, <1>2, <1>3 DEF Elem
<1>5. \A x \in Elem : x >= e => book.order[x] = NoOrder
  <2>1. \A x \in Elem : x >= e => x > sequence
      BY <1>0, <1>3 DEF Elem
  <2> QED BY <1>0, <2>1 DEF FreshElements
<1>6. events \in Seq(ValidEvents)
  <2>1. \/ edit.before = NoOrder
        \/ /\ edit.before \in Order /\ CanRest(edit.before)
           /\ edit.after \in Order /\ CanRest(edit.after)
      BY <1>0, <1>2, <1>4, <1>5, EditOrderKeeps
  <2> QED BY <1>2, <2>1, AmendEventsAreValid
<1>7. ASSUME UniqueNonces
      PROVE  \/ book' = book /\ ~edit.rematch /\ events = << >>
             \/ \E ev : /\ events = <<ev>> /\ ev.id = edit.after.id /\ ev.id \in issued
                        /\ Accounts(orderEvents, book, book', ev)
                        /\ ev.remaining = edit.after.amount /\ ev.price = edit.after.price
                        /\ edit.rematch \/ Shows(book', ev.id, ev.remaining, ev.price)
  <2>1. /\ Indexed(book) /\ issued \in SUBSET OrderID /\ \A i : Carries(book, i) => i \in issued
        /\ Explains(orderEvents, book, issued)
      BY <1>1, <1>7, BetweenCommands DEF Accounted
  <2>2. book.order[e] = NoOrder
      BY <1>4, <1>5 DEF Elem
  <2> QED BY <1>0, <1>2, <1>4, <2>1, <2>2, EditAccounts
<1>8. CASE ~edit.rematch
  <2>1. Return(events)
      BY <1>2, <1>8
  <2>2. ASSUME UniqueNonces PROVE Accounted(orderEvents \o events, book', issued', issued')
    <3>1. Accounted(orderEvents, book, issued, issued) /\ issued \in SUBSET OrderID
        BY <1>1, <2>2, BetweenCommands
    <3>2. Accurate(orderEvents, book, book', issued, events)
        BY <1>7, <1>8, <2>2 DEF Accurate
    <3> QED BY <1>1, <3>1, <3>2, AccurateIsAccounted
  <2> QED BY <1>6, <2>1, <2>2, ReturnTells
<1>9. CASE edit.rematch
  <2>1. PICK o : o = edit.after
      OBVIOUS
  <2>2. BeginMatch(o, events)
      BY <1>2, <1>9, <2>1
  <2>3. PICK k : k = Story(orderEvents, events, << >>)
      OBVIOUS
  <2>4. ASSUME UniqueNonces
        PROVE  Accounted(k, book', issued' \ {o.id}, issued') /\ Announced(k, o, events)
    <3>1. /\ Accounted(orderEvents, book, issued, issued) /\ orderEvents \in Seq(ValidEvents)
          /\ issued \in SUBSET OrderID
        BY <1>1, <2>4, BetweenCommands
    <3>2. PICK ev : /\ events = <<ev>> /\ ev.id = o.id /\ ev.id \in issued
                    /\ Accounts(orderEvents, book, book', ev)
                    /\ ev.remaining = o.amount /\ ev.price = o.price
        BY <1>7, <1>9, <2>1, <2>4
    <3>3. ev \in ValidEvents
        BY <3>2 DEF Accounts
    <3>4. k = Append(orderEvents, ev)
        BY <2>3, <3>1, <3>2, <3>3, StoryBegins
    <3>5. PICK ids : ids = issued \ {o.id}
        OBVIOUS
    <3>6. ids \in SUBSET OrderID /\ ev.id \notin ids /\ Explains(orderEvents, book, ids)
        BY <3>1, <3>2, <3>5 DEF Accounted, Explains
    <3>7. Explains(k, book', ids) /\ Follow(orderEvents, k, ev)
        BY <3>2, <3>4, <3>6, EventExplains
    <3>8. HeardOnly(k, issued)
        BY <3>1, <3>2, <3>3, <3>4, HeardGrows DEF Accounted
    <3>9. Announced(k, o, events)
      <4>1. events # << >>
          BY <3>2
      <4> QED BY <3>2, <3>7, <4>1 DEF Announced, Follow
    <3> QED BY <1>1, <3>5, <3>7, <3>8, <3>9 DEF Accounted
  <2> QED BY <1>1, <2>2, <2>3, <2>4, MatchTells
<1> QED BY <1>8, <1>9

\* So does a cancel's.
LEMMA CancelTells == Inv /\ Inv' /\ IdsUnique /\ HistoryTold /\ Cancel => HistoryTold'
<1> SUFFICES ASSUME Inv, Inv', IdsUnique, HistoryTold, Cancel PROVE HistoryTold'
    OBVIOUS
<1>1. phase = "idle" /\ issued' = issued /\ Sound(book) /\ issued \subseteq OrderID
    BY DEF Cancel, TakeCommand, Inv, TypeOK
<1>2. PICK id, result, events :
          /\ id \in issued
          /\ result = RemoveOrder(book, id)
          /\ book' = result.book
          /\ events = CancelEvents(result.removed)
          /\ Return(events)
    BY DEF Cancel
<1>3. id \in OrderID
    BY <1>1, <1>2
<1>4. events \in Seq(ValidEvents)
  <2>1. result.removed = NoOrder \/ (result.removed \in Order /\ CanRest(result.removed))
      BY <1>1, <1>2, <1>3, RemoveOrderKeeps
  <2> QED BY <1>2, <2>1, CancelEventsAreValid
<1>5. ASSUME UniqueNonces PROVE Accounted(orderEvents \o events, book', issued', issued')
  <2>1. /\ Accounted(orderEvents, book, issued, issued) /\ orderEvents \in Seq(ValidEvents)
        /\ issued \in SUBSET OrderID /\ Indexed(book) /\ \A i : Carries(book, i) => i \in issued
        /\ Explains(orderEvents, book, issued)
      BY <1>1, <1>5, BetweenCommands DEF Accounted
  <2>2. Accurate(orderEvents, book, book', issued, events)
    <3>1. \/ book' = book /\ events = << >>
          \/ \E ev : /\ events = <<ev>> /\ ev.id \in issued
                     /\ Accounts(orderEvents, book, book', ev)
                     /\ Shows(book', ev.id, ev.remaining, ev.price)
        BY <1>1, <1>2, <1>3, <2>1, RemoveAccounts
    <3> QED BY <3>1 DEF Accurate
  <2> QED BY <1>1, <2>1, <2>2, AccurateIsAccounted
<1> QED BY <1>2, <1>4, <1>5, ReturnTells

\* An execution reports the maker's event.
LEMMA FillReports ==
    ASSUME Inv, Fill
    PROVE  \E f, ev :
              /\ f = MakerFill(book, taker) /\ f \in MakerFills
              /\ ev = FillEvent(f.order, f.order.amount, f.filled, f.remaining) /\ ev \in ValidEvents
              /\ Reported \in Seq(ValidEvents) /\ Reported' = Append(Reported, ev)
<1>1. /\ phase = "matching" /\ CanFill(book, taker)
      /\ makers' = Append(makers, MakerFill(book, taker))
      /\ UNCHANGED <<builder, orderEvents>>
    BY DEF Fill
<1>2. /\ Sound(book) /\ taker \in Order
      /\ makers \in Seq(MakerFills) /\ builder \in Seq(ValidEvents) /\ orderEvents \in Seq(ValidEvents)
    BY <1>1 DEF Inv, MatchInProgress, TakerLeft
<1>3. PICK f, ev, m, n : /\ f = MakerFill(book, taker)
                         /\ ev = FillEvent(f.order, f.order.amount, f.filled, f.remaining)
                         /\ m = Maker(book, taker) /\ n = TradeAmount(book, taker)
    OBVIOUS
<1>4. /\ m \in Order /\ CanRest(m) /\ n \in Int /\ n > 0 /\ n <= m.amount
  <2>1. /\ MakerElem(book, taker) \in Elem /\ m = book.order[MakerElem(book, taker)] /\ m # NoOrder
        /\ m \in Order /\ n \in Int /\ n > 0 /\ n <= m.amount
      BY <1>1, <1>2, <1>3, FillFacts
  <2> QED BY <1>2, <2>1 DEF Sound
<1>5. f = [order |-> m, filled |-> n, remaining |-> m.amount - n]
    BY <1>3 DEF MakerFill
<1>6. Priced(m) /\ m.amount \in Int
    BY <1>4, RestingIsPriced
<1>7. f \in MakerFills
    BY <1>4, <1>5, <1>6 DEF MakerFills
<1>8. Reported \in Seq(ValidEvents)
  <2>1. << >> \in Seq(ValidEvents)
      OBVIOUS
  <2> QED BY <1>2, <2>1, StoryEnds DEF Reported
<1>9. Reported' = Append(Reported, ev) /\ ev \in ValidEvents
    BY <1>1, <1>2, <1>3, <1>7, StoryGrows DEF Reported
<1> QED BY <1>3, <1>7, <1>8, <1>9

\* The maker's event says what an execution does to it.
LEMMA FillTells == Inv /\ IdsUnique /\ HistoryTold /\ Fill => HistoryTold'
<1> SUFFICES ASSUME Inv, IdsUnique, HistoryTold, Fill PROVE HistoryTold'
    OBVIOUS
<1>1. /\ phase = "matching" /\ CanFill(book, taker) /\ phase' = phase
      /\ book' = BookAfterFill(book, taker) /\ taker' = TakerAfterFill(book, taker)
      /\ UNCHANGED <<beforeMatch, builder, issued>>
    BY DEF Fill
<1>2. Sound(book) /\ issued \subseteq OrderID /\ taker \in Order /\ taker.id = beforeMatch.id
    BY <1>1 DEF Inv, TypeOK, MatchInProgress, TakerLeft
<1>3. PICK k : k = Reported
    OBVIOUS
<1>4. PICK f, ev : /\ f = MakerFill(book, taker)
                   /\ ev = FillEvent(f.order, f.order.amount, f.filled, f.remaining)
                   /\ f \in MakerFills /\ k \in Seq(ValidEvents) /\ Reported' = Append(k, ev)
    BY <1>3, FillReports
<1>5. Reported' = Append(k, ev)
    BY <1>4
<1>6. taker'.id = taker.id
    BY <1>1, <1>2 DEF TakerAfterFill, Order
<1>7. PICK ids : ids = issued \ {taker.id}
    OBVIOUS
<1>8. Others = ids /\ Others' = ids /\ ids \in SUBSET OrderID
    BY <1>1, <1>2, <1>6, <1>7 DEF Others
<1>9. ASSUME UniqueNonces
      PROVE  /\ Accounted(Append(k, ev), book', ids, issued)
             /\ Announced(Append(k, ev), beforeMatch, builder)
  <2>1. /\ Accounted(k, book, ids, issued) /\ Announced(k, beforeMatch, builder)
        /\ Indexed(book) /\ ~Carries(book, taker.id)
        /\ \A i : Carries(book, i) => i \in issued
      BY <1>1, <1>3, <1>8, <1>9 DEF HistoryTold, IdsUnique
  <2>2. PICK m : m = Maker(book, taker)
      OBVIOUS
  <2>3. m.id \in ids /\ m.id # beforeMatch.id
    <3>1. /\ MakerElem(book, taker) \in Elem /\ m = book.order[MakerElem(book, taker)] /\ m # NoOrder
        BY <1>1, <1>2, <2>2, FillFacts
    <3>2. Carries(book, m.id)
        BY <3>1 DEF Carries
    <3> QED BY <1>2, <1>7, <2>1, <3>2
  <2>4. Explains(k, book, ids)
      BY <2>1 DEF Accounted
  <2>5. ev.id = m.id /\ Accounts(k, book, book', ev) /\ Shows(book', ev.id, ev.remaining, ev.price)
      BY <1>1, <1>2, <1>4, <1>8, <2>1, <2>2, <2>3, <2>4, FillAccounts
  <2>6. Explains(Append(k, ev), book', ids) /\ Follow(k, Append(k, ev), ev)
      BY <1>8, <2>4, <2>5, EventExplains
  <2>7. HeardOnly(Append(k, ev), issued)
    <3>1. ev \in ValidEvents /\ ev.id \in issued
        BY <1>7, <2>3, <2>5 DEF Accounts
    <3> QED BY <1>4, <2>1, <3>1, HeardGrows DEF Accounted
  <2>8. Announced(Append(k, ev), beforeMatch, builder)
    <3>1. PICK kk, id, n, p : kk = Append(k, ev) /\ id = beforeMatch.id /\ n = beforeMatch.amount
                              /\ p = beforeMatch.price
        OBVIOUS
    <3>2. id # ev.id /\ Follow(k, kk, ev)
        BY <2>3, <2>5, <2>6, <3>1
    <3>3. Tells(k, id, n, p) => Tells(kk, id, n, p)
        BY <3>2 DEF Follow
    <3>4. Unheard(k, id) => Unheard(kk, id)
        BY <3>2 DEF Follow
    <3> QED BY <2>1, <3>1, <3>3, <3>4 DEF Announced
  <2> QED BY <2>6, <2>7, <2>8 DEF Accounted
<1> QED BY <1>1, <1>5, <1>8, <1>9 DEF HistoryTold, Accounted, Explains

\* The events of the taker and of its residual complete the story.
Settled(n, x, y) ==
    /\ n = beforeMatch.amount - taker.amount
    /\ x = TakerFillEvents(beforeMatch, n, taker.amount) /\ y = Residual(beforeMatch, taker, n, builder)

\* With them the events of the command are published.
Finishes(events, x, y) ==
    /\ events \in Seq(ValidEvents) /\ x \in Seq(ValidEvents) /\ y \in Seq(ValidEvents)
    /\ Reported \in Seq(ValidEvents)
    /\ orderEvents \o events = (Reported \o x) \o y

\* So they are, and valid.
LEMMA SettleReports ==
    ASSUME Inv, Settle, NEW n, NEW x, NEW y, Settled(n, x, y),
           NEW events, events = MatchEvents(beforeMatch, taker, makers, builder)
    PROVE  Finishes(events, x, y)
<1>1. phase = "matching"
    BY DEF Settle
<1>2. /\ TakerLeft(beforeMatch, taker)
      /\ makers \in Seq(MakerFills) /\ builder \in Seq(ValidEvents) /\ orderEvents \in Seq(ValidEvents)
    BY <1>1 DEF Inv, MatchInProgress
<1>3. PICK before, k :
          /\ before = beforeMatch /\ n = before.amount - taker.amount /\ k = Reported
          /\ x = TakerFillEvents(before, n, taker.amount) /\ y = Residual(before, taker, n, builder)
    BY DEF Settled
<1>4. events \in Seq(ValidEvents)
    BY <1>2, MatchEventsAreValid
<1>5. x \in Seq(ValidEvents) /\ y \in Seq(ValidEvents)
  <2>1. /\ before.amount \in Int /\ taker.amount \in Int /\ n \in Int
        /\ before.amount = n + taker.amount /\ Priced(before) /\ before.amount > 0 /\ taker.amount >= 0
      BY <1>2, <1>3 DEF TakerLeft, Priced, Order
  <2>2. x \in Seq(ValidEvents)
    <3>1. CASE n <= 0
        BY <1>3, <3>1, SequencesOfValidEvents DEF TakerFillEvents
    <3>2. CASE ~(n <= 0)
      <4>1. n > 0
          BY <2>1, <3>2
      <4>2. FillEvent(before, before.amount, n, taker.amount) \in ValidEvents
          BY <2>1, <4>1, FillEventIsValid
      <4> QED BY <1>3, <3>2, <4>2, SequencesOfValidEvents DEF TakerFillEvents
    <3> QED BY <3>1, <3>2
  <2>3. y \in Seq(ValidEvents)
    <3>1. RestingEvent(before) \in ValidEvents
        BY <2>1, OtherEventsAreValid
    <3>2. taker.amount > 0 => RemainderCanceledEvent(before, taker.amount) \in ValidEvents
        BY <2>1, OtherEventsAreValid
    <3> QED BY <1>3, <3>1, <3>2, SequencesOfValidEvents DEF Residual
  <2> QED BY <2>2, <2>3
<1>6. orderEvents \o events = (k \o x) \o y
  <2>1. events = builder \o MakerFillEvents(makers) \o x \o y
      BY <1>3, Zenon DEF MatchEvents, Residual
  <2>2. k = Story(orderEvents, builder, makers)
      BY <1>3 DEF Reported
  <2>3. Completes(orderEvents, builder, makers, x, y)
      BY <1>2, <1>5, StoryEnds
  <2> QED BY <2>1, <2>2, <2>3, Zenon DEF Completes
<1>7. k \in Seq(ValidEvents)
    BY <1>2, <1>3, <1>5, StoryEnds DEF Reported
<1> QED BY <1>3, <1>4, <1>5, <1>6, <1>7, Zenon DEF Finishes

\* They say where it went.
LEMMA SettleTells == Inv /\ Inv' /\ IdsUnique /\ HistoryTold /\ Settle => HistoryTold'
<1> SUFFICES ASSUME Inv, Inv', IdsUnique, HistoryTold, Settle PROVE HistoryTold'
    OBVIOUS
<1>1. /\ phase = "matching" /\ issued' = issued
      /\ book' = (IF Rests(taker) THEN AddOrder(book, sequence, taker) ELSE book)
      /\ Return(MatchEvents(beforeMatch, taker, makers, builder))
    BY DEF Settle
<1>2. /\ Sound(book) /\ issued \subseteq OrderID /\ TakerLeft(beforeMatch, taker) /\ sequence \in Elem
      /\ taker \in Order /\ taker.id = beforeMatch.id /\ taker.price = beforeMatch.price
    BY <1>1 DEF Inv, TypeOK, MatchInProgress, TakerLeft
<1>3. PICK before, events, n, x, y, k :
          /\ before = beforeMatch /\ events = MatchEvents(beforeMatch, taker, makers, builder)
          /\ n = before.amount - taker.amount /\ k = Reported
          /\ x = TakerFillEvents(before, n, taker.amount) /\ y = Residual(before, taker, n, builder)
    OBVIOUS
<1>4. Settled(n, x, y)
    BY <1>3 DEF Settled
<1>5. Finishes(events, x, y)
    BY <1>3, <1>4, SettleReports
<1>6. events \in Seq(ValidEvents) /\ Return(events) /\ orderEvents \o events = (k \o x) \o y
    BY <1>1, <1>3, <1>5, Zenon DEF Finishes
<1>7. PICK ids : ids = issued \ {taker.id}
    OBVIOUS
<1>8. ASSUME UniqueNonces PROVE Accounted((k \o x) \o y, book', issued', issued')
  <2>1. /\ Accounted(k, book, ids, issued) /\ Announced(k, before, builder)
        /\ Indexed(book) /\ ~Carries(book, taker.id) /\ taker.id \in issued
      BY <1>1, <1>3, <1>7, <1>8 DEF HistoryTold, IdsUnique, Others
  <2>2. ids \in SUBSET OrderID /\ before.id \notin ids /\ before.id \in issued
        /\ before.id \in OrderID /\ TakerLeft(before, taker)
      BY <1>2, <1>3, <1>7, <2>1
  <2>3. PICK kk : kk = (k \o x) \o y
      OBVIOUS
  <2>4. Accounted(kk, book, ids, issued) /\ Tells(kk, before.id, Left(taker), before.price)
    <3>1. kk = Concluded(k, before, taker, n, builder)
        BY <1>3, <2>3, Zenon DEF Concluded
    <3>2. n = before.amount - taker.amount
        BY <1>3
    <3> QED BY <2>1, <2>2, <3>1, <3>2, TakerIsAccounted
  <2>5. SameBut(book, book', before.id) /\ Shows(book', before.id, Left(taker), before.price)
    <3>1. CASE Rests(taker)
      <4>1. CanRest(taker)
          BY <1>2, <3>1 DEF Rests, TakerLeft, Priced, CanRest
      <4>2. Links(book, book', sequence, taker)
          BY <1>1, <1>2, <3>1, <4>1, AddOrderLinks
      <4>3. book.order[sequence] = NoOrder
          BY <1>1, <1>2 DEF Inv, FreshElements
      <4>4. SameBut(book, book', taker.id) /\ Shows(book', taker.id, taker.amount, taker.price)
          BY <1>2, <2>1, <4>2, <4>3, LinkShows
      <4>5. Left(taker) = taker.amount
          BY <3>1 DEF Left
      <4> QED BY <1>2, <1>3, <4>4, <4>5
    <3>2. CASE ~Rests(taker)
      <4>1. book' = book /\ Left(taker) = 0
          BY <1>1, <3>2 DEF Left
      <4>2. \A p : Shows(book, before.id, 0, p)
          BY <1>2, <1>3, <2>1, <2>2, AbsentIsShown
      <4> QED BY <4>1, <4>2 DEF SameBut
    <3> QED BY <3>1, <3>2
  <2>6. \A i \in issued : i \in ids \/ i = before.id
      BY <1>2, <1>3, <1>7
  <2>7. Explains(kk, book, ids)
      BY <2>4 DEF Accounted
  <2>8. Explains(kk, book', issued)
      BY <2>2, <2>4, <2>5, <2>6, <2>7, TakerJoins
  <2> QED BY <1>1, <2>3, <2>4, <2>8 DEF Accounted
<1> QED BY <1>6, <1>8, ReturnTells

\* Every step tells the story on.
LEMMA StepTells == Inv /\ Inv' /\ IdsUnique /\ HistoryTold /\ [Next]_vars => HistoryTold'
<1> SUFFICES ASSUME Inv, Inv', IdsUnique, HistoryTold, [Next]_vars PROVE HistoryTold'
    OBVIOUS
<1>1. CASE QuoteOverflow
  <2>1. Reported' = Reported /\ phase' = "overflow"
      BY <1>1 DEF QuoteOverflow, command, Reported
  <2> QED BY <2>1 DEF HistoryTold
<1>2. CASE UNCHANGED vars
    BY <1>2 DEF vars, command, HistoryTold, Reported, Others
<1> QED BY <1>1, <1>2, CreateTells, AmendTells, CancelTells, FillTells, SettleTells DEF Next

\* What is published is a part of what is reported.
LEMMA PublishedIsReported ==
    ASSUME Inv, Chained(Reported)
    PROVE  Chained(orderEvents)
<1>1. PICK h, s, k : h = orderEvents /\ s = builder \o MakerFillEvents(makers) /\ k = h \o s
    OBVIOUS
<1>2. h \in Seq(ValidEvents) /\ s \in Seq(ValidEvents)
  <2>1. /\ orderEvents \in Seq(ValidEvents) /\ builder \in Seq(ValidEvents)
        /\ MakerFillEvents(makers) \in Seq(ValidEvents)
      BY MakerFillsAreValid DEF Inv, MatchInProgress
  <2> QED BY <1>1, <2>1
<1>3. Chained(k)
    BY <1>1 DEF Reported, Story
<1>4. Len(h) \in Nat /\ Len(k) >= Len(h) /\ Len(k) \in Nat /\ \A i \in 1..Len(h) : k[i] = h[i]
    BY <1>1, <1>2
<1> SUFFICES ASSUME NEW j \in 1..Len(h), NEW i \in 1..Len(h), Follows(h, j, i)
             PROVE  /\ h[i].remaining > 0
                    /\ h[j].previous = h[i].remaining
                    /\ h[j].previousPrice = h[i].price
    BY <1>1 DEF Chained
<1>5. Follows(k, j, i)
  <2>1. \A x \in (i + 1)..(j - 1) : x \in 1..Len(h)
      BY <1>4
  <2> QED BY <1>4, <2>1 DEF Follows
<1>6. j \in 1..Len(k) /\ i \in 1..Len(k)
    BY <1>4
<1> QED BY <1>3, <1>4, <1>5, <1>6 DEF Chained

-----------------------------------------------------------------------------
(* The match logs against the fill events                                  *)

\* What the events fill, and what the match logs trade, of an order.
FillsOf(h, id) == [i \in DOMAIN h |-> FilledBy(h[i], id)]
TradesOf(l, id) == [i \in DOMAIN l |-> TradedBy(l[i], id)]
Filled(h, id) == Sum(FillsOf(h, id), Len(h))
Traded(l, id) == Sum(TradesOf(l, id), Len(l))

\* One value more.
LEMMA SumGrows ==
    ASSUME NEW n, NEW g, NEW h, Summable(g, n), Summable(h, n + 1), \A i \in 1..n : h[i] = g[i]
    PROVE  Sum(g, n) \in Int /\ Sum(h, n + 1) = Sum(g, n) + h[n + 1]
<1>1. PICK m : m = n + 1
    OBVIOUS
<1>2. n \in Nat /\ m \in Nat /\ m \in 1..m /\ m - 1 = n /\ \A i \in 1..n : i \in 1..m
    BY <1>1 DEF Summable
<1>3. Summable(h, n)
    BY <1>1, <1>2 DEF Summable
<1>4. Sum(h, n) = Sum(g, n)
    BY <1>3, SumSame
<1>5. Sum(h, m) = Sum(h, n) + h[m]
    BY <1>1, <1>2, SumStep
<1>6. Sum(g, n) \in Int
    BY SumStep
<1> QED BY <1>1, <1>4, <1>5, <1>6

\* The fills of the events are integers.
LEMMA FillsSummable ==
    ASSUME NEW h \in Seq(ValidEvents), NEW id
    PROVE  /\ DOMAIN h = 1..Len(h) /\ Len(h) \in Nat /\ Summable(FillsOf(h, id), Len(h))
           /\ FillsOf(h, id) \in Seq(Int) /\ Len(FillsOf(h, id)) = Len(h) /\ Filled(h, id) \in Int
<1>1. PICK n, g : n = Len(h) /\ g = FillsOf(h, id)
    OBVIOUS
<1>2. n \in Nat /\ DOMAIN h = 1..n /\ \A i \in 1..n : h[i] \in ValidEvents
    BY <1>1
<1>3. \A i \in 1..n : g[i] = FilledBy(h[i], id)
    BY <1>1, <1>2 DEF FillsOf
<1>4. \A ev \in ValidEvents : FilledBy(ev, id) \in Int
    BY DEF ValidEvents, EventRecord, FilledBy
<1>5. \A i \in 1..n : g[i] \in Int
    BY <1>2, <1>3, <1>4
<1>6. g = [i \in 1..n |-> FilledBy(h[i], id)]
    BY <1>1, <1>2 DEF FillsOf
<1>7. g \in Seq(Int) /\ Len(g) = n
    BY <1>2, <1>4, <1>6
<1>8. Summable(g, n)
    BY <1>2, <1>5 DEF Summable
<1> QED BY <1>1, <1>2, <1>7, <1>8, SumStep DEF Filled

\* So are the trades of the logs.
LEMMA TradesSummable ==
    ASSUME NEW l \in Seq(LogRecord), NEW id
    PROVE  /\ DOMAIN l = 1..Len(l) /\ Len(l) \in Nat /\ Summable(TradesOf(l, id), Len(l))
           /\ TradesOf(l, id) \in Seq(Int) /\ Len(TradesOf(l, id)) = Len(l) /\ Traded(l, id) \in Int
<1>1. PICK n, g : n = Len(l) /\ g = TradesOf(l, id)
    OBVIOUS
<1>2. n \in Nat /\ DOMAIN l = 1..n /\ \A i \in 1..n : l[i] \in LogRecord
    BY <1>1
<1>3. \A i \in 1..n : g[i] = TradedBy(l[i], id)
    BY <1>1, <1>2 DEF TradesOf
<1>4. \A log \in LogRecord : TradedBy(log, id) \in Int
    BY DEF LogRecord, TradedBy
<1>5. \A i \in 1..n : g[i] \in Int
    BY <1>2, <1>3, <1>4
<1>6. g = [i \in 1..n |-> TradedBy(l[i], id)]
    BY <1>1, <1>2 DEF TradesOf
<1>7. g \in Seq(Int) /\ Len(g) = n
    BY <1>2, <1>4, <1>6
<1>8. Summable(g, n)
    BY <1>2, <1>5 DEF Summable
<1> QED BY <1>1, <1>2, <1>7, <1>8, SumStep DEF Traded

\* One more event.
LEMMA FilledGrows ==
    ASSUME NEW h \in Seq(ValidEvents), NEW ev \in ValidEvents, NEW id
    PROVE  Filled(Append(h, ev), id) = Filled(h, id) + FilledBy(ev, id)
<1>1. PICK k, n : k = Append(h, ev) /\ n = Len(h)
    OBVIOUS
<1>2. /\ k \in Seq(ValidEvents) /\ n \in Nat /\ Len(k) = n + 1 /\ k[n + 1] = ev
      /\ \A i \in 1..n : k[i] = h[i]
    BY <1>1
<1>3. PICK f, g : f = FillsOf(h, id) /\ g = FillsOf(k, id)
    OBVIOUS
<1>4. DOMAIN h = 1..n /\ DOMAIN k = 1..(n + 1) /\ Summable(f, n) /\ Summable(g, n + 1)
    BY <1>1, <1>2, <1>3, FillsSummable
<1>5. n + 1 \in 1..(n + 1) /\ \A i \in 1..n : i \in 1..(n + 1)
    BY <1>2
<1>6. g[n + 1] = FilledBy(ev, id) /\ \A i \in 1..n : g[i] = f[i]
    BY <1>2, <1>3, <1>4, <1>5 DEF FillsOf
<1>7. Sum(g, n + 1) = Sum(f, n) + g[n + 1]
    BY <1>4, <1>6, SumGrows
<1> QED BY <1>1, <1>2, <1>3, <1>6, <1>7 DEF Filled

\* One more log.
LEMMA TradedGrows ==
    ASSUME NEW l \in Seq(LogRecord), NEW log \in LogRecord, NEW id
    PROVE  Traded(Append(l, log), id) = Traded(l, id) + TradedBy(log, id)
<1>1. PICK k, n : k = Append(l, log) /\ n = Len(l)
    OBVIOUS
<1>2. /\ k \in Seq(LogRecord) /\ n \in Nat /\ Len(k) = n + 1 /\ k[n + 1] = log
      /\ \A i \in 1..n : k[i] = l[i]
    BY <1>1
<1>3. PICK f, g : f = TradesOf(l, id) /\ g = TradesOf(k, id)
    OBVIOUS
<1>4. DOMAIN l = 1..n /\ DOMAIN k = 1..(n + 1) /\ Summable(f, n) /\ Summable(g, n + 1)
    BY <1>1, <1>2, <1>3, TradesSummable
<1>5. n + 1 \in 1..(n + 1) /\ \A i \in 1..n : i \in 1..(n + 1)
    BY <1>2
<1>6. g[n + 1] = TradedBy(log, id) /\ \A i \in 1..n : g[i] = f[i]
    BY <1>2, <1>3, <1>4, <1>5 DEF TradesOf
<1>7. Sum(g, n + 1) = Sum(f, n) + g[n + 1]
    BY <1>4, <1>6, SumGrows
<1> QED BY <1>1, <1>2, <1>3, <1>6, <1>7 DEF Traded

\* At most one event, and it fills nothing.
Quiet(events) == events = << >> \/ \E ev \in ValidEvents : events = <<ev>> /\ ev.filled = 0

\* Such events leave the fills as they were.
LEMMA QuietFillsNothing ==
    ASSUME NEW h \in Seq(ValidEvents), NEW events, Quiet(events), NEW id
    PROVE  /\ h \o events \in Seq(ValidEvents) /\ Filled(h \o events, id) = Filled(h, id)
           /\ Story(h, events, << >>) = h \o events
<1>1. CASE events = << >>
  <2>1. h \o events = h
      BY <1>1, ConcatEmptySeq
  <2> QED BY <1>1, <2>1, StoryPublished
<1>2. CASE \E ev \in ValidEvents : events = <<ev>> /\ ev.filled = 0
  <2>1. PICK ev \in ValidEvents : events = <<ev>> /\ ev.filled = 0
      BY <1>2
  <2>2. PICK k : k = Append(h, ev)
      OBVIOUS
  <2>3. h \o events = k /\ Story(h, events, << >>) = k /\ k \in Seq(ValidEvents)
      BY <2>1, <2>2, StoryBegins
  <2>4. FilledBy(ev, id) = 0
      BY <2>1 DEF FilledBy
  <2>5. Filled(k, id) = Filled(h, id) + 0
      BY <2>2, <2>4, FilledGrows
  <2>6. Filled(h, id) \in Int
      BY FillsSummable
  <2> QED BY <2>3, <2>5, <2>6
<1> QED BY <1>1, <1>2 DEF Quiet

\* All match logs, those of the match in progress included.
Logged == matchLogs \o logs

\* What the taker has got that no event says yet.
Unreported(id) ==
    IF taker # NoOrder /\ taker.id = id THEN beforeMatch.amount - taker.amount ELSE 0

\* The logs trade of every order what its events fill and what is unreported.
FillsLogged == \A id : Filled(Reported, id) + Unreported(id) = Traded(Logged, id)

\* The events change by a quiet event or none, the logs do not, and there is
\* no taker, or one that has got nothing yet.
LEMMA QuietStep ==
    ASSUME Inv, LogsHeld, FillsLogged, phase = "idle", matchLogs' = matchLogs, logs' = logs,
           NEW events, Quiet(events), Reported' = orderEvents \o events,
           taker' = NoOrder \/ (taker' \in Order /\ beforeMatch' = taker')
    PROVE  FillsLogged'
<1>1. Reported = orderEvents /\ orderEvents \in Seq(ValidEvents)
    BY IdleReported
<1>2. SUFFICES ASSUME NEW id
               PROVE  Filled(Reported', id) + Unreported(id)' = Traded(Logged', id)
    BY DEF FillsLogged
<1>3. Filled(Reported', id) = Filled(Reported, id)
    BY <1>1, QuietFillsNothing
<1>4. Unreported(id) = 0
    BY DEF Unreported, LogsHeld
<1>5. Unreported(id)' = 0
    BY DEF Unreported, Order
<1>6. Logged' = Logged
    BY DEF Logged
<1> QED BY <1>3, <1>4, <1>5, <1>6 DEF FillsLogged

\* A new worker has no logs.
LEMMA NothingLogged == Init => FillsLogged
<1> SUFFICES ASSUME Init, NEW id PROVE Filled(Reported, id) + Unreported(id) = Traded(Logged, id)
    BY DEF FillsLogged
<1>1. PICK e : e = << >>
    OBVIOUS
<1>2. e \in Seq(ValidEvents) /\ e \in Seq(LogRecord) /\ Len(e) = 0 /\ e \o e = e
    BY <1>1
<1>3. Reported = e /\ Logged = e /\ taker = NoOrder
    BY <1>1, <1>2, StoryPublished DEF Init, Reported, Logged
<1>4. Filled(e, id) = 0
    BY <1>2, FillsSummable, SumStep DEF Filled
<1>5. Traded(e, id) = 0
    BY <1>2, TradesSummable, SumStep DEF Traded
<1> QED BY <1>3, <1>4, <1>5 DEF Unreported

\* An amend has its event, or none, and publishes it or takes it into Match.
LEMMA AmendBegins ==
    ASSUME Inv, Amend
    PROVE  \E edit, events :
              /\ events = AmendEvents(edit) /\ events \in Seq(ValidEvents)
              /\ IF edit.rematch THEN BeginMatch(edit.after, events) ELSE Return(events)
<1>1. /\ Sound(book) /\ FreshElements /\ sequence \in 0..MaxElem /\ MaxElem \in Nat
      /\ issued \subseteq OrderID /\ sequence < MaxElem
    BY BookAssumption DEF Inv, TypeOK, Amend, TakeCommand
<1>2. PICK id, price, amount, edit, events :
          /\ id \in issued /\ price \in Price /\ amount \in Amount \cup {NoAmount}
          /\ edit = EditOrder(book, sequence + 1, id, price, amount)
          /\ events = AmendEvents(edit)
          /\ IF edit.rematch THEN BeginMatch(edit.after, events) ELSE Return(events)
    BY DEF Amend
<1>3. PICK e : e = sequence + 1
    OBVIOUS
<1>4. e \in Elem /\ id \in OrderID /\ edit = EditOrder(book, e, id, price, amount)
    BY <1>1, <1>2, <1>3 DEF Elem
<1>5. \A x \in Elem : x >= e => book.order[x] = NoOrder
  <2>1. \A x \in Elem : x >= e => x > sequence
      BY <1>1, <1>3 DEF Elem
  <2> QED BY <1>1, <2>1 DEF FreshElements
<1>6. \/ edit.before = NoOrder
      \/ /\ edit.before \in Order /\ CanRest(edit.before)
         /\ edit.after \in Order /\ CanRest(edit.after)
    BY <1>1, <1>2, <1>4, <1>5, EditOrderKeeps
<1>7. events \in Seq(ValidEvents)
    BY <1>2, <1>6, AmendEventsAreValid
<1> QED BY <1>2, <1>7

\* A cancel publishes its event, or none.
LEMMA CancelReturns ==
    ASSUME Inv, Cancel
    PROVE  \E o, events :
              events = CancelEvents(o) /\ events \in Seq(ValidEvents) /\ Return(events)
<1>1. Sound(book) /\ issued \subseteq OrderID
    BY DEF Inv, TypeOK
<1>2. PICK id, result : id \in issued /\ result = RemoveOrder(book, id)
                        /\ Return(CancelEvents(result.removed))
    BY DEF Cancel
<1>3. result.removed = NoOrder \/ (result.removed \in Order /\ CanRest(result.removed))
    BY <1>1, <1>2, RemoveOrderKeeps
<1> QED BY <1>2, <1>3, CancelEventsAreValid

\* A create fills nothing.
LEMMA CreateLogs == Inv /\ Inv' /\ LogsHeld /\ FillsLogged /\ Create => FillsLogged'
<1> SUFFICES ASSUME Inv, Inv', LogsHeld, FillsLogged, Create PROVE FillsLogged'
    OBVIOUS
<1>1. PICK o : BeginMatch(o, << >>)
    BY DEF Create
<1>2. phase = "idle" /\ matchLogs' = matchLogs
    BY DEF Create, TakeCommand
<1>3. /\ phase' = "matching" /\ taker' = beforeMatch' /\ builder' = << >> /\ logs' = logs
      /\ makers' = << >> /\ orderEvents' = orderEvents
    BY <1>1, <1>2 DEF BeginMatch, Inv, MatchInProgress
<1>4. Reported' = orderEvents \o << >>
    BY <1>2, <1>3, QuietFillsNothing DEF Inv, MatchInProgress, Reported, Quiet
<1>5. taker' \in Order
    BY <1>3 DEF Inv, MatchInProgress, TakerLeft
<1> QED BY <1>2, <1>3, <1>4, <1>5, QuietStep DEF Quiet

\* Nor does an amend,
LEMMA AmendLogs == Inv /\ Inv' /\ LogsHeld /\ FillsLogged /\ Amend => FillsLogged'
<1> SUFFICES ASSUME Inv, Inv', LogsHeld, FillsLogged, Amend PROVE FillsLogged'
    OBVIOUS
<1>1. phase = "idle" /\ sequence < MaxElem /\ matchLogs' = matchLogs
    BY DEF Amend, TakeCommand
<1>2. PICK edit, events :
          /\ events = AmendEvents(edit) /\ events \in Seq(ValidEvents)
          /\ IF edit.rematch THEN BeginMatch(edit.after, events) ELSE Return(events)
    BY AmendBegins
<1>3. Quiet(events)
  <2>1. CASE edit.before = NoOrder
      BY <1>2, <2>1 DEF AmendEvents, Quiet
  <2>2. CASE edit.before # NoOrder
    <3>1. PICK ev : ev = AmendedEvent(edit.before, edit.after)
        OBVIOUS
    <3>2. events = <<ev>> /\ ev.filled = 0
        BY <1>2, <2>2, <3>1, AmendedFields DEF AmendEvents
    <3>3. ev \in ValidEvents
        BY <1>2, <3>2
    <3> QED BY <3>2, <3>3 DEF Quiet
  <2> QED BY <2>1, <2>2
<1>4. CASE edit.rematch
  <2>1. /\ phase' = "matching" /\ taker' = beforeMatch' /\ builder' = events /\ logs' = logs
        /\ makers' = << >> /\ orderEvents' = orderEvents
      BY <1>1, <1>2, <1>4 DEF BeginMatch, Inv, MatchInProgress
  <2>2. Reported' = orderEvents \o events
      BY <1>3, <2>1, QuietFillsNothing DEF Inv, MatchInProgress, Reported
  <2>3. taker' \in Order
      BY <2>1 DEF Inv, MatchInProgress, TakerLeft
  <2> QED BY <1>1, <1>3, <2>1, <2>2, <2>3, QuietStep
<1>5. CASE ~edit.rematch
  <2>1. taker' = NoOrder /\ Reported' = orderEvents \o events
      BY <1>2, <1>5, ReturnFacts, ReturnReports
  <2>2. logs' = logs
      BY <1>1, <1>2, <1>5 DEF Return, LogsHeld
  <2> QED BY <1>1, <1>3, <2>1, <2>2, QuietStep
<1> QED BY <1>4, <1>5

\* nor a cancel.
LEMMA CancelLogs == Inv /\ Inv' /\ LogsHeld /\ FillsLogged /\ Cancel => FillsLogged'
<1> SUFFICES ASSUME Inv, Inv', LogsHeld, FillsLogged, Cancel PROVE FillsLogged'
    OBVIOUS
<1>1. phase = "idle" /\ matchLogs' = matchLogs
    BY DEF Cancel, TakeCommand
<1>2. PICK o, events : /\ events = CancelEvents(o) /\ events \in Seq(ValidEvents) /\ Return(events)
    BY CancelReturns
<1>3. Quiet(events)
  <2>1. CASE o = NoOrder
      BY <1>2, <2>1 DEF CancelEvents, Quiet
  <2>2. CASE o # NoOrder
    <3>1. PICK ev : ev = CanceledEvent(o)
        OBVIOUS
    <3>2. events = <<ev>> /\ ev.filled = 0
        BY <1>2, <2>2, <3>1, CanceledFields DEF CancelEvents
    <3>3. ev \in ValidEvents
        BY <1>2, <3>2
    <3> QED BY <3>2, <3>3 DEF Quiet
  <2> QED BY <2>1, <2>2
<1>4. taker' = NoOrder /\ Reported' = orderEvents \o events
    BY <1>2, ReturnFacts, ReturnReports
<1>5. logs' = logs
    BY <1>1, <1>2 DEF Return, LogsHeld
<1> QED BY <1>1, <1>3, <1>4, <1>5, QuietStep

\* An execution is logged once, reported for its maker, and unreported for
\* its taker.
LEMMA FillLogs == Inv /\ LogsHeld /\ FillsLogged /\ Fill => FillsLogged'
<1> SUFFICES ASSUME Inv, LogsHeld, FillsLogged, Fill, NEW id
             PROVE  Filled(Reported', id) + Unreported(id)' = Traded(Logged', id)
    BY DEF FillsLogged
<1>1. /\ phase = "matching" /\ CanFill(book, taker)
      /\ taker' = TakerAfterFill(book, taker) /\ beforeMatch' = beforeMatch
      /\ logs' = Append(logs, MatchLog(book, taker, sequence, Len(logs))) /\ matchLogs' = matchLogs
    BY DEF Fill
<1>2. /\ Sound(book) /\ taker \in Order /\ beforeMatch \in Order /\ taker # NoOrder
      /\ taker.amount \in Int /\ beforeMatch.amount \in Int
      /\ sequence \in Nat
    BY <1>1, BookAssumption DEF Inv, TypeOK, MatchInProgress, TakerLeft, Priced, Order
<1>3. PICK f, ev, k : /\ f = MakerFill(book, taker) /\ k = Reported
                      /\ ev = FillEvent(f.order, f.order.amount, f.filled, f.remaining)
                      /\ ev \in ValidEvents /\ k \in Seq(ValidEvents) /\ Reported' = Append(k, ev)
    BY FillReports
<1>4. PICK log, l : log = MatchLog(book, taker, sequence, Len(logs)) /\ l = Logged
    OBVIOUS
<1>5. PICK n, m : n = TradeAmount(book, taker) /\ m = Maker(book, taker).id
    OBVIOUS
<1>6. n \in Int
    BY <1>1, <1>2, <1>5, FillFacts
<1>7. ev.id = m /\ ev.filled = n
    BY <1>3, <1>5, FillFields DEF MakerFill
<1>8. log.maker = m /\ log.taker = taker.id /\ log.amount = n
    BY <1>4, <1>5 DEF MatchLog
<1>9. l \in Seq(LogRecord) /\ log \in LogRecord /\ Logged' = Append(l, log)
  <2>1. logs \in Seq(LogRecord) /\ matchLogs \in Seq(LogRecord) /\ Len(logs) \in Nat
      BY DEF LogsHeld
  <2>2. log \in LogRecord
      BY <1>1, <1>2, <1>4, <2>1, MatchLogTyped
  <2>3. matchLogs \o Append(logs, log) = Append(matchLogs \o logs, log)
      BY <2>1, <2>2
  <2> QED BY <1>1, <1>4, <2>1, <2>2, <2>3 DEF Logged
<1>10. PICK t : t = taker'
    OBVIOUS
<1>11. t # NoOrder /\ t.id = taker.id /\ t.amount = taker.amount - n
  <2>1. t = [taker EXCEPT !.amount = taker.amount - n]
      BY <1>1, <1>5, <1>10 DEF TakerAfterFill
  <2>2. t \in Order /\ t.id = taker.id /\ t.amount = taker.amount - n
      BY <1>2, <1>6, <2>1 DEF Order
  <2> QED BY <2>2, NoOrderAssumption
<1>12. Unreported(id)' = Unreported(id) + (IF taker.id = id THEN n ELSE 0) /\ Unreported(id) \in Int
    BY <1>1, <1>2, <1>6, <1>10, <1>11 DEF Unreported
<1>13. Filled(Reported', id) = Filled(k, id) + (IF m = id THEN n ELSE 0)
  <2>1. FilledBy(ev, id) = IF m = id THEN n ELSE 0
      BY <1>7 DEF FilledBy
  <2> QED BY <1>3, <2>1, FilledGrows
<1>14. Traded(Logged', id) = Traded(l, id) + ((IF m = id THEN n ELSE 0) + (IF taker.id = id THEN n ELSE 0))
  <2>1. TradedBy(log, id) = (IF m = id THEN n ELSE 0) + (IF taker.id = id THEN n ELSE 0)
      BY <1>8 DEF TradedBy
  <2> QED BY <1>9, <2>1, TradedGrows
<1>15. Filled(k, id) + Unreported(id) = Traded(l, id) /\ Filled(k, id) \in Int
    BY <1>3, <1>4, FillsSummable DEF FillsLogged
<1> QED BY <1>6, <1>12, <1>13, <1>14, <1>15

\* The taker's event reports the rest.
LEMMA SettleLogs == Inv /\ Inv' /\ LogsHeld /\ FillsLogged /\ Settle => FillsLogged'
<1> SUFFICES ASSUME Inv, Inv', LogsHeld, FillsLogged, Settle, NEW id
             PROVE  Filled(Reported', id) + Unreported(id)' = Traded(Logged', id)
    BY DEF FillsLogged
<1>1. /\ phase = "matching" /\ matchLogs' = matchLogs \o logs
      /\ Return(MatchEvents(beforeMatch, taker, makers, builder))
    BY DEF Settle
<1>2. PICK before, n, x, y, k, events :
          /\ before = beforeMatch /\ n = before.amount - taker.amount /\ k = Reported
          /\ x = TakerFillEvents(before, n, taker.amount) /\ y = Residual(before, taker, n, builder)
          /\ events = MatchEvents(beforeMatch, taker, makers, builder)
    OBVIOUS
<1>3. Settled(n, x, y)
    BY <1>2 DEF Settled
<1>4. /\ events \in Seq(ValidEvents) /\ x \in Seq(ValidEvents) /\ y \in Seq(ValidEvents)
      /\ k \in Seq(ValidEvents) /\ orderEvents \o events = (k \o x) \o y
  <2>1. Finishes(events, x, y)
      BY <1>2, <1>3, SettleReports
  <2> QED BY <1>2, <2>1, Zenon DEF Finishes
<1>5. Reported' = (k \o x) \o y /\ taker' = NoOrder /\ logs' = << >>
  <2>1. Return(events)
      BY <1>1, <1>2
  <2>2. Reported' = orderEvents \o events /\ taker' = NoOrder
      BY <1>4, <2>1, ReturnReports, ReturnFacts
  <2>3. logs' = << >>
      BY <2>1 DEF Return
  <2> QED BY <1>4, <2>2, <2>3
<1>6. /\ taker # NoOrder /\ before.id = taker.id /\ n \in Int /\ n >= 0
      /\ before.amount = n + taker.amount
  <2>1. TakerLeft(before, taker) /\ taker # NoOrder
      BY <1>1, <1>2 DEF Inv, TypeOK, MatchInProgress
  <2>2. before.amount \in Int /\ taker.amount \in Int /\ before.id = taker.id
        /\ taker.amount <= before.amount
      BY <2>1 DEF TakerLeft, Priced, Order
  <2> QED BY <1>2, <2>1, <2>2
<1>7. PICK q : q = k \o x
    OBVIOUS
<1>8. q \in Seq(ValidEvents) /\ Filled(q, id) = Filled(k, id) + (IF taker.id = id THEN n ELSE 0)
  <2>1. CASE n <= 0
    <3>1. x = << >> /\ n = 0
        BY <1>2, <1>6, <2>1 DEF TakerFillEvents
    <3>2. q = k
        BY <1>4, <1>7, <3>1, ConcatEmptySeq
    <3>3. Filled(k, id) \in Int
        BY <1>4, FillsSummable
    <3> QED BY <1>4, <3>1, <3>2, <3>3
  <2>2. CASE ~(n <= 0)
    <3>1. PICK ev : ev = FillEvent(before, before.amount, n, taker.amount)
        OBVIOUS
    <3>2. x = <<ev>> /\ ev.id = before.id /\ ev.filled = n
        BY <1>2, <2>2, <3>1, FillFields DEF TakerFillEvents
    <3>3. ev \in ValidEvents
        BY <1>4, <3>2
    <3>4. q = Append(k, ev) /\ q \in Seq(ValidEvents)
        BY <1>4, <1>7, <3>2, <3>3, StoryBegins
    <3>5. FilledBy(ev, id) = IF taker.id = id THEN n ELSE 0
        BY <1>6, <3>2 DEF FilledBy
    <3> QED BY <1>4, <3>3, <3>4, <3>5, FilledGrows
  <2> QED BY <2>1, <2>2
<1>9. Filled(Reported', id) = Filled(q, id)
  <2>1. Quiet(y)
    <3>1. CASE y = << >>
        BY <3>1 DEF Quiet
    <3>2. CASE y # << >>
      <4>1. PICK ev : y = <<ev>> /\ ev.filled = 0
          BY <1>2, <3>2, ResidualFields DEF Residual
      <4>2. ev \in ValidEvents
          BY <1>4, <4>1
      <4> QED BY <4>1, <4>2 DEF Quiet
    <3> QED BY <3>1, <3>2
  <2>2. Reported' = q \o y
      BY <1>5, <1>7
  <2> QED BY <1>8, <2>1, <2>2, QuietFillsNothing
<1>10. Unreported(id)' = 0 /\ Unreported(id) = IF taker.id = id THEN n ELSE 0
    BY <1>2, <1>5, <1>6 DEF Unreported
<1>11. Logged' = Logged
  <2>1. Logged \in Seq(LogRecord) /\ matchLogs' = Logged
      BY <1>1 DEF LogsHeld, Logged
  <2>2. Logged \o << >> = Logged
      BY <2>1, ConcatEmptySeq
  <2> QED BY <1>5, <2>1, <2>2 DEF Logged
<1>12. Filled(k, id) + Unreported(id) = Traded(Logged, id) /\ Filled(k, id) \in Int
    BY <1>2, <1>4, FillsSummable DEF FillsLogged
<1> QED BY <1>6, <1>8, <1>9, <1>10, <1>11, <1>12

\* Every step keeps logs and events in balance.
LEMMA StepLogs == Inv /\ Inv' /\ LogsHeld /\ FillsLogged /\ [Next]_vars => FillsLogged'
<1> SUFFICES ASSUME Inv, Inv', LogsHeld, FillsLogged, [Next]_vars PROVE FillsLogged'
    OBVIOUS
<1>1. CASE QuoteOverflow
    BY <1>1 DEF QuoteOverflow, command, FillsLogged, Reported, Unreported, Logged
<1>2. CASE UNCHANGED vars
    BY <1>2 DEF vars, command, FillsLogged, Reported, Unreported, Logged
<1> QED BY <1>1, <1>2, CreateLogs, AmendLogs, CancelLogs, FillLogs, SettleLogs DEF Next

-----------------------------------------------------------------------------
(* The theorems                                                            *)

\* The history is told in every state.
LEMMA HistoryInvariance == Spec => [](Inv /\ IdsUnique /\ HistoryTold)
<1>1. Init => IdsUnique
    BY EmptyBookSound DEF Init, IdsUnique
<1>2. Init => HistoryTold
    BY NothingReported
<1>3. Inv /\ Inv' /\ IdsUnique /\ [Next]_vars => IdsUnique'
    BY StepIds
<1>4. Inv /\ Inv' /\ IdsUnique /\ HistoryTold /\ [Next]_vars => HistoryTold'
    BY StepTells
<1> QED BY <1>1, <1>2, <1>3, <1>4, Invariance, PTL DEF Spec

(***************************************************************************)
(* Whatever commands are executed, the events of each order form a chain:  *)
(* each starts at the quantity and the price the previous one left, and    *)
(* none follows one that left nothing, across creates, amends, matches as  *)
(* maker and as taker, and cancels.                                        *)
(***************************************************************************)
THEOREM EventsAlwaysChain == Spec => []EventsChain
<1>1. Inv /\ HistoryTold => EventsChain
  <2> SUFFICES ASSUME Inv, HistoryTold, UniqueNonces,
                      NEW j \in DOMAIN orderEvents, NEW i \in DOMAIN orderEvents, Follows(orderEvents, j, i)
               PROVE  /\ orderEvents[i].remaining > 0
                      /\ orderEvents[j].previous = orderEvents[i].remaining
                      /\ orderEvents[j].previousPrice = orderEvents[i].price
      BY DEF EventsChain
  <2>1. Chained(orderEvents)
      BY PublishedIsReported DEF HistoryTold
  <2>2. DOMAIN orderEvents = 1..Len(orderEvents)
    <3>1. orderEvents \in Seq(ValidEvents)
        BY DEF Inv, MatchInProgress
    <3> QED BY <3>1
  <2> QED BY <2>1, <2>2 DEF Chained
<1> QED BY <1>1, HistoryInvariance, PTL

(***************************************************************************)
(* Between commands, the published events and the book tell the same       *)
(* story: the latest event of each order that was ever created says how    *)
(* much of it rests and at which price, or that nothing does.              *)
(***************************************************************************)
THEOREM EventsAlwaysExplainBook == Spec => []EventsExplainBook
<1>1. Inv /\ IdsUnique /\ HistoryTold => EventsExplainBook
  <2> SUFFICES ASSUME Inv, IdsUnique, HistoryTold, phase = "idle", UniqueNonces, NEW id \in issued
               PROVE  \E i \in DOMAIN orderEvents :
                         /\ Latest(orderEvents, id, i)
                         /\ IF book.index[id] = NoElem THEN orderEvents[i].remaining = 0
                            ELSE /\ orderEvents[i].remaining = book.order[book.index[id]].amount
                                 /\ orderEvents[i].price = book.order[book.index[id]].price
      BY DEF EventsExplainBook
  <2>1. Explains(orderEvents, book, issued) /\ orderEvents \in Seq(ValidEvents)
      BY BetweenCommands DEF Accounted
  <2>2. PICK n, p : Tells(orderEvents, id, n, p) /\ Shows(book, id, n, p)
      BY <2>1 DEF Explains, Agrees
  <2>3. DOMAIN orderEvents = 1..Len(orderEvents)
      BY <2>1
  <2> QED BY <2>2, <2>3 DEF Tells, Shows
<1> QED BY <1>1, HistoryInvariance, PTL

(***************************************************************************)
(* Between commands, the match logs and the events account for the same    *)
(* quantity of every order: what its events say was filled is what the     *)
(* logs say was traded, as maker and as taker.                             *)
(***************************************************************************)
THEOREM LogsAlwaysExplainFills == Spec => []LogsExplainFills
<1>1. Inv /\ LogsHeld /\ FillsLogged => LogsExplainFills
  <2> SUFFICES ASSUME Inv, LogsHeld, FillsLogged, phase = "idle", NEW id \in issued
               PROVE  SumSeq([i \in DOMAIN orderEvents |-> FilledBy(orderEvents[i], id)]) =
                      SumSeq([i \in DOMAIN matchLogs |-> TradedBy(matchLogs[i], id)])
      BY DEF LogsExplainFills
  <2>1. PICK f, g : f = FillsOf(orderEvents, id) /\ g = TradesOf(matchLogs, id)
      OBVIOUS
  <2>2. Reported = orderEvents /\ orderEvents \in Seq(ValidEvents)
      BY IdleReported
  <2>3. Logged = matchLogs /\ matchLogs \in Seq(LogRecord)
      BY ConcatEmptySeq DEF Logged, LogsHeld
  <2>4. Unreported(id) = 0
      BY DEF Unreported, LogsHeld
  <2>5. SumSeq(f) = Filled(orderEvents, id) /\ Filled(orderEvents, id) \in Int
      BY <2>1, <2>2, FillsSummable, SumSeqIsSum DEF Filled
  <2>6. SumSeq(g) = Traded(matchLogs, id)
      BY <2>1, <2>3, TradesSummable, SumSeqIsSum DEF Traded
  <2>7. Filled(orderEvents, id) + 0 = Traded(matchLogs, id)
      BY <2>2, <2>3, <2>4 DEF FillsLogged
  <2>8. SumSeq(f) = SumSeq(g)
      BY <2>5, <2>6, <2>7
  <2> QED BY <2>1, <2>8 DEF FillsOf, TradesOf
<1>2. Init => LogsHeld /\ FillsLogged
    BY LogsInit, NothingLogged
<1>3. Inv /\ Inv' /\ LogsHeld /\ [Next]_vars => LogsHeld'
    BY LogsStep
<1>4. Inv /\ Inv' /\ LogsHeld /\ FillsLogged /\ [Next]_vars => FillsLogged'
    BY StepLogs
<1> QED BY <1>1, <1>2, <1>3, <1>4, Invariance, PTL DEF Spec

==============================================================================
