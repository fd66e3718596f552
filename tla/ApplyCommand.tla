---------------------------- MODULE ApplyCommand ----------------------------
(***************************************************************************)
(* BookWorker.applyCommand (internal/engine/bookworker.go) executing the   *)
(* journaled commands of one ticker, one after the other, against its      *)
(* order book: create, amend and cancel, the iterations of Match, and the  *)
(* publication of the match logs and order events they produce.            *)
(*                                                                         *)
(* One iteration of the matching loop is one step, so that every state the *)
(* book passes through is visible.  Persisting succeeds here; the module   *)
(* Engine is about how it fails.                                           *)
(***************************************************************************)
EXTENDS OrderEvents

CONSTANT
    UniqueNonces  \* clients never reuse a nonce for an otherwise equal order

ASSUME UniqueNoncesAssumption == UniqueNonces \in BOOLEAN

VARIABLES
    book,         \* w.OrderBook
    sequence,     \* sequence of the last command taken from the journal
    phase,        \* "idle", "matching", or the error applyCommand returned with
    taker,        \* the order being matched, NoOrder when idle
    beforeMatch,  \* applyCommand's copy of it from before Match
    logs,         \* result.Logs
    makers,       \* result.MakerTransitions
    builder,      \* events of this command added before Match
    orderEvents,  \* history: order events published so far
    matchLogs,    \* history: match logs published so far
    issued        \* history: order ids of the create commands so far

command == <<taker, beforeMatch, logs, makers, builder>>
vars == <<book, sequence, phase, command, orderEvents, matchLogs, issued>>

-----------------------------------------------------------------------------
(* Commands                                                                *)

Init ==
    /\ book = EmptyBook
    /\ sequence = 0
    /\ phase = "idle"
    /\ taker = NoOrder
    /\ beforeMatch = NoOrder
    /\ logs = << >>
    /\ makers = << >>
    /\ builder = << >>
    /\ orderEvents = << >>
    /\ matchLogs = << >>
    /\ issued = {}

\* The worker takes the next command; MaxElem bounds how many there are.
TakeCommand ==
    /\ phase = "idle"
    /\ sequence < MaxElem
    /\ sequence' = sequence + 1

\* applyCommand returns builder.result(): an invalid event is an error, and
\* none of the command's events are published.
Return(events) ==
    /\ IF AllValid(events)
       THEN phase' = "idle" /\ orderEvents' = orderEvents \o events
       ELSE phase' = "rejected" /\ UNCHANGED orderEvents
    /\ taker' = NoOrder
    /\ beforeMatch' = NoOrder
    /\ logs' = << >>
    /\ makers' = << >>
    /\ builder' = << >>

\* Mutant: Match works on the only copy of the order.
BeginMatchUncopied(o, events) ==
    /\ phase' = "matching"
    /\ taker' = o
    /\ builder' = events
    /\ UNCHANGED <<beforeMatch, logs, makers, orderEvents>>

BeginMatch(o, events) ==
    /\ phase' = "matching"
    /\ taker' = o
    /\ beforeMatch' = o
    /\ builder' = events
    /\ UNCHANGED <<logs, makers, orderEvents>>

Create ==
    /\ TakeCommand
    /\ \E kind \in Kind, side \in Side, limit \in Price, amount \in Amount, nonce \in Nonce :
          LET price == IF kind = "LIMIT" THEN limit ELSE NoPrice
              o == CreateOrder(kind, side, price, amount, nonce)
          IN  /\ UniqueNonces => o.id \notin issued
              /\ issued' = issued \cup {o.id}
              /\ BeginMatch(o, << >>)
    /\ UNCHANGED <<book, matchLogs>>

Amend ==
    /\ TakeCommand
    /\ \E id \in issued, price \in Price, amount \in Amount \cup {NoAmount} :
          LET edit == EditOrder(book, sequence + 1, id, price, amount)
              events == AmendEvents(edit)
          IN  /\ book' = edit.book
              /\ IF edit.rematch THEN BeginMatch(edit.after, events) ELSE Return(events)
    /\ UNCHANGED <<matchLogs, issued>>

Cancel ==
    /\ TakeCommand
    /\ \E id \in issued :
          LET result == RemoveOrder(book, id)
          IN  /\ book' = result.book
              /\ Return(CancelEvents(result.removed))
    /\ UNCHANGED <<matchLogs, issued>>

-----------------------------------------------------------------------------
(* Match and what applyCommand does with its result                        *)

Fill ==
    /\ phase = "matching"
    /\ CanFill(book, taker)
    /\ ~QuoteOverflows(book, taker)
    /\ book' = BookAfterFill(book, taker)
    /\ taker' = TakerAfterFill(book, taker)
    /\ logs' = Append(logs, MatchLog(book, taker, sequence, Len(logs)))
    /\ makers' = Append(makers, MakerFill(book, taker))
    /\ UNCHANGED <<sequence, phase, beforeMatch, builder, orderEvents, matchLogs, issued>>

\* newMatchLog failed: Match returns at once with result.Err, the book keeps
\* the fills made so far, and applyCommand returns the error.
QuoteOverflow ==
    /\ phase = "matching"
    /\ CanFill(book, taker)
    /\ QuoteOverflows(book, taker)
    /\ phase' = "overflow"
    /\ UNCHANGED <<book, sequence, command, orderEvents, matchLogs, issued>>

Settle ==
    /\ phase = "matching"
    /\ ~CanFill(book, taker)
    /\ matchLogs' = matchLogs \o logs
    /\ book' = IF Rests(taker) THEN AddOrder(book, sequence, taker) ELSE book
    /\ Return(MatchEvents(beforeMatch, taker, makers, builder))
    /\ UNCHANGED <<sequence, issued>>

Next == Create \/ Amend \/ Cancel \/ Fill \/ QuoteOverflow \/ Settle

Spec == Init /\ [][Next]_vars

-----------------------------------------------------------------------------
(* Properties                                                              *)

Resting == {e \in Elem : book.order[e] # NoOrder}

SumSeq(q) == FoldLeft(LAMBDA sum, n : sum + n, 0, q)

(***************************************************************************)
(* Types of the book and of the command in progress: there is a taker      *)
(* whenever a match is under way.                                          *)
(***************************************************************************)
TypeOK ==
    /\ book \in Book
    /\ sequence \in 0..MaxElem
    /\ phase \in {"idle", "matching", "overflow", "rejected"}
    /\ taker \in Order \cup {NoOrder}
    /\ beforeMatch \in Order \cup {NoOrder}
    /\ phase = "matching" => taker # NoOrder /\ beforeMatch # NoOrder
    /\ issued \subseteq OrderID

(***************************************************************************)
(* The map, the heap and the queues name the same levels: a price is in    *)
(* the heap (Peek can return it) and in the map (snapshots show it, edits  *)
(* find it) exactly when an order is queued there.  Every fill, cancel and *)
(* edit updates the three by hand.                                         *)
(***************************************************************************)
LevelsAgree ==
    \A s \in Side :
        /\ book.heap[s] = book.levels[s]
        /\ book.levels[s] = {p \in Price : book.queue[s][p] # << >>}

(***************************************************************************)
(* TotalAmount, kept by adding and subtracting deltas, is the sum of what  *)
(* the orders of the level have left, as an int64.  A sum that is too      *)
(* large wraps around (order.go:113); whatever is then filled, cancelled   *)
(* or edited, the total is exact again as soon as the sum fits.            *)
(***************************************************************************)
TotalsExact ==
    \A s \in Side, p \in Price :
        LET queue == book.queue[s][p]
        IN  book.total[s][p] = Wrap(SumSeq([i \in DOMAIN queue |-> book.order[queue[i]].amount]))

(***************************************************************************)
(* Every resting order can be amended and cancelled: the Index maps an id  *)
(* to an element exactly when that element rests and carries that id.      *)
(***************************************************************************)
IndexExact ==
    /\ \A e \in Resting : book.index[book.order[e].id] = e
    /\ \A id \in OrderID :
           book.index[id] # NoElem =>
              book.index[id] \in Resting /\ book.order[book.index[id]].id = id

LiveAmount(s, prices) ==
    LET live == {e \in Resting : book.order[e].side = s /\ book.order[e].price \in prices}
    IN  MapThenSumSet(LAMBDA e : book.order[e].amount, live)

(***************************************************************************)
(* What GET /orderbook shows at any moment is the aggregation of the live  *)
(* orders, best price first, also when cut at a depth.  Amounts and their  *)
(* running sums are int64: those that do not fit wrap around.              *)
(***************************************************************************)
SnapshotFaithful ==
    \A s \in Side, depth \in 0..Cardinality(Price) :
        LET shown == Snapshot(book, s, depth)
            prices == {shown[i].price : i \in DOMAIN shown}
            live == {book.order[e].price : e \in {x \in Resting : book.order[x].side = s}}
        IN  /\ prices \subseteq live
            /\ depth = 0 => prices = live
            /\ \A i \in DOMAIN shown :
                  /\ shown[i].amount = Wrap(LiveAmount(s, {shown[i].price}))
                  /\ shown[i].cumulative = Wrap(LiveAmount(s, {shown[j].price : j \in 1..i}))
                  /\ \A q \in live \ {shown[j].price : j \in 1..i} :
                        IF s = "BID" THEN q < shown[i].price ELSE q > shown[i].price

(***************************************************************************)
(* The validation of generated events never fires: no sequence of valid    *)
(* commands makes applyCommand build an event its own writer rejects, so   *)
(* only a quote overflow can stop the engine here.                         *)
(***************************************************************************)
EventsNeverRejected == phase # "rejected"

\* Among the events, the one at i is the latest of its order before j.
Follows(events, j, i) ==
    /\ i < j /\ events[i].id = events[j].id
    /\ \A k \in (i + 1)..(j - 1) : events[k].id # events[j].id

\* The one at i is the latest of the order.
Latest(events, id, i) ==
    events[i].id = id /\ \A k \in (i + 1)..Len(events) : events[k].id # id

(***************************************************************************)
(* The events of one order form a chain across commands: each starts at    *)
(* the quantity and the price the previous one left, and none follows a    *)
(* terminal one.                                                           *)
(***************************************************************************)
EventsChain ==
    UniqueNonces =>
    \A j \in DOMAIN orderEvents, i \in DOMAIN orderEvents :
        Follows(orderEvents, j, i) =>
            /\ orderEvents[i].remaining > 0
            /\ orderEvents[j].previous = orderEvents[i].remaining
            /\ orderEvents[j].previousPrice = orderEvents[i].price

(***************************************************************************)
(* Between commands the event history and the book tell the same story: an *)
(* order rests with the price and quantity of its latest event, or its     *)
(* latest event says nothing remains.                                      *)
(***************************************************************************)
EventsExplainBook ==
    phase = "idle" /\ UniqueNonces =>
    \A id \in issued : \E i \in DOMAIN orderEvents :
        /\ Latest(orderEvents, id, i)
        /\ IF book.index[id] = NoElem THEN orderEvents[i].remaining = 0
           ELSE /\ orderEvents[i].remaining = book.order[book.index[id]].amount
                /\ orderEvents[i].price = book.order[book.index[id]].price

\* What an event fills of an order, and what a match log trades of it.
FilledBy(ev, id) == IF ev.id = id THEN ev.filled ELSE 0
TradedBy(log, id) ==
    (IF log.maker = id THEN log.amount ELSE 0) + (IF log.taker = id THEN log.amount ELSE 0)

(***************************************************************************)
(* Between commands the match logs and the fill events account for the     *)
(* same quantity of every order, maker or taker.                           *)
(***************************************************************************)
LogsExplainFills ==
    phase = "idle" =>
    \A id \in issued :
        SumSeq([i \in DOMAIN orderEvents |-> FilledBy(orderEvents[i], id)]) =
        SumSeq([i \in DOMAIN matchLogs |-> TradedBy(matchLogs[i], id)])

=============================================================================
