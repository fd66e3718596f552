-------------------------- MODULE PriceTimePriority --------------------------
(***************************************************************************)
(* What a continuous limit order book promises, without queues, heaps,     *)
(* levels or an index: a set of resting orders, each with its arrival      *)
(* time, and at most one incoming order.  An incoming order trades with    *)
(* the resting order that has price-time priority, at the resting price,   *)
(* for as much as both have, until no resting order crosses it.            *)
(***************************************************************************)
EXTENDS Integers, Sequences

CONSTANTS
    Id,          \* order identities
    Price,
    Amount,
    MaxTime,     \* bound on the number of commands
    NoIncoming

VARIABLES
    resting,     \* set of [id, side, price, amount, arrival]
    incoming,    \* [id, side, market, price, amount] or NoIncoming
    time,        \* commands so far
    trades,      \* history of executions
    stopped      \* a trade was refused: nothing happens any more

vars == <<resting, incoming, time, trades, stopped>>

Side == {"BID", "ASK"}

\* A better price for the side that rests.
Better(side, p, q) == IF side = "BID" THEN p > q ELSE p < q

Crosses(o, r) ==
    /\ r.side # o.side
    /\ o.market \/ o.price = r.price \/ Better(o.side, o.price, r.price)

\* r is first among the resting orders of its side.
HasPriority(r) ==
    \A x \in resting :
        x.side = r.side /\ x # r =>
            \/ Better(r.side, r.price, x.price)
            \/ r.price = x.price /\ r.arrival < x.arrival

Init ==
    /\ resting = {}
    /\ incoming = NoIncoming
    /\ time = 0
    /\ trades = << >>
    /\ stopped = FALSE

Tick ==
    /\ ~stopped /\ incoming = NoIncoming /\ time < MaxTime
    /\ time' = time + 1

\* A new order comes in.
Arrive ==
    /\ Tick
    /\ \E id \in Id, side \in Side, market \in BOOLEAN, p \in Price, a \in Amount :
          /\ \A r \in resting : r.id # id
          /\ incoming' = [id |-> id, side |-> side, market |-> market,
                          price |-> IF market THEN 0 ELSE p, amount |-> a]
    /\ UNCHANGED <<resting, trades, stopped>>

\* A command that names no live order, or changes nothing.
Ignore ==
    /\ Tick
    /\ UNCHANGED <<resting, incoming, trades, stopped>>

Cancel ==
    /\ Tick
    /\ \E r \in resting : resting' = resting \ {r}
    /\ UNCHANGED <<incoming, trades, stopped>>

\* Less quantity keeps the order's place in line.
Reduce ==
    /\ Tick
    /\ \E r \in resting, a \in Amount :
          /\ a < r.amount
          /\ resting' = (resting \ {r}) \cup {[r EXCEPT !.amount = a]}
    /\ UNCHANGED <<incoming, trades, stopped>>

\* More quantity goes to the end of the line.
Increase ==
    /\ Tick
    /\ \E r \in resting, a \in Amount :
          /\ a > r.amount
          /\ resting' = (resting \ {r}) \cup {[r EXCEPT !.amount = a, !.arrival = time']}
    /\ UNCHANGED <<incoming, trades, stopped>>

\* Another price makes the order an incoming one.
Reprice ==
    /\ Tick
    /\ \E r \in resting : \E p \in Price \ {r.price}, a \in Amount \cup {r.amount} :
          /\ resting' = resting \ {r}
          /\ incoming' = [id |-> r.id, side |-> r.side, market |-> FALSE, price |-> p, amount |-> a]
    /\ UNCHANGED <<trades, stopped>>

Trade ==
    /\ ~stopped /\ incoming # NoIncoming /\ incoming.amount > 0
    /\ \E r \in resting :
          LET q == IF incoming.amount < r.amount THEN incoming.amount ELSE r.amount
          IN  /\ Crosses(incoming, r)
              /\ HasPriority(r)
              /\ resting' = (resting \ {r})
                    \cup (IF q = r.amount THEN {} ELSE {[r EXCEPT !.amount = @ - q]})
              /\ incoming' = [incoming EXCEPT !.amount = @ - q]
              /\ trades' = Append(trades, [taker |-> incoming.id, maker |-> r.id,
                                           price |-> r.price, amount |-> q])
    /\ UNCHANGED <<time, stopped>>

\* No further trade is possible: what remains of a limit order rests, what
\* remains of a market order is gone.
Conclude ==
    /\ ~stopped /\ incoming # NoIncoming
    /\ incoming.amount = 0 \/ \A r \in resting : ~Crosses(incoming, r)
    /\ incoming' = NoIncoming
    /\ resting' = resting \cup
          (IF incoming.amount = 0 \/ incoming.market THEN {}
           ELSE {[id |-> incoming.id, side |-> incoming.side, price |-> incoming.price,
                  amount |-> incoming.amount, arrival |-> time]})
    /\ UNCHANGED <<time, trades, stopped>>

\* A trade that is due is refused, and with it everything that follows.
Refuse ==
    /\ ~stopped /\ incoming # NoIncoming /\ incoming.amount > 0
    /\ \E r \in resting : Crosses(incoming, r)
    /\ stopped' = TRUE
    /\ UNCHANGED <<resting, incoming, time, trades>>

Next ==
    \/ Arrive \/ Ignore \/ Cancel \/ Reduce \/ Increase \/ Reprice
    \/ Trade \/ Conclude \/ Refuse

Spec == Init /\ [][Next]_vars

=============================================================================
