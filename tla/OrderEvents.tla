----------------------------- MODULE OrderEvents -----------------------------
(***************************************************************************)
(* The lifecycle events of orders: what the orderEventBuilder of           *)
(* internal/engine/order_events.go makes of the outcome of a command, and  *)
(* what internal/orderevent/event.go accepts; and, from them and from      *)
(* OrderBook, the outcome of a whole command as a function.                *)
(***************************************************************************)
EXTENDS OrderBook

EventType == {"RESTING", "PARTIALLY_FILLED", "FILLED", "AMENDED", "CANCELED", "REMAINDER_CANCELED"}

EventRecord == [type : EventType, id : OrderID, kind : Kind,
                previousPrice : Int, price : Int, previous : Int,
                filled : Int, canceled : Int, remaining : Int]

\* orderEventBuilder.add: the fields that identify and describe the order.
Event(type, o, previousPrice, previous, filled, canceled, remaining) ==
    [type |-> type, id |-> o.id, kind |-> o.kind,
     previousPrice |-> previousPrice, price |-> o.price, previous |-> previous,
     filled |-> filled, canceled |-> canceled, remaining |-> remaining]

FillEvent(o, previous, filled, remaining) ==
    Event(IF remaining = 0 THEN "FILLED" ELSE "PARTIALLY_FILLED",
          o, o.price, previous, filled, 0, remaining)

\* Mutant: only makers that were filled completely are reported.
MakerFillEventsConsumed(fills) ==
    LET consumed == SelectSeq(fills, LAMBDA fill : fill.remaining = 0)
    IN  [i \in DOMAIN consumed |->
            FillEvent(consumed[i].order, consumed[i].order.amount, consumed[i].filled, 0)]

MakerFillEvents(fills) ==
    [i \in DOMAIN fills |->
        FillEvent(fills[i].order, fills[i].order.amount, fills[i].filled, fills[i].remaining)]

\* Mutant: no check that the taker traded at all.
TakerFillEventsAlways(o, filled, remaining) == <<FillEvent(o, o.amount, filled, remaining)>>

TakerFillEvents(o, filled, remaining) ==
    IF filled <= 0 THEN << >> ELSE <<FillEvent(o, o.amount, filled, remaining)>>

RestingEvent(o) == Event("RESTING", o, o.price, o.amount, 0, 0, o.amount)
\* Mutant: the previous price is the new one.
AmendedEventNewPrice(before, after) ==
    Event("AMENDED", after, after.price, before.amount, 0, 0, after.amount)

AmendedEvent(before, after) ==
    Event("AMENDED", after, before.price, before.amount, 0, 0, after.amount)
CanceledEvent(o) == Event("CANCELED", o, o.price, o.amount, 0, o.amount, 0)
RemainderCanceledEvent(o, remaining) ==
    Event("REMAINDER_CANCELED", o, o.price, remaining, 0, remaining, 0)

ValidTransition(ev) ==
    \/ /\ ev.type = "RESTING"
       /\ ev.filled = 0 /\ ev.canceled = 0 /\ ev.remaining > 0 /\ ev.previous = ev.remaining
    \/ /\ ev.type = "PARTIALLY_FILLED"
       /\ ev.filled > 0 /\ ev.canceled = 0 /\ ev.remaining > 0
       /\ ev.previous = ev.filled + ev.remaining
    \/ /\ ev.type = "FILLED"
       /\ ev.filled > 0 /\ ev.canceled = 0 /\ ev.remaining = 0 /\ ev.previous = ev.filled
    \/ /\ ev.type = "AMENDED"
       /\ ev.filled = 0 /\ ev.canceled = 0 /\ ev.remaining > 0
    \/ /\ ev.type \in {"CANCELED", "REMAINDER_CANCELED"}
       /\ ev.filled = 0 /\ ev.canceled > 0 /\ ev.remaining = 0 /\ ev.previous = ev.canceled

ValidPrices(ev) ==
    IF ev.kind = "MARKET" THEN ev.previousPrice = 0 /\ ev.price = 0
    ELSE ev.previousPrice > 0 /\ ev.price > 0

ValidEvent(ev) ==
    /\ ValidPrices(ev)
    /\ ev.previous > 0 /\ ev.filled >= 0 /\ ev.canceled >= 0 /\ ev.remaining >= 0
    /\ ValidTransition(ev)

AllValid(events) == \A i \in DOMAIN events : ValidEvent(events[i])

-----------------------------------------------------------------------------
(* The events of a command                                                 *)

\* Mutant: only a new price is reported.
AmendEventsOnReprice(edit) ==
    IF ~edit.rematch THEN << >> ELSE <<AmendedEvent(edit.before, edit.after)>>

AmendEvents(edit) ==
    IF edit.before = NoOrder THEN << >> ELSE <<AmendedEvent(edit.before, edit.after)>>

CancelEvents(removed) == IF removed = NoOrder THEN << >> ELSE <<CanceledEvent(removed)>>

\* The residual of a limit order rests; that of a market order is dropped.
Rests(residual) == residual.amount > 0 /\ residual.kind = "LIMIT"

\* The events of a command that matched; amended holds the event an amend
\* has already added.  A create that rests untouched announces itself.
MatchEvents(before, after, makers, amended) ==
    LET filled == before.amount - after.amount
        residual ==
            IF after.amount > 0 /\ after.kind = "MARKET"
            THEN <<RemainderCanceledEvent(before, after.amount)>>
            ELSE IF Rests(after) /\ filled <= 0 /\ amended = << >> THEN <<RestingEvent(before)>>
            ELSE << >>
    IN  amended \o MakerFillEvents(makers)
                \o TakerFillEvents(before, filled, after.amount) \o residual

-----------------------------------------------------------------------------
(* applyCommand as a function.  matched is the book when the match logs    *)
(* are handed to their writer, book the book when the command is done;     *)
(* err says that Match failed, rejected that an event is invalid.          *)

Unmatched(b, events) ==
    [matched |-> b, book |-> b, logs |-> << >>, events |-> events,
     err |-> FALSE, rejected |-> ~AllValid(events)]

Matched(b, o, amended, sequence) ==
    LET m == Match(b, o, sequence)
        events == MatchEvents(o, m.taker, m.makers, amended)
    IN  IF m.err
        THEN [matched |-> m.book, book |-> m.book, logs |-> << >>, events |-> << >>,
              err |-> TRUE, rejected |-> FALSE]
        ELSE [matched |-> m.book,
              book |-> IF Rests(m.taker) THEN AddOrder(m.book, sequence, m.taker) ELSE m.book,
              logs |-> m.logs, events |-> events, err |-> FALSE, rejected |-> ~AllValid(events)]

\* A payload is a create's order, or the arguments of an amend or a cancel.
ApplyCreate(b, o, sequence) == Matched(b, o, << >>, sequence)

ApplyAmend(b, id, price, amount, sequence) ==
    LET edit == EditOrder(b, sequence, id, price, amount)
    IN  IF edit.rematch THEN Matched(edit.book, edit.after, AmendEvents(edit), sequence)
        ELSE Unmatched(edit.book, AmendEvents(edit))

ApplyCancel(b, id) ==
    LET result == RemoveOrder(b, id) IN Unmatched(result.book, CancelEvents(result.removed))

=============================================================================
