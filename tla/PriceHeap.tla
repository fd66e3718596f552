----------------------------- MODULE PriceHeap -----------------------------
(***************************************************************************)
(* The heap of price levels of one side of a book: the slices of           *)
(* internal/util/max_heap.go and min_heap.go under Go's container/heap,    *)
(* with the Index field that lets order.go remove a level from the middle. *)
(* OrderBook takes a heap to be the set of its prices, and Peek to be the  *)
(* best of them: this module is what that rests on.                        *)
(*                                                                         *)
(* A level is named by its price; every turn of the loops that move a      *)
(* level up or down is a step.                                             *)
(***************************************************************************)
EXTENDS Integers

CONSTANT Price

ASSUME PriceAssumption == Price \subseteq Int

VARIABLES
    side,      \* "bid": MaxPriceHeap, "ask": MinPriceHeap
    levels,    \* the keys of ob.Bids or ob.Asks
    heap,      \* the slice: a function on 0..size-1
    size,
    index,     \* PriceLevel.Index
    pc,        \* "idle", or the loop that container/heap is in
    at,        \* where the level that it moves is
    from,      \* where down started
    subject,   \* the level being added or removed
    removing

vars == <<side, levels, heap, size, index, pc, at, from, subject, removing>>

Init ==
    /\ side \in {"bid", "ask"}
    /\ levels = {}
    /\ size = 0 /\ heap = [i \in 0..-1 |-> 0]
    /\ index = [p \in Price |-> -1]
    /\ pc = "idle" /\ at = 0 /\ from = 0 /\ removing = FALSE
    /\ subject \in Price

\* Mutant: the comparison of one heap pasted into the other.
BetterPasted(p, q) == p > q

\* Less, of prices.
Better(p, q) == IF side = "bid" THEN p > q ELSE p < q

Less(i, j) == Better(heap[i], heap[j])

Parent(j) == IF j = 0 THEN 0 ELSE (j - 1) \div 2

\* Mutant: the index of one of the two levels is left as it was.
SwapOneIndex(i, j) ==
    /\ heap' = [heap EXCEPT ![i] = heap[j], ![j] = heap[i]]
    /\ index' = [index EXCEPT ![heap[j]] = i]

Swap(i, j) ==
    /\ heap' = [heap EXCEPT ![i] = heap[j], ![j] = heap[i]]
    /\ index' = [index EXCEPT ![heap[j]] = i, ![heap[i]] = j]

-----------------------------------------------------------------------------

\* AddOrder at a price without a level: heap.Push appends and moves up.
Add(p) ==
    /\ pc = "idle" /\ p \notin levels
    /\ levels' = levels \cup {p}
    /\ index' = [index EXCEPT ![p] = size]
    /\ heap' = [i \in 0..size |-> IF i = size THEN p ELSE heap[i]]
    /\ size' = size + 1
    /\ pc' = "up" /\ at' = size
    /\ subject' = p /\ removing' = FALSE
    /\ UNCHANGED <<side, from>>

\* removeElement and dropPriceLevel, for a level whose queue is empty: by the
\* level's Index if that is within the slice; heap.Remove swaps it to the end.
Remove(p) ==
    /\ pc = "idle" /\ p \in levels
    /\ subject' = p
    /\ IF index[p] \in 0..size - 1
       THEN /\ removing' = TRUE /\ UNCHANGED levels
            /\ IF index[p] = size - 1
               THEN pc' = "pop" /\ UNCHANGED <<heap, index, at, from>>
               ELSE /\ Swap(index[p], size - 1)
                    /\ pc' = "down" /\ at' = index[p] /\ from' = index[p]
       ELSE levels' = levels \ {p} /\ UNCHANGED <<heap, index, pc, at, from, removing>>
    /\ UNCHANGED <<side, size>>

\* One turn of up.
Up ==
    /\ pc = "up"
    /\ IF at = Parent(at) \/ ~Less(at, Parent(at))
       THEN pc' = (IF removing THEN "pop" ELSE "idle") /\ UNCHANGED <<heap, index, at>>
       ELSE Swap(Parent(at), at) /\ at' = Parent(at) /\ UNCHANGED pc
    /\ UNCHANGED <<side, levels, size, from, subject, removing>>

\* The better of the children that are before the last place.
Child(i) == IF 2*i + 2 < size - 1 /\ Less(2*i + 2, 2*i + 1) THEN 2*i + 2 ELSE 2*i + 1

\* One turn of down; if it never moved its level, up gets a turn.
Down ==
    /\ pc = "down"
    /\ IF 2*at + 1 >= size - 1 \/ ~Less(Child(at), at)
       THEN pc' = (IF at > from THEN "pop" ELSE "up") /\ UNCHANGED <<heap, index, at>>
       ELSE Swap(at, Child(at)) /\ at' = Child(at) /\ UNCHANGED pc
    /\ UNCHANGED <<side, levels, size, from, subject, removing>>

\* Mutant: the level that left keeps its index.
PopKeepingIndex ==
    /\ pc = "pop" /\ pc' = "idle"
    /\ UNCHANGED index
    /\ size' = size - 1
    /\ heap' = [i \in 0..size - 2 |-> heap[i]]
    /\ levels' = levels \ {subject}
    /\ UNCHANGED <<side, at, from, subject, removing>>

\* Pop truncates the slice; then the level is deleted from the map.
Pop ==
    /\ pc = "pop" /\ pc' = "idle"
    /\ index' = [index EXCEPT ![heap[size - 1]] = -1]
    /\ size' = size - 1
    /\ heap' = [i \in 0..size - 2 |-> heap[i]]
    /\ levels' = levels \ {subject}
    /\ UNCHANGED <<side, at, from, subject, removing>>

Next == (\E p \in Price : Add(p) \/ Remove(p)) \/ Up \/ Down \/ Pop

Spec == Init /\ [][Next]_vars

-----------------------------------------------------------------------------
(* Properties                                                              *)

(***************************************************************************)
(* Types of the slice and the loop variables; no Index is out of bounds.   *)
(***************************************************************************)
TypeOK ==
    /\ side \in {"bid", "ask"}
    /\ levels \subseteq Price
    /\ size \in Nat
    /\ heap \in [0..size - 1 -> Price]
    /\ index \in [Price -> -1..size - 1]
    /\ pc \in {"idle", "up", "down", "pop"}
    /\ at \in Nat /\ from \in Nat
    /\ subject \in Price
    /\ removing \in BOOLEAN

(***************************************************************************)
(* Every level in the slice knows where it is, after every single swap,    *)
(* and a level that has left it knows that too: removal by Index always    *)
(* removes the level it was asked to.                                      *)
(***************************************************************************)
IndexesExact ==
    /\ \A i \in 0..size - 1 : index[heap[i]] = i
    /\ \A p \in Price \ levels : index[p] = -1

(***************************************************************************)
(* The slice holds the levels of the map, each once: no level is dropped   *)
(* from one and stays in the other.                                        *)
(***************************************************************************)
HeapHoldsLevels ==
    /\ levels = {heap[i] : i \in 0..size - 1}
    /\ \A i, j \in 0..size - 1 : heap[i] = heap[j] => i = j

\* The first n places are a heap.
Ordered(n) == \A i \in 1..n - 1 : ~Less(i, Parent(i))

(***************************************************************************)
(* Between operations Peek is the best price of the side: the highest bid, *)
(* the lowest ask.                                                         *)
(***************************************************************************)
PeekIsBest ==
    pc = "idle" /\ size > 0 =>
        \A p \in levels : IF side = "bid" THEN heap[0] >= p ELSE heap[0] <= p

\* The inductive invariant: where the heap may be out of order, per loop.
Active == IF removing /\ pc # "idle" THEN size - 1 ELSE size

\* In order but at j, whose children do not beat its parent.
OrderedButUp(j, n) ==
    /\ j \in 0..n - 1
    /\ \A i \in 1..n - 1 : i # j => ~Less(i, Parent(i))
    /\ \A i \in 1..n - 1 : j # 0 /\ Parent(i) = j => ~Less(i, Parent(j))

\* In order but below j, and at j as long as down has not moved.
OrderedButDown(j, n) ==
    /\ j \in 0..n - 1
    /\ \A i \in 1..n - 1 : Parent(i) # j /\ (i = j => j # from) => ~Less(i, Parent(i))
    /\ \A i \in 1..n - 1 : j # 0 /\ Parent(i) = j => ~Less(i, Parent(j))

(***************************************************************************)
(* In the middle of an operation too, the slice is a heap but for the one  *)
(* level being moved, and a level being removed waits at its end.          *)
(***************************************************************************)
HeapInvariant ==
    /\ IndexesExact
    /\ HeapHoldsLevels
    /\ pc \in {"idle", "pop"} => Ordered(Active)
    /\ pc = "up" => OrderedButUp(at, Active)
    /\ pc = "down" => OrderedButDown(at, Active) /\ from <= at
    /\ pc \in {"down", "pop"} => removing
    /\ removing /\ pc # "idle" => size > 0 /\ heap[size - 1] = subject

=============================================================================
