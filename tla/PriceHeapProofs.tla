-------------------------- MODULE PriceHeapProofs --------------------------
(***************************************************************************)
(* PriceHeap is right for any set of prices and any number of levels.      *)
(***************************************************************************)
EXTENDS PriceHeap, TLAPS, WellFoundedInduction

Inv == TypeOK /\ HeapInvariant

(***************************************************************************)
(* A nonempty set of natural numbers has a least element.                  *)
(***************************************************************************)
LEMMA LeastNatural ==
    ASSUME NEW T \in SUBSET Nat, T # {}
    PROVE  \E x \in T : \A y \in T : x <= y
<1> DEFINE R == {ss \in Nat \X Nat : ss[1] < ss[2]}
<1>1. IsWellFoundedOn(R, Nat)
  BY NatLessThanWellFounded, Zenon DEF OpToRel
<1>2. PICK x \in T : \A y \in T : <<y, x>> \notin R
  <2> HIDE DEF R
  <2> QED BY <1>1, WFMin
<1>3. \A y \in T : ~(y < x)
  BY <1>2
<1> QED
  BY <1>3

-----------------------------------------------------------------------------
(* Arithmetic of the tree, and the order of prices                         *)

(***************************************************************************)
(* The parent of j is before j, and the children of i are 2i+1 and 2i+2.   *)
(***************************************************************************)
LEMMA ParentFacts ==
    ASSUME NEW j \in Nat
    PROVE  /\ Parent(j) \in Nat
           /\ j # 0 => Parent(j) < j
           /\ j = 0 => Parent(j) = 0
           /\ \A i \in Nat : j # 0 => (Parent(j) = i <=> j = 2*i + 1 \/ j = 2*i + 2)
<1>1. CASE j = 0
  BY <1>1 DEF Parent
<1>2. CASE j # 0
  <2>1. PICK q \in Nat : j = 2*q + 1 \/ j = 2*q + 2
    <3>1. (j - 1) \div 2 \in Nat /\ (j = 2*((j - 1) \div 2) + 1 \/ j = 2*((j - 1) \div 2) + 2)
      BY <1>2
    <3> QED BY <3>1
  <2>2. Parent(j) = q
    BY <1>2, <2>1 DEF Parent
  <2> QED BY <1>2, <2>1, <2>2
<1> QED BY <1>1, <1>2

(***************************************************************************)
(* Either heap compares by a strict total order.                           *)
(***************************************************************************)
LEMMA BetterFacts ==
    ASSUME NEW p \in Price, NEW q \in Price, NEW r \in Price
    PROVE  /\ ~Better(p, p)
           /\ Better(p, q) => ~Better(q, p)
           /\ ~Better(p, q) /\ ~Better(q, r) => ~Better(p, r)
           /\ Better(p, q) /\ ~Better(r, q) => ~Better(r, p)
BY PriceAssumption DEF Better

-----------------------------------------------------------------------------
(* What a swap does                                                        *)

(***************************************************************************)
(* Swap exchanges two places and keeps the indexes exact.                  *)
(***************************************************************************)
LEMMA SwapFacts ==
    ASSUME TypeOK, IndexesExact, HeapHoldsLevels,
           NEW i \in 0..size - 1, NEW j \in 0..size - 1, i # j,
           Swap(i, j), UNCHANGED <<side, levels, size>>
    PROVE  /\ heap' \in [0..size' - 1 -> Price]
           /\ index' \in [Price -> -1..size' - 1]
           /\ heap'[i] = heap[j] /\ heap'[j] = heap[i]
           /\ \A k \in 0..size - 1 : k # i /\ k # j => heap'[k] = heap[k]
           /\ IndexesExact'
           /\ HeapHoldsLevels'
<1> USE DEF TypeOK
<1>1. /\ heap' \in [0..size' - 1 -> Price]
      /\ heap'[i] = heap[j] /\ heap'[j] = heap[i]
      /\ \A k \in 0..size - 1 : k # i /\ k # j => heap'[k] = heap[k]
  BY DEF Swap
<1>2. heap[i] \in Price /\ heap[j] \in Price /\ heap[i] # heap[j]
  BY DEF HeapHoldsLevels
<1>3. /\ index' \in [Price -> -1..size' - 1]
      /\ index'[heap[j]] = i /\ index'[heap[i]] = j
      /\ \A p \in Price : p # heap[i] /\ p # heap[j] => index'[p] = index[p]
  <2>1. PICK a, b : a = heap[i] /\ b = heap[j]
    OBVIOUS
  <2>2. index' = [index EXCEPT ![b] = i, ![a] = j] /\ size' = size
    BY <2>1 DEF Swap
  <2>3. index \in [Price -> -1..size - 1] /\ i \in -1..size - 1 /\ j \in -1..size - 1
    OBVIOUS
  <2>4. a \in Price /\ b \in Price /\ a # b
    BY <1>2, <2>1
  <2>5. index' \in [Price -> -1..size' - 1]
    BY <2>2, <2>3
  <2>6. index'[b] = i /\ index'[a] = j /\ \A p \in Price : p # a /\ p # b => index'[p] = index[p]
    BY <2>2, <2>3, <2>4
  <2> QED BY <2>1, <2>5, <2>6
<1>4. IndexesExact'
  <2>1. ASSUME NEW k \in 0..size - 1 PROVE index'[heap'[k]] = k
    <3>1. CASE k = i \/ k = j  BY <1>1, <1>3, <3>1
    <3>2. CASE k # i /\ k # j
      <4>1. heap[k] \in Price /\ heap[k] # heap[i] /\ heap[k] # heap[j]
        BY <3>2 DEF HeapHoldsLevels
      <4> QED BY <1>1, <1>3, <3>2, <4>1 DEF IndexesExact
    <3> QED BY <3>1, <3>2
  <2>2. ASSUME NEW p \in Price \ levels PROVE index'[p] = -1
    <3>1. p # heap[i] /\ p # heap[j]
      BY DEF HeapHoldsLevels
    <3> QED BY <1>3, <3>1 DEF IndexesExact
  <2> QED BY <2>1, <2>2 DEF IndexesExact
<1>5. HeapHoldsLevels'
  <2>1. \A k, l \in 0..size - 1 : heap'[k] = heap'[l] => k = l
    BY <1>1 DEF HeapHoldsLevels
  <2>2. \A k \in 0..size - 1 : heap'[k] \in levels
    BY <1>1 DEF HeapHoldsLevels
  <2>3. \A p \in levels : \E k \in 0..size - 1 : heap'[k] = p
    <3> SUFFICES ASSUME NEW p \in levels PROVE \E k \in 0..size - 1 : heap'[k] = p
      OBVIOUS
    <3>1. PICK k \in 0..size - 1 : heap[k] = p
      BY DEF HeapHoldsLevels
    <3>2. CASE k = i \/ k = j
      <4>1. heap'[j] = p \/ heap'[i] = p
        BY <1>1, <3>1, <3>2
      <4> QED BY <4>1
    <3>3. CASE k # i /\ k # j
      <4>1. heap'[k] = p
        BY <1>1, <3>1, <3>3
      <4> QED BY <4>1
    <3> QED BY <3>2, <3>3
  <2>4. size' = size /\ levels' = levels
    OBVIOUS
  <2> HIDE DEF TypeOK
  <2>5. levels = {heap'[k] : k \in 0..size - 1}
    BY <2>2, <2>3
  <2>6. PICK hh, ss : hh = heap' /\ ss = size'
    OBVIOUS
  <2>7. levels' = {hh[k] : k \in 0..ss - 1} /\ \A k, l \in 0..ss - 1 : hh[k] = hh[l] => k = l
    BY <2>1, <2>4, <2>5, <2>6
  <2> QED BY <2>6, <2>7 DEF HeapHoldsLevels
<1> QED BY <1>1, <1>3, <1>4, <1>5

(***************************************************************************)
(* Child is a child before the last place, and its sibling is no better.   *)
(***************************************************************************)
LEMMA ChildFacts ==
    ASSUME TypeOK, NEW i \in Nat, 2*i + 1 < size - 1
    PROVE  /\ Child(i) \in 1..size - 2 /\ Child(i) > i /\ Parent(Child(i)) = i
           /\ \A k \in 1..size - 2 : Parent(k) = i => ~Less(k, Child(i))
<1> USE DEF TypeOK
<1> DEFINE a == 2*i + 1
           b == 2*i + 2
<1>1. Child(i) = a \/ (b < size - 1 /\ Child(i) = b)
  BY DEF Child
<1>2. Child(i) \in 1..size - 2 /\ Child(i) > i
  BY <1>1
<1>3. Parent(Child(i)) = i
  <2>1. Child(i) \in Nat /\ Child(i) # 0 /\ (Child(i) = 2*i + 1 \/ Child(i) = 2*i + 2)
    BY <1>1
  <2> QED BY <2>1, ParentFacts
<1>4. ASSUME NEW k \in 1..size - 2, Parent(k) = i PROVE ~Less(k, Child(i))
  <2>1. k = a \/ k = b
    BY <1>4, ParentFacts
  <2>2. heap[k] \in Price /\ heap[a] \in Price
    OBVIOUS
  <2>3. CASE b < size - 1 /\ Less(b, a)
    <3>1. Child(i) = b /\ heap[b] \in Price  BY <2>3 DEF Child
    <3> QED BY <2>1, <2>2, <2>3, <3>1, BetterFacts DEF Less
  <2>4. CASE ~(b < size - 1 /\ Less(b, a))
    <3>1. Child(i) = a  BY <2>4 DEF Child
    <3>2. k = b => ~Less(b, a)  BY <2>4
    <3> QED BY <2>1, <2>2, <3>1, <3>2, BetterFacts DEF Less
  <2> QED BY <2>3, <2>4
<1> QED BY <1>2, <1>3, <1>4

-----------------------------------------------------------------------------
(* Each action preserves the invariant                                     *)

LEMMA InitInv == Init => Inv
<1> SUFFICES ASSUME Init PROVE Inv
  OBVIOUS
<1>1. TypeOK
  <2>1. heap \in [0..size - 1 -> Price]
    <3>1. 0..size - 1 = {} /\ heap = [i \in {} |-> 0]  BY DEF Init
    <3> QED BY <3>1
  <2>2. index \in [Price -> -1..size - 1]
    BY DEF Init
  <2> QED BY <2>1, <2>2 DEF Init, TypeOK
<1>2. HeapInvariant
  BY DEF Init, HeapInvariant, IndexesExact, HeapHoldsLevels, Ordered, Active
<1> QED BY <1>1, <1>2 DEF Inv

LEMMA AddInv ==
    ASSUME Inv, NEW p \in Price, Add(p)
    PROVE  Inv'
<1> USE DEF Inv
<1>1. TypeOK'
  <2>1. heap' \in [0..size' - 1 -> Price]
    <3>1. size' - 1 = size /\ heap' = [i \in 0..size |-> IF i = size THEN p ELSE heap[i]]
      BY DEF Add, TypeOK
    <3>2. \A i \in 0..size : i # size => heap[i] \in Price
      BY DEF TypeOK
    <3> QED BY <3>1, <3>2
  <2>2. index' \in [Price -> -1..size' - 1]
    BY DEF Add, TypeOK
  <2>3. levels' \subseteq Price /\ size' \in Nat /\ at' \in Nat
    BY DEF Add, TypeOK
  <2>4. UNCHANGED <<side, from>> /\ pc' = "up" /\ subject' = p /\ removing' = FALSE
    BY DEF Add
  <2> QED BY <2>1, <2>2, <2>3, <2>4 DEF TypeOK
<1>2. /\ \A i \in 0..size - 1 : heap'[i] = heap[i]
      /\ heap'[size] = p /\ index'[p] = size /\ size' = size + 1 /\ size \in Nat
      /\ \A q \in Price : q # p => index'[q] = index[q]
      /\ \A i \in 0..size - 1 : heap[i] \in levels /\ heap[i] \in Price /\ heap[i] # p
      /\ levels' = levels \cup {p}
  BY DEF Add, TypeOK, HeapInvariant, HeapHoldsLevels
<1>3. IndexesExact'
  <2>1. ASSUME NEW i \in 0..size PROVE index'[heap'[i]] = i
    <3>1. CASE i = size  BY <1>2, <3>1
    <3>2. CASE i # size
      <4>1. i \in 0..size - 1  BY <1>2, <3>2
      <4> QED BY <1>2, <4>1 DEF HeapInvariant, IndexesExact
    <3> QED BY <3>1, <3>2
  <2>2. \A q \in Price \ levels' : index'[q] = -1
    BY <1>2 DEF HeapInvariant, IndexesExact
  <2> QED BY <1>2, <2>1, <2>2 DEF IndexesExact
<1>4. HeapHoldsLevels'
  <2>1. \A i, j \in 0..size : heap'[i] = heap'[j] => i = j
    BY <1>2 DEF HeapInvariant, HeapHoldsLevels
  <2>2. \A q \in levels' : \E i \in 0..size : heap'[i] = q
    <3> SUFFICES ASSUME NEW q \in levels' PROVE \E i \in 0..size : heap'[i] = q
      OBVIOUS
    <3>1. CASE q = p  BY <1>2, <3>1
    <3>2. CASE q # p
      <4>1. PICK i \in 0..size - 1 : heap[i] = q
        BY <1>2, <3>2 DEF HeapInvariant, HeapHoldsLevels
      <4> QED BY <1>2, <4>1
    <3> QED BY <3>1, <3>2
  <2>3. \A i \in 0..size : heap'[i] \in levels'
    BY <1>2
  <2> QED BY <1>2, <2>1, <2>2, <2>3 DEF HeapHoldsLevels
<1>5. OrderedButUp(at, Active)'
  <2>1. at' = size /\ Active' = size + 1 /\ side' = side
    BY <1>2 DEF Add, Active
  <2>2. ASSUME NEW i \in 1..size, i # size PROVE ~Less(i, Parent(i))'
    <3>1. i \in 1..size - 1 /\ Parent(i) \in 0..size - 1
      BY <1>2, <2>2, ParentFacts
    <3>2. ~Less(i, Parent(i))
      BY <3>1 DEF Add, HeapInvariant, Ordered, Active
    <3>3. Parent(i)' = Parent(i)
      BY DEF Parent
    <3> QED BY <1>2, <2>1, <3>1, <3>2, <3>3 DEF Less, Better
  <2>3. ASSUME NEW i \in 1..size, size # 0 PROVE Parent(i) # size
    BY <1>2, <2>3, ParentFacts
  <2> QED BY <1>2, <2>1, <2>2, <2>3 DEF OrderedButUp, Parent
<1> QED BY <1>1, <1>3, <1>4, <1>5 DEF Add, HeapInvariant

LEMMA RemoveInv ==
    ASSUME Inv, NEW p \in Price, Remove(p)
    PROVE  Inv'
<1> USE DEF Inv
<1>1. PICK i \in 0..size - 1 : heap[i] = p /\ index[p] = i
  BY DEF Remove, HeapInvariant, HeapHoldsLevels, IndexesExact
<1>2. size \in Nat /\ size > 0
  BY <1>1 DEF TypeOK
<1>3. CASE i = size - 1
  <2>1. UNCHANGED <<side, levels, size, heap, index, at, from>> /\ pc' = "pop"
        /\ removing' = TRUE /\ subject' = p
    BY <1>1, <1>3 DEF Remove
  <2>2. TypeOK'
    BY <2>1 DEF TypeOK
  <2>3. IndexesExact' /\ HeapHoldsLevels'
    BY <2>1 DEF HeapInvariant, IndexesExact, HeapHoldsLevels
  <2>4. Ordered(size)
    BY DEF Remove, HeapInvariant, Active
  <2>5. Ordered(Active)'
    BY <1>2, <2>1, <2>4 DEF Active, Ordered, Less, Better, Parent
  <2> QED BY <1>1, <1>2, <1>3, <2>1, <2>2, <2>3, <2>5 DEF HeapInvariant
<1>4. CASE i # size - 1
  <2>1. /\ Swap(i, size - 1)
        /\ UNCHANGED <<side, levels, size>> /\ pc' = "down" /\ at' = i /\ from' = i
        /\ removing' = TRUE /\ subject' = p /\ pc = "idle"
    BY <1>1, <1>4 DEF Remove
  <2>2. /\ heap' \in [0..size' - 1 -> Price]
        /\ index' \in [Price -> -1..size' - 1]
        /\ heap'[i] = heap[size - 1] /\ heap'[size - 1] = heap[i]
        /\ \A k \in 0..size - 1 : k # i /\ k # size - 1 => heap'[k] = heap[k]
        /\ IndexesExact' /\ HeapHoldsLevels'
    BY <1>2, <1>4, <2>1, SwapFacts DEF HeapInvariant
  <2>3. TypeOK'
    BY <1>2, <2>1, <2>2 DEF TypeOK
  <2>4. Ordered(size)
    BY <2>1 DEF HeapInvariant, Active
  <2>5. OrderedButDown(at, Active)'
    <3>1. Active' = size - 1 /\ i \in 0..size - 2
      BY <1>2, <1>4, <2>1 DEF Active
    <3>2. ASSUME NEW k \in 1..size - 2, Parent(k) # i, k # i PROVE ~Better(heap'[k], heap'[Parent(k)])
      <4>1. Parent(k) \in 0..size - 2 /\ ~Better(heap[k], heap[Parent(k)])
        BY <1>2, <2>4, ParentFacts DEF Ordered, Less
      <4>2. heap'[k] = heap[k] /\ heap'[Parent(k)] = heap[Parent(k)]
        BY <1>2, <2>2, <3>2, <4>1
      <4> QED BY <4>1, <4>2
    <3>3. ASSUME NEW k \in 1..size - 2, i # 0, Parent(k) = i PROVE ~Better(heap'[k], heap'[Parent(i)])
      <4>1. /\ Parent(i) \in 0..size - 2 /\ Parent(i) < i
            /\ ~Less(k, i) /\ ~Less(i, Parent(i)) /\ k > i
        <5>1. /\ Parent(i) \in 0..size - 2 /\ Parent(i) < i /\ k > i
          BY <1>2, <3>1, <3>3, ParentFacts
        <5>2. ~Less(k, i) /\ ~Less(i, Parent(i))
          BY <1>2, <2>4, <3>3 DEF Ordered
        <5> QED BY <5>1, <5>2
      <4>2. heap[k] \in Price /\ heap[i] \in Price /\ heap[Parent(i)] \in Price
        BY <1>2, <4>1 DEF TypeOK
      <4>3. ~Better(heap[k], heap[Parent(i)])
        BY <4>1, <4>2, BetterFacts DEF Less
      <4>4. heap'[k] = heap[k] /\ heap'[Parent(i)] = heap[Parent(i)]
        BY <1>2, <2>2, <4>1
      <4> QED BY <4>3, <4>4
    <3>4. /\ at' \in 0..Active' - 1
          /\ \A k \in 1..Active' - 1 : Parent(k) # at' /\ (k = at' => k # from')
                                       => ~Better(heap'[k], heap'[Parent(k)])
          /\ \A k \in 1..Active' - 1 : at' # 0 /\ Parent(k) = at'
                                       => ~Better(heap'[k], heap'[Parent(at')])
      BY <1>2, <2>1, <3>1, <3>2, <3>3
    <3> QED BY <2>1, <3>4 DEF OrderedButDown, Less, Better, Parent
  <2> QED BY <1>1, <1>2, <2>1, <2>2, <2>3, <2>5 DEF HeapInvariant, TypeOK
<1> QED BY <1>3, <1>4

LEMMA UpInv ==
    ASSUME Inv, Up
    PROVE  Inv'
<1> USE DEF Inv
<1> DEFINE j == at
           i == Parent(at)
           m == Active
<1>1. /\ j \in 0..m - 1 /\ m \in Nat /\ m <= size /\ size \in Nat
      /\ \A k \in 1..m - 1 : k # j => ~Less(k, Parent(k))
      /\ \A k \in 1..m - 1 : j # 0 /\ Parent(k) = j => ~Less(k, i)
      /\ removing => m = size - 1
      /\ ~removing => m = size
  BY DEF Up, HeapInvariant, OrderedButUp, TypeOK, Active
<1>2. CASE j = i \/ ~Less(j, i)
  <2>1. /\ UNCHANGED <<side, levels, size, heap, index, at, from, subject, removing>>
        /\ pc' = IF removing THEN "pop" ELSE "idle"
    BY <1>2 DEF Up
  <2>2. TypeOK'
    BY <2>1 DEF TypeOK
  <2>3. IndexesExact' /\ HeapHoldsLevels'
    BY <2>1 DEF HeapInvariant, IndexesExact, HeapHoldsLevels
  <2>4. \A k \in 1..m - 1 : ~Less(k, Parent(k))
    <3>1. j # 0 => i # j
      BY <1>1, ParentFacts
    <3> QED BY <1>1, <1>2, <3>1
  <2>5. Active' = m
    BY <1>1, <2>1 DEF Active
  <2>6. Ordered(Active)'
    BY <2>1, <2>4, <2>5 DEF Ordered, Less, Better, Parent
  <2> QED BY <2>1, <2>2, <2>3, <2>6 DEF HeapInvariant, Up
<1>3. CASE ~(j = i \/ ~Less(j, i))
  <2>1. /\ Swap(i, j)
        /\ UNCHANGED <<side, levels, size, pc, from, subject, removing>> /\ at' = i
    BY <1>3 DEF Up
  <2>2. i \in 0..m - 1 /\ i < j /\ j # 0 /\ i \in Nat /\ j \in Nat
    BY <1>1, <1>3, ParentFacts
  <2>3. /\ heap' \in [0..size' - 1 -> Price]
        /\ index' \in [Price -> -1..size' - 1]
        /\ heap'[i] = heap[j] /\ heap'[j] = heap[i]
        /\ \A k \in 0..size - 1 : k # i /\ k # j => heap'[k] = heap[k]
        /\ IndexesExact' /\ HeapHoldsLevels'
    BY <1>1, <2>1, <2>2, SwapFacts DEF HeapInvariant
  <2>4. TypeOK'
    BY <2>1, <2>2, <2>3 DEF TypeOK
  <2>5. Active' = m
    BY <1>1, <2>1 DEF Active
  <2>6. \A k \in 0..m - 1 : heap[k] \in Price
    BY <1>1 DEF TypeOK
  <2>7. ASSUME NEW k \in 1..m - 1, k # i PROVE ~Better(heap'[k], heap'[Parent(k)])
    <3>1. k \in Nat /\ Parent(k) \in 0..m - 1 /\ Parent(k) < k
      BY <1>1, ParentFacts
    <3>2. CASE k = j
      BY <1>3, <2>2, <2>3, <2>6, <3>2, BetterFacts DEF Less
    <3>3. CASE k # j /\ Parent(k) = j
      BY <1>1, <2>2, <2>3, <2>6, <2>7, <3>1, <3>3 DEF Less
    <3>4. CASE k # j /\ Parent(k) = i
      <4>1. ~Better(heap[k], heap[i]) /\ Better(heap[j], heap[i])
        BY <1>1, <1>3, <3>1, <3>4 DEF Less
      <4>2. ~Better(heap[k], heap[j])
        BY <2>2, <2>6, <4>1, <1>1, BetterFacts
      <4> QED BY <1>1, <2>2, <2>3, <2>7, <3>4, <4>2
    <3>5. CASE k # j /\ Parent(k) # j /\ Parent(k) # i
      <4>1. ~Better(heap[k], heap[Parent(k)])
        BY <1>1, <3>5 DEF Less
      <4>2. heap'[k] = heap[k] /\ heap'[Parent(k)] = heap[Parent(k)]
        BY <1>1, <2>3, <2>7, <3>1, <3>5
      <4> QED BY <4>1, <4>2
    <3> QED BY <3>2, <3>3, <3>4, <3>5
  <2>8. ASSUME NEW k \in 1..m - 1, i # 0, Parent(k) = i PROVE ~Better(heap'[k], heap'[Parent(i)])
    <3>1. Parent(i) \in 0..m - 1 /\ Parent(i) < i /\ k > i /\ k \in Nat
      BY <1>1, <2>2, <2>8, ParentFacts
    <3>2. heap'[Parent(i)] = heap[Parent(i)]
      BY <1>1, <2>2, <2>3, <3>1
    <3>3. ~Better(heap[i], heap[Parent(i)])
      BY <1>1, <2>2, <2>8 DEF Less
    <3>4. CASE k = j
      BY <2>3, <3>2, <3>3, <3>4
    <3>5. CASE k # j
      <4>1. ~Better(heap[k], heap[i]) /\ heap'[k] = heap[k]
        BY <1>1, <2>3, <2>8, <3>1, <3>5 DEF Less
      <4>2. ~Better(heap[k], heap[Parent(i)])
        BY <2>2, <2>6, <3>1, <3>3, <4>1, BetterFacts
      <4> QED BY <3>2, <4>1, <4>2
    <3> QED BY <3>4, <3>5
  <2>9. OrderedButUp(at, Active)'
    BY <2>1, <2>2, <2>5, <2>7, <2>8 DEF OrderedButUp, Less, Better, Parent
  <2>10. removing => size > 0 /\ heap'[size - 1] = subject
    <3> SUFFICES ASSUME removing PROVE size > 0 /\ heap'[size - 1] = subject
      OBVIOUS
    <3>1. m = size - 1 /\ size > 0 /\ heap[size - 1] = subject
      BY <1>1 DEF Up, HeapInvariant
    <3> QED BY <1>1, <2>2, <2>3, <3>1
  <2> QED BY <2>1, <2>3, <2>4, <2>9, <2>10 DEF HeapInvariant, Up
<1> QED BY <1>2, <1>3

LEMMA DownInv ==
    ASSUME Inv, Down
    PROVE  Inv'
<1> USE DEF Inv
<1> DEFINE j == at
           c == Child(at)
           m == size - 1
<1>1. /\ j \in 0..m - 1 /\ m \in Nat /\ size \in Nat /\ Active = m /\ from \in Nat /\ from <= j
      /\ \A k \in 1..m - 1 : Parent(k) # j /\ (k = j => j # from) => ~Less(k, Parent(k))
      /\ \A k \in 1..m - 1 : j # 0 /\ Parent(k) = j => ~Less(k, Parent(j))
      /\ removing /\ size > 0 /\ heap[m] = subject /\ pc = "down"
  BY DEF Down, HeapInvariant, OrderedButDown, TypeOK, Active
<1>2. \A k \in 0..m - 1 : heap[k] \in Price
  BY <1>1 DEF TypeOK
<1>3. CASE 2*j + 1 >= m \/ ~Less(c, j)
  <2>1. /\ UNCHANGED <<side, levels, size, heap, index, at, from, subject, removing>>
        /\ pc' = IF j > from THEN "pop" ELSE "up"
    BY <1>3 DEF Down
  <2>2. TypeOK'
    BY <2>1 DEF TypeOK
  <2>3. IndexesExact' /\ HeapHoldsLevels'
    BY <2>1 DEF HeapInvariant, IndexesExact, HeapHoldsLevels
  <2>4. ASSUME NEW k \in 1..m - 1, Parent(k) = j PROVE ~Less(k, j)
    <3>1. k = 2*j + 1 \/ k = 2*j + 2
      BY <1>1, <2>4, ParentFacts
    <3>2. 2*j + 1 < m /\ ~Less(c, j)
      BY <1>1, <1>3, <3>1
    <3>3. c \in 1..m - 1 /\ ~Less(k, c)
      BY <1>1, <2>4, <3>2, ChildFacts
    <3> QED BY <1>1, <1>2, <3>2, <3>3, BetterFacts DEF Less
  <2>5. Active' = m /\ Active = m
    BY <1>1, <2>1 DEF Active
  <2>6. CASE j > from
    <3>1. \A k \in 1..m - 1 : ~Less(k, Parent(k))
      BY <1>1, <2>4, <2>6
    <3>2. Ordered(Active)'
      BY <2>1, <2>5, <3>1 DEF Ordered, Less, Better, Parent
    <3> QED BY <1>1, <2>1, <2>2, <2>3, <2>6, <3>2 DEF HeapInvariant
  <2>7. CASE ~(j > from)
    <3>1. \A k \in 1..m - 1 : k # j => ~Less(k, Parent(k))
      BY <1>1, <2>4
    <3>2. OrderedButUp(at, Active)'
      BY <1>1, <2>1, <2>5, <3>1 DEF OrderedButUp, Less, Better, Parent
    <3> QED BY <1>1, <2>1, <2>2, <2>3, <2>7, <3>2 DEF HeapInvariant
  <2> QED BY <2>6, <2>7
<1>4. CASE ~(2*j + 1 >= m \/ ~Less(c, j))
  <2>1. /\ Swap(j, c) /\ at' = c
        /\ UNCHANGED <<side, levels, size, pc, from, subject, removing>>
    BY <1>4 DEF Down
  <2>2. /\ c \in 1..m - 1 /\ j < c /\ Parent(c) = j /\ c \in Nat /\ j \in Nat
        /\ \A k \in 1..m - 1 : Parent(k) = j => ~Less(k, c)
    BY <1>1, <1>4, ChildFacts
  <2>3. /\ heap' \in [0..size' - 1 -> Price]
        /\ index' \in [Price -> -1..size' - 1]
        /\ heap'[j] = heap[c] /\ heap'[c] = heap[j]
        /\ \A k \in 0..size - 1 : k # j /\ k # c => heap'[k] = heap[k]
        /\ IndexesExact' /\ HeapHoldsLevels'
    BY <1>1, <2>1, <2>2, SwapFacts DEF HeapInvariant
  <2>4. TypeOK'
    BY <2>1, <2>2, <2>3 DEF TypeOK
  <2>5. Active' = m
    BY <1>1, <2>1 DEF Active
  <2>6. ASSUME NEW k \in 1..m - 1, Parent(k) # c, k = c => c # from
        PROVE  ~Better(heap'[k], heap'[Parent(k)])
    <3>1. k \in Nat /\ Parent(k) \in 0..m - 1 /\ Parent(k) < k
      BY <1>1, ParentFacts
    <3>2. CASE k = c
      BY <1>1, <1>2, <1>4, <2>2, <2>3, <3>2, BetterFacts DEF Less
    <3>3. CASE k # c /\ Parent(k) = j
      <4>1. ~Better(heap[k], heap[c]) /\ heap'[k] = heap[k]
        BY <1>1, <2>2, <2>3, <3>1, <3>3 DEF Less
      <4> QED BY <2>3, <3>3, <4>1
    <3>4. CASE k = j /\ Parent(k) # j
      <4>1. ~Better(heap[c], heap[Parent(j)])
        BY <1>1, <2>2, <2>6, <3>4 DEF Less
      <4>2. heap'[Parent(j)] = heap[Parent(j)]
        BY <1>1, <2>2, <2>3, <3>1, <3>4
      <4> QED BY <2>3, <3>4, <4>1, <4>2
    <3>5. CASE k # c /\ k # j /\ Parent(k) # j
      <4>1. ~Better(heap[k], heap[Parent(k)])
        BY <1>1, <3>5 DEF Less
      <4>2. heap'[k] = heap[k] /\ heap'[Parent(k)] = heap[Parent(k)]
        BY <1>1, <2>3, <2>6, <3>1, <3>5
      <4> QED BY <4>1, <4>2
    <3> QED BY <3>2, <3>3, <3>4, <3>5
  <2>7. ASSUME NEW k \in 1..m - 1, Parent(k) = c PROVE ~Better(heap'[k], heap'[Parent(c)])
    <3>1. k \in Nat /\ k > c
      BY <2>2, <2>7, ParentFacts
    <3>2. ~Better(heap[k], heap[c]) /\ heap'[k] = heap[k]
      BY <1>1, <2>2, <2>3, <2>7, <3>1 DEF Less
    <3> QED BY <2>2, <2>3, <3>2
  <2>8. OrderedButDown(at, Active)'
    BY <2>1, <2>2, <2>5, <2>6, <2>7 DEF OrderedButDown, Less, Better, Parent
  <2>9. from' <= at' /\ heap'[m] = subject
    BY <1>1, <2>1, <2>2, <2>3
  <2> QED BY <1>1, <2>1, <2>3, <2>4, <2>8, <2>9 DEF HeapInvariant
<1> QED BY <1>3, <1>4

LEMMA PopInv ==
    ASSUME Inv, Pop
    PROVE  Inv'
<1> USE DEF Inv
<1> DEFINE m == size - 1
<1>1. /\ m \in Nat /\ size \in Nat /\ heap[m] = subject /\ subject \in Price /\ removing
      /\ \A k \in 1..m - 1 : ~Less(k, Parent(k))
      /\ \A k \in 0..m - 1 : heap[k] \in Price /\ heap[k] # subject /\ index[heap[k]] = k
  BY DEF Pop, HeapInvariant, IndexesExact, HeapHoldsLevels, Ordered, Active, TypeOK
<1>2. /\ pc' = "idle" /\ size' = m /\ levels' = levels \ {subject}
      /\ index' \in [Price -> Int]
      /\ index'[subject] = -1 /\ \A p \in Price : p # subject => index'[p] = index[p]
      /\ heap' = [k \in 0..m - 1 |-> heap[k]]
      /\ UNCHANGED <<side, at, from, subject, removing>>
  BY <1>1 DEF Pop, TypeOK
<1>3. IndexesExact'
  <2>1. \A k \in 0..m - 1 : index'[heap'[k]] = k
    BY <1>1, <1>2
  <2>2. \A p \in Price \ levels' : index'[p] = -1
    BY <1>1, <1>2 DEF HeapInvariant, IndexesExact
  <2> QED BY <1>2, <2>1, <2>2 DEF IndexesExact
<1>4. HeapHoldsLevels'
  <2>1. \A k, l \in 0..m - 1 : heap'[k] = heap'[l] => k = l
    BY <1>1, <1>2
  <2>2. \A k \in 0..m - 1 : heap'[k] \in levels'
    BY <1>1, <1>2 DEF HeapInvariant, HeapHoldsLevels
  <2>3. ASSUME NEW p \in levels' PROVE \E k \in 0..m - 1 : heap'[k] = p
    <3>1. PICK k \in 0..m : heap[k] = p /\ p # subject
      BY <1>1, <1>2 DEF HeapInvariant, HeapHoldsLevels
    <3>2. k \in 0..m - 1
      BY <1>1, <3>1
    <3> QED BY <1>2, <3>1, <3>2
  <2> QED BY <1>2, <2>1, <2>2, <2>3 DEF HeapHoldsLevels
<1>5. TypeOK'
  <2>1. heap' \in [0..size' - 1 -> Price]
    BY <1>1, <1>2
  <2>2. ASSUME NEW p \in Price PROVE index'[p] \in -1..size' - 1
    <3>1. CASE p \in levels'
      <4>1. PICK k \in 0..m - 1 : heap'[k] = p
        BY <1>2, <1>4, <3>1 DEF HeapHoldsLevels
      <4> QED BY <1>1, <1>2, <4>1
    <3>2. CASE p \notin levels'
      BY <1>1, <1>2, <1>3, <3>2 DEF IndexesExact
    <3> QED BY <3>1, <3>2
  <2>3. index' \in [Price -> -1..size' - 1]
    BY <1>2, <2>2
  <2> QED BY <1>1, <1>2, <2>1, <2>3 DEF TypeOK
<1>6. Ordered(Active)'
  <2>1. Active' = m
    BY <1>2 DEF Active
  <2>2. ASSUME NEW k \in 1..m - 1 PROVE ~Better(heap'[k], heap'[Parent(k)])
    <3>1. Parent(k) \in 0..m - 1
      BY <1>1, ParentFacts
    <3> QED BY <1>1, <1>2, <3>1 DEF Less
  <2> QED BY <1>2, <2>1, <2>2 DEF Ordered, Less, Better, Parent
<1> QED BY <1>2, <1>3, <1>4, <1>5, <1>6 DEF HeapInvariant

-----------------------------------------------------------------------------
(* What holds of every behaviour                                           *)

THEOREM NextInv == Inv /\ [Next]_vars => Inv'
<1> SUFFICES ASSUME Inv, [Next]_vars PROVE Inv'
  OBVIOUS
<1>1. CASE \E p \in Price : Add(p) \/ Remove(p)
  BY <1>1, AddInv, RemoveInv
<1>2. CASE Up  BY <1>2, UpInv
<1>3. CASE Down  BY <1>3, DownInv
<1>4. CASE Pop  BY <1>4, PopInv
<1>5. CASE UNCHANGED vars
  BY <1>5 DEF vars, Inv, TypeOK, HeapInvariant, IndexesExact, HeapHoldsLevels, Ordered,
     OrderedButUp, OrderedButDown, Active, Less, Better, Parent
<1> QED BY <1>1, <1>2, <1>3, <1>4, <1>5 DEF Next

(***************************************************************************)
(* The types hold, and no Index is out of bounds, for any prices.          *)
(***************************************************************************)
THEOREM TypeCorrect == Spec => []TypeOK
<1>1. Inv => TypeOK  BY DEF Inv
<1> QED BY InitInv, NextInv, <1>1, PTL DEF Spec

(***************************************************************************)
(* In the middle of any operation the slice is a heap but for the level    *)
(* being moved.                                                            *)
(***************************************************************************)
THEOREM HeapKept == Spec => []HeapInvariant
<1>1. Inv => HeapInvariant  BY DEF Inv
<1> QED BY InitInv, NextInv, <1>1, PTL DEF Spec

(***************************************************************************)
(* Every level in the slice knows its place after every swap: removal by   *)
(* Index never removes another level.                                      *)
(***************************************************************************)
THEOREM IndexesAreExact == Spec => []IndexesExact
<1>1. Inv => IndexesExact  BY DEF Inv, HeapInvariant
<1> QED BY InitInv, NextInv, <1>1, PTL DEF Spec

(***************************************************************************)
(* The slice and the map of a side hold the same levels.                   *)
(***************************************************************************)
THEOREM SliceHoldsLevels == Spec => []HeapHoldsLevels
<1>1. Inv => HeapHoldsLevels  BY DEF Inv, HeapInvariant
<1> QED BY InitInv, NextInv, <1>1, PTL DEF Spec

(***************************************************************************)
(* In an ordered slice no place beats the first: were there one, the least *)
(* such would beat its parent.                                             *)
(***************************************************************************)
LEMMA FirstIsBest ==
    ASSUME TypeOK, Ordered(size), NEW i \in 0..size - 1
    PROVE  ~Less(i, 0)
<1> DEFINE T == {k \in 0..size - 1 : Less(k, 0)}
<1> SUFFICES ASSUME Less(i, 0) PROVE FALSE
  OBVIOUS
<1>1. T \in SUBSET Nat /\ T # {}
  BY DEF TypeOK
<1>2. PICK k \in T : \A l \in T : k <= l
  <2> HIDE DEF T
  <2> QED BY <1>1, LeastNatural
<1>3. k \in 0..size - 1 /\ Less(k, 0) /\ size \in Nat
  BY <1>2 DEF TypeOK
<1>4. \A l \in 0..size - 1 : heap[l] \in Price
  BY DEF TypeOK
<1>5. k # 0
  BY <1>3, <1>4, BetterFacts DEF Less
<1>6. Parent(k) \in 0..size - 1 /\ Parent(k) < k
  BY <1>3, <1>5, ParentFacts
<1>7. ~Less(Parent(k), 0)
  BY <1>2, <1>3, <1>6
<1>8. ~Less(k, Parent(k))
  BY <1>3, <1>5 DEF Ordered
<1>9. ~Less(k, 0)
  BY <1>3, <1>4, <1>6, <1>7, <1>8, BetterFacts DEF Less
<1> QED BY <1>3, <1>9

(***************************************************************************)
(* Between operations Peek is the best price of the side, however many     *)
(* levels there are and in whatever order they came and went.              *)
(***************************************************************************)
THEOREM PeekFindsBest == Spec => []PeekIsBest
<1>1. ASSUME Inv PROVE PeekIsBest
  <2> SUFFICES ASSUME pc = "idle", size > 0, NEW p \in levels
               PROVE  IF side = "bid" THEN heap[0] >= p ELSE heap[0] <= p
    BY DEF PeekIsBest
  <2>1. Ordered(size)
    BY <1>1 DEF Inv, HeapInvariant, Active
  <2>2. PICK i \in 0..size - 1 : heap[i] = p
    BY <1>1 DEF Inv, HeapInvariant, HeapHoldsLevels
  <2>3. ~Less(i, 0)
    BY <1>1, <2>1, FirstIsBest DEF Inv
  <2>4. heap[0] \in Price /\ p \in Price
    <3>1. 0 \in 0..size - 1 /\ heap \in [0..size - 1 -> Price]
      BY <1>1 DEF Inv, TypeOK
    <3> QED BY <1>1, <3>1 DEF Inv, TypeOK
  <2>5. ~Better(p, heap[0])
    BY <2>2, <2>3 DEF Less
  <2>6. heap[0] \in Int /\ p \in Int
    BY <2>4, PriceAssumption
  <2>7. CASE side = "bid"  BY <2>5, <2>6, <2>7 DEF Better
  <2>8. CASE side # "bid"  BY <2>5, <2>6, <2>8 DEF Better
  <2> QED BY <2>7, <2>8
<1> QED BY InitInv, NextInv, <1>1, PTL DEF Spec
=============================================================================
