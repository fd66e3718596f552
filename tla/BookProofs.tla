----------------------------- MODULE BookProofs -----------------------------
(***************************************************************************)
(* Proofs about ApplyCommand and the book of OrderBook, for any prices,    *)
(* quantities, nonces and number of commands: the map, the heap and the    *)
(* queues never disagree, no generated event is rejected, and the Index    *)
(* names exactly the resting orders while nonces are unique.               *)
(*                                                                         *)
(* Every change of a book is one of three: an element is unlinked, linked  *)
(* at the end of a queue, or gets another quantity.  The first sections    *)
(* say what each of them keeps and prove that the operations of the code   *)
(* do nothing else; the invariant is about the steps of ApplyCommand.      *)
(*                                                                         *)
(* The lemmas come first that are not about books: sums of integers, and   *)
(* what the folds of the community modules come to that add them up.  A    *)
(* sum is the last of the running sums, which exist and are unique; so a   *)
(* fold over a set of indices, whichever element it takes off at a time,   *)
(* comes to the sum over that set.                                         *)
(***************************************************************************)
EXTENDS ApplyCommand, FiniteSetsExt, Functions, FiniteSetTheorems, SequenceTheorems,
        WellFoundedInduction, TLAPS

-----------------------------------------------------------------------------
(* Sets of naturals                                                        *)

\* A set of naturals has a least element.
LEMMA LeastNatural ==
    ASSUME NEW T \in SUBSET Nat, T # {}
    PROVE  \E x \in T : \A y \in T : x <= y
<1> DEFINE R == {ss \in Nat \X Nat : ss[1] < ss[2]}
<1>1. IsWellFoundedOn(R, Nat)
    BY NatLessThanWellFounded, Zenon DEF OpToRel
<1>2. PICK x \in T : \A y \in T : <<y, x>> \notin R
  <2> HIDE DEF R
  <2> QED BY <1>1, WFMin
<1>3. \A y \in T : ~(y < x)
    BY <1>2
<1> QED BY <1>3

\* Both heaps have a best price if they have any.
LEMMA MinIn ==
    ASSUME NEW T \in SUBSET Nat, T # {}
    PROVE  Min(T) \in T /\ \A y \in T : Min(T) <= y
BY LeastNatural DEF Min

LEMMA MaxIn ==
    ASSUME NEW M \in Nat, NEW T \in SUBSET (1..M), T # {}
    PROVE  Max(T) \in T /\ \A y \in T : Max(T) >= y
<1> DEFINE U == {n \in Nat : M - n \in T}
<1>1. U \in SUBSET Nat /\ U # {}
  <2>1. PICK x \in T : TRUE
      OBVIOUS
  <2>2. M - x \in Nat /\ M - (M - x) = x
      BY <2>1
  <2> QED BY <2>1, <2>2
<1>2. PICK u \in U : \A v \in U : u <= v
  <2> HIDE DEF U
  <2> QED BY <1>1, LeastNatural
<1>3. M - u \in T /\ u \in Nat
    BY <1>2
<1>4. ASSUME NEW y \in T PROVE M - u >= y
  <2>1. M - y \in U
    <3>1. M - y \in Nat /\ M - (M - y) = y
        OBVIOUS
    <3> QED BY <3>1
  <2>2. u <= M - y
      BY <1>2, <2>1
  <2> QED BY <1>3, <2>2
<1> QED BY <1>3, <1>4 DEF Max

\* What holds of 0, and of i + 1 when it holds of i, holds up to n.
LEMMA UpTo ==
    ASSUME NEW n \in Nat, NEW T, 0 \in T, \A i \in 0..(n - 1) : i \in T => i + 1 \in T
    PROVE  \A i \in 0..n : i \in T
<1> SUFFICES ASSUME NEW k \in 0..n, k \notin T PROVE FALSE
    OBVIOUS
<1>1. PICK F : F = {i \in 0..n : i \notin T}
    OBVIOUS
<1>2. F \in SUBSET Nat /\ F # {}
    BY <1>1
<1>3. PICK x \in F : \A y \in F : x <= y
    BY <1>2, LeastNatural
<1>4. x \in 0..n /\ x \notin T
    BY <1>1, <1>3
<1>5. x # 0
    BY <1>4
<1>6. x - 1 \in 0..(n - 1) /\ x - 1 \in 0..n /\ (x - 1) + 1 = x /\ ~(x <= x - 1)
    BY <1>4, <1>5
<1>7. x - 1 \in T
    BY <1>1, <1>3, <1>6
<1>8. x \in T
    BY <1>6, <1>7
<1> QED BY <1>4, <1>8

-----------------------------------------------------------------------------
(* Sums                                                                    *)

\* P holds the running sums of g.
Runs(P, g, n) == P[0] = 0 /\ \A i \in 1..n : P[i] = P[i - 1] + g[i]

\* Running sums exist.
LEMMA RunningSums ==
    ASSUME NEW n \in Nat, NEW g, \A i \in 1..n : g[i] \in Int
    PROVE  \E P : P \in [0..n -> Int] /\ Runs(P, g, n)
<1> DEFINE Good(m) == \E P \in [0..m -> Int] : Runs(P, g, m)
<1>1. PICK T : T = {m \in 0..n : Good(m)}
    OBVIOUS
<1>2. 0 \in T
  <2>1. PICK P : P = [i \in 0..0 |-> 0]
      OBVIOUS
  <2>2. P \in [0..0 -> Int] /\ P[0] = 0
      BY <2>1
  <2>3. Runs(P, g, 0)
      BY <2>2 DEF Runs
  <2> QED BY <1>1, <2>2, <2>3
<1>3. ASSUME NEW m \in 0..(n - 1), m \in T PROVE m + 1 \in T
  <2>1. PICK P \in [0..m -> Int] : Runs(P, g, m)
      BY <1>1, <1>3
  <2>2. m \in Nat /\ m + 1 \in 1..n /\ g[m + 1] \in Int /\ P[m] \in Int
      BY <2>1
  <2>3. PICK k, v : k = m + 1 /\ v = P[m] + g[m + 1]
      OBVIOUS
  <2>4. PICK Q : Q = [i \in 0..k |-> IF i = k THEN v ELSE P[i]]
      OBVIOUS
  <2>5. v \in Int /\ k \in Nat /\ \A i \in 0..k : i # k => i \in 0..m
      BY <2>2, <2>3
  <2>6. Q \in [0..k -> Int]
      BY <2>1, <2>4, <2>5
  <2>7. Q[k] = v /\ \A i \in 0..m : Q[i] = P[i]
      BY <2>2, <2>3, <2>4
  <2>8. Q[0] = 0
      BY <2>1, <2>2, <2>7 DEF Runs
  <2>9. ASSUME NEW i \in 1..k PROVE Q[i] = Q[i - 1] + g[i]
    <3>1. CASE i = k
      <4>1. i - 1 = m
          BY <2>2, <2>3, <3>1
      <4> QED BY <2>2, <2>3, <2>7, <3>1, <4>1
    <3>2. CASE i # k
      <4>1. i \in 1..m /\ i \in 0..m /\ i - 1 \in 0..m
          BY <2>2, <2>3, <3>2
      <4> QED BY <2>1, <2>7, <4>1 DEF Runs
    <3> QED BY <3>1, <3>2
  <2>10. Good(k)
      BY <2>6, <2>8, <2>9 DEF Runs
  <2> QED BY <1>1, <2>2, <2>3, <2>10
<1>4. n \in T
  <2> HIDE DEF Good
  <2>1. n \in 0..n
      OBVIOUS
  <2> QED BY <1>2, <1>3, <2>1, UpTo
<1> QED BY <1>1, <1>4

\* The sum of the first n values of g.
Sum(g, n) == (CHOOSE P : P \in [0..n -> Int] /\ Runs(P, g, n))[n]

\* Any two agree.
LEMMA RunningSumsAgree ==
    ASSUME NEW n \in Nat, NEW g, NEW P, Runs(P, g, n), NEW m \in Nat, NEW h, NEW Q, Runs(Q, h, m),
           NEW k \in Nat, k <= n, k <= m, \A i \in 1..k : g[i] = h[i]
    PROVE  P[k] = Q[k]
<1>1. PICK T : T = {i \in 0..k : P[i] = Q[i]}
    OBVIOUS
<1>2. 0 \in T
    BY <1>1 DEF Runs
<1>3. ASSUME NEW i \in 0..(k - 1), i \in T PROVE i + 1 \in T
  <2>1. PICK j : j = i + 1
      OBVIOUS
  <2>2. j \in 0..k /\ j \in 1..k /\ j \in 1..n /\ j \in 1..m /\ j - 1 = i
      BY <2>1
  <2>3. P[j] = P[j - 1] + g[j] /\ Q[j] = Q[j - 1] + h[j]
      BY <2>2 DEF Runs
  <2>4. P[i] = Q[i] /\ g[j] = h[j]
      BY <1>1, <1>3, <2>2
  <2>5. P[j] = Q[j]
      BY <2>2, <2>3, <2>4
  <2> QED BY <1>1, <2>1, <2>2, <2>5
<1>4. k \in 0..k
    OBVIOUS
<1>5. k \in T
    BY <1>2, <1>3, <1>4, UpTo
<1> QED BY <1>1, <1>5

\* The equations of a sum.
LEMMA SumFacts ==
    ASSUME NEW n \in Nat, NEW g, \A i \in 1..n : g[i] \in Int
    PROVE  /\ Sum(g, 0) = 0
           /\ \A i \in 0..n : Sum(g, i) \in Int
           /\ \A i \in 1..n : Sum(g, i) = Sum(g, i - 1) + g[i]
<1>1. PICK P : P \in [0..n -> Int] /\ Runs(P, g, n)
    BY RunningSums
<1>2. ASSUME NEW k \in 0..n PROVE Sum(g, k) = P[k]
  <2>1. k \in Nat /\ k <= n /\ k <= k /\ \A i \in 1..k : g[i] \in Int /\ g[i] = g[i]
      OBVIOUS
  <2>2. \E Q : Q \in [0..k -> Int] /\ Runs(Q, g, k)
      BY <2>1, RunningSums
  <2>3. PICK Q : /\ Q = (CHOOSE R : R \in [0..k -> Int] /\ Runs(R, g, k))
                 /\ Q \in [0..k -> Int] /\ Runs(Q, g, k)
      BY <2>2
  <2>4. P[k] = Q[k]
      BY <1>1, <2>1, <2>3, RunningSumsAgree
  <2> QED BY <2>3, <2>4 DEF Sum
<1>3. 0 \in 0..n /\ P[0] = 0
    BY <1>1 DEF Runs
<1>4. \A i \in 0..n : P[i] \in Int
    BY <1>1
<1>5. \A i \in 1..n : i \in 0..n /\ i - 1 \in 0..n
    OBVIOUS
<1>6. \A i \in 1..n : P[i] = P[i - 1] + g[i]
    BY <1>1 DEF Runs
<1> QED BY <1>2, <1>3, <1>4, <1>5, <1>6

\* Functions that add up to the sums of n integers.
Summable(g, n) == n \in Nat /\ \A i \in 1..n : g[i] \in Int

LEMMA SumStep ==
    ASSUME NEW n, NEW g, Summable(g, n)
    PROVE  /\ Sum(g, 0) = 0 /\ Sum(g, n) \in Int
           /\ \A i \in 0..n : Sum(g, i) \in Int
           /\ \A i \in 1..n : Sum(g, i) = Sum(g, i - 1) + g[i]
<1>1. n \in Nat /\ n \in 0..n /\ \A i \in 1..n : g[i] \in Int
    BY DEF Summable
<1> QED BY <1>1, SumFacts

\* Equal values have equal sums.
LEMMA SumSame ==
    ASSUME NEW n, NEW g, NEW h, Summable(g, n), Summable(h, n), \A i \in 1..n : h[i] = g[i]
    PROVE  Sum(h, n) = Sum(g, n)
<1>0. n \in Nat
    BY DEF Summable
<1>1. PICK T : T = {i \in 0..n : Sum(h, i) = Sum(g, i)}
    OBVIOUS
<1>2. 0 \in T
    BY <1>0, <1>1, SumStep
<1>3. ASSUME NEW i \in 0..(n - 1), i \in T PROVE i + 1 \in T
  <2>1. PICK j : j = i + 1
      OBVIOUS
  <2>2. j \in 0..n /\ j \in 1..n /\ j - 1 = i
      BY <1>0, <2>1
  <2>3. Sum(g, j) = Sum(g, i) + g[j] /\ Sum(h, j) = Sum(h, i) + h[j]
      BY <2>2, SumStep
  <2>4. Sum(h, i) = Sum(g, i)
      BY <1>1, <1>3
  <2> QED BY <1>1, <2>1, <2>2, <2>3, <2>4
<1>4. n \in T
  <2>1. n \in 0..n
      BY <1>0
  <2> QED BY <1>0, <1>2, <1>3, <2>1, UpTo
<1> QED BY <1>1, <1>4

\* A change of one value changes the sum by as much.
LEMMA SumMoves ==
    ASSUME NEW n, NEW g, NEW h, Summable(g, n), Summable(h, n), NEW k \in 1..n, NEW d \in Int,
           h[k] = g[k] + d, \A i \in 1..n : i # k => h[i] = g[i]
    PROVE  Sum(h, n) = Sum(g, n) + d
<1>0. n \in Nat
    BY DEF Summable
<1>1. PICK T : T = {i \in 0..n : Sum(h, i) = IF i < k THEN Sum(g, i) ELSE Sum(g, i) + d}
    OBVIOUS
<1>2. 0 \in T
    BY <1>0, <1>1, SumStep
<1>3. ASSUME NEW i \in 0..(n - 1), i \in T PROVE i + 1 \in T
  <2>1. PICK j : j = i + 1
      OBVIOUS
  <2>2. j \in 0..n /\ j \in 1..n /\ j - 1 = i
      BY <1>0, <2>1
  <2>3. Sum(g, j) = Sum(g, i) + g[j] /\ Sum(h, j) = Sum(h, i) + h[j]
      BY <2>2, SumStep
  <2>4. Sum(h, i) = IF i < k THEN Sum(g, i) ELSE Sum(g, i) + d
      BY <1>1, <1>3
  <2>5. i \in Nat /\ j \in Nat /\ k \in Nat /\ Sum(g, i) \in Int /\ g[j] \in Int /\ i \in 0..n
    <3>1. i \in 0..n
        BY <1>0
    <3> QED BY <1>0, <2>2, <3>1, SumStep DEF Summable
  <2>6. CASE j < k
    <3>1. i < k /\ h[j] = g[j]
        BY <2>2, <2>5, <2>6
    <3> QED BY <1>1, <2>1, <2>2, <2>3, <2>4, <2>6, <3>1
  <2>7. CASE j = k
    <3>1. i < k /\ ~(j < k) /\ h[j] = g[j] + d
        BY <2>2, <2>5, <2>7
    <3>2. Sum(h, j) = Sum(g, j) + d
        BY <2>3, <2>4, <2>5, <3>1
    <3> QED BY <1>1, <2>1, <2>2, <3>1, <3>2
  <2>8. CASE j > k
    <3>1. ~(i < k) /\ ~(j < k) /\ h[j] = g[j]
        BY <2>2, <2>5, <2>8
    <3>2. Sum(h, j) = Sum(g, j) + d
        BY <2>3, <2>4, <2>5, <3>1
    <3> QED BY <1>1, <2>1, <2>2, <3>1, <3>2
  <2> QED BY <2>5, <2>6, <2>7, <2>8
<1>4. n \in T
  <2>1. n \in 0..n
      BY <1>0
  <2> QED BY <1>0, <1>2, <1>3, <2>1, UpTo
<1> QED BY <1>0, <1>1, <1>4

\* Values add up to their sums.
LEMMA SumAdds ==
    ASSUME NEW n, NEW f, NEW g, NEW h, Summable(f, n), Summable(g, n), Summable(h, n),
           \A i \in 1..n : h[i] = f[i] + g[i]
    PROVE  Sum(h, n) = Sum(f, n) + Sum(g, n)
<1>0. n \in Nat
    BY DEF Summable
<1>1. PICK T : T = {i \in 0..n : Sum(h, i) = Sum(f, i) + Sum(g, i)}
    OBVIOUS
<1>2. 0 \in T
    BY <1>0, <1>1, SumStep
<1>3. ASSUME NEW i \in 0..(n - 1), i \in T PROVE i + 1 \in T
  <2>1. PICK j : j = i + 1
      OBVIOUS
  <2>2. j \in 0..n /\ j \in 1..n /\ j - 1 = i /\ i \in 0..n
      BY <1>0, <2>1
  <2>3. /\ Sum(f, j) = Sum(f, i) + f[j] /\ Sum(g, j) = Sum(g, i) + g[j]
        /\ Sum(h, j) = Sum(h, i) + h[j]
      BY <2>2, SumStep
  <2>4. Sum(h, i) = Sum(f, i) + Sum(g, i) /\ h[j] = f[j] + g[j]
      BY <1>1, <1>3, <2>2
  <2>5. Sum(f, i) \in Int /\ Sum(g, i) \in Int /\ f[j] \in Int /\ g[j] \in Int
      BY <2>2, SumStep DEF Summable
  <2>6. Sum(h, j) = Sum(f, j) + Sum(g, j)
      BY <2>3, <2>4, <2>5
  <2> QED BY <1>1, <2>1, <2>2, <2>6
<1>4. n \in T
  <2>1. n \in 0..n
      BY <1>0
  <2> QED BY <1>0, <1>2, <1>3, <2>1, UpTo
<1> QED BY <1>1, <1>4

\* Bounded values have a bounded sum.
LEMMA SumBounds ==
    ASSUME NEW n, NEW g, Summable(g, n), NEW B \in Nat, \A i \in 1..n : 0 <= g[i] /\ g[i] <= B
    PROVE  0 <= Sum(g, n) /\ Sum(g, n) <= n * B
<1>0. n \in Nat
    BY DEF Summable
<1>1. PICK T : T = {i \in 0..n : 0 <= Sum(g, i) /\ Sum(g, i) <= i * B}
    OBVIOUS
<1>2. 0 \in T
  <2>1. 0 * B = 0
      OBVIOUS
  <2> QED BY <1>0, <1>1, <2>1, SumStep
<1>3. ASSUME NEW i \in 0..(n - 1), i \in T PROVE i + 1 \in T
  <2>1. PICK j : j = i + 1
      OBVIOUS
  <2>2. j \in 0..n /\ j \in 1..n /\ j - 1 = i /\ i \in 0..n
      BY <1>0, <2>1
  <2>3. Sum(g, j) = Sum(g, i) + g[j]
      BY <2>2, SumStep
  <2>4. 0 <= Sum(g, i) /\ Sum(g, i) <= i * B
      BY <1>1, <1>3
  <2>5. Sum(g, i) \in Int /\ g[j] \in Int /\ 0 <= g[j] /\ g[j] <= B
      BY <2>2, SumStep DEF Summable
  <2>6. (i + 1) * B = i * B + B /\ i * B \in Int
      OBVIOUS
  <2>7. 0 <= Sum(g, j) /\ Sum(g, j) <= i * B + B
      BY <2>3, <2>4, <2>5, <2>6
  <2> QED BY <1>1, <2>1, <2>2, <2>6, <2>7
<1>4. n \in T
  <2>1. n \in 0..n
      BY <1>0
  <2> QED BY <1>0, <1>2, <1>3, <2>1, UpTo
<1> QED BY <1>1, <1>4

\* Values that are not negative have a sum that is not.
LEMMA SumNotNegative ==
    ASSUME NEW n, NEW g, Summable(g, n), \A i \in 1..n : 0 <= g[i]
    PROVE  0 <= Sum(g, n)
<1>0. n \in Nat
    BY DEF Summable
<1>1. PICK T : T = {i \in 0..n : 0 <= Sum(g, i)}
    OBVIOUS
<1>2. 0 \in T
    BY <1>0, <1>1, SumStep
<1>3. ASSUME NEW i \in 0..(n - 1), i \in T PROVE i + 1 \in T
  <2>1. PICK j : j = i + 1
      OBVIOUS
  <2>2. j \in 0..n /\ j \in 1..n /\ j - 1 = i /\ i \in 0..n
      BY <1>0, <2>1
  <2>3. Sum(g, j) = Sum(g, i) + g[j]
      BY <2>2, SumStep
  <2>4. 0 <= Sum(g, i)
      BY <1>1, <1>3
  <2>5. Sum(g, i) \in Int /\ g[j] \in Int /\ 0 <= g[j]
      BY <2>2, SumStep DEF Summable
  <2>6. 0 <= Sum(g, j)
      BY <2>3, <2>4, <2>5
  <2> QED BY <1>1, <2>1, <2>2, <2>6
<1>4. n \in T
  <2>1. n \in 0..n
      BY <1>0
  <2> QED BY <1>0, <1>2, <1>3, <2>1, UpTo
<1> QED BY <1>1, <1>4

\* Zeros add up to 0.
LEMMA SumOfZeros ==
    ASSUME NEW n, NEW g, n \in Nat, \A i \in 1..n : g[i] = 0
    PROVE  Sum(g, n) = 0
<1>1. Summable(g, n)
    BY DEF Summable
<1>2. \A i \in 1..n : 0 <= g[i] /\ g[i] <= 0
    OBVIOUS
<1>3. 0 <= Sum(g, n) /\ Sum(g, n) <= n * 0
    BY <1>1, <1>2, SumBounds
<1>4. Sum(g, n) \in Int
    BY <1>1, SumStep
<1> QED BY <1>3, <1>4

-----------------------------------------------------------------------------
(* Folds that add                                                          *)

\* The values of g on s, and 0 elsewhere.
On(g, s, n) == [i \in 1..n |-> IF i \in s THEN g[i] ELSE 0]

\* c takes an element off every subset of D.
Chooses(c, D) == \A s \in SUBSET D : s # {} => c[s] \in s

\* f folds g over the subsets of D, taking an element c[s] off s at a time.
FoldsOver(f, c, g, D) ==
    /\ f[{}] = 0
    /\ \A s \in SUBSET D : s # {} /\ f[s \ {c[s]}] \in Int => f[s] = f[s \ {c[s]}] + g[c[s]]

IntFold(f, c, g, D) == f \in [SUBSET D -> Int] /\ FoldsOver(f, c, g, D)

\* f gives every subset its sum.
Totals(f, g, D, n) == \A s \in SUBSET D : f[s] = Sum(On(g, s, n), n)

LEMMA OnSummable ==
    ASSUME NEW n, NEW g, Summable(g, n), NEW s
    PROVE  Summable(On(g, s, n), n)
<1>1. n \in Nat /\ \A i \in 1..n : g[i] \in Int
    BY DEF Summable
<1>2. \A i \in 1..n : On(g, s, n)[i] \in Int
    BY <1>1 DEF On
<1> QED BY <1>1, <1>2 DEF Summable

\* One element less.
LEMMA OnWithout ==
    ASSUME NEW n, NEW g, Summable(g, n), NEW s, NEW x \in 1..n, x \in s
    PROVE  Sum(On(g, s, n), n) = Sum(On(g, s \ {x}, n), n) + g[x]
<1>1. PICK a, b : a = On(g, s \ {x}, n) /\ b = On(g, s, n)
    OBVIOUS
<1>2. Summable(a, n) /\ Summable(b, n) /\ g[x] \in Int
    BY <1>1, OnSummable DEF Summable
<1>3. a[x] = 0 /\ b[x] = g[x] /\ \A i \in 1..n : i # x => b[i] = a[i]
    BY <1>1 DEF On
<1>4. b[x] = a[x] + g[x]
    BY <1>2, <1>3
<1>5. Sum(b, n) = Sum(a, n) + g[x]
    BY <1>2, <1>3, <1>4, SumMoves
<1> QED BY <1>1, <1>5

\* Nothing adds up to 0.
LEMMA OnNothing ==
    ASSUME NEW n, NEW g, Summable(g, n), NEW s, \A x \in 1..n : x \notin s \/ g[x] = 0
    PROVE  Sum(On(g, s, n), n) = 0
<1>1. n \in Nat /\ \A i \in 1..n : On(g, s, n)[i] = 0
    BY DEF On, Summable
<1> QED BY <1>1, SumOfZeros

\* The sums of the subsets are such a fold, whatever element is taken off;
LEMMA FoldExists ==
    ASSUME NEW n, NEW g, Summable(g, n), NEW D \in SUBSET (1..n),
           NEW c, Chooses(c, D)
    PROVE  \E f : IntFold(f, c, g, D)
<1>1. PICK f : f = [s \in SUBSET D |-> Sum(On(g, s, n), n)]
    OBVIOUS
<1>2. ASSUME NEW s \in SUBSET D PROVE f[s] \in Int
  <2>1. Sum(On(g, s, n), n) \in Int
      BY OnSummable, SumStep
  <2> QED BY <1>1, <2>1
<1>3. f[{}] = 0
  <2>1. \A x \in 1..n : x \notin {}
      OBVIOUS
  <2>2. Sum(On(g, {}, n), n) = 0
      BY <2>1, OnNothing
  <2> QED BY <1>1, <2>2
<1>4. ASSUME NEW s \in SUBSET D, s # {} PROVE f[s] = f[s \ {c[s]}] + g[c[s]]
  <2>1. PICK x : x = c[s]
      OBVIOUS
  <2>2. x \in s /\ x \in 1..n /\ s \ {x} \in SUBSET D
      BY <1>4, <2>1 DEF Chooses
  <2>3. Sum(On(g, s, n), n) = Sum(On(g, s \ {x}, n), n) + g[x]
      BY <2>2, OnWithout
  <2> QED BY <1>1, <2>1, <2>2, <2>3
<1>5. f \in [SUBSET D -> Int]
    BY <1>1, <1>2
<1> QED BY <1>3, <1>4, <1>5 DEF FoldsOver, IntFold

\* and there is no other.
LEMMA FoldIsSum ==
    ASSUME NEW n, NEW g, Summable(g, n), NEW D \in SUBSET (1..n),
           NEW c, Chooses(c, D),
           NEW f, FoldsOver(f, c, g, D)
    PROVE  Totals(f, g, D, n)
<1> SUFFICES ASSUME NEW s \in SUBSET D PROVE f[s] = Sum(On(g, s, n), n)
    BY DEF Totals
<1>0. n \in Nat
    BY DEF Summable
<1>1. \A t \in SUBSET D : IsFiniteSet(t) /\ Cardinality(t) \in Nat
  <2>1. IsFiniteSet(1..n)
      BY <1>0, FS_Interval
  <2>2. ASSUME NEW t \in SUBSET D PROVE IsFiniteSet(t) /\ Cardinality(t) \in Nat
    <3>1. IsFiniteSet(t)
        BY <2>1, FS_Subset
    <3> QED BY <3>1, FS_CardinalityType
  <2> QED BY <2>2
<1>2. PICK m : m = Cardinality(s)
    OBVIOUS
<1>3. PICK T : T = {i \in 0..m : \A t \in SUBSET D :
                        Cardinality(t) = i => f[t] = Sum(On(g, t, n), n)}
    OBVIOUS
<1>4. ASSUME NEW t \in SUBSET D PROVE Sum(On(g, t, n), n) \in Int
    BY OnSummable, SumStep
<1>5. 0 \in T
  <2>1. \A t \in SUBSET D : Cardinality(t) = 0 => t = {}
      BY <1>1, FS_EmptySet
  <2>2. f[{}] = 0
      BY DEF FoldsOver
  <2>3. Sum(On(g, {}, n), n) = 0
    <3>1. \A x \in 1..n : x \notin {}
        OBVIOUS
    <3> QED BY <3>1, OnNothing
  <2>4. m \in Nat /\ 0 \in 0..m
      BY <1>1, <1>2
  <2>5. \A t \in SUBSET D : Cardinality(t) = 0 => f[t] = Sum(On(g, t, n), n)
      BY <2>1, <2>2, <2>3
  <2> QED BY <1>3, <2>4, <2>5
<1>6. ASSUME NEW i \in 0..(m - 1), i \in T PROVE i + 1 \in T
  <2>1. ASSUME NEW t \in SUBSET D, Cardinality(t) = i + 1 PROVE f[t] = Sum(On(g, t, n), n)
    <3>1. t # {}
      <4>1. Cardinality({}) = 0 /\ i + 1 # 0
          BY FS_EmptySet
      <4> QED BY <2>1, <4>1
    <3>2. PICK x, u : x = c[t] /\ u = t \ {x}
        OBVIOUS
    <3>3. x \in t /\ x \in 1..n /\ u \in SUBSET D
        BY <3>1, <3>2 DEF Chooses
    <3>4. Cardinality(u) = i
      <4>1. IsFiniteSet(t) /\ Cardinality(t) \in Nat
          BY <1>1
      <4>2. Cardinality(t \ {x}) = IF x \in t THEN Cardinality(t) - 1 ELSE Cardinality(t)
          BY <4>1, FS_RemoveElement
      <4> QED BY <2>1, <3>2, <3>3, <4>1, <4>2
    <3>5. f[u] = Sum(On(g, u, n), n)
        BY <1>3, <1>6, <3>3, <3>4
    <3>6. f[t] = f[u] + g[x]
      <4>1. f[u] \in Int
          BY <1>4, <3>3, <3>5
      <4> QED BY <3>1, <3>2, <4>1 DEF FoldsOver
    <3>7. Sum(On(g, t, n), n) = Sum(On(g, u, n), n) + g[x]
        BY <3>2, <3>3, OnWithout
    <3> QED BY <3>5, <3>6, <3>7
  <2>2. i + 1 \in 0..m
      BY <1>1, <1>2
  <2> QED BY <1>3, <2>1, <2>2
<1>7. m \in T
  <2>1. m \in Nat /\ m \in 0..m
      BY <1>1, <1>2
  <2> QED BY <1>5, <1>6, <2>1, UpTo
<1> QED BY <1>2, <1>3, <1>7

\* What a fold over a whole sequence comes to.
LEMMA FoldOfAll ==
    ASSUME NEW n, NEW g, Summable(g, n), NEW c, Chooses(c, 1..n),
           NEW f, FoldsOver(f, c, g, 1..n)
    PROVE  f[1..n] = Sum(g, n)
<1>1. PICK a : a = On(g, 1..n, n)
    OBVIOUS
<1>2. Summable(a, n)
    BY <1>1, OnSummable
<1>3. \A i \in 1..n : a[i] = g[i]
    BY <1>1 DEF On
<1>4. Sum(a, n) = Sum(g, n)
    BY <1>2, <1>3, SumSame
<1>5. f[1..n] = Sum(a, n)
  <2>1. Totals(f, g, 1..n, n)
      BY FoldIsSum
  <2> QED BY <1>1, <2>1 DEF Totals
<1> QED BY <1>4, <1>5

\* The first m values of q.
Taken(q, m) == {q[i] : i \in 1..m}

\* The values of h are those of g at the indices q, each taken once.
Picks(q, h, m, g, n) ==
    /\ Summable(g, n) /\ Summable(h, m)
    /\ \A i \in 1..m : q[i] \in 1..n /\ h[i] = g[q[i]]
    /\ \A i, j \in 1..m : q[i] = q[j] => i = j

\* A sum over a set of indices, each taken once.
LEMMA SumOfDistinct ==
    ASSUME NEW n, NEW g, NEW m, NEW h, NEW q, Picks(q, h, m, g, n)
    PROVE  Sum(h, m) = Sum(On(g, Taken(q, m), n), n)
<1> USE DEF Picks
<1>0. m \in Nat
    BY DEF Summable
<1>1. PICK T : T = {k \in 0..m : Sum(h, k) = Sum(On(g, Taken(q, k), n), n)}
    OBVIOUS
<1>2. 0 \in T
  <2>1. Sum(On(g, Taken(q, 0), n), n) = 0
    <3>1. \A x \in 1..n : x \notin Taken(q, 0)
        BY DEF Taken
    <3> QED BY <3>1, OnNothing
  <2>2. Sum(h, 0) = 0 /\ 0 \in 0..m
      BY <1>0, SumStep
  <2> QED BY <1>1, <2>1, <2>2
<1>3. ASSUME NEW k \in 0..(m - 1), k \in T PROVE k + 1 \in T
  <2>1. PICK j, x, s, t : /\ j = k + 1 /\ x = q[j]
                          /\ s = Taken(q, k) /\ t = Taken(q, j)
      OBVIOUS
  <2>2. j \in 0..m /\ j \in 1..m /\ j - 1 = k /\ \A i \in 1..k : i \in 1..j /\ i \in 1..m /\ i # j
      BY <1>0, <2>1
  <2>3. x \in 1..n /\ h[j] = g[x]
      BY <2>1, <2>2
  <2>4. x \in t /\ x \notin s
    <3>1. \A i \in 1..k : q[i] # q[j]
        BY <2>2
    <3>2. j \in 1..j
        BY <2>2
    <3> QED BY <2>1, <3>1, <3>2 DEF Taken
  <2>5. t \ {x} = s
    <3>1. \A i \in 1..j : i \in 1..k \/ i = j
        BY <2>1, <2>2
    <3>2. t \ {x} \subseteq s
        BY <2>1, <3>1 DEF Taken
    <3>3. s \subseteq t
        BY <2>1, <2>2 DEF Taken
    <3> QED BY <2>4, <3>2, <3>3
  <2>6. Sum(On(g, t, n), n) = Sum(On(g, s, n), n) + g[x]
      BY <2>3, <2>4, <2>5, OnWithout
  <2>7. Sum(h, j) = Sum(h, k) + h[j]
      BY <2>2, SumStep
  <2>8. Sum(h, k) = Sum(On(g, s, n), n)
      BY <1>1, <1>3, <2>1
  <2> QED BY <1>1, <2>1, <2>2, <2>3, <2>6, <2>7, <2>8
<1>4. m \in T
  <2>1. m \in 0..m
      BY <1>0
  <2> QED BY <1>0, <1>2, <1>3, <2>1, UpTo
<1> QED BY <1>1, <1>4

\* The element that MapThenSumSet takes off a set.
Some(s) == CHOOSE x \in s : TRUE

AmountSum(order, S) == MapThenSumSet(LAMBDA e : order[e].amount, S)

\* The sum of the amounts of the orders of a set.
LEMMA SetSum ==
    ASSUME NEW order, NEW n, NEW g, Summable(g, n), NEW S \in SUBSET (1..n),
           \A x \in S : g[x] = order[x].amount
    PROVE  AmountSum(order, S) = Sum(On(g, S, n), n)
<1>1. PICK c : c = [s \in SUBSET S |-> Some(s)]
    OBVIOUS
<1>2. \A s \in SUBSET S : c[s] = Some(s)
    BY <1>1
<1>20. Chooses(c, S)
    BY <1>2 DEF Chooses, Some
<1> DEFINE A(f) == f = [s \in SUBSET S |->
                            IF s = {} THEN 0
                            ELSE order[Some(s)].amount + f[s \ {Some(s)}]]
<1>3. AmountSum(order, S) = (CHOOSE h : A(h))[S]
    BY DEF AmountSum, MapThenSumSet, MapThenFoldSet, Some
<1>4. ASSUME NEW s \in SUBSET S, s # {}
      PROVE  c[s] = Some(s) /\ c[s] \in S /\ order[c[s]].amount = g[c[s]] /\ g[c[s]] \in Int
    BY <1>2, <1>20, <1>4 DEF Summable, Chooses
<1>5. ASSUME NEW f, A(f) PROVE FoldsOver(f, c, g, S)
  <2>1. \A s \in SUBSET S : f[s] = IF s = {} THEN 0 ELSE order[Some(s)].amount + f[s \ {Some(s)}]
      BY <1>5
  <2> HIDE DEF A
  <2>2. ASSUME NEW s \in SUBSET S, s # {}, f[s \ {c[s]}] \in Int PROVE f[s] = f[s \ {c[s]}] + g[c[s]]
    <3>1. f[s] = g[c[s]] + f[s \ {c[s]}]
        BY <1>4, <2>1, <2>2
    <3> QED BY <1>4, <2>2, <3>1
  <2> QED BY <2>1, <2>2 DEF FoldsOver
<1>6. \E f : A(f)
  <2>0. PICK f : IntFold(f, c, g, S)
      BY <1>20, FoldExists
  <2>1. f \in [SUBSET S -> Int] /\ FoldsOver(f, c, g, S)
      BY <2>0 DEF IntFold
  <2>2. ASSUME NEW s \in SUBSET S
        PROVE  f[s] = IF s = {} THEN 0 ELSE order[Some(s)].amount + f[s \ {Some(s)}]
    <3>1. CASE s = {}
        BY <2>1, <3>1 DEF FoldsOver
    <3>2. CASE s # {}
      <4>1. f[s \ {c[s]}] \in Int
          BY <2>1
      <4>2. f[s] = f[s \ {c[s]}] + g[c[s]]
          BY <2>1, <3>2, <4>1 DEF FoldsOver
      <4>3. f[s] = g[c[s]] + f[s \ {c[s]}]
          BY <1>4, <3>2, <4>1, <4>2
      <4> QED BY <1>4, <3>2, <4>3
    <3> QED BY <3>1, <3>2
  <2> QED BY <2>1, <2>2
<1> HIDE DEF A
<1>7. PICK h : h = (CHOOSE x : A(x)) /\ FoldsOver(h, c, g, S)
    BY <1>5, <1>6
<1>8. h[S] = Sum(On(g, S, n), n)
  <2>1. Totals(h, g, S, n)
      BY <1>20, <1>7, FoldIsSum
  <2> QED BY <2>1 DEF Totals
<1> QED BY <1>3, <1>7, <1>8

-----------------------------------------------------------------------------
(* Queues                                                                  *)

\* A queue is in the order in which its elements were pushed.
InOrder(q) == \A i, j \in 1..Len(q) : i < j => q[i] < q[j]

\* So no element is queued twice.
LEMMA InOrderIsDistinct ==
    ASSUME NEW q \in Seq(Elem), InOrder(q)
    PROVE  \A i, j \in 1..Len(q) : q[i] = q[j] => i = j
<1> SUFFICES ASSUME NEW i \in 1..Len(q), NEW j \in 1..Len(q), q[i] = q[j], i < j PROVE FALSE
    OBVIOUS
<1>1. q[i] \in Elem /\ q[i] < q[j]
    BY DEF InOrder
<1> QED BY <1>1 DEF Elem

\* RemoveFirst takes the element out of a queue and keeps the order of the others.
LEMMA RemoveFirstFacts ==
    ASSUME NEW q \in Seq(Elem), NEW e
    PROVE  /\ RemoveFirst(q, e) \in Seq(Elem)
           /\ q = << >> => RemoveFirst(q, e) = << >>
           /\ \A i \in 1..Len(RemoveFirst(q, e)) : \E j \in 1..Len(q) : RemoveFirst(q, e)[i] = q[j]
           /\ InOrder(q) =>
                /\ InOrder(RemoveFirst(q, e))
                /\ \A i \in 1..Len(RemoveFirst(q, e)) : RemoveFirst(q, e)[i] # e
                /\ \A j \in 1..Len(q) : q[j] # e =>
                      \E i \in 1..Len(RemoveFirst(q, e)) : RemoveFirst(q, e)[i] = q[j]
<1>1. CASE ~\E i \in 1..Len(q) : q[i] = e
    BY <1>1 DEF RemoveFirst
<1>2. CASE \E i \in 1..Len(q) : q[i] = e
  <2> DEFINE I == {i \in 1..Len(q) : q[i] = e}
             k == Min(I)
             front == SubSeq(q, 1, k - 1)
             back == SubSeq(q, k + 1, Len(q))
             r == front \o back
  <2>1. RemoveFirst(q, e) = r
      BY <1>2 DEF RemoveFirst, RemoveAt, SelectInSeq
  <2>2. k \in 1..Len(q) /\ q[k] = e
    <3>1. I \in SUBSET Nat /\ I # {}
        BY <1>2
    <3> QED BY <3>1, MinIn
  <2> HIDE DEF k
  <2>3. /\ front \in Seq(Elem) /\ Len(front) = k - 1
        /\ \A i \in 1..(k - 1) : front[i] = q[i]
      BY <2>2, SubSeqProperties
  <2>4. /\ back \in Seq(Elem) /\ Len(back) = Len(q) - k
        /\ \A i \in 1..(Len(q) - k) : back[i] = q[k + i]
      BY <2>2, SubSeqProperties
  <2>5. /\ r \in Seq(Elem) /\ Len(r) = Len(q) - 1
        /\ \A i \in 1..Len(r) : r[i] = IF i < k THEN q[i] ELSE q[i + 1]
    <3> HIDE DEF front, back
    <3>1. /\ r \in Seq(Elem) /\ Len(r) = Len(front) + Len(back)
          /\ \A i \in 1..(Len(front) + Len(back)) :
                r[i] = IF i <= Len(front) THEN front[i] ELSE back[i - Len(front)]
        BY <2>3, <2>4, ConcatProperties
    <3>2. Len(q) \in Nat /\ k \in 1..Len(q)
        BY <2>2
    <3> HIDE DEF r
    <3>3. ASSUME NEW i \in 1..Len(r) PROVE r[i] = IF i < k THEN q[i] ELSE q[i + 1]
      <4>1. CASE i < k
          BY <2>3, <3>1, <3>2, <4>1
      <4>2. CASE i >= k
        <5> DEFINE j == i - (k - 1)
        <5>1. r[i] = back[j] /\ j \in 1..(Len(q) - k) /\ k + j = i + 1
            BY <2>3, <2>4, <3>1, <3>2, <4>2
        <5> HIDE DEF j
        <5> QED BY <2>4, <3>2, <4>2, <5>1
      <4> QED BY <3>2, <4>1, <4>2
    <3> QED BY <2>3, <2>4, <3>1, <3>2, <3>3
  <2> HIDE DEF r
  <2>6. \A i \in 1..Len(r) : \E j \in 1..Len(q) : j # k /\ r[i] = q[j]
      BY <2>2, <2>5
  <2>7. \A j \in 1..Len(q) : j # k => \E i \in 1..Len(r) : r[i] = q[j]
    <3> SUFFICES ASSUME NEW j \in 1..Len(q), j # k PROVE \E i \in 1..Len(r) : r[i] = q[j]
        OBVIOUS
    <3>1. CASE j < k
        BY <2>2, <2>5, <3>1
    <3>2. CASE j > k
      <4>1. j - 1 \in 1..Len(r) /\ r[j - 1] = q[j]
          BY <2>2, <2>5, <3>2
      <4> QED BY <4>1
    <3> QED BY <2>2, <3>1, <3>2
  <2>8. ASSUME InOrder(q) PROVE InOrder(r)
    <3> SUFFICES ASSUME NEW i \in 1..Len(r), NEW j \in 1..Len(r), i < j PROVE r[i] < r[j]
        BY DEF InOrder
    <3>1. PICK x, y : x = (IF i < k THEN i ELSE i + 1) /\ y = (IF j < k THEN j ELSE j + 1)
        OBVIOUS
    <3>2. r[i] = q[x] /\ r[j] = q[y]
        BY <2>5, <3>1
    <3>3. k \in Nat /\ Len(q) \in Nat /\ k <= Len(q) /\ Len(r) = Len(q) - 1
        BY <2>2, <2>5
    <3>4. x \in 1..Len(q) /\ y \in 1..Len(q) /\ x < y
        BY <3>1, <3>3
    <3> QED BY <2>8, <3>2, <3>4 DEF InOrder
  <2>9. q # << >>
      BY <2>2
  <2>10. InOrder(q) => \A i \in 1..Len(r) : r[i] # e
      BY <2>2, <2>6, InOrderIsDistinct
  <2>11. \A j \in 1..Len(q) : q[j] # e => \E i \in 1..Len(r) : r[i] = q[j]
      BY <2>2, <2>7
  <2> QED BY <2>1, <2>5, <2>6, <2>8, <2>9, <2>10, <2>11
<1> QED BY <1>1, <1>2

-----------------------------------------------------------------------------
(* What keeps a book together                                              *)

\* The map and the heap know a price exactly when an order is queued there.
LevelKnown(b, s, p) ==
    /\ p \in b.heap[s] <=> b.queue[s][p] # << >>
    /\ p \in b.levels[s] <=> b.queue[s][p] # << >>

\* What is queued rests there, first come first.
QueueOf(b, s, p) ==
    /\ \A i \in 1..Len(b.queue[s][p]) :
          LET o == b.order[b.queue[s][p][i]]
          IN  o # NoOrder /\ o.side = s /\ o.price = p
    /\ InOrder(b.queue[s][p])

\* An element is in the queue of its order's level.
Queued(b, e) ==
    LET o == b.order[e] IN \E i \in 1..Len(b.queue[o.side][o.price]) : b.queue[o.side][o.price][i] = e

\* Only limit orders with something left rest.
CanRest(o) == o.kind = "LIMIT" /\ o.price \in Price /\ o.amount > 0

\* A book whose structures say the same, up to the Index.
Sound(b) ==
    /\ b \in Book
    /\ \A s \in Side, p \in Price : LevelKnown(b, s, p) /\ QueueOf(b, s, p)
    /\ \A e \in Elem : b.order[e] # NoOrder => CanRest(b.order[e]) /\ Queued(b, e)

\* The Index names exactly the resting orders.
Indexed(b) ==
    /\ \A e \in Elem : b.order[e] # NoOrder => b.index[b.order[e].id] = e
    /\ \A id \in OrderID :
          b.index[id] # NoElem =>
             b.order[b.index[id]] # NoOrder /\ b.order[b.index[id]].id = id

-----------------------------------------------------------------------------
(* The three things an operation does to a book                            *)

\* Books b and r have the same level at a price.
SameLevel(b, r, s, p) ==
    /\ r.queue[s][p] = b.queue[s][p]
    /\ p \in r.heap[s] <=> p \in b.heap[s]
    /\ p \in r.levels[s] <=> p \in b.levels[s]

\* The totals of r are those of b but for one level, where the total has moved
\* by d or is gone with the queue.
TotalMoves(b, r, s, p, d) ==
    /\ \/ r.total[s][p] = Wrap(b.total[s][p] + d)
       \/ r.queue[s][p] = << >> /\ r.total[s][p] = 0
    /\ \A ss \in Side, pp \in Price : ss # s \/ pp # p => r.total[ss][pp] = b.total[ss][pp]

\* r is b without the element e.
Unlinks(b, r, e) ==
    LET o == b.order[e]
    IN  /\ r \in Book
        /\ r.order = [b.order EXCEPT ![e] = NoOrder]
        /\ r.index = [b.index EXCEPT ![o.id] = NoElem]
        /\ \A s \in Side, p \in Price : s # o.side \/ p # o.price => SameLevel(b, r, s, p)
        /\ TotalMoves(b, r, o.side, o.price, -o.amount)
        /\ LevelKnown(r, o.side, o.price)
        /\ InOrder(r.queue[o.side][o.price])
        /\ \A i \in 1..Len(r.queue[o.side][o.price]) :
              /\ r.queue[o.side][o.price][i] # e
              /\ \E j \in 1..Len(b.queue[o.side][o.price]) :
                    r.queue[o.side][o.price][i] = b.queue[o.side][o.price][j]
        /\ \A j \in 1..Len(b.queue[o.side][o.price]) :
              b.queue[o.side][o.price][j] # e =>
                 \E i \in 1..Len(r.queue[o.side][o.price]) :
                    r.queue[o.side][o.price][i] = b.queue[o.side][o.price][j]

\* r is b with the order o at the end of its queue, as the element e.
Links(b, r, e, o) ==
    /\ r \in Book
    /\ r.order = [b.order EXCEPT ![e] = o]
    /\ r.index = [b.index EXCEPT ![o.id] = e]
    /\ \A s \in Side, p \in Price : s # o.side \/ p # o.price => SameLevel(b, r, s, p)
    /\ TotalMoves(b, r, o.side, o.price, o.amount)
    /\ LevelKnown(r, o.side, o.price)
    /\ r.queue[o.side][o.price] = Append(b.queue[o.side][o.price], e)

\* r is b with the quantity n left at the element e.
Resizes(b, r, e, n) ==
    /\ r \in Book
    /\ n \in Int /\ n > 0 /\ r.order = [b.order EXCEPT ![e] = [@ EXCEPT !.amount = n]]
    /\ r.index = b.index
    /\ \A s \in Side, p \in Price : SameLevel(b, r, s, p)
    /\ TotalMoves(b, r, b.order[e].side, b.order[e].price, n - b.order[e].amount)

\* Each of the three keeps a book sound, and its Index exact.
LEMMA UnlinkKeeps ==
    ASSUME NEW b, NEW r, NEW e \in Elem, Sound(b), b.order[e] # NoOrder, Unlinks(b, r, e)
    PROVE  /\ Sound(r)
           /\ Indexed(b) => Indexed(r)
<1> DEFINE o == b.order[e]
<1>1. b \in Book /\ r \in Book /\ o \in Order /\ o.side \in Side /\ o.price \in Price /\ o.id \in OrderID
    BY DEF Sound, Unlinks, CanRest, Book, Order
<1>2. /\ r.order[e] = NoOrder /\ \A x \in Elem \ {e} : r.order[x] = b.order[x]
      /\ r.index[o.id] = NoElem /\ \A id \in OrderID \ {o.id} : r.index[id] = b.index[id]
    BY <1>1 DEF Unlinks, Book
<1>3. ASSUME NEW s \in Side, NEW p \in Price PROVE LevelKnown(r, s, p)
  <2>1. CASE s = o.side /\ p = o.price
      BY <2>1 DEF Unlinks
  <2>2. CASE s # o.side \/ p # o.price
    <3>1. SameLevel(b, r, s, p) /\ LevelKnown(b, s, p)
        BY <2>2 DEF Sound, Unlinks
    <3> QED BY <3>1 DEF SameLevel, LevelKnown
  <2> QED BY <2>1, <2>2
<1>4. ASSUME NEW s \in Side, NEW p \in Price PROVE QueueOf(r, s, p)
  <2>1. \A i \in 1..Len(b.queue[s][p]) : b.queue[s][p][i] \in Elem
      BY <1>1 DEF Book
  <2>2. QueueOf(b, s, p)
      BY DEF Sound
  <2>3. CASE s = o.side /\ p = o.price
    <3>1. /\ InOrder(r.queue[s][p])
          /\ \A i \in 1..Len(r.queue[s][p]) :
                /\ r.queue[s][p][i] # e
                /\ \E j \in 1..Len(b.queue[s][p]) : r.queue[s][p][i] = b.queue[s][p][j]
        BY <2>3 DEF Unlinks
    <3>2. \A i \in 1..Len(r.queue[s][p]) :
              /\ r.queue[s][p][i] \in Elem \ {e}
              /\ b.order[r.queue[s][p][i]] # NoOrder
              /\ b.order[r.queue[s][p][i]].side = s /\ b.order[r.queue[s][p][i]].price = p
      <4> SUFFICES ASSUME NEW i \in 1..Len(r.queue[s][p])
                   PROVE  /\ r.queue[s][p][i] \in Elem \ {e}
                          /\ b.order[r.queue[s][p][i]] # NoOrder
                          /\ b.order[r.queue[s][p][i]].side = s /\ b.order[r.queue[s][p][i]].price = p
          OBVIOUS
      <4>1. PICK x, j : x = r.queue[s][p][i] /\ j \in 1..Len(b.queue[s][p]) /\ x = b.queue[s][p][j]
          BY <3>1
      <4>2. x \in Elem /\ b.order[x] # NoOrder /\ b.order[x].side = s /\ b.order[x].price = p
          BY <2>1, <2>2, <4>1 DEF QueueOf
      <4> QED BY <3>1, <4>1, <4>2
    <3>3. \A i \in 1..Len(r.queue[s][p]) : r.order[r.queue[s][p][i]] = b.order[r.queue[s][p][i]]
        BY <1>2, <3>2
    <3> QED BY <3>1, <3>2, <3>3 DEF QueueOf
  <2>4. CASE s # o.side \/ p # o.price
    <3>1. r.queue[s][p] = b.queue[s][p]
        BY <2>4 DEF Unlinks, SameLevel
    <3>2. \A i \in 1..Len(b.queue[s][p]) : b.queue[s][p][i] # e
        BY <2>2, <2>4 DEF QueueOf
    <3>3. \A i \in 1..Len(b.queue[s][p]) : r.order[b.queue[s][p][i]] = b.order[b.queue[s][p][i]]
        BY <1>2, <2>1, <3>2
    <3> QED BY <2>2, <3>1, <3>3 DEF QueueOf
  <2> QED BY <2>3, <2>4
<1>5. ASSUME NEW x \in Elem, r.order[x] # NoOrder PROVE CanRest(r.order[x]) /\ Queued(r, x)
  <2>1. x # e /\ r.order[x] = b.order[x]
      BY <1>2, <1>5
  <2>2. PICK s, p : s = b.order[x].side /\ p = b.order[x].price
      OBVIOUS
  <2>3. s \in Side /\ p \in Price /\ CanRest(b.order[x])
      BY <1>1, <1>5, <2>1, <2>2 DEF Sound, CanRest, Book, Order
  <2>4. PICK j \in 1..Len(b.queue[s][p]) : b.queue[s][p][j] = x
    <3>1. Queued(b, x)
        BY <1>5, <2>1 DEF Sound
    <3> QED BY <2>2, <3>1 DEF Queued
  <2>5. \E i \in 1..Len(r.queue[s][p]) : r.queue[s][p][i] = x
    <3>1. CASE s = o.side /\ p = o.price
        BY <2>1, <2>4, <3>1 DEF Unlinks
    <3>2. CASE s # o.side \/ p # o.price
      <4>1. r.queue[s][p] = b.queue[s][p]
          BY <2>3, <3>2 DEF Unlinks, SameLevel
      <4> QED BY <2>4, <4>1
    <3> QED BY <3>1, <3>2
  <2> QED BY <2>1, <2>2, <2>3, <2>5 DEF Queued
<1>7. Sound(r)
    BY <1>1, <1>3, <1>4, <1>5 DEF Sound
<1>6. ASSUME Indexed(b) PROVE Indexed(r)
  <2>1. \A x \in Elem \ {e} : b.order[x] # NoOrder => b.order[x].id \in OrderID \ {o.id}
      BY <1>1, <1>6 DEF Indexed, Book, Order
  <2>2. \A id \in OrderID \ {o.id} : b.index[id] # NoElem => b.index[id] \in Elem \ {e}
      BY <1>1, <1>6 DEF Indexed, Book
  <2> QED BY <1>2, <1>6, <2>1, <2>2 DEF Indexed
<1> QED BY <1>6, <1>7

\* A new order must have a new id for that.
LEMMA LinkKeeps ==
    ASSUME NEW b, NEW r, NEW e \in Elem, NEW o \in Order, Sound(b), CanRest(o),
           \A x \in Elem : x >= e => b.order[x] = NoOrder, Links(b, r, e, o)
    PROVE  /\ Sound(r)
           /\ Indexed(b) /\ (\A x \in Elem : b.order[x] # NoOrder => b.order[x].id # o.id) => Indexed(r)
<1>0. b.order[e] = NoOrder
    BY DEF Elem
<1>1. b \in Book /\ r \in Book /\ o.side \in Side /\ o.price \in Price /\ o.id \in OrderID
    BY DEF Sound, Links, CanRest, Order
<1>2. /\ r.order[e] = o /\ \A x \in Elem \ {e} : r.order[x] = b.order[x]
      /\ r.index[o.id] = e /\ \A id \in OrderID \ {o.id} : r.index[id] = b.index[id]
    BY <1>1 DEF Links, Book
<1>3. ASSUME NEW s \in Side, NEW p \in Price PROVE LevelKnown(r, s, p)
  <2>1. CASE s = o.side /\ p = o.price
      BY <2>1 DEF Links
  <2>2. CASE s # o.side \/ p # o.price
    <3>1. SameLevel(b, r, s, p) /\ LevelKnown(b, s, p)
        BY <2>2 DEF Sound, Links
    <3> QED BY <3>1 DEF SameLevel, LevelKnown
  <2> QED BY <2>1, <2>2
<1>4. ASSUME NEW s \in Side, NEW p \in Price PROVE QueueOf(r, s, p)
  <2>1. /\ b.queue[s][p] \in Seq(Elem) /\ Len(b.queue[s][p]) \in Nat
        /\ \A i \in 1..Len(b.queue[s][p]) : b.queue[s][p][i] \in Elem \ {e}
    <3>1. b.queue[s][p] \in Seq(Elem)
        BY <1>1 DEF Book
    <3>2. PICK q : q = b.queue[s][p]
        OBVIOUS
    <3>3. q \in Seq(Elem) /\ Len(q) \in Nat /\ \A i \in 1..Len(q) : q[i] \in Elem
        BY <3>1, <3>2
    <3>4. QueueOf(b, s, p)
        BY DEF Sound
    <3>5. \A i \in 1..Len(q) : b.order[q[i]] # NoOrder
        BY <3>2, <3>4 DEF QueueOf
    <3>6. \A i \in 1..Len(q) : q[i] # e
        BY <1>0, <3>5
    <3> QED BY <3>2, <3>3, <3>6
  <2>2. CASE s = o.side /\ p = o.price
    <3> DEFINE q == b.queue[s][p]
               a == r.queue[s][p]
    <3>0. a = Append(q, e) /\ q \in Seq(Elem) /\ \A i \in 1..Len(q) : q[i] \in Elem \ {e}
        BY <2>1, <2>2 DEF Links
    <3>1. /\ Len(q) \in Nat /\ Len(a) = Len(q) + 1 /\ a[Len(q) + 1] = e
          /\ \A i \in 1..Len(q) : a[i] = q[i] /\ q[i] \in Elem \ {e}
      <4> HIDE DEF q, a
      <4> QED BY <3>0
    <3>2. InOrder(q) /\ \A i \in 1..Len(q) :
              b.order[q[i]] # NoOrder /\ b.order[q[i]].side = s /\ b.order[q[i]].price = p
      <4>1. QueueOf(b, s, p)
          BY DEF Sound
      <4> QED BY <4>1 DEF QueueOf
    <3> HIDE DEF q, a
    <3>3. InOrder(a)
      <4>1. \A x \in Elem : b.order[x] # NoOrder => x < e
          BY DEF Elem
      <4>2. \A i \in 1..Len(q) : a[i] = q[i] /\ q[i] < e
          BY <3>1, <3>2, <4>1
      <4> SUFFICES ASSUME NEW i \in 1..Len(a), NEW j \in 1..Len(a), i < j PROVE a[i] < a[j]
          BY DEF InOrder
      <4>3. i \in 1..Len(q)
          BY <3>1
      <4>4. CASE j = Len(q) + 1
          BY <3>1, <4>2, <4>3, <4>4
      <4>5. CASE j \in 1..Len(q)
          BY <3>1, <3>2, <4>3, <4>5 DEF InOrder
      <4> QED BY <3>1, <4>4, <4>5
    <3>4. \A i \in 1..Len(a) : r.order[a[i]] # NoOrder /\ r.order[a[i]].side = s /\ r.order[a[i]].price = p
      <4> SUFFICES ASSUME NEW i \in 1..Len(a)
                   PROVE  r.order[a[i]] # NoOrder /\ r.order[a[i]].side = s /\ r.order[a[i]].price = p
          OBVIOUS
      <4>1. Len(q) \in Nat
          BY <2>1 DEF q
      <4>2. CASE i = Len(q) + 1
          BY <1>2, <2>2, <3>1, <4>2, NoOrderAssumption
      <4>3. CASE i \in 1..Len(q)
          BY <1>2, <3>1, <3>2, <4>3
      <4> QED BY <3>1, <4>1, <4>2, <4>3
    <3> QED BY <3>3, <3>4 DEF QueueOf, a
  <2>3. CASE s # o.side \/ p # o.price
    <3>1. r.queue[s][p] = b.queue[s][p]
        BY <2>3 DEF Links, SameLevel
    <3>2. QueueOf(b, s, p)
        BY DEF Sound
    <3>3. \A i \in 1..Len(b.queue[s][p]) : r.order[b.queue[s][p][i]] = b.order[b.queue[s][p][i]]
        BY <1>2, <2>1
    <3> QED BY <3>1, <3>2, <3>3 DEF QueueOf
  <2> QED BY <2>2, <2>3
<1>5. ASSUME NEW x \in Elem, r.order[x] # NoOrder PROVE CanRest(r.order[x]) /\ Queued(r, x)
  <2>1. PICK s, p, a, q : /\ s = r.order[x].side /\ p = r.order[x].price
                          /\ a = r.queue[s][p] /\ q = b.queue[s][p]
      OBVIOUS
  <2>2. CASE x = e
    <3>0. s = o.side /\ p = o.price
        BY <1>2, <2>1, <2>2
    <3>1. a = Append(q, e) /\ q \in Seq(Elem)
      <4>1. r.queue[o.side][o.price] = Append(b.queue[o.side][o.price], e)
          BY DEF Links
      <4>2. b.queue[o.side][o.price] \in Seq(Elem)
          BY <1>1 DEF Book
      <4> QED BY <2>1, <3>0, <4>1, <4>2
    <3>2. Len(a) \in 1..Len(a) /\ a[Len(a)] = e
        BY <3>1
    <3> QED BY <1>2, <2>1, <2>2, <3>2 DEF Queued
  <2>3. CASE x # e
    <3>1. r.order[x] = b.order[x] /\ s \in Side /\ p \in Price /\ CanRest(b.order[x])
        BY <1>1, <1>2, <1>5, <2>1, <2>3 DEF Sound, CanRest, Book, Order
    <3>2. PICK j \in 1..Len(q) : q[j] = x
      <4>1. Queued(b, x)
          BY <1>5, <3>1 DEF Sound
      <4>2. b.order[x].side = s /\ b.order[x].price = p
          BY <2>1, <3>1
      <4> QED BY <2>1, <4>1, <4>2 DEF Queued
    <3>3. q \in Seq(Elem) /\ Len(q) \in Nat
        BY <1>1, <2>1, <3>1 DEF Book
    <3>4. \E i \in 1..Len(a) : a[i] = x
      <4>1. CASE s = o.side /\ p = o.price
        <5>1. a = Append(q, e)
            BY <2>1, <4>1 DEF Links
        <5>2. j \in 1..Len(a) /\ a[j] = q[j]
            BY <3>2, <3>3, <5>1
        <5> QED BY <3>2, <5>2
      <4>2. CASE s # o.side \/ p # o.price
        <5>1. a = q
            BY <2>1, <3>1, <4>2 DEF Links, SameLevel
        <5> QED BY <3>2, <5>1
      <4> QED BY <4>1, <4>2
    <3> QED BY <2>1, <3>1, <3>4 DEF Queued
  <2> QED BY <2>2, <2>3
<1>7. Sound(r)
    BY <1>1, <1>3, <1>4, <1>5 DEF Sound
<1>6. ASSUME Indexed(b), \A x \in Elem : b.order[x] # NoOrder => b.order[x].id # o.id
      PROVE  Indexed(r)
  <2>1. \A x \in Elem \ {e} : b.order[x] # NoOrder => b.order[x].id \in OrderID \ {o.id}
      BY <1>0, <1>1, <1>6 DEF Book, Order
  <2>2. \A id \in OrderID \ {o.id} : b.index[id] # NoElem => b.index[id] \in Elem \ {e}
      BY <1>0, <1>1, <1>6 DEF Indexed, Book
  <2>3. o # NoOrder
      BY NoOrderAssumption
  <2> QED BY <1>0, <1>1, <1>2, <1>6, <2>1, <2>2, <2>3 DEF Indexed
<1> QED BY <1>6, <1>7

\* The same elements hold orders, with the same ids.
SameIds(b, r) ==
    \A x \in Elem : /\ r.order[x] = NoOrder <=> b.order[x] = NoOrder
                    /\ r.order[x] # NoOrder => r.order[x].id = b.order[x].id

\* Another quantity leaves the elements and their ids.
LEMMA ResizeKeeps ==
    ASSUME NEW b, NEW r, NEW e \in Elem, NEW n, Sound(b), b.order[e] # NoOrder, Resizes(b, r, e, n)
    PROVE  /\ Sound(r)
           /\ Indexed(b) => Indexed(r)
           /\ SameIds(b, r)
<1>1. b \in Book /\ r \in Book /\ b.order[e] \in Order
    BY DEF Sound, Resizes, Book
<1>2. n \in Int /\ n > 0 /\ r.order = [b.order EXCEPT ![e] = [@ EXCEPT !.amount = n]]
    BY DEF Resizes
<1> DEFINE o == b.order[e]
<1>0. r.order[e] = [o EXCEPT !.amount = n]
    BY <1>1, <1>2 DEF Book
<1>3. /\ r.order[e] \in Order /\ r.order[e] # NoOrder
      /\ r.order[e].id = b.order[e].id /\ r.order[e].kind = b.order[e].kind
      /\ r.order[e].side = b.order[e].side /\ r.order[e].price = b.order[e].price /\ r.order[e].amount > 0
  <2>1. [o EXCEPT !.amount = n] \in Order
      BY <1>1, <1>2 DEF Order
  <2> QED BY <1>0, <1>1, <1>2, <2>1, NoOrderAssumption DEF Order
<1>4. \A x \in Elem \ {e} : r.order[x] = b.order[x]
    BY <1>1, <1>2 DEF Book
<1>5. ASSUME NEW s \in Side, NEW p \in Price PROVE LevelKnown(r, s, p)
    BY DEF Sound, Resizes, SameLevel, LevelKnown
<1>6. ASSUME NEW s \in Side, NEW p \in Price PROVE QueueOf(r, s, p)
  <2>1. \A i \in 1..Len(b.queue[s][p]) : b.queue[s][p][i] \in Elem
      BY <1>1 DEF Book
  <2>2. QueueOf(b, s, p) /\ r.queue[s][p] = b.queue[s][p]
      BY DEF Sound, Resizes, SameLevel
  <2>3. ASSUME NEW i \in 1..Len(b.queue[s][p])
        PROVE  LET ro == r.order[b.queue[s][p][i]] IN ro # NoOrder /\ ro.side = s /\ ro.price = p
    <3>1. PICK x, bo : x = b.queue[s][p][i] /\ bo = b.order[x]
        OBVIOUS
    <3>2. x \in Elem /\ bo # NoOrder /\ bo.side = s /\ bo.price = p
        BY <2>1, <2>2, <3>1 DEF QueueOf
    <3> QED BY <1>3, <1>4, <3>1, <3>2
  <2>4. InOrder(b.queue[s][p])
      BY <2>2 DEF QueueOf
  <2> QED BY <2>2, <2>3, <2>4 DEF QueueOf
<1>9. ASSUME NEW x \in Elem, r.order[x] # NoOrder PROVE CanRest(r.order[x]) /\ Queued(r, x)
  <2>1. /\ b.order[x] # NoOrder /\ CanRest(b.order[x]) /\ Queued(b, x)
      BY <1>4, <1>9 DEF Sound
  <2>2. /\ CanRest(r.order[x])
        /\ r.order[x].side = b.order[x].side /\ r.order[x].price = b.order[x].price
      BY <1>3, <1>4, <2>1 DEF CanRest
  <2>3. PICK s, p : s = b.order[x].side /\ p = b.order[x].price
      OBVIOUS
  <2>4. s \in Side /\ p \in Price
      BY <1>1, <2>1, <2>3 DEF CanRest, Book, Order
  <2>5. r.queue[s][p] = b.queue[s][p]
      BY <2>4 DEF Resizes, SameLevel
  <2> QED BY <2>1, <2>2, <2>3, <2>5 DEF Queued
<1>7. Sound(r)
    BY <1>1, <1>5, <1>6, <1>9 DEF Sound
<1>10. SameIds(b, r)
    BY <1>3, <1>4 DEF SameIds
<1>8. Indexed(b) => Indexed(r)
  <2>0. SUFFICES ASSUME Indexed(b) PROVE Indexed(r)
      OBVIOUS
  <2>1. r.index = b.index /\ SameIds(b, r) /\ \A id \in OrderID : b.index[id] \in Elem \cup {NoElem}
      BY <1>1, <1>10 DEF Resizes, Book
  <2>2. \A x \in Elem : r.order[x] # NoOrder => r.index[r.order[x].id] = x
      BY <2>0, <2>1 DEF Indexed, SameIds
  <2>3. ASSUME NEW id \in OrderID, r.index[id] # NoElem
        PROVE  r.order[r.index[id]] # NoOrder /\ r.order[r.index[id]].id = id
    <3>1. PICK x : x = b.index[id]
        OBVIOUS
    <3>2. x \in Elem /\ b.order[x] # NoOrder /\ b.order[x].id = id
        BY <2>0, <2>1, <2>3, <3>1 DEF Indexed
    <3> QED BY <2>1, <3>1, <3>2 DEF SameIds
  <2> QED BY <2>2, <2>3 DEF Indexed
<1> QED BY <1>7, <1>8, <1>10

-----------------------------------------------------------------------------
(* The operations on a book do these things                                *)

\* int64 sums are integers.
LEMMA WrapInt == ASSUME NEW n \in Int PROVE Wrap(n) \in Int
BY WidthAssumption DEF Wrap

\* A resting order is at a place of the book.
LEMMA RestingFacts ==
    ASSUME NEW b, Sound(b), NEW e \in Elem, b.order[e] # NoOrder
    PROVE  /\ b \in Book /\ b.order[e] \in Order /\ b.order[e].id \in OrderID
           /\ b.order[e].side \in Side /\ b.order[e].price \in Price
           /\ b.order[e].amount \in Int /\ b.order[e].amount > 0 /\ b.order[e].kind = "LIMIT"
BY DEF Sound, CanRest, Book, Order

\* A book with new values at one level, one element and one id; the level is
\* known, or is forgotten.
Updated(b, s, p, e, id, q, n, x, o, known) ==
    [levels |-> [b.levels EXCEPT ![s] = IF known THEN @ \cup {p} ELSE @ \ {p}],
     heap   |-> [b.heap EXCEPT ![s] = IF known THEN @ \cup {p} ELSE @ \ {p}],
     queue  |-> [b.queue EXCEPT ![s] = [@ EXCEPT ![p] = q]],
     total  |-> [b.total EXCEPT ![s] = [@ EXCEPT ![p] = n]],
     index  |-> [b.index EXCEPT ![id] = x],
     order  |-> [b.order EXCEPT ![e] = o]]

\* What such a book has, field by field.
Updates(b, r, s, p, e, id, q, n, x, o, known) ==
    /\ r \in Book
    /\ r.order = [b.order EXCEPT ![e] = o]
    /\ r.index = [b.index EXCEPT ![id] = x]
    /\ \A ss \in Side, pp \in Price : ss # s \/ pp # p => SameLevel(b, r, ss, pp)
    /\ r.queue[s][p] = q
    /\ r.total[s][p] = n
    /\ \A ss \in Side, pp \in Price : ss # s \/ pp # p => r.total[ss][pp] = b.total[ss][pp]
    /\ p \in r.heap[s] <=> known
    /\ p \in r.levels[s] <=> known

\* The first has what the second says.
LEMMA UpdateFacts ==
    ASSUME NEW b \in Book, NEW s \in Side, NEW p \in Price, NEW e \in Elem, NEW id \in OrderID,
           NEW q \in Seq(Elem), NEW n \in Int, NEW x \in Elem \cup {NoElem},
           NEW o \in Order \cup {NoOrder}, NEW known \in BOOLEAN
    PROVE  Updates(b, Updated(b, s, p, e, id, q, n, x, o, known), s, p, e, id, q, n, x, o, known)
<1>0. PICK r : r = Updated(b, s, p, e, id, q, n, x, o, known)
    OBVIOUS
<1>1. /\ b.levels \in [Side -> SUBSET Price] /\ b.heap \in [Side -> SUBSET Price]
      /\ b.queue \in [Side -> [Price -> Seq(Elem)]] /\ b.total \in [Side -> [Price -> Int]]
      /\ b.index \in [OrderID -> Elem \cup {NoElem}] /\ b.order \in [Elem -> Order \cup {NoOrder}]
    BY DEF Book
<1>2. r = [levels |-> [b.levels EXCEPT ![s] = IF known THEN @ \cup {p} ELSE @ \ {p}],
           heap   |-> [b.heap EXCEPT ![s] = IF known THEN @ \cup {p} ELSE @ \ {p}],
           queue  |-> [b.queue EXCEPT ![s] = [@ EXCEPT ![p] = q]],
           total  |-> [b.total EXCEPT ![s] = [@ EXCEPT ![p] = n]],
           index  |-> [b.index EXCEPT ![id] = x],
           order  |-> [b.order EXCEPT ![e] = o]]
    BY <1>0 DEF Updated
<1>3. r.levels \in [Side -> SUBSET Price] /\ r.heap \in [Side -> SUBSET Price]
    BY <1>1, <1>2
<1>4. r.queue \in [Side -> [Price -> Seq(Elem)]]
    BY <1>1, <1>2
<1>5. r.total \in [Side -> [Price -> Int]]
    BY <1>1, <1>2
<1>6. r.index \in [OrderID -> Elem \cup {NoElem}] /\ r.order \in [Elem -> Order \cup {NoOrder}]
    BY <1>1, <1>2
<1>7. r \in Book
    BY <1>2, <1>3, <1>4, <1>5, <1>6 DEF Book
<1>8. \A ss \in Side, pp \in Price : ss # s \/ pp # p => SameLevel(b, r, ss, pp)
    BY <1>1, <1>2 DEF SameLevel
<1>9. r.queue[s][p] = q /\ (p \in r.heap[s] <=> known) /\ (p \in r.levels[s] <=> known)
    BY <1>1, <1>2
<1>10. r.order = [b.order EXCEPT ![e] = o] /\ r.index = [b.index EXCEPT ![id] = x]
    BY <1>2
<1>11. r.total[s][p] = n
    BY <1>1, <1>2
<1>12. \A ss \in Side, pp \in Price : ss # s \/ pp # p => r.total[ss][pp] = b.total[ss][pp]
    BY <1>1, <1>2
<1> QED BY <1>0, <1>7, <1>8, <1>9, <1>10, <1>11, <1>12 DEF Updates

\* removeElement unlinks, whether the level stays or goes.
LEMMA RemoveElementUnlinks ==
    ASSUME NEW b, Sound(b), NEW e \in Elem, b.order[e] # NoOrder
    PROVE  Unlinks(b, RemoveElement(b, e), e)
<1>1. PICK o : o = b.order[e]
    OBVIOUS
<1>2. PICK s, p, old : s = o.side /\ p = o.price /\ old = b.queue[s][p]
    OBVIOUS
<1>3. /\ b \in Book /\ o \in Order /\ o.id \in OrderID /\ s \in Side /\ p \in Price
      /\ o.amount \in Int
    BY <1>1, <1>2, RestingFacts
<1>4. /\ b.queue \in [Side -> [Price -> Seq(Elem)]] /\ b.total \in [Side -> [Price -> Int]]
      /\ old \in Seq(Elem) /\ b.total[s][p] \in Int
    BY <1>2, <1>3 DEF Book
<1>5. PICK q : q = RemoveFirst(old, e)
    OBVIOUS
<1>6. /\ q \in Seq(Elem)
      /\ old = << >> => q = << >>
      /\ \A i \in 1..Len(q) : \E j \in 1..Len(old) : q[i] = old[j]
      /\ InOrder(old) => /\ InOrder(q) /\ \A i \in 1..Len(q) : q[i] # e
                         /\ \A j \in 1..Len(old) : old[j] # e => \E i \in 1..Len(q) : q[i] = old[j]
  <2>1. old \in Seq(Elem)
      BY <1>4
  <2>2. RemoveFirst(old, e) \in Seq(Elem)
      BY <2>1, RemoveFirstFacts
  <2>3. \A i \in 1..Len(RemoveFirst(old, e)) : \E j \in 1..Len(old) : RemoveFirst(old, e)[i] = old[j]
      BY <2>1, RemoveFirstFacts
  <2>4. InOrder(old) => /\ InOrder(RemoveFirst(old, e))
                        /\ \A i \in 1..Len(RemoveFirst(old, e)) : RemoveFirst(old, e)[i] # e
                        /\ \A j \in 1..Len(old) : old[j] # e =>
                              \E i \in 1..Len(RemoveFirst(old, e)) : RemoveFirst(old, e)[i] = old[j]
      BY <2>1, RemoveFirstFacts
  <2>5. q \in Seq(Elem) /\ \A i \in 1..Len(q) : \E j \in 1..Len(old) : q[i] = old[j]
      BY <1>5, <2>2, <2>3
  <2>6. InOrder(old) => /\ InOrder(q) /\ \A i \in 1..Len(q) : q[i] # e
                        /\ \A j \in 1..Len(old) : old[j] # e => \E i \in 1..Len(q) : q[i] = old[j]
      BY <1>5, <2>4, Zenon
  <2>7. old = << >> => q = << >>
    <3> SUFFICES ASSUME old = << >>, q # << >> PROVE FALSE
        OBVIOUS
    <3>1. 1 \in 1..Len(q)
        BY <2>5
    <3> QED BY <2>5, <3>1
  <2> QED BY <2>5, <2>6, <2>7
<1>7. LevelKnown(b, s, p) /\ InOrder(old)
  <2>1. LevelKnown(b, s, p) /\ QueueOf(b, s, p)
      BY <1>2, <1>3 DEF Sound
  <2>2. InOrder(b.queue[s][p])
      BY <2>1 DEF QueueOf
  <2> QED BY <1>2, <2>1, <2>2
<1>8. PICK n : n = Wrap(b.total[s][p] - o.amount)
    OBVIOUS
<1>9. n \in Int
  <2>1. b.total[s][p] - o.amount \in Int
      BY <1>3, <1>4
  <2> QED BY <1>8, <2>1, WrapInt
<1>10. PICK u : u = Unlink(b, e)
    OBVIOUS
<1>11. u = [levels |-> b.levels, heap |-> b.heap,
            queue |-> [b.queue EXCEPT ![s] = [@ EXCEPT ![p] = q]],
            total |-> [b.total EXCEPT ![s] = [@ EXCEPT ![p] = n]],
            index |-> [b.index EXCEPT ![o.id] = NoElem],
            order |-> [b.order EXCEPT ![e] = NoOrder]]
  <2>0. PICK id, m : id = o.id /\ m = o.amount
      OBVIOUS
  <2>1. PICK b1 : b1 = [b EXCEPT !.queue[s][p] = RemoveFirst(@, e)]
      OBVIOUS
  <2>2. PICK b2 : b2 = [b1 EXCEPT !.index[id] = NoElem]
      OBVIOUS
  <2>3. PICK b3 : b3 = [b2 EXCEPT !.total[s][p] = Wrap(@ - m)]
      OBVIOUS
  <2>4. PICK b4 : b4 = [b3 EXCEPT !.order[e] = NoOrder]
      OBVIOUS
  <2>5. [b EXCEPT !.queue[s][p] = RemoveFirst(@, e), !.index[id] = NoElem] = b2
      BY <2>1, <2>2, Zenon
  <2>6. [b EXCEPT !.queue[s][p] = RemoveFirst(@, e), !.index[id] = NoElem,
                  !.total[s][p] = Wrap(@ - m)] = b3
      BY <2>3, <2>5, Zenon
  <2>7. [b EXCEPT !.queue[s][p] = RemoveFirst(@, e), !.index[id] = NoElem,
                  !.total[s][p] = Wrap(@ - m), !.order[e] = NoOrder] = b4
      BY <2>4, <2>6, Zenon
  <2>8. Unlink(b, e) = b4
      BY <1>1, <1>2, <2>0, <2>7, Zenon DEF Unlink
  <2>9. b1 = [b EXCEPT !.queue[s][p] = q]
      BY <1>2, <1>5, <2>1
  <2>10. b1 = [levels |-> b.levels, heap |-> b.heap,
               queue |-> [b.queue EXCEPT ![s] = [@ EXCEPT ![p] = q]],
               total |-> b.total, index |-> b.index, order |-> b.order]
      BY <1>3, <2>9 DEF Book
  <2>11. b2.total = b.total
      BY <2>2, <2>10
  <2>12. b3 = [b2 EXCEPT !.total[s][p] = n]
      BY <1>8, <2>0, <2>3, <2>11
  <2>13. b4 = [levels |-> b1.levels, heap |-> b1.heap, queue |-> b1.queue,
               total |-> [b1.total EXCEPT ![s] = [@ EXCEPT ![p] = n]],
               index |-> [b1.index EXCEPT ![id] = NoElem],
               order |-> [b1.order EXCEPT ![e] = NoOrder]]
      BY <2>2, <2>4, <2>10, <2>12
  <2> QED BY <1>10, <2>0, <2>8, <2>10, <2>13
<1>12. u.queue[s][p] = q
    BY <1>3, <1>4, <1>11
<1>13. PICK r : r = RemoveElement(b, e)
    OBVIOUS
<1>14. r = IF q = << >> THEN DropPriceLevel(u, s, p) ELSE u
  <2>1. r = IF u.queue[o.side][o.price] = << >> THEN DropPriceLevel(u, o.side, o.price) ELSE u
      BY <1>1, <1>10, <1>13 DEF RemoveElement
  <2> QED BY <1>2, <1>12, <2>1
<1>15. PICK total : total = IF q = << >> THEN 0 ELSE n
    OBVIOUS
<1>16. r = Updated(b, s, p, e, o.id, q, total, NoElem, NoOrder, q # << >>)
  <2>1. CASE q = << >>
    <3>1. r = [u EXCEPT !.heap[s] = @ \ {p}, !.levels[s] = @ \ {p},
                        !.queue[s][p] = << >>, !.total[s][p] = 0]
        BY <1>14, <2>1 DEF DropPriceLevel
    <3>2. [u.queue EXCEPT ![s] = [@ EXCEPT ![p] = << >>]] = u.queue
        BY <1>3, <1>4, <1>11, <2>1
    <3>3. [u.total EXCEPT ![s] = [@ EXCEPT ![p] = 0]] = [b.total EXCEPT ![s] = [@ EXCEPT ![p] = 0]]
        BY <1>3, <1>4, <1>11
    <3>4. r = [levels |-> [b.levels EXCEPT ![s] = @ \ {p}],
               heap   |-> [b.heap EXCEPT ![s] = @ \ {p}],
               queue  |-> u.queue,
               total  |-> [b.total EXCEPT ![s] = [@ EXCEPT ![p] = 0]],
               index  |-> u.index, order |-> u.order]
        BY <1>11, <3>1, <3>2, <3>3
    <3> QED BY <1>11, <1>15, <2>1, <3>4 DEF Updated
  <2>2. CASE q # << >>
    <3>1. p \in b.heap[s] /\ p \in b.levels[s]
        BY <1>2, <1>6, <1>7, <2>2 DEF LevelKnown
    <3>2. /\ [b.levels EXCEPT ![s] = @ \cup {p}] = b.levels
          /\ [b.heap EXCEPT ![s] = @ \cup {p}] = b.heap
        BY <1>3, <3>1 DEF Book
    <3>3. r = u /\ total = n
        BY <1>14, <1>15, <2>2
    <3> QED BY <1>11, <2>2, <3>2, <3>3 DEF Updated
  <2> QED BY <2>1, <2>2
<1>17. Updates(b, r, s, p, e, o.id, q, total, NoElem, NoOrder, q # << >>)
  <2>1. total \in Int /\ (q # << >>) \in BOOLEAN /\ NoElem \in Elem \cup {NoElem}
        /\ NoOrder \in Order \cup {NoOrder}
      BY <1>9, <1>15
  <2> QED BY <1>3, <1>6, <1>16, <2>1, UpdateFacts
<1>18. LevelKnown(r, s, p) /\ InOrder(q) /\ r.queue[s][p] = q
    BY <1>6, <1>7, <1>17 DEF LevelKnown, Updates
<1>19. /\ \A i \in 1..Len(q) : q[i] # e /\ \E j \in 1..Len(old) : q[i] = old[j]
       /\ \A j \in 1..Len(old) : old[j] # e => \E i \in 1..Len(q) : q[i] = old[j]
    BY <1>6, <1>7
<1> DEFINE ro == b.order[e]
<1>20. ro.side = s /\ ro.price = p /\ ro.id = o.id
    BY <1>1, <1>2
<1>21. /\ r \in Book
       /\ r.order = [b.order EXCEPT ![e] = NoOrder]
       /\ r.index = [b.index EXCEPT ![o.id] = NoElem]
       /\ \A ss \in Side, pp \in Price : ss # s \/ pp # p => SameLevel(b, r, ss, pp)
    BY <1>17 DEF Updates
<1>22. Unlinks(b, r, e)
  <2>1. /\ LevelKnown(r, ro.side, ro.price)
        /\ InOrder(r.queue[ro.side][ro.price])
        /\ r.index = [b.index EXCEPT ![ro.id] = NoElem]
        /\ \A ss \in Side, pp \in Price : ss # ro.side \/ pp # ro.price => SameLevel(b, r, ss, pp)
      BY <1>18, <1>20, <1>21
  <2>2. r.queue[ro.side][ro.price] = q /\ b.queue[ro.side][ro.price] = old
      BY <1>2, <1>18, <1>20
  <2>3. /\ \A i \in 1..Len(r.queue[ro.side][ro.price]) :
              /\ r.queue[ro.side][ro.price][i] # e
              /\ \E j \in 1..Len(b.queue[ro.side][ro.price]) :
                    r.queue[ro.side][ro.price][i] = b.queue[ro.side][ro.price][j]
        /\ \A j \in 1..Len(b.queue[ro.side][ro.price]) :
              b.queue[ro.side][ro.price][j] # e =>
                 \E i \in 1..Len(r.queue[ro.side][ro.price]) :
                    r.queue[ro.side][ro.price][i] = b.queue[ro.side][ro.price][j]
      BY <1>19, <2>2, Zenon
  <2>4. TotalMoves(b, r, s, p, -o.amount)
    <3>1. b.total[s][p] - o.amount = b.total[s][p] + (-o.amount)
        BY <1>3, <1>4
    <3>2. r.queue[s][p] = q /\ r.total[s][p] = total
          /\ \A ss \in Side, pp \in Price : ss # s \/ pp # p => r.total[ss][pp] = b.total[ss][pp]
        BY <1>17 DEF Updates
    <3>3. (total = 0 /\ q = << >>) \/ total = Wrap(b.total[s][p] + (-o.amount))
        BY <1>8, <1>15, <3>1
    <3> QED BY <3>2, <3>3 DEF TotalMoves
  <2>5. TotalMoves(b, r, ro.side, ro.price, -ro.amount)
      BY <1>1, <1>20, <2>4
  <2> QED BY <1>21, <2>1, <2>3, <2>5 DEF Unlinks
<1> QED BY <1>13, <1>22

\* AddOrder links, whether it finds the level or creates it.
LEMMA AddOrderLinks ==
    ASSUME NEW b, Sound(b), NEW e \in Elem, NEW o \in Order, CanRest(o)
    PROVE  Links(b, AddOrder(b, e, o), e, o)
<1>1. PICK s, p, id, m : s = o.side /\ p = o.price /\ id = o.id /\ m = o.amount
    OBVIOUS
<1>2. /\ b \in Book /\ s \in Side /\ p \in Price /\ id \in OrderID /\ m \in Int
    BY <1>1 DEF Sound, CanRest, Order
<1>3. PICK old, q : old = b.queue[s][p] /\ q = Append(old, e)
    OBVIOUS
<1>4. /\ b.queue \in [Side -> [Price -> Seq(Elem)]] /\ b.total \in [Side -> [Price -> Int]]
      /\ b.levels \in [Side -> SUBSET Price] /\ b.heap \in [Side -> SUBSET Price]
      /\ old \in Seq(Elem) /\ b.total[s][p] \in Int
    BY <1>2, <1>3 DEF Book
<1>5. q \in Seq(Elem) /\ q # << >>
  <2>1. old \in Seq(Elem)
      BY <1>4
  <2> QED BY <1>3, <2>1
<1>6. PICK n : n = Wrap(b.total[s][p] + m)
    OBVIOUS
<1>7. n \in Int
  <2>1. b.total[s][p] + m \in Int
      BY <1>2, <1>4
  <2> QED BY <1>6, <2>1, WrapInt
<1>8. PICK r : r = AddOrder(b, e, o)
    OBVIOUS
<1>9. r = [levels |-> [b.levels EXCEPT ![s] = @ \cup {p}],
           heap   |-> [b.heap EXCEPT ![s] = IF p \in b.levels[s] THEN @ ELSE @ \cup {p}],
           queue  |-> [b.queue EXCEPT ![s] = [@ EXCEPT ![p] = q]],
           total  |-> [b.total EXCEPT ![s] = [@ EXCEPT ![p] = n]],
           index  |-> [b.index EXCEPT ![id] = e],
           order  |-> [b.order EXCEPT ![e] = o]]
  <2>1. PICK b1 : b1 = [b EXCEPT !.levels[s] = @ \cup {p}]
      OBVIOUS
  <2>2. PICK b2 : b2 = [b1 EXCEPT !.heap[s] = IF p \in b.levels[s] THEN @ ELSE @ \cup {p}]
      OBVIOUS
  <2>3. PICK b3 : b3 = [b2 EXCEPT !.queue[s][p] = Append(@, e)]
      OBVIOUS
  <2>4. PICK b4 : b4 = [b3 EXCEPT !.total[s][p] = Wrap(@ + m)]
      OBVIOUS
  <2>5. PICK b5 : b5 = [b4 EXCEPT !.index[id] = e]
      OBVIOUS
  <2>6. PICK b6 : b6 = [b5 EXCEPT !.order[e] = o]
      OBVIOUS
  <2>7. [b EXCEPT !.levels[s] = @ \cup {p},
                  !.heap[s] = IF p \in b.levels[s] THEN @ ELSE @ \cup {p}] = b2
      BY <2>1, <2>2, Zenon
  <2>8. [b EXCEPT !.levels[s] = @ \cup {p},
                  !.heap[s] = IF p \in b.levels[s] THEN @ ELSE @ \cup {p},
                  !.queue[s][p] = Append(@, e)] = b3
      BY <2>3, <2>7, Zenon
  <2>9. [b EXCEPT !.levels[s] = @ \cup {p},
                  !.heap[s] = IF p \in b.levels[s] THEN @ ELSE @ \cup {p},
                  !.queue[s][p] = Append(@, e), !.total[s][p] = Wrap(@ + m)] = b4
      BY <2>4, <2>8, Zenon
  <2>10. [b EXCEPT !.levels[s] = @ \cup {p},
                   !.heap[s] = IF p \in b.levels[s] THEN @ ELSE @ \cup {p},
                   !.queue[s][p] = Append(@, e), !.total[s][p] = Wrap(@ + m), !.index[id] = e] = b5
      BY <2>5, <2>9, Zenon
  <2>11. [b EXCEPT !.levels[s] = @ \cup {p},
                   !.heap[s] = IF p \in b.levels[s] THEN @ ELSE @ \cup {p},
                   !.queue[s][p] = Append(@, e), !.total[s][p] = Wrap(@ + m), !.index[id] = e,
                   !.order[e] = o] = b6
      BY <2>6, <2>10, Zenon
  <2>12. r = b6
      BY <1>1, <1>8, <2>11, Zenon DEF AddOrder
  <2>13. b1 = [levels |-> [b.levels EXCEPT ![s] = @ \cup {p}], heap |-> b.heap,
               queue |-> b.queue, total |-> b.total, index |-> b.index, order |-> b.order]
      BY <1>2, <2>1 DEF Book
  <2>14. b2 = [b1 EXCEPT !.heap = [b.heap EXCEPT ![s] = IF p \in b.levels[s] THEN @ ELSE @ \cup {p}]]
      BY <2>2, <2>13
  <2>15. b2.queue[s][p] = old /\ b2.total = b.total
      BY <1>3, <2>13, <2>14
  <2>16. b3 = [b2 EXCEPT !.queue[s][p] = q]
      BY <1>3, <2>3, <2>15
  <2>17. b3 = [levels |-> b1.levels, heap |-> b2.heap,
               queue |-> [b.queue EXCEPT ![s] = [@ EXCEPT ![p] = q]],
               total |-> b.total, index |-> b.index, order |-> b.order]
      BY <2>13, <2>14, <2>16
  <2>18. b4 = [b3 EXCEPT !.total[s][p] = n]
      BY <1>6, <2>4, <2>17
  <2>19. b6 = [levels |-> b3.levels, heap |-> b3.heap, queue |-> b3.queue,
               total |-> [b3.total EXCEPT ![s] = [@ EXCEPT ![p] = n]],
               index |-> [b3.index EXCEPT ![id] = e],
               order |-> [b3.order EXCEPT ![e] = o]]
      BY <2>5, <2>6, <2>17, <2>18
  <2> QED BY <2>12, <2>13, <2>14, <2>17, <2>19
<1>10. LevelKnown(b, s, p)
    BY <1>2 DEF Sound
<1>11. [b.heap EXCEPT ![s] = IF p \in b.levels[s] THEN @ ELSE @ \cup {p}]
       = [b.heap EXCEPT ![s] = @ \cup {p}]
    BY <1>2, <1>4, <1>10 DEF LevelKnown
<1>12. r = Updated(b, s, p, e, id, q, n, e, o, TRUE)
    BY <1>9, <1>11 DEF Updated
<1>13. Updates(b, r, s, p, e, id, q, n, e, o, TRUE)
    BY <1>2, <1>5, <1>7, <1>12, UpdateFacts
<1>14. TotalMoves(b, r, s, p, m)
    BY <1>6, <1>13 DEF Updates, TotalMoves
<1> QED BY <1>1, <1>3, <1>5, <1>8, <1>13, <1>14 DEF Links, LevelKnown, Updates

\* An edit that changes the quantity of an order and keeps its place.
LEMMA AmountResizes ==
    ASSUME NEW b, Sound(b), NEW e \in Elem, b.order[e] # NoOrder,
           NEW n \in Int, n > 0, NEW d, NEW s, NEW p,
           s = b.order[e].side, p = b.order[e].price, d = n - b.order[e].amount,
           NEW o, o = [b.order[e] EXCEPT !.amount = n]
    PROVE  Resizes(b, [b EXCEPT !.order[e] = o, !.total[s][p] = Wrap(@ + d)], e, n)
<1>1. PICK r, m : r = [b EXCEPT !.order[e] = o, !.total[s][p] = Wrap(@ + d)] /\ m = Wrap(b.total[s][p] + d)
    OBVIOUS
<1>2. /\ b \in Book /\ b.order[e] \in Order
      /\ b.total \in [Side -> [Price -> Int]] /\ b.total[s][p] \in Int
      /\ b.order \in [Elem -> Order \cup {NoOrder}]
      /\ s \in Side /\ p \in Price /\ d \in Int
  <2>1. b \in Book /\ b.order[e] \in Order /\ s \in Side /\ p \in Price /\ d \in Int
      BY RestingFacts
  <2> QED BY <2>1 DEF Book
<1>3. m \in Int
  <2>1. b.total[s][p] + d \in Int
      BY <1>2
  <2> QED BY <1>1, <2>1, WrapInt
<1>4. r = [levels |-> b.levels, heap |-> b.heap, queue |-> b.queue,
           total |-> [b.total EXCEPT ![s] = [@ EXCEPT ![p] = m]],
           index |-> b.index, order |-> [b.order EXCEPT ![e] = o]]
  <2>1. PICK b1 : b1 = [b EXCEPT !.order[e] = o]
      OBVIOUS
  <2>2. r = [b1 EXCEPT !.total[s][p] = Wrap(@ + d)]
      BY <1>1, <2>1, Zenon
  <2>3. b1 = [levels |-> b.levels, heap |-> b.heap, queue |-> b.queue, total |-> b.total,
              index |-> b.index, order |-> [b.order EXCEPT ![e] = o]]
      BY <1>2, <2>1 DEF Book
  <2>4. r = [b1 EXCEPT !.total[s][p] = m]
      BY <1>1, <2>2, <2>3
  <2> QED BY <2>3, <2>4
<1>5. o \in Order
    BY <1>2 DEF Order
<1>6. r.total \in [Side -> [Price -> Int]] /\ r.order \in [Elem -> Order \cup {NoOrder}]
    BY <1>2, <1>3, <1>4, <1>5
<1>7. r \in Book
    BY <1>2, <1>4, <1>6 DEF Book
<1>8. r.order = [b.order EXCEPT ![e] = [@ EXCEPT !.amount = n]] /\ r.index = b.index
    BY <1>4
<1>9. \A ss \in Side, pp \in Price : SameLevel(b, r, ss, pp)
    BY <1>4 DEF SameLevel
<1>10. TotalMoves(b, r, s, p, d)
  <2>0. r.total = [b.total EXCEPT ![s] = [@ EXCEPT ![p] = m]]
      BY <1>4
  <2>1. r.total[s][p] = m
      BY <1>2, <2>0
  <2>2. \A ss \in Side, pp \in Price : ss # s \/ pp # p => r.total[ss][pp] = b.total[ss][pp]
      BY <1>2, <2>0
  <2> QED BY <1>1, <2>1, <2>2 DEF TotalMoves
<1> QED BY <1>1, <1>7, <1>8, <1>9, <1>10 DEF Resizes

\* What an edit does: nothing, or it takes the order out, or moves it to the
\* end of its queue, or gives it another quantity where it is.
EditsOrder(b, edit, e, at) ==
    /\ at \in Elem /\ edit.before = b.order[at] /\ edit.before \in Order
    /\ edit.after \in Order /\ CanRest(edit.after)
    /\ edit.after = [edit.before EXCEPT !.price = edit.after.price, !.amount = edit.after.amount]
    /\ edit.after.amount \in Amount \cup {edit.before.amount}
    /\ \/ /\ edit.rematch /\ edit.after.price # edit.before.price
          /\ Unlinks(b, edit.book, at)
       \/ /\ ~edit.rematch /\ edit.after.price = edit.before.price
          /\ edit.after.amount < edit.before.amount
          /\ Resizes(b, edit.book, at, edit.after.amount)
       \/ /\ ~edit.rematch /\ edit.after.price = edit.before.price
          /\ edit.after.amount > edit.before.amount
          /\ \E mid : Unlinks(b, mid, at) /\ Sound(mid) /\ Links(mid, edit.book, e, edit.after)

\* EditOrderAt does one of these, or nothing.
LEMMA EditFacts ==
    ASSUME NEW b, Sound(b), NEW e \in Elem, NEW id \in OrderID, NEW price \in Price,
           NEW amount \in Amount \cup {NoAmount}
    PROVE  LET edit == EditOrder(b, e, id, price, amount)
           IN  edit = NoEdit(b) \/ EditsOrder(b, edit, e, b.index[id])
<1>1. PICK edit : edit = EditOrder(b, e, id, price, amount)
    OBVIOUS
<1>2. SUFFICES ASSUME edit # NoEdit(b) PROVE EditsOrder(b, edit, e, b.index[id])
    BY <1>1
<1>3. Located(b, id)
    BY <1>1, <1>2 DEF EditOrder
<1>4. PICK at, before : at = b.index[id] /\ before = b.order[at]
    OBVIOUS
<1>5. /\ b \in Book /\ at \in Elem /\ before # NoOrder /\ before \in Order /\ CanRest(before)
      /\ before.amount \in Int /\ before.side \in Side /\ before.price \in Price
  <2>1. b \in Book /\ at \in Elem /\ before # NoOrder
      BY <1>3, <1>4 DEF Located, Sound, Book
  <2> QED BY <1>4, <2>1, RestingFacts DEF Sound
<1>6. PICK target : target = IF amount = NoAmount THEN before.amount ELSE amount
    OBVIOUS
<1>7. target \in Int /\ target > 0 /\ target \in Amount \cup {before.amount}
    BY <1>5, <1>6, WidthAssumption DEF CanRest
<1>8. PICK after : after = [before EXCEPT !.price = price, !.amount = target]
    OBVIOUS
<1>9. /\ after \in Order /\ CanRest(after) /\ after.id = before.id /\ after.side = before.side
      /\ after.price = price /\ after.amount = target
      /\ after = [before EXCEPT !.price = after.price, !.amount = after.amount]
    BY <1>5, <1>7, <1>8 DEF Order, CanRest
<1>10. Unlinks(b, RemoveElement(b, at), at)
    BY <1>4, <1>5, RemoveElementUnlinks
<1>11. Sound(RemoveElement(b, at))
    BY <1>4, <1>5, <1>10, UnlinkKeeps
<1>12. CASE price # before.price
  <2>1. edit = [book |-> RemoveElement(b, at), before |-> before, after |-> after, rematch |-> TRUE]
      BY <1>1, <1>3, <1>4, <1>6, <1>8, <1>12, Zenon DEF EditOrder
  <2> QED BY <1>4, <1>5, <1>7, <1>9, <1>10, <1>12, <2>1 DEF EditsOrder
<1>13. CASE price = before.price /\ target > before.amount
  <2>1. edit = [book |-> AddOrder(RemoveElement(b, at), e, after), before |-> before, after |-> after,
                rematch |-> FALSE]
      BY <1>1, <1>3, <1>4, <1>6, <1>8, <1>13, Zenon DEF EditOrder
  <2>2. Links(RemoveElement(b, at), edit.book, e, edit.after)
      BY <1>9, <1>11, <2>1, AddOrderLinks
  <2> QED BY <1>4, <1>5, <1>7, <1>9, <1>10, <1>11, <1>13, <2>1, <2>2 DEF EditsOrder
<1>14. CASE price = before.price /\ ~(target > before.amount) /\ target < before.amount
  <2>1. edit = [book |-> [b EXCEPT !.order[at] = after,
                                   !.total[before.side][price] = Wrap(@ + (target - before.amount))],
                before |-> before, after |-> after, rematch |-> FALSE]
      BY <1>1, <1>3, <1>4, <1>6, <1>8, <1>14, Zenon DEF EditOrder
  <2>2. after = [b.order[at] EXCEPT !.amount = target]
      BY <1>4, <1>5, <1>8, <1>14 DEF Order
  <2>3. Resizes(b, edit.book, at, target)
    <3>1. PICK d, s : d = target - before.amount /\ s = before.side
        OBVIOUS
    <3>2. d \in Int /\ s \in Side
        BY <1>5, <1>7, <3>1
    <3>3. Resizes(b, [b EXCEPT !.order[at] = after, !.total[s][price] = Wrap(@ + d)], at, target)
        BY <1>4, <1>5, <1>7, <1>14, <2>2, <3>1, <3>2, AmountResizes
    <3> QED BY <2>1, <3>1, <3>3, Zenon
  <2> QED BY <1>4, <1>5, <1>7, <1>9, <1>14, <2>1, <2>3 DEF EditsOrder
<1>15. CASE price = before.price /\ ~(target > before.amount) /\ ~(target < before.amount)
    BY <1>1, <1>2, <1>3, <1>4, <1>6, <1>8, <1>15, Zenon DEF EditOrder
<1> QED BY <1>12, <1>13, <1>14, <1>15

\* The best level of the opposite side is one of its levels.
LEMMA BestIsLevel ==
    ASSUME NEW b, Sound(b), NEW o \in Order, b.heap[Opposite(o.side)] # {}
    PROVE  /\ OppositeBest(b, o) \in Price
           /\ OppositeBest(b, o) \in b.heap[Opposite(o.side)]
<1>1. b.heap["BID"] \subseteq 1..MaxInt64 /\ b.heap["ASK"] \subseteq Nat /\ MaxInt64 \in Nat
      /\ b.heap["BID"] \subseteq Price /\ b.heap["ASK"] \subseteq Price
  <2>1. b.heap \in [Side -> SUBSET Price] /\ "BID" \in Side /\ "ASK" \in Side
      BY DEF Sound, Book, Side
  <2>2. b.heap["BID"] \subseteq Price /\ b.heap["ASK"] \subseteq Price
      BY <2>1
  <2>3. MaxInt64 \in Nat /\ Price \subseteq 1..MaxInt64
      BY WidthAssumption
  <2>4. \A x \in 1..MaxInt64 : x \in Nat
      BY <2>3
  <2>5. Price \subseteq Nat
      BY <2>3, <2>4, Zenon
  <2> QED BY <2>2, <2>3, <2>5, Zenon
<1>2. o.side = "BID" \/ o.side = "ASK"
    BY DEF Order, Side
<1>3. CASE o.side = "BID"
  <2>1. b.heap["ASK"] # {}
      BY <1>3 DEF Opposite
  <2>2. Min(b.heap["ASK"]) \in b.heap["ASK"]
      BY <1>1, <2>1, MinIn
  <2> QED BY <1>1, <1>3, <2>2 DEF OppositeBest, BestAsk, Opposite
<1>4. CASE o.side = "ASK"
  <2>1. b.heap["BID"] # {}
      BY <1>4 DEF Opposite
  <2>2. Max(b.heap["BID"]) \in b.heap["BID"]
      BY <1>1, <2>1, MaxIn
  <2> QED BY <1>1, <1>4, <2>2 DEF OppositeBest, BestBid, Opposite
<1> QED BY <1>2, <1>3, <1>4

\* The maker of a fill rests at the best level, and both sides have the
\* quantity that is traded.
LEMMA FillFacts ==
    ASSUME NEW b, Sound(b), NEW o \in Order, CanFill(b, o)
    PROVE  /\ MakerElem(b, o) \in Elem
           /\ Maker(b, o) = b.order[MakerElem(b, o)]
           /\ Maker(b, o) # NoOrder /\ Maker(b, o) \in Order
           /\ Maker(b, o).side = Opposite(o.side) /\ Maker(b, o).price = OppositeBest(b, o)
           /\ OppositeBest(b, o) \in Price
           /\ TradeAmount(b, o) \in Int /\ TradeAmount(b, o) > 0
           /\ TradeAmount(b, o) <= o.amount /\ TradeAmount(b, o) <= Maker(b, o).amount
<1>1. PICK s, p, e, m, n : /\ s = Opposite(o.side) /\ p = OppositeBest(b, o)
                           /\ e = MakerElem(b, o) /\ m = Maker(b, o) /\ n = TradeAmount(b, o)
    OBVIOUS
<1>2. s \in Side /\ b \in Book
    BY <1>1 DEF Opposite, Side, Sound
<1>3. p \in Price
    BY <1>1, BestIsLevel DEF CanFill
<1>4. PICK q : q = b.queue[s][p]
    OBVIOUS
<1>5. q \in Seq(Elem) /\ q # << >> /\ e = Head(q)
    BY <1>1, <1>2, <1>3, <1>4 DEF CanFill, MakerElem, Book
<1>6. e \in Elem /\ 1 \in 1..Len(q) /\ e = q[1]
    BY <1>5
<1>7. m = b.order[e] /\ m # NoOrder /\ m.side = s /\ m.price = p
  <2>1. QueueOf(b, s, p)
      BY <1>2, <1>3 DEF Sound
  <2>2. m = b.order[q[1]]
      BY <1>1, <1>6 DEF Maker
  <2> QED BY <1>4, <1>6, <2>1, <2>2 DEF QueueOf
<1>8. m \in Order /\ m.amount \in Int /\ m.amount > 0
    BY <1>6, <1>7, RestingFacts
<1>9. o.amount \in Int /\ o.amount > 0
    BY DEF CanFill, Order
<1>10. n = IF o.amount < m.amount THEN o.amount ELSE m.amount
    BY <1>1 DEF TradeAmount
<1> QED BY <1>1, <1>3, <1>6, <1>7, <1>8, <1>9, <1>10

\* A fill unlinks the maker it consumes and resizes the one it does not.
LEMMA FillUpdates ==
    ASSUME NEW b, Sound(b), NEW o \in Order, CanFill(b, o)
    PROVE  \/ /\ MakerFill(b, o).remaining <= 0
              /\ Unlinks(b, BookAfterFill(b, o), MakerElem(b, o))
           \/ /\ MakerFill(b, o).remaining > 0
              /\ Resizes(b, BookAfterFill(b, o), MakerElem(b, o), MakerFill(b, o).remaining)
<1> DEFINE s == Opposite(o.side)
           p == OppositeBest(b, o)
           e == MakerElem(b, o)
           f == MakerFill(b, o)
           id == f.order.id
           left == f.remaining
           traded == f.filled
           r == BookAfterFill(b, o)
           u == [b EXCEPT
                    !.order[e] = IF left <= 0 THEN NoOrder ELSE [@ EXCEPT !.amount = left],
                    !.total[s][p] = Wrap(@ - traded),
                    !.queue[s][p] = IF left <= 0 THEN Tail(@) ELSE @,
                    !.index[id] = IF left <= 0 THEN NoElem ELSE @]
<1>E2. r = IF u.queue[s][p] = << >> THEN DropPriceLevel(u, s, p) ELSE u
    BY Zenon DEF BookAfterFill
<1>E1. u = [b EXCEPT
            !.order[e] = IF left <= 0 THEN NoOrder ELSE [@ EXCEPT !.amount = left],
            !.total[s][p] = Wrap(@ - traded),
            !.queue[s][p] = IF left <= 0 THEN Tail(@) ELSE @,
            !.index[id] = IF left <= 0 THEN NoElem ELSE @]
    BY Zenon
<1>E3. /\ s = Opposite(o.side) /\ p = OppositeBest(b, o) /\ e = MakerElem(b, o)
       /\ f = MakerFill(b, o) /\ r = BookAfterFill(b, o)
    BY Zenon
<1>E4. id = f.order.id /\ left = f.remaining /\ traded = f.filled
    BY Zenon
<1> HIDE DEF s, p, e, f, id, left, traded, r, u
<1>1. PICK m : /\ s = Opposite(o.side) /\ p = OppositeBest(b, o) /\ e = MakerElem(b, o)
               /\ f = MakerFill(b, o) /\ r = BookAfterFill(b, o) /\ m = Maker(b, o)
    BY <1>E3
<1>2. id = m.id /\ left = f.remaining /\ traded = f.filled
    BY <1>1, <1>E4 DEF MakerFill
<1>3. /\ b \in Book /\ s \in Side /\ p \in Price /\ e \in Elem /\ m \in Order /\ m # NoOrder
      /\ m = b.order[e] /\ m.side = s /\ m.price = p /\ id \in OrderID
      /\ left \in Int /\ left >= 0 /\ traded \in Int /\ f.order = m
  <2>1. b \in Book /\ s \in Side
      BY <1>1 DEF Opposite, Side, Sound
  <2>2. /\ p \in Price /\ e \in Elem /\ m \in Order /\ m # NoOrder
        /\ m = b.order[e] /\ m.side = s /\ m.price = p
        /\ TradeAmount(b, o) \in Int /\ TradeAmount(b, o) <= m.amount
      BY <1>1, FillFacts
  <2>3. /\ f.order = m /\ left = m.amount - TradeAmount(b, o) /\ traded = TradeAmount(b, o)
      BY <1>1, <1>2 DEF MakerFill
  <2>4. m.amount \in Int /\ id \in OrderID
      BY <1>2, <2>2 DEF Order
  <2> QED BY <2>1, <2>2, <2>3, <2>4
<1>4. PICK old : old = b.queue[s][p]
    OBVIOUS
<1>5. /\ b.queue \in [Side -> [Price -> Seq(Elem)]] /\ b.total \in [Side -> [Price -> Int]]
      /\ old \in Seq(Elem) /\ b.total[s][p] \in Int
      /\ b.order \in [Elem -> Order \cup {NoOrder}] /\ b.index \in [OrderID -> Elem \cup {NoElem}]
    BY <1>3, <1>4 DEF Book
<1>6. old # << >> /\ e = Head(old)
    BY <1>1, <1>4 DEF CanFill, MakerElem
<1>7. PICK n : n = Wrap(b.total[s][p] - traded)
    OBVIOUS
<1>8. n \in Int
  <2>1. b.total[s][p] - traded \in Int
      BY <1>3, <1>5
  <2> QED BY <1>7, <2>1, WrapInt
<1>9. LevelKnown(b, s, p) /\ InOrder(old)
  <2>1. LevelKnown(b, s, p) /\ QueueOf(b, s, p)
      BY <1>3, <1>4 DEF Sound
  <2> QED BY <1>4, <2>1 DEF QueueOf
<1>12. PICK x, q, ix : /\ x = (IF left <= 0 THEN NoOrder ELSE [m EXCEPT !.amount = left])
                       /\ q = (IF left <= 0 THEN Tail(old) ELSE old)
                       /\ ix = (IF left <= 0 THEN NoElem ELSE b.index[id])
    OBVIOUS
<1>13. u = [levels |-> b.levels, heap |-> b.heap,
            queue |-> [b.queue EXCEPT ![s] = [@ EXCEPT ![p] = q]],
            total |-> [b.total EXCEPT ![s] = [@ EXCEPT ![p] = n]],
            index |-> [b.index EXCEPT ![id] = ix],
            order |-> [b.order EXCEPT ![e] = x]]
  <2>1. PICK b1 : b1 = [b EXCEPT !.order[e] = IF left <= 0 THEN NoOrder ELSE [@ EXCEPT !.amount = left]]
      OBVIOUS
  <2>2. PICK b2 : b2 = [b1 EXCEPT !.total[s][p] = Wrap(@ - traded)]
      OBVIOUS
  <2>3. PICK b3 : b3 = [b2 EXCEPT !.queue[s][p] = IF left <= 0 THEN Tail(@) ELSE @]
      OBVIOUS
  <2>4. PICK b4 : b4 = [b3 EXCEPT !.index[id] = IF left <= 0 THEN NoElem ELSE @]
      OBVIOUS
  <2>5. [b EXCEPT !.order[e] = IF left <= 0 THEN NoOrder ELSE [@ EXCEPT !.amount = left],
                  !.total[s][p] = Wrap(@ - traded)] = b2
      BY <2>1, <2>2, Zenon
  <2>6. [b EXCEPT !.order[e] = IF left <= 0 THEN NoOrder ELSE [@ EXCEPT !.amount = left],
                  !.total[s][p] = Wrap(@ - traded),
                  !.queue[s][p] = IF left <= 0 THEN Tail(@) ELSE @] = b3
      BY <2>3, <2>5, Zenon
  <2>7. u = b4
      BY <1>E1, <2>4, <2>6, Zenon
  <2>8. b1 = [b EXCEPT !.order[e] = x]
      BY <1>3, <1>12, <2>1
  <2>9. b1 = [levels |-> b.levels, heap |-> b.heap, queue |-> b.queue, total |-> b.total,
              index |-> b.index, order |-> [b.order EXCEPT ![e] = x]]
      BY <1>3, <2>8 DEF Book
  <2>10. b2 = [b1 EXCEPT !.total[s][p] = n]
      BY <1>7, <2>2, <2>9
  <2>11. b2 = [levels |-> b.levels, heap |-> b.heap, queue |-> b.queue,
               total |-> [b.total EXCEPT ![s] = [@ EXCEPT ![p] = n]],
               index |-> b.index, order |-> [b.order EXCEPT ![e] = x]]
      BY <2>9, <2>10
  <2>12. b3 = [b2 EXCEPT !.queue[s][p] = q]
      BY <1>4, <1>12, <2>3, <2>11
  <2>13. b3.index = b.index
      BY <2>11, <2>12
  <2>14. b4 = [b3 EXCEPT !.index[id] = ix]
      BY <1>12, <2>4, <2>13
  <2> QED BY <2>7, <2>11, <2>12, <2>14
<1>14. q \in Seq(Elem)
    BY <1>5, <1>6, <1>12
<1>15. u.queue[s][p] = q
    BY <1>3, <1>5, <1>13
<1>16. CASE left <= 0
  <2>1. PICK total : total = IF q = << >> THEN 0 ELSE n
      OBVIOUS
  <2>2. r = Updated(b, s, p, e, id, q, total, NoElem, NoOrder, q # << >>)
    <3>1. x = NoOrder /\ ix = NoElem
        BY <1>12, <1>16
    <3>2. CASE q = << >>
      <4>1. r = [u EXCEPT !.heap[s] = @ \ {p}, !.levels[s] = @ \ {p},
                          !.queue[s][p] = << >>, !.total[s][p] = 0]
          BY <1>E2, <1>15, <3>2 DEF DropPriceLevel
      <4>2. [u.queue EXCEPT ![s] = [@ EXCEPT ![p] = << >>]] = u.queue
          BY <1>3, <1>5, <1>13, <3>2
      <4>3. [u.total EXCEPT ![s] = [@ EXCEPT ![p] = 0]] = [b.total EXCEPT ![s] = [@ EXCEPT ![p] = 0]]
          BY <1>3, <1>5, <1>13
      <4>4. r = [levels |-> [b.levels EXCEPT ![s] = @ \ {p}],
                 heap   |-> [b.heap EXCEPT ![s] = @ \ {p}],
                 queue  |-> u.queue,
                 total  |-> [b.total EXCEPT ![s] = [@ EXCEPT ![p] = 0]],
                 index  |-> u.index, order |-> u.order]
          BY <1>13, <4>1, <4>2, <4>3
      <4> QED BY <1>13, <2>1, <3>1, <3>2, <4>4 DEF Updated
    <3>3. CASE q # << >>
      <4>1. p \in b.heap[s] /\ p \in b.levels[s]
          BY <1>4, <1>6, <1>9 DEF LevelKnown
      <4>2. /\ [b.levels EXCEPT ![s] = @ \cup {p}] = b.levels
            /\ [b.heap EXCEPT ![s] = @ \cup {p}] = b.heap
          BY <1>3, <4>1 DEF Book
      <4>3. r = u /\ total = n
          BY <1>E2, <1>15, <2>1, <3>3
      <4> QED BY <1>13, <3>1, <3>3, <4>2, <4>3 DEF Updated
    <3> QED BY <3>2, <3>3
  <2>3. Updates(b, r, s, p, e, id, q, total, NoElem, NoOrder, q # << >>)
    <3>1. total \in Int /\ (q # << >>) \in BOOLEAN /\ NoElem \in Elem \cup {NoElem}
          /\ NoOrder \in Order \cup {NoOrder}
        BY <1>8, <2>1
    <3> QED BY <1>3, <1>14, <2>2, <3>1, UpdateFacts
  <2>4. LevelKnown(r, s, p)
      BY <2>3 DEF LevelKnown, Updates
  <2>5. q = Tail(old)
      BY <1>12, <1>16
  <2>6. /\ Len(old) \in Nat /\ Len(q) = Len(old) - 1 /\ e = old[1]
        /\ \A i \in 1..Len(q) : q[i] = old[i + 1]
      BY <1>5, <1>6, <2>5
  <2>7. InOrder(q)
      BY <1>9, <2>6 DEF InOrder
  <2>8. /\ \A i \in 1..Len(q) : q[i] # e /\ \E j \in 1..Len(old) : q[i] = old[j]
        /\ \A j \in 1..Len(old) : old[j] # e => \E i \in 1..Len(q) : q[i] = old[j]
    <3>1. \A i, j \in 1..Len(old) : old[i] = old[j] => i = j
        BY <1>5, <1>9, InOrderIsDistinct
    <3>2. \A i \in 1..Len(q) : i + 1 \in 1..Len(old) /\ i + 1 # 1 /\ 1 \in 1..Len(old)
        BY <2>6
    <3>3. \A i \in 1..Len(q) : q[i] # e /\ \E j \in 1..Len(old) : q[i] = old[j]
        BY <2>6, <3>1, <3>2
    <3>4. ASSUME NEW j \in 1..Len(old), old[j] # e PROVE \E i \in 1..Len(q) : q[i] = old[j]
      <4>1. j - 1 \in 1..Len(q) /\ (j - 1) + 1 = j
          BY <2>6, <3>4
      <4> QED BY <2>6, <4>1
    <3> QED BY <3>3, <3>4
  <2>9. PICK mo : mo = b.order[e]
      OBVIOUS
  <2>10. mo.side = s /\ mo.price = p /\ mo.id = id
      BY <1>2, <1>3, <2>9
  <2>11. /\ r \in Book
         /\ r.order = [b.order EXCEPT ![e] = NoOrder]
         /\ r.index = [b.index EXCEPT ![id] = NoElem]
         /\ \A ss \in Side, pp \in Price : ss # s \/ pp # p => SameLevel(b, r, ss, pp)
         /\ r.queue[s][p] = q
      BY <2>3 DEF Updates
  <2>12. TotalMoves(b, r, s, p, -mo.amount)
    <3>1. traded = m.amount /\ m.amount \in Int /\ mo = m
        BY <1>1, <1>2, <1>3, <1>16, <2>9 DEF MakerFill, Order
    <3>2. b.total[s][p] - traded = b.total[s][p] + (-mo.amount)
        BY <1>5, <3>1
    <3>3. (total = 0 /\ q = << >>) \/ total = Wrap(b.total[s][p] + (-mo.amount))
        BY <1>7, <2>1, <3>2
    <3> QED BY <2>3, <3>3 DEF Updates, TotalMoves
  <2>13. Unlinks(b, r, e)
      BY <1>4, <2>4, <2>7, <2>8, <2>9, <2>10, <2>11, <2>12 DEF Unlinks
  <2> QED BY <1>1, <1>2, <1>16, <2>13
<1>17. CASE left > 0
  <2>0. ~(left <= 0)
      BY <1>3, <1>17
  <2>1. x = [m EXCEPT !.amount = left] /\ q = old /\ ix = b.index[id]
      BY <1>12, <2>0
  <2>2. r = u
      BY <1>6, <1>E2, <1>15, <2>1
  <2>3. /\ [b.queue EXCEPT ![s] = [@ EXCEPT ![p] = q]] = b.queue
        /\ [b.index EXCEPT ![id] = ix] = b.index
      BY <1>3, <1>4, <1>5, <2>1
  <2>4. x \in Order
      BY <1>3, <2>1 DEF Order
  <2>5. r = [levels |-> b.levels, heap |-> b.heap, queue |-> b.queue,
             total |-> [b.total EXCEPT ![s] = [@ EXCEPT ![p] = n]],
             index |-> b.index, order |-> [b.order EXCEPT ![e] = x]]
      BY <1>13, <2>2, <2>3
  <2>6. r.total \in [Side -> [Price -> Int]] /\ r.order \in [Elem -> Order \cup {NoOrder}]
      BY <1>3, <1>5, <1>8, <2>4, <2>5
  <2>7. r \in Book
      BY <1>3, <2>5, <2>6 DEF Book
  <2>8. r.order = [b.order EXCEPT ![e] = [@ EXCEPT !.amount = left]] /\ r.index = b.index
      BY <1>3, <2>1, <2>5
  <2>9. \A ss \in Side, pp \in Price : SameLevel(b, r, ss, pp)
      BY <2>5 DEF SameLevel
  <2>10. TotalMoves(b, r, s, p, left - m.amount)
    <3>1. b.total[s][p] - traded = b.total[s][p] + (left - m.amount)
      <4>0. f = [order |-> Maker(b, o), filled |-> TradeAmount(b, o),
                 remaining |-> Maker(b, o).amount - TradeAmount(b, o)]
          BY <1>1 DEF MakerFill
      <4>1. left = m.amount - traded
          BY <1>1, <1>2, <4>0
      <4>2. m.amount \in Int
          BY <1>3 DEF Order
      <4>3. PICK t, ma : t = b.total[s][p] /\ ma = m.amount
          OBVIOUS
      <4>4. t \in Int /\ ma \in Int /\ traded \in Int /\ left = ma - traded
          BY <1>3, <1>5, <4>1, <4>2, <4>3
      <4>5. t - traded = t + (left - ma)
          BY <4>4
      <4> QED BY <4>3, <4>5
    <3>2. r.total[s][p] = Wrap(b.total[s][p] + (left - m.amount))
        BY <1>3, <1>5, <1>7, <2>5, <3>1
    <3>3. \A ss \in Side, pp \in Price : ss # s \/ pp # p => r.total[ss][pp] = b.total[ss][pp]
        BY <1>3, <1>5, <2>5
    <3> QED BY <3>2, <3>3 DEF TotalMoves
  <2>11. Resizes(b, r, e, left)
      BY <1>3, <1>17, <2>7, <2>8, <2>9, <2>10 DEF Resizes
  <2> QED BY <1>1, <1>2, <1>17, <2>11
<1> QED BY <1>3, <1>16, <1>17

-----------------------------------------------------------------------------
(* The quantities of the levels                                            *)

\* Wrapping once more makes no difference.
LEMMA WrapSum ==
    ASSUME NEW a \in Int, NEW d \in Int
    PROVE  Wrap(Wrap(a) + d) = Wrap(a + d)
<1>1. PICK k, M : k = MaxInt64 + 1 /\ M = 2 * (MaxInt64 + 1)
    OBVIOUS
<1>2. k \in Nat /\ M \in Nat /\ M > 0
    BY <1>1, WidthAssumption
<1>3. \A n \in Int : n + MaxInt64 + 1 = n + k
    BY <1>1, WidthAssumption
<1>4. \A n \in Int : Wrap(n) = ((n + k) % M) - k
    BY <1>1, <1>3 DEF Wrap
<1>5. PICK x, r, q : x = a + k /\ r = x % M /\ q = x \div M
    OBVIOUS
<1>6. x \in Int /\ r \in 0..(M - 1) /\ q \in Int /\ x = M * q + r
    BY <1>2, <1>5
<1>7. Wrap(a) = r - k /\ Wrap(a) \in Int
    BY <1>2, <1>4, <1>5, <1>6
<1>8. Wrap(Wrap(a) + d) = ((r + d) % M) - k
  <2>1. Wrap(a) + d \in Int /\ (Wrap(a) + d) + k = r + d
      BY <1>2, <1>6, <1>7
  <2> QED BY <1>4, <2>1
<1>9. Wrap(a + d) = ((x + d) % M) - k
  <2>1. a + d \in Int /\ (a + d) + k = x + d
      BY <1>2, <1>5
  <2> QED BY <1>4, <2>1
<1>10. (x + d) % M = (r + d) % M
  <2>1. PICK y, s, t : y = r + d /\ s = y % M /\ t = y \div M
      OBVIOUS
  <2>2. y \in Int /\ s \in 0..(M - 1) /\ t \in Int /\ y = M * t + s
      BY <1>2, <1>6, <2>1
  <2>3. x + d = (q + t) * M + s
      BY <1>2, <1>6, <2>1, <2>2
  <2>4. ((q + t) * M + s) % M = s
    <3>1. q + t \in Int
        BY <1>6, <2>2
    <3> QED BY <1>2, <2>2, <3>1
  <2> QED BY <2>1, <2>3, <2>4
<1> QED BY <1>8, <1>9, <1>10

\* Nor does it matter when both have wrapped.
LEMMA WrapAdds ==
    ASSUME NEW a \in Int, NEW d \in Int
    PROVE  Wrap(Wrap(a) + Wrap(d)) = Wrap(a + d)
<1>1. Wrap(d) \in Int
    BY WidthAssumption DEF Wrap
<1>2. PICK w : w = Wrap(d)
    OBVIOUS
<1>3. Wrap(Wrap(a) + w) = Wrap(a + w) /\ Wrap(w + a) = Wrap(d + a)
    BY <1>1, <1>2, WrapSum
<1>4. a + w = w + a /\ d + a = a + d
    BY <1>1, <1>2
<1> QED BY <1>2, <1>3, <1>4

\* A sum that fits is itself.
LEMMA WrapFits ==
    ASSUME NEW n \in 0..MaxInt64 PROVE Wrap(n) = n
<1>1. PICK k, M : k = MaxInt64 + 1 /\ M = 2 * (MaxInt64 + 1)
    OBVIOUS
<1>2. k \in Nat /\ M \in Nat /\ M > 0 /\ n + k \in 0..(M - 1)
    BY <1>1, WidthAssumption
<1>3. (0 * M + (n + k)) % M = n + k
    BY <1>2
<1>4. 0 * M + (n + k) = n + k
    BY <1>2
<1>5. n + MaxInt64 + 1 = n + k
    BY <1>1, WidthAssumption
<1> QED BY <1>1, <1>2, <1>3, <1>4, <1>5 DEF Wrap
\* The sum of a sequence, as a sum.
LEMMA SumSeqIsSum ==
    ASSUME NEW q \in Seq(Int)
    PROVE  SumSeq(q) = Sum(q, Len(q))
<1>1. PICK n : n = Len(q)
    OBVIOUS
<1>2. n \in Nat /\ DOMAIN q = 1..n /\ Summable(q, n)
    BY <1>1 DEF Summable
<1>3. PICK c : c = [s \in SUBSET (1..n) |-> Max(s)]
    OBVIOUS
<1>4. Chooses(c, 1..n) /\ \A s \in SUBSET (1..n) : c[s] = Max(s)
    BY <1>2, <1>3, MaxIn DEF Chooses
<1> DEFINE A(f) == f = [s \in SUBSET DOMAIN q |->
                            IF s = {} THEN 0 ELSE f[s \ {Max(s)}] + q[Max(s)]]
<1>5. SumSeq(q) = (CHOOSE h : A(h))[DOMAIN q]
    BY DEF SumSeq, FoldLeft, MapThenFoldSet
<1>6. ASSUME NEW s \in SUBSET (1..n), s # {}
      PROVE  c[s] = Max(s) /\ Max(s) \in 1..n /\ q[Max(s)] = q[c[s]]
    BY <1>1, <1>4, <1>6 DEF Chooses
<1>7. ASSUME NEW f, A(f) PROVE FoldsOver(f, c, q, 1..n)
  <2>1. \A s \in SUBSET (1..n) : f[s] = IF s = {} THEN 0 ELSE f[s \ {Max(s)}] + q[Max(s)]
      BY <1>2, <1>7
  <2> HIDE DEF A
  <2> QED BY <1>6, <2>1 DEF FoldsOver
<1>8. \E f : A(f)
  <2>0. PICK f : IntFold(f, c, q, 1..n)
      BY <1>2, <1>4, FoldExists
  <2>1. f \in [SUBSET (1..n) -> Int] /\ FoldsOver(f, c, q, 1..n)
      BY <2>0 DEF IntFold
  <2>2. ASSUME NEW s \in SUBSET (1..n)
        PROVE  f[s] = IF s = {} THEN 0 ELSE f[s \ {Max(s)}] + q[Max(s)]
    <3>1. CASE s = {}
        BY <2>1, <3>1 DEF FoldsOver
    <3>2. CASE s # {}
      <4>1. f[s \ {c[s]}] \in Int
          BY <2>1
      <4> QED BY <1>6, <2>1, <3>2, <4>1 DEF FoldsOver
    <3> QED BY <3>1, <3>2
  <2> QED BY <1>2, <2>1, <2>2
<1>9. A(CHOOSE h : A(h))
  <2> HIDE DEF A
  <2> QED BY <1>8
<1> HIDE DEF A
<1>10. PICK h : h = (CHOOSE x : A(x)) /\ FoldsOver(h, c, q, 1..n)
    BY <1>7, <1>9
<1>11. h[1..n] = Sum(q, n)
    BY <1>2, <1>4, <1>10, FoldOfAll
<1> QED BY <1>1, <1>2, <1>5, <1>10, <1>11

\* What each element has at a level, and all of them.
HeldAt(b, s, p) ==
    [e \in Elem |-> IF b.order[e] # NoOrder /\ b.order[e].side = s /\ b.order[e].price = p
                    THEN b.order[e].amount ELSE 0]

Quantity(b, s, p) == Sum(HeldAt(b, s, p), MaxElem)

\* The totals are these quantities, in int64 arithmetic.
Totalled(b) == \A s \in Side, p \in Price : b.total[s][p] = Wrap(Quantity(b, s, p))

LEMMA HeldIsSummable ==
    ASSUME NEW b, Sound(b), NEW s, NEW p
    PROVE  Summable(HeldAt(b, s, p), MaxElem) /\ Quantity(b, s, p) \in Int
<1>1. ASSUME NEW e \in 1..MaxElem PROVE HeldAt(b, s, p)[e] \in Int
  <2>1. e \in Elem /\ (b.order[e] # NoOrder => b.order[e].amount \in Int)
      BY RestingFacts DEF Elem
  <2> QED BY <2>1 DEF HeldAt
<1>2. Summable(HeldAt(b, s, p), MaxElem)
    BY <1>1, BookAssumption DEF Summable
<1> QED BY <1>2, SumStep DEF Quantity

\* Nothing is held at a level without a queue.
LEMMA NothingHeld ==
    ASSUME NEW b, Sound(b), NEW s \in Side, NEW p \in Price, b.queue[s][p] = << >>
    PROVE  Quantity(b, s, p) = 0
<1>1. ASSUME NEW e \in Elem, b.order[e] # NoOrder, b.order[e].side = s, b.order[e].price = p PROVE FALSE
  <2>1. Queued(b, e)
      BY <1>1 DEF Sound
  <2>2. \E i \in 1..Len(b.queue[s][p]) : TRUE
      BY <1>1, <2>1 DEF Queued
  <2> QED BY <2>2
<1>2. \A e \in 1..MaxElem : HeldAt(b, s, p)[e] = 0
    BY <1>1 DEF HeldAt, Elem
<1> QED BY <1>2, BookAssumption, SumOfZeros DEF Quantity

\* Books r and b differ in what e holds at one level, by d.
HeldMoves(b, r, e, s, p, d) ==
    /\ \A x \in Elem : x # e => r.order[x] = b.order[x]
    /\ HeldAt(r, s, p)[e] = HeldAt(b, s, p)[e] + d
    /\ \A ss \in Side, pp \in Price : ss # s \/ pp # p => HeldAt(r, ss, pp)[e] = HeldAt(b, ss, pp)[e]

LEMMA TotalsFollow ==
    ASSUME NEW b, Sound(b), NEW r, Sound(r), Totalled(b),
           NEW e \in Elem, NEW s \in Side, NEW p \in Price, NEW d \in Int,
           HeldMoves(b, r, e, s, p, d), TotalMoves(b, r, s, p, d)
    PROVE  Totalled(r)
<1>1. ASSUME NEW ss \in Side, NEW pp \in Price, NEW x \in 1..MaxElem, x # e
      PROVE  HeldAt(r, ss, pp)[x] = HeldAt(b, ss, pp)[x]
    BY <1>1 DEF HeldMoves, HeldAt, Elem
<1>2. e \in 1..MaxElem
    BY DEF Elem
<1>3. ASSUME NEW ss \in Side, NEW pp \in Price
      PROVE  r.total[ss][pp] = Wrap(Quantity(r, ss, pp))
  <2>1. PICK g, h : g = HeldAt(b, ss, pp) /\ h = HeldAt(r, ss, pp)
      OBVIOUS
  <2>2. /\ Summable(g, MaxElem) /\ Summable(h, MaxElem)
        /\ Quantity(b, ss, pp) = Sum(g, MaxElem) /\ Quantity(r, ss, pp) = Sum(h, MaxElem)
        /\ Sum(g, MaxElem) \in Int
      BY <2>1, HeldIsSummable DEF Quantity
  <2>3. \A x \in 1..MaxElem : x # e => h[x] = g[x]
      BY <1>1, <2>1
  <2>4. b.total[ss][pp] = Wrap(Sum(g, MaxElem))
      BY <2>2 DEF Totalled
  <2>5. CASE ss # s \/ pp # p
    <3>1. h[e] = g[e] /\ r.total[ss][pp] = b.total[ss][pp]
        BY <2>1, <2>5 DEF HeldMoves, TotalMoves
    <3>2. \A x \in 1..MaxElem : h[x] = g[x]
        BY <2>3, <3>1
    <3>3. Sum(h, MaxElem) = Sum(g, MaxElem)
        BY <2>2, <3>2, SumSame
    <3> QED BY <2>2, <2>4, <3>1, <3>3
  <2>6. CASE ss = s /\ pp = p
    <3>1. h[e] = g[e] + d
        BY <2>1, <2>6 DEF HeldMoves
    <3>2. Sum(h, MaxElem) = Sum(g, MaxElem) + d
        BY <1>2, <2>2, <2>3, <3>1, SumMoves
    <3>3. CASE r.total[s][p] = Wrap(b.total[s][p] + d)
      <4>1. Wrap(b.total[ss][pp] + d) = Wrap(Sum(g, MaxElem) + d)
          BY <2>2, <2>4, WrapSum
      <4> QED BY <2>2, <2>6, <3>2, <3>3, <4>1
    <3>4. CASE r.queue[s][p] = << >> /\ r.total[s][p] = 0
      <4>1. Quantity(r, s, p) = 0
          BY <3>4, NothingHeld
      <4>2. Wrap(0) = 0
          BY WidthAssumption, WrapFits
      <4> QED BY <2>6, <3>4, <4>1, <4>2
    <3> QED BY <3>3, <3>4 DEF TotalMoves
  <2> QED BY <2>5, <2>6
<1> QED BY <1>3 DEF Totalled

\* Each of the three changes keeps the totals.
LEMMA UnlinkTotals ==
    ASSUME NEW b, NEW r, NEW e \in Elem, Sound(b), Sound(r), b.order[e] # NoOrder,
           Unlinks(b, r, e), Totalled(b)
    PROVE  Totalled(r)
<1>1. PICK o, s, p, d : o = b.order[e] /\ s = o.side /\ p = o.price /\ d = -o.amount
    OBVIOUS
<1>2. s \in Side /\ p \in Price /\ o.amount \in Int /\ d \in Int /\ o.amount + d = 0
    BY <1>1, RestingFacts
<1>3. r.order = [b.order EXCEPT ![e] = NoOrder] /\ TotalMoves(b, r, s, p, d)
    BY <1>1 DEF Unlinks
<1>4. r.order[e] = NoOrder /\ \A x \in Elem : x # e => r.order[x] = b.order[x]
  <2>1. b.order \in [Elem -> Order \cup {NoOrder}]
      BY DEF Sound, Book
  <2> QED BY <1>3, <2>1
<1>5. /\ \A ss, pp : HeldAt(r, ss, pp)[e] = 0
      /\ \A ss, pp : HeldAt(b, ss, pp)[e] = IF ss = s /\ pp = p THEN o.amount ELSE 0
    BY <1>1, <1>4 DEF HeldAt
<1>6. HeldMoves(b, r, e, s, p, d)
    BY <1>2, <1>4, <1>5 DEF HeldMoves
<1> QED BY <1>2, <1>3, <1>6, TotalsFollow

LEMMA LinkTotals ==
    ASSUME NEW b, NEW r, NEW e \in Elem, NEW o \in Order, Sound(b), Sound(r), CanRest(o),
           b.order[e] = NoOrder, Links(b, r, e, o), Totalled(b)
    PROVE  Totalled(r)
<1>1. PICK s, p, d : s = o.side /\ p = o.price /\ d = o.amount
    OBVIOUS
<1>2. s \in Side /\ p \in Price /\ d \in Int /\ 0 + d = d
    BY <1>1 DEF CanRest, Order
<1>3. r.order = [b.order EXCEPT ![e] = o] /\ TotalMoves(b, r, s, p, d)
    BY <1>1 DEF Links
<1>4. r.order[e] = o /\ \A x \in Elem : x # e => r.order[x] = b.order[x]
  <2>1. b.order \in [Elem -> Order \cup {NoOrder}]
      BY DEF Sound, Book
  <2> QED BY <1>3, <2>1
<1>5. /\ \A ss, pp : HeldAt(b, ss, pp)[e] = 0
      /\ \A ss, pp : HeldAt(r, ss, pp)[e] = IF ss = s /\ pp = p THEN d ELSE 0
    BY <1>1, <1>4, NoOrderAssumption DEF HeldAt
<1>6. HeldMoves(b, r, e, s, p, d)
    BY <1>2, <1>4, <1>5 DEF HeldMoves
<1> QED BY <1>2, <1>3, <1>6, TotalsFollow

LEMMA ResizeTotals ==
    ASSUME NEW b, NEW r, NEW e \in Elem, NEW n, Sound(b), Sound(r), b.order[e] # NoOrder,
           Resizes(b, r, e, n), Totalled(b)
    PROVE  Totalled(r)
<1>1. PICK o, s, p, d : o = b.order[e] /\ s = o.side /\ p = o.price /\ d = n - o.amount
    OBVIOUS
<1>2. /\ s \in Side /\ p \in Price /\ o \in Order /\ o.amount \in Int /\ n \in Int /\ d \in Int
      /\ o.amount + d = n /\ 0 + 0 = 0
  <2>1. n \in Int
      BY DEF Resizes
  <2> QED BY <1>1, <2>1, RestingFacts
<1>3. /\ r.order = [b.order EXCEPT ![e] = [@ EXCEPT !.amount = n]]
      /\ TotalMoves(b, r, s, p, d)
    BY <1>1 DEF Resizes
<1>4. r.order[e] = [o EXCEPT !.amount = n] /\ \A x \in Elem : x # e => r.order[x] = b.order[x]
  <2>1. b.order \in [Elem -> Order \cup {NoOrder}]
      BY DEF Sound, Book
  <2> QED BY <1>1, <1>3, <2>1
<1>5. PICK ro : ro = r.order[e]
    OBVIOUS
<1>6. ro.side = s /\ ro.price = p /\ ro.amount = n /\ ro \in Order /\ ro # NoOrder
    BY <1>1, <1>2, <1>4, <1>5, NoOrderAssumption DEF Order
<1>7. /\ \A ss, pp : HeldAt(b, ss, pp)[e] = IF ss = s /\ pp = p THEN o.amount ELSE 0
      /\ \A ss, pp : HeldAt(r, ss, pp)[e] = IF ss = s /\ pp = p THEN n ELSE 0
    BY <1>1, <1>5, <1>6 DEF HeldAt
<1>8. HeldMoves(b, r, e, s, p, d)
    BY <1>2, <1>4, <1>7 DEF HeldMoves
<1> QED BY <1>2, <1>3, <1>8, TotalsFollow

\* What the orders of a queue have left.
QueueAmounts(b, q) == [i \in DOMAIN q |-> b.order[q[i]].amount]

\* What the queue of a level adds up to.
LEMMA QueueQuantity ==
    ASSUME NEW b, Sound(b), NEW s \in Side, NEW p \in Price, NEW q, q = b.queue[s][p],
           NEW a, a = QueueAmounts(b, q)
    PROVE  /\ SumSeq(a) = Quantity(b, s, p)
           /\ 0 <= SumSeq(a) /\ SumSeq(a) \in Int
<1>1. PICK n, g : n = Len(q) /\ g = HeldAt(b, s, p)
    OBVIOUS
<1>2. q \in Seq(Elem) /\ n \in Nat /\ DOMAIN q = 1..n
    BY <1>1 DEF Sound, Book
<1>3. QueueOf(b, s, p)
    BY DEF Sound
<1>4. \A i \in 1..n : /\ q[i] \in Elem /\ b.order[q[i]] # NoOrder
                      /\ b.order[q[i]].side = s /\ b.order[q[i]].price = p
  <2>1. ASSUME NEW i \in 1..n PROVE q[i] \in Elem
      BY <1>1, <1>2
  <2>2. \A i \in 1..Len(q) : LET o == b.order[q[i]] IN o # NoOrder /\ o.side = s /\ o.price = p
      BY <1>3 DEF QueueOf
  <2> QED BY <1>1, <2>1, <2>2
<1>5. \A i \in 1..n : a[i] = b.order[q[i]].amount /\ a[i] \in Int /\ 0 <= a[i]
  <2>1. ASSUME NEW i \in 1..n PROVE a[i] = b.order[q[i]].amount /\ a[i] \in Int /\ 0 <= a[i]
    <3>1. a[i] = b.order[q[i]].amount
        BY <1>2 DEF QueueAmounts
    <3>2. PICK e : e = q[i]
        OBVIOUS
    <3>3. e \in Elem /\ b.order[e] # NoOrder
        BY <1>4, <3>2
    <3>4. PICK v : v = b.order[e].amount /\ v \in Int /\ v > 0
        BY <3>3, RestingFacts
    <3>5. 0 <= v
        BY <3>4
    <3> QED BY <3>1, <3>2, <3>4, <3>5
  <2> QED BY <2>1
<1>6. a \in Seq(Int) /\ Len(a) = n
  <2>1. a \in [1..n -> Int]
      BY <1>2, <1>5 DEF QueueAmounts
  <2> QED BY <1>2, <2>1
<1>7. Summable(a, n) /\ Summable(g, MaxElem)
    BY <1>1, <1>2, <1>5, HeldIsSummable DEF Summable
<1>8. SumSeq(a) = Sum(a, n)
    BY <1>6, SumSeqIsSum
<1>9. PICK R : R = Taken(q, n)
    OBVIOUS
<1>10. Sum(a, n) = Sum(On(g, R, MaxElem), MaxElem)
  <2>1. \A i \in 1..n : q[i] \in 1..MaxElem /\ a[i] = g[q[i]]
      BY <1>1, <1>4, <1>5 DEF HeldAt, Elem
  <2>2. \A i, j \in 1..n : q[i] = q[j] => i = j
    <3>1. InOrder(q)
        BY <1>3 DEF QueueOf
    <3> QED BY <1>1, <1>2, <3>1, InOrderIsDistinct
  <2>3. Picks(q, a, n, g, MaxElem)
      BY <1>7, <2>1, <2>2 DEF Picks
  <2> QED BY <1>9, <2>3, SumOfDistinct
<1>11. \A e \in 1..MaxElem : On(g, R, MaxElem)[e] = g[e]
  <2>1. ASSUME NEW e \in 1..MaxElem, e \notin R PROVE g[e] = 0
    <3>1. SUFFICES ASSUME b.order[e] # NoOrder, b.order[e].side = s, b.order[e].price = p PROVE FALSE
        BY <1>1 DEF HeldAt, Elem
    <3>2. Queued(b, e)
        BY <3>1 DEF Sound, Elem
    <3>3. \E i \in 1..n : q[i] = e
        BY <1>1, <3>1, <3>2 DEF Queued
    <3> QED BY <1>9, <2>1, <3>3 DEF Taken
  <2> QED BY <2>1 DEF On
<1>12. Sum(On(g, R, MaxElem), MaxElem) = Sum(g, MaxElem)
    BY <1>7, <1>11, OnSummable, SumSame
<1>13. SumSeq(a) = Quantity(b, s, p)
    BY <1>1, <1>8, <1>10, <1>12 DEF Quantity
<1> QED BY <1>5, <1>7, <1>8, <1>13, SumStep, SumNotNegative

-----------------------------------------------------------------------------
(* Which orders rest after an operation                                    *)

\* Some resting order has this id.
Carries(b, id) == \E x \in Elem : b.order[x] # NoOrder /\ b.order[x].id = id

\* r has no element and no id that b does not have.
Shrinks(b, r) ==
    /\ \A x \in Elem : r.order[x] # NoOrder => b.order[x] # NoOrder
    /\ \A id : Carries(r, id) => Carries(b, id)

\* r is as good a book as b.
Keeps(b, r) ==
    /\ Sound(r)
    /\ Indexed(b) => Indexed(r)
    /\ Totalled(b) => Totalled(r)

\* An id belongs to one order, so it is gone with that order's element.
LEMMA UnlinkShrinks ==
    ASSUME NEW b, NEW r, NEW e \in Elem, Sound(b), b.order[e] # NoOrder, Unlinks(b, r, e)
    PROVE  /\ Keeps(b, r) /\ Shrinks(b, r) /\ r.order[e] = NoOrder
           /\ Indexed(b) => ~Carries(r, b.order[e].id)
<1>1. r.order[e] = NoOrder /\ \A x \in Elem : x # e => r.order[x] = b.order[x]
  <2>1. r.order = [b.order EXCEPT ![e] = NoOrder] /\ b.order \in [Elem -> Order \cup {NoOrder}]
      BY DEF Unlinks, Sound, Book
  <2> QED BY <2>1
<1>2. Shrinks(b, r)
    BY <1>1 DEF Shrinks, Carries
<1>3. Indexed(b) => ~Carries(r, b.order[e].id)
    BY <1>1 DEF Indexed, Carries
<1>4. Keeps(b, r)
  <2>1. Sound(r) /\ (Indexed(b) => Indexed(r))
      BY UnlinkKeeps
  <2>2. Totalled(b) => Totalled(r)
      BY <2>1, UnlinkTotals
  <2> QED BY <2>1, <2>2 DEF Keeps
<1> QED BY <1>1, <1>2, <1>3, <1>4

\* Another quantity adds no element and no id.
LEMMA ResizeShrinks ==
    ASSUME NEW b, NEW r, NEW e \in Elem, NEW n, Sound(b), b.order[e] # NoOrder, Resizes(b, r, e, n)
    PROVE  Keeps(b, r) /\ Shrinks(b, r)
<1>1. Keeps(b, r) /\ SameIds(b, r)
  <2>1. Sound(r) /\ (Indexed(b) => Indexed(r)) /\ SameIds(b, r)
      BY ResizeKeeps
  <2>2. Totalled(b) => Totalled(r)
      BY <2>1, ResizeTotals
  <2> QED BY <2>1, <2>2 DEF Keeps
<1> QED BY <1>1 DEF SameIds, Shrinks, Carries

\* r has one element more, e, and one id more.
Grows(b, r, e, o) ==
    /\ Sound(r)
    /\ Indexed(b) /\ ~Carries(b, o.id) => Indexed(r)
    /\ Totalled(b) => Totalled(r)
    /\ \A x \in Elem : r.order[x] # NoOrder => b.order[x] # NoOrder \/ x = e
    /\ \A id : Carries(r, id) => Carries(b, id) \/ id = o.id

\* A new order adds its element and its id.
LEMMA LinkGrows ==
    ASSUME NEW b, NEW r, NEW e \in Elem, NEW o \in Order, Sound(b), CanRest(o),
           \A x \in Elem : x >= e => b.order[x] = NoOrder, Links(b, r, e, o)
    PROVE  Grows(b, r, e, o)
<1>1. r.order[e] = o /\ \A x \in Elem : x # e => r.order[x] = b.order[x]
  <2>1. r.order = [b.order EXCEPT ![e] = o] /\ b.order \in [Elem -> Order \cup {NoOrder}]
      BY DEF Links, Sound, Book
  <2> QED BY <2>1
<1>2. ~Carries(b, o.id) => \A x \in Elem : b.order[x] # NoOrder => b.order[x].id # o.id
    BY DEF Carries
<1>3. Sound(r) /\ (Indexed(b) /\ ~Carries(b, o.id) => Indexed(r))
    BY <1>2, LinkKeeps
<1>4. \A id : Carries(r, id) => Carries(b, id) \/ id = o.id
    BY <1>1 DEF Carries
<1>5. Totalled(b) => Totalled(r)
  <2>1. b.order[e] = NoOrder
      BY DEF Elem
  <2> QED BY <1>3, <2>1, LinkTotals
<1> QED BY <1>1, <1>3, <1>4, <1>5 DEF Grows

\* Fill, Cancel and Amend, as far as the invariant is concerned: a fill first.
LEMMA FillKeeps ==
    ASSUME NEW b, Sound(b), NEW o \in Order, CanFill(b, o)
    PROVE  Keeps(b, BookAfterFill(b, o)) /\ Shrinks(b, BookAfterFill(b, o))
<1>1. PICK r, e : r = BookAfterFill(b, o) /\ e = MakerElem(b, o)
    OBVIOUS
<1>2. e \in Elem /\ b.order[e] # NoOrder
    BY <1>1, FillFacts
<1>3. Unlinks(b, r, e) \/ \E n : Resizes(b, r, e, n)
    BY <1>1, FillUpdates
<1>4. Keeps(b, r) /\ Shrinks(b, r)
    BY <1>2, <1>3, UnlinkShrinks, ResizeShrinks
<1> QED BY <1>1, <1>4

\* A book that is not touched.
LEMMA KeepsItself == ASSUME NEW b, Sound(b) PROVE Keeps(b, b) /\ Shrinks(b, b)
BY DEF Keeps, Shrinks

\* A cancel returns an order that rested, or none.
LEMMA RemoveOrderKeeps ==
    ASSUME NEW b, Sound(b), NEW id \in OrderID
    PROVE  LET result == RemoveOrder(b, id)
           IN  /\ Keeps(b, result.book) /\ Shrinks(b, result.book)
               /\ \/ result.removed = NoOrder
                  \/ result.removed \in Order /\ CanRest(result.removed)
<1>1. PICK result, e : result = RemoveOrder(b, id) /\ e = b.index[id]
    OBVIOUS
<1>2. CASE ~Located(b, id)
  <2>1. result = [book |-> b, removed |-> NoOrder]
      BY <1>1, <1>2 DEF RemoveOrder
  <2> QED BY <1>1, <2>1, KeepsItself
<1>3. CASE Located(b, id)
  <2>1. result = [book |-> RemoveElement(b, e), removed |-> b.order[e]]
      BY <1>1, <1>3 DEF RemoveOrder
  <2>2. e \in Elem /\ b.order[e] # NoOrder
      BY <1>1, <1>3 DEF Located, Sound, Book
  <2>3. b.order[e] \in Order /\ CanRest(b.order[e])
      BY <2>2, RestingFacts DEF Sound
  <2>4. Unlinks(b, RemoveElement(b, e), e)
      BY <2>2, RemoveElementUnlinks
  <2>5. Keeps(b, RemoveElement(b, e)) /\ Shrinks(b, RemoveElement(b, e))
      BY <2>2, <2>4, UnlinkShrinks
  <2> QED BY <1>1, <2>1, <2>3, <2>5
<1> QED BY <1>2, <1>3

\* An amend: e is the element an edit may push; an order that is matched again has
\* left the book.
LEMMA EditOrderKeeps ==
    ASSUME NEW b, Sound(b), NEW e \in Elem, \A x \in Elem : x >= e => b.order[x] = NoOrder,
           NEW id \in OrderID,
           NEW price \in Price, NEW amount \in Amount \cup {NoAmount}
    PROVE  LET edit == EditOrder(b, e, id, price, amount)
           IN  /\ Keeps(b, edit.book)
               /\ \A x \in Elem : edit.book.order[x] # NoOrder => b.order[x] # NoOrder \/ x = e
               /\ \A i : Carries(edit.book, i) => Carries(b, i)
               /\ \/ edit.before = NoOrder /\ ~edit.rematch
                  \/ /\ edit.before \in Order /\ CanRest(edit.before)
                     /\ edit.after \in Order /\ CanRest(edit.after)
                     /\ Carries(b, edit.after.id)
               /\ edit.rematch => /\ edit.book.order[e] = NoOrder
                                  /\ Indexed(b) => ~Carries(edit.book, edit.after.id)
<1>1. PICK edit, at : edit = EditOrder(b, e, id, price, amount) /\ at = b.index[id]
    OBVIOUS
<1>2. edit = NoEdit(b) \/ EditsOrder(b, edit, e, at)
    BY <1>1, EditFacts
<1>5. b.order[e] = NoOrder
    BY DEF Elem
<1>3. CASE edit = NoEdit(b)
  <2>1. edit.book = b /\ edit.before = NoOrder /\ ~edit.rematch
      BY <1>3 DEF NoEdit
  <2> QED BY <1>1, <2>1, KeepsItself
<1>4. CASE EditsOrder(b, edit, e, at)
  <2>1. PICK r, before, after : r = edit.book /\ before = edit.before /\ after = edit.after
      OBVIOUS
  <2>2. /\ at \in Elem /\ before = b.order[at] /\ before \in Order
        /\ after \in Order /\ CanRest(after)
        /\ after = [before EXCEPT !.price = after.price, !.amount = after.amount]
      BY <1>4, <2>1 DEF EditsOrder
  <2>0. after.id = before.id
      BY <2>2 DEF Order
  <2>3. before # NoOrder /\ CanRest(before) /\ Carries(b, after.id) /\ at # e
      BY <1>5, <2>0, <2>2, NoOrderAssumption DEF Sound, Carries
  <2>4. \/ edit.rematch /\ Unlinks(b, r, at)
        \/ ~edit.rematch /\ Resizes(b, r, at, after.amount)
        \/ ~edit.rematch /\ \E mid : Unlinks(b, mid, at) /\ Sound(mid) /\ Links(mid, r, e, after)
      BY <1>4, <2>1 DEF EditsOrder
  <2>5. CASE Unlinks(b, r, at)
    <3>1. /\ Keeps(b, r) /\ Shrinks(b, r)
          /\ Indexed(b) => ~Carries(r, after.id)
        BY <2>0, <2>2, <2>3, <2>5, UnlinkShrinks
    <3>2. /\ \A x \in Elem : r.order[x] # NoOrder => b.order[x] # NoOrder
          /\ \A i : Carries(r, i) => Carries(b, i)
          /\ r.order[e] = NoOrder
        BY <1>5, <3>1 DEF Shrinks
    <3> QED BY <1>1, <2>1, <2>2, <2>3, <3>1, <3>2
  <2>6. CASE ~edit.rematch /\ Resizes(b, r, at, after.amount)
    <3>1. Keeps(b, r) /\ Shrinks(b, r)
        BY <2>2, <2>3, <2>6, ResizeShrinks
    <3>2. /\ \A x \in Elem : r.order[x] # NoOrder => b.order[x] # NoOrder
          /\ \A i : Carries(r, i) => Carries(b, i)
        BY <3>1 DEF Shrinks
    <3> QED BY <1>1, <2>1, <2>2, <2>3, <2>6, <3>1, <3>2
  <2>7. CASE ~edit.rematch /\ \E mid : Unlinks(b, mid, at) /\ Sound(mid) /\ Links(mid, r, e, after)
    <3>1. PICK mid : Unlinks(b, mid, at) /\ Sound(mid) /\ Links(mid, r, e, after)
        BY <2>7
    <3>2. /\ Keeps(b, mid) /\ Shrinks(b, mid)
          /\ Indexed(b) => ~Carries(mid, after.id)
        BY <2>0, <2>2, <2>3, <3>1, UnlinkShrinks
    <3>3. /\ \A x \in Elem : mid.order[x] # NoOrder => b.order[x] # NoOrder
          /\ \A i : Carries(mid, i) => Carries(b, i)
          /\ \A x \in Elem : x >= e => mid.order[x] = NoOrder
        BY <3>2 DEF Shrinks
    <3>4. /\ Sound(r)
          /\ Indexed(mid) /\ ~Carries(mid, after.id) => Indexed(r)
          /\ Totalled(mid) => Totalled(r)
          /\ \A x \in Elem : r.order[x] # NoOrder => mid.order[x] # NoOrder \/ x = e
          /\ \A i : Carries(r, i) => Carries(mid, i) \/ i = after.id
      <4>1. /\ after \in Order /\ CanRest(after)
            /\ \A x \in Elem : x >= e => mid.order[x] = NoOrder
            /\ Sound(mid) /\ Links(mid, r, e, after)
          BY <2>2, <3>1, <3>3
      <4>2. Grows(mid, r, e, after)
          BY <4>1, LinkGrows
      <4> QED BY <4>2 DEF Grows
    <3>5. Keeps(b, r)
        BY <3>2, <3>4 DEF Keeps
    <3>6. /\ \A x \in Elem : r.order[x] # NoOrder => b.order[x] # NoOrder \/ x = e
          /\ \A i : Carries(r, i) => Carries(b, i)
        BY <2>3, <3>3, <3>4
    <3> QED BY <1>1, <2>1, <2>2, <2>3, <2>7, <3>5, <3>6
  <2> QED BY <2>4, <2>5, <2>6, <2>7
<1> QED BY <1>2, <1>3, <1>4

-----------------------------------------------------------------------------
(* What the writer accepts                                                 *)

\* The events that the writer of order events accepts.
ValidEvents == {ev \in EventRecord : ValidEvent(ev)}

\* Limit orders have a price, market orders have none.
Priced(o) ==
    /\ o \in Order
    /\ o.kind = "LIMIT" => o.price \in Price
    /\ o.kind = "MARKET" => o.price = NoPrice

\* An execution of a maker: what was there is what was taken and what is left.
MakerFills ==
    {f \in [order : Order, filled : Int, remaining : Int] :
        /\ Priced(f.order) /\ f.filled > 0 /\ f.remaining >= 0
        /\ f.order.amount = f.filled + f.remaining}

\* Prices are positive.
LEMMA Prices == \A p \in Price : p \in Int /\ p > 0
<1>1. MaxInt64 \in Nat /\ Price \subseteq 1..MaxInt64
    BY WidthAssumption
<1>2. \A p \in 1..MaxInt64 : p \in Int /\ p > 0
    BY <1>1
<1> QED BY <1>1, <1>2

\* The fields of an event, and the rules its type puts on them.
LEMMA EventIsValid ==
    ASSUME NEW type \in EventType, NEW o, Priced(o), NEW previousPrice \in Int,
           NEW previous \in Int, NEW filled \in Int, NEW canceled \in Int, NEW remaining \in Int,
           o.kind = "LIMIT" => previousPrice > 0,
           o.kind = "MARKET" => previousPrice = 0,
           previous > 0, filled >= 0, canceled >= 0, remaining >= 0,
           ValidTransition(Event(type, o, previousPrice, previous, filled, canceled, remaining))
    PROVE  Event(type, o, previousPrice, previous, filled, canceled, remaining) \in ValidEvents
<1>1. PICK ev : ev = Event(type, o, previousPrice, previous, filled, canceled, remaining)
    OBVIOUS
<1>2. ev = [type |-> type, id |-> o.id, kind |-> o.kind,
            previousPrice |-> previousPrice, price |-> o.price, previous |-> previous,
            filled |-> filled, canceled |-> canceled, remaining |-> remaining]
    BY <1>1 DEF Event
<1>3. o.id \in OrderID /\ o.kind \in Kind /\ (o.kind = "LIMIT" \/ o.kind = "MARKET")
    BY DEF Priced, Order, Kind
<1>4. o.price \in Int
    BY <1>3, Prices DEF Priced, NoPrice
<1>5. ev \in EventRecord
    BY <1>2, <1>3, <1>4 DEF EventRecord
<1>6. ValidPrices(ev)
    BY <1>2, <1>3, Prices DEF ValidPrices, Priced, NoPrice
<1>7. ValidEvent(ev)
    BY <1>1, <1>2, <1>6 DEF ValidEvent
<1> QED BY <1>1, <1>5, <1>7 DEF ValidEvents

\* The event of a fill, the maker's or the taker's.
LEMMA FillEventIsValid ==
    ASSUME NEW o, Priced(o), NEW previous \in Int, NEW filled \in Int, NEW remaining \in Int,
           filled > 0, remaining >= 0, previous = filled + remaining
    PROVE  FillEvent(o, previous, filled, remaining) \in ValidEvents
<1>1. PICK type : type = IF remaining = 0 THEN "FILLED" ELSE "PARTIALLY_FILLED"
    OBVIOUS
<1>2. FillEvent(o, previous, filled, remaining) = Event(type, o, o.price, previous, filled, 0, remaining)
    BY <1>1 DEF FillEvent
<1>3. type \in EventType
    BY <1>1 DEF EventType
<1>4. ValidTransition(Event(type, o, o.price, previous, filled, 0, remaining))
    BY <1>1 DEF ValidTransition, Event
<1>5. /\ o.price \in Int /\ previous > 0
      /\ o.kind = "LIMIT" => o.price > 0
      /\ o.kind = "MARKET" => o.price = 0
    BY Prices DEF Priced, NoPrice, Order, Kind
<1> QED BY <1>2, <1>3, <1>4, <1>5, EventIsValid

\* A resting order is a limit order with a price and a quantity.
LEMMA RestingIsPriced ==
    ASSUME NEW o \in Order, CanRest(o)
    PROVE  /\ Priced(o) /\ o.price \in Int /\ o.price > 0 /\ o.kind = "LIMIT"
           /\ o.amount \in Int /\ o.amount > 0
BY Prices DEF CanRest, Priced, Order

\* One event of each other type.
LEMMA OtherEventsAreValid ==
    ASSUME NEW o, Priced(o)
    PROVE  /\ o.amount > 0 => RestingEvent(o) \in ValidEvents
           /\ o.amount > 0 => CanceledEvent(o) \in ValidEvents
           /\ \A n \in Int : n > 0 => RemainderCanceledEvent(o, n) \in ValidEvents
           /\ \A before \in Order : CanRest(before) /\ CanRest(o) => AmendedEvent(before, o) \in ValidEvents
<1>1. /\ o.price \in Int /\ o.amount \in Int
      /\ o.kind = "LIMIT" => o.price > 0
      /\ o.kind = "MARKET" => o.price = 0
    BY Prices DEF Priced, NoPrice, Order, Kind
<1>2. ASSUME o.amount > 0 PROVE RestingEvent(o) \in ValidEvents
  <2>1. ValidTransition(Event("RESTING", o, o.price, o.amount, 0, 0, o.amount))
      BY <1>1, <1>2 DEF ValidTransition, Event
  <2>2. "RESTING" \in EventType
      BY DEF EventType
  <2> QED BY <1>1, <1>2, <2>1, <2>2, EventIsValid DEF RestingEvent
<1>3. ASSUME o.amount > 0 PROVE CanceledEvent(o) \in ValidEvents
  <2>1. ValidTransition(Event("CANCELED", o, o.price, o.amount, 0, o.amount, 0))
      BY <1>1, <1>3 DEF ValidTransition, Event
  <2>2. "CANCELED" \in EventType
      BY DEF EventType
  <2> QED BY <1>1, <1>3, <2>1, <2>2, EventIsValid DEF CanceledEvent
<1>4. ASSUME NEW n \in Int, n > 0 PROVE RemainderCanceledEvent(o, n) \in ValidEvents
  <2>1. ValidTransition(Event("REMAINDER_CANCELED", o, o.price, n, 0, n, 0))
      BY <1>1, <1>4 DEF ValidTransition, Event
  <2>2. "REMAINDER_CANCELED" \in EventType
      BY DEF EventType
  <2> QED BY <1>1, <1>4, <2>1, <2>2, EventIsValid DEF RemainderCanceledEvent
<1>5. ASSUME NEW before \in Order, CanRest(before), CanRest(o)
      PROVE  AmendedEvent(before, o) \in ValidEvents
  <2>1. /\ before.price \in Int /\ before.price > 0 /\ before.amount \in Int /\ before.amount > 0
        /\ o.amount > 0 /\ o.kind = "LIMIT"
      BY <1>5, RestingIsPriced DEF CanRest
  <2>2. ValidTransition(Event("AMENDED", o, before.price, before.amount, 0, 0, o.amount))
      BY <1>1, <2>1 DEF ValidTransition, Event
  <2>3. "AMENDED" \in EventType
      BY DEF EventType
  <2> QED BY <1>1, <2>1, <2>2, <2>3, EventIsValid DEF AmendedEvent
<1> QED BY <1>2, <1>3, <1>4, <1>5

\* Sequences of valid events pass the check of builder.result().
LEMMA SequencesOfValidEvents ==
    /\ << >> \in Seq(ValidEvents)
    /\ \A ev \in ValidEvents : <<ev>> \in Seq(ValidEvents)
    /\ \A s \in Seq(ValidEvents) : AllValid(s)
BY DEF AllValid, ValidEvents

\* The events of an amend, of a cancel, and of a match.
LEMMA AmendEventsAreValid ==
    ASSUME NEW edit, edit.before = NoOrder \/ (/\ edit.before \in Order /\ CanRest(edit.before)
                                               /\ edit.after \in Order /\ CanRest(edit.after))
    PROVE  AmendEvents(edit) \in Seq(ValidEvents)
<1>1. CASE edit.before = NoOrder
    BY <1>1, SequencesOfValidEvents DEF AmendEvents
<1>2. CASE edit.before # NoOrder
  <2>1. AmendedEvent(edit.before, edit.after) \in ValidEvents
      BY <1>2, RestingIsPriced, OtherEventsAreValid
  <2> QED BY <1>2, <2>1, SequencesOfValidEvents DEF AmendEvents
<1> QED BY <1>1, <1>2

\* A cancel that removed nothing has no event.
LEMMA CancelEventsAreValid ==
    ASSUME NEW o, o = NoOrder \/ (o \in Order /\ CanRest(o))
    PROVE  CancelEvents(o) \in Seq(ValidEvents)
<1>1. CASE o = NoOrder
    BY <1>1, SequencesOfValidEvents DEF CancelEvents
<1>2. CASE o # NoOrder
  <2>1. CanceledEvent(o) \in ValidEvents
      BY <1>2, RestingIsPriced, OtherEventsAreValid
  <2> QED BY <1>2, <2>1, SequencesOfValidEvents DEF CancelEvents
<1> QED BY <1>1, <1>2

\* So are those of the executions of makers.
LEMMA MakerFillsAreValid ==
    ASSUME NEW fills \in Seq(MakerFills)
    PROVE  MakerFillEvents(fills) \in Seq(ValidEvents)
<1>1. ASSUME NEW i \in DOMAIN fills
      PROVE  FillEvent(fills[i].order, fills[i].order.amount, fills[i].filled, fills[i].remaining)
             \in ValidEvents
  <2>1. fills[i] \in MakerFills
      BY <1>1
  <2>2. /\ Priced(fills[i].order) /\ fills[i].filled \in Int /\ fills[i].remaining \in Int
        /\ fills[i].filled > 0 /\ fills[i].remaining >= 0
        /\ fills[i].order.amount = fills[i].filled + fills[i].remaining
        /\ fills[i].order.amount \in Int
      BY <2>1 DEF MakerFills, Order
  <2> QED BY <2>2, FillEventIsValid
<1>2. DOMAIN fills = 1..Len(fills) /\ Len(fills) \in Nat
    OBVIOUS
<1>3. MakerFillEvents(fills) \in [1..Len(fills) -> ValidEvents]
    BY <1>1, <1>2 DEF MakerFillEvents
<1> HIDE DEF MakerFillEvents
<1> QED BY <1>2, <1>3

\* The order that is matched and what is left of it.
TakerLeft(before, after) ==
    /\ Priced(before) /\ before.amount > 0
    /\ after \in Order /\ after.id = before.id /\ after.kind = before.kind
    /\ after.side = before.side /\ after.price = before.price
    /\ 0 <= after.amount /\ after.amount <= before.amount

\* What was taken from the taker and what is left add up to what it had.
LEMMA MatchEventsAreValid ==
    ASSUME NEW before, NEW after, TakerLeft(before, after),
           NEW fills \in Seq(MakerFills), NEW amended \in Seq(ValidEvents)
    PROVE  MatchEvents(before, after, fills, amended) \in Seq(ValidEvents)
<1>1. MakerFillEvents(fills) \in Seq(ValidEvents)
    BY MakerFillsAreValid
<1>2. PICK n : n = before.amount - after.amount
    OBVIOUS
<1>3. /\ before.amount \in Int /\ after.amount \in Int /\ n \in Int
      /\ before.amount = n + after.amount /\ Priced(before) /\ before.amount > 0 /\ after.amount >= 0
    BY <1>2 DEF TakerLeft, Priced, Order
<1>4. TakerFillEvents(before, n, after.amount) \in Seq(ValidEvents)
  <2>1. CASE n <= 0
      BY <2>1, SequencesOfValidEvents DEF TakerFillEvents
  <2>2. CASE n > 0
    <3>1. FillEvent(before, before.amount, n, after.amount) \in ValidEvents
        BY <1>3, <2>2, FillEventIsValid
    <3>2. ~(n <= 0)
        BY <1>3, <2>2
    <3> QED BY <3>1, <3>2, SequencesOfValidEvents DEF TakerFillEvents
  <2> QED BY <1>3, <2>1, <2>2
<1>5. PICK residual : residual =
            IF after.amount > 0 /\ after.kind = "MARKET"
            THEN <<RemainderCanceledEvent(before, after.amount)>>
            ELSE IF Rests(after) /\ n <= 0 /\ amended = << >> THEN <<RestingEvent(before)>>
            ELSE << >>
    OBVIOUS
<1>6. residual \in Seq(ValidEvents)
  <2>1. RestingEvent(before) \in ValidEvents
      BY <1>3, OtherEventsAreValid
  <2>2. after.amount > 0 => RemainderCanceledEvent(before, after.amount) \in ValidEvents
      BY <1>3, OtherEventsAreValid
  <2> QED BY <1>5, <2>1, <2>2, SequencesOfValidEvents
<1>7. MatchEvents(before, after, fills, amended)
      = amended \o MakerFillEvents(fills) \o TakerFillEvents(before, n, after.amount) \o residual
    BY <1>2, <1>5, Zenon DEF MatchEvents
<1>8. PICK s2, s3 : s2 = MakerFillEvents(fills) /\ s3 = TakerFillEvents(before, n, after.amount)
    OBVIOUS
<1>9. amended \o s2 \o s3 \o residual \in Seq(ValidEvents)
    BY <1>1, <1>4, <1>6, <1>8
<1> QED BY <1>7, <1>8, <1>9

-----------------------------------------------------------------------------
(* The invariant                                                           *)

\* The element that the next AddOrder of this command, or of a later one,
\* pushes has not been used.
FreshElements ==
    \A e \in Elem : e > sequence \/ (e = sequence /\ phase = "matching") => book.order[e] = NoOrder

\* A match has a taker with at most its quantity left, and what it has
\* collected so far makes valid events, like those that are published.
\* Between commands nothing is collected.
MatchInProgress ==
    /\ phase = "matching" => TakerLeft(beforeMatch, taker) /\ sequence \in Elem
    /\ makers \in Seq(MakerFills)
    /\ builder \in Seq(ValidEvents)
    /\ orderEvents \in Seq(ValidEvents)
    /\ phase = "idle" => makers = << >> /\ builder = << >>

\* The invariant: LevelsAgree alone is not inductive, since which levels a
\* removal may drop depends on every element being queued once, where its
\* order says.
Inv ==
    /\ TypeOK
    /\ Sound(book)
    /\ FreshElements
    /\ MatchInProgress
    /\ EventsNeverRejected

\* The book of a new worker.
LEMMA EmptyBookSound ==
    Sound(EmptyBook) /\ Indexed(EmptyBook) /\ \A id : ~Carries(EmptyBook, id)
<1>1. PICK b : b = EmptyBook
    OBVIOUS
<1>2. b = [levels |-> [s \in Side |-> {}],
           heap   |-> [s \in Side |-> {}],
           queue  |-> [s \in Side |-> [p \in Price |-> << >>]],
           total  |-> [s \in Side |-> [p \in Price |-> 0]],
           index  |-> [id \in OrderID |-> NoElem],
           order  |-> [e \in Elem |-> NoOrder]]
    BY <1>1 DEF EmptyBook
<1>3. << >> \in Seq(Elem)
    OBVIOUS
<1>4. /\ b.levels \in [Side -> SUBSET Price] /\ b.heap \in [Side -> SUBSET Price]
      /\ b.queue \in [Side -> [Price -> Seq(Elem)]] /\ b.total \in [Side -> [Price -> Int]]
      /\ b.index \in [OrderID -> Elem \cup {NoElem}] /\ b.order \in [Elem -> Order \cup {NoOrder}]
    BY <1>2, <1>3
<1>5. b \in Book
    BY <1>2, <1>4 DEF Book
<1>6. /\ \A s \in Side, p \in Price : b.queue[s][p] = << >> /\ p \notin b.heap[s] /\ p \notin b.levels[s]
      /\ \A e \in Elem : b.order[e] = NoOrder
      /\ \A id \in OrderID : b.index[id] = NoElem
    BY <1>2
<1>7. Sound(b)
    BY <1>5, <1>6 DEF Sound, LevelKnown, QueueOf, InOrder
<1>8. Indexed(b) /\ \A id : ~Carries(b, id)
    BY <1>6 DEF Indexed, Carries
<1> QED BY <1>1, <1>7, <1>8

\* The invariant holds initially.
LEMMA InitInv == Init => Inv
<1> SUFFICES ASSUME Init PROVE Inv
    OBVIOUS
<1>1. /\ book = EmptyBook /\ Sound(book) /\ sequence = 0 /\ phase = "idle" /\ taker = NoOrder
      /\ beforeMatch = NoOrder /\ makers = << >> /\ builder = << >> /\ issued = {}
      /\ orderEvents = << >>
    BY EmptyBookSound DEF Init
<1>2. book \in Book /\ \A e \in Elem : book.order[e] = NoOrder
  <2>1. \A e \in Elem : EmptyBook.order[e] = NoOrder
      BY DEF EmptyBook
  <2> QED BY <1>1, <2>1 DEF Sound
<1>3. TypeOK
    BY <1>1, <1>2, BookAssumption DEF TypeOK
<1>4. FreshElements
    BY <1>2 DEF FreshElements
<1>5. MatchInProgress
    BY <1>1, SequencesOfValidEvents DEF MatchInProgress
<1>6. EventsNeverRejected
    BY <1>1 DEF EventsNeverRejected
<1> QED BY <1>1, <1>3, <1>4, <1>5, <1>6 DEF Inv

\* A command that returns with valid events is over.
LEMMA ReturnFacts ==
    ASSUME NEW events \in Seq(ValidEvents), Return(events)
    PROVE  /\ phase' = "idle" /\ taker' = NoOrder /\ beforeMatch' = NoOrder
           /\ makers' = << >> /\ builder' = << >> /\ orderEvents' = orderEvents \o events
BY SequencesOfValidEvents DEF Return

\* What is left to show of such a step.
LEMMA ReturnInv ==
    ASSUME Inv, NEW events \in Seq(ValidEvents), Return(events),
           Sound(book'), sequence' \in 0..MaxElem, issued' \subseteq OrderID,
           \A e \in Elem : e > sequence' => book'.order[e] = NoOrder
    PROVE  Inv'
<1>1. /\ phase' = "idle" /\ taker' = NoOrder /\ beforeMatch' = NoOrder
      /\ makers' = << >> /\ builder' = << >>
    BY ReturnFacts
<1>2. TypeOK'
    BY <1>1 DEF TypeOK, Sound
<1>3. FreshElements'
    BY <1>1 DEF FreshElements
<1>4. MatchInProgress'
  <2>1. orderEvents' \in Seq(ValidEvents)
    <3>1. orderEvents \in Seq(ValidEvents) /\ orderEvents' = orderEvents \o events
        BY ReturnFacts DEF Inv, MatchInProgress
    <3> QED BY <3>1
  <2> QED BY <1>1, <2>1, SequencesOfValidEvents DEF MatchInProgress
<1>5. EventsNeverRejected'
    BY <1>1 DEF EventsNeverRejected
<1> QED BY <1>2, <1>3, <1>4, <1>5 DEF Inv

\* The step that starts a match of o.
LEMMA BeginMatchInv ==
    ASSUME Inv, NEW events \in Seq(ValidEvents), NEW o, BeginMatch(o, events),
           Priced(o), o.amount > 0,
           Sound(book'), sequence' \in Elem, issued' \subseteq OrderID,
           \A e \in Elem : e >= sequence' => book'.order[e] = NoOrder
    PROVE  Inv'
<1>1. /\ phase' = "matching" /\ taker' = o /\ beforeMatch' = o
      /\ makers' = makers /\ builder' = events /\ orderEvents' = orderEvents
    BY DEF BeginMatch
<1>2. o \in Order /\ o.amount \in Int /\ o # NoOrder /\ sequence' \in 0..MaxElem
    BY NoOrderAssumption, BookAssumption DEF Priced, Order, Elem
<1>3. TypeOK'
    BY <1>1, <1>2 DEF TypeOK, Sound
<1>4. FreshElements'
  <2>1. \A e \in Elem : e > sequence' \/ e = sequence' => e >= sequence'
      BY DEF Elem
  <2> QED BY <1>1, <2>1 DEF FreshElements
<1>5. MatchInProgress'
  <2>1. TakerLeft(o, o)
      BY <1>2 DEF TakerLeft
  <2> QED BY <1>1, <2>1 DEF MatchInProgress, Inv
<1>6. EventsNeverRejected'
    BY <1>1 DEF EventsNeverRejected
<1> QED BY <1>3, <1>4, <1>5, <1>6 DEF Inv

\* Every step of ApplyCommand keeps the invariant.
LEMMA StepInv == Inv /\ [Next]_vars => Inv'
<1> SUFFICES ASSUME Inv, [Next]_vars PROVE Inv'
    OBVIOUS
<1>0. /\ TypeOK /\ Sound(book) /\ FreshElements /\ MatchInProgress /\ EventsNeverRejected
      /\ sequence \in 0..MaxElem /\ MaxElem \in Nat /\ issued \subseteq OrderID
    BY BookAssumption DEF Inv, TypeOK
<1>1. ASSUME TakeCommand
      PROVE  /\ sequence' = sequence + 1 /\ sequence' \in Elem /\ sequence' \in 0..MaxElem
             /\ \A e \in Elem : e >= sequence' => book.order[e] = NoOrder
  <2>1. sequence' = sequence + 1 /\ sequence < MaxElem
      BY <1>1 DEF TakeCommand
  <2>2. sequence' \in Elem /\ sequence' \in 0..MaxElem
      BY <1>0, <2>1 DEF Elem
  <2>3. \A e \in Elem : e >= sequence' => e > sequence
      BY <1>0, <2>1 DEF Elem
  <2> QED BY <1>0, <2>1, <2>2, <2>3 DEF FreshElements
<1>2. CASE Create
  <2>1. PICK kind, side, limit, amount, nonce, price, o :
            /\ kind \in Kind /\ side \in Side /\ limit \in Price /\ amount \in Amount /\ nonce \in Nonce
            /\ price = IF kind = "LIMIT" THEN limit ELSE NoPrice
            /\ o = CreateOrder(kind, side, price, amount, nonce)
            /\ issued' = issued \cup {o.id}
            /\ BeginMatch(o, << >>)
      BY <1>2 DEF Create
  <2>2. TakeCommand /\ book' = book
      BY <1>2 DEF Create
  <2>3. amount \in Int /\ amount > 0
    <3>1. MaxInt64 \in Nat /\ Amount \subseteq 1..MaxInt64
        BY WidthAssumption
    <3>2. \A a \in 1..MaxInt64 : a \in Int /\ a > 0
        BY <3>1
    <3> QED BY <2>1, <3>1, <3>2
  <2>4. price \in Price \cup {NoPrice}
      BY <2>1
  <2>5. o = [id |-> [kind |-> kind, side |-> side, price |-> price, nonce |-> nonce],
             kind |-> kind, side |-> side, price |-> price, amount |-> amount]
      BY <2>1 DEF CreateOrder
  <2>6. o.id \in OrderID
      BY <2>1, <2>4, <2>5 DEF OrderID
  <2>7. o \in Order
      BY <2>1, <2>3, <2>4, <2>5, <2>6 DEF Order
  <2>8. Priced(o) /\ o.amount > 0
      BY <2>1, <2>3, <2>5, <2>7 DEF Priced
  <2>9. issued' \subseteq OrderID
      BY <1>0, <2>1, <2>6
  <2> QED BY <1>0, <1>1, <2>1, <2>2, <2>8, <2>9, SequencesOfValidEvents, BeginMatchInv
<1>3. CASE Amend
  <2>1. TakeCommand /\ issued' = issued
      BY <1>3 DEF Amend
  <2>2. PICK id, price, amount, edit, events :
            /\ id \in issued /\ price \in Price /\ amount \in Amount \cup {NoAmount}
            /\ edit = EditOrder(book, sequence + 1, id, price, amount)
            /\ events = AmendEvents(edit)
            /\ book' = edit.book
            /\ IF edit.rematch THEN BeginMatch(edit.after, events) ELSE Return(events)
      BY <1>3 DEF Amend
  <2>3. PICK e : e = sequence'
      OBVIOUS
  <2>4. /\ e \in Elem /\ id \in OrderID
        /\ \A x \in Elem : x >= e => book.order[x] = NoOrder
        /\ edit = EditOrder(book, e, id, price, amount)
      BY <1>0, <1>1, <2>1, <2>2, <2>3 DEF Elem
  <2>5. /\ Keeps(book, book')
        /\ \A x \in Elem : book'.order[x] # NoOrder => book.order[x] # NoOrder \/ x = e
        /\ \/ edit.before = NoOrder /\ ~edit.rematch
           \/ /\ edit.before \in Order /\ CanRest(edit.before)
              /\ edit.after \in Order /\ CanRest(edit.after)
        /\ edit.rematch => book'.order[e] = NoOrder
      BY <1>0, <2>2, <2>4, EditOrderKeeps
  <2>6. events \in Seq(ValidEvents)
      BY <2>2, <2>5, AmendEventsAreValid
  <2>7. Sound(book')
      BY <2>5 DEF Keeps
  <2>8. \A x \in Elem : x >= e /\ x # e => book'.order[x] = NoOrder
      BY <1>1, <2>1, <2>3, <2>5
  <2>9. CASE edit.rematch
    <3>0. edit.after \in Order /\ CanRest(edit.after)
        BY <2>5, <2>9
    <3>1. Priced(edit.after) /\ edit.after.amount > 0
        BY <3>0, RestingIsPriced
    <3>2. \A x \in Elem : x >= sequence' => book'.order[x] = NoOrder
        BY <2>3, <2>5, <2>8, <2>9
    <3>3. BeginMatch(edit.after, events)
        BY <2>2, <2>9
    <3> QED BY <1>0, <1>1, <2>1, <2>6, <2>7, <3>1, <3>2, <3>3, BeginMatchInv
  <2>10. CASE ~edit.rematch
    <3>1. \A x \in Elem : x > sequence' => book'.order[x] = NoOrder
      <4>1. \A x \in Elem : x > e => x >= e /\ x # e
          BY <2>4 DEF Elem
      <4> QED BY <2>3, <2>8, <4>1
    <3>2. Return(events)
        BY <2>2, <2>10
    <3> QED BY <1>0, <1>1, <2>1, <2>6, <2>7, <3>1, <3>2, ReturnInv
  <2> QED BY <2>9, <2>10
<1>4. CASE Cancel
  <2>1. TakeCommand /\ issued' = issued
      BY <1>4 DEF Cancel
  <2>2. PICK id, result :
            /\ id \in issued
            /\ result = RemoveOrder(book, id)
            /\ book' = result.book
            /\ Return(CancelEvents(result.removed))
      BY <1>4 DEF Cancel
  <2>3. /\ Keeps(book, book') /\ Shrinks(book, book')
        /\ result.removed = NoOrder \/ (result.removed \in Order /\ CanRest(result.removed))
    <3>1. id \in OrderID
        BY <1>0, <2>2
    <3> QED BY <1>0, <2>2, <3>1, RemoveOrderKeeps
  <2>4. CancelEvents(result.removed) \in Seq(ValidEvents)
      BY <2>3, CancelEventsAreValid
  <2>5. Sound(book') /\ \A x \in Elem : book'.order[x] # NoOrder => book.order[x] # NoOrder
      BY <2>3 DEF Keeps, Shrinks
  <2>6. \A x \in Elem : x > sequence' => book'.order[x] = NoOrder
    <3>1. \A x \in Elem : x > sequence' => x >= sequence'
        BY <1>0, <1>1, <2>1 DEF Elem
    <3> QED BY <1>1, <2>1, <2>5, <3>1
  <2> QED BY <1>0, <1>1, <2>1, <2>2, <2>4, <2>5, <2>6, ReturnInv
<1>5. CASE Fill
  <2>1. /\ phase = "matching" /\ CanFill(book, taker)
        /\ book' = BookAfterFill(book, taker)
        /\ taker' = TakerAfterFill(book, taker)
        /\ makers' = Append(makers, MakerFill(book, taker))
        /\ sequence' = sequence /\ phase' = phase /\ beforeMatch' = beforeMatch
        /\ builder' = builder /\ issued' = issued /\ orderEvents' = orderEvents
      BY <1>5 DEF Fill
  <2>2. TakerLeft(beforeMatch, taker) /\ taker \in Order /\ taker.amount \in Int
      BY <1>0, <2>1 DEF MatchInProgress, TakerLeft, Order
  <2>3. Keeps(book, book') /\ Shrinks(book, book')
      BY <1>0, <2>1, <2>2, FillKeeps
  <2>4. PICK m, n : m = Maker(book, taker) /\ n = TradeAmount(book, taker)
      OBVIOUS
  <2>5. /\ m \in Order /\ CanRest(m) /\ n \in Int /\ n > 0 /\ n <= taker.amount /\ n <= m.amount
    <3>1. /\ MakerElem(book, taker) \in Elem /\ m = book.order[MakerElem(book, taker)] /\ m # NoOrder
          /\ m \in Order /\ n \in Int /\ n > 0 /\ n <= taker.amount /\ n <= m.amount
        BY <1>0, <2>1, <2>2, <2>4, FillFacts
    <3> QED BY <1>0, <3>1 DEF Sound
  <2>6. taker' = [taker EXCEPT !.amount = @ - n]
      BY <2>1, <2>4 DEF TakerAfterFill
  <2>7. TakerLeft(beforeMatch, taker')
    <3>1. taker' = [id |-> taker.id, kind |-> taker.kind, side |-> taker.side,
                    price |-> taker.price, amount |-> taker.amount - n]
        BY <2>2, <2>6 DEF Order
    <3>2. taker' \in Order
        BY <2>2, <2>5, <3>1 DEF Order
    <3>3. beforeMatch.amount \in Int
        BY <2>2 DEF TakerLeft, Priced, Order
    <3> QED BY <2>2, <2>5, <3>1, <3>2, <3>3 DEF TakerLeft
  <2>8. MakerFill(book, taker) \in MakerFills
    <3>1. MakerFill(book, taker) = [order |-> m, filled |-> n, remaining |-> m.amount - n]
        BY <2>4 DEF MakerFill
    <3>2. Priced(m) /\ m.amount \in Int
        BY <2>5, RestingIsPriced
    <3> QED BY <2>5, <3>1, <3>2 DEF MakerFills
  <2>9. Sound(book') /\ \A x \in Elem : book'.order[x] # NoOrder => book.order[x] # NoOrder
      BY <2>3 DEF Keeps, Shrinks
  <2>10. TypeOK'
    <3>1. taker' \in Order /\ taker' # NoOrder
        BY <2>7, NoOrderAssumption DEF TakerLeft
    <3> QED BY <1>0, <2>1, <2>9, <3>1 DEF TypeOK, Sound
  <2>11. FreshElements'
      BY <1>0, <2>1, <2>9 DEF FreshElements
  <2>12. MatchInProgress'
    <3>1. makers' \in Seq(MakerFills)
        BY <1>0, <2>1, <2>8 DEF MatchInProgress
    <3> QED BY <1>0, <2>1, <2>7, <3>1 DEF MatchInProgress
  <2>13. EventsNeverRejected'
      BY <1>0, <2>1 DEF EventsNeverRejected
  <2> QED BY <2>9, <2>10, <2>11, <2>12, <2>13 DEF Inv
<1>6. CASE QuoteOverflow
  <2>1. /\ phase' = "overflow" /\ book' = book /\ sequence' = sequence /\ issued' = issued
        /\ taker' = taker /\ beforeMatch' = beforeMatch /\ makers' = makers /\ builder' = builder
        /\ orderEvents' = orderEvents
      BY <1>6 DEF QuoteOverflow, command
  <2>2. TypeOK'
      BY <1>0, <2>1 DEF TypeOK
  <2>3. FreshElements'
      BY <1>0, <2>1 DEF FreshElements
  <2>4. MatchInProgress'
      BY <1>0, <2>1 DEF MatchInProgress
  <2>5. EventsNeverRejected'
      BY <2>1 DEF EventsNeverRejected
  <2> QED BY <1>0, <2>1, <2>2, <2>3, <2>4, <2>5 DEF Inv
<1>7. CASE Settle
  <2>1. /\ phase = "matching"
        /\ book' = (IF Rests(taker) THEN AddOrder(book, sequence, taker) ELSE book)
        /\ Return(MatchEvents(beforeMatch, taker, makers, builder))
        /\ sequence' = sequence /\ issued' = issued
      BY <1>7 DEF Settle
  <2>2. TakerLeft(beforeMatch, taker) /\ taker \in Order /\ sequence \in Elem
      BY <1>0, <2>1 DEF MatchInProgress, TakerLeft
  <2>3. MatchEvents(beforeMatch, taker, makers, builder) \in Seq(ValidEvents)
      BY <1>0, <2>2, MatchEventsAreValid DEF MatchInProgress
  <2>4. \A e \in Elem : e >= sequence => book.order[e] = NoOrder
    <3>1. \A e \in Elem : e >= sequence => e > sequence \/ e = sequence
        BY <2>2 DEF Elem
    <3> QED BY <1>0, <2>1, <3>1 DEF FreshElements
  <2>5. CASE Rests(taker)
    <3>1. CanRest(taker)
        BY <2>2, <2>5 DEF Rests, TakerLeft, Priced, CanRest
    <3>2. Grows(book, book', sequence, taker)
      <4>1. Links(book, book', sequence, taker)
          BY <1>0, <2>1, <2>2, <2>5, <3>1, AddOrderLinks
      <4> QED BY <1>0, <2>2, <2>4, <3>1, <4>1, LinkGrows
    <3>3. /\ Sound(book')
          /\ \A x \in Elem : book'.order[x] # NoOrder => book.order[x] # NoOrder \/ x = sequence
        BY <3>2 DEF Grows
    <3>4. \A x \in Elem : x > sequence => x # sequence /\ x >= sequence
        BY <2>2 DEF Elem
    <3>5. \A x \in Elem : x > sequence' => book'.order[x] = NoOrder
        BY <2>1, <2>4, <3>3, <3>4
    <3> QED BY <1>0, <2>1, <2>3, <3>3, <3>5, ReturnInv
  <2>6. CASE ~Rests(taker)
    <3>1. \A x \in Elem : x > sequence => x >= sequence
        BY <2>2 DEF Elem
    <3>2. \A x \in Elem : x > sequence' => book'.order[x] = NoOrder
        BY <2>1, <2>4, <2>6, <3>1
    <3> QED BY <1>0, <2>1, <2>3, <2>6, <3>2, ReturnInv
  <2> QED BY <2>5, <2>6
<1>8. CASE UNCHANGED vars
    BY <1>0, <1>8 DEF Inv, TypeOK, FreshElements, MatchInProgress, EventsNeverRejected, vars, command
<1> QED BY <1>2, <1>3, <1>4, <1>5, <1>6, <1>7, <1>8 DEF Next

-----------------------------------------------------------------------------
(* One order per id, when nonces are unique                                *)

\* The order being matched is issued and does not rest already.
IdsUnique ==
    UniqueNonces =>
        /\ Indexed(book)
        /\ \A id : Carries(book, id) => id \in issued
        /\ phase = "matching" => taker.id \in issued /\ ~Carries(book, taker.id)

\* Every step keeps this: only a create brings an id, and it brings a new one.
LEMMA StepIds == Inv /\ Inv' /\ IdsUnique /\ [Next]_vars => IdsUnique'
<1> SUFFICES ASSUME Inv, Inv', IdsUnique, UniqueNonces, [Next]_vars
             PROVE  /\ Indexed(book')
                    /\ \A id : Carries(book', id) => id \in issued'
                    /\ phase' = "matching" => taker'.id \in issued' /\ ~Carries(book', taker'.id)
    BY DEF IdsUnique
<1>0. /\ Sound(book) /\ FreshElements /\ MatchInProgress
      /\ sequence \in 0..MaxElem /\ MaxElem \in Nat /\ issued \subseteq OrderID
      /\ Indexed(book)
      /\ \A id : Carries(book, id) => id \in issued
      /\ phase = "matching" => taker.id \in issued /\ ~Carries(book, taker.id)
    BY BookAssumption DEF Inv, TypeOK, IdsUnique
<1>1. CASE Create
  <2>1. PICK o : o.id \notin issued /\ issued' = issued \cup {o.id} /\ BeginMatch(o, << >>)
      BY <1>1 DEF Create
  <2>2. taker' = o /\ book' = book
      BY <1>1, <2>1 DEF Create, BeginMatch
  <2> QED BY <1>0, <2>1, <2>2
<1>2. CASE Amend
  <2>1. TakeCommand /\ issued' = issued
      BY <1>2 DEF Amend
  <2>2. PICK id, price, amount, edit, events :
            /\ id \in issued /\ price \in Price /\ amount \in Amount \cup {NoAmount}
            /\ edit = EditOrder(book, sequence + 1, id, price, amount)
            /\ book' = edit.book
            /\ IF edit.rematch THEN BeginMatch(edit.after, events) ELSE Return(events)
      BY <1>2 DEF Amend
  <2>3. PICK e : e = sequence + 1
      OBVIOUS
  <2>4. /\ e \in Elem /\ e > sequence /\ id \in OrderID
        /\ edit = EditOrder(book, e, id, price, amount)
      BY <1>0, <2>1, <2>2, <2>3 DEF Elem, TakeCommand
  <2>5. \A x \in Elem : x >= e => book.order[x] = NoOrder
    <3>1. \A x \in Elem : x >= e => x > sequence
        BY <1>0, <2>3 DEF Elem
    <3> QED BY <1>0, <3>1 DEF FreshElements
  <2>6. /\ Keeps(book, book')
        /\ \A i : Carries(book', i) => Carries(book, i)
        /\ \/ edit.before = NoOrder /\ ~edit.rematch
           \/ Carries(book, edit.after.id)
        /\ edit.rematch => (Indexed(book) => ~Carries(book', edit.after.id))
      BY <1>0, <2>2, <2>4, <2>5, EditOrderKeeps
  <2>7. Indexed(book')
      BY <1>0, <2>6 DEF Keeps
  <2>8. CASE edit.rematch
    <3>1. taker' = edit.after
        BY <2>2, <2>8 DEF BeginMatch
    <3> QED BY <1>0, <2>1, <2>6, <2>7, <2>8, <3>1
  <2>9. CASE ~edit.rematch
    <3>1. phase' # "matching"
        BY <2>2, <2>9 DEF Return
    <3> QED BY <1>0, <2>1, <2>6, <2>7, <3>1
  <2> QED BY <2>8, <2>9
<1>3. CASE Cancel
  <2>1. PICK id, result :
            /\ id \in issued
            /\ result = RemoveOrder(book, id)
            /\ book' = result.book
            /\ Return(CancelEvents(result.removed))
      BY <1>3 DEF Cancel
  <2>2. issued' = issued /\ phase' # "matching"
      BY <1>3, <2>1 DEF Cancel, Return
  <2>3. Keeps(book, book') /\ Shrinks(book, book')
    <3>1. id \in OrderID
        BY <1>0, <2>1
    <3> QED BY <1>0, <2>1, <3>1, RemoveOrderKeeps
  <2>4. Indexed(book') /\ \A i : Carries(book', i) => Carries(book, i)
      BY <1>0, <2>3 DEF Keeps, Shrinks
  <2> QED BY <1>0, <2>2, <2>4
<1>4. CASE Fill
  <2>1. /\ phase = "matching" /\ CanFill(book, taker)
        /\ book' = BookAfterFill(book, taker)
        /\ taker' = TakerAfterFill(book, taker)
        /\ issued' = issued
      BY <1>4 DEF Fill
  <2>2. TakerLeft(beforeMatch, taker) /\ taker \in Order
      BY <1>0, <2>1 DEF MatchInProgress, TakerLeft
  <2>3. Keeps(book, book') /\ Shrinks(book, book')
      BY <1>0, <2>1, <2>2, FillKeeps
  <2>4. Indexed(book') /\ \A i : Carries(book', i) => Carries(book, i)
      BY <1>0, <2>3 DEF Keeps, Shrinks
  <2>5. taker'.id = taker.id
      BY <2>1, <2>2 DEF TakerAfterFill, Order
  <2> QED BY <1>0, <2>1, <2>4, <2>5
<1>5. CASE QuoteOverflow
    BY <1>0, <1>5 DEF QuoteOverflow
<1>6. CASE Settle
  <2>1. /\ phase = "matching"
        /\ book' = (IF Rests(taker) THEN AddOrder(book, sequence, taker) ELSE book)
        /\ issued' = issued /\ phase' # "matching"
      BY <1>6 DEF Settle, Return
  <2>2. TakerLeft(beforeMatch, taker) /\ taker \in Order /\ sequence \in Elem
      BY <1>0, <2>1 DEF MatchInProgress, TakerLeft
  <2>3. CASE Rests(taker)
    <3>0. \A x \in Elem : x >= sequence => x > sequence \/ x = sequence
        BY <2>2 DEF Elem
    <3>1. CanRest(taker) /\ \A x \in Elem : x >= sequence => book.order[x] = NoOrder
        BY <1>0, <2>1, <2>2, <2>3, <3>0 DEF Rests, TakerLeft, Priced, CanRest, FreshElements
    <3>2. Links(book, book', sequence, taker)
        BY <1>0, <2>1, <2>2, <2>3, <3>1, AddOrderLinks
    <3>3. Grows(book, book', sequence, taker)
        BY <1>0, <2>2, <3>1, <3>2, LinkGrows
    <3>4. /\ Indexed(book')
          /\ \A id : Carries(book', id) => Carries(book, id) \/ id = taker.id
        BY <1>0, <2>1, <3>3 DEF Grows
    <3> QED BY <1>0, <2>1, <3>4
  <2>4. CASE ~Rests(taker)
      BY <1>0, <2>1, <2>4
  <2> QED BY <2>3, <2>4
<1>7. CASE UNCHANGED vars
    BY <1>0, <1>7 DEF vars, command
<1> QED BY <1>1, <1>2, <1>3, <1>4, <1>5, <1>6, <1>7 DEF Next

\* The totals of the book, which may have overflowed.
BookTotalled == Totalled(book)

\* Every step keeps them: an operation moves the total of one level by what it
\* moves in that level's queue.
LEMMA StepTotals == Inv /\ BookTotalled /\ [Next]_vars => BookTotalled'
<1> SUFFICES ASSUME Inv, Totalled(book), [Next]_vars PROVE Totalled(book')
    BY DEF BookTotalled
<1>0. /\ Sound(book) /\ FreshElements /\ MatchInProgress
      /\ sequence \in 0..MaxElem /\ MaxElem \in Nat /\ issued \subseteq OrderID
    BY BookAssumption DEF Inv, TypeOK
<1>1. CASE Amend
  <2>1. TakeCommand
      BY <1>1 DEF Amend
  <2>2. PICK id, price, amount, edit :
            /\ id \in issued /\ price \in Price /\ amount \in Amount \cup {NoAmount}
            /\ edit = EditOrder(book, sequence + 1, id, price, amount)
            /\ book' = edit.book
      BY <1>1 DEF Amend
  <2>3. PICK e : e = sequence + 1
      OBVIOUS
  <2>4. /\ e \in Elem /\ id \in OrderID
        /\ edit = EditOrder(book, e, id, price, amount)
      BY <1>0, <2>1, <2>2, <2>3 DEF Elem, TakeCommand
  <2>5. \A x \in Elem : x >= e => book.order[x] = NoOrder
    <3>1. \A x \in Elem : x >= e => x > sequence
        BY <1>0, <2>3 DEF Elem
    <3> QED BY <1>0, <3>1 DEF FreshElements
  <2>6. Keeps(book, book')
      BY <1>0, <2>2, <2>4, <2>5, EditOrderKeeps
  <2> QED BY <2>6 DEF Keeps
<1>2. CASE Cancel
  <2>1. PICK id : id \in issued /\ book' = RemoveOrder(book, id).book
      BY <1>2 DEF Cancel
  <2>2. Keeps(book, book')
    <3>1. id \in OrderID
        BY <1>0, <2>1
    <3> QED BY <1>0, <2>1, <3>1, RemoveOrderKeeps
  <2> QED BY <2>2 DEF Keeps
<1>3. CASE Fill
  <2>1. phase = "matching" /\ CanFill(book, taker) /\ book' = BookAfterFill(book, taker)
      BY <1>3 DEF Fill
  <2>2. taker \in Order
      BY <1>0, <2>1 DEF MatchInProgress, TakerLeft
  <2>3. Keeps(book, book')
      BY <1>0, <2>1, <2>2, FillKeeps
  <2> QED BY <2>3 DEF Keeps
<1>4. CASE Settle
  <2>1. /\ phase = "matching"
        /\ book' = (IF Rests(taker) THEN AddOrder(book, sequence, taker) ELSE book)
      BY <1>4 DEF Settle
  <2>2. TakerLeft(beforeMatch, taker) /\ taker \in Order /\ sequence \in Elem
      BY <1>0, <2>1 DEF MatchInProgress, TakerLeft
  <2>3. CASE Rests(taker)
    <3>0. \A x \in Elem : x >= sequence => x > sequence \/ x = sequence
        BY <2>2 DEF Elem
    <3>1. CanRest(taker) /\ \A x \in Elem : x >= sequence => book.order[x] = NoOrder
        BY <1>0, <2>1, <2>2, <2>3, <3>0 DEF Rests, TakerLeft, Priced, CanRest, FreshElements
    <3>2. Links(book, book', sequence, taker)
        BY <1>0, <2>1, <2>2, <2>3, <3>1, AddOrderLinks
    <3>3. Grows(book, book', sequence, taker)
        BY <1>0, <2>2, <3>1, <3>2, LinkGrows
    <3> QED BY <3>3 DEF Grows
  <2>4. CASE ~Rests(taker)
      BY <2>1, <2>4
  <2> QED BY <2>3, <2>4
<1>5. CASE UNCHANGED book
    BY <1>5
<1> QED BY <1>1, <1>2, <1>3, <1>4, <1>5 DEF Next, Create, QuoteOverflow, vars

-----------------------------------------------------------------------------
(* The match logs                                                          *)

\* Logs are sequences, and a worker between commands holds neither an order
\* nor logs.
LogsHeld ==
    /\ logs \in Seq(LogRecord) /\ matchLogs \in Seq(LogRecord)
    /\ phase = "idle" => taker = NoOrder /\ logs = << >>

\* A fill's log is a log.
LEMMA MatchLogTyped ==
    ASSUME NEW b, Sound(b), NEW o \in Order, CanFill(b, o), NEW command_ \in Nat, NEW position \in Nat
    PROVE  MatchLog(b, o, command_, position) \in LogRecord
<1>1. PICK p, n, m : p = OppositeBest(b, o) /\ n = TradeAmount(b, o) /\ m = Maker(b, o)
    OBVIOUS
<1>2. p \in Price /\ n \in Int /\ m \in Order
    BY <1>1, FillFacts
<1>3. m.id \in OrderID /\ o.id \in OrderID
    BY <1>2 DEF Order
<1>4. QuoteAmount(p, n) \in Int
  <2>1. p \in Int /\ QuotePow \in Int /\ BasePow \in Nat \ {0}
      BY <1>2, Prices, BookAssumption
  <2>2. p * n * QuotePow \in Int
      BY <1>2, <2>1
  <2>3. ASSUME NEW x \in Int, NEW d \in Nat \ {0} PROVE x \div d \in Int
      OBVIOUS
  <2> QED BY <2>1, <2>2, <2>3 DEF QuoteAmount
<1>5. MatchLog(b, o, command_, position)
      = [taker |-> o.id, command |-> command_, position |-> position, maker |-> m.id,
         price |-> p, amount |-> n, quote |-> QuoteAmount(p, n)]
    BY <1>1 DEF MatchLog
<1> QED BY <1>2, <1>3, <1>4, <1>5 DEF LogRecord

\* A new worker has no logs.
LEMMA LogsInit == Init => LogsHeld
BY DEF Init, LogsHeld

\* Fills add logs to the result; Settle moves them out and ends the command.
LEMMA LogsStep == Inv /\ Inv' /\ LogsHeld /\ [Next]_vars => LogsHeld'
<1> SUFFICES ASSUME Inv, Inv', LogsHeld, [Next]_vars PROVE LogsHeld'
    OBVIOUS
<1>1. CASE Create
    BY <1>1 DEF Create, BeginMatch, LogsHeld
<1>2. ASSUME NEW events, Return(events), matchLogs' = matchLogs PROVE LogsHeld'
    BY <1>2 DEF Return, LogsHeld
<1>3. CASE Amend
  <2>1. \E edit, events : IF edit.rematch THEN BeginMatch(edit.after, events) ELSE Return(events)
      BY <1>3 DEF Amend
  <2>2. matchLogs' = matchLogs
      BY <1>3 DEF Amend
  <2>3. ASSUME NEW o, NEW events, BeginMatch(o, events) PROVE LogsHeld'
      BY <2>2, <2>3 DEF BeginMatch, LogsHeld
  <2> QED BY <1>2, <2>1, <2>2, <2>3
<1>4. CASE Cancel
    BY <1>2, <1>4 DEF Cancel
<1>5. CASE Fill
  <2>1. /\ phase = "matching" /\ CanFill(book, taker) /\ matchLogs' = matchLogs /\ phase' = phase
        /\ logs' = Append(logs, MatchLog(book, taker, sequence, Len(logs)))
      BY <1>5 DEF Fill
  <2>2. taker \in Order /\ sequence \in Nat /\ Sound(book)
      BY <2>1, BookAssumption DEF Inv, TypeOK, MatchInProgress, TakerLeft
  <2>3. logs \in Seq(LogRecord) /\ Len(logs) \in Nat
      BY DEF LogsHeld
  <2>4. MatchLog(book, taker, sequence, Len(logs)) \in LogRecord
      BY <2>1, <2>2, <2>3, MatchLogTyped
  <2>5. logs' \in Seq(LogRecord)
      BY <2>1, <2>3, <2>4
  <2> QED BY <2>1, <2>5 DEF LogsHeld
<1>6. CASE QuoteOverflow
    BY <1>6 DEF QuoteOverflow, command, LogsHeld
<1>7. CASE Settle
  <2>1. matchLogs' = matchLogs \o logs
      BY <1>7 DEF Settle
  <2>2. matchLogs' \in Seq(LogRecord)
      BY <2>1 DEF LogsHeld
  <2>3. logs' = << >> /\ taker' = NoOrder
      BY <1>7 DEF Settle, Return
  <2> QED BY <2>2, <2>3 DEF LogsHeld
<1>8. CASE UNCHANGED vars
    BY <1>8 DEF vars, command, LogsHeld
<1> QED BY <1>1, <1>3, <1>4, <1>5, <1>6, <1>7, <1>8 DEF Next

-----------------------------------------------------------------------------
(* The theorems                                                            *)

\* The invariant holds always.
LEMMA Invariance == Spec => []Inv
<1>1. Init => Inv
    BY InitInv
<1>2. Inv /\ [Next]_vars => Inv'
    BY StepInv
<1> QED BY <1>1, <1>2, PTL DEF Spec

(***************************************************************************)
(* The book and the command in progress have their types, and a match      *)
(* under way has a taker.                                                  *)
(***************************************************************************)
THEOREM TypeCorrect == Spec => []TypeOK
<1>1. Inv => TypeOK
    BY DEF Inv
<1> QED BY <1>1, Invariance, PTL

(***************************************************************************)
(* Whatever commands are executed, the map, the heap and the queues of     *)
(* both sides name the same price levels, between the iterations of a      *)
(* match too.                                                              *)
(***************************************************************************)
THEOREM LevelsAlwaysAgree == Spec => []LevelsAgree
<1>1. Inv => LevelsAgree
  <2> SUFFICES ASSUME Inv, NEW s \in Side
               PROVE  /\ book.heap[s] = book.levels[s]
                      /\ book.levels[s] = {p \in Price : book.queue[s][p] # << >>}
      BY DEF LevelsAgree
  <2>1. book.heap[s] \subseteq Price /\ book.levels[s] \subseteq Price
    <3>1. book.heap \in [Side -> SUBSET Price] /\ book.levels \in [Side -> SUBSET Price]
        BY DEF Inv, Sound, Book
    <3> QED BY <3>1
  <2>2. \A p \in Price : /\ p \in book.heap[s] <=> book.queue[s][p] # << >>
                         /\ p \in book.levels[s] <=> book.queue[s][p] # << >>
      BY DEF Inv, Sound, LevelKnown
  <2> QED BY <2>1, <2>2
<1> QED BY <1>1, Invariance, PTL

(***************************************************************************)
(* No sequence of valid commands makes applyCommand build an event that    *)
(* its own writer rejects.                                                 *)
(***************************************************************************)
THEOREM EventsAreAlwaysValid == Spec => []EventsNeverRejected
<1>1. Inv => EventsNeverRejected
    BY DEF Inv
<1> QED BY <1>1, Invariance, PTL

(***************************************************************************)
(* While clients do not reuse nonces, the Index names exactly the resting  *)
(* orders, each under its own id.                                          *)
(***************************************************************************)
THEOREM IndexAlwaysExact == Spec => [](UniqueNonces => IndexExact)
<1>1. Init => IdsUnique
    BY EmptyBookSound DEF Init, IdsUnique
<1>2. Inv /\ Inv' /\ IdsUnique /\ [Next]_vars => IdsUnique'
    BY StepIds
<1>3. Inv /\ IdsUnique => (UniqueNonces => IndexExact)
  <2> SUFFICES ASSUME Inv, Indexed(book) PROVE IndexExact
      BY DEF IdsUnique
  <2>1. book.index \in [OrderID -> Elem \cup {NoElem}]
      BY DEF Inv, Sound, Book
  <2> QED BY <2>1 DEF Indexed, IndexExact, Resting
<1> QED BY <1>1, <1>2, <1>3, Invariance, PTL DEF Spec

\* The totals are exact modulo 2^64 in every reachable state.
LEMMA InvariantTotals == Spec => [](Inv /\ BookTotalled)
<1>1. Init => BookTotalled
  <2> SUFFICES ASSUME Init PROVE Totalled(book)
      BY DEF BookTotalled
  <2>1. PICK b : b = EmptyBook
      OBVIOUS
  <2>2. book = b /\ Sound(b)
      BY <2>1, EmptyBookSound DEF Init
  <2>3. \A s \in Side, p \in Price : b.total[s][p] = 0 /\ b.queue[s][p] = << >>
      BY <2>1 DEF EmptyBook
  <2>4. Wrap(0) = 0
      BY WidthAssumption, WrapFits
  <2>5. \A s \in Side, p \in Price : Quantity(b, s, p) = 0
      BY <2>2, <2>3, NothingHeld
  <2> QED BY <2>2, <2>3, <2>4, <2>5 DEF Totalled
<1>2. Inv /\ BookTotalled /\ [Next]_vars => BookTotalled'
    BY StepTotals
<1> QED BY <1>1, <1>2, Invariance, PTL DEF Spec

\* What the orders of every level have left fits an int64.
QuantitiesFit == \A s \in Side, p \in Price : SumSeq(QueueAmounts(book, book.queue[s][p])) <= MaxInt64

\* The amounts that are added up at a level.
TotalOf(s, p) == SumSeq(QueueAmounts(book, book.queue[s][p]))

(***************************************************************************)
(* Whatever commands are executed, the total of each level is the sum of   *)
(* what its orders have left, in the arithmetic of int64; and it is that   *)
(* sum itself in every state in which the sums fit, even when they did not *)
(* earlier: the deltas that fills, cancels and edits apply never drift     *)
(* from the queue.                                                         *)
(***************************************************************************)
THEOREM TotalsAlwaysExact ==
    Spec => [](TotalsExact /\ (QuantitiesFit => \A s \in Side, p \in Price : book.total[s][p] = TotalOf(s, p)))
<1>1. ASSUME Inv, Totalled(book), NEW s \in Side, NEW p \in Price
      PROVE  /\ book.total[s][p] = Wrap(TotalOf(s, p))
             /\ QuantitiesFit => book.total[s][p] = TotalOf(s, p)
  <2>1. PICK q, a : q = book.queue[s][p] /\ a = QueueAmounts(book, q)
      OBVIOUS
  <2>2. SumSeq(a) = Quantity(book, s, p) /\ 0 <= SumSeq(a) /\ SumSeq(a) \in Int
      BY <1>1, <2>1, QueueQuantity DEF Inv
  <2>3. book.total[s][p] = Wrap(SumSeq(a)) /\ TotalOf(s, p) = SumSeq(a)
      BY <1>1, <2>1, <2>2 DEF Totalled, TotalOf
  <2>4. ASSUME QuantitiesFit PROVE Wrap(SumSeq(a)) = SumSeq(a)
    <3>1. SumSeq(a) <= MaxInt64
        BY <2>1, <2>4 DEF QuantitiesFit
    <3>2. SumSeq(a) \in 0..MaxInt64
        BY <2>2, <3>1, WidthAssumption
    <3> QED BY <3>2, WrapFits
  <2> QED BY <2>3, <2>4
<1>2. Inv /\ BookTotalled => TotalsExact
  <2> SUFFICES ASSUME Inv, Totalled(book), NEW s \in Side, NEW p \in Price
               PROVE  LET queue == book.queue[s][p]
                      IN  book.total[s][p] = Wrap(SumSeq([i \in DOMAIN queue |-> book.order[queue[i]].amount]))
      BY DEF TotalsExact, BookTotalled
  <2> QED BY <1>1 DEF TotalOf, QueueAmounts
<1>3. Inv /\ BookTotalled => (QuantitiesFit => \A s \in Side, p \in Price : book.total[s][p] = TotalOf(s, p))
    BY <1>1 DEF BookTotalled
<1> QED BY <1>2, <1>3, InvariantTotals, PTL

-----------------------------------------------------------------------------
(* Snapshots                                                               *)

\* q lists S in the order in which a side is shown.
Sorts(q, S, s) ==
    /\ q \in [1..Cardinality(S) -> S]
    /\ \A i, j \in DOMAIN q : i < j => ShownBefore(s, q[i], q[j])

\* It can be listed: each price at the place after those that come before it.
LEMMA Sortable ==
    ASSUME NEW S, IsFiniteSet(S), S \subseteq Int, NEW s \in Side
    PROVE  \E q : Sorts(q, S, s)
<1>1. PICK n : n = Cardinality(S)
    OBVIOUS
<1>2. n \in Nat
    BY <1>1, FS_CardinalityType
<1> DEFINE Ahead(p) == {x \in S : ShownBefore(s, x, p)}
<1>3. ASSUME NEW p \in S
      PROVE  IsFiniteSet(Ahead(p)) /\ Cardinality(Ahead(p)) \in Nat /\ Cardinality(Ahead(p)) + 1 \in 1..n
  <2>1. p \notin Ahead(p) /\ Ahead(p) \in SUBSET (S \ {p})
      BY DEF ShownBefore
  <2>2. IsFiniteSet(S \ {p}) /\ Cardinality(S \ {p}) = n - 1
      BY <1>1, FS_RemoveElement
  <2> HIDE DEF Ahead
  <2>3. IsFiniteSet(Ahead(p)) /\ Cardinality(Ahead(p)) <= n - 1
      BY <2>1, <2>2, FS_Subset
  <2>4. Cardinality(Ahead(p)) \in Nat
      BY <2>3, FS_CardinalityType
  <2> QED BY <1>2, <2>3, <2>4
<1>4. PICK r : r = [p \in S |-> Cardinality(Ahead(p)) + 1]
    OBVIOUS
<1>5. r \in [S -> 1..n] /\ \A p \in S : r[p] = Cardinality(Ahead(p)) + 1
  <2> HIDE DEF Ahead
  <2> QED BY <1>3, <1>4
<1>6. ASSUME NEW p \in S, NEW x \in S, ShownBefore(s, p, x) PROVE r[p] < r[x]
  <2>1. p \notin Ahead(p) /\ Ahead(p) \cup {p} \in SUBSET Ahead(x)
    <3>1. p \notin Ahead(p) /\ p \in Ahead(x)
        BY <1>6 DEF ShownBefore
    <3>2. ASSUME NEW y \in Ahead(p) PROVE y \in Ahead(x)
      <4>1. y \in S /\ y \in Int /\ p \in Int /\ x \in Int /\ ShownBefore(s, y, p)
          BY <3>2
      <4>2. ShownBefore(s, y, x)
          BY <1>6, <4>1 DEF ShownBefore
      <4> QED BY <4>1, <4>2
    <3> HIDE DEF Ahead
    <3> QED BY <3>1, <3>2
  <2>2. /\ IsFiniteSet(Ahead(p)) /\ Cardinality(Ahead(p)) \in Nat
        /\ IsFiniteSet(Ahead(x)) /\ Cardinality(Ahead(x)) \in Nat
      BY <1>3
  <2> HIDE DEF Ahead
  <2>3. Cardinality(Ahead(p) \cup {p}) = Cardinality(Ahead(p)) + 1
      BY <2>1, <2>2, FS_AddElement
  <2>4. Cardinality(Ahead(p) \cup {p}) <= Cardinality(Ahead(x))
      BY <2>1, <2>2, FS_Subset
  <2> QED BY <1>5, <2>2, <2>3, <2>4
<1> HIDE DEF Ahead
<1>7. \A p, x \in S : p = x \/ ShownBefore(s, p, x) \/ ShownBefore(s, x, p)
    BY DEF ShownBefore
<1>8. r \in Surjection(S, 1..n)
  <2>1. \A p, x \in S : r[p] = r[x] => p = x
    <3> SUFFICES ASSUME NEW p \in S, NEW x \in S, r[p] = r[x], p # x PROVE FALSE
        OBVIOUS
    <3>1. r[p] < r[x] \/ r[x] < r[p]
        BY <1>6, <1>7
    <3> QED BY <1>2, <1>5, <3>1
  <2>2. r \in Injection(S, 1..n)
      BY <1>5, <2>1 DEF Injection, IsInjective
  <2>3. IsFiniteSet(1..n) /\ Cardinality(1..n) = n
      BY <1>2, FS_Interval
  <2> QED BY <1>1, <2>2, <2>3, FS_Injection
<1>9. \A i \in 1..n : \E p \in S : r[p] = i
    BY <1>8 DEF Surjection
<1>10. PICK q : q = [i \in 1..n |-> CHOOSE p \in S : r[p] = i]
    OBVIOUS
<1>11. DOMAIN q = 1..n /\ q \in [1..n -> S] /\ \A i \in 1..n : q[i] \in S /\ r[q[i]] = i
    BY <1>9, <1>10
<1>12. ASSUME NEW i \in 1..n, NEW j \in 1..n, i < j PROVE ShownBefore(s, q[i], q[j])
  <2>1. r[q[i]] < r[q[j]] /\ q[i] \in S /\ q[j] \in S
      BY <1>11, <1>12
  <2>2. q[i] # q[j] /\ ~(r[q[j]] < r[q[i]])
      BY <1>2, <1>11, <1>12
  <2> QED BY <1>6, <1>7, <2>1, <2>2
<1> QED BY <1>1, <1>11, <1>12 DEF Sorts

\* Each price is listed once.
LEMMA SortsAll ==
    ASSUME NEW S, IsFiniteSet(S), S \subseteq Int, NEW s \in Side, NEW q, Sorts(q, S, s)
    PROVE  /\ Cardinality(S) \in Nat /\ DOMAIN q = 1..Cardinality(S)
           /\ \A i \in 1..Cardinality(S) : q[i] \in S
           /\ \A i, j \in 1..Cardinality(S) : q[i] = q[j] => i = j
           /\ \A p \in S : \E i \in 1..Cardinality(S) : q[i] = p
<1>1. PICK n : n = Cardinality(S)
    OBVIOUS
<1>2. n \in Nat
    BY <1>1, FS_CardinalityType
<1>3. DOMAIN q = 1..n /\ q \in [1..n -> S] /\ \A i \in 1..n : q[i] \in S
    BY <1>1 DEF Sorts
<1>4. \A i, j \in 1..n : i < j => q[i] # q[j]
  <2>1. ASSUME NEW i \in 1..n, NEW j \in 1..n, i < j PROVE q[i] # q[j]
    <3>1. ShownBefore(s, q[i], q[j]) /\ q[i] \in Int /\ q[j] \in Int
        BY <1>3, <2>1 DEF Sorts
    <3> QED BY <3>1 DEF ShownBefore
  <2> QED BY <2>1
<1>5. \A i, j \in 1..n : q[i] = q[j] => i = j
  <2>1. \A i, j \in 1..n : i = j \/ i < j \/ j < i
      BY <1>2
  <2> QED BY <1>4, <2>1
<1>6. q \in Surjection(1..n, S)
  <2>1. q \in Injection(1..n, S)
      BY <1>3, <1>5 DEF Injection, IsInjective
  <2>2. IsFiniteSet(1..n) /\ Cardinality(1..n) = n
      BY <1>2, FS_Interval
  <2> QED BY <1>1, <2>1, <2>2, FS_Injection
<1>7. \A p \in S : \E i \in 1..n : q[i] = p
    BY <1>6 DEF Surjection
<1> QED BY <1>1, <1>2, <1>3, <1>5, <1>7

\* So ShownLevels lists the levels.
LEMMA LevelsAreSorted ==
    ASSUME NEW b, Sound(b), NEW s \in Side
    PROVE  /\ Sorts(ShownLevels(b, s), b.levels[s], s)
           /\ IsFiniteSet(b.levels[s]) /\ b.levels[s] \subseteq Price /\ b.levels[s] \subseteq Int
<1>1. PICK S : S = b.levels[s]
    OBVIOUS
<1>2. S \subseteq Price
    BY <1>1 DEF Sound, Book
<1>3. IsFiniteSet(S) /\ S \subseteq Int
  <2>1. IsFiniteSet(1..MaxInt64)
      BY WidthAssumption, FS_Interval
  <2>2. S \in SUBSET (1..MaxInt64) /\ S \subseteq Int
      BY <1>2, WidthAssumption
  <2>3. IsFiniteSet(S)
      BY <2>1, <2>2, FS_Subset
  <2> QED BY <2>2, <2>3
<1>4. PICK q : Sorts(q, S, s)
    BY <1>3, Sortable
<1>5. PICK w : w = ShownLevels(b, s)
    OBVIOUS
<1>6. Sorts(w, S, s)
  <2>1. \E x \in [1..Cardinality(S) -> S] : \A i, j \in DOMAIN x : i < j => ShownBefore(s, x[i], x[j])
      BY <1>4 DEF Sorts
  <2>2. w = CHOOSE x \in [1..Cardinality(S) -> S] :
                \A i, j \in DOMAIN x : i < j => ShownBefore(s, x[i], x[j])
      BY <1>1, <1>5 DEF ShownLevels
  <2> QED BY <2>1, <2>2 DEF Sorts
<1> QED BY <1>1, <1>2, <1>3, <1>5, <1>6

\* The orders that rest on a side at some prices, and what they have left.
LiveOf(b, s, prices) ==
    {e \in Elem : b.order[e] # NoOrder /\ b.order[e].side = s /\ b.order[e].price \in prices}

AmountsOf(b) == [e \in Elem |-> IF b.order[e] # NoOrder THEN b.order[e].amount ELSE 0]

LiveTotal(b, s, prices) == Sum(On(AmountsOf(b), LiveOf(b, s, prices), MaxElem), MaxElem)

\* It is not negative.
LEMMA LiveIsSummable ==
    ASSUME NEW b, Sound(b), NEW s, NEW prices
    PROVE  /\ Summable(AmountsOf(b), MaxElem)
           /\ Summable(On(AmountsOf(b), LiveOf(b, s, prices), MaxElem), MaxElem)
           /\ LiveTotal(b, s, prices) \in Int /\ 0 <= LiveTotal(b, s, prices)
<1>1. PICK a, v : a = AmountsOf(b) /\ v = On(a, LiveOf(b, s, prices), MaxElem)
    OBVIOUS
<1>2. ASSUME NEW e \in 1..MaxElem PROVE a[e] \in Int /\ 0 <= a[e]
  <2>1. e \in Elem /\ (b.order[e] # NoOrder => b.order[e].amount \in Int /\ b.order[e].amount > 0)
      BY RestingFacts DEF Elem
  <2>2. a[e] = IF b.order[e] # NoOrder THEN b.order[e].amount ELSE 0
      BY <1>1, <2>1 DEF AmountsOf
  <2> QED BY <2>1, <2>2
<1>3. Summable(a, MaxElem)
    BY <1>2, BookAssumption DEF Summable
<1>4. Summable(v, MaxElem)
    BY <1>1, <1>3, OnSummable
<1>5. \A e \in 1..MaxElem : 0 <= v[e]
    BY <1>1, <1>2 DEF On
<1>6. Sum(v, MaxElem) \in Int /\ 0 <= Sum(v, MaxElem)
    BY <1>4, <1>5, SumStep, SumNotNegative
<1> QED BY <1>1, <1>3, <1>4, <1>6 DEF LiveTotal

\* LiveAmount is this total.
LEMMA LiveAmountIsTotal ==
    ASSUME Sound(book), NEW s, NEW prices
    PROVE  LiveAmount(s, prices) = LiveTotal(book, s, prices)
<1>1. PICK S, a, o : S = LiveOf(book, s, prices) /\ a = AmountsOf(book) /\ o = book.order
    OBVIOUS
<1>2. S \in SUBSET (1..MaxElem) /\ \A x \in S : a[x] = o[x].amount
    BY <1>1 DEF LiveOf, AmountsOf, Elem
<1>3. Summable(a, MaxElem)
    BY <1>1, LiveIsSummable
<1>4. AmountSum(o, S) = Sum(On(a, S, MaxElem), MaxElem)
    BY <1>2, <1>3, SetSum
<1>5. S = {e \in Resting : book.order[e].side = s /\ book.order[e].price \in prices}
    BY <1>1 DEF LiveOf, Resting
<1>6. LiveAmount(s, prices) = AmountSum(book.order, S)
    BY <1>5, Zenon DEF LiveAmount, AmountSum
<1> QED BY <1>1, <1>4, <1>6 DEF LiveTotal

\* At one price it is the quantity of the level.
LEMMA LiveAtPrice ==
    ASSUME NEW b, Sound(b), NEW s, NEW p
    PROVE  LiveTotal(b, s, {p}) = Quantity(b, s, p)
<1>1. PICK v, g : v = On(AmountsOf(b), LiveOf(b, s, {p}), MaxElem) /\ g = HeldAt(b, s, p)
    OBVIOUS
<1>2. Summable(v, MaxElem) /\ Summable(g, MaxElem)
    BY <1>1, LiveIsSummable, HeldIsSummable
<1>3. \A e \in 1..MaxElem : v[e] = g[e]
    BY <1>1 DEF On, AmountsOf, LiveOf, HeldAt, Elem
<1>4. Sum(v, MaxElem) = Sum(g, MaxElem)
    BY <1>2, <1>3, SumSame
<1> QED BY <1>1, <1>4 DEF LiveTotal, Quantity

\* At other prices it adds up.
LEMMA LiveSplit ==
    ASSUME NEW b, Sound(b), NEW s, NEW A, NEW B, A \cap B = {}, NEW C, C = A \cup B
    PROVE  LiveTotal(b, s, C) = LiveTotal(b, s, A) + LiveTotal(b, s, B)
<1>1. PICK f, g, h, a : /\ f = On(a, LiveOf(b, s, A), MaxElem) /\ g = On(a, LiveOf(b, s, B), MaxElem)
                        /\ h = On(a, LiveOf(b, s, C), MaxElem) /\ a = AmountsOf(b)
    OBVIOUS
<1>2. Summable(f, MaxElem) /\ Summable(g, MaxElem) /\ Summable(h, MaxElem) /\ Summable(a, MaxElem)
    BY <1>1, LiveIsSummable
<1>3. ASSUME NEW e \in 1..MaxElem PROVE h[e] = f[e] + g[e]
  <2>1. a[e] \in Int
      BY <1>2 DEF Summable
  <2>2. /\ e \in LiveOf(b, s, C) <=> e \in LiveOf(b, s, A) \/ e \in LiveOf(b, s, B)
        /\ ~(e \in LiveOf(b, s, A) /\ e \in LiveOf(b, s, B))
      BY DEF LiveOf
  <2>3. /\ f[e] = IF e \in LiveOf(b, s, A) THEN a[e] ELSE 0
        /\ g[e] = IF e \in LiveOf(b, s, B) THEN a[e] ELSE 0
        /\ h[e] = IF e \in LiveOf(b, s, C) THEN a[e] ELSE 0
      BY <1>1 DEF On
  <2> QED BY <2>1, <2>2, <2>3
<1>4. Sum(h, MaxElem) = Sum(f, MaxElem) + Sum(g, MaxElem)
    BY <1>2, <1>3, SumAdds
<1> QED BY <1>1, <1>4 DEF LiveTotal

\* At no price there is nothing.
LEMMA LiveOfNothing ==
    ASSUME NEW b, Sound(b), NEW s
    PROVE  LiveTotal(b, s, {}) = 0
<1>1. Summable(AmountsOf(b), MaxElem)
    BY LiveIsSummable
<1>2. \A x \in 1..MaxElem : x \notin LiveOf(b, s, {})
    BY DEF LiveOf
<1> QED BY <1>1, <1>2, OnNothing DEF LiveTotal

\* The running sum of the levels shown first.
Cumulates(f, b, s, cut, m) ==
    \A i \in 0..m : f[i] = IF i = 0 THEN 0 ELSE Wrap(f[i - 1] + b.total[s][cut[i]])

\* What is shown: m prices, each once.
Shown(cut, m) ==
    /\ m \in Nat /\ \A i \in 1..m : cut[i] \in Price
    /\ \A i, j \in 1..m : cut[i] = cut[j] => i = j

LEMMA LevelAmount ==
    ASSUME NEW b, Sound(b), Totalled(b), NEW s \in Side, NEW p \in Price
    PROVE  b.total[s][p] = Wrap(LiveTotal(b, s, {p}))
BY LiveAtPrice DEF Totalled

\* One level more.
LEMMA CumulativeStep ==
    ASSUME NEW b, Sound(b), Totalled(b), NEW s \in Side,
           NEW cut, NEW m, Shown(cut, m), NEW i \in 1..m
    PROVE  Wrap(LiveTotal(b, s, Taken(cut, i)))
               = Wrap(Wrap(LiveTotal(b, s, Taken(cut, i - 1))) + b.total[s][cut[i]])
<1>1. PICK j, A, p, C : j = i - 1 /\ A = Taken(cut, j) /\ p = cut[i] /\ C = Taken(cut, i)
    OBVIOUS
<1>2. m \in Nat /\ p \in Price /\ j \in Nat /\ \A k \in 1..i : k \in 1..j \/ k = i
    BY <1>1 DEF Shown
<1>3. \A k \in 1..j : k \in 1..i /\ k \in 1..m /\ k # i
    BY <1>1, <1>2
<1>4. p \notin A /\ C = A \cup {p} /\ C \in SUBSET Price
  <2>1. \A k \in 1..j : cut[k] # p
      BY <1>1, <1>3 DEF Shown
  <2>2. p \notin A
      BY <1>1, <2>1 DEF Taken
  <2>3. C \subseteq A \cup {p}
      BY <1>1, <1>2 DEF Taken
  <2>4. A \subseteq C
      BY <1>1, <1>3 DEF Taken
  <2>5. p \in C
    <3>1. i \in 1..i
        BY <1>2
    <3> QED BY <1>1, <3>1 DEF Taken
  <2>6. C \subseteq Price
    <3>1. \A k \in 1..i : k \in 1..m
        BY <1>2
    <3> QED BY <1>1, <3>1 DEF Taken, Shown
  <2> QED BY <2>2, <2>3, <2>4, <2>5, <2>6
<1>5. PICK B : B = {p}
    OBVIOUS
<1>6. LiveTotal(b, s, C) = LiveTotal(b, s, A) + LiveTotal(b, s, B)
  <2>1. A \cap B = {} /\ C = A \cup B
      BY <1>4, <1>5
  <2> QED BY <2>1, LiveSplit
<1>7. b.total[s][p] = Wrap(LiveTotal(b, s, B))
    BY <1>2, <1>5, LevelAmount
<1>8. LiveTotal(b, s, A) \in Int /\ LiveTotal(b, s, B) \in Int
    BY LiveIsSummable
<1> QED BY <1>1, <1>6, <1>7, <1>8, WrapAdds

\* The running sum is what rests at the levels shown, as an int64.
LEMMA CumulativeIsLive ==
    ASSUME NEW b, Sound(b), Totalled(b), NEW s \in Side,
           NEW cut, NEW m, Shown(cut, m), NEW f, Cumulates(f, b, s, cut, m)
    PROVE  \A i \in 0..m : f[i] = Wrap(LiveTotal(b, s, Taken(cut, i)))
<1>0. m \in Nat
    BY DEF Shown
<1>1. PICK T : T = {i \in 0..m : f[i] = Wrap(LiveTotal(b, s, Taken(cut, i)))}
    OBVIOUS
<1>2. 0 \in T
  <2>1. 0 \in 0..m /\ f[0] = 0
      BY <1>0 DEF Cumulates
  <2>2. Taken(cut, 0) = {}
      BY DEF Taken
  <2>3. LiveTotal(b, s, {}) = 0 /\ Wrap(0) = 0
      BY LiveOfNothing, WidthAssumption, WrapFits
  <2> QED BY <1>1, <2>1, <2>2, <2>3
<1>3. ASSUME NEW i \in 0..(m - 1), i \in T PROVE i + 1 \in T
  <2>1. PICK j : j = i + 1
      OBVIOUS
  <2>2. j \in 0..m /\ j \in 1..m /\ j - 1 = i /\ j # 0
      BY <1>0, <2>1
  <2>3. f[j] = Wrap(f[i] + b.total[s][cut[j]])
      BY <2>2 DEF Cumulates
  <2>4. f[i] = Wrap(LiveTotal(b, s, Taken(cut, i)))
      BY <1>1, <1>3
  <2>5. Wrap(LiveTotal(b, s, Taken(cut, j)))
            = Wrap(Wrap(LiveTotal(b, s, Taken(cut, i))) + b.total[s][cut[j]])
      BY <2>2, CumulativeStep
  <2> QED BY <1>1, <2>1, <2>2, <2>3, <2>4, <2>5
<1>4. \A i \in 0..m : i \in T
    BY <1>0, <1>2, <1>3, UpTo
<1> QED BY <1>1, <1>4

\* There is one.
IsCumulative(f, b, s, cut, m) ==
    f = [i \in 0..m |-> IF i = 0 THEN 0 ELSE Wrap(f[i - 1] + b.total[s][cut[i]])]

LEMMA CumulativeExists ==
    ASSUME NEW b, Sound(b), Totalled(b), NEW s \in Side,
           NEW cut, NEW m, Shown(cut, m)
    PROVE  \E f : IsCumulative(f, b, s, cut, m)
<1>0. m \in Nat
    BY DEF Shown
<1>1. PICK f : f = [i \in 0..m |-> Wrap(LiveTotal(b, s, Taken(cut, i)))]
    OBVIOUS
<1>2. ASSUME NEW i \in 0..m PROVE f[i] = IF i = 0 THEN 0 ELSE Wrap(f[i - 1] + b.total[s][cut[i]])
  <2>1. CASE i = 0
    <3>1. Taken(cut, 0) = {}
        BY DEF Taken
    <3>2. LiveTotal(b, s, {}) = 0 /\ Wrap(0) = 0
        BY LiveOfNothing, WidthAssumption, WrapFits
    <3> QED BY <1>1, <2>1, <3>1, <3>2
  <2>2. CASE i # 0
    <3>1. i \in 1..m /\ i - 1 \in 0..m
        BY <1>0, <2>2
    <3>2. f[i] = Wrap(LiveTotal(b, s, Taken(cut, i))) /\ f[i - 1] = Wrap(LiveTotal(b, s, Taken(cut, i - 1)))
        BY <1>1, <3>1
    <3> QED BY <2>2, <3>1, <3>2, CumulativeStep
  <2> QED BY <2>1, <2>2
<1>3. PICK F : F = [i \in 0..m |-> IF i = 0 THEN 0 ELSE Wrap(f[i - 1] + b.total[s][cut[i]])]
    OBVIOUS
<1>4. f = F
    BY <1>1, <1>2, <1>3
<1> QED BY <1>3, <1>4 DEF IsCumulative

\* What a snapshot shows: the first m prices of w, with what rests there.
Displays(shown, b, s, w, m) ==
    /\ DOMAIN shown = 1..m
    /\ \A i \in 1..m : /\ shown[i].price = w[i]
                       /\ shown[i].amount = Wrap(LiveTotal(b, s, {w[i]}))
                       /\ shown[i].cumulative = Wrap(LiveTotal(b, s, Taken(w, i)))

\* The list of the levels, cut at the depth.
CutAt(sorted, depth) ==
    IF 0 < depth /\ depth < Len(sorted) THEN SubSeq(sorted, 1, depth) ELSE sorted

\* It has the first m of them, and all without a depth.
Cuts(c, w, m, S, depth) ==
    /\ Len(c) = m /\ Shown(w, m) /\ Shown(c, m)
    /\ \A i \in 1..m : c[i] = w[i] /\ w[i] \in S
    /\ m <= Cardinality(S) /\ (depth = 0 => m = Cardinality(S))

LEMMA CutShows ==
    ASSUME NEW b, Sound(b), NEW s \in Side, NEW depth \in Nat,
           NEW w, w = ShownLevels(b, s), NEW c, c = CutAt(w, depth)
    PROVE  \E m \in Nat : Cuts(c, w, m, b.levels[s], depth)
<1>1. PICK S, n : S = b.levels[s] /\ n = Cardinality(S)
    OBVIOUS
<1>2. Sorts(w, S, s) /\ IsFiniteSet(S) /\ S \subseteq Price /\ S \subseteq Int
    BY <1>1, LevelsAreSorted
<1>3. /\ n \in Nat /\ DOMAIN w = 1..n /\ \A i \in 1..n : w[i] \in S
      /\ \A i, j \in 1..n : w[i] = w[j] => i = j
    BY <1>1, <1>2, SortsAll
<1>4. w \in Seq(S) /\ Len(w) = n
  <2>1. w \in [1..n -> S]
      BY <1>1, <1>2 DEF Sorts
  <2>2. w \in Seq(S)
      BY <1>3, <2>1, SeqDef
  <2> QED BY <1>3, <2>2
<1>6. PICK m \in Nat : m <= n /\ Len(c) = m /\ (depth = 0 => m = n) /\ \A i \in 1..m : c[i] = w[i]
  <2>1. CASE 0 < depth /\ depth < n
    <3>1. c = SubSeq(w, 1, depth)
        BY <1>4, <2>1 DEF CutAt
    <3>2. 1 \in 1..(Len(w) + 1) /\ depth \in (1 - 1)..Len(w)
        BY <1>3, <1>4, <2>1
    <3>3. Len(c) = depth /\ \A i \in 1..depth : c[i] = w[i]
        BY <1>4, <2>1, <3>1, <3>2
    <3> QED BY <1>3, <2>1, <3>3
  <2>2. CASE ~(0 < depth /\ depth < n)
    <3>1. c = w
        BY <1>4, <2>2 DEF CutAt
    <3> QED BY <1>3, <1>4, <3>1
  <2> QED BY <2>1, <2>2
<1>7. \A i \in 1..m : i \in 1..n
    BY <1>3, <1>6
<1>8. Shown(w, m)
    BY <1>2, <1>3, <1>7 DEF Shown
<1>9. Shown(c, m)
    BY <1>6, <1>8 DEF Shown
<1>10. \A i \in 1..m : w[i] \in S
    BY <1>3, <1>7
<1> QED BY <1>1, <1>6, <1>8, <1>9, <1>10 DEF Cuts

\* Whatever the depth.
LEMMA SnapshotDisplays ==
    ASSUME NEW b, Sound(b), Totalled(b), NEW s \in Side, NEW depth \in Nat
    PROVE  \E m \in Nat : /\ Displays(Snapshot(b, s, depth), b, s, ShownLevels(b, s), m)
                          /\ Shown(ShownLevels(b, s), m)
                          /\ m <= Cardinality(b.levels[s])
                          /\ depth = 0 => m = Cardinality(b.levels[s])
<1>1. PICK w, c : w = ShownLevels(b, s) /\ c = CutAt(w, depth)
    OBVIOUS
<1>20. PICK m \in Nat : Cuts(c, w, m, b.levels[s], depth)
    BY <1>1, CutShows
<1>2. /\ Len(c) = m /\ Shown(w, m) /\ Shown(c, m)
      /\ \A i \in 1..m : c[i] = w[i] /\ w[i] \in b.levels[s]
      /\ m <= Cardinality(b.levels[s])
      /\ depth = 0 => m = Cardinality(b.levels[s])
    BY <1>20 DEF Cuts
<1>3. \E f : IsCumulative(f, b, s, c, Len(c))
    BY <1>2, CumulativeExists
<1>4. PICK f : f = CHOOSE x : IsCumulative(x, b, s, c, Len(c))
    OBVIOUS
<1>5. IsCumulative(f, b, s, c, m)
    BY <1>2, <1>3, <1>4
<1>6. Cumulates(f, b, s, c, m)
    BY <1>5 DEF Cumulates, IsCumulative
<1>7. \A i \in 0..m : f[i] = Wrap(LiveTotal(b, s, Taken(c, i)))
    BY <1>2, <1>6, CumulativeIsLive
<1>8. Snapshot(b, s, depth) =
          [i \in 1..Len(c) |-> [price |-> c[i], amount |-> b.total[s][c[i]], cumulative |-> f[i]]]
    BY <1>1, <1>4 DEF Snapshot, CutAt, IsCumulative
<1>9. PICK shown : shown = Snapshot(b, s, depth)
    OBVIOUS
<1>10. ASSUME NEW i \in 1..m
       PROVE  /\ shown[i].price = w[i]
              /\ shown[i].amount = Wrap(LiveTotal(b, s, {w[i]}))
              /\ shown[i].cumulative = Wrap(LiveTotal(b, s, Taken(w, i)))
  <2>1. shown[i].price = c[i] /\ shown[i].amount = b.total[s][c[i]] /\ shown[i].cumulative = f[i]
      BY <1>2, <1>8, <1>9
  <2>2. c[i] = w[i] /\ w[i] \in Price
      BY <1>2 DEF Shown
  <2>3. b.total[s][w[i]] = Wrap(LiveTotal(b, s, {w[i]}))
      BY <2>2, LevelAmount
  <2>4. f[i] = Wrap(LiveTotal(b, s, Taken(c, i)))
    <3>1. i \in 0..m
        OBVIOUS
    <3> QED BY <1>7, <3>1
  <2>5. Taken(c, i) = Taken(w, i)
    <3>1. \A k \in 1..i : k \in 1..m /\ c[k] = w[k]
        BY <1>2
    <3> QED BY <3>1 DEF Taken
  <2> QED BY <2>1, <2>2, <2>3, <2>4, <2>5
<1>11. DOMAIN shown = 1..m
    BY <1>2, <1>8, <1>9
<1>12. Displays(shown, b, s, w, m)
    BY <1>10, <1>11 DEF Displays
<1> QED BY <1>1, <1>2, <1>9, <1>12

\* The levels of a side are the prices of its orders.
LEMMA LevelsAreLive ==
    ASSUME NEW b, Sound(b), NEW s \in Side
    PROVE  \A p : p \in b.levels[s] <=> \E e \in Elem : b.order[e] # NoOrder /\ b.order[e].side = s
                                                       /\ b.order[e].price = p
<1>0. b \in Book /\ b.levels[s] \subseteq Price
    BY DEF Sound, Book
<1>1. ASSUME NEW p \in b.levels[s]
      PROVE  \E e \in Elem : b.order[e] # NoOrder /\ b.order[e].side = s /\ b.order[e].price = p
  <2>1. p \in Price /\ LevelKnown(b, s, p) /\ QueueOf(b, s, p)
      BY <1>0 DEF Sound
  <2>2. PICK q : q = b.queue[s][p]
      OBVIOUS
  <2>3. q \in Seq(Elem) /\ q # << >>
      BY <1>0, <2>1, <2>2 DEF Book, LevelKnown
  <2>4. 1 \in 1..Len(q) /\ q[1] \in Elem
      BY <2>3
  <2>5. b.order[q[1]] # NoOrder /\ b.order[q[1]].side = s /\ b.order[q[1]].price = p
      BY <2>1, <2>2, <2>4 DEF QueueOf
  <2> QED BY <2>4, <2>5
<1>2. ASSUME NEW e \in Elem, b.order[e] # NoOrder, b.order[e].side = s
      PROVE  b.order[e].price \in b.levels[s]
  <2>1. PICK p : p = b.order[e].price
      OBVIOUS
  <2>2. p \in Price /\ Queued(b, e)
      BY <1>2, <2>1 DEF Sound, CanRest
  <2>3. LevelKnown(b, s, p)
      BY <2>2 DEF Sound
  <2>4. b.queue[s][p] # << >>
      BY <1>2, <2>1, <2>2 DEF Queued
  <2> QED BY <2>1, <2>3, <2>4 DEF LevelKnown
<1> QED BY <1>0, <1>1, <1>2

(***************************************************************************)
(* Whatever commands are executed, what GET /orderbook shows is the        *)
(* aggregation of the live orders, best price first, at every depth, in    *)
(* the arithmetic of int64.                                                *)
(***************************************************************************)
THEOREM SnapshotsAlwaysFaithful == Spec => []SnapshotFaithful
<1>1. Inv /\ BookTotalled => SnapshotFaithful
  <2> SUFFICES ASSUME Inv, BookTotalled,
                      NEW s \in Side, NEW depth \in 0..Cardinality(Price)
               PROVE  LET shown == Snapshot(book, s, depth)
                          prices == {shown[i].price : i \in DOMAIN shown}
                          live == {book.order[e].price : e \in {x \in Resting : book.order[x].side = s}}
                      IN  /\ prices \subseteq live
                          /\ depth = 0 => prices = live
                          /\ \A i \in DOMAIN shown :
                                /\ shown[i].amount = Wrap(LiveAmount(s, {shown[i].price}))
                                /\ shown[i].cumulative = Wrap(LiveAmount(s, {shown[j].price : j \in 1..i}))
                                /\ \A q \in live \ {shown[j].price : j \in 1..i} :
                                      IF s = "BID" THEN q < shown[i].price ELSE q > shown[i].price
      BY Zenon DEF SnapshotFaithful
  <2>1. Sound(book) /\ Totalled(book)
      BY DEF Inv, BookTotalled
  <2> DEFINE shown == Snapshot(book, s, depth)
             prices == {shown[i].price : i \in DOMAIN shown}
             live == {book.order[e].price : e \in {x \in Resting : book.order[x].side = s}}
  <2>3. PICK w, S, n : w = ShownLevels(book, s) /\ S = book.levels[s] /\ n = Cardinality(S)
      OBVIOUS
  <2>4. depth \in Nat
    <3>1. IsFiniteSet(1..MaxInt64) /\ Price \in SUBSET (1..MaxInt64)
        BY WidthAssumption, FS_Interval
    <3>2. IsFiniteSet(Price)
        BY <3>1, FS_Subset
    <3>3. Cardinality(Price) \in Nat
        BY <3>2, FS_CardinalityType
    <3> QED BY <3>3
  <2>5. PICK m \in Nat : Displays(shown, book, s, w, m) /\ Shown(w, m) /\ m <= n /\ (depth = 0 => m = n)
      BY <2>1, <2>3, <2>4, SnapshotDisplays
  <2>6. Sorts(w, S, s) /\ IsFiniteSet(S) /\ S \subseteq Int
      BY <2>1, <2>3, LevelsAreSorted
  <2>7. /\ n \in Nat /\ DOMAIN w = 1..n /\ (\A i \in 1..n : w[i] \in S)
        /\ \A p \in S : \E i \in 1..n : w[i] = p
      BY <2>3, <2>6, SortsAll
  <2> HIDE DEF shown
  <2>8. \A p : p \in prices <=> \E i \in DOMAIN shown : p = shown[i].price
      OBVIOUS
  <2>9. live = S
    <3>1. \A p : p \in S <=> \E e \in Elem : /\ book.order[e] # NoOrder /\ book.order[e].side = s
                                             /\ book.order[e].price = p
        BY <2>1, <2>3, LevelsAreLive
    <3> QED BY <3>1 DEF Resting
  <2> HIDE DEF prices, live
  <2>10. DOMAIN shown = 1..m /\ \A i \in 1..m : i \in 1..n /\ shown[i].price = w[i]
    <3>1. \A i \in 1..m : i \in 1..n
        BY <2>5, <2>7
    <3>2. DOMAIN shown = 1..m /\ \A i \in 1..m : shown[i].price = w[i]
        BY <2>5 DEF Displays
    <3> QED BY <3>1, <3>2
  <2>11. prices \subseteq live
      BY <2>7, <2>8, <2>9, <2>10
  <2>12. depth = 0 => prices = live
    <3>1. ASSUME depth = 0, NEW p \in S PROVE p \in prices
      <4>1. PICK i \in 1..n : w[i] = p
          BY <2>7
      <4>2. i \in 1..m /\ shown[i].price = p
          BY <2>5, <2>10, <3>1, <4>1
      <4> QED BY <2>8, <2>10, <4>2
    <3> QED BY <2>9, <2>11, <3>1
  <2>13. ASSUME NEW i \in 1..m
         PROVE  /\ shown[i].amount = Wrap(LiveAmount(s, {shown[i].price}))
                /\ shown[i].cumulative = Wrap(LiveAmount(s, {shown[j].price : j \in 1..i}))
                /\ \A q \in live \ {shown[j].price : j \in 1..i} :
                      IF s = "BID" THEN q < shown[i].price ELSE q > shown[i].price
    <3>1. \A j \in 1..i : j \in 1..m /\ shown[j].price = w[j]
        BY <2>10
    <3>2. Taken(w, i) = {shown[j].price : j \in 1..i}
        BY <3>1 DEF Taken
    <3>3. shown[i].amount = Wrap(LiveAmount(s, {shown[i].price}))
      <4>1. shown[i].amount = Wrap(LiveTotal(book, s, {w[i]})) /\ shown[i].price = w[i]
          BY <2>5 DEF Displays
      <4> QED BY <2>1, <4>1, LiveAmountIsTotal
    <3>4. shown[i].cumulative = Wrap(LiveAmount(s, Taken(w, i)))
      <4>1. shown[i].cumulative = Wrap(LiveTotal(book, s, Taken(w, i)))
          BY <2>5 DEF Displays
      <4> QED BY <2>1, <4>1, LiveAmountIsTotal
    <3>5. ASSUME NEW q \in live, q \notin Taken(w, i)
          PROVE  IF s = "BID" THEN q < shown[i].price ELSE q > shown[i].price
      <4>1. PICK k \in 1..n : w[k] = q
          BY <2>7, <2>9
      <4>2. ~(k \in 1..i)
          BY <3>5, <4>1 DEF Taken
      <4>3. i \in 1..n /\ i < k
          BY <2>5, <2>7, <2>10, <4>1, <4>2
      <4>4. ShownBefore(s, w[i], w[k]) /\ w[i] \in Int /\ w[k] \in Int
          BY <2>6, <2>7, <4>1, <4>3 DEF Sorts
      <4>5. ShownBefore(s, w[i], q) /\ w[i] \in Int /\ q \in Int /\ shown[i].price = w[i]
          BY <2>10, <4>1, <4>4
      <4> QED BY <4>5 DEF ShownBefore
    <3> QED BY <3>2, <3>3, <3>4, <3>5
  <2>14. \A i \in DOMAIN shown :
            /\ shown[i].amount = Wrap(LiveAmount(s, {shown[i].price}))
            /\ shown[i].cumulative = Wrap(LiveAmount(s, {shown[j].price : j \in 1..i}))
            /\ \A q \in live \ {shown[j].price : j \in 1..i} :
                  IF s = "BID" THEN q < shown[i].price ELSE q > shown[i].price
    <3>1. DOMAIN shown = 1..m
        BY <2>10
    <3> QED BY <2>13, <3>1, Zenon
  <2> QED BY <2>11, <2>12, <2>14, Zenon DEF shown, prices, live
<1> QED BY <1>1, InvariantTotals, PTL

-----------------------------------------------------------------------------
(* Match and applyCommand as functions                                     *)

\* The state of the loop before its first iteration, and after one more.
Started(b, o) == [book |-> b, taker |-> o, logs |-> << >>, makers |-> << >>, err |-> FALSE]

Ended(m) == m.err \/ ~CanFill(m.book, m.taker)

Iterated(m, seq) ==
    IF Ended(m) THEN m
    ELSE IF QuoteOverflows(m.book, m.taker) THEN [m EXCEPT !.err = TRUE]
    ELSE [m EXCEPT !.book = BookAfterFill(m.book, m.taker),
                   !.taker = TakerAfterFill(m.book, m.taker),
                   !.logs = Append(@, MatchLog(m.book, m.taker, seq, Len(m.logs))),
                   !.makers = Append(@, MakerFill(m.book, m.taker))]

\* h has the states after up to n iterations.
Iterates(h, n, start, seq) ==
    h[0] = start /\ \A i \in 1..n : h[i] = Iterated(h[i - 1], seq)

\* The loop can be run for any number of iterations.
LEMMA IterationsExist ==
    ASSUME NEW n \in Nat, NEW start, NEW seq
    PROVE  \E h : Iterates(h, n, start, seq)
<1> DEFINE Good(m) == \E h : Iterates(h, m, start, seq)
<1>1. PICK T : T = {m \in 0..n : Good(m)}
    OBVIOUS
<1>2. 0 \in T
  <2>1. PICK h : h = [i \in 0..0 |-> start]
      OBVIOUS
  <2>2. h[0] = start
      BY <2>1
  <2>3. Iterates(h, 0, start, seq)
      BY <2>2 DEF Iterates
  <2> QED BY <1>1, <2>3
<1>3. ASSUME NEW m \in 0..(n - 1), m \in T PROVE m + 1 \in T
  <2>1. PICK h : Iterates(h, m, start, seq)
      BY <1>1, <1>3
  <2>2. PICK k, v : k = m + 1 /\ v = Iterated(h[m], seq)
      OBVIOUS
  <2>3. PICK g : g = [i \in 0..k |-> IF i = k THEN v ELSE h[i]]
      OBVIOUS
  <2>4. m \in Nat /\ k \in 1..n /\ k \in 0..k /\ 0 \in 0..m
      BY <2>2
  <2>5. g[k] = v /\ \A i \in 0..m : g[i] = h[i]
      BY <2>2, <2>3, <2>4
  <2>6. g[0] = start
      BY <2>1, <2>4, <2>5 DEF Iterates
  <2>7. ASSUME NEW i \in 1..k PROVE g[i] = Iterated(g[i - 1], seq)
    <3>1. CASE i = k
      <4>1. i - 1 = m /\ m \in 0..m
          BY <2>2, <2>4, <3>1
      <4>2. g[i - 1] = h[m]
          BY <2>5, <4>1
      <4> QED BY <2>2, <2>5, <3>1, <4>2
    <3>2. CASE i # k
      <4>1. i \in 1..m /\ i \in 0..m /\ i - 1 \in 0..m
          BY <2>2, <2>4, <3>2
      <4>2. g[i] = h[i] /\ g[i - 1] = h[i - 1]
          BY <2>5, <4>1
      <4>3. h[i] = Iterated(h[i - 1], seq)
          BY <2>1, <4>1 DEF Iterates
      <4> QED BY <4>2, <4>3
    <3> QED BY <3>1, <3>2
  <2>8. Good(k)
      BY <2>6, <2>7 DEF Iterates
  <2> QED BY <1>1, <2>2, <2>4, <2>8
<1>4. n \in T
  <2> HIDE DEF Good
  <2>1. n \in 0..n
      OBVIOUS
  <2> QED BY <1>2, <1>3, <2>1, UpTo
<1> QED BY <1>1, <1>4

\* In one way only.
LEMMA IterationsAgree ==
    ASSUME NEW start, NEW seq, NEW n \in Nat, NEW g, Iterates(g, n, start, seq),
           NEW m \in Nat, NEW h, Iterates(h, m, start, seq), NEW k \in Nat, k <= n, k <= m
    PROVE  g[k] = h[k]
<1>1. PICK T : T = {i \in 0..k : g[i] = h[i]}
    OBVIOUS
<1>2. 0 \in T
    BY <1>1 DEF Iterates
<1>3. ASSUME NEW i \in 0..(k - 1), i \in T PROVE i + 1 \in T
  <2>1. PICK j : j = i + 1
      OBVIOUS
  <2>2. j \in 0..k /\ j \in 1..n /\ j \in 1..m /\ j - 1 = i
      BY <2>1
  <2>3. g[j] = Iterated(g[i], seq) /\ h[j] = Iterated(h[i], seq) /\ g[i] = h[i]
      BY <1>1, <1>3, <2>2 DEF Iterates
  <2> QED BY <1>1, <2>1, <2>2, <2>3
<1>4. k \in 0..k
    OBVIOUS
<1> QED BY <1>1, <1>2, <1>3, <1>4, UpTo

\* Match is the state after MaxElem + 1 iterations.
LEMMA MatchIs ==
    ASSUME NEW b, NEW o, NEW seq
    PROVE  \E h : /\ Iterates(h, MaxElem + 1, Started(b, o), seq)
                  /\ Match(b, o, seq) = h[MaxElem + 1]
<1> DEFINE A(p) == p = [n \in Nat |-> IF n = 0 THEN Started(b, o) ELSE Iterated(p[n - 1], seq)]
<1>1. PICK start : start = Started(b, o)
    OBVIOUS
<1>2. ASSUME NEW p, A(p), NEW n \in Nat PROVE Iterates(p, n, start, seq)
  <2>1. \A i \in 1..n : i \in Nat /\ i # 0
      OBVIOUS
  <2> QED BY <1>1, <1>2, <2>1 DEF Iterates
<1>3. \E p : A(p)
  <2>1. PICK f : f = [n \in Nat |-> CHOOSE h : Iterates(h, n, start, seq)]
      OBVIOUS
  <2>2. \A n \in Nat : Iterates(f[n], n, start, seq)
      BY <2>1, IterationsExist
  <2>3. PICK p : p = [n \in Nat |-> f[n][n]]
      OBVIOUS
  <2>4. ASSUME NEW n \in Nat
        PROVE  p[n] = IF n = 0 THEN Started(b, o) ELSE Iterated(p[n - 1], seq)
    <3>1. CASE n = 0
        BY <1>1, <2>2, <2>3, <3>1 DEF Iterates
    <3>2. CASE n # 0
      <4>1. PICK k : k = n - 1
          OBVIOUS
      <4>2. k \in Nat /\ k <= n /\ k <= k /\ n \in 1..n
          BY <3>2, <4>1
      <4>3. f[n][k] = f[k][k]
        <5>1. PICK g, h : g = f[n] /\ h = f[k]
            OBVIOUS
        <5>2. Iterates(g, n, start, seq) /\ Iterates(h, k, start, seq)
            BY <2>2, <4>2, <5>1
        <5>3. g[k] = h[k]
            BY <4>2, <5>2, IterationsAgree
        <5> QED BY <5>1, <5>3
      <4>4. f[n][n] = Iterated(f[n][k], seq)
          BY <2>2, <4>1, <4>2 DEF Iterates
      <4> QED BY <2>3, <3>2, <4>1, <4>2, <4>3, <4>4
    <3> QED BY <3>1, <3>2
  <2>5. p = [n \in Nat |-> p[n]]
      BY <2>3
  <2>6. A(p)
      BY <2>4, <2>5
  <2> QED BY <2>6
<1>4. PICK p : p = CHOOSE x : A(x)
    OBVIOUS
<1>5. Match(b, o, seq) = p[MaxElem + 1]
    BY <1>4 DEF Match, Started, Iterated, Ended
<1>6. MaxElem + 1 \in Nat
    BY BookAssumption
<1> HIDE DEF A
<1>7. A(p)
    BY <1>3, <1>4
<1> QED BY <1>1, <1>2, <1>5, <1>6, <1>7

MatchState(m) ==
    m = [book |-> m.book, taker |-> m.taker, logs |-> m.logs, makers |-> m.makers, err |-> m.err]

\* m is what some iterations may make of the book b and the order o.
Underway(b, o, m) ==
    /\ MatchState(m) /\ m.err \in BOOLEAN
    /\ Keeps(b, m.book) /\ Shrinks(b, m.book)
    /\ TakerLeft(o, m.taker)
    /\ m.makers \in Seq(MakerFills)

RestingElems(b) == {e \in Elem : b.order[e] # NoOrder}

LEMMA RestingCount ==
    ASSUME NEW b
    PROVE  /\ IsFiniteSet(RestingElems(b)) /\ Cardinality(RestingElems(b)) \in Nat
           /\ Cardinality(RestingElems(b)) <= MaxElem
<1>1. MaxElem \in Nat
    BY BookAssumption
<1>2. IsFiniteSet(Elem) /\ Cardinality(Elem) = MaxElem
  <2>1. IsFiniteSet(1..MaxElem) /\ Cardinality(1..MaxElem) = MaxElem
      BY <1>1, FS_Interval
  <2> QED BY <2>1 DEF Elem
<1>3. RestingElems(b) \subseteq Elem
    BY DEF RestingElems
<1> QED BY <1>1, <1>2, <1>3, FS_Subset, FS_CardinalityType

\* What a fill leaves of the taker, and what it takes of the maker.
LEMMA FillLeaves ==
    ASSUME NEW b, Sound(b), NEW o, NEW k, TakerLeft(o, k), CanFill(b, k)
    PROVE  /\ TakerLeft(o, TakerAfterFill(b, k))
           /\ MakerFill(b, k) \in MakerFills
           /\ MakerFill(b, k).remaining > 0 => TakerAfterFill(b, k).amount = 0
<1>1. PICK m, n, e : m = Maker(b, k) /\ n = TradeAmount(b, k) /\ e = MakerElem(b, k)
    OBVIOUS
<1>2. k \in Order /\ k.amount \in Int
    BY DEF TakerLeft, Order
<1>3. /\ e \in Elem /\ m = b.order[e] /\ m # NoOrder
      /\ m \in Order /\ n \in Int /\ n > 0 /\ n <= k.amount /\ n <= m.amount
    BY <1>1, <1>2, FillFacts
<1>4. CanRest(m)
    BY <1>3 DEF Sound
<1>5. PICK t : t = TakerAfterFill(b, k)
    OBVIOUS
<1>6. t = [id |-> k.id, kind |-> k.kind, side |-> k.side,
           price |-> k.price, amount |-> k.amount - n]
  <2>1. t = [k EXCEPT !.amount = @ - n]
      BY <1>1, <1>5 DEF TakerAfterFill
  <2> QED BY <1>2, <2>1 DEF Order
<1>7. TakerLeft(o, t)
  <2>1. t \in Order
      BY <1>2, <1>3, <1>6 DEF Order
  <2>2. o.amount \in Int
      BY DEF TakerLeft, Priced, Order
  <2> QED BY <1>2, <1>3, <1>6, <2>1, <2>2 DEF TakerLeft
<1>8. MakerFill(b, k) = [order |-> m, filled |-> n, remaining |-> m.amount - n]
    BY <1>1 DEF MakerFill
<1>9. Priced(m) /\ m.amount \in Int
    BY <1>3, <1>4, RestingIsPriced
<1>10. MakerFill(b, k) \in MakerFills
    BY <1>3, <1>8, <1>9 DEF MakerFills
<1>11. m.amount - n > 0 => t.amount = 0
  <2>1. n = IF k.amount < m.amount THEN k.amount ELSE m.amount
      BY <1>1 DEF TradeAmount
  <2> QED BY <1>2, <1>3, <1>6, <1>9, <2>1
<1> QED BY <1>5, <1>7, <1>8, <1>10, <1>11

\* An iteration that is not the last takes an order off the book.
LEMMA IterationTakesOne ==
    ASSUME NEW b, NEW o, NEW m, Underway(b, o, m), NEW seq
    PROVE  LET n == Iterated(m, seq)
           IN  /\ Underway(b, o, n)
               /\ \/ Ended(n)
                  \/ Cardinality(RestingElems(n.book)) = Cardinality(RestingElems(m.book)) - 1
<1>1. PICK n : n = Iterated(m, seq)
    OBVIOUS
<1>2. CASE Ended(m)
    BY <1>1, <1>2 DEF Iterated
<1>3. CASE ~Ended(m) /\ QuoteOverflows(m.book, m.taker)
  <2>1. n = [m EXCEPT !.err = TRUE]
      BY <1>1, <1>3 DEF Iterated
  <2>2. n = [book |-> m.book, taker |-> m.taker, logs |-> m.logs, makers |-> m.makers, err |-> TRUE]
      BY <2>1 DEF Underway, MatchState
  <2>3. Underway(b, o, n) /\ Ended(n)
      BY <2>2 DEF Underway, MatchState, Ended
  <2> QED BY <1>1, <2>3
<1>4. CASE ~Ended(m) /\ ~QuoteOverflows(m.book, m.taker)
  <2>1. PICK c, r, t, l, f : /\ c = m.book /\ r = BookAfterFill(m.book, m.taker)
                             /\ t = TakerAfterFill(m.book, m.taker) /\ f = MakerFill(m.book, m.taker)
                             /\ l = MatchLog(m.book, m.taker, seq, Len(m.logs))
      OBVIOUS
  <2>2. n = [m EXCEPT !.book = r, !.taker = t, !.logs = Append(@, l), !.makers = Append(@, f)]
      BY <1>1, <1>4, <2>1 DEF Iterated
  <2>3. n = [book |-> r, taker |-> t, logs |-> Append(m.logs, l), makers |-> Append(m.makers, f),
             err |-> m.err]
      BY <2>2 DEF Underway, MatchState
  <2>4. /\ Sound(c) /\ m.taker \in Order /\ CanFill(c, m.taker) /\ TakerLeft(o, m.taker)
        /\ Keeps(b, c) /\ Shrinks(b, c) /\ m.makers \in Seq(MakerFills) /\ m.err \in BOOLEAN
      BY <1>4, <2>1 DEF Underway, Ended, Keeps, TakerLeft
  <2>5. Keeps(c, r) /\ Shrinks(c, r)
      BY <2>1, <2>4, FillKeeps
  <2>6. Keeps(b, r) /\ Shrinks(b, r)
      BY <2>4, <2>5 DEF Keeps, Shrinks
  <2>7. TakerLeft(o, t) /\ f \in MakerFills /\ (f.remaining > 0 => t.amount = 0) /\ f.remaining \in Int
    <3>1. TakerLeft(o, t) /\ f \in MakerFills /\ (f.remaining > 0 => t.amount = 0)
        BY <2>1, <2>4, FillLeaves
    <3> QED BY <3>1 DEF MakerFills
  <2>8. Underway(b, o, n)
    <3>1. Append(m.makers, f) \in Seq(MakerFills)
        BY <2>4, <2>7
    <3>2. PICK x, y : x = Append(m.logs, l) /\ y = Append(m.makers, f)
        OBVIOUS
    <3> QED BY <2>3, <2>4, <2>6, <2>7, <3>1, <3>2 DEF Underway, MatchState
  <2>9. CASE f.remaining > 0
    <3>1. n.taker = t /\ n.book = r
        BY <2>3
    <3>2. ~CanFill(r, t)
        BY <2>7, <2>9 DEF CanFill
    <3> QED BY <1>1, <2>8, <3>1, <3>2 DEF Ended
  <2>10. CASE f.remaining <= 0
    <3>1. PICK e : e = MakerElem(c, m.taker)
        OBVIOUS
    <3>2. Unlinks(c, r, e) /\ e \in Elem /\ c.order[e] # NoOrder
      <4>1. ~(f.remaining > 0)
          BY <2>7, <2>10
      <4> QED BY <2>1, <2>4, <3>1, <4>1, FillUpdates, FillFacts
    <3>3. r.order = [c.order EXCEPT ![e] = NoOrder] /\ DOMAIN c.order = Elem
      <4>1. c.order \in [Elem -> Order \cup {NoOrder}]
          BY <2>4 DEF Sound, Book
      <4> QED BY <3>2, <4>1 DEF Unlinks
    <3>4. RestingElems(r) = RestingElems(c) \ {e}
        BY <3>2, <3>3 DEF RestingElems
    <3>5. e \in RestingElems(c)
        BY <3>2 DEF RestingElems
    <3>6. Cardinality(RestingElems(r)) = Cardinality(RestingElems(c)) - 1
        BY <3>4, <3>5, RestingCount, FS_RemoveElement
    <3>7. n.book = r
        BY <2>3
    <3> QED BY <1>1, <2>1, <2>8, <3>6, <3>7
  <2> QED BY <2>7, <2>9, <2>10
<1> QED BY <1>2, <1>3, <1>4

\* The loop ends.
LEMMA LoopEnds ==
    ASSUME NEW b, NEW o, NEW start, Underway(b, o, start), NEW seq,
           NEW h, Iterates(h, MaxElem + 1, start, seq)
    PROVE  Ended(h[MaxElem + 1]) /\ Underway(b, o, h[MaxElem + 1])
<1>1. PICK last : last = MaxElem + 1
    OBVIOUS
<1>2. MaxElem \in Nat /\ last \in Nat /\ last \in 0..last
    BY <1>1, BookAssumption
<1>3. PICK T : T = {i \in 0..last : /\ Underway(b, o, h[i])
                                    /\ \/ Ended(h[i])
                                       \/ Cardinality(RestingElems(h[i].book)) + i <= MaxElem}
    OBVIOUS
<1>4. 0 \in T
  <2>1. h[0] = start
      BY DEF Iterates
  <2>2. PICK x : x = Cardinality(RestingElems(start.book))
      OBVIOUS
  <2>3. x \in Nat /\ x <= MaxElem
      BY <2>2, RestingCount
  <2>4. x + 0 <= MaxElem
      BY <2>3
  <2> QED BY <1>2, <1>3, <2>1, <2>2, <2>4
<1>5. ASSUME NEW i \in 0..(last - 1), i \in T PROVE i + 1 \in T
  <2>1. PICK j, m, n : j = i + 1 /\ m = h[i] /\ n = h[j]
      OBVIOUS
  <2>2. j \in 1..last /\ j \in 0..last /\ j - 1 = i /\ i \in Nat
      BY <1>2, <2>1
  <2>3. n = Iterated(m, seq)
      BY <1>1, <2>1, <2>2 DEF Iterates
  <2>4. Underway(b, o, m) /\ (Ended(m) \/ Cardinality(RestingElems(m.book)) + i <= MaxElem)
      BY <1>3, <1>5, <2>1
  <2>5. Underway(b, o, n)
      BY <2>3, <2>4, IterationTakesOne
  <2>6. Ended(n) \/ Cardinality(RestingElems(n.book)) + j <= MaxElem
    <3>1. CASE Ended(m)
        BY <2>3, <3>1 DEF Iterated
    <3>2. CASE ~Ended(m)
      <4>1. PICK x, y : x = Cardinality(RestingElems(m.book)) /\ y = Cardinality(RestingElems(n.book))
          OBVIOUS
      <4>2. x \in Nat /\ y \in Nat
          BY <4>1, RestingCount
      <4>3. Ended(n) \/ y = x - 1
          BY <2>3, <2>4, <4>1, IterationTakesOne
      <4> QED BY <1>2, <2>1, <2>2, <2>4, <3>2, <4>1, <4>2, <4>3
    <3> QED BY <3>1, <3>2
  <2> QED BY <1>3, <2>1, <2>2, <2>5, <2>6
<1>6. last \in T
    BY <1>2, <1>4, <1>5, UpTo
<1>7. ~(Cardinality(RestingElems(h[last].book)) + last <= MaxElem)
  <2>1. PICK x : x = Cardinality(RestingElems(h[last].book))
      OBVIOUS
  <2>2. x \in Nat
      BY <2>1, RestingCount
  <2> QED BY <1>1, <1>2, <2>1, <2>2
<1> QED BY <1>1, <1>3, <1>6, <1>7

\* It starts with the whole order.
LEMMA StartUnderway ==
    ASSUME NEW b, Sound(b), NEW o, Priced(o), o.amount > 0
    PROVE  Underway(b, o, Started(b, o))
<1>1. PICK m : m = Started(b, o)
    OBVIOUS
<1>2. m = [book |-> b, taker |-> o, logs |-> << >>, makers |-> << >>, err |-> FALSE]
    BY <1>1 DEF Started
<1>3. Keeps(b, b) /\ Shrinks(b, b)
    BY KeepsItself
<1>4. TakerLeft(o, o)
    BY DEF TakerLeft, Priced, Order
<1>5. << >> \in Seq(MakerFills)
    OBVIOUS
<1> QED BY <1>1, <1>2, <1>3, <1>4, <1>5 DEF Underway, MatchState

(***************************************************************************)
(* The loop of Match ends: on a sound book every iteration but the last    *)
(* consumes a resting order, so after as many iterations as there are      *)
(* orders it has stopped, with a sound book or with an error.              *)
(***************************************************************************)
THEOREM MatchEnds ==
    ASSUME NEW b, Sound(b), NEW o, Priced(o), o.amount > 0, NEW seq
    PROVE  Ended(Match(b, o, seq)) /\ Underway(b, o, Match(b, o, seq))
<1>1. PICK start : start = Started(b, o)
    OBVIOUS
<1>2. PICK h : Iterates(h, MaxElem + 1, start, seq) /\ Match(b, o, seq) = h[MaxElem + 1]
    BY <1>1, MatchIs
<1>3. Underway(b, o, start)
    BY <1>1, StartUnderway
<1> QED BY <1>2, <1>3, LoopEnds

\* What applyCommand may return for a command whose sequence is e: a sound book that
\* has nothing of later commands, and events that their writer accepts.
GoodOutcome(b, e, outcome) ==
    /\ Sound(outcome.matched) /\ Sound(outcome.book)
    /\ \A x \in Elem : x > e => outcome.book.order[x] = NoOrder
    /\ outcome.events \in Seq(ValidEvents) /\ outcome.rejected = FALSE

\* A match with the events of an amend, if any, before it.
LEMMA MatchedIsGood ==
    ASSUME NEW b, Sound(b), NEW e \in Elem, \A x \in Elem : x >= e => b.order[x] = NoOrder,
           NEW o, Priced(o), o.amount > 0, NEW amended \in Seq(ValidEvents)
    PROVE  GoodOutcome(b, e, Matched(b, o, amended, e))
<1>1. PICK m, events, c, outcome : /\ m = Match(b, o, e) /\ c = m.book
                                   /\ events = MatchEvents(o, m.taker, m.makers, amended)
                                   /\ outcome = Matched(b, o, amended, e)
    OBVIOUS
<1>2. /\ Sound(c) /\ Shrinks(b, c) /\ TakerLeft(o, m.taker) /\ m.makers \in Seq(MakerFills)
      /\ m.taker \in Order
    BY <1>1, MatchEnds DEF Underway, Keeps, TakerLeft
<1>3. events \in Seq(ValidEvents) /\ AllValid(events)
    BY <1>1, <1>2, MatchEventsAreValid, SequencesOfValidEvents
<1>4. \A x \in Elem : x >= e => c.order[x] = NoOrder
    BY <1>2 DEF Shrinks
<1>5. \A x \in Elem : x > e => x >= e /\ x # e
    BY DEF Elem
<1>6. CASE m.err
  <2>1. outcome = [matched |-> c, book |-> c, logs |-> << >>, events |-> << >>,
                   err |-> TRUE, rejected |-> FALSE]
      BY <1>1, <1>6 DEF Matched
  <2> QED BY <1>1, <1>2, <1>4, <1>5, <2>1, SequencesOfValidEvents DEF GoodOutcome
<1>7. CASE ~m.err
  <2>1. PICK r, logged, refused : /\ r = IF Rests(m.taker) THEN AddOrder(c, e, m.taker) ELSE c
                                  /\ logged = m.logs /\ refused = ~AllValid(events)
      OBVIOUS
  <2>2. outcome = [matched |-> c, book |-> r, logs |-> logged, events |-> events,
                   err |-> FALSE, rejected |-> refused]
      BY <1>1, <1>7, <2>1 DEF Matched
  <2>3. Sound(r) /\ \A x \in Elem : x > e => r.order[x] = NoOrder
    <3>1. CASE ~Rests(m.taker)
        BY <1>2, <1>4, <1>5, <2>1, <3>1
    <3>2. CASE Rests(m.taker)
      <4>1. CanRest(m.taker)
          BY <1>2, <3>2 DEF Rests, TakerLeft, Priced, CanRest
      <4>2. Links(c, r, e, m.taker)
          BY <1>2, <1>4, <2>1, <3>2, <4>1, AddOrderLinks
      <4>3. Grows(c, r, e, m.taker)
          BY <1>2, <1>4, <4>1, <4>2, LinkGrows
      <4> QED BY <1>4, <1>5, <4>3 DEF Grows
    <3> QED BY <3>1, <3>2
  <2>4. /\ outcome.matched = c /\ outcome.book = r /\ outcome.events = events
        /\ outcome.rejected = FALSE
    <3>1. refused = FALSE
        BY <1>3, <2>1
    <3> QED BY <2>2, <3>1
  <2>5. GoodOutcome(b, e, outcome)
      BY <1>2, <1>3, <2>3, <2>4 DEF GoodOutcome
  <2> QED BY <1>1, <2>5
<1> QED BY <1>6, <1>7

(***************************************************************************)
(* What a worker computes for one command, in the one call that Engine     *)
(* takes for Apply: from any sound book, a create, an amend or a cancel    *)
(* returns a sound book again, on which nothing of a later command rests,  *)
(* and no event that the writer refuses.  A replay of any journal          *)
(* therefore cannot fail for its events, whatever the orders in it.        *)
(***************************************************************************)
THEOREM OutcomesAreGood ==
    ASSUME NEW b, Sound(b), NEW e \in Elem, \A x \in Elem : x >= e => b.order[x] = NoOrder
    PROVE  /\ \A o : Priced(o) /\ o.amount > 0 => GoodOutcome(b, e, ApplyCreate(b, o, e))
           /\ \A id \in OrderID, price \in Price, amount \in Amount \cup {NoAmount} :
                  GoodOutcome(b, e, ApplyAmend(b, id, price, amount, e))
           /\ \A id \in OrderID : GoodOutcome(b, e, ApplyCancel(b, id))
<1>1. ASSUME NEW o, Priced(o), o.amount > 0 PROVE GoodOutcome(b, e, ApplyCreate(b, o, e))
  <2>1. << >> \in Seq(ValidEvents)
      BY SequencesOfValidEvents
  <2>2. GoodOutcome(b, e, Matched(b, o, << >>, e))
      BY <1>1, <2>1, MatchedIsGood
  <2> QED BY <2>2 DEF ApplyCreate
<1>2. \A x \in Elem : x > e => x >= e /\ x # e
    BY DEF Elem
<1>3. ASSUME NEW r, Sound(r), \A x \in Elem : x > e => r.order[x] = NoOrder,
             NEW events \in Seq(ValidEvents)
      PROVE  GoodOutcome(b, e, Unmatched(r, events))
  <2>1. AllValid(events)
      BY SequencesOfValidEvents
  <2> QED BY <1>3, <2>1 DEF GoodOutcome, Unmatched
<1>4. ASSUME NEW id \in OrderID, NEW price \in Price, NEW amount \in Amount \cup {NoAmount}
      PROVE  GoodOutcome(b, e, ApplyAmend(b, id, price, amount, e))
  <2>1. PICK edit, r, events : /\ edit = EditOrder(b, e, id, price, amount) /\ r = edit.book
                               /\ events = AmendEvents(edit)
      OBVIOUS
  <2>2. /\ Keeps(b, r)
        /\ \A x \in Elem : r.order[x] # NoOrder => b.order[x] # NoOrder \/ x = e
        /\ \/ edit.before = NoOrder /\ ~edit.rematch
           \/ /\ edit.before \in Order /\ CanRest(edit.before)
              /\ edit.after \in Order /\ CanRest(edit.after)
        /\ edit.rematch => r.order[e] = NoOrder
      BY <2>1, EditOrderKeeps
  <2>3. events \in Seq(ValidEvents)
      BY <2>1, <2>2, AmendEventsAreValid
  <2>4. Sound(r)
      BY <2>2 DEF Keeps
  <2>5. CASE edit.rematch
    <3>1. edit.after \in Order /\ CanRest(edit.after)
        BY <2>2, <2>5
    <3>2. Priced(edit.after) /\ edit.after.amount > 0
        BY <3>1, RestingIsPriced
    <3>3. \A x \in Elem : x >= e => r.order[x] = NoOrder
        BY <2>2, <2>5
    <3>4. GoodOutcome(r, e, Matched(r, edit.after, events, e))
        BY <2>3, <2>4, <3>2, <3>3, MatchedIsGood
    <3>5. ApplyAmend(b, id, price, amount, e) = Matched(r, edit.after, events, e)
        BY <2>1, <2>5 DEF ApplyAmend
    <3> QED BY <3>4, <3>5 DEF GoodOutcome
  <2>6. CASE ~edit.rematch
    <3>1. \A x \in Elem : x > e => r.order[x] = NoOrder
        BY <1>2, <2>2
    <3>2. ApplyAmend(b, id, price, amount, e) = Unmatched(r, events)
        BY <2>1, <2>6 DEF ApplyAmend
    <3> QED BY <1>3, <2>3, <2>4, <3>1, <3>2
  <2> QED BY <2>5, <2>6
<1>5. ASSUME NEW id \in OrderID PROVE GoodOutcome(b, e, ApplyCancel(b, id))
  <2>1. PICK result, r, events : /\ result = RemoveOrder(b, id) /\ r = result.book
                                 /\ events = CancelEvents(result.removed)
      OBVIOUS
  <2>2. /\ Keeps(b, r) /\ Shrinks(b, r)
        /\ result.removed = NoOrder \/ (result.removed \in Order /\ CanRest(result.removed))
      BY <2>1, RemoveOrderKeeps
  <2>3. events \in Seq(ValidEvents)
      BY <2>1, <2>2, CancelEventsAreValid
  <2>4. Sound(r) /\ \A x \in Elem : x > e => r.order[x] = NoOrder
      BY <1>2, <2>2 DEF Keeps, Shrinks
  <2>5. ApplyCancel(b, id) = Unmatched(r, events)
      BY <2>1 DEF ApplyCancel
  <2> QED BY <1>3, <2>3, <2>4, <2>5
<1> QED BY <1>1, <1>4, <1>5

-----------------------------------------------------------------------------
(* The steps of a command compute what it returns as a function            *)

\* The state of the loop in the middle of a match, and the state in which the
\* loop ends from there.
Current == [book |-> book, taker |-> taker, logs |-> logs, makers |-> makers, err |-> FALSE]

RunFrom(m, seq) == (CHOOSE h : Iterates(h, MaxElem + 1, m, seq))[MaxElem + 1]

\* What applyCommand makes of it.
Result(m, o, amended, seq) ==
    LET events == MatchEvents(o, m.taker, m.makers, amended)
    IN  IF m.err
        THEN [matched |-> m.book, book |-> m.book, logs |-> << >>, events |-> << >>,
              err |-> TRUE, rejected |-> FALSE]
        ELSE [matched |-> m.book,
              book |-> IF Rests(m.taker) THEN AddOrder(m.book, seq, m.taker) ELSE m.book,
              logs |-> m.logs, events |-> events, err |-> FALSE, rejected |-> ~AllValid(events)]

\* What the command in progress will return.
Foretold == Result(RunFrom(Current, sequence), beforeMatch, builder, sequence)

Publishes(outcome) ==
    /\ ~outcome.err /\ ~outcome.rejected /\ phase' = "idle"
    /\ book' = outcome.book
    /\ matchLogs' = matchLogs \o outcome.logs
    /\ orderEvents' = orderEvents \o outcome.events

CreateExecutes == Create => phase' = "matching" /\ Foretold' = ApplyCreate(book, taker', sequence')

AmendExecutes ==
    Amend => \E id \in issued, price \in Price, amount \in Amount \cup {NoAmount} :
                LET outcome == ApplyAmend(book, id, price, amount, sequence')
                IN  IF phase' = "matching" THEN Foretold' = outcome ELSE Publishes(outcome)

CancelExecutes == Cancel => \E id \in issued : Publishes(ApplyCancel(book, id))

MatchExecutes ==
    /\ Fill => Foretold' = Foretold
    /\ QuoteOverflow => Foretold.err /\ book' = Foretold.book
    /\ Settle => book = Foretold.matched /\ Publishes(Foretold)

\* From any state of the loop it ends in one state.
LEMMA RunIs ==
    ASSUME NEW m, NEW seq, NEW h, Iterates(h, MaxElem + 1, m, seq)
    PROVE  RunFrom(m, seq) = h[MaxElem + 1]
<1>1. PICK last, g : last = MaxElem + 1 /\ g = CHOOSE x : Iterates(x, last, m, seq)
    OBVIOUS
<1>2. last \in Nat /\ last <= last
    BY <1>1, BookAssumption
<1>3. Iterates(g, last, m, seq)
    BY <1>1
<1>4. g[last] = h[last]
    BY <1>1, <1>2, <1>3, IterationsAgree
<1> QED BY <1>1, <1>4 DEF RunFrom

LEMMA RunOfMatch == ASSUME NEW b, NEW o, NEW seq PROVE RunFrom(Started(b, o), seq) = Match(b, o, seq)
<1>1. PICK start : start = Started(b, o)
    OBVIOUS
<1>2. PICK h : Iterates(h, MaxElem + 1, start, seq) /\ Match(b, o, seq) = h[MaxElem + 1]
    BY <1>1, MatchIs
<1> QED BY <1>1, <1>2, RunIs

\* If it has ended there, in that one.
LEMMA RunEnded == ASSUME NEW m, Ended(m), NEW seq PROVE RunFrom(m, seq) = m
<1>1. PICK last, h : last = MaxElem + 1 /\ h = [i \in 0..last |-> m]
    OBVIOUS
<1>2. last \in Nat /\ last \in 0..last /\ 0 \in 0..last
    BY <1>1, BookAssumption
<1>3. \A i \in 1..last : i \in 0..last /\ i - 1 \in 0..last
    BY <1>2
<1>4. Iterated(m, seq) = m
    BY DEF Iterated
<1>5. \A i \in 1..last : h[i] = m /\ h[i - 1] = m
    BY <1>1, <1>3
<1>6. h[0] = m /\ h[last] = m
    BY <1>1, <1>2
<1>7. Iterates(h, last, m, seq)
    BY <1>4, <1>5, <1>6 DEF Iterates
<1> QED BY <1>1, <1>6, <1>7, RunIs

\* An iteration does not change it.
LEMMA RunIterated ==
    ASSUME NEW b, NEW o, NEW m, Underway(b, o, m), NEW seq
    PROVE  RunFrom(Iterated(m, seq), seq) = RunFrom(m, seq)
<1>1. PICK last, n : last = MaxElem + 1 /\ n = Iterated(m, seq)
    OBVIOUS
<1>2. MaxElem \in Nat /\ last \in Nat /\ last \in 1..last /\ last - 1 = MaxElem /\ last <= last
    BY <1>1, BookAssumption
<1>3. PICK g : Iterates(g, last, n, seq)
    BY <1>2, IterationsExist
<1>4. PICK k : k = [i \in 0..last |-> IF i = 0 THEN m ELSE g[i - 1]]
    OBVIOUS
<1>5. \A i \in 0..last : k[i] = IF i = 0 THEN m ELSE g[i - 1]
    BY <1>4
<1>6. Iterates(k, last, m, seq)
  <2>1. 0 \in 0..last
      BY <1>2
  <2>2. k[0] = m
      BY <1>5, <2>1
  <2>3. ASSUME NEW i \in 1..last PROVE k[i] = Iterated(k[i - 1], seq)
    <3>1. PICK j : j = i - 1
        OBVIOUS
    <3>2. i \in 0..last /\ j \in 0..last /\ i # 0
        BY <1>2, <3>1
    <3>3. k[i] = g[j]
        BY <1>5, <3>1, <3>2
    <3>4. CASE j = 0
        BY <1>1, <1>3, <2>2, <3>1, <3>3, <3>4 DEF Iterates
    <3>5. CASE j # 0
      <4>1. j \in 1..last
          BY <1>2, <3>1, <3>5
      <4>2. g[j] = Iterated(g[j - 1], seq)
          BY <1>3, <4>1 DEF Iterates
      <4>3. k[j] = g[j - 1]
          BY <1>5, <3>2, <3>5
      <4> QED BY <3>1, <3>3, <4>2, <4>3
    <3> QED BY <3>4, <3>5
  <2> QED BY <2>2, <2>3 DEF Iterates
<1>7. RunFrom(m, seq) = k[last] /\ RunFrom(n, seq) = g[last]
    BY <1>1, <1>3, <1>6, RunIs
<1>8. Ended(k[last])
    BY <1>1, <1>6, LoopEnds
<1>9. k[last] = g[last - 1]
    BY <1>2, <1>5
<1>10. g[last] = Iterated(g[last - 1], seq)
    BY <1>2, <1>3 DEF Iterates
<1>11. g[last] = k[last]
    BY <1>8, <1>9, <1>10 DEF Iterated
<1> QED BY <1>1, <1>7, <1>11

\* A command that matches will return what Matched says.
LEMMA MatchForetold ==
    ASSUME Inv, LogsHeld, phase = "idle", NEW o, NEW events, BeginMatch(o, events)
    PROVE  phase' = "matching" /\ taker' = o /\ Foretold' = Matched(book', o, events, sequence')
<1>1. /\ phase' = "matching" /\ taker' = o /\ beforeMatch' = o /\ builder' = events
      /\ logs' = logs /\ makers' = makers
    BY DEF BeginMatch
<1>2. logs = << >> /\ makers = << >>
    BY DEF Inv, MatchInProgress, LogsHeld
<1>3. PICK r, n, m : r = book' /\ n = sequence' /\ m = Match(r, o, n)
    OBVIOUS
<1>4. Current' = Started(r, o)
    BY <1>1, <1>2, <1>3 DEF Current, Started
<1>5. RunFrom(Started(r, o), n) = m
    BY <1>3, RunOfMatch
<1>6. Foretold' = Result(RunFrom(Current', sequence'), beforeMatch', builder', sequence')
    BY DEF Foretold
<1>7. Foretold' = Result(m, o, events, n)
    BY <1>1, <1>3, <1>4, <1>5, <1>6
<1>8. Matched(r, o, events, n) = Result(m, o, events, n)
    BY <1>3 DEF Matched, Result
<1> QED BY <1>1, <1>3, <1>7, <1>8

\* One that does not publishes its events.
LEMMA EventsPublished ==
    ASSUME Inv, LogsHeld, NEW events \in Seq(ValidEvents), Return(events), matchLogs' = matchLogs
    PROVE  Publishes(Unmatched(book', events)) /\ phase' = "idle"
<1>1. phase' = "idle" /\ orderEvents' = orderEvents \o events
    BY ReturnFacts
<1>2. PICK r, refused, outcome : /\ r = book' /\ refused = ~AllValid(events)
                                 /\ outcome = Unmatched(r, events)
    OBVIOUS
<1>3. outcome = [matched |-> r, book |-> r, logs |-> << >>, events |-> events,
                 err |-> FALSE, rejected |-> refused]
    BY <1>2 DEF Unmatched
<1>4. ~refused
    BY <1>2, SequencesOfValidEvents
<1>5. matchLogs \o << >> = matchLogs
  <2>1. matchLogs \in Seq(LogRecord)
      BY DEF LogsHeld
  <2> QED BY <2>1
<1>6. ~outcome.err /\ ~outcome.rejected
    BY <1>3, <1>4
<1>7. outcome.book = r /\ outcome.logs = << >> /\ outcome.events = events
    BY <1>3
<1> QED BY <1>1, <1>2, <1>5, <1>6, <1>7 DEF Publishes

\* The loop in the middle of a match.
LEMMA MatchUnderway ==
    ASSUME Inv, phase = "matching"
    PROVE  /\ Underway(book, beforeMatch, Current)
           /\ Current.book = book /\ Current.taker = taker /\ Current.logs = logs
           /\ Current.makers = makers /\ Current.err = FALSE
           /\ Ended(Current) <=> ~CanFill(book, taker)
<1>1. PICK m : m = Current
    OBVIOUS
<1>2. m = [book |-> book, taker |-> taker, logs |-> logs, makers |-> makers, err |-> FALSE]
    BY <1>1 DEF Current
<1>3. /\ m.book = book /\ m.taker = taker /\ m.logs = logs /\ m.makers = makers
      /\ m.err = FALSE
    BY <1>2
<1>4. MatchState(m)
    BY <1>2 DEF MatchState
<1>5. /\ Sound(book) /\ TakerLeft(beforeMatch, taker) /\ makers \in Seq(MakerFills)
    BY DEF Inv, MatchInProgress
<1>6. Keeps(book, book) /\ Shrinks(book, book)
    BY <1>5, KeepsItself
<1>7. Underway(book, beforeMatch, m)
    BY <1>3, <1>4, <1>5, <1>6 DEF Underway
<1> QED BY <1>1, <1>3, <1>7 DEF Ended

\* A fill is an iteration.
LEMMA FillExecutes == ASSUME Inv, Fill PROVE Foretold' = Foretold
<1>1. /\ phase = "matching" /\ CanFill(book, taker) /\ ~QuoteOverflows(book, taker)
      /\ book' = BookAfterFill(book, taker) /\ taker' = TakerAfterFill(book, taker)
      /\ logs' = Append(logs, MatchLog(book, taker, sequence, Len(logs)))
      /\ makers' = Append(makers, MakerFill(book, taker))
      /\ sequence' = sequence /\ beforeMatch' = beforeMatch /\ builder' = builder
    BY DEF Fill
<1>2. PICK m, n, seq : m = Current /\ n = Iterated(m, seq) /\ seq = sequence
    OBVIOUS
<1>3. /\ Underway(book, beforeMatch, m) /\ ~Ended(m)
      /\ m.book = book /\ m.taker = taker /\ m.logs = logs /\ m.makers = makers /\ m.err = FALSE
    BY <1>1, <1>2, MatchUnderway
<1>4. PICK r, t, l, f : /\ r = BookAfterFill(book, taker) /\ t = TakerAfterFill(book, taker)
                        /\ l = MatchLog(book, taker, seq, Len(logs)) /\ f = MakerFill(book, taker)
    OBVIOUS
<1>5. n = [m EXCEPT !.book = r, !.taker = t, !.logs = Append(@, l), !.makers = Append(@, f)]
    BY <1>1, <1>2, <1>3, <1>4 DEF Iterated
<1>6. m = [book |-> book, taker |-> taker, logs |-> logs, makers |-> makers, err |-> FALSE]
    BY <1>2 DEF Current
<1>7. n = [book |-> r, taker |-> t, logs |-> Append(logs, l), makers |-> Append(makers, f), err |-> FALSE]
    BY <1>5, <1>6
<1>8. Current' = n
    BY <1>1, <1>2, <1>4, <1>7 DEF Current
<1>9. RunFrom(n, seq) = RunFrom(m, seq)
    BY <1>2, <1>3, RunIterated
<1>10. Foretold' = Result(RunFrom(Current', sequence'), beforeMatch', builder', sequence')
    BY DEF Foretold
<1> QED BY <1>1, <1>2, <1>8, <1>9, <1>10 DEF Foretold

\* An overflow is the last one.
LEMMA OverflowExecutes == ASSUME Inv, QuoteOverflow PROVE Foretold.err /\ book' = Foretold.book
<1>1. phase = "matching" /\ CanFill(book, taker) /\ QuoteOverflows(book, taker) /\ book' = book
    BY DEF QuoteOverflow
<1>2. PICK m, n, seq : m = Current /\ n = Iterated(m, seq) /\ seq = sequence
    OBVIOUS
<1>3. Underway(book, beforeMatch, m) /\ ~Ended(m) /\ m.book = book /\ m.taker = taker
    BY <1>1, <1>2, MatchUnderway
<1>4. n = [m EXCEPT !.err = TRUE]
    BY <1>1, <1>2, <1>3 DEF Iterated
<1>5. m = [book |-> book, taker |-> taker, logs |-> logs, makers |-> makers, err |-> FALSE]
    BY <1>2 DEF Current
<1>6. n = [book |-> book, taker |-> taker, logs |-> logs, makers |-> makers, err |-> TRUE]
    BY <1>4, <1>5
<1>7. n.err = TRUE /\ n.book = book
    BY <1>6
<1>8. RunFrom(m, seq) = n
    BY <1>2, <1>3, <1>7, RunIterated, RunEnded DEF Ended
<1>9. Foretold = Result(n, beforeMatch, builder, seq)
    BY <1>2, <1>8 DEF Foretold
<1>10. Foretold = [matched |-> book, book |-> book, logs |-> << >>, events |-> << >>,
                   err |-> TRUE, rejected |-> FALSE]
    BY <1>7, <1>9 DEF Result
<1>11. Foretold.err = TRUE /\ Foretold.book = book
    BY <1>10
<1> QED BY <1>1, <1>11

\* When the loop has ended the outcome is published.
LEMMA SettleExecutes == ASSUME Inv, Settle PROVE book = Foretold.matched /\ Publishes(Foretold)
<1>1. PICK events : events = MatchEvents(beforeMatch, taker, makers, builder)
    OBVIOUS
<1>2. /\ phase = "matching" /\ ~CanFill(book, taker) /\ matchLogs' = matchLogs \o logs
      /\ book' = IF Rests(taker) THEN AddOrder(book, sequence, taker) ELSE book
      /\ Return(events)
    BY <1>1 DEF Settle
<1>3. PICK m : m = Current
    OBVIOUS
<1>4. /\ Ended(m) /\ m.book = book /\ m.taker = taker /\ m.logs = logs /\ m.makers = makers
      /\ m.err = FALSE
    BY <1>2, <1>3, MatchUnderway
<1>5. RunFrom(m, sequence) = m
    BY <1>4, RunEnded
<1>6. Foretold = Result(m, beforeMatch, builder, sequence)
    BY <1>3, <1>5 DEF Foretold
<1>7. PICK refused, r : refused = ~AllValid(events) /\ r = book'
    OBVIOUS
<1>8. Foretold = [matched |-> book, book |-> r, logs |-> logs, events |-> events,
                  err |-> FALSE, rejected |-> refused]
    BY <1>1, <1>2, <1>4, <1>6, <1>7 DEF Result
<1>9. events \in Seq(ValidEvents)
    BY <1>1, <1>2, MatchEventsAreValid DEF Inv, MatchInProgress
<1>10. phase' = "idle" /\ orderEvents' = orderEvents \o events /\ ~refused
    BY <1>2, <1>7, <1>9, ReturnFacts, SequencesOfValidEvents
<1>11. /\ Foretold.matched = book /\ Foretold.book = r /\ Foretold.logs = logs
       /\ Foretold.events = events
    BY <1>8
<1>12. ~Foretold.err /\ ~Foretold.rejected
    BY <1>8, <1>10
<1> QED BY <1>2, <1>7, <1>10, <1>11, <1>12 DEF Publishes

\* What each step of a command has to do with it.
LEMMA StepExecutes ==
    ASSUME Inv, LogsHeld, [Next]_vars
    PROVE  CreateExecutes /\ AmendExecutes /\ CancelExecutes /\ MatchExecutes
<1>1. /\ Sound(book) /\ FreshElements /\ sequence \in 0..MaxElem /\ MaxElem \in Nat
      /\ issued \subseteq OrderID
    BY BookAssumption DEF Inv, TypeOK
<1>2. ASSUME TakeCommand
      PROVE  /\ phase = "idle" /\ sequence' = sequence + 1 /\ sequence' \in Elem
             /\ \A x \in Elem : x >= sequence' => book.order[x] = NoOrder
  <2>1. phase = "idle" /\ sequence' = sequence + 1 /\ sequence < MaxElem
      BY <1>2 DEF TakeCommand
  <2>2. sequence' \in Elem /\ \A x \in Elem : x >= sequence' => x > sequence
      BY <1>1, <2>1 DEF Elem
  <2> QED BY <1>1, <2>1, <2>2 DEF FreshElements
<1>3. ASSUME Create
      PROVE  phase' = "matching" /\ Foretold' = ApplyCreate(book, taker', sequence')
  <2>1. PICK o : BeginMatch(o, << >>)
      BY <1>3 DEF Create
  <2>2. TakeCommand /\ book' = book
      BY <1>3 DEF Create
  <2> QED BY <1>2, <2>1, <2>2, MatchForetold DEF ApplyCreate
<1>4. ASSUME Cancel
      PROVE  \E id \in issued : Publishes(ApplyCancel(book, id))
  <2>1. PICK id, result : /\ id \in issued /\ result = RemoveOrder(book, id)
                          /\ book' = result.book /\ Return(CancelEvents(result.removed))
      BY <1>4 DEF Cancel
  <2>2. matchLogs' = matchLogs
      BY <1>4 DEF Cancel
  <2>3. PICK events : events = CancelEvents(result.removed)
      OBVIOUS
  <2>4. events \in Seq(ValidEvents)
    <3>1. id \in OrderID
        BY <1>1, <2>1
    <3>2. result.removed = NoOrder \/ (result.removed \in Order /\ CanRest(result.removed))
        BY <1>1, <2>1, <3>1, RemoveOrderKeeps
    <3> QED BY <2>3, <3>2, CancelEventsAreValid
  <2>5. Publishes(Unmatched(book', events))
      BY <2>1, <2>2, <2>3, <2>4, EventsPublished
  <2>6. ApplyCancel(book, id) = Unmatched(book', events)
      BY <2>1, <2>3 DEF ApplyCancel
  <2> QED BY <2>1, <2>5, <2>6
<1>5. ASSUME Amend
      PROVE  \E id \in issued, price \in Price, amount \in Amount \cup {NoAmount} :
                LET outcome == ApplyAmend(book, id, price, amount, sequence')
                IN  IF phase' = "matching" THEN Foretold' = outcome ELSE Publishes(outcome)
  <2>1. TakeCommand /\ matchLogs' = matchLogs
      BY <1>5 DEF Amend
  <2>2. PICK id, price, amount, edit, events :
            /\ id \in issued /\ price \in Price /\ amount \in Amount \cup {NoAmount}
            /\ edit = EditOrder(book, sequence + 1, id, price, amount)
            /\ events = AmendEvents(edit)
            /\ book' = edit.book
            /\ IF edit.rematch THEN BeginMatch(edit.after, events) ELSE Return(events)
      BY <1>5 DEF Amend
  <2>3. PICK e, outcome : e = sequence' /\ outcome = ApplyAmend(book, id, price, amount, e)
      OBVIOUS
  <2>4. edit = EditOrder(book, e, id, price, amount)
      BY <1>2, <2>1, <2>2, <2>3
  <2>5. CASE edit.rematch
    <3>1. outcome = Matched(book', edit.after, events, e)
        BY <2>2, <2>3, <2>4, <2>5 DEF ApplyAmend
    <3>2. phase' = "matching" /\ Foretold' = Matched(book', edit.after, events, e)
        BY <1>2, <2>1, <2>2, <2>3, <2>5, MatchForetold
    <3> QED BY <2>2, <2>3, <3>1, <3>2
  <2>6. CASE ~edit.rematch
    <3>1. outcome = Unmatched(book', events)
        BY <2>2, <2>3, <2>4, <2>6 DEF ApplyAmend
    <3>2. events \in Seq(ValidEvents)
      <4>1. id \in OrderID /\ e \in Elem /\ \A x \in Elem : x >= e => book.order[x] = NoOrder
          BY <1>1, <1>2, <2>1, <2>2, <2>3
      <4>2. \/ edit.before = NoOrder
            \/ /\ edit.before \in Order /\ CanRest(edit.before)
               /\ edit.after \in Order /\ CanRest(edit.after)
          BY <1>1, <2>2, <2>4, <4>1, EditOrderKeeps
      <4> QED BY <2>2, <4>2, AmendEventsAreValid
    <3>3. Publishes(outcome) /\ phase' = "idle"
        BY <2>1, <2>2, <2>6, <3>1, <3>2, EventsPublished
    <3> QED BY <2>2, <2>3, <3>3
  <2> QED BY <2>5, <2>6
<1>6. MatchExecutes
    BY FillExecutes, OverflowExecutes, SettleExecutes DEF MatchExecutes
<1> QED BY <1>3, <1>4, <1>5, <1>6 DEF CreateExecutes, AmendExecutes, CancelExecutes

(***************************************************************************)
(* A command taken step by step, with every fill a step of its own, does   *)
(* what the one call returns that Engine takes for it: when it begins, its *)
(* outcome is what ApplyCreate, ApplyAmend or ApplyCancel returns for the  *)
(* book it finds; no fill changes that outcome; and when it ends, the      *)
(* book, the logs and the events published are those of the outcome, or    *)
(* it has failed as the outcome says.                                      *)
(***************************************************************************)
THEOREM StepsExecuteTheFunction ==
    Spec => [][CreateExecutes /\ AmendExecutes /\ CancelExecutes /\ MatchExecutes]_vars
<1>1. Inv /\ Inv' /\ LogsHeld /\ [Next]_vars => LogsHeld'
    BY LogsStep
<1>2. Inv /\ LogsHeld /\ [Next]_vars
      => [CreateExecutes /\ AmendExecutes /\ CancelExecutes /\ MatchExecutes]_vars
    BY StepExecutes
<1> QED BY <1>1, <1>2, LogsInit, Invariance, PTL DEF Spec

==============================================================================
