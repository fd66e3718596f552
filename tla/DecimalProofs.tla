----------------------------- MODULE DecimalProofs -----------------------------
(***************************************************************************)
(* What the conversions of Decimal compute, for any text and any scale: a  *)
(* text that ParseScaled accepts is converted without loss, DecimalSign    *)
(* says the sign of the result, and quotients are rounded down.            *)
(*                                                                         *)
(* Powers and digits are read by recursion.  Instead of an induction these *)
(* proofs take the least place at which a claim fails (UpTo).              *)
(***************************************************************************)
EXTENDS Decimal, FiniteSetTheorems, SequenceTheorems, WellFoundedInduction, TLAPS

-----------------------------------------------------------------------------
(* Recursion along an interval                                             *)

\* A set of naturals has a least element.
LEMMA LeastNatural ==
    ASSUME NEW T \in SUBSET Nat, T # {}
    PROVE  \E x \in T : \A y \in T : x <= y
<1> DEFINE R == {ss \in Nat \X Nat : ss[1] < ss[2]}
<1>1. IsWellFoundedOn(R, Nat)
    BY NatLessThanWellFounded, Zenon DEF OpToRel
<1>2. PICK x \in T : \A y \in T : <<y, x>> \notin R
  <2> HIDE DEF R
  <2> QED BY <1>1, WFMin
<1>3. \A y \in T : ~(y < x)
    BY <1>2
<1> QED BY <1>3

\* A bounded one has a greatest, too.
LEMMA GreatestNatural ==
    ASSUME NEW n \in Nat, NEW T \in SUBSET (0..n), T # {}
    PROVE  \E x \in T : \A y \in T : y <= x
<1>1. PICK U : U = {i \in Nat : n - i \in T}
    OBVIOUS
<1>2. U \in SUBSET Nat /\ U # {}
  <2>1. PICK x \in T : TRUE
      OBVIOUS
  <2>2. n - x \in Nat /\ n - (n - x) = x
      BY <2>1
  <2> QED BY <1>1, <2>1, <2>2
<1>3. PICK u \in U : \A v \in U : u <= v
    BY <1>2, LeastNatural
<1>4. n - u \in T /\ u \in Nat
    BY <1>1
<1>5. ASSUME NEW y \in T PROVE y <= n - u
  <2>1. n - y \in U
    <3>1. n - y \in Nat /\ n - (n - y) = y
        OBVIOUS
    <3> QED BY <1>1, <3>1
  <2>2. u <= n - y
      BY <1>3, <2>1
  <2> QED BY <1>4, <2>2
<1> QED BY <1>4, <1>5

\* What holds of 0, and of i + 1 when it holds of i, holds up to n.
LEMMA UpTo ==
    ASSUME NEW n \in Nat, NEW T, 0 \in T, \A i \in 0..(n - 1) : i \in T => i + 1 \in T
    PROVE  \A i \in 0..n : i \in T
<1> SUFFICES ASSUME NEW k \in 0..n, k \notin T PROVE FALSE
    OBVIOUS
<1>1. PICK F : F = {i \in 0..n : i \notin T}
    OBVIOUS
<1>2. F \in SUBSET Nat /\ F # {}
    BY <1>1
<1>3. PICK x \in F : \A y \in F : x <= y
    BY <1>2, LeastNatural
<1>4. x \in 0..n /\ x \notin T
    BY <1>1, <1>3
<1>5. x # 0
    BY <1>4
<1>6. x - 1 \in 0..(n - 1) /\ x - 1 \in 0..n /\ (x - 1) + 1 = x /\ ~(x <= x - 1)
    BY <1>4, <1>5
<1>7. x - 1 \in T
    BY <1>1, <1>3, <1>6
<1>8. x \in T
    BY <1>6, <1>7
<1> QED BY <1>4, <1>8

\* f starts at base and takes each further value from the one before.
Steps(f, n, base, next) == f[0] = base /\ \A i \in 1..n : f[i] = next[<<i, f[i - 1]>>]

\* next gives an integer for each place and integer.
StepTable(next, n) == next \in [(1..n) \X Int -> Int]

\* There are such functions.
LEMMA StepsExist ==
    ASSUME NEW n \in Nat, NEW base \in Int, NEW next, StepTable(next, n)
    PROVE  \E f : f \in [0..n -> Int] /\ Steps(f, n, base, next)
<1> DEFINE Good(m) == \E f \in [0..m -> Int] : Steps(f, m, base, next)
<1>1. PICK T : T = {m \in 0..n : Good(m)}
    OBVIOUS
<1>2. 0 \in T
  <2>1. PICK f : f = [i \in 0..0 |-> base]
      OBVIOUS
  <2>2. f \in [0..0 -> Int] /\ f[0] = base
      BY <2>1
  <2>3. Steps(f, 0, base, next)
      BY <2>2 DEF Steps
  <2> QED BY <1>1, <2>2, <2>3
<1>3. ASSUME NEW m \in 0..(n - 1), m \in T PROVE m + 1 \in T
  <2>1. PICK f \in [0..m -> Int] : Steps(f, m, base, next)
      BY <1>1, <1>3
  <2>2. m \in Nat /\ m + 1 \in 1..n /\ f[m] \in Int
      BY <2>1
  <2>3. PICK k, v : k = m + 1 /\ v = next[<<m + 1, f[m]>>]
      OBVIOUS
  <2>4. PICK g : g = [i \in 0..k |-> IF i = k THEN v ELSE f[i]]
      OBVIOUS
  <2>5. v \in Int /\ k \in Nat /\ \A i \in 0..k : i # k => i \in 0..m
      BY <2>2, <2>3 DEF StepTable
  <2>6. g \in [0..k -> Int]
      BY <2>1, <2>4, <2>5
  <2>7. g[k] = v /\ \A i \in 0..m : g[i] = f[i]
      BY <2>2, <2>3, <2>4
  <2>8. g[0] = base
      BY <2>1, <2>2, <2>7 DEF Steps
  <2>9. ASSUME NEW i \in 1..k PROVE g[i] = next[<<i, g[i - 1]>>]
    <3>1. CASE i = k
      <4>1. i - 1 = m /\ m \in 0..m
          BY <2>2, <2>3, <3>1
      <4>2. g[i - 1] = f[m]
          BY <2>7, <4>1
      <4> QED BY <2>3, <2>7, <3>1, <4>2
    <3>2. CASE i # k
      <4>1. i \in 1..m /\ i \in 0..m /\ i - 1 \in 0..m
          BY <2>2, <2>3, <3>2
      <4>2. g[i] = f[i] /\ g[i - 1] = f[i - 1]
          BY <2>7, <4>1
      <4>3. f[i] = next[<<i, f[i - 1]>>]
          BY <2>1, <4>1 DEF Steps
      <4> QED BY <4>2, <4>3
    <3> QED BY <3>1, <3>2
  <2>10. Good(k)
      BY <2>6, <2>8, <2>9 DEF Steps
  <2> QED BY <1>1, <2>2, <2>3, <2>10
<1>4. n \in T
  <2> HIDE DEF Good
  <2>1. n \in 0..n
      OBVIOUS
  <2> QED BY <1>2, <1>3, <2>1, UpTo
<1> QED BY <1>1, <1>4

-----------------------------------------------------------------------------
(* Powers of ten                                                           *)

Powers(f, n) == f[0] = 1 /\ \A i \in 1..n : f[i] = 10 * f[i - 1]

LEMMA PowersExist ==
    ASSUME NEW n \in Nat
    PROVE  \E f : f \in [0..n -> Int] /\ Powers(f, n)
<1>1. PICK next : next = [x \in (1..n) \X Int |-> 10 * x[2]]
    OBVIOUS
<1>2. StepTable(next, n)
  <2>1. \A x \in (1..n) \X Int : 10 * x[2] \in Int
      OBVIOUS
  <2> QED BY <1>1, <2>1 DEF StepTable
<1>20. ASSUME NEW i \in 1..n, NEW x \in Int PROVE next[<<i, x>>] = 10 * x
  <2>1. <<i, x>> \in (1..n) \X Int /\ <<i, x>>[2] = x
      OBVIOUS
  <2> QED BY <1>1, <2>1
<1>21. PICK base \in Int : base = 1
    OBVIOUS
<1>3. PICK f : f \in [0..n -> Int] /\ Steps(f, n, base, next)
    BY <1>2, StepsExist
<1>4. \A i \in 1..n : i - 1 \in 0..n
    OBVIOUS
<1>5. \A i \in 1..n : f[i - 1] \in Int
    BY <1>3, <1>4
<1> QED BY <1>3, <1>5, <1>20, <1>21 DEF Steps, Powers

LEMMA PowersAgree ==
    ASSUME NEW n \in Nat, NEW f, Powers(f, n), NEW m \in Nat, NEW g, Powers(g, m),
           NEW k \in Nat, k <= n, k <= m
    PROVE  f[k] = g[k]
<1>1. PICK T : T = {i \in 0..k : f[i] = g[i]}
    OBVIOUS
<1>2. 0 \in T
    BY <1>1 DEF Powers
<1>3. ASSUME NEW i \in 0..(k - 1), i \in T PROVE i + 1 \in T
  <2>1. PICK j : j = i + 1
      OBVIOUS
  <2>2. j \in 0..k /\ j \in 1..n /\ j \in 1..m /\ j - 1 = i
      BY <2>1
  <2>3. f[j] = 10 * f[i] /\ g[j] = 10 * g[i]
      BY <2>2 DEF Powers
  <2> QED BY <1>1, <1>3, <2>1, <2>2, <2>3
<1>4. k \in 0..k
    OBVIOUS
<1> QED BY <1>1, <1>2, <1>3, <1>4, UpTo

\* pow10 is the last power of any such sequence.
LEMMA Pow10Is ==
    ASSUME NEW n \in Nat, NEW f, Powers(f, n), NEW k \in 0..n
    PROVE  pow10(k) = f[k]
<1> DEFINE A(p) == p = [i \in 0..k |-> IF i = 0 THEN 1 ELSE 10 * p[i - 1]]
<1>1. k \in Nat /\ k <= n /\ k <= k /\ k \in 0..k
    OBVIOUS
<1>2. \A p : A(p) => Powers(p, k)
    BY <1>1 DEF Powers
<1>3. \E p : A(p)
  <2>1. PICK p : p \in [0..k -> Int] /\ Powers(p, k)
      BY PowersExist
  <2>2. \A i \in 0..k : p[i] = IF i = 0 THEN 1 ELSE 10 * p[i - 1]
      BY <2>1 DEF Powers
  <2> QED BY <2>1, <2>2
<1>4. PICK p : p = CHOOSE x : A(x)
    OBVIOUS
<1>5. pow10(k) = p[k]
    BY <1>4 DEF pow10
<1> HIDE DEF A
<1>6. Powers(p, k)
    BY <1>2, <1>3, <1>4
<1>7. f[k] = p[k]
    BY <1>1, <1>6, PowersAgree
<1> QED BY <1>5, <1>7

LEMMA Pow10Facts ==
    ASSUME NEW k \in Nat
    PROVE  /\ pow10(0) = 1
           /\ pow10(k) \in Nat /\ pow10(k) > 0
           /\ pow10(k + 1) = 10 * pow10(k)
<1>1. PICK n : n = k + 1
    OBVIOUS
<1>2. n \in Nat /\ n \in 1..n /\ n - 1 = k /\ k \in 0..n /\ 0 \in 0..n /\ n \in 0..n
    BY <1>1
<1>3. PICK f : f \in [0..n -> Int] /\ Powers(f, n)
    BY <1>2, PowersExist
<1>4. \A i \in 0..n : pow10(i) = f[i]
    BY <1>2, <1>3, Pow10Is
<1>5. f[n] = 10 * f[k] /\ f[0] = 1
    BY <1>2, <1>3 DEF Powers
<1>6. PICK T : T = {i \in 0..n : f[i] \in Nat /\ f[i] > 0}
    OBVIOUS
<1>7. 0 \in T
    BY <1>2, <1>5, <1>6
<1>8. ASSUME NEW i \in 0..(n - 1), i \in T PROVE i + 1 \in T
  <2>1. PICK j : j = i + 1
      OBVIOUS
  <2>2. j \in 0..n /\ j \in 1..n /\ j - 1 = i
      BY <1>2, <2>1
  <2>3. f[j] = 10 * f[i] /\ f[i] \in Nat /\ f[i] > 0
      BY <1>3, <1>6, <1>8, <2>2 DEF Powers
  <2> QED BY <1>6, <2>1, <2>2, <2>3
<1>9. k \in T
    BY <1>2, <1>7, <1>8, UpTo
<1> QED BY <1>1, <1>2, <1>4, <1>5, <1>6, <1>9

LEMMA Pow10Adds ==
    ASSUME NEW a \in Nat, NEW b \in Nat
    PROVE  pow10(a + b) = pow10(a) * pow10(b)
<1>1. PICK T : T = {i \in 0..b : pow10(a + i) = pow10(a) * pow10(i)}
    OBVIOUS
<1>2. 0 \in T
  <2>1. a + 0 = a /\ pow10(0) = 1 /\ pow10(a) \in Nat
      BY Pow10Facts
  <2> QED BY <1>1, <2>1
<1>3. ASSUME NEW i \in 0..(b - 1), i \in T PROVE i + 1 \in T
  <2>1. PICK c, j : c = a + i /\ j = i + 1
      OBVIOUS
  <2>2. c \in Nat /\ i \in Nat /\ j \in 0..b /\ a + j = c + 1
      BY <2>1
  <2>3. pow10(c + 1) = 10 * pow10(c) /\ pow10(i + 1) = 10 * pow10(i)
      BY <2>2, Pow10Facts
  <2>4. pow10(c) = pow10(a) * pow10(i)
      BY <1>1, <1>3, <2>1
  <2>5. PICK x, y, z : x = pow10(a) /\ y = pow10(i) /\ z = pow10(j)
      OBVIOUS
  <2>6. x \in Nat /\ y \in Nat /\ z = 10 * y
      BY <2>1, <2>2, <2>3, <2>5, Pow10Facts
  <2>7. 10 * (x * y) = x * z
      BY <2>6
  <2>8. pow10(a + j) = x * z
      BY <2>2, <2>3, <2>4, <2>5, <2>7
  <2> QED BY <1>1, <2>1, <2>2, <2>5, <2>8
<1>4. b \in T
  <2>1. b \in 0..b
      OBVIOUS
  <2> QED BY <1>2, <1>3, <2>1, UpTo
<1> QED BY <1>1, <1>4

\* A larger scale has the larger power.
LEMMA Pow10Grows ==
    ASSUME NEW a \in Nat, NEW b \in Nat, a <= b
    PROVE  pow10(a) <= pow10(b)
<1>1. PICK d : d = b - a
    OBVIOUS
<1>2. d \in Nat /\ b = a + d
    BY <1>1
<1>3. PICK x, y : x = pow10(a) /\ y = pow10(d)
    OBVIOUS
<1>4. x \in Nat /\ y \in Nat /\ y > 0
    BY <1>2, <1>3, Pow10Facts
<1>5. pow10(b) = x * y
    BY <1>2, <1>3, Pow10Adds
<1>6. x * y >= x
    BY <1>4
<1> QED BY <1>3, <1>4, <1>5, <1>6

-----------------------------------------------------------------------------
(* Digits                                                                  *)

\* A character: a string.  The provers do not know of a literal that it is
\* one, so those that the code writes are named.
Char == STRING \cup Digit \cup {".", "-"}

LEMMA DigitValues ==
    /\ \A c \in Digit : DigitValue[c] \in 0..9
    /\ \A c \in Digit : DigitValue[c] = 0 <=> c = "0"
    /\ "0" \in Digit
    /\ \A i \in 1..10 : Digits[i] \in Digit /\ DigitValue[Digits[i]] = i - 1
<1>1. DOMAIN Digits = 1..10
    BY DEF Digits
<1>2. \A c : c \in Digit <=> \E i \in 1..10 : Digits[i] = c
    BY <1>1 DEF Digit, ToSet
<1>3. \A i, j \in 1..10 : Digits[i] = Digits[j] => i = j
    BY DEF Digits
<1>4. Digits[1] = "0"
    BY DEF Digits
<1>5. ASSUME NEW c \in Digit, NEW i \in 1..10, Digits[i] = c PROVE DigitValue[c] = i - 1
  <2>1. PICK k : k = CHOOSE x \in 1..10 : Digits[x] = c
      OBVIOUS
  <2>2. k \in 1..10 /\ Digits[k] = c
      BY <1>5, <2>1
  <2>3. k = i
      BY <1>3, <1>5, <2>2
  <2> QED BY <2>1, <2>3 DEF DigitValue
<1>6. ASSUME NEW c \in Digit PROVE DigitValue[c] \in 0..9 /\ (DigitValue[c] = 0 <=> c = "0")
  <2>1. PICK i \in 1..10 : Digits[i] = c
      BY <1>2
  <2>2. DigitValue[c] = i - 1
      BY <1>5, <2>1
  <2>3. c = "0" <=> i = 1
      BY <1>3, <1>4, <2>1
  <2> QED BY <2>2, <2>3
<1>7. "0" \in Digit
    BY <1>2, <1>4
<1>8. \A i \in 1..10 : Digits[i] \in Digit /\ DigitValue[Digits[i]] = i - 1
    BY <1>2, <1>5
<1> QED BY <1>6, <1>7, <1>8

LEMMA NoDigits == \A c \in {".", "-", "+", " ", "e", "E"} : c \notin Digit
<1>1. DOMAIN Digits = 1..10
    BY DEF Digits
<1>2. \A i \in 1..10 : Digits[i] \in {"0", "1", "2", "3", "4", "5", "6", "7", "8", "9"}
    BY DEF Digits
<1>3. \A c \in {".", "-", "+", " ", "e", "E"} :
          c \notin {"0", "1", "2", "3", "4", "5", "6", "7", "8", "9"}
    OBVIOUS
<1> QED BY <1>1, <1>2, <1>3 DEF Digit, ToSet

\* f is the number that the digits of s say so far, whatever is between them.
Reads(f, s, n) ==
    /\ f[0] = 0
    /\ \A i \in 1..n : f[i] = IF s[i] \in Digit THEN 10 * f[i - 1] + DigitValue[s[i]] ELSE f[i - 1]

LEMMA ReadsExist ==
    ASSUME NEW n \in Nat, NEW s
    PROVE  \E f : f \in [0..n -> Int] /\ Reads(f, s, n)
<1>1. PICK next : next = [x \in (1..n) \X Int |->
                             IF s[x[1]] \in Digit THEN 10 * x[2] + DigitValue[s[x[1]]] ELSE x[2]]
    OBVIOUS
<1>2. StepTable(next, n)
  <2>1. \A x \in (1..n) \X Int : x[2] \in Int
      OBVIOUS
  <2>2. \A i : s[i] \in Digit => DigitValue[s[i]] \in Int
      BY DigitValues
  <2>3. \A x \in (1..n) \X Int :
            (IF s[x[1]] \in Digit THEN 10 * x[2] + DigitValue[s[x[1]]] ELSE x[2]) \in Int
      BY <2>1, <2>2
  <2> QED BY <1>1, <2>3 DEF StepTable
<1>3. ASSUME NEW i \in 1..n, NEW x \in Int
      PROVE  next[<<i, x>>] = IF s[i] \in Digit THEN 10 * x + DigitValue[s[i]] ELSE x
  <2>1. <<i, x>> \in (1..n) \X Int /\ <<i, x>>[1] = i /\ <<i, x>>[2] = x
      OBVIOUS
  <2> QED BY <1>1, <2>1
<1>4. PICK base \in Int : base = 0
    OBVIOUS
<1>5. PICK f : f \in [0..n -> Int] /\ Steps(f, n, base, next)
    BY <1>2, StepsExist
<1>6. \A i \in 1..n : i - 1 \in 0..n
    OBVIOUS
<1>7. \A i \in 1..n : f[i - 1] \in Int
    BY <1>5, <1>6
<1>8. \A i \in 1..n : f[i] = next[<<i, f[i - 1]>>]
    BY <1>5 DEF Steps
<1>9. f[0] = 0
    BY <1>4, <1>5 DEF Steps
<1>10. \A i \in 1..n : f[i] = IF s[i] \in Digit THEN 10 * f[i - 1] + DigitValue[s[i]] ELSE f[i - 1]
    BY <1>3, <1>7, <1>8
<1> QED BY <1>5, <1>9, <1>10 DEF Reads

LEMMA ReadsAgree ==
    ASSUME NEW s, NEW k \in Nat, NEW f, Reads(f, s, k), NEW g, Reads(g, s, k)
    PROVE  f[k] = g[k]
<1>1. PICK T : T = {i \in 0..k : f[i] = g[i]}
    OBVIOUS
<1>2. 0 \in T
    BY <1>1 DEF Reads
<1>3. ASSUME NEW i \in 0..(k - 1), i \in T PROVE i + 1 \in T
  <2>1. PICK j : j = i + 1
      OBVIOUS
  <2>2. j \in 0..k /\ j \in 1..k /\ j - 1 = i /\ f[i] = g[i]
      BY <1>1, <1>3, <2>1
  <2>3. f[j] = g[j]
      BY <2>2 DEF Reads
  <2> QED BY <1>1, <2>1, <2>2, <2>3
<1>4. k \in 0..k
    OBVIOUS
<1> QED BY <1>1, <1>2, <1>3, <1>4, UpTo

\* Number and Mantissa are the last number of any such reading.
LEMMA MantissaIs ==
    ASSUME NEW s \in Seq(Char), NEW f, Reads(f, s, Len(s))
    PROVE  Mantissa(s) = (IF Contains(s, "-") THEN -1 ELSE 1) * f[Len(s)]
<1> DEFINE A(p) == p = [i \in 0..Len(s) |->
                            IF i = 0 THEN 0
                            ELSE IF s[i] \in Digit THEN 10 * p[i - 1] + DigitValue[s[i]]
                            ELSE p[i - 1]]
<1>1. PICK n : n = Len(s)
    OBVIOUS
<1>2. n \in Nat
    BY <1>1
<1>3. \A p : A(p) => Reads(p, s, n)
    BY <1>1, <1>2 DEF Reads
<1>4. \E p : A(p)
  <2>1. PICK p : p \in [0..n -> Int] /\ Reads(p, s, n)
      BY <1>2, ReadsExist
  <2>2. \A i \in 0..n : p[i] = IF i = 0 THEN 0
                               ELSE IF s[i] \in Digit THEN 10 * p[i - 1] + DigitValue[s[i]]
                               ELSE p[i - 1]
      BY <2>1 DEF Reads
  <2> QED BY <1>1, <2>1, <2>2
<1>5. PICK p : p = CHOOSE x : A(x)
    OBVIOUS
<1>6. Mantissa(s) = (IF Contains(s, "-") THEN -1 ELSE 1) * p[n]
    BY <1>1, <1>5 DEF Mantissa
<1> HIDE DEF A
<1>7. Reads(p, s, n)
    BY <1>3, <1>4, <1>5
<1>8. f[n] = p[n]
    BY <1>1, <1>2, <1>7, ReadsAgree
<1> QED BY <1>1, <1>6, <1>8

LEMMA NumberIs ==
    ASSUME NEW s \in Seq(Char), allDigits(s), NEW f, Reads(f, s, Len(s))
    PROVE  Number(s) = f[Len(s)]
<1> DEFINE A(p) == p = [i \in 0..Len(s) |->
                            IF i = 0 THEN 0 ELSE 10 * p[i - 1] + DigitValue[s[i]]]
<1>1. PICK n : n = Len(s)
    OBVIOUS
<1>2. n \in Nat /\ \A i \in 1..n : s[i] \in Digit
    BY <1>1 DEF allDigits, ToSet
<1>3. \A p : A(p) => Reads(p, s, n)
    BY <1>1, <1>2 DEF Reads
<1>4. \E p : A(p)
  <2>1. PICK p : p \in [0..n -> Int] /\ Reads(p, s, n)
      BY <1>2, ReadsExist
  <2>2. \A i \in 0..n : p[i] = IF i = 0 THEN 0 ELSE 10 * p[i - 1] + DigitValue[s[i]]
      BY <1>2, <2>1 DEF Reads
  <2> QED BY <1>1, <2>1, <2>2
<1>5. PICK p : p = CHOOSE x : A(x)
    OBVIOUS
<1>6. Number(s) = p[n]
    BY <1>1, <1>5 DEF Number
<1> HIDE DEF A
<1>7. Reads(p, s, n)
    BY <1>3, <1>4, <1>5
<1>8. f[n] = p[n]
    BY <1>1, <1>2, <1>7, ReadsAgree
<1> QED BY <1>1, <1>6, <1>8

\* A number of digits is nought if all of them are, and positive otherwise.
LEMMA NumberSign ==
    ASSUME NEW s \in Seq(Char), allDigits(s)
    PROVE  /\ Number(s) \in Nat
           /\ Number(s) = 0 <=> \A i \in 1..Len(s) : s[i] = "0"
<1>1. PICK n : n = Len(s)
    OBVIOUS
<1>2. n \in Nat /\ \A i \in 1..n : s[i] \in Digit
    BY <1>1 DEF allDigits, ToSet
<1>3. PICK f : f \in [0..n -> Int] /\ Reads(f, s, n)
    BY <1>2, ReadsExist
<1>4. Number(s) = f[n]
    BY <1>1, <1>3, NumberIs
<1>5. PICK T : T = {i \in 0..n : f[i] \in Nat /\ (f[i] = 0 <=> \A j \in 1..i : s[j] = "0")}
    OBVIOUS
<1>6. 0 \in T
    BY <1>2, <1>3, <1>5 DEF Reads
<1>7. ASSUME NEW i \in 0..(n - 1), i \in T PROVE i + 1 \in T
  <2>1. PICK k : k = i + 1
      OBVIOUS
  <2>2. k \in 0..n /\ k \in 1..n /\ k - 1 = i /\ \A j : j \in 1..k <=> j \in 1..i \/ j = k
      BY <1>2, <2>1
  <2>3. f[k] = 10 * f[i] + DigitValue[s[k]]
      BY <1>2, <1>3, <2>2 DEF Reads
  <2>4. DigitValue[s[k]] \in 0..9 /\ (DigitValue[s[k]] = 0 <=> s[k] = "0")
      BY <1>2, <2>2, DigitValues
  <2>5. f[i] \in Nat /\ (f[i] = 0 <=> \A j \in 1..i : s[j] = "0")
      BY <1>5, <1>7
  <2>6. f[k] \in Nat /\ (f[k] = 0 <=> f[i] = 0 /\ DigitValue[s[k]] = 0)
    <3>1. PICK a, b, v : a = f[i] /\ b = f[k] /\ v = DigitValue[s[k]]
        OBVIOUS
    <3>2. a \in Nat /\ v \in 0..9 /\ b = 10 * a + v
        BY <2>3, <2>4, <2>5, <3>1
    <3>3. b \in Nat /\ (b = 0 <=> a = 0 /\ v = 0)
        BY <3>2
    <3> QED BY <3>1, <3>3
  <2>7. f[k] = 0 <=> \A j \in 1..k : s[j] = "0"
      BY <2>2, <2>4, <2>5, <2>6
  <2> QED BY <1>5, <2>1, <2>2, <2>6, <2>7
<1>8. n \in T
  <2>1. n \in 0..n
      BY <1>2
  <2> QED BY <1>2, <1>6, <1>7, <2>1, UpTo
<1> QED BY <1>1, <1>4, <1>5, <1>8

\* d holds the digits of s, and x counts them along s.
Counts(x, s, d) ==
    /\ x \in [0..Len(s) -> 0..Len(d)] /\ x[0] = 0 /\ x[Len(s)] = Len(d)
    /\ \A i \in 1..Len(s) : IF s[i] \in Digit THEN x[i] = x[i - 1] + 1 /\ s[i] = d[x[i]]
                            ELSE x[i] = x[i - 1]

\* What a text says is the number of its digits.
LEMMA MantissaOfDigits ==
    ASSUME NEW s \in Seq(Char), NEW d \in Seq(Char), allDigits(d), NEW x, Counts(x, s, d)
    PROVE  Mantissa(s) = (IF Contains(s, "-") THEN -1 ELSE 1) * Number(d)
<1>1. PICK n, m : n = Len(s) /\ m = Len(d)
    OBVIOUS
<1>2. n \in Nat /\ m \in Nat /\ \A i \in 1..m : d[i] \in Digit
    BY <1>1 DEF allDigits, ToSet
<1>3. PICK g : g \in [0..m -> Int] /\ Reads(g, d, m)
    BY <1>2, ReadsExist
<1>4. PICK f : f = [i \in 0..n |-> g[x[i]]]
    OBVIOUS
<1>5. x[0] = 0 /\ x[n] = m /\ \A i \in 0..n : x[i] \in 0..m
    BY <1>1 DEF Counts
<1>6. ASSUME NEW i \in 1..n
      PROVE  f[i] = IF s[i] \in Digit THEN 10 * f[i - 1] + DigitValue[s[i]] ELSE f[i - 1]
  <2>1. i \in 0..n /\ i - 1 \in 0..n
      BY <1>2
  <2>2. f[i] = g[x[i]] /\ f[i - 1] = g[x[i - 1]] /\ x[i] \in 0..m /\ x[i - 1] \in 0..m
      BY <1>4, <1>5, <2>1
  <2>3. CASE s[i] \in Digit
    <3>1. x[i] = x[i - 1] + 1 /\ s[i] = d[x[i]]
        BY <1>1, <2>3 DEF Counts
    <3>2. x[i] \in 1..m /\ x[i] - 1 = x[i - 1]
        BY <1>2, <2>2, <3>1
    <3>3. g[x[i]] = 10 * g[x[i] - 1] + DigitValue[d[x[i]]]
        BY <1>2, <1>3, <3>2 DEF Reads
    <3> QED BY <2>2, <2>3, <3>1, <3>2, <3>3
  <2>4. CASE s[i] \notin Digit
    <3>1. x[i] = x[i - 1]
        BY <1>1, <2>4 DEF Counts
    <3> QED BY <2>2, <2>4, <3>1
  <2> QED BY <2>3, <2>4
<1>7. f[0] = 0 /\ f[n] = g[m]
  <2>1. 0 \in 0..n /\ n \in 0..n /\ g[0] = 0
      BY <1>2, <1>3 DEF Reads
  <2> QED BY <1>4, <1>5, <2>1
<1>8. Reads(f, s, n)
    BY <1>6, <1>7 DEF Reads
<1>9. Number(d) = g[m]
    BY <1>1, <1>3, NumberIs
<1>10. Mantissa(s) = (IF Contains(s, "-") THEN -1 ELSE 1) * f[n]
    BY <1>1, <1>8, MantissaIs
<1> QED BY <1>7, <1>9, <1>10

-----------------------------------------------------------------------------
(* The parts of a text                                                     *)

\* s ends in, and starts with, characters of cut; t is what is between.
Trimmed(s, t, o, cut) ==
    /\ t \in Seq(Char) /\ o \in Nat /\ o + Len(t) <= Len(s)
    /\ \A j \in 1..Len(t) : t[j] = s[o + j]
    /\ \A i \in 1..Len(s) : i <= o \/ i > o + Len(t) => s[i] \in cut
    /\ t # << >> => t[1] \notin cut

LEMMA TrimIs ==
    ASSUME NEW s \in Seq(Char), NEW cut
    PROVE  \E o : Trimmed(s, Trim(s, cut), o, cut)
<1>1. PICK n, kept, t : n = Len(s) /\ kept = {i \in DOMAIN s : s[i] \notin cut} /\ t = Trim(s, cut)
    OBVIOUS
<1>2. n \in Nat /\ DOMAIN s = 1..n /\ kept \in SUBSET (1..n) /\ kept \in SUBSET (0..n) /\ kept \in SUBSET Nat
    BY <1>1
<1>3. CASE kept = {}
  <2>1. t = << >>
      BY <1>1, <1>3 DEF Trim
  <2>2. \A i \in 1..n : s[i] \in cut
      BY <1>1, <1>2, <1>3
  <2>3. PICK o : o = 0
      OBVIOUS
  <2>4. t \in Seq(Char) /\ Len(t) = 0 /\ o \in Nat /\ o + Len(t) <= n
      BY <1>2, <2>1, <2>3
  <2>5. Trimmed(s, t, o, cut)
      BY <1>1, <2>1, <2>2, <2>4 DEF Trimmed
  <2> QED BY <1>1, <2>5
<1>4. CASE kept # {}
  <2>1. PICK lo : lo = CHOOSE i \in kept : \A j \in kept : i <= j
      OBVIOUS
  <2>2. PICK hi : hi = CHOOSE i \in kept : \A j \in kept : i >= j
      OBVIOUS
  <2>3. lo \in kept /\ \A j \in kept : lo <= j
      BY <1>2, <1>4, <2>1, LeastNatural
  <2>4. hi \in kept /\ \A j \in kept : hi >= j
    <3>1. PICK x \in kept : \A y \in kept : y <= x
        BY <1>2, <1>4, GreatestNatural
    <3>2. \A y \in kept : x >= y
        BY <1>2, <3>1
    <3> QED BY <2>2, <3>2
  <2>5. t = SubSeq(s, lo, hi)
      BY <1>1, <1>4, <2>1, <2>2 DEF Trim
  <2>6. lo \in 1..n /\ hi \in 1..n /\ lo <= hi
      BY <1>2, <2>3, <2>4
  <2>7. PICK o, m : o = lo - 1 /\ m = hi - lo + 1
      OBVIOUS
  <2>8. o \in Nat /\ m \in Nat /\ o + m = hi /\ m > 0
      BY <2>6, <2>7
  <2>9. t \in Seq(Char) /\ Len(t) = m /\ \A j \in 1..m : t[j] = s[lo + j - 1]
    <3>1. \A i \in lo..hi : s[i] \in Char
        BY <1>1, <1>2, <2>6
    <3> QED BY <2>5, <2>6, <2>7, <3>1, SubSeqProperties
  <2>10. \A j \in 1..m : t[j] = s[o + j]
    <3>1. \A j \in 1..m : lo + j - 1 = o + j
        BY <2>6, <2>7
    <3> QED BY <2>9, <3>1
  <2>11. ASSUME NEW i \in 1..n, i <= o \/ i > o + m PROVE s[i] \in cut
    <3>1. i \notin kept
        BY <2>3, <2>4, <2>6, <2>7, <2>8, <2>11
    <3> QED BY <1>1, <1>2, <3>1
  <2>12. t[1] \notin cut
    <3>1. 1 \in 1..m /\ o + 1 = lo
        BY <2>6, <2>7, <2>8
    <3>2. t[1] = s[lo]
        BY <2>10, <3>1
    <3> QED BY <1>1, <2>3, <3>2
  <2>13. Trimmed(s, t, o, cut)
      BY <1>1, <1>2, <2>6, <2>8, <2>9, <2>10, <2>11, <2>12 DEF Trimmed
  <2> QED BY <1>1, <2>13
<1> QED BY <1>3, <1>4

\* u is what is left of raw without the blanks and the sign, o places on.
Held(raw, u, o) ==
    /\ u \in Seq(Char) /\ o \in Nat /\ o + Len(u) <= Len(raw)
    /\ \A j \in 1..Len(u) : u[j] = raw[o + j]
    /\ \A i \in 1..Len(raw) : i <= o \/ i > o + Len(u) => raw[i] \in {" ", "+", "-"}

\* Apart from u there is a minus.
MinusOutside(raw, u, o) ==
    \E i \in 1..Len(raw) : (i <= o \/ i > o + Len(u)) /\ raw[i] = "-"

LEMMA UnsignedHeld ==
    ASSUME NEW raw \in Seq(Char), NEW value, value = TrimSpace(raw), NEW u, u = Unsigned(value)
    PROVE  \E o : /\ Held(raw, u, o)
                  /\ SignOf(value) = IF MinusOutside(raw, u, o) THEN -1 ELSE 1
<1>1. PICK o : Trimmed(raw, value, o, {" "})
    BY TrimIs DEF TrimSpace
<1>2. PICK n, m : n = Len(raw) /\ m = Len(value)
    OBVIOUS
<1>30. o \in Nat /\ value \in Seq(Char) /\ o + Len(value) <= Len(raw)
    BY <1>1 DEF Trimmed
<1>3. n \in Nat /\ m \in Nat /\ o \in Nat /\ o + m <= n /\ value \in Seq(Char)
    BY <1>2, <1>30
<1>4. /\ \A j \in 1..m : value[j] = raw[o + j]
      /\ \A i \in 1..n : i <= o \/ i > o + m => raw[i] = " "
    BY <1>1, <1>2 DEF Trimmed
<1>5. CASE Signed(value)
  <2>1. value # << >> /\ value[1] \in {"+", "-"} /\ u = Tail(value)
      BY <1>5 DEF Signed, Unsigned
  <2>2. m > 0
      BY <1>2, <1>3, <2>1
  <2>3. PICK k, q : k = m - 1 /\ q = o + 1
      OBVIOUS
  <2>4. k \in Nat /\ q \in Nat /\ q + k = o + m /\ q \in 1..n /\ 1 \in 1..m
      BY <1>3, <2>2, <2>3
  <2>5. u \in Seq(Char) /\ Len(u) = k /\ \A j \in 1..k : u[j] = value[j + 1]
      BY <1>2, <1>3, <2>1, <2>3
  <2>6. ASSUME NEW j \in 1..k PROVE u[j] = raw[q + j]
    <3>1. j + 1 \in 1..m /\ o + (j + 1) = q + j
        BY <1>3, <2>3, <2>4
    <3> QED BY <1>4, <2>5, <3>1
  <2>7. raw[q] = value[1]
      BY <1>4, <2>3, <2>4
  <2>8. \A i \in 1..n : i <= q \/ i > q + k <=> i <= o \/ i > o + m \/ i = q
      BY <1>3, <2>3, <2>4
  <2>9. ASSUME NEW i \in 1..n, i <= q \/ i > q + k PROVE raw[i] \in {" ", "+", "-"}
      BY <1>4, <2>1, <2>7, <2>8, <2>9
  <2>10. Held(raw, u, q)
      BY <1>2, <1>3, <2>4, <2>5, <2>6, <2>9 DEF Held
  <2>11. MinusOutside(raw, u, q) <=> value[1] = "-"
      BY <1>2, <1>4, <2>4, <2>5, <2>7, <2>8 DEF MinusOutside
  <2>12. SignOf(value) = IF MinusOutside(raw, u, q) THEN -1 ELSE 1
      BY <2>1, <2>11 DEF SignOf
  <2> QED BY <2>10, <2>12
<1>6. CASE ~Signed(value)
  <2>1. u = value /\ ~(value # << >> /\ value[1] = "-")
      BY <1>6 DEF Signed, Unsigned
  <2>2. Held(raw, u, o)
      BY <1>2, <1>3, <1>4, <2>1 DEF Held
  <2>3. ~MinusOutside(raw, u, o)
      BY <1>2, <1>4, <2>1 DEF MinusOutside
  <2> QED BY <2>1, <2>2, <2>3 DEF SignOf
<1> QED BY <1>5, <1>6

\* Before its only point, if any, u has the first q digits of d, after it the
\* rest.
Laid(u, d, q) ==
    /\ q \in Nat /\ q <= Len(d) /\ \A j \in 1..q : u[j] = d[j]
    /\ \/ Len(u) = q /\ Len(d) = q
       \/ /\ Len(u) = Len(d) + 1 /\ u[q + 1] = "."
          /\ \A j \in (q + 1)..Len(d) : u[j + 1] = d[j]

NoPoint(u) == \A i \in 1..Len(u) : u[i] # "."

OnePoint(u, p) == p \in 1..Len(u) /\ u[p] = "." /\ \A i \in 1..Len(u) : u[i] = "." => i = p

LEMMA PartsAre ==
    ASSUME NEW u \in Seq(Char)
    PROVE  \/ NoPoint(u) /\ Parts(u) = <<u>>
           \/ \E p : OnePoint(u, p) /\ Parts(u) = <<SubSeq(u, 1, p - 1), SubSeq(u, p + 1, Len(u))>>
           \/ Len(Parts(u)) > 2 /\ ~NoPoint(u) /\ \A p : ~OnePoint(u, p)
<1>1. PICK n, points : n = Len(u) /\ points = {i \in DOMAIN u : u[i] = "."}
    OBVIOUS
<1>2. n \in Nat /\ DOMAIN u = 1..n /\ points \in SUBSET (1..n)
    BY <1>1
<1>3. IsFiniteSet(points)
  <2>1. IsFiniteSet(1..n)
      BY <1>2, FS_Interval
  <2> QED BY <1>2, <2>1, FS_Subset
<1>4. Cardinality(points) \in Nat /\ (Cardinality(points) = 0 <=> points = {})
    BY <1>3, FS_CardinalityType, FS_EmptySet
<1>5. CASE points = {}
  <2>1. Parts(u) = <<u>>
    <3>1. Cardinality(points) # 1
        BY <1>4, <1>5
    <3> QED BY <1>1, <1>5, <3>1 DEF Parts
  <2>2. NoPoint(u)
      BY <1>1, <1>2, <1>5 DEF NoPoint
  <2> QED BY <2>1, <2>2
<1>6. CASE points # {} /\ Cardinality(points) = 1
  <2>1. PICK p : p = CHOOSE i \in points : TRUE
      OBVIOUS
  <2>2. p \in points
      BY <1>6, <2>1
  <2>3. Parts(u) = <<SubSeq(u, 1, p - 1), SubSeq(u, p + 1, Len(u))>>
      BY <1>1, <1>6, <2>1 DEF Parts
  <2>4. \A i \in points : i = p
    <3>1. PICK y : points = {y}
        BY <1>3, <1>6, FS_Singleton
    <3> QED BY <2>2, <3>1
  <2>5. OnePoint(u, p)
      BY <1>1, <1>2, <2>2, <2>4 DEF OnePoint
  <2> QED BY <2>3, <2>5
<1>7. CASE points # {} /\ Cardinality(points) # 1
  <2>1. PICK k : k = Cardinality(points) + 1
      OBVIOUS
  <2>2. k \in Nat /\ k > 2
      BY <1>4, <1>7, <2>1
  <2>3. Parts(u) = [i \in 1..k |-> <<>>]
      BY <1>1, <1>7, <2>1 DEF Parts
  <2>4. Len(Parts(u)) = k
    <3>1. PICK w : w = [i \in 1..k |-> <<>>]
        OBVIOUS
    <3>2. w \in [1..k -> {<<>>}] /\ DOMAIN w = 1..k
        BY <3>1
    <3>3. w \in Seq({<<>>})
        BY <2>2, <3>2, SeqDef
    <3>4. Len(w) = k
        BY <2>2, <3>2, <3>3
    <3> QED BY <2>3, <3>1, <3>4
  <2>5. ~NoPoint(u)
      BY <1>1, <1>2, <1>7 DEF NoPoint
  <2>6. ASSUME NEW p, OnePoint(u, p) PROVE FALSE
    <3>1. points = {p}
        BY <1>1, <1>2, <2>6 DEF OnePoint
    <3> QED BY <1>7, <3>1, FS_Singleton
  <2> QED BY <2>2, <2>4, <2>5, <2>6
<1> QED BY <1>5, <1>6, <1>7

-----------------------------------------------------------------------------
(* Conversions lose nothing                                                *)

\* How many digits of u come before the place i of raw.
LEMMA Counting ==
    ASSUME NEW raw \in Seq(Char), NEW u, NEW o, Held(raw, u, o),
           NEW d \in Seq(Char), allDigits(d), NEW q, Laid(u, d, q)
    PROVE  /\ \E x : Counts(x, raw, d)
           /\ Places(raw) = Len(d) - q
           /\ Contains(raw, "-") <=> MinusOutside(raw, u, o)
<1>1. PICK n, m, k : n = Len(raw) /\ m = Len(u) /\ k = Len(d)
    OBVIOUS
<1>2. n \in Nat /\ m \in Nat /\ k \in Nat /\ o \in Nat /\ o + m <= n /\ q \in Nat /\ q <= k
  <2>1. u \in Seq(Char) /\ o \in Nat /\ o + m <= n
      BY <1>1 DEF Held
  <2>2. q \in Nat /\ q <= k
      BY <1>1 DEF Laid
  <2> QED BY <1>1, <2>1, <2>2
<1>3. \A i \in 1..k : d[i] \in Digit
    BY <1>1 DEF allDigits, ToSet
<1>4. "." \notin Digit /\ "-" \notin Digit /\ "+" \notin Digit /\ " " \notin Digit
    BY NoDigits
<1>5. ASSUME NEW i \in 1..n, i <= o \/ i > o + m
      PROVE  raw[i] \notin Digit /\ raw[i] # "."
    BY <1>1, <1>4, <1>5 DEF Held
<1>6. \A j \in 1..m : raw[o + j] = u[j]
    BY <1>1 DEF Held
<1>7. /\ \A j \in 1..q : u[j] = d[j]
      /\ \/ m = q /\ k = q
         \/ m = k + 1 /\ u[q + 1] = "." /\ \A j \in (q + 1)..k : u[j + 1] = d[j]
    BY <1>1 DEF Laid
\* The places of the digits before and after the point.
<1>8. ASSUME NEW i \in 1..n, o < i, i <= o + q
      PROVE  raw[i] = d[i - o] /\ i - o \in 1..k
  <2>1. i - o \in 1..q /\ i - o \in 1..m /\ i - o \in 1..k /\ o + (i - o) = i
      BY <1>2, <1>7, <1>8
  <2> QED BY <1>6, <1>7, <2>1
<1>9. ASSUME NEW i \in 1..n, i > o + q, i <= o + m
      PROVE  /\ m = k + 1
             /\ i = o + q + 1 => raw[i] = "."
             /\ i # o + q + 1 => raw[i] = d[i - o - 1] /\ i - o - 1 \in (q + 1)..k
  <2>1. m = k + 1 /\ u[q + 1] = "." /\ \A j \in (q + 1)..k : u[j + 1] = d[j]
      BY <1>2, <1>7, <1>9
  <2>2. i - o \in 1..m /\ o + (i - o) = i
      BY <1>2, <1>9
  <2>3. raw[i] = u[i - o]
      BY <1>6, <2>2
  <2>4. CASE i = o + q + 1
    <3>1. i - o = q + 1
        BY <1>2, <2>4
    <3> QED BY <2>1, <2>3, <2>4, <3>1
  <2>5. CASE i # o + q + 1
    <3>1. PICK j : j = i - o - 1
        OBVIOUS
    <3>2. j \in (q + 1)..k /\ j + 1 = i - o
        BY <1>2, <1>9, <2>1, <2>5, <3>1
    <3>3. u[j + 1] = d[j]
        BY <2>1, <3>2
    <3> QED BY <2>1, <2>3, <2>5, <3>1, <3>2, <3>3
  <2> QED BY <2>4, <2>5
<1>90. ASSUME NEW i \in 1..n, i > o + q, i <= o + m, i # o + q + 1
       PROVE  raw[i] \in Digit
  <2>1. PICK j : j = i - o - 1
      OBVIOUS
  <2>2. raw[i] = d[j] /\ j \in (q + 1)..k
      BY <1>9, <1>90, <2>1
  <2>3. j \in 1..k
      BY <1>2, <2>2
  <2> QED BY <1>3, <2>2, <2>3
<1>10. \E x : Counts(x, raw, d)
  <2>1. PICK x : x = [i \in 0..n |-> IF i <= o THEN 0
                                     ELSE IF i <= o + q THEN i - o
                                     ELSE IF i <= o + m THEN i - o - 1
                                     ELSE k]
      OBVIOUS
  <2>2. \A i \in 0..n : x[i] \in 0..k
    <3> SUFFICES ASSUME NEW i \in 0..n PROVE x[i] \in 0..k
        OBVIOUS
    <3>1. m = k + 1 \/ (m = q /\ k = q)
        BY <1>7
    <3> QED BY <1>2, <2>1, <3>1
  <2>3. x[0] = 0 /\ x[n] = k
    <3>1. 0 \in 0..n /\ n \in 0..n
        BY <1>2
    <3>2. m = k + 1 \/ (m = q /\ k = q)
        BY <1>7
    <3> QED BY <1>2, <2>1, <3>1, <3>2
  <2>4. ASSUME NEW i \in 1..n
        PROVE  IF raw[i] \in Digit THEN x[i] = x[i - 1] + 1 /\ raw[i] = d[x[i]]
               ELSE x[i] = x[i - 1]
    <3>1. i \in 0..n /\ i - 1 \in 0..n
        BY <1>2
    <3>2. m = k + 1 \/ (m = q /\ k = q)
        BY <1>7
    <3>3. CASE i <= o
      <4>1. x[i] = 0 /\ x[i - 1] = 0
          BY <1>2, <2>1, <3>1, <3>3
      <4> QED BY <1>5, <3>3, <4>1
    <3>4. CASE o < i /\ i <= o + q
      <4>1. x[i] = i - o /\ x[i - 1] = i - o - 1
          BY <1>2, <2>1, <3>1, <3>4
      <4>2. raw[i] = d[i - o] /\ raw[i] \in Digit
          BY <1>3, <1>8, <3>4
      <4> QED BY <1>2, <4>1, <4>2
    <3>5. CASE i = o + q + 1 /\ i <= o + m
      <4>1. x[i] = q /\ x[i - 1] = q
          BY <1>2, <2>1, <3>1, <3>5
      <4>2. raw[i] = "."
          BY <1>2, <1>9, <3>5
      <4> QED BY <1>4, <4>1, <4>2
    <3>6. CASE i > o + q + 1 /\ i <= o + m
      <4>1. x[i] = i - o - 1 /\ x[i - 1] = i - o - 2
          BY <1>2, <2>1, <3>1, <3>6
      <4>2. raw[i] = d[i - o - 1] /\ i - o - 1 \in (q + 1)..k
          BY <1>2, <1>9, <3>6
      <4>3. raw[i] \in Digit
          BY <1>2, <1>3, <4>2
      <4> QED BY <1>2, <4>1, <4>2, <4>3
    <3>7. CASE i > o + m
      <4>1. x[i] = k
          BY <1>2, <1>7, <2>1, <3>1, <3>7
      <4>2. x[i - 1] = k
          BY <1>2, <2>1, <3>1, <3>2, <3>7
      <4> QED BY <1>5, <3>7, <4>1, <4>2
    <3> QED BY <1>2, <3>3, <3>4, <3>5, <3>6, <3>7
  <2>5. x \in [0..n -> 0..k]
      BY <2>1, <2>2
  <2> QED BY <1>1, <2>3, <2>4, <2>5 DEF Counts
<1>11. Places(raw) = k - q
  <2>1. PICK S : S = {i \in DOMAIN raw : raw[i] \in Digit /\ \E j \in 1..i - 1 : raw[j] = "."}
      OBVIOUS
  <2>2. DOMAIN raw = 1..n
      BY <1>1
  <2>3. CASE m = q /\ k = q
    <3>1. \A i \in 1..n : raw[i] # "."
      <4> SUFFICES ASSUME NEW i \in 1..n PROVE raw[i] # "."
          OBVIOUS
      <4>1. CASE o < i /\ i <= o + q
          BY <1>3, <1>4, <1>8, <4>1
      <4>2. CASE ~(o < i /\ i <= o + q)
          BY <1>2, <1>5, <2>3, <4>2
      <4> QED BY <4>1, <4>2
    <3>2. S = {}
      <4> SUFFICES ASSUME NEW i \in S PROVE FALSE
          OBVIOUS
      <4>1. PICK j \in 1..(i - 1) : raw[j] = "."
          BY <2>1
      <4>2. i \in 1..n /\ j \in 1..n
          BY <1>2, <2>1, <2>2
      <4> QED BY <3>1, <4>1, <4>2
    <3>3. Places(raw) = 0
        BY <2>1, <3>2, FS_EmptySet DEF Places
    <3> QED BY <1>2, <2>3, <3>3
  <2>4. CASE m = k + 1
    <3>1. PICK a, b : a = o + q + 2 /\ b = o + m
        OBVIOUS
    <3>2. a \in Int /\ b \in Int /\ a - 1 \in 1..n /\ b \in 1..n /\ a - 1 <= b
        BY <1>2, <2>4, <3>1
    <3>3. raw[a - 1] = "."
      <4>1. a - 1 = o + q + 1 /\ a - 1 > o + q /\ a - 1 <= o + m
          BY <1>2, <3>1, <3>2
      <4> QED BY <1>9, <3>2, <4>1
    <3>4. ASSUME NEW i \in a..b PROVE i \in S
      <4>1. i \in 1..n /\ i > o + q + 1 /\ i <= o + m /\ a - 1 \in 1..(i - 1)
          BY <1>2, <3>1, <3>2
      <4>2. i > o + q /\ i # o + q + 1
          BY <1>2, <4>1
      <4>3. raw[i] \in Digit
          BY <1>90, <4>1, <4>2
      <4> QED BY <2>1, <2>2, <3>3, <4>1, <4>3
    <3>5. ASSUME NEW i \in S PROVE i \in a..b
      <4>1. i \in 1..n /\ raw[i] \in Digit
          BY <2>1, <2>2
      <4>2. PICK j \in 1..(i - 1) : raw[j] = "."
          BY <2>1
      <4>3. j \in 1..n
          BY <1>2, <4>1
      <4>4. j = o + q + 1
        <5>1. o < j /\ j <= o + m
            BY <1>2, <1>5, <4>2, <4>3
        <5>2. ASSUME j <= o + q PROVE FALSE
          <6>1. raw[j] = d[j - o] /\ j - o \in 1..k
              BY <1>8, <4>3, <5>1, <5>2
          <6>2. raw[j] \in Digit
              BY <1>3, <6>1
          <6> QED BY <1>4, <4>2, <6>2
        <5>3. j > o + q
            BY <1>2, <4>3, <5>2
        <5> QED BY <1>4, <1>90, <4>2, <4>3, <5>1, <5>3
      <4>5. i <= o + m
          BY <1>2, <1>5, <4>1
      <4> QED BY <1>2, <3>1, <4>1, <4>4, <4>5
    <3>6. S = a..b
        BY <3>4, <3>5
    <3>7. Cardinality(a..b) = k - q
      <4>1. Cardinality(a..b) = IF a > b THEN 0 ELSE b - a + 1
          BY <3>2, FS_Interval
      <4> QED BY <1>2, <2>4, <3>1, <3>2, <4>1
    <3> QED BY <2>1, <3>6, <3>7 DEF Places
  <2> QED BY <1>7, <2>3, <2>4
<1>12. Contains(raw, "-") <=> MinusOutside(raw, u, o)
  <2>1. ASSUME NEW i \in 1..n, raw[i] = "-" PROVE i <= o \/ i > o + m
    <3>1. CASE o < i /\ i <= o + q
        BY <1>3, <1>4, <1>8, <2>1, <3>1
    <3>2. CASE i > o + q /\ i <= o + m
      <4>1. CASE i = o + q + 1
          BY <1>9, <2>1, <3>2, <4>1
      <4>2. CASE i # o + q + 1
          BY <1>4, <1>90, <2>1, <3>2, <4>2
      <4> QED BY <4>1, <4>2
    <3> QED BY <1>2, <3>1, <3>2
  <2> QED BY <1>1, <2>1 DEF Contains, MinusOutside
<1> QED BY <1>1, <1>10, <1>11, <1>12

\* The digits d of an accepted text, q of them before the point, and the value.
Parsed(raw, scale, v, value, o, d, q) ==
    /\ value = TrimSpace(raw) /\ value # << >>
    /\ Held(raw, Unsigned(value), o)
    /\ SignOf(value) = IF MinusOutside(raw, Unsigned(value), o) THEN -1 ELSE 1
    /\ d \in Seq(Char) /\ allDigits(d) /\ Laid(Unsigned(value), d, q)
    /\ scale \in 0..MaxScale /\ Len(d) - q <= scale
    /\ v \in Int64 /\ v = SignOf(value) * Number(d) * pow10(scale - (Len(d) - q))

\* Both parts of a text, one after the other.
LEMMA PartsLaid ==
    ASSUME NEW u \in Seq(Char), NEW parts, parts = Parts(u), Len(parts) <= 2,
           NEW fraction, fraction = IF Len(parts) = 2 THEN parts[2] ELSE << >>
    PROVE  /\ parts[1] \in Seq(Char) /\ fraction \in Seq(Char)
           /\ Laid(u, parts[1] \o fraction, Len(parts[1]))
<1>1. CASE NoPoint(u) /\ Parts(u) = <<u>>
  <2>1. Len(parts) = 1 /\ parts[1] = u /\ fraction = << >>
      BY <1>1
  <2>2. parts[1] \o fraction = u
      BY <2>1
  <2> QED BY <2>1, <2>2 DEF Laid
<1>2. CASE \E p : OnePoint(u, p) /\ Parts(u) = <<SubSeq(u, 1, p - 1), SubSeq(u, p + 1, Len(u))>>
  <2>1. PICK p : OnePoint(u, p) /\ Parts(u) = <<SubSeq(u, 1, p - 1), SubSeq(u, p + 1, Len(u))>>
      BY <1>2
  <2>2. PICK a, f, n : a = SubSeq(u, 1, p - 1) /\ f = SubSeq(u, p + 1, Len(u)) /\ n = Len(u)
      OBVIOUS
  <2>3. parts = <<a, f>> /\ Len(parts) = 2 /\ parts[1] = a /\ fraction = f
    <3>1. parts = <<a, f>>
        BY <2>1, <2>2
    <3>2. Len(<<a, f>>) = 2 /\ <<a, f>>[1] = a /\ <<a, f>>[2] = f
        OBVIOUS
    <3> QED BY <3>1, <3>2
  <2>4. n \in Nat /\ p \in 1..n /\ u[p] = "." /\ \A i \in 1..n : u[i] \in Char
      BY <2>1, <2>2 DEF OnePoint
  <2>5. a \in Seq(Char) /\ Len(a) = p - 1 /\ \A i \in 1..(p - 1) : a[i] = u[i]
    <3>1. 1 \in Int /\ p - 1 \in Int /\ \A i \in 1..(p - 1) : u[i] \in Char
        BY <2>4
    <3>2. a \in Seq(Char) /\ Len(a) = IF 1 <= p - 1 THEN (p - 1) - 1 + 1 ELSE 0
        BY <2>2, <3>1, SubSeqProperties
    <3>3. \A i \in 1..((p - 1) - 1 + 1) : a[i] = u[1 + i - 1]
        BY <2>2, <3>1, SubSeqProperties
    <3>4. \A i \in 1..(p - 1) : i \in 1..((p - 1) - 1 + 1) /\ 1 + i - 1 = i
        BY <2>4
    <3> QED BY <2>4, <3>2, <3>3, <3>4
  <2>6. f \in Seq(Char) /\ Len(f) = n - p /\ \A i \in 1..(n - p) : f[i] = u[p + i]
    <3>1. p + 1 \in Int /\ n \in Int /\ \A i \in (p + 1)..n : u[i] \in Char
        BY <2>4
    <3>2. f \in Seq(Char) /\ Len(f) = IF p + 1 <= n THEN n - (p + 1) + 1 ELSE 0
        BY <2>2, <3>1, SubSeqProperties
    <3>3. \A i \in 1..(n - (p + 1) + 1) : f[i] = u[(p + 1) + i - 1]
        BY <2>2, <3>1, SubSeqProperties
    <3>4. \A i \in 1..(n - p) : i \in 1..(n - (p + 1) + 1) /\ (p + 1) + i - 1 = p + i
        BY <2>4
    <3> QED BY <2>4, <3>2, <3>3, <3>4
  <2>7. PICK d : d = a \o f
      OBVIOUS
  <2>8. /\ Len(d) = n - 1
        /\ \A i \in 1..(n - 1) : d[i] = IF i <= p - 1 THEN a[i] ELSE f[i - (p - 1)]
    <3>0. a \in Seq(Char) /\ f \in Seq(Char)
        BY <2>5, <2>6
    <3>1. Len(d) = (p - 1) + (n - p)
      <4>1. Len(a \o f) = Len(a) + Len(f)
          BY <3>0, ConcatProperties
      <4>2. Len(d) = Len(a) + Len(f)
          BY <2>7, <4>1
      <4> QED BY <2>5, <2>6, <4>2
    <3>2. \A i \in 1..(Len(a) + Len(f)) : d[i] = IF i <= Len(a) THEN a[i] ELSE f[i - Len(a)]
        BY <2>7, <3>0, ConcatProperties
    <3>3. Len(a) + Len(f) = n - 1
        BY <2>4, <2>5, <2>6
    <3> QED BY <2>4, <2>5, <3>1, <3>2, <3>3
  <2>9. PICK q : q = p - 1
      OBVIOUS
  <2>10. q \in Nat /\ q <= Len(d) /\ n = Len(d) + 1 /\ u[q + 1] = "." /\ q = Len(a)
      BY <2>4, <2>5, <2>8, <2>9
  <2>11. \A j \in 1..q : u[j] = d[j]
    <3>1. \A j \in 1..q : j \in 1..(n - 1) /\ j \in 1..(p - 1) /\ j <= p - 1
        BY <2>4, <2>9
    <3> QED BY <2>5, <2>8, <3>1
  <2>12. ASSUME NEW j \in (q + 1)..Len(d) PROVE u[j + 1] = d[j]
    <3>1. PICK i : i = j - (p - 1)
        OBVIOUS
    <3>2. i \in 1..(n - p) /\ p + i = j + 1 /\ j \in 1..(n - 1) /\ ~(j <= p - 1)
        BY <2>4, <2>8, <2>9, <3>1
    <3>3. d[j] = f[i] /\ f[i] = u[p + i]
        BY <2>6, <2>8, <3>1, <3>2
    <3> QED BY <3>2, <3>3
  <2>13. Laid(u, d, q)
      BY <2>2, <2>10, <2>11, <2>12 DEF Laid
  <2> QED BY <2>3, <2>5, <2>6, <2>7, <2>10, <2>13
<1> QED BY <1>1, <1>2, PartsAre

LEMMA ParseReads ==
    ASSUME NEW raw \in Seq(Char), NEW scale, ParseScaled(raw, scale).ok
    PROVE  \E value, o, d, q : Parsed(raw, scale, ParseScaled(raw, scale).value, value, o, d, q)
<1>1. PICK value, u, parts : value = TrimSpace(raw) /\ u = Unsigned(value) /\ parts = Parts(u)
    OBVIOUS
<1>2. PICK fraction : fraction = IF Len(parts) = 2 THEN parts[2] ELSE << >>
    OBVIOUS
<1>3. PICK v : v = SignOf(value) * Number(parts[1] \o fraction) * pow10(scale - Len(fraction))
    OBVIOUS
<1>4. ParseScaled(raw, scale) =
          IF /\ scale \in 0..MaxScale
             /\ value # <<>> /\ {"e", "E"} \cap ToSet(value) = {}
             /\ Len(parts) <= 2
             /\ allDigits(fraction)
             /\ parts[1] # <<>> \/ fraction # <<>>
             /\ allDigits(parts[1])
             /\ Len(fraction) <= scale
             /\ v \in Int64
          THEN Returned(v)
          ELSE Failed
    BY <1>1, <1>2, <1>3 DEF ParseScaled
<1>5. /\ scale \in 0..MaxScale /\ value # <<>> /\ Len(parts) <= 2
      /\ allDigits(fraction) /\ allDigits(parts[1]) /\ Len(fraction) <= scale
      /\ v \in Int64 /\ ParseScaled(raw, scale) = Returned(v)
    BY <1>4 DEF Failed
<1>6. ParseScaled(raw, scale).value = v
    BY <1>5 DEF Returned
<1>7. PICK o : /\ Held(raw, u, o)
               /\ SignOf(value) = IF MinusOutside(raw, u, o) THEN -1 ELSE 1
    BY <1>1, UnsignedHeld
<1>8. u \in Seq(Char)
    BY <1>7 DEF Held
<1>9. PICK a, d, q : a = parts[1] /\ d = parts[1] \o fraction /\ q = Len(parts[1])
    OBVIOUS
<1>10. a \in Seq(Char) /\ fraction \in Seq(Char) /\ Laid(u, d, q)
    BY <1>1, <1>2, <1>5, <1>8, <1>9, PartsLaid
<1>11. d \in Seq(Char) /\ Len(d) = q + Len(fraction) /\ q \in Nat /\ Len(fraction) \in Nat
    BY <1>9, <1>10
<1>12. allDigits(d)
  <2>1. \A i \in 1..Len(d) : d[i] = IF i <= q THEN a[i] ELSE fraction[i - q]
      BY <1>9, <1>10, <1>11
  <2>2. \A i \in 1..q : a[i] \in Digit
      BY <1>5, <1>9, <1>10 DEF allDigits, ToSet
  <2>3. \A i \in 1..Len(fraction) : fraction[i] \in Digit
      BY <1>5, <1>10 DEF allDigits, ToSet
  <2>4. \A i \in 1..Len(d) : d[i] \in Digit
    <3> SUFFICES ASSUME NEW i \in 1..Len(d) PROVE d[i] \in Digit
        OBVIOUS
    <3>1. i <= q => i \in 1..q
        BY <1>11
    <3>2. ~(i <= q) => i - q \in 1..Len(fraction)
        BY <1>11
    <3> QED BY <2>1, <2>2, <2>3, <3>1, <3>2
  <2>5. DOMAIN d = 1..Len(d)
      BY <1>11
  <2> QED BY <2>4, <2>5 DEF allDigits, ToSet
<1>13. Len(d) - q = Len(fraction)
    BY <1>11
<1>14. Parsed(raw, scale, v, value, o, d, q)
    BY <1>1, <1>3, <1>5, <1>7, <1>9, <1>10, <1>11, <1>12, <1>13 DEF Parsed
<1> QED BY <1>6, <1>14

(***************************************************************************)
(* No digit is rounded or lost: what is accepted is what was written.  The *)
(* text says an integer over 10^Places, the result is that times 10^scale. *)
(***************************************************************************)
THEOREM ParseExact ==
    ASSUME NEW raw \in Seq(Char), NEW scale, ParseScaled(raw, scale).ok
    PROVE  /\ scale \in 0..MaxScale /\ Places(raw) \in 0..scale
           /\ ParseScaled(raw, scale).value \in Int64
           /\ Mantissa(raw) \in Int
           /\ ParseScaled(raw, scale).value = Mantissa(raw) * pow10(scale - Places(raw))
<1>1. PICK v : v = ParseScaled(raw, scale).value
    OBVIOUS
<1>2. PICK value, o, d, q : Parsed(raw, scale, v, value, o, d, q)
    BY <1>1, ParseReads
<1>3. PICK u : u = Unsigned(value)
    OBVIOUS
<1>4. /\ Held(raw, u, o) /\ SignOf(value) = IF MinusOutside(raw, u, o) THEN -1 ELSE 1
      /\ d \in Seq(Char) /\ allDigits(d) /\ Laid(u, d, q)
      /\ scale \in 0..MaxScale /\ Len(d) - q <= scale
      /\ v \in Int64 /\ v = SignOf(value) * Number(d) * pow10(scale - (Len(d) - q))
    BY <1>2, <1>3 DEF Parsed
<1>5. PICK x : Counts(x, raw, d)
    BY <1>4, Counting
<1>6. Places(raw) = Len(d) - q /\ (Contains(raw, "-") <=> MinusOutside(raw, u, o))
    BY <1>4, Counting
<1>7. Mantissa(raw) = SignOf(value) * Number(d)
    BY <1>4, <1>5, <1>6, MantissaOfDigits
<1>8. q \in Nat /\ q <= Len(d) /\ Len(d) \in Nat
    BY <1>4 DEF Laid
<1>9. Number(d) \in Nat /\ SignOf(value) \in Int
    BY <1>4, NumberSign
<1> QED BY <1>1, <1>4, <1>6, <1>7, <1>8, <1>9

(***************************************************************************)
(* The check made before the market is known agrees with the conversion    *)
(* made after: what is let through as positive never is zero or negative.  *)
(***************************************************************************)
THEOREM SignIsOfValue ==
    ASSUME NEW raw \in Seq(Char), NEW scale, ParseScaled(raw, scale).ok, DecimalSign(raw).ok
    PROVE  DecimalSign(raw).value = IF ParseScaled(raw, scale).value > 0 THEN 1
                                    ELSE IF ParseScaled(raw, scale).value < 0 THEN -1 ELSE 0
<1>1. PICK v : v = ParseScaled(raw, scale).value
    OBVIOUS
<1>2. PICK value, o, d, q : Parsed(raw, scale, v, value, o, d, q)
    BY <1>1, ParseReads
<1>3. PICK u, t : u = Unsigned(value) /\ t = Trim(u, {"0", "."})
    OBVIOUS
<1>4. /\ value = TrimSpace(raw) /\ Held(raw, u, o)
      /\ SignOf(value) = IF MinusOutside(raw, u, o) THEN -1 ELSE 1
      /\ d \in Seq(Char) /\ allDigits(d) /\ Laid(u, d, q)
      /\ scale \in 0..MaxScale /\ Len(d) - q <= scale
      /\ v \in Int64 /\ v = SignOf(value) * Number(d) * pow10(scale - (Len(d) - q))
    BY <1>2, <1>3 DEF Parsed
<1>5. DecimalSign(raw).value = IF t = << >> THEN 0 ELSE SignOf(value)
  <2>1. PICK s : s = DecimalSign(raw)
      OBVIOUS
  <2>2. s = CASE value = <<>> \/ {"e", "E"} \cap ToSet(value) # {} -> Failed
              [] u = <<>> \/ Len(Parts(u)) > 2 -> Failed
              [] Parts(u)[1] = <<>> /\ (Len(Parts(u)) = 1 \/ Parts(u)[2] = <<>>) -> Failed
              [] \E i \in DOMAIN Parts(u) : ~allDigits(Parts(u)[i]) -> Failed
              [] t = <<>> -> Returned(0)
              [] OTHER -> Returned(SignOf(value))
      BY <1>3, <1>4, <2>1 DEF DecimalSign
  <2> QED BY <2>1, <2>2 DEF Failed, Returned
<1>6. t = << >> <=> Number(d) = 0
  <2>1. u \in Seq(Char)
      BY <1>4 DEF Held
  <2>2. PICK oo : Trimmed(u, t, oo, {"0", "."})
      BY <1>3, <2>1, TrimIs
  <2>3. t = << >> <=> \A i \in 1..Len(u) : u[i] \in {"0", "."}
    <3>1. oo \in Nat /\ t \in Seq(Char) /\ oo + Len(t) <= Len(u) /\ Len(u) \in Nat
        BY <2>1, <2>2 DEF Trimmed
    <3>2. ASSUME t = << >>, NEW i \in 1..Len(u) PROVE u[i] \in {"0", "."}
      <4>1. i <= oo \/ i > oo + Len(t)
          BY <3>1, <3>2
      <4> QED BY <2>2, <4>1 DEF Trimmed
    <3>3. ASSUME t # << >> PROVE \E i \in 1..Len(u) : u[i] \notin {"0", "."}
      <4>1. Len(t) > 0 /\ 1 \in 1..Len(t) /\ oo + 1 \in 1..Len(u)
          BY <3>1, <3>3
      <4>2. t[1] \notin {"0", "."} /\ t[1] = u[oo + 1]
          BY <2>2, <3>3, <4>1 DEF Trimmed
      <4> QED BY <4>1, <4>2
    <3> QED BY <3>2, <3>3
  <2>4. PICK m, k : m = Len(u) /\ k = Len(d)
      OBVIOUS
  <2>5. /\ m \in Nat /\ k \in Nat /\ q \in Nat /\ q <= k /\ \A j \in 1..q : u[j] = d[j]
        /\ \/ m = q /\ k = q
           \/ m = k + 1 /\ u[q + 1] = "." /\ \A j \in (q + 1)..k : u[j + 1] = d[j]
    <3>1. Laid(u, d, q) /\ m \in Nat /\ k \in Nat
        BY <1>4, <2>1, <2>4
    <3>2. q \in Nat /\ q <= k /\ \A j \in 1..q : u[j] = d[j]
        BY <2>4, <3>1 DEF Laid
    <3>3. CASE Len(u) = q /\ Len(d) = q
        BY <2>4, <3>1, <3>2, <3>3
    <3>4. CASE /\ Len(u) = Len(d) + 1 /\ u[q + 1] = "."
               /\ \A j \in (q + 1)..Len(d) : u[j + 1] = d[j]
        BY <2>4, <3>1, <3>2, <3>4
    <3>5. \/ Len(u) = q /\ Len(d) = q
          \/ /\ Len(u) = Len(d) + 1 /\ u[q + 1] = "."
             /\ \A j \in (q + 1)..Len(d) : u[j + 1] = d[j]
        BY <3>1 DEF Laid
    <3> QED BY <3>3, <3>4, <3>5
  <2>6. \A j \in 1..k : d[j] \in Digit /\ d[j] # "."
    <3>1. \A j \in 1..k : d[j] \in Digit
        BY <1>4, <2>4 DEF allDigits, ToSet
    <3> QED BY <3>1, NoDigits
  <2>7. ASSUME \A i \in 1..m : u[i] \in {"0", "."}, NEW j \in 1..k PROVE d[j] = "0"
    <3>1. CASE j <= q
      <4>1. j \in 1..q /\ j \in 1..m
          BY <2>5, <3>1
      <4> QED BY <2>5, <2>6, <2>7, <4>1
    <3>2. CASE j > q
      <4>1. j \in (q + 1)..k /\ j + 1 \in 1..m
          BY <2>5, <3>2
      <4>2. u[j + 1] = d[j]
          BY <2>5, <3>2, <4>1
      <4> QED BY <2>6, <2>7, <4>1, <4>2
    <3> QED BY <2>5, <3>1, <3>2
  <2>8. ASSUME \A j \in 1..k : d[j] = "0", NEW i \in 1..m PROVE u[i] \in {"0", "."}
    <3>1. CASE i <= q
      <4>1. i \in 1..q /\ i \in 1..k
          BY <2>5, <3>1
      <4> QED BY <2>5, <2>8, <4>1
    <3>2. CASE i = q + 1
        BY <2>5, <3>2
    <3>3. CASE i > q + 1
      <4>1. i - 1 \in (q + 1)..k /\ i - 1 \in 1..k /\ (i - 1) + 1 = i
          BY <2>5, <3>3
      <4>2. u[i] = d[i - 1]
          BY <2>5, <3>3, <4>1
      <4> QED BY <2>8, <4>1, <4>2
    <3> QED BY <2>5, <3>1, <3>2, <3>3
  <2>9. Number(d) = 0 <=> \A j \in 1..k : d[j] = "0"
      BY <1>4, <2>4, NumberSign
  <2> QED BY <2>3, <2>4, <2>7, <2>8, <2>9
<1>7. PICK s, n, p : s = SignOf(value) /\ n = Number(d) /\ p = pow10(scale - (Len(d) - q))
    OBVIOUS
<1>8. s \in {-1, 1} /\ n \in Nat /\ p \in Nat /\ p > 0
  <2>1. q \in Nat /\ q <= Len(d) /\ Len(d) \in Nat
      BY <1>4 DEF Laid
  <2>2. scale - (Len(d) - q) \in Nat
      BY <1>4, <2>1, DecimalAssumption
  <2> QED BY <1>4, <1>7, <2>2, NumberSign, Pow10Facts
<1>9. v = s * n * p
    BY <1>4, <1>7
<1>10. (n = 0 => v = 0) /\ (n > 0 /\ s = 1 => v > 0) /\ (n > 0 /\ s = -1 => v < 0)
  <2>1. n > 0 => n * p > 0
      BY <1>8
  <2>2. s = 1 => v = n * p
      BY <1>8, <1>9
  <2>3. s = -1 => v = -(n * p)
      BY <1>8, <1>9
  <2>4. n = 0 => n * p = 0
      BY <1>8
  <2>5. n * p \in Int
      BY <1>8
  <2> QED BY <1>8, <2>1, <2>2, <2>3, <2>4, <2>5
<1>11. n = 0 \/ n > 0
    BY <1>8
<1>12. v \in Int
    BY <1>4 DEF Int64
<1>13. DecimalSign(raw).value = IF n = 0 THEN 0 ELSE s
    BY <1>5, <1>6, <1>7
<1>14. CASE n = 0
    BY <1>1, <1>10, <1>12, <1>13, <1>14
<1>15. CASE n > 0 /\ s = 1
    BY <1>1, <1>10, <1>12, <1>13, <1>15
<1>16. CASE n > 0 /\ s = -1
    BY <1>1, <1>10, <1>12, <1>13, <1>16
<1> QED BY <1>8, <1>11, <1>14, <1>15, <1>16

-----------------------------------------------------------------------------
(* Quotients                                                               *)

LEMMA Quotient ==
    ASSUME NEW x \in Nat, NEW b \in Nat, b > 0
    PROVE  x \div b \in Nat /\ (x \div b) * b <= x /\ x < (x \div b + 1) * b
OBVIOUS

\* There is one quotient.
LEMMA QuotientIs ==
    ASSUME NEW x \in Nat, NEW b \in Nat, b > 0, NEW y \in Nat, y * b <= x, x < (y + 1) * b
    PROVE  x \div b = y
<1>1. PICK z : z = x \div b
    OBVIOUS
<1>2. z \in Nat /\ z * b <= x /\ x < (z + 1) * b
    BY <1>1, Quotient
<1>3. ASSUME z < y PROVE FALSE
  <2>1. z + 1 <= y
      BY <1>2, <1>3
  <2>2. (z + 1) * b <= y * b
      BY <1>2, <2>1
  <2>3. y * b \in Int /\ (z + 1) * b \in Int
      BY <1>2
  <2> QED BY <1>2, <2>2, <2>3
<1>4. ASSUME y < z PROVE FALSE
  <2>1. y + 1 <= z
      BY <1>2, <1>4
  <2>2. (y + 1) * b <= z * b
      BY <1>2, <2>1
  <2>3. z * b \in Int /\ (y + 1) * b \in Int
      BY <1>2
  <2> QED BY <1>2, <2>2, <2>3
<1> QED BY <1>1, <1>2, <1>3, <1>4

\* A digit more: the quotient by a tenth of the divisor.
LEMMA QuotientByTenth ==
    ASSUME NEW x \in Nat, NEW b \in Nat, b > 0
    PROVE  /\ x \div b = 10 * (x \div (10 * b)) + ((x \div b) % 10)
           /\ (x \div b) % 10 \in 0..9
<1>1. PICK a : a = x \div b
    OBVIOUS
<1>2. a \in Nat /\ a * b <= x /\ x < (a + 1) * b
    BY <1>1, Quotient
<1>3. PICK c, r : c = a \div 10 /\ r = a % 10
    OBVIOUS
<1>4. c \in Nat /\ r \in 0..9 /\ a = 10 * c + r
    BY <1>2, <1>3
<1>5. PICK e : e = 10 * b
    OBVIOUS
<1>6. e \in Nat /\ e > 0
    BY <1>5
<1>7. c * e <= x
  <2>1. 10 * c <= a
      BY <1>2, <1>4
  <2>2. (10 * c) * b <= a * b
      BY <1>2, <1>4, <2>1
  <2>3. (10 * c) * b = c * e
      BY <1>4, <1>5
  <2>4. a * b \in Int /\ c * e \in Int
      BY <1>2, <1>4, <1>6
  <2> QED BY <1>2, <2>2, <2>3, <2>4
<1>8. x < (c + 1) * e
  <2>1. a + 1 <= 10 * (c + 1)
      BY <1>2, <1>4
  <2>2. (a + 1) * b <= (10 * (c + 1)) * b
      BY <1>2, <1>4, <2>1
  <2>3. (10 * (c + 1)) * b = (c + 1) * e
      BY <1>4, <1>5
  <2>4. (a + 1) * b \in Int /\ (c + 1) * e \in Int
      BY <1>2, <1>4, <1>6
  <2> QED BY <1>2, <2>2, <2>3, <2>4
<1>9. x \div e = c
    BY <1>4, <1>6, <1>7, <1>8, QuotientIs
<1> QED BY <1>1, <1>3, <1>4, <1>5, <1>9

-----------------------------------------------------------------------------
(* The digits of a number                                                  *)

\* d shows m, as many zeros in front as there is room for.
Expands(d, m) ==
    /\ d \in Seq(Char) /\ m \in Nat /\ m < pow10(Len(d))
    /\ \A i \in 1..Len(d) : d[i] = Digits[1 + ((m \div pow10(Len(d) - i)) % 10)]

\* What is read of such a d.
LEMMA ExpansionReads ==
    ASSUME NEW d, NEW m, Expands(d, m)
    PROVE  /\ allDigits(d)
           /\ \E f : /\ Reads(f, d, Len(d)) /\ f[Len(d)] = m
                     /\ \A i \in 0..Len(d) : f[i] = m \div pow10(Len(d) - i)
<1>1. PICK n : n = Len(d)
    OBVIOUS
<1>2. /\ d \in Seq(Char) /\ n \in Nat /\ m \in Nat /\ m < pow10(n)
      /\ \A i \in 1..n : d[i] = Digits[1 + ((m \div pow10(n - i)) % 10)]
  <2>1. d \in Seq(Char) /\ m \in Nat /\ m < pow10(n)
      BY <1>1 DEF Expands
  <2>2. n \in Nat
      BY <1>1, <2>1
  <2>3. \A i \in 1..n : d[i] = Digits[1 + ((m \div pow10(n - i)) % 10)]
      BY <1>1 DEF Expands
  <2> QED BY <2>1, <2>2, <2>3
<1>3. PICK f : f = [i \in 0..n |-> m \div pow10(n - i)]
    OBVIOUS
<1>4. \A i \in 0..n : f[i] = m \div pow10(n - i)
    BY <1>3
<1>5. f[0] = 0
  <2>1. pow10(n) \in Nat /\ pow10(n) > 0 /\ n - 0 = n /\ 0 \in 0..n
      BY <1>2, Pow10Facts
  <2>2. PICK p : p = pow10(n)
      OBVIOUS
  <2>3. 0 * p <= m /\ m < (0 + 1) * p
      BY <1>2, <2>1, <2>2
  <2>4. PICK z \in Nat : z = 0
      OBVIOUS
  <2>5. m \div p = z
      BY <1>2, <2>1, <2>2, <2>3, <2>4, QuotientIs
  <2> QED BY <1>4, <2>1, <2>2, <2>4, <2>5
<1>6. f[n] = m
  <2>1. n - n = 0 /\ n \in 0..n
      BY <1>2
  <2>2. m \div 1 = m
      BY <1>2
  <2>3. pow10(0) = 1
      BY <1>2, Pow10Facts
  <2>4. f[n] = m \div 1
      BY <1>4, <2>1, <2>3
  <2> QED BY <2>2, <2>4
<1>7. ASSUME NEW i \in 1..n
      PROVE  d[i] \in Digit /\ f[i] = 10 * f[i - 1] + DigitValue[d[i]]
  <2>1. PICK k : k = n - i
      OBVIOUS
  <2>2. k \in Nat /\ n - (i - 1) = k + 1 /\ i - 1 \in 0..n /\ i \in 0..n
      BY <1>2, <2>1
  <2>3. PICK b : b = pow10(k)
      OBVIOUS
  <2>4. b \in Nat /\ b > 0 /\ pow10(k + 1) = 10 * b
      BY <2>2, <2>3, Pow10Facts
  <2>5. PICK a, r, c : a = m \div b /\ r = (m \div b) % 10 /\ c = m \div (10 * b)
      OBVIOUS
  <2>6. a = 10 * c + r /\ r \in 0..9
      BY <1>2, <2>4, <2>5, QuotientByTenth
  <2>10. d[i] = Digits[1 + r]
      BY <1>2, <2>1, <2>3, <2>5
  <2>7. d[i] = Digits[1 + r] /\ 1 + r \in 1..10 /\ (1 + r) - 1 = r
      BY <2>6, <2>10
  <2>8. d[i] \in Digit /\ DigitValue[d[i]] = r
      BY <2>7, DigitValues
  <2>9. f[i] = a /\ f[i - 1] = c
      BY <1>4, <2>1, <2>2, <2>3, <2>4, <2>5
  <2> QED BY <2>6, <2>8, <2>9
<1>8. allDigits(d)
  <2>1. DOMAIN d = 1..n
      BY <1>1, <1>2
  <2> QED BY <1>7, <2>1 DEF allDigits, ToSet
<1>9. Reads(f, d, n)
    BY <1>5, <1>7 DEF Reads
<1> QED BY <1>1, <1>4, <1>6, <1>8, <1>9

LEMMA ExpansionNumber ==
    ASSUME NEW d, NEW m, Expands(d, m)
    PROVE  allDigits(d) /\ Number(d) = m
<1>1. PICK f : Reads(f, d, Len(d)) /\ f[Len(d)] = m
    BY ExpansionReads
<1>2. allDigits(d) /\ d \in Seq(Char)
    BY ExpansionReads DEF Expands
<1> QED BY <1>1, <1>2, NumberIs

\* There are enough digits for any int64, and more.
LEMMA PlacesEnough ==
    ASSUME NEW n \in Nat
    PROVE  9 * n + 1 <= pow10(n)
<1>1. PICK T : T = {i \in 0..n : 9 * i + 1 <= pow10(i)}
    OBVIOUS
<1>2. 0 \in T
  <2>1. pow10(0) = 1
      BY Pow10Facts
  <2> QED BY <1>1, <2>1
<1>3. ASSUME NEW i \in 0..(n - 1), i \in T PROVE i + 1 \in T
  <2>1. i \in Nat /\ i + 1 \in 0..n /\ 9 * i + 1 <= pow10(i)
      BY <1>1, <1>3
  <2>2. pow10(i) \in Nat /\ pow10(i + 1) = 10 * pow10(i)
      BY <2>1, Pow10Facts
  <2>3. 9 * (i + 1) + 1 <= pow10(i + 1)
      BY <2>1, <2>2
  <2> QED BY <1>1, <2>1, <2>3
<1>4. n \in 0..n
    OBVIOUS
<1> QED BY <1>1, <1>2, <1>3, <1>4, UpTo

\* FormatInt gives the digits of the absolute value, the first of which is 0
\* only in "0".
Formats(d, m) == Expands(d, m) /\ Len(d) > 0 /\ (Len(d) > 1 => m >= pow10(Len(d) - 1))

LEMMA FormatIntIs ==
    ASSUME NEW n \in Int, NEW m, m = (IF n < 0 THEN -n ELSE n), m <= MaxInt64 + 1
    PROVE  \E d : Formats(d, m) /\ FormatInt(n) = IF n < 0 THEN <<"-">> \o d ELSE d
<1>1. PICK M : M = MaxInt64
    OBVIOUS
<1>2. M \in Nat /\ M > 0 /\ m \in Nat /\ m <= M + 1
    BY <1>1, DecimalAssumption
<1> DEFINE A(k) == m < pow10(k) /\ (k = 1 \/ m >= pow10(k - 1))
<1>3. \E k \in 1..M : A(k)
  <2>1. PICK T : T = {k \in 1..M : m < pow10(k)}
      OBVIOUS
  <2>2. M \in T
    <3>1. 9 * M + 1 <= pow10(M) /\ pow10(M) \in Nat
        BY <1>2, PlacesEnough, Pow10Facts
    <3> QED BY <1>2, <2>1, <3>1
  <2>3. T \in SUBSET Nat /\ T # {}
      BY <2>1, <2>2
  <2>4. PICK k \in T : \A j \in T : k <= j
      BY <2>3, LeastNatural
  <2>5. k \in 1..M /\ m < pow10(k)
      BY <2>1
  <2>6. ASSUME k # 1 PROVE m >= pow10(k - 1)
    <3>1. k - 1 \in 1..M /\ k - 1 \in Nat /\ ~(k <= k - 1)
        BY <1>2, <2>5, <2>6
    <3>2. k - 1 \notin T
        BY <2>4, <3>1
    <3>3. ~(m < pow10(k - 1)) /\ pow10(k - 1) \in Nat
        BY <2>1, <3>1, <3>2, Pow10Facts
    <3> QED BY <1>2, <3>3
  <2> QED BY <2>5, <2>6
<1>4. PICK k : k = CHOOSE x \in 1..M : A(x)
    OBVIOUS
<1>5. k \in 1..M /\ A(k)
  <2> HIDE DEF A
  <2> QED BY <1>3, <1>4
<1>6. PICK d : d = [i \in 1..k |-> Digits[1 + ((m \div pow10(k - i)) % 10)]]
    OBVIOUS
<1>7. FormatInt(n) = IF n < 0 THEN <<"-">> \o d ELSE d
    BY <1>1, <1>4, <1>6 DEF FormatInt
<1> HIDE DEF A
<1>8. k \in Nat /\ k > 0 /\ m < pow10(k) /\ (k > 1 => m >= pow10(k - 1))
    BY <1>2, <1>5 DEF A
<1>9. \A i \in 1..k : d[i] = Digits[1 + ((m \div pow10(k - i)) % 10)] /\ d[i] \in Char
  <2> SUFFICES ASSUME NEW i \in 1..k PROVE d[i] = Digits[1 + ((m \div pow10(k - i)) % 10)] /\ d[i] \in Char
      OBVIOUS
  <2>1. k - i \in Nat
      BY <1>8
  <2>2. PICK b, r : b = pow10(k - i) /\ r = (m \div b) % 10
      OBVIOUS
  <2>3. b \in Nat /\ b > 0
      BY <2>1, <2>2, Pow10Facts
  <2>4. r \in 0..9
      BY <1>2, <2>2, <2>3, QuotientByTenth
  <2>5. d[i] = Digits[1 + r] /\ 1 + r \in 1..10
      BY <1>6, <2>2, <2>4
  <2>6. \A j \in 1..10 : Digits[j] \in Char
      BY DigitValues DEF Char
  <2> QED BY <2>2, <2>5, <2>6
<1>10. d \in Seq(Char) /\ Len(d) = k
  <2>1. d \in [1..k -> Char]
      BY <1>6, <1>9
  <2>2. d \in Seq(Char)
      BY <1>8, <2>1, SeqDef
  <2> QED BY <1>8, <2>1, <2>2
<1>11. Formats(d, m)
    BY <1>2, <1>8, <1>9, <1>10 DEF Formats, Expands
<1> QED BY <1>7, <1>11

\* Zeros in front of the digits are room that is not needed.
LEMMA Padding ==
    ASSUME NEW d, NEW m, Expands(d, m), NEW z \in Nat, NEW p, p = Zeros(z) \o d
    PROVE  Expands(p, m) /\ Len(p) = z + Len(d)
<1>1. PICK n, k : n = Len(d) /\ k = z + n
    OBVIOUS
<1>2. d \in Seq(Char) /\ m \in Nat /\ m < pow10(n) /\ n \in Nat /\ k \in Nat
  <2>1. d \in Seq(Char) /\ m \in Nat /\ m < pow10(n)
      BY <1>1 DEF Expands
  <2> QED BY <1>1, <2>1
<1>3. \A i \in 1..n : d[i] = Digits[1 + ((m \div pow10(n - i)) % 10)]
    BY <1>1 DEF Expands
<1>4. PICK e : e = Zeros(z)
    OBVIOUS
<1>5. e \in Seq(Char) /\ Len(e) = z /\ \A i \in 1..z : e[i] = "0"
  <2>1. e = [i \in 1..z |-> "0"]
      BY <1>4 DEF Zeros
  <2>4. "0" \in Char
      BY DigitValues DEF Char
  <2>2. e \in [1..z -> Char] /\ \A i \in 1..z : e[i] = "0"
      BY <2>1, <2>4
  <2>3. e \in Seq(Char)
      BY <2>2, SeqDef
  <2> QED BY <2>2, <2>3
<1>6. p \in Seq(Char) /\ Len(p) = k
  <2>1. p = e \o d
      BY <1>4
  <2>2. p \in Seq(Char) /\ Len(p) = Len(e) + Len(d)
      BY <1>2, <1>5, <2>1, ConcatProperties
  <2> QED BY <1>1, <1>5, <2>2
<1>7. \A i \in 1..k : p[i] = IF i <= z THEN e[i] ELSE d[i - z]
  <2>1. p = e \o d
      BY <1>4
  <2>2. \A i \in 1..(Len(e) + Len(d)) : p[i] = IF i <= Len(e) THEN e[i] ELSE d[i - Len(e)]
      BY <1>2, <1>5, <2>1, ConcatProperties
  <2> QED BY <1>1, <1>5, <2>2
<1>8. m < pow10(k)
  <2>1. pow10(n) <= pow10(k)
      BY <1>1, <1>2, Pow10Grows
  <2>2. pow10(n) \in Nat /\ pow10(k) \in Nat
      BY <1>2, Pow10Facts
  <2> QED BY <1>2, <2>1, <2>2
<1>9. ASSUME NEW i \in 1..k PROVE p[i] = Digits[1 + ((m \div pow10(k - i)) % 10)]
  <2>1. CASE i <= z
    <3>1. p[i] = "0"
      <4>1. i \in 1..z
          BY <1>2, <2>1
      <4> QED BY <1>5, <1>7, <2>1, <4>1
    <3>2. PICK b : b = pow10(k - i)
        OBVIOUS
    <3>3. k - i \in Nat /\ n <= k - i
        BY <1>1, <1>2, <2>1
    <3>4. b \in Nat /\ b > 0 /\ pow10(n) <= b /\ pow10(n) \in Nat
        BY <1>2, <3>2, <3>3, Pow10Facts, Pow10Grows
    <3>5. 0 * b <= m /\ m < (0 + 1) * b
        BY <1>2, <3>4
    <3>6. PICK y \in Nat : y = 0
        OBVIOUS
    <3>7. m \div b = y
        BY <1>2, <3>4, <3>5, <3>6, QuotientIs
    <3>8. 1 + ((m \div b) % 10) = 1 /\ Digits[1] = "0"
        BY <3>6, <3>7 DEF Digits
    <3> QED BY <3>1, <3>2, <3>8
  <2>2. CASE ~(i <= z)
    <3>1. PICK j : j = i - z
        OBVIOUS
    <3>2. j \in 1..n /\ n - j = k - i
        BY <1>1, <1>2, <2>2, <3>1
    <3>3. p[i] = d[j]
        BY <1>7, <2>2, <3>1
    <3>4. d[j] = Digits[1 + ((m \div pow10(n - j)) % 10)]
        BY <1>3, <3>2
    <3> QED BY <3>2, <3>3, <3>4
  <2> QED BY <2>1, <2>2
<1>10. Expands(p, m)
    BY <1>2, <1>6, <1>8, <1>9 DEF Expands
<1> QED BY <1>1, <1>6, <1>10

\* Zeros at the end multiply.
LEMMA TrailingZeros ==
    ASSUME NEW s, NEW n \in Nat, NEW f, Reads(f, s, n), NEW k \in 0..n, f[k] \in Int,
           \A i \in (k + 1)..n : s[i] = "0"
    PROVE  f[n] = f[k] * pow10(n - k)
<1>1. PICK h, x : h = n - k /\ x = f[k]
    OBVIOUS
<1>2. h \in Nat /\ k + h = n /\ x \in Int /\ k \in Nat
    BY <1>1
<1>3. PICK T : T = {i \in 0..h : f[k + i] = x * pow10(i)}
    OBVIOUS
<1>4. 0 \in T
  <2>1. pow10(0) = 1 /\ k + 0 = k
      BY <1>2, Pow10Facts
  <2>2. x * 1 = x
      BY <1>2
  <2> QED BY <1>1, <1>2, <1>3, <2>1, <2>2
<1>5. ASSUME NEW i \in 0..(h - 1), i \in T PROVE i + 1 \in T
  <2>1. i \in Nat /\ i + 1 \in 0..h /\ f[k + i] = x * pow10(i)
      BY <1>2, <1>3, <1>5
  <2>2. PICK b : b = pow10(i)
      OBVIOUS
  <2>3. b \in Nat /\ pow10(i + 1) = 10 * b
      BY <2>1, <2>2, Pow10Facts
  <2>4. PICK j : j = k + (i + 1)
      OBVIOUS
  <2>5. j \in (k + 1)..n /\ j \in 1..n /\ j - 1 = k + i
      BY <1>2, <2>1, <2>4
  <2>6. s[j] = "0" /\ "0" \in Digit /\ DigitValue["0"] = 0
      BY <2>5, DigitValues
  <2>7. f[j] = 10 * f[j - 1] + DigitValue[s[j]]
      BY <2>5, <2>6 DEF Reads
  <2>8. f[j] = 10 * (x * b)
    <3>1. x * b \in Int
        BY <1>2, <2>3
    <3> QED BY <2>1, <2>2, <2>5, <2>6, <2>7, <3>1
  <2>9. 10 * (x * b) = x * (10 * b)
      BY <1>2, <2>3
  <2>10. f[k + (i + 1)] = x * pow10(i + 1)
      BY <2>3, <2>4, <2>8, <2>9
  <2> QED BY <1>3, <2>1, <2>10
<1>6. h \in 0..h
    BY <1>2
<1>7. h \in T
    BY <1>2, <1>4, <1>5, <1>6, UpTo
<1> QED BY <1>1, <1>2, <1>3, <1>7

\* u shows m under a scale: digits d, q of them before the point.
Plain(u, d, q, m, scale) ==
    /\ u \in Seq(Char) /\ d \in Seq(Char) /\ allDigits(d) /\ Laid(u, d, q)
    /\ q > 0 /\ Len(d) - q <= scale
    /\ m = Number(d) * pow10(scale - (Len(d) - q))

\* After the first h digits of p there are zeros.
ZerosAfter(p, h) == \A i \in (h + 1)..Len(p) : p[i] = "0"

\* The first digits of p do when the others are zeros.
LEMMA CutsZeros ==
    ASSUME NEW p, NEW m, Expands(p, m), NEW h \in 0..Len(p),
           ZerosAfter(p, h), NEW d, d = SubSeq(p, 1, h)
    PROVE  /\ d \in Seq(Char) /\ Len(d) = h /\ \A i \in 1..h : d[i] = p[i]
           /\ allDigits(d) /\ m = Number(d) * pow10(Len(p) - h)
<1>1. PICK n : n = Len(p)
    OBVIOUS
<1>2. p \in Seq(Char) /\ n \in Nat /\ h \in Nat /\ h <= n /\ m \in Nat
    BY <1>1 DEF Expands
<1>3. PICK f : /\ Reads(f, p, n) /\ f[n] = m
               /\ \A i \in 0..n : f[i] = m \div pow10(n - i)
    BY <1>1, ExpansionReads
<1>4. allDigits(p)
    BY ExpansionReads
<1>5. d \in Seq(Char) /\ Len(d) = h /\ \A i \in 1..h : d[i] = p[i]
  <2>1. \A i \in 1..h : p[i] \in Char
      BY <1>1, <1>2
  <2>2. d \in Seq(Char) /\ Len(d) = IF 1 <= h THEN h - 1 + 1 ELSE 0
      BY <1>2, <2>1, SubSeqProperties
  <2>3. \A i \in 1..(h - 1 + 1) : d[i] = p[1 + i - 1]
      BY <1>2, <2>1, SubSeqProperties
  <2>4. \A i \in 1..h : i \in 1..(h - 1 + 1) /\ 1 + i - 1 = i
      BY <1>2
  <2> QED BY <1>2, <2>2, <2>3, <2>4
<1>6. allDigits(d)
  <2>1. \A i \in 1..n : p[i] \in Digit
      BY <1>1, <1>2, <1>4 DEF allDigits, ToSet
  <2>2. \A i \in 1..h : i \in 1..n
      BY <1>2
  <2>3. \A i \in 1..h : d[i] \in Digit
      BY <1>5, <2>1, <2>2
  <2>4. DOMAIN d = 1..h
      BY <1>5
  <2> QED BY <2>3, <2>4 DEF allDigits, ToSet
<1>7. Reads(f, d, h)
  <2>1. \A i \in 1..h : i \in 1..n /\ d[i] = p[i]
      BY <1>2, <1>5
  <2> QED BY <1>3, <2>1 DEF Reads
<1>8. Number(d) = f[h]
    BY <1>5, <1>6, <1>7, NumberIs
<1>9. f[h] \in Int
  <2>1. n - h \in Nat /\ h \in 0..n
      BY <1>2
  <2>2. PICK b : b = pow10(n - h)
      OBVIOUS
  <2>3. b \in Nat /\ b > 0
      BY <2>1, <2>2, Pow10Facts
  <2> QED BY <1>2, <1>3, <2>1, <2>2, <2>3, Quotient
<1>10. h \in 0..n /\ \A i \in (h + 1)..n : p[i] = "0"
    BY <1>1 DEF ZerosAfter
<1>11. f[n] = f[h] * pow10(n - h)
    BY <1>2, <1>3, <1>9, <1>10, TrailingZeros
<1> QED BY <1>1, <1>3, <1>5, <1>6, <1>8, <1>11

\* What FormatScaled makes of the digits of an absolute value.
PaddedTo(digits, scale) ==
    IF Len(digits) <= scale THEN Zeros(scale + 1 - Len(digits)) \o digits ELSE digits

NonzeroAfter(p, q) == {i \in q + 1..Len(p) : p[i] # "0"}

LastOf(places) == CHOOSE i \in places : \A j \in places : i >= j

TextWithPoint(p, q, places) ==
    IF places = {} THEN SubSeq(p, 1, q)
    ELSE SubSeq(p, 1, q) \o <<".">> \o SubSeq(p, q + 1, LastOf(places))

TextOfPadded(p, q) == TextWithPoint(p, q, NonzeroAfter(p, q))

TextOf(digits, scale) ==
    TextOfPadded(PaddedTo(digits, scale), Len(PaddedTo(digits, scale)) - scale)

\* p is digits with as many zeros in front as a scale asks for.
Padded(p, digits, scale) ==
    /\ p \in Seq(Char) /\ Len(p) > scale
    /\ \E z \in Nat : p = Zeros(z) \o digits \/ p = digits

\* t is the first q characters of p, and those up to h after a point.
Joined(t, p, q, h) ==
    /\ q \in 1..Len(p) /\ h \in q..Len(p)
    /\ t \in Seq(Char) /\ \A i \in 1..q : t[i] = p[i]
    /\ \/ h = q /\ Len(t) = q
       \/ h > q /\ Len(t) = h + 1 /\ t[q + 1] = "." /\ \A i \in (q + 1)..h : t[i + 1] = p[i]

LEMMA JoinedText ==
    ASSUME NEW p \in Seq(Char), NEW q \in 1..Len(p), NEW h \in (q + 1)..Len(p),
           NEW t, t = SubSeq(p, 1, q) \o <<".">> \o SubSeq(p, q + 1, h)
    PROVE  Joined(t, p, q, h)
<1>1. PICK n, a, c, b : n = Len(p) /\ a = SubSeq(p, 1, q) /\ c = <<".">> /\ b = SubSeq(p, q + 1, h)
    OBVIOUS
<1>2. n \in Nat /\ q \in 1..n /\ h \in (q + 1)..n /\ \A i \in 1..n : p[i] \in Char
    BY <1>1
<1>3. a \in Seq(Char) /\ Len(a) = q /\ \A i \in 1..q : a[i] = p[i]
  <2>1. 1 \in Int /\ q \in Int /\ \A i \in 1..q : p[i] \in Char
      BY <1>2
  <2>2. a \in Seq(Char) /\ Len(a) = IF 1 <= q THEN q - 1 + 1 ELSE 0
      BY <1>1, <2>1, SubSeqProperties
  <2>3. \A i \in 1..(q - 1 + 1) : a[i] = p[1 + i - 1]
      BY <1>1, <2>1, SubSeqProperties
  <2>4. \A i \in 1..q : i \in 1..(q - 1 + 1) /\ 1 + i - 1 = i
      BY <1>2
  <2> QED BY <1>2, <2>2, <2>3, <2>4
<1>4. b \in Seq(Char) /\ Len(b) = h - q /\ \A i \in 1..(h - q) : b[i] = p[q + i]
  <2>1. q + 1 \in Int /\ h \in Int /\ \A i \in (q + 1)..h : p[i] \in Char
      BY <1>2
  <2>2. b \in Seq(Char) /\ Len(b) = IF q + 1 <= h THEN h - (q + 1) + 1 ELSE 0
      BY <1>1, <2>1, SubSeqProperties
  <2>3. \A i \in 1..(h - (q + 1) + 1) : b[i] = p[(q + 1) + i - 1]
      BY <1>1, <2>1, SubSeqProperties
  <2>4. \A i \in 1..(h - q) : i \in 1..(h - (q + 1) + 1) /\ (q + 1) + i - 1 = q + i
      BY <1>2
  <2> QED BY <1>2, <2>2, <2>3, <2>4
<1>5. c \in Seq(Char) /\ Len(c) = 1 /\ c[1] = "."
  <2>1. "." \in Char
      BY DEF Char
  <2> QED BY <1>1, <2>1
<1>6. PICK e : e = a \o c
    OBVIOUS
<1>7. e \in Seq(Char) /\ Len(e) = q + 1 /\ e[q + 1] = "." /\ \A i \in 1..q : e[i] = p[i]
  <2>1. e \in Seq(Char) /\ Len(e) = Len(a) + Len(c)
      BY <1>3, <1>5, <1>6, ConcatProperties
  <2>2. \A i \in 1..(Len(a) + Len(c)) : e[i] = IF i <= Len(a) THEN a[i] ELSE c[i - Len(a)]
      BY <1>3, <1>5, <1>6, ConcatProperties
  <2>3. Len(a) + Len(c) = q + 1 /\ q + 1 \in 1..(q + 1) /\ (q + 1) - q = 1 /\ ~(q + 1 <= q)
      BY <1>2, <1>3, <1>5
  <2>4. e[q + 1] = c[1]
      BY <1>3, <2>2, <2>3
  <2>5. \A i \in 1..q : i \in 1..(q + 1) /\ i <= q
      BY <1>2
  <2>6. \A i \in 1..q : e[i] = a[i]
      BY <1>3, <2>2, <2>3, <2>5
  <2> QED BY <1>3, <1>5, <2>1, <2>3, <2>4, <2>6
<1>8. t = e \o b
    BY <1>1, <1>6
<1>9. t \in Seq(Char) /\ Len(t) = h + 1
  <2>1. t \in Seq(Char) /\ Len(t) = Len(e) + Len(b)
      BY <1>4, <1>7, <1>8, ConcatProperties
  <2> QED BY <1>2, <1>4, <1>7, <2>1
<1>10. \A i \in 1..(h + 1) : t[i] = IF i <= q + 1 THEN e[i] ELSE b[i - (q + 1)]
  <2>1. \A i \in 1..(Len(e) + Len(b)) : t[i] = IF i <= Len(e) THEN e[i] ELSE b[i - Len(e)]
      BY <1>4, <1>7, <1>8, ConcatProperties
  <2>2. Len(e) + Len(b) = h + 1
      BY <1>2, <1>4, <1>7
  <2> QED BY <1>7, <2>1, <2>2
<1>11. t[q + 1] = "." /\ \A i \in 1..q : t[i] = p[i]
  <2>1. q + 1 \in 1..(h + 1) /\ q + 1 <= q + 1 /\ \A i \in 1..q : i \in 1..(h + 1) /\ i <= q + 1
      BY <1>2
  <2> QED BY <1>7, <1>10, <2>1
<1>12. ASSUME NEW i \in (q + 1)..h PROVE t[i + 1] = p[i]
  <2>1. PICK j, k : j = i + 1 /\ k = i - q
      OBVIOUS
  <2>2. j \in 1..(h + 1) /\ ~(j <= q + 1) /\ j - (q + 1) = k /\ k \in 1..(h - q) /\ q + k = i
      BY <1>2, <2>1
  <2>3. t[j] = b[k] /\ b[k] = p[q + k]
      BY <1>4, <1>10, <2>2
  <2> QED BY <2>1, <2>2, <2>3
<1>13. h \in q..Len(p) /\ h > q
    BY <1>1, <1>2
<1> QED BY <1>9, <1>11, <1>12, <1>13 DEF Joined

\* No digits but zeros are left out.
Shows(t, digits, scale, p, q, h) ==
    /\ Padded(p, digits, scale) /\ q = Len(p) - scale
    /\ Joined(t, p, q, h)
    /\ ZerosAfter(p, h)

LEMMA TextIs ==
    ASSUME NEW digits \in Seq(Char), NEW scale \in Nat, NEW text, text = TextOf(digits, scale)
    PROVE  \E p, q, h : Shows(text, digits, scale, p, q, h)
<1>1. PICK p : p = IF Len(digits) <= scale THEN Zeros(scale + 1 - Len(digits)) \o digits ELSE digits
    OBVIOUS
<1>2. PICK n, q : n = Len(p) /\ q = Len(p) - scale
    OBVIOUS
<1>3. Padded(p, digits, scale)
  <2>1. CASE Len(digits) <= scale
    <3>1. PICK z, e : z = scale + 1 - Len(digits) /\ e = Zeros(z)
        OBVIOUS
    <3>0. z \in Nat /\ z + Len(digits) = scale + 1
        BY <2>1, <3>1
    <3>2. p = e \o digits /\ p = Zeros(z) \o digits
        BY <1>1, <2>1, <3>1
    <3>3. e \in Seq(Char) /\ Len(e) = z
      <4>1. "0" \in Char
          BY DigitValues DEF Char
      <4>2. e \in [1..z -> Char]
          BY <3>1, <4>1 DEF Zeros
      <4>3. e \in Seq(Char)
          BY <3>0, <4>2, SeqDef
      <4> QED BY <3>0, <4>2, <4>3
    <3>4. p \in Seq(Char) /\ Len(p) = Len(e) + Len(digits)
        BY <3>2, <3>3, ConcatProperties
    <3>5. Len(p) = scale + 1
        BY <3>0, <3>3, <3>4
    <3>6. \E zz \in Nat : p = Zeros(zz) \o digits \/ p = digits
        BY <3>0, <3>2, Zenon
    <3>7. p \in Seq(Char) /\ Len(p) > scale
        BY <3>4, <3>5
    <3> QED BY <3>6, <3>7, Zenon DEF Padded
  <2>2. CASE ~(Len(digits) <= scale)
    <3>1. p = digits /\ Len(p) > scale
        BY <1>1, <2>2
    <3>2. 0 \in Nat
        OBVIOUS
    <3> QED BY <3>1, <3>2 DEF Padded
  <2> QED BY <2>1, <2>2
<1>4. p \in Seq(Char) /\ n \in Nat /\ n > scale /\ q \in 1..n /\ q \in Nat
  <2>1. p \in Seq(Char) /\ Len(p) > scale
      BY <1>3 DEF Padded
  <2> QED BY <1>2, <2>1
<1>5. PICK nonzero : nonzero = {i \in q + 1..n : p[i] # "0"}
    OBVIOUS
<1>6. PICK last, t : /\ last = CHOOSE i \in nonzero : \A j \in nonzero : i >= j
                     /\ t = text
    OBVIOUS
<1>7. t = IF nonzero = {} THEN SubSeq(p, 1, q) ELSE SubSeq(p, 1, q) \o <<".">> \o SubSeq(p, q + 1, last)
  <2>1. p = PaddedTo(digits, scale) /\ nonzero = NonzeroAfter(p, q) /\ last = LastOf(nonzero)
      BY <1>1, <1>2, <1>5, <1>6 DEF PaddedTo, NonzeroAfter, LastOf
  <2>2. t = TextOfPadded(p, q)
      BY <1>2, <1>6, <2>1 DEF TextOf
  <2>3. t = TextWithPoint(p, q, nonzero)
      BY <2>1, <2>2 DEF TextOfPadded
  <2> QED BY <2>1, <2>3 DEF TextWithPoint
<1>8. CASE nonzero = {}
  <2>1. t = SubSeq(p, 1, q)
      BY <1>7, <1>8
  <2>2. t \in Seq(Char) /\ Len(t) = q /\ \A i \in 1..q : t[i] = p[i]
    <3>1. 1 \in Int /\ q \in Int /\ \A i \in 1..q : p[i] \in Char
        BY <1>2, <1>4
    <3>2. t \in Seq(Char) /\ Len(t) = IF 1 <= q THEN q - 1 + 1 ELSE 0
        BY <2>1, <3>1, SubSeqProperties
    <3>3. \A i \in 1..(q - 1 + 1) : t[i] = p[1 + i - 1]
        BY <2>1, <3>1, SubSeqProperties
    <3>4. \A i \in 1..q : i \in 1..(q - 1 + 1) /\ 1 + i - 1 = i
        BY <1>4
    <3> QED BY <1>4, <3>2, <3>3, <3>4
  <2>3. Joined(t, p, q, q)
    <3>1. q \in 1..Len(p) /\ q \in q..Len(p)
        BY <1>2, <1>4
    <3> QED BY <2>2, <3>1 DEF Joined
  <2>4. ZerosAfter(p, q)
      BY <1>2, <1>5, <1>8 DEF ZerosAfter
  <2> QED BY <1>2, <1>3, <1>6, <2>3, <2>4 DEF Shows
<1>9. CASE nonzero # {}
  <2>1. last \in nonzero /\ \A j \in nonzero : last >= j
    <3>1. nonzero \in SUBSET (0..n)
        BY <1>4, <1>5
    <3>2. \E i \in nonzero : \A j \in nonzero : j <= i
        BY <1>4, <1>9, <3>1, GreatestNatural
    <3>3. \A i, j \in nonzero : j <= i => i >= j
        BY <3>1
    <3>4. \E i \in nonzero : \A j \in nonzero : i >= j
        BY <3>2, <3>3
    <3> QED BY <1>6, <3>4
  <2>2. last \in (q + 1)..n /\ last \in (q + 1)..Len(p) /\ q \in 1..Len(p)
      BY <1>2, <1>4, <1>5, <2>1
  <2>3. t = SubSeq(p, 1, q) \o <<".">> \o SubSeq(p, q + 1, last)
      BY <1>7, <1>9
  <2>4. Joined(t, p, q, last)
      BY <1>4, <2>2, <2>3, JoinedText
  <2>5. ASSUME NEW i \in (last + 1)..n PROVE p[i] = "0"
    <3>1. i \in q + 1..n /\ ~(last >= i)
        BY <1>4, <2>2
    <3>2. i \notin nonzero
        BY <2>1, <3>1
    <3> QED BY <1>5, <3>1, <3>2
  <2>6. ZerosAfter(p, last)
      BY <1>2, <2>5 DEF ZerosAfter
  <2> QED BY <1>2, <1>3, <1>6, <2>4, <2>6 DEF Shows
<1> QED BY <1>8, <1>9

\* The digits and the parts of such a text.
LaidOut(u, d, q, n, k) ==
    /\ u \in Seq(Char) /\ d \in Seq(Char) /\ n = Len(u) /\ k = Len(d)
    /\ n \in Nat /\ k \in Nat /\ q \in Nat /\ q <= k
    /\ \A j \in 1..k : d[j] \in Digit
    /\ \A j \in 1..q : u[j] = d[j]
    /\ \/ n = q /\ k = q
       \/ n = k + 1 /\ u[q + 1] = "." /\ \A j \in (q + 1)..k : u[j + 1] = d[j]
    /\ \A j \in 1..n : u[j] \in Digit \/ (u[j] = "." /\ j = q + 1 /\ n = k + 1)

Split(parts, d, q) ==
    \/ parts = <<d>> /\ q = Len(d)
    \/ \E a, f : /\ parts = <<a, f>> /\ a \in Seq(Char) /\ f \in Seq(Char)
                 /\ a \o f = d /\ Len(a) = q /\ allDigits(a) /\ allDigits(f)

LEMMA PlainParts ==
    ASSUME NEW u, NEW d, NEW q, NEW n, NEW k, LaidOut(u, d, q, n, k)
    PROVE  Split(Parts(u), d, q)
<1>1. /\ u \in Seq(Char) /\ d \in Seq(Char) /\ n = Len(u) /\ k = Len(d)
      /\ n \in Nat /\ k \in Nat /\ q \in Nat /\ q <= k
      /\ \A j \in 1..k : d[j] \in Digit
      /\ \A j \in 1..q : u[j] = d[j]
    BY DEF LaidOut
<1>2. \A j \in 1..n : u[j] \in Digit \/ (u[j] = "." /\ j = q + 1 /\ n = k + 1)
    BY DEF LaidOut
<1>3. CASE n = q /\ k = q
  <2>1. u = d
      BY <1>1, <1>3, SeqEqual
  <2>2. NoPoint(u)
    <3>1. \A i \in 1..Len(u) : u[i] \in Digit
        BY <1>1, <1>3
    <3> QED BY <3>1, NoDigits DEF NoPoint
  <2>3. Parts(u) = <<u>>
    <3>1. \A p : ~OnePoint(u, p)
        BY <2>2 DEF NoPoint, OnePoint
    <3> QED BY <1>1, <2>2, <3>1, PartsAre
  <2> QED BY <1>1, <1>3, <2>1, <2>3 DEF Split
<1>4. CASE n = k + 1 /\ u[q + 1] = "." /\ \A j \in (q + 1)..k : u[j + 1] = d[j]
  <2>1. q + 1 \in 1..n
      BY <1>1, <1>4
  <2>2. \A i \in 1..n : u[i] = "." => i = q + 1
      BY <1>2, NoDigits
  <2>3. ~NoPoint(u) /\ OnePoint(u, q + 1)
      BY <1>1, <1>4, <2>1, <2>2 DEF NoPoint, OnePoint
  <2>4. PICK p : OnePoint(u, p) /\ Parts(u) = <<SubSeq(u, 1, p - 1), SubSeq(u, p + 1, Len(u))>>
      BY <1>1, <2>3, PartsAre
  <2>5. p = q + 1 /\ p - 1 = q /\ p \in 1..n
      BY <1>1, <2>2, <2>4 DEF OnePoint
  <2>6. PICK a, f : a = SubSeq(u, 1, p - 1) /\ f = SubSeq(u, p + 1, n)
      OBVIOUS
  <2>7. a \in Seq(Char) /\ Len(a) = q /\ \A i \in 1..q : a[i] = d[i]
    <3>1. 1 \in Int /\ q \in Int /\ \A i \in 1..q : u[i] \in Char
        BY <1>1, <1>4
    <3>2. a = SubSeq(u, 1, q)
        BY <2>5, <2>6
    <3>3. a \in Seq(Char) /\ Len(a) = IF 1 <= q THEN q - 1 + 1 ELSE 0
        BY <3>1, <3>2, SubSeqProperties
    <3>4. \A i \in 1..(q - 1 + 1) : a[i] = u[1 + i - 1]
        BY <3>1, <3>2, SubSeqProperties
    <3>5. \A i \in 1..q : i \in 1..(q - 1 + 1) /\ 1 + i - 1 = i
        BY <1>1
    <3> QED BY <1>1, <3>3, <3>4, <3>5
  <2>8. f \in Seq(Char) /\ Len(f) = k - q /\ \A i \in 1..(k - q) : f[i] = d[q + i]
    <3>1. p + 1 \in Int /\ n \in Int /\ \A i \in (p + 1)..n : u[i] \in Char
        BY <1>1, <2>5
    <3>2. f \in Seq(Char) /\ Len(f) = IF p + 1 <= n THEN n - (p + 1) + 1 ELSE 0
        BY <2>6, <3>1, SubSeqProperties
    <3>3. \A i \in 1..(n - (p + 1) + 1) : f[i] = u[(p + 1) + i - 1]
        BY <2>6, <3>1, SubSeqProperties
    <3>4. \A i \in 1..(k - q) : /\ i \in 1..(n - (p + 1) + 1) /\ (p + 1) + i - 1 = (q + i) + 1
                               /\ q + i \in (q + 1)..k
        BY <1>1, <1>4, <2>5
    <3>5. \A i \in 1..(k - q) : f[i] = d[q + i]
        BY <1>4, <3>3, <3>4
    <3>6. Len(f) = k - q
        BY <1>1, <1>4, <2>5, <3>2
    <3> QED BY <3>2, <3>5, <3>6
  <2>9. PICK c : c = a \o f
      OBVIOUS
  <2>10. c = d
    <3>1. c \in Seq(Char) /\ Len(c) = Len(a) + Len(f)
        BY <2>7, <2>8, <2>9, ConcatProperties
    <3>2. \A i \in 1..(Len(a) + Len(f)) : c[i] = IF i <= Len(a) THEN a[i] ELSE f[i - Len(a)]
        BY <2>7, <2>8, <2>9, ConcatProperties
    <3>3. Len(c) = k /\ Len(a) + Len(f) = k
        BY <1>1, <2>7, <2>8, <3>1
    <3>4. ASSUME NEW i \in 1..k PROVE c[i] = d[i]
      <4>1. CASE i <= q
        <5>1. i \in 1..q
            BY <1>1, <4>1
        <5> QED BY <2>7, <3>2, <3>3, <4>1, <5>1
      <4>2. CASE ~(i <= q)
        <5>1. i - q \in 1..(k - q) /\ q + (i - q) = i
            BY <1>1, <4>2
        <5>2. c[i] = f[i - q]
            BY <2>7, <3>2, <3>3, <4>2
        <5> QED BY <2>8, <5>1, <5>2
      <4> QED BY <4>1, <4>2
    <3> QED BY <1>1, <3>1, <3>3, <3>4, SeqEqual
  <2>11. allDigits(a)
    <3>1. \A i \in 1..q : i \in 1..k
        BY <1>1
    <3>2. DOMAIN a = 1..q
        BY <2>7
    <3> QED BY <1>1, <2>7, <3>1, <3>2 DEF allDigits, ToSet
  <2>12. allDigits(f)
    <3>1. \A i \in 1..(k - q) : q + i \in 1..k
        BY <1>1
    <3>2. DOMAIN f = 1..(k - q)
        BY <2>8
    <3> QED BY <1>1, <2>8, <3>1, <3>2 DEF allDigits, ToSet
  <2>13. Parts(u) = <<a, f>>
      BY <1>1, <2>4, <2>6
  <2> QED BY <2>7, <2>8, <2>9, <2>10, <2>11, <2>12, <2>13 DEF Split
<1> QED BY <1>3, <1>4 DEF LaidOut

\* A text and a number, and their absolute value.
WithSign(value, v, u, m, negative) ==
    IF negative THEN value = <<"-">> \o u /\ v = -m ELSE value = u /\ v = m

\* A text as FormatScaled writes it is read back.
LEMMA PlainReads ==
    ASSUME NEW value \in Seq(Char), NEW scale \in 0..MaxScale, NEW u, NEW d, NEW q, NEW m,
           Plain(u, d, q, m, scale), NEW negative \in BOOLEAN, NEW v \in Int64,
           WithSign(value, v, u, m, negative)
    PROVE  ParseScaled(value, scale) = Returned(v) /\ DecimalSign(value).ok
<1>1. PICK n, k : n = Len(u) /\ k = Len(d)
    OBVIOUS
<1>2. /\ u \in Seq(Char) /\ d \in Seq(Char) /\ allDigits(d)
      /\ q > 0 /\ k - q <= scale
      /\ m = Number(d) * pow10(scale - (k - q))
    BY <1>1 DEF Plain
<1>3. n \in Nat /\ k \in Nat /\ q \in Nat /\ q <= k /\ \A j \in 1..q : u[j] = d[j]
  <2>1. Laid(u, d, q) /\ Len(u) \in Nat /\ Len(d) \in Nat
      BY <1>2 DEF Plain
  <2> QED BY <1>1, <2>1 DEF Laid
<1>4. \/ n = q /\ k = q
      \/ n = k + 1 /\ u[q + 1] = "." /\ \A j \in (q + 1)..k : u[j + 1] = d[j]
  <2>1. Laid(u, d, q)
      BY DEF Plain
  <2>2. \/ Len(u) = q /\ Len(d) = q
        \/ /\ Len(u) = Len(d) + 1 /\ u[q + 1] = "."
           /\ \A j \in (q + 1)..Len(d) : u[j + 1] = d[j]
      BY <2>1 DEF Laid
  <2>3. CASE Len(u) = q /\ Len(d) = q
      BY <1>1, <2>3
  <2>4. CASE /\ Len(u) = Len(d) + 1 /\ u[q + 1] = "."
             /\ \A j \in (q + 1)..Len(d) : u[j + 1] = d[j]
      BY <1>1, <2>4
  <2> QED BY <2>2, <2>3, <2>4
<1>5. \A j \in 1..k : d[j] \in Digit
  <2>1. DOMAIN d = 1..k
      BY <1>1, <1>2
  <2> QED BY <1>2, <2>1 DEF allDigits, ToSet
<1>6. \A j \in 1..n : u[j] \in Digit \/ (u[j] = "." /\ j = q + 1 /\ n = k + 1)
  <2> SUFFICES ASSUME NEW j \in 1..n PROVE u[j] \in Digit \/ (u[j] = "." /\ j = q + 1 /\ n = k + 1)
      OBVIOUS
  <2>1. CASE j <= q
    <3>1. j \in 1..q /\ j \in 1..k
        BY <1>3, <2>1
    <3> QED BY <1>3, <1>5, <3>1
  <2>2. CASE j = q + 1
    <3>1. n # q
        BY <1>3, <2>2
    <3> QED BY <1>4, <2>2, <3>1
  <2>3. CASE j > q + 1
    <3>1. n = k + 1 /\ \A i \in (q + 1)..k : u[i + 1] = d[i]
        BY <1>3, <1>4, <2>3
    <3>2. PICK i : i = j - 1
        OBVIOUS
    <3>3. i \in (q + 1)..k /\ i \in 1..k /\ i + 1 = j
        BY <1>3, <2>3, <3>1, <3>2
    <3> QED BY <1>5, <3>1, <3>3
  <2> QED BY <1>3, <2>1, <2>2, <2>3
<1>7. n > 0 /\ u # << >> /\ u[1] \in Digit
  <2>1. n > 0 /\ 1 \in 1..q /\ 1 \in 1..k
      BY <1>2, <1>3, <1>4
  <2> QED BY <1>1, <1>2, <1>3, <1>5, <2>1
<1>8. /\ value # << >> /\ Unsigned(value) = u /\ (negative <=> SignOf(value) = -1)
      /\ SignOf(value) = IF negative THEN -1 ELSE 1
      /\ \A i \in 1..Len(value) : value[i] \in Digit \cup {".", "-"}
  <2>1. CASE negative
    <3>1. PICK c : c = <<"-">>
        OBVIOUS
    <3>2. c \in Seq(Char) /\ Len(c) = 1 /\ c[1] = "-"
      <4>1. "-" \in Char
          BY DEF Char
      <4> QED BY <3>1, <4>1
    <3>3. value = c \o u
        BY <2>1, <3>1 DEF WithSign
    <3>40. u \in Seq(Char) /\ c \in Seq(Char)
        BY <1>2, <3>2
    <3>4. Len(value) = Len(c) + Len(u)
        BY <3>3, <3>40, ConcatProperties
    <3>5. \A i \in 1..(Len(c) + Len(u)) : value[i] = IF i <= Len(c) THEN c[i] ELSE u[i - Len(c)]
        BY <3>3, <3>40, ConcatProperties
    <3>6. Len(value) = n + 1 /\ \A i \in 1..(n + 1) : value[i] = IF i <= 1 THEN c[i] ELSE u[i - 1]
        BY <1>1, <1>3, <3>2, <3>4, <3>5
    <3>7. value # << >> /\ value[1] = "-"
      <4>1. 1 \in 1..(n + 1)
          BY <1>3
      <4> QED BY <1>3, <3>2, <3>6, <4>1
    <3>8. Tail(value) = u
      <4>1. PICK w : w = Tail(value)
          OBVIOUS
      <4>2. w \in Seq(Char) /\ Len(w) = n /\ \A i \in 1..n : w[i] = value[i + 1]
          BY <1>3, <3>6, <3>7, <4>1
      <4>3. \A i \in 1..n : i + 1 \in 1..(n + 1) /\ ~(i + 1 <= 1) /\ (i + 1) - 1 = i
          BY <1>3
      <4>4. \A i \in 1..n : w[i] = u[i]
          BY <3>6, <4>2, <4>3
      <4>5. w = u
          BY <1>1, <1>2, <4>2, <4>4, SeqEqual
      <4> QED BY <4>1, <4>5
    <3>9. Unsigned(value) = u /\ SignOf(value) = -1
        BY <3>7, <3>8 DEF Unsigned, Signed, SignOf
    <3>10. ASSUME NEW i \in 1..Len(value) PROVE value[i] \in Digit \cup {".", "-"}
      <4>1. CASE i = 1
          BY <3>7, <4>1
      <4>2. CASE i # 1
        <5>1. i - 1 \in 1..n /\ ~(i <= 1) /\ i \in 1..(n + 1)
            BY <1>3, <3>6, <4>2
        <5>2. value[i] = u[i - 1]
            BY <3>6, <5>1
        <5> QED BY <1>6, <5>1, <5>2
      <4> QED BY <4>1, <4>2
    <3> QED BY <2>1, <3>7, <3>9, <3>10
  <2>2. CASE ~negative
    <3>1. value = u
        BY <2>2 DEF WithSign
    <3>2. u[1] \notin {"+", "-"}
        BY <1>7, NoDigits
    <3>3. Unsigned(value) = u /\ SignOf(value) = 1
        BY <1>7, <3>1, <3>2 DEF Unsigned, Signed, SignOf
    <3> QED BY <1>1, <1>6, <1>7, <2>2, <3>1, <3>3
  <2> QED BY <2>1, <2>2
<1>9. TrimSpace(value) = value
  <2>1. PICK t : t = TrimSpace(value)
      OBVIOUS
  <2>2. PICK o : Trimmed(value, t, o, {" "})
      BY <2>1, TrimIs DEF TrimSpace
  <2>3. PICK w : w = Len(value)
      OBVIOUS
  <2>4. w \in Nat /\ w > 0
      BY <1>8, <2>3
  <2>5. \A i \in 1..w : value[i] # " "
      BY <1>8, <2>3, NoDigits
  <2>6. /\ t \in Seq(Char) /\ o \in Nat /\ Len(t) \in Nat /\ o + Len(t) <= w
        /\ \A j \in 1..Len(t) : t[j] = value[o + j]
    <3>1. t \in Seq(Char) /\ o \in Nat /\ o + Len(t) <= w
        BY <2>2, <2>3 DEF Trimmed
    <3>2. \A j \in 1..Len(t) : t[j] = value[o + j]
        BY <2>2 DEF Trimmed
    <3>3. Len(t) \in Nat
        BY <3>1
    <3> QED BY <3>1, <3>2, <3>3
  <2>7. \A i \in 1..w : i <= o \/ i > o + Len(t) => value[i] = " "
      BY <2>2, <2>3 DEF Trimmed
  <2>8. o = 0 /\ Len(t) = w
    <3>1. \A i \in 1..w : ~(i <= o \/ i > o + Len(t))
        BY <2>5, <2>7
    <3>2. 1 \in 1..w /\ w \in 1..w
        BY <2>4
    <3> QED BY <2>4, <2>6, <3>1, <3>2
  <2>9. \A j \in 1..w : t[j] = value[j]
    <3>1. \A j \in 1..w : o + j = j
        BY <2>8
    <3> QED BY <2>6, <2>8, <3>1
  <2>10. t = value
      BY <2>3, <2>6, <2>8, <2>9, SeqEqual
  <2> QED BY <2>1, <2>10
<1>10. {"e", "E"} \cap ToSet(value) = {}
  <2>1. DOMAIN value = 1..Len(value)
      OBVIOUS
  <2>2. \A i \in 1..Len(value) : value[i] # "e" /\ value[i] # "E"
      BY <1>8, NoDigits
  <2> QED BY <2>1, <2>2 DEF ToSet
<1>11. LaidOut(u, d, q, n, k)
    BY <1>1, <1>2, <1>3, <1>4, <1>5, <1>6 DEF LaidOut
<1>12. PICK parts, fraction : /\ parts = Parts(u)
                              /\ fraction = IF Len(parts) = 2 THEN parts[2] ELSE << >>
    OBVIOUS
<1>13. Split(parts, d, q)
    BY <1>11, <1>12, PlainParts
<1>14. PICK x : x = parts[1]
    OBVIOUS
<1>15. /\ Len(parts) = 1 \/ Len(parts) = 2
       /\ x # << >> /\ allDigits(x) /\ allDigits(fraction) /\ x \o fraction = d /\ Len(fraction) = k - q
       /\ \A i \in DOMAIN parts : allDigits(parts[i])
  <2>1. CASE parts = <<d>> /\ q = Len(d)
    <3>1. Len(parts) = 1 /\ x = d /\ fraction = << >> /\ DOMAIN parts = {1}
        BY <1>12, <1>14, <2>1
    <3>2. d \o << >> = d /\ Len(<< >>) = 0 /\ d # << >>
        BY <1>1, <1>2, <2>1
    <3>3. allDigits(<< >>)
        BY DEF allDigits, ToSet
    <3>4. k - q = 0
        BY <1>1, <1>3, <2>1
    <3> QED BY <1>2, <1>14, <3>1, <3>2, <3>3, <3>4
  <2>2. CASE \E a, f : /\ parts = <<a, f>> /\ a \in Seq(Char) /\ f \in Seq(Char)
                      /\ a \o f = d /\ Len(a) = q /\ allDigits(a) /\ allDigits(f)
    <3>1. PICK a, f : /\ parts = <<a, f>> /\ a \in Seq(Char) /\ f \in Seq(Char)
                      /\ a \o f = d /\ Len(a) = q /\ allDigits(a) /\ allDigits(f)
        BY <2>2
    <3>2. Len(parts) = 2 /\ x = a /\ fraction = f /\ DOMAIN parts = {1, 2} /\ parts[1] = a /\ parts[2] = f
        BY <1>12, <1>14, <3>1
    <3>3. Len(f) = k - q
      <4>1. PICK y : y = a \o f
          OBVIOUS
      <4>2. Len(y) = Len(a) + Len(f) /\ Len(f) \in Nat
          BY <3>1, <4>1, ConcatProperties
      <4> QED BY <1>1, <1>3, <3>1, <4>1, <4>2
    <3>4. a # << >>
        BY <1>2, <3>1
    <3> QED BY <3>1, <3>2, <3>3, <3>4
  <2> QED BY <1>13, <2>1, <2>2 DEF Split
<1>16. v = SignOf(value) * Number(x \o fraction) * pow10(scale - Len(fraction))
  <2>1. PICK b, s, j : b = Number(d) /\ s = SignOf(value) /\ j = pow10(scale - (k - q))
      OBVIOUS
  <2>2. b \in Nat /\ j \in Nat
    <3>1. scale - (k - q) \in Nat
        BY <1>2, <1>3, DecimalAssumption
    <3> QED BY <1>2, <2>1, <3>1, NumberSign, Pow10Facts
  <2>3. m = b * j /\ s = IF negative THEN -1 ELSE 1
      BY <1>2, <1>8, <2>1
  <2>4. v = s * b * j
    <3>1. CASE negative
      <4>1. s = -1 /\ v = -(b * j)
          BY <2>3, <3>1 DEF WithSign
      <4> QED BY <2>2, <4>1
    <3>2. CASE ~negative
      <4>1. s = 1 /\ v = b * j
          BY <2>3, <3>2 DEF WithSign
      <4> QED BY <2>2, <4>1
    <3> QED BY <3>1, <3>2
  <2> QED BY <1>15, <2>1, <2>4
<1>17. PICK w, ww, pp, ff, y : /\ w = TrimSpace(value) /\ ww = Unsigned(w) /\ pp = Parts(ww)
                               /\ ff = IF Len(pp) = 2 THEN pp[2] ELSE <<>>
                               /\ y = SignOf(w) * Number(pp[1] \o ff) * pow10(scale - Len(ff))
    OBVIOUS
<1>18. w = value /\ ww = u /\ pp = parts /\ ff = fraction /\ pp[1] = x
  <2>1. w = value /\ ww = u /\ pp = parts
      BY <1>8, <1>9, <1>12, <1>17
  <2>2. ff = fraction /\ pp[1] = x
      BY <1>12, <1>14, <1>17, <2>1
  <2> QED BY <2>1, <2>2
<1>19. y = v
    BY <1>16, <1>17, <1>18
<1>20. ParseScaled(value, scale) = Returned(v)
  <2>1. ParseScaled(value, scale) =
          IF /\ scale \in 0..MaxScale
             /\ w # <<>> /\ {"e", "E"} \cap ToSet(w) = {}
             /\ Len(pp) <= 2
             /\ allDigits(ff)
             /\ pp[1] # <<>> \/ ff # <<>>
             /\ allDigits(pp[1])
             /\ Len(ff) <= scale
             /\ y \in Int64
          THEN Returned(y)
          ELSE Failed
      BY <1>17 DEF ParseScaled
  <2>2. Len(pp) <= 2 /\ Len(ff) <= scale
    <3>1. (Len(parts) = 1 \/ Len(parts) = 2) /\ Len(fraction) = k - q
        BY <1>15
    <3>2. Len(pp) = Len(parts) /\ Len(ff) = Len(fraction)
        BY <1>18
    <3>3. PICK lp, lf : lp = Len(pp) /\ lf = Len(ff)
        OBVIOUS
    <3>4. (lp = 1 \/ lp = 2) /\ lf = k - q
        BY <3>1, <3>2, <3>3
    <3>5. lp <= 2 /\ lf <= scale
        BY <1>2, <3>4
    <3> QED BY <3>3, <3>5
  <2>3. allDigits(ff) /\ pp[1] # <<>> /\ allDigits(pp[1]) /\ w # <<>> /\ {"e", "E"} \cap ToSet(w) = {}
      BY <1>8, <1>10, <1>15, <1>18
  <2>4. ParseScaled(value, scale) = Returned(y)
      BY <1>19, <2>1, <2>2, <2>3
  <2> QED BY <1>19, <2>4
<1>21. DecimalSign(value).ok
  <2>1. PICK s : s = DecimalSign(value)
      OBVIOUS
  <2>2. s = CASE w = <<>> \/ {"e", "E"} \cap ToSet(w) # {} -> Failed
              [] ww = <<>> \/ Len(pp) > 2 -> Failed
              [] pp[1] = <<>> /\ (Len(pp) = 1 \/ pp[2] = <<>>) -> Failed
              [] \E i \in DOMAIN pp : ~allDigits(pp[i]) -> Failed
              [] Trim(ww, {"0", "."}) = <<>> -> Returned(0)
              [] OTHER -> Returned(SignOf(w))
      BY <1>17, <2>1 DEF DecimalSign
  <2>3. /\ w # <<>> /\ {"e", "E"} \cap ToSet(w) = {} /\ ww # <<>> /\ pp[1] # <<>>
        /\ \A i \in DOMAIN pp : allDigits(pp[i])
      BY <1>7, <1>8, <1>10, <1>15, <1>18
  <2>4. ~(Len(pp) > 2)
    <3>1. Len(parts) = 1 \/ Len(parts) = 2
        BY <1>15
    <3>2. PICK lp : lp = Len(pp)
        OBVIOUS
    <3>3. lp = 1 \/ lp = 2
        BY <1>18, <3>1, <3>2
    <3>4. ~(lp > 2)
        BY <3>3
    <3> QED BY <3>2, <3>4
  <2>5. s = Returned(0) \/ s = Returned(SignOf(w))
      BY <2>2, <2>3, <2>4
  <2> QED BY <2>1, <2>5 DEF Returned
<1> QED BY <1>20, <1>21

\* A minus in front of a text makes a text.
LEMMA Minus ==
    ASSUME NEW u \in Seq(Char)
    PROVE  <<"-">> \o u \in Seq(Char)
<1>1. PICK c : c = <<"-">>
    OBVIOUS
<1>2. c \in Seq(Char)
  <2>1. "-" \in Char
      BY DEF Char
  <2> QED BY <1>1, <2>1
<1>3. c \o u \in Seq(Char)
    BY <1>2, ConcatProperties
<1> QED BY <1>1, <1>3

\* The absolute value is written in full.
LEMMA TextOfDigits ==
    ASSUME NEW d, NEW m, Formats(d, m), NEW scale \in Nat, NEW text, text = TextOf(d, scale)
    PROVE  \E c, q : Plain(text, c, q, m, scale) /\ (m > 0 => text # <<"0">>)
<1>1. Expands(d, m) /\ d \in Seq(Char) /\ m \in Nat
    BY DEF Formats, Expands
<1>20. PICK p, q, h : Shows(text, d, scale, p, q, h)
    BY <1>1, TextIs
<1>2. /\ Padded(p, d, scale) /\ q = Len(p) - scale
      /\ Joined(text, p, q, h) /\ ZerosAfter(p, h)
    BY <1>20 DEF Shows
<1>3. PICK n : n = Len(p)
    OBVIOUS
<1>4. p \in Seq(Char) /\ n \in Nat /\ n > scale
  <2>1. p \in Seq(Char) /\ Len(p) > scale
      BY <1>2 DEF Padded
  <2> QED BY <1>3, <2>1
<1>5. Expands(p, m)
  <2>1. PICK z \in Nat : p = Zeros(z) \o d \/ p = d
      BY <1>2 DEF Padded
  <2>2. CASE p = Zeros(z) \o d
      BY <1>1, <2>2, Padding
  <2>3. CASE p = d
      BY <1>1, <2>3
  <2> QED BY <2>1, <2>2, <2>3
<1>6. q \in 1..n /\ h \in q..n /\ q = n - scale /\ h \in 0..n
  <2>1. q \in 1..Len(p) /\ h \in q..Len(p)
      BY <1>2 DEF Joined
  <2> QED BY <1>2, <1>3, <1>4, <2>1
<1>7. text \in Seq(Char) /\ \A i \in 1..q : text[i] = p[i]
    BY <1>2 DEF Joined
<1>8. \/ h = q /\ Len(text) = q
      \/ /\ h > q /\ Len(text) = h + 1 /\ text[q + 1] = "."
         /\ \A i \in (q + 1)..h : text[i + 1] = p[i]
    BY <1>2 DEF Joined
<1>9. PICK c : c = SubSeq(p, 1, h)
    OBVIOUS
<1>10. /\ c \in Seq(Char) /\ Len(c) = h /\ \A i \in 1..h : c[i] = p[i]
       /\ allDigits(c) /\ m = Number(c) * pow10(n - h)
  <2>1. h \in 0..Len(p)
      BY <1>3, <1>6
  <2> QED BY <1>2, <1>3, <1>5, <1>9, <2>1, CutsZeros
<1>11. Laid(text, c, q)
  <2>1. q \in Nat /\ q <= Len(c)
      BY <1>4, <1>6, <1>10
  <2>2. \A j \in 1..q : text[j] = c[j]
    <3>1. \A j \in 1..q : j \in 1..h
        BY <1>4, <1>6
    <3> QED BY <1>7, <1>10, <3>1
  <2>3. CASE h = q /\ Len(text) = q
      BY <1>10, <2>1, <2>2, <2>3 DEF Laid
  <2>4. CASE /\ h > q /\ Len(text) = h + 1 /\ text[q + 1] = "."
             /\ \A i \in (q + 1)..h : text[i + 1] = p[i]
    <3>1. \A j \in (q + 1)..h : j \in 1..h
        BY <1>4, <1>6
    <3>2. \A j \in (q + 1)..Len(c) : text[j + 1] = c[j]
        BY <1>10, <2>4, <3>1
    <3> QED BY <1>10, <2>1, <2>2, <2>4, <3>2 DEF Laid
  <2> QED BY <1>8, <2>3, <2>4
<1>12. Plain(text, c, q, m, scale)
  <2>1. Len(c) - q <= scale /\ scale - (Len(c) - q) = n - h
      BY <1>4, <1>6, <1>10
  <2>2. m = Number(c) * pow10(scale - (Len(c) - q))
      BY <1>10, <2>1
  <2>3. q > 0
      BY <1>6
  <2> QED BY <1>7, <1>10, <1>11, <2>1, <2>2, <2>3 DEF Plain
<1>13. ASSUME m > 0, text = <<"0">> PROVE FALSE
  <2>1. Len(text) = 1 /\ text[1] = "0"
      BY <1>13
  <2>2. h = 1 /\ q = 1
      BY <1>6, <1>8, <2>1
  <2>3. c[1] = "0" /\ Len(c) = 1
      BY <1>7, <1>10, <2>1, <2>2
  <2>4. \A i \in 1..Len(c) : c[i] = "0"
    <3>1. \A i \in 1..1 : i = 1
        OBVIOUS
    <3> QED BY <2>3, <3>1
  <2>5. Number(c) = 0
      BY <1>10, <2>4, NumberSign
  <2>6. PICK b : b = pow10(n - h)
      OBVIOUS
  <2>7. b \in Nat
    <3>1. n - h \in Nat
        BY <1>4, <1>6
    <3> QED BY <2>6, <3>1, Pow10Facts
  <2>8. m = 0 * b
      BY <1>10, <2>5, <2>6
  <2> QED BY <1>13, <2>7, <2>8
<1> QED BY <1>12, <1>13

(***************************************************************************)
(* What the order book shows of a price can be sent back: FormatScaled's   *)
(* text passes both checks and is converted to the number it came from.    *)
(* The least int64, whose negation is itself, is the one exception.        *)
(***************************************************************************)
THEOREM ShownReadsBack ==
    ASSUME NEW v \in Int64, NEW scale \in 0..MaxScale
    PROVE  /\ FormatScaled(v, scale) \in Seq(Char)
           /\ v # -MaxInt64 - 1 => /\ ParseScaled(FormatScaled(v, scale), scale) = Returned(v)
                                   /\ DecimalSign(FormatScaled(v, scale)).ok
<1>1. PICK t, m : t = FormatScaled(v, scale) /\ m = IF v < 0 THEN -v ELSE v
    OBVIOUS
<1>2. MaxInt64 \in Nat /\ v \in Int /\ m \in Nat /\ m <= MaxInt64 + 1 /\ scale \in Nat
    BY <1>1, DecimalAssumption DEF Int64
<1>3. CASE scale = 0
  <2>1. t = FormatInt(v)
      BY <1>1, <1>3 DEF FormatScaled
  <2>2. PICK d : Formats(d, m) /\ t = IF v < 0 THEN <<"-">> \o d ELSE d
      BY <1>1, <1>2, <2>1, FormatIntIs
  <2>3. d \in Seq(Char) /\ Len(d) > 0 /\ allDigits(d) /\ Number(d) = m
    <3>1. Expands(d, m) /\ Len(d) > 0
        BY <2>2 DEF Formats
    <3>2. d \in Seq(Char)
        BY <3>1 DEF Expands
    <3> QED BY <3>1, <3>2, ExpansionNumber
  <2>4. PICK q : q = Len(d)
      OBVIOUS
  <2>5. Plain(d, d, q, m, scale)
    <3>1. Laid(d, d, q)
        BY <2>3, <2>4 DEF Laid
    <3>2. Len(d) - q <= scale /\ scale - (Len(d) - q) = 0 /\ q > 0
        BY <1>3, <2>3, <2>4
    <3>3. m = Number(d) * pow10(0)
      <4>1. pow10(0) = 1 /\ m * 1 = m
          BY <1>2, Pow10Facts
      <4> QED BY <2>3, <4>1
    <3> QED BY <2>3, <3>1, <3>2, <3>3 DEF Plain
  <2>6. t \in Seq(Char)
      BY <2>2, <2>3, Minus
  <2>7. PICK negative \in BOOLEAN : negative <=> v < 0
      BY <1>2
  <2>8. WithSign(t, v, d, m, negative)
      BY <1>1, <1>2, <2>2, <2>7 DEF WithSign
  <2>9. ParseScaled(t, scale) = Returned(v) /\ DecimalSign(t).ok
      BY <2>5, <2>6, <2>8, PlainReads
  <2> QED BY <1>1, <2>6, <2>9
<1>4. CASE scale # 0
  <2>1. scale > 0 /\ ~(scale <= 0)
      BY <1>2, <1>4
  <2>2. PICK a, digits, text : /\ a = (IF v < 0 THEN Negated(v) ELSE v)
                               /\ digits = FormatInt(a) /\ text = TextOf(digits, scale)
      OBVIOUS
  <2>3. t = IF v < 0 /\ text # <<"0">> THEN <<"-">> \o text ELSE text
    <3>1. t = CASE scale <= 0 -> FormatInt(v)
                [] scale > 0 /\ v < 0 /\ text # <<"0">> -> <<"-">> \o text
                [] OTHER -> text
      <4>1. FormatScaled(v, scale) =
              CASE scale <= 0 -> FormatInt(v)
                [] scale > 0 /\ v < 0 /\ TextOf(FormatInt(IF v < 0 THEN Negated(v) ELSE v), scale) # <<"0">> ->
                     <<"-">> \o TextOf(FormatInt(IF v < 0 THEN Negated(v) ELSE v), scale)
                [] OTHER -> TextOf(FormatInt(IF v < 0 THEN Negated(v) ELSE v), scale)
          BY DEF FormatScaled, TextOf, TextOfPadded, TextWithPoint, LastOf, NonzeroAfter, PaddedTo
      <4> QED BY <1>1, <2>2, <4>1
    <3>2. CASE v < 0 /\ text # <<"0">>
        BY <2>1, <3>1, <3>2
    <3>3. CASE ~(v < 0 /\ text # <<"0">>)
        BY <2>1, <3>1, <3>3
    <3> QED BY <3>2, <3>3
  <2>4. CASE v # -MaxInt64 - 1
    <3>1. a = m /\ ~(a < 0) /\ a \in Int
        BY <1>1, <1>2, <2>2, <2>4 DEF Negated
    <3>2. PICK d : Formats(d, m) /\ digits = d
        BY <1>2, <2>2, <3>1, FormatIntIs
    <3>3. PICK c, q : Plain(text, c, q, m, scale) /\ (m > 0 => text # <<"0">>)
        BY <1>2, <2>2, <3>2, TextOfDigits
    <3>4. text \in Seq(Char)
        BY <3>3 DEF Plain
    <3>5. v < 0 => m > 0
        BY <1>1, <1>2
    <3>6. PICK negative \in BOOLEAN : negative <=> v < 0
        BY <1>2
    <3>7. WithSign(t, v, text, m, negative)
        BY <1>1, <1>2, <2>3, <3>3, <3>5, <3>6 DEF WithSign
    <3>8. t \in Seq(Char)
        BY <2>3, <3>4, Minus
    <3>9. ParseScaled(t, scale) = Returned(v) /\ DecimalSign(t).ok
        BY <3>3, <3>7, <3>8, PlainReads
    <3> QED BY <1>1, <3>8, <3>9
  <2>5. CASE v = -MaxInt64 - 1
    <3>1. a = v /\ v < 0
        BY <1>2, <2>2, <2>5, DecimalAssumption DEF Negated
    <3>2. PICK d : Formats(d, m) /\ digits = <<"-">> \o d
        BY <1>1, <1>2, <2>2, <3>1, FormatIntIs
    <3>3. digits \in Seq(Char)
      <4>1. d \in Seq(Char)
          BY <3>2 DEF Formats, Expands
      <4> QED BY <3>2, <4>1, Minus
    <3>4. text \in Seq(Char)
      <4>1. PICK p, q, h : Shows(text, digits, scale, p, q, h)
          BY <1>2, <2>2, <3>3, TextIs
      <4> QED BY <4>1 DEF Shows, Joined
    <3> QED BY <1>1, <2>3, <2>5, <3>4, Minus
  <2> QED BY <2>4, <2>5
<1> QED BY <1>3, <1>4

====
