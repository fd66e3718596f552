------------------------- MODULE MarketNumbersProofs -------------------------
(***************************************************************************)
(* The properties of MarketNumbers, for every market that may be           *)
(* configured, every text that a client may send and every number of       *)
(* digits.  What the conversions compute is proved in DecimalProofs; here  *)
(* it is carried along the life of a price and of a fill.                  *)
(***************************************************************************)
EXTENDS MarketNumbers, DecimalProofs

\* A text of strings is a text.
LEMMA ClientText ==
    ASSUME NEW s \in Seq(STRING)
    PROVE  s \in Seq(Char)
<1>1. PICK n : n = Len(s)
    OBVIOUS
<1>2. n \in Nat /\ DOMAIN s = 1..n /\ \A i \in 1..n : s[i] \in STRING
    BY <1>1
<1>3. \A i \in 1..n : s[i] \in Char
    BY <1>2 DEF Char
<1>4. s \in [1..n -> Char]
    BY <1>1, <1>2, <1>3
<1> QED BY <1>2, <1>4, SeqDef

-----------------------------------------------------------------------------
(* The invariant                                                           *)

\* The conversion of the text under the market's scale.
Conversion == ParseScaled(raw, precision.priceScale)

TypeInv ==
    /\ precision \in Contract
    /\ raw \in Seq(Char)
    /\ price \in Int64
    /\ step \in {"sent", "checked", "refused", "parsed", "shown", "matched", "logged", "saved", "halted"}

\* What is remembered of a text are results for it.
Results ==
    /\ step \in {"checked", "parsed"} => DecimalSign(raw).ok /\ sign = DecimalSign(raw).value
    /\ step = "parsed" => Conversion.ok /\ price = Conversion.value

\* While a text travels it is its number's own.
Own(w) ==
    /\ w \in Seq(Char) \X Int64
    /\ w[2] # -MaxInt64 - 1 =>
          /\ step # "refused"
          /\ step = "parsed" => price = w[2]
          /\ step \in {"shown", "sent", "checked"} => raw = FormatScaled(w[2], precision.priceScale)

Travels == (\A w \in written : Own(w)) /\ (step = "parsed" => written # {})

Exact == QuoteAmount(precision, price, amount)

\* What Save writes for the exact quote.
Kept == IF Exact.value = 0 THEN QuoteAmount(DefaultPrecision, price, amount) ELSE Returned(Exact.value)

\* A fill is of a price of the market and a positive amount, and all of its
\* replays compute the same.
Fills ==
    /\ step \in {"matched", "logged", "saved", "halted"} =>
          validatePrice(precision, price) /\ amount \in Nat /\ amount > 0
    /\ step = "logged" => Exact.ok /\ quote = Exact.value
    /\ stored # {} => /\ step \in {"matched", "logged", "saved"}
                      /\ Exact.ok /\ Kept.ok /\ stored = {Kept.value}

IInv == TypeInv /\ Results /\ Travels /\ Fills

-----------------------------------------------------------------------------
(* Facts about the operators                                               *)

\* A market's scales are within bounds, and the prices it accepts are positive.
LEMMA Contracts ==
    ASSUME NEW p \in Contract
    PROVE  /\ p.priceScale \in 0..MaxScale /\ p.quantityScale \in 0..MaxScale /\ p.quoteScale \in 0..MaxScale
           /\ \A x : validatePrice(p, x) => x \in Nat /\ x > 0
           /\ p.maxQuantity \in Int
<1>1. p \in Precision /\ ValidPrecision(p)
    BY ContractAssumption
<1>2. Scales(p) \subseteq 0..MaxScale /\ p.minPrice > 0
    BY <1>1 DEF ValidPrecision
<1>3. p.minPrice \in Int /\ p.maxPrice \in Int /\ p.maxQuantity \in Int
    BY <1>1 DEF Precision
<1>4. \A x : validatePrice(p, x) => x \in p.minPrice..p.maxPrice
    BY DEF validatePrice
<1> QED BY <1>2, <1>3, <1>4 DEF Scales

\* Whatever is parsed is an int64, and so is the zero of a failure.
LEMMA ConversionRange ==
    ASSUME NEW s, NEW scale
    PROVE  ParseScaled(s, scale).value \in Int64
<1>1. PICK r : r = ParseScaled(s, scale)
    OBVIOUS
<1>2. 0 \in Int64
    BY DecimalAssumption DEF Int64
<1>3. r = Failed \/ \E x \in Int64 : r = Returned(x)
    BY <1>1 DEF ParseScaled
<1> QED BY <1>1, <1>2, <1>3 DEF Failed, Returned

\* A quote amount is the quotient, or there is none.
LEMMA QuoteIs ==
    ASSUME NEW p \in Contract, NEW x \in Nat, NEW a \in Nat, QuoteAmount(p, x, a).ok
    PROVE  QuoteAmount(p, x, a).value
               = (x * a * pow10(p.quoteScale)) \div pow10(p.priceScale + p.quantityScale)
<1>1. PICK y, r : /\ y = (x * a * pow10(p.quoteScale)) \div pow10(p.priceScale + p.quantityScale)
                  /\ r = QuoteAmount(p, x, a)
    OBVIOUS
<1>2. r = IF x >= 0 /\ a >= 0 /\ y \in Int64 THEN Returned(y) ELSE Failed
    BY <1>1 DEF QuoteAmount
<1>3. r.ok => r = Returned(y)
    BY <1>2 DEF Failed
<1> QED BY <1>1, <1>3 DEF Returned

-----------------------------------------------------------------------------
(* The steps                                                               *)

LEMMA InitHolds == Init => IInv
<1> SUFFICES ASSUME Init PROVE IInv
    OBVIOUS
<1>1. TypeInv
  <2>1. raw \in Seq(Char)
      BY TextAssumption, ClientText DEF Init
  <2>2. 0 \in Int64
      BY DecimalAssumption DEF Int64
  <2> QED BY <2>1, <2>2 DEF Init, TypeInv
<1> QED BY <1>1 DEF Init, IInv, Results, Travels, Fills

LEMMA CheckKeeps == IInv /\ Check => IInv'
<1> SUFFICES ASSUME IInv, Check PROVE IInv'
    OBVIOUS
<1>1. /\ step = "sent" /\ step' = (IF DecimalSign(raw).ok THEN "checked" ELSE "refused")
      /\ sign' = DecimalSign(raw).value
      /\ UNCHANGED <<precision, raw, price, written, amount, quote, stored>>
    BY DEF Check, fill
<1>2. TypeInv'
    BY <1>1 DEF IInv, TypeInv
<1>3. Results'
    BY <1>1 DEF Results, Conversion
<1>4. ASSUME NEW w \in written PROVE Own(w)'
  <2>1. Own(w)
      BY <1>4 DEF IInv, Travels
  <2>2. CASE w[2] = -MaxInt64 - 1
      BY <1>1, <2>1, <2>2 DEF Own
  <2>3. CASE w[2] # -MaxInt64 - 1
    <3>1. raw = FormatScaled(w[2], precision.priceScale) /\ w[2] \in Int64
        BY <1>1, <2>1, <2>3 DEF Own
    <3>2. precision.priceScale \in 0..MaxScale
        BY Contracts DEF IInv, TypeInv
    <3>3. DecimalSign(raw).ok
        BY <2>3, <3>1, <3>2, ShownReadsBack
    <3> QED BY <1>1, <2>1, <3>1, <3>3 DEF Own
  <2> QED BY <2>2, <2>3
<1>5. Travels'
    BY <1>1, <1>4 DEF Travels
<1>6. Fills'
    BY <1>1 DEF IInv, Fills, Exact, Kept
<1> QED BY <1>2, <1>3, <1>5, <1>6 DEF IInv

LEMMA ParseKeeps == IInv /\ Parse => IInv'
<1> SUFFICES ASSUME IInv, Parse PROVE IInv'
    OBVIOUS
<1>1. PICK parsed : parsed = ParseScaled(raw, precision.priceScale)
    OBVIOUS
<1>2. /\ step = "checked" /\ step' = (IF parsed.ok THEN "parsed" ELSE "refused")
      /\ price' = parsed.value
      /\ written' = (IF parsed.ok /\ written = {} THEN {<<raw, parsed.value>>} ELSE written)
      /\ UNCHANGED <<precision, raw, sign, amount, quote, stored>>
    BY <1>1 DEF Parse, fill
<1>3. parsed.value \in Int64
    BY <1>1, ConversionRange
<1>4. TypeInv'
    BY <1>2, <1>3 DEF IInv, TypeInv
<1>5. Results'
    BY <1>1, <1>2 DEF IInv, Results, Conversion
<1>6. ASSUME NEW w \in written PROVE Own(w)' /\ (w[2] # -MaxInt64 - 1 => parsed.ok /\ parsed.value = w[2])
  <2>1. Own(w)
      BY <1>6 DEF IInv, Travels
  <2>2. CASE w[2] = -MaxInt64 - 1
      BY <1>2, <2>1, <2>2 DEF Own
  <2>3. CASE w[2] # -MaxInt64 - 1
    <3>1. raw = FormatScaled(w[2], precision.priceScale) /\ w[2] \in Int64
        BY <1>2, <2>1, <2>3 DEF Own
    <3>2. precision.priceScale \in 0..MaxScale
        BY Contracts DEF IInv, TypeInv
    <3>3. parsed = Returned(w[2])
        BY <1>1, <2>3, <3>1, <3>2, ShownReadsBack
    <3>4. parsed.ok /\ parsed.value = w[2]
        BY <3>3 DEF Returned
    <3> QED BY <1>2, <2>1, <3>4 DEF Own
  <2> QED BY <2>2, <2>3
<1>7. Travels'
  <2>1. CASE parsed.ok /\ written = {}
    <3>1. PICK w : w = <<raw, parsed.value>>
        OBVIOUS
    <3>2. written' = {w} /\ step' = "parsed" /\ w[2] = parsed.value
        BY <1>2, <2>1, <3>1
    <3>3. w \in Seq(Char) \X Int64
        BY <1>3, <3>1 DEF IInv, TypeInv
    <3>4. Own(w)'
        BY <1>2, <3>2, <3>3 DEF Own
    <3> QED BY <3>2, <3>4 DEF Travels
  <2>2. CASE ~(parsed.ok /\ written = {})
    <3>1. written' = written
        BY <1>2, <2>2
    <3>2. step' = "parsed" => written # {}
        BY <1>2, <2>2
    <3> QED BY <1>6, <3>1, <3>2 DEF Travels
  <2> QED BY <2>1, <2>2
<1>8. Fills'
  <2>1. stored = {}
      BY <1>2 DEF IInv, Fills
  <2> QED BY <1>2, <2>1 DEF Fills
<1> QED BY <1>4, <1>5, <1>7, <1>8 DEF IInv

LEMMA ShowKeeps == IInv /\ (Show \/ SendBack) => IInv'
<1> SUFFICES ASSUME IInv, Show \/ SendBack PROVE IInv'
    OBVIOUS
<1>1. CASE Show
  <2>1. /\ step = "parsed" /\ step' = "shown" /\ raw' = FormatScaled(price, precision.priceScale)
        /\ UNCHANGED <<precision, price, sign, written, amount, quote, stored>>
      BY <1>1 DEF Show, fill
  <2>2. raw' \in Seq(Char)
    <3>1. precision.priceScale \in 0..MaxScale /\ price \in Int64
        BY Contracts DEF IInv, TypeInv
    <3> QED BY <2>1, <3>1, ShownReadsBack
  <2>3. TypeInv'
      BY <2>1, <2>2 DEF IInv, TypeInv
  <2>4. Results'
      BY <2>1 DEF Results
  <2>5. Travels'
    <3>1. ASSUME NEW w \in written PROVE Own(w)'
      <4>1. Own(w)
          BY <3>1 DEF IInv, Travels
      <4> QED BY <2>1, <4>1 DEF Own
    <3> QED BY <2>1, <3>1 DEF Travels
  <2>6. Fills'
    <3>1. stored = {}
        BY <2>1 DEF IInv, Fills
    <3> QED BY <2>1, <3>1 DEF Fills
  <2> QED BY <2>3, <2>4, <2>5, <2>6 DEF IInv
<1>2. CASE SendBack
  <2>1. /\ step = "shown" /\ step' = "sent"
        /\ UNCHANGED <<precision, price, raw, sign, written, amount, quote, stored>>
      BY <1>2 DEF SendBack, fill, text
  <2>2. TypeInv'
      BY <2>1 DEF IInv, TypeInv
  <2>3. Results'
      BY <2>1 DEF Results
  <2>4. Travels'
    <3>1. ASSUME NEW w \in written PROVE Own(w)'
      <4>1. Own(w)
          BY <3>1 DEF IInv, Travels
      <4> QED BY <2>1, <4>1 DEF Own
    <3> QED BY <2>1, <3>1 DEF Travels
  <2>5. Fills'
    <3>1. stored = {}
        BY <2>1 DEF IInv, Fills
    <3> QED BY <2>1, <3>1 DEF Fills
  <2> QED BY <2>2, <2>3, <2>4, <2>5 DEF IInv
<1> QED BY <1>1, <1>2

\* Once there is a fill its text is gone.
LEMMA FillKeeps == IInv /\ (Fill \/ newMatchLog \/ Save \/ Replay) => IInv'
<1> SUFFICES ASSUME IInv, Fill \/ newMatchLog \/ Save \/ Replay PROVE IInv'
    OBVIOUS
<1>1. CASE Fill
  <2>1. /\ step = "parsed" /\ validatePrice(precision, price)
        /\ amount' \in 1..precision.maxQuantity /\ step' = "matched"
        /\ raw' = << >> /\ written' = {}
        /\ UNCHANGED <<precision, price, quote, stored>>
      BY <1>1 DEF Fill
  <2>2. stored = {}
      BY <2>1 DEF IInv, Fills
  <2>3. TypeInv'
    <3>1. << >> \in Seq(Char)
        OBVIOUS
    <3> QED BY <2>1, <3>1 DEF IInv, TypeInv
  <2>4. Results' /\ Travels'
      BY <2>1 DEF Results, Travels
  <2>5. amount' \in Nat /\ amount' > 0
    <3>1. precision.maxQuantity \in Int
        BY Contracts DEF IInv, TypeInv
    <3> QED BY <2>1, <3>1
  <2>6. Fills'
      BY <2>1, <2>2, <2>5 DEF Fills
  <2> QED BY <2>3, <2>4, <2>6 DEF IInv
<1>2. CASE newMatchLog
  <2>1. /\ step = "matched" /\ quote' = Exact.value
        /\ step' = (IF Exact.ok THEN "logged" ELSE "halted")
        /\ UNCHANGED <<precision, price, raw, sign, written, amount, stored>>
      BY <1>2 DEF newMatchLog, Exact, text
  <2>2. Exact' = Exact /\ Kept' = Kept
      BY <2>1 DEF Exact, Kept
  <2>3. TypeInv'
      BY <2>1 DEF IInv, TypeInv
  <2>4. Results' /\ Travels'
    <3>1. ASSUME NEW w \in written PROVE Own(w)'
      <4>1. Own(w)
          BY <3>1 DEF IInv, Travels
      <4> QED BY <2>1, <4>1 DEF Own
    <3> QED BY <2>1, <3>1 DEF Results, Travels
  <2>5. Fills'
      BY <2>1, <2>2 DEF IInv, Fills
  <2> QED BY <2>3, <2>4, <2>5 DEF IInv
<1>3. CASE Save
  <2>1. /\ step = "logged" /\ UNCHANGED <<precision, price, raw, sign, written, amount, quote>>
        /\ IF StoredQuote.ok /\ (stored = {} \/ stored = {StoredQuote.value})
           THEN step' = "saved" /\ stored' = {StoredQuote.value}
           ELSE step' = "halted" /\ UNCHANGED stored
      BY <1>3 DEF Save, text
  <2>2. Exact' = Exact /\ Kept' = Kept
      BY <2>1 DEF Exact, Kept
  <2>3. StoredQuote = Kept /\ Exact.ok
      BY <2>1 DEF IInv, Fills, StoredQuote, Exact, Kept
  <2>4. TypeInv'
      BY <2>1 DEF IInv, TypeInv
  <2>5. Results' /\ Travels'
    <3>1. ASSUME NEW w \in written PROVE Own(w)'
      <4>1. Own(w)
          BY <3>1 DEF IInv, Travels
      <4> QED BY <2>1, <4>1 DEF Own
    <3> QED BY <2>1, <3>1 DEF Results, Travels
  <2>6. Fills'
    <3>1. stored # {} => Kept.ok /\ stored = {Kept.value}
        BY DEF IInv, Fills
    <3>2. validatePrice(precision, price) /\ amount \in Nat /\ amount > 0
        BY <2>1 DEF IInv, Fills
    <3> QED BY <2>1, <2>2, <2>3, <3>1, <3>2 DEF Fills
  <2> QED BY <2>4, <2>5, <2>6 DEF IInv
<1>4. CASE Replay
  <2>1. /\ step \in {"logged", "saved", "halted"} /\ step' = "matched"
        /\ UNCHANGED <<precision, price, raw, sign, written, amount, stored>>
      BY <1>4 DEF Replay, text
  <2>2. Exact' = Exact /\ Kept' = Kept
      BY <2>1 DEF Exact, Kept
  <2>3. TypeInv'
      BY <2>1 DEF IInv, TypeInv
  <2>4. Results' /\ Travels'
    <3>1. ASSUME NEW w \in written PROVE Own(w)'
      <4>1. Own(w)
          BY <3>1 DEF IInv, Travels
      <4> QED BY <2>1, <4>1 DEF Own
    <3> QED BY <2>1, <3>1 DEF Results, Travels
  <2>5. Fills'
      BY <2>1, <2>2 DEF IInv, Fills
  <2> QED BY <2>3, <2>4, <2>5 DEF IInv
<1> QED BY <1>1, <1>2, <1>3, <1>4

LEMMA StutterKeeps == IInv /\ UNCHANGED vars => IInv'
BY DEF IInv, TypeInv, Results, Travels, Own, Fills, Conversion, Exact, Kept, vars, text, fill

LEMMA Inductive == Spec => []IInv
<1>1. IInv /\ [Next]_vars => IInv'
    BY CheckKeeps, ParseKeeps, ShowKeeps, FillKeeps, StutterKeeps DEF Next
<1> QED BY <1>1, InitHolds, PTL DEF Spec

-----------------------------------------------------------------------------
(* The theorems                                                            *)

(***************************************************************************)
(* Whatever parseCreateOrder and parseEditOrder accept has been converted  *)
(* without losing a digit, under every scale a market may have.            *)
(***************************************************************************)
THEOREM NothingEverRounded == Spec => []NothingRounded
<1>1. IInv => NothingRounded
  <2> SUFFICES ASSUME IInv, step = "parsed"
               PROVE  price * pow10(Places(raw)) = Mantissa(raw) * pow10(precision.priceScale)
      BY DEF NothingRounded
  <2>1. PICK s, k, m : s = precision.priceScale /\ k = Places(raw) /\ m = Mantissa(raw)
      OBVIOUS
  <2>2. raw \in Seq(Char) /\ ParseScaled(raw, s).ok /\ price = ParseScaled(raw, s).value
      BY <2>1 DEF IInv, TypeInv, Results, Conversion
  <2>3. s \in 0..MaxScale /\ k \in 0..s /\ m \in Int /\ price = m * pow10(s - k)
      BY <2>1, <2>2, ParseExact
  <2>4. k \in Nat /\ s - k \in Nat /\ (s - k) + k = s
      BY <2>3, DecimalAssumption
  <2>5. PICK a, b, c : a = pow10(s - k) /\ b = pow10(k) /\ c = pow10(s)
      OBVIOUS
  <2>6. a \in Nat /\ b \in Nat
      BY <2>4, <2>5, Pow10Facts
  <2>7. c = a * b
    <3>1. pow10((s - k) + k) = pow10(s - k) * pow10(k)
        BY <2>4, Pow10Adds
    <3> QED BY <2>4, <2>5, <3>1
  <2>8. (m * a) * b = m * (a * b)
      BY <2>3, <2>6
  <2> QED BY <2>1, <2>3, <2>5, <2>7, <2>8
<1> QED BY <1>1, Inductive, PTL

(***************************************************************************)
(* The API's check of the sign, which is made on the text, agrees with the *)
(* number that the market's scale makes of it.                             *)
(***************************************************************************)
THEOREM SignAlwaysAgrees == Spec => []SignAgrees
<1>1. IInv => SignAgrees
  <2> SUFFICES ASSUME IInv, step = "parsed"
               PROVE  sign = (IF price > 0 THEN 1 ELSE IF price < 0 THEN -1 ELSE 0)
      BY DEF SignAgrees
  <2>1. PICK s : s = precision.priceScale
      OBVIOUS
  <2>2. /\ raw \in Seq(Char) /\ ParseScaled(raw, s).ok /\ price = ParseScaled(raw, s).value
        /\ DecimalSign(raw).ok /\ sign = DecimalSign(raw).value
      BY <2>1 DEF IInv, TypeInv, Results, Conversion
  <2> QED BY <2>2, SignIsOfValue
<1> QED BY <1>1, Inductive, PTL

(***************************************************************************)
(* The price of a level of an order book response can be sent back in any  *)
(* market.                                                                 *)
(***************************************************************************)
THEOREM ShownAlwaysMeansTheSame == Spec => []ShownMeansTheSame
<1>1. IInv => ShownMeansTheSame
    BY DEF IInv, Travels, Own, ShownMeansTheSame
<1> QED BY <1>1, Inductive, PTL

(***************************************************************************)
(* A fill that the store took once is taken again by every replay, also    *)
(* one of less than the market's minimum.                                  *)
(***************************************************************************)
THEOREM StoredFillsAlwaysReplay == Spec => []StoredFillsReplay
<1>1. IInv => StoredFillsReplay
    BY DEF IInv, Fills, StoredFillsReplay
<1> QED BY <1>1, Inductive, PTL

\* The scales for which the default that the store puts in the place of an
\* amount of zero is zero, too.
QuoteFineEnough ==
    precision.priceScale + precision.quantityScale <= precision.quoteScale + DefaultScale

(***************************************************************************)
(* newMatchLog's amount reaches the store rounded down and otherwise       *)
(* unchanged, in every market whose quote asset is fine enough and for     *)
(* every fill, one of less than the minimum of an order included.  In the  *)
(* other markets the store replaces an amount of zero by one at the        *)
(* default scales, which may not be zero.                                  *)
(***************************************************************************)
THEOREM QuotesRoundedDown == Spec => [](QuoteFineEnough => RoundedDown)
<1>1. IInv => (QuoteFineEnough => RoundedDown)
  <2> SUFFICES ASSUME IInv, QuoteFineEnough, NEW atoms \in stored
               PROVE  /\ atoms * pow10(precision.priceScale + precision.quantityScale)
                             <= price * amount * pow10(precision.quoteScale)
                      /\ price * amount * pow10(precision.quoteScale)
                             < (atoms + 1) * pow10(precision.priceScale + precision.quantityScale)
      BY DEF RoundedDown
  <2>1. PICK a, b, c, d : a = precision.priceScale /\ b = precision.quantityScale
                          /\ c = precision.quoteScale /\ d = DefaultScale
      OBVIOUS
  <2>2. precision \in Contract /\ a \in Nat /\ b \in Nat /\ c \in Nat /\ d \in Nat /\ a + b <= c + d
    <3>1. precision \in Contract
        BY DEF IInv, TypeInv
    <3>2. a \in 0..MaxScale /\ b \in 0..MaxScale /\ c \in 0..MaxScale
        BY <2>1, <3>1, Contracts
    <3> QED BY <2>1, <3>1, <3>2, DecimalAssumption DEF QuoteFineEnough
  <2>3. price \in Nat /\ amount \in Nat
    <3>1. validatePrice(precision, price) /\ amount \in Nat
        BY DEF IInv, Fills
    <3> QED BY <2>2, <3>1, Contracts
  <2>4. PICK x, base, quotient : /\ x = price * amount * pow10(c) /\ base = pow10(a + b)
                                 /\ quotient = x \div base
      OBVIOUS
  <2>5. x \in Nat /\ base \in Nat /\ base > 0
    <3>1. PICK e : e = pow10(c)
        OBVIOUS
    <3>2. e \in Nat
        BY <2>2, <3>1, Pow10Facts
    <3>3. price * amount \in Nat
        BY <2>3
    <3>4. x \in Nat
        BY <2>4, <3>1, <3>2, <3>3
    <3>5. a + b \in Nat
        BY <2>2
    <3> QED BY <2>4, <3>4, <3>5, Pow10Facts
  <2>6. quotient \in Nat /\ quotient * base <= x /\ x < (quotient + 1) * base
      BY <2>4, <2>5, Quotient
  <2>7. Exact.ok /\ Kept.ok /\ atoms = Kept.value
      BY DEF IInv, Fills
  <2>8. Exact.value = quotient
      BY <2>1, <2>2, <2>3, <2>4, <2>7, QuoteIs DEF Exact
  <2>9. atoms = quotient
    <3>1. CASE quotient # 0
        BY <2>7, <2>8, <3>1 DEF Kept, Returned
    <3>2. CASE quotient = 0
      <4>1. PICK y, e, f, g : y = price * amount /\ e = pow10(d) /\ f = pow10(c) /\ g = pow10(d + d)
          OBVIOUS
      <4>2. y \in Nat /\ e \in Nat /\ e > 0 /\ f \in Nat /\ f > 0
        <5>1. price * amount \in Nat
            BY <2>3
        <5> QED BY <2>2, <4>1, <5>1, Pow10Facts
      <4>3. x = y * f /\ x < base
          BY <2>4, <2>5, <2>6, <3>2, <4>1
      <4>4. base <= f * e
        <5>1. a + b \in Nat /\ c + d \in Nat
            BY <2>2
        <5>2. pow10(a + b) <= pow10(c + d) /\ pow10(c + d) = pow10(c) * pow10(d)
            BY <2>2, <5>1, Pow10Grows, Pow10Adds
        <5> QED BY <2>4, <4>1, <5>2
      <4>5. y < e
        <5>1. ASSUME y >= e PROVE FALSE
          <6>1. e * f <= y * f
              BY <4>2, <5>1
          <6>2. e * f = f * e /\ e * f \in Int /\ y * f \in Int
              BY <4>2
          <6> QED BY <2>5, <4>3, <4>4, <6>1, <6>2
        <5> QED BY <4>2, <5>1
      <4>6. g = e * e /\ g \in Nat /\ g > 0
        <5>1. d + d \in Nat
            BY <2>2
        <5> QED BY <2>2, <4>1, <5>1, Pow10Adds, Pow10Facts
      <4>7. y * e < g
        <5>1. (y + 1) * e <= e * e
            BY <4>2, <4>5
        <5>2. (y + 1) * e = y * e + e /\ y * e \in Int /\ e * e \in Int
            BY <4>2
        <5> QED BY <4>2, <4>6, <5>1, <5>2
      <4>8. (y * e) \div g = 0
        <5>1. PICK h : h = y * e
            OBVIOUS
        <5>2. h \in Nat
            BY <4>2, <5>1
        <5>3. h < g
            BY <4>7, <5>1
        <5> QED BY <4>6, <5>1, <5>2, <5>3
      <4>9. Kept = QuoteAmount(DefaultPrecision, price, amount)
          BY <2>8, <3>2 DEF Kept
      <4>10. Kept = IF price >= 0 /\ amount >= 0 /\ (y * e) \div g \in Int64
                    THEN Returned((y * e) \div g) ELSE Failed
        <5>1. /\ DefaultPrecision.priceScale = d /\ DefaultPrecision.quantityScale = d
              /\ DefaultPrecision.quoteScale = d
            BY <2>1 DEF DefaultPrecision
        <5> QED BY <4>1, <4>9, <5>1 DEF QuoteAmount
      <4>11. Kept = Returned(0)
          BY <2>7, <4>8, <4>10 DEF Failed
      <4> QED BY <2>7, <3>2, <4>11 DEF Returned
    <3> QED BY <3>1, <3>2
  <2> QED BY <2>1, <2>4, <2>6, <2>9
<1> QED BY <1>1, Inductive, PTL

=============================================================================
