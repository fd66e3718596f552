------------------------------ MODULE Decimal ------------------------------
(***************************************************************************)
(* internal/numeric/numeric.go: decimal strings, the integer units they    *)
(* are converted to, and the numeric contract of a market.                 *)
(*                                                                         *)
(* A string is a sequence of characters.  A Go (value, error) pair is a    *)
(* record with ok = FALSE for an error.                                    *)
(***************************************************************************)
EXTENDS Integers, Sequences, FiniteSets, SequencesExt

CONSTANTS
    MaxInt64,     \* math.MaxInt64
    MaxScale,     \* the largest scale that is supported: 18
    DefaultScale  \* DefaultPriceScale, DefaultQuantityScale, DefaultQuoteScale: 8

ASSUME DecimalAssumption ==
    /\ MaxInt64 \in Nat \ {0}
    /\ MaxScale \in Nat
    /\ DefaultScale \in 0..MaxScale

Int64 == -MaxInt64 - 1..MaxInt64

Digits == <<"0", "1", "2", "3", "4", "5", "6", "7", "8", "9">>

Digit == ToSet(Digits)

DigitValue == [c \in Digit |-> (CHOOSE i \in 1..10 : Digits[i] = c) - 1]

Failed == [ok |-> FALSE, value |-> 0]

Returned(v) == [ok |-> TRUE, value |-> v]

pow10(scale) ==
    LET power[n \in 0..scale] == IF n = 0 THEN 1 ELSE 10 * power[n - 1]
    IN  power[scale]

allDigits(s) == ToSet(s) \subseteq Digit

Number(s) ==
    LET number[i \in 0..Len(s)] == IF i = 0 THEN 0 ELSE 10 * number[i - 1] + DigitValue[s[i]]
    IN  number[Len(s)]

\* s without the characters of cut at its ends.
Trim(s, cut) ==
    LET kept == {i \in DOMAIN s : s[i] \notin cut}
    IN  IF kept = {} THEN <<>>
        ELSE SubSeq(s, CHOOSE i \in kept : \A j \in kept : i <= j,
                       CHOOSE i \in kept : \A j \in kept : i >= j)

TrimSpace(s) == Trim(s, {" "})

Signed(s) == s # <<>> /\ s[1] \in {"+", "-"}

Unsigned(s) == IF Signed(s) THEN Tail(s) ELSE s

SignOf(s) == IF s # <<>> /\ s[1] = "-" THEN -1 ELSE 1

\* strings.Split at the points.
Parts(s) ==
    LET points == {i \in DOMAIN s : s[i] = "."}
        p == CHOOSE i \in points : TRUE
    IN  CASE points = {} -> <<s>>
          [] Cardinality(points) = 1 -> <<SubSeq(s, 1, p - 1), SubSeq(s, p + 1, Len(s))>>
          [] OTHER -> [i \in 1..Cardinality(points) + 1 |-> <<>>]

-----------------------------------------------------------------------------

\* Mutant: the digits that do not fit the scale are cut off.
ParseTruncating(raw, scale) ==
    LET value == TrimSpace(raw)
        parts == Parts(Unsigned(value))
        fraction == IF Len(parts) = 2 THEN SubSeq(parts[2], 1, IF Len(parts[2]) < scale THEN Len(parts[2]) ELSE scale)
                    ELSE <<>>
    IN  IF /\ "e" \notin ToSet(value) /\ Len(parts) <= 2 /\ parts[1] \o fraction # <<>>
           /\ allDigits(parts[1]) /\ allDigits(fraction)
        THEN Returned(SignOf(value) * Number(parts[1] \o fraction) * pow10(scale - Len(fraction)))
        ELSE Failed

ParseScaled(raw, scale) ==
    LET value == TrimSpace(raw)
        parts == Parts(Unsigned(value))
        fraction == IF Len(parts) = 2 THEN parts[2] ELSE <<>>
        scaled == SignOf(value) * Number(parts[1] \o fraction) * pow10(scale - Len(fraction))
    IN  IF /\ scale \in 0..MaxScale
           /\ value # <<>> /\ {"e", "E"} \cap ToSet(value) = {}
           /\ Len(parts) <= 2
           /\ allDigits(fraction)
           /\ parts[1] # <<>> \/ fraction # <<>>
           /\ allDigits(parts[1])
           /\ Len(fraction) <= scale
           /\ scaled \in Int64
        THEN Returned(scaled)
        ELSE Failed

\* Mutant: only the zeros before the point are trimmed.
SignOfInteger(raw) ==
    LET value == TrimSpace(raw)
        parts == Parts(Unsigned(value))
    IN  IF "e" \in ToSet(value) \/ Len(parts) > 2 \/ \E i \in DOMAIN parts : ~allDigits(parts[i]) THEN Failed
        ELSE IF Trim(parts[1], {"0"}) = <<>> THEN Returned(0) ELSE Returned(SignOf(value))

DecimalSign(raw) ==
    LET value == TrimSpace(raw)
        digits == Unsigned(value)
        parts == Parts(digits)
    IN  CASE value = <<>> \/ {"e", "E"} \cap ToSet(value) # {} -> Failed
          [] digits = <<>> \/ Len(parts) > 2 -> Failed
          [] parts[1] = <<>> /\ (Len(parts) = 1 \/ parts[2] = <<>>) -> Failed
          [] \E i \in DOMAIN parts : ~allDigits(parts[i]) -> Failed
          [] Trim(digits, {"0", "."}) = <<>> -> Returned(0)
          [] OTHER -> Returned(SignOf(value))

IsPositiveDecimal(raw) == DecimalSign(raw).ok /\ DecimalSign(raw).value > 0

\* strconv.FormatInt.
FormatInt(n) ==
    LET m == IF n < 0 THEN -n ELSE n
        places == CHOOSE k \in 1..MaxInt64 : m < pow10(k) /\ (k = 1 \/ m >= pow10(k - 1))
        text == [i \in 1..places |-> Digits[1 + ((m \div pow10(places - i)) % 10)]]
    IN  IF n < 0 THEN <<"-">> \o text ELSE text

Zeros(n) == [i \in 1..n |-> "0"]

\* -value, of an int64.
Negated(v) == IF v = -MaxInt64 - 1 THEN v ELSE -v

\* Mutant: a value of exactly scale digits gets no zero before the point.
FormatShort(v, scale) ==
    LET digits == FormatInt(v)
        padded == IF Len(digits) < scale THEN Zeros(scale - Len(digits)) \o digits ELSE digits
        point == Len(padded) - scale
    IN  IF scale <= 0 THEN FormatInt(v)
        ELSE SubSeq(padded, 1, point) \o <<".">> \o SubSeq(padded, point + 1, Len(padded))

FormatScaled(v, scale) ==
    LET digits == FormatInt(IF v < 0 THEN Negated(v) ELSE v)
        padded == IF Len(digits) <= scale THEN Zeros(scale + 1 - Len(digits)) \o digits ELSE digits
        point == Len(padded) - scale
        nonzero == {i \in point + 1..Len(padded) : padded[i] # "0"}
        last == CHOOSE i \in nonzero : \A j \in nonzero : i >= j
        text == IF nonzero = {} THEN SubSeq(padded, 1, point)
                ELSE SubSeq(padded, 1, point) \o <<".">> \o SubSeq(padded, point + 1, last)
    IN  CASE scale <= 0 -> FormatInt(v)
          [] scale > 0 /\ v < 0 /\ text # <<"0">> -> <<"-">> \o text
          [] OTHER -> text

-----------------------------------------------------------------------------
(* The numeric contract of a market                                        *)

DefaultPrecision == [
    priceScale |-> DefaultScale, quantityScale |-> DefaultScale, quoteScale |-> DefaultScale,
    tickSize |-> 1, lotSize |-> 1,
    minPrice |-> 1, maxPrice |-> MaxInt64, minQuantity |-> 1, maxQuantity |-> MaxInt64,
    version |-> 1]

\* The rules for the numbers of a market.
Precision == [
    priceScale : Int, quantityScale : Int, quoteScale : Int, tickSize : Int, lotSize : Int,
    minPrice : Int, maxPrice : Int, minQuantity : Int, maxQuantity : Int, version : Int]

Scales(p) == {p.priceScale, p.quantityScale, p.quoteScale}

WithDefaults(p) ==
    IF Scales(p) \cup {p.tickSize, p.lotSize, p.version} = {0} THEN DefaultPrecision
    ELSE [f \in DOMAIN p |-> IF p[f] = 0 /\ f \notin {"priceScale", "quantityScale", "quoteScale"}
                             THEN DefaultPrecision[f] ELSE p[f]]

ValidPrecision(p) ==
    /\ Scales(p) \subseteq 0..MaxScale
    /\ p.tickSize > 0 /\ p.lotSize > 0
    /\ p.minPrice > 0 /\ p.maxPrice >= p.minPrice
    /\ p.minQuantity > 0 /\ p.maxQuantity >= p.minQuantity
    /\ p.version > 0

validatePrice(p, price) == price \in p.minPrice..p.maxPrice /\ price % p.tickSize = 0

validateQuantity(p, quantity) ==
    quantity \in p.minQuantity..p.maxQuantity /\ quantity % p.lotSize = 0

ParsePrice(p, raw) ==
    LET parsed == ParseScaled(raw, p.priceScale)
    IN  IF parsed.ok /\ validatePrice(p, parsed.value) THEN parsed ELSE Failed

ParseQuantity(p, raw) ==
    LET parsed == ParseScaled(raw, p.quantityScale)
    IN  IF parsed.ok /\ validateQuantity(p, parsed.value) THEN parsed ELSE Failed

\* Mutant: the quotient is rounded up.
QuoteRoundedUp(p, price, quantity) ==
    LET base == pow10(p.priceScale + p.quantityScale)
    IN  Returned((price * quantity * pow10(p.quoteScale) + base - 1) \div base)

QuoteAmount(p, price, quantity) ==
    LET quotient == (price * quantity * pow10(p.quoteScale)) \div pow10(p.priceScale + p.quantityScale)
    IN  IF price >= 0 /\ quantity >= 0 /\ quotient \in Int64 THEN Returned(quotient) ELSE Failed

-----------------------------------------------------------------------------
(* What a text says, for the properties: all of its digits, whether there  *)
(* is a minus, and how many of the digits come after a point.              *)

Mantissa(raw) ==
    LET read[i \in 0..Len(raw)] ==
            IF i = 0 THEN 0
            ELSE IF raw[i] \in Digit THEN 10 * read[i - 1] + DigitValue[raw[i]]
            ELSE read[i - 1]
    IN  (IF Contains(raw, "-") THEN -1 ELSE 1) * read[Len(raw)]

Places(raw) ==
    Cardinality({i \in DOMAIN raw : raw[i] \in Digit /\ \E j \in 1..i - 1 : raw[j] = "."})

=============================================================================
