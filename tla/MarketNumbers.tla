---------------------------- MODULE MarketNumbers ----------------------------
(***************************************************************************)
(* The life of a price.  A client's string is checked before the market is *)
(* known (DecimalSign), converted under the market's scale (ParseScaled),  *)
(* shown in an order book response (FormatScaled), and may be sent back as *)
(* it was shown.  An order with that price is filled: newMatchLog computes *)
(* the quote amount, the match log store writes it, and every replay       *)
(* computes and writes it again.                                           *)
(***************************************************************************)
EXTENDS Decimal

CONSTANTS
    Contract,  \* the precisions a market may have
    RawText    \* the strings a client may send

ASSUME ContractAssumption == \A p \in Contract : p \in Precision /\ ValidPrecision(p)

ASSUME TextAssumption == \A t \in RawText : t \in Seq(STRING)

VARIABLES
    precision,  \* of the market
    raw,        \* the string on its way to or from the client
    step,       \* what has happened to it last
    sign,       \* what DecimalSign said
    price,      \* what ParseScaled returned
    written,    \* the client's own string and its value, once one was accepted
    amount,     \* of the fill
    quote,      \* MatchLog.QuoteAmount
    stored      \* quote_amount_atoms of the execution's row, {} if there is none

text == <<raw, sign, written>>
fill == <<amount, quote, stored>>
vars == <<precision, price, step, text, fill>>

Init ==
    /\ precision \in Contract
    /\ raw \in RawText
    /\ step = "sent" /\ sign = 0 /\ price = 0 /\ written = {}
    /\ amount = 0 /\ quote = 0 /\ stored = {}

-----------------------------------------------------------------------------
(* The API boundary                                                        *)

\* validRawCreateOrder and validRawEditOrder look at the sign alone.
Check ==
    /\ step = "sent"
    /\ step' = (IF DecimalSign(raw).ok THEN "checked" ELSE "refused")
    /\ sign' = DecimalSign(raw).value
    /\ UNCHANGED <<precision, raw, price, written, fill>>

\* parseCreateOrder and parseEditOrder.
Parse ==
    /\ step = "checked"
    /\ LET parsed == ParseScaled(raw, precision.priceScale) IN
          /\ step' = (IF parsed.ok THEN "parsed" ELSE "refused")
          /\ price' = parsed.value
          /\ written' = (IF parsed.ok /\ written = {} THEN {<<raw, parsed.value>>} ELSE written)
    /\ UNCHANGED <<precision, raw, sign, fill>>

\* formatLevels.
Show ==
    /\ step = "parsed" /\ step' = "shown"
    /\ raw' = FormatScaled(price, precision.priceScale)
    /\ UNCHANGED <<precision, price, sign, written, fill>>

SendBack ==
    /\ step = "shown" /\ step' = "sent"
    /\ UNCHANGED <<precision, price, text, fill>>

-----------------------------------------------------------------------------
(* Fills                                                                   *)

\* An order with this price meets another, and the smaller of what is left of
\* both is traded: whole lots and at most the maximum of an order, but possibly
\* less than its minimum.  How the price was written is forgotten.
Fill ==
    /\ step = "parsed" /\ validatePrice(precision, price)
    /\ \E a \in 1..precision.maxQuantity : a % precision.lotSize = 0 /\ amount' = a
    /\ step' = "matched"
    /\ raw' = << >> /\ sign' = 0 /\ written' = {}
    /\ UNCHANGED <<precision, price, quote, stored>>

newMatchLog ==
    /\ step = "matched"
    /\ quote' = QuoteAmount(precision, price, amount).value
    /\ step' = (IF QuoteAmount(precision, price, amount).ok THEN "logged" ELSE "halted")
    /\ UNCHANGED <<precision, price, text, amount, stored>>

\* params of the store: an amount of zero is taken to be missing.
StoredQuote == IF quote = 0 THEN QuoteAmount(DefaultPrecision, price, amount) ELSE Returned(quote)

\* Mutant: an execution that is there already is a conflict, whatever it says.
SaveOnce ==
    /\ step = "logged"
    /\ IF StoredQuote.ok /\ stored = {}
       THEN step' = "saved" /\ stored' = {StoredQuote.value}
       ELSE step' = "halted" /\ UNCHANGED stored
    /\ UNCHANGED <<precision, price, text, amount, quote>>

\* SaveMatchLogs: the row is inserted, or the payload of the one there agrees.
Save ==
    /\ step = "logged"
    /\ IF StoredQuote.ok /\ (stored = {} \/ stored = {StoredQuote.value})
       THEN step' = "saved" /\ stored' = {StoredQuote.value}
       ELSE step' = "halted" /\ UNCHANGED stored
    /\ UNCHANGED <<precision, price, text, amount, quote>>

\* A restart replays the command.
Replay ==
    /\ step \in {"logged", "saved", "halted"} /\ step' = "matched" /\ quote' = 0
    /\ UNCHANGED <<precision, price, text, amount, stored>>

Next ==
    \/ Check \/ Parse \/ Show \/ SendBack
    \/ Fill \/ newMatchLog \/ Save \/ Replay

Spec == Init /\ [][Next]_vars

-----------------------------------------------------------------------------
(* Properties                                                              *)

(***************************************************************************)
(* What is accepted is exactly what was written: s * 10^scale, with no     *)
(* digit rounded or lost.  s is taken as an integer over a power of ten.   *)
(***************************************************************************)
NothingRounded ==
    step = "parsed" => price * pow10(Places(raw)) = Mantissa(raw) * pow10(precision.priceScale)

(***************************************************************************)
(* The check made before the market is known agrees with the conversion    *)
(* made after: a request let through as positive never turns out to be     *)
(* zero or negative.                                                       *)
(***************************************************************************)
SignAgrees ==
    step = "parsed" => sign = (IF price > 0 THEN 1 ELSE IF price < 0 THEN -1 ELSE 0)

(***************************************************************************)
(* A price as an order book response shows it can be sent back: neither    *)
(* DecimalSign nor ParseScaled refuses it, and it means what it meant,     *)
(* whatever string it came from.  -MaxInt64 - 1 is the one exception, and  *)
(* no level can have that price.  This is about prices: the quantity of a  *)
(* level is a total of residuals, and one below the minimum or above the   *)
(* maximum of an order is refused by ParseQuantity.                        *)
(***************************************************************************)
ShownMeansTheSame ==
    \A w \in written : w[2] # -MaxInt64 - 1 =>
        /\ step # "refused"
        /\ step = "parsed" => price = w[2]

(***************************************************************************)
(* The stored amount is price times quantity rounded down at the quote     *)
(* scale, the largest number of atoms not above it, however little of an   *)
(* order is traded.                                                        *)
(***************************************************************************)
RoundedDown ==
    \A atoms \in stored :
        LET exact == price * amount * pow10(precision.quoteScale)
            base == pow10(precision.priceScale + precision.quantityScale)
        IN  atoms * base <= exact /\ exact < (atoms + 1) * base

(***************************************************************************)
(* A fill that was stored once never halts a replay.                       *)
(***************************************************************************)
StoredFillsReplay == stored # {} => step # "halted"

=============================================================================
