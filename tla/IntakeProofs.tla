----------------------------- MODULE IntakeProofs -----------------------------
(***************************************************************************)
(* The properties of Intake, for every set of requests, every history of a *)
(* market's contract and every number of digits.                           *)
(*                                                                         *)
(* Each row of the journal comes from a request, and is the command that   *)
(* the request becomes under the contract whose version the row carries.   *)
(* A request becomes one command under a contract, and two requests become *)
(* the same command only if they mean the same.                            *)
(***************************************************************************)
EXTENDS Intake, DecimalProofs

\* A text of strings is a text.
LEMMA JSONText ==
    ASSUME NEW s, IsDecimalText(s)
    PROVE  s \in Seq(Char)
<1>1. PICK n : n = Len(s)
    OBVIOUS
<1>2. s \in Seq(STRING) /\ n \in Nat /\ DOMAIN s = 1..n /\ \A i \in 1..n : s[i] \in STRING
    BY <1>1 DEF IsDecimalText
<1>3. \A i \in 1..n : s[i] \in Char
    BY <1>2 DEF Char
<1>4. s \in [1..n -> Char]
    BY <1>1, <1>2, <1>3
<1> QED BY <1>2, <1>4, SeqDef

-----------------------------------------------------------------------------
(* Units                                                                   *)

\* v units of a scale are the number that is written.
Units(v, s, scale) == v \in Int /\ v * pow10(MaxScale - scale) = Written(s)

LEMMA ParsedUnits ==
    ASSUME NEW s, IsDecimalText(s), NEW scale, ParseScaled(s, scale).ok
    PROVE  Units(ParseScaled(s, scale).value, s, scale)
<1>1. PICK v, k, m : v = ParseScaled(s, scale).value /\ k = Places(s) /\ m = Mantissa(s)
    OBVIOUS
<1>2. s \in Seq(Char)
    BY JSONText
<1>3. scale \in 0..MaxScale /\ k \in 0..scale /\ m \in Int /\ v \in Int64 /\ v = m * pow10(scale - k)
    BY <1>1, <1>2, ParseExact
<1>4. scale - k \in Nat /\ MaxScale - scale \in Nat /\ (scale - k) + (MaxScale - scale) = MaxScale - k
    BY <1>3, DecimalAssumption
<1>5. PICK a, b, c : a = pow10(scale - k) /\ b = pow10(MaxScale - scale) /\ c = pow10(MaxScale - k)
    OBVIOUS
<1>6. a \in Nat /\ b \in Nat
    BY <1>4, <1>5, Pow10Facts
<1>7. c = a * b
  <2>1. pow10((scale - k) + (MaxScale - scale)) = pow10(scale - k) * pow10(MaxScale - scale)
      BY <1>4, Pow10Adds
  <2> QED BY <1>4, <1>5, <2>1
<1>8. (m * a) * b = m * (a * b)
    BY <1>3, <1>6
<1>9. v * b = m * c
    BY <1>3, <1>5, <1>7, <1>8
<1>10. v \in Int
    BY <1>3 DEF Int64
<1> QED BY <1>1, <1>5, <1>9, <1>10 DEF Units, Written

\* No text stands for nothing.
LEMMA NothingWritten == Written(<< >>) = 0
<1>1. PICK s : s = << >>
    OBVIOUS
<1>2. s \in Seq(Char) /\ Len(s) = 0
    BY <1>1
<1>3. PICK f : f \in [0..0 -> Int] /\ Reads(f, s, 0)
    BY ReadsExist
<1>4. Mantissa(s) = (IF Contains(s, "-") THEN -1 ELSE 1) * f[0] /\ f[0] = 0
    BY <1>2, <1>3, MantissaIs DEF Reads
<1>5. Mantissa(s) = 0
    BY <1>4
<1>6. Places(s) = 0
  <2>1. DOMAIN s = {}
      BY <1>1
  <2>2. {i \in DOMAIN s : s[i] \in Digit /\ \E j \in 1..i - 1 : s[j] = "."} = {}
      BY <2>1
  <2> QED BY <2>2, FS_EmptySet DEF Places
<1>7. PICK b : b = pow10(MaxScale - 0)
    OBVIOUS
<1>8. b \in Nat
  <2>1. MaxScale - 0 \in Nat
      BY DecimalAssumption
  <2> QED BY <1>7, <2>1, Pow10Facts
<1>9. 0 * b = 0
    BY <1>8
<1> QED BY <1>1, <1>5, <1>6, <1>7, <1>9 DEF Written

\* A number has one number of units.
LEMMA UnitsAgree ==
    ASSUME NEW scale \in 0..MaxScale, NEW s, NEW v, Units(v, s, scale), NEW t, NEW w, Units(w, t, scale)
    PROVE  v = w <=> Written(s) = Written(t)
<1>1. PICK b : b = pow10(MaxScale - scale)
    OBVIOUS
<1>2. b \in Nat /\ b > 0
  <2>1. MaxScale - scale \in Nat
      BY DecimalAssumption
  <2> QED BY <1>1, <2>1, Pow10Facts
<1>3. v \in Int /\ w \in Int /\ v * b = Written(s) /\ w * b = Written(t)
    BY <1>1 DEF Units
<1>4. v * b = w * b => v = w
  <2>1. v < w => v * b < w * b
      BY <1>2, <1>3
  <2>2. w < v => w * b < v * b
      BY <1>2, <1>3
  <2>3. v * b \in Int /\ w * b \in Int
      BY <1>2, <1>3
  <2> QED BY <1>3, <2>1, <2>2, <2>3
<1> QED BY <1>3, <1>4

\* The same of sets, an amendment's amount if any.
SetUnits(V, S, scale) ==
    /\ \A v \in V : \E s \in S : Units(v, s, scale)
    /\ \A s \in S : \E v \in V : Units(v, s, scale)

SetWritten(S) == {Written(s) : s \in S}

SetScaled(V, scale) == {v * pow10(MaxScale - scale) : v \in V}

LEMMA SetUnitsAgree ==
    ASSUME NEW scale \in 0..MaxScale, NEW S, NEW V, SetUnits(V, S, scale),
           NEW T, NEW W, SetUnits(W, T, scale)
    PROVE  V = W <=> SetWritten(S) = SetWritten(T)
<1>1. ASSUME V = W PROVE SetWritten(S) \subseteq SetWritten(T)
  <2> SUFFICES ASSUME NEW s \in S PROVE \E t \in T : Written(t) = Written(s)
      BY DEF SetWritten
  <2>1. PICK v \in V : Units(v, s, scale)
      BY DEF SetUnits
  <2>2. PICK t \in T : Units(v, t, scale)
      BY <1>1 DEF SetUnits
  <2> QED BY <2>1, <2>2 DEF Units
<1>2. ASSUME V = W PROVE SetWritten(T) \subseteq SetWritten(S)
  <2> SUFFICES ASSUME NEW t \in T PROVE \E s \in S : Written(s) = Written(t)
      BY DEF SetWritten
  <2>1. PICK v \in W : Units(v, t, scale)
      BY DEF SetUnits
  <2>2. PICK s \in S : Units(v, s, scale)
      BY <1>2 DEF SetUnits
  <2> QED BY <2>1, <2>2 DEF Units
<1>3. ASSUME SetWritten(S) = SetWritten(T), NEW v \in V PROVE v \in W
  <2>1. PICK s \in S : Units(v, s, scale)
      BY DEF SetUnits
  <2>2. PICK t \in T : Written(t) = Written(s)
      BY <1>3, <2>1 DEF SetWritten
  <2>3. PICK w \in W : Units(w, t, scale)
      BY DEF SetUnits
  <2> QED BY <2>1, <2>2, <2>3, UnitsAgree
<1>4. ASSUME SetWritten(S) = SetWritten(T), NEW w \in W PROVE w \in V
  <2>1. PICK t \in T : Units(w, t, scale)
      BY DEF SetUnits
  <2>2. PICK s \in S : Written(s) = Written(t)
      BY <1>4, <2>1 DEF SetWritten
  <2>3. PICK v \in V : Units(v, s, scale)
      BY DEF SetUnits
  <2> QED BY <2>1, <2>2, <2>3, UnitsAgree
<1> QED BY <1>1, <1>2, <1>3, <1>4

LEMMA SetUnitsScaled ==
    ASSUME NEW scale, NEW S, NEW V, SetUnits(V, S, scale)
    PROVE  SetScaled(V, scale) = SetWritten(S)
BY DEF SetUnits, SetScaled, SetWritten, Units

-----------------------------------------------------------------------------
(* From a request to its command                                           *)

\* A version of the market's contract.
IsContract(p) ==
    /\ p \in Precision /\ ValidPrecision(p)
    /\ p.priceScale \in 0..MaxScale /\ p.quantityScale \in 0..MaxScale
    /\ p.version \in Nat \ {0}

CreateCommand(o, price, amount) ==
    [kind |-> "CREATE", id |-> o.id, ticker |-> Ticker, user |-> o.user,
     type |-> o.type, side |-> o.side, price |-> price, amount |-> amount, nonce |-> o.nonce]

AmendCommand(o, price, amount) ==
    [kind |-> "AMEND", id |-> o.id, ticker |-> Ticker, order |-> o.order, price |-> price, amount |-> amount]

CancelCommand(o) == [kind |-> "CANCEL", id |-> o.id, ticker |-> Ticker, order |-> o.order]

CreateOf(o, p, price, amount) ==
    /\ ~Blank(o.user) /\ o.side \in {"BID", "ASK"}
    /\ Units(price, o.price, p.priceScale)
    /\ \/ o.type = "LIMIT" /\ price > 0 /\ validatePrice(p, price)
       \/ o.type = "MARKET" /\ price = 0
    /\ Units(amount, o.amount, p.quantityScale) /\ amount > 0 /\ validateQuantity(p, amount)

AmendOf(o, p, price, amount) ==
    /\ ~Blank(o.order)
    /\ Units(price, o.price, p.priceScale) /\ price > 0 /\ validatePrice(p, price)
    /\ SetUnits(amount, o.amount, p.quantityScale)
    /\ \A a \in amount : a > 0 /\ validateQuantity(p, a)

\* Under the contract p the request o is the command c.
Becomes(o, c, p) ==
    /\ ~Blank(o.id) /\ ~Blank(Ticker)
    /\ \/ /\ o.kind = "CREATE"
          /\ \E price, amount : CreateOf(o, p, price, amount) /\ c = CreateCommand(o, price, amount)
       \/ /\ o.kind = "AMEND"
          /\ \E price, amount : AmendOf(o, p, price, amount) /\ c = AmendCommand(o, price, amount)
       \/ o.kind = "CANCEL" /\ ~Blank(o.order) /\ c = CancelCommand(o)

\* A text without its spaces is the name it has.
LEMMA Trimming ==
    ASSUME NEW t, IsText(t)
    PROVE  TrimText(t).name = t.name
BY DEF IsText, TrimText

LEMMA CreateBecomes ==
    ASSUME NEW r \in Request, r.kind = "CREATE", IsContract(precision), validRawCreateOrder(r),
           TrimText(r.ticker) = Ticker, NEW c \in parseCreateOrder(r)
    PROVE  Becomes(r, c, precision)
<1>1. PICK price, amount : /\ price = (IF r.price = <<>> THEN Returned(0)
                                       ELSE ParseScaled(r.price, precision.priceScale))
                           /\ amount = ParseQuantity(precision, r.amount)
    OBVIOUS
<1>2. /\ price.ok /\ (r.type = "LIMIT" => price.value > 0 /\ validatePrice(precision, price.value))
      /\ r.type = "MARKET" => price.value = 0
      /\ amount.ok /\ amount.value > 0
    BY <1>1 DEF parseCreateOrder
<1>3. c = [kind |-> "CREATE", id |-> r.id, ticker |-> TrimText(r.ticker), user |-> r.user,
           type |-> r.type, side |-> r.side, price |-> price.value, amount |-> amount.value,
           nonce |-> r.nonce]
    BY <1>1, <1>2 DEF parseCreateOrder
<1>4. c = CreateCommand(r, price.value, amount.value)
    BY <1>3 DEF CreateCommand
<1>5. Units(price.value, r.price, precision.priceScale)
  <2>1. CASE r.price = <<>>
    <3>1. price.value = 0
        BY <1>1, <2>1 DEF Returned
    <3>2. PICK b : b = pow10(MaxScale - precision.priceScale)
        OBVIOUS
    <3>3. b \in Nat
      <4>1. MaxScale - precision.priceScale \in Nat
          BY DecimalAssumption DEF IsContract
      <4> QED BY <3>2, <4>1, Pow10Facts
    <3>4. 0 * b = 0
        BY <3>3
    <3> QED BY <2>1, <3>1, <3>2, <3>4, NothingWritten DEF Units
  <2>2. CASE r.price # <<>>
    <3>1. IsDecimalText(r.price)
        BY IntakeAssumption
    <3> QED BY <1>1, <1>2, <2>2, <3>1, ParsedUnits
  <2> QED BY <2>1, <2>2
<1>6. Units(amount.value, r.amount, precision.quantityScale) /\ validateQuantity(precision, amount.value)
  <2>1. PICK parsed : parsed = ParseScaled(r.amount, precision.quantityScale)
      OBVIOUS
  <2>2. amount = parsed /\ parsed.ok /\ validateQuantity(precision, parsed.value)
      BY <1>1, <1>2, <2>1 DEF ParseQuantity, Failed
  <2>3. IsDecimalText(r.amount)
      BY IntakeAssumption
  <2> QED BY <2>1, <2>2, <2>3, ParsedUnits
<1>7. r.type \in {"LIMIT", "MARKET"} /\ r.side \in {"BID", "ASK"} /\ ~Blank(r.user)
    BY DEF validRawCreateOrder
<1>8. ~Blank(r.id) /\ ~Blank(Ticker)
  <2>1. IsText(r.ticker)
      BY IntakeAssumption
  <2> QED BY <2>1, Trimming DEF validRawCreateOrder, Blank
<1>9. CreateOf(r, precision, price.value, amount.value)
    BY <1>2, <1>5, <1>6, <1>7 DEF CreateOf
<1> QED BY <1>4, <1>8, <1>9 DEF Becomes

LEMMA AmendBecomes ==
    ASSUME NEW r \in Request, r.kind = "AMEND", IsContract(precision), validRawEditOrder(r),
           TrimText(r.ticker) = Ticker, NEW c \in parseEditOrder(r)
    PROVE  Becomes(r, c, precision)
<1>1. PICK price, amount : /\ price = ParsePrice(precision, r.price)
                           /\ amount = {ParseQuantity(precision, a) : a \in r.amount}
    OBVIOUS
<1>2. price.ok /\ price.value > 0 /\ \A a \in amount : a.ok /\ a.value > 0
    BY <1>1 DEF parseEditOrder
<1>3. PICK values : values = {a.value : a \in amount}
    OBVIOUS
<1>4. c = AmendCommand(r, price.value, values)
  <2>1. c = [kind |-> "AMEND", id |-> r.id, ticker |-> TrimText(r.ticker), order |-> r.order,
             price |-> price.value, amount |-> {a.value : a \in amount}]
      BY <1>1, <1>2 DEF parseEditOrder
  <2> QED BY <1>3, <2>1 DEF AmendCommand
<1>5. Units(price.value, r.price, precision.priceScale) /\ validatePrice(precision, price.value)
  <2>1. PICK parsed : parsed = ParseScaled(r.price, precision.priceScale)
      OBVIOUS
  <2>2. price = parsed /\ parsed.ok /\ validatePrice(precision, parsed.value)
      BY <1>1, <1>2, <2>1 DEF ParsePrice, Failed
  <2>3. IsDecimalText(r.price)
      BY IntakeAssumption
  <2> QED BY <2>1, <2>2, <2>3, ParsedUnits
<1>6. ASSUME NEW s \in r.amount
      PROVE  LET v == ParseQuantity(precision, s).value
             IN  v \in values /\ v > 0 /\ Units(v, s, precision.quantityScale) /\ validateQuantity(precision, v)
  <2>1. PICK parsed, a : parsed = ParseScaled(s, precision.quantityScale) /\ a = ParseQuantity(precision, s)
      OBVIOUS
  <2>2. a \in amount
      BY <1>1, <1>6, <2>1
  <2>3. a.ok /\ a.value > 0 /\ a.value \in values
      BY <1>2, <1>3, <2>2
  <2>4. a = parsed /\ parsed.ok /\ validateQuantity(precision, parsed.value)
      BY <2>1, <2>3 DEF ParseQuantity, Failed
  <2>5. IsDecimalText(s)
      BY <1>6, IntakeAssumption
  <2> QED BY <2>1, <2>3, <2>4, <2>5, ParsedUnits
<1>7. ASSUME NEW v \in values PROVE \E s \in r.amount : v = ParseQuantity(precision, s).value
    BY <1>1, <1>3, <1>7
<1>8. SetUnits(values, r.amount, precision.quantityScale)
    BY <1>6, <1>7 DEF SetUnits
<1>9. \A v \in values : v > 0 /\ validateQuantity(precision, v)
    BY <1>6, <1>7
<1>10. ~Blank(r.id) /\ ~Blank(Ticker) /\ ~Blank(r.order)
  <2>1. IsText(r.ticker)
      BY IntakeAssumption
  <2> QED BY <2>1, Trimming DEF validRawEditOrder, Blank
<1>11. AmendOf(r, precision, price.value, values)
    BY <1>2, <1>5, <1>8, <1>9, <1>10 DEF AmendOf
<1> QED BY <1>4, <1>10, <1>11 DEF Becomes

LEMMA CancelBecomes ==
    ASSUME NEW r \in Request, r.kind = "CANCEL", validRawCancelOrder(r), r.ticker = Ticker
    PROVE  Becomes(r, cancelCommand(r), precision)
BY DEF Becomes, CancelCommand, cancelCommand, validRawCancelOrder

\* journal.Validate takes whatever a handler makes.
LEMMA BecomesValid ==
    ASSUME NEW o, NEW c, NEW p, IsContract(p), Becomes(o, c, p)
    PROVE  Validate(c, p.version) /\ c.id = o.id /\ c.kind = o.kind
<1>1. ~Blank(o.id) /\ ~Blank(Ticker) /\ p.version >= 0
    BY DEF Becomes, IsContract
<1>2. \A t : ~Blank(t) => t # [name |-> "", padded |-> FALSE]
  <2>1. PICK b : b = [name |-> "", padded |-> FALSE]
      OBVIOUS
  <2>2. Blank(b)
      BY <2>1 DEF Blank
  <2> QED BY <2>1, <2>2
<1>3. CASE o.kind = "CREATE" /\ \E price, amount : CreateOf(o, p, price, amount) /\ c = CreateCommand(o, price, amount)
  <2>1. PICK price, amount : CreateOf(o, p, price, amount) /\ c = CreateCommand(o, price, amount)
      BY <1>3
  <2>2. /\ c.kind = "CREATE" /\ c.id = o.id /\ c.ticker = Ticker /\ c.user = o.user
        /\ c.type = o.type /\ c.side = o.side /\ c.price = price /\ c.amount = amount
      BY <2>1 DEF CreateCommand
  <2> QED BY <1>1, <1>2, <1>3, <2>1, <2>2 DEF Validate, CreateOf
<1>4. CASE o.kind = "AMEND" /\ \E price, amount : AmendOf(o, p, price, amount) /\ c = AmendCommand(o, price, amount)
  <2>1. PICK price, amount : AmendOf(o, p, price, amount) /\ c = AmendCommand(o, price, amount)
      BY <1>4
  <2>2. /\ c.kind = "AMEND" /\ c.id = o.id /\ c.ticker = Ticker /\ c.order = o.order
        /\ c.price = price /\ c.amount = amount
      BY <2>1 DEF AmendCommand
  <2> QED BY <1>1, <1>2, <1>4, <2>1, <2>2 DEF Validate, AmendOf
<1>5. CASE o.kind = "CANCEL" /\ ~Blank(o.order) /\ c = CancelCommand(o)
  <2>1. c.kind = "CANCEL" /\ c.id = o.id /\ c.ticker = Ticker /\ c.order = o.order
      BY <1>5 DEF CancelCommand
  <2> QED BY <1>1, <1>2, <1>5, <2>1 DEF Validate
<1> QED BY <1>3, <1>4, <1>5 DEF Becomes

\* Requests of one id become the same command if and only if they mean the same.
LEMMA SameMeaning ==
    ASSUME NEW p, IsContract(p), NEW o, NEW c, Becomes(o, c, p), NEW r, NEW d, Becomes(r, d, p), o.id = r.id
    PROVE  c = d <=> Meaning(o) = Meaning(r)
<1>1. p.priceScale \in 0..MaxScale /\ p.quantityScale \in 0..MaxScale
    BY DEF IsContract
<1>2. c.kind = o.kind /\ d.kind = r.kind
    BY BecomesValid
<1>3. /\ \A x : x.kind = "CREATE" => Meaning(x) =
               <<"CREATE", x.user, x.type, x.side, Written(x.price), Written(x.amount), x.nonce>>
      /\ \A x : x.kind = "AMEND" => Meaning(x) = <<"AMEND", x.order, Written(x.price), SetWritten(x.amount)>>
      /\ \A x : x.kind = "CANCEL" => Meaning(x) = <<"CANCEL", x.order>>
    BY DEF Meaning, SetWritten
<1>4. o.kind \in {"CREATE", "AMEND", "CANCEL"} /\ r.kind \in {"CREATE", "AMEND", "CANCEL"}
    BY DEF Becomes
<1>5. CASE o.kind # r.kind
  <2>1. c # d
      BY <1>2, <1>5
  <2>2. Meaning(o)[1] = o.kind /\ Meaning(r)[1] = r.kind
      BY <1>3, <1>4
  <2> QED BY <1>5, <2>1, <2>2
<1>6. CASE o.kind = "CREATE" /\ r.kind = "CREATE"
  <2>1. PICK x, a : CreateOf(o, p, x, a) /\ c = CreateCommand(o, x, a)
      BY <1>6 DEF Becomes
  <2>2. PICK y, b : CreateOf(r, p, y, b) /\ d = CreateCommand(r, y, b)
      BY <1>6 DEF Becomes
  <2>3. (x = y <=> Written(o.price) = Written(r.price)) /\ (a = b <=> Written(o.amount) = Written(r.amount))
      BY <1>1, <2>1, <2>2, UnitsAgree DEF CreateOf
  <2>4. c = d <=> /\ o.user = r.user /\ o.type = r.type /\ o.side = r.side /\ o.nonce = r.nonce
                  /\ x = y /\ a = b
      BY <2>1, <2>2 DEF CreateCommand
  <2>5. Meaning(o) = Meaning(r) <=>
            /\ o.user = r.user /\ o.type = r.type /\ o.side = r.side /\ o.nonce = r.nonce
            /\ Written(o.price) = Written(r.price) /\ Written(o.amount) = Written(r.amount)
    <3>1. PICK x1, x2, y1, y2 : /\ x1 = Written(o.price) /\ x2 = Written(o.amount)
                                /\ y1 = Written(r.price) /\ y2 = Written(r.amount)
        OBVIOUS
    <3>2. /\ Meaning(o) = <<"CREATE", o.user, o.type, o.side, x1, x2, o.nonce>>
          /\ Meaning(r) = <<"CREATE", r.user, r.type, r.side, y1, y2, r.nonce>>
        BY <1>3, <1>6, <3>1
    <3> QED BY <3>1, <3>2
  <2> QED BY <2>3, <2>4, <2>5
<1>7. CASE o.kind = "AMEND" /\ r.kind = "AMEND"
  <2>1. PICK x, a : AmendOf(o, p, x, a) /\ c = AmendCommand(o, x, a)
      BY <1>7 DEF Becomes
  <2>2. PICK y, b : AmendOf(r, p, y, b) /\ d = AmendCommand(r, y, b)
      BY <1>7 DEF Becomes
  <2>3. (x = y <=> Written(o.price) = Written(r.price)) /\ (a = b <=> SetWritten(o.amount) = SetWritten(r.amount))
      BY <1>1, <2>1, <2>2, UnitsAgree, SetUnitsAgree DEF AmendOf
  <2>4. c = d <=> o.order = r.order /\ x = y /\ a = b
      BY <2>1, <2>2 DEF AmendCommand
  <2>5. Meaning(o) = Meaning(r) <=>
            /\ o.order = r.order /\ Written(o.price) = Written(r.price)
            /\ SetWritten(o.amount) = SetWritten(r.amount)
    <3>1. PICK x1, x2, y1, y2 : /\ x1 = Written(o.price) /\ x2 = SetWritten(o.amount)
                                /\ y1 = Written(r.price) /\ y2 = SetWritten(r.amount)
        OBVIOUS
    <3>2. Meaning(o) = <<"AMEND", o.order, x1, x2>> /\ Meaning(r) = <<"AMEND", r.order, y1, y2>>
        BY <1>3, <1>7, <3>1
    <3> QED BY <3>1, <3>2
  <2> QED BY <2>3, <2>4, <2>5
<1>8. CASE o.kind = "CANCEL" /\ r.kind = "CANCEL"
  <2>1. c = CancelCommand(o) /\ d = CancelCommand(r)
      BY <1>8 DEF Becomes
  <2>2. c = d <=> o.order = r.order
      BY <2>1 DEF CancelCommand
  <2>3. Meaning(o) = Meaning(r) <=> o.order = r.order
      BY <1>3, <1>8
  <2> QED BY <2>2, <2>3
<1> QED BY <1>4, <1>5, <1>6, <1>7, <1>8

-----------------------------------------------------------------------------
(* The invariant                                                           *)

\* The row is the command of a request, under the version it carries.
Explained(row, table, sources) ==
    /\ row.version \in DOMAIN table
    /\ \E o \in sources : Becomes(o, row.command, table[row.version])

\* A serving process has one of the versions, and it is that of every row.
Served ==
    process = "serving" =>
        /\ precision.version \in DOMAIN rows /\ rows[precision.version] = precision
        /\ \A row \in journal : row.version = precision.version

IInv ==
    /\ rows \in Contracts
    /\ version \in DOMAIN rows
    /\ Served
    /\ \A row \in journal : Explained(row, rows, origin)
    /\ AcceptedIsJournaled

\* The versions of a market's row are contracts.
LEMMA VersionsAre ==
    ASSUME NEW table \in Contracts, NEW v \in DOMAIN table
    PROVE  IsContract(table[v]) /\ table[v].version = v
<1>1. PICK p : p = table[v]
    OBVIOUS
<1>2. table \in Seq(Precision) /\ ValidPrecision(p) /\ p.version = v
    BY <1>1, IntakeAssumption
<1>3. DOMAIN table = 1..Len(table) /\ Len(table) \in Nat
    BY <1>2
<1>4. p \in Precision /\ v \in Nat \ {0}
    BY <1>1, <1>2, <1>3
<1>5. p.priceScale \in 0..MaxScale /\ p.quantityScale \in 0..MaxScale
    BY <1>2 DEF ValidPrecision, Scales
<1> QED BY <1>1, <1>2, <1>4, <1>5 DEF IsContract

\* A valid contract has no field left to a default.
LEMMA NoDefaults ==
    ASSUME NEW p \in Precision, ValidPrecision(p)
    PROVE  WithDefaults(p) = p
<1>1. /\ p.tickSize > 0 /\ p.lotSize > 0 /\ p.minPrice > 0 /\ p.minQuantity > 0 /\ p.version > 0
      /\ p.maxPrice >= p.minPrice /\ p.maxQuantity >= p.minQuantity
    BY DEF ValidPrecision
<1>2. /\ p.tickSize # 0 /\ p.lotSize # 0 /\ p.minPrice # 0 /\ p.minQuantity # 0 /\ p.version # 0
      /\ p.maxPrice # 0 /\ p.maxQuantity # 0
    BY <1>1 DEF Precision
<1>3. Scales(p) \cup {p.tickSize, p.lotSize, p.version} # {0}
    BY <1>2
<1>4. \A f \in DOMAIN p : ~(p[f] = 0 /\ f \notin {"priceScale", "quantityScale", "quoteScale"})
    BY <1>2 DEF Precision
<1>5. WithDefaults(p) = [f \in DOMAIN p |-> p[f]]
    BY <1>3, <1>4 DEF WithDefaults
<1>6. p = [f \in DOMAIN p |-> p[f]]
    BY DEF Precision
<1> QED BY <1>5, <1>6

\* Every version loads as it is.
LEMMA Loaded ==
    ASSUME NEW table \in Contracts, NEW v \in DOMAIN table
    PROVE  toMarket(table[v]) = table[v]
<1>1. PICK p : p = table[v]
    OBVIOUS
<1>2. p \in Precision /\ ValidPrecision(p)
    BY <1>1, VersionsAre DEF IsContract
<1> QED BY <1>1, <1>2, NoDefaults DEF toMarket

LEMMA ServingContract ==
    ASSUME IInv, process = "serving"
    PROVE  IsContract(precision)
BY VersionsAre DEF IInv, Served

\* Every row can be decoded.
LEMMA RowsDecode ==
    ASSUME IInv, NEW row \in journal
    PROVE  Decodes(row)
<1>1. PICK p : p = rows[row.version]
    OBVIOUS
<1>2. rows \in Contracts /\ row.version \in DOMAIN rows
    BY DEF IInv, Explained
<1>3. PICK o \in origin : Becomes(o, row.command, p)
    BY <1>1 DEF IInv, Explained
<1>4. IsContract(p) /\ p.version = row.version
    BY <1>1, <1>2, VersionsAre
<1>5. Validate(row.command, p.version)
    BY <1>3, <1>4, BecomesValid
<1> QED BY <1>4, <1>5 DEF Decodes

-----------------------------------------------------------------------------
(* Steps                                                                   *)

\* What an append that fails has met.
Conflict == \E o \in origin : o.id = asked'.id /\ Meaning(o) # Meaning(asked')

\* An answer other than 202 leaves the rest as it is.
LEMMA Refusal ==
    ASSUME IInv, NEW r, NEW code, code # 202, Respond(r, code)
    PROVE  IInv' /\ halted' = halted
<1>1. UNCHANGED <<rows, version, process, precision, halted, journal, origin>> /\ status' # 202
    BY DEF Respond, Answer
<1>2. Served' /\ AcceptedIsJournaled'
    BY <1>1 DEF IInv, Served, AcceptedIsJournaled
<1> QED BY <1>1, <1>2 DEF IInv

\* The worker's append: a new row, a retry, or a conflict.
LEMMA Accepting ==
    ASSUME IInv, process = "serving", NEW r \in Request, NEW c, Becomes(r, c, precision), acceptCommand(c, r)
    PROVE  IInv' /\ (~halted /\ halted' => Conflict)
<1>1. PICK new, existing : new = Row(c) /\ existing = {row \in journal : row.command.id = c.id}
    OBVIOUS
<1>2. IsContract(precision)
    BY ServingContract
<1>3. Validate(c, precision.version) /\ c.id = r.id /\ c.kind = r.kind
    BY <1>2, BecomesValid
<1>4. new.command = c /\ new.version = precision.version
    BY <1>1 DEF Row
<1>5. Encodes(new)
    BY <1>3, <1>4 DEF Encodes
<1>6. CASE Respond(r, 503)
    BY <1>6, Refusal
<1>7. CASE /\ journal' = journal \cup {new} /\ origin' = origin \cup {r} /\ Answer(r, 202)
           /\ UNCHANGED <<rows, version, process, precision, halted>>
  <2>1. Served'
      BY <1>4, <1>7 DEF IInv, Served
  <2>2. Explained(new, rows, origin')
      BY <1>4, <1>7 DEF IInv, Served, Explained
  <2>3. \A row \in journal : Explained(row, rows, origin')
      BY <1>7 DEF IInv, Explained
  <2>4. AcceptedIsJournaled'
      BY <1>3, <1>4, <1>7 DEF AcceptedIsJournaled, Answer
  <2> QED BY <1>7, <2>1, <2>2, <2>3, <2>4 DEF IInv
<1>8. ASSUME NEW row \in existing
      PROVE  /\ row \in journal /\ Decodes(row) /\ row.version = new.version
             /\ \E o \in origin : o.id = r.id /\ (row.command = c <=> Meaning(o) = Meaning(r))
  <2>1. row \in journal /\ row.command.id = c.id
      BY <1>1
  <2>2. Decodes(row)
      BY <2>1, RowsDecode
  <2>3. row.version = new.version /\ rows[row.version] = precision
      BY <1>4, <2>1 DEF IInv, Served
  <2>4. PICK o \in origin : Becomes(o, row.command, precision)
      BY <2>1, <2>3 DEF IInv, Explained
  <2>5. o.id = r.id
      BY <1>2, <1>3, <2>1, <2>4, BecomesValid
  <2>6. PICK d : d = row.command
      OBVIOUS
  <2>7. d = c <=> Meaning(o) = Meaning(r)
      BY <1>2, <2>4, <2>5, <2>6, SameMeaning
  <2> QED BY <2>1, <2>2, <2>3, <2>5, <2>6, <2>7
<1>9. CASE Respond(r, 202) /\ \E row \in existing : Decodes(row) /\ SamePayload(new, row)
  <2>1. PICK row \in existing : SamePayload(new, row)
      BY <1>9
  <2>2. row \in journal /\ row.command = c
      BY <1>4, <1>8, <2>1 DEF SamePayload
  <2>3. \E o \in origin : o.id = r.id /\ Meaning(o) = Meaning(r)
      BY <1>8, <2>1, <2>2
  <2>4. UNCHANGED <<rows, version, process, precision, halted, journal, origin>> /\ asked' = r
      BY <1>9 DEF Respond, Answer
  <2>5. AcceptedIsJournaled'
      BY <1>3, <2>2, <2>3, <2>4 DEF AcceptedIsJournaled
  <2>6. Served'
      BY <2>4 DEF IInv, Served
  <2> QED BY <2>4, <2>5, <2>6 DEF IInv
<1>10. CASE /\ existing # {} /\ ~\E row \in existing : Decodes(row) /\ SamePayload(new, row)
            /\ halted' = TRUE /\ Answer(r, 503)
            /\ UNCHANGED <<rows, version, process, precision, journal, origin>>
  <2>1. PICK row \in existing : ~(Decodes(row) /\ SamePayload(new, row))
      BY <1>10
  <2>2. row.command # c
      BY <1>4, <1>8, <2>1 DEF SamePayload
  <2>3. Conflict
      BY <1>8, <1>10, <2>1, <2>2 DEF Conflict, Answer
  <2>4. Served' /\ AcceptedIsJournaled'
      BY <1>10 DEF IInv, Served, AcceptedIsJournaled, Answer
  <2> QED BY <1>10, <2>3, <2>4 DEF IInv
<1>11. writeEngineError("halted") = 503
    BY DEF writeEngineError
<1>12. CASE halted
    BY <1>6, <1>11, <1>12 DEF acceptCommand
<1>13. CASE ~halted /\ existing = {}
  <2>1. /\ journal' = journal \cup {new} /\ origin' = origin \cup {r} /\ Answer(r, 202)
        /\ UNCHANGED <<rows, version, process, precision, halted>>
      BY <1>1, <1>5, <1>13 DEF acceptCommand
  <2> QED BY <1>7, <2>1
<1>14. CASE ~halted /\ existing # {} /\ \E row \in existing : Decodes(row) /\ SamePayload(new, row)
  <2>1. Respond(r, 202)
      BY <1>1, <1>5, <1>14 DEF acceptCommand
  <2> QED BY <1>9, <1>14, <2>1
<1>15. CASE ~halted /\ existing # {} /\ ~\E row \in existing : Decodes(row) /\ SamePayload(new, row)
  <2>1. /\ halted' = TRUE /\ Answer(r, 503)
        /\ UNCHANGED <<rows, version, process, precision, journal, origin>>
      BY <1>1, <1>5, <1>11, <1>15 DEF acceptCommand
  <2> QED BY <1>10, <1>15, <2>1
<1> QED BY <1>12, <1>13, <1>14, <1>15

\* The end of a handler whose commands are what the request becomes.
LEMMA Routing ==
    ASSUME IInv, process = "serving", NEW r \in Request, NEW known \in BOOLEAN, NEW commands,
           known => \A c \in commands : Becomes(r, c, precision), route(r, known, commands)
    PROVE  IInv' /\ (~halted /\ halted' => Conflict)
<1>1. writeEngineError("unknownTicker") = 404 /\ writeEngineError("invalid") = 400
    BY DEF writeEngineError
<1>2. CASE Respond(r, 404) \/ Respond(r, 400)
    BY <1>2, Refusal
<1>3. CASE known /\ \E c \in commands : acceptCommand(c, r)
    BY <1>3, Accepting
<1> QED BY <1>1, <1>2, <1>3 DEF route

LEMMA Handling ==
    ASSUME IInv, NEW r \in Request, Handle(r)
    PROVE  IInv' /\ (~halted /\ halted' => Conflict)
<1>1. process = "serving" /\ IsContract(precision)
  <2>1. process = "serving"
      BY DEF Handle, createOrder, amendOrder, cancelOrder, Malformed
  <2> QED BY <2>1, ServingContract
<1>2. CASE Respond(r, 400)
    BY <1>2, Refusal
<1>3. CASE /\ r.kind = "CREATE" /\ validRawCreateOrder(r)
           /\ route(r, TrimText(r.ticker) = Ticker, parseCreateOrder(r))
  <2>1. TrimText(r.ticker) = Ticker => \A c \in parseCreateOrder(r) : Becomes(r, c, precision)
      BY <1>1, <1>3, CreateBecomes
  <2> QED BY <1>1, <1>3, <2>1, Routing
<1>4. CASE /\ r.kind = "AMEND" /\ validRawEditOrder(r)
           /\ route(r, TrimText(r.ticker) = Ticker, parseEditOrder(r))
  <2>1. TrimText(r.ticker) = Ticker => \A c \in parseEditOrder(r) : Becomes(r, c, precision)
      BY <1>1, <1>4, AmendBecomes
  <2> QED BY <1>1, <1>4, <2>1, Routing
<1>5. CASE /\ r.kind = "CANCEL" /\ validRawCancelOrder(r)
           /\ route(r, r.ticker = Ticker, {cancelCommand(r)})
  <2>1. r.ticker = Ticker => \A c \in {cancelCommand(r)} : Becomes(r, c, precision)
      BY <1>5, CancelBecomes
  <2> QED BY <1>1, <1>5, <2>1, Routing
<1> QED BY <1>2, <1>3, <1>4, <1>5 DEF Handle, createOrder, amendOrder, cancelOrder, Malformed

\* A process that starts has the version of the row, and so has every row.
LEMMA Starting ==
    ASSUME IInv, Start
    PROVE  IInv' /\ ~halted'
<1>1. /\ UNCHANGED <<rows, version, journal, origin>> /\ status' = 0 /\ halted' = FALSE
      /\ precision' = toMarket(rows[version])
      /\ process' = "serving" => \A row \in journal : row.version = precision'.version
    BY DEF Start
<1>2. precision' = rows[version] /\ rows[version].version = version
    BY <1>1, Loaded, VersionsAre DEF IInv
<1>3. Served'
    BY <1>1, <1>2 DEF IInv, Served
<1>4. AcceptedIsJournaled'
    BY <1>1 DEF AcceptedIsJournaled
<1> QED BY <1>1, <1>3, <1>4 DEF IInv

LEMMA Stopping ==
    ASSUME IInv, Stop
    PROVE  IInv' /\ halted' = halted
<1>1. /\ UNCHANGED <<rows, version, halted, journal, origin>> /\ status' = 0 /\ process' = "down"
    BY DEF Stop
<1>2. Served' /\ AcceptedIsJournaled'
    BY <1>1 DEF Served, AcceptedIsJournaled
<1> QED BY <1>1, <1>2 DEF IInv

LEMMA ChangingRules ==
    ASSUME IInv, NewRules
    PROVE  IInv' /\ halted' = halted
<1>1. /\ UNCHANGED <<rows, process, precision, halted, journal, origin>> /\ status' = 0
      /\ version < Len(rows) /\ version' = version + 1
    BY DEF NewRules
<1>2. rows \in Seq(Precision)
    BY IntakeAssumption DEF IInv
<1>3. version' \in DOMAIN rows
    BY <1>1, <1>2 DEF IInv
<1>4. Served' /\ AcceptedIsJournaled'
    BY <1>1 DEF IInv, Served, AcceptedIsJournaled
<1> QED BY <1>1, <1>3, <1>4 DEF IInv

LEMMA InitHolds ==
    ASSUME Init
    PROVE  IInv
<1>1. rows \in Seq(Precision) /\ rows # << >>
    BY IntakeAssumption DEF Init
<1>2. 1 \in DOMAIN rows
    BY <1>1
<1> QED BY <1>2 DEF Init, IInv, Served, AcceptedIsJournaled

LEMMA StepHolds ==
    ASSUME IInv, [Next]_vars
    PROVE  IInv' /\ (~halted /\ halted' => Conflict)
<1>1. ASSUME NEW r \in Request, Handle(r) PROVE IInv' /\ (~halted /\ halted' => Conflict)
    BY <1>1, Handling
<1>2. CASE Start
    BY <1>2, Starting
<1>3. CASE Stop
    BY <1>3, Stopping
<1>4. CASE NewRules
    BY <1>4, ChangingRules
<1>5. CASE UNCHANGED vars
  <2>1. Served' /\ AcceptedIsJournaled'
      BY <1>5 DEF vars, IInv, Served, AcceptedIsJournaled
  <2> QED BY <1>5, <2>1 DEF vars, IInv
<1> QED BY <1>1, <1>2, <1>3, <1>4, <1>5 DEF Next

LEMMA Inductive == Spec => []IInv
<1> QED BY InitHolds, StepHolds, PTL DEF Spec

-----------------------------------------------------------------------------
(* Theorems                                                                *)

(***************************************************************************)
(* A request answered with 202 is in the journal, and the request that     *)
(* brought it there meant the same, whatever the texts and whatever the    *)
(* contracts: acceptCommand, with the conversions of both.                 *)
(***************************************************************************)
THEOREM AcceptedAlwaysJournaled == Spec => []AcceptedIsJournaled
<1>1. IInv => AcceptedIsJournaled
    BY DEF IInv
<1> QED BY <1>1, Inductive, PTL

(***************************************************************************)
(* A serving process has the contract of every row of its journal: start   *)
(* compares the version of each, and the version is what the row carries.  *)
(***************************************************************************)
THEOREM AlwaysUnderOwnContract == Spec => []ReplayedUnderOwnContract
<1>1. IInv => ReplayedUnderOwnContract
    BY DEF IInv, Served, ReplayedUnderOwnContract
<1> QED BY <1>1, Inductive, PTL

(***************************************************************************)
(* An append to a store that answers fails only when one id is used for    *)
(* two orders that mean different things: journal.Validate refuses nothing *)
(* that a handler makes, and a retry spelled in another way is no          *)
(* conflict.  Of what may halt the engine after the append, in             *)
(* applyCommand or in a writer, this says nothing.                         *)
(***************************************************************************)
THEOREM AppendFailsOnlyOnRealConflict == Spec => AppendFailsOnlyOnConflict
<1>1. IInv /\ [Next]_vars => [~halted /\ halted' => Conflict]_vars
    BY StepHolds
<1> QED BY <1>1, Inductive, PTL DEF Spec, AppendFailsOnlyOnConflict, Conflict

\* What RowsKeepContract says of one row.
AmountsOf(c) == CASE c.kind = "CREATE" -> {c.amount} [] c.kind = "AMEND" -> c.amount [] OTHER -> {}

KeepsContract(c, p, amounts) ==
    /\ \A a \in amounts : validateQuantity(p, a)
    /\ c.kind = "AMEND" => validatePrice(p, c.price)
    /\ c.kind = "CREATE" => IF c.type = "LIMIT" THEN validatePrice(p, c.price) ELSE c.price = 0
    /\ c.kind # "CANCEL" => \E o \in origin :
           /\ o.id = c.id
           /\ c.price * pow10(MaxScale - p.priceScale) = Written(o.price)
           /\ SetScaled(amounts, p.quantityScale)
                = SetWritten(IF c.kind = "AMEND" THEN o.amount ELSE {o.amount})

LEMMA RowKeeps ==
    ASSUME IInv, NEW row \in journal, NEW c, c = row.command, NEW p, p = rows[row.version],
           NEW amounts, amounts = AmountsOf(c)
    PROVE  KeepsContract(c, p, amounts)
<1>1. PICK o \in origin : Becomes(o, c, p)
    BY DEF IInv, Explained
<1>2. IsContract(p)
    BY VersionsAre DEF IInv, Explained
<1>3. c.kind = o.kind /\ c.id = o.id
    BY <1>1, <1>2, BecomesValid
<1>4. CASE o.kind = "CREATE"
  <2>1. PICK x, a : CreateOf(o, p, x, a) /\ c = CreateCommand(o, x, a)
      BY <1>1, <1>4 DEF Becomes
  <2>2. c.price = x /\ c.amount = a /\ c.type = o.type /\ amounts = {a}
      BY <1>3, <1>4, <2>1 DEF CreateCommand, AmountsOf
  <2>3. SetUnits({a}, {o.amount}, p.quantityScale)
      BY <2>1 DEF CreateOf, SetUnits
  <2>4. SetScaled(amounts, p.quantityScale) = SetWritten({o.amount})
      BY <2>2, <2>3, SetUnitsScaled
  <2> QED BY <1>3, <1>4, <2>1, <2>2, <2>4 DEF CreateOf, Units, KeepsContract
<1>5. CASE o.kind = "AMEND"
  <2>1. PICK x, a : AmendOf(o, p, x, a) /\ c = AmendCommand(o, x, a)
      BY <1>1, <1>5 DEF Becomes
  <2>2. c.price = x /\ c.amount = a /\ amounts = a
      BY <1>3, <1>5, <2>1 DEF AmendCommand, AmountsOf
  <2>3. SetScaled(amounts, p.quantityScale) = SetWritten(o.amount)
      BY <2>1, <2>2, SetUnitsScaled DEF AmendOf
  <2> QED BY <1>3, <1>5, <2>1, <2>2, <2>3 DEF AmendOf, Units, KeepsContract
<1>6. CASE o.kind = "CANCEL"
  <2>1. amounts = {}
      BY <1>3, <1>6 DEF AmountsOf
  <2> QED BY <1>3, <1>6, <2>1 DEF KeepsContract
<1> QED BY <1>1, <1>4, <1>5, <1>6 DEF Becomes

(***************************************************************************)
(* Every row has the numbers of its request, exactly, in the units of the  *)
(* contract whose version it carries, and within that contract's bounds.   *)
(***************************************************************************)
THEOREM RowsAlwaysKeepContract == Spec => []RowsKeepContract
<1>1. IInv => \A row \in journal : KeepsContract(row.command, rows[row.version], AmountsOf(row.command))
    BY RowKeeps
<1>2. (\A row \in journal : KeepsContract(row.command, rows[row.version], AmountsOf(row.command)))
          => RowsKeepContract
    BY DEF RowsKeepContract, KeepsContract, AmountsOf, SetScaled, SetWritten
<1> QED BY <1>1, <1>2, Inductive, PTL

=============================================================================
