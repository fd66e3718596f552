------------------------------- MODULE Intake -------------------------------
(***************************************************************************)
(* From an HTTP request to a journal row, for one market: the create,      *)
(* amend and cancel handlers of internal/api/handler.go, the worker's      *)
(* append, journal.Validate and the conflict check of the journal's store, *)
(* and the market's numeric contract, which is read at startup.            *)
(*                                                                         *)
(* Any error of Append halts the engine, a refusal by journal.Validate and *)
(* a conflict included: what the handlers let through decides whether an   *)
(* append can stop every market.  The store answers, and a journaled       *)
(* command is taken to be executed: what can halt the engine later, in     *)
(* applyCommand or in the writers, is in ApplyCommand and Engine.          *)
(***************************************************************************)
EXTENDS Decimal

CONSTANTS
    Request,     \* JSON bodies: records of fields as the client wrote them
    Contracts,   \* markets rows: sequences of precisions, one per config_version
    Ticker       \* the market

\* A text of JSON: a name, with or without spaces around it.
IsText(t) == t \in [name : STRING, padded : BOOLEAN]

\* A decimal of JSON, character by character.
IsDecimalText(s) == s \in Seq(STRING)

ASSUME IntakeAssumption ==
    /\ IsText(Ticker) /\ ~Ticker.padded
    /\ \A table \in Contracts :
          /\ table \in Seq(Precision) /\ table # <<>>
          /\ \A v \in DOMAIN table : ValidPrecision(table[v]) /\ table[v].version = v
    /\ \A r \in Request : r.kind \in {"CREATE", "AMEND", "CANCEL", "MALFORMED"}
    /\ \A r \in Request : r.kind # "MALFORMED" => IsText(r.id) /\ IsText(r.ticker)
    /\ \A r \in Request : r.kind \in {"CREATE", "AMEND"} => IsDecimalText(r.price)
    /\ \A r \in Request : r.kind = "CREATE" => IsDecimalText(r.amount)
    /\ \A r \in Request : r.kind = "AMEND" => \A amount \in r.amount : IsDecimalText(amount)

VARIABLES
    rows,        \* the versions of the market's row that an operator will write
    version,     \* config_version of the row as it is now
    process,     \* "down", "serving", or "failed": it did not start
    precision,   \* of the registered worker
    halted,      \* EngineState.cause # nil
    journal,     \* the commands of order_journal
    status,      \* of the last response
    asked,       \* the request it answered
    origin       \* for properties: the request that each command came from

vars == <<rows, version, process, precision, halted, journal, status, asked, origin>>

Nobody == [kind |-> "MALFORMED"]

Init ==
    /\ rows \in Contracts
    /\ version = 1
    /\ process = "down"
    /\ precision = DefaultPrecision
    /\ halted = FALSE
    /\ journal = {} /\ origin = {}
    /\ status = 0 /\ asked = Nobody

-----------------------------------------------------------------------------
(* Validation                                                              *)

Blank(t) == t.name = ""

TrimText(t) == [t EXCEPT !.padded = FALSE]

validRawCreateOrder(r) ==
    /\ ~Blank(r.id) /\ ~Blank(r.ticker) /\ ~Blank(r.user)
    /\ r.type \in {"LIMIT", "MARKET"} /\ r.side \in {"BID", "ASK"}
    /\ IsPositiveDecimal(r.amount)
    /\ IF r.price = <<>> THEN r.type = "MARKET"
       ELSE /\ DecimalSign(r.price).ok
            /\ IF r.type = "LIMIT" THEN DecimalSign(r.price).value > 0
               ELSE DecimalSign(r.price).value = 0

validRawEditOrder(r) ==
    /\ ~Blank(r.id) /\ ~Blank(r.ticker) /\ ~Blank(r.order)
    /\ IsPositiveDecimal(r.price)
    /\ \A amount \in r.amount : IsPositiveDecimal(amount)

validRawCancelOrder(r) == ~Blank(r.id) /\ ~Blank(r.ticker) /\ ~Blank(r.order)

\* Mutant: the price of a limit order is converted but not held to the contract.
parseCreateAnyPrice(r) ==
    LET price == IF r.price = <<>> THEN Returned(0) ELSE ParseScaled(r.price, precision.priceScale)
        amount == ParseQuantity(precision, r.amount)
    IN  IF price.ok /\ amount.ok
        THEN {[kind |-> "CREATE", id |-> r.id, ticker |-> TrimText(r.ticker), user |-> r.user,
               type |-> r.type, side |-> r.side, price |-> price.value, amount |-> amount.value,
               nonce |-> r.nonce]}
        ELSE {}

\* The command that a create request becomes, if any.
parseCreateOrder(r) ==
    LET price == IF r.price = <<>> THEN Returned(0) ELSE ParseScaled(r.price, precision.priceScale)
        amount == ParseQuantity(precision, r.amount)
    IN  IF /\ price.ok
           /\ r.type = "LIMIT" => price.value > 0 /\ validatePrice(precision, price.value)
           /\ r.type = "MARKET" => price.value = 0
           /\ amount.ok /\ amount.value > 0
        THEN {[kind |-> "CREATE", id |-> r.id, ticker |-> TrimText(r.ticker), user |-> r.user,
               type |-> r.type, side |-> r.side, price |-> price.value, amount |-> amount.value,
               nonce |-> r.nonce]}
        ELSE {}

parseEditOrder(r) ==
    LET price == ParsePrice(precision, r.price)
        amount == {ParseQuantity(precision, a) : a \in r.amount}
    IN  IF price.ok /\ price.value > 0 /\ \A a \in amount : a.ok /\ a.value > 0
        THEN {[kind |-> "AMEND", id |-> r.id, ticker |-> TrimText(r.ticker), order |-> r.order,
               price |-> price.value, amount |-> {a.value : a \in amount}]}
        ELSE {}

\* CancelOrderRequest is the command as it came: its ticker is not trimmed.
cancelCommand(r) == [kind |-> "CANCEL", id |-> r.id, ticker |-> r.ticker, order |-> r.order]

\* journal.Validate, of a command under a version of the market's row.
Validate(c, v) ==
    /\ c.id # [name |-> "", padded |-> FALSE] /\ c.ticker # [name |-> "", padded |-> FALSE] /\ v >= 0
    /\ CASE c.kind = "CREATE" ->
              /\ ~Blank(c.user) /\ c.side \in {"BID", "ASK"} /\ c.amount > 0
              /\ \/ c.type = "LIMIT" /\ c.price > 0
                 \/ c.type = "MARKET" /\ c.price = 0
         [] c.kind = "AMEND" -> ~Blank(c.order) /\ c.price > 0 /\ \A a \in c.amount : a > 0
         [] c.kind = "CANCEL" -> ~Blank(c.order)
    /\ c.ticker = Ticker

-----------------------------------------------------------------------------
(* Handlers                                                                *)

Answer(r, code) == status' = code /\ asked' = r

Respond(r, code) ==
    /\ Answer(r, code)
    /\ UNCHANGED <<rows, version, process, precision, halted, journal, origin>>

writeEngineError(error) == [invalid |-> 400, unknownTicker |-> 404, halted |-> 503][error]

\* commandFromEvent: the worker's contract is the command's.
Row(c) == [command |-> c, version |-> precision.version]

effectiveConfigVersion(v) == IF v = 0 THEN 1 ELSE v

SamePayload(left, right) ==
    /\ left.command = right.command
    /\ effectiveConfigVersion(left.version) = effectiveConfigVersion(right.version)

\* EncodePayload and DecodeWithVersion: JSON keeps every field of a command,
\* so what decides is that both validate.
Encodes(row) == Validate(row.command, row.version)
Decodes(row) == Validate(row.command, row.version)

\* Mutant: the payload compared is the one that the client wrote.
acceptComparingText(c, r) ==
    IF halted THEN Respond(r, 503)
    ELSE /\ journal' = (IF \E o \in origin : o.id = r.id THEN journal ELSE journal \cup {Row(c)})
         /\ origin' = (IF \E o \in origin : o.id = r.id THEN origin ELSE origin \cup {r})
         /\ halted' = (\E o \in origin : o.id = r.id /\ o # r)
         /\ Answer(r, IF halted' THEN 503 ELSE 202)
         /\ UNCHANGED <<rows, version, process, precision>>

\* Mutant: an id that is in use is taken to be a retry.
acceptAnyRetry(c, r) ==
    IF halted THEN Respond(r, 503)
    ELSE IF \E o \in origin : o.id = r.id THEN Respond(r, 202)
    ELSE /\ journal' = journal \cup {Row(c)} /\ origin' = origin \cup {r} /\ Answer(r, 202)
         /\ UNCHANGED <<rows, version, process, precision, halted>>

\* acceptCommand: the worker appends the command, or finds it appended.
acceptCommand(c, r) ==
    LET existing == {row \in journal : row.command.id = c.id}
    IN  CASE halted -> Respond(r, writeEngineError("halted"))
          [] ~halted /\ Encodes(Row(c)) /\ existing = {} ->
               /\ journal' = journal \cup {Row(c)} /\ origin' = origin \cup {r}
               /\ Answer(r, 202)
               /\ UNCHANGED <<rows, version, process, precision, halted>>
          [] ~halted /\ Encodes(Row(c)) /\ \E row \in existing : Decodes(row) /\ SamePayload(Row(c), row) ->
               Respond(r, 202)
          [] OTHER ->
               /\ halted' = TRUE /\ Answer(r, writeEngineError("halted"))
               /\ UNCHANGED <<rows, version, process, precision, journal, origin>>

\* The rest of a handler: no worker, not a command, or a command.
route(r, known, commands) ==
    IF ~known THEN Respond(r, writeEngineError("unknownTicker"))
    ELSE IF commands = {} THEN Respond(r, writeEngineError("invalid"))
    ELSE \E c \in commands : acceptCommand(c, r)

createOrder(r) ==
    /\ process = "serving" /\ r.kind = "CREATE"
    /\ IF validRawCreateOrder(r) THEN route(r, TrimText(r.ticker) = Ticker, parseCreateOrder(r))
       ELSE Respond(r, 400)

amendOrder(r) ==
    /\ process = "serving" /\ r.kind = "AMEND"
    /\ IF validRawEditOrder(r) THEN route(r, TrimText(r.ticker) = Ticker, parseEditOrder(r))
       ELSE Respond(r, 400)

cancelOrder(r) ==
    /\ process = "serving" /\ r.kind = "CANCEL"
    /\ IF validRawCancelOrder(r) THEN route(r, r.ticker = Ticker, {cancelCommand(r)})
       ELSE Respond(r, 400)

\* decodeJSON fails.
Malformed(r) ==
    /\ process = "serving" /\ r.kind = "MALFORMED"
    /\ Respond(r, 400)

-----------------------------------------------------------------------------
(* The process and the operator                                            *)

toMarket(row) == WithDefaults(row)

\* Mutant: replay does not look at the version of a row.
StartAnyVersion ==
    /\ process # "serving"
    /\ precision' = WithDefaults(rows[version])
    /\ process' = "serving" /\ halted' = FALSE
    /\ status' = 0 /\ asked' = Nobody
    /\ UNCHANGED <<rows, version, journal, origin>>

\* Startup lists the markets, decodes the journal and replays it.
Start ==
    /\ process # "serving"
    /\ precision' = toMarket(rows[version])
    /\ process' = (IF /\ ValidPrecision(precision')
                      /\ \A row \in journal : Decodes(row) /\ row.version = precision'.version
                   THEN "serving" ELSE "failed")
    /\ halted' = FALSE
    /\ status' = 0 /\ asked' = Nobody
    /\ UNCHANGED <<rows, version, journal, origin>>

Stop ==
    /\ process = "serving" /\ process' = "down"
    /\ status' = 0 /\ asked' = Nobody
    /\ UNCHANGED <<rows, version, precision, halted, journal, origin>>

\* The operator writes the next version of the market's row.
NewRules ==
    /\ version < Len(rows) /\ version' = version + 1
    /\ status' = 0 /\ asked' = Nobody
    /\ UNCHANGED <<rows, process, precision, halted, journal, origin>>

Handle(r) == createOrder(r) \/ amendOrder(r) \/ cancelOrder(r) \/ Malformed(r)

Next == (\E r \in Request : Handle(r)) \/ Start \/ Stop \/ NewRules

Spec == Init /\ [][Next]_vars

-----------------------------------------------------------------------------
(* Properties                                                              *)

\* A decimal as written, as a number of the smallest unit there is; "" is 0.
Written(raw) == Mantissa(raw) * pow10(MaxScale - Places(raw))

\* What a well-formed request asks for, however it is spelled.
Meaning(r) ==
    CASE r.kind = "CREATE" ->
           <<"CREATE", r.user, r.type, r.side, Written(r.price), Written(r.amount), r.nonce>>
      [] r.kind = "AMEND" -> <<"AMEND", r.order, Written(r.price), {Written(a) : a \in r.amount}>>
      [] r.kind = "CANCEL" -> <<"CANCEL", r.order>>

(***************************************************************************)
(* A request that is answered with 202 is in the journal with its meaning: *)
(* nothing is lost between the handler and the worker, and a retry is      *)
(* never mistaken for another order.                                       *)
(***************************************************************************)
AcceptedIsJournaled ==
    status = 202 =>
        /\ \E row \in journal : row.command.id = asked.id /\ row.command.kind = asked.kind
        /\ \E o \in origin : o.id = asked.id /\ Meaning(o) = Meaning(asked)

(***************************************************************************)
(* Every row carries exactly the numbers that its client wrote, in units   *)
(* of the contract whose version it carries, and keeps to that contract:   *)
(* within the bounds, on the tick and on the lot.                          *)
(***************************************************************************)
RowsKeepContract ==
    \A row \in journal :
        LET c == row.command
            p == rows[row.version]
            amounts == CASE c.kind = "CREATE" -> {c.amount} [] c.kind = "AMEND" -> c.amount [] OTHER -> {}
        IN  /\ \A a \in amounts : validateQuantity(p, a)
            /\ c.kind = "AMEND" => validatePrice(p, c.price)
            /\ c.kind = "CREATE" => IF c.type = "LIMIT" THEN validatePrice(p, c.price) ELSE c.price = 0
            /\ c.kind # "CANCEL" => \E o \in origin :
                   /\ o.id = c.id
                   /\ c.price * pow10(MaxScale - p.priceScale) = Written(o.price)
                   /\ {a * pow10(MaxScale - p.quantityScale) : a \in amounts}
                        = {Written(a) : a \in IF c.kind = "AMEND" THEN o.amount ELSE {o.amount}}

(***************************************************************************)
(* While the store answers, Append fails, and thereby halts the engine,    *)
(* only when a command id is used for two different orders: never because  *)
(* journal.Validate refuses what a handler let through, and never because  *)
(* a retry was spelled another way ("100" and "100.00").  This is about    *)
(* the append alone.  Once it is journaled, a command can still halt the   *)
(* engine by itself, as one does whose quote amount overflows.             *)
(***************************************************************************)
AppendFailsOnlyOnConflict ==
    [][~halted /\ halted' => \E o \in origin : o.id = asked'.id /\ Meaning(o) # Meaning(asked')]_vars

(***************************************************************************)
(* A serving process reads every row under the contract that the row was   *)
(* journaled under.                                                        *)
(***************************************************************************)
ReplayedUnderOwnContract ==
    process = "serving" => \A row \in journal : rows[row.version] = precision

(***************************************************************************)
(* New market rules are introduced as a new configuration version          *)
(* (context/docs/numeric-model.md): the server starts with them.           *)
(***************************************************************************)
StartsUnderNewRules == process # "failed"

=============================================================================
