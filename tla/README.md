# A verification project for clob-trading

clob-trading is a central limit order book server in Go: an HTTP API, a router,
one single-threaded worker per ticker that owns an in-memory order book, and
PostgreSQL tables that hold the markets, a journal of commands, the executions
(match logs) and the lifecycle events of orders. This directory models it in
TLA+, checks the models with TLC and proves theorems about them with TLAPS.
Paths below are relative to `src/`.

## The system

| Part | State | Operations | Interacts with |
| --- | --- | --- | --- |
| Order book, `internal/engine/order.go` | maps `Bids`/`Asks`, two price heaps, FIFO queue and `TotalAmount` per level, `Index` id → element | `AddOrder`, `RemoveOrder`, `EditOrderAt`, `Snapshot` | owned by one worker |
| Price heaps, `internal/util` | a slice of levels; each level keeps its `Index` in it | `Push`, `Remove`, `Peek` under `container/heap` | the order book |
| Matching, `internal/engine/match.go` | none of its own; mutates book and taker | `Match` | called by the worker; `numeric.QuoteAmount` can refuse a trade |
| Event builder, `internal/engine/order_events.go`, `internal/orderevent/event.go` | the events of one command | `add…`, `result`, `Validate` | called by the worker |
| BookWorker, `internal/engine/bookworker.go` | book, input channel, the market's precision | `Run`, `Replay`, `applyCommand`, `halt` | journal store, two writers, `EngineState`, callers waiting for a result |
| EngineState, `internal/engine/state.go` | first fatal error | `Halt`, `Err` | all workers and the router |
| Router, `internal/engine/router.go` | workers by ticker, `closed`, an RWMutex | `OrderRouter`, `OrderBookSnapshot`, `Register`, `Shutdown` | HTTP handlers, workers' channels |
| Journal, `internal/journal` | tables `order_journal`, `order_journal_sequences` | `Validate`, `Append`, `List` | workers, startup |
| Match log writer and store, `internal/matchlog` | table `match_logs`, a channel | `Run`, `SaveMatchLogs` | workers |
| Order event writer and store, `internal/orderevent` | table `order_events`, a channel | `Run`, `SaveEvents` | workers |
| Server, `cmd/server/main.go` | the running engine, `lifecycleMu` | `startEngine`, `AddTicker`, `shutdown` | everything |
| Market registry, `internal/market` | table `markets` | `Add`, `List` | server |
| HTTP API, `internal/api` | none | parse, validate, route, format | router, server |
| Numerics, `internal/numeric` | none | parse, format, validate, `QuoteAmount` | API, matching, match log store |

The way of a command: the API validates it and calls `OrderRouter`, which
refuses it if the engine has halted and otherwise puts it on the worker's queue
and waits, holding the router's read lock. The worker looks at the halt state
again, appends the command to the journal, executes it on the book, has the match
logs committed, lets the rest of the order rest, has the events committed, and
answers. Any error of the append or after it halts every worker of the process.
The way back is a restart: `startEngine` reads the whole journal and runs every
row through the same `applyCommand`, writers included, before the HTTP server
opens.

### What is hard here

* Five structures describe one book and are updated by hand, in six places.
* A command has up to three transactions. The process can die between any two,
  each can commit although its caller sees an error, and all of them are run
  again by the replay.
* Workers share the halt state and check it before, not during, a command.
* A retry is answered from the journal alone, so what "in the journal" implies
  about the effect tables has to hold across crashes, halts and restarts.
* Handlers hold a read lock while they wait for a worker; `Register` and
  `Shutdown` need the write lock, and while one of them is pending no new reader
  gets in. Channels block when full and panic when sent to after being closed.
* A ticker is added in several steps, any of which can fail, while the server may
  be shutting down.
* One refused append stops every market, so what the handlers let through and
  `journal.Validate` does not would do that. So does one failed execution.
* Decimal strings become int64 atoms under a contract that is versioned, and
  amounts are multiplied; some errors are found only after the command is durable.

`PROJECT.json` lists these hazards line by line with the properties that cover
them.

### What makes each part correct

* Book: its structures agree; totals and index are exact; snapshots show the
  live orders.
* Heaps: `Peek` is the best price, and removal by `Index` removes that level.
* Matching: price-time priority, maker's price, as much as both sides have.
* Events: none is ever rejected by its own validation; those of an order form a
  chain; they agree with the book and with the match logs.
* Write path: the journal is the truth. Effects are those of replaying it, in its
  order, match logs before events; an answer means all effects are committed;
  nothing runs after a halt.
* Recovery: after a restart the books are the replay of the journal and all
  effects of journaled commands are eventually committed.
* Goroutines: every request is answered, every shutdown ends, nothing is sent on
  a closed channel, and a ticker once added is served and stays registered.
* Intake: what is accepted is journaled with its meaning, under the contract it
  is stored with; an append to a store that answers fails only for a reused id.
* Numbers: nothing is rounded on the way in, a price that is shown can be sent back, and
  quote amounts are rounded down and stored the same way by every replay.

## Modules

| Module | Models |
| --- | --- |
| `OrderBook` | `order.go`, `match.go`: the book as a record with a field per Go structure; its operations as operators from book to book; `Match` as a recursive function over its loop |
| `OrderEvents` | `order_events.go`, `event.go`: the events of a command and their validation; `applyCommand` as a function (`ApplyCreate`, `ApplyAmend`, `ApplyCancel`) |
| `ApplyCommand` | `applyCommand` as actions: `Create`, `Amend`, `Cancel`, one `Fill` per iteration of the loop, `QuoteOverflow`, `Settle`; properties of the book, the events and the logs |
| `PriceTimePriority` | abstract: a set of resting orders with arrival times and one incoming order |
| `BookRefinement` | `ApplyCommand` implements `PriceTimePriority` |
| `PriceHeap` | `max_heap.go`, `min_heap.go` and how `order.go` uses them: the slice, `Index`, and `container/heap`'s loops, one turn a step |
| `Engine` | workers, halt state, router queue, journal, the two effect tables, faults, crashes, replay; `applyCommand` is the constant operator `Apply` |
| `DurableLedger` | abstract: a ledger of commands and what has been published of each |
| `EngineRefinement` | `Engine` implements `DurableLedger` |
| `Router` | `router.go`, the handlers as goroutines, workers' and writers' channels, `main.go`: startup, `AddTicker`, shutdown; the table `markets` |
| `Decimal` | `numeric.go`: texts as sequences of characters, int64 as a bound; parsing, formatting, validation, `QuoteAmount`; no state |
| `MarketNumbers` | a price from a client's text through the book and back, and the quote amount of a fill through the store and its replays |
| `Intake` | the order handlers, `journal.Validate`, the append and its conflict check, replay's version check, `toMarket` |
| `BookProofs`, `BookRefinementProofs`, `EngineProofs`, `PriceHeapProofs`, `RouterProofs`, `DecimalProofs`, `MarketNumbersProofs`, `IntakeProofs` | theorems |
| `MC…` | values of the constants for TLC |

How they fit together. `OrderBook` to `BookRefinement` look inside one command;
`Engine` looks between commands; `MCEngine` joins the two: there `Apply` is the
function that `OrderEvents` defines on real books. `PriceHeap` justifies that a
heap of `OrderBook` is a set whose `Peek` is its best element. `Router` keeps the
blocking of the same program and drops what commands do; `Engine` keeps what they
do and has a router that is a bounded queue per ticker. `Intake` is about what
becomes a command at all, and uses the same `Decimal` as `MarketNumbers`; it ends
with the append to a store that answers, and of such appends alone
`AppendFailsOnlyOnConflict` speaks. A store that fails, and an execution that does
(`EnginePoison`), halt the engine too.

### Correspondence with the code

A book is `[levels, heap, queue, total, index, order]`: the keys of `Bids` and
`Asks`, the prices in the heaps, each level's list, `TotalAmount`, `Index`, and
what a list element points to. List elements are named by the sequence of the
command that pushed them, since one command pushes at most one. The map, the heap
and the index are separate on purpose: that the code keeps them in step is what
is checked. An order id is the tuple that `GenerateOrderID` hashes (its user is
part of the nonce), a time the sequence of the command it was recorded for.

In `PriceHeap` a level is named by its price; `heap` is the slice, `index` the
`Index` field of every level, and `pc` says whether a level is being moved up,
moved down or popped. `at` and `from` are the loop variables of `up` and `down`.

In `Engine` a worker's `pc` says which call it is about to make or waiting for.
Each store call is one action for its outcome as a whole, and an action of its
own for the outcomes in which something goes wrong: no effect and an error, or
the effect and an error. `Fail` is `halt` when live and the failure of
`startEngine` when replaying, which ends the process. Tables are indexed by
journal position rather than by hashes: ids contain the command, and a batch is
one transaction. `ON CONFLICT` of a journal insert moves the sequence counter
without inserting, which leaves the gaps that replay has to accept. The answers
clients heard, what snapshots have shown and the outcome each row should have
(`canon`) are history variables.

In `Router` every handler, the main goroutine, every worker and both writers have
a place in their code (`pc`, `worker`, `stage`). An RWMutex is who reads, and who
has announced itself as a writer: a pending writer keeps new readers out. A
handler may ask for a command, a snapshot, a new ticker or readiness, and calls
`MarketPrecision` where the code does, before routing a create, which may then be
found to have no valid numbers, and after a snapshot. A batch of a worker or of a
replay is the committer's `stage`; a store call succeeds or fails. `Exit` is the end of the process, by `Crash` or at the
end of `serve`: everything but the tables is gone. `AddTicker`'s replay of rows
that are already journaled is modelled, though no behaviour reaches it: a ticker
with rows is restored before the server listens.

In `Intake` a request is a record of texts; a name may be padded with blanks,
which the handlers trim in some places and not in others (`cancelOrder` does not).
A row keeps the command and the version of the contract it was made under.
`origin` remembers the request of each row, for the properties. JSON is taken to
lose nothing. In `MarketNumbers` and `Decimal` a text is a sequence of characters,
and `strings.Cut`, `strings.TrimRight` and the like are sequence operators.

## Runs

| Run | Question | Bounds |
| --- | --- | --- |
| `ApplyCommand` | are book, snapshots, events and logs right at every step, and is it a price-time priority book? | 4 commands, 2 prices, quantities 1 and 3, 4 nonces (symmetric); a fill of 3 at price 2 overflows, and so does a total above 5 |
| `PriceHeap` | do slice, indexes and map agree, and is `Peek` the best? | 7 levels, either side, any order of additions and removals |
| `EngineSafety` | do two workers with one halt state and one journal keep their promises, under retries and reused ids? | 5 requests on 2 tickers over real books, 3 sequences, 1 fault, 1 crash |
| `EngineRecovery` | does every restart serve, is every journaled command completed, do the tables move as the ledger may? | 4 requests on 2 tickers, 2 sequences, 1 fault, 1 crash, with fairness |
| `RouterLocks` | are all calls answered and all shutdowns finished; is what was added served and registered? | 2 tickers, 2 handlers that add and take snapshots |
| `RouterDrain` | is nothing sent on a closed channel, and is everything drained before the writers' channels close? | 1 ticker, 3 handlers with commands and an add, channels of one place |
| `Intake` | is what is accepted what is journaled, and which appends fail? | one-byte integers; about 50 requests that spell numbers and names in several ways; contracts of one and of two versions |
| `MarketNumbers` | are prices kept exact from text to text, and quote amounts from fill to replay? | all texts of up to 5 characters, one-byte integers, three contracts, two of them with a minimum of several lots |
| `OrderIdentity` | counterexample: one order id twice | 2 commands, 1 nonce |
| `EnginePoison` | counterexample: a command that no replay survives | no faults, no crashes |
| `IntakeNewRules` | counterexample: a new version of a market's row | as `Intake` |
| `QuoteCoarse` | counterexample: a quote amount that rounds to zero | a contract with a coarser quote scale |

Why the bounds are enough to be interesting. Four commands on a book let an order
rest, be filled in part, be edited, and then be filled or cancelled; queues reach
length four, and both sides have two levels. Quantities 1 and 3 give fills in
which the maker, the taker, or neither is left over, and edits in both directions.
With two prices a taker can walk through a level and stop at the next; a trade
that overflows can be the first of its match or come after others. Nonces are
interchangeable, so they are a symmetry set. From six levels on, removing one from
the middle of a heap can put one in its place that has to move up; seven are
checked. One
fault and one crash suffice to interrupt a command between any two of its
transactions, and again during the replay that repairs it; a halt adds a restart
that is not counted. Two tickers share everything that workers can share. Two
handlers and the main goroutine are enough for a reader, a pending writer and one
more who waits behind it; three handlers fill a queue of one place while a third
is in the worker. Texts of five characters hold a sign, a blank, a point and
digits on both sides, and reach the largest and smallest byte. A fill may be of any
number of lots up to the maximum of an order: it is the smaller of two residuals, and
may be less than an order may be of.

Bounds in guards: `MaxElem` (commands on a book), `MaxSequence` (sequences per
ticker), `MaxFaults`, `MaxCrashes`, `QueueCap` and `OutCap` (the real buffer
sizes). `Router` needs no other bound. `MaxInt64` is one byte where numbers are the
question, 5 in `ApplyCommand` so that quote amounts and level totals overflow, and
out of reach elsewhere; `MaxScale` and `DefaultScale` are cut to match.

Deadlock is checked in the runs of `Router`, `PriceHeap` and `Intake`. The other
models stop when their bounds are used up; `ApplyCommand` also stops for good after
an error, as the halted worker does, and `MarketNumbers` ends with a refused text.

Every property of a passing run has a mutant: an operator next to the definition
it replaces, marked `Mutant`, that makes a plausible mistake and violates the
property.

### Disagreements with the documents

The four counterexamples are disagreements between a document of the repository
and the code; `PROJECT.json` quotes them under `findings`.

* A second create with the same identity hash takes the `Index` entry of the
  order that rests.
* A command whose quote amount overflows is journaled before that is found, and
  every replay fails on it.
* A market that has journaled a command cannot be given a new configuration
  version: the next startup refuses its rows.
* A quote amount that rounds to zero is taken to be missing and stored as computed
  with the default precision. `RoundedDown` holds when the price and quantity scales
  together exceed the quote scale by no more than the default scale, as in the
  contracts of the passing run.

Two more disagreements have no run of their own. A level's `TotalAmount` wraps around
when the orders at one price add up to more than an int64
(`internal/engine/order.go:113`, against `context/docs/orderbook.md:20`). Totals wrap
in the run `ApplyCommand`: `TotalsExact` says that they are exact again as soon as the
sum fits, and the other properties that nothing else depends on them. A worker that
halted goes on answering snapshots, from a book with the execution that was not
committed (`internal/engine/bookworker.go:94`, against
`context/docs/matching-log.md:26`): `SnapshotsShowDurable` bounds what is exposed to
the last journal row of a ticker.

### Fairness

`Engine.FairSpec` assumes that goroutines are scheduled and PostgreSQL answers
(weak fairness of `WorkerStep` and `ReplayRow` per ticker), that startup finishes
once replay has (`Serve`), that a process that is down is started again and one
that has halted is stopped (`Start`, `StopHalted`;
`context/docs/order-journal.md` asks the operator for both). Faults and crashes are
never obliged to happen and are finitely many. Nothing is assumed about clients.

`Router.FairSpec` assumes that goroutines are scheduled and stores answer. Whoever
waits for a mutex or for room in a channel is served in turn: Go's `sync.Mutex`
hands over to a waiter that has starved for a millisecond, and senders queue up at
a channel. Hence strong fairness of each handler and each worker, weak fairness of
the writers and of the main goroutine. Nobody is obliged to call, to stop, to start
or to crash the process, and crashes are not bounded.

## Proofs

All theorems are for any values of the constants that satisfy the modules' named
assumptions.

| Theorem | Property |
| --- | --- |
| `BookProofs`: `TypeCorrect` | `TypeOK` |
| `LevelsAlwaysAgree` | `LevelsAgree` |
| `EventsAreAlwaysValid` | `EventsNeverRejected` |
| `IndexAlwaysExact` | `IndexExact`, if `UniqueNonces` |
| `TotalsAlwaysExact` | `TotalsExact` modulo 2^64; the sum itself, if `QuantitiesFit` |
| `SnapshotsAlwaysFaithful` | `SnapshotFaithful`, sums modulo 2^64 |
| `MatchEnds` | of the loop as a function: it ends, within the bound of `Match` |
| `OutcomesAreGood` | of a command as a function: from a sound book to a sound book, no event refused |
| `StepsExecuteTheFunction` | the steps of a command come to what that function returns |
| `BookRefinementProofs`: `ImplementsPriceTimePriority` | `PriceTimePriority`, if `UniqueNonces` |
| `EventsAlwaysChain` | `EventsChain` |
| `EventsAlwaysExplainBook` | `EventsExplainBook` |
| `LogsAlwaysExplainFills` | `LogsExplainFills` |
| `EngineProofs`: `TypeCorrect` | `TypeOK` |
| `AlwaysConsistent` | `Consistent` |
| `AnswersAreDurable` | `AnsweredDurable` |
| `OnlyTheLastIsPending` | `OnlyLastPending` |
| `EffectsAreReplayable` | `OnlyReplayableEffects` |
| `JournalIsOrdered` | `JournalOrdered` |
| `BookIsReplay` | `BookIsReplayOfJournal` |
| `ReplayAgrees` | `ReplayAgreesWithStore` |
| `HaltIsFinal` | `HaltedAdmitsNoCommand` |
| `SnapshotsAreDurable` | `SnapshotsShowDurable` |
| `ImplementsTheLedger` | `ImplementsLedger` |
| `PriceHeapProofs`: `TypeCorrect` | `TypeOK` |
| `IndexesAreExact` | `IndexesExact` |
| `SliceHoldsLevels` | `HeapHoldsLevels` |
| `PeekFindsBest` | `PeekIsBest` |
| `RouterProofs`: `TypeCorrect` | `TypeOK` |
| `NeverSendsOnClosed` | `NoSendOnClosed` |
| `ShutdownDrains` | `Drained` |
| `AddedStaysServed` | `AddedIsServed` |
| `ServedStaysRegistered` | `ServedIsRegistered` |
| `DecimalProofs`: `ParseExact`, `SignIsOfValue`, `ShownReadsBack` | of the operators |
| `MarketNumbersProofs`: `NothingEverRounded` | `NothingRounded` |
| `SignAlwaysAgrees` | `SignAgrees` |
| `ShownAlwaysMeansTheSame` | `ShownMeansTheSame` |
| `StoredFillsAlwaysReplay` | `StoredFillsReplay` |
| `QuotesRoundedDown` | `RoundedDown`, if `QuoteFineEnough` |
| `IntakeProofs`: `AcceptedAlwaysJournaled` | `AcceptedIsJournaled` |
| `AlwaysUnderOwnContract` | `ReplayedUnderOwnContract` |
| `RowsAlwaysKeepContract` | `RowsKeepContract` |
| `AppendFailsOnlyOnRealConflict` | `AppendFailsOnlyOnConflict` |

The type invariants of `Engine`, `PriceHeap` and `Router` are proved and not run.

**Book.** Any prices, quantities, nonces and number of commands, with int64 sums that
wrap around at any width. None of the properties is inductive: whether a removal may
drop a level depends on what else is queued there, and whether an event is valid on
what the order had when the command began. `Sound` says of a book that each level is
known to the map and the heap exactly when its queue is not empty, and that what is
queued rests there as a limit order with something left, that queues are in the order
of their elements, and that every element is queued. Every operation is
shown to be one of three changes, or two of them in turn: it unlinks an element
(`Unlinks`), links one at the end of a queue (`Links`) or gives one another quantity
(`Resizes`); `RemoveElementUnlinks`, `AddOrderLinks`, `EditFacts` and `FillUpdates`
prove this of the operators, `UnlinkKeeps`, `LinkKeeps` and `ResizeKeeps` that the
changes keep `Sound`. `Inv` adds that the next element is unused
(`FreshElements`), and that what is left of a taker and the fills collected so far
add up (`MatchInProgress`), from which every generated event passes the validation.
The Index is exact only if no two orders have one id: `IdsUnique` says that the ids
that rest are issued, and that the order being matched is none of them. The assumptions used
are that prices and quantities are positive and that `NoOrder` is no order.

*Totals.* A total wraps around with the int64 it is, so `Totalled` says of each level
that its total is the sum of its orders' amounts modulo 2^64: this is inductive whatever
the sum. The sum is taken over all elements, nought for those that are not at the level
(`Quantity`), so that an operation changes one term of it (`TotalMoves`), and is shown to
be that of the queue, each element being queued once. `QuantitiesFit` says that these
sums fit an int64, in the state in which the total is read, which is then the sum
itself; it may have been different before. The cumulative amounts of a snapshot are
sums modulo 2^64 as well (`WrapAdds`). That a snapshot has every level once and in
order rests on `Sortable`, by which a finite set of prices can be listed best first.

*Histories.* The events of a command are published when it is done, but its fills change
the book one by one. `Reported` is what has been published and what the command has
collected: the event of its amend and those of the makers it has executed. `HistoryTold`
says that in `Reported` the events of each order form a chain, that the latest event of
every order but the taker says what rests of it and at which price, and that the taker's
says what it was before `Match` (`Announced`). After a quote overflow the book is ahead of
what is told and stays so, the worker having halted; only the chain is left.
`FillsLogged` says that what the events of an order fill, and what a taker has got that
no event says yet (`Unreported`), is what the logs trade of it.

*Sums.* The library's operators that sum are folds, of which nothing can be proved by
induction over data. But a sum has running sums, which exist and are unique by the least
number principle, and a fold over a set of indices, whichever it takes off first, comes
to the running sum over that set (`FoldIsSum`). The first sections of `BookProofs` prove
this once; the rest uses that sums over the same indices add up, agree or differ in one
term.

*The command as a function.* `Engine` takes a command's execution as one call (`Apply`),
which `MCEngine` gives the functions `ApplyCreate` and `ApplyCancel`, whose loop `Match`
iterates at most `MaxElem + 1` times. `MatchEnds` shows that this bound cuts nothing off:
every iteration but the last consumes a resting order (`IterationTakesOne`), and there are
at most `MaxElem`. `OutcomesAreGood` gathers from the lemmas on the operations that
whatever sound book a command finds, it leaves a sound one and events that their writer
accepts. Match's states are unique (`IterationsAgree`), which is how a recursive function
can be reasoned about without induction over data. `StepsExecuteTheFunction` ties the two
readings of `applyCommand` together. `Foretold` is what the command in progress will
return, found by running the loop from its current state to the end: it is the outcome of
the function when the command begins, a fill leaves it as it is (`RunIterated`), and it is
what `Settle` publishes or how `QuoteOverflow` fails. What is proved of the steps thus
holds of the call that `Engine` takes, and the other way round.

`ImplementsPriceTimePriority` maps each step, as `BookRefinement` defines it. Under
`Sound` the queued orders are the elements in use (`QueuedRests`), so the three changes
of a book are changes of a set: an order less, one more, one with another quantity. An
element is the sequence of the command that queued it and serves as its arrival time;
queues being in the order of their elements, the head of the best level comes before
every other order of its side (`MakerHasPriority`), and when the loop ends with
something left no order crosses it (`NothingCrosses`). `Create` is `Arrive`, whose new
id no resting order may have: this is where unique nonces are needed. `Amend` is one of
`Ignore`, `Reduce`, `Increase` and `Reprice`, a `Fill` is a `Trade`, `QuoteOverflow` is
`Refuse` and `Settle` is `Conclude`. One more invariant, `History`, says that an idle
worker holds neither an order nor logs. Assumed besides is that `NoOrder` is no incoming
order (`NoIncomingAssumption`).

**Engine.** Any sets of tickers, requests, payloads and books, any bounds, and any
operator `Apply`. Assumed besides the module's constants is `ApplyTyped`, which
says that `Apply` returns an `Outcome` for a book in `Books`, a payload and a
sequence. It holds for any `Apply` if `Books` and `Batches` are taken large
enough. That `Apply` is an operator says that `applyCommand` is deterministic: it
reads the book, the payload, the sequence and the recorded time, and nothing else.

No single property is inductive. That a retry may be answered from
the journal (`AnsweredDurable`) rests on every row but the last being complete
(`OnlyLastPending`); that rests on a worker never taking a command past one it did
not finish, thus on the halt state and on how far each worker has come; and that
the replay's writes are accepted (`ReplayAgreesWithStore`) rests on the book from
which they were computed being the replay of the rows before
(`BookIsReplayOfJournal`). `Consistent` is their conjunction made inductive:
`StoreConsistent` speaks of the tables alone, `BetweenCommands` and `WithinCommand`
say for each `pc` how much of the current row is in the book and in the tables.
`Inv == TypeOK /\ Consistent` is shown to hold initially and to be preserved by
each action. `SnapshotsAreDurable` needs two more invariants: that `mutated`, the
number of rows whose execution the book contains, is in an engine that has not halted
the number of rows begun to be executed (`MutatedTracks`), and that it never exceeds
the number of rows, halted or not (`MutatedJournaled`).

`ImplementsTheLedger` maps each step under `Inv`: a new journal row is `Enter`,
which may happen because all earlier rows of the ticker are complete; a batch
written for the first time is `PublishLogs` or `PublishEvents`, written again it
is a stutter; an acknowledgement, of a first attempt or of a retry, is `Answer`;
everything else leaves the mapped variables alone. It needs one more invariant,
that a worker waits for a writer only when it has given it rows (`Pending`).

**PriceHeap.** Any set of prices, hence heaps of any size. `HeapKept` is the
inductive part: between operations every level is no better than its parent, and
in the loops this holds except at the place the loop has come to, across which
grandparent and grandchildren are still in order. That the first place then holds
the best of all is not an induction on the heap: the least index of a level better
than the first has a parent that is one too, and least indexes exist because `<` on
the naturals is well founded (`NatLessThanWellFounded` and `WFMin` of the library).

**Router.** Any numbers of tickers and handlers, any kinds of request, any channel
sizes. `IInv` has the types in four parts and nine conjuncts. `LocksHeld` reads from the places of
the goroutines who holds which lock, `Readers` that a handler which sends or waits
holds the read lock and has a registered worker: so `Close`, which needs the lock,
finds nobody sending, and `ClosedLast` follows. `Waiting` says that who is queued or
served waits for an answer and occurs once, so that a worker that ends leaves nobody
behind. `Batches` and `Unsaved` say that a batch under way, in a channel or
not, has a worker that commits or a replay that waits for it: with every worker done
and `lifecycleMu` taken there is none, which is `Drained`. `Started` and `Registered`
follow the startup until every ticker of the tables has a worker. Each action has a
lemma that it preserves `IInv`.

**Numbers.** Any width of integer, any largest scale, and texts of any length over
`Char`: every string, the digits, the point and the minus, which are listed because the
prover does not know that a literal is a string. A power of ten, the number that digits
write and what a text says (`Mantissa`, `Places`) are recursive functions; that such a
function exists and is unique (`StepsExist`, `PowersAgree`, `ReadsAgree`), and what it
computes, is proved by taking the least place at which a claim fails (`UpTo`), which is
an induction over an interval without an operator parameter.

`ParseExact` follows the code's cuts of a text: blanks, sign, the part before and after
the point. `Parsed` says where each part lies in the text; `Counting` that reading the
whole text, where a character that is no digit changes nothing, reads the parts one after
the other; the padding with zeros is a multiplication by the power of ten that
`Places` leaves of the scale. So the accepted value is the written one, and a text with a
digit too many is never accepted, whatever that digit is. For `ShownReadsBack` the
digits of a number are its quotients by ten (`ExpansionNumber`), and neither padding in
front nor cutting zeros at the end changes what is read (`Padding`, `CutsZeros`).

`MarketNumbers` carries this along: `Travels` says that a text under way is the shown
form of a number that was accepted once, `Fills` that what is stored is what every replay
computes again, with the store's second computation of a zero amount; of the amount they
need only that it is positive, so that fills below a market's minimum are included.
`ShownMeansTheSame` is about prices. The quantities of a response are totals of
residuals, which may lie outside the bounds that `ParseQuantity` sets for an order, and
nothing is claimed of sending them back. `RoundedDown` needs
`QuoteFineEnough`, the condition on the scales under which that second computation gives
zero, too; without it the run `QuoteCoarse` violates it. Assumed of the constants is that
contracts are valid, as `AddTicker` and startup check, and that texts are sequences of
strings.

**Intake.** Any requests, and any history of a market's contract whose versions count up
from one. `Becomes(o, c, p)` says that under the contract `p` the request `o` is the
command `c`: the same names, and numbers that are exactly the written ones in `p`'s units
(`Units`). Each handler produces only such commands (`CreateBecomes`, `AmendBecomes`,
`CancelBecomes`); `journal.Validate` accepts all of them (`BecomesValid`), so that no
append fails because of the command alone; and two requests of one id become
equal commands if and only if they mean the same (`SameMeaning`), by which a payload that
differs is a conflict and an equal one is a retry. The inductive invariant says that every
row is `Explained` by a request under the version it carries, and that a serving process
has the version of every row (`Served`): startup compares them, nothing changes them
while it serves, and a new row gets that version.

Only model-checked: liveness, since fairness and `ENABLED` are outside the prover's
reach. Every invariant and every other action property of the passing runs is stated by
a theorem, under the condition that the table names.

## Not modelled

* Configuration, which reads buffer sizes from a file; the generated queries, which
  the stores call; test data and logging. They have no behaviour of their own.
* Hash collisions, and a database clock that repeats an instant: the ids of
  executions and events contain that time, and the models tell commands apart by
  their sequence.
* An insert of a dead process that commits after its successor has read the
  journal: in `Engine` a lost call commits, at the latest, when its process ends.
* Store calls that never return. They have no deadline, and a call that never
  answers blocks its worker for good; the liveness properties assume an answer.
* The loss of precision or fields in JSON, `created_at`, reasons and wordings.

## How it was built

In this order: the book and its events, the engine and its ledger, the engine's
proofs; then the router with startup and shutdown and its proofs, the price heaps and
their proofs, the numbers, the intake, and the proofs about the book: its structures,
that it implements price-time priority, its totals and snapshots, its histories; at
last the proofs about the numbers and the intake.
