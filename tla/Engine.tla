------------------------------- MODULE Engine -------------------------------
(***************************************************************************)
(* The write path of the matching engine and its recovery: one BookWorker  *)
(* per ticker (internal/engine/bookworker.go) that journals each command   *)
(* in PostgreSQL, applies it to its in-memory book, has the match logs and *)
(* then the order events committed by their writers, and only then         *)
(* acknowledges it; the EngineState all workers share; and cmd/server,     *)
(* which rebuilds every book by replaying the journal before it serves.    *)
(*                                                                         *)
(* A store call can succeed, fail without effect, or fail although it was  *)
(* committed.  The process can die at any moment.  What applyCommand       *)
(* computes is a parameter, so nothing here depends on how orders match.   *)
(*                                                                         *)
(* match_logs and order_events are kept per journal row: the rows of one   *)
(* command are written in one transaction, and their keys are hashes of    *)
(* the command's identity, which no two commands share.                    *)
(***************************************************************************)
EXTENDS Integers, Sequences

CONSTANTS
    Ticker,
    CommandID,
    Payload,
    Request,        \* the requests clients may send, any number of times
    Empty,          \* the book of a new worker
    Apply(_, _, _), \* applyCommand: the outcome of a book, a payload, a sequence
    Books, Batches, \* the values outcomes consist of
    NoBatch,        \* no rows written for a command
    NoRequest, NoOutcome, \* what an idle worker holds
    QueueCap,       \* InputBufferSize
    MaxSequence,    \* bound on sequences a ticker is given
    MaxFaults,      \* bound on store calls that go wrong
    MaxCrashes      \* bound on process deaths that are not a reaction to an error

ASSUME RequestAssumption ==
    Request \subseteq [id : CommandID, ticker : Ticker, payload : Payload]

ASSUME BoundsAssumption ==
    /\ QueueCap \in Nat \ {0}
    /\ MaxSequence \in Nat
    /\ MaxFaults \in Nat
    /\ MaxCrashes \in Nat

Outcome == [matched : Books, book : Books, logs : Batches, events : Batches,
            err : BOOLEAN, rejected : BOOLEAN]

ASSUME OutcomeAssumption ==
    /\ Empty \in Books
    /\ << >> \in Batches
    /\ NoBatch \notin Batches
    /\ NoOutcome \notin Outcome
    /\ NoRequest \notin Request

VARIABLES
    journal,     \* order_journal: per ticker, its rows in sequence order
    counter,     \* order_journal_sequences.last_sequence
    matchLogs,   \* match_logs: per ticker and journal position, the batch written
    orderEvents, \* order_events: likewise
    mode,        \* "down", "replaying" (startEngine) or "serving"
    halted,      \* EngineState.cause # nil
    queue,       \* w.in: requests routed to each worker
    worker,      \* what each worker's goroutine is doing
    book,        \* w.OrderBook
    applied,     \* rows whose processing this process has completed
    mutated,     \* rows whose execution this process's book contains
    answered,    \* history: requests acknowledged without an error
    shown,       \* history: rows whose execution some snapshot has shown
    canon,       \* history: the outcome each row has on the rows before it
    faults,      \* store calls gone wrong so far
    crashes      \* crashes so far

stores == <<journal, counter, matchLogs, orderEvents, canon>>
process == <<mode, halted, queue, worker, book, applied, mutated>>
observed == <<answered, shown>>
vars == <<stores, process, observed, faults, crashes>>

\* pc: "idle"; "append" before journalStore.Append; "apply" before
\* applyCommand; "logs" while persistMatchLogs waits; "rest" from there to
\* applyCommand's return; "events" while persistOrderEvents waits; "ack".
PC == {"idle", "append", "apply", "logs", "rest", "events", "ack"}

IdleWorker == [pc |-> "idle", request |-> NoRequest, outcome |-> NoOutcome]

Rows(t) == 1..Len(journal[t])

\* The book that replaying the first n rows, or all rows, of t gives.
PrefixBook(t, n) == IF n = 0 THEN Empty ELSE canon[t][n].book
LastBook(t) == PrefixBook(t, Len(journal[t]))

\* The row a worker is working on is the one after those it has completed.
Current(t) == applied[t] + 1

InitProcess ==
    /\ halted = FALSE
    /\ queue = [t \in Ticker |-> << >>]
    /\ worker = [t \in Ticker |-> IdleWorker]
    /\ book = [t \in Ticker |-> Empty]
    /\ applied = [t \in Ticker |-> 0]
    /\ mutated = [t \in Ticker |-> 0]

Init ==
    /\ journal = [t \in Ticker |-> << >>]
    /\ counter = [t \in Ticker |-> 0]
    /\ matchLogs = [t \in Ticker |-> << >>]
    /\ orderEvents = [t \in Ticker |-> << >>]
    /\ canon = [t \in Ticker |-> << >>]
    /\ mode = "down"
    /\ InitProcess
    /\ answered = {}
    /\ shown = [t \in Ticker |-> 0]
    /\ faults = 0
    /\ crashes = 0

-----------------------------------------------------------------------------
(* The process                                                             *)

\* The process ends: nothing in memory survives, clients lose their requests.
Exit ==
    /\ mode' = "down"
    /\ halted' = FALSE
    /\ queue' = [t \in Ticker |-> << >>]
    /\ worker' = [t \in Ticker |-> IdleWorker]
    /\ book' = [t \in Ticker |-> Empty]
    /\ applied' = [t \in Ticker |-> 0]
    /\ mutated' = [t \in Ticker |-> 0]

Crash ==
    /\ mode # "down"
    /\ crashes < MaxCrashes
    /\ crashes' = crashes + 1
    /\ Exit
    /\ UNCHANGED <<stores, observed, faults>>

\* The operator takes a halted process down.
StopHalted ==
    /\ mode = "serving" /\ halted
    /\ Exit
    /\ UNCHANGED <<stores, observed, faults, crashes>>

Start ==
    /\ mode = "down"
    /\ mode' = "replaying"
    /\ UNCHANGED <<stores, halted, queue, worker, book, applied, mutated, observed, faults, crashes>>

\* Mutant: the server opens while journal rows are still to be replayed.
ServeEarly ==
    /\ mode = "replaying"
    /\ \A t \in Ticker : worker[t].pc = "idle"
    /\ mode' = "serving"
    /\ UNCHANGED <<stores, halted, queue, worker, book, applied, mutated, observed, faults, crashes>>

\* The HTTP server opens when every ticker has been replayed and registered.
Serve ==
    /\ mode = "replaying"
    /\ \A t \in Ticker : worker[t].pc = "idle" /\ applied[t] = Len(journal[t])
    /\ mode' = "serving"
    /\ UNCHANGED <<stores, halted, queue, worker, book, applied, mutated, observed, faults, crashes>>

\* Mutant: the client is told, and the engine goes on.
FailSilently(t) ==
    /\ worker' = [worker EXCEPT ![t] = IdleWorker]
    /\ UNCHANGED <<mode, halted, queue, applied>>

\* An error: a live worker halts the engine and answers the client with it;
\* during replay startEngine gives up.
Fail(t) ==
    IF mode = "serving"
    THEN /\ halted' = TRUE
         /\ worker' = [worker EXCEPT ![t] = IdleWorker]
         /\ UNCHANGED <<mode, queue, applied>>
    ELSE /\ mode' = "down"
         /\ halted' = FALSE
         /\ queue' = [u \in Ticker |-> << >>]
         /\ worker' = [u \in Ticker |-> IdleWorker]
         /\ applied' = [u \in Ticker |-> 0]

\* What becomes of the in-memory books then, b being this worker's.
FailBook(t, b, m) ==
    IF mode = "serving"
    THEN /\ book' = [book EXCEPT ![t] = b]
         /\ mutated' = [mutated EXCEPT ![t] = m]
    ELSE /\ book' = [u \in Ticker |-> Empty]
         /\ mutated' = [u \in Ticker |-> 0]

Goto(t, pc) == worker' = [worker EXCEPT ![t].pc = pc]

StoreFault == faults < MaxFaults /\ faults' = faults + 1

-----------------------------------------------------------------------------
(* Requests                                                                *)

\* OrderRouter: refuse when halted, else put the event on the worker's queue
\* and wait.
Submit(r) ==
    /\ mode = "serving" /\ ~halted
    /\ Len(queue[r.ticker]) < QueueCap
    /\ queue' = [queue EXCEPT ![r.ticker] = Append(@, r)]
    /\ UNCHANGED <<stores, mode, halted, worker, book, applied, mutated, observed, faults, crashes>>

\* Mutant: a request queued before the halt is still executed.
ReceiveWhenHalted(t) ==
    /\ mode = "serving" /\ worker[t].pc = "idle" /\ queue[t] # << >>
    /\ counter[t] < MaxSequence
    /\ queue' = [queue EXCEPT ![t] = Tail(@)]
    /\ worker' = [worker EXCEPT ![t].pc = "append", ![t].request = Head(queue[t])]
    /\ UNCHANGED <<stores, mode, halted, book, applied, mutated, observed, faults, crashes>>

\* Run takes the next event; if the engine has halted since it was queued, it
\* is answered with the error.
Receive(t) ==
    /\ mode = "serving" /\ worker[t].pc = "idle" /\ queue[t] # << >>
    /\ counter[t] < MaxSequence
    /\ queue' = [queue EXCEPT ![t] = Tail(@)]
    /\ worker' = IF halted THEN worker
                 ELSE [worker EXCEPT ![t].pc = "append", ![t].request = Head(queue[t])]
    /\ UNCHANGED <<stores, mode, halted, book, applied, mutated, observed, faults, crashes>>

\* Mutant: order_journal without its primary key.
JournaledNever(id) == FALSE

Journaled(id) == \E t \in Ticker : \E n \in Rows(t) : journal[t][n].id = id

\* Mutant: the id alone identifies a retry.
SamePayloadById(r) == \E n \in Rows(r.ticker) : journal[r.ticker][n].id = r.id

\* journal.SamePayload also compares the ticker.
SamePayload(r) ==
    \E n \in Rows(r.ticker) :
        journal[r.ticker][n].id = r.id /\ journal[r.ticker][n].payload = r.payload

InsertRow(t, r) ==
    /\ journal' = [journal EXCEPT ![t] = Append(@,
                      [id |-> r.id, payload |-> r.payload, sequence |-> counter[t] + 1])]
    /\ counter' = [counter EXCEPT ![t] = @ + 1]
    /\ matchLogs' = [matchLogs EXCEPT ![t] = Append(@, NoBatch)]
    /\ orderEvents' = [orderEvents EXCEPT ![t] = Append(@, NoBatch)]
    /\ canon' = [canon EXCEPT ![t] = Append(@, Apply(LastBook(t), r.payload, counter[t] + 1))]

AppendInserted(t) ==
    /\ worker[t].pc = "append"
    /\ ~Journaled(worker[t].request.id)
    /\ InsertRow(t, worker[t].request)
    /\ Goto(t, "apply")
    /\ UNCHANGED <<mode, halted, queue, book, applied, mutated, observed, faults, crashes>>

\* ON CONFLICT DO NOTHING still moves the ticker's sequence counter.
AppendDuplicate(t) ==
    /\ worker[t].pc = "append"
    /\ Journaled(worker[t].request.id) /\ SamePayload(worker[t].request)
    /\ counter' = [counter EXCEPT ![t] = @ + 1]
    /\ answered' = answered \cup {worker[t].request}
    /\ worker' = [worker EXCEPT ![t] = IdleWorker]
    /\ UNCHANGED <<journal, matchLogs, orderEvents, canon, mode, halted, queue, book, applied,
                   mutated, shown, faults, crashes>>

AppendConflict(t) ==
    /\ worker[t].pc = "append"
    /\ Journaled(worker[t].request.id) /\ ~SamePayload(worker[t].request)
    /\ counter' = [counter EXCEPT ![t] = @ + 1]
    /\ Fail(t)
    /\ UNCHANGED <<journal, matchLogs, orderEvents, canon, book, mutated, observed, faults, crashes>>

\* Append returns an error: nothing was committed, or the row was, or only the
\* counter moved and reading the existing row failed.
AppendFault(t) ==
    /\ worker[t].pc = "append" /\ StoreFault
    /\ \/ UNCHANGED stores
       \/ /\ ~Journaled(worker[t].request.id)
          /\ InsertRow(t, worker[t].request)
       \/ /\ Journaled(worker[t].request.id)
          /\ counter' = [counter EXCEPT ![t] = @ + 1]
          /\ UNCHANGED <<journal, matchLogs, orderEvents, canon>>
    /\ Fail(t)
    /\ UNCHANGED <<book, mutated, observed, crashes>>

-----------------------------------------------------------------------------
(* Replay, one ticker after the other                                      *)

ReplayRow(t) ==
    /\ mode = "replaying"
    /\ applied[t] < Len(journal[t])
    /\ \A u \in Ticker : worker[u].pc = "idle"
    /\ \A u \in Ticker \ {t} : applied[u] \in {0, Len(journal[u])}
    /\ IF Current(t) > 1 => journal[t][Current(t)].sequence > journal[t][applied[t]].sequence
       THEN Goto(t, "apply") /\ UNCHANGED <<mode, halted, queue, applied, book, mutated>>
       ELSE Fail(t) /\ FailBook(t, book[t], mutated[t])
    /\ UNCHANGED <<stores, observed, faults, crashes>>

-----------------------------------------------------------------------------
(* applyCommand and the two writers, live and in replay                    *)

\* Mutant: replay executes at the present time, not at the recorded one.
ApplyRowNow(t) ==
    /\ worker[t].pc = "apply"
    /\ LET row == journal[t][Current(t)]
           outcome == Apply(book[t], row.payload, counter[t])
       IN  IF outcome.err
           THEN Fail(t) /\ FailBook(t, outcome.matched, Current(t))
           ELSE /\ worker' = [worker EXCEPT ![t].outcome = outcome,
                                 ![t].pc = IF outcome.logs = << >> THEN "rest" ELSE "logs"]
                /\ book' = [book EXCEPT ![t] = outcome.matched]
                /\ mutated' = [mutated EXCEPT ![t] = Current(t)]
                /\ UNCHANGED <<mode, halted, queue, applied>>
    /\ UNCHANGED <<stores, observed, faults, crashes>>

ApplyRow(t) ==
    /\ worker[t].pc = "apply"
    /\ LET row == journal[t][Current(t)]
           outcome == Apply(book[t], row.payload, row.sequence)
       IN  IF outcome.err
           THEN Fail(t) /\ FailBook(t, outcome.matched, Current(t))
           ELSE /\ worker' = [worker EXCEPT ![t].outcome = outcome,
                                 ![t].pc = IF outcome.logs = << >> THEN "rest" ELSE "logs"]
                /\ book' = [book EXCEPT ![t] = outcome.matched]
                /\ mutated' = [mutated EXCEPT ![t] = Current(t)]
                /\ UNCHANGED <<mode, halted, queue, applied>>
    /\ UNCHANGED <<stores, observed, faults, crashes>>

\* Mutant: an insert that does not expect its rows to exist.
LogsNew(t) == matchLogs[t][Current(t)] = NoBatch

\* SaveMatchLogs inserts the batch in one transaction; a row that exists
\* already must be equal.
LogsAccepted(t) == matchLogs[t][Current(t)] \in {NoBatch, worker[t].outcome.logs}

WriteLogs(t) == matchLogs' = [matchLogs EXCEPT ![t][Current(t)] = worker[t].outcome.logs]

\* Mutant: the worker does not wait for the batch to be committed.
SaveLogsLater(t) ==
    /\ worker[t].pc = "logs"
    /\ Goto(t, "rest")
    /\ UNCHANGED <<stores, mode, halted, queue, applied, book, mutated, observed, faults, crashes>>

SaveLogs(t) ==
    /\ worker[t].pc = "logs"
    /\ IF LogsAccepted(t)
       THEN WriteLogs(t) /\ Goto(t, "rest")
            /\ UNCHANGED <<mode, halted, queue, applied, book, mutated>>
       ELSE Fail(t) /\ FailBook(t, book[t], mutated[t]) /\ UNCHANGED matchLogs
    /\ UNCHANGED <<journal, counter, orderEvents, canon, observed, faults, crashes>>

SaveLogsFault(t) ==
    /\ worker[t].pc = "logs" /\ StoreFault
    /\ \/ UNCHANGED matchLogs
       \/ LogsAccepted(t) /\ WriteLogs(t)
    /\ Fail(t) /\ FailBook(t, book[t], mutated[t])
    /\ UNCHANGED <<journal, counter, orderEvents, canon, observed, crashes>>

\* The residual rests, and the builder's events are validated.
Rest(t) ==
    /\ worker[t].pc = "rest"
    /\ IF worker[t].outcome.rejected
       THEN Fail(t) /\ FailBook(t, worker[t].outcome.book, mutated[t])
       ELSE /\ Goto(t, IF worker[t].outcome.events = << >> THEN "ack" ELSE "events")
            /\ book' = [book EXCEPT ![t] = worker[t].outcome.book]
            /\ UNCHANGED <<mode, halted, queue, applied, mutated>>
    /\ UNCHANGED <<stores, observed, faults, crashes>>

\* SaveEvents, likewise.
EventsAccepted(t) == orderEvents[t][Current(t)] \in {NoBatch, worker[t].outcome.events}

WriteEvents(t) == orderEvents' = [orderEvents EXCEPT ![t][Current(t)] = worker[t].outcome.events]

SaveEvents(t) ==
    /\ worker[t].pc = "events"
    /\ IF EventsAccepted(t)
       THEN WriteEvents(t) /\ Goto(t, "ack")
            /\ UNCHANGED <<mode, halted, queue, applied, book, mutated>>
       ELSE Fail(t) /\ FailBook(t, book[t], mutated[t]) /\ UNCHANGED orderEvents
    /\ UNCHANGED <<journal, counter, matchLogs, canon, observed, faults, crashes>>

SaveEventsFault(t) ==
    /\ worker[t].pc = "events" /\ StoreFault
    /\ \/ UNCHANGED orderEvents
       \/ EventsAccepted(t) /\ WriteEvents(t)
    /\ Fail(t) /\ FailBook(t, book[t], mutated[t])
    /\ UNCHANGED <<journal, counter, matchLogs, canon, observed, crashes>>

\* ev.acknowledge(nil), or the next turn of Replay's loop.
Acknowledge(t) ==
    /\ worker[t].pc = "ack"
    /\ answered' = IF mode = "serving" THEN answered \cup {worker[t].request} ELSE answered
    /\ applied' = [applied EXCEPT ![t] = @ + 1]
    /\ worker' = [worker EXCEPT ![t] = IdleWorker]
    /\ UNCHANGED <<stores, mode, halted, queue, book, mutated, shown, faults, crashes>>

\* Mutant: a snapshot is read while the worker is within a command.
SnapshotDuringCommand(t) ==
    /\ mode = "serving"
    /\ shown[t] < mutated[t]
    /\ shown' = [shown EXCEPT ![t] = mutated[t]]
    /\ UNCHANGED <<stores, process, answered, faults, crashes>>

\* The worker serves a snapshot between two commands, halted or not.
Snapshot(t) ==
    /\ mode = "serving" /\ worker[t].pc = "idle"
    /\ shown[t] < mutated[t]
    /\ shown' = [shown EXCEPT ![t] = mutated[t]]
    /\ UNCHANGED <<stores, process, answered, faults, crashes>>

-----------------------------------------------------------------------------

WorkerStep(t) ==
    \/ Receive(t)
    \/ AppendInserted(t) \/ AppendDuplicate(t) \/ AppendConflict(t) \/ AppendFault(t)
    \/ ApplyRow(t)
    \/ SaveLogs(t) \/ SaveLogsFault(t)
    \/ Rest(t)
    \/ SaveEvents(t) \/ SaveEventsFault(t)
    \/ Acknowledge(t)

Next ==
    \/ Start \/ Serve \/ StopHalted \/ Crash
    \/ \E r \in Request : Submit(r)
    \/ \E t \in Ticker : ReplayRow(t) \/ WorkerStep(t) \/ Snapshot(t)

Spec == Init /\ [][Next]_vars

(***************************************************************************)
(* Fairness: goroutines are scheduled, PostgreSQL answers, and the process *)
(* is started again whenever it is down and stopped when it has halted.    *)
(* Faults and crashes are never obliged to happen.                         *)
(***************************************************************************)
FairSpec ==
    /\ Spec
    /\ WF_vars(Start) /\ WF_vars(Serve) /\ WF_vars(StopHalted)
    /\ \A t \in Ticker : WF_vars(ReplayRow(t)) /\ WF_vars(WorkerStep(t))

-----------------------------------------------------------------------------
(* Properties                                                              *)

Row == [id : CommandID, payload : Payload, sequence : Nat]

(***************************************************************************)
(* Types of the tables and of the process: every journal row has its       *)
(* place in match_logs and order_events.                                   *)
(***************************************************************************)
TypeOK ==
    /\ journal \in [Ticker -> Seq(Row)]
    /\ counter \in [Ticker -> Nat]
    /\ matchLogs \in [Ticker -> Seq(Batches \cup {NoBatch})]
    /\ orderEvents \in [Ticker -> Seq(Batches \cup {NoBatch})]
    /\ canon \in [Ticker -> Seq(Outcome)]
    /\ \A t \in Ticker :
          /\ Len(matchLogs[t]) = Len(journal[t])
          /\ Len(orderEvents[t]) = Len(journal[t])
          /\ Len(canon[t]) = Len(journal[t])
    /\ mode \in {"down", "replaying", "serving"}
    /\ halted \in BOOLEAN
    /\ queue \in [Ticker -> Seq(Request)]
    /\ worker \in [Ticker -> [pc : PC, request : Request \cup {NoRequest},
                              outcome : Outcome \cup {NoOutcome}]]
    /\ book \in [Ticker -> Books]
    /\ applied \in [Ticker -> Nat]
    /\ mutated \in [Ticker -> Nat]
    /\ answered \subseteq Request
    /\ shown \in [Ticker -> Nat]
    /\ faults \in Nat
    /\ crashes \in Nat

LogsDurable(t, n) == canon[t][n].logs # << >> => matchLogs[t][n] = canon[t][n].logs
EventsDurable(t, n) == canon[t][n].events # << >> => orderEvents[t][n] = canon[t][n].events
Durable(t, n) ==
    /\ ~canon[t][n].err /\ ~canon[t][n].rejected
    /\ LogsDurable(t, n) /\ EventsDurable(t, n)

(***************************************************************************)
(* An acknowledged command is in the journal and everything it caused is   *)
(* committed, whichever attempt, process or recovery got it there: the     *)
(* answer to a retry is as good as the answer to the first attempt.        *)
(***************************************************************************)
AnsweredDurable ==
    \A r \in answered : \E n \in Rows(r.ticker) :
        /\ journal[r.ticker][n].id = r.id
        /\ journal[r.ticker][n].payload = r.payload
        /\ Durable(r.ticker, n)

(***************************************************************************)
(* Only the last row of a ticker can lack its match logs or events: no     *)
(* worker takes a command past one it did not finish, however the process  *)
(* halted, died or restarted.                                              *)
(***************************************************************************)
OnlyLastPending ==
    \A t \in Ticker : \A n \in Rows(t) : n < Len(journal[t]) => Durable(t, n)

(***************************************************************************)
(* Nothing is committed that replaying the journal would not commit: match *)
(* logs and events are those of the row's outcome on the rows before it,   *)
(* and events never without the match logs they report.                    *)
(***************************************************************************)
OnlyReplayableEffects ==
    \A t \in Ticker : \A n \in Rows(t) :
        /\ matchLogs[t][n] \in {NoBatch, canon[t][n].logs}
        /\ orderEvents[t][n] \in {NoBatch, canon[t][n].events}
        /\ orderEvents[t][n] # NoBatch => LogsDurable(t, n)

(***************************************************************************)
(* An engine in service that has not halted has, between commands, exactly *)
(* the book that replaying the whole journal gives, on every ticker.       *)
(***************************************************************************)
BookIsReplayOfJournal ==
    \A t \in Ticker :
        mode = "serving" /\ ~halted /\ worker[t].pc \in {"idle", "append"} =>
            book[t] = LastBook(t) /\ applied[t] = Len(journal[t])

(***************************************************************************)
(* The journal holds a command id once, over all tickers, and the rows of  *)
(* a ticker in growing sequence, gaps allowed: replay accepts its order.   *)
(***************************************************************************)
JournalOrdered ==
    /\ \A t, u \in Ticker : \A m \in Rows(t), n \in Rows(u) :
          journal[t][m].id = journal[u][n].id => t = u /\ m = n
    /\ \A t \in Ticker : \A m, n \in Rows(t) :
          m < n => journal[t][m].sequence < journal[t][n].sequence

(***************************************************************************)
(* Replay writes what the first execution wrote: match logs and events     *)
(* about to be saved never meet different rows under the same identity.    *)
(***************************************************************************)
ReplayAgreesWithStore ==
    \A t \in Ticker :
        /\ worker[t].pc = "logs" => LogsAccepted(t)
        /\ worker[t].pc = "events" => EventsAccepted(t)

(***************************************************************************)
(* The inductive invariant.  The stores by themselves: rows are canonical  *)
(* and all but the last complete.                                          *)
(***************************************************************************)
StoreConsistent ==
    /\ OnlyLastPending
    /\ OnlyReplayableEffects
    /\ JournalOrdered
    /\ \A t \in Ticker : \A n \in Rows(t) :
          /\ journal[t][n].sequence <= counter[t]
          /\ canon[t][n] = Apply(PrefixBook(t, n - 1), journal[t][n].payload, journal[t][n].sequence)

\* A worker between commands: in an engine that has not halted its book is
\* the replay of the rows it has completed, while serving of all of them.
BetweenCommands(t) ==
    /\ worker[t].pc = "idle" /\ ~halted =>
          /\ book[t] = PrefixBook(t, applied[t])
          /\ mode = "serving" => applied[t] = Len(journal[t])
    /\ worker[t].pc = "append" =>
          /\ mode = "serving"
          /\ book[t] = PrefixBook(t, applied[t])
          /\ applied[t] = Len(journal[t])
          /\ worker[t].request \in Request /\ worker[t].request.ticker = t

\* A worker within a command: how far the row's outcome is in the book and
\* in the stores, halted or not.
WithinCommand(t) ==
    /\ worker[t].pc \in {"apply", "logs", "rest", "events", "ack"} =>
          /\ Current(t) \in Rows(t)
          /\ mode = "serving" =>
                /\ Current(t) = Len(journal[t])
                /\ worker[t].request \in Request /\ worker[t].request.ticker = t
                /\ worker[t].request.id = journal[t][Current(t)].id
                /\ worker[t].request.payload = journal[t][Current(t)].payload
    /\ worker[t].pc = "apply" => book[t] = PrefixBook(t, applied[t])
    /\ worker[t].pc \in {"logs", "rest", "events", "ack"} =>
          worker[t].outcome = canon[t][Current(t)] /\ ~canon[t][Current(t)].err
    /\ worker[t].pc \in {"rest", "events", "ack"} => LogsDurable(t, Current(t))
    /\ worker[t].pc \in {"events", "ack"} =>
          book[t] = canon[t][Current(t)].book /\ ~canon[t][Current(t)].rejected
    /\ worker[t].pc = "ack" => EventsDurable(t, Current(t))

WorkerConsistent(t) ==
    /\ \A n \in 1..applied[t] : n \in Rows(t) /\ Durable(t, n)
    /\ \A i \in 1..Len(queue[t]) : queue[t][i].ticker = t
    /\ mode # "serving" => queue[t] = << >>
    /\ mode = "down" => worker[t].pc = "idle"
    /\ BetweenCommands(t)
    /\ WithinCommand(t)

(***************************************************************************)
(* Stores, workers and answers agree at every moment, whatever has failed, *)
(* halted or crashed so far.                                               *)
(***************************************************************************)
Consistent ==
    /\ halted => mode = "serving"
    /\ StoreConsistent
    /\ \A t \in Ticker : WorkerConsistent(t)
    /\ AnsweredDurable

(***************************************************************************)
(* Once the engine has halted no worker starts on another command, not     *)
(* even on one that was routed before the halt, until the process ends.    *)
(***************************************************************************)
HaltedAdmitsNoCommand ==
    [][halted => /\ mode' = "serving" => halted'
                 /\ \A t \in Ticker : worker[t].pc = "idle" => worker'[t].pc = "idle"]_vars

(***************************************************************************)
(* A snapshot shows only executions of journaled commands, and all effects *)
(* of these are committed.  The one exception is the execution in which a  *)
(* worker failed and halted the engine: that of the ticker's last row,     *)
(* which the next replay repeats.                                          *)
(***************************************************************************)
SnapshotsShowDurable ==
    [][\A t \in Ticker : shown'[t] # shown[t] =>
          \A n \in 1..shown'[t] :
              /\ n \in Rows(t)
              /\ Durable(t, n) \/ (halted /\ n = Len(journal[t]))]_vars

(***************************************************************************)
(* Every journaled command eventually has all its effects committed, also  *)
(* when the client was told that it failed.                                *)
(***************************************************************************)
EffectsEventuallyDurable ==
    \A t \in Ticker : \A n \in 1..MaxSequence :
        (n \in Rows(t)) ~> (n \in Rows(t) /\ Durable(t, n))

(***************************************************************************)
(* A process that is down comes back into service by replaying the journal.*)
(***************************************************************************)
RestartServes == (mode = "down") ~> (mode = "serving")

=============================================================================
