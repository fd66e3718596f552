------------------------------- MODULE Router -------------------------------
(***************************************************************************)
(* The goroutines of a server process and what blocks them: HTTP handlers  *)
(* that call the Router (internal/engine/router.go), one BookWorker per    *)
(* ticker, the two writers, and the main goroutine (cmd/server/main.go),   *)
(* which restores every ticker, serves, and shuts down.  Tickers can be    *)
(* added while the server runs.                                            *)
(*                                                                         *)
(* A goroutine that holds the router's read lock while it waits for a      *)
(* worker, a mutex around AddTicker and shutdown, channels that block when *)
(* full and must not be sent to once closed: that is what this module      *)
(* keeps.  What commands do to books and stores is in Engine.              *)
(***************************************************************************)
EXTENDS Integers, Sequences

CONSTANTS
    Ticker,
    Caller,    \* requests in progress, each a goroutine of the HTTP server
    Kind,      \* what they ask for: "command", "snapshot", "add", besides /ready
    Main,      \* the main goroutine
    Nobody,    \* no caller, no holder of a lock
    QueueCap,  \* InputBufferSize of a worker's channel
    OutCap     \* buffer sizes of the writers' channels

ASSUME CapAssumption == QueueCap \in Nat \ {0} /\ OutCap \in Nat \ {0}
ASSUME KindAssumption == Kind \subseteq {"command", "snapshot", "add"}
ASSUME NamesAssumption ==
    /\ Main \notin Caller /\ Nobody \notin Caller \cup {Main}
    /\ Ticker \cap (Caller \cup {Main}) = {}

Proc == Caller \cup {Main}
Writer == {"logs", "events"}
Committer == Proc \cup Ticker  \* who writes: workers, named by ticker, and replays

VARIABLES
    markets,    \* table markets
    journaled,  \* tickers with rows in order_journal
    added,      \* history: tickers some AddTicker was answered "added" for
    pc,         \* what each handler, and main, does next
    call,       \* the kind of each handler's request and its ticker; main's ticker
    result,     \* commandResult or snapshotResult of each handler
    readers,    \* handlers that hold the router's read lock
    locker,     \* who has announced Lock: no read lock is granted until Unlock
    lifecycle,  \* who holds lifecycleMu
    closed,     \* r.closed
    workers,    \* the tickers in r.workers
    halted,     \* EngineState
    queue,      \* w.in
    open,       \* workers whose w.in is not closed
    worker,     \* each worker's goroutine: "none", "idle", "apply", "commit", "done"
    serving,    \* the handler whose command a worker executes
    out,        \* persistenceOut and orderEventOut
    outOpen,    \* those of the two that are not closed
    ended,      \* writers whose goroutine has ended
    stage       \* how far each committer's current batch has come

tables == <<markets, journaled, added>>
locks == <<readers, locker, lifecycle>>
router == <<closed, workers, halted>>
book == <<queue, open, worker, serving>>
writers == <<out, outOpen, ended, stage>>
vars == <<tables, pc, call, result, locks, router, book, writers>>

Call == [kind : Kind \cup {"add"}, ticker : Ticker]  \* main registers tickers as an add does
CallerPC == {"idle", "precision", "route", "send", "wait", "format", "ready",
             "mutex", "admit", "exists", "persist", "load", "replay", "lock", "register", "run"}
MainPC == {"down", "list", "backfill", "restore", "replay", "lock", "register", "run",
           "serving", "http", "mutex", "cleanup", "close", "drain", "closeOuts", "flush"}
Stage == {"none", "sendLogs", "waitLogs", "sendEvents", "waitEvents", "committed", "failed"}

InitProcess ==
    /\ call = [p \in Proc |-> Nobody]
    /\ result = [c \in Caller |-> "none"]
    /\ readers = {} /\ locker = Nobody /\ lifecycle = Nobody
    /\ closed = FALSE /\ workers = {} /\ halted = FALSE
    /\ queue = [t \in Ticker |-> << >>]
    /\ open = {}
    /\ worker = [t \in Ticker |-> "none"]
    /\ serving = [t \in Ticker |-> Nobody]
    /\ out = [w \in Writer |-> << >>]
    /\ outOpen = Writer
    /\ ended = {}
    /\ stage = [g \in Committer |-> "none"]

\* Rows may have been written before there was a table of markets.
Init ==
    /\ markets = {} /\ added = {}
    /\ journaled \in SUBSET Ticker
    /\ pc = [p \in Proc |-> IF p = Main THEN "down" ELSE "idle"]
    /\ InitProcess

Goto(p, l) == pc' = [pc EXCEPT ![p] = l]
At(p, l) == pc[p] = l
TickerOf(p) == call[p].ticker

\* A handler answers: its goroutine ends.
Answer(c) ==
    /\ pc' = [pc EXCEPT ![c] = "idle"]
    /\ call' = [call EXCEPT ![c] = Nobody]

\* RWMutex: readers wait for a writer that has announced itself.
ReadLockFree == locker = Nobody

-----------------------------------------------------------------------------
(* Handlers                                                                *)

\* A request arrives; server.Shutdown accepts no more.
Arrive(c) ==
    /\ At(Main, "serving") /\ At(c, "idle")
    /\ \/ Goto(c, "ready") /\ UNCHANGED call
       \/ \E kind \in Kind, t \in Ticker :
             /\ call' = [call EXCEPT ![c] = [kind |-> kind, ticker |-> t]]
             /\ \E l \in CASE kind = "command" -> {"precision", "route"}  \* a cancel needs none
                           [] kind = "snapshot" -> {"route"}
                           [] kind = "add" -> {"mutex"} : Goto(c, l)
    /\ UNCHANGED <<tables, result, locks, router, book, writers>>

\* MarketPrecision, for formatting a book and for parsing a create or an amend,
\* which may find that its numbers are none of this market.
Precision(c) ==
    /\ At(c, "precision") \/ At(c, "format")
    /\ ReadLockFree
    /\ \/ Answer(c)
       \/ /\ At(c, "precision") /\ ~closed /\ TickerOf(c) \in workers
          /\ Goto(c, "route") /\ UNCHANGED call
    /\ UNCHANGED <<tables, result, locks, router, book, writers>>

Ready(c) ==
    /\ At(c, "ready") /\ ReadLockFree
    /\ Answer(c)
    /\ UNCHANGED <<tables, result, locks, router, book, writers>>

Refused(c) ==
    \/ closed
    \/ TickerOf(c) \notin workers
    \/ call[c].kind = "command" /\ halted

\* Mutant: the read lock protects the lookup only.
RouteAndUnlock(c) ==
    /\ At(c, "route") /\ ReadLockFree
    /\ IF Refused(c) THEN Answer(c) ELSE Goto(c, "send") /\ UNCHANGED call
    /\ UNCHANGED <<tables, result, locks, router, book, writers>>

\* OrderRouter and OrderBookSnapshot: look the worker up and keep the lock.
Route(c) ==
    /\ At(c, "route") /\ ReadLockFree
    /\ IF Refused(c)
       THEN Answer(c) /\ UNCHANGED readers
       ELSE Goto(c, "send") /\ readers' = readers \cup {c} /\ UNCHANGED call
    /\ UNCHANGED <<tables, result, locker, lifecycle, router, book, writers>>

\* w.in <- ev, blocking while the buffer is full.
Send(c) ==
    /\ At(c, "send") /\ Len(queue[TickerOf(c)]) < QueueCap
    /\ queue' = [queue EXCEPT ![TickerOf(c)] = Append(@, c)]
    /\ Goto(c, "wait")
    /\ UNCHANGED <<tables, call, result, locks, router, open, worker, serving, writers>>

\* Mutant: a snapshot's precision is read before its lock is given back.
ReturnWithPrecision(c) ==
    /\ At(c, "wait") /\ result[c] = "ready"
    /\ call[c].kind = "snapshot" => ReadLockFree
    /\ result' = [result EXCEPT ![c] = "none"]
    /\ readers' = readers \ {c}
    /\ IF call[c].kind = "snapshot" THEN Goto(c, "format") /\ UNCHANGED call ELSE Answer(c)
    /\ UNCHANGED <<tables, locker, lifecycle, router, book, writers>>

\* <-result, and the deferred RUnlock.
Return(c) ==
    /\ At(c, "wait") /\ result[c] = "ready"
    /\ result' = [result EXCEPT ![c] = "none"]
    /\ readers' = readers \ {c}
    /\ IF call[c].kind = "snapshot" THEN Goto(c, "format") /\ UNCHANGED call ELSE Answer(c)
    /\ UNCHANGED <<tables, locker, lifecycle, router, book, writers>>

-----------------------------------------------------------------------------
(* AddTicker, and registerTicker, which startEngine shares                 *)

LockLifecycle(p) == lifecycle = Nobody /\ lifecycle' = p

Mutex(c) ==
    /\ At(c, "mutex") /\ LockLifecycle(c)
    /\ Goto(c, "admit")
    /\ UNCHANGED <<tables, call, result, readers, locker, router, book, writers>>

\* Mutant: an AddTicker that fails keeps the mutex.
AddReturnsLocked(c) == Answer(c) /\ UNCHANGED lifecycle

\* AddTicker returns, unlocking lifecycleMu.
AddReturns(c) == Answer(c) /\ lifecycle' = IF lifecycle = c THEN Nobody ELSE lifecycle

Admit(c) ==
    /\ At(c, "admit") /\ ReadLockFree
    /\ IF closed \/ halted THEN AddReturns(c) ELSE Goto(c, "exists") /\ UNCHANGED <<call, lifecycle>>
    /\ UNCHANGED <<tables, result, readers, locker, router, book, writers>>

Exists(c) ==
    /\ At(c, "exists") /\ ReadLockFree
    /\ IF TickerOf(c) \in workers THEN AddReturns(c)
       ELSE Goto(c, "persist") /\ UNCHANGED <<call, lifecycle>>
    /\ UNCHANGED <<tables, result, readers, locker, router, book, writers>>

\* marketStore.Add inserts or finds the row, or fails with or without effect.
Persist(c) ==
    /\ At(c, "persist")
    /\ \/ markets' = markets \cup {TickerOf(c)} /\ Goto(c, "load") /\ UNCHANGED <<call, lifecycle>>
       \/ markets' \in {markets, markets \cup {TickerOf(c)}} /\ AddReturns(c)
    /\ UNCHANGED <<journaled, added, result, readers, locker, router, book, writers>>

\* journalStore.List, for the ticker's rows.
Load(c) ==
    /\ At(c, "load")
    /\ \/ Goto(c, "replay") /\ UNCHANGED <<call, lifecycle>>
       \/ AddReturns(c)
    /\ UNCHANGED <<tables, result, readers, locker, router, book, writers>>

\* A replayed row has match logs and events, events only, or none.
Commit(g, first) == stage' = [stage EXCEPT ![g] = first]

Fails(p) ==
    IF p = Main THEN Goto(Main, "cleanup") /\ UNCHANGED <<call, lifecycle>> ELSE AddReturns(p)

\* worker.Replay, by the goroutine that creates the worker.
Replay(p) ==
    /\ At(p, "replay")
    /\ CASE stage[p] = "none" /\ TickerOf(p) \in journaled ->
              /\ \E first \in {"sendLogs", "sendEvents", "committed"} : Commit(p, first)
              /\ UNCHANGED <<pc, call, lifecycle>>
         [] stage[p] = "committed" \/ (stage[p] = "none" /\ TickerOf(p) \notin journaled) ->
              Goto(p, "lock") /\ Commit(p, "none") /\ UNCHANGED <<call, lifecycle>>
         [] stage[p] = "failed" -> Fails(p) /\ Commit(p, "none")
         [] OTHER -> FALSE
    /\ UNCHANGED <<tables, result, readers, locker, router, book, out, outOpen, ended>>

\* r.mu.Lock() in Register and Shutdown: announce, then wait for the readers.
Lock(p) ==
    /\ At(p, "lock") \/ (p = Main /\ At(Main, "cleanup"))
    /\ locker = Nobody /\ locker' = p
    /\ Goto(p, IF At(p, "lock") THEN "register" ELSE "close")
    /\ UNCHANGED <<tables, call, result, readers, lifecycle, router, book, writers>>

\* The body of Register, within the lock.
Register(p) ==
    /\ At(p, "register") /\ locker = p /\ readers = {}
    /\ locker' = Nobody
    /\ IF closed \/ TickerOf(p) \in workers
       THEN Fails(p) /\ UNCHANGED <<workers, open>>
       ELSE /\ workers' = workers \cup {TickerOf(p)}
            /\ open' = open \cup {TickerOf(p)}
            /\ Goto(p, "run") /\ UNCHANGED <<call, lifecycle>>
    /\ UNCHANGED <<tables, result, readers, closed, halted, queue, worker, serving, writers>>

\* go worker.Run(), and registerTicker returns.
Run(p) ==
    /\ At(p, "run")
    /\ worker' = [worker EXCEPT ![TickerOf(p)] = "idle"]
    /\ IF p = Main
       THEN Goto(Main, "restore") /\ UNCHANGED <<added, call, lifecycle>>
       ELSE added' = added \cup {TickerOf(p)} /\ AddReturns(p)
    /\ UNCHANGED <<markets, journaled, result, readers, locker, router, queue, open, serving, writers>>

-----------------------------------------------------------------------------
(* Workers                                                                 *)

\* Mutant: a halted worker drops the command.
ReceiveSilently(t) ==
    /\ worker[t] = "idle" /\ queue[t] # << >>
    /\ queue' = [queue EXCEPT ![t] = Tail(@)]
    /\ LET c == Head(queue[t]) IN
       IF call[c].kind = "snapshot" \/ halted
       THEN /\ result' = IF halted THEN result ELSE [result EXCEPT ![c] = "ready"]
            /\ UNCHANGED <<worker, serving>>
       ELSE /\ worker' = [worker EXCEPT ![t] = "apply"]
            /\ serving' = [serving EXCEPT ![t] = c]
            /\ UNCHANGED result
    /\ UNCHANGED <<tables, pc, call, locks, router, open, writers>>

\* Run takes an event; snapshots, and commands once halted, are answered at once.
Receive(t) ==
    /\ worker[t] = "idle" /\ queue[t] # << >>
    /\ queue' = [queue EXCEPT ![t] = Tail(@)]
    /\ LET c == Head(queue[t]) IN
       IF call[c].kind = "snapshot" \/ halted
       THEN result' = [result EXCEPT ![c] = "ready"] /\ UNCHANGED <<worker, serving>>
       ELSE /\ worker' = [worker EXCEPT ![t] = "apply"]
            /\ serving' = [serving EXCEPT ![t] = c]
            /\ UNCHANGED result
    /\ UNCHANGED <<tables, pc, call, locks, router, open, writers>>

Acknowledge(t) ==
    /\ worker' = [worker EXCEPT ![t] = "idle"]
    /\ serving' = [serving EXCEPT ![t] = Nobody]
    /\ result' = [result EXCEPT ![serving[t]] = "ready"]

\* Append and applyCommand: a row and its batches, a duplicate, or an error,
\* which the row may have preceded.
Apply(t) ==
    /\ worker[t] = "apply"
    /\ \/ /\ journaled' = journaled \cup {t}
          /\ worker' = [worker EXCEPT ![t] = "commit"]
          /\ \E first \in {"sendLogs", "sendEvents"} : Commit(t, first)
          /\ UNCHANGED <<result, serving, halted>>
       \/ /\ journaled' \in {journaled, journaled \cup {t}}
          /\ Acknowledge(t)
          /\ halted' \in {halted, TRUE}
          /\ UNCHANGED stage
    /\ UNCHANGED <<markets, added, pc, call, locks, closed, workers, queue, open, out, outOpen, ended>>

\* persistMatchLogs and persistOrderEvents are over.
Finish(t) ==
    /\ worker[t] = "commit" /\ stage[t] \in {"committed", "failed"}
    /\ halted' = (halted \/ stage[t] = "failed")
    /\ Commit(t, "none")
    /\ Acknowledge(t)
    /\ UNCHANGED <<tables, pc, call, locks, closed, workers, queue, open, out, outOpen, ended>>

\* The loop ends when the channel is closed and empty; Done().
WorkerEnds(t) ==
    /\ worker[t] = "idle" /\ queue[t] = << >> /\ t \in workers \ open
    /\ worker' = [worker EXCEPT ![t] = "done"]
    /\ UNCHANGED <<tables, pc, call, result, locks, router, queue, open, serving, writers>>

-----------------------------------------------------------------------------
(* Writers                                                                 *)

SendStage(w) == IF w = "logs" THEN "sendLogs" ELSE "sendEvents"
WaitStage(w) == IF w = "logs" THEN "waitLogs" ELSE "waitEvents"

\* persistenceOut <- request, orderEventOut <- request.
Emit(g, w) ==
    /\ stage[g] = SendStage(w) /\ Len(out[w]) < OutCap
    /\ out' = [out EXCEPT ![w] = Append(@, g)]
    /\ Commit(g, WaitStage(w))
    /\ UNCHANGED <<tables, pc, call, result, locks, router, book, outOpen, ended>>

\* A writer saves the next batch and acknowledges it; after match logs come
\* events, or nothing if the store failed.
Save(w) ==
    /\ w \notin ended /\ out[w] # << >>
    /\ out' = [out EXCEPT ![w] = Tail(@)]
    /\ \E to \in {IF w = "logs" THEN "sendEvents" ELSE "committed", "failed"} : Commit(Head(out[w]), to)
    /\ UNCHANGED <<tables, pc, call, result, locks, router, book, outOpen, ended>>

WriterEnds(w) ==
    /\ w \notin outOpen \cup ended /\ out[w] = << >>
    /\ ended' = ended \cup {w}
    /\ UNCHANGED <<tables, pc, call, result, locks, router, book, out, outOpen, stage>>

-----------------------------------------------------------------------------
(* The main goroutine                                                      *)

\* The process is gone, and with it all but the tables.
Exit ==
    /\ pc' = [p \in Proc |-> IF p = Main THEN "down" ELSE "idle"]
    /\ call' = [p \in Proc |-> Nobody]
    /\ result' = [c \in Caller |-> "none"]
    /\ readers' = {} /\ locker' = Nobody /\ lifecycle' = Nobody
    /\ closed' = FALSE /\ workers' = {} /\ halted' = FALSE
    /\ queue' = [t \in Ticker |-> << >>]
    /\ open' = {}
    /\ worker' = [t \in Ticker |-> "none"]
    /\ serving' = [t \in Ticker |-> Nobody]
    /\ out' = [w \in Writer |-> << >>]
    /\ outOpen' = Writer
    /\ ended' = {}
    /\ stage' = [g \in Committer |-> "none"]
    /\ UNCHANGED tables

Crash == ~At(Main, "down") /\ Exit

StartProcess ==
    /\ At(Main, "down") /\ Goto(Main, "list")
    /\ UNCHANGED <<tables, call, result, locks, router, book, writers>>

\* marketStore.List and journalStore.List; a failure ends in cleanup.
List ==
    /\ At(Main, "list")
    /\ Goto(Main, "backfill") \/ Goto(Main, "cleanup")
    /\ UNCHANGED <<tables, call, result, locks, router, book, writers>>

\* Mutant: tickers found in the journal only are not added to markets.
BackfillNothing ==
    /\ At(Main, "backfill") /\ Goto(Main, "restore")
    /\ UNCHANGED <<tables, call, result, locks, router, book, writers>>

\* A ticker that only the journal knows is added to markets.
Backfill ==
    /\ At(Main, "backfill")
    /\ \/ journaled \subseteq markets /\ Goto(Main, "restore") /\ UNCHANGED markets
       \/ \E t \in journaled \ markets :
             \/ markets' = markets \cup {t} /\ UNCHANGED pc
             \/ markets' \in {markets, markets \cup {t}} /\ Goto(Main, "cleanup")
    /\ UNCHANGED <<journaled, added, call, result, locks, router, book, writers>>

\* Mutant: only tickers with commands are restored.
ToRestoreJournaled == journaled \ workers

ToRestore == (markets \cup journaled) \ workers

\* The tickers are restored one after the other (in their order, which is
\* immaterial), then the HTTP server listens.
Restore ==
    /\ At(Main, "restore")
    /\ IF ToRestore = {}
       THEN Goto(Main, "serving") /\ UNCHANGED call
       ELSE /\ \E t \in ToRestore :
                  call' = [call EXCEPT ![Main] = [kind |-> "add", ticker |-> t]]
            /\ Goto(Main, "replay")
    /\ UNCHANGED <<tables, result, locks, router, book, writers>>

\* A signal, or an error of the listener.
Signal ==
    /\ At(Main, "serving") /\ Goto(Main, "http")
    /\ UNCHANGED <<tables, call, result, locks, router, book, writers>>

\* server.Shutdown returns when the handlers have, or after ten seconds.
StopHTTP ==
    /\ At(Main, "http") /\ Goto(Main, "mutex")
    /\ UNCHANGED <<tables, call, result, locks, router, book, writers>>

\* runtime.shutdown: lifecycleMu; then Router.Shutdown locks as cleanup does.
LockForShutdown ==
    /\ At(Main, "mutex") /\ LockLifecycle(Main)
    /\ Goto(Main, "cleanup")
    /\ UNCHANGED <<tables, call, result, readers, locker, router, book, writers>>

\* The body of Router.Shutdown, within the lock: close every w.in.
Close ==
    /\ At(Main, "close") /\ locker = Main /\ readers = {}
    /\ closed' = TRUE /\ open' = {} /\ locker' = Nobody
    /\ Goto(Main, "drain")
    /\ UNCHANGED <<tables, call, result, readers, lifecycle, workers, halted, queue, worker, serving, writers>>

\* Mutant: Shutdown returns without waiting for Done.
DrainNothing ==
    /\ At(Main, "drain") /\ Goto(Main, "closeOuts")
    /\ UNCHANGED <<tables, call, result, locks, router, book, writers>>

\* It waits for every worker's Done, with a context that never ends.
Drain ==
    /\ At(Main, "drain") /\ \A t \in workers : worker[t] = "done"
    /\ Goto(Main, "closeOuts")
    /\ UNCHANGED <<tables, call, result, locks, router, book, writers>>

\* close(persistenceOut), close(orderEventOut).
CloseOuts ==
    /\ At(Main, "closeOuts")
    /\ outOpen' = {}
    /\ Goto(Main, "flush")
    /\ UNCHANGED <<tables, call, result, locks, router, book, out, ended, stage>>

\* waitForWriter, twice; the process returns from serve and exits.
Flush == At(Main, "flush") /\ ended = Writer /\ Exit

-----------------------------------------------------------------------------

Registration(p) == Replay(p) \/ Lock(p) \/ Register(p) \/ Run(p)

Committing(g) == \E w \in Writer : Emit(g, w)

Handler(c) ==
    \/ Precision(c) \/ Ready(c) \/ Route(c) \/ Send(c) \/ Return(c)
    \/ Mutex(c) \/ Admit(c) \/ Exists(c) \/ Persist(c) \/ Load(c)
    \/ Registration(c) \/ Committing(c)

BookWorker(t) == Receive(t) \/ Apply(t) \/ Finish(t) \/ WorkerEnds(t) \/ Committing(t)

WriterLoop(w) == Save(w) \/ WriterEnds(w)

MainLoop ==
    \/ List \/ Backfill \/ Restore \/ Registration(Main) \/ Committing(Main)
    \/ StopHTTP \/ LockForShutdown \/ Close \/ Drain \/ CloseOuts \/ Flush

Next ==
    \/ \E c \in Caller : Arrive(c) \/ Handler(c)
    \/ \E t \in Ticker : BookWorker(t)
    \/ \E w \in Writer : WriterLoop(w)
    \/ MainLoop \/ StartProcess \/ Signal \/ Crash

Spec == Init /\ [][Next]_vars

(***************************************************************************)
(* Fairness: goroutines are scheduled and stores answer.  Those blocked on *)
(* a sync.Mutex or in sending to a channel are served in turn, hence the   *)
(* strong fairness of goroutines that compete for one.  Nobody is obliged  *)
(* to call, stop, start or crash.                                          *)
(***************************************************************************)
FairSpec ==
    /\ Spec
    /\ \A c \in Caller : SF_vars(Handler(c))
    /\ \A t \in Ticker : SF_vars(BookWorker(t))
    /\ \A w \in Writer : WF_vars(WriterLoop(w))
    /\ WF_vars(MainLoop)

-----------------------------------------------------------------------------
(* Properties                                                              *)

(***************************************************************************)
(* Types of the tables, locks and goroutines; channels keep to the size of *)
(* their buffers.                                                          *)
(***************************************************************************)
TypeOK ==
    /\ markets \subseteq Ticker /\ journaled \subseteq Ticker /\ added \subseteq Ticker
    /\ pc \in [Proc -> CallerPC \cup MainPC]
    /\ call \in [Proc -> Call \cup {Nobody}]
    /\ result \in [Caller -> {"none", "ready"}]
    /\ readers \subseteq Caller
    /\ locker \in Proc \cup {Nobody} /\ lifecycle \in Proc \cup {Nobody}
    /\ closed \in BOOLEAN /\ halted \in BOOLEAN
    /\ workers \subseteq Ticker /\ open \subseteq Ticker
    /\ queue \in [Ticker -> Seq(Caller)] /\ \A t \in Ticker : Len(queue[t]) <= QueueCap
    /\ worker \in [Ticker -> {"none", "idle", "apply", "commit", "done"}]
    /\ serving \in [Ticker -> Caller \cup {Nobody}]
    /\ out \in [Writer -> Seq(Committer)] /\ \A w \in Writer : Len(out[w]) <= OutCap
    /\ outOpen \subseteq Writer /\ ended \subseteq Writer
    /\ stage \in [Committer -> Stage]

(***************************************************************************)
(* No goroutine sends on a closed channel, which panics: a handler that    *)
(* may put an event on a worker's queue finds it open, and so does whoever *)
(* may give a batch to a writer, worker or replay, also during a shutdown. *)
(***************************************************************************)
NoSendOnClosed ==
    /\ \A c \in Caller : At(c, "send") => TickerOf(c) \in open
    /\ \A w \in Writer, g \in Committer : stage[g] = SendStage(w) => w \in outOpen

(***************************************************************************)
(* router-worker.md, "waits for them to drain before the writer channel    *)
(* and PostgreSQL pool are closed": when the writers' channels are about   *)
(* to be closed, every queue is empty, no handler is without its answer    *)
(* and no batch is on its way.                                             *)
(***************************************************************************)
Drained ==
    pc[Main] \in {"closeOuts", "flush"} =>
        /\ \A t \in Ticker : queue[t] = << >> /\ worker[t] \in {"none", "done"}
        /\ \A c \in Caller : At(c, "wait") => result[c] = "ready"
        /\ \A g \in Committer : stage[g] = "none"

(***************************************************************************)
(* A ticker that was answered "added", in this process or an earlier one,  *)
(* and one that has journal rows, has a worker whenever the server serves. *)
(***************************************************************************)
AddedIsServed == At(Main, "serving") => added \cup journaled \subseteq workers

(***************************************************************************)
(* Every ticker served is in markets, also those whose rows are older than *)
(* the table (market-registry.md): it can be restored without any order.   *)
(***************************************************************************)
ServedIsRegistered == workers \subseteq markets

(***************************************************************************)
(* Every request is answered, or its process ends: readers that wait for   *)
(* workers, writers that wait for readers, and AddTicker and shutdown that *)
(* wait for each other never form a circle.                                *)
(***************************************************************************)
EveryCallAnswered == \A c \in Caller : ~At(c, "idle") ~> At(c, "idle")

(***************************************************************************)
(* A shutdown that has begun ends, whatever handlers, an AddTicker or the  *)
(* workers are doing, although no step of it has a deadline.               *)
(***************************************************************************)
ShutdownEnds == At(Main, "http") ~> At(Main, "down")

=============================================================================
