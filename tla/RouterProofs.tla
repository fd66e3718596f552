----------------------------- MODULE RouterProofs -----------------------------
(***************************************************************************)
(* Proofs about Router, for any tickers, handlers, kinds of request and    *)
(* sizes of the channels: no send on a closed channel, nothing undelivered *)
(* when the writers' channels are closed, a worker for every ticker that   *)
(* was added, and a row of markets for every worker.  None of the four is  *)
(* inductive: each depends on what the locks and the main goroutine's      *)
(* order of steps exclude, which the invariants of the first section say.  *)
(***************************************************************************)
EXTENDS Router, TLAPS

-----------------------------------------------------------------------------
(* The inductive invariant                                                 *)

AddPC == {"admit", "exists", "persist", "load", "replay", "lock", "register", "run"}
RegisterPC == {"replay", "lock", "register", "run"}
StartupPC == {"down", "list", "backfill", "restore"} \cup RegisterPC
ShutdownPC == {"cleanup", "close", "drain", "closeOuts", "flush"}

\* TypeOK in four parts, of which most steps need one.
Places == pc \in [Proc -> CallerPC \cup MainPC] /\ call \in [Proc -> Call \cup {Nobody}]

Sets ==
    /\ markets \subseteq Ticker /\ journaled \subseteq Ticker /\ added \subseteq Ticker
    /\ readers \subseteq Caller
    /\ locker \in Proc \cup {Nobody} /\ lifecycle \in Proc \cup {Nobody}
    /\ closed \in BOOLEAN /\ halted \in BOOLEAN
    /\ workers \subseteq Ticker /\ open \subseteq Ticker
    /\ outOpen \subseteq Writer /\ ended \subseteq Writer

Books ==
    /\ result \in [Caller -> {"none", "ready"}]
    /\ queue \in [Ticker -> Seq(Caller)] /\ \A t \in Ticker : Len(queue[t]) <= QueueCap
    /\ worker \in [Ticker -> {"none", "idle", "apply", "commit", "done"}]
    /\ serving \in [Ticker -> Caller \cup {Nobody}]

Outs ==
    /\ out \in [Writer -> Seq(Committer)] /\ \A w \in Writer : Len(out[w]) <= OutCap
    /\ stage \in [Committer -> Stage]

\* A goroutine stands where its kind of goroutine may, and knows the ticker of
\* its request wherever it needs it.
CallsOK ==
    /\ \A c \in Caller :
          pc[c] \in CallerPC /\ (pc[c] \notin {"idle", "ready"} => TickerOf(c) \in Ticker)
    /\ pc[Main] \in MainPC /\ (pc[Main] \in RegisterPC => TickerOf(Main) \in Ticker)

\* A handler reads while it sends and waits, and its worker stays registered.
Readers ==
    \A c \in Caller :
        /\ c \in readers <=> pc[c] \in {"send", "wait"}
        /\ c \in readers => TickerOf(c) \in workers

\* Who holds which other lock can be told from where the goroutines are.
LocksHeld ==
    /\ \A p \in Proc : locker = p <=> pc[p] \in {"register", "close"}
    /\ \A c \in Caller : pc[c] \in AddPC => lifecycle = c
    /\ pc[Main] \in StartupPC => \A c \in Caller : pc[c] = "idle"
    /\ pc[Main] \in ShutdownPC => lifecycle = Main \/ \A c \in Caller : pc[c] = "idle"

\* The router is closed only while nobody reads it, the workers' channels
\* with it, and the writers' channels after it.
ClosedLast ==
    /\ closed => readers = {} /\ open = {}
    /\ ~closed => open = workers
    /\ pc[Main] \in {"drain", "closeOuts", "flush"} => closed
    /\ pc[Main] # "flush" => outOpen = Writer

Awaits(c, t) == pc[c] = "wait" /\ result[c] = "none" /\ TickerOf(c) = t

\* Whom a worker will answer waits for it, and is to be answered once.
Waiting ==
    /\ \A c \in Caller : pc[c] # "wait" => result[c] = "none"
    /\ \A t \in Ticker :
          /\ \A i \in 1..Len(queue[t]) : Awaits(queue[t][i], t)
          /\ \A i, j \in 1..Len(queue[t]) : queue[t][i] = queue[t][j] => i = j
          /\ worker[t] \in {"apply", "commit"} =>
                /\ serving[t] \in Caller /\ Awaits(serving[t], t)
                /\ \A i \in 1..Len(queue[t]) : queue[t][i] # serving[t]

\* A batch is under way only for a worker that commits or a replay, and what
\* a writer has yet to save is waited for by one of them.
Batches ==
    /\ \A t \in Ticker : stage[t] # "none" => worker[t] = "commit"
    /\ \A p \in Proc : stage[p] # "none" => pc[p] = "replay"

Unsaved ==
    \A w \in Writer :
        /\ \A i \in 1..Len(out[w]) : stage[out[w][i]] = WaitStage(w)
        /\ \A i, j \in 1..Len(out[w]) : out[w][i] = out[w][j] => i = j

\* A worker runs if it is registered; one to be started does not run yet;
\* all have ended before the writers' channels are closed.
Started ==
    /\ \A t \in Ticker : worker[t] # "none" => t \in workers
    /\ \A p \in Proc : pc[p] = "run" => TickerOf(p) \in workers /\ worker[TickerOf(p)] = "none"
    /\ pc[Main] \in {"closeOuts", "flush"} => \A t \in workers : worker[t] = "done"

\* A ticker is in markets before it is registered, and what must be served is
\* registered before the server listens.
Registered ==
    /\ workers \subseteq markets /\ added \subseteq markets
    /\ \A c \in Caller : pc[c] \in {"load"} \cup RegisterPC => TickerOf(c) \in markets
    /\ pc[Main] \in RegisterPC => TickerOf(Main) \in markets
    /\ pc[Main] \in {"restore"} \cup RegisterPC => journaled \subseteq markets
    /\ AddedIsServed

IInv ==
    /\ Places /\ Sets /\ Books /\ Outs
    /\ CallsOK /\ Readers /\ LocksHeld /\ ClosedLast
    /\ Waiting /\ Batches /\ Unsaved /\ Started /\ Registered

\* A queue of different entries stays one when another is appended.
LEMMA AppendDistinct ==
    ASSUME NEW S, NEW q \in Seq(S), NEW e \in S,
           \A i, j \in 1..Len(q) : q[i] = q[j] => i = j, \A i \in 1..Len(q) : q[i] # e
    PROVE  \A i, j \in 1..Len(Append(q, e)) : Append(q, e)[i] = Append(q, e)[j] => i = j
<1>1. PICK a, n : a = Append(q, e) /\ n = Len(q)
    OBVIOUS
<1>2. /\ n \in Nat /\ Len(a) = n + 1
      /\ \A i \in 1..n : a[i] = q[i]
      /\ a[n + 1] = e
    BY <1>1
<1>3. ASSUME NEW i \in 1..(n + 1) PROVE i \in 1..n \/ i = n + 1
    BY <1>2
<1>4. \A i, j \in 1..n : a[i] = a[j] => i = j
    BY <1>1, <1>2
<1>5. \A i \in 1..n : a[i] # a[n + 1]
    BY <1>1, <1>2
<1> QED BY <1>1, <1>2, <1>3, <1>4, <1>5

-----------------------------------------------------------------------------
(* Every action preserves it                                               *)

USE NamesAssumption DEF IInv, Goto, At, Proc, tables, locks, router, book, writers

\* Handlers: the last step of each proof is what the action does not touch.

LEMMA ArriveKeeps ==
    ASSUME IInv, NEW c \in Caller, Arrive(c)
    PROVE  IInv'
<1>1. Places' BY KindAssumption DEF Places, CallerPC, MainPC, Call, Arrive
<1>2. CallsOK'
    BY KindAssumption DEF CallsOK, TickerOf, CallerPC, MainPC, RegisterPC,
       Places, Call, Arrive
<1>3. Readers' BY KindAssumption DEF Readers, TickerOf, Places, Arrive
<1>4. LocksHeld'
    BY KindAssumption DEF LocksHeld, AddPC, StartupPC, RegisterPC, ShutdownPC,
       Places, Arrive
<1>5. ClosedLast'
  <2>1. pc'[Main] = pc[Main] BY DEF Places, Arrive
  <2> QED BY <2>1 DEF ClosedLast, Arrive
<1>6. Waiting'
    BY KindAssumption DEF Waiting, Awaits, TickerOf, Places, Books, Arrive
<1>7. Batches' BY KindAssumption DEF Batches, Committer, Places, Outs, Arrive
<1>8. Started' BY KindAssumption DEF Started, TickerOf, Places, Arrive
<1>9. Registered'
    BY KindAssumption DEF Registered, TickerOf, RegisterPC, AddedIsServed,
       Places, Arrive
<1>10. Sets' /\ Books' /\ Outs' /\ Unsaved'
    BY DEF Sets, Books, Outs, Unsaved, WaitStage, Arrive
<1> QED BY <1>1, <1>2, <1>3, <1>4, <1>5, <1>6, <1>7, <1>8, <1>9, <1>10

LEMMA PrecisionKeeps ==
    ASSUME IInv, NEW c \in Caller, Precision(c)
    PROVE  IInv'
<1>1. Places' BY DEF Places, CallerPC, MainPC, Call, Precision, Answer
<1>2. CallsOK'
    BY DEF CallsOK, TickerOf, CallerPC, MainPC, RegisterPC, Places, Call,
       Precision, Answer
<1>3. Readers' BY DEF Readers, TickerOf, Places, Precision, Answer
<1>4. LocksHeld'
    BY DEF LocksHeld, AddPC, StartupPC, RegisterPC, ShutdownPC, Places,
       Precision, Answer
<1>5. ClosedLast' BY DEF ClosedLast, Places, Precision, Answer
<1>6. Waiting'
  <2>1. \A x \in Caller, s \in Ticker : Awaits(x, s) => Awaits(x, s)'
      BY SMTT(30) DEF Places, Precision, Answer, Awaits, TickerOf
  <2>2. \A s \in Ticker : \A i \in 1..Len(queue[s]) : queue[s][i] \in Caller
      BY DEF Books
  <2>3. \A x \in Caller : pc'[x] # "wait" => result'[x] = "none"
      BY SMTT(30) DEF Places, Waiting, Precision, Answer
  <2>4. UNCHANGED <<queue, worker, serving>> BY DEF Precision
  <2> QED BY <2>1, <2>2, <2>3, <2>4 DEF Waiting
<1>7. Batches' BY DEF Batches, Committer, Places, Outs, Precision, Answer
<1>8. Started' BY DEF Started, TickerOf, Places, Precision, Answer
<1>9. Registered'
    BY DEF Registered, TickerOf, RegisterPC, AddedIsServed, Places, Precision,
       Answer
<1>10. Sets' /\ Books' /\ Outs' /\ Unsaved'
    BY DEF Sets, Books, Outs, Unsaved, WaitStage, Precision
<1> QED BY <1>1, <1>2, <1>3, <1>4, <1>5, <1>6, <1>7, <1>8, <1>9, <1>10

LEMMA ReadyKeeps ==
    ASSUME IInv, NEW c \in Caller, Ready(c)
    PROVE  IInv'
<1>1. Places' BY DEF Places, CallerPC, MainPC, Call, Ready, Answer
<1>2. CallsOK'
    BY DEF CallsOK, TickerOf, CallerPC, MainPC, RegisterPC, Places, Call,
       Ready, Answer
<1>3. Readers' BY DEF Readers, TickerOf, Places, Ready, Answer
<1>4. LocksHeld'
    BY DEF LocksHeld, AddPC, StartupPC, RegisterPC, ShutdownPC, Places, Ready,
       Answer
<1>5. ClosedLast' BY DEF ClosedLast, Places, Ready, Answer
<1>6. Waiting' BY DEF Waiting, Awaits, TickerOf, Places, Books, Ready, Answer
<1>7. Batches' BY DEF Batches, Committer, Places, Outs, Ready, Answer
<1>8. Started' BY DEF Started, TickerOf, Places, Ready, Answer
<1>9. Registered'
    BY DEF Registered, TickerOf, RegisterPC, AddedIsServed, Places, Ready,
       Answer
<1>10. Sets' /\ Books' /\ Outs' /\ Unsaved'
    BY DEF Sets, Books, Outs, Unsaved, WaitStage, Ready
<1> QED BY <1>1, <1>2, <1>3, <1>4, <1>5, <1>6, <1>7, <1>8, <1>9, <1>10

LEMMA RouteKeeps ==
    ASSUME IInv, NEW c \in Caller, Route(c)
    PROVE  IInv'
<1>1. Places'
    BY DEF Places, CallerPC, MainPC, Call, Route, Refused, Answer, ReadLockFree
<1>2. Sets' BY DEF Sets, Writer, Route, Refused, Answer, ReadLockFree
<1>3. CallsOK'
    BY DEF CallsOK, TickerOf, CallerPC, MainPC, RegisterPC, Places, Call,
       Route, Refused, Answer, ReadLockFree
<1>4. Readers'
    BY DEF Readers, TickerOf, Places, Route, Refused, Answer, ReadLockFree
<1>5. LocksHeld'
    BY DEF LocksHeld, AddPC, StartupPC, RegisterPC, ShutdownPC, Places, Route,
       Refused, Answer, ReadLockFree
<1>6. ClosedLast'
    BY DEF ClosedLast, Places, CallsOK, Route, Refused, Answer, ReadLockFree
<1>7. Waiting'
    BY DEF Waiting, Awaits, TickerOf, Places, Books, Route, Refused, Answer,
       ReadLockFree
<1>8. Batches'
    BY DEF Batches, Committer, Places, Outs, Route, Refused, Answer,
       ReadLockFree
<1>9. Started'
    BY DEF Started, TickerOf, Places, Route, Refused, Answer, ReadLockFree
<1>10. Registered'
    BY DEF Registered, TickerOf, RegisterPC, AddedIsServed, Places, Route,
       Refused, Answer, ReadLockFree
<1>11. Books' /\ Outs' /\ Unsaved'
    BY DEF Books, Outs, Unsaved, WaitStage, Route
<1> QED BY <1>1, <1>2, <1>3, <1>4, <1>5, <1>6, <1>7, <1>8, <1>9, <1>10, <1>11

LEMMA SendKeeps ==
    ASSUME IInv, NEW c \in Caller, Send(c)
    PROVE  IInv'
<1>1. Places' BY DEF Places, CallerPC, MainPC, Call, Send
<1>2. Books'
  <2>1. TickerOf(c) \in Ticker BY DEF CallsOK, Send
  <2>2. LET q == queue[TickerOf(c)] IN
        q \in Seq(Caller) /\ Append(q, c) \in Seq(Caller) /\ Len(Append(q, c)) <= QueueCap
      BY <2>1, CapAssumption DEF Books, Send
  <2> QED BY <2>1, <2>2 DEF Books, Send
<1>3. CallsOK'
    BY DEF CallsOK, TickerOf, CallerPC, MainPC, RegisterPC, Places, Call, Send
<1>4. Readers' BY DEF Readers, TickerOf, Places, Send
<1>5. LocksHeld'
    BY DEF LocksHeld, AddPC, StartupPC, RegisterPC, ShutdownPC, Places, Send
<1>6. ClosedLast' BY DEF ClosedLast, Places, Send
<1>7. Waiting'
  <2> DEFINE s == TickerOf(c)
             Still(x, r) == pc'[x] = "wait" /\ result'[x] = "none" /\ call'[x].ticker = r
  <2>1. s \in Ticker /\ queue[s] \in Seq(Caller) /\ Len(queue[s]) \in Nat
      BY DEF CallsOK, Books, Send
  <2>2. /\ pc[c] = "send" /\ result[c] = "none"
        /\ pc' = [pc EXCEPT ![c] = "wait"]
        /\ UNCHANGED <<call, result, worker, serving>>
      BY DEF Waiting, Send
  <2>3. /\ \A x \in Caller, r \in Ticker : Awaits(x, r) => x # c /\ Still(x, r)
        /\ Still(c, s)
      BY <2>2 DEF Places, Awaits, TickerOf
  <2>4. /\ Len(queue'[s]) = Len(queue[s]) + 1
        /\ queue'[s][Len(queue[s]) + 1] = c
        /\ \A i \in 1..Len(queue[s]) : queue'[s][i] = queue[s][i]
        /\ \A r \in Ticker \ {s} : queue'[r] = queue[r]
        /\ queue'[s] = Append(queue[s], c)
      BY <2>1 DEF Books, Send
  <2>5. \A r \in Ticker : \A i \in 1..Len(queue[r]) : queue[r][i] \in Caller /\ queue[r][i] # c
      BY <2>3 DEF Books, Waiting
  <2>6. \A x \in Caller : pc'[x] # "wait" => result'[x] = "none"
      BY <2>2 DEF Places, Waiting
  <2>7. \A r \in Ticker : worker'[r] \in {"apply", "commit"} =>
            serving'[r] \in Caller /\ Still(serving'[r], r) /\ serving'[r] # c
      BY <2>2, <2>3 DEF Waiting
  <2> HIDE DEF s
  <2>8. \A r \in Ticker \ {s} :
            /\ \A i \in 1..Len(queue'[r]) : Still(queue'[r][i], r)
            /\ \A i, j \in 1..Len(queue'[r]) : queue'[r][i] = queue'[r][j] => i = j
            /\ \A i \in 1..Len(queue'[r]) : worker'[r] \in {"apply", "commit"} => queue'[r][i] # serving'[r]
      BY <2>2, <2>3, <2>4, <2>5 DEF Waiting
  <2>9. \A i \in 1..Len(queue'[s]) : i \in 1..Len(queue[s]) \/ (i = Len(queue[s]) + 1 /\ queue'[s][i] = c)
      BY <2>1, <2>4
  <2>10. \A i \in 1..Len(queue'[s]) : Still(queue'[s][i], s)
    <3> SUFFICES ASSUME NEW i \in 1..Len(queue'[s]) PROVE Still(queue'[s][i], s)
      OBVIOUS
    <3>1. CASE i \in 1..Len(queue[s])
      <4>1. queue'[s][i] = queue[s][i] /\ queue[s][i] \in Caller
        BY <2>1, <2>4, <2>5, <3>1
      <4>2. Awaits(queue[s][i], s)
        BY <2>1, <3>1 DEF Waiting
      <4> QED BY <2>1, <2>3, <4>1, <4>2
    <3>2. CASE i = Len(queue[s]) + 1 /\ queue'[s][i] = c
      BY <2>3, <3>2
    <3> QED BY <2>9, <3>1, <3>2
  <2>11. \A i, j \in 1..Len(queue'[s]) : queue'[s][i] = queue'[s][j] => i = j
    <3>1. \A i, j \in 1..Len(queue[s]) : queue[s][i] = queue[s][j] => i = j
      BY <2>1 DEF Waiting
    <3>2. \A i \in 1..Len(queue[s]) : queue[s][i] # c
      BY <2>1, <2>5
    <3>3. queue[s] \in Seq(Caller) /\ queue'[s] = Append(queue[s], c)
      BY <2>1, <2>4
    <3> QED BY <3>1, <3>2, <3>3, AppendDistinct
  <2>12. \A i \in 1..Len(queue'[s]) : worker'[s] \in {"apply", "commit"} => queue'[s][i] # serving'[s]
      BY <2>1, <2>2, <2>4, <2>7, <2>9 DEF Waiting
  <2> QED
      BY <2>1, <2>2, <2>6, <2>7, <2>8, <2>10, <2>11, <2>12 DEF Waiting, Awaits, TickerOf
<1>8. Batches' BY DEF Batches, Committer, Places, Outs, Send
<1>9. Started' BY DEF Started, TickerOf, Places, Send
<1>10. Registered'
    BY DEF Registered, TickerOf, RegisterPC, AddedIsServed, Places, Send
<1>11. Sets' /\ Outs' /\ Unsaved' BY DEF Sets, Outs, Unsaved, WaitStage, Send
<1> QED BY <1>1, <1>2, <1>3, <1>4, <1>5, <1>6, <1>7, <1>8, <1>9, <1>10, <1>11

LEMMA ReturnKeeps ==
    ASSUME IInv, NEW c \in Caller, Return(c)
    PROVE  IInv'
<1>1. Places' BY DEF Places, CallerPC, MainPC, Call, Return, Answer
<1>2. Sets' BY DEF Sets, Writer, Return, Answer
<1>3. Books' BY DEF Books, Return, Answer
<1>4. CallsOK'
    BY DEF CallsOK, TickerOf, CallerPC, MainPC, RegisterPC, Places, Call,
       Return, Answer
<1>5. Readers' BY DEF Readers, TickerOf, Places, Return, Answer
<1>6. LocksHeld'
    BY DEF LocksHeld, AddPC, StartupPC, RegisterPC, ShutdownPC, Places, Return,
       Answer
<1>7. ClosedLast' BY DEF ClosedLast, Places, Return, Answer
<1>8. Waiting'
  <2>1. \A x \in Caller, s \in Ticker : Awaits(x, s) => Awaits(x, s)'
      BY SMTT(30) DEF Places, Return, Answer, Awaits, TickerOf
  <2>2. \A s \in Ticker : \A i \in 1..Len(queue[s]) : queue[s][i] \in Caller
      BY DEF Books
  <2>3. \A x \in Caller : pc'[x] # "wait" => result'[x] = "none"
      BY SMTT(30) DEF Places, Books, Waiting, Return, Answer
  <2>4. UNCHANGED <<queue, worker, serving>> BY DEF Return
  <2> QED BY <2>1, <2>2, <2>3, <2>4 DEF Waiting
<1>9. Batches' BY DEF Batches, Committer, Places, Outs, Return, Answer
<1>10. Started' BY DEF Started, TickerOf, Places, Return, Answer
<1>11. Registered'
    BY DEF Registered, TickerOf, RegisterPC, AddedIsServed, Places, Return,
       Answer
<1>12. Outs' /\ Unsaved' BY DEF Outs, Unsaved, WaitStage, Return
<1> QED BY <1>1, <1>2, <1>3, <1>4, <1>5, <1>6, <1>7, <1>8, <1>9, <1>10, <1>11, <1>12

\* AddTicker, and the registration that startup shares.

LEMMA MutexKeeps ==
    ASSUME IInv, NEW c \in Caller, Mutex(c)
    PROVE  IInv'
<1>1. Places' BY DEF Places, CallerPC, MainPC, Call, Mutex, LockLifecycle
<1>2. Sets' BY DEF Sets, Writer, Mutex, LockLifecycle
<1>3. CallsOK'
    BY DEF CallsOK, TickerOf, CallerPC, MainPC, RegisterPC, Places, Call,
       Mutex, LockLifecycle
<1>4. Readers' BY DEF Readers, TickerOf, Places, Mutex, LockLifecycle
<1>5. LocksHeld'
    BY DEF LocksHeld, AddPC, StartupPC, RegisterPC, ShutdownPC, Places, Mutex,
       LockLifecycle
<1>6. ClosedLast' BY DEF ClosedLast, Places, Mutex, LockLifecycle
<1>7. Waiting'
    BY DEF Waiting, Awaits, TickerOf, Places, Books, Mutex, LockLifecycle
<1>8. Batches' BY DEF Batches, Committer, Places, Outs, Mutex, LockLifecycle
<1>9. Started' BY DEF Started, TickerOf, Places, Mutex, LockLifecycle
<1>10. Registered'
    BY DEF Registered, TickerOf, RegisterPC, AddedIsServed, Places, Mutex,
       LockLifecycle
<1>11. Books' /\ Outs' /\ Unsaved'
    BY DEF Books, Outs, Unsaved, WaitStage, Mutex
<1> QED BY <1>1, <1>2, <1>3, <1>4, <1>5, <1>6, <1>7, <1>8, <1>9, <1>10, <1>11

LEMMA AdmitKeeps ==
    ASSUME IInv, NEW c \in Caller, Admit(c)
    PROVE  IInv'
<1>1. Places' BY DEF Places, CallerPC, MainPC, Call, Admit, AddReturns, Answer
<1>2. Sets' BY DEF Sets, Writer, Admit, AddReturns, Answer
<1>3. CallsOK'
    BY DEF CallsOK, TickerOf, CallerPC, MainPC, RegisterPC, Places, Call,
       Admit, AddReturns, Answer
<1>4. Readers' BY DEF Readers, TickerOf, Places, Admit, AddReturns, Answer
<1>5. LocksHeld'
    BY DEF LocksHeld, AddPC, StartupPC, RegisterPC, ShutdownPC, Places, Admit,
       AddReturns, Answer
<1>6. ClosedLast' BY DEF ClosedLast, Places, Admit, AddReturns, Answer
<1>7. Waiting'
  <2>1. \A x \in Caller, s \in Ticker : Awaits(x, s) => Awaits(x, s)'
      BY SMTT(30) DEF Places, Admit, AddReturns, Answer, Awaits, TickerOf
  <2>2. \A s \in Ticker : \A i \in 1..Len(queue[s]) : queue[s][i] \in Caller
      BY DEF Books
  <2>3. \A x \in Caller : pc'[x] # "wait" => result'[x] = "none"
      BY SMTT(30) DEF Places, Waiting, Admit, AddReturns, Answer
  <2>4. UNCHANGED <<queue, worker, serving>> BY DEF Admit
  <2> QED BY <2>1, <2>2, <2>3, <2>4 DEF Waiting
<1>8. Batches'
    BY DEF Batches, Committer, Places, Outs, Admit, AddReturns, Answer
<1>9. Started' BY DEF Started, TickerOf, Places, Admit, AddReturns, Answer
<1>10. Registered'
    BY DEF Registered, TickerOf, RegisterPC, AddedIsServed, Places, Admit,
       AddReturns, Answer
<1>11. Books' /\ Outs' /\ Unsaved'
    BY DEF Books, Outs, Unsaved, WaitStage, Admit
<1> QED BY <1>1, <1>2, <1>3, <1>4, <1>5, <1>6, <1>7, <1>8, <1>9, <1>10, <1>11

LEMMA ExistsKeeps ==
    ASSUME IInv, NEW c \in Caller, Exists(c)
    PROVE  IInv'
<1>1. Places' BY DEF Places, CallerPC, MainPC, Call, Exists, AddReturns, Answer
<1>2. Sets' BY DEF Sets, Writer, Exists, AddReturns, Answer
<1>3. CallsOK'
    BY DEF CallsOK, TickerOf, CallerPC, MainPC, RegisterPC, Places, Call,
       Exists, AddReturns, Answer
<1>4. Readers' BY DEF Readers, TickerOf, Places, Exists, AddReturns, Answer
<1>5. LocksHeld'
    BY DEF LocksHeld, AddPC, StartupPC, RegisterPC, ShutdownPC, Places, Exists,
       AddReturns, Answer
<1>6. ClosedLast' BY DEF ClosedLast, Places, Exists, AddReturns, Answer
<1>7. Waiting'
  <2>1. \A x \in Caller, s \in Ticker : Awaits(x, s) => Awaits(x, s)'
      BY SMTT(30) DEF Places, Exists, AddReturns, Answer, Awaits, TickerOf
  <2>2. \A s \in Ticker : \A i \in 1..Len(queue[s]) : queue[s][i] \in Caller
      BY DEF Books
  <2>3. \A x \in Caller : pc'[x] # "wait" => result'[x] = "none"
      BY SMTT(30) DEF Places, Waiting, Exists, AddReturns, Answer
  <2>4. UNCHANGED <<queue, worker, serving>> BY DEF Exists
  <2> QED BY <2>1, <2>2, <2>3, <2>4 DEF Waiting
<1>8. Batches'
    BY DEF Batches, Committer, Places, Outs, Exists, AddReturns, Answer
<1>9. Started' BY DEF Started, TickerOf, Places, Exists, AddReturns, Answer
<1>10. Registered'
    BY DEF Registered, TickerOf, RegisterPC, AddedIsServed, Places, Exists,
       AddReturns, Answer
<1>11. Books' /\ Outs' /\ Unsaved'
    BY DEF Books, Outs, Unsaved, WaitStage, Exists
<1> QED BY <1>1, <1>2, <1>3, <1>4, <1>5, <1>6, <1>7, <1>8, <1>9, <1>10, <1>11

LEMMA PersistKeeps ==
    ASSUME IInv, NEW c \in Caller, Persist(c)
    PROVE  IInv'
<1>1. Places'
    BY DEF Places, CallerPC, MainPC, Call, Persist, AddReturns, Answer
<1>2. Sets'
  <2>1. TickerOf(c) \in Ticker BY DEF CallsOK, RegisterPC, Persist, CallerPC
  <2> QED BY <2>1 DEF Sets, Persist, AddReturns, Answer
<1>3. CallsOK'
    BY DEF CallsOK, TickerOf, CallerPC, MainPC, RegisterPC, Places, Call,
       Persist, AddReturns, Answer
<1>4. Readers' BY DEF Readers, TickerOf, Places, Persist, AddReturns, Answer
<1>5. LocksHeld'
    BY DEF LocksHeld, AddPC, StartupPC, RegisterPC, ShutdownPC, Places,
       Persist, AddReturns, Answer
<1>6. ClosedLast' BY DEF ClosedLast, Places, Persist, AddReturns, Answer
<1>7. Waiting'
  <2>1. \A x \in Caller, s \in Ticker : Awaits(x, s) => Awaits(x, s)'
      BY SMTT(30) DEF Places, Persist, AddReturns, Answer, Awaits, TickerOf
  <2>2. \A s \in Ticker : \A i \in 1..Len(queue[s]) : queue[s][i] \in Caller
      BY DEF Books
  <2>3. \A x \in Caller : pc'[x] # "wait" => result'[x] = "none"
      BY SMTT(30) DEF Places, Waiting, Persist, AddReturns, Answer
  <2>4. UNCHANGED <<queue, worker, serving>> BY DEF Persist
  <2> QED BY <2>1, <2>2, <2>3, <2>4 DEF Waiting
<1>8. Batches'
    BY DEF Batches, Committer, Places, Outs, Persist, AddReturns, Answer
<1>9. Started' BY DEF Started, TickerOf, Places, Persist, AddReturns, Answer
<1>10. Registered'
    BY DEF Registered, TickerOf, RegisterPC, AddedIsServed, Places, Persist,
       AddReturns, Answer
<1>11. Books' /\ Outs' /\ Unsaved'
    BY DEF Books, Outs, Unsaved, WaitStage, Persist
<1> QED BY <1>1, <1>2, <1>3, <1>4, <1>5, <1>6, <1>7, <1>8, <1>9, <1>10, <1>11

LEMMA LoadKeeps ==
    ASSUME IInv, NEW c \in Caller, Load(c)
    PROVE  IInv'
<1>1. Places' BY DEF Places, CallerPC, MainPC, Call, Load, AddReturns, Answer
<1>2. Sets' BY DEF Sets, Writer, Load, AddReturns, Answer
<1>3. CallsOK'
    BY DEF CallsOK, TickerOf, CallerPC, MainPC, RegisterPC, Places, Call, Load,
       AddReturns, Answer
<1>4. Readers' BY DEF Readers, TickerOf, Places, Load, AddReturns, Answer
<1>5. LocksHeld'
    BY DEF LocksHeld, AddPC, StartupPC, RegisterPC, ShutdownPC, Places, Load,
       AddReturns, Answer
<1>6. ClosedLast' BY DEF ClosedLast, Places, Load, AddReturns, Answer
<1>7. Waiting'
  <2>1. \A x \in Caller, s \in Ticker : Awaits(x, s) => Awaits(x, s)'
      BY SMTT(30) DEF Places, Load, AddReturns, Answer, Awaits, TickerOf
  <2>2. \A s \in Ticker : \A i \in 1..Len(queue[s]) : queue[s][i] \in Caller
      BY DEF Books
  <2>3. \A x \in Caller : pc'[x] # "wait" => result'[x] = "none"
      BY SMTT(30) DEF Places, Waiting, Load, AddReturns, Answer
  <2>4. UNCHANGED <<queue, worker, serving>> BY DEF Load
  <2> QED BY <2>1, <2>2, <2>3, <2>4 DEF Waiting
<1>8. Batches'
    BY DEF Batches, Committer, Places, Outs, Load, AddReturns, Answer
<1>9. Started' BY DEF Started, TickerOf, Places, Load, AddReturns, Answer
<1>10. Registered'
    BY DEF Registered, TickerOf, RegisterPC, AddedIsServed, Places, Load,
       AddReturns, Answer
<1>11. Books' /\ Outs' /\ Unsaved' BY DEF Books, Outs, Unsaved, WaitStage, Load
<1> QED BY <1>1, <1>2, <1>3, <1>4, <1>5, <1>6, <1>7, <1>8, <1>9, <1>10, <1>11

LEMMA ReplayKeeps ==
    ASSUME IInv, NEW p \in Proc, Replay(p)
    PROVE  IInv'
<1>1. Places'
    BY DEF Places, CallerPC, MainPC, Call, Replay, Commit, Fails, AddReturns,
       Answer
<1>2. Sets' BY DEF Sets, Writer, Replay, Commit, Fails, AddReturns, Answer
<1>3. Outs'
    BY DEF Outs, Stage, Writer, Committer, Replay, Commit, Fails, AddReturns,
       Answer
<1>4. CallsOK'
    BY DEF CallsOK, TickerOf, CallerPC, MainPC, RegisterPC, Places, Call,
       Replay, Commit, Fails, AddReturns, Answer
<1>5. Readers'
    BY DEF Readers, TickerOf, Places, Replay, Commit, Fails, AddReturns, Answer
<1>6. LocksHeld'
    BY DEF LocksHeld, AddPC, StartupPC, RegisterPC, ShutdownPC, Places, Replay,
       Commit, Fails, AddReturns, Answer
<1>7. ClosedLast'
    BY DEF ClosedLast, Places, Replay, Commit, Fails, AddReturns, Answer
<1>8. Waiting'
  <2>1. \A x \in Caller, s \in Ticker : Awaits(x, s) => Awaits(x, s)'
      BY SMTT(30) DEF Places, Replay, Fails, AddReturns, Answer, Awaits,
         TickerOf
  <2>2. \A s \in Ticker : \A i \in 1..Len(queue[s]) : queue[s][i] \in Caller
      BY DEF Books
  <2>3. \A x \in Caller : pc'[x] # "wait" => result'[x] = "none"
      BY SMTT(30) DEF Places, Waiting, Replay, Fails, AddReturns, Answer
  <2>4. UNCHANGED <<queue, worker, serving>> BY DEF Replay
  <2> QED BY <2>1, <2>2, <2>3, <2>4 DEF Waiting
<1>9. Batches'
    BY DEF Batches, Committer, Places, Outs, Replay, Commit, Fails, AddReturns,
       Answer
<1>10. Unsaved'
    BY DEF Unsaved, WaitStage, Writer, Committer, Outs, Replay, Commit, Fails,
       AddReturns, Answer
<1>11. Started'
    BY DEF Started, TickerOf, Places, Replay, Commit, Fails, AddReturns, Answer
<1>12. Registered'
    BY DEF Registered, TickerOf, RegisterPC, AddedIsServed, Places, Replay,
       Commit, Fails, AddReturns, Answer
<1>13. Books' BY DEF Books, Replay
<1> QED BY <1>1, <1>2, <1>3, <1>4, <1>5, <1>6, <1>7, <1>8, <1>9, <1>10, <1>11, <1>12, <1>13

LEMMA LockKeeps ==
    ASSUME IInv, NEW p \in Proc, Lock(p)
    PROVE  IInv'
<1>1. Places' BY DEF Places, CallerPC, MainPC, Call, Lock
<1>2. Sets' BY DEF Sets, Writer, Lock
<1>3. CallsOK'
    BY DEF CallsOK, TickerOf, CallerPC, MainPC, RegisterPC, Places, Call, Lock
<1>4. Readers' BY DEF Readers, TickerOf, Places, Lock
<1>5. LocksHeld'
    BY DEF LocksHeld, AddPC, StartupPC, RegisterPC, ShutdownPC, Places, Lock
<1>6. ClosedLast' BY DEF ClosedLast, Places, Lock
<1>7. Waiting' BY DEF Waiting, Awaits, TickerOf, Places, Books, Lock
<1>8. Batches' BY DEF Batches, Committer, Places, Outs, Lock
<1>9. Started' BY DEF Started, TickerOf, Places, Lock
<1>10. Registered'
    BY DEF Registered, TickerOf, RegisterPC, AddedIsServed, Places, Lock
<1>11. Books' /\ Outs' /\ Unsaved' BY DEF Books, Outs, Unsaved, WaitStage, Lock
<1> QED BY <1>1, <1>2, <1>3, <1>4, <1>5, <1>6, <1>7, <1>8, <1>9, <1>10, <1>11

LEMMA RegisterKeeps ==
    ASSUME IInv, NEW p \in Proc, Register(p)
    PROVE  IInv'
<1>1. Places'
    BY DEF Places, CallerPC, MainPC, Call, Register, Fails, AddReturns, Answer
<1>2. Sets'
  <2>1. TickerOf(p) \in Ticker BY DEF CallsOK, RegisterPC, Register, CallerPC
  <2> QED BY <2>1 DEF Sets, Register, Fails, AddReturns, Answer
<1>3. CallsOK'
    BY DEF CallsOK, TickerOf, CallerPC, MainPC, RegisterPC, Places, Call,
       Register, Fails, AddReturns, Answer
<1>4. Readers'
    BY DEF Readers, TickerOf, Places, Register, Fails, AddReturns, Answer
<1>5. LocksHeld'
    BY DEF LocksHeld, AddPC, StartupPC, RegisterPC, ShutdownPC, Places,
       Register, Fails, AddReturns, Answer
<1>6. ClosedLast'
    BY DEF ClosedLast, Places, Register, Fails, AddReturns, Answer
<1>7. Waiting'
  <2>1. \A x \in Caller, s \in Ticker : Awaits(x, s) => Awaits(x, s)'
      BY SMTT(30) DEF Places, Register, Fails, AddReturns, Answer, Awaits,
         TickerOf
  <2>2. \A s \in Ticker : \A i \in 1..Len(queue[s]) : queue[s][i] \in Caller
      BY DEF Books
  <2>3. \A x \in Caller : pc'[x] # "wait" => result'[x] = "none"
      BY SMTT(30) DEF Places, Waiting, Register, Fails, AddReturns, Answer
  <2>4. UNCHANGED <<queue, worker, serving>> BY DEF Register
  <2> QED BY <2>1, <2>2, <2>3, <2>4 DEF Waiting
<1>8. Batches'
    BY DEF Batches, Committer, Places, Outs, Register, Fails, AddReturns,
       Answer
<1>9. Started'
  <2> DEFINE s == TickerOf(p)
  <2>1. /\ pc[p] = "register" /\ UNCHANGED worker
        /\ \A q \in Proc \ {p} : pc'[q] = pc[q] /\ TickerOf(q)' = TickerOf(q)
      BY DEF Places, Register, Fails, AddReturns, Answer, TickerOf
  <2>2. CASE workers' = workers
    <3>1. pc'[p] # "run"
      BY <2>2 DEF Places, Register, Fails, AddReturns, Answer
    <3>2. pc[Main] \in {"closeOuts", "flush"} <=> pc'[Main] \in {"closeOuts", "flush"}
      BY <2>1 DEF Places, Register, Fails, AddReturns, Answer
    <3> QED BY <2>1, <2>2, <3>1, <3>2 DEF Started, TickerOf
  <2>3. CASE workers' # workers
    <3>1. /\ ~closed /\ s \notin workers /\ workers' = workers \cup {s}
          /\ pc'[p] = "run" /\ UNCHANGED call
      BY <2>3 DEF Places, Register, Fails
    <3>2. s \in Ticker /\ worker[s] = "none"
      BY <2>1, <3>1 DEF CallsOK, RegisterPC, CallerPC, Started
    <3>3. pc'[Main] \notin {"closeOuts", "flush"}
      BY <2>1, <3>1 DEF ClosedLast
    <3> QED BY <2>1, <3>1, <3>2, <3>3 DEF Started, TickerOf
  <2> QED BY <2>2, <2>3
<1>10. Registered'
    BY DEF Registered, TickerOf, RegisterPC, AddedIsServed, Places, Register,
       Fails, AddReturns, Answer
<1>11. Books' /\ Outs' /\ Unsaved'
    BY DEF Books, Outs, Unsaved, WaitStage, Register
<1> QED BY <1>1, <1>2, <1>3, <1>4, <1>5, <1>6, <1>7, <1>8, <1>9, <1>10, <1>11

LEMMA RunKeeps ==
    ASSUME IInv, NEW p \in Proc, Run(p)
    PROVE  IInv'
<1>1. Places' BY DEF Places, CallerPC, MainPC, Call, Run, AddReturns, Answer
<1>2. Sets'
  <2>1. TickerOf(p) \in Ticker BY DEF CallsOK, RegisterPC, Run, CallerPC
  <2> QED BY <2>1 DEF Sets, Run, AddReturns, Answer
<1>3. Books'
  <2>1. /\ worker' = [worker EXCEPT ![TickerOf(p)] = "idle"]
        /\ UNCHANGED <<result, queue, serving>>
      BY DEF Run
  <2> QED BY <2>1 DEF Books
<1>4. CallsOK'
    BY DEF CallsOK, TickerOf, CallerPC, MainPC, RegisterPC, Places, Call, Run,
       AddReturns, Answer
<1>5. Readers' BY DEF Readers, TickerOf, Places, Run, AddReturns, Answer
<1>6. LocksHeld'
    BY DEF LocksHeld, AddPC, StartupPC, RegisterPC, ShutdownPC, Places, Run,
       AddReturns, Answer
<1>7. ClosedLast' BY DEF ClosedLast, Places, Run, AddReturns, Answer
<1>8. Waiting'
  <2>1. \A x \in Caller, s \in Ticker : Awaits(x, s) => Awaits(x, s)'
      BY SMTT(30) DEF Places, Run, AddReturns, Answer, Awaits, TickerOf
  <2>2. \A s \in Ticker : \A i \in 1..Len(queue[s]) : queue[s][i] \in Caller
      BY DEF Books
  <2>3. \A x \in Caller : pc'[x] # "wait" => result'[x] = "none"
      BY SMTT(30) DEF Places, Waiting, Run, AddReturns, Answer
  <2>4. /\ UNCHANGED <<queue, serving>>
        /\ \A s \in Ticker : worker'[s] = worker[s] \/ worker'[s] = "idle"
      BY DEF Books, Run
  <2> QED BY <2>1, <2>2, <2>3, <2>4 DEF Waiting
<1>9. Batches'
    BY DEF Batches, Committer, Places, Outs, Started, CallsOK, RegisterPC,
       TickerOf, Books, Run, AddReturns, Answer
<1>10. Started'
  <2> DEFINE s == TickerOf(p)
  <2>1. pc[p] = "run" /\ s \in workers /\ s \in Ticker
      BY DEF Sets, Started, Run
  <2>2. worker' = [worker EXCEPT ![s] = "idle"] /\ UNCHANGED workers BY DEF Run
  <2>3. \A q \in Proc \ {p} : pc[q] # "run" /\ pc'[q] = pc[q]
      BY <2>1 DEF Places, LocksHeld, AddPC, StartupPC, RegisterPC, Run,
         AddReturns, Answer
  <2>4. pc[Main] \notin {"closeOuts", "flush"} /\ pc'[Main] \notin {"closeOuts", "flush"}
      BY <2>1, <2>3 DEF Places, LocksHeld, AddPC, ShutdownPC, RegisterPC, Run,
         AddReturns, Answer
  <2>5. pc'[p] # "run" BY DEF Places, Run, AddReturns, Answer
  <2> QED BY <2>1, <2>2, <2>3, <2>4, <2>5 DEF Books, Started
<1>11. Registered'
    BY DEF Registered, TickerOf, RegisterPC, AddedIsServed, Places, Started,
       Run, AddReturns, Answer
<1>12. Outs' /\ Unsaved' BY DEF Outs, Unsaved, WaitStage, Run
<1> QED BY <1>1, <1>2, <1>3, <1>4, <1>5, <1>6, <1>7, <1>8, <1>9, <1>10, <1>11, <1>12

\* Workers.

LEMMA ReceiveKeeps ==
    ASSUME IInv, NEW t \in Ticker, Receive(t)
    PROVE  IInv'
<1>1. Books'
  <2>1. /\ queue[t] \in Seq(Caller) /\ Head(queue[t]) \in Caller
        /\ Tail(queue[t]) \in Seq(Caller) /\ Len(Tail(queue[t])) <= Len(queue[t])
      BY DEF Books, Receive
  <2>2. queue' = [queue EXCEPT ![t] = Tail(@)] BY DEF Receive
  <2>3. queue' \in [Ticker -> Seq(Caller)] /\ \A x \in Ticker : Len(queue'[x]) <= QueueCap
      BY <2>1, <2>2, CapAssumption DEF Books
  <2>4. result' \in [Caller -> {"none", "ready"}]
      BY <2>1 DEF Books, Receive
  <2>5. /\ worker' \in [Ticker -> {"none", "idle", "apply", "commit", "done"}]
        /\ serving' \in [Ticker -> Caller \cup {Nobody}]
      BY <2>1 DEF Books, Receive
  <2> QED BY <2>3, <2>4, <2>5 DEF Books
<1>2. Waiting' BY DEF Waiting, Awaits, TickerOf, Places, Books, Receive
<1>3. Batches' BY DEF Batches, Committer, Places, Outs, Books, Receive
<1>4. Started'
  <2>1. worker[t] = "idle" /\ \A x \in Ticker \ {t} : worker'[x] = worker[x]
      BY DEF Books, Receive
  <2>2. t \in workers /\ UNCHANGED <<pc, call, workers>>
      BY <2>1 DEF Started, Receive
  <2>3. pc[Main] \notin {"closeOuts", "flush"}
      BY <2>1, <2>2 DEF Started
  <2>4. \A p \in Proc : pc[p] = "run" => TickerOf(p) \in Ticker \ {t}
      BY <2>1 DEF Sets, Started
  <2> QED BY <2>1, <2>2, <2>3, <2>4 DEF Started, TickerOf
<1>5. Places' /\ Sets' /\ Outs' /\ CallsOK' /\ Readers' /\ LocksHeld' /\
      ClosedLast' /\ Unsaved' /\ Registered'
    BY DEF Places, Sets, Outs, CallsOK, TickerOf, Readers, LocksHeld,
       ClosedLast, Unsaved, WaitStage, Registered, AddedIsServed, Receive
<1> QED BY <1>1, <1>2, <1>3, <1>4, <1>5

LEMMA ApplyKeeps ==
    ASSUME IInv, NEW t \in Ticker, Apply(t)
    PROVE  IInv'
<1>1. Sets' BY DEF Sets, Writer, Apply, Acknowledge, Commit
<1>2. Books' BY DEF Books, Apply, Acknowledge, Commit
<1>3. Outs' BY DEF Outs, Stage, Writer, Committer, Apply, Acknowledge, Commit
<1>4. Waiting'
  <2>1. /\ worker[t] = "apply" /\ serving[t] \in Caller /\ Awaits(serving[t], t)
        /\ \A i \in 1..Len(queue[t]) : queue[t][i] # serving[t]
      BY DEF Waiting, Apply
  <2>2. UNCHANGED <<pc, call, queue>> /\ \A x \in Ticker \ {t} : worker'[x] = worker[x] /\ serving'[x] = serving[x]
      BY DEF Books, Apply, Acknowledge
  <2>3. \/ worker'[t] = "commit" /\ UNCHANGED <<result, serving>>
        \/ worker'[t] = "idle" /\ result' = [result EXCEPT ![serving[t]] = "ready"]
      BY DEF Books, Apply, Acknowledge
  <2>4. \A x \in Caller, r \in Ticker : Awaits(x, r) /\ x # serving[t] => Awaits(x, r)'
      BY <2>2, <2>3 DEF Books, Awaits, TickerOf
  <2>5. \A r \in Ticker : \A i \in 1..Len(queue[r]) : queue[r][i] \in Caller /\ queue[r][i] # serving[t]
      BY <2>1 DEF Books, Waiting, Awaits
  <2>6. \A r \in Ticker \ {t} : worker[r] \in {"apply", "commit"} => serving[r] # serving[t]
      BY <2>1 DEF Waiting, Awaits
  <2>7. \A x \in Caller : pc'[x] # "wait" => result'[x] = "none"
      BY <2>1, <2>2, <2>3 DEF Books, Waiting, Awaits
  <2>8. worker'[t] \in {"apply", "commit"} => serving'[t] = serving[t] /\ Awaits(serving[t], t)'
      BY <2>1, <2>2, <2>3 DEF Awaits, TickerOf
  <2> QED BY <2>1, <2>2, <2>4, <2>5, <2>6, <2>7, <2>8, SMTT(30) DEF Waiting
<1>5. Batches'
  <2>1. worker[t] = "apply" /\ UNCHANGED pc /\ \A x \in Ticker \ {t} : worker'[x] = worker[x]
      BY DEF Books, Apply, Acknowledge
  <2>2. stage[t] = "none" BY <2>1 DEF Batches
  <2>3. /\ \A g \in Committer \ {t} : stage'[g] = stage[g]
        /\ stage'[t] # "none" => worker'[t] = "commit"
      BY <2>2 DEF Books, Outs, Apply, Commit, Committer
  <2>4. t \notin Proc OBVIOUS
  <2> QED BY <2>1, <2>3, <2>4 DEF Batches, Committer
<1>6. Unsaved'
  <2>1. stage[t] = "none" /\ UNCHANGED out BY DEF Batches, Apply
  <2>2. \A g \in Committer \ {t} : stage'[g] = stage[g]
      BY DEF Outs, Apply, Commit
  <2>3. \A w \in Writer : \A i \in 1..Len(out[w]) : out[w][i] \in Committer \ {t}
      BY <2>1 DEF Outs, Unsaved, WaitStage
  <2> QED BY <2>1, <2>2, <2>3 DEF Unsaved
<1>7. Started'
  <2>1. worker[t] = "apply" /\ \A x \in Ticker \ {t} : worker'[x] = worker[x]
      BY DEF Books, Apply, Acknowledge
  <2>2. t \in workers /\ UNCHANGED <<pc, call, workers>>
      BY <2>1 DEF Started, Apply, Acknowledge
  <2>3. pc[Main] \notin {"closeOuts", "flush"}
      BY <2>1, <2>2 DEF Started
  <2>4. \A p \in Proc : pc[p] = "run" => TickerOf(p) \in Ticker \ {t}
      BY <2>1 DEF Sets, Started
  <2> QED BY <2>1, <2>2, <2>3, <2>4 DEF Started, TickerOf
<1>8. Registered'
  <2>1. t \in workers BY DEF Started, Apply
  <2>2. journaled' \in {journaled, journaled \cup {t}} /\ UNCHANGED <<markets, added, pc, call, workers>>
      BY DEF Apply
  <2> QED BY <2>1, <2>2 DEF Registered, AddedIsServed, TickerOf
<1>9. Places' /\ CallsOK' /\ Readers' /\ LocksHeld' /\ ClosedLast'
    BY DEF Places, CallsOK, TickerOf, Readers, LocksHeld, ClosedLast, Apply
<1> QED BY <1>1, <1>2, <1>3, <1>4, <1>5, <1>6, <1>7, <1>8, <1>9

LEMMA FinishKeeps ==
    ASSUME IInv, NEW t \in Ticker, Finish(t)
    PROVE  IInv'
<1>1. Sets' BY DEF Sets, Writer, Finish, Acknowledge, Commit
<1>2. Books' BY DEF Books, Finish, Acknowledge, Commit
<1>3. Outs' BY DEF Outs, Stage, Writer, Committer, Finish, Acknowledge, Commit
<1>4. Waiting'
    BY DEF Waiting, Awaits, TickerOf, Places, Books, Finish, Acknowledge,
       Commit
<1>5. Batches'
    BY DEF Batches, Committer, Places, Outs, Finish, Acknowledge, Commit
<1>6. Unsaved'
    BY DEF Unsaved, WaitStage, Writer, Committer, Outs, Finish, Acknowledge,
       Commit
<1>7. Started' BY DEF Started, TickerOf, Places, Finish, Acknowledge, Commit
<1>8. Places' /\ CallsOK' /\ Readers' /\ LocksHeld' /\ ClosedLast' /\
      Registered'
    BY DEF Places, CallsOK, TickerOf, Readers, LocksHeld, ClosedLast,
       Registered, AddedIsServed, Finish
<1> QED BY <1>1, <1>2, <1>3, <1>4, <1>5, <1>6, <1>7, <1>8

LEMMA WorkerEndsKeeps ==
    ASSUME IInv, NEW t \in Ticker, WorkerEnds(t)
    PROVE  IInv'
<1>1. Books' BY DEF Books, WorkerEnds
<1>2. Waiting' BY DEF Waiting, Awaits, TickerOf, Places, Books, WorkerEnds
<1>3. Batches' BY DEF Batches, Committer, Places, Outs, WorkerEnds
<1>4. Started' BY DEF Started, TickerOf, Places, WorkerEnds
<1>5. Places' /\ Sets' /\ Outs' /\ CallsOK' /\ Readers' /\ LocksHeld' /\
      ClosedLast' /\ Unsaved' /\ Registered'
    BY DEF Places, Sets, Outs, CallsOK, TickerOf, Readers, LocksHeld,
       ClosedLast, Unsaved, WaitStage, Registered, AddedIsServed, WorkerEnds
<1> QED BY <1>1, <1>2, <1>3, <1>4, <1>5

\* Batches on their way to the writers.

LEMMA EmitKeeps ==
    ASSUME IInv, NEW g \in Committer, NEW w \in Writer, Emit(g, w)
    PROVE  IInv'
<1>1. Outs'
  <2>1. Append(out[w], g) \in Seq(Committer) /\ Len(Append(out[w], g)) <= OutCap
      BY CapAssumption DEF Outs, Emit
  <2> QED BY <2>1 DEF Outs, Emit, Commit, WaitStage, Stage
<1>2. Batches' BY DEF Batches, Committer, Places, Outs, Emit, Commit, SendStage
<1>3. Unsaved'
  <2>1. out[w] \in Seq(Committer) /\ Len(out[w]) \in Nat BY DEF Outs
  <2>2. \A i \in 1..Len(out[w]) : stage[out[w][i]] # SendStage(w)
      BY DEF Unsaved, WaitStage, SendStage
  <2>3. \A x \in Writer : \A i \in 1..Len(out[x]) : out[x][i] # g
      BY DEF Unsaved, Emit, WaitStage, SendStage, Writer
  <2>4. out'[w] = Append(out[w], g) /\ \A x \in Writer \ {w} : out'[x] = out[x]
      BY DEF Outs, Emit
  <2>5. stage'[g] = WaitStage(w) /\ \A h \in Committer \ {g} : stage'[h] = stage[h]
      BY DEF Outs, Emit, Commit
  <2>6. \A x \in Writer : \A i \in 1..Len(out[x]) : out[x][i] \in Committer
      BY DEF Outs
  <2>7. \A x \in Writer \ {w} : \A i \in 1..Len(out'[x]) : stage'[out'[x][i]] = WaitStage(x)
      BY <2>3, <2>4, <2>5, <2>6 DEF Unsaved
  <2>8. /\ Len(out'[w]) = Len(out[w]) + 1
        /\ out'[w][Len(out[w]) + 1] = g
        /\ \A i \in 1..Len(out[w]) : out'[w][i] = out[w][i]
      BY <2>1, <2>4
  <2>9. \A i \in 1..Len(out[w]) : stage'[out[w][i]] = WaitStage(w)
      BY <2>3, <2>5, <2>6 DEF Unsaved
  <2>10. \A i \in 1..Len(out'[w]) : stage'[out'[w][i]] = WaitStage(w)
    <3> SUFFICES ASSUME NEW i \in 1..Len(out'[w]) PROVE stage'[out'[w][i]] = WaitStage(w)
      OBVIOUS
    <3>1. i \in 1..Len(out[w]) \/ i = Len(out[w]) + 1
      BY <2>1, <2>8
    <3>2. CASE i \in 1..Len(out[w])
      BY <2>8, <2>9, <3>2
    <3>3. CASE i = Len(out[w]) + 1
      BY <2>5, <2>8, <3>3
    <3> QED BY <3>1, <3>2, <3>3
  <2>11. \A i, j \in 1..Len(out[w]) : out[w][i] = out[w][j] => i = j
      BY DEF Unsaved
  <2>12. \A i, j \in 1..Len(out'[w]) : out'[w][i] = out'[w][j] => i = j
    <3>1. PICK q, a : q = out[w] /\ a = out'[w]
      OBVIOUS
    <3>2. q \in Seq(Committer) /\ g \in Committer /\ a = Append(q, g)
      BY <2>1, <2>4, <3>1
    <3>3. /\ \A i, j \in 1..Len(q) : q[i] = q[j] => i = j
          /\ \A i \in 1..Len(q) : q[i] # g
      BY <2>3, <2>11, <3>1
    <3>4. \A i, j \in 1..Len(a) : a[i] = a[j] => i = j
      BY <3>2, <3>3, AppendDistinct
    <3> QED BY <3>1, <3>4
  <2> QED BY <2>4, <2>7, <2>10, <2>12 DEF Unsaved
<1>4. Places' /\ Sets' /\ Books' /\ CallsOK' /\ Readers' /\ LocksHeld' /\
      ClosedLast' /\ Waiting' /\ Started' /\ Registered'
    BY DEF Places, Sets, Books, CallsOK, TickerOf, Readers, LocksHeld,
       ClosedLast, Waiting, Awaits, Started, Registered, AddedIsServed, Emit
<1> QED BY <1>1, <1>2, <1>3, <1>4

LEMMA SaveKeeps ==
    ASSUME IInv, NEW w \in Writer, Save(w)
    PROVE  IInv'
<1>1. Outs'
  <2>1. /\ out[w] \in Seq(Committer) /\ Tail(out[w]) \in Seq(Committer)
        /\ Len(Tail(out[w])) <= Len(out[w])
      BY DEF Outs, Save
  <2>2. out' = [out EXCEPT ![w] = Tail(@)] BY DEF Save
  <2>3. out' \in [Writer -> Seq(Committer)] /\ \A x \in Writer : Len(out'[x]) <= OutCap
      BY <2>1, <2>2, CapAssumption DEF Outs
  <2>4. stage' \in [Committer -> Stage] BY DEF Outs, Save, Commit, Stage
  <2> QED BY <2>3, <2>4 DEF Outs
<1>2. Batches'
  <2>1. /\ out[w] \in Seq(Committer) /\ Len(out[w]) \in Nat \ {0}
        /\ Head(out[w]) \in Committer /\ Head(out[w]) = out[w][1]
      BY DEF Outs, Save
  <2>2. stage[Head(out[w])] # "none" BY <2>1 DEF Unsaved, WaitStage
  <2>3. \A g \in Committer \ {Head(out[w])} : stage'[g] = stage[g]
      BY DEF Outs, Save, Commit
  <2> QED BY <2>2, <2>3 DEF Batches, Save, Committer
<1>3. Unsaved'
  <2> DEFINE h == Head(out[w])
  <2>1. out[w] \in Seq(Committer) /\ Len(out[w]) \in Nat \ {0} /\ h \in Committer /\ h = out[w][1]
      BY DEF Outs, Save
  <2>2. \A x \in Writer : \A i \in 1..Len(out[x]) : out[x][i] = h => x = w /\ i = 1
      BY <2>1 DEF Unsaved, WaitStage, Writer
  <2>3. /\ Len(out'[w]) = Len(out[w]) - 1
        /\ \A i \in 1..Len(out'[w]) : out'[w][i] = out[w][i + 1]
        /\ \A x \in Writer \ {w} : out'[x] = out[x]
      BY <2>1 DEF Outs, Save
  <2>4. \A k \in Committer \ {h} : stage'[k] = stage[k]
      BY DEF Outs, Save, Commit
  <2>5. \A x \in Writer : \A i \in 1..Len(out[x]) : out[x][i] \in Committer
      BY DEF Outs
  <2> HIDE DEF h
  <2>6. \A x \in Writer \ {w} : \A i \in 1..Len(out'[x]) : stage'[out'[x][i]] = WaitStage(x)
      BY <2>2, <2>3, <2>4, <2>5 DEF Unsaved
  <2>7. \A i \in 1..Len(out'[w]) : i + 1 \in 1..Len(out[w]) /\ out[w][i + 1] # h
      BY <2>1, <2>2, <2>3
  <2>8. \A i \in 1..Len(out'[w]) : stage'[out'[w][i]] = WaitStage(w)
    <3> SUFFICES ASSUME NEW i \in 1..Len(out'[w]) PROVE stage'[out'[w][i]] = WaitStage(w)
      OBVIOUS
    <3>1. out'[w][i] = out[w][i + 1] /\ i + 1 \in 1..Len(out[w]) /\ out[w][i + 1] # h
      BY <2>3, <2>7
    <3>2. stage[out[w][i + 1]] = WaitStage(w) /\ out[w][i + 1] \in Committer
      BY <2>5, <3>1 DEF Unsaved
    <3> QED BY <2>4, <3>1, <3>2
  <2>9. \A i, j \in 1..Len(out'[w]) : out'[w][i] = out'[w][j] => i = j
      BY <2>1, <2>3, <2>7 DEF Unsaved
  <2> QED BY <2>3, <2>6, <2>8, <2>9 DEF Unsaved
<1>4. Places' /\ Sets' /\ Books' /\ CallsOK' /\ Readers' /\ LocksHeld' /\
      ClosedLast' /\ Waiting' /\ Started' /\ Registered'
    BY DEF Places, Sets, Books, CallsOK, TickerOf, Readers, LocksHeld,
       ClosedLast, Waiting, Awaits, Started, Registered, AddedIsServed, Save
<1> QED BY <1>1, <1>2, <1>3, <1>4

LEMMA WriterEndsKeeps ==
    ASSUME IInv, NEW w \in Writer, WriterEnds(w)
    PROVE  IInv'
<1>1. Sets' BY DEF Sets, Writer, WriterEnds
<1>2. Places' /\ Books' /\ Outs' /\ CallsOK' /\ Readers' /\ LocksHeld' /\
      ClosedLast' /\ Waiting' /\ Batches' /\ Unsaved' /\ Started' /\
      Registered'
    BY DEF Places, Books, Outs, CallsOK, TickerOf, Readers, LocksHeld,
       ClosedLast, Waiting, Awaits, Batches, Unsaved, WaitStage, Started,
       Registered, AddedIsServed, WriterEnds
<1> QED BY <1>1, <1>2

\* The main goroutine.

LEMMA StartProcessKeeps ==
    ASSUME IInv, StartProcess
    PROVE  IInv'
<1>1. Places' BY DEF Places, CallerPC, MainPC, Call, StartProcess
<1>2. CallsOK'
    BY DEF CallsOK, TickerOf, CallerPC, MainPC, RegisterPC, Places, Call,
       StartProcess
<1>3. Readers' BY DEF Readers, TickerOf, Places, StartProcess
<1>4. LocksHeld'
    BY DEF LocksHeld, AddPC, StartupPC, RegisterPC, ShutdownPC, Places,
       StartProcess
<1>5. ClosedLast' BY DEF ClosedLast, Places, StartProcess
<1>6. Waiting' BY DEF Waiting, Awaits, TickerOf, Places, Books, StartProcess
<1>7. Batches' BY DEF Batches, Committer, Places, Outs, StartProcess
<1>8. Started' BY DEF Started, TickerOf, Places, StartProcess
<1>9. Registered'
    BY DEF Registered, TickerOf, RegisterPC, AddedIsServed, Places,
       StartProcess
<1>10. Sets' /\ Books' /\ Outs' /\ Unsaved'
    BY DEF Sets, Books, Outs, Unsaved, WaitStage, StartProcess
<1> QED BY <1>1, <1>2, <1>3, <1>4, <1>5, <1>6, <1>7, <1>8, <1>9, <1>10

LEMMA ListKeeps ==
    ASSUME IInv, List
    PROVE  IInv'
<1>1. Places' BY DEF Places, CallerPC, MainPC, Call, List
<1>2. CallsOK'
    BY DEF CallsOK, TickerOf, CallerPC, MainPC, RegisterPC, Places, Call, List
<1>3. Readers' BY DEF Readers, TickerOf, Places, List
<1>4. LocksHeld'
    BY DEF LocksHeld, AddPC, StartupPC, RegisterPC, ShutdownPC, Places, List
<1>5. ClosedLast' BY DEF ClosedLast, Places, List
<1>6. Waiting' BY DEF Waiting, Awaits, TickerOf, Places, Books, List
<1>7. Batches' BY DEF Batches, Committer, Places, Outs, List
<1>8. Started' BY DEF Started, TickerOf, Places, List
<1>9. Registered'
    BY DEF Registered, TickerOf, RegisterPC, AddedIsServed, Places, List
<1>10. Sets' /\ Books' /\ Outs' /\ Unsaved'
    BY DEF Sets, Books, Outs, Unsaved, WaitStage, List
<1> QED BY <1>1, <1>2, <1>3, <1>4, <1>5, <1>6, <1>7, <1>8, <1>9, <1>10

LEMMA BackfillKeeps ==
    ASSUME IInv, Backfill
    PROVE  IInv'
<1>1. Places' BY DEF Places, CallerPC, MainPC, Call, Backfill
<1>2. Sets' BY DEF Sets, Writer, Backfill
<1>3. CallsOK'
    BY DEF CallsOK, TickerOf, CallerPC, MainPC, RegisterPC, Places, Call,
       Backfill
<1>4. Readers' BY DEF Readers, TickerOf, Places, Backfill
<1>5. LocksHeld'
    BY DEF LocksHeld, AddPC, StartupPC, RegisterPC, ShutdownPC, Places,
       Backfill
<1>6. ClosedLast' BY DEF ClosedLast, Places, Backfill
<1>7. Waiting' BY DEF Waiting, Awaits, TickerOf, Places, Books, Backfill
<1>8. Batches' BY DEF Batches, Committer, Places, Outs, Backfill
<1>9. Started' BY DEF Started, TickerOf, Places, Backfill
<1>10. Registered'
    BY DEF Registered, TickerOf, RegisterPC, AddedIsServed, Places, Backfill
<1>11. Books' /\ Outs' /\ Unsaved'
    BY DEF Books, Outs, Unsaved, WaitStage, Backfill
<1> QED BY <1>1, <1>2, <1>3, <1>4, <1>5, <1>6, <1>7, <1>8, <1>9, <1>10, <1>11

LEMMA RestoreKeeps ==
    ASSUME IInv, Restore
    PROVE  IInv'
<1>1. Places' BY DEF Places, CallerPC, MainPC, Call, Sets, Restore, ToRestore
<1>2. CallsOK'
    BY DEF CallsOK, TickerOf, CallerPC, MainPC, RegisterPC, Places, Call, Sets,
       Restore, ToRestore
<1>3. Readers' BY DEF Readers, TickerOf, Places, Restore, ToRestore
<1>4. LocksHeld'
    BY DEF LocksHeld, AddPC, StartupPC, RegisterPC, ShutdownPC, Places,
       Restore, ToRestore
<1>5. ClosedLast' BY DEF ClosedLast, Places, Restore, ToRestore
<1>6. Waiting'
    BY DEF Waiting, Awaits, TickerOf, Places, Books, Restore, ToRestore
<1>7. Batches' BY DEF Batches, Committer, Places, Outs, Restore, ToRestore
<1>8. Started' BY DEF Started, TickerOf, Places, Restore, ToRestore
<1>9. Registered'
    BY DEF Registered, TickerOf, RegisterPC, AddedIsServed, Places, Restore,
       ToRestore
<1>10. Sets' /\ Books' /\ Outs' /\ Unsaved'
    BY DEF Sets, Books, Outs, Unsaved, WaitStage, Restore
<1> QED BY <1>1, <1>2, <1>3, <1>4, <1>5, <1>6, <1>7, <1>8, <1>9, <1>10

LEMMA SignalKeeps ==
    ASSUME IInv, Signal
    PROVE  IInv'
<1>1. Places' BY DEF Places, CallerPC, MainPC, Call, Signal
<1>2. CallsOK'
    BY DEF CallsOK, TickerOf, CallerPC, MainPC, RegisterPC, Places, Call,
       Signal
<1>3. Readers' BY DEF Readers, TickerOf, Places, Signal
<1>4. LocksHeld'
    BY DEF LocksHeld, AddPC, StartupPC, RegisterPC, ShutdownPC, Places, Signal
<1>5. ClosedLast' BY DEF ClosedLast, Places, Signal
<1>6. Waiting' BY DEF Waiting, Awaits, TickerOf, Places, Books, Signal
<1>7. Batches' BY DEF Batches, Committer, Places, Outs, Signal
<1>8. Started' BY DEF Started, TickerOf, Places, Signal
<1>9. Registered'
    BY DEF Registered, TickerOf, RegisterPC, AddedIsServed, Places, Signal
<1>10. Sets' /\ Books' /\ Outs' /\ Unsaved'
    BY DEF Sets, Books, Outs, Unsaved, WaitStage, Signal
<1> QED BY <1>1, <1>2, <1>3, <1>4, <1>5, <1>6, <1>7, <1>8, <1>9, <1>10

LEMMA StopHTTPKeeps ==
    ASSUME IInv, StopHTTP
    PROVE  IInv'
<1>1. Places' BY DEF Places, CallerPC, MainPC, Call, StopHTTP
<1>2. CallsOK'
    BY DEF CallsOK, TickerOf, CallerPC, MainPC, RegisterPC, Places, Call,
       StopHTTP
<1>3. Readers' BY DEF Readers, TickerOf, Places, StopHTTP
<1>4. LocksHeld'
    BY DEF LocksHeld, AddPC, StartupPC, RegisterPC, ShutdownPC, Places,
       StopHTTP
<1>5. ClosedLast' BY DEF ClosedLast, Places, StopHTTP
<1>6. Waiting' BY DEF Waiting, Awaits, TickerOf, Places, Books, StopHTTP
<1>7. Batches' BY DEF Batches, Committer, Places, Outs, StopHTTP
<1>8. Started' BY DEF Started, TickerOf, Places, StopHTTP
<1>9. Registered'
    BY DEF Registered, TickerOf, RegisterPC, AddedIsServed, Places, StopHTTP
<1>10. Sets' /\ Books' /\ Outs' /\ Unsaved'
    BY DEF Sets, Books, Outs, Unsaved, WaitStage, StopHTTP
<1> QED BY <1>1, <1>2, <1>3, <1>4, <1>5, <1>6, <1>7, <1>8, <1>9, <1>10

LEMMA LockForShutdownKeeps ==
    ASSUME IInv, LockForShutdown
    PROVE  IInv'
<1>1. Places'
    BY DEF Places, CallerPC, MainPC, Call, LockForShutdown, LockLifecycle
<1>2. Sets' BY DEF Sets, Writer, LockForShutdown, LockLifecycle
<1>3. CallsOK'
    BY DEF CallsOK, TickerOf, CallerPC, MainPC, RegisterPC, Places, Call,
       LockForShutdown, LockLifecycle
<1>4. Readers' BY DEF Readers, TickerOf, Places, LockForShutdown, LockLifecycle
<1>5. LocksHeld'
    BY DEF LocksHeld, AddPC, StartupPC, RegisterPC, ShutdownPC, Places,
       LockForShutdown, LockLifecycle
<1>6. ClosedLast' BY DEF ClosedLast, Places, LockForShutdown, LockLifecycle
<1>7. Waiting'
    BY DEF Waiting, Awaits, TickerOf, Places, Books, LockForShutdown,
       LockLifecycle
<1>8. Batches'
    BY DEF Batches, Committer, Places, Outs, LockForShutdown, LockLifecycle
<1>9. Started' BY DEF Started, TickerOf, Places, LockForShutdown, LockLifecycle
<1>10. Registered'
    BY DEF Registered, TickerOf, RegisterPC, AddedIsServed, Places,
       LockForShutdown, LockLifecycle
<1>11. Books' /\ Outs' /\ Unsaved'
    BY DEF Books, Outs, Unsaved, WaitStage, LockForShutdown
<1> QED BY <1>1, <1>2, <1>3, <1>4, <1>5, <1>6, <1>7, <1>8, <1>9, <1>10, <1>11

LEMMA CloseKeeps ==
    ASSUME IInv, Close
    PROVE  IInv'
<1>1. Places' BY DEF Places, CallerPC, MainPC, Call, Close
<1>2. Sets' BY DEF Sets, Writer, Close
<1>3. CallsOK'
    BY DEF CallsOK, TickerOf, CallerPC, MainPC, RegisterPC, Places, Call, Close
<1>4. Readers' BY DEF Readers, TickerOf, Places, Close
<1>5. LocksHeld'
    BY DEF LocksHeld, AddPC, StartupPC, RegisterPC, ShutdownPC, Places, Close
<1>6. ClosedLast' BY DEF ClosedLast, Places, Close
<1>7. Waiting' BY DEF Waiting, Awaits, TickerOf, Places, Books, Close
<1>8. Batches' BY DEF Batches, Committer, Places, Outs, Close
<1>9. Started' BY DEF Started, TickerOf, Places, Close
<1>10. Registered'
    BY DEF Registered, TickerOf, RegisterPC, AddedIsServed, Places, Close
<1>11. Books' /\ Outs' /\ Unsaved'
    BY DEF Books, Outs, Unsaved, WaitStage, Close
<1> QED BY <1>1, <1>2, <1>3, <1>4, <1>5, <1>6, <1>7, <1>8, <1>9, <1>10, <1>11

LEMMA DrainKeeps ==
    ASSUME IInv, Drain
    PROVE  IInv'
<1>1. Places' BY DEF Places, CallerPC, MainPC, Call, Drain
<1>2. CallsOK'
    BY DEF CallsOK, TickerOf, CallerPC, MainPC, RegisterPC, Places, Call, Drain
<1>3. Readers' BY DEF Readers, TickerOf, Places, Drain
<1>4. LocksHeld'
    BY DEF LocksHeld, AddPC, StartupPC, RegisterPC, ShutdownPC, Places, Drain
<1>5. ClosedLast' BY DEF ClosedLast, Places, Drain
<1>6. Waiting' BY DEF Waiting, Awaits, TickerOf, Places, Books, Drain
<1>7. Batches' BY DEF Batches, Committer, Places, Outs, Drain
<1>8. Started' BY DEF Started, TickerOf, Places, Drain
<1>9. Registered'
    BY DEF Registered, TickerOf, RegisterPC, AddedIsServed, Places, Drain
<1>10. Sets' /\ Books' /\ Outs' /\ Unsaved'
    BY DEF Sets, Books, Outs, Unsaved, WaitStage, Drain
<1> QED BY <1>1, <1>2, <1>3, <1>4, <1>5, <1>6, <1>7, <1>8, <1>9, <1>10

LEMMA CloseOutsKeeps ==
    ASSUME IInv, CloseOuts
    PROVE  IInv'
<1>1. Places' BY DEF Places, CallerPC, MainPC, Call, CloseOuts
<1>2. Sets' BY DEF Sets, Writer, CloseOuts
<1>3. CallsOK'
    BY DEF CallsOK, TickerOf, CallerPC, MainPC, RegisterPC, Places, Call,
       CloseOuts
<1>4. Readers' BY DEF Readers, TickerOf, Places, CloseOuts
<1>5. LocksHeld'
    BY DEF LocksHeld, AddPC, StartupPC, RegisterPC, ShutdownPC, Places,
       CloseOuts
<1>6. ClosedLast' BY DEF ClosedLast, Places, CloseOuts
<1>7. Waiting' BY DEF Waiting, Awaits, TickerOf, Places, Books, CloseOuts
<1>8. Batches' BY DEF Batches, Committer, Places, Outs, CloseOuts
<1>9. Started' BY DEF Started, TickerOf, Places, CloseOuts
<1>10. Registered'
    BY DEF Registered, TickerOf, RegisterPC, AddedIsServed, Places, CloseOuts
<1>11. Books' /\ Outs' /\ Unsaved'
    BY DEF Books, Outs, Unsaved, WaitStage, CloseOuts
<1> QED BY <1>1, <1>2, <1>3, <1>4, <1>5, <1>6, <1>7, <1>8, <1>9, <1>10, <1>11

\* The end of a process, by a crash or a shutdown.

LEMMA ExitKeeps ==
    ASSUME IInv, Exit
    PROVE  IInv'
<1>1. Places' BY DEF Places, CallerPC, MainPC, Call, Exit
<1>2. Sets' BY DEF Sets, Writer, Exit
<1>3. Books'
  <2>1. << >> \in Seq(Caller) /\ Len(<< >>) <= QueueCap BY CapAssumption
  <2> QED BY <2>1 DEF Books, Exit
<1>4. Outs'
  <2>1. << >> \in Seq(Committer) /\ Len(<< >>) <= OutCap BY CapAssumption
  <2> QED BY <2>1 DEF Outs, Exit, Stage
<1>5. CallsOK'
    BY DEF CallsOK, TickerOf, CallerPC, MainPC, RegisterPC, Places, Call, Exit
<1>6. Readers' BY DEF Readers, TickerOf, Places, Exit
<1>7. LocksHeld'
    BY DEF LocksHeld, AddPC, StartupPC, RegisterPC, ShutdownPC, Places, Exit
<1>8. ClosedLast' BY DEF ClosedLast, Places, Exit
<1>9. Waiting' BY DEF Waiting, Awaits, TickerOf, Places, Books, Exit
<1>10. Batches' BY DEF Batches, Committer, Places, Outs, Exit
<1>11. Unsaved' BY DEF Unsaved, WaitStage, Writer, Committer, Outs, Exit
<1>12. Started' BY DEF Started, TickerOf, Places, Exit
<1>13. Registered'
    BY DEF Registered, TickerOf, RegisterPC, AddedIsServed, Places, Exit
<1> QED BY <1>1, <1>2, <1>3, <1>4, <1>5, <1>6, <1>7, <1>8, <1>9, <1>10, <1>11, <1>12, <1>13

HIDE NamesAssumption DEF IInv, Goto, At, Proc, tables, locks, router, book, writers

LEMMA StutteringKeeps ==
    ASSUME IInv, UNCHANGED vars
    PROVE  IInv'
<1>1. Places' /\ Sets' /\ Books' /\ Outs'
    BY DEF IInv, Places, Sets, Books, Outs, vars, tables, locks, router, book, writers
<1>2. CallsOK' /\ Readers' /\ LocksHeld' /\ ClosedLast'
    BY DEF IInv, CallsOK, Readers, LocksHeld, ClosedLast, TickerOf, vars, locks, router, book, writers
<1>3. Waiting' /\ Batches' /\ Unsaved' /\ Started' /\ Registered'
    BY DEF IInv, Waiting, Awaits, Batches, Unsaved, Started, Registered, AddedIsServed, At,
           TickerOf, vars, tables, router, book, writers
<1> QED BY <1>1, <1>2, <1>3 DEF IInv

-----------------------------------------------------------------------------
(* Invariance                                                              *)

LEMMA InitHolds == Init => IInv
<1> SUFFICES ASSUME Init PROVE IInv
    OBVIOUS
<1>1. /\ << >> \in Seq(Caller) /\ Len(<< >>) <= QueueCap
      /\ << >> \in Seq(Committer) /\ Len(<< >>) <= OutCap
    BY CapAssumption
<1>2. Places /\ Sets
    BY DEF Init, InitProcess, Places, Sets, CallerPC, MainPC
<1>3. Books
    BY <1>1 DEF Init, InitProcess, Books
<1>4. Outs
    BY <1>1 DEF Init, InitProcess, Outs, Stage
<1>5. CallsOK /\ Readers /\ LocksHeld
    BY NamesAssumption DEF Init, InitProcess, CallsOK, Readers, LocksHeld, CallerPC, MainPC,
           AddPC, RegisterPC, StartupPC, ShutdownPC, Proc
<1>6. ClosedLast /\ Batches /\ Unsaved
    BY NamesAssumption DEF Init, InitProcess, ClosedLast, Batches, Unsaved, Committer, Proc
<1>7. Waiting
    BY NamesAssumption DEF Init, InitProcess, Waiting, Proc
<1>8. Started /\ Registered
    BY NamesAssumption DEF Init, InitProcess, Started, Registered, RegisterPC, AddedIsServed, At, Proc
<1> QED BY <1>2, <1>3, <1>4, <1>5, <1>6, <1>7, <1>8 DEF IInv

LEMMA NextKeeps ==
    ASSUME IInv, [Next]_vars
    PROVE  IInv'
<1>1. ASSUME NEW c \in Caller, Arrive(c) \/ Handler(c) PROVE IInv'
  <2>1. CASE Committing(c)
      BY <2>1, EmitKeeps DEF Committing, Committer, Proc
  <2>2. CASE Registration(c)
      BY <2>2, ReplayKeeps, LockKeeps, RegisterKeeps, RunKeeps DEF Registration, Proc
  <2> QED
      BY <1>1, <2>1, <2>2, ArriveKeeps, PrecisionKeeps, ReadyKeeps, RouteKeeps, SendKeeps, ReturnKeeps,
         MutexKeeps, AdmitKeeps, ExistsKeeps, PersistKeeps, LoadKeeps DEF Handler
<1>2. ASSUME NEW t \in Ticker, BookWorker(t) PROVE IInv'
  <2>1. CASE Committing(t)
      BY <2>1, EmitKeeps DEF Committing, Committer
  <2> QED
      BY <1>2, <2>1, ReceiveKeeps, ApplyKeeps, FinishKeeps, WorkerEndsKeeps DEF BookWorker
<1>3. ASSUME NEW w \in Writer, WriterLoop(w) PROVE IInv'
    BY <1>3, SaveKeeps, WriterEndsKeeps DEF WriterLoop
<1>4. ASSUME MainLoop PROVE IInv'
  <2>1. CASE Committing(Main)
      BY <2>1, EmitKeeps DEF Committing, Committer, Proc
  <2>2. CASE Registration(Main)
      BY <2>2, ReplayKeeps, LockKeeps, RegisterKeeps, RunKeeps DEF Registration, Proc
  <2>3. CASE Flush
      BY <2>3, ExitKeeps DEF Flush
  <2> QED
      BY <1>4, <2>1, <2>2, <2>3, ListKeeps, BackfillKeeps, RestoreKeeps, StopHTTPKeeps,
         LockForShutdownKeeps, CloseKeeps, DrainKeeps, CloseOutsKeeps DEF MainLoop
<1>5. ASSUME StartProcess \/ Signal \/ Crash PROVE IInv'
    BY <1>5, StartProcessKeeps, SignalKeeps, ExitKeeps DEF Crash
<1> QED BY <1>1, <1>2, <1>3, <1>4, <1>5, StutteringKeeps DEF Next

LEMMA Invariance == Spec => []IInv
<1>1. Init => IInv
    BY InitHolds
<1>2. IInv /\ [Next]_vars => IInv'
    BY NextKeeps
<1> QED BY <1>1, <1>2, PTL DEF Spec

(***************************************************************************)
(* The types of the router's tables, locks, channels and goroutines, and   *)
(* the bounds of the channels.                                             *)
(***************************************************************************)
THEOREM TypeCorrect == Spec => []TypeOK
<1>1. IInv => TypeOK
    BY DEF IInv, Places, Sets, Books, Outs, TypeOK
<1> QED BY <1>1, Invariance, PTL

(***************************************************************************)
(* No goroutine sends on a closed channel, for any number of tickers and   *)
(* requests.  A handler that sends holds the read lock, without which the  *)
(* router is not closed; a committing worker has such a handler waiting;   *)
(* and an AddTicker that replays holds the mutex a shutdown begins with.   *)
(***************************************************************************)
THEOREM NeverSendsOnClosed == Spec => []NoSendOnClosed
<1>1. ASSUME IInv, NEW c \in Caller, At(c, "send") PROVE TickerOf(c) \in open
    BY <1>1 DEF IInv, Readers, ClosedLast, At
<1>2. ASSUME IInv, NEW w \in Writer, NEW g \in Committer, stage[g] = SendStage(w)
      PROVE  w \in outOpen
  <2>1. stage[g] # "none"
      BY <1>2 DEF SendStage
  <2>2. CASE g \in Ticker
    <3>1. serving[g] \in readers
        BY <1>2, <2>1, <2>2 DEF IInv, Batches, Waiting, Awaits, Readers
    <3> QED BY <1>2, <3>1 DEF IInv, ClosedLast
  <2>3. CASE g \in Proc
    <3>1. pc[g] = "replay"
        BY <1>2, <2>1, <2>3 DEF IInv, Batches
    <3>2. pc[Main] # "flush"
        BY <1>2, <2>3, <3>1, NamesAssumption DEF IInv, LocksHeld, AddPC, ShutdownPC, Proc
    <3> QED BY <1>2, <3>2 DEF IInv, ClosedLast
  <2> QED BY <2>2, <2>3 DEF Committer
<1>3. IInv => NoSendOnClosed
    BY <1>1, <1>2 DEF NoSendOnClosed
<1> QED BY <1>3, Invariance, PTL

(***************************************************************************)
(* When the writers' channels are about to be closed nothing is queued, no *)
(* handler waits for an answer and no batch is under way: a router closed  *)
(* without readers has nobody left for whom a worker could be at work.     *)
(***************************************************************************)
THEOREM ShutdownDrains == Spec => []Drained
<1>1. ASSUME IInv, pc[Main] \in {"closeOuts", "flush"}
      PROVE  /\ \A t \in Ticker : queue[t] = << >> /\ worker[t] \in {"none", "done"}
             /\ \A c \in Caller : At(c, "wait") => result[c] = "ready"
             /\ \A g \in Committer : stage[g] = "none"
  <2>1. readers = {}
      BY <1>1 DEF IInv, ClosedLast
  <2>2. \A c \in Caller : ~At(c, "wait")
      BY <1>1, <2>1 DEF IInv, Readers, At
  <2>3. ASSUME NEW t \in Ticker PROVE queue[t] = << >>
    <3>1. queue[t] \in Seq(Caller) /\ Len(queue[t]) \in Nat
        BY <1>1 DEF IInv, Books
    <3>2. \A i \in 1..Len(queue[t]) : queue[t][i] \in Caller /\ pc[queue[t][i]] = "wait"
        BY <1>1, <3>1 DEF IInv, Waiting, Awaits
    <3>3. Len(queue[t]) = 0
        BY <2>2, <3>1, <3>2 DEF At
    <3> QED BY <3>1, <3>3
  <2>4. ASSUME NEW t \in Ticker PROVE worker[t] \in {"none", "done"}
      BY <1>1 DEF IInv, Started
  <2>5. ASSUME NEW g \in Committer PROVE stage[g] = "none"
    <3>1. CASE g \in Ticker
        BY <1>1, <2>4, <3>1 DEF IInv, Batches
    <3>2. CASE g \in Proc
        BY <1>1, <3>2, NamesAssumption DEF IInv, Batches, LocksHeld, AddPC, ShutdownPC, Proc
    <3> QED BY <3>1, <3>2 DEF Committer
  <2> QED BY <2>2, <2>3, <2>4, <2>5
<1>2. IInv => Drained
    BY <1>1 DEF Drained
<1> QED BY <1>2, Invariance, PTL

(***************************************************************************)
(* While the server serves, every ticker that was ever answered "added" or *)
(* has rows in the journal has a worker, whatever crashes came between.    *)
(***************************************************************************)
THEOREM AddedStaysServed == Spec => []AddedIsServed
<1>1. IInv => AddedIsServed
    BY DEF IInv, Registered
<1> QED BY <1>1, Invariance, PTL

(***************************************************************************)
(* Every ticker with a worker is in markets.                               *)
(***************************************************************************)
THEOREM ServedStaysRegistered == Spec => []ServedIsRegistered
<1>1. IInv => ServedIsRegistered
    BY DEF IInv, Registered, ServedIsRegistered
<1> QED BY <1>1, Invariance, PTL

=============================================================================
