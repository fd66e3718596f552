---------------------------- MODULE EngineProofs ----------------------------
(***************************************************************************)
(* Proofs about the write path of Engine, for any tickers, requests and    *)
(* bounds and whatever applyCommand computes.                              *)
(*                                                                         *)
(* The invariant Inv is inductive.  A step changes the stores in one of    *)
(* four ways (not at all, the counter only, a new row, a batch written for *)
(* an existing row) and the process in one of three (one worker moves on,  *)
(* an error, the process ends), so the proof that Next preserves Inv first *)
(* treats these and then combines them, action by action.                  *)
(*                                                                         *)
(* The last sections prove that the write path implements DurableLedger:   *)
(* each step enters a command, publishes a batch or answers a request as   *)
(* the ledger may, or leaves the ledger as it is.                          *)
(***************************************************************************)
EXTENDS EngineRefinement, SequenceTheorems, TLAPS

(***************************************************************************)
(* All that is assumed of applyCommand: it returns an outcome.  Books can  *)
(* be any set that holds Empty and is closed under applying commands.      *)
(***************************************************************************)
ApplyTyped == \A b \in Books, p \in Payload, s \in Nat : Apply(b, p, s) \in Outcome

Inv == TypeOK /\ Consistent

StoresTyped ==
    /\ journal \in [Ticker -> Seq(Row)]
    /\ counter \in [Ticker -> Nat]
    /\ matchLogs \in [Ticker -> Seq(Batches \cup {NoBatch})]
    /\ orderEvents \in [Ticker -> Seq(Batches \cup {NoBatch})]
    /\ canon \in [Ticker -> Seq(Outcome)]
    /\ \A t \in Ticker :
          /\ Len(matchLogs[t]) = Len(journal[t])
          /\ Len(orderEvents[t]) = Len(journal[t])
          /\ Len(canon[t]) = Len(journal[t])

ProcessTyped ==
    /\ mode \in {"down", "replaying", "serving"}
    /\ halted \in BOOLEAN
    /\ queue \in [Ticker -> Seq(Request)]
    /\ worker \in [Ticker -> [pc : PC, request : Request \cup {NoRequest},
                              outcome : Outcome \cup {NoOutcome}]]
    /\ book \in [Ticker -> Books]
    /\ applied \in [Ticker -> Nat]
    /\ mutated \in [Ticker -> Nat]

ObservedTyped ==
    /\ answered \subseteq Request
    /\ shown \in [Ticker -> Nat]
    /\ faults \in Nat
    /\ crashes \in Nat

LEMMA TypeParts == TypeOK <=> StoresTyped /\ ProcessTyped /\ ObservedTyped
  BY DEF TypeOK, StoresTyped, ProcessTyped, ObservedTyped

-----------------------------------------------------------------------------
(* The initial states                                                      *)

LEMMA ProcessInit == InitProcess => halted = FALSE
  BY DEF InitProcess

LEMMA InitInv == ASSUME Init PROVE Inv
<1> USE DEF Init, InitProcess, Rows
<1>1. TypeOK
  BY OutcomeAssumption, EmptySeq DEF TypeOK, IdleWorker, PC
<1>2. StoreConsistent
  BY DEF StoreConsistent, OnlyLastPending, OnlyReplayableEffects, JournalOrdered
<1>3. ASSUME NEW t \in Ticker PROVE WorkerConsistent(t)
  BY DEF WorkerConsistent, BetweenCommands, WithinCommand, IdleWorker, PrefixBook
<1> QED
  BY <1>1, <1>2, <1>3 DEF Inv, Consistent, AnsweredDurable

-----------------------------------------------------------------------------
(* Steps of the stores                                                     *)

\* What every step keeps of the rows there are, and of their effects.
Grown(t) ==
    /\ Len(journal[t]) <= Len(journal'[t])
    /\ \A n \in Rows(t) :
          /\ journal'[t][n] = journal[t][n] /\ canon'[t][n] = canon[t][n]
          /\ LogsDurable(t, n) => LogsDurable(t, n)'
          /\ EventsDurable(t, n) => EventsDurable(t, n)'

StoresStep == StoresTyped' /\ StoreConsistent' /\ \A t \in Ticker : Grown(t)

LEMMA GrownDurable ==
  ASSUME NEW t \in Ticker, Grown(t), NEW n \in Rows(t), Durable(t, n)
  PROVE  Durable(t, n)'
  BY DEF Grown, Durable

LEMMA StoresUnchanged ==
  ASSUME StoresTyped, StoreConsistent, UNCHANGED stores
  PROVE  StoresStep
<1> USE DEF stores
<1>1. StoresTyped'
  BY DEF StoresTyped
<1>2. OnlyLastPending' /\ OnlyReplayableEffects'
  BY DEF StoreConsistent, OnlyLastPending, OnlyReplayableEffects, Durable, LogsDurable,
         EventsDurable, Rows
<1>3. JournalOrdered'
  BY DEF StoreConsistent, JournalOrdered, Rows
<1>4. StoreConsistent'
  BY <1>2, <1>3 DEF StoreConsistent, Rows, PrefixBook
<1>5. ASSUME NEW t \in Ticker PROVE Grown(t)
  BY DEF StoresTyped, Grown, LogsDurable, EventsDurable, Rows
<1> QED BY <1>1, <1>4, <1>5 DEF StoresStep

LEMMA CounterMoved ==
  ASSUME StoresTyped, StoreConsistent, NEW t \in Ticker,
         counter' = [counter EXCEPT ![t] = @ + 1],
         UNCHANGED <<journal, matchLogs, orderEvents, canon>>
  PROVE  StoresStep
<1>1. StoresTyped'
  BY DEF StoresTyped
<1>2. StoreConsistent'
  <2>1. OnlyLastPending' /\ OnlyReplayableEffects' /\ JournalOrdered'
    BY DEF StoreConsistent, OnlyLastPending, OnlyReplayableEffects, JournalOrdered, Durable,
           LogsDurable, EventsDurable, Rows
  <2>2. ASSUME NEW u \in Ticker, NEW n \in Rows(u)'
        PROVE  /\ journal'[u][n].sequence <= counter'[u]
               /\ canon'[u][n] = Apply(PrefixBook(u, n - 1)', journal'[u][n].payload,
                                       journal'[u][n].sequence)
    <3>1. n \in Rows(u) /\ journal[u][n] \in Row
      BY ElementOfSeq DEF Rows, StoresTyped
    <3>2. journal[u][n].sequence <= counter[u] /\ counter'[u] >= counter[u]
      BY <3>1 DEF StoreConsistent, StoresTyped
    <3> QED
      BY <3>1, <3>2 DEF StoreConsistent, StoresTyped, PrefixBook, Row
  <2> QED
    BY <2>1, <2>2 DEF StoreConsistent
<1>3. ASSUME NEW u \in Ticker PROVE Grown(u)
  BY DEF StoresTyped, Grown, LogsDurable, EventsDurable, Rows
<1> QED BY <1>1, <1>2, <1>3 DEF StoresStep

LEMMA RowInserted ==
  ASSUME ApplyTyped, StoresTyped, StoreConsistent, NEW t \in Ticker, NEW r \in Request,
         r.ticker = t, ~Journaled(r.id), \A n \in Rows(t) : Durable(t, n),
         InsertRow(t, r)
  PROVE  /\ StoresStep
         /\ Len(journal'[t]) = Len(journal[t]) + 1
         /\ journal'[t][Len(journal[t]) + 1].id = r.id
         /\ journal'[t][Len(journal[t]) + 1].payload = r.payload
         /\ \A u \in Ticker \ {t} : journal'[u] = journal[u]
<1> DEFINE last == Len(journal[t]) + 1
           row == [id |-> r.id, payload |-> r.payload, sequence |-> counter[t] + 1]
           outcome == Apply(LastBook(t), r.payload, counter[t] + 1)
<1>1. last \in Nat \ {0} /\ row \in Row /\ outcome \in Outcome
  <2>1. LastBook(t) \in Books
    <3>1. CASE Len(journal[t]) = 0
      BY <3>1, OutcomeAssumption DEF LastBook, PrefixBook
    <3>2. CASE Len(journal[t]) # 0
      <4>1. canon[t][Len(canon[t])] \in Outcome
        BY <3>2, ElementOfSeq DEF StoresTyped
      <4> QED
        BY <3>2, <4>1 DEF LastBook, PrefixBook, StoresTyped, Outcome
    <3> QED BY <3>1, <3>2
  <2>2. r.id \in CommandID /\ r.payload \in Payload
    BY RequestAssumption
  <2> QED
    BY <2>1, <2>2 DEF ApplyTyped, StoresTyped, Row
<1>2. /\ journal' = [journal EXCEPT ![t] = Append(@, row)]
      /\ counter' = [counter EXCEPT ![t] = @ + 1]
      /\ matchLogs' = [matchLogs EXCEPT ![t] = Append(@, NoBatch)]
      /\ orderEvents' = [orderEvents EXCEPT ![t] = Append(@, NoBatch)]
      /\ canon' = [canon EXCEPT ![t] = Append(@, outcome)]
  BY DEF InsertRow
<1> HIDE DEF row, outcome
<1>3. StoresTyped'
  BY <1>1, <1>2, AppendProperties DEF StoresTyped
<1>4. /\ journal'[t][last] = row /\ canon'[t][last] = outcome
      /\ matchLogs'[t][last] = NoBatch /\ orderEvents'[t][last] = NoBatch
      /\ Len(journal'[t]) = last
  BY <1>1, <1>2, AppendProperties DEF StoresTyped
<1>5. ASSUME NEW n \in Rows(t)
      PROVE  /\ journal'[t][n] = journal[t][n] /\ canon'[t][n] = canon[t][n]
             /\ matchLogs'[t][n] = matchLogs[t][n] /\ orderEvents'[t][n] = orderEvents[t][n]
  BY <1>1, <1>2, AppendProperties DEF StoresTyped, Rows
<1>6. ASSUME NEW u \in Ticker \ {t}
      PROVE  /\ journal'[u] = journal[u] /\ canon'[u] = canon[u] /\ counter'[u] = counter[u]
             /\ matchLogs'[u] = matchLogs[u] /\ orderEvents'[u] = orderEvents[u]
  BY <1>2 DEF StoresTyped
<1>7. ASSUME NEW u \in Ticker PROVE Grown(u)
  <2>1. CASE u = t
    BY <2>1, <1>1, <1>4, <1>5 DEF Grown, LogsDurable, EventsDurable, StoresTyped
  <2>2. CASE u # t
    BY <2>2, <1>6 DEF Grown, LogsDurable, EventsDurable, StoresTyped
  <2> QED BY <2>1, <2>2
<1>8. ASSUME NEW n \in Rows(t)' PROVE n \in Rows(t) \/ n = last
  BY <1>4, <1>1 DEF Rows, StoresTyped
<1>9. StoreConsistent'
  <2>1. OnlyLastPending'
    <3> SUFFICES ASSUME NEW u \in Ticker, NEW n \in Rows(u)', n < Len(journal'[u])
                 PROVE  Durable(u, n)'
      BY DEF OnlyLastPending
    <3>1. CASE u = t
      <4>1. n \in Rows(t)
        <5>1. n # last
          BY <1>4, <3>1
        <5> QED BY <1>8, <3>1, <5>1
      <4> QED BY <1>7, <3>1, <4>1, GrownDurable
    <3>2. CASE u # t
      <4>1. n \in Rows(u) /\ n < Len(journal[u])
        BY <1>6, <3>2 DEF Rows
      <4>2. Durable(u, n)
        BY <4>1 DEF StoreConsistent, OnlyLastPending
      <4> QED BY <1>7, <4>1, <4>2, GrownDurable
    <3> QED BY <3>1, <3>2
  <2>2. OnlyReplayableEffects'
    <3> SUFFICES ASSUME NEW u \in Ticker, NEW n \in Rows(u)'
                 PROVE  /\ matchLogs'[u][n] \in {NoBatch, canon'[u][n].logs}
                        /\ orderEvents'[u][n] \in {NoBatch, canon'[u][n].events}
                        /\ orderEvents'[u][n] # NoBatch => LogsDurable(u, n)'
      BY DEF OnlyReplayableEffects
    <3>1. CASE u = t /\ n = last
      BY <3>1, <1>4
    <3>2. CASE u = t /\ n \in Rows(t)
      BY <3>2, <1>5, <1>7 DEF StoreConsistent, OnlyReplayableEffects, Grown
    <3>3. CASE u # t
      BY <3>3, <1>6 DEF Rows, StoreConsistent, OnlyReplayableEffects, LogsDurable
    <3> QED BY <3>1, <3>2, <3>3, <1>8
  <2>3. JournalOrdered'
    <3>1. ASSUME NEW u \in Ticker, NEW v \in Ticker, NEW m \in Rows(u)', NEW n \in Rows(v)',
                 journal'[u][m].id = journal'[v][n].id
          PROVE  u = v /\ m = n
      <4>1. ASSUME NEW x \in Ticker, NEW i \in Rows(x)', ~(x = t /\ i = last)
            PROVE  i \in Rows(x) /\ journal'[x][i] = journal[x][i] /\ journal'[x][i].id # r.id
        <5>1. i \in Rows(x) /\ journal'[x][i] = journal[x][i]
          BY <4>1, <1>5, <1>6, <1>8 DEF Rows
        <5> QED
          BY <5>1 DEF Journaled
      <4>2. journal'[t][last].id = r.id
        BY <1>4 DEF row
      <4>3. CASE ~(u = t /\ m = last) /\ ~(v = t /\ n = last)
        BY <3>1, <4>3, <4>1 DEF StoreConsistent, JournalOrdered
      <4>4. CASE (u = t /\ m = last) \/ (v = t /\ n = last)
        BY <3>1, <4>4, <4>1, <4>2
      <4> QED BY <4>3, <4>4
    <3>2. ASSUME NEW u \in Ticker, NEW m \in Rows(u)', NEW n \in Rows(u)', m < n
          PROVE  journal'[u][m].sequence < journal'[u][n].sequence
      <4>1. CASE u # t
        BY <3>2, <4>1, <1>6 DEF Rows, StoreConsistent, JournalOrdered
      <4>2. CASE u = t /\ n = last
        <5>1. m \in Rows(t) /\ journal[t][m] \in Row
          BY <3>2, <4>2, <1>4, <1>8, ElementOfSeq DEF Rows, StoresTyped
        <5>2. journal'[u][n].sequence = counter[t] + 1
          BY <4>2, <1>4 DEF row
        <5> QED
          BY <4>2, <5>1, <5>2, <1>5 DEF StoreConsistent, StoresTyped, Row
      <4>3. CASE u = t /\ n # last
        <5>1. m \in Rows(t) /\ n \in Rows(t)
          BY <3>2, <4>3, <1>4, <1>8 DEF Rows, StoresTyped
        <5> QED
          BY <3>2, <4>3, <5>1, <1>5 DEF StoreConsistent, JournalOrdered
      <4> QED BY <4>1, <4>2, <4>3
    <3> QED BY <3>1, <3>2 DEF JournalOrdered
  <2>4. ASSUME NEW u \in Ticker, NEW n \in Rows(u)'
        PROVE  /\ journal'[u][n].sequence <= counter'[u]
               /\ canon'[u][n] = Apply(PrefixBook(u, n - 1)', journal'[u][n].payload,
                                       journal'[u][n].sequence)
    <3>1. CASE u # t
      BY <3>1, <1>6 DEF Rows, StoreConsistent, PrefixBook
    <3>2. CASE u = t /\ n = last
      <4>1. PrefixBook(t, n - 1)' = LastBook(t)
        <5>1. n - 1 = Len(journal[t]) /\ Len(journal[t]) \in Nat
          BY <3>2, LenProperties DEF StoresTyped
        <5>2. CASE Len(journal[t]) = 0
          BY <5>1, <5>2 DEF LastBook, PrefixBook
        <5>3. CASE Len(journal[t]) # 0
          <6>1. Len(journal[t]) \in Rows(t)
            BY <5>1, <5>3 DEF Rows
          <6> QED BY <5>1, <5>3, <6>1, <1>5 DEF LastBook, PrefixBook
        <5> QED BY <5>2, <5>3
      <4>2. counter'[t] = counter[t] + 1 /\ counter[t] \in Nat
        BY <1>2 DEF StoresTyped
      <4> QED BY <3>2, <4>1, <4>2, <1>4 DEF row, outcome
    <3>3. CASE u = t /\ n \in Rows(t)
      <4>1. journal[t][n] \in Row
        BY <3>3, ElementOfSeq DEF Rows, StoresTyped
      <4>2. PrefixBook(t, n - 1)' = PrefixBook(t, n - 1)
        <5>1. CASE n = 1
          BY <5>1 DEF PrefixBook
        <5>2. CASE n # 1
          <6>1. n - 1 \in Rows(t) /\ n - 1 # 0
            BY <3>3, <5>2, LenProperties DEF Rows, StoresTyped
          <6> QED BY <6>1, <1>5 DEF PrefixBook
        <5> QED BY <5>1, <5>2
      <4>3. counter'[t] = counter[t] + 1 /\ counter[t] \in Nat
        BY <1>2 DEF StoresTyped
      <4> QED BY <3>3, <4>1, <4>2, <4>3, <1>5 DEF StoreConsistent, Row
    <3> QED BY <3>1, <3>2, <3>3, <1>8
  <2> QED BY <2>1, <2>2, <2>3, <2>4 DEF StoreConsistent
<1> QED
  BY <1>3, <1>4, <1>6, <1>7, <1>9 DEF StoresStep, row

LEMMA LogsWritten ==
  ASSUME StoresTyped, StoreConsistent, NEW t \in Ticker, NEW c \in Rows(t),
         c = Current(t), worker[t].outcome = canon[t][c], WriteLogs(t),
         UNCHANGED <<journal, counter, orderEvents, canon>>
  PROVE  /\ StoresStep
         /\ LogsDurable(t, c)'
<1> DEFINE batch == canon[t][c].logs
<1>1. batch \in Batches /\ c \in 1..Len(matchLogs[t])
  <2>1. c \in 1..Len(matchLogs[t]) /\ c \in 1..Len(canon[t])
    BY DEF StoresTyped, Rows
  <2>2. canon[t][c] \in Outcome
    BY <2>1, ElementOfSeq DEF StoresTyped
  <2> QED BY <2>1, <2>2 DEF Outcome
<1>2. matchLogs' = [matchLogs EXCEPT ![t][c] = batch]
  BY DEF WriteLogs
<1> HIDE DEF batch
<1>3. /\ matchLogs'[t] \in Seq(Batches \cup {NoBatch})
      /\ Len(matchLogs'[t]) = Len(matchLogs[t])
      /\ \A n \in 1..Len(matchLogs[t]) :
            matchLogs'[t][n] = IF n = c THEN batch ELSE matchLogs[t][n]
  BY <1>1, <1>2, ExceptSeq DEF StoresTyped
<1>4. \A u \in Ticker \ {t} : matchLogs'[u] = matchLogs[u]
  BY <1>2 DEF StoresTyped
<1>5. StoresTyped'
  BY <1>2, <1>3, <1>4 DEF StoresTyped
<1>6. ASSUME NEW u \in Ticker, NEW n \in Rows(u)
      PROVE  /\ matchLogs'[u][n] \in {matchLogs[u][n], canon[u][n].logs}
             /\ LogsDurable(u, n) => LogsDurable(u, n)'
  BY <1>3, <1>4 DEF Rows, StoresTyped, LogsDurable, batch
<1>7. ASSUME NEW u \in Ticker PROVE Grown(u)
  BY <1>6 DEF Grown, EventsDurable, StoresTyped, Rows
<1>8. StoreConsistent'
  <2>1. OnlyLastPending'
    BY <1>7, GrownDurable DEF StoreConsistent, OnlyLastPending, Rows
  <2>2. OnlyReplayableEffects'
    BY <1>6 DEF StoreConsistent, OnlyReplayableEffects, Rows
  <2>3. JournalOrdered'
    <3>1. JournalOrdered /\ UNCHANGED journal
      BY DEF StoreConsistent
    <3> QED BY <3>1 DEF JournalOrdered, Rows
  <2>4. ASSUME NEW u \in Ticker, NEW n \in Rows(u)'
        PROVE  /\ journal'[u][n].sequence <= counter'[u]
               /\ canon'[u][n] = Apply(PrefixBook(u, n - 1)', journal'[u][n].payload,
                                       journal'[u][n].sequence)
    BY DEF StoreConsistent, Rows, PrefixBook
  <2> QED
    BY <2>1, <2>2, <2>3, <2>4 DEF StoreConsistent
<1>9. LogsDurable(t, c)'
  BY <1>1, <1>3 DEF LogsDurable, batch
<1> QED
  BY <1>5, <1>7, <1>8, <1>9 DEF StoresStep

LEMMA EventsWritten ==
  ASSUME StoresTyped, StoreConsistent, NEW t \in Ticker, NEW c \in Rows(t),
         c = Current(t), worker[t].outcome = canon[t][c], LogsDurable(t, c), WriteEvents(t),
         UNCHANGED <<journal, counter, matchLogs, canon>>
  PROVE  /\ StoresStep
         /\ EventsDurable(t, c)'
<1> DEFINE batch == canon[t][c].events
<1>1. batch \in Batches /\ c \in 1..Len(orderEvents[t])
  <2>1. c \in 1..Len(orderEvents[t]) /\ c \in 1..Len(canon[t])
    BY DEF StoresTyped, Rows
  <2>2. canon[t][c] \in Outcome
    BY <2>1, ElementOfSeq DEF StoresTyped
  <2> QED BY <2>1, <2>2 DEF Outcome
<1>2. orderEvents' = [orderEvents EXCEPT ![t][c] = batch]
  BY DEF WriteEvents
<1> HIDE DEF batch
<1>3. /\ orderEvents'[t] \in Seq(Batches \cup {NoBatch})
      /\ Len(orderEvents'[t]) = Len(orderEvents[t])
      /\ \A n \in 1..Len(orderEvents[t]) :
            orderEvents'[t][n] = IF n = c THEN batch ELSE orderEvents[t][n]
  BY <1>1, <1>2, ExceptSeq DEF StoresTyped
<1>4. \A u \in Ticker \ {t} : orderEvents'[u] = orderEvents[u]
  BY <1>2 DEF StoresTyped
<1>5. StoresTyped'
  BY <1>2, <1>3, <1>4 DEF StoresTyped
<1>6. ASSUME NEW u \in Ticker, NEW n \in Rows(u)
      PROVE  /\ \/ orderEvents'[u][n] = orderEvents[u][n]
                \/ orderEvents'[u][n] = canon[u][n].events /\ LogsDurable(u, n)
             /\ EventsDurable(u, n) => EventsDurable(u, n)'
             /\ LogsDurable(u, n)' <=> LogsDurable(u, n)
  BY <1>3, <1>4 DEF Rows, StoresTyped, LogsDurable, EventsDurable, batch
<1>7. ASSUME NEW u \in Ticker PROVE Grown(u)
  BY <1>6 DEF Grown, StoresTyped, Rows
<1>8. StoreConsistent'
  <2>1. OnlyLastPending'
    BY <1>7, GrownDurable DEF StoreConsistent, OnlyLastPending, Rows
  <2>2. OnlyReplayableEffects'
    BY <1>6 DEF StoreConsistent, OnlyReplayableEffects, Rows
  <2> QED
    BY <2>1, <2>2 DEF StoreConsistent, JournalOrdered, Rows, PrefixBook
<1>9. EventsDurable(t, c)'
  BY <1>1, <1>3 DEF EventsDurable, batch
<1> QED
  BY <1>5, <1>7, <1>8, <1>9 DEF StoresStep

-----------------------------------------------------------------------------
(* Steps of the process                                                    *)

ProcessStep ==
    /\ ProcessTyped'
    /\ (halted => mode = "serving")'
    /\ \A t \in Ticker : WorkerConsistent(t)'

Keeps(t) ==
    /\ worker'[t] = worker[t] /\ book'[t] = book[t]
    /\ applied'[t] = applied[t] /\ queue'[t] = queue[t]
    /\ Len(journal'[t]) = Len(journal[t])

LEMMA PrefixKept ==
  ASSUME StoresTyped, NEW t \in Ticker, Grown(t), NEW n \in 0..Len(journal[t])
  PROVE  PrefixBook(t, n)' = PrefixBook(t, n)
<1>1. CASE n = 0
  BY <1>1 DEF PrefixBook
<1>2. CASE n # 0
  <2>1. n \in Rows(t)
    BY <1>2, LenProperties DEF Rows, StoresTyped
  <2> QED
    BY <1>2, <2>1 DEF PrefixBook, Grown
<1> QED BY <1>1, <1>2

LEMMA AppliedKept ==
  ASSUME StoresTyped, StoresTyped', ProcessTyped, NEW t \in Ticker, Grown(t), WorkerConsistent(t)
  PROVE  /\ applied[t] \in 0..Len(journal[t])
         /\ \A n \in 1..applied[t] : n \in Rows(t)' /\ Durable(t, n)'
<1>1. \A n \in 1..applied[t] : n \in Rows(t) /\ Durable(t, n)
  BY DEF WorkerConsistent
<1>2. applied[t] \in 0..Len(journal[t])
  <2>1. applied[t] \in Nat /\ Len(journal[t]) \in Nat
    BY LenProperties DEF StoresTyped, ProcessTyped
  <2>2. CASE applied[t] = 0
    BY <2>1, <2>2
  <2>3. CASE applied[t] # 0
    BY <1>1, <2>1, <2>3 DEF Rows
  <2> QED BY <2>2, <2>3
<1>3. ASSUME NEW n \in 1..applied[t] PROVE n \in Rows(t)' /\ Durable(t, n)'
  <2>1. Len(journal[t]) \in Nat /\ Len(journal'[t]) \in Nat /\ Len(journal[t]) <= Len(journal'[t])
    BY LenProperties DEF StoresTyped, Grown
  <2> QED
    BY <1>1, <2>1, GrownDurable DEF Rows, ProcessTyped
<1> QED BY <1>2, <1>3

LEMMA WorkerKept ==
  ASSUME StoresTyped, ProcessTyped, StoresStep, mode' = mode, halted => halted',
         NEW t \in Ticker, WorkerConsistent(t), Keeps(t)
  PROVE  WorkerConsistent(t)'
<1>1. StoresTyped' /\ Grown(t)
  BY DEF StoresStep
<1>2. /\ applied[t] \in 0..Len(journal[t])
      /\ \A n \in 1..applied[t] : n \in Rows(t)' /\ Durable(t, n)'
  BY <1>1, AppliedKept
<1>3. PrefixBook(t, applied[t])' = PrefixBook(t, applied[t])
  BY <1>1, <1>2, PrefixKept DEF Keeps
<1>4. BetweenCommands(t)'
  BY <1>3 DEF BetweenCommands, WorkerConsistent, Keeps
<1>5. WithinCommand(t)'
  <2>1. Current(t)' = Current(t) /\ Rows(t)' = Rows(t)
    BY DEF Current, Rows, Keeps
  <2>2. CASE worker[t].pc \notin {"apply", "logs", "rest", "events", "ack"}
    BY <2>2 DEF WithinCommand, Keeps
  <2>3. CASE worker[t].pc \in {"apply", "logs", "rest", "events", "ack"}
    <3>1. Current(t) \in Rows(t)
      BY <2>3 DEF WorkerConsistent, WithinCommand
    <3>2. /\ journal'[t][Current(t)] = journal[t][Current(t)]
          /\ canon'[t][Current(t)] = canon[t][Current(t)]
          /\ LogsDurable(t, Current(t)) => LogsDurable(t, Current(t))'
          /\ EventsDurable(t, Current(t)) => EventsDurable(t, Current(t))'
      BY <1>1, <2>1, <3>1 DEF Grown, LogsDurable, EventsDurable
    <3> QED
      BY <1>3, <2>1, <3>1, <3>2 DEF WithinCommand, WorkerConsistent, Keeps
  <2> QED BY <2>2, <2>3
<1> QED
  BY <1>2, <1>4, <1>5 DEF WorkerConsistent, Keeps

LEMMA WorkerFailed ==
  ASSUME StoresTyped, ProcessTyped, StoresStep, NEW t \in Ticker, WorkerConsistent(t),
         mode = "serving", mode' = mode, halted', worker'[t] = IdleWorker,
         applied'[t] = applied[t], queue'[t] = queue[t]
  PROVE  WorkerConsistent(t)'
<1>1. \A n \in 1..applied[t] : n \in Rows(t)' /\ Durable(t, n)'
  BY AppliedKept DEF StoresStep
<1> QED
  BY <1>1 DEF WorkerConsistent, BetweenCommands, WithinCommand, IdleWorker

LEMMA ProcessEnded ==
  ASSUME mode' = "down", halted' = FALSE,
         queue' = [t \in Ticker |-> << >>], worker' = [t \in Ticker |-> IdleWorker],
         book' = [t \in Ticker |-> Empty], applied' = [t \in Ticker |-> 0],
         mutated' = [t \in Ticker |-> 0]
  PROVE  ProcessStep
<1>1. ProcessTyped'
  BY OutcomeAssumption, EmptySeq DEF ProcessTyped, IdleWorker, PC
<1>2. ASSUME NEW t \in Ticker PROVE WorkerConsistent(t)'
  BY DEF WorkerConsistent, BetweenCommands, WithinCommand, IdleWorker, PrefixBook
<1> QED BY <1>1, <1>2 DEF ProcessStep

LEMMA Failed ==
  ASSUME StoresTyped, ProcessTyped, StoresStep, \A u \in Ticker : WorkerConsistent(u),
         NEW t \in Ticker, Fail(t), book' \in [Ticker -> Books], mutated' \in [Ticker -> Nat],
         mode = "serving" => \A u \in Ticker \ {t} :
                                book'[u] = book[u] /\ Len(journal'[u]) = Len(journal[u]),
         mode # "serving" => /\ book' = [u \in Ticker |-> Empty]
                             /\ mutated' = [u \in Ticker |-> 0]
  PROVE  ProcessStep
<1>1. CASE mode # "serving"
  BY <1>1, ProcessEnded DEF Fail
<1>2. CASE mode = "serving"
  <2>1. /\ halted' = TRUE /\ mode' = mode /\ queue' = queue /\ applied' = applied
        /\ worker' = [worker EXCEPT ![t] = IdleWorker]
    BY <1>2 DEF Fail
  <2>2. ProcessTyped'
    BY <2>1 DEF ProcessTyped, IdleWorker, PC
  <2>3. ASSUME NEW u \in Ticker PROVE WorkerConsistent(u)'
    <3>1. CASE u = t
      BY <1>2, <2>1, <3>1, WorkerFailed DEF ProcessTyped
    <3>2. CASE u # t
      BY <1>2, <2>1, <3>2, WorkerKept DEF ProcessTyped, Keeps
    <3> QED BY <3>1, <3>2
  <2> QED BY <1>2, <2>1, <2>2, <2>3 DEF ProcessStep
<1> QED BY <1>1, <1>2

LEMMA AnswersKept ==
  ASSUME StoresTyped, StoresTyped', AnsweredDurable, answered \subseteq Request,
         \A t \in Ticker : Grown(t), NEW r \in answered
  PROVE  \E n \in Rows(r.ticker)' :
            /\ journal'[r.ticker][n].id = r.id
            /\ journal'[r.ticker][n].payload = r.payload
            /\ Durable(r.ticker, n)'
<1> DEFINE t == r.ticker
<1>1. t \in Ticker
  BY RequestAssumption
<1>2. PICK n \in Rows(t) : /\ journal[t][n].id = r.id /\ journal[t][n].payload = r.payload
                           /\ Durable(t, n)
  BY DEF AnsweredDurable
<1>3. n \in Rows(t)'
  BY <1>1, LenProperties DEF Rows, StoresTyped, Grown
<1>4. Durable(t, n)' /\ journal'[t][n] = journal[t][n]
  BY <1>1, <1>2, GrownDurable DEF Grown
<1> QED BY <1>2, <1>3, <1>4

LEMMA WorkerMoved ==
  ASSUME Inv, StoresStep, NEW t \in Ticker, mode' = mode, halted' = halted,
         \A u \in Ticker \ {t} : Keeps(u), ProcessTyped', WorkerConsistent(t)'
  PROVE  ProcessStep
<1>1. StoresTyped /\ ProcessTyped /\ (halted => mode = "serving")
  BY TypeParts DEF Inv, Consistent
<1>2. ASSUME NEW u \in Ticker \ {t} PROVE WorkerConsistent(u)'
  BY <1>1, WorkerKept DEF Inv, Consistent
<1> QED
  BY <1>1, <1>2 DEF ProcessStep

LEMMA Combined ==
  ASSUME Inv, StoresStep, ProcessStep, ObservedTyped', answered' = answered
  PROVE  Inv'
<1>1. /\ StoresTyped /\ ProcessTyped /\ ObservedTyped
      /\ StoresTyped' /\ ProcessTyped' /\ StoreConsistent' /\ \A t \in Ticker : Grown(t)
  BY TypeParts DEF Inv, StoresStep, ProcessStep
<1>2. TypeOK'
  BY <1>1 DEF TypeOK, StoresTyped, ProcessTyped, ObservedTyped
<1>3. AnsweredDurable'
  BY <1>1, AnswersKept DEF Inv, Consistent, AnsweredDurable, ObservedTyped
<1> QED
  BY <1>1, <1>2, <1>3 DEF Inv, Consistent, ProcessStep

LEMMA SameStores == ASSUME Inv, UNCHANGED stores PROVE StoresStep
  BY TypeParts, StoresUnchanged DEF Inv, Consistent

-----------------------------------------------------------------------------
(* The actions of the process and the requests                             *)

LEMMA ExitInv ==
  ASSUME Inv, Exit, UNCHANGED <<stores, observed>>, faults' \in Nat, crashes' \in Nat
  PROVE  Inv'
<1>1. StoresStep
  BY SameStores
<1>2. ProcessStep
  BY ProcessEnded DEF Exit
<1>3. ObservedTyped' /\ answered' = answered
  BY TypeParts DEF Inv, ObservedTyped, observed
<1> QED BY <1>1, <1>2, <1>3, Combined

LEMMA CrashInv == ASSUME Inv, Crash PROVE Inv'
<1>1. Exit /\ UNCHANGED <<stores, observed>>
  BY DEF Crash
<1>2. faults' \in Nat /\ crashes' \in Nat
  BY DEF Crash, Inv, TypeOK
<1> QED BY <1>1, <1>2, ExitInv

LEMMA StopHaltedInv == ASSUME Inv, StopHalted PROVE Inv'
  BY ExitInv DEF StopHalted, Inv, TypeOK

LEMMA StartInv == ASSUME Inv, Start PROVE Inv'
<1>1. StoresStep
  BY SameStores DEF Start
<1>2. ProcessTyped'
  BY TypeParts DEF Inv, ProcessTyped, Start
<1>3. ~halted /\ \A t \in Ticker : worker[t].pc = "idle"
  BY DEF Inv, Consistent, WorkerConsistent, Start
<1>4. ASSUME NEW t \in Ticker PROVE WorkerConsistent(t)'
  <2>1. WorkerConsistent(t) /\ worker[t].pc = "idle" /\ ~halted
    BY <1>3 DEF Inv, Consistent
  <2>2. UNCHANGED <<stores, halted, queue, worker, book, applied>> /\ mode' = "replaying"
        /\ mode = "down"
    BY DEF Start
  <2>3. BetweenCommands(t)' /\ WithinCommand(t)'
    BY <2>1, <2>2 DEF WorkerConsistent, BetweenCommands, WithinCommand, PrefixBook, stores
  <2> QED
    BY <2>1, <2>2, <2>3 DEF WorkerConsistent, Durable, LogsDurable, EventsDurable, Rows, stores
<1>5. ProcessStep
  BY <1>2, <1>3, <1>4 DEF ProcessStep, Start
<1>6. ObservedTyped' /\ answered' = answered
  BY TypeParts DEF Inv, ObservedTyped, observed, Start
<1> QED BY <1>1, <1>5, <1>6, Combined

LEMMA ServeInv == ASSUME Inv, Serve PROVE Inv'
<1>1. StoresStep
  BY SameStores DEF Serve
<1>2. ProcessTyped'
  BY TypeParts DEF Inv, ProcessTyped, Serve
<1>3. ~halted
  BY DEF Inv, Consistent, Serve
<1>4. ASSUME NEW t \in Ticker PROVE WorkerConsistent(t)'
  <2>1. /\ WorkerConsistent(t) /\ worker[t].pc = "idle" /\ ~halted
        /\ applied[t] = Len(journal[t])
    BY <1>3 DEF Inv, Consistent, Serve
  <2>2. UNCHANGED <<stores, halted, queue, worker, book, applied>> /\ mode' = "serving"
    BY DEF Serve
  <2>3. BetweenCommands(t)' /\ WithinCommand(t)'
    BY <2>1, <2>2 DEF WorkerConsistent, BetweenCommands, WithinCommand, PrefixBook, stores
  <2> QED
    BY <2>1, <2>2, <2>3 DEF WorkerConsistent, Durable, LogsDurable, EventsDurable, Rows, stores
<1>5. ProcessStep
  BY <1>2, <1>3, <1>4 DEF ProcessStep, Serve
<1>6. ObservedTyped' /\ answered' = answered
  BY TypeParts DEF Inv, ObservedTyped, observed, Serve
<1> QED BY <1>1, <1>5, <1>6, Combined

LEMMA SubmitInv == ASSUME Inv, NEW r \in Request, Submit(r) PROVE Inv'
<1> DEFINE t == r.ticker
<1>1. StoresStep
  BY SameStores DEF Submit
<1>2. t \in Ticker /\ StoresTyped /\ ProcessTyped
  BY RequestAssumption, TypeParts DEF Inv
<1>3. /\ mode = "serving" /\ queue' = [queue EXCEPT ![t] = Append(@, r)]
      /\ UNCHANGED <<stores, mode, halted, worker, book, applied, mutated>>
  BY DEF Submit
<1>4. ProcessTyped'
  BY <1>2, <1>3, AppendProperties DEF ProcessTyped
<1> HIDE DEF t
<1>5. WorkerConsistent(t)'
  <2>1. WorkerConsistent(t)
    BY <1>2 DEF Inv, Consistent
  <2>2. BetweenCommands(t)' /\ WithinCommand(t)'
    BY <1>3, <2>1 DEF WorkerConsistent, BetweenCommands, WithinCommand, PrefixBook, Current, Rows,
                      LogsDurable, EventsDurable, stores
  <2>3. \A n \in 1..applied'[t] : n \in Rows(t)' /\ Durable(t, n)'
    BY <1>3, <2>1 DEF WorkerConsistent, Durable, LogsDurable, EventsDurable, Rows, stores
  <2>4. \A i \in 1..Len(queue'[t]) : queue'[t][i].ticker = t
    <3>1. /\ queue'[t] = Append(queue[t], r) /\ queue[t] \in Seq(Request)
          /\ Len(queue'[t]) = Len(queue[t]) + 1 /\ Len(queue[t]) \in Nat
          /\ \A i \in 1..Len(queue[t]) : queue'[t][i] = queue[t][i]
          /\ queue'[t][Len(queue[t]) + 1] = r
      BY <1>2, <1>3, AppendProperties, LenProperties DEF ProcessTyped
    <3> QED
      BY <2>1, <3>1 DEF WorkerConsistent, t
  <2> QED
    BY <1>3, <2>2, <2>3, <2>4 DEF WorkerConsistent
<1>6. ASSUME NEW u \in Ticker \ {t} PROVE Keeps(u)
  BY <1>2, <1>3 DEF Keeps, ProcessTyped, stores
<1>7. ProcessStep
  BY <1>1, <1>2, <1>3, <1>4, <1>5, <1>6, WorkerMoved
<1>8. ObservedTyped' /\ answered' = answered
  BY TypeParts DEF Inv, ObservedTyped, observed, Submit
<1> QED BY <1>1, <1>7, <1>8, Combined

LEMMA ReceiveInv == ASSUME Inv, NEW t \in Ticker, Receive(t) PROVE Inv'
<1>1. StoresStep
  BY SameStores DEF Receive
<1>2. StoresTyped /\ ProcessTyped /\ WorkerConsistent(t)
  BY TypeParts DEF Inv, Consistent
<1>3. /\ mode = "serving" /\ worker[t].pc = "idle" /\ queue[t] # << >>
      /\ queue' = [queue EXCEPT ![t] = Tail(@)]
      /\ worker' = IF halted THEN worker
                   ELSE [worker EXCEPT ![t].pc = "append", ![t].request = Head(queue[t])]
      /\ UNCHANGED <<stores, mode, halted, book, applied, mutated>>
  BY DEF Receive
<1>4. /\ Tail(queue[t]) \in Seq(Request) /\ Head(queue[t]) = queue[t][1]
      /\ Head(queue[t]) \in Request /\ Len(queue[t]) \in Nat \ {0}
      /\ Len(Tail(queue[t])) = Len(queue[t]) - 1
      /\ \A i \in 1..Len(Tail(queue[t])) : Tail(queue[t])[i] = queue[t][i + 1]
  BY <1>2, <1>3, HeadTailProperties, EmptySeq DEF ProcessTyped
<1>5. ProcessTyped'
  <2>1. queue' \in [Ticker -> Seq(Request)]
    BY <1>2, <1>3, <1>4 DEF ProcessTyped
  <2>2. worker' \in [Ticker -> [pc : PC, request : Request \cup {NoRequest},
                                outcome : Outcome \cup {NoOutcome}]]
    <3>1. CASE halted
      BY <1>2, <1>3, <3>1 DEF ProcessTyped
    <3>2. CASE ~halted
      <4>1. worker[t] \in [pc : PC, request : Request \cup {NoRequest},
                           outcome : Outcome \cup {NoOutcome}]
        BY <1>2 DEF ProcessTyped
      <4>2. [worker[t] EXCEPT !.pc = "append", !.request = Head(queue[t])]
               \in [pc : PC, request : Request \cup {NoRequest},
                    outcome : Outcome \cup {NoOutcome}]
        BY <1>4, <4>1 DEF PC
      <4> QED
        BY <1>2, <1>3, <3>2, <4>2 DEF ProcessTyped
    <3> QED BY <3>1, <3>2
  <2> QED
    BY <1>2, <1>3, <2>1, <2>2 DEF ProcessTyped
<1>6. Head(queue[t]).ticker = t
  BY <1>2, <1>4 DEF WorkerConsistent
<1>7. WorkerConsistent(t)'
  <2>1. \A n \in 1..applied'[t] : n \in Rows(t)' /\ Durable(t, n)'
    BY <1>2, <1>3 DEF WorkerConsistent, Durable, LogsDurable, EventsDurable, Rows, stores
  <2>2. \A i \in 1..Len(queue'[t]) : queue'[t][i].ticker = t
    <3>1. queue'[t] = Tail(queue[t])
      BY <1>2, <1>3 DEF ProcessTyped
    <3> QED
      BY <1>2, <1>4, <3>1 DEF WorkerConsistent
  <2>3. \/ halted /\ worker'[t] = worker[t]
        \/ ~halted /\ worker'[t].pc = "append" /\ worker'[t].request = Head(queue[t])
    BY <1>2, <1>3 DEF ProcessTyped
  <2>4. BetweenCommands(t)'
    BY <1>2, <1>3, <1>4, <1>6, <2>3 DEF WorkerConsistent, BetweenCommands, PrefixBook, stores
  <2>5. WithinCommand(t)'
    BY <1>3, <2>3 DEF WithinCommand
  <2> QED
    BY <1>3, <2>1, <2>2, <2>4, <2>5 DEF WorkerConsistent
<1>8. ASSUME NEW u \in Ticker \ {t} PROVE Keeps(u)
  BY <1>2, <1>3 DEF Keeps, ProcessTyped, stores
<1>9. ProcessStep
  BY <1>1, <1>3, <1>5, <1>7, <1>8, WorkerMoved
<1>10. ObservedTyped' /\ answered' = answered
  BY TypeParts DEF Inv, ObservedTyped, observed, Receive
<1> QED BY <1>1, <1>9, <1>10, Combined

-----------------------------------------------------------------------------
(* The actions on the journal                                              *)

\* What is known of a worker that has journalStore.Append before it.
LEMMA Appending ==
  ASSUME Inv, NEW t \in Ticker, worker[t].pc = "append"
  PROVE  /\ StoresTyped /\ ProcessTyped /\ ObservedTyped /\ StoreConsistent
         /\ WorkerConsistent(t) /\ mode = "serving"
         /\ worker[t].request \in Request /\ worker[t].request.ticker = t
         /\ applied[t] = Len(journal[t]) /\ book[t] = PrefixBook(t, applied[t])
         /\ \A n \in Rows(t) : Durable(t, n)
<1>1. /\ StoresTyped /\ ProcessTyped /\ ObservedTyped /\ StoreConsistent /\ WorkerConsistent(t)
  BY TypeParts DEF Inv, Consistent
<1>2. /\ mode = "serving" /\ applied[t] = Len(journal[t]) /\ book[t] = PrefixBook(t, applied[t])
      /\ worker[t].request \in Request /\ worker[t].request.ticker = t
  BY <1>1 DEF WorkerConsistent, BetweenCommands
<1> QED
  BY <1>1, <1>2 DEF WorkerConsistent, Rows

LEMMA AppendInsertedInv ==
  ASSUME ApplyTyped, Inv, NEW t \in Ticker, AppendInserted(t)
  PROVE  Inv'
<1> DEFINE r == worker[t].request
<1>1. /\ StoresTyped /\ ProcessTyped /\ ObservedTyped /\ StoreConsistent /\ WorkerConsistent(t)
      /\ mode = "serving" /\ r \in Request /\ r.ticker = t
      /\ applied[t] = Len(journal[t]) /\ book[t] = PrefixBook(t, applied[t])
      /\ \A n \in Rows(t) : Durable(t, n)
  BY Appending DEF AppendInserted
<1>2. /\ ~Journaled(r.id) /\ InsertRow(t, r) /\ worker' = [worker EXCEPT ![t].pc = "apply"]
      /\ UNCHANGED <<mode, halted, queue, book, applied, mutated, observed, faults, crashes>>
  BY DEF AppendInserted, Goto
<1>3. /\ StoresStep
      /\ Len(journal'[t]) = Len(journal[t]) + 1
      /\ journal'[t][Len(journal[t]) + 1].id = r.id
      /\ journal'[t][Len(journal[t]) + 1].payload = r.payload
      /\ \A u \in Ticker \ {t} : journal'[u] = journal[u]
  BY <1>1, <1>2, RowInserted
<1>4. ProcessTyped'
  <2>1. worker[t] \in [pc : PC, request : Request \cup {NoRequest},
                       outcome : Outcome \cup {NoOutcome}]
    BY <1>1 DEF ProcessTyped
  <2>2. [worker[t] EXCEPT !.pc = "apply"] \in [pc : PC, request : Request \cup {NoRequest},
                                               outcome : Outcome \cup {NoOutcome}]
    BY <2>1 DEF PC
  <2> QED
    BY <1>1, <1>2, <2>2 DEF ProcessTyped
<1>5. WorkerConsistent(t)'
  <2>1. StoresTyped' /\ Grown(t) /\ Len(journal[t]) \in Nat
    BY <1>1, <1>3, LenProperties DEF StoresStep, StoresTyped
  <2>2. \A n \in 1..applied'[t] : n \in Rows(t)' /\ Durable(t, n)'
    BY <1>1, <1>2, <2>1, AppliedKept
  <2>3. PrefixBook(t, applied[t])' = PrefixBook(t, applied[t])
    BY <1>1, <1>2, <2>1, PrefixKept
  <2>4. worker'[t].pc = "apply" /\ worker'[t].request = r
    BY <1>1, <1>2 DEF ProcessTyped
  <2>5. BetweenCommands(t)'
    BY <2>4 DEF BetweenCommands
  <2>6. WithinCommand(t)'
    <3>1. Current(t)' = Len(journal[t]) + 1 /\ Current(t)' \in Rows(t)'
      BY <1>1, <1>2, <1>3, <2>1 DEF Current, Rows
    <3> QED
      BY <1>1, <1>2, <1>3, <2>3, <2>4, <3>1 DEF WithinCommand
  <2> QED
    BY <1>1, <1>2, <2>2, <2>5, <2>6 DEF WorkerConsistent
<1>6. ASSUME NEW u \in Ticker \ {t} PROVE Keeps(u)
  BY <1>1, <1>2, <1>3 DEF Keeps, ProcessTyped
<1>7. ProcessStep
  BY <1>2, <1>3, <1>4, <1>5, <1>6, WorkerMoved
<1>8. ObservedTyped' /\ answered' = answered
  BY <1>1, <1>2 DEF ObservedTyped, observed
<1> QED BY <1>3, <1>7, <1>8, Combined

LEMMA AppendDuplicateInv ==
  ASSUME Inv, NEW t \in Ticker, AppendDuplicate(t)
  PROVE  Inv'
<1> DEFINE r == worker[t].request
<1>1. /\ StoresTyped /\ ProcessTyped /\ ObservedTyped /\ StoreConsistent /\ WorkerConsistent(t)
      /\ mode = "serving" /\ r \in Request /\ r.ticker = t
      /\ applied[t] = Len(journal[t]) /\ book[t] = PrefixBook(t, applied[t])
      /\ \A n \in Rows(t) : Durable(t, n)
  BY Appending DEF AppendDuplicate
<1>2. /\ SamePayload(r) /\ counter' = [counter EXCEPT ![t] = @ + 1]
      /\ answered' = answered \cup {r}
      /\ worker' = [worker EXCEPT ![t] = IdleWorker]
      /\ UNCHANGED <<journal, matchLogs, orderEvents, canon, mode, halted, queue, book, applied,
                     mutated, shown, faults, crashes>>
  BY DEF AppendDuplicate
<1>3. StoresStep
  BY <1>1, <1>2, CounterMoved
<1>4. ProcessTyped'
  BY <1>1, <1>2 DEF ProcessTyped, PC, IdleWorker
<1>5. WorkerConsistent(t)'
  <2>1. worker'[t].pc = "idle"
    BY <1>1, <1>2 DEF ProcessTyped, IdleWorker
  <2>2. BetweenCommands(t)' /\ WithinCommand(t)'
    BY <1>1, <1>2, <2>1 DEF BetweenCommands, WithinCommand, PrefixBook
  <2> QED
    BY <1>1, <1>2, <2>2 DEF WorkerConsistent, Durable, LogsDurable, EventsDurable, Rows
<1>6. ASSUME NEW u \in Ticker \ {t} PROVE Keeps(u)
  BY <1>1, <1>2 DEF Keeps, ProcessTyped
<1>7. ProcessStep
  BY <1>2, <1>3, <1>4, <1>5, <1>6, WorkerMoved
<1>8. AnsweredDurable'
  <2>1. ASSUME NEW q \in answered'
        PROVE  \E n \in Rows(q.ticker)' :
                   /\ journal'[q.ticker][n].id = q.id
                   /\ journal'[q.ticker][n].payload = q.payload
                   /\ Durable(q.ticker, n)'
    <3>1. CASE q \in answered
      BY <1>1, <1>3, <3>1, AnswersKept DEF Inv, Consistent, StoresStep, ObservedTyped
    <3>2. CASE q = r
      <4>1. PICK n \in Rows(t) : journal[t][n].id = r.id /\ journal[t][n].payload = r.payload
        BY <1>1, <1>2 DEF SamePayload
      <4>2. n \in Rows(t)' /\ journal' = journal /\ Durable(t, n)'
        BY <1>1, <1>2, <4>1 DEF Durable, LogsDurable, EventsDurable, Rows
      <4> QED
        BY <1>1, <3>2, <4>1, <4>2
    <3> QED BY <1>2, <3>1, <3>2
  <2> QED BY <2>1 DEF AnsweredDurable
<1>9. TypeOK'
  BY <1>1, <1>2, <1>3, <1>4 DEF TypeOK, StoresTyped, ProcessTyped, ObservedTyped, StoresStep
<1> QED
  BY <1>3, <1>7, <1>8, <1>9 DEF Inv, Consistent, StoresStep, ProcessStep

LEMMA AppendConflictInv ==
  ASSUME Inv, NEW t \in Ticker, AppendConflict(t)
  PROVE  Inv'
<1>1. StoresTyped /\ ProcessTyped /\ ObservedTyped /\ StoreConsistent /\ mode = "serving"
  BY Appending DEF AppendConflict
<1>2. /\ counter' = [counter EXCEPT ![t] = @ + 1] /\ Fail(t)
      /\ UNCHANGED <<journal, matchLogs, orderEvents, canon, book, mutated, observed,
                     faults, crashes>>
  BY DEF AppendConflict
<1>3. StoresStep
  BY <1>1, <1>2, CounterMoved
<1>4. ProcessStep
  BY <1>1, <1>2, <1>3, Failed DEF Inv, Consistent, ProcessTyped
<1>5. ObservedTyped' /\ answered' = answered
  BY <1>1, <1>2 DEF ObservedTyped, observed
<1> QED BY <1>3, <1>4, <1>5, Combined

LEMMA AppendFaultInv ==
  ASSUME ApplyTyped, Inv, NEW t \in Ticker, AppendFault(t)
  PROVE  Inv'
<1> DEFINE r == worker[t].request
<1>1. /\ StoresTyped /\ ProcessTyped /\ ObservedTyped /\ StoreConsistent
      /\ mode = "serving" /\ r \in Request /\ r.ticker = t
      /\ \A n \in Rows(t) : Durable(t, n)
  BY Appending DEF AppendFault
<1>2. /\ \/ UNCHANGED stores
         \/ ~Journaled(r.id) /\ InsertRow(t, r)
         \/ /\ counter' = [counter EXCEPT ![t] = @ + 1]
            /\ UNCHANGED <<journal, matchLogs, orderEvents, canon>>
      /\ Fail(t) /\ faults' = faults + 1 /\ UNCHANGED <<book, mutated, observed, crashes>>
  BY DEF AppendFault, StoreFault
<1>3. StoresStep /\ \A u \in Ticker \ {t} : Len(journal'[u]) = Len(journal[u])
  <2>1. CASE UNCHANGED stores
    BY <2>1, SameStores DEF stores
  <2>2. CASE ~Journaled(r.id) /\ InsertRow(t, r)
    BY <1>1, <2>2, RowInserted
  <2>3. CASE /\ counter' = [counter EXCEPT ![t] = @ + 1]
             /\ UNCHANGED <<journal, matchLogs, orderEvents, canon>>
    BY <1>1, <2>3, CounterMoved
  <2> QED BY <1>2, <2>1, <2>2, <2>3
<1>4. ProcessStep
  BY <1>1, <1>2, <1>3, Failed DEF Inv, Consistent, ProcessTyped
<1>5. ObservedTyped' /\ answered' = answered
  BY <1>1, <1>2 DEF ObservedTyped, observed
<1> QED BY <1>3, <1>4, <1>5, Combined

-----------------------------------------------------------------------------
(* The actions on a command, live and in replay                            *)

Executing == {"apply", "logs", "rest", "events", "ack"}

\* What is known of a worker within a command.
LEMMA InCommand ==
  ASSUME Inv, NEW t \in Ticker, worker[t].pc \in Executing
  PROVE  /\ StoresTyped /\ ProcessTyped /\ ObservedTyped /\ StoreConsistent
         /\ WorkerConsistent(t) /\ WithinCommand(t)
         /\ Current(t) \in Rows(t) /\ Current(t) = applied[t] + 1 /\ applied[t] \in Nat
         /\ applied[t] \in 0..Len(journal[t])
         /\ journal[t][Current(t)] \in Row /\ canon[t][Current(t)] \in Outcome
         /\ worker[t].pc # "apply" => worker[t].outcome = canon[t][Current(t)]
<1>1. /\ StoresTyped /\ ProcessTyped /\ ObservedTyped /\ StoreConsistent /\ WorkerConsistent(t)
  BY TypeParts DEF Inv, Consistent
<1>2. WithinCommand(t) /\ Current(t) \in Rows(t)
  BY <1>1 DEF WorkerConsistent, WithinCommand, Executing
<1>3. journal[t][Current(t)] \in Row /\ canon[t][Current(t)] \in Outcome
  BY <1>1, <1>2, ElementOfSeq DEF StoresTyped, Rows
<1>4. worker[t].pc # "apply" => worker[t].outcome = canon[t][Current(t)]
  BY <1>2 DEF WithinCommand, Executing
<1>5. Current(t) = applied[t] + 1 /\ applied[t] \in Nat /\ applied[t] \in 0..Len(journal[t])
  BY <1>1, <1>2, LenProperties DEF Current, ProcessTyped, Rows, StoresTyped
<1> QED BY <1>1, <1>2, <1>3, <1>4, <1>5

LEMMA CommandFailed ==
  ASSUME Inv, StoresStep, NEW t \in Ticker, NEW b \in Books, NEW m \in Nat,
         Fail(t), FailBook(t, b, m), journal' = journal
  PROVE  ProcessStep
<1>1. StoresTyped /\ ProcessTyped
  BY TypeParts DEF Inv
<1>2. book' \in [Ticker -> Books] /\ mutated' \in [Ticker -> Nat]
  <2>1. CASE mode = "serving"
    <3>1. book' = [book EXCEPT ![t] = b] /\ mutated' = [mutated EXCEPT ![t] = m]
      BY <2>1 DEF FailBook
    <3> QED BY <1>1, <3>1 DEF ProcessTyped
  <2>2. CASE mode # "serving"
    BY <2>2, OutcomeAssumption DEF FailBook
  <2> QED BY <2>1, <2>2
<1>3. mode = "serving" => \A u \in Ticker \ {t} : book'[u] = book[u]
  BY <1>1 DEF FailBook, ProcessTyped
<1>4. mode # "serving" => /\ book' = [u \in Ticker |-> Empty]
                          /\ mutated' = [u \in Ticker |-> 0]
  BY DEF FailBook
<1> QED
  BY <1>1, <1>2, <1>3, <1>4, Failed DEF Inv, Consistent

\* A worker that stays within its command, or enters it.
LEMMA CommandAdvanced ==
  ASSUME Inv, StoresStep, NEW t \in Ticker, mode # "down", journal' = journal,
         UNCHANGED <<mode, halted, queue, applied>>,
         \A u \in Ticker \ {t} : worker'[u] = worker[u] /\ book'[u] = book[u],
         ProcessTyped', worker'[t].pc \in Executing, WithinCommand(t)'
  PROVE  ProcessStep
<1>1. StoresTyped /\ ProcessTyped /\ WorkerConsistent(t) /\ StoresTyped' /\ Grown(t)
  BY TypeParts DEF Inv, Consistent, StoresStep
<1>2. \A n \in 1..applied'[t] : n \in Rows(t)' /\ Durable(t, n)'
  BY <1>1, AppliedKept
<1>3. WorkerConsistent(t)'
  BY <1>1, <1>2 DEF WorkerConsistent, BetweenCommands, Executing
<1> QED
  BY <1>3, WorkerMoved DEF Keeps

LEMMA ReplayRowInv == ASSUME Inv, NEW t \in Ticker, ReplayRow(t) PROVE Inv'
<1>1. /\ StoresTyped /\ ProcessTyped /\ ObservedTyped /\ StoreConsistent /\ WorkerConsistent(t)
      /\ mode = "replaying" /\ worker[t].pc = "idle" /\ ~halted /\ applied[t] < Len(journal[t])
      /\ UNCHANGED <<stores, observed, faults, crashes>>
  BY TypeParts DEF Inv, Consistent, ReplayRow
<1>2. StoresStep /\ journal' = journal
  BY <1>1, SameStores DEF stores
<1>3. ProcessStep
  <2>1. CASE Fail(t) /\ FailBook(t, book[t], mutated[t])
    BY <1>1, <1>2, <2>1, CommandFailed DEF ProcessTyped
  <2>2. CASE Goto(t, "apply") /\ UNCHANGED <<mode, halted, queue, applied, book, mutated>>
    <3>1. worker' = [worker EXCEPT ![t].pc = "apply"]
      BY <2>2 DEF Goto
    <3>2. ProcessTyped' /\ worker'[t].pc = "apply"
      BY <1>1, <2>2, <3>1 DEF ProcessTyped, PC
    <3>3. book[t] = PrefixBook(t, applied[t])
      BY <1>1 DEF WorkerConsistent, BetweenCommands
    <3>4. Current(t) \in Rows(t) /\ Current(t)' = Current(t) /\ Rows(t)' = Rows(t)
      BY <1>1, <1>2, <2>2, LenProperties DEF Current, Rows, ProcessTyped, StoresTyped
    <3>5. WithinCommand(t)'
      BY <1>1, <2>2, <3>2, <3>3, <3>4 DEF WithinCommand, PrefixBook, stores
    <3> QED
      BY <1>1, <1>2, <2>2, <3>1, <3>2, <3>5, CommandAdvanced DEF ProcessTyped, Executing
  <2> QED BY <2>1, <2>2 DEF ReplayRow
<1>4. ObservedTyped' /\ answered' = answered
  BY <1>1 DEF ObservedTyped, observed
<1> QED BY <1>2, <1>3, <1>4, Combined

LEMMA ApplyRowInv == ASSUME ApplyTyped, Inv, NEW t \in Ticker, ApplyRow(t) PROVE Inv'
<1> DEFINE row == journal[t][Current(t)]
           outcome == Apply(book[t], row.payload, row.sequence)
<1>1. /\ StoresTyped /\ ProcessTyped /\ ObservedTyped /\ StoreConsistent /\ WorkerConsistent(t)
      /\ WithinCommand(t) /\ Current(t) \in Rows(t) /\ Current(t) = applied[t] + 1
      /\ applied[t] \in Nat /\ row \in Row
  BY InCommand DEF ApplyRow, Executing
<1>2. /\ worker[t].pc = "apply" /\ UNCHANGED <<stores, observed, faults, crashes>>
      /\ mode # "down"
  BY <1>1 DEF ApplyRow, WorkerConsistent
<1>3. StoresStep /\ journal' = journal
  BY <1>2, SameStores DEF stores
<1>4. outcome = canon[t][Current(t)]
  <2>1. book[t] = PrefixBook(t, applied[t])
    BY <1>1, <1>2 DEF WithinCommand
  <2>2. Current(t) - 1 = applied[t]
    BY <1>1
  <2> QED
    BY <1>1, <2>1, <2>2 DEF StoreConsistent
<1>5. outcome \in Outcome
  BY <1>1 DEF ApplyTyped, ProcessTyped, Row
<1>6. ProcessStep
  <2>1. CASE outcome.err
    <3>1. Fail(t) /\ FailBook(t, outcome.matched, Current(t))
      BY <2>1 DEF ApplyRow
    <3>2. outcome.matched \in Books /\ Current(t) \in Nat
      BY <1>1, <1>5 DEF Outcome
    <3> QED BY <1>3, <3>1, <3>2, CommandFailed
  <2>2. CASE ~outcome.err
    <3>1. /\ worker' = [worker EXCEPT ![t].outcome = outcome,
                            ![t].pc = IF outcome.logs = << >> THEN "rest" ELSE "logs"]
          /\ book' = [book EXCEPT ![t] = outcome.matched]
          /\ mutated' = [mutated EXCEPT ![t] = Current(t)]
          /\ UNCHANGED <<mode, halted, queue, applied>>
      BY <2>2 DEF ApplyRow
    <3> HIDE DEF outcome
    <3>2. outcome.matched \in Books /\ Current(t) \in Nat
      BY <1>1, <1>5 DEF Outcome
    <3>3. /\ ProcessTyped'
          /\ worker'[t].pc = (IF outcome.logs = << >> THEN "rest" ELSE "logs")
          /\ worker'[t].outcome = outcome /\ worker'[t].request = worker[t].request
      BY <1>1, <1>5, <3>1, <3>2 DEF ProcessTyped, PC
    <3>4. Current(t)' = Current(t) /\ Rows(t)' = Rows(t) /\ canon' = canon
      BY <1>2, <3>1 DEF Current, Rows, stores
    <3>5. WithinCommand(t)'
      <4>1. worker'[t].pc \in {"rest", "logs"} /\ (worker'[t].pc = "rest" => outcome.logs = << >>)
        BY <3>3
      <4> QED
        BY <1>1, <1>2, <1>3, <1>4, <2>2, <3>1, <3>3, <3>4, <4>1 DEF WithinCommand, LogsDurable, stores
    <3> QED
      BY <1>1, <1>2, <1>3, <3>1, <3>3, <3>5, CommandAdvanced DEF ProcessTyped, Executing
  <2> QED BY <2>1, <2>2
<1>7. ObservedTyped' /\ answered' = answered
  BY <1>1, <1>2 DEF ObservedTyped, observed
<1> QED BY <1>3, <1>6, <1>7, Combined

LEMMA SaveLogsInv == ASSUME Inv, NEW t \in Ticker, SaveLogs(t) PROVE Inv'
<1> DEFINE c == Current(t)
<1>1. /\ StoresTyped /\ ProcessTyped /\ ObservedTyped /\ StoreConsistent /\ WorkerConsistent(t)
      /\ WithinCommand(t) /\ c \in Rows(t) /\ worker[t].outcome = canon[t][c]
      /\ worker[t].pc = "logs"
  BY InCommand DEF SaveLogs, Executing
<1>2. UNCHANGED <<journal, counter, orderEvents, canon, observed, faults, crashes>>
      /\ mode # "down"
  BY <1>1 DEF SaveLogs, WorkerConsistent
<1>3. CASE /\ WriteLogs(t) /\ Goto(t, "rest")
           /\ UNCHANGED <<mode, halted, queue, applied, book, mutated>>
  <2>1. StoresStep /\ \A n \in Rows(t) : n = c => LogsDurable(t, n)'
    BY <1>1, <1>2, <1>3, LogsWritten
  <2>2. /\ worker' = [worker EXCEPT ![t].pc = "rest"] /\ ProcessTyped'
        /\ worker'[t].pc = "rest" /\ worker'[t].request = worker[t].request
        /\ worker'[t].outcome = worker[t].outcome
    BY <1>1, <1>3 DEF ProcessTyped, PC, Goto
  <2>3. Current(t)' = c /\ Rows(t)' = Rows(t)
    BY <1>2, <1>3 DEF Current, Rows
  <2>4. WithinCommand(t)'
    BY <1>1, <1>2, <1>3, <2>1, <2>2, <2>3 DEF WithinCommand
  <2>5. ProcessStep
    BY <1>1, <1>2, <1>3, <2>1, <2>2, <2>4, CommandAdvanced DEF ProcessTyped, Executing
  <2> QED
    BY <1>1, <1>2, <2>1, <2>5, Combined DEF ObservedTyped, observed
<1>4. CASE Fail(t) /\ FailBook(t, book[t], mutated[t]) /\ UNCHANGED matchLogs
  <2>1. StoresStep
    BY <1>2, <1>4, SameStores DEF stores
  <2>2. ProcessStep
    BY <1>1, <1>2, <1>4, <2>1, CommandFailed DEF ProcessTyped
  <2> QED
    BY <1>1, <1>2, <2>1, <2>2, Combined DEF ObservedTyped, observed
<1> QED BY <1>3, <1>4 DEF SaveLogs

LEMMA SaveLogsFaultInv == ASSUME Inv, NEW t \in Ticker, SaveLogsFault(t) PROVE Inv'
<1>1. /\ StoresTyped /\ ProcessTyped /\ ObservedTyped /\ StoreConsistent
      /\ Current(t) \in Rows(t) /\ worker[t].outcome = canon[t][Current(t)]
  BY InCommand DEF SaveLogsFault, Executing
<1>2. /\ UNCHANGED matchLogs \/ WriteLogs(t)
      /\ Fail(t) /\ FailBook(t, book[t], mutated[t]) /\ faults' = faults + 1
      /\ UNCHANGED <<journal, counter, orderEvents, canon, observed, crashes>>
  BY DEF SaveLogsFault, StoreFault
<1>3. StoresStep
  <2>1. CASE UNCHANGED matchLogs
    BY <1>2, <2>1, SameStores DEF stores
  <2>2. CASE WriteLogs(t)
    BY <1>1, <1>2, <2>2, LogsWritten
  <2> QED BY <1>2, <2>1, <2>2
<1>4. ProcessStep
  BY <1>1, <1>2, <1>3, CommandFailed DEF ProcessTyped
<1>5. ObservedTyped' /\ answered' = answered
  BY <1>1, <1>2 DEF ObservedTyped, observed
<1> QED BY <1>3, <1>4, <1>5, Combined

LEMMA RestInv == ASSUME Inv, NEW t \in Ticker, Rest(t) PROVE Inv'
<1> DEFINE outcome == worker[t].outcome
<1>1. /\ StoresTyped /\ ProcessTyped /\ ObservedTyped /\ StoreConsistent /\ WorkerConsistent(t)
      /\ WithinCommand(t) /\ Current(t) \in Rows(t) /\ canon[t][Current(t)] \in Outcome
      /\ outcome = canon[t][Current(t)] /\ worker[t].pc = "rest"
  BY InCommand DEF Rest, Executing
<1>2. UNCHANGED <<stores, observed, faults, crashes>> /\ mode # "down" /\ outcome.book \in Books
  BY <1>1 DEF Rest, WorkerConsistent, Outcome
<1>3. StoresStep /\ journal' = journal /\ canon' = canon
  BY <1>2, SameStores DEF stores
<1>4. ProcessStep
  <2>1. CASE outcome.rejected
    <3>1. Fail(t) /\ FailBook(t, outcome.book, mutated[t])
      BY <2>1 DEF Rest
    <3> QED BY <1>1, <1>2, <1>3, <3>1, CommandFailed DEF ProcessTyped
  <2>2. CASE ~outcome.rejected
    <3>1. /\ worker' = [worker EXCEPT ![t].pc = IF outcome.events = << >> THEN "ack" ELSE "events"]
          /\ book' = [book EXCEPT ![t] = outcome.book]
          /\ UNCHANGED <<mode, halted, queue, applied, mutated>>
      BY <2>2 DEF Rest, Goto
    <3>2. /\ ProcessTyped'
          /\ worker'[t].pc = (IF outcome.events = << >> THEN "ack" ELSE "events")
          /\ worker'[t].outcome = outcome /\ worker'[t].request = worker[t].request
      BY <1>1, <1>2, <3>1 DEF ProcessTyped, PC
    <3>3. /\ Current(t)' = Current(t) /\ Rows(t)' = Rows(t)
          /\ LogsDurable(t, Current(t))' <=> LogsDurable(t, Current(t))
      BY <1>2, <3>1 DEF Current, Rows, stores, LogsDurable
    <3>4. WithinCommand(t)'
      BY <1>1, <1>3, <2>2, <3>1, <3>2, <3>3 DEF WithinCommand, EventsDurable, ProcessTyped
    <3> QED
      BY <1>1, <1>2, <1>3, <3>1, <3>2, <3>4, CommandAdvanced DEF ProcessTyped, Executing
  <2> QED BY <2>1, <2>2
<1>5. ObservedTyped' /\ answered' = answered
  BY <1>1, <1>2 DEF ObservedTyped, observed
<1> QED BY <1>3, <1>4, <1>5, Combined

LEMMA SaveEventsInv == ASSUME Inv, NEW t \in Ticker, SaveEvents(t) PROVE Inv'
<1> DEFINE c == Current(t)
<1>1. /\ StoresTyped /\ ProcessTyped /\ ObservedTyped /\ StoreConsistent /\ WorkerConsistent(t)
      /\ WithinCommand(t) /\ c \in Rows(t) /\ worker[t].outcome = canon[t][c]
      /\ worker[t].pc = "events" /\ LogsDurable(t, c)
  BY InCommand DEF SaveEvents, Executing, WithinCommand
<1>2. UNCHANGED <<journal, counter, matchLogs, canon, observed, faults, crashes>>
      /\ mode # "down"
  BY <1>1 DEF SaveEvents, WorkerConsistent
<1>3. CASE /\ WriteEvents(t) /\ Goto(t, "ack")
           /\ UNCHANGED <<mode, halted, queue, applied, book, mutated>>
  <2>1. /\ StoresStep
        /\ \A n \in Rows(t) : n = c => EventsDurable(t, n)' /\ LogsDurable(t, n)'
    BY <1>1, <1>2, <1>3, EventsWritten DEF LogsDurable
  <2>2. /\ worker' = [worker EXCEPT ![t].pc = "ack"] /\ ProcessTyped'
        /\ worker'[t].pc = "ack" /\ worker'[t].request = worker[t].request
        /\ worker'[t].outcome = worker[t].outcome
    BY <1>1, <1>3 DEF ProcessTyped, PC, Goto
  <2>3. Current(t)' = c /\ Rows(t)' = Rows(t)
    BY <1>2, <1>3 DEF Current, Rows
  <2>4. WithinCommand(t)'
    BY <1>1, <1>2, <1>3, <2>1, <2>2, <2>3 DEF WithinCommand
  <2>5. ProcessStep
    BY <1>1, <1>2, <1>3, <2>1, <2>2, <2>4, CommandAdvanced DEF ProcessTyped, Executing
  <2> QED
    BY <1>1, <1>2, <2>1, <2>5, Combined DEF ObservedTyped, observed
<1>4. CASE Fail(t) /\ FailBook(t, book[t], mutated[t]) /\ UNCHANGED orderEvents
  <2>1. StoresStep
    BY <1>2, <1>4, SameStores DEF stores
  <2>2. ProcessStep
    BY <1>1, <1>2, <1>4, <2>1, CommandFailed DEF ProcessTyped
  <2> QED
    BY <1>1, <1>2, <2>1, <2>2, Combined DEF ObservedTyped, observed
<1> QED BY <1>3, <1>4 DEF SaveEvents

LEMMA SaveEventsFaultInv == ASSUME Inv, NEW t \in Ticker, SaveEventsFault(t) PROVE Inv'
<1>1. /\ StoresTyped /\ ProcessTyped /\ ObservedTyped /\ StoreConsistent
      /\ Current(t) \in Rows(t) /\ worker[t].outcome = canon[t][Current(t)]
      /\ LogsDurable(t, Current(t))
  BY InCommand DEF SaveEventsFault, Executing, WithinCommand
<1>2. /\ UNCHANGED orderEvents \/ WriteEvents(t)
      /\ Fail(t) /\ FailBook(t, book[t], mutated[t]) /\ faults' = faults + 1
      /\ UNCHANGED <<journal, counter, matchLogs, canon, observed, crashes>>
  BY DEF SaveEventsFault, StoreFault
<1>3. StoresStep
  <2>1. CASE UNCHANGED orderEvents
    BY <1>2, <2>1, SameStores DEF stores
  <2>2. CASE WriteEvents(t)
    BY <1>1, <1>2, <2>2, EventsWritten
  <2> QED BY <1>2, <2>1, <2>2
<1>4. ProcessStep
  BY <1>1, <1>2, <1>3, CommandFailed DEF ProcessTyped
<1>5. ObservedTyped' /\ answered' = answered
  BY <1>1, <1>2 DEF ObservedTyped, observed
<1> QED BY <1>3, <1>4, <1>5, Combined

LEMMA AcknowledgeInv == ASSUME Inv, NEW t \in Ticker, Acknowledge(t) PROVE Inv'
<1> DEFINE c == Current(t)
           r == worker[t].request
<1>1. /\ StoresTyped /\ ProcessTyped /\ ObservedTyped /\ StoreConsistent /\ WorkerConsistent(t)
      /\ WithinCommand(t) /\ c \in Rows(t) /\ c = applied[t] + 1 /\ applied[t] \in Nat
      /\ worker[t].pc = "ack" /\ mode # "down"
  BY InCommand DEF Acknowledge, Executing, WorkerConsistent
<1>2. /\ answered' = IF mode = "serving" THEN answered \cup {r} ELSE answered
      /\ applied' = [applied EXCEPT ![t] = @ + 1]
      /\ worker' = [worker EXCEPT ![t] = IdleWorker]
      /\ UNCHANGED <<stores, mode, halted, queue, book, mutated, shown, faults, crashes>>
  BY DEF Acknowledge
<1>3. StoresStep
  BY <1>2, SameStores
<1>4. Durable(t, c) /\ book[t] = canon[t][c].book
  BY <1>1 DEF WithinCommand, Durable
<1>5. mode = "serving" => /\ c = Len(journal[t]) /\ r \in Request /\ r.ticker = t
                          /\ journal[t][c].id = r.id /\ journal[t][c].payload = r.payload
  BY <1>1 DEF WithinCommand
<1>6. ProcessTyped'
  BY <1>1, <1>2 DEF ProcessTyped, PC, IdleWorker
<1>7. WorkerConsistent(t)'
  <2>1. worker'[t].pc = "idle" /\ applied'[t] = c
    BY <1>1, <1>2 DEF ProcessTyped, IdleWorker
  <2>2. \A n \in 1..applied'[t] : n \in Rows(t)' /\ Durable(t, n)'
    <3>1. \A n \in 1..c : n \in Rows(t) /\ Durable(t, n)
      BY <1>1, <1>4 DEF WorkerConsistent
    <3> QED
      BY <1>2, <2>1, <3>1 DEF stores, Rows, Durable, LogsDurable, EventsDurable
  <2>3. BetweenCommands(t)' /\ WithinCommand(t)'
    <3>1. PrefixBook(t, c) = book[t] /\ c # 0
      BY <1>1, <1>4 DEF PrefixBook
    <3> QED
      BY <1>2, <1>5, <2>1, <3>1 DEF BetweenCommands, WithinCommand, PrefixBook, stores
  <2> QED
    BY <1>1, <1>2, <2>2, <2>3 DEF WorkerConsistent
<1>8. ASSUME NEW u \in Ticker \ {t} PROVE Keeps(u)
  BY <1>1, <1>2 DEF Keeps, ProcessTyped, stores
<1>9. ProcessStep
  BY <1>2, <1>3, <1>6, <1>7, <1>8, WorkerMoved
<1>10. AnsweredDurable'
  <2>1. ASSUME NEW q \in answered'
        PROVE  \E n \in Rows(q.ticker)' :
                   /\ journal'[q.ticker][n].id = q.id
                   /\ journal'[q.ticker][n].payload = q.payload
                   /\ Durable(q.ticker, n)'
    <3>1. CASE q \in answered
      BY <1>1, <1>3, <3>1, AnswersKept DEF Inv, Consistent, StoresStep, ObservedTyped
    <3>2. CASE q = r /\ mode = "serving"
      BY <1>1, <1>2, <1>4, <1>5, <3>2 DEF Durable, LogsDurable, EventsDurable, Rows, stores
    <3> QED BY <1>2, <3>1, <3>2
  <2> QED BY <2>1 DEF AnsweredDurable
<1>11. TypeOK'
  <2>1. answered' \subseteq Request
    BY <1>1, <1>2, <1>5 DEF ObservedTyped
  <2> QED
    BY <1>1, <1>2, <1>3, <1>6, <2>1
       DEF TypeOK, StoresTyped, ProcessTyped, ObservedTyped, StoresStep
<1> QED
  BY <1>3, <1>9, <1>10, <1>11 DEF Inv, Consistent, StoresStep, ProcessStep

LEMMA SnapshotInv == ASSUME Inv, NEW t \in Ticker, Snapshot(t) PROVE Inv'
<1>1. StoresTyped /\ ProcessTyped /\ ObservedTyped
  BY TypeParts DEF Inv
<1>2. /\ shown' = [shown EXCEPT ![t] = mutated[t]]
      /\ UNCHANGED <<stores, process, answered, faults, crashes>>
  BY DEF Snapshot
<1>3. StoresStep
  BY <1>2, SameStores
<1>4. ProcessTyped' /\ (halted => mode = "serving")'
  BY <1>1, <1>2 DEF process, ProcessTyped, Inv, Consistent
<1>5. ASSUME NEW u \in Ticker PROVE WorkerConsistent(u)'
  BY <1>1, <1>2, <1>3, WorkerKept DEF Keeps, process, stores, Inv, Consistent
<1>6. ObservedTyped'
  BY <1>1, <1>2 DEF ObservedTyped, ProcessTyped
<1> QED BY <1>2, <1>3, <1>4, <1>5, <1>6, Combined DEF ProcessStep

-----------------------------------------------------------------------------
(* The invariant                                                           *)

LEMMA StutterInv == ASSUME Inv, UNCHANGED vars PROVE Inv'
<1>1. StoresTyped /\ ProcessTyped /\ ObservedTyped
  BY TypeParts DEF Inv
<1>2. UNCHANGED <<stores, process, observed, faults, crashes>>
  BY DEF vars
<1>3. StoresStep
  BY <1>2, SameStores
<1>4. ProcessTyped' /\ (halted => mode = "serving")'
  BY <1>1, <1>2 DEF process, ProcessTyped, Inv, Consistent
<1>5. ASSUME NEW u \in Ticker PROVE WorkerConsistent(u)'
  BY <1>1, <1>2, <1>3, WorkerKept DEF Keeps, process, stores, Inv, Consistent
<1>6. ObservedTyped' /\ answered' = answered
  BY <1>1, <1>2 DEF ObservedTyped, observed
<1> QED BY <1>3, <1>4, <1>5, <1>6, Combined DEF ProcessStep

LEMMA NextInv == ASSUME ApplyTyped, Inv, [Next]_vars PROVE Inv'
<1>1. CASE Start \/ Serve \/ StopHalted \/ Crash
  BY <1>1, StartInv, ServeInv, StopHaltedInv, CrashInv
<1>2. CASE \E r \in Request : Submit(r)
  BY <1>2, SubmitInv
<1>3. CASE \E t \in Ticker : ReplayRow(t) \/ Snapshot(t)
  BY <1>3, ReplayRowInv, SnapshotInv
<1>4. CASE \E t \in Ticker : WorkerStep(t)
  <2> PICK t \in Ticker : WorkerStep(t)
    BY <1>4
  <2>1. CASE Receive(t)
    BY <2>1, ReceiveInv
  <2>2. CASE AppendInserted(t) \/ AppendDuplicate(t) \/ AppendConflict(t) \/ AppendFault(t)
    BY <2>2, AppendInsertedInv, AppendDuplicateInv, AppendConflictInv, AppendFaultInv
  <2>3. CASE ApplyRow(t) \/ Rest(t)
    BY <2>3, ApplyRowInv, RestInv
  <2>4. CASE SaveLogs(t) \/ SaveLogsFault(t)
    BY <2>4, SaveLogsInv, SaveLogsFaultInv
  <2>5. CASE SaveEvents(t) \/ SaveEventsFault(t)
    BY <2>5, SaveEventsInv, SaveEventsFaultInv
  <2>6. CASE Acknowledge(t)
    BY <2>6, AcknowledgeInv
  <2> QED BY <2>1, <2>2, <2>3, <2>4, <2>5, <2>6 DEF WorkerStep
<1>5. CASE UNCHANGED vars
  BY <1>5, StutterInv
<1> QED BY <1>1, <1>2, <1>3, <1>4, <1>5 DEF Next

(***************************************************************************)
(* Stores, workers and answers agree at every moment: the inductive        *)
(* invariant holds of every behaviour of the write path.                   *)
(***************************************************************************)
THEOREM Invariance == ASSUME ApplyTyped PROVE Spec => []Inv
<1>1. Init => Inv
  BY InitInv
<1>2. Inv /\ [Next]_vars => Inv'
  BY NextInv
<1> QED BY <1>1, <1>2, PTL DEF Spec

(***************************************************************************)
(* Type correctness; every journal row has its place in the other tables.  *)
(***************************************************************************)
THEOREM TypeCorrect == ASSUME ApplyTyped PROVE Spec => []TypeOK
<1>1. Inv => TypeOK
  BY DEF Inv
<1> QED BY <1>1, Invariance, PTL

(***************************************************************************)
(* The agreement of stores, workers and answers, as the runs check it.     *)
(***************************************************************************)
THEOREM AlwaysConsistent == ASSUME ApplyTyped PROVE Spec => []Consistent
<1>1. Inv => Consistent
  BY DEF Inv
<1> QED BY <1>1, Invariance, PTL

(***************************************************************************)
(* An answer without an error is given only for a command that is in the   *)
(* journal with everything it caused committed, also when it answers a     *)
(* retry.                                                                  *)
(***************************************************************************)
THEOREM AnswersAreDurable == ASSUME ApplyTyped PROVE Spec => []AnsweredDurable
<1>1. Inv => AnsweredDurable
  BY DEF Inv, Consistent
<1> QED BY <1>1, Invariance, PTL

(***************************************************************************)
(* No worker takes a command past one whose effects are not all committed. *)
(***************************************************************************)
THEOREM OnlyTheLastIsPending == ASSUME ApplyTyped PROVE Spec => []OnlyLastPending
<1>1. Inv => OnlyLastPending
  BY DEF Inv, Consistent, StoreConsistent
<1> QED BY <1>1, Invariance, PTL

(***************************************************************************)
(* match_logs and order_events only ever hold what replaying the journal   *)
(* would write, and never the events of a command without its match logs.  *)
(***************************************************************************)
THEOREM EffectsAreReplayable == ASSUME ApplyTyped PROVE Spec => []OnlyReplayableEffects
<1>1. Inv => OnlyReplayableEffects
  BY DEF Inv, Consistent, StoreConsistent
<1> QED BY <1>1, Invariance, PTL

(***************************************************************************)
(* A command id is journaled once over all tickers, and replay always      *)
(* finds the rows of a ticker in growing sequence.                         *)
(***************************************************************************)
THEOREM JournalIsOrdered == ASSUME ApplyTyped PROVE Spec => []JournalOrdered
<1>1. Inv => JournalOrdered
  BY DEF Inv, Consistent, StoreConsistent
<1> QED BY <1>1, Invariance, PTL

(***************************************************************************)
(* The in-memory book of an engine in service is, between commands, the    *)
(* replay of the journal.                                                  *)
(***************************************************************************)
THEOREM BookIsReplay == ASSUME ApplyTyped PROVE Spec => []BookIsReplayOfJournal
<1>1. ASSUME Inv, NEW t \in Ticker, mode = "serving", ~halted,
             worker[t].pc \in {"idle", "append"}
      PROVE  book[t] = LastBook(t) /\ applied[t] = Len(journal[t])
  BY <1>1 DEF Inv, Consistent, WorkerConsistent, BetweenCommands, LastBook
<1>2. Inv => BookIsReplayOfJournal
  BY <1>1 DEF BookIsReplayOfJournal
<1> QED BY <1>2, Invariance, PTL

(***************************************************************************)
(* Replay never finds, under the identity of a row it writes, a different  *)
(* row: what a halted or dead process committed is what is written again.  *)
(***************************************************************************)
THEOREM ReplayAgrees == ASSUME ApplyTyped PROVE Spec => []ReplayAgreesWithStore
<1>1. ASSUME Inv, NEW t \in Ticker
      PROVE  /\ worker[t].pc = "logs" => LogsAccepted(t)
             /\ worker[t].pc = "events" => EventsAccepted(t)
  <2>1. worker[t].pc \in {"logs", "events"} =>
            Current(t) \in Rows(t) /\ worker[t].outcome = canon[t][Current(t)]
    BY <1>1, InCommand DEF Executing
  <2> QED
    BY <1>1, <2>1 DEF Inv, Consistent, StoreConsistent, OnlyReplayableEffects, LogsAccepted,
                      EventsAccepted
<1>2. Inv => ReplayAgreesWithStore
  BY <1>1 DEF ReplayAgreesWithStore
<1> QED BY <1>2, Invariance, PTL

-----------------------------------------------------------------------------
(* Halting and snapshots                                                   *)

(***************************************************************************)
(* A halt is final for the process, and no worker starts on a command      *)
(* after it, queued before the halt or not.                                *)
(***************************************************************************)
THEOREM HaltIsFinal == ASSUME ApplyTyped PROVE Spec => HaltedAdmitsNoCommand
<1>1. ASSUME Inv, [Next]_vars, halted
      PROVE  /\ mode' = "serving" => halted'
             /\ \A t \in Ticker : worker[t].pc = "idle" => worker'[t].pc = "idle"
  <2>1. mode = "serving" /\ halted = TRUE /\ ProcessTyped
    BY <1>1, TypeParts DEF Inv, Consistent, ProcessTyped
  <2>2. CASE StopHalted \/ Crash
    BY <2>2 DEF StopHalted, Crash, Exit, IdleWorker
  <2>3. CASE \E r \in Request : Submit(r)
    BY <2>1, <2>3 DEF Submit
  <2>4. CASE \E t \in Ticker : Snapshot(t)
    BY <2>1, <2>4 DEF Snapshot, process
  <2>5. CASE \E t \in Ticker : WorkerStep(t)
    <3> PICK t \in Ticker : WorkerStep(t)
      BY <2>5
    <3>1. halted' = TRUE /\ \A u \in Ticker \ {t} : worker'[u] = worker[u]
      BY <2>1 DEF WorkerStep, Receive, AppendInserted, AppendDuplicate, AppendConflict,
                  AppendFault, ApplyRow, SaveLogs, SaveLogsFault, Rest, SaveEvents,
                  SaveEventsFault, Acknowledge, Fail, Goto, ProcessTyped
    <3>2. worker[t].pc = "idle" => worker' = worker
      BY <2>1 DEF WorkerStep, Receive, AppendInserted, AppendDuplicate, AppendConflict,
                  AppendFault, ApplyRow, SaveLogs, SaveLogsFault, Rest, SaveEvents,
                  SaveEventsFault, Acknowledge
    <3> QED BY <3>1, <3>2
  <2>6. CASE UNCHANGED vars
    BY <1>1, <2>6 DEF vars, process
  <2> QED
    BY <1>1, <2>1, <2>2, <2>3, <2>4, <2>5, <2>6 DEF Next, Start, Serve, ReplayRow
<1>2. Inv /\ [Next]_vars =>
        [halted => /\ mode' = "serving" => halted'
                   /\ \A t \in Ticker : worker[t].pc = "idle" => worker'[t].pc = "idle"]_vars
  BY <1>1
<1> QED BY <1>2, Invariance, PTL DEF Spec, HaltedAdmitsNoCommand

\* While the engine has not halted, a worker's book contains the executions of
\* the rows it has completed and, once matched, of the row it is working on.
MutatedTracks ==
    ~halted => \A t \in Ticker :
        mutated[t] = IF worker[t].pc \in {"idle", "append", "apply"} THEN applied[t]
                     ELSE Current(t)

LEMMA MutatedStep == ASSUME Inv, MutatedTracks, [Next]_vars PROVE MutatedTracks'
<1> DEFINE Tracks(u) ==
        mutated[u] = IF worker[u].pc \in {"idle", "append", "apply"} THEN applied[u] ELSE Current(u)
           Ended == /\ mutated' = [u \in Ticker |-> 0] /\ applied' = [u \in Ticker |-> 0]
                    /\ worker' = [u \in Ticker |-> IdleWorker]
<1> SUFFICES ASSUME ~halted' PROVE \A u \in Ticker : Tracks(u)'
  BY DEF MutatedTracks
<1>1. ProcessTyped /\ (~halted => \A u \in Ticker : Tracks(u))
  BY TypeParts DEF Inv, MutatedTracks
<1>2. CASE Ended
  BY <1>2 DEF IdleWorker
<1>3. CASE UNCHANGED <<halted, worker, applied, mutated>>
  BY <1>1, <1>3 DEF Current
<1>4. ASSUME NEW t \in Ticker, NEW b, NEW m, Fail(t), FailBook(t, b, m) PROVE Ended
  BY <1>4 DEF Fail, FailBook
<1>5. ASSUME NEW t \in Ticker, worker[t].pc = "append", Fail(t) PROVE FALSE
  BY <1>5, Appending DEF Fail
<1>6. ASSUME NEW t \in Ticker, ReplayRow(t) PROVE \A u \in Ticker : Tracks(u)'
  <2>1. CASE Fail(t) /\ FailBook(t, book[t], mutated[t])
    BY <1>2, <1>4, <2>1
  <2>2. CASE Goto(t, "apply") /\ UNCHANGED <<mode, halted, queue, applied, book, mutated>>
    BY <1>1, <1>6, <2>2 DEF ReplayRow, Goto, ProcessTyped, Current
  <2> QED BY <1>6, <2>1, <2>2 DEF ReplayRow
<1>7. ASSUME NEW t \in Ticker, WorkerStep(t) PROVE \A u \in Ticker : Tracks(u)'
  <2>1. CASE Receive(t) \/ AppendInserted(t) \/ AppendDuplicate(t)
    <3>1. UNCHANGED <<halted, applied, mutated>> /\ worker[t].pc \in {"idle", "append"}
      BY <2>1 DEF Receive, AppendInserted, AppendDuplicate
    <3>2. /\ \A u \in Ticker \ {t} : worker'[u] = worker[u]
          /\ worker'[t].pc \in {"idle", "append", "apply"}
      BY <1>1, <2>1 DEF Receive, AppendInserted, AppendDuplicate, Goto, IdleWorker, ProcessTyped
    <3> QED BY <1>1, <3>1, <3>2 DEF Current
  <2>2. CASE AppendConflict(t) \/ AppendFault(t)
    BY <1>5, <2>2 DEF AppendConflict, AppendFault
  <2>3. CASE ApplyRow(t)
    <3> DEFINE outcome == Apply(book[t], journal[t][Current(t)].payload, journal[t][Current(t)].sequence)
    <3>1. CASE outcome.err
      BY <1>2, <1>4, <2>3, <3>1 DEF ApplyRow
    <3>2. CASE ~outcome.err
      <4>1. /\ worker' = [worker EXCEPT ![t].outcome = outcome,
                              ![t].pc = IF outcome.logs = << >> THEN "rest" ELSE "logs"]
            /\ mutated' = [mutated EXCEPT ![t] = Current(t)] /\ UNCHANGED <<halted, applied>>
        BY <2>3, <3>2 DEF ApplyRow
      <4> HIDE DEF outcome
      <4> QED BY <1>1, <4>1 DEF ProcessTyped, Current
    <3> QED BY <3>1, <3>2
  <2>4. CASE SaveLogs(t) \/ SaveEvents(t) \/ Rest(t)
    <3>1. \/ \E b, m : Fail(t) /\ FailBook(t, b, m)
          \/ /\ UNCHANGED <<halted, applied, mutated>>
             /\ worker[t].pc \in {"logs", "rest", "events"}
             /\ \E pc \in {"rest", "events", "ack"} : worker' = [worker EXCEPT ![t].pc = pc]
      BY <2>4 DEF SaveLogs, SaveEvents, Rest, Goto
    <3>2. CASE \E b, m : Fail(t) /\ FailBook(t, b, m)
      BY <1>2, <1>4, <3>2
    <3> QED BY <1>1, <1>2, <3>1, <3>2 DEF ProcessTyped, Current
  <2>5. CASE SaveLogsFault(t) \/ SaveEventsFault(t)
    BY <1>2, <1>4, <2>5 DEF SaveLogsFault, SaveEventsFault
  <2>6. CASE Acknowledge(t)
    BY <1>1, <2>6 DEF Acknowledge, IdleWorker, ProcessTyped, Current
  <2> QED BY <1>7, <2>1, <2>2, <2>3, <2>4, <2>5, <2>6 DEF WorkerStep
<1>8. CASE StopHalted \/ Crash
  BY <1>2, <1>8 DEF StopHalted, Crash, Exit
<1>9. CASE Start \/ Serve \/ (\E r \in Request : Submit(r)) \/ (\E t \in Ticker : Snapshot(t))
           \/ UNCHANGED vars
  BY <1>3, <1>9 DEF Start, Serve, Submit, Snapshot, process, vars
<1> QED BY <1>6, <1>7, <1>8, <1>9 DEF Next

\* No book contains more executions than its journal has rows, halted or not.
MutatedJournaled == \A t \in Ticker : mutated[t] <= Len(journal[t])

LEMMA MutatedJournaledStep == ASSUME Inv, MutatedJournaled, [Next]_vars PROVE MutatedJournaled'
<1> DEFINE Grow(t) == Len(journal[t]) \in Nat /\ Len(journal'[t]) \in Nat /\ Len(journal[t]) <= Len(journal'[t])
           Zero == mutated' = [u \in Ticker |-> 0]
<1>1. ProcessTyped /\ (\A t \in Ticker : Len(journal[t]) \in Nat)
  BY TypeParts DEF Inv, TypeOK
<1>2. ASSUME NEW t \in Ticker, InsertRow(t, worker[t].request)
      PROVE  \A u \in Ticker : Grow(u)
  <2>1. journal \in [Ticker -> Seq(Row)]
    BY DEF Inv, TypeOK
  <2>2. PICK r : journal' = [journal EXCEPT ![t] = Append(@, r)]
    BY <1>2 DEF InsertRow
  <2>3. \A u \in Ticker : u # t => journal'[u] = journal[u]
    BY <2>1, <2>2
  <2>4. Len(journal'[t]) = Len(journal[t]) + 1
    BY <2>1, <2>2
  <2> QED BY <1>1, <2>3, <2>4
<1>3. ASSUME UNCHANGED journal PROVE \A u \in Ticker : Grow(u)
  BY <1>1, <1>3
<1>4. ASSUME \A u \in Ticker : Grow(u), Zero \/ UNCHANGED mutated PROVE MutatedJournaled'
  BY <1>1, <1>4 DEF MutatedJournaled, ProcessTyped
<1>5. ASSUME NEW t \in Ticker, NEW b, FailBook(t, b, mutated[t]) PROVE Zero \/ UNCHANGED mutated
  BY <1>1, <1>5 DEF FailBook, ProcessTyped
<1>6. ASSUME NEW t \in Ticker, ApplyRow(t) PROVE MutatedJournaled'
  <2>1. UNCHANGED journal /\ worker[t].pc = "apply"
    BY <1>6 DEF ApplyRow, stores
  <2>2. \/ Zero
        \/ mutated' = [mutated EXCEPT ![t] = Current(t)]
    BY <1>6 DEF ApplyRow, FailBook
  <2>3. Current(t) <= Len(journal[t])
    <3>1. Current(t) \in 1..Len(journal[t])
      BY <2>1 DEF Inv, Consistent, WorkerConsistent, WithinCommand, Rows
    <3> QED BY <1>1, <3>1
  <2>4. CASE Zero
    BY <1>3, <1>4, <2>1, <2>4
  <2>5. CASE mutated' = [mutated EXCEPT ![t] = Current(t)]
    BY <1>1, <2>1, <2>3, <2>5 DEF MutatedJournaled, ProcessTyped
  <2> QED BY <2>2, <2>4, <2>5
<1>7. ASSUME NEW t \in Ticker, ReplayRow(t) PROVE MutatedJournaled'
  <2>1. UNCHANGED journal /\ (Zero \/ UNCHANGED mutated)
    BY <1>5, <1>7 DEF ReplayRow, stores
  <2> QED BY <1>3, <1>4, <2>1
<1>8. ASSUME NEW t \in Ticker, WorkerStep(t) PROVE MutatedJournaled'
  <2>1. CASE AppendInserted(t) \/ AppendFault(t)
    <3>1. UNCHANGED mutated /\ (UNCHANGED journal \/ InsertRow(t, worker[t].request))
      BY <2>1 DEF AppendInserted, AppendFault, stores
    <3> QED BY <1>2, <1>3, <1>4, <3>1
  <2>2. CASE Receive(t) \/ AppendDuplicate(t) \/ AppendConflict(t) \/ Acknowledge(t)
    <3>1. UNCHANGED <<journal, mutated>>
      BY <2>2 DEF Receive, AppendDuplicate, AppendConflict, Acknowledge, stores
    <3> QED BY <1>3, <1>4, <3>1
  <2>3. CASE SaveLogs(t) \/ SaveLogsFault(t) \/ Rest(t) \/ SaveEvents(t) \/ SaveEventsFault(t)
    <3>1. UNCHANGED journal /\ (UNCHANGED mutated \/ \E b : FailBook(t, b, mutated[t]))
      BY <2>3 DEF SaveLogs, SaveLogsFault, Rest, SaveEvents, SaveEventsFault, stores
    <3> QED BY <1>3, <1>4, <1>5, <3>1
  <2> QED BY <1>6, <1>8, <2>1, <2>2, <2>3 DEF WorkerStep
<1>9. CASE StopHalted \/ Crash
  <2>1. UNCHANGED journal /\ Zero
    BY <1>9 DEF StopHalted, Crash, Exit, stores
  <2> QED BY <1>3, <1>4, <2>1
<1>10. CASE Start \/ Serve \/ (\E r \in Request : Submit(r)) \/ (\E t \in Ticker : Snapshot(t))
            \/ UNCHANGED vars
  <2>1. UNCHANGED <<journal, mutated>>
    BY <1>10 DEF Start, Serve, Submit, Snapshot, stores, process, vars
  <2> QED BY <1>3, <1>4, <2>1
<1> QED BY <1>7, <1>8, <1>9, <1>10 DEF Next

(***************************************************************************)
(* GET /orderbook shows only executions of which everything is committed,  *)
(* but for the last one of a ticker on an engine that has halted.          *)
(***************************************************************************)
THEOREM SnapshotsAreDurable == ASSUME ApplyTyped PROVE Spec => SnapshotsShowDurable
<1>1. Init => MutatedTracks
  <2> SUFFICES ASSUME Init, NEW t \in Ticker
               PROVE  mutated[t] = applied[t] /\ worker[t].pc = "idle"
    BY DEF MutatedTracks
  <2> QED
    BY DEF Init, InitProcess, IdleWorker
<1>2. Inv /\ MutatedTracks /\ [Next]_vars => MutatedTracks'
  BY MutatedStep
<1>3. Init => MutatedJournaled
  <2> SUFFICES ASSUME Init, NEW t \in Ticker PROVE mutated[t] <= Len(journal[t])
    BY DEF MutatedJournaled
  <2>1. mutated[t] = 0 /\ journal[t] = << >>
    BY DEF Init, InitProcess
  <2> QED BY <2>1
<1>4. Inv /\ MutatedJournaled /\ [Next]_vars => MutatedJournaled'
  BY MutatedJournaledStep
<1>5. ASSUME Inv, MutatedTracks, MutatedJournaled, [Next]_vars, NEW t \in Ticker,
             shown'[t] # shown[t], NEW n \in 1..shown'[t]
      PROVE  n \in Rows(t) /\ (Durable(t, n) \/ (halted /\ n = Len(journal[t])))
  <2>1. PICK u \in Ticker : Snapshot(u)
    <3>1. shown' # shown
      BY <1>5
    <3>2. ASSUME NEW v \in Ticker, WorkerStep(v) PROVE shown' = shown
      BY <3>2 DEF WorkerStep, Receive, AppendInserted, AppendDuplicate, AppendConflict, AppendFault,
                  ApplyRow, SaveLogs, SaveLogsFault, Rest, SaveEvents, SaveEventsFault, Acknowledge,
                  observed
    <3>3. Start \/ Serve \/ StopHalted \/ Crash => shown' = shown
      BY DEF Start, Serve, StopHalted, Crash, observed
    <3>4. (\E r \in Request : Submit(r)) \/ (\E v \in Ticker : ReplayRow(v)) => shown' = shown
      BY DEF Submit, ReplayRow, observed
    <3>5. UNCHANGED vars => shown' = shown
      BY DEF vars, observed
    <3> QED BY <1>5, <3>1, <3>2, <3>3, <3>4, <3>5 DEF Next
  <2>2. u = t /\ shown'[t] = mutated[t]
    BY <1>5, <2>1 DEF Snapshot, Inv, TypeOK
  <2>3. n \in Rows(t)
    <3>1. mutated[t] \in Nat /\ journal[t] \in Seq(Row)
      BY <1>5 DEF Inv, TypeOK
    <3>2. Len(journal[t]) \in Nat
      BY <3>1
    <3> QED BY <1>5, <2>2, <3>1, <3>2 DEF MutatedJournaled, Rows
  <2>4. CASE ~halted
    <3>1. mutated[t] = applied[t]
      BY <1>5, <2>1, <2>2, <2>4 DEF MutatedTracks, Snapshot
    <3>2. Durable(t, n)
      BY <1>5, <2>2, <3>1 DEF Inv, Consistent, WorkerConsistent
    <3> QED BY <2>3, <3>2
  <2>5. CASE halted
    <3>1. n < Len(journal[t]) => Durable(t, n)
      BY <1>5, <2>3 DEF Inv, Consistent, StoreConsistent, OnlyLastPending
    <3>2. journal[t] \in Seq(Row)
      BY <1>5 DEF Inv, TypeOK
    <3>3. n < Len(journal[t]) \/ n = Len(journal[t])
      BY <2>3, <3>2 DEF Rows
    <3> QED BY <2>3, <2>5, <3>1, <3>3
  <2> QED BY <2>4, <2>5
<1>6. Inv /\ MutatedTracks /\ MutatedJournaled /\ [Next]_vars =>
        [\A t \in Ticker : shown'[t] # shown[t] =>
            \A n \in 1..shown'[t] :
                /\ n \in Rows(t)
                /\ Durable(t, n) \/ (halted /\ n = Len(journal[t]))]_vars
  BY <1>5
<1> QED BY <1>1, <1>2, <1>3, <1>4, <1>6, Invariance, PTL DEF Spec, SnapshotsShowDurable

-----------------------------------------------------------------------------
(* The refinement mapping                                                  *)

Entry == [id : CommandID, payload : Payload, trades : BOOLEAN, effects : BOOLEAN]

EntryOf(t, n) ==
    [id |-> journal[t][n].id, payload |-> journal[t][n].payload,
     trades |-> canon[t][n].logs # << >>, effects |-> canon[t][n].events # << >>]

LedgerTyped ==
    \A t \in Ticker :
        /\ Ledger[t] \in Seq(Entry)
        /\ Len(Ledger[t]) = Len(journal[t])
        /\ \A n \in Rows(t) : Ledger[t][n] = EntryOf(t, n)

LEMMA FunctionIsSeq ==
  ASSUME NEW S, NEW k \in Nat, NEW f \in [1..k -> S]
  PROVE  f \in Seq(S) /\ Len(f) = k
<1>1. f \in Seq(S)
  BY SeqDef
<1> QED BY <1>1, LenProperties

LEMMA LedgerIsTyped == StoresTyped => LedgerTyped
<1> SUFFICES ASSUME StoresTyped, NEW t \in Ticker
             PROVE  /\ Ledger[t] \in Seq(Entry)
                    /\ Len(Ledger[t]) = Len(journal[t])
                    /\ \A n \in Rows(t) : Ledger[t][n] = EntryOf(t, n)
  BY DEF LedgerTyped
<1>1. Len(journal[t]) \in Nat
  BY LenProperties DEF StoresTyped
<1>2. Ledger[t] = [n \in 1..Len(journal[t]) |-> EntryOf(t, n)]
  BY DEF Ledger, EntryOf, Rows
<1>3. ASSUME NEW n \in Rows(t) PROVE EntryOf(t, n) \in Entry
  <2>1. journal[t][n] \in Row
    BY ElementOfSeq DEF StoresTyped, Rows
  <2> QED BY <2>1 DEF EntryOf, Entry, Row
<1>4. Ledger[t] \in [1..Len(journal[t]) -> Entry]
  BY <1>2, <1>3 DEF Rows
<1> QED BY <1>1, <1>2, <1>4, FunctionIsSeq DEF Rows

LEMMA LedgerIsTypedNext == StoresTyped' => LedgerTyped'
  BY LedgerIsTyped, PTL

\* A row whose effects are durable is a complete entry.
LEMMA DurableComplete ==
  ASSUME StoresTyped, NEW t \in Ticker, NEW n \in Rows(t), Durable(t, n)
  PROVE  Abstract!Complete(t, n)
<1>1. canon[t][n] \in Outcome
  BY ElementOfSeq DEF StoresTyped, Rows
<1>2. Ledger[t][n] = EntryOf(t, n)
  BY LedgerIsTyped DEF LedgerTyped
<1> QED
  BY <1>1, <1>2, OutcomeAssumption
     DEF Abstract!Complete, EntryOf, Durable, LogsDurable, EventsDurable, Logged, Evented, Outcome

-----------------------------------------------------------------------------
(* Initial states and steps                                                *)

LEMMA LedgerInit == ASSUME Init PROVE Abstract!Init
<1>1. ASSUME NEW t \in Ticker PROVE Rows(t) = {}
  <2>1. journal[t] = << >>
    BY DEF Init
  <2>2. Len(journal[t]) = 0
    BY <2>1
  <2> QED BY <2>2 DEF Rows
<1>2. Ledger = [t \in Ticker |-> << >>]
  BY <1>1 DEF Ledger
<1>3. Logged = [t \in Ticker |-> {}] /\ Evented = [t \in Ticker |-> {}]
  BY <1>1 DEF Logged, Evented
<1> QED BY <1>2, <1>3 DEF Abstract!Init, Init

LEMMA Unmoved ==
  ASSUME UNCHANGED <<journal, matchLogs, orderEvents, canon, answered>>
  PROVE  UNCHANGED Abstract!vars
<1>1. \A t \in Ticker : Rows(t)' = Rows(t)
  BY DEF Rows
<1>2. Ledger' = Ledger /\ Logged' = Logged /\ Evented' = Evented
  BY <1>1 DEF Ledger, Logged, Evented
<1> QED BY <1>2 DEF Abstract!vars

-----------------------------------------------------------------------------
(* Steps of the ledger                                                     *)

\* A new journal row enters a command, complete or not.
LEMMA Entered ==
  ASSUME ApplyTyped, StoresTyped, StoreConsistent, NEW t \in Ticker, NEW r \in Request,
         r.ticker = t, ~Journaled(r.id), \A n \in Rows(t) : Durable(t, n),
         InsertRow(t, r), answered' = answered
  PROVE  \E trades, effects \in BOOLEAN : Abstract!Enter(r, trades, effects)
<1> DEFINE last == Len(journal[t]) + 1
           entry == [id |-> r.id, payload |-> r.payload,
                     trades |-> canon'[t][last].logs # << >>,
                     effects |-> canon'[t][last].events # << >>]
<1>1. /\ StoresTyped' /\ \A u \in Ticker : Grown(u)
      /\ Len(journal'[t]) = last
      /\ journal'[t][last].id = r.id /\ journal'[t][last].payload = r.payload
  BY RowInserted DEF StoresStep
<1>2. /\ matchLogs' = [matchLogs EXCEPT ![t] = Append(@, NoBatch)]
      /\ orderEvents' = [orderEvents EXCEPT ![t] = Append(@, NoBatch)]
      /\ \A u \in Ticker \ {t} : journal'[u] = journal[u] /\ canon'[u] = canon[u]
  BY DEF InsertRow, StoresTyped
<1>3. Len(journal[t]) \in Nat /\ Rows(t)' = Rows(t) \cup {last} /\ last \notin Rows(t)
      /\ last \in Rows(t)'
  BY <1>1, LenProperties DEF Rows, StoresTyped
<1>4. \A u \in Ticker \ {t} : Rows(u)' = Rows(u)
  BY <1>2 DEF Rows
<1>5. LedgerTyped /\ LedgerTyped'
  BY <1>1, LedgerIsTyped, LedgerIsTypedNext
<1>6. ASSUME NEW u \in Ticker, NEW n \in Rows(u) PROVE n \in Rows(u)' /\ Ledger'[u][n] = Ledger[u][n]
  <2>1. n \in Rows(u)'
    BY <1>3, <1>4
  <2>2. EntryOf(u, n)' = EntryOf(u, n)
    BY <1>1 DEF EntryOf, Grown
  <2> QED BY <1>5, <2>1, <2>2 DEF LedgerTyped
<1>7. Ledger'[t][last] = entry
  <2>1. ASSUME NEW n \in Rows(t)', n = last PROVE Ledger'[t][n] = entry
    <3>1. Ledger'[t][n] = EntryOf(t, n)'
      BY <1>5 DEF LedgerTyped
    <3> QED BY <1>1, <2>1, <3>1 DEF EntryOf
  <2> QED BY <1>3, <2>1
<1> HIDE DEF entry
<1>8. Ledger'[t] = Append(Ledger[t], entry)
  <2>1. entry \in Entry
    <3>1. Ledger'[t] \in Seq(Entry) /\ last \in 1..Len(Ledger'[t])
      BY <1>1, <1>3, <1>5 DEF LedgerTyped
    <3> QED BY <3>1, <1>7, ElementOfSeq
  <2>2. /\ Ledger[t] \in Seq(Entry) /\ Len(Ledger[t]) = Len(journal[t])
        /\ Ledger'[t] \in Seq(Entry) /\ Len(Ledger'[t]) = last
    BY <1>1, <1>5 DEF LedgerTyped
  <2>3. /\ Append(Ledger[t], entry) \in Seq(Entry)
        /\ Len(Append(Ledger[t], entry)) = last
        /\ \A n \in 1..Len(Ledger[t]) : Append(Ledger[t], entry)[n] = Ledger[t][n]
        /\ Append(Ledger[t], entry)[last] = entry
    BY <2>1, <2>2, AppendProperties
  <2>4. \A n \in 1..Len(Ledger'[t]) : Ledger'[t][n] = Append(Ledger[t], entry)[n]
    <3> TAKE n \in 1..Len(Ledger'[t])
    <3>1. n \in Rows(t) \/ n = last
      BY <1>3, <2>2 DEF Rows
    <3> QED BY <1>6, <1>7, <2>2, <2>3, <3>1 DEF Rows
  <2> QED BY <2>2, <2>3, <2>4, SeqEqual
<1>9. ASSUME NEW u \in Ticker \ {t} PROVE Ledger'[u] = Ledger[u]
  BY <1>2, <1>4 DEF Ledger
<1>10. Ledger' = [Ledger EXCEPT ![t] = Append(@, entry)]
  <2>1. DOMAIN Ledger = Ticker /\ DOMAIN Ledger' = Ticker
    BY DEF Ledger
  <2>2. Ledger = [u \in Ticker |-> Ledger[u]] /\ Ledger' = [u \in Ticker |-> Ledger'[u]]
    BY DEF Ledger
  <2> QED BY <1>8, <1>9, <2>1, <2>2
<1>11. UNCHANGED <<Logged, Evented>>
  <2>1. ASSUME NEW u \in Ticker, NEW n \in Rows(u)
        PROVE  matchLogs'[u][n] = matchLogs[u][n] /\ orderEvents'[u][n] = orderEvents[u][n]
    BY <1>2, AppendProperties DEF Rows, StoresTyped
  <2>2. matchLogs'[t][last] = NoBatch /\ orderEvents'[t][last] = NoBatch
    BY <1>2, AppendProperties DEF StoresTyped
  <2>3. ASSUME NEW u \in Ticker
        PROVE  /\ {n \in Rows(u)' : matchLogs'[u][n] # NoBatch}
                    = {n \in Rows(u) : matchLogs[u][n] # NoBatch}
               /\ {n \in Rows(u)' : orderEvents'[u][n] # NoBatch}
                    = {n \in Rows(u) : orderEvents[u][n] # NoBatch}
    <3>1. CASE u = t
      BY <1>3, <2>1, <2>2, <3>1
    <3>2. CASE u # t
      BY <1>4, <2>1, <3>2
    <3> QED BY <3>1, <3>2
  <2> QED BY <2>3 DEF Logged, Evented
<1>12. \A u \in Ticker : \A n \in Abstract!Entries(u) : Ledger[u][n].id # r.id
  <2> SUFFICES ASSUME NEW u \in Ticker, NEW n \in Abstract!Entries(u)
               PROVE  Ledger[u][n].id # r.id
    OBVIOUS
  <2>1. n \in Rows(u)
    BY <1>5 DEF Abstract!Entries, LedgerTyped, Rows
  <2>2. Ledger[u][n].id = journal[u][n].id
    <3>1. Ledger[u][n] = EntryOf(u, n)
      BY <1>5, <2>1 DEF LedgerTyped
    <3> QED BY <3>1 DEF EntryOf
  <2> QED BY <2>1, <2>2 DEF Journaled
<1>13. \A n \in Abstract!Entries(t) : Abstract!Complete(t, n)
  BY <1>5, DurableComplete DEF Abstract!Entries, LedgerTyped, Rows
<1> DEFINE trades == canon'[t][last].logs # << >>
           effects == canon'[t][last].events # << >>
<1>14. trades \in BOOLEAN /\ effects \in BOOLEAN
  OBVIOUS
<1>15. Abstract!Enter(r, trades, effects)
  BY <1>10, <1>11, <1>12, <1>13 DEF Abstract!Enter, entry
<1> QED BY <1>14, <1>15

LEMMA SameEntries == ASSUME UNCHANGED <<journal, canon>> PROVE UNCHANGED Ledger
<1>1. \A t \in Ticker : Rows(t)' = Rows(t)
  BY DEF Rows
<1> QED BY <1>1 DEF Ledger

\* The match logs of a row are written for the first time, or again.
LEMMA LogsPublished ==
  ASSUME StoresTyped, NEW t \in Ticker, NEW c \in Rows(t), c = Current(t),
         worker[t].outcome = canon[t][c], canon[t][c].logs # << >>, WriteLogs(t),
         UNCHANGED <<journal, orderEvents, canon, answered>>
  PROVE  Abstract!PublishLogs(t) \/ UNCHANGED Abstract!vars
<1>1. Ledger' = Ledger /\ \A u \in Ticker : Rows(u)' = Rows(u)
  BY SameEntries DEF Rows
<1>2. Evented' = Evented
  BY <1>1 DEF Evented
<1>3. canon[t][c].logs \in Batches /\ c \in 1..Len(matchLogs[t])
  <2>1. canon[t][c] \in Outcome
    BY ElementOfSeq DEF StoresTyped, Rows
  <2> QED BY <2>1 DEF Outcome, StoresTyped, Rows
<1>4. \A n \in Rows(t) : matchLogs'[t][n] = IF n = c THEN canon[t][c].logs ELSE matchLogs[t][n]
  BY <1>3, ExceptSeq DEF WriteLogs, StoresTyped, Rows
<1>5. \A u \in Ticker \ {t} : matchLogs'[u] = matchLogs[u]
  BY DEF WriteLogs, StoresTyped
<1>6. Logged' = [Logged EXCEPT ![t] = @ \cup {c}]
  <2>1. ASSUME NEW u \in Ticker
        PROVE  {n \in Rows(u)' : matchLogs'[u][n] # NoBatch}
                  = IF u = t THEN {n \in Rows(t) : matchLogs[t][n] # NoBatch} \cup {c}
                             ELSE {n \in Rows(u) : matchLogs[u][n] # NoBatch}
    <3>1. CASE u = t
      BY <1>1, <1>3, <1>4, <3>1, OutcomeAssumption
    <3>2. CASE u # t
      BY <1>1, <1>5, <3>2
    <3> QED BY <3>1, <3>2
  <2> QED BY <2>1 DEF Logged
<1>7. c \in Abstract!Entries(t) /\ Ledger[t][c].trades
  <2>1. Ledger[t][c] = EntryOf(t, c) /\ Len(Ledger[t]) = Len(journal[t])
    BY LedgerIsTyped DEF LedgerTyped
  <2>2. EntryOf(t, c).trades = (canon[t][c].logs # << >>)
    BY DEF EntryOf
  <2> QED BY <2>1, <2>2 DEF Abstract!Entries, Rows
<1>8. CASE c \in Logged[t]
  <2>1. Logged[t] \cup {c} = Logged[t]
    BY <1>8
  <2>2. Logged = [Logged EXCEPT ![t] = Logged[t]]
    BY DEF Logged
  <2>3. Logged' = Logged
    BY <1>6, <2>1, <2>2
  <2> QED BY <1>1, <1>2, <2>3 DEF Abstract!vars
<1>9. CASE c \notin Logged[t]
  BY <1>1, <1>2, <1>6, <1>7, <1>9 DEF Abstract!PublishLogs
<1> QED BY <1>8, <1>9

\* The events of a row are written for the first time, or again.
LEMMA EventsPublished ==
  ASSUME StoresTyped, NEW t \in Ticker, NEW c \in Rows(t), c = Current(t),
         worker[t].outcome = canon[t][c], canon[t][c].events # << >>, LogsDurable(t, c),
         WriteEvents(t), UNCHANGED <<journal, matchLogs, canon, answered>>
  PROVE  Abstract!PublishEvents(t) \/ UNCHANGED Abstract!vars
<1>1. Ledger' = Ledger /\ \A u \in Ticker : Rows(u)' = Rows(u)
  BY SameEntries DEF Rows
<1>2. Logged' = Logged
  BY <1>1 DEF Logged
<1>3. /\ canon[t][c].logs \in Batches /\ canon[t][c].events \in Batches
      /\ c \in 1..Len(orderEvents[t])
  <2>1. canon[t][c] \in Outcome
    BY ElementOfSeq DEF StoresTyped, Rows
  <2> QED BY <2>1 DEF Outcome, StoresTyped, Rows
<1>4. \A n \in Rows(t) :
         orderEvents'[t][n] = IF n = c THEN canon[t][c].events ELSE orderEvents[t][n]
  BY <1>3, ExceptSeq DEF WriteEvents, StoresTyped, Rows
<1>5. \A u \in Ticker \ {t} : orderEvents'[u] = orderEvents[u]
  BY DEF WriteEvents, StoresTyped
<1>6. Evented' = [Evented EXCEPT ![t] = @ \cup {c}]
  <2>1. ASSUME NEW u \in Ticker
        PROVE  {n \in Rows(u)' : orderEvents'[u][n] # NoBatch}
                  = IF u = t THEN {n \in Rows(t) : orderEvents[t][n] # NoBatch} \cup {c}
                             ELSE {n \in Rows(u) : orderEvents[u][n] # NoBatch}
    <3>1. CASE u = t
      BY <1>1, <1>3, <1>4, <3>1, OutcomeAssumption
    <3>2. CASE u # t
      BY <1>1, <1>5, <3>2
    <3> QED BY <3>1, <3>2
  <2> QED BY <2>1 DEF Evented
<1>7. /\ c \in Abstract!Entries(t) /\ Ledger[t][c].effects
      /\ Ledger[t][c].trades => c \in Logged[t]
  <2>1. Ledger[t][c] = EntryOf(t, c) /\ Len(Ledger[t]) = Len(journal[t])
    BY LedgerIsTyped DEF LedgerTyped
  <2>2. canon[t][c].logs # << >> => c \in Logged[t]
    BY <1>3, OutcomeAssumption DEF LogsDurable, Logged
  <2>3. /\ EntryOf(t, c).trades = (canon[t][c].logs # << >>)
        /\ EntryOf(t, c).effects = (canon[t][c].events # << >>)
    BY DEF EntryOf
  <2> QED BY <2>1, <2>2, <2>3 DEF Abstract!Entries, Rows
<1>8. CASE c \in Evented[t]
  <2>1. Evented[t] \cup {c} = Evented[t]
    BY <1>8
  <2>2. Evented = [Evented EXCEPT ![t] = Evented[t]]
    BY DEF Evented
  <2>3. Evented' = Evented
    BY <1>6, <2>1, <2>2
  <2> QED BY <1>1, <1>2, <2>3 DEF Abstract!vars
<1>9. CASE c \notin Evented[t]
  BY <1>1, <1>2, <1>6, <1>7, <1>9 DEF Abstract!PublishEvents
<1> QED BY <1>8, <1>9

\* A request is answered with success when its command is a complete entry.
LEMMA Answered ==
  ASSUME StoresTyped, NEW r \in Request, NEW n \in Rows(r.ticker),
         journal[r.ticker][n].id = r.id, journal[r.ticker][n].payload = r.payload,
         Durable(r.ticker, n), answered' = answered \cup {r},
         UNCHANGED <<journal, matchLogs, orderEvents, canon>>
  PROVE  Abstract!Answer(r)
<1> DEFINE t == r.ticker
<1>1. t \in Ticker
  BY RequestAssumption
<1>2. Ledger[t][n] = EntryOf(t, n) /\ Len(Ledger[t]) = Len(journal[t])
  BY <1>1, LedgerIsTyped DEF LedgerTyped
<1>3. Abstract!Complete(t, n)
  BY <1>1, DurableComplete
<1>4. n \in Abstract!Entries(t) /\ Ledger[t][n].id = r.id /\ Ledger[t][n].payload = r.payload
  BY <1>2 DEF Abstract!Entries, EntryOf, Rows
<1>5. UNCHANGED <<Ledger, Logged, Evented>>
  <2>1. \A u \in Ticker : Rows(u)' = Rows(u)
    BY DEF Rows
  <2> QED BY <2>1, SameEntries DEF Logged, Evented
<1> QED BY <1>3, <1>4, <1>5 DEF Abstract!Answer

-----------------------------------------------------------------------------
(* The steps of the write path                                             *)

\* A worker waits for a writer only when it has given it rows.
Waiting(t) ==
    /\ worker[t].pc = "logs" => worker[t].outcome.logs # << >>
    /\ worker[t].pc = "events" => worker[t].outcome.events # << >>

Pending == \A t \in Ticker : Waiting(t)

LEMMA PendingInit == ASSUME Init PROVE Pending
<1>1. ASSUME NEW t \in Ticker PROVE worker[t].pc = "idle"
  BY DEF Init, InitProcess, IdleWorker
<1> QED BY <1>1 DEF Pending, Waiting

LEMMA PendingStep == ASSUME Inv, Pending, [Next]_vars PROVE Pending'
<1>1. ProcessTyped
  BY TypeParts DEF Inv
<1>2. CASE UNCHANGED worker
  BY <1>2 DEF Pending, Waiting
<1>3. CASE worker' = [u \in Ticker |-> IdleWorker]
  BY <1>3 DEF Pending, Waiting, IdleWorker
<1>4. ASSUME NEW t \in Ticker, NEW w, worker' = [worker EXCEPT ![t] = w], Waiting(t)'
      PROVE  Pending'
  BY <1>1, <1>4 DEF Pending, Waiting, ProcessTyped
<1>5. ASSUME NEW t \in Ticker, worker' = [worker EXCEPT ![t] = IdleWorker] PROVE Pending'
  <2>1. Waiting(t)'
    BY <1>1, <1>5 DEF Waiting, IdleWorker, ProcessTyped
  <2> QED BY <1>4, <1>5, <2>1
<1>6. ASSUME NEW t \in Ticker, Fail(t) PROVE Pending'
  BY <1>3, <1>5, <1>6 DEF Fail
<1>7. ASSUME NEW t \in Ticker, NEW pc \in PC \ {"logs", "events"}, Goto(t, pc) PROVE Pending'
  <2>1. worker' = [worker EXCEPT ![t] = [worker[t] EXCEPT !.pc = pc]]
    BY <1>7 DEF Goto
  <2>2. worker'[t].pc = pc
    BY <1>1, <1>7 DEF Goto, ProcessTyped
  <2> QED BY <1>4, <1>7, <2>1, <2>2 DEF Waiting
<1>8. ASSUME NEW t \in Ticker, Receive(t) PROVE Pending'
  <2>1. CASE halted
    BY <1>2, <1>8, <2>1 DEF Receive
  <2>2. CASE ~halted
    <3>1. worker' = [worker EXCEPT ![t] =
                        [worker[t] EXCEPT !.pc = "append", !.request = Head(queue[t])]]
      BY <1>8, <2>2 DEF Receive
    <3>2. worker'[t].pc = "append"
      BY <1>1, <3>1 DEF ProcessTyped
    <3> QED BY <1>4, <3>1, <3>2 DEF Waiting
  <2> QED BY <2>1, <2>2
<1>9. ASSUME NEW t \in Ticker, ApplyRow(t) PROVE Pending'
  <2> DEFINE outcome == Apply(book[t], journal[t][Current(t)].payload, journal[t][Current(t)].sequence)
             pc == IF outcome.logs = << >> THEN "rest" ELSE "logs"
  <2>1. CASE outcome.err
    BY <1>6, <1>9, <2>1 DEF ApplyRow
  <2>2. CASE ~outcome.err
    <3>1. worker' = [worker EXCEPT ![t] = [worker[t] EXCEPT !.outcome = outcome, !.pc = pc]]
      BY <1>9, <2>2 DEF ApplyRow
    <3> HIDE DEF outcome
    <3>2. worker'[t].pc = pc /\ worker'[t].outcome = outcome
      BY <1>1, <3>1 DEF ProcessTyped
    <3>3. Waiting(t)'
      BY <3>2 DEF Waiting
    <3> HIDE DEF pc
    <3> QED BY <1>4, <3>1, <3>3
  <2> QED BY <2>1, <2>2
<1>10. ASSUME NEW t \in Ticker, Rest(t) PROVE Pending'
  <2>1. CASE worker[t].outcome.rejected
    BY <1>6, <1>10, <2>1 DEF Rest
  <2>2. CASE ~worker[t].outcome.rejected /\ worker[t].outcome.events = << >>
    BY <1>7, <1>10, <2>2 DEF Rest, PC
  <2>3. CASE ~worker[t].outcome.rejected /\ worker[t].outcome.events # << >>
    <3>1. worker' = [worker EXCEPT ![t] = [worker[t] EXCEPT !.pc = "events"]]
      BY <1>10, <2>3 DEF Rest, Goto
    <3>2. worker'[t].pc = "events" /\ worker'[t].outcome = worker[t].outcome
      BY <1>1, <3>1 DEF ProcessTyped
    <3> QED BY <1>4, <2>3, <3>1, <3>2 DEF Waiting
  <2> QED BY <2>1, <2>2, <2>3
<1>11. ASSUME NEW t \in Ticker, AppendInserted(t) \/ SaveLogs(t) \/ SaveEvents(t) \/ ReplayRow(t)
       PROVE  Pending'
  <2>1. Fail(t) \/ Goto(t, "apply") \/ Goto(t, "rest") \/ Goto(t, "ack")
    BY <1>11 DEF AppendInserted, SaveLogs, SaveEvents, ReplayRow
  <2> QED BY <1>6, <1>7, <2>1 DEF PC
<1>12. ASSUME NEW t \in Ticker, WorkerStep(t) PROVE Pending'
  <2>1. CASE AppendDuplicate(t) \/ Acknowledge(t)
    BY <1>5, <2>1 DEF AppendDuplicate, Acknowledge
  <2>2. CASE AppendConflict(t) \/ AppendFault(t) \/ SaveLogsFault(t) \/ SaveEventsFault(t)
    BY <1>6, <2>2 DEF AppendConflict, AppendFault, SaveLogsFault, SaveEventsFault
  <2> QED BY <1>8, <1>9, <1>10, <1>11, <1>12, <2>1, <2>2 DEF WorkerStep
<1>13. CASE StopHalted \/ Crash
  BY <1>3, <1>13 DEF StopHalted, Crash, Exit
<1>14. CASE Start \/ Serve \/ (\E r \in Request : Submit(r)) \/ (\E t \in Ticker : Snapshot(t))
            \/ UNCHANGED vars
  BY <1>2, <1>14 DEF Start, Serve, Submit, Snapshot, process, vars
<1> QED BY <1>11, <1>12, <1>13, <1>14 DEF Next

LEMMA AppendMaps ==
  ASSUME ApplyTyped, Inv, NEW t \in Ticker,
         AppendInserted(t) \/ AppendDuplicate(t) \/ AppendConflict(t) \/ AppendFault(t)
  PROVE  [Abstract!Next]_(Abstract!vars)
<1> DEFINE r == worker[t].request
<1>1. /\ StoresTyped /\ StoreConsistent /\ r \in Request /\ r.ticker = t
      /\ \A n \in Rows(t) : Durable(t, n)
  BY Appending DEF AppendInserted, AppendDuplicate, AppendConflict, AppendFault
<1>2. CASE ~Journaled(r.id) /\ InsertRow(t, r) /\ answered' = answered
  BY <1>1, <1>2, Entered DEF Abstract!Next
<1>3. CASE AppendDuplicate(t)
  <2>1. PICK n \in Rows(t) : journal[t][n].id = r.id /\ journal[t][n].payload = r.payload
    BY <1>1, <1>3 DEF AppendDuplicate, SamePayload
  <2>2. answered' = answered \cup {r} /\ UNCHANGED <<journal, matchLogs, orderEvents, canon>>
    BY <1>3 DEF AppendDuplicate
  <2> QED BY <1>1, <2>1, <2>2, Answered DEF Abstract!Next
<1>4. CASE UNCHANGED <<journal, matchLogs, orderEvents, canon, answered>>
  BY <1>4, Unmoved
<1> QED
  BY <1>2, <1>3, <1>4 DEF AppendInserted, AppendConflict, AppendFault, stores, observed

LEMMA SaveMaps ==
  ASSUME Inv, Pending, NEW t \in Ticker,
         SaveLogs(t) \/ SaveLogsFault(t) \/ SaveEvents(t) \/ SaveEventsFault(t)
  PROVE  [Abstract!Next]_(Abstract!vars)
<1>1. /\ worker[t].pc \in {"logs", "events"} /\ answered' = answered
      /\ UNCHANGED <<journal, canon>>
  BY DEF SaveLogs, SaveLogsFault, SaveEvents, SaveEventsFault, observed
<1>2. /\ StoresTyped /\ Current(t) \in Rows(t) /\ worker[t].outcome = canon[t][Current(t)]
      /\ WithinCommand(t)
  BY <1>1, InCommand DEF Executing
<1>3. CASE WriteLogs(t) /\ worker[t].pc = "logs" /\ orderEvents' = orderEvents
  BY <1>1, <1>2, <1>3, LogsPublished DEF Pending, Waiting, Abstract!Next
<1>4. CASE WriteEvents(t) /\ worker[t].pc = "events" /\ matchLogs' = matchLogs
  <2>1. canon[t][Current(t)].events # << >>
    BY <1>2, <1>4 DEF Pending, Waiting
  <2>2. LogsDurable(t, Current(t))
    BY <1>2, <1>4 DEF WithinCommand
  <2> QED BY <1>1, <1>2, <1>4, <2>1, <2>2, EventsPublished DEF Abstract!Next
<1>5. CASE UNCHANGED <<matchLogs, orderEvents>>
  BY <1>1, <1>5, Unmoved
<1> QED
  BY <1>3, <1>4, <1>5 DEF SaveLogs, SaveLogsFault, SaveEvents, SaveEventsFault

LEMMA AcknowledgeMaps ==
  ASSUME Inv, NEW t \in Ticker, Acknowledge(t)
  PROVE  [Abstract!Next]_(Abstract!vars)
<1>1. worker[t].pc = "ack" /\ UNCHANGED <<journal, matchLogs, orderEvents, canon>>
  BY DEF Acknowledge, stores
<1>2. CASE mode # "serving"
  BY <1>1, <1>2, Unmoved DEF Acknowledge
<1>3. CASE mode = "serving"
  <2> DEFINE r == worker[t].request
  <2>1. /\ StoresTyped /\ Current(t) \in Rows(t) /\ WithinCommand(t)
    BY <1>1, InCommand DEF Executing
  <2>2. /\ r \in Request /\ r.ticker = t
        /\ r.id = journal[t][Current(t)].id /\ r.payload = journal[t][Current(t)].payload
    BY <1>1, <1>3, <2>1 DEF WithinCommand
  <2>3. Durable(t, Current(t))
    BY <1>1, <2>1 DEF WithinCommand, Durable
  <2>4. answered' = answered \cup {r}
    BY <1>3 DEF Acknowledge
  <2> QED BY <1>1, <2>1, <2>2, <2>3, <2>4, Answered DEF Abstract!Next
<1> QED BY <1>2, <1>3

\* Every step of the write path is a step of the ledger, or leaves it alone.
LEMMA StepMaps ==
  ASSUME ApplyTyped, Inv, Pending, [Next]_vars
  PROVE  [Abstract!Next]_(Abstract!vars)
<1>1. CASE Start \/ Serve \/ StopHalted \/ Crash \/ UNCHANGED vars
  BY <1>1, Unmoved DEF Start, Serve, StopHalted, Crash, vars, stores, observed
<1>2. CASE (\E r \in Request : Submit(r)) \/ (\E t \in Ticker : ReplayRow(t) \/ Snapshot(t))
  BY <1>2, Unmoved DEF Submit, ReplayRow, Snapshot, stores, observed
<1>3. ASSUME NEW t \in Ticker, WorkerStep(t) PROVE [Abstract!Next]_(Abstract!vars)
  <2>1. CASE Receive(t) \/ ApplyRow(t) \/ Rest(t)
    BY <2>1, Unmoved DEF Receive, ApplyRow, Rest, stores, observed
  <2> QED BY <1>3, <2>1, AppendMaps, SaveMaps, AcknowledgeMaps DEF WorkerStep
<1> QED BY <1>1, <1>2, <1>3 DEF Next

(***************************************************************************)
(* Whatever faults, halts, crashes, replays and retries there are, the     *)
(* tables and the answers only ever move as DurableLedger lets them: the   *)
(* write path implements the ledger of commands.                           *)
(***************************************************************************)
THEOREM ImplementsTheLedger == ASSUME ApplyTyped PROVE Spec => ImplementsLedger
<1>1. Init => Abstract!Init
  BY LedgerInit
<1>2. Init => Pending
  BY PendingInit
<1>3. Inv /\ Pending /\ [Next]_vars => Pending'
  BY PendingStep
<1>4. Inv /\ Pending /\ [Next]_vars => [Abstract!Next]_(Abstract!vars)
  BY StepMaps
<1> QED
  BY <1>1, <1>2, <1>3, <1>4, Invariance, PTL DEF Spec, ImplementsLedger, Abstract!Spec

==============================================================================
