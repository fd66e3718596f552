---------------------------- MODULE DurableLedger ----------------------------
(***************************************************************************)
(* What the write path promises to the clients and to the readers of its   *)
(* tables, without processes, halts or recovery: a ledger of commands per  *)
(* ticker.  A command is entered once; what it caused is published after   *)
(* it, match logs before events, and completely before the ticker's next   *)
(* command is entered; a client hears yes only about a complete entry.     *)
(***************************************************************************)
EXTENDS Naturals, Sequences

CONSTANTS Ticker, CommandID, Payload, Request

VARIABLES
    ledger,    \* per ticker, a sequence of [id, payload, trades, effects]
    logged,    \* per ticker, the entries whose match logs are published
    evented,   \* per ticker, the entries whose events are published
    answered   \* requests answered with success

vars == <<ledger, logged, evented, answered>>

Entries(t) == 1..Len(ledger[t])

Init ==
    /\ ledger = [t \in Ticker |-> << >>]
    /\ logged = [t \in Ticker |-> {}]
    /\ evented = [t \in Ticker |-> {}]
    /\ answered = {}

\* trades and effects say whether the entry has match logs and events.
Complete(t, n) ==
    /\ ledger[t][n].trades => n \in logged[t]
    /\ ledger[t][n].effects => n \in evented[t]

Enter(r, trades, effects) ==
    /\ \A t \in Ticker : \A n \in Entries(t) : ledger[t][n].id # r.id
    /\ \A n \in Entries(r.ticker) : Complete(r.ticker, n)
    /\ ledger' = [ledger EXCEPT ![r.ticker] = Append(@,
            [id |-> r.id, payload |-> r.payload, trades |-> trades, effects |-> effects])]
    /\ UNCHANGED <<logged, evented, answered>>

PublishLogs(t) ==
    /\ \E n \in Entries(t) \ logged[t] :
          ledger[t][n].trades /\ logged' = [logged EXCEPT ![t] = @ \cup {n}]
    /\ UNCHANGED <<ledger, evented, answered>>

PublishEvents(t) ==
    /\ \E n \in Entries(t) \ evented[t] :
          /\ ledger[t][n].effects
          /\ ledger[t][n].trades => n \in logged[t]
          /\ evented' = [evented EXCEPT ![t] = @ \cup {n}]
    /\ UNCHANGED <<ledger, logged, answered>>

Answer(r) ==
    /\ \E n \in Entries(r.ticker) :
          /\ ledger[r.ticker][n].id = r.id
          /\ ledger[r.ticker][n].payload = r.payload
          /\ Complete(r.ticker, n)
    /\ answered' = answered \cup {r}
    /\ UNCHANGED <<ledger, logged, evented>>

Next ==
    \/ \E r \in Request, trades, effects \in BOOLEAN : Enter(r, trades, effects)
    \/ \E t \in Ticker : PublishLogs(t) \/ PublishEvents(t)
    \/ \E r \in Request : Answer(r)

Spec == Init /\ [][Next]_vars

=============================================================================
