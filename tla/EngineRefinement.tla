-------------------------- MODULE EngineRefinement --------------------------
(***************************************************************************)
(* The write path implements DurableLedger: the journal is the ledger, and *)
(* an entry is published when its batch is in match_logs or order_events.  *)
(***************************************************************************)
EXTENDS Engine

Ledger == [t \in Ticker |-> [n \in Rows(t) |->
    [id |-> journal[t][n].id, payload |-> journal[t][n].payload,
     trades |-> canon[t][n].logs # << >>, effects |-> canon[t][n].events # << >>]]]

Logged == [t \in Ticker |-> {n \in Rows(t) : matchLogs[t][n] # NoBatch}]
Evented == [t \in Ticker |-> {n \in Rows(t) : orderEvents[t][n] # NoBatch}]

Abstract == INSTANCE DurableLedger WITH ledger <- Ledger, logged <- Logged, evented <- Evented

(***************************************************************************)
(* Through faults, halts, crashes, replays and retries the tables only     *)
(* ever move as the ledger may: one entry per command id, effects in the   *)
(* order of the journal, match logs before events, answers last.           *)
(***************************************************************************)
ImplementsLedger == Abstract!Spec

=============================================================================
