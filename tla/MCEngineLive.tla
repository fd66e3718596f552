---------------------------- MODULE MCEngineLive ----------------------------
(***************************************************************************)
(* Engine for checking liveness and the refinement.  Neither depends on    *)
(* what a book is, so a book is here the sequence of payloads applied to   *)
(* it; "trade" has match logs and events, "rest" only events, "nothing"    *)
(* has neither.                                                            *)
(***************************************************************************)
EXTENDS EngineRefinement

MCPayload == {"trade", "rest", "nothing"}

MCApply(b, payload, s) ==
    [matched |-> Append(b, payload), book |-> Append(b, payload),
     logs |-> IF payload = "trade" THEN <<s>> ELSE << >>,
     events |-> IF payload = "nothing" THEN << >> ELSE <<s>>,
     err |-> FALSE, rejected |-> FALSE]

MCRequest == {
    [id |-> "c1", ticker |-> "BTC", payload |-> "rest"],
    [id |-> "c2", ticker |-> "BTC", payload |-> "trade"],
    [id |-> "c2", ticker |-> "ETH", payload |-> "trade"],
    [id |-> "c3", ticker |-> "ETH", payload |-> "nothing"]}

MCTicker == {r.ticker : r \in Request}
MCCommandID == {r.id : r \in Request}
MCBooks == Seq(Payload)
MCBatches == Seq(Nat)
MCEmpty == << >>
=============================================================================
