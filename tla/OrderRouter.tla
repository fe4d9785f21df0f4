---------------------------- MODULE OrderRouter ----------------------------
(***************************************************************************)
(* RiskAwareExecutionRouter, its ApexRiskEngine and the test-net broker    *)
(* ApexStateBroker. A signal is checked and counted in one piece of the    *)
(* event loop, then its coroutine awaits the exchange twice, for the time  *)
(* and for the order. The panic switch is called when all routes have      *)
(* returned, as run_router_gauntlet does. The gauntlet awaits its signals  *)
(* one after the other; here any number may be under way.                  *)
(*                                                                         *)
(* The exchange is external: it may reject an order, fill it, and accept   *)
(* it long after the broker has given up on the answer.                    *)
(***************************************************************************)
EXTENDS Integers, FiniteSets

CONSTANTS Signals,
          Buys,           \* signals whose side is BUY
          Oversized,      \* signals with quantity > max_qty
          MaxPositions    \* max_positions

ASSUME RouterAssumption ==
    /\ IsFiniteSet(Signals)
    /\ Buys \subseteq Signals /\ Oversized \subseteq Signals
    /\ MaxPositions \in Nat

VARIABLES call,       \* route_strategy_signal of a signal
          count,      \* current_active_positions
          order,      \* the order of a signal, at the exchange
          receipt,    \* order_receipt.get("orderId") was not empty
          purge       \* cancel_all_open_orders

routerVars == <<call, count, order, receipt, purge>>

RouterInit ==
    /\ call = [s \in Signals |-> "new"]
    /\ count = 0
    /\ order = [s \in Signals |-> "none"]
    /\ receipt = [s \in Signals |-> FALSE]
    /\ purge = "none"

\* Faulty variant: the ceiling lets one more in.
Cleared_OneMore(s) ==
    /\ ~ (count > MaxPositions /\ s \in Buys)
    /\ s \notin Oversized

\* validate_signal_risk. (Nothing ever sets system_cooldown_active.)
Cleared(s) ==
    /\ ~ (count >= MaxPositions /\ s \in Buys)
    /\ s \notin Oversized

\* The check and, before the first await, the count.
Route(s) ==
    /\ purge = "none" /\ call[s] = "new"
    /\ IF Cleared(s)
         THEN /\ call' = [call EXCEPT ![s] = "clock"]
              /\ count' = IF s \in Buys THEN count + 1 ELSE count
         ELSE call' = [call EXCEPT ![s] = "refused"] /\ UNCHANGED count
    /\ UNCHANGED <<order, receipt, purge>>

\* The time has come, from the server or from the own clock; the order is posted.
Post(s) ==
    /\ call[s] = "clock"
    /\ call' = [call EXCEPT ![s] = "posted"]
    /\ order' = [order EXCEPT ![s] = "travelling"]
    /\ UNCHANGED <<count, receipt, purge>>

\* The exchange receives an order: it may rest, or be refused, or never get there.
Receive(s) ==
    /\ order[s] = "travelling"
    /\ \E o \in {"resting", "rejected"} : order' = [order EXCEPT ![s] = o]
    /\ UNCHANGED <<call, count, receipt, purge>>

Match(s) ==
    /\ order[s] = "resting"
    /\ order' = [order EXCEPT ![s] = "filled"]
    /\ UNCHANGED <<call, count, receipt, purge>>

\* The answer of the exchange, with an orderId if it took the order.
Answer(s) ==
    /\ call[s] = "posted" /\ order[s] \notin {"travelling", "rejected"}
    /\ call' = [call EXCEPT ![s] = "returned"]
    /\ receipt' = [receipt EXCEPT ![s] = TRUE]
    /\ UNCHANGED <<count, order, purge>>

\* Faulty variant: the slot of a failed order is given back.
Fail_GivesBack(s) ==
    /\ call[s] = "posted"
    /\ call' = [call EXCEPT ![s] = "returned"]
    /\ count' = IF s \in Buys THEN count - 1 ELSE count
    /\ UNCHANGED <<order, receipt, purge>>

\* An error of the exchange, or of the connection at any time: {} is returned.
Fail(s) ==
    /\ call[s] = "posted"
    /\ call' = [call EXCEPT ![s] = "returned"]
    /\ UNCHANGED <<count, order, receipt, purge>>

UnderWay == \E s \in Signals : call[s] \in {"clock", "posted"}

\* Faulty variant: the panic switch does not wait for the routes.
CallPurge_AtOnce ==
    /\ purge = "none"
    /\ purge' = "posted"
    /\ UNCHANGED <<call, count, order, receipt>>

CallPurge ==
    /\ purge = "none" /\ ~ UnderWay
    /\ purge' = "posted"
    /\ UNCHANGED <<call, count, order, receipt>>

\* The exchange takes every open order off the book.
CancelAll ==
    /\ purge = "posted"
    /\ order' = [s \in Signals |-> IF order[s] = "resting" THEN "cancelled" ELSE order[s]]
    /\ purge' = "executed"
    /\ UNCHANGED <<call, count, receipt>>

PurgeAnswered ==
    /\ purge = "executed"
    /\ purge' = "confirmed"
    /\ UNCHANGED <<call, count, order, receipt>>

\* The exception is caught and [] returned, whether or not the book was wiped.
PurgeFails ==
    /\ purge \in {"posted", "executed"}
    /\ purge' = "failed"
    /\ UNCHANGED <<call, count, order, receipt>>

RouterDone == purge \in {"confirmed", "failed"} /\ UNCHANGED routerVars

RouterNext ==
    \/ \E s \in Signals :
        Route(s) \/ Post(s) \/ Receive(s) \/ Match(s) \/ Answer(s) \/ Fail(s)
    \/ CallPurge \/ CancelAll \/ PurgeAnswered \/ PurgeFails
    \/ RouterDone

RouterSpec == RouterInit /\ [][RouterNext]_routerVars

-----------------------------------------------------------------------------

RouterTypeOK ==
    /\ call \in [Signals -> {"new", "refused", "clock", "posted", "returned"}]
    /\ count \in Nat
    /\ order \in [Signals -> {"none", "travelling", "resting", "filled", "rejected", "cancelled"}]
    /\ receipt \in [Signals -> BOOLEAN]
    /\ purge \in {"none", "posted", "executed", "confirmed", "failed"}

\* The buys that are, or can still become, positions at the exchange.
Exposed == {s \in Buys : order[s] \in {"travelling", "resting", "filled"}}

\* Every buy that may become a position holds a slot, also when its coroutine
\* was told that the order failed: this is why the slot is not given back.
Counted == Cardinality(Exposed) <= count /\ count <= MaxPositions

\* After a confirmed purge an order can rest only if its answer was lost.
Purged ==
    purge = "confirmed" =>
        \A s \in Signals : order[s] = "resting" => call[s] = "returned" /\ ~ receipt[s]

\* What the router believes about the exchange is safe: its count is never too
\* low, and a confirmed purge leaves nothing that it knows of.
OrdersKnown == Counted /\ Purged

=============================================================================
