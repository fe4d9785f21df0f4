------------------------- MODULE IntegrationHarness -------------------------
(***************************************************************************)
(* PlatformIntegrationHarness: a tick goes through the synchronous bus to   *)
(* the strategy, the PortfolioCoordinator, the EmergencyKillSwitch and the  *)
(* order table, each on a database connection of its own, so that other     *)
(* programs on the vault act in between.  An exception of a callback is     *)
(* caught by the bus.  The process can die anywhere; StateRecoveryEngine    *)
(* counts the pending orders when it comes back.                            *)
(*                                                                         *)
(* Time is in whole seconds, the resolution of order ids.  The table of     *)
(* ticks and the recovered positions, which nothing reads, are left out.    *)
(* No order ever leaves the status SUBMITTED.                               *)
(***************************************************************************)
EXTENDS Integers, FiniteSets, Functions

CONSTANTS Instruments,  \* the assets
          Signalling,   \* those the strategy trades (ETHUSDT)
          MaxSlots,     \* max_global_slots, and the limit of the kill switch
          MaxErrors,    \* max_consecutive_errors
          Window,       \* the minute the kill switch looks back
          Seconds,      \* bound: 0 .. the end of the run
          MaxReboots    \* bound of the model

ASSUME HarnessAssumption ==
    /\ IsFiniteSet(Instruments) /\ Signalling \subseteq Instruments
    /\ Seconds \subseteq Nat /\ IsFiniteSet(Seconds) /\ 0 \in Seconds
    /\ {MaxSlots, MaxErrors, Window, MaxReboots} \subseteq Nat

VARIABLES vault,    \* order ids, assets with an ACTIVE position, CRITICAL events, SYSTEM_HALT
          memory,   \* pending_order_count of the recovery, and orders_generated
          stage,    \* where the pipeline is
          asset,    \* event.symbol
          clock, reboots

harnessVars == <<vault, memory, stage, asset, clock, reboots>>

HarnessInit ==
    /\ vault = [orders |-> {}, active |-> {}, errors |-> [s \in Seconds |-> 0],
                halted |-> FALSE]
    /\ memory = [pending |-> 0, made |-> 0]
    /\ stage = "down" /\ asset \in Signalling
    /\ clock = 0 /\ reboots = 0

\* A new harness, and reconstruct_runtime_memory from the vault.
Reboot ==
    /\ stage = "down"
    /\ stage' = "idle" /\ memory' = [pending |-> Cardinality(vault.orders), made |-> 0]
    /\ UNCHANGED <<vault, asset, clock, reboots>>

\* _strategy_logic_evaluator: a tick with a signal.
PublishTick ==
    /\ stage = "idle"
    /\ stage' = "signalled" /\ asset' \in Signalling
    /\ UNCHANGED <<vault, memory, clock, reboots>>

\* evaluate_order_request: the ceiling of slots, and one position per asset.
Coordinate ==
    /\ stage = "signalled"
    /\ stage' = IF Cardinality(vault.active) >= MaxSlots \/ asset \in vault.active
                THEN "idle" ELSE "approved"
    /\ UNCHANGED <<vault, memory, asset, clock, reboots>>

RecentErrors ==
    SumFunctionOnSet(vault.errors, {s \in Seconds : s > clock - Window})

\* inspect_system_health: an error storm or too many positions log a halt.
InspectHealth ==
    /\ stage = "approved"
    /\ IF RecentErrors >= MaxErrors \/ Cardinality(vault.active) > MaxSlots
         THEN stage' = "idle" /\ vault' = [vault EXCEPT !.halted = TRUE]
         ELSE stage' = "healthy" /\ UNCHANGED vault
    /\ UNCHANGED <<memory, asset, clock, reboots>>

\* Faulty variant: an order of the same second is replaced.
StoreOrder_Replaces ==
    /\ stage = "healthy"
    /\ stage' = "submitted" /\ vault' = [vault EXCEPT !.orders = @ \cup {clock}]
    /\ UNCHANGED <<memory, asset, clock, reboots>>

\* The order is inserted under the id of this second, unless there is one already.
StoreOrder ==
    /\ stage = "healthy"
    /\ IF clock \in vault.orders
         THEN stage' = "idle" /\ UNCHANGED vault
         ELSE stage' = "submitted" /\ vault' = [vault EXCEPT !.orders = @ \cup {clock}]
    /\ UNCHANGED <<memory, asset, clock, reboots>>

CountOrder ==
    /\ stage = "submitted"
    /\ stage' = "idle" /\ memory' = [memory EXCEPT !.made = @ + 1]
    /\ UNCHANGED <<vault, asset, clock, reboots>>

\* A callback raises, because the vault is locked: the bus goes on.
CallbackRaises ==
    /\ stage \in {"signalled", "approved", "healthy"}
    /\ stage' = "idle"
    /\ UNCHANGED <<vault, memory, asset, clock, reboots>>

Sever ==
    /\ stage # "down" /\ reboots < MaxReboots
    /\ stage' = "down" /\ reboots' = reboots + 1
    /\ UNCHANGED <<vault, memory, asset, clock>>

NextSecond ==
    /\ clock + 1 \in Seconds
    /\ clock' = clock + 1
    /\ UNCHANGED <<vault, memory, stage, asset, reboots>>

\* Other programs log a CRITICAL event, or open a position.
LogCritical ==
    /\ vault.errors[clock] < MaxErrors
    /\ vault' = [vault EXCEPT !.errors[clock] = @ + 1]
    /\ UNCHANGED <<memory, stage, asset, clock, reboots>>

OpenPosition ==
    /\ \E y \in Instruments \ vault.active :
        vault' = [vault EXCEPT !.active = @ \cup {y}]
    /\ UNCHANGED <<memory, stage, asset, clock, reboots>>

HarnessNext ==
    \/ Reboot \/ PublishTick \/ Coordinate \/ InspectHealth \/ StoreOrder \/ CountOrder
    \/ CallbackRaises \/ Sever
    \/ NextSecond \/ LogCritical \/ OpenPosition

HarnessSpec == HarnessInit /\ [][HarnessNext]_harnessVars

-----------------------------------------------------------------------------

\* What the harness knows of its orders, recovered and made since, is what the
\* vault holds, whether orders collide, callbacks raise or the process dies
\* between storing an order and counting it.
OrdersRecovered ==
    stage # "down" =>
        Cardinality(vault.orders) =
            memory.pending + memory.made + (IF stage = "submitted" THEN 1 ELSE 0)

=============================================================================
