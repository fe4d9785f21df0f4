--------------------------- MODULE SupervisorProps --------------------------
(***************************************************************************)
(* What the supervisor promises.                                            *)
(***************************************************************************)
EXTENDS Supervisor

\* Every variable has its type; only an engine that is up receives ticks.
TypeOK ==
    /\ engine \in {"dead", "starting", "up", "writing"}
    /\ streaming \subseteq Symbols
    /\ streaming # {} => engine \in {"up", "writing"}
    /\ file \in {"pulse", "empty"}
    /\ age \in 0..TooOld
    /\ session \in BOOLEAN
    /\ step \in {"loop", "recovery"}
    /\ wait \in 0..Poll
    /\ rested \in 0..Quiet
    /\ attempts \in 0..MaxAttempts
    /\ fruitless \in Nat
    /\ sinceStart \in 0..Quiet
    /\ unlogged \in BOOLEAN

\* The circuit breaker is not cheated: whatever pulses, deaths, failing commands
\* and cleared counters lie between, no more than MaxAttempts recoveries in a row
\* go without a pulse of the engine (recovery_counter and its reset).
BreakerHolds == fruitless <= attempts

\* A restarted engine is left alone for the quiet time: the supervisor makes no
\* new attempt before Quiet has passed since it last started the engine, whatever
\* failed or was reset in between (last_recovery_time).  Where it could not write
\* its log after the start there is no quiet time, and all it leaves the engine
\* is its own sleep between two looks.
RestartsAreSpaced ==
    [][attempts' > attempts => sinceStart >= (IF unlogged THEN Poll ELSE Quiet)]_vars

Handled == engine # "dead" \/ attempts = MaxAttempts

\* An engine that died leaving a readable heartbeat is started again, or the
\* supervisor has used up its attempts (supervise_lifecycle).
ReadableDeathHandled == (engine = "dead" /\ file = "pulse") ~> Handled
-----------------------------------------------------------------------------
(* What a docstring says and the code does not do.                          *)

\* "Monitors system vitality registers and executes automated process recovery
\* actions": every death of the engine is handled.
DeathHandled == (engine = "dead") ~> Handled
=============================================================================
