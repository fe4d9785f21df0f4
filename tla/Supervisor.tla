----------------------------- MODULE Supervisor -----------------------------
(***************************************************************************)
(* The supervisor daemon (supervisor_daemon.py), the paper engine as it     *)
(* sees it (live_paper_engine.py) and the heartbeat file between the two.   *)
(*                                                                         *)
(* Time advances in units; ages and waits are counted in them and ages stop *)
(* counting where the code no longer tells them apart.                      *)
(***************************************************************************)
EXTENDS Naturals

CONSTANTS
    Symbols,      \* the symbols, each with a worker and a stream of its own
    Fresh,        \* a pulse younger than this clears the counter (5 s)
    Poll,         \* sleep between two looks (10 s)
    Stale,        \* stale_threshold (45 s)
    Quiet,        \* no look this long after a recovery (60 s)
    MaxAttempts   \* max_recovery_attempts

ASSUME SupervisorAssumption ==
    /\ {Fresh, Poll, Stale, Quiet, MaxAttempts} \subseteq Nat \ {0}
    /\ Fresh <= Stale
    /\ Poll <= Quiet

VARIABLES
    engine,      \* "dead", "starting", "up" or "writing" the heartbeat
    streaming,   \* symbols whose worker receives ticks
    file,        \* the heartbeat file holds a "pulse" or is "empty"
    age,         \* time since the last pulse was written
    session,     \* does the tmux session exist
    step,        \* the supervisor is in its loop, or in a "recovery"
    wait,        \* time until it looks again
    rested,      \* time since the last completed recovery
    attempts,    \* recovery_counter
    fruitless,   \* history: recoveries begun since the last pulse
    sinceStart,  \* history: time since the supervisor started the engine
    unlogged     \* history: that start has not been followed by a quiet time

vars == <<engine, streaming, file, age, session, step, wait, rested, attempts,
          fruitless, sinceStart, unlogged>>
history == <<fruitless, sinceStart, unlogged>>
engineVars == <<engine, streaming, file, age, session>>
daemonVars == <<step, wait, rested, attempts>>

TooOld == Stale + 1
Older(n, limit) == IF n < limit THEN n + 1 ELSE limit

\* The repository holds an old heartbeat file; nothing runs but the supervisor.
Init ==
    /\ engine = "dead" /\ streaming = {}
    /\ file = "pulse" /\ age = TooOld
    /\ session \in BOOLEAN
    /\ step = "loop" /\ wait = 0 /\ rested = Quiet
    /\ attempts = 0 /\ fruitless = 0 /\ sinceStart = Quiet
    /\ unlogged = FALSE

\* Time passes while the supervisor sleeps.
Clock ==
    /\ step = "loop" /\ wait > 0
    /\ wait' = wait - 1
    /\ age' = Older(age, TooOld)
    /\ rested' = Older(rested, Quiet)
    /\ sinceStart' = Older(sinceStart, Quiet)
    /\ UNCHANGED <<engine, streaming, file, session, step, attempts, fruitless, unlogged>>

-----------------------------------------------------------------------------
(* The paper engine.                                                       *)

\* bootstrap_memory has returned for every symbol; its requests have no limit.
Boot ==
    /\ engine = "starting"
    /\ engine' = "up"
    /\ UNCHANGED <<streaming, file, age, session, daemonVars, history>>

Connect(s) ==
    /\ engine = "up" /\ s \notin streaming
    /\ streaming' = streaming \cup {s}
    /\ UNCHANGED <<engine, file, age, session, daemonVars, history>>

\* The worker's exception handler: five seconds, then it connects again.
Disconnect(s) ==
    /\ engine = "up" /\ s \in streaming
    /\ streaming' = streaming \ {s}
    /\ UNCHANGED <<engine, file, age, session, daemonVars, history>>

\* A tick of any symbol ends in pulse_heartbeat: opening the file for writing
\* empties it,
PulseBegins ==
    /\ engine = "up" /\ streaming # {}
    /\ engine' = "writing"
    /\ file' = "empty"
    /\ UNCHANGED <<streaming, age, session, daemonVars, history>>

\* and closing it brings the time to the disk.
PulseEnds ==
    /\ engine = "writing"
    /\ engine' = "up"
    /\ file' = "pulse" /\ age' = 0
    /\ fruitless' = 0
    /\ UNCHANGED <<streaming, session, daemonVars, sinceStart, unlogged>>

\* The process ends, alone or with its tmux session.
Die ==
    /\ engine # "dead"
    /\ engine' = "dead" /\ streaming' = {}
    /\ session' \in {session, FALSE}
    /\ UNCHANGED <<file, age, daemonVars, history>>

-----------------------------------------------------------------------------
(* supervise_lifecycle: one look at the heartbeat.                         *)

Sleep == wait' = Poll

Looks == step = "loop" /\ wait = 0

LookWhileQuiet ==
    /\ Looks /\ rested < Quiet
    /\ Sleep
    /\ UNCHANGED <<engineVars, step, rested, attempts, history>>

\* float('') raises ValueError, which is passed over.
LookAtEmptyFile ==
    /\ Looks /\ rested = Quiet /\ file = "empty"
    /\ Sleep
    /\ UNCHANGED <<engineVars, step, rested, attempts, history>>

\* A fresh pulse clears the counter, unless the incident log cannot be written:
\* it is written first.
LookNominal ==
    /\ Looks /\ rested = Quiet /\ file = "pulse" /\ age <= Stale
    /\ attempts' \in IF age < Fresh THEN {0, attempts} ELSE {attempts}
    /\ Sleep
    /\ UNCHANGED <<engineVars, step, rested, history>>

SeesStale == Looks /\ rested = Quiet /\ file = "pulse" /\ age > Stale

\* The circuit breaker only writes to the incident log.
StandDown ==
    /\ SeesStale /\ attempts >= MaxAttempts
    /\ Sleep
    /\ UNCHANGED <<engineVars, step, rested, attempts, history>>

-----------------------------------------------------------------------------
(* execute_self_healing_routine.                                           *)

CountAttempt ==
    /\ attempts' = attempts + 1
    /\ fruitless' = fruitless + 1
    /\ UNCHANGED <<sinceStart, unlogged>>

\* Faulty variant: one attempt too many (">" for ">=").
BeginRecovery_OffByOne ==
    /\ SeesStale /\ attempts <= MaxAttempts
    /\ CountAttempt
    /\ engine' = "dead" /\ streaming' = {} /\ session' = TRUE
    /\ step' = "recovery"
    /\ UNCHANGED <<file, age, wait, rested>>

\* C-c to whatever runs in the session, or a new session when there is none.
BeginRecovery ==
    /\ SeesStale /\ attempts < MaxAttempts
    /\ CountAttempt
    /\ engine' = "dead" /\ streaming' = {} /\ session' = TRUE
    /\ step' = "recovery"
    /\ UNCHANGED <<file, age, wait, rested>>

\* The incident log or the first tmux command raises.
RecoveryFailsAtOnce ==
    /\ SeesStale /\ attempts < MaxAttempts
    /\ CountAttempt
    /\ Sleep
    /\ UNCHANGED <<engineVars, step, rested>>

\* Faulty variant: last_recovery_time is not set.
CompleteRecovery_NoTime ==
    /\ step = "recovery"
    /\ step' = "loop" /\ Sleep
    /\ engine' = "starting" /\ sinceStart' = 0
    /\ unlogged' = FALSE
    /\ UNCHANGED <<streaming, file, age, session, rested, attempts, fruitless>>

\* Faulty variant: a restart that was issued counts as one that worked.
CompleteRecovery_ClearsCounter ==
    /\ step = "recovery"
    /\ step' = "loop" /\ Sleep
    /\ engine' = "starting" /\ rested' = 0 /\ attempts' = 0 /\ sinceStart' = 0
    /\ unlogged' = FALSE
    /\ UNCHANGED <<streaming, file, age, session, fruitless>>

\* The engine is started again and last_recovery_time set.
CompleteRecovery ==
    /\ step = "recovery"
    /\ step' = "loop" /\ Sleep
    /\ engine' = "starting" /\ rested' = 0 /\ sinceStart' = 0
    /\ unlogged' = FALSE
    /\ UNCHANGED <<streaming, file, age, session, attempts, fruitless>>

\* The engine is started again, but the incident log cannot be written: the
\* exception is caught before last_recovery_time is set.
RecoveryUnlogged ==
    /\ step = "recovery"
    /\ step' = "loop" /\ Sleep
    /\ engine' = "starting" /\ sinceStart' = 0 /\ unlogged' = TRUE
    /\ UNCHANGED <<streaming, file, age, session, rested, attempts, fruitless>>

\* Faulty variant: no except clause, the exception ends the daemon.
RecoveryFailsLate_Uncaught ==
    /\ step = "recovery"
    /\ step' = "ended"
    /\ UNCHANGED <<engineVars, wait, rested, attempts, history>>

\* The second command raises: no engine, and no quiet time either.
RecoveryFailsLate ==
    /\ step = "recovery"
    /\ step' = "loop" /\ Sleep
    /\ UNCHANGED <<engineVars, rested, attempts, history>>

EngineStep ==
    \/ Boot \/ PulseBegins \/ PulseEnds \/ Die
    \/ \E s \in Symbols : Connect(s) \/ Disconnect(s)

DaemonStep ==
    \/ LookWhileQuiet \/ LookAtEmptyFile \/ LookNominal \/ StandDown
    \/ BeginRecovery \/ RecoveryFailsAtOnce
    \/ CompleteRecovery \/ RecoveryUnlogged \/ RecoveryFailsLate

Next == Clock \/ EngineStep \/ DaemonStep

Spec == Init /\ [][Next]_vars

\* Time goes on and the supervisor's loop with it; nothing is asked of the
\* engine.
FairSpec == Spec /\ WF_vars(Clock) /\ WF_vars(DaemonStep)
=============================================================================
