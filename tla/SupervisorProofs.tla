-------------------------- MODULE SupervisorProofs --------------------------
(***************************************************************************)
(* Proofs about the supervisor, for any thresholds and any symbols.         *)
(***************************************************************************)
EXTENDS SupervisorProps, TLAPS

\* A recovery since the last pulse means that the pulse is too old, as it was
\* when the recovery began and only a pulse makes it young again.
FruitlessIsStale == fruitless > 0 => age = TooOld

\* last_recovery_time is when the supervisor started the engine, unless it could
\* not log that; then its sleep is what the engine is left.
QuietIsCounted ==
    /\ ~unlogged => rested = sinceStart
    /\ unlogged => sinceStart + wait >= Poll

\* Between the end of the old process and the start of the new one there is none.
RecoveryIsDown == step = "recovery" => engine = "dead"

IInv == TypeOK /\ BreakerHolds /\ FruitlessIsStale /\ QuietIsCounted /\ RecoveryIsDown

\* Counting stops at the limit.
LEMMA OlderBounds ==
    ASSUME NEW limit \in Nat, NEW n \in 0..limit
    PROVE  Older(n, limit) \in 0..limit /\ (n = limit => Older(n, limit) = limit)
  BY DEF Older

LEMMA InitInv == Init => IInv
<1>1. Init => TypeOK
  <2>1. /\ TooOld \in 0..TooOld /\ Quiet \in 0..Quiet
        /\ 0 \in 0..Poll /\ 0 \in 0..MaxAttempts
    BY SupervisorAssumption DEF TooOld
  <2> SUFFICES ASSUME Init PROVE TypeOK
    OBVIOUS
  <2>2. /\ age \in 0..TooOld /\ wait \in 0..Poll /\ rested \in 0..Quiet
        /\ attempts \in 0..MaxAttempts /\ fruitless \in Nat /\ sinceStart \in 0..Quiet
    BY <2>1 DEF Init
  <2>3. /\ engine = "dead" /\ streaming = {} /\ file = "pulse" /\ step = "loop"
        /\ session \in BOOLEAN /\ unlogged \in BOOLEAN
    BY DEF Init
  <2>. QED
    BY <2>2, <2>3 DEF TypeOK
<1>2. Init => BreakerHolds /\ FruitlessIsStale /\ RecoveryIsDown
  BY SupervisorAssumption DEF Init, BreakerHolds, FruitlessIsStale, RecoveryIsDown
<1>3. Init => QuietIsCounted
  BY DEF Init, QuietIsCounted
<1>. QED
  BY <1>1, <1>2, <1>3 DEF IInv

LEMMA ClockKeepsInv ==
    ASSUME IInv, Clock
    PROVE  IInv'
<1>1. {Poll, Stale, Quiet, TooOld} \subseteq Nat
  BY SupervisorAssumption DEF TooOld
<1>2. /\ age' \in 0..TooOld /\ (age = TooOld => age' = TooOld)
      /\ rested' \in 0..Quiet /\ sinceStart' \in 0..Quiet
  BY <1>1, OlderBounds DEF IInv, TypeOK, Clock
<1>3. wait' \in 0..Poll
  BY <1>1 DEF IInv, TypeOK, Clock
<1>4. QuietIsCounted'
  <2>1. unlogged' = unlogged /\ (rested = sinceStart => rested' = sinceStart')
    BY DEF Clock
  <2>2. sinceStart + wait >= Poll => sinceStart' + wait' >= Poll
    BY <1>1, SupervisorAssumption DEF IInv, TypeOK, Clock, Older
  <2>. QED
    BY <2>1, <2>2 DEF IInv, QuietIsCounted
<1>. QED
  BY <1>2, <1>3, <1>4 DEF IInv, TypeOK, BreakerHolds, FruitlessIsStale, QuietIsCounted,
                            RecoveryIsDown, Clock

\* Nothing the engine does counts as an attempt; its pulse settles all of them.
LEMMA EngineKeepsInv ==
    ASSUME IInv, EngineStep
    PROVE  IInv'
<1> USE DEF IInv, TypeOK, BreakerHolds, FruitlessIsStale, QuietIsCounted, RecoveryIsDown
<1>1. CASE Boot
  BY <1>1 DEF Boot, daemonVars, history
<1>2. CASE PulseBegins
  BY <1>2 DEF PulseBegins, daemonVars, history
<1>3. CASE PulseEnds
  BY <1>3, SupervisorAssumption DEF PulseEnds, daemonVars, TooOld
<1>4. CASE Die
  BY <1>4 DEF Die, daemonVars, history
<1>5. ASSUME NEW s \in Symbols, Connect(s) \/ Disconnect(s) PROVE IInv'
  BY <1>5 DEF Connect, Disconnect, daemonVars, history
<1>. QED
  BY <1>1, <1>2, <1>3, <1>4, <1>5 DEF EngineStep

\* A look that leads to no recovery.  The counter is only cleared when the pulse
\* is fresh, and then no recovery has been fruitless.
LEMMA LookKeepsInv ==
    ASSUME IInv, LookWhileQuiet \/ LookAtEmptyFile \/ LookNominal \/ StandDown
    PROVE  IInv'
<1> USE DEF IInv, TypeOK, BreakerHolds, FruitlessIsStale, QuietIsCounted, RecoveryIsDown
<1>1. wait' = Poll /\ Poll \in 0..Poll /\ Poll \in Nat
  BY SupervisorAssumption DEF LookWhileQuiet, LookAtEmptyFile, LookNominal, StandDown, Sleep
<1>2. CASE LookNominal
  <2>1. attempts' \in 0..MaxAttempts /\ fruitless' = fruitless
    BY <1>2, SupervisorAssumption DEF LookNominal, history
  <2>2. age \in Nat /\ age <= Stale /\ Stale \in Nat
    BY <1>2, SupervisorAssumption DEF LookNominal, TooOld
  <2>3. fruitless = 0
    BY <2>2 DEF TooOld
  <2>4. fruitless' = 0 /\ fruitless' <= attempts'
    BY <2>1, <2>3, SupervisorAssumption
  <2>. QED
    BY <1>1, <1>2, <2>1, <2>4 DEF LookNominal, engineVars, history
<1>3. CASE LookWhileQuiet \/ LookAtEmptyFile \/ StandDown
  BY <1>1, <1>3 DEF LookWhileQuiet, LookAtEmptyFile, StandDown, engineVars, history
<1>. QED
  BY <1>2, <1>3

\* A recovery begins at a pulse that is too old, and counts on both sides.
LEMMA AttemptKeepsInv ==
    ASSUME IInv, BeginRecovery \/ RecoveryFailsAtOnce
    PROVE  IInv'
<1> USE DEF IInv, TypeOK, BreakerHolds, FruitlessIsStale, QuietIsCounted, RecoveryIsDown
<1>1. /\ SeesStale /\ attempts < MaxAttempts
      /\ attempts' = attempts + 1 /\ fruitless' = fruitless + 1
      /\ sinceStart' = sinceStart /\ unlogged' = unlogged
  BY DEF BeginRecovery, RecoveryFailsAtOnce, CountAttempt
<1>2. age = TooOld
  BY <1>1, SupervisorAssumption DEF SeesStale, TooOld
<1>3. /\ attempts' \in 0..MaxAttempts /\ fruitless' \in Nat /\ fruitless' <= attempts'
  BY <1>1, SupervisorAssumption
<1>4. CASE BeginRecovery
  BY <1>1, <1>2, <1>3, <1>4 DEF BeginRecovery
<1>5. CASE RecoveryFailsAtOnce
  <2>1. wait' = Poll /\ Poll \in 0..Poll /\ Poll \in Nat
    BY <1>5, SupervisorAssumption DEF RecoveryFailsAtOnce, Sleep
  <2>. QED
    BY <1>1, <1>2, <1>3, <1>5, <2>1 DEF RecoveryFailsAtOnce, engineVars
<1>. QED
  BY <1>4, <1>5

LEMMA RecoveryEndKeepsInv ==
    ASSUME IInv, CompleteRecovery \/ RecoveryUnlogged \/ RecoveryFailsLate
    PROVE  IInv'
<1> USE DEF IInv, TypeOK, BreakerHolds, FruitlessIsStale, QuietIsCounted, RecoveryIsDown
<1>1. wait' \in 0..Poll /\ wait' = Poll /\ Poll \in Nat /\ 0 \in 0..Quiet
  BY SupervisorAssumption DEF CompleteRecovery, RecoveryUnlogged, RecoveryFailsLate, Sleep
<1>2. CASE CompleteRecovery
  BY <1>1, <1>2 DEF CompleteRecovery
<1>3. CASE RecoveryUnlogged
  BY <1>1, <1>3 DEF RecoveryUnlogged
<1>4. CASE RecoveryFailsLate
  BY <1>1, <1>4 DEF RecoveryFailsLate, engineVars, history
<1>. QED
  BY <1>2, <1>3, <1>4

LEMMA StepKeepsInv ==
    ASSUME IInv, [Next]_vars
    PROVE  IInv'
<1>1. CASE UNCHANGED vars
  BY <1>1 DEF vars, IInv, TypeOK, BreakerHolds, FruitlessIsStale, QuietIsCounted, RecoveryIsDown
<1>. QED
  BY <1>1, ClockKeepsInv, EngineKeepsInv, LookKeepsInv, AttemptKeepsInv, RecoveryEndKeepsInv
     DEF Next, DaemonStep

LEMMA Invariance == Spec => []IInv
  BY InitInv, StepKeepsInv, PTL DEF Spec

-----------------------------------------------------------------------------
\* Types, and recovery_counter never above max_recovery_attempts.
THEOREM SupervisorTypeCorrect == Spec => []TypeOK
  BY Invariance, PTL DEF IInv

\* The circuit breaker cannot be cheated (recovery_counter and its reset).
THEOREM BreakerNotCheated == Spec => []BreakerHolds
  BY Invariance, PTL DEF IInv

\* No attempt within the quiet time of a restart (last_recovery_time), nor within
\* the sleep that follows a restart that could not be logged.
THEOREM QuietTimeKept == Spec => RestartsAreSpaced
<1> DEFINE Spaced == attempts' > attempts => sinceStart >= (IF unlogged THEN Poll ELSE Quiet)
<1>1. IInv /\ [Next]_vars => Spaced
  <2> SUFFICES ASSUME IInv, [Next]_vars, attempts' > attempts
               PROVE  sinceStart >= (IF unlogged THEN Poll ELSE Quiet)
    OBVIOUS
  <2>1. attempts \in Nat /\ sinceStart \in Nat /\ {Poll, Quiet} \subseteq Nat
    BY SupervisorAssumption DEF IInv, TypeOK
  <2>2. CASE BeginRecovery \/ RecoveryFailsAtOnce
    <3>1. rested = Quiet /\ wait = 0
      BY <2>2 DEF BeginRecovery, RecoveryFailsAtOnce, SeesStale, Looks
    <3>. QED
      BY <2>1, <3>1 DEF IInv, QuietIsCounted
  <2>3. CASE LookNominal
    BY <2>1, <2>3 DEF LookNominal
  <2>4. CASE attempts' = attempts
    BY <2>1, <2>4
  <2>5. \/ BeginRecovery \/ RecoveryFailsAtOnce \/ LookNominal
        \/ attempts' = attempts
    BY DEF Next, Clock, EngineStep, DaemonStep, Boot, PulseBegins, PulseEnds, Die, Connect,
           Disconnect, LookWhileQuiet, LookAtEmptyFile, StandDown, CompleteRecovery,
           RecoveryUnlogged, RecoveryFailsLate, vars, daemonVars
  <2>. QED
    BY <2>2, <2>3, <2>4, <2>5
<1>2. IInv /\ [Next]_vars => [Spaced]_vars
  BY <1>1
<1>. QED
  BY <1>2, Invariance, PTL DEF Spec, RestartsAreSpaced
=============================================================================
