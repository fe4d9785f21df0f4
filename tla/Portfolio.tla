------------------------------ MODULE Portfolio ------------------------------
(***************************************************************************)
(* The portfolio simulators of v2 and v3. Each takes a ledger of finished  *)
(* trades, made beforehand by the bar loops of ResearchPrograms, and asks  *)
(* what one account would have made of it. A desk is one simulator: how    *)
(* its clock moves, what limits the risk of new positions, how it scales   *)
(* risk down in a drawdown and when it measures that drawdown.             *)
(*                                                                         *)
(* Money is whole units; risk is in parts of Whole; scales and drawdowns   *)
(* are in parts of Unit, rounded down. The code adds up current_heat from   *)
(* active_positions at every tick; here it is kept as positions come and   *)
(* go, and HeatCapped (PortfolioProps) says that it is that sum.           *)
(***************************************************************************)
EXTENDS Integers, FiniteSets

CONSTANTS Trades,      \* the finished trades of the ledger
          Ledgers,     \* ledgers: functions from Trades to trade records
          Desks,       \* the simulators
          Weights,     \* weights of an asset in a replay, in parts of Unit
          Friction,    \* fees, slippage and funding of a trade, in parts of Unit of its stake
          Initial,     \* initial_balance
          Whole,       \* the whole balance, in units of risk
          Slot,        \* target_risk_slot: the risk of one trade
          HeatCap      \* max_portfolio_heat

Unit == 10000
Share == 0 .. Unit
Tiers == 0 .. 4

TradeRecord == [entry : Nat, exit : Nat, score : Nat, mult : Int]
Desk == [clock : {"entries", "events", "replay"}, order : {"exit", "any"},
         limit : {"heat", "bucket", "none"}, measured : {"before", "after", "never"},
         weighted : BOOLEAN, costs : BOOLEAN, scale : [Tiers -> Share]]

\* Trades last a bar and lose no more than their risk (risk_mult is -1.0 at the
\* stop). A desk without a clock has nothing to share between positions, and a
\* desk that halts has a heat limit or takes one trade at a time.
ASSUME PortfolioAssumption ==
    /\ IsFiniteSet(Trades)
    /\ Initial \in Nat \ {0} /\ Whole \in Nat \ {0} /\ Slot \in 0 .. Whole
    /\ HeatCap \in 0 .. Whole
    /\ Weights \subseteq Share /\ Friction \in Nat
    /\ Desks \subseteq Desk
    /\ \A d \in Desks :
        /\ d.limit # "none" => d.clock # "replay"
        /\ d.scale[4] = 0 => d.limit = "heat" \/ d.clock = "replay"
    /\ Ledgers \subseteq [Trades -> TradeRecord]
    /\ \A l \in Ledgers, t \in Trades : l[t].entry < l[t].exit /\ l[t].mult >= -1

VARIABLES desk,        \* the simulator of this run
          ledger,      \* df_ledger
          phase,       \* where in the loop body it is
          now,         \* current_tick
          status,      \* where each trade is: still to come, a candidate, in active_positions, ...
          risk,        \* risk_budget_pct of a position
          capital,     \* allocated_risk_capital of a position
          heat,        \* current_heat
          available,   \* available_heat, or what is left of the factor bucket
          rivals,      \* len(scored_candidates)
          balance, peak,
          dd,          \* current_dd
          maxdd        \* max_dd

vars == <<desk, ledger, phase, now, status, risk, capital, heat, available, rivals,
          balance, peak, dd, maxdd>>

Status == {"waiting", "candidate", "open", "settled", "passed"}

In(s) == {t \in Trades : status[t] = s}

\* max
Higher(a, b) == IF a >= b THEN a ELSE b

\* current_dd
Drawdown(b, p) == ((p - b) * Unit) \div p

\* Faulty variant: the drawdown is not looked at.
Tier_Ignored(d) == 0

\* The steps of the risk firewall.
Tier(d) == IF d >= 2500 THEN 4
           ELSE IF d >= 2000 THEN 3
           ELSE IF d >= 1500 THEN 2
           ELSE IF d >= 1000 THEN 1 ELSE 0

\* risk_scale
Scale(d) == desk.scale[Tier(d)]

\* Faulty variant: the clock of a discrete event engine stops at entries only.
Ticks_NoExits == {ledger[t].entry : t \in Trades}

\* unified_timeline, or unique_entry_times
Ticks == {ledger[t].entry : t \in Trades}
            \cup IF desk.clock = "events" THEN {ledger[t].exit : t \in Trades} ELSE {}

-----------------------------------------------------------------------------

Init ==
    /\ desk \in Desks
    /\ ledger \in Ledgers
    /\ phase = "next" /\ now = 0
    /\ status = [t \in Trades |-> "waiting"]
    /\ risk = [t \in Trades |-> 0] /\ capital = [t \in Trades |-> 0]
    /\ heat = 0 /\ available = 0 /\ rivals = 0
    /\ balance = Initial /\ peak = Initial
    /\ dd = 0 /\ maxdd = 0

\* The clock goes to the next tick of the timeline.
NextTick ==
    /\ desk.clock # "replay" /\ phase = "next"
    /\ \E n \in Ticks :
        /\ n > now
        /\ ~ \E k \in Ticks : now < k /\ k < n
        /\ now' = n
    /\ phase' = "settle"
    /\ UNCHANGED <<desk, ledger, status, risk, capital, heat, available, rivals,
                   balance, peak, dd, maxdd>>

\* Faulty variant: a position whose exit is the current tick waits for the next.
Due_Later(t) == status[t] = "open" /\ ledger[t].exit < now

Due(t) == status[t] = "open" /\ ledger[t].exit <= now

\* One position leaves active_positions.
Settle(t) ==
    /\ phase = "settle" /\ Due(t)
    /\ status' = [status EXCEPT ![t] = "settled"]
    /\ balance' = balance + capital[t] * ledger[t].mult
    /\ heat' = heat - risk[t]
    /\ UNCHANGED <<desk, ledger, phase, now, risk, capital, available, rivals,
                   peak, dd, maxdd>>

\* Faulty variant: the peak follows the balance down.
Measure_Forgets(b) ==
    /\ peak' = b
    /\ dd' = Drawdown(b, peak')
    /\ maxdd' = Higher(maxdd, dd')

\* The drawdown from the highest balance so far. (A desk that never measures
\* it has one scale only, or takes it for the scale and does not report it.)
Measure(b) ==
    /\ peak' = Higher(peak, b)
    /\ dd' = Drawdown(b, peak')
    /\ maxdd' = Higher(maxdd, dd')

\* Faulty variant: the positions that are open are left out.
Allowance_Whole == IF desk.limit = "heat" THEN HeatCap ELSE IF desk.limit = "bucket" THEN Slot ELSE Whole

\* What new positions may still risk at this tick.
Allowance ==
    CASE desk.limit = "heat"   -> HeatCap - heat
      [] desk.limit = "bucket" -> Slot
      [] desk.limit = "none"   -> Whole

Signals == {t \in Trades : status[t] = "waiting" /\ ledger[t].entry = now}

\* Faulty variant: ticks without a signal are skipped before the drawdown is measured.
Survey_Idle ==
    /\ phase = "settle"
    /\ ~ \E t \in Trades : Due(t)
    /\ IF Signals # {} THEN Measure(balance) ELSE UNCHANGED <<peak, dd, maxdd>>
    /\ available' = Allowance
    /\ rivals' = Cardinality(Signals)
    /\ status' = [t \in Trades |->
                    IF t \notin Signals THEN status[t]
                    ELSE IF available' > 0 THEN "candidate" ELSE "passed"]
    /\ phase' = IF Signals # {} /\ available' > 0 THEN "allocate" ELSE "next"
    /\ UNCHANGED <<desk, ledger, now, risk, capital, heat, balance>>

\* All that was due is settled: the drawdown is measured and the signals of
\* the tick become candidates, or are passed over when no heat is left.
Survey ==
    /\ phase = "settle"
    /\ ~ \E t \in Trades : Due(t)
    /\ Measure(balance)
    /\ available' = Allowance
    /\ rivals' = Cardinality(Signals)
    /\ status' = [t \in Trades |->
                    IF t \notin Signals THEN status[t]
                    ELSE IF available' > 0 THEN "candidate" ELSE "passed"]
    /\ phase' = IF Signals # {} /\ available' > 0 THEN "allocate" ELSE "next"
    /\ UNCHANGED <<desk, ledger, now, risk, capital, heat, balance>>

\* The best score first.
First(t) == status[t] = "candidate" /\ \A u \in In("candidate") : ledger[u].score <= ledger[t].score

\* Faulty variant: the bucket is not divided among the candidates.
Slice_Undivided == Slot

\* Faulty variant: a candidate takes all that is left.
Slice_All == IF desk.limit = "none" THEN Slot ELSE available

\* allocated_risk
Slice ==
    LET wanted == IF desk.limit = "bucket" THEN Slot \div rivals ELSE Slot
    IN  IF desk.limit = "none" \/ available >= wanted THEN wanted ELSE available

\* final_risk_pct
FinalRisk == (Slice * Scale(dd)) \div Unit

\* Heat is used up by the scaled risk, the bucket by the unscaled one.
Used == IF desk.limit = "heat" THEN FinalRisk ELSE IF desk.limit = "bucket" THEN Slice ELSE 0

\* One candidate gets its position, as long as something is left.
Allocate(t) ==
    /\ phase = "allocate" /\ First(t)
    /\ available > 0 /\ FinalRisk > 0
    /\ status' = [status EXCEPT ![t] = "open"]
    /\ risk' = [risk EXCEPT ![t] = FinalRisk]
    /\ capital' = [capital EXCEPT ![t] = (balance * FinalRisk) \div Whole]
    /\ heat' = heat + FinalRisk
    /\ available' = available - Used
    /\ UNCHANGED <<desk, ledger, phase, now, rivals, balance, peak, dd, maxdd>>

\* Nothing is left for it: break, or continue with a risk of zero.
PassOver(t) ==
    /\ phase = "allocate" /\ First(t)
    /\ ~ (available > 0 /\ FinalRisk > 0)
    /\ status' = [status EXCEPT ![t] = "passed"]
    /\ UNCHANGED <<desk, ledger, phase, now, risk, capital, heat, available, rivals,
                   balance, peak, dd, maxdd>>

EndTick ==
    /\ phase = "allocate" /\ In("candidate") = {}
    /\ phase' = "next"
    /\ UNCHANGED <<desk, ledger, now, status, risk, capital, heat, available, rivals,
                   balance, peak, dd, maxdd>>

\* The simulators without a clock take one trade after the other, in the order
\* of the exits, or as drawn (the ledger is then the sample that was drawn):
\* risk and result of a trade in one iteration.
Replay(t) ==
    /\ desk.clock = "replay" /\ phase = "next" /\ status[t] = "waiting"
    /\ desk.order = "exit" => \A u \in In("waiting") : ledger[t].exit <= ledger[u].exit
    /\ \E w \in Weights :
        LET before == Drawdown(balance, Higher(peak, balance))
            final  == (((Slot * Scale(before)) \div Unit) * w) \div Unit
            stake  == (balance * final) \div Whole
            cost   == IF desk.costs THEN (stake * Friction) \div Unit ELSE 0
        IN  /\ desk.weighted \/ w = Unit
            /\ risk' = [risk EXCEPT ![t] = final]
            /\ capital' = [capital EXCEPT ![t] = stake]
            /\ balance' = balance + (stake * ledger[t].mult - cost)
    /\ status' = [status EXCEPT ![t] = "settled"]
    /\ Measure(IF desk.measured = "before" THEN balance ELSE balance')
    /\ UNCHANGED <<desk, ledger, phase, now, heat, available, rivals>>

\* The loop is over.
Finished ==
    /\ phase = "next"
    /\ IF desk.clock = "replay" THEN In("waiting") = {} ELSE \A n \in Ticks : n <= now

Done == Finished /\ UNCHANGED vars

Next ==
    \/ NextTick \/ Survey \/ EndTick \/ Done
    \/ \E t \in Trades : Settle(t) \/ Allocate(t) \/ PassOver(t) \/ Replay(t)

Spec == Init /\ [][Next]_vars

=============================================================================
