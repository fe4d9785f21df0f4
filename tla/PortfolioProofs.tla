---------------------------- MODULE PortfolioProofs ----------------------------
(***************************************************************************)
(* Proofs of what PortfolioProps states, for every ledger, slot, cap, set  *)
(* of weights and desks.                                                   *)
(***************************************************************************)
EXTENDS PortfolioProps, FiniteSums, TLAPS

\* What holds of a desk's clock and of its candidates.
Timely ==
    /\ \A t \in Trades :
        /\ status[t] = "candidate" => phase = "allocate" /\ ledger[t].entry = now /\ rivals > 0
        /\ status[t] = "open" => /\ phase # "settle" => ledger[t].exit > now
                                 /\ desk.clock = "events" => ledger[t].exit >= now
                                 /\ desk.clock # "replay"
    /\ phase # "next" => desk.clock # "replay"

\* What the allocation of a tick goes by.
Surveyed ==
    phase = "allocate" =>
        /\ balance <= peak /\ dd = Drawdown(balance, peak)
        /\ desk.limit = "heat" => heat + available = HeatCap

IInv == TypeOK /\ Timely /\ Surveyed /\ HeatWithin

\* A share of an amount is between nothing and the amount.
LEMMA Prorated ==
    ASSUME NEW a \in Nat, NEW s \in Share
    PROVE  /\ (a * s) \div Unit \in Nat
           /\ (a * s) \div Unit <= a
<1> DEFINE x == a * s
<1>1. s \in Nat /\ s <= 10000
    BY DEF Share, Unit
<1>2. x \in Nat /\ x <= a * 10000
    BY <1>1
<1> HIDE DEF x
<1>3. x \div 10000 \in Nat /\ x \div 10000 <= a
    BY <1>2
<1> QED
    BY <1>3 DEF x, Unit

\* The scale of a desk is a share, and no share at all at a drawdown of 25%
\* where the desk halts.
LEMMA ScaleIsShare ==
    ASSUME TypeOK, NEW d \in Int
    PROVE  /\ Scale(d) \in Share
           /\ Halts /\ d >= 2500 => Scale(d) = 0
<1>1. Tier(d) \in Tiers /\ (d >= 2500 => Tier(d) = 4)
    BY DEF Tier, Tiers
<1>2. desk \in Desk
    BY PortfolioAssumption DEF TypeOK
<1>3. desk.scale \in [Tiers -> Share]
    BY <1>2 DEF Desk
<1>4. desk.scale[Tier(d)] \in Share
    BY <1>1, <1>3
<1>5. Scale(d) \in Share
    BY <1>4 DEF Scale
<1>6. ASSUME Halts, d >= 2500 PROVE Scale(d) = 0
    <2>1. Tier(d) = 4
        BY <1>1, <1>6
    <2> QED
        BY <2>1, <1>6 DEF Scale, Halts
<1> QED
    BY <1>5, <1>6

\* A drawdown is a number, not negative below the peak and none at the peak.
LEMMA DrawdownIsNumber ==
    ASSUME NEW b \in Int, NEW p \in Nat \ {0}
    PROVE  /\ Drawdown(b, p) \in Int
           /\ b <= p => Drawdown(b, p) >= 0
           /\ b = p => Drawdown(b, p) = 0
<1> USE DEF Unit
<1>1. (p - b) * 10000 \in Int
    OBVIOUS
<1>2. Drawdown(b, p) \in Int
    BY <1>1 DEF Drawdown
<1>3. ASSUME b <= p PROVE Drawdown(b, p) >= 0
    <2>1. (p - b) * 10000 \in Nat
        BY <1>3
    <2> QED
        BY <2>1 DEF Drawdown
<1>4. ASSUME b = p PROVE Drawdown(b, p) = 0
    <2>1. (p - b) * 10000 = 0
        BY <1>4
    <2> QED
        BY <2>1 DEF Drawdown
<1> QED
    BY <1>2, <1>3, <1>4

\* Measuring keeps the types, takes the peak to the balance and the maximum
\* to the drawdown.
LEMMA MeasureKeepsTypes ==
    ASSUME TypeOK, NEW b \in Int, Measure(b)
    PROVE  /\ peak' \in Nat \ {0} /\ dd' \in Int /\ maxdd' \in Nat
           /\ b <= peak' /\ dd' = Drawdown(b, peak')
           /\ peak >= b => peak' = peak
<1>1. peak' \in Nat \ {0} /\ b <= peak' /\ (peak >= b => peak' = peak)
    BY DEF Measure, Higher, TypeOK
<1>2. dd' \in Int /\ dd' >= 0
    BY <1>1, DrawdownIsNumber DEF Measure
<1> QED
    BY <1>1, <1>2 DEF Measure, Higher, TypeOK

\* A slice is part of the slot.
LEMMA SliceIsPart ==
    ASSUME TypeOK, available > 0, rivals > 0
    PROVE  /\ Slice \in 0 .. Slot
           /\ desk.limit = "heat" => Slice <= available
<1>1. Slot \in Nat /\ available \in Nat /\ rivals \in Nat
    BY PortfolioAssumption DEF TypeOK
<1>2. Slot \div rivals \in 0 .. Slot
    <2>1. Slot <= Slot * rivals
        BY <1>1
    <2> QED
        BY <1>1, <2>1
<1> QED
    BY <1>1, <1>2 DEF Slice

\* The risk of a position is part of its slice.
LEMMA FinalRiskIsPart ==
    ASSUME TypeOK, available > 0, rivals > 0
    PROVE  /\ Slice \in 0 .. Slot
           /\ FinalRisk \in 0 .. Slot /\ FinalRisk <= Slice
           /\ desk.limit = "heat" => FinalRisk <= available
<1>1. Slice \in 0 .. Slot /\ (desk.limit = "heat" => Slice <= available)
    BY SliceIsPart
<1>2. Slot \in Nat /\ Slice \in Nat /\ dd \in Int /\ available \in Int
    BY <1>1, PortfolioAssumption DEF TypeOK
<1>3. Scale(dd) \in Share
    BY <1>2, ScaleIsShare
<1>4. FinalRisk \in Nat /\ FinalRisk <= Slice
    BY <1>2, <1>3, Prorated DEF FinalRisk
<1> QED
    BY <1>1, <1>2, <1>4

\* The trades of a ledger have their types and last at least one bar.
LEMMA LedgerIsTyped ==
    ASSUME TypeOK, NEW t \in Trades
    PROVE  /\ ledger[t].entry \in Nat /\ ledger[t].exit \in Nat
           /\ ledger[t].mult \in Int /\ ledger[t].entry < ledger[t].exit
           /\ ledger[t].mult >= -1
<1>1. ledger \in Ledgers /\ ledger \in [Trades -> TradeRecord]
    BY PortfolioAssumption DEF TypeOK
<1>2. ledger[t] \in TradeRecord
    BY <1>1
<1>3. ledger[t].entry < ledger[t].exit /\ ledger[t].mult >= -1
    BY <1>1, PortfolioAssumption
<1> QED
    BY <1>2, <1>3 DEF TradeRecord

\* The counts of signals are numbers, and positive where there is a signal.
LEMMA SignalsAreCounted ==
    /\ Cardinality(Signals) \in Nat
    /\ Signals # {} => Cardinality(Signals) > 0
<1>1. IsFiniteSet(Signals)
    BY PortfolioAssumption, FS_Subset DEF Signals
<1> QED
    BY <1>1, FS_CardinalityType, FS_EmptySet

LEMMA InitHolds ==
    ASSUME Init
    PROVE  IInv
<1>1. TypeOK
    BY PortfolioAssumption DEF Init, TypeOK, Status
<1>2. Timely /\ Surveyed
    BY DEF Init, Timely, Surveyed
<1>3. HeatWithin
    BY PortfolioAssumption DEF Init, HeatWithin
<1> QED
    BY <1>1, <1>2, <1>3 DEF IInv

LEMMA NextTickKeeps ==
    ASSUME IInv, NextTick
    PROVE  IInv'
<1>1. TypeOK /\ phase = "next" /\ phase' = "settle"
    BY DEF IInv, NextTick
<1>2. PICK n \in Ticks : /\ n > now /\ now' = n
                         /\ ~ \E k \in Ticks : now < k /\ k < n
    BY DEF NextTick
<1>3. Ticks \subseteq Nat
    BY <1>1, LedgerIsTyped DEF Ticks
<1>4. TypeOK'
    BY <1>1, <1>2, <1>3 DEF NextTick, TypeOK
<1>5. Timely'
    <2>1. SUFFICES ASSUME NEW t \in Trades, status[t] = "open", desk.clock = "events"
                   PROVE  ledger[t].exit >= now'
        BY <1>1 DEF IInv, Timely, NextTick
    <2>2. ledger[t].exit \in Ticks /\ ledger[t].exit > now
        BY <1>1, <2>1 DEF IInv, Timely, Ticks
    <2>3. ledger[t].exit \in Nat /\ n \in Nat
        BY <1>1, <1>3, LedgerIsTyped
    <2> QED
        BY <1>2, <2>2, <2>3
<1>6. Surveyed' /\ HeatWithin'
    BY DEF IInv, NextTick, Surveyed, HeatWithin
<1> QED
    BY <1>4, <1>5, <1>6 DEF IInv

LEMMA SettleKeeps ==
    ASSUME IInv, NEW t \in Trades, Settle(t)
    PROVE  IInv'
<1> DEFINE pnl == capital[t] * ledger[t].mult
<1>1. TypeOK /\ phase = "settle" /\ phase' = "settle"
    BY DEF IInv, Settle
<1>2. pnl \in Int /\ risk[t] \in 0 .. Slot
    <2>1. capital[t] \in Int /\ ledger[t].mult \in Int /\ risk[t] \in 0 .. Slot
        BY <1>1, LedgerIsTyped DEF TypeOK
    <2> QED
        BY <2>1
<1>3. balance' \in Int
    <2>1. balance' = balance + pnl
        BY DEF Settle
    <2> HIDE DEF pnl
    <2> QED
        BY <1>1, <1>2, <2>1 DEF TypeOK
<1>4. heat' = heat - risk[t] /\ heat' \in Int /\ heat' <= heat
    BY <1>1, <1>2, PortfolioAssumption DEF Settle, TypeOK
<1>5. TypeOK'
    BY <1>1, <1>3, <1>4 DEF Settle, TypeOK, Status
<1>6. Timely'
    BY <1>1 DEF IInv, Timely, Settle, TypeOK
<1>7. Surveyed' /\ HeatWithin'
    BY <1>1, <1>4, PortfolioAssumption DEF IInv, Surveyed, HeatWithin, Settle, TypeOK
<1> QED
    BY <1>5, <1>6, <1>7 DEF IInv

LEMMA SurveyKeeps ==
    ASSUME IInv, Survey
    PROVE  IInv'
<1>1. TypeOK /\ phase = "settle" /\ phase' \in {"allocate", "next"}
    BY DEF IInv, Survey
<1>2. /\ peak' \in Nat \ {0} /\ dd' \in Int /\ maxdd' \in Nat
      /\ balance <= peak' /\ dd' = Drawdown(balance, peak')
    <2>1. balance \in Int /\ Measure(balance)
        BY <1>1 DEF TypeOK, Survey
    <2> QED
        BY <1>1, <2>1, MeasureKeepsTypes
<1>3. /\ available' = Allowance /\ available' \in Int
      /\ desk.limit = "heat" => available' = HeatCap - heat
    <2>1. desk.limit \in {"heat", "bucket", "none"}
        BY <1>1, PortfolioAssumption DEF TypeOK, Desk
    <2>2. HeatCap \in Int /\ Slot \in Int /\ Whole \in Int /\ heat \in Int
        BY <1>1, PortfolioAssumption DEF TypeOK
    <2>3. available' = Allowance
        BY DEF Survey
    <2>4. desk.limit = "heat" => Allowance = HeatCap - heat
        BY DEF Allowance
    <2>5. desk.limit = "bucket" => Allowance = Slot
        BY DEF Allowance
    <2>6. desk.limit = "none" => Allowance = Whole
        BY DEF Allowance
    <2> QED
        BY <2>1, <2>2, <2>3, <2>4, <2>5, <2>6
<1>4. rivals' \in Nat /\ (Signals # {} => rivals' > 0)
    BY SignalsAreCounted DEF Survey
<1>5. status' \in [Trades -> Status]
    BY <1>1 DEF Survey, TypeOK, Status
<1>6. TypeOK'
    BY <1>1, <1>2, <1>3, <1>4, <1>5 DEF Survey, TypeOK
<1>7. Timely'
    <2>1. desk' = desk /\ ledger' = ledger /\ now' = now /\ desk.clock # "replay"
        BY <1>1 DEF Survey, IInv, Timely
    <2>2. ASSUME NEW t \in Trades, status'[t] = "candidate"
          PROVE  phase' = "allocate" /\ ledger[t].entry = now /\ rivals' > 0
        <3>1. t \in Signals /\ available' > 0
            BY <1>1, <2>2 DEF Survey, IInv, Timely
        <3> QED
            BY <1>4, <3>1 DEF Survey, Signals
    <2>3. ASSUME NEW t \in Trades, status'[t] = "open"
          PROVE  ledger[t].exit > now
        <3>1. status[t] = "open"
            BY <2>3 DEF Survey
        <3>2. ~ (ledger[t].exit <= now)
            BY <3>1 DEF Survey, Due
        <3> QED
            BY <1>1, <3>2, LedgerIsTyped DEF TypeOK
    <2>4. ASSUME NEW t \in Trades, status'[t] = "open"
          PROVE  ledger[t].exit >= now
        BY <1>1, <2>3, <2>4, LedgerIsTyped DEF TypeOK
    <2> QED
        BY <2>1, <2>2, <2>3, <2>4 DEF Timely
<1>8. Surveyed'
    <2>1. balance' = balance /\ heat' = heat /\ desk' = desk
        BY DEF Survey
    <2>2. dd' = Drawdown(balance', peak')
        BY <1>2, <2>1
    <2>3. desk'.limit = "heat" => heat' + available' = HeatCap
        BY <1>1, <1>3, <2>1, PortfolioAssumption DEF TypeOK
    <2> QED
        BY <1>2, <2>1, <2>2, <2>3 DEF Surveyed, Drawdown
<1>9. HeatWithin'
    BY DEF IInv, Survey, HeatWithin
<1> QED
    BY <1>6, <1>7, <1>8, <1>9 DEF IInv

LEMMA AllocateKeeps ==
    ASSUME IInv, NEW t \in Trades, Allocate(t)
    PROVE  IInv'
<1>1. TypeOK /\ phase = "allocate" /\ phase' = "allocate" /\ status[t] = "candidate"
    BY DEF IInv, Allocate, First
<1>2. available > 0 /\ rivals > 0 /\ ledger[t].entry = now
    BY <1>1 DEF Allocate, IInv, Timely
<1>3. /\ Slice \in 0 .. Slot
      /\ FinalRisk \in 0 .. Slot
      /\ desk.limit = "heat" => FinalRisk <= available
    BY <1>1, <1>2, FinalRiskIsPart
<1>4. capital'[t] \in Int /\ capital' \in [Trades -> Int]
    <2> DEFINE x == balance * FinalRisk
    <2>1. x \in Int
        BY <1>1, <1>3, PortfolioAssumption DEF TypeOK
    <2> HIDE DEF x
    <2>2. x \div Whole \in Int
        BY <2>1, PortfolioAssumption
    <2>3. capital' = [capital EXCEPT ![t] = x \div Whole]
        BY DEF Allocate, x
    <2> QED
        BY <1>1, <2>2, <2>3 DEF TypeOK
<1>5. available' = available - Used /\ Used \in Int /\ (desk.limit = "heat" => Used = FinalRisk)
    BY <1>3, PortfolioAssumption DEF Allocate, Used
<1>6. heat' = heat + FinalRisk /\ heat' \in Int
    BY <1>1, <1>3, PortfolioAssumption DEF Allocate, TypeOK
<1>7. TypeOK'
    <2>1. risk' \in [Trades -> 0 .. Slot] /\ status' \in [Trades -> Status]
        BY <1>1, <1>3 DEF Allocate, TypeOK, Status
    <2>2. available' \in Int
        BY <1>1, <1>5 DEF TypeOK
    <2> QED
        BY <1>1, <1>4, <1>6, <2>1, <2>2 DEF Allocate, TypeOK
<1>8. Timely'
    <2>1. ledger[t].exit > now /\ ledger[t].exit >= now
        BY <1>1, <1>2, LedgerIsTyped DEF TypeOK
    <2>2. desk.clock # "replay"
        BY <1>1 DEF IInv, Timely
    <2> QED
        BY <1>1, <2>1, <2>2 DEF IInv, Timely, Allocate, TypeOK
<1>9. Surveyed'
    BY <1>1, <1>3, <1>5, <1>6, PortfolioAssumption DEF IInv, Surveyed, Allocate, TypeOK, Drawdown
<1>10. HeatWithin'
    <2>1. SUFFICES ASSUME desk.limit = "heat" PROVE heat' <= HeatCap
        BY DEF HeatWithin, Allocate
    <2>2. heat + available = HeatCap /\ FinalRisk <= available
        BY <1>1, <1>3, <2>1 DEF IInv, Surveyed
    <2> QED
        BY <1>1, <1>3, <1>6, <2>2, PortfolioAssumption DEF TypeOK
<1> QED
    BY <1>7, <1>8, <1>9, <1>10 DEF IInv

LEMMA PassOverKeeps ==
    ASSUME IInv, NEW t \in Trades, PassOver(t)
    PROVE  IInv'
<1>1. TypeOK'
    BY DEF IInv, PassOver, TypeOK, Status
<1>2. Timely'
    BY DEF IInv, PassOver, Timely, TypeOK
<1>3. Surveyed' /\ HeatWithin'
    BY DEF IInv, PassOver, Surveyed, HeatWithin, Drawdown
<1> QED
    BY <1>1, <1>2, <1>3 DEF IInv

LEMMA EndTickKeeps ==
    ASSUME IInv, EndTick
    PROVE  IInv'
<1>1. TypeOK'
    BY DEF IInv, EndTick, TypeOK
<1>2. Timely'
    BY DEF IInv, EndTick, Timely, In
<1>3. Surveyed' /\ HeatWithin'
    BY DEF IInv, EndTick, Surveyed, HeatWithin
<1> QED
    BY <1>1, <1>2, <1>3 DEF IInv

\* A replayed trade risks part of a slot. At 25% of drawdown it risks nothing
\* where the desk halts.
LEMMA ReplayedRisk ==
    ASSUME TypeOK, NEW w \in Weights, NEW d \in Int,
           NEW final, final = (((Slot * Scale(d)) \div Unit) * w) \div Unit
    PROVE  /\ final \in 0 .. Slot
           /\ Halts /\ d >= 2500 => final = 0
<1> DEFINE scaled == (Slot * Scale(d)) \div Unit
<1>1. Slot \in Nat /\ w \in Share
    BY PortfolioAssumption
<1>2. Scale(d) \in Share
    BY ScaleIsShare
<1>3. scaled \in Nat /\ scaled <= Slot
    BY <1>1, <1>2, Prorated
<1>4. final = (scaled * w) \div Unit
    OBVIOUS
<1>5. ASSUME Halts, d >= 2500 PROVE scaled = 0
    <2>1. Scale(d) = 0
        BY <1>5, ScaleIsShare
    <2> QED
        BY <1>1, <2>1 DEF Unit
<1> HIDE DEF scaled
<1>6. final \in Nat /\ final <= scaled
    BY <1>1, <1>3, <1>4, Prorated
<1> QED
    BY <1>1, <1>3, <1>5, <1>6

LEMMA ReplayKeeps ==
    ASSUME IInv, NEW t \in Trades, Replay(t)
    PROVE  IInv'
<1>1. TypeOK /\ phase = "next" /\ phase' = "next"
    BY DEF IInv, Replay
<1> DEFINE before == Drawdown(balance, Higher(peak, balance))
           FinalOf(w) == (((Slot * Scale(before)) \div Unit) * w) \div Unit
           StakeOf(w) == (balance * FinalOf(w)) \div Whole
           CostOf(s) == IF desk.costs THEN (s * Friction) \div Unit ELSE 0
<1>2. PICK w \in Weights :
         /\ risk' = [risk EXCEPT ![t] = FinalOf(w)]
         /\ capital' = [capital EXCEPT ![t] = StakeOf(w)]
         /\ balance' = balance + (StakeOf(w) * ledger[t].mult - CostOf(StakeOf(w)))
    BY DEF Replay
<1> DEFINE final == FinalOf(w)
           stake == StakeOf(w)
           pnl == stake * ledger[t].mult - CostOf(stake)
<1>3. final \in 0 .. Slot
    <2>1. before \in Int
        BY <1>1, DrawdownIsNumber DEF TypeOK, Higher
    <2> HIDE DEF before
    <2> QED
        BY <1>1, <2>1, ReplayedRisk
<1>4. stake \in Int
    <2>1. stake = (balance * final) \div Whole
        OBVIOUS
    <2> HIDE DEF final, stake
    <2>2. balance * final \in Int
        BY <1>1, <1>3, PortfolioAssumption DEF TypeOK
    <2> QED
        BY <2>1, <2>2, PortfolioAssumption
<1>5. risk' = [risk EXCEPT ![t] = final] /\ capital' = [capital EXCEPT ![t] = stake]
      /\ balance' = balance + pnl
    BY <1>2
<1> HIDE DEF final, stake
<1>6. balance' \in Int
    <2>1. pnl \in Int
        <3>1. stake * ledger[t].mult \in Int
            BY <1>1, <1>4, LedgerIsTyped
        <3>2. stake * Friction \in Int
            BY <1>4, PortfolioAssumption
        <3>3. CostOf(stake) \in Int
            BY <3>2 DEF Unit
        <3> QED
            BY <3>1, <3>3
    <2> HIDE DEF pnl
    <2> QED
        BY <1>1, <1>5, <2>1 DEF TypeOK
<1>7. peak' \in Nat \ {0} /\ dd' \in Int /\ maxdd' \in Nat
    <2>1. PICK b \in Int : Measure(b)
        BY <1>1, <1>6 DEF Replay, TypeOK
    <2> QED
        BY <1>1, <2>1, MeasureKeepsTypes
<1>8. TypeOK'
    <2>1. risk' \in [Trades -> 0 .. Slot] /\ capital' \in [Trades -> Int]
        BY <1>1, <1>3, <1>4, <1>5 DEF TypeOK
    <2>2. status' \in [Trades -> Status]
        BY <1>1 DEF Replay, TypeOK, Status
    <2> QED
        BY <1>1, <1>6, <1>7, <2>1, <2>2 DEF Replay, TypeOK
<1>9. Timely'
    BY <1>1 DEF IInv, Timely, Replay, TypeOK
<1>10. Surveyed' /\ HeatWithin'
    BY <1>1 DEF IInv, Surveyed, HeatWithin, Replay
<1> QED
    BY <1>8, <1>9, <1>10 DEF IInv

LEMMA StepKeeps ==
    ASSUME IInv, [Next]_vars
    PROVE  IInv'
<1>1. CASE UNCHANGED vars
    BY <1>1 DEF IInv, vars, TypeOK, Timely, Surveyed, HeatWithin, Drawdown
<1>2. CASE Next
    BY <1>1, <1>2, NextTickKeeps, SurveyKeeps, EndTickKeeps, SettleKeeps, AllocateKeeps,
       PassOverKeeps, ReplayKeeps DEF Next, Done
<1> QED
    BY <1>1, <1>2

LEMMA Invariance == Spec => []IInv
<1>1. Init => IInv
    BY InitHolds
<1>2. IInv /\ [Next]_vars => IInv'
    BY StepKeeps
<1> QED
    BY <1>1, <1>2, PTL DEF Spec

\* Risks, amounts and the state of every trade keep their types: no position
\* ever risks more than target_risk_slot.
THEOREM TypeCorrect == Spec => []TypeOK
<1>1. IInv => TypeOK
    BY DEF IInv
<1> QED
    BY <1>1, Invariance, PTL

\* max_portfolio_heat holds for every ledger, slot and cap.
THEOREM HeatIsCapped == Spec => []HeatWithin
<1>1. IInv => HeatWithin
    BY DEF IInv
<1> QED
    BY <1>1, Invariance, PTL

\* At the end no position is open, but those that outlast the last entry of
\* the scheduler.
THEOREM NothingLeftOpen == Spec => []EverythingSettled
<1>1. IInv => EverythingSettled
    <2>1. SUFFICES ASSUME IInv, Finished, NEW t \in Trades, status[t] = "open"
                   PROVE  desk.clock = "entries" /\ \A n \in Ticks : n < ledger[t].exit
        BY DEF EverythingSettled, In
    <2>2. /\ TypeOK /\ phase = "next" /\ desk.clock # "replay"
          /\ ledger[t].exit > now /\ \A n \in Ticks : n <= now
        BY <2>1 DEF IInv, Timely, Finished
    <2>3. Ticks \subseteq Nat /\ now \in Nat /\ ledger[t].exit \in Nat
        BY <2>2, LedgerIsTyped DEF Ticks, TypeOK
    <2>4. desk.clock # "events"
        <3>1. desk.clock = "events" => ledger[t].exit \in Ticks
            BY DEF Ticks
        <3> QED
            BY <2>2, <2>3, <3>1
    <2>5. desk.clock \in {"entries", "events", "replay"}
        BY <2>2, PortfolioAssumption DEF TypeOK, Desk
    <2>6. \A n \in Ticks : n < ledger[t].exit
        BY <2>2, <2>3
    <2> QED
        BY <2>2, <2>4, <2>5, <2>6
<1> QED
    BY <1>1, Invariance, PTL

\* With exits on the timeline every position is settled at the tick of its exit.
THEOREM ExitsAreOnTime == Spec => SettledOnTime
<1> DEFINE OnTime == \A t \in Trades :
                        status[t] = "open" /\ status'[t] = "settled" /\ desk.clock = "events"
                        => ledger[t].exit = now
<1>1. IInv /\ [Next]_vars => [OnTime]_vars
    <2>1. SUFFICES ASSUME IInv, Next, NEW t \in Trades,
                          status[t] = "open", status'[t] = "settled", desk.clock = "events"
                   PROVE  ledger[t].exit = now
        OBVIOUS
    <2>2. TypeOK /\ ledger[t].exit >= now /\ ledger[t].exit \in Nat /\ now \in Nat
        BY <2>1, LedgerIsTyped DEF IInv, Timely, TypeOK
    <2>3. PICK u \in Trades : Settle(u)
        BY <2>1, <2>2 DEF Next, NextTick, Survey, EndTick, Done, vars, Allocate, PassOver, Replay, First, TypeOK, Signals
    <2>4. u = t
        BY <2>1, <2>2, <2>3 DEF Settle, TypeOK
    <2> QED
        BY <2>2, <2>3, <2>4 DEF Settle, Due
<1> QED
    BY <1>1, Invariance, PTL DEF Spec, SettledOnTime

\* The facts of a desk that has come to its halt with nothing open.
LEMMA TrippedFacts ==
    ASSUME IInv, Tripped
    PROVE  /\ balance < peak /\ Higher(peak, balance) = peak
           /\ Drawdown(balance, peak) >= 2500
           /\ \A t \in Trades : status[t] # "open"
<1>1. balance \in Int /\ peak \in Nat \ {0}
    BY DEF IInv, TypeOK
<1>2. \A t \in Trades : status[t] # "open"
    BY DEF Tripped, In
<1>3. balance < peak
    <2>1. SUFFICES ASSUME balance >= peak PROVE FALSE
        BY <1>1
    <2>2. Higher(peak, balance) = balance /\ balance \in Nat \ {0}
        BY <1>1, <2>1 DEF Higher
    <2>3. Drawdown(balance, balance) = 0
        BY <2>2, DrawdownIsNumber
    <2> QED
        BY <2>2, <2>3 DEF Tripped
<1> QED
    BY <1>1, <1>2, <1>3 DEF Tripped, Higher

\* A step that leaves balance and peak alone and opens nothing leaves the
\* desk tripped.
LEMMA StaysTripped ==
    ASSUME IInv, Tripped, desk' = desk, balance' = balance, peak' = peak,
           \A t \in Trades : status'[t] # "open"
    PROVE  Tripped'
    BY DEF Tripped, Halts, In, Drawdown, Higher

LEMMA TrippedStep ==
    ASSUME IInv, Tripped, Next
    PROVE  balance' = balance /\ Tripped'
<1>1. /\ TypeOK /\ Halts
      /\ balance < peak /\ Higher(peak, balance) = peak
      /\ Drawdown(balance, peak) >= 2500
      /\ \A t \in Trades : status[t] # "open"
    BY TrippedFacts DEF IInv, Tripped
<1>2. balance \in Int /\ peak \in Nat \ {0}
    BY <1>1 DEF TypeOK
<1>3. CASE NextTick
    BY <1>1, <1>3, StaysTripped DEF NextTick
<1>4. CASE Survey
    <2>1. peak' = peak /\ balance' = balance /\ desk' = desk
        <3>1. Measure(balance)
            BY <1>4 DEF Survey
        <3> QED
            BY <1>1, <1>2, <1>4, <3>1, MeasureKeepsTypes DEF Survey
    <2>2. \A t \in Trades : status'[t] # "open"
        BY <1>1, <1>4 DEF Survey
    <2> QED
        BY <2>1, <2>2, StaysTripped
<1>5. CASE EndTick
    BY <1>1, <1>5, StaysTripped DEF EndTick
<1>6. CASE Done
    BY <1>1, <1>6, StaysTripped DEF Done, vars
<1>7. ASSUME NEW t \in Trades, Settle(t)
      PROVE  FALSE
    BY <1>1, <1>7 DEF Settle, Due
<1>8. ASSUME NEW t \in Trades, Allocate(t)
      PROVE  FALSE
    <2>1. dd \in Int /\ dd >= 2500 /\ available > 0 /\ FinalRisk > 0
          /\ rivals > 0
        BY <1>1, <1>8 DEF Allocate, First, IInv, Surveyed, Timely, TypeOK
    <2>2. Slice \in Nat /\ Scale(dd) = 0
        BY <1>1, <2>1, SliceIsPart, ScaleIsShare, PortfolioAssumption
    <2>3. FinalRisk = 0
        BY <2>2 DEF FinalRisk, Unit
    <2> QED
        BY <2>1, <2>3
<1>9. ASSUME NEW t \in Trades, PassOver(t)
      PROVE  balance' = balance /\ Tripped'
    <2>1. \A u \in Trades : status'[u] # "open"
        BY <1>1, <1>9 DEF PassOver, TypeOK
    <2> QED
        BY <1>9, <2>1, StaysTripped DEF PassOver
<1>10. ASSUME NEW t \in Trades, Replay(t)
       PROVE  balance' = balance /\ Tripped'
    <2> DEFINE before == Drawdown(balance, Higher(peak, balance))
               FinalOf(w) == (((Slot * Scale(before)) \div Unit) * w) \div Unit
           StakeOf(w) == (balance * FinalOf(w)) \div Whole
           CostOf(s) == IF desk.costs THEN (s * Friction) \div Unit ELSE 0
    <2>1. PICK w \in Weights :
             balance' = balance + (StakeOf(w) * ledger[t].mult - CostOf(StakeOf(w)))
        BY <1>10 DEF Replay
    <2>2. FinalOf(w) = 0
        <3>1. before \in Int /\ before >= 2500
            BY <1>1, <1>2, DrawdownIsNumber
        <3> HIDE DEF before
        <3> QED
            BY <1>1, <3>1, ReplayedRisk
    <2>3. StakeOf(w) * ledger[t].mult - CostOf(StakeOf(w)) = 0
        <3>1. ledger[t].mult \in Int
            BY <1>1, LedgerIsTyped
        <3>2. (balance * 0) \div Whole = 0
            BY <1>2, PortfolioAssumption
        <3>3. CostOf(0) = 0
            BY PortfolioAssumption DEF Unit
        <3> QED
            BY <2>2, <3>1, <3>2, <3>3
    <2>4. balance' = balance + 0
        BY <2>1, <2>3
    <2>5. balance' = balance
        BY <1>2, <2>4
    <2>6. peak' = peak
        <3>1. Measure(balance)
            BY <1>10, <2>5 DEF Replay
        <3> QED
            BY <1>1, <1>2, <3>1, MeasureKeepsTypes
    <2>7. desk' = desk /\ \A u \in Trades : status'[u] # "open"
        BY <1>1, <1>10 DEF Replay, TypeOK
    <2> QED
        BY <2>5, <2>6, <2>7, StaysTripped
<1> QED
    BY <1>3, <1>4, <1>5, <1>6, <1>7, <1>8, <1>9, <1>10 DEF Next, NextTick, Survey, EndTick, Done, vars

\* The halt of the firewall is for good: once nothing is open at a drawdown of
\* 25%, the balance never changes and nothing is opened again.
THEOREM HaltIsForGood == Spec => HaltIsFinal
<1>1. IInv /\ [Next]_vars => [Tripped => balance' = balance /\ Tripped']_vars
    BY TrippedStep
<1> QED
    BY <1>1, Invariance, PTL DEF Spec, HaltIsFinal

-----------------------------------------------------------------------------
(* Heat.  current_heat is the sum over the open positions.                   *)

HeatSummed == heat = SumFunctionOnSet(risk, In("open"))

\* The open positions are finitely many trades with a whole number of risk.
LEMMA OpenIsFinite ==
    ASSUME TypeOK
    PROVE  /\ In("open") \subseteq Trades
           /\ IsFiniteSet(In("open")) /\ IsFiniteSet(In("candidate"))
           /\ \A t \in Trades : risk[t] \in Int /\ capital[t] \in Int
<1>1. \A s : In(s) \subseteq Trades
    BY DEF In
<1>2. \A t \in Trades : risk[t] \in 0 .. Slot /\ capital[t] \in Int
    BY DEF TypeOK
<1>3. Slot \in Nat /\ IsFiniteSet(Trades)
    BY PortfolioAssumption
<1> QED
    BY <1>1, <1>2, <1>3, FS_Subset

\* A step that opens and settles nothing leaves the sum as it is.
LEMMA HeatStays ==
    ASSUME TypeOK, HeatSummed, heat' = heat,
           \A t \in Trades : status'[t] = "open" <=> status[t] = "open",
           \A t \in Trades : status[t] = "open" => risk'[t] = risk[t]
    PROVE  HeatSummed'
<1>1. In("open")' = In("open") /\ \A t \in In("open") : risk[t] = risk'[t]
    BY DEF In
<1>2. SumFunctionOnSet(risk, In("open")) = SumFunctionOnSet(risk', In("open"))
    BY <1>1, OpenIsFinite, SumSame
<1> QED
    BY <1>1, <1>2 DEF HeatSummed

LEMMA SettleTakesHeat ==
    ASSUME IInv, HeatSummed, NEW t \in Trades, Settle(t)
    PROVE  HeatSummed'
<1>1. TypeOK /\ status[t] = "open" /\ risk' = risk /\ heat' = heat - risk[t]
    BY DEF IInv, Settle, Due
<1>2. In("open")' = In("open") \ {t} /\ t \in In("open")
    BY <1>1 DEF Settle, In, TypeOK
<1>3. \A u \in In("open") : risk[u] \in Int
    BY <1>1, OpenIsFinite
<1>4. SumFunctionOnSet(risk, In("open")) = SumFunctionOnSet(risk, In("open") \ {t}) + risk[t]
    BY <1>1, <1>2, <1>3, OpenIsFinite, SumWithout
<1>5. SumFunctionOnSet(risk, In("open") \ {t}) \in Int
    BY <1>1, <1>3, OpenIsFinite, SumIsInt
<1>6. risk[t] \in Int /\ heat = SumFunctionOnSet(risk, In("open"))
    BY <1>1, OpenIsFinite DEF HeatSummed
<1>7. heat' = SumFunctionOnSet(risk, In("open") \ {t})
    BY <1>1, <1>4, <1>5, <1>6
<1> QED
    BY <1>1, <1>2, <1>7 DEF HeatSummed

LEMMA AllocateAddsHeat ==
    ASSUME IInv, HeatSummed, NEW t \in Trades, Allocate(t)
    PROVE  HeatSummed'
<1>1. /\ TypeOK /\ TypeOK' /\ status[t] = "candidate" /\ heat' = heat + FinalRisk
      /\ risk' = [risk EXCEPT ![t] = FinalRisk] /\ risk'[t] = FinalRisk
    BY AllocateKeeps DEF IInv, Allocate, First, TypeOK
<1>2. In("open")' = In("open") \cup {t} /\ t \notin In("open")
    BY <1>1 DEF Allocate, In, TypeOK
<1>3. \A u \in In("open") : risk[u] = risk'[u]
    BY <1>1, <1>2 DEF In, TypeOK
<1>4. SumFunctionOnSet(risk, In("open")) = SumFunctionOnSet(risk', In("open"))
    BY <1>1, <1>3, OpenIsFinite, SumSame
<1>5. \A u \in Trades : risk'[u] \in Int
    <2>1. \A u \in Trades : risk'[u] \in 0 .. Slot
        BY <1>1 DEF TypeOK
    <2> QED
        BY <2>1, PortfolioAssumption
<1>6. SumFunctionOnSet(risk', In("open") \cup {t}) = SumFunctionOnSet(risk', In("open")) + risk'[t]
    <2>1. \A u \in In("open") \cup {t} : risk'[u] \in Int
        BY <1>1, <1>5, OpenIsFinite
    <2> QED
        BY <1>1, <1>2, <2>1, OpenIsFinite, SumWith
<1> QED
    BY <1>1, <1>2, <1>4, <1>6 DEF HeatSummed

LEMMA HeatStep ==
    ASSUME IInv, HeatSummed, [Next]_vars
    PROVE  HeatSummed'
<1>1. TypeOK /\ Timely
    BY DEF IInv
<1>2. CASE NextTick \/ EndTick \/ Done \/ UNCHANGED vars
    BY <1>1, <1>2, HeatStays DEF NextTick, EndTick, Done, vars
<1>3. CASE Survey
    BY <1>1, <1>3, HeatStays DEF Survey, Signals
<1>4. ASSUME NEW t \in Trades, PassOver(t) PROVE HeatSummed'
    BY <1>1, <1>4, HeatStays DEF PassOver, First, TypeOK
<1>5. ASSUME NEW t \in Trades, Replay(t) PROVE HeatSummed'
    <2>1. \A u \in Trades : status[u] # "open" /\ status'[u] # "open"
        BY <1>1, <1>5 DEF Replay, Timely, TypeOK
    <2> QED
        BY <1>1, <1>5, <2>1, HeatStays DEF Replay
<1> QED
    BY <1>2, <1>3, <1>4, <1>5, SettleTakesHeat, AllocateAddsHeat DEF Next

\* max_portfolio_heat limits what the open positions risk together, for every
\* ledger, slot and cap: the figure the desk goes by is their sum.
THEOREM OpenRiskIsCapped == Spec => []HeatCapped
<1>1. Init => HeatSummed
    <2>1. Init => heat = 0 /\ In("open") = {}
        BY DEF Init, In
    <2> QED
        BY <2>1, SumEmpty DEF HeatSummed
<1>2. IInv /\ HeatSummed /\ [Next]_vars => HeatSummed'
    BY HeatStep
<1>3. IInv /\ HeatSummed => HeatCapped
    BY DEF IInv, HeatSummed, HeatCapped
<1> QED
    BY <1>1, <1>2, <1>3, Invariance, PTL DEF Spec

-----------------------------------------------------------------------------
(* Measuring.  Where results are measured, max_dd is never behind the        *)
(* balance, but between the settlements of a tick and their survey.          *)

Measured ==
    desk.measured = "after" /\ phase # "settle" =>
        balance <= peak /\ maxdd >= Drawdown(balance, peak)

\* After a measurement max_dd is not below the drawdown that was measured.
LEMMA MeasuredBy ==
    ASSUME TypeOK, NEW b \in Int, Measure(b)
    PROVE  b <= peak' /\ maxdd' >= Drawdown(b, peak')
<1>1. dd' = Drawdown(b, peak') /\ dd' \in Int /\ b <= peak'
    BY MeasureKeepsTypes
<1>2. maxdd \in Nat /\ maxdd' = Higher(maxdd, dd')
    BY DEF Measure, TypeOK
<1> QED
    BY <1>1, <1>2 DEF Higher

LEMMA MeasuredStep ==
    ASSUME IInv, Measured, [Next]_vars
    PROVE  Measured'
<1> USE DEF Drawdown
<1>1. TypeOK /\ TypeOK' /\ balance \in Int
    BY StepKeeps DEF IInv, TypeOK
<1>2. CASE NextTick \/ EndTick \/ Done \/ UNCHANGED vars
    BY <1>2 DEF NextTick, EndTick, Done, vars, Measured
<1>3. CASE Survey
    BY <1>1, <1>3, MeasuredBy DEF Survey, Measured
<1>4. ASSUME NEW t \in Trades, Settle(t) \/ Allocate(t) \/ PassOver(t) PROVE Measured'
    BY <1>4 DEF Settle, Allocate, PassOver, Measured
<1>5. ASSUME NEW t \in Trades, Replay(t) PROVE Measured'
    <2>1. SUFFICES ASSUME desk.measured = "after"
                   PROVE  balance' <= peak' /\ maxdd' >= Drawdown(balance', peak')
        BY <1>5 DEF Replay, Measured
    <2>2. Measure(balance') /\ balance' \in Int
        BY <1>1, <1>5, <2>1 DEF Replay, TypeOK
    <2> QED
        BY <1>1, <2>2, MeasuredBy
<1> QED
    BY <1>2, <1>3, <1>4, <1>5 DEF Next

\* A simulator that measures after its results has seen the last one: the
\* reported max_dd covers the final balance.
THEOREM LastResultCounts == Spec => []LastResultMeasured
<1>1. Init => Measured
    <2>1. SUFFICES ASSUME Init PROVE balance <= peak /\ maxdd >= Drawdown(balance, peak)
        BY DEF Measured
    <2>2. balance = Initial /\ peak = Initial /\ maxdd = 0 /\ Initial \in Nat \ {0}
        BY <2>1, PortfolioAssumption DEF Init
    <2>3. Drawdown(balance, peak) = 0
        BY <2>2, DrawdownIsNumber
    <2> QED
        BY <2>2, <2>3
<1>2. IInv /\ Measured /\ [Next]_vars => Measured'
    BY MeasuredStep
<1>3. IInv /\ Measured => LastResultMeasured
    <2>1. SUFFICES ASSUME IInv, Measured, phase = "next", desk.measured = "after"
                   PROVE  maxdd >= Drawdown(balance, Higher(peak, balance))
        BY DEF LastResultMeasured, Finished
    <2>2. balance \in Int /\ peak \in Nat /\ balance <= peak /\ maxdd >= Drawdown(balance, peak)
        BY <2>1 DEF Measured, IInv, TypeOK
    <2>3. Higher(peak, balance) = peak
        BY <2>2 DEF Higher
    <2> QED
        BY <2>2, <2>3
<1> QED
    BY <1>1, <1>2, <1>3, Invariance, PTL DEF Spec

-----------------------------------------------------------------------------
(* The bucket.  Signals of one tick are surveyed together and each gets the  *)
(* share that their number and the drawdown of the tick give.                *)

Upcoming(t) == ledger[t].entry > now \/ (ledger[t].entry = now /\ phase = "settle")

Cluster(t) == {u \in Trades : ledger[u].entry = ledger[t].entry}

ThisTick == {t \in Trades : ledger[t].entry = now}

Portion == ((Slot \div rivals) * Scale(dd)) \div Unit

\* What is still to come has not been touched.
Untouched ==
    desk.clock # "replay" =>
        \A t \in Trades : Upcoming(t) => status[t] = "waiting" /\ risk[t] = 0

\* A position has no more than its part of the slot.
Portioned ==
    desk.limit = "bucket" => \A t \in Trades : risk[t] <= Slot \div Cardinality(Cluster(t))

\* While a bucket is divided there is a part left for each candidate, and those
\* that are not candidates any more have got theirs.
Dividing ==
    desk.limit = "bucket" /\ phase = "allocate" =>
        /\ rivals = Cardinality(ThisTick)
        /\ available >= (Slot \div rivals) * Cardinality(In("candidate"))
        /\ \A t \in ThisTick : risk[t] = IF status[t] = "candidate" THEN 0 ELSE Portion

\* Signals of one tick have the same risk, but while it is divided.
Even ==
    desk.limit = "bucket" =>
        \A t, u \in Trades :
            ledger[t].entry = ledger[u].entry /\ (phase = "allocate" => ledger[t].entry # now)
            => risk[t] = risk[u]

Sharing == Untouched /\ Portioned /\ Dividing /\ Even

\* A division has no remainder to give away.
LEMMA Divided ==
    ASSUME NEW a \in Nat, NEW n \in Nat \ {0}
    PROVE  /\ a \div n \in Nat /\ a \div n <= a
           /\ n * (a \div n) <= a /\ (a \div n) * n <= a
  BY Z3

\* A cluster is not empty, so a slot can be divided by its size.
LEMMA ClusterIsCounted ==
    ASSUME NEW t \in Trades
    PROVE  /\ IsFiniteSet(Cluster(t)) /\ t \in Cluster(t)
           /\ Cardinality(Cluster(t)) \in Nat \ {0}
           /\ Slot \div Cardinality(Cluster(t)) \in Nat
           /\ Cardinality(Cluster(t)) * (Slot \div Cardinality(Cluster(t))) <= Slot
<1>1. IsFiniteSet(Cluster(t)) /\ t \in Cluster(t)
    BY PortfolioAssumption, FS_Subset DEF Cluster
<1>2. Cardinality(Cluster(t)) \in Nat \ {0}
    BY <1>1, FS_CardinalityType, FS_EmptySet
<1>3. Slot \in Nat
    BY PortfolioAssumption
<1> QED
    BY <1>1, <1>2, <1>3, Divided

\* The shares of a cluster add up to no more than the slot.
LEMMA SharesAddUp ==
    ASSUME TypeOK, Portioned, desk.limit = "bucket", NEW t \in Trades
    PROVE  SumFunctionOnSet(risk, Cluster(t)) <= Slot
<1> DEFINE part == Slot \div Cardinality(Cluster(t))
           g == [u \in Trades |-> part]
<1>1. /\ IsFiniteSet(Cluster(t)) /\ Cluster(t) \subseteq Trades /\ part \in Nat
      /\ Cardinality(Cluster(t)) \in Nat
      /\ Cardinality(Cluster(t)) * part <= Slot
    BY ClusterIsCounted DEF Cluster
<1>2. \A u \in Cluster(t) : risk[u] \in Int /\ risk[u] <= part
    <2>1. SUFFICES ASSUME NEW u \in Cluster(t) PROVE risk[u] \in Int /\ risk[u] <= part
        OBVIOUS
    <2>2. u \in Trades /\ Cluster(u) = Cluster(t)
        BY <2>1 DEF Cluster
    <2> QED
        BY <2>2, OpenIsFinite DEF Portioned
<1> HIDE DEF part
<1>3. \A u \in Cluster(t) : g[u] \in Int /\ g[u] = part
    BY <1>1
<1>4. SumFunctionOnSet(risk, Cluster(t)) <= SumFunctionOnSet(g, Cluster(t))
    <2>1. \A u \in Cluster(t) : risk[u] \in Int /\ g[u] \in Int /\ risk[u] <= g[u]
        BY <1>2, <1>3
    <2> HIDE DEF g
    <2> QED
        BY <1>1, <2>1, SumAtMost
<1>5. SumFunctionOnSet(g, Cluster(t)) = Cardinality(Cluster(t)) * part
    <2> HIDE DEF g
    <2> QED
        BY <1>1, <1>3, SumOfEqual
<1>6. SumFunctionOnSet(risk, Cluster(t)) \in Int /\ Slot \in Int
    BY <1>1, <1>2, SumIsInt, PortfolioAssumption
<1> QED
    BY <1>1, <1>4, <1>5, <1>6

\* With a candidate left its part of the bucket is left, so every candidate
\* gets the same.
LEMMA EqualSlices ==
    ASSUME IInv, Sharing, desk.limit = "bucket", phase = "allocate",
           NEW t \in Trades, status[t] = "candidate"
    PROVE  LET part == Slot \div rivals
           IN  /\ part \in Nat /\ Slice = part /\ FinalRisk = Portion
               /\ Portion \in Nat /\ Portion <= part
               /\ available >= part
               /\ available - part >= part * Cardinality(In("candidate") \ {t})
               /\ available >= part * Cardinality(In("candidate") \ {t})
               /\ part = Slot \div Cardinality(Cluster(t))
               /\ Cluster(t) = ThisTick
<1> DEFINE part == Slot \div rivals
           n == Cardinality(In("candidate") \ {t})
<1>1. /\ TypeOK /\ rivals \in Nat \ {0} /\ Slot \in Nat /\ available \in Int
      /\ ledger[t].entry = now
    BY PortfolioAssumption DEF IInv, TypeOK, Timely
<1>2. part \in Nat
    BY <1>1, Divided
<1>3. n \in Nat /\ Cardinality(In("candidate")) = n + 1
    <2>1. IsFiniteSet(In("candidate")) /\ t \in In("candidate")
        BY <1>1, OpenIsFinite DEF In
    <2>2. Cardinality(In("candidate")) \in Nat /\ Cardinality(In("candidate") \ {t}) = Cardinality(In("candidate")) - 1
          /\ IsFiniteSet(In("candidate") \ {t})
        BY <2>1, FS_CardinalityType, FS_RemoveElement
    <2>3. n \in Nat
        BY <2>2, FS_CardinalityType
    <2> QED
        BY <2>2, <2>3
<1>4. available >= part * (n + 1)
    BY <1>3 DEF Sharing, Dividing
<1>5. part * (n + 1) = part * n + part /\ part * n \in Nat
    <2> HIDE DEF part, n
    <2> QED
        BY <1>2, <1>3
<1>6. available >= part /\ available - part >= part * n /\ available >= part * n
    <2> HIDE DEF part, n
    <2> QED
        BY <1>1, <1>2, <1>4, <1>5
<1>7. Slice = part
    BY <1>6 DEF Slice
<1>8. FinalRisk = Portion
    BY <1>7 DEF FinalRisk, Portion
<1>9. Portion \in Nat /\ Portion <= part
    <2>1. Scale(dd) \in Share
        BY <1>1, ScaleIsShare DEF TypeOK
    <2> HIDE DEF part
    <2>2. Portion = (part * Scale(dd)) \div Unit
        BY DEF Portion, part
    <2> QED
        BY <1>2, <2>1, <2>2, Prorated
<1>10. Cluster(t) = ThisTick /\ rivals = Cardinality(ThisTick)
    BY <1>1 DEF Cluster, ThisTick, Sharing, Dividing
<1>11. part = Slot \div Cardinality(Cluster(t))
    BY <1>10
<1> QED
    BY <1>2, <1>6, <1>7, <1>8, <1>9, <1>10, <1>11

LEMMA NextTickShares ==
    ASSUME IInv, Sharing, NextTick
    PROVE  Sharing'
<1>1. /\ phase = "next" /\ phase' = "settle" /\ desk' = desk /\ ledger' = ledger
      /\ risk' = risk /\ status' = status
    BY DEF NextTick
<1>2. now \in Nat /\ now' > now /\ now' \in Nat /\ \A t \in Trades : ledger[t].entry \in Nat
    BY NextTickKeeps, LedgerIsTyped DEF NextTick, IInv, TypeOK
<1>3. Untouched'
    <2>1. ASSUME NEW t \in Trades, Upcoming(t)' PROVE Upcoming(t)
        BY <1>1, <1>2, <2>1 DEF Upcoming
    <2> QED
        BY <1>1, <2>1 DEF Sharing, Untouched
<1>4. Portioned' /\ Dividing' /\ Even'
    BY <1>1 DEF Sharing, Portioned, Dividing, Even, Cluster
<1> QED
    BY <1>3, <1>4 DEF Sharing

LEMMA SettleShares ==
    ASSUME IInv, Sharing, NEW t \in Trades, Settle(t)
    PROVE  Sharing'
<1>1. /\ TypeOK /\ status[t] = "open" /\ phase = "settle" /\ phase' = "settle"
      /\ desk' = desk /\ ledger' = ledger /\ now' = now /\ risk' = risk
      /\ status' = [status EXCEPT ![t] = "settled"]
    BY DEF IInv, Settle, Due
<1>2. Untouched'
    BY <1>1 DEF Sharing, Untouched, Upcoming, TypeOK
<1>3. Portioned' /\ Dividing' /\ Even'
    BY <1>1 DEF Sharing, Portioned, Dividing, Even, Cluster
<1> QED
    BY <1>2, <1>3 DEF Sharing

LEMMA SurveyShares ==
    ASSUME IInv, Sharing, Survey
    PROVE  Sharing'
<1>1. /\ TypeOK /\ Timely /\ phase = "settle" /\ phase' # "settle"
      /\ desk' = desk /\ ledger' = ledger /\ now' = now /\ risk' = risk
    BY DEF IInv, Survey
<1>2. now \in Nat /\ \A t \in Trades : ledger[t].entry \in Nat
    BY <1>1, LedgerIsTyped DEF TypeOK
<1>3. Untouched'
    <2>1. ASSUME NEW t \in Trades, Upcoming(t)'
          PROVE  Upcoming(t) /\ status'[t] = status[t]
        <3>1. ledger[t].entry > now
            BY <1>1, <2>1 DEF Upcoming
        <3> QED
            BY <1>2, <3>1 DEF Upcoming, Survey, Signals
    <2> QED
        BY <1>1, <2>1 DEF Sharing, Untouched
<1>4. Portioned' /\ Even'
    BY <1>1 DEF Sharing, Portioned, Even, Cluster
<1>5. Dividing'
    <2>1. SUFFICES ASSUME desk.limit = "bucket", phase' = "allocate"
                   PROVE  /\ rivals' = Cardinality(ThisTick')
                          /\ available' >= (Slot \div rivals') * Cardinality(In("candidate")')
                          /\ \A t \in ThisTick' : risk'[t] = IF status'[t] = "candidate" THEN 0 ELSE Portion'
        BY <1>1 DEF Dividing
    <2>2. desk.clock # "replay"
        BY <1>1 DEF Timely
    <2>3. \A t \in Trades : ledger[t].entry = now => status[t] = "waiting" /\ risk[t] = 0
        BY <1>1, <2>2 DEF Sharing, Untouched, Upcoming
    <2>4. ThisTick' = Signals /\ rivals' = Cardinality(Signals)
        BY <1>1, <2>3 DEF Survey, ThisTick, Signals
    <2>5. Signals # {} /\ available' > 0 /\ available' = Slot
        BY <2>1 DEF Survey, Allowance
    <2>6. In("candidate")' = Signals
        BY <1>1, <2>5 DEF Survey, In, Timely, Signals
    <2>7. Slot \in Nat /\ rivals' \in Nat \ {0}
        BY <2>4, <2>5, SignalsAreCounted, PortfolioAssumption
    <2>8. (Slot \div rivals') * rivals' <= Slot
        BY <2>7, Divided
    <2>9. \A t \in Signals : risk'[t] = 0 /\ status'[t] = "candidate"
        BY <1>1, <2>3, <2>5 DEF Survey, Signals
    <2> QED
        BY <2>4, <2>5, <2>6, <2>7, <2>8, <2>9
<1> QED
    BY <1>3, <1>4, <1>5 DEF Sharing

LEMMA AllocateShares ==
    ASSUME IInv, Sharing, NEW t \in Trades, Allocate(t)
    PROVE  Sharing'
<1>1. /\ TypeOK /\ phase = "allocate" /\ phase' = "allocate" /\ status[t] = "candidate"
      /\ desk' = desk /\ ledger' = ledger /\ now' = now /\ rivals' = rivals /\ dd' = dd
      /\ risk' = [risk EXCEPT ![t] = FinalRisk] /\ status' = [status EXCEPT ![t] = "open"]
      /\ available' = available - Used /\ ledger[t].entry = now
    BY DEF IInv, Allocate, First, Timely
<1>2. /\ \A u \in Trades : u # t => risk'[u] = risk[u] /\ status'[u] = status[u]
      /\ risk'[t] = FinalRisk /\ status'[t] = "open"
    BY <1>1 DEF TypeOK
<1>3. Untouched'
    <2>1. now \in Nat /\ ~ Upcoming(t)
        BY <1>1 DEF Upcoming, TypeOK
    <2> QED
        BY <1>1, <1>2, <2>1 DEF Sharing, Untouched, Upcoming
<1>4. CASE desk.limit = "bucket"
    <2>1. /\ Slice = Slot \div rivals /\ FinalRisk = Portion /\ Portion <= Slot \div rivals
          /\ available - (Slot \div rivals) >= (Slot \div rivals) * Cardinality(In("candidate") \ {t})
          /\ Slot \div rivals = Slot \div Cardinality(Cluster(t))
        BY <1>1, <1>4, EqualSlices
    <2>2. Portioned'
        BY <1>1, <1>2, <2>1 DEF Sharing, Portioned, Cluster
    <2>3. Even'
        BY <1>1, <1>2 DEF Sharing, Even
    <2>4. In("candidate")' = In("candidate") \ {t}
        BY <1>1, <1>2 DEF In
    <2>5. available' = available - (Slot \div rivals)
        BY <1>1, <1>4, <2>1 DEF Used
    <2>6. Portion' = Portion /\ ThisTick' = ThisTick
        BY <1>1 DEF Portion, Scale, ThisTick
    <2>7. \A u \in ThisTick : risk'[u] = IF status'[u] = "candidate" THEN 0 ELSE Portion
        BY <1>1, <1>2, <1>4, <2>1 DEF Sharing, Dividing, ThisTick
    <2>8. Dividing'
        BY <1>1, <1>4, <2>1, <2>4, <2>5, <2>6, <2>7 DEF Sharing, Dividing
    <2> QED
        BY <1>3, <2>2, <2>3, <2>8 DEF Sharing
<1>5. CASE desk.limit # "bucket"
    BY <1>1, <1>3, <1>5 DEF Sharing, Portioned, Dividing, Even
<1> QED
    BY <1>4, <1>5

LEMMA PassOverShares ==
    ASSUME IInv, Sharing, NEW t \in Trades, PassOver(t)
    PROVE  Sharing'
<1>1. /\ TypeOK /\ phase = "allocate" /\ phase' = "allocate" /\ status[t] = "candidate"
      /\ desk' = desk /\ ledger' = ledger /\ now' = now /\ rivals' = rivals /\ dd' = dd
      /\ risk' = risk /\ status' = [status EXCEPT ![t] = "passed"]
      /\ available' = available /\ ledger[t].entry = now
    BY DEF IInv, PassOver, First, Timely
<1>2. \A u \in Trades : u # t => status'[u] = status[u]
    BY <1>1 DEF TypeOK
<1>3. status'[t] = "passed"
    BY <1>1 DEF TypeOK
<1>4. Untouched'
    <2>1. now \in Nat /\ ~ Upcoming(t)
        BY <1>1 DEF Upcoming, TypeOK
    <2> QED
        BY <1>1, <1>2, <2>1 DEF Sharing, Untouched, Upcoming
<1>5. CASE desk.limit = "bucket"
    <2>1. /\ Slot \div rivals \in Nat /\ FinalRisk = Portion
          /\ Portion \in Nat /\ Portion <= Slot \div rivals
          /\ available >= Slot \div rivals
          /\ available >= (Slot \div rivals) * Cardinality(In("candidate") \ {t})
        BY <1>1, <1>5, EqualSlices
    <2>2. Portion = 0
        <3>1. ~ (available > 0 /\ Portion > 0) /\ available \in Int
            BY <1>1, <2>1 DEF PassOver, TypeOK
        <3> QED
            BY <2>1, <3>1
    <2>3. risk[t] = 0
        BY <1>1, <1>5 DEF Sharing, Dividing, ThisTick
    <2>4. Portioned' /\ Even'
        BY <1>1 DEF Sharing, Portioned, Even, Cluster
    <2>5. In("candidate")' = In("candidate") \ {t}
        BY <1>1, <1>2, <1>3 DEF In
    <2>6. Portion' = Portion /\ ThisTick' = ThisTick
        BY <1>1 DEF Portion, Scale, ThisTick
    <2>7. \A u \in ThisTick : risk'[u] = IF status'[u] = "candidate" THEN 0 ELSE Portion
        BY <1>1, <1>2, <1>3, <1>5, <2>2, <2>3 DEF Sharing, Dividing, ThisTick
    <2>8. Dividing'
        BY <1>1, <1>5, <2>1, <2>5, <2>6, <2>7 DEF Sharing, Dividing
    <2> QED
        BY <1>4, <2>4, <2>8 DEF Sharing
<1>6. CASE desk.limit # "bucket"
    BY <1>1, <1>4, <1>6 DEF Sharing, Portioned, Dividing, Even
<1> QED
    BY <1>5, <1>6

LEMMA EndTickShares ==
    ASSUME IInv, Sharing, EndTick
    PROVE  Sharing'
<1>1. /\ phase = "allocate" /\ phase' = "next" /\ In("candidate") = {}
      /\ desk' = desk /\ ledger' = ledger /\ now' = now /\ risk' = risk /\ status' = status
    BY DEF EndTick
<1>2. Untouched' /\ Portioned' /\ Dividing'
    BY <1>1 DEF Sharing, Untouched, Upcoming, Portioned, Dividing, Cluster
<1>3. Even'
    <2>1. SUFFICES ASSUME desk.limit = "bucket", NEW t \in Trades, NEW u \in Trades,
                          ledger[t].entry = ledger[u].entry
                   PROVE  risk[t] = risk[u]
        BY <1>1 DEF Even
    <2>2. \A v \in ThisTick : risk[v] = Portion
        BY <1>1, <2>1 DEF Sharing, Dividing, In, ThisTick
    <2> QED
        BY <1>1, <2>1, <2>2 DEF Sharing, Even, ThisTick
<1> QED
    BY <1>2, <1>3 DEF Sharing

LEMMA SharingStep ==
    ASSUME IInv, Sharing, [Next]_vars
    PROVE  Sharing'
<1>1. CASE Done \/ UNCHANGED vars
    <2>1. /\ desk' = desk /\ ledger' = ledger /\ now' = now /\ phase' = phase /\ risk' = risk
          /\ status' = status /\ rivals' = rivals /\ dd' = dd /\ available' = available
        BY <1>1 DEF Done, vars
    <2>2. Untouched' /\ Portioned' /\ Even'
        BY <2>1 DEF Sharing, Untouched, Upcoming, Portioned, Cluster, Even
    <2>3. ThisTick' = ThisTick /\ In("candidate")' = In("candidate") /\ Portion' = Portion
        BY <2>1 DEF ThisTick, In, Portion, Scale
    <2>4. Dividing'
        BY <2>1, <2>3 DEF Sharing, Dividing
    <2> QED
        BY <2>2, <2>4 DEF Sharing
<1>2. ASSUME NEW t \in Trades, Replay(t) PROVE Sharing'
    <2>1. desk' = desk /\ desk \in Desks /\ desk.clock = "replay"
        BY <1>2 DEF Replay, IInv, TypeOK
    <2>2. desk.limit = "none"
        BY <2>1, PortfolioAssumption
    <2> QED
        BY <2>1, <2>2 DEF Sharing, Untouched, Portioned, Dividing, Even
<1> QED
    BY <1>1, <1>2, NextTickShares, SettleShares, SurveyShares, AllocateShares, PassOverShares,
       EndTickShares DEF Next

\* The signals of a tick get equal shares of the bucket and together no more
\* than the risk of one trade, whatever their number.
THEOREM BucketIsShared == Spec => []BucketShared
<1>1. Init => Sharing
    <2>1. SUFFICES ASSUME Init PROVE Sharing
        OBVIOUS
    <2>2. /\ phase = "next"
          /\ \A t \in Trades : status[t] = "waiting" /\ risk[t] = 0
        BY <2>1 DEF Init
    <2>3. \A t \in Trades : Slot \div Cardinality(Cluster(t)) \in Nat
        BY ClusterIsCounted
    <2> QED
        BY <2>2, <2>3 DEF Sharing, Untouched, Portioned, Dividing, Even
<1>2. IInv /\ Sharing /\ [Next]_vars => Sharing'
    BY SharingStep
<1>3. IInv /\ Sharing => BucketShared
    <2>1. SUFFICES ASSUME IInv, Sharing, desk.limit = "bucket", NEW t \in Trades
                   PROVE  /\ SumFunctionOnSet(risk, Cluster(t)) <= Slot
                          /\ phase # "allocate" => \A u \in Cluster(t) : risk[u] = risk[t]
        BY DEF BucketShared, Cluster
    <2>2. SumFunctionOnSet(risk, Cluster(t)) <= Slot
        BY <2>1, SharesAddUp DEF IInv, Sharing
    <2>3. phase # "allocate" => \A u \in Cluster(t) : risk[u] = risk[t]
        BY <2>1 DEF Sharing, Even, Cluster
    <2> QED
        BY <2>2, <2>3
<1> QED
    BY <1>1, <1>2, <1>3, Invariance, PTL DEF Spec

-----------------------------------------------------------------------------
(* Arithmetic for the drawdown.                                              *)

LEMMA Scaled ==
    ASSUME NEW a \in Int, NEW b \in Int, NEW k \in Nat, a <= b
    PROVE  a * k <= b * k /\ k * a <= k * b
  OBVIOUS

LEMMA Unscaled ==
    ASSUME NEW a \in Int, NEW b \in Int, NEW k \in Nat \ {0}, k * a <= k * b
    PROVE  a <= b
  OBVIOUS

LEMMA Quotient ==
    ASSUME NEW a \in Int, NEW n \in Nat \ {0}
    PROVE  /\ a \div n \in Int
           /\ (a \div n) * n <= a /\ a < (a \div n) * n + n
           /\ a >= 0 => a \div n >= 0
  OBVIOUS

LEMMA QuotientIsGreatest ==
    ASSUME NEW a \in Int, NEW n \in Nat \ {0}, NEW k \in Int, k * n <= a
    PROVE  k <= a \div n
<1> DEFINE q == a \div n
<1>1. q \in Int /\ a < q * n + n
    BY Quotient
<1> HIDE DEF q
<1>2. q * n + n = (q + 1) * n
    BY <1>1
<1>3. k * n < (q + 1) * n
    BY <1>1, <1>2
<1>4. k < q + 1
    BY <1>1, <1>3
<1> QED
    BY <1>1, <1>4 DEF q

\* When e more is lost a balance b is below its peak p by no more than 25% and
\* what is at risk; an amount is no more than what is at risk.
Cushion(b, p, e, a) == (p - b + e) * (Unit * Whole) <= p * (2500 * Whole + a)

Backed(e, p, a) == e * (Unit * Whole) <= p * a

\* A distance from the peak that is within a bound, as a drawdown.
LEMMA WithinBound ==
    ASSUME NEW p, NEW b, NEW a, p \in Nat \ {0}, b \in Int, a \in Nat,
           Cushion(b, p, 0, a)
    PROVE  Drawdown(b, p) <= 2500 + a \div Whole
<1> DEFINE x == (p - b) * Unit
           d == x \div p
<1>1. Whole \in Nat \ {0} /\ Unit = 10000
    BY PortfolioAssumption DEF Unit
<1>2. x \in Int /\ x * Whole <= p * (2500 * Whole + a)
    BY <1>1 DEF Cushion
<1> HIDE DEF x
<1>3. d \in Int /\ d * p <= x
    BY <1>2, Quotient
<1> HIDE DEF d
<1>4. (d * p) * Whole <= x * Whole
    BY <1>1, <1>2, <1>3, Scaled
<1>5. p * (d * Whole) <= p * (2500 * Whole + a)
    BY <1>1, <1>2, <1>3, <1>4
<1>6. d * Whole <= 2500 * Whole + a
    <2> DEFINE u == d * Whole
               v == 2500 * Whole + a
    <2>1. u \in Int /\ v \in Int /\ p * u <= p * v
        BY <1>1, <1>3, <1>5
    <2> HIDE DEF u, v
    <2>2. u <= v
        BY <2>1, Unscaled
    <2> QED
        BY <2>2 DEF u, v
<1>7. (d - 2500) * Whole <= a
    BY <1>1, <1>3, <1>6
<1>8. d - 2500 <= a \div Whole
    <2> DEFINE k == d - 2500
    <2>1. k \in Int /\ a \in Int /\ k * Whole <= a
        BY <1>3, <1>7
    <2> HIDE DEF k
    <2>2. k <= a \div Whole
        BY <1>1, <2>1, QuotientIsGreatest
    <2> QED
        BY <2>2 DEF k
<1>9. d <= 2500 + a \div Whole
    BY <1>1, <1>3, <1>8, Quotient
<1> QED
    BY <1>9 DEF Drawdown, d, x

\* Before the halt three quarters of the peak are left.
LEMMA BeforeTheHalt ==
    ASSUME NEW p \in Nat \ {0}, NEW b \in Int, Drawdown(b, p) < 2500
    PROVE  b \in Nat /\ (p - b) * (Unit * Whole) <= p * (2500 * Whole)
<1> DEFINE x == (p - b) * Unit
           d == x \div p
<1>1. Whole \in Nat \ {0} /\ Unit = 10000 /\ x = (p - b) * 10000
    BY PortfolioAssumption DEF Unit
<1>2. x \in Int /\ d < 2500
    BY <1>1 DEF Drawdown
<1> HIDE DEF x
<1>3. d \in Int /\ x < d * p + p
    BY <1>2, Quotient
<1> HIDE DEF d
<1>4. (d + 1) * p <= 2500 * p
    BY <1>2, <1>3, Scaled
<1>5. (d + 1) * p = d * p + p
    BY <1>3
<1>6. x <= 2500 * p
    BY <1>2, <1>3, <1>4, <1>5
<1>7. b \in Nat
    BY <1>1, <1>6
<1>8. x * Whole <= (2500 * p) * Whole
    BY <1>1, <1>2, <1>6, Scaled
<1>9. (p - b) * (Unit * Whole) = x * Whole /\ p * (2500 * Whole) = (2500 * p) * Whole
    BY <1>1
<1> QED
    BY <1>7, <1>8, <1>9

\* A stake is a part of the balance, and no greater part of the peak.
LEMMA StakeIsPart ==
    ASSUME NEW b \in Nat, NEW p \in Nat, b <= p, NEW r \in Nat
    PROVE  /\ (b * r) \div Whole \in Nat
           /\ ((b * r) \div Whole) * Whole <= p * r
<1>1. Whole \in Nat \ {0}
    BY PortfolioAssumption
<1>2. b * r \in Nat /\ b * r <= p * r
    BY Scaled
<1>3. /\ (b * r) \div Whole \in Int /\ (b * r) \div Whole >= 0
      /\ ((b * r) \div Whole) * Whole <= b * r
    <2> DEFINE x == b * r
    <2>1. x \in Int /\ x >= 0
        BY <1>2
    <2> HIDE DEF x
    <2>2. x \div Whole \in Int /\ x \div Whole >= 0 /\ (x \div Whole) * Whole <= x
        BY <1>1, <2>1, Quotient
    <2> QED
        BY <2>2 DEF x
<1> DEFINE s == (b * r) \div Whole
<1>4. s \in Nat /\ s * Whole <= b * r
    BY <1>3
<1> HIDE DEF s
<1>5. s * Whole <= p * r
    BY <1>1, <1>2, <1>4
<1> QED
    BY <1>4, <1>5 DEF s

-----------------------------------------------------------------------------
(* The drawdown of a desk that halts.  Whatever happens to the positions     *)
(* that are open, the balance stays within 25% and what is at risk of the    *)
(* peak: their stakes are counted as if they were lost.                      *)

Exposed == SumFunctionOnSet(capital, In("open"))

\* A stake is the part of the peak that its risk says, or less.
Staked ==
    Halts => \A t \in In("open") : capital[t] \in Nat /\ capital[t] * Whole <= peak * risk[t]

Cushioned ==
    Halts => Cushion(balance, peak, Exposed, AtRisk)

\* A replay that measures after its results is never above its peak.
Ahead == desk.clock = "replay" /\ desk.measured # "before" => balance <= peak

Guarded == Staked /\ Cushioned /\ Ahead /\ DrawdownLimited

LEMMA WhatIsAtRisk ==
    ASSUME TypeOK
    PROVE  /\ AtRisk \in Nat /\ Whole \in Nat \ {0} /\ Unit * Whole \in Nat \ {0}
           /\ desk.limit = "heat" => AtRisk = HeatCap * Unit
           /\ desk.clock = "replay" =>
                AtRisk = Slot * (Unit + IF desk.costs THEN Friction ELSE 0)
           /\ Halts => desk.limit = "heat" \/ desk.clock = "replay"
<1>1. desk \in Desks /\ desk \in Desk
    BY PortfolioAssumption DEF TypeOK
<1>2. /\ HeatCap \in Nat /\ Slot \in Nat /\ Friction \in Nat /\ Whole \in Nat \ {0}
      /\ Unit = 10000
    BY PortfolioAssumption DEF Unit
<1>3. HeatCap * Unit \in Nat /\ Slot * (Unit + Friction) \in Nat /\ Slot * (Unit + 0) \in Nat
    BY <1>2
<1>4. AtRisk \in Nat
    BY <1>3 DEF AtRisk
<1>5. desk.clock = "replay" => desk.limit # "heat"
    BY <1>1, PortfolioAssumption
<1>6. Halts => desk.limit = "heat" \/ desk.clock = "replay"
    BY <1>1, PortfolioAssumption DEF Halts
<1> QED
    BY <1>2, <1>4, <1>5, <1>6 DEF AtRisk

\* Stakes in proportion to risks that are limited are limited.
LEMMA StakesAreLimited ==
    ASSUME NEW S \in SUBSET Trades, NEW c, NEW r, NEW p \in Nat, NEW h \in Nat,
           \A t \in S : c[t] \in Nat /\ r[t] \in Int /\ c[t] * Whole <= p * r[t],
           SumFunctionOnSet(r, S) <= h
    PROVE  /\ SumFunctionOnSet(c, S) \in Nat
           /\ Backed(SumFunctionOnSet(c, S), p, h * Unit)
<1> DEFINE C == SumFunctionOnSet(c, S)
           R == SumFunctionOnSet(r, S)
           z == [t \in S |-> 0]
<1>1. IsFiniteSet(S) /\ Whole \in Nat /\ Unit = 10000
    BY PortfolioAssumption, FS_Subset DEF Unit
<1>2. C \in Int /\ R \in Int
    BY <1>1, SumIsInt
<1>3. C * Whole <= p * R
    <2>1. \A t \in S : c[t] \in Int /\ r[t] \in Int /\ c[t] * Whole <= p * r[t]
        OBVIOUS
    <2>2. SumFunctionOnSet(c, S) * Whole <= p * SumFunctionOnSet(r, S)
        BY ONLY <1>1, <2>1, p \in Nat, SumInProportion
    <2> QED
        BY <2>2
<1>4. C >= 0
    <2>1. \A t \in S : z[t] = 0
        OBVIOUS
    <2> HIDE DEF z
    <2>2. SumFunctionOnSet(z, S) <= C
        BY <1>1, <2>1, SumAtMost
    <2>3. SumFunctionOnSet(z, S) = Cardinality(S) * 0 /\ Cardinality(S) \in Nat
        BY <1>1, <2>1, SumOfEqual, FS_CardinalityType
    <2> QED
        BY <1>2, <2>2, <2>3
<1>5. R <= h
    OBVIOUS
<1> HIDE DEF C, R
<1>6. p * R <= p * h /\ p * R \in Int /\ p * h \in Int
    BY <1>2, <1>5, Scaled
<1>7. C * (Unit * Whole) = (C * Whole) * 10000 /\ p * (h * Unit) = (p * h) * 10000
    BY <1>1, <1>2
<1>8. C * Whole \in Int
    BY <1>1, <1>2
<1>9. (C * Whole) * 10000 <= (p * h) * 10000
    BY <1>3, <1>6, <1>8
<1>10. C \in Nat /\ Backed(C, p, h * Unit)
    BY <1>2, <1>4, <1>7, <1>9 DEF Backed
<1> QED
    BY <1>10 DEF C

LEMMA ExposureIsLimited ==
    ASSUME IInv, HeatSummed, Staked, Halts
    PROVE  /\ Exposed \in Nat /\ Backed(Exposed, peak, AtRisk)
           /\ desk.clock = "replay" => Exposed = 0
<1>1. TypeOK /\ peak \in Nat
    BY DEF IInv, TypeOK
<1>2. CASE desk.clock = "replay"
    <2>1. In("open") = {}
        BY <1>2 DEF IInv, Timely, In
    <2>2. Exposed = 0
        BY <2>1, SumEmpty DEF Exposed
    <2>3. peak * AtRisk \in Nat
        BY <1>1, WhatIsAtRisk
    <2> QED
        BY <1>1, <2>2, <2>3, WhatIsAtRisk DEF Backed
<1>3. CASE desk.clock # "replay"
    <2>1. desk.limit = "heat" /\ AtRisk = HeatCap * Unit
        BY <1>1, <1>3, WhatIsAtRisk
    <2>2. SumFunctionOnSet(risk, In("open")) <= HeatCap
        BY <2>1 DEF IInv, HeatWithin, HeatSummed
    <2>3. \A t \in In("open") : capital[t] \in Nat /\ risk[t] \in Int /\ capital[t] * Whole <= peak * risk[t]
        BY <1>1, OpenIsFinite DEF Staked
    <2>4. In("open") \in SUBSET Trades /\ HeatCap \in Nat
        BY <1>1, OpenIsFinite, PortfolioAssumption
    <2> QED
        BY <1>1, <1>3, <2>1, <2>2, <2>3, <2>4, StakesAreLimited DEF Exposed
<1> QED
    BY <1>2, <1>3

\* A balance that is within the bound below the peak, and what is exposed, are
\* so below the higher of the two.
LEMMA PeakKeepsBound ==
    ASSUME NEW p, NEW b, NEW e, NEW a, p \in Nat \ {0}, b \in Int, e \in Nat, a \in Nat,
           Cushion(b, p, e, a), Backed(e, p, a)
    PROVE  /\ Higher(p, b) \in Nat \ {0} /\ Higher(p, b) >= p
           /\ Cushion(b, Higher(p, b), e, a)
           /\ Drawdown(b, Higher(p, b)) <= 2500 + a \div Whole
<1> DEFINE q == Higher(p, b)
           k == Unit * Whole
           m == 2500 * Whole + a
<1>1. k \in Nat \ {0} /\ m \in Nat /\ a <= m
    BY PortfolioAssumption DEF Unit
<1>2. (p - b + e) * k <= p * m /\ e * k <= p * a
    BY DEF Cushion, Backed
<1>3. q \in Nat \ {0} /\ q >= p /\ (q = p \/ (q = b /\ b > p))
    BY DEF Higher
<1> HIDE DEF k, m, q
<1>4. (q - b + e) * k <= q * m
    <2>1. CASE q = p
        BY <1>2, <2>1
    <2>2. CASE q = b /\ b > p
        <3>1. p * a <= q * a /\ q * a <= q * m
            BY <1>1, <1>3, Scaled
        <3>2. p * a \in Nat /\ q * a \in Nat /\ q * m \in Nat /\ e * k \in Nat
            BY <1>1, <1>3
        <3>3. q - b + e = e
            BY <1>3, <2>2
        <3> QED
            BY <1>2, <3>1, <3>2, <3>3
    <2> QED
        BY <1>3, <2>1, <2>2
<1>5. (q - b) * k <= q * m
    <2>1. (q - b) * k <= (q - b + e) * k
        BY <1>1, <1>3, Scaled
    <2>2. (q - b) * k \in Int /\ (q - b + e) * k \in Int /\ q * m \in Int
        BY <1>1, <1>3
    <2> QED
        BY <1>4, <2>1, <2>2
<1>6. Drawdown(b, q) <= 2500 + a \div Whole
    <2>1. q - b + 0 = q - b
        BY <1>3
    <2>2. Cushion(b, q, 0, a)
        BY <1>5, <2>1 DEF k, m, Cushion
    <2> QED
        BY <1>3, <2>2, WithinBound
<1> QED
    BY <1>3, <1>4, <1>6 DEF k, m, q, Cushion

\* A step that changes no amount and opens or settles nothing.
LEMMA GuardStays ==
    ASSUME TypeOK, Guarded, desk' = desk, balance' = balance, peak' = peak, maxdd' = maxdd,
           capital' = capital, risk' = risk, In("open")' = In("open")
    PROVE  Guarded'
<1>1. Exposed' = Exposed /\ AtRisk' = AtRisk /\ (Halts' <=> Halts)
    BY DEF Exposed, AtRisk, Halts
<1> QED
    BY <1>1 DEF Guarded, Staked, Cushioned, Ahead, DrawdownLimited

LEMMA SurveyGuards ==
    ASSUME IInv, HeatSummed, Guarded, Survey
    PROVE  Guarded'
<1>1. /\ TypeOK /\ desk' = desk /\ balance' = balance /\ risk' = risk /\ capital' = capital
      /\ desk.clock # "replay" /\ peak' = Higher(peak, balance) /\ balance \in Int
      /\ peak \in Nat \ {0} /\ maxdd \in Nat /\ maxdd' = Higher(maxdd, dd')
      /\ dd' = Drawdown(balance, peak')
    BY DEF IInv, Timely, Survey, Measure, TypeOK
<1>2. In("open")' = In("open")
    BY <1>1 DEF Survey, In, Signals
<1>3. Exposed' = Exposed /\ AtRisk' = AtRisk /\ (Halts' <=> Halts)
    BY <1>1, <1>2 DEF Exposed, AtRisk, Halts
<1>4. SUFFICES ASSUME Halts PROVE Guarded'
    BY <1>1, <1>3 DEF Guarded, Staked, Cushioned, Ahead, DrawdownLimited
<1>5. Exposed \in Nat /\ Backed(Exposed, peak, AtRisk) /\ AtRisk \in Nat
    BY <1>1, <1>4, ExposureIsLimited, WhatIsAtRisk DEF Guarded
<1>6. /\ peak' \in Nat \ {0} /\ peak' >= peak
      /\ Cushion(balance, peak', Exposed, AtRisk)
      /\ dd' <= 2500 + AtRisk \div Whole
    <2>1. Cushion(balance, peak, Exposed, AtRisk)
        BY <1>4 DEF Guarded, Cushioned
    <2>2. /\ peak' \in Nat \ {0} /\ peak' >= peak
          /\ Cushion(balance, peak', Exposed, AtRisk)
          /\ Drawdown(balance, peak') <= 2500 + AtRisk \div Whole
        <3>1. peak' = Higher(peak, balance) /\ peak \in Nat \ {0} /\ balance \in Int
            BY <1>1
        <3>2. Cushion(balance, Higher(peak, balance), Exposed, AtRisk)
            BY <1>5, <2>1, <3>1, PeakKeepsBound
        <3>3. /\ Higher(peak, balance) \in Nat \ {0} /\ Higher(peak, balance) >= peak
              /\ Drawdown(balance, Higher(peak, balance)) <= 2500 + AtRisk \div Whole
            BY <1>5, <2>1, <3>1, <3>2, PeakKeepsBound
        <3> QED
            BY <3>1, <3>2, <3>3
    <2> QED
        BY <1>1, <2>2
<1>7. Staked'
    <2>1. SUFFICES ASSUME NEW t \in In("open")
                   PROVE  capital[t] \in Nat /\ capital[t] * Whole <= peak' * risk[t]
        BY <1>1, <1>2 DEF Staked
    <2>2. capital[t] \in Nat /\ capital[t] * Whole <= peak * risk[t] /\ risk[t] \in 0 .. Slot
        BY <1>1, <1>4, <2>1 DEF Guarded, Staked, In, TypeOK
    <2>3. risk[t] \in Nat /\ Whole \in Nat
        BY <2>2, PortfolioAssumption
    <2>4. peak * risk[t] <= peak' * risk[t]
        BY <1>1, <1>6, <2>3, Scaled
    <2> QED
        BY <1>1, <1>6, <2>2, <2>3, <2>4
<1>8. DrawdownLimited'
    BY <1>1, <1>3, <1>4, <1>6 DEF DrawdownLimited, Guarded, Higher
<1>9. Cushioned' /\ Ahead'
    BY <1>1, <1>3, <1>6 DEF Cushioned, Ahead
<1> QED
    BY <1>7, <1>8, <1>9 DEF Guarded

LEMMA SettleGuards ==
    ASSUME IInv, HeatSummed, Guarded, NEW t \in Trades, Settle(t)
    PROVE  Guarded'
<1>1. /\ TypeOK /\ desk' = desk /\ risk' = risk /\ capital' = capital /\ peak' = peak
      /\ maxdd' = maxdd /\ status[t] = "open" /\ balance' = balance + capital[t] * ledger[t].mult
      /\ balance \in Int /\ peak \in Nat \ {0} /\ desk.clock # "replay"
    BY DEF IInv, Timely, Settle, Due, TypeOK
<1>2. In("open")' = In("open") \ {t} /\ t \in In("open")
    BY <1>1 DEF Settle, In, TypeOK
<1>3. AtRisk' = AtRisk /\ (Halts' <=> Halts)
    BY <1>1 DEF AtRisk, Halts
<1>4. Staked' /\ Ahead' /\ DrawdownLimited'
    BY <1>1, <1>2, <1>3 DEF Guarded, Staked, Ahead, DrawdownLimited
<1>5. Cushioned'
    <2>1. SUFFICES ASSUME Halts
                   PROVE  Cushion(balance', peak, Exposed', AtRisk)
        BY <1>1, <1>3 DEF Cushioned
    <2>2. Exposed = Exposed' + capital[t] /\ Exposed' \in Int
        <3>1. \A u \in In("open") : capital[u] \in Int
            BY <1>1, OpenIsFinite
        <3>2. SumFunctionOnSet(capital, In("open")) = SumFunctionOnSet(capital, In("open") \ {t}) + capital[t]
            BY <1>1, <1>2, <3>1, OpenIsFinite, SumWithout
        <3>3. SumFunctionOnSet(capital, In("open") \ {t}) \in Int
            BY <1>1, <3>1, OpenIsFinite, SumIsInt
        <3> QED
            BY <1>1, <1>2, <3>2, <3>3 DEF Exposed
    <2>3. capital[t] \in Nat /\ ledger[t].mult \in Int /\ ledger[t].mult >= -1
        BY <1>1, <1>2, <2>1, LedgerIsTyped DEF Guarded, Staked
    <2>4. capital[t] * (-1) <= capital[t] * ledger[t].mult
        BY <2>3, Scaled
    <2>5. balance' \in Int /\ balance' >= balance - capital[t]
        BY <1>1, <2>3, <2>4
    <2>6. peak - balance' + Exposed' <= peak - balance + Exposed
        BY <1>1, <2>2, <2>3, <2>5
    <2> DEFINE k == Unit * Whole
               m == 2500 * Whole + AtRisk
               x == peak - balance' + Exposed'
               y == peak - balance + Exposed
    <2>7. k \in Nat /\ m \in Nat /\ x \in Int /\ y \in Int /\ x <= y /\ y * k <= peak * m
        BY <1>1, <2>1, <2>2, <2>3, <2>5, <2>6, WhatIsAtRisk DEF Guarded, Cushioned, Cushion
    <2> HIDE DEF k, m, x, y
    <2>8. x * k <= y * k
        BY <2>7, Scaled
    <2>9. x * k <= peak * m
        BY <1>1, <2>7, <2>8
    <2> QED
        BY <2>9 DEF k, m, x, Cushion
<1> QED
    BY <1>4, <1>5 DEF Guarded

\* A position is only opened before the halt, from a balance that is not above
\* the peak.
LEMMA OpenedBeforeTheHalt ==
    ASSUME IInv, Halts, NEW t \in Trades, Allocate(t)
    PROVE  /\ balance \in Nat /\ balance <= peak /\ desk.clock # "replay"
           /\ (peak - balance) * (Unit * Whole) <= peak * (2500 * Whole)
           /\ FinalRisk \in Nat
           /\ (balance * FinalRisk) \div Whole \in Nat
           /\ ((balance * FinalRisk) \div Whole) * Whole <= peak * FinalRisk
<1>1. /\ TypeOK /\ phase = "allocate" /\ available > 0 /\ FinalRisk > 0 /\ rivals > 0
      /\ balance <= peak /\ dd = Drawdown(balance, peak) /\ dd \in Int
      /\ balance \in Int /\ peak \in Nat \ {0} /\ desk.clock # "replay"
    BY DEF IInv, Allocate, First, Timely, Surveyed, TypeOK
<1>2. FinalRisk \in 0 .. Slot /\ Slice \in 0 .. Slot /\ Slot \in Nat
    BY <1>1, FinalRiskIsPart, PortfolioAssumption
<1>3. dd < 2500
    <2>1. SUFFICES ASSUME dd >= 2500 PROVE FALSE
        BY <1>1
    <2>2. Scale(dd) = 0
        BY <1>1, <2>1, ScaleIsShare
    <2>3. FinalRisk = 0
        BY <1>2, <2>2 DEF FinalRisk, Unit
    <2> QED
        BY <1>1, <2>3
<1>4. balance \in Nat /\ (peak - balance) * (Unit * Whole) <= peak * (2500 * Whole)
    <2>1. Drawdown(balance, peak) < 2500
        BY <1>1, <1>3
    <2> QED
        BY <1>1, <2>1, BeforeTheHalt
<1>5. FinalRisk \in Nat
    BY <1>2
<1>6. /\ (balance * FinalRisk) \div Whole \in Nat
      /\ ((balance * FinalRisk) \div Whole) * Whole <= peak * FinalRisk
    BY <1>1, <1>4, <1>5, StakeIsPart
<1> QED
    BY <1>1, <1>4, <1>5, <1>6

LEMMA AllocateGuards ==
    ASSUME IInv, HeatSummed, Guarded, NEW t \in Trades, Allocate(t)
    PROVE  Guarded'
<1> DEFINE stake == (balance * FinalRisk) \div Whole
<1>1. /\ TypeOK /\ TypeOK' /\ desk' = desk /\ balance' = balance /\ peak' = peak /\ maxdd' = maxdd
      /\ risk' = [risk EXCEPT ![t] = FinalRisk] /\ capital' = [capital EXCEPT ![t] = stake]
      /\ status[t] = "candidate"
      /\ HeatSummed' /\ HeatWithin'
    BY AllocateKeeps, AllocateAddsHeat DEF IInv, Allocate, First
<1>2. /\ \A u \in Trades : u # t => risk'[u] = risk[u] /\ capital'[u] = capital[u]
      /\ risk'[t] = FinalRisk /\ capital'[t] = stake
    BY <1>1 DEF TypeOK
<1>3. In("open")' = In("open") \cup {t}
    BY <1>1 DEF Allocate, In, TypeOK
<1>4. AtRisk' = AtRisk /\ (Halts' <=> Halts)
    BY <1>1 DEF AtRisk, Halts
<1>5. Ahead' /\ DrawdownLimited'
    BY <1>1, <1>4 DEF Guarded, Ahead, DrawdownLimited
<1>6. SUFFICES ASSUME Halts PROVE Guarded'
    BY <1>4, <1>5 DEF Guarded, Staked, Cushioned
<1>7. /\ balance \in Nat /\ balance <= peak /\ desk.clock # "replay"
      /\ (peak - balance) * (Unit * Whole) <= peak * (2500 * Whole)
      /\ stake \in Nat /\ stake * Whole <= peak * FinalRisk
    BY <1>6, OpenedBeforeTheHalt
<1> HIDE DEF stake
<1>8. \A u \in In("open") \cup {t} : capital'[u] \in Nat /\ capital'[u] * Whole <= peak * risk'[u]
    <2>1. SUFFICES ASSUME NEW u \in In("open") \cup {t}
                   PROVE  capital'[u] \in Nat /\ capital'[u] * Whole <= peak * risk'[u]
        OBVIOUS
    <2>2. CASE u = t
        BY <1>2, <1>7, <2>2
    <2>3. CASE u # t
        BY <1>2, <1>6, <2>1, <2>3 DEF Guarded, Staked, In
    <2> QED
        BY <2>2, <2>3
<1>9. Staked'
    BY <1>1, <1>3, <1>8 DEF Staked
<1>10. Cushioned'
    <2> DEFINE e == SumFunctionOnSet(capital', In("open") \cup {t})
    <2>1. Exposed' = e
        BY <1>3 DEF Exposed
    <2>2. desk.limit = "heat" /\ AtRisk = HeatCap * Unit /\ HeatCap \in Nat
        BY <1>1, <1>6, <1>7, WhatIsAtRisk, PortfolioAssumption
    <2>3. SumFunctionOnSet(risk', In("open") \cup {t}) <= HeatCap
        BY <1>1, <1>3, <2>2 DEF HeatWithin, HeatSummed
    <2>4. \A u \in In("open") \cup {t} : risk'[u] \in Int
        BY <1>1, OpenIsFinite, PortfolioAssumption DEF TypeOK
    <2>5. In("open") \cup {t} \in SUBSET Trades /\ peak \in Nat
        BY <1>1, OpenIsFinite DEF TypeOK
    <2>6. e \in Nat /\ Backed(e, peak, HeatCap * Unit)
        BY <1>8, <2>2, <2>3, <2>4, <2>5, StakesAreLimited
    <2> HIDE DEF e
    <2> DEFINE k == Unit * Whole
               w == 2500 * Whole
               a == HeatCap * Unit
    <2>7. k \in Nat /\ w \in Nat /\ a \in Nat
        BY <2>2, PortfolioAssumption DEF Unit
    <2>8. (peak - balance) * k <= peak * w /\ e * k <= peak * a
        BY <1>7, <2>6 DEF Backed
    <2> HIDE DEF k, w, a
    <2>9. (peak - balance + e) * k = (peak - balance) * k + e * k /\ peak * (w + a) = peak * w + peak * a
        BY <1>7, <2>5, <2>6, <2>7
    <2>10. (peak - balance) * k \in Int /\ e * k \in Int /\ peak * w \in Int /\ peak * a \in Int
        BY <1>7, <2>5, <2>6, <2>7
    <2>11. (peak - balance + e) * k <= peak * (w + a)
        BY <2>8, <2>9, <2>10
    <2>12. Cushion(balance, peak, e, HeatCap * Unit)
        BY <2>11 DEF Cushion, k, w, a
    <2> QED
        BY <1>1, <1>4, <2>1, <2>2, <2>12 DEF Cushioned
<1> QED
    BY <1>5, <1>9, <1>10 DEF Guarded

\* The stake of a trade, its costs, and the balance after it.
StakeWithin(s, p) == s * Whole <= p * Slot

CostWithin(c, s, f) == c * Unit <= s * f

After(b, s, m, c) == b + (s * m - c)

\* What one replayed trade can cost: the stake and the friction on it.
LEMMA LossOfATrade ==
    ASSUME NEW p \in Nat \ {0}, NEW b \in Int, NEW s \in Nat, NEW c \in Nat, NEW f \in Nat,
           NEW m \in Int, m >= -1,
           StakeWithin(s, p), CostWithin(c, s, f), Cushion(b, p, 0, 0)
    PROVE  Cushion(After(b, s, m, c), p, 0, Slot * (Unit + f))
<1> USE DEF StakeWithin, CostWithin, After
<1>0. (p - b) * (Unit * Whole) <= p * (2500 * Whole)
    <2>1. p - b + 0 = p - b /\ 2500 * Whole + 0 = 2500 * Whole
        BY PortfolioAssumption
    <2> QED
        BY <2>1 DEF Cushion
<1> DEFINE k == Unit * Whole
           w == 2500 * Whole
           x == p - b
           y == p - (b + (s * m - c)) + 0
           sm == s * m
<1>1. Whole \in Nat \ {0} /\ Slot \in Nat /\ Unit = 10000
    BY PortfolioAssumption DEF Unit
<1>2. k \in Nat /\ w \in Nat /\ x \in Int /\ x * k <= p * w /\ k = 10000 * Whole
    BY <1>0, <1>1
<1>3. s * (-1) <= s * m /\ s * (-1) = - s /\ sm \in Int
    BY Scaled
<1> HIDE DEF sm
<1>4. y \in Int /\ y <= x + (s + c)
    BY <1>3 DEF sm
<1>5. (s + c) * k <= p * (Slot * (10000 + f))
    <2>1. s * k = (s * Whole) * 10000 /\ c * k = (c * 10000) * Whole
        BY <1>1, <1>2
    <2>2. s * Whole \in Nat /\ c * 10000 \in Nat /\ s * f \in Nat /\ p * Slot \in Nat
        BY <1>1
    <2>3. (c * 10000) * Whole <= (s * f) * Whole
        BY <1>1, <2>2, Scaled
    <2>4. (s * f) * Whole = (s * Whole) * f
        BY <1>1
    <2>5. (s * Whole) * f <= (p * Slot) * f
        BY <2>2, Scaled
    <2>6. (s + c) * k = s * k + c * k
        BY <1>2
    <2>7. p * (Slot * (10000 + f)) = (p * Slot) * 10000 + (p * Slot) * f
        BY <1>1
    <2>8. (s * Whole) * 10000 <= (p * Slot) * 10000
        BY <2>2
    <2>9. s * k \in Int /\ c * k \in Int /\ (p * Slot) * f \in Int /\ (s * Whole) * f \in Int
        BY <1>1, <1>2, <2>2
    <2> QED
        BY <2>1, <2>2, <2>3, <2>4, <2>5, <2>6, <2>7, <2>8, <2>9
<1> DEFINE a == Slot * (Unit + f)
           sc == s + c
<1>6. a \in Nat /\ sc \in Nat /\ sc * k <= p * a /\ y <= x + sc
    BY <1>1, <1>4, <1>5
<1> HIDE DEF k, w, x, y, a, sc
<1>7. y * k <= (x + sc) * k
    BY <1>2, <1>4, <1>6, Scaled
<1>8. (x + sc) * k = x * k + sc * k /\ p * (w + a) = p * w + p * a
    BY <1>2, <1>6
<1>9. y * k \in Int /\ x * k \in Int /\ sc * k \in Int /\ p * w \in Int /\ p * a \in Int
    BY <1>2, <1>4, <1>6
<1>10. y * k <= p * (w + a)
    BY <1>2, <1>6, <1>7, <1>8, <1>9
<1> QED
    BY <1>10 DEF Cushion, y, k, w, a

\* A replayed trade loses no more than what is at risk, and nothing after the
\* halt.
LEMMA ReplayedLoss ==
    ASSUME IInv, HeatSummed, Guarded, Halts, NEW t \in Trades, Replay(t)
    PROVE  Cushion(balance', Higher(peak, balance), 0, AtRisk)
<1> DEFINE P == Higher(peak, balance)
           before == Drawdown(balance, P)
           FinalOf(w) == (((Slot * Scale(before)) \div Unit) * w) \div Unit
           StakeOf(w) == (balance * FinalOf(w)) \div Whole
           CostOf(s) == IF desk.costs THEN (s * Friction) \div Unit ELSE 0
           f == IF desk.costs THEN Friction ELSE 0
<1>1. /\ TypeOK /\ desk.clock = "replay" /\ balance \in Int /\ peak \in Nat \ {0}
    BY DEF IInv, Replay, TypeOK
<1>2. PICK w \in Weights :
         balance' = balance + (StakeOf(w) * ledger[t].mult - CostOf(StakeOf(w)))
    BY DEF Replay
<1> DEFINE final == FinalOf(w)
           s == StakeOf(w)
           c == CostOf(StakeOf(w))
           m == ledger[t].mult
<1>3. /\ P \in Nat \ {0} /\ balance <= P /\ m \in Int /\ m >= -1 /\ Unit = 10000
      /\ f \in Nat /\ AtRisk = Slot * (Unit + f) /\ Slot \in Nat /\ Whole \in Nat \ {0}
    BY <1>1, LedgerIsTyped, WhatIsAtRisk, PortfolioAssumption DEF Higher, Unit
<1>4. before \in Int /\ final \in 0 .. Slot /\ (before >= 2500 => final = 0)
    <2>1. before \in Int
        BY <1>1, <1>3, DrawdownIsNumber
    <2> HIDE DEF before
    <2> QED
        BY <1>1, <2>1, ReplayedRisk
<1>5. balance' = balance + (s * m - c)
    BY <1>2
<1>6. CASE before >= 2500
    <2>1. final = 0
        BY <1>4, <1>6
    <2>2. s = 0 /\ c = 0
        <3>1. s = (balance * 0) \div Whole
            BY <2>1
        <3>2. s = 0
            BY <1>1, <1>3, <3>1
        <3>3. (0 * Friction) \div Unit = 0
            BY <1>3, PortfolioAssumption
        <3> QED
            BY <3>2, <3>3
    <2>3. balance' = balance
        BY <1>1, <1>3, <1>5, <2>2
    <2>4. Backed(Exposed, peak, AtRisk) /\ Exposed = 0 /\ AtRisk \in Nat
        BY <1>1, ExposureIsLimited, WhatIsAtRisk DEF Guarded
    <2>5. Cushion(balance, peak, 0, AtRisk)
        BY <2>4 DEF Guarded, Cushioned
    <2>6. Cushion(balance, Higher(peak, balance), 0, AtRisk)
        BY <1>1, <2>4, <2>5, PeakKeepsBound
    <2> QED
        BY <2>3, <2>6
<1>7. CASE ~ (before >= 2500)
    <2>1. balance \in Nat /\ (P - balance) * (Unit * Whole) <= P * (2500 * Whole)
        <3>1. Drawdown(balance, P) < 2500
            BY <1>4, <1>7
        <3> HIDE DEF P
        <3> QED
            BY <1>1, <1>3, <3>1, BeforeTheHalt
    <2>2. s \in Nat /\ s * Whole <= P * Slot
        <3> HIDE DEF P, FinalOf
        <3>1. final \in Nat /\ final <= Slot
            BY <1>3, <1>4
        <3>2. s \in Nat /\ s * Whole <= P * final
            <4>1. s = (balance * final) \div Whole
                OBVIOUS
            <4> HIDE DEF s, final
            <4>2. /\ (balance * final) \div Whole \in Nat
                  /\ ((balance * final) \div Whole) * Whole <= P * final
                BY <1>3, <2>1, <3>1, StakeIsPart
            <4> QED
                BY <4>1, <4>2
        <3> HIDE DEF s
        <3>3. P * final <= P * Slot
            BY <1>3, <3>1, Scaled
        <3>4. s * Whole \in Int /\ P * final \in Int /\ P * Slot \in Int
            BY <1>3, <3>1, <3>2
        <3> QED
            BY <3>2, <3>3, <3>4
    <2>3. c \in Nat /\ c * Unit <= s * f
        <3>1. c = CostOf(s)
            OBVIOUS
        <3> HIDE DEF s, c
        <3>2. s * Friction \in Nat /\ Unit \in Nat \ {0}
            BY <1>3, <2>2, PortfolioAssumption
        <3> DEFINE z == s * Friction
        <3>3. z \in Nat
            BY <3>2
        <3> HIDE DEF z
        <3>4. z \div Unit \in Nat /\ (z \div Unit) * Unit <= z
            BY <3>2, <3>3, Quotient
        <3>5. CASE desk.costs
            BY <3>1, <3>4, <3>5 DEF z
        <3>6. CASE ~ desk.costs
            BY <1>3, <2>2, <3>1, <3>2, <3>6
        <3> QED
            BY <3>5, <3>6
    <2> HIDE DEF P, s, c, m, f
    <2>4. Cushion(balance + (s * m - c), P, 0, Slot * (Unit + f))
        <3>1. P - balance + 0 = P - balance /\ 2500 * Whole + 0 = 2500 * Whole
            BY <1>1, <1>3
        <3>2. Cushion(balance, P, 0, 0)
            BY <2>1, <3>1 DEF Cushion
        <3>3. StakeWithin(s, P) /\ CostWithin(c, s, f)
            BY <2>2, <2>3 DEF StakeWithin, CostWithin
        <3>4. Cushion(After(balance, s, m, c), P, 0, Slot * (Unit + f))
            BY <1>1, <1>3, <2>2, <2>3, <3>2, <3>3, LossOfATrade
        <3> QED
            BY <3>4 DEF After
    <2> QED
        BY <1>3, <1>5, <2>4 DEF P
<1> QED
    BY <1>6, <1>7

LEMMA ReplayGuards ==
    ASSUME IInv, HeatSummed, Guarded, NEW t \in Trades, Replay(t)
    PROVE  Guarded'
<1>1. /\ TypeOK /\ TypeOK' /\ desk' = desk /\ desk.clock = "replay"
      /\ balance \in Int /\ balance' \in Int /\ peak \in Nat \ {0} /\ maxdd \in Nat
      /\ maxdd' = Higher(maxdd, dd')
      /\ desk.measured = "before" => peak' = Higher(peak, balance) /\ dd' = Drawdown(balance, peak')
      /\ desk.measured # "before" => peak' = Higher(peak, balance') /\ dd' = Drawdown(balance', peak')
    BY ReplayKeeps DEF IInv, Replay, Measure, TypeOK
<1>2. In("open") = {} /\ In("open")' = {}
    BY <1>1 DEF IInv, Timely, Replay, In, TypeOK
<1>3. Exposed = 0 /\ Exposed' = 0 /\ AtRisk' = AtRisk /\ (Halts' <=> Halts)
    BY <1>1, <1>2, SumEmpty DEF Exposed, AtRisk, Halts
<1>4. Staked'
    BY <1>2 DEF Staked
<1>5. Ahead'
    BY <1>1 DEF Ahead, Higher
<1>6. SUFFICES ASSUME Halts
               PROVE  Cushion(balance', peak', 0, AtRisk) /\ dd' <= 2500 + AtRisk \div Whole
    <2>1. ASSUME Halts, dd' <= 2500 + AtRisk \div Whole PROVE maxdd' <= 2500 + AtRisk \div Whole
        BY <1>1, <2>1 DEF Guarded, DrawdownLimited, Higher
    <2> QED
        BY <1>3, <1>4, <1>5, <2>1 DEF Guarded, Cushioned, DrawdownLimited
<1>7. AtRisk \in Nat /\ Cushion(balance, peak, 0, AtRisk) /\ Backed(0, peak, AtRisk)
    BY <1>1, <1>3, <1>6, ExposureIsLimited, WhatIsAtRisk DEF Guarded, Cushioned
<1>8. Cushion(balance', Higher(peak, balance), 0, AtRisk)
    BY <1>6, ReplayedLoss
<1>9. CASE desk.measured = "before"
    <2>1. Cushion(balance, Higher(peak, balance), 0, AtRisk)
        BY <1>1, <1>7, PeakKeepsBound
    <2>2. Drawdown(balance, Higher(peak, balance)) <= 2500 + AtRisk \div Whole
        BY <1>1, <1>7, <2>1, PeakKeepsBound
    <2> QED
        BY <1>1, <1>8, <1>9, <2>2
<1>10. CASE desk.measured # "before"
    <2>1. Higher(peak, balance) = peak
        BY <1>1, <1>10 DEF Guarded, Ahead, Higher
    <2>2. Cushion(balance', peak, 0, AtRisk)
        BY <1>8, <2>1
    <2>3. Cushion(balance', Higher(peak, balance'), 0, AtRisk)
        BY <1>1, <1>7, <2>2, PeakKeepsBound
    <2>4. Drawdown(balance', Higher(peak, balance')) <= 2500 + AtRisk \div Whole
        BY <1>1, <1>7, <2>2, <2>3, PeakKeepsBound
    <2> QED
        BY <1>1, <1>10, <2>3, <2>4
<1> QED
    BY <1>9, <1>10

LEMMA GuardedStep ==
    ASSUME IInv, HeatSummed, Guarded, [Next]_vars
    PROVE  Guarded'
<1>1. TypeOK
    BY DEF IInv
<1>2. CASE NextTick \/ EndTick \/ Done \/ UNCHANGED vars
    BY <1>1, <1>2, GuardStays DEF NextTick, EndTick, Done, vars, In
<1>3. ASSUME NEW t \in Trades, PassOver(t) PROVE Guarded'
    <2>1. In("open")' = In("open")
        BY <1>1, <1>3 DEF PassOver, First, In, TypeOK
    <2> QED
        BY <1>1, <1>3, <2>1, GuardStays DEF PassOver
<1> QED
    BY <1>2, <1>3, SurveyGuards, SettleGuards, AllocateGuards, ReplayGuards DEF Next

\* With a halt at 25% the drawdown ends at 25% plus what was at risk when it
\* was reached, for every ledger, slot, cap, friction and set of scales.
THEOREM DrawdownIsLimited == Spec => []DrawdownLimited
<1>1. Init => HeatSummed /\ Guarded
    <2>1. SUFFICES ASSUME Init PROVE HeatSummed /\ Guarded
        OBVIOUS
    <2>2. /\ In("open") = {} /\ heat = 0 /\ balance = Initial /\ peak = Initial /\ maxdd = 0
          /\ Initial \in Nat \ {0} /\ TypeOK
        BY <2>1, InitHolds, PortfolioAssumption DEF Init, In, IInv
    <2>3. HeatSummed /\ Exposed = 0
        BY <2>2, SumEmpty DEF HeatSummed, Exposed
    <2>4. AtRisk \in Nat /\ Whole \in Nat \ {0}
        BY <2>2, WhatIsAtRisk
    <2>5. Initial - Initial + 0 = 0 /\ Initial * (2500 * Whole + AtRisk) \in Nat
        BY <2>2, <2>4
    <2>6. Cushioned
        BY <2>2, <2>3, <2>4, <2>5 DEF Cushioned, Cushion, Unit
    <2>7. AtRisk \div Whole >= 0 /\ AtRisk \div Whole \in Int
        BY <2>4, Quotient
    <2> QED
        BY <2>2, <2>3, <2>6, <2>7 DEF Guarded, Staked, Ahead, DrawdownLimited
<1>2. IInv /\ HeatSummed /\ Guarded /\ [Next]_vars => HeatSummed' /\ Guarded'
    BY HeatStep, GuardedStep
<1>3. Guarded => DrawdownLimited
    BY DEF Guarded
<1> QED
    BY <1>1, <1>2, <1>3, Invariance, PTL DEF Spec

=============================================================================
