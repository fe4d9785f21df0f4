----------------------------- MODULE TradeLoop ------------------------------
(***************************************************************************)
(* The bar-by-bar loop that every backtest of the repository writes out     *)
(* again: for each bar of the entry timeframe, manage the open position,    *)
(* measure the drawdown, or look for an entry.                              *)
(*                                                                         *)
(* The scripts differ in the order of those steps, in the exits, in what an *)
(* entry must satisfy and in how the higher timeframes are read.  That is   *)
(* what a program is here (ResearchPrograms and CapitalPrograms hold one    *)
(* per script); the loop picks one in Init and interprets it.               *)
(*                                                                         *)
(* Prices are ticks from the entry price in the direction of the position,  *)
(* so that the LONG and SHORT branches, mirror images in every script, are  *)
(* one.  Nothing holds a bar to the one before it: the market may open      *)
(* away from the last close.  Fee and slippage of a fill are one amount.    *)
(***************************************************************************)
EXTENDS Integers, Sequences

CONSTANTS
    Programs,    \* the backtests
    Prices,      \* ticks from the entry a bar may touch
    Stops,       \* where an entry may place its stop
    Targets,     \* and its target
    Ratio,       \* entry bars in a bar of the higher timeframe
    Widest,      \* bound: a bar is at most this many ticks long
    MaxTrades    \* bound: positions opened in a run

Exits == {"ScaleOut", "StopOut", "TakeProfit", "TrailOut", "RaiseStop"}
Steps == Exits \cup {"Filter", "Measure", "Enter", "Advance", "Reset"}
StepSeqs == Seq(Steps)

\* A program: how it reads the higher timeframes, the steps of a bar before it
\* looks at the position, those of a bar that begins with one and of one that
\* begins without, the conditions of an entry, and the rows its report counts.
Frames == [label : {"open", "close"}, shift : Nat, pivot : Nat, lag : Nat]
Loop == [opening : StepSeqs, holding : StepSeqs, multiples : BOOLEAN,
         buffer : Nat]
Entry == [idle : StepSeqs, setup : {"none", "forward", "window"},
          stopChecked : BOOLEAN, leastRisk : Nat,
          targetChecked : BOOLEAN, floor : Nat, fee : Nat]
Program == [frames : Frames, loop : Loop, entry : Entry, counts : {"exits", "rows"}]

Has(steps, step) == \E i \in 1..Len(steps) : steps[i] = step

\* The steps of a bar that begins with a position, and of one without.
Held(p) == p.loop.opening \o p.loop.holding
Idle(p) == p.loop.opening \o p.entry.idle

\* Positions are managed in the first, setups and entries looked for in the second.
HoldsOrEnters(p) ==
    /\ \A step \in {"Enter", "Advance"} : ~Has(Held(p), step)
    /\ \A step \in Exits : ~Has(Idle(p), step)

\* A ledger of multiples never sells half, and only such a ledger exits at the
\* average.  Where a scale-out moves the stop behind the entry, nothing else does.
BooksOneWay(p) ==
    /\ p.loop.multiples => ~Has(Held(p), "ScaleOut")
    /\ Has(Held(p), "TrailOut") => p.loop.multiples
    /\ p.loop.buffer > 0 => ~Has(Held(p), "RaiseStop")

\* The drawdown is measured first in every bar, or last in one with a position
\* whatever else happened in it.
MeasuresEachBar(p) ==
    Has(Held(p), "Measure") =>
        \/ p.loop.opening # << >> /\ Head(p.loop.opening) = "Measure"
        \/ Held(p)[Len(Held(p))] = "Measure" /\ ~Has(Held(p), "Filter")

\* A setup advances once a bar, after the entry was looked for.
AdvancesOnce(p) ==
    \A i, j \in 1..Len(Idle(p)) :
        i < j /\ Idle(p)[i] = "Advance" => Idle(p)[j] \notin {"Enter", "Advance"}

ASSUME TradeLoopAssumption ==
    /\ Programs \subseteq Program
    /\ {0} \subseteq Prices /\ Prices \subseteq Int
    /\ Stops \subseteq Int /\ Targets \subseteq Int
    /\ Ratio \in Nat \ {0} /\ Widest \in Nat /\ MaxTrades \in Nat
    \* the stop that a scale-out moves behind the entry stays within one risk
    /\ \A p \in Programs : p.loop.buffer <= p.entry.leastRisk
    \* the order of the steps, in every script
    /\ \A p \in Programs : HoldsOrEnters(p) /\ BooksOneWay(p)
    /\ \A p \in Programs : MeasuresEachBar(p) /\ AdvancesOnce(p)
    \* where the target's side is looked at, it is at least one risk away, and the
    \* risk at least a fee
    /\ \A p \in Programs : p.entry.targetChecked =>
          p.entry.floor >= 10 /\ p.entry.fee <= p.entry.leastRisk

VARIABLES
    program,   \* the backtest that runs
    todo,      \* its steps left in this bar
    bar,       \* the close before the bar, its extremes against and for the
               \* position, and its own close
    pos,       \* the position: halves held, stop, target and initial risk
    trade,     \* of the last entry: booked, booked last, rows reported, bars read ahead
    trades,    \* positions opened
    book,      \* capital, its measured peak and the measured drawdown
    setup      \* the state machine: its phase, the HTF trend, bars since the exit

vars == <<program, todo, bar, pos, trade, trades, book, setup>>

Flat == [units |-> 0, stop |-> 0, target |-> 0, risk |-> 0]
Still == [from |-> 0, worst |-> 0, best |-> 0, close |-> 0]
Open == pos.units > 0
Larger(a, b) == IF a > b THEN a ELSE b
Distance(p) == IF p < 0 THEN -p ELSE p

Bars(last) ==
    {b \in [from : {last}, worst : Prices, best : Prices, close : Prices] :
        /\ b.worst <= b.close /\ b.close <= b.best
        /\ b.best - b.worst <= Widest}

\* The phases of StrategyState a backtest passes through.
IDLE == 1
AWAITING_LTF_ENTRY == 6
POSITION_ACTIVE == 7
Patience == 6   \* setup.waited is counted up to the bars a setup takes

HasSetup == program.entry.setup # "none"

Init ==
    /\ program \in Programs
    /\ todo = << >> /\ bar = Still /\ pos = Flat
    /\ trade = [booked |-> 0, last |-> 0, rows |-> 0, ahead |-> 0] /\ trades = 0
    /\ book = [capital |-> 0, peak |-> 0, drawdown |-> 0]
    /\ setup = [phase |-> IDLE, trending |-> FALSE, waited |-> 0]

-----------------------------------------------------------------------------
(* The bar.                                                                *)

\* The next row of the frame, wherever it lies: the rows are what resample() and
\* dropna() left, or those of a file.  Without a position a price has no origin.
NextBar ==
    /\ todo = << >>
    /\ IF Open
       THEN bar' \in Bars(bar.close) /\ UNCHANGED setup
       ELSE /\ bar' = Still
            /\ setup' = IF HasSetup /\ setup.waited < Patience
                        THEN [setup EXCEPT !.waited = @ + 1] ELSE setup
    /\ todo' = IF Open THEN Held(program) ELSE Idle(program)
    /\ UNCHANGED <<program, pos, trade, trades, book>>

Run(step) ==
    /\ todo # << >> /\ Head(todo) = step
    /\ todo' = Tail(todo)
    /\ UNCHANGED <<program, bar>>

\* A condition on the bar (a quiet market, a year) sends it to `continue`.
Filter ==
    /\ todo # << >> /\ Head(todo) = "Filter"
    /\ todo' \in {Tail(todo), << >>}
    /\ UNCHANGED <<program, bar, pos, trade, trades, book, setup>>

\* Faulty variant: the drawdown is only looked at when there is a new peak.
Measured_AtPeaks == IF book.capital > book.peak THEN [book EXCEPT !.peak = book.capital]
                    ELSE book
Measured == [book EXCEPT !.peak = Larger(@, book.capital),
                         !.drawdown = Larger(@, Larger(book.peak, book.capital)
                                                - book.capital)]

Measure ==
    /\ Run("Measure")
    /\ book' = Measured
    /\ UNCHANGED <<pos, trade, trades, setup>>

-----------------------------------------------------------------------------
(* The exits, each at a price fixed before the bar.                        *)

\* Half of the position goes at two risks, and the stop moves behind the entry.
ScaleAt == 2 * pos.risk
\* A ledger of multiples books a whole risk for a stop wherever it was.
\* Faulty variant: also for what is left of a position.
StopPrice_WholeRisk == -pos.risk
StopPrice == IF program.loop.multiples THEN -pos.risk ELSE pos.stop

\* Faulty variant: a stop that is just reached does not fill.
Touched_Strict(step) ==
    \/ step = "ScaleOut" /\ pos.units = 2 /\ bar.best >= ScaleAt
    \/ step = "StopOut" /\ Open /\ bar.worst < pos.stop
    \/ step = "TakeProfit" /\ Open /\ bar.best >= pos.target
    \/ step \in {"TrailOut", "RaiseStop"} /\ Open

Touched(step) ==
    \/ step = "ScaleOut" /\ pos.units = 2 /\ bar.best >= ScaleAt
    \/ step = "StopOut" /\ Open /\ bar.worst <= pos.stop
    \/ step = "TakeProfit" /\ Open /\ bar.best >= pos.target
    \/ step = "TrailOut" /\ Open
    \/ step = "RaiseStop" /\ Open

\* Faulty variant: every row counts in every report.
Sell_AllRows(halves, price) ==
    LET result == halves * price - program.entry.fee
    IN /\ trade' = [trade EXCEPT !.booked = @ + result, !.last = result, !.rows = @ + 1]
       /\ book' = [book EXCEPT !.capital = @ + result]
       /\ UNCHANGED trades

\* A report counts the exits that close a position, or every row with a result.
Sell(halves, price) ==
    LET result == halves * price - program.entry.fee
        reported == halves = pos.units \/ program.counts = "rows"
    IN /\ trade' = [trade EXCEPT !.booked = @ + result, !.last = result,
                                 !.rows = IF reported THEN @ + 1 ELSE @]
       /\ book' = [book EXCEPT !.capital = @ + result]
       /\ UNCHANGED trades

\* Faulty variant: to the entry, from wherever it was.
BreakEven_Entry == IF program.loop.buffer = 0 THEN 0 ELSE program.loop.buffer

\* The stop of the half that is left: the entry unless it is better already, or
\* the entry and a buffer that pays the fees, whatever it was.
BreakEven == IF program.loop.buffer = 0 THEN Larger(pos.stop, 0)
             ELSE program.loop.buffer

\* Faulty variant: the stop stays where it was.
ScaleOut_KeepsStop ==
    /\ Run("ScaleOut") /\ Touched("ScaleOut")
    /\ Sell(1, ScaleAt)
    /\ pos' = [pos EXCEPT !.units = 1]
    /\ UNCHANGED setup

ScaleOut ==
    /\ Run("ScaleOut") /\ Touched("ScaleOut")
    /\ Sell(1, ScaleAt)
    /\ pos' = [pos EXCEPT !.units = 1, !.stop = BreakEven]
    /\ UNCHANGED setup

\* Faulty variant: the setup that was traded can be entered again.
Close_KeepsSetup(price) ==
    /\ Sell(pos.units, price)
    /\ pos' = Flat
    /\ setup' = [setup EXCEPT !.phase = AWAITING_LTF_ENTRY, !.waited = 0]

\* Whatever closes the position also sends the state machine back to IDLE.
Close(price) ==
    /\ Sell(pos.units, price)
    /\ pos' = Flat
    /\ setup' = [setup EXCEPT !.phase = IDLE, !.waited = 0]

StopOut == Run("StopOut") /\ Touched("StopOut") /\ Close(StopPrice)

TakeProfit == Run("TakeProfit") /\ Touched("TakeProfit") /\ Close(pos.target)

\* The low is at or below the MTF average: out at the average, which may lie
\* anywhere above the low; a loss is cut at one risk.
TrailOut ==
    /\ Run("TrailOut") /\ Touched("TrailOut")
    /\ \E average \in Prices :
        /\ bar.worst <= average
        /\ Close(Larger(-pos.risk, average))

\* The stop follows the last MTF swing, which may lie above the market.
RaiseStop ==
    /\ Run("RaiseStop") /\ Touched("RaiseStop")
    /\ \E swing \in Prices :
        /\ swing > pos.stop
        /\ pos' = [pos EXCEPT !.stop = swing]
    /\ UNCHANGED <<trade, trades, book, setup>>

\* The bar does not reach the exit, or the position is already closed.
Untouched ==
    \E step \in Exits :
        /\ Run(step)
        /\ step \in {"TrailOut", "RaiseStop"} \/ ~Touched(step)
        /\ UNCHANGED <<pos, trade, trades, book, setup>>

-----------------------------------------------------------------------------
(* The entry.                                                              *)

\* The last row of the higher frame whose label is not later than the label of
\* entry bar n: searchsorted(rows, bars, side='right') - 1.  Both frames are
\* labelled alike, with their open or with their close.
LastRow(frames, n) ==
    IF frames.label = "open" THEN n \div Ratio ELSE ((n + 1) \div Ratio) - 1

\* Entry bars still to come, at the close of entry bar n, before the last row that
\* the entry rests on is complete.  shift() moves rows later; a pivot needs the
\* `pivot` rows after its own, of which the script waits for `lag`.
Ahead(frames, n) ==
    LET row == LastRow(frames, n) - frames.shift + frames.pivot - frames.lag
    IN Larger(0, (row + 1) * Ratio - (n + 1))

\* Faulty variant: an entry at its own stop.
Acceptable_NoRisk(entry, stop, target) ==
    /\ entry.stopChecked => stop < 0
    /\ entry.targetChecked => target > 0
    /\ Distance(stop) >= entry.leastRisk
    /\ 10 * Distance(target) >= entry.floor * Distance(stop)

\* The conditions a script puts on its stop and its target.
Acceptable(entry, stop, target) ==
    /\ entry.stopChecked => stop < 0
    /\ entry.targetChecked => target > 0
    /\ Distance(stop) > 0 /\ Distance(stop) >= entry.leastRisk
    /\ 10 * Distance(target) >= entry.floor * Distance(stop)

Enter ==
    /\ Run("Enter")
    /\ ~Open /\ trades < MaxTrades
    /\ HasSetup => setup.phase = AWAITING_LTF_ENTRY /\ setup.trending
    /\ \E stop \in Stops, target \in Targets :
        /\ Acceptable(program.entry, stop, target)
        /\ pos' = [units |-> 2, stop |-> stop, target |-> target,
                   risk |-> Distance(stop)]
    /\ \E n \in 0..(Ratio - 1) :
        trade' = [booked |-> 0, last |-> 0, rows |-> 0,
                  ahead |-> Ahead(program.frames, n)]
    /\ trades' = trades + 1
    /\ book' = [book EXCEPT !.capital = @ - program.entry.fee]
    /\ setup' = IF HasSetup THEN [setup EXCEPT !.phase = POSITION_ACTIVE] ELSE setup

\* No signal, a condition that fails, or a position that is already open.
NoEntry ==
    /\ Run("Enter")
    /\ UNCHANGED <<pos, trade, trades, book, setup>>

\* One confirmation a bar: the HTF trend (with its ADX), the MTF pullback
\* against it, the MTF trend back in line, an MTF zone, a touch of it.  All but
\* the zone need an HTF trend.  The swing engine never returns to NEUTRAL;
\* scripts that rebuild it from a window each bar may find it there again.
Advance ==
    /\ Run("Advance")
    /\ \E trending \in {TRUE, setup.trending /\ program.entry.setup = "forward"},
          phase \in {setup.phase, setup.phase + 1} :
        /\ phase > setup.phase =>
              /\ setup.phase < AWAITING_LTF_ENTRY
              /\ trending \/ setup.phase = 4
        /\ setup' = [setup EXCEPT !.phase = phase, !.trending = trending]
    /\ UNCHANGED <<pos, trade, trades, book>>

\* A NEUTRAL HTF trend kills a setup without a position.
Reset ==
    /\ Run("Reset")
    /\ setup' = IF ~setup.trending /\ ~Open THEN [setup EXCEPT !.phase = IDLE] ELSE setup
    /\ UNCHANGED <<pos, trade, trades, book>>

Next ==
    \/ NextBar \/ Filter \/ Measure
    \/ ScaleOut \/ StopOut \/ TakeProfit \/ TrailOut \/ RaiseStop \/ Untouched
    \/ Enter \/ NoEntry \/ Advance \/ Reset

Spec == Init /\ [][Next]_vars
=============================================================================
