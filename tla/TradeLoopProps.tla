--------------------------- MODULE TradeLoopProps ---------------------------
(***************************************************************************)
(* What the results of a backtest rest on.  Not every script keeps every one *)
(* of these: a property names the programs it is about by what they do.     *)
(***************************************************************************)
EXTENDS TradeLoop

\* A raised stop is compared with the same bar.
StopFollows(steps) ==
    \A i \in 1..Len(steps) : steps[i] = "ScaleOut" =>
        \E j \in 1..Len(steps) : j > i /\ steps[j] = "StopOut"

\* The exits are looked at in every bar that begins with a position, before any
\* condition can end the bar, and an entry lies between its stop and its target.
Managed(p) ==
    LET held == Held(p)
        idle == Idle(p)
    IN /\ p.entry.stopChecked /\ p.entry.targetChecked
       /\ Has(held, "StopOut") /\ Has(held, "TakeProfit") /\ StopFollows(held)
       /\ \A step \in {"Filter", "Enter", "RaiseStop"} : ~Has(held, step)
       /\ \A step \in Exits : ~Has(idle, step)
       /\ p.loop.multiples => ~Has(held, "ScaleOut")

-----------------------------------------------------------------------------
(* Invariants.                                                             *)

Results == [booked : Int, last : Int, rows : Nat, ahead : Nat]
Positions == [units : 0..2, stop : Int, target : Int, risk : Nat]
Books == [capital : Int, peak : Int, drawdown : Nat]
Setups == [phase : IDLE..POSITION_ACTIVE, trending : BOOLEAN, waited : 0..Patience]

\* The variables have their types.
TypeOK ==
    /\ program \in Programs /\ todo \in StepSeqs
    /\ bar \in [from : Int, worst : Int, best : Int, close : Int]
    /\ bar.worst <= bar.close /\ bar.close <= bar.best
    /\ pos \in Positions /\ (Open => pos.risk > 0)
    /\ trade \in Results /\ trades \in Nat
    /\ book \in Books /\ setup \in Setups

\* A position that outlives a bar has the bar's close between its stop and its
\* target: a stop or a target that the market has passed is never still waiting,
\* wherever the bar opened (the exits of the vNext and simulate_* loops, of v2 and v3).
Bracketed ==
    Managed(program) /\ Open /\ todo = << >>
        => pos.stop < bar.close /\ bar.close < pos.target

\* A report that counts exits counts a position once, and as a loss just when
\* the whole position lost, unless the fees of a break-even exit are not covered
\* (the tallies of the vNext scripts).
Reported ==
    program.counts = "exits" /\ (program.entry.fee <= program.loop.buffer)
      /\ program.entry.targetChecked /\ trades > 0 /\ ~Open
        => trade.rows = 1 /\ (trade.last < 0 <=> trade.booked < 0)

-----------------------------------------------------------------------------
(* Action properties.                                                      *)

Sold == pos.units - pos'.units

\* What the market passed since the close before the bar, whether it traded there
\* or opened beyond it.
Lowest == IF bar.from < bar.worst THEN bar.from ELSE bar.worst
Highest == Larger(bar.from, bar.best)

\* Whatever a managed backtest books was sold at a price the market passed in this
\* very bar, but for the exit at the average: never at a level it had passed
\* before, nor at one it did not come to (StopOut, TakeProfit, ScaleOut).  A bar
\* that opens beyond the level is booked at the level.
FillsArePassed ==
    [][Managed(program) /\ Sold > 0 /\ Head(todo) # "TrailOut"
        => \E price \in Lowest..Highest :
             trade'.booked = trade.booked + Sold * price - program.entry.fee]_vars

\* The stop of a position never moves away from the market (the break-even stop
\* and the trailing stop), if it was placed on its side or a better one is kept.
StopsOnlyTighten ==
    [][Open /\ pos'.units > 0 /\ (program.entry.stopChecked \/ program.loop.buffer = 0)
        => pos'.stop >= pos.stop]_vars

\* A position loses at most its risk and a fill's fee, and nothing once half of
\* it was sold at two risks (the risk of a trade in every report).
LossesAreBounded ==
    [][Open /\ pos'.units = 0 /\ program.entry.targetChecked
        => IF pos.units = 2
           THEN trade'.booked >= -(2 * pos.risk) - program.entry.fee
           ELSE trade'.booked >= 0]_vars

\* A backtest that measures after the exits has measured every result but the
\* entry's own fee when the next position opens; one that measures before them
\* has as well, for it also measures the bars without a position.
DrawdownKnown ==
    [][trades' > trades /\ Has(Held(program), "Measure")
        => book.capital <= book.peak /\ book.peak - book.capital <= book.drawdown]_vars

\* A position that waits for a setup opens on one that formed entirely after the
\* position before it was closed (the state machine's phases, reset by an exit).
FreshSetup ==
    [][trades' > trades /\ HasSetup => setup.waited >= Patience]_vars
-----------------------------------------------------------------------------
(* What comments of the code say and the code does not do.                  *)

\* "Lookahead-free precomputation of structural states": when a position opens,
\* the rows it was decided on are complete.
LookaheadFree == Open => trade.ahead = 0
=============================================================================
