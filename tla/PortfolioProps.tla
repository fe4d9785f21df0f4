---------------------------- MODULE PortfolioProps ----------------------------
(***************************************************************************)
(* What the results of a portfolio simulator rest on.                      *)
(***************************************************************************)
EXTENDS PortfolioDesks, Functions

\* Phases, trades, risks and amounts have their types; no position risks more
\* than a slot.
TypeOK ==
    /\ desk \in Desks /\ ledger \in Ledgers
    /\ phase \in {"next", "settle", "allocate"} /\ now \in Nat
    /\ heat \in Int
    /\ status \in [Trades -> Status]
    /\ risk \in [Trades -> 0 .. Slot] /\ capital \in [Trades -> Int]
    /\ available \in Int /\ rivals \in Nat
    /\ balance \in Int /\ peak \in Nat \ {0}
    /\ dd \in Int /\ maxdd \in Nat

HeatWithin == desk.limit = "heat" => heat <= HeatCap

\* max_portfolio_heat: through partial slices, scaled risks and positions that
\* come and go, the open positions of a desk with a heat limit never risk more
\* than that together.
HeatCapped == HeatWithin /\ heat = SumFunctionOnSet(risk, In("open"))

\* The crypto beta bucket of FactorRiskEngine, "equal division across the
\* cluster": whatever the number of signals of a tick, they get equal shares
\* and together no more than the risk of one trade.
BucketShared ==
    desk.limit = "bucket" =>
        \A t \in Trades :
            LET cluster == {u \in Trades : ledger[u].entry = ledger[t].entry}
            IN  /\ SumFunctionOnSet(risk, cluster) <= Slot
                /\ phase # "allocate" => \A u \in cluster : risk[u] = risk[t]

Halts == desk.scale[4] = 0

\* What can be lost at once, in parts of Unit of a unit of risk: all that the
\* heat limit allows, or one trade and its costs.
AtRisk ==
    IF desk.limit = "heat" THEN HeatCap * Unit
    ELSE Slot * (Unit + IF desk.costs THEN Friction ELSE 0)

\* What the firewall is for: with a halt at 25% the drawdown ends at 25% plus
\* what was at risk when it was reached, the heat cap or one trade,
\* however the trades of the ledger overlap.
DrawdownLimited == Halts => maxdd <= 2500 + AtRisk \div Whole

\* A discrete event engine has settled every position when it ends. The
\* scheduler looks only at entries: what is open after the last one stays open.
EverythingSettled ==
    Finished =>
        \A t \in In("open") : desk.clock = "entries" /\ \A n \in Ticks : n < ledger[t].exit

\* max_dd has seen the last result, where it is not measured before a trade.
LastResultMeasured ==
    Finished /\ desk.measured = "after" => maxdd >= Drawdown(balance, Higher(peak, balance))

Tripped == Halts /\ Drawdown(balance, Higher(peak, balance)) >= 2500 /\ In("open") = {}

\* "Systemic Trading Halt": once the drawdown is 25% and nothing is open, the
\* balance never changes again and nothing is opened, for the rest of the run.
HaltIsFinal == [][Tripped => balance' = balance /\ Tripped']_vars

\* With exits on the timeline a position is settled at the tick of its exit, so
\* the risk of the signals of that tick is taken from a balance that has it.
SettledOnTime ==
    [][\A t \in Trades :
          status[t] = "open" /\ status'[t] = "settled" /\ desk.clock = "events"
          => ledger[t].exit = now]_vars

=============================================================================
