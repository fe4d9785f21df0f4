---------------------------- MODULE MCPortfolio ----------------------------
EXTENDS PortfolioProps

CONSTANTS MaxTime,     \* last exit of a ledger
          Cartridges   \* assets: one trade each at a time, the next after the bar of its exit

MCTrades == 1 .. 4

Kinds == {k \in [entry : 1 .. MaxTime - 1, exit : 2 .. MaxTime, score : {1, 2}, mult : {-1, 2}] :
            /\ k.entry < k.exit
            /\ k.score = 2 => k.entry = 1 }

\* Trades are numbered in the order of their entries.
InOrder(l) == \A t \in 1 .. 3 :
    \/ l[t].entry < l[t + 1].entry
    \/ l[t].entry = l[t + 1].entry /\ l[t].exit < l[t + 1].exit
    \/ l[t].entry = l[t + 1].entry /\ l[t].exit = l[t + 1].exit /\ l[t].mult <= l[t + 1].mult

MCLedgers == {l \in [MCTrades -> Kinds] :
    /\ InOrder(l)
    /\ \A n \in 1 .. MaxTime :
         Cardinality({t \in MCTrades : l[t].entry <= n /\ n <= l[t].exit}) <= Cartridges}
MCWeights == {2500, 10000}
=============================================================================
