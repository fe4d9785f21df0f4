---------------------------- MODULE PortfolioDesks ----------------------------
(***************************************************************************)
(* The simulators, as desks of Portfolio.                                  *)
(***************************************************************************)
EXTENDS Portfolio

\* One risk at every drawdown.
NoFirewall == [k \in Tiers |-> Unit]

\* The tiers are the risk itself, 0.75% to 0.25% for a slot of 1%.
FirewallTiers == <<7500, 5000, 2500, 0>>
Firewall == [k \in Tiers |-> IF k = 0 THEN Unit ELSE FirewallTiers[k]]

\* The same figures, but multiplied with a slot that is already a percentage.
Suffocating == [k \in Tiers |-> IF k = 0 THEN Unit ELSE FirewallTiers[k] \div 100]

\* A floor of a quarter of the risk, whatever the drawdown.
FloorTiers == <<7500, 5000, 2500, 2500>>
Attenuated == [k \in Tiers |-> IF k = 0 THEN Unit ELSE FloorTiers[k]]

Wheel(clock, limit, measured, scale) ==
    [clock |-> clock, order |-> "any", limit |-> limit, measured |-> measured,
     weighted |-> FALSE, costs |-> FALSE, scale |-> scale]

Sequence(order, measured, weighted, scale) ==
    [clock |-> "replay", order |-> order, limit |-> "none", measured |-> measured,
     weighted |-> weighted, costs |-> FALSE, scale |-> scale]

PortfolioScheduler    == Wheel("entries", "heat", "after", Suffocating)
PortfolioEventEngine  == Wheel("events", "heat", "after", Suffocating)
LossClusterAnalyzer   == Wheel("events", "heat", "never", Suffocating)
FactorRiskEngine      == Wheel("events", "bucket", "after", Attenuated)
AttributionAnalyzer   == Wheel("events", "none", "never", NoFirewall)
\* By exit, by entry, and on bootstrapped ledgers.
UnifiedValidator      == Sequence("any", "before", TRUE, Firewall)
CostSimulator         == [Sequence("exit", "before", TRUE, Firewall) EXCEPT !.costs = TRUE]
RiskFirewall          == Sequence("any", "before", FALSE, Firewall)
RiskFirewallControl   == Sequence("any", "after", FALSE, NoFirewall)
PortfolioStressTester == Sequence("exit", "after", FALSE, NoFirewall)
AlphaSweeper          == Sequence("exit", "after", FALSE, NoFirewall)

AllDesks == {PortfolioScheduler, PortfolioEventEngine, LossClusterAnalyzer, FactorRiskEngine,
             AttributionAnalyzer, UnifiedValidator, CostSimulator, RiskFirewall, RiskFirewallControl,
             PortfolioStressTester, AlphaSweeper}

=============================================================================
