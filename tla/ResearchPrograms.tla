-------------------------- MODULE ResearchPrograms --------------------------
(***************************************************************************)
(* The backtests of v2_architecture and v3_architecture: ledgers of risk     *)
(* multiples, one entry price, one stop and one target, no scaling out.     *)
(* LONG and SHORT scripts are alike (TradeLoop measures from the entry).    *)
(***************************************************************************)
EXTENDS Naturals, Sequences

\* resample(label='right', closed='right') names a row after its close; a pivot
\* looks two rows ahead and shift(2) waits for them; the deflector of v3 shifts
\* the averages by one more row.
Closed(pivot, shift) ==
    [label |-> "close", shift |-> shift, pivot |-> pivot, lag |-> pivot]

Ledger(opening, rest) ==
    [opening |-> opening, holding |-> <<"StopOut", "TakeProfit">> \o rest,
     multiples |-> TRUE, buffer |-> 0]

\* The stop lies under the last lows, the target over the close.
Signal(filters, floor) ==
    [idle |-> filters \o <<"Enter">>, setup |-> "none", stopChecked |-> TRUE,
     leastRisk |-> 1, targetChecked |-> TRUE, floor |-> floor, fee |-> 0]

Research(frames, loop, entry) ==
    [frames |-> frames, loop |-> loop, entry |-> entry, counts |-> "exits"]

-----------------------------------------------------------------------------
(* v2: exits first, then the conditions of an entry.                       *)

LossClusterFrames == Closed(2, 0)
LossClusterLoop == Ledger(<< >>, << >>)
LossClusterEntry == Signal(<<"Filter">>, 15)

ExitEngineFrames == Closed(2, 0)
ExitEngineLoop == Ledger(<< >>, << >>)
ExitEngineEntry == Signal(<< >>, 15)

AlphaSweeperFrames == Closed(2, 0)
AlphaSweeperLoop == Ledger(<< >>, << >>)
AlphaSweeperEntry == Signal(<< >>, 20)

RobustnessFrames == Closed(2, 0)
RobustnessLoop == Ledger(<< >>, << >>)
RobustnessEntry == Signal(<< >>, 40)

RegimeFrames == Closed(2, 0)
RegimeLoop == Ledger(<< >>, << >>)
RegimeEntry == Signal(<< >>, 15)

SchedulerFrames == Closed(2, 0)
SchedulerLoop == Ledger(<< >>, << >>)
SchedulerEntry == Signal(<<"Filter">>, 15)

EventEngineFrames == Closed(2, 0)
EventEngineLoop == Ledger(<< >>, << >>)
EventEngineEntry == Signal(<<"Filter">>, 15)

ValidatorFrames == Closed(2, 0)
ValidatorLoop == Ledger(<< >>, << >>)
ValidatorEntry == Signal(<<"Filter">>, 15)

FirewallFrames == Closed(2, 0)
FirewallLoop == Ledger(<< >>, << >>)
FirewallEntry == Signal(<<"Filter">>, 15)

PortfolioStressFrames == Closed(2, 0)
PortfolioStressLoop == Ledger(<< >>, << >>)
PortfolioStressEntry == Signal(<< >>, 40)

BacktestMatrixFrames == Closed(2, 0)
BacktestMatrixLoop == Ledger(<< >>, << >>)
BacktestMatrixEntry == Signal(<<"Filter">>, 40)

TournamentLoop == Ledger(<< >>, << >>)
TournamentEntry == Signal(<<"Filter">>, 40)

-----------------------------------------------------------------------------
(* v2: the drawdown is measured before the bar's exit.                     *)

StressTesterFrames == Closed(2, 0)
StressTesterLoop == Ledger(<<"Measure">>, << >>)
StressTesterEntry == Signal(<<"Filter">>, 40)

WalkForwardFrames == Closed(2, 0)
WalkForwardLoop == Ledger(<<"Measure">>, << >>)
WalkForwardEntry == Signal(<< >>, 20)

GlobalStructureFrames == Closed(2, 0)
GlobalStructureLoop == Ledger(<<"Measure">>, << >>)
GlobalStructureEntry == Signal(<< >>, 15)

ExpansionGateFrames == Closed(2, 0)
ExpansionGateLoop == Ledger(<<"Measure">>, << >>)
ExpansionGateEntry == Signal(<<"Filter">>, 15)

-----------------------------------------------------------------------------
(* v2, the diagnostic suite: for ETH and SOL the filter on the market's      *)
(* activity comes before the exits, which a quiet bar then skips.           *)

DiagnosticFrames == Closed(2, 0)
DiagnosticBtcLoop == Ledger(<< >>, << >>)
DiagnosticBtcEntry == Signal(<< >>, 15)
DiagnosticEthLoop == Ledger(<<"Filter">>, << >>)
DiagnosticEthEntry == Signal(<< >>, 15)
DiagnosticSolLoop == Ledger(<<"Filter">>, << >>)
DiagnosticSolEntry == Signal(<< >>, 30)

-----------------------------------------------------------------------------
(* v3: a third exit, at the MTF average.                                   *)

MultiHorizonFrames == Closed(0, 1)
MultiHorizonLoop == Ledger(<< >>, <<"TrailOut">>)
MultiHorizonEntry == Signal(<< >>, 40)

DestructionRigFrames == Closed(0, 1)
DestructionRigLoop == Ledger(<< >>, <<"TrailOut">>)
DestructionRigEntry == Signal(<< >>, 40)

HierarchicalFrames == Closed(0, 0)
HierarchicalLoop == Ledger(<< >>, <<"TrailOut">>)
HierarchicalEntry == Signal(<< >>, 40)

AttributionFrames == Closed(0, 1)
AttributionLoop == Ledger(<< >>, <<"TrailOut">>)
AttributionEntry == Signal(<< >>, 40)

ResearchPrograms ==
    {Research(LossClusterFrames, LossClusterLoop, LossClusterEntry),
     Research(ExitEngineFrames, ExitEngineLoop, ExitEngineEntry),
     Research(AlphaSweeperFrames, AlphaSweeperLoop, AlphaSweeperEntry),
     Research(RobustnessFrames, RobustnessLoop, RobustnessEntry),
     Research(RegimeFrames, RegimeLoop, RegimeEntry),
     Research(SchedulerFrames, SchedulerLoop, SchedulerEntry),
     Research(EventEngineFrames, EventEngineLoop, EventEngineEntry),
     Research(ValidatorFrames, ValidatorLoop, ValidatorEntry),
     Research(FirewallFrames, FirewallLoop, FirewallEntry),
     Research(PortfolioStressFrames, PortfolioStressLoop, PortfolioStressEntry),
     Research(BacktestMatrixFrames, BacktestMatrixLoop, BacktestMatrixEntry),
     Research(BacktestMatrixFrames, TournamentLoop, TournamentEntry),
     Research(StressTesterFrames, StressTesterLoop, StressTesterEntry),
     Research(WalkForwardFrames, WalkForwardLoop, WalkForwardEntry),
     Research(GlobalStructureFrames, GlobalStructureLoop, GlobalStructureEntry),
     Research(ExpansionGateFrames, ExpansionGateLoop, ExpansionGateEntry),
     Research(DiagnosticFrames, DiagnosticBtcLoop, DiagnosticBtcEntry),
     Research(DiagnosticFrames, DiagnosticEthLoop, DiagnosticEthEntry),
     Research(DiagnosticFrames, DiagnosticSolLoop, DiagnosticSolEntry),
     Research(MultiHorizonFrames, MultiHorizonLoop, MultiHorizonEntry),
     Research(DestructionRigFrames, DestructionRigLoop, DestructionRigEntry),
     Research(HierarchicalFrames, HierarchicalLoop, HierarchicalEntry),
     Research(AttributionFrames, AttributionLoop, AttributionEntry)}
=============================================================================
