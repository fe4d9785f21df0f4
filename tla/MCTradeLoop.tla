---------------------------- MODULE MCTradeLoop -----------------------------
(***************************************************************************)
(* Every backtest, two positions each.                                     *)
(***************************************************************************)
EXTENDS TradeLoopProps, CapitalPrograms, ResearchPrograms

MCPrograms == CapitalPrograms \cup ResearchPrograms
\* The two scripts whose comments speak of lookahead.
MCLookahead ==
    {Script(MasterMatrixFrames, MasterMatrixLoop, MasterMatrixEntry, MasterMatrixCounts),
     Script(MatrixBacktestFrames, MatrixBacktestLoop, MatrixBacktestEntry,
            MatrixBacktestCounts)}
MCPrices == -2..5
MCStops == {-2, -1, 0, 1}
MCTargets == {-4, 4}
=============================================================================
