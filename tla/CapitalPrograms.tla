-------------------------- MODULE CapitalPrograms ---------------------------
(***************************************************************************)
(* The backtests that trade a capital: the vNext matrices and harnesses and *)
(* the simulate_* scripts.  All of them book half of a position at two      *)
(* risks; they differ in the buffer behind the entry, in trailing, in where *)
(* an entry comes from and in what their report counts.                     *)
(***************************************************************************)
EXTENDS Naturals, Sequences

\* resample() labels its rows with their open, the index map reads the last row
\* whose label is not later, and the swing engine has waited k bars for a pivot.
LastLabelled(k) == [label |-> "open", shift |-> 0, pivot |-> k, lag |-> k]

ScalesOut(rest, buffer) ==
    [opening |-> << >>, holding |-> <<"ScaleOut", "StopOut", "TakeProfit">> \o rest,
     multiples |-> FALSE, buffer |-> buffer]

\* The trends of three frames agree on a strong candle, the last swing lies on the
\* losing side of the close within a range of distances, the target is 4 risks.
Conviction(fee) ==
    [idle |-> <<"Enter">>, setup |-> "none", stopChecked |-> TRUE, leastRisk |-> 1,
     targetChecked |-> TRUE, floor |-> 40, fee |-> fee]

\* Stop and target are the last swings, on whichever side of the close they lie:
\* RiskGuardian compares their distances.
Structural(filters, setup, leastRisk, fee) ==
    [idle |-> filters \o <<"Enter", "Advance", "Reset">>, setup |-> setup,
     stopChecked |-> FALSE, leastRisk |-> leastRisk, targetChecked |-> FALSE,
     floor |-> 40, fee |-> fee]

Script(frames, loop, entry, counts) ==
    [frames |-> frames, loop |-> loop, entry |-> entry, counts |-> counts]

-----------------------------------------------------------------------------
(* High-conviction scripts.                                                *)

VolatilityMasterFrames == LastLabelled(3)
VolatilityMasterLoop == ScalesOut(<<"Measure">>, 1)
VolatilityMasterEntry == Conviction(1)
VolatilityMasterCounts == "exits"

HighConvictionMatrixFrames == LastLabelled(3)
HighConvictionMatrixLoop == ScalesOut(<<"Measure">>, 1)
HighConvictionMatrixEntry == Conviction(1)
HighConvictionMatrixCounts == "exits"

HighConvictionAlphaFrames == LastLabelled(3)
HighConvictionAlphaLoop == ScalesOut(<<"Measure">>, 1)
HighConvictionAlphaEntry == Conviction(1)
HighConvictionAlphaCounts == "rows"

TenDollarFrames == LastLabelled(3)
TenDollarLoop == ScalesOut(<<"Measure">>, 1)
TenDollarEntry == Conviction(1)
TenDollarCounts == "rows"

TwelveCartridgesFrames == LastLabelled(3)
TwelveCartridgesLoop == ScalesOut(<<"Measure">>, 1)
TwelveCartridgesEntry == Conviction(1)
TwelveCartridgesCounts == "rows"

AggressiveFrames == LastLabelled(3)
AggressiveLoop == ScalesOut(<<"Measure">>, 1)
AggressiveEntry == Conviction(1)
AggressiveCounts == "rows"

-----------------------------------------------------------------------------
(* Scripts that wait for a setup.                                          *)

MasterMatrixFrames == LastLabelled(3)
MasterMatrixLoop == ScalesOut(<<"RaiseStop", "Measure">>, 0)
MasterMatrixEntry == Structural(<< >>, "forward", 0, 1)
MasterMatrixCounts == "exits"

OptimizedFrames == LastLabelled(3)
OptimizedLoop == ScalesOut(<<"Measure">>, 1)
OptimizedEntry == Structural(<< >>, "forward", 1, 1)
OptimizedCounts == "exits"

MatrixBacktestFrames == LastLabelled(3)
MatrixBacktestLoop == ScalesOut(<<"RaiseStop", "Measure">>, 0)
MatrixBacktestEntry == Structural(<< >>, "forward", 0, 0)
MatrixBacktestCounts == "exits"

\* These two rebuild the engines from a window of rows at every bar without a
\* position, and go on to the next bar while a window is too short.
ReplayHarnessFrames == LastLabelled(3)
ReplayHarnessLoop == ScalesOut(<<"RaiseStop">>, 0)
ReplayHarnessEntry == Structural(<<"Filter">>, "window", 0, 0)
ReplayHarnessCounts == "exits"

GridSearchFrames == LastLabelled(3)
GridSearchLoop == ScalesOut(<<"RaiseStop">>, 0)
GridSearchEntry == Structural(<<"Filter">>, "window", 0, 0)
GridSearchCounts == "exits"

CapitalPrograms ==
    {Script(VolatilityMasterFrames, VolatilityMasterLoop, VolatilityMasterEntry,
            VolatilityMasterCounts),
     Script(HighConvictionMatrixFrames, HighConvictionMatrixLoop,
            HighConvictionMatrixEntry, HighConvictionMatrixCounts),
     Script(HighConvictionAlphaFrames, HighConvictionAlphaLoop,
            HighConvictionAlphaEntry, HighConvictionAlphaCounts),
     Script(TenDollarFrames, TenDollarLoop, TenDollarEntry, TenDollarCounts),
     Script(TwelveCartridgesFrames, TwelveCartridgesLoop, TwelveCartridgesEntry,
            TwelveCartridgesCounts),
     Script(AggressiveFrames, AggressiveLoop, AggressiveEntry, AggressiveCounts),
     Script(MasterMatrixFrames, MasterMatrixLoop, MasterMatrixEntry,
            MasterMatrixCounts),
     Script(OptimizedFrames, OptimizedLoop, OptimizedEntry, OptimizedCounts),
     Script(MatrixBacktestFrames, MatrixBacktestLoop, MatrixBacktestEntry,
            MatrixBacktestCounts),
     Script(ReplayHarnessFrames, ReplayHarnessLoop, ReplayHarnessEntry,
            ReplayHarnessCounts),
     Script(GridSearchFrames, GridSearchLoop, GridSearchEntry, GridSearchCounts)}
=============================================================================
