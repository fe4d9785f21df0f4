-------------------------- MODULE ExecutionEngine ---------------------------
(***************************************************************************)
(* AutonomousExecutionEngine (v3_architecture/live_data_collector.py): one *)
(* process that visits its assets in order, sleeps a minute and starts     *)
(* again.  A visit is one read of live_book followed by at most one write  *)
(* on a new connection, so the steps below are the points where another    *)
(* writer, or a crash, can come between.                                    *)
(*                                                                         *)
(* The wallet's balance is the product of its settlements; the model keeps *)
(* the settlements themselves, in order.                                    *)
(***************************************************************************)
EXTENDS LiveBook

CONSTANTS
    AssetOrder,   \* self.assets, in the order they are visited
    EngineStyle,  \* "SET_4_INTRADAY_EXPANSION"
    MaxCrashes    \* bound: crashes of the process

ASSUME EngineAssumption ==
    /\ AssetOrder \in Seq(Assets)
    /\ Len(AssetOrder) > 0
    /\ \A i, j \in DOMAIN AssetOrder : AssetOrder[i] = AssetOrder[j] => i = j
    /\ EngineStyle \in Styles
    /\ MaxCrashes \in Nat

VARIABLES
    wallet,   \* sequence of settlements: which row, at what R, at half risk or not
    seeded,   \* has initialize_wallet.py created the paper_wallet row
    recent,   \* per asset, the age of its newest row (see Recency)
    frozen,   \* self.system_frozen, in memory only
    barred,   \* history, read by properties only: what a freeze has left no entry for
    pc,       \* where the engine is
    turn,     \* index in AssetOrder of the asset being visited
    job,      \* local variables that a step hands to the next
    crashes   \* crashes so far

engineVars == <<wallet, seeded, recent, frozen, barred, pc, turn, job, crashes>>
vars == <<book, engineVars>>

NoJob == <<>>
ExitJob == [id : Nat, price : Price, r : Multiple]
TrailJob == [id : Nat, stop : Price]
EntryJob == [price : Price, sl : Price, tp : Price]
Settlement == [id : Nat, r : Multiple, half : BOOLEAN]

\* Age of an asset's newest row against the watchdog's window of 60 s: certainly
\* inside it, inside or outside, one sleep old, or certainly outside.
Recency == {"fresh", "maybe", "edge", "old"}

asset == AssetOrder[turn]

Init ==
    /\ book = <<>>
    /\ wallet = <<>>
    /\ seeded \in BOOLEAN
    /\ recent = [a \in Assets |-> "old"]
    /\ frozen = FALSE
    /\ barred = {}
    /\ pc = "top"
    /\ turn = 1
    /\ job = NoJob
    /\ crashes = 0

-----------------------------------------------------------------------------
(* The loop.                                                               *)

\* Faulty variant: the flag is not looked at.
StartCycle_IgnoresFreeze ==
    /\ pc = "top"
    /\ pc' = "visit"
    /\ UNCHANGED <<book, wallet, seeded, recent, frozen, barred, turn, job, crashes>>

\* The top of run_engine_loop: a frozen engine only sleeps and looks again.
StartCycle ==
    /\ pc = "top"
    /\ ~frozen
    /\ pc' = "visit"
    /\ UNCHANGED <<book, wallet, seeded, recent, frozen, barred, turn, job, crashes>>

StayFrozen == pc = "top" /\ frozen /\ UNCHANGED vars

\* Faulty variant: one asset too far.
NextAsset_Overruns ==
    /\ job' = NoJob
    /\ IF turn <= Len(AssetOrder)
         THEN turn' = turn + 1 /\ pc' = "visit"
         ELSE turn' = 1 /\ pc' = "sleep"

\* process_asset_lifecycle returned: the next asset, or the end of the cycle.
NextAsset ==
    /\ job' = NoJob
    /\ IF turn < Len(AssetOrder)
         THEN turn' = turn + 1 /\ pc' = "visit"
         ELSE turn' = 1 /\ pc' = "sleep"

\* A minute passes.  entry_time has whole seconds and the query uses >=, so a
\* row exactly one sleep old may still fall in the window.
SleepMinute ==
    /\ pc = "sleep"
    /\ pc' = "top"
    /\ recent' = [a \in Assets |-> IF recent[a] = "fresh" THEN "edge" ELSE "old"]
    /\ UNCHANGED <<book, wallet, seeded, frozen, barred, turn, job, crashes>>

-----------------------------------------------------------------------------
(* One visit: process_asset_lifecycle.                                     *)

\* No candles after the retries, or too few of them.
NoData ==
    /\ pc = "visit"
    /\ NextAsset
    /\ UNCHANGED <<book, wallet, seeded, recent, frozen, barred, crashes>>

\* R of a target exit: the risk is measured to the trailed stop, or taken to be
\* 2% of the entry price once that stop has reached the entry.
TargetMultiple(row) ==
    IF row.entry > row.stop THEN <<row.tp - row.entry, row.entry - row.stop>>
                            ELSE <<50 * (row.tp - row.entry), row.entry>>

\* Faulty variant: the new stop is not compared with the present one.
Trails_AnyDirection(row, price, fast, trending) == trending /\ price > row.entry

\* The trailing rule: the fast average replaces the stop when it is above it.
Trails(row, price, fast, trending) == trending /\ fast > row.stop /\ price > row.entry

\* The asset has an open row: stop, target, trail or hold.
ManageOpen(price, fast, trending) ==
    /\ pc = "visit"
    /\ ActiveOf(asset) # {}
    /\ LET id == FirstRow(ActiveOf(asset))
           row == book[id]
           trails == Trails(row, price, fast, trending)
       IN \/ /\ price <= row.stop
             /\ job' = [id |-> id, price |-> row.stop, r |-> FullLoss]
             /\ pc' = "exit" /\ UNCHANGED turn
          \/ /\ price > row.stop /\ price >= row.tp
             /\ job' = [id |-> id, price |-> row.tp, r |-> TargetMultiple(row)]
             /\ pc' = "exit" /\ UNCHANGED turn
          \/ /\ price > row.stop /\ price < row.tp /\ trails
             /\ job' = [id |-> id, stop |-> fast]
             /\ pc' = "trail" /\ UNCHANGED turn
          \/ /\ price > row.stop /\ price < row.tp /\ ~trails
             /\ NextAsset
    /\ UNCHANGED <<book, wallet, seeded, recent, frozen, barred, crashes>>

\* The asset has no open row and the two higher horizons do not agree.
NoSignal ==
    /\ pc = "visit"
    /\ ActiveOf(asset) = {}
    /\ NextAsset
    /\ UNCHANGED <<book, wallet, seeded, recent, frozen, barred, crashes>>

\* They agree: price, 5-bar low and 5-bar high come from the same candles.  The
\* reward/risk test looks at nothing else, so its outcome is known here.
Signal(price, low, high) ==
    /\ pc = "visit"
    /\ ActiveOf(asset) = {}
    /\ low <= price /\ price <= high
    /\ job' = IF WorthTaking(price, low, high) THEN [price |-> price, sl |-> low, tp |-> high]
                                               ELSE NoJob
    /\ pc' = "bounds"
    /\ UNCHANGED <<book, wallet, seeded, recent, frozen, barred, turn, crashes>>

\* Faulty variant: the crypto ceiling is compared with > instead of >=.
WithinBounds_OffByOne ==
    /\ ActiveOf(asset) = {}
    /\ Cardinality(ActiveIds) < MaxSlots
    /\ ~(Cardinality(ActiveCrypto) > MaxCrypto /\ asset \in Crypto)

\* check_portfolio_bounds.
WithinBounds ==
    /\ ActiveOf(asset) = {}
    /\ Cardinality(ActiveIds) < MaxSlots
    /\ ~(Cardinality(ActiveCrypto) >= MaxCrypto /\ asset \in Crypto)

\* check_portfolio_bounds, then the reward/risk test (the rejections only log).
CheckBounds ==
    /\ pc = "bounds"
    /\ IF WithinBounds /\ job # NoJob
         THEN pc' = "watchdog" /\ UNCHANGED <<turn, job>>
         ELSE NextAsset
    /\ UNCHANGED <<book, wallet, seeded, recent, frozen, barred, crashes>>

\* detect_software_anomalies: an open row or a row entered within the last
\* minute freezes the engine; a database error only abandons this entry.
FreezeEngine ==
    /\ ActiveOf(asset) # {} \/ recent[asset] # "old"
    /\ frozen' = TRUE
    /\ barred' = barred \cup {asset}
    /\ NextAsset

WatchdogError ==
    /\ NextAsset
    /\ UNCHANGED <<frozen, barred>>

WatchdogPasses ==
    /\ ActiveOf(asset) = {}
    /\ recent[asset] # "fresh"
    /\ pc' = "insert"
    /\ UNCHANGED <<turn, job, frozen, barred>>

Watchdog ==
    /\ pc = "watchdog"
    /\ FreezeEngine \/ WatchdogError \/ WatchdogPasses
    /\ UNCHANGED <<book, wallet, seeded, recent, crashes>>

\* execute_paper_entry, after the watchdog.  The cycle in which the flag went up
\* goes on to its end, so it may be up here.
Enter ==
    /\ pc = "insert"
    /\ Len(book) < MaxRows
    /\ InsertRow(asset, EngineStyle, job.price, job.sl, job.tp)
    /\ recent' = [recent EXCEPT ![asset] = "fresh"]
    /\ barred' = IF frozen THEN barred \cup {asset} ELSE barred
    /\ NextAsset
    /\ UNCHANGED <<wallet, seeded, frozen, crashes>>

\* The bound MaxRows is reached: the run of the model ends here.
BookFull ==
    /\ pc = "insert" /\ Len(book) >= MaxRows
    /\ NextAsset
    /\ UNCHANGED <<book, wallet, seeded, recent, frozen, barred, crashes>>

\* Faulty variant: the exit is tried again after it has been committed.
SettleExit_Retried ==
    /\ pc = "exit"
    /\ seeded
    /\ book' = [book EXCEPT ![job.id].status = "CLOSED", ![job.id].r = job.r,
                            ![job.id].stop = job.price]
    /\ \E half \in {HalveRisk, FALSE} :
          wallet' = Append(wallet, [id |-> job.id, r |-> job.r, half |-> half])
    /\ UNCHANGED <<seeded, recent, frozen, barred, pc, turn, job, crashes>>

\* execute_paper_exit: one transaction closes the row, whatever its status is by
\* now, and settles it.  The risk is read on a second connection, which does not
\* see the uncommitted close; when that read fails the risk is the full one.
SettleExit ==
    /\ pc = "exit"
    /\ seeded
    /\ book' = [book EXCEPT ![job.id].status = "CLOSED", ![job.id].r = job.r,
                            ![job.id].stop = job.price]
    /\ \E half \in {HalveRisk, FALSE} :
          wallet' = Append(wallet, [id |-> job.id, r |-> job.r, half |-> half])
    /\ NextAsset
    /\ UNCHANGED <<seeded, recent, frozen, barred, crashes>>

\* Faulty variant: the close is committed before the wallet is read.
ExitRaises_AfterCommit ==
    /\ pc = "exit"
    /\ ~seeded
    /\ book' = [book EXCEPT ![job.id].status = "CLOSED", ![job.id].r = job.r]
    /\ pc' = "down" /\ job' = NoJob /\ turn' = 1
    /\ UNCHANGED <<wallet, seeded, recent, frozen, barred, crashes>>

\* The paper_wallet row does not exist: the exception leaves run_engine_loop
\* and the transaction is rolled back.
ExitRaises ==
    /\ pc = "exit"
    /\ ~seeded
    /\ pc' = "down" /\ job' = NoJob /\ turn' = 1
    /\ UNCHANGED <<book, wallet, seeded, recent, frozen, barred, crashes>>

Trail ==
    /\ pc = "trail"
    /\ MoveStop(job.id, job.stop)
    /\ NextAsset
    /\ UNCHANGED <<wallet, seeded, recent, frozen, barred, crashes>>

-----------------------------------------------------------------------------
(* Around the process.                                                     *)

\* initialize_wallet.py, run by the operator.
SeedWallet ==
    /\ ~seeded
    /\ seeded' = TRUE
    /\ UNCHANGED <<book, wallet, recent, frozen, barred, pc, turn, job, crashes>>

\* The process dies (an uncaught error, a kill, a reboot): what is not in the
\* database is lost.
Crash ==
    /\ pc # "down"
    /\ crashes < MaxCrashes
    /\ crashes' = crashes + 1
    /\ pc' = "down" /\ job' = NoJob /\ turn' = 1
    /\ UNCHANGED <<book, wallet, seeded, recent, frozen, barred>>

\* The operator starts the program again (nothing in the repository does), and
\* __init__ makes system_frozen False.  A row entered just before the crash
\* may or may not still be in the watchdog's window; one already a sleep old is
\* not, as a restart takes more than a second.
Restart ==
    /\ pc = "down"
    /\ pc' = "top"
    /\ frozen' = FALSE
    /\ barred' = {}
    /\ recent' = [a \in Assets |-> IF recent[a] \in {"fresh", "maybe"} THEN "maybe" ELSE "old"]
    /\ UNCHANGED <<book, wallet, seeded, turn, job, crashes>>

EngineStep ==
    \/ StartCycle \/ StayFrozen \/ NoData \/ NoSignal
    \/ \E price, fast \in Price, trending \in BOOLEAN : ManageOpen(price, fast, trending)
    \/ \E price, low, high \in Price : Signal(price, low, high)
    \/ CheckBounds \/ Watchdog \/ Enter \/ BookFull \/ SettleExit \/ ExitRaises \/ Trail
    \/ SleepMinute

Next == EngineStep \/ SeedWallet \/ Crash \/ Restart

Spec == Init /\ [][Next]_vars
=============================================================================
