------------------------ MODULE ExecutionEngineProps ------------------------
(***************************************************************************)
(* What the autonomous execution engine promises when it is the only       *)
(* writer of live_book.                                                     *)
(***************************************************************************)
EXTENDS ExecutionEngine

\* Every variable has its type: rows, settlements and the engine's locals.
TypeOK ==
    /\ book \in Seq(Row)
    /\ wallet \in Seq(Settlement)
    /\ seeded \in BOOLEAN
    /\ recent \in [Assets -> Recency]
    /\ frozen \in BOOLEAN
    /\ barred \subseteq Assets
    /\ pc \in {"top", "visit", "exit", "trail", "bounds", "watchdog", "insert", "sleep", "down"}
    /\ turn \in 1..Len(AssetOrder)
    /\ job \in {NoJob} \cup ExitJob \cup TrailJob \cup EntryJob
    /\ pc = "exit" => job \in ExitJob
    /\ pc = "trail" => job \in TrailJob
    /\ pc = "bounds" => job \in EntryJob \cup {NoJob}
    /\ pc \in {"watchdog", "insert"} => job \in EntryJob
    /\ crashes \in Nat

\* An asset never has two open positions, and the portfolio never exceeds its
\* slot ceiling or its crypto ceiling (check_portfolio_bounds), although the
\* check, the watchdog and the insert are three database connections.
ExposureBounded ==
    /\ \A i, j \in ActiveIds : book[i].asset = book[j].asset => i = j
    /\ Cardinality(ActiveIds) <= MaxSlots
    /\ Cardinality(ActiveCrypto) <= MaxCrypto

SettlementsOf(i) == {k \in DOMAIN wallet : wallet[k].id = i}

\* The wallet and the book agree at every moment, through crashes and restarts:
\* a closed row has been settled exactly once, at the R the row records, and an
\* open row never (execute_paper_exit).
WalletMatchesBook ==
    /\ \A k \in DOMAIN wallet : wallet[k].id \in DOMAIN book
    /\ \A i \in ActiveIds : SettlementsOf(i) = {}
    /\ \A i \in ClosedIds : \E k \in DOMAIN wallet :
          SettlementsOf(i) = {k} /\ wallet[k].r = book[i].r

\* A trade is settled at half risk only after a full sample of earlier losses:
\* the loss being settled never counts towards its own halving
\* (calculate_adaptive_allocation_risk, called before the close is committed).
HalvedAfterLosses ==
    \A k \in DOMAIN wallet : wallet[k].half =>
        Cardinality({j \in 1..(k - 1) : IsLoss(wallet[j].r)}) >= SampleSize

\* While a position stays open its protective stop is never lowered
\* (process_asset_lifecycle reads the stop on one connection and writes the new
\* one on another).
StopsOnlyRise ==
    [][\A i \in DOMAIN book :
         book[i].status = "ACTIVE" /\ book'[i].status = "ACTIVE" => book'[i].stop >= book[i].stop]_vars

\* A freeze stops the entries within the cycle it happens in, although
\* run_engine_loop looks at the flag only between cycles: until the process is
\* started again the offending asset gets no row, and every other asset at most
\* the one that the rest of that cycle gives it.
FrozenEntersOnce ==
    [][\A i \in DOMAIN book' \ DOMAIN book : book'[i].asset \notin barred]_vars
-----------------------------------------------------------------------------
(* What the code's own messages say and the code does not do.              *)

\* A position closed at a price above its entry is a gain.
ProfitableExitIsNotALoss ==
    \A i \in ClosedIds : book[i].stop > book[i].entry => ~IsLoss(book[i].r)
=============================================================================
