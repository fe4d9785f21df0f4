-------------------------- MODULE LiveBookWriters ---------------------------
(***************************************************************************)
(* The autonomous execution engine and LiveStateProcessor                  *)
(* (v3_architecture/live_state_processor.py) on the same database file.    *)
(* process_live_candle_tick reads the slot's open row, decides, and writes *)
(* by id in a transaction that only begins at the write: the engine can    *)
(* act between the two, and so can the processor between the engine's.      *)
(***************************************************************************)
EXTENDS ExecutionEngineProps

CONSTANT TrailExitStyles   \* the styles that close below the trailing average

ASSUME WritersAssumption == TrailExitStyles \subseteq Styles

VARIABLE tick   \* what the processor's current call is about to write

writersVars == <<vars, tick>>

\* An R multiple no worse than a full loss: max(-1.0, r).
AtLeastFullLoss(r) == IF r[1] < -r[2] THEN FullLoss ELSE r

WritersInit == Init /\ tick = [op |-> "idle"]

-----------------------------------------------------------------------------
(* The first half of process_live_candle_tick: read the slot and decide.   *)

\* Faulty variant: the risk is measured to the trailed stop.
TickClose_TrailedRisk(row, low, high, close, fast) ==
    LET risk == row.entry - row.stop IN
    CASE low <= row.stop -> FullLoss
      [] low > row.stop /\ high >= row.tp -> <<row.tp - row.entry, risk>>
      [] OTHER -> AtLeastFullLoss(<<fast - row.entry, risk>>)

TickClose(row, low, high, close, fast) ==
    LET risk == row.entry - row.sl IN
    CASE low <= row.stop -> FullLoss
      [] low > row.stop /\ high >= row.tp -> <<row.tp - row.entry, risk>>
      [] OTHER -> AtLeastFullLoss(<<fast - row.entry, risk>>)

\* Stop, target and trailing exit, in that order.
TickCloses(row, low, high, close, fast) ==
    \/ low <= row.stop
    \/ high >= row.tp
    \/ close <= fast /\ row.style \in TrailExitStyles

TickManages(a, s, low, high, close, fast) ==
    /\ tick.op = "idle"
    /\ ActiveSlot(a, s) # {}
    /\ low <= close /\ close <= high
    /\ LET id == FirstRow(ActiveSlot(a, s))
           row == book[id]
       IN \/ /\ TickCloses(row, low, high, close, fast)
             /\ tick' = [op |-> "close", id |-> id, r |-> TickClose(row, low, high, close, fast)]
          \/ /\ ~TickCloses(row, low, high, close, fast)
             /\ fast > row.stop
             /\ tick' = [op |-> "trail", id |-> id, stop |-> fast]
    /\ UNCHANGED vars

\* Four aligned flags and a trade worth taking, on a slot with no open row.
TickSignals(a, s, price, sl, tp) ==
    /\ tick.op = "idle"
    /\ ActiveSlot(a, s) = {}
    /\ WorthTaking(price, sl, tp)
    /\ tick' = [op |-> "insert", asset |-> a, style |-> s, price |-> price, sl |-> sl, tp |-> tp]
    /\ UNCHANGED vars

-----------------------------------------------------------------------------
(* The second half: the write and its commit.                              *)

\* The stop column keeps its value and no wallet is involved.
TickWritesClose ==
    /\ tick.op = "close"
    /\ book' = [book EXCEPT ![tick.id].status = "CLOSED", ![tick.id].r = tick.r]
    /\ tick' = [op |-> "idle"]
    /\ UNCHANGED engineVars

TickWritesTrail ==
    /\ tick.op = "trail"
    /\ MoveStop(tick.id, tick.stop)
    /\ tick' = [op |-> "idle"]
    /\ UNCHANGED engineVars

\* The new row may or may not be inside the watchdog's window when it looks.
TickWritesInsert ==
    /\ tick.op = "insert"
    /\ Len(book) < MaxRows
    /\ InsertRow(tick.asset, tick.style, tick.price, tick.sl, tick.tp)
    /\ recent' = [recent EXCEPT ![tick.asset] = "maybe"]
    /\ tick' = [op |-> "idle"]
    /\ UNCHANGED <<wallet, seeded, frozen, barred, pc, turn, job, crashes>>

\* The caller of the processor dies before the commit.
TickDies ==
    /\ tick.op # "idle"
    /\ tick' = [op |-> "idle"]
    /\ UNCHANGED vars

ProcessorStep ==
    \/ \E a \in Assets, s \in Styles :
          \/ \E low, high, close, fast \in Price : TickManages(a, s, low, high, close, fast)
          \/ \E price, sl, tp \in Price : TickSignals(a, s, price, sl, tp)
    \/ TickWritesClose \/ TickWritesTrail \/ TickWritesInsert \/ TickDies

WritersNext == (Next /\ UNCHANGED tick) \/ ProcessorStep

WritersSpec == WritersInit /\ [][WritersNext]_writersVars

-----------------------------------------------------------------------------
\* Every variable has its type: what TypeOK says of the rows and the engine, with
\* the processor writing between its steps, and what a call of the processor
\* carries from its read to its write (process_live_candle_tick): a row that
\* exists, with an R over a positive risk or a stop that is a price, or an entry.
WritersTypeOK ==
    /\ TypeOK
    /\ \/ tick \in [op : {"idle"}]
       \/ tick \in [op : {"close"}, id : DOMAIN book, r : Multiple]
       \/ tick \in [op : {"trail"}, id : DOMAIN book, stop : Price]
       \/ tick \in [op : {"insert"}, asset : Assets, style : Styles,
                    price : Price, sl : Price, tp : Price]

SettledIds == {wallet[k].id : k \in DOMAIN wallet}

\* Whatever the interleaving of the two writers, no position is paid twice: the
\* engine settles a row at most once, and only rows that are closed (only
\* execute_paper_exit touches the wallet, and it reads the row as open first).
NeverPaidTwice ==
    /\ Cardinality(SettledIds) = Len(wallet)
    /\ SettledIds \subseteq ClosedIds

\* A closed row is never opened again, although every update is by id and none
\* looks at the row's status.
ClosedIsFinal ==
    [][\A i \in DOMAIN book : book[i].status = "CLOSED" => book'[i].status = "CLOSED"]_writersVars

\* "Duplicate Asset Shield Active": at most one open position per asset.
DuplicateShield ==
    \A i, j \in ActiveIds : book[i].asset = book[j].asset => i = j
=============================================================================
