----------------------- MODULE LiveBookWritersProofs ------------------------
(***************************************************************************)
(* Proofs, for every choice of assets, styles and prices, of what           *)
(* LiveBookWriters states of the two writers.                               *)
(***************************************************************************)
EXTENDS LiveBookWriters, ExecutionEngineProofs, FiniteSums

\* Every row was worth taking: its entry is above the stop it was entered with.
RowsPriced == \A i \in DOMAIN book : book[i].entry > book[i].sl

\* What the engine carries from its read to its write: a row of the book, which
\* no exit has settled, or an entry above its stop.  The row may be closed by
\* now, and other rows may have come: JobFits is the engine's alone.
EngineCarries ==
    /\ pc \in {"exit", "trail"} => job.id \in DOMAIN book
    /\ pc = "exit" => job.id \notin SettledIds
    /\ pc \in {"bounds", "watchdog", "insert"} => job = NoJob \/ job.price > job.sl

\* What the processor carries from its read to its write.
TickClosing == [op : {"close"}, id : DOMAIN book, r : Multiple]
TickTrailing == [op : {"trail"}, id : DOMAIN book, stop : Price]
TickEntering == {t \in [op : {"insert"}, asset : Assets, style : Styles,
                        price : Price, sl : Price, tp : Price] : t.price > t.sl}

ProcessorCarries ==
    \/ tick \in [op : {"idle"}]
    \/ tick \in TickClosing
    \/ tick \in TickTrailing
    \/ tick \in TickEntering

WInv == TypeOK /\ RowsPriced /\ EngineCarries /\ ProcessorCarries /\ NeverPaidTwice

-----------------------------------------------------------------------------
\* The row fetchone() returns is one of the rows asked for.
LEMMA LowestRow ==
    ASSUME book \in Seq(Row), NEW ids, ids \subseteq DOMAIN book, ids # {}
    PROVE  FirstRow(ids) \in ids
<1>1. ids \subseteq Nat
  OBVIOUS
<1>2. \E i \in ids : \A j \in ids : i <= j
  BY <1>1, Least
<1>. QED
  BY <1>2 DEF FirstRow

\* A close by id, whatever the row's status is by then: with the exit price in
\* the stop column (the engine) or without it (the processor).
LEMMA CloseByIdEffect ==
    ASSUME book \in Seq(Row), NEW id, id \in DOMAIN book, NEW r, r \in Multiple,
           NEW stop, stop \in Price,
           \/ book' = [book EXCEPT ![id].status = "CLOSED", ![id].r = r, ![id].stop = stop]
           \/ book' = [book EXCEPT ![id].status = "CLOSED", ![id].r = r]
    PROVE  /\ book' \in Seq(Row)
           /\ DOMAIN book' = DOMAIN book
           /\ \A i \in DOMAIN book : book'[i].entry = book[i].entry /\ book'[i].sl = book[i].sl
           /\ \A i \in DOMAIN book : i # id => book'[i].status = book[i].status
           /\ book'[id].status = "CLOSED"
<1> DEFINE priced == [book[id] EXCEPT !.status = "CLOSED", !.r = r, !.stop = stop]
           kept == [book[id] EXCEPT !.status = "CLOSED", !.r = r]
<1>1. book[id] \in Row
  OBVIOUS
<1>2. /\ priced \in Row /\ priced.status = "CLOSED"
      /\ priced.entry = book[id].entry /\ priced.sl = book[id].sl
      /\ kept \in Row /\ kept.status = "CLOSED"
      /\ kept.entry = book[id].entry /\ kept.sl = book[id].sl
  BY <1>1 DEF Row
<1>3. book' = [book EXCEPT ![id] = priced] \/ book' = [book EXCEPT ![id] = kept]
  BY <1>1 DEF Row
<1> HIDE DEF priced, kept
<1>4. PICK row : /\ row \in Row /\ row.status = "CLOSED"
                 /\ row.entry = book[id].entry /\ row.sl = book[id].sl
                 /\ book' = [book EXCEPT ![id] = row]
  BY <1>2, <1>3
<1>5. /\ book' \in Seq(Row) /\ DOMAIN book' = DOMAIN book
      /\ \A i \in DOMAIN book : i # id => book'[i] = book[i]
      /\ book'[id] = row
  BY <1>4
<1>. QED
  BY <1>4, <1>5

\* The two other updates, in the same terms.
LEMMA InsertKeepsRows ==
    ASSUME book \in Seq(Row), NEW a \in Assets, NEW s \in Styles,
           NEW price \in Price, NEW sl \in Price, NEW tp \in Price, price > sl,
           InsertRow(a, s, price, sl, tp)
    PROVE  /\ book' \in Seq(Row)
           /\ DOMAIN book \subseteq DOMAIN book'
           /\ \A i \in DOMAIN book : book'[i] = book[i]
           /\ ClosedIds' = ClosedIds
           /\ RowsPriced => RowsPriced'
<1>1. /\ book' \in Seq(Row) /\ Len(book') = Len(book) + 1
      /\ \A i \in 1..Len(book) : book'[i] = book[i]
      /\ ClosedIds' = ClosedIds
  BY InsertEffect
<1>2. Len(book) \in Nat /\ DOMAIN book = 1..Len(book) /\ DOMAIN book' = 1..(Len(book) + 1)
  BY <1>1
<1>3. book'[Len(book) + 1].entry = price /\ book'[Len(book) + 1].sl = sl
  BY <1>2 DEF InsertRow
<1>4. ASSUME RowsPriced, NEW i \in DOMAIN book'
      PROVE  book'[i].entry > book'[i].sl
  <2>1. CASE i \in DOMAIN book
    BY <1>1, <1>2, <1>4, <2>1 DEF RowsPriced
  <2>2. CASE i = Len(book) + 1
    BY <1>3, <2>2
  <2>. QED
    BY <1>2, <2>1, <2>2
<1>. QED
  BY <1>1, <1>2, <1>4 DEF RowsPriced

LEMMA MoveKeepsRows ==
    ASSUME book \in Seq(Row), NEW id \in DOMAIN book, NEW stop \in Price, MoveStop(id, stop)
    PROVE  /\ book' \in Seq(Row)
           /\ DOMAIN book' = DOMAIN book
           /\ \A i \in DOMAIN book : book'[i].status = book[i].status
           /\ \A i \in DOMAIN book : book'[i].entry = book[i].entry /\ book'[i].sl = book[i].sl
           /\ ClosedIds' = ClosedIds
<1>1. /\ book' \in Seq(Row) /\ Len(book') = Len(book) /\ ClosedIds' = ClosedIds
      /\ \A i \in DOMAIN book : book'[i].status = book[i].status
      /\ \A i \in DOMAIN book : i # id => book'[i] = book[i]
  BY StopEffect
<1>2. book'[id].entry = book[id].entry /\ book'[id].sl = book[id].sl
  <2>1. book[id] \in Row
    OBVIOUS
  <2>. QED
    BY <2>1 DEF MoveStop, Row
<1>3. DOMAIN book' = DOMAIN book
  BY <1>1
<1>. QED
  BY <1>1, <1>2, <1>3

-----------------------------------------------------------------------------
\* A step that leaves the rows and the wallet alone keeps what is said of them.
LEMMA QuietStep ==
    ASSUME WInv, UNCHANGED <<book, wallet>>
    PROVE  /\ RowsPriced' /\ NeverPaidTwice' /\ SettledIds' = SettledIds
           /\ UNCHANGED tick => ProcessorCarries'
<1>1. SettledIds' = SettledIds /\ ClosedIds' = ClosedIds
  BY DEF SettledIds, ClosedIds
<1>2. RowsPriced' /\ NeverPaidTwice'
  BY <1>1 DEF WInv, RowsPriced, NeverPaidTwice
<1>3. ASSUME UNCHANGED tick PROVE ProcessorCarries'
  BY <1>3 DEF WInv, ProcessorCarries, TickClosing, TickTrailing, TickEntering
<1>. QED
  BY <1>1, <1>2, <1>3

\* What is carried to a write by id survives the other writer's insertions.
LEMMA CarriedBySurvives ==
    ASSUME ProcessorCarries, UNCHANGED tick, DOMAIN book \subseteq DOMAIN book'
    PROVE  ProcessorCarries'
BY DEF ProcessorCarries, TickClosing, TickTrailing, TickEntering

\* The end of a visit carries nothing.
LEMMA VisitEnds ==
    ASSUME TypeOK, NextAsset, book' \in Seq(Row), wallet' \in Seq(Settlement),
           UNCHANGED <<seeded, crashes>>, recent' \in [Assets -> Recency],
           frozen' \in BOOLEAN, barred' \subseteq Assets
    PROVE  TypeOK' /\ EngineCarries'
<1>1. turn' \in 1..Len(AssetOrder) /\ pc' \in {"visit", "sleep"} /\ job' = NoJob
  BY NextAssetEffect
<1>2. TypeOK'
  BY <1>1 DEF TypeOK
<1>3. EngineCarries'
  BY <1>1 DEF EngineCarries
<1>. QED
  BY <1>2, <1>3

-----------------------------------------------------------------------------
(* The engine.                                                              *)

\* A visit that reads and decides, but does not write.
LEMMA VisitKeepsWInv ==
    ASSUME WInv, UNCHANGED tick,
           \/ NoData \/ NoSignal \/ CheckBounds \/ Watchdog \/ BookFull
           \/ \E price, fast \in Price, trending \in BOOLEAN : ManageOpen(price, fast, trending)
           \/ \E price, low, high \in Price : Signal(price, low, high)
    PROVE  WInv'
<1>1. UNCHANGED <<book, wallet, seeded, recent, crashes>>
  BY DEF NoData, NoSignal, CheckBounds, Watchdog, BookFull, ManageOpen, Signal
<1>2. RowsPriced' /\ NeverPaidTwice' /\ ProcessorCarries' /\ SettledIds' = SettledIds
  BY <1>1, QuietStep
<1>3. TypeOK /\ EngineCarries
  BY DEF WInv
<1>4. frozen \in BOOLEAN /\ barred \subseteq Assets /\ book \in Seq(Row) /\ wallet \in Seq(Settlement)
      /\ recent \in [Assets -> Recency]
  BY <1>3 DEF TypeOK
<1>5. ASSUME NextAsset, frozen' \in BOOLEAN, barred' \subseteq Assets
      PROVE  WInv'
  <2>1. TypeOK' /\ EngineCarries'
    BY <1>1, <1>3, <1>4, <1>5, VisitEnds
  <2>. QED
    BY <1>2, <2>1 DEF WInv
<1>6. CASE NoData \/ NoSignal \/ BookFull
  BY <1>4, <1>5, <1>6 DEF NoData, NoSignal, BookFull
<1>7. ASSUME NEW price \in Price, NEW low \in Price, NEW high \in Price, Signal(price, low, high)
      PROVE  WInv'
  <2>1. TypeOK'
    BY <1>3, <1>7 DEF Signal, TypeOK, EntryJob, NoJob
  <2>2. pc' = "bounds" /\ (job' = NoJob \/ job'.price > job'.sl)
    BY <1>7 DEF Signal, WorthTaking
  <2>3. EngineCarries'
    BY <2>2 DEF EngineCarries
  <2>. QED
    BY <1>2, <2>1, <2>3 DEF WInv
<1>8. CASE CheckBounds
  <2>1. CASE WithinBounds /\ job # NoJob
    <3>1. pc = "bounds" /\ pc' = "watchdog" /\ UNCHANGED <<frozen, barred, turn, job>>
      BY <1>8, <2>1 DEF CheckBounds
    <3>2. TypeOK'
      BY <1>1, <1>3, <2>1, <3>1 DEF TypeOK
    <3>3. EngineCarries'
      BY <1>3, <3>1 DEF EngineCarries
    <3>. QED
      BY <1>2, <3>2, <3>3 DEF WInv
  <2>2. CASE ~(WithinBounds /\ job # NoJob)
    BY <1>4, <1>5, <1>8, <2>2 DEF CheckBounds
  <2>. QED
    BY <2>1, <2>2
<1>9. CASE Watchdog
  <2>1. CASE FreezeEngine
    BY <1>3, <1>4, <1>5, <2>1, VisitedAsset DEF FreezeEngine
  <2>2. CASE WatchdogError
    BY <1>4, <1>5, <2>2 DEF WatchdogError
  <2>3. CASE WatchdogPasses
    <3>1. pc = "watchdog" /\ pc' = "insert" /\ UNCHANGED <<frozen, barred, turn, job>>
      BY <1>9, <2>3 DEF Watchdog, WatchdogPasses
    <3>2. TypeOK'
      BY <1>1, <1>3, <3>1 DEF TypeOK
    <3>3. EngineCarries'
      BY <1>3, <3>1 DEF EngineCarries
    <3>. QED
      BY <1>2, <3>2, <3>3 DEF WInv
  <2>. QED
    BY <1>9, <2>1, <2>2, <2>3 DEF Watchdog
<1>10. ASSUME NEW price \in Price, NEW fast \in Price, NEW trending \in BOOLEAN,
              ManageOpen(price, fast, trending)
       PROVE  WInv'
  <2> DEFINE id == FirstRow(ActiveOf(asset))
             row == book[id]
  <2>1. id \in ActiveIds
    <3>1. ActiveOf(asset) \subseteq DOMAIN book /\ ActiveOf(asset) # {}
      BY <1>10 DEF ManageOpen, ActiveOf, ActiveIds
    <3>. QED
      BY <1>4, <3>1, LowestRow DEF ActiveOf
  <2>2. id \in DOMAIN book /\ id \in Nat /\ row \in Row
    BY <1>4, <2>1 DEF ActiveIds
  <2>3. id \notin SettledIds
    <3>1. id \notin ClosedIds
      BY <2>1 DEF ActiveIds, ClosedIds
    <3>. QED
      BY <3>1 DEF WInv, NeverPaidTwice
  <2>4. row.stop \in Price /\ row.tp \in Price
    BY <2>2 DEF Row
  <2>5. FullLoss \in Multiple /\ TargetMultiple(row) \in Multiple
    BY <2>2, MultipleTypes
  <2>6. UNCHANGED <<frozen, barred>>
    BY <1>10 DEF ManageOpen
  <2>7. \/ pc' = "exit" /\ UNCHANGED turn
             /\ \/ job' = [id |-> id, price |-> row.stop, r |-> FullLoss]
                \/ job' = [id |-> id, price |-> row.tp, r |-> TargetMultiple(row)]
        \/ pc' = "trail" /\ UNCHANGED turn /\ job' = [id |-> id, stop |-> fast]
        \/ NextAsset
    BY <1>10 DEF ManageOpen, Trails
  <2> HIDE DEF id, row
  <2>8. ASSUME pc' = "exit", UNCHANGED turn,
               \/ job' = [id |-> id, price |-> row.stop, r |-> FullLoss]
               \/ job' = [id |-> id, price |-> row.tp, r |-> TargetMultiple(row)]
        PROVE  WInv'
    <3>1. job' \in ExitJob /\ job'.id = id
      BY <2>2, <2>4, <2>5, <2>8 DEF ExitJob
    <3>2. TypeOK'
      BY <1>1, <1>3, <2>6, <2>8, <3>1 DEF TypeOK
    <3>3. EngineCarries'
      BY <1>1, <1>2, <2>2, <2>3, <2>8, <3>1 DEF EngineCarries
    <3>. QED
      BY <1>2, <3>2, <3>3 DEF WInv
  <2>9. ASSUME pc' = "trail", UNCHANGED turn, job' = [id |-> id, stop |-> fast]
        PROVE  WInv'
    <3>1. job' \in TrailJob /\ job'.id = id
      BY <2>2, <2>9 DEF TrailJob
    <3>2. TypeOK'
      BY <1>1, <1>3, <2>6, <2>9, <3>1 DEF TypeOK
    <3>3. EngineCarries'
      BY <1>1, <2>2, <2>9, <3>1 DEF EngineCarries
    <3>. QED
      BY <1>2, <3>2, <3>3 DEF WInv
  <2>. QED
    BY <1>4, <1>5, <2>6, <2>7, <2>8, <2>9
<1>. QED
  BY <1>6, <1>7, <1>8, <1>9, <1>10

\* A settlement: the row may have been closed by the processor in between, but
\* no exit has settled it, and it stays closed.
LEMMA SettleExitKeepsWInv ==
    ASSUME WInv, UNCHANGED tick, SettleExit
    PROVE  /\ WInv'
           /\ \A i \in DOMAIN book : book[i].status = "CLOSED" => book'[i].status = "CLOSED"
<1>0. PICK id : id = job.id
  OBVIOUS
<1> DEFINE last == Len(wallet) + 1
<1>1. TypeOK /\ RowsPriced /\ EngineCarries /\ ProcessorCarries /\ NeverPaidTwice
  BY DEF WInv
<1>2. book \in Seq(Row) /\ wallet \in Seq(Settlement) /\ Len(wallet) \in Nat
  BY <1>1 DEF TypeOK
<1>3. /\ id \in DOMAIN book /\ id \notin SettledIds /\ id \in Nat
      /\ job.price \in Price /\ job.r \in Multiple
  BY <1>0, <1>1 DEF SettleExit, EngineCarries, TypeOK, ExitJob
<1>4. /\ book' \in Seq(Row) /\ DOMAIN book' = DOMAIN book
      /\ \A i \in DOMAIN book : book'[i].entry = book[i].entry /\ book'[i].sl = book[i].sl
      /\ \A i \in DOMAIN book : i # id => book'[i].status = book[i].status
      /\ book'[id].status = "CLOSED"
  BY <1>0, <1>2, <1>3, CloseByIdEffect DEF SettleExit
<1>5. ClosedIds' = ClosedIds \cup {id}
  BY <1>3, <1>4 DEF ClosedIds
<1>6. /\ wallet' \in Seq(Settlement) /\ Len(wallet') = last
      /\ SettledIds' = SettledIds \cup {id}
  <2>0. PICK half \in BOOLEAN : wallet' = Append(wallet, [id |-> id, r |-> job.r, half |-> half])
    BY <1>0 DEF SettleExit, HalveRisk
  <2> DEFINE entry == [id |-> id, r |-> job.r, half |-> half]
  <2>1. entry \in Settlement /\ entry.id = id
    BY <1>3 DEF Settlement
  <2>2. wallet' = Append(wallet, entry)
    BY <2>0
  <2> HIDE DEF entry
  <2>3. /\ wallet' \in Seq(Settlement) /\ Len(wallet') = last
        /\ \A k \in 1..Len(wallet) : wallet'[k] = wallet[k]
        /\ wallet'[last].id = id
        /\ DOMAIN wallet = 1..Len(wallet) /\ DOMAIN wallet' = 1..last
    BY <1>2, <2>1, <2>2
  <2>4. 1..last = (1..Len(wallet)) \cup {last}
    BY <1>2
  <2>5. SettledIds' = SettledIds \cup {id}
    BY <2>3, <2>4 DEF SettledIds
  <2>. QED
    BY <2>3, <2>5
<1>7. NeverPaidTwice'
  <2>1. IsFiniteSet(SettledIds)
    <3>1. SettledIds \subseteq 1..Len(book) /\ Len(book) \in Nat
      BY <1>1, <1>2 DEF NeverPaidTwice, ClosedIds
    <3>2. IsFiniteSet(1..Len(book))
      BY <3>1, FS_Interval
    <3>. QED
      BY <3>1, <3>2, FS_Subset
  <2>2. Cardinality(SettledIds \cup {id}) = Cardinality(SettledIds) + 1
    BY <1>3, <2>1, FS_AddElement
  <2>. QED
    BY <1>1, <1>5, <1>6, <2>2 DEF NeverPaidTwice
<1>8. RowsPriced'
  BY <1>1, <1>4 DEF RowsPriced
<1>9. ProcessorCarries'
  BY <1>1, <1>4, CarriedBySurvives
<1>10. TypeOK' /\ EngineCarries'
  BY <1>1, <1>4, <1>6, VisitEnds DEF SettleExit, TypeOK
<1>. QED
  BY <1>4, <1>7, <1>8, <1>9, <1>10 DEF WInv

LEMMA TrailKeepsWInv ==
    ASSUME WInv, UNCHANGED tick, Trail
    PROVE  WInv' /\ \A i \in DOMAIN book : book'[i].status = book[i].status
<1>1. TypeOK /\ RowsPriced /\ EngineCarries /\ ProcessorCarries /\ NeverPaidTwice
  BY DEF WInv
<1>2. job.id \in DOMAIN book /\ job.stop \in Price /\ book \in Seq(Row)
  BY <1>1 DEF Trail, EngineCarries, TypeOK, TrailJob
<1>3. /\ book' \in Seq(Row) /\ DOMAIN book' = DOMAIN book /\ ClosedIds' = ClosedIds
      /\ \A i \in DOMAIN book : book'[i].status = book[i].status
      /\ \A i \in DOMAIN book : book'[i].entry = book[i].entry /\ book'[i].sl = book[i].sl
  BY <1>2, MoveKeepsRows DEF Trail
<1>4. RowsPriced' /\ ProcessorCarries'
  BY <1>1, <1>3, CarriedBySurvives DEF RowsPriced
<1>5. NeverPaidTwice'
  BY <1>1, <1>3 DEF Trail, NeverPaidTwice, SettledIds
<1>6. TypeOK' /\ EngineCarries'
  BY <1>1, <1>3, VisitEnds DEF Trail, TypeOK
<1>. QED
  BY <1>3, <1>4, <1>5, <1>6 DEF WInv

LEMMA EnterKeepsWInv ==
    ASSUME WInv, UNCHANGED tick, Enter
    PROVE  WInv' /\ \A i \in DOMAIN book : book'[i] = book[i]
<1>1. TypeOK /\ RowsPriced /\ EngineCarries /\ ProcessorCarries /\ NeverPaidTwice
  BY DEF WInv
<1>2. book \in Seq(Row) /\ recent \in [Assets -> Recency] /\ asset \in Assets
  BY <1>1, VisitedAsset DEF TypeOK
<1>3. job.price \in Price /\ job.sl \in Price /\ job.tp \in Price /\ job.price > job.sl
  <2>1. job \in EntryJob /\ job # NoJob
    <3>1. job \in EntryJob
      BY <1>1 DEF Enter, TypeOK
    <3>2. DOMAIN job # DOMAIN NoJob
      BY <3>1 DEF EntryJob, NoJob
    <3>. QED
      BY <3>1, <3>2
  <2>. QED
    BY <1>1, <2>1 DEF Enter, EngineCarries, EntryJob
<1>4. /\ book' \in Seq(Row) /\ DOMAIN book \subseteq DOMAIN book'
      /\ \A i \in DOMAIN book : book'[i] = book[i]
      /\ ClosedIds' = ClosedIds /\ RowsPriced'
  BY <1>1, <1>2, <1>3, InsertKeepsRows, EngineAssumption DEF Enter
<1>5. ProcessorCarries'
  BY <1>1, <1>4, CarriedBySurvives
<1>6. NeverPaidTwice'
  BY <1>1, <1>4 DEF Enter, NeverPaidTwice, SettledIds
<1>7. recent' \in [Assets -> Recency]
  BY <1>2 DEF Enter, Recency
<1>8. barred' \subseteq Assets
  BY <1>1, <1>2 DEF Enter, TypeOK
<1>9. TypeOK' /\ EngineCarries'
  BY <1>1, <1>4, <1>7, <1>8, VisitEnds DEF Enter, TypeOK
<1>. QED
  BY <1>4, <1>5, <1>6, <1>9 DEF WInv

\* The loop, the operator and the crashes.
LEMMA SurroundingsKeepWInv ==
    ASSUME WInv, UNCHANGED tick,
           StartCycle \/ SleepMinute \/ ExitRaises \/ SeedWallet \/ Crash \/ Restart
    PROVE  WInv'
<1>1. UNCHANGED <<book, wallet>>
  BY DEF StartCycle, SleepMinute, ExitRaises, SeedWallet, Crash, Restart
<1>2. RowsPriced' /\ NeverPaidTwice' /\ ProcessorCarries' /\ SettledIds' = SettledIds
  BY <1>1, QuietStep
<1>3. TypeOK /\ EngineCarries
  BY DEF WInv
<1>4. 1 \in 1..Len(AssetOrder) /\ [a \in Assets |-> "old"] \in [Assets -> Recency]
  BY EngineAssumption DEF Recency
<1>5. CASE StartCycle \/ SleepMinute \/ Restart
  <2>1. pc' \in {"top", "visit"} /\ recent' \in [Assets -> Recency]
        /\ frozen' \in BOOLEAN /\ barred' \subseteq Assets
        /\ UNCHANGED <<book, wallet, seeded, turn, job, crashes>>
    BY <1>3, <1>5 DEF StartCycle, SleepMinute, Restart, TypeOK, Recency
  <2>2. TypeOK' /\ EngineCarries'
    BY <1>3, <2>1 DEF TypeOK, EngineCarries
  <2>. QED
    BY <1>2, <2>2 DEF WInv
<1>6. CASE ExitRaises \/ Crash
  <2>1. pc' = "down" /\ job' = NoJob /\ turn' = 1 /\ crashes' \in Nat
        /\ UNCHANGED <<book, wallet, seeded, recent, frozen, barred>>
    BY <1>3, <1>6 DEF ExitRaises, Crash, TypeOK
  <2>2. TypeOK' /\ EngineCarries'
    BY <1>3, <1>4, <2>1 DEF TypeOK, EngineCarries
  <2>. QED
    BY <1>2, <2>2 DEF WInv
<1>7. CASE SeedWallet
  <2>1. seeded' \in BOOLEAN /\ UNCHANGED <<book, wallet, recent, frozen, barred, pc, turn, job, crashes>>
    BY <1>7 DEF SeedWallet
  <2>2. TypeOK' /\ EngineCarries'
    BY <1>2, <1>3, <2>1 DEF TypeOK, EngineCarries
  <2>. QED
    BY <1>2, <2>2 DEF WInv
<1>. QED
  BY <1>5, <1>6, <1>7

-----------------------------------------------------------------------------
(* The processor.                                                           *)

\* The R it computes is over the row's initial risk, which is never zero.
LEMMA TickCloseIsMultiple ==
    ASSUME NEW row \in Row, row.entry > row.sl,
           NEW low \in Price, NEW high \in Price, NEW close \in Price, NEW fast \in Price
    PROVE  TickClose(row, low, high, close, fast) \in Multiple
<1>1. /\ row.entry \in Nat /\ row.sl \in Nat /\ row.tp \in Nat /\ row.stop \in Nat
      /\ low \in Nat /\ high \in Nat /\ fast \in Nat
  BY LiveBookAssumption DEF Row
<1> DEFINE risk == row.entry - row.sl
           target == <<row.tp - row.entry, risk>>
           average == <<fast - row.entry, risk>>
<1>2. risk \in Nat \ {0} /\ row.tp - row.entry \in Int /\ fast - row.entry \in Int
  BY <1>1
<1> HIDE DEF risk
<1>3. target \in Multiple /\ average \in Multiple /\ FullLoss \in Multiple
  BY <1>2, MultipleTypes DEF Multiple
<1> HIDE DEF target, average
<1>4. AtLeastFullLoss(average) \in Multiple
  BY <1>3 DEF AtLeastFullLoss
<1>5. TickClose(row, low, high, close, fast) \in {FullLoss, target, AtLeastFullLoss(average)}
  <2>1. low <= row.stop \/ low > row.stop
    BY <1>1
  <2>. QED
    BY <2>1 DEF TickClose, target, average, risk
<1>. QED
  BY <1>3, <1>4, <1>5

\* Its reads.
LEMMA ReadKeepsWInv ==
    ASSUME WInv, NEW a \in Assets, NEW s \in Styles,
           \/ \E low, high, close, fast \in Price : TickManages(a, s, low, high, close, fast)
           \/ \E price, sl, tp \in Price : TickSignals(a, s, price, sl, tp)
    PROVE  WInv' /\ UNCHANGED book
<1>1. UNCHANGED vars
  BY DEF TickManages, TickSignals
<1>2. UNCHANGED <<book, wallet, seeded, recent, frozen, barred, pc, turn, job, crashes>>
  BY <1>1 DEF vars, engineVars
<1>3. TypeOK' /\ EngineCarries'
  BY <1>2, QuietStep DEF WInv, TypeOK, EngineCarries
<1>4. RowsPriced' /\ NeverPaidTwice'
  BY <1>2, QuietStep
<1>5. ASSUME NEW price \in Price, NEW sl \in Price, NEW tp \in Price,
             TickSignals(a, s, price, sl, tp)
      PROVE  ProcessorCarries'
  <2>1. tick' = [op |-> "insert", asset |-> a, style |-> s, price |-> price, sl |-> sl, tp |-> tp]
        /\ price > sl
    BY <1>5 DEF TickSignals, WorthTaking
  <2>2. tick' \in TickEntering
    BY <2>1 DEF TickEntering
  <2>. QED
    BY <2>2 DEF ProcessorCarries, TickEntering
<1>6. ASSUME NEW low \in Price, NEW high \in Price, NEW close \in Price, NEW fast \in Price,
             TickManages(a, s, low, high, close, fast)
      PROVE  ProcessorCarries'
  <2> DEFINE id == FirstRow(ActiveSlot(a, s))
             r == TickClose(book[id], low, high, close, fast)
  <2>1. book \in Seq(Row)
    BY DEF WInv, TypeOK
  <2>2. ActiveSlot(a, s) # {} /\ ActiveSlot(a, s) \subseteq DOMAIN book
    BY <1>6 DEF TickManages, ActiveSlot, ActiveOf, ActiveIds
  <2>3. id \in DOMAIN book
    BY <2>1, <2>2, LowestRow
  <2>4. book[id] \in Row /\ book[id].entry > book[id].sl
    BY <2>1, <2>3 DEF WInv, RowsPriced
  <2>5. r \in Multiple
    BY <2>4, TickCloseIsMultiple
  <2>6. \/ tick' = [op |-> "close", id |-> id, r |-> r]
        \/ tick' = [op |-> "trail", id |-> id, stop |-> fast]
    BY <1>6 DEF TickManages
  <2> HIDE DEF id, r
  <2>7. tick' \in TickClosing \/ tick' \in TickTrailing
    BY <2>3, <2>5, <2>6 DEF TickClosing, TickTrailing
  <2>. QED
    BY <1>2, <2>7 DEF ProcessorCarries, TickClosing, TickTrailing
<1>7. ProcessorCarries'
  BY <1>5, <1>6
<1>. QED
  BY <1>2, <1>3, <1>4, <1>7 DEF WInv

\* Its writes: no settlement is made, and no closed row opens.
LEMMA WriteKeepsWInv ==
    ASSUME WInv, TickWritesClose \/ TickWritesTrail \/ TickWritesInsert \/ TickDies
    PROVE  /\ WInv'
           /\ \A i \in DOMAIN book : book[i].status = "CLOSED" => book'[i].status = "CLOSED"
<1>1. TypeOK /\ RowsPriced /\ EngineCarries /\ ProcessorCarries /\ NeverPaidTwice
  BY DEF WInv
<1>2. book \in Seq(Row)
  BY <1>1 DEF TypeOK
<1>3. /\ tick' = [op |-> "idle"] /\ wallet' = wallet /\ SettledIds' = SettledIds
      /\ UNCHANGED <<seeded, frozen, barred, pc, turn, job, crashes>>
  BY DEF TickWritesClose, TickWritesTrail, TickWritesInsert, TickDies, engineVars, vars, SettledIds
<1>4. ProcessorCarries'
  BY <1>3 DEF ProcessorCarries
<1>5. recent' \in [Assets -> Recency]
  BY <1>1 DEF TickWritesClose, TickWritesTrail, TickWritesInsert, TickDies, engineVars, vars,
              TypeOK, Recency
<1>6. ASSUME book' \in Seq(Row), DOMAIN book \subseteq DOMAIN book', RowsPriced',
             ClosedIds \subseteq ClosedIds'
      PROVE  WInv'
  <2>1. TypeOK'
    BY <1>1, <1>3, <1>5, <1>6 DEF TypeOK
  <2>2. EngineCarries'
    BY <1>1, <1>3, <1>6 DEF EngineCarries
  <2>3. NeverPaidTwice'
    BY <1>1, <1>3, <1>6 DEF NeverPaidTwice
  <2>. QED
    BY <1>4, <1>6, <2>1, <2>2, <2>3 DEF WInv
<1>7. CASE TickWritesClose
  <2>1. tick.id \in DOMAIN book /\ tick.r \in Multiple
    BY <1>1, <1>7 DEF TickWritesClose, ProcessorCarries, TickClosing, TickTrailing, TickEntering
  <2>2. book[tick.id].stop \in Price
    <3>1. book[tick.id] \in Row
      BY <1>2, <2>1
    <3>. QED
      BY <3>1 DEF Row
  <2>3. /\ book' \in Seq(Row) /\ DOMAIN book' = DOMAIN book
        /\ \A i \in DOMAIN book : book'[i].entry = book[i].entry /\ book'[i].sl = book[i].sl
        /\ \A i \in DOMAIN book : i # tick.id => book'[i].status = book[i].status
        /\ book'[tick.id].status = "CLOSED"
    BY <1>2, <1>7, <2>1, <2>2, CloseByIdEffect DEF TickWritesClose
  <2>4. RowsPriced' /\ ClosedIds \subseteq ClosedIds'
    BY <1>1, <2>3 DEF RowsPriced, ClosedIds
  <2>. QED
    BY <1>6, <2>3, <2>4
<1>8. CASE TickWritesTrail
  <2>1. tick.id \in DOMAIN book /\ tick.stop \in Price
    BY <1>1, <1>8 DEF TickWritesTrail, ProcessorCarries, TickClosing, TickTrailing, TickEntering
  <2>2. /\ book' \in Seq(Row) /\ DOMAIN book' = DOMAIN book /\ ClosedIds' = ClosedIds
        /\ \A i \in DOMAIN book : book'[i].status = book[i].status
        /\ \A i \in DOMAIN book : book'[i].entry = book[i].entry /\ book'[i].sl = book[i].sl
    BY <1>2, <1>8, <2>1, MoveKeepsRows DEF TickWritesTrail
  <2>3. RowsPriced'
    BY <1>1, <2>2 DEF RowsPriced
  <2>. QED
    BY <1>6, <2>2, <2>3
<1>9. CASE TickWritesInsert
  <2>1. tick \in TickEntering
    BY <1>1, <1>9 DEF TickWritesInsert, ProcessorCarries, TickClosing, TickTrailing
  <2>2. /\ tick.asset \in Assets /\ tick.style \in Styles
        /\ tick.price \in Price /\ tick.sl \in Price /\ tick.tp \in Price /\ tick.price > tick.sl
    BY <2>1 DEF TickEntering
  <2>3. /\ book' \in Seq(Row) /\ DOMAIN book \subseteq DOMAIN book'
        /\ \A i \in DOMAIN book : book'[i] = book[i]
        /\ ClosedIds' = ClosedIds /\ RowsPriced'
    BY <1>1, <1>2, <1>9, <2>2, InsertKeepsRows DEF TickWritesInsert
  <2>. QED
    BY <1>6, <2>3
<1>10. CASE TickDies
  <2>1. book' = book
    BY <1>10 DEF TickDies, vars
  <2>2. RowsPriced' /\ ClosedIds' = ClosedIds
    BY <1>1, <2>1 DEF RowsPriced, ClosedIds
  <2>. QED
    BY <1>2, <1>6, <2>1, <2>2
<1>. QED
  BY <1>7, <1>8, <1>9, <1>10

-----------------------------------------------------------------------------
LEMMA InitWInv == WritersInit => WInv
<1> SUFFICES ASSUME WritersInit PROVE WInv
  OBVIOUS
<1>1. Init /\ tick = [op |-> "idle"]
  BY DEF WritersInit
<1>2. TypeOK
  BY <1>1, InitIInv DEF IInv
<1>3. ClosedIds = {} /\ SettledIds = {} /\ Len(wallet) = 0 /\ Cardinality({}) = 0
  BY <1>1, FS_EmptySet DEF Init, ClosedIds, SettledIds
<1>4. NeverPaidTwice
  BY <1>3 DEF NeverPaidTwice
<1>5. RowsPriced /\ EngineCarries /\ ProcessorCarries
  BY <1>1 DEF Init, RowsPriced, EngineCarries, ProcessorCarries
<1>. QED
  BY <1>2, <1>4, <1>5 DEF WInv

\* No step of either writer, in any order, opens a closed row or breaks the
\* invariant.
LEMMA StepKeepsWInv ==
    ASSUME WInv, [WritersNext]_writersVars
    PROVE  /\ WInv'
           /\ \A i \in DOMAIN book : book[i].status = "CLOSED" => book'[i].status = "CLOSED"
<1>1. CASE UNCHANGED writersVars \/ (StayFrozen /\ UNCHANGED tick)
  <2>1. UNCHANGED <<book, wallet, seeded, recent, frozen, barred, pc, turn, job, crashes, tick>>
    BY <1>1 DEF writersVars, StayFrozen, vars, engineVars
  <2>2. RowsPriced' /\ NeverPaidTwice' /\ ProcessorCarries' /\ SettledIds' = SettledIds
    BY <2>1, QuietStep
  <2>3. TypeOK' /\ EngineCarries'
    BY <2>1, <2>2 DEF WInv, TypeOK, EngineCarries
  <2>. QED
    BY <2>1, <2>2, <2>3 DEF WInv
<1>2. CASE /\ UNCHANGED tick
           /\ \/ NoData \/ NoSignal \/ CheckBounds \/ Watchdog \/ BookFull
              \/ \E price, fast \in Price, trending \in BOOLEAN : ManageOpen(price, fast, trending)
              \/ \E price, low, high \in Price : Signal(price, low, high)
  <2>1. UNCHANGED book
    BY <1>2 DEF NoData, NoSignal, CheckBounds, Watchdog, BookFull, ManageOpen, Signal
  <2>. QED
    BY <1>2, <2>1, VisitKeepsWInv
<1>3. CASE UNCHANGED tick /\ (SettleExit \/ Trail \/ Enter)
  BY <1>3, SettleExitKeepsWInv, TrailKeepsWInv, EnterKeepsWInv
<1>4. CASE UNCHANGED tick /\ (StartCycle \/ SleepMinute \/ ExitRaises \/ SeedWallet \/ Crash \/ Restart)
  <2>1. UNCHANGED book
    BY <1>4 DEF StartCycle, SleepMinute, ExitRaises, SeedWallet, Crash, Restart
  <2>. QED
    BY <1>4, <2>1, SurroundingsKeepWInv
<1>5. CASE ProcessorStep
  BY <1>5, ReadKeepsWInv, WriteKeepsWInv DEF ProcessorStep
<1>. QED
  BY <1>1, <1>2, <1>3, <1>4, <1>5 DEF WritersNext, Next, EngineStep

\* The inductive invariant of the two writers.
LEMMA WritersInvariance == WritersSpec => []WInv
<1>1. WInv /\ [WritersNext]_writersVars => WInv'
  BY StepKeepsWInv
<1>. QED
  BY <1>1, InitWInv, PTL DEF WritersSpec

\* The engine's variables, the rows and what either writer carries from its read
\* to its write keep their types, however the two interleave (the R of every
\* close is over a positive risk, and the row it is for exists).
THEOREM WritersTypeCorrect == WritersSpec => []WritersTypeOK
<1>1. ProcessorCarries =>
        \/ tick \in [op : {"idle"}]
        \/ tick \in [op : {"close"}, id : DOMAIN book, r : Multiple]
        \/ tick \in [op : {"trail"}, id : DOMAIN book, stop : Price]
        \/ tick \in [op : {"insert"}, asset : Assets, style : Styles,
                     price : Price, sl : Price, tp : Price]
  BY DEF ProcessorCarries, TickClosing, TickTrailing, TickEntering
<1>2. WInv => WritersTypeOK
  BY <1>1 DEF WInv, WritersTypeOK
<1>. QED
  BY <1>2, WritersInvariance, PTL

\* No position is paid twice, however the two writers interleave.
THEOREM PaidOnce == WritersSpec => []NeverPaidTwice
<1>1. WInv => NeverPaidTwice
  BY DEF WInv
<1>. QED
  BY <1>1, WritersInvariance, PTL

\* A closed row is never opened again by either writer.
THEOREM ClosedStaysClosed == WritersSpec => ClosedIsFinal
<1> DEFINE Stays == \A i \in DOMAIN book : book[i].status = "CLOSED" => book'[i].status = "CLOSED"
<1>1. WInv /\ [WritersNext]_writersVars => [Stays]_writersVars
  BY StepKeepsWInv
<1>. QED
  BY <1>1, WritersInvariance, PTL DEF WritersSpec, ClosedIsFinal
=============================================================================
