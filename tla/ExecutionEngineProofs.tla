----------------------- MODULE ExecutionEngineProofs ------------------------
(***************************************************************************)
(* Proofs, for every choice of assets, caps and prices and any number of   *)
(* crashes, of what ExecutionEngineProps states.                            *)
(***************************************************************************)
EXTENDS ExecutionEngineProps, FiniteSetTheorems, TLAPS

\* What the engine's locals mean between the read of a visit and its write: the
\* row it is about to write is open and belongs to the visited asset, a new stop
\* is above the row's, and the bounds that let an entry through still hold.
JobFits ==
    /\ pc \in {"exit", "trail"} => job.id \in ActiveOf(asset)
    /\ pc = "trail" => job.stop >= book[job.id].stop
    /\ pc \in {"watchdog", "insert"} => WithinBounds

\* What a freeze has barred: nothing while the flag is down, and never an asset
\* that this cycle has still to visit.
BarredBehind ==
    /\ barred # {} => frozen
    /\ pc \in {"visit", "exit", "trail", "bounds", "watchdog", "insert"} =>
          \A k \in DOMAIN AssetOrder : k >= turn => AssetOrder[k] \notin barred

IInv == TypeOK /\ JobFits /\ ExposureBounded /\ WalletMatchesBook

-----------------------------------------------------------------------------
\* The open rows are finitely many.
LEMMA ActiveFinite ==
    ASSUME book \in Seq(Row)
    PROVE  /\ IsFiniteSet(ActiveIds) /\ Cardinality(ActiveIds) \in Nat
           /\ IsFiniteSet(ActiveCrypto) /\ Cardinality(ActiveCrypto) \in Nat
<1>1. Len(book) \in Nat /\ DOMAIN book = 1..Len(book)
  OBVIOUS
<1>2. IsFiniteSet(1..Len(book))
  BY <1>1, FS_Interval
<1>3. ActiveIds \subseteq 1..Len(book) /\ ActiveCrypto \subseteq ActiveIds
  BY <1>1 DEF ActiveIds, ActiveCrypto
<1>4. IsFiniteSet(ActiveIds) /\ IsFiniteSet(ActiveCrypto)
  BY <1>2, <1>3, FS_Subset
<1>. QED
  BY <1>4, FS_CardinalityType

\* The three updates of the book, as seen by the sets of ids.
LEMMA InsertEffect ==
    ASSUME book \in Seq(Row), NEW a \in Assets, NEW s \in Styles,
           NEW price \in Price, NEW sl \in Price, NEW tp \in Price,
           InsertRow(a, s, price, sl, tp)
    PROVE  /\ book' \in Seq(Row)
           /\ Len(book') = Len(book) + 1
           /\ \A i \in 1..Len(book) : book'[i] = book[i]
           /\ book'[Len(book) + 1].asset = a
           /\ ActiveIds' = ActiveIds \cup {Len(book) + 1}
           /\ ClosedIds' = ClosedIds
<1> DEFINE row == [asset |-> a, style |-> s, entry |-> price, sl |-> sl, tp |-> tp,
                   stop |-> sl, r |-> <<0, 1>>, status |-> "ACTIVE"]
<1>1. row \in Row
  BY DEF Row, Multiple
<1>2. book' = Append(book, row)
  BY DEF InsertRow
<1> HIDE DEF row
<1>3. book' \in Seq(Row) /\ Len(book') = Len(book) + 1
      /\ (\A i \in 1..Len(book) : book'[i] = book[i]) /\ book'[Len(book) + 1] = row
  BY <1>1, <1>2
<1>4. row.asset = a /\ row.status = "ACTIVE"
  BY DEF row
<1>. QED
  BY <1>3, <1>4 DEF ActiveIds, ClosedIds

LEMMA CloseEffect ==
    ASSUME book \in Seq(Row), NEW id \in ActiveIds, NEW r \in Multiple, NEW stop \in Price,
           book' = [book EXCEPT ![id].status = "CLOSED", ![id].r = r, ![id].stop = stop]
    PROVE  /\ book' \in Seq(Row)
           /\ Len(book') = Len(book)
           /\ \A i \in DOMAIN book : i # id => book'[i] = book[i]
           /\ book'[id].r = r /\ book'[id].status = "CLOSED"
           /\ ActiveIds' = ActiveIds \ {id}
           /\ ClosedIds' = ClosedIds \cup {id}
<1> DEFINE row == [book[id] EXCEPT !.status = "CLOSED", !.r = r, !.stop = stop]
<1>1. id \in DOMAIN book /\ book[id] \in Row
  BY DEF ActiveIds
<1>2. row \in Row /\ row.r = r /\ row.status = "CLOSED"
  BY <1>1 DEF Row
<1>3. book' = [book EXCEPT ![id] = row]
  BY <1>1 DEF Row
<1> HIDE DEF row
<1>4. book' \in Seq(Row) /\ Len(book') = Len(book) /\ DOMAIN book' = DOMAIN book
      /\ (\A i \in DOMAIN book : i # id => book'[i] = book[i]) /\ book'[id] = row
  BY <1>1, <1>2, <1>3
<1>. QED
  BY <1>1, <1>2, <1>4 DEF ActiveIds, ClosedIds

LEMMA StopEffect ==
    ASSUME book \in Seq(Row), NEW id \in DOMAIN book, NEW stop \in Price, MoveStop(id, stop)
    PROVE  /\ book' \in Seq(Row)
           /\ Len(book') = Len(book)
           /\ \A i \in DOMAIN book : i # id => book'[i] = book[i]
           /\ \A i \in DOMAIN book : /\ book'[i].asset = book[i].asset
                                     /\ book'[i].status = book[i].status
                                     /\ book'[i].r = book[i].r
           /\ book'[id].stop = stop
           /\ ActiveIds' = ActiveIds /\ ClosedIds' = ClosedIds /\ ActiveCrypto' = ActiveCrypto
<1> DEFINE row == [book[id] EXCEPT !.stop = stop]
<1>1. book[id] \in Row
  OBVIOUS
<1>2. row \in Row /\ row.stop = stop /\ row.asset = book[id].asset
      /\ row.status = book[id].status /\ row.r = book[id].r
  BY <1>1 DEF Row
<1>3. book' = [book EXCEPT ![id] = row]
  BY <1>1 DEF Row, MoveStop
<1> HIDE DEF row
<1>4. book' \in Seq(Row) /\ Len(book') = Len(book) /\ DOMAIN book' = DOMAIN book
      /\ (\A i \in DOMAIN book : i # id => book'[i] = book[i]) /\ book'[id] = row
  BY <1>1, <1>2, <1>3
<1>. QED
  BY <1>1, <1>2, <1>4 DEF ActiveIds, ClosedIds, ActiveCrypto

-----------------------------------------------------------------------------
\* The end of a visit leaves the locals well typed and with nothing to honour.
LEMMA NextAssetEffect ==
    ASSUME TypeOK, NextAsset
    PROVE  /\ turn' \in 1..Len(AssetOrder)
           /\ pc' \in {"visit", "sleep"}
           /\ job' = NoJob
<1>1. Len(AssetOrder) \in Nat /\ Len(AssetOrder) > 0
  BY EngineAssumption
<1>. QED
  BY <1>1 DEF NextAsset, TypeOK

\* A step that writes neither the book nor the wallet keeps what is said of them.
LEMMA NoWrite ==
    ASSUME UNCHANGED <<book, wallet>>
    PROVE  /\ ActiveIds' = ActiveIds /\ ClosedIds' = ClosedIds /\ ActiveCrypto' = ActiveCrypto
           /\ \A a : ActiveOf(a)' = ActiveOf(a)
           /\ ExposureBounded => ExposureBounded'
           /\ WalletMatchesBook => WalletMatchesBook'
<1>1. ActiveIds' = ActiveIds /\ ClosedIds' = ClosedIds
  BY DEF ActiveIds, ClosedIds
<1>2. ActiveCrypto' = ActiveCrypto /\ \A a : ActiveOf(a)' = ActiveOf(a)
  BY <1>1 DEF ActiveCrypto, ActiveOf
<1>3. ExposureBounded => ExposureBounded'
  BY <1>1, <1>2 DEF ExposureBounded
<1>4. WalletMatchesBook => WalletMatchesBook'
  BY <1>1 DEF WalletMatchesBook, SettlementsOf
<1>. QED
  BY <1>1, <1>2, <1>3, <1>4

\* The visited asset is one of the assets, and the row picked is one of its rows.
LEMMA VisitedAsset ==
    ASSUME TypeOK
    PROVE  asset \in Assets
BY EngineAssumption DEF TypeOK, asset

LEMMA PickedRow ==
    ASSUME TypeOK, ExposureBounded, ActiveOf(asset) # {}
    PROVE  FirstRow(ActiveOf(asset)) \in ActiveOf(asset)
<1>1. ActiveOf(asset) \subseteq Nat
  BY DEF TypeOK, ActiveOf, ActiveIds
<1>2. PICK i \in ActiveOf(asset) : TRUE
  OBVIOUS
<1>3. \A j \in ActiveOf(asset) : j = i
  BY DEF ExposureBounded, ActiveOf
<1>4. \A j \in ActiveOf(asset) : i <= j
  BY <1>1, <1>2, <1>3
<1>. QED
  BY <1>4 DEF FirstRow

\* The R multiples the engine computes.
LEMMA MultipleTypes ==
    /\ FullLoss \in Multiple
    /\ \A row \in Row : TargetMultiple(row) \in Multiple
<1>1. FullLoss \in Multiple
  BY DEF FullLoss, Multiple
<1>2. ASSUME NEW row \in Row
      PROVE  TargetMultiple(row) \in Multiple
  <2>1. row.entry \in Nat \ {0} /\ row.stop \in Nat \ {0} /\ row.tp \in Nat \ {0}
    BY LiveBookAssumption DEF Row
  <2>2. CASE row.entry > row.stop
    <3>1. row.tp - row.entry \in Int /\ row.entry - row.stop \in Nat \ {0}
      BY <2>1, <2>2
    <3>. QED
      BY <2>2, <3>1 DEF TargetMultiple, Multiple
  <2>3. CASE ~(row.entry > row.stop)
    <3>1. 50 * (row.tp - row.entry) \in Int
      BY <2>1
    <3>. QED
      BY <2>1, <2>3, <3>1 DEF TargetMultiple, Multiple
  <2>. QED
    BY <2>2, <2>3
<1>. QED
  BY <1>1, <1>2

-----------------------------------------------------------------------------
\* The four parts of the invariant hold initially.
LEMMA InitIInv == Init => IInv
<1> SUFFICES ASSUME Init PROVE IInv
  OBVIOUS
<1>1. ActiveIds = {} /\ ClosedIds = {} /\ ActiveCrypto = {}
  BY DEF Init, ActiveIds, ClosedIds, ActiveCrypto
<1>2. TypeOK
  <2>1. 1 \in 1..Len(AssetOrder)
    BY EngineAssumption
  <2>2. book \in Seq(Row) /\ wallet \in Seq(Settlement)
    BY DEF Init
  <2>3. recent \in [Assets -> Recency]
    BY DEF Init, Recency
  <2>. QED
    BY <2>1, <2>2, <2>3 DEF Init, TypeOK
<1>3. JobFits
  BY DEF Init, JobFits
<1>4. Cardinality({}) = 0
  BY FS_EmptySet
<1>5. ExposureBounded
  BY <1>1, <1>4, LiveBookAssumption DEF ExposureBounded
<1>6. WalletMatchesBook
  BY <1>1 DEF Init, WalletMatchesBook
<1>. QED
  BY <1>2, <1>3, <1>5, <1>6 DEF IInv

\* A visit that reads and decides, but does not write.
LEMMA VisitKeepsIInv ==
    ASSUME IInv,
           \/ NoData \/ NoSignal \/ CheckBounds \/ Watchdog \/ BookFull
           \/ \E price, fast \in Price, trending \in BOOLEAN : ManageOpen(price, fast, trending)
           \/ \E price, low, high \in Price : Signal(price, low, high)
    PROVE  IInv'
<1>1. UNCHANGED <<book, wallet>>
  BY DEF NoData, NoSignal, CheckBounds, Watchdog, BookFull, ManageOpen, Signal
<1>2. ExposureBounded' /\ WalletMatchesBook'
  BY <1>1, NoWrite DEF IInv
<1>3. ActiveIds' = ActiveIds /\ ActiveCrypto' = ActiveCrypto /\ \A a : ActiveOf(a)' = ActiveOf(a)
  BY <1>1, NoWrite
<1>4. TypeOK /\ JobFits /\ ExposureBounded
  BY DEF IInv
<1>5. ASSUME NextAsset,
             UNCHANGED <<book, wallet, seeded, recent, crashes>>,
             frozen' \in BOOLEAN, barred' \subseteq Assets
      PROVE  TypeOK' /\ JobFits'
  <2>1. turn' \in 1..Len(AssetOrder) /\ pc' \in {"visit", "sleep"} /\ job' = NoJob
    BY <1>4, <1>5, NextAssetEffect
  <2>2. TypeOK'
    BY <1>4, <1>5, <2>1 DEF TypeOK
  <2>3. JobFits'
    BY <2>1 DEF JobFits
  <2>. QED
    BY <2>2, <2>3
<1>6. frozen \in BOOLEAN /\ barred \subseteq Assets
  BY <1>4 DEF TypeOK
<1>7. CASE NoData \/ NoSignal \/ BookFull
  BY <1>2, <1>5, <1>6, <1>7 DEF NoData, NoSignal, BookFull, IInv
<1>8. ASSUME NEW price \in Price, NEW low \in Price, NEW high \in Price, Signal(price, low, high)
      PROVE  IInv'
  <2>1. TypeOK'
    BY <1>4, <1>8 DEF Signal, TypeOK, EntryJob, NoJob
  <2>2. JobFits'
    BY <1>8 DEF Signal, JobFits
  <2>. QED
    BY <1>2, <2>1, <2>2 DEF IInv
<1>9. CASE CheckBounds
  <2>1. CASE WithinBounds /\ job # NoJob
    <3>1. pc' = "watchdog" /\ UNCHANGED <<book, wallet, seeded, recent, frozen, barred, turn, job, crashes>>
      BY <1>9, <2>1 DEF CheckBounds
    <3>2. job \in EntryJob
      BY <1>4, <1>9, <2>1 DEF CheckBounds, TypeOK
    <3>3. TypeOK'
      BY <1>4, <3>1, <3>2 DEF TypeOK
    <3>4. asset' = asset
      BY <3>1 DEF asset
    <3>5. WithinBounds'
      BY <1>3, <2>1, <3>4 DEF WithinBounds
    <3>6. JobFits'
      BY <3>1, <3>5 DEF JobFits
    <3>. QED
      BY <1>2, <3>3, <3>6 DEF IInv
  <2>2. CASE ~(WithinBounds /\ job # NoJob)
    BY <1>2, <1>5, <1>6, <1>9, <2>2 DEF CheckBounds, IInv
  <2>. QED
    BY <2>1, <2>2
<1>10. CASE Watchdog
  <2>1. CASE FreezeEngine
    <3>1. frozen' \in BOOLEAN /\ barred' \subseteq Assets
      BY <1>4, <1>6, <2>1, VisitedAsset DEF FreezeEngine
    <3>. QED
      BY <1>2, <1>5, <1>10, <2>1, <3>1 DEF Watchdog, FreezeEngine, IInv
  <2>2. CASE WatchdogError
    BY <1>2, <1>5, <1>6, <1>10, <2>2 DEF Watchdog, WatchdogError, IInv
  <2>3. CASE WatchdogPasses
    <3>1. pc = "watchdog" /\ pc' = "insert"
          /\ UNCHANGED <<book, wallet, seeded, recent, frozen, barred, turn, job, crashes>>
      BY <1>10, <2>3 DEF Watchdog, WatchdogPasses
    <3>2. TypeOK'
      BY <1>4, <3>1 DEF TypeOK
    <3>3. asset' = asset
      BY <3>1 DEF asset
    <3>4. WithinBounds'
      BY <1>3, <1>4, <3>1, <3>3 DEF WithinBounds, JobFits
    <3>5. JobFits'
      BY <3>1, <3>4 DEF JobFits
    <3>. QED
      BY <1>2, <3>2, <3>5 DEF IInv
  <2>. QED
    BY <1>10, <2>1, <2>2, <2>3 DEF Watchdog
<1>11. ASSUME NEW price \in Price, NEW fast \in Price, NEW trending \in BOOLEAN,
              ManageOpen(price, fast, trending)
       PROVE  IInv'
  <2> DEFINE id == FirstRow(ActiveOf(asset))
             row == book[id]
  <2>1. id \in ActiveOf(asset)
    BY <1>4, <1>11, PickedRow DEF ManageOpen
  <2>2. id \in DOMAIN book /\ id \in Nat /\ row \in Row
    BY <1>4, <2>1 DEF ActiveOf, ActiveIds, TypeOK
  <2>3. row.stop \in Price /\ row.tp \in Price
    BY <2>2 DEF Row
  <2>4. UNCHANGED <<book, wallet, seeded, recent, frozen, barred, crashes>>
    BY <1>11 DEF ManageOpen
  <2>5. ASSUME pc' = "exit", UNCHANGED turn,
               \E p \in Price, r \in Multiple : job' = [id |-> id, price |-> p, r |-> r]
        PROVE  IInv'
    <3>1. job' \in ExitJob /\ job'.id = id
      BY <2>2, <2>5 DEF ExitJob
    <3>2. TypeOK'
      BY <1>4, <2>4, <2>5, <3>1 DEF TypeOK
    <3>3. asset' = asset
      BY <2>5 DEF asset
    <3>4. JobFits'
      BY <1>3, <2>1, <2>5, <3>1, <3>3 DEF JobFits
    <3>. QED
      BY <1>2, <3>2, <3>4 DEF IInv
  <2>6. ASSUME pc' = "trail", UNCHANGED turn, job' = [id |-> id, stop |-> fast], fast > row.stop
        PROVE  IInv'
    <3>1. job' \in TrailJob /\ job'.id = id /\ job'.stop = fast
      BY <2>2, <2>6 DEF TrailJob
    <3>2. TypeOK'
      BY <1>4, <2>4, <2>6, <3>1 DEF TypeOK
    <3>3. asset' = asset
      BY <2>6 DEF asset
    <3>4. fast >= row.stop
      <4>1. fast \in Nat /\ row.stop \in Nat
        BY <2>3, LiveBookAssumption
      <4> HIDE DEF row
      <4>. QED
        BY <2>6, <4>1
    <3>5. job'.id \in ActiveOf(asset)'
      BY <1>3, <2>1, <3>1, <3>3
    <3>6. job'.stop >= book'[job'.id].stop
      BY <2>4, <3>1, <3>4
    <3>7. JobFits'
      BY <2>6, <3>5, <3>6 DEF JobFits
    <3>. QED
      BY <1>2, <3>2, <3>7 DEF IInv
  <2>7. \/ pc' = "exit" /\ UNCHANGED turn
             /\ \/ job' = [id |-> id, price |-> row.stop, r |-> FullLoss]
                \/ job' = [id |-> id, price |-> row.tp, r |-> TargetMultiple(row)]
        \/ pc' = "trail" /\ UNCHANGED turn /\ job' = [id |-> id, stop |-> fast] /\ fast > row.stop
        \/ NextAsset
    BY <1>11 DEF ManageOpen, Trails
  <2>8. FullLoss \in Multiple /\ TargetMultiple(row) \in Multiple
    BY <2>2, MultipleTypes
  <2> HIDE DEF id, row
  <2>9. CASE pc' = "exit" /\ UNCHANGED turn
             /\ \/ job' = [id |-> id, price |-> row.stop, r |-> FullLoss]
                \/ job' = [id |-> id, price |-> row.tp, r |-> TargetMultiple(row)]
    BY <2>3, <2>5, <2>8, <2>9
  <2>10. CASE pc' = "trail" /\ UNCHANGED turn /\ job' = [id |-> id, stop |-> fast] /\ fast > row.stop
    BY <2>6, <2>10
  <2>11. CASE NextAsset
    BY <1>2, <1>5, <1>6, <2>4, <2>11 DEF IInv
  <2>. QED
    BY <2>7, <2>9, <2>10, <2>11
<1>. QED
  BY <1>7, <1>8, <1>9, <1>10, <1>11

\* The three writes: a new row, an exit with its settlement, a raised stop.
LEMMA EnterKeepsIInv ==
    ASSUME IInv, Enter
    PROVE  IInv'
<1> DEFINE new == Len(book) + 1
<1>1. TypeOK /\ JobFits /\ ExposureBounded /\ WalletMatchesBook
  BY DEF IInv
<1>2. book \in Seq(Row) /\ Len(book) \in Nat /\ DOMAIN book = 1..Len(book) /\ new \in Nat
  BY <1>1 DEF TypeOK
<1>3. /\ book' \in Seq(Row) /\ Len(book') = new
      /\ \A i \in 1..Len(book) : book'[i] = book[i]
      /\ book'[new].asset = asset
      /\ ActiveIds' = ActiveIds \cup {new} /\ ClosedIds' = ClosedIds
  <2>1. job.price \in Price /\ job.sl \in Price /\ job.tp \in Price
    BY <1>1 DEF Enter, TypeOK, EntryJob
  <2>2. asset \in Assets
    BY <1>1, VisitedAsset
  <2>. QED
    BY <1>2, <2>1, <2>2, InsertEffect, EngineAssumption DEF Enter
<1>4. turn' \in 1..Len(AssetOrder) /\ pc' \in {"visit", "sleep"} /\ job' = NoJob
  BY <1>1, NextAssetEffect DEF Enter
<1>5. TypeOK'
  <2>1. recent' \in [Assets -> Recency]
    BY <1>1 DEF Enter, TypeOK, Recency
  <2>. QED
    BY <1>1, <1>3, <1>4, <2>1 DEF Enter, TypeOK
<1>6. JobFits'
  BY <1>4 DEF JobFits
<1>7. WithinBounds
  BY <1>1 DEF Enter, JobFits
<1>8. ActiveIds \subseteq 1..Len(book) /\ ClosedIds \subseteq 1..Len(book) /\ new \notin 1..Len(book)
  BY <1>2 DEF ActiveIds, ClosedIds
<1>9. ExposureBounded'
  <2>1. \A i, j \in ActiveIds' : book'[i].asset = book'[j].asset => i = j
    BY <1>1, <1>3, <1>7, <1>8 DEF ExposureBounded, WithinBounds, ActiveOf
  <2>2. Cardinality(ActiveIds') <= MaxSlots
    <3>1. Cardinality(ActiveIds') = Cardinality(ActiveIds) + 1
      BY <1>2, <1>3, <1>8, ActiveFinite, FS_AddElement
    <3>. QED
      BY <1>2, <1>7, <3>1, ActiveFinite, LiveBookAssumption DEF WithinBounds
  <2>3. Cardinality(ActiveCrypto') <= MaxCrypto
    <3>1. CASE asset \in Crypto
      <4>1. ActiveCrypto' = ActiveCrypto \cup {new} /\ new \notin ActiveCrypto
        BY <1>3, <1>8, <3>1 DEF ActiveCrypto
      <4>2. Cardinality(ActiveCrypto') = Cardinality(ActiveCrypto) + 1
        BY <1>2, <4>1, ActiveFinite, FS_AddElement
      <4>. QED
        BY <1>2, <1>7, <3>1, <4>2, ActiveFinite, LiveBookAssumption DEF WithinBounds
    <3>2. CASE asset \notin Crypto
      <4>1. ActiveCrypto' = ActiveCrypto
        BY <1>3, <1>8, <3>2 DEF ActiveCrypto
      <4>. QED
        BY <1>1, <4>1 DEF ExposureBounded
    <3>. QED
      BY <3>1, <3>2
  <2>. QED
    BY <2>1, <2>2, <2>3 DEF ExposureBounded
<1>10. WalletMatchesBook'
  <2>1. wallet' = wallet /\ \A i : SettlementsOf(i)' = SettlementsOf(i)
    BY DEF Enter, SettlementsOf
  <2>2. \A k \in DOMAIN wallet : wallet[k].id \in DOMAIN book
    BY <1>1 DEF WalletMatchesBook
  <2>3. SettlementsOf(new) = {}
    BY <1>2, <1>8, <2>2 DEF SettlementsOf
  <2>4. DOMAIN book \subseteq DOMAIN book'
    BY <1>2, <1>3
  <2>5. \A k \in DOMAIN wallet' : wallet'[k].id \in DOMAIN book'
    BY <2>1, <2>2, <2>4
  <2>6. \A i \in ActiveIds' : SettlementsOf(i)' = {}
    BY <1>1, <1>3, <2>1, <2>3 DEF WalletMatchesBook
  <2>7. \A i \in ClosedIds' : \E k \in DOMAIN wallet' :
           SettlementsOf(i)' = {k} /\ wallet'[k].r = book'[i].r
    BY <1>1, <1>3, <1>8, <2>1 DEF WalletMatchesBook
  <2>. QED
    BY <2>5, <2>6, <2>7 DEF WalletMatchesBook
<1>. QED
  BY <1>5, <1>6, <1>9, <1>10 DEF IInv

LEMMA SettleExitKeepsIInv ==
    ASSUME IInv, SettleExit
    PROVE  IInv'
<1>0. PICK id : id = job.id
  OBVIOUS
<1> DEFINE last == Len(wallet) + 1
<1>1. TypeOK /\ JobFits /\ ExposureBounded /\ WalletMatchesBook
  BY DEF IInv
<1>2. book \in Seq(Row) /\ wallet \in Seq(Settlement) /\ Len(wallet) \in Nat /\ last \in Nat
  BY <1>1 DEF TypeOK
<1>3. id \in ActiveOf(asset) /\ id \in ActiveIds /\ id \in Nat
      /\ job.price \in Price /\ job.r \in Multiple
  BY <1>0, <1>1 DEF SettleExit, JobFits, ActiveOf, TypeOK, ExitJob
<1>4. /\ book' \in Seq(Row) /\ Len(book') = Len(book)
      /\ \A i \in DOMAIN book : i # id => book'[i] = book[i]
      /\ book'[id].r = job.r /\ book'[id].status = "CLOSED"
      /\ ActiveIds' = ActiveIds \ {id} /\ ClosedIds' = ClosedIds \cup {id}
  BY <1>0, <1>2, <1>3, CloseEffect DEF SettleExit
<1>5. HalveRisk \in BOOLEAN
  BY DEF HalveRisk
<1>6. /\ wallet' \in Seq(Settlement) /\ Len(wallet') = last
      /\ \A k \in 1..Len(wallet) : wallet'[k] = wallet[k]
      /\ wallet'[last].id = id /\ wallet'[last].r = job.r
  <2>0. PICK half \in BOOLEAN : wallet' = Append(wallet, [id |-> id, r |-> job.r, half |-> half])
    BY <1>0, <1>5 DEF SettleExit
  <2> DEFINE entry == [id |-> id, r |-> job.r, half |-> half]
  <2>1. entry \in Settlement /\ entry.id = id /\ entry.r = job.r
    BY <1>3 DEF Settlement
  <2>2. wallet' = Append(wallet, entry)
    BY <2>0
  <2> HIDE DEF entry
  <2>. QED
    BY <1>2, <2>1, <2>2
<1>7. turn' \in 1..Len(AssetOrder) /\ pc' \in {"visit", "sleep"} /\ job' = NoJob
  BY <1>1, NextAssetEffect DEF SettleExit
<1>8. TypeOK'
  BY <1>1, <1>4, <1>6, <1>7 DEF SettleExit, TypeOK
<1>9. JobFits'
  BY <1>7 DEF JobFits
<1>10. DOMAIN book' = DOMAIN book /\ ActiveIds \subseteq DOMAIN book /\ ClosedIds \subseteq DOMAIN book
       /\ id \notin ClosedIds
  BY <1>2, <1>3, <1>4 DEF ActiveIds, ClosedIds
<1>11. ExposureBounded'
  <2>1. \A i, j \in ActiveIds' : book'[i].asset = book'[j].asset => i = j
    BY <1>1, <1>4, <1>10 DEF ExposureBounded
  <2>2. ActiveIds' \subseteq ActiveIds
    BY <1>4
  <2>3. ActiveCrypto' \subseteq ActiveCrypto
    BY <1>4, <1>10 DEF ActiveCrypto
  <2>4. /\ Cardinality(ActiveIds') <= Cardinality(ActiveIds) /\ Cardinality(ActiveIds') \in Nat
        /\ Cardinality(ActiveCrypto') <= Cardinality(ActiveCrypto) /\ Cardinality(ActiveCrypto') \in Nat
    BY <1>2, <2>2, <2>3, ActiveFinite, FS_Subset, FS_CardinalityType
  <2>. QED
    BY <1>1, <1>2, <2>1, <2>4, ActiveFinite, LiveBookAssumption DEF ExposureBounded
<1>12. WalletMatchesBook'
  <2>1. DOMAIN wallet = 1..Len(wallet) /\ DOMAIN wallet' = 1..last /\ last \notin DOMAIN wallet
    BY <1>2, <1>6
  <2>2. SettlementsOf(id) = {}
    BY <1>1, <1>3 DEF WalletMatchesBook
  <2>3. SettlementsOf(id)' = {last}
    BY <1>2, <1>6, <2>1, <2>2 DEF SettlementsOf
  <2>4. ASSUME NEW i, i # id
        PROVE  SettlementsOf(i)' = SettlementsOf(i)
    <3>1. \A k \in DOMAIN wallet' : wallet'[k].id = i <=> k \in DOMAIN wallet /\ wallet[k].id = i
      BY <1>2, <1>6, <2>1, <2>4
    <3>2. DOMAIN wallet \subseteq DOMAIN wallet'
      BY <1>2, <2>1
    <3>. QED
      BY <3>1, <3>2 DEF SettlementsOf
  <2>5. \A k \in DOMAIN wallet' : wallet'[k].id \in DOMAIN book'
    BY <1>1, <1>2, <1>3, <1>6, <1>10, <2>1 DEF WalletMatchesBook
  <2>6. \A i \in ActiveIds' : SettlementsOf(i)' = {}
    BY <1>1, <1>4, <2>4 DEF WalletMatchesBook
  <2>7. ASSUME NEW i \in ClosedIds'
        PROVE  \E k \in DOMAIN wallet' : SettlementsOf(i)' = {k} /\ wallet'[k].r = book'[i].r
    <3>1. CASE i = id
      <4>1. last \in DOMAIN wallet'
        BY <1>2, <2>1
      <4>2. wallet'[last].r = book'[i].r /\ SettlementsOf(i)' = {last}
        BY <1>4, <1>6, <2>3, <3>1
      <4>. QED
        BY <4>1, <4>2
    <3>2. CASE i # id
      <4>1. i \in ClosedIds
        BY <1>4, <3>2
      <4>2. PICK k \in DOMAIN wallet : SettlementsOf(i) = {k} /\ wallet[k].r = book[i].r
        BY <1>1, <4>1 DEF WalletMatchesBook
      <4>3. k \in DOMAIN wallet' /\ wallet'[k] = wallet[k] /\ book'[i] = book[i]
        BY <1>2, <1>4, <1>6, <1>10, <2>1, <3>2, <4>1
      <4>. QED
        BY <2>4, <3>2, <4>2, <4>3
    <3>. QED
      BY <3>1, <3>2
  <2>. QED
    BY <2>5, <2>6, <2>7 DEF WalletMatchesBook
<1>. QED
  BY <1>8, <1>9, <1>11, <1>12 DEF IInv

LEMMA TrailKeepsIInv ==
    ASSUME IInv, Trail
    PROVE  IInv'
<1>1. TypeOK /\ JobFits /\ ExposureBounded /\ WalletMatchesBook
  BY DEF IInv
<1>2. job.id \in DOMAIN book /\ job.stop \in Price /\ book \in Seq(Row)
  BY <1>1 DEF Trail, JobFits, ActiveOf, ActiveIds, TypeOK, TrailJob
<1>3. /\ book' \in Seq(Row) /\ Len(book') = Len(book)
      /\ \A i \in DOMAIN book : /\ book'[i].asset = book[i].asset
                                /\ book'[i].status = book[i].status
                                /\ book'[i].r = book[i].r
      /\ ActiveIds' = ActiveIds /\ ClosedIds' = ClosedIds /\ ActiveCrypto' = ActiveCrypto
  BY <1>2, StopEffect DEF Trail
<1>4. turn' \in 1..Len(AssetOrder) /\ pc' \in {"visit", "sleep"} /\ job' = NoJob
  BY <1>1, NextAssetEffect DEF Trail
<1>5. TypeOK'
  BY <1>1, <1>3, <1>4 DEF Trail, TypeOK
<1>6. JobFits'
  BY <1>4 DEF JobFits
<1>7. DOMAIN book' = DOMAIN book /\ ActiveIds \subseteq DOMAIN book /\ ClosedIds \subseteq DOMAIN book
  BY <1>2, <1>3 DEF ActiveIds, ClosedIds
<1>8. ExposureBounded'
  BY <1>1, <1>3, <1>7 DEF ExposureBounded
<1>9. wallet' = wallet /\ \A i : SettlementsOf(i)' = SettlementsOf(i)
  BY DEF Trail, SettlementsOf
<1>10. WalletMatchesBook'
  BY <1>1, <1>3, <1>7, <1>9 DEF WalletMatchesBook
<1>. QED
  BY <1>5, <1>6, <1>8, <1>10 DEF IInv

\* The loop, the operator and the crashes: no write, and nothing left to honour
\* after a crash.
LEMMA SurroundingsKeepIInv ==
    ASSUME IInv,
           StartCycle \/ SleepMinute \/ ExitRaises \/ SeedWallet \/ Crash \/ Restart \/ UNCHANGED vars
    PROVE  IInv'
<1>1. UNCHANGED <<book, wallet>>
  BY DEF StartCycle, SleepMinute, ExitRaises, SeedWallet, Crash, Restart, vars, engineVars
<1>2. ExposureBounded' /\ WalletMatchesBook'
  BY <1>1, NoWrite DEF IInv
<1>3. /\ ActiveIds' = ActiveIds /\ ActiveCrypto' = ActiveCrypto
      /\ \A a : ActiveOf(a)' = ActiveOf(a)
  BY <1>1, NoWrite
<1>4. TypeOK /\ JobFits
  BY DEF IInv
<1>5. Len(AssetOrder) \in Nat /\ 1 \in 1..Len(AssetOrder)
  BY EngineAssumption
<1>6. CASE StartCycle
  BY <1>2, <1>4, <1>6 DEF StartCycle, TypeOK, JobFits, IInv
<1>7. CASE SleepMinute
  <2>1. recent' \in [Assets -> Recency]
    BY <1>4, <1>7 DEF SleepMinute, Recency
  <2>. QED
    BY <1>2, <1>4, <1>7, <2>1 DEF SleepMinute, TypeOK, JobFits, IInv
<1>8. CASE ExitRaises
  BY <1>2, <1>4, <1>5, <1>8 DEF ExitRaises, TypeOK, JobFits, IInv
<1>9. CASE Crash
  BY <1>2, <1>4, <1>5, <1>9 DEF Crash, TypeOK, JobFits, IInv
<1>10. CASE Restart
  <2>1. recent' \in [Assets -> Recency]
    BY <1>4, <1>10 DEF Restart, Recency
  <2>. QED
    BY <1>2, <1>4, <1>10, <2>1 DEF Restart, TypeOK, JobFits, IInv
<1>11. CASE SeedWallet \/ UNCHANGED vars
  <2>1. UNCHANGED <<book, wallet, recent, frozen, barred, pc, turn, job, crashes>> /\ seeded' \in BOOLEAN
    BY <1>4, <1>11 DEF SeedWallet, vars, engineVars, TypeOK
  <2>2. TypeOK'
    BY <1>4, <2>1 DEF TypeOK
  <2>3. asset' = asset
    BY <2>1 DEF asset
  <2>4. WithinBounds' = WithinBounds
    BY <1>3, <2>3 DEF WithinBounds
  <2>5. JobFits'
    BY <1>3, <1>4, <2>1, <2>3, <2>4 DEF JobFits
  <2>. QED
    BY <1>2, <2>2, <2>5 DEF IInv
<1>. QED
  BY <1>6, <1>7, <1>8, <1>9, <1>10, <1>11

-----------------------------------------------------------------------------
\* The invariant is preserved by every step.
LEMMA StepKeepsIInv == IInv /\ [Next]_vars => IInv'
<1> SUFFICES ASSUME IInv, [Next]_vars PROVE IInv'
  OBVIOUS
<1>1. CASE EngineStep
  BY <1>1, VisitKeepsIInv, EnterKeepsIInv, SettleExitKeepsIInv, TrailKeepsIInv, SurroundingsKeepIInv
     DEF EngineStep, StayFrozen
<1>2. CASE SeedWallet \/ Crash \/ Restart \/ UNCHANGED vars
  BY <1>2, SurroundingsKeepIInv
<1>. QED
  BY <1>1, <1>2 DEF Next

\* The inductive invariant holds in every reachable state.
THEOREM Invariance == Spec => []IInv
<1>. QED
  BY InitIInv, StepKeepsIInv, PTL DEF Spec

\* Type correctness of the engine, for every choice of the constants.
THEOREM TypeCorrect == Spec => []TypeOK
<1>1. IInv => TypeOK
  BY DEF IInv
<1>. QED
  BY <1>1, Invariance, PTL

\* An asset never has two open positions and neither ceiling is ever exceeded.
THEOREM ExposureIsBounded == Spec => []ExposureBounded
<1>1. IInv => ExposureBounded
  BY DEF IInv
<1>. QED
  BY <1>1, Invariance, PTL

\* Every closed row is settled exactly once, at its own R, through any number of
\* crashes, and no open row is ever settled.
THEOREM WalletIsExact == Spec => []WalletMatchesBook
<1>1. IInv => WalletMatchesBook
  BY DEF IInv
<1>. QED
  BY <1>1, Invariance, PTL

-----------------------------------------------------------------------------
\* The losing settlements among the first n.
EarlierLosses(n) == {j \in 1..n : IsLoss(wallet[j].r)}

\* When the rule halves the risk, the wallet already holds a full sample of
\* losses: each of the latest closed rows has a settlement of its own.
LEMMA SampleIsSettled ==
    ASSUME TypeOK, WalletMatchesBook, HalveRisk
    PROVE  Cardinality(EarlierLosses(Len(wallet))) >= SampleSize
<1> DEFINE Losses == EarlierLosses(Len(wallet))
           pay == [i \in LatestClosed |-> CHOOSE k \in DOMAIN wallet :
                       SettlementsOf(i) = {k} /\ wallet[k].r = book[i].r]
<1>1. Len(wallet) \in Nat /\ DOMAIN wallet = 1..Len(wallet) /\ SampleSize \in Nat
  BY LiveBookAssumption DEF TypeOK
<1>2. IsFiniteSet(Losses)
  <2>1. IsFiniteSet(1..Len(wallet)) /\ Losses \subseteq 1..Len(wallet)
    BY <1>1, FS_Interval DEF EarlierLosses
  <2>. QED
    BY <2>1, FS_Subset
<1>3. ASSUME NEW i \in LatestClosed
      PROVE  pay[i] \in Losses /\ SettlementsOf(i) = {pay[i]}
  <2>1. i \in ClosedIds
    BY DEF LatestClosed
  <2>2. \E k \in DOMAIN wallet : SettlementsOf(i) = {k} /\ wallet[k].r = book[i].r
    BY <2>1 DEF WalletMatchesBook
  <2>3. pay[i] \in DOMAIN wallet /\ SettlementsOf(i) = {pay[i]} /\ wallet[pay[i]].r = book[i].r
    BY <2>2
  <2>4. IsLoss(book[i].r)
    BY DEF HalveRisk
  <2>. QED
    BY <1>1, <2>3, <2>4 DEF EarlierLosses
<1>4. pay \in Injection(LatestClosed, Losses)
  <2>1. pay \in [LatestClosed -> Losses]
    BY <1>3
  <2>2. ASSUME NEW i \in LatestClosed
        PROVE  wallet[pay[i]].id = i
    <3>1. pay[i] \in SettlementsOf(i)
      BY <1>3
    <3> HIDE DEF pay
    <3>. QED
      BY <3>1 DEF SettlementsOf
  <2>. QED
    <3> HIDE DEF pay, Losses
    <3>1. \A i, j \in LatestClosed : pay[i] = pay[j] => i = j
      BY <2>2
    <3>. QED
      BY <2>1, <3>1 DEF Injection, IsInjective
<1>5. /\ IsFiniteSet(LatestClosed)
      /\ Cardinality(LatestClosed) <= Cardinality(Losses)
  BY <1>2, <1>4, FS_Injection
<1>6. Cardinality(LatestClosed) \in Nat /\ Cardinality(Losses) \in Nat
  BY <1>2, <1>5, FS_CardinalityType
<1>7. Cardinality(LatestClosed) >= SampleSize
  BY DEF HalveRisk
<1> HIDE DEF Losses
<1>8. Cardinality(Losses) >= SampleSize
  BY <1>1, <1>5, <1>6, <1>7
<1>. QED
  BY <1>8 DEF Losses

\* Only an exit writes the wallet.
LEMMA WalletWriter ==
    ASSUME [Next]_vars
    PROVE  UNCHANGED wallet \/ SettleExit
BY DEF Next, EngineStep, StartCycle, StayFrozen, NoData, NoSignal, ManageOpen, Signal, CheckBounds,
       Watchdog, Enter, BookFull, ExitRaises, Trail, SleepMinute, SeedWallet, Crash, Restart, vars, engineVars

\* A settlement at half risk is always preceded by a full sample of losses.
THEOREM HalvingIsEarned == Spec => []HalvedAfterLosses
<1>1. Init => HalvedAfterLosses
  BY DEF Init, HalvedAfterLosses
<1>2. IInv /\ HalvedAfterLosses /\ [Next]_vars => HalvedAfterLosses'
  <2> SUFFICES ASSUME IInv, HalvedAfterLosses, [Next]_vars PROVE HalvedAfterLosses'
    OBVIOUS
  <2>1. CASE UNCHANGED wallet
    BY <2>1 DEF HalvedAfterLosses
  <2>2. CASE SettleExit
    <3> DEFINE last == Len(wallet) + 1
    <3>1. wallet \in Seq(Settlement) /\ Len(wallet) \in Nat
      BY DEF IInv, TypeOK
    <3>2. PICK entry : wallet' = Append(wallet, entry) /\ (entry.half => HalveRisk)
      <4>1. PICK half \in {HalveRisk, FALSE} :
               wallet' = Append(wallet, [id |-> job.id, r |-> job.r, half |-> half])
        BY <2>2 DEF SettleExit
      <4> DEFINE new == [id |-> job.id, r |-> job.r, half |-> half]
      <4>2. half => HalveRisk
        BY <4>1
      <4>3. new.half => HalveRisk
        BY <4>2
      <4>4. wallet' = Append(wallet, new)
        BY <4>1
      <4>. QED
        BY <4>3, <4>4
    <3>3. /\ DOMAIN wallet = 1..Len(wallet) /\ DOMAIN wallet' = 1..last
          /\ \A k \in 1..Len(wallet) : wallet'[k] = wallet[k]
          /\ wallet'[last] = entry
      BY <3>1, <3>2
    <3>4. \A n \in 0..Len(wallet) : {j \in 1..n : IsLoss(wallet'[j].r)} = EarlierLosses(n)
      BY <3>1, <3>3 DEF EarlierLosses
    <3>5. ASSUME NEW k \in DOMAIN wallet', wallet'[k].half
          PROVE  Cardinality({j \in 1..(k - 1) : IsLoss(wallet'[j].r)}) >= SampleSize
      <4>1. k \in 1..last /\ k - 1 \in 0..Len(wallet)
        BY <3>1, <3>3, <3>5
      <4>2. {j \in 1..(k - 1) : IsLoss(wallet'[j].r)} = EarlierLosses(k - 1)
        BY <3>4, <4>1
      <4>3. CASE k = last
        <5>1. HalveRisk /\ k - 1 = Len(wallet)
          BY <3>1, <3>2, <3>3, <3>5, <4>3
        <5>. QED
          BY <4>2, <5>1, SampleIsSettled DEF IInv
      <4>4. CASE k # last
        <5>1. k \in DOMAIN wallet /\ wallet[k].half
          BY <3>1, <3>3, <3>5, <4>1, <4>4
        <5>. QED
          BY <4>2, <5>1 DEF HalvedAfterLosses, EarlierLosses
      <4>. QED
        BY <4>3, <4>4
    <3>. QED
      BY <3>5 DEF HalvedAfterLosses, IsLoss
  <2>. QED
    BY <2>1, <2>2, WalletWriter
<1>. QED
  BY <1>1, <1>2, Invariance, PTL DEF Spec

\* While a position is open its stop is never lowered.
THEOREM StopsRise == Spec => StopsOnlyRise
<1> DEFINE Rises == \A i \in DOMAIN book :
         book[i].status = "ACTIVE" /\ book'[i].status = "ACTIVE" => book'[i].stop >= book[i].stop
<1>1. IInv /\ [Next]_vars => Rises
  <2> SUFFICES ASSUME IInv, [Next]_vars PROVE Rises
    OBVIOUS
  <2>1. book \in Seq(Row) /\ TypeOK /\ JobFits
    BY DEF IInv, TypeOK
  <2>2. \A i \in DOMAIN book : book[i].stop \in Nat /\ book[i].stop >= book[i].stop
    <3>1. \A i \in DOMAIN book : book[i] \in Row
      BY <2>1
    <3>2. \A i \in DOMAIN book : book[i].stop \in Nat
      BY <3>1, LiveBookAssumption DEF Row
    <3>. QED
      BY <3>2
  <2>3. CASE UNCHANGED book
    BY <2>2, <2>3
  <2>4. CASE Enter
    <3>1. \A i \in DOMAIN book : book'[i] = book[i]
      BY <2>1, <2>4 DEF Enter, InsertRow
    <3>. QED
      BY <2>2, <3>1
  <2>5. CASE SettleExit
    <3>1. job.id \in DOMAIN book
      BY <2>1, <2>5 DEF SettleExit, JobFits, ActiveOf, ActiveIds
    <3>2. \A i \in DOMAIN book : i # job.id => book'[i] = book[i]
      BY <2>1, <2>5 DEF SettleExit
    <3>3. book'[job.id].status = "CLOSED"
      <4>1. job.id \in ActiveIds /\ job.price \in Price /\ job.r \in Multiple
        BY <2>1, <2>5 DEF SettleExit, JobFits, ActiveOf, TypeOK, ExitJob
      <4>. QED
        BY <2>1, <2>5, <4>1, CloseEffect DEF SettleExit
    <3>. QED
      BY <2>2, <3>2, <3>3
  <2>6. CASE Trail
    <3>1. job.id \in DOMAIN book /\ job.stop \in Price /\ job.stop >= book[job.id].stop
      BY <2>1, <2>6 DEF Trail, JobFits, ActiveOf, ActiveIds, TypeOK, TrailJob
    <3>2. /\ \A i \in DOMAIN book : i # job.id => book'[i] = book[i]
          /\ book'[job.id].stop = job.stop
      BY <2>1, <2>6, <3>1, StopEffect DEF Trail
    <3>. QED
      BY <2>2, <3>1, <3>2
  <2>7. UNCHANGED book \/ Enter \/ SettleExit \/ Trail
    BY DEF Next, EngineStep, StartCycle, StayFrozen, NoData, NoSignal, ManageOpen, Signal, CheckBounds,
           Watchdog, BookFull, ExitRaises, SleepMinute, SeedWallet, Crash, Restart, vars, engineVars
  <2>. QED
    BY <2>3, <2>4, <2>5, <2>6, <2>7
<1>2. IInv /\ [Next]_vars => [Rises]_vars
  BY <1>1
<1>. QED
  BY <1>2, Invariance, PTL DEF Spec, StopsOnlyRise
-----------------------------------------------------------------------------
\* What is barred stays behind the visits of a cycle.
LEMMA NextVisitBehind ==
    ASSUME TypeOK, BarredBehind, NextAsset,
           pc \in {"visit", "exit", "trail", "bounds", "watchdog", "insert"},
           barred' \subseteq barred \cup {asset}, barred' # {} => frozen'
    PROVE  BarredBehind'
<1>1. turn \in 1..Len(AssetOrder) /\ Len(AssetOrder) \in Nat
      /\ DOMAIN AssetOrder = 1..Len(AssetOrder)
  BY EngineAssumption DEF TypeOK
<1>2. CASE turn < Len(AssetOrder)
  <2>1. turn' = turn + 1
    BY <1>2 DEF NextAsset
  <2>2. ASSUME NEW k \in DOMAIN AssetOrder, k >= turn'
        PROVE  AssetOrder[k] \notin barred'
    <3>1. k # turn /\ k >= turn
      BY <1>1, <2>1, <2>2
    <3>2. AssetOrder[k] # asset
      BY <1>1, <3>1, EngineAssumption DEF asset
    <3>3. AssetOrder[k] \notin barred
      BY <3>1 DEF BarredBehind
    <3>. QED
      BY <3>2, <3>3
  <2>. QED
    BY <2>2 DEF BarredBehind
<1>3. CASE ~(turn < Len(AssetOrder))
  <2>1. pc' = "sleep"
    BY <1>3 DEF NextAsset
  <2>. QED
    BY <2>1 DEF BarredBehind
<1>. QED
  BY <1>2, <1>3

\* A step that bars nothing and goes on with the same visit, or leaves the visits.
LEMMA SameVisitBehind ==
    ASSUME BarredBehind, UNCHANGED <<frozen, barred>>,
           \/ pc' \in {"top", "sleep", "down"}
           \/ /\ pc \in {"visit", "exit", "trail", "bounds", "watchdog", "insert"}
              /\ turn' = turn
    PROVE  BarredBehind'
BY DEF BarredBehind

LEMMA StepKeepsBarred ==
    ASSUME IInv, BarredBehind, [Next]_vars
    PROVE  BarredBehind'
<1>1. TypeOK
  BY DEF IInv
<1>2. barred \subseteq barred \cup {asset} /\ (barred # {} => frozen)
  BY DEF BarredBehind
<1>3. CASE NoData \/ NoSignal \/ BookFull \/ SettleExit \/ Trail
  BY <1>1, <1>2, <1>3, NextVisitBehind DEF NoData, NoSignal, BookFull, SettleExit, Trail
<1>4. CASE Enter
  <2>1. barred' \subseteq barred \cup {asset} /\ (barred' # {} => frozen')
    BY <1>2, <1>4 DEF Enter
  <2>. QED
    BY <1>1, <1>4, <2>1, NextVisitBehind DEF Enter
<1>5. CASE Watchdog
  <2>1. CASE FreezeEngine
    BY <1>1, <1>5, <2>1, NextVisitBehind DEF Watchdog, FreezeEngine
  <2>2. CASE WatchdogError
    BY <1>1, <1>2, <1>5, <2>2, NextVisitBehind DEF Watchdog, WatchdogError
  <2>3. CASE WatchdogPasses
    BY <1>5, <2>3, SameVisitBehind DEF Watchdog, WatchdogPasses
  <2>. QED
    BY <1>5, <2>1, <2>2, <2>3 DEF Watchdog
<1>6. CASE CheckBounds
  <2>1. CASE WithinBounds /\ job # NoJob
    BY <1>6, <2>1, SameVisitBehind DEF CheckBounds
  <2>2. CASE ~(WithinBounds /\ job # NoJob)
    BY <1>1, <1>2, <1>6, <2>2, NextVisitBehind DEF CheckBounds
  <2>. QED
    BY <2>1, <2>2
<1>7. ASSUME NEW price \in Price, NEW fast \in Price, NEW trending \in BOOLEAN,
             ManageOpen(price, fast, trending)
      PROVE  BarredBehind'
  <2>1. pc = "visit" /\ UNCHANGED <<frozen, barred>> /\ (UNCHANGED turn \/ NextAsset)
    BY <1>7 DEF ManageOpen
  <2>2. CASE UNCHANGED turn
    BY <2>1, <2>2, SameVisitBehind
  <2>3. CASE NextAsset
    BY <1>1, <1>2, <2>1, <2>3, NextVisitBehind
  <2>. QED
    BY <2>1, <2>2, <2>3
<1>8. ASSUME NEW price \in Price, NEW low \in Price, NEW high \in Price, Signal(price, low, high)
      PROVE  BarredBehind'
  BY <1>8, SameVisitBehind DEF Signal
<1>9. CASE StartCycle \/ Restart
  <2>1. barred' = {}
    BY <1>2, <1>9 DEF StartCycle, Restart
  <2>. QED
    BY <2>1 DEF BarredBehind
<1>10. CASE SleepMinute \/ Crash \/ ExitRaises
  BY <1>10, SameVisitBehind DEF SleepMinute, Crash, ExitRaises
<1>11. CASE StayFrozen \/ SeedWallet \/ UNCHANGED vars
  <2>1. UNCHANGED <<frozen, barred, pc, turn>>
    BY <1>11 DEF StayFrozen, SeedWallet, vars, engineVars
  <2>. QED
    BY <2>1 DEF BarredBehind
<1>. QED
  BY <1>3, <1>4, <1>5, <1>6, <1>7, <1>8, <1>9, <1>10, <1>11 DEF Next, EngineStep

\* After a freeze the offending asset gets no row, and another asset at most one,
\* until the process is started again: the flag is looked at once a cycle, and
\* what the cycle has still to visit holds nothing that is barred.
THEOREM FreezeBoundsEntries == Spec => FrozenEntersOnce
<1> DEFINE Unbarred == \A i \in DOMAIN book' \ DOMAIN book : book'[i].asset \notin barred
<1>1. Init => BarredBehind
  BY DEF Init, BarredBehind
<1>2. IInv /\ BarredBehind /\ [Next]_vars => BarredBehind'
  BY StepKeepsBarred
<1>3. IInv /\ BarredBehind /\ [Next]_vars => [Unbarred]_vars
  <2> SUFFICES ASSUME IInv, BarredBehind, [Next]_vars PROVE Unbarred
    OBVIOUS
  <2>1. TypeOK /\ JobFits /\ book \in Seq(Row)
    BY DEF IInv, TypeOK
  <2>2. CASE Enter
    <3>1. job.price \in Price /\ job.sl \in Price /\ job.tp \in Price /\ asset \in Assets
      BY <2>1, <2>2, VisitedAsset DEF Enter, TypeOK, EntryJob
    <3>2. /\ book' \in Seq(Row) /\ Len(book') = Len(book) + 1
          /\ book'[Len(book) + 1].asset = asset
      BY <2>1, <2>2, <3>1, InsertEffect, EngineAssumption DEF Enter
    <3>3. \A i \in DOMAIN book' \ DOMAIN book : i = Len(book) + 1
      BY <2>1, <3>2
    <3>4. asset \notin barred
      <4>1. turn \in DOMAIN AssetOrder /\ turn >= turn
        BY <2>1, EngineAssumption DEF TypeOK
      <4>. QED
        BY <2>2, <4>1 DEF Enter, BarredBehind, asset
    <3>. QED
      BY <3>2, <3>3, <3>4
  <2>3. CASE SettleExit
    <3>1. DOMAIN book' = DOMAIN book
      BY <2>1, <2>3 DEF SettleExit
    <3>. QED
      BY <3>1
  <2>4. CASE Trail
    <3>1. DOMAIN book' = DOMAIN book
      BY <2>1, <2>4 DEF Trail, MoveStop
    <3>. QED
      BY <3>1
  <2>5. CASE UNCHANGED book
    BY <2>5
  <2>6. UNCHANGED book \/ Enter \/ SettleExit \/ Trail
    BY DEF Next, EngineStep, StartCycle, StayFrozen, NoData, NoSignal, ManageOpen, Signal, CheckBounds,
           Watchdog, BookFull, ExitRaises, SleepMinute, SeedWallet, Crash, Restart, vars, engineVars
  <2>. QED
    BY <2>2, <2>3, <2>4, <2>5, <2>6
<1>. QED
  BY <1>1, <1>2, <1>3, Invariance, PTL DEF Spec, FrozenEntersOnce
=============================================================================
