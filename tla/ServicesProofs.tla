---------------------------- MODULE ServicesProofs --------------------------
(***************************************************************************)
(* Proofs about the small services: the router, the accounting core and    *)
(* the integration harness, for any signals, fills, limits and failures.   *)
(***************************************************************************)
EXTENDS OrderRouter, AccountingCore, IntegrationHarness, FiniteSums, TLAPS


-----------------------------------------------------------------------------
(* The router: what is open at the broker is known here.                   *)

USE RouterAssumption

\* The buys that hold a slot: all that were cleared, for ever.
Holders == {s \in Buys : call[s] \in {"clock", "posted", "returned"}}

Slots ==
    /\ count = Cardinality(Holders)
    /\ count <= MaxPositions

\* An order is at the exchange just when it was posted, and a receipt is one
\* for an order that the exchange has taken.
Posted ==
    \A s \in Signals :
        /\ order[s] # "none" <=> call[s] \in {"posted", "returned"}
        /\ receipt[s] => call[s] = "returned" /\ order[s] \in {"resting", "filled", "cancelled"}

\* The purge finds every route returned, and leaves no known order resting.
Wiped ==
    /\ purge # "none" => ~ UnderWay
    /\ purge \in {"executed", "confirmed"} =>
        \A s \in Signals : receipt[s] => order[s] # "resting"

RouterInv == RouterTypeOK /\ Slots /\ Posted /\ Wiped

-----------------------------------------------------------------------------

LEMMA HoldersFinite == IsFiniteSet(Holders) /\ Cardinality(Holders) \in Nat
<1>1. IsFiniteSet(Buys)
  BY FS_Subset
<1>. QED
  BY <1>1, FS_Subset, FS_CardinalityType DEF Holders

\* The type invariant: what a signal, its order and the purge can be.
LEMMA RouterTypeStep == RouterTypeOK /\ [RouterNext]_routerVars => RouterTypeOK'
<1> SUFFICES ASSUME RouterTypeOK, [RouterNext]_routerVars PROVE RouterTypeOK'
  OBVIOUS
<1> USE DEF RouterTypeOK
<1>1. ASSUME NEW s \in Signals, Route(s) PROVE RouterTypeOK'
  BY <1>1 DEF Route
<1>2. ASSUME NEW s \in Signals, Post(s) PROVE RouterTypeOK'
  BY <1>2 DEF Post
<1>3. ASSUME NEW s \in Signals, Receive(s) PROVE RouterTypeOK'
  BY <1>3 DEF Receive
<1>4. ASSUME NEW s \in Signals, Match(s) PROVE RouterTypeOK'
  BY <1>4 DEF Match
<1>5. ASSUME NEW s \in Signals, Answer(s) PROVE RouterTypeOK'
  BY <1>5 DEF Answer
<1>6. ASSUME NEW s \in Signals, Fail(s) PROVE RouterTypeOK'
  BY <1>6 DEF Fail
<1>7. CASE CallPurge
  BY <1>7 DEF CallPurge
<1>8. CASE CancelAll
  <2>1. order' \in [Signals -> {"none", "travelling", "resting", "filled", "rejected", "cancelled"}]
    BY <1>8 DEF CancelAll
  <2>. QED
    BY <1>8, <2>1 DEF CancelAll
<1>9. CASE PurgeAnswered
  BY <1>9 DEF PurgeAnswered
<1>10. CASE PurgeFails
  BY <1>10 DEF PurgeFails
<1>11. CASE UNCHANGED routerVars
  BY <1>11 DEF routerVars
<1>. QED
  BY <1>1, <1>2, <1>3, <1>4, <1>5, <1>6, <1>7, <1>8, <1>9, <1>10, <1>11
  DEF RouterNext, RouterDone

\* A step that clears no signal keeps the holders of slots.
LEMMA SlotsKept ==
    ASSUME RouterTypeOK, Slots, UNCHANGED count,
           \A s \in Buys : call'[s] \in {"clock", "posted", "returned"}
                             <=> call[s] \in {"clock", "posted", "returned"}
    PROVE  Slots'
<1>1. Holders' = Holders
  BY DEF Holders
<1>. QED
  BY <1>1 DEF Slots

\* The count follows the holders, and the check keeps it under the ceiling.
LEMMA SlotsStep == RouterTypeOK /\ Slots /\ [RouterNext]_routerVars => Slots'
<1> SUFFICES ASSUME RouterTypeOK, Slots, [RouterNext]_routerVars PROVE Slots'
  OBVIOUS
<1>1. ASSUME NEW s \in Signals, Route(s) PROVE Slots'
  <2>1. CASE ~ Cleared(s)
    <3>1. UNCHANGED count /\ call' = [call EXCEPT ![s] = "refused"] /\ call[s] = "new"
      BY <1>1, <2>1 DEF Route
    <3>. QED
      BY <3>1, SlotsKept DEF RouterTypeOK
  <2>2. CASE Cleared(s) /\ s \notin Buys
    <3>1. UNCHANGED count /\ call' = [call EXCEPT ![s] = "clock"]
      BY <1>1, <2>2 DEF Route
    <3>. QED
      BY <2>2, <3>1, SlotsKept DEF RouterTypeOK
  <2>3. CASE Cleared(s) /\ s \in Buys
    <3>1. /\ count' = count + 1 /\ call' = [call EXCEPT ![s] = "clock"]
          /\ call[s] = "new" /\ ~ (count >= MaxPositions)
      BY <1>1, <2>3 DEF Route, Cleared
    <3>2. Holders' = Holders \cup {s} /\ s \notin Holders
      BY <2>3, <3>1 DEF Holders, RouterTypeOK
    <3>3. Cardinality(Holders \cup {s}) = Cardinality(Holders) + 1
      BY <3>2, HoldersFinite, FS_AddElement
    <3>. QED
      BY <3>1, <3>2, <3>3 DEF Slots, RouterTypeOK
  <2>. QED
    BY <2>1, <2>2, <2>3
<1>2. ASSUME NEW s \in Signals, Post(s) PROVE Slots'
  BY <1>2, SlotsKept DEF Post, RouterTypeOK
<1>3. ASSUME NEW s \in Signals, Receive(s) PROVE Slots'
  BY <1>3, SlotsKept DEF Receive
<1>4. ASSUME NEW s \in Signals, Match(s) PROVE Slots'
  BY <1>4, SlotsKept DEF Match
<1>5. ASSUME NEW s \in Signals, Answer(s) PROVE Slots'
  BY <1>5, SlotsKept DEF Answer, RouterTypeOK
<1>6. ASSUME NEW s \in Signals, Fail(s) PROVE Slots'
  BY <1>6, SlotsKept DEF Fail, RouterTypeOK
<1>7. CASE CallPurge \/ CancelAll \/ PurgeAnswered \/ PurgeFails \/ UNCHANGED routerVars
  <2>1. UNCHANGED <<count, call>>
    BY <1>7 DEF CallPurge, CancelAll, PurgeAnswered, PurgeFails, routerVars
  <2>. QED
    BY <2>1, SlotsKept
<1>. QED
  BY <1>1, <1>2, <1>3, <1>4, <1>5, <1>6, <1>7 DEF RouterNext, RouterDone

\* Orders follow calls.
LEMMA PostedStep == RouterTypeOK /\ Posted /\ [RouterNext]_routerVars => Posted'
<1> SUFFICES ASSUME RouterTypeOK, Posted, [RouterNext]_routerVars PROVE Posted'
  OBVIOUS
<1> USE DEF RouterTypeOK, Posted
<1>1. ASSUME NEW s \in Signals, Route(s) PROVE Posted'
  BY <1>1 DEF Route
<1>2. ASSUME NEW s \in Signals, Post(s) PROVE Posted'
  BY <1>2 DEF Post
<1>3. ASSUME NEW s \in Signals, Receive(s) PROVE Posted'
  BY <1>3 DEF Receive
<1>4. ASSUME NEW s \in Signals, Match(s) PROVE Posted'
  BY <1>4 DEF Match
<1>5. ASSUME NEW s \in Signals, Answer(s) PROVE Posted'
  <2>1. call[s] = "posted" /\ order[s] \notin {"travelling", "rejected"}
    BY <1>5 DEF Answer
  <2>. QED
    BY <1>5, <2>1 DEF Answer
<1>6. ASSUME NEW s \in Signals, Fail(s) PROVE Posted'
  BY <1>6 DEF Fail
<1>7. CASE CallPurge
  BY <1>7 DEF CallPurge
<1>8. CASE CancelAll
  BY <1>8 DEF CancelAll
<1>9. CASE PurgeAnswered
  BY <1>9 DEF PurgeAnswered
<1>10. CASE PurgeFails
  BY <1>10 DEF PurgeFails
<1>11. CASE UNCHANGED routerVars
  BY <1>11 DEF routerVars
<1>. QED
  BY <1>1, <1>2, <1>3, <1>4, <1>5, <1>6, <1>7, <1>8, <1>9, <1>10, <1>11
  DEF RouterNext, RouterDone

\* While a purge is under way nothing is routed, and what it has wiped stays so.
LEMMA WipedStep == RouterInv /\ [RouterNext]_routerVars => Wiped'
<1> SUFFICES ASSUME RouterInv, [RouterNext]_routerVars PROVE Wiped'
  OBVIOUS
<1> USE DEF RouterInv, RouterTypeOK, Wiped, UnderWay
<1>1. ASSUME NEW s \in Signals, Route(s) PROVE Wiped'
  BY <1>1 DEF Route
<1>2. ASSUME NEW s \in Signals, Post(s) PROVE Wiped'
  <2>1. purge = "none" /\ purge' = purge
    BY <1>2 DEF Post
  <2>. QED
    BY <2>1
<1>3. ASSUME NEW s \in Signals, Receive(s) PROVE Wiped'
  <2>1. ~ receipt[s]
    BY <1>3 DEF Receive, Posted
  <2>2. UNCHANGED <<call, receipt, purge>>
    BY <1>3 DEF Receive
  <2>3. \A t \in Signals : t # s => order'[t] = order[t]
    BY <1>3 DEF Receive
  <2>. QED
    BY <2>1, <2>2, <2>3
<1>4. ASSUME NEW s \in Signals, Match(s) PROVE Wiped'
  BY <1>4 DEF Match
<1>5. ASSUME NEW s \in Signals, Answer(s) PROVE Wiped'
  <2>1. purge = "none" /\ purge' = purge
    BY <1>5 DEF Answer
  <2>. QED
    BY <2>1
<1>6. ASSUME NEW s \in Signals, Fail(s) PROVE Wiped'
  <2>1. purge = "none" /\ purge' = purge
    BY <1>6 DEF Fail
  <2>. QED
    BY <2>1
<1>7. CASE CallPurge
  BY <1>7 DEF CallPurge
<1>8. CASE CancelAll
  <2>1. \A s \in Signals : order'[s] # "resting"
    BY <1>8 DEF CancelAll
  <2>2. UNCHANGED call /\ purge # "none"
    BY <1>8 DEF CancelAll
  <2>. QED
    BY <2>1, <2>2
<1>9. CASE PurgeAnswered
  BY <1>9 DEF PurgeAnswered
<1>10. CASE PurgeFails
  BY <1>10 DEF PurgeFails
<1>11. CASE UNCHANGED routerVars
  BY <1>11 DEF routerVars
<1>. QED
  BY <1>1, <1>2, <1>3, <1>4, <1>5, <1>6, <1>7, <1>8, <1>9, <1>10, <1>11
  DEF RouterNext, RouterDone

LEMMA RouterInvHolds == RouterSpec => []RouterInv
<1>1. RouterInit => RouterInv
  <2> SUFFICES ASSUME RouterInit PROVE RouterInv
    OBVIOUS
  <2>1. Holders = {}
    BY DEF RouterInit, Holders
  <2>2. Slots
    BY <2>1, FS_EmptySet DEF RouterInit, Slots
  <2>. QED
    BY <2>2 DEF RouterInit, RouterInv, RouterTypeOK, Posted, Wiped
<1>2. RouterInv /\ [RouterNext]_routerVars => RouterInv'
  BY RouterTypeStep, SlotsStep, PostedStep, WipedStep DEF RouterInv
<1>. QED
  BY <1>1, <1>2, PTL DEF RouterSpec

\* For any signals, sides, sizes and ceiling: a buy that is or may become a
\* position holds one of at most max_positions slots, and after a confirmed
\* purge only an order whose answer was lost can rest (route_strategy_signal,
\* cancel_all_open_orders).
THEOREM ExposureIsKnown == RouterSpec => []OrdersKnown
<1>1. RouterInv => OrdersKnown
  <2> SUFFICES ASSUME RouterInv PROVE OrdersKnown
    OBVIOUS
  <2>1. Counted
    <3>1. Exposed \subseteq Holders
      BY DEF RouterInv, Posted, Exposed, Holders
    <3>2. Cardinality(Exposed) <= Cardinality(Holders)
      BY <3>1, HoldersFinite, FS_Subset
    <3>. QED
      BY <3>2 DEF RouterInv, Slots, Counted
  <2>2. Purged
    BY DEF RouterInv, RouterTypeOK, Posted, Wiped, UnderWay, Purged
  <2>. QED
    BY <2>1, <2>2 DEF OrdersKnown
<1>. QED
  BY <1>1, RouterInvHolds, PTL

-----------------------------------------------------------------------------
(* The accounting core: a fill is booked whole, once, or not at all.       *)

\* What the open transaction has made of the committed tables.
Progress ==
    /\ step \in {"down", "idle", "journalled", "positioned", "written"}
    /\ step \in {"down", "idle"} => tables = stored
    /\ step \notin {"down", "idle"} => token \in Fills \ stored.journal
    /\ step \in {"journalled", "positioned"} => Fill[token].side = "BUY"
    /\ step = "journalled" => tables = Journalled(stored, token)
    /\ step = "positioned" => tables = Repositioned(Journalled(stored, token), token)
    /\ step = "written" => tables = Booked(stored, token)

LEMMA ProgressKept == Progress /\ [LedgerNext]_ledgerVars => Progress'
<1> SUFFICES ASSUME Progress, [LedgerNext]_ledgerVars PROVE Progress'
  OBVIOUS
<1> USE DEF Progress
<1>1. CASE Initialize
  BY <1>1 DEF Initialize
<1>2. CASE Reposition
  BY <1>2 DEF Reposition
<1>3. CASE Deduct
  BY <1>3 DEF Deduct, Booked
<1>4. CASE Commit
  BY <1>4 DEF Commit
<1>5. CASE Rollback
  BY <1>5 DEF Rollback
<1>6. CASE Die
  BY <1>6 DEF Die
<1>7. ASSUME NEW t \in Fills, Journal(t) PROVE Progress'
  BY <1>7 DEF Journal, Booked
<1>8. CASE UNCHANGED ledgerVars
  BY <1>8 DEF ledgerVars
<1>. QED
  BY <1>1, <1>2, <1>3, <1>4, <1>5, <1>6, <1>7, <1>8 DEF LedgerNext, LedgerDone

\* record_execution_fill and _initialize_relational_infrastructure: whatever
\* raises or dies, the vault holds the journal row, the position and the cash of
\* a fill together or none of them, and no fill twice.
THEOREM BookedWhole == LedgerSpec => FillsAreAtomic
<1>1. LedgerInit => Progress
  BY DEF LedgerInit, Progress
<1>2. Progress /\ [LedgerNext]_ledgerVars
        => [stored' # stored =>
              \/ ~ stored.seeded /\ stored' = Seeded(stored)
              \/ \E t \in Fills \ stored.journal : stored' = Booked(stored, t)]_ledgerVars
  <2> SUFFICES ASSUME Progress, LedgerNext, stored' # stored
               PROVE  \/ ~ stored.seeded /\ stored' = Seeded(stored)
                      \/ \E t \in Fills \ stored.journal : stored' = Booked(stored, t)
    BY DEF ledgerVars
  <2>1. CASE Initialize
    BY <2>1 DEF Initialize
  <2>2. CASE Commit
    BY <2>2 DEF Commit, Progress
  <2>3. ~ (Initialize \/ Commit) => FALSE
    BY DEF LedgerNext, Reposition, Deduct, Rollback, Die, Journal, LedgerDone, ledgerVars
  <2>. QED
    BY <2>1, <2>2, <2>3
<1>. QED
  BY <1>1, <1>2, ProgressKept, PTL DEF LedgerSpec, FillsAreAtomic

\* The committed tables by their types: no row before the seed, no fill that is
\* not one of the fills.
Tables == [journal : SUBSET Fills, seeded : BOOLEAN, cash : Int,
           size : [Symbols -> Int], spent : [Symbols -> Int]]

LedgerTypeOK ==
    /\ stored \in Tables
    /\ ~ stored.seeded => stored = Empty
    /\ step # "down" => stored.seeded

\* What the journal of x says was bought, and that x agrees with it.
BoughtIn(x, y) == {t \in x.journal : Fill[t].side = "BUY" /\ Fill[t].symbol = y}
AllBoughtIn(x) == {t \in x.journal : Fill[t].side = "BUY"}
Agrees(x) ==
    /\ x.seeded => x.cash = Seed - SumFunctionOnSet(Cost, AllBoughtIn(x))
    /\ \A y \in Symbols :
        /\ x.size[y] = SumFunctionOnSet(Quantity, BoughtIn(x, y))
        /\ x.spent[y] = SumFunctionOnSet(Cost, BoughtIn(x, y))

\* Quantities and costs are integers, for any set of fills.
LEMMA FillsAreTyped ==
    /\ \A t \in Fills : /\ Fill[t].symbol \in Symbols /\ Fill[t].side \in {"BUY", "SELL"}
                        /\ Quantity[t] \in Int /\ Cost[t] \in Int
                        /\ Quantity[t] = Fill[t].qty
    /\ \A S \in SUBSET Fills : IsFiniteSet(S)
<1>1. \A t \in Fills : Fill[t] \in FillRecord
  BY LedgerAssumption
<1>2. \A t \in Fills : /\ Fill[t].symbol \in Symbols /\ Fill[t].side \in {"BUY", "SELL"}
                       /\ Fill[t].qty \in Nat /\ Fill[t].price \in Nat
  BY <1>1 DEF FillRecord
<1>3. \A m, n \in Nat : m * n \in Int
  OBVIOUS
<1>4. \A t \in Fills : Quantity[t] = Fill[t].qty /\ Quantity[t] \in Int /\ Cost[t] \in Int
  BY <1>2, <1>3 DEF Quantity, Cost
<1>. QED
  BY <1>2, <1>4, LedgerAssumption, FS_Subset

\* The sum over the bought fills with one more of them.
LEMMA OneMoreBought ==
    ASSUME NEW x, x.journal \subseteq Fills, NEW t \in Fills \ x.journal
    PROVE  /\ SumFunctionOnSet(Cost, AllBoughtIn(x) \cup {t})
                = SumFunctionOnSet(Cost, AllBoughtIn(x)) + Cost[t]
           /\ SumFunctionOnSet(Cost, AllBoughtIn(x)) \in Int
           /\ \A y \in Symbols :
                /\ SumFunctionOnSet(Cost, BoughtIn(x, y) \cup {t})
                     = SumFunctionOnSet(Cost, BoughtIn(x, y)) + Cost[t]
                /\ SumFunctionOnSet(Quantity, BoughtIn(x, y) \cup {t})
                     = SumFunctionOnSet(Quantity, BoughtIn(x, y)) + Quantity[t]
<1>1. ASSUME NEW S \in SUBSET x.journal
      PROVE  /\ SumFunctionOnSet(Cost, S) \in Int
             /\ SumFunctionOnSet(Cost, S \cup {t}) = SumFunctionOnSet(Cost, S) + Cost[t]
             /\ SumFunctionOnSet(Quantity, S \cup {t}) = SumFunctionOnSet(Quantity, S) + Quantity[t]
  <2>1. IsFiniteSet(S) /\ t \notin S /\ S \in SUBSET S
    BY FillsAreTyped
  <2>2. \A u \in S \cup {t} : Cost[u] \in Int /\ Quantity[u] \in Int
    BY FillsAreTyped
  <2>3. SumFunctionOnSet(Cost, S) \in Int
    BY <2>1, <2>2, SumIsInt
  <2>. QED
    BY <2>1, <2>2, <2>3, SumWith
<1>2. AllBoughtIn(x) \in SUBSET x.journal /\ \A y \in Symbols : BoughtIn(x, y) \in SUBSET x.journal
  BY DEF AllBoughtIn, BoughtIn
<1>. QED
  BY <1>1, <1>2

\* A fill that is booked whole keeps the tables in agreement with the journal.
LEMMA BookedAgrees ==
    ASSUME NEW x \in Tables, x.seeded, Agrees(x), NEW t \in Fills \ x.journal
    PROVE  Booked(x, t) \in Tables /\ Booked(x, t).seeded /\ Agrees(Booked(x, t))
<1> DEFINE z == Booked(x, t)
           y == Fill[t].symbol
<1>1. /\ x.journal \in SUBSET Fills /\ x.size \in [Symbols -> Int] /\ x.spent \in [Symbols -> Int]
      /\ x.cash \in Int /\ y \in Symbols /\ t \in Fills
      /\ Quantity[t] \in Int /\ Quantity[t] = Fill[t].qty /\ Cost[t] \in Int
  BY FillsAreTyped DEF Tables
<1>2. CASE Fill[t].side = "BUY"
  <2>1. /\ z = [x EXCEPT !.journal = x.journal \cup {t},
                         !.size = [x.size EXCEPT ![y] = x.size[y] + Quantity[t]],
                         !.spent = [x.spent EXCEPT ![y] = x.spent[y] + Cost[t]],
                         !.cash = x.cash - Cost[t]]
    BY <1>1, <1>2 DEF Booked, Deducted, Repositioned, Journalled, Tables
  <2>2. /\ z.journal = x.journal \cup {t} /\ z.seeded = x.seeded /\ z.cash = x.cash - Cost[t]
        /\ z.size = [x.size EXCEPT ![y] = x.size[y] + Quantity[t]]
        /\ z.spent = [x.spent EXCEPT ![y] = x.spent[y] + Cost[t]]
        /\ z \in Tables
    <3> HIDE DEF z, y
    <3>1. /\ x.journal \cup {t} \in SUBSET Fills /\ x.cash - Cost[t] \in Int
          /\ [x.size EXCEPT ![y] = x.size[y] + Quantity[t]] \in [Symbols -> Int]
          /\ [x.spent EXCEPT ![y] = x.spent[y] + Cost[t]] \in [Symbols -> Int]
      BY <1>1
    <3>. QED
      BY <2>1, <3>1 DEF Tables
  <2>3. /\ AllBoughtIn(z) = AllBoughtIn(x) \cup {t}
        /\ BoughtIn(z, y) = BoughtIn(x, y) \cup {t}
        /\ \A v \in Symbols : v # y => BoughtIn(z, v) = BoughtIn(x, v)
    BY <1>2, <2>2 DEF AllBoughtIn, BoughtIn
  <2> HIDE DEF z, y
  <2>4. x.cash - Cost[t] = Seed - SumFunctionOnSet(Cost, AllBoughtIn(z))
    <3>1. Seed \in Int /\ SumFunctionOnSet(Cost, AllBoughtIn(x)) \in Int
      BY <1>1, OneMoreBought, LedgerAssumption
    <3>2. SumFunctionOnSet(Cost, AllBoughtIn(z)) = SumFunctionOnSet(Cost, AllBoughtIn(x)) + Cost[t]
      BY <1>1, <2>3, OneMoreBought
    <3>3. x.cash = Seed - SumFunctionOnSet(Cost, AllBoughtIn(x))
      BY DEF Agrees
    <3>. QED
      BY <1>1, <3>1, <3>2, <3>3
  <2>5. /\ z.size[y] = SumFunctionOnSet(Quantity, BoughtIn(z, y))
        /\ z.spent[y] = SumFunctionOnSet(Cost, BoughtIn(z, y))
    <3>1. z.size[y] = x.size[y] + Quantity[t] /\ z.spent[y] = x.spent[y] + Cost[t]
      BY <1>1, <2>2
    <3>2. /\ x.size[y] = SumFunctionOnSet(Quantity, BoughtIn(x, y))
          /\ x.spent[y] = SumFunctionOnSet(Cost, BoughtIn(x, y))
      BY <1>1 DEF Agrees
    <3>3. /\ SumFunctionOnSet(Quantity, BoughtIn(z, y)) =
               SumFunctionOnSet(Quantity, BoughtIn(x, y)) + Quantity[t]
          /\ SumFunctionOnSet(Cost, BoughtIn(z, y)) =
               SumFunctionOnSet(Cost, BoughtIn(x, y)) + Cost[t]
      <4>1. \A v \in Symbols :
              /\ SumFunctionOnSet(Cost, BoughtIn(x, v) \cup {t})
                   = SumFunctionOnSet(Cost, BoughtIn(x, v)) + Cost[t]
              /\ SumFunctionOnSet(Quantity, BoughtIn(x, v) \cup {t})
                   = SumFunctionOnSet(Quantity, BoughtIn(x, v)) + Quantity[t]
        BY <1>1, OneMoreBought
      <4>. QED
        BY <1>1, <2>3, <4>1
    <3>. QED
      BY <3>1, <3>2, <3>3
  <2>6. \A v \in Symbols : v # y => /\ z.size[v] = SumFunctionOnSet(Quantity, BoughtIn(z, v))
                                    /\ z.spent[v] = SumFunctionOnSet(Cost, BoughtIn(z, v))
    BY <1>1, <2>2, <2>3 DEF Agrees
  <2>. QED
    BY <2>2, <2>4, <2>5, <2>6 DEF Agrees, z
<1>3. CASE Fill[t].side # "BUY"
  <2>1. /\ z.journal = x.journal \cup {t} /\ z.seeded = x.seeded /\ z.cash = x.cash
        /\ z.size = x.size /\ z.spent = x.spent /\ z \in Tables
    BY <1>1, <1>3 DEF Booked, Journalled, Tables
  <2>2. AllBoughtIn(z) = AllBoughtIn(x) /\ \A v \in Symbols : BoughtIn(z, v) = BoughtIn(x, v)
    BY <1>3, <2>1 DEF AllBoughtIn, BoughtIn
  <2>. QED
    BY <2>1, <2>2 DEF Agrees
<1>. QED
  BY <1>2, <1>3

LEMMA SeededAgrees ==
    Empty \in Tables /\ Agrees(Empty)
      /\ Seeded(Empty) \in Tables /\ Seeded(Empty).seeded /\ Agrees(Seeded(Empty))
<1>1. /\ Empty \in Tables /\ Empty.journal = {} /\ ~ Empty.seeded
      /\ \A y \in Symbols : Empty.size[y] = 0 /\ Empty.spent[y] = 0
  BY DEF Empty, Tables
<1>2. /\ Seeded(Empty) \in Tables /\ Seeded(Empty).journal = {} /\ Seeded(Empty).seeded
      /\ Seeded(Empty).cash = Seed
      /\ \A y \in Symbols : Seeded(Empty).size[y] = 0 /\ Seeded(Empty).spent[y] = 0
  BY <1>1, LedgerAssumption DEF Seeded, Tables
<1>3. ASSUME NEW x, x.journal = {}
      PROVE  AllBoughtIn(x) = {} /\ \A y : BoughtIn(x, y) = {}
  BY <1>3 DEF AllBoughtIn, BoughtIn
<1>4. Seed - 0 = Seed
  BY LedgerAssumption
<1>. QED
  BY <1>1, <1>2, <1>3, <1>4, SumEmpty DEF Agrees

LEMMA AgreementKept ==
    Progress /\ LedgerTypeOK /\ Agrees(stored) /\ [LedgerNext]_ledgerVars
        => LedgerTypeOK' /\ Agrees(stored)'
<1> SUFFICES ASSUME Progress, LedgerTypeOK, Agrees(stored), [LedgerNext]_ledgerVars
             PROVE  LedgerTypeOK' /\ Agrees(stored')
  BY DEF Agrees, AllBoughtIn, BoughtIn
<1>1. CASE Initialize
  <2>1. CASE stored.seeded
    BY <1>1, <2>1 DEF Initialize, LedgerTypeOK
  <2>2. CASE ~ stored.seeded
    <3>1. stored' = Seeded(Empty)
      BY <1>1, <2>2 DEF Initialize, LedgerTypeOK
    <3>2. stored' \in Tables /\ stored'.seeded /\ Agrees(stored')
      BY <3>1, SeededAgrees
    <3>. QED
      BY <3>2 DEF LedgerTypeOK
  <2>. QED
    BY <2>1, <2>2
<1>2. CASE Commit
  <2>1. /\ stored' = Booked(stored, token) /\ token \in Fills \ stored.journal
        /\ stored.seeded /\ stored \in Tables
    BY <1>2 DEF Commit, Progress, LedgerTypeOK
  <2>2. stored' \in Tables /\ stored'.seeded /\ Agrees(stored')
    BY <2>1, BookedAgrees
  <2>. QED
    BY <2>2 DEF LedgerTypeOK
<1>3. CASE UNCHANGED stored /\ (step' # "down" => step # "down")
  BY <1>3 DEF LedgerTypeOK
<1>4. ~ (Initialize \/ Commit) => UNCHANGED stored /\ (step' # "down" => step # "down")
  BY DEF LedgerNext, Reposition, Deduct, Rollback, Die, Journal, LedgerDone, ledgerVars
<1>. QED
  BY <1>1, <1>2, <1>3, <1>4

\* Cash, sizes and average prices are what the bought fills of the journal make
\* of the seed, through every failure, death and repetition
\* (record_execution_fill, _initialize_relational_infrastructure).
THEOREM LedgerAgreesWithJournal == LedgerSpec => []LedgerAgrees
<1>1. LedgerInit => Progress /\ LedgerTypeOK /\ Agrees(stored)
  BY SeededAgrees DEF LedgerInit, Progress, LedgerTypeOK, Empty
<1>2. LedgerTypeOK /\ Agrees(stored) => LedgerAgrees
  <2> SUFFICES ASSUME LedgerTypeOK, Agrees(stored) PROVE LedgerAgrees
    OBVIOUS
  <2>1. \A y : Bought(y) = BoughtIn(stored, y)
    BY DEF Bought, BoughtIn
  <2>2. UNION {Bought(y) : y \in Symbols} = AllBoughtIn(stored)
    <3>1. \A t \in stored.journal : Fill[t].symbol \in Symbols
      BY FillsAreTyped DEF LedgerTypeOK, Tables
    <3>. QED
      BY <3>1 DEF Bought, AllBoughtIn
  <2>. QED
    BY <2>1, <2>2 DEF Agrees, LedgerAgrees
<1>. QED
  BY <1>1, <1>2, ProgressKept, AgreementKept, PTL DEF LedgerSpec

-----------------------------------------------------------------------------
(* The integration harness: the count of orders survives everything.       *)

USE HarnessAssumption

Vaults == [orders : SUBSET Seconds, active : SUBSET Instruments,
           errors : [Seconds -> Nat], halted : BOOLEAN]

\* The types, and a collision in the table of orders is the second's own.
HarnessTypeOK ==
    /\ vault \in Vaults
    /\ memory \in [pending : Nat, made : Nat]
    /\ stage \in {"down", "idle", "signalled", "approved", "healthy", "submitted"}
    /\ clock \in Seconds

LEMMA HarnessTypeStep == HarnessTypeOK /\ [HarnessNext]_harnessVars => HarnessTypeOK'
<1> SUFFICES ASSUME HarnessTypeOK, [HarnessNext]_harnessVars PROVE HarnessTypeOK'
  OBVIOUS
<1> USE DEF HarnessTypeOK
<1>1. CASE Reboot
  <2>1. Cardinality(vault.orders) \in Nat
    BY FS_Subset, FS_CardinalityType DEF Vaults
  <2>. QED
    BY <1>1, <2>1 DEF Reboot
<1>2. CASE PublishTick \/ Coordinate \/ CallbackRaises \/ Sever
  BY <1>2 DEF PublishTick, Coordinate, CallbackRaises, Sever
<1>3. CASE InspectHealth
  BY <1>3 DEF InspectHealth, Vaults
<1>4. CASE StoreOrder
  BY <1>4 DEF StoreOrder, Vaults
<1>5. CASE CountOrder
  BY <1>5 DEF CountOrder
<1>6. CASE NextSecond
  BY <1>6 DEF NextSecond
<1>7. CASE LogCritical
  BY <1>7 DEF LogCritical, Vaults
<1>8. CASE OpenPosition
  BY <1>8 DEF OpenPosition, Vaults
<1>9. CASE UNCHANGED harnessVars
  BY <1>9 DEF harnessVars
<1>. QED
  BY <1>1, <1>2, <1>3, <1>4, <1>5, <1>6, <1>7, <1>8, <1>9 DEF HarnessNext

LEMMA RecoveredStep ==
    HarnessTypeOK /\ OrdersRecovered /\ [HarnessNext]_harnessVars => OrdersRecovered'
<1> SUFFICES ASSUME HarnessTypeOK, OrdersRecovered, [HarnessNext]_harnessVars
             PROVE  OrdersRecovered'
  OBVIOUS
<1>0. Cardinality(vault.orders) \in Nat /\ IsFiniteSet(vault.orders)
  BY FS_Subset, FS_CardinalityType DEF HarnessTypeOK, Vaults
<1> USE DEF HarnessTypeOK, OrdersRecovered
<1>1. CASE Reboot
  BY <1>0, <1>1 DEF Reboot
<1>2. CASE PublishTick \/ Coordinate \/ CallbackRaises \/ Sever
  BY <1>2 DEF PublishTick, Coordinate, CallbackRaises, Sever
<1>3. CASE InspectHealth
  <2>1. vault'.orders = vault.orders /\ stage' \in {"idle", "healthy"}
    BY <1>3 DEF InspectHealth, Vaults
  <2>. QED
    BY <1>3, <2>1 DEF InspectHealth
<1>4. CASE StoreOrder
  <2>1. CASE clock \in vault.orders
    BY <1>4, <2>1 DEF StoreOrder
  <2>2. CASE clock \notin vault.orders
    <3>1. vault'.orders = vault.orders \cup {clock} /\ stage' = "submitted" /\ stage = "healthy"
      BY <1>4, <2>2 DEF StoreOrder, Vaults
    <3>2. Cardinality(vault.orders \cup {clock}) = Cardinality(vault.orders) + 1
      BY <1>0, <2>2, FS_AddElement
    <3>. QED
      BY <1>4, <3>1, <3>2 DEF StoreOrder
  <2>. QED
    BY <2>1, <2>2
<1>5. CASE CountOrder
  BY <1>0, <1>5 DEF CountOrder
<1>6. CASE NextSecond
  BY <1>6 DEF NextSecond
<1>7. CASE LogCritical
  <2>1. vault'.orders = vault.orders
    BY <1>7 DEF LogCritical, Vaults
  <2>. QED
    BY <1>7, <2>1 DEF LogCritical
<1>8. CASE OpenPosition
  <2>1. vault'.orders = vault.orders
    BY <1>8 DEF OpenPosition, Vaults
  <2>. QED
    BY <1>8, <2>1 DEF OpenPosition
<1>9. CASE UNCHANGED harnessVars
  BY <1>9 DEF harnessVars
<1>. QED
  BY <1>1, <1>2, <1>3, <1>4, <1>5, <1>6, <1>7, <1>8, <1>9 DEF HarnessNext

\* reconstruct_runtime_memory and orders_generated: the harness never knows of
\* more or of fewer orders than the vault holds.
THEOREM RecoveryIsExact == HarnessSpec => []OrdersRecovered
<1>1. HarnessInit => HarnessTypeOK /\ OrdersRecovered
  BY DEF HarnessInit, HarnessTypeOK, Vaults, OrdersRecovered
<1>. QED
  BY <1>1, HarnessTypeStep, RecoveredStep, PTL DEF HarnessSpec
=============================================================================
