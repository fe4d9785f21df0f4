------------------------------ MODULE LiveBook ------------------------------
(***************************************************************************)
(* The sqlite table live_book of v3_architecture, which the autonomous     *)
(* execution engine and the live state processor both read and write, and  *)
(* the queries and updates they run on it.  A row's id is its position in  *)
(* the sequence (AUTOINCREMENT, rows are never deleted).                    *)
(*                                                                         *)
(* Prices are small positive integers.  An R multiple is kept as an exact  *)
(* fraction <<numerator, denominator>> with a positive denominator.         *)
(***************************************************************************)
EXTENDS Integers, Sequences, FiniteSets

CONSTANTS
    Assets,      \* the tradable symbols
    Crypto,      \* those whose ticker contains "USDT"
    Styles,      \* the strategy sets that write rows
    Price,       \* prices, stops and targets
    MinRR,       \* smallest reward/risk ratio of an entry (4 in the code)
    MaxSlots,    \* open positions allowed over all assets (6 in the code)
    MaxCrypto,   \* open crypto positions allowed (3 in the code)
    SampleSize,  \* closed trades the adaptive risk rule looks at (5 in the code)
    MaxRows      \* bound: rows ever inserted

ASSUME LiveBookAssumption ==
    /\ Crypto \subseteq Assets
    /\ Price \subseteq Nat \ {0}
    /\ MinRR \in Nat \ {0}
    /\ MaxSlots \in Nat \ {0}
    /\ MaxCrypto \in Nat \ {0}
    /\ SampleSize \in Nat \ {0}
    /\ MaxRows \in Nat

VARIABLE book

-----------------------------------------------------------------------------
Multiple == Int \X (Nat \ {0})
FullLoss == <<-1, 1>>
IsLoss(r) == r[1] < 0

Row == [asset : Assets, style : Styles, entry : Price, sl : Price, tp : Price,
        stop : Price, r : Multiple, status : {"ACTIVE", "CLOSED"}]

ActiveIds == {i \in DOMAIN book : book[i].status = "ACTIVE"}
ClosedIds == {i \in DOMAIN book : book[i].status = "CLOSED"}
ActiveOf(a) == {i \in ActiveIds : book[i].asset = a}
ActiveSlot(a, s) == {i \in ActiveOf(a) : book[i].style = s}
ActiveCrypto == {i \in ActiveIds : book[i].asset \in Crypto}

\* fetchone() of a SELECT with no ORDER BY: the row with the lowest id.
FirstRow(ids) == CHOOSE i \in ids : \A j \in ids : i <= j

\* SELECT ... WHERE status = 'CLOSED' ORDER BY id DESC LIMIT SampleSize.
LatestClosed == {i \in ClosedIds : Cardinality({j \in ClosedIds : j > i}) < SampleSize}

\* Faulty variant: all([]) is true, the sample's size is not looked at.
HalveRisk_NoMinimum == \A i \in LatestClosed : IsLoss(book[i].r)

\* calculate_adaptive_allocation_risk: half the risk after a full sample of losses.
HalveRisk ==
    /\ Cardinality(LatestClosed) >= SampleSize
    /\ \A i \in LatestClosed : IsLoss(book[i].r)

\* An entry is worth taking when its stop is below the price and its reward
\* is at least MinRR times its risk.
WorthTaking(price, sl, tp) ==
    /\ price > sl
    /\ tp - price >= MinRR * (price - sl)

InsertRow(a, s, price, sl, tp) ==
    book' = Append(book, [asset |-> a, style |-> s, entry |-> price, sl |-> sl, tp |-> tp,
                          stop |-> sl, r |-> <<0, 1>>, status |-> "ACTIVE"])

\* Faulty variant: the row is written back as it was read, status included.
MoveStop_WholeRow(id, stop) ==
    book' = [book EXCEPT ![id].stop = stop, ![id].status = "ACTIVE"]

\* UPDATE ... SET current_sl WHERE id: the row's status is not looked at.
MoveStop(id, stop) == book' = [book EXCEPT ![id].stop = stop]
=============================================================================
