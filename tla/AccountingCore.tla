--------------------------- MODULE AccountingCore ---------------------------
(***************************************************************************)
(* ApexAccountingCore: the cash, the positions and the journal of fills in *)
(* the SQLite vault. A fill is one transaction of three writes; other      *)
(* programs write to the same file, so any write can fail with a lock, and *)
(* the process can die anywhere. The caller may record a fill again: the   *)
(* trade id is the primary key of the journal.                             *)
(*                                                                         *)
(* average_entry_price is kept multiplied by the size, as what the         *)
(* position has cost: the code divides by the new size what it multiplies  *)
(* by at the next fill.                                                    *)
(***************************************************************************)
EXTENDS Integers, FiniteSets, Functions

CONSTANTS Fills,      \* trade tokens
          Symbols,
          Fill,       \* what each token was: symbol, side, quantity, price
          Seed,       \* the initial balance
          MaxCrashes  \* bound of the model

FillRecord == [symbol : Symbols, side : {"BUY", "SELL"}, qty : Nat \ {0}, price : Nat]

ASSUME LedgerAssumption ==
    /\ IsFiniteSet(Fills)
    /\ Fill \in [Fills -> FillRecord]
    /\ Seed \in Int /\ MaxCrashes \in Nat

VARIABLES stored,     \* the committed tables
          tables,     \* the tables as the open transaction sees them
          step,       \* where record_execution_fill is
          token,      \* trade_token
          crashes

ledgerVars == <<stored, tables, step, token, crashes>>

Cost == [t \in Fills |-> Fill[t].qty * Fill[t].price]
Quantity == [t \in Fills |-> Fill[t].qty]

\* No row yet: neither the USDT balance nor a position.
Empty == [journal |-> {}, seeded |-> FALSE, cash |-> 0, size |-> [y \in Symbols |-> 0],
          spent |-> [y \in Symbols |-> 0]]

\* The three writes of a fill, and what they make of the tables together.
Journalled(x, t) == [x EXCEPT !.journal = @ \cup {t}]
Repositioned(x, t) == [x EXCEPT !.size[Fill[t].symbol] = @ + Fill[t].qty,
                                !.spent[Fill[t].symbol] = @ + Cost[t]]
Deducted(x, t) == [x EXCEPT !.cash = @ - Cost[t]]
Booked(x, t) == IF Fill[t].side = "BUY"
                THEN Deducted(Repositioned(Journalled(x, t), t), t)
                ELSE Journalled(x, t)

Seeded(x) == [x EXCEPT !.seeded = TRUE, !.cash = Seed]

LedgerInit ==
    /\ stored = Empty /\ tables = Empty
    /\ step = "down" /\ token = "none"
    /\ crashes = 0

\* Faulty variant: the balance is seeded at every start.
Initialize_Reseeds ==
    /\ step = "down"
    /\ stored' = Seeded(stored)
    /\ tables' = stored'
    /\ step' = "idle"
    /\ UNCHANGED <<token, crashes>>

\* _initialize_relational_infrastructure: the balance is seeded if the table is fresh.
Initialize ==
    /\ step = "down"
    /\ stored' = IF stored.seeded THEN stored ELSE Seeded(stored)
    /\ tables' = stored'
    /\ step' = "idle"
    /\ UNCHANGED <<token, crashes>>

\* Faulty variant: the journal row is committed at once.
Journal_Commits(t) ==
    /\ step = "idle" /\ t \notin tables.journal
    /\ token' = t
    /\ tables' = Journalled(tables, t)
    /\ stored' = tables'
    /\ step' = IF Fill[t].side = "BUY" THEN "journalled" ELSE "written"
    /\ UNCHANGED crashes

\* The journal row. A known trade_id raises IntegrityError here: nothing has
\* been written, so that call changes nothing. A SELL goes on to the commit.
Journal(t) ==
    /\ step = "idle" /\ t \notin tables.journal
    /\ token' = t
    /\ tables' = Journalled(tables, t)
    /\ step' = IF Fill[t].side = "BUY" THEN "journalled" ELSE "written"
    /\ UNCHANGED <<stored, crashes>>

\* The position is inserted, or its size and average are recalculated.
Reposition ==
    /\ step = "journalled"
    /\ tables' = Repositioned(tables, token)
    /\ step' = "positioned"
    /\ UNCHANGED <<stored, token, crashes>>

Deduct ==
    /\ step = "positioned"
    /\ tables' = Deducted(tables, token)
    /\ step' = "written"
    /\ UNCHANGED <<stored, token, crashes>>

Commit ==
    /\ step = "written"
    /\ stored' = tables
    /\ step' = "idle"
    /\ UNCHANGED <<tables, token, crashes>>

\* Faulty variant: the connection stays open, with what it has written.
Rollback_KeepsTables ==
    /\ step \in {"journalled", "positioned", "written"}
    /\ step' = "idle"
    /\ UNCHANGED <<stored, tables, token, crashes>>

\* A write or the commit raises: the exception is printed and close undoes the
\* transaction.
Rollback ==
    /\ step \in {"journalled", "positioned", "written"}
    /\ tables' = stored
    /\ step' = "idle"
    /\ UNCHANGED <<stored, token, crashes>>

\* The process dies; SQLite undoes the transaction.
Die ==
    /\ step # "down" /\ crashes < MaxCrashes
    /\ tables' = stored
    /\ step' = "down"
    /\ crashes' = crashes + 1
    /\ UNCHANGED <<stored, token>>

LedgerDone == step = "idle" /\ tables.journal = Fills /\ UNCHANGED ledgerVars

LedgerNext ==
    \/ Initialize \/ Reposition \/ Deduct \/ Commit \/ Rollback \/ Die
    \/ \E t \in Fills : Journal(t)
    \/ LedgerDone

LedgerSpec == LedgerInit /\ [][LedgerNext]_ledgerVars

-----------------------------------------------------------------------------

Bought(y) == {t \in stored.journal : Fill[t].side = "BUY" /\ Fill[t].symbol = y}

\* Cash, sizes and average prices are what the bought fills of the journal
\* make of the seed, after every commit, failure, death and repetition.
\* (A SELL is in the journal only: it returns no cash and reduces nothing.)
LedgerAgrees ==
    /\ stored.seeded =>
        stored.cash = Seed - SumFunctionOnSet(Cost, UNION {Bought(y) : y \in Symbols})
    /\ \A y \in Symbols :
        /\ stored.size[y] = SumFunctionOnSet(Quantity, Bought(y))
        /\ stored.spent[y] = SumFunctionOnSet(Cost, Bought(y))

\* The committed tables change only by the seed, once, or by one whole fill that
\* the journal did not hold.
FillsAreAtomic ==
    [][stored' # stored =>
         \/ ~ stored.seeded /\ stored' = Seeded(stored)
         \/ \E t \in Fills \ stored.journal : stored' = Booked(stored, t)]_ledgerVars

=============================================================================
