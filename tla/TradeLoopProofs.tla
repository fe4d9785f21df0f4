-------------------------- MODULE TradeLoopProofs ---------------------------
(***************************************************************************)
(* Proofs about the loop, for any programs, prices and ratio of frames.     *)
(***************************************************************************)
EXTENDS TradeLoopProps, SequenceTheorems, TLAPS

Due(step) == Has(todo, step)

-----------------------------------------------------------------------------
(* Steps left.                                                             *)

LEMMA EmptyHasNothing ==
    ASSUME NEW step
    PROVE  ~Has(<< >>, step)
  BY DEF Has

LEMMA HeadIsThere ==
    ASSUME NEW s \in StepSeqs, s # << >>
    PROVE  Has(s, Head(s)) /\ Tail(s) \in StepSeqs
  BY DEF Has, StepSeqs

LEMMA HeadOfConcat ==
    ASSUME NEW S, NEW s \in Seq(S), s # << >>, NEW t \in Seq(S)
    PROVE  Head(s \o t) = Head(s)
<1>1. Len(s \o t) = Len(s) + Len(t) /\ Len(s) \in Nat /\ Len(t) \in Nat /\ Len(s) > 0
      /\ s \o t \in Seq(S) /\ Head(s) = s[1]
  OBVIOUS
<1>2. 1 \in 1..(Len(s) + Len(t)) /\ 1 <= Len(s)
  BY <1>1
<1>3. (s \o t)[1] = s[1]
  BY <1>1, <1>2, ConcatProperties
<1>4. Head(s \o t) = (s \o t)[1]
  <2>1. s \o t # << >>
    BY <1>1
  <2>. QED
    BY <1>1, <2>1, HeadTailProperties
<1>. QED
  BY <1>1, <1>3, <1>4

LEMMA TailHas ==
    ASSUME NEW s \in StepSeqs, s # << >>, NEW step
    PROVE  /\ Has(Tail(s), step) => Has(s, step)
           /\ Has(s, step) /\ Head(s) # step => Has(Tail(s), step)
<1>1. /\ Len(Tail(s)) = Len(s) - 1 /\ Len(s) \in Nat /\ Len(s) > 0
      /\ \A i \in 1..Len(Tail(s)) : Tail(s)[i] = s[i + 1]
  BY DEF StepSeqs
<1>2. ASSUME Has(Tail(s), step) PROVE Has(s, step)
  <2>1. PICK i \in 1..Len(Tail(s)) : Tail(s)[i] = step
    BY <1>2 DEF Has
  <2>2. i + 1 \in 1..Len(s) /\ s[i + 1] = step
    BY <1>1, <2>1
  <2>. QED
    BY <2>2 DEF Has
<1>3. ASSUME Has(s, step), Head(s) # step PROVE Has(Tail(s), step)
  <2>1. PICK i \in 1..Len(s) : s[i] = step
    BY <1>3 DEF Has
  <2>2. i # 1
    BY <1>3, <2>1 DEF StepSeqs
  <2>3. i - 1 \in 1..Len(Tail(s)) /\ Tail(s)[i - 1] = step
    BY <1>1, <2>1, <2>2
  <2>. QED
    BY <2>3 DEF Has
<1>. QED
  BY <1>2, <1>3

LEMMA TailStopFollows ==
    ASSUME NEW s \in StepSeqs, s # << >>, StopFollows(s)
    PROVE  /\ StopFollows(Tail(s))
           /\ Head(s) = "ScaleOut" => Has(Tail(s), "StopOut")
<1>1. /\ Len(Tail(s)) = Len(s) - 1 /\ Len(s) \in Nat /\ Len(s) > 0
      /\ \A i \in 1..Len(Tail(s)) : Tail(s)[i] = s[i + 1]
      /\ Head(s) = s[1]
  BY DEF StepSeqs
<1>2. ASSUME NEW i \in 1..Len(Tail(s)), Tail(s)[i] = "ScaleOut"
      PROVE  \E j \in 1..Len(Tail(s)) : j > i /\ Tail(s)[j] = "StopOut"
  <2>1. i + 1 \in 1..Len(s) /\ s[i + 1] = "ScaleOut"
    BY <1>1, <1>2
  <2>2. PICK j \in 1..Len(s) : j > i + 1 /\ s[j] = "StopOut"
    BY <2>1 DEF StopFollows
  <2>3. j - 1 \in 1..Len(Tail(s)) /\ j - 1 > i /\ Tail(s)[j - 1] = "StopOut"
    BY <1>1, <2>2
  <2>. QED
    BY <2>3
<1>3. ASSUME Head(s) = "ScaleOut" PROVE Has(Tail(s), "StopOut")
  <2>1. PICK j \in 1..Len(s) : j > 1 /\ s[j] = "StopOut"
    BY <1>1, <1>3 DEF StopFollows
  <2>2. j - 1 \in 1..Len(Tail(s)) /\ Tail(s)[j - 1] = "StopOut"
    BY <1>1, <2>1
  <2>. QED
    BY <2>2 DEF Has
<1>. QED
  BY <1>2, <1>3 DEF StopFollows

-----------------------------------------------------------------------------
(* Types.                                                                  *)

LEMMA ProgramTyped ==
    ASSUME program \in Programs
    PROVE  /\ program \in Program
           /\ program.loop.buffer <= program.entry.leastRisk
           /\ Held(program) \in StepSeqs
           /\ Idle(program) \in StepSeqs
<1>1. program \in Program /\ program.loop.buffer <= program.entry.leastRisk
  BY TradeLoopAssumption
<1>2. /\ program.loop.opening \in Seq(Steps) /\ program.loop.holding \in Seq(Steps)
      /\ program.entry.idle \in Seq(Steps)
  BY <1>1 DEF Program, Loop, Entry, StepSeqs
<1>. QED
  BY <1>1, <1>2, ConcatProperties DEF StepSeqs, Held, Idle

LEMMA RunTyped ==
    ASSUME TypeOK, NEW step, Run(step)
    PROVE  /\ todo' \in StepSeqs /\ program' \in Programs /\ bar' = bar
           /\ bar' \in [from : Int, worst : Int, best : Int, close : Int]
           /\ bar'.worst <= bar'.close /\ bar'.close <= bar'.best
           /\ program' = program
  BY HeadIsThere DEF TypeOK, Run

LEMMA DistanceTyped ==
    ASSUME NEW p \in Int
    PROVE  /\ Distance(p) \in Nat /\ (p < 0 => Distance(p) = -p)
  BY DEF Distance

LEMMA LargerTyped ==
    ASSUME NEW a \in Int, NEW b \in Int
    PROVE  /\ Larger(a, b) \in Int /\ Larger(a, b) >= a /\ Larger(a, b) >= b
           /\ Larger(a, b) \in {a, b}
  BY DEF Larger

LEMMA SetupsTyped == {IDLE, AWAITING_LTF_ENTRY, POSITION_ACTIVE} \subseteq IDLE..POSITION_ACTIVE
  BY DEF IDLE, AWAITING_LTF_ENTRY, POSITION_ACTIVE

\* What an exit books.
LEMMA SellTyped ==
    ASSUME TypeOK, NEW halves \in 0..2, NEW price \in Int, Sell(halves, price)
    PROVE  /\ trade' \in Results /\ trades' \in Nat /\ book' \in Books
           /\ trade'.booked = trade.booked + halves * price - program.entry.fee
           /\ trade'.last = halves * price - program.entry.fee
           /\ program.counts = "exits" =>
                trade'.rows = IF halves = pos.units THEN trade.rows + 1 ELSE trade.rows
<1>1. program.entry.fee \in Nat
  BY ProgramTyped DEF TypeOK, Program, Entry
<1>2. halves * price \in Int
  OBVIOUS
<1>. DEFINE result == halves * price - program.entry.fee
            rows == IF halves = pos.units \/ program.counts = "rows"
                    THEN trade.rows + 1 ELSE trade.rows
<1>3. result \in Int /\ rows \in Nat
  BY <1>1, <1>2 DEF TypeOK, Results
<1>4. /\ trade' = [trade EXCEPT !.booked = trade.booked + result, !.last = result,
                                !.rows = rows]
      /\ book' = [book EXCEPT !.capital = @ + result]
      /\ trades' = trades
  BY DEF Sell
<1>. HIDE DEF result, rows
<1>5. trade' = [booked |-> trade.booked + result, last |-> result, rows |-> rows,
                ahead |-> trade.ahead]
  BY <1>4 DEF TypeOK, Results
<1>6. trade' \in Results /\ trade'.booked = trade.booked + result
      /\ trade'.last = result /\ trade'.rows = rows
  BY <1>3, <1>5 DEF TypeOK, Results
<1>7. book' \in Books /\ trades' \in Nat
  BY <1>3, <1>4 DEF TypeOK, Books
<1>8. trade.booked \in Int
  BY DEF TypeOK, Results
<1>. QED
  BY <1>1, <1>2, <1>6, <1>7, <1>8 DEF result, rows

LEMMA CloseTyped ==
    ASSUME TypeOK, NEW price \in Int, Close(price)
    PROVE  /\ trade' \in Results /\ trades' \in Nat /\ book' \in Books
           /\ pos' = Flat /\ pos' \in Positions /\ ~Open'
           /\ setup' \in Setups
           /\ trade'.booked = trade.booked + pos.units * price - program.entry.fee
           /\ trade'.last = pos.units * price - program.entry.fee
           /\ program.counts = "exits" => trade'.rows = trade.rows + 1
<1>1. pos.units \in 0..2
  BY DEF TypeOK, Positions
<1>2. setup' = [phase |-> IDLE, trending |-> setup.trending, waited |-> 0]
  BY DEF TypeOK, Setups, Close
<1>3. setup' \in Setups
  BY <1>2 DEF TypeOK, Setups, Patience, IDLE, POSITION_ACTIVE
<1>. QED
  BY <1>1, <1>3, SellTyped DEF Close, Flat, Positions, Open

LEMMA InitTyped == Init => TypeOK
<1>. SUFFICES ASSUME Init PROVE TypeOK
  OBVIOUS
<1>1. << >> \in StepSeqs
  BY DEF StepSeqs
<1>. QED
  BY <1>1, SetupsTyped DEF Init, TypeOK, Still, Flat, Positions, Open, Results, Books,
                           Setups, Patience

LEMMA NextBarTyped ==
    ASSUME TypeOK, NextBar
    PROVE  TypeOK'
<1>1. todo' \in StepSeqs
  BY ProgramTyped DEF NextBar, TypeOK
<1>2. /\ bar' \in [from : Int, worst : Int, best : Int, close : Int]
      /\ bar'.worst <= bar'.close /\ bar'.close <= bar'.best
  <2>1. CASE Open
    BY <2>1, TradeLoopAssumption DEF NextBar, Bars, TypeOK
  <2>2. CASE ~Open
    BY <2>2 DEF NextBar, Still
  <2>. QED
    BY <2>1, <2>2
<1>3. setup' \in Setups
  <2>1. setup.waited < Patience => setup.waited + 1 \in 0..Patience
    BY DEF TypeOK, Setups, Patience
  <2>. QED
    BY <2>1 DEF NextBar, TypeOK, Setups
<1>. QED
  BY <1>1, <1>2, <1>3 DEF NextBar, TypeOK, Open

LEMMA ExitsTyped ==
    ASSUME TypeOK, ScaleOut \/ StopOut \/ TakeProfit \/ TrailOut \/ RaiseStop \/ Untouched
    PROVE  TypeOK'
<1>1. pos.stop \in Int /\ pos.target \in Int /\ pos.risk \in Nat
  BY DEF TypeOK, Positions
<1>2. -pos.risk \in Int /\ StopPrice \in Int
  BY <1>1 DEF StopPrice
<1>3. CASE ScaleOut
  <2>1. program.loop.buffer \in Nat /\ pos.units = 2 /\ ScaleAt \in Int
    BY <1>1, <1>3, ProgramTyped DEF TypeOK, Program, Loop, ScaleOut, Touched, ScaleAt
  <2>2. BreakEven \in Int
    BY <1>1, <2>1 DEF BreakEven, Larger
  <2>3. pos' = [units |-> 1, stop |-> BreakEven, target |-> pos.target, risk |-> pos.risk]
    BY <1>3 DEF ScaleOut, TypeOK, Positions
  <2>4. pos' \in Positions /\ pos'.risk = pos.risk
    BY <2>2, <2>3 DEF TypeOK, Positions
  <2>5. Open
    BY <2>1 DEF Open
  <2>. QED
    BY <1>3, <2>1, <2>4, <2>5, SellTyped, RunTyped DEF ScaleOut, TypeOK
<1>4. ASSUME NEW price \in Int, NEW step, Run(step), Close(price) PROVE TypeOK'
  BY <1>4, CloseTyped, RunTyped DEF TypeOK
<1>5. CASE StopOut
  BY <1>2, <1>4, <1>5 DEF StopOut
<1>6. CASE TakeProfit
  BY <1>1, <1>4, <1>6 DEF TakeProfit
<1>7. CASE TrailOut
  <2>1. PICK average \in Prices : Close(Larger(-pos.risk, average))
    BY <1>7 DEF TrailOut
  <2>2. Larger(-pos.risk, average) \in Int
    BY <1>2, LargerTyped, TradeLoopAssumption
  <2>. QED
    BY <1>4, <1>7, <2>1, <2>2 DEF TrailOut
<1>8. CASE RaiseStop
  <2>1. PICK swing \in Prices : pos' = [pos EXCEPT !.stop = swing]
    BY <1>8 DEF RaiseStop
  <2>2. pos' \in Positions /\ pos'.risk = pos.risk /\ pos'.units = pos.units
    BY <2>1, TradeLoopAssumption DEF TypeOK, Positions
  <2>. QED
    BY <1>8, <2>2, RunTyped DEF RaiseStop, TypeOK, Open
<1>9. CASE Untouched
  BY <1>9, RunTyped DEF Untouched, TypeOK, Open
<1>. QED
  BY <1>3, <1>5, <1>6, <1>7, <1>8, <1>9

\* What an entry of a program is.
LEMMA EnterTyped ==
    ASSUME TypeOK, Enter
    PROVE  /\ pos' \in Positions /\ Open' /\ pos'.units = 2
           /\ pos'.risk > 0 /\ pos'.risk >= program.entry.leastRisk
           /\ program.entry.stopChecked => pos'.stop = -pos'.risk
           /\ program.entry.targetChecked => pos'.target > 0 /\ pos'.target >= pos'.risk
           /\ pos'.stop >= -pos'.risk
<1>1. PICK stop \in Stops, target \in Targets :
        /\ Acceptable(program.entry, stop, target)
        /\ pos' = [units |-> 2, stop |-> stop, target |-> target, risk |-> Distance(stop)]
  BY DEF Enter
<1>2. stop \in Int /\ target \in Int
  BY TradeLoopAssumption
<1>3. /\ program.entry.stopChecked => stop < 0
      /\ program.entry.targetChecked => target > 0
      /\ Distance(stop) > 0 /\ Distance(stop) >= program.entry.leastRisk
      /\ 10 * Distance(target) >= program.entry.floor * Distance(stop)
  BY <1>1 DEF Acceptable
<1>4. -Distance(stop) <= stop
  BY <1>2 DEF Distance
<1>5. ASSUME program.entry.targetChecked
      PROVE  target >= Distance(stop)
  <2>1. program.entry.floor \in Nat /\ program.entry.floor >= 10
    BY <1>5, TradeLoopAssumption, ProgramTyped DEF TypeOK, Program, Entry
  <2>2. Distance(stop) \in Nat
    BY <1>2, DistanceTyped
  <2>3. Distance(target) = target
    BY <1>2, <1>3, <1>5 DEF Distance
  <2>4. (program.entry.floor - 10) * Distance(stop) >= 0
    BY <2>1, <2>2
  <2>5. program.entry.floor * Distance(stop) >= 10 * Distance(stop)
    BY <2>1, <2>2, <2>4
  <2>6. 10 * target >= 10 * Distance(stop)
    <3>1. program.entry.floor * Distance(stop) \in Int
      BY <2>1, <2>2
    <3>. QED
      BY <1>2, <1>3, <2>2, <2>3, <2>5, <3>1
  <2>. QED
    BY <1>2, <2>2, <2>6
<1>. QED
  BY <1>1, <1>2, <1>3, <1>4, <1>5, DistanceTyped DEF Positions, Open

LEMMA AheadTyped ==
    ASSUME NEW frames \in Frames, NEW n \in 0..(Ratio - 1)
    PROVE  Ahead(frames, n) \in Nat
<1>1. /\ Ratio \in Nat \ {0} /\ n \in Int
      /\ frames.shift \in Nat /\ frames.pivot \in Nat /\ frames.lag \in Nat
  BY TradeLoopAssumption DEF Frames
<1>2. LastRow(frames, n) \in Int
  BY <1>1 DEF LastRow
<1>. DEFINE row == LastRow(frames, n) - frames.shift + frames.pivot - frames.lag
<1>3. row \in Int
  BY <1>1, <1>2
<1>. HIDE DEF row
<1>4. (row + 1) * Ratio - (n + 1) \in Int
  BY <1>1, <1>3
<1>5. Larger(0, (row + 1) * Ratio - (n + 1)) \in Nat
  BY <1>4 DEF Larger
<1>. QED
  BY <1>5 DEF Ahead, row

LEMMA EntryStepTyped ==
    ASSUME TypeOK, Enter
    PROVE  TypeOK'
<1>1. program \in Program /\ program.frames \in Frames /\ program.entry.fee \in Nat
  BY ProgramTyped DEF TypeOK, Program, Entry
<1>2. PICK n \in 0..(Ratio - 1) :
        trade' = [booked |-> 0, last |-> 0, rows |-> 0, ahead |-> Ahead(program.frames, n)]
  BY DEF Enter
<1>3. trade' \in Results
  BY <1>1, <1>2, AheadTyped DEF Results
<1>4. book' = [book EXCEPT !.capital = @ - program.entry.fee]
  BY DEF Enter
<1>5. book' \in Books
  BY <1>1, <1>4 DEF TypeOK, Books
<1>6. setup' \in Setups
  BY SetupsTyped DEF Enter, TypeOK, Setups
<1>7. trades' \in Nat
  BY DEF Enter, TypeOK
<1>. QED
  BY <1>3, <1>5, <1>6, <1>7, EnterTyped, RunTyped DEF Enter, TypeOK, Open

LEMMA OtherStepsTyped ==
    ASSUME TypeOK, Filter \/ Measure \/ NoEntry \/ Advance \/ Reset
    PROVE  TypeOK'
<1>1. CASE Filter
  <2>1. todo' \in StepSeqs
    <3>1. << >> \in StepSeqs
      BY DEF StepSeqs
    <3>. QED
      BY <1>1, <3>1, HeadIsThere DEF Filter, TypeOK
  <2>. QED
    BY <1>1, <2>1 DEF Filter, TypeOK, Open
<1>2. CASE Measure
  <2>1. /\ book.capital \in Int /\ book.peak \in Int /\ book.drawdown \in Nat
    BY DEF TypeOK, Books
  <2>. DEFINE top == Larger(book.peak, book.capital)
              deep == Larger(book.drawdown, top - book.capital)
  <2>2. top \in Int /\ deep \in Nat
    BY <2>1 DEF Larger
  <2>3. book' = [book EXCEPT !.peak = top, !.drawdown = deep]
    BY <1>2 DEF Measure, Measured
  <2>. HIDE DEF top, deep
  <2>4. book' = [capital |-> book.capital, peak |-> top, drawdown |-> deep]
    BY <2>3 DEF TypeOK, Books
  <2>5. book' \in Books
    BY <2>1, <2>2, <2>4 DEF Books
  <2>. QED
    BY <1>2, <2>5, RunTyped DEF Measure, TypeOK, Open
<1>3. CASE NoEntry
  BY <1>3, RunTyped DEF NoEntry, TypeOK, Open
<1>4. CASE Advance
  <2>1. PICK trending \in {TRUE, setup.trending /\ program.entry.setup = "forward"},
             phase \in {setup.phase, setup.phase + 1} :
          /\ phase > setup.phase => setup.phase < AWAITING_LTF_ENTRY
          /\ setup' = [setup EXCEPT !.phase = phase, !.trending = trending]
    BY <1>4 DEF Advance
  <2>2. trending \in BOOLEAN
    BY <2>1
  <2>3. setup.phase \in 1..7
    BY DEF TypeOK, Setups, IDLE, POSITION_ACTIVE
  <2>4. phase \in 1..7
    BY <2>1, <2>3 DEF AWAITING_LTF_ENTRY
  <2>5. setup' = [phase |-> phase, trending |-> trending, waited |-> setup.waited]
    BY <2>1 DEF TypeOK, Setups
  <2>6. setup' \in Setups
    BY <2>2, <2>4, <2>5 DEF TypeOK, Setups, IDLE, POSITION_ACTIVE
  <2>. QED
    BY <1>4, <2>6, RunTyped DEF Advance, TypeOK, Open
<1>5. CASE Reset
  <2>1. setup' \in Setups
    BY <1>5, SetupsTyped DEF Reset, TypeOK, Setups
  <2>. QED
    BY <1>5, <2>1, RunTyped DEF Reset, TypeOK, Open
<1>. QED
  BY <1>1, <1>2, <1>3, <1>4, <1>5

LEMMA StepTyped == TypeOK /\ [Next]_vars => TypeOK'
<1>. SUFFICES ASSUME TypeOK, [Next]_vars PROVE TypeOK'
  OBVIOUS
<1>1. CASE UNCHANGED vars
  BY <1>1 DEF vars, TypeOK, Open
<1>. QED
  BY <1>1, NextBarTyped, ExitsTyped, EntryStepTyped, OtherStepsTyped DEF Next

\* The variables have their types.
THEOREM TypeCorrect == Spec => []TypeOK
  BY InitTyped, StepTyped, PTL DEF Spec

-----------------------------------------------------------------------------
(* Managed programs.  The steps left of a bar still contain what has to     *)
(* follow, and an exit that is not among them has been compared.            *)

ScalesAtAll == Has(Held(program), "ScaleOut")

StepsInOrder ==
    Managed(program) =>
        /\ StopFollows(todo) /\ ~Due("RaiseStop")
        /\ Due("Filter") \/ Due("Enter") => \A step \in Exits : ~Due(step)
        /\ Due("Enter") => bar = Still
        /\ program.loop.multiples => ~Due("ScaleOut")
        /\ Due("ScaleOut") => ScalesAtAll

Guarded ==
    Managed(program) /\ Open =>
        /\ pos.stop < Highest /\ Lowest < pos.target
        /\ ~Due("StopOut") => pos.stop < bar.worst
        /\ ~Due("TakeProfit") => bar.best < pos.target
        /\ pos.units = 2 /\ ScalesAtAll =>
              /\ Lowest < ScaleAt
              /\ ~Due("ScaleOut") => bar.best < ScaleAt
        /\ program.loop.multiples => pos.stop = -pos.risk
        /\ pos.risk >= program.entry.leastRisk

IInv == TypeOK /\ StepsInOrder /\ Guarded

LEMMA RunDue ==
    ASSUME TypeOK, NEW step, Run(step)
    PROVE  /\ \A other : Has(todo', other) => Due(other)
           /\ \A other : Due(other) /\ other # step => Has(todo', other)
           /\ Due(step)
           /\ StopFollows(todo) => /\ StopFollows(todo')
                                   /\ step = "ScaleOut" => Has(todo', "StopOut")
<1>1. todo \in StepSeqs /\ todo # << >> /\ Head(todo) = step /\ todo' = Tail(todo)
  BY DEF TypeOK, Run
<1>. QED
  BY <1>1, HeadIsThere, TailHas, TailStopFollows DEF Due

LEMMA RunKeepsOrder ==
    ASSUME TypeOK, StepsInOrder, NEW step, Run(step)
    PROVE  StepsInOrder'
<1>1. program' = program /\ bar' = bar
  BY DEF Run
<1>. QED
  BY <1>1, RunDue DEF StepsInOrder, Due, ScalesAtAll

LEMMA FilterKeepsOrder ==
    ASSUME TypeOK, StepsInOrder, Filter
    PROVE  StepsInOrder'
<1>1. program' = program /\ bar' = bar /\ todo \in StepSeqs /\ todo # << >>
  BY DEF Filter, TypeOK
<1>2. CASE todo' = << >>
  <2>1. \A step : ~Has(todo', step)
    BY <1>2, EmptyHasNothing
  <2>2. StopFollows(todo')
    BY <1>2 DEF StopFollows
  <2>. QED
    BY <1>1, <2>1, <2>2 DEF StepsInOrder, Due, ScalesAtAll
<1>3. CASE todo' = Tail(todo)
  <2>1. \A step : Has(todo', step) => Due(step)
    BY <1>1, <1>3, TailHas DEF Due
  <2>2. StopFollows(todo) => StopFollows(todo')
    BY <1>1, <1>3, TailStopFollows
  <2>. QED
    BY <1>1, <2>1, <2>2 DEF StepsInOrder, Due, ScalesAtAll
<1>. QED
  BY <1>2, <1>3 DEF Filter

LEMMA NextBarKeepsOrder ==
    ASSUME TypeOK, NextBar
    PROVE  StepsInOrder'
<1>. SUFFICES ASSUME Managed(program) PROVE StepsInOrder'
  BY DEF NextBar, StepsInOrder
<1>1. program' = program
  BY DEF NextBar
<1>2. CASE Open
  <2>1. todo' = Held(program)
    BY <1>2 DEF NextBar
  <2>. QED
    BY <1>1, <2>1 DEF StepsInOrder, Managed, Due, ScalesAtAll
<1>3. CASE ~Open
  <2>1. todo' = Idle(program) /\ bar' = Still
    BY <1>3 DEF NextBar
  <2>2. \A step \in Exits : ~Has(todo', step)
    BY <2>1 DEF Managed
  <2>3. StopFollows(todo') /\ ~Has(todo', "RaiseStop") /\ ~Has(todo', "ScaleOut")
    BY <2>2 DEF StopFollows, Has, Exits
  <2>4. Still' = Still
    BY DEF Still
  <2>. QED
    BY <1>1, <2>1, <2>2, <2>3, <2>4 DEF StepsInOrder, Due, ScalesAtAll
<1>. QED
  BY <1>2, <1>3

LEMMA StepKeepsOrder ==
    ASSUME TypeOK, StepsInOrder, [Next]_vars
    PROVE  StepsInOrder'
<1>1. CASE UNCHANGED vars
  BY <1>1 DEF vars, StepsInOrder, Due, Still, ScalesAtAll
<1>2. ASSUME NEW step, Run(step) PROVE StepsInOrder'
  BY <1>2, RunKeepsOrder
<1>3. CASE Measure \/ ScaleOut \/ StopOut \/ TakeProfit \/ TrailOut \/ RaiseStop \/ Untouched
             \/ Enter \/ NoEntry \/ Advance \/ Reset
  BY <1>2, <1>3 DEF Measure, ScaleOut, StopOut, TakeProfit, TrailOut, RaiseStop, Untouched,
                    Enter, NoEntry, Advance, Reset
<1>. QED
  BY <1>1, <1>3, FilterKeepsOrder, NextBarKeepsOrder DEF Next

\* Numbers a position consists of.
LEMMA PosTyped ==
    ASSUME TypeOK
    PROVE  /\ pos.stop \in Int /\ pos.target \in Int /\ pos.risk \in Nat
           /\ pos.units \in 0..2 /\ (Open => pos.risk > 0)
           /\ bar.from \in Int /\ bar.worst \in Int /\ bar.best \in Int /\ bar.close \in Int
           /\ bar.worst <= bar.close /\ bar.close <= bar.best
           /\ program.entry.leastRisk \in Nat /\ program.loop.buffer \in Nat
           /\ program.loop.buffer <= program.entry.leastRisk
  BY ProgramTyped DEF TypeOK, Positions, Program, Entry, Loop

\* Between bars all the exits have been compared.
LEMMA BetweenBars ==
    ASSUME IInv, Managed(program), Open, todo = << >>
    PROVE  /\ pos.stop < bar.close /\ bar.close < pos.target
           /\ pos.units = 2 /\ ScalesAtAll => bar.close < ScaleAt
<1>1. /\ pos.stop < bar.worst /\ bar.best < pos.target
      /\ pos.units = 2 /\ ScalesAtAll => bar.best < ScaleAt
  BY EmptyHasNothing DEF IInv, Guarded, Due
<1>2. ScaleAt \in Int
  BY PosTyped DEF IInv, ScaleAt
<1>. QED
  BY <1>1, <1>2, PosTyped DEF IInv

\* What the market passed holds the bar and the close before it.
LEMMA Passes ==
    ASSUME TypeOK
    PROVE  /\ Lowest \in Int /\ Highest \in Int
           /\ Lowest <= bar.from /\ bar.from <= Highest
           /\ Lowest <= bar.worst /\ bar.best <= Highest
  BY PosTyped DEF Lowest, Highest, Larger

LEMMA NextBarKeepsGuard ==
    ASSUME IInv, NextBar
    PROVE  Guarded'
<1>. SUFFICES ASSUME Managed(program), Open PROVE Guarded'
  BY DEF NextBar, Guarded, Open
<1>1. /\ bar' \in Bars(bar.close)
      /\ todo' = Held(program)
      /\ program' = program /\ pos' = pos /\ todo = << >>
  BY DEF NextBar
<1>2. /\ bar'.from = bar.close /\ bar.close \in Int
      /\ bar'.worst \in Int /\ bar'.best \in Int
  BY <1>1, PosTyped, TradeLoopAssumption DEF Bars, IInv
<1>3. /\ Has(todo', "StopOut") /\ Has(todo', "TakeProfit")
      /\ ScalesAtAll => Has(todo', "ScaleOut")
  BY <1>1 DEF Managed, ScalesAtAll
<1>4. ScaleAt \in Int
  BY PosTyped DEF IInv, ScaleAt
<1>5. /\ Lowest' \in Int /\ Lowest' <= bar.close
      /\ Highest' \in Int /\ bar.close <= Highest'
  BY <1>2 DEF Lowest, Highest, Larger
<1>6. /\ pos.stop < Highest' /\ Lowest' < pos.target
      /\ pos.units = 2 /\ ScalesAtAll => Lowest' < ScaleAt
  BY <1>1, <1>4, <1>5, BetweenBars, PosTyped DEF IInv
<1>. QED
  BY <1>1, <1>3, <1>6 DEF IInv, Guarded, Due, Open, ScaleAt, ScalesAtAll

LEMMA ScaleOutKeepsGuard ==
    ASSUME IInv, ScaleOut
    PROVE  Guarded'
<1>. SUFFICES ASSUME Managed(program) PROVE Guarded'
  BY DEF ScaleOut, Run, Guarded
<1>1. /\ program' = program /\ bar' = bar
      /\ pos.units = 2 /\ bar.best >= ScaleAt
      /\ pos' = [pos EXCEPT !.units = 1, !.stop = BreakEven]
  BY DEF ScaleOut, Run, Touched
<1>2. pos' = [units |-> 1, stop |-> BreakEven, target |-> pos.target, risk |-> pos.risk]
  BY <1>1 DEF IInv, TypeOK, Positions
<1>3. /\ Due("ScaleOut") /\ Has(todo', "StopOut")
      /\ Has(todo', "TakeProfit") <=> Due("TakeProfit")
  BY RunDue DEF ScaleOut, IInv, StepsInOrder
<1>4. ~program.loop.multiples
  BY <1>3 DEF IInv, StepsInOrder
<1>5. /\ Open /\ pos.risk \in Nat /\ pos.risk > 0 /\ pos.risk >= program.entry.leastRisk
      /\ pos.stop < Highest /\ Lowest < pos.target
      /\ ~Due("TakeProfit") => bar.best < pos.target
  BY <1>1, PosTyped DEF IInv, Guarded, Open
<1>6. BreakEven < Highest
  <2>1. bar.best >= 2 * pos.risk /\ bar.best \in Int
    BY <1>1, PosTyped DEF IInv, ScaleAt
  <2>2. /\ program.loop.buffer \in Nat /\ program.entry.leastRisk \in Nat
        /\ program.loop.buffer <= program.entry.leastRisk /\ pos.stop \in Int
    BY PosTyped DEF IInv
  <2>3. program.loop.buffer < Highest /\ 0 < Highest
    BY <1>5, <2>1, <2>2, Passes DEF IInv
  <2>. QED
    BY <1>5, <2>2, <2>3 DEF BreakEven, Larger
<1>7. /\ pos'.units = 1 /\ pos'.stop = BreakEven /\ pos'.target = pos.target
      /\ pos'.risk = pos.risk
  BY <1>2
<1>8. Lowest' = Lowest /\ Highest' = Highest
  BY <1>1 DEF Lowest, Highest, Larger
<1>. QED
  BY <1>1, <1>3, <1>4, <1>5, <1>6, <1>7, <1>8 DEF Guarded, Due

LEMMA UntouchedKeepsGuard ==
    ASSUME IInv, Untouched
    PROVE  Guarded'
<1>. SUFFICES ASSUME Managed(program), Open PROVE Guarded'
  BY DEF Untouched, Run, Guarded, Open
<1>1. PICK step \in Exits :
        /\ Run(step)
        /\ step \in {"TrailOut", "RaiseStop"} \/ ~Touched(step)
        /\ pos' = pos
  BY DEF Untouched
<1>2. /\ program' = program /\ bar' = bar
      /\ Lowest' = Lowest /\ Highest' = Highest
  BY <1>1 DEF Run, Lowest, Highest, Larger
<1>3. /\ step = "StopOut" => ~(bar.worst <= pos.stop)
      /\ step = "TakeProfit" => ~(bar.best >= pos.target)
      /\ step = "ScaleOut" /\ pos.units = 2 => ~(bar.best >= ScaleAt)
  BY <1>1 DEF Touched
<1>4. ScaleAt \in Int
  BY PosTyped DEF IInv, ScaleAt
<1>5. /\ step = "StopOut" => pos.stop < bar.worst
      /\ step = "TakeProfit" => bar.best < pos.target
      /\ step = "ScaleOut" /\ pos.units = 2 => bar.best < ScaleAt
  BY <1>3, <1>4, PosTyped DEF IInv
<1>6. \A other : other # step /\ Due(other) => Has(todo', other)
  BY <1>1, RunDue DEF IInv
<1>. QED
  BY <1>1, <1>2, <1>5, <1>6 DEF IInv, Guarded, Due, Open, ScaleAt, ScalesAtAll

LEMMA EnterKeepsGuard ==
    ASSUME IInv, Enter
    PROVE  Guarded'
<1>. SUFFICES ASSUME Managed(program) PROVE Guarded'
  BY DEF Enter, Run, Guarded
<1>1. program' = program /\ bar' = bar /\ Due("Enter")
  BY RunDue DEF Enter, Run, IInv
<1>2. bar = Still
  BY <1>1 DEF IInv, StepsInOrder
<1>3. program.entry.stopChecked /\ program.entry.targetChecked
  BY DEF Managed
<1>4. /\ pos' \in Positions /\ pos'.risk > 0 /\ pos'.risk >= program.entry.leastRisk
      /\ pos'.stop = -pos'.risk /\ pos'.target > 0
  BY <1>3, EnterTyped DEF IInv
<1>5. pos'.risk \in Nat /\ 2 * pos'.risk > 0 /\ pos'.stop < 0
  BY <1>4 DEF Positions
<1>6. Lowest' = 0 /\ Highest' = 0
  BY <1>1, <1>2 DEF Lowest, Highest, Larger, Still
<1>. QED
  BY <1>1, <1>2, <1>4, <1>5, <1>6 DEF Guarded, Due, Open, ScaleAt, ScalesAtAll, Still

LEMMA OthersKeepGuard ==
    ASSUME IInv, Filter \/ Measure \/ NoEntry \/ Advance \/ Reset
    PROVE  Guarded'
<1>. SUFFICES ASSUME Managed(program) PROVE Guarded'
  BY DEF Filter, Measure, NoEntry, Advance, Reset, Run, Guarded
<1>1. /\ program' = program /\ bar' = bar /\ pos' = pos
      /\ Lowest' = Lowest /\ Highest' = Highest
  BY DEF Filter, Measure, NoEntry, Advance, Reset, Run, Lowest, Highest, Larger
<1>2. \A exit \in Exits : Due(exit) => Has(todo', exit)
  <2>1. CASE Filter
    <3>1. Due("Filter")
      BY <2>1, HeadIsThere DEF Filter, IInv, TypeOK, Due
    <3>. QED
      BY <3>1 DEF IInv, StepsInOrder
  <2>2. ASSUME NEW step \in {"Measure", "Enter", "Advance", "Reset"}, Run(step)
        PROVE  \A exit \in Exits : Due(exit) => Has(todo', exit)
    BY <2>2, RunDue DEF IInv, Exits
  <2>. QED
    BY <2>1, <2>2 DEF Measure, NoEntry, Advance, Reset
<1>. QED
  BY <1>1, <1>2 DEF IInv, Guarded, Due, Open, ScaleAt, ScalesAtAll, Exits

LEMMA StepKeepsInv == IInv /\ [Next]_vars => IInv'
<1>. SUFFICES ASSUME IInv, [Next]_vars PROVE Guarded'
  BY StepTyped, StepKeepsOrder DEF IInv
<1>1. CASE UNCHANGED vars
  BY <1>1 DEF vars, IInv, Guarded, Due, Open, ScaleAt, ScalesAtAll, Lowest, Highest, Larger
<1>2. ASSUME NEW price, Close(price) PROVE Guarded'
  BY <1>2 DEF Close, Flat, Guarded, Open
<1>3. CASE StopOut \/ TakeProfit \/ TrailOut
  BY <1>2, <1>3 DEF StopOut, TakeProfit, TrailOut
<1>4. CASE RaiseStop
  <2>1. Due("RaiseStop") /\ program' = program
    BY <1>4, RunDue DEF RaiseStop, Run, IInv
  <2>. QED
    BY <2>1 DEF IInv, StepsInOrder, Guarded
<1>. QED
  BY <1>1, <1>3, <1>4, NextBarKeepsGuard, ScaleOutKeepsGuard, UntouchedKeepsGuard,
     EnterKeepsGuard, OthersKeepGuard DEF Next

LEMMA InitInv == Init => IInv
<1>. SUFFICES ASSUME Init PROVE StepsInOrder /\ Guarded
  BY InitTyped DEF IInv
<1>1. todo = << >> /\ ~Open
  BY DEF Init, Flat, Open
<1>. QED
  BY <1>1, EmptyHasNothing DEF StepsInOrder, Guarded, Due, StopFollows

\* A position that outlives a bar of a managed backtest has the market between its
\* stop and its target, for any such program and any market, with gaps or without.
THEOREM ExitsAreHonoured == Spec => []Bracketed
<1>1. IInv => Bracketed
  <2>. SUFFICES ASSUME IInv, Managed(program), Open, todo = << >>
                PROVE  pos.stop < bar.close /\ bar.close < pos.target
    BY DEF Bracketed
  <2>. QED
    BY BetweenBars
<1>. QED
  BY <1>1, InitInv, StepKeepsInv, PTL DEF Spec

-----------------------------------------------------------------------------
(* Fills.                                                                  *)

Passed ==
    Managed(program) /\ Sold > 0 /\ Head(todo) # "TrailOut"
        => \E price \in Lowest..Highest :
             trade'.booked = trade.booked + Sold * price - program.entry.fee

\* A whole position sold at a price the market passed.
LEMMA ClosePassed ==
    ASSUME IInv, Open, NEW price \in Int, Close(price),
           Lowest <= price, price <= Highest
    PROVE  Passed
<1>1. /\ trade'.booked = trade.booked + pos.units * price - program.entry.fee
      /\ pos' = Flat
  BY CloseTyped DEF IInv
<1>2. Sold = pos.units
  BY <1>1, PosTyped DEF IInv, Sold, Flat
<1>3. price \in Lowest..Highest
  BY Passes DEF IInv
<1>. QED
  BY <1>1, <1>2, <1>3 DEF Passed

LEMMA StepPassed == IInv /\ [Next]_vars => [Passed]_vars
<1>. SUFFICES ASSUME IInv, Next, Managed(program), Sold > 0, Head(todo) # "TrailOut"
              PROVE  Passed
  BY DEF Passed
<1>. USE DEF Exits
<1>1. CASE StopOut
  <2>1. Open /\ bar.worst <= pos.stop /\ Close(StopPrice)
    BY <1>1 DEF StopOut, Touched
  <2>2. StopPrice = pos.stop /\ pos.stop < Highest
    BY <2>1 DEF IInv, Guarded, StopPrice
  <2>3. pos.stop \in Int /\ Lowest <= pos.stop /\ pos.stop <= Highest
    BY <2>1, <2>2, PosTyped, Passes DEF IInv
  <2>. QED
    BY <2>1, <2>2, <2>3, ClosePassed
<1>2. CASE TakeProfit
  <2>1. Open /\ bar.best >= pos.target /\ Close(pos.target)
    BY <1>2 DEF TakeProfit, Touched
  <2>2. Lowest < pos.target
    BY <2>1 DEF IInv, Guarded
  <2>3. pos.target \in Int /\ Lowest <= pos.target /\ pos.target <= Highest
    BY <2>1, <2>2, PosTyped, Passes DEF IInv
  <2>. QED
    BY <2>1, <2>3, ClosePassed
<1>3. CASE ScaleOut
  <2>1. /\ pos.units = 2 /\ bar.best >= ScaleAt /\ Sell(1, ScaleAt)
        /\ pos' = [pos EXCEPT !.units = 1, !.stop = BreakEven]
    BY <1>3 DEF ScaleOut, Touched
  <2>2. pos' = [units |-> 1, stop |-> BreakEven, target |-> pos.target, risk |-> pos.risk]
    BY <2>1 DEF IInv, TypeOK, Positions
  <2>3. Open /\ ScaleAt \in Int /\ bar.best \in Int
    BY <2>1, PosTyped DEF IInv, Open, ScaleAt
  <2>4. ScalesAtAll
    BY <1>3, RunDue DEF ScaleOut, IInv, StepsInOrder
  <2>5. Lowest < ScaleAt
    BY <2>1, <2>3, <2>4 DEF IInv, Guarded
  <2>6. ScaleAt \in Lowest..Highest /\ Sold = 1
    BY <2>1, <2>2, <2>3, <2>5, Passes DEF Sold, IInv
  <2>7. trade'.booked = trade.booked + 1 * ScaleAt - program.entry.fee
    BY <2>1, <2>3, SellTyped DEF IInv
  <2>. QED
    BY <2>6, <2>7 DEF Passed
<1>4. CASE TrailOut
  BY <1>4 DEF TrailOut, Run
<1>5. CASE NextBar \/ Filter \/ Measure \/ Untouched \/ NoEntry \/ Advance \/ Reset
  <2>1. pos' = pos
    BY <1>5 DEF NextBar, Filter, Measure, Untouched, NoEntry, Advance, Reset
  <2>. QED
    BY <2>1, PosTyped DEF IInv, Sold
<1>6. CASE RaiseStop
  <2>1. pos'.units = pos.units
    BY <1>6 DEF RaiseStop, IInv, TypeOK, Positions
  <2>. QED
    BY <2>1, PosTyped DEF IInv, Sold
<1>7. CASE Enter
  <2>1. pos.units = 0 /\ pos'.units = 2
    BY <1>7, EnterTyped, PosTyped DEF IInv, Enter, Open
  <2>. QED
    BY <2>1 DEF Sold
<1>. QED
  BY <1>1, <1>2, <1>3, <1>4, <1>5, <1>6, <1>7 DEF Next

\* What a managed backtest books the market passed in that bar, for any such program
\* and any prices, with gaps or without.
THEOREM FillsAreInReach == Spec => FillsArePassed
  BY InitInv, StepKeepsInv, StepPassed, PTL DEF Spec, FillsArePassed, Passed

-----------------------------------------------------------------------------
(* The result of a trade.  What is left of a bar keeps the exits apart from  *)
(* the entries, and a position knows what it has booked.                     *)

Placed ==
    \A step \in Exits : Due(step) =>
        Has(Held(program), step) /\ ~Due("Enter") /\ ~Due("Advance")

Staked ==
    Open =>
        /\ pos.stop >= -pos.risk /\ pos.risk >= program.entry.leastRisk
        /\ program.entry.targetChecked => pos.target >= pos.risk
        /\ pos.units = 2 =>
              /\ trade.booked = 0
              /\ program.entry.stopChecked /\ program.loop.buffer > 0 => pos.stop = -pos.risk
        /\ pos.units = 1 =>
              /\ trade.booked = 2 * pos.risk - program.entry.fee
              /\ ~program.loop.multiples /\ pos.stop >= program.loop.buffer
        /\ program.counts = "exits" => trade.rows = 0

Ledger == TypeOK /\ Placed /\ Staked /\ Reported

\* A run is of one backtest.
LEMMA ProgramStays ==
    ASSUME [Next]_vars
    PROVE  program' = program
  BY DEF Next, vars, NextBar, Filter, Measure, ScaleOut, StopOut, TakeProfit, TrailOut,
         RaiseStop, Untouched, Enter, NoEntry, Advance, Reset, Run

\* A step either begins a bar or leaves fewer steps of it.
LEMMA StepsShrink ==
    ASSUME TypeOK, [Next]_vars, ~NextBar
    PROVE  program' = program /\ \A step : Has(todo', step) => Due(step)
<1>1. CASE UNCHANGED vars
  BY <1>1 DEF vars, Due
<1>2. ASSUME NEW s, Run(s) PROVE program' = program /\ \A step : Has(todo', step) => Due(step)
  BY <1>2, RunDue DEF Run
<1>3. CASE Filter
  <2>1. program' = program /\ todo \in StepSeqs /\ todo # << >> /\ todo' \in {Tail(todo), << >>}
    BY <1>3 DEF Filter, TypeOK
  <2>. QED
    BY <2>1, TailHas, EmptyHasNothing DEF Due
<1>4. CASE Measure \/ ScaleOut \/ StopOut \/ TakeProfit \/ TrailOut \/ RaiseStop \/ Untouched
             \/ Enter \/ NoEntry \/ Advance \/ Reset
  BY <1>2, <1>4 DEF Measure, ScaleOut, StopOut, TakeProfit, TrailOut, RaiseStop, Untouched,
                    Enter, NoEntry, Advance, Reset
<1>. QED
  BY <1>1, <1>3, <1>4 DEF Next

LEMMA StepPlaces ==
    ASSUME TypeOK, Placed, [Next]_vars
    PROVE  Placed'
<1>1. CASE NextBar
  <2>1. program' = program /\ (todo' = Held(program) \/ todo' = Idle(program))
    BY <1>1 DEF NextBar
  <2>2. HoldsOrEnters(program)
    BY TradeLoopAssumption DEF TypeOK
  <2>. QED
    BY <2>1, <2>2 DEF Placed, Due, HoldsOrEnters
<1>2. CASE ~NextBar
  <2>1. program' = program /\ \A step : Has(todo', step) => Due(step)
    BY <1>2, StepsShrink
  <2>. QED
    BY <2>1 DEF Placed, Due
<1>. QED
  BY <1>1, <1>2

\* What a script's way of booking says of the step it is at.
LEMMA DueMeans ==
    ASSUME TypeOK, Placed
    PROVE  /\ Due("ScaleOut") => ~program.loop.multiples
           /\ Due("TrailOut") => program.loop.multiples
           /\ Due("RaiseStop") => ~(program.loop.buffer > 0)
<1>1. BooksOneWay(program)
  BY TradeLoopAssumption DEF TypeOK
<1>2. \A step \in Exits : Due(step) => Has(Held(program), step)
  BY DEF Placed
<1>. QED
  BY <1>1, <1>2 DEF BooksOneWay, Exits

\* Numbers a result consists of.
LEMMA FeesTyped ==
    ASSUME TypeOK
    PROVE  /\ program.entry.fee \in Nat /\ trade.booked \in Int /\ trade.last \in Int
           /\ trade.rows \in Nat
           /\ program.entry.targetChecked => program.entry.fee <= program.entry.leastRisk
  BY ProgramTyped, TradeLoopAssumption DEF TypeOK, Program, Entry, Results

\* Where an exit lies that closes a position: at worst one risk away, and not
\* below the buffer once half of the position has been sold.
LEMMA ExitPrice ==
    ASSUME Ledger, StopOut \/ TakeProfit \/ TrailOut, program.entry.targetChecked
    PROVE  \E price \in Int :
              /\ Open /\ Close(price)
              /\ price >= -pos.risk
              /\ pos.units = 1 => price >= program.loop.buffer
<1>1. /\ pos.stop \in Int /\ pos.target \in Int /\ pos.risk \in Nat /\ pos.units \in 0..2
      /\ program.entry.leastRisk \in Nat /\ program.loop.buffer \in Nat
      /\ program.loop.buffer <= program.entry.leastRisk
  BY PosTyped DEF Ledger
<1>2. Open
  BY DEF StopOut, TakeProfit, TrailOut, Touched
<1>3. /\ pos.stop >= -pos.risk /\ pos.risk >= program.entry.leastRisk
      /\ pos.target >= pos.risk
      /\ pos.units = 1 => ~program.loop.multiples /\ pos.stop >= program.loop.buffer
  BY <1>2 DEF Ledger, Staked
<1>4. CASE StopOut
  <2>1. Close(StopPrice)
    BY <1>4 DEF StopOut
  <2>2. StopPrice \in Int /\ StopPrice >= -pos.risk
        /\ (pos.units = 1 => StopPrice >= program.loop.buffer)
    BY <1>1, <1>3 DEF StopPrice
  <2>. QED
    BY <1>2, <2>1, <2>2
<1>5. CASE TakeProfit
  <2>1. Close(pos.target)
    BY <1>5 DEF TakeProfit
  <2>2. pos.target >= -pos.risk /\ pos.target >= program.loop.buffer
    BY <1>1, <1>3
  <2>. QED
    BY <1>1, <1>2, <2>1, <2>2
<1>6. CASE TrailOut
  <2>1. PICK average \in Prices : Close(Larger(-pos.risk, average))
    BY <1>6 DEF TrailOut
  <2>2. Larger(-pos.risk, average) \in Int /\ Larger(-pos.risk, average) >= -pos.risk
    <3>1. -pos.risk \in Int /\ average \in Int
      BY <1>1, TradeLoopAssumption
    <3>. QED
      BY <3>1, LargerTyped
  <2>3. program.loop.multiples
    BY <1>6, RunDue, DueMeans DEF TrailOut, Ledger
  <2>. QED
    BY <1>2, <1>3, <2>1, <2>2, <2>3
<1>. QED
  BY <1>4, <1>5, <1>6

\* A position that waits in an entry's place, or is sold in part, or moves its
\* stop, still knows what it has booked.
LEMMA EntryStakes ==
    ASSUME Ledger, Enter
    PROVE  Staked'
<1>1. /\ pos'.units = 2 /\ pos'.risk > 0 /\ pos'.risk >= program.entry.leastRisk
      /\ pos'.stop >= -pos'.risk
      /\ program.entry.stopChecked => pos'.stop = -pos'.risk
      /\ program.entry.targetChecked => pos'.target >= pos'.risk
  BY EnterTyped DEF Ledger
<1>2. program' = program /\ trade'.booked = 0 /\ trade'.rows = 0
  BY DEF Enter, Run
<1>. QED
  BY <1>1, <1>2 DEF Staked

LEMMA ScaleOutStakes ==
    ASSUME Ledger, ScaleOut
    PROVE  /\ Staked' /\ Open'
           /\ program.loop.buffer = 0 \/ program.entry.stopChecked => pos'.stop >= pos.stop
<1>1. /\ program' = program /\ pos.units = 2 /\ Open /\ Sell(1, ScaleAt)
      /\ pos' = [pos EXCEPT !.units = 1, !.stop = BreakEven]
  BY DEF ScaleOut, Run, Touched, Open
<1>2. /\ pos.stop \in Int /\ pos.target \in Int /\ pos.risk \in Nat /\ ScaleAt \in Int
      /\ program.entry.leastRisk \in Nat /\ program.loop.buffer \in Nat
  BY PosTyped DEF Ledger, ScaleAt
<1>3. /\ pos'.units = 1 /\ pos'.stop = BreakEven /\ pos'.target = pos.target
      /\ pos'.risk = pos.risk
  BY <1>1 DEF Ledger, TypeOK, Positions
<1>4. /\ trade'.booked = trade.booked + 1 * ScaleAt - program.entry.fee
      /\ program.counts = "exits" => trade'.rows = trade.rows
  BY <1>1, <1>2, SellTyped DEF Ledger
<1>5. /\ trade.booked = 0 /\ pos.stop >= -pos.risk /\ pos.risk >= program.entry.leastRisk
      /\ program.entry.targetChecked => pos.target >= pos.risk
      /\ program.counts = "exits" => trade.rows = 0
      /\ program.entry.stopChecked /\ program.loop.buffer > 0 => pos.stop = -pos.risk
  BY <1>1 DEF Ledger, Staked
<1>6. trade'.booked = 2 * pos.risk - program.entry.fee
  BY <1>2, <1>4, <1>5, FeesTyped DEF Ledger, ScaleAt
<1>7. /\ BreakEven >= program.loop.buffer /\ BreakEven >= -pos.risk
      /\ program.loop.buffer = 0 => BreakEven >= pos.stop
      /\ program.loop.buffer > 0 => BreakEven >= -pos.risk
  BY <1>2, <1>5 DEF BreakEven, Larger
<1>8. ~program.loop.multiples
  BY RunDue, DueMeans DEF ScaleOut, Ledger
<1>. QED
  BY <1>1, <1>2, <1>3, <1>4, <1>5, <1>6, <1>7, <1>8 DEF Staked, Open

LEMMA RaiseStopStakes ==
    ASSUME Ledger, RaiseStop
    PROVE  /\ Staked' /\ Open /\ Open' /\ pos'.stop >= pos.stop
<1>1. PICK swing \in Prices : swing > pos.stop /\ pos' = [pos EXCEPT !.stop = swing]
  BY DEF RaiseStop
<1>2. swing \in Int /\ pos.stop \in Int /\ pos.risk \in Nat /\ program.loop.buffer \in Nat
  BY PosTyped, TradeLoopAssumption DEF Ledger
<1>3. /\ pos'.units = pos.units /\ pos'.stop = swing /\ pos'.target = pos.target
      /\ pos'.risk = pos.risk
  BY <1>1 DEF Ledger, TypeOK, Positions
<1>4. program' = program /\ trade' = trade /\ Open
  BY DEF RaiseStop, Run, Touched
<1>5. ~(program.loop.buffer > 0)
  BY RunDue, DueMeans DEF RaiseStop, Ledger
<1>6. Staked
  BY DEF Ledger
<1>7. /\ swing >= pos.stop
      /\ pos.stop >= -pos.risk => swing >= -pos.risk
      /\ pos.stop >= program.loop.buffer => swing >= program.loop.buffer
  BY <1>1, <1>2
<1>. QED
  BY <1>3, <1>4, <1>5, <1>6, <1>7 DEF Staked, Open

\* The report of the exit that closes a position.
LEMMA CloseReports ==
    ASSUME Ledger, StopOut \/ TakeProfit \/ TrailOut
    PROVE  Reported'
<1>. SUFFICES ASSUME program.counts = "exits", program.entry.fee <= program.loop.buffer,
                     program.entry.targetChecked
              PROVE  trade'.rows = 1 /\ (trade'.last < 0 <=> trade'.booked < 0)
  BY DEF Reported, StopOut, TakeProfit, TrailOut, Run
<1>1. PICK price \in Int :
         /\ Open /\ Close(price)
         /\ pos.units = 1 => price >= program.loop.buffer
  BY ExitPrice
<1>2. /\ trade'.booked = trade.booked + pos.units * price - program.entry.fee
      /\ trade'.last = pos.units * price - program.entry.fee
      /\ trade'.rows = trade.rows + 1
  BY <1>1, CloseTyped DEF Ledger
<1>3. /\ trade.rows = 0 /\ pos.risk >= program.entry.leastRisk
      /\ pos.units = 2 => trade.booked = 0
      /\ pos.units = 1 => trade.booked = 2 * pos.risk - program.entry.fee
  BY <1>1 DEF Ledger, Staked
<1>4. /\ program.entry.fee \in Nat /\ pos.risk \in Nat /\ trade.booked \in Int
      /\ program.loop.buffer \in Nat /\ program.entry.leastRisk \in Nat
      /\ program.entry.fee <= program.entry.leastRisk
  BY FeesTyped, PosTyped DEF Ledger
<1>5. CASE pos.units = 2
  <2>1. pos.units * price \in Int
    BY <1>5
  <2>. QED
    BY <1>2, <1>3, <1>4, <1>5, <2>1
<1>6. CASE pos.units = 1
  <2>1. trade'.last = price - program.entry.fee
        /\ trade'.booked = 2 * pos.risk - program.entry.fee + price - program.entry.fee
    BY <1>2, <1>3, <1>4, <1>6
  <2>2. trade'.last >= 0 /\ trade'.booked >= 0 /\ trade'.last \in Int /\ trade'.booked \in Int
    BY <1>1, <1>3, <1>4, <1>6, <2>1
  <2>. QED
    BY <1>2, <1>3, <2>2
<1>7. pos.units \in {1, 2}
  BY <1>1, PosTyped DEF Ledger, Open
<1>. QED
  BY <1>5, <1>6, <1>7

\* Steps that touch neither the position nor its results.
LEMMA IdleSteps ==
    ASSUME NextBar \/ Filter \/ Measure \/ Untouched \/ NoEntry \/ Advance \/ Reset
             \/ UNCHANGED vars
    PROVE  UNCHANGED <<program, pos, trade, trades>>
  BY DEF NextBar, Filter, Measure, Untouched, NoEntry, Advance, Reset, Run, vars

LEMMA StepKeepsLedger == Ledger /\ [Next]_vars => Ledger'
<1>. SUFFICES ASSUME Ledger, [Next]_vars PROVE Staked' /\ Reported'
  BY StepTyped, StepPlaces DEF Ledger
<1>1. CASE NextBar \/ Filter \/ Measure \/ Untouched \/ NoEntry \/ Advance \/ Reset
             \/ UNCHANGED vars
  BY <1>1, IdleSteps DEF Ledger, Staked, Reported, Open
<1>2. CASE Enter
  <2>1. Staked' /\ Open'
    BY <1>2, EntryStakes, EnterTyped DEF Ledger
  <2>. QED
    BY <2>1 DEF Reported
<1>3. CASE ScaleOut
  BY <1>3, ScaleOutStakes DEF Reported
<1>4. CASE RaiseStop
  BY <1>4, RaiseStopStakes DEF Reported
<1>5. CASE StopOut \/ TakeProfit \/ TrailOut
  <2>1. \E price : Close(price)
    BY <1>5 DEF StopOut, TakeProfit, TrailOut
  <2>2. ~Open'
    BY <2>1 DEF Close, Flat, Open
  <2>. QED
    BY <1>5, <2>2, CloseReports DEF Staked
<1>. QED
  BY <1>1, <1>2, <1>3, <1>4, <1>5 DEF Next

LEMMA InitLedger == Init => Ledger
<1>. SUFFICES ASSUME Init PROVE Placed /\ Staked /\ Reported
  BY InitTyped DEF Ledger
<1>1. todo = << >> /\ ~Open /\ trades = 0
  BY DEF Init, Flat, Open
<1>. QED
  BY <1>1, EmptyHasNothing DEF Placed, Staked, Reported, Due

\* A report that counts exits counts a position once, and as a loss just when the
\* whole position lost, for any such script whose buffer pays a fee.
THEOREM ReportIsTrue == Spec => []Reported
<1>1. Ledger => Reported
  BY DEF Ledger
<1>. QED
  BY <1>1, InitLedger, StepKeepsLedger, PTL DEF Spec

-----------------------------------------------------------------------------
(* The stop of an open position, and what closing it can cost.              *)

Tightens ==
    Open /\ pos'.units > 0 /\ (program.entry.stopChecked \/ program.loop.buffer = 0)
        => pos'.stop >= pos.stop

LEMMA StepTightens == Ledger /\ [Next]_vars => [Tightens]_vars
<1>. SUFFICES ASSUME Ledger, Next, Open, pos'.units > 0,
                     program.entry.stopChecked \/ program.loop.buffer = 0
              PROVE  pos'.stop >= pos.stop
  BY DEF Tightens
<1>1. CASE NextBar \/ Filter \/ Measure \/ Untouched \/ NoEntry \/ Advance \/ Reset
  <2>1. pos' = pos /\ pos.stop \in Int
    BY <1>1, IdleSteps, PosTyped DEF Ledger
  <2>. QED
    BY <2>1
<1>2. CASE Enter
  BY <1>2 DEF Enter
<1>3. CASE ScaleOut \/ RaiseStop
  BY <1>3, ScaleOutStakes, RaiseStopStakes
<1>4. CASE StopOut \/ TakeProfit \/ TrailOut
  <2>1. pos' = Flat
    BY <1>4 DEF StopOut, TakeProfit, TrailOut, Close
  <2>. QED
    BY <2>1 DEF Flat
<1>. QED
  BY <1>1, <1>2, <1>3, <1>4 DEF Next

\* No step moves the stop of an open position away from the market, for any
\* script that places it on its side or keeps the better of two.
THEOREM StopsTighten == Spec => StopsOnlyTighten
  BY InitLedger, StepKeepsLedger, StepTightens, PTL DEF Spec, StopsOnlyTighten, Tightens

Bounded ==
    Open /\ pos'.units = 0 /\ program.entry.targetChecked
        => IF pos.units = 2
           THEN trade'.booked >= -(2 * pos.risk) - program.entry.fee
           ELSE trade'.booked >= 0

LEMMA StepBounded == Ledger /\ [Next]_vars => [Bounded]_vars
<1>. SUFFICES ASSUME Ledger, Next, Open, pos'.units = 0, program.entry.targetChecked
              PROVE  Bounded
  BY DEF Bounded
<1>1. StopOut \/ TakeProfit \/ TrailOut
  <2>1. CASE NextBar \/ Filter \/ Measure \/ Untouched \/ NoEntry \/ Advance \/ Reset
    <3>1. pos' = pos
      BY <2>1, IdleSteps
    <3>. QED
      BY <3>1 DEF Open
  <2>2. CASE Enter
    BY <2>2 DEF Enter
  <2>3. CASE ScaleOut \/ RaiseStop
    <3>1. pos'.units > 0
      BY <2>3, ScaleOutStakes, RaiseStopStakes DEF Open
    <3>. QED
      BY <3>1
  <2>. QED
    BY <2>1, <2>2, <2>3 DEF Next
<1>2. PICK price \in Int :
         /\ Close(price) /\ price >= -pos.risk
         /\ pos.units = 1 => price >= program.loop.buffer
  BY <1>1, ExitPrice
<1>3. trade'.booked = trade.booked + pos.units * price - program.entry.fee
  BY <1>2, CloseTyped DEF Ledger
<1>4. /\ pos.risk >= program.entry.leastRisk
      /\ pos.units = 2 => trade.booked = 0
      /\ pos.units = 1 => trade.booked = 2 * pos.risk - program.entry.fee
  BY DEF Ledger, Staked
<1>5. /\ program.entry.fee \in Nat /\ pos.risk \in Nat /\ trade.booked \in Int
      /\ program.loop.buffer \in Nat /\ program.entry.leastRisk \in Nat
      /\ program.entry.fee <= program.entry.leastRisk
  BY FeesTyped, PosTyped DEF Ledger
<1>6. CASE pos.units = 2
  <2>1. trade'.booked = 2 * price - program.entry.fee
    BY <1>3, <1>4, <1>5, <1>6
  <2>. QED
    BY <1>2, <1>5, <1>6, <2>1 DEF Bounded
<1>7. CASE pos.units = 1
  <2>1. trade'.booked = 2 * pos.risk - program.entry.fee + price - program.entry.fee
    BY <1>3, <1>4, <1>5, <1>7
  <2>2. trade'.booked >= 0
    BY <1>2, <1>4, <1>5, <1>7, <2>1
  <2>. QED
    BY <1>7, <2>2 DEF Bounded
<1>8. pos.units \in {1, 2}
  BY PosTyped DEF Ledger, Open
<1>. QED
  BY <1>6, <1>7, <1>8

\* A position loses at most its risk and the fee of a fill, and nothing once half
\* of it was sold, for any script that looks at its target's side.
THEOREM LossesBounded == Spec => LossesAreBounded
  BY InitLedger, StepKeepsLedger, StepBounded, PTL DEF Spec, LossesAreBounded, Bounded

-----------------------------------------------------------------------------
(* The drawdown at an entry.  A script that measures last in a bar has       *)
(* measured whatever an exit booked before the bar is over; one that         *)
(* measures first does so in the bar of the entry.                           *)

Known == book.capital <= book.peak /\ book.peak - book.capital <= book.drawdown

MeasuresFirst == program.loop.opening # << >> /\ Head(program.loop.opening) = "Measure"

EndsMeasured ==
    /\ todo # << >> /\ todo[Len(todo)] = "Measure"
    /\ ~Due("Filter") /\ ~Due("Enter")

AuditedFirst == Due("Enter") /\ ~Open => Known \/ Head(todo) = "Measure"
AuditedLast == EndsMeasured \/ ((\A step \in Exits : ~Due(step)) /\ (Open \/ Known))

Audited ==
    Has(Held(program), "Measure") => IF MeasuresFirst THEN AuditedFirst ELSE AuditedLast

Audit == TypeOK /\ Placed /\ Audited

LEMMA MeasureKnows ==
    ASSUME TypeOK, Measure
    PROVE  Known'
<1>1. book.capital \in Int /\ book.peak \in Int /\ book.drawdown \in Nat
  BY DEF TypeOK, Books
<1>. DEFINE top == Larger(book.peak, book.capital)
            deep == Larger(book.drawdown, top - book.capital)
<1>2. top \in Int /\ top >= book.capital
  BY <1>1, LargerTyped
<1>3. top - book.capital \in Int
  BY <1>1, <1>2
<1>. HIDE DEF top
<1>4. deep >= top - book.capital
  <2>1. book.drawdown \in Int
    BY <1>1
  <2>. QED
    BY <1>3, <2>1, LargerTyped
<1>5. book' = [book EXCEPT !.peak = top, !.drawdown = deep]
  BY DEF Measure, Measured, top
<1>. HIDE DEF deep
<1>6. book'.capital = book.capital /\ book'.peak = top /\ book'.drawdown = deep
  BY <1>5 DEF TypeOK, Books
<1>. QED
  BY <1>2, <1>4, <1>6 DEF Known

\* A bar that ends measured is measured by its last step, or still ends so.
LEMMA EndApproaches ==
    ASSUME TypeOK, EndsMeasured, NEW step, Run(step)
    PROVE  /\ step = "Measure" /\ todo' = << >>
           \/ EndsMeasured'
<1>1. /\ todo \in StepSeqs /\ todo # << >> /\ Head(todo) = step /\ todo' = Tail(todo)
      /\ todo[Len(todo)] = "Measure"
  BY DEF TypeOK, Run, EndsMeasured
<1>2. /\ Len(todo) \in Nat /\ Len(todo) > 0 /\ Len(todo') = Len(todo) - 1
      /\ \A i \in 1..Len(todo') : todo'[i] = todo[i + 1]
      /\ Head(todo) = todo[1]
  BY <1>1 DEF StepSeqs
<1>3. CASE Len(todo) = 1
  <2>1. todo' = << >>
    BY <1>1, <1>2, <1>3 DEF StepSeqs
  <2>. QED
    BY <1>1, <1>2, <1>3, <2>1
<1>4. CASE Len(todo) > 1
  <2>1. todo' # << >> /\ todo'[Len(todo')] = "Measure"
    BY <1>1, <1>2, <1>4
  <2>2. ~Has(todo', "Filter") /\ ~Has(todo', "Enter")
    BY RunDue DEF EndsMeasured
  <2>. QED
    BY <2>1, <2>2 DEF EndsMeasured, Due
<1>. QED
  BY <1>2, <1>3, <1>4

LEMMA NextBarAudits ==
    ASSUME Audit, NextBar
    PROVE  Audited'
<1>. SUFFICES ASSUME Has(Held(program), "Measure") PROVE Audited'
  BY DEF NextBar, Audited
<1>1. /\ program' = program /\ pos' = pos /\ book' = book /\ todo = << >>
      /\ todo' = IF Open THEN Held(program) ELSE Idle(program)
  BY DEF NextBar
<1>2. HoldsOrEnters(program) /\ MeasuresEachBar(program)
  BY TradeLoopAssumption DEF Audit, TypeOK
<1>3. CASE MeasuresFirst
  <2>1. CASE Open
    BY <1>1, <1>3, <2>1 DEF AuditedFirst, Audited, MeasuresFirst, Open
  <2>2. CASE ~Open
    <3>1. /\ program.loop.opening \in Seq(Steps) /\ program.loop.opening # << >>
          /\ program.entry.idle \in Seq(Steps)
      BY <1>3, ProgramTyped DEF MeasuresFirst, Audit, TypeOK, Program, Loop, Entry, StepSeqs
    <3>2. Head(Idle(program)) = Head(program.loop.opening)
      BY <3>1, HeadOfConcat DEF Idle
    <3>. QED
      BY <1>1, <1>3, <2>2, <3>2 DEF AuditedFirst, Audited, MeasuresFirst
  <2>. QED
    BY <2>1, <2>2
<1>4. CASE ~MeasuresFirst
  <2>1. CASE Open
    <3>1. Held(program)[Len(Held(program))] = "Measure" /\ ~Has(Held(program), "Filter")
          /\ ~Has(Held(program), "Enter")
      BY <1>2, <1>4 DEF MeasuresEachBar, MeasuresFirst, HoldsOrEnters
    <3>2. Held(program) # << >>
      BY EmptyHasNothing
    <3>. QED
      BY <1>1, <1>4, <2>1, <3>1, <3>2 DEF AuditedLast, EndsMeasured, Due, Audited, MeasuresFirst
  <2>2. CASE ~Open
    <3>1. Known
      BY <1>1, <1>4, <2>2 DEF Audit, Audited, AuditedLast, EndsMeasured
    <3>2. \A step \in Exits : ~Has(todo', step)
      BY <1>1, <1>2, <2>2 DEF HoldsOrEnters
    <3>. QED
      BY <1>1, <1>4, <3>1, <3>2 DEF AuditedLast, Due, Known, Audited, MeasuresFirst
  <2>. QED
    BY <2>1, <2>2
<1>. QED
  BY <1>3, <1>4

LEMMA FilterAudits ==
    ASSUME Audit, Filter
    PROVE  Audited'
<1>1. /\ UNCHANGED <<program, pos, book>>
      /\ todo # << >> /\ Head(todo) = "Filter" /\ todo \in StepSeqs
  BY DEF Filter, Audit, TypeOK
<1>2. \A step : Has(todo', step) => Due(step)
  BY StepsShrink DEF Audit, Filter, Next, NextBar
<1>3. Due("Filter")
  BY <1>1, HeadIsThere DEF Due
<1>4. AuditedFirst => AuditedFirst'
  BY <1>1, <1>2 DEF AuditedFirst, Due, Known, Open
<1>5. AuditedLast => AuditedLast'
  BY <1>1, <1>2, <1>3 DEF AuditedLast, EndsMeasured, Due, Known, Open
<1>. QED
  BY <1>1, <1>4, <1>5 DEF Audit, Audited, MeasuresFirst

\* Any other step: it opens the position, measures, or leaves what was known;
\* only an exit books a result, and an exit is never in the bar of an entry.
LEMMA RunAudits ==
    ASSUME Audit, NEW step, Run(step),
           \/ step \in Exits
           \/ step = "Measure" /\ Known'
           \/ step \notin Exits \cup {"Measure"} /\ (Open' \/ UNCHANGED <<pos, book>>)
    PROVE  Audited'
<1>. SUFFICES ASSUME Has(Held(program), "Measure") PROVE Audited'
  BY DEF Run, Audited
<1>1. /\ TypeOK /\ Placed /\ program' = program /\ Head(todo) = step /\ Due(step)
      /\ \A other : Has(todo', other) => Due(other)
  BY RunDue DEF Audit, Run
<1>2. CASE MeasuresFirst
  <2>1. AuditedFirst'
    <3>. SUFFICES ASSUME Has(todo', "Enter"), ~Open' PROVE Known'
      BY DEF AuditedFirst, Due
    <3>1. Due("Enter")
      BY <1>1
    <3>2. step \notin Exits
      BY <1>1, <3>1 DEF Placed
    <3>3. CASE step = "Measure"
      BY <3>2, <3>3
    <3>4. CASE step # "Measure"
      <4>1. UNCHANGED <<pos, book>>
        BY <3>2, <3>4
      <4>2. Known
        BY <1>1, <1>2, <3>1, <3>4, <4>1 DEF Audit, Audited, AuditedFirst, Open
      <4>. QED
        BY <4>1, <4>2 DEF Known
    <3>. QED
      BY <3>3, <3>4
  <2>. QED
    BY <1>1, <1>2, <2>1 DEF Audited, MeasuresFirst
<1>3. CASE ~MeasuresFirst
  <2>1. AuditedLast'
    <3>1. CASE EndsMeasured
      <4>1. CASE step = "Measure" /\ todo' = << >>
        <5>1. Known'
          BY <4>1 DEF Exits
        <5>. QED
          BY <4>1, <5>1, EmptyHasNothing DEF AuditedLast, Due
      <4>. QED
        BY <1>1, <3>1, <4>1, EndApproaches DEF AuditedLast
    <3>2. CASE ~EndsMeasured
      <4>1. (\A exit \in Exits : ~Due(exit)) /\ (Open \/ Known)
        BY <1>3, <3>2 DEF Audit, Audited, AuditedLast
      <4>2. step \notin Exits /\ \A exit \in Exits : ~Has(todo', exit)
        BY <1>1, <4>1
      <4>3. Open' \/ Known'
        BY <4>1, <4>2 DEF Known, Open
      <4>. QED
        BY <4>2, <4>3 DEF AuditedLast, Due
    <3>. QED
      BY <3>1, <3>2
  <2>. QED
    BY <1>1, <1>3, <2>1 DEF Audited, MeasuresFirst
<1>. QED
  BY <1>2, <1>3

LEMMA StepAudits == Audit /\ [Next]_vars => Audit'
<1>. SUFFICES ASSUME Audit, [Next]_vars PROVE Audited'
  BY StepTyped, StepPlaces DEF Audit
<1>1. CASE UNCHANGED vars
  BY <1>1 DEF vars, Audit, Audited, MeasuresFirst, AuditedFirst, AuditedLast, EndsMeasured,
              Due, Known, Open
<1>2. CASE ScaleOut \/ StopOut \/ TakeProfit \/ TrailOut \/ RaiseStop \/ Untouched
  <2>1. \E step \in Exits : Run(step)
    BY <1>2 DEF ScaleOut, StopOut, TakeProfit, TrailOut, RaiseStop, Untouched, Exits
  <2>. QED
    BY <2>1, RunAudits
<1>3. CASE Measure
  BY <1>3, MeasureKnows, RunAudits DEF Audit, Measure
<1>4. CASE Enter
  BY <1>4, EnterTyped, RunAudits DEF Audit, Enter, Exits
<1>5. CASE NoEntry \/ Advance \/ Reset
  BY <1>5, RunAudits DEF NoEntry, Advance, Reset, Exits
<1>. QED
  BY <1>1, <1>2, <1>3, <1>4, <1>5, NextBarAudits, FilterAudits DEF Next

LEMMA InitAudit == Init => Audit
<1>. SUFFICES ASSUME Init PROVE Placed /\ Audited
  BY InitTyped DEF Audit
<1>1. todo = << >> /\ Known
  BY DEF Init, Known
<1>. QED
  BY <1>1, EmptyHasNothing DEF Placed, Audited, AuditedFirst, AuditedLast, Due

\* Positions are opened by Enter.
LEMMA OnlyEnterOpens ==
    ASSUME TypeOK, [Next]_vars, trades' > trades
    PROVE  Enter
<1>1. trades \in Nat
  BY DEF TypeOK
<1>2. CASE NextBar \/ Filter \/ Measure \/ Untouched \/ NoEntry \/ Advance \/ Reset
             \/ UNCHANGED vars
  BY <1>1, <1>2, IdleSteps
<1>3. CASE ScaleOut \/ StopOut \/ TakeProfit \/ TrailOut \/ RaiseStop
  <2>1. trades' = trades
    BY <1>3 DEF ScaleOut, StopOut, TakeProfit, TrailOut, RaiseStop, Close, Sell
  <2>. QED
    BY <1>1, <2>1
<1>. QED
  BY <1>2, <1>3 DEF Next

\* When a position opens, a script that measures has measured the drawdown of
\* every result before it, for any order of steps the scripts use.
THEOREM DrawdownIsKnown == Spec => DrawdownKnown
<1>. DEFINE Measures == trades' > trades /\ Has(Held(program), "Measure") => Known
<1>1. Audit /\ [Next]_vars => [Measures]_vars
  <2>. SUFFICES ASSUME Audit, [Next]_vars, trades' > trades, Has(Held(program), "Measure")
                PROVE  Known
    OBVIOUS
  <2>1. Enter
    BY OnlyEnterOpens DEF Audit
  <2>2. Due("Enter") /\ ~Open /\ Head(todo) = "Enter"
    BY <2>1, RunDue DEF Audit, Enter, Run
  <2>. QED
    BY <2>2 DEF Audit, Audited, AuditedFirst, AuditedLast, EndsMeasured
<1>. QED
  BY <1>1, InitAudit, StepAudits, PTL DEF Spec, DrawdownKnown, Known

-----------------------------------------------------------------------------
(* Setups.  A setup advances once a bar, so the phase never runs ahead of    *)
(* the bars counted since the exit before it.                                *)

AdvanceLast(s) ==
    \A i, j \in 1..Len(s) : i < j /\ s[i] = "Advance" => s[j] \notin {"Enter", "Advance"}

Forming ==
    HasSetup =>
        /\ AdvanceLast(todo)
        /\ ~Open => /\ setup.phase <= AWAITING_LTF_ENTRY
                    /\ setup.phase <= setup.waited + 1
                    /\ Due("Advance") \/ Due("Enter") => setup.phase <= setup.waited

Formed == TypeOK /\ Placed /\ Forming

LEMMA TailAdvanceLast ==
    ASSUME NEW s \in StepSeqs, s # << >>, AdvanceLast(s)
    PROVE  /\ AdvanceLast(Tail(s))
           /\ Head(s) = "Advance" => ~Has(Tail(s), "Enter") /\ ~Has(Tail(s), "Advance")
<1>1. /\ Len(Tail(s)) = Len(s) - 1 /\ Len(s) \in Nat /\ Len(s) > 0
      /\ \A i \in 1..Len(Tail(s)) : Tail(s)[i] = s[i + 1] /\ i + 1 \in 1..Len(s) /\ 1 < i + 1
      /\ Head(s) = s[1] /\ 1 \in 1..Len(s)
  BY DEF StepSeqs
<1>2. AdvanceLast(Tail(s))
  <2>. SUFFICES ASSUME NEW i \in 1..Len(Tail(s)), NEW j \in 1..Len(Tail(s)),
                       i < j, Tail(s)[i] = "Advance"
                PROVE  Tail(s)[j] \notin {"Enter", "Advance"}
    BY DEF AdvanceLast
  <2>1. i + 1 \in 1..Len(s) /\ j + 1 \in 1..Len(s) /\ i + 1 < j + 1
    BY <1>1
  <2>2. s[i + 1] = "Advance" /\ Tail(s)[j] = s[j + 1]
    BY <1>1
  <2>. QED
    BY <2>1, <2>2 DEF AdvanceLast
<1>3. ASSUME Head(s) = "Advance", NEW i \in 1..Len(Tail(s))
      PROVE  Tail(s)[i] \notin {"Enter", "Advance"}
  BY <1>1, <1>3 DEF AdvanceLast
<1>. QED
  BY <1>2, <1>3 DEF Has

LEMMA SetupTyped ==
    ASSUME TypeOK
    PROVE  /\ setup.phase \in 1..7 /\ setup.waited \in 0..6 /\ setup.trending \in BOOLEAN
           /\ setup = [phase |-> setup.phase, trending |-> setup.trending,
                       waited |-> setup.waited]
  BY DEF TypeOK, Setups, IDLE, POSITION_ACTIVE, Patience

\* What a step leaves in the bar still has the entry before the advance.
LEMMA StepKeepsAdvanceLast ==
    ASSUME Formed, [Next]_vars, HasSetup
    PROVE  AdvanceLast(todo')
<1>1. AdvanceLast(todo) /\ todo \in StepSeqs
  BY DEF Formed, Forming, TypeOK
<1>2. CASE UNCHANGED vars
  BY <1>1, <1>2 DEF vars
<1>3. AdvanceLast(<< >>)
  BY DEF AdvanceLast
<1>4. CASE Filter
  BY <1>1, <1>3, <1>4, TailAdvanceLast DEF Filter
<1>5. ASSUME NEW step, Run(step) PROVE AdvanceLast(todo')
  BY <1>1, <1>5, TailAdvanceLast DEF Run
<1>6. CASE NextBar
  <2>1. HoldsOrEnters(program) /\ AdvancesOnce(program)
    BY TradeLoopAssumption DEF Formed, TypeOK
  <2>2. AdvanceLast(Idle(program))
    BY <2>1 DEF AdvancesOnce, AdvanceLast
  <2>3. AdvanceLast(Held(program))
    BY <2>1 DEF HoldsOrEnters, AdvanceLast, Has
  <2>. QED
    BY <1>6, <2>2, <2>3 DEF NextBar
<1>7. CASE Measure \/ ScaleOut \/ StopOut \/ TakeProfit \/ TrailOut \/ RaiseStop \/ Untouched
             \/ Enter \/ NoEntry \/ Advance \/ Reset
  BY <1>5, <1>7 DEF Measure, ScaleOut, StopOut, TakeProfit, TrailOut, RaiseStop, Untouched,
                    Enter, NoEntry, Advance, Reset
<1>. QED
  BY <1>2, <1>4, <1>6, <1>7 DEF Next

LEMMA StepForms == Formed /\ [Next]_vars => Formed'
<1>. SUFFICES ASSUME Formed, [Next]_vars PROVE Forming'
  BY StepTyped, StepPlaces DEF Formed
<1>0. program' = program
  BY ProgramStays
<1>. SUFFICES ASSUME HasSetup', ~Open'
              PROVE  /\ setup'.phase <= AWAITING_LTF_ENTRY
                     /\ setup'.phase <= setup'.waited + 1
                     /\ Has(todo', "Advance") \/ Has(todo', "Enter") => setup'.phase <= setup'.waited
  BY <1>0, StepKeepsAdvanceLast DEF Forming, Due, HasSetup
<1>. USE DEF IDLE, AWAITING_LTF_ENTRY, POSITION_ACTIVE, Patience
<1>1. TypeOK /\ Placed
  BY DEF Formed
<1>2. /\ setup.phase \in 1..7 /\ setup.waited \in 0..6 /\ setup.trending \in BOOLEAN
      /\ setup = [phase |-> setup.phase, trending |-> setup.trending, waited |-> setup.waited]
  BY <1>1, SetupTyped
<1>3. HasSetup
  BY <1>0 DEF HasSetup
<1>4. ~Open => /\ setup.phase <= 6 /\ setup.phase <= setup.waited + 1
               /\ Due("Advance") \/ Due("Enter") => setup.phase <= setup.waited
  BY <1>3 DEF Formed, Forming
<1>5. CASE NextBar
  <2>1. ~Open
    BY <1>5 DEF NextBar, Open
  <2>2. setup' = IF setup.waited < 6 THEN [setup EXCEPT !.waited = @ + 1] ELSE setup
    BY <1>3, <1>5, <2>1 DEF NextBar
  <2>3. setup'.phase = setup.phase
        /\ setup'.waited = (IF setup.waited < 6 THEN setup.waited + 1 ELSE setup.waited)
    BY <1>2, <2>2
  <2>. QED
    BY <1>2, <1>4, <2>1, <2>3
<1>6. CASE Filter \/ Measure \/ Untouched \/ NoEntry \/ UNCHANGED vars
  <2>1. (UNCHANGED <<pos, setup>> /\ ~NextBar) \/ UNCHANGED vars
    BY <1>6 DEF Filter, Measure, Untouched, NoEntry, Run, NextBar, vars
  <2>2. \A step : Has(todo', step) => Due(step)
    <3>1. CASE UNCHANGED vars
      BY <3>1 DEF vars, Due
    <3>2. CASE ~NextBar
      BY <1>1, <3>2, StepsShrink
    <3>. QED
      BY <2>1, <3>1, <3>2
  <2>3. UNCHANGED <<pos, setup>>
    BY <2>1 DEF vars
  <2>. QED
    BY <1>4, <2>2, <2>3 DEF Open
<1>7. CASE ScaleOut \/ RaiseStop \/ Enter
  <2>1. CASE Enter
    BY <1>1, <2>1, EnterTyped
  <2>2. CASE ScaleOut
    <3>1. pos'.units = 1
      BY <1>1, <2>2 DEF ScaleOut, TypeOK, Positions
    <3>. QED
      BY <3>1 DEF Open
  <2>3. CASE RaiseStop
    <3>1. pos'.units = pos.units /\ Open
      BY <1>1, <2>3 DEF RaiseStop, Touched, TypeOK, Positions
    <3>. QED
      BY <3>1 DEF Open
  <2>. QED
    BY <1>7, <2>1, <2>2, <2>3
<1>8. CASE StopOut \/ TakeProfit \/ TrailOut
  <2>1. PICK step \in Exits : Run(step) /\ \E price : Close(price)
    BY <1>8 DEF StopOut, TakeProfit, TrailOut, Exits
  <2>2. setup'.phase = 1 /\ setup'.waited = 0
    BY <1>2, <2>1 DEF Close
  <2>3. ~Has(todo', "Advance") /\ ~Has(todo', "Enter")
    BY <1>1, <2>1, RunDue DEF Placed
  <2>. QED
    BY <2>2, <2>3
<1>9. CASE Advance
  <2>1. Run("Advance") /\ pos' = pos
    BY <1>9 DEF Advance
  <2>2. ~Open /\ Due("Advance")
    BY <1>1, <2>1, RunDue DEF Open
  <2>3. ~Has(todo', "Enter") /\ ~Has(todo', "Advance")
    BY <1>1, <1>3, <2>1, TailAdvanceLast DEF Run, Formed, Forming, TypeOK
  <2>4. PICK trending \in {TRUE, setup.trending /\ program.entry.setup = "forward"},
             phase \in {setup.phase, setup.phase + 1} :
          /\ phase > setup.phase => setup.phase < 6
          /\ setup' = [setup EXCEPT !.phase = phase, !.trending = trending]
    BY <1>9 DEF Advance
  <2>5. setup'.phase = phase /\ setup'.waited = setup.waited
    BY <1>2, <2>4
  <2>. QED
    BY <1>2, <1>4, <2>2, <2>3, <2>4, <2>5
<1>10. CASE Reset
  <2>1. Run("Reset") /\ pos' = pos
    BY <1>10 DEF Reset
  <2>2. ~Open /\ \A step : Has(todo', step) => Due(step)
    BY <1>1, <2>1, RunDue DEF Open
  <2>3. setup'.waited = setup.waited /\ setup'.phase \in {1, setup.phase}
    BY <1>2, <1>10 DEF Reset
  <2>. QED
    BY <1>2, <1>4, <2>2, <2>3
<1>. QED
  BY <1>5, <1>6, <1>7, <1>8, <1>9, <1>10 DEF Next

LEMMA InitFormed == Init => Formed
<1>. SUFFICES ASSUME Init PROVE Placed /\ Forming
  BY InitTyped DEF Formed
<1>1. todo = << >> /\ setup.phase = 1 /\ setup.waited = 0
  BY DEF Init, IDLE
<1>. QED
  BY <1>1, EmptyHasNothing DEF Placed, Forming, AdvanceLast, Due, AWAITING_LTF_ENTRY

\* A position that waits for a setup opens at the earliest as many bars after the
\* last exit as a setup takes, for any script that advances once a bar.
THEOREM SetupsAreFresh == Spec => FreshSetup
<1>. DEFINE Fresh == trades' > trades /\ HasSetup => setup.waited >= Patience
<1>1. Formed /\ [Next]_vars => [Fresh]_vars
  <2>. SUFFICES ASSUME Formed, [Next]_vars, trades' > trades, HasSetup
                PROVE  setup.waited >= Patience
    OBVIOUS
  <2>1. Enter
    BY OnlyEnterOpens DEF Formed
  <2>2. Due("Enter") /\ ~Open /\ setup.phase = AWAITING_LTF_ENTRY
    BY <2>1, RunDue DEF Formed, Enter
  <2>3. setup.phase <= setup.waited
    BY <2>2 DEF Formed, Forming
  <2>. QED
    BY <2>2, <2>3 DEF AWAITING_LTF_ENTRY, Patience
<1>. QED
  BY <1>1, InitFormed, StepForms, PTL DEF Spec, FreshSetup
=============================================================================
