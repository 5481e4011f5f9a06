------------------------ MODULE SignalPipeline_proofs ------------------------
(***************************************************************************)
(* The limits of SignalPipeline, for any number of symbols, rows, sessions *)
(* and days: one row per symbol, open positions, entries and losses of a   *)
(* day, cooldowns, exposure, drawdown.  The limits are proved from IInv;   *)
(* what a day may lose needs the sums over the rows (Total), which are     *)
(* counts of units, so that closing rows adds to them (TotalAdds); the     *)
(* account and its drawdown need the highest of finitely many numbers.     *)
(***************************************************************************)
EXTENDS SignalPipeline, FiniteSetTheorems, NaturalsInduction, WellFoundedInduction,
        TLAPS

(***************************************************************************)
(* The inductive invariant                                                 *)
(***************************************************************************)
OpenedOn(day) == {i \in DOMAIN trades : Day(trades[i].created) = day}

Typed ==
    /\ LedgerTypeOK
    /\ QualityTypeOK
    /\ task \in Task
    /\ older \in 0 .. Len(trades)
    /\ \A i \in DOMAIN trades : trades[i].created <= now

Entering == task.step = "enter"

OneEach ==
    /\ \A i, j \in OpenTrades : trades[i].symbol = trades[j].symbol => i = j
    /\ Entering => task.symbol \in Symbols /\ ~HasOpenTrade(task.symbol)

Room ==
    /\ Cardinality(OpenTrades) <= MaxOpen
    /\ Entering => Cardinality(OpenTrades) < MaxOpen

DailyRoom ==
    "daily_trades" \in Filters =>
        /\ \A day \in Nat : Cardinality(OpenedOn(day)) <= MaxDailyTrades
        /\ Entering => Cardinality(TradesOpenedToday) < MaxDailyTrades

ThisSession == older + 1 .. Len(trades)

Rested ==
    "cooldown" \in Filters =>
        /\ CooldownKept
        /\ \A i \in ThisSession :
              /\ trades[i].symbol \in DOMAIN cooldowns
              /\ trades[i].created <= cooldowns[trades[i].symbol]
        /\ Entering =>
              \A i \in ThisSession :
                  trades[i].symbol = task.symbol =>
                      now - trades[i].created >= Cooldown

IInv == Typed /\ OneEach /\ Room /\ DailyRoom /\ Rested

(***************************************************************************)
(* What a step may do to the rows                                          *)
(***************************************************************************)
\* The table keeps its rows; open ones may be closed.
Kept ==
    /\ trades' \in Seq(Row)
    /\ Len(trades') = Len(trades)
    /\ \A i \in DOMAIN trades :
          /\ trades'[i].symbol = trades[i].symbol
          /\ trades'[i].created = trades[i].created
          /\ trades'[i].open => trades[i].open
          /\ ~trades[i].open => trades'[i] = trades[i]
          /\ trades[i].open /\ ~trades'[i].open =>
                trades'[i].closed = now /\ trades'[i].pnl = trades[i].pnl
          /\ trades'[i].pnl \in Results \cup {trades[i].pnl}

\* Nothing that the limits read has moved.
Idles == UNCHANGED <<now, trades, task, cooldowns, older>>

\* A step that leads away from an entry and adds no row.
Settles ==
    /\ Kept
    /\ now' = now
    /\ task' \in Task
    /\ task'.step # "enter"
    /\ \/ UNCHANGED <<cooldowns, older>>
       \/ older' = Len(trades) /\ cooldowns' = [s \in {} |-> 0]

\* Quantities are natural numbers, whatever the balance is.
LEMMA QuantitiesAreNat ==
    ASSUME NEW signal, NEW funds, NEW q \in ApprovedQuantities(signal, funds)
    PROVE  q \in Nat
<1>1. ASSUME NEW x, NEW y, NEW step \in Nat PROVE Rounded(x, y, step) \subseteq Nat
  <2>1. \A k \in 0 .. (x \div (y * step)) + 1 : k \in Nat
    OBVIOUS
  <2>2. \A k \in Nat : k * step \in Nat
    OBVIOUS
  <2> QED BY <2>1, <2>2 DEF Rounded
<1>2. PositionSizes(signal, funds) \subseteq Nat
  BY <1>1, SizingAssumption DEF PositionSizes
<1>3. \A size \in Nat : ExposureLimited(signal, funds, size) \subseteq Nat
  BY <1>1, SizingAssumption DEF ExposureLimited
<1> QED BY <1>2, <1>3 DEF ApprovedQuantities

\* The length of the table and its indices.
LEMMA Indices ==
    ASSUME LedgerTypeOK
    PROVE  /\ Len(trades) \in Nat
           /\ DOMAIN trades = 1 .. Len(trades)
           /\ \A i \in DOMAIN trades : trades[i] \in Row
           /\ now \in Nat
BY LedgerAssumption DEF LedgerTypeOK, Time

\* A table that is rebuilt row by row from the old one.
LEMMA Rebuilt ==
    ASSUME LedgerTypeOK, NEW new,
           trades' = [i \in DOMAIN trades |-> new[i]],
           \A i \in DOMAIN trades :
              /\ new[i] \in Row
              /\ new[i].symbol = trades[i].symbol
              /\ new[i].created = trades[i].created
              /\ new[i].open => trades[i].open
              /\ ~trades[i].open => new[i] = trades[i]
              /\ trades[i].open /\ ~new[i].open =>
                    new[i].closed = now /\ new[i].pnl = trades[i].pnl
              /\ new[i].pnl \in Results \cup {trades[i].pnl}
    PROVE  Kept
<1>1. /\ Len(trades) \in Nat
      /\ DOMAIN trades = 1 .. Len(trades)
  BY Indices
<1>2. trades' \in Seq(Row) /\ Len(trades') = Len(trades)
  BY <1>1
<1>3. \A i \in DOMAIN trades : trades'[i] = new[i]
  OBVIOUS
<1> QED BY <1>2, <1>3 DEF Kept

LEMMA UnchangedKeeps ==
    ASSUME LedgerTypeOK, UNCHANGED trades
    PROVE  Kept
BY DEF LedgerTypeOK, Kept

LEMMA PriceKeeps ==
    ASSUME LedgerTypeOK, NEW rows \in SUBSET OpenTrades, NEW pnl \in Results,
           UpdateTradePrice(rows, pnl)
    PROVE  Kept
<1> DEFINE new == [i \in DOMAIN trades |->
                     IF i \in rows THEN [trades[i] EXCEPT !.pnl = pnl]
                     ELSE trades[i]]
<1>1. \A i \in DOMAIN trades : trades[i] \in Row
  BY Indices
<1>2. pnl \in Int
  BY PipelineAssumption
<1>3. \A i \in rows : trades[i].open
  BY DEF OpenTrades
<1>4. ASSUME NEW i \in DOMAIN trades
      PROVE  /\ new[i] \in Row
             /\ new[i].symbol = trades[i].symbol
             /\ new[i].created = trades[i].created
             /\ new[i].open = trades[i].open
             /\ ~trades[i].open => new[i] = trades[i]
             /\ new[i].pnl \in Results \cup {trades[i].pnl}
  BY <1>1, <1>2, <1>3 DEF Row
<1>5. trades' = [i \in DOMAIN trades |-> new[i]]
  BY DEF UpdateTradePrice
<1> HIDE DEF new
<1> QED BY <1>4, <1>5, Rebuilt

LEMMA CloseKeeps ==
    ASSUME LedgerTypeOK, NEW rows \in SUBSET OpenTrades, CloseTrades(rows)
    PROVE  Kept
<1> DEFINE new ==
      [i \in DOMAIN trades |->
         IF i \in rows THEN [trades[i] EXCEPT !.open = FALSE, !.closed = now]
         ELSE trades[i]]
<1>1. \A i \in DOMAIN trades : trades[i] \in Row
  BY Indices
<1>2. \A i \in rows : trades[i].open
  BY DEF OpenTrades
<1>3. ASSUME NEW i \in DOMAIN trades
      PROVE  /\ new[i] \in Row
             /\ new[i].symbol = trades[i].symbol
             /\ new[i].created = trades[i].created
             /\ new[i].open => trades[i].open
             /\ ~trades[i].open => new[i] = trades[i]
             /\ trades[i].open /\ ~new[i].open =>
                   new[i].closed = now /\ new[i].pnl = trades[i].pnl
             /\ new[i].pnl \in Results \cup {trades[i].pnl}
  BY <1>1, <1>2 DEF Row, LedgerTypeOK
<1>4. trades' = [i \in DOMAIN trades |-> new[i]]
  BY DEF CloseTrades
<1> HIDE DEF new
<1> QED BY <1>3, <1>4, Rebuilt

\* The position manager never leads into an entry.
LEMMA ManagerSettles ==
    ASSUME LedgerTypeOK, NEW s \in Symbols \cup {NoSymbol},
           PositionManager(s)
    PROVE  Kept /\ task' \in Task /\ task'.step # "enter"
<1>1. CASE HasOpenTrade(s)
  <2>1. PICK pnl \in Results : UpdateTradePrice(OpenTradesOf(s), pnl)
    BY <1>1 DEF PositionManager
  <2>2. OpenTradesOf(s) \in SUBSET OpenTrades
    BY DEF OpenTradesOf
  <2>3. Kept
    BY <2>1, <2>2, PriceKeeps
  <2>4. task' = At("exit", s, 0)
    BY <1>1 DEF PositionManager
  <2> QED BY <2>3, <2>4 DEF At, Task, Steps
<1>2. CASE ~HasOpenTrade(s)
  BY <1>2, UnchangedKeeps DEF PositionManager, Goto, At, Task, Steps
<1> QED BY <1>1, <1>2

\* The end of a process forgets the session.
LEMMA EndsSettles ==
    ASSUME LedgerTypeOK, Ends
    PROVE  Settles
BY UnchangedKeeps DEF Ends, Settles, Goto, At, Task, Steps

\* Every step is of one of five kinds.
LEMMA Classified ==
    ASSUME IInv, [Next]_vars
    PROVE  \/ Idles
           \/ Settles
           \/ \E s \in Symbols : SignalCandle(s)
           \/ Executed
           \/ TimePasses
<1>a. LedgerTypeOK /\ task \in Task /\ task.symbol \in Symbols \cup {NoSymbol}
  BY DEF IInv, Typed, Task
<1>1. ASSUME NEW s \in Symbols, QuietCandle(s) PROVE Settles
  <2>1. Kept /\ task' \in Task /\ task'.step # "enter"
    BY <1>1, <1>a, ManagerSettles DEF QuietCandle
  <2> QED BY <1>1, <2>1 DEF QuietCandle, Settles, memory
<1>2. CASE NotExecuted
  <2>1. Kept /\ task' \in Task /\ task'.step # "enter"
    BY <1>2, <1>a, ManagerSettles DEF NotExecuted
  <2> QED BY <1>2, <2>1 DEF NotExecuted, Settles, memory
<1>3. CASE Manage
  <2>1. Kept /\ task' \in Task /\ task'.step # "enter"
    BY <1>3, <1>a, ManagerSettles DEF Manage
  <2> QED BY <1>3, <2>1 DEF Manage, Settles, memory
<1>4. CASE Exit
  <2>1. Kept
    BY <1>4, <1>a, CloseKeeps, UnchangedKeeps DEF Exit, OpenTradesOf
  <2> QED BY <1>4, <2>1 DEF Exit, Settles, memory, Goto, At, Task, Steps
<1>5. CASE PeriodicSnapshot
  BY <1>5 DEF PeriodicSnapshot, Idles, memory
<1>6. CASE Stop
  BY <1>6, <1>a, EndsSettles DEF Stop
<1>7. CASE Killed
  BY <1>7, <1>a, EndsSettles DEF Killed
<1>8. CASE Start
  <2>1. Kept
    BY <1>8, <1>a, CloseKeeps, UnchangedKeeps DEF Start
  <2> QED BY <1>8, <2>1 DEF Start, Settles, Goto, At, Task, Steps
<1>9. CASE Connect
  <2>1. Kept
    BY <1>9, <1>a, UnchangedKeeps DEF Connect
  <2> QED BY <1>9, <2>1 DEF Connect, Settles, memory, Goto, At, Task, Steps
<1>10. CASE UNCHANGED vars
  BY <1>10 DEF vars, Idles
<1> QED
  BY <1>1, <1>2, <1>3, <1>4, <1>5, <1>6, <1>7, <1>8, <1>9, <1>10 DEF Next

(***************************************************************************)
(* Preservation, conjunct by conjunct                                      *)
(***************************************************************************)
LEMMA TypedInit ==
    ASSUME Init
    PROVE  Typed
<1>1. LedgerTypeOK
  BY LedgerAssumption DEF Init, LedgerTypeOK, Time
<1>2. QualityTypeOK
  BY DEF Init, QualityTypeOK
<1>3. task \in Task
  BY DEF Init, At, Task, Steps
<1> QED BY <1>1, <1>2, <1>3 DEF Init, Typed

\* A step that settles an entry keeps the types.
LEMMA TypedSettles ==
    ASSUME Typed, Settles
    PROVE  Typed'
<1>1. LedgerTypeOK'
  BY DEF Typed, Settles, Kept, LedgerTypeOK
<1>2. QualityTypeOK'
  BY DEF Typed, Settles, QualityTypeOK
<1>3. /\ Len(trades) \in Nat
      /\ DOMAIN trades = 1 .. Len(trades)
      /\ DOMAIN trades' = 1 .. Len(trades')
  BY <1>1, Indices DEF Typed, LedgerTypeOK
<1>4. (older \in 0 .. Len(trades))'
  BY <1>3 DEF Typed, Settles, Kept
<1>5. (\A i \in DOMAIN trades : trades[i].created <= now)'
  BY <1>3 DEF Typed, Settles, Kept
<1> QED BY <1>1, <1>2, <1>4, <1>5 DEF Typed, Settles

LEMMA TypedSignal ==
    ASSUME Typed, NEW s \in Symbols, SignalCandle(s)
    PROVE  Typed'
<1>1. PICK signal \in Signals : \E q \in ApprovedQuantities(signal, balance) :
                                   task' = At("enter", s, q * signal.price)
  BY DEF SignalCandle
<1>2. PICK q \in ApprovedQuantities(signal, balance) :
              task' = At("enter", s, q * signal.price)
  BY <1>1
<1>3. q \in Nat /\ signal.price \in Nat
  BY QuantitiesAreNat, PipelineAssumption
<1>4. q * signal.price \in Nat
  BY <1>3
<1>5. task' \in Task
  BY <1>2, <1>4 DEF At, Task, Steps
<1> QED
  BY <1>5 DEF SignalCandle, tables, memory, Typed, LedgerTypeOK, QualityTypeOK

\* The new row and the table that holds it.
LEMMA Appended ==
    ASSUME Typed, OneEach, Executed
    PROVE  /\ trades' \in Seq(Row)
           /\ Len(trades') = Len(trades) + 1
           /\ \A i \in DOMAIN trades : trades'[i] = trades[i]
           /\ trades'[Len(trades) + 1].symbol = task.symbol
           /\ trades'[Len(trades) + 1].open = TRUE
           /\ trades'[Len(trades) + 1].created = now
           /\ trades'[Len(trades) + 1].pnl = 0
           /\ DOMAIN trades' = DOMAIN trades \cup {Len(trades) + 1}
<1> DEFINE row == [symbol |-> task.symbol, open |-> TRUE, created |-> now,
                   closed |-> 0, cost |-> task.cost, pnl |-> 0]
<1>1. row \in Row
  BY LedgerAssumption DEF Typed, OneEach, Entering, Executed, LedgerTypeOK, Row, Task, Time
<1>2. trades' = Append(trades, row)
  BY DEF Executed, CreateTrade
<1>3. trades \in Seq(Row) /\ Len(trades) \in Nat
  BY Indices DEF Typed, LedgerTypeOK
<1>4. /\ row.symbol = task.symbol
      /\ row.open = TRUE
      /\ row.created = now
      /\ row.pnl = 0
  OBVIOUS
<1> HIDE DEF row
<1>5. /\ trades' \in Seq(Row)
      /\ Len(trades') = Len(trades) + 1
      /\ \A i \in 1 .. Len(trades) : trades'[i] = trades[i]
      /\ trades'[Len(trades) + 1] = row
  BY <1>1, <1>2, <1>3
<1>6. DOMAIN trades = 1 .. Len(trades) /\ DOMAIN trades' = 1 .. Len(trades')
  BY <1>3, <1>5
<1>7. DOMAIN trades' = DOMAIN trades \cup {Len(trades) + 1}
  BY <1>3, <1>5, <1>6
<1> QED BY <1>4, <1>5, <1>6, <1>7

LEMMA TypedExecuted ==
    ASSUME Typed, OneEach, Executed
    PROVE  Typed'
<1>0. /\ task.symbol \in Symbols
      /\ now \in Time /\ now \in Nat
      /\ Len(trades) \in Nat
  BY Indices DEF Typed, LedgerTypeOK, OneEach, Entering, Executed
<1>1. LedgerTypeOK'
  BY Appended DEF Typed, Executed, LedgerTypeOK
<1>2. QualityTypeOK'
  BY <1>0 DEF Typed, Executed, QualityTypeOK, RegisterTrade
<1>3. (task \in Task)'
  BY <1>0 DEF Executed, At, Task, Steps
<1>4. (older \in 0 .. Len(trades))'
  <2>1. older' = older /\ older \in 0 .. Len(trades)
    BY DEF Typed, Executed
  <2>2. Len(trades') = Len(trades) + 1
    BY Appended
  <2> QED BY <1>0, <2>1, <2>2
<1>5. (\A i \in DOMAIN trades : trades[i].created <= now)'
  <2>1. now' = now /\ \A i \in DOMAIN trades : trades[i].created <= now
    BY DEF Typed, Executed
  <2>2. /\ DOMAIN trades' = DOMAIN trades \cup {Len(trades) + 1}
        /\ \A i \in DOMAIN trades : trades'[i] = trades[i]
        /\ trades'[Len(trades) + 1].created = now
    BY Appended
  <2> QED BY <1>0, <2>1, <2>2
<1> QED BY <1>1, <1>2, <1>3, <1>4, <1>5 DEF Typed

LEMMA TypedTime ==
    ASSUME Typed, TimePasses
    PROVE  Typed'
<1>1. /\ now \in Nat /\ now' = now + 1 /\ now' \in Time
      /\ UNCHANGED <<trades, task, cooldowns, older>>
  BY LedgerAssumption DEF Typed, TimePasses, Tick, LedgerTypeOK, Time, tables, memory
<1>2. \A i \in DOMAIN trades : trades[i] \in Row /\ trades[i].created \in Int
  BY Indices DEF Typed, Row, Time
<1>3. (\A i \in DOMAIN trades : trades[i].created <= now)'
  BY <1>1, <1>2 DEF Typed
<1> QED BY <1>1, <1>3 DEF Typed, LedgerTypeOK, QualityTypeOK

\* The old and the new indices; sets of rows are finite.
LEMMA FiniteRows ==
    ASSUME LedgerTypeOK, NEW S \in SUBSET DOMAIN trades
    PROVE  IsFiniteSet(S) /\ Cardinality(S) \in Nat
<1>1. DOMAIN trades = 1 .. Len(trades) /\ Len(trades) \in Nat
  BY Indices
<1>2. IsFiniteSet(DOMAIN trades)
  BY <1>1, FS_Interval
<1>3. IsFiniteSet(S)
  BY <1>2, FS_Subset
<1> QED BY <1>3, FS_CardinalityType

\* Fewer rows count less.
LEMMA FewerRows ==
    ASSUME LedgerTypeOK, NEW S \in SUBSET DOMAIN trades, NEW R \in SUBSET S
    PROVE  /\ Cardinality(R) \in Nat
           /\ Cardinality(S) \in Nat
           /\ Cardinality(R) <= Cardinality(S)
<1>1. IsFiniteSet(S) /\ Cardinality(S) \in Nat /\ Cardinality(R) \in Nat
  BY FiniteRows
<1>2. Cardinality(R) <= Cardinality(S)
  BY <1>1, FS_Subset
<1> QED BY <1>1, <1>2

\* One row more counts one more, at most.
LEMMA OneRowMore ==
    ASSUME LedgerTypeOK, NEW S \in SUBSET DOMAIN trades, NEW i
    PROVE  /\ Cardinality(S \cup {i}) \in Nat
           /\ Cardinality(S \cup {i}) <= Cardinality(S) + 1
<1>1. IsFiniteSet(S) /\ Cardinality(S) \in Nat
  BY FiniteRows
<1>2. IsFiniteSet(S \cup {i}) /\ Cardinality(S \cup {i}) \in Nat
  BY <1>1, FS_AddElement, FS_CardinalityType
<1>3. CASE i \in S
  <2>1. S \cup {i} = S
    BY <1>3
  <2> QED BY <1>1, <2>1
<1>4. CASE i \notin S
  <2>1. Cardinality(S \cup {i}) = Cardinality(S) + 1
    BY <1>1, <1>4, FS_AddElement, Zenon
  <2> QED BY <1>1, <1>2, <2>1
<1> QED BY <1>2, <1>3, <1>4

\* A step that keeps the table opens nothing.
LEMMA KeptRows ==
    ASSUME LedgerTypeOK, Kept
    PROVE  /\ DOMAIN trades' = DOMAIN trades
           /\ OpenTrades' \subseteq OpenTrades
           /\ \A day : OpenedOn(day)' = OpenedOn(day)
<1>1. DOMAIN trades' = DOMAIN trades
  BY Indices DEF LedgerTypeOK, Kept
<1>2. OpenTrades' \subseteq OpenTrades
  BY <1>1 DEF Kept, OpenTrades
<1>3. \A day : OpenedOn(day)' = OpenedOn(day)
  BY <1>1 DEF Kept, OpenedOn, Day
<1> QED BY <1>1, <1>2, <1>3

LEMMA OneEachNext ==
    ASSUME Typed, OneEach,
           \/ Idles
           \/ Settles
           \/ \E s \in Symbols : SignalCandle(s)
           \/ Executed
           \/ TimePasses
    PROVE  OneEach'
<1>0. LedgerTypeOK
  BY DEF Typed
<1>1. CASE Idles \/ TimePasses
  BY <1>1 DEF Idles, TimePasses, tables, memory, OneEach, Entering, OpenTrades,
              HasOpenTrade, OpenTradesOf
<1>2. CASE Settles
  <2>1. Kept /\ task'.step # "enter"
    BY <1>2 DEF Settles
  <2> QED BY <2>1, <1>0, KeptRows DEF Kept, OneEach, Entering, OpenTrades
<1>3. ASSUME NEW s \in Symbols, SignalCandle(s) PROVE OneEach'
  <2>1. task'.symbol = s /\ ~HasOpenTrade(s) /\ trades' = trades
    BY <1>3 DEF SignalCandle, At, tables
  <2> QED BY <2>1 DEF OneEach, OpenTrades, HasOpenTrade, OpenTradesOf
<1>4. CASE Executed
  <2>1. /\ DOMAIN trades' = DOMAIN trades \cup {Len(trades) + 1}
        /\ \A i \in DOMAIN trades : trades'[i] = trades[i]
        /\ trades'[Len(trades) + 1].symbol = task.symbol
    BY <1>4, Appended
  <2>2. /\ \A i \in OpenTrades : trades[i].symbol # task.symbol
        /\ \A i, j \in OpenTrades : trades[i].symbol = trades[j].symbol => i = j
    BY <1>4 DEF OneEach, Entering, Executed, HasOpenTrade, OpenTradesOf
  <2>3. OpenTrades' \subseteq OpenTrades \cup {Len(trades) + 1}
    BY <2>1 DEF OpenTrades
  <2>4. \A i \in OpenTrades : trades'[i] = trades[i]
    BY <2>1 DEF OpenTrades
  <2>5. ~Entering'
    BY <1>4 DEF Executed, At, Entering
  <2>6. \A i, j \in OpenTrades' :
           trades'[i].symbol = trades'[j].symbol => i = j
    BY <2>1, <2>2, <2>3, <2>4
  <2> QED BY <2>5, <2>6 DEF OneEach
<1> QED BY <1>1, <1>2, <1>3, <1>4

LEMMA RoomNext ==
    ASSUME Typed, OneEach, Room,
           \/ Idles
           \/ Settles
           \/ \E s \in Symbols : SignalCandle(s)
           \/ Executed
           \/ TimePasses
    PROVE  Room'
<1>0. /\ LedgerTypeOK
      /\ OpenTrades \in SUBSET DOMAIN trades
      /\ MaxOpen \in Nat
  BY QualityAssumption DEF Typed, OpenTrades
<1>1. CASE Idles \/ TimePasses
  BY <1>1 DEF Idles, TimePasses, tables, memory, Room, Entering, OpenTrades
<1>2. CASE Settles
  <2>1. OpenTrades' \in SUBSET OpenTrades /\ ~Entering'
    BY <1>2, <1>0, KeptRows DEF Settles, Entering
  <2>2. /\ Cardinality(OpenTrades') <= Cardinality(OpenTrades)
        /\ Cardinality(OpenTrades') \in Nat
        /\ Cardinality(OpenTrades) \in Nat
    BY <1>0, <2>1, FewerRows
  <2> QED BY <1>0, <2>1, <2>2 DEF Room
<1>3. ASSUME NEW s \in Symbols, SignalCandle(s) PROVE Room'
  <2>1. Cardinality(OpenTrades) < MaxOpen /\ OpenTrades' = OpenTrades
    BY <1>3 DEF SignalCandle, Validate, PositionLimitValid, tables, OpenTrades
  <2> QED BY <2>1, <1>0, FiniteRows DEF Room
<1>4. CASE Executed
  <2>1. Cardinality(OpenTrades) < MaxOpen /\ ~Entering'
    BY <1>4 DEF Room, Entering, Executed, At
  <2>2. OpenTrades' = OpenTrades \cup {Len(trades) + 1}
    <3>1. /\ DOMAIN trades' = DOMAIN trades \cup {Len(trades) + 1}
          /\ \A i \in DOMAIN trades : trades'[i] = trades[i]
          /\ trades'[Len(trades) + 1].open = TRUE
      BY <1>4, Appended
    <3> QED BY <3>1 DEF OpenTrades
  <2>3. IsFiniteSet(OpenTrades) /\ Cardinality(OpenTrades) \in Nat
    BY <1>0, FiniteRows
  <2>4. /\ Cardinality(OpenTrades') <= Cardinality(OpenTrades) + 1
        /\ Cardinality(OpenTrades') \in Nat
    BY <1>0, <2>2, OneRowMore
  <2> QED BY <1>0, <2>1, <2>3, <2>4 DEF Room
<1> QED BY <1>1, <1>2, <1>3, <1>4

\* No row is younger than the clock: the rows of this day are those that
\* were created since its start.
LEMMA OpenedThisDay ==
    ASSUME Typed
    PROVE  OpenedOn(Day(now)) = TradesOpenedToday
<1>1. /\ now \in Nat
      /\ DayLength \in Nat \ {0}
      /\ \A i \in DOMAIN trades :
            /\ trades[i].created \in Nat
            /\ trades[i].created <= now
  BY Indices, LedgerAssumption DEF Typed, Row, Time
<1>2. \A t \in Nat : t <= now =>
         (t >= (now \div DayLength) * DayLength
            <=> t \div DayLength = now \div DayLength)
  BY <1>1
<1> QED BY <1>1, <1>2 DEF OpenedOn, TradesOpenedToday, TodayStart, Day

LEMMA DailyRoomNext ==
    ASSUME Typed, OneEach, DailyRoom,
           \/ Idles
           \/ Settles
           \/ \E s \in Symbols : SignalCandle(s)
           \/ Executed
           \/ TimePasses
    PROVE  DailyRoom'
<1>0. /\ LedgerTypeOK
      /\ MaxDailyTrades \in Nat
      /\ \A day : OpenedOn(day) \in SUBSET DOMAIN trades
      /\ TradesOpenedToday \in SUBSET DOMAIN trades
  BY QualityAssumption DEF Typed, OpenedOn, TradesOpenedToday
<1> SUFFICES ASSUME "daily_trades" \in Filters
             PROVE  /\ \A day \in Nat :
                          Cardinality(OpenedOn(day)') <= MaxDailyTrades
                    /\ Entering' => Cardinality(TradesOpenedToday') < MaxDailyTrades
  BY DEF DailyRoom
<1>a. \A day \in Nat : Cardinality(OpenedOn(day)) <= MaxDailyTrades
  BY DEF DailyRoom
<1>b. Entering => Cardinality(TradesOpenedToday) < MaxDailyTrades
  BY DEF DailyRoom
<1>1. CASE Idles
  BY <1>1, <1>a, <1>b DEF Idles, Entering, OpenedOn, TradesOpenedToday, TodayStart,
                          Day
<1>2. CASE Settles
  <2>1. Kept /\ ~Entering'
    BY <1>2 DEF Settles, Entering
  <2> QED BY <2>1, <1>0, <1>a, KeptRows
<1>3. ASSUME NEW s \in Symbols, SignalCandle(s)
      PROVE  /\ \A day \in Nat :
                   Cardinality(OpenedOn(day)') <= MaxDailyTrades
             /\ Entering' => Cardinality(TradesOpenedToday') < MaxDailyTrades
  <2>1. Cardinality(TradesOpenedToday) < MaxDailyTrades
    BY <1>3 DEF SignalCandle, Validate, DailyTradesValid
  <2>2. trades' = trades /\ now' = now
    BY <1>3 DEF SignalCandle, tables
  <2> QED BY <2>1, <2>2, <1>a DEF OpenedOn, TradesOpenedToday, TodayStart, Day
<1>4. CASE Executed
  <2>1. /\ DOMAIN trades' = DOMAIN trades \cup {Len(trades) + 1}
        /\ \A i \in DOMAIN trades : trades'[i] = trades[i]
        /\ trades'[Len(trades) + 1].created = now
    BY <1>4, Appended
  <2>2. ~Entering' /\ Cardinality(TradesOpenedToday) < MaxDailyTrades
    BY <1>4, <1>b DEF Executed, At, Entering
  <2>3. ASSUME NEW day \in Nat
        PROVE  Cardinality(OpenedOn(day)') <= MaxDailyTrades
    <3>1. CASE day = Day(now)
      <4>1. OpenedOn(day)' = OpenedOn(day) \cup {Len(trades) + 1}
        BY <2>1, <3>1 DEF OpenedOn, Day
      <4>2. Cardinality(OpenedOn(day)) < MaxDailyTrades
        BY <2>2, <3>1, OpenedThisDay
      <4>3. IsFiniteSet(OpenedOn(day)) /\ Cardinality(OpenedOn(day)) \in Nat
        BY <1>0, FiniteRows
      <4>4. /\ Cardinality(OpenedOn(day)') <= Cardinality(OpenedOn(day)) + 1
            /\ Cardinality(OpenedOn(day)') \in Nat
        BY <1>0, <4>1, OneRowMore
      <4> QED BY <4>2, <4>3, <4>4, <1>0
    <3>2. CASE day # Day(now)
      <4>1. OpenedOn(day)' = OpenedOn(day)
        BY <2>1, <3>2, Indices, <1>0 DEF OpenedOn, Day
      <4> QED BY <4>1, <1>a
    <3> QED BY <3>1, <3>2
  <2> QED BY <2>2, <2>3
<1>5. CASE TimePasses
  <2>1. /\ now \in Nat /\ now' = now + 1
        /\ UNCHANGED <<trades, task>>
        /\ DayLength \in Nat \ {0}
    BY <1>5, <1>0, Indices, LedgerAssumption
    DEF TimePasses, Tick, tables, memory
  <2>2. \A day : OpenedOn(day)' = OpenedOn(day)
    BY <2>1 DEF OpenedOn, Day
  <2>3. (now \div DayLength) * DayLength <= (now' \div DayLength) * DayLength
    <3>1. now \div DayLength <= now' \div DayLength
      BY <2>1
    <3> QED BY <2>1, <3>1
  <2>4. \A i \in DOMAIN trades : trades[i].created \in Nat
    BY <1>0, Indices, LedgerAssumption DEF Row, Time
  <2>5. TradesOpenedToday' \in SUBSET TradesOpenedToday
    BY <2>1, <2>3, <2>4 DEF TradesOpenedToday, TodayStart, Day
  <2>6. /\ Cardinality(TradesOpenedToday') <= Cardinality(TradesOpenedToday)
        /\ Cardinality(TradesOpenedToday') \in Nat
        /\ Cardinality(TradesOpenedToday) \in Nat
    BY <1>0, <2>5, FewerRows
  <2>7. Entering' => Entering
    BY <2>1 DEF Entering
  <2> QED BY <1>0, <1>a, <1>b, <2>2, <2>6, <2>7
<1> QED BY <1>1, <1>2, <1>3, <1>4, <1>5

LEMMA RestedNext ==
    ASSUME Typed, OneEach, Rested,
           \/ Idles
           \/ Settles
           \/ \E s \in Symbols : SignalCandle(s)
           \/ Executed
           \/ TimePasses
    PROVE  Rested'
<1>0. /\ LedgerTypeOK
      /\ Cooldown \in Nat /\ now \in Nat
      /\ Len(trades) \in Nat
      /\ older \in 0 .. Len(trades)
      /\ DOMAIN trades = 1 .. Len(trades)
      /\ ThisSession \subseteq DOMAIN trades
      /\ \A i \in DOMAIN trades :
            trades[i].created \in Nat /\ trades[i].created <= now
  BY Indices, QualityAssumption, LedgerAssumption DEF Typed, Row, Time, ThisSession
<1>c. \A t \in DOMAIN cooldowns : cooldowns[t] \in Nat
  BY LedgerAssumption DEF Typed, QualityTypeOK, Time
<1> DEFINE Apart == \A i, j \in ThisSession :
                       i < j /\ trades[i].symbol = trades[j].symbol =>
                          trades[j].created - trades[i].created >= Cooldown
           Known == \A i \in ThisSession :
                       /\ trades[i].symbol \in DOMAIN cooldowns
                       /\ trades[i].created <= cooldowns[trades[i].symbol]
           Fresh == Entering =>
                       \A i \in ThisSession :
                          trades[i].symbol = task.symbol =>
                             now - trades[i].created >= Cooldown
<1> SUFFICES ASSUME "cooldown" \in Filters
             PROVE  Apart' /\ Known' /\ Fresh'
  BY DEF Rested, CooldownKept, ThisSession
<1>a. Apart /\ Known /\ Fresh
  BY DEF Rested, CooldownKept, ThisSession
<1>1. CASE Idles
  BY <1>1, <1>a DEF Idles, Entering, ThisSession
<1>2. CASE Settles
  <2>1. /\ Len(trades') = Len(trades)
        /\ \A i \in DOMAIN trades : /\ trades'[i].symbol = trades[i].symbol
                                    /\ trades'[i].created = trades[i].created
        /\ ~Entering'
    BY <1>2 DEF Settles, Kept, Entering
  <2>2. CASE UNCHANGED <<cooldowns, older>>
    <3>1. ThisSession' = ThisSession
      BY <2>1, <2>2 DEF ThisSession
    <3> QED BY <1>0, <1>a, <2>1, <2>2, <3>1
  <2>3. CASE older' = Len(trades)
    <3>1. ThisSession' = {}
      BY <1>0, <2>1, <2>3 DEF ThisSession
    <3> QED BY <2>1, <3>1
  <2> QED BY <1>2, <2>2, <2>3 DEF Settles
<1>3. ASSUME NEW s \in Symbols, SignalCandle(s) PROVE Apart' /\ Known' /\ Fresh'
  <2>1. /\ UNCHANGED <<now, trades, cooldowns, older>>
        /\ task'.symbol = s
        /\ s \in DOMAIN cooldowns => now - cooldowns[s] >= Cooldown
    BY <1>3 DEF SignalCandle, At, tables, memory, Validate, CooldownReady
  <2>2. Apart' /\ Known' /\ ThisSession' = ThisSession
    BY <2>1, <1>a DEF ThisSession
  <2>3. \A i \in ThisSession :
           trades[i].symbol = s => now - trades[i].created >= Cooldown
    BY <2>1, <1>a, <1>0, <1>c
  <2> QED BY <2>1, <2>2, <2>3
<1>4. CASE Executed
  <2>1. /\ Len(trades') = Len(trades) + 1
        /\ \A i \in DOMAIN trades : trades'[i] = trades[i]
        /\ trades'[Len(trades) + 1].symbol = task.symbol
        /\ trades'[Len(trades) + 1].created = now
    BY <1>4, Appended
  <2>2. /\ ~Entering' /\ Entering
        /\ older' = older
        /\ cooldowns' = [t \in DOMAIN cooldowns \cup {task.symbol} |->
                           IF t = task.symbol THEN now ELSE cooldowns[t]]
    BY <1>4 DEF Executed, At, Entering, RegisterTrade
  <2>3. ThisSession' = ThisSession \cup {Len(trades) + 1}
    BY <1>0, <2>1, <2>2 DEF ThisSession
  <2>4. \A i \in ThisSession : i \in DOMAIN trades /\ i < Len(trades) + 1
    BY <1>0
  <2>5. Apart'
    <3> SUFFICES ASSUME NEW i \in ThisSession', NEW j \in ThisSession', i < j,
                        trades'[i].symbol = trades'[j].symbol
                 PROVE  trades'[j].created - trades'[i].created >= Cooldown
      BY <2>3
    <3>1. i \in ThisSession
      BY <1>0, <2>3, <2>4
    <3>2. CASE j \in ThisSession
      BY <3>1, <3>2, <2>1, <2>4, <1>a
    <3>3. CASE j = Len(trades) + 1
      BY <3>1, <3>3, <2>1, <2>2, <2>4, <1>a
    <3> QED BY <2>3, <3>2, <3>3
  <2>6. Known'
    <3> SUFFICES ASSUME NEW i \in ThisSession'
                 PROVE  /\ trades'[i].symbol \in DOMAIN cooldowns'
                        /\ trades'[i].created <= cooldowns'[trades'[i].symbol]
      BY <2>3
    <3>1. CASE i \in ThisSession
      BY <3>1, <2>1, <2>2, <2>4, <1>0, <1>a
    <3>2. CASE i = Len(trades) + 1
      BY <3>2, <2>1, <2>2, <1>0
    <3> QED BY <2>3, <3>1, <3>2
  <2> QED BY <2>2, <2>5, <2>6
<1>5. CASE TimePasses
  <2>1. now' = now + 1 /\ UNCHANGED <<trades, task, cooldowns, older>>
    BY <1>5 DEF TimePasses, Tick, tables, memory
  <2>2. ThisSession' = ThisSession /\ Entering' = Entering
    BY <2>1 DEF ThisSession, Entering
  <2>3. \A i \in ThisSession : trades[i].created \in Nat
    BY <1>0
  <2> QED BY <1>0, <1>a, <2>1, <2>2, <2>3
<1> QED BY <1>1, <1>2, <1>3, <1>4, <1>5

(***************************************************************************)
(* Theorems                                                                *)
(***************************************************************************)
\* Every limit is kept together with what it needs of an entry that awaits
\* the exchange: the gates that were passed before the await still hold when
\* the router records the row (execution_router.py, signal_quality_service.py).
THEOREM LimitsInvariant == Spec => []IInv
<1>1. Init => IInv
  <2> SUFFICES ASSUME Init PROVE IInv
    OBVIOUS
  <2>1. DOMAIN trades = {} /\ trades = << >> /\ ~Entering /\ older = 0
    BY DEF Init, At, Entering
  <2>2. OpenTrades = {} /\ ThisSession = {} /\ \A day : OpenedOn(day) = {}
    BY <2>1 DEF OpenTrades, ThisSession, OpenedOn
  <2>3. OneEach
    BY <2>1, <2>2 DEF OneEach
  <2>4. Room
    BY <2>1, <2>2, FS_EmptySet, QualityAssumption DEF Room
  <2>5. DailyRoom
    BY <2>1, <2>2, FS_EmptySet, QualityAssumption DEF DailyRoom
  <2>6. Rested
    BY <2>1, <2>2 DEF Rested, CooldownKept, ThisSession
  <2> QED BY <2>3, <2>4, <2>5, <2>6, TypedInit DEF IInv
<1>2. IInv /\ [Next]_vars => IInv'
  <2> SUFFICES ASSUME IInv, [Next]_vars PROVE IInv'
    OBVIOUS
  <2>1. \/ Idles
        \/ Settles
        \/ \E s \in Symbols : SignalCandle(s)
        \/ Executed
        \/ TimePasses
    BY Classified
  <2>2. Typed /\ OneEach /\ Room /\ DailyRoom /\ Rested
    BY DEF IInv
  <2>3. Typed'
    <3>1. CASE Idles
      BY <2>2, <3>1 DEF Idles, Typed, LedgerTypeOK, QualityTypeOK
    <3> QED
      BY <2>1, <2>2, <3>1, TypedSettles, TypedSignal, TypedExecuted, TypedTime
  <2>4. OneEach'
    BY <2>1, <2>2, OneEachNext
  <2>5. Room'
    BY <2>1, <2>2, RoomNext
  <2>6. DailyRoom'
    BY <2>1, <2>2, DailyRoomNext
  <2>7. Rested'
    BY <2>1, <2>2, RestedNext
  <2> QED BY <2>3, <2>4, <2>5, <2>6, <2>7 DEF IInv
<1> QED BY <1>1, <1>2, PTL DEF Spec

\* A symbol has one open row at most.
THEOREM OneRowKept == Spec => []OneRowPerSymbol
<1>1. IInv => OneRowPerSymbol
  <2> SUFFICES ASSUME IInv, NEW s \in Symbols
               PROVE  Cardinality(OpenTradesOf(s)) <= 1
    BY DEF OneRowPerSymbol
  <2>1. \A i, j \in OpenTradesOf(s) : i = j
    BY DEF IInv, OneEach, OpenTradesOf
  <2>2. CASE OpenTradesOf(s) = {}
    BY <2>2, FS_EmptySet
  <2>3. CASE OpenTradesOf(s) # {}
    <3>1. PICK i : i \in OpenTradesOf(s)
      BY <2>3
    <3>2. OpenTradesOf(s) = {i}
      BY <2>1, <3>1
    <3>3. Cardinality({i}) = 1
      BY FS_Singleton
    <3> QED BY <3>2, <3>3
  <2> QED BY <2>2, <2>3
<1> QED BY <1>1, LimitsInvariant, PTL

\* Never more open positions than maximum_open_positions.
THEOREM OpenLimitKept == Spec => []OpenWithinLimit
<1>1. IInv => OpenWithinLimit
  BY DEF IInv, Room, OpenWithinLimit
<1> QED BY <1>1, LimitsInvariant, PTL

\* Never more entries on a UTC day than max_daily_trades, for every length
\* of a day, number of sessions and moment of midnight.
THEOREM DailyTradesKept == Spec => []DailyTradesWithinLimit
<1>1. IInv => DailyTradesWithinLimit
  <2> SUFFICES ASSUME IInv, "daily_trades" \in Filters, NEW t \in Time
               PROVE  Cardinality({i \in DOMAIN trades :
                         Day(trades[i].created) = Day(t)}) <= MaxDailyTrades
    BY DEF DailyTradesWithinLimit
  <2>1. Day(t) \in Nat
    BY LedgerAssumption DEF Day, Time
  <2> QED BY <2>1 DEF IInv, DailyRoom, OpenedOn
<1> QED BY <1>1, LimitsInvariant, PTL

\* Two entries of a symbol in one session are a cooldown apart.
THEOREM CooldownAlwaysKept == Spec => []CooldownKept
<1>1. IInv => CooldownKept
  BY DEF IInv, Rested, CooldownKept
<1> QED BY <1>1, LimitsInvariant, PTL

(***************************************************************************)
(* Sums and maxima                                                         *)
(***************************************************************************)
LEMMA UnitsCounted ==
    ASSUME NEW S, IsFiniteSet(S), NEW f \in [S -> Int]
    PROVE  IsFiniteSet(Units(f)) /\ Cardinality(Units(f)) \in Nat
<1> DEFINE g == [i \in S |-> {i} \X (1 .. f[i])]
           G == {g[i] : i \in S}
<1>1. g \in Surjection(S, G)
  BY DEF Surjection
<1>2. IsFiniteSet(G)
  BY <1>1, FS_Surjection
<1>3. ASSUME NEW i \in S PROVE IsFiniteSet(g[i])
  <2>1. 1 \in Int /\ f[i] \in Int
    OBVIOUS
  <2>2. IsFiniteSet(1 .. f[i]) /\ IsFiniteSet({i})
    BY <2>1, FS_Interval, FS_Singleton
  <2> QED BY <2>2, FS_Product
<1>4. \A T \in G : IsFiniteSet(T)
  BY <1>3
<1>5. Units(f) = UNION G
  BY DEF Units
<1> HIDE DEF G
<1>6. IsFiniteSet(Units(f))
  BY <1>2, <1>4, <1>5, FS_UNION
<1> QED BY <1>6, FS_CardinalityType

\* A function on a part of its domain.
On(h, S) == [i \in S |-> h[i]]

Apart(S, T) == \A i \in S : i \notin T

\* The units of two parts are apart.
LEMMA UnitsAdd ==
    ASSUME NEW S, NEW T, IsFiniteSet(S), IsFiniteSet(T), Apart(S, T),
           NEW h \in [S \cup T -> Int]
    PROVE  Cardinality(Units(h)) = Cardinality(Units(On(h, S))) + Cardinality(Units(On(h, T)))
<1> DEFINE f == On(h, S)
           g == On(h, T)
<1>0. f \in [S -> Int] /\ g \in [T -> Int]
  BY DEF On
<1>1. Units(h) = Units(f) \cup Units(g)
  BY DEF Units, On
<1>2. Units(f) \cap Units(g) = {}
  <2>1. \A d \in Units(f) : d[1] \in S
    BY DEF Units, On
  <2>2. \A d \in Units(g) : d[1] \in T
    BY DEF Units, On
  <2> QED BY <2>1, <2>2 DEF Apart
<1> HIDE DEF f, g
<1>3. /\ IsFiniteSet(Units(f)) /\ Cardinality(Units(f)) \in Nat
      /\ IsFiniteSet(Units(g)) /\ Cardinality(Units(g)) \in Nat
  BY <1>0, UnitsCounted
<1>4. Cardinality(Units(h)) = Cardinality(Units(f)) + Cardinality(Units(g))
                                - Cardinality(Units(f) \cap Units(g))
  BY <1>1, <1>3, FS_Union
<1>5. Cardinality(Units(f) \cap Units(g)) = 0
  BY <1>2, FS_EmptySet
<1>6. Cardinality(Units(h)) = Cardinality(Units(f)) + Cardinality(Units(g))
  BY <1>3, <1>4, <1>5
<1> QED BY <1>6 DEF f, g

LEMMA TotalIsInt ==
    ASSUME NEW S, IsFiniteSet(S), NEW f \in [S -> Int]
    PROVE  Total(f) \in Int
<1> DEFINE g == [i \in S |-> -f[i]]
<1>1. g \in [S -> Int] /\ Total(f) = Cardinality(Units(f)) - Cardinality(Units(g))
  BY DEF Total
<1> HIDE DEF g
<1>2. Cardinality(Units(f)) \in Nat /\ Cardinality(Units(g)) \in Nat
  BY <1>1, UnitsCounted
<1> QED BY <1>1, <1>2

LEMMA TotalAdds ==
    ASSUME NEW S, NEW T, IsFiniteSet(S), IsFiniteSet(T), Apart(S, T),
           NEW h \in [S \cup T -> Int]
    PROVE  Total(h) = Total(On(h, S)) + Total(On(h, T))
<1> DEFINE k == [i \in S \cup T |-> -h[i]]
<1>1. k \in [S \cup T -> Int]
  OBVIOUS
<1>2. /\ On(h, S) \in [S -> Int] /\ On(h, T) \in [T -> Int]
      /\ On(k, S) \in [S -> Int] /\ On(k, T) \in [T -> Int]
  BY <1>1 DEF On
<1>3. /\ [i \in DOMAIN On(h, S) |-> -On(h, S)[i]] = On(k, S)
      /\ [i \in DOMAIN On(h, T) |-> -On(h, T)[i]] = On(k, T)
      /\ [i \in DOMAIN h |-> -h[i]] = k
  BY DEF On
<1> HIDE DEF k
<1>4. /\ Total(On(h, S)) = Cardinality(Units(On(h, S))) - Cardinality(Units(On(k, S)))
      /\ Total(On(h, T)) = Cardinality(Units(On(h, T))) - Cardinality(Units(On(k, T)))
      /\ Total(h) = Cardinality(Units(h)) - Cardinality(Units(k))
  BY <1>3 DEF Total
<1>5. Cardinality(Units(h)) = Cardinality(Units(On(h, S))) + Cardinality(Units(On(h, T)))
  BY UnitsAdd
<1>6. Cardinality(Units(k)) = Cardinality(Units(On(k, S))) + Cardinality(Units(On(k, T)))
  BY <1>1, UnitsAdd
<1>7. /\ Cardinality(Units(On(h, S))) \in Nat /\ Cardinality(Units(On(h, T))) \in Nat
      /\ Cardinality(Units(On(k, S))) \in Nat /\ Cardinality(Units(On(k, T))) \in Nat
  BY <1>2, UnitsCounted
<1> QED BY <1>4, <1>5, <1>6, <1>7

\* Nothing below -worst: the sum is not below so many times that.
LEMMA TotalBounded ==
    ASSUME NEW S, IsFiniteSet(S), NEW f \in [S -> Int], NEW worst \in Nat,
           \A i \in S : f[i] >= -worst
    PROVE  Total(f) >= -(Cardinality(S) * worst)
<1> DEFINE g == [i \in S |-> -f[i]]
           n == Cardinality(S)
<1>1. g \in [S -> Int] /\ Total(f) = Cardinality(Units(f)) - Cardinality(Units(g))
  BY DEF Total
<1>2. \A i \in S : g[i] \in Int /\ g[i] <= worst
  OBVIOUS
<1> HIDE DEF g
<1>3. Units(g) \subseteq S \X (1 .. worst)
  BY <1>1, <1>2 DEF Units
<1>4. IsFiniteSet(1 .. worst) /\ Cardinality(1 .. worst) = worst
  <2>1. 1 \in Int /\ worst \in Int
    OBVIOUS
  <2>2. /\ IsFiniteSet(1 .. worst)
        /\ Cardinality(1 .. worst) = IF 1 > worst THEN 0 ELSE worst - 1 + 1
    BY <2>1, FS_Interval, Zenon
  <2> QED BY <2>2
<1>5. IsFiniteSet(S \X (1 .. worst)) /\ Cardinality(S \X (1 .. worst)) = n * worst
  BY <1>4, FS_Product
<1>6. Cardinality(Units(g)) <= n * worst
  BY <1>3, <1>5, FS_Subset
<1>7. Cardinality(Units(f)) \in Nat /\ Cardinality(Units(g)) \in Nat /\ n \in Nat
  BY <1>1, UnitsCounted, FS_CardinalityType
<1>8. n * worst \in Nat
  BY <1>7
<1> HIDE DEF n
<1>9. Total(f) >= -(n * worst)
  BY <1>1, <1>6, <1>7, <1>8
<1> QED BY <1>9 DEF n

LEMMA TotalOfNone ==
    ASSUME NEW f, DOMAIN f = {}
    PROVE  Total(f) = 0
<1>1. Units(f) = {} /\ Units([i \in DOMAIN f |-> -f[i]]) = {}
  BY DEF Units
<1>2. Cardinality({}) = 0
  BY FS_EmptySet
<1> QED BY <1>1, <1>2 DEF Total

LEMMA Least ==
    ASSUME NEW T, T \subseteq Nat, T # {}
    PROVE  \E x \in T : \A y \in T : x <= y
<1>1. PICK x \in T : \A y \in T : ~(<<y, x>> \in OpToRel(<, Nat))
  BY NatLessThanWellFounded, WFMin
<1>2. ASSUME NEW y \in T PROVE x <= y
  <2>1. x \in Nat /\ y \in Nat
    OBVIOUS
  <2>2. ~(y < x)
    BY <1>1, <2>1 DEF OpToRel
  <2> QED BY <2>1, <2>2
<1> QED BY <1>2

\* A finite set of numbers has a highest one: the one with the fewest above.
LEMMA HighestNumber ==
    ASSUME NEW A, IsFiniteSet(A), A # {}, A \subseteq Int
    PROVE  Max(A) \in A /\ \A n \in A : n <= Max(A)
<1> DEFINE Above(k) == {n \in A : n > k}
           T == {Cardinality(Above(k)) : k \in A}
<1>1. \A k \in A : IsFiniteSet(Above(k)) /\ Cardinality(Above(k)) \in Nat
  BY FS_Subset, FS_CardinalityType
<1>2. T \subseteq Nat /\ T # {}
  BY <1>1
<1>3. PICK x \in T : \A y \in T : x <= y
  BY <1>2, Least
<1>4. PICK m \in A : x = Cardinality(Above(m))
  BY <1>3
<1>5. ASSUME NEW n \in A PROVE m >= n
  <2> SUFFICES ASSUME n > m PROVE FALSE
    OBVIOUS
  <2>1. Above(n) \subseteq Above(m) /\ n \in Above(m) /\ n \notin Above(n)
    <3>1. n \in Int /\ m \in Int /\ \A k \in A : k \in Int
      OBVIOUS
    <3>2. \A k \in A : k > n => k > m
      BY <3>1
    <3>3. \A k : k \in Above(n) => k \in Above(m)
      BY <3>2
    <3>4. n \in Above(m)
      OBVIOUS
    <3>5. n \notin Above(n)
      BY <3>1
    <3> QED BY <3>3, <3>4, <3>5
  <2>2. /\ Cardinality(Above(n)) <= Cardinality(Above(m))
        /\ Cardinality(Above(n)) # Cardinality(Above(m))
    BY <1>1, <2>1, FS_Subset
  <2>3. Cardinality(Above(m)) <= Cardinality(Above(n))
    BY <1>3, <1>4
  <2>4. Cardinality(Above(m)) \in Nat /\ Cardinality(Above(n)) \in Nat
    BY <1>1
  <2> HIDE DEF Above
  <2> QED BY <2>2, <2>3, <2>4
<1>6. \E k \in A : \A n \in A : k >= n
  BY <1>5
<1>7. Max(A) \in A /\ \A n \in A : Max(A) >= n
  BY <1>6, Zenon DEF Max
<1> QED BY <1>7

(***************************************************************************)
(* What a day can cost                                                     *)
(***************************************************************************)
LEMMA WorstIsWorst == WorstLoss \in Nat /\ \A r \in Results : r >= -WorstLoss
<1> DEFINE g == [r \in Results |-> -r]
           G == {g[r] : r \in Results}
           A == {0} \cup {-r : r \in Results}
<1>0. Results \subseteq Int /\ IsFiniteSet(Results)
  BY PipelineAssumption
<1>1. g \in Surjection(Results, G)
  BY DEF Surjection
<1>2. IsFiniteSet(G)
  BY <1>0, <1>1, FS_Surjection
<1>3. A = G \cup {0}
  OBVIOUS
<1>4. IsFiniteSet(A) /\ A # {}
  <2>1. IsFiniteSet(G \cup {0})
    BY <1>2, FS_AddElement
  <2> QED BY <2>1, <1>3
<1>5. A \subseteq Int /\ 0 \in A /\ \A r \in Results : -r \in A
  BY <1>0
<1> HIDE DEF A
<1>6. Max(A) \in A /\ \A n \in A : n <= Max(A)
  BY <1>4, <1>5, HighestNumber
<1>7. WorstLoss = Max(A)
  BY DEF WorstLoss, A
<1> DEFINE m == Max(A)
<1> HIDE DEF m
<1>8. m \in Int /\ 0 <= m /\ \A r \in Results : -r <= m
  BY <1>5, <1>6 DEF m
<1>9. m \in Nat /\ \A r \in Results : r >= -m
  BY <1>0, <1>8
<1> QED BY <1>7, <1>9 DEF m

\* A row was closed at some time up to now, with a result of the model.
Dated == \A i \in ClosedTrades : trades[i].closed <= now
Bounded == \A i \in DOMAIN trades : trades[i].pnl >= -WorstLoss

\* Positions that are open, or may be when the exchange has answered.
Slots == Cardinality(OpenTrades) + (IF Entering THEN 1 ELSE 0)

\* Today's loss would not be at the limit of what a day may lose even if each
\* position that may still be opened lost the most; on an earlier day every
\* position has been given its share.
SparedToday == ~LossReached(Pnl(ClosedOn(Day(now))) + (MaxOpen - Slots) * WorstLoss)
SparedOn(day) == ~LossReached(Pnl(ClosedOn(day)) + MaxOpen * WorstLoss)

Spared ==
    "daily_loss" \in Filters =>
        /\ SparedToday
        /\ \A day \in Nat : day # Day(now) => SparedOn(day)

MoneyInv == Dated /\ Bounded /\ Spared

LEMMA LessLoss ==
    ASSUME NEW p \in Int, NEW q \in Int, p <= q, ~LossReached(p)
    PROVE  ~LossReached(q)
<1> DEFINE limit == MaxDailyLoss * AccountBalance
<1>1. limit \in Nat
  BY QualityAssumption, PortfolioAssumption
<1>2. ~(p < 0 /\ -p * 100 >= limit)
  BY DEF LossReached
<1> HIDE DEF limit
<1>3. ~(q < 0 /\ -q * 100 >= limit)
  BY <1>1, <1>2
<1> QED BY <1>3 DEF LossReached, limit

LEMMA NoLoss == ASSUME NEW p \in Nat PROVE ~LossReached(p)
BY DEF LossReached

LEMMA Scaled ==
    ASSUME NEW w \in Nat, NEW x \in Int, NEW y \in Int, x <= y
    PROVE  /\ x * w \in Int /\ y * w \in Int /\ x * w <= y * w
           /\ (x + y) * w = x * w + y * w
<1>1. (y - x) * w >= 0
  OBVIOUS
<1>2. (y - x) * w = y * w - x * w
  OBVIOUS
<1> QED BY <1>1, <1>2

\* What is summed are integers.
LEMMA PnlIsInt ==
    ASSUME LedgerTypeOK, NEW rows \in SUBSET DOMAIN trades
    PROVE  Pnl(rows) \in Int /\ Cost(rows) \in Int
<1>1. IsFiniteSet(rows) /\ \A i \in rows : trades[i].pnl \in Int /\ trades[i].cost \in Int
  BY FiniteRows, Indices DEF Row
<1>2. /\ [i \in rows |-> trades[i].pnl] \in [rows -> Int]
      /\ [i \in rows |-> trades[i].cost] \in [rows -> Int]
  BY <1>1
<1>3. /\ Total([i \in rows |-> trades[i].pnl]) \in Int
      /\ Total([i \in rows |-> trades[i].cost]) \in Int
  BY <1>1, <1>2, TotalIsInt
<1> QED BY <1>3 DEF Pnl, Cost

\* The rows that a step closes, and what they bring the day.
LEMMA ClosingCosts ==
    ASSUME LedgerTypeOK, Kept, Bounded, now' = now
    PROVE  \E c \in Nat :
              /\ Cardinality(OpenTrades') \in Nat /\ Cardinality(OpenTrades) \in Nat
              /\ Cardinality(OpenTrades') + c = Cardinality(OpenTrades)
              /\ \A day : day # Day(now) => Pnl(ClosedOn(day))' = Pnl(ClosedOn(day))
              /\ Pnl(ClosedOn(Day(now)))' >= Pnl(ClosedOn(Day(now))) - c * WorstLoss
              /\ Pnl(ClosedOn(Day(now)))' \in Int
<1> DEFINE N == {i \in OpenTrades : ~trades'[i].open}
           S(day) == ClosedOn(day)
           v == [i \in DOMAIN trades |-> trades[i].pnl]
           v2 == [i \in DOMAIN trades |-> trades'[i].pnl]
<1>1. /\ DOMAIN trades' = DOMAIN trades
      /\ \A i \in DOMAIN trades :
            /\ ~trades[i].open => trades'[i] = trades[i]
            /\ trades'[i].open => trades[i].open
            /\ trades[i].open /\ ~trades'[i].open =>
                  trades'[i].closed = now /\ trades'[i].pnl = trades[i].pnl
  BY KeptRows DEF Kept
<1>2. OpenTrades \subseteq DOMAIN trades /\ N \subseteq OpenTrades
  BY DEF OpenTrades
<1>3. OpenTrades' = OpenTrades \ N /\ OpenTrades' \subseteq OpenTrades
  BY <1>1 DEF OpenTrades
<1>4. \A day : S(day)' = S(day) \cup (IF day = Day(now) THEN N ELSE {})
  <2> TAKE day
  <2>1. S(day)' \subseteq DOMAIN trades
    BY <1>1 DEF ClosedOn, ClosedTrades
  <2>2. ASSUME NEW i \in DOMAIN trades
        PROVE  i \in S(day)' <=> i \in S(day) \/ (day = Day(now) /\ i \in N)
    <3>1. CASE ~trades[i].open
      BY <1>1, <3>1 DEF ClosedOn, ClosedTrades, OpenTrades, Day
    <3>2. CASE trades[i].open /\ ~trades'[i].open
      BY <1>1, <3>2 DEF ClosedOn, ClosedTrades, OpenTrades, Day
    <3>3. CASE trades[i].open /\ trades'[i].open
      BY <1>1, <3>3 DEF ClosedOn, ClosedTrades, OpenTrades, Day
    <3> QED BY <3>1, <3>2, <3>3
  <2>3. S(day) \subseteq DOMAIN trades /\ N \subseteq DOMAIN trades
    BY <1>2 DEF ClosedOn, ClosedTrades
  <2> QED BY <2>1, <2>2, <2>3
<1>5. \A day : S(day) \subseteq DOMAIN trades /\ Apart(S(day), N)
               /\ \A i \in S(day) \cup N : trades'[i].pnl = trades[i].pnl
  BY <1>1, <1>2 DEF ClosedOn, ClosedTrades, OpenTrades, Apart
<1>6. \A i \in DOMAIN trades : trades[i].pnl \in Int /\ trades[i].pnl >= -WorstLoss
  BY Indices DEF Bounded, Row
<1> HIDE DEF N
<1>7. \A day : day # Day(now) => Pnl(ClosedOn(day))' = Pnl(ClosedOn(day))
  <2> TAKE day
  <2> HAVE day # Day(now)
  <2>1. S(day)' = S(day)
    BY <1>4
  <2>2. [i \in S(day) |-> trades'[i].pnl] = [i \in S(day) |-> trades[i].pnl]
    BY <1>5
  <2>3. Pnl(ClosedOn(day))' = Total([i \in S(day)' |-> trades'[i].pnl])
    BY DEF Pnl, Total, Units
  <2>4. [i \in S(day)' |-> trades'[i].pnl] = [i \in S(day) |-> trades[i].pnl]
    BY <2>1, <2>2
  <2>5. Pnl(ClosedOn(day)) = Total([i \in S(day) |-> trades[i].pnl])
    BY DEF Pnl
  <2> HIDE DEF S
  <2> QED BY <2>3, <2>4, <2>5
<1> DEFINE today == Day(now)
           c == Cardinality(N)
           h == [i \in S(today) \cup N |-> trades[i].pnl]
<1>8. IsFiniteSet(S(today)) /\ IsFiniteSet(N) /\ c \in Nat
  BY <1>2, <1>5, FiniteRows
<1>9. Pnl(ClosedOn(today))' = Total(h)
  <2>1. S(today)' = S(today) \cup N
    BY <1>4
  <2>2. [i \in S(today) \cup N |-> trades'[i].pnl] = h
    BY <1>5
  <2>3. today' = today
    BY DEF Day
  <2> QED BY <2>1, <2>2, <2>3 DEF Pnl, Total, Units
<1>10. h \in [S(today) \cup N -> Int]
  BY <1>2, <1>5, <1>6
<1>11. Apart(S(today), N)
  BY <1>5
<1>12. Pnl(ClosedOn(today)) = Total(On(h, S(today)))
  <2>1. [i \in S(today) |-> trades[i].pnl] = On(h, S(today))
    BY DEF On
  <2> QED BY <2>1 DEF Pnl
<1>13. On(h, N) \in [N -> Int] /\ \A i \in N : On(h, N)[i] >= -WorstLoss
  BY <1>2, <1>6 DEF On
<1>14. On(h, S(today)) \in [S(today) -> Int]
  BY <1>10 DEF On
<1> HIDE DEF h, S, today
<1>15. Total(h) = Total(On(h, S(today))) + Total(On(h, N))
  BY <1>8, <1>10, <1>11, TotalAdds
<1>16. Total(On(h, N)) >= -(c * WorstLoss) /\ Total(On(h, N)) \in Int
  BY <1>8, <1>13, WorstIsWorst, TotalBounded, TotalIsInt
<1>17. Total(On(h, S(today))) \in Int
  BY <1>8, <1>14, TotalIsInt
<1>18. c * WorstLoss \in Nat
  BY <1>8, WorstIsWorst
<1>19. /\ Pnl(ClosedOn(today))' >= Pnl(ClosedOn(today)) - c * WorstLoss
       /\ Pnl(ClosedOn(today))' \in Int
  BY <1>9, <1>12, <1>15, <1>16, <1>17, <1>18
<1>20. /\ Cardinality(OpenTrades') \in Nat /\ Cardinality(OpenTrades) \in Nat
       /\ Cardinality(OpenTrades') + c = Cardinality(OpenTrades)
  <2>1. IsFiniteSet(OpenTrades) /\ Cardinality(OpenTrades) \in Nat /\ OpenTrades \cap N = N
    BY <1>2, FiniteRows
  <2>2. /\ IsFiniteSet(OpenTrades \ N)
        /\ Cardinality(OpenTrades \ N) = Cardinality(OpenTrades) - Cardinality(OpenTrades \cap N)
    BY <2>1, FS_Difference
  <2>3. Cardinality(OpenTrades \ N) \in Nat
    BY <2>2, FS_CardinalityType
  <2>4. Cardinality(OpenTrades \cap N) = c
    BY <2>1
  <2> HIDE DEF c
  <2>5. Cardinality(OpenTrades \ N) + c = Cardinality(OpenTrades)
    BY <1>8, <2>1, <2>2, <2>4
  <2> QED BY <1>3, <2>1, <2>3, <2>5
<1> QED BY <1>7, <1>8, <1>19, <1>20 DEF today


LEMMA SlotsInRoom ==
    ASSUME LedgerTypeOK, Room
    PROVE  Slots \in Nat /\ MaxOpen - Slots \in Nat /\ MaxOpen \in Nat
<1>1. OpenTrades \in SUBSET DOMAIN trades
  BY DEF OpenTrades
<1>2. Cardinality(OpenTrades) \in Nat
  BY <1>1, FiniteRows
<1> QED BY <1>2, QualityAssumption DEF Room, Slots

LEMMA DayIsInt ==
    ASSUME LedgerTypeOK, NEW day
    PROVE  Pnl(ClosedOn(day)) \in Int
<1>1. ClosedOn(day) \in SUBSET DOMAIN trades
  BY DEF ClosedOn, ClosedTrades
<1> QED BY <1>1, PnlIsInt

\* More slots to spare, less of a loss.
LEMMA MoreSpared ==
    ASSUME NEW p \in Int, NEW k \in Nat, NEW n \in Nat, k <= n,
           ~LossReached(p + k * WorstLoss)
    PROVE  ~LossReached(p + n * WorstLoss)
<1>1. /\ k * WorstLoss \in Int /\ n * WorstLoss \in Int
      /\ k * WorstLoss <= n * WorstLoss
  BY WorstIsWorst, Scaled
<1> DEFINE a == k * WorstLoss
           b == n * WorstLoss
<1> HIDE DEF a, b
<1>2. p + a \in Int /\ p + b \in Int /\ p + a <= p + b
  BY <1>1 DEF a, b
<1>3. ~LossReached(p + a)
  BY DEF a
<1>4. ~LossReached(p + b)
  BY <1>2, <1>3, LessLoss
<1> QED BY <1>4 DEF b

LEMMA DatedNext ==
    ASSUME Typed, OneEach, Dated,
           \/ Idles
           \/ Settles
           \/ \E s \in Symbols : SignalCandle(s)
           \/ Executed
           \/ TimePasses
    PROVE  Dated'
<1>0. LedgerTypeOK /\ now \in Nat /\ \A i \in DOMAIN trades : trades[i].closed \in Int
  BY Indices DEF Typed, Row, Time
<1>1. CASE Idles \/ \E s \in Symbols : SignalCandle(s)
  <2>1. UNCHANGED <<now, trades>>
    BY <1>1 DEF Idles, SignalCandle, tables
  <2> QED BY <2>1 DEF Dated, ClosedTrades, OpenTrades
<1>2. CASE Settles
  <2>1. /\ DOMAIN trades' = DOMAIN trades
        /\ now' = now
        /\ \A i \in DOMAIN trades :
              /\ ~trades[i].open => trades'[i] = trades[i]
              /\ trades[i].open /\ ~trades'[i].open => trades'[i].closed = now
    BY <1>0, <1>2, KeptRows DEF Settles, Kept
  <2> QED BY <1>0, <2>1 DEF Dated, ClosedTrades, OpenTrades
<1>3. CASE Executed
  <2>1. /\ DOMAIN trades' = DOMAIN trades \cup {Len(trades) + 1}
        /\ \A i \in DOMAIN trades : trades'[i] = trades[i]
        /\ trades'[Len(trades) + 1].open = TRUE
    BY <1>3, Appended
  <2>2. now' = now
    BY <1>3 DEF Executed
  <2> QED BY <2>1, <2>2 DEF Dated, ClosedTrades, OpenTrades
<1>4. CASE TimePasses
  <2>1. now' = now + 1 /\ trades' = trades
    BY <1>4 DEF TimePasses, Tick, tables
  <2>2. \A i \in ClosedTrades : i \in DOMAIN trades
    BY DEF ClosedTrades
  <2>3. ClosedTrades' = ClosedTrades
    BY <2>1 DEF ClosedTrades, OpenTrades
  <2> QED BY <1>0, <2>1, <2>2, <2>3 DEF Dated
<1> QED BY <1>1, <1>2, <1>3, <1>4

LEMMA BoundedNext ==
    ASSUME Typed, OneEach, Bounded,
           \/ Idles
           \/ Settles
           \/ \E s \in Symbols : SignalCandle(s)
           \/ Executed
           \/ TimePasses
    PROVE  Bounded'
<1>1. CASE Idles \/ TimePasses \/ \E s \in Symbols : SignalCandle(s)
  BY <1>1 DEF Idles, TimePasses, SignalCandle, tables, Bounded
<1>2. CASE Settles
  <2>1. DOMAIN trades' = DOMAIN trades
    BY <1>2, KeptRows DEF Typed, Settles
  <2>2. \A i \in DOMAIN trades : trades'[i].pnl \in Results \cup {trades[i].pnl}
    BY <1>2 DEF Settles, Kept
  <2> QED BY <2>1, <2>2, WorstIsWorst DEF Bounded
<1>3. CASE Executed
  <2>1. /\ DOMAIN trades' = DOMAIN trades \cup {Len(trades) + 1}
        /\ \A i \in DOMAIN trades : trades'[i] = trades[i]
        /\ trades'[Len(trades) + 1].pnl = 0
    BY <1>3, Appended
  <2> QED BY <2>1, WorstIsWorst DEF Bounded
<1> QED BY <1>1, <1>2, <1>3

\* No row was closed after now: those closed on this day are those closed
\* since its start.
LEMMA ClosedThisDay ==
    ASSUME Typed, Dated
    PROVE  ClosedOn(Day(now)) = TradesClosedToday
<1>1. /\ now \in Nat
      /\ DayLength \in Nat \ {0}
      /\ \A i \in ClosedTrades :
            /\ trades[i].closed \in Nat
            /\ trades[i].closed <= now
  BY Indices, LedgerAssumption DEF Typed, Row, Time, Dated, ClosedTrades
<1>2. \A t \in Nat : t <= now =>
         (t >= (now \div DayLength) * DayLength
            <=> t \div DayLength = now \div DayLength)
  BY <1>1
<1> QED BY <1>1, <1>2 DEF ClosedOn, TradesClosedToday, TodayStart, Day

\* On a day that has just begun nothing was closed.
LEMMA NothingClosedYet ==
    ASSUME Typed, Dated, NEW day, day > Day(now), day \in Nat
    PROVE  Pnl(ClosedOn(day)) = 0
<1>1. /\ now \in Nat
      /\ DayLength \in Nat \ {0}
      /\ \A i \in ClosedTrades :
            /\ trades[i].closed \in Nat
            /\ trades[i].closed <= now
  BY Indices, LedgerAssumption DEF Typed, Row, Time, Dated, ClosedTrades
<1>2. \A t \in Nat : t <= now => t \div DayLength <= now \div DayLength
  BY <1>1
<1>3. now \div DayLength \in Nat /\ \A t \in Nat : t \div DayLength \in Nat
  BY <1>1
<1>4. ClosedOn(day) = {}
  BY <1>1, <1>2, <1>3 DEF ClosedOn, Day
<1> QED BY <1>4, TotalOfNone DEF Pnl

\* Neither an unchanged table nor a new row changes what a day has brought.
LEMMA SameDays ==
    ASSUME Typed, OneEach, trades' = trades \/ Executed
    PROVE  \A day : Pnl(ClosedOn(day))' = Pnl(ClosedOn(day))
<1>1. CASE trades' = trades
  BY <1>1 DEF Pnl, Total, Units, ClosedOn, ClosedTrades, OpenTrades, Day
<1>2. CASE Executed
  <2> TAKE day
  <2>1. /\ DOMAIN trades' = DOMAIN trades \cup {Len(trades) + 1}
        /\ \A i \in DOMAIN trades : trades'[i] = trades[i]
        /\ trades'[Len(trades) + 1].open = TRUE
    BY <1>2, Appended
  <2>2. ClosedOn(day)' = ClosedOn(day)
    BY <2>1 DEF ClosedOn, ClosedTrades, OpenTrades, Day
  <2>3. ClosedOn(day) \subseteq DOMAIN trades
    BY DEF ClosedOn, ClosedTrades
  <2>4. [i \in ClosedOn(day) |-> trades'[i].pnl] = [i \in ClosedOn(day) |-> trades[i].pnl]
    BY <2>1, <2>3
  <2>5. Pnl(ClosedOn(day))' = Total([i \in ClosedOn(day)' |-> trades'[i].pnl])
    BY DEF Pnl, Total, Units
  <2>6. Pnl(ClosedOn(day)) = Total([i \in ClosedOn(day) |-> trades[i].pnl])
    BY DEF Pnl
  <2> QED BY <2>2, <2>4, <2>5, <2>6
<1> QED BY <1>1, <1>2

\* What is spared today is spared when everything else has been lost.
LEMMA TodayIsADay ==
    ASSUME LedgerTypeOK, Room, SparedToday
    PROVE  SparedOn(Day(now))
<1>1. Slots \in Nat /\ MaxOpen - Slots \in Nat /\ MaxOpen \in Nat
  BY SlotsInRoom
<1>2. Pnl(ClosedOn(Day(now))) \in Int
  BY DayIsInt
<1>3. MaxOpen - Slots <= MaxOpen
  BY <1>1
<1> QED BY <1>1, <1>2, <1>3, MoreSpared DEF SparedToday, SparedOn

LEMMA Distributed ==
    ASSUME NEW w \in Nat, NEW x \in Int, NEW y \in Int
    PROVE  (x + y) * w = x * w + y * w
OBVIOUS

\* Every position closed today brings its part of the loss, and frees it.
LEMMA SparedByClosing ==
    ASSUME NEW p \in Int, NEW q \in Int, NEW c \in Nat, NEW k \in Nat,
           NEW n \in Nat, k + c <= n, q >= p - c * WorstLoss,
           ~LossReached(p + k * WorstLoss)
    PROVE  ~LossReached(q + n * WorstLoss)
<1>0. WorstLoss \in Nat
  BY WorstIsWorst
<1>1. (k + c) * WorstLoss = k * WorstLoss + c * WorstLoss
  BY <1>0, Distributed
<1>2. /\ k * WorstLoss \in Int /\ c * WorstLoss \in Int /\ n * WorstLoss \in Int
      /\ (k + c) * WorstLoss <= n * WorstLoss
  BY <1>0, Scaled
<1> DEFINE a == k * WorstLoss
           b == n * WorstLoss
           d == c * WorstLoss
           e == (k + c) * WorstLoss
<1>3. /\ a \in Int /\ b \in Int /\ d \in Int /\ e = a + d /\ e <= b /\ q >= p - d
      /\ ~LossReached(p + a)
  BY <1>1, <1>2
<1> HIDE DEF a, b, d, e
<1>4. p + a \in Int /\ q + b \in Int /\ p + a <= q + b
  BY <1>3
<1>5. ~LossReached(q + b)
  BY <1>3, <1>4, LessLoss
<1> QED BY <1>5 DEF b

\* Slots that are taken and those that are left.
LEMMA LeftBySettling ==
    ASSUME NEW held \in Nat, NEW now_held \in Nat, NEW c \in Nat,
           NEW n \in Nat, NEW left, now_held + c = held, now_held <= MaxOpen,
           n <= MaxOpen - held, left = MaxOpen - (now_held + 0)
    PROVE  left \in Nat /\ n + c <= left
BY QualityAssumption

LEMMA LeftByEntering ==
    ASSUME NEW held \in Nat, NEW now_held \in Nat, NEW n \in Nat, NEW left,
           now_held <= held + 1, now_held <= MaxOpen,
           n = MaxOpen - (held + 1), left = MaxOpen - (now_held + 0)
    PROVE  left \in Nat /\ n <= left
BY QualityAssumption

LEMMA SparedTodayNext ==
    ASSUME Typed, OneEach, Room, Room', Dated, Bounded,
           "daily_loss" \in Filters, SparedToday,
           \/ Idles
           \/ Settles
           \/ \E s \in Symbols : SignalCandle(s)
           \/ Executed
           \/ TimePasses
    PROVE  SparedToday'
<1>0. LedgerTypeOK
  BY DEF Typed
<1> DEFINE today == Day(now)
           p == Pnl(ClosedOn(today))
           n == MaxOpen - Slots
           held == Cardinality(OpenTrades)
<1>1. /\ p \in Int /\ n \in Nat /\ ~LossReached(p + n * WorstLoss)
      /\ MaxOpen \in Nat /\ held \in Nat /\ WorstLoss \in Nat
  <2>1. OpenTrades \in SUBSET DOMAIN trades
    BY DEF OpenTrades
  <2> QED BY <1>0, <2>1, DayIsInt, FiniteRows, SlotsInRoom, WorstIsWorst DEF SparedToday
<1>2. /\ Entering => n = MaxOpen - (held + 1)
      /\ ~Entering => n = MaxOpen - (held + 0)
      /\ Entering' => n' = MaxOpen - (held' + 1)
      /\ ~Entering' => n' = MaxOpen - (held' + 0)
      /\ held' <= MaxOpen /\ (Entering' => held' < MaxOpen)
  BY DEF Slots, Room
<1>3. SparedToday' <=> ~LossReached(p' + n' * WorstLoss)
  BY DEF SparedToday, LossReached, WorstLoss
<1>4. ASSUME now' = now, trades' = trades \/ Executed PROVE p' = p
  <2>1. today' = today
    BY <1>4 DEF Day
  <2>2. \A day : Pnl(ClosedOn(day))' = Pnl(ClosedOn(day))
    BY <1>4, SameDays
  <2>3. \A day : day = today' => p' = Pnl(ClosedOn(day))'
    BY DEF Pnl, Total, Units, ClosedOn, ClosedTrades, OpenTrades, Day
  <2> HIDE DEF today
  <2> QED BY <2>1, <2>2, <2>3
<1>5. CASE Idles
  <2>1. p' = p
    BY <1>4, <1>5 DEF Idles
  <2>2. n' = n
    BY <1>5 DEF Idles, Slots, OpenTrades, Entering
  <2> HIDE DEF p, n
  <2> QED BY <1>1, <1>3, <2>1, <2>2
<1>6. CASE Settles
  <2>1. Kept /\ now' = now /\ ~Entering'
    BY <1>6 DEF Settles, Entering
  <2>2. PICK c \in Nat :
           /\ held' \in Nat
           /\ held' + c = held
           /\ p' >= p - c * WorstLoss
           /\ p' \in Int
    BY <1>0, <2>1, ClosingCosts
  <2> HIDE DEF p, n, held
  <2>3. n' \in Nat /\ n + c <= n'
    <3>1. n' = MaxOpen - (held' + 0)
      BY <1>2, <2>1
    <3>2. n <= MaxOpen - held
      BY <1>1, <1>2
    <3> QED BY <1>1, <1>2, <2>2, <3>1, <3>2, LeftBySettling
  <2> QED BY <1>1, <1>3, <2>2, <2>3, SparedByClosing
<1>7. ASSUME NEW s \in Symbols, SignalCandle(s) PROVE SparedToday'
  <2>1. UNCHANGED <<now, trades>> /\ Entering' /\ ~LossReached(Pnl(TradesClosedToday))
    BY <1>7 DEF SignalCandle, tables, Entering, At, Validate, DailyLossValid
  <2>2. p' = p
    BY <1>4, <2>1
  <2>3. ~LossReached(p)
    BY <2>1, ClosedThisDay
  <2>4. held' = held
    BY <2>1 DEF OpenTrades
  <2> HIDE DEF p, n, held
  <2>5. n' \in Nat
    <3>1. n' = MaxOpen - (held + 1) /\ held < MaxOpen
      BY <1>2, <2>1, <2>4
    <3> QED BY <1>1, <3>1
  <2>6. 0 * WorstLoss = 0 /\ p + 0 = p
    BY <1>1
  <2>7. ~LossReached(p + 0 * WorstLoss)
    BY <2>3, <2>6
  <2>8. ASSUME NEW k \in Nat PROVE ~LossReached(p + k * WorstLoss)
    <3>1. p \in Int /\ 0 \in Nat /\ 0 <= k
      BY <1>1
    <3> QED BY <2>7, <3>1, MoreSpared
  <2> QED BY <1>3, <2>2, <2>5, <2>8
<1>8. CASE Executed
  <2>1. Entering /\ ~Entering' /\ now' = now
    BY <1>8 DEF Executed, Entering, At
  <2>2. p' = p
    BY <1>4, <1>8, <2>1
  <2>3. held' \in Nat /\ held' <= held + 1
    <3>1. /\ DOMAIN trades' = DOMAIN trades \cup {Len(trades) + 1}
          /\ \A i \in DOMAIN trades : trades'[i] = trades[i]
          /\ trades'[Len(trades) + 1].open = TRUE
      BY <1>8, Appended
    <3>2. OpenTrades' = OpenTrades \cup {Len(trades) + 1}
      BY <3>1 DEF OpenTrades
    <3>3. OpenTrades \in SUBSET DOMAIN trades
      BY DEF OpenTrades
    <3> QED BY <1>0, <3>2, <3>3, OneRowMore
  <2> HIDE DEF p, n, held
  <2>4. n' \in Nat /\ n <= n'
    <3>1. n' = MaxOpen - (held' + 0) /\ n = MaxOpen - (held + 1)
      BY <1>2, <2>1
    <3>2. held' <= MaxOpen /\ held' \in Nat /\ held' <= held + 1 /\ held \in Nat /\ n \in Nat
      BY <1>1, <1>2, <2>3
    <3> QED BY <3>1, <3>2, LeftByEntering
  <2>5. ~LossReached(p + n' * WorstLoss)
    BY <1>1, <2>4, MoreSpared
  <2> QED BY <1>3, <2>2, <2>5
<1>9. CASE TimePasses
  <2>1. now' = now + 1 /\ now \in Nat /\ UNCHANGED <<trades, task>>
    BY <1>0, <1>9, Indices DEF TimePasses, Tick, tables, memory
  <2>2. n' = n
    BY <2>1 DEF Slots, OpenTrades, Entering
  <2>3. today \in Nat /\ today' \in Nat /\ today <= today'
    BY <2>1, LedgerAssumption DEF Day
  <2>4. p' = Pnl(ClosedOn(today'))
    BY <2>1 DEF Pnl, Total, Units, ClosedOn, ClosedTrades, OpenTrades, Day
  <2>5. CASE today' = today
    <3>1. p' = p
      BY <2>4, <2>5
    <3> HIDE DEF p, n
    <3> QED BY <1>1, <1>3, <2>2, <3>1
  <2>6. CASE today' # today
    <3>1. today' > today
      BY <2>3, <2>6
    <3>2. p' = 0
      BY <2>3, <2>4, <3>1, NothingClosedYet
    <3> HIDE DEF p, n
    <3>3. p' + n' * WorstLoss \in Nat
      BY <1>1, <2>2, <3>2
    <3> QED BY <1>3, <3>3, NoLoss
  <2> QED BY <2>5, <2>6
<1> QED BY <1>5, <1>6, <1>7, <1>8, <1>9

LEMMA SparedNext ==
    ASSUME Typed, OneEach, Room, Room', MoneyInv,
           \/ Idles
           \/ Settles
           \/ \E s \in Symbols : SignalCandle(s)
           \/ Executed
           \/ TimePasses
    PROVE  Spared'
<1> SUFFICES ASSUME "daily_loss" \in Filters
             PROVE  SparedToday' /\ \A day \in Nat : day # Day(now)' => SparedOn(day)'
  BY DEF Spared
<1>0. /\ LedgerTypeOK /\ Dated /\ Bounded /\ SparedToday
      /\ \A day \in Nat : day # Day(now) => SparedOn(day)
  BY DEF Typed, MoneyInv, Spared
<1>1. SparedToday'
  BY <1>0, SparedTodayNext
<1>2. ASSUME NEW day \in Nat, day # Day(now)' PROVE SparedOn(day)'
  <2>1. SparedOn(day)' <=> ~LossReached(Pnl(ClosedOn(day))' + MaxOpen * WorstLoss)
    BY DEF SparedOn, LossReached, WorstLoss
  <2>2. CASE Idles \/ Executed \/ \E s \in Symbols : SignalCandle(s)
    <3>1. now' = now /\ (trades' = trades \/ Executed)
      BY <2>2 DEF Idles, Executed, SignalCandle, tables
    <3>2. Pnl(ClosedOn(day))' = Pnl(ClosedOn(day))
      BY <3>1, SameDays
    <3>3. SparedOn(day)
      BY <1>0, <1>2, <3>1 DEF Day
    <3> QED BY <2>1, <3>2, <3>3 DEF SparedOn
  <2>3. CASE Settles
    <3>1. Kept /\ now' = now
      BY <2>3 DEF Settles
    <3>2. day # Day(now)
      BY <1>2, <3>1 DEF Day
    <3>3. Pnl(ClosedOn(day))' = Pnl(ClosedOn(day))
      BY <1>0, <3>1, <3>2, ClosingCosts
    <3>4. SparedOn(day)
      BY <1>0, <3>2
    <3> QED BY <2>1, <3>3, <3>4 DEF SparedOn
  <2>4. CASE TimePasses
    <3>1. Pnl(ClosedOn(day))' = Pnl(ClosedOn(day))
      BY <2>4, SameDays DEF TimePasses, tables
    <3>2. SparedOn(day)
      BY <1>0, TodayIsADay
    <3> QED BY <2>1, <3>1, <3>2 DEF SparedOn
  <2> QED BY <2>2, <2>3, <2>4
<1> QED BY <1>1, <1>2

\* What the days may lose is kept along with the limits: a day is closed for
\* new positions when its loss has reached the limit, and each position that
\* is open by then, or being opened, brings one worst loss more at most.
THEOREM MoneyInvariant == Spec => []MoneyInv
<1>1. Init => MoneyInv
  <2> SUFFICES ASSUME Init PROVE MoneyInv
    OBVIOUS
  <2>1. /\ DOMAIN trades = {} /\ ~Entering /\ now = 0
        /\ \A day : ClosedOn(day) = {}
        /\ OpenTrades = {}
    BY DEF Init, At, Entering, ClosedOn, ClosedTrades, OpenTrades
  <2>2. Dated /\ Bounded
    BY <2>1 DEF Dated, Bounded, ClosedTrades
  <2>3. \A day : Pnl(ClosedOn(day)) = 0
    BY <2>1, TotalOfNone DEF Pnl
  <2>4. Slots = 0
    BY <2>1, FS_EmptySet DEF Slots
  <2>5. WorstLoss \in Nat /\ MaxOpen \in Nat
    BY WorstIsWorst, QualityAssumption
  <2>6. 0 + (MaxOpen - 0) * WorstLoss \in Nat /\ 0 + MaxOpen * WorstLoss \in Nat
    BY <2>5
  <2>7. SparedToday /\ \A day \in Nat : SparedOn(day)
    BY <2>3, <2>4, <2>6, NoLoss DEF SparedToday, SparedOn
  <2> QED BY <2>2, <2>7 DEF MoneyInv, Spared
<1>2. IInv /\ IInv' /\ MoneyInv /\ [Next]_vars => MoneyInv'
  <2> SUFFICES ASSUME IInv, IInv', MoneyInv, [Next]_vars PROVE MoneyInv'
    OBVIOUS
  <2>1. \/ Idles
        \/ Settles
        \/ \E s \in Symbols : SignalCandle(s)
        \/ Executed
        \/ TimePasses
    BY Classified
  <2>2. Typed /\ OneEach /\ Room /\ Room' /\ Dated /\ Bounded
    BY DEF IInv, MoneyInv
  <2>3. Dated'
    BY <2>1, <2>2, DatedNext
  <2>4. Bounded'
    BY <2>1, <2>2, BoundedNext
  <2>5. Spared'
    BY <2>1, <2>2, SparedNext
  <2> QED BY <2>3, <2>4, <2>5 DEF MoneyInv
<1> QED BY <1>1, <1>2, LimitsInvariant, PTL DEF Spec

\* The loss of a UTC day goes beyond max_daily_loss by one worst loss for each
\* position that may be open, at most: for every limit, length of a day,
\* number of positions and finite set of results.
THEOREM DailyLossKept == Spec => []DailyLossBounded
<1>1. IInv /\ MoneyInv => DailyLossBounded
  <2> SUFFICES ASSUME IInv, MoneyInv, "daily_loss" \in Filters, NEW t \in Time
               PROVE  ~LossReached(Pnl(ClosedOn(Day(t))) + MaxOpen * WorstLoss)
    BY DEF DailyLossBounded
  <2>1. Day(t) \in Nat
    BY LedgerAssumption DEF Day, Time
  <2>2. SparedOn(Day(now))
    BY TodayIsADay DEF IInv, Typed, MoneyInv, Spared
  <2>3. SparedOn(Day(t))
    BY <2>1, <2>2 DEF MoneyInv, Spared
  <2> QED BY <2>3 DEF SparedOn
<1> QED BY <1>1, LimitsInvariant, MoneyInvariant, PTL

(***************************************************************************)
(* The account                                                             *)
(***************************************************************************)
\* In paper mode every snapshot starts from the one configured balance.
OneInitial ==
    mode = "paper" =>
        balance = AccountBalance /\ \A p \in peaks : p.initial = AccountBalance

AccountInv ==
    /\ PortfolioTypeOK
    /\ IsFiniteSet(peaks)
    /\ session \in 0 .. MaxSessions
    /\ OneInitial

LEMMA AccountIsInt ==
    ASSUME LedgerTypeOK, PortfolioTypeOK
    PROVE  /\ Pnl(ClosedTrades) \in Int /\ Pnl(OpenTrades) \in Int
           /\ Equity \in Int /\ FreeUsdt \in Nat
<1>1. ClosedTrades \in SUBSET DOMAIN trades /\ OpenTrades \in SUBSET DOMAIN trades
  BY DEF ClosedTrades, OpenTrades
<1>2. Pnl(ClosedTrades) \in Int /\ Pnl(OpenTrades) \in Int /\ Cost(OpenTrades) \in Int
  BY <1>1, PnlIsInt
<1>3. balance \in Int /\ Deposit \in Int
  BY PortfolioAssumption DEF PortfolioTypeOK
<1>4. Equity \in Int
  BY <1>2, <1>3 DEF Equity
<1>5. Deposit + Pnl(ClosedTrades) - Cost(OpenTrades) \in Int
  BY <1>2, <1>3
<1>6. FreeUsdt \in Nat
  BY <1>5 DEF FreeUsdt, AtLeastZero
<1> QED BY <1>2, <1>4, <1>6

\* The highest equity on record is a record's, or zero.
LEMMA HighestOnRecord ==
    ASSUME PortfolioTypeOK, IsFiniteSet(peaks), NEW initial
    PROVE  /\ MaxEquity(initial) \in Nat
           /\ \A p \in peaks : p.initial = initial => p.equity <= MaxEquity(initial)
<1> DEFINE Q == {q \in peaks : q.initial = initial}
           g == [q \in Q |-> q.equity]
           G == {g[q] : q \in Q}
           A == {0} \cup {p.equity : p \in Q}
<1>1. IsFiniteSet(Q)
  BY FS_Subset
<1>2. g \in Surjection(Q, G)
  BY DEF Surjection
<1>3. IsFiniteSet(G)
  BY <1>1, <1>2, FS_Surjection
<1>4. A = G \cup {0}
  OBVIOUS
<1>5. IsFiniteSet(A)
  <2>1. IsFiniteSet(G \cup {0})
    BY <1>3, FS_AddElement
  <2> QED BY <2>1, <1>4
<1>6. A \subseteq Nat /\ 0 \in A /\ \A p \in peaks : p.initial = initial => p.equity \in A
  BY DEF PortfolioTypeOK, Peak
<1>7. MaxEquity(initial) = Max(A)
  BY DEF MaxEquity
<1> HIDE DEF A
<1>8. Max(A) \in A /\ \A n \in A : n <= Max(A)
  BY <1>5, <1>6, HighestNumber
<1> QED BY <1>6, <1>7, <1>8

LEMMA HighestOfTwo ==
    ASSUME NEW a \in Int, NEW b \in Int
    PROVE  Max({a, b}) \in {a, b} /\ a <= Max({a, b}) /\ b <= Max({a, b})
<1> DEFINE A == {a, b}
           S == {a}
<1>1. A = S \cup {b} /\ IsFiniteSet(S)
  BY FS_Singleton
<1>2. IsFiniteSet(A)
  <2> HIDE DEF A, S
  <2> QED BY <1>1, FS_AddElement
<1>3. a \in A /\ b \in A /\ A \subseteq Int /\ A # {}
  OBVIOUS
<1>4. Max(A) \in A /\ \A n \in A : n <= Max(A)
  BY <1>2, <1>3, HighestNumber
<1> QED BY <1>3, <1>4

LEMMA HighestOfFour ==
    ASSUME NEW a \in Int, NEW b \in Int, NEW c \in Int, NEW d \in Int
    PROVE  /\ Max({a, b, c, d}) \in {a, b, c, d}
           /\ a <= Max({a, b, c, d}) /\ b <= Max({a, b, c, d})
           /\ c <= Max({a, b, c, d}) /\ d <= Max({a, b, c, d})
<1> DEFINE A == {a, b, c, d}
           S == {a}
           T == S \cup {b}
           U == T \cup {c}
<1>1. A = U \cup {d} /\ IsFiniteSet(S)
  BY FS_Singleton
<1>2. IsFiniteSet(A)
  <2> HIDE DEF S
  <2>1. IsFiniteSet(T)
    BY <1>1, FS_AddElement
  <2> HIDE DEF T
  <2>2. IsFiniteSet(U)
    BY <2>1, FS_AddElement
  <2> HIDE DEF U, A
  <2> QED BY <1>1, <2>2, FS_AddElement
<1>3. a \in A /\ b \in A /\ c \in A /\ d \in A /\ A \subseteq Int /\ A # {}
  OBVIOUS
<1>4. Max(A) \in A /\ \A n \in A : n <= Max(A)
  BY <1>2, <1>3, HighestNumber
<1> QED BY <1>3, <1>4

LEMMA PercentIsNat ==
    ASSUME NEW peak \in Int, NEW equity \in Int
    PROVE  DrawdownPercent(peak, equity) \in Nat
<1>1. CASE peak <= 0
  BY <1>1 DEF DrawdownPercent
<1>2. CASE peak > 0
  <2>1. AtLeastZero(peak - equity) \in Nat
    BY DEF AtLeastZero
  <2>2. 20000 * AtLeastZero(peak - equity) + peak \in Nat /\ 2 * peak \in Nat \ {0}
    BY <1>2, <2>1
  <2>3. (20000 * AtLeastZero(peak - equity) + peak) \div (2 * peak) \in Nat
    BY <2>2
  <2> QED BY <1>2, <2>3 DEF DrawdownPercent
<1> QED BY <1>1, <1>2

\* A snapshot: the peak it measures from, and the record it leaves.
LEMMA SnapshotBuilt ==
    ASSUME LedgerTypeOK, PortfolioTypeOK, IsFiniteSet(peaks), BuildSnapshot
    PROVE  /\ \E peak \in Int :
                 /\ drawdown' = DrawdownPercent(peak, Equity)
                 /\ \A p \in peaks : p.initial = balance => p.equity <= peak
           /\ drawdown' \in Nat
           /\ peaks' \subseteq Peak
           /\ IsFiniteSet(peaks')
           /\ \A p \in peaks' : p \in peaks \/ p.initial = balance
<1> DEFINE realized == balance + Pnl(ClosedTrades)
           top == MaxEquity(balance)
           peak == Max({balance, realized, Equity, top})
           high == Max({AtLeastZero(Equity), top})
           record == [initial |-> balance, equity |-> high]
<1>1. /\ balance \in Nat /\ realized \in Int /\ Equity \in Int
      /\ AtLeastZero(Equity) \in Nat
  BY AccountIsInt DEF PortfolioTypeOK, AtLeastZero
<1>2. top \in Nat /\ \A p \in peaks : p.initial = balance => p.equity <= top
  BY HighestOnRecord
<1>3. /\ drawdown' = DrawdownPercent(peak, Equity)
      /\ peaks' = {p \in peaks : p.initial # balance} \cup {record}
  BY DEF BuildSnapshot
<1> HIDE DEF realized, top
<1>4. peak \in Int /\ top <= peak
  <2>1. balance \in Int /\ realized \in Int /\ Equity \in Int /\ top \in Int
    BY <1>1, <1>2
  <2>2. peak \in {balance, realized, Equity, top} /\ top <= peak
    BY <2>1, HighestOfFour
  <2> HIDE DEF peak
  <2> QED BY <2>1, <2>2
<1>5. high \in Nat
  <2> DEFINE floor == AtLeastZero(Equity)
  <2>1. floor \in Nat /\ top \in Nat
    BY <1>1, <1>2
  <2> HIDE DEF floor
  <2>2. floor \in Int /\ top \in Int
    BY <2>1
  <2>3. Max({floor, top}) \in {floor, top}
    BY <2>2, HighestOfTwo
  <2>4. Max({floor, top}) \in Nat
    BY <2>1, <2>3
  <2> QED BY <2>4 DEF floor
<1>6. record \in Peak /\ record.initial = balance
  BY <1>1, <1>5 DEF Peak
<1> HIDE DEF peak, high, record
<1>7. drawdown' \in Nat
  BY <1>1, <1>3, <1>4, PercentIsNat
<1>8. peaks' \subseteq Peak /\ \A p \in peaks' : p \in peaks \/ p.initial = balance
  BY <1>3, <1>6 DEF PortfolioTypeOK
<1>9. IsFiniteSet(peaks')
  <2>1. IsFiniteSet({p \in peaks : p.initial # balance})
    BY FS_Subset
  <2> QED BY <1>3, <2>1, FS_AddElement
<1>10. \A p \in peaks : p.initial = balance => p.equity <= peak
  BY <1>2, <1>4 DEF PortfolioTypeOK, Peak
<1> QED BY <1>3, <1>4, <1>7, <1>8, <1>9, <1>10

\* What a step may do to the account.
Rests == UNCHANGED <<mode, balance, drawdown, peaks, session>>

Snapshots ==
    /\ BuildSnapshot
    /\ balance' \in {balance, AccountBalance}
    /\ UNCHANGED <<mode, session>>

Resets == balance' = AccountBalance /\ UNCHANGED <<mode, drawdown, peaks, session>>

LEMMA AccountSteps ==
    ASSUME [Next]_vars
    PROVE  Rests \/ Snapshots \/ Resets \/ Start
<1>1. ASSUME NEW s \in Symbols, QuietCandle(s) \/ SignalCandle(s) PROVE Rests
  BY <1>1 DEF QuietCandle, SignalCandle, Rests, memory, tables
<1>2. CASE Executed \/ NotExecuted \/ Manage \/ Exit
  BY <1>2 DEF Executed, NotExecuted, Manage, Exit, Rests, memory
<1>3. CASE TimePasses
  BY <1>3 DEF TimePasses, Rests, memory, tables
<1>4. CASE PeriodicSnapshot \/ Connect
  BY <1>4 DEF PeriodicSnapshot, Connect, Snapshots, memory
<1>5. CASE Stop
  BY <1>5 DEF Stop, Ends, Snapshots
<1>6. CASE Killed
  BY <1>6 DEF Killed, Ends, Resets
<1>7. CASE UNCHANGED vars
  BY <1>7 DEF vars, Rests
<1> QED BY <1>1, <1>2, <1>3, <1>4, <1>5, <1>6, <1>7 DEF Next

LEMMA AccountNext ==
    ASSUME LedgerTypeOK, AccountInv, [Next]_vars
    PROVE  AccountInv'
<1>0. PortfolioTypeOK /\ IsFiniteSet(peaks) /\ session \in 0 .. MaxSessions /\ OneInitial
  BY DEF AccountInv
<1>1. CASE Rests
  BY <1>0, <1>1 DEF Rests, AccountInv, PortfolioTypeOK, OneInitial
<1>2. CASE Snapshots
  <2>1. /\ drawdown' \in Nat /\ peaks' \subseteq Peak /\ IsFiniteSet(peaks')
        /\ \A p \in peaks' : p \in peaks \/ p.initial = balance
    BY <1>0, <1>2, SnapshotBuilt DEF Snapshots
  <2>2. /\ mode' = mode /\ session' = session
        /\ balance' \in {balance, AccountBalance}
    BY <1>2 DEF Snapshots
  <2>3. PortfolioTypeOK'
    BY <1>0, <2>1, <2>2, PortfolioAssumption DEF PortfolioTypeOK
  <2>4. OneInitial'
    BY <1>0, <2>1, <2>2 DEF OneInitial
  <2> QED BY <1>0, <2>1, <2>2, <2>3, <2>4 DEF AccountInv
<1>3. CASE Resets
  BY <1>0, <1>3, PortfolioAssumption DEF Resets, AccountInv, PortfolioTypeOK, OneInitial
<1>4. CASE Start
  <2>1. /\ UNCHANGED <<mode, drawdown, peaks>>
        /\ session < MaxSessions /\ session' = session + 1
        /\ balance' = balance \/ (mode = "live" /\ balance' = FreeUsdt)
    BY <1>4 DEF Start
  <2>2. balance' \in Nat
    BY <1>0, <2>1, AccountIsInt DEF PortfolioTypeOK
  <2>3. session' \in 0 .. MaxSessions
    BY <1>0, <2>1, PipelineAssumption
  <2> QED BY <1>0, <2>1, <2>2, <2>3 DEF AccountInv, PortfolioTypeOK, OneInitial
<1> QED BY <1>1, <1>2, <1>3, <1>4, AccountSteps

THEOREM AccountInvariant == Spec => []AccountInv
<1>1. Init => AccountInv
  <2> SUFFICES ASSUME Init PROVE AccountInv
    OBVIOUS
  <2>1. PortfolioTypeOK /\ OneInitial
    BY PortfolioAssumption DEF Init, PortfolioTypeOK, OneInitial
  <2>2. IsFiniteSet(peaks) /\ session \in 0 .. MaxSessions
    BY FS_EmptySet, PipelineAssumption DEF Init
  <2> QED BY <2>1, <2>2 DEF AccountInv
<1>2. IInv /\ AccountInv /\ [Next]_vars => AccountInv'
  BY AccountNext DEF IInv, Typed
<1> QED BY <1>1, <1>2, LimitsInvariant, PTL DEF Spec

\* The types of all that the gates read and the sessions keep; the balance
\* and the drawdown are never below zero.
THEOREM SignalTypeCorrect == Spec => []TypeOK
<1>1. IInv /\ AccountInv => TypeOK
  BY DEF IInv, Typed, AccountInv, TypeOK
<1> QED BY <1>1, LimitsInvariant, AccountInvariant, PTL

(***************************************************************************)
(* The drawdown                                                            *)
(***************************************************************************)
LEMMA Cancelled ==
    ASSUME NEW p \in Nat, p > 0, NEW x \in Int, NEW y \in Int, p * x <= p * y
    PROVE  x <= y
<1> SUFFICES ASSUME x - y >= 1 PROVE FALSE
  OBVIOUS
<1>1. p * (x - y) >= p
  BY SMT
<1>2. p * (x - y) = p * x - p * y
  BY SMT
<1> QED BY <1>1, <1>2

LEMMA Divided ==
    ASSUME NEW x \in Nat, NEW y \in Nat, y > 0
    PROVE  /\ x \div y \in Nat
           /\ (x \div y) * y <= x
           /\ \A q \in Nat : q * y <= x => q <= x \div y
<1>1. x \div y \in Nat /\ (x \div y) * y <= x /\ x < (x \div y) * y + y
  BY SMT
<1> DEFINE d == x \div y
<1> HIDE DEF d
<1>2. ASSUME NEW q \in Nat, q * y <= x PROVE q <= d
  <2>1. d \in Nat /\ x < d * y + y
    BY <1>1 DEF d
  <2> SUFFICES ASSUME q >= d + 1 PROVE FALSE
    BY <2>1
  <2>2. q * y >= (d + 1) * y
    BY <2>1, SMT
  <2>3. (d + 1) * y = d * y + y
    BY <2>1, SMT
  <2>4. q * y \in Nat /\ d * y \in Nat
    BY <2>1, SMT
  <2> QED BY <1>2, <2>1, <2>2, <2>3, <2>4
<1> QED BY <1>1, <1>2 DEF d

\* Measured from a higher peak, to no higher an equity, the drawdown is no
\* smaller, in whole hundredths of a percent too.
LEMMA HigherPeak ==
    ASSUME NEW p \in Nat, NEW top \in Int, p <= top, NEW equity \in Int
    PROVE  DrawdownPercent(p, AtLeastZero(equity)) <= DrawdownPercent(top, equity)
<1> DEFINE e == AtLeastZero(equity)
           below == 20000 * AtLeastZero(p - e) + p
           above == 20000 * AtLeastZero(top - equity) + top
           q == below \div (2 * p)
<1>0. e \in Nat /\ equity <= e
  BY DEF AtLeastZero
<1> HIDE DEF e
<1>a. DrawdownPercent(top, equity) \in Nat
  BY PercentIsNat
<1>1. CASE p = 0
  <2>1. DrawdownPercent(p, e) = 0
    BY <1>1 DEF DrawdownPercent
  <2> QED BY <1>a, <2>1 DEF e
<1>2. CASE p > 0
  <2>1. DrawdownPercent(p, e) = q /\ DrawdownPercent(top, equity) = above \div (2 * top)
    BY <1>2 DEF DrawdownPercent
  <2>2. AtLeastZero(top - equity) \in Nat /\ AtLeastZero(top - equity) >= top - e
    BY <1>0 DEF AtLeastZero
  <2>3. /\ above \in Nat /\ 2 * top \in Nat /\ 2 * top > 0 /\ 2 * p \in Nat /\ 2 * p > 0
        /\ above >= 20000 * (top - e) + top
    BY <1>0, <1>2, <2>2
  <2>4. below \in Nat
    BY <1>0 DEF AtLeastZero
  <2>5. q \in Nat /\ q * (2 * p) <= below
    BY <2>3, <2>4, Divided
  <2> HIDE DEF q
  <2>6. q * (2 * top) <= above
    <3>1. CASE p <= e
      <4>1. below = p
        BY <1>0, <3>1 DEF AtLeastZero
      <4>2. q = 0
        <5> SUFFICES ASSUME q >= 1 PROVE FALSE
          BY <2>5
        <5>1. q * (2 * p) >= 1 * (2 * p)
          BY <2>3, <2>5, Scaled
        <5>2. q * (2 * p) <= p
          BY <2>5, <4>1
        <5>3. q * (2 * p) \in Int
          BY <2>3, <2>5
        <5> DEFINE m == q * (2 * p)
        <5> HIDE DEF m
        <5>4. m \in Int /\ m >= 2 * p /\ m <= p
          BY <5>1, <5>2, <5>3 DEF m
        <5> QED BY <1>2, <5>4
      <4> QED BY <2>3, <4>2
    <3>2. CASE p > e
      <4>1. below = 20000 * (p - e) + p
        BY <1>0, <3>2 DEF AtLeastZero
      <4> DEFINE x == q * (2 * p)
                 y == 20000 * (p - e) + p
                 X == q * (2 * top)
                 Y == 20000 * (top - e) + top
      <4>2. x <= y /\ x \in Int /\ y \in Int /\ X \in Int /\ Y \in Int /\ top \in Nat
        BY <1>0, <1>2, <2>5, <4>1
      <4>3. x * top <= y * top /\ x * top \in Int /\ y * top \in Int
        BY <4>2, Scaled
      <4>4. p * X = x * top
        BY <2>5, SMT
      <4>5. p * e <= top * e /\ p * e \in Int /\ top * e \in Int
        BY <1>0, Scaled
      <4>6. y * top = 20000 * (p * top) - 20000 * (top * e) + p * top
        BY <1>0, SMT
      <4>7. p * Y = 20000 * (p * top) - 20000 * (p * e) + p * top
        BY <1>0, SMT
      <4>8. p * top \in Int /\ p * X \in Int /\ p * Y \in Int
        BY <4>2
      <4>9. y * top <= p * Y
        <5> DEFINE a == p * top
                   b == top * e
                   c == p * e
        <5>1. /\ a \in Int /\ b \in Int /\ c \in Int /\ c <= b
              /\ y * top = 20000 * a - 20000 * b + a
              /\ p * Y = 20000 * a - 20000 * c + a
          BY <4>5, <4>6, <4>7, <4>8
        <5> HIDE DEF a, b, c, y, Y
        <5> QED BY <5>1
      <4> HIDE DEF x, y, X, Y
      <4>10. p * X <= p * Y
        BY <4>3, <4>4, <4>8, <4>9
      <4>11. X <= Y
        BY <1>2, <4>2, <4>10, Cancelled
      <4> QED BY <2>3, <4>2, <4>11 DEF X, Y
    <3> QED BY <1>0, <3>1, <3>2
  <2>7. q <= above \div (2 * top)
    <3> HIDE DEF above
    <3> QED BY <2>3, <2>5, <2>6, Divided
  <2> QED BY <2>1, <2>7 DEF e
<1> QED BY <1>1, <1>2

\* In paper mode no snapshot reports a smaller drawdown than the one from
\* the highest equity of any session before.
THEOREM DrawdownNeverUnderstated == Spec => DrawdownNotUnderstated
<1>1. /\ IInv /\ AccountInv /\ [Next]_vars
      => [mode = "paper" /\ drawdown' # drawdown =>
            \A p \in peaks :
                drawdown' >= DrawdownPercent(p.equity, AtLeastZero(Equity))]_vars
  <2> SUFFICES ASSUME IInv, AccountInv, [Next]_vars, mode = "paper",
                      drawdown' # drawdown, NEW p \in peaks
               PROVE  drawdown' >= DrawdownPercent(p.equity, AtLeastZero(Equity))
    OBVIOUS
  <2>0. LedgerTypeOK /\ PortfolioTypeOK /\ IsFiniteSet(peaks) /\ OneInitial
    BY DEF IInv, Typed, AccountInv
  <2>1. BuildSnapshot
    BY AccountSteps DEF Rests, Snapshots, Resets, Start
  <2>2. p.initial = balance /\ p.equity \in Nat
    BY <2>0 DEF OneInitial, PortfolioTypeOK, Peak
  <2>3. PICK top \in Int : drawdown' = DrawdownPercent(top, Equity) /\ p.equity <= top
    BY <2>0, <2>1, <2>2, SnapshotBuilt
  <2>4. Equity \in Int
    BY <2>0, AccountIsInt
  <2>5. DrawdownPercent(p.equity, AtLeastZero(Equity)) <= DrawdownPercent(top, Equity)
    BY <2>2, <2>3, <2>4, HigherPeak
  <2>6. /\ DrawdownPercent(p.equity, AtLeastZero(Equity)) \in Int
        /\ DrawdownPercent(top, Equity) \in Int
    <3>1. AtLeastZero(Equity) \in Int
      BY <2>4 DEF AtLeastZero
    <3>2. p.equity \in Int
      BY <2>2
    <3>3. DrawdownPercent(p.equity, AtLeastZero(Equity)) \in Nat
      BY <3>1, <3>2, PercentIsNat
    <3>4. DrawdownPercent(top, Equity) \in Nat
      BY <2>3, <2>4, PercentIsNat
    <3> QED BY <3>3, <3>4
  <2> QED BY <2>3, <2>5, <2>6
<1> QED BY <1>1, LimitsInvariant, AccountInvariant, PTL DEF Spec, DrawdownNotUnderstated

(***************************************************************************)
(* The exposure                                                            *)
(***************************************************************************)
HighestPrice == Max({signal.price : signal \in Signals})

\* What is about to be bought is within the limit, as it was when the risk
\* agent sized it: the balance does not move while the exchange is awaited.
WithinExposure ==
    Entering =>
        100 * task.cost <= balance * ExposurePercent + 50 * ConfigStep * HighestPrice

LEMMA HighestIsHighest ==
    ASSUME NEW signal \in Signals
    PROVE  HighestPrice \in Nat /\ signal.price <= HighestPrice
<1> DEFINE g == [t \in Signals |-> t.price]
           A == {t.price : t \in Signals}
<1>1. g \in Surjection(Signals, A)
  BY DEF Surjection
<1>2. IsFiniteSet(A)
  BY <1>1, FS_Surjection, PipelineAssumption
<1>3. A \subseteq Nat /\ signal.price \in A
  BY PipelineAssumption
<1>4. HighestPrice = Max(A)
  BY DEF HighestPrice
<1> HIDE DEF A
<1>5. Max(A) \in A /\ \A n \in A : n <= Max(A)
  <2>1. A \subseteq Int /\ A # {}
    BY <1>3
  <2> QED BY <1>2, <2>1, HighestNumber
<1> QED BY <1>3, <1>4, <1>5

\* The limit, and half a step of the rounding.
LEMMA LimitedQuantity ==
    ASSUME NEW signal \in Signals, NEW funds \in Nat,
           NEW q \in ApprovedQuantities(signal, funds)
    PROVE  100 * (q * signal.price)
             <= funds * ExposurePercent + 50 * ConfigStep * HighestPrice
<1> DEFINE price == signal.price
           cost == q * price
           limit == funds * ExposurePercent
           half == ConfigStep * price
           most == ConfigStep * HighestPrice
<1>1. /\ q \in Nat /\ price \in Nat /\ HighestPrice \in Nat /\ price <= HighestPrice
      /\ ConfigStep \in Nat /\ ExposurePercent \in Nat
  BY QuantitiesAreNat, HighestIsHighest, PipelineAssumption, SizingAssumption
<1>2. cost \in Nat /\ limit \in Nat /\ half \in Nat /\ most \in Nat
  BY <1>1
<1>3. half <= most
  <2>1. price * ConfigStep <= HighestPrice * ConfigStep
    BY <1>1, Scaled
  <2> QED BY <1>1, <2>1
<1>4. PICK size : q \in ExposureLimited(signal, funds, size)
  BY DEF ApprovedQuantities
<1>5. 100 * cost <= limit + 50 * half
  <2>1. CASE size * signal.price * 100 <= funds * ExposurePercent
    <3>1. q = size
      BY <1>4, <2>1 DEF ExposureLimited
    <3>2. q * price * 100 = 100 * cost
      BY <1>1
    <3>3. 100 * cost <= limit
      BY <2>1, <3>1, <3>2
    <3> HIDE DEF cost, limit, half
    <3> QED BY <1>2, <3>3
  <2>2. CASE ~(size * signal.price * 100 <= funds * ExposurePercent)
    <3>1. q \in Rounded(funds * ExposurePercent, 100 * signal.price, ConfigStep)
      BY <1>4, <2>2 DEF ExposureLimited
    <3>2. 2 * (q * (100 * price) - limit) <= ConfigStep * (100 * price)
      BY <3>1 DEF Rounded
    <3>3. q * (100 * price) = 100 * cost /\ ConfigStep * (100 * price) = 100 * half
      BY <1>1
    <3>4. 2 * (100 * cost - limit) <= 100 * half
      BY <3>2, <3>3
    <3> HIDE DEF cost, limit, half
    <3> QED BY <1>2, <3>4
  <2> QED BY <2>1, <2>2
<1>6. 50 * ConfigStep * HighestPrice = 50 * most
  BY <1>1
<1> HIDE DEF cost, limit, half, most
<1>7. 100 * cost <= limit + 50 * most
  BY <1>2, <1>3, <1>5
<1> QED BY <1>6, <1>7 DEF cost, limit

LEMMA WithinExposureNext ==
    ASSUME IInv, AccountInv, WithinExposure, [Next]_vars
    PROVE  WithinExposure'
<1>0. LedgerTypeOK /\ task \in Task /\ task.symbol \in Symbols \cup {NoSymbol}
      /\ balance \in Nat
  BY DEF IInv, Typed, AccountInv, PortfolioTypeOK, Task
<1>1. ASSUME NEW s \in Symbols, SignalCandle(s) PROVE WithinExposure'
  <2>1. PICK signal \in Signals : \E q \in ApprovedQuantities(signal, balance) :
                                     task' = At("enter", s, q * signal.price)
    BY <1>1 DEF SignalCandle
  <2>2. PICK q \in ApprovedQuantities(signal, balance) :
                task' = At("enter", s, q * signal.price)
    BY <2>1
  <2>3. balance' = balance
    BY <1>1 DEF SignalCandle, memory
  <2>4. task'.cost = q * signal.price
    BY <2>2 DEF At
  <2> QED BY <1>0, <2>3, <2>4, LimitedQuantity DEF WithinExposure, HighestPrice
<1>2. CASE UNCHANGED <<task, balance>>
  BY <1>2 DEF WithinExposure, Entering, HighestPrice
<1>3. CASE ~Entering'
  BY <1>3 DEF WithinExposure
<1>4. PeriodicSnapshot \/ TimePasses \/ UNCHANGED vars => UNCHANGED <<task, balance>>
  BY DEF PeriodicSnapshot, TimePasses, vars, memory
<1>5. ASSUME NEW s \in Symbols \cup {NoSymbol}, PositionManager(s) PROVE ~Entering'
  BY <1>0, <1>5, ManagerSettles DEF Entering
<1>6. \A s \in Symbols : QuietCandle(s) => ~Entering'
  BY <1>5 DEF QuietCandle
<1>7. NotExecuted \/ Manage => ~Entering'
  BY <1>0, <1>5 DEF NotExecuted, Manage
<1>8. Executed \/ Exit \/ Stop \/ Killed \/ Start \/ Connect => ~Entering'
  BY DEF Executed, Exit, Stop, Killed, Start, Connect, Ends, Goto, At, Entering
<1> QED BY <1>1, <1>2, <1>3, <1>4, <1>6, <1>7, <1>8 DEF Next

THEOREM ExposureInvariant == Spec => []WithinExposure
<1>1. Init => WithinExposure
  BY DEF Init, At, WithinExposure, Entering
<1>2. IInv /\ AccountInv /\ WithinExposure /\ [Next]_vars => WithinExposure'
  BY WithinExposureNext
<1> QED BY <1>1, <1>2, LimitsInvariant, AccountInvariant, PTL DEF Spec

\* No entry costs more than the exposure limit and half a step: for every
\* balance, price, percentage and step of the quantity.
THEOREM ExposureAlwaysKept == Spec => ExposureKept
<1>1. /\ IInv /\ WithinExposure /\ [Next]_vars
      => [\A i \in DOMAIN trades' \ DOMAIN trades :
            100 * trades'[i].cost <=
                balance * ExposurePercent
                  + 50 * ConfigStep * Max({signal.price : signal \in Signals})]_vars
  <2> SUFFICES ASSUME IInv, WithinExposure, [Next]_vars,
                      NEW i \in DOMAIN trades' \ DOMAIN trades
               PROVE  100 * trades'[i].cost <=
                         balance * ExposurePercent + 50 * ConfigStep * HighestPrice
    BY DEF HighestPrice
  <2>1. Typed /\ OneEach /\ LedgerTypeOK
    BY DEF IInv, Typed
  <2>2. CASE Idles \/ TimePasses \/ \E s \in Symbols : SignalCandle(s)
    BY <2>2 DEF Idles, TimePasses, SignalCandle, tables
  <2>3. CASE Settles
    BY <2>1, <2>3, KeptRows DEF Settles
  <2>4. CASE Executed
    <3>1. i = Len(trades) + 1
      <4>1. DOMAIN trades' = DOMAIN trades \cup {Len(trades) + 1}
        BY <2>1, <2>4, Appended
      <4> QED BY <4>1
    <3>2. trades' = Append(trades,
                      [symbol |-> task.symbol, open |-> TRUE, created |-> now,
                       closed |-> 0, cost |-> task.cost, pnl |-> 0])
      BY <2>4 DEF Executed, CreateTrade
    <3>3. trades \in Seq(Row)
      BY <2>1 DEF LedgerTypeOK
    <3>4. trades'[i].cost = task.cost
      BY <3>1, <3>2, <3>3
    <3> QED BY <2>4, <3>4 DEF Executed, Entering, WithinExposure
  <2> QED BY <2>2, <2>3, <2>4, Classified
<1> QED BY <1>1, LimitsInvariant, ExposureInvariant, PTL DEF Spec, ExposureKept
=============================================================================
