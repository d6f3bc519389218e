----------------------- MODULE MonthlySnapshotProofs -----------------------
(***************************************************************************)
(* Proofs about MonthlySnapshot and its table of printers, for any number  *)
(* of printers, serial numbers, messages and months.                       *)
(***************************************************************************)
EXTENDS MonthlySnapshot, FiniteSetTheorems, TLAPS

-----------------------------------------------------------------------------
(***************************************************************************)
(* The calendar.                                                           *)
(***************************************************************************)

\* The month before that of year 0 is one, too.
AnyMonth == [year : Int, month : 1..12]

LEMMA BeforeOrders ==
  ASSUME NEW m \in AnyMonth, NEW n \in AnyMonth, NEW o \in AnyMonth
  PROVE  /\ ~Before(m, m)
         /\ Before(m, n) /\ Before(n, o) => Before(m, o)
         /\ m = n \/ Before(m, n) \/ Before(n, m)
<1>1. m = [year |-> m.year, month |-> m.month] /\ n = [year |-> n.year, month |-> n.month]
  BY DEF AnyMonth
<1>2. /\ ~Before(m, m)
      /\ Before(m, n) /\ Before(n, o) => Before(m, o)
  BY DEF AnyMonth, Before
<1>3. Before(m, n) \/ Before(n, m) \/ (m.year = n.year /\ m.month = n.month)
  BY DEF AnyMonth, Before
<1> QED
  BY <1>1, <1>2, <1>3

\* The month before is before, and nothing lies between.
LEMMA PreviousIs ==
  ASSUME NEW m \in AnyMonth
  PROVE  /\ Previous(m) \in AnyMonth
         /\ Before(Previous(m), m)
         /\ \A n \in AnyMonth : Before(n, m) => n = Previous(m) \/ Before(n, Previous(m))
<1>1. Previous(m) \in AnyMonth /\ Before(Previous(m), m)
  BY DEF AnyMonth, Previous, Before
<1>2. ASSUME NEW n \in AnyMonth, Before(n, m) PROVE ~Before(Previous(m), n)
  BY <1>2 DEF AnyMonth, Previous, Before
<1> QED
  BY <1>1, <1>2, BeforeOrders

LEMMA FollowingIs ==
  ASSUME NEW m \in AnyMonth
  PROVE  /\ Following(m) \in AnyMonth
         /\ Before(m, Following(m))
         /\ m.year \in Nat => Following(m).year \in Nat
         /\ Previous(Following(m)) = m
  BY DEF AnyMonth, Previous, Following, Before

LEMMA DaysInIs == \A m : DaysIn(m) \in 28..31 /\ DaysIn(m) \in Int
<1> SUFFICES ASSUME NEW m PROVE DaysIn(m) \in 28..31
  OBVIOUS
<1> QED
  BY DEF DaysIn

LEMMA DayIs == \A date \in [year : Nat, month : 1..12, day : Days] : date.day \in Int
<1>1. Days \subseteq Int
  <2>1. Days \subseteq 1..31 /\ 1..31 \subseteq Int
    BY DateAssumption
  <2> QED
    BY <2>1
<1>2. \A date \in [year : Nat, month : 1..12, day : Days] : date.day \in Days
  OBVIOUS
<1> QED
  BY <1>1, <1>2

-----------------------------------------------------------------------------
(***************************************************************************)
(* Types.                                                                  *)
(***************************************************************************)

\* c_cp may hold a c_p.
Stored == [printerId : Macs, month : AnyMonth,
           counters : [c_cp : Nat, c_p : 0..MaxPrints]]

OneRowEach ==
    \A row, other \in monthly :
        row.printerId = other.printerId /\ row.month = other.month => row = other

DateOK ==
    /\ today \in [year : Nat, month : 1..12, day : Days]
    /\ today.day <= DaysIn(MonthOf(today))
    /\ due \in BOOLEAN
    /\ due => today.day = 1

AskedOK ==
    asked # None =>
        /\ asked.month \in AnyMonth
        /\ asked.rows \subseteq Stored
        /\ \A row \in asked.rows : row.month = asked.month

Shape ==
    /\ TableOK
    /\ monthly \subseteq Stored /\ IsFiniteSet(monthly) /\ OneRowEach
    /\ DateOK
    /\ AskedOK

LEMMA ShapeIsTyped == Shape => TypeOK
<1> SUFFICES ASSUME Shape PROVE TypeOK
  OBVIOUS
<1>1. ASSUME NEW row \in monthly
      PROVE  /\ row.printerId \in Macs
             /\ row.month.month \in 1..12
             /\ row.counters \in [c_cp : Nat, c_p : 0..MaxPrints]
             /\ RowsOf(row.printerId, row.month) = {row}
  <2>1. row \in Stored
    BY DEF Shape
  <2>2. RowsOf(row.printerId, row.month) = {row}
    BY DEF Shape, OneRowEach, RowsOf
  <2> QED
    BY <2>1, <2>2 DEF Stored, AnyMonth
<1>2. today.day \in Days
  BY DEF Shape, DateOK
<1> QED
  BY <1>1, <1>2 DEF Shape, DateOK, AskedOK, TypeOK

LEMMA CountersAre == MaxCopies \in Nat /\ MaxPrints \in Nat /\ MaxDeaths \in Nat
  BY TableAssumption

LEMMA TableInit == InitTable => TableOK
  BY CountersAre DEF InitTable, TableOK

LEMMA TableStep ==
  /\ \A msg \in Message : TableOK /\ (Report(msg) \/ Upsert(msg)) => TableOK'
  /\ TableOK /\ Die => TableOK'
<1>1. ASSUME NEW msg \in Message, TableOK, Report(msg) PROVE TableOK'
  <2>1. msg.mac \in Macs /\ msg.counters \in Counters
    BY DEF Message
  <2> QED
    BY <1>1, <2>1 DEF Report, TableOK
<1>2. ASSUME NEW msg \in Message, TableOK, Upsert(msg) PROVE TableOK'
  <2>1. msg.mac \in Macs /\ [serial |-> msg.serial, counters |-> msg.counters] \in Row
    BY DEF Message, Row
  <2>2. Holders(msg) \subseteq Macs
    BY DEF Holders
  <2>3. table' \in [Macs -> Row \cup {None}]
    BY <1>2, <2>1 DEF Upsert, TableOK
  <2> QED
    BY <1>2, <2>1, <2>2, <2>3 DEF Upsert, TableOK
<1>3. ASSUME TableOK, Die PROVE TableOK'
  <2>1. {msg.mac : msg \in inflight} \subseteq Macs
    BY <1>3 DEF TableOK, Message
  <2> QED
    BY <1>3, <2>1, CountersAre DEF Die, TableOK
<1> QED
  BY <1>1, <1>2, <1>3

(***************************************************************************)
(* What SNAPSHOT_SQL_ALL and SNAPSHOT_SQL_ONE have in common: one row for  *)
(* each printer of the SELECT with its c_p, and nothing else of that month *)
(* and printer; all other rows stay.                                       *)
(***************************************************************************)
CopiedTo(month, macs, row) ==
    /\ row \in Stored
    /\ row.month = month /\ row.printerId \in Known(macs)
    /\ row.counters.c_p = table[row.printerId].counters.c_p

Snapshot(month, macs) ==
    /\ \A row \in monthly' : row \in monthly \/ CopiedTo(month, macs, row)
    /\ \A row \in monthly : row.month # month => row \in monthly'
    /\ \A row \in monthly' \cap monthly :
          row.month # month \/ row.printerId \notin Known(macs) \/ CopiedTo(month, macs, row)
    /\ OneRowEach'
    /\ IsFiniteSet(monthly')

LEMMA SnapshotIs ==
  ASSUME Shape, NEW month \in AnyMonth, NEW macs \in SUBSET Macs,
         NEW f \in [Known(macs) -> Stored],
         \A mac \in Known(macs) :
            /\ f[mac].printerId = mac /\ f[mac].month = month
            /\ f[mac].counters.c_p = table[mac].counters.c_p,
         monthly' = Kept(month, macs) \cup {f[mac] : mac \in Known(macs)}
  PROVE  Snapshot(month, macs)
<1> DEFINE New == {f[mac] : mac \in Known(macs)}
<1>1. \A row \in New : CopiedTo(month, macs, row) /\ row = f[row.printerId]
  BY DEF CopiedTo
<1>2. \A row \in Kept(month, macs) :
        row \in monthly /\ (row.month # month \/ row.printerId \notin Known(macs))
  BY DEF Kept
<1>3. \A row \in monthly : row.month # month => row \in Kept(month, macs)
  BY DEF Kept
<1>4. OneRowEach'
  <2> SUFFICES ASSUME NEW row \in monthly', NEW other \in monthly',
                      row.printerId = other.printerId, row.month = other.month
               PROVE  row = other
    BY DEF OneRowEach
  <2>1. CASE row \in New /\ other \in New
    BY <1>1, <2>1
  <2>2. CASE row \in Kept(month, macs) /\ other \in Kept(month, macs)
    BY <1>2, <2>2 DEF Shape, OneRowEach
  <2>3. ~(row \in New /\ other \in Kept(month, macs)) /\ ~(row \in Kept(month, macs) /\ other \in New)
    BY <1>1, <1>2 DEF CopiedTo
  <2> QED
    BY <2>1, <2>2, <2>3
<1>5. IsFiniteSet(monthly')
  <2>1. IsFiniteSet(Known(macs))
    <3>1. Known(macs) \in SUBSET Macs
      BY DEF Known
    <3> QED
      BY <3>1, TableAssumption, FS_Subset
  <2>2. IsFiniteSet(New)
    <3>1. f \in [Known(macs) -> New] /\ \A row \in New : \E mac \in Known(macs) : f[mac] = row
      OBVIOUS
    <3>2. f \in Surjection(Known(macs), New)
      BY <3>1 DEF Surjection
    <3> QED
      BY <2>1, <3>2, FS_Surjection
  <2>3. IsFiniteSet(Kept(month, macs))
    <3>1. Kept(month, macs) \in SUBSET monthly
      BY DEF Kept
    <3> QED
      BY <3>1, FS_Subset DEF Shape
  <2> QED
    BY <2>2, <2>3, FS_Union
<1> HIDE DEF New
<1> QED
  BY <1>1, <1>2, <1>3, <1>4, <1>5 DEF Snapshot, New

LEMMA CopyIsStored ==
  ASSUME Shape, NEW month \in AnyMonth, NEW mac \in Known(Macs)
  PROVE  /\ Copy(month, mac) \in Stored
         /\ CopyAll(month, mac) \in Stored
         /\ Copy(month, mac).printerId = mac /\ CopyAll(month, mac).printerId = mac
         /\ Copy(month, mac).month = month /\ CopyAll(month, mac).month = month
         /\ Copy(month, mac).counters.c_p = table[mac].counters.c_p
         /\ CopyAll(month, mac).counters.c_p = table[mac].counters.c_p
<1>1. mac \in Macs /\ table[mac].counters \in Counters
  BY DEF Known, Shape, TableOK, Row
<1>2. PICK cp \in Nat, p \in 0..MaxPrints : table[mac].counters = [c_cp |-> cp, c_p |-> p]
  BY <1>1, CountersAre DEF Counters
<1>3. Copy(month, mac) = [printerId |-> mac, month |-> month, counters |-> [c_cp |-> cp, c_p |-> p]]
  BY <1>2 DEF Copy
<1>4. p \in Nat
  BY CountersAre
<1>5. \/ CopyAll(month, mac) = Copy(month, mac)
      \/ CopyAll(month, mac)
           = [printerId |-> mac, month |-> month, counters |-> [c_cp |-> p, c_p |-> p]]
  BY <1>2, <1>3 DEF CopyAll
<1> QED
  BY <1>1, <1>2, <1>3, <1>4, <1>5 DEF Stored

LEMMA SnapshotOneIs ==
  ASSUME Shape, NEW month \in AnyMonth, NEW macs \in SUBSET Macs, SnapshotOne(month, macs)
  PROVE  Snapshot(month, macs)
<1> DEFINE f == [mac \in Known(macs) |-> Copy(month, mac)]
<1>1. Known(macs) \subseteq Known(Macs)
  BY DEF Known
<1>2. f \in [Known(macs) -> Stored]
  BY <1>1, CopyIsStored
<1>3. \A mac \in Known(macs) :
         /\ f[mac].printerId = mac /\ f[mac].month = month
         /\ f[mac].counters.c_p = table[mac].counters.c_p
  BY <1>1, CopyIsStored
<1>4. monthly' = Kept(month, macs) \cup {f[mac] : mac \in Known(macs)}
  BY DEF SnapshotOne
<1> HIDE DEF f
<1> QED
  BY <1>2, <1>3, <1>4, SnapshotIs

LEMMA SnapshotAllIs ==
  ASSUME Shape, NEW month \in AnyMonth, SnapshotAll(month)
  PROVE  Snapshot(month, Macs)
<1> DEFINE f == [mac \in Known(Macs) |-> CopyAll(month, mac)]
<1>1. f \in [Known(Macs) -> Stored]
  BY CopyIsStored
<1>2. \A mac \in Known(Macs) :
         /\ f[mac].printerId = mac /\ f[mac].month = month
         /\ f[mac].counters.c_p = table[mac].counters.c_p
  BY CopyIsStored
<1>3. monthly' = Kept(month, Macs) \cup {f[mac] : mac \in Known(Macs)}
  BY DEF SnapshotAll
<1> HIDE DEF f
<1> QED
  BY <1>1, <1>2, <1>3, SnapshotIs

LEMMA ThisMonth ==
  ASSUME DateOK
  PROVE  /\ MonthOf(today) \in AnyMonth /\ MonthOf(today).year \in Nat
         /\ Previous(MonthOf(today)) \in AnyMonth
         /\ LastMonth(today) \in AnyMonth
         /\ LastMonth(today) = IF today.day <= DaysIn(Previous(MonthOf(today)))
                               THEN Previous(MonthOf(today)) ELSE MonthOf(today)
<1>1. MonthOf(today) \in AnyMonth /\ MonthOf(today).year \in Nat
  BY DEF DateOK, MonthOf, AnyMonth
<1>2. Previous(MonthOf(today)) \in AnyMonth
  BY <1>1, PreviousIs
<1> QED
  BY <1>1, <1>2 DEF LastMonth

\* Days pass within a month, or the next one begins.
LEMMA TickIs ==
  ASSUME DateOK, Tick
  PROVE  /\ DateOK'
         /\ \/ MonthOf(today)' = MonthOf(today) /\ today'.day > today.day
            \/ MonthOf(today)' = Following(MonthOf(today)) /\ today'.day = 1
         /\ UNCHANGED <<tableVars, monthly, asked>>
<1>1. UNCHANGED <<tableVars, monthly, asked>>
  BY DEF Tick
<1>2. Days \subseteq 1..31 /\ 1 \in Days
  BY DateAssumption
<1>3. ASSUME NEW day \in Days, today.day < day, day <= DaysIn(MonthOf(today)),
             today' = [today EXCEPT !.day = day], due' = FALSE
      PROVE  DateOK' /\ MonthOf(today)' = MonthOf(today) /\ today'.day > today.day
  <2>1. PICK y \in Nat, m \in 1..12, d \in Days : today = [year |-> y, month |-> m, day |-> d]
    BY DEF DateOK
  <2>2. today' = [year |-> y, month |-> m, day |-> day]
    BY <1>3, <2>1
  <2>3. MonthOf(today)' = MonthOf(today)
    BY <2>1, <2>2 DEF MonthOf
  <2>4. day \in Int /\ d \in Int
    BY <1>2
  <2> QED
    BY <1>3, <2>1, <2>2, <2>3, <2>4 DEF DateOK
<1>4. ASSUME today' = FirstOf(Following(MonthOf(today))), due' = TRUE
      PROVE  DateOK' /\ MonthOf(today)' = Following(MonthOf(today)) /\ today'.day = 1
  <2>1. PICK y \in Nat, m \in 1..12 : Following(MonthOf(today)) = [year |-> y, month |-> m]
    BY ThisMonth, FollowingIs DEF AnyMonth
  <2>2. today' = [year |-> y, month |-> m, day |-> 1]
    BY <1>4, <2>1 DEF FirstOf
  <2>3. MonthOf(today)' = Following(MonthOf(today))
    BY <2>1, <2>2 DEF MonthOf
  <2>4. 1 <= DaysIn(MonthOf(today))'
    <3>1. DaysIn([year |-> y, month |-> m]) \in 28..31
      BY DaysInIs
    <3> QED
      BY <2>1, <2>3, <3>1
  <2> QED
    BY <1>2, <1>4, <2>2, <2>3, <2>4 DEF DateOK
<1> QED
  BY <1>1, <1>3, <1>4 DEF Tick

LEMMA ShapeInit == Init => Shape
<1> SUFFICES ASSUME Init PROVE Shape
  OBVIOUS
<1>1. TableOK
  BY TableInit DEF Init
<1>2. DateOK
  BY DateAssumption DEF Init, DateOK
<1>3. IsFiniteSet({})
  BY FS_EmptySet
<1> QED
  BY <1>1, <1>2, <1>3 DEF Init, Shape, OneRowEach, AskedOK

\* A step that leaves the monthly rows and the query alone, or forgets it.
LEMMA ShapeKeeps ==
  ASSUME Shape, TableOK', UNCHANGED <<monthly, today, due>>,
         asked' \in {asked, None}
  PROVE  Shape'
  BY DEF Shape, OneRowEach, DateOK, AskedOK

LEMMA ShapeSnapshot ==
  ASSUME Shape, NEW month, NEW macs, Snapshot(month, macs),
         UNCHANGED <<tableVars, today, asked>>, due' \in {due, FALSE}
  PROVE  Shape'
<1>1. TableOK'
  BY DEF Shape, TableOK, tableVars
<1>2. monthly' \subseteq Stored /\ IsFiniteSet(monthly') /\ OneRowEach'
  BY DEF Shape, Snapshot, CopiedTo
<1>3. DateOK'
  <2>1. DateOK
    BY DEF Shape
  <2>2. CASE due' = due
    BY <2>1, <2>2 DEF DateOK
  <2>3. CASE due' = FALSE
    BY <2>1, <2>3 DEF DateOK
  <2> QED
    BY <2>2, <2>3
<1> QED
  BY <1>1, <1>2, <1>3 DEF Shape, AskedOK

LEMMA ShapeStep == Shape /\ [Next]_vars => Shape'
<1> SUFFICES ASSUME Shape, [Next]_vars PROVE Shape'
  OBVIOUS
<1>0. TableOK /\ DateOK /\ LastMonth(today) \in AnyMonth
  BY ThisMonth DEF Shape
<1>1. ASSUME NEW msg \in Message, Report(msg) \/ Upsert(msg), UNCHANGED monthVars PROVE Shape'
  BY <1>0, <1>1, TableStep, ShapeKeeps DEF monthVars
<1>2. CASE Die /\ Restart
  BY <1>0, <1>2, TableStep, ShapeKeeps DEF Restart
<1>3. CASE SnapshotLastMonth
  BY <1>0, <1>3, SnapshotAllIs, ShapeSnapshot DEF SnapshotLastMonth
<1>4. CASE MissSnapshot
  BY <1>4 DEF MissSnapshot, Shape, TableOK, tableVars, OneRowEach, DateOK, AskedOK
<1>5. ASSUME NEW macs \in SUBSET Macs, TriggerSnapshot(macs) PROVE Shape'
  BY <1>0, <1>5, SnapshotOneIs, ShapeSnapshot DEF TriggerSnapshot
<1>6. ASSUME NEW month \in {row.month : row \in monthly}, NEW macs, Ask(month, macs)
      PROVE  Shape'
  <2>1. month \in AnyMonth
    BY DEF Shape, Stored
  <2>2. FindByYearMonth(month, macs) \subseteq Stored
    BY DEF FindByYearMonth, Shape
  <2>3. \A row \in FindByYearMonth(month, macs) : row.month = month
    BY DEF FindByYearMonth
  <2>4. AskedOK'
    BY <1>6, <2>1, <2>2, <2>3 DEF Ask, AskedOK
  <2> QED
    BY <1>6, <2>4 DEF Ask, Shape, TableOK, tableVars, OneRowEach, DateOK
<1>7. CASE ReadLast
  BY <1>7 DEF ReadLast, Shape, TableOK, tableVars, OneRowEach, DateOK, AskedOK
<1>8. CASE Tick
  <2>1. DateOK' /\ UNCHANGED <<tableVars, monthly, asked>>
    BY <1>0, <1>8, TickIs
  <2> QED
    BY <2>1 DEF Shape, TableOK, tableVars, OneRowEach, AskedOK
<1>9. CASE UNCHANGED vars
  BY <1>9 DEF vars, monthVars, Shape, TableOK, tableVars, OneRowEach, DateOK, AskedOK
<1> QED
  BY <1>1, <1>2, <1>3, <1>4, <1>5, <1>6, <1>7, <1>8, <1>9 DEF Next, RefuseUpsert

(***************************************************************************)
(* Both tables, the calendar and a query under way keep their types, and a *)
(* printer has at most one row per month.                                  *)
(***************************************************************************)
THEOREM TypeCorrect == Spec => []TypeOK
<1>1. Shape => TypeOK
  BY ShapeIsTyped
<1> QED
  BY <1>1, ShapeInit, ShapeStep, PTL DEF Spec

(***************************************************************************)
(* History is not rewritten: a snapshot touches the rows of its own month, *)
(* and getLastMonth names this month or the one before.                    *)
(***************************************************************************)
THEOREM PastIsFinal == Spec => HistoryIsFrozen
<1> DEFINE Open == {MonthOf(today), Previous(MonthOf(today))}
<1> DEFINE Frozen == {row \in monthly : row.month \notin Open}
                       = {row \in monthly' : row.month \notin Open}
<1>1. ASSUME Shape, NEW macs, Snapshot(LastMonth(today), macs) PROVE Frozen
  <2>1. LastMonth(today) \in Open
    BY <1>1, ThisMonth DEF Shape
  <2>2. \A row \in monthly' : row \in monthly \/ row.month = LastMonth(today)
    BY <1>1 DEF Snapshot, CopiedTo
  <2>3. \A row \in monthly : row.month # LastMonth(today) => row \in monthly'
    BY <1>1 DEF Snapshot
  <2> HIDE DEF Open
  <2> QED
    BY <2>1, <2>2, <2>3
<1>2. Shape /\ [Next]_vars => [Frozen]_vars
  <2> SUFFICES ASSUME Shape, Next PROVE Frozen
    OBVIOUS
  <2>0. LastMonth(today) \in AnyMonth
    BY ThisMonth DEF Shape
  <2>1. CASE SnapshotLastMonth
    BY <1>1, <2>0, <2>1, SnapshotAllIs DEF SnapshotLastMonth
  <2>2. ASSUME NEW macs \in SUBSET Macs, TriggerSnapshot(macs) PROVE Frozen
    BY <1>1, <2>0, <2>2, SnapshotOneIs DEF TriggerSnapshot
  <2>3. CASE monthly' = monthly
    BY <2>3
  <2> HIDE DEF Frozen
  <2> QED
    BY <2>1, <2>2, <2>3 DEF Next, monthVars, Restart, MissSnapshot, Ask, ReadLast, Tick
<1> HIDE DEF Frozen
<1>3. [Frozen]_vars => [{row \in monthly : row.month \notin {MonthOf(today), Previous(MonthOf(today))}}
        = {row \in monthly' : row.month \notin {MonthOf(today), Previous(MonthOf(today))}}]_vars
  BY DEF Frozen
<1> QED
  BY <1>2, <1>3, ShapeInit, ShapeStep, PTL DEF Spec, HistoryIsFrozen

\* The snapshots are of months that are over.
OnlyClosed == \A row \in monthly : Before(row.month, MonthOf(today))

LEMMA OnlyClosedStep ==
  ASSUME Days \subseteq 1..28
  PROVE  Shape /\ OnlyClosed /\ [Next]_vars => OnlyClosed'
<1> SUFFICES ASSUME Shape, OnlyClosed, [Next]_vars PROVE OnlyClosed'
  OBVIOUS
<1>1. DateOK /\ MonthOf(today) \in AnyMonth /\ LastMonth(today) \in AnyMonth
  BY ThisMonth DEF Shape
<1>2. LastMonth(today) = Previous(MonthOf(today))
  <2>1. today.day \in 1..28
    BY <1>1 DEF DateOK
  <2>2. DaysIn(Previous(MonthOf(today))) \in 28..31
    BY DaysInIs
  <2> QED
    BY <1>1, <2>1, <2>2, ThisMonth
<1>3. ASSUME NEW macs, Snapshot(LastMonth(today), macs), today' = today PROVE OnlyClosed'
  <2>1. \A row \in monthly' : row \in monthly \/ row.month = Previous(MonthOf(today))
    BY <1>2, <1>3 DEF Snapshot, CopiedTo
  <2>2. Before(Previous(MonthOf(today)), MonthOf(today))
    BY <1>1, PreviousIs
  <2> QED
    BY <1>3, <2>1, <2>2 DEF OnlyClosed
<1>4. CASE SnapshotLastMonth
  BY <1>1, <1>3, <1>4, SnapshotAllIs DEF SnapshotLastMonth
<1>5. ASSUME NEW macs \in SUBSET Macs, TriggerSnapshot(macs) PROVE OnlyClosed'
  BY <1>1, <1>3, <1>5, SnapshotOneIs DEF TriggerSnapshot
<1>6. CASE Tick
  <2>1. /\ monthly' = monthly
        /\ \/ MonthOf(today)' = MonthOf(today)
           \/ MonthOf(today)' = Following(MonthOf(today))
    BY <1>1, <1>6, TickIs
  <2>2. ASSUME NEW row \in monthly PROVE Before(row.month, Following(MonthOf(today)))
    <3>1. row.month \in AnyMonth /\ Before(row.month, MonthOf(today))
      BY DEF Shape, Stored, OnlyClosed
    <3> QED
      BY <1>1, <3>1, FollowingIs, BeforeOrders
  <2> QED
    BY <2>1, <2>2 DEF OnlyClosed
<1>7. CASE UNCHANGED <<monthly, today>>
  BY <1>7 DEF OnlyClosed
<1> QED
  BY <1>4, <1>5, <1>6, <1>7
     DEF Next, RefuseUpsert, Restart, MissSnapshot, Ask, ReadLast, vars, monthVars

(***************************************************************************)
(* What the comment of triggerSnapshot says holds as long as nothing       *)
(* happens after the 28th: getLastMonth then is the month before, and      *)
(* every snapshot is of a month that is over, those of the cron job, which *)
(* runs on the first of a month, included.                                 *)
(***************************************************************************)
THEOREM ClosedMonthsOnly ==
  Days \subseteq 1..28 => (Spec => []SnapshotsAreOfLastMonth)
<1> SUFFICES ASSUME Days \subseteq 1..28 PROVE Spec => []SnapshotsAreOfLastMonth
  OBVIOUS
<1>1. Init => OnlyClosed
  BY DEF Init, OnlyClosed
<1>2. Shape /\ OnlyClosed /\ [Next]_vars => OnlyClosed'
  BY OnlyClosedStep
<1>3. Shape /\ OnlyClosed => SnapshotsAreOfLastMonth
  <2> SUFFICES ASSUME Shape, OnlyClosed, NEW row \in monthly PROVE row.month # MonthOf(today)
    BY DEF SnapshotsAreOfLastMonth
  <2>1. MonthOf(today) \in AnyMonth
    BY ThisMonth DEF Shape
  <2> QED
    BY <2>1, BeforeOrders DEF OnlyClosed
<1> QED
  BY <1>1, <1>2, <1>3, ShapeInit, ShapeStep, PTL DEF Spec

-----------------------------------------------------------------------------
(***************************************************************************)
(* The table of printers.                                                  *)
(***************************************************************************)

\* The message of a printer that was never raced is its latest.
FlightIsLatest ==
    \A msg \in inflight : msg.mac \notin raced => meter[msg.mac] = msg.counters

\* Its row does not run ahead of it.
RowsBelowMeter ==
    \A mac \in Macs \ raced :
        table[mac] # None =>
            meter[mac] # None /\ AtLeast(meter[mac], table[mac].counters)

TableInv == FlightIsLatest /\ RowsBelowMeter /\ RowIsCurrent

LEMMA NoneIsNoValue == None \notin Counters /\ None \notin Row
  BY TableNoneAssumption

LEMMA AtLeastOrders ==
  ASSUME NEW c \in Counters, NEW d \in Counters, NEW e \in Counters
  PROVE  /\ AtLeast(c, c)
         /\ AtLeast(c, d) /\ AtLeast(d, e) => AtLeast(c, e)
  BY CountersAre DEF Counters, AtLeast

LEMMA MessageIs ==
  ASSUME NEW msg \in Message
  PROVE  /\ msg.mac \in Macs /\ msg.counters \in Counters /\ msg.counters # None
         /\ [serial |-> msg.serial, counters |-> msg.counters] # None
  BY NoneIsNoValue DEF Message, Row

LEMMA TableInvReport ==
  ASSUME TableOK, TableInv, NEW msg \in Message, Report(msg)
  PROVE  TableInv'
<1>1. /\ msg.mac \in Macs /\ msg.counters \in Counters /\ msg.counters # None
      /\ table' = table /\ displaced' = displaced
      /\ inflight' = inflight \cup {msg}
      /\ meter'[msg.mac] = msg.counters
      /\ \A mac \in Macs \ {msg.mac} : meter'[mac] = meter[mac]
      /\ meter[msg.mac] # None => AtLeast(msg.counters, meter[msg.mac])
      /\ lost' = lost \ {msg.mac}
      /\ raced \subseteq raced'
      /\ Pending(msg.mac) # {} => msg.mac \in raced'
  BY MessageIs DEF Report, TableOK
<1>2. \A other \in inflight : other.mac \in Macs
  BY DEF TableOK, Message
<1>3. FlightIsLatest'
  <2> SUFFICES ASSUME NEW other \in inflight', other.mac \notin raced'
               PROVE  meter'[other.mac] = other.counters
    BY DEF FlightIsLatest
  <2>1. CASE other = msg
    BY <1>1, <2>1
  <2>2. CASE other # msg
    <3>1. other \in inflight /\ other.mac \notin raced
      BY <1>1, <2>2
    <3>2. other.mac # msg.mac
      BY <1>1, <3>1 DEF Pending
    <3> QED
      BY <1>1, <1>2, <3>1, <3>2 DEF TableInv, FlightIsLatest
  <2> QED
    BY <2>1, <2>2
<1>4. RowsBelowMeter'
  <2> SUFFICES ASSUME NEW mac \in Macs \ raced', table[mac] # None
               PROVE  meter'[mac] # None /\ AtLeast(meter'[mac], table[mac].counters)
    BY <1>1 DEF RowsBelowMeter
  <2>1. meter[mac] # None /\ AtLeast(meter[mac], table[mac].counters)
    BY <1>1 DEF TableInv, RowsBelowMeter
  <2>2. meter[mac] \in Counters /\ table[mac].counters \in Counters
    BY <2>1 DEF TableOK, Row
  <2>3. CASE mac = msg.mac
    BY <1>1, <2>1, <2>2, <2>3, AtLeastOrders
  <2>4. CASE mac # msg.mac
    BY <1>1, <2>1, <2>4
  <2> QED
    BY <2>3, <2>4
<1>5. RowIsCurrent'
  <2> SUFFICES ASSUME NEW mac \in Macs, mac \notin raced', mac \notin lost', mac \notin displaced',
                      meter'[mac] # None, Pending(mac)' = {}
               PROVE  table[mac] # None /\ table[mac].counters = meter'[mac]
    BY <1>1 DEF RowIsCurrent
  <2>1. mac # msg.mac
    BY <1>1 DEF Pending
  <2>2. Pending(mac) = {}
    BY <1>1 DEF Pending
  <2> QED
    BY <1>1, <2>1, <2>2 DEF TableInv, RowIsCurrent
<1> QED
  BY <1>3, <1>4, <1>5 DEF TableInv

\* The statement writes the row of one printer and may delete another's.
LEMMA UpsertIs ==
  ASSUME TableOK, NEW msg \in Message, Upsert(msg)
  PROVE  /\ msg \in inflight /\ inflight' = inflight \ {msg}
         /\ UNCHANGED <<meter, raced, lost>>
         /\ table'[msg.mac] = [serial |-> msg.serial, counters |-> msg.counters]
         /\ Holders(msg) \subseteq Macs \ {msg.mac}
         /\ \A mac \in Holders(msg) : table'[mac] = None
         /\ \A mac \in Macs \ ({msg.mac} \cup Holders(msg)) : table'[mac] = table[mac]
         /\ displaced' = (displaced \ {msg.mac}) \cup Holders(msg)
<1>1. msg.mac \in Macs /\ Holders(msg) \subseteq Macs \ {msg.mac}
  BY MessageIs DEF Holders
<1> QED
  BY <1>1 DEF Upsert

LEMMA TableInvUpsert ==
  ASSUME TableOK, TableInv, NEW msg \in Message, Upsert(msg)
  PROVE  TableInv'
<1>1. /\ msg.mac \in Macs /\ msg.counters \in Counters /\ msg.counters # None
      /\ table'[msg.mac].counters = msg.counters /\ table'[msg.mac] # None
      /\ msg.mac \notin raced => meter[msg.mac] = msg.counters
  <2>1. table'[msg.mac] = [serial |-> msg.serial, counters |-> msg.counters] /\ msg \in inflight
    BY UpsertIs
  <2> QED
    BY <2>1, MessageIs DEF TableInv, FlightIsLatest
<1>2. FlightIsLatest'
  BY UpsertIs DEF TableInv, FlightIsLatest
<1>3. RowsBelowMeter'
  <2> SUFFICES ASSUME NEW mac \in Macs \ raced, table'[mac] # None
               PROVE  meter[mac] # None /\ AtLeast(meter[mac], table'[mac].counters)
    BY UpsertIs DEF RowsBelowMeter
  <2>1. CASE mac = msg.mac
    BY <1>1, <2>1, AtLeastOrders
  <2>2. CASE mac # msg.mac
    <3>1. table'[mac] = table[mac]
      BY <2>2, UpsertIs
    <3> QED
      BY <3>1 DEF TableInv, RowsBelowMeter
  <2> QED
    BY <2>1, <2>2
<1>4. RowIsCurrent'
  <2> SUFFICES ASSUME NEW mac \in Macs, mac \notin raced, mac \notin lost, mac \notin displaced',
                      meter[mac] # None, Pending(mac)' = {}
               PROVE  table'[mac] # None /\ table'[mac].counters = meter[mac]
    BY UpsertIs DEF RowIsCurrent
  <2>1. CASE mac = msg.mac
    BY <1>1, <2>1
  <2>2. CASE mac # msg.mac
    <3>0. /\ displaced' = (displaced \ {msg.mac}) \cup Holders(msg)
          /\ inflight' = inflight \ {msg}
      BY UpsertIs
    <3>1. mac \notin Holders(msg) /\ mac \notin displaced
      BY <2>2, <3>0
    <3>2. table'[mac] = table[mac]
      BY <2>2, <3>1, UpsertIs
    <3>3. Pending(mac) = {}
      BY <2>2, <3>0 DEF Pending
    <3> QED
      BY <3>1, <3>2, <3>3 DEF TableInv, RowIsCurrent
  <2> QED
    BY <2>1, <2>2
<1> QED
  BY <1>2, <1>3, <1>4 DEF TableInv

LEMMA TableInvDie == ASSUME TableOK, TableInv, Die PROVE TableInv'
<1>1. UNCHANGED <<table, meter, raced, displaced>> /\ inflight' = {}
  BY DEF Die
<1>2. RowIsCurrent'
  <2> SUFFICES ASSUME NEW mac \in Macs, mac \notin raced, mac \notin lost', mac \notin displaced,
                      meter[mac] # None
               PROVE  table[mac] # None /\ table[mac].counters = meter[mac]
    BY <1>1 DEF RowIsCurrent
  <2>1. mac \notin lost /\ Pending(mac) = {}
    BY DEF Die, Pending
  <2> QED
    BY <2>1 DEF TableInv, RowIsCurrent
<1> QED
  BY <1>1, <1>2 DEF TableInv, FlightIsLatest, RowsBelowMeter

LEMMA TableInvInit == InitTable => TableInv
  BY DEF InitTable, TableInv, FlightIsLatest, RowsBelowMeter, RowIsCurrent

\* Everything else leaves the table of printers alone.
LEMMA TableMoves ==
  ASSUME [Next]_vars
  PROVE  \/ \E msg \in Message : (Report(msg) \/ Upsert(msg)) /\ UNCHANGED monthVars
         \/ Die /\ Restart
         \/ UNCHANGED tableVars
  BY DEF Next, vars, RefuseUpsert, SnapshotLastMonth, MissSnapshot, TriggerSnapshot,
         Ask, ReadLast, Tick

LEMMA TableInvStep == TableOK /\ TableInv /\ [Next]_vars => TableInv'
<1> SUFFICES ASSUME TableOK, TableInv, [Next]_vars PROVE TableInv'
  OBVIOUS
<1>1. CASE \E msg \in Message : Report(msg) \/ Upsert(msg)
  BY <1>1, TableInvReport, TableInvUpsert
<1>2. CASE Die
  BY <1>2, TableInvDie
<1>3. CASE UNCHANGED tableVars
  BY <1>3 DEF tableVars, TableInv, FlightIsLatest, RowsBelowMeter, RowIsCurrent, Pending
<1> QED
  BY <1>1, <1>2, <1>3, TableMoves

LEMMA TableAlways == Spec => [](Shape /\ TableInv)
<1>1. Init => Shape /\ TableInv
  BY ShapeInit, TableInvInit DEF Init
<1>2. Shape /\ TableInv /\ [Next]_vars => Shape' /\ TableInv'
  BY ShapeStep, TableInvStep DEF Shape
<1> QED
  BY <1>1, <1>2, PTL DEF Spec

(***************************************************************************)
(* The row of a printer holds what it published last, once that message is *)
(* handled, unless its messages overlapped, the last one died with the     *)
(* process, or another printer took over its row.                          *)
(***************************************************************************)
THEOREM RowsAreCurrent == Spec => []RowIsCurrent
  BY TableAlways, PTL DEF TableInv

(***************************************************************************)
(* No stored counter of a printer whose messages never overlapped falls.   *)
(***************************************************************************)
THEOREM NoCounterFalls == Spec => CountersNeverFall
<1> DEFINE Rises == \A mac \in Macs \ raced :
                      table[mac] # None /\ table'[mac] # None
                        => AtLeast(table'[mac].counters, table[mac].counters)
<1>1. Shape /\ TableInv /\ [Next]_vars => [Rises]_tableVars
  <2> SUFFICES ASSUME Shape, TableInv, [Next]_vars, tableVars' # tableVars,
                      NEW mac \in Macs \ raced, table[mac] # None, table'[mac] # None
               PROVE  AtLeast(table'[mac].counters, table[mac].counters)
    OBVIOUS
  <2>0. table[mac].counters \in Counters
    BY DEF Shape, TableOK, Row
  <2>1. CASE table'[mac] = table[mac]
    BY <2>0, <2>1, AtLeastOrders
  <2>2. ASSUME NEW msg \in Message, Upsert(msg)
        PROVE  AtLeast(table'[mac].counters, table[mac].counters)
    <3>1. CASE mac = msg.mac
      <4>0. TableOK
        BY DEF Shape
      <4>1. table'[mac].counters = msg.counters /\ msg \in inflight
        <5>1. table'[msg.mac] = [serial |-> msg.serial, counters |-> msg.counters]
          BY <2>2, <4>0, UpsertIs
        <5>2. msg \in inflight
          BY <2>2, <4>0, UpsertIs
        <5> QED
          BY <3>1, <5>1, <5>2
      <4>2. meter[mac] = msg.counters
        BY <3>1, <4>1 DEF TableInv, FlightIsLatest
      <4> QED
        BY <4>1, <4>2 DEF TableInv, RowsBelowMeter
    <3>2. CASE mac # msg.mac
      <4>1. table'[mac] = table[mac]
        BY <2>2, <3>2, UpsertIs DEF Shape
      <4> QED
        BY <2>1, <4>1
    <3> QED
      BY <3>1, <3>2
  <2> QED
    BY <2>1, <2>2, TableMoves DEF Report, Die
<1> QED
  BY <1>1, TableAlways, PTL DEF Spec, CountersNeverFall

-----------------------------------------------------------------------------
(***************************************************************************)
(* The rows of the months.                                                 *)
(***************************************************************************)

\* A snapshot may have been taken of month m: it is over, or getLastMonth
\* takes it for the last month already, as it will until it is over.
Reached(m) ==
    \/ Before(m, MonthOf(today))
    \/ m = MonthOf(today) /\ today.day > DaysIn(Previous(m))

AllReached ==
    /\ \A row \in monthly : Reached(row.month)
    /\ asked # None => \A row \in asked.rows : Reached(row.month)

\* A printer that was never raced has counted all that its rows hold.
RowsBelow ==
    \A row \in monthly :
        row.printerId \notin raced =>
            /\ meter[row.printerId] # None
            /\ row.counters.c_p <= meter[row.printerId].c_p
            /\ table[row.printerId] # None =>
                  row.counters.c_p <= table[row.printerId].counters.c_p

Rises(row, later) ==
    row.printerId = later.printerId /\ row.printerId \notin raced /\ Before(row.month, later.month)
        => row.counters.c_p <= later.counters.c_p

\* Its rows rise from month to month, those a query has read included.
HistoryRises ==
    /\ \A row, later \in monthly : Rises(row, later)
    /\ asked # None => \A row \in monthly, later \in asked.rows : Rises(row, later)

Chronicle == AllReached /\ RowsBelow /\ HistoryRises

LEMMA ChronicleInit == Init => Chronicle
  BY DEF Init, Chronicle, AllReached, RowsBelow, HistoryRises

LEMMA StoredAre ==
  ASSUME Shape
  PROVE  /\ \A row \in monthly : /\ row.printerId \in Macs /\ row.month \in AnyMonth
                                 /\ row.counters.c_p \in Nat
         /\ asked # None =>
              \A row \in asked.rows : /\ row.printerId \in Macs /\ row.month \in AnyMonth
                                      /\ row.counters.c_p \in Nat
  BY CountersAre DEF Shape, AskedOK, Stored

\* What handleData does to the counters of a printer that is not raced.
LEMMA CountersRise ==
  ASSUME TableOK, TableInv, NEW msg \in Message, Report(msg) \/ Upsert(msg),
         NEW mac \in Macs \ raced'
  PROVE  /\ mac \notin raced
         /\ meter[mac] # None => meter'[mac] # None /\ AtLeast(meter'[mac], meter[mac])
         /\ table'[mac] # None =>
              table'[mac] = table[mac] \/ table'[mac].counters = meter'[mac]
<1>1. CASE Report(msg)
  <2>1. /\ msg.mac \in Macs /\ msg.counters # None
        /\ meter' = [meter EXCEPT ![msg.mac] = msg.counters]
        /\ meter[msg.mac] # None => AtLeast(msg.counters, meter[msg.mac])
        /\ raced \subseteq raced' /\ table' = table
    BY <1>1, MessageIs DEF Report
  <2>2. meter[mac] # None => AtLeast(meter[mac], meter[mac])
    BY AtLeastOrders DEF TableOK
  <2> QED
    BY <2>1, <2>2 DEF TableOK
<1>2. CASE Upsert(msg)
  <2>1. UNCHANGED <<meter, raced>> /\ mac \notin raced
    BY <1>2, UpsertIs
  <2>2. meter[mac] # None => AtLeast(meter[mac], meter[mac])
    BY AtLeastOrders DEF TableOK
  <2>3. ASSUME table'[mac] # None
        PROVE  table'[mac] = table[mac] \/ table'[mac].counters = meter[mac]
    <3>1. CASE mac = msg.mac
      <4>1. table'[msg.mac] = [serial |-> msg.serial, counters |-> msg.counters]
        BY <1>2, UpsertIs
      <4>2. msg \in inflight
        BY <1>2, UpsertIs
      <4>3. meter[msg.mac] = msg.counters
        BY <2>1, <3>1, <4>2 DEF TableInv, FlightIsLatest
      <4> QED
        BY <3>1, <4>1, <4>3
    <3>2. CASE mac # msg.mac
      <4>1. mac \notin Holders(msg)
        BY <1>2, <2>3, UpsertIs
      <4> QED
        BY <1>2, <3>2, <4>1, UpsertIs
    <3> QED
      BY <3>1, <3>2
  <2> QED
    BY <2>1, <2>2, <2>3
<1> QED
  BY <1>1, <1>2

\* Months and queries while the table of printers moves.
LEMMA ChronicleKeeps ==
  ASSUME Chronicle, UNCHANGED <<monthly, today>>, asked' \in {asked, None}, raced \subseteq raced',
         RowsBelow'
  PROVE  Chronicle'
  BY DEF Chronicle, AllReached, Reached, HistoryRises, Rises

LEMMA ChronicleTable ==
  ASSUME Shape, TableInv, Chronicle, NEW msg \in Message,
         Report(msg) \/ Upsert(msg), UNCHANGED monthVars
  PROVE  Chronicle'
<1>1. TableOK /\ TableOK' /\ raced \subseteq raced'
  BY TableStep, UpsertIs DEF Shape, Report
<1>2. RowsBelow'
  <2> SUFFICES ASSUME NEW row \in monthly, row.printerId \notin raced'
               PROVE  /\ meter'[row.printerId] # None
                      /\ row.counters.c_p <= meter'[row.printerId].c_p
                      /\ table'[row.printerId] # None =>
                            row.counters.c_p <= table'[row.printerId].counters.c_p
    BY DEF RowsBelow, monthVars
  <2> DEFINE mac == row.printerId
  <2>1. /\ mac \in Macs /\ mac \notin raced /\ row.counters.c_p \in Nat
        /\ meter[mac] # None /\ row.counters.c_p <= meter[mac].c_p
        /\ table[mac] # None => row.counters.c_p <= table[mac].counters.c_p
    BY <1>1, StoredAre DEF Chronicle, RowsBelow
  <2>2. /\ meter'[mac] # None /\ AtLeast(meter'[mac], meter[mac])
        /\ table'[mac] # None =>
              table'[mac] = table[mac] \/ table'[mac].counters = meter'[mac]
    BY <1>1, <2>1, CountersRise
  <2>3. meter[mac].c_p \in Nat /\ meter'[mac].c_p \in Nat
    BY <1>1, <2>1, <2>2, CountersAre DEF TableOK, Counters
  <2> HIDE DEF mac
  <2>4. row.counters.c_p <= meter'[mac].c_p
    BY <2>1, <2>2, <2>3 DEF AtLeast
  <2> QED
    BY <2>1, <2>2, <2>4 DEF mac
<1> QED
  BY <1>1, <1>2, ChronicleKeeps DEF monthVars

\* getLastMonth names a month that is reached, and none after it is.
LEMMA LastIsReached ==
  ASSUME DateOK
  PROVE  /\ Reached(LastMonth(today))
         /\ \A m \in AnyMonth : Reached(m) => ~Before(LastMonth(today), m)
<1> DEFINE M == MonthOf(today)
<1>1. M \in AnyMonth /\ Previous(M) \in AnyMonth /\ today.day \in Int /\ DaysIn(Previous(M)) \in Int
  BY ThisMonth, DaysInIs, DayIs DEF DateOK
<1>2. /\ \A m \in AnyMonth : Before(m, M) => m = Previous(M) \/ Before(m, Previous(M))
      /\ Before(Previous(M), M)
  BY <1>1, PreviousIs
<1>3. CASE today.day <= DaysIn(Previous(M))
  <2>1. LastMonth(today) = Previous(M)
    BY <1>3, ThisMonth
  <2>2. \A m \in AnyMonth : Reached(m) => Before(m, M)
    BY <1>1, <1>3 DEF Reached
  <2> QED
    BY <1>1, <1>2, <2>1, <2>2, BeforeOrders DEF Reached
<1>4. CASE ~(today.day <= DaysIn(Previous(M)))
  <2>1. LastMonth(today) = M
    BY <1>4, ThisMonth
  <2>2. Reached(M)
    BY <1>1, <1>4 DEF Reached
  <2>3. \A m \in AnyMonth : Reached(m) => Before(m, M) \/ m = M
    BY DEF Reached
  <2> QED
    BY <1>1, <2>1, <2>2, <2>3, BeforeOrders
<1> QED
  BY <1>3, <1>4

LEMMA ChronicleSnapshot ==
  ASSUME Shape, TableInv, Chronicle, NEW macs \in SUBSET Macs,
         Snapshot(LastMonth(today), macs), UNCHANGED <<tableVars, today, asked>>
  PROVE  Chronicle'
<1> DEFINE L == LastMonth(today)
<1>1. /\ Reached(L) /\ L \in AnyMonth
      /\ \A m \in AnyMonth : Reached(m) => ~Before(L, m)
  BY LastIsReached, ThisMonth DEF Shape
<1>2. \A m : Reached(m)' <=> Reached(m)
  BY DEF Reached
<1>3. ASSUME NEW row \in monthly', row \notin monthly
      PROVE  /\ row.month = L /\ row.printerId \in Macs /\ table[row.printerId] # None
             /\ row.counters.c_p = table[row.printerId].counters.c_p
             /\ row.counters.c_p \in Nat
  BY <1>3, CountersAre DEF Snapshot, CopiedTo, Known, Stored
<1> HIDE DEF L
<1>4. AllReached'
  <2>1. \A row \in monthly' : Reached(row.month)
    BY <1>1, <1>3 DEF Chronicle, AllReached
  <2> QED
    BY <1>2, <2>1 DEF Chronicle, AllReached
<1>5. RowsBelow'
  <2> SUFFICES ASSUME NEW row \in monthly', row.printerId \notin raced
               PROVE  /\ meter[row.printerId] # None
                      /\ row.counters.c_p <= meter[row.printerId].c_p
                      /\ table[row.printerId] # None =>
                            row.counters.c_p <= table[row.printerId].counters.c_p
    BY DEF RowsBelow, tableVars
  <2>1. CASE row \in monthly
    BY <2>1 DEF Chronicle, RowsBelow
  <2>2. CASE row \notin monthly
    <3>1. meter[row.printerId] # None
          /\ AtLeast(meter[row.printerId], table[row.printerId].counters)
      BY <1>3, <2>2 DEF TableInv, RowsBelowMeter
    <3> QED
      BY <1>3, <2>2, <3>1 DEF AtLeast
  <2> QED
    BY <2>1, <2>2
<1>6. HistoryRises'
  <2>1. \A row, later : Rises(row, later)' <=> Rises(row, later)
    BY DEF Rises, tableVars
  <2>2. ASSUME NEW row \in monthly', NEW later \in monthly' PROVE Rises(row, later)
    <3>1. CASE later \in monthly
      <4>1. Reached(later.month) /\ later.month \in AnyMonth
        BY <3>1, StoredAre DEF Chronicle, AllReached
      <4>2. row.month = L => ~Before(row.month, later.month)
        BY <1>1, <4>1
      <4>3. CASE row \in monthly
        BY <3>1, <4>3 DEF Chronicle, HistoryRises
      <4>4. CASE row \notin monthly
        BY <1>3, <4>2, <4>4 DEF Rises
      <4> QED
        BY <4>3, <4>4
    <3>2. CASE later \notin monthly
      <4>1. CASE row \in monthly
        BY <1>3, <3>2, <4>1 DEF Chronicle, RowsBelow, Rises
      <4>2. CASE row \notin monthly
        BY <1>1, <1>3, <3>2, <4>2, BeforeOrders DEF Rises
      <4> QED
        BY <4>1, <4>2
    <3> QED
      BY <3>1, <3>2
  <2>3. ASSUME asked # None, NEW row \in monthly', NEW later \in asked.rows PROVE Rises(row, later)
    <3>1. Reached(later.month) /\ later.month \in AnyMonth
      BY <2>3, StoredAre DEF Chronicle, AllReached
    <3>2. row.month = L => ~Before(row.month, later.month)
      BY <1>1, <3>1
    <3>3. CASE row \in monthly
      BY <2>3, <3>3 DEF Chronicle, HistoryRises
    <3>4. CASE row \notin monthly
      BY <1>3, <3>2, <3>4 DEF Rises
    <3> QED
      BY <3>3, <3>4
  <2> QED
    BY <2>1, <2>2, <2>3 DEF HistoryRises
<1> QED
  BY <1>4, <1>5, <1>6 DEF Chronicle

LEMMA ChronicleTick ==
  ASSUME Shape, Chronicle, Tick
  PROVE  Chronicle'
<1>1. /\ UNCHANGED <<tableVars, monthly, asked>>
      /\ \/ MonthOf(today)' = MonthOf(today) /\ today'.day > today.day
         \/ MonthOf(today)' = Following(MonthOf(today)) /\ today'.day = 1
      /\ DateOK /\ DateOK'
  BY TickIs DEF Shape
<1>2. MonthOf(today) \in AnyMonth
  BY <1>1, ThisMonth
<1>3. ASSUME NEW m \in AnyMonth, Reached(m) PROVE Reached(m)'
  <2>1. CASE MonthOf(today)' = MonthOf(today) /\ today'.day > today.day
    <3>1. today.day \in Int /\ today'.day \in Int /\ DaysIn(Previous(m)) \in Int
      BY <1>1, DaysInIs, DayIs DEF DateOK
    <3> QED
      BY <1>3, <2>1, <3>1 DEF Reached
  <2>2. CASE MonthOf(today)' = Following(MonthOf(today))
    <3>1. /\ Following(MonthOf(today)) \in AnyMonth
          /\ Before(MonthOf(today), Following(MonthOf(today)))
      BY <1>2, FollowingIs
    <3>2. Before(m, MonthOf(today)) \/ m = MonthOf(today)
      BY <1>3 DEF Reached
    <3>3. Before(m, Following(MonthOf(today)))
      BY <1>2, <3>1, <3>2, BeforeOrders
    <3> QED
      BY <2>2, <3>3 DEF Reached
  <2> QED
    BY <1>1, <2>1, <2>2
<1>4. AllReached'
  BY <1>1, <1>3, StoredAre DEF Chronicle, AllReached
<1>5. RowsBelow' /\ HistoryRises'
  BY <1>1 DEF tableVars, Chronicle, RowsBelow, HistoryRises, Rises
<1> QED
  BY <1>4, <1>5 DEF Chronicle

LEMMA ChronicleStep == Shape /\ TableInv /\ Chronicle /\ [Next]_vars => Chronicle'
<1> SUFFICES ASSUME Shape, TableInv, Chronicle, [Next]_vars PROVE Chronicle'
  OBVIOUS
<1>0. DateOK /\ LastMonth(today) \in AnyMonth
  BY ThisMonth DEF Shape
<1>1. ASSUME NEW msg \in Message, Report(msg) \/ Upsert(msg), UNCHANGED monthVars PROVE Chronicle'
  BY <1>1, ChronicleTable
<1>2. CASE Die /\ Restart
  BY <1>2, ChronicleKeeps DEF Die, Restart, Chronicle, RowsBelow
<1>3. CASE SnapshotLastMonth
  BY <1>0, <1>3, SnapshotAllIs, ChronicleSnapshot DEF SnapshotLastMonth
<1>4. ASSUME NEW macs \in SUBSET Macs, TriggerSnapshot(macs) PROVE Chronicle'
  BY <1>0, <1>4, SnapshotOneIs, ChronicleSnapshot DEF TriggerSnapshot
<1>5. ASSUME NEW month, NEW macs, Ask(month, macs) PROVE Chronicle'
  <2>1. UNCHANGED <<tableVars, monthly, today>> /\ asked'.rows \subseteq monthly
    BY <1>5 DEF Ask, FindByYearMonth
  <2> QED
    BY <2>1 DEF tableVars, Chronicle, AllReached, Reached, RowsBelow, HistoryRises, Rises
<1>6. CASE UNCHANGED <<tableVars, monthly, today>> /\ asked' \in {asked, None}
  BY <1>6, ChronicleKeeps DEF tableVars, Chronicle, RowsBelow
<1>7. CASE Tick
  BY <1>7, ChronicleTick
<1> QED
  BY <1>1, <1>2, <1>3, <1>4, <1>5, <1>6, <1>7
     DEF Next, RefuseUpsert, MissSnapshot, ReadLast, vars, monthVars

(***************************************************************************)
(* No query for a month answers a negative number of pages for a printer   *)
(* whose messages never overlapped, whatever was reported, copied, copied  *)
(* again or missed, even between the two reads of the query.               *)
(***************************************************************************)
THEOREM NoNegativePages == Spec => []DeltasAreNotNegative
<1>1. Shape /\ Chronicle => DeltasAreNotNegative
  <2> SUFFICES ASSUME Shape, Chronicle, asked # None, NEW d \in Answer, d.printerId \notin raced
               PROVE  d.c_p >= 0
    BY DEF DeltasAreNotNegative
  <2>1. PICK cur \in asked.rows, before \in FindLastMonth(asked.month) \cup {None} :
          /\ d = Delta(cur, before)
          /\ before = None \/ before.printerId = cur.printerId
    BY DEF Answer, ToDelta
  <2>2. cur.counters.c_p \in Nat /\ d.printerId = cur.printerId
    BY <2>1, StoredAre DEF Delta
  <2>3. CASE before = None
    BY <2>1, <2>2, <2>3 DEF Delta
  <2>4. CASE before # None
    <3>1. before \in monthly /\ before.month = Previous(asked.month)
      BY <2>1, <2>4 DEF FindLastMonth
    <3>2. Before(before.month, cur.month)
      BY <3>1, PreviousIs DEF Shape, AskedOK
    <3>3. before.counters.c_p <= cur.counters.c_p
      BY <2>1, <2>2, <2>4, <3>1, <3>2 DEF Chronicle, HistoryRises, Rises
    <3>4. before.counters.c_p \in Nat /\ d.c_p = cur.counters.c_p - before.counters.c_p
      BY <2>1, <2>4, <3>1, StoredAre DEF Delta
    <3> QED
      BY <2>2, <3>3, <3>4
  <2> QED
    BY <2>3, <2>4
<1>2. Init => Shape /\ TableInv /\ Chronicle
  BY ShapeInit, TableInvInit, ChronicleInit DEF Init
<1>3. Shape /\ TableInv /\ Chronicle /\ [Next]_vars => Shape' /\ TableInv' /\ Chronicle'
  BY ShapeStep, TableInvStep, ChronicleStep DEF Shape
<1> QED
  BY <1>1, <1>2, <1>3, PTL DEF Spec

\* Of one printer, the map by year and month has its own row of each month.
LEMMA BatchOfOne ==
  ASSUME Shape, NEW mac \in Macs, NEW rows \in SUBSET monthly,
         \A row \in rows : row.printerId = mac,
         NEW cur \in rows,
         RowsOf(mac, Previous(cur.month)) \subseteq rows
  PROVE  Formula(cur) \in ToDeltaBatch(rows)
<1> DEFINE last == RowsOf(mac, Previous(cur.month))
<1> DEFINE InMonth(m) == {row \in rows : row.month = m}
<1> DEFINE Mapped(m) ==
      IF InMonth(m) = {} THEN None
      ELSE CHOOSE row \in InMonth(m) :
               \A other \in InMonth(m) \ {row} : other.printerId < row.printerId
<1>1. InMonth(Previous(cur.month)) = last
  BY DEF RowsOf
<1>2. ToDeltaBatch(rows) = {Delta(one, Mapped(Previous(one.month))) : one \in rows}
  BY DEF ToDeltaBatch
<1>3. Formula(cur) = Delta(cur, IF last = {} THEN None ELSE CHOOSE row \in last : TRUE)
  <2>1. RowsOf(cur.printerId, Previous(cur.month)) = last
    OBVIOUS
  <2> QED
    BY ONLY <2>1 DEF Formula
<1>4. Mapped(Previous(cur.month)) = IF last = {} THEN None ELSE CHOOSE row \in last : TRUE
  <2>1. CASE last = {}
    BY <1>1, <2>1
  <2>2. CASE last # {}
    <3>1. PICK only : last = {only}
      BY <2>2 DEF Shape, OneRowEach, RowsOf
    <3>2. (CHOOSE row \in last : TRUE) = only
      BY <3>1
    <3>3. (CHOOSE row \in last : \A other \in last \ {row} : other.printerId < row.printerId) = only
      BY <3>1
    <3> HIDE DEF last
    <3>4. Mapped(Previous(cur.month)) = only
      BY <1>1, <2>2, <3>3
    <3> QED
      BY <2>2, <3>2, <3>4
  <2> QED
    BY <2>1, <2>2
<1> HIDE DEF Mapped, last
<1> QED
  BY <1>2, <1>3, <1>4

(***************************************************************************)
(* The history of a printer follows the formula of the API documentation   *)
(* in every row but the oldest one answered: if a row is among those the   *)
(* limit leaves, so is that of any month after it.                         *)
(***************************************************************************)
THEOREM HistoryIsRight == Spec => []HistoryFollowsFormula
<1>1. Shape => HistoryFollowsFormula
  <2> SUFFICES ASSUME Shape, NEW mac \in Macs, NEW limit \in Limits,
                      NEW cur \in FindByPrinterIdHistory(mac, limit),
                      NEW older \in FindByPrinterIdHistory(mac, limit),
                      Before(older.month, cur.month)
               PROVE  Formula(cur) \in FindByPrinterId(mac, limit)
    BY DEF HistoryFollowsFormula
  <2> DEFINE mine == {row \in monthly : row.printerId = mac}
  <2> DEFINE Later(row) == {later \in mine : Before(row.month, later.month)}
  <2> DEFINE rows == FindByPrinterIdHistory(mac, limit)
  <2>1. rows = {row \in mine : Cardinality(Later(row)) < limit}
    BY DEF FindByPrinterIdHistory
  <2>2. ASSUME NEW row \in RowsOf(mac, Previous(cur.month)) PROVE row \in rows
    <3>1. row \in mine /\ row.month = Previous(cur.month)
      BY DEF RowsOf
    <3>2. cur.month \in AnyMonth /\ older.month \in AnyMonth /\ \A one \in mine : one.month \in AnyMonth
      BY <2>1, StoredAre
    <3>3. older.month = row.month \/ Before(older.month, row.month)
      BY <3>1, <3>2, PreviousIs
    <3>4. Later(row) \subseteq Later(older)
      BY <3>1, <3>2, <3>3, BeforeOrders
    <3>5. IsFiniteSet(Later(older)) /\ IsFiniteSet(Later(row))
      <4>1. Later(older) \in SUBSET monthly /\ Later(row) \in SUBSET monthly
        OBVIOUS
      <4> QED
        BY <4>1, FS_Subset DEF Shape
    <3>6. /\ Cardinality(Later(row)) <= Cardinality(Later(older))
          /\ Cardinality(Later(row)) \in Nat /\ Cardinality(Later(older)) \in Nat
      BY <3>4, <3>5, FS_Subset, FS_CardinalityType
    <3>7. Cardinality(Later(older)) < limit /\ limit \in Nat
      BY <2>1, DateAssumption
    <3> HIDE DEF Later
    <3>8. Cardinality(Later(row)) < limit
      BY <3>6, <3>7
    <3> QED
      BY <2>1, <3>1, <3>8
  <2>3. rows \in SUBSET monthly /\ \A row \in rows : row.printerId = mac
    BY <2>1
  <2> HIDE DEF rows
  <2>4. Formula(cur) \in ToDeltaBatch(rows)
    BY <2>2, <2>3, BatchOfOne DEF rows
  <2> QED
    BY <2>4 DEF rows, FindByPrinterId
<1> QED
  BY <1>1, TableAlways, PTL

=============================================================================
