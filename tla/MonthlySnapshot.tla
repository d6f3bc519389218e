-------------------------- MODULE MonthlySnapshot --------------------------
(***************************************************************************)
(* The monthly statistics: PrinterSnapshotService, PrinterMonthlyService   *)
(* and, through PrinterTable, the counters they copy.                      *)
(*                                                                         *)
(* On the first of a month the counters of all printers are copied to      *)
(* pre_printer_monthly as the closing values of the month before; a caller *)
(* may order the same for chosen printers on any day.  Queries answer the  *)
(* differences between the rows of consecutive months.                     *)
(*                                                                         *)
(* A copy is a single INSERT ... SELECT ... ON DUPLICATE KEY UPDATE, which *)
(* reads pre_printer consistently: one action.  A call is taken to execute *)
(* its statement on the day it was made.                                   *)
(***************************************************************************)
EXTENDS PrinterTable, Calendar, Integers

CONSTANTS
    FirstDay,   \* the first date
    LastDay,    \* the last date: bound on the calendar
    Days,       \* the days of a month on which something may happen
    Limits      \* values of the query parameter limit

ASSUME DateAssumption ==
    /\ {FirstDay, LastDay} \subseteq [year : Nat, month : 1..12, day : Days]
    /\ FirstDay.day <= DaysIn(MonthOf(FirstDay))
    /\ Days \subseteq 1..31
    /\ 1 \in Days
    /\ Limits \subseteq Nat \ {0}

VARIABLES
    monthly,    \* pre_printer_monthly: a set of rows
    today,      \* the date
    due,        \* it is the first of a month, and not yet five past midnight
    asked       \* a query between its two reads, or None

monthVars == <<monthly, today, due, asked>>
vars == <<tableVars, monthVars>>

MonthlyRow == [printerId : Macs, month : Month, counters : Counters]
Question   == [month : Month, rows : SUBSET MonthlyRow]

Init ==
    /\ InitTable
    /\ monthly = {}
    /\ today   = FirstDay
    /\ due     = FALSE
    /\ asked   = None

-----------------------------------------------------------------------------
(* Taking snapshots                                                        *)

RowsOf(mac, month) == {row \in monthly : row.printerId = mac /\ row.month = month}

\* The printers of which the SELECT finds a row.
Known(macs) == {mac \in macs : table[mac] # None}

\* The rows that have no successor in a snapshot of these printers.
Kept(month, macs) ==
    {row \in monthly : row.month # month \/ row.printerId \notin Known(macs)}

Copy(month, mac) ==
    [printerId |-> mac, month |-> month, counters |-> table[mac].counters]

(***************************************************************************)
(* SNAPSHOT_SQL_ALL.  If the row is there already, its c_cp is set to      *)
(* VALUES(c_p).                                                            *)
(***************************************************************************)
CopyAll(month, mac) ==
    IF RowsOf(mac, month) = {}
    THEN Copy(month, mac)
    ELSE [Copy(month, mac) EXCEPT !.counters.c_cp = table[mac].counters.c_p]

\* Mutant: a row that is there already gets a second one beside it.
SnapshotOneAppends(month, macs) ==
    monthly' = monthly \cup {Copy(month, mac) : mac \in Known(macs)}

\* SNAPSHOT_SQL_ONE
SnapshotOne(month, macs) ==
    monthly' = Kept(month, macs) \cup {Copy(month, mac) : mac \in Known(macs)}

SnapshotAll(month) ==
    monthly' = Kept(month, Macs) \cup {CopyAll(month, mac) : mac \in Known(Macs)}

\* The cron job, at five past midnight on the first of a month.
SnapshotLastMonth ==
    /\ due
    /\ due' = FALSE
    /\ SnapshotAll(LastMonth(today))
    /\ UNCHANGED <<tableVars, today, asked>>

\* The process is down at that moment or the statement fails: no second try.
MissSnapshot ==
    /\ due
    /\ due' = FALSE
    /\ UNCHANGED <<tableVars, monthly, today, asked>>

\* POST /printer/monthly/snapshot
TriggerSnapshot(macs) ==
    /\ macs # {}
    /\ SnapshotOne(LastMonth(today), macs)
    /\ UNCHANGED <<tableVars, today, due, asked>>

-----------------------------------------------------------------------------
(* GET /printer/monthly                                                    *)

\* calcDelta; a missing row counts as zero.
Delta(cur, before) ==
    [printerId |-> cur.printerId,
     month     |-> cur.month,
     c_cp |-> cur.counters.c_cp -
                (IF before = None THEN 0 ELSE before.counters.c_cp),
     c_p  |-> cur.counters.c_p -
                (IF before = None THEN 0 ELSE before.counters.c_p)]

\* Mutant: the rows of the month before are not told apart by printer.
ToDeltaOfAny(current, lastRows) ==
    {Delta(cur, IF lastRows = {} THEN None ELSE CHOOSE row \in lastRows : TRUE) :
         cur \in current}

ToDelta(current, lastRows) ==
    {Delta(cur, IF \E row \in lastRows : row.printerId = cur.printerId
                THEN CHOOSE row \in lastRows : row.printerId = cur.printerId
                ELSE None) : cur \in current}

\* Mutant: the month before January is sought in the same year.
ToDeltaBatchSameYear(rows) ==
    {Delta(cur,
           LET last == {row \in rows :
                   /\ row.month.year = cur.month.year
                   /\ row.month.month = Previous(cur.month).month}
           IN  IF last = {} THEN None ELSE CHOOSE row \in last : TRUE) : cur \in rows}

(***************************************************************************)
(* toDeltaBatch keys its map by year and month alone; of several rows of a *)
(* month the one that comes last, in the order of printerId, stays.        *)
(***************************************************************************)
ToDeltaBatch(rows) ==
    LET InMonth(m) == {row \in rows : row.month = m}
        Mapped(m) ==
            IF InMonth(m) = {} THEN None
            ELSE CHOOSE row \in InMonth(m) :
                     \A other \in InMonth(m) \ {row} : other.printerId < row.printerId
    IN {Delta(cur, Mapped(Previous(cur.month))) : cur \in rows}

FindByYearMonth(month, macs) ==
    {row \in monthly : row.month = month /\ row.printerId \in macs}

FindLastMonth(month) == {row \in monthly : row.month = Previous(month)}

\* No parameters: everything.
FindAll == ToDeltaBatch(monthly)

\* The rows of a printer in its last months, as many as the limit allows.
FindByPrinterIdHistory(mac, limit) ==
    LET mine == {row \in monthly : row.printerId = mac}
    IN  {row \in mine :
            Cardinality({later \in mine : Before(row.month, later.month)}) < limit}

\* printerId without year and month.
FindByPrinterId(mac, limit) == ToDeltaBatch(FindByPrinterIdHistory(mac, limit))

\* year and month, with or without printerId: the first of two reads.
Ask(month, macs) ==
    /\ asked = None
    /\ asked' = [month |-> month, rows |-> FindByYearMonth(month, macs)]
    /\ UNCHANGED <<tableVars, monthly, today, due>>

\* What the query under way answers if its second read happens now.
Answer == ToDelta(asked.rows, FindLastMonth(asked.month))

ReadLast ==
    /\ asked # None
    /\ asked' = None
    /\ UNCHANGED <<tableVars, monthly, today, due>>

-----------------------------------------------------------------------------
Earlier(date, other) ==
    \/ Before(MonthOf(date), MonthOf(other))
    \/ MonthOf(date) = MonthOf(other) /\ date.day < other.day

\* The date moves on, within the month or to the first of the next one.
Tick ==
    /\ ~due
    /\ Earlier(today, LastDay)
    /\ \/ \E day \in Days :
            /\ today.day < day /\ day <= DaysIn(MonthOf(today))
            /\ today' = [today EXCEPT !.day = day]
            /\ due' = FALSE
       \/ /\ today' = FirstOf(Following(MonthOf(today)))
          /\ due' = TRUE
    /\ UNCHANGED <<tableVars, monthly, asked>>

\* What the process was about to do is forgotten; the tables stay.
Restart == asked' = None /\ UNCHANGED <<monthly, today, due>>

Next ==
    \/ \E msg \in Message : Report(msg) /\ UNCHANGED monthVars
    \/ \E msg \in Message : Upsert(msg) /\ UNCHANGED monthVars
    \/ \E msg \in Message : RefuseUpsert(msg) /\ Restart
    \/ Die /\ Restart
    \/ SnapshotLastMonth
    \/ MissSnapshot
    \/ \E macs \in SUBSET Macs : TriggerSnapshot(macs)
    \/ \E month \in {row.month : row \in monthly}, macs \in {Macs} \cup {{m} : m \in Macs} :
          Ask(month, macs)
    \/ ReadLast
    \/ Tick

Spec == Init /\ [][Next]_vars

-----------------------------------------------------------------------------
(***************************************************************************)
(* Type invariant; a printer has one row per month.                        *)
(***************************************************************************)
TypeOK ==
    /\ TableOK
    /\ \A row \in monthly :
          /\ row.printerId \in Macs
          /\ row.month.month \in 1..12
          /\ row.counters \in [c_cp : Nat, c_p : 0..MaxPrints]
          /\ RowsOf(row.printerId, row.month) = {row}
    /\ today.day \in Days /\ today.day <= DaysIn(MonthOf(today))
    /\ due \in BOOLEAN
    /\ due => today.day = 1
    /\ asked # None => \A row \in asked.rows : row.month = asked.month

(***************************************************************************)
(* A query for a month never answers that a printer has printed a negative *)
(* number of pages, whatever was reported, copied, copied again or missed  *)
(* and whichever copy falls between the two reads of the query.  Printers  *)
(* of which two messages once overlapped may get such an answer.  This is  *)
(* about the page counters that c_p stands for: not about c_cp, which may  *)
(* hold another column, nor about the toner levels, which go down and are  *)
(* documented to have negative deltas (printer.controller.ts:178).         *)
(***************************************************************************)
DeltasAreNotNegative ==
    asked # None => \A d \in Answer : d.printerId \in raced \/ d.c_p >= 0

(***************************************************************************)
(* History is not rewritten: only rows of this month and the one before    *)
(* ever change, so a month is final once the next one is over.             *)
(***************************************************************************)
HistoryIsFrozen ==
    [][LET Open == {MonthOf(today), Previous(MonthOf(today))} IN
       {row \in monthly : row.month \notin Open}
         = {row \in monthly' : row.month \notin Open}]_vars

(***************************************************************************)
(* What the entity says (printer-monthly.entity.ts:3 and :47): a row holds *)
(* the printer's cumulative counters, c_cp those of colour copies.  None   *)
(* can then exceed what the printer has counted, but c_cp does.            *)
(***************************************************************************)
ColumnsAreCopied ==
    \A row \in monthly : AtLeast(meter[row.printerId], row.counters)

(***************************************************************************)
(* What the comment of triggerSnapshot says (printer-monthly.service.ts:   *)
(* 131): a snapshot is one of the month before.  The code also takes rows  *)
(* of a month that is not over.                                            *)
(***************************************************************************)
SnapshotsAreOfLastMonth ==
    \A row \in monthly : row.month # MonthOf(today)

(***************************************************************************)
(* The formula of the API documentation (printer.controller.ts:176): each  *)
(* delta is the printer's own value of the month minus its own value of    *)
(* the month before, or minus 0 if there is no such row.                   *)
(***************************************************************************)
Formula(cur) ==
    LET last == RowsOf(cur.printerId, Previous(cur.month))
    IN  Delta(cur, IF last = {} THEN None ELSE CHOOSE row \in last : TRUE)

(***************************************************************************)
(* The history of a printer follows the formula in every row but the       *)
(* oldest one answered, whose month before the limit may have cut off.     *)
(***************************************************************************)
HistoryFollowsFormula ==
    \A mac \in Macs, limit \in Limits :
        LET rows == FindByPrinterIdHistory(mac, limit) IN
        \A cur \in rows :
            (\E older \in rows : Before(older.month, cur.month))
                => Formula(cur) \in FindByPrinterId(mac, limit)

(***************************************************************************)
(* The formula holds of a query without parameters.  It does not when      *)
(* several printers have rows of the same month.                           *)
(***************************************************************************)
AllFollowFormula == \A cur \in monthly : Formula(cur) \in FindAll

=============================================================================
