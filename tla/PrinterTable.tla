---------------------------- MODULE PrinterTable ----------------------------
(***************************************************************************)
(* The table pre_printer and its only writer, PrinterService.handleData,   *)
(* which stores the counters that a printer publishes.                     *)
(*                                                                         *)
(* handleData issues one INSERT ... ON DUPLICATE KEY UPDATE.  Printer and  *)
(* serial number are both unique, so the statement may insert a row,       *)
(* update the printer's row, take over the row of another printer that had *)
(* the serial number, or be refused.  The statements of several messages   *)
(* travel over different pooled connections and execute in any order.      *)
(* Nobody awaits handleData: if its statement is refused or fails, the     *)
(* rejected promise ends the process.                                      *)
(*                                                                         *)
(* Of the nine numbers two are modelled: c_cp and c_p, which stands for    *)
(* the four other page counters, treated alike.  The toner levels travel   *)
(* the same way but go down, and are left out.                             *)
(***************************************************************************)
EXTENDS Naturals, FiniteSets

CONSTANTS
    Macs,         \* the printers
    Serials,      \* serial numbers
    MaxCopies,    \* bound on the counter c_cp
    MaxPrints,    \* bound on the counter c_p
    MaxInFlight,  \* bound on the messages being handled
    MaxDeaths,    \* bound on the deaths of the process
    None          \* no value

ASSUME TableAssumption ==
    /\ IsFiniteSet(Macs)
    /\ MaxCopies \in Nat /\ MaxPrints \in Nat
    /\ MaxInFlight \in Nat /\ MaxDeaths \in Nat

VARIABLES
    table,      \* pre_printer: the row of each printer, or None
    meter,      \* the counters each printer published last, or None
    inflight,   \* messages whose statement has not been executed
    deaths,     \* how often the process has died
    \* Observations, read by properties only:
    raced,      \* printers of which two messages were in flight together
    lost,       \* printers whose last message died with the process
    displaced   \* printers whose row another printer took over

tableVars == <<table, meter, inflight, deaths, raced, lost, displaced>>

Counters == [c_cp : 0..MaxCopies, c_p : 0..MaxPrints]
Row      == [serial : Serials, counters : Counters]
Message  == [mac : Macs, serial : Serials, counters : Counters]

ASSUME TableNoneAssumption == None \notin Counters \cup Row

InitTable ==
    /\ table     = [mac \in Macs |-> None]
    /\ meter     = [mac \in Macs |-> None]
    /\ inflight  = {}
    /\ deaths    = 0
    /\ raced     = {}
    /\ lost      = {}
    /\ displaced = {}

-----------------------------------------------------------------------------
AtLeast(c, d) == c.c_cp >= d.c_cp /\ c.c_p >= d.c_p

Pending(mac) == {msg \in inflight : msg.mac = mac}

\* The message of a printer, whose counters only grow, reaches handleData.
Report(msg) ==
    /\ Cardinality(inflight) < MaxInFlight
    /\ msg \notin inflight
    /\ meter[msg.mac] # None => AtLeast(msg.counters, meter[msg.mac])
    /\ inflight' = inflight \cup {msg}
    /\ meter' = [meter EXCEPT ![msg.mac] = msg.counters]
    /\ raced' = IF Pending(msg.mac) = {} THEN raced ELSE raced \cup {msg.mac}
    /\ lost' = lost \ {msg.mac}
    /\ UNCHANGED <<table, deaths, displaced>>

\* The other printer whose row has this message's serial number.
Holders(msg) ==
    {mac \in Macs \ {msg.mac} : table[mac] # None /\ table[mac].serial = msg.serial}

\* One row has the printer and another the serial number.
Refused(msg) == table[msg.mac] # None /\ Holders(msg) # {}

\* Mutant: a row that exists keeps its counters.
UpsertKeeps(msg) ==
    /\ msg \in inflight
    /\ ~Refused(msg)
    /\ inflight' = inflight \ {msg}
    /\ table' = [mac \in Macs |->
         CASE mac = msg.mac /\ table[mac] # None
                                 -> [table[mac] EXCEPT !.serial = msg.serial]
           [] mac = msg.mac      -> [serial |-> msg.serial, counters |-> msg.counters]
           [] mac \in Holders(msg) -> None
           [] OTHER              -> table[mac]]
    /\ displaced' = (displaced \ {msg.mac}) \cup Holders(msg)
    /\ UNCHANGED <<meter, deaths, raced, lost>>

\* Mutant: counters that are missing from the statement are set to zero.
UpsertZeroes(msg) ==
    /\ msg \in inflight
    /\ ~Refused(msg)
    /\ inflight' = inflight \ {msg}
    /\ table' = [mac \in Macs |->
         CASE mac = msg.mac /\ table[mac] # None
                                 -> [table[mac] EXCEPT !.counters.c_p = 0]
           [] mac = msg.mac      -> [serial |-> msg.serial, counters |-> msg.counters]
           [] mac \in Holders(msg) -> None
           [] OTHER              -> table[mac]]
    /\ displaced' = (displaced \ {msg.mac}) \cup Holders(msg)
    /\ UNCHANGED <<meter, deaths, raced, lost>>

(***************************************************************************)
(* The statement is executed.  A row found by its serial number changes    *)
(* its printer_id like every other column: its old printer loses it.       *)
(***************************************************************************)
Upsert(msg) ==
    /\ msg \in inflight
    /\ ~Refused(msg)
    /\ inflight' = inflight \ {msg}
    /\ table' = [mac \in Macs |->
         CASE mac = msg.mac -> [serial |-> msg.serial, counters |-> msg.counters]
           [] mac \in Holders(msg) -> None
           [] OTHER -> table[mac]]
    /\ displaced' = (displaced \ {msg.mac}) \cup Holders(msg)
    /\ UNCHANGED <<meter, deaths, raced, lost>>

\* The process dies, and with it every message in flight.
Die ==
    /\ deaths < MaxDeaths
    /\ deaths' = deaths + 1
    /\ inflight' = {}
    /\ lost' = lost \cup {msg.mac : msg \in inflight}
    /\ UNCHANGED <<table, meter, raced, displaced>>

\* A duplicate key: the rejected promise of handleData is nobody's.
RefuseUpsert(msg) ==
    /\ msg \in inflight
    /\ Refused(msg)
    /\ Die

-----------------------------------------------------------------------------
(***************************************************************************)
(* Type invariant of the table.                                            *)
(***************************************************************************)
TableOK ==
    /\ table     \in [Macs -> Row \cup {None}]
    /\ meter     \in [Macs -> Counters \cup {None}]
    /\ inflight  \subseteq Message
    /\ deaths    \in 0..MaxDeaths
    /\ raced     \subseteq Macs
    /\ lost      \subseteq Macs
    /\ displaced \subseteq Macs

(***************************************************************************)
(* A printer that has published its counters and of which no message is    *)
(* being handled has a row with just these counters, unless two of its     *)
(* messages once overlapped, the last one died with the process, or its    *)
(* row was taken over by another printer that showed its serial number.    *)
(***************************************************************************)
RowIsCurrent ==
    \A mac \in Macs \ (raced \cup lost \cup displaced) :
        meter[mac] # None /\ Pending(mac) = {} =>
            table[mac] # None /\ table[mac].counters = meter[mac]

(***************************************************************************)
(* A stored counter never falls, unless two messages of the printer once   *)
(* overlapped and the older one was stored last.                           *)
(***************************************************************************)
CountersNeverFall ==
    [][\A mac \in Macs \ raced :
          table[mac] # None /\ table'[mac] # None
              => AtLeast(table'[mac].counters, table[mac].counters)]_tableVars

=============================================================================
