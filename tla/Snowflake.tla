----------------------------- MODULE Snowflake -----------------------------
(***************************************************************************)
(* The generator of the uuids of registered printers (lib/snowflake).      *)
(*                                                                         *)
(* generate() combines the wall clock in milliseconds with a sequence      *)
(* number.  It runs on the event loop without yielding, but the clock goes *)
(* on while it runs and may be set back, and it reads the clock once, or,  *)
(* when the numbers of a millisecond are used up, again and again until    *)
(* the millisecond is over and then once more.  A restarted process has    *)
(* forgotten its last timestamp.                                           *)
(***************************************************************************)
EXTENDS Naturals, Sequences

CONSTANTS
    SequenceSize,  \* sequence numbers per millisecond: MAX_SEQUENCE + 1
    WorkerIds,     \* number of worker ids: MAX_WORKER_ID + 1
    WorkerId,      \* the worker id of this process
    MaxClock,      \* bound on the clock
    MaxSetBacks,   \* bound on how often the clock is set back
    MaxRestarts    \* bound on the restarts of the process

ASSUME SizeAssumption ==
    /\ SequenceSize \in Nat \ {0}
    /\ WorkerIds \in Nat \ {0}
    /\ WorkerId \in 0..(WorkerIds - 1)
    /\ MaxClock \in Nat \ {0} /\ MaxSetBacks \in Nat /\ MaxRestarts \in Nat

VARIABLES
    clock,          \* Date.now()
    lastTimestamp,  \* timestamp of the last id, 0 before the first
    sequence,       \* its sequence number
    waiting,        \* progress of a call that used up its millisecond
    setBacks,       \* how often the clock was set back
    restarts,       \* how often the process was restarted
    \* Observations, read by properties only:
    issued,         \* all ids ever returned
    fresh,          \* the ids this process has returned, in order
    repeated,       \* ids returned more than once
    slipped         \* the clock was set back under a call that waited

vars == <<clock, lastTimestamp, sequence, waiting, setBacks, restarts,
          issued, fresh, repeated, slipped>>

\* "spin": in the loop; "over": out of it, about to read the clock again.
Waits == {"no", "spin", "over"}

Times == 1..MaxClock
IdRecord == [timestamp : Times, sequence : 0..(SequenceSize - 1)]

\* The id as a number; its fields do not overlap, so | adds them.
Encode(id) == (id.timestamp * WorkerIds + WorkerId) * SequenceSize + id.sequence

Init ==
    /\ clock         \in Times
    /\ lastTimestamp = 0
    /\ sequence      = 0
    /\ waiting       = "no"
    /\ setBacks      = 0
    /\ restarts      = 0
    /\ issued        = {}
    /\ fresh         = <<>>
    /\ repeated      = {}
    /\ slipped       = FALSE

-----------------------------------------------------------------------------
\* generate() returns the id of this timestamp and sequence number.
Return(timestamp, number) ==
    LET id == [timestamp |-> timestamp, sequence |-> number] IN
    /\ lastTimestamp' = timestamp
    /\ sequence' = number
    /\ issued' = issued \cup {id}
    /\ fresh' = Append(fresh, id)
    /\ repeated' = IF id \in issued THEN repeated \cup {id} ELSE repeated

Following(number) == (number + 1) % SequenceSize

\* The clock is behind the last id: generate() throws.
Refuse ==
    /\ waiting = "no"
    /\ clock < lastTimestamp
    /\ UNCHANGED vars

\* Mutant: a clock that is behind is taken like one that has moved on.
NewMillisecondAnyway ==
    /\ waiting = "no"
    /\ clock # lastTimestamp
    /\ Return(clock, 0)
    /\ UNCHANGED <<clock, waiting, setBacks, restarts, slipped>>

NewMillisecond ==
    /\ waiting = "no"
    /\ clock > lastTimestamp
    /\ Return(clock, 0)
    /\ UNCHANGED <<clock, waiting, setBacks, restarts, slipped>>

\* Mutant: the sequence number is not masked.
SameMillisecondUnmasked ==
    /\ waiting = "no"
    /\ clock = lastTimestamp
    /\ Return(clock, sequence + 1)
    /\ UNCHANGED <<clock, waiting, setBacks, restarts, slipped>>

SameMillisecond ==
    /\ waiting = "no"
    /\ clock = lastTimestamp
    /\ Following(sequence) # 0
    /\ Return(clock, Following(sequence))
    /\ UNCHANGED <<clock, waiting, setBacks, restarts, slipped>>

\* Mutant: the first number is used again without waiting.
UseUpWithoutWaiting ==
    /\ waiting = "no"
    /\ clock = lastTimestamp
    /\ Following(sequence) = 0
    /\ Return(clock, 0)
    /\ UNCHANGED <<clock, waiting, setBacks, restarts, slipped>>

\* All numbers of this millisecond are used: the call enters the loop.
UseUp ==
    /\ waiting = "no"
    /\ clock = lastTimestamp
    /\ Following(sequence) = 0
    /\ sequence' = 0
    /\ waiting' = "spin"
    /\ UNCHANGED <<clock, lastTimestamp, setBacks, restarts,
                   issued, fresh, repeated, slipped>>

\* while (Date.now() <= timestamp) ends.
LeaveLoop ==
    /\ waiting = "spin"
    /\ clock > lastTimestamp
    /\ waiting' = "over"
    /\ UNCHANGED <<clock, lastTimestamp, sequence, setBacks, restarts,
                   issued, fresh, repeated, slipped>>

\* timestamp = Date.now() once more, without comparing it to anything.
ReadAgain ==
    /\ waiting = "over"
    /\ waiting' = "no"
    /\ Return(clock, sequence)
    /\ UNCHANGED <<clock, setBacks, restarts, slipped>>

-----------------------------------------------------------------------------
Tick ==
    /\ \E now \in Times : now > clock /\ clock' = now
    /\ UNCHANGED <<lastTimestamp, sequence, waiting, setBacks, restarts,
                   issued, fresh, repeated, slipped>>

\* The clock is set back, by NTP or by hand.
SetBack ==
    /\ setBacks < MaxSetBacks
    /\ setBacks' = setBacks + 1
    /\ \E now \in Times : now < clock /\ clock' = now
    /\ slipped' = (slipped \/ waiting = "over")
    /\ UNCHANGED <<lastTimestamp, sequence, waiting, restarts, issued, fresh, repeated>>

\* The process is restarted, which takes longer than a millisecond.
Restart ==
    /\ restarts < MaxRestarts
    /\ restarts' = restarts + 1
    /\ \E now \in Times : now > clock /\ clock' = now
    /\ lastTimestamp' = 0
    /\ sequence' = 0
    /\ waiting' = "no"
    /\ fresh' = <<>>
    /\ UNCHANGED <<setBacks, issued, repeated, slipped>>

\* The modelled stretch of time is over.
EndOfTime == clock = MaxClock /\ UNCHANGED vars

Next ==
    \/ Refuse \/ NewMillisecond \/ SameMillisecond
    \/ UseUp \/ LeaveLoop \/ ReadAgain
    \/ Tick \/ SetBack \/ Restart \/ EndOfTime

Spec == Init /\ [][Next]_vars

-----------------------------------------------------------------------------
(***************************************************************************)
(* Type invariant.                                                         *)
(***************************************************************************)
TypeOK ==
    /\ clock         \in Times
    /\ lastTimestamp \in 0..MaxClock
    /\ sequence      \in 0..(SequenceSize - 1)
    /\ waiting       \in Waits
    /\ setBacks      \in 0..MaxSetBacks
    /\ restarts      \in 0..MaxRestarts
    /\ issued        \subseteq IdRecord
    /\ fresh         \in Seq(issued)
    /\ repeated      \subseteq issued
    /\ slipped       \in BOOLEAN

(***************************************************************************)
(* The generator returns an id twice only if the clock was set back, and   *)
(* then only across a restart, or while a call that had used up its        *)
(* millisecond was between its loop and its last reading of the clock.     *)
(***************************************************************************)
IdsAreUnique ==
    repeated # {} => slipped \/ (setBacks > 0 /\ restarts > 0)

(***************************************************************************)
(* Within a process every id is greater, as a number, than all before it,  *)
(* however the clock is set, unless it was set back in that short moment.  *)
(***************************************************************************)
IdsIncrease ==
    ~slipped => \A i, j \in 1..Len(fresh) :
                    i < j => Encode(fresh[i]) < Encode(fresh[j])

=============================================================================
