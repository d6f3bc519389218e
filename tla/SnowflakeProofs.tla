-------------------------- MODULE SnowflakeProofs --------------------------
(***************************************************************************)
(* Proofs about Snowflake for any number of sequence numbers, worker ids,  *)
(* clock readings, restarts and changes of the clock.                      *)
(***************************************************************************)
EXTENDS Snowflake, TLAPS

-----------------------------------------------------------------------------
(* Arithmetic.                                                             *)

\* The id o comes before the id of timestamp t and sequence number n.
Below(o, t, n) == o.timestamp < t \/ (o.timestamp = t /\ o.sequence < n)

\* The numbers that ids stand for are ordered by timestamp, then sequence.
LEMMA EncodeIncreases ==
  ASSUME NEW a \in IdRecord, NEW b \in IdRecord, Below(a, b.timestamp, b.sequence)
  PROVE  Encode(a) < Encode(b)
<1> DEFINE s == a.timestamp
           t == b.timestamp
<1>1. /\ s \in Nat /\ t \in Nat
      /\ a.sequence \in Nat /\ b.sequence \in Nat /\ a.sequence < SequenceSize
  BY SizeAssumption DEF IdRecord, Times
<1>2. WorkerIds \in Nat /\ WorkerIds >= 1 /\ WorkerId \in Nat
      /\ SequenceSize \in Nat /\ SequenceSize >= 1
  BY SizeAssumption
<1>3. CASE s = t /\ a.sequence < b.sequence
  <2>1. (s * WorkerIds + WorkerId) * SequenceSize \in Nat
    BY <1>1, <1>2
  <2> QED
    BY <1>1, <1>3, <2>1 DEF Encode
<1>4. CASE s < t
  <2>1. \A m, n, k \in Nat : m < n /\ k >= 1 => m * k + k <= n * k
    <3> SUFFICES ASSUME NEW m \in Nat, NEW n \in Nat, NEW k \in Nat, m < n, k >= 1
                 PROVE  m * k + k <= n * k
      OBVIOUS
    <3>1. PICK d \in Nat : n = m + 1 + d
      <4> WITNESS n - m - 1 \in Nat
      <4> QED
        OBVIOUS
    <3>2. n * k = m * k + k + d * k
      BY <3>1
    <3>3. d * k \in Nat /\ m * k \in Nat
      OBVIOUS
    <3> QED
      BY <3>2, <3>3
  <2>2. s * WorkerIds \in Nat /\ t * WorkerIds \in Nat
    BY <1>1, <1>2
  <2>3. s * WorkerIds + WorkerIds <= t * WorkerIds
    BY <1>1, <1>2, <1>4, <2>1
  <2> DEFINE x == s * WorkerIds + WorkerId
             y == t * WorkerIds + WorkerId
  <2>4. x \in Nat /\ y \in Nat /\ x < y
    BY <1>2, <2>2, <2>3
  <2> HIDE DEF x, y
  <2>5. x * SequenceSize + SequenceSize <= y * SequenceSize
    BY <1>2, <2>1, <2>4
  <2>6. x * SequenceSize \in Nat /\ y * SequenceSize \in Nat
    BY <1>2, <2>4
  <2>7. x * SequenceSize + a.sequence < y * SequenceSize + b.sequence
    BY <1>1, <1>2, <2>5, <2>6
  <2> QED
    BY <2>7 DEF x, y, Encode
<1> QED
  BY <1>3, <1>4 DEF Below

\* The mask adds one or returns to zero.
LEMMA FollowingIsNext ==
  ASSUME NEW n \in 0..(SequenceSize - 1)
  PROVE  /\ Following(n) \in 0..(SequenceSize - 1)
         /\ Following(n) # 0 => Following(n) = n + 1
<1>1. SequenceSize \in Nat /\ SequenceSize >= 1
  BY SizeAssumption
<1>2. CASE n + 1 < SequenceSize
  <2>1. (n + 1) % SequenceSize = n + 1
    BY <1>1, <1>2
  <2> QED
    BY <1>1, <1>2, <2>1 DEF Following
<1>3. CASE n + 1 = SequenceSize
  <2>1. (n + 1) % SequenceSize = 0
    BY <1>1, <1>3
  <2> QED
    BY <1>1, <2>1 DEF Following
<1> QED
  BY <1>1, <1>2, <1>3

-----------------------------------------------------------------------------
(* The inductive invariant.                                                *)

IsFresh(o) == \E i \in 1..Len(fresh) : fresh[i] = o

\* A call waits only for a millisecond whose ids are used up.
WaitFits ==
    /\ waiting # "no" => sequence = 0 /\ lastTimestamp > 0
    /\ waiting = "over" /\ ~slipped => clock > lastTimestamp
    /\ slipped => setBacks > 0

\* The fresh ids are not beyond the timestamp and the sequence number.
FreshIsPast ==
    ~slipped => \A i \in 1..Len(fresh) :
        /\ fresh[i].timestamp <= lastTimestamp
        /\ waiting = "no" => Below(fresh[i], lastTimestamp, sequence + 1)

\* The fresh ids are ordered.
FreshIsOrdered ==
    ~slipped => \A i, j \in 1..Len(fresh) :
        i < j => Below(fresh[i], fresh[j].timestamp, fresh[j].sequence)

\* Without a restart all ids are fresh; with a steady clock the others are past.
OldIsPast ==
    /\ restarts = 0 => \A o \in issued : IsFresh(o)
    /\ setBacks = 0 =>
          /\ lastTimestamp <= clock
          /\ \A o \in issued :
                \/ IsFresh(o)
                \/ /\ o.timestamp < clock
                   /\ lastTimestamp # 0 => o.timestamp < lastTimestamp

IInv ==
    /\ TypeOK
    /\ WaitFits
    /\ FreshIsPast
    /\ FreshIsOrdered
    /\ OldIsPast
    /\ IdsAreUnique

\* The id of t and n comes after all fresh ids, and so far nobody has it.
IsNew(t, n) ==
    /\ ~slipped => \A i \in 1..Len(fresh) : Below(fresh[i], t, n)
    /\ setBacks = 0 => t = clock /\ (lastTimestamp = 0 \/ lastTimestamp <= t)

-----------------------------------------------------------------------------
LEMMA InitHolds == Init => IInv
<1> SUFFICES ASSUME Init PROVE IInv
  OBVIOUS
<1>1. SequenceSize - 1 \in Nat
  BY SizeAssumption
<1>2. TypeOK
  <2>1. fresh \in Seq(issued)
    BY DEF Init
  <2>2. 0 \in 0..MaxClock /\ 0 \in 0..MaxSetBacks /\ 0 \in 0..MaxRestarts
    BY SizeAssumption
  <2>3. slipped \in BOOLEAN
    BY DEF Init
  <2> QED
    BY <1>1, <2>1, <2>2, <2>3 DEF Init, TypeOK, Waits
<1>3. WaitFits /\ FreshIsPast /\ FreshIsOrdered /\ OldIsPast /\ IdsAreUnique
  BY SizeAssumption
     DEF Init, WaitFits, FreshIsPast, FreshIsOrdered, OldIsPast, IdsAreUnique, IsFresh, Times
<1> QED
  BY <1>2, <1>3 DEF IInv

\* Returning a new id of the current call keeps the invariant.
LEMMA ReturnStep ==
  ASSUME IInv, NEW t \in Times, NEW n \in 0..(SequenceSize - 1),
         Return(t, n), IsNew(t, n), waiting' = "no",
         UNCHANGED <<clock, setBacks, restarts, slipped>>
  PROVE  IInv'
<1> DEFINE id == [timestamp |-> t, sequence |-> n]
<1>0. t \in Nat /\ t > 0 /\ n \in Nat
  BY SizeAssumption DEF Times
<1>1. id \in IdRecord
  BY DEF IdRecord
<1>2. /\ lastTimestamp' = t /\ sequence' = n
      /\ issued' = issued \cup {id} /\ fresh' = Append(fresh, id)
      /\ repeated' = IF id \in issued THEN repeated \cup {id} ELSE repeated
  BY DEF Return
<1>3. id.timestamp = t /\ id.sequence = n
  OBVIOUS
<1> HIDE DEF id
<1>4. fresh \in Seq(issued) /\ issued \subseteq IdRecord /\ lastTimestamp \in Nat
  BY SizeAssumption DEF IInv, TypeOK
<1>5. /\ Len(fresh') = Len(fresh) + 1 /\ Len(fresh) \in Nat
      /\ fresh'[Len(fresh) + 1] = id
      /\ \A i \in 1..Len(fresh) : fresh'[i] = fresh[i] /\ fresh[i] \in IdRecord
  BY <1>2, <1>4
<1>6. TypeOK'
  <2>1. issued' \subseteq IdRecord /\ repeated' \subseteq issued'
    BY <1>1, <1>2 DEF IInv, TypeOK
  <2>2. fresh' \in Seq(issued')
    BY <1>2, <1>4
  <2> QED
    BY <1>2, <2>1, <2>2 DEF IInv, TypeOK, Waits, Times
<1>7. WaitFits'
  BY DEF IInv, WaitFits
<1>8. ~slipped => \A i \in 1..Len(fresh) : Below(fresh[i], t, n)
  BY DEF IsNew
<1>9. FreshIsPast'
  <2> SUFFICES ASSUME ~slipped, NEW i \in 1..Len(fresh')
               PROVE  /\ fresh'[i].timestamp <= t
                      /\ Below(fresh'[i], t, n + 1)
    BY <1>2 DEF FreshIsPast
  <2>1. CASE i = Len(fresh) + 1
    BY <1>0, <1>3, <1>5, <2>1 DEF Below
  <2>2. CASE i \in 1..Len(fresh)
    BY <1>0, <1>5, <1>8, <2>2 DEF Below, IdRecord, Times
  <2> QED
    BY <1>5, <2>1, <2>2
<1>10. FreshIsOrdered'
  <2> SUFFICES ASSUME ~slipped, NEW i \in 1..Len(fresh'), NEW j \in 1..Len(fresh'), i < j
               PROVE  Below(fresh'[i], fresh'[j].timestamp, fresh'[j].sequence)
    BY DEF FreshIsOrdered
  <2>1. i \in 1..Len(fresh)
    BY <1>5
  <2>2. CASE j = Len(fresh) + 1
    BY <1>3, <1>5, <1>8, <2>1, <2>2
  <2>3. CASE j \in 1..Len(fresh)
    BY <1>5, <2>1, <2>3 DEF IInv, FreshIsOrdered
  <2> QED
    BY <1>5, <2>2, <2>3
<1>11. \A o : IsFresh(o)' <=> IsFresh(o) \/ o = id
  BY <1>5 DEF IsFresh
<1>12. OldIsPast'
  <2>1. restarts = 0 => \A o \in issued' : IsFresh(o)'
    BY <1>2, <1>11 DEF IInv, OldIsPast
  <2>2. ASSUME setBacks = 0
        PROVE  /\ t <= clock
               /\ \A o \in issued' : IsFresh(o)' \/ (o.timestamp < clock /\ o.timestamp < t)
    <3>1. t = clock /\ (lastTimestamp = 0 \/ lastTimestamp <= t)
      BY <2>2 DEF IsNew
    <3>2. ASSUME NEW o \in issued, ~IsFresh(o)
          PROVE  o.timestamp < clock /\ o.timestamp < t
      BY <1>4, <2>2, <3>1, <3>2 DEF IInv, OldIsPast, IdRecord, Times
    <3> QED
      BY <1>0, <1>2, <1>11, <3>1, <3>2
  <2> QED
    BY <1>2, <2>1, <2>2 DEF OldIsPast
<1>13. IdsAreUnique'
  <2> SUFFICES ASSUME ~slipped, setBacks = 0 \/ restarts = 0
               PROVE  id \notin issued
    <3>1. setBacks \in Nat /\ restarts \in Nat
      BY SizeAssumption DEF IInv, TypeOK
    <3> QED
      BY <1>2, <3>1 DEF IInv, IdsAreUnique
  <2>1. ~IsFresh(id)
    BY <1>0, <1>3, <1>8 DEF IsFresh, Below
  <2>2. ASSUME setBacks = 0, id \in issued PROVE FALSE
    <3>1. t < clock
      BY <1>3, <2>1, <2>2 DEF IInv, OldIsPast
    <3>2. t = clock
      BY <2>2 DEF IsNew
    <3> QED
      BY <1>0, <3>1, <3>2
  <2> QED
    BY <2>1, <2>2 DEF IInv, OldIsPast
<1> QED
  BY <1>6, <1>7, <1>9, <1>10, <1>12, <1>13 DEF IInv

LEMMA NewMillisecondStep == IInv /\ NewMillisecond => IInv'
<1> SUFFICES ASSUME IInv, NewMillisecond PROVE IInv'
  OBVIOUS
<1>1. /\ waiting = "no" /\ clock > lastTimestamp /\ Return(clock, 0)
      /\ UNCHANGED <<clock, waiting, setBacks, restarts, slipped>>
  BY DEF NewMillisecond
<1>2. clock \in Times /\ lastTimestamp \in Nat /\ 0 \in 0..(SequenceSize - 1)
  BY SizeAssumption DEF IInv, TypeOK
<1>3. IsNew(clock, 0)
  <2>1. \A i \in 1..Len(fresh) : fresh[i] \in IdRecord
    BY DEF IInv, TypeOK
  <2> QED
    BY <1>1, <1>2, <2>1 DEF IInv, FreshIsPast, IsNew, Below, IdRecord, Times
<1> QED
  BY <1>1, <1>2, <1>3, ReturnStep

LEMMA SameMillisecondStep == IInv /\ SameMillisecond => IInv'
<1> SUFFICES ASSUME IInv, SameMillisecond PROVE IInv'
  OBVIOUS
<1> DEFINE n == Following(sequence)
<1>1. /\ waiting = "no" /\ clock = lastTimestamp /\ Return(clock, n) /\ n # 0
      /\ UNCHANGED <<clock, waiting, setBacks, restarts, slipped>>
  BY DEF SameMillisecond
<1>2. clock \in Times /\ clock \in Nat
  BY SizeAssumption DEF IInv, TypeOK, Times
<1>3. n \in 0..(SequenceSize - 1) /\ n = sequence + 1
  BY <1>1, FollowingIsNext DEF IInv, TypeOK
<1> HIDE DEF n
<1>4. IsNew(clock, n)
  BY <1>1, <1>2, <1>3 DEF IInv, FreshIsPast, IsNew
<1> QED
  BY <1>1, <1>2, <1>3, <1>4, ReturnStep

LEMMA ReadAgainStep == IInv /\ ReadAgain => IInv'
<1> SUFFICES ASSUME IInv, ReadAgain PROVE IInv'
  OBVIOUS
<1>1. /\ waiting = "over" /\ waiting' = "no" /\ Return(clock, sequence)
      /\ UNCHANGED <<clock, setBacks, restarts, slipped>>
  BY DEF ReadAgain
<1>2. clock \in Times /\ lastTimestamp \in Nat /\ sequence \in 0..(SequenceSize - 1)
  BY SizeAssumption DEF IInv, TypeOK
<1>3. IsNew(clock, sequence)
  <2>1. \A i \in 1..Len(fresh) : fresh[i] \in IdRecord
    BY DEF IInv, TypeOK
  <2>2. ~slipped => clock > lastTimestamp
    BY <1>1 DEF IInv, WaitFits
  <2>3. setBacks = 0 => lastTimestamp <= clock
    BY DEF IInv, OldIsPast
  <2> QED
    BY <1>2, <2>1, <2>2, <2>3 DEF IInv, FreshIsPast, IsNew, Below, IdRecord, Times
<1> QED
  BY <1>1, <1>2, <1>3, ReturnStep

\* Steps of a waiting call.
LEMMA WaitStep == IInv /\ (UseUp \/ LeaveLoop) => IInv'
<1> SUFFICES ASSUME IInv, UseUp \/ LeaveLoop PROVE IInv'
  OBVIOUS
<1>1. UNCHANGED <<clock, lastTimestamp, setBacks, restarts, issued, fresh, repeated, slipped>>
  BY DEF UseUp, LeaveLoop
<1>2. /\ waiting' \in {"spin", "over"} /\ sequence' = 0 /\ lastTimestamp > 0
      /\ waiting' = "over" => clock > lastTimestamp
  BY SizeAssumption DEF UseUp, LeaveLoop, IInv, TypeOK, WaitFits, Times
<1>3. TypeOK'
  BY <1>1, <1>2, SizeAssumption DEF IInv, TypeOK, Waits
<1>4. WaitFits' /\ FreshIsPast' /\ FreshIsOrdered' /\ OldIsPast' /\ IdsAreUnique'
  BY <1>1, <1>2
     DEF IInv, WaitFits, FreshIsPast, FreshIsOrdered, OldIsPast, IdsAreUnique, IsFresh
<1> QED
  BY <1>3, <1>4 DEF IInv

\* Steps of the clock.
LEMMA ClockStep == IInv /\ (Tick \/ SetBack) => IInv'
<1> SUFFICES ASSUME IInv, Tick \/ SetBack PROVE IInv'
  OBVIOUS
<1>1. UNCHANGED <<lastTimestamp, sequence, waiting, restarts, issued, fresh, repeated>>
  BY DEF Tick, SetBack
<1>2. /\ clock \in Times /\ clock' \in Times /\ setBacks \in Nat /\ lastTimestamp \in Nat
      /\ issued \subseteq IdRecord
  BY SizeAssumption DEF Tick, SetBack, IInv, TypeOK
<1>3. \/ clock' > clock /\ setBacks' = setBacks /\ slipped' = slipped
      \/ /\ setBacks' = setBacks + 1 /\ setBacks < MaxSetBacks
         /\ slipped' = (slipped \/ waiting = "over")
  BY DEF Tick, SetBack
<1>4. TypeOK'
  <2>1. slipped' \in BOOLEAN
    BY <1>3 DEF IInv, TypeOK
  <2>2. setBacks' \in 0..MaxSetBacks
    BY <1>2, <1>3, SizeAssumption DEF IInv, TypeOK
  <2> QED
    BY <1>1, <1>2, <2>1, <2>2 DEF IInv, TypeOK
<1>5. WaitFits'
  <2>1. CASE clock' > clock /\ setBacks' = setBacks /\ slipped' = slipped
    BY <1>1, <1>2, <2>1 DEF IInv, WaitFits, Times
  <2>2. CASE setBacks' = setBacks + 1 /\ slipped' = (slipped \/ waiting = "over")
    <3>1. setBacks' > 0
      BY <1>2, <2>2
    <3>2. waiting' = "over" => slipped'
      BY <1>1, <2>2
    <3> QED
      BY <1>1, <3>1, <3>2 DEF IInv, WaitFits
  <2> QED
    BY <1>3, <2>1, <2>2
<1>6. FreshIsPast' /\ FreshIsOrdered'
  BY <1>1, <1>3 DEF IInv, FreshIsPast, FreshIsOrdered, TypeOK
<1>7. OldIsPast'
  <2>1. \A o : IsFresh(o)' <=> IsFresh(o)
    BY <1>1 DEF IsFresh
  <2>2. CASE setBacks' = setBacks + 1
    BY <1>1, <1>2, <2>1, <2>2 DEF IInv, OldIsPast
  <2>3. CASE clock' > clock /\ setBacks' = setBacks
    BY <1>1, <1>2, <2>1, <2>3 DEF IInv, OldIsPast, IdRecord, Times
  <2> QED
    BY <1>3, <2>2, <2>3
<1>8. IdsAreUnique'
  BY <1>1, <1>2, <1>3 DEF IInv, IdsAreUnique, TypeOK
<1> QED
  BY <1>4, <1>5, <1>6, <1>7, <1>8 DEF IInv

LEMMA RestartStep == IInv /\ Restart => IInv'
<1> SUFFICES ASSUME IInv, Restart PROVE IInv'
  OBVIOUS
<1>1. /\ restarts' = restarts + 1 /\ restarts < MaxRestarts
      /\ clock' \in Times /\ clock' > clock
      /\ lastTimestamp' = 0 /\ sequence' = 0 /\ waiting' = "no" /\ fresh' = <<>>
      /\ UNCHANGED <<setBacks, issued, repeated, slipped>>
  BY DEF Restart
<1>2. /\ clock \in Times /\ lastTimestamp \in Nat /\ restarts \in Nat /\ setBacks \in Nat
      /\ issued \subseteq IdRecord /\ fresh \in Seq(issued)
  BY SizeAssumption DEF IInv, TypeOK
<1>3. TypeOK'
  BY <1>1, <1>2, SizeAssumption DEF IInv, TypeOK, Waits
<1>4. WaitFits' /\ FreshIsPast' /\ FreshIsOrdered'
  BY <1>1 DEF IInv, WaitFits, FreshIsPast, FreshIsOrdered
<1>5. OldIsPast'
  <2>1. ASSUME setBacks = 0, NEW o \in issued PROVE o.timestamp < clock'
    <3>1. lastTimestamp <= clock /\ ~slipped
      BY <2>1 DEF IInv, OldIsPast, WaitFits
    <3>2. CASE IsFresh(o)
      BY <1>1, <1>2, <3>1, <3>2 DEF IInv, FreshIsPast, IsFresh, IdRecord, Times
    <3>3. CASE ~IsFresh(o)
      BY <1>1, <1>2, <2>1, <3>3 DEF IInv, OldIsPast, IdRecord, Times
    <3> QED
      BY <3>2, <3>3
  <2>2. clock' \in Nat
    BY <1>1 DEF Times
  <2> QED
    BY <1>1, <1>2, <2>1, <2>2 DEF OldIsPast
<1>6. IdsAreUnique'
  BY <1>1, <1>2 DEF IInv, IdsAreUnique
<1> QED
  BY <1>3, <1>4, <1>5, <1>6 DEF IInv

LEMMA IInvStep == IInv /\ [Next]_vars => IInv'
<1> SUFFICES ASSUME IInv, [Next]_vars PROVE IInv'
  OBVIOUS
<1>1. CASE UNCHANGED vars
  BY <1>1 DEF vars, IInv, TypeOK, WaitFits, FreshIsPast, FreshIsOrdered, OldIsPast,
              IdsAreUnique, IsFresh
<1> QED
  BY <1>1, NewMillisecondStep, SameMillisecondStep, ReadAgainStep, WaitStep, ClockStep,
     RestartStep
     DEF Next, Refuse, EndOfTime

LEMMA IInvAlways == Spec => []IInv
  BY InitHolds, IInvStep, PTL DEF Spec

(***************************************************************************)
(* Every reachable state of the generator is type correct.                 *)
(***************************************************************************)
THEOREM TypeCorrect == Spec => []TypeOK
<1>1. IInv => TypeOK
  BY DEF IInv
<1> QED
  BY <1>1, IInvAlways, PTL

(***************************************************************************)
(* No id is returned twice while the clock only moves on.                  *)
(***************************************************************************)
THEOREM NoIdTwice == Spec => []IdsAreUnique
<1>1. IInv => IdsAreUnique
  BY DEF IInv
<1> QED
  BY <1>1, IInvAlways, PTL

(***************************************************************************)
(* The numbers a process returns increase, whatever the size of their      *)
(* fields and whatever the clock does, but for a clock that is set back    *)
(* between the loop and the reading of the clock after it.                 *)
(***************************************************************************)
THEOREM NumbersIncrease == Spec => []IdsIncrease
<1>1. IInv => IdsIncrease
  <2> SUFFICES ASSUME IInv, ~slipped,
                      NEW i \in 1..Len(fresh), NEW j \in 1..Len(fresh), i < j
               PROVE  Encode(fresh[i]) < Encode(fresh[j])
    BY DEF IdsIncrease
  <2>1. fresh[i] \in IdRecord /\ fresh[j] \in IdRecord
    BY DEF IInv, TypeOK
  <2>2. Below(fresh[i], fresh[j].timestamp, fresh[j].sequence)
    BY DEF IInv, FreshIsOrdered
  <2> QED
    BY <2>1, <2>2, EncodeIncreases
<1> QED
  BY <1>1, IInvAlways, PTL

=============================================================================
