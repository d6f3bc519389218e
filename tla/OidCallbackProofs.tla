------------------------- MODULE OidCallbackProofs -------------------------
(***************************************************************************)
(* Proofs about OidCallback for any number of calls, ids, printers and     *)
(* answers: its type invariant, that no callback is claimed twice unless a *)
(* record was touched inside a read-write window, that the record in Redis *)
(* is that of the last call, where answers go and why they are dropped,    *)
(* and that all this looks as if each decision were one step.              *)
(***************************************************************************)
EXTENDS OidCallback, TLAPS

-----------------------------------------------------------------------------
(* The inductive invariant.                                                *)

\* A call has a query from the moment its record is stored.
AskedWhenSaved == \A r \in Requests : call[r] = "new" <=> query[r] = None

\* A run of handleOid that has read something was given an answer.
AnsweredWhenRead == \A h \in Handlers : held[h] # None => answer[h] # None

\* A record c found under id was stored by a call that used id in c's mode.
StoredFor(c, id) ==
    /\ query[c.callback] # None
    /\ query[c.callback].id = id
    /\ query[c.callback].mode = c.mode

Grounded ==
    /\ \A id \in Ids : cache[id] # None => StoredFor(cache[id], id)
    /\ \A h \in Handlers : held[h] # None => StoredFor(held[h], answer[h].id)

\* Without a race the record in Redis is still the one a window relies on...
WindowIsFresh ==
    \A h \in Handlers :
        InWindow(h) /\ answer[h].id \notin raced => cache[answer[h].id] = held[h]

\* ... and at most one window is open on it.
WindowIsAlone ==
    \A g, h \in Handlers :
        /\ InWindow(g) /\ InWindow(h)
        /\ answer[g].id = answer[h].id
        /\ answer[h].id \notin raced
        => g = h

\* A record that is still there remembers every printer that claimed its call.
ClaimsAreMarked ==
    \A g \in Handlers :
        LET c == cache[answer[g].id] IN
        /\ Claimed(g)
        /\ answer[g].id \notin raced
        /\ c # None
        /\ c.callback = held[g].callback
        => c.mode = "broadcast" /\ answer[g].mac \in c.calledMacs

\* A run holds nothing before it starts; one that claimed a callback holds the
\* record it read.
HeldFitsStage ==
    \A h \in Handlers :
        /\ stage[h] = "new" => held[h] = None
        /\ Claimed(h) => held[h] # None

\* The parts that say what values can be read from the state at all.
Shape ==
    /\ TypeOK
    /\ AskedWhenSaved
    /\ AnsweredWhenRead
    /\ HeldFitsStage

IInv ==
    /\ Shape
    /\ Grounded
    /\ WindowIsFresh
    /\ WindowIsAlone
    /\ ClaimsAreMarked
    /\ OncePerPrinter
    /\ RecordIsLatest

-----------------------------------------------------------------------------
(***************************************************************************)
(* Type correctness.                                                       *)
(***************************************************************************)
LEMMA TypeInit == Init => TypeOK
  BY CrashAssumption DEF Init, TypeOK, CallStates, Stages

\* A run inside its window was given an answer and read a record.
LEMMA WindowShape ==
  ASSUME Shape, NEW h \in Handlers, InWindow(h)
  PROVE  /\ held[h] \in Record /\ held[h] # None
         /\ answer[h] \in Answer
         /\ answer[h].id \in Ids /\ answer[h].mac \in Macs
<1>1. held[h] # None /\ answer[h] # None
  BY DEF InWindow, Accepts, Shape, AnsweredWhenRead
<1>2. held[h] \in Record /\ answer[h] \in Answer
  BY <1>1 DEF Shape, TypeOK
<1> QED
  BY <1>1, <1>2 DEF Answer

LEMMA TypeStep == Shape /\ [Next]_vars => TypeOK'
<1> SUFFICES ASSUME Shape, [Next]_vars PROVE TypeOK'
  OBVIOUS
<1> USE DEF Shape, TypeOK, CallStates, Stages, callVars, handlerVars
<1>1. ASSUME NEW r \in Requests, NEW q \in Query, SaveRecord(r, q) PROVE TypeOK'
  <2>1. [callback |-> r, mode |-> q.mode, calledMacs |-> {}] \in Record
    BY DEF Query, Record
  <2>2. q.id \in Ids
    BY DEF Query
  <2> QED
    BY <1>1, <2>1, <2>2 DEF SaveRecord, Races
<1>2. ASSUME NEW r \in Requests, PublishQuery(r) PROVE TypeOK'
  BY <1>2 DEF PublishQuery
<1>3. ASSUME NEW h \in Handlers, NEW r \in Requests, NEW m \in Macs, ReadRecord(h, r, m)
      PROVE TypeOK'
  <2>1. query[r].id \in Ids
    BY <1>3 DEF ReadRecord, AskedWhenSaved, Query
  <2>2. [id |-> query[r].id, mac |-> m] \in Answer
    BY <2>1 DEF Answer
  <2>3. cache[query[r].id] \in Record \cup {None}
    BY <2>1
  <2> QED
    BY <1>3, <2>1, <2>2, <2>3 DEF ReadRecord, Races
<1>4. ASSUME NEW h \in Handlers, NEW r \in Requests, NEW m \in Macs, IgnoreAnswer(h, r, m)
      PROVE TypeOK'
  <2>1. query[r].id \in Ids
    BY <1>4 DEF IgnoreAnswer, AskedWhenSaved, Query
  <2>2. [id |-> EmptyId, mac |-> m] \in Answer
    BY <1>4, <2>1 DEF IgnoreAnswer, Answer
  <2> QED
    BY <1>4, <2>2 DEF IgnoreAnswer
<1>5. ASSUME NEW h \in Handlers, DropUnknown(h) PROVE TypeOK'
  BY <1>5 DEF DropUnknown
<1>6. ASSUME NEW h \in Handlers, DropRepeat(h) PROVE TypeOK'
  BY <1>6 DEF DropRepeat
<1>7. ASSUME NEW h \in Handlers, MarkCalled(h) PROVE TypeOK'
  <2>1. held[h] \in Record /\ answer[h] \in Answer
    BY <1>7, WindowShape DEF MarkCalled
  <2> DEFINE c == [held[h] EXCEPT !.calledMacs = @ \cup {answer[h].mac}]
  <2>2. c \in Record
    BY <2>1 DEF Answer, Record
  <2>3. cache' = [cache EXCEPT ![answer[h].id] = c]
    BY <1>7 DEF MarkCalled
  <2> HIDE DEF c
  <2> QED
    BY <1>7, <2>2, <2>3 DEF MarkCalled
<1>8. ASSUME NEW h \in Handlers, TakeRecord(h) PROVE TypeOK'
  <2>1. answer[h].id \in Ids
    BY <1>8, WindowShape DEF TakeRecord
  <2> QED
    BY <1>8, <2>1 DEF TakeRecord
<1>9. ASSUME NEW h \in Handlers, Post(h) PROVE TypeOK'
  BY <1>9 DEF Post
<1>10. ASSUME NEW id \in Ids, Expire(id) PROVE TypeOK'
  BY <1>10 DEF Expire, Races
<1>11. CASE Crash
  BY <1>11, CrashAssumption DEF Crash
<1>12. CASE UNCHANGED vars
  BY <1>12 DEF vars
<1> QED
  BY <1>1, <1>2, <1>3, <1>4, <1>5, <1>6, <1>7, <1>8, <1>9, <1>10, <1>11, <1>12
     DEF Next, Resume, Quiet

-----------------------------------------------------------------------------
(***************************************************************************)
(* The rest of the shape of a state.                                       *)
(***************************************************************************)
LEMMA ShapeInit == Init => Shape
  BY TypeInit DEF Init, Shape, AskedWhenSaved, AnsweredWhenRead, HeldFitsStage, Claimed

LEMMA ShapeStep == Shape /\ [Next]_vars => Shape'
<1> SUFFICES ASSUME Shape, [Next]_vars PROVE Shape'
  OBVIOUS
<1>1. TypeOK'
  BY TypeStep
<1>2. AskedWhenSaved'
  <2> USE DEF Shape, TypeOK, AskedWhenSaved, callVars, handlerVars
  <2>1. ASSUME NEW r \in Requests, NEW q \in Query, SaveRecord(r, q) PROVE AskedWhenSaved'
    BY <2>1, NoneAssumption DEF SaveRecord
  <2>2. ASSUME NEW r \in Requests, PublishQuery(r) PROVE AskedWhenSaved'
    BY <2>2 DEF PublishQuery
  <2>3. CASE Crash
    BY <2>3 DEF Crash
  <2>4. ASSUME UNCHANGED <<call, query>> PROVE AskedWhenSaved'
    BY <2>4
  <2> QED
    BY <2>1, <2>2, <2>3, <2>4
       DEF Next, Resume, Quiet, vars, ReadRecord, IgnoreAnswer, DropUnknown, DropRepeat,
           MarkCalled, TakeRecord, Post, Expire
<1>3. AnsweredWhenRead'
  <2> USE DEF Shape, TypeOK, AnsweredWhenRead, callVars, handlerVars
  <2>1. ASSUME NEW h \in Handlers, NEW r \in Requests, NEW m \in Macs, ReadRecord(h, r, m)
        PROVE AnsweredWhenRead'
    <3>1. answer'[h] # None
      BY <2>1, <1>1, NoneAssumption DEF ReadRecord, Answer, AskedWhenSaved, Query
    <3> QED
      BY <2>1, <3>1 DEF ReadRecord
  <2>2. ASSUME NEW h \in Handlers, NEW r \in Requests, NEW m \in Macs, IgnoreAnswer(h, r, m)
        PROVE AnsweredWhenRead'
    <3>1. answer'[h] # None
      BY <2>2, <1>1, NoneAssumption DEF IgnoreAnswer, Answer, AskedWhenSaved, Query
    <3> QED
      BY <2>2, <3>1 DEF IgnoreAnswer
  <2>3. ASSUME UNCHANGED <<answer, held>> PROVE AnsweredWhenRead'
    BY <2>3
  <2> QED
    BY <2>1, <2>2, <2>3
       DEF Next, Resume, Quiet, vars, SaveRecord, PublishQuery, DropUnknown, DropRepeat,
           MarkCalled, TakeRecord, Post, Expire, Crash
<1>4. HeldFitsStage'
  <2> USE DEF Shape, TypeOK, Stages, HeldFitsStage, Claimed, callVars, handlerVars
  <2>1. ASSUME NEW h \in Handlers, NEW r \in Requests, NEW m \in Macs, ReadRecord(h, r, m)
        PROVE HeldFitsStage'
    BY <2>1 DEF ReadRecord
  <2>2. ASSUME NEW h \in Handlers, NEW r \in Requests, NEW m \in Macs, IgnoreAnswer(h, r, m)
        PROVE HeldFitsStage'
    BY <2>2 DEF IgnoreAnswer
  <2>3. ASSUME NEW h \in Handlers, Resume(h) PROVE HeldFitsStage'
    BY <2>3
       DEF Resume, DropUnknown, DropRepeat, MarkCalled, TakeRecord, Post, InWindow, Accepts
  <2>4. CASE Crash
    BY <2>4 DEF Crash
  <2>5. ASSUME UNCHANGED <<stage, held>> PROVE HeldFitsStage'
    BY <2>5
  <2> QED
    BY <2>1, <2>2, <2>3, <2>4, <2>5
       DEF Next, Quiet, vars, SaveRecord, PublishQuery, Expire
<1> QED
  BY <1>1, <1>2, <1>3, <1>4 DEF Shape

(***************************************************************************)
(* Every reachable state of the OID query service is type correct.         *)
(***************************************************************************)
THEOREM TypeCorrect == Spec => []TypeOK
<1>1. Shape => TypeOK
  BY DEF Shape
<1> QED
  BY <1>1, ShapeInit, ShapeStep, PTL DEF Spec

-----------------------------------------------------------------------------
(***************************************************************************)
(* Records keep the call and the id they were stored for.                  *)
(***************************************************************************)
LEMMA GroundedStep == Shape /\ Grounded /\ [Next]_vars => Grounded'
<1> SUFFICES ASSUME Shape, Grounded, [Next]_vars PROVE Grounded'
  OBVIOUS
<1> USE DEF Shape, TypeOK, Grounded, StoredFor, callVars, handlerVars
<1>1. ASSUME NEW r \in Requests, NEW q \in Query, SaveRecord(r, q) PROVE Grounded'
  <2>1. query[r] = None /\ q # None
    BY <1>1, NoneAssumption DEF SaveRecord, AskedWhenSaved
  <2>2. ASSUME NEW c \in Record, NEW id, StoredFor(c, id) PROVE StoredFor(c, id)'
    BY <1>1, <2>1, <2>2 DEF SaveRecord, Record
  <2>3. ASSUME NEW id \in Ids, cache'[id] # None PROVE StoredFor(cache[id], id)'
    <3>1. CASE id = q.id
      BY <1>1, <2>1, <3>1 DEF SaveRecord, Query
    <3>2. CASE id # q.id
      <4>1. cache'[id] = cache[id] /\ cache[id] \in Record
        BY <1>1, <2>3, <3>2 DEF SaveRecord
      <4> QED
        BY <2>2, <2>3, <4>1
    <3> QED
      BY <3>1, <3>2
  <2>4. ASSUME NEW h \in Handlers, held'[h] # None PROVE StoredFor(held[h], answer[h].id)'
    <3>1. held'[h] = held[h] /\ answer'[h] = answer[h] /\ held[h] \in Record
      BY <1>1, <2>4 DEF SaveRecord
    <3> QED
      BY <2>2, <2>4, <3>1
  <2> QED
    BY <2>3, <2>4
<1>2. ASSUME NEW h \in Handlers, NEW r \in Requests, NEW m \in Macs, ReadRecord(h, r, m)
      PROVE Grounded'
  <2>1. query[r].id \in Ids
    BY <1>2 DEF ReadRecord, AskedWhenSaved, Query
  <2> QED
    BY <1>2, <2>1 DEF ReadRecord
<1>3. ASSUME NEW h \in Handlers, NEW r \in Requests, NEW m \in Macs, IgnoreAnswer(h, r, m)
      PROVE Grounded'
  BY <1>3 DEF IgnoreAnswer, HeldFitsStage
<1>4. ASSUME NEW h \in Handlers, MarkCalled(h) PROVE Grounded'
  <2> DEFINE c == [held[h] EXCEPT !.calledMacs = @ \cup {answer[h].mac}]
  <2>1. cache' = [cache EXCEPT ![answer[h].id] = c]
    BY <1>4 DEF MarkCalled
  <2>2. held[h] \in Record /\ held[h] # None /\ answer[h].id \in Ids
    BY <1>4, WindowShape DEF MarkCalled
  <2>3. c.callback = held[h].callback /\ c.mode = held[h].mode
    BY <2>2 DEF Record
  <2> HIDE DEF c
  <2> QED
    BY <1>4, <2>1, <2>2, <2>3 DEF MarkCalled
<1>5. ASSUME NEW h \in Handlers, TakeRecord(h) PROVE Grounded'
  BY <1>5 DEF TakeRecord
<1>6. ASSUME NEW id \in Ids, Expire(id) PROVE Grounded'
  BY <1>6 DEF Expire
<1>7. ASSUME UNCHANGED <<cache, query, answer, held>> PROVE Grounded'
  BY <1>7
<1> QED
  BY <1>1, <1>2, <1>3, <1>4, <1>5, <1>6, <1>7
     DEF Next, Resume, Quiet, vars, PublishQuery, DropUnknown, DropRepeat, Post, Crash

-----------------------------------------------------------------------------
(***************************************************************************)
(* Without a race a window is the only one on its record and relies on the *)
(* record that is still in Redis.                                          *)
(***************************************************************************)
LEMMA WindowStep ==
    IInv /\ [Next]_vars => WindowIsFresh' /\ WindowIsAlone'
<1> SUFFICES ASSUME IInv, [Next]_vars PROVE WindowIsFresh' /\ WindowIsAlone'
  OBVIOUS
<1> USE DEF IInv, Shape, TypeOK, WindowIsFresh, WindowIsAlone, callVars, handlerVars
<1>1. ASSUME NEW r \in Requests, NEW q \in Query, SaveRecord(r, q)
      PROVE WindowIsFresh' /\ WindowIsAlone'
  <2>1. \A h \in Handlers : InWindow(h)' <=> InWindow(h)
    BY <1>1 DEF SaveRecord, InWindow, Accepts
  <2>2. \A h \in Handlers : InWindow(h) /\ answer[h].id \notin raced' => answer[h].id # q.id
    BY <1>1 DEF SaveRecord, Races
  <2> QED
    BY <1>1, <2>1, <2>2, WindowShape DEF SaveRecord
<1>2. ASSUME NEW h \in Handlers, NEW r \in Requests, NEW m \in Macs, ReadRecord(h, r, m)
      PROVE WindowIsFresh' /\ WindowIsAlone'
  <2> DEFINE id == query[r].id
  <2>1. \A g \in Handlers \ {h} : InWindow(g)' <=> InWindow(g)
    BY <1>2 DEF ReadRecord, InWindow, Accepts
  <2>2. \A g \in Handlers : InWindow(g) /\ answer[g].id = id => id \in raced'
    BY <1>2 DEF ReadRecord, Races
  <2>3. answer'[h].id = id /\ held'[h] = cache[id]
    BY <1>2 DEF ReadRecord
  <2>4. raced \subseteq raced' /\ cache' = cache
    BY <1>2 DEF ReadRecord
  <2>5. \A g \in Handlers \ {h} : answer'[g] = answer[g] /\ held'[g] = held[g]
    BY <1>2 DEF ReadRecord
  <2> HIDE DEF id
  <2> QED
    BY <2>1, <2>2, <2>3, <2>4, <2>5
<1>3. ASSUME NEW h \in Handlers, NEW r \in Requests, NEW m \in Macs, IgnoreAnswer(h, r, m)
      PROVE WindowIsFresh' /\ WindowIsAlone'
  <2>1. ~InWindow(h)'
    BY <1>3 DEF IgnoreAnswer, InWindow
  <2>2. \A g \in Handlers \ {h} : InWindow(g)' <=> InWindow(g)
    BY <1>3 DEF IgnoreAnswer, InWindow, Accepts
  <2> QED
    BY <1>3, <2>1, <2>2 DEF IgnoreAnswer
<1>4. ASSUME NEW h \in Handlers, Resume(h) PROVE WindowIsFresh' /\ WindowIsAlone'
  <2>1. ~InWindow(h)'
    BY <1>4 DEF Resume, DropUnknown, DropRepeat, MarkCalled, TakeRecord, Post, InWindow
  <2>2. \A g \in Handlers \ {h} : InWindow(g)' <=> InWindow(g)
    BY <1>4
       DEF Resume, DropUnknown, DropRepeat, MarkCalled, TakeRecord, Post, InWindow, Accepts
  <2>3. UNCHANGED <<answer, held, raced>>
    BY <1>4 DEF Resume, DropUnknown, DropRepeat, MarkCalled, TakeRecord, Post
  <2>4. \A id \in Ids : cache'[id] # cache[id] => InWindow(h) /\ id = answer[h].id
    BY <1>4 DEF Resume, DropUnknown, DropRepeat, MarkCalled, TakeRecord, Post
  <2> QED
    BY <2>1, <2>2, <2>3, <2>4, WindowShape
<1>5. ASSUME NEW id \in Ids, Expire(id) PROVE WindowIsFresh' /\ WindowIsAlone'
  <2>1. \A h \in Handlers : InWindow(h)' <=> InWindow(h)
    BY <1>5 DEF Expire, InWindow, Accepts
  <2>2. \A h \in Handlers : InWindow(h) /\ answer[h].id \notin raced' => answer[h].id # id
    BY <1>5 DEF Expire, Races
  <2> QED
    BY <1>5, <2>1, <2>2, WindowShape DEF Expire
<1>6. CASE Crash
  <2>1. \A h \in Handlers : ~InWindow(h)'
    BY <1>6 DEF Crash, InWindow
  <2> QED
    BY <2>1
<1>7. ASSUME UNCHANGED <<cache, stage, answer, held, raced>>
      PROVE WindowIsFresh' /\ WindowIsAlone'
  BY <1>7 DEF InWindow, Accepts
<1> QED
  BY <1>1, <1>2, <1>3, <1>4, <1>5, <1>6, <1>7 DEF Next, Quiet, vars, PublishQuery

-----------------------------------------------------------------------------
(***************************************************************************)
(* Without a race a claim is remembered by the record as long as it lives. *)
(***************************************************************************)
LEMMA ClaimsStep == IInv /\ [Next]_vars => ClaimsAreMarked'
<1> SUFFICES ASSUME IInv, [Next]_vars PROVE ClaimsAreMarked'
  OBVIOUS
<1> USE DEF IInv, Shape, TypeOK, ClaimsAreMarked, Claimed, callVars, handlerVars
<1>1. ASSUME NEW r \in Requests, NEW q \in Query, SaveRecord(r, q) PROVE ClaimsAreMarked'
  <2>1. \A g \in Handlers : Claimed(g) => held[g].callback # r
    BY <1>1 DEF SaveRecord, HeldFitsStage, Grounded, StoredFor, AskedWhenSaved
  <2>2. cache' = [cache EXCEPT ![q.id] = [callback |-> r, mode |-> q.mode, calledMacs |-> {}]]
    BY <1>1 DEF SaveRecord
  <2>3. \A id : id # q.id => cache'[id] = cache[id]
    BY <2>2
  <2>4. cache'[q.id].callback = r
    BY <2>2 DEF Query
  <2> QED
    BY <1>1, <2>1, <2>3, <2>4 DEF SaveRecord
<1>2. ASSUME NEW h \in Handlers, NEW r \in Requests, NEW m \in Macs, ReadRecord(h, r, m)
      PROVE ClaimsAreMarked'
  BY <1>2 DEF ReadRecord
<1>3. ASSUME NEW h \in Handlers, NEW r \in Requests, NEW m \in Macs, IgnoreAnswer(h, r, m)
      PROVE ClaimsAreMarked'
  BY <1>3 DEF IgnoreAnswer
<1>4. ASSUME NEW h \in Handlers, DropUnknown(h) \/ DropRepeat(h) \/ Post(h)
      PROVE ClaimsAreMarked'
  BY <1>4 DEF DropUnknown, DropRepeat, Post
<1>5. ASSUME NEW h \in Handlers, MarkCalled(h) PROVE ClaimsAreMarked'
  <2> DEFINE id == answer[h].id
             c  == [held[h] EXCEPT !.calledMacs = @ \cup {answer[h].mac}]
  <2>1. cache' = [cache EXCEPT ![id] = c] /\ InWindow(h) /\ held[h].mode = "broadcast"
    BY <1>5 DEF MarkCalled
  <2>2. held[h] \in Record /\ held[h] # None /\ id \in Ids
    BY <2>1, WindowShape
  <2>3. /\ c.callback = held[h].callback
        /\ c.mode = "broadcast"
        /\ c.calledMacs = held[h].calledMacs \cup {answer[h].mac}
    BY <2>1, <2>2 DEF Record
  <2>4. id \notin raced => cache[id] = held[h]
    BY <2>1 DEF WindowIsFresh
  <2>5. UNCHANGED <<answer, held, raced>> /\ stage' = [stage EXCEPT ![h] = "marked"]
    BY <1>5 DEF MarkCalled
  <2> HIDE DEF id, c
  <2>6. ASSUME NEW g \in Handlers, Claimed(g)', answer[g].id \notin raced,
               cache'[answer[g].id] # None,
               cache'[answer[g].id].callback = held[g].callback
        PROVE  /\ cache'[answer[g].id].mode = "broadcast"
               /\ answer[g].mac \in cache'[answer[g].id].calledMacs
    <3>1. CASE g = h
      BY <2>1, <2>2, <2>3, <3>1 DEF id
    <3>2. CASE g # h /\ answer[g].id = id
      BY <2>1, <2>2, <2>3, <2>4, <2>5, <2>6, <3>2
    <3>3. CASE g # h /\ answer[g].id # id
      BY <2>1, <2>5, <2>6, <3>3
    <3> QED
      BY <3>1, <3>2, <3>3
  <2> QED
    BY <2>5, <2>6
<1>6. ASSUME NEW h \in Handlers, TakeRecord(h) PROVE ClaimsAreMarked'
  BY <1>6, WindowShape DEF TakeRecord
<1>7. ASSUME NEW id \in Ids, Expire(id) PROVE ClaimsAreMarked'
  BY <1>7 DEF Expire
<1>8. CASE Crash
  BY <1>8 DEF Crash, Stages
<1>9. ASSUME UNCHANGED <<cache, stage, answer, held, raced>> PROVE ClaimsAreMarked'
  BY <1>9
<1> QED
  BY <1>1, <1>2, <1>3, <1>4, <1>5, <1>6, <1>7, <1>8, <1>9
     DEF Next, Resume, Quiet, vars, PublishQuery

-----------------------------------------------------------------------------
(***************************************************************************)
(* A run that leaves its window without a race has no rival: every earlier *)
(* claim on its call is a broadcast claim of another printer.              *)
(***************************************************************************)
LEMMA NoRival ==
  ASSUME IInv, NEW h \in Handlers, InWindow(h), answer[h].id \notin raced,
         NEW g \in Handlers, Claimed(g), held[g].callback = held[h].callback
  PROVE  /\ answer[g].id = answer[h].id
         /\ held[g].mode = "broadcast" /\ held[h].mode = "broadcast"
         /\ answer[g].mac # answer[h].mac
<1> DEFINE r == held[h].callback
<1>1. held[h] # None /\ held[g] # None
  BY WindowShape DEF IInv, Shape, HeldFitsStage
<1>2. StoredFor(held[h], answer[h].id) /\ StoredFor(held[g], answer[g].id)
  BY <1>1 DEF IInv, Grounded
<1>3. answer[g].id = query[r].id /\ answer[h].id = query[r].id /\ held[g].mode = held[h].mode
  BY <1>2 DEF StoredFor
<1>4. cache[answer[h].id] = held[h]
  BY DEF IInv, WindowIsFresh
<1>5. held[h].mode = "broadcast" /\ answer[g].mac \in held[h].calledMacs
  BY <1>1, <1>3, <1>4 DEF IInv, ClaimsAreMarked
<1>6. answer[h].mac \notin held[h].calledMacs
  BY <1>5 DEF InWindow, Accepts
<1> QED
  BY <1>3, <1>5, <1>6

LEMMA OnceStep == IInv /\ [Next]_vars => OncePerPrinter'
<1> SUFFICES ASSUME IInv, [Next]_vars PROVE OncePerPrinter'
  OBVIOUS
<1> USE DEF IInv, Shape, TypeOK, OncePerPrinter, ClaimedTwice, Claimed, callVars, handlerVars
<1>1. ASSUME NEW h \in Handlers, NEW r \in Requests, NEW m \in Macs, ReadRecord(h, r, m)
      PROVE OncePerPrinter'
  BY <1>1 DEF ReadRecord
<1>2. ASSUME NEW h \in Handlers, NEW r \in Requests, NEW m \in Macs, IgnoreAnswer(h, r, m)
      PROVE OncePerPrinter'
  BY <1>2 DEF IgnoreAnswer
<1>3. ASSUME NEW h \in Handlers, DropUnknown(h) \/ DropRepeat(h) \/ Post(h)
      PROVE OncePerPrinter'
  BY <1>3 DEF DropUnknown, DropRepeat, Post
<1>4. ASSUME NEW h \in Handlers, MarkCalled(h) \/ TakeRecord(h) PROVE OncePerPrinter'
  <2>1. /\ InWindow(h)
        /\ stage' = [stage EXCEPT ![h] = "marked"]
        /\ UNCHANGED <<answer, held, raced>>
    BY <1>4 DEF MarkCalled, TakeRecord
  <2>2. ASSUME NEW f \in Handlers, NEW g \in Handlers, NEW r \in Requests,
               ClaimedTwice(f, g, r)', answer[g].id \notin raced
        PROVE  held[g].mode = "broadcast" /\ answer[f].mac # answer[g].mac
    <3>1. CASE f = h
      <4>1. StoredFor(held[f], answer[f].id) /\ StoredFor(held[g], answer[g].id)
        BY <2>1, <2>2, <3>1, WindowShape DEF Grounded, HeldFitsStage
      <4>2. answer[f].id = answer[g].id
        BY <2>1, <2>2, <4>1 DEF StoredFor
      <4> QED
        BY <2>1, <2>2, <3>1, <4>2, NoRival
    <3>2. CASE g = h
      BY <2>1, <2>2, <3>2, NoRival
    <3>3. CASE f # h /\ g # h
      BY <2>1, <2>2, <3>3
    <3> QED
      BY <3>1, <3>2, <3>3
  <2> QED
    BY <2>1, <2>2
<1>5. CASE Crash
  BY <1>5 DEF Crash, Stages
<1>6. ASSUME UNCHANGED <<stage, answer, held>>, raced \subseteq raced' PROVE OncePerPrinter'
  BY <1>6
<1> QED
  BY <1>1, <1>2, <1>3, <1>4, <1>5, <1>6
     DEF Next, Resume, Quiet, vars, SaveRecord, PublishQuery, Expire

(***************************************************************************)
(* The record is that of the last call.                                    *)
(***************************************************************************)
LEMMA LatestStep == IInv /\ [Next]_vars => RecordIsLatest'
<1> SUFFICES ASSUME IInv, [Next]_vars PROVE RecordIsLatest'
  OBVIOUS
<1> USE DEF IInv, Shape, TypeOK, RecordIsLatest, callVars, handlerVars
<1>1. ASSUME NEW r \in Requests, NEW q \in Query, SaveRecord(r, q) PROVE RecordIsLatest'
  <2> DEFINE c == [callback |-> r, mode |-> q.mode, calledMacs |-> {}]
  <2>1. c \in Record /\ q.id \in Ids
    BY DEF Query, Record
  <2>2. c # None /\ c.callback = r /\ r # None
    BY <2>1, NoneAssumption
  <2>3. cache' = [cache EXCEPT ![q.id] = c] /\ latest' = [latest EXCEPT ![q.id] = r]
    BY <1>1 DEF SaveRecord
  <2>4. raced \subseteq raced'
    BY <1>1 DEF SaveRecord
  <2> HIDE DEF c
  <2> QED
    BY <2>1, <2>2, <2>3, <2>4
<1>2. ASSUME NEW h \in Handlers, MarkCalled(h) PROVE RecordIsLatest'
  <2> DEFINE c == [held[h] EXCEPT !.calledMacs = @ \cup {answer[h].mac}]
  <2>1. InWindow(h) /\ cache' = [cache EXCEPT ![answer[h].id] = c] /\ UNCHANGED <<latest, raced>>
    BY <1>2 DEF MarkCalled
  <2>2. held[h] \in Record /\ held[h] # None /\ answer[h].id \in Ids /\ answer[h].mac \in Macs
    BY <2>1, WindowShape
  <2>3. c \in Record /\ c.callback = held[h].callback
    BY <2>2 DEF Record
  <2>4. c # None
    BY <2>3, NoneAssumption
  <2>5. answer[h].id \notin raced => cache[answer[h].id] = held[h]
    BY <2>1 DEF WindowIsFresh
  <2> HIDE DEF c
  <2> QED
    BY <2>1, <2>2, <2>3, <2>4, <2>5
<1>3. ASSUME NEW h \in Handlers, TakeRecord(h) PROVE RecordIsLatest'
  BY <1>3, WindowShape DEF TakeRecord
<1>4. ASSUME NEW id \in Ids, Expire(id) PROVE RecordIsLatest'
  BY <1>4 DEF Expire
<1>5. ASSUME UNCHANGED <<cache, latest>>, raced \subseteq raced' PROVE RecordIsLatest'
  BY <1>5
<1> QED
  BY <1>1, <1>2, <1>3, <1>4, <1>5
     DEF Next, Resume, Quiet, vars, PublishQuery, ReadRecord, IgnoreAnswer, DropUnknown,
         DropRepeat, Post, Crash

-----------------------------------------------------------------------------
LEMMA IInvInit == Init => IInv
<1> SUFFICES ASSUME Init PROVE IInv
  OBVIOUS
<1>1. \A h \in Handlers : ~InWindow(h) /\ ~Claimed(h)
  BY DEF Init, InWindow, Claimed
<1> QED
  BY <1>1, ShapeInit
     DEF Init, IInv, Grounded, WindowIsFresh, WindowIsAlone, ClaimsAreMarked,
         OncePerPrinter, ClaimedTwice, RecordIsLatest

LEMMA IInvStep == IInv /\ [Next]_vars => IInv'
  BY ShapeStep, GroundedStep, WindowStep, ClaimsStep, OnceStep, LatestStep DEF IInv

LEMMA IInvCorrect == Spec => []IInv
  BY IInvInit, IInvStep, PTL DEF Spec

(***************************************************************************)
(* Whatever answers arrive, in whatever order, and whenever records expire *)
(* or the process crashes: unless a record is touched between a run's      *)
(* cache.get and its cache.set or cache.del, handleOid claims a broadcast  *)
(* callback at most once per printer and a single callback at most once.   *)
(***************************************************************************)
THEOREM CallbackOncePerPrinter == Spec => []OncePerPrinter
<1>1. IInv => OncePerPrinter
  BY DEF IInv
<1> QED
  BY <1>1, IInvCorrect, PTL

(***************************************************************************)
(* Unless records are touched inside such a window, Redis holds for each   *)
(* id the record of the last call, or none once that record has expired    *)
(* or has been consumed.                                                   *)
(***************************************************************************)
THEOREM RecordIsThatOfLatestCall == Spec => []RecordIsLatest
<1>1. IInv => RecordIsLatest
  BY DEF IInv
<1> QED
  BY <1>1, IInvCorrect, PTL

-----------------------------------------------------------------------------
(***************************************************************************)
(* Why an answer is forwarded where it is, and why it is dropped.  None of *)
(* this needs the absence of races.                                        *)
(***************************************************************************)

\* An answer was asked for by a published query.
AnswersAQuery(h) ==
    \E s \in Requests :
        /\ call[s] = "sent"
        /\ query[s].id = answer[h].id
        /\ answer[h].mac \in query[s].to

\* The marks of a record c are claims on its call.
MarkedByClaims(c) ==
    \A m \in c.calledMacs : \E g \in Handlers :
        Claimed(g) /\ held[g].callback = c.callback /\ answer[g].mac = m

Explained ==
    /\ \A h \in Handlers : stage[h] # "new" => AnswersAQuery(h)
    /\ \A id \in Ids : cache[id] # None => MarkedByClaims(cache[id])
    /\ \A h \in Handlers : held[h] # None => MarkedByClaims(held[h])
    /\ \A s \in Requests :
          query[s] # None /\ cache[query[s].id] = None => query[s].id \in gone
    /\ \A h \in Handlers :
          /\ stage[h] = "read" /\ held[h] = None => answer[h].id \in gone
          /\ stage[h] = "unknown" => answer[h].id \in gone
          /\ stage[h] = "repeat" => held[h] # None /\ ~Accepts(h)
          /\ stage[h] = "ignored" => answer[h].id = EmptyId

\* What a step keeps of an answer and of a claim once they are there.
LEMMA Kept ==
  ASSUME IInv, [Next]_vars
  PROVE  /\ \A s \in Requests : query[s] # None => query'[s] = query[s]
         /\ \A s \in Requests : call[s] = "sent" => call'[s] = "sent"
         /\ \A h \in Handlers : stage[h] # "new" =>
                /\ stage'[h] # "new"
                /\ answer'[h] = answer[h] /\ held'[h] = held[h]
         /\ \A h \in Handlers : Claimed(h) => Claimed(h)'
         /\ gone \subseteq gone'
<1> USE DEF IInv, Shape, TypeOK, Stages, Claimed, callVars, handlerVars
<1>1. CASE \E r \in Requests, q \in Query : SaveRecord(r, q)
  BY <1>1 DEF SaveRecord, AskedWhenSaved
<1>2. CASE \E r \in Requests : PublishQuery(r)
  BY <1>2 DEF PublishQuery
<1>3. CASE \E h \in Handlers, r \in Requests, m \in Macs :
              ReadRecord(h, r, m) \/ IgnoreAnswer(h, r, m)
  BY <1>3 DEF ReadRecord, IgnoreAnswer
<1>4. CASE \E h \in Handlers : Resume(h)
  BY <1>4 DEF Resume, DropUnknown, DropRepeat, MarkCalled, TakeRecord, Post, InWindow
<1>5. CASE \E id \in Ids : Expire(id)
  BY <1>5 DEF Expire
<1>6. CASE Crash
  BY <1>6 DEF Crash
<1>7. CASE UNCHANGED vars
  BY <1>7 DEF vars
<1> QED
  BY <1>1, <1>2, <1>3, <1>4, <1>5, <1>6, <1>7 DEF Next, Quiet

LEMMA AnswersAQueryStep ==
  ASSUME IInv, Explained, [Next]_vars, NEW h \in Handlers, stage'[h] # "new"
  PROVE  AnswersAQuery(h)'
<1> USE DEF IInv, Shape, TypeOK, Stages, AnswersAQuery, callVars, handlerVars
<1>1. CASE stage[h] # "new"
  <2>1. PICK s \in Requests : /\ call[s] = "sent"
                              /\ query[s].id = answer[h].id
                              /\ answer[h].mac \in query[s].to
    BY <1>1 DEF Explained
  <2>2. query[s] # None
    BY <2>1 DEF AskedWhenSaved
  <2> QED
    BY <1>1, <2>1, <2>2, Kept
<1>2. CASE stage[h] = "new"
  <2>1. PICK r \in Requests, m \in Macs : ReadRecord(h, r, m) \/ IgnoreAnswer(h, r, m)
    BY <1>2
       DEF Next, Resume, Quiet, vars, SaveRecord, PublishQuery, ReadRecord, IgnoreAnswer,
           DropUnknown, DropRepeat, MarkCalled, TakeRecord, Post, InWindow, Expire, Crash
  <2> QED
    BY <2>1 DEF ReadRecord, IgnoreAnswer
<1> QED
  BY <1>1, <1>2

\* The claims behind a record's marks stay.
LEMMA MarksKept ==
  ASSUME IInv, [Next]_vars, NEW c, MarkedByClaims(c)
  PROVE  MarkedByClaims(c)'
<1> SUFFICES ASSUME NEW m \in c.calledMacs
             PROVE  \E g \in Handlers :
                      Claimed(g)' /\ held'[g].callback = c.callback /\ answer'[g].mac = m
  BY DEF MarkedByClaims
<1>1. PICK g \in Handlers : Claimed(g) /\ held[g].callback = c.callback /\ answer[g].mac = m
  BY DEF MarkedByClaims
<1>2. stage[g] # "new"
  BY <1>1 DEF Claimed
<1> QED
  BY <1>1, <1>2, Kept

LEMMA MarksStep ==
  ASSUME IInv, Explained, [Next]_vars
  PROVE  /\ \A id \in Ids : cache'[id] # None => MarkedByClaims(cache[id])'
         /\ \A h \in Handlers : held'[h] # None => MarkedByClaims(held[h])'
<1> USE DEF IInv, Shape, TypeOK, callVars, handlerVars
<1>1. ASSUME NEW c \in Record, MarkedByClaims(c) PROVE MarkedByClaims(c)'
  BY <1>1, MarksKept
<1>2. \A id \in Ids : cache[id] # None => MarkedByClaims(cache[id])
  BY DEF Explained
<1>3. \A h \in Handlers : held[h] # None => MarkedByClaims(held[h])
  BY DEF Explained
<1>4. ASSUME NEW id \in Ids, cache'[id] # None PROVE MarkedByClaims(cache[id])'
  <2>1. CASE cache'[id] = cache[id]
    BY <1>1, <1>2, <1>4, <2>1 DEF MarkedByClaims
  <2>2. CASE cache'[id] # cache[id]
    <3>1. ASSUME NEW r \in Requests, NEW q \in Query, SaveRecord(r, q)
          PROVE  MarkedByClaims(cache[id])'
      <4>1. cache'[id].calledMacs = {}
        BY <2>2, <3>1 DEF SaveRecord, Query
      <4> QED
        BY <4>1 DEF MarkedByClaims
    <3>2. ASSUME NEW h \in Handlers, MarkCalled(h) PROVE MarkedByClaims(cache[id])'
      <4>1. InWindow(h) /\ held[h] \in Record /\ held[h] # None /\ answer[h].id \in Ids
        BY <3>2, WindowShape DEF MarkCalled
      <4>2. /\ cache'[id].callback = held[h].callback
            /\ cache'[id].calledMacs = held[h].calledMacs \cup {answer[h].mac}
        BY <2>2, <3>2, <4>1 DEF MarkCalled, Record
      <4>3. MarkedByClaims(held[h])'
        BY <1>1, <1>3, <3>2, <4>1 DEF MarkCalled, MarkedByClaims
      <4>4. Claimed(h)' /\ held'[h] = held[h] /\ answer'[h] = answer[h]
        BY <3>2 DEF MarkCalled, Claimed
      <4> QED
        BY <4>2, <4>3, <4>4 DEF MarkedByClaims
    <3> QED
      BY <1>4, <2>2, <3>1, <3>2
         DEF Next, Resume, Quiet, vars, PublishQuery, ReadRecord, IgnoreAnswer,
             DropUnknown, DropRepeat, TakeRecord, Post, Expire, Crash
  <2> QED
    BY <2>1, <2>2
<1>5. ASSUME NEW h \in Handlers, held'[h] # None PROVE MarkedByClaims(held[h])'
  <2>1. CASE held'[h] = held[h]
    BY <1>1, <1>3, <1>5, <2>1 DEF MarkedByClaims
  <2>2. CASE held'[h] # held[h]
    <3>1. PICK r \in Requests, m \in Macs : ReadRecord(h, r, m)
      BY <2>2
         DEF Next, Resume, Quiet, vars, SaveRecord, PublishQuery, ReadRecord, IgnoreAnswer,
             DropUnknown, DropRepeat, MarkCalled, TakeRecord, Post, Expire, Crash
    <3>2. held'[h] = cache[query[r].id] /\ query[r].id \in Ids
      BY <3>1 DEF ReadRecord, AskedWhenSaved, Query
    <3> QED
      BY <1>1, <1>2, <1>5, <3>2 DEF MarkedByClaims
  <2> QED
    BY <2>1, <2>2
<1> QED
  BY <1>4, <1>5

LEMMA GoneStep ==
  ASSUME IInv, Explained, [Next]_vars, NEW s \in Requests,
         query'[s] # None, cache'[query'[s].id] = None
  PROVE  query'[s].id \in gone'
<1> USE DEF IInv, Shape, TypeOK, callVars, handlerVars
<1>1. \A t \in Requests : query[t] # None /\ cache[query[t].id] = None => query[t].id \in gone
  BY DEF Explained
<1>2. ASSUME NEW r \in Requests, NEW q \in Query, SaveRecord(r, q) PROVE query'[s].id \in gone'
  <2> DEFINE c == [callback |-> r, mode |-> q.mode, calledMacs |-> {}]
  <2>1. cache' = [cache EXCEPT ![q.id] = c] /\ query' = [query EXCEPT ![r] = q]
    BY <1>2 DEF SaveRecord
  <2>2. c # None /\ q.id \in Ids
    BY NoneAssumption DEF Query, Record
  <2> HIDE DEF c
  <2>3. query'[s].id # q.id /\ s # r
    BY <2>1, <2>2
  <2> QED
    BY <1>1, <1>2, <2>1, <2>3 DEF SaveRecord
<1>3. ASSUME NEW h \in Handlers, MarkCalled(h) PROVE query'[s].id \in gone'
  <2> DEFINE c == [held[h] EXCEPT !.calledMacs = @ \cup {answer[h].mac}]
  <2>1. cache' = [cache EXCEPT ![answer[h].id] = c] /\ UNCHANGED <<query, gone>>
    BY <1>3 DEF MarkCalled
  <2>2. held[h] \in Record /\ answer[h].mac \in Macs /\ answer[h].id \in Ids
    BY <1>3, WindowShape DEF MarkCalled
  <2>3. c # None
    BY <2>2, NoneAssumption DEF Record
  <2> HIDE DEF c
  <2> QED
    BY <1>1, <2>1, <2>2, <2>3
<1>4. ASSUME NEW h \in Handlers, TakeRecord(h) PROVE query'[s].id \in gone'
  BY <1>1, <1>4, WindowShape DEF TakeRecord
<1>5. ASSUME NEW id \in Ids, Expire(id) PROVE query'[s].id \in gone'
  BY <1>1, <1>5 DEF Expire
<1>6. ASSUME UNCHANGED <<cache, query, gone>> PROVE query'[s].id \in gone'
  BY <1>1, <1>6
<1> QED
  BY <1>2, <1>3, <1>4, <1>5, <1>6
     DEF Next, Resume, Quiet, vars, PublishQuery, ReadRecord, IgnoreAnswer, DropUnknown,
         DropRepeat, Post, Crash

LEMMA DropsStep ==
  ASSUME IInv, Explained, [Next]_vars, NEW h \in Handlers
  PROVE  /\ stage'[h] = "read" /\ held'[h] = None => answer'[h].id \in gone'
         /\ stage'[h] = "unknown" => answer'[h].id \in gone'
         /\ stage'[h] = "repeat" => held'[h] # None /\ ~Accepts(h)'
         /\ stage'[h] = "ignored" => answer'[h].id = EmptyId
<1> DEFINE Goal ==
             /\ stage'[h] = "read" /\ held'[h] = None => answer'[h].id \in gone'
             /\ stage'[h] = "unknown" => answer'[h].id \in gone'
             /\ stage'[h] = "repeat" => held'[h] # None /\ ~Accepts(h)'
             /\ stage'[h] = "ignored" => answer'[h].id = EmptyId
<1> USE DEF IInv, Shape, TypeOK, callVars, handlerVars
<1>1. /\ stage[h] = "read" /\ held[h] = None => answer[h].id \in gone
      /\ stage[h] = "unknown" => answer[h].id \in gone
      /\ stage[h] = "repeat" => held[h] # None /\ ~Accepts(h)
      /\ stage[h] = "ignored" => answer[h].id = EmptyId
  BY DEF Explained
<1>2. gone \subseteq gone'
  BY Kept
<1>3. ASSUME NEW r \in Requests, NEW m \in Macs, ReadRecord(h, r, m) PROVE Goal
  <2>1. query[r] # None
    BY <1>3 DEF ReadRecord, AskedWhenSaved
  <2> QED
    BY <1>3, <2>1 DEF ReadRecord, Explained
<1>4. ASSUME NEW r \in Requests, NEW m \in Macs, IgnoreAnswer(h, r, m) PROVE Goal
  BY <1>4 DEF IgnoreAnswer
<1>5. ASSUME DropUnknown(h) PROVE Goal
  BY <1>1, <1>5 DEF DropUnknown
<1>6. ASSUME DropRepeat(h) PROVE Goal
  BY <1>1, <1>6 DEF DropRepeat, Accepts
<1>7. ASSUME MarkCalled(h) \/ TakeRecord(h) \/ Post(h) PROVE Goal
  BY <1>7 DEF MarkCalled, TakeRecord, Post
<1>8. ASSUME Crash PROVE Goal
  BY <1>1, <1>8 DEF Crash, Accepts, Stages
<1>9. ASSUME stage'[h] = stage[h], answer'[h] = answer[h], held'[h] = held[h] PROVE Goal
  BY <1>1, <1>2, <1>9 DEF Accepts
<1> HIDE DEF Goal
<1>10. ASSUME NEW g \in Handlers, g # h, NEW r \in Requests, NEW m \in Macs,
              ReadRecord(g, r, m) \/ IgnoreAnswer(g, r, m)
       PROVE Goal
  BY <1>9, <1>10 DEF ReadRecord, IgnoreAnswer
<1>11. ASSUME NEW g \in Handlers, g # h, Resume(g) PROVE Goal
  BY <1>9, <1>11 DEF Resume, DropUnknown, DropRepeat, MarkCalled, TakeRecord, Post
<1>12. ASSUME UNCHANGED handlerVars PROVE Goal
  BY <1>9, <1>12
<1>13. ASSUME NEW g \in Handlers, NEW r \in Requests, NEW m \in Macs,
              ReadRecord(g, r, m) \/ IgnoreAnswer(g, r, m)
       PROVE Goal
  BY <1>3, <1>4, <1>10, <1>13
<1>14. ASSUME NEW g \in Handlers, Resume(g) PROVE Goal
  BY <1>5, <1>6, <1>7, <1>11, <1>14 DEF Resume
<1>15. ASSUME \/ \E r \in Requests, q \in Query : SaveRecord(r, q)
              \/ \E r \in Requests : PublishQuery(r)
              \/ \E id \in Ids : Expire(id)
              \/ UNCHANGED vars
       PROVE UNCHANGED handlerVars
  BY <1>15 DEF SaveRecord, PublishQuery, Expire, vars
<1>16. Goal
  BY <1>8, <1>12, <1>13, <1>14, <1>15 DEF Next, Quiet
<1> QED
  BY <1>16 DEF Goal

LEMMA ExplainedInit == Init => Explained
  BY DEF Init, Explained

LEMMA ExplainedStep == IInv /\ Explained /\ [Next]_vars => Explained'
<1> SUFFICES ASSUME IInv, Explained, [Next]_vars PROVE Explained'
  OBVIOUS
<1> QED
  BY AnswersAQueryStep, MarksStep, GoneStep, DropsStep DEF Explained

LEMMA ExplainedCorrect == Spec => []Explained
  BY IInvCorrect, ExplainedInit, ExplainedStep, PTL DEF Spec

(***************************************************************************)
(* An answer is forwarded only to a call made with the answer's request id *)
(* and, if no other call used that id, only to the call whose published    *)
(* query addressed the answering printer.                                  *)
(***************************************************************************)
THEOREM ForwardedWhereAsked == Spec => []CallbackMatchesQuery
<1>1. IInv /\ Explained => CallbackMatchesQuery
  <2> SUFFICES ASSUME IInv, Explained, NEW h \in Handlers, Claimed(h)
               PROVE  LET r == held[h].callback IN
                      /\ query[r] # None
                      /\ query[r].id = answer[h].id
                      /\ \/ call[r] = "sent" /\ answer[h].mac \in query[r].to
                         \/ \E s \in Requests \ {r} :
                               query[s] # None /\ query[s].id = query[r].id
    BY DEF CallbackMatchesQuery
  <2>1. held[h] # None /\ stage[h] # "new"
    BY DEF IInv, Shape, HeldFitsStage, Claimed
  <2>2. query[held[h].callback] # None /\ query[held[h].callback].id = answer[h].id
    BY <2>1 DEF IInv, Grounded, StoredFor
  <2>3. PICK s \in Requests : /\ call[s] = "sent"
                              /\ query[s].id = answer[h].id
                              /\ answer[h].mac \in query[s].to
    BY <2>1 DEF Explained, AnswersAQuery
  <2>4. query[s] # None
    BY <2>3 DEF IInv, Shape, AskedWhenSaved
  <2> QED
    BY <2>2, <2>3, <2>4
<1> QED
  BY <1>1, IInvCorrect, ExplainedCorrect, PTL

(***************************************************************************)
(* handleOid drops an answer only because the record really expired or was *)
(* consumed, because the same printer already claimed the callback, or     *)
(* because the request id is empty.                                        *)
(***************************************************************************)
THEOREM DropsHaveReasons == Spec => []DropsAreExplained
<1>1. IInv /\ Explained => DropsAreExplained
  <2> SUFFICES ASSUME IInv, Explained PROVE DropsAreExplained
    OBVIOUS
  <2>1. \A h \in Handlers : /\ stage[h] = "unknown" => answer[h].id \in gone
                            /\ stage[h] = "ignored" => answer[h].id = EmptyId
    BY DEF Explained
  <2>2. ASSUME NEW h \in Handlers, stage[h] = "repeat"
        PROVE  \E g \in Handlers \ {h} :
                 /\ Claimed(g)
                 /\ held[g].callback = held[h].callback
                 /\ answer[g].mac = answer[h].mac
    BY <2>2 DEF Explained, MarkedByClaims, Accepts, Claimed
  <2> QED
    BY <2>1, <2>2 DEF DropsAreExplained
<1> QED
  BY <1>1, IInvCorrect, ExplainedCorrect, PTL

-----------------------------------------------------------------------------
(***************************************************************************)
(* The refinement of OidService.                                           *)
(***************************************************************************)

\* A run has no answer before it starts.
UnansweredWhenNew == \A h \in Handlers : stage[h] = "new" => answer[h] = None

LEMMA UnansweredStep == Shape /\ UnansweredWhenNew /\ [Next]_vars => UnansweredWhenNew'
<1> SUFFICES ASSUME Shape, UnansweredWhenNew, [Next]_vars PROVE UnansweredWhenNew'
  OBVIOUS
<1> USE DEF Shape, TypeOK, Stages, UnansweredWhenNew, callVars, handlerVars
<1>1. CASE \E h \in Handlers, r \in Requests, m \in Macs :
              ReadRecord(h, r, m) \/ IgnoreAnswer(h, r, m)
  BY <1>1 DEF ReadRecord, IgnoreAnswer
<1>2. CASE \E h \in Handlers : Resume(h)
  BY <1>2 DEF Resume, DropUnknown, DropRepeat, MarkCalled, TakeRecord, Post
<1>3. CASE Crash
  BY <1>3 DEF Crash
<1>4. CASE UNCHANGED <<stage, answer>>
  BY <1>4
<1> QED
  BY <1>1, <1>2, <1>3, <1>4
     DEF Next, Quiet, vars, SaveRecord, PublishQuery, Expire

\* What the variables of OidService stand for.
AskedMap  == [r \in Requests |-> IF query[r] = None THEN None ELSE query[r].id]
FateMap   == [h \in Handlers |-> FateOf(h)]
Disturbed == raced \cup {EmptyId}

MappedVars == <<cache, AskedMap, answer, FateMap, Disturbed>>

\* The fate of an answer at each stage of the run that handles it.
LEMMA FateCases ==
  ASSUME NEW h \in Handlers
  PROVE  /\ Claimed(h) => FateOf(h) = held[h].callback
         /\ stage[h] = "ignored" => FateOf(h) = "dropped"
         /\ stage[h] \in {"read", "unknown", "repeat", "died"} /\ ~Accepts(h)
               => FateOf(h) = "dropped"
         /\ stage[h] = "new" => FateOf(h) = "open"
         /\ stage[h] \in {"read", "unknown", "repeat", "died"} /\ Accepts(h)
               => FateOf(h) = "open"
  BY DEF FateOf, Claimed

LEMMA FateCasesNext ==
  ASSUME NEW h \in Handlers
  PROVE  /\ Claimed(h)' => FateOf(h)' = held'[h].callback
         /\ stage'[h] = "ignored" => FateOf(h)' = "dropped"
         /\ stage'[h] \in {"read", "unknown", "repeat", "died"} /\ ~Accepts(h)'
               => FateOf(h)' = "dropped"
         /\ stage'[h] = "new" => FateOf(h)' = "open"
         /\ stage'[h] \in {"read", "unknown", "repeat", "died"} /\ Accepts(h)'
               => FateOf(h)' = "open"
  BY DEF FateOf, Claimed

\* A run that keeps its stage, answer and record keeps its fate.
LEMMA FateKept ==
  ASSUME NEW h \in Handlers,
         stage'[h] = stage[h], answer'[h] = answer[h], held'[h] = held[h]
  PROVE  FateOf(h)' = FateOf(h)
  BY DEF FateOf, Claimed, Accepts

LEMMA ServiceInit == Init => Service!Init
<1> SUFFICES ASSUME Init PROVE Service!Init
  OBVIOUS
<1>1. \A h \in Handlers : FateOf(h) = "open"
  BY FateCases DEF Init
<1>2. [r \in Requests |-> IF query[r] = None THEN None ELSE query[r].id]
        = [r \in Requests |-> None]
  BY DEF Init
<1>3. [h \in Handlers |-> FateOf(h)] = [h \in Handlers |-> "open"]
  BY <1>1
<1>4. raced \cup {EmptyId} \subseteq Ids
  BY IdAssumption DEF Init
<1> QED
  BY <1>2, <1>3, <1>4 DEF Init, Service!Init

\* A step at ids about which nothing is promised.
LEMMA DisturbMaps ==
  ASSUME TypeOK', raced \subseteq raced',
         \A id \in Ids : cache'[id] = cache[id] \/ id \in Disturbed',
         \A r \in Requests :
            \/ query'[r] = query[r]
            \/ query[r] = None /\ query'[r] # None /\ query'[r].id \in Disturbed',
         \A h \in Handlers :
            \/ answer'[h] = answer[h]
            \/ answer[h] = None /\ answer'[h].id \in Disturbed',
         \A h \in Handlers :
            \/ FateOf(h)' = FateOf(h)
            \/ /\ FateOf(h) = "open"
               /\ answer'[h].id \in Disturbed'
               /\ \/ FateOf(h)' = "dropped"
                  \/ \E r \in Requests : FateOf(h)' = r /\ AskedMap[r] = answer'[h].id
  PROVE  Service!Next
<1>1. Disturbed' \in SUBSET Ids /\ Disturbed \subseteq Disturbed'
  BY IdAssumption DEF Disturbed, TypeOK
<1>2. \A r \in Requests :
         \/ AskedMap'[r] = AskedMap[r]
         \/ AskedMap[r] = None /\ AskedMap'[r] \in Disturbed'
  BY DEF AskedMap
<1>3. \A h \in Handlers : FateMap[h] = FateOf(h) /\ FateMap'[h] = FateOf(h)'
  BY DEF FateMap
<1>4. \A h \in Handlers :
         \/ FateMap'[h] = FateMap[h]
         \/ /\ FateMap[h] = "open"
            /\ answer'[h].id \in Disturbed'
            /\ \/ FateMap'[h] = "dropped"
               \/ \E r \in Requests : FateMap'[h] = r /\ AskedMap[r] = answer'[h].id
  BY <1>3
<1>5. PICK D \in SUBSET Ids : D = Disturbed'
  BY <1>1
<1>6. Service!Disturb(D)
  BY <1>1, <1>2, <1>4, <1>5 DEF Service!Disturb, AskedMap, FateMap, Disturbed
<1> QED
  BY <1>6 DEF Service!Next

\* A step that the service does not see.
LEMMA StutterMaps ==
  ASSUME UNCHANGED <<cache, query, answer, raced>>,
         \A h \in Handlers : FateOf(h)' = FateOf(h)
  PROVE  UNCHANGED MappedVars
<1>1. AskedMap' = AskedMap /\ FateMap' = FateMap /\ Disturbed' = Disturbed
  BY DEF AskedMap, FateMap, Disturbed
<1> QED
  BY <1>1 DEF MappedVars

LEMMA SaveMaps ==
  ASSUME IInv, TypeOK', NEW r \in Requests, NEW q \in Query, SaveRecord(r, q)
  PROVE  Service!Next
<1> USE DEF callVars, handlerVars
<1>1. query[r] = None /\ q # None /\ q.id \in Ids
  BY NoneAssumption DEF SaveRecord, IInv, Shape, AskedWhenSaved, Query
<1>2. /\ UNCHANGED <<stage, answer, held>>
      /\ query' = [query EXCEPT ![r] = q]
      /\ cache' = [cache EXCEPT ![q.id] =
                     [callback |-> r, mode |-> q.mode, calledMacs |-> {}]]
      /\ raced' = raced \cup Races(q.id)
  BY DEF SaveRecord
<1>3. \A h \in Handlers : FateOf(h)' = FateOf(h)
  BY <1>2, FateKept
<1>4. /\ query'[r] = q
      /\ \A s \in Requests \ {r} : query'[s] = query[s]
      /\ \A id \in Ids \ {q.id} : cache'[id] = cache[id]
  BY <1>2 DEF IInv, Shape, TypeOK
<1>5. CASE q.id \in Disturbed'
  BY <1>1, <1>2, <1>3, <1>4, <1>5, DisturbMaps
<1>6. CASE q.id \notin Disturbed'
  <2>1. raced' = raced
    BY <1>2, <1>6 DEF Races, Disturbed
  <2>2. Disturbed' = Disturbed
    BY <2>1 DEF Disturbed
  <2>3. AskedMap[r] = None
    BY <1>1 DEF AskedMap
  <2>4. AskedMap' = [AskedMap EXCEPT ![r] = q.id]
    BY <1>1, <1>4 DEF AskedMap
  <2>5. FateMap' = FateMap
    BY <1>3 DEF FateMap
  <2>6. Service!Ask(r, q.id, q.mode)
    BY <1>2, <2>2, <2>3, <2>4, <2>5 DEF Service!Ask, AskedMap, FateMap, Disturbed
  <2> QED
    BY <1>1, <2>6 DEF Service!Next, Query, Modes
<1> QED
  BY <1>5, <1>6

LEMMA ReadMaps ==
  ASSUME IInv, TypeOK', UnansweredWhenNew,
         NEW h \in Handlers, NEW r \in Requests, NEW m \in Macs, ReadRecord(h, r, m)
  PROVE  Service!Next
<1> DEFINE id == query[r].id
<1> USE DEF callVars, handlerVars
<1>1. id \in Ids /\ stage[h] = "new" /\ answer[h] = None
  BY DEF ReadRecord, IInv, Shape, TypeOK, AskedWhenSaved, Query, UnansweredWhenNew
<1>2. /\ stage' = [stage EXCEPT ![h] = "read"]
      /\ answer' = [answer EXCEPT ![h] = [id |-> id, mac |-> m]]
      /\ held' = [held EXCEPT ![h] = cache[id]]
      /\ raced' = raced \cup Races(id)
      /\ UNCHANGED <<cache, query>>
  BY DEF ReadRecord
<1>3. /\ stage'[h] = "read" /\ answer'[h] = [id |-> id, mac |-> m] /\ held'[h] = cache[id]
      /\ \A g \in Handlers \ {h} :
            stage'[g] = stage[g] /\ answer'[g] = answer[g] /\ held'[g] = held[g]
  BY <1>2 DEF IInv, Shape, TypeOK
<1>4. answer'[h].id = id /\ answer'[h].mac = m
  BY <1>3
<1> HIDE DEF id
<1>5. \A g \in Handlers \ {h} : FateOf(g)' = FateOf(g)
  BY <1>3, FateKept
<1>6. FateOf(h) = "open"
  BY <1>1, FateCases
<1>7. FateOf(h)' = IF Service!Accepts(id, m) THEN "open" ELSE "dropped"
  <2>1. Accepts(h)' <=> Service!Accepts(id, m)
    BY <1>3, <1>4 DEF Accepts, Service!Accepts
  <2> QED
    BY <1>3, <2>1, FateCasesNext
<1>8. CASE id \in Disturbed'
  BY <1>1, <1>2, <1>3, <1>4, <1>5, <1>6, <1>7, <1>8, DisturbMaps
<1>9. CASE id \notin Disturbed'
  <2>1. raced' = raced
    BY <1>2, <1>9 DEF Races, Disturbed
  <2>2. Disturbed' = Disturbed /\ AskedMap' = AskedMap
    BY <1>2, <2>1 DEF Disturbed, AskedMap
  <2>3. FateMap' = [FateMap EXCEPT ![h] = IF Service!Accepts(id, m) THEN "open" ELSE "dropped"]
    BY <1>5, <1>7 DEF FateMap
  <2>4. Service!Receive(h, id, m)
    BY <1>1, <1>2, <2>2, <2>3 DEF Service!Receive, AskedMap, FateMap, Disturbed
  <2> QED
    BY <1>1, <2>4 DEF Service!Next
<1> QED
  BY <1>8, <1>9

LEMMA IgnoreMaps ==
  ASSUME IInv, TypeOK', UnansweredWhenNew,
         NEW h \in Handlers, NEW r \in Requests, NEW m \in Macs, IgnoreAnswer(h, r, m)
  PROVE  Service!Next
<1> USE DEF callVars, handlerVars
<1>1. /\ stage[h] = "new" /\ answer[h] = None
      /\ stage'[h] = "ignored" /\ answer'[h] = [id |-> EmptyId, mac |-> m]
      /\ \A g \in Handlers \ {h} :
            stage'[g] = stage[g] /\ answer'[g] = answer[g] /\ held'[g] = held[g]
      /\ UNCHANGED <<cache, query, raced>>
  BY DEF IgnoreAnswer, IInv, Shape, TypeOK, UnansweredWhenNew
<1>2. \A g \in Handlers \ {h} : FateOf(g)' = FateOf(g)
  BY <1>1, FateKept
<1>3. FateOf(h) = "open" /\ FateOf(h)' = "dropped"
  BY <1>1, FateCases, FateCasesNext
<1>4. answer'[h].id \in Disturbed'
  BY <1>1 DEF Disturbed
<1> QED
  BY <1>1, <1>2, <1>3, <1>4, DisturbMaps

\* Marking or deleting the record forwards the answer.
LEMMA ClaimMaps ==
  ASSUME IInv, TypeOK', NEW h \in Handlers, MarkCalled(h) \/ TakeRecord(h)
  PROVE  Service!Next
<1> DEFINE id == answer[h].id
           Left(c) == IF c.mode = "single" THEN None
                      ELSE [c EXCEPT !.calledMacs = @ \cup {answer[h].mac}]
<1> USE DEF callVars, handlerVars
<1>1. /\ InWindow(h)
      /\ stage' = [stage EXCEPT ![h] = "marked"]
      /\ UNCHANGED <<answer, held, query, raced>>
  BY DEF MarkCalled, TakeRecord
<1>2. /\ held[h] \in Record /\ held[h] # None
      /\ answer[h] \in Answer /\ id \in Ids /\ answer[h].mac \in Macs
  BY <1>1, WindowShape DEF IInv
<1>3. cache' = [cache EXCEPT ![id] = Left(held[h])]
  BY DEF MarkCalled, TakeRecord
<1>4. \A g \in Handlers \ {h} : FateOf(g)' = FateOf(g)
  BY <1>1, FateKept DEF IInv, Shape, TypeOK
<1>5. FateOf(h) = "open"
  BY <1>1, FateCases DEF InWindow
<1>6. FateOf(h)' = held[h].callback
  <2>1. Claimed(h)'
    BY <1>1 DEF Claimed, IInv, Shape, TypeOK
  <2> QED
    BY <1>1, <2>1, FateCasesNext
<1>7. held[h].callback \in Requests /\ AskedMap[held[h].callback] = id
  BY <1>2 DEF IInv, Grounded, StoredFor, AskedMap, Record
<1>8. \A i \in Ids \ {id} : cache'[i] = cache[i]
  BY <1>3 DEF IInv, Shape, TypeOK
<1>9. CASE id \in Disturbed'
  BY <1>1, <1>2, <1>4, <1>5, <1>6, <1>7, <1>8, <1>9, DisturbMaps
<1>10. CASE id \notin Disturbed'
  <2>1. cache[id] = held[h]
    BY <1>1, <1>10 DEF IInv, WindowIsFresh, Disturbed
  <2>2. answer[h] # None
    BY <1>2 DEF IInv, Shape, AnsweredWhenRead
  <2>3. Service!Accepts(id, answer[h].mac)
    BY <1>1, <2>1 DEF InWindow, Accepts, Service!Accepts
  <2>4. FateMap[h] = "open"
    BY <1>5 DEF FateMap
  <2>5. FateMap' = [FateMap EXCEPT ![h] = cache[id].callback]
    BY <1>4, <1>6, <2>1 DEF FateMap
  <2>6. cache' = [cache EXCEPT ![id] = Left(cache[id])]
    <3> HIDE DEF Left
    <3> QED
      BY <1>3, <2>1
  <2>7. AskedMap' = AskedMap /\ Disturbed' = Disturbed
    BY <1>1 DEF AskedMap, Disturbed
  <2>8. Service!Forward(h)
    BY <1>1, <2>2, <2>3, <2>4, <2>5, <2>6, <2>7
       DEF Service!Forward, AskedMap, FateMap, Disturbed
  <2> QED
    BY <2>8 DEF Service!Next
<1> QED
  BY <1>9, <1>10

LEMMA ExpireMaps ==
  ASSUME IInv, TypeOK', NEW id \in Ids, Expire(id)
  PROVE  Service!Next
<1> USE DEF callVars, handlerVars
<1>1. /\ cache' = [cache EXCEPT ![id] = None]
      /\ raced' = raced \cup Races(id)
      /\ UNCHANGED <<stage, answer, held, query>>
  BY DEF Expire
<1>2. \A h \in Handlers : FateOf(h)' = FateOf(h)
  BY <1>1, FateKept
<1>3. \A i \in Ids \ {id} : cache'[i] = cache[i]
  BY <1>1 DEF IInv, Shape, TypeOK
<1>4. CASE id \in Disturbed'
  BY <1>1, <1>2, <1>3, <1>4, DisturbMaps
<1>5. CASE id \notin Disturbed'
  <2>1. raced' = raced
    BY <1>1, <1>5 DEF Races, Disturbed
  <2>2. Disturbed' = Disturbed /\ AskedMap' = AskedMap /\ FateMap' = FateMap
    BY <1>1, <1>2, <2>1 DEF Disturbed, AskedMap, FateMap
  <2>3. Service!Forget(id)
    BY <1>1, <2>2 DEF Service!Forget, AskedMap, FateMap, Disturbed
  <2> QED
    BY <2>3 DEF Service!Next
<1> QED
  BY <1>4, <1>5

LEMMA CrashMaps ==
  ASSUME IInv, Crash
  PROVE  UNCHANGED MappedVars
<1> USE DEF callVars, handlerVars
<1>1. UNCHANGED <<cache, query, answer, held, raced>>
  BY DEF Crash
<1>2. ASSUME NEW h \in Handlers PROVE FateOf(h)' = FateOf(h)
  <2>1. Accepts(h)' <=> Accepts(h)
    BY <1>1 DEF Accepts
  <2>2. CASE stage[h] = "read"
    <3>1. stage'[h] = "died"
      BY <2>2 DEF Crash
    <3> QED
      BY <2>1, <2>2, <3>1, FateCases, FateCasesNext
  <2>3. CASE stage[h] = "marked"
    <3>1. stage'[h] = "lost"
      BY <2>3 DEF Crash
    <3>2. Claimed(h) /\ Claimed(h)'
      BY <2>3, <3>1 DEF Claimed
    <3> QED
      BY <1>1, <3>2, FateCases, FateCasesNext
  <2>4. CASE stage[h] \notin {"read", "marked"}
    BY <1>1, <2>4, FateKept DEF Crash
  <2> QED
    BY <2>2, <2>3, <2>4
<1> QED
  BY <1>1, <1>2, StutterMaps

\* Giving an answer up and posting it are decided already.
LEMMA SettledMaps ==
  ASSUME IInv, NEW h \in Handlers, DropUnknown(h) \/ DropRepeat(h) \/ Post(h)
  PROVE  UNCHANGED MappedVars
<1> USE DEF callVars, handlerVars
<1>1. /\ UNCHANGED <<cache, query, answer, held, raced>>
      /\ \A g \in Handlers \ {h} : stage'[g] = stage[g]
  BY DEF DropUnknown, DropRepeat, Post, IInv, Shape, TypeOK
<1>2. \A g \in Handlers \ {h} : FateOf(g)' = FateOf(g)
  BY <1>1, FateKept
<1>3. FateOf(h)' = FateOf(h)
  <2>1. CASE DropUnknown(h) \/ DropRepeat(h)
    <3>1. /\ stage[h] = "read" /\ stage'[h] \in {"unknown", "repeat"}
          /\ ~Accepts(h)
      BY <2>1 DEF DropUnknown, DropRepeat, Accepts, IInv, Shape, TypeOK
    <3>2. ~Accepts(h)'
      BY <1>1, <3>1 DEF Accepts
    <3> QED
      BY <3>1, <3>2, FateCases, FateCasesNext
  <2>2. CASE Post(h)
    <3>1. stage[h] = "marked" /\ stage'[h] \in {"posted", "failed"}
      BY <2>2 DEF Post, IInv, Shape, TypeOK
    <3>2. Claimed(h) /\ Claimed(h)'
      BY <3>1 DEF Claimed
    <3> QED
      BY <1>1, <3>2, FateCases, FateCasesNext
  <2> QED
    BY <2>1, <2>2
<1> QED
  BY <1>1, <1>2, <1>3, StutterMaps

LEMMA ServiceStep ==
  ASSUME IInv, UnansweredWhenNew, [Next]_vars
  PROVE  [Service!Next]_MappedVars
<1>1. TypeOK'
  BY TypeStep DEF IInv
<1>2. ASSUME NEW r \in Requests, PublishQuery(r) PROVE UNCHANGED MappedVars
  <2>1. UNCHANGED <<cache, query, stage, answer, held, raced>>
    BY <1>2 DEF PublishQuery, handlerVars
  <2> QED
    BY <2>1, FateKept, StutterMaps
<1>3. CASE UNCHANGED vars
  <2>1. UNCHANGED <<cache, query, stage, answer, held, raced>>
    BY <1>3 DEF vars
  <2> QED
    BY <2>1, FateKept, StutterMaps
<1> QED
  BY <1>1, <1>2, <1>3, SaveMaps, ReadMaps, IgnoreMaps, ClaimMaps, ExpireMaps, CrashMaps,
     SettledMaps
     DEF Next, Resume, Quiet

(***************************************************************************)
(* For every id that no two handlers touched in an overlap, the two awaits *)
(* of handleOid, crashes, expiry and reused ids give no outcome that a     *)
(* service could not give that reads the record, decides and writes it     *)
(* back in one step.                                                       *)
(***************************************************************************)
THEOREM ServiceIsAtomic == Spec => ImplementsOidService
<1>1. Init => UnansweredWhenNew
  BY DEF Init, UnansweredWhenNew
<1>2. IInv /\ UnansweredWhenNew /\ [Next]_vars => UnansweredWhenNew'
  BY UnansweredStep DEF IInv
<1>3. IInv /\ UnansweredWhenNew /\ [Next]_vars =>
         [Service!Next]_<<cache,
                          [r \in Requests |-> IF query[r] = None THEN None ELSE query[r].id],
                          answer,
                          [h \in Handlers |-> FateOf(h)],
                          raced \cup {EmptyId}>>
  BY ServiceStep DEF MappedVars, AskedMap, FateMap, Disturbed
<1> QED
  BY <1>1, <1>2, <1>3, ServiceInit, IInvCorrect, PTL
     DEF Spec, ImplementsOidService, Service!Spec, Service!vars

=============================================================================
