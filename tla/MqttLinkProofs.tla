---------------------------- MODULE MqttLinkProofs ----------------------------
(***************************************************************************)
(* Proofs about MqttLink for any number of printers, calls, breaks and     *)
(* crashes: its type invariant, that a connected server is subscribed,     *)
(* that each report finds its handler, that a message is in one place, and *)
(* that the messages reach the broker in the order of their calls.         *)
(***************************************************************************)
EXTENDS MqttLink, FiniteSetTheorems, SequenceTheorems, TLAPS

-----------------------------------------------------------------------------
(***************************************************************************)
(* Types.                                                                  *)
(***************************************************************************)

\* The client holds back in its queue or on its wire, never in both.
Idle == (link = "down" => wire = <<>>) /\ (link # "down" => queue = <<>>)

Shape == TypeOK /\ Idle

LEMMA BoundsAreNat == MaxCalls \in Nat /\ MaxBreaks \in Nat /\ MaxCrashes \in Nat
  BY BoundsAssumption

LEMMA ShapeInit == Init => Shape
<1> SUFFICES ASSUME Init PROVE Shape
  OBVIOUS
<1>1. 0 \in 0..MaxCalls /\ 0 \in 0..MaxBreaks /\ 0 \in 0..MaxCrashes
  BY BoundsAreNat
<1>2. /\ <<>> \in Seq(Calls) /\ <<>> \in Seq(Packets) /\ <<>> \in Seq(Orders)
  OBVIOUS
<1> QED
  BY <1>1, <1>2 DEF Init, Shape, TypeOK, Idle

\* A renewed subscription goes out behind what was queued.
LEMMA ConnectWrites ==
  ASSUME TypeOK, Connect
  PROVE  /\ wire' \in Seq(Packets)
         /\ wire' = IF renews \/ waiting THEN Append(queue, SUBSCRIBE) ELSE queue
<1>1. queue \in Seq(Packets) /\ SUBSCRIBE \in Packets
  <2>1. Calls \subseteq Packets
    BY DEF Packets
  <2> QED
    BY <2>1, SeqMonotonic DEF TypeOK, Packets
<1>2. CASE renews \/ waiting
  <2>1. wire' = queue \o <<SUBSCRIBE>>
    BY <1>2 DEF Connect
  <2> QED
    BY <1>1, <1>2, <2>1, AppendIsConcat, AppendProperties
<1>3. CASE ~(renews \/ waiting)
  <2>1. wire' = queue \o <<>>
    BY <1>3 DEF Connect
  <2> QED
    BY <1>1, <1>3, <2>1, ConcatEmptySeq
<1> QED
  BY <1>2, <1>3

LEMMA PublishTypes ==
  ASSUME Shape, NEW c \in Calls, NEW message \in Orders, Publish(c, message)
  PROVE  Shape'
<1> USE DEF Shape, TypeOK
<1>1. c \in Packets /\ order' \in Seq(Orders)
  BY AppendProperties DEF Publish, Packets
<1>2. CASE connected
  <2>1. wire' = Append(wire, c) /\ queue' = queue
    BY <1>2 DEF Publish, publish
  <2> QED
    BY <1>1, <1>2, <2>1, AppendProperties
       DEF Publish, connected, Idle, clientVars, faultVars
<1>3. CASE ~connected
  <2>1. wire' = wire /\ queue' = Append(queue, c)
    BY <1>3 DEF Publish, publish
  <2> QED
    BY <1>1, <1>3, <2>1, AppendProperties
       DEF Publish, connected, Idle, clientVars, faultVars
<1> QED
  BY <1>2, <1>3

LEMMA RestartTypes == ASSUME Shape, Restart PROVE Shape'
<1>1. (Range(queue) \cup Range(wire)) \cap Calls \subseteq Calls
  OBVIOUS
<1>2. crashes' \in 0..MaxCrashes
  BY BoundsAreNat DEF Restart, Shape, TypeOK
<1>3. <<>> \in Seq(Calls) /\ <<>> \in Seq(Packets)
  OBVIOUS
<1> QED
  BY <1>1, <1>2, <1>3 DEF Restart, Shape, TypeOK, Idle

LEMMA ShapeStep == Shape /\ [Next]_vars => Shape'
<1> SUFFICES ASSUME Shape, [Next]_vars PROVE Shape'
  OBVIOUS
<1> USE DEF Shape, TypeOK, clientVars, faultVars, seenVars
<1>1. CASE onModuleInit
  <2>1. CASE connected
    <3>1. wire' = Append(wire, SUBSCRIBE) /\ SUBSCRIBE \in Packets
      BY <1>1, <2>1 DEF onModuleInit, Packets
    <3>2. wire' \in Seq(Packets)
      BY <3>1, AppendProperties
    <3> QED
      BY <1>1, <2>1, <3>2 DEF onModuleInit, connected, Idle
  <2>2. CASE ~connected
    BY <1>1, <2>2 DEF onModuleInit, connected, Idle
  <2> QED
    BY <2>1, <2>2
<1>2. ASSUME NEW c \in Calls, NEW m \in Macs, lockPrinter(c, m) PROVE Shape'
  <2>1. [retain |-> TRUE, to |-> m] \in Orders
    BY DEF Orders
  <2> QED
    BY <1>2, <2>1, PublishTypes DEF lockPrinter
<1>3. ASSUME NEW c \in Calls, NEW to \in Macs \cup {All}, publishOta(c, to) PROVE Shape'
  <2>1. [retain |-> FALSE, to |-> to] \in Orders
    BY DEF Orders
  <2> QED
    BY <1>3, <2>1, PublishTypes DEF publishOta
<1>4. CASE Connect
  <2>1. wire' \in Seq(Packets)
    BY <1>4, ConnectWrites
  <2>2. <<>> \in Seq(Calls)
    OBVIOUS
  <2> QED
    BY <1>4, <2>1, <2>2 DEF Connect, Idle
<1>5. CASE Break
  BY <1>5, BoundsAreNat DEF Break, Idle
<1>6. CASE Notice
  <2>1. <<>> \in Seq(Packets)
    OBVIOUS
  <2>2. cut' \subseteq Calls
    BY <1>6 DEF Notice
  <2> QED
    BY <1>6, <2>1, <2>2 DEF Notice, Idle
<1>7. CASE BrokerTakes
  <2>1. Tail(wire) \in Seq(Packets) /\ Head(wire) \in Packets
    BY <1>7, HeadTailProperties DEF BrokerTakes
  <2>2. CASE Head(wire) = SUBSCRIBE
    BY <1>7, <2>1, <2>2 DEF BrokerTakes, Idle
  <2>3. CASE Head(wire) # SUBSCRIBE
    <3>1. PICK c \in Calls : c = Head(wire)
      BY <2>1, <2>3 DEF Packets
    <3>2. c \in 0..MaxCalls
      BY BoundsAreNat DEF Calls
    <3>3. /\ taken' = taken \cup {c}
          /\ retained' = [m \in Macs |-> IF order[c] = [retain |-> TRUE, to |-> m]
                                         THEN c ELSE retained[m]]
          /\ wire' = Tail(wire) /\ link' = link /\ link = "up"
          /\ UNCHANGED <<clientVars, queue, subscribed, inbox, faultVars, order, cut>>
      BY <1>7, <2>3, <3>1 DEF BrokerTakes
    <3>4. retained' \in [Macs -> 0..MaxCalls]
      BY <3>2, <3>3
    <3> QED
      BY <2>1, <3>3, <3>4 DEF Idle
  <2> QED
    BY <2>2, <2>3
<1>8. ASSUME NEW report \in Reports, BrokerForwards(report) PROVE Shape'
  BY <1>8 DEF BrokerForwards, Idle
<1>9. CASE Restart
  BY <1>9, RestartTypes
<1>10. CASE Dispatch
  <2>1. CASE Restart
    BY <2>1, RestartTypes
  <2>2. CASE ~Restart
    BY <1>10, <2>2 DEF Dispatch, Idle
  <2> QED
    BY <2>1, <2>2
<1>11. CASE UNCHANGED vars
  BY <1>11 DEF vars, Idle
<1> QED
  BY <1>1, <1>2, <1>3, <1>4, <1>5, <1>6, <1>7, <1>8, <1>9, <1>10, <1>11 DEF Next

(***************************************************************************)
(* Queue, wire, broker and observations keep their types.                  *)
(***************************************************************************)
THEOREM TypeCorrect == Spec => []TypeOK
<1>1. Shape => TypeOK
  BY DEF Shape
<1> QED
  BY <1>1, ShapeInit, ShapeStep, PTL DEF Spec

-----------------------------------------------------------------------------
(***************************************************************************)
(* Listening.                                                              *)
(***************************************************************************)

\* What the server has asked for it gets with every connection.
WillListen == ready => renews \/ waiting

In(packet, packets) == \E i \in 1..Len(packets) : packets[i] = packet

LEMMA InRange ==
  ASSUME NEW S, NEW packets \in Seq(S), NEW packet
  PROVE  packet \in Range(packets) <=> In(packet, packets)
<1>1. DOMAIN packets = 1..Len(packets)
  BY LenProperties
<1> QED
  BY <1>1 DEF Range, In

LEMMA InAppend ==
  ASSUME NEW S, NEW packets \in Seq(S), NEW x \in S, NEW packet
  PROVE  In(packet, Append(packets, x)) <=> In(packet, packets) \/ packet = x
<1> DEFINE n == Len(packets)
<1>1. /\ Len(Append(packets, x)) = n + 1 /\ n \in Nat
      /\ \A i \in 1..n : Append(packets, x)[i] = packets[i]
      /\ Append(packets, x)[n + 1] = x
  BY AppendProperties, LenProperties
<1>2. n + 1 \in 1..(n + 1) /\ \A i \in 1..(n + 1) : i \in 1..n \/ i = n + 1
  BY <1>1
<1>3. 1..n \subseteq 1..(n + 1)
  BY <1>1
<1> HIDE DEF n
<1> QED
  BY <1>1, <1>2, <1>3 DEF In, n

LEMMA InTail ==
  ASSUME NEW S, NEW packets \in Seq(S), packets # <<>>, NEW packet
  PROVE  In(packet, packets) <=> In(packet, Tail(packets)) \/ packet = Head(packets)
<1> DEFINE n == Len(packets)
<1>1. /\ Len(Tail(packets)) = n - 1 /\ n \in Nat \ {0}
      /\ \A i \in 1..(n - 1) : Tail(packets)[i] = packets[i + 1]
      /\ Head(packets) = packets[1]
  BY HeadTailProperties, EmptySeq
<1>2. In(packet, packets) => In(packet, Tail(packets)) \/ packet = Head(packets)
  <2> SUFFICES ASSUME NEW i \in 1..n, packets[i] = packet
               PROVE  In(packet, Tail(packets)) \/ packet = Head(packets)
    BY DEF In
  <2>1. CASE i = 1
    BY <1>1, <2>1
  <2>2. CASE i # 1
    <3>1. i - 1 \in 1..(n - 1) /\ Tail(packets)[i - 1] = packets[i]
      BY <1>1, <2>2
    <3> QED
      BY <1>1, <3>1 DEF In
  <2> QED
    BY <2>1, <2>2
<1>3. In(packet, Tail(packets)) => In(packet, packets)
  <2> SUFFICES ASSUME NEW i \in 1..(n - 1), packets[i + 1] = packet
               PROVE  In(packet, packets)
    BY <1>1 DEF In
  <2>1. i + 1 \in 1..n
    BY <1>1
  <2> QED
    BY <2>1 DEF In
<1>4. packet = Head(packets) => In(packet, packets)
  BY <1>1 DEF In
<1> QED
  BY <1>2, <1>3, <1>4

LEMMA InNothing == \A packet : ~In(packet, <<>>)
  BY DEF In

\* The subscription is at the broker, on the wire, or to be sent.
Listening == ready /\ link = "up" => subscribed \/ In(SUBSCRIBE, wire)

LEMMA ListeningIs == TypeOK => (Listening <=> SubscribedWhileUp)
  BY InRange DEF TypeOK, Listening, SubscribedWhileUp

LEMMA ListenStep == Shape /\ WillListen /\ Listening /\ [Next]_vars => WillListen' /\ Listening'
<1> SUFFICES ASSUME Shape, WillListen, Listening, [Next]_vars
             PROVE  WillListen' /\ Listening'
  OBVIOUS
<1> USE DEF Shape, TypeOK, clientVars, faultVars, seenVars
<1>0. SUBSCRIBE \in Packets /\ Calls \subseteq Packets
  BY DEF Packets
<1>1. CASE onModuleInit
  <2>1. CASE connected
    <3>1. wire' = Append(wire, SUBSCRIBE) /\ renews'
      BY <1>1, <2>1 DEF onModuleInit
    <3>2. In(SUBSCRIBE, wire')
      BY <1>0, <3>1, InAppend
    <3> QED
      BY <3>1, <3>2 DEF WillListen, Listening
  <2>2. CASE ~connected
    BY <1>1, <2>2 DEF onModuleInit, connected, WillListen, Listening
  <2> QED
    BY <2>1, <2>2
<1>2. ASSUME NEW c \in Calls, NEW message, Publish(c, message) PROVE WillListen' /\ Listening'
  <2>1. UNCHANGED <<ready, renews, waiting, link, subscribed>>
    BY <1>2 DEF Publish
  <2>2. wire' = wire \/ wire' = Append(wire, c)
    BY ONLY <1>2 DEF Publish, publish
  <2>3. wire \in Seq(Packets) /\ c \in Packets
    BY <1>0
  <2>4. In(SUBSCRIBE, wire) => In(SUBSCRIBE, Append(wire, c))
    BY <2>3, InAppend
  <2>5. In(SUBSCRIBE, wire) => In(SUBSCRIBE, wire')
    BY ONLY <2>2, <2>4 DEF In
  <2> QED
    BY <2>1, <2>5 DEF WillListen, Listening
<1>3. CASE Connect
  <2>1. renews \/ waiting => In(SUBSCRIBE, wire')
    <3>1. wire' = IF renews \/ waiting THEN Append(queue, SUBSCRIBE) ELSE queue
      BY <1>3, ConnectWrites
    <3>2. queue \in Seq(Packets)
      BY <1>0, SeqMonotonic
    <3> QED
      BY <1>0, <3>1, <3>2, InAppend
  <2>2. ready' = ready /\ renews' = (renews \/ waiting)
    BY <1>3 DEF Connect
  <2> QED
    BY <2>1, <2>2 DEF WillListen, Listening
<1>4. CASE Break
  BY <1>4 DEF Break, WillListen, Listening
<1>5. CASE Notice
  BY <1>5 DEF Notice, WillListen, Listening
<1>6. CASE BrokerTakes
  <2>1. UNCHANGED <<ready, renews, waiting, link>> /\ wire # <<>> /\ wire' = Tail(wire)
    BY <1>6 DEF BrokerTakes
  <2>2. CASE Head(wire) = SUBSCRIBE
    <3>1. subscribed'
      BY <1>6, <2>2 DEF BrokerTakes
    <3> QED
      BY <2>1, <3>1 DEF WillListen, Listening
  <2>3. CASE Head(wire) # SUBSCRIBE
    <3>1. subscribed' = subscribed
      BY <1>6, <2>3 DEF BrokerTakes
    <3>2. In(SUBSCRIBE, wire) => In(SUBSCRIBE, wire')
      BY <2>1, <2>3, InTail
    <3> QED
      BY <2>1, <3>1, <3>2 DEF WillListen, Listening
  <2> QED
    BY <2>2, <2>3
<1>7. CASE \E report \in Reports : BrokerForwards(report)
  BY <1>7 DEF BrokerForwards, WillListen, Listening
<1>8. CASE Restart
  BY <1>8 DEF Restart, WillListen, Listening
<1>9. CASE Dispatch /\ ~Restart
  BY <1>9 DEF Dispatch, WillListen, Listening
<1>10. CASE UNCHANGED vars
  BY <1>10 DEF vars, WillListen, Listening
<1> QED
  BY <1>1, <1>2, <1>3, <1>4, <1>5, <1>6, <1>7, <1>8, <1>9, <1>10
     DEF Next, lockPrinter, publishOta

(***************************************************************************)
(* A connected server that has started is subscribed, or its subscription  *)
(* is on the way, whichever of start-up and connection came first.         *)
(***************************************************************************)
THEOREM NeverDeaf == Spec => []SubscribedWhileUp
<1>1. Init => Shape /\ WillListen /\ Listening
  BY ShapeInit DEF Init, WillListen, Listening
<1>2. Shape /\ WillListen /\ Listening /\ [Next]_vars => Shape' /\ WillListen' /\ Listening'
  BY ShapeStep, ListenStep
<1>3. Shape /\ Listening => SubscribedWhileUp
  BY ListeningIs DEF Shape
<1> QED
  BY <1>1, <1>2, <1>3, PTL DEF Spec

-----------------------------------------------------------------------------
(***************************************************************************)
(* Where the messages are.                                                 *)
(***************************************************************************)

\* Held back by the client or on its wire.
OnWay(c) == In(c, queue) \/ In(c, wire)

\* In the order of their calls, wherever a SUBSCRIBE stands between them.
Rising(packets) ==
    \A i, j \in 1..Len(packets) :
        i < j => \/ packets[i] = SUBSCRIBE
                 \/ packets[j] = SUBSCRIBE
                 \/ packets[i] < packets[j]

\* Only accepted messages are anywhere.
Known ==
    /\ taken \cup cut \subseteq 1..Len(order)
    /\ \A c \in Calls : OnWay(c) => c \in 1..Len(order)

\* What is on its way is newer than all the broker has.
InOrder ==
    /\ Rising(queue) /\ Rising(wire)
    /\ \A d \in taken, c \in Calls : OnWay(c) => d < c

\* An accepted message is somewhere; what was cut is nowhere else; what the
\* broker retains has reached it.
Kept   == \A c \in 1..Len(order) : c \in taken \cup cut \/ OnWay(c)
Lost   == \A c \in cut : c \notin taken /\ ~OnWay(c)
Latest == \A m \in Macs : retained[m] = 0 \/ retained[m] \in taken

Placed == Known /\ InOrder /\ Kept /\ Lost /\ Latest

LEMMA PacketsAre ==
  /\ Calls \subseteq Packets /\ Packets \subseteq Nat
  /\ SUBSCRIBE \in Packets /\ SUBSCRIBE \notin Calls /\ SUBSCRIBE = 0
  /\ \A p \in Packets : p # SUBSCRIBE => p \in Calls
  BY BoundsAreNat DEF Packets, Calls, SUBSCRIBE

LEMMA RisingAppend ==
  ASSUME NEW packets \in Seq(Packets), NEW x \in Packets, Rising(packets),
         x = SUBSCRIBE \/ \A d \in Calls : In(d, packets) => d < x
  PROVE  Rising(Append(packets, x))
<1> DEFINE n == Len(packets)
<1> DEFINE longer == Append(packets, x)
<1>1. /\ Len(longer) = n + 1 /\ n \in Nat
      /\ \A i \in 1..n : longer[i] = packets[i]
      /\ longer[n + 1] = x
  BY AppendProperties, LenProperties
<1>2. \A i \in 1..n : packets[i] \in Packets
  BY ElementOfSeq
<1> HIDE DEF longer
<1> SUFFICES ASSUME NEW i \in 1..(n + 1), NEW j \in 1..(n + 1), i < j
             PROVE  longer[i] = SUBSCRIBE \/ longer[j] = SUBSCRIBE \/ longer[i] < longer[j]
  BY <1>1 DEF Rising, longer
<1>3. i \in 1..n /\ longer[i] = packets[i]
  BY <1>1
<1>4. CASE j = n + 1
  <2>1. packets[i] # SUBSCRIBE => packets[i] \in Calls /\ In(packets[i], packets)
    BY <1>2, <1>3, PacketsAre DEF In
  <2> QED
    BY <1>1, <1>3, <1>4, <2>1
<1>5. CASE j # n + 1
  <2>1. j \in 1..n /\ longer[j] = packets[j]
    BY <1>1, <1>5
  <2> QED
    BY <1>3, <2>1 DEF Rising
<1> QED
  BY <1>4, <1>5

\* The rest of the wire is in order, and behind its head.
LEMMA RisingTail ==
  ASSUME NEW packets \in Seq(Packets), packets # <<>>, Rising(packets)
  PROVE  /\ Rising(Tail(packets))
         /\ Head(packets) # SUBSCRIBE =>
              \A d \in Calls : In(d, Tail(packets)) => Head(packets) < d
<1> DEFINE n == Len(packets)
<1> DEFINE rest == Tail(packets)
<1>1. /\ Len(rest) = n - 1 /\ n \in Nat \ {0}
      /\ \A i \in 1..(n - 1) : rest[i] = packets[i + 1]
      /\ Head(packets) = packets[1]
  BY HeadTailProperties, EmptySeq
<1> HIDE DEF rest
<1>2. Rising(rest)
  <2> SUFFICES ASSUME NEW i \in 1..(n - 1), NEW j \in 1..(n - 1), i < j
               PROVE  rest[i] = SUBSCRIBE \/ rest[j] = SUBSCRIBE \/ rest[i] < rest[j]
    BY <1>1 DEF Rising
  <2>1. i + 1 \in 1..n /\ j + 1 \in 1..n /\ i + 1 < j + 1
    BY <1>1
  <2> QED
    BY <1>1, <2>1 DEF Rising
<1>3. ASSUME Head(packets) # SUBSCRIBE, NEW d \in Calls, In(d, rest) PROVE Head(packets) < d
  <2>1. PICK i \in 1..(n - 1) : rest[i] = d
    BY <1>1, <1>3 DEF In
  <2>2. 1 \in 1..n /\ i + 1 \in 1..n /\ 1 < i + 1 /\ packets[i + 1] = d
    BY <1>1, <2>1
  <2>3. d # SUBSCRIBE
    BY PacketsAre
  <2> QED
    BY <1>1, <1>3, <2>2, <2>3 DEF Rising
<1> QED
  BY <1>2, <1>3 DEF rest

LEMMA PlacedInit == Init => Placed
<1> SUFFICES ASSUME Init PROVE Placed
  OBVIOUS
<1>1. \A c : ~OnWay(c)
  BY InNothing DEF Init, OnWay
<1>2. Rising(<<>>)
  BY DEF Rising
<1>3. Len(order) = 0
  BY DEF Init
<1> QED
  BY <1>1, <1>2, <1>3 DEF Init, Placed, Known, InOrder, Kept, Lost, Latest

LEMMA OnWayIsCall ==
  ASSUME TypeOK, NEW c, OnWay(c), c # SUBSCRIBE
  PROVE  c \in Calls
<1>1. \A i \in 1..Len(queue) : queue[i] \in Calls
  BY ElementOfSeq DEF TypeOK
<1>2. \A i \in 1..Len(wire) : wire[i] \in Packets
  BY ElementOfSeq DEF TypeOK
<1> QED
  BY <1>1, <1>2, PacketsAre DEF OnWay, In

\* Packets move from queue to wire, or not at all.
LEMMA PlacedStays ==
  ASSUME Placed, TypeOK, UNCHANGED <<order, taken, cut, retained>>,
         Rising(queue)', Rising(wire)',
         \A c \in Calls : OnWay(c)' <=> OnWay(c)
  PROVE  Placed'
<1>1. Known'
  BY DEF Placed, Known
<1>2. InOrder'
  BY DEF Placed, InOrder
<1>3. Kept'
  <2>1. ASSUME NEW c \in 1..Len(order) PROVE c \in taken \cup cut \/ OnWay(c)'
    <3>1. c \in taken \cup cut \/ OnWay(c)
      BY DEF Placed, Kept
    <3>2. c # SUBSCRIBE
      BY DEF SUBSCRIBE
    <3> QED
      BY <3>1, <3>2, OnWayIsCall
  <2> QED
    BY <2>1 DEF Kept
<1>4. Lost'
  BY DEF Placed, Lost, TypeOK
<1>5. Latest'
  BY DEF Placed, Latest
<1> QED
  BY <1>1, <1>2, <1>3, <1>4, <1>5 DEF Placed

LEMMA PlacedPublish ==
  ASSUME Placed, Shape, NEW c \in Calls, NEW message \in Orders, Publish(c, message)
  PROVE  Placed'
<1>1. /\ c = Len(order) + 1 /\ Len(order) \in Nat /\ Len(order)' = c
      /\ UNCHANGED <<taken, cut, retained>>
  <2>1. order \in Seq(Orders) /\ order' = Append(order, message)
    BY DEF Publish, Shape, TypeOK
  <2> QED
    BY <2>1, AppendProperties, LenProperties DEF Publish
<1>2. queue \in Seq(Packets) /\ wire \in Seq(Packets) /\ c \in Packets
  BY PacketsAre, SeqMonotonic DEF Shape, TypeOK
<1>3. \A d \in Calls : OnWay(d) => d < c
  BY <1>1 DEF Placed, Known
<1>4. \/ wire' = Append(wire, c) /\ queue' = queue
      \/ queue' = Append(queue, c) /\ wire' = wire
  BY DEF Publish, publish
<1>5. Rising(queue)' /\ Rising(wire)'
  <2>1. Rising(queue) /\ Rising(wire)
    BY DEF Placed, InOrder
  <2>2. Rising(Append(queue, c)) /\ Rising(Append(wire, c))
    BY <1>2, <1>3, <2>1, RisingAppend DEF OnWay
  <2> QED
    BY <1>4, <2>1, <2>2 DEF Rising
<1>6. \A d : OnWay(d)' <=> OnWay(d) \/ d = c
  <2>1. \A d : /\ In(d, Append(queue, c)) <=> In(d, queue) \/ d = c
               /\ In(d, Append(wire, c)) <=> In(d, wire) \/ d = c
    BY <1>2, InAppend
  <2>2. \A d : OnWay(d)' <=> In(d, queue') \/ In(d, wire')
    BY DEF OnWay, In
  <2> QED
    BY <1>4, <2>1, <2>2 DEF OnWay
<1> HIDE DEF OnWay, Rising
<1>7. Known'
  BY <1>1, <1>6 DEF Placed, Known
<1>8. InOrder'
  <2>1. \A d \in taken : d < c
    BY <1>1 DEF Placed, Known
  <2> QED
    BY <1>1, <1>5, <1>6, <2>1 DEF Placed, InOrder
<1>9. Kept'
  BY <1>1, <1>6 DEF Placed, Kept
<1>10. Lost'
  <2>1. c \notin cut
    BY <1>1 DEF Placed, Known
  <2> QED
    BY <1>1, <1>6, <2>1 DEF Placed, Lost
<1>11. Latest'
  BY <1>1 DEF Placed, Latest
<1> QED
  BY <1>7, <1>8, <1>9, <1>10, <1>11 DEF Placed

\* What a break or a crash catches on its way is cut, all of it.
LEMMA PlacedCut ==
  ASSUME Placed, Shape, UNCHANGED <<order, taken, retained>>,
         \A c : ~OnWay(c)', Rising(queue)', Rising(wire)',
         \A c : c \in cut' <=> c \in cut \/ (c \in Calls /\ OnWay(c))
  PROVE  Placed'
<1>1. Known'
  BY DEF Placed, Known
<1>2. InOrder'
  BY DEF Placed, InOrder
<1>3. Kept'
  <2>1. ASSUME NEW c \in 1..Len(order) PROVE c \in taken \cup cut'
    <3>1. c \in taken \cup cut \/ OnWay(c)
      BY DEF Placed, Kept
    <3>2. c # SUBSCRIBE
      BY DEF SUBSCRIBE
    <3> QED
      BY <3>1, <3>2, OnWayIsCall DEF Shape
  <2> QED
    BY <2>1 DEF Kept
<1>4. Lost'
  <2>1. ASSUME NEW c \in Calls, OnWay(c) PROVE c \notin taken
    <3>1. c \in taken => c < c
      BY <2>1 DEF Placed, InOrder
    <3> QED
      BY <3>1, PacketsAre
  <2> QED
    BY <2>1 DEF Placed, Lost
<1>5. Latest'
  BY DEF Placed, Latest
<1> QED
  BY <1>1, <1>2, <1>3, <1>4, <1>5 DEF Placed

LEMMA PlacedTakes ==
  ASSUME Placed, Shape, BrokerTakes
  PROVE  Placed'
<1> DEFINE h == Head(wire)
<1>1. /\ wire \in Seq(Packets) /\ wire # <<>> /\ wire' = Tail(wire)
      /\ queue = <<>> /\ queue' = queue /\ order' = order /\ cut' = cut
      /\ h \in Packets
  <2>1. /\ wire \in Seq(Packets) /\ wire # <<>> /\ wire' = Tail(wire)
        /\ queue' = queue /\ order' = order /\ cut' = cut /\ link = "up"
    BY DEF BrokerTakes, Shape, TypeOK
  <2> QED
    BY <2>1, HeadTailProperties DEF Shape, Idle
<1>2. \A d : In(d, wire) <=> In(d, Tail(wire)) \/ d = h
  BY <1>1, InTail
<1>3. \A d : (OnWay(d) <=> In(d, wire)) /\ (OnWay(d)' <=> In(d, Tail(wire)))
  BY <1>1, InNothing DEF OnWay, In
<1>4. /\ Rising(queue)' /\ Rising(wire)'
      /\ h # SUBSCRIBE => \A d \in Calls : In(d, Tail(wire)) => h < d
  <2>1. Rising(wire) /\ Rising(queue)
    BY DEF Placed, InOrder
  <2>2. /\ Rising(Tail(wire))
        /\ h # SUBSCRIBE => \A d \in Calls : In(d, Tail(wire)) => h < d
    BY <1>1, <2>1, RisingTail
  <2> QED
    BY <1>1, <2>1, <2>2 DEF Rising
<1>5. CASE h = SUBSCRIBE
  <2>1. UNCHANGED <<taken, retained>>
    BY <1>5 DEF BrokerTakes
  <2>2. \A d \in Calls : OnWay(d)' <=> OnWay(d)
    BY <1>2, <1>3, <1>5, PacketsAre
  <2> QED
    BY <1>1, <1>4, <2>1, <2>2, PlacedStays DEF Shape
<1>6. CASE h # SUBSCRIBE
  <2>1. PICK c \in Calls : c = h
    BY <1>1, <1>6, PacketsAre
  <2>2. taken' = taken \cup {c} /\ \A m \in Macs : retained'[m] \in {c, retained[m]}
    BY <1>6, <2>1 DEF BrokerTakes
  <2>3. \A d : OnWay(d) <=> OnWay(d)' \/ d = c
    BY <1>2, <1>3, <2>1
  <2>4. \A d \in Calls : OnWay(d)' => c < d
    BY <1>3, <1>4, <1>6, <2>1
  <2> HIDE DEF h
  <2>5. c \in 1..Len(order) /\ OnWay(c)
    BY <2>3 DEF Placed, Known
  <2>6. Known'
    BY <1>1, <2>2, <2>3, <2>5 DEF Placed, Known
  <2>7. InOrder'
    BY <1>4, <2>2, <2>3, <2>4 DEF Placed, InOrder
  <2>8. Kept'
    BY <1>1, <2>2, <2>3 DEF Placed, Kept
  <2>9. Lost'
    BY <1>1, <2>2, <2>3 DEF Placed, Lost
  <2>10. Latest'
    BY <2>2 DEF Placed, Latest
  <2> QED
    BY <2>6, <2>7, <2>8, <2>9, <2>10 DEF Placed
<1> QED
  BY <1>5, <1>6

\* Neither end of the connection keeps what was on its way.
LEMMA PlacedRestart == ASSUME Placed, Shape, Restart PROVE Placed'
<1>1. UNCHANGED <<order, taken, retained>> /\ queue' = <<>> /\ wire' = <<>>
  BY DEF Restart
<1>2. \A c : ~OnWay(c)'
  BY <1>1, InNothing DEF OnWay, In
<1>3. Rising(queue)' /\ Rising(wire)'
  BY <1>1 DEF Rising
<1>4. \A c : c \in cut' <=> c \in cut \/ (c \in Calls /\ OnWay(c))
  <2>1. \A c : /\ c \in Range(queue) <=> In(c, queue)
               /\ c \in Range(wire) <=> In(c, wire)
    BY InRange DEF Shape, TypeOK
  <2> QED
    BY <2>1 DEF Restart, OnWay
<1> QED
  BY <1>1, <1>2, <1>3, <1>4, PlacedCut

LEMMA PlacedNotice == ASSUME Placed, Shape, Notice PROVE Placed'
<1>1. /\ UNCHANGED <<order, taken, retained, queue>>
      /\ queue = <<>> /\ wire' = <<>>
  BY DEF Notice, Shape, Idle
<1>2. \A c : ~OnWay(c)'
  BY <1>1, InNothing DEF OnWay, In
<1>3. Rising(queue)' /\ Rising(wire)'
  BY <1>1 DEF Rising
<1>4. \A c : c \in cut' <=> c \in cut \/ (c \in Calls /\ OnWay(c))
  <2>1. \A c : c \in Range(wire) <=> In(c, wire)
    BY InRange DEF Shape, TypeOK
  <2>2. \A c : OnWay(c) <=> In(c, wire)
    BY <1>1, InNothing DEF OnWay
  <2> QED
    BY <2>1, <2>2 DEF Notice
<1> QED
  BY <1>1, <1>2, <1>3, <1>4, PlacedCut

\* The queue becomes the wire, with a SUBSCRIBE behind it or without.
LEMMA PlacedConnect == ASSUME Placed, Shape, Connect PROVE Placed'
<1>1. /\ UNCHANGED <<order, taken, cut, retained>>
      /\ wire = <<>> /\ queue' = <<>>
      /\ queue \in Seq(Packets)
  <2>1. UNCHANGED <<order, taken, cut, retained>> /\ wire = <<>> /\ queue' = <<>>
    BY DEF Connect, Shape, Idle, seenVars
  <2> QED
    BY <2>1, PacketsAre, SeqMonotonic DEF Shape, TypeOK
<1>2. wire' = Append(queue, SUBSCRIBE) \/ wire' = queue
  BY ConnectWrites DEF Shape
<1>3. Rising(queue) /\ Rising(Append(queue, SUBSCRIBE))
  BY <1>1, PacketsAre, RisingAppend DEF Placed, InOrder
<1>4. Rising(queue)' /\ Rising(wire)'
  BY <1>1, <1>2, <1>3 DEF Rising
<1>5. \A c \in Calls : OnWay(c)' <=> OnWay(c)
  <2>1. \A c \in Calls : In(c, Append(queue, SUBSCRIBE)) <=> In(c, queue)
    BY <1>1, PacketsAre, InAppend
  <2>2. \A c : OnWay(c)' <=> In(c, queue') \/ In(c, wire')
    BY DEF OnWay, In
  <2> QED
    BY <1>1, <1>2, <2>1, <2>2, InNothing DEF OnWay
<1> QED
  BY <1>1, <1>4, <1>5, PlacedStays DEF Shape

LEMMA PlacedStep == Shape /\ Placed /\ [Next]_vars => Placed'
<1> SUFFICES ASSUME Shape, Placed, [Next]_vars PROVE Placed'
  OBVIOUS
<1>0. ASSUME UNCHANGED <<queue, wire, order, taken, cut, retained>> PROVE Placed'
  BY <1>0 DEF Placed, Known, InOrder, Kept, Lost, Latest, OnWay, In, Rising
<1>1. CASE onModuleInit
  <2>1. CASE connected
    <3>1. /\ UNCHANGED <<queue, order, taken, cut, retained>>
          /\ wire' = Append(wire, SUBSCRIBE) /\ wire \in Seq(Packets)
      BY <1>1, <2>1 DEF onModuleInit, seenVars, Shape, TypeOK
    <3>2. Rising(queue) /\ Rising(Append(wire, SUBSCRIBE))
      BY <3>1, PacketsAre, RisingAppend DEF Placed, InOrder
    <3>3. Rising(queue)' /\ Rising(wire)'
      BY <3>1, <3>2 DEF Rising
    <3>4. \A c \in Calls : OnWay(c)' <=> OnWay(c)
      <4>1. \A c \in Calls : In(c, Append(wire, SUBSCRIBE)) <=> In(c, wire)
        BY <3>1, PacketsAre, InAppend
      <4>2. \A c : OnWay(c)' <=> In(c, queue') \/ In(c, wire')
        BY DEF OnWay, In
      <4> QED
        BY <3>1, <4>1, <4>2 DEF OnWay
    <3> QED
      BY <3>1, <3>3, <3>4, PlacedStays DEF Shape
  <2>2. CASE ~connected
    BY <1>0, <1>1, <2>2 DEF onModuleInit, seenVars
  <2> QED
    BY <2>1, <2>2
<1>2. ASSUME NEW c \in Calls, NEW m \in Macs, lockPrinter(c, m) PROVE Placed'
  <2>1. [retain |-> TRUE, to |-> m] \in Orders
    BY DEF Orders
  <2> QED
    BY <1>2, <2>1, PlacedPublish DEF lockPrinter
<1>3. ASSUME NEW c \in Calls, NEW to \in Macs \cup {All}, publishOta(c, to) PROVE Placed'
  <2>1. [retain |-> FALSE, to |-> to] \in Orders
    BY DEF Orders
  <2> QED
    BY <1>3, <2>1, PlacedPublish DEF publishOta
<1>4. CASE Connect
  BY <1>4, PlacedConnect
<1>5. CASE Break
  BY <1>0, <1>5 DEF Break, seenVars
<1>6. CASE Notice
  BY <1>6, PlacedNotice
<1>7. CASE BrokerTakes
  BY <1>7, PlacedTakes
<1>8. CASE \E report \in Reports : BrokerForwards(report)
  BY <1>0, <1>8 DEF BrokerForwards, seenVars
<1>9. CASE Restart
  BY <1>9, PlacedRestart
<1>10. CASE Dispatch /\ ~Restart
  BY <1>0, <1>10 DEF Dispatch, seenVars
<1>11. CASE UNCHANGED vars
  BY <1>0, <1>11 DEF vars
<1> QED
  BY <1>1, <1>2, <1>3, <1>4, <1>5, <1>6, <1>7, <1>8, <1>9, <1>10, <1>11 DEF Next

LEMMA PlacedAlways == Spec => [](Shape /\ Placed)
<1>1. Init => Shape /\ Placed
  BY ShapeInit, PlacedInit
<1>2. Shape /\ Placed /\ [Next]_vars => Shape' /\ Placed'
  BY ShapeStep, PlacedStep
<1> QED
  BY <1>1, <1>2, PTL DEF Spec

\* A packet that is not a SUBSCRIBE is in an ordered sequence once, if at all.
LEMMA TimesRising ==
  ASSUME NEW packets \in Seq(Packets), Rising(packets), NEW c \in Calls
  PROVE  Times(c, packets) = IF In(c, packets) THEN 1 ELSE 0
<1> DEFINE Places == {i \in DOMAIN packets : packets[i] = c}
<1>1. DOMAIN packets = 1..Len(packets)
  BY LenProperties
<1>2. CASE ~In(c, packets)
  <2>1. Places = {}
    BY <1>1, <1>2 DEF In
  <2> QED
    BY <1>2, <2>1, FS_EmptySet DEF Times
<1>3. CASE In(c, packets)
  <2>1. PICK i \in 1..Len(packets) : packets[i] = c
    BY <1>3 DEF In
  <2>2. \A j \in 1..Len(packets) : packets[j] = c => ~(i < j) /\ ~(j < i)
    BY <2>1, PacketsAre DEF Rising
  <2>3. \A j \in 1..Len(packets) : packets[j] = c => j = i
    <3>1. Len(packets) \in Nat
      BY LenProperties
    <3> QED
      BY <2>2, <3>1
  <2>4. Places = {i}
    BY <1>1, <2>1, <2>3
  <2> QED
    BY <1>3, <2>4, FS_Singleton DEF Times
<1> QED
  BY <1>2, <1>3

(***************************************************************************)
(* The message of an accepted call is held back, on the wire, at the       *)
(* broker or caught by a break or a crash: in one of these, and there once. *)
(***************************************************************************)
THEOREM NothingSentTwice == Spec => []EachInOnePlace
<1>1. Shape /\ Placed => EachInOnePlace
  <2> SUFFICES ASSUME Shape, Placed, NEW c \in DOMAIN order
               PROVE  Times(c, queue) + Times(c, wire)
                        + Cardinality({c} \cap taken) + Cardinality({c} \cap cut) = 1
    BY DEF EachInOnePlace
  <2>1. c \in 1..Len(order) /\ c # SUBSCRIBE
    BY LenProperties DEF Shape, TypeOK, SUBSCRIBE
  <2>2. c \in taken \cup cut \/ OnWay(c)
    BY <2>1 DEF Placed, Kept
  <2>3. c \in Calls
    BY <2>1, <2>2, OnWayIsCall DEF Shape, TypeOK
  <2>4. /\ Times(c, queue) = IF In(c, queue) THEN 1 ELSE 0
        /\ Times(c, wire) = IF In(c, wire) THEN 1 ELSE 0
    <3>1. queue \in Seq(Packets) /\ wire \in Seq(Packets)
      BY PacketsAre, SeqMonotonic DEF Shape, TypeOK
    <3> QED
      BY <2>3, <3>1, TimesRising DEF Placed, InOrder
  <2>5. \A S : Cardinality({c} \cap S) = IF c \in S THEN 1 ELSE 0
    <3> SUFFICES ASSUME NEW S PROVE Cardinality({c} \cap S) = IF c \in S THEN 1 ELSE 0
      OBVIOUS
    <3>1. CASE c \in S
      <4>1. {c} \cap S = {c}
        BY <3>1
      <4> QED
        BY <3>1, <4>1, FS_Singleton
    <3>2. CASE c \notin S
      <4>1. {c} \cap S = {}
        BY <3>2
      <4> QED
        BY <3>2, <4>1, FS_EmptySet
    <3> QED
      BY <3>1, <3>2
  <2>6. ~(In(c, queue) /\ In(c, wire))
    <3>1. queue = <<>> \/ wire = <<>>
      BY DEF Shape, Idle
    <3> QED
      BY <3>1, InNothing
  <2>7. OnWay(c) => c \notin taken
    <3>1. OnWay(c) /\ c \in taken => c < c
      BY <2>3 DEF Placed, InOrder
    <3>2. c \in Nat
      BY <2>3, PacketsAre
    <3>3. ~(c < c)
      BY ONLY <3>2
    <3> QED
      BY <3>1, <3>3
  <2>8. c \in cut => c \notin taken /\ ~OnWay(c)
    BY DEF Placed, Lost
  <2> QED
    BY <2>2, <2>4, <2>5, <2>6, <2>7, <2>8 DEF OnWay
<1> QED
  BY <1>1, PlacedAlways, PTL

(***************************************************************************)
(* Messages reach the broker in the order of the calls, and what a printer *)
(* obeys is never replaced by an older decision.                           *)
(***************************************************************************)
THEOREM NoOlderCommandWins == Spec => CommandsKeepOrder
<1> DEFINE Keeps == /\ \A c \in taken' \ taken : \A d \in taken : d < c
                    /\ \A m \in Macs : retained[m] <= retained'[m]
<1>1. Shape /\ Placed /\ [Next]_vars => [Keeps]_vars
  <2> SUFFICES ASSUME Shape, Placed, Next PROVE Keeps
    OBVIOUS
  <2>1. \A m \in Macs : retained[m] \in Nat
    BY BoundsAreNat DEF Shape, TypeOK
  <2>2. CASE BrokerTakes
    <3>1. CASE Head(wire) = SUBSCRIBE
      BY <2>1, <2>2, <3>1 DEF BrokerTakes
    <3>2. CASE Head(wire) # SUBSCRIBE
      <4>1. wire \in Seq(Packets) /\ wire # <<>> /\ Head(wire) \in Packets
        BY <2>2, HeadTailProperties DEF BrokerTakes, Shape, TypeOK
      <4>2. PICK c \in Calls : c = Head(wire)
        BY <3>2, <4>1, PacketsAre
      <4>3. taken' = taken \cup {c} /\ \A m \in Macs : retained'[m] \in {c, retained[m]}
        BY <2>2, <3>2, <4>2 DEF BrokerTakes
      <4>4. \A d \in taken : d < c
        <5>1. OnWay(c)
          BY <4>1, <4>2, InTail DEF OnWay
        <5> QED
          BY <5>1 DEF Placed, InOrder
      <4>5. \A m \in Macs : retained[m] = 0 \/ retained[m] < c
        BY <4>4 DEF Placed, Latest
      <4>6. c \in Nat
        BY PacketsAre
      <4> QED
        BY <2>1, <4>3, <4>4, <4>5, <4>6
    <3> QED
      BY <3>1, <3>2
  <2>3. CASE ~BrokerTakes
    <3>1. UNCHANGED <<taken, retained>>
      BY <2>3 DEF Next, onModuleInit, lockPrinter, publishOta, Publish, Connect, Break,
                  Notice, BrokerForwards, Dispatch, Restart, seenVars
    <3> QED
      BY <2>1, <3>1
  <2> QED
    BY <2>2, <2>3
<1> QED
  BY <1>1, PlacedAlways, PTL DEF Spec, CommandsKeepOrder

-----------------------------------------------------------------------------
(***************************************************************************)
(* Reports and their handlers.                                             *)
(***************************************************************************)

\* With three segments on both sides and no #, matchTopic compares segments.
LEMMA MatchesSegments ==
  ASSUME NEW filter, NEW topic, Len(filter) = 3, Len(topic) = 3,
         \A i \in 1..3 : filter[i] # "#"
  PROVE  matchTopic(filter, topic) <=>
           \A i \in 1..3 : filter[i] = "+" \/ filter[i] = topic[i]
<1> DEFINE Fits(i) == filter[i] = "+" \/ filter[i] = topic[i]
<1> DEFINE Body(f, i) ==
      IF i > Len(filter) THEN Len(filter) = Len(topic)
      ELSE IF filter[i] = "#" THEN Len(topic) >= Len(filter) - 1
      ELSE /\ filter[i] = "+" \/ (i <= Len(topic) /\ filter[i] = topic[i])
           /\ f[i + 1]
<1>1. \E f : f = [i \in 1..(Len(filter) + 1) |-> Body(f, i)]
  <2> DEFINE g == [i \in 1..4 |-> \A j \in i..3 : Fits(j)]
  <2>1. ASSUME NEW i \in 1..4 PROVE g[i] = Body(g, i)
    <3>1. CASE i = 4
      <4>1. 4 \in 1..4 /\ 4 > Len(filter) /\ Len(filter) = Len(topic) /\ \A j \in 4..3 : FALSE
        OBVIOUS
      <4>2. Body(g, 4) = TRUE
        BY <4>1, Zenon
      <4>3. g[4] = TRUE
        BY <4>1, Zenon
      <4> QED
        BY <3>1, <4>2, <4>3
    <3>2. CASE i # 4
      <4>1. i \in 1..3 /\ i + 1 \in 1..4
        BY <3>2
      <4>2. (\A j \in i..3 : Fits(j)) <=> Fits(i) /\ \A j \in (i + 1)..3 : Fits(j)
        <5>1. \A j \in i..3 : j = i \/ j \in (i + 1)..3
          BY <4>1
        <5>2. i \in i..3 /\ \A j \in (i + 1)..3 : j \in i..3
          BY <4>1
        <5> HIDE DEF Fits
        <5> QED
          BY <5>1, <5>2
      <4>3. g[i + 1] = \A j \in (i + 1)..3 : Fits(j)
        BY <4>1, Zenon
      <4>4. g[i] = \A j \in i..3 : Fits(j)
        BY Zenon
      <4>5. ~(i > Len(filter)) /\ i <= Len(topic) /\ filter[i] # "#"
        BY <4>1
      <4> HIDE DEF g
      <4>6. Body(g, i) = (Fits(i) /\ g[i + 1])
        BY <4>5, Zenon
      <4> HIDE DEF Fits, Body
      <4> QED
        BY <4>2, <4>3, <4>4, <4>6, Zenon
    <3> QED
      BY <3>1, <3>2
  <2>2. g = [i \in 1..4 |-> Body(g, i)]
    BY <2>1
  <2>3. Len(filter) + 1 = 4
    OBVIOUS
  <2> QED
    BY <2>2, <2>3
<1> DEFINE from[i \in 1..(Len(filter) + 1)] == Body(from, i)
<1>2. from = [i \in 1..(Len(filter) + 1) |-> Body(from, i)]
  BY ONLY <1>1, Zenon
<1>3. matchTopic(filter, topic) = from[1]
  BY DEF matchTopic
<1> HIDE DEF from
<1>4. ASSUME NEW i \in 1..4 PROVE from[i] = Body(from, i)
  <2>1. Len(filter) + 1 = 4
    OBVIOUS
  <2> QED
    BY <1>2, <2>1, Zenon
<1>5. ASSUME NEW i \in 1..3 PROVE from[i] = (Fits(i) /\ from[i + 1])
  <2>1. i \in 1..4 /\ ~(i > Len(filter)) /\ i <= Len(topic) /\ filter[i] # "#"
    OBVIOUS
  <2> QED
    BY <1>4, <2>1, Zenon
<1>6. from[4] = TRUE
  <2>1. 4 \in 1..4 /\ 4 > Len(filter) /\ Len(filter) = Len(topic)
    OBVIOUS
  <2> QED
    BY <1>4, <2>1, Zenon
<1>7. /\ 1 + 1 = 2 /\ 2 + 1 = 3 /\ 3 + 1 = 4
      /\ {1, 2, 3} = 1..3 /\ 1 \in 1..3 /\ 2 \in 1..3 /\ 3 \in 1..3
  OBVIOUS
<1>8. from[1] = (Fits(1) /\ Fits(2) /\ Fits(3))
  <2>1. from[1] = (Fits(1) /\ from[2])
    <3>1. from[1] = (Fits(1) /\ from[1 + 1])
      BY <1>5, <1>7
    <3> QED
      BY <1>7, <3>1
  <2>2. from[2] = (Fits(2) /\ from[3])
    <3>1. from[2] = (Fits(2) /\ from[2 + 1])
      BY <1>5, <1>7
    <3> QED
      BY <1>7, <3>1
  <2>3. from[3] = (Fits(3) /\ from[4])
    <3>1. from[3] = (Fits(3) /\ from[3 + 1])
      BY <1>5, <1>7
    <3> QED
      BY <1>7, <3>1
  <2> HIDE DEF Fits
  <2> QED
    BY <1>6, <2>1, <2>2, <2>3, Zenon
<1> QED
  BY <1>3, <1>7, <1>8, Zenon

LEMMA TopicIs ==
  ASSUME NEW kind \in Kinds, NEW m
  PROVE  /\ Len(Topic(kind, m)) = 3
         /\ Topic(kind, m)[1] = "printer"
         /\ kind = "oid" => Topic(kind, m)[2] = "oid" /\ Topic(kind, m)[3] = m
         /\ kind # "oid" => Topic(kind, m)[2] = m /\ Topic(kind, m)[3] = kind
<1>1. Topic(kind, m) \in Seq({"printer", "oid", kind, m})
  <2>1. \A i \in 1..3 : Topic(kind, m)[i] \in {"printer", "oid", kind, m}
    BY DEF Topic, Pattern
  <2> QED
    BY <2>1, SeqDef DEF Topic
<1>2. DOMAIN Topic(kind, m) = 1..3
  BY DEF Topic
<1>3. Len(Topic(kind, m)) = 3
  <2>1. PICK n \in Nat : n = Len(Topic(kind, m)) /\ 1..n = 1..3
    BY <1>1, <1>2, LenProperties
  <2>2. 3 \in 1..n /\ ~(4 \in 1..n)
    BY <2>1
  <2>3. n = 3
    BY ONLY <2>2, n \in Nat
  <2> QED
    BY <2>1, <2>3
<1> QED
  BY <1>3 DEF Topic, Pattern, Kinds

LEMMA MatchesOwnKind ==
  ASSUME NEW kind \in Kinds, NEW m \in Macs, NEW by \in Kinds
  PROVE  matchTopic(Pattern(by), Topic(kind, m)) <=> by = kind
<1>1. Len(Pattern(by)) = 3 /\ \A i \in 1..3 : Pattern(by)[i] # "#"
  BY DEF Pattern, Kinds
<1>2. m \notin Kinds /\ m # "printer"
  BY MacAssumption
<1>3. matchTopic(Pattern(by), Topic(kind, m)) <=>
        \A i \in 1..3 : Pattern(by)[i] = "+" \/ Pattern(by)[i] = Topic(kind, m)[i]
  BY <1>1, TopicIs, MatchesSegments
<1>4. (\A i \in 1..3 : Pattern(by)[i] = "+" \/ Pattern(by)[i] = Topic(kind, m)[i])
        <=> by = kind
  BY <1>2, TopicIs DEF Pattern, Kinds
<1> QED
  BY <1>3, <1>4

LEMMA HandlersAre ==
  ASSUME NEW kind \in Kinds, NEW m \in Macs
  PROVE  /\ HandlersOf(Topic(kind, m)) = {kind}
         /\ MacOf(kind, Topic(kind, m)) = m
<1> DEFINE hits == {i \in 1..Len(topicHandlers) :
                      matchTopic(Pattern(topicHandlers[i]), Topic(kind, m))}
<1>1. /\ Len(topicHandlers) = 6
      /\ \A i \in 1..6 : topicHandlers[i] \in Kinds
      /\ \A i, j \in 1..6 : topicHandlers[i] = topicHandlers[j] => i = j
      /\ \E i \in 1..6 : topicHandlers[i] = kind
  BY DEF topicHandlers, Kinds
<1>2. PICK n \in 1..6 : topicHandlers[n] = kind
  BY <1>1
<1>3. hits = {n}
  BY <1>1, <1>2, MatchesOwnKind
<1>4. HandlersOf(Topic(kind, m)) = {topicHandlers[i] : i \in {j \in hits : \A k \in hits : j <= k}}
  BY DEF HandlersOf
<1>5. {j \in hits : \A k \in hits : j <= k} = {n}
  BY <1>3
<1> HIDE DEF hits
<1>6. HandlersOf(Topic(kind, m)) = {kind}
  BY <1>2, <1>4, <1>5
<1>7. MacOf(kind, Topic(kind, m)) = m
  <2>1. CASE kind = "oid"
    <3>1. MacOf(kind, Topic(kind, m)) = TopicToMac(Topic(kind, m), 2)
      BY <2>1 DEF MacOf
    <3>2. Len(Topic(kind, m)) = 3 /\ Topic(kind, m)[3] = m
      BY <2>1, TopicIs
    <3> QED
      BY <3>1, <3>2 DEF TopicToMac
  <2>2. CASE kind # "oid"
    <3>1. MacOf(kind, Topic(kind, m)) = TopicToMac(Topic(kind, m), 1)
      BY <2>2 DEF MacOf
    <3>2. Len(Topic(kind, m)) = 3 /\ Topic(kind, m)[2] = m
      BY <2>2, TopicIs
    <3> QED
      BY <3>1, <3>2 DEF TopicToMac
  <2> QED
    BY <2>1, <2>2
<1> QED
  BY <1>6, <1>7

(***************************************************************************)
(* Each report is handled by the handler of its own kind, as one of the    *)
(* printer that sent it, however many printers there are.                  *)
(***************************************************************************)
THEOREM ReportsFindTheirHandler == Spec => []EachReportItsHandler
<1>1. Shape => EachReportItsHandler
  BY HandlersAre DEF Shape, TypeOK, EachReportItsHandler, Reports
<1> QED
  BY <1>1, PlacedAlways, PTL

=============================================================================
