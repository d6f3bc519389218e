--------------------------- MODULE HttpServerProofs ---------------------------
(***************************************************************************)
(* Proofs about HttpServer and its event streams, for any number of        *)
(* connections, channels, broadcasts and crashes.                          *)
(***************************************************************************)
EXTENDS HttpServer, SequenceTheorems, TLAPS

-----------------------------------------------------------------------------
(***************************************************************************)
(* The gateway's streams.                                                  *)
(***************************************************************************)

LEMMA ConstantsAre == MaxEvents \in Nat /\ MaxCrashes \in Nat /\ "printer" \in Channels
  BY EventsAssumption, CrashesAssumption, ChannelAssumption

LEMMA EventsAre ==
  /\ Events \cup {GREETING} \subseteq Nat
  /\ GREETING \in Events \cup {GREETING} /\ GREETING \notin Events /\ GREETING = 0
  BY ConstantsAre DEF Events, GREETING

\* No more is broadcast than the bound allows.
Bounded == Len(sent) <= MaxEvents

\* A client's stream is complete, and nothing in it is still to come.
StreamOf(c) ==
    clients[c] # None =>
        /\ conn[c] \in {"open", "gone"}
        /\ joined[c] <= Len(sent)
        /\ InOrder(written[c])
        /\ Range(written[c]) = {GREETING} \cup SentAfter(joined[c], clients[c])

\* A greeted connection is a client as long as it can be.
Stays(c) ==
    written[c] # <<>> /\ conn[c] # "closed" /\ c \notin threw => clients[c] # None

\* Nothing is written before a request.
Fresh(c) == conn[c] = "idle" => written[c] = <<>>

Streams == \A c \in Conns : StreamOf(c) /\ Stays(c) /\ Fresh(c)

GatewayInv == GatewayTypeOK /\ Bounded /\ Streams

LEMMA StreamsSuffice == Streams => StreamsAreComplete
  BY DEF Streams, StreamOf, Stays, StreamsAreComplete

LEMMA RangeAppend ==
  ASSUME NEW S, NEW events \in Seq(S), NEW e \in S
  PROVE  Range(Append(events, e)) = Range(events) \cup {e}
<1> DEFINE n == Len(events)
<1> DEFINE longer == Append(events, e)
<1>1. /\ DOMAIN events = 1..n /\ DOMAIN longer = 1..(n + 1) /\ n \in Nat
      /\ \A i \in 1..n : longer[i] = events[i]
      /\ longer[n + 1] = e
  BY AppendProperties, LenProperties
<1>2. 1..(n + 1) = 1..n \cup {n + 1}
  BY <1>1
<1> HIDE DEF n, longer
<1> QED
  BY <1>1, <1>2 DEF Range, longer

LEMMA InOrderAppend ==
  ASSUME NEW events \in Seq(Nat), InOrder(events), NEW e \in Nat,
         \A old \in Range(events) : old < e
  PROVE  InOrder(Append(events, e))
<1> DEFINE n == Len(events)
<1> DEFINE longer == Append(events, e)
<1>1. /\ DOMAIN events = 1..n /\ DOMAIN longer = 1..(n + 1) /\ n \in Nat
      /\ \A i \in 1..n : longer[i] = events[i]
      /\ longer[n + 1] = e
  BY AppendProperties, LenProperties
<1> HIDE DEF longer
<1> SUFFICES ASSUME NEW i \in 1..(n + 1), NEW j \in 1..(n + 1), i < j
             PROVE  longer[i] < longer[j]
  BY <1>1 DEF InOrder, longer
<1>2. i \in 1..n /\ longer[i] = events[i] /\ events[i] \in Range(events)
  BY <1>1 DEF Range
<1>3. CASE j = n + 1
  BY <1>1, <1>2, <1>3
<1>4. CASE j # n + 1
  <2>1. j \in 1..n /\ longer[j] = events[j]
    BY <1>1, <1>4
  <2> QED
    BY <1>1, <1>2, <2>1 DEF InOrder
<1> QED
  BY <1>3, <1>4

LEMMA GatewayInvInit == GatewayInit => GatewayInv
<1> SUFFICES ASSUME GatewayInit PROVE GatewayInv
  OBVIOUS
<1>1. /\ <<>> \in Seq(Events \cup {GREETING}) /\ <<>> \in Seq(Channels) /\ Len(<<>>) = 0
      /\ 0 \in 0..MaxEvents
  BY ConstantsAre
<1>2. GatewayTypeOK
  BY <1>1 DEF GatewayInit, GatewayTypeOK, ConnStates
<1>3. Bounded
  BY <1>1, ConstantsAre DEF GatewayInit, Bounded
<1>4. Streams
  BY DEF GatewayInit, Streams, StreamOf, Stays, Fresh
<1> QED
  BY <1>2, <1>3, <1>4 DEF GatewayInv

\* A stream that a step leaves alone.
LEMMA StreamKept ==
  ASSUME NEW c \in Conns, StreamOf(c), Stays(c), Fresh(c),
         written'[c] = written[c], clients'[c] = clients[c],
         joined'[c] = joined[c], sent' = sent, threw \subseteq threw',
         \/ conn'[c] = conn[c]
         \/ conn[c] = "open" /\ conn'[c] = "gone"
         \/ conn[c] = "idle" /\ conn'[c] = "open"
  PROVE  (StreamOf(c) /\ Stays(c) /\ Fresh(c))'
<1>1. SentAfter(joined[c], clients[c])' = SentAfter(joined[c], clients[c])
  BY DEF SentAfter
<1>2. StreamOf(c)'
  BY <1>1 DEF StreamOf, InOrder, Range
<1>3. Stays(c)'
  BY DEF Stays, Fresh
<1>4. Fresh(c)'
  BY DEF Fresh
<1> QED
  BY <1>2, <1>3, <1>4

\* A stream that ends, or does not begin.
LEMMA StreamEnds ==
  ASSUME NEW c \in Conns, clients'[c] = None,
         conn'[c] = "closed" \/ c \in threw' \/ (written[c] = <<>> /\ written'[c] = written[c]),
         conn'[c] = "idle" => conn[c] = "idle" /\ written'[c] = written[c], Fresh(c)
  PROVE  (StreamOf(c) /\ Stays(c) /\ Fresh(c))'
<1>1. StreamOf(c)'
  BY DEF StreamOf
<1>2. Stays(c)'
  BY DEF Stays
<1>3. Fresh(c)'
  BY DEF Fresh
<1> QED
  BY <1>1, <1>2, <1>3

\* A connection that is used for a request and gets no stream.
LEMMA GatewayArrives ==
  ASSUME GatewayInv, NEW c \in Conns, Arrives(c),
         UNCHANGED <<clients, written, sent, joined, threw>>
  PROVE  GatewayInv'
<1>1. GatewayTypeOK' /\ Bounded'
  BY DEF GatewayInv, GatewayTypeOK, Bounded, Arrives, ConnStates
<1>2. ASSUME NEW d \in Conns PROVE (StreamOf(d) /\ Stays(d) /\ Fresh(d))'
  <2>1. conn'[d] = conn[d] \/ (conn[d] = "idle" /\ conn'[d] = "open")
    BY DEF Arrives, GatewayInv, GatewayTypeOK
  <2> QED
    BY <2>1, StreamKept DEF GatewayInv, Streams
<1> QED
  BY <1>1, <1>2 DEF GatewayInv, Streams

LEMMA GatewayJoins ==
  ASSUME GatewayInv, NEW c \in Conns, NEW throws \in BOOLEAN,
         Arrives(c), addClient(c, "printer", throws), sent' = sent
  PROVE  GatewayInv'
<1>1. /\ conn' = [conn EXCEPT ![c] = "open"] /\ conn[c] = "idle"
      /\ joined' = [joined EXCEPT ![c] = Len(sent)]
      /\ written[c] = <<>>
      /\ written \in [Conns -> Seq(Events \cup {GREETING})]
      /\ Len(sent) \in 0..MaxEvents
  <2>1. Len(sent) \in Nat
    BY LenProperties DEF GatewayInv, GatewayTypeOK
  <2> QED
    BY <2>1, ConstantsAre
       DEF Arrives, addClient, GatewayInv, GatewayTypeOK, Bounded, Streams, Fresh
<1>2. "printer" \in Channels /\ "printer" # None
  BY ConstantsAre, ClientAssumption
<1>3. Bounded' /\ conn' \in [Conns -> ConnStates] /\ joined' \in [Conns -> 0..MaxEvents]
  BY <1>1 DEF GatewayInv, GatewayTypeOK, Bounded, ConnStates
<1>4. CASE throws
  <2>1. /\ clients' = [clients EXCEPT ![c] = None]
        /\ written' = written /\ threw' = threw \cup {c}
    BY <1>1, <1>4 DEF addClient
  <2>2. GatewayTypeOK'
    BY <1>1, <1>3, <2>1 DEF GatewayInv, GatewayTypeOK
  <2>3. ASSUME NEW d \in Conns PROVE (StreamOf(d) /\ Stays(d) /\ Fresh(d))'
    <3>1. CASE d = c
      BY <1>1, <2>1, <3>1, StreamEnds DEF GatewayInv, GatewayTypeOK, Streams
    <3>2. CASE d # c
      BY <1>1, <2>1, <3>2, StreamKept DEF GatewayInv, GatewayTypeOK, Streams
    <3> QED
      BY <3>1, <3>2
  <2> QED
    BY <1>3, <2>2, <2>3 DEF GatewayInv, Streams
<1>5. CASE ~throws
  <2>1. /\ clients' = [clients EXCEPT ![c] = "printer"]
        /\ written' = [written EXCEPT ![c] = Append(@, GREETING)]
        /\ threw' = threw
    BY <1>5 DEF addClient
  <2>2. Append(<<>>, GREETING) = <<GREETING>>
    OBVIOUS
  <2>3. written'[c] = <<GREETING>> /\ <<GREETING>> \in Seq(Events \cup {GREETING})
    BY <1>1, <2>1, <2>2
  <2>4. GatewayTypeOK'
    <3>1. written' = [written EXCEPT ![c] = <<GREETING>>]
      BY <1>1, <2>1, <2>2
    <3> QED
      BY <1>2, <1>3, <2>1, <2>3, <3>1 DEF GatewayInv, GatewayTypeOK
  <2>5. ASSUME NEW d \in Conns PROVE (StreamOf(d) /\ Stays(d) /\ Fresh(d))'
    <3>1. CASE d = c
      <4>1. /\ conn'[c] = "open" /\ clients'[c] = "printer" /\ joined'[c] = Len(sent)
        BY <1>1, <2>1 DEF GatewayInv, GatewayTypeOK
      <4>2. SentAfter(joined[c], clients[c])' = {}
        <5>1. (Len(sent) + 1)..Len(sent) = {}
          BY <1>1
        <5> QED
          BY <4>1, <5>1 DEF SentAfter
      <4>3. DOMAIN <<GREETING>> = {1} /\ <<GREETING>>[1] = GREETING
        OBVIOUS
      <4>4. Range(<<GREETING>>) = {GREETING} /\ InOrder(<<GREETING>>)
        BY <4>3 DEF Range, InOrder
      <4>5. StreamOf(c)'
        BY <1>1, <2>3, <4>1, <4>2, <4>4 DEF StreamOf, InOrder, Range
      <4> QED
        BY <1>2, <3>1, <4>1, <4>5 DEF Stays, Fresh
    <3>2. CASE d # c
      BY <1>1, <2>1, <3>2, StreamKept DEF GatewayInv, GatewayTypeOK, Streams
    <3> QED
      BY <3>1, <3>2
  <2> QED
    BY <1>3, <2>4, <2>5 DEF GatewayInv, Streams
<1> QED
  BY <1>4, <1>5

LEMMA GatewayBroadcasts ==
  ASSUME GatewayInv, NEW channel \in Channels, NEW failing \in SUBSET Conns,
         broadcast(channel, failing)
  PROVE  GatewayInv'
<1> DEFINE n == Len(sent)
<1>1. /\ n \in Nat /\ n < MaxEvents /\ Len(sent)' = n + 1
      /\ sent' = Append(sent, channel)
      /\ \A i \in 1..n : sent'[i] = sent[i]
      /\ sent'[n + 1] = channel
      /\ UNCHANGED <<conn, joined>>
  BY AppendProperties, LenProperties DEF broadcast, GatewayInv, GatewayTypeOK
<1>2. n + 1 \in Events /\ n + 1 \in Nat
  BY <1>1, ConstantsAre DEF Events
<1>3. channel # None
  BY ClientAssumption
<1>4. GatewayTypeOK'
  <2>1. \A c \in Conns : Append(written[c], n + 1) \in Seq(Events \cup {GREETING})
    BY <1>2, AppendProperties DEF GatewayInv, GatewayTypeOK
  <2>2. sent' \in Seq(Channels)
    BY <1>1, AppendProperties DEF GatewayInv, GatewayTypeOK
  <2> HIDE DEF n
  <2>3. written' \in [Conns -> Seq(Events \cup {GREETING})]
    BY <2>1 DEF broadcast, GatewayInv, GatewayTypeOK, n
  <2> QED
    BY <1>1, <2>2, <2>3 DEF broadcast, GatewayInv, GatewayTypeOK
<1>5. Bounded'
  BY <1>1, ConstantsAre DEF Bounded
<1>6. ASSUME NEW c \in Conns PROVE (StreamOf(c) /\ Stays(c) /\ Fresh(c))'
  <2>0. /\ StreamOf(c) /\ Stays(c) /\ Fresh(c)
        /\ written[c] \in Seq(Events \cup {GREETING}) /\ joined[c] \in Nat
    BY ConstantsAre DEF GatewayInv, GatewayTypeOK, Streams
  <2>1. CASE clients[c] = channel /\ c \notin failing
    <3>1. /\ written'[c] = Append(written[c], n + 1)
          /\ clients'[c] = channel /\ joined'[c] = joined[c]
      BY <2>1 DEF broadcast, Members
    <3>2. conn[c] \in {"open", "gone"} /\ joined[c] <= n /\ InOrder(written[c])
          /\ Range(written[c]) = {GREETING} \cup SentAfter(joined[c], channel)
      BY <1>3, <2>0, <2>1 DEF StreamOf
    <3>3. Range(written'[c]) = Range(written[c]) \cup {n + 1}
      BY <1>2, <2>0, <3>1, RangeAppend
    <3>4. InOrder(written'[c])
      <4>1. \A old \in Range(written[c]) : old < n + 1
        BY <1>1, <2>0, <3>2, EventsAre DEF SentAfter
      <4>2. written[c] \in Seq(Nat)
        BY <2>0, EventsAre, SeqMonotonic
      <4> QED
        BY <1>2, <3>1, <3>2, <4>1, <4>2, InOrderAppend
    <3>5. SentAfter(joined[c], channel)' = SentAfter(joined[c], channel) \cup {n + 1}
      <4>1. \A i : i \in (joined[c] + 1)..(n + 1) <=> i \in (joined[c] + 1)..n \/ i = n + 1
        BY <1>1, <2>0, <3>2
      <4>2. \A i \in (joined[c] + 1)..n : i \in 1..n
        BY <1>1, <2>0
      <4> HIDE DEF n
      <4>3. SentAfter(joined[c], channel)'
              = {i \in (joined[c] + 1)..(n + 1) : sent'[i] = channel}
        BY <1>1 DEF SentAfter
      <4>4. SentAfter(joined[c], channel) = {i \in (joined[c] + 1)..n : sent[i] = channel}
        BY DEF SentAfter, n
      <4> QED
        BY <1>1, <4>1, <4>2, <4>3, <4>4
    <3>6. StreamOf(c)'
      <4>1. joined[c] <= n + 1
        BY <1>1, <2>0, <3>2
      <4> HIDE DEF n
      <4>2. SentAfter(joined[c], clients[c])' = SentAfter(joined[c], channel) \cup {n + 1}
        BY <1>1, <3>1, <3>5 DEF SentAfter
      <4>3. Range(written[c])' = Range(written'[c]) /\ InOrder(written[c])' = InOrder(written'[c])
        BY DEF Range, InOrder
      <4> QED
        BY <1>1, <3>1, <3>2, <3>3, <3>4, <4>1, <4>2, <4>3 DEF StreamOf
    <3> QED
      BY <1>1, <1>3, <3>1, <3>2, <3>6 DEF Stays, Fresh
  <2>2. CASE c \in failing
    <3>1. clients'[c] = None /\ c \in threw' /\ conn'[c] = conn[c] /\ written'[c] = written[c]
      BY <1>1, <2>2 DEF broadcast, Members
    <3> QED
      BY <2>0, <3>1, StreamEnds
  <2>3. CASE clients[c] # channel /\ c \notin failing
    <3>1. /\ written'[c] = written[c] /\ clients'[c] = clients[c] /\ joined'[c] = joined[c]
          /\ conn'[c] = conn[c] /\ threw \subseteq threw'
      BY <1>1, <2>3 DEF broadcast, Members
    <3>2. ASSUME clients[c] # None
          PROVE  SentAfter(joined[c], clients[c])' = SentAfter(joined[c], clients[c])
      <4>1. joined[c] <= n
        BY <2>0, <3>2 DEF StreamOf
      <4>2. \A i : i \in (joined[c] + 1)..(n + 1) <=> i \in (joined[c] + 1)..n \/ i = n + 1
        BY <1>1, <2>0, <4>1
      <4>3. \A i \in (joined[c] + 1)..n : i \in 1..n
        BY <1>1, <2>0
      <4> HIDE DEF n
      <4>4. SentAfter(joined[c], clients[c])'
              = {i \in (joined[c] + 1)..(n + 1) : sent'[i] = clients[c]}
        BY <1>1, <3>1 DEF SentAfter
      <4>5. SentAfter(joined[c], clients[c]) = {i \in (joined[c] + 1)..n : sent[i] = clients[c]}
        BY DEF SentAfter, n
      <4> QED
        BY <1>1, <2>3, <4>2, <4>3, <4>4, <4>5
    <3>3. StreamOf(c)'
      <4>1. clients[c] # None => joined[c] <= n + 1
        BY <1>1, <2>0 DEF StreamOf
      <4> HIDE DEF n
      <4>2. Range(written[c])' = Range(written[c]) /\ InOrder(written[c])' = InOrder(written[c])
        BY <3>1 DEF Range, InOrder
      <4> QED
        BY <1>1, <2>0, <3>1, <3>2, <4>1, <4>2 DEF StreamOf
    <3> QED
      BY <2>0, <3>1, <3>3 DEF Stays, Fresh
  <2> QED
    BY <2>1, <2>2, <2>3
<1> QED
  BY <1>4, <1>5, <1>6 DEF GatewayInv, Streams

LEMMA GatewayVanishes == ASSUME GatewayInv, NEW c \in Conns, Vanish(c) PROVE GatewayInv'
<1>1. GatewayTypeOK' /\ Bounded'
  BY DEF GatewayInv, GatewayTypeOK, Bounded, Vanish, ConnStates
<1>2. ASSUME NEW d \in Conns PROVE (StreamOf(d) /\ Stays(d) /\ Fresh(d))'
  <2>1. conn'[d] = conn[d] \/ (conn[d] = "open" /\ conn'[d] = "gone")
    BY DEF Vanish, GatewayInv, GatewayTypeOK
  <2> QED
    BY <2>1, StreamKept DEF Vanish, GatewayInv, Streams
<1> QED
  BY <1>1, <1>2 DEF GatewayInv, Streams

LEMMA GatewayCloses == ASSUME GatewayInv, NEW c \in Conns, Close(c) PROVE GatewayInv'
<1>1. GatewayTypeOK' /\ Bounded'
  BY DEF GatewayInv, GatewayTypeOK, Bounded, Close, removeClient, ConnStates
<1>2. ASSUME NEW d \in Conns PROVE (StreamOf(d) /\ Stays(d) /\ Fresh(d))'
  <2>1. CASE d = c
    <3>1. clients'[d] = None /\ conn'[d] = "closed"
      BY <2>1 DEF Close, removeClient, GatewayInv, GatewayTypeOK
    <3> QED
      BY <3>1, StreamEnds DEF GatewayInv, Streams
  <2>2. CASE d # c
    <3>1. clients'[d] = clients[d] /\ conn'[d] = conn[d]
      BY <2>2 DEF Close, removeClient, GatewayInv, GatewayTypeOK
    <3> QED
      BY <3>1, StreamKept DEF Close, GatewayInv, Streams
  <2> QED
    BY <2>1, <2>2
<1> QED
  BY <1>1, <1>2 DEF GatewayInv, Streams

LEMMA GatewayCrashes == ASSUME GatewayInv, Crash PROVE GatewayInv'
<1>1. GatewayTypeOK' /\ Bounded'
  BY DEF GatewayInv, GatewayTypeOK, Bounded, Crash, ConnStates
<1>2. ASSUME NEW d \in Conns PROVE (StreamOf(d) /\ Stays(d) /\ Fresh(d))'
  <2>1. /\ clients'[d] = None /\ written'[d] = written[d]
        /\ conn'[d] = IF conn[d] = "idle" THEN "idle" ELSE "closed"
    BY DEF Crash
  <2> QED
    BY <2>1, StreamEnds DEF GatewayInv, Streams, Fresh
<1> QED
  BY <1>1, <1>2 DEF GatewayInv, Streams

LEMMA GatewayInvStep == GatewayInv /\ [Next]_vars => GatewayInv'
<1> SUFFICES ASSUME GatewayInv, [Next]_vars PROVE GatewayInv'
  OBVIOUS
<1>1. ASSUME NEW c \in Conns, NEW h \in Handlers,
             \/ RefuseKey(c, h) \/ RefuseArguments(c, h)
             \/ \E asked \in Kinds : Handle(c, h, asked)
      PROVE  GatewayInv'
  BY <1>1, GatewayArrives DEF RefuseKey, RefuseArguments, Handle
<1>2. ASSUME NEW c \in Conns, NEW throws \in BOOLEAN, streamEvents(c, throws) PROVE GatewayInv'
  BY <1>2, GatewayJoins DEF streamEvents
<1>3. ASSUME NEW c \in Conns, Proxy(c) PROVE GatewayInv'
  BY <1>3, GatewayArrives DEF Proxy
<1>4. CASE Gateway
  BY <1>4, GatewayVanishes, GatewayCloses, GatewayBroadcasts DEF Gateway
<1>5. CASE Crash
  BY <1>5, GatewayCrashes
<1>6. CASE UNCHANGED gatewayVars
  <2>1. GatewayTypeOK' /\ Bounded'
    BY <1>6 DEF gatewayVars, GatewayInv, GatewayTypeOK, Bounded
  <2>2. ASSUME NEW c \in Conns PROVE (StreamOf(c) /\ Stays(c) /\ Fresh(c))'
    BY <1>6, StreamKept DEF gatewayVars, GatewayInv, Streams
  <2> QED
    BY <2>1, <2>2 DEF GatewayInv, Streams
<1> QED
  BY <1>1, <1>2, <1>3, <1>4, <1>5, <1>6 DEF Next, Finish, ProxyAnswers, Quiet, vars

(***************************************************************************)
(* The stream of a client is complete and in order, whatever happens to    *)
(* the others, and a connection leaves the gateway only when it closes or  *)
(* a write to it throws.                                                   *)
(***************************************************************************)
THEOREM StreamsLoseNothing == Spec => []StreamsAreComplete
<1>1. Init => GatewayInv
  BY GatewayInvInit DEF Init
<1>2. GatewayInv => StreamsAreComplete
  BY StreamsSuffice DEF GatewayInv
<1> QED
  BY <1>1, <1>2, GatewayInvStep, PTL DEF Spec

-----------------------------------------------------------------------------
(***************************************************************************)
(* Requests and their answers.                                             *)
(***************************************************************************)

RequestInv ==
    /\ request \in [Conns -> Unanswered \cup Answers]
    /\ crashes \in 0..MaxCrashes

LEMMA AnswerIsTyped ==
  ASSUME NEW h \in Names, NEW asked \in Kinds \cup {"none"}, NEW outcome \in Outcomes
  PROVE  Answered(h, asked, outcome) \in Answers
<1>1. StatusOf(h) \in Statuses /\ CodeOf(h) \in Statuses \cup {0} /\ ErrorOf(outcome) \in Statuses
  <2>1. StatusOf(h) \in {302, 201, 200}
    BY DEF StatusOf
  <2>2. CodeOf(h) \in {0, 201, 200}
    <3>1. CASE h \in Raw
      BY <3>1 DEF CodeOf, Raw
    <3>2. CASE h \notin Raw
      BY <3>2 DEF CodeOf
    <3> QED
      BY <3>1, <3>2
  <2>3. ErrorOf(outcome) \in {401, 400, 404, 500}
    BY DEF ErrorOf
  <2> QED
    BY <2>1, <2>2, <2>3 DEF Statuses
<1> QED
  BY <1>1 DEF Answered, Answers

LEMMA RequestBecomes ==
  ASSUME RequestInv, NEW c \in Conns, NEW r \in Unanswered \cup Answers,
         Becomes(c, r), crashes' = crashes
  PROVE  RequestInv'
  BY DEF RequestInv, Becomes

LEMMA RequestInvInit == Init => RequestInv
<1>1. Pending("none", "none", "idle") \in Unanswered
  BY DEF Pending, Unanswered, Names
<1> QED
  BY <1>1, ConstantsAre DEF Init, RequestInv

LEMMA RequestInvStep == RequestInv /\ [Next]_vars => RequestInv'
<1> SUFFICES ASSUME RequestInv, [Next]_vars PROVE RequestInv'
  OBVIOUS
<1>1. ASSUME NEW c \in Conns, NEW h \in Handlers, RefuseKey(c, h) \/ RefuseArguments(c, h)
      PROVE  RequestInv'
  <2>1. h \in Names /\ "malformed" \in Kinds /\ "keyless" \in Outcomes /\ "invalid" \in Outcomes
    BY DEF Names, Kinds, Outcomes
  <2> QED
    BY <1>1, <2>1, AnswerIsTyped, RequestBecomes DEF RefuseKey, RefuseArguments
<1>2. ASSUME NEW c \in Conns, NEW h \in Handlers, NEW asked \in Kinds, Handle(c, h, asked)
      PROVE  RequestInv'
  <2>1. Pending(h, asked, "handling") \in Unanswered
    BY DEF Pending, Unanswered, Names
  <2> QED
    BY <1>2, <2>1, RequestBecomes DEF Handle
<1>3. ASSUME NEW c \in Conns, NEW throws \in BOOLEAN, streamEvents(c, throws) PROVE RequestInv'
  <2>1. Pending("streamEvents", "proper", "streaming") \in Unanswered
    BY DEF Pending, Unanswered, Names, Handlers, Kinds
  <2> QED
    BY <1>3, <2>1, RequestBecomes DEF streamEvents
<1>4. ASSUME NEW c \in Conns, Proxy(c) PROVE RequestInv'
  <2>1. Pending("mqttProxy", "none", "proxied") \in Unanswered
    BY DEF Pending, Unanswered, Names
  <2> QED
    BY <1>4, <2>1, RequestBecomes DEF Proxy
<1>5. ASSUME NEW c \in Conns, NEW outcome \in Outcomes, Finish(c, outcome) PROVE RequestInv'
  <2>1. request[c].handler \in Names /\ request[c].asked \in Kinds \cup {"none"}
    BY DEF RequestInv, Unanswered, Answers
  <2>2. Answered(request[c].handler, request[c].asked, outcome) \in Answers
    BY <2>1, AnswerIsTyped
  <2> QED
    BY <1>5, <2>2, RequestBecomes DEF Finish
<1>6. ASSUME NEW c \in Conns, NEW status \in EmqxStatuses, ProxyAnswers(c, status) PROVE RequestInv'
  <2>1. request[c] \in Unanswered
    BY <1>6 DEF ProxyAnswers, RequestInv, Answers
  <2>2. status \in Statuses
    BY DEF EmqxStatuses, Statuses
  <2>3. [request[c] EXCEPT !.stage = "answered", !.status = status] \in Answers
    BY <2>1, <2>2 DEF Unanswered, Answers
  <2> QED
    BY <1>6, <2>3, RequestBecomes DEF ProxyAnswers
<1>7. CASE Crash
  <2>1. ASSUME NEW c \in Conns, request[c].stage \in {"handling", "proxied", "streaming"}
        PROVE  [request[c] EXCEPT !.stage = "lost"] \in Unanswered
    <3>1. request[c] \in Unanswered
      BY <2>1 DEF RequestInv, Answers
    <3> QED
      BY <3>1 DEF Unanswered
  <2> QED
    BY <1>7, <2>1, ConstantsAre DEF Crash, RequestInv
<1>8. CASE UNCHANGED <<request, crashes>>
  BY <1>8 DEF RequestInv
<1> QED
  BY <1>1, <1>2, <1>3, <1>4, <1>5, <1>6, <1>7, <1>8 DEF Next, Gateway, Quiet, vars

(***************************************************************************)
(* Connections, streams and requests keep their types, and an answer has a *)
(* status.                                                                 *)
(***************************************************************************)
THEOREM TypeCorrect == Spec => []TypeOK
<1>1. Init => GatewayInv /\ RequestInv
  BY GatewayInvInit, RequestInvInit DEF Init
<1>2. GatewayInv /\ RequestInv => TypeOK
  BY DEF GatewayInv, RequestInv, TypeOK
<1> QED
  BY <1>1, <1>2, GatewayInvStep, RequestInvStep, PTL DEF Spec

=============================================================================
