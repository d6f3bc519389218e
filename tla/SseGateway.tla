----------------------------- MODULE SseGateway -----------------------------
(***************************************************************************)
(* SseGatewayService: the streams of events the server has open.           *)
(*                                                                         *)
(* Everything the gateway does is synchronous, so adding a client and its  *)
(* greeting, or a broadcast to all clients, is one action.  Between them   *)
(* connections come and go: the other end may close one, or vanish without *)
(* a word, which the server learns when TCP gives up on something it has   *)
(* written; it never writes just to find out.                              *)
(*                                                                         *)
(* A connection stands for the client id made of the time and a random     *)
(* number, an event for its number.                                        *)
(***************************************************************************)
EXTENDS Naturals, Sequences, Functions

CONSTANTS
    Conns,      \* HTTP connections
    Channels,   \* the channels of the gateway
    None,       \* not a client
    MaxEvents   \* bound on the broadcasts

ASSUME EventsAssumption == MaxEvents \in Nat

ASSUME ClientAssumption == None \notin Channels

VARIABLES
    conn,      \* the state of each connection
    clients,   \* the map clients: connection -> channel, or None
    written,   \* what has been written to each connection
    \* Observations, read by properties only:
    sent,      \* the channel of each broadcast so far
    joined,    \* the broadcasts before each connection became a client
    threw      \* connections to which a write has thrown

gatewayVars == <<conn, clients, written, sent, joined, threw>>

\* "gone": the other end has vanished and the server does not know.
ConnStates == {"idle", "open", "gone", "closed"}

GREETING == 0   \* the event "connected"; broadcasts are numbered from 1

Events == 1..MaxEvents

GatewayInit ==
    /\ conn    = [c \in Conns |-> "idle"]
    /\ clients = [c \in Conns |-> None]
    /\ written = [c \in Conns |-> <<>>]
    /\ sent    = <<>>
    /\ joined  = [c \in Conns |-> 0]
    /\ threw   = {}

-----------------------------------------------------------------------------
\* addClient registers the response and greets it; if the write throws, send
\* removes the client again.  A vanished other end does not make it throw.
addClient(c, channel, throws) ==
    /\ clients' = [clients EXCEPT ![c] = IF throws THEN None ELSE channel]
    /\ written' = [written EXCEPT ![c] = IF throws THEN @ ELSE Append(@, GREETING)]
    /\ threw'   = IF throws THEN threw \cup {c} ELSE threw
    /\ joined'  = [joined EXCEPT ![c] = Len(sent)]

Members(channel) == {c \in Conns : clients[c] = channel}

\* Mutant: the first write that throws ends the loop.
broadcastUntilError(channel, failing) ==
    /\ Len(sent) < MaxEvents
    /\ failing \subseteq Members(channel)
    /\ sent' = Append(sent, channel)
    /\ \E reached \in SUBSET (Members(channel) \ failing) :
         /\ failing = {} => reached = Members(channel)
         /\ written' = [c \in Conns |-> IF c \in reached
                                        THEN Append(written[c], Len(sent) + 1)
                                        ELSE written[c]]
    /\ clients' = [c \in Conns |-> IF c \in failing THEN None ELSE clients[c]]
    /\ threw' = threw \cup failing
    /\ UNCHANGED <<conn, joined>>

(***************************************************************************)
(* broadcast: every client of the channel gets the event.  One to which    *)
(* the write throws is removed, which does not disturb the loop over the   *)
(* map and leaves its connection open.                                     *)
(***************************************************************************)
broadcast(channel, failing) ==
    /\ Len(sent) < MaxEvents
    /\ failing \subseteq Members(channel)
    /\ sent' = Append(sent, channel)
    /\ written' = [c \in Conns |-> IF c \in Members(channel) \ failing
                                   THEN Append(written[c], Len(sent) + 1)
                                   ELSE written[c]]
    /\ clients' = [c \in Conns |-> IF c \in failing THEN None ELSE clients[c]]
    /\ threw' = threw \cup failing
    /\ UNCHANGED <<conn, joined>>

removeClient(c) == clients' = [clients EXCEPT ![c] = None]

\* The other end vanishes: no packet says so.
Vanish(c) ==
    /\ conn[c] = "open"
    /\ conn' = [conn EXCEPT ![c] = "gone"]
    /\ UNCHANGED <<clients, written, sent, joined, threw>>

\* The connection ends: its response emits 'close', which a client listens to.
Close(c) ==
    /\ conn[c] \in {"open", "gone"}
    /\ conn' = [conn EXCEPT ![c] = "closed"]
    /\ removeClient(c)
    /\ UNCHANGED <<written, sent, joined, threw>>

-----------------------------------------------------------------------------
GatewayTypeOK ==
    /\ conn    \in [Conns -> ConnStates]
    /\ clients \in [Conns -> Channels \cup {None}]
    /\ written \in [Conns -> Seq(Events \cup {GREETING})]
    /\ sent    \in Seq(Channels)
    /\ joined  \in [Conns -> 0..MaxEvents]
    /\ threw   \subseteq Conns

\* The broadcasts to a channel after the first n.
SentAfter(n, channel) == {i \in (n + 1)..Len(sent) : sent[i] = channel}

InOrder(events) == \A i, j \in DOMAIN events : i < j => events[i] < events[j]

(***************************************************************************)
(* The stream of a client is the greeting and then every event broadcast   *)
(* to its channel since it came, in order, whatever happened to the other  *)
(* clients.  A connection that got the greeting and is open is a client,   *)
(* unless a write to it threw; one that is closed is none.                 *)
(***************************************************************************)
StreamsAreComplete ==
    \A c \in Conns :
        /\ clients[c] # None =>
             /\ conn[c] \in {"open", "gone"}
             /\ InOrder(written[c])
             /\ Range(written[c]) = {GREETING} \cup SentAfter(joined[c], clients[c])
        /\ written[c] # <<>> /\ conn[c] # "closed" /\ c \notin threw => clients[c] # None

=============================================================================
