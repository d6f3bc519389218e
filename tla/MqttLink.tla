------------------------------ MODULE MqttLink ------------------------------
(***************************************************************************)
(* The server's one MQTT connection.                                       *)
(*                                                                         *)
(* Outward, lockPrinter, unlockPrinter and publishOta hand a message to    *)
(* the MQTT client and the HTTP call returns at once.  The client queues   *)
(* while it is disconnected and writes to its socket while it believes to  *)
(* be connected; QoS 0 means what was written to a connection that breaks  *)
(* is gone.  Lock and unlock are retained: the broker keeps the last one   *)
(* of each printer, and the printer obeys it.  A firmware message only     *)
(* passes through, as do OID queries and registration states, which the    *)
(* server publishes in the same way.                                       *)
(*                                                                         *)
(* Inward, onModuleInit subscribes to the printers' topics, at once or on  *)
(* the first connect, and hands each message to the first handler whose    *)
(* pattern matches.  clean: true makes the broker forget the subscription  *)
(* with the connection; the client library renews it on reconnect.         *)
(*                                                                         *)
(* The process has a fixed client id, so the broker drops what is left of  *)
(* an older connection when a new one is made.  Calls are numbered in the  *)
(* order they are accepted, and a number stands for its message.           *)
(***************************************************************************)
EXTENDS MqttTopics, FiniteSets, Functions

CONSTANTS
    Macs,        \* the printers
    All,         \* the addressee of a broadcast
    None,        \* no report
    MaxCalls,    \* bound on the HTTP calls that publish
    MaxBreaks,   \* bound on the connections that break
    MaxCrashes   \* bound on the crashes of the process

ASSUME BoundsAssumption == {MaxCalls, MaxBreaks, MaxCrashes} \subseteq Nat

\* A segment filled in by a printer is none of the fixed segments.
ASSUME MacAssumption == Macs \cap (Kinds \cup {"printer", "+", "#"}) = {}

ASSUME AllAssumption == All \notin Macs

VARIABLES
    ready,       \* onModuleInit has run: listeners are set, HTTP is served
    link,        \* "down", "up", or "dead": broken and not yet noticed
    waiting,     \* the once('connect') listener of onModuleInit is set
    renews,      \* the client library renews the subscription on reconnect
    queue,       \* packets held back by the disconnected client
    wire,        \* packets written to the socket, not yet at the broker
    subscribed,  \* broker: the connection has the subscription
    retained,    \* broker: the retained call of each printer, 0 if none
    inbox,       \* the report on its way to the server, or None
    breaks, crashes,
    \* Observations, read by properties only:
    order,       \* what each accepted call publishes, in order
    taken,       \* calls whose message has reached the broker
    cut          \* calls whose message a break or a crash caught on its way

clientVars == <<ready, waiting, renews>>
faultVars  == <<breaks, crashes>>
seenVars   == <<order, taken, cut>>
vars == <<ready, link, waiting, renews, queue, wire, subscribed, retained,
          inbox, breaks, crashes, order, taken, cut>>

SUBSCRIBE == 0   \* the SUBSCRIBE packet; calls are numbered from 1

Calls   == 1..MaxCalls
Packets == Calls \cup {SUBSCRIBE}

\* Lock and unlock are retained and for one printer, firmware is neither.
Orders == [retain : {TRUE}, to : Macs] \cup [retain : {FALSE}, to : Macs \cup {All}]

\* Kinds whose payload is JSON, and the reports there are: the printer that
\* sends one makes no difference to its way.
Parsed  == {"init", "data", "register", "oid"}
Reports == {r \in [kind : Kinds, parses : BOOLEAN] : r.kind \in Parsed \/ r.parses}

Init ==
    /\ ready = FALSE /\ waiting = FALSE /\ renews = FALSE
    /\ link = "down" /\ subscribed = FALSE
    /\ queue = <<>> /\ wire = <<>>
    /\ retained = [m \in Macs |-> 0]
    /\ inbox = None
    /\ breaks = 0 /\ crashes = 0
    /\ order = <<>> /\ taken = {} /\ cut = {}

-----------------------------------------------------------------------------
\* client.connected: also true of a connection that is dead.
connected == link # "down"

\* Mutant: a disconnected client puts the newest message first.
publishInFront(packet) ==
    \/ connected  /\ wire'  = Append(wire, packet)   /\ UNCHANGED queue
    \/ ~connected /\ queue' = <<packet>> \o queue    /\ UNCHANGED wire

\* client.publish: written at once, or held back until the next connect.
publish(packet) ==
    \/ connected  /\ wire'  = Append(wire, packet)  /\ UNCHANGED queue
    \/ ~connected /\ queue' = Append(queue, packet) /\ UNCHANGED wire

\* Mutant: onModuleInit subscribes without asking for the connection.
onModuleInitUnasked ==
    /\ ~ready
    /\ ready' = TRUE
    /\ renews' = TRUE
    /\ publish(SUBSCRIBE)
    /\ UNCHANGED <<waiting, link, subscribed, retained, inbox, faultVars, seenVars>>

\* Mutant: onModuleInit only waits for a connect event.
onModuleInitOnlyWaits ==
    /\ ~ready
    /\ ready' = TRUE
    /\ waiting' = TRUE
    /\ UNCHANGED <<wire, renews, link, queue, subscribed, retained, inbox,
                   faultVars, seenVars>>

(***************************************************************************)
(* onModuleInit: the client has been connecting since it was created, so   *)
(* the connection may already be there.                                    *)
(***************************************************************************)
onModuleInit ==
    /\ ~ready
    /\ ready' = TRUE
    /\ \/ connected  /\ wire' = Append(wire, SUBSCRIBE) /\ renews' = TRUE /\ UNCHANGED waiting
       \/ ~connected /\ waiting' = TRUE /\ UNCHANGED <<wire, renews>>
    /\ UNCHANGED <<link, queue, subscribed, retained, inbox, faultVars, seenVars>>

\* An HTTP call publishes its message and is answered without waiting.
Publish(c, message) ==
    /\ ready
    /\ c = Len(order) + 1
    /\ order' = Append(order, message)
    /\ publish(c)
    /\ UNCHANGED <<clientVars, link, subscribed, retained, inbox, faultVars, taken, cut>>

\* POST /printer/lock and /printer/unlock: to server/<mac>/lock.
lockPrinter(c, m) == Publish(c, [retain |-> TRUE, to |-> m])

\* POST /ota/publish: to one printer or, without a printerId, to all.
publishOta(c, to) == Publish(c, [retain |-> FALSE, to |-> to])

-----------------------------------------------------------------------------
\* Mutant: the subscription is not renewed.
ConnectWithoutRenewal ==
    /\ link = "down"
    /\ link' = "up"
    /\ wire' = queue \o (IF waiting THEN <<SUBSCRIBE>> ELSE <<>>)
    /\ queue' = <<>>
    /\ renews' = (renews \/ waiting)
    /\ waiting' = FALSE
    /\ UNCHANGED <<ready, subscribed, retained, inbox, faultVars, seenVars>>

\* Mutant: what was queued is discarded with the old connection.
ConnectAfresh ==
    /\ link = "down"
    /\ link' = "up"
    /\ wire' = IF renews \/ waiting THEN <<SUBSCRIBE>> ELSE <<>>
    /\ queue' = <<>>
    /\ renews' = (renews \/ waiting)
    /\ waiting' = FALSE
    /\ UNCHANGED <<ready, subscribed, retained, inbox, faultVars, seenVars>>

\* Mutant: what was queued is sent and stays queued.
ConnectKeepsQueue ==
    /\ link = "down"
    /\ link' = "up"
    /\ wire' = queue \o (IF renews \/ waiting THEN <<SUBSCRIBE>> ELSE <<>>)
    /\ renews' = (renews \/ waiting)
    /\ waiting' = FALSE
    /\ UNCHANGED <<ready, queue, subscribed, retained, inbox, faultVars, seenVars>>

(***************************************************************************)
(* A connect event: the client writes what it queued, in order, renews the *)
(* subscription, and runs the listener that onModuleInit may have left.    *)
(***************************************************************************)
Connect ==
    /\ link = "down"
    /\ link' = "up"
    /\ wire' = queue \o (IF renews \/ waiting THEN <<SUBSCRIBE>> ELSE <<>>)
    /\ queue' = <<>>
    /\ renews' = (renews \/ waiting)
    /\ waiting' = FALSE
    /\ UNCHANGED <<ready, subscribed, retained, inbox, faultVars, seenVars>>

\* The connection breaks; neither side knows yet.
Break ==
    /\ link = "up"
    /\ breaks < MaxBreaks
    /\ breaks' = breaks + 1
    /\ link' = "dead"
    /\ UNCHANGED <<clientVars, queue, wire, subscribed, retained, inbox, crashes, seenVars>>

\* The client notices, by keepalive at the latest; all in flight is lost.
Notice ==
    /\ link = "dead"
    /\ link' = "down"
    /\ wire' = <<>>
    /\ cut' = cut \cup (Range(wire) \cap Calls)
    /\ subscribed' = FALSE
    /\ inbox' = None
    /\ UNCHANGED <<clientVars, queue, retained, faultVars, order, taken>>

\* The broker receives the next packet.
BrokerTakes ==
    /\ link = "up"
    /\ wire # <<>>
    /\ wire' = Tail(wire)
    /\ IF Head(wire) = SUBSCRIBE
       THEN subscribed' = TRUE /\ UNCHANGED <<retained, taken>>
       ELSE /\ taken' = taken \cup {Head(wire)}
            /\ retained' = [m \in Macs |-> IF order[Head(wire)] = [retain |-> TRUE, to |-> m]
                                          THEN Head(wire) ELSE retained[m]]
            /\ UNCHANGED subscribed
    /\ UNCHANGED <<clientVars, link, queue, inbox, faultVars, order, cut>>

\* A printer's report reaches the broker, which forwards it.
BrokerForwards(report) ==
    /\ link = "up"
    /\ subscribed
    /\ inbox = None
    /\ \E kind \in Kinds, m \in Macs : Covers(Pattern(kind), Topic(report.kind, m))
    /\ ~report.parses => crashes < MaxCrashes
    /\ inbox' = report
    /\ UNCHANGED <<clientVars, link, queue, wire, subscribed, retained, faultVars, seenVars>>

(***************************************************************************)
(* The process ends and docker starts a new one, which has nothing of the  *)
(* client's state; the broker drops the old connection.                    *)
(***************************************************************************)
Restart ==
    /\ crashes < MaxCrashes
    /\ crashes' = crashes + 1
    /\ ready' = FALSE /\ waiting' = FALSE /\ renews' = FALSE
    /\ link' = "down" /\ subscribed' = FALSE /\ inbox' = None
    /\ queue' = <<>> /\ wire' = <<>>
    /\ cut' = cut \cup ((Range(queue) \cup Range(wire)) \cap Calls)
    /\ UNCHANGED <<retained, breaks, order, taken>>

\* handleData, handleRegister and handleOid parse the payload in a promise
\* nobody catches; handleInit parses it inside the listener's try.
Fatal(report, by) == ~report.parses /\ by \in Parsed \ {"init"}

(***************************************************************************)
(* The message listener: the first handler that matches runs.  An error it *)
(* throws is logged; a rejected promise ends the process.                  *)
(***************************************************************************)
Dispatch ==
    /\ inbox # None
    /\ \E m \in Macs : \E by \in HandlersOf(Topic(inbox.kind, m)) :
          \/ Fatal(inbox, by) /\ Restart
          \/ /\ ~Fatal(inbox, by)
             /\ inbox' = None
             /\ UNCHANGED <<clientVars, link, queue, wire, subscribed, retained,
                            faultVars, seenVars>>

Next ==
    \/ onModuleInit
    \/ \E c \in Calls, m \in Macs : lockPrinter(c, m)
    \/ \E c \in Calls, to \in Macs \cup {All} : publishOta(c, to)
    \/ Connect
    \/ Break
    \/ Notice
    \/ BrokerTakes
    \/ \E report \in Reports : BrokerForwards(report)
    \/ Dispatch
    \/ Restart

(***************************************************************************)
(* Start-up finishes; the client retries every reconnectPeriod and the     *)
(* broker can be reached again; keepalive exposes a dead connection; TCP   *)
(* delivers while the connection is up.                                    *)
(***************************************************************************)
Fairness ==
    /\ WF_vars(onModuleInit)
    /\ WF_vars(Connect)
    /\ WF_vars(Notice)
    /\ WF_vars(BrokerTakes)
    /\ WF_vars(Dispatch)

Spec == Init /\ [][Next]_vars /\ Fairness

-----------------------------------------------------------------------------
\* Type invariant.
TypeOK ==
    /\ {ready, waiting, renews, subscribed} \subseteq BOOLEAN
    /\ link \in {"down", "up", "dead"}
    /\ queue \in Seq(Calls)
    /\ wire \in Seq(Packets)
    /\ retained \in [Macs -> 0..MaxCalls]
    /\ inbox \in Reports \cup {None}
    /\ breaks \in 0..MaxBreaks
    /\ crashes \in 0..MaxCrashes
    /\ order \in Seq(Orders)
    /\ taken \subseteq Calls
    /\ cut \subseteq Calls

(***************************************************************************)
(* Once onModuleInit has run, a server that is connected is subscribed or  *)
(* has the subscription on its way, whichever of start-up and connection   *)
(* came first and however often the connection broke: it never sits on a   *)
(* working connection deaf to its printers.                                *)
(***************************************************************************)
SubscribedWhileUp ==
    ready /\ link = "up" => subscribed \/ SUBSCRIBE \in Range(wire)

(***************************************************************************)
(* Messages reach the broker in the order of the calls, each at most once, *)
(* and the lock or unlock a printer obeys is never replaced by an older    *)
(* one: the queue, the socket and reconnections do not let an earlier      *)
(* decision of an operator undo a later one.                               *)
(***************************************************************************)
CommandsKeepOrder ==
    [][/\ \A c \in taken' \ taken : \A d \in taken : d < c
       /\ \A m \in Macs : retained[m] <= retained'[m]]_vars

\* How often a packet is in a sequence of packets.
Times(packet, packets) == Cardinality({i \in DOMAIN packets : packets[i] = packet})

(***************************************************************************)
(* The message of a call that was answered with success is in one place,   *)
(* once: held back, on the wire, at the broker, or caught by a break or a  *)
(* crash.  Nothing else loses it, and no reconnection sends it twice.      *)
(***************************************************************************)
EachInOnePlace ==
    \A c \in DOMAIN order :
        Times(c, queue) + Times(c, wire)
          + Cardinality({c} \cap taken) + Cardinality({c} \cap cut) = 1

(***************************************************************************)
(* Each report is handled by the handler of its own kind, as one of the    *)
(* printer that sent it: the patterns printer/+/<kind> and printer/oid/+   *)
(* do not capture each other's topics.                                     *)
(***************************************************************************)
EachReportItsHandler ==
    inbox # None =>
        \A m \in Macs :
            /\ HandlersOf(Topic(inbox.kind, m)) = {inbox.kind}
            /\ MacOf(inbox.kind, Topic(inbox.kind, m)) = m

\* A later lock or unlock is for the same printer.
Superseded(c) == \E d \in (c + 1)..Len(order) : order[d] = order[c]

(***************************************************************************)
(* A message accepted while the broker cannot be reached gets there in the *)
(* end, unless a break or crash catches it on its way; a lock or unlock is *)
(* then what the printer obeys, or a later call for the same printer has   *)
(* superseded it.                                                          *)
(***************************************************************************)
QueuedIsObeyed ==
    \A c \in Calls :
        c \in Range(queue) ~>
            \/ c \in cut
            \/ /\ c \in taken
               /\ order[c].retain => retained[order[c].to] = c \/ Superseded(c)

(***************************************************************************)
(* A server that lost its connection, or was restarted, hears its printers *)
(* again: the subscription always comes back.                              *)
(***************************************************************************)
ListensAgain == ~subscribed ~> subscribed

=============================================================================
