---------------------------- MODULE OidService ----------------------------
(***************************************************************************)
(* What the OID query service promises, with every decision taken in one   *)
(* step: an answer that arrives while its id has no record letting it      *)
(* through is dropped at once, any other waits and is then forwarded to    *)
(* the call that the record names at that moment, provided the record      *)
(* still lets it through, and the record is updated in the same step.      *)
(* Nothing is promised about the ids in disturbed, which grow when two     *)
(* handlers overlap there, but that decisions are final and answers only   *)
(* go to calls made with their id.                                         *)
(***************************************************************************)
EXTENDS Naturals

CONSTANTS
    Requests,   \* the HTTP calls
    Ids,        \* request ids
    Macs,       \* the printers
    Handlers,   \* deliveries of an answer
    None        \* no value

VARIABLES
    record,     \* the open query under each id, or None
    asked,      \* the id each call has used, or None
    answer,     \* the answer that each delivery brings, or None
    fate,       \* "open", "dropped", or the call it was forwarded to
    disturbed   \* ids about which nothing is promised any more

vars == <<record, asked, answer, fate, disturbed>>

Init ==
    /\ record    = [id \in Ids |-> None]
    /\ asked     = [r \in Requests |-> None]
    /\ answer    = [h \in Handlers |-> None]
    /\ fate      = [h \in Handlers |-> "open"]
    /\ disturbed \subseteq Ids

\* The record under id lets an answer of mac through.
Accepts(id, mac) ==
    /\ record[id] # None
    /\ record[id].mode = "broadcast" => mac \notin record[id].calledMacs

\* A call opens a query; an older one with the same id is forgotten.
Ask(r, id, mode) ==
    /\ asked[r] = None
    /\ asked'  = [asked EXCEPT ![r] = id]
    /\ record' = [record EXCEPT ![id] =
                    [callback |-> r, mode |-> mode, calledMacs |-> {}]]
    /\ UNCHANGED <<answer, fate, disturbed>>

\* A query ends when its time is over.
Forget(id) ==
    /\ record' = [record EXCEPT ![id] = None]
    /\ UNCHANGED <<asked, answer, fate, disturbed>>

Receive(h, id, mac) ==
    /\ answer[h] = None
    /\ answer' = [answer EXCEPT ![h] = [id |-> id, mac |-> mac]]
    /\ fate' = [fate EXCEPT ![h] = IF Accepts(id, mac) THEN "open" ELSE "dropped"]
    /\ UNCHANGED <<record, asked, disturbed>>

\* The one step that a caller can rely on: decide, mark and forward.
Forward(h) ==
    /\ answer[h] # None
    /\ fate[h] = "open"
    /\ LET id == answer[h].id
           mac == answer[h].mac
           open == record[id] IN
       /\ Accepts(id, mac)
       /\ fate' = [fate EXCEPT ![h] = open.callback]
       /\ record' = [record EXCEPT ![id] =
                       IF open.mode = "single" THEN None
                       ELSE [open EXCEPT !.calledMacs = @ \cup {mac}]]
    /\ UNCHANGED <<asked, answer, disturbed>>

(***************************************************************************)
(* A step at disturbed ids, which may add to them.  Other ids keep their   *)
(* promise; decisions stay final and go to a call that used the id.        *)
(***************************************************************************)
Disturb(D) ==
    /\ disturbed \subseteq D
    /\ disturbed' = D
    /\ \A id \in Ids \ D : record'[id] = record[id]
    /\ \A r \in Requests :
          asked'[r] = asked[r] \/ (asked[r] = None /\ asked'[r] \in D)
    /\ \A h \in Handlers :
          /\ answer'[h] = answer[h] \/ (answer[h] = None /\ answer'[h].id \in D)
          /\ \/ fate'[h] = fate[h]
             \/ /\ fate[h] = "open"
                /\ answer'[h].id \in D
                /\ \/ fate'[h] = "dropped"
                   \/ \E r \in Requests : fate'[h] = r /\ asked[r] = answer'[h].id

Next ==
    \/ \E r \in Requests, id \in Ids, mode \in {"broadcast", "single"} : Ask(r, id, mode)
    \/ \E id \in Ids : Forget(id)
    \/ \E h \in Handlers, id \in Ids, mac \in Macs : Receive(h, id, mac)
    \/ \E h \in Handlers : Forward(h)
    \/ \E D \in SUBSET Ids : Disturb(D)

Spec == Init /\ [][Next]_vars

=============================================================================
