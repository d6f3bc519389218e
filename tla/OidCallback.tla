---------------------------- MODULE OidCallback ----------------------------
(***************************************************************************)
(* The OID query service of PrinterService.                                *)
(*                                                                         *)
(* POST /printer/oid asks every printer for a list of OIDs, POST           *)
(* /printer/oid/:oid asks one.  The server stores a callback record in     *)
(* Redis under the request id, publishes the query over MQTT, and forwards *)
(* each answer to the caller's callback URL.  handleOid reads the record,  *)
(* decides, writes the record back (broadcast) or deletes it (single), and *)
(* only then posts: the read and the write are two awaits, so the runs of  *)
(* handleOid for several answers interleave between them.                  *)
(*                                                                         *)
(* One action is one segment of a handler between two awaits.  The effect  *)
(* of a Redis command is part of the action that issues it: the process    *)
(* has one Redis connection, which executes commands in the order issued.  *)
(***************************************************************************)
EXTENDS Naturals

CONSTANTS
    Requests,    \* the HTTP calls; a call also stands for its callback URL
    Ids,         \* request ids, chosen by the client or by randomUUID()
    EmptyId,     \* the empty string, which the DTO accepts as a requestId
    Macs,        \* the printers
    Handlers,    \* deliveries of an answer: one run of handleOid each
    None,        \* no value: a cache miss, an unset field
    MaxCrashes   \* bound on the crashes of the process

ASSUME CrashAssumption == MaxCrashes \in Nat

\* Clients choose their ids freely, so that the empty one is among them.
ASSUME IdAssumption == EmptyId \in Ids

VARIABLES
    cache,       \* Redis: the record under oid:callback:<id>, or None
    call,        \* progress of each HTTP call
    query,       \* what each HTTP call asked
    stage,       \* progress of each run of handleOid
    answer,      \* the answer each run of handleOid was given
    held,        \* the record each run of handleOid read
    crashes,     \* how often the process has crashed
    \* Observations, read by properties only:
    raced,       \* ids whose record was touched inside a read-write window
    gone,        \* ids whose record has expired or been consumed
    latest       \* the call whose record an atomic store would now hold

vars == <<cache, call, query, stage, answer, held, crashes, raced, gone, latest>>

callVars    == <<call, query>>
handlerVars == <<stage, answer, held>>

Modes == {"broadcast", "single"}

Record == [callback : Requests, mode : Modes, calledMacs : SUBSET Macs]
Query  == [id : Ids, mode : Modes, to : SUBSET Macs]
Answer == [id : Ids, mac : Macs]

ASSUME NoneAssumption == None \notin Requests \cup Record \cup Query \cup Answer

CallStates == {"new", "saved", "sent", "aborted"}

(***************************************************************************)
(* Stages of a run of handleOid.  "read" awaits cache.get, "marked" awaits *)
(* cache.set or cache.del; the others are final.  "died" and "lost" are    *)
(* runs cut short by a crash before and after they claimed the callback.   *)
(***************************************************************************)
Stages == {"new", "read", "marked", "posted", "failed",
           "ignored", "unknown", "repeat", "died", "lost"}

Init ==
    /\ cache   = [id \in Ids |-> None]
    /\ call    = [r \in Requests |-> "new"]
    /\ query   = [r \in Requests |-> None]
    /\ stage   = [h \in Handlers |-> "new"]
    /\ answer  = [h \in Handlers |-> None]
    /\ held    = [h \in Handlers |-> None]
    /\ crashes = 0
    /\ raced   = {}
    /\ gone    = {}
    /\ latest  = [id \in Ids |-> None]

-----------------------------------------------------------------------------
\* h read a record that lets its printer's answer through.
Accepts(h) ==
    /\ held[h] # None
    /\ held[h].mode = "broadcast" => answer[h].mac \notin held[h].calledMacs

\* h has decided to post and has not yet written its decision to Redis.
InWindow(h) == stage[h] = "read" /\ Accepts(h)

\* Touching the record of id now falls inside some run's window.
Races(id) ==
    IF \E h \in Handlers : InWindow(h) /\ answer[h].id = id THEN {id} ELSE {}

-----------------------------------------------------------------------------
\* Mutant: the stored record lacks the callback URL.
SaveRecordBare(r, q) ==
    /\ call[r] = "new"
    /\ q.mode = "broadcast" => q.to = Macs
    /\ q.mode = "single" => \E m \in Macs : q.to = {m}
    /\ call'   = [call EXCEPT ![r] = "saved"]
    /\ query'  = [query EXCEPT ![r] = q]
    /\ cache'  = [cache EXCEPT ![q.id] =
                    [callback |-> None, mode |-> q.mode, calledMacs |-> {}]]
    /\ raced'  = raced \cup Races(q.id)
    /\ latest' = [latest EXCEPT ![q.id] = r]
    /\ UNCHANGED <<handlerVars, crashes, gone>>

(***************************************************************************)
(* publishOidInternal up to its await: the record is stored with a fresh   *)
(* TTL and replaces any record that has the same id.                       *)
(***************************************************************************)
SaveRecord(r, q) ==
    /\ call[r] = "new"
    /\ q.mode = "broadcast" => q.to = Macs
    /\ q.mode = "single" => \E m \in Macs : q.to = {m}
    /\ call'   = [call EXCEPT ![r] = "saved"]
    /\ query'  = [query EXCEPT ![r] = q]
    /\ cache'  = [cache EXCEPT ![q.id] =
                    [callback |-> r, mode |-> q.mode, calledMacs |-> {}]]
    /\ raced'  = raced \cup Races(q.id)
    /\ latest' = [latest EXCEPT ![q.id] = r]
    /\ UNCHANGED <<handlerVars, crashes, gone>>

\* The rest of publishOidInternal: the query goes out and the call returns.
PublishQuery(r) ==
    /\ call[r] = "saved"
    /\ call' = [call EXCEPT ![r] = "sent"]
    /\ UNCHANGED <<query, cache, handlerVars, crashes, raced, gone, latest>>

\* Mutant: the record is read under a key that ignores the request id.
ReadRecordAnyKey(h, r, m) ==
    /\ stage[h] = "new"
    /\ call[r] = "sent"
    /\ m \in query[r].to
    /\ query[r].id # EmptyId
    /\ stage'  = [stage EXCEPT ![h] = "read"]
    /\ answer' = [answer EXCEPT ![h] = [id |-> query[r].id, mac |-> m]]
    /\ \E id \in Ids : held' = [held EXCEPT ![h] = cache[id]]
    /\ raced'  = raced \cup Races(query[r].id)
    /\ UNCHANGED <<cache, callVars, crashes, gone, latest>>

(***************************************************************************)
(* handleOid up to its first await.  A printer that a published query      *)
(* addresses may answer it at any later time and more than once.           *)
(***************************************************************************)
ReadRecord(h, r, m) ==
    /\ stage[h] = "new"
    /\ call[r] = "sent"
    /\ m \in query[r].to
    /\ query[r].id # EmptyId
    /\ stage'  = [stage EXCEPT ![h] = "read"]
    /\ answer' = [answer EXCEPT ![h] = [id |-> query[r].id, mac |-> m]]
    /\ held'   = [held EXCEPT ![h] = cache[query[r].id]]
    /\ raced'  = raced \cup Races(query[r].id)
    /\ UNCHANGED <<cache, callVars, crashes, gone, latest>>

\* if (!requestId) return: the empty string counts as no request id.
IgnoreAnswer(h, r, m) ==
    /\ stage[h] = "new"
    /\ call[r] = "sent"
    /\ m \in query[r].to
    /\ query[r].id = EmptyId
    /\ stage'  = [stage EXCEPT ![h] = "ignored"]
    /\ answer' = [answer EXCEPT ![h] = [id |-> EmptyId, mac |-> m]]
    /\ UNCHANGED <<held, cache, callVars, crashes, raced, gone, latest>>

\* if (!record?.callback) return
DropUnknown(h) ==
    /\ stage[h] = "read"
    /\ held[h] = None
    /\ stage' = [stage EXCEPT ![h] = "unknown"]
    /\ UNCHANGED <<answer, held, cache, callVars, crashes, raced, gone, latest>>

\* if (calledMacs.includes(mac)) return
DropRepeat(h) ==
    /\ stage[h] = "read"
    /\ held[h] # None
    /\ ~Accepts(h)
    /\ stage' = [stage EXCEPT ![h] = "repeat"]
    /\ UNCHANGED <<answer, held, cache, callVars, crashes, raced, gone, latest>>

\* Mutant: a broadcast's record is deleted like a single's.
MarkCalledDeletes(h) ==
    /\ InWindow(h)
    /\ held[h].mode = "broadcast"
    /\ stage' = [stage EXCEPT ![h] = "marked"]
    /\ cache' = [cache EXCEPT ![answer[h].id] = None]
    /\ UNCHANGED <<answer, held, callVars, crashes, raced, gone, latest>>

\* Mutant: the record goes back with this printer alone marked.
MarkCalledAlone(h) ==
    /\ InWindow(h)
    /\ held[h].mode = "broadcast"
    /\ stage' = [stage EXCEPT ![h] = "marked"]
    /\ cache' = [cache EXCEPT ![answer[h].id] =
                   [held[h] EXCEPT !.calledMacs = {answer[h].mac}]]
    /\ UNCHANGED <<answer, held, callVars, crashes, raced, gone, latest>>

\* Broadcast: the record read earlier goes back with this printer added.
MarkCalled(h) ==
    /\ InWindow(h)
    /\ held[h].mode = "broadcast"
    /\ stage' = [stage EXCEPT ![h] = "marked"]
    /\ cache' = [cache EXCEPT ![answer[h].id] =
                   [held[h] EXCEPT !.calledMacs = @ \cup {answer[h].mac}]]
    /\ UNCHANGED <<answer, held, callVars, crashes, raced, gone, latest>>

\* Mutant: the record of a single query is not deleted.
TakeRecordKeeps(h) ==
    /\ InWindow(h)
    /\ held[h].mode = "single"
    /\ stage' = [stage EXCEPT ![h] = "marked"]
    /\ UNCHANGED <<answer, held, cache, callVars, crashes, raced, gone, latest>>

\* Mutant: the run goes on only when it deleted the record itself.
TakeRecordIfThere(h) ==
    /\ InWindow(h)
    /\ held[h].mode = "single"
    /\ cache[answer[h].id] # None
    /\ stage'  = [stage EXCEPT ![h] = "marked"]
    /\ cache'  = [cache EXCEPT ![answer[h].id] = None]
    /\ gone'   = gone \cup {answer[h].id}
    /\ latest' = [latest EXCEPT ![answer[h].id] = None]
    /\ UNCHANGED <<answer, held, callVars, crashes, raced>>

\* Single: the record is deleted, whatever it holds by now.
TakeRecord(h) ==
    /\ InWindow(h)
    /\ held[h].mode = "single"
    /\ stage'  = [stage EXCEPT ![h] = "marked"]
    /\ cache'  = [cache EXCEPT ![answer[h].id] = None]
    /\ gone'   = gone \cup {answer[h].id}
    /\ latest' = [latest EXCEPT ![answer[h].id] = None]
    /\ UNCHANGED <<answer, held, callVars, crashes, raced>>

\* Mutant: the mark is written again after the POST.
PostThenMark(h) ==
    /\ stage[h] = "marked"
    /\ stage' = [stage EXCEPT ![h] = "posted"]
    /\ cache' = [cache EXCEPT ![answer[h].id] = held[h]]
    /\ UNCHANGED <<answer, held, callVars, crashes, raced, gone, latest>>

(***************************************************************************)
(* The POST to the callback URL.  An error or the 10 s timeout is logged   *)
(* and swallowed: nothing is retried and the record keeps its mark.        *)
(***************************************************************************)
Post(h) ==
    /\ stage[h] = "marked"
    /\ \E outcome \in {"posted", "failed"} :
          stage' = [stage EXCEPT ![h] = outcome]
    /\ UNCHANGED <<answer, held, cache, callVars, crashes, raced, gone, latest>>

-----------------------------------------------------------------------------
\* Redis drops a record OID_CALLBACK_TTL after it was last written.
Expire(id) ==
    /\ cache[id] # None
    /\ cache'  = [cache EXCEPT ![id] = None]
    /\ raced'  = raced \cup Races(id)
    /\ gone'   = gone \cup {id}
    /\ latest' = [latest EXCEPT ![id] = None]
    /\ UNCHANGED <<callVars, handlerVars, crashes>>

(***************************************************************************)
(* The process dies and is restarted; Redis keeps its records.  Calls and  *)
(* runs of handleOid that were awaiting something never resume.            *)
(***************************************************************************)
Crash ==
    /\ crashes < MaxCrashes
    /\ crashes' = crashes + 1
    /\ call'  = [r \in Requests |-> IF call[r] = "saved" THEN "aborted" ELSE call[r]]
    /\ stage' = [h \in Handlers |-> CASE stage[h] = "read"   -> "died"
                                      [] stage[h] = "marked" -> "lost"
                                      [] OTHER               -> stage[h]]
    /\ UNCHANGED <<query, answer, held, cache, raced, gone, latest>>

\* Nothing is being awaited and no call is left to make: the model may rest.
Quiet ==
    /\ \A r \in Requests : call[r] \in {"sent", "aborted"}
    /\ \A h \in Handlers : stage[h] \notin {"read", "marked"}
    /\ UNCHANGED vars

Resume(h) ==
    DropUnknown(h) \/ DropRepeat(h) \/ MarkCalled(h) \/ TakeRecord(h) \/ Post(h)

Next ==
    \/ \E r \in Requests, q \in Query : SaveRecord(r, q)
    \/ \E r \in Requests : PublishQuery(r)
    \/ \E h \in Handlers, r \in Requests, m \in Macs : ReadRecord(h, r, m)
    \/ \E h \in Handlers, r \in Requests, m \in Macs : IgnoreAnswer(h, r, m)
    \/ \E h \in Handlers : Resume(h)
    \/ \E id \in Ids : Expire(id)
    \/ Crash
    \/ Quiet

(***************************************************************************)
(* The event loop resumes a handler once Redis has replied or axios has    *)
(* finished or timed out; nothing makes a client call, a printer answer or *)
(* a record expire.                                                        *)
(***************************************************************************)
Fairness ==
    /\ \A r \in Requests : WF_vars(PublishQuery(r))
    /\ \A h \in Handlers : WF_vars(Resume(h))

Spec == Init /\ [][Next]_vars /\ Fairness

-----------------------------------------------------------------------------
(***************************************************************************)
(* Type invariant.                                                         *)
(***************************************************************************)
TypeOK ==
    /\ cache   \in [Ids -> Record \cup {None}]
    /\ call    \in [Requests -> CallStates]
    /\ query   \in [Requests -> Query \cup {None}]
    /\ stage   \in [Handlers -> Stages]
    /\ answer  \in [Handlers -> Answer \cup {None}]
    /\ held    \in [Handlers -> Record \cup {None}]
    /\ crashes \in 0..MaxCrashes
    /\ raced   \subseteq Ids
    /\ gone    \subseteq Ids
    /\ latest  \in [Ids -> Requests \cup {None}]

\* h won the right to post: it is past the await of cache.set or cache.del.
Claimed(h) == stage[h] \in {"marked", "posted", "failed", "lost"}

\* Two runs of handleOid claimed the callback of the same call, r.
ClaimedTwice(g, h, r) ==
    /\ g # h
    /\ Claimed(g) /\ held[g].callback = r
    /\ Claimed(h) /\ held[h].callback = r

(***************************************************************************)
(* A broadcast call is called back at most once per printer and a single   *)
(* call at most once, however answers are repeated, delayed or cut short   *)
(* by crashes, expiry and reused ids, as long as the record was not        *)
(* touched between some run's cache.get and its cache.set or cache.del.    *)
(* A POST that failed is therefore not retried by a repeated answer.       *)
(***************************************************************************)
OncePerPrinter ==
    \A g, h \in Handlers, r \in Requests :
        ClaimedTwice(g, h, r) /\ answer[h].id \notin raced
            => /\ held[h].mode = "broadcast"
               /\ answer[g].mac # answer[h].mac

(***************************************************************************)
(* The record under an id is that of the last call accepted with this id,  *)
(* and once expired or consumed it stays away until the next call: without *)
(* a race handleOid neither brings back an older record nor revives one.   *)
(***************************************************************************)
RecordIsLatest ==
    \A id \in Ids \ raced :
        /\ cache[id] = None <=> latest[id] = None
        /\ cache[id] # None => cache[id].callback = latest[id]

(***************************************************************************)
(* An answer is forwarded to a call made with the answer's request id and, *)
(* if no other call used that id, to the call whose published query        *)
(* addressed the answering printer.                                        *)
(***************************************************************************)
CallbackMatchesQuery ==
    \A h \in Handlers : Claimed(h) =>
        LET r == held[h].callback IN
        /\ query[r] # None
        /\ query[r].id = answer[h].id
        /\ \/ call[r] = "sent" /\ answer[h].mac \in query[r].to
           \/ \E s \in Requests \ {r} : query[s] # None /\ query[s].id = query[r].id

(***************************************************************************)
(* handleOid gives up on an answer only for a reason: the record really    *)
(* expired or was consumed (it was stored before the query went out), the  *)
(* same printer already claimed this callback, or the id is empty.         *)
(***************************************************************************)
DropsAreExplained ==
    \A h \in Handlers :
        /\ stage[h] = "unknown" => answer[h].id \in gone
        /\ stage[h] = "repeat" =>
              \E g \in Handlers \ {h} :
                  /\ Claimed(g)
                  /\ held[g].callback = held[h].callback
                  /\ answer[g].mac = answer[h].mac
        /\ stage[h] = "ignored" => answer[h].id = EmptyId

(***************************************************************************)
(* Unless the process crashes, an answer that found a record letting it    *)
(* through is posted to the callback, whatever happens to the record       *)
(* meanwhile: marking the record never costs the callback.                 *)
(***************************************************************************)
AcceptedIsPosted ==
    \A h \in Handlers :
        InWindow(h) ~> (stage[h] \in {"posted", "failed"} \/ crashes > 0)

-----------------------------------------------------------------------------
\* An answer's fate is sealed when a run that lets it through marks the record,
\* or when a run reads a record that does not let it through.
FateOf(h) ==
    CASE Claimed(h)                                          -> held[h].callback
      [] stage[h] = "ignored"                                -> "dropped"
      [] stage[h] \in {"read", "unknown", "repeat", "died"} /\ ~Accepts(h) -> "dropped"
      [] OTHER                                               -> "open"

Service == INSTANCE OidService WITH
    record    <- cache,
    asked     <- [r \in Requests |-> IF query[r] = None THEN None ELSE query[r].id],
    fate      <- [h \in Handlers |-> FateOf(h)],
    disturbed <- raced \cup {EmptyId}

(***************************************************************************)
(* For every id that no two handlers touched in an overlap, the service    *)
(* behaves as if reading the record, deciding and writing it back were one *)
(* step: the awaits between them, crashes, expiry and reused ids give no   *)
(* result that this atomic service could not give.  The empty id, whose    *)
(* answers handleOid ignores, is excepted.                                 *)
(***************************************************************************)
ImplementsOidService == Service!Spec

(***************************************************************************)
(* What the API documentation says (printer.controller.ts:131 and :152):   *)
(* each printer's answer to a broadcast is called back once, the answer to *)
(* a single query once.  The code does not keep this when answers race.    *)
(***************************************************************************)
CalledBackOnce ==
    \A g, h \in Handlers, r \in Requests :
        ClaimedTwice(g, h, r)
            => held[h].mode = "broadcast" /\ answer[g].mac # answer[h].mac

=============================================================================
