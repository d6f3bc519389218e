----------------------------- MODULE HttpServer -----------------------------
(***************************************************************************)
(* The HTTP side of the server: what main.ts puts around the controllers,  *)
(* and the controllers' own answers.                                       *)
(*                                                                         *)
(* A request passes, in this order, the MQTT proxy, the API key guard, the *)
(* pipes that check its arguments, the handler, and the interceptor that   *)
(* wraps its result into an envelope with a code of its own; whatever is   *)
(* thrown on the way is answered by the exception filter.  The first steps *)
(* run without a pause: a request is refused, becomes a stream of events,  *)
(* or is left to a handler that awaits the services, which the other       *)
(* modules describe; here a handler ends with one of the outcomes it can   *)
(* have for what it was asked.  A handler is named as in its controller,   *)
(* by the controller too where that is not enough.  A connection carries   *)
(* one request.                                                            *)
(***************************************************************************)
EXTENDS SseGateway

CONSTANT MaxCrashes   \* bound on the crashes of the process

ASSUME CrashesAssumption == MaxCrashes \in Nat

\* Where GET /printer/events puts its clients.
ASSUME ChannelAssumption == "printer" \in Channels

VARIABLES
    request,   \* the request of each connection and its answer
    crashes

vars == <<gatewayVars, request, crashes>>

-----------------------------------------------------------------------------
(* The controllers.                                                        *)

App      == {"getHello", "getProtected"}
Printers == {"listPrinters", "lockPrinter", "unlockPrinter", "countersPrinter",
             "oidList", "oidDetail", "getMonthly", "triggerSnapshot"}
Ota      == {"uploadOta", "publishOta", "ota.findAll", "ota.findOne", "ota.delete"}
Register == {"page", "findAll", "redirect", "findUnregistered", "update", "findOne", "delete"}

Handlers == App \cup Printers \cup Ota \cup Register \cup {"streamEvents"}

\* @RequireApiKey
Keyed == Printers \cup {"getProtected"}

\* A DTO, ParseIntPipe or ParseFilePipe may refuse the arguments.
Checked == (Printers \cup Ota \cup {"update", "findOne", "delete"})
             \ {"listPrinters", "ota.findAll", "ota.findOne", "ota.delete"}

Posts    == {"lockPrinter", "unlockPrinter", "oidList", "oidDetail",
             "triggerSnapshot", "uploadOta", "publishOta"}
HttpCode == {"lockPrinter", "unlockPrinter", "oidList", "oidDetail", "triggerSnapshot"}

\* The handler looks for a record and throws if it is not there.
Finders == {"countersPrinter", "ota.findOne", "ota.delete", "redirect", "delete"}

\* The handler answers a record that is not there like any other.
Blind == {"update", "findOne"}

\* The handler awaits nothing that may fail.
Certain == App \cup {"lockPrinter", "unlockPrinter", "publishOta"}

\* Only year or only month: of all printers, or of the one that is named.
HalfMonths == {"halfMonth", "halfMonthOfPrinter"}

\* A firmware file without the field version, or with an empty one.  No pipe
\* looks at it: nothing is left of Omit<UploadOtaDto, 'file'> at run time.
Unversioned == {"noVersion", "emptyVersion"}

\* What a request may ask of a handler, as far as the answers tell it apart.
\* "malformed" is what a pipe refuses, "unknown" names a record that is not there.
Asked(h) ==
    {"proper"} \cup (IF h \in Checked THEN {"malformed"} ELSE {})
               \cup (IF h \in Finders \cup Blind THEN {"unknown"} ELSE {})
               \cup (IF h = "getMonthly" THEN HalfMonths ELSE {})
               \cup (IF h = "uploadOta" THEN Unversioned ELSE {})

Kinds == {"proper", "malformed", "unknown"} \cup HalfMonths \cup Unversioned

(***************************************************************************)
(* What a handler ends with if no service fails.  findMonthly looks at     *)
(* printerId first.  "constraint" is an INSERT or UPDATE that the database *)
(* refuses: the version or identifier is taken, or the version is NULL.    *)
(***************************************************************************)
ResultsOf(h, asked) ==
    CASE asked = "unknown" /\ h \in Finders -> {"missing"}
      [] asked = "halfMonth"                -> {"refused"}
      [] asked = "noVersion"                -> {"constraint"}
      [] h \in {"uploadOta", "update"} /\ asked \in {"proper", "emptyVersion"}
                                            -> {"value", "constraint"}
      [] OTHER                              -> {"value"}

OutcomesOf(h, asked) ==
    ResultsOf(h, asked) \cup (IF h \in Certain THEN {} ELSE {"error"})

\* What a handler ends with, or what keeps it from running.
Outcomes == {"value", "missing", "refused", "constraint", "error", "keyless", "invalid"}

\* The handler writes its response itself, without an envelope.
Raw == {"page", "redirect"}

\* Mutant: the answer to a POST has the framework's default status.
StatusByMethod(h) ==
    IF h = "redirect" THEN 302 ELSE IF h \in Posts THEN 201 ELSE 200

\* The HTTP status of a result: 201 for a POST unless @HttpCode says 200.
StatusOf(h) ==
    IF h = "redirect" THEN 302 ELSE IF h \in Posts \ HttpCode THEN 201 ELSE 200

\* The code in the envelope: the one a controller passes to success(), or 200,
\* which success() has as its default and the interceptor takes for a bare result.
CodeOf(h) ==
    CASE h \in Raw -> 0
      [] h \in {"uploadOta", "publishOta"} -> 201
      [] OTHER -> 200

\* Mutant: only an HttpException has a status.
ErrorOfHttpOnly(outcome) ==
    CASE outcome = "keyless" -> 401
      [] outcome \in {"invalid", "refused"} -> 400
      [] outcome = "missing" -> 404
      [] OTHER -> 0

\* fromException: status and code are those of the exception, 500 by default.
ErrorOf(outcome) ==
    CASE outcome = "keyless" -> 401
      [] outcome \in {"invalid", "refused"} -> 400
      [] outcome = "missing" -> 404
      [] OTHER -> 500

Answered(h, asked, outcome) ==
    [handler |-> h, asked |-> asked, stage |-> "answered", outcome |-> outcome,
     status  |-> IF outcome = "value" THEN StatusOf(h) ELSE ErrorOf(outcome),
     code    |-> IF outcome = "value" THEN CodeOf(h) ELSE ErrorOf(outcome)]

Pending(h, asked, stage) ==
    [handler |-> h, asked |-> asked, stage |-> stage, outcome |-> "none",
     status |-> 0, code |-> 0]

-----------------------------------------------------------------------------
Init ==
    /\ GatewayInit
    /\ request = [c \in Conns |-> Pending("none", "none", "idle")]
    /\ crashes = 0

Arrives(c) ==
    /\ conn[c] = "idle"
    /\ conn' = [conn EXCEPT ![c] = "open"]

Becomes(c, r) == request' = [request EXCEPT ![c] = r]

\* ApiKeyGuard: the key is missing or wrong.  Nobody looks at the arguments.
RefuseKey(c, h) ==
    /\ h \in Keyed
    /\ Arrives(c)
    /\ Becomes(c, Answered(h, "none", "keyless"))
    /\ UNCHANGED <<clients, written, sent, joined, threw, crashes>>

\* ValidationPipe and its like: the guard, if any, has let the request pass.
RefuseArguments(c, h) ==
    /\ "malformed" \in Asked(h)
    /\ Arrives(c)
    /\ Becomes(c, Answered(h, "malformed", "invalid"))
    /\ UNCHANGED <<clients, written, sent, joined, threw, crashes>>

\* GET /printer/events: the response stays open.
streamEvents(c, throws) ==
    /\ Arrives(c)
    /\ addClient(c, "printer", throws)
    /\ Becomes(c, Pending("streamEvents", "proper", "streaming"))
    /\ UNCHANGED <<sent, crashes>>

Handle(c, h, asked) ==
    /\ h \in Handlers \ {"streamEvents"}
    /\ asked \in Asked(h) \ {"malformed"}
    /\ Arrives(c)
    /\ Becomes(c, Pending(h, asked, "handling"))
    /\ UNCHANGED <<clients, written, sent, joined, threw, crashes>>

\* The handler's promise settles, be the connection still there or not.
Finish(c, outcome) ==
    /\ request[c].stage = "handling"
    /\ outcome \in OutcomesOf(request[c].handler, request[c].asked)
    /\ Becomes(c, Answered(request[c].handler, request[c].asked, outcome))
    /\ UNCHANGED <<gatewayVars, crashes>>

\* Any path under /mqtt goes to EMQX, before guard and pipes.
Proxy(c) ==
    /\ Arrives(c)
    /\ Becomes(c, Pending("mqttProxy", "none", "proxied"))
    /\ UNCHANGED <<clients, written, sent, joined, threw, crashes>>

\* The status EMQX answers, or 502 if it cannot be reached; no envelope.
ProxyAnswers(c, status) ==
    /\ request[c].stage = "proxied"
    /\ Becomes(c, [request[c] EXCEPT !.stage = "answered", !.status = status])
    /\ UNCHANGED <<gatewayVars, crashes>>

Gateway ==
    /\ \/ \E c \in Conns : Vanish(c) \/ Close(c)
       \/ \E channel \in Channels, failing \in SUBSET Conns : broadcast(channel, failing)
    /\ UNCHANGED <<request, crashes>>

\* The process ends, and every connection and running handler with it.
Crash ==
    /\ crashes < MaxCrashes
    /\ crashes' = crashes + 1
    /\ conn' = [c \in Conns |-> IF conn[c] = "idle" THEN "idle" ELSE "closed"]
    /\ clients' = [c \in Conns |-> None]
    /\ request' = [c \in Conns |-> IF request[c].stage \in {"handling", "proxied", "streaming"}
                                   THEN [request[c] EXCEPT !.stage = "lost"]
                                   ELSE request[c]]
    /\ UNCHANGED <<written, sent, joined, threw>>

\* No handler is at work: the server may rest.
Quiet ==
    /\ \A c \in Conns : request[c].stage \notin {"handling", "proxied"}
    /\ UNCHANGED vars

EmqxStatuses == {200, 404, 502}

Next ==
    \/ \E c \in Conns, h \in Handlers : RefuseKey(c, h) \/ RefuseArguments(c, h)
    \/ \E c \in Conns, h \in Handlers, asked \in Kinds : Handle(c, h, asked)
    \/ \E c \in Conns, throws \in BOOLEAN : streamEvents(c, throws)
    \/ \E c \in Conns : Proxy(c)
    \/ \E c \in Conns, outcome \in Outcomes : Finish(c, outcome)
    \/ \E c \in Conns, status \in EmqxStatuses : ProxyAnswers(c, status)
    \/ Gateway
    \/ Crash
    \/ Quiet

Spec == Init /\ [][Next]_vars

-----------------------------------------------------------------------------
Statuses == {200, 201, 302, 400, 401, 404, 500, 502}
Names    == Handlers \cup {"none", "mqttProxy"}

Unanswered ==
    [handler : Names, asked : Kinds \cup {"none"},
     stage : {"idle", "handling", "proxied", "streaming", "lost"},
     outcome : {"none"}, status : {0}, code : {0}]

Answers ==
    [handler : Names, asked : Kinds \cup {"none"}, stage : {"answered"},
     outcome : Outcomes \cup {"none"}, status : Statuses, code : Statuses \cup {0}]

\* Type invariant; an answer always has a status.
TypeOK ==
    /\ GatewayTypeOK
    /\ crashes \in 0..MaxCrashes
    /\ request \in [Conns -> Unanswered \cup Answers]

-----------------------------------------------------------------------------
(***************************************************************************)
(* What the API documentation promises: the @ApiResponse decorators name   *)
(* the success, 200 by default, and the @throws lines what is refused.     *)
(***************************************************************************)
DocumentedSuccess(h) ==
    CASE h \in {"uploadOta", "publishOta"} -> 201
      [] h = "redirect" -> 302
      [] OTHER -> 200

Throws400 ==
    {<<h, "malformed">> : h \in {"lockPrinter", "unlockPrinter", "countersPrinter", "oidList",
                                 "oidDetail", "uploadOta", "publishOta"}}
    \cup {<<"getMonthly", half>> : half \in HalfMonths}
    \cup {<<"uploadOta", version>> : version \in Unversioned}

Throws404 ==
    {<<h, "unknown">> : h \in {"countersPrinter", "ota.findOne", "ota.delete", "redirect",
                               "update", "findOne", "delete"}}

(***************************************************************************)
(* The requests that are documented to be refused with 400 or 404 and are  *)
(* not:                                                                    *)
(*   - a monthly query with a printerId and only a year or only a month    *)
(*     (printer.controller.ts:185), which is answered with the printer's   *)
(*     history as if neither had been given;                               *)
(*   - PATCH and GET of a registration that does not exist                 *)
(*     (printer_register.controller.ts:74, :89), answered with 200;        *)
(*   - an upload without a version or with an empty one (ota.controller.   *)
(*     ts:42).  The empty version is stored and answered with 201.  If it  *)
(*     is taken, or the version is missing, the database refuses the row   *)
(*     when the file is stored already, which is answered with 500.        *)
(***************************************************************************)
Divergent ==
    {<<"getMonthly", "halfMonthOfPrinter">>, <<"update", "unknown">>, <<"findOne", "unknown">>}
    \cup {<<"uploadOta", version>> : version \in Unversioned}

\* The request was answered, let in by the guard, and no service failed.
Served(c) ==
    /\ request[c].stage = "answered"
    /\ request[c].outcome \notin {"none", "keyless", "error"}

Request(c) == <<request[c].handler, request[c].asked>>

(***************************************************************************)
(* Answers have the status that the API documentation gives for what was   *)
(* asked, except in the cases of Divergent, each of which is answered with *)
(* something else than documented.  Of services that fail and names that   *)
(* are taken the documentation says nothing, nor does this.  An envelope   *)
(* says the same as the status line, although the two are set in different *)
(* places: a decorator or the method, and an argument of success().        *)
(***************************************************************************)
AnswersAsDocumented ==
    \A c \in Conns :
        LET r == request[c]
        IN  /\ Served(c) /\ Request(c) \in Throws400 \ Divergent => r.status = 400
            /\ Served(c) /\ Request(c) \in Throws404 \ Divergent => r.status = 404
            /\ Served(c) /\ Request(c) \in Divergent => r.status \notin {400, 404}
            /\ r.asked = "proper" /\ r.outcome = "value"
                  => r.status = DocumentedSuccess(r.handler)
            /\ r.outcome = "keyless" => r.status = 401
            /\ r.outcome # "none" =>
                  r.code = r.status \/ (r.handler \in Raw /\ r.outcome = "value")

=============================================================================
