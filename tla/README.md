# Verification of the printer server

TLA+ specifications of the printer server (a NestJS application in `src/src/`), checked with
TLC and, as far as safety goes, proved with TLAPS. Paths below are relative to `src/src/`.

The server sits between printers, which speak MQTT, and operators, who speak HTTP. It
registers printers, locks and unlocks them, keeps their counters, takes monthly snapshots of
the counters, forwards answers to ad-hoc OID queries, and distributes firmware. Its state is in
MySQL, Redis and a file store; the process itself keeps little, but it runs many asynchronous
handlers between which these stores change. That is where the difficulties are.

## 1. Inventory

| Component | State | Operations | Hard behaviour | What makes it correct |
|---|---|---|---|---|
| **OID queries** (`printer/printer.service.ts` 74-107, 213-261) | callback records in Redis, 30 s TTL | `POST /printer/oid`, `/oid/:oid`; `handleOid` on each answer | read and write of a record are two awaits; ids may be reused; records expire; crashes | each printer's answer is forwarded once, to the right caller, and dropped only for a reason |
| **Registration** (`printer_register/`, `handleRegister`) | table `pre_printer_register`, QR files, last status and retained unlock of each printer | register message, `PATCH`, `DELETE`, QR redirect | update-or-insert in two commands without a unique key; file and row are written separately; what is published may be out of date; UPDATEs of one printer execute in any order | one row per printer, rows and files match, a printer is unlocked exactly if it was named, a QR code leads to the printer's last address |
| **Snowflake ids** (`lib/snowflake/`) | last timestamp and sequence, in memory | `generate()` | several readings of a clock that moves and may be set back; restarts forget | ids are unique and increase |
| **OTA store** (`ota/`) | table `pre_ota`, firmware files | upload, `DELETE` in a transaction, `publishOta` | the file store is outside the transaction; lock waits; unique versions; uploads cut short | rows and files match, deletions end |
| **Printer table** (`handleData`, `entity/printer.entity.ts`) | table `pre_printer` | upsert for each data message | upserts of one printer execute in any order; two unique keys; a rejected promise ends the process | the row is what the printer said last |
| **Monthly statistics** (`printer/printer-snapshot.service.ts`, `printer-monthly.service.ts`) | table `pre_printer_monthly` | cron job, manual snapshot, queries | month arithmetic; the cron job's single chance; a query's two reads | snapshots are of the month before and final, differences follow the documented formula |
| **MQTT connection and dispatch** (`shared/mqtt.service.ts`, `config/mqtt.module.ts`, `onModuleInit`, `lib/mqtt-match/`) | the client's queue, the broker's subscription and retained messages | lock, unlock, firmware messages, dispatch of reports | connection before or after start-up; connections that break unnoticed; messages queued and lost; `clean: true` | a connected server is subscribed; messages keep their order and are sent once; each report reaches its handler |
| **SSE gateway** (`shared/sse-gateway.service.ts`) | map of clients | connect, close, send, broadcast | writes that throw while iterating; ends that vanish without a word | a client gets every event once, in order; a closed one is forgotten |
| **File storage** (`shared/storage/`) | files | upload, delete, getUrl; local, MinIO and TOS drivers | - | an uploaded file can be fetched |
| **HTTP pipeline** (`main.ts`, `middlewares/`, the controllers) | the requests at work | proxy, API key guard, pipes, handler, interceptor, exception filter | status line and envelope are set in different places; a request may end in any of them, or with the process | each answer has the status documented for what was asked, and its envelope agrees |
| **Configuration, logging, Swagger** | none | at start-up | - | - |

How they interact. The MQTT listener of `PrinterService.onModuleInit` calls the handlers and
awaits none of them (`void handler.handle`); `handleRegister` calls the registration service,
which calls the storage, the id generator and MySQL and publishes through `MqttService`;
`handleOid` uses Redis and axios; `handleData` fills the table that the snapshots read. Within
the process only the code between two awaits is atomic. A handler that rejects ends the
process, since nothing listens for unhandled rejections, and docker restarts it
(`restart: unless-stopped`).

## 2. Modelling conventions

- One action is one segment of a handler between two awaits, or the execution of the command
  it awaits. Redis has one connection and executes commands in the order they are issued, so
  its effect belongs to the issuing action. MySQL (pooled connections) and the storage execute
  a command at any later time: there the action is the execution. A crash while the command is
  awaited then covers both a command that was executed and one that was not.
- Crashes, restarts, failed commands and broken connections are actions, bounded by constants
  (`MaxCrashes`, `MaxFaults`, `MaxBreaks`, `MaxDeaths`, `MaxRestarts`).
- Identity stands for data: a call is its callback URL, a register message is the key of the
  QR file its run uploads, an upload the key of its file, the number of a call its message.
- Variables under "Observations" are never read by an action's guard. They record that a named
  race has happened, so that a property can say what holds *outside* this race. The race
  itself is described by the module that uses it, and where the code's documentation rules the
  race out there is a run that shows it happening.
- Definitions marked `Mutant:` are not part of any specification: each is a changed form of
  the definition below it, with which a property fails.

## 3. Modules

**OidCallback.** `cache` is Redis, `call`/`query` the HTTP calls, `stage`/`answer`/`held` the
runs of `handleOid` and what they read. `SaveRecord`, `PublishQuery` are the two segments of
`publishOidInternal`; `ReadRecord`, `IgnoreAnswer`, `DropUnknown`, `DropRepeat`, `MarkCalled`,
`TakeRecord`, `Post` those of `handleOid`; `Expire` and `Crash` the environment. `raced` holds
the ids whose record was read, replaced or expired while some run was between its read and its
write. **OidService** is the service a caller may imagine: read, decision and write are one step,
`Forward`, and nothing is promised of ids in `disturbed`. OidCallback implements it with
`disturbed <- raced \cup {EmptyId}`; a run has decided when it has written its mark (`FateOf`).
The DTO accepts the empty string as an id (`EmptyId`), which `handleOid` ignores.

**PrinterRegistration.** `rows`, `nextId`, `files` are the table and the storage; `register`,
`patch`, `delete` the progress of the three operations; `told` and `unlocked` what printers were
last sent. TypeORM's mysql2 driver reports matched rather than changed rows as `affected`
(FOUND_ROWS), so an UPDATE that changes nothing still counts as a hit. A row's `lanIp` is the
address its QR code redirects to (`findByUuid`); an address is the message that brought it. An
upload that fails or is cut short by a crash may leave a part of the file. `identifier` is unique,
`printer_id` is not. `raced` holds printers for which two runs missed the row together, `stale`
printers whose last status may be out of date: it was published after its row had changed, or a
run stopped before publishing. `newest` is the last message of each printer and `overlapped` the
printers that sent one before their last was stored. The module implements RecordCatalog too.

**Snowflake.** `clock` may advance by any amount or be set back between two readings of
`generate()`. The waiting loop is the state `waiting = "spin"`. A restart takes at least a
millisecond. `slipped` says that the clock was set back between the end of the loop and the
reading after it.

**RecordCatalog, OtaStore.** RecordCatalog states what callers of a store with a row and a file
per record are promised: a record appears once, disappears once and only on request, and the
answers agree with that. OtaStore models upload and `DELETE` with the transaction's row lock, lock
waits, rollback, refused versions, partly written files and crashes, and implements RecordCatalog
under the mapping `EntryOf`, `AnswerOf`: a record disappears when its file does.

**Calendar, PrinterTable, MonthlySnapshot.** PrinterTable is `pre_printer` and `handleData`.
MonthlySnapshot extends it with the snapshots and queries; Calendar has the month arithmetic,
including the overflow of `Date.setMonth`. Of nine numbers two are modelled: `c_cp`, because
one SQL text copies another column into it, and `c_p`, which stands for the four other page
counters. The four toner levels are stored and copied in the same way, but they go down by nature
and are documented to have negative differences (`printer.controller.ts` 178), so that no property
about rising counters holds of them.
A snapshot is one INSERT ... SELECT statement and one action; a call executes its statement on
the day it is made. `raced`, `lost` and `displaced` hold printers of which two messages were
in flight together, whose last message died with the process, and whose row was taken over by
another printer that showed its serial number.

**MqttTopics, MqttLink.** MqttTopics has the topic patterns, `matchTopic` as the loop it is, the
choice of the handler, and the broker's own matching rule. MqttLink is the connection: `link` is
down, up, or dead (broken, not yet noticed); `queue` and `wire` are packets held back and packets
written; `subscribed` and `retained` are the broker's. `order` holds what each accepted call
publishes, `taken` the messages that reached the broker, `cut` those that a break or a crash
caught. QoS is 0 throughout, so everything in flight when a connection breaks is lost. mqtt.js and
the broker are modelled from how the code uses them: the client queues while it is disconnected,
sends the queue in order on connect, and renews its subscription; the broker forgets it with the
connection (`clean: true`). The client id is taken to be configured (`MQTT_CLIENT_ID`), so that a
new connection supersedes an old one. Lock and unlock are retained for one printer; a firmware
message goes to one printer or all and is not retained. OID queries and registration states pass
the client as firmware messages do, so they are not told apart.

**SseGateway, HttpServer.** SseGateway is the map of clients and what is written to each;
everything it does is synchronous, so an action is a whole method. Its variables `sent`,
`joined` and `threw` are observations. HttpServer extends it with the pipeline of `main.ts` and the
controllers: `request` is what each connection asks and is answered. `RefuseKey`,
`RefuseArguments`, `Handle`, `streamEvents` and `Proxy` are the synchronous part up to the
handler's first await; `Finish` the settling of the handler's promise. What happens in between is
in the other modules: here a handler ends with one of the outcomes it can have for what it was
asked (`OutcomesOf`), services that fail included. `Asked` are the kinds of requests that the
answers tell apart: arguments that a pipe refuses, a record that is not there, a query with half a
month, a firmware file without a proper version. `ProxyAnswers` is the answer of EMQX. `StatusOf`
and `CodeOf` give the status line and the code in the envelope, which the program sets in different
places; `DocumentedSuccess`, `Throws400` and `Throws404` what the API documentation says, and
`Divergent` where the program does not do so (section 5).

The MC modules instantiate these for TLC; PROJECT.json maps every definition to the lines it
models.

## 4. Runs

| Run | Instance | What it shows |
|---|---|---|
| `OidCallback` | 2 calls, 2 ids (one empty), 2 printers, 2 answers, 1 crash | outside races a callback is claimed once per printer, the record is that of the latest call, answers reach a call that asked, drops have a reason; an accepted answer is posted unless the process crashes; OidService is implemented |
| `OidCalledBackOnce` (violation) | no crash | two overlapping answers are both posted, although the API documentation says once |
| `PrinterRegistration` | 2 printers, 2 register messages, 2 PATCHes and 2 DELETEs of which 3 are made, 1 fault | one row per printer, rows and files match, unlocked with cause and if named, told the current status, QR codes lead to the last address; RecordCatalog is implemented |
| `Snowflake` | 2 numbers per millisecond, 4 clock values, 2 set-backs, 1 restart | ids are unique and increase, up to the two named cases |
| `OtaStore` | 2 versions, 2 uploads, 2 DELETEs, 1 fault | rows and files match, DELETEs end, RecordCatalog is implemented |
| `OtaDeleteIsAtomic` (violation) | same | a rolled-back DELETE has already removed the file, although a comment promises atomicity |
| `MonthlySnapshot` | 2 printers, 2 serials, 31 December to 1 February, 1 death | stored counters are current and never fall, closed months stay, no negative differences, histories follow the formula |
| `ColumnsAreCopied` (violation) | 1 printer | `c_cp` receives the colour prints |
| `SnapshotsAreOfLastMonth` (violation) | 1 printer | `setMonth` overflows on the 31st |
| `AllFollowFormula` (violation) | 2 printers | the query without parameters mixes printers up |
| `MqttLink` | 2 printers, 3 calls, 2 breaks, 1 crash | a connected server is subscribed and always gets its subscription back; messages keep their order and are in one place; queued ones arrive; reports reach their handler under their printer's name |
| `HttpServer` | 2 connections, 2 channels, 2 broadcasts, 1 crash | streams are complete whatever happens to other clients; answers have the documented status in line and envelope, except for the kinds of requests in `Divergent`, each of which is answered otherwise than documented |

**Why the bounds suffice.** The races are between pairs of runs, so two of each operation make
every one of them happen, together with a crash or failed command at every point. A third answer
to an OID query or a third registration adds no new pair; the theorems of section 6 hold for any
number anyway. In `PrinterRegistration` the constraint `ThreeCalls` lets at most three of the
PATCH and DELETE calls be made, in every combination: two of one kind with one of the other, next
to two registrations. (Without it there are about 8.8 million states, all correct as well, which
is too slow to repeat.) Symmetry is used for printers, register messages, PATCHes and DELETEs
there, and for the connections of `HttpServer`, which the modules treat alike; the runs with
liveness properties use none. Snowflake needs a sequence that is used up (two numbers) and room
for the clock to be set back and catch up (four values). The dates of `MonthlySnapshot` contain a
day that the month before does not have, the turn of the year, and a 31st that the month before
does have. `MqttLink` needs a break while a command is on the wire and one while the queue is
being resent, hence two; three calls allow a firmware message between two orders for one printer.
`HttpServer` needs a client that fails next to one that does not, on the same channel or on
another, and one event before and one after it.

The numbers of the `MonthlySnapshot` counters are 0 and 1 (`c_cp` constant) in the passing run;
its properties compare counters only with each other.

**Fairness.** Continuations are weakly fair: the event loop resumes a handler once Redis, axios,
MySQL or the storage has answered, if only with an error or a timeout. This is stated where
liveness is checked, in OidCallback, OtaStore and MqttLink. OtaStore uses strong fairness for
commands that wait for a row lock, which MySQL grants in turn. In MqttLink the client reconnects
every five seconds, keepalive exposes a dead connection, and TCP delivers while the connection is
up; that the broker can be reached again is the one assumption about the world. No HTTP call,
printer message, expiry, tick of the calendar or fault is ever forced to happen. `Quiet` lets
OidCallback, PrinterRegistration, OtaStore and HttpServer rest when nothing is under way, so that
TLC's deadlock check still finds a run that is stuck half-way.

**What the properties excuse.** Where the code itself goes wrong and no document promises more, a
property names the case and holds outside it; it then shows how far the damage goes, not that the
case cannot happen. The cases are: in OidCallback an id that is empty, reused or answered twice at
once (`raced`), and a mark whose POST a crash prevented; in PrinterRegistration overlapping
registrations (`raced`, `overlapped`), a status that went out late (`stale`), and a DELETE or PATCH
that was broken off; in PrinterTable overlapping messages, messages that died with the process,
and rows taken over (`raced`, `lost`, `displaced`); in MonthlySnapshot a month that the cron job
missed, which counts as zero in the next month's differences as documented; in MqttLink messages
cut off on the wire (`cut`). Two cases excused although a document does promise more are the
oldest row of a limited history and `Divergent` in HttpServer; section 5 lists both. The hazards in
PROJECT.json say of each which property does so.

## 5. Where code and documentation differ

The violation runs are the five places where the specification, translated from the code,
contradicts a comment or the API documentation; PROJECT.json `findings` quotes both sides.

Read off the code while modelling it, and not the subject of a run of their own:

- Requests that are documented to be refused and are not (`Divergent` in HttpServer;
  `AnswersAsDocumented` says that they are answered otherwise):
  - PATCH and GET of an unknown registration answer 200, documented is 404
    (`printer_register.controller.ts` 74, 89): `update` ignores how many rows were affected and
    `findOne` answers null (`printer_register.service.ts` 69, 81).
  - A monthly query with a `printerId` and only a year or only a month answers 200, documented is
    400 (`printer.controller.ts` 185): `findMonthly` looks at `printerId` first
    (`printer-monthly.service.ts` 36), and the history query ignores a year or month alone.
  - An upload whose version is empty or missing is not answered with 400 as documented
    (`ota.controller.ts` 42). Nothing is left of the body's type `Omit<UploadOtaDto, 'file'>` (61)
    at run time, so the ValidationPipe does not check the version: an empty one is stored and
    answered with 201, or with 500 if it is taken; with a missing one the INSERT fails (in MySQL's
    strict mode) when the firmware is stored already, and the answer is 500.
- The oldest row of a printer's history does not follow the documented formula
  (`printer.controller.ts` 176) if the limit, 12 by default, has cut off the row of the month
  before (`printer-monthly.repository.ts` 33): its difference is the cumulative value, although the
  month before has a record. `HistoryFollowsFormula` excuses this row.
- Nothing calls `broadcastToSse` (`printer.service.ts` 263): an event stream is documented to
  deliver the printers' messages (`printer.controller.ts` 220) and delivers only the greeting. As
  nothing is written to it, a client that vanishes without closing its connection is never
  noticed and stays in the map.
- The MQTT proxy is installed before the body parser (`main.ts` 34), so `req.body` is undefined
  there and bodies are not passed on, although the project's README (108) speaks of passing
  requests through.
- `createdAt` and `updatedAt` of registrations are the start time of the process
  (`printer_register.service.ts` 23).
- `POST /printer/lock` answers success although a message at QoS 0 may still be lost (`cut` in
  MqttLink shows when).
- `MqttService.onModuleDestroy` never runs, for `main.ts` enables no shutdown hooks.

## 6. Theorems

Proved for all values of the constants, under the named assumptions of the modules: bounds are
natural numbers, `None` is not a value, sizes are positive, the empty id is one that clients may
choose, the printers of the table are finitely many, the calendar starts on a date that exists.
Every safety property that a passing run checks is the statement of a theorem here, the three
refinements included, except `AnswersAsDocumented`: it compares two tables that do not depend on
the constants, so that TLC's run says all there is to say. Each proof module has an inductive
invariant made of named parts; where it says more than the properties themselves, the reason is
given.

- **OidCallbackProofs**: `TypeCorrect`, `CallbackOncePerPrinter`, `RecordIsThatOfLatestCall`,
  `ForwardedWhereAsked`, `DropsHaveReasons`, `ServiceIsAtomic`. *Argument*: while a run is between
  its read and its write and its id is not in `raced`, the record in Redis is still the one it
  read (`WindowIsFresh`) and no other run is there (`WindowIsAlone`); and a record that is still
  there remembers every printer that has claimed its call (`ClaimsAreMarked`). None of the safety
  properties is inductive without these: a second claim is excluded only because the mark of
  the first cannot have been overwritten. `Grounded` ties each record to the call that stored it.
  `ForwardedWhereAsked` and `DropsHaveReasons` use further invariants (`Explained`) that rest on
  the first ones. `ServiceIsAtomic` is the refinement of OidService: outside `raced` a mark is a
  `Forward`, because of `WindowIsFresh`; a step within somebody's window is a `Disturb`; giving an
  answer up, posting and a crash are not seen.
- **PrinterRegistrationProofs**: `TypeCorrect`, `RegisteredOnce`, `RowsKeepTheirFiles`,
  `NoFileIsOrphaned`, `UnlockedWithCause`. *Argument*: a register run in the gap between its
  missed UPDATE and its INSERT is alone (`GapIsAlone`); a file is uploaded right before its row,
  belongs to this row alone and is removed only by DELETEs of this row (`FileBeforeRow`,
  `FilesArePrivate`, `DeletedFilesAreGone`); a PATCH about to unlock has named its printer
  (`TellIsEarned`).
- **PrinterPromiseProofs**: `PatchUnlocks`, `QrCodesLeadHome`, `PrintersAreInformed`,
  `RegistrationIsCatalog`. *Argument*: a row keeps its printer and ids are not used again
  (`OldRowsStay`), so what a PATCH read is still true of the row when it publishes (`UnlockInv`).
  Outside `overlapped` a printer has at most one message that is not stored, which is the newest;
  once it is stored, all rows have it (`AddressInv`). A printer that does not know its status is
  about to be told by somebody (`StatusInv`), unless it is in `stale` or `raced`. For the catalogue,
  a row exists once it is inserted and ends with its file, whichever DELETE removes it.
- **SnowflakeProofs**: `TypeCorrect`, `NoIdTwice`, `NumbersIncrease`. *Argument*: the ids of this
  process lie below the last timestamp and number (`FreshIsPast`) and are ordered
  (`FreshIsOrdered`), those of earlier processes lie in the past of a clock that was never set
  back (`OldIsPast`); `EncodeIncreases` is the arithmetic of the bit fields.
- **OtaStoreProofs**: `TypeCorrect`, `RowsKeepTheirFiles`, `NoFileIsOrphaned`,
  `AtomicWithoutFaults`, `StoreIsCatalog`. *Argument*: from its DELETE statement on a
  transaction holds the lock of its row, unless the row was gone already (`LocksAreHeld`), so no
  other one commits between its unlink and its commit; files and rows are related as in the
  registration (`FileBeforeRow`, `FilesArePrivate`, `DeletedFilesAreGone`). `AtomicWithoutFaults` says how far the
  comment goes which the run `OtaDeleteIsAtomic` refutes: it takes a failed command or a crash.
- **MonthlySnapshotProofs**, which is also about PrinterTable and Calendar: `TypeCorrect`,
  `PastIsFinal`, `ClosedMonthsOnly`, `RowsAreCurrent`, `NoCounterFalls`, `NoNegativePages`,
  `HistoryIsRight`. *Argument*: outside `raced` a printer has at most one message in flight, which
  is what its meter shows, and its row is not ahead of the meter (`TableInv`). A snapshot is
  described by what it does to the rows of its month (`Snapshot`), so both SQL texts share their
  proofs. Differences need `Chronicle`: rows belong to months that the calendar has reached, no row
  exceeds the table, and the rows of a printer rise from month to month, those a query read
  earlier included. `ClosedMonthsOnly` says that the run `SnapshotsAreOfLastMonth` needs a day
  after the 28th.
- **MqttLinkProofs**: `TypeCorrect`, `NeverDeaf`, `NothingSentTwice`, `NoOlderCommandWins`,
  `ReportsFindTheirHandler`. *Argument*: nothing is on the wire without a connection and nothing
  is queued with one (`Idle`); a started server either renews its subscription on connect or is
  waiting to subscribe (`WillListen`). What is taken, on the wire and queued increases in this
  order and each message is in one of the places (`Placed`); with that alone a reconnection can
  neither repeat nor overtake. The last theorem rests on `MatchesSegments`: the loop of
  `matchTopic` compares segment by segment.
- **HttpServerProofs**: `TypeCorrect`, `StreamsLoseNothing`. *Argument*: a stream holds just the
  events since its client joined, in order, and this survives the writes that throw while another
  client is served (`GatewayInv`).

**Only model-checked**: `AnswersAsDocumented`, and the liveness properties `AcceptedIsPosted`, `DeletesEnd`, `QueuedIsObeyed`
and `ListensAgain`, since fairness and ENABLED are out of the prover's reach. The violation runs
are counterexamples and need no proof.

## 7. Plan

All modules and the theorems above are done. What could be added:

1. *OidCallback*: the converse of `ServiceIsAtomic`, that an id gets into `raced` only if two
   answers, or an answer and a call or the expiry, overlapped in time.
2. *PrinterRegistration*: the counterpart of `AtomicWithoutFaults`, that without crashes and failed
   commands every file ends up with a row and every row with a file.
3. The safety halves of the liveness properties as invariants: in MqttLink a message that was not
   cut is on its way or obeyed; in OtaStore a lock that is waited for belongs to a DELETE that can
   take its next step, so that only the fairness is left to TLC.

## 8. Not modelled, and why

- Configuration, wiring, CORS, Swagger, logging, the landing page, static files and deployment
  files keep no state and decide nothing at run time.
- Bodies and headers of requests and answers: only statuses and envelope codes are modelled. The
  database behind a handler is in the handler's own module, not composed with HttpServer: a
  handler ends with any of its outcomes at any time, which is more than the program can do.
- The storage drivers differ in how they name and reach a file, not in the order of effects;
  LocalStorage is the one modelled.
- Redis outages: a command that fails rejects `handleOid` and ends the process, which is what
  `Crash` does anyway.
- The waiting loop of the id generator under a clock that stands still (`generator.ts` 34): its
  progress is that of the clock alone.
- Methods nobody calls: `getClientCount`, `unsubscribe`, `off`, `onModuleDestroy`.
  `broadcastToSse` has no caller either, but `broadcast` is modelled as what the gateway offers.
