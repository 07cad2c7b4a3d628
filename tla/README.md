# zero-examples: a verification project in TLA+

The repository is a collection of programs that use the go-zero framework. Some
are services with state of their own (chat, bookstore, shorturl), most are a page
of code around one facility of the library. This project models nearly all of
them, above all where several goroutines, processes or machines act on shared
state. It checks the models with TLC, and proves every safety invariant that the
passing runs check with TLAPS, for every value of the constants.

go-zero, MySQL, Redis, etcd, the other registries and the websocket library are
not part of the repository. They are modelled from how the programs use them, and
marked external in `PROJECT.json`.

## Inventory

| Part | State it keeps | Operations | What is hard | What makes it correct |
|---|---|---|---|---|
| chat (`chat/internal`) | `Hub.clients`; per connection the buffered channel `send`, two pumps, the socket | register, unregister, broadcast; read and write pumps; `ServeWs` | two places close a channel; slow clients; either pump may notice a broken connection first; everyone blocks on the hub | no panic, no lost or reordered message for a member, full clean-up, no circular wait |
| chat text (`client.go`, `home.html`) | the bytes of a message | replace newlines, trim, join a batch with newlines, split at newlines | batching depends on timing; empty messages | one line per message |
| bookstore (`api`, `rpc/add`, `rpc/check`, `rpc/model`) | table `book`, Redis, a single-flight barrier per process, RPCs under way | add, check; the model's update and delete | stale placeholders, flights racing with inserts, RPC timeouts while the server goes on, retries, crashes | a price that is reported is the stored one, one success per book, new books become visible |
| `bookstore/manage.sh` | pid files, the process table | start, stop, restart, status (build, logs, clean, help) | stale pid files, services that die or ignore SIGTERM, interrupts, process ids that are reused | no recorded service escapes, stop stops all of them and nothing else |
| shorturl (`api`, `rpc/transform`) | table `shorturl`, Redis, barrier | shorten, expand; the model's update and delete | 24-bit keys collide; invalidation fails or races | a key leads to the URL it was handed out for; the cache is stale only by accident |
| `rpc/tls/shorturl` | as shorturl, and certificates | as shorturl; insert without invalidation, delete after a lookup | as bookstore | as shorturl |
| `http/sse` | map of channels, one goroutine per connection, a broadcaster | serve, broadcast | unsynchronised map; channel closed by the receiver's side | order, clean-up, survival of disconnects |
| `http/breaker/client` | counters under a lock, rows of a file | count, reset, write a row | counting while resetting | every request in one row, in its column |
| `http/breaker/server` | a latch with ten slots | `/heavy`, `/good` | the server answers for a handler that is still busy | slots and busy handlers agree |
| `mapreduce/*` | the goroutines and channels of `mr` | count functions, check users, cancel, panic, forget to write | several mappers cancel or panic while others wait in a bounded collector; a reader that never closes its channel, or never stops reading | the call returns, its result is complete or it fails, nothing is left running |
| `filex`, `fx` | a dictionary, channels between stages | load by chunks; square, filter, add | chunk borders, lines that do not parse, order | every line once |
| `pool`, `syncx/sharedcalls` | resources, waiting goroutines | get, put; join a call | waiters at the limit, quit while they wait | everyone gets a turn and ends |
| `periodicalexecutor`, `timingwheel` | a container of tasks, timers in slots | add, flush; set, tick | flushes race with adds; delays longer than a turn | every task runs once, in order |
| `signal`, `servicegroup` | signal channel with one slot; two services | dump, terminate; start, stop | signals lost or late; one service cannot listen | SIGTERM ends the process |
| `load`, `load/simulate`, `breaker` | counters, windows, rows of a file | requests, reports | counters that are reset one after the other while requests end | counts add up |
| `limit/*` | counters in Redis, a rescue limiter | take | Redis goes away and comes back; the call that hits the quota | no more is allowed than the limit says |
| file services (`monolithic`, `http/upload`, `http/download`) | files on disk | upload, download | uploads of one name at once, timeouts, copies cut short | a file is what its upload has copied, a mixture only of uploads that overlapped |
| other `http/*` servers | requests, tokens, deadlines | routes with middlewares; issue, refresh, sign | handlers that outlive their timeout; tokens that expire on the way | the routes meant to time out do and no other; refreshing in time works |
| unary rpc, `graceful`, `discovery`, `gateway` | nodes, a registry, the client's list of nodes | start, stop, crash, register, call | the list is stale; nodes stop while calls are under way | failures are got over |
| `rpc/*/stream` | one stream, a WaitGroup | send, receive | answers taken while requests are sent; either side ends first | both sides end, the client with all answers |
| `tracing` | a chain of three services | call | one of them fails | |
| `etcd` | leases, the subscriber's values | publish, watch | a publisher restarts before its old lease ends, or never | the values settle on who runs |
| `logx` | files, buffers | log | two outputs, no lock around both | both tell the same story |
| `logging`, `mon`, `siphash`, `stringx`, `bloom`, `stat`, `config` | none | print what a library call returns | | |

The hazards, each with its line in the source and the properties aimed at it,
are listed in `PROJECT.json`.

### How the parts interact

* chat: browsers talk to `ServeWs`, which registers the connection with the hub
  and starts two pumps. The read pump sends to the hub over unbuffered channels;
  the hub writes to the connection's buffered channel, which the write pump
  drains into the socket. Closing that channel (by the hub) or the socket (by
  either pump) is how one part tells the others to stop.
* bookstore and shorturl: an HTTP handler makes one RPC; the RPC server runs one
  operation of a generated model; processes meet only in MySQL and Redis.
  `manage.sh` starts and stops the three processes of the bookstore.
* `http/sse`: the connections' goroutines and the broadcaster meet in a map and
  in one unbuffered channel per connection.
* `http/breaker/client`, `load/simulate`, `breaker`: requesting goroutines and a
  reporter meet in counters.
* rpc examples: a client holds a list of nodes that a registry sends it, late;
  nodes enter and leave the registry as they start, stop or lose their lease. In
  `graceful` and `gateway` an HTTP program stands in front of the rpc client.
* `tracing`: an HTTP edge calls portal, portal calls user.
* The other programs run alone, their goroutines meeting in go-zero's channels,
  pools, executors and limiters.

## Modules

| Module | Models |
|---|---|
| `ChatRoom` | what the chat promises: one conversation (`log`); a member is handed what is said after it joined, in order, until it leaves; it is shown a prefix of that |
| `Chat` | hub, `ServeWs`, pumps, channels, sockets; `EXTENDS` nothing of the project, `INSTANCE ChatRoom` for the refinement |
| `ChatFraming` | the text of messages from one page to another |
| `CachedTable` | API call, RPC, table, cache and single-flight barrier, common to the next two |
| `Bookstore`, `ShortUrl` | which operations the services have and how each treats the cache |
| `Sse` | `SseHandler` |
| `Manage` | `manage.sh` |
| `BreakerClient` | the load generator's metric |
| `MapReduce` | the programs under `mapreduce/` on the goroutines of `mr` |
| `FxStream` | `filex/pread.go`, `fx/square.go` |
| `Pool` | `pool`, `syncx/sharedcalls` |
| `Executors` | `periodicalexecutor`, `timingwheel` |
| `Lifecycle` | `signal`, `servicegroup` |
| `LoadTools` | `load`, `load/simulate`, `breaker` |
| `Limits` | `limit/period`, `limit/token`, the latch of `http/breaker/server` |
| `Rest` | the routes, middlewares and timeouts of the HTTP servers |
| `Access` | `http/jwt`, `http/signature` |
| `Files` | `monolithic`, `http/upload`, `http/download` |
| `Greeter` | unary rpc clients and servers, `graceful`, `discovery`, `gateway` |
| `Stream` | the streaming rpc client and server |
| `Tracing` | `tracing`, `etcd/pub`, `etcd/sub` |
| `Logging` | the writers under `logx` |
| `MCBatch`, `MCLoad`, `MCServices` | put the small programs side by side for one run each (see below) |
| `MCChat`, `MCShortUrl` | symmetry and constants for TLC; the other configurations run a module directly |
| `ChatProofs`, `SseProofs`, `ManageProofs` | the theorems about `Chat`, `Sse`, `Manage` |
| `CachedTableProofs` | each operation of `CachedTable` preserves its invariant; from this the theorems about `Bookstore` and `ShortUrl` |
| `BatchProofs`, `LoadProofs`, `ServicesProofs` | the theorems about the programs of `MCBatch`, `MCLoad` and `MCServices` |
| `Recursion` | induction and definition by recursion for the proofs; nothing in it is about the programs |

Definitions whose comment begins with `Mutant of` or `Defect:` are not part of any
specification. Each is a plausible mistake in the definition that follows it;
`PROJECT.json` says which property catches it.

### Chat

Every channel operation, every read and write of a socket and every close is a
step. A send on one of the hub's unbuffered channels is one step of sender and
hub together (`HubRegister`, `HubUnregister`, `HubBroadcast`), possible when the
hub is at its select, that is, when `hubTodo` is empty. `hubTodo` holds the
clients the range loop has yet to visit; `HubSend` visits one in any order, as
Go's map iteration does. `panicked` records a send on, or a close of, a closed
channel. `writer = "drain"` with `todo` is the loop of `writePump` that adds
queued messages to a frame, from the `len(c.send)` read before it.

A connection is `open`, `broken` (the peer is gone, or stalls, or violates the
protocol: reads and writes may fail from now on, but need not at once) or
`closed` (by one of the pumps). A ping that succeeds changes nothing; one that
fails is part of `WriterError`.

`log`, `joined` and `delivered` are history variables. `joined[c]` is the length
of the log when the hub registered `c`.

### CachedTable, Bookstore, ShortUrl

A call is an HTTP request that becomes an RPC. `srv` is where the RPC is,
`reply` its outcome at the server, `answer` what the HTTP client gets. `GiveUp`
is any error at the API, a timeout above all: the server goes on regardless.
`InsertRow` is the statement, with all its endings: stored, duplicate key, failed
before or after the row was stored. `Join` and `Land` are the barrier of
`sqlc.CachedConn`; `CacheHit`, `CacheMiss`, `QueryRow`, `TakeFails` and `Fill`
are one flight. The placeholder for a missing row is only written where nothing
is cached (SETNX, as in the go-zero version that `go.mod` names); rows overwrite.
`Crash` ends a server process at any point. The clients in `Again` make one call
after another (`NextCall`), so that calls never run out in the runs.

The bookstore's insert replies as soon as the statement has run (`ExecNoCache`),
and so does that of `rpc/tls/shorturl`; shorturl's goes on to `DelCache`, whose
failure is not reported. `Update` and `Delete` are operations of the models that
no service calls. They are performed by the calls in `ModelCall`, so that the
models are covered whole: `ExecRow` is the statement with its endings, `changed`
the keys it has touched. A row that has been changed may be cached stale: by a
flight that read it before, by a `DelCache` that failed or whose server died, by a
result that was lost. The properties about inserted rows are therefore stated for
keys that are `Unchanged`. `StaleOnlyByAccident` is about all keys and says that
these are the only ways: the history `accident` has a key from such an event until
the entry is dropped with no flight on the way, and outside of `accident` what is
cached is what a lookup would find, or is about to be dropped. In the two older models
(`bookmodel.go:16`, tls `shorturlmodel.go:16`) the columns are quoted and the
names removed from them are not, so that the statement of `Update` has three
placeholders for its two arguments and cannot run (`MisboundUpdate`).

`ShortUrl` is of one of the two shorteners, `service`; `certs` says whether the
certificates that the programs of `rpc/tls` load are there, without which they
do not start. MySQL compares book names without regard to case while the cache
does not. That is left out.

### Sse

A map write begins and ends, so that another map operation can meet it half-way.
That is a data race, which the runtime may or may not detect, and both outcomes
are steps. Undetected corruption of the map is not modelled. `RangeNext` follows the language
definition: entries that are removed are not produced, entries that are added
may be, none is produced twice.

### Manage

`todo` is the list of functions the script has still to call; `start`, `stop`,
`restart` and `status` are such lists. `Exit` and `Interrupt` can come in between
any two commands of the script, also between starting a service in the background
and writing its pid file, and the write may fail (`RecordFails`). A service that
is started and not recorded lives on and no later command finds it; the history
`lost` holds the ids of such services, which `NoOrphans` and `StoppedIsTrue`
exempt, and says that there is no other way for a service to escape. `PidReuse` says whether the machine gives out the ids of dead
processes again.

### BreakerClient

`Incremented` is the counter that each of the five methods increments in the
code. `ended` is the history of what really happened. Between the closing of `done`
and the return of `runRequests` (`phase = "closed"`) the select may still choose
the ticker and start a request.

### The small programs

`MCBatch`, `MCLoad` and `MCServices` each extend several modules that share
nothing. Their variable `demo` names the program a behaviour is of; the others
stay in their initial states. This is one run per family instead of one per
program; the number of states is the sum, not the product.

* `MapReduce`. A program is a record (items, what mapper and reducer do with
  them, which function of `mr` is called), so that the goroutines of `mr` are
  modelled once. `exec` starts a mapper per item while fewer than `MrWorkers` are
  busy; a mapper writes to `coll`, cancels or panics; the reducer reads, and
  drains what is left when the call has failed; the caller takes the first of
  output, error and panic. What a program may be is said by `IsProgram`, which is
  an assumption about the constant `MrPrograms`. A file of `countfunc` can be read
  to its end, or not opened, or fails to be read; in the last two cases the
  mapper's channel is never closed (`LinesEnd`), its mapper hangs, and
  `CallReturns` says that only then the call may not return.
* `FxStream`. A chunk is scanned by a goroutine of its own from its first line
  to its last (`at`); pairs go through one channel to the goroutine that fills
  the map. A line that does not parse ends its chunk. A header of one field makes
  the loader panic (`LoadFails`).
* `Pool`, `Executors`, `Lifecycle`, `Limits`: a goroutine of the program is a
  small automaton, the facility of go-zero it uses a few variables. In `Limits`,
  `takes`, `allowed` and `denied` are the counters of the program; `passed` is
  the history of what each thread's own limiter has let through.
* `LoadTools`. Each `AddUint64`, each swap of a counter and each row written is
  a step. The windows of `load/main.go` are functions from buckets to counts;
  the averages are reduced to the number of their samples.
* `Rest`. A route is a record: the inputs it parses, how long its handler works,
  what it answers, its timeout, in quarter seconds. `Late` is by how much any
  waking may be late. The handler of a request that has timed out goes on
  (`"late"`).
* `Access`. Times are in units of a fifth of a token's life; a request is up
  to `Delay` on its way. A token is good before its `exp` and not at it, as the
  jwt library has it. Encryption and signatures are injective functions.
* `Files`. A file is a sequence of blocks, a block the upload it came from;
  every write goes to the writer's own offset, and may leave a hole. `last` is the
  upload that created the file last and `others` those that were writing then
  (history variables). A copy that fails (`"cut"`) leaves its first blocks and is
  answered code 0 like any other.
* `Greeter`. A deployment is a record: how a node registers, what the method
  returns, what the client does with an error, the program in front. `view` is
  the client's list, which `Notify` brings up to date in its own time.
  A node that is stopped leaves the registry first and goes on serving for
  go-zero's wrap-up time, which is bounded: it may end with a call in hand
  (`Drained`). The client may send to a node that is gone and still in its view.
  That restarts go unseen is therefore not claimed, only that the client gets
  over whatever they break.
* `Stream`, `Tracing`, `Logging`: one action per statement that blocks, or
  that another goroutine or process can see. `file` and `console` of `Logging`
  are the records given to the two writers, in order; that go-zero sorts those
  for the file into one file per level, and drops what it cannot write, is not
  modelled.

## Runs

| Run | Bounds | What it shows |
|---|---|---|
| `chat_safety` | 2 connections, 2-slot buffers, 2 messages each | no panic; channel closed exactly when removed; drain loop never blocks; no gap, no reordering |
| `chat_live` | 2 connections, 1-slot buffers, 1 message each | `Chat` implements `ChatRoom`; clean-up, service by the hub, delivery |
| `bookstore` | 2 clients that go on calling, one of which may update or delete, 1 book, 2 prices, 1 add process, 2 check processes | answers and successes agree with the table; a stored book becomes visible for good; nobody who shares a flight is stranded |
| `shorturl` | a client that goes on calling and a call that may update or delete, 3 URLs of which 2 collide, 2 processes of either service, rows from earlier runs | a key leads to the URL it was handed out for; the cache is stale only by accident |
| `sse` | 2 connections, 3 ticks | events in order and once; clean-up; rounds end |
| `sse_crash` | 2 connections, 1 tick | **violated**: a disconnect can make the process panic |
| `manage` | 6 process ids, one of them stale, no reuse | no orphans but services never recorded; stop stops; signals go to their service |
| `manage_reuse` | 2 process ids, reuse | **violated**: stop kills whatever has the id |
| `breaker_columns` | 1 request | **violated**: failures and rejections are counted as ok |
| `batch` | 3 items or goroutines, 2 workers or resources, 5 tasks in bulks of 2, 4 signals, all cuts of a 5-line file | mapreduce calls return with complete results or fail, and leave nothing running, unless a file cannot be opened or read; every line is loaded once; the pool drains; tasks run in order; SIGTERM ends the process |
| `load` | 2 requests or threads (3 for the breaker client), 4 takes, burst and latch of 1, 2 rows | every request is counted once; limiters allow no more than they should; the latch holds |
| `services` | 2 connections with one slot, tokens that live 5 units and requests on their way for up to 2, 2 uploads of 2 and 3 blocks and a download, 2 nodes with 2 faults and a stop each, 3 requests on a stream, 2 publishers that restart twice, 3 messages of up to 4 characters | timeouts hit the routes they are meant for; tokens are refreshed in time; files are what their uploads have copied; clients recover from stops and crashes; streams end; values settle; both log outputs agree; one line per chat message |

Why the bounds suffice. Chat: one slow and one fast connection, a buffer that
both fills and holds a batch, and enough messages to overflow it reach every
branch; a third connection adds no new kind of interaction, because connections
meet only in the hub. (For the safety properties and the refinement this is not
an argument but a theorem, see below, and so it is for the other invariants that
are proved.) CachedTable: an insert and two lookups at
different processes are what it takes for a flight to straddle an insert and
another flight; the second key of `shorturl` shows mix-ups between keys. Sse: two
connections and the broadcaster race on the map; three ticks show order. Manage: two
generations of three services fit in six ids. Framing: four characters allow
white space at both ends and a newline between letters; three messages make
batches of all sizes. Access: a lifetime of five, which is odd, and the longest
way a request may take without missing `exp`. Files: of two uploads of different
length the longer may begin or end first, and a file of three blocks may be there
before. MapReduce: with three items on two workers and a collector
of two, one item waits for a worker, and a writer can find the collector full;
the programs include every flag of `countfunc`, several failing items at once
and files with and without a last newline. Pool, limiters, latch: one more
goroutine than there are resources. Executors: two bulks and a rest; Greeter:
one node down, one up, and two faults, so that one can hit the recovery from the
other.

Symmetry is used only in `chat_safety` and `shorturl`, runs of invariants.

`CHECK_DEADLOCK FALSE` is used where everything may legitimately end: all
connections gone (Chat, Sse), and the programs of `batch`, `load`, `services` and
`breaker_columns`, which come to their end.

### Fairness

* Chat. A goroutine that can run is run (weak fairness for the pumps, for
  starting them, and for the hub's range loop). A goroutine blocked on one of
  the hub's channels is queued in order and the hub's select chooses at random
  among ready cases, so a rendezvous that is possible again and again happens:
  strong fairness of `HubSelect(c)`, strong because the hub is busy in between.
  `ReadError` is fair because of the read deadline `pongWait`, which a broken
  connection misses; writes have the deadline `writeWait`. Peers owe nothing:
  no fairness for `ConnBreak`, `ServeWs`, `ReadMessage`.
* Bookstore. A server runs what it has accepted; its statements and
  cache commands end by their own timeouts (`TakeFails`, the failing branches of
  `InsertRow`). Cache entries, placeholders included, have a time to live
  (`Expire`). HTTP clients, which never stop calling, `GiveUp`
  and `Crash` owe nothing. ShortUrl has only invariants.
* `batch`. Every goroutine of `mr`, of the pool and of the signal handler that
  can run is run, the executor's flusher gets its ticks. Starting a program,
  adding tasks, pressing enter and sending signals are free.
* `services`. The stream's two sides are scheduled. The rpc client calls again
  (it is a loop), what a node has accepted is answered, the registry's news
  arrives, and leases nobody keeps run out. Starting, stopping and crashing are
  free; `MaxFaults` bounds crashes and deadlines, as the recovery is only
  promised once a listed node stays up.
* `load` has only invariants.
* Sse. Goroutines that can run are run. `ContextDone` is strongly fair: the
  select of `Serve` picks at random when a message is ready as well.

### Findings

1. `http/sse/main.go:39`. `Serve` deletes and closes its channel while
   `SimulateEvents` may hold it; the send then panics, and with it the process.
   The unsynchronised map is a further way to end it.
2. `bookstore/manage.sh:48`. `is_running` asks whether *some* process has the id
   in the pid file. The repository carries pid files; on another machine `stop`
   kills whichever processes have those ids, and `start` takes them for the
   services.
3. `http/breaker/client/client.go:45,51`. `addFail` and `addReject` increment
   `ok`: two columns and the drop ratio of the report are always zero.

Seen while modelling, without a line in the repository that says otherwise, or
where the properties state the exception:

* `bookstore/manage.sh:184`: `start` announces that all services are started
  whatever the start functions returned.
* `bookstore/manage.sh:108-110`, and the like for the other two services: an
  interrupt between `nohup` and the `echo` into the pid file, or an `echo` that
  fails, leaves a service that no later command finds; `lost` says so.
* `mapreduce/countfunc/countfunc.go:33`: a file that cannot be opened leaves its
  channel open and the mapper waiting for ever; line 40: a read error other than
  `io.EOF` neither ends the loop nor is reported, and an empty line is sent again
  and again. `CallReturns` states both as exceptions.
* A mapper of `countfunc -mode panic` that panics after the call has failed
  waits for ever to hand its panic over; the process ends soon after.
  `CallReturns` asks for no left-over goroutines in the other modes only.
* `Update` of the two older table models cannot run, see CachedTable.
* The upload handlers ignore the error of `io.Copy`: a copy cut short is answered
  code 0, and so are two uploads of one name that end as a mixture of both.
  `FilesAreUploads` says what is left in each case. The download of `monolithic`
  ignores `Config.Path`, hence `path = "."` there.
* The discovery servers throw the error of the registration away: such a node
  listens and is never found.

## Theorems

All theorems hold for every value of the constants that satisfies the `ASSUME`s
of the modules: any number of connections, calls, servers, keys, process ids,
requests, nodes and files, any buffer, quota or lifetime.

| Module | Theorem | States |
|---|---|---|
| `ChatProofs` | `TypeCorrect` | `TypeOK` |
| | `HubNeverPanics` | `NoPanic` |
| | `ClosedExactlyWhenRemoved` | `ClosedIffRemoved` |
| | `DrainNeverBlocks` | `DrainTakesQueued` |
| | `StreamsFollowTheLog` | `NoGapNoReorder` |
| | `ChatImplementsRoom` | `Spec => ImplementsRoom` |
| `CachedTableProofs` | `CheckedIsStored` | `FoundIsStored` |
| | `AddedOnce` | `InsertedOnce` |
| | `NoForeignUrl` | `ExpandsToItsUrl` |
| | `ShortUrlTable` | `FoundIsStored` and `InsertedOnce`, for the shorteners |
| | `BookCacheCoherent` | `OnlyByAccident(TRUE)`: in the bookstore a cached price is the table's but for accidents |
| | `StaleByAccidentOnly` | `StaleOnlyByAccident` |
| `ManageProofs` | `NothingEscapes` | `NoOrphans` |
| | `AllStopped` | `StoppedIsTrue` |
| | `SignalsItsService` | `KillsOnlyItsService`, if `~PidReuse` |
| `SseProofs` | `InOrderAndOnce` | `EventsInOrder` |
| `LoadProofs` | `RequestsCountedOnce` | `CountedOnce` |
| | `NothingUncounted` | `CountsAddUp` |
| | `NothingOverLimit` | `LimiterBounds` |
| | `NoSlotTwice` | `LatchHolds` |
| `ServicesProofs` | `NeverTurnedAway` | `RefreshedInTime` |
| | `UploadsArrive` | `FilesAreUploads` |
| | `ShouldTimeOutAndDo` | `TimeoutsDecide`, if `Late <= 1` |
| | `FileAndConsoleAgree` | `SameStory` |
| | `PageShowsWhatWasSaid` | `LinePerMessage` |
| | `StreamIsAnswered` | `EveryAnswer`: the safety part of `StreamEnds` |
| `BatchProofs` | `ResultsAreComplete` | `CompleteResult` |
| | `EveryLineIsLoaded` | `LoadsEveryLineOnce` |
| | `PoolKeepsItsBooks` | `Books`: resources are free or held, at most `Limit`, and whoever waits has somebody to wait for |
| | `TasksRunInTurn` | `TasksInTurn`: tasks run once and in the order of `Add`, and none is left without a flusher |
| | `TimersRunOnTime` | `OnTime`: a timer's job runs when it is due, once |

In each module they rest on a theorem that an inductive invariant holds throughout
(`Inductive`; `BookInductive`, `UrlInductive` and `BatchInductive` where the module
is about several specifications or programs), and that on one lemma per action or
per program. The properties `EveryAnswer`, `Books`, `TasksInTurn` and `OnTime` are
defined next to the proofs: the runs check the liveness properties that they are
the safe part of, or, for the timing wheel, exercise the actions only.

### Assumptions

Most `ASSUME`s give a constant its type: sizes and bounds are natural numbers,
the special outcomes are different from each other and from the data. These say
more.

* `Md5KeyAssumption`: `Md5Key` is any function from URLs to keys. Nothing is
  assumed about collisions.
* `LoadAssumption`, `LimitsAssumption`: there are finitely many requests and
  threads, so that they can be counted.
* `AccessAssumption`: a request is on its way for less than half a token's
  life, `(AccessExpire + 1) \div 2`, which is what `jwtlogic.go` leaves it before
  `exp`, where the token ceases to be good.
* `ProgramsAssumption`: the programs given to `MapReduce` are those under
  `mapreduce/`, with any list of items. `FxAssumption`: a dictionary is a sequence
  of lines, a cut a set of line numbers; nothing is assumed about which lines
  parse. `FramingAssumption`: texts and messages have a bound, whichever.
* `FilesAssumption`: no upload has the name of one of the words that the model
  uses for blocks that are not from an upload.
* `~PidReuse` of `SignalsItsService` is needed, as the run `manage_reuse` shows.
  `NothingEscapes` and `AllStopped` do without it: a reused id may make the
  script kill a stranger, but never lose a service.
* `Late <= 1` of `ShouldTimeOutAndDo`: a timer or a sleep ends at most a quarter
  second late. It is needed: `/hello` of `withtimeout` works 1.5 s under a
  timeout of 1 s, and with half a second of delay its answer could get out.

### The inductive invariants

Chat. The properties are not inductive by themselves:

* `NoPanic` needs to know that the hub only visits members with open channels:
  `hubTodo \subseteq clients` (`HubInv`) and `ClosedIffRemoved`. The latter needs
  that a client that was not registered has no reader that could unregister it
  (`Lifecycle`).
* `DrainTakesQueued` is preserved because only the write pump takes messages out
  of the channel, and the hub only appends.
* `NoGapNoReorder` speaks of a concatenation of three sequences. `InOrder` says
  the same of each part separately (`Segment`: the part repeats the log from a
  given position), so that moving a message from channel to frame and from frame
  to socket is a statement about one element; `Extent` says that members are up
  to date but for the broadcast under way. A few lemmas about `Segment` (append,
  tail, concatenation, a growing log) carry the proof.

For the refinement there is one lemma per kind of step: registration, removal,
broadcast, queueing and flushing are the steps `Join`, `Leave`, `Say`, `Hand` and
`Show` of `ChatRoom`; everything else leaves the room unchanged.

CachedTable. `FoundIsStored` is about answers only. A row gets into one through
the cache, a flight and a reply, so `RowsAreStored` says of all four that the row
is the table's as long as its key is `Unchanged`; an `Update` or `Delete` takes
the key out of `Unchanged` in the very step that makes those rows stale.
`SuccessIsStored` is `InsertedOnce` for replies as well as answers: the first
success puts a row in the table, and a statement finds it there ever after. The
lemmas in `CachedTableProofs` are about the operations, so that the two services,
which differ in what `Insert` and `Delete` do with the cache, share them.
The shorteners' invariant adds `KeysFit`: rows are stored under their own key.
For `OnlyByAccident` a further part says of a flight that has read the table what
the property says of the cache: what it carries is what it would read now, unless
the key has met an accident (`CarriedIsTrue`). Without it `Fill` could not
be shown to cache nothing stale.

Manage. `NoOrphans` speaks of an idle script; `Owned` says it of every step, with
the exceptions of `lost` and of a process that was spawned and is not recorded
yet, which becomes `lost` when the script is interrupted there. `Stopping` says it of the list
of functions to call: while `all stopped` is still to be said, each service
either is gone, lost or has its `stop` still before that. `FilesAreTrue` is the only
part that needs ids not to be reused.

Sse. The iteration over a changing map may leave connections out and produce
others late. `OnePerRound` is what remains: a connection that the round has not
produced, or has in hand, has not been sent the current event; `PendingIsNewest`
is about the event that `Serve` has taken and not yet written.

Load. A request is at every moment in one place: under way, in a counter, in the
row at hand or in a row of the file. The invariants say so for each program, with
one equation for each counter, since they are swapped one after the other. Those
of the limiters say what is left of quota and bucket: what a window has granted
is at most its counter, and what the bucket has granted with what is in it is at
most `Burst + Rate * ticks`, on both sides of a switch to the rescue limiter.
That of the latch says that slots taken and busy handlers are the same number.

Services.

* `Access`: a token's refresh time and `Delay` do not pass its end, and a prompt
  request was sent before that time and is not on its way longer than `Delay`.
* `Files`: every block of the file stands at its place in an upload that has come
  that far, of `last` and `others`, and what is missing is a hole beyond the part
  that `last` has written (`InPlace`); if there are no others, the file is that part
  (`LastInv`). A reader has a prefix of the file as long as nobody writes
  (`ReaderInv`).
* `Rest`: no request is overdue by more than `Late` (`NotOverdue`); the lemma
  `RoutesFit` goes through the table of routes and finds that work and timeout
  of each differ by more than that, in the right direction.
* `Logging`: `LogInv` adds to `SameStory` that a goroutine has at most one record
  in hand, its own. The lemma `ByAppend` says what `By` selects from a sequence
  that has grown by a record.
* `ChatFraming`: `FramingInv` says that the queue is the end of what was said, the
  screen its beginning, and that there are borders (`Frames`) between which the
  frames on the wire split into the messages said there. `SplitJoined`, by
  induction on the number of messages, is where normalising is needed: messages
  without a newline come apart as they were put together.
* `Stream`: answers taken, answers on their way and requests on their way, one
  after the other, are the numbers 1 to `i` (`Traffic`), and the WaitGroup counts
  those not taken. An answer on its way is thus counted, and `Done` cannot take
  the counter below zero.

Batch.

* `MapReduce`: `MrInv`. `Control` is what the goroutines know of each other:
  which items can have a mapper, that the collector is closed after the last one
  (`Closed`), that a panic waits with the goroutine that sends it (`Panics`) and
  that an item that fails the call has left its error by the time its mapper goes
  on (`Failures`). `Data` is what the values are. As long as nothing has failed,
  those the reducer has and those in the collector together (`Values`) are what
  the mappers have written. For `checkLegal` and `goroutineleak` these are the
  numbers of the accepted items, each once. For `countfunc` their sum and that of
  the files still to come is the sum of all files; with `-mode return` their
  number follows from the counter. The step from there to `CompleteResult` is
  `ReduceWrite`, which is only taken when the collector is closed and empty.
* `FxStream`: `LoadInv`. A goroutine has sent the lines of its chunk before its
  position, if all of them parse (`SentBy`), and for each word there are as many
  places in the channel and the map as lines that were sent. The cut gives each
  line one chunk (`IsCut`).
* `Pool`: created resources are free or held, and a goroutine that waits is woken
  by a `Put` that is still to come. `Executors`: tasks run, in the batch and in the
  container, one after the other, are the numbers of all tasks in order. A timer
  is in the slot of the tick at which it is due, with as many circles to go as
  there are full turns of the wheel until then; the lemma `SameSlot` (two ticks
  have the same slot exactly if they are full turns apart) is where the number
  of slots is general.

The inductive invariants were checked with TLC on the instances of the runs
before they were proved.

### Induction over data

Sums, selections, joined and split texts are recursive functions on sequences.
The library's induction theorems take an operator as a parameter, which the
provers cannot instantiate. `Recursion` gets by without: induction is about the
set of the numbers for which a statement fails, which has a least element if it
has any (`LeastElement`, `InductionUpTo`), and a definition by recursion about a
function from each number to the step taken there (`IsStep`, `Takes`,
`RecursionUpTo`). So `SumsDef`, `ByDef`, `SplitDef` and `JoinedDef` say that the
recursive functions of the models exist and satisfy their equations, and all else
about them is derived from that.

### Only model-checked

Liveness: `ConnectionIsCleanedUp`, `HubServesEveryone`, `QueuedIsDelivered`,
`BecomesVisible`, `ServerFinishes`, `DisconnectIsCleanedUp`,
`RoundsEnd`, `CallReturns`, `PoolDrains`, `TasksRun`, `TermEndsProcess`,
`ClientRecovers`, `StreamEnds` and `ValuesFollow`. They need fairness and `ENABLED`,
which are out of the prover's reach. What can go wrong in finite time with the
pool, the tasks and the stream is proved (`PoolKeepsItsBooks`, `TasksRunInTurn`,
`StreamIsAnswered`). The properties of the three runs that expect a violation are
false of the code; `KillsOnlyItsService` is proved for ids that are not reused.

## Not modelled

* `logging`, `mon`, `siphash`, `stringx`, `bloom`, `stat`, `config`: programs
  that configure a logger or print what a library call returns.
* The container scripts of the bookstore, and `build`, `logs`, `clean` and `help`
  of `manage.sh`: they run or print things and decide nothing. Two operators who
  run the script at once: nothing in it is meant for that.
* Inside the modelled parts: log output, flags without effect on control, the
  wording of responses, the page's layout, generated protobuf code.
* Some programs are modelled without a property of their own: the pipeline of
  `fx/square.go`, `servicegroup`, the order of middlewares, `http/signature`, the
  chain of `tracing` and the masking logger. They are sequential, or the hard part
  is go-zero's; their actions take part in the runs, which say nothing about them.
  So are the shared calls of `syncx`; of `timingwheel` there is a theorem and no
  run's property.

## Plan

1. Done: chat (specification, abstraction, proofs), framing, bookstore, both
   shorteners with all operations of their models, sse, manage, breaker client,
   the mapreduce programs and the other small programs, http and rpc services.
2. Done: proofs of the safety invariants of all modules that have one, of the
   refinement of `ChatRoom`, and of the safe parts of some liveness properties.
3. Left: the liveness properties, when fairness can be reasoned about; the safe
   parts of `ClientRecovers` and `ValuesFollow`.
