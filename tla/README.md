# Probitas: a verification development

TLA+ models, model-checking configurations and machine-checked proofs for
Probitas, a scenario-based testing framework for Deno (`src/packages/probitas-*`).
A definition of a module is a translation of source code; `PROJECT.json` says, under
`map`, of which lines.

## 1. The system

A test author writes *scenarios* with the **builder**; a scenario is a list of
*steps*: resources, setups and execution steps. **core** loads scenario modules
that **discover** found and filters them with *selectors*. The **runner** executes the
scenarios in batches, races each attempt at a step against a timer and an abort
signal, retries, releases what the steps acquired, and tells a **reporter** what
happens. Steps use **expect** to check values, and **clients** (HTTP, ConnectRPC/gRPC,
GraphQL, Redis, RabbitMQ, SQS, Deno KV, MongoDB, four SQL databases) to talk to
services. Everything runs in one JavaScript thread: a behaviour is an interleaving of
continuations, timers and answers from outside.

### Inventory

| component | state it keeps | operations and interaction | what is hard | what makes it correct |
|---|---|---|---|---|
| runner, test run (`runner.ts`) | index of the batch, results, failure count, controller | starts each batch synchronously, awaits it with `Promise.all`, aborts the shared controller at `maxFailures` or when the caller's signal fires; calls the reporter | results arrive in any order; an abort in the middle of a batch; a reporter that rejects | one result per scenario, bounds on concurrency and failures, nothing starts after a stop, the run ends |
| runner, scenario and step (`scenario_runner.ts`, `step_runner.ts`, `retry.ts`) | current step and attempt, context (results, resources, store), `AsyncDisposableStack`, signals | runs step functions through `deadline()` and `retry()`, registers disposables, unwinds the stack, makes the result | functions that go on after they were given up; timers, aborts, retries; disposers that throw | what was acquired is released once and in reverse order, before the verdict; no two functions at once; the verdict follows from the steps |
| reporter (`writer.ts`, `list_reporter.ts`, `json_reporter.ts`) | the promise at the tail of the write queue | writes are chained; scenarios that run together write through one `Writer` | a rejected write; ordering of events of concurrent scenarios | the lines taken are a beginning of those written; a complete report when the run resolves; no silent loss |
| builder | immutable lists of steps and options | each call returns a new builder; options are merged step over scenario over default | sharing of prefixes between builders | no chain disturbs another one |
| core: selectors, loader | none | import files one after the other; parse selectors, combine AND, OR and negation | an import that fails; empty and invalid selectors | every wanted scenario of every file that could be imported, once and in order |
| discover | none | walks paths with include and exclude globs | overlapping roots, duplicates, two spellings of one file | each file once, if it is spelled one way |
| redis | connection, subscriptions, transaction | `subscribe` is an async generator over a listener and a queue; `multi`/`exec` | messages between subscribe and listen; the connection ending while a consumer waits | no message lost or doubled, no consumer waits for ever |
| rabbitmq | channels, consumers, unacknowledged messages | `get`, `consume`, `ack`, `nack`, `reject`; requests raced against a timeout | an answer after the timeout; tags of another channel; cancel and close while consuming | an acknowledgement takes the message it names and no other; consumers yield in order and end |
| postgres, mysql, sqlite, duckdb | pool or single connection, transaction flags | `transaction(fn)`, explicit `commit`/`rollback` | rollback that fails, double release, two transactions on one connection | a connection is released once; either commit or rollback |
| every client: one operation (`withOptions`, `withSignal`) | the request under way | checks, request, answer turned into a result: Success, Error or Failure | timeout or abort against a late answer; `close()` in between; errors read by their words | the result says no more than what happened; a timed call ends |
| mongodb, sqs, deno-kv | session; queue URL; atomic builder | operations; `atomic().check().commit()`; batches | partial failures, version checks | as every client |
| http (cookies, OIDC) | cookie jar, current token | requests attach cookies and token; login, logout, refresh | a login that completes after a logout; expiry of cookies | no token after logout; cookies only where they belong |
| connectrpc, grpc | lazily built file registry and dynamic clients | concurrent first calls share the build; `close()` clears it | close during the build | no use after close |
| graphql | WebSocket and the queue of a subscription | `subscribe` is an async generator with completion and error | error and close against a waiting consumer | as redis |
| expect | the flag of `.not`, shared by all matchers of an expectation | a reader picks a field of a result, a matcher checks it | fields that are null in an Error or a Failure; the flag left set | no assertion passes on what the server never said |
| theme, formatters | none | pure | - | - |

`PROJECT.json` lists every package under `components`, and under `hazards` what in
this code a test would hardly reach, at its line, with the properties that cover it.

## 2. The plan

1. `Scenario`, `ScenarioRunner`: the execution of one scenario, and what it promises. *Done, proved.*
2. `Runner`: a run of many scenarios. A scenario is there what `Scenario` promises. *Done, proved.*
3. `Stream`, `RedisSubscribe`: a generator over listener, queue and resolver, and the
   abstract stream it implements. *Done, proved.*
4. `Transactions`, `SqlPool`, `PostgresTransactions`, `MySqlTransactions`: concurrent
   transactions over a pool, and what `transaction(fn)` promises. *Done, proved.*
5. `Reporting`: the reporter's write queue composed with `Runner`. *Done, proved.*
6. `SharedConnection`: sqlite and duckdb, against `Transactions`. *Done, proved.*
7. `RabbitMqChannel`: `consume`, `get` and acknowledgements against a broker. *Done, proved.*
8. `Operations`, one module per client, `RemoteCall`, `ClientCalls`: every other
   operation of every client, and what a remote call promises. `Expectations`, `Assertions`:
   what can be asserted of the results, composed with the calls. *Done, proved.*
9. `HttpSession`: cookie jar and login. *Done, proved.*
10. `ScenarioBuilder`, `Definitions`: builder, discovery, loader and selectors. *Done, proved.*
11. The streams that are left: graphql `subscribe`, postgres `listen`, connectrpc `serverStream` and
    `bidiStream`, against `Stream`. *Open.*

Modules are written for proof: parameters are CONSTANTS with named assumptions, one
action per stretch of code between two points where something else can run, no
RECURSIVE operator, invariants as conjunctions.

## 3. The modules

Who uses whom:

    Scenario <= ScenarioRunner                 RemoteCall <= ClientCalls
    Runner -- Reporting                        Operations -- RedisClient, SqsClient, MongoClient,
    Stream <= RedisSubscribe                     DenoKvClient, RabbitMqClient, SqlClients, HttpClients
    Transactions <= PostgresTransactions,      ClientCalls, Expectations -- Assertions -- MCClients
      MySqlTransactions, SharedConnection      ScenarioBuilder -- Definitions
    SqlPool -- Postgres-, MySqlTransactions    RabbitMqChannel, HttpSession

`A <= B`: the detailed B is shown to implement the abstract A. `A -- B`: B extends A.

### Scenario: the promise
Disposables are acquired until the scenario closes, each is given back exactly once, and
only then comes the verdict, which is "passed" exactly when nothing went wrong.
It is used twice: `ScenarioRunner` implements it, and `Runner` takes a
scenario for something that starts and later ends with a verdict.

### ScenarioRunner: one scenario
State and code:

| variable | code |
|---|---|
| `pc`, `step`, `attempt` | where `ScenarioRunner.#run`, `StepRunner.run` and `retry` are |
| `call` | the step function of the current attempt, given to `deadline()` |
| `abandoned` | functions whose `deadline()` has rejected already; they still run |
| `error` | the exception on its way up |
| `signal` | the reason of the scenario's `AbortSignal` (scenario timeout, maxFailures, caller) |
| `results`, `resources` | `ctx.results`, `ctx.resources` |
| `stack`, `top`, `disposals` | the `AsyncDisposableStack` and the progress of its disposal |
| `made` | history: what step functions handed out, owned or not |
| `stepResults`, `verdict` | the reported statuses |

An action is what the code does from one await to the next. `AttemptPasses`,
`AttemptThrows`, `AttemptAborted` and `StepTimerFires` are the four ways in which
`deadline(fn, signal)` settles; `Caught` is the `catch` of `retry`; `Register` is
`#runResourceStep`, `#runSetupStep` and `#runExecutionStep`. The same `Register` runs for
a function that nobody waits for any more (`LateReturn`), because the code registers its value inside the
promise handed to `deadline()`, which does not stop it.

A timer fires only when no continuation of the scenario is due (`AtRest`): promise
continuations run before timers. Another scenario's failure can abort the shared signal at any point.

External, from how the code uses them: `deadline` of `@std/async`, `AsyncDisposableStack`
(reverse order; goes on after a disposer that throws and keeps its error, which suppresses the one on its way up: `After`; refuses what
comes after disposal), `AbortSignal`. Delays and timeouts have no length.

### Runner and Reporting: the run and its report
`state[s]` is a scenario's place: not started, running, waiting for the report of a skip, ended, or
broken by a callback of the reporter that failed. `next`, `batchEnd` are the loop over `chunk(...)`,
`trail` is the loop that fills in skips after it. `pc` moves through
`onRunStart`, batches, `Promise.all`, the trailing loop, the summary and `onRunEnd`.
The scenarios of a batch start in one synchronous loop, hence nothing ends while
`pc = "starting"`; an abort is possible there, since the loop calls user code, and so is a break: an `onScenarioStart` that throws rejects
the promise of the scenario just started at once, while the loop goes on to start the rest of the batch (`ReporterBreaks`).
`chunk` with an empty list of scenarios gives no batch.

`Reporting` extends `Runner` by the JSONReporter. `calls` are the lines handed to `Writer.write()`, in order; its queue is a
chain of promises, so that the first `settled` of them have settled and `output` is what the stream took; after a line
that fails (`lost`) none is written. Each action of `Runner` occurs together with the callbacks
the code makes at that point, and goes on when the lines it awaits have settled: `run()` awaits `onRunStart`, `onRunEnd` and
the callbacks of scenarios it skips, not those of scenarios it runs. `unwritable` has the scenarios whose result `JSON.stringify` refused: their callback rejects
before it queues a line (`PutThrows`), as does `onRunEnd`, whose line holds all results. When `reporter = "other"` nothing is known of the
reporter, and the steps are those of `Runner` alone.

### Stream and RedisSubscribe: a subscription
`Stream` is what an async generator over a service's messages promises: from the first message it accepts
it hands out every one, once and in order, until it is over. `RedisSubscribe` is the generator of
`RedisClient.subscribe`. `queue` is `messageQueue`; `armed` says that `resolver` is set, `slot` is what it was called
with until the generator's `await` resumes; `listening` that the handlers are attached; `done`, `closed` are the code's flags.
`pc` is where the generator is: each action is the code between two awaits or yields. The server's messages
(`Publish`), the `end` event (`ConnectionEnds`) and `close()` of the client (`Close`) come at
any time. The refinement maps `buffer` to `slot` before `queue`.

### Transactions, SqlPool, PostgresTransactions, MySqlTransactions
`Transactions` is what `transaction(fn)` promises to concurrent callers, without a word of
connections: all statements of a call become durable at once or none, never when `fn` throws (unless it has committed its transaction
itself: `own`), always when the
call resolves, unless `fn` ignored a statement that failed. `void` says that nothing is promised any more. `AllOrNone` and `SettlesForGood` say of
the promise what a caller takes from it.

`SqlPool` is the external part that both clients use: `idle`, `waiting` and `held` are the pool of postgres.js or mysql2, `session` and
`pending` the transaction of each connection on the server. A connection that is released goes to
the first call that waits. `CommitAnswers`, `CommitRejects`, `RollbackAnswers`, `RollbackRejects` and
`Executed` are what the server can do with a statement, losing the connection before or after it took effect included.
Neither pool looks who releases a connection or whether it has a transaction, and
mysql2 hands it on with the session variables it has; both are assumptions on those libraries.

`PostgresTransactions` and `MySqlTransactions` are the clients: `pc[c]` is where call `c` of `transaction()` is. They differ where the
code differs. `PostgresTransaction` knows that it is committed only when COMMIT answered, and releases the
connection in any case, as does `transaction()`; `MySqlTransactionImpl` has one flag, `finished`, and
only the step that sets it releases. After a failed statement Postgres refuses the rest and answers COMMIT
by rolling back (`session` is `"failed"`); MySQL goes on, but the victim of a deadlock has lost its transaction.
`SelfEnding` are the calls whose function may call `tx.commit()` or `tx.rollback()` itself, `Deadlocking` those whose
statements may deadlock. The history variable `ownEnd` of `PostgresTransactions` holds the calls whose function did end
its transaction; from then on (`Void`) a connection may serve two calls at once, and the promises of that module are void,
for all calls. In `MySqlTransactions` functions that end their transactions change nothing for other calls, and
the promise is made to all calls but those in `Deadlocking` (`Steady`), whatever the latter do. A function that calls `tx.commit()` and then throws keeps
what it wrote, as `rollback()` is refused (`Refused`): `ownCommit` records the commit, `threw` the throw, and the promise excepts this case by name (`own`).
A pool that cannot open a connection (`NotGiven`) ends the call in its first step.

### SharedConnection: sqlite and duckdb
These clients have one connection, so that a `query()` of anybody runs inside whichever transaction is open.
`owner` is the call whose transaction that is. `engine` chooses between the two: a SQLite statement answers in the step
that sends it (`MyTurn` then lets nobody else act while one is under way), DuckDB's are awaited, and `pc[c]` names the statement that is on its way.
`pending` counts a call's statements in the open transaction. The database may roll back on its own (`Breaks`). `strayed` becomes true when a call's
statement, COMMIT or ROLLBACK works on another transaction than its own, or on none; the promise is void from then on. It is made to the calls that
do not end their transaction themselves (`Steady`). That a ROLLBACK rejects only where no transaction is open is an assumption on the databases: the code has no
remedy, it neither tries again nor closes the connection (`transaction.ts:233` of sqlite, 191 of duckdb).

### Operations, the client modules, RemoteCall, ClientCalls
`Operations` is the vocabulary: values by the cases that assertions tell apart, classes of results with the data of their Error and
Failure, and for each operation the answers of its server, the causes that end in a Failure
(the client reads errors by class, code or words), and what its code does around the request (`code`): whether it checks that the client is
open, obeys `timeout` and `signal`, reads a body in a second await, waits for `drain`.
`RedisClient`, `SqsClient`, `MongoClient`, `DenoKvClient`, `RabbitMqClient`, `SqlClients` and `HttpClients` say this of 70
operations, one definition each, named as in the code. `FailureCauses` of each module is its `convert...Error`.

`ClientCalls` runs one call: `Reject` (the checks), `Send`, `Receive`, `Read`, and what may come first: `Expire`
(`deadline()`), `Abort` (`withSignal()`, or the `signal` of `fetch`), `Break`, `Close`. The server acts in between (`Serve`, `Refuse`), also for a call
that has settled. ConnectRPC's lazy registry is `Prepare`, during which the client may be closed; it is asked again after the
answer, when a static schema may be gone and reflection may fail with either kind of error (`SchemaIsGone`).
`RemoteCall` is the promise: the effect happens once at most, never after the caller was told that nothing was sent, and before
the caller is told of an answer. The refinement reads the result as the caller must: by its cause, not by its `processed` flag (section 5).

### Expectations, Assertions
`Expectations` gives for each kind of result what `expect()` offers: readers (a field, read raw, through `ensureNonNullish`, or as a count)
with the matchers of the mixins; a matcher maps each value to the outcomes it may have.
`Assertions` continues `ClientCalls` after the call: `Expect`, `Not`, `Match`, with the `nextNegate` flag of `define.ts`.

### RabbitMqChannel
`broker[c]` and `channel[c]` are the two ends of a channel and `inbox[c]` what is on its way between them, in order. `ReceiveFrame` is the arrival of a frame:
the callback of `consume()` wakes the generator (`resolved`) or appends to `messageQueue`; a cancellation is the callback with `null`;
an answer to `get()` finds its caller, or nobody, if `GetGivesUp` came first (`late`). `Loop` and `ResumeConsumer` are the
`while` of the generator, and `Finally` its `finally`, which waits for the answer of `cancel()` (`cancelling`) while deliveries still come. `ack`, `nack` and `reject` may be called on any channel with any delivery the
application has; the broker closes a channel that names a tag it does not know.

### HttpSession
`jar` is the `CookieStore`; a request's cookies are chosen when it is sent, those of its response stored after the body was read, for the URL that redirects
ended at. `parseSetCookie`, `domainMatches`, `pathMatches`, `getDefaultPath`, `set` and `getCookiesForUrl` are translated with hosts and paths
as sequences of labels and segments. `login[l]` is where `login()` of `oidc.ts` is; logins use the same jar, hence the
provider's one session cookie. `accepted` is history: what the jar was given since it was cleared.

### ScenarioBuilder, Definitions
Builders hold references to arrays of steps, which live in the heap `arrays`, so that sharing between forked chains would show.
`path` is a ghost, the calls of the chain. `Definitions` goes on from there: `Discover` (files and
walked directories). What it finds are strings, so `Spellings` lists the strings of each file in the order of strings, and `files` holds places in that list: a
walk joins and normalises, a caller's path stays as written. The loader turns each into a URL, which for two absolute spellings of a file is the same. `Import`, `ImportFails`, `Loaded` (the loader, one file after the other), `Select` (the selectors).
`Sorted` and `Ascending` stand for `Array.sort` and `Array.filter`: the one sequence that has the elements of a set in an order.

### The MC modules and the proof modules
`MCScenarioRunner`, `MCClients`, `MCRabbitMqChannel`, `MCHttpSession`, `MCDefinitions` give values to constants that are functions or sets of records.
`ScenarioRunner_proofs`; `Runner_proofs`, about `Runner`, `Reporting` and, as what runs comes from there, `Definitions`;
`Sessions_proofs`, about the three clients that keep a session: `RedisSubscribe`, `RabbitMqChannel`, `HttpSession`; `ClientCalls_proofs`, about
`ClientCalls` and `Assertions`; `SqlPool_proofs` (lemmas on the queue and the ownership of connections that both clients use),
`PostgresTransactions_proofs`, `MySqlTransactions_proofs`, `SharedConnection_proofs`: section 6.

Definitions named `Bug...`, and those whose comment begins with "Bug:", are plausible mistakes in the definition that follows them; each
breaks a property, which shows that the property has teeth. They are not part of any specification.

## 4. The runs

| run | instance | shows |
|---|---|---|
| `scenario` (`ScenarioRunner.cfg`) | two resources, a setup, two steps; retries on the first, perhaps on the setup, and on the last, which may also be allowed no attempt; all abort reasons | release before the verdict, ownership, the verdict, the context, no overlap, termination, refinement of `Scenario` |
| `scenario_cleanup` | as `scenario` | *violated*: `CleanupsAreInvoked` |
| `run` (`Reporting.cfg`) | 3 scenarios, 2 at a time, stop at 2 failures; a JSONReporter whose stream may fail and which may refuse a result, or a reporter whose callbacks fail at will | one result each, batches, nothing starts after enough failures, no batch begins after a broken scenario, counters that agree, completion; the report has no holes and a loss is noticed |
| `redis_subscribe` | 4 messages; the connection may end and the client be closed at any time | no gap, no double, in order; nothing stays behind while the generator waits; at most one message after `close()` |
| `redis_end` | 2 messages | *violated*: `EndIsSignalled` |
| `postgres_transactions` | 2 calls, 1 connection, 2 statements each; one call may end its transaction itself | a connection serves one call, is given away clean; refinement of `Transactions`; every call gets the connection and settles |
| `mysql_transactions` | 3 calls, 2 connections; one call may end its transaction itself, one asks for an isolation level, one may deadlock | as `postgres_transactions` |
| `shared_connection` | 2 calls of 2 statements on one connection, sqlite or duckdb; one may end its transaction itself; anything may fail, the client be closed | refinement of `Transactions` until a statement strays; no transaction is left open |
| `clients` | each of the 70 operations, all options, one assertion on the result | refinement of `RemoteCall`; timed calls end; no assertion passes on what the server never said; every result can be asserted on |
| `rabbitmq_channel` | 2 channels, one consumes and one gets; 2 messages; 3 deliveries; one `get()` gives up | an acknowledgement takes only the message it names; deliveries have owners, in order; a cancelled consumer ends |
| `http_session` | 2 requests, 2 logins, 2 of them at once; 4 headers, 3 URLs, 2 instants | cookies stay in their domain; the jar is what was accepted and has not expired; logins do not mix |
| `definitions` | 2 scenarios, 2 calls, 2 definitions, 3 files in 6 spellings, 5 lists of paths, 8 lists of selectors | chains have their own steps, names and options; each wanted scenario, in order, and once where no file has two spellings |

**Bounds.** Five steps have every kind of step before and after every other that
matters: a resource that is retried, a step that reads it, a setup after both, a resource after a setup, a step that fails with all of it on the stack.
Nothing in the code looks at more than the current step and the step before.
A second attempt is the least that shows overlap, and a third that a retry follows a retry.
Three scenarios two at a time are a full batch and a short one, so that a stop and a broken callback inside the first, at the
border and in the second, and the trailing loop over none, one and (after an abort before the first batch) all of them, occur; the run passes with `MaxConcurrency = 0` as well,
and the theorems cover other sizes. Attempts and scenarios are bounded by the constants; no counter is cut off there.
`MaxMessages` bounds what the Redis server sends: four messages put one before the generator listens, one in its hands, and two in
the queue. `MaxStatements` bounds the statements of a function that succeed: the second shows that a transaction is not
kept in part. Two calls on one connection are what one call's mistake does to its neighbour; three on two
connections have two at work and one that waits for either.
`MaxTag` bounds the deliveries of a RabbitMQ channel: with two messages, the second tag of the consuming channel is a redelivery or the other
message, which is enough for tags of two channels to coincide and to be out of step; `MaxLate` bounds the `get()` that give up. `MaxActive` bounds
the requests and logins under way at once (two is what overlaps) and the cookies that `setCookie` may add to, `MaxTime` the clock: one tick lets the cookie with Max-Age expire.
`MaxCalls` and `MaxDefinitions` bound the test file: two calls and two definitions fork a chain and build before and after.
Two requests and two logins are interchangeable (`SYMMETRY` in `http_session`, which checks no liveness); the other runs use no symmetry.
`CHECK_DEADLOCK FALSE` is set where the system really stops: a run that ended (`RunCompletes`
says that it stops nowhere else), a generator that is finished or waits for messages that nobody sends,
transactions that have all settled (`EveryCallEnds`), a call that settled or waits for a server that never answers, an
assertion that was made, a channel that is closed, calls and logins that are over, scenarios that are selected. `ScenarioRunner` has an explicit final step.

**Fairness.** `ScenarioRunner`: the continuations of the runner run (`Runner`), each attempt's timer fires unless the attempt
ends first (`StepTimerFires`; every attempt has one, as `timeout` has a default), and
a disposer answers. No fairness for step functions: they may hang for ever. A
disposer that hangs does hang the scenario, since the code gives disposal no timer;
this is why fairness is assumed there, and it is a limit of the code.
`Runner`: the loop goes on (`Advance`), and each scenario ends or is broken, which is
`Terminates` of `ScenarioRunner`, under the same assumption on disposers; callbacks of the reporter settle.
`Reporting`: the same, and the stream takes a line or fails (`Write`).
`RedisSubscribe`: continuations run and requests are answered (`Generator`), the consumer's loop goes on or
breaks (`Consumer`); nobody need publish, close or lose anything. `PostgresTransactions` and `MySqlTransactions`: each call's
continuation runs, that is, statements are answered or rejected and functions return or throw.
For Postgres the last is strong fairness, as a function whose `tx.commit()` rejects is at its
end again and again, and is assumed not to retry for ever.
`ClientCalls`: the client's own code runs and `deadline()`'s timer fires; no server need answer. `RabbitMqChannel`: frames that arrived
are read and the application asks its consumer for the next message. `HttpSession`, `SharedConnection` and `Definitions` have no liveness property.

## 5. Where code and documentation differ

Checked by a violating run:

* `CleanupsAreInvoked`: a setup function that answers after its step timed out, when the stack is disposed, loses
  its cleanup: `defer()`/`use()` throws inside a promise that nobody reads.
* `EndIsSignalled`: the `end` handler of a Redis subscription forgets the resolver instead of
  calling it: a consumer that waits when the connection ends waits for ever.

Stated in a module, without a run: adding the definition to the cfg named shows the counterexample.

* `AbortStartsNothing` (`Runner`, as a PROPERTY of `Reporting.cfg`): a signal aborted before `run()` or during `onRunStart` is
  not seen at all (`runner.ts:73`; `types/run.ts:158`).
* `DuplicatesAreRemoved` (`Definitions.cfg`, INVARIANT): given `/x/./a.probitas.ts` and `/x`, a file is found as two strings, which the import turns into one
  module, so its scenarios run twice (`discover.ts:206`, 268; `loader.ts:99`); `discover.ts:152`: "Duplicate files are automatically deduplicated".
* `NeighboursDoNotMatter` (`PostgresTransactions.cfg`, INVARIANT): a function that calls `tx.commit()` or `tx.rollback()` of Postgres releases its connection, on which
  `transaction()` then sends COMMIT or ROLLBACK and which it releases again, when another call may work on it.
* `ErrorsRollBack` (`MySqlTransactions.cfg`, INVARIANT): a function that calls `tx.commit()` and then throws keeps its work, as `rollback()` is refused
  (`transaction.ts:177`); `client.ts:58`: "Automatically commits on success or rolls back on error".
* `IsolationIsPerTransaction` (`MySqlTransactions.cfg`, INVARIANT): `SET SESSION TRANSACTION ISOLATION LEVEL` outlives the transaction on its connection (`transaction.ts:69`).
* `StatementsStayInside` (`SharedConnection.cfg`, INVARIANT): after SQLite has rolled back by itself `tx.query()` runs outside of any transaction; a late
  ROLLBACK of DuckDB (`client.ts:402`) may end the transaction of another call. `transaction.ts:39` of client-sql: "Execute a query within the transaction."

Seen while modelling; the models do what the code does:

* Runner. `shouldRetry` (`step_runner.ts:78`) refuses timeouts only, so a step that throws `Skip` is retried as after an error;
  `skip.ts` says that it skips the scenario. An abort by the caller cuts running scenarios short; `RunOptions.signal` says that they complete.
  When a callback of the reporter fails, `onRunEnd` is called while scenarios still run. Callbacks of running scenarios and
  steps are not awaited (`scenario_runner.ts:28,45`, `step_runner.ts:50,157`): their rejections are unhandled.
* A disposer that throws `Skip` when all steps have passed makes the scenario skipped (`scenario_runner.ts:39`); *FirstFailureDecides* has the case.
* Postgres, MySQL. `query()` of a Postgres transaction resolves to a result that is not ok, and COMMIT of
  the failed transaction answers without an error: `transaction()` resolves though all was rolled back. This is why
  `Transactions` lets a call resolve that is in `failed`. After a deadlock MySQL has no transaction; what the function executes then is durable at once, also when it
  throws. This is why the promise of `MySqlTransactions` leaves `Deadlocking` out.
* SQLite, DuckDB. A `query()` joins the open transaction of another scenario and is rolled back with it. A failing ROLLBACK of SQLite hides
  the first error. `lastInsertRowId` may be that of an earlier statement.
* Results. `processed` (`client/types.ts:168-175`) is true for an Error such as a timeout of which nobody knows, and false for a GraphQL answer with a status that is not ok;
  a failed check of a Deno KV `commit()` is an Error whose `error` is null (186-192). Error messages
  with "pool", "timeout" or "connection" in them are read as a broken connection by the Postgres and MySQL clients. A Redis SET with NX or XX that
  sets nothing reports OK, and an `exec()` that was discarded reports `[]`. `upsertedId` of MongoDB is null if it is falsy.
* Options. `timeout` (`client/types.ts:90-93`) is ignored by http, graphql, SQL, Deno KV, RabbitMQ `publish` and Redis `exec`; `retry` by all.
  An http body that breaks off rejects although `throwOnError` is false, and so does a GraphQL call when the body is `null` (`client.ts:225`) or the
  `cancel()` of a refused one fails (187): `BodyFails`. With a signal that is aborted already,
  `withSignal` leaves the promise of the request, issued before it, without a handler.
* RabbitMQ. `close()` wakes no consumer that waits (`client.ts:1146`): `CancelledConsumersEnd` is about cancellation. A `publish()` that waits for `drain` when the
  connection breaks waits for ever (`client.ts:973`). What a consumer has buffered when the application leaves it stays unacknowledged until the channel closes. An `error` of an amqplib channel has no listener.
* http. `Max-Age=0` stores a cookie that has expired instead of deleting one, and `getAll()` returns expired ones; the
  host-only flag is not kept; `getDefaultPath` treats a trailing slash differently from the RFC it cites (`cookie.ts:133-136`).
  A login that completes after `logout()` installs its token (`oidc.ts:721`; doc 191).
* ConnectRPC. `close()` during the build of the registry leaves a client that is used after the close.
* Deno KV. A second `close()` throws. expect: `toHave...Property` hands the caller's array of keys to a library that changes it.
* discover. Paths that are not absolute come back as given (138-178: "Array of absolute file paths"), and the loader then fails on them. The root directory given is itself subject to pruning.
* selectors. An empty part matches everything. An invalid selector throws only if it is reached.
* loader. A default export that is neither an object nor an array is ignored. builder: `scenario()` keeps the caller's options by reference.

## 6. What is proved

Every safety property that a passing run checks is also a theorem. The theorems hold
for any values of the constants that satisfy the assumptions of their module, which TLC evaluates on every run:

| assumption | what it says, and why |
|---|---|
| `StepsAssumption`, `RunAssumption` | numbers of steps, scenarios, attempts and limits are natural numbers |
| `MessagesAssumption`, `CallsAssumption`, `AskingAssumption`, `ChannelAssumption` | the bounds of the environment are natural numbers, special calls are calls, `None` is no connection, messages are finitely many |
| `CallersAssumption`, `HeadersAssumption` | calls of the application and logins are different callers; Max-Age is a number, as `parseInt` gives |
| `BuilderAssumption` | a test file has finitely many scenarios, and `resource()` is always called with a name, as its type demands |
| `FilesAssumption`, `InputsAssumption` | each scenario is exported by one file; a spelling is one of a file, and a path to a file one of the spellings; whether a selector is negated is a Boolean |
| `RequestsAssumption` | no operation waits both for an answer and for the socket to drain |
| `ReadersAssumption` | a getter of content goes through `ensureNonNullish` and reads a field that is null in a result without an answer, except for the kinds in `EmptyOnError` and `EmptyAlways`; TLC confirms it for all 70 operations |
| `TablesAssumption` | the readers of each kind of result read fields that are in all data such a result may come with, and no two matchers of it have one name; TLC confirms it for all 70 operations |

**ScenarioRunner.** *Type correctness* needs one more fact, that within a step `step` is a
step (`Located`). *NoOverlap* rests on `GaveUp`: once a function is abandoned the scenario is past its
last attempt, as `retry` never goes on after a timeout or an abort. *ReleasedBeforeVerdict* rests on `DisposedFromTop`: the
disposals so far are the reverse of the stack above `top`, and the stack no longer grows.
*FirstFailureDecides* needs `ErrorLocated` (where an error can be on its way), `ResultsUpToStep` (the
results are those of the steps before) and `SkipExplained` (where a skip comes from). *PassedStepsAreOwned* needs
`Owned`, which includes the attempt that has returned and not yet passed. *ImplementsScenario*
needs `RegisteredOnce`: a step is never registered twice, so that acquiring is acquiring something new;
each action is then a step of `Scenario` or a stutter under the mapping
`held` = the stack up to `top`, `released` = the disposals, `closed` = the stack is disposed,
`faulty` = an error the runner no longer retries. *ContextIsExact* needs `ContextUpToDate`: between steps and during attempts
`results` and `resources` are, in order, those of the steps that have been answered. A function that returns late may still write to
`resources`, but then, by `GaveUp`, no attempt is left to read them.
*WorkRunsOut* is the half of `Terminates` that needs no fairness: if no step is allowed more than `limit` attempts, each step of an execution lowers `Work(limit)`, which
starts at (NumSteps + 1)(4 `limit` + 1) + 4. It counts the steps that are left with all their attempts, the attempts that are left, the stack, a function
that is still to answer and the signal. It needs `Counted`: who waits to try again is allowed to, and only the function of the current step can have been given up.
That the scenario does take these steps is what `Terminates` adds, by fairness.

**Runner.** `Located` places the loop: what has started is below `next`, what is
active is among the last `Concurrency` up to `batchEnd`, and nothing is active between batches, where a broken scenario counts as
active. *BatchesDoNotOverlap*, *ConcurrencyBound* and *NoStartAfterBreak* follow: with something broken the loop never comes back to where a batch begins.
`Budget` says that failures and running scenarios together stay within the limit once the run is stopped, and
that there is room for one more failure until then: *FailuresBounded*, *NoStartAfterFailures*.
`Collected` ties the results to the states of the scenarios and to the trailing
loop, which takes the number of results for an index: *OneResultEach*. With `Summed`, *SummaryAgrees*. *RunWorkRunsOut* is the same half of `RunCompletes`: each step lowers
`RunWork`, which starts at 6 `NumScenarios` + 13 and counts the scenarios to start, those under way, the skips to fill in and what is left of `run()`; `Skipping` says
that the trailing loop starts once and stays within the run.

**Reporting.** By its shape every step is one of `Runner` or a stutter, so that all theorems about `Runner` hold of it. `Queued`: the
stream has, in order, what the first writes asked for, as many as have settled until a line is lost. `LinesAsked` is what
was asked for by where the run is (a start line before its end line, unless that could not be made, all of it before `RunEnd`), and `LossStops` that once a line is lost
or could not be made `RunEnd` is never written, so that `run()` cannot resolve. Together: *ReportHasNoHoles* and *ResolvedRunLosesNothing*.

**ScenarioBuilder, Definitions.** `BuilderInv`: each builder refers to an array of the heap that `Follows` the calls of its path. A
call appends to a copy, hence no array that somebody refers to ever changes: *ChainsStayApart*. The lemma `FirstIsSet` says that merging options
twice picks the first that is set. *SelectionIsExact* needs that the spellings to import come sorted and after all
that were imported (`Past`, `FilesSorted`), that scenarios come from imported files, in their order and once each if no file was imported under two spellings
(`ScenariosSorted`), and that no scenario of an imported file is missing (`NoneForgotten`). The lemma `SortedIsSorted` shows by ranks that a finite set with a strict
total order has a sorted sequence; `FilteringKeeps` and `AcceptedIsMeant` say what selectors keep.

**RedisSubscribe** (`Sessions_proofs`), for any number of messages. *Type correctness* includes that the resolver is set only
while the generator waits and nothing has arrived; its invariant is `Waiting`. *CloseStopsTheStream* needs `Closing`: how much more can be delivered depends on
where the generator is when the client is closed. *ImplementsStream* rests on the lemma `Handled`: whichever way a
message takes, through the resolver or the queue, `slot` followed by `queue` is extended by it at the end.
*SubscriptionHasNoGaps* says of the promise itself that what was accepted and handed out is consecutive (`NoGaps` of `Stream`), and so it holds of
the subscription. *NoWakeupIsLost* is what `NothingStaysBehind` rests on: a generator that waits with nothing handed over has an empty
queue, and its resolver is set, unless the connection ended (`endHandler` then forgets it: section 5).

**RabbitMqChannel** (`Sessions_proofs`), for any channels, messages and numbers of deliveries. The invariant `Good` is about one channel, what the broker keeps of it, what is on its
way and what the client holds: tags name one delivery (`Tagged`) and belong to the channel (`OfChannel`); where the
generator is tells what it holds (`Phased`); what it yielded, what woke it, its queue and what is on its way are in the
order of tags (`InLine`); and unsettled deliveries without an owner are at most as many as the `get()` that gave up, minus one
whose answer is still to come (`Owns`). A step of one channel leaves `Good` of the others alone, also when the message is
requeued. *MessagesAreNotLost* also needs that requeueing keeps every message (`InOrderHasAll`), and that two
deliveries with one tag are the same, so that an acknowledgement settles what it names. *DeliveriesAreOwned* and *ConsumersKeepTheOrder* follow from `Owns` and `InLine`.
*NoConsumerSleepsOn* is what `CancelledConsumersEnd` rests on: a consumer that waits has an empty queue and nothing to resolve with, and is not `done`; the flag is set only by what wakes it.

**HttpSession** (`Sessions_proofs`), for any URLs, headers, calls and logins. *CookiesNeverStray* is `Homes`: each cookie in the jar, or on
its way with a request, was set by a host in its domain, and the domain matches where it is sent. This needs that the response of a call is stored once,
and that a domain that does not fit is replaced by the host. *JarNeverForgets* is `Remembered`: the jar has the last cookie of each key in the
history `accepted`, but for those that had expired when they came; time only adds to what has expired. *LoginsStayApart*
is `OwnCode`: the code that a login exchanges is that of its own user, since the callback checks `state`.

**SharedConnection**, for any calls, statements and either engine. *NothingStaysOpen* is inductive with the types and with `Progress`, which
ties a call's place to the flag `finished`. *ImplementsTransactions* holds until a statement strays: `Owned` says that only the owner of the open transaction has something
pending, and `Kept(c)` that this is all `c` wrote, that nothing is durable before COMMIT, and that a call that returns has kept everything. It is
stated for the calls that do not end their transaction themselves, while the others do as they please.

**PostgresTransactions, MySqlTransactions**, for any number of calls, connections and statements. The invariant is `Owned` of `SqlPool_proofs`:
the calls that hold connections hold different ones, none of them idle; what is pending on a connection is
work of its holder; an idle connection has no transaction, and one that is about to be released has none or is lost. Three lemmas
say that it survives a call that is given a connection, a step on the own connection, and a release, each for any set of
holders, so that a client's proof only shows which of the three its step is. *ConnectionIsOwned* and
*IdleIsClean* (for Postgres as *IdleConnectionsAreClean*) follow. For MySQL they hold also when functions end their transactions themselves, as
`Located` keeps a finished transaction from ever using its connection again. For Postgres they hold until `Void`
(`NeighboursDoNotMatter`, section 5, shows what happens then): the invariant is `Always`, the types, the queue and that a call past the queue was,
until its end, given a connection, which every step preserves, and beside it `~Void => IInv`; so *TypeCorrect* holds
without exception. *KeepsTransactions* adds
`AllOrNothing`: until COMMIT nothing of a call is durable, and what is pending is all it wrote. For MySQL it is
claimed of the calls that do not deadlock, and `KeptByOwn` adds that what a function has kept before its end it has committed itself; `LeavesOthers` says that a step of one call, a deadlock too, changes nothing
for the others, so that `AllOrNothing` need only be shown for the call that takes the step.
*NoConnectionIsLostHolds* is the half of `EveryCallEnds` that needs no fairness: whatever fails, a connection that is not idle is held by a call that is under way and will release it,
and nobody waits while one is idle (`NoneIsLost` of `SqlPool`, which survives a grant and a release whoever makes it). For Postgres it holds also when `Void`: the connection that is then
released twice is one too many with the waiting calls, never one too few. *TransactionsAreAtomic*, for both and for `SharedConnection`, is proved of
`Transactions` alone (`AtomicStep`) and carried over by the refinement.

**ClientCalls**, for any set of operations. `IInv` says how far the request can be in each phase of the call (`SendsLate`, `Replies`)
and that what the result tells is true of it (`TellsTrue`). Two lemmas carry the induction: `Settles`, for every way in which a call
ends, and `GoesOn`, for the steps that do not end it. *ImplementsRemoteCall* then needs that the server and the end of the call are different
steps (`OneThingAtATime`). `RequestsAssumption` is used once: `publish`, which settles when the socket drains, has seen no answer.

**Assertions.** `HoldsTrue` is kept by the call: a result is the answer of a server that carried the request out, or was `Ended` here for
a cause. In the second case a getter of content throws (`NothingToRead`), and a matcher whose getter throws never passes, negated or not: *AssertionsAreEarned*.
*AssertedCallsKeepThePromise* carries `RemoteCall` over to the composition.

*ResultsAreReadable* needs the other half of what a call does with its tables (`DataFits`): whichever way it ends, the result carries the data of one of the operation's answers, or of its error
or failure; `TablesAssumption` then has the fields.

**Proved and not run**: the types (`TypeCorrect` of five modules), `ConcurrencyBound` and `FailuresBounded` of
`Runner`, `IdleIsClean` of `MySqlTransactions`, `NoConnectionIsLost`, and the theorems above whose property is stated beside its proof: `Work`, `RunWork`, `AllOrNone` and `SettlesForGood`, `NoGaps`, `WakesUp`, `ConsumersAreAwake`.
TLC agreed with each before it was proved.

**Only model-checked**: liveness, which is out of the prover's reach (`NothingStaysBehind`, `EveryCallEnds`, `Terminates`, `RunCompletes`,
`TimedCallsEnd`, `CancelledConsumersEnd`, `LossIsNoticed`). What each rests on besides fairness is proved: a number that runs out for `Terminates` and
`RunCompletes`, no lost connection for `EveryCallEnds`, no lost wake-up for `NothingStaysBehind` and `CancelledConsumersEnd`, no `RunEnd` after a loss for `LossIsNoticed`.

## 7. What is not modelled

* Lengths of time and backoff; text of errors, logs, metadata and durations; the value a
  step returns (only whose it is); the contents of requests and answers beyond the cases of `Operations`.
* The list reporter's layout, the theme, the reporter's `testkit`, formatters and the wording of failed assertions.
* Streams: graphql `subscribe`, postgres `listen` and `notify`, connectrpc `serverStream`, `bidiStream` and the reflection client. The
  gRPC client is the ConnectRPC client with one protocol.
* SQL: savepoints, `copyFrom`, `copyTo`, `backup`, `vacuum`, `queryParquet`, `queryCsv` (each a statement or two around
  one connection), `close()` of the pools, maps from rows to objects. MongoDB: `transaction()`, whose retries the driver makes. Redis: the
  commands that a transaction collects, one by one (`exec()` is modelled).
* http: the client credentials grant, which is one request; the wire form of bodies and headers.
* Discovery: which name a glob matches, and the walk of a directory; selectors: which text a pattern matches. Both are given as relations.
* Connecting, configuration, process signals: input and output without state that a property could be about.

`PROJECT.json` says the same by component; a hazard of this code that no property covers has a note there.
