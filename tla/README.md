# Middy in TLA+

This directory holds TLA+ specifications of [middy](../src), the middleware
engine for AWS Lambda, with TLC configurations that check them on small
instances and TLAPS proofs of their main properties for every instance.

Every definition is written from the code under `src/packages`; `PROJECT.json`
says which lines each definition stands for, which mutation of it breaks which
property, and which hazards of the code the properties are meant for.

## The system

Middy runs one user handler between stacks of middlewares. One process serves
many calls: one after the other on Lambda, concurrently on other hosts, nested
when a handler or a router calls another middy. JavaScript runs one piece of
code at a time, so the unit of interleaving is the code between two `await`s,
and what can go wrong is what another call, a timer, an event or a late promise
does in between.

| Component | State it keeps | Operations | Talks to |
|---|---|---|---|
| **Request engine** `core/index.js`, `executionMode*.js` | the request (`response`, `earlyResponse`, `error`), `context.middyContext`, the in-flight mark, the early-timeout timer | a call: `middyRequest`, `runRequest`, hooks | the host's context object, middlewares, the handler, nested calls |
| **Fetch cache** `util/index.js` | one process-wide `Map` of entries with value, expiry, refresh timer; `options.cacheLearnedExpiry` of each middleware | `processCache`, `setCacheKeyExpiry`, `evictCacheOnFailure`, `clearCache`, `evictCache` | every fetch middleware (sts, ssm, secrets-manager, ...) and its promises |
| **Connection leases** `rds/index.js`, `dsql/index.js` | `holders`, `leases`, `live`, the cache entry | `before`, `after`, `onError`, connect, retire, reclaim | the fetch cache, the database client and its `error` event |
| **Single flights** `util` `createClientInit`, `appconfig`, `http-jwt` JWKS, `resolveSchemaVersion` | a promise in flight and what it resolved to, sessions, tracked ids | start or join a fetch, forget a failed one | AWS clients, identity providers, the fetch cache |
| **Service fetches** the twelve fetch middlewares | the promises of one call, per key | batches, pages, steps of a request, `getInternal` | the services, the fetch cache |
| **ECS cluster** `ecs-batch`, `ecs-http` | workers, backoff, `stopping`, exit code | fork, exit, SIGTERM, drain | node:cluster, the platform |
| **Task and HTTP workers** `ecs-task`, `ecs-http` | the run, open connections, the exchange under way, the forced exit | run, read, answer, drain, exit | the handler, node:http, clients |
| **Stream pollers** `pollKinesis`, `pollDynamoDBStreams` | iterator, position, retry count | poll, acknowledge, retry, discard | the stream, `runPollLoop` |
| **Queue pollers** `pollSqs`, `pollKafka`, `pollRmq`, `pollAmq` | batch in flight, ack gate, pending deliveries | poll, acknowledge, abort, crash | the broker, `runPollLoop` |
| **Batch responses** `event-batch-handler`, `event-batch-response`, `sqs-partial-batch-failure` | the settled records | settle, report | the handler, the event source |
| **Response streaming** `executionModeStreamifyResponse.js` | the response stream | write, drain, end | the Lambda stream |
| **HTTP middlewares** parsers, validator, CORS, headers, encoding, serializer, payment, tokens | the event, the response and the error they hand on to each other | hooks, in the order of registration | each other, clients, facilitators |
| **Routers** | the tables of routes | register, dispatch | the routed handler |
| **Custom resources** `cloudformation-response` | the response told | tell by a PUT, tell a failure | CloudFormation |
| **Events and WebSocket replies** normalizers, `event-batch-parser`, `ws-response` | the event; the clients kept per endpoint | parse, rewrite, read, post | the event source, API Gateway |
| **Loggers, metrics** | the tee of a response, the logger of a call | log one event, response or error, flush | the request, its stream |

What is hard, and what makes each component correct:

* **Request engine.** Calls share context objects. The early timeout races the
  handler, and whoever loses goes on running. An error can come from any stack,
  hook or timer, while another one is being handled. *Correct* when a call keeps
  its own namespace and never sees that of a finished one, commits one result
  and keeps to it, reports every error, answers a failed call only with what
  `onError` produced, and leaves no timer behind.
* **Fetch cache.** Fetches of several cycles and several middleware instances
  are in flight for one entry; expiries are learned after the entry was stored;
  single keys fail; timers fire early. *Correct* when no hit serves an expired
  or a failed value, only the failure of what the entry holds evicts, and the
  chain of background refreshes does not end.
* **Connection leases.** A connect is replaced while in flight, by a refresh or
  by an invocation that found its client broken; invocations hold clients that
  leave the cache; durable invocations leave without releasing. *Correct* when no
  client is closed under an invocation that uses it, none is lost or closed
  twice, and none that is handed out has been closed.
* **Cluster.** SIGTERM, worker exits, pending re-forks and the drain deadline in
  any order. *Correct* when the primary exits, once, after its last worker, with
  a code that reports a failed drain, and forks nothing once it is stopping.
* **Pollers.** Acknowledgement, failure, shutdown and redelivery of a batch.
  *Correct* when no record is skipped that was neither processed nor discarded
  after its retries, and no batch is held for ever.
* **Batch responses.** *Correct* when exactly the records that did not succeed,
  and in FIFO every one after the first of them, are reported.
* **Single flights and service fetches.** One promise serves several invocations,
  fails for some of its keys, or is overtaken by newer credentials, keys or
  sessions. *Correct* when a caller gets what it asked for and may still use, a
  failure is charged to what failed, and nothing is fetched again that did not.
* **Tasks, streams, exchanges, custom resources.** Something has been told already
  when the next step fails: headers, a status, an exit code, a payment. *Correct*
  when success is told for a success only, and whoever waits is told something.
* **HTTP middlewares and routers.** Each is simple; what they do together depends
  on their order. *Correct* when the handler sees the request that was sent, and
  the headers, the status and the encoding of the answer are true of its body.

## Modules

| Module | What it models |
|---|---|
| `Invocation` | abstract: what a caller of `middy(event, context)` is promised |
| `MiddyRequest` | the request engine under the standard and the durable mode |
| `MiddyRequestProofs` | its theorems, and those of `StreamResponse`, `StackReport` and `ContextNamespaces` |
| `FetchCache` | the fetch cache under one `cacheKey`, with the fetch middlewares that drive it |
| `FetchCacheProofs` | its theorems |
| `ConnectionLease` | the connections of `@middy/rds` and `@middy/dsql` |
| `ConnectionLeaseProofs` | its theorems, and those of `ConnectionReplies` and `ObjectResponse` |
| `Cluster` | the primary of `@middy/ecs-batch` and `@middy/ecs-http` and its workers |
| `ClusterProofs` | its theorems, those of `HttpServer`, `TaskRunner` and `HttpRouter`, and that of the forms of `RequestBody` |
| `Delivery` | abstract: a record leaves its source once it was handled or its loss reported |
| `PollLoop` | `runPollLoop` of `@middy/ecs-batch`, and the retries its pollers share |
| `StreamPoller`, `KafkaPoller`, `BrokerPoller`, `SqsPoller` | the pollers of Kinesis and DynamoDB Streams, Kafka, RabbitMQ and ActiveMQ, SQS |
| `Runner` | the loop with the poller of one source; refines `Delivery` |
| `RunnerProofs` | its theorems, and that of `RecordPayloads` |
| `JwksResolver` | the keyset of an issuer in `@middy/http-jwt`, and the requests that need it |
| `Authorization` | the trial of keys in `http-jwt` and `http-paseto`, and the proof of `http-dpop` |
| `ConfigSession` | the sessions of `@middy/appconfig`, and the clients of `createClientInit` |
| `ServiceFetch` | `fetchRequest` of the twelve fetch middlewares |
| `SchemaVersions` | `resolveSchemaVersion` of `@middy/glue-schema-registry` |
| `StreamResponse` | `executionModeStreamifyResponse` |
| `HttpServer` | the connections of a worker of `@middy/ecs-http`, and one request through it |
| `TaskRunner` | `@middy/ecs-task` |
| `BatchReport` | `event-batch-handler`, `event-batch-response`, `sqs-partial-batch-failure`: what is reported, and the reply to each service; its theorems |
| `StackReport` | `@middy/cloudformation-response` |
| `HttpResponse` | the middlewares that make, pay for and finish an HTTP response, and the price of `http-x402` |
| `RequestBody` | the body parsers and the normalizers before them, and the form of one |
| `HttpRouter` | the three routers |
| `CrossOrigin` | `@middy/http-cors`, and a cache shared by origins |
| `EventFormats` | the events of API Gateway, load balancers, VPC Lattice and `@middy/ecs-http`, their normalizers and readers |
| `RecordPayloads` | the records of eight event sources, their parsers, and what Firehose gets back |
| `SharedCache` | the process-wide `Map` of `@middy/util` under several fetch middlewares |
| `ConnectionReplies` | `@middy/ws-response` and the clients it keeps per endpoint |
| `Logging` | `omitPaths` of the three loggers, and the copy `@middy/response-logger` makes of a streamed response |
| `Negotiation` | `http-content-negotiation`, and the encoding `http-content-encoding` chooses |
| `OptionTables` | the rules of `validateOptions`, the `optionSchema` and defaults of every package |
| `Registration` | `use`, `before`, `after` and `onError` of core; options validated, and what is made of them |
| `ContextNamespaces` | `context.middyContext` of nested calls, what is published in it, and `cloudwatch-metrics` |
| `ObjectResponse` | `@middy/s3-object-response` |
| `Fetching` | `ConfigSession`, `ServiceFetch`, `SchemaVersions`, `JwksResolver` and `SharedCache`, one at a time |
| `FetchingProofs` | its theorems |
| `Container` | the parts of a container, those of `Fetching` and all others listed from `Authorization` on, one at a time |
| `MCMiddyRequest`, `MCFetchCache` | constants and symmetry for TLC |

Operators named for a fault (`...Keeping...`, `...Anyway`, `RetireAtOnce`, each
with a comment that begins with "Fault:") are no part of the specifications.
They state what a plausible mistake in the code would do; replacing the
operator after it by it must break the property `PROJECT.json` names, and does.

### MiddyRequest

One step is the code between two `await`s. `pc` is where a call is: a stack (with
`idx`, the running middleware), waiting for the handler, resumed by the race, at
`requestEnd`, or done. `ctx`, `ns` and `mark` are `request.context`, the object's
`middyContext` and its in-flight symbol; a namespace is named by the call that
made it. A call starts on an object its caller can reach: one of the host's, or
one that was handed to another call's middlewares. `Start` is `middyRequest`,
`requestStart` and the head of `runRequest`; the middleware actions are the
bodies of the three loops; `HandlerPends`, `HandlerSettles`, `TimerFires`,
`Decide` and `Resume` are the race; `Fail` is the `catch`, `Leave` the `finally`,
`RequestEnd` the end of the execution mode. What a middleware may do is left
open: assign `response`, `earlyResponse` or `error`, return a value, throw, call
middy again on its context, and, having forgotten to await it, go on doing so
after its own call is over. Data is reduced to provenance: a response is tagged
with who produced it, an error with the set of its origins.

`timeoutEarlyResponse` fires only when the call is not already resumed: Node
runs all continuations of settled promises before the next timer.

`Invocation` is refined by mapping a running call to "open", one that has left
`runRequest` to "committed", a settled one to "closed".

### FetchCache

`Refetch` is a miss or a refresh, `RefetchMissing` the modified path, `Invoke` the
`before` middleware, `RefreshFires` the timer, `FetchSucceeds` and `FetchFails` the
continuations of the per-key promises with `setCacheKeyExpiry` and
`evictCacheOnFailure` inlined, `Drop` is `clearCache`, or `evictCache` on behalf of
another entry. A hit changes nothing and has no action: the invariants speak of
what it would serve. Time is discrete; a timer may fire `Early` units too soon
and any time later. A timer that is armed but that no entry refers to any
more (`orphans`) is kept and may still fire: the modified path of the code
leaves one when the entry had been given a timer meanwhile.

### ConnectionLease

A connect is a number: the promise `fetch` returns and the client it opens. A
promise that was replaced in the cache while it connected is "joining" the one
that replaced it. `Lease`, `Release`, `Retire` and `Adopt` are the functions of those
names; the counts of `leases` are derived from `holder`. `Before`, `Reconnect` and
`Lease` are the three pieces of the `before` middleware between its awaits; the
expiry of an entry is a choice (`caching = "for"`), and so are a broken connection,
a failed connect and an eviction on behalf of another middleware. Steps started
by I/O or timers wait until the continuations of settled promises have run
(`Quiet`), as in Node.

### Cluster

`proc` is what a worker process does: it boots (a signal kills it), is up, drains
after its one SIGTERM, is dead with an exit `code` (`BySignal` for `null`). Why a
worker fails, and whether its poll loop or the deadline ends its drain, is left
open. The primary sees none of this. It is told by `ExitEvent` and
`DisconnectEvent`, in either order, and lists a worker (`LiveWorkers`) until it
has had both. `NextDelay`, `ExitWhenDrained` and `Stop` are `nextReforkDelay`,
`exitWhenDrained` and `onSigterm`; time is reduced to whether the exit before
was long enough ago. `replaced` is a history variable: the exits that were
answered with a re-fork, which the first of them also tells (`lastExitAt`).
Without `SourceCloses` it is the primary of `@middy/ecs-http`.

### Runner

The runner pulls events out of a poller's async generator (`Yield`), hands them to
the handler (`Handled`, with any set of failed records) and lets the poller
acknowledge. What follows in microtasks on the end of the handler is one step;
network calls, timers, brokers and the SIGTERM come between steps. Each poller
module EXTENDS `PollLoop` and has the state of its generator and of its source:

* `StreamPoller`: `position` is what a new iterator is asked for with, `iterator` the
  sequence number the current one reads next. An iterator expires while a handler
  runs; DynamoDB trims records a retry may outlive (`Trims`); a closed shard ends.
* `KafkaPoller`: `eachBatch` and the loop are two flows that meet at the ack gate.
  kafkajs (external) calls one `eachBatch` at a time, from the committed offset.
  Heartbeats and commits may be rejected, the consumer may crash.
* `BrokerPoller`: the callback buffers deliveries, the generator collects a window
  of them, every delivery is settled once. ActiveMQ's (`ReadsBody`) reads the body of
  a message after its delivery, in its default ackMode `client-individual`.
* `SqsPoller`: a message may become visible again at any time while it is handled.

`handled` and `reported` are history, and with what a source will not deliver again
they refine `Delivery`. `Runner` has one variable for the source and the variables
of all pollers; a behaviour drives one.

### Container

`Container` holds twenty-nine parts that share nothing; `part` says which one a behaviour
follows, and how the others are configured is fixed. It extends `Fetching`, which holds the
five of them that fetch. Each part is a module of its own:

* `JwksResolver`. A keyset is named by the number of its key, which the identity
  provider replaces; a new key may keep the `kid` of the one before. `GetJwk` is a
  request up to its first await, `Fetches` and `Settled` are `fetchJwks` with
  cooldown and single flight, and the provider answers with a keyset published
  while the fetch was under way, fails, or lets it time out.
* `Authorization`. The keys of a configuration are tried in turn, an issuer's key is
  imported with the algorithm of the JWK, and what `http-dpop` accepts as a proof has
  to be bound to the token the middleware before it accepted.
* `ConfigSession`. `Client` is an attempt of `createClientInit` to make a client with
  the credentials an invocation brought, `Service` a request of a fetch: a session,
  then a configuration with the token of the one before.
* `ServiceFetch`. A call of `fetchRequest` is named by the invocation that made it; each
  middleware has an action for what its service answers. Two invocations share the
  entry of the cache, so that the second comes into the middle of the first.
* `SchemaVersions`. The ids tracked by the module, next to the cache entry that expires,
  is refreshed, evicted and modified by failures without asking it.
* `StreamResponse`. The chunks of a body go into a buffer with a high-water mark; the
  client may go away at every step, and the end of the request still has to run.
* `HttpServer`. The connections of a draining worker: idle, busy, kept alive. And, as a
  part of its own, one request: the body read up to its limit,
  whatever framed it, the answer of the handler or the error, a stream that is
  piped and may fail, and a client that leaves at any time.
* `TaskRunner`. The handler, `onSuccess` and `onFailure` against SIGTERM and its timer.
* `BatchReport`. The records of a batch are settled in FIFO order, concurrently or as
  durable steps, and a handler without `event-batch-handler` may be followed by the
  response middlewares only. And, as a part of its own: the handler's array grows an entry at
  a time, settled or not, and may be shorter or longer than the batch; `Done` is what the
  service makes of the reply.
* `StackReport`. `told` is what CloudFormation was told; a PUT may fail, be refused for its
  size, or succeed and lose its answer.
* `HttpResponse`. One stack of `http-x402`, CORS, security headers, content encoding,
  serializer, error handler and validator, with the payment middleware at every place
  of it; the hooks run in the order core runs them, and `response` keeps what they
  tell apart: status, where the body is from, headers and encoding. And, as a part of its
  own, the price: a number is its digits and the place of its point; `Written` is how JavaScript
  prints it, with an exponent beyond bounds that are scaled down.
* `RequestBody`. A chain of normalizers and parsers in any order, a lone parser or three
  side by side; and, as a part of its own, what busboy (external) reports for one form.
* `HttpRouter`. A path is a sequence of segments. Routes are registered in any order;
  `Dispatch` walks the tables, and `RoutedAsDeclared` compares it with the first route
  that answers the request, for every request of a set with encoded segments.
* `CrossOrigin`. The options, the request's origin, what the handler set itself and the
  response or error the hooks find; `sharedCopy` is what a shared cache keeps of an answer and
  gives to a request of another origin.
* `EventFormats`. One HTTP request as nine kinds of event tell of it, the normalizers in any
  order before the readers of token, proof, query, method, path and address. The
  properties compare what a reader finds with the request, whatever the format.
* `RecordPayloads`. A batch of two records, each whole, in parts or malformed in its own way, goes through a
  normalizer or `event-batch-parser` to the handler, by a source each.
* `SharedCache`. Every pair of `cacheKey`s, options and `cacheMaxSize`s of three middlewares;
  entries are inserted, found, evicted and refreshed in any order.
* `ConnectionReplies`. Two invocations overlap, each with its endpoint, while `sts` refetches the
  credentials and one client is evicted for another.
* `Logging`. The tree `buildPathTree` makes of up to two paths, against a payload that has
  objects, arrays, cycles or other values along a path. And, as a part of its own,
  chunks with whole and split characters go through the tee into its consumer; source,
  consumer and client may fail or leave at any step.
* `Negotiation`. `Accept-Encoding` in any order and quality, the server's encodings and overrides; what
  the before hook found is read again after the handler or its error.
* `Registration`. Up to three middlewares with hooks for any of the stacks are used one by one or as an array.
  And, as a part of its own: the options of each package are sampled from its own schema, each
  option with every kind of value and those next to a bound, and combinations where options
  bear on each other. `OptionTables` has a rule and the defaults for each of them. `checkRule` calls
  itself for the rules within a rule; `Fits` unfolds it to the levels that schemas have, and
  `TooDeep` stops TLC should one have more.
* `ContextNamespaces`. A call is made on a fresh context, on that of a call in flight, or on
  that of one that is over. A root and its namespace are named by the call that made them,
  prototypes are followed at every read, and values may be awaited before they are published.
* `ObjectResponse`. Two invocations overlap while `sts` refetches credentials; time passes for a GET that
  may hang until the invocation is cut off. `Send` puts an invocation's client in place of the one kept, and
  `Resend` sends its command again with whatever client is kept by then; `since` is a history
  variable, who has sent between the two.

What is taken for granted of the inputs: a body that is binary or encoded comes with
its Content-Type, and the serializers of a handler do not look at `isBase64Encoded`.

## Runs

| Run | Instance | Question |
|---|---|---|
| `MiddyRequest_single` | 1 call, 2 middlewares per stack, a plain and a durable context, fairness | Every way through and out of one call: are errors kept, stale responses dropped, timers cleared, `requestEnd` run once; does an early timeout always settle the call? |
| `MiddyRequest_nested` | 2 calls on one context, one `after` middleware, symmetry | Nested, concurrent, successive and straggling calls: who owns the context, and is the contract of a call implemented? |
| `MiddyRequest_timeout` | 1 call | finding 1 |
| `FetchCache_shared` | 2 instances (duration 2, for ever), 2 keys, 3 fetches, clock 1..3 | Sharing, overlapping fetches, late expiries and failures |
| `FetchCache_timestamp` | 2 instances with a unix timestamp, 1 key | finding 2 |
| `ConnectionLease_all` | 3 invocations, 3 connects, 1 eviction, each `cacheExpiry`, durable or not | Races for the cache, broken clients, abandoned leases |
| `ConnectionLease_refresh` | 2 invocations, 3 connects, with refreshes | finding 3 |
| `Cluster_stop` | 2 workers, 2 re-forks, delays 1, 2 and 3 (cap), fairness | Deaths, re-forks and the stop in any order: does the task keep its workers, back off, and end with the right code once all are gone? |
| `Cluster_drain` | 2 workers | finding 4 |
| `Runner_sources` | 3 records, batches of 2, a window of 3, a retry limit of 0, 1 or none, 1 rejection, fairness | Each source with failures, retries, expiry, crashes and a SIGTERM at any moment: is a record lost in silence, settled twice, or retried too often, does a failing batch let later records pass, and does the runner end? |
| `Runner_discards` | 2 records | finding 5 |
| `Container_parts` | see below, fairness | Each part of a container |

`CHECK_DEADLOCK FALSE` is set throughout: calls are made a bounded number of times
and then the system stops, which is no deadlock.

**Bounds.** Two calls are enough for the context: the properties relate a call
to the one that made its namespace or mark. Two middlewares per stack let a loop
go on, break on its first and on its last one; with two calls the stacks are
cut to the one `after` middleware that lets time pass once the handler has
answered. In the cache, three fetches give a cycle, one that overlaps it and one
that replaces both; the clock runs through a short lifetime, the duration and past
it; `MaxDelay` is below the longest lifetime, so that entries exist whose refresh
cannot be scheduled. Three invocations and three connects are the least with which one invocation
reconnects, and retires a broken client, while another, after its own reconnect, still
awaits a connect that was replaced. Two workers let one die while
the other runs or drains; two re-forks take the delay to its cap.
Three records put two into one Kafka partition and leave one of a broker's batch
buffered, and let a record arrive while an earlier one is retried.

`Container_parts`: two tokens and three keys, the last of which takes over a `kid`,
with a horizon past the cache's age (2), the cooldown (2) and the timeout (1); arrays of one and two keys
over five kinds of key; two invocations with two credentials and two configurations;
four parameters in batches of two, of which one may be a path of two pages; three
schema versions in an entry of two; four chunks in a buffer of two; three records in a
batch; two connections; a body limit of two for bodies up to four; two parts of a form and one
over the limit; every pair of eleven route paths; two records of a source; three middlewares on one cache; a pool of
one client for two endpoints; up to two lines of a header, two cookies, two hops the client claims, one of them empty; two paths to omit, of
up to three keys; two bytes of a body logged; three middlewares used; two calls on one context; two tasks;
decimal points up to two places beyond the bounds of plain numbers. Each is the least with which a
flight is joined and overtaken, a limit is met and passed, and one element comes
before, at and behind another. The proofs remove the bounds for what they cover.

**Fairness.** `MiddyRequest_single` and the cluster runs assume some. In the first, a middleware or hook that is
running returns or throws, the engine's own continuations run, an armed timer
fires. Node guarantees the last two; the first is what the early timeout does not
protect against (it covers the handler only). Nothing is assumed of the handler:
`EarlyTimeoutSettles` is about one that never settles. In `Cluster`, signals and the
two events of a death are delivered, as the kernel and node:cluster do, and a
drain ends, as the deadline of `drainAndExit` makes it do; no worker is assumed to
boot, to fail, or to be re-forked. In `Runner`, requests and handlers end and timers
fire: the runner has no timeout for a handler, and its page leaves that to the user.
In `Container`, requests to services end, or time out where the code gives them a
timeout, the code goes on when they do, a stream is flushed or destroyed, and a form
ends or breaks off, as the body of an event does. No handler of a task or of an HTTP
request and no client is assumed to end: `CallsSettle` is about what the code does
when they do not.

### What the runs found

1. **`timeoutEarlyResponse` need not become the response**
   (`core/index.js:228`). `abort()` runs the signal's listeners before the race is
   settled. A handler whose promise a listener settles at once wins over the
   value of `timeoutEarlyResponse`, which the hooks page says "becomes the
   response".
2. **A unix-timestamp `cacheExpiry` is not capped by what another instance
   learned** (`util/index.js:888`). The entry's own expiry, which was shortened, is
   not read for such an option; only the reading instance's learned expiry is.
   The utilities page promises "the sooner of it and `cacheExpiry`".
   `FetchCache_shared` shows the promise kept for durations and `-1`.
3. **The client the cache hands out may have been closed** (`rds/index.js:182`).
   Connect 1 joins 2, 2 is replaced by 3, 3 connects, 2 fails: 1 adopts its own
   client and so retires 3's, which stays in the cache. It takes two replacements
   while a connect is in flight. The properties of `ConnectionLease_all` on open and
   closed clients therefore speak of a `Steady` program, one without background
   refreshes and with one eviction at most; `NeverClosesHeld` needs no such
   condition. One eviction already lets an invocation be handed a client that was
   found broken, and closed, while it waited: it does not look at `broken` again after
   its own reconnect. `SteadyHandsOutOpen` leaves that client out.
4. **A worker that drains may be sent a second SIGTERM** (`ecs-batch/index.js:300`).
   A closed source makes the primary signal its workers; when ECS then stops the
   task, the primary signals them again. Workers handle one signal, the next kills
   them in the middle of a batch, which the runner's page says is awaited. It
   takes two workers and a custom poller, since the shard pollers run one worker.
5. **A record may be discarded after no retry** (`ecs-batch/pollKinesis.js:239`, and
   its twins for DynamoDB Streams and Kafka). The attempts counted are those of the
   lowest failed record; once they are spent every failed record of the batch is
   discarded, those too that arrived while the first was retried. The runner's page
   says failed records are discarded "after that many retries". `DiscardsExhausted`
   states what holds: the limit was spent on the lowest of them.

Some more were met where no run is left for them; the first two are listed as hazards. A stream
the handler of an HTTP worker returns after its client has gone is piped to a closed
response and never destroyed (`ecs-http/index.js:457`). And `evictCache` goes by the
`cacheMaxSize` of the middleware that inserts (`util/index.js:1051`). A wrong field of
`event-batch-parser` is told when it is called, where its page says at startup
(`event-batch-parser/index.js:70`). Of two `omitPaths`, one extending the other, the shorter is said to
override (`util/index.js:1199`): it does, unless they are spelt so that the tree holds both, when
`buildPathTree` throws; and a path that ends in `[]` omits no element. Repeated `DPoP` lines are
refused where the event shows them, but on API Gateway REST and load balancers `headers` has the
last one only. `minItems` and `maxProperties` are no keywords of `validateOptions`: `pollKafka` accepts
`brokers: []`, and `cloudwatch-metrics` counts its dimensions itself. An explicit `workers: undefined`
passes the validation of `@middy/ecs-http`, and its primary then forks no worker (`ecs-http/index.js:749`),
where its page says the default is the parallelism available; more generally an explicit `undefined` takes the
default of most packages away. A WriteGetObjectResponse refused for its signature is sent again with the
client kept by then, which may be that of an overlapping invocation (`s3-object-response/index.js:200`): `Resend`
does so, and `WrittenAsOwn` and `ObjectsInTime` except it. The other middlewares that assume a role keep
one client too, so what they send again, or as the second request of a fetch (`appconfig/index.js:119`,
`ssm/index.js:190`), goes by the client kept by then; `ConfigSession` says of a client only that it is the
invocation's own when its fetch starts.

## Proofs

The theorems hold for any set of calls, instances, invocations, keys, lifetimes
and bounds allowed by the assumptions named in the modules. All are of the shape
`Init => Inv`, `Inv /\ [Next]_vars => Inv'`, hence `Spec => []Inv`.

* `MiddyRequestProofs`. `TypeCorrect`. `ContextOwnership` proves `MarkTracksRun`,
  which is inductive only with what it says about the derived objects: that an
  object not yet given to a call carries no mark and that running calls on one
  object are the same call. `NoStaleInheritance` follows from it, since a mark that is
  set belongs to a running call. `TimersAreDisarmed` strengthens the timer invariants
  with where the handler and the race stand in each phase; with who lost the race they
  give `TimelyHandlersRunOn`. `ErrorsAreReported`, `StaleAnswersAreDropped` and
  `RequestEndRunsOnce` follow from one invariant that relates `response`, `early`,
  `error` and `thrown` phase by phase: once a call failed, what it would answer with is
  nobody's but `onError`'s. `Refinement` uses all of them: each action maps to `Open`,
  `Refuse`, `Commit`, `Close` or a stutter of `Invocation`.
  `StreamsAreWhole`, of `StreamResponse`, holds for any number of chunks and any high water mark.
  Its invariant `StreamInv` says, phase by phase, what is buffered and flushed of what was
  written, and which errors can have been seen by then, so that none is left out of what is
  thrown. `StacksAreTold`, of `StackReport`, follows the response of a custom resource through
  `after` and `onError` hooks, of which `StackInv` says what has been told before each.
  `NamespacesAreOwn`, of `ContextNamespaces`, holds for any number of requests, however they are nested. What a
  request finds is defined along the requests it derives from, so `Defined` first shows, by least
  counterexample, that what goes on from one to the next of lower rank is defined at all (`HolderIs`,
  `UnclearedIs`, `AlongIs`), and `Frame` that what becomes of one request is nothing to those that do not derive
  from it. `NsInv` says who derives from whom (only from a request whose `before` hooks are over), and
  that a namespace inherits from the one its request found, as long as no one on the way has cleared it.
* `FetchCacheProofs`. `CacheTypeCorrect`. `FailuresAreEvicted` rests on the invariant
  that a promise in the entry is one of a call that was made and has not failed, and
  `LaterFetchesSurvive` on the identity of that promise: a failure that evicts is the entry's own.
  `ExpiredIsNotServed` (assuming no unix timestamps, the case of finding 2) rests on
  `HeldInv`: the stored expiry never exceeds that of any resolved value in the entry.
  `RefreshContinues` rests on `RefreshInv`: the entry's timer is never armed for later
  than its expiry, whoever shortened it.
* `ConnectionLeaseProofs`. `LeaseTypeCorrect` includes that a client marked retired is
  held; it needs that only running or finished invocations hold one, and that
  whoever waits has a promise to wait for. `HeldClientsStayOpen` follows: every
  `end()` is guarded by the absence of holders. `ClientsCloseOnce`,
  `ConnectionsAreKeptTrackOf` and `SteadyLeasesAreOpen` rest on `ShareInv`. Without a cache
  (`OffInv`) each client belongs to one invocation from its connect to its end. With one, and
  no refreshes (`ForeverInv`), each client is live, retired but leased, or closed once, and
  the entry is in flight or the live client's; the one eviction leaves at most one connect
  behind (`Orphan`), and everything that joined it or waits for it ends up with the live client
  or with one that was found broken.
  `RepliesAreOwn`, of `ConnectionReplies`, for any `derivedClientsMax`: `RepliesInv` says that
  the pool has one client per endpoint, and that what an invocation is about to send with is for
  its own endpoint and credentials, whoever derived it or evicted it since.
  `ObjectsInTime`, of `ObjectResponse`, for any budget, least wait and margin: `ObjectInv` says what each
  invocation knows by then of its URL, its credentials and the time its GET has left, and that
  the client kept, while an answer is awaited, is that of one that has sent since (`Senders`): so what is
  signed with other credentials is only what is sent again. It needs
  `MinWait` to be positive, as `Math.max(1000, ...)` makes it (`s3-object-response/index.js:160`).
* `ClusterProofs`. `ReplacesEachOnce` counts: a death takes a worker from those not
  known to have exited and adds a timer, a timer does the reverse. `TaskTellsExitCode`
  and `PrimaryExitsLast` rest on three invariants: the primary hears of dead workers
  only; as long as it runs it has answered every exit; the code is the maximum over
  the exits heard of and not answered. When it exits it has had both events of every
  worker, so these are the exits of all workers that were not replaced.
  `LastRequestsAreServed` and `ExchangesAreWhole`, of `HttpServer`, hold for any set of connections and any
  `bodyLimit`; the second relates how much of a body has been read to how much is buffered
  and to the phase. `TasksTellOutcome`, of `TaskRunner`, says where the task stands for each set of failures.
  `FormsAreWhole`, of `RequestBody`, for any `maxParts`: the fields of the form are those of the parts
  read so far, in order, and nothing is added once a limit was reached.
  `RoutesAreKept`, of `HttpRouter`, for any number of routes: `RouterInv` says that as long as none was
  refused each route is in the table of its method (`InTables`), where a duplicate finds it, and a
  key where its last route is (`LastNamed`). A pattern is not mistaken for a static path (`SignaturesApart`).
* `BatchReport`. `ReportsAreWhole`, for a batch of any length: in sequence, the records before the one
  that runs are fulfilled and those behind it wait, also once one has failed. `ServicesAreTold`: the
  reply is made entry by entry, of what was settled, whatever the handler returned.
* `RunnerProofs`. One inductive invariant per kind of poller, `RunnerInv`, says where it
  stands between its source and the handler. `StreamInv`: everything between the first
  record read and the iterator is handled or reported, and the position, the record to
  retry from and the batch join on to it, so that neither an expired iterator nor a retry
  skips one. `KafkaInv`: the gate is closed exactly while the handler runs over the records behind
  one partition's commit. `BrokerInv`: a delivery the broker waits for is read, buffered or in the
  batch, and in one of them only. `SqsInv`: only what the handler succeeded with is being deleted.
  From these follow `RunnerTypeCorrect`, `DeliveriesAreSettledOnce` and `DeliveriesAreHeld`;
  `RunnerImplementsDelivery` takes each step of each source to a step or a stutter of
  `Delivery`. `RecordsAreDiscardedExhausted` counts: the attempts of a retry (`Counted`) never
  outrun the failures of the record they are counted for. The pollers of Kinesis and
  DynamoDB Streams share their steps but for the trimming, those of RabbitMQ and ActiveMQ all
  but the reading of a body; what is shared is proved once. Proving the type showed that
  `MaxRecords` has to be 1 at least, which `PollAssumption` says.
  `PayloadsAreHandled`, of `RecordPayloads`, holds for batches of any length and every order of the
  middlewares: `RecordsInv` says what each of them has made of the records before the one it is at.
* `FetchingProofs`. `FetchedIsOwnAlways` has one invariant per part, `FetchInv` together, for any
  `awsRequestLimit`, set of versions, `cacheMaxSize` and number of fetches. `AppInv`: between fetches the cached
  token is the one the service expects next or it has expired, and at most one fetch carries it.
  `ServiceInv`: a pending promise is one of exactly one request, the entry holds exactly the
  promises that have not failed, and a promise fails for its own refusal; since the batches
  of a call share no name (`EachInOneBatch`), a failure ends no other key. `SchemasInv`: the ids
  tracked are those of the entry's fetches, without repetition, whoever evicted or failed in between.
  `SharingInv`: the cache has one entry per key, and the timers armed are exactly those of the
  entries, each of the key it refetches; so an eviction takes its own timer along
  (`Removed`), and `evictCache` spares what was just inserted if there is anything else (`VictimIs`).
  `ClientsAreCurrent` is about the memo of `createClientInit`, for any number of invocations: `ClientsInv`
  says that the memo holds an attempt for the credentials it is kept for and none that has
  failed, and that each attempt under way is awaited, so that a place for another is
  always free (`AttemptIsFree`).
  `TokensAnswered` is about `http-jwt`, for any keys, lifetimes and number of requests. Nothing is assumed of how
  the cooldown and the timeout compare: with a cooldown no longer than the timeout a token may wait for two
  fetches in a row; in the run the cooldown outlasts a fetch, as it does by default. `JwksInv` relates the
  cached keyset, the fetch in flight and what it settles with to when each key was published: a
  keyset is that of now, or one that was replaced no earlier than its fetch began.
* `Container`. `ContainerFetches` carries the theorems of `FetchingProofs` over to the container: each of its steps is one
  of `Fetching` or leaves its parts alone. `ContainerRuns` does the same for the thirteen
  specifications proved about elsewhere: of `ConnectionReplies`, `StreamResponse`, `TaskRunner`,
  `StackReport`, `ObjectResponse`, `ContextNamespaces`, `HttpRouter` and `RecordPayloads`, the two each of
  `BatchReport` and `HttpServer`, and the forms of `RequestBody`.

A proof cannot rely on the order in which TLC tries the arms of a `CASE`, so those that overlap are written as
`IF ... ELSE IF`, and what is looked up along a chain is a recursive function, not a `RECURSIVE` operator.

Only model-checked: liveness (`EarlyTimeoutSettles`, `StopsEventually`, `MovesOn`,
`EndsOnAbortOrFailure`, `CallsSettle`), which rests on fairness and ENABLED, out of
the proof system's reach here; and of `Container`, `TypeOK`, `OutcomesHold` and `RequestsServed`
as wholes: of their conjuncts those named above are proved, part by part, while those of
`HttpResponse`, `CrossOrigin`, `Logging`, `Negotiation`, `Authorization`, `EventFormats` and
`Registration`, of `HttpRouter` the dispatch (`RoutedAsDeclared`), and of `RequestBody` the parsing of whole
bodies, are not. Of these `Authorization`, `CrossOrigin`, `EventFormats`, `Negotiation`, the bodies of `RequestBody`
and the responses of `HttpResponse` have no constants: their runs go through all there is of them,
and a proof would say no more. What `HttpRouter` dispatches and what `Registration` nests is made
with `SelectSeq`, what `Logging` logs with `FlattenSeq`: a proof would need induction over data.

## Plan

The model is complete but for what the next section names, and what is in the prover's reach is
proved but for two things. A proof that `OutcomesHold` and `RequestsServed` hold as wholes needs those of the parts
above, by cases over finite data. And `LoggedAsSent` of `Logging` could be proved for any
`MaxBodyBytes` and `HighWaterMark` once the bytes of each body are spelled out.

## Not modelled

* Of the pollers: a LATEST iterator that expires before its first batch, retention in
  Kinesis, ActiveMQ's ackMode `client`, more than one `eachBatch` at a time (kafkajs is not
  asked for that), and the choice of the shard.
* A second instance of `@middy/rds` on the same `cacheKey`.
* `http-partial-response`, path decoding and the warm-up: each reads one event or response in
  one pass, keeps no state, and unit tests reach what it does.
* Option schemas in the older flat form, which no package uses.
* Parsing of tokens and signatures (libraries), and replay protection, which
  `http-dpop` leaves to the user.
* The context of an HTTP worker's event: request ids and times.
* Type declarations, benchmarks, the website and the build.

`PROJECT.json` lists every component with its status and every hazard with the
properties that cover it, or the reason why none does.
