# Lackos: specifications, model checks and proofs

Lackos is a gateway in front of MCP servers. An agent sends `tools/call` requests to the
**proxy** with a bearer token; the proxy looks up the token's user, the server the tool
belongs to and the policy of (role, server, tool), counts the call against a rate limit,
forwards it, redacts the answer and publishes an audit event. An **admin API** keeps roles,
users, servers and policies in PostgreSQL and issues tokens in Redis. A **worker** moves the
audit events from RabbitMQ to PostgreSQL. A dashboard (`web/`) uses the admin API.

This directory holds TLA+ modules of those parts, the TLC configurations that check them
on small instances, and proofs, checked by TLAPS, of what holds for every instance.
`PROJECT.json` lists runs, mutants (a bug planted in the model for every checked property,
which its run must find), the code lines behind every definition, and the hazards the
properties are for.

## 1. Inventory

| component | code | state | operations | talks to |
|---|---|---|---|---|
| policy engine | `internal/policy` | Redis keys `policy:role:server:tool` with a TTL | `Evaluate`, the cache goroutine, `InvalidatePolicy` | Redis, `policies` |
| rate limiter | `internal/ratelimit` | one Redis sorted set per (user, server) | `Allow` (a Lua script) | Redis |
| proxy tokens | `internal/auth/tokens.go`, `internal/handlers/auth.go` | one Redis key per token hash | `Issue`, `Validate`, `Revoke` | Redis |
| proxy handler | `cmd/proxy/main.go`, `internal/mcp/forwarder.go` | one goroutine per request | eight steps from the bearer token to the answer | all of the above, downstream servers, the publisher |
| audit publisher | `internal/audit/publisher.go` | a channel of events, a worker goroutine, `isDone` | `Publish`, `worker`, `send`, `Close` | RabbitMQ |
| proxy process | `cmd/proxy/main.go` `main` | HTTP server, signal | start, `Shutdown`, deferred `Close` | publisher, handlers |
| audit writer | `internal/audit/writer.go`, `cmd/worker` | the queue, its deliveries, `audit_events` | topology, `consumeLoop`, `handleDelivery`, `persist`, `Stop` | RabbitMQ, PostgreSQL |
| alert consumer | `internal/audit/alerting.go`, `cmd/worker` | its queue and deliveries | bindings, `consumeLoop`, `Alert`, `Stop` | RabbitMQ, the log |
| audit log queries | `internal/handlers/audit_events.go` | none (reads `audit_events`) | `ListAuditEvents`: one filter, limit, offset | PostgreSQL |
| admin API | `internal/handlers`, `internal/db`, `migrations` | tables `roles`, `users`, `downstream_servers`, `policies` | create, update, deactivate, upsert, delete | PostgreSQL |
| redaction | `internal/mcp/redact.go` | none | `RedactFields` of a result, `RedactJSONBytes` of the parameters | handler |
| credentials | `internal/auth/resolver.go` | none | secret reference to header | forwarder |
| dashboard | `web/src` | pages | calls of the admin API | admin API |

What is hard here, and what correctness means for it:

* **A decision is cached** and the cache is filled after the answer, by a goroutine that
  nothing orders. How old may a permit be? (`PermitConfirmed`, `DefaultDenyBounded`,
  `InvalidationHolds`)
* **The limiter's clock is read in the proxy**, its script runs later and perhaps twice,
  and calls with different limits share one set. Is the quota a quota? (`WindowBound`,
  `DeniedForCause`)
* **A request makes five look-ups** that are not one transaction, may be abandoned by its
  client, and its forwarded call may run after the proxy gave up. What reached a server must
  have been authorised, and the audit trail must not say otherwise. (`Authorised`,
  `Accounted`, `EventReferences`, `ImplementsGateway`, and through it `StoppedNeverRuns`)
* **Publish races Close** on a bounded channel. (`Conserved`, `EarlyFlushed`, `NoneRefused`,
  `CloseCompletes`, `ExitReached`)
* **An event passes four hands** between the decision and the row: a buffer in memory, a
  connection without confirms, the broker, the worker. Which of them may lose it?
  (`GracefulExitDelivers`, `NoGaps`, `EventuallyRecorded`)
* **Two consumers share a process** and the fate of its signals, not their queues.
  (`NoAlertLost`, `AlertIsTrailed`, `EventuallyAlerted`)
* **Redaction works on nested data**: what the agent is shown, what is stored and what the
  server receives are three different versions of a call. (`StoredIsShown`,
  `TopLevelStripped`, `AuditedIsSent`, `SentWithCredential`)
* **Pages are separate queries** over a table that grows, not always at its newest end.
  (`WalkComplete`, `RepeatsExplained`)
* **At-least-once delivery** meets crashes, lost connections and unknown commit outcomes.
  (`NothingLost`, `OnePlace`, `ImplementsTrail`, `EventuallySettled`)
* **Redis restarts from a snapshot** (`docker-compose.yml`: `--save`, no append-only file):
  decisions, counts and tokens come back as they were.
* **Concurrent administration** of tables that refer to each other. (`References`,
  `OneRulePerTriple`, `OffStaysOff`)

## 2. Modules

| module | models | state and actions |
|---|---|---|
| `PolicyCache` | policy engine over one triple | the row, the Redis entry, the snapshot; per slot one `Evaluate` with its goroutine: `LookupHit`, `LookupMiss`, `Query`, `QueryFails`, `CacheWrite`, `CacheWriteFails`; `UpsertPolicy`, `DeletePolicy`, `InvalidatePolicy`, Redis and the clock |
| `PolicyCacheHistory` | the same with the moments of creation and invalidation | history variables only |
| `RateLimiter` | `Limiter.Allow` over one (user, server) | `Begin` reads the clock, `Admit`/`Deny` run the script and use its count, `LoseReply` runs it and loses the answer, `Fail` |
| `RateLimiterHistory` | the same with every recorded call | history variable only |
| `TokenStore` | tokens in Redis | `Issue`, `Revoke`, `RevokeUnconfirmed` (executed, answered 500), `Validate`, Redis and the clock |
| `AdminStore` | the four tables | one action per mutating handler, with the constraints of the migrations |
| `Proxy` (extends `AdminStore`) | the request handler | a record per request that advances through the handler's steps; each refusal, failure and published event is an action; `DownstreamRuns` and `CallNotRun` are the server's side, `Crash` the process's; implements `Gateway` |
| `Gateway` | abstract specification of a request: who is entitled, what is dispatched, executed at most once, and what verdict the trail gets | `Entitle`, `Close`, `RefuseCall`, `Dispatch`, `Execute`, `Lose`, `Conclude`, `Abandon` |
| `ToolCall` | the data of a call: parameters, result, credential, event | a document is the set of its paths, so nesting is what it is in the code; `Submit`, `DenyCall`, `LimitCall`, `PermitCall`, `SendCall`/`ResolveFails`, `FailCall`, `AnswerCall` |
| `AuditLog` | `audit_events` and `ListAuditEvents` | `InsertRow`; a reader's walk: `Begin`, `ReadPage` (limit and offset at the width of `int32`, any order among equal times), `ReadFails` |
| `CallRecord` (extends `ToolCall`, `AuditLog`) | a call's event as a row among others | `StoreCall`, `StoreOther` |
| `AuditPublisher` | the publisher | `CheckOpen` and `Enqueue`/`Drop` are the two halves of `Publish`; `Take`, `Send`, `SendFails`, `SeeClosed`, `Stop`; `CloseBegins`, `CloseReturns` |
| `ProxyShutdown` (extends `AuditPublisher`) | `main` of the proxy | requests accepted and running, `Signal`, `ShutdownReturns`/`ShutdownTimesOut`, the deferred `Close` |
| `AuditPipeline` (extends `ProxyShutdown`, instantiates `AuditWriter`) | an event from the handler to its row | `Dispatch` writes to the publisher's connection, `Arrive` publishes at the broker, `LoseLink`, `Kill`; `Exit` waits for the broker's answer; `Write` is the worker |
| `AuditTrail` | abstract specification of the audit pipeline | routed events are outstanding, then stored or set aside |
| `AuditWriter` | worker, queue, table | `Start`, `Deliver`, `Receive`, `Reject`, `Insert...`, `Settle`, and the interruptions `Crash`, `ConnectionLost`, `StopBegins`/`StopEnds`/`StopDeaf`; implements `AuditTrail` |
| `AlertConsumer` | the alert queue and its consumer | `RouteAlert`, `StartAlerts`, `ReceiveAlert`, `HandleAlert`, `AckAlert`, the end of process and connection |
| `AuditWorker` (extends `AuditWriter`, `AlertConsumer`) | the worker process | `PublishEvent` routes to both queues, `main`'s order of start and stop, a crash takes both |

`MC...` modules give the constants their values; `...Proofs` modules hold the theorems.
`Proxy` uses the policy engine, the limiter and the tokens through what their own modules
show of them: a permitting decision was in the table at some time, the limiter admits,
denies or fails, a token stands for the user it was issued to.

Abstractions that are not obvious:

* Redis drops a key when the clock reaches its expiry; a snapshot keeps absolute expiries.
  Keys of different triples, pairs and tokens do not interact: the key formats are
  injective (`internal/cache/keys.go`).
* A call of the limiter is known by its time stamp, as the code assumes
  (`limiter.go:36`). Scores are doubles, so two stamps less than about 256 ns apart may
  tie in a score; the members stay distinct. Clock skew between several proxies is not
  modelled, except as far as it looks like `Delay`. A limit that is not positive is denied
  before the script (`Begin` has no action for it).
* `WriteDelay` bounds the time from the read of the row to the effect of the `SET`
  (`engine.go:141` gives the write two seconds).
* `AdminStore` has no HTTP answers and none of the columns no operation tests. Ids are
  random and never reused.
* In `Proxy` any look-up may fail (the store, or the client's cancelled context), the
  engine's fail-closed answer is `DenyByPolicy`, and an event is published atomically with
  the answer; the publisher's own fate is `AuditPublisher`'s. A downstream
  server that answers 307 or 308, on which Go's HTTP client sends the call again to where it
  points, is not modelled.
* In `ToolCall` a JSON value is known by its paths (an index of an array is a key), and a
  result is a `ToolResult`, or any other JSON, which `ShownResult` leaves alone; a result
  that cannot be marshalled again does not exist. The body of a failed call is the event's
  summary as text. Numbers are told apart only by whether a float64 holds them as they are
  written (`wide`): decoding one into a `map[string]any` and encoding it again rounds it
  (`Decoded`, `rounded`). `parseToolCall` does that to the arguments before anything else sees
  them, redaction to the object it redacts. A number beyond the range of a float64 does not
  decode: in a request it is refused with the rest of the request, and a text that has one is
  left unredacted like any text that is no object.
* In `AuditPipeline` every event is valid (`NewEvent` always passes `Validate`), and the rows
  its foreign keys name are there (`Proxy` has `EventReferences`), but PostgreSQL may reject it
  all the same: `text` and `jsonb` have no NUL character, while a tool name, an argument or a
  result may have one (`\u0000` in JSON). `Refused` has such events. One proxy process is
  followed to its end, and the broker does not restart.
* In `AlertConsumer` the broker's deliveries are not told from its queue: the channel has no
  prefetch limit, and nothing depends on the difference.
* Mutant operators (`...Renews`, `...Unchecked`, ...) stand beside the definition they
  mutate; nothing else refers to them.

## 3. Runs

| run | shows | bounds, and why they are enough |
|---|---|---|
| `policy_cache` | a permit is at most `PolicyTTL + WriteDelay` old, a default deny at most `NoPolicyTTL + WriteDelay`; after an invalidation the cache answers nothing older than `WriteDelay` before it | two evaluations (a late write needs one that is overtaken), an allowing and a denying row, TTLs 3 and 1, delay 1, clock to 5 (a stale write lives out its TTL) |
| `policy_new_takes_effect` | *violation*: see 6 | TTLs 4 and 1, delay 2, clock to 6 |
| `rate_limiter` | at most `l` calls with limit `l` or less in any window less the delay; a denial has its cause | two calls in flight, limits 0, 1, 2, window 3, clock to 6 (two windows) |
| `audit_publisher` | every accepted event is sent or lost once, in order; Close flushes what came before it and returns | three events, buffer of two (full, and drained while refilled) |
| `audit_pipeline` | no event is refused by `Close`; when `main` has returned an accepted event is a row or with the broker, unless its send failed, its connection broke or no worker had ever run; then it becomes a row, unless PostgreSQL rejects it, and one it rejects does not keep the others out; a signal leads to an exit | two requests and a buffer of one (an event in hand, one waiting, or one dropped), the event that arrives first is rejected for ever and the window is two, one lost connection, one interruption of the worker of any kind |
| `audit_worker` | nothing routed is lost, no message is in two places, the abstract trail is implemented, valid events and malformed ones end where they belong; no alert is lost, every alert's event is stored or on its way, and alerts are raised | three messages: one that PostgreSQL rejects at the head, one malformed, one good, the last two alerted; prefetch 2; two interruptions of any kind and one of the alert consumer alone. With more messages that can only be requeued than the window takes the writer starves (see 6); that safety does not depend on the numbers is proved |
| `audit_writer_duplicate` | *violation* | one crash |
| `admin_store` | the tables stay consistent, deactivation sticks | two roles, users and servers, three server names (a swap needs a third), three policy ids |
| `proxy` | what runs downstream was authorised and is accounted for: a request that policy or limiter decided has the one event that says what its agent was told, and any other (`Silent`: an unknown caller or server, a server that is off, a look-up or the limiter failing) has none and was never sent; the users and servers that events name stay in their tables; the abstract gateway is implemented | two requests with one token, a user who moves between two roles, a server that is renamed, one policy |
| `token_store` | tokens are accepted for their user, in their life time, not after a revocation Redis remembers | two tokens, two users, life 2, clock to 5 |
| `call_record` | what of a call reaches the server, the agent and the trail; the trail shows the parameters the server got, but for what it says is redacted; no call leaves bare whose secret did not resolve; a walk through the pages is complete, and shows a row twice only for cause | one call over nested parameters and a number that is rounded, results with a top-level field, a nested one, plain text, an image and extra members; pages of one row (the default) and of two (the maximum, asked for as three), a limit of 0 and one that wraps to a negative number, with integers of four bits; a late row, a newer one and a tie. The proofs have every size |
| `redact_before_persist` | *violation* | as above |

Symmetry is used for interchangeable ids and only in runs without liveness properties.
Deadlock is not checked where the system may really stop: a closed publisher, an exited
process, a writer with nothing left to do. Elsewhere the actions that are always possible
keep the model going.

### Fairness

* `AuditPublisher`: weak fairness of the worker and of the return of `Close` - the Go
  scheduler runs a goroutine that can run. Callers of `Publish` owe nothing.
* `AuditPipeline`: the same for the publisher's worker (`Dispatch`), for `main` (`Exit`) and
  for the end of `Shutdown`, which has a timer (`EndShutdown`: it returns when the handlers
  are done or its context expires); what is written to a connection arrives or is lost with
  it (`Arrive`); and `AuditWriter`'s.
* `AuditWriter`, `AuditWorker`: weak fairness of the loops' steps and of the container's
  restart (`restart: unless-stopped`); strong fairness of `Deliver` (RabbitMQ delivers a
  message that is deliverable again and again although `Stop` or a requeue interrupts it), of
  `InsertStores` (an insert Postgres can make is not refused for ever) and of the end of
  `Stop`. Nothing makes a worker whose connection is lost reconnect: the properties except it.

## 4. Proofs

Every safety property a run checks, invariant, action property or refinement, is also a
theorem, proved from the constants' assumptions (`...Assumption`) alone: any sets, TTLs,
delays, limits, windows, widths, prefetch and number of interruptions. No property is
inductive as it stands; each module of proofs has an invariant that is, whose conjuncts are
named for what they are needed for.

| theorem | states | argument |
|---|---|---|
| `PolicyCacheProofs!PermitBound`, `DefaultDenyBound` | the ages above | An answer is as old as the entry it comes from, the entry as the goroutine or the snapshot it comes from. `IInv` says for each of the three that its content was the row late enough to explain its expiry (`Confirmed`, `FillConfirmed`) |
| `PolicyCacheProofs!InvalidationWorks` | `InvalidationHolds` | `HInv`: after an invalidation only a goroutine can fill the entry, and `FillConfirmed` bounds what it carries |
| `RateLimiterProofs!WindowBounded` | `WindowBound` | Every admitted call is still recorded or its window has passed (`Recorded`; the key outlives its members, `KeySound`). So the count a script returns bounds the admitted calls of its window, and a script is at most `Delay` behind its stamp |
| `RateLimiterProofs!DenialsHaveCause` | `DeniedForCause` | `HInv`: the members of the key and of the snapshot are calls that were made |
| `PolicyCacheProofs!HistoryBounds`, `RateLimiterProofs!HistoryQuota` | the same bounds of the specifications with history variables, which are the ones the runs check | the history only records: each of these specifications implies the one it extends (`HistoryOnly`) |
| `TokenStoreProofs!LifetimeKept` | `AcceptedInLifetime` | every key, in Redis and in the snapshot, agrees with its grant (`Faithful`) |
| `TokenStoreProofs!RevocationKept` | `RevokedStaysOut` | a revoked token has no key and, once issued, gets none; the snapshot keeps that for the revocations it has seen (`RevokedGone`) |
| `AdminStoreProofs!ReferencesHold`, `OneRule`, `OffForGood` | `References`, `OneRulePerTriple`, `OffStaysOff` | `AdminInv`: what a handler refers to is checked in its own transaction, a delete is refused while it is referred to; `OneRulePerTriple` counts rows, the invariant says it without counting (`RulesUnique`) |
| `ProxyProofs!NoneUnauthorised` | `Authorised` | `ProxyInv` says of each step of the handler what its look-ups have found (`FoundUser`, `FoundServer`, `FoundPermit`) and that a call is admitted before it is sent and sent before it is run (`Sent`). What the look-ups found may be stale at once; what saves the property is that everything drifts one way only (`Drift`): what stood against a request when it arrived stands against it still (`Begun`), so a look-up that passed passed for good reason |
| `ProxyProofs!EveryAnswerAccounted`, `EventsReferToRows` | `Accounted`, `EventReferences` | `Ledger`: the event is written with the answer and names rows, which no handler removes; an answer without one is `Silent`, and only requests that are not admitted get one |
| `ProxyProofs!GatewayImplemented` | `Proxy` implements `Gateway` | under `ProxyInv` every step of a handler, of the downstream server or of a crash maps to a step of the gateway for one call, and administration to a stutter |
| `ProxyProofs!TablesImplemented`, `TablesKept` | `Proxy` implements `AdminStore`, so `References`, `OneRulePerTriple` and `OffStaysOff` hold under the gateway | a step of a request, a token or a crash leaves the tables alone |
| `ProxyProofs!StoppedCallsNeverRun` | `Gateway`'s `StoppedNeverRuns`, of the proxy | an event that says the call was stopped is one of a request that was not admitted (`Ledger`), and only admitted requests are sent |
| `AuditPipelineProofs!AcceptedConserved`, `CloseFlushes` | `Conserved`, `EarlyFlushed` | `PublisherInv`. Sequences are compared by which element comes before which (`Before`): appending, taking the head and sending keep that order. `FlushInv`: a worker stops with an empty buffer, and `Close` waits for it |
| `AuditPipelineProofs!NoneEverRefused` | `NoneRefused` | `QuietInv`: `main` closes the publisher only after `Shutdown` returned, when no handler runs and none can start |
| `AuditPipelineProofs!FirstInFirstOut` | the broker gets each accepted event at most once, in the order of acceptance | `WireInv`: what was sent is on the connection, lost with it or at the broker (`SentSomewhere`), in order (`InOrder`) |
| `AuditPipelineProofs!NoGapsEver` | `NoGaps` | messages are numbered as they arrive (`RoutingInv`), nothing is routed before the queue is bound, and nothing unbinds it |
| `AuditPipelineProofs!ExitDelivers`, `PipelineTypeCorrect` | `GracefulExitDelivers`, `PipelineTypeOK` | the four invariants together with the writer's, whose proofs are instantiated (`WP`) for the pipeline's queue: a closed publisher has left nothing behind (`ClosedIsEmpty`), what arrived is routed, and what is routed is with the writer or in the table |
| `AuditPipelineProofs!PublisherImplemented`, `PublisherKept`, `WriterImplemented`, `PipelineTrail` | the pipeline implements `AuditPublisher`, `AuditWriter` and `AuditTrail`, so what is proved of them holds in the whole | every step is one of the part or leaves its variables alone; for the writer the messages are the events numbered as they arrive, and `WireInv` says that there are never more of them than events and that none arrives twice |
| `AuditPipelineProofs!CloseIsBounded` | once `Close` was called, every step of the worker or of a `Publish` past its check lowers `Effort` | `Effort` counts what such a call and an event in the buffer still cost: a place, a take and a send. A `Publish` that comes later is refused (`isDone` stays), so nothing refills the buffer for ever |
| `AuditPipelineProofs!ExitIsBounded` | from the signal on, every step of the proxy process or its connection lowers `Leaving` | `Leaving` adds to `Effort` the handlers still running, what is on its way to the broker and the stages of `main`; no handler starts after the signal |
| `AuditWorkerProofs!NeverLost` | `NothingLost` | `HandSound`: the message in hand was routed and its verdict fits it; `InboxSound`: what is not linked has no deliveries; `Sorted`: malformed messages and rows are apart |
| `AuditWorkerProofs!OnePlaceOnly` | `OnePlace` | `PlaceInv`: a process that is down has nothing in hand, and a delivery that is handed on leaves the place it was in |
| `AuditWorkerProofs!TrailImplemented` | `AuditWriter` implements `AuditTrail` | every action maps to `Route`, `Store`, `SetAside` or a stutter, under `IInv` |
| `AuditWorkerProofs!WorkerTrail`, `WorkerKeepsAll` | the worker process implements `AuditTrail`, and has the writer's invariants | every step of the process is a step of the writer or leaves its variables alone, which is how `WorkerNext` is put together (`WriterWithin`) |
| `AuditWorkerProofs!AlertNeverLost`, `AlertTrailed` | `NoAlertLost`, `AlertIsTrailed` | `LoopSound`: a handled message has its alert; `BoundFirst`: the writer's queue is bound before the alert queue, so what is routed to the one is routed to the other, where `NothingLost` keeps it |
| `CallRecordProofs!WalksMissNothing` | `WalkComplete` | The rank of a matching row is the number of matching rows that occurred after it: its place in every listing, unless it is tied (`ListingRank`). `StillToCome`: a row that was due and is not seen has a rank of at least the offset, and insertions only raise ranks, so the empty page proves there is none. An offset is cut to `int32` only where PostgreSQL then refuses it (`OffsetReads`) |
| `CallRecordProofs!RepeatsHaveCause` | `RepeatsExplained` | `LeftBehind`: a row that was seen ranks below the offset, unless a newer one has pushed it on |
| `CallRecordProofs!WalksAdvance` | the offset stays within the matching rows (`OffsetInside`), and a reader who goes on was given a row (`WalkAdvances`) | a listing has as many rows as match (`ListingShape`), a page that is not empty ends further on and within it (`PageAdvances`), and insertions only add to what matches. So the bound in the guard of `ReadPage` stops no reader |
| `CallRecordProofs!AuditedAsShown`, `TrailMatchesSent`, `CallsCredentialed`, `TopLevelClean` | `StoredIsShown`, `AuditedIsSent`, `SentWithCredential`, `TopLevelStripped` | `CallInv`, one record at a time: what was shown is `ShownResult` of a result for the call's own fields (`ShownAsAudited`), parameters and credential go out as parsed and registered (`ParsedAndSent`); lemmas on what `RedactJSONBytes` and `RedactItem` leave (`RedactedClean`, `RedactedMatches`, `ShownClean`): parameters that were read have no number left to round (`ReadShape`), so redacting them changes nothing but the listed fields |
| `TypeCorrect` (five modules), `WorkerTypeCorrect`, `AdminTypeCorrect`, `RecordTypeCorrect` | the types | part of each invariant |

The assumptions are what the constants are in the code: different ids for different things,
positive TTLs, the auth types migration 3 admits, finitely many events, a default deny that
redacts nothing. Two say more than that. `PowerAssumption` (`AuditLog`) is arithmetic the
provers do not know, `2 ^ Bits = 2 * 2 ^ (Bits - 1)`; TLC evaluates it with the others.
`ResultAssumption` (`ToolCall`) names the members of the records the model uses for results,
and `InputAssumption` that the numbers of the arguments are among their values.

Model-checked only: the liveness properties (`CloseCompletes`, `ExitReached`,
`EventuallyRecorded`, `EventuallySettled`, `EventuallyAlerted`), since fairness and `ENABLED`
are beyond the prover, and the three violations of section 6. Of the first two the half that
needs neither is proved: `CloseIsBounded` and `ExitIsBounded` give the measure that falls with
every step, so there is no way to be busy for ever; that a step is always possible and is taken
is what TLC adds. The three about the worker have no such measure: interruptions and requeues
put work back, and only fairness ends them.

## 5. Not modelled

* The status codes with which the admin API refuses a request, and its list and get
  handlers: they change nothing.
* The dashboard: a browser client whose only state is a form and a token in localStorage.
  Where its requests do not fit the handlers is listed in 6.
* Configuration, logging, request ids, health checks, the comparison of the admin token: no
  state that another step depends on. The mock downstream server is a fixture.
* The alerter itself: `LogAlerter` writes a log line and cannot fail.
* Several proxies or workers at once: `docker-compose.yml` runs one of each.

## 6. What the code does otherwise than its documents say

Shown by a run:

* **A new policy may not take effect within ten seconds** (`policy_new_takes_effect`):
  `engine.go:102-103` gives the default deny a short TTL for that, but the cached decision of
  an earlier row of the triple, deleted since, lives for `PolicyTTL`. No binary calls
  `InvalidatePolicy`, which `engine.go:148` asks of the admin API.
* **A duplicate delivery is requeued for ever** (`audit_writer_duplicate`): `ON CONFLICT DO
  NOTHING ... RETURNING` returns no row, the generated query reports `pgx.ErrNoRows`, and
  `persist` treats it as a failure. Enough of them fill the prefetch window and stop the
  writer; the same goes for events PostgreSQL always rejects, such as one with a NUL character
  in the tool name, an argument or the result (`Unstorable`, `Refused`): `CHANGELOG.md:250`
  says such messages are rejected to the dead-letter queue.
* **Sensitive fields do reach PostgreSQL** (`redact_before_persist`): `redactJSON` looks at
  top-level keys, while the audited parameters are `{name, arguments}`; nested objects,
  arrays, results that are no `ToolResult` and the body of a failed call (`main.go:286`) keep
  their fields. `README.md:91`, `CHANGELOG.md:265` and migration 5 say they are stripped
  before the event is published. What does hold is `TopLevelStripped` and `StoredIsShown`.

Met while modelling, visible in the models, without a run of their own:

* After a lost AMQP connection the worker stays up and consumes nothing (`"deaf"`, which the
  liveness properties have to except); the publisher's sends all fail from then on
  (`Dispatch`).
* `Close` promises to flush pending events (`publisher.go:151`), but `Publish` releases the
  mutex before it sends to the channel, and an event can enter the buffer of a worker that has
  stopped. `EarlyFlushed` says what is flushed; the proxy's `main` avoids the race by
  shutting the server down first (`NoneRefused`).
* A request for a server that is found but off (`main.go:205`), and one the limiter failed on
  (`main.go:241`), are refused without an audit event (`Silent`), although `event.go:2` has
  every decision published.
* `parseToolCall` decodes the arguments into a `map[string]any` (`main.go:341`), so a number no
  float64 holds reaches the server rounded: 9007199254740993 as 9007199254740992. So does one
  in an object of a result that is redacted (`redact.go:67`). The trail has what the server
  got (`AuditedIsSent`), not what the agent wrote.
* A revocation is undone when Redis restarts from an older snapshot (`TokenStore`,
  `RedisRestart`). A user may hold several tokens, although `Tokens.tsx:62` says one.
* With a listed field, the result the agent gets loses what `ToolResult` and `ContentItem`
  have no member for, such as the data of an image (`RedactItem`).
* `forwarder.go:42` calls `bearer` the only supported type; the tables admit `api_key` and
  `oauth2`, and `oauth2` gets no credential (`SentWithCredential` excepts it).
* The whole redacted result is stored as `response_summary`, which migration 5 describes as a
  summary without the full payload (`AnswerCall`).
* `ListAuditEvents` uses the first filter only, accepts a limit of 0, and converts larger
  numbers to `int32`, which may make them negative and the answer 500 (`AuditLog`). The
  dashboard sends `page`, `per_page`, `from` and `to` (`web/src/api.ts`), which it ignores.
* The dashboard revokes tokens by user id in the query string (`api.ts:144`); the handler
  wants the token in the body.
* `DeleteRole` and `DeletePolicy` of an unknown id answer 204; a taken name answers 409 when
  created and 500 when updated.
* A script of the limiter that is overtaken counts calls stamped after its own, so
  `Result.Count` is an upper bound.

## 7. Plan

1. *(done)* The core: policy cache, limiter, tokens, publisher and shutdown, writer and its
   trail, tables, request handler.
2. *(done)* Extension: `Gateway` and the refinement, `ToolCall`, `AuditLog` and `CallRecord`,
   `AlertConsumer` and `AuditWorker`, `AuditPipeline`.
3. *(done)* Proofs of every safety property the runs check, of the refinements, of the parts
   inside the compositions that use them, and of the measures behind the ends of `Close` and
   of the proxy process.
4. *Left.* The fairness half of liveness, which stays with TLC: above all that a full prefetch
   window (6) is the only way a storable event can stay outstanding under fairness. A change of
   the code that adds a way to stop, to retry or to cache starts with the invariant of section
   4 that speaks of it.
