# Verification of klog-go-sdk

TLA+ models of the Go SDK of the KLog log service, TLC configurations that
check them on small instances, and TLAPS proofs of what holds for every size of
queue, batch and client. Paths below are relative to the repository.

## The system

| component | state | operations | hard behaviour |
|---|---|---|---|
| Asynchronous client, `klog/api.async.go` | channel `ch`, `buf`/`idBuf`/`bufSize`, `lastSendAt`, context, WaitGroup | `PushLog`, `Stop`, goroutine `run` with `send`, `removeInvalidLogs`, `CheckLog`, user callback | producers, worker and stoppers interleave; requests fail ambiguously; retries race with cancellation |
| Multi-pool client, `klog/api.async.multi.pool.go` | `sync.Map` of asynchronous clients | `PushLog`, `Stop` | load-then-store, two passes over a changing map |
| Synchronous API, `klog/api.go`, `klog/error.go` | none (a global mutex around request creation) | `PutLogs` | maps failures to the codes `send` tells apart |
| Requests, `service/request.go`, `handler_functions.go`, `service.go`, `handlers.go`, `types.go` | per request: error, retry state, body position, `built`, signature | `Send`, `Sign`, `Build`, handler lists | HTTP retries that reuse the body and the signature |
| Signer, `internal/signer/v2.go` | the `Authorization` header | `Sign` | signs once per request |
| Credentials, `credentials/` | cached value, `forceRefresh`; `curr` of the chain; file name and profile of the shared provider | `Get`, `Expire`, `IsExpired`, `Retrieve` of the chain and of each provider | refresh shared by concurrent requests, over an environment and files that change |
| INI parser, `credentials/ini.go` | the `File` it fills, the current section | `LoadFile`, `parseFile` | what wins: assignment or header, first or last |
| Configuration, `service/config.go` | none | `Merge`, `Initialize` | zero values, the order of handlers |
| Sequence numbers, timers, `service/util.go` | process-wide counter | `GetSeqNo`, `MakeRandomTimer` | shared by all clients |
| Errors, validator, logger, generated protobuf code | - | - | pure, or output only |

A producer calls `PushLog`, which takes a number and blocks on the channel. The
worker goroutine gathers logs and calls `PutLogs`, hence a request with its own
HTTP retries, which get and may expire the shared credentials. The result comes
back to `send`, which reports logs through the callback, removes bad logs, or
retries after a random delay until the context is cancelled. `Stop` cancels and
may wait for the worker. The multi-pool client is a map of such clients.

What makes each of them correct:

- asynchronous client: one callback for each log, with its own number and log;
  no log lost or reported twice while the worker lives; a nil error only for a
  log the service has; groups within the limits; a producer's logs in order;
  nothing given up without a reason; `Stop(true)` returns, after the worker;
- multi-pool client: a log goes to a client of its pool; few clients; `Stop`
  reaches those in the map, and returns;
- requests: the whole body on each attempt, a bounded number of attempts, the
  result of the last one; length, checksum, compression header and signature
  that fit the body, and a valid signature after credentials expire;
- configuration: what the caller asked for is what goes out;
- credentials: no value is used after `Expire` without asking the provider; a
  `Get` gives what the first provider has that has anything; the parser says
  what the file says; the file and the profile once derived are kept.

## The modules

| module | what it is |
|---|---|
| `AsyncClient` | the asynchronous client with its producers, stoppers, worker and service |
| `LogDelivery` | what that client promises: one verdict for each log, confirmed only if stored |
| `MCAsyncClient` | sizes of logs and the symmetry set for the runs |
| `AsyncWorker` | that client as seen by who has a pointer to it: channel, context, WaitGroup, worker |
| `AsyncClientProofs` | type invariant, `StopWaits` and the safety part of the refinement of `AsyncWorker` |
| `BatchProofs` | sums of sizes; `BatchWithinLimits`, `BufSizeExact`, `BusyRetryShrinks` |
| `DeliveryProofs` | `CallbackOnce`, `NothingLost`, `NilMeansStored`, `DropJustified` and the refinement of `LogDelivery` |
| `OrderProofs` | `ProducerOrder`, on top of the places of `DeliveryProofs` |
| `AsyncMultiPool` | the map of clients, with `PushLog` and `Stop`; it EXTENDS `AsyncWorker` |
| `MCAsyncMultiPool`, `AsyncMultiPoolProofs` | its instance, and its safety properties, proved |
| `Credentials` | `Credentials` over a chain of providers, with the mutex |
| `Providers` | what is behind it: the chain, the three providers and the INI parser, step by step; it EXTENDS `Credentials` and is shown to implement it |
| `MCProviders`, `ProvidersProofs` | its instance, and its safety properties, proved |
| `Request` | the `Send` loop of requests that share `Credentials`; it EXTENDS `Credentials` |
| `MCRequest`, `RequestProofs` | its instance, and every safety property of `Request` and `Credentials`, proved |
| `ClientConfig` | `DefaultConfig`, `Merge` and `Initialize` as operators |
| `Wire` | `Request` with the body, headers and signature of each attempt, of services made from a `Config`; it EXTENDS `Request` and INSTANCEs `ClientConfig` |
| `MCWire`, `WireProofs` | its instance, and its safety properties, proved |

```
AsyncMultiPool --EXTENDS--> AsyncWorker <--implements-- AsyncClient --implements--> LogDelivery
                                                             :
                                                  PutLogs as seen by send()
                                                             :
ClientConfig <--INSTANCE-- Wire --EXTENDS--> Request --EXTENDS--> Credentials <--implements-- Providers
```

`AsyncClient` does not contain `Request`: it sees `PutLogs`, which answers with
one of the errors that `send` tells apart. `Request` says how such an answer
comes about, and that it is the outcome of the last HTTP attempt (`LastWord`).
That is what the action `PutLogs` takes for granted when a nil error stores the
batch. Any other error leaves open whether the service took it.

Operators marked `mutant` in a comment are faulty variants of the definition
that follows them. No action uses them; each shows that a property can fail.

### AsyncClient

A log is a member of `Log`, which the client tells apart by `Size`, `BadUtf8`
and `OverLimit` (too many or too large contents) only. Its number tells one
`PushLog` from another, so the same log may be pushed twice.

| state | in the code |
|---|---|
| `number` | `service.generator.number` |
| `pushing[p]` | `ev` of a `PushLog` that has its number and is not yet in the channel |
| `ch` | `AsyncClient.ch`, at most `ChanSize` events |
| `buf`, `idBuf`, `bufSize` | the fields of these names |
| `held` | `ev` in `run` while `send` runs first (lines 121-123) |
| `aged` | `time.Now().Sub(o.lastSendAt) > 2s`; time is not counted further |
| `err`, `pos`, `newBuf`, `newIdBuf` | locals of `send`, its deferred function and `removeInvalidLogs` |
| `cancelled`, `wg` | the context and the WaitGroup |
| `pc` | where the goroutine of `run` is |
| `limbo`, `stored` | the service: batches it may still take, logs it has |
| `pushed`, `notified`, `stop`, `sawRun` | history of the calls |

An action is the code between two points at which another goroutine can be seen:
a channel operation, a select, a request, the context, the WaitGroup, a callback.

| action | code |
|---|---|
| `PushLog`, `PushReturns` | `PushLog`: take the number; send on the channel |
| `Stop`, `StopReturns` | `Stop(false)`, `Stop(true)`: cancel; `wg.Wait` |
| `RunStarts` | `wg.Add(1)` of the goroutine, which is not running when `NewAsyncClient` returns |
| `SelectDone`, `SelectEvent`, `SelectTick` | the cases of the select in `run` |
| `Age` | two seconds pass |
| `PutLogs(e)` | one round of `send`: the request and the branch on its error |
| `LateStore` | a request that failed for the client turns out to have been taken |
| `RemoveStep`, `RemoveReturns` | `removeInvalidLogs`, one log at a time |
| `TimerFires`, `StopsRetrying` | the select in `send` |
| `FinishStep`, `SendReturns` | the deferred function, one callback at a time; back in `run` |

`SendReturns` also does what follows the call in `run`: it appends the event that
was held, which may at once lead to the next `send`.

### Request and Credentials

A caller is a goroutine with one `Request`. `pc` is its place in the loop of
`Send`: `build`, `sign`, `get` (inside `Credentials.Get`, with the mutex), `send`,
`after` (the retry handlers), `done`. `body` is how far the body has been read,
`auth` the `Retrieve` whose value the `Authorization` header was made with,
`open` the responses whose body is not closed. `attempts` is a history: for each
attempt, how it was signed, where its body started and what came back.

`Request` has the control of a round; `Wire` adds the data it carries (below).
`Send(c, r, to)` is one attempt: rewind, the transport reading the body up to `to`,
the answer `r`, the check of its status. `GivesUp` and `Retries` are
`AfterRetryHandler` and the return or the next round of the loop. `Get` is split
where it calls the provider (`GetBegins`, then `GetFetches` or `GetFails`), with
the mutex `m` held between; each `Retrieve` of the chain picks the first provider
that finds keys, and which one that is may change from call to call. How it is
found is the subject of `Providers`.

### Wire and ClientConfig

`Given[c]` is the `Config` a caller's service was made with, or nil; `Settings[c]` is
what `Merge` makes of it and `DefaultConfig`. Fields are small sets: a host with
or without a scheme, an HTTP client that is nil, the default or the caller's own.
`http[c]` is `Request.HTTPRequest` with its body, and `sent[c]` the history of what
each attempt transmitted. Data is told apart by where it comes from: a body is
the marshalled group or its compression, a checksum is *of* one of these, a length
is of what is left unread of one of them, and a signature is the record of what
the string to sign was made of.

Each action of `Wire` is one of `Request` together with its effect on the headers:
`Build` with `RunBuild`, which is the Build handlers in the order `Initialize`
installs them; `SignSkips`, `SignsCached` and `SignWaits` with `BuildContentLength`,
which runs in every round and before the body is rewound; those that sign with
`Sign`; `Send` with `Transmit`.

### AsyncWorker and AsyncMultiPool

`life[n]` is the goroutine of a client: not made, spawned, running, exited. `wg`, `ch`
and `cancelled` are its fields. `AsyncClient` implements `AsyncWorker` with all of its
`select`, `send` and `removeInvalidLogs` being "running" (`ImplementsWorker`, which
includes that a cancelled worker returns). So `AsyncMultiPool` need not say what
a worker does with a log: it may take what is in its channel, or leave it there.

| state | in the code |
|---|---|
| `AsyncClients` | the `sync.Map`, from keys to clients |
| `made` | per client, its pool and the goroutine that made it |
| `pc`, `target`, `mine` | per pusher, its place in `PushLog`, the arguments, the variable `client` |
| `pass`, `due`, `visited`, `at` | per stopper, which `Range` it is in, the keys it must visit and has visited, the client in hand |
| `on`, `ran`, `late` | history: what was in the map when `Stop` was called, which of those ran, whether a client was stored since |

`Load`, `Make`, `Store` and `PushReturns` are the four steps of `PushLog`; `Stop`,
`Visit`, `Cancels`, `CancelledAll`, `Visit` again, `Waits` and `StopReturns` those of
`Stop`. `sync.Map.Range` is modelled by what its documentation promises: it visits
each key that is there when it begins, no key twice, a key stored meanwhile
perhaps, and loads the client when it comes to the key. Names have no `\001` in
them.

### Providers

Goroutines call `Get` and `Expire` while the environment and the files change.
`GetStarts` is the lock and the call of `Retrieve`; `Asks` is one round of the chain's
loop; `Gives` and `Errs` end it, and `GetErrs` ends the loop. `EnvReads` reads one
variable, `SharedFinds` and `SharedOpens` derive the file name and the profile, which
the provider keeps, and open the file; `ParseLine` is one line of `parseFile`.
A line is told apart by which of the two expressions of the parser match it
(`[a=b]` is matched by both), its key, value or section. `StaticProvider` takes part
in a chain as any other provider may.

`Credentials` sees a whole walk along the chain as one step. The refinement
mapping keeps `retrieved` at what it was when the `Get` began until the mutex is
released, since nobody else can look at it before that.

## The runs

| run | what it checks | instance | distinct states |
|---|---|---|---|
| `async_batch` | `TypeOK`, `CallbackOnce`, `NothingLost`, `BatchWithinLimits`, `BufSizeExact` | 1 producer, 4 logs of 5 kinds, bulk limit 3, channel of 2 | 463 000 |
| `async_retry` | `NilMeansStored`, `ProducerOrder`, `DropJustified`, `ImplementsDelivery`, `BusyRetryShrinks` | 2 producers, 1 stopper, 3 logs of 3 kinds, bulk limit 2, channel of 2 | 2 138 000 |
| `async_stop` | `StopWaits`, `StopTerminates`, `ImplementsWorker` | 2 stoppers, 2 logs | 85 000 |
| `async_live` | `LogSettled`, `PushLogReturns` | 1 producer, 3 logs of 4 kinds, channel of 1, no stopper | 24 000 |
| `pool_stop` | `TypeOK`, `RightPool`, `OneClientEach`, `StopReaches`, `WaitsForCancelled`, `StopEnds` | 2 pushers, 1 stopper, 2 pools, 2 clients, channels of 1 | 530 000 |
| `request_send` | `WireTypeOK`, `WholeBody`, `RetriesJustified`, `LastWord`, `ErrorBodiesClosed`, `ExpireKept`, `FramedAsSent`, `SignedAsSent`, `ConfigHonoured`, `MutexReleased`, `SendReturns`, `SendProgresses` | 3 callers of services with different Configs: with retries, without, and without an endpoint | 211 000 |
| `providers_get` | `TypeOK`, `ParserRight`, `OneProfile`, `FetchRight`, `ImplementsCredentials` | 2 users, 2 values, 1 change, 3 files, 2 homes, 3 providers | 384 000 |

What they show: under every interleaving of these instances a log is reported
once, with what became of it; a `PushLog` that waits for room gets it; a `Stop` that can return does; every attempt of a
request goes out whole, framed, signed and as configured; and the credentials it
is signed with are those of the first provider that has any.

The other runs look for, and find, a violation of what the documentation or a
comment says:

| run | property | finding |
|---|---|---|
| `async_unreported` | `EveryLogReported` | `run` returns on `Stop` with logs in `buf` and `ch`, for which no callback is called |
| `async_earlystop` | `StopQuiesces` | `Stop(true)` before the goroutine runs does not wait, and a request may follow |
| `request_resign` | `RetryResigned` | the retry after `ExpiredToken` is not signed again |
| `request_refresh` | `ExpiredTokenRefreshes` | without a retry left, `ExpiredToken` does not expire the credentials |
| `pool_hang` | `StopAlwaysEnds` | the multi-pool client's `Stop` waits for a client stored between its passes, which nobody cancels |

Findings of the reading alone (each with its lines in `PROJECT.json`): a log
reported with an error may be stored all the same; with `DropIfPoolNotExists` the
callback gets the error, not the success the comment names; after `run` has
returned, `PushLog` on a full channel blocks for ever; a client overwritten in
the map is never stopped; the README's `client.Stop(true)` on a multi-pool client
does not compile; the shared provider gives empty keys where the interface
promises an error; `CompressMethodNone` cannot be chosen; `MaxRetries` 0 and `Debug`
false are merged in although the comment says that zero values are not.

### Bounds

- `MaxPushes`: calls of `PushLog`. Four with a bulk limit of three allow a full
  batch, an event kept across a `send`, and one more in the channel; three logs
  of two producers give each order in which numbers and channel positions can
  differ.
- Byte limits are those of the code. Sizes are chosen around them: a log of
  `MaxLogSize`, which fills a group alone and overflows any other, one byte more,
  a third of it (two reach `LogGroupSizeToSend`), and small ones.
- `MaxBulkSize` (4096 in the code) is 2 or 3, and the channel holds 1 or 2 events;
  `async_batch` gives `QueueSize` 0, so that `ChanSize` takes the default.
- `BodyLen`: a body of one part is read or not, which is all that a rewind can
  tell apart.
- `MaxClients` of `AsyncMultiPool` is 2: two goroutines at one pool make two clients
  and overwrite one, or one goroutine makes a client while `Stop` is between its
  passes. A push that would make a third waits in the model.
- `MaxFetches` and `MaxChanges` of `Providers`: two values, so that a stale one can be
  told from a fresh one and a second profile from the first, and one change, which
  may fall between any two steps of a `Retrieve`. The three files have a section
  opened twice, keys assigned twice, a line before any header, `[a=b]`, and a line
  that is no line.
- `async_live` has no stopper: both of its properties hold trivially once the client is
  stopped. Three logs are what it takes for one to be in a `send`, one in the channel
  and one before it.
- `request_send` has no anonymous caller; for these the properties are proved only.
- A retry of `send` is not bounded: the state does not count retries. HTTP
  retries are bounded by the code.

Each bounded run shows its properties for these instances. The proofs remove
the bounds for every property but the liveness properties.

`SYMMETRY` is used in `async_retry` for the producers, which the properties
quantify over and no constant tells apart. That run has no liveness property.
`ImplementsDelivery` is a safety property.

`CHECK_DEADLOCK FALSE` is set because the system may come to rest: a client that
is stopped with a full channel, or one whose pushes are used up; requests that
are all done. That what must happen does happen is what the liveness properties
are for.

### Fairness

- `WorkerFairness`: weak fairness of `Run`, since a goroutine that can run does, and
  `PutLogs` returns, with whatever result. Strong fairness of `SelectDone` and
  `StopsRetrying`: Go's select picks among ready cases at random, a done context
  stays ready, and the worker comes back to its select. `PutLogs` returning is an
  assumption, as the default `http.Client` has no timeout.
- `async_stop` assumes nothing of the service: it may refuse every request.
- `async_live` adds that time passes (`Age`), that a producer whose send on the
  channel can proceed does, and `Answer`: a service that is asked again and
  again gives a batch the answer it deserves (strong fairness, as other answers
  disable it for a time). With one producer, weak fairness of its `PushReturns` is
  enough: once there is room, nobody else takes it.
- `pool_stop`: what `AsyncWorker` promises, which `async_stop` shows of `AsyncClient`
  (a worker starts, and returns once cancelled), and that a `Stop` goes on whenever
  it can. Nothing is assumed of the pushers.
- `providers_get`: weak fairness of `Retrieve`; it has no step that blocks.
- `Request` and `Wire`: weak fairness of `Next` alone. The transport and the providers return;
  nothing is assumed of the order in which callers get the mutex.

## The proofs

They hold for any number of producers, stoppers, logs, callers and providers and
for all limits, under the `ASSUME`s of the modules: sizes and limits are natural
numbers, `LogGroupSizeToSend` and `MaxBulkSize` are not zero, a log that is small
enough fits a group (`MaxLogSize <= MaxLogGroupSize`), `Nil` and `NoEvent` are
neither an error nor an event.

**`AsyncClientProofs`.** `TypeCorrect` and `StopIsSafe`. The types are not inductive
alone: `pos` stays within `buf` because the loops start over (`LoopsAtRest`: outside
the loops their variables have their initial values), and `wg` is 0 or 1 because it
counts the goroutine exactly while it runs (`WaitGroupCounts`), which is also why
a `Stop(true)` that saw the goroutine run waits for it. `IInv` is these with the types.
`WorkerImplemented` goes through the actions: the start and the end of `run`, what is
put in and taken from the channel, and the cancelling are steps of `AsyncWorker`;
all others stutter under the mapping.

**`BatchProofs`.** The size of a group is a sum over a sequence, written as a recursive
function (`SumTo`). What it computes is proved by induction in a form the provers can use: a
set of numbers with 0 and with each successor of a member is all of Nat
(`SetInduction`, from `NatLessThanWellFounded` and `WFMin`). It gives that the sum of a
prefix does not depend on what follows (`SumOfPrefix`), hence what `Append` adds.
`BatchesWithinLimits` and `BufSizeIsExact` rest on two invariants. `BatchCounted` says
how many logs the buffers hold by where the worker is; a request is never empty
because a log fits a group alone. `Weighed` says what they weigh: `bufSize` is exact
in `run`, and what a removal has kept weighs no more than what it has passed, so
the group that goes out after it is within the limit although `bufSize` was not
adjusted. `BusyRetriesShrink` needs `HasBadLog`: after the error of `proto.Marshal`
there is a log that `CheckLog` refuses, ahead of `pos` or behind it, and in the
latter case `newBuf` is short of it.

**`DeliveryProofs`.** `Ledger` is the invariant behind the delivery properties. The
numbers in the client's five places (a producer's hands, `ch`, `held`, the part
of `idBuf` that the loops have not passed, `newIdBuf`) are disjoint and together
those that are owed a callback (`OnePlace`), no place has one twice (`Single`),
each is next to the log that was pushed with it (`SameLog`), and an event is kept
only during a `send` (`HeldInSend`). Each action moves one number from a place to
the next, or calls back for it (`Dequeue`, `TakeLeft`, `Pass`, `Notify`). From it
follow `CalledOnce` and `NoneLost`. `Outcome` adds what the worker's `err` is
worth when callbacks are due (`VerdictEarned`): nil means that the service has all
that is left of the batch, and another error has a reason. This gives `NilIsStored`
and `DropsAreJustified`. `DeliveryImplemented` follows with one lemma for each step
of `LogDelivery`: `PushLog` is a `Push`; a batch taken, at once or late, is a `Store`
of those of its logs that are not confirmed; a callback is a `Confirm` or a
`Refuse`; all other steps stutter.

**`OrderProofs`.** `OrderKept` proves `ProducerOrder`. Of the logs of one goroutine, those
in `newIdBuf` come before those left in `idBuf`, these before the one in `held`,
these before those in `ch` (`InOrder`), the sequences rise (`InSequence`), and the one
being pushed is the last (`Latest`). So a batch that is sent holds, or has reported,
all that its goroutines pushed before its logs (`BatchClosed`), which stays true of
it while the service may still take it, and of what the service has (`Overtakes`).

**`RequestProofs`.** The invariant says, by phase of the loop, how many attempts there
are for the retries counted, that each but the last was worth a retry, that the
body is at its beginning or will be rewound (`GoingInv`), what the last answer
left behind (`AfterInv`), and that a request is built and signed in its first round
(`FirstRound`); for the credentials, that no refresh is under way while an `Expire`
is outstanding (`CredInv`). From it follow `TypeCorrect` with the retry bound,
`BodyIsWhole`, `RetriesAreJustified`, `SendReturnsLastOutcome` and `ExpireIsKept`;
`ErrorBodiesAreClosed` and `MutexIsReleased` are inductive with the types.
`SendMakesProgress` proves `SendProgresses`: the retries that are left, times six, plus
the steps left in the round, is a natural number that each step of a caller
lowers and no step of another changes. So the loop of `Send` cannot go round for
ever; what `SendReturns` adds under fairness is that some step is always possible.
`CredentialsAreUsed` says that requests do to `Credentials` only what its interface has,
the one that `Providers` is shown to implement.

**`WireProofs`.** Each step of `Wire` is a step of `Request`, so what `RequestProofs` shows
carries over (`WireRefinesRequest`): its safety invariants hold of `Wire`
(`RequestKeptOnWire`), and the measure falls there too (`SendProgressesOnWire`). The
invariant says, by phase, which headers a request has: none
before it is built, those `RunBuild` gives after, with a length, measured while
the body was whole, from the first `Sign` on, and an `Authorization` made of the
headers that are still there. `FramedAsSent`, `SignedAsSent` and `ConfigHonoured` follow
for each attempt appended to `sent`.

**`AsyncMultiPoolProofs`.** `TypeCorrect` needs that a counter of a WaitGroup is 1 exactly
while its worker runs. `RightPool` needs that the client in a pusher's hands and
the one in the map under a key are of that key's pool. `OneClientEach`: between its
`Make` and its return a goroutine makes no other, and afterwards the map has a
client for the pool, perhaps not its own, since no key is ever deleted. `StopReaches` follows
both passes: what was in the map and still is has been cancelled if visited in
the first, and has been waited for if visited in the second.
`StopWaitsForCancelled` needs that as long as nothing is stored after `Stop` was
called, the map holds no client but those of `on` (`NothingNew`), which the first
pass has all cancelled. `PoolUsesWorkers` closes the gap to `AsyncClientProofs`: a pool
does to its clients only what `AsyncWorker` allows.

**`ProvidersProofs`.** The parser's invariant is `ParserRight` itself, with the lemma that
one more line changes `SectionAt` and `ValueAt` as `ParseLine` changes `section` and
`file`. `FetchRight` needs what each stage knows while nothing changes: the providers
before `asking` have nothing to offer, the variables read so far are the first that
are set, the file name and profile are those derived from `start`, the text is that
of the file. `OneProfile`: the two fields never change once they are set.
`CredentialsImplemented` maps the end of a walk to `GetFetches` or `GetFails`, which needs
that the providers before `asking` have been reset and the others not touched.

Only model-checked are the liveness properties: `StopTerminates`, `LogSettled`,
`PushLogReturns`, `SendReturns`, `StopEnds`, and the liveness parts of `ImplementsWorker` and
`ImplementsCredentials`. They rest on fairness and ENABLED, which are out of the
prover's reach. What is proved towards three of them is the safety part: the
measure of `SendProgresses`, the shrinking groups of `BusyRetryShrinks`, and that
`Stop` waits only for workers that will return (`WaitsForCancelled`).

## Not modelled

- A callback that calls `PushLog` or `Stop`, a caller that changes a log after
  `PushLog`, and a second `Send` of one `Request`: uses the code neither excludes
  nor contains.
- The text of signatures and headers, the bytes of checksums and compression; the
  user agent, the request id and the session token; the debug handlers; the
  length of a back-off (its timer may fire at any time).
- Failures of the compressor and of reading a body, which is in memory, and read
  errors of a file that was opened.
- A client without a callback (`notified` is a history of the calls there would be), and
  a shared provider whose file name or profile the program has set.
- That the shared provider reads `HOME` and `USERPROFILE`, or `AWS_PROFILE` and the file,
  in two steps each; the reads of the environment provider are separate.
- Which of the errors of `CheckLog` comes first: a log is over a limit or not UTF-8.
- Whether a service stores a log twice when a request is repeated: `stored` is a set.
  The client sends at least once.
- What happens below `http.Client.Do`: that it returns is an assumption.
- The validator, which no handler calls; error formatting; loggers; generated
  protobuf code.

## What is left

1. `AsyncClient` with a callback that pushes or stops, which runs on the worker's own
   goroutine: a `PushLog` on a full channel there waits for itself.
2. A second `Send` of one `Request`, whose body is not rewound.
