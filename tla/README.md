# Formal models of the Jaeger Python client

This directory specifies `src/jaeger_client` in TLA+: its concurrent core, what it puts on the wire, and how its parts are built and closed. It is checked with TLC on
small instances, and TLAPS proves its main invariants for all instances. `PROJECT.json` lists the
components, the runs, the lines of source each definition stands for, the hazards of the code with
the properties that address them, the findings and the theorems.

## The system

An application creates a `Tracer`, starts `Span`s with it from many threads and finishes them. A finished
span goes to a `Reporter`, which owns nothing but callbacks on a Tornado `IOLoop`: usually the loop of a
daemon thread that `LocalAgentSender` creates, sometimes the application's own. The same loop runs the
polling of `RemoteControlledSampler` and `RemoteThrottler`, which talk HTTP to the agent; spans leave
in UDP datagrams.

| component | state | operations | works with |
|---|---|---|---|
| Reporter (`reporter.py`, `ioloop_util.py`) | a bounded queue, the flags of close, one batch | `report_span`, `set_process`, `close`, the coroutine `_consume_queue` | called by Tracer, on any thread; runs on the loop; writes to the agent sender |
| CompositeReporter (`reporter.py`) | a countdown | `set_process`, `close` | several reporters |
| Agent sender (`local_agent_net.py`, `TUDPTransport.py`) | a write buffer, a socket | `emitBatch`, HTTP requests | the loop thread only |
| Thrift conversion (`thrift.py`, `thrift_gen/`) | none | spans, tags and ids to structures, structures to the wire and back | called by Span and Reporter; read by the agent |
| Span (`span.py`, `span_context.py`) | context, lists of tags and logs, finished flag, a lock | `set_tag`, `log_kv`, `set_baggage_item`, `finish` | any thread; read by the loop thread (`thrift.make_jaeger_batch`) |
| Throttler (`throttler.py`) | credits by operation, client id, a periodic callback, a lock | `is_allowed`, `set_client_id`, polling, `close` | called from `Span.set_tag` and `Tracer.start_span`; polls the agent |
| RateLimiter (`rate_limiter.py`) | a balance and the time of the last tick | `check_credit`, `update` | samplers |
| Samplers (`sampler.py`) | a current sampler, samplers by operation | `is_sampled`, strategy updates, polling, `close` | called by `start_span`; polls the agent |
| Tracer (`tracer.py`) | configuration | construction, `start_span`, `inject`, `extract`, `close` | all of the above |
| Codecs (`codecs.py`) | none | the wire forms of a span context | other processes |
| Config (`config.py`) | options, the global `_initialized` flag and tracer | `initialize_tracer`, `new_tracer`, `create_tracer` | builds everything, on any thread |
| Metrics (`metrics/`) | the metrics of a Prometheus factory, by name | `create_counter`, `create_gauge` | called by the constructors |

What is hard in it: the loop thread interleaves with application threads everywhere; coroutines give
the loop away in the middle of their work (a full queue, a pending send, a wait with a deadline); close
may meet every one of these states; polling is delayed, periodic, unordered and may fail; some methods
read shared state before they take the lock that protects it. What makes each part correct:

* Reporter: no accepted span is lost, doubled or overtaken; memory is bounded, and a span is dropped only
  when it is full or closed; no span is held for ever; `close` returns when everything reported before it is out.
* Span: reported once; what a thread sets is kept; what is sent can be decoded.
* Throttler: credits are neither made up nor lost; polling goes on until close and ends with it.
* RateLimiter, samplers: the rate is kept, a trace that is due is not refused, an answer is in force or has failed, and samplers are consistent
  in both cases; polling as in the throttler.
* Tracer and codecs: a context survives the wire; a sampled trace stays sampled.
* Thrift conversion and agent sender: what an agent reads is what the application recorded; a batch that failed is not sent after all,
  and does no more harm to others than it must.
* Config, metrics and close: one global tracer, complete when it can be seen; building a tracer does not fail over what it did itself; the future of
  `Tracer.close` is completed if its callbacks run, behind all that it closes.

## The modules

### Reporter, SpanBuffer, ReporterProofs

`Reporter.tla` models `reporter.Reporter` whole. `ready` is the queue of loop callbacks the application has
added; `queue`, `getter`, `putters` and `unfinished` are the fields of the `tornado.queues.Queue`, modelled as
the source uses it: an unanswered `get`, the `put`s that wait for room, and the count `join` waits for. `pc`,
`spans` and `stopping` are the coroutine `_consume_queue` and its local variables; `closing` is how far each
call of `close` is. `before`, `unnamed`, `enqueued` and `handled` are histories for the properties.

| code | action |
|---|---|
| `set_process`, `report_span`, `close` (any thread) | `SetProcess`, `ReportSpan`, `Close` |
| `_report_span_from_ioloop` | `RunReport` |
| `_flush`: to its first pending yield; after a `put` that waited | `RunFlush`, `RunJoin` |
| `queue.get`: with an item, without, its deadline, its return | `GetNowait`, `AwaitItem`, `TimerFires`, `ItemReady` |
| the loop body, the end of the inner loop | `Receive`, `BatchFull` |
| `_submit` and `_send`, answered at once or later | `NothingToSubmit`, `Submit`, `SendPending`, `SendEnds` |

The loop runs one callback at a time, so a callback up to its next pending yield is one action. The
consumer is cut further, into the steps between which an application thread may call the reporter; while
it holds the loop (`Busy`) no other callback runs. The `join`s are completed by `TaskDone`, as in Tornado.

`SpanBuffer.tla` is what users may rely on: a FIFO buffer that accepts or drops each span once, drops only
when it is closed or holds more than `queue_capacity` spans, holds a batch beside the queue and nothing more, and
is emptied when closed. `Reporter!Buffer` is the refinement mapping: `Held` is the batch, then the item in
hand and the queue up to the first sentinel (`Front`), behind which there are no spans (`NoSpanBehindStop`).

### Throttler, ThrottlerProofs

`Throttler.tla` models `throttler.RemoteThrottler`. Methods under `self.lock` are one action (`Spend` and `Deny` are
the outcomes of `is_allowed`). The polling is a chain: `InitPolling` (the callback), `DelayedPolling` (after the
random delay), a walk of the keys, `PollingStarts` (the lock and `periodic.start()`), then `Tick`s. A fetch is two
steps, since `_operations` returns the live keys view and `local_agent_net.py:52` walks it without the lock:
`WalkEnds` sends the request, `WalkFails` is the `RuntimeError` of a dict that grew meanwhile. Keys are never
removed, so "the size changed" is "the set changed". `RequestEnds` ends any of the requests out and adds an
arbitrary set of balances: an error adds none, a body malformed in the middle adds what stands before.
Credits are fractions: `Unit` of them make `MINIMUM_CREDITS`, and balances may be less than one.

### Span, SpanProofs

`Span.tla` models one `span.Span` used by several threads, `SpanContext.with_baggage_item`, and the loop thread that
builds and writes the batch. A section under `update_lock` is one action. Outside of it are: the look at the
flags in `log_kv` and `finish`, the context that `set_baggage_item` derives (`SetBaggageItem`) before it installs it
(`InstallContext`), and the report. Serialization writes the length of a list, then its elements
(`WriteLength`, `WriteElements`), from the lists the batch shares with the span. The throttler's answer in
`_set_sampling_priority` is arbitrary. Any flags may be there at the start: contexts come from other processes too.

### RateLimiter, LeakyBucket, RateLimiterProofs

`RateLimiter.tla` models `rate_limiter.RateLimiter` as `RateLimitingSampler` uses it: `MaxBalance` is the maximum that
`RateLimitingSampler._init` derives from the rate. `check_credit` is cut where Python may switch threads, at every read and
write of a field; `Guarded` says whether the callers hold the lock of a `RemoteControlledSampler`, as in the run and in the proofs. With it, a call runs without
others (`Start` waits for `holder` to be empty) and answers of the agent change the rate (`Update`, with `ChangeRate` for `RateLimiter.update`); without it, as `config.py:244`
builds the sampler for `"ratelimiting"`, any thread may run in between. The clock is the wall clock: `Tick`, and `SetBack`.
`Item` units pay for a trace, and balances are exact fractions of units with the denominator `scale`: when `update` divides by the old maximum (`Rescaled`), the
denominator is multiplied by it. The code's floats are taken to be exact. `Mark` starts a new window at any moment between calls: `sold` are the traces paid for since, `allowed`
what the rates in force allow since then.

`LeakyBucket.tla` is what the docstring of `RateLimiter` promises: a level that rises with the time up to its maximum (`Fill`), and calls that buy or are refused in one step.
`RateLimiter!Bucket` is the refinement mapping. A call is decided when it has read the clock; from then on `Level` is what the call will leave (`Left`) and what has come
in since, and `Answer` what it will return. Outside of calls `Level` is the balance that the next call would compute now (`IdleBalance`).

### Sampler, SamplerProofs

`Sampler.tla` models `sampler.RemoteControlledSampler` and the sampler inside of it. The polling is the chain of `Throttler`, without the walk:
`InitPolling`, `DelayedPolling` (the request), `PollingStarts` (lock, `periodic.start()`), then `TickBegins` and `Tick`; the two halves of a tick let
`close` come between. `RequestEnds` is the end of a request, with one of these effects:

| answer | action |
|---|---|
| an error, no JSON, an unsupported or invalid strategy | `NoStrategy` |
| a probability or a rate limit for the whole service | `ServiceProbability`, `ServiceLimit` |
| strategies for operations, the current sampler is none for operations (`AdaptiveSampler.__init__`) | `UpdateStarts`, `CreateSampler`..., `CreateEnds` or `CreateFails` |
| the same, applied to the `AdaptiveSampler` there is (`AdaptiveSampler.update`) | `UpdateStarts`, `UpdateSampler`..., `UpdateEnds` or `UpdateFails` |

An answer is applied under the lock, one strategy at a time, so that an exception in the middle of it is where the code has it;
while it is (`job`), nothing else runs. A sampler of an operation is a record of what the code keeps twice: the rate it was given, the rate that
decides, the rate in the tags, the lower bound, the limit of its limiter. `named` are the operations that answers named, `force` is the last
answer if no exception ended it.

### Propagation, PropagationProofs

`Propagation.tla` composes `Tracer.start_span`, `inject` and `extract` with the codecs, over processes that need no names: a span's context, and the
requests on their way. A request is a codec and what is in its carrier; it stays until it is lost, so that it may be served again, or after a later one.

| code | operator or action |
|---|---|
| the codecs' `inject` | `Inject`, with `InjectZipkin` and `InjectB3`, which carry no baggage; B3 tells of a debug trace no more than that (`CarriedFlags`) |
| the codecs' `extract` | `Extract`, with `ExtractHeaders` (keys in lower case, except from the header `jaeger-baggage`), `ExtractZipkin` and `ExtractB3` |
| `start_span`: which parent | `Parent`: `child_of`, the active span, a reference |
| `start_span`: the context | `StartSpan`, with `Drawn` for a new trace and `Joined` for a parent that has one, with `one_span_per_rpc` or without |
| its callers | `StartRoot`, `StartChild`, `Serve` (a request, with or without an active span or a reference) |
| `set_baggage_item`, the tag `sampling.priority` | `SetBaggageItem`, `SetPriority` |
| other processes | `ComeFromOutside` (baggage, a debug id, both or nothing, but no trace), `AddDebugId`, `Lose` |

Ids are drawn at random from 64 bits; they are taken not to collide and not to be 0, so span `s` draws the id `s`. `meant` is the baggage a span would
have if contexts were handed on untouched, `Unknown` behind a codec that drops or changes some; `raised` are the traces whose priority the application set.

### Thrift, Delivery, DeliveryProofs

`Thrift.tla` is a module of operators: what `thrift.py` makes of a span, and what the generated classes `Tag`, `Log`, `SpanRef`, `Span`, `Process`, `Batch` and
the arguments of `Agent.emitBatch` write and read. A structure is a record of optional fields; on the wire it is a function from field ids
to types and values, in which a field that is `None` is missing. Ids keep their width (`Half` is 2^63), since that is what the conversions are about, and so
does what the compact protocol refuses to write (`Writable`). `make_tag` is `MakeTag`: the type of a Python value decides, and a bool is an int.

`Delivery.tla` composes the conversion with `Reporter._submit`, the `TBufferedTransport` behind `LocalAgentSender`, `TUDPTransport` and an agent that reads with
`Agent.Processor`. Everything up to `sendto` runs in one callback, so that a submission is one action with five outcomes.

| code | action |
|---|---|
| `set_process`; `_submit` without it | `SetProcess`; `Unnamed` |
| `make_jaeger_batch` raises | `NotMade` |
| `emitBatch` raises while it writes | `WriteFails`: `flush` is not called, and a message that is `Cut` stays in `buffer` |
| `flush`: `sendto` raises, or sends what is in the buffer | `SendtoFails`, `Sent` |
| the network; the agent reads a datagram | `Lose`, `Deliver` (as often as it likes), `Process` |

An agent that gets a whole message behind one that was cut short may read anything; `Process` says only that it cannot be read. `Recorded` and `Understood`, what the application meant and what an agent that knows
`jaeger.thrift` makes of the fields, are stated apart from the code's own conversions.

### Metrics, Lifecycle, LifecycleProofs

`Metrics.tla` models the cache of `PrometheusMetricsFactory` and the registry of names of the Prometheus client behind it, which belongs to the
process and raises for a name that is taken. A look in the cache and the registration are two actions (`LookUp`; `Register` or `Duplicated`), between which another thread may run.

`Lifecycle.tla` models how a tracer comes and goes. Each thread builds at most one (`stage`), from any of the configurations (`setting`), by `initialize_tracer` or by `new_tracer`:

| code | action |
|---|---|
| `Config.__init__` | `ConfigInit` |
| `initialize_tracer` under its lock; or `new_tracer` | `InitializeTracer`; `NewTracer` |
| the body of `new_tracer`: channel, sampler, options, reporter, throttler | `CreateChannel`, `CreateSampler`, `ReadOptions`, `CreateReporter`, `CreateThrottler` |
| the metrics each constructor asks for first | `GetMetric` |
| `create_tracer` and `Tracer.__init__`: tags, client id, process | `CreateTracer`, `SetClientId`, `SetProcess` |
| `_initialize_global_tracer` | `Install` |
| the sampler's pending first poll, its request and `periodic.start()` | `FirstPoll` |
| `Tracer.close`: the sampler; `CompositeReporter.close`, one child after the other | `Close`, `CloseChild` |
| the loop completes the future of `Reporter.close`; `on_close` under its lock | `Flush`, `OnClose` |

Any step may raise where the code does, with the tasks it had started (`running`) left behind. What `Flush` stands for is `Reporter` itself; that its future completes is `LoneCloseCompletes` there.

Two things outlive or outrun `Tracer.close`. `RemoteControlledSampler.close` clears a flag and stops a `periodic` that exists; the timer of `_delayed_polling` is not cancelled. So the task `"first"`
stays in `running` until `FirstPoll` has sent its request, before or behind `Close` and also behind the future of `Tracer.close`; it becomes `"periodic"` only if the sampler was not closed (`SamplerClosed`).
And `on_close` is a callback of a future that the closing thread has made. With Tornado 4 callbacks run in whatever thread completes the future. From Tornado 5 on (`setup.py:43` has no upper bound) `tornado.concurrent.Future` is
`asyncio.Future`, which schedules its callbacks on the event loop of the thread that made it. `caller` says which it is, arbitrarily, for each `Close`: callbacks run (`"runs"`: Tornado 4, or a loop that runs), they wait (`"idle"`: a loop that nothing runs;
then `OnClose` never happens), or there is no loop and `Future()` raises behind `sampler.close()`, with no reporter closed (`"loopless"`). `CallbacksRun` is what the completion of a close depends on.

## Runs

Each property of a passing run has a mutant of the code (`PROJECT.json`, "mutants") that breaks it.

| run | instance | checks |
|---|---|---|
| `reporter_close` | 4 spans, two `close`s at any time, queue and batch of 2, sends that may be pending | `NothingStuck`, `Pipeline`, `NoSpanBehindStop`, `UnfinishedExact`, `CloseFlushes`, `NoLostWakeup`; under fairness `LoneCloseCompletes`, `SpansSettle` and `ImplementsBuffer` (refinement, its liveness included) |
| `reporter_second_close` | 1 span, two `close`s | violates `CloseCompletes` |
| `throttler_poll` | 2 operations, 2 tracers, 2 requests out | `TypeOK`, `CreditsAccounted`, `OneClient`, `QuietAfterClose`, `TicksAskForAll` |
| `throttler_first_poll` | the same, no grants | violates `AsksForAll` |
| `span_threads` | 3 threads, 3 calls, 2 baggage keys | `ReportedOnce`, `QuietUpdatesKept`, `FinishSends` |
| `span_late_tag` | 2 threads, 3 calls | violates `SentWellFormed` |
| `limiter_locked` | 2 threads behind a lock, 3 seconds, two changes among 3 rates, one set-back of the clock | `RateKept`, `LowerBoundMet`, `ImplementsBucket` (refinement) |
| `sampler_updates` | 2 operations and room for 1, three rates (one invalid), three bounds (one invalid), answers of up to two strategies | under fairness: `KeepsPolling`; `TypeOK`, `TagsTellTheRate`, `OperationsBounded`, `AnswerInForce`, `QuietAfterClose` |
| `propagation_hops` | 3 spans, 2 requests on the way, the four codecs, two keys that differ in case, one change | `TypeOK`, `TraceIsTree`, `FlagsAgree`, `BaggageKept` |
| `sampler_bad_default` | 1 operation, a default rate that is invalid | violates `NewSamplersValid` |
| `delivery_faults` | 4 submissions out of 5 batches that can and cannot be made, written and sent; ids of 3 and 6 bits | `FailedNeverSent`, `GarbledOnlyBehindCut`, `DecodedAsRecorded`, `CutOnlyOutOfRange` |
| `lifecycle_threads` | 2 threads, 10 configurations, a factory that both may share and one for each; closing threads whose callbacks run, wait, or that have no event loop | `GlobalIsComplete`, `CloseMeansAll`, `NoSelfCollision`, `OneGlobalTracer`; under fairness `CloseCompletes`, `SkippedFindsTracer` |

Bounds. Four spans are the fewest that fill a queue of two while a batch is being sent and still leave one
to drop; two are then waiting when the sentinel's `put` must wait. Two closers are all it takes for one to
come before, between and after the other's steps. Spans and closers are interchangeable, so that it is enough to let them come in one order (the constraint `InOrder`); a symmetry set would
not be sound for liveness. Sends end with success or failure, at once or later. The throttler's instance lets one
operation be inserted while the other is walked, two answers overlap, and a balance stay below one credit; `GrantLimit`
and `MaxInFlight` are the bounds (the latter is real: a request ends after 15 s, a tick comes every 5 s).
Three seconds and the rates of half a trace, one, and one and a half a second let a trace become due, a balance fill up and be scaled up and down in
between (`MaxClock`, `MaxUpdate`, `MaxSetBack` are the bounds). Two operations, room for one and answers with two strategies make an answer that fails at its first, its
second strategy or its defaults, one that names an operation twice, and one there is no room for; one request out at a time is the default
(a request ends after 15 s, the default interval is 60 s). Three calls on a span are a pair that overlaps and one to observe it; `MaxCalls` is the bound.
Three spans make a root, a child and a grandchild over two hops, each by another codec, or two spans of one RPC and a child of either; two requests on the way can be reordered (`MaxWire`), and one change of
baggage, of priority or from outside comes before, between or after them (`MaxChange`).
Ids of three bits have the edges that ids of 64 have: 2^(w-1) - 1, 2^(w-1), 2^w - 1 and what a carrier brings beyond (MCDelivery's `Wide`, `Aliased`); texts come on either side of the lengths at which they are truncated.
Four submissions (`MaxSubmissions`) are one that is cut, one that cannot be made, one behind them and one more. Two threads are enough to come between any two steps
of a construction, both halves of a metric included; the configurations are the README's, one with everything remote, and one for each way to raise.
Deadlock is not checked: all these systems may come to rest.

Fairness. The loop thread runs its callbacks, timers expire, sends and HTTP requests end (Tornado gives
both; HTTP has a request timeout), and a thread that entered a method of a span, the construction of a tracer or its `close` leaves it. Nothing is
assumed of what the application calls, nor of the event loop of a thread that closes a tracer: where `on_close` waits for it (`caller` is `"idle"`), `OnClose` is not enabled, and `Lifecycle`'s `CloseCompletes` asks for a
completed future only of closes with one reporter and of those whose callbacks run (`CallbacksRun`). The actions are weakly fair; each stays enabled until it is taken, or
is enabled again for good after finitely many steps of others.

## Findings

Of the last three, a theorem says how far they go: without the event that is named, the property holds (`QuietWalkStartsPolling`, `EarlyTagsAreWellFormed`, `ValidDefaultsSuffice`).

* **A second `close()` never completes** (`reporter_second_close`, `reporter.py:240`). It puts a second sentinel in the queue; the consumer
  ended at the first, so `join` waits for ever. The docstring promises a future "completed once the queue is empty".
* **The throttler may never start polling** (`throttler_first_poll`, `throttler.py:120`). When `is_allowed` inserts an operation while the first
  fetch walks the live keys view, the `RuntimeError` leaves `_delayed_polling` before `periodic.start()`; no debug span is allowed
  from then on. A failing tick, by contrast, is only logged (`TicksAskForAll` holds).
* **A late tag is not ignored** (`span_late_tag`, `thrift.py:216`). The batch shares the span's lists, so a tag added after `finish()` while the
  loop thread writes them makes the datagram malformed, where the docstring says it "may be ignored".
* **A bad default rate stays** (`sampler_bad_default`, `sampler.py:315`). `AdaptiveSampler.update` keeps the rate before it is asserted to be a probability: the update counts as
  failed, but `is_sampled`, and with it `start_span`, then raises for every new operation; sent again, the same answer counts as applied.

Shown by a proof and not by a run: **the future of `Tracer.close` need not complete** (`reporter.py:277-285`). `tracer.py:290` promises "a tornado.concurrent.Future that indicates if the flush has been completed", and `CHANGELOG.rst:75` announces "Support Tornado 5",
`CHANGELOG.rst:65` "Remove Tornado upper boundary". From Tornado 5 on, with logging on and `close` called in a thread whose event loop nothing runs, as in the example of the repository's README, `on_close` waits on that loop for ever: the flush is completed and the future is not.
`EndsWell` proves that such a close ends with its reporters closed and without its future (`t \in finished <=> CallbacksRun(t)`). In a thread that has no event loop, `close` raises once the sampler is closed, and no reporter is. The example itself does not wait for the future.

Not findings, since no doc promises otherwise: **debug traces end at B3** (`codecs.py:349`). A debug context is injected with the debug header alone (what is extracted then is not sampled, as `tests/test_codecs.py:327` has it), so the
spans behind it are debug spans that are not sampled: they are not reported, and `span.py:122` ignores a `sampling.priority` that would change it. `FlagsAgree` therefore asks of the spans of a debug trace only that
all know that it is one. And a request that has baggage but no trace is never sampled: `tracer.py:190` asks the sampler only if there is no parent at all.
**A batch that cannot be written spoils the next one**: `GarbledOnlyBehindCut` is the most that holds. The comment of `local_agent_net.py:62-65` relies on `flush` being called at the end of each batch; when `emitBatch` raises before that, the
bytes written so far are sent in front of the next batch, which is counted as sent. A number that no field can hold is enough (`CutOnlyOutOfRange`), say a tag of 2^63, or a parent id of more than 64 bits from a header.
**Without a lock a rate limit is exceeded**: `config.py:244` builds a `RateLimitingSampler` outside of a `RemoteControlledSampler`; Python 3.7 to 3.9, which `setup.py` lists, may switch threads between the read and the write of its balance
(`rate_limiter.py:60`), and `RateKept` then fails for `Guarded = FALSE`. **A tracer that failed to build leaves its tasks**, and after a failed `initialize_tracer` there is no global tracer for the rest of the process (`config.py:372`); `SkippedFindsTracer` excepts just that.
**One poll may follow the close**: a first poll that is pending when the sampler is closed is still sent (`sampler.py:409`), perhaps behind the future of `Tracer.close`; `CloseMeansAll` and the `QuietAfterClose` of `Sampler` and `Throttler` allow just that one.
**The throttler is never closed**: `Tracer.close` leaves it polling (`tracer.py:293`), and `CloseMeansAll` leaves it out.

## Proofs

All theorems hold for any values of the constants that satisfy the modules' assumptions: any number of spans,
closers, threads, operations and tracers, any capacities and balances.

* `ReporterProofs`: `TypeCorrect` and `UnfinishedCounts`, `WakeupsKept` come from the inductive `TypeInv`: the types, what each `pc` says of
  the queue, the batch and the getter (`Control`), the exact count, and that a closer waits in `putters` exactly while its
  stage is "putting" (`PuttersWait`). `NothingLostInTheQueue` adds `FlowInv`: `Pipeline`, no span behind a sentinel, and that a
  sentinel or a waiting put implies the flag (`Sealed`). `CloseFlushesAll` needs `CloseInv`: every span reported before a close is ahead of it
  among the callbacks, and then placed in the queue's history ahead of its sentinel; a join ends only at count zero, when
  everything placed has been handled; and each outcome has its reason. None of the three is inductive without its parts:
  `UnfinishedExact` alone, say, does not know that a batch is empty when the consumer starts to fill it. `NothingBehindStop` is a part of `FlowInv`.
  `RefinesBuffer` shows every step to be one of `SpanBuffer` or a stutter. It needs `BufferInv`: a span whose callback waits is new (`Once`, `Waiting`, `Kept`),
  sentinels are last (`StopsLast`), and the consumer holds a span whenever it waits for anything but an item (`HasSpans`), which is why a full queue means more than `QueueCapacity` spans in memory. (A `QueueCapacity` of 0, no bound to Tornado,
  leaves only a `BatchSize` of 0, and then `ZeroBatchHangs`: the coroutine never yields, so that nothing is put in the queue at all.)
  `NeverStuck` and `LoopRunsDown` are what can be proved of the reporter's liveness. The first is `NothingStuck`: wherever the loop has nothing left to do, the lone close has completed and no span is held. It needs `RestInv`:
  a call is "called" exactly while its callback waits and "putting" while its put does (`Calls`, `Puts`), it waits only for a sentinel that was put and a count that is not zero (`Joins`), a lone call puts the only sentinel (`OneStop`), and the
  consumer waits without a deadline only if it holds nothing (`HoldsSpans`). The second says that each step of the loop makes `Work` smaller, a natural number that weighs callbacks, waiting puts, queue and batch by how far they have still to go,
  so that the loop cannot run on without the application. What is left to fairness, and to TLC, is that a loop that may run does.
* `ThrottlerProofs`: `TypeCorrect` and `CreditsKept` (credits of each operation, induction over the steps), `ClientKept` (nothing is
  known, so nothing is asked, before there is a client id), `QuietAfter` (the first poll and the ticks exclude each other). `TicksGoOn`, for finitely many operations: while an operation is owed a request,
  the loop thread has a step to take (`TickInv`: only `close` stops the periodic) and each makes `Effort` smaller, which counts the operations nobody has used yet: a walk fails over one of them, and there are only so many.
  `QuietWalkStartsPolling` bounds the finding below: without an insertion during the first walk (`WalkInv`: then what it walks is what is known) the polling never ends unless by `close`.
* `SpanProofs`: `TypeCorrect`, `ReportsOnce` (the thread that set the flag is the only one that reports), `QuietUpdates` (without overlap at
  most one context waits to be installed, and it carries every update). `FinishReachesTheWire`: where every call has ended and the loop has nothing to send, a finished span was sent; it needs `FinishInv`, that
  the span was reported or a thread is about to. `EarlyTagsAreWellFormed` bounds the finding: lists that do not grow once the span was reported are sent as announced (`WrittenInv`, stage by stage).
* `RateLimiterProofs`: `TypeCorrect` (proved instead of run), and three theorems on guarded limiters. `RateIsKept`: its invariant `RateInv` says what the credits of the limiter are worth at every step: outside
  of a call, the capped balance with the time since the last tick (`IdleInv`); in one, the same from the local variables (`Worth`, `CallInv`). The window
  must be allowed that much beside what it has sold; a set-back only makes it worth less. `LowerBoundIsMet` adds `DueInv`: while the clock was not set back, that worth is at least what
the seconds since the last trace bring at the lowest rate since then, up to the price of a trace (`Grown`, `IdleDue`, `CallDue`); a change of the rate keeps it, since it scales the balance and never lowers it below
that. `RefinesBucket` shows each step of a call to be a step of `LeakyBucket` or a stutter: all steps of a call but the one that reads the clock and the one that returns leave `Worth` as it is (the cap, for one, is in it
from the start), and ticks between the steps of a call fill the bucket.
* `SamplerProofs`: `TypeCorrect`; `TagsTrue` (of samplers that are being created, too); `AnswersTakeEffect`, by what is applied so far of the answer in hand, and by the two
  default rates, which differ only where the kept one is no probability; `OperationsAreBounded`, over finite sets; `QuietAfter` as for the throttler. `PollingGoesOn` measures, in steps of the loop, how far the next request is (`Distance`: what is left to apply of the answer in hand, then the polling's own steps): it is
  nearer after each of them, failed answers included, and nothing but `close` ends the polling (`AheadInv`). `ValidDefaultsSuffice` bounds the finding: it takes an answer whose default is no probability (`ValidRates`).
* `PropagationProofs`: `TypeCorrect`, `TraceIsAlwaysTree`, `FlagsAlwaysAgree`, `BaggageAlwaysKept`. Each property is extended from the spans to the requests on the way, which is what makes it inductive:
  a request carries the place of a span that was started (`Placed`), a decision that agrees with its trace's spans (`Agrees`), the baggage that is meant (`Carries`). `Starts` reduces the ways to start a span to one.

* `DeliveryProofs`: the invariant `IInv` says that the buffer holds what was cut and not flushed since (`BufferIsCut`), that a datagram is such messages and one whole message of a submission that was counted as
  sent (`Datagrams`), that what an agent read is what was written (`ReadAsWritten`) and that a batch is cut only if it is not `Writable` (`CutsUnwritable`). `FailedStaysUnsent` and `Garbled` follow. `IdSurvives` and `TraceSurvives` are the arithmetic
  of the signed fields for every width; with `TagRead`, `LogRead`, `SpanRead`... (each structure reads itself back) and their counterparts for `make_tag` and its like they give `Decoded`, for any batches, tags and lengths, and `CutRange`. `TypeCorrect` is proved instead of run.
* `LifecycleProofs`: `TypeCorrect` (proved instead of run), `OneTracer` (only the thread that found the flag clear builds the global tracer: `OneInitializer`), `Complete` (`Told`), `ClosesAll` (the children are closed in turn and each counts
  once, and a sampler that is closed does not poll periodically, also if its first poll comes later: `Closes`, `Counts`), `SelfCollision` (what a thread has registered it finds in its cache: `Cached`, `Asked`), for any number of threads, factories and configurations.
  `EndsWell`: a close that can go no further has closed its reporters, and has completed its future exactly if it has one reporter or the callbacks of the closing thread run (`CloseEnds`, `CallbacksRun`), a thread that was sent away has a global tracer, or else the thread that was to build it has raised or has a step to take (`SkippedWaits`), and each step of a
  construction or a close uses up some of a natural number (`WorkIsNat`, `WorkUsedUp`). `GoalInv` adds to `IInv` that the flag was set by
  a call for the global tracer (`FlagMeansCall`), that a tracer which is ready is in place (`Goals`), and that the last reporter to close completes the future (`Completes`).

Only model-checked: what takes fairness, since liveness is out of the prover's reach. Of most of these properties the part that takes no fairness is proved, that the work before them is finite and that where it ends the goal is reached:

| Checked by TLC under fairness | Proved of it |
| --- | --- |
| `LoneCloseCompletes`, `SpansSettle` | `NeverStuck`, `LoopRunsDown` |
| `KeepsPolling` | `PollingGoesOn` |
| `TicksAskForAll` | `TicksGoOn`, for finitely many operations |
| `FinishSends` | `FinishReachesTheWire` |
| `CloseCompletes`, `SkippedFindsTracer` of `Lifecycle` | `EndsWell` |

What is left to TLC is to conclude from there, with threads and the loop thread that do run, that the goal is reached. The liveness of `SpanBuffer` is model-checked only: `RefinesBuffer` is about its steps.

## Assumptions and what is not modelled

`LowerBoundMet` says nothing of the time after the clock was set back: the code then refuses traces for as long as it was set back. `OperationsBounded` leaves out
operations that answers name: the code adds these without a look at `max_operations`.
Metric, logger and error-reporter calls are taken not to raise (in `Lifecycle`, where metrics are made, they may); `queue_capacity` and `batch_size` are taken positive in the runs (with
`batch_size` 0, which `config.py:166` accepts, `_consume_queue` never yields); Tornado, the HTTP client, the compact protocol and the Prometheus client are modelled from how
`src/` uses them. Carriers that are malformed make `extract` raise and start nothing; they, the wire forms of ids and
values, and requests with baggage both in prefixed headers and in `jaeger-baggage` are left out of `Propagation`.

Not modelled: the formats of options and environment variables (`Lifecycle` keeps whether they are accepted), `parse_sampling_strategy` (which the client does not call; the answers of `Sampler` are records), `NullReporter`, `InMemoryReporter` and `LoggingReporter` beyond their part in a composite
one, how sockets are opened and closed, and the counting in metrics, since none of them has state that others depend on; the generated zipkin, sampling, baggage and collector code, which the client does not call or only to name a structure; and `crossdock`, a server that tests the client.

## Plan

What is left, in this order:

1. The wire forms of ids and values in the codecs (`span_context_to_string` and its inverse), as operators beside `Propagation`, with the malformed carriers.
2. The bodies of sampling and throttling answers, in front of `Sampler`'s and `Throttler`'s.
