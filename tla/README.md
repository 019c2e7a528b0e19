# llm-metrics in TLA+

A TLA+ development of the `llm-metrics` Python SDK, from the instrumented call to
the HTTP request: the spans of the decorator and of the provider and LangChain
integrations, the default pipeline they emit into, the in-memory buffer with its
flush thread, the transport with its retries, and what a forked child makes of
all that. TLC checks the models on small instances, liveness included. TLAPS
proves every safety property that those runs check, and the refinements of the
abstract specifications, for every value of the constants: any threads and tasks,
every capacity and batch size, any number of calls and any replies.

Paths below are relative to the package, `src/llm_metrics/`.

## 1. The system

| Component | State | Operations | Talks to |
|---|---|---|---|
| **EventBuffer** (`buffer.py`) | a bounded deque, `_in_flight`, the latches `_wake` and `_shutdown`, a live `Deadline`, the flush thread, the atexit hook, counters | `start`, `add`, `_run`/`_drain`/`_take_batch`/`_send`/`_batch_done` on the flush thread, `flush_once`, `wait_until_idle`, `shutdown`, `_reset_after_fork` | called by `emit`; calls the flush target with a batch and its deadline |
| **Deadline** (`buffer.py`) | `_at`, `_armed` | `arm`, `remaining`, `expired`, `sleep` | armed by the buffer, read by the transport in the middle of a send |
| **IngestClient** (`client.py`) | a lazily built connection pool, `_closed`, counters | `send` (attempts, backoff, `Retry-After`), `close`, `_reset_after_fork` | is the flush target; posts to the server |
| **Default pipeline** (`_runtime.py`) | the globals `_settings`, `_buffer`, `_client` under `_lock` | `configure`, `emit`, `flush`, `shutdown`, `stats` | builds, replaces and retires a buffer and a client |
| **Decorator and spans** (`decorator.py`) | a span per call: observation, trace it owns, sampling verdict | `open_span`, `activate`, `finish_span`; the sync, async, generator and async-generator wrappers | opens context scopes, emits |
| **Context** (`context.py`) | three context variables | `use_trace`, `use_observation`, `snapshot`, `adopt` | read by spans and annotations |
| **Annotations** (`annotate.py`) | none: they mutate the live trace or observation, or emit a score | `update_trace`, `update_observation`, `score` | context, `emit` |
| **Stream proxies** (`integrations/_stream.py`) | whether the span is settled, accumulated chunks | iteration, `close`, context-manager exit, `_settle` | finish a span |
| **LangChain handler** (`integrations/langchain.py`) | a bounded, locked map of open runs | `_open`, `_close`, eviction in `_put` | spans with explicit parents, from any thread |
| **Provider wrappers** (`integrations/openai.py`, `anthropic.py`, `_transport.py`) | patched methods, a response hook on the HTTP client, the active observation | the call, its manager, field extraction, the count of responses | spans, stream proxies |
| **Models** (`models.py`) | plain records | serialisation | everything |

### What is hard

* *Interleavings.* Application threads, the flush thread, and callers of
  `flush_once()`, who drain on their own thread, share the deque under one lock,
  and two latches and a deadline without it.
* *Re-entrancy.* The flush target runs on the flush thread and may call back.
* *Time.* Four clocks race: the flush interval, the request timeout, the
  backoff, and a deadline that is armed while all of them are running.
* *Partial failure.* A target may raise, hang, or succeed for one batch of a
  drain and fail for the next; a constructor may raise half-way through
  `configure()`.
* *Replacement.* `emit()` reads a global, and the pipeline it found may be
  retired before it uses it.
* *Fork.* A child inherits sockets, counters and latches, and no threads.

### What makes each component correct

* *Buffer.* No event is lost, duplicated or sent out of turn except in the
  documented ways, and each such loss is counted; a flush that reports success
  means it; no wake-up is lost; the flush thread ends, and leaves nothing behind
  unless it ran out of time; `shutdown()` always returns.
* *Transport.* A send is bounded, with or without a deadline; once the deadline
  is armed nothing of it outlasts the budget; each batch is accounted for once;
  one pool is reused; a child never closes its parent's connections.
* *Default pipeline.* Every buffer that was built can still be shut down; the
  installed one is running; each installation ends in one shutdown; `emit()` never
  waits for I/O.
* *Spans, context, streams, LangChain.* Scopes nest and are restored on every
  exit; a span is emitted exactly once and a trace by the span that created it;
  sampling is all or nothing per trace while the SDK stays enabled; the run map stays within its limit and
  a run is closed at most once.

## 2. The modules

| Module | Role |
|---|---|
| `EventBuffer` | the buffer and its threads: state, actions, fairness |
| `LossyChannel` | what the buffer promises, without threads: a bounded FIFO channel that loses events only in the documented ways |
| `EventBufferProperties` | safety, the inductive invariant, the refinement of `LossyChannel`, liveness, and claims the code does not keep |
| `EventBufferProofs` | theorems about the threads of `EventBuffer`: counts, waiters, wake-ups, the end of the flush thread |
| `EventBufferFateProofs` | theorems about its events: where each one is, what is counted, what a flush means, the refinement of `LossyChannel` |
| `IngestClient` | the transport against a `Deadline`, with a discrete clock |
| `IngestClientProofs` | the theorems about `IngestClient` |
| `Runtime` | the default pipeline's globals |
| `RuntimeProofs` | the theorems about `Runtime` |
| `Fork` | `emit()`, the buffer and its flush thread in a process and in the child it forks |
| `ForkProofs` | the theorems about `Fork` |
| `SpanLifecycle` | what every instrumentation path promises of a span: opened once, then sent once or withheld |
| `Spans` | the decorator's spans and generators over the context variables, and the annotations |
| `SpansProofs` | the theorems about `Spans` |
| `Replies` | what the provider wrappers record of a reply, whole or streamed: operators only |
| `Streams` | wrapped clients, stream proxies, Anthropic's stream manager and the transport hook; uses `Replies` |
| `StreamsProofs` | the theorems about `Streams` |
| `RunMap` | the LangChain handler and its bounded map of open runs |
| `RunMapProofs` | the theorems about `RunMap` |
| `MCEventBuffer`, `MCIngestClient`, `MCRuntime`, `MCFork`, `MCSpans`, `MCStreams`, `MCRunMap` | instances for TLC |

How they compose: `Fork` puts the installation of the default pipeline and the
buffer's threads together in two processes. `Spans` and `RunMap` each
refine `SpanLifecycle`; what they hand over is what `EventBuffer` calls an
offered event, and from there `LossyChannel` says what becomes of it. `Streams`
does not refine it: a call of `messages.stream()` that raises leaves a span open
for ever (section 3), so it counts the ends of its spans itself.

Operators marked *Variant* in a comment are not part of a specification. Each
is a plausible wrong version of the definition that follows it, and
`PROJECT.json` names the property that notices the difference.

### EventBuffer

An action is one stretch of code under `_lock`, or one access to a latch or to
the deadline. `pc` says where each thread is:

* a caller is `idle`, or in `add()` (`wakeup`), `start()` (`register`, `spawn`),
  `wait_until_idle()` (`check`, `parked`), a drain or a shutdown;
* a flush thread is `unborn`, `created` (the object exists, `Thread.start()` was
  not called), in its loop (`wait`, `clear`, `read`), in a drain, or `dead`;
* both drain (`drain`, `take`, `send`, `sent`) and shut down (`latch`,
  `signal`, `join`): a target that calls `shutdown()` does so from `send`, on
  whichever thread it runs.

Events are numbers in the order they are offered, so order is a property of
numbers. `fate`, `mark`, `offered` and `result` are history: no guard of the
code reads them, except `offered` for the bound.

Faithfulness, where a step of the model is not a line of the code:

* `add()` tests the latch and appends under the lock, but `shutdown()` sets the
  latch without it. The two are one action: whoever looks at the queue needs the
  lock, so nobody sees the difference.
* `Event.wait()` returning and `Event.clear()` are two actions, as are reading
  the latch and draining: those gaps are where wake-ups get lost.
* The deadline is unarmed, armed or expired: the buffer asks for nothing else.
  Its expiry may come at any time; `shutdown()` arms it for 90% of the join
  timeout, so a join that gives up sees it expired, unless another call has
  armed it again in between (`armedBy`).
* Unregistering the atexit hook and arming the deadline are one action. Nothing
  else reads the hook before exit, which is not modelled.
* The flush target may call `shutdown()`, once; it does not call `add()` or
  `flush_once()`.
* `failed_batches` is a flag (zero or not): that is all a reader of `healthy`
  learns from it.

### IngestClient

`send()` step by step: the enabled test, the budget test before each attempt,
the request with its timeout cut to the budget, the retry decision, the backoff
sleep, and the counter update as a read and a write. `_client()` and `close()`
use `_http` without a lock, so test, build and fetch are separate steps, as are
latch, swap and close. `Deadline.arm()` sets the time and the flag in two steps.

Time is discrete: `Tick` moves every pending request, sleep and the deadline,
and happens only when no thread can do anything else, so computation takes no
time. The httpx timeout is taken as a bound on the whole request; in httpx it
bounds each phase, so a real request may take longer. A batch counts as one
event. `Fork` continues as the child: threads gone, counters reset, the pool
forgotten, its sockets (`inherited`) still shared with the parent.

`BackoffBase * 2^n` with full jitter is every integer up to the cap; a
`Retry-After` is any of a set of values, some above the cap.

### Runtime

`emit()` reads `_buffer` without the lock and looks again under it; the writers
swap `_buffer` and `_client` under the lock, in two stores, and retire the old
pair after releasing it. A pipeline's client and buffer carry the same number.
`RebuildRaises` is `EventBuffer()` rejecting `max_size`, `flush_at` or
`flush_interval` (`buffer.py:165-170`) after `_client` was replaced. Any sink may
be passed to `configure()`: the installed one, one that an earlier call has taken
out of use and is about to shut down, or one that it has shut down already. Only
calls of `_runtime` shut a sink down here; its owner does not. `installs` and
`shut` are history: how often a buffer became the installed one, and how often a
call shut it down. Of the settings only `enabled` matters
here; `_overridden` is written and never read. `flush()` and `stats()` only read.

### Fork

One record per process: the two locks, whether the buffer exists and is
installed, the shutdown latch, the queue, the batches in flight, and where each
thread is. A lock is held from one step to the next, because a fork may come in
between: `_runtime._lock` while the default pipeline is built (`install`,
`publish`), the buffer's while an event is appended or a batch popped. `OsFork`
copies the record, drops every thread but the one that forks, and runs
`ResetAfterFork` if the handler had been registered. The forking thread is in the
application: a flush target that forks is left out. Overflow, wake-ups,
deadlines and failed sends are `EventBuffer`'s and not repeated; `shutdown()` is
its latch, and the flush thread then drains and ends. A buffer that was replaced
is left out too (its handler is never unregistered, see below).

### Spans

A task is an asyncio task or a thread, with its own context variables
(`context`) and the stack of `with` blocks it is in (`stack`). `Call` is a wrapper
up to the function's body, `Return` its end, by whatever way; a coroutine is
suspended by other tasks' steps. A generator keeps its span over all resumptions:
`Resume` and `Yield` enter and leave `activate()`, on whichever task holds it.
`finish_span()` emits in order and its task does nothing else meanwhile
(`closing`). `Spawn` copies the context for an asyncio task and starts a thread
with an empty one; `Adopt` takes over a snapshot. The properties read off the stack alone what
the context variables should be.

### Streams and Replies

`Replies` is the data: `OpenAIFacts` and `AnthropicFacts` record a whole reply,
`Observe` and `Apply` a streamed one chunk by chunk, over the chunks the
providers send (external, from how the wrappers read them). A reply is its tool
calls, finish reason, refusal and usage; fragments of tool arguments are chunks
of their own. There are three kinds: OpenAI's chat completion, the reply of its
Responses API (`ResponsesReplies`: a status and a reason for it, items instead of
choices), and Anthropic's message. A stream of the Responses API ends with an
event named after the status (`ResponseEnd`), and `OpenAIObserve` reads only that
of a completed reply, as `_observe` does; the whole reply is read whatever its status
(`CollectResponse`). What Anthropic's own stream gathers for a manager is kept
like what a proxy's `StreamState` gathers; `Snapshot` is what `_settle()` makes of it.

`Streams` is the control: a call's request is awaited, and a stream is then read,
closed or left by any task at any await. `_settle()` has no await in it and is one
step. A request is one HTTP attempt or several, by the provider's client: each gets
a response, accepted or not, or none (a timeout, no connection), and the hook runs
on responses only (`CountResponse`), on the observation that is active in its task.
`hookable` is whether `install()` finds an httpx client with event hooks; where it
does not, the methods are wrapped all the same and nothing is counted.
`messages.stream()` may raise after the span was opened (phase `raised`).
`attempts`, `responses`, `over` (the calls whose end their caller has seen) and
`ended` (how often `finish_span()` ran for each) are history.

### RunMap

A callback is a sequence of accesses to the map, each under the handler's lock,
and what lies between them: looking up the parent, opening the span, putting it
(and evicting the oldest), looking it up, popping it, finishing the span with its
two `emit()` calls. LangChain starts a child after its parent and ends a run
after its start; otherwise threads and order are arbitrary, and some threads run
inside an `@observe` trace (`Outer`).

## 3. What is checked

The properties are in the modules, each with the code behaviour it is about.

| Run | Instance | Question |
|---|---|---|
| `BufferSafety` | 2 callers, with and without `start=True`, capacity 2, batch 2, 3 events | is any event lost, duplicated or stranded, is a wake-up or a waiter missed, does a successful flush mean what it says, is the buffer a lossy FIFO channel? |
| `BufferLiveness` | 2 callers, capacity 1, `flush_at` 2, 1 event | do shutdowns and flushes return, do events leave, does the thread end? |
| `Ingest` | 1 sender, 2 sends, 3 attempts, budgets 0 and 2, timeout 3, backoff up to 3 | is a send bounded and accounted for, are pools handled safely? |
| `Runtime` | 3 threads, 1 sink, 3 calls | is any pipeline lost track of, shut down twice or while it is installed; does `emit()` ever wait? |
| `Fork` | 2 threads and the flush thread, one fork, 4 calls, batch 2 | is anything sent twice or by the wrong process, does anybody wait for a thread of the parent, does all work go on in both? |
| `Spans` | 2 tasks, 1 generator, 3 spans, depth 2 | do the context variables follow the calls, is a dropped trace silent and, while the SDK stays enabled, a kept one whole, where do annotations land? |
| `Streams` | 2 tasks, 2 calls, 2 clients, 2 attempts, 12 replies | are responses counted on the right call, does every span end once and with its call, is one that ended final, is a streamed reply recorded like a whole one? |
| `RunMap` | 3 threads, a chain of 3 runs, a map of 2 | is every run accounted for, do runs nest in their parent's trace, does every reference resolve? |

### Why the bounds are enough

* *Buffer.* Capacity 2 with 3 events overflows, fills exactly to `flush_at`, and
  leaves a batch in flight while another is queued. Two callers and the flush
  thread are three drainers: one sends, one drains after it, one waits.
  In `BufferSafety` no caller is `Patient`: a waiter that may time out can do all
  that one without a timeout does, and the callers are then interchangeable
  (symmetry; safety only).
* *Liveness.* `flush_at` above `max_size` is the interesting case: the batch
  threshold is never reached and only the interval helps.
* *Transport.* 3 attempts give a first, a middle and a last one. A budget of 2 is
  shorter than the request timeout and the longest backoff; 0 is spent at once.
  A second send shows what a closed client, or a forked child, does next.
* *Runtime.* Three threads: two that replace the pipeline and one that emits.
  Three calls install a sink, take it out and install it again.
* *Fork.* One thread forks while the other and the flush thread are anywhere;
  4 calls leave a batch in flight, events behind it, and some for the child.
* *Spans.* Three spans are a root, a child and a stray; a generator that both
  tasks hold is resumed inside its trace, in another one, and in none.
* *Streams.* Two calls on two tasks interleave at every await, or two tasks share
  one stream; two attempts are one without a response and one with. Of the replies
  two are short, one of each provider, and for those the calls are any two. The ten
  others are there for what is recorded, which does not depend on other calls: a
  call that gets one of them is the only call, which both tasks read (`OthersAlone`,
  the state constraint of the run). They have one tool call and two, usage and
  none, two choices and none, a refusal, a cached prompt, and there are replies of
  the Responses API that are complete, refused, cut off and failed.
* *RunMap.* A map of 2 and a chain of 3 evicts the root while its grandchild
  starts; three threads are one per run.

`CHECK_DEADLOCK FALSE` in each run: calls are bounded and the threads end, so
the models, like the program, may stop.

### Fairness

Nothing is fair that the application decides (calls of `add`, `flush`,
`shutdown`, `configure`), that the environment decides (a target that returns, a
server that answers), or that is a race between the two.

* `ThreadsRun`: a thread that can take a step by itself eventually does (the
  operating system schedules it), and timeouts of joins and waits run out.
  Weak fairness is enough: the lock is held only inside an action.
* `TargetReturns` and `IntervalElapses` are assumptions of their own, on the
  left of the properties that need them. `ShutdownReturns` needs neither: the
  target may hang and `shutdown()` still returns. `ShutdownIsPrompt` does not
  assume the interval: the wake-up alone must do it.
* `IngestClient`: the threads run and time passes. A server that never answers
  is a request that times out, and a timeout does come.
* `Runtime`: threads in `emit()` or under the lock go on. The shutdown of a
  replaced buffer is not fair: it may block for ever, and `emit()` returns
  nevertheless. The calls are bounded, so weak fairness suffices for the lock.
* `Fork`: the threads of both processes run, the interval elapses and targets
  return. Calls are bounded here too, so nobody is kept from a lock for ever by
  others that take turns with it.
* `Spans`, `Streams`, `RunMap`: none. Whether a call returns, a stream is read to
  its end or a run ends is up to the application.

### Where the code and its documentation disagree

Each of these is a run that TLC ends with a counterexample.

| Run | The documentation says | What happens |
|---|---|---|
| `FlushHangs` | `_runtime.py:276-278`: a flush without a timeout "cannot hang forever" | the shutdown deadline passes with an event queued, the flush thread ends, nobody empties the queue or notifies the waiter |
| `ShutdownHides` | `buffer.py:411-412`: False "if it was abandoned with events still queued" | the drain gives up at 90% of the timeout, the thread ends, the join succeeds, the result is True |
| `ForkedEmit` | `buffer.py:248-249`: a lock "may have been held by a thread that does not exist in this process, so replace it"; README: "Never blocks the caller." | `_runtime._lock` is not replaced: a child forked while another thread installs the default pipeline blocks in its first `emit()` for ever |
| `StraySpans` | `decorator.py:29-31`: generators "re-enter the trace context around each resumption so anything the body instruments still nests correctly" | a generator that did not create its trace restores only its observation: resumed elsewhere, its body's calls get one trace and a parent in another |

Seen while modelling, with no run of their own.

*Buffer and pipeline.* `decorator.py:360` says "the buffer preserves order", but a
caller's `flush_once()` and the flush thread may send consecutive batches at once
and the later one may arrive first. `flush(timeout)` drains before it looks at the
timeout, so a slow target keeps the caller past it. `healthy` stays true when
queued events are abandoned. A second `shutdown()` arms an expired deadline again,
though the comment at `buffer.py:191` has it "armed once". Two concurrent
`start()` calls may start two flush threads (`StartCreate` has the gap); one then
may clear the wake-up that was meant for the other, which is why `NoMissedFlushAt`
speaks of a flush thread that is the only one. A `configure()` that raises for its buffer
arguments leaves the old buffer with a new client, whose counters `stats()` then
reports as those "from the running pipeline" (`_runtime.py:358`). `configure(sink=...)`
compares the sink with the installed buffer only (`_runtime.py:202`): one that was
taken out a moment before, by a call that has released the lock and not yet shut
it down, is installed again and dies while `emit()` uses it. `InstalledIsOpen`
exempts it, and `RetiredOnce` counts its two shutdowns. The fork handler
of a buffer is never unregistered: one that was retired or shut down runs again
in a child, although its latch is called "one-way" and "never cleared"
(`buffer.py:182-183`). The handler's lock in `langchain.py` has the defect of
`ForkedEmit` as well.

*Transport.* Arming "also bounds a send that is already in flight"
(`buffer.py:424-425`), but a request already posted keeps the timeout it was
given; `NothingOutlivesTheDeadline` exempts just that one. A shortened sleep is
said to leave "a chance of delivery" (`client.py:221-222`), but a backoff cut to the
budget ends with the budget and the attempt is refused. `close()` will "Release the
connection pool" (`client.py:341`), but a send under way builds a new pool after the
swap and nothing closes it. Three attempts are said to be "a worst case of ~30s for
a *single* batch" (`client.py:31-32`); with a `Retry-After` at the cap of 8 seconds
`LongestSend` is 46. The counters are said to be "mutated only on the flush
thread" (`client.py:73`), but `flush_once()` sends on its caller's thread, so two
senders may lose an update.

*Spans.* "Children read the verdict off the trace, so a kept trace is whole and a
dropped one is silent" (`decorator.py:271-273`), but `emit()` looks at `enabled` for
each event: disabled between the end of a child and that of its root, the SDK has
sent the child, and sends neither the trace nor the root.
`KeptTracesAreWhole` is about traces during which it stays enabled.

*Integrations.* "Every attempt fires the hook" (`_transport.py:120`), which is to
give "how many HTTP attempts the SDK made" (`_transport.py:11`); but response hooks
run on responses, so a try that times out or does not connect, and is retried, is
not counted, and `AttemptsFollowTheirCall` is about responses. `messages.stream()`
opens its span and then calls the provider's own `stream()` outside any `try`
(`anthropic.py:165-166`): when that raises, the span never ends and nothing is
recorded, against "Every message becomes a generation observation"
(`anthropic.py:10`); `SpansCloseOnce` leaves it out. "The final response.completed
event carries the whole response" (`openai.py:273`), but a stream that was cut off
ends with `response.incomplete` and one that failed with `response.failed`: of
these neither finish reason nor usage is recorded, though the whole reply's are,
and `Comparable` exempts them. A stream that is dropped without being closed, and
a manager that is never entered, never settle. `TracedStream.__exit__` ignores the
exception it is given, while the stream manager records it. A second task that reads a stream
while the first does settles it as failed. Anthropic's streamed replies do not
flag a refusal, and OpenAI's chunks of several choices are merged into one:
`Comparable` exempts both. Response headers of an earlier attempt stay when the
last one lacks them, against "The last one's headers win" (`_transport.py:120`).
Once the run map drops a root, its trace is never sent, though its children refer
to it; a child that starts after its parent ended begins a trace of its own.

## 4. What is proved

### The buffer

`EventBufferProofs` proves, for any finite sets of callers and flush threads,
any capacity, batch size and number of events (`BufferAssumption`):

| Theorem | States |
|---|---|
| `Typing` | `Spec => []TypeOK` |
| `InFlightIsExact` | `_in_flight` is exactly the number of threads between `_take_batch()` and `_batch_done()` |
| `NothingStranded` | a flush thread that ends without running out of time leaves an empty queue, and it stays empty |
| `NoSleepingWaiter` | nobody sleeps in `wait_until_idle()` while nothing is queued or in flight |
| `WakeUpsArrive` | the only flush thread does not wait with `flush_at` events queued, unless its flag is set or somebody is about to set it |

and `EventBufferFateProofs`, under the same assumption:

| Theorem | States |
|---|---|
| `EventsInOnePlace` | an event that was offered is queued, in one thread's batch, or settled: one of these, in one place, in order |
| `LossesShow` | while `healthy` reads true, no event was dropped and no batch failed |
| `FlushesAreHonest` | a flush that returns True found every event offered before it settled |
| `BufferImplementsChannel` | `Spec => ImplementsChannel`: the buffer implements `LossyChannel` |

The argument for the threads is one inductive invariant, `BufferInv`; the theorems are its
parts, which the run `BufferSafety` checks on a small instance:

* `TypeOK` alone does not even keep `inFlight` a natural number: `_batch_done()`
  subtracts one. That it was at least one follows from `InFlightCountsBatches`,
  since the thread itself is among those counted.
* `InFlightCountsBatches` counts the threads in `Sending`, those with a batch or
  in `sent`. That a step moves exactly one thread in or out needs `BatchesHeld`:
  a thread has a batch just while it sends, through every call its target makes,
  so a take never overwrites one. The counting itself uses the library's facts
  on the cardinality of a set with one element added or removed.
* `NoStranding` needs `LatchWasSet`: a thread leaves its loop only after it has
  read the latch as set. Since `add()` refuses from then on and only `add()`
  lengthens the queue, the last drain is final.
* `NoLostIdle` needs the exact count once more: the last thread to finish a batch
  sees zero and wakes every waiter. It also needs that taking a batch never makes
  the buffer idle: a batch is counted as in flight in the same step.
* `WakeUpsArrive` needs `WakeInv` beside it. Between the return of `Event.wait()`
  and `Event.clear()` a wake-up may be set and lost again; it does no harm,
  because the thread drains after it clears (`OnlyThreadIsWoken`). That drain is
  cut short only by the deadline, and `ArmedBeforeLatch` has a `shutdown()` behind
  every deadline, whose own wake-up is still to come or ends the loop
  (`LatchReadLast`).
* `ThreadsStartedOnce` keeps the halves of two concurrent `start()` calls apart:
  without it `StartSpawn` could revive a thread that has already ended.

Each part has a step lemma with one case per action; `NextCases` turns a step
into those cases, and the theorems follow with `PTL`.

The invariant of the events is `FateInv`: `BufferInv`, `EveryEventInOnePlace`,
`LossIsCounted`, and `MarksAreOffered` (a flush waits only for events that were
offered before it). That the queue is increasing is what makes one place exclude
another: an increasing sequence holds no event twice, and cutting it separates
its events (`CutIncreasing`). A take moves exactly the head of the queue into a
batch that `BatchesHeld` says is empty. `FlushesAreHonest` follows without a word
about who sent what: when nothing is queued and `_in_flight` is zero, no thread
is in `Sending`, so no event has a place but a settled one. For the refinement,
`OldestByCount` shows that what `MakeRoom` drops is the oldest of the queued
events, which is what the channel may lose; every other step is a stutter.

### The transport

`IngestClientProofs` proves, for any sends, attempts, timeouts, backoffs, budgets
and answers (`ClientAssumption`):

| Theorem | States |
|---|---|
| `ParentsPoolsStayOpen` | a forked child never closes a connection of its parent |
| `DeadlineBounds` | time passes on a spent budget only for a request that was posted before the deadline was armed |
| `SendsAreBounded` | a send lasts no longer than its request timeouts and the backoffs between them, for any `Retry-After` |
| `OnePool` | with one sender, at most one pool is open beside those it inherited and the one that is being closed |
| `BatchesAreCounted` | with one sender, every batch is counted once, as sent or as dropped |

The invariant is `ClientInv`. `BudgetIsKept` is the argument for the deadline: a
request, or a sleep, that was started on the budget has no more time left than
the budget has, and `Tick` takes one from both. `SendsAreBounded` needs no
deadline. Its invariant, `TimeIsKept`, is an account: the time a sender has spent
and what its request or sleep may still take are covered by the attempts it has
begun (`Spent`), and the last attempt has no backoff (`SpentSums`). `ParentsPools` keeps apart from
the inherited pools both that of the client and the one that `close()` has swapped
out and not closed yet.

`OnePool` and `BatchesAreCounted` assume `OneSender`, in the theorem and not of
the model. They are false of two: `_client()` tests and builds without a lock,
and the counters are read and written apart (section 3). The flush thread is the
only sender unless a caller flushes.

### The default pipeline

`RuntimeProofs` proves, for any finite set of threads, any sinks and any `MaxCalls`
(`RuntimeAssumption`; pipelines are numbered, so `None` and the sinks are not
integers):

| Theorem | States |
|---|---|
| `Typing` | `Spec => []TypeOK`; in particular `made` stays within `MaxCalls + 1` |
| `NoneForgotten` | a default buffer that runs is installed, or in the hands of a caller that will shut it down |
| `InstalledRuns` | the installed buffer was not shut down, unless it is a sink that was installed again after a call had taken it out |
| `NoneRetiredTwice` | each installation of a buffer ends in one shutdown by one caller; a default pipeline is never shut down twice |

The invariant is `RuntimeInv`. `Mutex` ties
the program counters to the lock. `InHand` follows a pair that was taken out of
use: still installed while its replacement is built, never afterwards unless it is
a sink, and not running once its buffer's shutdown has returned; without it, the end of a
retirement could forget a running buffer, and a `configure()` that raises could
drop the only reference to one. `Numbered` makes a new pipeline different from
all those known; `Affordable` bounds how many there are: each call builds one,
or takes one away that the next `emit()` builds again. `NoneRetiredTwice` is a
balance: of the times a buffer was installed, each is paid for by a shutdown that
has happened, a caller in `Retirers` that has still to do it, or the buffer's
being the installed one; `RetirersCount` has the library's facts on cardinality.
`InstalledRuns` follows from the balance: a caller about to shut the installed
buffer down means it was installed twice.

### The run map

`RunMapProofs` proves, for any threads, any finite forest of runs, any `MaxRuns`
of at least 1 and any outer trace (`RunMapAssumption`):

| Theorem | States |
|---|---|
| `RunsAccounted` | an open run is in the map, in a callback's hands, finished, or counted in `dropped_runs` |
| `RunsNest` | an observation is in the trace of the one it nests under, with its sampling verdict |
| `RunsImplementLifecycle` | `Spec => ImplementsLifecycle`: the handler implements `SpanLifecycle` |
| `ReferencesAreSent` | once every run has ended, and if none was dropped, every trace and parent that an observation names was sent |

The invariant is `RunMapInv` (`Invariance`), the first two properties and four
parts that they need:

* `OneCallback`: no two threads are in a callback for one run. Without it two
  threads could hold the same popped run, and a run could be put twice.
* `SpansFollow`: what a span has been through follows from where its callback is.
  A run that is put is not in the map yet, a run that is evicted is unfinished,
  and one that is sent was not sent before.
* `ParentFound`: the parent that `_open()` took out of the map may have ended or
  been evicted by the time it is used, but its span is still there, and open.
* `VerdictsShared`: a span has the verdict of its trace, so that a child that
  takes the trace of its parent takes its verdict too.

`Placed` (in the map or in hand) carries the count: the `Placed...` lemmas say how
each action changes it, `DroppedStep` follows `dropped_runs` with the library's
facts on cardinality, and `FateStep` maps each step to one of `SpanLifecycle` or
to a stutter. `RemoveAtFacts` and `EvictFacts` say what taking from and putting
into the bounded sequence does to the set of runs in it.

`ReferencesAreSent` needs `ReferenceInv`, which adds two parts. `TracesOwned`: the
run that a trace is named after is in that trace, so its end sends it. `SentOnEnd`:
while the library is enabled, a callback sends just what the verdict of its span
and the ownership of its trace call for, and has sent it when it returns.
`dropped_runs` enters by `NothingLost`: a count of zero leaves no open run that is
unfinished, out of the map and in nobody's hands, and of a run that was finished
it no longer matters who ended it, or when.

### Fork

`ForkProofs` proves, for any threads, any batch size and any number of calls
(`ForkAssumption`):

| Theorem | States |
|---|---|
| `NoDuplicates` | an accepted event is in one queue, in one batch, or handed over once, counted over both processes |
| `NobodyWaits` | the buffer's lock is held, and the batches in flight are sent, by threads that the process has |

The invariant is `ForkInv`. Of a fork the interesting part is what `OsFork` must
not find: that the parent has a buffer whose handler is not registered, with
events in it or a lock that is held. `Installation` and `Unbuilt` say so: without
`built` the queue is empty and nobody is past `install`, so the plain copy of a
process without a handler is as good as a reset one. `LockHeld` and
`LockReleased` tie the lock to a thread in both directions; the thread that forks
is idle, hence not that thread. `InFlightIsSenders` counts as the buffer's
invariant does, with a count that starts again at zero in the child.
`NumbersSuffice` is about the bound: there is an unused number for every thread
on its way to append. `Placed` says where an event is, one place excluding the
others, and `OneCopy` turns it into the count that `EachEventOnce` makes.

### Spans

`SpansProofs` proves, for any tasks and generators, and any number and depth of
spans (`SpansAssumption`; spans are numbered, so `None` is not an integer):

| Theorem | States |
|---|---|
| `ContextsFollowCalls` | the context variables of a task are what the calls it is inside of make them |
| `SpansNest` | unless a generator was resumed away from its trace, an observation is in the trace of the one it nests under |
| `TracesAreWhole` | nothing of a dropped trace is ever sent; once every call has ended, and if the SDK was not disabled, a kept one was sent whole and once |
| `AnnotationsLand` | an annotation or a score lands on the task's innermost observation, which has not ended, and in its trace |
| `SpansImplementLifecycle` | `Spec => ImplementsLifecycle` |

The invariant is `SpansInv`. That the context follows the calls is not inductive
as it stands, because leaving a scope restores what was saved on entering it:
`LevelsFollowScopes` says the same of every *level*, of what a task was in below
each of its scopes, and `Level` is what `Exit` goes back to.
The other parts are:

* `ScopesAreInUse`, `EnteredOnce` and `GeneratorsOwnSpans`: the span of a scope
  has not ended, no two scopes are of one span, and a generator that runs is in one scope.
  Without them a scope could be left whose span was ended elsewhere, and the span
  would be sent twice. `EntersFree` is the heart: what a step enters, a new span
  or that of a suspended generator, nobody is in.
* `SomebodyEnds`: a span that has not ended has a scope, or a suspended
  generator, to end it. When all is quiet, all have ended.
* `OneVerdict`, `ClosingIsDue` and `SentOnEnd`: a span has the verdict of its
  trace, what a task has to hand over is due and due there alone, and while the
  library is enabled everything that is due was sent or is being handed over.
  `DueFacts` says what the events of a task tell of a span.
* `ContextsCohere`: while nothing has wandered, each context, also the snapshot
  and those saved in scopes, names an observation of the trace it names. A span
  that is opened in a coherent context nests in one trace (`NestingStep`).

The proofs do not go action by action. Each action is first reduced to what it
does to the scopes (`Entered`, `Left`), to the spans (`NewSpan`, `Finishes`,
`Hands`), or to neither (`Bystanding`), and the parts of the invariant are shown
to be kept by these.

### Streams

`StreamsProofs` proves, for any tasks, calls and clients, any number of attempts
(`StreamsAssumption`) and any replies of the shape the providers document
(`AnswersAssumption`):

| Theorem | States |
|---|---|
| `AttemptsAreCounted` | an observation counts the responses to the HTTP attempts of its own call, if a hook could be installed, and nothing if not |
| `QueuedObservationsStay` | an observation whose span has ended is not ended again, nor written to |
| `SpansEndWithTheirCall` | a span ends once, by the time the caller has seen its call end; a `messages.stream()` that raises is left out |
| `StreamsReadAlike` | a stream read to its end is recorded like the reply read whole, one that ended early like a part of it, for the replies in `Comparable` |

The invariant is `StreamsInv`. `TasksKnowTheirCall` is what the count rests on:
the contextvar of a task is the call it awaits, and of no call once it has
returned. `HooksAreInstalled` makes the count complete: where the HTTP client
takes a hook, whoever has a span has ours under it, once, also when two wrapped
clients share a transport. `SettledOnce` relates the end of a span to where its
call is, and `EndIsSeen` what the caller has seen: together they say that whatever
ends a span finds it open, and that no end is seen without one. A step that reads or closes a stream leaves all the rest of a call alone
(`ReadingStep`), so those four actions are one case of every later lemma. For the
first three theorems it does not matter what is recorded of a reply.

`StreamsReadAlike` is about nothing else, and needs a second invariant, `AllTold`;
TLC agreed with it on the twelve replies of `Streams` before it was proved. `StreamedLikeWhole` speaks
of the end of a stream, so each call has to know what it has gathered on the way
(`Gathers`), that nothing is recorded while it can still be read (`Untold`), and
what was recorded when it cannot (`ToldLikeWhole`).

What is gathered is a recursion over the chunks, which the provers cannot unfold
for replies of any length. So `Seen` says without recursion what is gathered after
n chunks: `OpenAISeen` that the calls are those whose first fragment has come,
which is half of n, rounded up; `AnthropicSeen` that they are those of the events
between the first and the last; `ResponseSeen` that nothing is known before the last
event, and after it all if it is that of a completed reply. `SeenGathers` is the step
from n to n + 1, for each kind of reply, and `OpenAIGathers`, `ResponseGathers` and
`AnthropicGathers` say that at the last chunk it is what the whole reply records, and
before that a part of it. `Arrives`
then keeps `Gathers` by one application of `SeenGathers`, and every step that
settles a call (`StreamTold`, `SnapshotTold`, `WholeTold`) gets its facts from there.

`AnswersAssumption` is the shape of a reply in the providers' clients: counts and
reasons are there or `None`, Anthropic has one message and always reports the
final count of the output. Without this last fact the theorem would be false: the
first count, from `message_start`, would stay. Outside `Comparable` are replies
with several choices (`_observe` merges the choices of a stream), Anthropic's refusals
read through a proxy, and replies of the Responses API that are not complete.
That a literal such as `"refusal"` is not `None` is there for the provers, to which strings and
`None` are unknown values.

### Only model-checked

* Liveness: `ShutdownReturns`, `ShutdownIsPrompt`, `QueuedEventsLeave` and
  `FlushReturnsUnlessAbandoned` of the buffer, `SendReturns` of the transport,
  `EmitReturns` of the pipeline and `ForkedWorkGoesOn` rest on fairness and
  `ENABLED`, which the prover does not handle.
* The four runs that end with a counterexample.

## 5. Not modelled, and why

* The atexit hook's own run: it calls `shutdown()` and prints.
* `flush()` and `stats()` of `_runtime` in `Runtime`: they read the globals and
  change nothing. A replaced pipeline in a forked child.
* Captured values, redaction, status and timings of a span, user ids, names,
  text, request parameters, headers: data that no control depends on.
* What a generator's body does with `throw()` or with the close of its wrapper;
  the inner generator is not closed by it, and has no state here.
* An uninstrumented call: it touches none of the state, and is not a step.
* Threads (rather than tasks) that share one stream: `_settle()` then races with
  itself between its test and its assignment.
* `models.py`: plain records and their serialisation.
* Logging, warnings, `last_error`, JSON; packaging, scripts, CI.

## 6. Plan

1. `Runtime` composed with `LossyChannel` as each buffer's specification, to
   follow an event from `emit()` across replacements.
