# A TLA+ model of procmachines

`procmachines` (the crate under `src/` of this repository) turns async
functions into state machines: a *ProcMachine* owns an IO struct and a fixed
set of internal tasks, external code locks the IO struct, and releasing the
lock runs every task that was woken. The IO struct is built from single-slot
exchanges, ports, input values, alarms and watches.

Nothing in the crate starts a thread or owns an executor: everything depends
on a waker being registered before, and called after, the change that somebody
waits for. That is what the modules here are about: **no wake-up is lost, no
item is lost or invented, nobody waits for ever**, in every order of calls and,
where the code runs concurrently, every interleaving of its atomic accesses.

## Inventory

| Component (source) | State | Operations | Talks to |
|---|---|---|---|
| **ProcMachine** (`proc_machines.rs`) | `wake_mask` (u32: a bit per task, bit 31 = ticking), `external_waker`, a mutex around the IO struct, the chain of `Option<FUT>` and `alive_mask` | `build`, lock / drop of a guard, `is_done`, `external_poll`, `tick`, `MultiWake::wake` | the tasks' wakers, from any thread; the executor of the one external task |
| **Multi-waker** (`proc_machines.rs`) | none | a `Waker` per depth over one `Arc` | `MultiWake::wake(n)` |
| **WakerRef** (`waker_ref.rs`) | a waker or none | `register`, `wake`, `take` | the tasks |
| **IoExchange** (`io_exchange.rs`) | state byte (8 values), item slot, reader and writer `WakerRef` | `con_poll_read`, `drop_read`, `prod_poll_ready/_send/_flush/_close`, `reset` | one reader task, one writer task |
| **IoSink / IoStream** (`io_sink.rs`, `io_stream.rs`) | none; the wrappers hold a Sink or a Stream | the contracts, lock adapters, `SinkIoSink`, `StreamIoStream` | implemented by the exchange and the port |
| **IoBytesExchange** (`io_bytes_exchange.rs`) | as IoExchange, with a chunk of bytes | reads with a limit, writes, flush, close, drop, reset | `IoReader`, `IoWriter` |
| **IoPort** (`io_port.rs`) | Disconnected (two `WakerRef`s) or Connected(value), `is_predropped` | `connect`, `try_predrop`, `reset`, drop, `con_/prod_poll_connected` and the forwarding traits | two tasks, the connected value |
| **AlarmClock / ClockAlarm** (`alarm_clock.rs`) | time, provider's waker and threshold, list of alarms, all under a mutex | `advance`, `external_poll_new_alarm`, `set_alarm`, `alarm_poll`, drop | the provider task, the alarms' tasks |
| **IntrusiveList** (`intrusive_list.rs`) | a ring of raw pointers, head with a mutex | `link`, `unlink`, `filter`, drop of leaf and head | AlarmClock, WatchableValue |
| **WatchableValue / ValueWatch** (`watchable_value.rs`) | value, list of watches; linked = nothing new | `set`, `get`, `watch_poll`, `watch_check`, drop | the watches' tasks |
| **InputValue** (`input_value.rs`) | value, `WakerRef` | `set`, `as_mut`, `con_poll_ref` | one consumer |
| **wait_loop** (`wait_loop.rs`) | none | repeat a closure until Done or Wait | a task body |
| **Buffer providers** (`buf_provider.rs`) | a cyclic pool | `poll_get_buf` | the tokio reader |
| **tokio adapters** (`tokio_reader_writer.rs`) | a buffer, the wrapped reader or writer | `con_poll_read` with a limit, `drop_read`, `prod_poll_*` | AsyncRead, AsyncWrite |
| **IoError** (`io_error.rs`) | none | conversions from and to `ErrorKind` and `io::Error` | the tokio adapters |
| **IoReader / IoWriter** (`io_reader.rs`, `io_writer.rs`), **RefLockable / MutLockable** (`ref_lockable.rs`) | none | contracts and lock adapters that forward each call | the exchanges, the ports, the adapters |
| **Examples** (`src/examples/fizz_buzz_*`) | an IO struct, a task, a driver | `main` and `fizz_buzz_task` | a machine and the objects above |

What is hard, and what makes each part correct:

- **ProcMachine** is the concurrent part. `wake_mask` is changed outside the
  mutex by any thread, while a tick claims it by a swap, polls, and leaves by a
  compare-exchange. A wake must neither be overwritten nor be left to nobody;
  the ticking flag must not outlive the tick, or wakes from outside become
  silent; a critical section must drain what it woke; the external task must be
  told of wakes and of the end.
- **IoExchange** is not `Sync`, so its calls are atomic, but they come in any
  order: a flush before, after or over an item, a close over an item, a
  `drop_read` or a `reset` under tasks that wait. Each side must be woken
  exactly when its answer changes.
- **IoPort** changes what a waiting task would be answered by four different
  calls; each must wake whom it concerns.
- **AlarmClock** has a provider that advances the clock and then registers, in
  two calls; the wakers run under the clock's mutex.
- **IntrusiveList** is pointer surgery while the ring is being walked.
- **WatchableValue** encodes "changed" in the link state.
- **IoBytesExchange and the tokio adapters** have partial reads, zero lengths,
  limits, end of file and errors after data; the buffers of the pool are reused
  while chunks handed out earlier may still point into them.
- **A whole program** works only if each of these wakes the next: the object the
  task, the task's bit the external waker, that one the driver's executor.

The complete list of hazards, with their lines and the properties that cover
them, is in `PROJECT.json`.

## The modules

| Module | Models |
|---|---|
| `TaskScheduler` | what a ProcMachine promises: an abstract scheduler of tasks |
| `ProcMachine`, `ProcMachineProofs` | the machine: threads, wakers, ticks, the external task; theorems about it |
| `Channel` | what a pair IoSink/IoStream promises |
| `IoExchange`, `IoExchangeProofs` | the exchange, theorems about it |
| `ByteStream` | what a pair IoWriter/IoReader promises |
| `IoBytesExchange`, `IoBytesExchangeProofs` | the byte exchange, theorems about it |
| `IoPort`, `ValueAndPortProofs` | the port, theorems about it |
| `AlarmClock`, `AlarmClockProofs` | the clock, its alarms and its provider, theorems about them |
| `LatestValue` | what a watchable value promises |
| `WatchableValue`, `ValueAndPortProofs` | the value and its watches, theorems about them |
| `NodeList` | what an intrusive list promises |
| `IntrusiveList`, `IntrusiveListProofs` | the ring of pointers, theorems about it |
| `IoError` | the conversions of errors |
| `TokioPipe`, `TokioPipeProofs` | reader adapter, buffer pool and writer adapter, with a task that copies; theorems about them |
| `FizzBuzz`, `FizzBuzzProofs` | the example programs: machine, task, objects and drivers together; a theorem about them |

The first of each pair is the abstract specification, where one is worth
stating: `ProcMachine` implements `TaskScheduler`, `IoExchange` `Channel`,
`IoBytesExchange` `ByteStream`, `WatchableValue` `LatestValue` and
`IntrusiveList` `NodeList`. `FizzBuzz` composes what the others check apart.

Definitions named "Seeded fault" are not part of any specification: each is
the definition that follows it with a plausible bug, and shows that the
property named for it in `PROJECT.json` would notice.

### ProcMachine

A mask is the set of its bit positions, `TICKING` being 31. Every access to
`wake_mask` and `external_waker` is a step of its own; what happens inside the
mutex between two such accesses is one step too. `pc[t]` says where a thread
stands (`crit`: it holds a guard; `swap`, `poll`, `cas`: in `tick`; `doneWake`,
`release`, `notify`, `register`: leaving), `op` what the holder took the mutex
for, `call[t]` its frame of `MultiWake::wake`. Users lock and unlock, call
`is_done` and call wakers; the `Poller` is the one task that calls
`external_poll`, run by an executor once it was notified, or for reasons of its
own. A waker exists for a task once that task was polled (`handed`). What a
task does in a poll is arbitrary: it wakes any tasks, then stays pending or
finishes. `wakes` bounds the calls of wakers.

A pass of the tick goes up the type-level chain of polls: `layer` is the depth
whose turn it is, `kept` the mask that the layers before it return. A layer whose
task has finished hands it on (`SkipFinished`), one whose task is idle adds its bit
(`SkipIdle`), one whose task is polled adds it if the task stays pending
(`BeginPoll`, `EndPoll`). `EndPass` assigns what the last layer returned to
`alive_mask`; no action sets the mask from the futures. `AliveMaskExact` is the
claim that this fold comes out as the set of unfinished tasks.

`compare_exchange_weak` may fail for no reason (`TickRetry`). `AtomicWaker` is
external, and modelled as it specifies itself: `register` stores the waker,
`wake` takes and calls it. All orderings in the source are SeqCst but for the
failure of one exchange whose result is reread, so steps interleave.

`owed` (tasks woken since their last poll began), `inner` (those woken by the
holder) and `raced` (a notification of the external task found no waker in the
window of its `external_poll`) are history variables: no guard reads them.

Safety: `NoLostWake`, `SectionDrained`, `TickFlagOwned`, `AliveMaskExact`,
`StrandedOnlyByRace`; refinement: `ImplementsScheduler`, under which the
pending set of the abstract scheduler is what the tick has claimed together
with what `wake_mask` holds. A wake repeated between its claim and its run
counts for two: `TaskScheduler` allows it.

Liveness needs that threads carry on with what they began (`Progress`, in
`FairSpec`): a guard is dropped, a poll returns, and a tick's exchange does not
fail for ever (strong fairness of `TickExit`: a bounded number of wakes cannot
disturb it for ever, and spurious failure of a weak exchange is transient). Who
drives the machine is a premise of the property. If some user keeps locking
(`KeepsLocking`), every wake is served (`WakesServed`). If instead an executor
runs the external task once it is notified, and the mutex does not starve it
(`KeepsDriving`; parking_lot, in `build_std`, is eventually fair), the wakes are
served and the end is reported, as long as the window is not hit
(`DrivenServes`, `DrivenFinishes`). No fairness is assumed of users that begin
something: they may never lock or wake.

### IoExchange

One step per call, or per outcome of a call: `ReadPending`, `ReadItem`,
`ReadOver` are the outcomes of `con_poll_read`, and so on. The compare-exchanges
cannot fail, since nothing runs between the load and the exchange. `rWait` and
`wWait` say whether a task counts on being woken: the writer's because of what its
last poll left pending, the reader's because that poll was Pending or gave an item,
after which `con_poll_read` wakes its caller in advance. `rWoken` and `wWoken` say
whether its waker was called since that poll began: this is how a lost wake-up, or
a forgotten wake in advance, becomes visible. A task may poll without having been woken, and may drop a pending
operation for another (as `select!` does). Items are numbered in the order in
which they are sent; `MaxItems` and `MaxResets` bound sends and resets. The
send of an empty option changes nothing and is left out.

`Channel` states the contract of the traits. Items come out in order and once. An
item disappears only in the step in which the reader leaves, which it can do once
(`left`, here `state = "DROPPED"`), or in a reset, which counts (`resets`): no
other step may lose it. A flush is confirmed only after the reader has looked and
found nothing since the last send (`acked`), or once the channel is closed or the
reader gone. A close is confirmed and the end reported only with nothing in flight.
In the exchange `acked` is a history variable: the code has the state byte, and
that it says the same is part of the refinement.

Fairness (`FairSpec`): the reader's task reads on, but after a Pending and after an
item only when it was woken; the writer's task polls a pending operation again
when it was woken. Neither is assumed to begin anything else. Then no writer
waits for ever (`WriterReleased`) and no item stays in the slot (`ItemLeaves`).

### IoBytesExchange

As `IoExchange`, with a chunk of bytes in the slot. A write takes its chunk
whole or not at all, a read takes up to its limit, so a chunk leaves in parts;
until the last of them the state keeps the pending flush or close. `ReadProbe`
(a limit of 0) and `WriteNothing` (an empty chunk) change nothing but the
waiting side's status. Bytes are numbered; `MaxBytes` and `MaxResets` bound
them and the resets.

`ByteStream` states the contract: the bytes come out in order, cut anyhow; losses,
flush, close and end are as in `Channel`. Fairness is that of the exchange, with a reader that asks for at least a byte.

### IoPort

`waits[r]` says where the consumer or the producer is left Pending: at the port,
or in the connected value. That value is external: it answers or keeps the
waker and calls it at any later moment, or never. The four forwarding traits
are one `Poll`, since they treat the port alike.

The names that begin with `Port`, and `wokenRoles`, leave the usual ones to
`WatchableValue`, so that one module, `ValueAndPortProofs`, extends both.

### AlarmClock

All calls take the clock's mutex, so each is one step; the list is the set of
its nodes (`linked`), which `IntrusiveList` justifies. `waits` and `woken` say
which tasks' last poll was Pending, and which were woken since that poll began;
dropping an alarm and making another acts on the clock as `set_alarm` does.

The code advances no time by itself. It expects a provider task that calls
`advance` with the time, then `external_poll_new_alarm` with the deadline that
`advance` returned, and sleeps until that deadline or until it is woken: this
order of calls (doc of `external_poll_new_alarm`, lines 313-324) is `pc`, and
external. Somebody else may advance the clock too (`OtherAdvance`), with a time
that may be stale.

An alarm that is polled between the provider's two calls finds the threshold
reset by `advance` (which resets it even when the time stays), and the waker of
an earlier registration, if one is left: then the provider is told. If none is
left, the alarm is below the deadline that the provider then registers, and
nobody is told; the doc says that `external_poll_new_alarm` does not look at
the alarms already set. `raced` records that this happened. The properties say
that nothing else makes the provider oversleep (`MissedOnlyInWindow`), and that
a provider which registers for any alarm before it calls `advance` is always
told (`ArmedNeverMisses`).

Fairness (`FairSpec`): the provider finishes what it began, and runs when it was
woken or its deadline has come. Alarms, other tasks and time are under no
fairness. `AlarmsRing` says that as long as no alarm is missed in that window,
a task that waits for a time that has come is woken.

### WatchableValue

All calls take the head's mutex, so each is one step. `linked` is the list;
`waker[w]` is the task whose waker the node keeps, because a watch can be moved
from one task to another, and `set_waker` must then replace the waker that is
there. `poller`, `seen`, `given` and `woken` are history variables: the code
keeps no version, and the point is that being linked is enough.

`ToldOfChange` says that the task that polled last is woken exactly when there
is a value the watch has not returned. `LatestValue` counts versions; the
watches implement it (`ImplementsLatestValue`): a poll is Ready exactly if there
was a `set` since the last, however many there were. The one fairness is that a
woken task polls again; then each watch sees the last value
(`EverySeesLatest`).

### IntrusiveList

`next` and `prev` are functions from nodes to pointers. Every operation holds
the head's mutex. A walk of `filter` and the unlinking of the head take a step
per node (`pc`, `pn`), with nothing in between; the other operations are one
step. `alive` holds the leaves whose memory is there; `New` and `Drop` reuse
the same places. `start` and `visited` are history variables of a walk.

`WellLinked` is local: neighbours point back, and none is gone. `Reachable` is
global: a set that contains the head and is closed under `next` contains every
linked node, so there is one ring. `VisitsEach` is about the walk. `Contents` is
the sequence of leaves that `next` leads through from the head and back
(`OnRing`); with it the ring implements `NodeList`, where a node enters at the
tail and the rest keep their order (`ImplementsList`).

### TokioPipe

`ReaderIoReader::con_poll_read` in one step, with its two halves: whether to
read more (`ReadAugment`: into the space left; `ReadRenew`: into a new buffer;
`ReadBuffered`: not at all), then what to answer (`Answer`: data up to the
limit, a probe, the end or an error once, Pending). `cur` is `cur_buf`, a
window on an allocation; a chunk that is answered is another window on the same
one (`split_to`), so that `heap` shows whether a recycled buffer is overwritten
under a reader (`NothingLost`). `bufs` and `nextIdx` are `CyclicBufProvider`,
which reclaims a buffer if nothing else refers to it (`Recyclable`). The task
holds at most `MaxHeld` chunks, writes them out through `WriterIoWriter` in any
portions, flushes, and closes the sink in the end. The AsyncRead, the AsyncWrite
and the allocator are external: the source gives any number of bytes that fit,
is pending, ends, or fails with an error of the system or one of another
adapter of the crate, which `IoError` boxes and must unpack.

`usize` is the integers up to `MaxUsize`, and the sum `half_buf + max_len` wraps
(`OverflowChecks = FALSE`) or panics (`TRUE`). `ReadStarved` and `ReadNoMemory`
are a provider without a buffer and an allocation of no capacity.

Fairness (`FairSpec`): the task reads when it was woken or after a probe, writes
what it holds and closes. The source is under no fairness: `PipeDrains` is about
what it gave and about an end that it came to.

### FizzBuzz

The three programs of `src/examples` with their 16 numbers, and three variants:
`by_mut` sets the input value through `as_mut`, which wakes before the value
changes; `split` has one task feed and another drain, which locking allows;
`wrapped` connects a `StreamIoStream` and a `SinkIoSink` whose Stream and Sink
are pending now and then, and fail. The variable `program` says which one runs.

A critical section is a thread's work on the objects (`user`), then the tick
(`tick`, `poll`) that dropping its guard performs. The task's steps are the
calls of its `wait_loop` closure: Again stays in the poll, Wait leaves it. Of the
machine there remains what one task needs, at a coarser grain than in
`ProcMachine`: its bit, the external waker, and the window of `external_poll`,
which the Stream and the Sink can hit (`raced`). The objects are those of the
other modules, restricted to the calls these programs make, and `registered` is
the set of `WakerRef`s that hold a waker, so that one operator, `Ring`, wakes
whoever is there.

`InOrder` is about the critical sections: the value read in the second section
of `minimal` is that of the first, and the driver of `sans_io` ends at its first
empty read. `EverythingPrinted` is about the wake-ups, end to end. Fairness
(`FairSpec`): threads finish their sections, the mutex is granted to whoever
keeps asking (strong fairness of `Lock`), an executor runs a task that was told,
the Stream and the Sink get ready some time.

## The runs

| Run | Instance | Distinct states | Result |
|---|---|---|---|
| `machine` | 2 users, external task, 2 tasks, 2 wakes | 118 k | holds |
| `machine_race` | 1 user, external task, 1 task, 1 wake | - | `PollerIsTold` is violated |
| `exchange` | 3 items, 2 resets | 3.9 k | holds |
| `bytes_exchange` | 4 bytes, 2 resets | 14 k | holds |
| `port` | 2 resets | 1.5 k | holds |
| `port_predrop` | no reset | - | `PredropTold` is violated |
| `alarm_clock` | 2 alarms, times 0 to 2 | 41 k | holds |
| `watchable` | 3 watches, 2 tasks, 4 values | 8.0 k | holds |
| `intrusive_list` | 4 leaves | 7.3 k | holds |
| `tokio_pipe` | 7 bytes, 2 buffers of 4 bytes, limits 0, 1, 2 and the largest, 3 chunks held | 120 k | holds |
| `tokio_overflow` | 4 bytes, overflow checks | - | `AnyLimitAnswered` is violated |
| `fizz_buzz` | 6 programs, 16 numbers | 3.8 k | holds |

What each shows is in `PROJECT.json`, with, for every property, a seeded fault
that it notices.

Why the bounds are enough. In the machine, two wakes are a wake from outside
that races a tick, and a wake of the same bit or one that makes the exchange of
another fail; two users and the external task give a holder, a waiter and a
waker, and a wake that is silenced by another's tick; two tasks give a wake
from within a tick of a task that comes earlier or later in the chain. In the
exchanges, three items fill the slot, follow it, and come after a reset, and
four bytes make a chunk that is read in parts and another that follows; two
resets separate what survives a reset from what survives two. With two alarms
and three times one alarm comes before, at or after the other, the clock and the
threshold. Three watches are one that is polled, one that is dropped and one
that is left alone by a walk; two tasks are needed for a watch that moves. Four
leaves give a walk a first, a last and two adjacent inner nodes. Seven bytes
fill one buffer of four and most of the next, so that a buffer is recycled or
found in use; the two buffers of the pool alternate, the third allocation shows
that one had to be replaced. The programs run with their own input.
All safety properties of the passing runs, `InOrder` of the example programs
among them, are also proved, for all values of the constants.

`IoPort.cfg` and `FizzBuzz.cfg` switch off the deadlock check: a dropped port has
no further step, and the programs come to an end.

## What the runs found

1. `machine_race`. `external_poll` ticks, releases the mutex and then registers
   its waker (`src/src/proc_machines.rs:722-731`). A wake from outside in between sets
   its bit and calls an empty `external_waker`; the poll answers Pending, and
   the external task sleeps over a pending wake. The same happens with the end
   of the machine. Its doc (lines 96-98) promises a notification.
   `StrandedOnlyByRace` shows that nothing else goes wrong: registering the
   waker before the tick would close the window.
2. `port_predrop`. `try_predrop` (and `drop_read` on a port without a
   connection) sets the flag and wakes nobody. A producer that was answered
   Pending is never woken: its poll would now be Ready, and `connect` is
   refused from then on. The doc of `IoPort` (lines 32-38) and the contract of
   `prod_poll*` (`src/src/io_sink.rs:46-47`) say it is woken.
3. `tokio_overflow`. `con_poll_read` adds the caller's limit to half of the
   buffer's size (`src/src/tokio_reader_writer.rs:121`): with a limit near
   `usize::MAX` this panics in a build with overflow checks. Without them the
   sum wraps and an optional read is skipped, which is harmless: `tokio_pipe`
   runs with it.

Seen on the way, and in no run:

- After `drop_read` has thrown away the item in flight, a flush is answered Ok
  (`src/src/io_exchange.rs:354`), though its contract (`src/src/io_sink.rs:86-89`)
  says that the reader has consumed the item. A send at the same point reports
  BrokenPipe. `Channel` and `ByteStream` therefore allow a confirmation after
  the reader has left.
- The doc of `ReaderIoReader` (`src/src/tokio_reader_writer.rs:49-50`) says that
  `drop_read` discards buffered data. The code (181-185) drops the reader and the
  pending error; the buffer stays until the adapter is dropped, out of reach.
  `NothingLost` follows the code and accounts for those bytes as buffered.
- `WriterIoWriter` passes on an AsyncWrite's `Ok(0)`; the contract
  (`src/src/io_writer.rs:55`) promises more than 0 for a chunk that is not empty.
- `poll_get_buf` has no Context, so a provider that answers Pending cannot
  register the task (`src/src/buf_provider.rs:14-25` asks for it): `ReadStarved`
  leaves the task without a waker, and `Registered` excludes it by name. The
  crate's own provider never answers Pending.
- A `CyclicBufProvider` of one buffer never recycles while the reader fills
  from it, because the reader still holds the buffer when it asks for the next.
- An allocation failure is answered as an error without waking the caller in
  advance, unlike an error of the source; the reader is unchanged.

## What is proved

All theorems hold for any number of tasks up to 30 (`get_multi_waker` panics on
the 31st: `NTasksAssumption`), any set of users (the external task is not one of
them, `ThreadsAssumption`) and any bounds (`MaxWakesAssumption`,
`BoundsAssumption`, `ResetsAssumption`), any number of alarms and times
(`TimeAssumption`), any finite set of leaves (`NodesAssumption`,
`FiniteLeaves`), any watches and tasks
(`WatchAssumption`), buffers, pools, limits and integers of any size
(`PipeAssumption`), and programs that count to any number (`LastAssumption`).

- **Lock discipline.** `LockInv`: a thread is inside exactly if it is the
  holder; `todo` and `running` are empty outside `poll` (the types, with
  `RunsInTurn`, keep the layer within the chain); a waker's frame exists
  only where a call may be made. Everything else rests on it (`LockDiscipline`).
- **Alive mask.** `AliveMaskExact` is not inductive: in the middle of a pass the
  mask is old. `FoldInv` says what has been folded by then: `kept` is the set of
  unfinished tasks below `layer`, hence of all when the last layer has returned.
- **Wakes.** `NoLostWake` is not inductive. `WakeInv` adds that `inner` is a
  part of `owed`, that the section is clean as soon as the tick is over, and
  that the flag is up only during the holder's tick. The exchange that ends a
  tick finds the mask equal to the bare flag and `todo` empty: by `NoLostWake`
  nothing live is owed, whence `SectionsDrain`.
- **Notifications.** `StrandedOnlyByRace` needs `NotifyInv`: a parked external
  task is registered or notified; a pending wake outside of a tick has a
  `MultiWake::wake` on its way to notify, or has been announced, or raced; the
  same for the end of the machine, which is announced after the release by a
  guard, but before it by `is_done`; and the builder finishes before the
  external task's first poll.
- **Refinement.** Under `LockInv` each step of the machine is a step of
  `TaskScheduler` or none: a wake is `Wake`, a swap may only `Forget` wakes of
  finished tasks, the beginning and the end of a poll are `Start` and `Stop`.
- **Exchange.** `SlotInv` (types, and state byte and slot agree) carries
  `Conserved`. For the wake-ups, `ReaderHeld` and `WriterHeld` say that a
  waiting side is registered or woken. `ClosedInv` ties `closed` to the state
  byte, and `AckedInv` says that an acknowledged slot (`EMPTY_FLUSHED`) was looked
  at since the last send or reset; with them each call is a step of `Channel` or none.
- **Byte exchange.** The same argument, with a `SlotInv` that knows the slot as
  the run of consecutive numbers between `taken` and `sent`; a partial read
  keeps it, and each call is a step of `ByteStream` or none.
- **Watches.** `ToldOfChange` is inductive with the link: a watch that was polled
  is linked exactly if it has seen the current version, and then its node holds
  its poller's waker. From this each call is a step of `LatestValue`.
- **Pipe.** `Registered`, `EndTruthful` and `ErrorSurvives`, with `PipeInv`: what
  `got_eof` holds is what the source ended with, and is held only while the
  reader is there; a reader that is gone told the task or was dropped by it; and
  the buffer's length is a natural number, so that a read that gave bytes is
  never answered Pending.
- **Pipe, the bytes.** `NothingLost` needs to know where the bytes lie and that
  nobody overwrites them. `StreamInv` says so with `Layout`, a predicate on the
  chunks, the buffer, the heap and two counts: every window lies inside of its
  allocation, and a chunk in the buffer's allocation lies before the buffer
  (`Apart`); some `p` gives the number of bytes before each window, and the
  windows hold the bytes after those (`Chain`). What a call does to memory is
  a lemma of its own: a read fills the free part (`FillKeeps`), a new buffer
  is one that no chunk lies in (`RenewKeeps`, `NextBufIsFree`), an answer splits
  (`SplitKeeps`), a write drops or trims the first chunk (`DropKeeps`,
  `TrimKeeps`). `FlattenRuns` is what `FlattenSeq` makes of such chunks. There is
  a free allocation whenever the task reads, by counting the handles
  (`SomethingFresh`). A closed sink has everything since a reader that is gone
  told the task, with an empty buffer (`Drained`, from `PipeInv`).
- **Pipe, the limit.** `AnyLimitAnswered` is violated with overflow checks
  (`tokio_overflow`); `SmallLimitsAnswered` proves it where half a buffer and the
  limit add up to a `usize`, and without the checks.
- **Port.** `ConnectTold` is inductive with the types; `EndIsFinal` needs that
  the report of the end implies the pre-drop flag until a reset.

- **Alarms.** `AlarmExact` is inductive with `Registered` once
  `WaitingLinked` says that a waiting task that was not woken is on the list.
  `MissedOnlyInWindow` needs the same for a provider that is still between its
  calls (`NoneEarlier`), what its threshold can be there (`ThresholdKnown`), and
  that a sleeping provider which was not woken has its waker in the clock.
  `ArmedHeld` says that of a provider that registered first.
- **Ring.** Reachability is stated over closed sets and is itself inductive: a
  set that is closed after a node was taken out (`StitchKeeps`) or put in
  (`LinkKeeps`) becomes one that was closed before, with or without that node.
  `WalkInv` says what lies behind a walk: the head and visited nodes, which lead
  only to each other and to `pn`. When `pn` is the head, they are a closed set,
  hence all.
- **List.** For `ImplementsList` the contents must exist and be the only ones
  (`RingListIs`). From the head `next` comes to no leaf twice (`OnRingOnce`), and
  two sequences on the ring agree as far as the shorter goes, where both are back
  at the head (`OnRingUnique`). Linking appends to the sequence (`LinkAppends`),
  unlinking removes one place (`StitchRemoves`), so that each operation is a step
  of `NodeList` or none (`ListStep`). `FiniteLeaves` bounds the sequences
  among which `Contents` chooses; a list of the code's memory is finite.

- **Programs.** `InOrder` needs an invariant for each kind of program; all say
  where the lines of the numbers so far are, where `Book(program, n)` is what
  the program prints for the first `n` numbers, chapter by chapter.
  `ValuedInv` (`minimal`, `by_mut`): the task's cell answers what the value asks,
  unless the task has been woken or is in its poll; a section that reads the answer
  is past its tick, so it reads the right one. `PortedInv` (`io`, `wrapped`): what is
  printed, followed by the words that the task still holds, is the book; a task
  that failed may have lost one. `ExchangedInv` (`sans_io`, `split`): printed
  lines, the word in the output, the words of the task and those of the number in the
  input are the book, in this order, and every step moves a line from one to the
  next (`Account`, `AccountKeeps`). That says nothing of an end that comes too
  early: the driver of `sans_io` ends at an empty output. `QuietInv` says that
  a section leaves the task waiting either for room, with a full output, or
  for a number, with no word in hand; so an empty output means that nothing is left.
  `BookGoesOn` makes every earlier book a prefix of the last one.

The library's induction rules take an operator as a parameter, which the provers
cannot instantiate. Where an argument goes along a sequence (`OnRingOnce`,
`OnRingUnique`, `FlattenRuns`, `FlattensExists`,
`FlattensUnique`, `BookGoesOn`), it takes the least element of the set of
counterexamples instead: the lemma `Least`, from the well-founded order of the
natural numbers.

Only model-checked are the liveness properties: fairness and ENABLED are out of the
proof system's reach.

## What is not modelled

- Memory: the lifetime extension of the IO struct, pinning, the Arc counts,
  unsafe pointer casts. Panics inside a task's poll or a waker.
- `Debug` and `Default` implementations, re-exports.
- The lock adapters of IoReader and IoWriter, and RefLockable and MutLockable:
  they take a lock, forward one call and keep nothing. The adapters of IoSink and
  IoStream, which do the same, are part of the steps of `FizzBuzz`.
- `prod_poll_ready` and `prod_poll_flush` of `SinkIoSink`, which forward to the
  Sink as its close does.
- The constant tables of IoError (names, texts, HTTP codes).
- A task that locks its own machine, or a waker that calls back into the object
  that calls it: both would deadlock or panic, and the crate does neither.
- Several machines. A port or an exchange between two machines looks to each of
  them like an object that is used from outside.
