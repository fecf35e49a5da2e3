# TLA+ specifications of log-it-cpp

log-it-cpp is a header-only logging library. A call-site macro builds a
`LogRecord`, the `Logger` singleton hands it to every registered backend, and
most backends format it at once and leave the writing to an executor, a queue
with one worker thread or to a worker of its own. What is hard in this code is
mostly concurrent: producers, workers, callers of `wait()`, `clear_logs()` and
`shutdown()`, threads that reconfigure a queue in use, a signal handler, a
compression thread, readers of files that are being rotated. These modules model
that part, and the sequential parts whose edge cases are many: the configuration,
the patterns, the text formats and the call-site macros. TLC checks them on small
instances, and TLAPS proves for every instance the safety properties of the parts
everything else rests on: the three executors, the ring, the registry, and the
backends that write through an executor.

Paths below are relative to `src/include/logit_cpp/logit/`.

## The parts of the system

| Part | State | Operations | Module |
|---|---|---|---|
| `detail/SingleThreadExecutor.hpp` | deque, mutex, one condition variable, stop flag, limit, policy, counters | `add_task`, `wait`, `shutdown`, setters, worker loop | `SingleThreadExecutor` |
| `detail/TaskExecutor.hpp`, deque build | the same, as a singleton | the same | `TaskExecutorDeque` |
| `detail/TaskExecutor.hpp`, `LOGIT_USE_MPSC_RING` | lock-free ring, completion tickets, resize barrier | the same, with a hot resize | `TaskExecutorMpsc` |
| `detail/MpscRingAny.hpp` | cells with sequence numbers, two positions | `try_push`, `try_pop`, `empty`, destructor | `MpscRing` |
| `Logger.hpp` | registry and its snapshot, a mutex and flags per strategy, shutdown flag | `add_logger`, `log`, setters, `wait`, `clear_*`, `shutdown` | `Logger` |
| `loggers/FileLogger.hpp`, `detail/CompressionWorker.hpp`: the directory | current file, rotated files, retention, compression queue | writing, rotation, retention, `clear_logs`, destructor | `FileRotation` |
| the same and `loggers/UniqueFileLogger.hpp`: reading back | files on disk, records still buffered | `list_log_files`, `read_log_files`, against writer and compressor | `LogFiles` |
| `ConsoleLogger`, `FileLogger`, `UniqueFileLogger`, `SyslogLogger`, `EventLogLogger`, `WindowsDebugLogger`: the calls | configuration, executor in use, lifecycle mutex or count of enqueuing calls, pending counts | `log`, `wait`, `set_config`, `set_queue_config`, `set_log_level`, `clear_logs`, `get_last_log_file_name`, `shutdown` | `AsyncBackends` |
| `loggers/OtlpHttpLogger.hpp`, `OtlpPayloadLogger.hpp`, `otlp/OtlpPayloadSplitter.hpp` | queue, batch, requests in flight | `log`, worker, responses, `wait`, `shutdown` | `OtlpExport` |
| `loggers/MdbxLogger.hpp` | queue; tables of records, payloads and sessions, which outlive the process | `log`, worker, `clear_logs`, reads, `wait`, `shutdown`, crash and reopening | `MdbxStore` |
| `loggers/MemoryLogger.hpp` | deque with limits on number, bytes, age; callbacks | `log`, eviction, `clear_logs`, reads, subscriptions | `MemoryBuffer` |
| `loggers/PrometheusPayloadLogger.hpp`, `PrometheusHttpServerLogger.hpp`, `prometheus/PrometheusLoggerMetrics.hpp` | counters, collection mutex, server thread | `log`, `wait`, scrape, `stop` | `PrometheusExport` |
| `prometheus/PrometheusRegistry.hpp`, `PrometheusTextSerializer.hpp` | registered metrics | `set_gauge`, `set_counter`, `collect`; the text | `PrometheusText` |
| `loggers/CrashPosixLogger.hpp`, `CrashWindowsLogger.hpp` | ring of bytes, two counters | `log`, signal handler or exception filter, dump | `CrashRing` |
| `log_macros.hpp`, `detail/LogContext.hpp`, `LogStream.hpp`, `ScopeTimer.hpp` | static variables of a site, MDC and NDC of a thread, open scopes | the macro families, guards, timers, streams | `CallSites` |
| `formatter/` | compiled instructions | `set_pattern`, `format` | `PatternFormat` |
| `configuration*.hpp` | document, plan, loggers, diagnostics | parse, materialize, instantiate | `Configuration` |

`PROJECT.json` lists all of them, with the hazards of each at the line where
they bite.

How they interact: `Logger::log()` reads an immutable snapshot of the registry,
checks shutdown flag, level and flags of each strategy, and calls the backend
under the strategy's `exec_mx` unless the backend allows concurrent dispatch. A
backend enqueues a closure in its `SingleThreadExecutor` or in the shared
`TaskExecutor`. `Logger::wait()` waits for every backend, which waits for its
executor. `Logger::shutdown()` shuts each backend down and joins its worker.

## The modules

```
FifoExecutor  <-- implemented by --  SingleThreadExecutor   (TLC and TLAPS)
              <-- implemented by --  TaskExecutorDeque      (TLC and TLAPS)
              <-- implemented by --  TaskExecutorMpsc       (TLC and TLAPS)
MpscQueue     <-- implemented by --  MpscRing               (TLC and TLAPS)
AsyncBackends, OtlpExport, MdbxStore, MemoryBuffer, PrometheusExport, CrashRing
              the backends; LogFiles, PrometheusText, CallSites, PatternFormat,
              Configuration, the data path; Callers, what these share
MCComponents  MpscRing and those eleven in one instance; MCProgress, the ones
              that block, and TaskExecutorMpsc, with fairness
MpscCells     the two-step cells that MpscQueue and TaskExecutorMpsc share
TicketQueue   tickets of a queue; TicketQueueTheorems, lemmas on them
Logger        the registry, over backends seen through ILogger
FileRotation  the files of FileLogger and CompressionWorker; MCFileRotation,
              the configurations it is checked with
SingleThreadExecutorProofs, TaskExecutorDequeProofs, TaskExecutorMpscProofs,
MpscRingProofs, LoggerProofs
              theorems on the module each is named after
AsyncBackendsInv, AsyncBackendsLemmas, AsyncBackendsProofs
              the inductive invariant of AsyncBackends, the lemmas, the theorems
```

A task is its *ticket*, the number of its acceptance: 1, 2, 3... What the
closure does is irrelevant; that it was accepted, evicted, started and finished
is kept in history variables (`accepted`, `evicted`, `finished`).

**FifoExecutor** is what every executor promises: an accepted task is started
at most once, oldest first and one at a time, or is evicted while pending, and
nothing is accepted after closing.

**SingleThreadExecutor** and **TaskExecutorDeque** take one step per critical
section. A condition variable is the set of threads asleep on it;
`notify_one()` removes an arbitrary one, `notify_all()` all. Where the code
notifies after it unlocks, the notification is a step of its own, so others
may run in between. A thread that is woken runs its predicate again as a
separate step, and any sleeper may wake spuriously. The two classes differ
where the source does: `TaskExecutor::wait()` also ends on shutdown, and
`set_max_queue_size()` does not notify.

**MpscRing** has one step per atomic access: load of a position, load of a
sequence number, compare-exchange (which may fail spuriously, being weak),
construction, publication. Its abstraction, **MpscQueue**, is a bounded queue
in which a push is two steps, claiming and publishing, and a pop sees only a
published head. **TaskExecutorMpsc** uses that abstraction, not the cells,
for its ring. There, a step is an access to an atomic or a critical section;
`add_task()` looks at `m_resizing`, registers in `m_active_producers`, looks
again, claims, publishes; the resize raises the barrier, waits for producers
and for idleness, stops the worker, replaces the ring and starts a new worker,
and may give up at either deadline. Sleeps on `m_cv` are timed in the code, so
they end at any moment; `m_resize_cv` and `m_completion_cv` are slept on without
timeout and are modelled as sets.

**Logger** gives every thread a stack of `log()` frames, because a callback may
log again. The shared mutex of the registry has readers and a writer, `exec_mx`
an owner per strategy. A backend is what `ILogger` lets the registry see:
synchronous, or with a queue and a worker; used concurrently or not; with a
subscriber that logs or not. The three sets `Concurrent`, `Async`, `Subscribed`
say which strategy is which. Levels are small numbers; formatting is left out.

**FileRotation** is the directory of a `FileLogger`: a function from the names
present to the records in them. A name is a day, the number or time a rotation
put after it with its index, and a suffix (plain, archive, temporary). What the
logger does it does under `m_mutex`, so there is one write at a time, in steps:
open the day's file, rotate (rename, re-open, hand over to compression), list
and then remove what retention finds too many, append the line and delete old
days. The compression thread does not take that mutex; its steps are the system
calls of `compress_file()`, and fall between those of a write. Opening,
renaming and compressing may fail. The day of a rotated name is that of the
record, the time of day that of the wall clock, so the two are chosen apart.

**AsyncBackends** has one variable `kind` for the six classes, since their calls
follow the same steps; where they differ (a lifecycle mutex held over blocking
calls, or the count of enqueuing calls in `ConsoleLogger`; pending counts per
thread in `UniqueFileLogger`) each has its action. Their executors are what
`FifoExecutor` promises, number 0 the shared one, and `set_config()` may retire
one and start another. A file that cannot be created is the fault; an event
source that could not be registered leaves a null handle and writes nothing.

**OtlpExport** and **MdbxStore** take one step per critical section; a thread
asleep on a condition variable is one whose `pc` says so. A batch is split
greedily into payloads, and a payload logger without a callback returns at once.
A post may fail at once or answer later, with success or
not, in any order with everything else. The tables of `MdbxStore` survive a crash
that may come at any step, the memory does not, and the next process opens what
it finds; a transaction that fails leaves no trace but a count. A payload that does
not compress is stored as it is, and counted too.

**MemoryBuffer** gives records the timestamp they had before the lock, so they
may be stored out of order. **PrometheusExport** reads the counters one by one.
**CrashRing** steps from one memory copy or atomic operation to the next, and the
dump, itself in parts, falls anywhere between. **LogFiles** separates the listing
from each opening. **CallSites** separates load and store of a static variable.

**Configuration** has three phases, from a JSON value to loggers. The last two go
through their loggers one by one, and at each ask the materializer, the resolver
or the factory: the built-in ones, or ones of the application, which may refuse
with or without a diagnostic, return an empty pointer, or throw out of the phase.
What the built-in ones accept, fill in and read are tables, written out because
the question is whether they agree.

**PatternFormat** and **PrometheusText** are functions with little state, written
as operators: a pattern to instructions to text; metrics to families to lines. Here
characters matter, so strings are sequences of them. Their properties compare with
a reference: the spelling of every instruction, a reader of the text.

`PROJECT.json` maps each definition to its lines. Definitions with a suffix
(`MustExit_Undrained`, `TooOld_Inclusive`...) stand before the one they
vary and describe a plausible slip in it; they are used by nothing, and show
that the named property would notice the slip.

### Assumptions of the models

- Atomics are sequentially consistent. The handshake of `m_resizing` and
  `m_active_producers` is written with acquire and release orders; what a
  weaker memory would add is not covered.
- Deadlines and timed sleeps end at any moment; the worker's batch budget may
  end a batch after any task.
- A task returns and does not throw. (`SingleThreadExecutor` catches; a throwing
  task of `TaskExecutor` ends the process.) A task does not itself call the
  executor's `shutdown()`.
- Callers of `SingleThreadExecutor::shutdown()` and of its setters follow one
  another, as the backends' lifecycle mutexes ensure.
- The HTTP client, the HTTP server, the database, the JSON parser and the platform
  logs are external. A request that was posted is answered or fails; a
  transaction is atomic; a server that is stopped ends its thread, also when it
  had not begun to serve.
- A callback of the user returns or throws; it does not call back into the logger
  that called it (except in `Logger`, where that is the question).
- Writing to an open file and removing one succeed, and nobody else uses the
  directory. In `FileRotation`, reading the source into the temporary file is one
  step.
- Every call of a producer, and in `Logger` every call, is counted against a
  bound, so "no one calls for ever" holds. Behaviours end in quiescence; this is
  why deadlock checking is off in every run. That threads do not get stuck is
  stated as a liveness property instead.

## The runs

The properties of a module are gathered in one invariant, `Safety`; its
conjuncts have names and comments of their own in the module.

| Run | Module | Shows |
|---|---|---|
| `ste` | `SingleThreadExecutor` | `Safety`: one fate for each task, a drained queue at exit; `NoSilentLoss`, `WaitContract`, `ImplementsFifoExecutor`; `Progress`: only a client asleep on the same condition variable can stall an accepted task, and `shutdown()` gets everyone out |
| `ted` | `TaskExecutorDeque` | the same for the deque `TaskExecutor`, and `NeverGrowsPastLimit` |
| `tem_safety` | `TaskExecutorMpsc` | `Safety`: completion tickets are exact, no producer is in the ring while it is replaced; `WaitContract`, `ImplementsFifoExecutor` across resizes |
| `logger` | `Logger` | `Safety`: a backend is used by one thread at a time and not after its shutdown, no registered logger escapes `shutdown()`; `WaitContract`; `CallsReturn` |
| `file_rotation` | `FileRotation` | `Safety`: the open file is the current day's and on disk, no temporary file is left; `RecordsAreKept`: a record is given up only after a failure, the compressor never removes the last copy; `Retention` keeps to its number and removes the oldest by name; `DestructorDrains` |
| `components` | `MCComponents` | the properties below, each on the instance of its component |
| `progress` | `MCProgress` | `EveryCallReturns`: nobody blocks for ever in a call of a backend, nor in the ring executor, but for the lost wake-ups named below; `OutstandingWorkEnds`: a scrape is answered, a crash handler ends the process, a task the ring executor accepted is executed, over a resize too, until `shutdown()` has ended the worker |

In `components` and `progress` a behaviour is about one component, chosen in the
initial state; the others do not exist in it. What passes between them in the
code each module has by contract (the executors, the size of a payload), so each
instance is explored completely on its own.

| Property of `components` | Says |
|---|---|
| `RingSafety`, `PushFailsOnlyWhenFull`, `ImplementsMpscQueue` | a cell of the ring is touched only by its owner and none outlives the ring; a push fails only when the ring is full (or its position is stale); the ring is a bounded queue |
| `BackendSafety`, `ProgramOrder` | every record is on its way, queued, or settled once, nothing is left in an executor after `shutdown()`; a thread's records are written in order over every `set_config()` |
| `WaitSettles` | when `wait()` of a backend returns, what was logged before is settled |
| `LastFileIsOwn` | `get_last_log_file_name()` names the file of the caller's last record |
| `OtlpSafety` | every record is in one place, counters and limits are exact, payloads are as full as allowed, `shutdown()` exports |
| `MdbxSafety` | no record is overwritten, by a restart or clear either; subscribers hear of committed records, once; references resolve; reads are exact; sessions end |
| `PrometheusSafety`, `TextSafety` | counters never go back and are current, failures are counted, no handler after `stop()`; the last registration wins, one throwing metric costs no other, the text reads back line by line whichever lines are switched on |
| `CrashSafety` | the ring holds the tail of the log, and the dump of a quiet process is that tail |
| `MemorySafety` | the byte count is exact, the longest tail within the limits is kept, reads are exact, subscribers hear once |
| `LogFilesSafety` | listings are newest first, their comparator a strict order, a read that reports success misses nothing unless a file was moved meanwhile |
| `ConfigurationSafety`, `PhasesAreTransactional` | what was accepted can be instantiated, defaults only fill in, diagnostics point into the document; a phase that fails at any logger, or is left by an exception, changes nothing the caller holds and says why, one that succeeds has dealt with every logger |
| `FormatSafety` | every instruction is what its spelling compiles to, also next to another and to malformed pieces; fields have their width, JSON reads back |
| `CallSiteSafety` | rate limits hold without a race and stay bounded with one, levels below the compiled one and macros of another system are silent, the NDC follows the scopes |

Five runs find that the code does not do what one of its comments or documents
says. Each has its counterexample from TLC and a finding in `PROJECT.json`.

| Run | What happens |
|---|---|
| `ste_wait_lost_wakeup` | `add_task()`'s `notify_one()` wakes a caller of `wait()`; the worker sleeps on with the task queued, and `wait()` does not return |
| `ted_unlimited_block` | a producer blocked when the limit becomes 0 compares with that 0 for ever |
| `tem_shutdown_loss` | the worker reads "empty", a task is pushed, `shutdown()` sets the flag, the worker reads it and leaves the task behind |
| `logger_callback_sync` | a callback called inside a backend's `log()` logs, and waits for the `exec_mx` its own thread holds |
| `file_archive_overwrite` | a rotated file is compressed, its sequence number is free again, the next rotation takes it, and its archive replaces the first |

`RecordsAreKept` and `Retention` except names that were given twice for the
reason of `file_archive_overwrite`: a number that compression or retention has
freed is used again, so numbers do not follow the order of rotation. `Retention`
allows for an archive published between listing and removal.

### What the properties except

Where the code promises less than one might expect, the property says so, and the
exception is the finding of the model:

- `OtlpHttpLogger::wait()` may return while the worker holds a batch it has taken
  from the queue and not yet posted (`OtlpHttpLogger.hpp:188`): `WaitSettles`
  excepts that batch.
- `ConsoleLogger::set_config()` does not drain the old executor before records go
  to the new one, so order and `wait()` are claimed only without it.
- `UniqueFileLogger` raises a thread's pending count before `add_task()`; after a
  dropped record or a `clear_logs()` the count does not return to zero and
  `get_last_log_file_name()` may wait for ever (`UniqueFileLogger.hpp:787`):
  `EveryCallReturns` excepts that call in those states.
- The lost wake-up of `ste_wait_lost_wakeup` reaches every backend whose calls
  sleep on the executor's condition variable: `wait()` of the syslog, event log
  and console loggers, which hold no lock that keeps other calls out, and any call
  on the shared deque executor. While a client sleeps there and the worker has
  a task it has not taken, `EveryCallReturns` claims nothing (`Stalled`).
- In the ring executor a resize opens its barrier (`TaskExecutor.hpp:389`) and
  `shutdown()` wakes the callers of `wait()` (`:325`) without the mutex under which
  these test: one that has tested and not yet slept misses it. `EveryCallReturns`
  excepts a producer asleep at a barrier that is open and a `wait()` asleep after
  `shutdown()`; `OutstandingWorkEnds` excepts the tasks of `tem_shutdown_loss`.
- A rotated file has the day of the last record and the time of the wall clock
  (`FileLogger.hpp:1073`). A late record after midnight, or a clock set back, makes
  a name that sorts before older files, and retention removes the newest file
  first. `Retention` excepts a file named with an earlier time than one before it.
- `MdbxLogger::clear_logs()` resets the sequence numbers after its transaction
  (`MdbxLogger.hpp:493`). A record committed in between has the old next number and
  is read after later ones of the same timestamp: `MdbxSafety` excepts such records,
  and stores in which a write failed, from the order of reading.
- `MemoryLogger::read_range()` gives the order of storage, which differs from that
  of timestamps when threads race (`MemoryLogger.hpp:185`).
- Two threads in one `LOGIT_ONCE` site may both log, though the project's README.md:944
  says "Log only the first time the macro is executed": with a race the bound is
  one record for each thread, and the exact rates are claimed without one. A first `LOGIT_THROTTLE`
  within a period of the clock's zero does not log; the counter of
  `LOGIT_EVERY_N` wraps at the width of `unsigned`.
- Stream and raw macros, and before C++17 the rate-limited ones, are not compiled
  out by `LOGIT_COMPILED_LEVEL`.
- `compile()` drops what it cannot read: a `%` at the end with its flags, an `N`
  without `(`, the `N(` of a group that is not closed, and the flags of an unknown
  specifier, of `%%` and of a colour (`PatternCompiler.hpp:566`, `:717`, `:730`).
  `FormatSafety` says that this and nothing else is lost.
- An integer of a configuration that does not fit the type it is cast to becomes
  another number; `PhasesAreTransactional` excepts it.
- The base file of a past day is listed after that day's rotated files, although
  it is the newest (`FileLogger.hpp:376`); a read misses the records of a file
  that is rotated between listing and reading.
- Of `ESC ESC [ m [` the stripping of escape codes leaves a new escape code:
  `FormatSafety` excepts texts that double the escape character.

### Bounds

`MaxTasks = 3` with capacities 0, 1 and 2 reaches a full queue, an eviction, a
limit lowered below the length, and two producers woken for one place; one of
three threads also waits and another reconfigures and shuts down. In the ring,
capacity 1 is rounded to 2, and two producers with three pushes each lap it
three times. `TaskExecutorMpsc` resizes once, down or up, with two
producers. `Logger` has two strategies (one asynchronous, one concurrent), two
threads and four calls, enough for a registration, a record, and two
calls that race. `FileRotation` has two days in either order, files of at most 2
bytes with lines of 1 and 3 (three lines rotate twice, also an empty file, and
one line exceeds the limit), two times of day at which any rotation may find the
clock, one `clear_logs()` and one failure at any place,
in three configurations: times with a limit, synchronous compression
without one, and asynchronous compression racing a limit of 1.

In `components` two interchangeable threads make three calls between them, with
one failure: enough for a call that races a `set_config()` or `shutdown()` while
a third is queued. Queues hold one or two, so producers block and records drop;
a batch is two records, a payload two bytes with records of 1 and 3, one request
is in flight. The store has four calls, of which a failure and a second opening
each cost one (a record after `clear_logs()` is overtaken by a later one only with
four), and a timestamp has two sequence numbers, so they run out. The crash ring
sees two calls and has 1 or 4 bytes for messages of 1 and 5,
so messages are cut, wrap around its end and overtake each other. The memory buffer has limits of two
records, two bytes and an age of 1 on a clock of 3. Log files have two days, two
records, four files and two reads. Patterns are all sequences of two of the
pieces in `MCComponents` and a last one that may close them, and JSON documents every field of every backend with
every kind of value, in a build with no optional feature and one with all; pairs
of loggers meet a materializer, resolver and factory of the application. A call
site has the compiled level or the one below it, in a C++17 build elsewhere and an
earlier one on Windows. All this is about 0.8 million distinct states.

`progress` has the backends twice, over the deque and over the ring of
`TaskExecutor`, with the two asynchronous configurations (the calls of a synchronous
one return at once), and uses two calls for the backends with workers of their own.
The ring executor has three tasks, of which a resize and a shutdown each cost two.
Its limit is 2 before and after the resize, because with 1 the run finds a
livelock: a blocked producer whose every look at `m_active_tasks` falls into a probe
of the empty ring by the worker tries again for ever. No fair scheduler is obliged
to end that, and none keeps such a rhythm; the claim is not made for it.

### Fairness

Deque executors and `Logger`: weak fairness of each thread's next step inside a
call and of the worker, that is, the scheduler runs what can run, a lock that
stays free is obtained, and tasks return. Calls are never obliged to happen and
spurious wake-ups never promised. `FileRotation`: weak fairness of the write or
destructor that was begun and of the compression thread. `progress`: weak fairness
of each thread inside a call, of the workers, the server thread, the crash handler
once it runs, and the responses of posted requests. A worker of an executor is not
promised to take a task while a client sleeps on the condition variable they share,
since the notification may have gone to that client; on the ring, whose worker
sleeps with a timeout, it is. Nothing obliges a client to
call, a scrape to come or a process to crash. `TaskExecutorMpsc` needs strong
fairness: its waiters and worker contend for `m_completion_wait_mutex`, and one
that finds it free again and again is assumed to get it in the end.

## The proofs

Each theorem holds for any threads, capacities, policies and number of calls. The
assumptions are the named ones on the constants, in the module that declares them
(`ConstantsAssumption`, `LoggerAssumption`, `BackendAssumption`...): roles are
sets of threads, the worker and the value "none" are not among them, sizes are
naturals, and where the code counts threads there are finitely many.

| Module | Theorems |
|---|---|
| `SingleThreadExecutorProofs` | `TypeCorrect`, `TasksHaveOneFate`, `FifoExecution`, `ShutdownDrains`, `SafetyHolds`, `WaitKeepsItsPromise`, `NothingIsLostSilently`, `Refinement` of `FifoExecutor` |
| `TaskExecutorDequeProofs` | `Refinement`, `FatesAndOrder`, `TasksHaveOneFate`, `SafetyHolds`, `WaitKeepsItsPromise`, `LimitRespected` |
| `TaskExecutorMpscProofs` | `SafetyHolds`, `TasksHaveOneFate`, `WaitKeepsItsPromise`, `Refinement` of `FifoExecutor`, across resizes |
| `MpscRingProofs` | `RingIsSafe`, `PushFailsOnlyWhenFullHolds`, `Refinement` of `MpscQueue` |
| `LoggerProofs` | `SafetyHolds`, `WaitKeepsItsPromise` |
| `AsyncBackendsProofs` | `BackendSafetyHolds`, `RecordsKeepOrder`, `WaitSettlesRecords` |

Each module also has `Invariance`, that its inductive invariant `IInv` holds. What
these invariants say, and why they are needed:

**SingleThreadExecutor.** `IInv == TypeOK /\ WorkerInv /\ OneFate /\
InAcceptanceOrder /\ TargetInv`. `OneFate` and `InAcceptanceOrder` are not
inductive alone. That the worker holds
no second task when it pops depends on where it is, so `WorkerInv` ties `task`
and `m_active_tasks` to the worker's location, and says that it exits with an
empty deque. `WaitContract` needs that a waiter's target was accepted
(`TargetInv`): then an empty deque and no active task put every ticket up to the
target among the settled. The steps are sorted once into those that push, pop,
evict, finish or leave the tasks alone (`TaskStep`); each kind has a lemma
that it keeps the invariant, resting on three lemmas about deques of tickets in
`TicketQueueTheorems`. The refinement uses the same classification.
`NothingIsLostSilently` is proved from `LossInv`, which adds that only producers
block, with the cardinalities of the evicted tasks and of the blocked threads.

**TaskExecutorDeque.** The argument goes through the abstraction. `IInv == TypeOK
/\ WorkerInv /\ QueueInv /\ TargetInv` only says that the deque holds accepted
tickets in increasing order (`QueueInv`), and is enough for the refinement: every
step is a push, an eviction, a pop, an end of a task, a closing, or leaves the
tasks alone. That every task has one fate follows from the abstract specification
(`FatesAndOrder`) and is inherited. With it, an empty deque and an idle worker
mean that all accepted tasks are settled (`EmptyMeansSettled`), which gives
`SafetyHolds` and `WaitKeepsItsPromise`.

**MpscRing.** The invariant follows a position through its lap. Positions are at
most the capacity apart (`PositionInv`), so two positions in use never share a
cell; the cell's sequence number says whether its position is free, claimed or
published (`SeqInv`), the storage is filled accordingly (`StorageInv`), and every
claimed position has one owner, the producer between its compare-exchange and its
publication (`OwnerInv`). A stale local position is below `m_enqueue_pos`
(`LocalPosInv`), so its compare-exchange fails. The arithmetic of laps (two
positions with one cell differ by a multiple of the capacity) is a group of lemmas.
`MaxPushes` bounds the calls only.

**TaskExecutorMpsc.** What `Safety` says of counters is not inductive. That a resize
may throw the old ring away needs the chain behind its barrier (`ResizeInv`): one
lifecycle operation at a time, `m_resizing` raised throughout, and from the end of
the drain on as many completions as submissions, which leaves the ring empty by
`CompletionAccounting`. `m_active_producers` and the submissions not yet completed
are counted by how many threads are at certain steps. `OneFate` and
`InAcceptanceOrder` are as for the deques, over the tickets in the ring.

**Logger.** `IInv == TypeOK /\ ActorInv /\ RegistryInv /\ ShutdownInv /\ AccountInv
/\ WaitInv`. A backend is used by one thread at a time because every frame of
`log()` that is at a strategy holds its `exec_mx`, nested frames included
(`HoldOk`); not after its shutdown, because `m_shutdown` was looked at under that
mutex (`UseOk`). `shutdown()` misses no logger because `add_logger()` holds the
writer lock from its second look to the publication (`RegistryInv`,
`ShutdownInv`). `wait()` may go on when a queue is empty because a backend has
handled or queued what it was given (`AccountInv`, `WaitInv`).

**AsyncBackends.** `IInv == CallInv /\ CountInv`, in `AsyncBackendsInv`. Every
record has one place (`PlaceInv`): with its `log()` call, in a queue, under a
worker, or settled. That is enough for "never twice, never lost", also for a
`ConsoleLogger` that changes executors without draining. The order of a thread's
records (`OrderInv`) and `wait()` need that, where the logger drains before it
switches, at most one executor has work (`HomeInv`). The classes with a lifecycle
mutex keep that because whoever switches holds the mutex while it drains
(`LockInv`); `ConsoleLogger` has only the count of enqueuing calls, so `CountInv`
says that it is the number of threads at the steps in question, and bounds the
executors made by the calls that configured. `QuietInv` says that one call does the work of `shutdown()`, and
that past its wait nobody enqueues; `SeenInv`, that what a waiter saw is in an
executor or settled. The lemmas treat kinds of steps (a record is handed over,
taken, settled, or none moves), and each action is shown to be of a kind.

### Only model-checked

- All liveness (`Progress`, `CallsReturn`, `EveryCallReturns`,
  `OutstandingWorkEnds`, `DestructorDrains`): fairness is out of the prover's
  reach.
- `LastFileIsOwn`: it needs, for every thread, which of its records has reached a file,
  and the invariant of the backends does not carry that.
- `FileRotation`: its properties compare the contents of files over their whole
  history, and names are chosen by searching the directory.
- `OtlpExport`, `MdbxStore`, `MemoryBuffer`, `PrometheusExport`, `CrashRing`,
  `LogFiles`, `Configuration`, `PatternFormat`, `PrometheusText`, `CallSites`:
  many of them fold over sequences or use recursive operators (splitting a batch,
  evicting, compiling a pattern), and what those compute needs induction over
  data, which the prover cannot do; the others are small and explored completely.

## Not modelled

- The executors of the single-threaded Emscripten build, and the Emscripten branch
  of `ConsoleLogger::log()`: one thread, and an event loop outside the repository.
- Memory orders weaker than sequential consistency, and what a data race does
  beyond reordering whole accesses: the map of sequence numbers that
  `MdbxLogger::clear_logs()` resets under another mutex than its users hold (the
  reset itself is a step).
- `PrometheusHttpServerLogger::start()` called by two threads at once, or stopped
  before its thread serves: it depends on the server library.
- The text of OTLP payloads, of numbers and of dates; `set_timestamp_offset()`;
  which stream and colour a console message gets; path, tag and encoding helpers.
  They have no state, or none that another part reads.
- The external compression command, whose effect on the files is unknown; a task of
  `TaskExecutor` that throws, which ends the process; positions of the ring beyond
  the width of `size_t`.
- Macros that only call another component (adding a logger, setting a level).

## Running

    tlc -config STE.cfg SingleThreadExecutor      # and so on: PROJECT.json, "runs"
    tlc -config Components.cfg MCComponents
    tlapm SingleThreadExecutorProofs.tla          # and so on: every module of the table above,
                                                  # TicketQueueTheorems, AsyncBackendsLemmas
