----------------------------- MODULE MCProgress -----------------------------
(***************************************************************************)
(* One instance for the parts whose calls block: the backends on an        *)
(* executor (AsyncBackends), the OTLP exporters, the MDBX store, the       *)
(* Prometheus exporters, the crash handler and the MPSC executor, with     *)
(* the fairness of their modules.  A behaviour is about one of them,       *)
(* active; the others are not there.  The backends are there twice: over   *)
(* the deque of TaskExecutor and over its ring, whose sleeps are timed.    *)
(***************************************************************************)
EXTENDS AsyncBackends

CONSTANTS
    SinkCalls,                                                \* bound on the calls of all but AsyncBackends
    Sizes, MaxPayload, Queues, MaxInFlight,                   \* OtlpExport
    Shapes, MaxSequence, MaxQueue, ClearOptions, MaxOpens,    \* MdbxStore
    MaxBatch,                                                 \* both
    MaxClock,                                                 \* PrometheusExport
    Lengths, Capacities,                                      \* CrashRing
    Producer, Waiter, Executor, MaxTasks                      \* TaskExecutorMpsc

VARIABLES
    active,
    otlp, mdbx, prometheus, crash,
    m_mpsc_queue, m_stop_flag, m_resizing, m_max_queue_size, m_overflow_policy,
    m_dropped_tasks, m_active_tasks, m_active_producers, m_submitted_tasks,
    m_completed_tasks, m_completion_wait_mutex, m_completion_cv, m_resize_cv, task,
    drained_any, policy, target, pc, calls, resizes, accepted, finished, closing, seen

executorVars ==
    <<m_mpsc_queue, m_stop_flag, m_resizing, m_max_queue_size, m_overflow_policy,
      m_dropped_tasks, m_active_tasks, m_active_producers, m_submitted_tasks,
      m_completed_tasks, m_completion_wait_mutex, m_completion_cv, m_resize_cv, task,
      drained_any, policy, target, pc, calls, resizes, accepted, finished, closing, seen>>

O == INSTANCE OtlpExport WITH MaxCalls <- SinkCalls
M == INSTANCE MdbxStore WITH MaxCalls <- SinkCalls
P == INSTANCE PrometheusExport WITH MaxCalls <- SinkCalls
C == INSTANCE CrashRing WITH MaxCalls <- SinkCalls

\* A thread that adds tasks and one that waits; both may resize the ring and shut
\* the executor down, each at the cost of two tasks.  The new limit is not 1:
\* there a blocked producer that looks at m_active_tasks only while the worker
\* probes the empty ring tries again and again, and no lock or signal ends that.
E == INSTANCE TaskExecutorMpsc
    WITH Worker <- Executor, Producers <- {Producer}, WaitCallers <- {Waiter},
         Configurers <- {Producer, Waiter}, DefaultCap <- 2, Capacities <- {2},
         Policies <- {}, MaxResizes <- 1

TaskBound == calls' + 2 * (resizes' + (IF closing' THEN 1 ELSE 0)) <= MaxTasks

\* Asynchronous: the calls of a synchronous logger return at once.
SmallConfigs ==
    {[async |-> TRUE, own |-> FALSE, cap |-> 0, policy |-> "Block"],
     [async |-> TRUE, own |-> TRUE, cap |-> 1, policy |-> "Block"]}

SmallShapes == {[ts |-> 1, large |-> TRUE]}

Is(component) == active = component
Ring == Is("backend_ring")
Backend == Is("backend") \/ Ring
Unused == "unused"
Still(component, state) == IF Is(component) THEN TRUE ELSE UNCHANGED state

ProgressInit ==
    /\ active \in {"backend", "backend_ring", "otlp", "mdbx", "prometheus", "crash", "executor"}
    /\ IF Backend THEN Init /\ (Ring => lg.config.async /\ ~lg.config.own)
       ELSE /\ kind = Unused /\ lg = Unused /\ exec = Unused
            /\ th = Unused /\ info = Unused /\ h = Unused
    /\ IF Is("otlp") THEN O!Init ELSE otlp = Unused
    /\ IF Is("mdbx") THEN M!Init ELSE mdbx = Unused
    /\ IF Is("prometheus") THEN P!Init ELSE prometheus = Unused
    /\ IF Is("crash") THEN C!Init ELSE crash = Unused
    /\ E!Init

OthersStill ==
    /\ UNCHANGED active
    /\ (IF Backend THEN TRUE ELSE UNCHANGED vars) /\ Still("otlp", otlp) /\ Still("mdbx", mdbx)
    /\ Still("prometheus", prometheus) /\ Still("crash", crash)
    /\ Still("executor", executorVars)

ProgressNext ==
    /\ \/ Backend /\ Next
       \/ Is("otlp") /\ O!Next
       \/ Is("mdbx") /\ M!Next
       \/ Is("prometheus") /\ P!Next
       \/ Is("crash") /\ C!Next
       \/ Is("executor") /\ E!Next /\ TaskBound
    /\ OthersStill

all == <<active, vars, otlp, mdbx, prometheus, crash, executorVars>>

\* A thread goes on with its call, and the thread of the logger (the worker, the
\* HTTP server, the crash handler) with its work, in the active component.
ThreadStep(t) ==
    /\ \/ Backend /\ Continue(t)
       \/ Is("otlp") /\ O!Continue(t)
       \/ Is("mdbx") /\ M!Continue(t)
       \/ Is("prometheus") /\ (P!Step(t) \/ P!Body(t))
    /\ OthersStill

WorkerStep ==
    /\ \/ Is("otlp") /\ O!Work
       \/ Is("mdbx") /\ M!Work
       \/ Is("prometheus") /\ P!Step(P!Server)
       \/ Is("crash") /\ C!Dump
    /\ OthersStill

\* A worker that a client asleep on its condition variable may keep from its task.
Stalled(e) == exec[e].q # <<>> /\ exec[e].run = 0 /\ ~(Ring /\ e = 0) /\ MayMissWakeup(e)

\* The fairness of the active component, as in the Fairness of its module.
ProgressFairness ==
    /\ \A t \in Threads : WF_all(ThreadStep(t))
    /\ WF_all(WorkerStep)
    /\ \A e \in 0..MaxCalls + 1 : WF_vars(Backend /\ ~Stalled(e) /\ Work(e))
    /\ WF_otlp(Is("otlp") /\ O!on_response)
    /\ SF_executorVars(Is("executor") /\ E!worker_function)
    /\ \A t \in Threads : SF_executorVars(Is("executor") /\ E!ClientStep(t))

ProgressSpec == ProgressInit /\ [][ProgressNext]_all /\ ProgressFairness
-----------------------------------------------------------------------------
\* The thread is in a call that nothing excuses from returning.  Excused is a call
\* of a backend while the worker of an executor may have missed its wake-up
\* (Stalled), or while the count of pending records that get_last_log_file_name()
\* waits for is off because a record was dropped or the logs were cleared; and a
\* call of the MPSC executor that tested the barrier of a resize, or the stop flag,
\* before it changed and fell asleep after the notification.
InCall(t) ==
    CASE Backend -> /\ Calling(t) /\ \A e \in DOMAIN exec : ~Stalled(e)
                    /\ ~(th[t].pc = "get" /\ (h.dropped # {} \/ h.clears > 0))
      [] Is("otlp") -> otlp.at[t].pc # "idle"
      [] Is("mdbx") -> mdbx.mem.at[t].pc # "idle"
      [] Is("prometheus") -> prometheus.at[t].pc # "idle"
      [] Is("executor") -> /\ pc[t] # "idle"
                           /\ ~(pc[t] = "resize_asleep" /\ ~m_resizing)
                           /\ ~(pc[t] = "wait_asleep" /\ closing)
      [] OTHER -> FALSE

\* No two callers wait for each other and no wake-up but the excused ones gets lost:
\* a call of log(), wait(), clear_logs(), set_config() or shutdown() of any of these
\* loggers returns, and so does add_task(), wait(), shutdown() or a resize of the
\* MPSC executor.
EveryCallReturns == \A t \in Threads : InCall(t) ~> ~InCall(t)

\* What the thread of a logger has begun, or an executor has accepted.  Tasks that
\* are in the ring when shutdown() has ended the worker stay there.
Outstanding ==
    \/ Is("prometheus") /\ prometheus.at[P!Server].pc # "idle"
    \/ Is("crash") /\ crash.handler.pc \notin {"none", "exited"}
    \/ /\ Is("executor") /\ ~(closing /\ pc[Executor] = "exited")
       /\ \E i \in 1..accepted : i \notin finished

\* A scrape gets its answer, a crash handler that began ends the process
\* whatever the other threads do, and the MPSC executor executes every task it
\* accepted, over a resize too, until shutdown() has ended its worker.
OutstandingWorkEnds == Outstanding ~> ~Outstanding
=============================================================================
