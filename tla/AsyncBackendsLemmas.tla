------------------------ MODULE AsyncBackendsLemmas -------------------------
(***************************************************************************)
(* Lemmas about the backends on an executor: what the invariant says of a  *)
(* state, and which steps keep it.                                         *)
(*                                                                         *)
(* A step is described by what it does to the records (it settles one,     *)
(* hands one over, takes or finishes a task, or moves none) and by what it *)
(* does to the calls (it is calm: it leaves the executor in use alone).    *)
(* The lemmas on updates give the fields of the records after a step.  The *)
(* calls that only wait come last; the other calls and the theorems are in *)
(* AsyncBackendsProofs.                                                    *)
(***************************************************************************)
EXTENDS AsyncBackendsInv, TLAPS

\* The prover of the steps that name none.
USE ZenonT(60)
-----------------------------------------------------------------------------
(* What the invariant says of a state *)

\* The queues in terms of their types.
LEMMA QueueTypes ==
    ASSUME Types
    PROVE  QueuesTyped
<1> USE DEF QueuesTyped
<1>1. /\ h.written \in Seq(Nat) /\ h.by \in Seq(Threads)
      /\ h.dropped \subseteq Nat /\ h.filtered \subseteq Nat
  BY SMTT(60) DEF Types, HistoryTypes, History
<1>2. Len(h.by) \in Nat /\ DOMAIN h.by = 1..Len(h.by)
  BY <1>1, SMTT(60)
<1>3. \A e \in Executors : exec[e].q \in Seq(Nat) /\ exec[e].run \in Nat
  BY SMTT(60) DEF Types, ExecutorTypes
<1>4. Ids \subseteq Nat /\ 0 \notin Ids
  BY <1>2, SMTT(60) DEF Ids
<1> QED BY <1>1, <1>2, <1>3, <1>4 DEF Ids

\* Numbers have their types.
LEMMA NumberTypes ==
    ASSUME Types
    PROVE  NumbersTyped
<1> USE DEF NumbersTyped
<1>1. MaxCalls \in Nat
  BY BackendAssumption
<1>2. lg.pending \in Int /\ lg.made \in Nat /\ lg.executor \in Executors
  BY SMTT(60) DEF Types, LoggerTypes, Fields
<1>3. h.configs \in Nat /\ h.calls \in Nat
  BY SMTT(60) DEF Types, HistoryTypes, History
<1>4. \A e \in Executors : e \in Nat
  BY <1>1, SMTT(60) DEF Executors
<1> QED BY <1>1, <1>2, <1>3, <1>4

\* What holds when the logger has been constructed.
LEMMA Constructed ==
    ASSUME Init
    PROVE  /\ CallInv /\ lg.made = 1 /\ lg.pending = 0 /\ h.configs = 0
           /\ At(Enqueuing) = {} /\ At(Configuring) = {}
<1>1. PICK c \in Configs, hsrc \in BOOLEAN :
        /\ lg = [config |-> c, executor |-> IF c.async /\ c.own THEN 1 ELSE 0, made |-> 1,
                 shutdown |-> FALSE, lifecycle |-> None, pending |-> 0, level |-> 0,
                 hsrc |-> hsrc]
        /\ exec = [e \in 0..MaxCalls + 1 |-> IF e = 1 THEN NewExecutor(c) ELSE Shared]
  BY DEF Init
<1>2. c \in Config /\ Resting.config \in Config /\ MaxCalls \in Nat
  BY BackendAssumption DEF Resting
<1>3. /\ kind \in Kinds /\ th = [t \in Threads |-> Resting] /\ info = [t \in Threads |-> NoInfo]
      /\ h = [calls |-> 0, by |-> <<>>, level |-> <<>>, written |-> <<>>, dropped |-> {},
              filtered |-> {}, files |-> {}, faults |-> 0, configs |-> 0, clears |-> 0,
              down |-> FALSE]
  BY DEF Init
<1>4. 0 \in Executors /\ 1 \in Executors /\ 0 \in Nat /\ 1 \in Nat /\ 0 \in Int /\ Absent \in Int
  BY <1>2, SMTT(60) DEF Executors, Absent
<1>5. LoggerTypes
  <2>1. (IF c.async /\ c.own THEN 1 ELSE 0) \in Executors
    BY <1>4
  <2> QED BY <1>1, <1>2, <1>3, <1>4, <2>1 DEF LoggerTypes, Fields
<1>6. /\ ExecutorTypes /\ \A e \in Executors : exec[e].q = <<>> /\ exec[e].run = 0
  <2>1. c.cap \in Nat /\ c.policy \in Policies /\ "Block" \in Policies /\ <<>> \in Seq(Nat)
    BY <1>2, SMTT(60) DEF Config, Policies
  <2>2. \A e \in Executors : exec[e] = NewExecutor(c) \/ exec[e] = Shared
    BY <1>1 DEF Executors
  <2>3. /\ NewExecutor(c) \in
              [q : Seq(Nat), run : Nat, stop : BOOLEAN, cap : Nat, policy : Policies]
        /\ Shared \in [q : Seq(Nat), run : Nat, stop : BOOLEAN, cap : Nat, policy : Policies]
        /\ NewExecutor(c).q = <<>> /\ Shared.q = <<>> /\ NewExecutor(c).run = 0 /\ Shared.run = 0
    BY <1>4, <2>1 DEF NewExecutor, Shared
  <2>4. exec = [e \in Executors |-> IF e = 1 THEN NewExecutor(c) ELSE Shared]
    BY <1>1 DEF Executors
  <2>5. ExecutorTypes
    BY <2>3, <2>4 DEF ExecutorTypes
  <2> QED BY <2>2, <2>3, <2>5
<1>7. /\ ThreadTypes /\ \A t \in Threads : th[t].pc = "idle" /\ th[t].seen = {}
  <2>1. Resting \in Locals /\ Resting.pc = "idle" /\ Resting.seen = {}
    BY <1>2, <1>4 DEF Resting, Locals, Locations
  <2> QED BY <1>3, <2>1 DEF ThreadTypes
<1>8. InfoTypes /\ HistoryTypes
  <2>1. <<>> \in Seq(Nat) /\ <<>> \in Seq(Threads)
    BY SMTT(60)
  <2>2. InfoTypes
    BY <1>3, <1>4 DEF InfoTypes, NoInfo
  <2>3. HistoryTypes
    BY <1>3, <1>4, <2>1 DEF HistoryTypes, History
  <2> QED BY <2>2, <2>3
<1>9. Types
  BY <1>5, <1>6, <1>7, <1>8 DEF Types
<1>10. /\ \A S : "idle" \notin S => At(S) = {}
       /\ Holders = {}
  BY <1>7 DEF At, Holders
<1>11. /\ DOMAIN h.written = {} /\ DOMAIN h.by = {} /\ Ids = {}
       /\ \A e \in Executors : DOMAIN exec[e].q = {}
  BY <1>3, <1>6, SMTT(60) DEF Ids
<1>12. Written = {} /\ Settled = {} /\ \A e \in Executors : Live(e) = {} /\ Elements(exec[e].q) = {}
  BY <1>3, <1>6, <1>11 DEF Written, Elements, Settled, Live
<1>13. PlaceInv
  BY <1>10, <1>11, <1>12 DEF PlaceInv, ExecutorOk, Distinct
<1>14. OrderInv
  BY <1>11, <1>12, <1>6 DEF OrderInv, Ordered, Before
<1>15. LockInv /\ SeenInv
  BY <1>7 DEF LockInv, LockOk, SeenInv, SeenOk
<1>16. BoundInv
  <2>1. lg.made = 1 /\ (lg.executor = 0 \/ lg.executor = 1) /\ h.configs = 0 /\ h.calls = 0
    BY <1>1, <1>3
  <2> QED BY <1>2, <2>1, SMTT(60) DEF BoundInv
<1>17. HomeInv
  <2>1. lg.executor = Home \/ kind # "console"
    BY <1>1 DEF Home
  <2>2. lg.executor = Home
    BY <2>1 DEF Home
  <2> QED BY <1>6, <1>7, <2>2 DEF HomeInv, AllIdle, Idle, TargetOk
<1>18. QuietInv
  <2>1. h.down = FALSE
    BY <1>3
  <2>2. At({"quiesce", "stop", "down"}) = {} /\ At({"stop", "down"}) = {}
    BY <1>10
  <2> QED BY <2>1, <2>2 DEF QuietInv
<1>19. lg.made = 1 /\ lg.pending = 0 /\ h.configs = 0
  BY <1>1, <1>3
<1>20. At(Enqueuing) = {} /\ At(Configuring) = {}
  BY <1>10 DEF Enqueuing, Configuring
<1> QED BY <1>9, <1>13, <1>14, <1>15, <1>16, <1>17, <1>18, <1>19, <1>20 DEF CallInv

\* Nothing changes in a step that changes no variable.
LEMMA StutterStep ==
    ASSUME IInv, UNCHANGED vars
    PROVE  IInv'
<1>1. kind' = kind /\ lg' = lg /\ exec' = exec /\ th' = th /\ info' = info /\ h' = h
  BY DEF vars
<1> USE <1>1
<1>2. /\ Holders' = Holders /\ Ids' = Ids /\ Written' = Written /\ Settled' = Settled
      /\ Home' = Home /\ WaitTarget' = WaitTarget /\ (Locked' <=> Locked)
      /\ (Draining' <=> Draining)
      /\ \A S : At(S)' = At(S)
      /\ \A e \in Executors : Live(e)' = Live(e) /\ (Idle(e)' <=> Idle(e))
  BY DEF Holders, At, Ids, Written, Settled, Home, WaitTarget, Locked, Draining, Live, Idle,
     Elements
<1> USE <1>2
<1>3. Types'
  BY DEF IInv, CallInv, Types, LoggerTypes, ExecutorTypes, ThreadTypes, InfoTypes, HistoryTypes,
     Resting
<1>4. PlaceInv'
  <2>1. PlaceInv
    BY DEF IInv, CallInv
  <2>2. \A e \in Executors : ExecutorOk(e)'
    BY <2>1 DEF PlaceInv, ExecutorOk
  <2>3. \A t \in Holders : HolderOk(t)'
    BY <2>1 DEF PlaceInv, HolderOk
  <2>4. /\ Written' \subseteq Ids' /\ Distinct(h'.written)
        /\ \A e, f \in Executors : e # f => Live(e)' \cap Live(f)' = {}
    BY <2>1 DEF PlaceInv
  <2>5. \A r \in Ids' : \/ \E t \in Holders' : th'[t].r = r
                        \/ \E e \in Executors : r \in Live(e)'
                        \/ r \in Settled'
    <3> SUFFICES ASSUME NEW r \in Ids
                 PROVE  \/ \E t \in Holders : th[t].r = r
                        \/ \E e \in Executors : r \in Live(e)
                        \/ r \in Settled
      BY SMTT(60)
    <3> QED BY <2>1 DEF PlaceInv
  <2> QED BY <2>2, <2>3, <2>4, <2>5 DEF PlaceInv
<1>5. OrderInv'
  BY DEF IInv, CallInv, OrderInv
<1>6. LockInv' /\ BoundInv'
  BY DEF IInv, CallInv, LockInv, LockOk, BoundInv
<1>7. HomeInv'
  BY DEF IInv, CallInv, HomeInv, TargetOk, AllIdle
<1>8. QuietInv' /\ CountInv'
  BY DEF IInv, CallInv, QuietInv, CountInv
<1>9. SeenInv'
  BY DEF IInv, CallInv, SeenInv, SeenOk, Placed
<1> QED BY <1>3, <1>4, <1>5, <1>6, <1>7, <1>8, <1>9 DEF IInv, CallInv

\* The invariant says that every record is accounted for.
LEMMA SafeState ==
    ASSUME CallInv, lg.pending \in Nat
    PROVE  BackendSafety
<1>1. Types /\ PlaceInv /\ HomeInv /\ QuietInv
  BY DEF CallInv
<1> USE <1>1
<1>2. DOMAIN exec = Executors
  BY DEF Types, ExecutorTypes
<1> USE <1>2
<1>3. TypeOK
  <2>1. /\ kind \in Kinds /\ lg.config \in Config /\ lg.executor \in DOMAIN exec
        /\ lg.lifecycle \in Threads \cup {None}
    BY DEF Types, LoggerTypes, Fields
  <2>2. ASSUME NEW e \in Executors PROVE exec[e].q \in Seq(Ids) /\ exec[e].run \in Ids \cup {0}
    <3>1. exec[e].q \in Seq(Nat)
      BY QueueTypes DEF QueuesTyped
    <3>2. Live(e) \subseteq Ids
      BY DEF PlaceInv, ExecutorOk
    <3>3. \A i \in DOMAIN exec[e].q : exec[e].q[i] \in Ids
      BY <3>2 DEF Live, Elements
    <3>4. exec[e].q \in Seq(Ids)
      BY <3>1, <3>3, SMTT(60)
    <3> QED BY <3>2, <3>4 DEF Live
  <2>3. \A t \in Threads : info[t].pending_logs \in Int /\ th[t].e \in DOMAIN exec \cup {Sync}
    BY DEF Types, InfoTypes, ThreadTypes, Locals
  <2> QED BY <2>1, <2>2, <2>3 DEF TypeOK
<1>4. RecordsAccounted
  <2>1. \A t \in Holders : th[t].r \in Entering
    BY DEF Holders, At, Entering
  <2>2. \A e \in Executors : Live(e) \subseteq Queued
    <3> SUFFICES ASSUME NEW e \in DOMAIN exec, NEW r \in Live(e) PROVE r \in Queued
      OBVIOUS
    <3>1. r \in Elements(exec[e].q) \cup {exec[e].run}
      BY DEF Live
    <3> QED BY <3>1 DEF Queued, Elements
  <2>3. \A r \in Ids : r \in Entering \cup Queued \cup Settled
    BY <2>1, <2>2 DEF PlaceInv
  <2> QED BY <2>3 DEF PlaceInv, Distinct, RecordsAccounted
<1>5. ShutdownQuiesces
  <2> SUFFICES ASSUME Draining, h.down PROVE Queued \subseteq {0} /\ Entering = {}
    BY DEF ShutdownQuiesces
  <2>1. \A e \in Executors : exec[e].q = <<>> /\ exec[e].run = 0
    BY DEF HomeInv, AllIdle, Idle
  <2>2. \A e \in Executors : DOMAIN exec[e].q = {} /\ exec[e].run = 0
    BY <2>1, SMTT(60)
  <2>3. Queued \subseteq {0}
    BY <2>2 DEF Queued
  <2>4. At({"add", "enqueue", "finish"}) = {}
    BY DEF QuietInv
  <2>5. Entering = {}
    BY <2>4 DEF Entering, At
  <2> QED BY <2>3, <2>5
<1> QED BY <1>3, <1>4, <1>5 DEF BackendSafety

\* The order of the records that have been written is part of the invariant.
LEMMA OrderedState == CallInv => ProgramOrder
  BY DEF CallInv, OrderInv, Ordered, ProgramOrder

\* A call that begins was not waiting.
LEMMA BeginsIdle ==
    ASSUME NEW t \in Threads, Begin(t)
    PROVE  Call(t)
<1>1. CASE log(t)
  BY <1>1 DEF log, ConsoleLogger_log, FileLogger_log, UniqueFileLogger_log, SyslogLogger_log,
     EventLogLogger_log, WindowsDebugLogger_log, LockedLog, Enter
<1>2. CASE wait(t)
  BY <1>2 DEF wait, ConsoleLogger_wait, FileLogger_wait, UniqueFileLogger_wait,
     SyslogLogger_wait, EventLogLogger_wait, WindowsDebugLogger_wait, LockedWait, UnlockedWait,
     Enter
<1>3. CASE set_config(t)
  BY <1>3 DEF set_config, ConsoleLogger_set_config, FileLogger_set_config,
     UniqueFileLogger_set_config, WindowsDebugLogger_set_config, FileLogger_set_queue_config,
     UniqueFileLogger_set_queue_config, WindowsDebugLogger_set_queue_config, LockedSetConfig,
     SetQueueConfig, Enter
<1>4. CASE shutdown(t)
  BY <1>4 DEF shutdown, ConsoleLogger_shutdown, FileLogger_shutdown, UniqueFileLogger_shutdown,
     SyslogLogger_shutdown, EventLogLogger_shutdown, WindowsDebugLogger_shutdown,
     LockedShutdown, Enter
<1>5. CASE set_log_level(t) \/ get_last_log_file(t)
  BY <1>5 DEF set_log_level, get_last_log_file
<1>6. CASE FileLogger_clear_logs(t) \/ UniqueFileLogger_clear_logs(t)
  BY <1>6 DEF FileLogger_clear_logs, UniqueFileLogger_clear_logs, LockedWait, Enter
<1> QED BY <1>1, <1>2, <1>3, <1>4, <1>5, <1>6 DEF Begin

\* Once the executor that wait() looks at is idle, what wait() was called for is
\* settled.
LEMMA WaitSettled ==
    ASSUME CallInv, NEW t \in Threads, Draining, kind = "console" => ~lg.shutdown,
           th[t].pc \in {"wait", "clearwait"}, Drained(t)
    PROVE  th[t].seen \subseteq Settled
<1>1. HomeInv /\ SeenOk(t) /\ TargetOk(t)
  BY DEF CallInv, SeenInv, HomeInv
<1> USE <1>1
<1>2. th[t].e = WaitTarget /\ lg.executor = Home
  <2>1. lg.executor = Home
    BY DEF HomeInv, Home
  <2> QED BY <2>1 DEF TargetOk
<1>3. AllIdle
  <2>1. CASE lg.config.async
    <3>1. WaitTarget = lg.executor /\ lg.executor # Sync
      <4>1. lg.executor \in Nat
        BY NumberTypes DEF CallInv, NumbersTyped
      <4> QED BY <2>1, <4>1, SMTT(60) DEF WaitTarget, Sync
    <3>2. Idle(Home)
      BY <1>2, <3>1 DEF Drained
    <3> QED BY <3>2 DEF HomeInv, AllIdle
  <2>2. CASE ~lg.config.async
    BY <2>2 DEF HomeInv
  <2> QED BY <2>1, <2>2
<1>4. \A e \in Executors : exec[e].q = <<>> /\ exec[e].run = 0
  BY <1>3 DEF AllIdle, Idle
<1>5. \A e \in Executors : DOMAIN exec[e].q = {} /\ exec[e].run = 0
  BY <1>4, SMTT(60)
<1>6. \A e \in Executors : Live(e) = {}
  BY <1>5 DEF Live, Elements
<1> QED BY <1>6 DEF SeenOk, Placed
-----------------------------------------------------------------------------
(* Queues *)

\* What is taken from the front of a queue.
LEMMA FrontOf ==
    ASSUME NEW list \in Seq(Nat), list # <<>>
    PROVE  Splits(list)
<1> USE DEF Splits
<1>1. /\ Len(list) \in Nat /\ Len(list) # 0 /\ Head(list) = list[1] /\ Head(list) \in Nat
      /\ Tail(list) \in Seq(Nat) /\ Len(Tail(list)) = Len(list) - 1
      /\ \A i \in 1..(Len(list) - 1) : Tail(list)[i] = list[i + 1]
      /\ DOMAIN list = 1..Len(list) /\ DOMAIN Tail(list) = 1..(Len(list) - 1)
  BY SMTT(60)
<1> USE <1>1
<1>2. ASSUME NEW i \in DOMAIN Tail(list)
      PROVE  /\ Tail(list)[i] = list[i + 1] /\ i + 1 \in DOMAIN list /\ i \in Nat /\ i # 0
             /\ i + 1 # 1 /\ 1 < i + 1 /\ 1 \in DOMAIN list
  BY SMTT(60)
<1>3. ASSUME NEW i \in DOMAIN list, i # 1
      PROVE  i - 1 \in DOMAIN Tail(list) /\ Tail(list)[i - 1] = list[i]
  <2>1. i - 1 \in 1..(Len(list) - 1) /\ (i - 1) + 1 = i
    BY <1>3, SMTT(60)
  <2> QED BY <2>1
<1>4. Elements(list) = {Head(list)} \cup Elements(Tail(list))
  <2>1. ASSUME NEW x \in Elements(list) PROVE x \in {Head(list)} \cup Elements(Tail(list))
    <3>1. PICK i \in DOMAIN list : x = list[i]
      BY DEF Elements
    <3> QED BY <1>3, <3>1 DEF Elements
  <2>2. 1 \in DOMAIN list
    BY SMTT(60)
  <2> QED BY <1>2, <2>1, <2>2 DEF Elements
<1>5. ASSUME Distinct(list) PROVE Distinct(Tail(list)) /\ Head(list) \notin Elements(Tail(list))
  <2>1. ASSUME NEW i \in DOMAIN Tail(list), NEW j \in DOMAIN Tail(list),
               Tail(list)[i] = Tail(list)[j]
        PROVE  i = j
    <3>1. i + 1 = j + 1
      BY <1>2, <1>5, <2>1 DEF Distinct
    <3> QED BY <1>2, <3>1, SMTT(60)
  <2>2. ASSUME NEW i \in DOMAIN Tail(list) PROVE Tail(list)[i] # list[1]
    BY <1>2, <1>5 DEF Distinct
  <2> QED BY <2>1, <2>2 DEF Distinct, Elements
<1>6. ASSUME NEW by, Ordered(list, by)
      PROVE  Ordered(Tail(list), by) /\ Before({Head(list)}, Elements(Tail(list)), by)
  <2>1. ASSUME NEW i \in DOMAIN Tail(list), NEW j \in DOMAIN Tail(list), i < j,
               by[Tail(list)[i]] = by[Tail(list)[j]]
        PROVE  Tail(list)[i] < Tail(list)[j]
    <3>1. i + 1 < j + 1
      BY <1>2, <2>1, SMTT(60)
    <3> QED BY <1>2, <1>6, <2>1, <3>1 DEF Ordered
  <2>2. ASSUME NEW y \in Elements(Tail(list)), by[Head(list)] = by[y] PROVE Head(list) < y
    <3>1. PICK i \in DOMAIN Tail(list) : y = Tail(list)[i]
      BY DEF Elements
    <3> QED BY <1>2, <1>6, <2>2, <3>1 DEF Ordered
  <2> QED BY <2>1, <2>2 DEF Ordered, Before
<1> QED BY <1>4, <1>5, <1>6

\* What is added at the end of a queue.
LEMMA BackOf ==
    ASSUME NEW list \in Seq(Nat), NEW x \in Nat
    PROVE  Grows(list, x)
<1> USE DEF Grows
<1> DEFINE longer == Append(list, x)  last == Len(list) + 1
<1>1. /\ Len(list) \in Nat /\ last \in Nat /\ longer \in Seq(Nat) /\ longer # <<>>
      /\ DOMAIN list = 1..Len(list) /\ DOMAIN longer = 1..last
      /\ longer[last] = x /\ \A i \in 1..Len(list) : longer[i] = list[i]
  BY SMTT(60)
<1> USE <1>1
<1>2. ASSUME NEW i \in DOMAIN longer
      PROVE  (i \in DOMAIN list /\ longer[i] = list[i]) \/ (i = last /\ longer[i] = x)
  BY SMTT(60)
<1>3. \A i \in DOMAIN list : i \in DOMAIN longer /\ longer[i] = list[i] /\ i # last /\ i \in Nat
  BY SMTT(60)
<1>4. last \in DOMAIN longer
  BY SMTT(60)
<1>5. ASSUME NEW j \in DOMAIN list PROVE ~(last < j)
  BY SMTT(60)
<1>6. ~(last < last)
  BY SMTT(60)
<1> HIDE DEF longer, last
<1>7. Elements(longer) = Elements(list) \cup {x}
  BY <1>2, <1>3, <1>4 DEF Elements
<1>8. ASSUME Distinct(list), x \notin Elements(list) PROVE Distinct(longer)
  BY <1>2, <1>8 DEF Distinct, Elements
<1>9. ASSUME NEW by, Ordered(list, by), Before(Elements(list), {x}, by) PROVE Ordered(longer, by)
  <2>1. ASSUME NEW i \in DOMAIN longer, NEW j \in DOMAIN longer, i < j,
               by[longer[i]] = by[longer[j]]
        PROVE  longer[i] < longer[j]
    <3>1. i \in DOMAIN list /\ longer[i] = list[i]
      BY <1>2, <1>5, <1>6, <2>1
    <3>2. CASE j \in DOMAIN list /\ longer[j] = list[j]
      BY <1>9, <2>1, <3>1, <3>2 DEF Ordered
    <3>3. CASE j = last /\ longer[j] = x
      BY <1>9, <2>1, <3>1, <3>3 DEF Before, Elements
    <3> QED BY <1>2, <3>2, <3>3
  <2> QED BY <2>1 DEF Ordered
<1> QED BY <1>7, <1>8, <1>9 DEF longer
-----------------------------------------------------------------------------
(* What the steps do to the records *)

\* A step that moves no record.
LEMMA KeepRecords ==
    ASSUME RecordInv, Draining' => Draining, \A e \in Executors : SameQueue(e), SameFates,
           h'.by = h.by, HoldersLeft({}), Types'
    PROVE  RecordInv' /\ KeepsPlaces /\ Ids' = Ids
<1>1. /\ Ids' = Ids /\ Written' = Written /\ Settled' = Settled
      /\ \A e \in Executors : Live(e)' = Live(e)
  BY DEF SameFates, SameQueue, Ids, Written, Elements, Settled, Live
<1> USE <1>1
<1>2. Holders' = Holders /\ \A t \in Holders : th'[t].r = th[t].r
  BY DEF HoldersLeft
<1> USE <1>2
<1>3. \A t \in Holders : HolderOk(t)'
  BY DEF RecordInv, PlaceInv, HolderOk
<1>4. \A e \in Executors : ExecutorOk(e)'
  BY DEF RecordInv, PlaceInv, ExecutorOk, SameQueue
<1>5. \A e, f \in Executors : e # f => Live(e)' \cap Live(f)' = {}
  BY DEF RecordInv, PlaceInv
<1>6. \A r \in Ids : \/ \E t \in Holders' : th'[t].r = r
                     \/ \E e \in Executors : r \in Live(e)'
                     \/ r \in Settled'
  BY DEF RecordInv, PlaceInv
<1>7. PlaceInv'
  BY <1>3, <1>4, <1>5, <1>6 DEF RecordInv, PlaceInv, SameFates
<1>8. OrderInv'
  BY DEF RecordInv, OrderInv, SameFates, SameQueue
<1> QED BY <1>7, <1>8 DEF RecordInv, KeepsPlaces, Placed

\* The record of a call that holds one.
LEMMA HeldArrives ==
    ASSUME RecordInv, NEW t \in Holders, h'.by = h.by, NEW r, r = th[t].r
    PROVE  Arrives(t, r) /\ r \in Ids
<1>1. HolderOk(t)
  BY DEF RecordInv, PlaceInv
<1>2. Ids' = Ids /\ Ids \subseteq Nat /\ 0 \notin Ids
  BY QueueTypes DEF Ids, RecordInv, QueuesTyped
<1> QED BY <1>1, <1>2 DEF Arrives, HolderOk

\* A new record of a thread that holds none.
LEMMA NewArrives ==
    ASSUME RecordInv, NEW t \in Threads \ Holders, h'.by = Append(h.by, t), NEW r, r = NewId
    PROVE  Arrives(t, r) /\ r \notin Ids
<1>1. /\ h.by \in Seq(Threads) /\ Len(h.by) \in Nat /\ Ids \subseteq Nat /\ 0 \notin Ids
  BY QueueTypes DEF RecordInv, QueuesTyped
<1>2. /\ r \in Nat /\ r # 0 /\ r \notin Ids /\ \A x \in Ids : x <= r
      /\ Ids' = Ids \cup {r}
      /\ h'.by[r] = t /\ \A x \in Ids : h'.by[x] = h.by[x]
  BY <1>1, SMTT(60) DEF NewId, Ids
<1>3. r \notin Written /\ \A e \in Executors : r \notin Live(e)
  BY <1>2 DEF RecordInv, PlaceInv, ExecutorOk
<1> QED BY <1>2, <1>3 DEF Arrives

\* The other calls keep what they hold.
LEMMA OtherHolders ==
    ASSUME RecordInv, NEW t \in Threads, NEW r, Arrives(t, r), HoldersLeft({t})
    PROVE  OthersHold(t, r)
<1> USE DEF OthersHold
<1> SUFFICES ASSUME NEW u \in Holders \ {t}
             PROVE  /\ u \in Holders' /\ th'[u].r = th[u].r /\ th[u].r \in Ids /\ th[u].r # r
                    /\ h'.by[th[u].r] = u /\ \A x \in Ids' : h'.by[x] = u => x <= th[u].r
                    /\ th[u].r \notin Written /\ \A e \in Executors : th[u].r \notin Live(e)
  OBVIOUS
<1>1. HolderOk(u)
  BY DEF RecordInv, PlaceInv
<1> USE <1>1
<1>2. u \in Holders' /\ th'[u].r = th[u].r
  BY DEF HoldersLeft
<1>3. h'.by[th[u].r] = u /\ th[u].r # r
  BY DEF HolderOk, Arrives
<1>4. ASSUME NEW x \in Ids', h'.by[x] = u PROVE x <= th[u].r
  BY <1>4 DEF HolderOk, Arrives
<1> QED BY <1>2, <1>3, <1>4 DEF HolderOk

\* A record that arrives is given one place, and the others keep theirs.
LEMMA ArrivalPlaces ==
    ASSUME RecordInv, NEW t \in Threads, NEW r, Arrives(t, r), ArrivesOnce(t, r)
    PROVE  PlaceInv'
<1> USE DEF ArrivesOnce
<1>0. \A u \in Holders \ {t} :
        /\ u \in Holders' /\ th'[u].r = th[u].r /\ th[u].r \in Ids /\ th[u].r # r
        /\ h'.by[th[u].r] = u /\ \A x \in Ids' : h'.by[x] = u => x <= th[u].r
        /\ th[u].r \notin Written /\ \A e \in Executors : th[u].r \notin Live(e)
  BY OtherHolders DEF OthersHold
<1>1. \A u \in Holders' : HolderOk(u)'
  <2> SUFFICES ASSUME NEW u \in Holders' PROVE HolderOk(u)'
    OBVIOUS
  <2>1. CASE u = t
    <3>1. r <= r
      BY SMTT(60) DEF Arrives
    <3> QED BY <2>1, <3>1 DEF HolderOk, Arrives
  <2>2. CASE u # t
    <3>1. u \in Holders \ {t}
      BY <2>2 DEF HoldersLeft
    <3>2. th'[u].r \in Ids' /\ h'.by[th'[u].r] = u /\ \A x \in Ids' : h'.by[x] = u => x <= th'[u].r
      BY <3>1, <1>0 DEF Arrives
    <3>3. /\ th'[u].r = th[u].r /\ th[u].r # r /\ th[u].r \notin Written
          /\ \A e \in Executors : th[u].r \notin Live(e)
      BY <3>1, <1>0
    <3>4. th'[u].r \notin Written' /\ \A e \in Executors : th'[u].r \notin Live(e)'
      BY <3>3
    <3> QED BY <3>2, <3>4 DEF HolderOk
  <2> QED BY <2>1, <2>2
<1>2. \A e \in Executors : ExecutorOk(e)'
  <2> SUFFICES ASSUME NEW e \in Executors PROVE ExecutorOk(e)'
    OBVIOUS
  <2>1. ExecutorOk(e)
    BY DEF RecordInv, PlaceInv
  <2>2. Live(e)' \cap Written' = {}
    BY <2>1 DEF ExecutorOk, Arrives
  <2> QED BY <2>1, <2>2 DEF ExecutorOk, Arrives
<1>3. \A e, f \in Executors : e # f => Live(e)' \cap Live(f)' = {}
  <2> SUFFICES ASSUME NEW e \in Executors, NEW f \in Executors, e # f,
                      NEW x, x \in Live(e)', x \in Live(f)'
               PROVE  FALSE
    OBVIOUS
  <2>1. x # r
    OBVIOUS
  <2>2. x \in Live(e) /\ x \in Live(f)
    BY <2>1
  <2>3. Live(e) \cap Live(f) = {}
    BY DEF RecordInv, PlaceInv
  <2> QED BY <2>2, <2>3
<1>4. Written' \subseteq Ids'
  BY DEF RecordInv, PlaceInv, Arrives
<1>5. ASSUME NEW x \in Ids'
      PROVE  (\E u \in Holders' : th'[u].r = x) \/ Placed(x)'
  <2>1. CASE x = r
    BY <2>1
  <2>2. CASE x # r
    <3>1. x \in Ids
      BY <2>2 DEF Arrives
    <3>2. CASE Placed(x)
      BY <3>1, <3>2 DEF KeepsPlaces
    <3>3. CASE \E u \in Holders : th[u].r = x
      <4>1. PICK u \in Holders : th[u].r = x
        BY <3>3
      <4>2. u # t
        BY <2>2, <4>1 DEF Arrives
      <4> QED BY <4>1, <4>2, <1>0
    <3> QED BY <3>1, <3>2, <3>3 DEF RecordInv, PlaceInv, Placed
  <2> QED BY <2>1, <2>2
<1> QED BY <1>1, <1>2, <1>3, <1>4, <1>5 DEF PlaceInv, Placed

\* In terms of the authors after the step, the orders are as before, and the
\* record that arrives comes last.
LEMMA ArrivalOrder ==
    ASSUME RecordInv, Draining, NEW t \in Threads, NEW r, Arrives(t, r)
    PROVE  ArrivesLast(r)
<1> USE DEF ArrivesLast
<1>1. \A x \in Ids : h'.by[x] = h.by[x]
  BY DEF Arrives
<1> USE <1>1
<1>2. Written \subseteq Ids /\ \A e \in Executors : Live(e) \subseteq Ids
  BY DEF RecordInv, PlaceInv, ExecutorOk
<1> USE <1>2
<1>3. Ordered(h.written, h'.by)
  <2>1. Elements(h.written) \subseteq Ids
    BY DEF Written
  <2> QED BY <2>1 DEF RecordInv, OrderInv, Ordered, Elements
<1>4. ASSUME NEW x \in Ids, x # r PROVE h'.by[x] = h'.by[r] => x < r
  <2>1. x \in Nat /\ r \in Nat
    BY QueueTypes DEF RecordInv, Arrives, QueuesTyped
  <2>2. h'.by[x] = h'.by[r] => x <= r
    BY DEF Arrives
  <2> QED BY <1>4, <2>1, <2>2, SMTT(60)
<1>5. Before(Written, {r}, h'.by)
  BY <1>4 DEF Before, Arrives
<1>6. ASSUME NEW e \in Executors
      PROVE  /\ Before(Written, Live(e), h'.by) /\ Ordered(exec[e].q, h'.by)
             /\ exec[e].run # 0 => Before({exec[e].run}, Elements(exec[e].q), h'.by)
             /\ Before(Live(e), {r}, h'.by)
  <2>1. /\ Before(Written, Live(e), h.by) /\ Ordered(exec[e].q, h.by)
        /\ exec[e].run # 0 => Before({exec[e].run}, Elements(exec[e].q), h.by)
    BY DEF RecordInv, OrderInv
  <2>2. Elements(exec[e].q) \subseteq Ids /\ (exec[e].run # 0 => exec[e].run \in Ids)
    BY DEF Live
  <2>3. Before(Written, Live(e), h'.by)
    BY <2>1 DEF Before
  <2>4. Ordered(exec[e].q, h'.by)
    BY <2>1, <2>2 DEF Ordered, Elements
  <2>5. exec[e].run # 0 => Before({exec[e].run}, Elements(exec[e].q), h'.by)
    BY <2>1, <2>2 DEF Before
  <2>6. Before(Live(e), {r}, h'.by)
    BY <1>4 DEF Before, Arrives
  <2> QED BY <2>3, <2>4, <2>5, <2>6
<1> QED BY <1>3, <1>5, <1>6

\* The queue after add_task(): it may lose its oldest record, and has the new
\* one at the end or not at all.
LEMMA AddedQueue ==
    ASSUME RecordInv, NEW t \in Threads, NEW r, Arrives(t, r), NEW e \in Executors, Adds(e, r)
    PROVE  QueueGrew(e, r)
<1> USE DEF QueueGrew
<1> DEFINE q == exec[e].q  new == exec'[e].q
<1>1. q \in Seq(Nat) /\ r \in Nat /\ r \notin Elements(q) /\ Distinct(q)
  BY QueueTypes DEF RecordInv, PlaceInv, ExecutorOk, Arrives, Live, QueuesTyped
<1> USE <1>1
<1>2. Draining => Ordered(q, h'.by) /\ Before(Elements(q), {r}, h'.by)
  <2>1. Draining => Ordered(q, h'.by) /\ Before(Live(e), {r}, h'.by)
    BY ArrivalOrder DEF ArrivesLast
  <2> QED BY <2>1 DEF Before, Live
<1> USE <1>2
<1> HIDE DEF q, new
<1>3. ASSUME NEW base \in Seq(Nat), Elements(base) \subseteq Elements(q), Distinct(base),
             Draining => Ordered(base, h'.by), new = Append(base, r)
      PROVE  /\ Elements(new) = Elements(base) \cup {r} /\ Distinct(new)
             /\ Draining => Ordered(new, h'.by)
  <2>1. r \notin Elements(base) /\ (Draining => Before(Elements(base), {r}, h'.by))
    BY <1>3 DEF Before
  <2> QED BY <1>3, <2>1, BackOf DEF Grows
<1>4. CASE new = q /\ h'.dropped = h.dropped \cup {r}
  BY <1>4 DEF q, new
<1>5. CASE q # <<>> /\ new = Append(Tail(q), r) /\ h'.dropped = h.dropped \cup {Head(q)}
  <2>1. /\ Tail(q) \in Seq(Nat) /\ Elements(q) = {Head(q)} \cup Elements(Tail(q))
        /\ Distinct(Tail(q)) /\ (Draining => Ordered(Tail(q), h'.by))
    BY <1>5, FrontOf DEF Splits
  <2>2. /\ Elements(new) = Elements(Tail(q)) \cup {r} /\ Distinct(new)
        /\ Draining => Ordered(new, h'.by)
    BY <1>3, <1>5, <2>1
  <2> QED BY <1>5, <2>1, <2>2 DEF q, new
<1>6. CASE new = Append(q, r) /\ h'.dropped = h.dropped
  <2>1. /\ Elements(new) = Elements(q) \cup {r} /\ Distinct(new)
        /\ Draining => Ordered(new, h'.by)
    BY <1>3, <1>6
  <2> QED BY <1>6, <2>1 DEF q, new
<1> QED BY <1>4, <1>5, <1>6 DEF Adds, q, new

\* add_task() of a record that arrives.
LEMMA EnqueueRecord ==
    ASSUME RecordInv, NEW t \in Threads, NEW r, Arrives(t, r), NEW e \in Executors, Types',
           EnqueuesRecord(t, r, e)
    PROVE  RecordInv' /\ KeepsPlaces /\ Placed(r)'
<1> USE DEF EnqueuesRecord
<1>1. /\ Elements(exec'[e].q) \subseteq Elements(exec[e].q) \cup {r}
      /\ Elements(exec[e].q) \subseteq Elements(exec'[e].q) \cup h'.dropped
      /\ r \in Elements(exec'[e].q) \cup h'.dropped
      /\ h.dropped \subseteq h'.dropped /\ Distinct(exec'[e].q)
      /\ Draining => Ordered(exec'[e].q, h'.by)
  BY AddedQueue DEF QueueGrew
<1>2. /\ exec'[e].run = exec[e].run /\ h'.written = h.written /\ h'.filtered = h.filtered
      /\ \A f \in Executors \ {e} : SameQueue(f)
  BY DEF Adds
<1>3. Written' = Written /\ Settled \subseteq Settled' /\ h'.dropped \subseteq Settled'
  BY <1>1, <1>2 DEF Written, Elements, Settled
<1>4. /\ Live(e)' \subseteq Live(e) \cup {r} /\ Live(e) \subseteq Live(e)' \cup h'.dropped
      /\ r \in Live(e)' \cup h'.dropped
  BY <1>1, <1>2 DEF Live
<1>5. \A f \in Executors \ {e} : Live(f)' = Live(f) /\ r \notin Live(f)'
  <2>1. \A f \in Executors \ {e} : Live(f)' = Live(f)
    BY <1>2 DEF SameQueue, Live
  <2> QED BY <2>1 DEF Arrives
<1>6. Placed(r)' /\ KeepsPlaces
  BY <1>3, <1>4, <1>5 DEF Placed, KeepsPlaces
<1>7. exec[e].run # r /\ exec[e].run \notin Elements(exec[e].q)
  BY DEF Arrives, RecordInv, PlaceInv, ExecutorOk, Live
<1>8. ASSUME NEW f \in Executors
      PROVE  /\ Live(f)' \subseteq Live(f) \cup {r}
             /\ exec'[f].run \notin Elements(exec'[f].q) /\ Distinct(exec'[f].q)
             /\ r \notin Written'
  <2>1. ExecutorOk(f) /\ r \notin Written
    BY DEF RecordInv, PlaceInv, Arrives
  <2>2. CASE f = e
    BY <1>1, <1>2, <1>3, <1>4, <1>7, <2>1, <2>2
  <2>3. CASE f # e
    BY <1>2, <1>3, <1>5, <2>1, <2>3 DEF ExecutorOk, SameQueue
  <2> QED BY <2>2, <2>3
<1>9. Distinct(h'.written)
  BY <1>2 DEF RecordInv, PlaceInv
<1>10. PlaceInv'
  BY <1>3, <1>5, <1>6, <1>8, <1>9, ArrivalPlaces DEF ArrivesOnce
<1>11. ASSUME Draining' PROVE OrderInv'
  <2>1. /\ Ordered(h.written, h'.by) /\ Before(Written, {r}, h'.by)
        /\ \A f \in Executors :
             /\ Before(Written, Live(f), h'.by) /\ Ordered(exec[f].q, h'.by)
             /\ exec[f].run # 0 => Before({exec[f].run}, Elements(exec[f].q), h'.by)
             /\ Before(Live(f), {r}, h'.by)
    BY <1>11, ArrivalOrder DEF ArrivesLast
  <2>2. ASSUME NEW f \in Executors \ {e}
        PROVE  /\ Before(Written', Live(f)', h'.by) /\ Ordered(exec'[f].q, h'.by)
               /\ exec'[f].run # 0 => Before({exec'[f].run}, Elements(exec'[f].q), h'.by)
    BY <1>2, <1>3, <1>5, <2>1 DEF SameQueue
  <2>3. Before(Written', Live(e)', h'.by)
    BY <1>3, <1>4, <2>1 DEF Before
  <2>4. exec'[e].run # 0 => Before({exec'[e].run}, Elements(exec'[e].q), h'.by)
    <3>1. exec[e].run # 0 => exec[e].run \in Live(e)
      BY DEF Live
    <3> QED BY <1>1, <1>2, <2>1, <3>1 DEF Before
  <2> QED BY <1>1, <1>2, <1>11, <2>1, <2>2, <2>3, <2>4 DEF OrderInv
<1> QED BY <1>6, <1>10, <1>11 DEF RecordInv, OrderInv

\* A call that keeps the record that arrives for now.
LEMMA HoldRecord ==
    ASSUME RecordInv, NEW t \in Threads, NEW r, Arrives(t, r), Types', HoldsRecord(t, r)
    PROVE  RecordInv' /\ KeepsPlaces
<1> USE DEF HoldsRecord
<1>1. /\ Written' = Written /\ Settled' = Settled
      /\ \A e \in Executors : Live(e)' = Live(e)
  BY DEF SameFates, SameQueue, Written, Elements, Settled, Live
<1> USE <1>1
<1>2. KeepsPlaces /\ r \notin Written' /\ \A e \in Executors : r \notin Live(e)'
  BY DEF KeepsPlaces, Placed, Arrives
<1>3. \A e \in Executors : exec'[e].run \notin Elements(exec'[e].q) /\ Distinct(exec'[e].q)
  BY DEF RecordInv, PlaceInv, ExecutorOk, SameQueue
<1>4. Distinct(h'.written)
  BY DEF RecordInv, PlaceInv, SameFates
<1>5. PlaceInv'
  BY <1>2, <1>3, <1>4, ArrivalPlaces DEF ArrivesOnce
<1>6. ASSUME Draining' PROVE OrderInv'
  <2>1. /\ Ordered(h.written, h'.by)
        /\ \A f \in Executors :
             /\ Before(Written, Live(f), h'.by) /\ Ordered(exec[f].q, h'.by)
             /\ exec[f].run # 0 => Before({exec[f].run}, Elements(exec[f].q), h'.by)
    BY <1>6, ArrivalOrder DEF ArrivesLast
  <2> QED BY <2>1 DEF OrderInv, SameQueue, SameFates
<1> QED BY <1>2, <1>5, <1>6 DEF RecordInv, OrderInv

\* The list of written records when the fate of one more is known.
LEMMA SettledList ==
    ASSUME Types, NEW r \in Nat, Settles(r), r \notin Written, Distinct(h.written)
    PROVE  ListGrew(r)
<1> USE DEF ListGrew
<1>1. h.written \in Seq(Nat)
  BY QueueTypes DEF QueuesTyped
<1>2. Settled = Written \cup h.dropped \cup h.filtered
  BY DEF Settled, Written, Elements
<1>3. Settled' = Written' \cup h'.dropped \cup h'.filtered
  BY DEF Settled, Written, Elements
<1>4. CASE h'.written = Append(h.written, r)
  <2>1. /\ Written' = Written \cup {r} /\ Distinct(h'.written)
        /\ \A by : Ordered(h.written, by) /\ Before(Written, {r}, by) => Ordered(h'.written, by)
    BY <1>1, <1>4, BackOf DEF Written, Grows
  <2> QED BY <1>2, <1>3, <2>1 DEF Settles
<1>5. CASE h'.written = h.written /\ r \in h'.dropped \cup h'.filtered
  <2>1. Written' = Written
    BY <1>5 DEF Written
  <2> QED BY <1>2, <1>3, <1>5, <2>1 DEF Settles
<1> QED BY <1>4, <1>5 DEF Settles

\* A record that arrives is written or given up at once.
LEMMA SettleRecord ==
    ASSUME RecordInv, NEW t \in Threads, NEW r, Arrives(t, r), Types', SettlesRecord(t, r)
    PROVE  RecordInv' /\ KeepsPlaces
<1> USE DEF SettlesRecord
<1>1. /\ Written' \subseteq Written \cup {r} /\ Distinct(h'.written)
      /\ Settled \subseteq Settled' /\ r \in Settled'
      /\ \A by : Ordered(h.written, by) /\ Before(Written, {r}, by) => Ordered(h'.written, by)
  <2>1. Types /\ r \in Nat /\ r \notin Written /\ Distinct(h.written)
    BY DEF RecordInv, PlaceInv, Arrives
  <2> QED BY <2>1, SettledList DEF ListGrew
<1> USE <1>1
<1>2. \A e \in Executors : Live(e)' = Live(e)
  BY DEF SameQueue, Live
<1> USE <1>2
<1>3. KeepsPlaces /\ Placed(r)' /\ \A e \in Executors : r \notin Live(e)'
  BY DEF KeepsPlaces, Placed, Arrives
<1>4. \A e \in Executors : exec'[e].run \notin Elements(exec'[e].q) /\ Distinct(exec'[e].q)
  BY DEF RecordInv, PlaceInv, ExecutorOk, SameQueue
<1>5. PlaceInv'
  BY <1>3, <1>4, ArrivalPlaces DEF ArrivesOnce
<1>6. ASSUME Draining' PROVE OrderInv'
  <2>1. Draining /\ AllIdle
    BY <1>6
  <2>2. /\ Ordered(h.written, h'.by) /\ Before(Written, {r}, h'.by)
        /\ \A f \in Executors : Ordered(exec[f].q, h'.by)
    BY <2>1, ArrivalOrder DEF ArrivesLast
  <2>3. Ordered(h'.written, h'.by)
    BY <2>2
  <2>4. \A f \in Executors : Live(f)' = {} /\ exec'[f].run = 0
    <3>1. Elements(<<>>) = {}
      BY SMTT(60) DEF Elements
    <3> QED BY <2>1, <3>1 DEF AllIdle, Idle, Live, SameQueue
  <2> QED BY <2>2, <2>3, <2>4 DEF OrderInv, Before, SameQueue
<1> QED BY <1>3, <1>5, <1>6 DEF RecordInv, OrderInv

\* A worker moves records of executor e on.
LEMMA WorkPlaces ==
    ASSUME RecordInv, NEW e \in Executors, Passes(e)
    PROVE  PlaceInv' /\ KeepsPlaces /\ Ids' = Ids
<1> USE DEF Passes
<1>1. Ids' = Ids
  BY DEF Ids
<1> USE <1>1
<1>2. \A f \in Executors \ {e} : Live(f)' = Live(f)
  BY DEF SameQueue, Live
<1> USE <1>2
<1>3. Holders' = Holders /\ \A t \in Holders : th'[t].r = th[t].r
  BY DEF HoldersLeft
<1> USE <1>3
<1>4. KeepsPlaces
  BY DEF KeepsPlaces, Placed
<1>5. Live(e) \subseteq Ids /\ Live(e) \cap Written = {} /\ Written \subseteq Ids
  BY DEF RecordInv, PlaceInv, ExecutorOk
<1>6. \A f \in Executors \ {e} : Live(f) \cap Live(e) = {}
  BY DEF RecordInv, PlaceInv
<1>7. ASSUME NEW t \in Holders PROVE HolderOk(t)'
  <2>1. HolderOk(t)
    BY <1>7 DEF RecordInv, PlaceInv
  <2>2. th[t].r \notin Live(e) /\ th[t].r \notin Written
    BY <2>1 DEF HolderOk
  <2>3. \A f \in Executors : th[t].r \notin Live(f)'
    BY <2>1, <2>2 DEF HolderOk
  <2> QED BY <2>1, <2>2, <2>3 DEF HolderOk
<1>8. ASSUME NEW f \in Executors PROVE ExecutorOk(f)'
  <2>1. ExecutorOk(f)
    BY DEF RecordInv, PlaceInv
  <2>2. CASE f = e
    BY <1>5, <2>2 DEF ExecutorOk
  <2>3. CASE f # e
    <3>1. Live(f)' \cap Written' = {}
      BY <1>6, <2>1, <2>3 DEF ExecutorOk
    <3> QED BY <2>1, <2>3, <3>1 DEF ExecutorOk, SameQueue
  <2> QED BY <2>2, <2>3
<1>9. ASSUME NEW f \in Executors, NEW g \in Executors, f # g PROVE Live(f)' \cap Live(g)' = {}
  <2>1. Live(f)' \subseteq Live(f) /\ Live(g)' \subseteq Live(g)
    OBVIOUS
  <2>2. Live(f) \cap Live(g) = {}
    BY <1>9 DEF RecordInv, PlaceInv
  <2> QED BY <2>1, <2>2
<1>10. Written' \subseteq Ids'
  BY <1>5
<1>11. ASSUME NEW r \in Ids' PROVE (\E t \in Holders' : th'[t].r = r) \/ Placed(r)'
  <2>1. (\E t \in Holders : th[t].r = r) \/ Placed(r)
    BY DEF RecordInv, PlaceInv, Placed
  <2> QED BY <1>4, <2>1 DEF KeepsPlaces
<1> QED BY <1>4, <1>7, <1>8, <1>9, <1>10, <1>11 DEF PlaceInv, Placed

\* A worker takes the oldest record of its queue.
LEMMA TakeRecord ==
    ASSUME RecordInv, NEW e \in Executors, Types', TakesRecord(e)
    PROVE  RecordInv' /\ KeepsPlaces /\ Ids' = Ids
<1> USE DEF TakesRecord
<1>1. ExecutorOk(e) /\ exec[e].q \in Seq(Nat) /\ Types
  BY QueueTypes DEF RecordInv, PlaceInv, QueuesTyped
<1> USE <1>1
<1>2. /\ Elements(exec[e].q) = {exec'[e].run} \cup Elements(exec'[e].q)
      /\ Distinct(exec'[e].q) /\ exec'[e].run \notin Elements(exec'[e].q)
      /\ \A by : Ordered(exec[e].q, by) =>
           Ordered(exec'[e].q, by) /\ Before({exec'[e].run}, Elements(exec'[e].q), by)
  <2>1. exec[e].q \in Seq(Nat) /\ exec[e].q # <<>> /\ Distinct(exec[e].q)
    BY DEF ExecutorOk
  <2> DEFINE q == exec[e].q
  <2> HIDE DEF q
  <2>2. /\ Elements(q) = {Head(q)} \cup Elements(Tail(q))
        /\ Distinct(Tail(q)) /\ Head(q) \notin Elements(Tail(q))
        /\ \A by : Ordered(q, by) =>
             Ordered(Tail(q), by) /\ Before({Head(q)}, Elements(Tail(q)), by)
    <3>1. q \in Seq(Nat) /\ q # <<>> /\ Distinct(q)
      BY <2>1 DEF q
    <3> QED BY <3>1, FrontOf DEF Splits
  <2>3. exec'[e].run = Head(q) /\ exec'[e].q = Tail(q)
    BY DEF q
  <2>4. Elements(q) = {exec'[e].run} \cup Elements(exec'[e].q)
    BY <2>2, <2>3
  <2> QED BY <2>2, <2>3, <2>4 DEF q
<1> USE <1>2
<1>3. exec'[e].run # 0
  <2>1. exec'[e].run \in Live(e) /\ 0 \notin Ids
    BY QueueTypes DEF Live, QueuesTyped
  <2> QED BY <2>1 DEF ExecutorOk
<1>4. Live(e)' = Live(e)
  BY <1>3 DEF Live
<1>5. Written' = Written /\ Settled' = Settled /\ Distinct(h'.written)
  BY DEF Written, Settled, RecordInv, PlaceInv
<1> USE <1>5
<1>6. PlaceInv' /\ KeepsPlaces /\ Ids' = Ids
  BY <1>4, WorkPlaces DEF Passes
<1>7. ASSUME Draining' PROVE OrderInv'
  <2>1. \A f \in Executors :
            /\ Before(Written, Live(f), h.by)
            /\ exec[f].run # 0 => Before({exec[f].run}, Elements(exec[f].q), h.by)
            /\ Ordered(exec[f].q, h.by)
    BY <1>7 DEF RecordInv, OrderInv
  <2>2. \A f \in Executors \ {e} : Live(f)' = Live(f)
    BY DEF SameQueue, Live
  <2>3. ASSUME NEW f \in Executors
        PROVE  /\ Before(Written', Live(f)', h.by) /\ Ordered(exec'[f].q, h.by)
               /\ exec'[f].run # 0 => Before({exec'[f].run}, Elements(exec'[f].q), h.by)
    <3>1. CASE f = e
      BY <1>4, <2>1, <3>1
    <3>2. CASE f # e
      BY <2>1, <2>2, <3>2 DEF SameQueue
    <3> QED BY <3>1, <3>2
  <2> QED BY <1>7, <2>3 DEF RecordInv, OrderInv
<1> QED BY <1>6, <1>7 DEF RecordInv, OrderInv

\* A worker writes the record it has in hand, or gives it up.
LEMMA FinishRecord ==
    ASSUME RecordInv, NEW e \in Executors, Types', FinishesRecord(e)
    PROVE  RecordInv' /\ KeepsPlaces /\ Ids' = Ids
<1> USE DEF FinishesRecord
<1> DEFINE r == exec[e].run
<1>1. /\ ExecutorOk(e) /\ r \in Nat /\ Types /\ Distinct(h.written) /\ r \in Live(e)
      /\ r \notin Elements(exec[e].q) /\ r \notin Written /\ Live(e) = Elements(exec[e].q) \cup {r}
  BY QueueTypes DEF RecordInv, PlaceInv, ExecutorOk, Live, QueuesTyped
<1> USE <1>1
<1>2. 0 \notin Elements(exec[e].q)
  BY QueueTypes DEF ExecutorOk, QueuesTyped
<1>3. Live(e)' = Elements(exec[e].q)
  BY DEF Live
<1>4. /\ Written' \subseteq Written \cup {r} /\ Distinct(h'.written)
      /\ Settled \subseteq Settled' /\ r \in Settled'
      /\ \A by : Ordered(h.written, by) /\ Before(Written, {r}, by) => Ordered(h'.written, by)
  BY SettledList DEF ListGrew
<1> USE <1>4
<1>5. PlaceInv' /\ KeepsPlaces /\ Ids' = Ids
  <2>1. Distinct(exec'[e].q) /\ exec'[e].run \notin Elements(exec'[e].q)
    BY <1>2 DEF ExecutorOk
  <2>2. /\ Live(e)' \subseteq Live(e) /\ Live(e) \subseteq Live(e)' \cup Settled'
        /\ Written' \subseteq Written \cup (Live(e) \ Live(e)')
    BY <1>3
  <2> QED BY <2>1, <2>2, WorkPlaces DEF Passes
<1>6. ASSUME Draining' PROVE OrderInv'
  <2>1. /\ Ordered(h.written, h.by)
        /\ Before(Written, Live(e), h.by) /\ Before({r}, Elements(exec[e].q), h.by)
        /\ Ordered(exec[e].q, h.by) /\ \A f \in Executors : Ordered(exec[f].q, h.by)
    BY <1>6 DEF RecordInv, OrderInv
  <2>2. Ordered(h'.written, h.by)
    BY <2>1 DEF Before
  <2>3. Before(Written', Live(e)', h.by)
    <3>1. Before(Written \cup {r}, Elements(exec[e].q), h.by)
      BY <2>1 DEF Before
    <3> QED BY <1>3, <3>1 DEF Before
  <2>4. \A f \in Executors \ {e} : Live(f)' = {} /\ exec'[f].run = 0 /\ exec'[f].q = exec[f].q
    <3>1. Elements(<<>>) = {}
      BY SMTT(60) DEF Elements
    <3> QED BY <1>6, <3>1 DEF Idle, Live, SameQueue
  <2> QED BY <2>1, <2>2, <2>3, <2>4 DEF OrderInv, Before
<1> QED BY <1>5, <1>6 DEF RecordInv, OrderInv
-----------------------------------------------------------------------------
(* What the steps do to the calls *)

\* Who is where after a step of thread t.
LEMMA WhoIsWhere ==
    ASSUME NEW t \in Threads, Others(t), NEW S
    PROVE  Whereabouts(t, S)
<1> USE DEF Whereabouts
<1>1. th[t].pc \in S <=> t \in At(S)
  BY DEF At
<1>2. \A u \in Threads \ {t} : u \in At(S)' <=> u \in At(S)
  BY DEF At, Others
<1>3. th'[t].pc \in S <=> t \in At(S)'
  BY DEF At
<1>4. At(S)' \subseteq Threads /\ At(S) \subseteq Threads
  BY DEF At
<1> QED BY <1>1, <1>2, <1>3, <1>4

\* A logger that drains after the step did before.
LEMMA DrainedBefore ==
    ASSUME Types, Types', kind' = kind, h'.configs >= h.configs
    PROVE  Draining' => Draining
<1>1. h.configs \in Nat /\ h'.configs \in Nat
  BY SMTT(60) DEF Types, HistoryTypes, History
<1>2. h'.configs = 0 => h.configs = 0
  BY <1>1, SMTT(60)
<1> QED BY <1>2 DEF Draining

\* The other threads are where they should be, after a calm step.
LEMMA CalmLocks ==
    ASSUME Types, Types', LockInv, NEW t \in Threads, Calm(t), LockOk(t)'
    PROVE  LockInv'
<1> SUFFICES ASSUME NEW u \in Threads \ {t} PROVE LockOk(u)'
  BY DEF LockInv
<1>1. LockOk(u) /\ th'[u] = th[u]
  BY DEF LockInv, Calm, Others
<1>2. /\ (Locked' <=> Locked) /\ kind' = kind /\ lg'.config.async = lg.config.async
      /\ lg.lifecycle = u => lg'.lifecycle = u
      /\ lg.shutdown => lg'.shutdown
      /\ th[u].pc \in {"add", "drain"} /\ ~lg.shutdown => ~lg'.shutdown
  BY DEF Calm, Locked
<1>3. h.configs > 0 => h'.configs > 0
  <2>1. h.configs \in Nat /\ h'.configs \in Nat /\ h'.configs >= h.configs
    BY SMTT(60) DEF Types, HistoryTypes, History, Calm
  <2> QED BY <2>1, SMTT(60)
<1> QED BY <1>1, <1>2, <1>3 DEF LockOk

\* After a calm step every call still looks where its records are.
LEMMA CalmTargets ==
    ASSUME Types, NEW t \in Threads, Calm(t), \A u \in Threads : TargetOk(u), TargetOk(t)'
    PROVE  \A u \in Threads : TargetOk(u)'
<1> SUFFICES ASSUME NEW u \in Threads \ {t} PROVE TargetOk(u)'
  OBVIOUS
<1>1. TargetOk(u) /\ th'[u] = th[u]
  BY DEF Calm, Others
<1>2. /\ Home' = Home /\ WaitTarget' = WaitTarget /\ kind' = kind
      /\ lg'.config.async = lg.config.async /\ lg'.executor = lg.executor
      /\ lg.shutdown => lg'.shutdown
  BY DEF Calm, Home, WaitTarget
<1> QED BY <1>1, <1>2 DEF TargetOk

\* All the invariants, after a calm step of thread t that is itself where it
\* should be.
LEMMA CalmStep ==
    ASSUME CallInv, RecordInv', KeepsPlaces, Ids \subseteq Ids', NEW t \in Threads, Calm(t),
           BoundInv', LockOk(t)', Draining' => TargetOk(t)', SeenOk(t)', Calmed, QuietInv'
    PROVE  CallInv'
<1>1. Types /\ Types' /\ LockInv /\ (Draining' => Draining)
  BY DrainedBefore DEF CallInv, RecordInv, Calm
<1> USE <1>1
<1>2. LockInv'
  BY CalmLocks
<1>3. HomeInv'
  <2> SUFFICES ASSUME Draining' PROVE HomeInv'
    BY DEF HomeInv
  <2>1. (\A u \in Threads : TargetOk(u)) /\ (lg.shutdown \/ lg.executor = Home)
    BY DEF CallInv, HomeInv
  <2>2. \A u \in Threads : TargetOk(u)'
    BY <2>1, CalmTargets
  <2>3. Home' = Home /\ lg'.config.async = lg.config.async
    BY DEF Calm, Home
  <2>4. lg'.shutdown \/ lg'.executor = Home
    BY <2>1 DEF Calm
  <2> QED BY <2>2, <2>3, <2>4 DEF HomeInv, Calmed
<1>4. SeenInv'
  <2> SUFFICES ASSUME NEW u \in Threads \ {t} PROVE SeenOk(u)'
    BY DEF SeenInv
  <2>1. SeenOk(u) /\ th'[u] = th[u]
    BY DEF CallInv, SeenInv, Calm, Others
  <2> QED BY <2>1 DEF SeenOk, KeepsPlaces
<1> QED BY <1>2, <1>3, <1>4 DEF CallInv, RecordInv
-----------------------------------------------------------------------------
(* The updates in terms of the fields *)

\* The counts of the history stay numbers.
LEMMA HistoryNumbers ==
    ASSUME NEW hist \in History
    PROVE  /\ hist.calls + 1 \in Nat /\ hist.configs + 1 \in Nat
           /\ hist.faults + 1 \in Nat /\ hist.clears + 1 \in Nat
<1>1. hist.calls \in Nat /\ hist.configs \in Nat /\ hist.faults \in Nat /\ hist.clears \in Nat
  BY DEF History
<1> QED BY <1>1, SMTT(60)

\* A call is counted and nothing else of the history changes.
LEMMA CountedFields ==
    ASSUME Types
    PROVE  CountedIs
<1> USE DEF CountedIs
<1>1. h \in History /\ h.calls + 1 \in Nat
  BY HistoryNumbers DEF Types, HistoryTypes
<1>2. Counted \in History
  BY <1>1 DEF History, Counted
<1> QED BY <1>1, <1>2 DEF History, Counted, SameHistoryFates

\* A call of set_config() is counted and nothing else of the history changes.
LEMMA ConfiguredFields ==
    ASSUME Types
    PROVE  ConfiguredIs
<1> USE DEF ConfiguredIs
<1>1. /\ Counted \in History /\ Counted.calls = h.calls + 1 /\ Counted.by = h.by
      /\ SameHistoryFates(h, Counted) /\ Counted.configs = h.configs
      /\ Counted.down = h.down
  BY CountedFields DEF CountedIs
<1> DEFINE hist == Counted
<1> HIDE DEF hist
<1>2. hist \in History /\ hist.configs + 1 \in Nat /\ Configured = [hist EXCEPT !.configs = @ + 1]
  BY <1>1, HistoryNumbers DEF hist, Configured
<1>3. Configured \in History
  BY <1>2 DEF History
<1>4. /\ Configured.calls = hist.calls /\ Configured.by = hist.by
      /\ SameHistoryFates(hist, Configured) /\ Configured.configs = hist.configs + 1
      /\ Configured.down = hist.down
  BY <1>2 DEF History, SameHistoryFates
<1> QED BY <1>1, <1>3, <1>4 DEF hist, SameHistoryFates

\* A new record is the last one, without a fate yet.
LEMMA LoggedFields ==
    ASSUME Types, NEW t \in Threads, NEW level \in Nat
    PROVE  LoggedIs(t, level)
<1> USE DEF LoggedIs
<1> DEFINE hist == Counted  new == Logged(t, level)
<1>1. /\ hist \in History /\ hist.calls = h.calls + 1 /\ hist.by = h.by
      /\ SameHistoryFates(h, hist) /\ hist.configs = h.configs
      /\ hist.down = h.down
  BY CountedFields DEF CountedIs
<1> USE <1>1
<1> HIDE DEF hist
<1>2. hist.by \in Seq(Threads) /\ hist.level \in Seq(Nat)
  BY DEF History
<1>3. Append(hist.by, t) \in Seq(Threads) /\ Append(hist.level, level) \in Seq(Nat)
  BY <1>2, SMTT(60)
<1>4. new = [hist EXCEPT !.by = Append(@, t), !.level = Append(@, level)]
  BY DEF Logged, hist
<1> HIDE DEF new
<1>5. new \in History
  BY <1>3, <1>4 DEF History
<1>6. /\ new.by = Append(hist.by, t) /\ new.calls = hist.calls /\ new.configs = hist.configs
      /\ SameHistoryFates(hist, new) /\ new.down = hist.down
  BY <1>4 DEF History, SameHistoryFates
<1> QED BY <1>5, <1>6 DEF new, SameHistoryFates

\* The three ways in which a record is settled.
LEMMA SettledFields ==
    ASSUME NEW hist \in History, NEW r \in Nat, NEW new, Outcome(hist, r, new)
    PROVE  SettledIs(hist, r, new)
<1> USE DEF SettledIs, Outcome
<1>1. hist.written \in Seq(Nat) /\ hist.faults + 1 \in Nat
  BY HistoryNumbers DEF History
<1>2. Append(hist.written, r) \in Seq(Nat)
  BY <1>1, SMTT(60)
<1>3. CASE new = Wrote(hist, r)
  <2>1. new \in History
    BY <1>2, <1>3 DEF History, Wrote
  <2> QED BY <1>3, <2>1 DEF History, Wrote, SameHistory
<1>4. CASE new = [hist EXCEPT !.filtered = @ \cup {r}]
  <2>1. new \in History
    BY <1>4 DEF History
  <2> QED BY <1>4, <2>1 DEF History, SameHistory
<1>5. CASE new = [Wrote(hist, r) EXCEPT !.files = @ \cup {r}]
  <2>1. new = [hist EXCEPT !.written = Append(@, r), !.files = @ \cup {r}]
    BY <1>5 DEF History, Wrote
  <2>2. new \in History
    BY <1>2, <2>1 DEF History
  <2> QED BY <2>1, <2>2 DEF History, SameHistory
<1>6. CASE new = [hist EXCEPT !.dropped = @ \cup {r}, !.faults = @ + 1]
  <2>1. new \in History
    BY <1>1, <1>6 DEF History
  <2> QED BY <1>6, <2>1 DEF History, SameHistory
<1> QED BY <1>3, <1>4, <1>5, <1>6 DEF Filter, WriteFile

\* add_task().
LEMMA AddTaskFields ==
    ASSUME Types, NEW e \in Executors, NEW r \in Nat, NEW hist \in History,
           SameHistoryFates(h, hist), AddTask(e, r, hist)
    PROVE  /\ ExecutorTypes' /\ h' \in History /\ SameHistory(hist, h') /\ Adds(e, r)
<1>1. /\ ExecutorTypes /\ exec[e].q \in Seq(Nat) /\ exec[e].cap \in Nat
  BY SMTT(60) DEF Types, ExecutorTypes
<1> USE <1>1
<1>2. Append(exec[e].q, r) \in Seq(Nat)
  BY BackOf DEF Grows
<1>3. CASE exec' = exec /\ h' = [hist EXCEPT !.dropped = @ \cup {r}]
  <2>1. /\ h' \in History /\ SameHistory(hist, h') /\ h'.written = hist.written
        /\ h'.filtered = hist.filtered /\ h'.dropped = hist.dropped \cup {r}
    BY <1>3 DEF History, SameHistory
  <2> QED BY <1>3, <2>1 DEF Adds, SameQueue, SameHistoryFates, ExecutorTypes
<1>4. CASE /\ Full(exec[e]) /\ h' = [hist EXCEPT !.dropped = @ \cup {Head(exec[e].q)}]
           /\ exec' = [exec EXCEPT ![e].q = Append(Tail(@), r)]
  <2>1. exec[e].q # <<>>
    BY <1>4, SMTT(60) DEF Full
  <2>2. Tail(exec[e].q) \in Seq(Nat) /\ Head(exec[e].q) \in Nat
    BY <2>1, FrontOf DEF Splits
  <2>3. Append(Tail(exec[e].q), r) \in Seq(Nat)
    BY <2>2, BackOf DEF Grows
  <2>4. /\ h' \in History /\ SameHistory(hist, h') /\ h'.written = hist.written
        /\ h'.filtered = hist.filtered /\ h'.dropped = hist.dropped \cup {Head(exec[e].q)}
    BY <1>4, <2>2 DEF History, SameHistory
  <2>5. /\ ExecutorTypes' /\ exec'[e].q = Append(Tail(exec[e].q), r)
        /\ exec'[e].run = exec[e].run /\ \A f \in Executors \ {e} : exec'[f] = exec[f]
    BY <1>4, <2>3 DEF ExecutorTypes
  <2> QED BY <2>1, <2>4, <2>5 DEF Adds, SameQueue, SameHistoryFates
<1>5. CASE h' = hist /\ exec' = [exec EXCEPT ![e].q = Append(@, r)]
  <2>1. /\ ExecutorTypes' /\ exec'[e].q = Append(exec[e].q, r)
        /\ exec'[e].run = exec[e].run /\ \A f \in Executors \ {e} : exec'[f] = exec[f]
    BY <1>2, <1>5 DEF ExecutorTypes
  <2> QED BY <1>5, <2>1 DEF Adds, SameQueue, SameHistoryFates, SameHistory
<1> QED BY <1>3, <1>4, <1>5 DEF AddTask

\* The locals of thread t after a step: a call returns, or goes on at p.
LEMMA ReturnFields ==
    ASSUME Types, NEW t \in Threads, Return(t)
    PROVE  ThreadTypes' /\ Others(t) /\ th'[t].pc = "idle" /\ th'[t].seen = {}
<1>1. Resting \in Locals
  <2>1. 0 \in Executors
    BY BackendAssumption, SMTT(60) DEF Executors
  <2> QED BY <2>1 DEF Types, LoggerTypes, Resting, Locals, Locations
<1>2. th \in [Threads -> Locals] /\ th' = [th EXCEPT ![t] = Resting]
  BY DEF Types, ThreadTypes, Return
<1>3. th'[t] = Resting /\ ThreadTypes' /\ Others(t)
  BY <1>1, <1>2 DEF ThreadTypes, Others
<1>4. Resting.pc = "idle" /\ Resting.seen = {}
  BY DEF Resting
<1> QED BY <1>3, <1>4

\* A call that goes on to its next step keeps its locals.
LEMMA GotoFields ==
    ASSUME Types, NEW t \in Threads, NEW p \in Locations, Goto(t, p)
    PROVE  LocalsAre(t, p, th[t].r, th[t].e, th[t].seen)
  BY DEF Types, ThreadTypes, Locals, Others, Goto, LocalsAre

\* The locals of a call of log() that takes its record.
LEMMA HoldLocals ==
    ASSUME Types, NEW t \in Threads, NEW p \in Locations, NEW r \in Nat, Holds(t, p, r)
    PROVE  LocalsAre(t, p, r, th[t].e, th[t].seen)
<1> USE DEF LocalsAre
<1>1. th \in [Threads -> Locals] /\ th' = [th EXCEPT ![t].pc = p, ![t].r = r]
  BY DEF Types, ThreadTypes, Holds
<1>2. th'[t] = [th[t] EXCEPT !.pc = p, !.r = r] /\ Others(t) /\ th[t] \in Locals
  BY <1>1 DEF Others
<1> USE <1>2
<1>3. [th[t] EXCEPT !.pc = p, !.r = r] \in Locals
  BY DEF Locals
<1>4. th'[t].pc = p /\ th'[t].r = r /\ th'[t].e = th[t].e /\ th'[t].seen = th[t].seen
  BY DEF Locals
<1>5. ThreadTypes'
  BY <1>1, <1>3 DEF ThreadTypes, Others
<1> QED BY <1>4, <1>5

\* The locals of a call of log() that takes its record and the executor.
LEMMA EnqueueLocals ==
    ASSUME Types, NEW t \in Threads, NEW p \in Locations, NEW r \in Nat,
           NEW e \in Executors \cup {Sync}, Enqueues(t, p, r, e)
    PROVE  LocalsAre(t, p, r, e, th[t].seen)
<1> USE DEF LocalsAre
<1>1. th \in [Threads -> Locals] /\ th' = [th EXCEPT ![t].pc = p, ![t].r = r, ![t].e = e]
  BY DEF Types, ThreadTypes, Enqueues
<1>2. th'[t] = [th[t] EXCEPT !.pc = p, !.r = r, !.e = e] /\ Others(t) /\ th[t] \in Locals
  BY <1>1 DEF Others
<1> USE <1>2
<1>3. [th[t] EXCEPT !.pc = p, !.r = r, !.e = e] \in Locals
  BY DEF Locals
<1>4. th'[t].pc = p /\ th'[t].r = r /\ th'[t].e = e /\ th'[t].seen = th[t].seen
  BY DEF Locals
<1>5. ThreadTypes'
  BY <1>1, <1>3 DEF ThreadTypes, Others
<1> QED BY <1>4, <1>5

\* The locals of a call of wait() that looks at the records first.
LEMMA SeenLocals ==
    ASSUME Types, NEW t \in Threads, NEW p \in Locations, NEW s \in SUBSET Nat, Sees(t, p, s)
    PROVE  LocalsAre(t, p, th[t].r, th[t].e, s)
<1> USE DEF LocalsAre
<1>1. th \in [Threads -> Locals] /\ th' = [th EXCEPT ![t].pc = p, ![t].seen = s]
  BY DEF Types, ThreadTypes, Sees
<1>2. th'[t] = [th[t] EXCEPT !.pc = p, !.seen = s] /\ Others(t) /\ th[t] \in Locals
  BY <1>1 DEF Others
<1> USE <1>2
<1>3. [th[t] EXCEPT !.pc = p, !.seen = s] \in Locals
  BY DEF Locals
<1>4. th'[t].pc = p /\ th'[t].r = th[t].r /\ th'[t].e = th[t].e /\ th'[t].seen = s
  BY DEF Locals
<1>5. ThreadTypes'
  BY <1>1, <1>3 DEF ThreadTypes, Others
<1> QED BY <1>4, <1>5

\* The locals of a call that looks up an executor.
LEMMA TargetLocals ==
    ASSUME Types, NEW t \in Threads, NEW p \in Locations, NEW e \in Executors \cup {Sync},
           Targets(t, p, e)
    PROVE  LocalsAre(t, p, th[t].r, e, th[t].seen)
<1> USE DEF LocalsAre
<1>1. th \in [Threads -> Locals] /\ th' = [th EXCEPT ![t].pc = p, ![t].e = e]
  BY DEF Types, ThreadTypes, Targets
<1>2. th'[t] = [th[t] EXCEPT !.pc = p, !.e = e] /\ Others(t) /\ th[t] \in Locals
  BY <1>1 DEF Others
<1> USE <1>2
<1>3. [th[t] EXCEPT !.pc = p, !.e = e] \in Locals
  BY DEF Locals
<1>4. th'[t].pc = p /\ th'[t].r = th[t].r /\ th'[t].e = e /\ th'[t].seen = th[t].seen
  BY DEF Locals
<1>5. ThreadTypes'
  BY <1>1, <1>3 DEF ThreadTypes, Others
<1> QED BY <1>4, <1>5

\* The locals of a call that looks up an executor and the records.
LEMMA WaitLocals ==
    ASSUME Types, NEW t \in Threads, NEW p \in Locations, NEW e \in Executors \cup {Sync},
           NEW s \in SUBSET Nat, WaitsFor(t, p, e, s)
    PROVE  LocalsAre(t, p, th[t].r, e, s)
<1> USE DEF LocalsAre
<1>1. th \in [Threads -> Locals] /\ th' = [th EXCEPT ![t].pc = p, ![t].e = e, ![t].seen = s]
  BY DEF Types, ThreadTypes, WaitsFor
<1>2. th'[t] = [th[t] EXCEPT !.pc = p, !.e = e, !.seen = s] /\ Others(t) /\ th[t] \in Locals
  BY <1>1 DEF Others
<1> USE <1>2
<1>3. [th[t] EXCEPT !.pc = p, !.e = e, !.seen = s] \in Locals
  BY DEF Locals
<1>4. th'[t].pc = p /\ th'[t].r = th[t].r /\ th'[t].e = e /\ th'[t].seen = s
  BY DEF Locals
<1>5. ThreadTypes'
  BY <1>1, <1>3 DEF ThreadTypes, Others
<1> QED BY <1>4, <1>5

\* The locals of a call of set_config() that drains an executor.
LEMMA DrainLocals ==
    ASSUME Types, NEW t \in Threads, NEW p \in Locations, NEW e \in Executors \cup {Sync},
           NEW c \in Config, Drains(t, p, e, c)
    PROVE  LocalsAre(t, p, th[t].r, e, th[t].seen)
<1> USE DEF LocalsAre
<1>1. th \in [Threads -> Locals] /\ th' = [th EXCEPT ![t].pc = p, ![t].e = e, ![t].config = c]
  BY DEF Types, ThreadTypes, Drains
<1>2. th'[t] = [th[t] EXCEPT !.pc = p, !.e = e, !.config = c] /\ Others(t) /\ th[t] \in Locals
  BY <1>1 DEF Others
<1> USE <1>2
<1>3. [th[t] EXCEPT !.pc = p, !.e = e, !.config = c] \in Locals
  BY DEF Locals
<1>4. th'[t].pc = p /\ th'[t].r = th[t].r /\ th'[t].e = e /\ th'[t].seen = th[t].seen
  BY DEF Locals
<1>5. ThreadTypes'
  BY <1>1, <1>3 DEF ThreadTypes, Others
<1> QED BY <1>4, <1>5

\* The locals of a call of set_config() that does not.
LEMMA ConfigLocals ==
    ASSUME Types, NEW t \in Threads, NEW p \in Locations, NEW c \in Config, Configures(t, p, c)
    PROVE  LocalsAre(t, p, th[t].r, th[t].e, th[t].seen)
<1> USE DEF LocalsAre
<1>1. th \in [Threads -> Locals] /\ th' = [th EXCEPT ![t].pc = p, ![t].config = c]
  BY DEF Types, ThreadTypes, Configures
<1>2. th'[t] = [th[t] EXCEPT !.pc = p, !.config = c] /\ Others(t) /\ th[t] \in Locals
  BY <1>1 DEF Others
<1> USE <1>2
<1>3. [th[t] EXCEPT !.pc = p, !.config = c] \in Locals
  BY DEF Locals
<1>4. th'[t].pc = p /\ th'[t].r = th[t].r /\ th'[t].e = th[t].e /\ th'[t].seen = th[t].seen
  BY DEF Locals
<1>5. ThreadTypes'
  BY <1>1, <1>3 DEF ThreadTypes, Others
<1> QED BY <1>4, <1>5

\* A wait() notes which executor it waits for and which records it saw.
LEMMA WaitFields ==
    ASSUME Types, NEW t \in Threads, NEW p \in Locations, WaitFor(t, p)
    PROVE  LocalsAre(t, p, th[t].r, WaitTarget, Returned)
<1> USE DEF LocalsAre
<1>1. WaitTarget \in Executors \cup {Sync}
  BY NumberTypes DEF WaitTarget, NumbersTyped
<1>2. Returned \in SUBSET Nat
  BY QueueTypes DEF Returned, Ids, QueuesTyped
<1>3. PICK e \in Executors \cup {Sync} : e = WaitTarget
  BY <1>1
<1>4. PICK s \in SUBSET Nat : s = Returned
  BY <1>2
<1>5. WaitsFor(t, p, e, s)
  BY <1>3, <1>4 DEF WaitFor, WaitsFor
<1>6. /\ ThreadTypes' /\ Others(t) /\ th'[t].pc = p /\ th'[t].r = th[t].r
      /\ th'[t].e = e /\ th'[t].seen = s
  BY <1>5, WaitLocals DEF LocalsAre
<1> QED BY <1>3, <1>4, <1>6

\* Taking the lifecycle mutex.
LEMMA LockFields ==
    ASSUME Types, NEW t \in Threads, kind' = kind, lg' = [lg EXCEPT !.lifecycle = t]
    PROVE  LoggerIs(t, lg.shutdown, lg.pending)
<1> USE DEF LoggerIs
<1>1. lg \in Fields
  BY DEF Types, LoggerTypes
<1>2. lg' \in Fields
  BY <1>1 DEF Fields
<1>3. LoggerTypes'
  BY <1>2 DEF Types, LoggerTypes, Resting
<1> QED BY <1>1, <1>3 DEF SameLogger, Fields

\* Releasing the lifecycle mutex, where the caller holds it.
LEMMA ReleaseFields ==
    ASSUME Types, NEW t \in Threads, kind' = kind, lg' = Release(t)
    PROVE  LoggerIs(IF lg.lifecycle = t THEN None ELSE lg.lifecycle, lg.shutdown, lg.pending)
<1> USE DEF LoggerIs
<1> DEFINE next == IF lg.lifecycle = t THEN None ELSE lg.lifecycle
<1>1. lg \in Fields /\ lg.lifecycle \in Threads \cup {None}
  BY DEF Types, LoggerTypes, Fields
<1> USE <1>1
<1>2. lg' = [lg EXCEPT !.lifecycle = next] /\ next \in Threads \cup {None}
  BY DEF Release
<1> HIDE DEF next
<1>3. lg' \in Fields /\ lg'.lifecycle = next
  BY <1>2 DEF Fields
<1>4. LoggerTypes'
  BY <1>3 DEF Types, LoggerTypes, Resting
<1>5. SameLogger /\ lg'.shutdown = lg.shutdown /\ lg'.pending = lg.pending
  BY <1>2 DEF SameLogger, Fields
<1> QED BY <1>3, <1>4, <1>5 DEF next

\* Setting the count of enqueuing calls.
LEMMA PendingFields ==
    ASSUME Types, NEW n \in Int, kind' = kind, SetsPending(n)
    PROVE  LoggerIs(lg.lifecycle, lg.shutdown, n)
<1> USE DEF LoggerIs
<1>1. lg \in Fields /\ lg' = [lg EXCEPT !.pending = n]
  BY DEF Types, LoggerTypes, SetsPending
<1>2. lg' \in Fields
  BY <1>1 DEF Fields
<1>3. LoggerTypes'
  BY <1>2 DEF Types, LoggerTypes, Resting
<1> QED BY <1>1, <1>3 DEF SameLogger, Fields

\* Setting the shutdown flag.
LEMMA ShutdownFields ==
    ASSUME Types, kind' = kind, lg' = [lg EXCEPT !.shutdown = TRUE]
    PROVE  /\ LoggerTypes' /\ SameLogger /\ lg'.lifecycle = lg.lifecycle
           /\ lg'.shutdown /\ lg'.pending = lg.pending
<1>1. lg \in Fields
  BY DEF Types, LoggerTypes
<1>2. lg' \in Fields
  BY <1>1 DEF Fields
<1>3. LoggerTypes'
  BY <1>2 DEF Types, LoggerTypes, Resting
<1> QED BY <1>1, <1>3 DEF SameLogger, Fields

\* A step that leaves the logger's fields alone.
LEMMA SameFields ==
    ASSUME Types, kind' = kind, lg' = lg
    PROVE  LoggerIs(lg.lifecycle, lg.shutdown, lg.pending)
  BY DEF Types, LoggerTypes, SameLogger, Resting, LoggerIs
-----------------------------------------------------------------------------
(* Facts the steps share *)

\* The records of the calls that have returned are in an executor or settled.
LEMMA ReturnedArePlaced ==
    ASSUME PlaceInv
    PROVE  \A r \in Returned : r \in Ids /\ Placed(r)
<1>1. \A t \in Holders : th[t].r \in Entering
  BY DEF Holders, At, Entering
<1> QED BY <1>1 DEF PlaceInv, Placed, Returned, Ids

\* A step that does not belong to shutdown() does not disturb one.
LEMMA QuietKept ==
    ASSUME QuietInv, NEW t \in Threads, Others(t), Quiet(t)
    PROVE  QuietInv'
<1> DEFINE A == At(Stopping)  B == At({"stop", "down"})  C == At({"add", "enqueue", "finish"})
<1>1. A' \subseteq A /\ B' \subseteq B
  <2>1. /\ th'[t].pc \in Stopping => At(Stopping)' = At(Stopping) \cup {t}
        /\ th'[t].pc \notin Stopping => At(Stopping)' = At(Stopping) \ {t}
        /\ th[t].pc \in Stopping <=> t \in At(Stopping)
    BY WhoIsWhere DEF Whereabouts
  <2>2. /\ th'[t].pc \in {"stop", "down"} => B' = B \cup {t}
        /\ th'[t].pc \notin {"stop", "down"} => B' = B \ {t}
        /\ th[t].pc \in {"stop", "down"} <=> t \in B
    BY WhoIsWhere DEF Whereabouts
  <2> HIDE DEF B
  <2> QED BY <2>1, <2>2 DEF Quiet
<1>2. /\ th'[t].pc \in {"add", "enqueue", "finish"} => C' = C \cup {t}
      /\ th'[t].pc \notin {"add", "enqueue", "finish"} => C' = C \ {t}
      /\ th[t].pc \in {"add", "enqueue", "finish"} <=> t \in C
  BY WhoIsWhere DEF Whereabouts
<1>3. th[t].pc = "down" => t \in B
  BY DEF At
<1>4. /\ \A u, v \in A : u = v
      /\ h.down \/ B # {} => lg.shutdown /\ C = {}
  BY DEF QuietInv, Stopping
<1> HIDE DEF A, B, C
<1>5. \A u, v \in A' : u = v
  BY <1>1, <1>4
<1>6. ASSUME h'.down \/ B' # {} PROVE lg'.shutdown /\ C' = {}
  <2>1. h.down \/ B # {}
    BY <1>1, <1>3, <1>6 DEF Quiet
  <2> QED BY <1>2, <1>4, <2>1 DEF Quiet
<1> QED BY <1>5, <1>6 DEF QuietInv, A, B, C, Stopping

\* The bounds on calls and executors, when a call begins or none does.
LEMMA BoundKept ==
    ASSUME Types, BoundInv, Begins, lg'.made = lg.made, lg'.executor = lg.executor
    PROVE  BoundInv' /\ h'.configs >= h.configs
<1>1. h.configs \in Nat /\ h.calls \in Nat /\ MaxCalls \in Nat
  BY NumberTypes DEF NumbersTyped
<1>2. h'.configs <= h'.calls /\ h'.calls <= MaxCalls /\ h'.configs >= h.configs
  BY <1>1, SMTT(60) DEF BoundInv, Begins
<1> QED BY <1>2 DEF BoundInv

\* Whoever else holds a record does so after a step of thread t.
LEMMA OtherHoldersLeft ==
    ASSUME NEW t \in Threads, Others(t)
    PROVE  HoldersLeft({t})
<1>1. ASSUME NEW u \in Threads \ {t}
      PROVE  (u \in Holders' <=> u \in Holders) /\ th'[u].r = th[u].r
  BY DEF Others, Holders, At
<1>2. Holders \subseteq Threads /\ Holders' \subseteq Threads
  BY DEF Holders, At
<1> QED BY <1>1, <1>2 DEF HoldersLeft

\* A step that moves no record and leaves the executor in use alone.
LEMMA StillStep ==
    ASSUME CallInv, NEW t \in Threads, Still(t), Begins, LockOk(t)', Draining' => TargetOk(t)',
           QuietInv', Draining' /\ h'.down => h.down \/ AllIdle
    PROVE  CallInv'
<1>1. Types /\ RecordInv /\ BoundInv /\ HomeInv /\ SeenInv /\ Types'
  BY DEF CallInv, RecordInv, Still
<1> USE <1>1
<1>2. BoundInv' /\ h'.configs >= h.configs
  BY BoundKept DEF Still
<1> USE <1>2
<1>3. Draining' => Draining
  BY DrainedBefore DEF Still
<1>4. HoldersLeft({})
  <2>1. t \notin Holders /\ t \notin Holders' /\ HoldersLeft({t})
    BY OtherHoldersLeft DEF Still, Holders, At
  <2> QED BY <2>1 DEF HoldersLeft
<1>5. RecordInv' /\ KeepsPlaces /\ Ids' = Ids
  BY <1>3, <1>4, KeepRecords DEF Still
<1> USE <1>5
<1>6. Calm(t)
  BY DEF Still, Calm
<1>7. SeenOk(t)'
  <2> SUFFICES ASSUME th'[t].pc \in {"pending", "wait", "clearwait"}
               PROVE  \A r \in th'[t].seen : r \in Ids' /\ Placed(r)'
    BY DEF SeenOk
  <2>1. CASE th'[t].seen = Returned
    BY <2>1, ReturnedArePlaced DEF KeepsPlaces, RecordInv
  <2>2. CASE th[t].pc = "pending" /\ th'[t].seen = th[t].seen
    BY <2>2 DEF KeepsPlaces, SeenInv, SeenOk
  <2> QED BY <2>1, <2>2 DEF Still
<1>8. Calmed
  <2>1. \A e \in Executors : Idle(e)' <=> Idle(e)
    BY DEF Still, SameQueue, Idle
  <2>2. AllIdle' <=> AllIdle
    BY <2>1 DEF AllIdle
  <2> QED BY <1>3, <2>1, <2>2 DEF Calmed, HomeInv
<1> QED BY <1>6, <1>7, <1>8, CalmStep

\* A step that, besides, leaves configuration and shutdown flag alone.
LEMMA PlainStep ==
    ASSUME CallInv, NEW t \in Threads, Plain(t), LockOk(t)', Draining' => TargetOk(t)'
    PROVE  CallInv' /\ Counts(t)
<1>1. Begins
  BY DEF Plain, Begins
<1>2. Still(t)
  BY DEF Plain, Still, Types, Configuring
<1>3. QuietInv'
  <2>1. Quiet(t) /\ Others(t) /\ QuietInv
    BY DEF Plain, Quiet, Stopping, CallInv
  <2> QED BY <2>1, QuietKept
<1>4. h'.down => h.down
  BY DEF Plain
<1>5. CallInv'
  BY <1>1, <1>2, <1>3, <1>4, StillStep
<1>6. h'.configs >= h.configs
  <2>1. h.configs \in Nat /\ h'.configs = h.configs
    BY NumberTypes DEF CallInv, Plain, NumbersTyped
  <2> QED BY <2>1, SMTT(60)
<1>7. Counts(t)
  BY <1>6 DEF Plain, Counts, Enqueuing, Configuring
<1> QED BY <1>5, <1>7

\* What does not change has its type and moves nothing.
LEMMA Unmoved ==
    ASSUME Types
    PROVE  KeptParts
<1> USE DEF KeptParts
<1>1. exec' = exec => ExecutorTypes' /\ \A e \in Executors : SameQueue(e)
  BY DEF Types, ExecutorTypes, SameQueue
<1>2. info' = info => InfoTypes'
  BY DEF Types, InfoTypes
<1>3. h' = h => /\ HistoryTypes' /\ SameFates /\ h'.by = h.by /\ h'.down = h.down
                /\ h'.calls = h.calls /\ h'.configs = h.configs
  BY DEF Types, HistoryTypes, SameFates
<1>4. ASSUME h' = Counted
      PROVE  /\ HistoryTypes' /\ SameFates /\ h'.by = h.by /\ h'.down = h.down
             /\ h'.calls = h.calls + 1 /\ h'.configs = h.configs
  BY <1>4, CountedFields DEF HistoryTypes, SameFates, SameHistoryFates, CountedIs
<1>5. ASSUME h' = Configured
      PROVE  /\ HistoryTypes' /\ SameFates /\ h'.by = h.by /\ h'.down = h.down
             /\ h'.calls = h.calls + 1 /\ h'.configs = h.configs + 1
  BY <1>5, ConfiguredFields DEF HistoryTypes, SameFates, SameHistoryFates, ConfiguredIs
<1> QED BY <1>1, <1>2, <1>3, <1>4, <1>5
-----------------------------------------------------------------------------
(* The calls that wait, and clear_logs() *)

\* wait() and the wait of clear_logs(), of the classes with a lifecycle mutex.
LEMMA LockedWaitStep ==
    ASSUME CallInv, NEW t \in Threads, NEW p \in {"wait", "clearwait"}, Locked, LockedWait(t, p)
    PROVE  CallInv' /\ Counts(t)
<1>1. /\ Types /\ th[t].pc = "idle" /\ h.calls < MaxCalls /\ lg.lifecycle = None
      /\ kind' = kind /\ lg' = [lg EXCEPT !.lifecycle = t] /\ WaitFor(t, p)
      /\ h' = Counted /\ exec' = exec /\ info' = info
  BY DEF LockedWait, Enter, Call, CallInv
<1> USE <1>1
<1>2. /\ LoggerTypes' /\ SameLogger /\ lg'.lifecycle = t /\ lg'.shutdown = lg.shutdown
      /\ lg'.pending = lg.pending
  BY LockFields DEF LoggerIs
<1> USE <1>2
<1>3. /\ ThreadTypes' /\ Others(t) /\ th'[t].pc = p
      /\ th'[t].e = WaitTarget /\ th'[t].seen = Returned
  <2>1. p \in Locations
    BY DEF Locations
  <2> QED BY <2>1, WaitFields DEF LocalsAre
<1> USE <1>3
<1>4. None \notin Threads
  BY BackendAssumption DEF None
<1>5. Plain(t)
  BY <1>4, Unmoved DEF Plain, SameLogger, Stopping, KeptParts
<1>6. LockOk(t)'
  BY DEF LockOk, Locked
<1>7. TargetOk(t)'
  BY DEF TargetOk, WaitTarget, SameLogger
<1> QED BY <1>5, <1>6, <1>7, PlainStep

\* wait() of SyslogLogger and EventLogLogger.
LEMMA UnlockedWaitStep ==
    ASSUME CallInv, NEW t \in Threads, kind \in {"syslog", "eventlog"}, UnlockedWait(t)
    PROVE  CallInv' /\ Counts(t)
<1>1. /\ Types /\ th[t].pc = "idle" /\ h.calls < MaxCalls
      /\ kind' = kind /\ lg' = lg /\ WaitFor(t, "wait") /\ h' = Counted
      /\ exec' = exec /\ info' = info
  BY DEF UnlockedWait, Call, CallInv
<1> USE <1>1
<1>2. LoggerTypes' /\ SameLogger
  BY SameFields DEF LoggerIs
<1>3. /\ ThreadTypes' /\ Others(t) /\ th'[t].pc = "wait"
      /\ th'[t].e = WaitTarget /\ th'[t].seen = Returned
  <2>1. "wait" \in Locations
    BY DEF Locations
  <2> QED BY <2>1, WaitFields DEF LocalsAre
<1> USE <1>3
<1>4. Plain(t)
  BY <1>2, Unmoved DEF Plain, SameLogger, Stopping, KeptParts
<1>5. LockOk(t)'
  BY DEF LockOk, Locked
<1>6. TargetOk(t)'
  BY DEF TargetOk, WaitTarget
<1> QED BY <1>4, <1>5, <1>6, PlainStep

\* wait() of ConsoleLogger begins with the calls that are enqueuing.
LEMMA ConsoleWaitStep ==
    ASSUME CallInv, NEW t \in Threads, ConsoleLogger_wait(t)
    PROVE  CallInv' /\ Counts(t)
<1>1. /\ Types /\ th[t].pc = "idle" /\ h.calls < MaxCalls /\ kind = "console"
      /\ kind' = kind /\ lg' = lg /\ h' = Counted /\ exec' = exec /\ info' = info
      /\ th' = [th EXCEPT ![t].pc = "pending", ![t].seen = Returned]
  BY DEF ConsoleLogger_wait, Call, CallInv
<1> USE <1>1
<1>2. LoggerTypes' /\ SameLogger
  BY SameFields DEF LoggerIs
<1>3. ThreadTypes' /\ Others(t) /\ th'[t].pc = "pending" /\ th'[t].seen = Returned
  <2>1. "pending" \in Locations
    BY DEF Locations
  <2>2. Returned \in SUBSET Nat
    BY QueueTypes DEF Returned, Ids, QueuesTyped
  <2>3. PICK s \in SUBSET Nat : s = Returned
    BY <2>2
  <2>4. Sees(t, "pending", s)
    BY <2>3 DEF Sees
  <2> QED BY <2>1, <2>3, <2>4, SeenLocals DEF LocalsAre
<1>4. Plain(t)
  BY <1>2, <1>3, Unmoved DEF Plain, SameLogger, Stopping, KeptParts
<1>5. LockOk(t)' /\ TargetOk(t)'
  BY <1>3 DEF LockOk, TargetOk
<1> QED BY <1>4, <1>5, PlainStep

\* It goes on with the executor in use once nobody is enqueuing.
LEMMA PendingStep ==
    ASSUME CallInv, NEW t \in Threads, wait_for_pending_enqueues(t)
    PROVE  CallInv' /\ Counts(t)
<1>1. /\ Types /\ LockOk(t) /\ th[t].pc = "pending"
      /\ kind' = kind /\ lg' = lg /\ h' = h /\ exec' = exec /\ info' = info
      /\ th' = [th EXCEPT ![t].pc = "wait", ![t].e = WaitTarget]
  BY DEF wait_for_pending_enqueues, CallInv, LockInv
<1> USE <1>1
<1>2. LoggerTypes' /\ SameLogger
  BY SameFields DEF LoggerIs
<1>3. /\ ThreadTypes' /\ Others(t) /\ th'[t].pc = "wait" /\ th'[t].e = WaitTarget
      /\ th'[t].seen = th[t].seen
  <2>1. "wait" \in Locations
    BY DEF Locations
  <2>2. WaitTarget \in Executors \cup {Sync}
    BY NumberTypes DEF WaitTarget, NumbersTyped
  <2>3. PICK e \in Executors \cup {Sync} : e = WaitTarget
    BY <2>2
  <2>4. Targets(t, "wait", e)
    BY <2>3 DEF Targets
  <2> QED BY <2>1, <2>3, <2>4, TargetLocals DEF LocalsAre
<1> USE <1>3
<1>4. Plain(t)
  BY <1>2, Unmoved DEF Plain, SameLogger, Stopping, KeptParts
<1>5. LockOk(t)'
  BY DEF LockOk, Locked
<1>6. TargetOk(t)'
  BY DEF TargetOk, WaitTarget
<1> QED BY <1>4, <1>5, <1>6, PlainStep

\* A call that returns, or goes on at p, and releases the mutex if it holds it.
LEMMA LeaveStep ==
    ASSUME CallInv, NEW t \in Threads, Leaves(t)
    PROVE  CallInv' /\ Counts(t)
<1> USE DEF Leaves
<1>1. Types
  BY DEF CallInv
<1> USE <1>1
<1>2. /\ LoggerTypes' /\ SameLogger /\ lg'.shutdown = lg.shutdown /\ lg'.pending = lg.pending
      /\ \A u \in Threads \ {t} : lg.lifecycle = u => lg'.lifecycle = u
  BY SameFields, ReleaseFields DEF LoggerIs
<1>3. ThreadTypes' /\ Others(t) /\ th'[t].pc \in {"idle", "clear"}
  <2>1. "clear" \in Locations
    BY DEF Locations
  <2> QED BY <2>1, ReturnFields, GotoFields DEF LocalsAre
<1>4. Plain(t)
  BY <1>2, <1>3, Unmoved DEF Plain, SameLogger, Stopping, KeptParts
<1>5. LockOk(t)' /\ TargetOk(t)'
  BY <1>3 DEF LockOk, TargetOk
<1> QED BY <1>4, <1>5, PlainStep

\* get_last_log_file_name() begins.
LEMMA GetStep ==
    ASSUME CallInv, NEW t \in Threads, get_last_log_file(t)
    PROVE  CallInv' /\ Counts(t)
<1>1. /\ Types /\ th[t].pc = "idle" /\ h.calls < MaxCalls /\ Goto(t, "get")
      /\ kind' = kind /\ lg' = lg /\ h' = Counted /\ exec' = exec /\ info' = info
  BY DEF get_last_log_file, Call, CallInv
<1> USE <1>1
<1>2. LoggerTypes' /\ SameLogger
  BY SameFields DEF LoggerIs
<1>3. ThreadTypes' /\ Others(t) /\ th'[t].pc = "get"
  <2>1. "get" \in Locations
    BY DEF Locations
  <2> QED BY <2>1, GotoFields DEF LocalsAre
<1>4. Plain(t)
  BY <1>2, <1>3, Unmoved DEF Plain, SameLogger, Stopping, KeptParts
<1>5. LockOk(t)' /\ TargetOk(t)'
  BY <1>3 DEF LockOk, TargetOk
<1> QED BY <1>4, <1>5, PlainStep

\* ConsoleLogger counts a call off that has enqueued its task.
LEMMA FinishStep ==
    ASSUME CallInv, NEW t \in Threads, finish_pending_enqueue(t)
    PROVE  CallInv' /\ Counts(t)
<1>1. /\ Types /\ th[t].pc = "finish" /\ Return(t) /\ lg' = [lg EXCEPT !.pending = @ - 1]
      /\ kind' = kind /\ h' = h /\ exec' = exec /\ info' = info
  BY DEF finish_pending_enqueue, CallInv
<1> USE <1>1
<1>2. /\ LoggerTypes' /\ SameLogger /\ lg'.shutdown = lg.shutdown
      /\ lg'.lifecycle = lg.lifecycle /\ lg'.pending = lg.pending - 1
  <2>1. lg.pending \in Int
    BY NumberTypes DEF NumbersTyped
  <2>2. lg.pending - 1 \in Int
    BY <2>1, SMTT(60)
  <2>3. PICK n \in Int : n = lg.pending - 1
    BY <2>2
  <2>4. SetsPending(n)
    BY <2>3 DEF SetsPending
  <2> QED BY <2>3, <2>4, PendingFields DEF LoggerIs
<1>3. ThreadTypes' /\ Others(t) /\ th'[t].pc = "idle"
  BY ReturnFields
<1>4. Plain(t)
  BY <1>2, <1>3, Unmoved DEF Plain, SameLogger, Stopping, KeptParts
<1>5. LockOk(t)' /\ TargetOk(t)'
  BY <1>3 DEF LockOk, TargetOk
<1> QED BY <1>4, <1>5, PlainStep

\* The files are removed; the records' fates stay what they were.
LEMMA ClearStep ==
    ASSUME CallInv, NEW t \in Threads, clear_files(t)
    PROVE  CallInv' /\ Counts(t)
<1>1. /\ Types /\ th[t].pc = "clear" /\ Return(t) /\ kind' = kind /\ lg' = lg /\ exec' = exec
      /\ (h' = h /\ info' = info) \/ /\ h' = [h EXCEPT !.files = {}, !.clears = @ + 1]
                                     /\ info' \in {info, [u \in Threads |-> NoInfo]}
  BY DEF clear_files, CallInv
<1> USE <1>1
<1>2. LoggerTypes' /\ SameLogger
  BY SameFields DEF LoggerIs
<1>3. ThreadTypes' /\ Others(t) /\ th'[t].pc = "idle"
  BY ReturnFields
<1>4. InfoTypes'
  <2>1. NoInfo \in [pending_logs : Int, last : Int]
    BY SMTT(60) DEF NoInfo, Absent
  <2> QED BY <2>1 DEF Types, InfoTypes
<1>5. /\ HistoryTypes' /\ SameFates /\ h'.by = h.by /\ h'.down = h.down
      /\ h'.calls = h.calls /\ h'.configs = h.configs
  <2>1. CASE h' = h
    BY <2>1, Unmoved DEF KeptParts
  <2>2. CASE h' = [h EXCEPT !.files = {}, !.clears = @ + 1]
    <3>1. h \in History /\ h.clears + 1 \in Nat
      BY HistoryNumbers DEF Types, HistoryTypes
    <3>2. h' \in History
      BY <2>2, <3>1 DEF History
    <3> QED BY <2>2, <3>1, <3>2 DEF HistoryTypes, History, SameFates
  <2> QED BY <2>1, <2>2
<1>6. Plain(t)
  BY <1>2, <1>3, <1>4, <1>5, Unmoved DEF Plain, SameLogger, Stopping, KeptParts
<1>7. LockOk(t)' /\ TargetOk(t)'
  BY <1>3 DEF LockOk, TargetOk
<1> QED BY <1>6, <1>7, PlainStep
=============================================================================
