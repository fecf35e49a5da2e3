------------------------ MODULE AsyncBackendsProofs -------------------------
(***************************************************************************)
(* Proofs about the backends on an executor, for any threads, levels,      *)
(* configurations and numbers of calls and faults.                         *)
(*                                                                         *)
(* That nothing is lost or written twice follows from every record having  *)
(* one place (PlaceInv), also where a ConsoleLogger changes executors      *)
(* without draining.  The order of a thread's records and what wait() and  *)
(* shutdown() promise need more: where the logger drains before it         *)
(* switches, only one executor ever has work (HomeInv), because whoever    *)
(* switches holds the lifecycle mutex, or because no call is enqueuing     *)
(* (LockInv, CountInv).                                                    *)
(***************************************************************************)
EXTENDS AsyncBackendsLemmas

\* The prover of the steps that name none.
USE ZenonT(60)
-----------------------------------------------------------------------------
(* Configuration and shutdown() *)

\* A stop or a new limit leaves the tasks of every executor alone.
LEMMA SameQueuesKept ==
    ASSUME Types, NEW e, Stops(e) \/ \E c \in Config : Limits(e, c)
    PROVE  ExecutorTypes' /\ \A f \in Executors : SameQueue(f)
<1> DEFINE Executor == [q : Seq(Nat), run : Nat, stop : BOOLEAN, cap : Nat, policy : Policies]
<1>1. exec \in [Executors -> Executor]
  BY DEF Types, ExecutorTypes
<1> USE <1>1
<1>2. CASE Stops(e)
  <2>1. exec' \in [Executors -> Executor]
    BY <1>2 DEF Stops
  <2>2. \A f \in Executors : SameQueue(f)
    BY <1>2 DEF Stops, SameQueue
  <2> QED BY <2>1, <2>2 DEF ExecutorTypes
<1>3. ASSUME NEW c \in Config, Limits(e, c)
      PROVE  ExecutorTypes' /\ \A f \in Executors : SameQueue(f)
  <2>1. c.cap \in Nat /\ c.policy \in Policies
    BY DEF Config, Policies
  <2>2. PICK k \in Nat, p \in Policies : k = c.cap /\ p = c.policy
    BY <2>1
  <2>3. exec' = [exec EXCEPT ![e].cap = k, ![e].policy = p]
    BY <1>3, <2>2 DEF Limits
  <2>4. ASSUME NEW f \in Executors
        PROVE  exec'[f] \in Executor /\ SameQueue(f)
    <3>1. CASE f = e
      <4>1. exec'[f] = [exec[f] EXCEPT !.cap = k, !.policy = p] /\ exec[f] \in Executor
        BY <2>3, <3>1
      <4>2. exec'[f] \in Executor
        BY <4>1
      <4> QED BY <4>1, <4>2 DEF SameQueue
    <3>2. CASE f # e
      BY <2>3, <3>2 DEF SameQueue
    <3> QED BY <3>1, <3>2
  <2>5. exec' \in [Executors -> Executor]
    <3> HIDE DEF Executor
    <3> QED BY <2>3, <2>4
  <2> QED BY <2>4, <2>5 DEF ExecutorTypes
<1> QED BY <1>2, <1>3

\* The executor that was replaced is stopped.
LEMMA RetireStep ==
    ASSUME CallInv, NEW t \in Threads, retire(t)
    PROVE  CallInv' /\ Counts(t)
<1>1. /\ Types /\ th[t].pc = "retire" /\ Goto(t, "join") /\ kind' = kind /\ lg' = lg /\ h' = h
      /\ info' = info /\ exec' = [exec EXCEPT ![th[t].e].stop = TRUE]
  BY DEF retire, CallInv
<1> USE <1>1
<1>2. LoggerTypes' /\ SameLogger
  BY SameFields DEF LoggerIs
<1>3. ThreadTypes' /\ Others(t) /\ th'[t].pc = "join"
  <2>1. "join" \in Locations
    BY DEF Locations
  <2> QED BY <2>1, GotoFields DEF LocalsAre
<1>4. ExecutorTypes' /\ \A f \in Executors : SameQueue(f)
  <2>1. PICK e : e = th[t].e
    OBVIOUS
  <2>2. Stops(e)
    BY <2>1 DEF Stops
  <2> QED BY <2>2, SameQueuesKept
<1>5. Plain(t)
  BY <1>2, <1>3, <1>4, Unmoved DEF Plain, SameLogger, Stopping, KeptParts
<1>6. LockOk(t)' /\ TargetOk(t)'
  BY <1>3 DEF LockOk, TargetOk
<1> QED BY <1>5, <1>6, PlainStep

\* A call that is over at once, and changes a level or a limit.
LEMMA SettingStep ==
    ASSUME CallInv, NEW t \in Threads, Sets(t)
    PROVE  CallInv' /\ Counts(t)
<1> USE DEF Sets
<1>1. Types /\ th[t].pc = "idle" /\ h.calls < MaxCalls
  BY DEF CallInv, Call
<1>2. ThreadTypes' /\ Others(t) /\ th'[t].pc = "idle"
  BY <1>1 DEF Types, ThreadTypes, Others
<1>3. Plain(t)
  BY <1>1, <1>2, Unmoved DEF Plain, Stopping, KeptParts
<1>4. LockOk(t)' /\ TargetOk(t)'
  BY <1>2 DEF LockOk, TargetOk
<1> QED BY <1>3, <1>4, PlainStep

\* set_log_level().
LEMMA LevelStep ==
    ASSUME CallInv, NEW t \in Threads, set_log_level(t)
    PROVE  CallInv' /\ Counts(t)
<1>1. PICK level \in Levels :
        /\ Call(t) /\ lg' = [lg EXCEPT !.level = level] /\ kind' = kind /\ th' = th
        /\ info' = info /\ h' = Counted /\ exec' = exec
  BY DEF set_log_level
<1> USE <1>1
<1>2. Types /\ level \in Nat /\ lg \in Fields
  BY BackendAssumption DEF CallInv, Types, LoggerTypes
<1> USE <1>2
<1>3. lg' \in Fields
  BY DEF Fields
<1>4. /\ lg'.config = lg.config /\ lg'.executor = lg.executor /\ lg'.made = lg.made
      /\ lg'.shutdown = lg.shutdown /\ lg'.lifecycle = lg.lifecycle
      /\ lg'.pending = lg.pending
  BY DEF Fields
<1>5. LoggerTypes'
  BY <1>3 DEF Types, LoggerTypes, Resting
<1> QED BY <1>4, <1>5, Unmoved, SettingStep DEF KeptParts, Sets

\* set_queue_config().
LEMMA QueueConfigStep ==
    ASSUME CallInv, NEW t \in Threads, NEW c \in Configs, SetQueueConfig(t, c)
    PROVE  CallInv' /\ Counts(t)
<1>1. /\ Call(t) /\ lg' = [lg EXCEPT !.config.cap = c.cap, !.config.policy = c.policy]
      /\ exec' = IF lg.executor = 0 THEN exec
                 ELSE [exec EXCEPT ![lg.executor].cap = c.cap, ![lg.executor].policy = c.policy]
      /\ kind' = kind /\ th' = th /\ info' = info /\ h' = Counted
  BY DEF SetQueueConfig, Enter
<1> USE <1>1
<1>2. Types /\ c \in Config /\ lg \in Fields /\ lg.config \in Config
  BY BackendAssumption DEF CallInv, Types, LoggerTypes, Fields
<1> USE <1>2
<1>3. c.cap \in Nat /\ c.policy \in {"Block", "DropNewest", "DropOldest"}
  BY DEF Config
<1> DEFINE new == [lg.config EXCEPT !.cap = c.cap, !.policy = c.policy]
<1>4. new \in Config /\ new.async = lg.config.async /\ new.own = lg.config.own
  BY <1>3 DEF Config
<1>5. lg' = [lg EXCEPT !.config = new]
  BY DEF Fields
<1> HIDE DEF new
<1>6. lg' \in Fields
  BY <1>4, <1>5 DEF Fields
<1>7. /\ lg'.config = new /\ lg'.executor = lg.executor /\ lg'.made = lg.made
      /\ lg'.shutdown = lg.shutdown /\ lg'.lifecycle = lg.lifecycle
      /\ lg'.pending = lg.pending
  BY <1>5 DEF Fields
<1>8. LoggerTypes'
  BY <1>6 DEF Types, LoggerTypes, Resting
<1>9. ExecutorTypes' /\ \A f \in Executors : SameQueue(f)
  <2>1. PICK e : e = lg.executor
    OBVIOUS
  <2>2. exec' = exec \/ Limits(e, c)
    BY <2>1 DEF Limits
  <2> QED BY <2>2, Unmoved, SameQueuesKept DEF KeptParts
<1> QED BY <1>4, <1>7, <1>8, <1>9, SettingStep DEF Sets

\* shutdown() stops the executor, or takes the mutex in which it waits.
LEMMA StopStep ==
    ASSUME CallInv, NEW t \in Threads, shutdown_stop(t)
    PROVE  CallInv' /\ Counts(t)
<1>1. /\ Types /\ LockOk(t) /\ th[t].pc = "stop" /\ Goto(t, "down")
      /\ kind' = kind /\ info' = info /\ h' = h
      /\ \/ exec' = [exec EXCEPT ![th[t].e].stop = TRUE] /\ lg' = lg
         \/ lg.lifecycle = None /\ lg' = [lg EXCEPT !.lifecycle = t] /\ exec' = exec
         \/ lg' = lg /\ exec' = exec
  BY DEF shutdown_stop, CallInv, LockInv
<1> USE <1>1
<1>2. ThreadTypes' /\ Others(t) /\ th'[t].pc = "down" /\ th'[t].e = th[t].e
  <2>1. "down" \in Locations
    BY DEF Locations
  <2> QED BY <2>1, GotoFields DEF LocalsAre
<1> USE <1>2
<1>3. ExecutorTypes' /\ \A f \in Executors : SameQueue(f)
  <2>1. PICK e : e = th[t].e
    OBVIOUS
  <2>2. exec' = exec \/ Stops(e)
    BY <2>1 DEF Stops
  <2> QED BY <2>2, Unmoved, SameQueuesKept DEF KeptParts
<1>4. /\ LoggerTypes' /\ SameLogger /\ lg'.shutdown = lg.shutdown /\ lg'.pending = lg.pending
      /\ \A u \in Threads \ {t} : lg.lifecycle = u => lg'.lifecycle = u
  <2>1. None \notin Threads
    BY BackendAssumption DEF None
  <2>2. CASE lg' = lg
    BY <2>2, SameFields DEF LoggerIs
  <2>3. CASE lg.lifecycle = None /\ lg' = [lg EXCEPT !.lifecycle = t]
    BY <2>1, <2>3, LockFields DEF LoggerIs
  <2> QED BY <2>2, <2>3
<1> USE <1>4
<1>5. Plain(t)
  BY <1>3, Unmoved DEF Plain, SameLogger, Stopping, KeptParts
<1>6. LockOk(t)'
  BY DEF LockOk
<1>7. Draining' => TargetOk(t)'
  <2>1. Draining' => Draining
    BY DEF Draining
  <2>2. Draining => th[t].e = IF lg.config.async THEN Home ELSE Sync
    BY DEF CallInv, HomeInv, TargetOk
  <2>3. Home' = Home
    BY DEF Home, SameLogger
  <2> QED BY <2>1, <2>2, <2>3 DEF TargetOk, SameLogger
<1> QED BY <1>5, <1>6, <1>7, PlainStep

\* A call of set_config() begins: it is counted, and drains or waits.
LEMMA ConfigCounts ==
    ASSUME CallInv, NEW t \in Threads, StartsConfiguring(t)
    PROVE  Begins /\ QuietInv' /\ Counts(t) /\ h'.configs > 0
<1> USE DEF StartsConfiguring
<1>1. /\ Types /\ h'.down = h.down /\ h'.calls = h.calls + 1 /\ h'.configs = h.configs + 1
  BY Unmoved DEF CallInv, KeptParts
<1> USE <1>1
<1>2. h'.configs >= h.configs /\ h'.configs > 0
  <2>1. h.configs \in Nat
    BY NumberTypes DEF NumbersTyped
  <2> QED BY <2>1, SMTT(60)
<1>3. Begins
  BY DEF Begins
<1>4. Quiet(t)
  BY DEF Quiet, Stopping, Configuring
<1>5. QuietInv'
  BY <1>4, QuietKept DEF CallInv
<1>6. Counts(t)
  BY <1>2 DEF Counts, Enqueuing, Configuring
<1> QED BY <1>2, <1>3, <1>5, <1>6

\* set_config() of the classes with a lifecycle mutex begins to drain.
LEMMA LockedConfigStep ==
    ASSUME CallInv, NEW t \in Threads, NEW c \in Configs, Locked, LockedSetConfig(t, c)
    PROVE  CallInv' /\ Counts(t)
<1>1. /\ Types /\ th[t].pc = "idle" /\ h.calls < MaxCalls /\ lg.lifecycle = None /\ ~lg.shutdown
      /\ kind' = kind /\ lg' = [lg EXCEPT !.lifecycle = t] /\ h' = Configured
      /\ th' = [th EXCEPT ![t].pc = "drain", ![t].e = WaitTarget, ![t].config = c]
      /\ exec' = exec /\ info' = info
  BY DEF LockedSetConfig, Enter, Call, CallInv
<1>2. /\ LoggerTypes' /\ SameLogger /\ lg'.lifecycle = t /\ lg'.shutdown = lg.shutdown
      /\ lg'.pending = lg.pending
  BY <1>1, LockFields DEF LoggerIs
<1>3. ThreadTypes' /\ Others(t) /\ th'[t].pc = "drain" /\ th'[t].e = WaitTarget
  <2>1. "drain" \in Locations /\ c \in Config
    BY BackendAssumption DEF Locations
  <2>2. WaitTarget \in Executors \cup {Sync}
    BY <1>1, NumberTypes DEF WaitTarget, NumbersTyped
  <2>3. PICK e \in Executors \cup {Sync} : e = WaitTarget
    BY <2>2
  <2>4. Drains(t, "drain", e, c)
    BY <1>1, <2>3 DEF Drains
  <2>5. ThreadTypes' /\ Others(t) /\ th'[t].pc = "drain" /\ th'[t].e = e
    <3>1. Types /\ "drain" \in Locations /\ e \in Executors \cup {Sync} /\ c \in Config
      BY <1>1, <2>1
    <3> QED BY <2>4, <3>1, DrainLocals, SMTT(60) DEF LocalsAre
  <2> QED BY <2>3, <2>5
<1>4. Begins /\ QuietInv' /\ Counts(t) /\ h'.configs > 0
  BY <1>1, <1>2, <1>3, ConfigCounts DEF SameLogger, Configuring, StartsConfiguring
<1>5. None \notin Threads
  BY BackendAssumption DEF None
<1>6. Still(t)
  BY <1>1, <1>2, <1>3, <1>5, Unmoved DEF Still, Types, SameLogger, Configuring, KeptParts
<1>7. LockOk(t)'
  BY <1>1, <1>2, <1>3, <1>4 DEF LockOk, Locked
<1>8. TargetOk(t)'
  BY <1>1, <1>2, <1>3 DEF TargetOk, WaitTarget, SameLogger
<1>9. h'.down => h.down
  BY <1>1, Unmoved DEF KeptParts
<1> QED BY <1>4, <1>6, <1>7, <1>8, <1>9, StillStep

\* set_config() of ConsoleLogger begins.
LEMMA ConsoleConfigStep ==
    ASSUME CallInv, NEW t \in Threads, ConsoleLogger_set_config(t)
    PROVE  CallInv' /\ Counts(t)
<1>1. PICK c \in Configs :
        /\ th[t].pc = "idle" /\ h.calls < MaxCalls /\ kind = "console" /\ ~lg.shutdown
        /\ kind' = kind /\ lg' = lg /\ h' = Configured /\ exec' = exec /\ info' = info
        /\ th' = [th EXCEPT ![t].pc = "configure", ![t].config = c]
  BY DEF ConsoleLogger_set_config, Call
<1> USE <1>1
<1>2. Types /\ LoggerTypes' /\ SameLogger
  BY SameFields DEF CallInv, LoggerIs
<1> USE <1>2
<1>3. ThreadTypes' /\ Others(t) /\ th'[t].pc = "configure"
  <2>1. "configure" \in Locations /\ c \in Config
    BY BackendAssumption DEF Locations
  <2>2. Configures(t, "configure", c)
    BY DEF Configures
  <2> QED BY <2>1, <2>2, ConfigLocals DEF LocalsAre
<1> USE <1>3
<1>4. Begins /\ QuietInv' /\ Counts(t) /\ h'.configs > 0
  BY ConfigCounts DEF Configuring, StartsConfiguring
<1>5. Still(t)
  BY Unmoved DEF Still, Types, SameLogger, Configuring, KeptParts
<1>6. LockOk(t)' /\ TargetOk(t)'
  BY <1>4 DEF LockOk, TargetOk
<1>7. h'.down => h.down
  BY Unmoved DEF KeptParts
<1> QED BY <1>4, <1>5, <1>6, <1>7, StillStep

\* shutdown() sets the flag: no other call is in it, and none holds the mutex.
LEMMA NobodyStops ==
    ASSUME CallInv, ~lg.shutdown
    PROVE  At(Stopping) = {} /\ ~h.down
<1>1. At(Stopping) = {}
  BY DEF CallInv, LockInv, LockOk, At, Stopping
<1> QED BY <1>1 DEF CallInv, QuietInv

\* shutdown() of the classes with a lifecycle mutex begins.
LEMMA LockedShutdownStep ==
    ASSUME CallInv, NEW t \in Threads, kind # "console", LockedShutdown(t)
    PROVE  CallInv' /\ Counts(t)
<1>1. /\ Types /\ th[t].pc = "idle" /\ h.calls < MaxCalls /\ lg.lifecycle = None /\ ~lg.shutdown
      /\ kind' = kind /\ lg' = [lg EXCEPT !.shutdown = TRUE] /\ WaitFor(t, "stop")
      /\ h' = Counted /\ exec' = exec /\ info' = info
  BY DEF LockedShutdown, Enter, Call, CallInv
<1>2. /\ LoggerTypes' /\ SameLogger /\ lg'.lifecycle = lg.lifecycle /\ lg'.shutdown
      /\ lg'.pending = lg.pending
  BY <1>1, ShutdownFields
<1>3. ThreadTypes' /\ Others(t) /\ th'[t].pc = "stop" /\ th'[t].e = WaitTarget
  <2>1. "stop" \in Locations
    BY DEF Locations
  <2> QED BY <1>1, <2>1, WaitFields DEF LocalsAre
<1>4. None \notin Threads
  BY BackendAssumption DEF None
<1>5. \A u \in Threads : th[u].pc \notin {"add", "drain", "enqueue", "finish"}
  BY <1>1, <1>4 DEF CallInv, LockInv, LockOk
<1>6. QuietInv'
  <2>1. At(Stopping)' = {t}
    <3>1. At(Stopping) = {} /\ th'[t].pc \in Stopping
      BY <1>1, <1>3, NobodyStops DEF Stopping
    <3> QED BY <1>3, <3>1, WhoIsWhere DEF Whereabouts
  <2>2. At({"add", "enqueue", "finish"})' = {}
    BY <1>3, <1>5 DEF At, Others
  <2> QED BY <1>2, <2>1, <2>2 DEF QuietInv, Stopping
<1>7. Begins
  BY <1>1, Unmoved DEF Begins, KeptParts
<1>8. Still(t)
  BY <1>1, <1>2, <1>3, <1>5, Unmoved DEF Still, Types, SameLogger, Configuring, KeptParts
<1>9. LockOk(t)'
  BY <1>2, <1>3 DEF LockOk
<1>10. Draining' => TargetOk(t)'
  <2>1. Draining /\ lg.executor = Home
    BY <1>1 DEF CallInv, HomeInv, Draining
  <2>2. Home' = Home
    BY <1>1, <1>2 DEF Home, SameLogger
  <2> QED BY <1>2, <1>3, <2>1, <2>2 DEF TargetOk, WaitTarget, SameLogger
<1>11. h'.down => h.down
  BY <1>1, Unmoved DEF KeptParts
<1>12. Counts(t)
  <2>1. h'.configs = h.configs /\ h.configs \in Nat
    BY <1>1, Unmoved, NumberTypes DEF KeptParts, NumbersTyped
  <2>2. h'.configs >= h.configs
    BY <2>1, SMTT(60)
  <2> QED BY <1>1, <1>2, <1>3, <2>2 DEF Counts, Enqueuing, Configuring, SameLogger
<1> QED BY <1>6, <1>7, <1>8, <1>9, <1>10, <1>11, <1>12, StillStep

\* shutdown() of ConsoleLogger begins.
LEMMA ConsoleShutdownStep ==
    ASSUME CallInv, NEW t \in Threads, ConsoleLogger_shutdown(t)
    PROVE  CallInv' /\ Counts(t)
<1>1. /\ Types /\ th[t].pc = "idle" /\ h.calls < MaxCalls /\ ~lg.shutdown /\ kind = "console"
      /\ kind' = kind /\ lg' = [lg EXCEPT !.shutdown = TRUE] /\ Goto(t, "quiesce")
      /\ h' = Counted /\ exec' = exec /\ info' = info
  BY DEF ConsoleLogger_shutdown, Call, CallInv
<1> USE <1>1
<1>2. /\ LoggerTypes' /\ SameLogger /\ lg'.lifecycle = lg.lifecycle /\ lg'.shutdown
      /\ lg'.pending = lg.pending
  BY ShutdownFields
<1> USE <1>2
<1>3. ThreadTypes' /\ Others(t) /\ th'[t].pc = "quiesce"
  <2>1. "quiesce" \in Locations
    BY DEF Locations
  <2> QED BY <2>1, GotoFields DEF LocalsAre
<1> USE <1>3
<1>4. \A u \in Threads : th[u].pc \notin {"add", "drain"}
  BY DEF CallInv, LockInv, LockOk
<1>5. QuietInv'
  <2>1. At(Stopping)' = {t}
    <3>1. At(Stopping) = {} /\ th'[t].pc \in Stopping
      BY NobodyStops DEF Stopping
    <3> QED BY <3>1, WhoIsWhere DEF Whereabouts
  <2>2. At({"stop", "down"})' = {} /\ ~h'.down
    <3>1. th'[t].pc \notin {"stop", "down"} /\ \A u \in At({"stop", "down"})' : u \in At(Stopping)'
      BY DEF At, Stopping
    <3>2. t \notin At({"stop", "down"})'
      BY <3>1 DEF At
    <3>3. ~h'.down
      BY NobodyStops, Unmoved DEF KeptParts
    <3> QED BY <2>1, <3>1, <3>2, <3>3
  <2> QED BY <2>1, <2>2 DEF QuietInv, Stopping
<1>6. Begins
  BY Unmoved DEF Begins, KeptParts
<1>7. Still(t)
  BY <1>4, Unmoved DEF Still, Types, SameLogger, Configuring, KeptParts
<1>8. LockOk(t)'
  BY DEF LockOk
<1>9. Draining' => TargetOk(t)'
  <2>1. Draining' => Draining
    BY Unmoved DEF Draining, KeptParts
  <2>2. Draining => lg.executor = Home
    BY DEF CallInv, HomeInv
  <2>3. Home' = Home
    BY DEF Home, SameLogger
  <2> QED BY <2>1, <2>2, <2>3 DEF TargetOk, SameLogger
<1>10. h'.down => h.down
  BY Unmoved DEF KeptParts
<1>11. Counts(t)
  <2>1. h'.configs = h.configs /\ h.configs \in Nat
    BY Unmoved, NumberTypes DEF KeptParts, NumbersTyped
  <2>2. h'.configs >= h.configs
    BY <2>1, SMTT(60)
  <2> QED BY <2>2 DEF Counts, Enqueuing, Configuring, SameLogger
<1> QED BY <1>5, <1>6, <1>7, <1>8, <1>9, <1>10, <1>11, StillStep

\* shutdown() returns once the executor is idle.
LEMMA ShutdownReturnStep ==
    ASSUME CallInv, NEW t \in Threads, shutdown_return(t)
    PROVE  CallInv' /\ Counts(t)
<1>1. /\ Types /\ LockOk(t) /\ th[t].pc = "down" /\ Drained(t) /\ h' = [h EXCEPT !.down = TRUE]
      /\ kind' = kind /\ lg' = Release(t) /\ Return(t) /\ exec' = exec /\ info' = info
  BY DEF shutdown_return, CallInv, LockInv
<1> USE <1>1
<1>2. /\ LoggerTypes' /\ SameLogger /\ lg'.shutdown = lg.shutdown /\ lg'.pending = lg.pending
      /\ \A u \in Threads \ {t} : lg.lifecycle = u => lg'.lifecycle = u
  BY ReleaseFields DEF LoggerIs
<1> USE <1>2
<1>3. ThreadTypes' /\ Others(t) /\ th'[t].pc = "idle"
  BY ReturnFields
<1> USE <1>3
<1>4. /\ HistoryTypes' /\ SameFates /\ h'.by = h.by /\ h'.calls = h.calls
      /\ h'.configs = h.configs
  <2>1. h \in History
    BY DEF Types, HistoryTypes
  <2>2. h' \in History
    BY <2>1 DEF History
  <2> QED BY <2>1, <2>2 DEF HistoryTypes, History, SameFates
<1> USE <1>4
<1>5. Begins
  BY DEF Begins
<1>6. Still(t)
  BY Unmoved DEF Still, Types, SameLogger, Configuring, KeptParts
<1>7. QuietInv'
  <2>1. Quiet(t) /\ QuietInv
    BY DEF Quiet, Stopping, CallInv
  <2> QED BY <2>1, QuietKept
<1>8. LockOk(t)' /\ TargetOk(t)'
  BY DEF LockOk, TargetOk
<1>9. Draining' => AllIdle
  <2>1. Draining' => Draining
    BY DEF Draining
  <2>2. ASSUME Draining, lg.config.async PROVE AllIdle
    <3>1. th[t].e = Home /\ \A e \in Executors : Idle(e) \/ e = Home
      BY <2>2 DEF CallInv, HomeInv, TargetOk
    <3>2. Home \in Nat
      BY NumberTypes, SMTT(60) DEF Home, NumbersTyped
    <3>3. Home # Sync
      BY <3>2, SMTT(60) DEF Sync
    <3> QED BY <3>1, <3>3 DEF Drained, AllIdle
  <2>3. Draining /\ ~lg.config.async => AllIdle
    BY DEF CallInv, HomeInv
  <2> QED BY <2>1, <2>2, <2>3
<1>10. Counts(t)
  <2>1. h.configs \in Nat
    BY NumberTypes DEF NumbersTyped
  <2>2. h'.configs >= h.configs
    BY <2>1, SMTT(60)
  <2> QED BY <2>2 DEF Counts, Enqueuing, Configuring, SameLogger
<1> QED BY <1>5, <1>6, <1>7, <1>8, <1>9, <1>10, StillStep

\* A step of thread t that moves no record, whatever it does to the executor in
\* use.
LEMMA SwitchRecords ==
    ASSUME CallInv, NEW t \in Threads, Types', RecordsStay(t)
    PROVE  RecordInv' /\ SeenInv' /\ (Draining' <=> Draining)
<1> USE DEF RecordsStay
<1>1. RecordInv /\ SeenInv
  BY DEF CallInv, RecordInv
<1>2. HoldersLeft({})
  <2>1. t \notin Holders /\ t \notin Holders' /\ HoldersLeft({t})
    BY OtherHoldersLeft DEF Holders, At
  <2> QED BY <2>1 DEF HoldersLeft
<1>3. Draining' <=> Draining
  BY DEF Draining
<1>4. RecordInv' /\ KeepsPlaces /\ Ids' = Ids
  BY <1>1, <1>2, <1>3, KeepRecords DEF SameFates
<1>5. ASSUME NEW u \in Threads PROVE SeenOk(u)'
  <2>1. CASE u = t
    BY <2>1 DEF SeenOk
  <2>2. CASE u # t
    <3>1. SeenOk(u) /\ th'[u] = th[u]
      BY <1>1, <2>2 DEF SeenInv, Others
    <3> QED BY <1>4, <3>1 DEF SeenOk, KeepsPlaces
  <2> QED BY <2>1, <2>2
<1> QED BY <1>3, <1>4, <1>5 DEF SeenInv

\* ConsoleLogger has waited for the calls that were enqueuing, and gives its
\* executor away.
LEMMA QuiesceStep ==
    ASSUME CallInv, CountFacts, NEW t \in Threads, ConsoleLogger_quiesce(t)
    PROVE  CallInv' /\ Counts(t)
<1>1. /\ Types /\ LockOk(t) /\ th[t].pc = "quiesce" /\ lg.pending = 0
      /\ lg' = [lg EXCEPT !.executor = 0] /\ WaitFor(t, "stop")
      /\ kind' = kind /\ exec' = exec /\ info' = info /\ h' = h
  BY DEF ConsoleLogger_quiesce, CallInv, LockInv
<1> USE <1>1
<1>2. kind = "console" /\ lg.shutdown
  BY DEF LockOk
<1> USE <1>2
<1>3. /\ LoggerTypes' /\ lg'.config = lg.config /\ lg'.made = lg.made /\ lg'.executor = 0
      /\ lg'.shutdown = lg.shutdown /\ lg'.lifecycle = lg.lifecycle /\ lg'.pending = lg.pending
  <2>1. lg \in Fields /\ 0 \in Executors
    BY BackendAssumption, SMTT(60) DEF Types, LoggerTypes, Executors
  <2>2. lg' \in Fields
    BY <2>1 DEF Fields
  <2>3. LoggerTypes'
    BY <2>2 DEF Types, LoggerTypes, Resting
  <2> QED BY <2>1, <2>3 DEF Fields
<1> USE <1>3
<1>4. ThreadTypes' /\ Others(t) /\ th'[t].pc = "stop" /\ th'[t].e = WaitTarget
  <2>1. "stop" \in Locations
    BY DEF Locations
  <2> QED BY <2>1, WaitFields DEF LocalsAre
<1> USE <1>4
<1>5. Types' /\ \A e \in Executors : SameQueue(e)
  BY Unmoved DEF Types, KeptParts
<1>6. RecordInv' /\ SeenInv' /\ (Draining' <=> Draining)
  BY <1>5, SwitchRecords DEF RecordsStay
<1>7. LockInv'
  <2>1. LockOk(t)'
    BY DEF LockOk
  <2>2. ASSUME NEW u \in Threads \ {t} PROVE LockOk(u)'
    <3>1. LockOk(u) /\ th'[u] = th[u]
      BY DEF CallInv, LockInv, Others
    <3> QED BY <3>1 DEF LockOk, Locked
  <2> QED BY <2>1, <2>2 DEF LockInv
<1>8. BoundInv'
  <2>1. lg.made \in Nat
    BY NumberTypes DEF NumbersTyped
  <2>2. 0 <= lg.made
    BY <2>1, SMTT(60)
  <2> QED BY <2>2 DEF CallInv, BoundInv
<1>9. At(Stopping) = {t} /\ At(Stopping)' = {t}
  <2>1. t \in At(Stopping) /\ \A u, v \in At(Stopping) : u = v
    BY DEF CallInv, QuietInv, At, Stopping
  <2>2. At(Stopping)' = At(Stopping) \cup {t}
    BY WhoIsWhere DEF Stopping, Whereabouts
  <2> QED BY <2>1, <2>2
<1>10. QuietInv'
  <2>1. At({"add", "enqueue", "finish"})' = {}
    <3>1. At(Enqueuing) = {}
      BY DEF CountFacts
    <3>2. \A u \in Threads : th[u].pc \notin {"add", "enqueue", "finish"}
      BY <3>1 DEF CallInv, LockInv, LockOk, At, Enqueuing
    <3> QED BY <3>2 DEF At, Others
  <2> QED BY <1>9, <2>1 DEF QuietInv, Stopping
<1>11. ASSUME Draining' PROVE HomeInv'
  <2>1. Draining /\ HomeInv
    BY <1>6, <1>11 DEF CallInv
  <2>2. Home' = Home
    BY DEF Home
  <2>3. (\A e \in Executors : Idle(e)' <=> Idle(e)) /\ (AllIdle' <=> AllIdle)
    BY DEF Idle, AllIdle
  <2>4. TargetOk(t)'
    <3>1. lg.executor = Home
      BY <2>1 DEF HomeInv, TargetOk
    <3> QED BY <2>2, <3>1 DEF TargetOk, WaitTarget
  <2>5. ASSUME NEW u \in Threads \ {t} PROVE TargetOk(u)'
    <3>1. TargetOk(u) /\ th'[u] = th[u] /\ LockOk(u)
      BY <2>1 DEF HomeInv, Others, CallInv, LockInv
    <3>2. th[u].pc \notin Stopping
      BY <1>9 DEF At
    <3> QED BY <2>2, <3>1, <3>2 DEF TargetOk, Stopping, LockOk
  <2> QED BY <2>1, <2>2, <2>3, <2>4, <2>5 DEF HomeInv
<1>12. Counts(t)
  <2>1. h.configs \in Nat
    BY NumberTypes DEF NumbersTyped
  <2>2. h'.configs >= h.configs
    BY <2>1, SMTT(60)
  <2> QED BY <2>2 DEF Counts, Enqueuing, Configuring
<1> QED BY <1>5, <1>6, <1>7, <1>8, <1>10, <1>11, <1>12 DEF CallInv, RecordInv, HomeInv

\* The executor that set_config() switches to.
LEMMA NewExecutorChosen ==
    ASSUME Types, BoundInv, CountFacts, NEW t \in Threads, th[t].pc \in Configuring,
           NEW c \in Config, NEW new,
           new = IF ~(c.async /\ c.own) THEN 0 ELSE IF lg.executor # 0 THEN lg.executor
                 ELSE lg.made + 1
    PROVE  ChosenWell(new)
<1> USE DEF ChosenWell
<1>1. lg.made + 1 \in Executors
  BY DEF CountFacts, At
<1>2. /\ lg.made \in Nat /\ lg.executor \in Nat /\ lg.executor \in Executors
      /\ MaxCalls \in Nat /\ lg.executor <= lg.made
  BY NumberTypes DEF BoundInv, NumbersTyped
<1> USE <1>2
<1>3. 0 \in Executors
  BY SMTT(60) DEF Executors
<1>4. new = 0 \/ new = lg.executor \/ new = lg.made + 1
  OBVIOUS
<1>5. new \in Executors
  BY <1>1, <1>3, <1>4
<1>6. /\ new \in Nat /\ (new > lg.made <=> new = lg.made + 1)
      /\ new = lg.made + 1 \/ new <= lg.made
  BY <1>4, SMTT(60)
<1> QED BY <1>5, <1>6

\* The logger gets another configuration and executor.
LEMMA SwitchFields ==
    ASSUME Types, NEW t \in Threads, NEW c \in Config, NEW n \in Executors, NEW m \in Nat,
           kind' = kind, Switches(t, c, n, m)
    PROVE  SwitchedTo(c, n, m)
<1> USE DEF SwitchedTo
<1> DEFINE next == IF lg.lifecycle = t THEN None ELSE lg.lifecycle
<1>1. lg \in Fields /\ next \in Threads \cup {None}
  BY DEF Types, LoggerTypes, Fields
<1>2. lg' = [lg EXCEPT !.lifecycle = next, !.config = c, !.executor = n, !.made = m]
  BY DEF Switches, Release
<1> HIDE DEF next
<1>3. lg' \in Fields
  BY <1>1, <1>2 DEF Fields
<1>4. LoggerTypes'
  BY <1>3 DEF Types, LoggerTypes, Resting
<1>5. /\ lg'.config = c /\ lg'.executor = n /\ lg'.made = m
      /\ lg'.shutdown = lg.shutdown /\ lg'.pending = lg.pending
  BY <1>1, <1>2 DEF Fields
<1> QED BY <1>4, <1>5

\* Applying a configuration keeps the types and moves no task.
LEMMA ApplyFields ==
    ASSUME CallInv, CountFacts, NEW t \in Threads, th[t].pc \in Configuring, Apply(t)
    PROVE  Applied(t)
<1>1. Types /\ BoundInv
  BY DEF CallInv
<1> USE <1>1
<1>2. th[t].config \in Config
  BY DEF Types, ThreadTypes, Locals
<1>3. PICK c \in Config : c = th[t].config
  BY <1>2
<1>4. PICK n : n = IF ~(c.async /\ c.own) THEN 0 ELSE IF lg.executor # 0 THEN lg.executor
                   ELSE lg.made + 1
  OBVIOUS
<1>5. PICK m : m = IF n > lg.made THEN n ELSE lg.made
  OBVIOUS
<1>6. PICK old : old = lg.executor
  OBVIOUS
<1>7. /\ lg' = [Release(t) EXCEPT !.config = c, !.executor = n,
                                  !.made = IF n > @ THEN n ELSE @]
      /\ exec' = exec \/ Limits(n, c)
      /\ Return(t) \/ Targets(t, "retire", old)
      /\ kind' = kind /\ info' = info /\ h' = h
  BY <1>3, <1>4, <1>6 DEF Apply, Limits, Targets
<1> USE <1>7
<1>8. /\ n \in Executors /\ n \in Nat /\ (n > lg.made <=> n = lg.made + 1)
      /\ n = lg.made + 1 \/ n <= lg.made
  BY <1>4, NewExecutorChosen DEF ChosenWell
<1>9. lg.made \in Nat /\ lg.made >= 1 /\ old \in Executors
  BY <1>6, NumberTypes DEF BoundInv, NumbersTyped
<1>10. m \in Nat /\ m \in {lg.made, lg.made + 1} /\ n <= m /\ m >= 1
  BY <1>5, <1>8, <1>9, SMTT(60)
<1>11. Switches(t, c, n, m)
  <2>1. Release(t).made = lg.made
    BY DEF Types, LoggerTypes, Fields, Release
  <2> QED BY <1>5, <2>1 DEF Switches
<1>12. /\ LoggerTypes' /\ lg'.executor = n /\ lg'.made = m
       /\ lg'.shutdown = lg.shutdown /\ lg'.pending = lg.pending
  BY <1>8, <1>10, <1>11, SwitchFields DEF SwitchedTo
<1>13. ThreadTypes' /\ Others(t) /\ th'[t].pc \in {"idle", "retire"}
  <2>1. "retire" \in Locations /\ old \in Executors \cup {Sync}
    BY <1>9 DEF Locations
  <2>2. CASE Return(t)
    BY <2>2, ReturnFields
  <2>3. CASE Targets(t, "retire", old)
    BY <2>1, <2>3, TargetLocals DEF LocalsAre
  <2> QED BY <2>2, <2>3
<1>14. ExecutorTypes' /\ \A f \in Executors : SameQueue(f)
  BY Unmoved, SameQueuesKept DEF KeptParts
<1>15. Types'
  BY <1>12, <1>13, <1>14, Unmoved DEF Types, KeptParts
<1> QED BY <1>10, <1>12, <1>13, <1>14, <1>15 DEF Applied

\* The executor in use is idle when a logger that drains switches: no other
\* thread can be waiting for it or adding to it.
LEMMA ApplyStep ==
    ASSUME CallInv, CountFacts, NEW t \in Threads,
           set_config_switch(t) \/ ConsoleLogger_configure(t)
    PROVE  CallInv' /\ Counts(t)
<1>1. /\ Types /\ LockOk(t) /\ Apply(t)
      /\ (th[t].pc = "drain" /\ Drained(t)) \/ th[t].pc = "configure"
  BY DEF set_config_switch, ConsoleLogger_configure, CallInv, LockInv
<1> USE <1>1
<1>2. th[t].pc \in Configuring
  BY DEF Configuring
<1>3. Applied(t)
  BY <1>2, ApplyFields
<1>4. /\ Types' /\ kind' = kind /\ h' = h /\ Others(t) /\ th'[t].pc \in {"idle", "retire"}
      /\ lg'.shutdown = lg.shutdown /\ lg'.pending = lg.pending
      /\ lg'.made \in {lg.made, lg.made + 1} /\ lg'.executor <= lg'.made /\ lg'.made >= 1
      /\ \A e \in Executors : SameQueue(e)
  BY <1>3 DEF Applied
<1> USE <1>4
<1>5. RecordInv' /\ SeenInv' /\ (Draining' <=> Draining)
  BY SwitchRecords DEF RecordsStay
<1>6. ASSUME NEW u \in Threads \ {t}
      PROVE  /\ th'[u] = th[u] /\ LockOk(u)
             /\ th[u].pc \notin {"add", "drain", "clearwait"} /\ (th[u].pc = "wait" => ~Locked)
  <2>1. th'[u] = th[u] /\ LockOk(u)
    BY DEF Others, CallInv, LockInv
  <2>2. CASE th[t].pc = "drain"
    <3>1. lg.lifecycle = t /\ lg.lifecycle # u
      BY <2>2 DEF LockOk
    <3> QED BY <2>1, <3>1 DEF LockOk
  <2>3. CASE th[t].pc = "configure"
    <3>1. kind = "console" /\ ~Locked
      BY <2>3 DEF LockOk, Locked
    <3> QED BY <2>1, <3>1 DEF LockOk
  <2> QED BY <2>1, <2>2, <2>3
<1>7. LockInv'
  <2>1. LockOk(t)'
    BY DEF LockOk
  <2>2. ASSUME NEW u \in Threads \ {t} PROVE LockOk(u)'
    BY <1>6 DEF LockOk, Locked
  <2> QED BY <2>1, <2>2 DEF LockInv
<1>8. BoundInv'
  BY DEF CallInv, BoundInv
<1>9. QuietInv'
  <2>1. Quiet(t) /\ QuietInv
    BY DEF Quiet, Stopping, CallInv
  <2> QED BY <2>1, QuietKept
<1>10. ASSUME Draining' PROVE HomeInv'
  <2>1. Draining /\ HomeInv /\ TargetOk(t)
    BY <1>5, <1>10 DEF CallInv, HomeInv
  <2>2. kind # "console" /\ th[t].pc = "drain" /\ Locked /\ ~lg.shutdown
    <3>1. h.configs > 0 /\ h.configs \in Nat
      BY NumberTypes DEF LockOk, NumbersTyped
    <3>2. h.configs # 0
      BY <3>1, SMTT(60)
    <3> QED BY <2>1, <3>2 DEF Draining, LockOk
  <2>3. AllIdle
    <3>1. lg.executor = Home /\ lg.executor \in Nat /\ th[t].e = WaitTarget
      BY <2>1, <2>2, NumberTypes DEF HomeInv, TargetOk, NumbersTyped
    <3>2. lg.executor # Sync
      BY <3>1, SMTT(60) DEF Sync
    <3>3. lg.config.async => Idle(lg.executor)
      BY <2>2, <3>1, <3>2 DEF Drained, WaitTarget
    <3> QED BY <2>1, <3>1, <3>3 DEF HomeInv, AllIdle
  <2>4. AllIdle'
    BY <2>3 DEF AllIdle, Idle, SameQueue
  <2>5. Home' = lg'.executor
    BY <2>2 DEF Home
  <2>6. TargetOk(t)'
    BY DEF TargetOk
  <2>7. ASSUME NEW u \in Threads \ {t} PROVE TargetOk(u)'
    BY <1>6, <2>2 DEF TargetOk, LockOk
  <2> QED BY <2>4, <2>5, <2>6, <2>7 DEF HomeInv, AllIdle
<1>11. Counts(t)
  BY DEF Counts, Enqueuing, Configuring
<1> QED BY <1>5, <1>7, <1>8, <1>9, <1>10, <1>11 DEF CallInv, RecordInv, HomeInv
-----------------------------------------------------------------------------
(* log() and the tasks *)

\* A record is added to executor e, the one with work.
LEMMA AddCalmed ==
    ASSUME HomeInv, Draining' => Draining, NEW e \in Executors, Draining => e = Home,
           lg.config.async, ~h'.down, \A f \in Executors \ {e} : SameQueue(f)
    PROVE  Calmed
<1> SUFFICES ASSUME Draining, NEW f \in Executors PROVE Idle(f)' \/ f = Home
  BY DEF Calmed
<1>1. f # e => Idle(f)
  BY DEF HomeInv
<1> QED BY <1>1 DEF SameQueue, Idle

\* A call of log() that begins leaves the other calls alone.
LEMMA LogBegins ==
    ASSUME CallInv, NEW t \in Threads, Types', StartsLogging(t)
    PROVE  LogBegun(t)
<1> USE DEF LogBegun, StartsLogging
<1>1. Types /\ BoundInv /\ QuietInv /\ Begins
  BY DEF CallInv, Begins
<1>2. BoundInv' /\ h'.configs >= h.configs
  BY <1>1, BoundKept DEF SameLogger
<1> USE <1>2
<1>3. Draining' => Draining
  BY DEF Draining
<1>4. Calm(t)
  BY DEF Calm, SameLogger, Configuring
<1>5. Quiet(t)
  BY DEF Quiet, Stopping
<1>6. QuietInv'
  BY <1>1, <1>5, QuietKept
<1>7. Counts(t)
  BY DEF Counts, Enqueuing, Configuring, SameLogger
<1>8. ~h'.down
  BY NobodyStops
<1>9. HoldersLeft({t}) /\ t \in Threads \ Holders
  BY OtherHoldersLeft DEF Holders, At
<1> QED BY <1>3, <1>4, <1>6, <1>7, <1>8, <1>9

\* The call writes the record itself: the queues are idle then.
LEMMA DirectStep ==
    ASSUME CallInv, NEW t \in Threads, NEW level \in Nat, WritesItself(t, level)
    PROVE  CallInv' /\ Counts(t)
<1> USE DEF WritesItself
<1>1. Types /\ RecordInv /\ HomeInv /\ th[t].pc = "idle" /\ h.calls < MaxCalls
  BY DEF CallInv, RecordInv, Call
<1>2. PICK hist : hist = Logged(t, level)
  OBVIOUS
<1>3. /\ hist \in History /\ hist.by = Append(h.by, t) /\ hist.calls = h.calls + 1
      /\ hist.configs = h.configs /\ SameHistoryFates(h, hist) /\ hist.down = h.down
  BY <1>1, <1>2, LoggedFields DEF LoggedIs
<1>4. PICK r : r = NewId
  OBVIOUS
<1>5. PICK new : new = h'
  OBVIOUS
<1>6. r \in Nat
  BY <1>1, <1>4, QueueTypes, SMTT(60) DEF NewId, QueuesTyped
<1>7. /\ new \in History /\ SameHistory(hist, new)
      /\ hist.dropped \subseteq new.dropped /\ hist.filtered \subseteq new.filtered
      /\ \/ new.written = Append(hist.written, r)
         \/ new.written = hist.written /\ r \in new.dropped \cup new.filtered
  <2>1. \/ new = Wrote(hist, r)
        \/ new = Filter(r, hist)
        \/ \E ok \in BOOLEAN : new = WriteFile(r, hist, ok)
    BY <1>2, <1>4, <1>5
  <2> QED BY <1>3, <1>6, <2>1, SettledFields DEF SettledIs, Outcome
<1>8. /\ h' \in History /\ h'.by = Append(h.by, t) /\ h'.calls = h.calls + 1
      /\ h'.configs = h.configs /\ h'.down = h.down /\ Settles(r)
  BY <1>3, <1>5, <1>7 DEF SameHistory, SameHistoryFates, Settles
<1>9. /\ Types' /\ Others(t) /\ SameLogger /\ \A e \in Executors : SameQueue(e)
  <2>1. LoggerTypes' /\ SameLogger
    BY <1>1, SameFields DEF LoggerIs
  <2>2. ThreadTypes' /\ Others(t)
    BY <1>1 DEF Types, ThreadTypes, Others
  <2> QED BY <1>1, <1>8, <2>1, <2>2, Unmoved DEF Types, HistoryTypes, KeptParts
<1>10. /\ Calm(t) /\ BoundInv' /\ QuietInv' /\ Counts(t) /\ ~h'.down
       /\ (Draining' => Draining) /\ HoldersLeft({t}) /\ t \in Threads \ Holders
  BY <1>1, <1>8, <1>9, LogBegins DEF LogBegun, StartsLogging
<1>11. Arrives(t, r)
  BY <1>1, <1>4, <1>8, <1>10, NewArrives
<1>12. Draining' => Draining /\ AllIdle
  BY <1>1, <1>10 DEF HomeInv
<1>13. RecordInv' /\ KeepsPlaces /\ Ids \subseteq Ids'
  <2>1. t \notin Holders'
    BY <1>1 DEF Holders, At
  <2>2. RecordInv' /\ KeepsPlaces
    BY <1>1, <1>8, <1>9, <1>10, <1>11, <1>12, <2>1, SettleRecord DEF SettlesRecord
  <2> QED BY <1>11, <2>2 DEF Arrives
<1>14. Calmed
  BY <1>9, <1>12 DEF Calmed, AllIdle, SameQueue, Idle
<1>15. LockOk(t)' /\ TargetOk(t)' /\ SeenOk(t)'
  BY <1>1 DEF LockOk, TargetOk, SeenOk
<1> QED BY <1>10, <1>13, <1>14, <1>15, CalmStep

\* The call hands the record over.
LEMMA SubmitStep ==
    ASSUME CallInv, NEW t \in Threads, NEW level \in Nat, HandsOver(t, level)
    PROVE  CallInv' /\ Counts(t)
<1> USE DEF HandsOver
<1>1. Types /\ RecordInv /\ HomeInv /\ th[t].pc = "idle" /\ h.calls < MaxCalls
  BY DEF CallInv, RecordInv, Call
<1> USE <1>1
<1>2. PICK hist : hist = Logged(t, level)
  OBVIOUS
<1>3. /\ hist \in History /\ hist.by = Append(h.by, t) /\ hist.calls = h.calls + 1
      /\ hist.configs = h.configs /\ SameHistoryFates(h, hist) /\ hist.down = h.down
  BY <1>2, LoggedFields DEF LoggedIs
<1>4. PICK r : r = NewId
  OBVIOUS
<1> USE <1>4
<1>5. r \in Nat
  BY QueueTypes, SMTT(60) DEF NewId, QueuesTyped
<1>6. PICK e \in Executors : e = lg.executor
  BY NumberTypes DEF NumbersTyped
<1>7. ExecutorTypes' /\ h' \in History /\ SameHistory(hist, h') /\ Adds(e, r)
  <2>1. AddTask(e, r, hist)
    BY <1>2, <1>6 DEF AddTask
  <2> QED BY <1>3, <1>5, <2>1, AddTaskFields
<1> USE <1>7
<1>8. /\ h'.by = Append(h.by, t) /\ h'.calls = h.calls + 1
      /\ h'.configs = h.configs /\ h'.down = h.down
  BY <1>3 DEF SameHistory
<1>9. /\ Types' /\ Others(t) /\ SameLogger
  <2>1. LoggerTypes' /\ SameLogger
    BY SameFields DEF LoggerIs
  <2>2. ThreadTypes' /\ Others(t)
    BY DEF Types, ThreadTypes, Others
  <2> QED BY <2>1, <2>2 DEF Types, HistoryTypes
<1>10. /\ Calm(t) /\ BoundInv' /\ QuietInv' /\ Counts(t) /\ ~h'.down
       /\ (Draining' => Draining) /\ HoldersLeft({t}) /\ t \in Threads \ Holders
  BY <1>8, <1>9, LogBegins DEF LogBegun, StartsLogging
<1> USE <1>10
<1>11. Arrives(t, r)
  BY <1>8, NewArrives
<1>12. RecordInv' /\ KeepsPlaces /\ Ids \subseteq Ids'
  <2>1. t \notin Holders'
    BY DEF Holders, At
  <2>2. RecordInv' /\ KeepsPlaces
    BY <1>9, <1>11, <2>1, EnqueueRecord DEF EnqueuesRecord
  <2> QED BY <1>11, <2>2 DEF Arrives
<1>13. Calmed
  <2>1. Draining => e = Home
    BY <1>6 DEF HomeInv
  <2>2. \A f \in Executors \ {e} : SameQueue(f)
    BY DEF Adds
  <2> QED BY <2>1, <2>2, AddCalmed
<1>14. LockOk(t)' /\ TargetOk(t)' /\ SeenOk(t)'
  BY DEF LockOk, TargetOk, SeenOk
<1> QED BY <1>12, <1>13, <1>14, CalmStep

\* A call of log() that goes on with its record in its hands.
LEMMA HeldStep ==
    ASSUME CallInv, NEW t \in Threads, NEW level \in Nat, KeepsRecord(t, level)
    PROVE  CallInv' /\ Counts(t)
<1> USE DEF KeepsRecord
<1>1. Types /\ RecordInv /\ HomeInv /\ th[t].pc = "idle" /\ h.calls < MaxCalls
  BY DEF CallInv, RecordInv, Call
<1> USE <1>1
<1>2. /\ h' \in History /\ h'.by = Append(h.by, t) /\ h'.calls = h.calls + 1
      /\ h'.configs = h.configs /\ SameFates /\ h'.down = h.down
  BY LoggedFields DEF SameHistoryFates, SameFates, LoggedIs
<1> USE <1>2
<1>3. Types' /\ \A e \in Executors : SameQueue(e)
  BY Unmoved DEF Types, HistoryTypes, KeptParts
<1> USE <1>3
<1>4. /\ Calm(t) /\ BoundInv' /\ QuietInv' /\ Counts(t) /\ ~h'.down
      /\ (Draining' => Draining) /\ HoldersLeft({t}) /\ t \in Threads \ Holders
  BY LogBegins DEF LogBegun, StartsLogging
<1> USE <1>4
<1>5. PICK r : r = NewId
  OBVIOUS
<1>6. Arrives(t, r)
  BY <1>5, NewArrives
<1>7. RecordInv' /\ KeepsPlaces /\ Ids \subseteq Ids'
  <2>1. t \in Holders' /\ th'[t].r = r
    BY <1>5 DEF Holders, At
  <2>2. RecordInv' /\ KeepsPlaces
    BY <1>6, <2>1, HoldRecord DEF HoldsRecord
  <2> QED BY <1>6, <2>2 DEF Arrives
<1>8. Calmed
  BY DEF Calmed, HomeInv, AllIdle, SameQueue, Idle
<1>9. SeenOk(t)'
  BY DEF SeenOk
<1> QED BY <1>7, <1>8, <1>9, CalmStep

\* The queue is full: the call stays in add_task(), under the lifecycle mutex.
LEMMA BlockedStep ==
    ASSUME CallInv, NEW t \in Threads, NEW level \in Nat, Blocks(t, level)
    PROVE  CallInv' /\ Counts(t)
<1> USE DEF Blocks
<1>1. Types /\ Call(t) /\ lg.lifecycle = None
  BY DEF CallInv, Enter
<1> USE <1>1
<1>2. /\ LoggerTypes' /\ SameLogger /\ lg'.lifecycle = t /\ lg'.shutdown = lg.shutdown
      /\ lg'.pending = lg.pending
  BY LockFields DEF LoggerIs
<1>3. NewId \in Nat
  BY QueueTypes, SMTT(60) DEF NewId, QueuesTyped
<1>4. PICK r \in Nat : r = NewId
  BY <1>3
<1>5. /\ ThreadTypes' /\ Others(t) /\ th'[t].pc = "add" /\ th'[t].r = NewId
  <2>1. Holds(t, "add", r) /\ "add" \in Locations
    BY <1>4 DEF Holds, Locations
  <2> QED BY <1>4, <2>1, HoldLocals DEF LocalsAre
<1>6. \A u \in Threads \ {t} : lg.lifecycle = u => lg'.lifecycle = u
  BY BackendAssumption DEF None
<1>7. LockOk(t)' /\ TargetOk(t)'
  BY <1>2, <1>5 DEF LockOk, TargetOk, SameLogger
<1> QED BY <1>2, <1>5, <1>6, <1>7, HeldStep DEF KeepsRecord

\* ConsoleLogger::log() counts itself and unlocks.
LEMMA ConsoleLogStep ==
    ASSUME CallInv, NEW t \in Threads, ConsoleLogger_log(t)
    PROVE  CallInv' /\ Counts(t)
<1>1. /\ Types /\ kind = "console" /\ Call(t) /\ ~lg.shutdown /\ kind' = kind
      /\ info' = info /\ InfoTypes'
  BY Unmoved DEF CallInv, ConsoleLogger_log, KeptParts
<1> USE <1>1
<1>2. CASE ~lg.config.async /\ h' = Wrote(Logged(t, 0), NewId) /\ Unchecked
  <2>1. lg' = lg /\ exec' = exec /\ th' = th /\ 0 \in Nat
    BY <1>2 DEF Unchecked
  <2> QED BY <1>2, <2>1, DirectStep DEF WritesItself
<1>3. CASE /\ lg.config.async /\ lg' = [lg EXCEPT !.pending = @ + 1]
           /\ th' = [th EXCEPT ![t].pc = "enqueue", ![t].r = NewId, ![t].e = lg.executor]
           /\ h' = Logged(t, 0) /\ exec' = exec
  <2>1. PICK n \in Int : n = lg.pending + 1
    BY NumberTypes, SMTT(60) DEF NumbersTyped
  <2>2. /\ LoggerTypes' /\ SameLogger /\ lg'.lifecycle = lg.lifecycle
        /\ lg'.shutdown = lg.shutdown /\ lg'.pending = n
    <3>1. SetsPending(n)
      BY <1>3, <2>1 DEF SetsPending
    <3> QED BY <2>1, <3>1, PendingFields DEF LoggerIs
  <2>3. NewId \in Nat
    BY QueueTypes, SMTT(60) DEF NewId, QueuesTyped
  <2>4. PICK r \in Nat : r = NewId
    BY <2>3
  <2>5. PICK e \in Executors : e = lg.executor
    BY NumberTypes DEF NumbersTyped
  <2>6. /\ ThreadTypes' /\ Others(t) /\ th'[t].pc = "enqueue" /\ th'[t].r = r /\ th'[t].e = e
    <3>1. Enqueues(t, "enqueue", r, e) /\ "enqueue" \in Locations
      BY <1>3, <2>4, <2>5 DEF Enqueues, Locations
    <3> QED BY <2>4, <2>5, <3>1, EnqueueLocals DEF LocalsAre
  <2>7. e # Sync
    BY <2>5, BackendAssumption, SMTT(60) DEF Executors, Sync
  <2>8. LockOk(t)'
    BY <2>2, <2>6, <2>7 DEF LockOk
  <2>9. Draining' => TargetOk(t)'
    <3> SUFFICES ASSUME Draining' PROVE TargetOk(t)'
      OBVIOUS
    <3>1. lg.executor = Home
      <4>1. 0 \in Nat
        OBVIOUS
      <4>2. h'.configs = h.configs
        BY <1>3, <4>1, LoggedFields DEF LoggedIs
      <4> QED BY <4>2 DEF CallInv, HomeInv, Draining
    <3>2. Home' = Home
      BY <2>2 DEF Home, SameLogger
    <3> QED BY <1>3, <2>2, <2>5, <2>6, <3>1, <3>2 DEF TargetOk, SameLogger
  <2> QED BY <1>3, <2>1, <2>2, <2>4, <2>6, <2>8, <2>9, HeldStep DEF KeepsRecord
<1> QED BY <1>2, <1>3 DEF ConsoleLogger_log

\* A record that was held is added: add_task() of a call that was blocked, or of
\* ConsoleLogger::log() after it unlocked.
LEMMA AddHeldStep ==
    ASSUME CallInv, NEW t \in Threads, NEW e \in Executors, AddsHeld(t, e)
    PROVE  CallInv' /\ Counts(t)
<1> USE DEF AddsHeld
<1>1. Types /\ RecordInv /\ HomeInv /\ BoundInv /\ QuietInv
  BY DEF CallInv, RecordInv
<1> USE <1>1
<1>2. th[t].r \in Nat /\ h \in History /\ SameHistoryFates(h, h)
  BY DEF Types, ThreadTypes, Locals, HistoryTypes, SameHistoryFates
<1> USE <1>2
<1>3. PICK r \in Nat : r = th[t].r
  OBVIOUS
<1> USE <1>3
<1>4. PICK hist \in History : hist = h
  OBVIOUS
<1> USE <1>4
<1>5. ExecutorTypes' /\ h' \in History /\ SameHistory(hist, h') /\ Adds(e, r)
  <2>1. AddTask(e, r, hist) /\ SameHistoryFates(h, hist)
    BY DEF AddTask
  <2> QED BY <2>1, AddTaskFields
<1> USE <1>5
<1>6. /\ Types' /\ h'.by = h.by /\ h'.calls = h.calls /\ h'.configs = h.configs /\ h'.down = h.down
  BY DEF SameHistory, Types, HistoryTypes
<1> USE <1>6
<1>7. BoundInv' /\ h'.configs >= h.configs
  BY BoundKept DEF Begins, SameLogger
<1> USE <1>7
<1>8. Calm(t)
  BY DEF Calm, SameLogger, Configuring
<1>9. QuietInv'
  <2>1. Quiet(t)
    BY DEF Quiet, Stopping
  <2> QED BY <2>1, QuietKept
<1>10. Counts(t)
  BY DEF Counts, Enqueuing, Configuring, SameLogger
<1>11. (Draining' => Draining) /\ ~h'.down
  <2>1. Draining' => Draining
    BY DrainedBefore
  <2>2. ~h.down
    BY DEF QuietInv, At
  <2> QED BY <2>1, <2>2
<1> USE <1>11
<1>12. Arrives(t, r) /\ HoldersLeft({t}) /\ t \notin Holders'
  <2>1. t \in Holders /\ t \notin Holders'
    BY DEF Holders, At
  <2> QED BY <2>1, HeldArrives, OtherHoldersLeft
<1>13. RecordInv' /\ KeepsPlaces /\ Ids \subseteq Ids'
  <2>1. RecordInv' /\ KeepsPlaces
    BY <1>12, EnqueueRecord DEF EnqueuesRecord
  <2> QED BY <1>12, <2>1 DEF Arrives
<1>14. Calmed
  <2>1. \A f \in Executors \ {e} : SameQueue(f)
    BY DEF Adds
  <2>2. CASE lg.config.async
    BY <2>1, <2>2, AddCalmed
  <2>3. CASE ~Draining
    BY <2>3 DEF Calmed
  <2> QED BY <2>2, <2>3
<1>15. LockOk(t)' /\ TargetOk(t)' /\ SeenOk(t)'
  <2>1. th[t].pc = "enqueue" => kind = "console"
    BY DEF CallInv, LockInv, LockOk
  <2> QED BY <2>1 DEF LockOk, TargetOk, SeenOk
<1> QED BY <1>8, <1>9, <1>10, <1>13, <1>14, <1>15, CalmStep

\* add_task() of a call that was blocked.
LEMMA AddStep ==
    ASSUME CallInv, NEW t \in Threads, log_add(t)
    PROVE  CallInv' /\ Counts(t)
<1>1. /\ Types /\ th[t].pc = "add" /\ AddTask(lg.executor, th[t].r, h) /\ lg' = Release(t)
      /\ Return(t) /\ kind' = kind /\ info' = info
  BY DEF CallInv, log_add
<1> USE <1>1
<1>2. /\ LoggerTypes' /\ SameLogger /\ lg'.shutdown = lg.shutdown /\ lg'.pending = lg.pending
      /\ lg'.lifecycle = IF lg.lifecycle = t THEN None ELSE lg.lifecycle
  BY ReleaseFields DEF LoggerIs
<1>3. ThreadTypes' /\ Others(t) /\ th'[t].pc = "idle"
  BY ReturnFields
<1>4. PICK e \in Executors : e = lg.executor
  BY NumberTypes DEF NumbersTyped
<1>5. lg.config.async /\ ~lg.shutdown
  BY DEF CallInv, LockInv, LockOk
<1>6. Draining => e = Home
  BY <1>4, <1>5 DEF CallInv, HomeInv
<1>7. AddTask(e, th[t].r, h)
  BY <1>4
<1>8. InfoTypes' /\ \A u \in Threads \ {t} : lg.lifecycle = u => lg'.lifecycle = u
  BY <1>2, Unmoved DEF KeptParts
<1> QED BY <1>2, <1>3, <1>5, <1>6, <1>7, <1>8, AddHeldStep DEF AddsHeld

\* add_task() of ConsoleLogger::log().
LEMMA EnqueueStep ==
    ASSUME CallInv, NEW t \in Threads, ConsoleLogger_enqueue(t)
    PROVE  CallInv' /\ Counts(t)
<1>1. /\ Types /\ th[t].pc = "enqueue" /\ AddTask(th[t].e, th[t].r, h) /\ lg' = lg
      /\ Goto(t, "finish") /\ kind' = kind /\ info' = info /\ "finish" \in Locations
  BY DEF CallInv, ConsoleLogger_enqueue, Locations
<1> USE <1>1
<1>2. /\ LoggerTypes' /\ SameLogger /\ lg'.shutdown = lg.shutdown /\ lg'.pending = lg.pending
      /\ lg'.lifecycle = lg.lifecycle
  BY SameFields DEF LoggerIs
<1>3. ThreadTypes' /\ Others(t) /\ th'[t].pc = "finish"
  BY GotoFields DEF LocalsAre
<1>4. PICK e \in Executors : e = th[t].e
  BY DEF CallInv, LockInv, LockOk, Types, ThreadTypes, Locals
<1>5. (Draining => e = Home) /\ (lg.config.async \/ ~Draining)
  BY <1>4 DEF CallInv, HomeInv, TargetOk
<1>6. AddTask(e, th[t].r, h)
  BY <1>4
<1>7. InfoTypes'
  BY Unmoved DEF KeptParts
<1> QED BY <1>2, <1>3, <1>5, <1>6, <1>7, AddHeldStep DEF AddsHeld

\* The worker of executor e, which has work, is done with a step.
LEMMA WorkCalmed ==
    ASSUME HomeInv, NEW e \in Executors, ~Idle(e), kind' = kind, h'.configs = h.configs,
           h'.down = h.down, \A f \in Executors \ {e} : SameQueue(f)
    PROVE  Calmed /\ (Draining' => Draining /\ \A f \in Executors \ {e} : Idle(f))
<1>1. Draining' => Draining
  BY DEF Draining
<1>2. ASSUME Draining
      PROVE  e = Home /\ lg.config.async /\ ~h.down /\ \A f \in Executors \ {e} : Idle(f)
  BY <1>2 DEF HomeInv, AllIdle
<1>3. \A f \in Executors \ {e} : Idle(f) => Idle(f)'
  BY DEF SameQueue, Idle
<1> QED BY <1>1, <1>2, <1>3 DEF Calmed

\* All the invariants, after a step of a worker.
LEMMA WorkStep ==
    ASSUME CallInv, NEW e \in Executors, Live(e) # {}, Working, RecordInv', KeepsPlaces, Ids' = Ids,
           h'.calls = h.calls, h'.down = h.down, Calmed
    PROVE  CallInv'
<1>1. Types /\ Types' /\ PlaceInv
  BY DEF CallInv, RecordInv
<1> USE <1>1
<1>2. PICK t \in Threads : TRUE
  <2>1. PICK r \in Ids : r \in Live(e)
    BY DEF PlaceInv, ExecutorOk
  <2>2. h.by \in Seq(Threads) /\ r \in 1..Len(h.by)
    BY <2>1, QueueTypes DEF Ids, QueuesTyped
  <2>3. h.by[r] \in Threads
    BY <2>2, SMTT(60)
  <2> QED BY <2>3
<1> USE <1>2
<1>3. BoundInv' /\ h'.configs >= h.configs
  BY NumberTypes, SMTT(60) DEF CallInv, BoundInv, Working, NumbersTyped
<1>4. Calm(t)
  BY <1>3 DEF Calm, Working, Others, Configuring
<1>5. \A S : At(S)' = At(S)
  BY DEF At, Working
<1>6. QuietInv'
  BY <1>5 DEF CallInv, QuietInv, Working
<1>7. LockOk(t)'
  BY DEF CallInv, LockInv, LockOk, Working, Locked
<1>8. Draining' => TargetOk(t)'
  <2>1. Draining' => Draining
    BY DEF Draining, Working
  <2>2. Home' = Home /\ WaitTarget' = WaitTarget
    BY DEF Home, WaitTarget, Working
  <2> QED BY <2>1, <2>2 DEF CallInv, HomeInv, TargetOk, Working
<1>9. SeenOk(t)'
  BY DEF CallInv, SeenInv, SeenOk, Working, KeepsPlaces
<1> QED BY <1>3, <1>4, <1>6, <1>7, <1>8, <1>9, CalmStep

\* A worker takes a task.
LEMMA TakeStep ==
    ASSUME CallInv, NEW e \in Executors, take_task(e)
    PROVE  CallInv' /\ Working
<1>1. /\ Types /\ RecordInv /\ HomeInv /\ exec[e].run = 0 /\ exec[e].q # <<>> /\ Working
      /\ exec' = [exec EXCEPT ![e].run = Head(exec[e].q), ![e].q = Tail(@)]
      /\ info' = info /\ h' = h /\ kind' = kind /\ lg' = lg /\ th' = th
  BY DEF CallInv, RecordInv, take_task, Working
<1> USE <1>1
<1>2. exec[e].q \in Seq(Nat)
  BY QueueTypes DEF QueuesTyped
<1>3. Head(exec[e].q) \in Nat /\ Tail(exec[e].q) \in Seq(Nat) /\ 1 \in DOMAIN exec[e].q
  BY <1>2, SMTT(60)
<1>4. /\ ExecutorTypes' /\ \A f \in Executors \ {e} : SameQueue(f)
      /\ exec'[e].run = Head(exec[e].q) /\ exec'[e].q = Tail(exec[e].q)
  BY <1>3 DEF Types, ExecutorTypes, SameQueue
<1> USE <1>4
<1>5. Types'
  BY Unmoved, SameFields DEF Types, ThreadTypes, KeptParts, LoggerIs
<1>6. ~Idle(e) /\ Live(e) # {}
  BY <1>3 DEF Idle, Live, Elements
<1>7. Calmed /\ (Draining' => Draining)
  BY <1>6, WorkCalmed
<1>8. HoldersLeft({})
  BY DEF HoldersLeft, Holders, At
<1>9. RecordInv' /\ KeepsPlaces /\ Ids' = Ids
  BY <1>5, <1>7, <1>8, TakeRecord DEF TakesRecord
<1> QED BY <1>6, <1>7, <1>9, WorkStep

\* A worker runs the task it took.
LEMMA RunStep ==
    ASSUME CallInv, NEW e \in Executors, exec[e].run # 0, Done(e), kind' = kind, lg' = lg,
           th' = th, InfoTypes',
           Runs(exec[e].run)
    PROVE  CallInv' /\ Working
<1>1. /\ Types /\ RecordInv /\ HomeInv /\ exec' = [exec EXCEPT ![e].run = 0]
  BY DEF CallInv, RecordInv, Done
<1> USE <1>1
<1>2. PICK hist \in History : hist = h
  BY DEF Types, HistoryTypes
<1>3. PICK r \in Nat : r = exec[e].run
  BY QueueTypes DEF QueuesTyped
<1>4. PICK new : new = h'
  OBVIOUS
<1>5. /\ new \in History /\ SameHistory(hist, new)
      /\ hist.dropped \subseteq new.dropped /\ hist.filtered \subseteq new.filtered
      /\ \/ new.written = Append(hist.written, r)
         \/ new.written = hist.written /\ r \in new.dropped \cup new.filtered
  <2>1. \/ new = Wrote(hist, r)
        \/ new = Filter(r, hist)
        \/ \E ok \in BOOLEAN : new = WriteFile(r, hist, ok)
    BY <1>2, <1>3, <1>4 DEF Runs
  <2> QED BY <2>1, SettledFields DEF SettledIs, Outcome
<1>6. /\ h' \in History /\ h'.by = h.by /\ h'.calls = h.calls /\ h'.configs = h.configs
      /\ h'.down = h.down /\ Settles(exec[e].run)
  BY <1>2, <1>3, <1>4, <1>5 DEF SameHistory, Settles
<1> USE <1>6
<1>7. /\ ExecutorTypes' /\ \A f \in Executors \ {e} : SameQueue(f)
      /\ exec'[e].run = 0 /\ exec'[e].q = exec[e].q
  <2>1. 0 \in Nat
    OBVIOUS
  <2> QED BY <2>1 DEF Types, ExecutorTypes, SameQueue
<1> USE <1>7
<1>8. Types' /\ Working
  BY SameFields DEF Types, ThreadTypes, HistoryTypes, Working, LoggerIs
<1>9. ~Idle(e) /\ Live(e) # {}
  BY DEF Idle, Live
<1>10. Calmed /\ (Draining' => Draining /\ \A f \in Executors \ {e} : Idle(f))
  BY <1>9, WorkCalmed
<1>11. HoldersLeft({})
  BY DEF HoldersLeft, Holders, At
<1>12. RecordInv' /\ KeepsPlaces /\ Ids' = Ids
  BY <1>8, <1>10, <1>11, FinishRecord DEF FinishesRecord
<1> QED BY <1>8, <1>9, <1>10, <1>12, WorkStep
-----------------------------------------------------------------------------
(* Every step *)

\* An asynchronous log() under the lifecycle mutex: the record is handed over,
\* or the call blocks.
LEMMA SubmitOrBlock ==
    ASSUME CallInv, NEW t \in Threads, Enter(t), ~lg.shutdown, lg.config.async,
           kind # "console", kind' = kind, InfoTypes', NEW level \in Nat,
           Submit(t, Logged(t, level))
    PROVE  CallInv' /\ Counts(t)
<1>1. Call(t)
  BY DEF Enter
<1>2. CASE AddTask(lg.executor, NewId, Logged(t, level)) /\ lg' = lg /\ th' = th
  BY <1>1, <1>2, SubmitStep DEF HandsOver
<1>3. CASE /\ lg' = [lg EXCEPT !.lifecycle = t]
           /\ th' = [th EXCEPT ![t].pc = "add", ![t].r = NewId]
           /\ h' = Logged(t, level) /\ exec' = exec
  BY <1>3, BlockedStep DEF Blocks
<1> QED BY <1>2, <1>3 DEF Submit

\* log() of FileLogger, WindowsDebugLogger, SyslogLogger and EventLogLogger.
LEMMA LockedLogStep ==
    ASSUME CallInv, NEW t \in Threads, kind # "console", NEW level \in Nat, NEW direct,
           LockedLog(t, level, direct),
           direct = Wrote(Logged(t, level), NewId) \/ direct = Filter(NewId, Logged(t, level))
    PROVE  CallInv' /\ Counts(t)
<1>1. /\ Types /\ Enter(t) /\ Call(t) /\ ~lg.shutdown /\ kind' = kind /\ info' = info
  BY DEF CallInv, LockedLog, Enter
<1> USE <1>1
<1>2. InfoTypes'
  BY Unmoved DEF KeptParts
<1>3. CASE ~lg.config.async /\ h' = direct /\ Unchecked
  <2>1. lg' = lg /\ exec' = exec /\ th' = th
    BY <1>3 DEF Unchecked
  <2> QED BY <1>2, <1>3, <2>1, DirectStep DEF WritesItself
<1>4. CASE lg.config.async /\ Submit(t, Logged(t, level))
  BY <1>2, <1>4, SubmitOrBlock
<1> QED BY <1>3, <1>4 DEF LockedLog

\* What a thread knows of its last file keeps its type.
LEMMA NoteTypes ==
    ASSUME Types, NEW t \in Threads, NEW p \in Int, NEW n \in Int, Notes(t, p, n)
    PROVE  InfoTypes'
  BY DEF Types, InfoTypes, Notes

\* log() of UniqueFileLogger.
LEMMA UniqueLogStep ==
    ASSUME CallInv, NEW t \in Threads, UniqueFileLogger_log(t)
    PROVE  CallInv' /\ Counts(t)
<1>1. /\ Types /\ kind = "unique" /\ Enter(t) /\ Call(t) /\ ~lg.shutdown /\ kind' = kind
  BY DEF CallInv, UniqueFileLogger_log, Enter
<1> USE <1>1
<1>2. NewId \in Int /\ NotAvailable \in Int /\ NoFile \in Int /\ 0 \in Nat
  BY QueueTypes, SMTT(60) DEF NewId, NotAvailable, NoFile, QueuesTyped
<1> USE <1>2
<1>3. info[t].pending_logs \in Int /\ info[t].last \in Int
      /\ info \in [Threads -> [pending_logs : Int, last : Int]]
  BY DEF Types, InfoTypes
<1> USE <1>3
<1>4. ASSUME NEW ok \in BOOLEAN, ~lg.config.async,
             h' = WriteFile(NewId, Logged(t, 0), ok), Unchecked,
             info' = [info EXCEPT ![t].last = IF ok THEN NewId ELSE NotAvailable]
      PROVE  CallInv' /\ Counts(t)
  <2>1. lg' = lg /\ exec' = exec /\ th' = th
    BY <1>4 DEF Unchecked
  <2>2. PICK n \in Int : n = IF ok THEN NewId ELSE NotAvailable
    OBVIOUS
  <2>3. info' = [info EXCEPT ![t].last = n]
    BY <1>4, <2>2
  <2>4. InfoTypes'
    BY <2>3 DEF InfoTypes
  <2>5. \E a \in BOOLEAN : h' = WriteFile(NewId, Logged(t, 0), a)
    BY <1>4
  <2> QED BY <1>4, <2>1, <2>4, <2>5, DirectStep DEF WritesItself
<1>5. ASSUME lg.config.async, Submit(t, Logged(t, 0)),
             info' = [info EXCEPT ![t].pending_logs = @ + 1,
                                  ![t].last = IF @ = Absent THEN NoFile ELSE @]
      PROVE  CallInv' /\ Counts(t)
  <2>1. PICK n \in Int : n = IF info[t].last = Absent THEN NoFile ELSE info[t].last
    OBVIOUS
  <2>2. PICK p \in Int : p = info[t].pending_logs + 1
    BY SMTT(60)
  <2>3. Notes(t, p, n)
    BY <1>5, <2>1, <2>2 DEF Notes
  <2>4. InfoTypes'
    BY <2>3, NoteTypes
  <2> QED BY <1>5, <2>4, SubmitOrBlock
<1> QED BY <1>4, <1>5 DEF UniqueFileLogger_log

\* log() of every class.
LEMMA LogStep ==
    ASSUME CallInv, NEW t \in Threads, log(t)
    PROVE  CallInv' /\ Counts(t)
<1>1. 0 \in Nat /\ Levels \subseteq Nat
  BY BackendAssumption
<1>2. CASE FileLogger_log(t) \/ WindowsDebugLogger_log(t)
  <2>1. PICK direct : direct = Wrote(Logged(t, 0), NewId)
    OBVIOUS
  <2>2. LockedLog(t, 0, direct) /\ kind # "console"
    BY <1>2, <2>1 DEF FileLogger_log, WindowsDebugLogger_log
  <2> QED BY <1>1, <2>1, <2>2, LockedLogStep
<1>3. CASE SyslogLogger_log(t) \/ EventLogLogger_log(t)
  <2>1. PICK level \in Levels :
          kind # "console" /\ LockedLog(t, level, Filter(NewId, Logged(t, level)))
    BY <1>3 DEF SyslogLogger_log, EventLogLogger_log
  <2>2. PICK direct : direct = Filter(NewId, Logged(t, level))
    OBVIOUS
  <2>3. LockedLog(t, level, direct) /\ level \in Nat
    BY <1>1, <2>1, <2>2
  <2> QED BY <2>1, <2>2, <2>3, LockedLogStep
<1> QED BY <1>2, <1>3, ConsoleLogStep, UniqueLogStep DEF log

\* The calls that begin.
LEMMA BeginStep ==
    ASSUME CallInv, NEW t \in Threads, Begin(t)
    PROVE  CallInv' /\ Counts(t)
<1>1. CASE wait(t)
  <2>1. ASSUME Locked, LockedWait(t, "wait") PROVE CallInv' /\ Counts(t)
    <3>1. "wait" \in {"wait", "clearwait"}
      OBVIOUS
    <3> QED BY <2>1, <3>1, LockedWaitStep
  <2> QED BY <1>1, <2>1, UnlockedWaitStep, ConsoleWaitStep DEF wait, FileLogger_wait,
             UniqueFileLogger_wait, WindowsDebugLogger_wait, SyslogLogger_wait,
             EventLogLogger_wait, Locked
<1>2. CASE FileLogger_clear_logs(t) \/ UniqueFileLogger_clear_logs(t)
  <2>1. Locked /\ LockedWait(t, "clearwait") /\ "clearwait" \in {"wait", "clearwait"}
    BY <1>2 DEF FileLogger_clear_logs, UniqueFileLogger_clear_logs, Locked
  <2> QED BY <2>1, LockedWaitStep
<1>3. CASE set_config(t)
  <2>1. \/ ConsoleLogger_set_config(t)
        \/ Locked /\ \E c \in Configs : LockedSetConfig(t, c)
        \/ \E c \in Configs : SetQueueConfig(t, c)
    BY <1>3 DEF set_config, FileLogger_set_config, UniqueFileLogger_set_config,
       WindowsDebugLogger_set_config, FileLogger_set_queue_config,
       UniqueFileLogger_set_queue_config, WindowsDebugLogger_set_queue_config, Locked
  <2> QED BY <2>1, ConsoleConfigStep, LockedConfigStep, QueueConfigStep
<1>4. CASE shutdown(t)
  <2>1. ConsoleLogger_shutdown(t) \/ (kind # "console" /\ LockedShutdown(t))
    BY <1>4 DEF shutdown, FileLogger_shutdown, UniqueFileLogger_shutdown,
       WindowsDebugLogger_shutdown, SyslogLogger_shutdown, EventLogLogger_shutdown
  <2> QED BY <2>1, ConsoleShutdownStep, LockedShutdownStep
<1> QED BY <1>1, <1>2, <1>3, <1>4, LogStep, LevelStep, GetStep DEF Begin

\* The calls that go on.
LEMMA ContinueStep ==
    ASSUME CallInv, CountFacts, NEW t \in Threads, Continue(t)
    PROVE  CallInv' /\ Counts(t)
<1>1. CASE wait_return(t) \/ clear_wait(t) \/ get_last_log_file_return(t) \/ retire_join(t)
  <2>1. /\ kind' = kind /\ exec' = exec /\ info' = info /\ h' = h
        /\ \/ Return(t) /\ th[t].pc \in {"wait", "get", "join"}
           \/ Goto(t, "clear") /\ th[t].pc = "clearwait"
        /\ lg' = lg \/ lg' = Release(t)
    BY <1>1 DEF wait_return, clear_wait, get_last_log_file_return, retire_join
  <2> QED BY <2>1, LeaveStep DEF Leaves
<1> QED BY <1>1, AddStep, EnqueueStep, FinishStep, PendingStep, ClearStep, ApplyStep,
           RetireStep, QuiesceStep, StopStep, ShutdownReturnStep DEF Continue

\* The steps of a worker.
LEMMA WorkerStep ==
    ASSUME CallInv, NEW e \in Executors, Work(e)
    PROVE  CallInv' /\ Working
<1>1. Types
  BY DEF CallInv
<1> USE <1>1
<1>2. CASE take_task(e)
  BY <1>2, TakeStep
<1>3. CASE write_task(e) \/ syslog_task(e)
  <2>1. /\ exec[e].run # 0 /\ Done(e) /\ kind' = kind /\ lg' = lg /\ th' = th /\ info' = info
        /\ Runs(exec[e].run)
    BY <1>3 DEF write_task, syslog_task, Runs
  <2>2. InfoTypes'
    BY <2>1, Unmoved DEF KeptParts
  <2> QED BY <2>1, <2>2, RunStep
<1>4. CASE unique_task(e)
  <2>1. PICK ok \in BOOLEAN :
          /\ exec[e].run # 0 /\ Done(e) /\ h' = WriteFile(exec[e].run, h, ok)
          /\ info' = IF info[h.by[exec[e].run]].last = Absent THEN info
                     ELSE [info EXCEPT ![h.by[exec[e].run]] =
                             [pending_logs |-> @.pending_logs - 1,
                              last |-> IF ok THEN exec[e].run ELSE NotAvailable]]
          /\ kind' = kind /\ lg' = lg /\ th' = th
    BY <1>4 DEF unique_task
  <2>2. Runs(exec[e].run)
    BY <2>1 DEF Runs
  <2>3. InfoTypes'
    <3>1. exec[e].run \in Ids /\ h.by \in Seq(Threads)
      BY <2>1, QueueTypes DEF CallInv, PlaceInv, ExecutorOk, Live, QueuesTyped
    <3>2. h.by[exec[e].run] \in Threads
      BY <3>1, SMTT(60) DEF Ids
    <3>3. PICK t \in Threads : t = h.by[exec[e].run]
      BY <3>2
    <3>4. info \in [Threads -> [pending_logs : Int, last : Int]] /\ info[t].pending_logs \in Int
      BY DEF Types, InfoTypes
    <3>5. PICK p \in Int : p = info[t].pending_logs - 1
      BY <3>4, SMTT(60)
    <3>6. exec[e].run \in Int /\ NotAvailable \in Int
      BY QueueTypes, SMTT(60) DEF NotAvailable, QueuesTyped
    <3>7. PICK n \in Int : n = IF ok THEN exec[e].run ELSE NotAvailable
      BY <3>6
    <3>8. info' = info \/ info' = [info EXCEPT ![t] = [pending_logs |-> p, last |-> n]]
      BY <2>1, <3>3, <3>4, <3>5, <3>7
    <3>9. [pending_logs |-> p, last |-> n] \in [pending_logs : Int, last : Int]
      OBVIOUS
    <3> QED BY <3>4, <3>8, <3>9, SMTT(60) DEF InfoTypes
  <2> QED BY <2>1, <2>2, <2>3, RunStep
<1> QED BY <1>2, <1>3, <1>4 DEF Work
-----------------------------------------------------------------------------
(* The counts *)

\* Whose step it is: a call of thread t, or a worker.
LEMMA StepKinds ==
    ASSUME CallInv, CountFacts, Next
    PROVE  /\ CallInv'
           /\ \/ \E t \in Threads : Counts(t) /\ (Begin(t) \/ Continue(t))
              \/ Working
<1>1. ASSUME NEW t \in Threads, Begin(t) \/ Continue(t) PROVE CallInv' /\ Counts(t)
  BY <1>1, BeginStep, ContinueStep
<1>2. ASSUME NEW e \in DOMAIN exec, Work(e) PROVE CallInv' /\ Working
  <2>1. e \in Executors
    BY DEF CallInv, Types, ExecutorTypes
  <2> QED BY <1>2, <2>1, WorkerStep
<1> QED BY <1>1, <1>2 DEF Next

\* A wait() ends only when the executor it waits for is idle.
LEMMA WaitEnds ==
    ASSUME CallInv, CountFacts, Next, NEW t \in Threads, th[t].pc \in {"wait", "clearwait"},
           th'[t].pc # th[t].pc
    PROVE  Drained(t)
<1>1. PICK u \in Threads : Others(u) /\ (Begin(u) \/ Continue(u))
  BY StepKinds DEF Working, Counts
<1>2. u = t
  BY <1>1 DEF Others
<1>3. Continue(t)
  BY <1>1, <1>2, BeginsIdle DEF Call
<1> QED BY <1>3 DEF Continue, log_add, ConsoleLogger_enqueue, finish_pending_enqueue,
           wait_for_pending_enqueues, wait_return, clear_wait, clear_files,
           get_last_log_file_return, set_config_switch, ConsoleLogger_configure, retire,
           retire_join, ConsoleLogger_quiesce, shutdown_stop, shutdown_return

\* lg.pending and lg.made are right after a step of thread t.
LEMMA CountsKept ==
    ASSUME Types, Types', CountInv, NEW t \in Threads, Counts(t),
           HeadCount(t, Enqueuing), HeadCount(t, Configuring)
    PROVE  CountInv'
<1> DEFINE E == Cardinality(At(Enqueuing))  D == Cardinality(At(Configuring))
<1>1. lg.pending = E /\ lg.made + D <= h.configs + 1
  BY DEF CountInv, Enqueuing, Configuring
<1>2. /\ E \in Nat /\ E' \in Nat
      /\ (th[t].pc \in Enqueuing <=> th'[t].pc \in Enqueuing) => E' = E
      /\ th[t].pc \notin Enqueuing /\ th'[t].pc \in Enqueuing => E' = E + 1
      /\ th[t].pc \in Enqueuing /\ th'[t].pc \notin Enqueuing => E' = E - 1
  BY DEF HeadCount
<1>3. /\ D \in Nat /\ D' \in Nat
      /\ (th[t].pc \in Configuring <=> th'[t].pc \in Configuring) => D' = D
      /\ th[t].pc \notin Configuring /\ th'[t].pc \in Configuring => D' = D + 1
      /\ th[t].pc \in Configuring /\ th'[t].pc \notin Configuring => D' = D - 1
  BY DEF HeadCount
<1> HIDE DEF E, D
<1>4. lg'.pending = E'
  BY <1>1, <1>2 DEF Counts
<1>5. lg.made \in Nat /\ lg'.made \in Nat /\ h.configs \in Nat /\ h'.configs \in Nat
  BY SMTT(60) DEF Types, LoggerTypes, Fields, HistoryTypes, History
<1>6. \/ /\ lg'.made = lg.made /\ h'.configs >= h.configs
         /\ D' = D \/ D' = D - 1 \/ (D' = D + 1 /\ h'.configs = h.configs + 1)
      \/ (lg'.made = lg.made \/ lg'.made = lg.made + 1) /\ h'.configs = h.configs /\ D' = D - 1
  BY <1>3 DEF Counts
<1>7. lg'.made + D' <= h'.configs + 1
  BY <1>1, <1>3, <1>5, <1>6, SMTT(60)
<1>8. lg'.pending = Cardinality(At({"enqueue", "finish"})')
  BY <1>4 DEF E, Enqueuing
<1>9. lg'.made + Cardinality(At({"drain", "configure"})') <= h'.configs + 1
  BY <1>7 DEF D, Configuring
<1> QED BY <1>8, <1>9 DEF CountInv
-----------------------------------------------------------------------------
INSTANCE FiniteSetTheorems

\* How many threads are at S, before and after a step of thread t.
LEMMA HowMany ==
    ASSUME NEW t \in Threads, Others(t), NEW S
    PROVE  HeadCount(t, S)
<1> USE DEF HeadCount
<1>1. IsFiniteSet(Threads)
  BY BackendAssumption
<1>2. IsFiniteSet(At(S)) /\ IsFiniteSet(At(S)')
  <2>1. At(S) \subseteq Threads /\ At(S)' \subseteq Threads
    BY DEF At
  <2> QED BY <1>1, <2>1, FS_Subset
<1> USE <1>2
<1>3. Cardinality(At(S)) \in Nat /\ Cardinality(At(S)') \in Nat
  BY FS_CardinalityType
<1>4. /\ th'[t].pc \in S => At(S)' = At(S) \cup {t}
      /\ th'[t].pc \notin S => At(S)' = At(S) \ {t}
      /\ th[t].pc \in S <=> t \in At(S)
  BY WhoIsWhere DEF Whereabouts
<1> USE <1>4
<1>5. (th[t].pc \in S <=> th'[t].pc \in S) => At(S)' = At(S)
  OBVIOUS
<1>6. ASSUME th[t].pc \notin S, th'[t].pc \in S
      PROVE  Cardinality(At(S)') = Cardinality(At(S)) + 1
  BY <1>6, FS_AddElement
<1>7. ASSUME th[t].pc \in S, th'[t].pc \notin S
      PROVE  Cardinality(At(S)') = Cardinality(At(S)) - 1
  BY <1>7, FS_RemoveElement
<1>8. ASSUME th[t].pc \in S PROVE Cardinality(At(S)) > 0
  <2>1. Cardinality(At(S)) # 0
    BY <1>8, FS_EmptySet
  <2> QED BY <1>3, <2>1, SMTT(60)
<1> QED BY <1>3, <1>5, <1>6, <1>7, <1>8

\* What the steps rely on: with nothing pending no call is enqueuing, and there
\* is an executor for every call that configures.
LEMMA CountsTold ==
    ASSUME CallInv, CountInv
    PROVE  CountFacts
<1>1. Types /\ BoundInv /\ IsFiniteSet(Threads)
  BY BackendAssumption DEF CallInv
<1> USE <1>1
<1>2. \A S : At(S) \subseteq Threads
  BY DEF At
<1>3. IsFiniteSet(At(Enqueuing)) /\ IsFiniteSet(At(Configuring))
  BY <1>2, FS_Subset
<1>4. lg.pending = 0 => At(Enqueuing) = {}
  BY <1>3, FS_EmptySet DEF CountInv, Enqueuing
<1>5. ASSUME At(Configuring) # {} PROVE lg.made + 1 \in Executors
  <2> DEFINE n == Cardinality(At(Configuring))
  <2>1. n \in Nat /\ n # 0
    BY <1>3, <1>5, FS_EmptySet, FS_CardinalityType
  <2>2. lg.made + n <= h.configs + 1
    BY DEF CountInv, Configuring
  <2> HIDE DEF n
  <2>3. h.configs <= h.calls /\ h.calls <= MaxCalls
    BY DEF BoundInv
  <2> QED BY <2>1, <2>2, <2>3, NumberTypes, SMTT(60) DEF Executors, NumbersTyped
<1> QED BY <1>4, <1>5 DEF CountFacts
-----------------------------------------------------------------------------
(* The theorems *)

\* The invariant holds when the logger has been constructed.
LEMMA InitIInv == Init => IInv
<1> SUFFICES ASSUME Init PROVE IInv
  OBVIOUS
<1>1. Cardinality({}) = 0
  BY FS_EmptySet
<1> QED BY <1>1, Constructed, SMTT(60) DEF IInv, CountInv, Enqueuing, Configuring

\* Every step keeps the invariant.
LEMMA NextIInv == IInv /\ [Next]_vars => IInv'
<1> SUFFICES ASSUME IInv, Next PROVE IInv'
  BY StutterStep
<1>1. CallInv' /\ Types /\ Types' /\ CountInv
  BY CountsTold, StepKinds DEF IInv, CallInv
<1> USE <1>1
<1>2. ASSUME NEW t \in Threads, Counts(t) PROVE CountInv'
  <2>1. HeadCount(t, Enqueuing) /\ HeadCount(t, Configuring)
    BY <1>2, HowMany DEF Counts
  <2> QED BY <1>2, <2>1, CountsKept
<1>3. ASSUME Working PROVE CountInv'
  BY <1>3 DEF CountInv, Working, At
<1> QED BY <1>2, <1>3, CountsTold, StepKinds DEF IInv

\* The calls of log(), wait(), clear_logs(), set_config() and shutdown() and the
\* tasks, however they interleave, keep the invariant.
THEOREM Invariance == Spec => []IInv
<1> QED BY InitIInv, NextIInv, PTL DEF Spec

\* The number of the calls that are enqueuing is a number.
LEMMA PendingNumber == IInv => lg.pending \in Nat
<1>1. IsFiniteSet(Threads) /\ At({"enqueue", "finish"}) \subseteq Threads
  BY BackendAssumption DEF At
<1>2. IsFiniteSet(At({"enqueue", "finish"}))
  BY <1>1, FS_Subset
<1> QED BY <1>2, FS_CardinalityType DEF IInv, CountInv

\* Whatever changes of configuration and whatever shutdown() happen meanwhile, a
\* record is written at most once and never lost uncounted, and once shutdown()
\* has returned nothing uses the logger.
THEOREM BackendSafetyHolds == Spec => []BackendSafety
<1>1. IInv => BackendSafety
  BY PendingNumber, SafeState DEF IInv
<1> QED BY <1>1, Invariance, PTL

\* A thread's records are written in the order in which it logged them, also over
\* a change from asynchronous to synchronous writing or of the executor.
THEOREM RecordsKeepOrder == Spec => []ProgramOrder
<1>1. IInv => ProgramOrder
  BY OrderedState DEF IInv
<1> QED BY <1>1, Invariance, PTL

\* When wait() and the wait of clear_logs() return, every record whose log() had
\* returned before the call is settled.
THEOREM WaitSettlesRecords == Spec => [][WaitStep]_vars
<1>1. IInv /\ Next => WaitStep
  BY CountsTold, WaitEnds, WaitSettled DEF IInv, WaitStep
<1> QED BY <1>1, Invariance, PTL DEF Spec
=============================================================================
