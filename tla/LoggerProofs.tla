---------------------------- MODULE LoggerProofs ----------------------------
(***************************************************************************)
(* Proofs about Logger for any number of threads and strategies, dispatch  *)
(* modes, workers and callbacks that log.                                  *)
(*                                                                         *)
(* That a backend is used by one thread at a time follows from who holds   *)
(* which exec_mx, for every call of log() an actor is in (HoldOk); that    *)
(* none is used after its shutdown from when m_shutdown was looked at      *)
(* (UseOk); that shutdown() misses no logger from the writer lock that     *)
(* add_logger() holds between its second look and the publication          *)
(* (RegistryInv, ShutdownInv); and that wait() may go on when a queue is   *)
(* empty from the account of every backend (AccountInv, WaitInv).          *)
(***************************************************************************)
EXTENDS Logger, TLAPS

\* The prover of the steps that name none.
USE ZenonT(60)

Elements(list) == {list[i] : i \in DOMAIN list}

\* The locations inside log(), and those of a call that works through a list.
LogLocations == {"log", "dispatch", "check", "deliver", "leave"}
ListLocations == {"leveling", "wait", "clear", "clearing", "shutdown", "closing"}

\* A call keeps its frames and its list only while it needs them.
LocalOk(a) ==
    /\ pc[a] \notin LogLocations => frames[a] = <<>>
    /\ pc[a] \notin ListLocations => todo[a] = <<>>
    /\ a \in Async => pc[a] \in {"idle", "task_done"} \cup LogLocations
    /\ a \in Threads => pc[a] # "task_done"

\* The calls of log() that are at a strategy: it is the head of their list.
At(a) == {i \in DOMAIN frames[a] : i > 1 \/ pc[a] \in {"check", "deliver", "leave", "log"}}

\* A callback logs, the callback of that record does not.
FrameOk(a) ==
    /\ Len(frames[a]) <= 2
    /\ pc[a] = "log" => Len(frames[a]) <= 1
    /\ pc[a] \in LogLocations \ {"log"} => frames[a] # <<>>
    /\ Len(frames[a]) = 2 => frames[a][1].nested
    /\ a \in Async => /\ Len(frames[a]) <= 1
                      /\ pc[a] = "log" => frames[a] = <<>>
                      /\ frames[a] # <<>> => frames[a][1].nested
    /\ \A i \in DOMAIN frames[a] : Elements(frames[a][i].list) \subseteq Registered
    /\ \A i \in At(a) : frames[a][i].list # <<>>

Stop(a, i) == Head(frames[a][i].list)

\* Who is at a strategy holds its exec_mx, once.
HoldOk(a) ==
    /\ \A i \in At(a) : Stop(a, i) \notin Concurrent => exec_mx[Stop(a, i)] = a
    /\ \A i, j \in At(a) : Stop(a, i) = Stop(a, j) /\ Stop(a, i) \notin Concurrent => i = j
    /\ pc[a] \in {"clearing", "closing"} => todo[a] # <<>> /\ exec_mx[Head(todo[a])] = a

\* m_shutdown was looked at under exec_mx.
UseOk(a) ==
    /\ pc[a] = "deliver" /\ Stop(a, 1) \notin Concurrent => ~closed[Stop(a, 1)]
    /\ pc[a] = "clearing" => ~closed[Head(todo[a])]

ActorOk(a) == LocalOk(a) /\ FrameOk(a) /\ HoldOk(a) /\ UseOk(a)

ActorInv == \A a \in Actors : ActorOk(a)

RegistryInv == \A a \in Actors : pc[a] = "add_publish" => writer = a

Ended(s) == closed[s] /\ queue[s] = <<>>

\* What shutdown() has done so far.
ShutdownInv ==
    /\ \A s \in Strategies : closed[s] => m_shutdown
    /\ \A a \in Actors :
        /\ pc[a] \in {"shutdown_list", "shutdown", "closing"} => m_shutdown
        /\ pc[a] \in {"shutdown", "closing"} =>
            /\ \A b \in Actors : pc[b] # "add_publish"
            /\ \A s \in Registered \ Elements(todo[a]) : Ended(s)
        /\ pc[a] = "closing" => closed[Head(todo[a])]
    /\ completed =>
        /\ m_shutdown
        /\ \A b \in Actors : pc[b] # "add_publish"
        /\ \A s \in Registered : Ended(s)

\* What a backend was given it has handled or queued.
AccountInv ==
    \A s \in Strategies :
        /\ delivered[s] = handled[s] + Len(queue[s])
        /\ s \notin Async => queue[s] = <<>>
        /\ s \notin Registered => delivered[s] = 0
        /\ s \in Async /\ pc[s] # "idle" => queue[s] # <<>>

WaitInv ==
    \A t \in Threads :
        /\ \A s \in Strategies : seen[t][s] <= delivered[s]
        /\ pc[t] = "wait" => \A s \in Strategies \ Elements(todo[t]) : seen[t][s] <= handled[s]

IInv == TypeOK /\ ActorInv /\ RegistryInv /\ ShutdownInv /\ AccountInv /\ WaitInv
-----------------------------------------------------------------------------
(* Lists of strategies *)

\* What is taken from the front of a list.
LEMMA HeadAndRest ==
    ASSUME NEW S, NEW list \in Seq(S), list # <<>>
    PROVE  /\ Head(list) \in S /\ Tail(list) \in Seq(S)
           /\ Elements(list) = {Head(list)} \cup Elements(Tail(list))
<1>1. /\ Len(list) \in Nat /\ Len(list) # 0 /\ Head(list) = list[1] /\ Head(list) \in S
      /\ Tail(list) \in Seq(S) /\ Len(Tail(list)) = Len(list) - 1
      /\ \A i \in 1..(Len(list) - 1) : Tail(list)[i] = list[i + 1]
      /\ DOMAIN list = 1..Len(list) /\ DOMAIN Tail(list) = 1..(Len(list) - 1)
  BY SMTT(60)
<1>2. ASSUME NEW i \in 1..Len(list) PROVE list[i] \in {list[1]} \cup Elements(Tail(list))
  <2>1. CASE i = 1
    BY <2>1
  <2>2. CASE i # 1
    <3>1. i - 1 \in 1..(Len(list) - 1) /\ Tail(list)[i - 1] = list[i]
      BY <1>1, <2>2, SMTT(60)
    <3> QED BY <1>1, <3>1 DEF Elements
  <2> QED BY <2>1, <2>2
<1>3. ASSUME NEW i \in 1..(Len(list) - 1) PROVE Tail(list)[i] \in Elements(list)
  <2>1. i + 1 \in 1..Len(list) /\ Tail(list)[i] = list[i + 1]
    BY <1>1, SMTT(60)
  <2> QED BY <1>1, <2>1 DEF Elements
<1>4. list[1] \in Elements(list)
  BY <1>1, SMTT(60) DEF Elements
<1>5. Elements(list) \subseteq {Head(list)} \cup Elements(Tail(list))
  BY <1>1, <1>2 DEF Elements
<1>6. {Head(list)} \cup Elements(Tail(list)) \subseteq Elements(list)
  BY <1>1, <1>3, <1>4 DEF Elements
<1> QED BY <1>1, <1>5, <1>6

\* push_back().
LEMMA PushBack ==
    ASSUME NEW S, NEW list \in Seq(S), NEW s \in S
    PROVE  /\ Append(list, s) \in Seq(S)
           /\ Elements(Append(list, s)) = Elements(list) \cup {s}
           /\ (\A i, j \in DOMAIN list : list[i] = list[j] => i = j) /\ s \notin Elements(list) =>
                \A i, j \in DOMAIN Append(list, s) :
                    Append(list, s)[i] = Append(list, s)[j] => i = j
<1> DEFINE r == Append(list, s)
           n == Len(list)
<1>1. /\ n \in Nat /\ r \in Seq(S) /\ Len(r) = n + 1 /\ r[n + 1] = s
      /\ \A i \in 1..n : r[i] = list[i]
      /\ DOMAIN list = 1..n /\ DOMAIN r = 1..(n + 1)
  BY SMTT(60)
<1>2. 1..(n + 1) = 1..n \cup {n + 1}
  BY <1>1, SMTT(60)
<1> HIDE DEF r, n
<1>3. Elements(r) = Elements(list) \cup {s}
  BY <1>1, <1>2, SMTT(60) DEF Elements
<1>4. ASSUME \A i, j \in DOMAIN list : list[i] = list[j] => i = j, s \notin Elements(list),
             NEW i \in DOMAIN r, NEW j \in DOMAIN r, r[i] = r[j]
      PROVE  i = j
  <2>1. \A k \in 1..n : list[k] # s
    BY <1>1, <1>4 DEF Elements
  <2> QED BY <1>1, <1>2, <1>4, <2>1, SMTT(60)
<1> QED BY <1>1, <1>3, <1>4 DEF r
-----------------------------------------------------------------------------
(* The actors *)

\* Only actor a moves.
Moves(a) ==
    \A b \in Actors \ {a} : pc'[b] = pc[b] /\ frames'[b] = frames[b] /\ todo'[b] = todo[b]

\* Nobody loses a lock to a; a backend is closed only under its free lock.
Respects(a) ==
    /\ \A s \in Strategies : \A b \in Actors \ {a} : exec_mx[s] = b => exec_mx'[s] = b
    /\ \A s \in Strategies : closed'[s] => closed[s] \/ exec_mx[s] = NoActor
    /\ Registered \subseteq Registered'

\* What an actor has stays true while another one moves.
LEMMA OthersKept ==
    ASSUME IInv, NEW a \in Actors, Moves(a), Respects(a), NEW b \in Actors \ {a}
    PROVE  ActorOk(b)'
<1>1. ActorOk(b) /\ pc'[b] = pc[b] /\ frames'[b] = frames[b] /\ todo'[b] = todo[b]
  BY DEF IInv, ActorInv, Moves
<1>2. /\ frames[b] \in Seq(Frames) /\ todo[b] \in Seq(Strategies)
      /\ b # NoActor
  BY LoggerAssumption, SMTT(60) DEF IInv, TypeOK, Actors
<1>3. At(b)' = At(b) /\ \A i : Stop(b, i)' = Stop(b, i)
  BY <1>1 DEF At, Stop
<1>4. LocalOk(b)'
  BY <1>1 DEF ActorOk, LocalOk
<1>5. FrameOk(b)'
  BY <1>1, <1>3 DEF ActorOk, FrameOk, Respects
<1>6. \A i \in At(b) : frames[b][i].list # <<>> /\ Stop(b, i) \in Strategies
  <2> SUFFICES ASSUME NEW i \in At(b)
               PROVE  frames[b][i].list # <<>> /\ Stop(b, i) \in Strategies
    OBVIOUS
  <2>1. frames[b][i] \in Frames
    BY <1>2, SMTT(60) DEF At
  <2>2. frames[b][i].list \in Seq(Strategies) /\ frames[b][i].list # <<>>
    BY <1>1, <2>1 DEF ActorOk, FrameOk, Frames
  <2> QED BY <2>2, HeadAndRest DEF Stop
<1>7. todo[b] # <<>> => Head(todo[b]) \in Strategies
  BY <1>2, HeadAndRest
<1>8. HoldOk(b)'
  BY <1>1, <1>3, <1>6, <1>7, SMTT(60) DEF ActorOk, HoldOk, Respects
<1>9. UseOk(b)'
  <2>1. pc[b] = "deliver" => 1 \in At(b)
    <3>1. pc[b] = "deliver" => frames[b] # <<>>
      BY <1>1 DEF ActorOk, FrameOk, LogLocations
    <3> QED BY <1>2, <3>1, SMTT(60) DEF At
  <2> QED BY <1>1, <1>2, <1>3, <1>6, <1>7, <2>1 DEF ActorOk, HoldOk, UseOk, Respects
<1> QED BY <1>4, <1>5, <1>8, <1>9 DEF ActorOk

\* An actor outside log().
LEMMA OutsideLog ==
    ASSUME NEW a \in Actors, frames'[a] = <<>>, pc'[a] \notin LogLocations \ {"log"},
           pc'[a] \notin ListLocations => todo'[a] = <<>>,
           a \in Async => pc'[a] \in {"idle", "task_done"} \cup LogLocations,
           a \in Threads => pc'[a] # "task_done",
           pc'[a] \in {"clearing", "closing"} => todo'[a] # <<>> /\ exec_mx'[Head(todo'[a])] = a,
           pc'[a] = "clearing" => ~closed'[Head(todo'[a])]
    PROVE  ActorOk(a)'
<1>1. At(a)' = {}
  BY SMTT(60) DEF At
<1>2. LocalOk(a)' /\ HoldOk(a)'
  BY <1>1 DEF LocalOk, HoldOk
<1>3. FrameOk(a)'
  BY <1>1, SMTT(60) DEF FrameOk
<1>4. UseOk(a)'
  BY DEF UseOk, LogLocations
<1> QED BY <1>2, <1>3, <1>4 DEF ActorOk

\* The steps, by call: a client calls, add_logger() and the setters, wait(),
\* clear_logger() and clear_all_loggers(), shutdown(), log().
Begin(a) ==
    log(a) \/ add_logger(a) \/ set_flag(a) \/ set_level(a) \/ wait(a) \/ clear(a) \/ shutdown(a)

RegistryStep(a) ==
    \/ add_logger_lock(a) \/ add_logger_publish(a)
    \/ \E s \in Strategies : \/ set_logger_enabled(a, s) \/ set_logger_single_mode(a, s)
                             \/ set_log_level(a, s)
    \/ set_log_level_all(a) \/ leveling(a) \/ leveling_done(a)

WaitStep(a) == wait_list(a) \/ wait_each(a) \/ wait_return(a)

ClearStep(a) ==
    clear_logger(a) \/ clear_all_loggers(a) \/ clear_lock(a) \/ clear_logs(a) \/ clear_return(a)

ShutdownStep(a) ==
    shutdown_list(a) \/ shutdown_lock(a) \/ shutdown_logger(a) \/ shutdown_return(a)

LogStep(a) ==
    \/ log_snapshot(a) \/ dispatch(a) \/ check(a) \/ deliver(a) \/ leave(a) \/ log_return(a)

\* Every step is one of these.
LEMMA Steps ==
    ASSUME Next
    PROVE  \/ \E a \in Threads : Begin(a)
           \/ \E a \in Actors : \/ RegistryStep(a) \/ WaitStep(a) \/ ClearStep(a)
                                \/ ShutdownStep(a) \/ LogStep(a)
           \/ \E s \in Async : WorkerStep(s)
<1>1. ASSUME ClientCall PROVE \E a \in Threads : Begin(a)
  <2>1. /\ LogCallers \subseteq Threads /\ SetupCallers \subseteq Threads
        /\ TuneCallers \subseteq Threads /\ WaitCallers \subseteq Threads
        /\ ClearCallers \subseteq Threads /\ ShutdownCallers \subseteq Threads
    BY LoggerAssumption
  <2> QED BY <1>1, <2>1 DEF ClientCall, Begin
<1>2. ASSUME NEW a \in Actors, Step(a)
      PROVE  RegistryStep(a) \/ WaitStep(a) \/ ClearStep(a) \/ ShutdownStep(a) \/ LogStep(a)
  BY <1>2 DEF Step, RegistryStep, WaitStep, ClearStep, ShutdownStep, LogStep
<1> QED BY <1>1, <1>2 DEF Next

\* Where a call begins, and what it leaves alone.
LEMMA Beginnings ==
    ASSUME IInv, NEW a \in Threads, Begin(a)
    PROVE  /\ pc[a] = "idle"
           /\ UNCHANGED <<registryVars, flagVars, backendVars, exec_mx, todo, frames, completed>>
           /\ \E l \in {"idle", "log", "add_lock", "set_flag", "set_level", "wait_list",
                        "clear_list", "shutdown_list"} :
                pc' = [pc EXCEPT ![a] = l] /\ (l = "shutdown_list" => m_shutdown')
           /\ m_shutdown' \in {m_shutdown, TRUE}
           /\ calls < MaxCalls /\ calls' = calls + 1
           /\ seen' \in {seen, [seen EXCEPT ![a] = delivered]}
<1>1. CASE log(a) \/ add_logger(a) \/ set_flag(a) \/ set_level(a) \/ clear(a)
  <2>1. \E l \in {"log", "add_lock", "set_flag", "set_level", "clear_list"} : Call(a, l)
    BY <1>1 DEF log, add_logger, set_flag, set_level, clear
  <2> QED BY <2>1 DEF Call, GoTo, shutdownVars
<1>2. CASE wait(a)
  BY <1>2 DEF wait, GoTo, shutdownVars
<1>3. CASE shutdown(a)
  <2>1. pc \in [Actors -> Locations] /\ a \in Actors
    BY DEF IInv, TypeOK, Actors
  <2>2. /\ pc[a] = "idle" /\ m_shutdown' = TRUE /\ seen' = seen
        /\ calls < MaxCalls /\ calls' = calls + 1
        /\ UNCHANGED <<registryVars, flagVars, backendVars, exec_mx, todo, frames, completed>>
    BY <1>3 DEF shutdown
  <2>3. \E l \in {"idle", "shutdown_list"} : pc' = [pc EXCEPT ![a] = l]
    <3>1. CASE m_shutdown
      <4>1. pc' = [pc EXCEPT ![a] = "idle"]
        BY <1>3, <2>1, <3>1 DEF shutdown
      <4> QED BY <4>1
    <3>2. CASE ~m_shutdown
      BY <1>3, <3>2 DEF shutdown, GoTo
    <3> QED BY <3>1, <3>2
  <2> QED BY <2>2, <2>3
<1> QED BY <1>1, <1>2, <1>3 DEF Begin

\* A call begins.
LEMMA BeginActors ==
    ASSUME IInv, NEW a \in Threads, Begin(a)
    PROVE  Moves(a) /\ Respects(a) /\ ActorOk(a)'
<1>1. PICK l \in {"idle", "log", "add_lock", "set_flag", "set_level", "wait_list",
                  "clear_list", "shutdown_list"} : pc' = [pc EXCEPT ![a] = l]
  BY Beginnings
<1>2. pc[a] = "idle" /\ UNCHANGED <<m_loggers, frames, todo, exec_mx, closed>>
  BY Beginnings DEF registryVars, backendVars
<1>3. /\ pc \in [Actors -> Locations] /\ a \in Actors /\ a \notin Async
      /\ frames[a] = <<>> /\ todo[a] = <<>>
  BY <1>2, LoggerAssumption DEF IInv, TypeOK, Actors
<1>4. Moves(a) /\ Respects(a)
  BY <1>1, <1>2, <1>3 DEF Moves, Respects, Registered
<1>5. pc'[a] = l /\ frames'[a] = <<>> /\ todo'[a] = <<>>
  BY <1>1, <1>2, <1>3
<1>6. ActorOk(a)'
  BY <1>3, <1>5, OutsideLog DEF LogLocations, ListLocations
<1> QED BY <1>4, <1>6

\* Who takes a step outside log() is a client, except for a worker.
LEMMA OutsideState ==
    ASSUME IInv, NEW a \in Actors, pc[a] \notin LogLocations
    PROVE  /\ frames[a] = <<>> /\ (pc[a] \notin {"idle", "task_done"} => a \notin Async)
           /\ pc \in [Actors -> Locations] /\ todo \in [Actors -> Seq(Strategies)]
           /\ (pc[a] \notin ListLocations => todo[a] = <<>>)
BY DEF IInv, TypeOK, ActorInv, ActorOk, LocalOk

\* A step of add_logger() or a setter.
LEMMA RegistryActors ==
    ASSUME IInv, NEW a \in Actors, RegistryStep(a)
    PROVE  Moves(a) /\ Respects(a) /\ ActorOk(a)'
<1>1. Registered \subseteq Registered'
  <2>1. CASE add_logger_publish(a)
    <3>1. PICK s \in Strategies : m_loggers' = Append(m_loggers, s)
      BY <2>1 DEF add_logger_publish
    <3>2. m_loggers \in Seq(Strategies)
      BY DEF IInv, TypeOK
    <3>3. Elements(m_loggers') = Elements(m_loggers) \cup {s}
      BY <3>1, <3>2, PushBack, SMTT(60)
    <3> QED BY <3>3 DEF Elements, Registered
  <2>2. CASE ~add_logger_publish(a)
    <3>1. m_loggers' = m_loggers
      BY <2>2 DEF RegistryStep, add_logger_lock, set_logger_enabled, set_logger_single_mode,
         set_log_level, set_log_level_all, leveling, leveling_done, registryVars
    <3> QED BY <3>1 DEF Registered
  <2> QED BY <2>1, <2>2
<1>2. pc[a] \in {"add_lock", "add_publish", "set_flag", "set_level", "leveling"}
  BY DEF RegistryStep, add_logger_lock, add_logger_publish, set_logger_enabled,
     set_logger_single_mode, set_log_level, set_log_level_all, leveling, leveling_done
<1>3. /\ frames[a] = <<>> /\ a \notin Async
      /\ pc \in [Actors -> Locations] /\ todo \in [Actors -> Seq(Strategies)]
      /\ (pc[a] # "leveling" => todo[a] = <<>>)
  BY <1>2, OutsideState DEF LogLocations, ListLocations
<1>4. UNCHANGED <<frames, exec_mx, closed>>
  BY DEF RegistryStep, add_logger_lock, add_logger_publish, set_logger_enabled,
     set_logger_single_mode, set_log_level, set_log_level_all, leveling, leveling_done,
     backendVars
<1>5. \E l \in {"idle", "add_publish", "leveling"}, list \in Seq(Strategies) :
        /\ pc' = [pc EXCEPT ![a] = l] /\ todo' = [todo EXCEPT ![a] = list]
        /\ (l # "leveling" => list = <<>>)
  <2>1. CASE leveling(a)
    <3>1. pc' = [pc EXCEPT ![a] = "leveling"] /\ todo' = [todo EXCEPT ![a] = Tail(todo[a])]
      BY <1>3, <2>1 DEF leveling, Visit
    <3>2. Tail(todo[a]) \in Seq(Strategies)
      BY <1>3, <2>1, HeadAndRest DEF leveling
    <3> QED BY <3>1, <3>2
  <2>2. CASE \/ set_log_level_all(a)
             \/ \E s \in Strategies : set_log_level(a, s)
    <3>1. m_loggers \in Seq(Strategies) /\ <<>> \in Seq(Strategies)
      BY SMTT(60) DEF IInv, TypeOK
    <3>2. ASSUME NEW s \in Strategies, set_log_level(a, s)
          PROVE  \E list \in Seq(Strategies) :
                    /\ pc' = [pc EXCEPT ![a] = "leveling"]
                    /\ todo' = [todo EXCEPT ![a] = list]
      <4>1. (IF s \in Registered THEN <<s>> ELSE <<>>) \in Seq(Strategies)
        BY <3>1, SMTT(60)
      <4> QED BY <3>2, <4>1 DEF set_log_level, GoTo, Visit
    <3>3. CASE set_log_level_all(a)
      BY <3>1, <3>3 DEF set_log_level_all, GoTo, Visit
    <3> QED BY <2>2, <3>2, <3>3
  <2>3. CASE \/ add_logger_lock(a) \/ add_logger_publish(a) \/ leveling_done(a)
             \/ \E s \in Strategies : set_logger_enabled(a, s) \/ set_logger_single_mode(a, s)
    <3>1. todo' = todo /\ todo[a] = <<>>
      BY <1>3, <2>3 DEF add_logger_lock, add_logger_publish, leveling_done, set_logger_enabled,
         set_logger_single_mode
    <3>2. todo' = [todo EXCEPT ![a] = <<>>]
      BY <1>3, <3>1
    <3>3. \E l \in {"idle", "add_publish"} : pc' = [pc EXCEPT ![a] = l]
      BY <2>3 DEF add_logger_lock, add_logger_publish, leveling_done, set_logger_enabled,
         set_logger_single_mode, GoTo
    <3>4. <<>> \in Seq(Strategies)
      BY SMTT(60)
    <3> QED BY <3>2, <3>3, <3>4
  <2> QED BY <2>1, <2>2, <2>3 DEF RegistryStep
<1>6. PICK l \in {"idle", "add_publish", "leveling"}, list \in Seq(Strategies) :
        /\ pc' = [pc EXCEPT ![a] = l] /\ todo' = [todo EXCEPT ![a] = list]
        /\ (l # "leveling" => list = <<>>)
  BY <1>5
<1>7. Moves(a) /\ Respects(a)
  BY <1>1, <1>3, <1>4, <1>6 DEF Moves, Respects
<1>8. pc'[a] = l /\ todo'[a] = list /\ frames'[a] = <<>>
  BY <1>3, <1>4, <1>6
<1>9. ActorOk(a)'
  BY <1>3, <1>6, <1>8, OutsideLog DEF LogLocations, ListLocations
<1> QED BY <1>7, <1>9

\* A step of wait().
LEMMA WaitActors ==
    ASSUME IInv, NEW a \in Actors, WaitStep(a)
    PROVE  Moves(a) /\ Respects(a) /\ ActorOk(a)'
<1>1. /\ pc[a] \in {"wait_list", "wait"}
      /\ UNCHANGED <<m_loggers, frames, exec_mx, closed>>
  BY DEF WaitStep, wait_list, wait_each, wait_return, registryVars, backendVars
<1>2. /\ frames[a] = <<>> /\ a \notin Async
      /\ pc \in [Actors -> Locations] /\ todo \in [Actors -> Seq(Strategies)]
  BY <1>1, OutsideState DEF LogLocations
<1>3. \E l \in {"idle", "wait"} : \E list :
        /\ pc' = [pc EXCEPT ![a] = l] /\ todo' = [todo EXCEPT ![a] = list]
        /\ (l = "idle" => list = <<>>)
  <2>1. CASE wait_list(a)
    BY <2>1 DEF wait_list, GoTo, Visit
  <2>2. CASE wait_each(a)
    <3>1. pc' = [pc EXCEPT ![a] = "wait"] /\ todo' = [todo EXCEPT ![a] = Tail(todo[a])]
      BY <1>2, <2>2 DEF wait_each, Visit
    <3> QED BY <3>1
  <2>3. CASE wait_return(a)
    <3>1. pc' = [pc EXCEPT ![a] = "idle"] /\ todo' = [todo EXCEPT ![a] = <<>>]
      BY <1>2, <2>3 DEF wait_return, GoTo
    <3> QED BY <3>1
  <2> QED BY <2>1, <2>2, <2>3 DEF WaitStep
<1>4. Moves(a) /\ Respects(a)
  BY <1>1, <1>2, <1>3 DEF Moves, Respects, Registered
<1>5. /\ pc'[a] \in {"idle", "wait"} /\ frames'[a] = <<>>
      /\ (pc'[a] = "idle" => todo'[a] = <<>>)
  BY <1>1, <1>2, <1>3
<1>6. ActorOk(a)'
  BY <1>2, <1>5, OutsideLog DEF LogLocations, ListLocations
<1> QED BY <1>4, <1>6

\* A step of clear_logger() or clear_all_loggers().
LEMMA ClearActors ==
    ASSUME IInv, NEW a \in Actors, ClearStep(a)
    PROVE  Moves(a) /\ Respects(a) /\ ActorOk(a)'
<1>1. /\ pc[a] \in {"clear_list", "clear", "clearing"}
      /\ UNCHANGED <<m_loggers, frames, closed>>
  BY DEF ClearStep, clear_logger, clear_all_loggers, clear_lock, clear_logs, clear_return,
     registryVars, backendVars
<1>2. /\ frames[a] = <<>> /\ a \notin Async
      /\ pc \in [Actors -> Locations] /\ todo \in [Actors -> Seq(Strategies)]
      /\ exec_mx \in [Strategies -> Actors \cup {NoActor}] /\ a # NoActor
  BY <1>1, OutsideState, LoggerAssumption DEF LogLocations, IInv, TypeOK, Actors
<1>3. Registered \subseteq Registered'
  BY <1>1 DEF Registered
<1>4. CASE clear_logger(a) \/ clear_all_loggers(a) \/ clear_return(a)
  <2>1. exec_mx' = exec_mx
    BY <1>4 DEF clear_logger, clear_all_loggers, clear_return
  <2>2. \E l \in {"idle", "clear"} : \E list :
          /\ pc' = [pc EXCEPT ![a] = l] /\ todo' = [todo EXCEPT ![a] = list]
          /\ (l = "idle" => list = <<>>)
    <3>1. CASE clear_logger(a)
      BY <3>1 DEF clear_logger, GoTo, Visit
    <3>2. CASE clear_all_loggers(a)
      BY <3>2 DEF clear_all_loggers, GoTo, Visit
    <3>3. CASE clear_return(a)
      <4>1. pc' = [pc EXCEPT ![a] = "idle"] /\ todo' = [todo EXCEPT ![a] = <<>>]
        BY <1>2, <3>3 DEF clear_return, GoTo
      <4> QED BY <4>1
    <3> QED BY <1>4, <3>1, <3>2, <3>3
  <2>3. Moves(a) /\ Respects(a)
    BY <1>1, <1>2, <1>3, <2>1, <2>2 DEF Moves, Respects
  <2>4. /\ pc'[a] \in {"idle", "clear"} /\ frames'[a] = <<>>
        /\ (pc'[a] = "idle" => todo'[a] = <<>>)
    BY <1>1, <1>2, <2>2
  <2>5. ActorOk(a)'
    BY <1>2, <2>4, OutsideLog DEF LogLocations, ListLocations
  <2> QED BY <2>3, <2>5
<1>5. CASE clear_lock(a)
  <2>1. todo[a] # <<>> /\ Head(todo[a]) \in Strategies /\ exec_mx[Head(todo[a])] = NoActor
    BY <1>2, <1>5, HeadAndRest DEF clear_lock
  <2>2. CASE m_shutdown
    <3>1. /\ pc' = [pc EXCEPT ![a] = "idle"] /\ todo' = [todo EXCEPT ![a] = <<>>]
          /\ exec_mx' = exec_mx
      BY <1>5, <2>2 DEF clear_lock, GoTo, Visit
    <3>2. Moves(a) /\ Respects(a)
      BY <1>1, <1>2, <1>3, <3>1 DEF Moves, Respects
    <3>3. pc'[a] = "idle" /\ frames'[a] = <<>> /\ todo'[a] = <<>>
      BY <1>1, <1>2, <3>1
    <3>4. ActorOk(a)'
      BY <1>2, <3>3, OutsideLog DEF LogLocations, ListLocations
    <3> QED BY <3>2, <3>4
  <2>3. CASE ~m_shutdown
    <3>1. /\ pc' = [pc EXCEPT ![a] = "clearing"] /\ todo' = todo
          /\ exec_mx' = [exec_mx EXCEPT ![Head(todo[a])] = a]
      BY <1>5, <2>3 DEF clear_lock, GoTo, Lock
    <3>2. Moves(a) /\ Respects(a)
      <4>1. \A b \in Actors : b # NoActor
        BY LoggerAssumption DEF Actors
      <4> QED BY <1>1, <1>2, <1>3, <2>1, <3>1, <4>1 DEF Moves, Respects
    <3>3. /\ pc'[a] = "clearing" /\ frames'[a] = <<>> /\ todo'[a] # <<>>
          /\ exec_mx'[Head(todo'[a])] = a
      BY <1>1, <1>2, <2>1, <3>1
    <3>4. ~closed'[Head(todo'[a])]
      BY <1>1, <2>1, <2>3, <3>1 DEF IInv, ShutdownInv
    <3>5. ActorOk(a)'
      BY <1>2, <3>3, <3>4, OutsideLog DEF LogLocations, ListLocations
    <3> QED BY <3>2, <3>5
  <2> QED BY <2>2, <2>3
<1>6. CASE clear_logs(a)
  <2>1. todo[a] # <<>> /\ exec_mx[Head(todo[a])] = a
    BY <1>6 DEF clear_logs, IInv, ActorInv, ActorOk, HoldOk
  <2>2. /\ pc' = [pc EXCEPT ![a] = "clear"] /\ todo' = [todo EXCEPT ![a] = Tail(todo[a])]
        /\ exec_mx' = [exec_mx EXCEPT ![Head(todo[a])] = NoActor]
    BY <1>6 DEF clear_logs, GoTo, Visit, Unlock
  <2>3. Moves(a) /\ Respects(a)
    BY <1>1, <1>2, <1>3, <2>1, <2>2 DEF Moves, Respects
  <2>4. pc'[a] = "clear" /\ frames'[a] = <<>>
    BY <1>1, <1>2, <2>2
  <2>5. ActorOk(a)'
    BY <1>2, <2>4, OutsideLog DEF LogLocations, ListLocations
  <2> QED BY <2>3, <2>5
<1> QED BY <1>4, <1>5, <1>6 DEF ClearStep

\* A step of shutdown().
LEMMA ShutdownActors ==
    ASSUME IInv, NEW a \in Actors, ShutdownStep(a)
    PROVE  Moves(a) /\ Respects(a) /\ ActorOk(a)'
<1>1. /\ pc[a] \in {"shutdown_list", "shutdown", "closing"}
      /\ UNCHANGED <<m_loggers, frames>>
  BY DEF ShutdownStep, shutdown_list, shutdown_lock, shutdown_logger, shutdown_return,
     registryVars
<1>2. /\ frames[a] = <<>> /\ a \notin Async
      /\ pc \in [Actors -> Locations] /\ todo \in [Actors -> Seq(Strategies)]
      /\ exec_mx \in [Strategies -> Actors \cup {NoActor}] /\ a # NoActor
      /\ closed \in [Strategies -> BOOLEAN]
  BY <1>1, OutsideState, LoggerAssumption DEF LogLocations, IInv, TypeOK, Actors
<1>3. Registered \subseteq Registered'
  BY <1>1 DEF Registered
<1>4. CASE shutdown_list(a) \/ shutdown_return(a)
  <2>1. exec_mx' = exec_mx /\ closed' = closed
    BY <1>4 DEF shutdown_list, shutdown_return, backendVars
  <2>2. \E l \in {"idle", "shutdown"} : \E list :
          /\ pc' = [pc EXCEPT ![a] = l] /\ todo' = [todo EXCEPT ![a] = list]
          /\ (l = "idle" => list = <<>>)
    <3>1. CASE shutdown_list(a)
      BY <3>1 DEF shutdown_list, GoTo, Visit
    <3>2. CASE shutdown_return(a)
      <4>1. pc' = [pc EXCEPT ![a] = "idle"] /\ todo' = [todo EXCEPT ![a] = <<>>]
        BY <1>2, <3>2 DEF shutdown_return, GoTo
      <4> QED BY <4>1
    <3> QED BY <1>4, <3>1, <3>2
  <2>3. Moves(a) /\ Respects(a)
    BY <1>1, <1>2, <1>3, <2>1, <2>2 DEF Moves, Respects
  <2>4. /\ pc'[a] \in {"idle", "shutdown"} /\ frames'[a] = <<>>
        /\ (pc'[a] = "idle" => todo'[a] = <<>>)
    BY <1>1, <1>2, <2>2
  <2>5. ActorOk(a)'
    BY <1>2, <2>4, OutsideLog DEF LogLocations, ListLocations
  <2> QED BY <2>3, <2>5
<1>5. CASE shutdown_lock(a)
  <2>1. todo[a] # <<>> /\ Head(todo[a]) \in Strategies /\ exec_mx[Head(todo[a])] = NoActor
    BY <1>2, <1>5, HeadAndRest DEF shutdown_lock, Lock
  <2>2. /\ pc' = [pc EXCEPT ![a] = "closing"] /\ todo' = todo
        /\ exec_mx' = [exec_mx EXCEPT ![Head(todo[a])] = a]
        /\ closed' = [closed EXCEPT ![Head(todo[a])] = TRUE]
    BY <1>5 DEF shutdown_lock, GoTo, Lock
  <2>3. Moves(a) /\ Respects(a)
    <3>1. \A b \in Actors : b # NoActor
      BY LoggerAssumption DEF Actors
    <3> QED BY <1>1, <1>2, <1>3, <2>1, <2>2, <3>1 DEF Moves, Respects
  <2>4. /\ pc'[a] = "closing" /\ frames'[a] = <<>> /\ todo'[a] # <<>>
        /\ exec_mx'[Head(todo'[a])] = a
    BY <1>1, <1>2, <2>1, <2>2
  <2>5. ActorOk(a)'
    BY <1>2, <2>4, OutsideLog DEF LogLocations, ListLocations
  <2> QED BY <2>3, <2>5
<1>6. CASE shutdown_logger(a)
  <2>1. todo[a] # <<>> /\ exec_mx[Head(todo[a])] = a
    BY <1>6 DEF shutdown_logger, IInv, ActorInv, ActorOk, HoldOk
  <2>2. /\ pc' = [pc EXCEPT ![a] = "shutdown"] /\ todo' = [todo EXCEPT ![a] = Tail(todo[a])]
        /\ exec_mx' = [exec_mx EXCEPT ![Head(todo[a])] = NoActor] /\ closed' = closed
    BY <1>6 DEF shutdown_logger, GoTo, Visit, Unlock, backendVars
  <2>3. Moves(a) /\ Respects(a)
    BY <1>1, <1>2, <1>3, <2>1, <2>2 DEF Moves, Respects
  <2>4. pc'[a] = "shutdown" /\ frames'[a] = <<>>
    BY <1>1, <1>2, <2>2
  <2>5. ActorOk(a)'
    BY <1>2, <2>4, OutsideLog DEF LogLocations, ListLocations
  <2> QED BY <2>3, <2>5
<1> QED BY <1>4, <1>5, <1>6 DEF ShutdownStep

\* A step of a worker outside log().
LEMMA WorkerActors ==
    ASSUME IInv, NEW a \in Async, WorkerStep(a)
    PROVE  Moves(a) /\ Respects(a) /\ ActorOk(a)'
<1>1. /\ pc[a] \in {"idle", "task_done"} /\ UNCHANGED <<m_loggers, frames, todo, exec_mx, closed>>
      /\ \E l \in {"idle", "log", "task_done"} : pc' = [pc EXCEPT ![a] = l]
  BY DEF WorkerStep, worker_task, worker_task_done, GoTo, registryVars, backendVars
<1>2. /\ frames[a] = <<>> /\ pc \in [Actors -> Locations] /\ todo[a] = <<>>
      /\ a \in Actors /\ a \notin Threads
  <2>1. a \in Actors /\ a \notin Threads
    BY LoggerAssumption DEF Actors
  <2> QED BY <1>1, <2>1, OutsideState DEF LogLocations, ListLocations
<1>3. Moves(a) /\ Respects(a)
  BY <1>1, <1>2 DEF Moves, Respects, Registered
<1>4. pc'[a] \in {"idle", "log", "task_done"} /\ frames'[a] = <<>> /\ todo'[a] = <<>>
  BY <1>1, <1>2
<1>5. ActorOk(a)'
  BY <1>2, <1>4, OutsideLog DEF LogLocations, ListLocations
<1> QED BY <1>3, <1>5
-----------------------------------------------------------------------------
(* log() *)

\* The positions of a short list.
LEMMA Positions ==
    ASSUME NEW S, NEW list \in Seq(S)
    PROVE  /\ Len(list) \in Nat /\ (list = <<>> <=> Len(list) = 0)
           /\ (Len(list) = 0 => DOMAIN list = {}) /\ (Len(list) = 1 => DOMAIN list = {1})
           /\ (Len(list) = 2 => DOMAIN list = {1, 2})
<1>1. Len(list) \in Nat /\ (list = <<>> <=> Len(list) = 0) /\ DOMAIN list = 1..Len(list)
  BY SMTT(60)
<1>2. 1..0 = {} /\ 1..1 = {1} /\ 1..2 = {1, 2}
  BY SMTT(60)
<1> QED BY <1>1, <1>2

\* A number of calls of log().
LEMMA OneOrTwo ==
    ASSUME NEW n \in Nat, n # 0, n <= 2
    PROVE  n = 1 \/ n = 2
BY SMTT(60)

\* The frames of an actor: the call of log(), and that of a callback inside it.
LEMMA ShortList ==
    ASSUME NEW S, NEW list \in Seq(S), list # <<>>, Len(list) <= 2
    PROVE  /\ Head(list) = list[1] /\ list[1] \in S /\ Tail(list) \in Seq(S)
           /\ \/ Len(list) = 1 /\ DOMAIN list = {1} /\ Tail(list) = <<>>
              \/ /\ Len(list) = 2 /\ DOMAIN list = {1, 2} /\ list[2] \in S
                 /\ Len(Tail(list)) = 1 /\ DOMAIN Tail(list) = {1} /\ Tail(list)[1] = list[2]
<1>1. Len(list) \in Nat /\ Len(list) # 0
  BY SMTT(60)
<1>2. Len(list) = 1 \/ Len(list) = 2
  BY <1>1, OneOrTwo
<1>3. /\ Head(list) = list[1] /\ list[1] \in S /\ Tail(list) \in Seq(S)
      /\ Len(Tail(list)) = Len(list) - 1
  BY <1>1, SMTT(60)
<1>4. CASE Len(list) = 1
  <2>1. Len(Tail(list)) = 0
    BY <1>3, <1>4, SMTT(60)
  <2>2. Tail(list) = <<>>
    BY <1>3, <2>1, Positions
  <2>3. DOMAIN list = {1}
    BY <1>4, Positions
  <2> QED BY <1>3, <1>4, <2>2, <2>3
<1>5. CASE Len(list) = 2
  <2>1. Len(Tail(list)) = 1
    BY <1>3, <1>5, SMTT(60)
  <2>2. DOMAIN list = {1, 2} /\ DOMAIN Tail(list) = {1}
    BY <1>3, <1>5, <2>1, Positions
  <2>3. \A i \in 1..(Len(list) - 1) : Tail(list)[i] = list[i + 1]
    BY SMTT(60)
  <2>4. 1 \in 1..(Len(list) - 1) /\ 1 + 1 = 2 /\ 2 \in 1..Len(list)
    BY <1>5, SMTT(60)
  <2>5. list[2] \in S /\ Tail(list)[1] = list[2]
    BY <2>3, <2>4, SMTT(60)
  <2> QED BY <1>3, <1>5, <2>1, <2>2, <2>5
<1> QED BY <1>2, <1>4, <1>5

\* A call inside those under way.
LEMMA Nesting ==
    ASSUME NEW S, NEW x \in S, NEW list \in Seq(S)
    PROVE  /\ <<x>> \o list \in Seq(S) /\ Len(<<x>> \o list) = Len(list) + 1
           /\ (<<x>> \o list)[1] = x
           /\ Len(list) = 1 => (<<x>> \o list)[2] = list[1]
<1>1. <<x>> \in Seq(S) /\ Len(<<x>>) = 1 /\ <<x>>[1] = x
  BY SMTT(60)
<1> QED BY <1>1, SMTT(60)

\* The calls of log() an actor is in, and the strategy each is at.
LEMMA InsideState ==
    ASSUME IInv, NEW a \in Actors, pc[a] \in LogLocations
    PROVE  /\ ActorOk(a) /\ todo[a] = <<>> /\ frames[a] \in Seq(Frames)
           /\ pc \in [Actors -> Locations] /\ frames \in [Actors -> Seq(Frames)]
           /\ exec_mx \in [Strategies -> Actors \cup {NoActor}]
           /\ a # NoActor
           /\ \A i \in DOMAIN frames[a] : frames[a][i] \in Frames
           /\ \A i \in At(a) : frames[a][i].list # <<>> /\ Stop(a, i) \in Strategies
<1>1. /\ ActorOk(a) /\ frames[a] \in Seq(Frames) /\ a # NoActor
      /\ pc \in [Actors -> Locations] /\ frames \in [Actors -> Seq(Frames)]
      /\ exec_mx \in [Strategies -> Actors \cup {NoActor}]
  BY LoggerAssumption, SMTT(60) DEF IInv, TypeOK, ActorInv, Actors
<1>2. \A i \in DOMAIN frames[a] : frames[a][i] \in Frames
  BY <1>1, SMTT(60)
<1>3. ASSUME NEW i \in At(a) PROVE frames[a][i].list # <<>> /\ Stop(a, i) \in Strategies
  <2>1. frames[a][i].list \in Seq(Strategies) /\ frames[a][i].list # <<>>
    BY <1>1, <1>2 DEF At, ActorOk, FrameOk, Frames
  <2> QED BY <2>1, HeadAndRest DEF Stop
<1>4. todo[a] = <<>>
  BY <1>1 DEF ActorOk, LocalOk, LogLocations, ListLocations
<1> QED BY <1>1, <1>2, <1>3, <1>4

\* The innermost call of log().
LEMMA Innermost ==
    ASSUME IInv, NEW a \in Actors, pc[a] \in {"dispatch", "check", "deliver", "leave"}
    PROVE  /\ 1 \in DOMAIN frames[a] /\ frames[a] # <<>>
           /\ Frame(a) = frames[a][1] /\ Frame(a) \in Frames
           /\ DOMAIN frames[a] = {1} \/ DOMAIN frames[a] = {1, 2}
           /\ pc[a] # "dispatch" => At(a) = DOMAIN frames[a]
           /\ pc[a] = "dispatch" => At(a) = DOMAIN frames[a] \ {1}
<1>1. ActorOk(a) /\ frames[a] \in Seq(Frames)
  BY InsideState DEF LogLocations
<1>2. frames[a] # <<>> /\ Len(frames[a]) <= 2
  BY <1>1 DEF ActorOk, FrameOk, LogLocations
<1>4. DOMAIN frames[a] = {1} \/ DOMAIN frames[a] = {1, 2}
  BY <1>1, <1>2, ShortList
<1>5. Frame(a) = frames[a][1] /\ Frame(a) \in Frames
  BY <1>1, <1>2, ShortList DEF Frame
<1> QED BY <1>2, <1>4, <1>5, SMTT(60) DEF At

\* log() takes the snapshot.
LEMMA SnapshotActors ==
    ASSUME IInv, NEW a \in Actors, log_snapshot(a)
    PROVE  Moves(a) /\ Respects(a) /\ ActorOk(a)' /\ frames'[a] \in Seq(Frames)
<1>1. pc[a] = "log" /\ UNCHANGED <<m_loggers, exec_mx, closed, todo>>
      /\ pc' = [pc EXCEPT ![a] = "dispatch"]
  BY DEF log_snapshot, GoTo, registryVars, backendVars
<1>2. /\ ActorOk(a) /\ todo[a] = <<>> /\ frames[a] \in Seq(Frames)
      /\ pc \in [Actors -> Locations] /\ frames \in [Actors -> Seq(Frames)]
      /\ \A i \in At(a) : frames[a][i].list # <<>>
  BY <1>1, InsideState DEF LogLocations
<1>3. PICK frame \in Frames :
        /\ frames' = [frames EXCEPT ![a] = <<frame>> \o frames[a]]
        /\ Elements(frame.list) \subseteq Registered
        /\ frame.nested = (a \in Async \/ frames[a] # <<>>)
  <2>1. PICK target \in 0..Len(m_loggers_snapshot) + 1, level \in Levels \cup {RawLevel} :
          frames' = [frames EXCEPT ![a] =
            <<[list |-> IF target = 0 THEN m_loggers_snapshot ELSE StrategyAt(target),
               targeted |-> target # 0, level |-> level,
               nested |-> a \in Async \/ frames[a] # <<>>]>> \o frames[a]]
    BY DEF log_snapshot
  <2> DEFINE list == IF target = 0 THEN m_loggers_snapshot ELSE StrategyAt(target)
  <2>2. m_loggers \in Seq(Strategies) /\ m_loggers_snapshot = m_loggers
    BY DEF IInv, TypeOK
  <2>3. list \in Seq(Strategies) /\ Elements(list) \subseteq Registered
    <3>1. CASE target = 0
      BY <2>2, <3>1 DEF Elements, Registered
    <3>2. CASE target # 0 /\ target \in DOMAIN m_loggers
      <4>1. list = <<m_loggers[target]>> /\ m_loggers[target] \in Strategies
        BY <2>2, <3>2, SMTT(60) DEF StrategyAt
      <4>2. Elements(list) = {m_loggers[target]}
        BY <4>1, SMTT(60) DEF Elements
      <4>3. m_loggers[target] \in Registered
        BY <3>2 DEF Registered
      <4>4. <<m_loggers[target]>> \in Seq(Strategies)
        BY <4>1, SMTT(60)
      <4> HIDE DEF list
      <4> QED BY <4>1, <4>2, <4>3, <4>4
    <3>3. CASE target # 0 /\ target \notin DOMAIN m_loggers
      BY <2>2, <3>3, SMTT(60) DEF StrategyAt, Elements
    <3> QED BY <3>1, <3>2, <3>3
  <2> DEFINE frame == [list |-> list, targeted |-> target # 0, level |-> level,
                       nested |-> a \in Async \/ frames[a] # <<>>]
  <2>4. frame \in Frames
    BY <2>3 DEF Frames
  <2> QED BY <2>1, <2>3, <2>4
<1>4. Moves(a) /\ Respects(a)
  BY <1>1, <1>2, <1>3 DEF Moves, Respects, Registered
<1>5. frames[a] = <<>> \/ (Len(frames[a]) = 1 /\ a \notin Async)
  <2>1. Len(frames[a]) <= 1 /\ (a \in Async => frames[a] = <<>>)
    BY <1>1, <1>2 DEF ActorOk, FrameOk
  <2>2. Len(frames[a]) \in Nat /\ (frames[a] # <<>> => Len(frames[a]) # 0)
    BY <1>2, SMTT(60)
  <2>3. \A n \in Nat : n <= 1 => n = 0 \/ n = 1
    BY SMTT(60)
  <2>4. Len(frames[a]) = 0 \/ Len(frames[a]) = 1
    BY <2>1, <2>2, <2>3
  <2> QED BY <2>1, <2>2, <2>4
<1>6. pc'[a] = "dispatch" /\ frames'[a] = <<frame>> \o frames[a] /\ todo'[a] = <<>>
  BY <1>1, <1>2, <1>3
<1>7. CASE frames[a] = <<>>
  <2>1. /\ frames'[a] \in Seq(Frames) /\ frames'[a] # <<>> /\ Len(frames'[a]) = 1
        /\ frames'[a][1] = frame /\ DOMAIN frames'[a] = {1}
    BY <1>2, <1>3, <1>6, <1>7, Nesting, Positions, SMTT(60)
  <2>2. At(a)' = {}
    BY <1>6, <2>1, SMTT(60) DEF At
  <2>3. LocalOk(a)' /\ UseOk(a)'
    BY <1>2, <1>6, <1>1 DEF ActorOk, LocalOk, UseOk, LogLocations, ListLocations
  <2>4. HoldOk(a)'
    BY <1>6, <2>2 DEF HoldOk
  <2>5. FrameOk(a)'
    <3>1. Registered' = Registered
      BY <1>1 DEF Registered
    <3>2. \A i \in DOMAIN frames'[a] : Elements(frames'[a][i].list) \subseteq Registered
      BY <1>3, <2>1
    <3>3. a \in Async => frames'[a][1].nested
      BY <1>3, <2>1
    <3> QED BY <1>6, <2>1, <2>2, <3>1, <3>2, <3>3, SMTT(60) DEF FrameOk
  <2> QED BY <1>4, <2>1, <2>3, <2>4, <2>5 DEF ActorOk
<1>8. CASE frames[a] # <<>>
  <2>1. Len(frames[a]) = 1 /\ frames[a][1] \in Frames /\ DOMAIN frames[a] = {1}
    BY <1>2, <1>5, <1>8, Positions, SMTT(60)
  <2>2. /\ frames'[a] \in Seq(Frames) /\ frames'[a] # <<>> /\ Len(frames'[a]) = 2
        /\ frames'[a][1] = frame /\ frames'[a][2] = frames[a][1]
        /\ DOMAIN frames'[a] = {1, 2}
    <3>1. /\ frames'[a] \in Seq(Frames) /\ Len(frames'[a]) = 2
          /\ frames'[a][1] = frame /\ frames'[a][2] = frames[a][1]
      <4>1. /\ frames'[a] \in Seq(Frames) /\ Len(frames'[a]) = Len(frames[a]) + 1
            /\ frames'[a][1] = frame /\ (Len(frames[a]) = 1 => frames'[a][2] = frames[a][1])
        BY <1>2, <1>3, <1>6, Nesting, SMTT(60)
      <4>2. Len(frames[a]) + 1 = 2
        BY <2>1, SMTT(60)
      <4> QED BY <2>1, <4>1, <4>2
    <3> QED BY <3>1, Positions
  <2>3. At(a)' = {2} /\ At(a) = {1} /\ Stop(a, 2)' = Stop(a, 1)
    <3>1. At(a) = {1} /\ At(a)' = {2}
      BY <1>1, <1>6, <2>1, <2>2, SMTT(60) DEF At
    <3> QED BY <2>2, <3>1 DEF Stop
  <2>4. LocalOk(a)' /\ UseOk(a)'
    BY <1>2, <1>6, <1>1 DEF ActorOk, LocalOk, UseOk, LogLocations, ListLocations
  <2>5. HoldOk(a)'
    <3>1. Stop(a, 1) \notin Concurrent => exec_mx[Stop(a, 1)] = a
      BY <1>2, <2>3 DEF ActorOk, HoldOk
    <3> QED BY <1>1, <1>6, <2>3, <3>1 DEF HoldOk
  <2>6. FrameOk(a)'
    <3>1. Elements(frames[a][1].list) \subseteq Registered /\ frames[a][1].list # <<>>
      BY <1>2, <2>1, <2>3 DEF ActorOk, FrameOk, At
    <3>2. frame.nested
      BY <1>3, <1>8
    <3>3. Registered' = Registered
      BY <1>1 DEF Registered
    <3>4. \A i \in DOMAIN frames'[a] : Elements(frames'[a][i].list) \subseteq Registered
      BY <1>3, <2>2, <3>1
    <3> QED BY <1>5, <1>6, <1>8, <2>2, <2>3, <3>1, <3>2, <3>3, <3>4, SMTT(60) DEF FrameOk
  <2> QED BY <1>4, <2>2, <2>4, <2>5, <2>6, <1>3, <2>1 DEF ActorOk
<1> QED BY <1>7, <1>8

\* log() takes exec_mx.
LEMMA DispatchActors ==
    ASSUME IInv, NEW a \in Actors, dispatch(a)
    PROVE  Moves(a) /\ Respects(a) /\ ActorOk(a)'
<1>1. pc[a] = "dispatch" /\ UNCHANGED <<m_loggers, frames, closed, todo>>
      /\ pc' = [pc EXCEPT ![a] = "check"] /\ Frame(a).list # <<>>
  BY DEF dispatch, GoTo, registryVars, backendVars
<1>2. /\ ActorOk(a) /\ todo[a] = <<>> /\ frames[a] \in Seq(Frames)
      /\ pc \in [Actors -> Locations] /\ a # NoActor
      /\ exec_mx \in [Strategies -> Actors \cup {NoActor}]
      /\ \A i \in At(a) : Stop(a, i) \in Strategies
  BY <1>1, InsideState DEF LogLocations
<1>3. /\ 1 \in DOMAIN frames[a] /\ frames[a] # <<>>
      /\ Frame(a) = frames[a][1] /\ Frame(a) \in Frames
      /\ At(a) = DOMAIN frames[a] \ {1}
  BY <1>1, Innermost
<1>4. pc'[a] = "check" /\ At(a)' = At(a) \cup {1} /\ \A i : Stop(a, i)' = Stop(a, i)
  BY <1>1, <1>2, <1>3 DEF At, Stop
<1>5. Stop(a, 1) = Head(Frame(a).list) /\ Stop(a, 1) \in Strategies
  BY <1>1, <1>3, HeadAndRest DEF Stop, Frames
<1>6. \/ Stop(a, 1) \in Concurrent /\ exec_mx' = exec_mx
      \/ /\ Stop(a, 1) \notin Concurrent /\ exec_mx[Stop(a, 1)] = NoActor
         /\ exec_mx' = [exec_mx EXCEPT ![Stop(a, 1)] = a]
  BY <1>5 DEF dispatch, Lock
<1>7. Moves(a) /\ Respects(a)
  <2>1. \A b \in Actors : b # NoActor
    BY LoggerAssumption DEF Actors
  <2> QED BY <1>1, <1>2, <1>5, <1>6, <2>1 DEF Moves, Respects, Registered
<1>8. LocalOk(a)' /\ UseOk(a)'
  BY <1>1, <1>2, <1>4 DEF ActorOk, LocalOk, UseOk, LogLocations, ListLocations
<1>9. FrameOk(a)'
  <2>1. Registered' = Registered
    BY <1>1 DEF Registered
  <2>2. FrameOk(a) /\ frames'[a] = frames[a]
    BY <1>1, <1>2 DEF ActorOk
  <2>3. \A i \in At(a) \cup {1} : frames[a][i].list # <<>>
    BY <1>1, <1>3, <2>2 DEF FrameOk
  <2> QED BY <1>3, <1>4, <2>1, <2>2, <2>3 DEF FrameOk
<1>10. HoldOk(a)'
  <2>1. \A i \in At(a) : Stop(a, i) \notin Concurrent => exec_mx[Stop(a, i)] = a
    BY <1>2 DEF ActorOk, HoldOk
  <2>2. \A i, j \in At(a) : Stop(a, i) = Stop(a, j) /\ Stop(a, i) \notin Concurrent => i = j
    BY <1>2 DEF ActorOk, HoldOk
  <2>3. \A i \in At(a)' : Stop(a, i) \notin Concurrent => exec_mx'[Stop(a, i)] = a
    BY <1>2, <1>4, <1>5, <1>6, <2>1
  <2>4. \A i, j \in At(a)' : Stop(a, i) = Stop(a, j) /\ Stop(a, i) \notin Concurrent => i = j
    BY <1>2, <1>4, <1>5, <1>6, <2>1, <2>2
  <2> QED BY <1>4, <2>3, <2>4 DEF HoldOk
<1> QED BY <1>7, <1>8, <1>9, <1>10 DEF ActorOk

\* log() looks at m_shutdown and the flags.
LEMMA CheckActors ==
    ASSUME IInv, NEW a \in Actors, check(a)
    PROVE  Moves(a) /\ Respects(a) /\ ActorOk(a)'
<1>1. /\ pc[a] = "check" /\ UNCHANGED <<m_loggers, frames, closed, todo, exec_mx>>
      /\ pc' = [pc EXCEPT ![a] = IF Allowed(Head(Frame(a).list), Frame(a))
                                  THEN "deliver" ELSE "leave"]
  BY DEF check, GoTo, registryVars, backendVars
<1>2. /\ ActorOk(a) /\ todo[a] = <<>> /\ pc \in [Actors -> Locations]
      /\ \A i \in At(a) : Stop(a, i) \in Strategies
  BY <1>1, InsideState DEF LogLocations
<1>3. pc'[a] \in {"deliver", "leave"} /\ (pc'[a] = "deliver" => ~m_shutdown)
  BY <1>1, <1>2 DEF Allowed
<1>4. At(a)' = At(a) /\ (\A i : Stop(a, i)' = Stop(a, i)) /\ 1 \in At(a)
  BY <1>1, <1>3, Innermost DEF At, Stop
<1>5. Moves(a) /\ Respects(a)
  BY <1>1, <1>2 DEF Moves, Respects, Registered
<1>6. LocalOk(a)'
  BY <1>1, <1>2, <1>3 DEF ActorOk, LocalOk, LogLocations, ListLocations
<1>7. FrameOk(a)'
  BY <1>1, <1>2, <1>3, <1>4 DEF ActorOk, FrameOk, LogLocations, Registered
<1>8. HoldOk(a)'
  BY <1>1, <1>2, <1>3, <1>4, SMTT(60) DEF ActorOk, HoldOk
<1>9. UseOk(a)'
  <2>1. pc'[a] = "deliver" => ~closed[Stop(a, 1)]
    BY <1>2, <1>3, <1>4 DEF IInv, ShutdownInv
  <2> QED BY <1>1, <1>3, <1>4, <2>1 DEF UseOk
<1> QED BY <1>5, <1>6, <1>7, <1>8, <1>9 DEF ActorOk

\* log() calls the backend.
LEMMA DeliverActors ==
    ASSUME IInv, NEW a \in Actors, deliver(a)
    PROVE  Moves(a) /\ Respects(a) /\ ActorOk(a)'
<1>1. /\ pc[a] = "deliver" /\ UNCHANGED <<m_loggers, frames, closed, todo, exec_mx>>
      /\ \E l \in {"log", "leave"} :
            pc' = [pc EXCEPT ![a] = l] /\ (l = "log" => ~Frame(a).nested)
  BY DEF deliver, GoTo, registryVars
<1>2. /\ ActorOk(a) /\ todo[a] = <<>> /\ pc \in [Actors -> Locations]
  BY <1>1, InsideState DEF LogLocations
<1>3. pc'[a] \in {"log", "leave"} /\ (pc'[a] = "log" => ~Frame(a).nested)
  BY <1>1, <1>2
<1>4. /\ 1 \in DOMAIN frames[a] /\ frames[a] # <<>> /\ Frame(a) = frames[a][1]
      /\ frames[a] \in Seq(Frames)
  BY <1>1, Innermost, InsideState DEF LogLocations
<1>5. At(a)' = At(a) /\ (\A i : Stop(a, i)' = Stop(a, i))
  BY <1>1, <1>3 DEF At, Stop
<1>6. Moves(a) /\ Respects(a)
  BY <1>1, <1>2 DEF Moves, Respects, Registered
<1>7. LocalOk(a)'
  BY <1>1, <1>2, <1>3 DEF ActorOk, LocalOk, LogLocations, ListLocations
<1>8. HoldOk(a)' /\ UseOk(a)'
  BY <1>1, <1>2, <1>3, <1>5, SMTT(60) DEF ActorOk, HoldOk, UseOk
<1>9. FrameOk(a)'
  <2>1. Registered' = Registered
    BY <1>1 DEF Registered
  <2>2. FrameOk(a) /\ frames'[a] = frames[a]
    BY <1>1, <1>2 DEF ActorOk
  <2>3. ~frames[a][1].nested => a \notin Async /\ Len(frames[a]) # 2
    BY <1>4, <2>2 DEF FrameOk
  <2>4. ~frames[a][1].nested => Len(frames[a]) = 1
    BY <1>4, <2>2, <2>3, ShortList DEF FrameOk
  <2> QED BY <1>3, <1>4, <1>5, <2>1, <2>2, <2>3, <2>4, SMTT(60) DEF FrameOk
<1> QED BY <1>6, <1>7, <1>8, <1>9 DEF ActorOk

\* log() goes on to the next strategy.
LEMMA LeaveActors ==
    ASSUME IInv, NEW a \in Actors, leave(a)
    PROVE  Moves(a) /\ Respects(a) /\ ActorOk(a)' /\ frames'[a] \in Seq(Frames)
<1>1. /\ pc[a] = "leave" /\ UNCHANGED <<m_loggers, closed, todo>>
      /\ pc' = [pc EXCEPT ![a] = "dispatch"]
      /\ frames' = [frames EXCEPT ![a][1].list = Tail(@)]
  BY DEF leave, GoTo, registryVars, backendVars
<1>2. /\ ActorOk(a) /\ todo[a] = <<>> /\ frames[a] \in Seq(Frames)
      /\ pc \in [Actors -> Locations] /\ frames \in [Actors -> Seq(Frames)]
      /\ exec_mx \in [Strategies -> Actors \cup {NoActor}]
      /\ \A i \in At(a) : frames[a][i].list # <<>> /\ Stop(a, i) \in Strategies
  BY <1>1, InsideState DEF LogLocations
<1>3. /\ 1 \in DOMAIN frames[a] /\ frames[a] # <<>>
      /\ Frame(a) = frames[a][1] /\ frames[a][1] \in Frames
      /\ At(a) = DOMAIN frames[a]
  BY <1>1, Innermost
<1>4. Stop(a, 1) = Head(Frame(a).list) /\ Stop(a, 1) \in Strategies
  BY <1>2, <1>3 DEF Stop
<1>5. \/ Stop(a, 1) \in Concurrent /\ exec_mx' = exec_mx
      \/ /\ Stop(a, 1) \notin Concurrent /\ exec_mx[Stop(a, 1)] = a
         /\ exec_mx' = [exec_mx EXCEPT ![Stop(a, 1)] = NoActor]
  BY <1>2, <1>3, <1>4 DEF leave, Unlock, ActorOk, HoldOk
<1> DEFINE rest == [frames[a][1] EXCEPT !.list = Tail(@)]
<1>6. /\ frames[a][1].list \in Seq(Strategies) /\ frames[a][1].list # <<>>
      /\ Elements(frames[a][1].list) \subseteq Registered
  BY <1>2, <1>3 DEF Frames, ActorOk, FrameOk
<1>7. /\ rest \in Frames /\ Elements(rest.list) \subseteq Registered
      /\ rest.nested = frames[a][1].nested
  <2>1. /\ Tail(frames[a][1].list) \in Seq(Strategies)
        /\ Elements(Tail(frames[a][1].list)) \subseteq Registered
    BY <1>6, HeadAndRest
  <2> QED BY <1>3, <2>1 DEF Frames
<1>8. frames' = [frames EXCEPT ![a] = [frames[a] EXCEPT ![1] = rest]]
  BY <1>1
<1> HIDE DEF rest
<1>9. /\ frames'[a] = [frames[a] EXCEPT ![1] = rest]
      /\ DOMAIN frames'[a] = DOMAIN frames[a] /\ frames'[a][1] = rest
      /\ \A i \in DOMAIN frames[a] \ {1} : frames'[a][i] = frames[a][i]
  BY <1>2, <1>3, <1>8
<1>10. frames'[a] \in Seq(Frames) /\ Len(frames'[a]) = Len(frames[a]) /\ frames'[a] # <<>>
  BY <1>2, <1>3, <1>7, <1>9, SMTT(60)
<1>11. pc'[a] = "dispatch" /\ todo'[a] = <<>>
  BY <1>1, <1>2
<1>12. At(a)' = At(a) \ {1} /\ \A i \in At(a)' : Stop(a, i)' = Stop(a, i)
  <2>1. At(a)' = At(a) \ {1}
    <3>1. DOMAIN frames[a] \subseteq Nat /\ 0 \notin DOMAIN frames[a]
      BY <1>2, SMTT(60)
    <3>2. At(a)' = {i \in DOMAIN frames[a] : i > 1}
      BY <1>9, <1>11 DEF At
    <3> QED BY <1>3, <3>1, <3>2, SMTT(60)
  <2> QED BY <1>3, <1>9, <2>1 DEF Stop
<1>13. Moves(a) /\ Respects(a)
  BY <1>1, <1>2, <1>4, <1>5 DEF Moves, Respects, Registered
<1>14. LocalOk(a)' /\ UseOk(a)'
  BY <1>1, <1>2, <1>11 DEF ActorOk, LocalOk, UseOk, LogLocations, ListLocations
<1>15. HoldOk(a)'
  <2>1. \A i \in At(a) : Stop(a, i) \notin Concurrent => exec_mx[Stop(a, i)] = a
    BY <1>2 DEF ActorOk, HoldOk
  <2>2. \A i, j \in At(a) : Stop(a, i) = Stop(a, j) /\ Stop(a, i) \notin Concurrent => i = j
    BY <1>2 DEF ActorOk, HoldOk
  <2>3. \A i \in At(a) \ {1} : Stop(a, i) \notin Concurrent => exec_mx'[Stop(a, i)] = a
    BY <1>2, <1>3, <1>4, <1>5, <2>1, <2>2
  <2> QED BY <1>11, <1>12, <2>2, <2>3, SMTT(60) DEF HoldOk
<1>16. FrameOk(a)'
  <2>1. Registered' = Registered
    BY <1>1 DEF Registered
  <2>2. FrameOk(a)
    BY <1>2 DEF ActorOk
  <2>3. \A i \in DOMAIN frames'[a] : Elements(frames'[a][i].list) \subseteq Registered
    BY <1>7, <1>9, <2>2 DEF FrameOk
  <2>4. \A i \in At(a)' : frames'[a][i].list # <<>>
    BY <1>3, <1>9, <1>12, <2>2 DEF FrameOk
  <2> QED BY <1>3, <1>7, <1>9, <1>10, <1>11, <2>1, <2>2, <2>3, <2>4 DEF FrameOk
<1> QED BY <1>10, <1>13, <1>14, <1>15, <1>16 DEF ActorOk

\* log() returns.
LEMMA ReturnActors ==
    ASSUME IInv, NEW a \in Actors, log_return(a)
    PROVE  Moves(a) /\ Respects(a) /\ ActorOk(a)' /\ frames'[a] \in Seq(Frames)
<1>1. /\ pc[a] = "dispatch" /\ UNCHANGED <<m_loggers, closed, todo, exec_mx>>
      /\ frames' = [frames EXCEPT ![a] = Tail(frames[a])]
      /\ pc' = [pc EXCEPT ![a] = IF Tail(frames[a]) # <<>> THEN "leave"
                                 ELSE IF a \in Async THEN "task_done" ELSE "idle"]
  BY DEF log_return, GoTo, registryVars, backendVars
<1>2. /\ ActorOk(a) /\ todo[a] = <<>> /\ frames[a] \in Seq(Frames)
      /\ pc \in [Actors -> Locations] /\ frames \in [Actors -> Seq(Frames)]
      /\ frames[a] # <<>> /\ At(a) = DOMAIN frames[a] \ {1}
  BY <1>1, InsideState, Innermost DEF LogLocations
<1>3. Moves(a) /\ Respects(a)
  BY <1>1, <1>2 DEF Moves, Respects, Registered
<1>4. /\ frames'[a] = Tail(frames[a]) /\ todo'[a] = <<>>
      /\ pc'[a] = IF Tail(frames[a]) # <<>> THEN "leave"
                  ELSE IF a \in Async THEN "task_done" ELSE "idle"
  BY <1>1, <1>2
<1>5. Len(frames[a]) <= 2
  BY <1>2 DEF ActorOk, FrameOk
<1>6. CASE Len(frames[a]) = 1
  <2>1. frames'[a] = <<>>
    BY <1>2, <1>4, <1>5, <1>6, ShortList, SMTT(60)
  <2>2. /\ pc'[a] \in {"task_done", "idle"} /\ (a \in Threads => pc'[a] # "task_done")
    BY <1>4, <2>1, LoggerAssumption
  <2>3. ActorOk(a)'
    BY <1>4, <2>1, <2>2, OutsideLog DEF LogLocations, ListLocations
  <2> QED BY <1>3, <2>1, <2>3, SMTT(60)
<1>7. CASE Len(frames[a]) # 1
  <2>1. /\ DOMAIN frames[a] = {1, 2} /\ frames'[a] \in Seq(Frames) /\ Len(frames'[a]) = 1
        /\ DOMAIN frames'[a] = {1} /\ frames'[a][1] = frames[a][2] /\ Len(frames[a]) = 2
    BY <1>2, <1>4, <1>5, <1>7, ShortList, SMTT(60)
  <2>2. frames'[a] # <<>>
    BY <2>1, Positions
  <2>3. pc'[a] = "leave" /\ At(a) = {2} /\ At(a)' = {1} /\ Stop(a, 1)' = Stop(a, 2)
    <3>1. pc'[a] = "leave" /\ At(a) = {2}
      BY <1>2, <1>4, <2>1, <2>2, SMTT(60)
    <3> QED BY <2>1, <3>1 DEF At, Stop
  <2>4. a \notin Async
    <3>1. a \in Async => Len(frames[a]) <= 1
      BY <1>2 DEF ActorOk, FrameOk
    <3> QED BY <2>1, <3>1, SMTT(60)
  <2>5. LocalOk(a)' /\ UseOk(a)'
    BY <1>4, <2>3, <2>4 DEF LocalOk, UseOk, LogLocations, ListLocations
  <2>6. HoldOk(a)'
    <3>1. Stop(a, 2) \notin Concurrent => exec_mx[Stop(a, 2)] = a
      BY <1>2, <2>3 DEF ActorOk, HoldOk
    <3> QED BY <1>1, <2>3, <3>1 DEF HoldOk
  <2>7. FrameOk(a)'
    <3>1. Elements(frames[a][2].list) \subseteq Registered /\ frames[a][2].list # <<>>
      BY <1>2, <2>1, <2>3 DEF ActorOk, FrameOk
    <3>2. Registered' = Registered
      BY <1>1 DEF Registered
    <3> QED BY <2>1, <2>2, <2>3, <2>4, <3>1, <3>2, SMTT(60) DEF FrameOk
  <2> QED BY <1>3, <2>1, <2>5, <2>6, <2>7 DEF ActorOk
<1> QED BY <1>6, <1>7

\* A step of log().
LEMMA LogActors ==
    ASSUME IInv, NEW a \in Actors, LogStep(a)
    PROVE  Moves(a) /\ Respects(a) /\ ActorOk(a)' /\ frames' \in [Actors -> Seq(Frames)]
<1>1. frames \in [Actors -> Seq(Frames)]
  BY DEF IInv, TypeOK
<1>2. ASSUME NEW f, frames' = [frames EXCEPT ![a] = f], frames'[a] \in Seq(Frames)
      PROVE  frames' \in [Actors -> Seq(Frames)]
  BY <1>1, <1>2
<1>3. CASE log_snapshot(a)
  <2>1. PICK f : frames' = [frames EXCEPT ![a] = f]
    BY <1>3 DEF log_snapshot
  <2> QED BY <1>2, <1>3, <2>1, SnapshotActors
<1>4. CASE dispatch(a)
  <2>1. frames' = frames
    BY <1>4 DEF dispatch
  <2> QED BY <1>1, <1>4, <2>1, DispatchActors
<1>5. CASE check(a)
  <2>1. frames' = frames
    BY <1>5 DEF check
  <2> QED BY <1>1, <1>5, <2>1, CheckActors
<1>6. CASE deliver(a)
  <2>1. frames' = frames
    BY <1>6 DEF deliver
  <2> QED BY <1>1, <1>6, <2>1, DeliverActors
<1>7. CASE leave(a)
  <2>1. PICK f : frames' = [frames EXCEPT ![a] = f]
    BY <1>7 DEF leave
  <2> QED BY <1>2, <1>7, <2>1, LeaveActors
<1>8. CASE log_return(a)
  <2>1. PICK f : frames' = [frames EXCEPT ![a] = f]
    BY <1>8 DEF log_return
  <2> QED BY <1>2, <1>8, <2>1, ReturnActors
<1> QED BY <1>3, <1>4, <1>5, <1>6, <1>7, <1>8 DEF LogStep

\* What every actor has.
LEMMA ActorInvKept ==
    ASSUME IInv, NEW a \in Actors, Moves(a), Respects(a), ActorOk(a)'
    PROVE  ActorInv'
<1>1. ASSUME NEW b \in Actors PROVE ActorOk(b)'
  BY <1>1, OthersKept
<1> QED BY <1>1 DEF ActorInv
-----------------------------------------------------------------------------
(* What the steps of each call change *)

\* add_logger() and the setters touch the registry, its flags and its locks.
LEMMA RegistryChanges ==
    ASSUME NEW a, RegistryStep(a)
    PROVE  /\ pc[a] \in {"add_lock", "add_publish", "set_flag", "set_level", "leveling"}
           /\ UNCHANGED <<backendVars, shutdownVars, exec_mx, frames, calls, seen>>
           /\ m_loggers' # m_loggers => add_logger_publish(a)
BY DEF RegistryStep, add_logger_lock, add_logger_publish, set_logger_enabled,
   set_logger_single_mode, set_log_level, set_log_level_all, leveling, leveling_done,
   registryVars

\* wait() works through its list.
LEMMA WaitChanges ==
    ASSUME NEW a, WaitStep(a)
    PROVE  /\ pc[a] \in {"wait_list", "wait"}
           /\ UNCHANGED <<registryVars, flagVars, backendVars, shutdownVars, exec_mx, frames,
                          calls, seen>>
BY DEF WaitStep, wait_list, wait_each, wait_return

\* clear_logger() and clear_all_loggers() take an exec_mx at a time.
LEMMA ClearChanges ==
    ASSUME NEW a, ClearStep(a)
    PROVE  /\ pc[a] \in {"clear_list", "clear", "clearing"}
           /\ UNCHANGED <<registryVars, flagVars, backendVars, shutdownVars, frames, calls, seen>>
BY DEF ClearStep, clear_logger, clear_all_loggers, clear_lock, clear_logs, clear_return

\* shutdown() closes the backends and completes.
LEMMA ShutdownChanges ==
    ASSUME NEW a, ShutdownStep(a)
    PROVE  /\ pc[a] \in {"shutdown_list", "shutdown", "closing"}
           /\ UNCHANGED <<registryVars, flagVars, queue, delivered, handled, m_shutdown, frames,
                          calls, seen>>
BY DEF ShutdownStep, shutdown_list, shutdown_lock, shutdown_logger, shutdown_return,
   backendVars, shutdownVars

\* log() gives records to backends.
LEMMA LogChanges ==
    ASSUME NEW a, LogStep(a)
    PROVE  /\ pc[a] \in LogLocations
           /\ UNCHANGED <<registryVars, flagVars, closed, shutdownVars, todo, calls, seen>>
BY DEF LogStep, log_snapshot, dispatch, check, deliver, leave, log_return, LogLocations,
   backendVars

\* A worker takes records from its queue.
LEMMA WorkerChanges ==
    ASSUME NEW a, WorkerStep(a)
    PROVE  /\ pc[a] \in {"idle", "task_done"}
           /\ UNCHANGED <<registryVars, flagVars, closed, delivered, shutdownVars, exec_mx, todo,
                          frames, calls, seen>>
BY DEF WorkerStep, worker_task, worker_task_done, backendVars

\* Where the steps of each call lead.
LEMMA Destinations ==
    ASSUME IInv, NEW a \in Actors
    PROVE  /\ RegistryStep(a) => /\ pc' \in [Actors -> Locations]
                                 /\ pc'[a] \in {"idle", "add_publish", "leveling"}
                                 /\ pc'[a] = "add_publish" => ~m_shutdown
           /\ WaitStep(a) => /\ pc' \in [Actors -> Locations]
                             /\ pc'[a] \in {"idle", "wait"}
           /\ ClearStep(a) => /\ pc' \in [Actors -> Locations]
                              /\ pc'[a] \in {"idle", "clear", "clearing"}
           /\ ShutdownStep(a) => /\ pc' \in [Actors -> Locations]
                                 /\ pc'[a] \in {"idle", "shutdown", "closing"}
           /\ LogStep(a) => /\ pc' \in [Actors -> Locations]
                            /\ pc'[a] \in {"idle", "task_done"} \cup LogLocations
           /\ WorkerStep(a) => /\ pc' \in [Actors -> Locations]
                               /\ pc'[a] \in {"idle", "log", "task_done"}
<1> DEFINE To(L) == \E l \in L : pc' = [pc EXCEPT ![a] = l]
<1>1. pc \in [Actors -> Locations]
  BY DEF IInv, TypeOK
<1>2. ASSUME NEW L, L \subseteq Locations, To(L)
      PROVE  pc' \in [Actors -> Locations] /\ pc'[a] \in L
  BY <1>1, <1>2
<1>3. ASSUME RegistryStep(a)
      PROVE  To({"idle", "add_publish", "leveling"}) /\ (pc'[a] = "add_publish" => ~m_shutdown)
  <2>1. CASE leveling(a)
    <3>1. pc' = [pc EXCEPT ![a] = "leveling"]
      BY <1>1, <2>1 DEF leveling
    <3> QED BY <1>1, <3>1
  <2>2. CASE add_logger_lock(a)
    BY <1>1, <2>2 DEF add_logger_lock, MayAdd, GoTo
  <2>3. CASE add_logger_publish(a) \/ leveling_done(a) \/ set_log_level_all(a)
    BY <1>1, <2>3 DEF add_logger_publish, leveling_done, set_log_level_all, GoTo
  <2>4. CASE \E s \in Strategies : \/ set_logger_enabled(a, s) \/ set_logger_single_mode(a, s)
                                   \/ set_log_level(a, s)
    BY <1>1, <2>4 DEF set_logger_enabled, set_logger_single_mode, set_log_level, GoTo
  <2> QED BY <1>3, <2>1, <2>2, <2>3, <2>4 DEF RegistryStep
<1>4. ASSUME WaitStep(a) PROVE To({"idle", "wait"})
  <2>1. CASE wait_each(a)
    <3>1. pc' = [pc EXCEPT ![a] = "wait"]
      BY <1>1, <2>1 DEF wait_each
    <3> QED BY <3>1
  <2> QED BY <1>4, <2>1 DEF WaitStep, wait_list, wait_return, GoTo
<1>5. ASSUME ClearStep(a) PROVE To({"idle", "clear", "clearing"})
  BY <1>5 DEF ClearStep, clear_logger, clear_all_loggers, clear_lock, clear_logs, clear_return,
     GoTo
<1>6. ASSUME ShutdownStep(a) PROVE To({"idle", "shutdown", "closing"})
  BY <1>6 DEF ShutdownStep, shutdown_list, shutdown_lock, shutdown_logger, shutdown_return, GoTo
<1>7. ASSUME LogStep(a) PROVE To({"idle", "task_done"} \cup LogLocations)
  BY <1>7 DEF LogStep, log_snapshot, dispatch, check, deliver, leave, log_return, GoTo,
     LogLocations
<1>8. ASSUME WorkerStep(a) PROVE To({"idle", "log", "task_done"})
  BY <1>8 DEF WorkerStep, worker_task, worker_task_done, GoTo
<1>9. /\ {"idle", "add_publish", "leveling"} \subseteq Locations
      /\ {"idle", "wait"} \subseteq Locations /\ {"idle", "clear", "clearing"} \subseteq Locations
      /\ {"idle", "shutdown", "closing"} \subseteq Locations
      /\ {"idle", "task_done"} \cup LogLocations \subseteq Locations
      /\ {"idle", "log", "task_done"} \subseteq Locations
  BY DEF Locations, LogLocations
<1> HIDE DEF To
<1> QED BY <1>2, <1>3, <1>4, <1>5, <1>6, <1>7, <1>8, <1>9
-----------------------------------------------------------------------------
(* Types *)

\* The part of the type invariant that is about m_loggers and m_loggers_mx.
RegistryTypes ==
    /\ m_loggers \in Seq(Strategies)
    /\ m_loggers_snapshot = m_loggers
    /\ \A i, j \in DOMAIN m_loggers : m_loggers[i] = m_loggers[j] => i = j
    /\ writer \in Threads \cup {NoActor} /\ readers \subseteq Threads
    /\ writer = NoActor \/ readers = {}

FlagTypes ==
    /\ enabled \in [Strategies -> BOOLEAN] /\ single_mode \in [Strategies -> BOOLEAN]
    /\ log_level \in [Strategies -> Levels]

BackendTypes ==
    /\ queue \in [Strategies -> Seq(BOOLEAN)] /\ closed \in [Strategies -> BOOLEAN]
    /\ delivered \in [Strategies -> Nat] /\ handled \in [Strategies -> Nat]

CallTypes ==
    /\ calls \in 0..MaxCalls
    /\ seen \in [Threads -> [Strategies -> Nat]]
    /\ m_shutdown \in BOOLEAN /\ completed \in BOOLEAN

ActorTypes ==
    /\ pc \in [Actors -> Locations]
    /\ todo \in [Actors -> Seq(Strategies)]
    /\ frames \in [Actors -> Seq(Frames)]
    /\ exec_mx \in [Strategies -> Actors \cup {NoActor}]

\* A call that is over has no frame and no list left, by LocalOk.
LEMMA TypeParts ==
    ASSUME ActorInv
    PROVE  TypeOK <=> RegistryTypes /\ FlagTypes /\ BackendTypes /\ CallTypes /\ ActorTypes
<1>1. \A a \in Actors : pc[a] = "idle" => frames[a] = <<>> /\ todo[a] = <<>>
  BY DEF ActorInv, ActorOk, LocalOk, LogLocations, ListLocations
<1> QED BY <1>1 DEF TypeOK, RegistryTypes, FlagTypes, BackendTypes, CallTypes, ActorTypes

\* add_logger() and the setters.
LEMMA RegistryTypesKept ==
    ASSUME IInv, NEW a \in Actors, RegistryStep(a)
    PROVE  RegistryTypes' /\ FlagTypes'
<1>1. RegistryTypes /\ FlagTypes /\ a \in Threads
  <2>1. pc[a] \notin LogLocations /\ pc[a] \notin {"idle", "task_done"}
    BY RegistryChanges DEF LogLocations
  <2>2. a \notin Async
    BY <2>1, OutsideState
  <2> QED BY <2>2, TypeParts DEF IInv, Actors
<1>2. CASE add_logger_publish(a)
  <2>1. PICK s \in Strategies \ Registered, b \in BOOLEAN :
            m_loggers' = Append(m_loggers, s) /\ single_mode' = [single_mode EXCEPT ![s] = b]
    BY <1>2 DEF add_logger_publish
  <2>2. s \notin Elements(m_loggers) /\ m_loggers \in Seq(Strategies)
    BY <1>1, <2>1 DEF Elements, Registered, RegistryTypes
  <2>3. /\ m_loggers' \in Seq(Strategies)
        /\ \A i, j \in DOMAIN m_loggers' : m_loggers'[i] = m_loggers'[j] => i = j
    BY <1>1, <2>1, <2>2, PushBack, SMTT(60) DEF RegistryTypes
  <2>4. m_loggers_snapshot' = m_loggers' /\ writer' = NoActor /\ readers' = readers
        /\ enabled' = enabled /\ log_level' = log_level
    BY <1>2 DEF add_logger_publish, PublishSnapshot
  <2>5. single_mode' \in [Strategies -> BOOLEAN]
    BY <1>1, <2>1 DEF FlagTypes
  <2> QED BY <1>1, <2>3, <2>4, <2>5 DEF RegistryTypes, FlagTypes
<1>3. CASE \E s \in Strategies : set_logger_enabled(a, s) \/ set_logger_single_mode(a, s)
  <2>1. UNCHANGED <<m_loggers, m_loggers_snapshot, writer, readers, log_level>>
    BY <1>3 DEF set_logger_enabled, set_logger_single_mode, registryVars
  <2>2. ASSUME NEW s \in Strategies, set_logger_enabled(a, s)
        PROVE  enabled' \in [Strategies -> BOOLEAN] /\ single_mode' = single_mode
    BY <1>1, <2>2 DEF set_logger_enabled, FlagTypes
  <2>3. ASSUME NEW s \in Strategies, set_logger_single_mode(a, s)
        PROVE  single_mode' \in [Strategies -> BOOLEAN] /\ enabled' = enabled
    BY <1>1, <2>3 DEF set_logger_single_mode, FlagTypes
  <2> QED BY <1>1, <1>3, <2>1, <2>2, <2>3 DEF RegistryTypes, FlagTypes
<1>4. CASE leveling(a)
  <2>1. UNCHANGED <<m_loggers, m_loggers_snapshot, writer, readers, enabled, single_mode>>
    BY <1>4 DEF leveling, registryVars
  <2>2. PICK l \in Levels : log_level' = [log_level EXCEPT ![Head(todo[a])] = l]
    BY <1>4 DEF leveling
  <2> QED BY <1>1, <2>1, <2>2 DEF RegistryTypes, FlagTypes
<1>5. CASE add_logger_lock(a) \/ leveling_done(a) \/ set_log_level_all(a)
  <2>1. UNCHANGED <<m_loggers, m_loggers_snapshot, enabled, single_mode, log_level>>
    BY <1>5 DEF add_logger_lock, leveling_done, set_log_level_all, flagVars
  <2>2. /\ writer' \in Threads \cup {NoActor} /\ readers' \subseteq Threads
        /\ writer' = NoActor \/ readers' = {}
    BY <1>1, <1>5 DEF add_logger_lock, leveling_done, set_log_level_all, CanWrite, CanRead,
       RegistryTypes
  <2> QED BY <1>1, <2>1, <2>2 DEF RegistryTypes, FlagTypes
<1>6. CASE \E s \in Strategies : set_log_level(a, s)
  <2>1. UNCHANGED <<m_loggers, m_loggers_snapshot, enabled, single_mode, log_level, readers>>
        /\ writer' = a /\ CanWrite
    BY <1>6 DEF set_log_level, flagVars
  <2> QED BY <1>1, <2>1 DEF RegistryTypes, FlagTypes, CanWrite
<1> QED BY <1>2, <1>3, <1>4, <1>5, <1>6 DEF RegistryStep

\* The list that a call works through.
LEMMA TodoTypesKept ==
    ASSUME IInv, NEW a \in Actors,
           RegistryStep(a) \/ WaitStep(a) \/ ClearStep(a) \/ ShutdownStep(a)
    PROVE  todo' \in [Actors -> Seq(Strategies)]
<1>1. /\ todo \in [Actors -> Seq(Strategies)] /\ m_loggers \in Seq(Strategies)
      /\ m_loggers_snapshot = m_loggers
  BY DEF IInv, TypeOK
<1>2. ASSUME NEW list \in Seq(Strategies), Visit(a, list)
      PROVE  todo' \in [Actors -> Seq(Strategies)]
  BY <1>1, <1>2 DEF Visit
<1>3. <<>> \in Seq(Strategies)
  BY SMTT(60)
<1>4. todo[a] # <<>> => Tail(todo[a]) \in Seq(Strategies)
  BY <1>1, HeadAndRest
<1>5. \A i : StrategyAt(i) \in Seq(Strategies)
  <2>1. ASSUME NEW i \in DOMAIN m_loggers PROVE <<m_loggers[i]>> \in Seq(Strategies)
    BY <1>1, SMTT(60)
  <2> QED BY <1>1, <1>3, <2>1 DEF StrategyAt
<1>6. CASE RegistryStep(a)
  <2>1. CASE leveling(a)
    BY <1>2, <1>4, <2>1 DEF leveling
  <2>2. CASE set_log_level_all(a)
    BY <1>1, <1>2, <2>2 DEF set_log_level_all
  <2>3. ASSUME NEW s \in Strategies, set_log_level(a, s)
        PROVE  todo' \in [Actors -> Seq(Strategies)]
    <3>1. (IF s \in Registered THEN <<s>> ELSE <<>>) \in Seq(Strategies)
      BY <1>3, SMTT(60)
    <3> QED BY <1>2, <2>3, <3>1 DEF set_log_level
  <2>4. CASE \/ add_logger_lock(a) \/ add_logger_publish(a) \/ leveling_done(a)
             \/ \E s \in Strategies : set_logger_enabled(a, s) \/ set_logger_single_mode(a, s)
    BY <1>1, <2>4 DEF add_logger_lock, add_logger_publish, leveling_done, set_logger_enabled,
       set_logger_single_mode
  <2> QED BY <1>6, <2>1, <2>2, <2>3, <2>4 DEF RegistryStep
<1>7. CASE WaitStep(a)
  BY <1>1, <1>2, <1>4, <1>7 DEF WaitStep, wait_list, wait_each, wait_return, LoggersToWait
<1>8. CASE ClearStep(a)
  <2>1. pc[a] = "clearing" => todo[a] # <<>>
    BY DEF IInv, ActorInv, ActorOk, HoldOk
  <2>2. CASE clear_logger(a)
    BY <1>2, <1>5, <2>2 DEF clear_logger
  <2>3. CASE clear_all_loggers(a) \/ clear_return(a)
    BY <1>1, <1>2, <2>3 DEF clear_all_loggers, clear_return
  <2>4. CASE clear_lock(a)
    BY <1>1, <1>2, <1>3, <2>4 DEF clear_lock
  <2>5. CASE clear_logs(a)
    BY <1>2, <1>4, <2>1, <2>5 DEF clear_logs
  <2> QED BY <1>8, <2>2, <2>3, <2>4, <2>5 DEF ClearStep
<1>9. CASE ShutdownStep(a)
  <2>1. pc[a] = "closing" => todo[a] # <<>>
    BY DEF IInv, ActorInv, ActorOk, HoldOk
  <2> QED BY <1>1, <1>2, <1>4, <1>9, <2>1 DEF ShutdownStep, shutdown_list, shutdown_lock,
             shutdown_logger, shutdown_return
<1> QED BY <1>6, <1>7, <1>8, <1>9

\* exec_mx is taken and given back.
LEMMA LockTypesKept ==
    ASSUME IInv, NEW a \in Actors, ClearStep(a) \/ ShutdownStep(a) \/ LogStep(a)
    PROVE  exec_mx' \in [Strategies -> Actors \cup {NoActor}]
<1>1. exec_mx \in [Strategies -> Actors \cup {NoActor}]
  BY DEF IInv, TypeOK
<1>2. ASSUME NEW s, Lock(s, a) \/ Unlock(s) \/ UNCHANGED exec_mx
      PROVE  exec_mx' \in [Strategies -> Actors \cup {NoActor}]
  BY <1>1, <1>2 DEF Lock, Unlock
<1>3. CASE ClearStep(a)
  BY <1>2, <1>3 DEF ClearStep, clear_logger, clear_all_loggers, clear_lock, clear_logs,
     clear_return
<1>4. CASE ShutdownStep(a)
  BY <1>2, <1>4 DEF ShutdownStep, shutdown_list, shutdown_lock, shutdown_logger, shutdown_return
<1>5. CASE LogStep(a)
  BY <1>2, <1>5 DEF LogStep, log_snapshot, dispatch, check, deliver, leave, log_return
<1> QED BY <1>3, <1>4, <1>5

\* A counter of records.
LEMMA CountOne ==
    ASSUME NEW f \in [Strategies -> Nat], NEW s \in Strategies
    PROVE  /\ [f EXCEPT ![s] = @ + 1] \in [Strategies -> Nat]
           /\ [f EXCEPT ![s] = @ + 1][s] = f[s] + 1
           /\ \A r \in Strategies \ {s} : [f EXCEPT ![s] = @ + 1][r] = f[r]
<1>1. f[s] + 1 \in Nat
  BY SMTT(60)
<1> QED BY <1>1

\* The backend that log() calls.
LEMMA Target ==
    ASSUME IInv, NEW a \in Actors, pc[a] = "deliver"
    PROVE  Head(Frame(a).list) \in Registered /\ Head(Frame(a).list) \in Strategies
<1>1. 1 \in At(a) /\ Frame(a) = frames[a][1]
  BY Innermost
<1>2. /\ frames[a][1].list # <<>> /\ frames[a][1].list \in Seq(Strategies)
      /\ Elements(frames[a][1].list) \subseteq Registered
  BY <1>1, InsideState, Innermost, SMTT(60) DEF LogLocations, Frames, ActorOk, FrameOk
<1> QED BY <1>1, <1>2, HeadAndRest, SMTT(60)

\* A record is given to a backend, and handled.
LEMMA BackendTypesKept ==
    ASSUME IInv, NEW a \in Actors, LogStep(a) \/ WorkerStep(a)
    PROVE  BackendTypes'
<1>1. BackendTypes
  BY TypeParts DEF IInv
<1>2. CASE deliver(a)
  <2>1. /\ Frame(a) \in Frames /\ closed' = closed
    BY <1>2, Innermost DEF deliver
  <2> DEFINE s == Head(Frame(a).list)
  <2>2. CASE closed[s]
    BY <1>1, <1>2, <2>1, <2>2 DEF deliver, BackendTypes
  <2>3. CASE ~closed[s]
    <3>1. delivered' = [delivered EXCEPT ![s] = @ + 1]
          /\ IF s \in Async
                THEN queue' = [queue EXCEPT ![s] = Append(@, Frame(a).nested)] /\ handled' = handled
                ELSE handled' = [handled EXCEPT ![s] = @ + 1] /\ queue' = queue
      BY <1>2, <2>3 DEF deliver
    <3>2. Frame(a).nested \in BOOLEAN
      BY <2>1 DEF Frames
    <3>3. s \in Strategies
      BY <1>2, Target DEF deliver
    <3>4. delivered' \in [Strategies -> Nat] /\ handled' \in [Strategies -> Nat]
      <4> HIDE DEF s
      <4>1. [delivered EXCEPT ![s] = @ + 1] \in [Strategies -> Nat]
        BY <1>1, <3>3, CountOne DEF BackendTypes
      <4>2. [handled EXCEPT ![s] = @ + 1] \in [Strategies -> Nat]
        BY <1>1, <3>3, CountOne DEF BackendTypes
      <4> QED BY <1>1, <3>1, <4>1, <4>2 DEF BackendTypes
    <3>5. queue' \in [Strategies -> Seq(BOOLEAN)]
      <4>1. \A q \in Seq(BOOLEAN) : Append(q, Frame(a).nested) \in Seq(BOOLEAN)
        BY <3>2, SMTT(60)
      <4> QED BY <1>1, <3>1, <4>1 DEF BackendTypes
    <3> QED BY <1>1, <2>1, <3>4, <3>5 DEF BackendTypes
  <2> QED BY <2>2, <2>3
<1>3. CASE LogStep(a) /\ ~deliver(a)
  <2>1. UNCHANGED backendVars
    BY <1>3 DEF LogStep, log_snapshot, dispatch, check, leave, log_return
  <2> QED BY <1>1, <2>1 DEF BackendTypes, backendVars
<1>4. CASE WorkerStep(a)
  <2>1. CASE worker_task(a)
    BY <1>1, <2>1 DEF worker_task, BackendTypes, backendVars
  <2>2. CASE worker_task_done(a)
    <3>1. pc[a] = "task_done" => queue[a] # <<>> /\ a \in Strategies
      <4>1. pc[a] = "task_done" => a \in Async
        BY DEF IInv, ActorInv, ActorOk, LocalOk, Actors
      <4> QED BY <4>1, LoggerAssumption DEF IInv, AccountInv
    <3>2. Tail(queue[a]) \in Seq(BOOLEAN)
      BY <1>1, <2>2, <3>1, HeadAndRest DEF BackendTypes, worker_task_done
    <3>3. handled' \in [Strategies -> Nat]
      BY <1>1, <2>2, <3>1, CountOne DEF worker_task_done, BackendTypes
    <3> QED BY <1>1, <2>2, <3>2, <3>3 DEF worker_task_done, BackendTypes
  <2> QED BY <1>4, <2>1, <2>2 DEF WorkerStep
<1> QED BY <1>2, <1>3, <1>4

\* The type invariant.
LEMMA TypesKept ==
    ASSUME IInv, Next, ActorInv'
    PROVE  TypeOK'
<1>1. RegistryTypes /\ FlagTypes /\ BackendTypes /\ CallTypes /\ ActorTypes
  BY TypeParts DEF IInv
<1>2. SUFFICES RegistryTypes' /\ FlagTypes' /\ BackendTypes' /\ CallTypes' /\ ActorTypes'
  <2>1. ActorInv' => (TypeOK' <=> (RegistryTypes /\ FlagTypes /\ BackendTypes
                                    /\ CallTypes /\ ActorTypes)')
    <3>1. (ActorInv => (TypeOK <=> RegistryTypes /\ FlagTypes /\ BackendTypes
                                    /\ CallTypes /\ ActorTypes))'
      BY TypeParts, PTL
    <3> QED BY <3>1
  <2> QED BY <2>1
<1>3. ASSUME NEW a \in Threads, Begin(a)
      PROVE  RegistryTypes' /\ FlagTypes' /\ BackendTypes' /\ CallTypes' /\ ActorTypes'
  <2>1. UNCHANGED <<registryVars, flagVars, backendVars, exec_mx, todo, frames, completed>>
    BY <1>3, Beginnings
  <2>2. RegistryTypes' /\ FlagTypes' /\ BackendTypes'
    BY <1>1, <2>1 DEF RegistryTypes, FlagTypes, BackendTypes, registryVars, flagVars, backendVars
  <2>3. pc' \in [Actors -> Locations]
    <3>1. PICK l \in {"idle", "log", "add_lock", "set_flag", "set_level", "wait_list",
                      "clear_list", "shutdown_list"} : pc' = [pc EXCEPT ![a] = l]
      BY <1>3, Beginnings
    <3>2. l \in Locations
      BY DEF Locations
    <3> QED BY <1>1, <3>1, <3>2 DEF ActorTypes
  <2>4. calls' \in 0..MaxCalls
    <3>1. calls \in 0..MaxCalls /\ MaxCalls \in Nat
      BY <1>1, LoggerAssumption DEF CallTypes
    <3>2. calls < MaxCalls /\ calls' = calls + 1
      BY <1>3, Beginnings
    <3> QED BY <3>1, <3>2, SMTT(60)
  <2>5. seen' \in [Threads -> [Strategies -> Nat]] /\ m_shutdown' \in BOOLEAN
    BY <1>1, <1>3, Beginnings DEF CallTypes, BackendTypes
  <2> QED BY <1>1, <2>1, <2>2, <2>3, <2>4, <2>5 DEF CallTypes, ActorTypes
<1>4. ASSUME NEW a \in Actors, RegistryStep(a)
      PROVE  RegistryTypes' /\ FlagTypes' /\ BackendTypes' /\ CallTypes' /\ ActorTypes'
  <2>1. UNCHANGED <<backendVars, shutdownVars, exec_mx, frames, calls, seen>>
    BY <1>4, RegistryChanges
  <2>2. RegistryTypes' /\ FlagTypes' /\ todo' \in [Actors -> Seq(Strategies)]
        /\ pc' \in [Actors -> Locations]
    BY <1>4, RegistryTypesKept, TodoTypesKept, Destinations
  <2> QED BY <1>1, <2>1, <2>2 DEF BackendTypes, CallTypes, ActorTypes, backendVars, shutdownVars
<1>5. ASSUME NEW a \in Actors, WaitStep(a)
      PROVE  RegistryTypes' /\ FlagTypes' /\ BackendTypes' /\ CallTypes' /\ ActorTypes'
  <2>1. UNCHANGED <<registryVars, flagVars, backendVars, shutdownVars, exec_mx, frames, calls, seen>>
    BY <1>5, WaitChanges
  <2>2. todo' \in [Actors -> Seq(Strategies)] /\ pc' \in [Actors -> Locations]
    BY <1>5, TodoTypesKept, Destinations
  <2>3. RegistryTypes' /\ FlagTypes' /\ BackendTypes'
    BY <1>1, <2>1 DEF RegistryTypes, FlagTypes, BackendTypes, registryVars, flagVars, backendVars
  <2> QED BY <1>1, <2>1, <2>2, <2>3 DEF CallTypes, ActorTypes, shutdownVars
<1>6. ASSUME NEW a \in Actors, ClearStep(a)
      PROVE  RegistryTypes' /\ FlagTypes' /\ BackendTypes' /\ CallTypes' /\ ActorTypes'
  <2>1. UNCHANGED <<registryVars, flagVars, backendVars, shutdownVars, frames, calls, seen>>
    BY <1>6, ClearChanges
  <2>2. /\ todo' \in [Actors -> Seq(Strategies)] /\ pc' \in [Actors -> Locations]
        /\ exec_mx' \in [Strategies -> Actors \cup {NoActor}]
    BY <1>6, TodoTypesKept, Destinations, LockTypesKept
  <2>3. RegistryTypes' /\ FlagTypes' /\ BackendTypes'
    BY <1>1, <2>1 DEF RegistryTypes, FlagTypes, BackendTypes, registryVars, flagVars, backendVars
  <2> QED BY <1>1, <2>1, <2>2, <2>3 DEF CallTypes, ActorTypes, shutdownVars
<1>7. ASSUME NEW a \in Actors, ShutdownStep(a)
      PROVE  RegistryTypes' /\ FlagTypes' /\ BackendTypes' /\ CallTypes' /\ ActorTypes'
  <2>1. UNCHANGED <<registryVars, flagVars, queue, delivered, handled, m_shutdown, frames, calls, seen>>
    BY <1>7, ShutdownChanges
  <2>2. /\ todo' \in [Actors -> Seq(Strategies)] /\ pc' \in [Actors -> Locations]
        /\ exec_mx' \in [Strategies -> Actors \cup {NoActor}]
    BY <1>7, TodoTypesKept, Destinations, LockTypesKept
  <2>3. RegistryTypes' /\ FlagTypes'
    BY <1>1, <2>1 DEF RegistryTypes, FlagTypes, registryVars, flagVars
  <2>4. closed' \in [Strategies -> BOOLEAN]
    BY <1>1, <1>7 DEF BackendTypes, ShutdownStep, shutdown_list, shutdown_lock, shutdown_logger,
       shutdown_return, backendVars
  <2>5. completed' \in BOOLEAN
    BY <1>1, <1>7 DEF CallTypes, ShutdownStep, shutdown_list, shutdown_lock, shutdown_logger,
       shutdown_return, shutdownVars
  <2> QED BY <1>1, <2>1, <2>2, <2>3, <2>4, <2>5 DEF BackendTypes, CallTypes, ActorTypes
<1>8. ASSUME NEW a \in Actors, LogStep(a)
      PROVE  RegistryTypes' /\ FlagTypes' /\ BackendTypes' /\ CallTypes' /\ ActorTypes'
  <2>1. UNCHANGED <<registryVars, flagVars, shutdownVars, todo, calls, seen>>
    BY <1>8, LogChanges
  <2>2. /\ frames' \in [Actors -> Seq(Frames)] /\ pc' \in [Actors -> Locations]
        /\ exec_mx' \in [Strategies -> Actors \cup {NoActor}] /\ BackendTypes'
    BY <1>8, LogActors, Destinations, LockTypesKept, BackendTypesKept
  <2>3. RegistryTypes' /\ FlagTypes'
    BY <1>1, <2>1 DEF RegistryTypes, FlagTypes, registryVars, flagVars
  <2> QED BY <1>1, <2>1, <2>2, <2>3 DEF CallTypes, ActorTypes, shutdownVars
<1>9. ASSUME NEW a \in Async, WorkerStep(a)
      PROVE  RegistryTypes' /\ FlagTypes' /\ BackendTypes' /\ CallTypes' /\ ActorTypes'
  <2>1. UNCHANGED <<registryVars, flagVars, shutdownVars, exec_mx, todo, frames, calls, seen>>
    BY <1>9, WorkerChanges
  <2>2. pc' \in [Actors -> Locations] /\ BackendTypes'
    <3>1. a \in Actors
      BY DEF Actors
    <3> QED BY <1>9, <3>1, Destinations, BackendTypesKept
  <2>3. RegistryTypes' /\ FlagTypes'
    BY <1>1, <2>1 DEF RegistryTypes, FlagTypes, registryVars, flagVars
  <2> QED BY <1>1, <2>1, <2>2, <2>3 DEF CallTypes, ActorTypes, shutdownVars
<1> QED BY <1>3, <1>4, <1>5, <1>6, <1>7, <1>8, <1>9, Steps
-----------------------------------------------------------------------------
(* The registry and shutdown() *)

\* Between its second look at m_shutdown and the publication, add_logger()
\* holds m_loggers_mx.
LEMMA RegistryInvKept ==
    ASSUME IInv, NEW a \in Actors, Moves(a),
           \/ RegistryStep(a)
           \/ writer' = writer /\ pc'[a] # "add_publish"
    PROVE  RegistryInv'
<1>1. /\ \A b \in Actors : pc[b] = "add_publish" => writer = b
      /\ \A b \in Actors : b # NoActor
      /\ \A b \in Actors \ {a} : pc'[b] = pc[b]
      /\ pc \in [Actors -> Locations]
  BY LoggerAssumption, SMTT(60) DEF IInv, RegistryInv, Actors, Moves, TypeOK
<1>2. CASE writer' = writer /\ pc'[a] # "add_publish"
  BY <1>1, <1>2 DEF RegistryInv
<1>3. CASE add_logger_lock(a)
  <2>1. writer = NoActor /\ (pc'[a] = "add_publish" => writer' = a)
    BY <1>1, <1>3 DEF add_logger_lock, CanWrite, GoTo
  <2> QED BY <1>1, <2>1 DEF RegistryInv
<1>4. CASE add_logger_publish(a)
  <2>1. writer = a /\ pc'[a] = "idle"
    BY <1>1, <1>4 DEF add_logger_publish, GoTo
  <2> QED BY <1>1, <2>1 DEF RegistryInv
<1>5. CASE \E s \in Strategies : set_log_level(a, s)
  <2>1. writer = NoActor /\ pc'[a] = "leveling"
    BY <1>1, <1>5 DEF set_log_level, CanWrite, GoTo
  <2> QED BY <1>1, <2>1 DEF RegistryInv
<1>6. CASE leveling_done(a)
  <2>1. pc[a] = "leveling" /\ pc'[a] = "idle" /\ (writer # a => writer' = writer)
    BY <1>1, <1>6 DEF leveling_done, GoTo
  <2> QED BY <1>1, <2>1 DEF RegistryInv
<1>7. CASE set_log_level_all(a) \/ leveling(a)
  <2>1. writer' = writer /\ pc'[a] = "leveling"
    BY <1>1, <1>7 DEF set_log_level_all, leveling, registryVars, GoTo
  <2> QED BY <1>1, <2>1 DEF RegistryInv
<1>8. CASE \E s \in Strategies : set_logger_enabled(a, s) \/ set_logger_single_mode(a, s)
  <2>1. writer' = writer /\ pc'[a] = "idle"
    BY <1>1, <1>8 DEF set_logger_enabled, set_logger_single_mode, registryVars, GoTo
  <2> QED BY <1>1, <2>1 DEF RegistryInv
<1> QED BY <1>2, <1>3, <1>4, <1>5, <1>6, <1>7, <1>8 DEF RegistryStep
-----------------------------------------------------------------------------
(* The account of every backend *)

\* A step that does not touch the backends.
LEMMA NotABackendStep ==
    ASSUME IInv, NEW a \in Actors, Moves(a), Respects(a),
           UNCHANGED <<queue, delivered, handled>>,
           a \in Async /\ pc'[a] # "idle" => pc[a] # "idle"
    PROVE  AccountInv'
<1>1. ASSUME NEW s \in Strategies, s \in Async, pc'[s] # "idle" PROVE pc[s] # "idle"
  BY <1>1 DEF Moves, Actors
<1> QED BY <1>1 DEF IInv, AccountInv, Respects

\* A client is not a worker.
LEMMA ClientStep ==
    ASSUME IInv, NEW a \in Actors, pc[a] \notin LogLocations \cup {"idle", "task_done"}
    PROVE  a \notin Async
BY OutsideState

\* log() gives a record to a backend.
LEMMA DeliverAccount ==
    ASSUME IInv, NEW a \in Actors, deliver(a), Moves(a), Respects(a)
    PROVE  /\ AccountInv'
           /\ \A s \in Strategies : delivered[s] <= delivered'[s] /\ handled[s] <= handled'[s]
           /\ \A s \in Strategies : Ended(s) => queue'[s] = <<>>
<1> DEFINE t == Head(Frame(a).list)
<1>1. /\ pc[a] = "deliver" /\ UNCHANGED closed
      /\ \/ closed[t] /\ UNCHANGED <<queue, delivered, handled>>
         \/ /\ ~closed[t]
            /\ delivered' = [delivered EXCEPT ![t] = @ + 1]
            /\ \/ /\ t \in Async /\ queue' = [queue EXCEPT ![t] = Append(@, Frame(a).nested)]
                  /\ handled' = handled
               \/ /\ t \notin Async /\ handled' = [handled EXCEPT ![t] = @ + 1]
                  /\ queue' = queue
  BY DEF deliver
<1>2. /\ t \in Strategies /\ t \in Registered /\ Frame(a).nested \in BOOLEAN
  BY <1>1, Target, Innermost DEF Frames
<1>3. BackendTypes
  BY TypeParts DEF IInv
<1>4. CASE closed[t]
  <2>1. UNCHANGED <<queue, delivered, handled>>
    BY <1>1, <1>4
  <2>2. AccountInv'
    BY <1>1, <2>1, NotABackendStep
  <2> QED BY <1>3, <2>1, <2>2, SMTT(60) DEF BackendTypes, Ended
<1>5. CASE ~closed[t]
  <2> HIDE DEF t
  <2>1. /\ delivered'[t] = delivered[t] + 1
        /\ \A s \in Strategies \ {t} : delivered'[s] = delivered[s]
    BY <1>1, <1>2, <1>3, <1>5, CountOne, SMTT(60) DEF BackendTypes
  <2>2. \A s \in Strategies \ {t} : handled'[s] = handled[s] /\ queue'[s] = queue[s]
    BY <1>1, <1>2, <1>3, <1>5 DEF BackendTypes
  <2>3. /\ queue[t] \in Seq(BOOLEAN) /\ Len(queue[t]) \in Nat
        /\ delivered[t] \in Nat /\ handled[t] \in Nat
        /\ delivered[t] = handled[t] + Len(queue[t]) /\ (t \notin Async => queue[t] = <<>>)
    BY <1>2, <1>3, SMTT(60) DEF BackendTypes, IInv, AccountInv
  <2>4. \/ /\ t \in Async /\ queue'[t] # <<>> /\ Len(queue'[t]) = Len(queue[t]) + 1
           /\ handled'[t] = handled[t]
        \/ /\ t \notin Async /\ queue'[t] = queue[t] /\ handled'[t] = handled[t] + 1
    <3>1. CASE t \in Async
      <4>1. queue'[t] = Append(queue[t], Frame(a).nested) /\ handled'[t] = handled[t]
        BY <1>1, <1>2, <1>3, <1>5, <3>1 DEF BackendTypes
      <4> QED BY <1>2, <2>3, <3>1, <4>1, SMTT(60)
    <3>2. CASE t \notin Async
      BY <1>1, <1>2, <1>3, <1>5, <3>2, CountOne, SMTT(60) DEF BackendTypes
    <3> QED BY <3>1, <3>2
  <2>5. /\ delivered'[t] = handled'[t] + Len(queue'[t])
        /\ delivered[t] <= delivered'[t] /\ handled[t] <= handled'[t]
    <3>1. CASE Len(queue'[t]) = Len(queue[t]) + 1 /\ handled'[t] = handled[t]
      BY <2>1, <2>3, <3>1, SMTT(60)
    <3>2. CASE queue'[t] = queue[t] /\ handled'[t] = handled[t] + 1
      BY <2>1, <2>3, <3>2, SMTT(60)
    <3> QED BY <2>4, <3>1, <3>2
  <2>6. ASSUME NEW s \in Strategies
        PROVE  /\ delivered'[s] = handled'[s] + Len(queue'[s])
               /\ (s \notin Async => queue'[s] = <<>>)
               /\ (s \notin Registered' => delivered'[s] = 0)
               /\ (s \in Async /\ pc'[s] # "idle" => queue'[s] # <<>>)
    <3>1. CASE s = t
      BY <1>2, <2>3, <2>4, <2>5, <3>1 DEF Respects
    <3>2. CASE s # t
      <4>1. s \in Async => (pc'[s] # "idle" => pc[s] # "idle")
        BY <1>1 DEF Moves, Actors
      <4> QED BY <2>1, <2>2, <3>2, <4>1 DEF IInv, AccountInv, Respects
    <3> QED BY <3>1, <3>2
  <2>7. AccountInv'
    BY <2>6 DEF AccountInv
  <2>8. \A s \in Strategies : delivered[s] <= delivered'[s] /\ handled[s] <= handled'[s]
    <3>1. ASSUME NEW s \in Strategies
          PROVE  delivered[s] <= delivered'[s] /\ handled[s] <= handled'[s]
      <4>1. CASE s = t
        BY <2>5, <4>1
      <4>2. CASE s # t
        <5>1. delivered[s] \in Nat /\ handled[s] \in Nat
          BY <1>3 DEF BackendTypes
        <5> QED BY <2>1, <2>2, <4>2, <5>1, SMTT(60)
      <4> QED BY <4>1, <4>2
    <3> QED BY <3>1
  <2> QED BY <1>5, <2>2, <2>7, <2>8 DEF Ended
<1> QED BY <1>4, <1>5

\* A worker takes a record off its queue.
LEMMA WorkerAccount ==
    ASSUME IInv, NEW a \in Async, WorkerStep(a), Moves(a), Respects(a)
    PROVE  /\ AccountInv'
           /\ \A s \in Strategies : delivered[s] <= delivered'[s] /\ handled[s] <= handled'[s]
           /\ \A s \in Strategies : Ended(s) => queue'[s] = <<>>
<1>1. BackendTypes /\ a \in Strategies /\ a \in Actors /\ pc \in [Actors -> Locations]
  BY TypeParts, LoggerAssumption DEF IInv, Actors, TypeOK
<1>2. CASE worker_task(a)
  <2>1. UNCHANGED <<queue, delivered, handled>> /\ queue[a] # <<>>
    BY <1>2 DEF worker_task, backendVars
  <2>2. ASSUME NEW s \in Strategies, s \in Async, pc'[s] # "idle" PROVE queue[s] # <<>>
    BY <1>1, <2>1, <2>2 DEF IInv, AccountInv, Moves, Actors
  <2>3. AccountInv'
    BY <2>1, <2>2 DEF IInv, AccountInv, Respects
  <2> QED BY <1>1, <2>1, <2>3, SMTT(60) DEF BackendTypes, Ended
<1>3. CASE worker_task_done(a)
  <2>1. /\ pc[a] = "task_done" /\ pc'[a] = "idle" /\ delivered' = delivered
        /\ queue' = [queue EXCEPT ![a] = Tail(@)] /\ handled' = [handled EXCEPT ![a] = @ + 1]
    BY <1>1, <1>3 DEF worker_task_done, GoTo
  <2>2. /\ queue[a] # <<>> /\ queue[a] \in Seq(BOOLEAN) /\ handled[a] \in Nat
        /\ delivered[a] \in Nat
        /\ delivered[a] = handled[a] + Len(queue[a])
        /\ (a \notin Registered => delivered[a] = 0)
    BY <1>1, <2>1 DEF BackendTypes, IInv, AccountInv
  <2>3. /\ queue'[a] = Tail(queue[a]) /\ handled'[a] = handled[a] + 1
        /\ \A s \in Strategies \ {a} : queue'[s] = queue[s] /\ handled'[s] = handled[s]
    BY <1>1, <2>1, CountOne DEF BackendTypes
  <2>4. Len(queue[a]) \in Nat /\ Len(Tail(queue[a])) = Len(queue[a]) - 1
    BY <2>2, SMTT(60)
  <2>5. delivered'[a] = handled'[a] + Len(queue'[a]) /\ handled[a] <= handled'[a]
    <3>1. \A d, h, n \in Nat : d = h + n /\ n # 0 => d = (h + 1) + (n - 1) /\ h <= h + 1
      BY SMTT(60)
    <3>2. Len(queue[a]) # 0
      BY <2>2, SMTT(60)
    <3>3. /\ delivered[a] = (handled[a] + 1) + (Len(queue[a]) - 1)
          /\ handled[a] <= handled[a] + 1
      BY <2>2, <2>4, <3>1, <3>2
    <3> QED BY <2>1, <2>3, <2>4, <3>3
  <2>6. ASSUME NEW s \in Strategies
        PROVE  /\ delivered'[s] = handled'[s] + Len(queue'[s])
               /\ (s \notin Async => queue'[s] = <<>>)
               /\ (s \notin Registered' => delivered'[s] = 0)
               /\ (s \in Async /\ pc'[s] # "idle" => queue'[s] # <<>>)
    <3>1. CASE s = a
      BY <2>1, <2>2, <2>5, <3>1 DEF Respects
    <3>2. CASE s # a
      <4>1. s \in Async => (pc'[s] # "idle" => pc[s] # "idle")
        BY <3>2 DEF Moves, Actors
      <4> QED BY <2>1, <2>3, <3>2, <4>1 DEF IInv, AccountInv, Respects
    <3> QED BY <3>1, <3>2
  <2>7. AccountInv'
    BY <2>6 DEF AccountInv
  <2>8. \A s \in Strategies : delivered[s] <= delivered'[s] /\ handled[s] <= handled'[s]
    BY <1>1, <2>1, <2>3, <2>5, SMTT(60) DEF BackendTypes
  <2> QED BY <2>2, <2>3, <2>7, <2>8 DEF Ended
<1> QED BY <1>2, <1>3 DEF WorkerStep
-----------------------------------------------------------------------------
(* What shutdown() and wait() have established *)

Adding == \E b \in Actors : pc[b] = "add_publish"

\* What shutdown() has done is not undone, and what it does is enough.
LEMMA ShutdownInvKept ==
    ASSUME IInv, NEW a \in Actors, Moves(a), Respects(a),
           m_shutdown => m_shutdown',
           \A s \in Strategies : Ended(s) => Ended(s)',
           \A s \in Strategies : closed[s] => closed'[s],
           \A s \in Strategies : closed'[s] => m_shutdown',
           m_shutdown /\ ~Adding => ~Adding' /\ Registered' = Registered,
           pc'[a] \in {"shutdown_list", "shutdown", "closing"} => m_shutdown',
           pc'[a] \in {"shutdown", "closing"} =>
                ~Adding' /\ \A s \in Registered' \ Elements(todo'[a]) : Ended(s)',
           pc'[a] = "closing" => closed'[Head(todo'[a])],
           completed' => completed \/ (pc[a] = "shutdown" /\ todo[a] = <<>>)
    PROVE  ShutdownInv'
<1>1. Registered \subseteq Strategies
  BY SMTT(60) DEF Registered, IInv, TypeOK
<1>2. ASSUME NEW b \in Actors, b # a
      PROVE  /\ pc'[b] \in {"shutdown_list", "shutdown", "closing"} => m_shutdown'
             /\ pc'[b] \in {"shutdown", "closing"} =>
                  ~Adding' /\ \A s \in Registered' \ Elements(todo'[b]) : Ended(s)'
             /\ pc'[b] = "closing" => closed'[Head(todo'[b])]
  <2>1. pc'[b] = pc[b] /\ todo'[b] = todo[b]
    BY <1>2 DEF Moves
  <2>2. /\ pc[b] \in {"shutdown_list", "shutdown", "closing"} => m_shutdown
        /\ pc[b] \in {"shutdown", "closing"} =>
             ~Adding /\ \A s \in Registered \ Elements(todo[b]) : Ended(s)
        /\ pc[b] = "closing" => closed[Head(todo[b])]
    BY DEF IInv, ShutdownInv, Adding
  <2>3. pc[b] = "closing" => Head(todo[b]) \in Strategies
    <3>1. pc[b] = "closing" => todo[b] # <<>> /\ todo[b] \in Seq(Strategies)
      BY DEF IInv, ActorInv, ActorOk, HoldOk, TypeOK
    <3> QED BY <3>1, HeadAndRest
  <2> QED BY <1>1, <2>1, <2>2, <2>3
<1>3. completed' => m_shutdown' /\ ~Adding' /\ \A s \in Registered' : Ended(s)'
  <2>1. completed' => m_shutdown /\ ~Adding /\ \A s \in Registered : Ended(s)
    <3>1. completed => m_shutdown /\ ~Adding /\ \A s \in Registered : Ended(s)
      BY DEF IInv, ShutdownInv, Adding
    <3>2. ASSUME pc[a] = "shutdown", todo[a] = <<>>
          PROVE  m_shutdown /\ ~Adding /\ \A s \in Registered : Ended(s)
      <4>1. Elements(todo[a]) = {}
        BY <3>2, SMTT(60) DEF Elements
      <4>2. /\ m_shutdown /\ ~Adding
            /\ \A s \in Registered \ Elements(todo[a]) : Ended(s)
        BY <3>2 DEF IInv, ShutdownInv, Adding
      <4> QED BY <4>1, <4>2
    <3> QED BY <3>1, <3>2
  <2> QED BY <1>1, <2>1
<1>4. ASSUME NEW b \in Actors
      PROVE  /\ pc'[b] \in {"shutdown_list", "shutdown", "closing"} => m_shutdown'
             /\ pc'[b] \in {"shutdown", "closing"} =>
                  ~Adding' /\ \A s \in Registered' \ Elements(todo'[b]) : Ended(s)'
             /\ pc'[b] = "closing" => closed'[Head(todo'[b])]
  BY <1>2
<1> QED BY <1>3, <1>4 DEF ShutdownInv, Adding

\* A step of another call.
LEMMA NotAShutdownStep ==
    ASSUME IInv, NEW a \in Actors, Moves(a), Respects(a),
           m_shutdown' = m_shutdown, closed' = closed, completed' = completed,
           \A s \in Strategies : Ended(s) => queue'[s] = <<>>,
           pc'[a] \notin {"add_publish", "shutdown_list", "shutdown", "closing"},
           m_loggers' = m_loggers
    PROVE  ShutdownInv'
<1>1. \A s \in Strategies : Ended(s) => Ended(s)'
  BY DEF Ended
<1>2. ~Adding => ~Adding'
  BY DEF Adding, Moves
<1>3. Registered' = Registered
  BY DEF Registered
<1>4. \A s \in Strategies : closed[s] => m_shutdown
  BY DEF IInv, ShutdownInv
<1> QED BY <1>1, <1>2, <1>3, <1>4, ShutdownInvKept

\* The steps of shutdown() itself.
LEMMA ShutdownWorks ==
    ASSUME IInv, NEW a \in Actors, ShutdownStep(a), Moves(a), Respects(a)
    PROVE  ShutdownInv'
<1>1. /\ pc[a] \in {"shutdown_list", "shutdown", "closing"}
      /\ UNCHANGED <<m_loggers, writer, queue, m_shutdown>>
  BY ShutdownChanges DEF registryVars
<1>2. /\ todo[a] \in Seq(Strategies) /\ todo \in [Actors -> Seq(Strategies)]
      /\ m_loggers \in Seq(Strategies) /\ closed \in [Strategies -> BOOLEAN]
      /\ pc \in [Actors -> Locations]
  BY DEF IInv, TypeOK
<1>3. pc'[a] \in {"idle", "shutdown", "closing"}
  BY Destinations
<1>4. m_shutdown /\ m_shutdown'
  BY <1>1 DEF IInv, ShutdownInv
<1>5. Registered' = Registered /\ (~Adding => ~Adding')
  BY <1>1, <1>3 DEF Registered, Adding, Moves
<1>6. \A s \in Strategies : closed[s] => closed'[s]
  BY <1>2 DEF ShutdownStep, shutdown_list, shutdown_lock, shutdown_logger, shutdown_return,
     backendVars
<1>7. \A s \in Strategies : Ended(s) => Ended(s)'
  BY <1>1, <1>6 DEF Ended
<1>8. pc[a] \in {"shutdown", "closing"} =>
        ~Adding /\ \A s \in Registered \ Elements(todo[a]) : Ended(s)
  BY DEF IInv, ShutdownInv, Adding
<1>9. Registered \subseteq Strategies
  BY <1>2, SMTT(60) DEF Registered
<1>10. CASE shutdown_list(a)
  <2>1. writer = NoActor /\ pc'[a] = "shutdown" /\ todo'[a] = m_loggers /\ completed' = completed
    BY <1>2, <1>10 DEF shutdown_list, CanRead, GoTo, Visit, shutdownVars
  <2>2. ~Adding
    <3>1. \A b \in Actors : b # NoActor
      BY LoggerAssumption DEF Actors
    <3> QED BY <2>1, <3>1 DEF Adding, IInv, RegistryInv
  <2>3. Elements(todo'[a]) = Registered
    BY <2>1 DEF Elements, Registered
  <2> QED BY <1>4, <1>5, <1>6, <1>7, <2>1, <2>2, <2>3, ShutdownInvKept
<1>11. CASE shutdown_lock(a)
  <2>1. /\ pc[a] = "shutdown" /\ pc'[a] = "closing" /\ todo'[a] = todo[a] /\ todo[a] # <<>>
        /\ completed' = completed
        /\ closed' = [closed EXCEPT ![Head(todo[a])] = TRUE]
    BY <1>2, <1>11 DEF shutdown_lock, GoTo, shutdownVars
  <2>2. closed'[Head(todo'[a])]
    BY <1>2, <2>1, HeadAndRest
  <2>3. \A s \in Registered' \ Elements(todo'[a]) : Ended(s)'
    BY <1>5, <1>7, <1>8, <1>9, <2>1
  <2> QED BY <1>4, <1>5, <1>6, <1>7, <1>8, <2>1, <2>2, <2>3, ShutdownInvKept
<1>12. CASE shutdown_logger(a)
  <2>1. /\ pc[a] = "closing" /\ pc'[a] = "shutdown" /\ todo'[a] = Tail(todo[a])
        /\ queue[Head(todo[a])] = <<>> /\ completed' = completed
    BY <1>2, <1>12 DEF shutdown_logger, BackendIdle, GoTo, Visit, shutdownVars
  <2>2. todo[a] # <<>> /\ closed[Head(todo[a])]
    BY <2>1 DEF IInv, ActorInv, ActorOk, HoldOk, ShutdownInv
  <2>3. /\ Elements(todo[a]) = {Head(todo[a])} \cup Elements(todo'[a])
        /\ Head(todo[a]) \in Strategies
    BY <1>2, <2>1, <2>2, HeadAndRest
  <2>4. \A s \in Registered' \ Elements(todo'[a]) : Ended(s)'
    <3>1. Ended(Head(todo[a]))
      BY <2>1, <2>2 DEF Ended
    <3>2. \A s \in Registered \ Elements(todo'[a]) : Ended(s)
      BY <1>8, <2>1, <2>3, <3>1
    <3> QED BY <1>5, <1>7, <1>9, <3>2
  <2> QED BY <1>4, <1>5, <1>6, <1>7, <1>8, <2>1, <2>4, ShutdownInvKept
<1>13. CASE shutdown_return(a)
  <2>1. pc[a] = "shutdown" /\ todo[a] = <<>> /\ pc'[a] = "idle"
    BY <1>2, <1>13 DEF shutdown_return, GoTo
  <2> QED BY <1>4, <1>5, <1>6, <1>7, <2>1, ShutdownInvKept
<1> QED BY <1>10, <1>11, <1>12, <1>13 DEF ShutdownStep

\* add_logger(): none is added once m_shutdown is set.
LEMMA RegistryShutdown ==
    ASSUME IInv, NEW a \in Actors, RegistryStep(a), Moves(a), Respects(a)
    PROVE  ShutdownInv'
<1>1. /\ UNCHANGED <<m_shutdown, completed, closed, queue>>
      /\ m_loggers' # m_loggers => pc[a] = "add_publish"
  BY RegistryChanges DEF backendVars, shutdownVars, add_logger_publish
<1>2. pc'[a] \in {"idle", "add_publish", "leveling"} /\ (pc'[a] = "add_publish" => ~m_shutdown)
  BY Destinations
<1>3. ~Adding => m_loggers' = m_loggers
  BY <1>1 DEF Adding
<1>4. m_shutdown /\ ~Adding => ~Adding' /\ Registered' = Registered
  <2>1. m_shutdown /\ ~Adding => ~Adding'
    BY <1>2 DEF Adding, Moves
  <2> QED BY <1>3, <2>1 DEF Registered
<1>5. \A s \in Strategies : Ended(s) => Ended(s)'
  BY <1>1 DEF Ended
<1>6. \A s \in Strategies : closed[s] => m_shutdown
  BY DEF IInv, ShutdownInv
<1> QED BY <1>1, <1>2, <1>4, <1>5, <1>6, ShutdownInvKept

\* What wait() has seen to be handled stays handled.
LEMMA WaitInvKept ==
    ASSUME IInv, NEW a \in Actors, Moves(a), TypeOK', seen' = seen,
           \A s \in Strategies : delivered[s] <= delivered'[s] /\ handled[s] <= handled'[s],
           a \in Threads /\ pc'[a] = "wait" =>
                \A s \in Strategies \ Elements(todo'[a]) : seen[a][s] <= handled'[s]
    PROVE  WaitInv'
<1>1. \A k, m, n \in Nat : k <= m /\ m <= n => k <= n
  BY SMTT(60)
<1>2. ASSUME NEW t \in Threads, NEW s \in Strategies
      PROVE  /\ seen'[t][s] <= delivered'[s]
             /\ pc'[t] = "wait" /\ s \notin Elements(todo'[t]) => seen'[t][s] <= handled'[s]
  <2>1. /\ seen[t][s] \in Nat /\ delivered[s] \in Nat /\ handled[s] \in Nat
        /\ delivered'[s] \in Nat /\ handled'[s] \in Nat
    BY SMTT(60) DEF IInv, TypeOK
  <2>2. /\ seen[t][s] <= delivered[s]
        /\ pc[t] = "wait" /\ s \notin Elements(todo[t]) => seen[t][s] <= handled[s]
    BY DEF IInv, WaitInv
  <2>3. seen'[t][s] <= delivered'[s]
    BY <1>1, <2>1, <2>2
  <2>4. ASSUME pc'[t] = "wait", s \notin Elements(todo'[t]) PROVE seen'[t][s] <= handled'[s]
    <3>1. CASE t = a
      BY <2>4, <3>1
    <3>2. CASE t # a
      <4>1. pc'[t] = pc[t] /\ todo'[t] = todo[t]
        BY <3>2 DEF Moves, Actors
      <4> QED BY <1>1, <2>1, <2>2, <2>4, <4>1
    <3> QED BY <3>1, <3>2
  <2> QED BY <2>3, <2>4
<1> QED BY <1>2 DEF WaitInv

\* The steps of wait() itself.
LEMMA WaitWorks ==
    ASSUME IInv, NEW a \in Actors, WaitStep(a), Moves(a), TypeOK'
    PROVE  WaitInv'
<1>1. UNCHANGED <<delivered, handled, seen>>
  BY WaitChanges DEF backendVars
<1>2. \A s \in Strategies : delivered[s] \in Nat /\ handled[s] \in Nat
  BY DEF IInv, TypeOK
<1>3. \A s \in Strategies : delivered[s] <= delivered'[s] /\ handled[s] <= handled'[s]
  BY <1>1, <1>2, SMTT(60)
<1>4. /\ todo \in [Actors -> Seq(Strategies)] /\ pc \in [Actors -> Locations]
      /\ m_loggers \in Seq(Strategies)
  BY DEF IInv, TypeOK
<1>5. ASSUME a \in Threads, NEW s \in Strategies \ Elements(todo'[a]), pc'[a] = "wait"
      PROVE  seen[a][s] <= handled[s]
  <2>1. /\ seen[a][s] \in Nat /\ seen[a][s] <= delivered[s]
        /\ pc[a] = "wait" /\ s \notin Elements(todo[a]) => seen[a][s] <= handled[s]
    BY <1>5, SMTT(60) DEF IInv, WaitInv, TypeOK
  <2>2. CASE wait_list(a)
    <3>1. Elements(todo'[a]) = Registered
      BY <1>4, <2>2 DEF wait_list, Visit, LoggersToWait, Elements, Registered
    <3>2. delivered[s] = 0 /\ delivered[s] = handled[s] + Len(queue[s]) /\ Len(queue[s]) \in Nat
      BY <1>5, <3>1, SMTT(60) DEF IInv, AccountInv, TypeOK
    <3> QED BY <1>2, <2>1, <3>2, SMTT(60)
  <2>3. CASE wait_each(a)
    <3>1. /\ pc[a] = "wait" /\ todo[a] # <<>> /\ queue[Head(todo[a])] = <<>>
          /\ todo'[a] = Tail(todo[a])
      BY <1>4, <2>3 DEF wait_each, BackendIdle, Visit
    <3>2. Elements(todo[a]) = {Head(todo[a])} \cup Elements(todo'[a])
      BY <1>4, <3>1, HeadAndRest
    <3>3. CASE s \notin Elements(todo[a])
      BY <2>1, <3>1, <3>3
    <3>4. CASE s \in Elements(todo[a])
      <4>1. queue[s] = <<>>
        BY <1>5, <3>1, <3>2, <3>4
      <4>2. delivered[s] = handled[s] + Len(queue[s])
        BY <1>5 DEF IInv, AccountInv
      <4>3. delivered[s] = handled[s]
        BY <1>2, <4>1, <4>2, SMTT(60)
      <4> QED BY <2>1, <4>3
    <3> QED BY <3>3, <3>4
  <2>4. CASE wait_return(a)
    <3>1. pc'[a] = "idle"
      BY <1>4, <2>4 DEF wait_return, GoTo
    <3> QED BY <1>5, <3>1
  <2> QED BY <2>2, <2>3, <2>4 DEF WaitStep
<1> QED BY <1>1, <1>3, <1>5, WaitInvKept
-----------------------------------------------------------------------------
(* The theorems *)

\* A client calls.
LEMMA BeginKeeps ==
    ASSUME IInv, NEW a \in Threads, Begin(a), ActorInv', TypeOK'
    PROVE  RegistryInv' /\ ShutdownInv' /\ AccountInv' /\ WaitInv'
<1>1. /\ a \in Actors /\ a \notin Async
  BY LoggerAssumption DEF Actors
<1>2. Moves(a) /\ Respects(a)
  BY BeginActors
<1>3. UNCHANGED <<m_loggers, writer, queue, closed, delivered, handled, todo, completed>>
  BY Beginnings DEF registryVars, backendVars
<1>4. /\ pc'[a] \in {"idle", "log", "add_lock", "set_flag", "set_level", "wait_list",
                     "clear_list", "shutdown_list"}
      /\ pc'[a] = "shutdown_list" => m_shutdown'
  <2>1. PICK l \in {"idle", "log", "add_lock", "set_flag", "set_level", "wait_list",
                    "clear_list", "shutdown_list"} :
            pc' = [pc EXCEPT ![a] = l] /\ (l = "shutdown_list" => m_shutdown')
    BY Beginnings
  <2>2. pc'[a] = l
    BY <1>1, <2>1 DEF IInv, TypeOK
  <2> QED BY <2>1, <2>2
<1>5. m_shutdown' \in {m_shutdown, TRUE} /\ seen' \in {seen, [seen EXCEPT ![a] = delivered]}
  BY Beginnings
<1>6. RegistryInv'
  BY <1>1, <1>2, <1>3, <1>4, RegistryInvKept
<1>7. AccountInv'
  BY <1>1, <1>2, <1>3, NotABackendStep
<1>8. ShutdownInv'
  <2>1. \A s \in Strategies : Ended(s) => Ended(s)'
    BY <1>3 DEF Ended
  <2>2. Registered' = Registered /\ (~Adding => ~Adding')
    BY <1>2, <1>3, <1>4 DEF Registered, Adding, Moves
  <2>3. \A s \in Strategies : closed[s] => m_shutdown
    BY DEF IInv, ShutdownInv
  <2>4. m_shutdown => m_shutdown'
    BY <1>5
  <2>5. \A s \in Strategies : closed'[s] => m_shutdown'
    BY <1>3, <2>3, <2>4
  <2> QED BY <1>1, <1>2, <1>3, <1>4, <2>1, <2>2, <2>4, <2>5, ShutdownInvKept
<1>9. WaitInv'
  <2>1. \A s \in Strategies : delivered[s] \in Nat /\ handled[s] \in Nat
    BY DEF IInv, TypeOK
  <2>2. CASE seen' = seen
    BY <1>1, <1>2, <1>3, <1>4, <2>1, <2>2, WaitInvKept, SMTT(60)
  <2>3. CASE seen' = [seen EXCEPT ![a] = delivered]
    <3>1. seen'[a] = delivered /\ \A t \in Threads \ {a} : seen'[t] = seen[t]
      BY <2>3 DEF IInv, TypeOK
    <3>2. \A t \in Threads \ {a} : pc'[t] = pc[t] /\ todo'[t] = todo[t]
      BY <1>2 DEF Moves, Actors
    <3> QED BY <1>3, <1>4, <2>1, <3>1, <3>2, SMTT(60) DEF IInv, WaitInv
  <2> QED BY <1>5, <2>2, <2>3
<1> QED BY <1>6, <1>7, <1>8, <1>9

\* add_logger() and the setters.
LEMMA RegistryKeeps ==
    ASSUME IInv, NEW a \in Actors, RegistryStep(a), TypeOK'
    PROVE  RegistryInv' /\ ShutdownInv' /\ AccountInv' /\ WaitInv'
<1>1. Moves(a) /\ Respects(a)
  BY RegistryActors
<1>2. /\ UNCHANGED <<queue, delivered, handled, seen>>
      /\ pc[a] \in {"add_lock", "add_publish", "set_flag", "set_level", "leveling"}
  BY RegistryChanges DEF backendVars
<1>3. a \notin Async
  BY <1>2, ClientStep DEF LogLocations
<1>4. RegistryInv' /\ ShutdownInv' /\ AccountInv'
  BY <1>1, <1>2, <1>3, RegistryInvKept, RegistryShutdown, NotABackendStep
<1>5. pc'[a] # "wait"
  BY Destinations
<1>6. \A s \in Strategies : delivered[s] \in Nat /\ handled[s] \in Nat
  BY DEF IInv, TypeOK
<1> QED BY <1>1, <1>2, <1>4, <1>5, <1>6, WaitInvKept, SMTT(60)

\* wait(), clear_logger(), clear_all_loggers() and shutdown().
LEMMA ClientKeeps ==
    ASSUME IInv, NEW a \in Actors, WaitStep(a) \/ ClearStep(a) \/ ShutdownStep(a), TypeOK'
    PROVE  RegistryInv' /\ ShutdownInv' /\ AccountInv' /\ WaitInv'
<1>1. Moves(a) /\ Respects(a)
  BY WaitActors, ClearActors, ShutdownActors
<1>2. /\ UNCHANGED <<m_loggers, writer, queue, delivered, handled, seen, m_shutdown>>
      /\ pc[a] \in {"wait_list", "wait", "clear_list", "clear", "clearing", "shutdown_list",
                    "shutdown", "closing"}
  BY WaitChanges, ClearChanges, ShutdownChanges DEF registryVars, backendVars, shutdownVars
<1>3. a \notin Async
  BY <1>2, ClientStep DEF LogLocations
<1>4. /\ pc'[a] \in {"idle", "wait", "clear", "clearing", "shutdown", "closing"}
      /\ pc'[a] = "wait" => WaitStep(a)
      /\ pc'[a] \in {"shutdown", "closing"} => ShutdownStep(a)
  BY Destinations
<1>5. RegistryInv' /\ AccountInv'
  BY <1>1, <1>2, <1>3, <1>4, RegistryInvKept, NotABackendStep
<1>6. ShutdownInv'
  <2>1. CASE ShutdownStep(a)
    BY <1>1, <2>1, ShutdownWorks
  <2>2. CASE ~ShutdownStep(a)
    <3>1. UNCHANGED <<closed, completed>>
      BY <2>2, WaitChanges, ClearChanges DEF backendVars, shutdownVars
    <3> QED BY <1>1, <1>2, <1>4, <2>2, <3>1, NotAShutdownStep DEF Ended
  <2> QED BY <2>1, <2>2
<1>7. WaitInv'
  <2>1. CASE WaitStep(a)
    BY <1>1, <2>1, WaitWorks
  <2>2. CASE ~WaitStep(a)
    <3>1. \A s \in Strategies : delivered[s] \in Nat /\ handled[s] \in Nat
      BY DEF IInv, TypeOK
    <3> QED BY <1>1, <1>2, <1>4, <2>2, <3>1, WaitInvKept, SMTT(60)
  <2> QED BY <2>1, <2>2
<1> QED BY <1>5, <1>6, <1>7

\* log() and the workers.
LEMMA LogKeeps ==
    ASSUME IInv, NEW a \in Actors, LogStep(a) \/ (a \in Async /\ WorkerStep(a)), TypeOK'
    PROVE  RegistryInv' /\ ShutdownInv' /\ AccountInv' /\ WaitInv'
<1>1. Moves(a) /\ Respects(a)
  BY LogActors, WorkerActors
<1>2. UNCHANGED <<m_loggers, writer, closed, m_shutdown, completed, seen>>
  BY LogChanges, WorkerChanges DEF registryVars, shutdownVars
<1>3. pc'[a] \in {"idle", "task_done"} \cup LogLocations
  BY Destinations DEF LogLocations
<1>4. /\ AccountInv'
      /\ \A s \in Strategies : delivered[s] <= delivered'[s] /\ handled[s] <= handled'[s]
      /\ \A s \in Strategies : Ended(s) => queue'[s] = <<>>
  <2>1. CASE deliver(a)
    BY <1>1, <2>1, DeliverAccount
  <2>2. CASE LogStep(a) /\ ~deliver(a)
    <3>1. UNCHANGED <<queue, delivered, handled>>
      BY <2>2 DEF LogStep, log_snapshot, dispatch, check, leave, log_return, backendVars
    <3>2. pc[a] # "idle"
      BY <2>2, LogChanges DEF LogLocations
    <3>3. \A s \in Strategies : delivered[s] \in Nat /\ handled[s] \in Nat
      BY DEF IInv, TypeOK
    <3> QED BY <1>1, <3>1, <3>2, <3>3, NotABackendStep, SMTT(60) DEF Ended
  <2>3. CASE a \in Async /\ WorkerStep(a)
    BY <1>1, <2>3, WorkerAccount
  <2> QED BY <2>1, <2>2, <2>3
<1>5. RegistryInv' /\ ShutdownInv' /\ WaitInv'
  BY <1>1, <1>2, <1>3, <1>4, RegistryInvKept, NotAShutdownStep, WaitInvKept DEF LogLocations
<1> QED BY <1>4, <1>5

\* Every step keeps the invariant.
LEMMA IInvKept ==
    ASSUME IInv, [Next]_vars
    PROVE  IInv'
<1>1. CASE Next
  <2>1. ActorInv'
    <3>1. ASSUME NEW a \in Threads, Begin(a) PROVE ActorInv'
      <4>1. a \in Actors
        BY DEF Actors
      <4> QED BY <3>1, <4>1, BeginActors, ActorInvKept
    <3>2. ASSUME NEW a \in Actors,
                 RegistryStep(a) \/ WaitStep(a) \/ ClearStep(a) \/ ShutdownStep(a) \/ LogStep(a)
          PROVE  ActorInv'
      BY <3>2, RegistryActors, WaitActors, ClearActors, ShutdownActors, LogActors, ActorInvKept
    <3>3. ASSUME NEW a \in Async, WorkerStep(a) PROVE ActorInv'
      <4>1. a \in Actors
        BY DEF Actors
      <4> QED BY <3>3, <4>1, WorkerActors, ActorInvKept
    <3> QED BY <1>1, <3>1, <3>2, <3>3, Steps
  <2>2. TypeOK'
    BY <1>1, <2>1, TypesKept
  <2>3. RegistryInv' /\ ShutdownInv' /\ AccountInv' /\ WaitInv'
    <3>1. \A a \in Async : a \in Actors
      BY DEF Actors
    <3> QED BY <1>1, <2>1, <2>2, <3>1, Steps, BeginKeeps, RegistryKeeps, ClientKeeps, LogKeeps
  <2> QED BY <2>1, <2>2, <2>3 DEF IInv
<1>2. CASE UNCHANGED vars
  <2>1. UNCHANGED <<m_loggers, m_loggers_snapshot, writer, readers, enabled, single_mode, log_level,
                    queue, closed, delivered, handled, m_shutdown, completed, pc, todo, frames,
                    calls, seen, exec_mx>>
    BY <1>2 DEF vars, registryVars, flagVars, backendVars, shutdownVars, actorVars
  <2>2. TypeOK' /\ RegistryInv'
    BY <2>1 DEF IInv, TypeOK, RegistryInv
  <2>3. Registered' = Registered /\ \A s \in Strategies : Ended(s)' = Ended(s)
    BY <2>1 DEF Registered, Ended
  <2>4. ActorInv'
    <3> SUFFICES ASSUME NEW a \in Actors PROVE ActorOk(a)'
      BY DEF ActorInv
    <3>1. ActorOk(a)
      BY DEF IInv, ActorInv
    <3>2. At(a)' = At(a) /\ \A i \in Nat : Stop(a, i)' = Stop(a, i)
      BY <2>1 DEF At, Stop
    <3>3. LocalOk(a)'
      BY <2>1, <2>3, <3>1, <3>2 DEF ActorOk, LocalOk
    <3>4. FrameOk(a)'
      BY <2>1, <2>3, <3>1, <3>2 DEF ActorOk, FrameOk
    <3>5. HoldOk(a)'
      BY <2>1, <3>1, <3>2 DEF ActorOk, HoldOk, At, Stop
    <3>6. UseOk(a)'
      BY <2>1, <3>1, <3>2 DEF ActorOk, UseOk, At, Stop
    <3> QED BY <3>3, <3>4, <3>5, <3>6 DEF ActorOk
  <2>5. ShutdownInv'
    BY <2>1, <2>3 DEF IInv, ShutdownInv, Ended
  <2>6. AccountInv' /\ WaitInv'
    BY <2>1, <2>3 DEF IInv, AccountInv, WaitInv
  <2> QED BY <2>2, <2>4, <2>5, <2>6 DEF IInv
<1> QED BY <1>1, <1>2

\* An empty registry and no call under way.
LEMMA InitIInv == Init => IInv
<1> SUFFICES ASSUME Init PROVE IInv
  OBVIOUS
<1>1. /\ pc = [a \in Actors |-> "idle"] /\ todo = [a \in Actors |-> <<>>]
      /\ frames = [a \in Actors |-> <<>>] /\ m_loggers = <<>> /\ m_loggers_snapshot = <<>>
      /\ queue = [s \in Strategies |-> <<>>] /\ closed = [s \in Strategies |-> FALSE]
      /\ delivered = [s \in Strategies |-> 0] /\ handled = [s \in Strategies |-> 0]
      /\ seen = [t \in Threads |-> [s \in Strategies |-> 0]] /\ completed = FALSE
  BY DEF Init
<1>2. ActorInv
  BY <1>1, SMTT(60) DEF ActorInv, ActorOk, LocalOk, FrameOk, HoldOk, UseOk, At, LogLocations,
     ListLocations
<1>3. TypeOK
  <2>1. RegistryTypes /\ FlagTypes
    BY LoggerAssumption, SMTT(60) DEF Init, RegistryTypes, FlagTypes
  <2>2. BackendTypes /\ CallTypes
    <3>1. 0 \in 0..MaxCalls /\ <<>> \in Seq(BOOLEAN)
      BY LoggerAssumption, SMTT(60)
    <3> QED BY <3>1 DEF Init, BackendTypes, CallTypes
  <2>3. ActorTypes
    <3>1. "idle" \in Locations /\ <<>> \in Seq(Strategies) /\ <<>> \in Seq(Frames)
      BY SMTT(60) DEF Locations
    <3> QED BY <3>1 DEF Init, ActorTypes
  <2> QED BY <1>2, <2>1, <2>2, <2>3, TypeParts
<1>4. RegistryInv /\ ShutdownInv
  BY <1>1 DEF RegistryInv, ShutdownInv
<1>5. AccountInv
  <2>1. Len(<<>>) = 0 /\ 0 = 0 + 0
    BY SMTT(60)
  <2>2. \A s \in Strategies : /\ delivered[s] = 0 /\ handled[s] = 0 /\ queue[s] = <<>>
                              /\ (s \in Async => pc[s] = "idle")
    BY <1>1 DEF Actors
  <2> QED BY <2>1, <2>2 DEF AccountInv
<1>6. WaitInv
  BY <1>1, SMTT(60) DEF WaitInv, Actors
<1> QED BY <1>2, <1>3, <1>4, <1>5, <1>6 DEF IInv

\* The inductive invariant of the registry: who holds which lock, what was
\* looked at under it, and what shutdown() and wait() have seen so far.
THEOREM Invariance == Spec => []IInv
<1>1. Init => IInv
  BY InitIInv
<1>2. IInv /\ [Next]_vars => IInv'
  BY IInvKept
<1> QED BY <1>1, <1>2, PTL DEF Spec

\* A backend without concurrent dispatch is used by one thread at a time and
\* not at all after its shutdown() has begun; and when Logger::shutdown()
\* returns, every registered logger is shut down and has handled all it was
\* given, whatever add_logger() runs beside it.
THEOREM SafetyHolds == Spec => []Safety
<1>1. IInv => Safety
  <2> SUFFICES ASSUME IInv PROVE Safety
    OBVIOUS
  <2>1. ASSUME NEW a \in Actors, NEW s \in Inside(a), s \notin Concurrent
        PROVE  ~closed[s] /\ exec_mx[s] = a
    <3>1. CASE pc[a] = "deliver"
      <4>1. s = Stop(a, 1) /\ 1 \in At(a)
        BY <2>1, <3>1, Innermost DEF Inside, Stop
      <4> QED BY <2>1, <3>1, <4>1 DEF IInv, ActorInv, ActorOk, HoldOk, UseOk
    <3>2. CASE pc[a] = "clearing"
      <4>1. s = Head(todo[a])
        BY <2>1, <3>2 DEF Inside
      <4> QED BY <3>2, <4>1 DEF IInv, ActorInv, ActorOk, HoldOk, UseOk
    <3> QED BY <2>1, <3>1, <3>2 DEF Inside
  <2>2. BackendExclusive
    BY <2>1 DEF BackendExclusive
  <2>3. EveryLoggerShutDown
    <3>1. ASSUME completed, NEW s \in Registered
          PROVE  closed[s] /\ handled[s] = delivered[s]
      <4>1. closed[s] /\ queue[s] = <<>> /\ s \in Strategies
        BY <3>1, SMTT(60) DEF IInv, ShutdownInv, Ended, TypeOK, Registered
      <4>2. delivered[s] = handled[s] + Len(queue[s]) /\ handled[s] \in Nat
        BY <4>1 DEF IInv, AccountInv, TypeOK
      <4> QED BY <4>1, <4>2, SMTT(60)
    <3> QED BY <3>1 DEF EveryLoggerShutDown
  <2> QED BY <2>2, <2>3 DEF IInv, Safety
<1> QED BY <1>1, Invariance, PTL

\* Logger::wait() returns only when every record a backend had been given
\* before the call has been handled.
THEOREM WaitKeepsItsPromise == Spec => WaitContract
<1>1. IInv /\ [Next]_vars =>
        [\A t \in WaitCallers :
            wait_return(t) => \A s \in Strategies : handled[s] >= seen[t][s]]_vars
  <2> SUFFICES ASSUME IInv, NEW t \in WaitCallers, wait_return(t), NEW s \in Strategies
               PROVE  handled[s] >= seen[t][s]
    OBVIOUS
  <2>1. t \in Threads /\ pc[t] = "wait" /\ todo[t] = <<>>
    BY LoggerAssumption DEF wait_return
  <2>2. s \notin Elements(todo[t])
    BY <2>1, SMTT(60) DEF Elements
  <2>3. seen[t][s] <= handled[s] /\ seen[t][s] \in Nat /\ handled[s] \in Nat
    BY <2>1, <2>2, SMTT(60) DEF IInv, WaitInv, TypeOK
  <2> QED BY <2>3
<1> QED BY <1>1, Invariance, PTL DEF Spec, WaitContract
=============================================================================
