-------------------------- MODULE AsyncBackendsInv --------------------------
(***************************************************************************)
(* The inductive invariant of the backends on an executor (IInv), and the  *)
(* vocabulary of its proof.                                                *)
(*                                                                         *)
(* Every record has one place: in the hands of its log() call, in a queue, *)
(* under the worker, or settled (PlaceInv), and the places of one thread's *)
(* records are in the order of its calls (OrderInv).  Who may move a       *)
(* record is what LockInv, HomeInv and QuietInv say of the calls;          *)
(* CountInv, that the two counters of the logger count calls.              *)
(***************************************************************************)
EXTENDS AsyncBackends
-----------------------------------------------------------------------------
(* The types *)

Locations ==
    {"idle", "add", "enqueue", "finish", "pending", "wait", "clearwait", "clear", "get", "drain",
     "configure", "retire", "join", "quiesce", "stop", "down"}

Executors == 0..MaxCalls + 1
Policies == {"Block", "DropNewest", "DropOldest"}

Fields ==
    [config : Config, executor : Executors, made : Nat, shutdown : BOOLEAN,
     lifecycle : Threads \cup {None}, pending : Int, level : Nat,
     hsrc : BOOLEAN]

LoggerTypes ==
    /\ kind \in Kinds
    /\ lg \in Fields
    /\ Resting.config \in Config

ExecutorTypes ==
    exec \in [Executors -> [q : Seq(Nat), run : Nat, stop : BOOLEAN, cap : Nat, policy : Policies]]

Locals ==
    [pc : Locations, r : Nat, e : Executors \cup {Sync}, seen : SUBSET Nat, config : Config]

ThreadTypes == th \in [Threads -> Locals]

InfoTypes == info \in [Threads -> [pending_logs : Int, last : Int]]

History ==
    [calls : Nat, by : Seq(Threads), level : Seq(Nat), written : Seq(Nat),
     dropped : SUBSET Nat, filtered : SUBSET Nat, files : SUBSET Nat, faults : Nat,
     configs : Nat, clears : Nat, down : BOOLEAN]

HistoryTypes == h \in History

Types == LoggerTypes /\ ExecutorTypes /\ ThreadTypes /\ InfoTypes /\ HistoryTypes
-----------------------------------------------------------------------------
(* The records *)

Elements(list) == {list[i] : i \in DOMAIN list}
Distinct(list) == \A i, j \in DOMAIN list : list[i] = list[j] => i = j

\* The records of one author are in increasing order: those of a list, and
\* those of one set before those of another.
Ordered(list, by) ==
    \A i, j \in DOMAIN list : i < j /\ by[list[i]] = by[list[j]] => list[i] < list[j]
Before(S, T, by) == \A x \in S : \A y \in T : by[x] = by[y] => x < y

Live(e) == Elements(exec[e].q) \cup ({exec[e].run} \ {0})
Written == Elements(h.written)
At(S) == {t \in Threads : th[t].pc \in S}

\* A call that has a record in its hands.
Holders == At({"add", "enqueue"})

\* A record that is held is the last of its thread and nowhere else.
HolderOk(t) ==
    /\ th[t].r \in Ids /\ h.by[th[t].r] = t
    /\ \A r \in Ids : h.by[r] = t => r <= th[t].r
    /\ th[t].r \notin Written
    /\ \A e \in Executors : th[t].r \notin Live(e)

\* The places of an executor.
ExecutorOk(e) ==
    /\ Live(e) \subseteq Ids /\ exec[e].run \notin Elements(exec[e].q)
    /\ Distinct(exec[e].q)
    /\ Live(e) \cap Written = {}

\* Every record has a place, and never two.
PlaceInv ==
    /\ Written \subseteq Ids
    /\ Distinct(h.written)
    /\ \A e \in Executors : ExecutorOk(e)
    /\ \A e, f \in Executors : e # f => Live(e) \cap Live(f) = {}
    /\ \A t \in Holders : HolderOk(t)
    /\ \A r \in Ids : \/ \E t \in Holders : th[t].r = r
                      \/ \E e \in Executors : r \in Live(e)
                      \/ r \in Settled

\* The order of a thread's records, from the oldest place to the newest.
OrderInv ==
    Draining =>
        /\ Ordered(h.written, h.by)
        /\ \A e \in Executors :
            /\ Before(Written, Live(e), h.by)
            /\ exec[e].run # 0 => Before({exec[e].run}, Elements(exec[e].q), h.by)
            /\ Ordered(exec[e].q, h.by)
-----------------------------------------------------------------------------
(* The calls *)

Locked == kind \in {"file", "unique", "debug"}

\* Who holds the lifecycle mutex, and which calls a class has.
LockOk(t) ==
    /\ th[t].pc \in {"add", "drain", "clearwait"} => lg.lifecycle = t /\ kind # "console"
    /\ th[t].pc = "wait" /\ Locked => lg.lifecycle = t
    /\ th[t].pc \in {"enqueue", "finish", "pending", "configure", "quiesce"} => kind = "console"
    /\ th[t].pc \in {"drain", "clearwait"} => Locked
    /\ th[t].pc = "add" => lg.config.async
    /\ th[t].pc = "enqueue" => th[t].e # Sync
    /\ th[t].pc \in {"add", "drain"} => ~lg.shutdown
    /\ th[t].pc \in {"quiesce", "stop", "down"} => lg.shutdown
    /\ th[t].pc \in {"drain", "configure"} => h.configs > 0

LockInv == \A t \in Threads : LockOk(t)

\* lg.pending and lg.made are counts.
CountInv ==
    /\ lg.pending = Cardinality(At({"enqueue", "finish"}))
    /\ lg.made + Cardinality(At({"drain", "configure"})) <= h.configs + 1

BoundInv == h.configs <= h.calls /\ h.calls <= MaxCalls /\ lg.made >= 1 /\ lg.executor <= lg.made

\* The one executor with work, of a logger that drains.
Home == IF kind = "console" THEN IF lg.config.async /\ lg.config.own THEN 1 ELSE 0
                            ELSE lg.executor

AllIdle == \A e \in Executors : Idle(e)

\* Where a call of a logger that drains looks for its records.
TargetOk(t) ==
    /\ th[t].pc = "enqueue" => th[t].e = Home /\ lg.config.async
    /\ th[t].pc = "quiesce" => lg.executor = Home
    /\ th[t].pc = "drain" => th[t].e = WaitTarget
    /\ th[t].pc \in {"wait", "clearwait"} /\ (kind = "console" => ~lg.shutdown) =>
         th[t].e = WaitTarget
    /\ th[t].pc \in {"stop", "down"} => th[t].e = IF lg.config.async THEN Home ELSE Sync

HomeInv ==
    Draining =>
        /\ \A e \in Executors : Idle(e) \/ e = Home
        /\ ~lg.config.async \/ h.down => AllIdle
        /\ lg.shutdown \/ lg.executor = Home
        /\ \A t \in Threads : TargetOk(t)

\* One call does the work of shutdown(); once it has got past the calls that
\* were enqueuing, there are none.
QuietInv ==
    /\ \A t, u \in At({"quiesce", "stop", "down"}) : t = u
    /\ h.down \/ At({"stop", "down"}) # {} =>
         lg.shutdown /\ At({"add", "enqueue", "finish"}) = {}

\* What a waiter saw is in an executor or settled.
Placed(r) == r \in Settled \/ \E e \in Executors : r \in Live(e)

SeenOk(t) ==
    th[t].pc \in {"pending", "wait", "clearwait"} => \A r \in th[t].seen : r \in Ids /\ Placed(r)

SeenInv == \A t \in Threads : SeenOk(t)
-----------------------------------------------------------------------------
(* The invariant *)

\* The invariant: what it says of the places and calls, and the counts.
CallInv ==
    /\ Types /\ PlaceInv /\ OrderInv /\ LockInv /\ BoundInv /\ HomeInv /\ QuietInv /\ SeenInv

IInv == CallInv /\ CountInv

\* Where the calls are that the counts count, and those of shutdown().
Enqueuing == {"enqueue", "finish"}
Configuring == {"drain", "configure"}
Stopping == {"quiesce", "stop", "down"}
-----------------------------------------------------------------------------
(* What the lemmas say of a state *)

\* What the types say of the lists of records.
QueuesTyped ==
    /\ \A e \in Executors : exec[e].q \in Seq(Nat) /\ exec[e].run \in Nat
    /\ h.written \in Seq(Nat) /\ h.by \in Seq(Threads) /\ Len(h.by) \in Nat
    /\ h.dropped \subseteq Nat /\ h.filtered \subseteq Nat
    /\ Ids \subseteq Nat /\ 0 \notin Ids /\ DOMAIN h.by = Ids

\* What the types say of the numbers.
NumbersTyped ==
    /\ lg.pending \in Int /\ lg.made \in Nat /\ lg.executor \in Nat
    /\ lg.executor \in Executors
    /\ h.configs \in Nat /\ h.calls \in Nat /\ MaxCalls \in Nat

\* The front of a list and the rest of it.
Splits(list) ==
    /\ Tail(list) \in Seq(Nat) /\ Head(list) \in Nat
    /\ Elements(list) = {Head(list)} \cup Elements(Tail(list))
    /\ Distinct(list) => Distinct(Tail(list)) /\ Head(list) \notin Elements(Tail(list))
    /\ \A by : Ordered(list, by) =>
         Ordered(Tail(list), by) /\ Before({Head(list)}, Elements(Tail(list)), by)

\* A list with x added at its end.
Grows(list, x) ==
    /\ Append(list, x) \in Seq(Nat) /\ Append(list, x) # <<>>
    /\ Elements(Append(list, x)) = Elements(list) \cup {x}
    /\ Distinct(list) /\ x \notin Elements(list) => Distinct(Append(list, x))
    /\ \A by : Ordered(list, by) /\ Before(Elements(list), {x}, by) =>
         Ordered(Append(list, x), by)
-----------------------------------------------------------------------------
(* What a step does to the records *)

SameQueue(e) == exec'[e].q = exec[e].q /\ exec'[e].run = exec[e].run
SameFates == h'.written = h.written /\ h'.dropped = h.dropped /\ h'.filtered = h.filtered

\* Who holds a record after the step, besides the threads S.
HoldersLeft(S) == Holders' \ S = Holders \ S /\ \A u \in Holders \ S : th'[u].r = th[u].r

RecordInv == Types /\ PlaceInv /\ OrderInv
KeepsPlaces == \A r \in Ids : Placed(r) => Placed(r)'

\* log() has a record that is nowhere else yet, the last one of its thread.
Arrives(t, r) ==
    /\ r \in Nat /\ r # 0 /\ Ids' = Ids \cup {r}
    /\ \A x \in Ids : h'.by[x] = h.by[x]
    /\ h'.by[r] = t /\ \A x \in Ids : h'.by[x] = t => x <= r
    /\ r \notin Written /\ \A e \in Executors : r \notin Live(e)
    /\ t \in Holders => th[t].r = r

\* The records that the other calls hold.
OthersHold(t, r) ==
    \A u \in Holders \ {t} :
      /\ u \in Holders' /\ th'[u].r = th[u].r /\ th[u].r \in Ids /\ th[u].r # r
      /\ h'.by[th[u].r] = u /\ \A x \in Ids' : h'.by[x] = u => x <= th[u].r
      /\ th[u].r \notin Written /\ \A e \in Executors : th[u].r \notin Live(e)

\* Record r of thread t gets one place, and the others keep theirs.
ArrivesOnce(t, r) ==
    /\ HoldersLeft({t})
    /\ t \in Holders' => /\ th'[t].r = r /\ r \notin Written'
                         /\ \A e \in Executors : r \notin Live(e)'
    /\ Written' \subseteq Written \cup {r}
    /\ Distinct(h'.written)
    /\ \A e \in Executors : /\ Live(e)' \subseteq Live(e) \cup {r}
                            /\ exec'[e].run \notin Elements(exec'[e].q)
                            /\ Distinct(exec'[e].q)
                            /\ r \in Live(e)' => r \notin Written'
    /\ \A e, f \in Executors : r \in Live(e)' /\ r \in Live(f)' => e = f
    /\ KeepsPlaces
    /\ t \in Holders' \/ Placed(r)'

\* Record r comes last in the order of its author.
ArrivesLast(r) ==
    /\ Ordered(h.written, h'.by)
    /\ \A e \in Executors :
         /\ Before(Written, Live(e), h'.by) /\ Ordered(exec[e].q, h'.by)
         /\ exec[e].run # 0 => Before({exec[e].run}, Elements(exec[e].q), h'.by)
         /\ Before(Live(e), {r}, h'.by)
    /\ Before(Written, {r}, h'.by)

\* What add_task() does to executor e.
Adds(e, r) ==
    /\ h'.written = h.written /\ h'.filtered = h.filtered
    /\ \A f \in Executors \ {e} : SameQueue(f)
    /\ exec'[e].run = exec[e].run
    /\ \/ exec'[e].q = exec[e].q /\ h'.dropped = h.dropped \cup {r}
       \/ /\ exec[e].q # <<>> /\ exec'[e].q = Append(Tail(exec[e].q), r)
          /\ h'.dropped = h.dropped \cup {Head(exec[e].q)}
       \/ exec'[e].q = Append(exec[e].q, r) /\ h'.dropped = h.dropped

\* The queue of executor e once record r is added.
QueueGrew(e, r) ==
    /\ Elements(exec'[e].q) \subseteq Elements(exec[e].q) \cup {r}
    /\ Elements(exec[e].q) \subseteq Elements(exec'[e].q) \cup h'.dropped
    /\ r \in Elements(exec'[e].q) \cup h'.dropped
    /\ h.dropped \subseteq h'.dropped /\ Distinct(exec'[e].q)
    /\ Draining => Ordered(exec'[e].q, h'.by)

\* Thread t adds its record to executor e.
EnqueuesRecord(t, r, e) ==
    /\ Adds(e, r)
    /\ HoldersLeft({t})
    /\ t \notin Holders'
    /\ Draining' => Draining

\* Thread t goes on with its record in its hands.
HoldsRecord(t, r) ==
    /\ \A e \in Executors : SameQueue(e)
    /\ SameFates
    /\ HoldersLeft({t})
    /\ t \in Holders'
    /\ th'[t].r = r
    /\ Draining' => Draining

\* A list of records to which one is added, or the fates of the others.
Settles(r) ==
    /\ h.dropped \subseteq h'.dropped /\ h.filtered \subseteq h'.filtered
    /\ \/ h'.written = Append(h.written, r)
       \/ h'.written = h.written /\ r \in h'.dropped \cup h'.filtered

\* The list of written records once record r is settled.
ListGrew(r) ==
    /\ Written \subseteq Written' /\ Written' \subseteq Written \cup {r}
    /\ Distinct(h'.written)
    /\ Settled \subseteq Settled' /\ r \in Settled'
    /\ \A by : Ordered(h.written, by) /\ Before(Written, {r}, by) => Ordered(h'.written, by)

\* Thread t writes its record itself.
SettlesRecord(t, r) ==
    /\ \A e \in Executors : SameQueue(e)
    /\ Settles(r)
    /\ HoldersLeft({t})
    /\ t \notin Holders'
    /\ Draining' => Draining /\ AllIdle

\* Records leave executor e for good.
Passes(e) ==
    /\ h'.by = h.by
    /\ HoldersLeft({})
    /\ \A f \in Executors \ {e} : SameQueue(f)
    /\ Live(e)' \subseteq Live(e)
    /\ Live(e) \subseteq Live(e)' \cup Settled'
    /\ exec'[e].run \notin Elements(exec'[e].q)
    /\ Distinct(exec'[e].q)
    /\ Written' \subseteq Written \cup (Live(e) \ Live(e)')
    /\ Distinct(h'.written)
    /\ Settled \subseteq Settled'

\* The worker of executor e takes a task.
TakesRecord(e) ==
    /\ h' = h
    /\ HoldersLeft({})
    /\ Draining' => Draining
    /\ \A f \in Executors \ {e} : SameQueue(f)
    /\ exec[e].run = 0
    /\ exec[e].q # <<>>
    /\ exec'[e].run = Head(exec[e].q)
    /\ exec'[e].q = Tail(exec[e].q)

\* The worker of executor e is done with its task.
FinishesRecord(e) ==
    /\ h'.by = h.by
    /\ HoldersLeft({})
    /\ Draining' => Draining /\ \A f \in Executors \ {e} : Idle(f)
    /\ \A f \in Executors \ {e} : SameQueue(f)
    /\ exec[e].run # 0
    /\ exec'[e].run = 0
    /\ exec'[e].q = exec[e].q
    /\ Settles(exec[e].run)
-----------------------------------------------------------------------------
(* What a step does to the calls *)

Others(t) == \A u \in Threads \ {t} : th'[u] = th[u]

\* Who is at S before and after a step of thread t.
Whereabouts(t, S) ==
    /\ th'[t].pc \in S => At(S)' = At(S) \cup {t}
    /\ th'[t].pc \notin S => At(S)' = At(S) \ {t}
    /\ th[t].pc \in S <=> t \in At(S)

\* A step of thread t that leaves the executor in use alone: it may take or
\* release the lifecycle mutex, where no other thread holds it, and set the
\* shutdown flag.
Calm(t) ==
    /\ kind' = kind /\ Others(t)
    /\ lg'.config.async = lg.config.async /\ lg'.config.own = lg.config.own
    /\ lg'.executor = lg.executor /\ lg'.made = lg.made
    /\ \A u \in Threads \ {t} : lg.lifecycle = u => lg'.lifecycle = u
    /\ lg.shutdown => lg'.shutdown
    /\ lg'.shutdown => lg.shutdown \/ \A u \in Threads \ {t} : th[u].pc \notin {"add", "drain"}
    /\ h'.configs >= h.configs
    /\ th'[t].pc \in Configuring => th[t].pc \in Configuring \/ h'.configs = h.configs + 1

\* What the counts rest on: a step of thread t.
Counts(t) ==
    /\ Others(t)
    /\ \/ (th[t].pc \in Enqueuing <=> th'[t].pc \in Enqueuing) /\ lg'.pending = lg.pending
       \/ th[t].pc \notin Enqueuing /\ th'[t].pc \in Enqueuing /\ lg'.pending = lg.pending + 1
       \/ th[t].pc \in Enqueuing /\ th'[t].pc \notin Enqueuing /\ lg'.pending = lg.pending - 1
    /\ \/ /\ lg'.made = lg.made /\ h'.configs >= h.configs
          /\ th'[t].pc \in Configuring => th[t].pc \in Configuring \/ h'.configs = h.configs + 1
       \/ /\ lg'.made \in {lg.made, lg.made + 1} /\ h'.configs = h.configs
          /\ th[t].pc \in Configuring /\ th'[t].pc \notin Configuring

\* What a step may rely on.
CountFacts ==
    /\ lg.pending = 0 => At(Enqueuing) = {}
    /\ At(Configuring) # {} => lg.made + 1 \in Executors

\* Only one executor has work, after a calm step of a logger that drains.
Calmed == Draining' => /\ \A e \in Executors : Idle(e)' \/ e = Home
                       /\ ~lg.config.async \/ h'.down => AllIdle'
-----------------------------------------------------------------------------
(* The fields after a step *)

\* What a call adds to the history.
SameHistory(old, new) ==
    /\ new.configs = old.configs /\ new.down = old.down /\ new.clears = old.clears
    /\ new.by = old.by /\ new.level = old.level /\ new.calls = old.calls

SameHistoryFates(old, new) ==
    new.written = old.written /\ new.dropped = old.dropped /\ new.filtered = old.filtered

\* The history with one call more.
CountedIs ==
    /\ Counted \in History /\ Counted.calls = h.calls + 1 /\ Counted.by = h.by
    /\ SameHistoryFates(h, Counted) /\ Counted.configs = h.configs
    /\ Counted.down = h.down

\* The history with one change of configuration more.
ConfiguredIs ==
    /\ Configured \in History /\ Configured.calls = h.calls + 1 /\ Configured.by = h.by
    /\ SameHistoryFates(h, Configured) /\ Configured.configs = h.configs + 1
    /\ Configured.down = h.down

\* The history with one record more.
LoggedIs(t, level) ==
    /\ Logged(t, level) \in History /\ Logged(t, level).by = Append(h.by, t)
    /\ Logged(t, level).calls = h.calls + 1 /\ Logged(t, level).configs = h.configs
    /\ SameHistoryFates(h, Logged(t, level)) /\ Logged(t, level).down = h.down

\* The history once the fate of record r is known.
SettledIs(hist, r, new) ==
    /\ new \in History /\ SameHistory(hist, new)
    /\ hist.dropped \subseteq new.dropped /\ hist.filtered \subseteq new.filtered
    /\ \/ new.written = Append(hist.written, r)
       \/ new.written = hist.written /\ r \in new.dropped \cup new.filtered

\* The fates a record may get.
Outcome(hist, r, new) ==
    /\ \/ new = Wrote(hist, r)
       \/ new = Filter(r, hist)
       \/ \E ok \in BOOLEAN : new = WriteFile(r, hist, ok)

\* The locals of thread t after a step in which no other call moves.
LocalsAre(t, p, r, e, s) ==
    /\ ThreadTypes' /\ Others(t)
    /\ th'[t].pc = p /\ th'[t].r = r /\ th'[t].e = e /\ th'[t].seen = s

Holds(t, p, r) == th' = [th EXCEPT ![t].pc = p, ![t].r = r]

Enqueues(t, p, r, e) == th' = [th EXCEPT ![t].pc = p, ![t].r = r, ![t].e = e]

Sees(t, p, s) == th' = [th EXCEPT ![t].pc = p, ![t].seen = s]

Targets(t, p, e) == th' = [th EXCEPT ![t].pc = p, ![t].e = e]

WaitsFor(t, p, e, s) == th' = [th EXCEPT ![t].pc = p, ![t].e = e, ![t].seen = s]

Drains(t, p, e, c) == th' = [th EXCEPT ![t].pc = p, ![t].e = e, ![t].config = c]

Configures(t, p, c) == th' = [th EXCEPT ![t].pc = p, ![t].config = c]

\* The fields of the logger.
SameLogger ==
    lg'.config = lg.config /\ lg'.executor = lg.executor /\ lg'.made = lg.made

\* The fields of the logger after a step that changes no configuration.
LoggerIs(l, s, n) ==
    /\ LoggerTypes' /\ SameLogger
    /\ lg'.lifecycle = l /\ lg'.shutdown = s /\ lg'.pending = n

SetsPending(n) == lg' = [lg EXCEPT !.pending = n]
-----------------------------------------------------------------------------
(* Kinds of steps *)

\* Nothing about shutdown() changes.
Quiet(t) ==
    /\ lg'.shutdown = lg.shutdown
    /\ h'.down => h.down \/ th[t].pc = "down"
    /\ th'[t].pc \in Stopping => th[t].pc \in Stopping
    /\ th'[t].pc \in {"stop", "down"} => th[t].pc \in {"stop", "down"}
    /\ th'[t].pc \in {"add", "enqueue", "finish"} =>
         th[t].pc \in {"add", "enqueue", "finish"} \/ ~lg.shutdown

\* A step of thread t that moves no record and leaves the executor in use
\* alone; it may begin a call.
Still(t) ==
    /\ Types' /\ kind' = kind /\ Others(t)
    /\ lg'.config.async = lg.config.async /\ lg'.config.own = lg.config.own
    /\ lg'.executor = lg.executor /\ lg'.made = lg.made
    /\ \A u \in Threads \ {t} : lg.lifecycle = u => lg'.lifecycle = u
    /\ lg.shutdown => lg'.shutdown
    /\ lg'.shutdown => lg.shutdown \/ \A u \in Threads \ {t} : th[u].pc \notin {"add", "drain"}
    /\ \A e \in Executors : SameQueue(e)
    /\ SameFates /\ h'.by = h.by
    /\ th[t].pc \notin {"add", "enqueue"} /\ th'[t].pc \notin {"add", "enqueue"}
    /\ th'[t].pc \in Configuring => h'.configs = h.configs + 1
    /\ th'[t].pc \in {"pending", "wait", "clearwait"} =>
         \/ th'[t].seen = Returned
         \/ th[t].pc = "pending" /\ th'[t].seen = th[t].seen

\* How many calls were begun, and how many of them configure the logger.
Begins ==
    \/ h'.calls = h.calls /\ h'.configs = h.configs
    \/ /\ h.calls < MaxCalls /\ h'.calls = h.calls + 1
       /\ h'.configs = h.configs \/ h'.configs = h.configs + 1

\* A step of thread t that changes neither the records nor the configuration
\* nor the shutdown flag; the call may begin, go on or return.
Plain(t) ==
    /\ LoggerTypes' /\ ExecutorTypes' /\ ThreadTypes' /\ InfoTypes' /\ HistoryTypes'
    /\ kind' = kind /\ Others(t)
    /\ lg'.config.async = lg.config.async /\ lg'.config.own = lg.config.own
    /\ lg'.executor = lg.executor /\ lg'.made = lg.made /\ lg'.shutdown = lg.shutdown
    /\ \A u \in Threads \ {t} : lg.lifecycle = u => lg'.lifecycle = u
    /\ \A e \in Executors : SameQueue(e)
    /\ SameFates /\ h'.by = h.by /\ h'.configs = h.configs /\ h'.down = h.down
    /\ h'.calls = h.calls \/ (h.calls < MaxCalls /\ h'.calls = h.calls + 1)
    /\ th[t].pc \notin {"add", "enqueue"}
    /\ th'[t].pc \notin {"add", "enqueue", "finish", "drain", "configure"}
    /\ th'[t].pc \in Stopping => th[t].pc = "stop" /\ th'[t].pc = "down"
    /\ th'[t].pc \in {"pending", "wait", "clearwait"} =>
         \/ th'[t].seen = Returned
         \/ th[t].pc = "pending" /\ th'[t].seen = th[t].seen
    /\ \/ th[t].pc # "finish" /\ lg'.pending = lg.pending
       \/ th[t].pc = "finish" /\ lg'.pending = lg.pending - 1

\* What a step leaves alone, or only counts.
KeptParts ==
    /\ exec' = exec => ExecutorTypes' /\ \A e \in Executors : SameQueue(e)
    /\ info' = info => InfoTypes'
    /\ h' = h => /\ HistoryTypes' /\ SameFates /\ h'.by = h.by /\ h'.down = h.down
                 /\ h'.calls = h.calls /\ h'.configs = h.configs
    /\ h' = Counted => /\ HistoryTypes' /\ SameFates /\ h'.by = h.by /\ h'.down = h.down
                       /\ h'.calls = h.calls + 1 /\ h'.configs = h.configs
    /\ h' = Configured =>
         /\ HistoryTypes' /\ SameFates /\ h'.by = h.by /\ h'.down = h.down
         /\ h'.calls = h.calls + 1 /\ h'.configs = h.configs + 1

\* A call that ends, or goes on with clear_logs().
Leaves(t) ==
    /\ kind' = kind
    /\ exec' = exec
    /\ info' = info
    /\ h' = h
    /\ \/ Return(t) /\ th[t].pc \in {"wait", "get", "join"}
       \/ Goto(t, "clear") /\ th[t].pc = "clearwait"
    /\ lg' = lg \/ lg' = Release(t)

\* An executor is told to stop, or given a limit; the queues stay.
Stops(e) == exec' = [exec EXCEPT ![e].stop = TRUE]
Limits(e, c) == exec' = [exec EXCEPT ![e].cap = c.cap, ![e].policy = c.policy]

\* A call that sets a level or a limit.
Sets(t) ==
    /\ Call(t)
    /\ kind' = kind
    /\ th' = th
    /\ info' = info
    /\ h' = Counted
    /\ LoggerTypes'
    /\ ExecutorTypes'
    /\ \A f \in Executors : SameQueue(f)
    /\ lg'.config.async = lg.config.async
    /\ lg'.config.own = lg.config.own
    /\ lg'.executor = lg.executor
    /\ lg'.made = lg.made
    /\ lg'.shutdown = lg.shutdown
    /\ lg'.lifecycle = lg.lifecycle
    /\ lg'.pending = lg.pending

\* A call of set_config() begins.
StartsConfiguring(t) ==
    /\ Others(t)
    /\ th[t].pc = "idle"
    /\ th'[t].pc \in Configuring
    /\ lg'.pending = lg.pending
    /\ lg'.made = lg.made
    /\ lg'.shutdown = lg.shutdown
    /\ h' = Configured
    /\ h.calls < MaxCalls

\* Thread t moves no record.
RecordsStay(t) ==
    /\ kind' = kind
    /\ h' = h
    /\ Others(t)
    /\ \A e \in Executors : SameQueue(e)
    /\ th[t].pc \notin {"add", "enqueue"}
    /\ th'[t].pc \notin {"add", "enqueue", "pending", "wait", "clearwait"}

\* The executor chosen is in use, or the next one.
ChosenWell(new) ==
    /\ new \in Executors /\ new \in Nat
    /\ new > lg.made <=> new = lg.made + 1
    /\ new = lg.made + 1 \/ new <= lg.made

Switches(t, c, n, m) == lg' = [Release(t) EXCEPT !.config = c, !.executor = n, !.made = m]

\* The logger after a switch.
SwitchedTo(c, n, m) ==
    /\ LoggerTypes' /\ lg'.config = c /\ lg'.executor = n /\ lg'.made = m
    /\ lg'.shutdown = lg.shutdown /\ lg'.pending = lg.pending

\* What Apply does, in terms of the fields.
Applied(t) ==
    /\ Types' /\ kind' = kind /\ h' = h /\ Others(t) /\ th'[t].pc \in {"idle", "retire"}
    /\ lg'.shutdown = lg.shutdown /\ lg'.pending = lg.pending
    /\ lg'.made \in {lg.made, lg.made + 1} /\ lg'.executor <= lg'.made /\ lg'.made >= 1
    /\ \A e \in Executors : SameQueue(e)
-----------------------------------------------------------------------------
(* log() and the tasks *)

\* What holds after the first step of log().
LogBegun(t) ==
    /\ Calm(t) /\ BoundInv' /\ QuietInv' /\ Counts(t) /\ ~h'.down
    /\ (Draining' => Draining) /\ HoldersLeft({t}) /\ t \in Threads \ Holders

\* A call of log() begins.
StartsLogging(t) ==
    /\ th[t].pc = "idle"
    /\ Others(t)
    /\ h.calls < MaxCalls
    /\ kind' = kind
    /\ ~lg.shutdown
    /\ SameLogger
    /\ lg'.shutdown = lg.shutdown
    /\ \A u \in Threads \ {t} : lg.lifecycle = u => lg'.lifecycle = u
    /\ h'.calls = h.calls + 1
    /\ h'.configs = h.configs
    /\ h'.down = h.down
    /\ \/ th'[t].pc \in {"idle", "add"} /\ lg'.pending = lg.pending
       \/ th'[t].pc = "enqueue" /\ lg'.pending = lg.pending + 1

\* log() writes the record.
WritesItself(t, level) ==
    /\ Call(t)
    /\ ~lg.shutdown
    /\ ~lg.config.async
    /\ kind' = kind
    /\ lg' = lg
    /\ exec' = exec
    /\ th' = th
    /\ InfoTypes'
    /\ \/ h' = Wrote(Logged(t, level), NewId)
       \/ h' = Filter(NewId, Logged(t, level))
       \/ \E ok \in BOOLEAN : h' = WriteFile(NewId, Logged(t, level), ok)

\* log() adds the record to the executor.
HandsOver(t, level) ==
    /\ Call(t)
    /\ ~lg.shutdown
    /\ lg.config.async
    /\ kind' = kind
    /\ lg' = lg
    /\ th' = th
    /\ InfoTypes'
    /\ AddTask(lg.executor, NewId, Logged(t, level))

\* log() goes on with its record in its hands.
KeepsRecord(t, level) ==
    /\ Call(t)
    /\ ~lg.shutdown
    /\ kind' = kind
    /\ exec' = exec
    /\ LoggerTypes'
    /\ InfoTypes'
    /\ ThreadTypes'
    /\ Others(t)
    /\ SameLogger
    /\ lg'.shutdown = lg.shutdown
    /\ \A u \in Threads \ {t} : lg.lifecycle = u => lg'.lifecycle = u
    /\ h' = Logged(t, level)
    /\ th'[t].r = NewId
    /\ \/ th'[t].pc = "add" /\ lg'.pending = lg.pending
       \/ th'[t].pc = "enqueue" /\ lg'.pending = lg.pending + 1
    /\ LockOk(t)'
    /\ Draining' => TargetOk(t)'

\* log() blocks in add_task().
Blocks(t, level) ==
    /\ Enter(t)
    /\ ~lg.shutdown
    /\ lg.config.async
    /\ kind # "console"
    /\ kind' = kind
    /\ exec' = exec
    /\ InfoTypes'
    /\ lg' = [lg EXCEPT !.lifecycle = t]
    /\ th' = [th EXCEPT ![t].pc = "add", ![t].r = NewId]
    /\ h' = Logged(t, level)

\* log() adds the record it holds to executor e.
AddsHeld(t, e) ==
    /\ th[t].pc \in {"add", "enqueue"}
    /\ kind' = kind
    /\ LoggerTypes'
    /\ ThreadTypes'
    /\ InfoTypes'
    /\ Others(t)
    /\ SameLogger
    /\ lg'.shutdown = lg.shutdown
    /\ lg'.pending = lg.pending
    /\ \A u \in Threads \ {t} : lg.lifecycle = u => lg'.lifecycle = u
    /\ AddTask(e, th[t].r, h)
    /\ Draining => e = Home
    /\ lg.config.async \/ ~Draining
    /\ th'[t].pc = IF th[t].pc = "add" THEN "idle" ELSE "finish"

\* No call moves while a worker does, and nothing is counted.
Working == kind' = kind /\ lg' = lg /\ th' = th /\ h'.configs = h.configs

\* The fates a task may give its record.
Runs(r) ==
    \/ h' = Wrote(h, r)
    \/ h' = Filter(r, h)
    \/ \E ok \in BOOLEAN : h' = WriteFile(r, h, ok)

\* What a thread knows of its last file keeps its type.
Notes(t, p, n) == info' = [info EXCEPT ![t].pending_logs = p, ![t].last = n]
-----------------------------------------------------------------------------
(* The counts *)

\* How many threads are at S before and after a step of thread t.
HeadCount(t, S) ==
    /\ Cardinality(At(S)) \in Nat /\ Cardinality(At(S)') \in Nat
    /\ th[t].pc \in S => Cardinality(At(S)) > 0
    /\ (th[t].pc \in S <=> th'[t].pc \in S) => At(S)' = At(S)
    /\ th[t].pc \notin S /\ th'[t].pc \in S =>
         Cardinality(At(S)') = Cardinality(At(S)) + 1
    /\ th[t].pc \in S /\ th'[t].pc \notin S =>
         Cardinality(At(S)') = Cardinality(At(S)) - 1
=============================================================================
