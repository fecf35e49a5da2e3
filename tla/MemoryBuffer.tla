---------------------------- MODULE MemoryBuffer ----------------------------
(***************************************************************************)
(* MemoryLogger: a deque of records with limits on number, bytes and age,  *)
(* whose readers evict what has expired, and subscribers that are called   *)
(* after the buffer is unlocked.  A record takes its timestamp before it   *)
(* reaches the buffer, so two threads may store theirs in the other order. *)
(***************************************************************************)
EXTENDS Callers

CONSTANTS
    Records,      \* records a caller may log: [bytes, level, raw_mode]
    Limits,       \* values of Config: [max_records, max_bytes, max_age_ms], 0 unlimited
    MaxClock,     \* bound on the clock
    MaxCallbacks  \* bound on the callbacks registered

VARIABLE memory

Ready == [pc |-> "idle", entry |-> <<>>, copied |-> {}, due |-> {}]

Start ==
    {[config |-> c, entries |-> <<>>, total |-> 0, level |-> 0, last |-> 0, last_mono |-> 0,
      callbacks |-> {}, next_callback_id |-> 1, at |-> [t \in Threads |-> Ready], clock |-> 1,
      accepted |-> <<>>, heard |-> [c_ \in 1..MaxCallbacks |-> <<>>], missed |-> {}, calls |-> 0] : c \in Limits}

Init == memory \in Start
-----------------------------------------------------------------------------
(* Eviction *)

Bytes(es) == FoldLeft(LAMBDA n, e : n + e.bytes, 0, es)

m_pop_front_KeepsTotal(s) == IF s.entries = <<>> THEN s ELSE [s EXCEPT !.entries = Tail(@)]

m_pop_front(s) ==
    IF s.entries = <<>> THEN s
    ELSE [s EXCEPT !.total = @ - Head(s.entries).bytes, !.entries = Tail(@)]

Expired(s, now) ==
    s.config.max_age_ms > 0 /\ s.entries # <<>> /\ Head(s.entries).ts < now - s.config.max_age_ms

RECURSIVE m_evict_expired(_, _)
m_evict_expired(s, now) == IF Expired(s, now) THEN m_evict_expired(m_pop_front(s), now) ELSE s

OverLimits(s) ==
    \/ s.config.max_records > 0 /\ Len(s.entries) > s.config.max_records
    \/ s.config.max_bytes > 0 /\ s.total > s.config.max_bytes /\ s.entries # <<>>

RECURSIVE PopWhileOver(_)
PopWhileOver(s) == IF OverLimits(s) THEN PopWhileOver(m_pop_front(s)) ELSE s

m_enforce_limits(s, now) == PopWhileOver(m_evict_expired(s, now))
-----------------------------------------------------------------------------
(* log(): the record is stamped by the macro, stored under m_mutex, and    *)
(* announced to a copy of the subscribers                                  *)

record(t, r) ==
    /\ memory.at[t].pc = "idle"
    /\ memory.calls < MaxCalls
    /\ memory' = [memory EXCEPT
           !.at[t].pc = "log", !.calls = @ + 1, !.at[t].due = memory.callbacks,
           !.at[t].entry = [id |-> memory.calls, ts |-> memory.clock] @@ r]

Store(s, e) ==
    LET room == m_evict_expired(s, e.ts)
    IN m_enforce_limits([room EXCEPT !.total = @ + e.bytes, !.entries = Append(@, e), !.last = e.ts,
                                     !.last_mono = s.clock, !.accepted = Append(@, e)], e.ts)

log(t) ==
    LET e == memory.at[t].entry IN
    /\ memory.at[t].pc = "log"
    /\ memory' = IF ~e.raw_mode /\ e.level < memory.level
                 THEN [memory EXCEPT !.at[t] = Ready]
                 ELSE [Store(memory, e) EXCEPT !.at[t].pc = "notify"]

notify_callbacks(t) ==
    /\ memory.at[t].pc = "notify"
    /\ memory' = [memory EXCEPT !.at[t].pc = "call", !.at[t].copied = memory.callbacks]

\* the next subscriber of the copy, in the order of the ids; an exception it
\* throws is swallowed
call_callback(t) ==
    LET c == Min(memory.at[t].copied) IN
    /\ memory.at[t].pc = "call" /\ memory.at[t].copied # {}
    /\ memory' = [memory EXCEPT !.at[t].copied = @ \ {c}, !.heard[c] = Append(@, memory.at[t].entry.id)]

log_return(t) ==
    /\ memory.at[t].pc = "call" /\ memory.at[t].copied = {}
    /\ memory' = [memory EXCEPT
           !.at[t] = Ready,
           !.missed = @ \cup {c \in memory.at[t].due : memory.at[t].entry.id \notin Elements(memory.heard[c])}]

add_log_callback ==
    /\ memory.next_callback_id <= MaxCallbacks /\ memory.calls < MaxCalls
    /\ memory' = [memory EXCEPT !.calls = @ + 1, !.next_callback_id = @ + 1, !.callbacks = @ \cup {memory.next_callback_id}]

remove_log_callback(c) ==
    /\ c \in memory.callbacks
    /\ memory' = [memory EXCEPT !.callbacks = @ \ {c}, !.at = [t \in Threads |-> [@[t] EXCEPT !.due = @ \ {c}]]]

set_log_level(level) ==
    /\ memory.level # level /\ memory.calls < MaxCalls
    /\ memory' = [memory EXCEPT !.level = level, !.calls = @ + 1]

clear_logs ==
    /\ memory.accepted # <<>> /\ memory.calls < MaxCalls
    /\ memory' = [memory EXCEPT !.calls = @ + 1, !.entries = <<>>, !.total = 0, !.last = 0, !.last_mono = 0, !.accepted = <<>>]
-----------------------------------------------------------------------------
(* Readers: each evicts what has expired, then copies.  The second clock   *)
(* reading of read_recent is never before the first.                       *)

Limited(es, limit) == IF limit > 0 THEN SubSeq(es, 1, IF limit < Len(es) THEN limit ELSE Len(es)) ELSE es

get_buffered_entries(s) == m_evict_expired(s, s.clock).entries

read_range(s, from, to, limit) ==
    IF to <= from THEN <<>>
    ELSE Limited(SelectSeq(get_buffered_entries(s), LAMBDA e : e.ts >= from /\ e.ts < to), limit)

read_recent(s, limit, period, later, ascending) ==
    LET newest == Limited(SelectSeq(Reverse(get_buffered_entries(s)),
                                    LAMBDA e : period <= 0 \/ e.ts >= later - period), limit)
    IN IF ascending THEN Reverse(newest) ELSE newest

read ==
    /\ Expired(memory, memory.clock)
    /\ memory' = m_evict_expired(memory, memory.clock)

get_int_param(s, param) ==
    CASE param = "LastLogTimestamp" -> s.last
      [] param = "TimeSinceLastLog" -> IF s.last_mono > 0 /\ s.clock > s.last_mono THEN s.clock - s.last_mono ELSE 0
      [] OTHER -> 0

tick == memory.clock < MaxClock /\ memory' = [memory EXCEPT !.clock = @ + 1]

Next ==
    \/ \E t \in Threads :
           \/ \E r \in Records : record(t, r)
           \/ log(t) \/ notify_callbacks(t) \/ call_callback(t) \/ log_return(t)
    \/ add_log_callback \/ \E c \in memory.callbacks : remove_log_callback(c)
    \/ \E level \in {0, 1} : set_log_level(level)
    \/ clear_logs \/ read \/ tick

Spec == Init /\ [][Next]_memory
-----------------------------------------------------------------------------
\* The values the state may take.
TypeOK ==
    /\ memory.config \in Limits
    /\ memory.total \in Nat /\ memory.last \in 0..MaxClock /\ memory.clock \in 1..MaxClock
    /\ memory.callbacks \subseteq 1..MaxCallbacks
    /\ \A t \in Threads : memory.at[t].pc \in {"idle", "log", "notify", "call"}

(* The byte counter that pop_front, push and clear each adjust is the size *)
(* of what is buffered, and the buffer is within its limits whenever       *)
(* m_mutex is free, whatever threads, clears and reads interleaved.        *)
BufferWithinLimits ==
    /\ memory.total = Bytes(memory.entries)
    /\ memory.config.max_records > 0 => Len(memory.entries) <= memory.config.max_records
    /\ memory.config.max_bytes > 0 => memory.total <= memory.config.max_bytes

(* Eviction only ever takes from the front: what is buffered is the tail   *)
(* of what was stored since the last clear, with no record missing between *)
(* two that are kept, also when timestamps arrive out of order.            *)
BufferIsTheTail ==
    LET n == Len(memory.entries)
        m == Len(memory.accepted)
    IN n <= m /\ memory.entries = SubSeq(memory.accepted, m - n + 1, m)

(* A subscriber registered throughout a log() call hears of its record,    *)
(* and no subscriber hears of one record twice, although the list is       *)
(* copied after the buffer is unlocked and changes meanwhile.              *)
SubscribersHearOnce ==
    /\ memory.missed = {}
    /\ \A c \in 1..MaxCallbacks : \A i, j \in DOMAIN memory.heard[c] :
           memory.heard[c][i] = memory.heard[c][j] => i = j

\* where the buffer of a call must begin: the last of the three requirements
Kept(es, config, now) ==
    LET n == Len(es)
        Fresh == {i \in 1..n : config.max_age_ms = 0 \/ es[i].ts >= now - config.max_age_ms} \cup {n + 1}
        Few   == {i \in 1..n + 1 : config.max_records = 0 \/ n - i + 1 <= config.max_records}
        Small == {i \in 1..n + 1 : config.max_bytes = 0 \/ Bytes(SubSeq(es, i, n)) <= config.max_bytes}
    IN SubSeq(es, Max({Min(Fresh), Min(Few), Min(Small)}), n)

(* The three eviction loops together keep the longest tail that the limits *)
(* on age (up to the first young record), number and bytes allow: nothing  *)
(* is evicted that could have stayed.  Every buffer of up to three records *)
(* is tried, a single record over the byte budget included.                *)
EvictionKeepsTheMost ==
    memory.calls = 0 /\ memory.clock = MaxClock =>
        \A es \in SeqOf([ts : 1..MaxClock, bytes : {r.bytes : r \in Records}], 3) :
            LET s == [memory EXCEPT !.entries = es, !.total = Bytes(es)]
            IN m_enforce_limits(s, MaxClock).entries = Kept(es, memory.config, MaxClock)

(* A reader gets exactly the buffered records of its window: read_range    *)
(* the first `limit` of them, read_recent the last `limit`, in the same    *)
(* order as get_buffered_entries() gives them.                             *)
ReadsAreExact ==
    LET es == get_buffered_entries(memory)
    IN /\ read_range(memory, 0, MaxClock + 1, 0) = es
       /\ \A limit \in 1..2 : LET got == read_recent(memory, limit, 0, memory.clock, TRUE)
                              IN got = SubSeq(es, Len(es) - Len(got) + 1, Len(es))
                                 /\ (Len(got) = limit \/ got = es)
       /\ \A from, to \in 1..MaxClock :
              LET got == read_range(memory, from, to, 1)
              IN Len(got) = 0 <=> \A i \in DOMAIN es : es[i].ts \notin from..to - 1

(* The reported timestamps describe the last record stored: zero after a   *)
(* clear, and never a negative age.                                        *)
ParamsDescribeTheLast ==
    /\ get_int_param(memory, "LastLogTimestamp") = IF memory.accepted = <<>> THEN 0 ELSE Last(memory.accepted).ts
    /\ get_int_param(memory, "TimeSinceLastLog") \in 0..MaxClock

\* The buffer in one invariant.
Safety ==
    /\ TypeOK /\ BufferWithinLimits /\ BufferIsTheTail /\ SubscribersHearOnce
    /\ EvictionKeepsTheMost /\ ReadsAreExact /\ ParamsDescribeTheLast
=============================================================================
