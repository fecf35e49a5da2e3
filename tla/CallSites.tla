------------------------------ MODULE CallSites ------------------------------
(***************************************************************************)
(* The call sites: what log_macros.hpp expands to at a level that may have *)
(* been compiled out, the static variables behind the _ONCE, _EVERY_N and  *)
(* _THROTTLE macros, the scope timers, the log streams and the diagnostic  *)
(* context of the calling thread (LogContext.hpp).                         *)
(*                                                                         *)
(* The statics of a rate-limited site are plain variables: threads in the  *)
(* same site race on them.  Their load and their store are two steps here, *)
(* and any thread may run in between.  A thread's scopes are a stack, that *)
(* leaving a block or an exception unwinds from the top.                   *)
(* The build has LOGIT_WITH_CONTEXT and LOGIT_WITH_FMT: without them the   *)
(* macros of the context and of fmt expand to nothing.                     *)
(***************************************************************************)
EXTENDS Callers

CONSTANTS
    SiteBuilds,       \* LOGIT_COMPILED_LEVEL, C++17 or not, Windows or not
    SiteLevels,       \* the levels of the call sites, one level in a behaviour
    EveryN,           \* n of LOGIT_EVERY_N
    CountWidth,       \* the width of its static unsigned counter
    Period,           \* period_ms of LOGIT_THROTTLE and threshold_ms of the timers
    MaxTime           \* bound on the clocks

VARIABLE site

Frame == [kind : {"guard", "timer", "unused"}, level : SiteLevels, threshold : {0, Period}, t0 : 0..MaxTime]
Outside == [pc |-> "idle", macro |-> "none", level |-> 0, seen |-> 0, now |-> 0]

Start ==
    {[compiled |-> b.compiled, cpp17 |-> b.cpp17, windows |-> b.windows, level |-> level,
      once |-> 0, count |-> 0, last |-> 0, clock |-> now,
      mdc |-> [t \in Threads |-> {}], ndc |-> [t \in Threads |-> <<>>], scopes |-> [t \in Threads |-> <<>>],
      at |-> [t \in Threads |-> Outside], records |-> <<>>, calls |-> 0,
      executed |-> [m \in {"once", "every_n", "throttle"} |-> 0], raced |-> FALSE, manual |-> {}] :
        b \in SiteBuilds, level \in SiteLevels, now \in {0, Period}}

Init == site \in Start
-----------------------------------------------------------------------------
(* LogRecord and the diagnostic context it captures *)

capture_log_context(s, t) ==
    IF s.mdc[t] = {} /\ s.ndc[t] = <<>> THEN <<>> ELSE <<[mdc |-> s.mdc[t], ndc |-> s.ndc[t]]>>

\* the guards the thread is inside of, outermost first: kept to state the properties
Guards(s, t) == SetToSortSeq({i \in DOMAIN s.scopes[t] : s.scopes[t][i].kind = "guard"}, <)

LogRecord(s, t, macro, level) ==
    [thread |-> t, macro |-> macro, level |-> level, now |-> 0, context |-> capture_log_context(s, t),
     inside |-> Guards(s, t)]

LOGIT_IF_COMPILED_LEVEL_Ungated(s, level) == TRUE
LOGIT_IF_COMPILED_LEVEL(s, level) == s.cpp17 => s.compiled <= level

Emit(s, record) == [s EXCEPT !.records = Append(@, record)]

\* LOGIT_LOG_AND_RETURN and its variants; the level is a constant of the site
LOGIT_LOG_AND_RETURN(s, t, macro, level) ==
    IF LOGIT_IF_COMPILED_LEVEL(s, level)
    THEN Emit(s, [LogRecord(s, t, macro, level) EXCEPT !.now = s.at[t].now]) ELSE s
-----------------------------------------------------------------------------
(* What each family of macros does when it is executed *)

\* LOGIT_<LEVEL>(...), LOGIT_FORMAT_, LOGIT_PRINT_, LOGIT_PRINTF_, ... and _TO
level_macros(s, t, level) ==
    IF s.compiled <= level THEN LOGIT_LOG_AND_RETURN(s, t, "level", level) ELSE s

\* LOGIT_<LEVEL>_IF(condition, ...): the condition is not evaluated when compiled out
conditional_macros(s, t, level, condition) ==
    IF s.compiled <= level /\ condition THEN LOGIT_LOG_AND_RETURN(s, t, "if", level) ELSE s

\* LOGIT_RAW, LOGIT_SECTION and their variants, at LOG_LVL_INFO and never gated
LOGIT_RAW(s, t) == Emit(s, LogRecord(s, t, "raw", 2))

system_error_macros_AnySystem(s, t, level, family) ==
    IF s.compiled <= level THEN LOGIT_LOG_AND_RETURN(s, t, family, level) ELSE s

\* LOGIT_PERROR_, LOGIT_WINERR_ and LOGIT_SYSERR_<LEVEL>
system_error_macros(s, t, level, family) ==
    IF s.compiled <= level /\ (family = "winerr" => s.windows)
    THEN LOGIT_LOG_AND_RETURN(s, t, family, level) ELSE s

\* LOGIT_STREAM_<LEVEL>: ~LogStream() logs what << collected, at every level
LogStream_end(s, t, level) == Emit(s, LogRecord(s, t, "stream", level))
stream_macros(s, t, level) == LogStream_end(s, t, level)

Plain(s, t, level) ==
    {level_macros(s, t, level), conditional_macros(s, t, level, TRUE), conditional_macros(s, t, level, FALSE),
     LOGIT_RAW(s, t), stream_macros(s, t, level),
     system_error_macros(s, t, level, "perror"), system_error_macros(s, t, level, "winerr")}
-----------------------------------------------------------------------------
Call(t) == site.at[t].pc = "idle" /\ site.calls < MaxCalls
Counted(s) == [s EXCEPT !.calls = @ + 1]

log(t) == Call(t) /\ site' \in Plain(Counted(site), t, site.level)

\* The statics of a rate-limited site: the load (and LOGIT_THROTTLE's clock) ...
Static(s, macro) == CASE macro = "once" -> s.once [] macro = "every_n" -> s.count [] OTHER -> s.last

rate_limited(t, macro) ==
    /\ Call(t)
    /\ site' = [Counted(site) EXCEPT
           !.at[t] = [pc |-> "loaded", macro |-> macro, level |-> site.level,
                      seen |-> Static(site, macro), now |-> IF macro = "throttle" THEN site.clock ELSE 0],
           !.raced = @ \/ \E u \in Threads \ {t} : site.at[u].macro = macro]

Left(s, t) == [s EXCEPT !.at[t] = Outside, !.executed[s.at[t].macro] = @ + 1]

\* ... then the test, the store, and the record
LOGIT_ONCE_NoStore(s, t) ==
    IF s.at[t].seen = 0 THEN LOGIT_LOG_AND_RETURN(s, t, "once", s.at[t].level) ELSE s

LOGIT_ONCE(s, t) ==
    IF s.at[t].seen = 0
    THEN LOGIT_LOG_AND_RETURN([s EXCEPT !.once = 1], t, "once", s.at[t].level) ELSE s

LOGIT_EVERY_N(s, t) ==
    LET count == (s.at[t].seen + 1) % 2 ^ CountWidth
        stored == [s EXCEPT !.count = count]
    IN IF count % EveryN = 0
       THEN LOGIT_LOG_AND_RETURN(stored, t, "every_n", s.at[t].level) ELSE stored

LOGIT_THROTTLE(s, t) ==
    IF s.at[t].now - s.at[t].seen >= Period
    THEN LOGIT_LOG_AND_RETURN([s EXCEPT !.last = s.at[t].now], t, "throttle", s.at[t].level) ELSE s

rate_limited_end(t) ==
    LET s == site macro == site.at[t].macro IN
    /\ s.at[t].pc = "loaded"
    /\ site' = Left(CASE macro = "once" -> LOGIT_ONCE(s, t)
                      [] macro = "every_n" -> LOGIT_EVERY_N(s, t)
                      [] OTHER -> LOGIT_THROTTLE(s, t), t)
-----------------------------------------------------------------------------
(* Scopes: NdcGuard and ScopeTimer *)

ndc_push(s, t, message) == [s EXCEPT !.ndc[t] = Append(@, message)]
ndc_pop_Unguarded(s, t) == [s EXCEPT !.ndc[t] = <<>>]
ndc_pop(s, t) == [s EXCEPT !.ndc[t] = IF @ = <<>> THEN @ ELSE Front(@)]

\* LOGIT_NDC_GUARD, and a guard pushes its depth
NdcGuard(t) ==
    /\ Call(t)
    /\ site' = [ndc_push(Counted(site), t, Len(site.scopes[t]) + 1) EXCEPT
           !.scopes[t] = Append(@, [kind |-> "guard", level |-> 0, threshold |-> 0, t0 |-> 0])]

ScopeTimer(level, threshold) == [kind |-> "timer", level |-> level, threshold |-> threshold, t0 |-> site.clock]

\* LOGIT_SCOPE_<LEVEL>[_T]: nothing is declared when the level is compiled out
scope_macros(t, level, threshold) ==
    /\ Call(t)
    /\ site' = [Counted(site) EXCEPT
           !.scopes[t] = Append(@, IF site.compiled <= level THEN ScopeTimer(level, threshold)
                                ELSE [kind |-> "unused", level |-> level, threshold |-> 0, t0 |-> 0])]

\* ~ScopeTimer() builds its record itself
ScopeTimer_end(s, t, frame) ==
    LET ms == s.clock - frame.t0
    IN IF ms < frame.threshold THEN s
       ELSE Emit(s, [LogRecord(s, t, "scope", frame.level) EXCEPT !.now = ms])

\* the end of the innermost block of the thread, normal or by an exception
leave(t) ==
    LET frame == Last(site.scopes[t])
        s == [site EXCEPT !.scopes[t] = Front(@)]
    IN /\ site.at[t].pc = "idle" /\ site.scopes[t] # <<>>
       /\ site' = CASE frame.kind = "guard" -> ndc_pop(s, t)
                    [] frame.kind = "timer" -> ScopeTimer_end(s, t, frame)
                    [] OTHER -> s

\* the other calls of LogContext.hpp
Manual(s, t) == [Counted(s) EXCEPT !.manual = @ \cup {t}]
mdc_put(s, t, key) == [s EXCEPT !.mdc[t] = @ \cup {key}]
mdc_remove(s, t, key) == [s EXCEPT !.mdc[t] = @ \ {key}]
mdc_clear(s, t) == [s EXCEPT !.mdc[t] = {}]
ndc_clear(s, t) == [s EXCEPT !.ndc[t] = <<>>]

context(t) ==
    /\ Call(t)
    /\ site' \in {mdc_put(Counted(site), t, "key"), mdc_remove(Counted(site), t, "key"), mdc_clear(Counted(site), t),
                  ndc_push(Manual(site, t), t, 0), ndc_pop(Manual(site, t), t), ndc_clear(Manual(site, t), t)}

tick == site.clock < MaxTime /\ site' = [site EXCEPT !.clock = @ + 1]

Next ==
    \/ \E t \in Threads :
           \/ log(t) \/ rate_limited_end(t) \/ NdcGuard(t) \/ leave(t) \/ context(t)
           \/ \E macro \in {"once", "every_n", "throttle"} : rate_limited(t, macro)
           \/ \E threshold \in {0, Period} : scope_macros(t, site.level, threshold)
    \/ tick

Spec == Init /\ [][Next]_site
-----------------------------------------------------------------------------
\* The values the state may take.
TypeOK ==
    /\ site.once \in {0, 1} /\ site.count \in 0..(2 ^ CountWidth - 1) /\ site.last \in 0..MaxTime
    /\ \A t \in Threads : \A f \in Elements(site.scopes[t]) : f.kind = "guard" \/ f \in Frame

By(macro) == SelectSeq(site.records, LAMBDA r : r.macro = macro)
CompiledIn == ~site.cpp17 \/ site.compiled <= site.level

(* LOGIT_ONCE, LOGIT_EVERY_N and LOGIT_THROTTLE at a level that is         *)
(* compiled in keep what they promise as long as no two threads are in the *)
(* same site at once: one record, one record in n executions until the     *)
(* unsigned counter wraps, and records at least a period apart.  Threads   *)
(* that race on the unprotected static break all three; what is left then  *)
(* is that LOGIT_ONCE logs at most once for each thread.                   *)
RateLimits ==
    /\ Len(By("once")) <= Cardinality(Threads)
    /\ ~site.raced =>
           /\ Len(By("once")) <= 1
           /\ CompiledIn =>
                  /\ site.executed["once"] > 0 => Len(By("once")) = 1
                  /\ site.executed["every_n"] < 2 ^ CountWidth
                         => Len(By("every_n")) = site.executed["every_n"] \div EveryN
           /\ \A i, j \in DOMAIN By("throttle") : i < j =>
                  By("throttle")[j].now - By("throttle")[i].now >= Period

(* A level below LOGIT_COMPILED_LEVEL leaves no record, the ones of the    *)
(* stream and raw macros and, before C++17, of the rate-limited macros     *)
(* excepted: those have no gate but LOGIT_IF_COMPILED_LEVEL.  And no       *)
(* LOGIT_WINERR_ record exists on another system, at any level.            *)
CompiledOutIsSilent ==
    \A r \in Elements(site.records) :
        /\ r.level < site.compiled =>
               r.macro \in {"raw", "stream"} \/ (~site.cpp17 /\ r.macro \in {"once", "every_n", "throttle"})
        /\ r.macro = "winerr" => site.windows

(* The NDC of a thread is the list of the guards it is inside of, however  *)
(* the scopes were left and whatever other threads do, unless the thread   *)
(* itself pushed, popped or cleared; and so is the one a record carries,   *)
(* which lives on in the queue of an asynchronous logger.                  *)
ContextFollowsScopes ==
    /\ \A t \in Threads \ site.manual : site.ndc[t] = Guards(site, t)
    /\ \A r \in Elements(site.records) : r.thread \notin site.manual /\ r.context # <<>> =>
           r.context[1].ndc = r.inside

\* The call sites in one invariant.
Safety == TypeOK /\ RateLimits /\ CompiledOutIsSilent /\ ContextFollowsScopes
=============================================================================
