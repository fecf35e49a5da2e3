---------------------------- MODULE MCComponents ----------------------------
(***************************************************************************)
(* One instance for the parts that do not depend on each other: the ring   *)
(* of the MPSC executor, the sinks and exporters, and the data path        *)
(* (configuration, pattern, call sites, text formats, files read back).  A *)
(* behaviour is about one of them, active; the others are not there.       *)
(***************************************************************************)
EXTENDS MpscRing, Callers

CONSTANTS
    Kinds, Configs, Levels,                                   \* AsyncBackends
    Sizes, MaxPayload, Queues, MaxInFlight,                   \* OtlpExport
    Shapes, MaxSequence, MaxQueue, ClearOptions, MaxOpens,    \* MdbxStore
    StoreCalls,                                               \* bound on calls of MdbxStore
    MaxBatch,                                                 \* the last two
    Lengths, Capacities,                                      \* CrashRing
    Records, Limits, MaxCallbacks,                            \* MemoryBuffer
    MaxClock, MaxScrapeClock,                                 \* MemoryBuffer, PrometheusExport
    Builds, JsonDocs, PairDocs, LaterDocs, Documents, BindingSets,      \* Configuration
    Patterns, LogRecords,                                     \* PatternFormat
    SiteBuilds, SiteLevels, EveryN, CountWidth, Period, MaxTime,   \* CallSites
    Characters, MetricNames, LabelSets,                       \* PrometheusText
    FileDays, MaxWritten, MaxFiles,                           \* LogFiles
    MaxReads                                                  \* bound on calls there

VARIABLES
    active,
    kind, lg, exec, th, info, h,
    otlp, mdbx, prometheus, crash, memory, config, formatter, site, registry, disk

backendVars == <<kind, lg, exec, th, info, h>>

A == INSTANCE AsyncBackends
O == INSTANCE OtlpExport
M == INSTANCE MdbxStore WITH MaxCalls <- StoreCalls
P == INSTANCE PrometheusExport WITH MaxClock <- MaxScrapeClock
C == INSTANCE CrashRing WITH MaxCalls <- 2
B == INSTANCE MemoryBuffer
G == INSTANCE Configuration
F == INSTANCE PatternFormat WITH MaxCalls <- 1
S == INSTANCE CallSites
T == INSTANCE PrometheusText
L == INSTANCE LogFiles WITH MaxCalls <- MaxReads

Is(component) == active = component
Unused == "unused"
-----------------------------------------------------------------------------
ComponentsInit ==
    /\ active \in {"ring", "backend", "otlp", "mdbx", "prometheus", "crash", "memory",
                   "config", "formatter", "site", "registry", "disk"}
    /\ Init
    /\ IF Is("backend") THEN A!Init
       ELSE /\ kind = Unused /\ lg = Unused /\ exec = Unused
            /\ th = Unused /\ info = Unused /\ h = Unused
    /\ IF Is("otlp") THEN O!Init ELSE otlp = Unused
    /\ IF Is("mdbx") THEN M!Init ELSE mdbx = Unused
    /\ IF Is("prometheus") THEN P!Init ELSE prometheus = Unused
    /\ IF Is("crash") THEN C!Init ELSE crash = Unused
    /\ IF Is("memory") THEN B!Init ELSE memory = Unused
    /\ IF Is("config") THEN G!Init ELSE config = Unused
    /\ IF Is("formatter") THEN F!Init ELSE formatter = Unused
    /\ IF Is("site") THEN S!Init ELSE site = Unused
    /\ IF Is("registry") THEN T!Init ELSE registry = Unused
    /\ IF Is("disk") THEN L!Init ELSE disk = Unused

Still(component, state) == IF Is(component) THEN TRUE ELSE UNCHANGED state

ComponentsNext ==
    /\ \/ Is("ring") /\ Next
       \/ Is("backend") /\ A!Next
       \/ Is("otlp") /\ O!Next
       \/ Is("mdbx") /\ M!Next
       \/ Is("prometheus") /\ P!Next
       \/ Is("crash") /\ C!Next
       \/ Is("memory") /\ B!Next
       \/ Is("config") /\ G!Next
       \/ Is("formatter") /\ F!Next
       \/ Is("site") /\ S!Next
       \/ Is("registry") /\ T!Next
       \/ Is("disk") /\ L!Next
    /\ UNCHANGED active
    /\ Still("ring", vars) /\ Still("backend", backendVars) /\ Still("otlp", otlp)
    /\ Still("mdbx", mdbx) /\ Still("prometheus", prometheus) /\ Still("crash", crash)
    /\ Still("memory", memory) /\ Still("config", config) /\ Still("formatter", formatter)
    /\ Still("site", site) /\ Still("registry", registry) /\ Still("disk", disk)

all == <<active, vars, backendVars, otlp, mdbx, prometheus, crash, memory, config, formatter,
         site, registry, disk>>

ComponentsSpec == ComponentsInit /\ [][ComponentsNext]_all
-----------------------------------------------------------------------------
(* Properties *)

\* The backends on an executor lose no record unnoticed and nothing of theirs is
\* left in an executor after shutdown(): RecordsAccounted and ShutdownQuiesces of
\* AsyncBackends.
BackendSafety == Is("backend") => A!BackendSafety

\* The records of a thread are written in the order in which it logged them, over
\* every change of the configuration: ProgramOrder of AsyncBackends.
ProgramOrder == Is("backend") => A!ProgramOrder

\* ILogger::wait(), and the wait of clear_logs(): when it returns, the records
\* logged before the call are settled: WaitStep of AsyncBackends, OtlpExport and
\* MdbxStore.
WaitSettles ==
    [][/\ Is("backend") => A!WaitStep
       /\ Is("otlp") => O!WaitStep
       /\ Is("mdbx") => M!WaitStep]_all

\* get_last_log_file_name() names the file of the caller's own last record:
\* LastFileStep of AsyncBackends.
LastFileIsOwn == [][Is("backend") => A!LastFileStep]_all

\* OtlpHttpLogger and OtlpPayloadLogger lose no record unnoticed, keep payloads
\* and requests within their limits, and shutdown() exports what was accepted:
\* ExportAccounting, PayloadsBounded and ShutdownExports of OtlpExport.
OtlpSafety == Is("otlp") => O!Safety

\* MdbxLogger accounts for every record, overwrites none over restarts and
\* clears, tells subscribers of committed records only and reads back exactly:
\* StoreAccounting, NotifiedWereStored, ReferencesResolve, ReadInLogOrder,
\* ReadsAreExact and ShutdownEndsSession of MdbxStore.
MdbxSafety == Is("mdbx") => M!Safety

\* The Prometheus exporters report counters that never go back and that are
\* current, count every failure, and leave no handler behind stop():
\* CountersNeverGoBack, SamplesAreCurrent, FailuresAreCounted and
\* NoHandlerAfterStop of PrometheusExport.
PrometheusSafety == Is("prometheus") => P!Safety

\* The crash ring holds the last bytes logged and the dump of a quiet process is
\* the end of its log: RingHoldsTheTail, DumpIsTheTail and MarkerIsExact of
\* CrashRing.
CrashSafety == Is("crash") => C!Safety

\* MemoryLogger keeps the longest tail its limits allow, reads it exactly and
\* tells every subscriber once: BufferWithinLimits, BufferIsTheTail,
\* SubscribersHearOnce, EvictionKeepsTheMost, ReadsAreExact and
\* ParamsDescribeTheLast of MemoryBuffer.
MemorySafety == Is("memory") => B!Safety

\* A plan that materialize accepted can be instantiated, defaults only fill in,
\* integers get the type their field asks for, and every diagnostic points into the document:
\* PlanIsInstantiable, DefaultsOnlyFillIn, IntegersParse and DiagnosticsAreLocated
\* of Configuration.
ConfigurationSafety == Is("config") => G!Safety

\* A phase of the configuration is all or nothing, at whichever logger it fails and
\* whatever the application's own code does there: TransactionalStep of Configuration.
PhasesAreTransactional == [][Is("config") => G!TransactionalStep]_all

\* The compiled pattern means what the pattern says, fields keep their width and
\* JSON output reads back: CompileReadsPattern, FieldsFit and JsonReadsBack of
\* PatternFormat.
FormatSafety == Is("formatter") => F!Safety

\* The macros of the call sites keep their rates, the compiled-out ones are
\* silent, and the diagnostic context follows the scopes, early returns included:
\* RateLimits, CompiledOutIsSilent and ContextFollowsScopes of CallSites.
CallSiteSafety == Is("site") => S!Safety

\* PrometheusRegistry holds the last registration of each series and collects
\* them all although a callback throws, and a scraper reads the text back:
\* LastRegistrationWins, CollectionIsComplete and TextReadsBack of PrometheusText.
TextSafety == Is("registry") => T!Safety

\* list_log_files() and read_log_files() while the files change:
\* ListingIsChronological, ComparatorIsStrict, ResultsMatchRequest and
\* ReadsMissNothing of LogFiles.
LogFilesSafety == Is("disk") => L!Safety
-----------------------------------------------------------------------------
(* Values of the constants; the threads are interchangeable in every component *)

ThreadSymmetry == Permutations(Threads)

SmallConfigs ==
    {[async |-> FALSE, own |-> FALSE, cap |-> 0, policy |-> "Block"],
     [async |-> TRUE, own |-> FALSE, cap |-> 0, policy |-> "Block"],
     [async |-> TRUE, own |-> TRUE, cap |-> 1, policy |-> "Block"],
     [async |-> TRUE, own |-> TRUE, cap |-> 1, policy |-> "DropOldest"]}

SmallShapes == {[ts |-> 1, large |-> TRUE]}

SmallRecords == {[bytes |-> 1, level |-> 0, raw_mode |-> FALSE], [bytes |-> 3, level |-> 0, raw_mode |-> TRUE]}
SmallLimits == {[max_records |-> 2, max_bytes |-> 2, max_age_ms |-> 1]}

SmallSiteBuilds ==
    {[compiled |-> 3, cpp17 |-> TRUE, windows |-> FALSE],
     [compiled |-> 3, cpp17 |-> FALSE, windows |-> TRUE]}

SmallCharacters == {"a", "n", "0", "_", ":", "\"", "\\", "\n", "-"}
SmallLabelSets == {<<>>, <<[name |-> "l", value |-> "1"]>>, <<[name |-> "l", value |-> "2"]>>}

\* Patterns: two pieces in a row, with escape codes kept or stripped.
Pieces ==
    {<<"x">>, <<"n">>, <<"%">>, <<"%", "%">>, <<"%", "v">>, <<"%", "=", "6", "v">>,
     <<"%", "6", "!", "g">>, <<"%", "-", "2", "!", "f">>, <<"%", "6", "!", "@">>, <<"%", "f">>,
     <<"%", "6", "!", "f">>, <<"%", "6", "!", "!">>, <<"%", "1", "2", "@">>,
     <<"%", "K", "{">>, <<"k", "}">>, <<"%", "N", "(">>, <<")">>, <<"%", "s", "c">>, <<"%", "e">>,
     <<"c">>, <<"%", "^">>, <<"%", "m", "s">>, <<"%", "!">>, <<"%", "J">>}
SmallPatterns == {a \o b \o c : a \in {<<>>, <<"%", "s", "c">>}, b \in Pieces, c \in Pieces}

Arg(name, type, literal, value) == [name |-> name, type |-> type, is_literal |-> literal, value |-> value]

SmallLogRecords ==
    {[format |-> <<>>, args_array |-> <<>>, print_mode |-> FALSE, file |-> <<"d", "/", "f">>,
      function |-> <<"f">>, mdc |-> <<>>, ndc |-> <<>>],
     [format |-> <<"x", "ESC", "[", "1", "m", "y">>, args_array |-> <<>>, print_mode |-> FALSE,
      file |-> <<"a", "b", "/", "c", "d", "e", "f", "g", "h", "i">>,
      function |-> <<"m", "a", "i", "n", "\"", "NL", "(", ")">>,
      mdc |-> <<<<<<"k">>, <<"1">>>>>>, ndc |-> <<<<>>, <<"q">>>>],
     [format |-> <<>>, print_mode |-> FALSE, file |-> <<>>, function |-> <<"\\">>,
      args_array |-> <<Arg(<<"x">>, "INT", TRUE, <<"1">>), Arg(<<"y">>, "STRING", TRUE, <<"\\", "NL">>),
                       Arg(<<"z">>, "PATH", FALSE, <<"ESC", "ESC", "[", "m", "[">>)>>,
      mdc |-> <<<<<<>>, <<"0">>>>, <<<<"k">>, <<"1">>>>>>, ndc |-> <<<<"p">>>>]}

\* JSON documents: every field of every backend with every kind of value, pairs
\* of loggers, strategies, and documents of the wrong shape.
BackendTypes == {"", "bogus", "console", "file", "unique_file", "memory", "mdbx", "otlp_http",
          "otlp_payload", "prometheus_http", "prometheus_payload"}

LabelJson == [name |-> <<"string", "n">>, value |-> <<"string", "v">>]

JsonValues ==
    {<<"null", "">>, <<"boolean", FALSE>>, <<"unsigned", "5">>, <<"unsigned", "huge">>,
     <<"unsigned", "overflow">>, <<"integer", "negative">>, <<"float", "">>,
     <<"string", "gzip">>, <<"string", "x">>,
     <<"array", <<<<"float", "">>>>>>,
     <<"object", [include_help |-> <<"boolean", FALSE>>]>>}

FormatValues ==
    {<<"object", [service_name |-> <<"string", "x">>, include_args |-> <<"null", "">>]>>,
     <<"object", [const_labels |-> <<"array", <<<<"object", LabelJson>>>>>>]>>,
     <<"object", [const_labels |-> <<"array", <<<<"object", LabelJson>>, <<"string", "x">>>>>>]>>}

\* The fields of field_allowed() for any backend, and one that none has.
BackendFields ==
    {"address", "app_name", "async", "auto_delete_days", "cancel_on_shutdown", "compress",
     "compress_async", "compress_level", "compression", "compression_level", "directory",
     "drop_on_overflow", "emit_on_log", "emit_on_wait", "enable_health_endpoint",
     "export_interval_ms", "external_cmd", "flush_interval_ms", "format", "hash_length",
     "health_path", "host", "large_payload_threshold", "max_age_ms", "max_batch_size",
     "max_bytes", "max_file_size_bytes", "max_in_flight_requests", "max_payload_bytes",
     "max_queue_size", "max_records", "max_rotated_files", "naming", "path",
     "payload_compression", "payload_compression_level", "payload_preview_size", "port",
     "queue_capacity", "queue_policy", "request_timeout_sec", "retry_attempts",
     "retry_delay_ms", "seq_width", "session_id", "start_immediately",
     "store_large_payloads_separately", "use_dedicated_executor", "bogus_field"}

NoFields == [f \in {} |-> f]

LoggerJson(id, type, backend) ==
    <<"object", [id |-> <<"string", id>>, type |-> <<"string", type>>,
                 backend |-> <<"object", backend>>]>>

Document(loggers) ==
    <<"object", [schema_version |-> <<"unsigned", "1">>, loggers |-> <<"array", loggers>>]>>

Executor == [use_dedicated_executor |-> <<"boolean", TRUE>>,
             queue_capacity |-> <<"unsigned", "5">>, queue_policy |-> <<"string", "drop_oldest">>]

Pairs == {LoggerJson("a", "memory", NoFields), LoggerJson("b", "file", Executor),
          LoggerJson("b", "otlp_payload", NoFields), LoggerJson("", "prometheus_payload", NoFields),
          LoggerJson("c", "file", Executor @@ [async |-> <<"boolean", FALSE>>]),
          LoggerJson("a", "mdbx", [payload_compression |-> <<"string", "zstd">>])}

Strategies ==
    {<<"null", "">>,
     <<"object", [level |-> <<"string", "warn">>,
                  formatter |-> <<"object", [type |-> <<"string", "simple">>,
                                             json |-> <<"boolean", TRUE>>]>>]>>,
     <<"object", [level |-> <<"string", "loud">>]>>,
     <<"object", [formatter |-> <<"object", [type |-> <<"string", "fancy">>]>>]>>,
     <<"object", [formatter |-> <<"string", "simple">>, color |-> <<"null", "">>]>>}

SmallPairDocs == {Document(<<l, m>>) : l \in Pairs, m \in Pairs}

SmallJsonDocs ==
    {Document(<<LoggerJson("a", t, f :> v)>>) : t \in BackendTypes, f \in BackendFields, v \in JsonValues}
    \cup {Document(<<LoggerJson("a", t, "format" :> v)>>) : t \in BackendTypes, v \in FormatValues}
    \cup SmallPairDocs
    \cup {Document(<<<<"object", [id |-> <<"string", "a">>, type |-> <<"string", "memory">>,
                                  strategy |-> s]>>>>) : s \in Strategies}
    \cup {<<"malformed", "">>, <<"array", <<>>>>, Document(<<<<"null", "">>>>),
          <<"object", [schema_version |-> <<"integer", "1">>, loggers |-> <<"array", <<>>>>]>>,
          <<"object", [schema_version |-> <<"integer", "negative">>, loggers |-> <<"null", "">>]>>,
          <<"object", [schema_version |-> <<"unsigned", "huge">>, version |-> <<"null", "">>]>>,
          <<"object", [schema_version |-> <<"unsigned", "2">>, loggers |-> <<"array", <<>>>>]>>}

SmallLaterDocs == {<<"malformed", "">>, Document(<<LoggerJson("b", "memory", NoFields)>>)}

SmallDocuments ==
    {[schema_version |-> "1", loggers |-> <<[id |-> "a", type |-> "memory", backend |-> NoFields,
                                             strategy |-> [level |-> "out_of_range", formatter |-> "absent"]]>>],
     [schema_version |-> "1", loggers |-> <<[id |-> "a", type |-> "memory",
                                             strategy |-> [level |-> "absent", formatter |-> "absent"],
                                             backend |-> [max_records |-> <<"SignedInteger", "5">>]]>>]}

SmallBindings == {NoFields, [on_payload |-> "null"], [on_payload |-> "other", on_error |-> "other"],
                  [on_payload |-> "callable", on_error |-> "callable"]}

AllFeatures == {"LOGIT_WITH_MDBX", "LOGIT_WITH_OTLP", "LOGIT_WITH_PROMETHEUS_SERVER",
                "LOGIT_WITH_PROMETHEUS", "LOGIT_HAS_ZLIB"}

SmallBuilds == {{}, AllFeatures}
=============================================================================
