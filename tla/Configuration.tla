--------------------------- MODULE Configuration ---------------------------
(***************************************************************************)
(* The configuration pipeline of configuration*.hpp: a JSON value becomes  *)
(* a document (parse_configuration_json), the document a plan              *)
(* (materialize_configuration), the plan live loggers                      *)
(* (instantiate_configuration).  A phase may fail at any of its loggers,   *)
(* and the next one may run on what an earlier call left.                  *)
(*                                                                         *)
(* A ConfigurationValue is <<type, datum>>, a JSON value <<kind, datum>>;  *)
(* the datum of an integer is a token: "huge" does not fit the narrow      *)
(* integer types, "overflow" not even a signed one.  The diagnostics are   *)
(* the set of their <<code, path>>: the built-in functions return false    *)
(* exactly when they add one, so that set is also their result; those of   *)
(* the application may do otherwise.                                       *)
(***************************************************************************)
EXTENDS Callers, TLC

CONSTANTS Builds,       \* sets of enabled features a build may have
          JsonDocs,     \* JSON values the first call may parse
          PairDocs,     \* ... in a program with a materializer and a factory of its own
          LaterDocs,    \* JSON values a later call may parse
          Documents,    \* documents a program may build without JSON
          BindingSets   \* what a resolver may supply: binding name -> kind

VARIABLE config

Empty == [x \in {} |-> x]

Bool(b) == <<"Boolean", b>>
Sint(n) == <<"SignedInteger", n>>
Uint(n) == <<"UnsignedInteger", n>>
Str(s)  == <<"String", s>>
Null    == <<"Null", "">>

Index == <<"[0]", "[1]", "[2]">>

Diag(code, path) == {<<code, path>>}

append_rebased(diags, prefix) == {<<d[1], prefix \o d[2]>> : d \in diags}

(* configuration.hpp: the tables shared by the frontends *)

is_known_configuration_backend(type) ==
    type \in {"console", "file", "unique_file", "memory", "crash", "syslog",
              "event_log", "windows_debug", "mdbx", "otlp_http",
              "otlp_payload", "prometheus_http", "prometheus_payload"}

configuration_backend_field_uses_signed_integer(type, field) ==
    \/ type = "file" /\ field \in {"auto_delete_days", "compress_level"}
    \/ type = "unique_file" /\ field = "auto_delete_days"
    \/ type = "memory" /\ field = "max_age_ms"
    \/ type = "mdbx" /\ field \in {"flush_interval_ms", "payload_compression_level"}
    \/ /\ type = "otlp_http"
       /\ field \in {"export_interval_ms", "request_timeout_sec", "retry_attempts",
                     "retry_delay_ms", "compression_level"}

configuration_log_level_is_valid(level) ==
    level \in {"trace", "debug", "info", "warn", "error", "fatal"}

(* configuration_json.hpp *)

reject_unknown_fields(object, allowed, path) ==
    UNION {Diag("UnknownField", Append(path, f)) : f \in DOMAIN object \ allowed}

RECURSIVE to_configuration_value(_, _, _)
to_configuration_value(input, path, prefer_signed_integer) ==
    LET kind  == input[1]
        datum == input[2]
        Is(v) == [value |-> v, diags |-> {}]
        Bad   == [value |-> Null, diags |-> Diag("InvalidValue", path)]
    IN  CASE kind = "null"     -> Is(Null)
          [] kind = "boolean"  -> Is(Bool(datum))
          [] kind = "unsigned" ->
                IF ~prefer_signed_integer THEN Is(Uint(datum))
                ELSE IF datum = "overflow" THEN Bad ELSE Is(Sint(datum))
          [] kind = "integer"  ->
                IF datum # "negative" /\ ~prefer_signed_integer
                THEN Is(Uint(datum)) ELSE Is(Sint(datum))
          [] kind = "float"    -> Bad
          [] kind = "string"   -> Is(Str(datum))
          [] kind = "array"    ->
                LET item(i) == to_configuration_value(
                                   datum[i], Append(path, Index[i]), FALSE)
                IN  [value |-> <<"Array", [i \in DOMAIN datum |-> item(i).value]>>,
                     diags |-> UNION {item(i).diags : i \in DOMAIN datum}]
          [] kind = "object"   ->
                LET item(f) == to_configuration_value(datum[f], Append(path, f), FALSE)
                IN  [value |-> <<"Object", [f \in DOMAIN datum |-> item(f).value]>>,
                     diags |-> UNION {item(f).diags : f \in DOMAIN datum}]

\* datum of a field of a JSON object that has the kind, else the default
Field(object, f, kind, default) ==
    IF f \in DOMAIN object /\ object[f][1] = kind THEN object[f][2] ELSE default

\* the diagnostic of a field that is present with another kind
Mistyped(object, f, kind, path) ==
    IF f \in DOMAIN object /\ object[f][1] # kind
    THEN Diag("InvalidValue", Append(path, f)) ELSE {}

read_formatter(input, path) ==
    IF input[1] # "object" THEN [formatter |-> "simple", diags |-> Diag("InvalidValue", path)]
    ELSE [formatter |-> Field(input[2], "type", "string", "simple"),
          diags |-> reject_unknown_fields(input[2], {"type", "pattern", "json"}, path)
                    \cup Mistyped(input[2], "type", "string", path)
                    \cup Mistyped(input[2], "pattern", "string", path)
                    \cup Mistyped(input[2], "json", "boolean", path)]

read_level(input, path) ==
    IF input[1] = "string" /\ configuration_log_level_is_valid(input[2])
    THEN [level |-> input[2], diags |-> {}]
    ELSE [level |-> "absent", diags |-> Diag("InvalidValue", path)]

NoStrategy == [level |-> "absent", formatter |-> "absent"]

read_strategy(input, path) ==
    IF input[1] # "object" THEN [strategy |-> NoStrategy, diags |-> Diag("InvalidValue", path)]
    ELSE LET object == input[2]
             level  == IF "level" \in DOMAIN object
                       THEN read_level(object["level"], Append(path, "level"))
                       ELSE [level |-> "absent", diags |-> {}]
             formatter == IF "formatter" \in DOMAIN object
                          THEN read_formatter(object["formatter"], Append(path, "formatter"))
                          ELSE [formatter |-> "absent", diags |-> {}]
         IN  [strategy |-> [level |-> level.level, formatter |-> formatter.formatter],
              diags |-> reject_unknown_fields(object, {"level", "formatter"}, path)
                        \cup level.diags \cup formatter.diags]

read_logger(input, path) ==
    IF input[1] # "object"
    THEN [logger |-> [id |-> "", type |-> "", strategy |-> NoStrategy, backend |-> Empty],
          diags  |-> Diag("InvalidValue", path)]
    ELSE LET object   == input[2]
             type     == Field(object, "type", "string", "")
             required(f) == IF Field(object, f, "string", "?") = "?"
                            THEN Diag("InvalidValue", Append(path, f)) ELSE {}
             strategy == IF "strategy" \in DOMAIN object
                         THEN read_strategy(object["strategy"], Append(path, "strategy"))
                         ELSE [strategy |-> NoStrategy, diags |-> {}]
             backend  == Field(object, "backend", "object", Empty)
             value(f) == to_configuration_value(
                             backend[f], path \o <<"backend", f>>,
                             configuration_backend_field_uses_signed_integer(type, f))
         IN  [logger |-> [id |-> Field(object, "id", "string", ""), type |-> type,
                          strategy |-> strategy.strategy,
                          backend |-> [f \in DOMAIN backend |-> value(f).value]],
              diags |-> reject_unknown_fields(object, {"id", "type", "strategy", "backend"}, path)
                        \cup required("id") \cup required("type") \cup strategy.diags
                        \cup Mistyped(object, "backend", "object", path)
                        \cup UNION {value(f).diags : f \in DOMAIN backend}]

\* [ok, diags, output]: the caller's document is assigned only if it is ok
parse_configuration_json(input) ==
    IF input[1] = "malformed"
    THEN [ok |-> FALSE, diags |-> Diag("ConfigurationParseFailed", <<>>)]
    ELSE IF input[1] # "object" THEN [ok |-> FALSE, diags |-> Diag("InvalidValue", <<>>)]
    ELSE LET object  == input[2]
             version == IF "schema_version" \in DOMAIN object
                        THEN object["schema_version"] ELSE <<"null", "">>
             version_valid == \/ version[1] = "unsigned" /\ version[2] \notin {"huge", "overflow"}
                              \/ version[1] = "integer" /\ version[2] \notin {"negative", "huge"}
             loggers == Field(object, "loggers", "array", <<>>)
             logger  == [i \in DOMAIN loggers |-> read_logger(loggers[i], <<"loggers", Index[i]>>)]
             diags   == reject_unknown_fields(object, {"schema_version", "loggers"}, <<>>)
                        \cup (IF version_valid THEN {} ELSE Diag("InvalidValue", <<"schema_version">>))
                        \cup (IF "loggers" \in DOMAIN object /\ object["loggers"][1] = "array" THEN {}
                              ELSE Diag("InvalidValue", <<"loggers">>))
                        \cup UNION {logger[i].diags : i \in DOMAIN logger}
         IN  [ok |-> diags = {}, diags |-> diags,
              output |-> [schema_version |-> version[2],
                          loggers |-> [i \in DOMAIN logger |-> logger[i].logger]]]

(* configuration.hpp: validation of a document *)

\* the type of a field of the backend, "absent" if it is not there
TypeOf(backend, f) == IF f \in DOMAIN backend THEN backend[f][1] ELSE "absent"

Has(backend, f, value) == f \in DOMAIN backend /\ backend[f] = value

QueuePolicies == {Str("block"), Str("drop_newest"), Str("drop_oldest")}

validate_logger(document, i) ==
    LET logger  == document.loggers[i]
        backend == logger.backend
        path    == <<"loggers", Index[i]>>
        At(cond, code, where) == IF cond THEN Diag(code, path \o where) ELSE {}
    IN  At(logger.id = "", "EmptyLoggerId", <<"id">>)
        \cup At(logger.id # "" /\ \E j \in 1 .. i - 1 : document.loggers[j].id = logger.id,
                "DuplicateLoggerId", <<"id">>)
        \cup At(logger.type = "", "EmptyBackendType", <<"type">>)
        \cup At(logger.type # "" /\ ~is_known_configuration_backend(logger.type),
                "UnknownBackendType", <<"type">>)
        \cup At(/\ logger.strategy.level # "absent"
                /\ ~configuration_log_level_is_valid(logger.strategy.level),
                "InvalidValue", <<"strategy", "level">>)
        \cup At(logger.strategy.formatter \notin {"absent", "simple"},
                "InvalidValue", <<"strategy", "formatter", "type">>)
        \cup UNION {At(TypeOf(backend, f) \notin {"absent", "Boolean"},
                       "InvalidValue", <<"backend", f>>) : f \in {"use_dedicated_executor", "async"}}
        \cup At(/\ {"queue_capacity", "queue_policy"} \cap DOMAIN backend # {}
                /\ \/ ~Has(backend, "use_dedicated_executor", Bool(TRUE))
                   \/ Has(backend, "async", Bool(FALSE)),
                "UnsupportedCombination", <<"backend">>)
        \cup At("queue_policy" \in DOMAIN backend /\ backend["queue_policy"] \notin QueuePolicies,
                "InvalidValue", <<"backend", "queue_policy">>)
        \cup At(TypeOf(backend, "queue_capacity") \notin {"absent", "UnsignedInteger"},
                "InvalidValue", <<"backend", "queue_capacity">>)

validate_configuration(document) ==
    (IF document.schema_version = "1" THEN {}
     ELSE Diag("UnsupportedSchemaVersion", <<"schema_version">>))
    \cup UNION {validate_logger(document, i) : i \in DOMAIN document.loggers}

(* configuration_builtins.hpp: the built-in materializer *)

backend_available(build, type) ==
    CASE type = "mdbx" -> "LOGIT_WITH_MDBX" \in build
      [] type \in {"otlp_http", "otlp_payload"} -> "LOGIT_WITH_OTLP" \in build
      [] type = "prometheus_http" -> "LOGIT_WITH_PROMETHEUS_SERVER" \in build
      [] type = "prometheus_payload" -> "LOGIT_WITH_PROMETHEUS" \in build
      [] OTHER -> TRUE

adapter_supported(type) ==
    type \in {"file", "unique_file", "memory", "mdbx", "otlp_http", "otlp_payload",
              "prometheus_http", "prometheus_payload"}

field_allowed(type) ==
    CASE type = "file" ->
           {"directory", "async", "auto_delete_days", "max_file_size_bytes", "max_rotated_files",
            "compress", "compress_level", "compress_async", "external_cmd", "naming",
            "seq_width", "use_dedicated_executor", "queue_capacity", "queue_policy"}
      [] type = "unique_file" ->
           {"directory", "async", "auto_delete_days", "hash_length",
            "use_dedicated_executor", "queue_capacity", "queue_policy"}
      [] type = "memory" -> {"max_records", "max_bytes", "max_age_ms"}
      [] type = "mdbx" ->
           {"path", "app_name", "session_id", "async", "drop_on_overflow", "max_queue_size",
            "max_batch_size", "flush_interval_ms", "large_payload_threshold",
            "payload_preview_size", "store_large_payloads_separately",
            "payload_compression", "payload_compression_level"}
      [] type = "otlp_http" ->
           {"format", "host", "path", "max_queue_size", "max_batch_size",
            "max_in_flight_requests", "export_interval_ms", "request_timeout_sec",
            "retry_attempts", "retry_delay_ms", "max_payload_bytes", "compression",
            "compression_level", "drop_on_overflow", "async", "cancel_on_shutdown"}
      [] type = "otlp_payload" ->
           {"format", "async", "max_payload_bytes", "max_batch_size", "max_queue_size",
            "drop_on_overflow", "export_interval_ms"}
      [] type = "prometheus_http" ->
           {"format", "address", "port", "path", "health_path", "enable_health_endpoint",
            "start_immediately"}
      [] type = "prometheus_payload" -> {"format", "emit_on_log", "emit_on_wait"}
      [] OTHER -> {}

\* validate_type() for every field of a table [field |-> type]
validate_type(backend, types) ==
    UNION {IF TypeOf(backend, f) \in {"absent", types[f]} THEN {}
           ELSE Diag("InvalidValue", <<"backend", f>>) : f \in DOMAIN types}

validate_enum(backend, f, names) ==
    IF f \in DOMAIN backend /\ backend[f] \notin {Str(n) : n \in names}
    THEN Diag("InvalidValue", <<"backend", f>>) ELSE {}

validate_common_types(backend) ==
    validate_type(backend, [async |-> "Boolean", use_dedicated_executor |-> "Boolean",
                            queue_capacity |-> "UnsignedInteger", queue_policy |-> "String"])

validate_file_types(type, backend) ==
    validate_type(backend,
        [directory |-> "String", auto_delete_days |-> "SignedInteger",
         max_file_size_bytes |-> "UnsignedInteger", max_rotated_files |-> "UnsignedInteger",
         compress |-> "String", compress_level |-> "SignedInteger",
         compress_async |-> "Boolean", external_cmd |-> "String",
         naming |-> "String", seq_width |-> "UnsignedInteger"])
    \cup validate_enum(backend, "compress", {"none", "gzip", "zstd", "external_cmd"})
    \cup validate_enum(backend, "naming", {"sequence", "timestamp", "timestamp_ms"})
    \cup (IF type = "unique_file"
          THEN validate_type(backend, [hash_length |-> "UnsignedInteger"]) ELSE {})

validate_memory_types(backend) ==
    validate_type(backend, [max_records |-> "UnsignedInteger", max_bytes |-> "UnsignedInteger",
                            max_age_ms |-> "SignedInteger"])

validate_mdbx_types(build, backend) ==
    validate_type(backend,
        [path |-> "String", app_name |-> "String", session_id |-> "UnsignedInteger",
         async |-> "Boolean", drop_on_overflow |-> "Boolean",
         max_queue_size |-> "UnsignedInteger", max_batch_size |-> "UnsignedInteger",
         flush_interval_ms |-> "SignedInteger", large_payload_threshold |-> "UnsignedInteger",
         payload_preview_size |-> "UnsignedInteger",
         store_large_payloads_separately |-> "Boolean",
         payload_compression |-> "String", payload_compression_level |-> "SignedInteger"])
    \cup validate_enum(backend, "payload_compression", {"none", "gzip", "zstd"})
    \cup (IF \/ Has(backend, "payload_compression", Str("gzip")) /\ "LOGIT_HAS_ZLIB" \notin build
             \/ Has(backend, "payload_compression", Str("zstd")) /\ "LOGIT_HAS_ZSTD" \notin build
          THEN Diag("UnavailableBackend", <<"backend", "payload_compression">>) ELSE {})

\* every member of the object in backend.format is known and has its type
validate_format(backend, types) ==
    IF "format" \notin DOMAIN backend THEN {}
    ELSE IF backend["format"][1] # "Object" THEN Diag("InvalidValue", <<"backend", "format">>)
    ELSE LET fields == backend["format"][2]
         IN  UNION {IF f \notin DOMAIN types THEN Diag("UnknownField", <<"backend", "format", f>>)
                    ELSE IF fields[f][1] # types[f] THEN Diag("InvalidValue", <<"backend", "format", f>>)
                    ELSE {} : f \in DOMAIN fields}

validate_otlp_format(backend) ==
    validate_format(backend,
        [service_name |-> "String", service_namespace |-> "String",
         service_instance_id |-> "String", deployment_environment |-> "String",
         args_prefix |-> "String", include_source |-> "Boolean",
         include_thread_id |-> "Boolean", include_format |-> "Boolean",
         include_arg_names |-> "Boolean", include_args |-> "Boolean"])

validate_const_label(label, path) ==
    IF label[1] # "Object" THEN Diag("InvalidValue", path)
    ELSE UNION {Diag("UnknownField", Append(path, m)) : m \in DOMAIN label[2] \ {"name", "value"}}
         \cup (IF TypeOf(label[2], "name") = "String" /\ TypeOf(label[2], "value") = "String" THEN {}
               ELSE Diag("InvalidValue", path))

validate_prometheus_format(backend) ==
    validate_format(backend,
        [metric_prefix |-> "String", logger_label_name |-> "String",
         instance_label_name |-> "String", instance_label_value |-> "String",
         include_help |-> "Boolean", include_type |-> "Boolean",
         include_timestamp |-> "Boolean", include_logger_label |-> "Boolean",
         include_instance_label |-> "Boolean", include_build_info |-> "Boolean",
         const_labels |-> "Array"])
    \cup (IF TypeOf(backend, "format") = "Object"
             /\ TypeOf(backend["format"][2], "const_labels") = "Array"
          THEN LET labels == backend["format"][2]["const_labels"][2]
               IN  UNION {validate_const_label(
                              labels[i], <<"backend", "format", "const_labels", Index[i]>>) :
                          i \in DOMAIN labels}
          ELSE {})

validate_otlp_types(type, backend) ==
    validate_otlp_format(backend)
    \cup validate_type(backend,
        [host |-> "String", path |-> "String", max_queue_size |-> "UnsignedInteger",
         max_batch_size |-> "UnsignedInteger", max_in_flight_requests |-> "UnsignedInteger",
         export_interval_ms |-> IF type = "otlp_payload" THEN "UnsignedInteger" ELSE "SignedInteger",
         request_timeout_sec |-> "SignedInteger", retry_attempts |-> "SignedInteger",
         retry_delay_ms |-> "SignedInteger", max_payload_bytes |-> "UnsignedInteger",
         compression |-> "String", compression_level |-> "SignedInteger",
         drop_on_overflow |-> "Boolean", async |-> "Boolean", cancel_on_shutdown |-> "Boolean"])
    \cup validate_enum(backend, "compression", {"none", "gzip", "zstd"})

validate_prometheus_types(type, backend) ==
    validate_prometheus_format(backend)
    \cup (IF type = "prometheus_http"
          THEN validate_type(backend,
                   [address |-> "String", port |-> "UnsignedInteger", path |-> "String",
                    health_path |-> "String", enable_health_endpoint |-> "Boolean",
                    start_immediately |-> "Boolean"])
          ELSE validate_type(backend, [emit_on_log |-> "Boolean", emit_on_wait |-> "Boolean"]))

validate_backend(build, logger) ==
    LET type == logger.type
        backend == logger.backend
    IN  IF ~is_known_configuration_backend(type) THEN Diag("UnknownBackendType", <<"type">>)
        ELSE IF ~backend_available(build, type) \/ ~adapter_supported(type)
             THEN Diag("UnavailableBackend", <<"type">>)
        ELSE UNION {Diag("UnknownField", <<"backend", f>>) : f \in DOMAIN backend \ field_allowed(type)}
             \cup validate_common_types(backend)
             \cup CASE type \in {"file", "unique_file"} -> validate_file_types(type, backend)
                    [] type = "memory" -> validate_memory_types(backend)
                    [] type = "mdbx" -> validate_mdbx_types(build, backend)
                    [] type \in {"otlp_http", "otlp_payload"} -> validate_otlp_types(type, backend)
                    [] OTHER -> validate_prometheus_types(type, backend)

\* set_default() for every field of a table: a field that is there stays
set_default(fields, defaults) == fields @@ defaults

merge_object_defaults_Whole(fields, f, defaults) ==
    IF f \notin DOMAIN fields THEN fields @@ (f :> <<"Object", defaults>>) ELSE fields

merge_object_defaults(fields, f, defaults) ==
    IF f \notin DOMAIN fields THEN fields @@ (f :> <<"Object", defaults>>)
    ELSE IF fields[f][1] # "Object" THEN fields
    ELSE [fields EXCEPT ![f] = <<"Object", @[2] @@ defaults>>]

ExecutorDefaults == [use_dedicated_executor |-> Bool(FALSE), queue_capacity |-> Uint("0"),
                     queue_policy |-> Str("block")]

OtlpFormatDefaults ==
    [service_name |-> Str("logit-app"), service_namespace |-> Str(""),
     service_instance_id |-> Str(""), deployment_environment |-> Str(""),
     include_source |-> Bool(TRUE), include_thread_id |-> Bool(TRUE),
     include_format |-> Bool(TRUE), include_arg_names |-> Bool(FALSE),
     include_args |-> Bool(TRUE), args_prefix |-> Str("logit.arg.")]

PrometheusFormatDefaults ==
    [include_help |-> Bool(TRUE), include_type |-> Bool(TRUE), include_timestamp |-> Bool(FALSE),
     metric_prefix |-> Str("logit_"), const_labels |-> <<"Array", <<>>>>,
     include_logger_label |-> Bool(TRUE), logger_label_name |-> Str("logger"),
     include_instance_label |-> Bool(FALSE), instance_label_name |-> Str("instance"),
     instance_label_value |-> Str(""), include_build_info |-> Bool(TRUE)]

apply_defaults(type, fields) ==
    CASE type = "file" ->
           set_default(fields, ExecutorDefaults @@
               [directory |-> Str("logs"), async |-> Bool(TRUE), auto_delete_days |-> Sint("30"),
                max_file_size_bytes |-> Uint("0"), max_rotated_files |-> Uint("0"),
                compress |-> Str("none"), compress_level |-> Sint("1"),
                compress_async |-> Bool(TRUE), external_cmd |-> Str(""),
                naming |-> Str("sequence"), seq_width |-> Uint("3")])
      [] type = "unique_file" ->
           set_default(fields, ExecutorDefaults @@
               [directory |-> Str("unique_logs"), async |-> Bool(TRUE),
                auto_delete_days |-> Sint("30"), hash_length |-> Uint("8")])
      [] type = "memory" ->
           set_default(fields, [max_records |-> Uint("1000"), max_bytes |-> Uint("1048576"),
                                max_age_ms |-> Sint("86400000")])
      [] type = "mdbx" ->
           set_default(fields,
               [path |-> Str("logs.mdbx"), app_name |-> Str(""), session_id |-> Uint("0"),
                async |-> Bool(TRUE), drop_on_overflow |-> Bool(TRUE),
                max_queue_size |-> Uint("8192"), max_batch_size |-> Uint("256"),
                flush_interval_ms |-> Sint("100"), large_payload_threshold |-> Uint("4096"),
                payload_preview_size |-> Uint("512"),
                store_large_payloads_separately |-> Bool(TRUE),
                payload_compression |-> Str("none"), payload_compression_level |-> Sint("6")])
      [] type = "otlp_http" ->
           set_default(merge_object_defaults(fields, "format", OtlpFormatDefaults),
               [host |-> Str("http://localhost:4318"), path |-> Str("/v1/logs"),
                max_queue_size |-> Uint("8192"), max_batch_size |-> Uint("256"),
                max_in_flight_requests |-> Uint("1"), export_interval_ms |-> Sint("1000"),
                request_timeout_sec |-> Sint("3"), retry_attempts |-> Sint("2"),
                retry_delay_ms |-> Sint("250"), max_payload_bytes |-> Uint("1048576"),
                compression |-> Str("none"), compression_level |-> Sint("6"),
                drop_on_overflow |-> Bool(TRUE), async |-> Bool(TRUE),
                cancel_on_shutdown |-> Bool(FALSE)])
      [] type = "otlp_payload" ->
           set_default(merge_object_defaults(fields, "format", OtlpFormatDefaults),
               [async |-> Bool(TRUE), max_payload_bytes |-> Uint("1048576"),
                max_batch_size |-> Uint("256"), max_queue_size |-> Uint("1024"),
                drop_on_overflow |-> Bool(TRUE), export_interval_ms |-> Uint("100")])
      [] type = "prometheus_http" ->
           set_default(merge_object_defaults(fields, "format", PrometheusFormatDefaults),
               [address |-> Str("0.0.0.0"), port |-> Uint("9090"), path |-> Str("/metrics"),
                health_path |-> Str("/health"), enable_health_endpoint |-> Bool(TRUE),
                start_immediately |-> Bool(TRUE)])
      [] OTHER ->
           set_default(merge_object_defaults(fields, "format", PrometheusFormatDefaults),
               [emit_on_log |-> Bool(FALSE), emit_on_wait |-> Bool(TRUE)])

materialize_backend(logger) ==
    [id |-> logger.id, type |-> logger.type, strategy |-> logger.strategy,
     backend |-> apply_defaults(logger.type, logger.backend),
     required_bindings |-> IF logger.type \in {"otlp_payload", "prometheus_payload"}
                           THEN {"on_payload"} ELSE {}]

(* configuration_runtime_builtins.hpp: the built-in factory *)

\* read_string(), read_bool(), read_unsigned(), read_signed(), read_object():
\* every field of the table is there and has its type
read_fields(fields, types, path) ==
    UNION {IF TypeOf(fields, f) = types[f] THEN {}
           ELSE Diag("InvalidValue", Append(path, f)) : f \in DOMAIN types}

read_named(backend, f, names) ==
    IF f \in DOMAIN backend /\ backend[f] \in {Str(n) : n \in names} THEN {}
    ELSE Diag("InvalidValue", <<"backend", f>>)

read_queue_policy(backend) == read_named(backend, "queue_policy", {"block", "drop_newest", "drop_oldest"})

read_file_config(backend) ==
    read_fields(backend,
        [directory |-> "String", async |-> "Boolean", auto_delete_days |-> "SignedInteger",
         max_file_size_bytes |-> "UnsignedInteger", max_rotated_files |-> "UnsignedInteger",
         compress_level |-> "SignedInteger", compress_async |-> "Boolean",
         external_cmd |-> "String", seq_width |-> "UnsignedInteger",
         use_dedicated_executor |-> "Boolean", queue_capacity |-> "UnsignedInteger"], <<"backend">>)
    \cup read_named(backend, "compress", {"none", "gzip", "zstd", "external_cmd"})
    \cup read_named(backend, "naming", {"sequence", "timestamp", "timestamp_ms"})
    \cup read_queue_policy(backend)

read_unique_file_config(backend) ==
    read_fields(backend,
        [directory |-> "String", async |-> "Boolean", auto_delete_days |-> "SignedInteger",
         hash_length |-> "UnsignedInteger", use_dedicated_executor |-> "Boolean",
         queue_capacity |-> "UnsignedInteger"], <<"backend">>)
    \cup read_queue_policy(backend)

read_memory_config(backend) ==
    read_fields(backend, [max_records |-> "UnsignedInteger", max_bytes |-> "UnsignedInteger",
                          max_age_ms |-> "SignedInteger"], <<"backend">>)

\* ConfigurationBindingSet: kind "callable" is the type the factory asks for,
\* "other" another type, "null" an empty pointer
contains(bindings, name) == name \in DOMAIN bindings /\ bindings[name] # "null"
get(bindings, name) == name \in DOMAIN bindings /\ bindings[name] = "callable"

read_mdbx_config(backend, bindings) ==
    read_fields(backend,
        [path |-> "String", app_name |-> "String", session_id |-> "UnsignedInteger",
         async |-> "Boolean", drop_on_overflow |-> "Boolean",
         max_queue_size |-> "UnsignedInteger", max_batch_size |-> "UnsignedInteger",
         flush_interval_ms |-> "SignedInteger", large_payload_threshold |-> "UnsignedInteger",
         payload_preview_size |-> "UnsignedInteger",
         store_large_payloads_separately |-> "Boolean",
         payload_compression_level |-> "SignedInteger"], <<"backend">>)
    \cup read_named(backend, "payload_compression", {"none", "gzip", "zstd"})
    \cup (IF "on_error" \in DOMAIN bindings /\ ~get(bindings, "on_error")
          THEN Diag("InstantiationFailed", <<"binding", "on_error">>) ELSE {})

read_format(backend, types) ==
    IF TypeOf(backend, "format") # "Object" THEN Diag("InvalidValue", <<"backend", "format">>)
    ELSE read_fields(backend["format"][2], types, <<"backend", "format">>)

read_otlp_format(backend) ==
    read_format(backend,
        [service_name |-> "String", service_namespace |-> "String",
         service_instance_id |-> "String", deployment_environment |-> "String",
         include_source |-> "Boolean", include_thread_id |-> "Boolean",
         include_format |-> "Boolean", include_arg_names |-> "Boolean",
         include_args |-> "Boolean", args_prefix |-> "String"])

read_otlp_http_config(backend) ==
    read_otlp_format(backend)
    \cup read_fields(backend,
        [host |-> "String", path |-> "String", max_queue_size |-> "UnsignedInteger",
         max_batch_size |-> "UnsignedInteger", max_in_flight_requests |-> "UnsignedInteger",
         export_interval_ms |-> "SignedInteger", request_timeout_sec |-> "SignedInteger",
         retry_attempts |-> "SignedInteger", retry_delay_ms |-> "SignedInteger",
         max_payload_bytes |-> "UnsignedInteger", compression_level |-> "SignedInteger",
         drop_on_overflow |-> "Boolean", async |-> "Boolean",
         cancel_on_shutdown |-> "Boolean"], <<"backend">>)
    \cup read_named(backend, "compression", {"none", "gzip", "zstd"})

read_on_payload(bindings) ==
    IF get(bindings, "on_payload") THEN {}
    ELSE Diag("MissingProgrammaticBinding", <<"binding", "on_payload">>)

read_otlp_payload_config(backend, bindings) ==
    read_otlp_format(backend)
    \cup read_fields(backend,
        [async |-> "Boolean", max_payload_bytes |-> "UnsignedInteger",
         max_batch_size |-> "UnsignedInteger", max_queue_size |-> "UnsignedInteger",
         drop_on_overflow |-> "Boolean", export_interval_ms |-> "UnsignedInteger"], <<"backend">>)
    \cup read_on_payload(bindings)

read_prometheus_format(backend) ==
    read_format(backend,
        [include_help |-> "Boolean", include_type |-> "Boolean", include_timestamp |-> "Boolean",
         metric_prefix |-> "String", include_logger_label |-> "Boolean",
         logger_label_name |-> "String", include_instance_label |-> "Boolean",
         instance_label_name |-> "String", instance_label_value |-> "String",
         include_build_info |-> "Boolean", const_labels |-> "Array"])
    \cup (IF TypeOf(backend, "format") = "Object"
             /\ TypeOf(backend["format"][2], "const_labels") = "Array"
          THEN LET labels == backend["format"][2]["const_labels"][2]
                   path(i) == <<"backend", "format", "const_labels", Index[i]>>
               IN  UNION {IF labels[i][1] # "Object" THEN Diag("InvalidValue", path(i))
                          ELSE read_fields(labels[i][2], [name |-> "String", value |-> "String"],
                                           path(i)) : i \in DOMAIN labels}
          ELSE {})

read_config(build, type, backend, bindings) ==
    CASE type = "file" -> read_file_config(backend)
      [] type = "unique_file" -> read_unique_file_config(backend)
      [] type = "memory" -> read_memory_config(backend)
      [] type = "mdbx" /\ "LOGIT_WITH_MDBX" \in build -> read_mdbx_config(backend, bindings)
      [] type = "otlp_http" /\ "LOGIT_WITH_OTLP" \in build -> read_otlp_http_config(backend)
      [] type = "otlp_payload" /\ "LOGIT_WITH_OTLP" \in build ->
           read_otlp_payload_config(backend, bindings)
      [] type = "prometheus_http" /\ "LOGIT_WITH_PROMETHEUS_SERVER" \in build ->
           IF read_prometheus_format(backend) # {} THEN read_prometheus_format(backend)
           ELSE read_fields(backend,
                    [address |-> "String", port |-> "UnsignedInteger", path |-> "String",
                     health_path |-> "String", enable_health_endpoint |-> "Boolean",
                     start_immediately |-> "Boolean"], <<"backend">>)
      [] type = "prometheus_payload" /\ "LOGIT_WITH_PROMETHEUS" \in build ->
           read_prometheus_format(backend)
           \cup read_fields(backend, [emit_on_log |-> "Boolean", emit_on_wait |-> "Boolean"],
                            <<"backend">>)
           \cup read_on_payload(bindings)
      [] OTHER -> Diag("UnavailableBackend", <<"type">>)

\* the fields the factory narrows to 16 or 32 bits with a static_cast
NarrowFields == {"auto_delete_days", "max_rotated_files", "compress_level", "seq_width",
                 "flush_interval_ms", "payload_compression_level", "export_interval_ms",
                 "request_timeout_sec", "compression_level", "port"}

Narrow(backend) ==
    [f \in DOMAIN backend |->
        IF f \in NarrowFields /\ backend[f][2] = "huge" THEN <<backend[f][1], "wrapped">>
        ELSE backend[f]]

\* A constructor that throws is reported at "type"
instantiate(build, entry, bindings, throws) ==
    LET invalid == read_config(build, entry.type, entry.backend, bindings)
    IN  [diags  |-> IF invalid = {} /\ throws THEN Diag("InstantiationFailed", <<"type">>) ELSE invalid,
         logger |-> [type |-> entry.type, config |-> Narrow(entry.backend)]]

(* The program: it calls the phases in any order on the objects it keeps.  A phase    *)
(* goes through its loggers one by one and asks the materializer, the resolver and    *)
(* the factory, which may be the application's own: these may refuse with or without  *)
(* a diagnostic, return an empty pointer, or throw through the phase.                 *)

Idle == [phase |-> "none", i |-> 0, made |-> <<>>, resolved |-> <<>>]

Start == {[build |-> b, application |-> a, calls |-> 0, op |-> "none", ok |-> TRUE, frame |-> Idle,
           diagnostics |-> {}, loggers |-> <<>>,
           document |-> [schema_version |-> "0", loggers |-> <<>>],
           plan |-> [schema_version |-> "0", loggers |-> <<>>]] : b \in Builds, a \in BOOLEAN}

Init == config \in Start

Call == config.frame = Idle /\ config.calls < MaxCalls
Called(op, diags) == [config EXCEPT !.calls = @ + 1, !.op = op, !.ok = FALSE, !.diagnostics = diags]
Return(c, ok) == [c EXCEPT !.ok = ok, !.frame = Idle]
Enter(c, phase) == [c EXCEPT !.frame = [@ EXCEPT !.phase = phase, !.i = 1, !.made = <<>>]]

parse(input) ==
    LET r == parse_configuration_json(input) IN
    /\ Call
    /\ config' = [Called("parse", r.diags) EXCEPT !.ok = r.ok, !.document = IF r.ok THEN r.output ELSE @]

compose(document) ==
    /\ config.calls = 0
    /\ config' = [config EXCEPT !.calls = 1, !.op = "compose", !.document = document]

\* A refusal without a diagnostic gets one of the phase; the others are rebased.
Refused(answer) == ~answer.ok \/ answer.diags # {}
Reported(answer, code, where) ==
    LET prefix == <<"loggers", Index[config.frame.i]>>
    IN  IF answer.diags = {} THEN Diag(code, prefix \o where) ELSE append_rebased(answer.diags, prefix)

\* what the built-in code answers and, if the application brings its own, what that may
Answers(builtin) ==
    {builtin} \cup (IF config.application
                    THEN {[ok |-> FALSE, diags |-> {}], [ok |-> TRUE, diags |-> Diag("InvalidValue", <<"own">>)]}
                    ELSE {})

Done(c, input) == c.frame.i > Len(input.loggers)
Entry(input) == input.loggers[config.frame.i]

\* the end of the second loop of materialize_configuration(): the plan is assigned
Materialized(c) ==
    IF ~Done(c, c.document) THEN c
    ELSE Return([c EXCEPT !.plan = [schema_version |-> c.document.schema_version,
                                    loggers |-> c.frame.made]], TRUE)

Validated(c) == IF Done(c, c.document) THEN Materialized(Enter(c, "materialize")) ELSE c

materialize_configuration ==
    LET invalid == validate_configuration(config.document) IN
    /\ Call
    /\ config' = IF invalid # {} THEN Return(Called("materialize", invalid), FALSE)
                 ELSE Validated(Enter(Called("materialize", {}), "validate"))

validate_entry ==
    LET diags == validate_backend(config.build, Entry(config.document)) IN
    /\ config.frame.phase = "validate"
    /\ \E answer \in Answers([ok |-> diags = {}, diags |-> diags]) :
           config' = IF Refused(answer)
                     THEN Return([config EXCEPT !.diagnostics =
                              Reported(answer, "BackendValidationFailed", <<"backend">>)], FALSE)
                     ELSE Validated([config EXCEPT !.frame.i = @ + 1])

materialize_entry_InPlace ==
    /\ config.frame.phase = "materialize"
    /\ \E answer \in Answers([ok |-> TRUE, diags |-> {}]) :
           config' = IF Refused(answer)
                     THEN Return([config EXCEPT !.diagnostics =
                              Reported(answer, "MaterializationFailed", <<>>)], FALSE)
                     ELSE Materialized([config EXCEPT !.frame.i = @ + 1,
                              !.frame.made = Append(@, materialize_backend(Entry(config.document))),
                              !.plan.loggers = Append(config.frame.made, materialize_backend(Entry(config.document)))])

\* materialize_entry_InPlace builds the caller's plan instead of a candidate
materialize_entry ==
    /\ config.frame.phase = "materialize"
    /\ \E answer \in Answers([ok |-> TRUE, diags |-> {}]) :
           config' = IF Refused(answer)
                     THEN Return([config EXCEPT !.diagnostics =
                              Reported(answer, "MaterializationFailed", <<>>)], FALSE)
                     ELSE Materialized([config EXCEPT !.frame.i = @ + 1,
                              !.frame.made = Append(@, materialize_backend(Entry(config.document)))])

\* the end of the second loop of instantiate_configuration(): the loggers are assigned
Instantiated(c) ==
    IF Done(c, c.plan) THEN Return([c EXCEPT !.loggers = c.frame.made], TRUE) ELSE c

\* ... and of the first: a binding that is not resolved fails the phase only here
Resolved(c) ==
    IF ~Done(c, c.plan) THEN c
    ELSE IF c.diagnostics # {} THEN Return(c, FALSE) ELSE Instantiated(Enter(c, "construct"))

instantiate_configuration ==
    Call /\ config' = Resolved(Enter(Called("instantiate", {}), "resolve"))

resolve_entry(bindings) ==
    LET missing == UNION {Diag("MissingProgrammaticBinding", <<"binding", r>>) :
                          r \in {r \in Entry(config.plan).required_bindings : ~contains(bindings, r)}}
    IN  /\ config.frame.phase = "resolve"
        /\ \E answer \in Answers([ok |-> TRUE, diags |-> {}]) :
               LET local == [answer EXCEPT !.diags = @ \cup missing]
               IN  config' = Resolved([config EXCEPT !.frame.i = @ + 1, !.frame.resolved = Append(@, bindings),
                       !.diagnostics = @ \cup IF Refused(local)
                           THEN Reported(local, "BindingResolutionFailed", <<"binding">>) ELSE {}])

\* an answer that is not ok stands for the empty pointer
construct_entry_Unchecked(throws) ==
    LET made == instantiate(config.build, Entry(config.plan), config.frame.resolved[config.frame.i], throws) IN
    /\ config.frame.phase = "construct"
    /\ \E answer \in Answers([ok |-> made.diags = {}, diags |-> made.diags]) :
           config' = IF answer.diags # {}
                     THEN Return([config EXCEPT !.diagnostics = Reported(answer, "InstantiationFailed", <<>>)], FALSE)
                     ELSE Instantiated([config EXCEPT !.frame.i = @ + 1, !.frame.made =
                              Append(@, IF answer.ok THEN made.logger ELSE [type |-> "null", config |-> Empty])])

construct_entry(throws) ==
    LET made == instantiate(config.build, Entry(config.plan), config.frame.resolved[config.frame.i], throws) IN
    /\ config.frame.phase = "construct"
    /\ \E answer \in Answers([ok |-> made.diags = {}, diags |-> made.diags]) :
           config' = IF Refused(answer)
                     THEN Return([config EXCEPT !.diagnostics = Reported(answer, "InstantiationFailed", <<>>)], FALSE)
                     ELSE Instantiated([config EXCEPT !.frame.i = @ + 1, !.frame.made = Append(@, made.logger)])

\* an exception of the application's materializer, resolver or factory leaves the phase
escape ==
    /\ config.application /\ config.frame # Idle
    /\ config' = [Return(config, FALSE) EXCEPT !.op = "exception"]

Inputs == IF config.calls > 0 THEN LaterDocs ELSE IF config.application THEN PairDocs ELSE JsonDocs

Next == \/ \E input \in Inputs : parse(input)
        \/ \E document \in Documents : compose(document)
        \/ materialize_configuration \/ validate_entry \/ materialize_entry
        \/ instantiate_configuration \/ \E bindings \in BindingSets : resolve_entry(bindings)
        \/ \E throws \in BOOLEAN : construct_entry(throws)
        \/ escape

Spec == Init /\ [][Next]_config

-----------------------------------------------------------------------------

Entries == DOMAIN config.plan.loggers

Prefixed(path, prefix) == Len(path) >= Len(prefix) /\ SubSeq(path, 1, Len(prefix)) = prefix

\* The values the state may take.
TypeOK ==
    /\ config.calls \in 0 .. MaxCalls
    /\ config.ok \in BOOLEAN
    /\ \A i \in DOMAIN config.plan.loggers : adapter_supported(config.plan.loggers[i].type)

\* What materialize_configuration() accepts, the built-in factory accepts: with the
\* callbacks bound and no constructor throwing, no entry of a plan is refused.  The
\* five tables (allowed fields, field types, defaults, named values, readers) agree.
PlanIsInstantiable ==
    \A i \in Entries :
        read_config(config.build, config.plan.loggers[i].type, config.plan.loggers[i].backend,
                    [on_payload |-> "callable"]) = {}

\* apply_defaults() fills in exactly the fields that are missing: an entry has every
\* field of its backend, keeps each value the document gave, and a second pass
\* would change nothing.
DefaultsOnlyFillIn ==
    /\ \A i \in Entries : LET entry == config.plan.loggers[i] IN
           /\ DOMAIN entry.backend = field_allowed(entry.type)
           /\ apply_defaults(entry.type, entry.backend) = entry.backend
    /\ config.op = "materialize" /\ config.ok =>
          /\ Len(config.plan.loggers) = Len(config.document.loggers)
          /\ \A i \in Entries : \A f \in DOMAIN config.document.loggers[i].backend :
                LET given == config.document.loggers[i].backend[f]
                    kept  == config.plan.loggers[i].backend[f]
                IN  IF given[1] = "Object"
                    THEN \A m \in DOMAIN given[2] : kept[2][m] = given[2][m]
                    ELSE kept = given

\* JSON has one kind of integer and the model two: every integer field of every
\* backend gets from a JSON integer in range the type its validation asks for.
IntegersParse ==
    config.calls = 0 =>
        \A type \in {t \in {"file", "unique_file", "memory", "mdbx", "otlp_http", "otlp_payload",
                            "prometheus_http", "prometheus_payload"} : adapter_supported(t)} :
            LET defaults == apply_defaults(type, Empty)
            IN  \A f \in {f \in DOMAIN defaults : defaults[f][1] \in {"SignedInteger", "UnsignedInteger"}},
                   kind \in {"unsigned", "integer"} :
                    to_configuration_value(<<kind, "5">>, <<>>,
                        configuration_backend_field_uses_signed_integer(type, f)).value[1]
                    = defaults[f][1]

\* No two entries of a plan share an id, and every diagnostic of the later phases
\* names the schema version or a logger the phase was given.
DiagnosticsAreLocated ==
    /\ \A i, j \in Entries : config.plan.loggers[i].id = config.plan.loggers[j].id => i = j
    /\ config.op \in {"materialize", "instantiate"} =>
          \A d \in config.diagnostics :
              \/ d[2] = <<"schema_version">>
              \/ \E i \in IF config.op = "materialize" THEN DOMAIN config.document.loggers ELSE Entries :
                    Prefixed(d[2], <<"loggers", Index[i]>>)

\* The configuration contract in one invariant.
Safety == TypeOK /\ PlanIsInstantiable /\ DefaultsOnlyFillIn /\ IntegersParse /\ DiagnosticsAreLocated

Outputs(c) == <<c.document, c.plan, c.loggers>>

\* A phase is all or nothing, over several loggers and whatever the materializer, the
\* resolver or the factory does at any of them: a phase that returns false has said
\* why, one that returns true has nothing to say and its output has an entry for every
\* logger of its input, in order and (an integer that a static_cast of the factory
\* narrows excepted) with the values of its input; and no other step changes what the
\* caller holds, not even an exception that leaves the phase half way ("The
\* caller-visible logger vector is updated only after every binding has resolved and
\* every factory call has returned a logger").
TransactionalStep ==
    LET returned == config'.frame = Idle /\ config'.op \in {"parse", "materialize", "instantiate"}
        same(input, output, kind(_)) ==
            /\ Len(input) = Len(output)
            /\ \A i \in DOMAIN input : output[i].type = input[i].type /\ kind(i)
    IN  /\ returned => (config'.ok <=> config'.diagnostics = {})
        /\ returned /\ config'.ok /\ config'.op = "materialize" =>
              same(config.document.loggers, config'.plan.loggers,
                   LAMBDA i : config'.plan.loggers[i].id = config.document.loggers[i].id)
        /\ returned /\ config'.ok /\ config'.op = "instantiate" =>
              same(config.plan.loggers, config'.loggers,
                   LAMBDA i : \A f \in DOMAIN config.plan.loggers[i].backend :
                       LET given == config.plan.loggers[i].backend[f]
                       IN  config'.loggers[i].config[f] = given \/ (f \in NarrowFields /\ given[2] = "huge"))
        /\ ~(returned /\ config'.ok) /\ config'.op # "compose" => Outputs(config') = Outputs(config)
=============================================================================
