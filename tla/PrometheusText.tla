--------------------------- MODULE PrometheusText ---------------------------
(***************************************************************************)
(* PrometheusRegistry, the metrics an application registers, and the text  *)
(* PrometheusTextSerializer makes of the collected families.  A string is  *)
(* a sequence of characters, for what is escaped and sanitised is a        *)
(* character; the value of a metric is left out of the text.               *)
(***************************************************************************)
EXTENDS Callers

CONSTANTS
    Characters,   \* the characters of names, label values and help texts
    MetricNames,  \* the names under which metrics are registered
    LabelSets     \* the label vectors they are registered with

VARIABLE registry

Strings == {<<>>} \cup {<<c>> : c \in Characters} \cup {<<c, d>> : c, d \in Characters}

Start == {[entries |-> <<>>, out |-> <<>>, rethrown |-> FALSE, asked |-> <<>>, calls |-> 0]}
Init == registry \in Start
-----------------------------------------------------------------------------
(* PrometheusRegistry *)

labels_equal(lhs, rhs) == Len(lhs) = Len(rhs) /\ \A i \in DOMAIN lhs : lhs[i] = rhs[i]

SameSeries_ByName(entry, name, labels) == entry.name = name
SameSeries(entry, name, labels) == entry.name = name /\ labels_equal(entry.labels, labels)

\* set_gauge() and set_counter(); a value callback returns or throws
set_metric(type, name, labels, throws) ==
    LET entries == registry.entries
        found == SelectInSeq(entries, LAMBDA e : SameSeries(e, name, labels))
        entry == [type |-> type, name |-> name, labels |-> labels, throws |-> throws]
    IN /\ registry.calls < MaxCalls
       /\ registry' = [registry EXCEPT
              !.entries = IF found = 0 THEN Append(@, entry) ELSE [@ EXCEPT ![found] = entry],
              !.asked = Append(@, entry), !.out = <<>>, !.rethrown = FALSE, !.calls = @ + 1]

find_family(families, name, type) ==
    SelectInSeq(families, LAMBDA f : f.name = name /\ f.type = type)

\* collect(): one pass over the entries; an entry whose callback throws is passed over
Collected(collected, entry) ==
    LET at == find_family(collected, entry.name, entry.type)
        sample == [name |-> entry.name, labels |-> entry.labels]
    IN IF entry.throws THEN collected
       ELSE IF at = 0
       THEN Append(collected, [name |-> entry.name, type |-> entry.type, samples |-> <<sample>>])
       ELSE [collected EXCEPT ![at].samples = Append(@, sample)]

collect ==
    /\ registry.calls < MaxCalls
    /\ registry' = [registry EXCEPT
           !.out = FoldLeft(Collected, <<>>, registry.entries),
           !.rethrown = \E e \in Elements(registry.entries) : e.throws,
           !.calls = @ + 1]

Next ==
    \/ collect
    \/ \E type \in {"gauge", "counter"}, name \in MetricNames, labels \in LabelSets, throws \in BOOLEAN :
           set_metric(type, name, labels, throws)

Spec == Init /\ [][Next]_registry
-----------------------------------------------------------------------------
(* PrometheusTextSerializer: characters in, characters out *)

prometheus_escape_help(value) ==
    FlattenSeq([i \in DOMAIN value |-> CASE value[i] = "\\" -> <<"\\", "\\">>
                                         [] value[i] = "\n" -> <<"\\", "n">>
                                         [] OTHER -> <<value[i]>>])

prometheus_escape_label_value_NoBackslash(value) ==
    FlattenSeq([i \in DOMAIN value |-> CASE value[i] = "\"" -> <<"\\", "\"">>
                                         [] value[i] = "\n" -> <<"\\", "n">>
                                         [] OTHER -> <<value[i]>>])

prometheus_escape_label_value(value) ==
    FlattenSeq([i \in DOMAIN value |-> CASE value[i] = "\\" -> <<"\\", "\\">>
                                         [] value[i] = "\"" -> <<"\\", "\"">>
                                         [] value[i] = "\n" -> <<"\\", "n">>
                                         [] OTHER -> <<value[i]>>])

Alpha(c) == c \in {"a", "n"}
Alnum(c) == Alpha(c) \/ c = "0"

prometheus_sanitize_metric_name(name) ==
    IF name = <<>> THEN <<"_">>
    ELSE [i \in DOMAIN name |->
              IF name[i] \in {"_", ":"} \/ (IF i = 1 THEN Alpha(name[i]) ELSE Alnum(name[i]))
              THEN name[i] ELSE "_"]

prometheus_sanitize_label_name(name) ==
    IF name = <<>> THEN <<"_">>
    ELSE [i \in DOMAIN name |->
              IF name[i] = "_" \/ (IF i = 1 THEN Alpha(name[i]) ELSE Alnum(name[i]))
              THEN name[i] ELSE "_"]

\* const_labels come first, then the labels of the sample
write_labels(labels) ==
    IF labels = <<>> THEN <<>>
    ELSE <<"{">> \o FlattenSeq([i \in DOMAIN labels |->
             (IF i = 1 THEN <<>> ELSE <<",">>) \o prometheus_sanitize_label_name(labels[i].name)
             \o <<"=", "\"">> \o prometheus_escape_label_value(labels[i].value) \o <<"\"">>]) \o <<"}">>

help_line_Empty(family, config) ==
    IF config.include_help
    THEN <<"# HELP">> \o prometheus_sanitize_metric_name(family.name)
         \o <<" ">> \o prometheus_escape_help(family.help) \o <<"\n">>
    ELSE <<>>

\* the HELP line, left out for an empty help text
help_line(family, config) ==
    IF config.include_help /\ family.help # <<>>
    THEN <<"# HELP">> \o prometheus_sanitize_metric_name(family.name)
         \o <<" ">> \o prometheus_escape_help(family.help) \o <<"\n">>
    ELSE <<>>

type_line(family, config) ==
    IF config.include_type
    THEN <<"# TYPE">> \o prometheus_sanitize_metric_name(family.name)
         \o <<" ", IF family.type \in {"counter", "gauge"} THEN family.type ELSE "untyped", "\n">>
    ELSE <<>>

sample_line(sample, config) ==
    prometheus_sanitize_metric_name(sample.name) \o write_labels(config.const_labels \o sample.labels)
    \o <<" ", "value">>
    \o (IF config.include_timestamp /\ sample.timestamp_ms # 0 THEN <<" ", "timestamp">> ELSE <<>>)
    \o <<"\n">>

prometheus_write_metric_family(family, config) ==
    help_line(family, config) \o type_line(family, config)
    \o FlattenSeq([i \in DOMAIN family.samples |-> sample_line(family.samples[i], config)])

build_prometheus_text_payload(families, config) ==
    FlattenSeq([i \in DOMAIN families |-> prometheus_write_metric_family(families[i], config)])
-----------------------------------------------------------------------------
\* The values the state may take.
TypeOK ==
    /\ Len(registry.entries) <= Len(registry.asked) /\ registry.calls \in 0..MaxCalls
    /\ \A f \in Elements(registry.out) : f.samples # <<>> /\ f.type \in {"gauge", "counter"}

Series(e) == <<e.name, e.labels>>

(* The registry holds one entry for each name and label vector that was    *)
(* ever registered, and it is the last one registered: set_gauge() and     *)
(* set_counter() replace, also across the two types.                       *)
LastRegistrationWins ==
    /\ IsInjective([i \in DOMAIN registry.entries |-> Series(registry.entries[i])])
    /\ Elements(registry.entries) =
           {registry.asked[i] : i \in {k \in DOMAIN registry.asked :
               \A m \in DOMAIN registry.asked :
                   Series(registry.asked[m]) = Series(registry.asked[k]) => m <= k}}

Samples == FlattenSeq([i \in DOMAIN registry.out |->
    [k \in DOMAIN registry.out[i].samples |->
        [type |-> registry.out[i].type, name |-> registry.out[i].samples[k].name,
         labels |-> registry.out[i].samples[k].labels, throws |-> FALSE]]])

(* collect() delivers every entry whose callback did not throw, once, in a *)
(* family of its name and type, and no family twice; a callback that       *)
(* throws loses no other metric and the exception reaches the caller.      *)
CollectionIsComplete ==
    LET sound == {e \in Elements(registry.entries) : ~e.throws} IN
    registry.out # <<>> =>
        /\ Len(Samples) = Cardinality(sound) /\ Elements(Samples) = sound
        /\ IsInjective([i \in DOMAIN registry.out |-> <<registry.out[i].name, registry.out[i].type>>])
        /\ registry.rethrown <=> sound # Elements(registry.entries)

\* what a reader of the text format makes of an escaped text
Unescape(text) ==
    LET take(state, c) ==
            IF state.escaped
            THEN [escaped |-> FALSE, value |-> Append(state.value, IF c = "n" THEN "\n" ELSE c)]
            ELSE IF c = "\\" THEN [state EXCEPT !.escaped = TRUE]
            ELSE [state EXCEPT !.value = Append(@, c)]
    IN FoldLeft(take, [escaped |-> FALSE, value |-> <<>>], text)

Nth(positions, k) == CHOOSE i \in positions : Cardinality({j \in positions : j <= i}) = k

\* ... of the whole payload: its lines, without the line breaks
ReadLines(text) ==
    LET breaks == {0} \cup {i \in DOMAIN text : text[i] = "\n"}
    IN [k \in 1..(Cardinality(breaks) - 1) |-> SubSeq(text, Nth(breaks, k) + 1, Nth(breaks, k + 1) - 1)]

\* ... and of a sample line: the label values, each between two quotes that are not escaped
ReadValues(line) ==
    LET escapes(i) == Cardinality({k \in 1..(i - 1) : \A j \in k..(i - 1) : line[j] = "\\"})
        quotes == {i \in DOMAIN line : line[i] = "\"" /\ escapes(i) % 2 = 0}
    IN [k \in 1..(Cardinality(quotes) \div 2) |->
           Unescape(SubSeq(line, Nth(quotes, 2 * k - 1) + 1, Nth(quotes, 2 * k) - 1)).value]

TextConfigs(const_labels) ==
    [include_help : BOOLEAN, include_type : BOOLEAN, include_timestamp : BOOLEAN, const_labels : {const_labels}]

(* The text format reads back, whatever names, label values and help texts *)
(* hold and whichever lines are switched on.  A reader that breaks the     *)
(* payload into lines finds, for each family in turn, a HELP line exactly  *)
(* when help is on and not empty, which unescapes to the help text, a TYPE *)
(* line exactly when types are on, and one line for each sample, whose     *)
(* label values, cut at their quotes and unescaped, are those of the       *)
(* constant labels and then of the sample, and which ends in a timestamp   *)
(* exactly when they are on and the sample has one.  A sanitised name is   *)
(* legal and left alone when sanitised again.                              *)
TextReadsBack == registry.calls = 0 =>
    \A s \in Strings :
        /\ prometheus_sanitize_metric_name(prometheus_sanitize_metric_name(s)) = prometheus_sanitize_metric_name(s)
        /\ Elements(prometheus_sanitize_label_name(s)) \subseteq {"_", "a", "n", "0"}
        /\ prometheus_sanitize_label_name(s)[1] # "0" /\ prometheus_sanitize_metric_name(s)[1] # "0"
        /\ \A config \in TextConfigs(<<[name |-> s, value |-> s]>>) :
               LET name == prometheus_sanitize_metric_name(s)
                   sample(stamp) == [name |-> s, labels |-> <<[name |-> s, value |-> <<"a">>],
                                                             [name |-> s, value |-> s]>>, timestamp_ms |-> stamp]
                   family == [name |-> s, help |-> s, type |-> "gauge", samples |-> <<sample(0), sample(1)>>]
                   read == ReadLines(build_prometheus_text_payload(<<family, family>>, config))
                   help == IF config.include_help /\ s # <<>> THEN 1 ELSE 0
                   comments == help + (IF config.include_type THEN 1 ELSE 0)
               IN /\ Len(read) = 2 * (comments + 2)
                  /\ \A start \in {0, comments + 2} :
                         LET line(i) == read[start + i] IN
                         /\ help = 1 =>
                                /\ SubSeq(line(1), 1, Len(name) + 2) = <<"# HELP">> \o name \o <<" ">>
                                /\ Unescape(SubSeq(line(1), Len(name) + 3, Len(line(1)))) =
                                       [escaped |-> FALSE, value |-> s]
                         /\ config.include_type => line(comments) = <<"# TYPE">> \o name \o <<" ", "gauge">>
                         /\ \A i \in {1, 2} : ReadValues(line(comments + i)) = <<s, <<"a">>, s>>
                         /\ Last(line(comments + 1)) = "value"
                         /\ Last(line(comments + 2)) = IF config.include_timestamp THEN "timestamp" ELSE "value"

\* The registry and its text in one invariant.
Safety == TypeOK /\ LastRegistrationWins /\ CollectionIsComplete /\ TextReadsBack
=============================================================================
