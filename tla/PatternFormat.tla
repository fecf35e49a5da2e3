--------------------------- MODULE PatternFormat ---------------------------
(***************************************************************************)
(* SimpleLogFormatter and PatternCompiler: a pattern is compiled once into *)
(* format instructions, each record is rendered by applying them in order. *)
(* Text is a sequence of characters; the ones that matter to the compiler  *)
(* are themselves, "ESC" is the escape character, and a field of a record  *)
(* is any short text.                                                      *)
(***************************************************************************)
EXTENDS Callers, TLC

CONSTANTS Patterns,     \* patterns a caller may set
          LogRecords    \* records that may be formatted

VARIABLE formatter

(* FormatInstruction *)

Plain == [width |-> 0, left_align |-> FALSE, center_align |-> FALSE, truncate |-> FALSE]

StaticText(context, text, strip_ansi) ==
    Plain @@ [context |-> context, type |-> "StaticText", strip_ansi |-> strip_ansi, text |-> text]

Instruction(context, type, spec, strip_ansi, key) ==
    spec @@ [context |-> context, type |-> type, strip_ansi |-> strip_ansi, text |-> key]

\* an escape sequence runs from "ESC[" to the next letter
Letters == {"m", "v", "f", "n", "s", "c", "a", "b"}

RECURSIVE remove_ansi_escape_codes(_, _)
remove_ansi_escape_codes(input, in_escape_sequence) ==
    IF input = <<>> THEN <<>>
    ELSE IF in_escape_sequence
         THEN remove_ansi_escape_codes(Tail(input), Head(input) \notin Letters)
    ELSE IF Len(input) > 1 /\ input[1] = "ESC" /\ input[2] = "["
         THEN remove_ansi_escape_codes(Tail(Tail(input)), TRUE)
    ELSE <<Head(input)>> \o remove_ansi_escape_codes(Tail(input), FALSE)

Join(parts, separator) ==
    FlattenSeq([i \in DOMAIN parts |-> (IF i > 1 THEN separator ELSE <<>>) \o parts[i]])

Named(arg) == arg.name \o <<":">> \o arg.value

\* %v: the format applied to every argument, or the arguments with their names
ArgText(record, arg) ==
    LET formatted == record.format # <<>>
        text_like == {"STRING", "EXCEPTION", "ERROR_CODE"}
        composite == {"DURATION", "TIME_POINT", "POINTER", "SMART_POINTER", "VARIANT", "OPTIONAL"}
        named == IF formatted
                 THEN arg.type \notin text_like \cup composite \cup {"ENUM"} /\ arg.is_literal
                 ELSE /\ arg.type \notin text_like
                      /\ ~record.print_mode
                      /\ arg.type \in composite \cup {"PATH"} \/ arg.is_literal
    IN  IF named THEN Named(arg) ELSE arg.value

Message(record) ==
    IF record.args_array = <<>> THEN record.format
    ELSE Join([i \in DOMAIN record.args_array |-> ArgText(record, record.args_array[i])],
              IF record.print_mode THEN <<>> ELSE <<",", " ">>)

\* find_last_of("/\\")
Basename(path) ==
    LET cut == {0} \cup {i \in DOMAIN path : path[i] \in {"/", "\\"}}
    IN  SubSeq(path, 1 + CHOOSE i \in cut : \A j \in cut : j <= i, Len(path))

\* what an instruction prints before truncation and padding; a date, a level or
\* an identifier prints its own fixed text
Value(instruction, record) ==
    CASE instruction.type = "StaticText" -> instruction.text
      [] instruction.type = "Message" -> Message(record)
      [] instruction.type = "FileName" -> Basename(record.file)
      [] instruction.type = "FullFileName" -> record.file
      [] instruction.type = "SourceFileAndLine" -> record.file \o <<":", "7">>
      [] instruction.type = "FunctionName" -> record.function
      [] instruction.type = "MappedDiagnosticContext" ->
            Join([i \in DOMAIN record.mdc |-> record.mdc[i][1] \o <<"=">> \o record.mdc[i][2]], <<" ">>)
      [] instruction.type = "MappedDiagnosticContextValue" ->
            FlattenSeq([i \in DOMAIN record.mdc |->
                IF record.mdc[i][1] = instruction.text THEN record.mdc[i][2] ELSE <<>>])
      [] instruction.type = "NestedDiagnosticContext" -> Join(record.ndc, <<" ", ">", " ">>)
      [] instruction.type \in {"StartColor", "EndColor"} -> <<>>
      [] OTHER -> <<"d", "d">>

Truncate_Even(instruction, result) ==
    LET keep_size == (instruction.width - 3) \div 2
    IN  IF ~instruction.truncate \/ Len(result) <= instruction.width THEN result
        ELSE IF instruction.type \notin {"FileName", "FullFileName", "SourceFileAndLine", "FunctionName"}
        THEN SubSeq(result, 1, instruction.width)
        ELSE IF instruction.width <= 3 THEN SubSeq(<<".", ".", ".">>, 1, instruction.width)
        ELSE SubSeq(result, 1, keep_size) \o <<".", ".", ".">>
             \o SubSeq(result, Len(result) - keep_size + 1, Len(result))

\* a file or function name keeps both ends around "...", other text its beginning
Truncate(instruction, result) ==
    LET width == instruction.width
        keep_size == (width - 3) \div 2
        keep_end == Len(result) - keep_size - (width - (2 * keep_size + 3))
    IN  IF ~instruction.truncate \/ Len(result) <= width THEN result
        ELSE IF instruction.type \notin {"FileName", "FullFileName", "SourceFileAndLine", "FunctionName"}
        THEN SubSeq(result, 1, width)
        ELSE IF width <= 3 THEN SubSeq(<<".", ".", ".">>, 1, width)
        ELSE SubSeq(result, 1, keep_size) \o <<".", ".", ".">> \o SubSeq(result, keep_end + 1, Len(result))

Spaces(n) == [i \in 1 .. n |-> " "]

Align(instruction, result) ==
    LET missing == instruction.width - Len(result)
        padding == missing \div 2
    IN  IF missing <= 0 THEN result
        ELSE IF instruction.left_align THEN result \o Spaces(missing)
        ELSE IF instruction.center_align THEN Spaces(padding) \o result \o Spaces(missing - padding)
        ELSE Spaces(missing) \o result

\* the colour codes go to the stream itself, ahead of the (empty) aligned text
apply(instruction, record) ==
    IF instruction.context = "NoArgsFallback" /\ (record.format # <<>> \/ record.args_array # <<>>)
    THEN <<>>
    ELSE LET value  == Value(instruction, record)
             result == IF instruction.strip_ansi THEN remove_ansi_escape_codes(value, FALSE) ELSE value
             colour == IF instruction.type \in {"StartColor", "EndColor"} /\ ~instruction.strip_ansi
                       THEN <<"ESC", "[", "m">> ELSE <<>>
         IN  colour \o Align(instruction, Truncate(instruction, result))

(* PatternCompiler *)

Digits == {"0", "1", "2", "6"}
ValueOf(d) == CASE d = "0" -> 0 [] d = "1" -> 1 [] d = "2" -> 2 [] d = "6" -> 6

At(pattern, i, c) == i \in DOMAIN pattern /\ pattern[i] = c

Find(pattern, c, from) ==
    LET hits == {i \in from .. Len(pattern) : pattern[i] = c}
    IN  IF hits = {} THEN 0 ELSE CHOOSE i \in hits : \A j \in hits : i <= j

\* alignment, width and "!": the spec, and the place of the last character read.
\* Alignment_LastDigit forgets the digits read before
RECURSIVE Alignment(_, _, _)
Alignment_LastDigit(pattern, i, spec) ==
    IF i + 1 \notin DOMAIN pattern \/ pattern[i + 1] \notin Digits \cup {"-", "="}
    THEN [spec |-> spec, i |-> i]
    ELSE LET next == pattern[i + 1]
             read == CASE next = "-" -> [spec EXCEPT !.left_align = TRUE]
                       [] next = "=" -> [spec EXCEPT !.center_align = TRUE]
                       [] OTHER -> [spec EXCEPT !.width = ValueOf(next)]
         IN  IF At(pattern, i + 2, "!") THEN [spec |-> [read EXCEPT !.truncate = TRUE], i |-> i + 2]
             ELSE Alignment(pattern, i + 1, read)

Alignment(pattern, i, spec) ==
    IF i + 1 \notin DOMAIN pattern \/ pattern[i + 1] \notin Digits \cup {"-", "="}
    THEN [spec |-> spec, i |-> i]
    ELSE LET next == pattern[i + 1]
             read == CASE next = "-" -> [spec EXCEPT !.left_align = TRUE]
                       [] next = "=" -> [spec EXCEPT !.center_align = TRUE]
                       [] OTHER -> [spec EXCEPT !.width = @ * 10 + ValueOf(next)]
         IN  IF At(pattern, i + 2, "!") THEN [spec |-> [read EXCEPT !.truncate = TRUE], i |-> i + 2]
             ELSE Alignment(pattern, i + 1, read)

\* the specifiers that are one character long, or may be
Specifiers == [Y |-> "Year", m |-> "Month", d |-> "Day", H |-> "Hour", M |-> "Minute", S |-> "Second",
               C |-> "TwoDigitYear", c |-> "DateTime", D |-> "ShortDate", T |-> "TimeISO8601",
               X |-> "TimeISO8601", F |-> "DateISO8601", B |-> "FullMonthName", A |-> "FullWeekdayName",
               a |-> "AbbreviatedWeekdayName", L |-> "ShortLogLevel",
               e |-> "Millisecond", s |-> "TimeStamp",
               E |-> "TimeStamp", b |-> "AbbreviatedMonthName", l |-> "LogLevel", t |-> "ThreadId",
               K |-> "MappedDiagnosticContext", J |-> "NestedDiagnosticContext",
               f |-> "FileName", g |-> "FullFileName", v |-> "Message"]
              @@ ("@" :> "SourceFileAndLine" @@ "!" :> "FunctionName" @@ "#" :> "LineNumber")

\* the specifiers two or three characters long
LongSpecifiers == {<<<<"m", "s">>, "MilliSecondTimeStamp">>, <<<<"b", "s">>, "FileName">>,
                   <<<<"f", "n">>, "FileName">>, <<<<"f", "f", "n">>, "FullFileName">>}

\* "%sc" and "%SC" start, "%ec" and "%EC" end the stripping of escape codes
StripSwitches == {<<<<"s", "c">>, TRUE>>, <<<<"S", "C">>, TRUE>>,
                  <<<<"e", "c">>, FALSE>>, <<<<"E", "C">>, FALSE>>}

StartsAt(pattern, i, word) ==
    i + Len(word) - 1 <= Len(pattern) /\ SubSeq(pattern, i, i + Len(word) - 1) = word

RECURSIVE CompileFrom(_, _, _, _, _, _)
CompileFrom(pattern, i, context, buffer, strip_ansi, instructions) ==
    LET flushed == IF buffer = <<>> THEN instructions
                   ELSE Append(instructions, StaticText(context, buffer, strip_ansi))
    IN  IF i > Len(pattern) THEN flushed
        ELSE IF pattern[i] # "%"
        THEN CompileFrom(pattern, i + 1, context, Append(buffer, pattern[i]), strip_ansi, instructions)
        ELSE
        LET read == Alignment(pattern, i, Plain)
            at   == read.i + 1     \* the place of the specifier
            Emit(type, spec, key, last) ==
                CompileFrom(pattern, last + 1, context, <<>>, strip_ansi,
                    Append(flushed, Instruction(context, type, spec, strip_ansi, key)))
            Skip(last, strip) == CompileFrom(pattern, last + 1, context, <<>>, strip, flushed)
            long == {w \in LongSpecifiers : StartsAt(pattern, at, w[1])}
            switches == {w \in StripSwitches : StartsAt(pattern, at, w[1])}
            key_end == IF At(pattern, at + 1, "{") THEN Find(pattern, "}", at + 2) ELSE 0
            end == Find(pattern, ")", at + 2)
        IN  IF at > Len(pattern) THEN flushed
            ELSE IF switches # {} THEN LET w == CHOOSE w \in switches : TRUE
                                       IN  Skip(at + Len(w[1]) - 1, w[2])
            ELSE IF long # {} THEN LET w == CHOOSE w \in long : TRUE
                                   IN  Emit(w[2], read.spec, <<>>, at + Len(w[1]) - 1)
            ELSE IF pattern[at] = "K" /\ key_end # 0
            THEN Emit("MappedDiagnosticContextValue", read.spec,
                      SubSeq(pattern, at + 2, key_end - 1), key_end)
            ELSE IF pattern[at] = "N"
            THEN IF ~(at + 2 <= Len(pattern) /\ pattern[at + 1] = "(") THEN Skip(at, strip_ansi)
                 ELSE IF end = 0 THEN Skip(at + 1, strip_ansi)
                 ELSE CompileFrom(pattern, end + 1, context, <<>>, strip_ansi,
                          flushed \o CompileFrom(SubSeq(pattern, at + 2, end - 1), 1,
                                                 "NoArgsFallback", <<>>, FALSE, <<>>))
            ELSE IF pattern[at] \in {"^", "$"}
            THEN Emit(IF pattern[at] = "^" THEN "StartColor" ELSE "EndColor", Plain, <<>>, at)
            ELSE IF pattern[at] \in DOMAIN Specifiers
            THEN Emit(Specifiers[pattern[at]], read.spec, <<>>, at)
            ELSE CompileFrom(pattern, at + 1, context, <<pattern[at]>>, strip_ansi, flushed)

compile(pattern) == CompileFrom(pattern, 1, "Default", <<>>, FALSE, <<>>)

(* SimpleLogFormatter *)

DefaultPattern == <<"[", "%", "l", "]", " ", "%", "^", "%", "v", "%", "$">>

Start == {[pattern |-> DefaultPattern, json_format |-> FALSE,
           instructions |-> compile(DefaultPattern), calls |-> 0]}

Init == formatter \in Start

set_pattern(pattern, json_format) ==
    /\ formatter.calls < MaxCalls
    /\ formatter' = [formatter EXCEPT !.calls = @ + 1, !.pattern = pattern,
                                      !.json_format = json_format, !.instructions = compile(pattern)]

format_as_pattern(instructions, record) ==
    FlattenSeq([i \in DOMAIN instructions |-> apply(instructions[i], record)])

\* backslash and quote get a backslash, a control character its letter or number
escape_json_string(input) ==
    FlattenSeq([i \in DOMAIN input |->
        CASE input[i] \in {"\"", "\\"} -> <<"\\", input[i]>>
          [] input[i] = "NL" -> <<"\\", "n">>
          [] input[i] = "ESC" -> <<"\\", "u", "001b">>
          [] OTHER -> <<input[i]>>])

\* the text fields of the object, each between quotes; numbers are left out
format_as_json(record) ==
    FlattenSeq([i \in 1 .. 3 + Len(record.args_array) |->
        <<"\"">> \o escape_json_string(
            CASE i = 1 -> record.file [] i = 2 -> record.function [] i = 3 -> record.format
              [] OTHER -> record.args_array[i - 3].value) \o <<"\"">>])

format(record) ==
    IF formatter.json_format THEN format_as_json(record)
    ELSE format_as_pattern(formatter.instructions, record)

Next == \E pattern \in Patterns, json_format \in BOOLEAN : set_pattern(pattern, json_format)

Spec == Init /\ [][Next]_formatter

-----------------------------------------------------------------------------

\* The values the state may take.
TypeOK ==
    /\ formatter.calls \in 0 .. MaxCalls
    /\ formatter.instructions = compile(formatter.pattern)

\* one pattern that means the instruction: the canonical way to write it
Width(n) == IF n >= 10 THEN <<ToString(n \div 10), ToString(n % 10)>> ELSE <<ToString(n)>>

Spelled(instruction) ==
    IF instruction.type = "StaticText"
    THEN FlattenSeq([i \in DOMAIN instruction.text |->
             IF instruction.text[i] = "%" THEN <<"%", "%">> ELSE <<instruction.text[i]>>])
    ELSE <<"%">> \o (IF instruction.left_align THEN <<"-">> ELSE <<>>)
         \o (IF instruction.center_align THEN <<"=">> ELSE <<>>)
         \o (IF instruction.width > 0 \/ instruction.truncate THEN Width(instruction.width) ELSE <<>>)
         \o (IF instruction.truncate THEN <<"!">> ELSE <<>>)
         \o CASE instruction.type = "MappedDiagnosticContextValue" ->
                    <<"K", "{">> \o instruction.text \o <<"}">>
              [] instruction.type = "MilliSecondTimeStamp" -> <<"m", "s">>
              [] instruction.type = "StartColor" -> <<"^">>
              [] instruction.type = "EndColor" -> <<"$">>
              [] OTHER -> <<CHOOSE c \in DOMAIN Specifiers : Specifiers[c] = instruction.type>>

Canonical(instructions) ==
    FlattenSeq([i \in DOMAIN instructions |->
        LET strip == IF instructions[i].strip_ansi THEN <<"%", "s", "c">> ELSE <<"%", "e", "c">>
        IN  IF instructions[i].context = "Default" THEN strip \o Spelled(instructions[i])
            ELSE <<"%", "N", "(">> \o strip \o Spelled(instructions[i]) \o <<")">>])

\* instructions of every type, with every combination of the flags
Specs == [width : {0, 6, 12}, left_align : BOOLEAN, center_align : BOOLEAN, truncate : BOOLEAN]

Fields(specs) ==
    {Instruction(context, type, spec, strip_ansi, <<>>) :
        context \in {"Default", "NoArgsFallback"}, strip_ansi \in BOOLEAN, spec \in specs,
        type \in {Specifiers[c] : c \in DOMAIN Specifiers} \cup {"MilliSecondTimeStamp"}}

Others(specs) ==
    {Instruction(context, "MappedDiagnosticContextValue", spec, strip_ansi, <<"k">>) :
        context \in {"Default", "NoArgsFallback"}, strip_ansi \in BOOLEAN, spec \in specs}
    \cup {Instruction(context, type, Plain, strip_ansi, <<>>) :
        context \in {"Default", "NoArgsFallback"}, strip_ansi \in BOOLEAN, type \in {"StartColor", "EndColor"}}
    \cup {Instruction(context, "StaticText", Plain, strip_ansi, text) :
        context \in {"Default", "NoArgsFallback"}, strip_ansi \in BOOLEAN, text \in {<<"x">>, <<"%", "y">>}}

\* "%6!" cuts what follows: a function name is either without flags or cut
Writable(instruction) ==
    instruction.type = "FunctionName" =>
        instruction.truncate \/ (instruction.width = 0 /\ ~instruction.left_align /\ ~instruction.center_align)

\* What is no well-formed specifier, after any flags: the instructions that are left
\* of it, and the character that would give it another meaning if it came later.
Malformed ==
    LET text(t) == <<StaticText("Default", t, FALSE)>>
        piece(end, left, until) == [end |-> end, left |-> left, until |-> until]
        pieces(spec) ==
            {piece(<<>>, <<>>, "%"), piece(<<"q">>, text(<<"q">>), "none"),
             piece(<<"^">>, <<Instruction("Default", "StartColor", Plain, FALSE, <<>>)>>, "none"),
             piece(<<"N">>, <<>>, "none"), piece(<<"N", "x">>, text(<<"x">>), "none"),
             piece(<<"N", "(">>, text(<<"(">>), "%"), piece(<<"N", "(", "x">>, text(<<"x">>), ")"),
             piece(<<"K", "{", "x">>, <<Instruction("Default", "MappedDiagnosticContext", spec, FALSE, <<>>)>>
                                      \o text(<<"{", "x">>), "}")}
        flags == {<<<<>>, Plain>>, <<<<"1", "2">>, [Plain EXCEPT !.width = 12]>>,
                  <<<<"=", "6", "!">>, [Plain EXCEPT !.width = 6, !.center_align = TRUE, !.truncate = TRUE]>>}
    IN  UNION {{[m EXCEPT !.end = <<"%">> \o f[1] \o m.end] : m \in pieces(f[2])} : f \in flags}

\* compile() reads what a pattern says.  Every instruction, with every combination of
\* width, alignment, "!", stripping and "%N(...)", is what its spelling compiles to
\* (a function name that is aligned and not cut has none, for "%6!" means the cut);
\* and two of them in a row, with something malformed before, between or behind,
\* compile to the two and to what is left of that, so nothing carries over from one to
\* the next.  What is left is named: a "%" at the end with its flags, an "N" without
\* "(" and the "N(" of a group that is not closed vanish, the flags of an unknown
\* specifier, of "%%" and of a colour are dropped, its character stays as text, and
\* "%K{" without "}" is "%K" and text.
CompileReadsPattern == formatter.calls = 0 =>
    /\ \A one \in Fields(Specs) \cup Others(Specs) : Writable(one) => compile(Canonical(<<one>>)) = <<one>>
    /\ LET some == {f \in Fields({[Plain EXCEPT !.width = 6, !.truncate = TRUE]}) \cup Others({Plain}) :
                       f.type \in {"Month", "MappedDiagnosticContextValue", "StaticText"}}
            default == <<"%", "e", "c">>
       IN  \A one, two \in some, m \in Malformed :
               /\ compile(Canonical(<<one, two>>) \o default \o m.end) = <<one, two>> \o m.left
               /\ m.until \notin Elements(Canonical(<<two>>)) =>
                      compile(Canonical(<<one>>) \o default \o m.end \o Canonical(<<two>>)) =
                          <<one>> \o m.left \o <<two>>

\* the escape character twice in a row: what is left of it may form a new sequence
Doubled(text) == \E i \in 1 .. Len(text) - 1 : text[i] = "ESC" /\ text[i + 1] = "ESC"
HasEscape(text) == \E i \in 1 .. Len(text) - 1 : text[i] = "ESC" /\ text[i + 1] = "["

\* apply() pads to the width and never cuts unless told to; with "!" the field is
\* exactly the width, and a file or function name that is cut is its beginning, "..."
\* and its end in equal parts; stripped text has no escape sequence, unless the text doubled the
\* character.
FieldsFit ==
    \A i \in DOMAIN formatter.instructions, record \in LogRecords :
        LET instruction == formatter.instructions[i]
            width == instruction.width
            full == IF instruction.strip_ansi
                    THEN remove_ansi_escape_codes(Value(instruction, record), FALSE)
                    ELSE Value(instruction, record)
            out  == Align(instruction, Truncate(instruction, full))
            cut  == width > 3 /\ Len(full) > Len(out)
        IN  /\ Len(out) >= width
            /\ IF instruction.truncate THEN Len(out) = width ELSE Len(out) >= Len(full)
            /\ instruction.type \in {"FileName", "FullFileName", "SourceFileAndLine", "FunctionName"} /\ cut =>
                  \E ahead \in 0 .. width, behind \in 0 .. width :
                      /\ ahead <= behind /\ behind <= ahead + 1
                      /\ out = SubSeq(full, 1, ahead) \o <<".", ".", ".">>
                                \o SubSeq(full, Len(full) - behind + 1, Len(full))
            /\ instruction.strip_ansi /\ ~Doubled(Value(instruction, record)) => ~HasEscape(apply(instruction, record))

\* reading a JSON text back: the strings between unescaped quotes, unescaped
RECURSIVE Unquote(_, _, _)
Unquote(text, inside, acc) ==
    IF text = <<>> THEN <<>>
    ELSE IF Head(text) = "\"" THEN (IF inside THEN <<acc>> ELSE <<>>) \o Unquote(Tail(text), ~inside, <<>>)
    ELSE IF Head(text) # "\\" THEN Unquote(Tail(text), inside, Append(acc, Head(text)))
    ELSE IF text[2] = "u" THEN Unquote(SubSeq(text, 4, Len(text)), inside, Append(acc, "ESC"))
    ELSE Unquote(SubSeq(text, 3, Len(text)), inside,
                 Append(acc, IF text[2] = "n" THEN "NL" ELSE text[2]))

\* format_as_json() loses nothing: a JSON reader gets back the file, the function,
\* the format and every argument, whatever quotes and control characters they hold.
JsonReadsBack ==
    \A record \in LogRecords :
        Unquote(format_as_json(record), FALSE, <<>>)
        = <<record.file, record.function, record.format>>
          \o [i \in DOMAIN record.args_array |-> record.args_array[i].value]

\* The formatter's contract in one invariant.
Safety == TypeOK /\ CompileReadsPattern /\ FieldsFit /\ JsonReadsBack

=============================================================================
