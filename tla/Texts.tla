------------------------------- MODULE Texts -------------------------------
(***************************************************************************)
(* The texts this program writes and reads: the JSON writer (core/value.rs)*)
(* and parser (plugins/json), the streams of --stdout, --stdout-csv and    *)
(* --stdout-json, and the replies of the MCP endpoint.                     *)
(* A text is a sequence of symbols.  A word that is never taken apart, the *)
(* four digits of a \u escape, and every plain character are one symbol    *)
(* each; numbers are written in base 2.                                    *)
(***************************************************************************)
EXTENDS Integers, Sequences, SequencesExt

CONSTANTS
    KeyOrder,  \* the names in use (of fields and plugins), in byte order
    IntBits,      \* of an integer
    MaxDepth,  \* JsonParser: nested arrays and objects
    Snapshots, \* what the plugins may have to show
    Messages,  \* what an MCP client may send
    Heard,     \* what a service may answer
    Specs,     \* the lists given to the stdout options
    MaxTicks   \* bound: --stop-after

ASSUME TextsAssumption == IntBits \in Nat \ {0} /\ MaxDepth \in Nat \ {0} /\ MaxTicks \in Nat \ {0}

VARIABLES
    job,    \* what was started: a stream with its list, an MCP call, a service's answer
    shown,  \* the snapshots printed so far
    out,    \* the text written so far
    headed  \* csv_stdout: the header is out

textsVars == <<job, shown, out, headed>>

Null == [k |-> "null"]
Text(s) == [k |-> "string", chars |-> s]
Object(f) == [k |-> "object", fields |-> f]
Unread == [k |-> "none"]

Controls == {"lf", "cr", "tab", "ctl"}
Blanks == {"space", "lf", "cr", "tab"}
BinaryDigits == {"0", "1"}
Marks == {"quote", "backslash", "slash", ",", ":", "[", "]", "{", "}", "-", ".", "+"} \cup Controls \cup Blanks

\* What follows a backslash, and the four hex digits after \u, for what they mean.
Escapes == [c \in {"quote", "backslash", "slash", "n", "r", "t", "b", "f"} |->
    CASE c = "n" -> "lf" [] c = "r" -> "cr" [] c = "t" -> "tab" [] c \in {"b", "f"} -> "ctl" [] OTHER -> c]
CodePoint == [h \in {"h_x", "h_ctl"} |-> IF h = "h_x" THEN "x" ELSE "ctl"]

-----------------------------------------------------------------------------
(* core/value.rs: writing.                                                 *)

EscapeChar(c) ==
    CASE c \in {"quote", "backslash"} -> <<"backslash", c>>
      [] c = "lf" -> <<"backslash", "n">>
      [] c = "cr" -> <<"backslash", "r">>
      [] c = "tab" -> <<"backslash", "t">>
      [] c = "ctl" -> <<"backslash", "u", "h_ctl">>
      [] OTHER -> <<c>>

\* Fault form: backslashes are left as they are.
EscapeStrQuotesOnly(s) ==
    FlattenSeq([i \in DOMAIN s |-> IF s[i] = "backslash" THEN <<s[i]>> ELSE EscapeChar(s[i])])

EscapeStr(s) == FlattenSeq([i \in DOMAIN s |-> EscapeChar(s[i])])

QuotedStr(s) == <<"quote">> \o EscapeStr(s) \o <<"quote">>

Joined(parts) ==
    FlattenSeq([i \in DOMAIN parts |-> IF i = 1 THEN parts[i] ELSE <<",">> \o parts[i]])

\* An object from texts that are written already.
Braced(pairs) ==
    <<"{">> \o Joined([i \in DOMAIN pairs |-> QuotedStr(pairs[i][1]) \o <<":">> \o pairs[i][2]]) \o <<"}">>

BinaryText(n) ==
    LET size == CHOOSE i \in 1..IntBits + 1 : 2^i > n /\ (i > 1 => 2^(i - 1) <= n)
    IN [i \in 1..size |-> IF (n \div 2^(size - i)) % 2 = 0 THEN "0" ELSE "1"]

IntText(n) == IF n < 0 THEN <<"-">> \o BinaryText(-n) ELSE BinaryText(n)

\* write_float: a bare integer gets ".0"; NaN and infinities are null.
FloatText(f) ==
    CASE f.shown[1] \in {"NaN", "Inf", "-Inf"} -> <<"null">>
      [] {f.shown[i] : i \in DOMAIN f.shown} \cap {".", "e"} = {} -> f.shown \o <<".", "0">>
      [] OTHER -> f.shown

\* The keys of a BTreeMap, in its order.
KeysInOrder(f) == SelectSeq(KeyOrder, LAMBDA key : key \in DOMAIN f)

RECURSIVE WriteJson(_)
WriteJson(v) ==
    CASE v.k = "null" -> <<"null">>
      [] v.k = "bool" -> <<IF v.b THEN "true" ELSE "false">>
      [] v.k \in {"int", "uint"} -> IntText(v.n)
      [] v.k = "float" -> FloatText(v)
      [] v.k = "string" -> QuotedStr(v.chars)
      [] v.k = "array" -> <<"[">> \o Joined([i \in DOMAIN v.items |-> WriteJson(v.items[i])]) \o <<"]">>
      [] v.k = "object" ->
            LET keys == KeysInOrder(v.fields)
            IN Braced([i \in DOMAIN keys |-> <<keys[i], WriteJson(v.fields[keys[i]])>>])

-----------------------------------------------------------------------------
(* plugins/json: reading.  A reader returns what it read and the place     *)
(* after it, in a set that is empty if it does not read at that place.     *)

Taken(value, next) == [value |-> value, next |-> next]

SymbolAt(t, p) == IF p <= Len(t) THEN t[p] ELSE "end"

\* The place after the run of symbols of the set that starts at p.
After(t, p, set) ==
    CHOOSE q \in p..Len(t) + 1 : SymbolAt(t, q) \notin set /\ \A i \in p..q - 1 : SymbolAt(t, i) \in set

SkipWs(t, p) == After(t, p, Blanks)

BinaryValue(digits) ==
    LET value[i \in 0..Len(digits)] == IF i = 0 THEN 0 ELSE 2 * value[i - 1] + (IF digits[i] = "1" THEN 1 ELSE 0)
    IN value[Len(digits)]

\* A float is known by its shortest text, without a final ".0".
Float(text) ==
    LET n == Len(text)
    IN [k |-> "float", shown |-> IF n > 2 /\ SubSeq(text, n - 1, n) = <<".", "0">> THEN SubSeq(text, 1, n - 2) ELSE text]

\* The value of a number's text, in a set: what does not fit an integer has none.
NumberValue(text, isFloat) ==
    LET n == BinaryValue(SelectSeq(text, LAMBDA c : c # "-"))
    IN IF isFloat THEN {Float(text)}
       ELSE IF text[1] = "-" /\ n <= 2^(IntBits - 1) THEN {[k |-> "int", n |-> -n]}
       ELSE IF text[1] # "-" /\ n < 2^IntBits THEN {[k |-> "uint", n |-> n]}
       ELSE {}

ParseNumber(t, p) ==
    LET start == IF SymbolAt(t, p) = "-" THEN p + 1 ELSE p
        whole == CASE SymbolAt(t, start) = "0" -> start + 1
                   [] SymbolAt(t, start) = "1" -> After(t, start, BinaryDigits)
                   [] OTHER -> start
        point == SymbolAt(t, whole) = "."
        fraction == IF point THEN After(t, whole + 1, BinaryDigits) ELSE whole
        exponent == SymbolAt(t, fraction) = "e"
        power == IF SymbolAt(t, fraction + 1) \in {"+", "-"} THEN fraction + 2 ELSE fraction + 1
        end == IF exponent THEN After(t, power, BinaryDigits) ELSE fraction
    IN IF whole = start \/ (point /\ fraction = whole + 1) \/ (exponent /\ (power > Len(t) \/ end = power))
       THEN {}
       ELSE {Taken(v, end) : v \in NumberValue(SubSeq(t, p, end - 1), point \/ exponent)}

\* unicode_escape: a high surrogate needs its low one, which means nothing alone.
UnicodeEscape(t, p) ==
    IF SymbolAt(t, p) \in DOMAIN CodePoint THEN {Taken(CodePoint[SymbolAt(t, p)], p + 1)}
    ELSE IF [i \in 1..4 |-> SymbolAt(t, p + i - 1)] = <<"h_hi", "backslash", "u", "h_lo">>
    THEN {Taken("astral", p + 4)}
    ELSE {}

RECURSIVE CharsFrom(_, _, _)
CharsFrom(t, p, read) ==
    LET c == SymbolAt(t, p)
        e == SymbolAt(t, p + 1)
    IN CASE c = "quote" -> {Taken(read, p + 1)}
         [] c = "backslash" /\ e \in DOMAIN Escapes -> CharsFrom(t, p + 2, Append(read, Escapes[e]))
         [] c = "backslash" /\ e = "u" ->
                UNION {CharsFrom(t, u.next, Append(read, u.value)) : u \in UnicodeEscape(t, p + 2)}
         [] c \notin Controls \cup {"quote", "backslash", "end"} -> CharsFrom(t, p + 1, Append(read, c))
         [] OTHER -> {}

ParseString(t, p) == IF SymbolAt(t, p) = "quote" THEN CharsFrom(t, p + 1, <<>>) ELSE {}

\* expect_lit: a word, and nothing that would go on with it.
ParseWord(t, p) ==
    IF p < Len(t) /\ t[p + 1] \notin Marks THEN {}
    ELSE {Taken(IF t[p] = "null" THEN Null ELSE [k |-> "bool", b |-> t[p] = "true"], p + 1)}

RECURSIVE ParseValue(_, _, _), ItemsFrom(_, _, _, _), MembersFrom(_, _, _, _)

\* parse_array and parse_object, at their bracket.
ParseArray(t, p, depth) ==
    IF SymbolAt(t, p) # "[" \/ depth >= MaxDepth THEN {}
    ELSE UNION {IF SymbolAt(t, first) = "]" THEN {Taken([k |-> "array", items |-> <<>>], first + 1)}
                ELSE ItemsFrom(t, first, depth + 1, <<>>) : first \in {SkipWs(t, p + 1)}}

ParseObject(t, p, depth) ==
    IF SymbolAt(t, p) # "{" \/ depth >= MaxDepth THEN {}
    ELSE UNION {IF SymbolAt(t, first) = "}" THEN {Taken(Object(<<>>), first + 1)}
                ELSE MembersFrom(t, first, depth + 1, <<>>) : first \in {SkipWs(t, p + 1)}}

ValueAt(t, p, depth) ==
    LET c == SymbolAt(t, p)
    IN CASE c = "quote" -> {Taken(Text(s.value), s.next) : s \in ParseString(t, p)}
         [] c = "{" -> ParseObject(t, p, depth)
         [] c = "[" -> ParseArray(t, p, depth)
         [] c \in {"true", "false", "null"} -> ParseWord(t, p)
         [] c \in BinaryDigits \cup {"-"} -> ParseNumber(t, p)
         [] OTHER -> {}

ParseValue(t, from, depth) == UNION {ValueAt(t, p, depth) : p \in {SkipWs(t, from)}}

\* After an item or a member, at q: another one, or the end.
ItemsAfter(t, q, depth, items) ==
    CASE SymbolAt(t, q) = "," -> ItemsFrom(t, q + 1, depth, items)
      [] SymbolAt(t, q) = "]" -> {Taken([k |-> "array", items |-> items], q + 1)}
      [] OTHER -> {}

ItemsFrom(t, p, depth, read) ==
    UNION {ItemsAfter(t, SkipWs(t, v.next), depth, Append(read, v.value)) : v \in ParseValue(t, p, depth)}

MembersAfter(t, q, depth, fields) ==
    CASE SymbolAt(t, q) = "," -> MembersFrom(t, q + 1, depth, fields)
      [] SymbolAt(t, q) = "}" -> {Taken(Object(fields), q + 1)}
      [] OTHER -> {}

MembersFrom(t, from, depth, read) ==
    LET with(name, value) == [x \in DOMAIN read \cup {name} |-> IF x = name THEN value ELSE read[x]]
        named(key, colon) ==
            IF SymbolAt(t, colon) # ":" THEN {}
            ELSE UNION {MembersAfter(t, SkipWs(t, v.next), depth, with(key, v.value)) :
                            v \in ParseValue(t, colon + 1, depth)}
    IN UNION {named(key.value, SkipWs(t, key.next)) : key \in ParseString(t, SkipWs(t, from))}

\* Fault form: what follows the closing bracket is not looked at.
WholeAnything(t, reads) == {r.value : r \in reads}

\* Nothing but white space may follow.
Whole(t, reads) == {r.value : r \in {x \in reads : SkipWs(t, x.next) = Len(t) + 1}}

\* The two parsers services' answers go to.
ObjectIn(t) == Whole(t, ParseObject(t, SkipWs(t, 1), 0))
ArrayIn(t) == Whole(t, ParseArray(t, SkipWs(t, 1), 0))

-----------------------------------------------------------------------------
(* outputs: the streams.                                                   *)

\* filter_plugins: the listed plugins only; an empty list is none.
FilterPlugins(snapshot, list) ==
    IF list = <<>> THEN snapshot
    ELSE LET kept == {name \in DOMAIN snapshot : \E i \in DOMAIN list : list[i].plugin = name}
         IN [name \in kept |-> snapshot[name]]

\* csv_escape.
CsvEscape(s) ==
    IF {s[i] : i \in DOMAIN s} \cap {",", "quote", "lf", "cr"} = {} THEN s
    ELSE <<"quote">> \o FlattenSeq([i \in DOMAIN s |-> IF s[i] = "quote" THEN <<"quote", "quote">> ELSE <<s[i]>>])
         \o <<"quote">>

\* value_to_cell; a finite float has its two decimals, one symbol here.
ValueToCell(v) ==
    CASE v.k = "null" -> <<>>
      [] v.k = "bool" -> <<IF v.b THEN "true" ELSE "false">>
      [] v.k \in {"int", "uint"} -> IntText(v.n)
      [] v.k = "float" -> IF v.shown[1] \in {"NaN", "Inf", "-Inf"} THEN v.shown ELSE <<"two_decimals">>
      [] v.k = "string" -> v.chars
      [] v.k \in {"array", "object"} -> WriteJson(v)

\* The fields of the rows of one plugin: its name, a key, a cell.
PluginRows(name, v) ==
    LET keys == KeysInOrder(v.fields)
        rest(item) == LET f == item.fields IN Object([key \in DOMAIN f \ {<<"key">>} |-> f[key]])
        element(item) ==
            IF item.k # "object" THEN <<name, <<>>, ValueToCell(item)>>
            ELSE <<name, IF <<"key">> \in DOMAIN item.fields THEN ValueToCell(item.fields[<<"key">>]) ELSE <<>>,
                   WriteJson(rest(item))>>
    IN CASE v.k = "object" -> [i \in DOMAIN keys |-> <<name, keys[i], ValueToCell(v.fields[keys[i]])>>]
         [] v.k = "array" -> [i \in DOMAIN v.items |-> element(v.items[i])]
         [] OTHER -> <<<<name, <<>>, ValueToCell(v)>>>>

SnapshotRows(snapshot) ==
    LET names == KeysInOrder(snapshot)
    IN FlattenSeq([i \in DOMAIN names |-> PluginRows(names[i], snapshot[names[i]])])

\* row: time, plugin, key, value and two empty fields.
CsvRow(r) ==
    <<"time", ",">> \o CsvEscape(r[1]) \o <<",">> \o CsvEscape(r[2]) \o <<",">> \o CsvEscape(r[3]) \o <<",", ",", "lf">>

CsvHeader == <<"timestamp", ",", "plugin", ",", "key", ",", "value", ",", "unit", ",", "description", "lf">>

\* json_stdout, render_line.
JsonLine(snapshot) ==
    Braced(<<<<<<"timestamp">>, <<"1", ".", "1">>>>, <<<<"plugins">>, WriteJson(Object(snapshot))>>>>)

\* stdout_path, render_selector: what one selector finds.
Selected(snapshot, s) ==
    IF s.plugin \notin DOMAIN snapshot THEN <<>>
    ELSE LET v == snapshot[s.plugin]
             cell(w) == IF w.k = "null" THEN <<"null">> ELSE ValueToCell(w)
             keys == IF s.attr = <<>> THEN KeysInOrder(v.fields) ELSE SelectSeq(<<s.attr>>, LAMBDA a : a \in DOMAIN v.fields)
         IN CASE v.k = "object" -> [i \in DOMAIN keys |-> <<s.plugin, keys[i], cell(v.fields[keys[i]])>>]
              [] v.k # "object" /\ s.attr = <<>> -> <<<<s.plugin, <<>>, cell(v)>>>>
              [] OTHER -> <<>>

StdoutLines(snapshot, spec) == FlattenSeq([i \in DOMAIN spec |-> Selected(snapshot, spec[i])])

StdoutLine(l) == l[1] \o (IF l[2] = <<>> THEN <<>> ELSE <<".">> \o l[2]) \o <<":", "space">> \o l[3] \o <<"lf">>

-----------------------------------------------------------------------------
(* outputs/mcp: one JSON-RPC message.                                      *)

\* The text after the colon of the first place that spells the name.
FieldText(body, name) ==
    LET places == {i \in 1..Len(body) - 2 : SubSeq(body, i, i + 2) = <<"quote", name, "quote">>}
        first == CHOOSE i \in places : \A j \in places : i <= j
        colons == {i \in first + 3..Len(body) : body[i] = ":"}
        colon == CHOOSE i \in colons : \A j \in colons : i <= j
    IN IF places = {} \/ colons = {} THEN <<>> ELSE SubSeq(body, SkipWs(body, colon + 1), Len(body))

\* parse_quoted: only these escapes are undone.
RECURSIVE ParseQuoted(_, _)
ParseQuoted(t, read) ==
    LET undone == [c \in {"quote", "backslash", "n", "t"} |-> <<Escapes[c]>>]
    IN CASE t = <<>> -> Unread
         [] t # <<>> /\ t[1] = "quote" -> Text(read)
         [] t # <<>> /\ t[1] = "backslash" ->
                IF Len(t) < 2 THEN Unread
                ELSE ParseQuoted(SubSeq(t, 3, Len(t)), read \o (IF t[2] \in DOMAIN undone THEN undone[t[2]] ELSE SubSeq(t, 1, 2)))
         [] OTHER -> ParseQuoted(Tail(t), Append(read, t[1]))

ExtractString(body, name) ==
    LET t == FieldText(body, name) IN IF t # <<>> /\ t[1] = "quote" THEN ParseQuoted(Tail(t), <<>>) ELSE Unread

\* extract_value_field: a number goes by way of a float, and is an integer if it is whole.
ExtractValue(body, name) ==
    LET t == FieldText(body, name)
        digits == SubSeq(t, 1, After(t, 1, BinaryDigits \cup {".", "-"}) - 1)
        number == Float(digits).shown
        n == BinaryValue(SelectSeq(number, LAMBDA c : c # "-"))
    IN CASE SymbolAt(t, 1) = "quote" -> ParseQuoted(Tail(t), <<>>)
         [] SymbolAt(t, 1) \in {"true", "false"} -> [k |-> "bool", b |-> t[1] = "true"]
         [] SymbolAt(t, 1) \in BinaryDigits \cup {"-"} ->
                IF "." \in {number[i] : i \in DOMAIN number} THEN Float(digits)
                ELSE [k |-> "int", n |-> IF number[1] = "-" THEN -n ELSE n]
         [] SymbolAt(t, 1) = "null" -> Null
         [] OTHER -> Unread

Success(id, result) ==
    Braced(<<<<<<"jsonrpc">>, QuotedStr(<<"2.0">>)>>, <<<<"id">>, WriteJson(id)>>, <<<<"result">>, result>>>>)

\* error: only quotes and backslashes of the message are escaped.
Failure(id, message) ==
    LET said == FlattenSeq([i \in DOMAIN message |-> IF message[i] \in {"quote", "backslash"} THEN <<"backslash", message[i]>> ELSE <<message[i]>>])
        detail == Braced(<<<<<<"code">>, IntText(-1)>>, <<<<"message">>, <<"quote">> \o said \o <<"quote">>>>>>)
    IN Braced(<<<<<<"jsonrpc">>, QuotedStr(<<"2.0">>)>>, <<<<"id">>, WriteJson(id)>>, <<<<"error">>, detail>>>>)

Static(about) == Braced(<<<<<<"name">>, QuotedStr(<<about>>)>>>>)

\* tools/call: the snapshot twice, as a string of JSON and as JSON.
ToolResult(snapshot) ==
    LET whole == WriteJson(Object(snapshot))
        content == Braced(<<<<<<"type">>, QuotedStr(<<"text">>)>>, <<<<"text">>, QuotedStr(whole)>>>>)
    IN Braced(<<<<<<"content">>, <<"[">> \o content \o <<"]">>>>, <<<<"structuredContent">>, whole>>>>)

Handle(body, snapshot) ==
    LET method == ExtractString(body, "method")
        asked == ExtractValue(body, "id")
        id == IF asked = Unread THEN Null ELSE asked
        tool == ExtractString(body, "name")
        name == IF tool = Unread THEN <<>> ELSE tool.chars
    IN CASE method = Unread -> Failure(Null, <<"could not parse">>)
         [] method # Unread /\ method.chars \in {<<"initialize">>, <<"capabilities">>, <<"tools/list">>} ->
                Success(id, Static(method.chars[1]))
         [] method = Text(<<"tools/call">>) ->
                IF name = <<"glances.snapshot">> THEN Success(id, ToolResult(snapshot)) ELSE Failure(id, <<"unknown tool: ">> \o name)
         [] OTHER -> Failure(id, <<"unknown method: ">> \o method.chars)

-----------------------------------------------------------------------------
(* The program runs one of the streams, answers a call, or reads an answer.*)

TextsInit ==
    /\ job = [kind |-> "none"]
    /\ shown = <<>>
    /\ out = <<>>
    /\ headed = FALSE

\* An empty --stdout list is refused at once.
StartStream(kind, list, ticks) ==
    /\ kind = "stdout" => list # <<>>
    /\ job' = [kind |-> kind, list |-> list, stop |-> ticks]
    /\ UNCHANGED <<shown, out, headed>>

\* tick: the loops' counter is as large as what was printed; a stream whose
\* last tick is out has stopped.
Going(kind) == job.kind = kind /\ Len(shown) < job.stop

CsvTick(snapshot) ==
    /\ Going("csv")
    /\ LET rows == SnapshotRows(FilterPlugins(snapshot, job.list))
       IN out' = out \o (IF headed THEN <<>> ELSE CsvHeader) \o FlattenSeq([i \in DOMAIN rows |-> CsvRow(rows[i])])
    /\ headed' = TRUE
    /\ shown' = Append(shown, snapshot)
    /\ UNCHANGED job

JsonTick(snapshot) ==
    /\ Going("json")
    /\ out' = out \o JsonLine(FilterPlugins(snapshot, job.list)) \o <<"lf">>
    /\ shown' = Append(shown, snapshot)
    /\ UNCHANGED <<job, headed>>

StdoutTick(snapshot) ==
    /\ Going("stdout")
    /\ LET lines == StdoutLines(snapshot, job.list)
       IN out' = out \o FlattenSeq([i \in DOMAIN lines |-> StdoutLine(lines[i])])
    /\ shown' = Append(shown, snapshot)
    /\ UNCHANGED <<job, headed>>

AnswerCall(message, snapshot) ==
    /\ job' = [kind |-> "mcp", message |-> message]
    /\ shown' = <<snapshot>>
    /\ out' = Handle(WriteJson(message), snapshot)
    /\ UNCHANGED headed

Hear(text) ==
    /\ job' = [kind |-> "heard", text |-> text]
    /\ UNCHANGED <<shown, out, headed>>

TextsNext ==
    \/ job.kind = "none" /\ \E kind \in {"csv", "json", "stdout"}, list \in Specs, ticks \in 1..MaxTicks : StartStream(kind, list, ticks)
    \/ \E snapshot \in Snapshots : CsvTick(snapshot)
    \/ \E snapshot \in Snapshots : JsonTick(snapshot)
    \/ \E snapshot \in Snapshots : StdoutTick(snapshot)
    \/ job.kind = "none" /\ \E message \in Messages, snapshot \in Snapshots : AnswerCall(message, snapshot)
    \/ job.kind = "none" /\ \E text \in Heard : Hear(text)

TextsSpec == TextsInit /\ [][TextsNext]_textsVars

-----------------------------------------------------------------------------
(* What the texts mean to those who read them.                             *)

\* A value as JSON knows it: no sign of its type but its digits, no NaN.
RECURSIVE Meant(_)
Meant(v) ==
    CASE v.k = "int" /\ v.n >= 0 -> [k |-> "uint", n |-> v.n]
      [] v.k = "float" /\ v.shown[1] \in {"NaN", "Inf", "-Inf"} -> Null
      [] v.k = "array" -> [k |-> "array", items |-> [i \in DOMAIN v.items |-> Meant(v.items[i])]]
      [] v.k = "object" -> Object([key \in DOMAIN v.fields |-> Meant(v.fields[key])])
      [] OTHER -> v

\* The JSON grammar, by splitting a text instead of scanning it.
RECURSIVE IsBody(_), IsJson(_, _), IsList(_, _, _)

IsUnit(s) ==
    \/ Len(s) = 1 /\ s[1] \notin Controls \cup {"quote", "backslash"}
    \/ Len(s) = 2 /\ s[1] = "backslash" /\ s[2] \in DOMAIN Escapes
    \/ Len(s) = 3 /\ s[1] = "backslash" /\ s[2] = "u" /\ s[3] \in DOMAIN CodePoint
    \/ s = <<"backslash", "u", "h_hi", "backslash", "u", "h_lo">>

IsBody(s) == s = <<>> \/ \E n \in 1..Len(s) : n <= 6 /\ IsUnit(SubSeq(s, 1, n)) /\ IsBody(SubSeq(s, n + 1, Len(s)))

IsString(s) ==
    Len(s) >= 2 /\ s[1] = "quote" /\ s[Len(s)] = "quote" /\ IsBody(SubSeq(s, 2, Len(s) - 1))

AllDigits(s) == s # <<>> /\ \A i \in DOMAIN s : s[i] \in BinaryDigits

IsNumber(s) ==
    LET i0 == IF s # <<>> /\ s[1] = "-" THEN 2 ELSE 1
        whole(i) == LET w == SubSeq(s, i0, i) IN AllDigits(w) /\ (w[1] = "0" => Len(w) = 1)
        fraction(i, j) == j = i \/ (SymbolAt(s, i + 1) = "." /\ AllDigits(SubSeq(s, i + 2, j)))
        power(j) == j = Len(s)
            \/ /\ SymbolAt(s, j + 1) = "e"
               /\ \/ AllDigits(SubSeq(s, j + 2, Len(s)))
                  \/ SymbolAt(s, j + 2) \in {"+", "-"} /\ AllDigits(SubSeq(s, j + 3, Len(s)))
        fits == {s[i] : i \in DOMAIN s} \subseteq BinaryDigits \cup {"-"} => NumberValue(s, FALSE) # {}
    IN \E i \in i0..Len(s), j \in i0..Len(s) : i <= j /\ whole(i) /\ fraction(i, j) /\ power(j) /\ fits

Trimmed(s) ==
    LET inner == {i \in DOMAIN s : s[i] \notin Blanks}
        first == CHOOSE i \in inner : \A j \in inner : i <= j
        last == CHOOSE i \in inner : \A j \in inner : i >= j
    IN IF inner = {} THEN <<>> ELSE SubSeq(s, first, last)

\* Elements with commas between them: of an array, or of an object with their names.
IsList(s, depth, named) ==
    LET element(e) ==
            IF ~named THEN IsJson(e, depth)
            ELSE \E i \in DOMAIN e :
                    e[i] = ":" /\ IsString(Trimmed(SubSeq(e, 1, i - 1))) /\ IsJson(SubSeq(e, i + 1, Len(e)), depth)
    IN \/ element(s)
       \/ \E i \in DOMAIN s : s[i] = "," /\ element(SubSeq(s, 1, i - 1)) /\ IsList(SubSeq(s, i + 1, Len(s)), depth, named)

IsJson(text, depth) ==
    \E s \in {Trimmed(text)} :
        LET inner == SubSeq(s, 2, Len(s) - 1)
            within(open, close) == Len(s) >= 2 /\ s[1] = open /\ s[Len(s)] = close /\ depth > 0
        IN \/ s \in {<<"true">>, <<"false">>, <<"null">>}
           \/ IsString(s) \/ IsNumber(s)
           \/ within("[", "]") /\ (Trimmed(inner) = <<>> \/ IsList(inner, depth - 1, FALSE))
           \/ within("{", "}") /\ (Trimmed(inner) = <<>> \/ IsList(inner, depth - 1, TRUE))

\* A reader of CSV (RFC 4180): the records of a text, Unread if a quote stays open.
RECURSIVE CsvRecords(_, _, _, _)
CsvRecords(t, quoted, field, record) ==
    CASE t = <<>> -> IF quoted \/ field # <<>> \/ record # <<>> THEN <<Unread>> ELSE <<>>
      [] t # <<>> /\ quoted /\ t[1] = "quote" ->
            IF Len(t) > 1 /\ t[2] = "quote" THEN CsvRecords(SubSeq(t, 3, Len(t)), TRUE, Append(field, "quote"), record)
            ELSE CsvRecords(Tail(t), FALSE, field, record)
      [] t # <<>> /\ ~quoted /\ t[1] = "quote" -> CsvRecords(Tail(t), TRUE, field, record)
      [] t # <<>> /\ ~quoted /\ t[1] = "," -> CsvRecords(Tail(t), FALSE, <<>>, Append(record, field))
      [] t # <<>> /\ ~quoted /\ t[1] = "lf" -> <<Append(record, field)>> \o CsvRecords(Tail(t), FALSE, <<>>, <<>>)
      [] OTHER -> CsvRecords(Tail(t), quoted, Append(field, t[1]), record)

\* The lines of a text.
Lines(t) ==
    LET ends == SelectSeq([i \in DOMAIN t |-> i], LAMBDA i : t[i] = "lf")
    IN [n \in DOMAIN ends |-> SubSeq(t, (IF n = 1 THEN 0 ELSE ends[n - 1]) + 1, ends[n] - 1)]

-----------------------------------------------------------------------------
(* Properties.                                                             *)

\* What a JSON parser without a limit makes of an object's text, in a set.
ByJson(t) == Whole(t, ParseObject(t, SkipWs(t, 1), -Len(t)))

\* The stream of --stdout-csv is one document: a header, once, and for every tick
\* the six fields of every row, whatever quotes, commas and line ends the values
\* hold.
CsvReadsBack ==
    LET row(r) == <<<<"time">>, r[1], r[2], r[3], <<>>, <<>>>>
        rows(snapshot) == LET all == SnapshotRows(FilterPlugins(snapshot, job.list)) IN [i \in DOMAIN all |-> row(all[i])]
    IN job.kind = "csv" /\ shown # <<>> =>
        CsvRecords(out, FALSE, <<>>, <<>>) =
            <<<<<<"timestamp">>, <<"plugin">>, <<"key">>, <<"value">>, <<"unit">>, <<"description">>>>>>
            \o FlattenSeq([n \in DOMAIN shown |-> rows(shown[n])])

\* The stream of --stdout-json is one line of JSON for each tick.
JsonReadsBack ==
    job.kind = "json" =>
        /\ Len(Lines(out)) = Len(shown)
        /\ \A n \in DOMAIN shown :
            \E read \in ByJson(Lines(out)[n]) :
                read.fields[<<"plugins">>] = Meant(Object(FilterPlugins(shown[n], job.list)))

\* An MCP reply is one JSON object with the id of the message, a snapshot is in it
\* twice and the same; unless the message named something with a line end or a tab
\* in it, or its id has an escape that parse_quoted leaves alone.
McpReadsBack ==
    LET m == job.message.fields
        named == (IF <<"method">> \in DOMAIN m THEN m[<<"method">>].chars ELSE <<>>)
                 \o (IF <<"params">> \in DOMAIN m THEN m[<<"params">>].fields[<<"name">>].chars ELSE <<>>)
        raw == \E i \in DOMAIN named : named[i] \in {"lf", "tab"}
        twice(result, snapshot) ==
            /\ result[<<"structuredContent">>] = snapshot
            /\ ByJson(result[<<"content">>].items[1].fields[<<"text">>].chars) = {snapshot}
    IN job.kind = "mcp" /\ ~raw =>
        \E read \in ByJson(out) :
            /\ <<"id">> \in DOMAIN m /\ <<"method">> \in DOMAIN m => read.fields[<<"id">>] = Meant(m[<<"id">>])
            /\ named = <<"tools/call", "glances.snapshot">> =>
                twice(read.fields[<<"result">>].fields, Meant(Object(shown[1])))

\* What is written is read back as it was meant, by a JSON parser, by an MCP client
\* and by a reader of CSV.
TextsReadBack == CsvReadsBack /\ JsonReadsBack /\ McpReadsBack

\* A service's answer is read if and only if it is JSON (with no integer out of
\* range and no more nesting than MaxDepth), to the last symbol, and is an object or
\* an array as was asked (json/mod.rs: "Anything unusual ... returns None").
ParserIsGrammar ==
    job.kind = "heard" =>
        LET first == Trimmed(job.text)
            ok(open) == first # <<>> /\ first[1] = open /\ IsJson(job.text, MaxDepth)
        IN /\ (ObjectIn(job.text) # {}) = ok("{")
           /\ (ArrayIn(job.text) # {}) = ok("[")
=============================================================================
