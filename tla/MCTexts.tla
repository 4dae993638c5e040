------------------------------ MODULE MCTexts -------------------------------
(* Texts with a few values of every kind, and JSON texts with one symbol   *)
(* taken out, put in or changed.                                           *)
EXTENDS Texts

MCKeyOrder ==
    [i \in 1..19 |-> <<<<"content", "code", "error", "id", "jsonrpc", "key", "message", "method", "name", "params",
        "plugins", "result", "structuredContent", "text", "timestamp", "type", "x", "y", "z">>[i]>>]

Signed(n) == [k |-> "int", n |-> n]
Unsigned(n) == [k |-> "uint", n |-> n]
Array(s) == [k |-> "array", items |-> s]
Shown(s) == [k |-> "float", shown |-> s]

Hard == <<"quote", "backslash", "lf", ",", "cr", "tab", "ctl", "n", "astral">>

Leaves ==
    {Null, [k |-> "bool", b |-> TRUE], Signed(-4), Signed(3), Unsigned(7), Shown(<<"NaN">>), Shown(<<"1">>),
     Shown(<<"-", "1", ".", "1">>), Shown(<<"1", "e", "-", "1">>), Text(<<>>), Text(Hard)}
    \cup {Text(<<c>>) : c \in {"quote", "backslash", "lf", "x"}}

\* Keys x, y are plugins' and fields' names; <<"key">> names the row of a list.
SoleField(name, v) == [key \in {name} |-> v]
Listed(v, w) == Object([key \in {<<"key">>, <<"x">>} |-> IF key = <<"x">> THEN w ELSE v])

MCSnapshots ==
    {<<>>} \cup {SoleField(<<"x">>, v) : v \in Leaves}
    \cup {SoleField(<<"x">>, Object(SoleField(<<"y">>, v))) : v \in Leaves}
    \cup {[key \in {<<"x">>, <<"y">>} |-> IF key = <<"x">> THEN Array(<<Listed(Text(Hard), Text(Hard)), Null>>)
                                          ELSE Object([field \in {<<"x">>, <<"z">>} |-> Signed(1)])]}
    \cup {SoleField(<<"y">>, Array(<<Listed(Signed(0), Array(<<>>)), Text(<<"lf">>)>>)), SoleField(<<"y">>, Array(<<>>))}

MCSpecs == {<<>>, <<[plugin |-> <<"x">>, attr |-> <<>>]>>, <<[plugin |-> <<"y">>, attr |-> <<"x">>], [plugin |-> <<"x">>, attr |-> <<"y">>]>>}

Call(id, method, name) ==
    Object([key \in {<<"id">>, <<"method">>, <<"params">>} |->
        CASE key = <<"id">> -> id [] key = <<"method">> -> Text(method)
          [] key = <<"params">> -> Object(SoleField(<<"name">>, Text(name)))])

MCMessages ==
    {Call(Signed(1), <<"tools/call">>, name) : name \in {<<"glances.snapshot">>, <<"x", "quote", "backslash">>, <<"lf">>, <<>>}}
    \cup {Call(id, <<"tools/list">>, <<>>) : id \in {Null, Signed(-3), Unsigned(7), [k |-> "bool", b |-> FALSE], Text(<<"x", "quote", "lf", "backslash">>)}}
    \cup {Call(Text(<<"x">>), m, <<>>) : m \in {<<"initialize">>, <<"tab">>, <<"backslash", "n">>, <<"x", "cr">>}}
    \cup {Object(SoleField(<<"id">>, Signed(2)))}

\* What services answer, and what may become of it.
Answers ==
    {WriteJson(Object(SoleField(<<"x">>, v))) : v \in Leaves}
    \cup {WriteJson(Array(<<v, Null>>)) : v \in Leaves}
    \cup {WriteJson(Object([key \in {<<"x">>, <<"y">>} |-> Array(<<Object(<<>>), Object(SoleField(<<"z">>, Array(<<>>)))>>)])),
          <<"[", "quote", "backslash", "u", "h_hi", "backslash", "u", "h_lo", "quote", "]">>,
          <<"[", "-", "1", "0", ".", "0", "1", "e", "+", "1", "0", "]">>,
          <<"space", "{", "lf", "quote", "x", "quote", "tab", ":", "cr", "[", "1", ",", "true", "]", "}", "space">>}

Alphabet == {"quote", "backslash", "slash", "lf", "space", ",", ":", "[", "]", "{", "}", "-", ".", "e", "+", "0", "1",
             "x", "n", "u", "h_x", "h_hi", "h_lo", "true"}

MCHeard ==
    Answers
    \cup {SubSeq(t, 1, n) : t \in Answers, n \in {0}}
    \cup UNION {{SubSeq(t, 1, i - 1) \o SubSeq(t, i + 1, Len(t)) : i \in DOMAIN t} : t \in Answers}
    \cup UNION {{SubSeq(t, 1, i) \o <<c>> \o SubSeq(t, i + 1, Len(t)) : i \in 0..Len(t), c \in Alphabet} : t \in Answers}
    \cup UNION {{[t EXCEPT ![i] = c] : i \in DOMAIN t, c \in Alphabet} : t \in Answers}
=============================================================================
