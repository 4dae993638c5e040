------------------------------- MODULE MCBer -------------------------------
(* Ber with bytes of four bits, of which integers have two.                *)
EXTENDS Ber

MCTags ==
    [k \in {"seq", "int", "str", "null", "oid", "ip", "uint", "exception", "response", "get"} |->
        CASE k = "int" -> 2 [] k = "seq" -> 3 [] k = "str" -> 4 [] k = "null" -> 5 [] k = "oid" -> 6
          [] k = "ip" -> 7 [] k = "uint" -> 8 [] k = "exception" -> 9 [] k = "response" -> 10 [] k = "get" -> 11]

Ints == {-128, -127, -9, -8, -1, 0, 1, 7, 8, 15, 16, 127}
OidParts == {0, 1, 7, 8, 63, 64, 600}

Values ==
    {[kind |-> "int", n |-> n] : n \in Ints} \cup {[kind |-> "uint", n |-> n] : n \in {0, 7, 8, 127, 128, 255}}
    \cup {[kind |-> "oid", parts |-> <<1, 3, p, q>>] : p, q \in OidParts}
    \cup {[kind |-> "str", bytes |-> [i \in 1..n |-> 9]] : n \in {0, 1, 7, 8, 17}}
    \cup {[kind |-> "ip", bytes |-> <<1, 2, 3, 4>>], [kind |-> "null"], [kind |-> "exception"]}

Message(id, status, pdu, bindings) ==
    [id |-> id, status |-> status, version |-> 1, community |-> <<1>>, pdu |-> pdu, bindings |-> bindings]
Row(v) == [oid |-> <<1, 3, 9>>, value |-> v]

MCResponses ==
    {Message(5, 0, "response", <<Row(v)>>) : v \in Values}
    \cup {Message(id, 0, "response", <<>>) : id \in Ints}
    \cup {Message(1, s, "response", <<>>) : s \in {2, 5}}
    \cup {Message(1, 0, "get", <<>>)}
    \cup {Message(9, 0, "response", <<Row(v), Row(w)>>) : v, w \in {[kind |-> "null"], [kind |-> "int", n |-> -9]}}
=============================================================================
