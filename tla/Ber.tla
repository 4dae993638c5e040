-------------------------------- MODULE Ber --------------------------------
(***************************************************************************)
(* The BER codec under the SNMP client (core/snmp/proto.rs) and the        *)
(* decoding of a response (client.rs, parse_response).  A message is a     *)
(* sequence of bytes; a byte has Radix values, of which the upper half     *)
(* have the top bit.  Tags are renumbered to fit.                          *)
(***************************************************************************)
EXTENDS Integers, Sequences, FiniteSets, Functions

CONSTANTS
    Radix,     \* values of a byte
    Forty,     \* the factor of an OID's first byte
    IntBytes,     \* the bytes of an i64
    Responses, \* what an agent may answer
    TagOf      \* the tag byte of each kind

Half == Radix \div 2
LenOctets == 4
Octets == 0..Radix - 1

ASSUME BerAssumption ==
    /\ Radix \in Nat /\ Radix % 2 = 0 /\ Half > LenOctets
    /\ Forty \in 1..Half
    /\ IntBytes \in Nat \ {0}
    /\ \A k, l \in DOMAIN TagOf : TagOf[k] \in Octets /\ (k # l => TagOf[k] # TagOf[l])

VARIABLES
    sent,    \* the response an agent encodes, and what it puts around it
    datagram \* what arrives of it

berVars == <<sent, datagram>>

Bad == [bad |-> TRUE]

\* What a reader may find: a tag, its bytes and the place after them.
Element == [tag : Octets, body : Seq(Octets), next : Nat] \cup {Bad}

-----------------------------------------------------------------------------
(* Writing.                                                                *)

\* A number in the bytes it needs, most significant first; none for 0.
Digits(n, base) ==
    LET k == CHOOSE i \in 0..n : base^i > n /\ \A j \in 0..i - 1 : base^j <= n
    IN [i \in 1..k |-> (n \div base^(k - i)) % base]

\* emit_len: short form below the half, else the count of bytes and the bytes.
EmitLen[n \in Nat] == IF n < Half THEN <<n>> ELSE <<Half + Len(Digits(n, Radix))>> \o Digits(n, Radix)

Emit(kind, body) == <<TagOf[kind]>> \o EmitLen[Len(body)] \o body

\* A leading byte that only repeats the sign of the next one.
Redundant(bytes, i) ==
    \/ bytes[i] = 0 /\ bytes[i + 1] < Half
    \/ bytes[i] = Radix - 1 /\ bytes[i + 1] >= Half

\* emit_int_body: two's complement without redundant bytes.
EmitIntBody(v) ==
    LET bytes == [i \in 1..IntBytes |-> (v \div Radix^(IntBytes - i)) % Radix]
        start == CHOOSE i \in 1..IntBytes :
                    /\ \A j \in 1..i - 1 : Redundant(bytes, j)
                    /\ i < IntBytes => ~Redundant(bytes, i)
    IN SubSeq(bytes, start, IntBytes)

\* encode_oid: groups of seven bits, all but the last of a part marked.
EncodePart(v) ==
    LET groups == IF v = 0 THEN <<0>> ELSE Digits(v, Half)
    IN [i \in DOMAIN groups |-> IF i < Len(groups) THEN Half + groups[i] ELSE groups[i]]

EncodeOid(parts) ==
    LET from[i \in 3..Len(parts) + 1] == IF i > Len(parts) THEN <<>> ELSE EncodePart(parts[i]) \o from[i + 1]
    IN <<(parts[1] * Forty + parts[2]) % Radix>> \o from[3]

\* The agent's value of a variable.
EmitValue(v) ==
    CASE v.kind = "int" -> Emit("int", EmitIntBody(v.n))
      [] v.kind = "uint" -> Emit("uint", IF v.n = 0 THEN <<0>>
                                         ELSE IF Digits(v.n, Radix)[1] >= Half THEN <<0>> \o Digits(v.n, Radix)
                                         ELSE Digits(v.n, Radix))
      [] v.kind = "oid" -> Emit("oid", EncodeOid(v.parts))
      [] v.kind \in {"str", "ip"} -> Emit(v.kind, v.bytes)
      [] v.kind \in {"null", "exception"} -> Emit(v.kind, <<>>)

\* build_message, with the values an answer has in the place of nulls.
BuildMessage(m) ==
    LET row(b) == Emit("seq", Emit("oid", EncodeOid(b.oid)) \o EmitValue(b.value))
        rows[i \in 0..Len(m.bindings)] == IF i = 0 THEN <<>> ELSE rows[i - 1] \o row(m.bindings[i])
        pdu == Emit("int", EmitIntBody(m.id)) \o Emit("int", EmitIntBody(m.status)) \o Emit("int", EmitIntBody(0))
               \o Emit("seq", rows[Len(m.bindings)])
    IN Emit("seq", Emit("int", EmitIntBody(m.version)) \o Emit("str", m.community) \o Emit(m.pdu, pdu))

-----------------------------------------------------------------------------
(* Reading.                                                                *)

Number(bytes, base, first) ==
    LET upTo[i \in 0..Len(bytes)] == IF i = 0 THEN first ELSE upTo[i - 1] * base + bytes[i]
    IN upTo[Len(bytes)]

\* Reader::len, at p.
ReadLen(b, p) ==
    IF p > Len(b) THEN Bad
    ELSE IF b[p] < Half THEN [n |-> b[p], next |-> p + 1]
    ELSE LET k == b[p] - Half
         IN IF k \notin 1..LenOctets \/ p + k > Len(b) THEN Bad
            ELSE [n |-> Number(SubSeq(b, p + 1, p + k), Radix, 0), next |-> p + k + 1]

\* Fault form: the length is believed.
ReadTlvUnchecked(b, p) ==
    IF p > Len(b) \/ ReadLen(b, p + 1) = Bad THEN Bad
    ELSE LET l == ReadLen(b, p + 1)
             last == IF l.next + l.n - 1 > Len(b) THEN Len(b) ELSE l.next + l.n - 1
         IN [tag |-> b[p], body |-> SubSeq(b, l.next, last), next |-> last + 1]

\* Reader::tlv: truncated input is an error.
ReadTlv(b, p) ==
    IF p > Len(b) \/ ReadLen(b, p + 1) = Bad THEN Bad
    ELSE LET l == ReadLen(b, p + 1)
         IN IF l.next + l.n - 1 > Len(b) THEN Bad
            ELSE [tag |-> b[p], body |-> SubSeq(b, l.next, l.next + l.n - 1), next |-> l.next + l.n]

\* The elements of a run of bytes one after the other, Bad where one is not whole.
Sequenced[b \in Seq(Octets)] ==
    LET from[p \in 1..Len(b) + 1] ==
            IF p > Len(b) THEN <<>>
            ELSE LET e == ReadTlv(b, p) IN IF e = Bad THEN <<Bad>> ELSE <<e>> \o from[e.next]
    IN from[1]

\* The element at place i has the tag, if there is one.
Tagged(elements, i, kind) == i <= Len(elements) /\ elements[i] # Bad /\ elements[i].tag = TagOf[kind]

DecodeInt(body) ==
    IF Len(body) \notin 1..IntBytes THEN Bad
    ELSE [n |-> Number(body, Radix, IF body[1] >= Half THEN -1 ELSE 0)]

DecodeUint(body) == IF Len(body) > IntBytes THEN Bad ELSE [n |-> Number(body, Radix, 0)]

\* decode_oid: a part ends at a byte without the mark; what is left is dropped.
DecodeOid[body \in Seq(Octets)] ==
    IF body = <<>> THEN Bad
    ELSE LET ends == {i \in 2..Len(body) : body[i] < Half}
             after(i) == CHOOSE j \in {1} \cup ends : j < i /\ \A k \in ends : k < i => k <= j
             part(i) == LET bytes == SubSeq(body, after(i) + 1, i)
                        IN Number([k \in DOMAIN bytes |-> bytes[k] % Half], Half, 0)
             from[i \in 2..Len(body) + 1] ==
                IF i > Len(body) THEN <<>> ELSE IF i \in ends THEN <<part(i)>> \o from[i + 1] ELSE from[i + 1]
         IN [parts |-> <<body[1] \div Forty, body[1] % Forty>> \o from[2]]

\* decode_value.
DecodeValue[e \in Element] ==
    CASE e.tag = TagOf["int"] /\ DecodeInt(e.body) # Bad -> [kind |-> "int", n |-> DecodeInt(e.body).n]
      [] e.tag = TagOf["uint"] /\ DecodeUint(e.body) # Bad -> [kind |-> "uint", n |-> DecodeUint(e.body).n]
      [] e.tag = TagOf["oid"] /\ DecodeOid[e.body] # Bad -> [kind |-> "oid", parts |-> DecodeOid[e.body].parts]
      [] e.tag = TagOf["str"] -> [kind |-> "str", bytes |-> e.body]
      [] e.tag = TagOf["ip"] /\ Len(e.body) = 4 -> [kind |-> "ip", bytes |-> e.body]
      [] e.tag = TagOf["null"] -> [kind |-> "null"]
      [] e.tag = TagOf["exception"] -> [kind |-> "exception"]
      [] OTHER -> Bad

\* One variable of the list, from its name and value.
Binding[two \in Seq(Element)] ==
    IF ~Tagged(two, 1, "oid") \/ Len(two) < 2 \/ two[2] = Bad THEN Bad
    ELSE IF DecodeOid[two[1].body] = Bad \/ DecodeValue[two[2]] = Bad THEN Bad
    ELSE [oid |-> DecodeOid[two[1].body].parts, value |-> DecodeValue[two[2]]]

\* The variables of a list.
Bindings[rows \in Seq(Element)] ==
    [i \in DOMAIN rows |-> IF Tagged(rows, i, "seq") THEN Binding[Sequenced[rows[i].body]] ELSE Bad]

\* What is in the envelope of a response, <<>> if it is not one.
Opened[msg \in Seq(Element)] ==
    IF Tagged(msg, 1, "int") /\ Tagged(msg, 2, "str") /\ Tagged(msg, 3, "response")
    THEN Sequenced[msg[3].body] ELSE <<>>

\* parse_response: the envelope, the id that was sent, no error, the variables.
ParseResponse(raw, id) ==
    LET answer[pdu \in Seq(Element)] ==
            IF /\ Tagged(pdu, 4, "seq")
               /\ DecodeInt(pdu[1].body) = [n |-> id] /\ DecodeInt(pdu[2].body) = [n |-> 0]
               /\ Bad \notin Range(Bindings[Sequenced[pdu[4].body]])
            THEN [bindings |-> Bindings[Sequenced[pdu[4].body]]]
            ELSE Bad
        opened[e \in Element] ==
            IF e = Bad \/ e.tag # TagOf["seq"] THEN <<>> ELSE Opened[Sequenced[e.body]]
    IN answer[opened[ReadTlv(raw, 1)]]

-----------------------------------------------------------------------------
(* An agent answers; the datagram arrives whole or cut.                    *)

Silence == [id |-> 0, status |-> 0, version |-> 1, community |-> <<>>, pdu |-> "response", bindings |-> <<>>]

BerInit ==
    /\ sent = Silence
    /\ datagram = <<>>

Arrives(m) ==
    LET whole == BuildMessage(m)
    IN /\ sent' = m
       /\ \E n \in 0..Len(whole) : datagram' = SubSeq(whole, 1, n)

BerNext == sent = Silence /\ \E m \in Responses : Arrives(m)
BerSpec == BerInit /\ [][BerNext]_berVars

-----------------------------------------------------------------------------
(* Properties.                                                             *)

\* What fits the decoder: values in as many bytes as an i64.
FitsInt(v) == v.kind \in {"int", "uint"} => v.n < Half * Radix^(IntBytes - 1)

\* A whole response is read as it was meant, value for value, unless it is not
\* one or reports an error; one that is cut is never read as a response, whatever
\* its lengths say; and no number, length or part changes on the way (proto.rs:
\* "every length is validated").
ResponsesReadBack ==
    sent # Silence =>
        \A whole \in {BuildMessage(sent)}, read \in {ParseResponse(datagram, sent.id)} :
            /\ datagram = whole /\ (\A i \in DOMAIN sent.bindings : FitsInt(sent.bindings[i].value)) =>
                read = IF sent.pdu = "response" /\ sent.status = 0 THEN [bindings |-> sent.bindings] ELSE Bad
            /\ Len(datagram) < Len(whole) => read = Bad
=============================================================================
