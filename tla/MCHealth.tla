------------------------------ MODULE MCHealth -------------------------------
(* Health with one or two plugins at a time, each with texts of a few lines.*)
EXTENDS Health

Line(kind) == [kind |-> kind]
AttributeRow(value, threshold) == [kind |-> "row", value |-> value, threshold |-> threshold]

SmartLines ==
    {Line("ata"), Line("nvme"), Line("blank"), Line("other"), AttributeRow(100, 10), AttributeRow(10, 10),
     AttributeRow(0, 0), AttributeRow(9, 10)}
SmartTexts == UNION {[1..n -> SmartLines] : n \in 0..3} \cup {<<Line("ata"), AttributeRow(100, 10), l, AttributeRow(9, 10)>> : l \in SmartLines}
SomeDisk(lines) == [listed |-> TRUE, exit |-> 0, lines |-> lines]
Dying == <<Line("ata"), AttributeRow(9, 10)>>

\* Arrays are apart by blank lines.
CountsLine(total, working, down) == [kind |-> "counts", total |-> total, working |-> working, down |-> down]
Header(status) == [kind |-> "header", status |-> status]
Blocks ==
    {<<Header(s)>> \o lines : s \in {"active", "inactive"},
        lines \in {<<>>, <<CountsLine(2, 2, 0)>>, <<CountsLine(2, 1, 1)>>, <<CountsLine(2, 1, 0), Line("other")>>,
                   <<CountsLine(2, 2, 1)>>, <<Line("other"), CountsLine(3, 3, 0), Line("other")>>}}
MdTexts ==
    {<<>>, <<Line("other")>>} \cup {<<Line("other")>> \o b : b \in Blocks}
    \cup {b \o <<Line("blank")>> \o c \o <<Line("blank"), Line("other")>> : b, c \in Blocks}

Storage(blocks, free, available) == [blocks |-> blocks, free |-> free, available |-> available]
Mount(type, place, directory, blocks) ==
    [whole |-> TRUE, type |-> type, place |-> place, directory |-> directory, blocks |-> blocks]
Sizes == {Unknown, Storage(0, 0, 0), Storage(100, 10, 5), Storage(100, 10, 10), Storage(100, 5, 5), Storage(100, 6, 0),
          Storage(200, 20, 9), Storage(100, 100, 95)}
SomeMounts ==
    {Mount("real", "plain", TRUE, b) : b \in Sizes}
    \cup {Mount(t, p, d, Storage(100, 0, 0)) : t \in {"real", "pseudo"}, p \in {"plain", "virtual"}, d \in BOOLEAN}
    \cup {[Mount("real", "plain", TRUE, Storage(100, 0, 0)) EXCEPT !.whole = FALSE]}
FromMounts(table) == [from |-> "mounts", table |-> table]

\* A row of an agent's table, which may lack cells.
Cells(columns) == [c \in {<<k, i>> : k \in DOMAIN columns, i \in 1..1} |-> columns[c[1]]]
FromSnmp(units, columns) == [from |-> "snmp", units |-> units, cells |-> Cells(columns)]
SnmpTables ==
    {FromSnmp(FALSE, [path |-> "p", total |-> 9, percent |-> 95]), FromSnmp(FALSE, [path |-> "p", total |-> 9, percent |-> 94]),
     FromSnmp(FALSE, [path |-> "p", percent |-> 95]), FromSnmp(FALSE, [total |-> 9, percent |-> 95]),
     FromSnmp(TRUE, [path |-> "p", alloc |-> 4, units |-> 20, used |-> 19]),
     FromSnmp(TRUE, [path |-> "p", alloc |-> 4, units |-> 20, used |-> 18]),
     FromSnmp(TRUE, [path |-> "p", alloc |-> 4, used |-> 18])}

Percents == {Unknown, 0, 49, 50, 79, 80, 84, 85, 89, 90, 94, 95, 100}
SomeSensor(kind, value) == [kind |-> kind, value |-> value]
SomeAlert(word, age) == [word |-> word, age |-> age]

Sources ==
    {<<"smart", <<SomeDisk(t)>>>> : t \in SmartTexts}
    \cup {<<"smart", <<[listed |-> l, exit |-> e, lines |-> Dying], SomeDisk(Dying)>>>> : l \in BOOLEAN, e \in {0, 8}}
    \cup {<<"raid", t>> : t \in MdTexts}
    \cup {<<"fs", FromMounts(t)>> : t \in UNION {[1..n -> SomeMounts] : n \in 0..2}}
    \cup {<<"fs", t>> : t \in SnmpTables}
    \cup {<<p, v>> : p \in {"mem", "memswap"}, v \in Percents}
    \cup {<<"gpu", <<v, w>>>> : v, w \in {Unknown, 80, 89, 90}}
    \cup {<<"sensors", <<SomeSensor(k, v), SomeSensor("temperature", w)>>>> : k \in {"temperature", "fan"}, v, w \in {Unknown, 84, 94, 95}}
    \cup {<<"alert", <<SomeAlert(w, a), SomeAlert("CRITICAL", 61)>>>> : w \in {"CRITICAL", "WARNING", "OK"}, a \in {Unknown, 0, 60, 61}}

\* One source, or one beside another plugin that is critical or fine.
Beside == {<<"mem", 95>>, <<"mem", 10>>, <<"memswap", 60>>, <<"smart", <<SomeDisk(Dying)>>>>}
MCMachines ==
    {[p \in {s[1]} |-> s[2]] : s \in Sources}
    \cup {[p \in {s[1], b[1]} |-> IF p = s[1] THEN s[2] ELSE b[2]] : s \in Sources, b \in Beside}
=============================================================================
