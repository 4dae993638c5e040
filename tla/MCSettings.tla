----------------------------- MODULE MCSettings ------------------------------
(* Settings with files of up to three lines, of which every order and every  *)
(* repetition is taken, and of a few in more places than one.                *)
EXTENDS Settings

CONSTANTS Mail, Syslog
MCCommands == {Mail, Syslog}

SkipLine == [kind |-> "skip"]
BadLine == [kind |-> "bad"]
SectionLine(name) == [kind |-> "header", name |-> name]
EntryLine(stat, what, value) == [kind |-> "entry", stat |-> stat, what |-> what, value |-> value]

\* A machine with one file, in the user's directory.
Nowhere == [p \in {"override", "user", "system", "package", "cwd"} |-> Missing]
UsersFile(file) ==
    [override |-> FALSE, xdg |-> FALSE, home |-> TRUE, prefix |-> FALSE, at |-> [Nowhere EXCEPT !["user"] = file]]

FilesOf(lines, n) == UNION {[1..k -> lines] : k \in 0..n}

CpuLines ==
    {SectionLine("cpu"), SectionLine("CPU"), SkipLine, EntryLine(<<>>, "CAREFUL", 400), EntryLine(<<"user">>, "CAREFUL", 600),
     EntryLine(<<"user">>, "CAREFUL", NoLimit), EntryLine(<<"user", "WARNING">>, "repeat", Mail)}
CpuFiles ==
    {<<SectionLine("cpu")>> \o f : f \in FilesOf(CpuLines, 3)}
    \cup {<<SectionLine("cpu"), EntryLine(<<"user">>, "CAREFUL", 600)>> \o f : f \in FilesOf({BadLine, SectionLine("mem")}, 1)}
    \cup {<<SectionLine("cpu"), EntryLine(<<"WARNING">>, "once", Syslog), EntryLine(<<"user", "WARNING">>, h, Mail),
            EntryLine(<<"user">>, "LOG", 0)>> : h \in {"once", "repeat"}}

\* Two files or three that differ, with an override or without.
InPlaces ==
    LET file(v) == <<SectionLine("mem"), EntryLine(<<>>, "CAREFUL", v)>>
        files == {Missing, Unreadable, file(300), file(600)}
    IN {[override |-> o, xdg |-> x, home |-> h, prefix |-> p,
         at |-> [override |-> file(200), user |-> u, system |-> s, package |-> file(800), cwd |-> file(100)]] :
            o, x, h, p \in BOOLEAN, u, s \in files}

NetworkFiles ==
    {<<SectionLine("network")>> \o f :
        f \in FilesOf({EntryLine(<<"eth0", "rx">>, "CAREFUL", 400), EntryLine(<<"rx">>, "CAREFUL", 600), EntryLine(<<>>, "WARNING", 8000),
                       EntryLine(<<"rx">>, "LOG", 1)}, 2)}

MCSetups ==
    LET files == [p \in {"cpu", "network", "load", "memswap", "fs", "diskio", "quicklook"} |->
        CASE p = "cpu" -> CpuFiles
          [] p = "network" -> NetworkFiles
          [] p = "load" -> {<<>>, <<SectionLine("load"), EntryLine(<<>>, "WARNING", 20)>>,
                <<SectionLine("load"), EntryLine(<<"WARNING">>, "once", Mail)>>}
          [] p = "memswap" -> {<<>>, <<SectionLine("memswap"), EntryLine(<<>>, "LOG", 0)>>}
          [] p = "fs" -> {<<>>, <<SectionLine("fs"), EntryLine(<<"root">>, "CRITICAL", 950)>>,
                <<SectionLine("fs"), EntryLine(<<>>, "CRITICAL", NoLimit)>>}
          [] p = "diskio" -> {<<>>, <<SectionLine("diskio"), EntryLine(<<"sda", "tx">>, "CAREFUL", 0)>>,
                <<SectionLine("diskio"), EntryLine(<<>>, "CAREFUL", 500)>>}
          [] p = "quicklook" -> {<<>>, <<SectionLine("quicklook"), EntryLine(<<"mem">>, "CAREFUL", NoLimit), EntryLine(<<>>, "CAREFUL", 300)>>}]
    IN [p \in DOMAIN files \cup {"mem"} |-> IF p = "mem" THEN InPlaces ELSE {UsersFile(f) : f \in files[p]}]

Interface(name, rx, speed) == [name |-> name, real |-> "eth0", rx |-> rx, tx |-> 0, speed |-> speed]
Cpu(user, ctx, since) ==
    [percent |-> [f \in {"user", "steal"} |-> IF f = "user" THEN user ELSE 55], ctx |-> ctx, cores |-> 2, since |-> since]
Of(used, total) == [used |-> used, total |-> total]
Loads(min5, min15) == [min5 |-> min5, min15 |-> min15, cores |-> 1]
Mounted(name, free, readOnly) == [name |-> name, size |-> 100, free |-> free, readOnly |-> readOnly]
DiskRates(name, rx, tx) == [name |-> name, rx |-> rx, tx |-> tx]

MCUpdates ==
    [p \in DOMAIN MCSetups |->
        CASE p = "cpu" -> {Cpu(u, 0, 0) : u \in {45, 70}} \cup {Cpu(0, 100000, 1)}
          [] p = "network" -> {<<>>, <<Interface("eth0", 6, 100)>>, <<Interface("eth0:1", 100, 0), Interface("eth0", 0, 1600)>>}
          [] p = "load" -> {Loads(a, b) : a, b \in {0, 1, 5}}
          [] p = "memswap" -> {Of(0, 0), Of(0, 100), Of(50, 100)}
          [] p = "mem" -> {Of(55, 100)}
          [] p = "fs" -> {<<>>, <<Mounted("root", 8, FALSE), Mounted("cdrom", 0, TRUE)>>, <<Mounted("root", 4, TRUE), Mounted("root", 4, FALSE)>>}
          [] p = "diskio" -> {<<>>, <<DiskRates("sda", 60, 0)>>, <<DiskRates("sda", 0, 0), DiskRates("sdb", 50, 1)>>}
          [] p = "quicklook" -> {[cpu |-> c, mem |-> 35, swap |-> 0] : c \in {0, 90}}]
=============================================================================
