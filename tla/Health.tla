------------------------------- MODULE Health -------------------------------
(***************************************************************************)
(* The health rollup (outputs/web/health.rs) from the sources of the       *)
(* plugins it looks at: mount tables and statvfs (plugins/fs.rs), the SNMP *)
(* storage tables, /proc/mdstat (plugins/raid.rs), the output of smartctl  *)
(* (plugins/smart), percents and temperatures.  Names are the places of    *)
(* things in their source; a share is a pair, so many of so many.          *)
(***************************************************************************)
EXTENDS Integers, Sequences, FiniteSets, SequencesExt

CONSTANTS
    Machines, \* what the sources may say: a function from the registered plugins
    Unknown   \* a figure that is not there

\* What sources are made of.
Figure == {Unknown} \cup Int
SmartLine == [kind : {"row"}, value : Nat, threshold : Nat] \cup [kind : {"ata", "nvme", "blank", "other"}]
Disk == [listed : BOOLEAN, exit : Nat, lines : Seq(SmartLine)]
MdLine == [kind : {"counts"}, total : Nat, working : Nat, down : Nat]
          \cup [kind : {"header"}, status : STRING] \cup [kind : {"blank", "other"}]
Space == [blocks : Nat, free : Nat, available : Nat]
MountLine == [whole : BOOLEAN, type : {"real", "pseudo"}, place : {"plain", "virtual"}, directory : BOOLEAN,
              blocks : {Unknown} \cup Space]
Sensor == [kind : STRING, value : Figure]
Alert == [word : STRING, age : Figure]

\* A blank line is between two arrays, and one line of an array has its counts.
Apart(lines) ==
    \A i, k \in DOMAIN lines :
        i < k /\ lines[i].kind = lines[k].kind /\ lines[i].kind \in {"header", "counts"} =>
            \E j \in i..k : lines[j].kind = "blank"

\* The cells of an agent's table: a row is a number, and so is what is not a path.
Table(cells) ==
    /\ IsFiniteSet(DOMAIN cells)
    /\ \A c \in DOMAIN cells : /\ c \in STRING \X Nat
                               /\ c[1] # "path" => cells[c] \in Nat

MachineOK(m) ==
    \A p \in DOMAIN m :
        CASE p = "alert" -> m[p] \in Seq(Alert)
          [] p = "fs" -> \/ m[p].from = "mounts" /\ m[p].table \in Seq(MountLine)
                         \/ m[p].from = "snmp" /\ m[p].units \in BOOLEAN /\ Table(m[p].cells)
          [] p \in {"mem", "memswap"} -> m[p] \in Figure
          [] p = "gpu" -> m[p] \in Seq(Figure)
          [] p = "sensors" -> m[p] \in Seq(Sensor)
          [] p = "raid" -> m[p] \in Seq(MdLine) /\ Apart(m[p])
          [] p = "smart" -> m[p] \in Seq(Disk)
          [] OTHER -> TRUE

ASSUME HealthAssumption == \A m \in Machines : MachineOK(m)

VARIABLES
    machine, \* what the sources say
    stats    \* the stats of the plugins after a tick

healthVars == <<machine, stats>>

Ok == 0
Warn == 1
Crit == 2

ShareOf(n, of) == [n |-> n, of |-> of]
Minus(a, b) == IF a > b THEN a - b ELSE 0

\* Numbers, least first: the places that a loop or a filter keeps.
InOrder(S) ==
    LET nth(n) == CHOOSE i \in S : Cardinality({j \in S : j <= i}) = n
    IN [n \in 1..Cardinality(S) |-> nth(n)]

-----------------------------------------------------------------------------
(* plugins/fs.rs, fs_rootfs.rs, platform/linux/statvfs.rs.                 *)

\* should_skip: pseudo file systems, and mounts below a virtual prefix.
ShouldSkip(m) == m.type = "pseudo" \/ m.place = "virtual"

\* statvfs_path: the share of what users may have; the rest is root's.
SpaceUsage(b) ==
    LET used == Minus(b.blocks, b.free) IN [total |-> b.blocks, percent |-> ShareOf(used, used + b.available)]

\* parse_mounts, read_mounts_under: lines that do not parse, what is no directory
\* and what statvfs cannot say are left out.
Mounts(table) ==
    LET kept == InOrder({i \in DOMAIN table : /\ table[i].whole /\ ~ShouldSkip(table[i])
                                              /\ table[i].directory /\ table[i].blocks # Unknown})
    IN [n \in DOMAIN kept |-> [name |-> kept[n], percent |-> SpaceUsage(table[kept[n]].blocks).percent]]

\* FsPlugin::update_snmp: dskTable gives percents, hrStorage counts of units.
SnmpMounts(t) ==
    LET cell(column, i) == IF <<column, i>> \in DOMAIN t.cells THEN t.cells[<<column, i>>] ELSE 0
        rows == {c[2] : c \in DOMAIN t.cells}
        size(i) == IF t.units THEN cell("alloc", i) * cell("units", i) ELSE cell("total", i)
        kept == InOrder({i \in rows : <<"path", i>> \in DOMAIN t.cells /\ size(i) # 0})
    IN [n \in DOMAIN kept |->
            [name |-> kept[n],
             percent |-> IF t.units THEN ShareOf(cell("used", kept[n]) * cell("alloc", kept[n]), size(kept[n]))
                         ELSE ShareOf(cell("percent", kept[n]), 100)]]

-----------------------------------------------------------------------------
(* plugins/raid.rs.                                                        *)

\* parse_mdstat: a block from a header to a blank line; counts are taken from the
\* line that has them, not from those that show progress.
Arrays(lines) ==
    LET header(l) == [status |-> l.status, total |-> 0, working |-> 0, failed |-> 0]
        counted(a, l) ==
            [a EXCEPT !.total = l.total, !.working = l.working,
                      !.failed = IF Minus(l.total, l.working) > l.down THEN Minus(l.total, l.working) ELSE l.down]
        ended(s) == [out |-> s.out \o s.block, block |-> <<>>]
        upTo[i \in 0..Len(lines)] ==
            IF i = 0 THEN [out |-> <<>>, block |-> <<>>]
            ELSE LET s == upTo[i - 1]
                     l == lines[i]
                 IN CASE l.kind = "blank" -> ended(s)
                      [] l.kind = "header" -> [s EXCEPT !.block = <<header(l)>>]
                      [] l.kind = "counts" /\ s.block # <<>> -> [s EXCEPT !.block = <<counted(s.block[1], l)>>]
                      [] OTHER -> s
    IN ended(upTo[Len(lines)]).out

-----------------------------------------------------------------------------
(* plugins/smart.                                                          *)

\* Fault form: a blank line does not end a table.
AfterLineBlankGoesOn(s, l) ==
    CASE l.kind = "nvme" -> [s EXCEPT !.table = "nvme"]
      [] l.kind = "ata" -> [s EXCEPT !.table = "ata"]
      [] l.kind = "row" /\ s.table = "ata" -> [s EXCEPT !.rows = Append(@, l)]
      [] OTHER -> s

\* One line of smartctl -a: a heading starts its table, a blank line ends it, and
\* in the table of attributes a row of ten columns is one.
AfterLine(s, l) ==
    CASE l.kind = "nvme" -> [s EXCEPT !.table = "nvme"]
      [] l.kind = "ata" -> [s EXCEPT !.table = "ata"]
      [] l.kind = "blank" -> [s EXCEPT !.table = "none"]
      [] l.kind = "row" /\ s.table = "ata" -> [s EXCEPT !.rows = Append(@, l)]
      [] OTHER -> s

\* parse_device_output.
Attributes(lines) ==
    LET upTo[i \in 0..Len(lines)] ==
            IF i = 0 THEN [table |-> "none", rows |-> <<>>] ELSE AfterLine(upTo[i - 1], lines[i])
    IN upTo[Len(lines)].rows

\* collect: the devices that the scan lists; one of which smartctl reports by its
\* exit status is left out.
Devices(disks) ==
    LET kept == InOrder({i \in DOMAIN disks : disks[i].listed /\ disks[i].exit = 0})
    IN [n \in DOMAIN kept |-> [name |-> kept[n], rows |-> Attributes(disks[kept[n]].lines)]]

-----------------------------------------------------------------------------
(* The checks.                                                             *)

Band(share, warn, crit) ==
    IF share.of = 0 THEN Ok
    ELSE IF share.n * 100 >= crit * share.of THEN Crit
    ELSE IF share.n * 100 >= warn * share.of THEN Warn ELSE Ok

Check(name, rank) == [name |-> name, rank |-> rank]

\* alert_check: an alert of unknown age counts, one older than the window does not.
AlertChecks(alerts) ==
    LET words == {alerts[i].word : i \in {j \in DOMAIN alerts : alerts[j].age = Unknown \/ alerts[j].age <= 60}}
    IN <<Check(<<"alerts">>, IF "CRITICAL" \in words THEN Crit
                             ELSE IF words \cap {"WARNING", "CAREFUL"} # {} THEN Warn ELSE Ok)>>

FsChecks(rows) == [i \in DOMAIN rows |-> Check(<<"fs", rows[i].name>>, Band(rows[i].percent, 90, 95))]

PctCheck(name, percent, warn, crit) ==
    IF percent = Unknown THEN <<>> ELSE <<Check(<<name>>, Band(ShareOf(percent, 100), warn, crit))>>

GpuChecks(temps) ==
    LET known == InOrder({i \in DOMAIN temps : temps[i] # Unknown})
    IN [n \in DOMAIN known |-> Check(<<"gpu", known[n]>>, Band(ShareOf(temps[known[n]], 100), 80, 90))]

\* temperature_check: the hottest sensor of those that tell a temperature.
TemperatureCheck(sensors) ==
    LET temps == {sensors[i].value : i \in {j \in DOMAIN sensors : sensors[j].kind = "temperature" /\ sensors[j].value # Unknown}}
    IN IF temps = {} THEN <<>>
       ELSE <<Check(<<"temperature">>, Band(ShareOf(CHOOSE t \in temps : \A u \in temps : t >= u, 100), 85, 95))>>

RaidChecks(arrays) ==
    LET rank(a) == IF a.failed > 0 THEN Crit ELSE IF a.working < a.total \/ a.status # "active" THEN Warn ELSE Ok
    IN [i \in DOMAIN arrays |-> Check(<<"raid", i>>, rank(arrays[i]))]

Failing(row) == row.threshold > 0 /\ row.value <= row.threshold

SmartChecks(devices) ==
    [i \in DOMAIN devices |->
        Check(<<"smart", devices[i].name>>,
              IF \E j \in DOMAIN devices[i].rows : Failing(devices[i].rows[j]) THEN Crit ELSE Ok)]

\* The checks of a rank, in their order.
OfRank(checks, r) ==
    LET places == InOrder({i \in DOMAIN checks : checks[i].rank = r})
    IN [n \in DOMAIN places |-> checks[places[n]]]

\* health_value: a check for every plugin there is, worst first.
ChecksOf(s) ==
    LET all == [p \in {"alert", "fs", "mem", "memswap", "gpu", "sensors", "raid", "smart"} |->
                    IF p \notin DOMAIN s THEN <<>>
                    ELSE CASE p = "alert" -> AlertChecks(s[p])
                           [] p = "fs" -> FsChecks(s[p])
                           [] p = "mem" -> PctCheck("memory", s[p], 90, 95)
                           [] p = "memswap" -> PctCheck("swap", s[p], 50, 90)
                           [] p = "gpu" -> GpuChecks(s[p])
                           [] p = "sensors" -> TemperatureCheck(s[p])
                           [] p = "raid" -> RaidChecks(s[p])
                           [] p = "smart" -> SmartChecks(s[p])]
        inOrder == FlattenSeq([n \in 1..8 |->
            all[<<"alert", "fs", "gpu", "mem", "raid", "smart", "memswap", "sensors">>[n]]])
    IN FlattenSeq([n \in 1..3 |-> OfRank(inOrder, <<Crit, Warn, Ok>>[n])])

HealthValue ==
    LET checks == ChecksOf(stats)
        count == [r \in Ok..Crit |-> Len(OfRank(checks, r))]
    IN [status |-> IF count[Crit] > 0 THEN Crit ELSE IF count[Warn] > 0 THEN Warn ELSE Ok,
        critical |-> count[Crit], warning |-> count[Warn], checks |-> checks]

-----------------------------------------------------------------------------
(* A tick over what the sources say.                                       *)

HealthInit ==
    /\ machine = [p \in {} |-> Unknown]
    /\ stats = [p \in {} |-> Unknown]

StatsOf(p, source) ==
    CASE p = "fs" -> IF source.from = "snmp" THEN SnmpMounts(source) ELSE Mounts(source.table)
      [] p = "raid" -> Arrays(source)
      [] p = "smart" -> Devices(source)
      [] OTHER -> source

HealthTick(m) ==
    /\ machine' = m
    /\ stats' = [p \in DOMAIN m |-> StatsOf(p, m[p])]

HealthNext == DOMAIN machine = {} /\ \E m \in Machines : HealthTick(m)
HealthSpec == HealthInit /\ [][HealthNext]_healthVars

-----------------------------------------------------------------------------
(* Properties.                                                             *)

\* A mount that users have no more than a twentieth left of.
Filled(line) ==
    /\ line.whole /\ line.type = "real" /\ line.place = "plain" /\ line.directory /\ line.blocks # Unknown
    /\ line.blocks.blocks > line.blocks.free
    /\ 5 * (line.blocks.blocks - line.blocks.free) >= 95 * line.blocks.available

\* A row of an agent's table that has all that is asked of it, and is full.
FullRow(t, i) ==
    LET tells(columns) == \A c \in columns : <<c, i>> \in DOMAIN t.cells
        of(column) == t.cells[<<column, i>>]
    IN IF t.units
       THEN /\ tells({"path", "alloc", "units", "used"})
            /\ of("alloc") > 0 /\ of("units") > 0 /\ 100 * of("used") >= 95 * of("units")
       ELSE tells({"path", "total", "percent"}) /\ of("total") > 0 /\ of("percent") >= 95

\* A disk that reports, with a row of the table of attributes at or below its threshold.
InTable(lines, i) ==
    \E h \in 1..i - 1 : lines[h].kind = "ata" /\ \A j \in h + 1..i - 1 : lines[j].kind \notin {"blank", "nvme"}

DiskFails(disk) ==
    /\ disk.listed /\ disk.exit = 0
    /\ \E i \in DOMAIN disk.lines :
        disk.lines[i].kind = "row" /\ InTable(disk.lines, i)
        /\ disk.lines[i].threshold # 0 /\ disk.lines[i].value <= disk.lines[i].threshold

\* An array whose lines, up to a blank one, count members that are down.
Heads(lines) == InOrder({i \in DOMAIN lines : lines[i].kind = "header"})
InBlock(lines, h, i) == h < i /\ \A j \in h + 1..i : lines[j].kind # "blank"

ArrayFails(lines, n) ==
    \E i \in DOMAIN lines :
        InBlock(lines, Heads(lines)[n], i) /\ lines[i].kind = "counts"
        /\ (lines[i].down > 0 \/ lines[i].working < lines[i].total)

\* What is wrong with a machine, by name.
Over(value, limit) == value # Unknown /\ value >= limit

CriticalOf(p, source) ==
    CASE p = "alert" ->
            {<<"alerts">> : i \in {j \in DOMAIN source : /\ source[j].word = "CRITICAL"
                                                       /\ ~Over(source[j].age, 61)}}
      [] p = "fs" ->
            {<<"fs", i>> : i \in IF source.from = "mounts" THEN {j \in DOMAIN source.table : Filled(source.table[j])}
                                ELSE {c[2] : c \in {d \in DOMAIN source.cells : FullRow(source, d[2])}}}
      [] p = "gpu" -> {<<"gpu", i>> : i \in {j \in DOMAIN source : Over(source[j], 90)}}
      [] p = "mem" -> {<<"memory">> : v \in {w \in {source} : Over(w, 95)}}
      [] p = "memswap" -> {<<"swap">> : v \in {w \in {source} : Over(w, 90)}}
      [] p = "raid" -> {<<"raid", n>> : n \in {k \in DOMAIN Heads(source) : ArrayFails(source, k)}}
      [] p = "sensors" ->
            {<<"temperature">> : i \in {j \in DOMAIN source : /\ source[j].kind = "temperature"
                                                             /\ Over(source[j].value, 95)}}
      [] p = "smart" -> {<<"smart", i>> : i \in {j \in DOMAIN source : DiskFails(source[j])}}
      [] OTHER -> {}

Critical(m) == UNION {CriticalOf(p, m[p]) : p \in DOMAIN m}

\* The rollup is critical when, and only when, something is, names each such thing
\* once and before all others, and counts them right: whatever surrounds a figure
\* in its source, and with no verdict on what said nothing.
HealthIsWorst ==
    \A page \in {HealthValue}, critical \in {Critical(machine)} :
        /\ (page.status = Crit) = (critical # {})
        /\ page.critical = Cardinality(critical)
        /\ {page.checks[i].name : i \in 1..page.critical} = critical
        /\ Cardinality({page.checks[i].name : i \in DOMAIN page.checks}) = Len(page.checks)
        /\ \A i, j \in DOMAIN page.checks : i < j => page.checks[i].rank >= page.checks[j].rank
=============================================================================
