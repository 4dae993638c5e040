------------------------------ MODULE Settings ------------------------------
(***************************************************************************)
(* From the configuration file to the words beside the figures: which file *)
(* is read (core/config_dir.rs), what its lines say (core/config.rs), the  *)
(* limits each plugin gets (core/stats.rs, core/alerts.rs), and the views  *)
(* that update_views builds with them (core/alert_views.rs, plugins), with *)
(* the commands of the words remembered (core/stats_actions.rs).           *)
(*                                                                         *)
(* A stat is the sequence of the words of its name after the plugin's.  A  *)
(* value is what its lookup makes of it: a number or NoLimit for a band, 0 *)
(* or 1 for LOG, a command for an action, which runs once or repeats.      *)
(* Limits are in tenths of a percent.  Plugins share nothing here, so one  *)
(* of them is followed.                                                    *)
(***************************************************************************)
EXTENDS AlertEngine, Sequences, SequencesExt

CONSTANTS
    Setups,  \* Setups[p]: where files are, when p is followed
    Updates, \* Updates[p]: the stats that an update of p may leave
    NCpu,    \* available_parallelism
    Rounds,  \* bound: ticks
    Commands, \* what an action runs
    Missing, Unreadable

\* What a line of a file may say.
FileLines ==
    [kind : {"skip", "bad"}]
    \cup [kind : {"header"}, name : STRING]
    \cup [kind : {"entry"}, stat : Seq(STRING), what : Bands, value : Int \cup {NoLimit}]
    \cup [kind : {"entry"}, stat : Seq(STRING), what : {"LOG"}, value : {0, 1}]
    \cup [kind : {"entry"}, stat : Seq(STRING), what : {"once", "repeat"}, value : Commands]

Setup ==
    [override : BOOLEAN, xdg : BOOLEAN, home : BOOLEAN, prefix : BOOLEAN,
     at : [{"override", "user", "system", "package", "cwd"} -> {Missing, Unreadable} \cup Seq(FileLines)]]

\* The states of the processor that are percentages, in the order of CPU_DESCS.
CpuStates == <<"total", "user", "system", "iowait", "dpc", "steal">>

\* What an update may leave.  No two interfaces or disks have one name; what is
\* mounted over another has its figures, as both are asked of the path.
OneEach(s) == \A n, k \in DOMAIN s : s[n].name = s[k].name => n = k
SameRoom(s) ==
    \A n, k \in DOMAIN s : /\ s[n].free <= s[n].size
                           /\ s[n].name = s[k].name => s[n].size = s[k].size /\ s[n].free = s[k].free
IsUpdate(p, s) ==
    CASE p = "network" -> s \in Seq([name : STRING, real : STRING, rx : Nat, tx : Nat, speed : Nat]) /\ OneEach(s)
      [] p = "diskio" -> s \in Seq([name : STRING, rx : Nat, tx : Nat]) /\ OneEach(s)
      [] p = "fs" -> s \in Seq([name : STRING, size : Nat, free : Nat, readOnly : BOOLEAN]) /\ SameRoom(s)
      [] p = "cpu" -> \E known \in SUBSET Range(CpuStates) :
                          s \in [percent : [known -> Nat], ctx : Nat, cores : Nat, since : Nat]
      [] p = "load" -> s \in [min5 : Nat, min15 : Nat, cores : Nat]
      [] p \in {"mem", "memswap"} -> s \in [used : Nat, total : Nat]
      [] p = "quicklook" -> s \in [cpu : Nat, mem : Nat, swap : Nat]

ASSUME SettingsAssumption ==
    /\ DOMAIN Setups \subseteq {"network", "diskio", "fs", "cpu", "load", "mem", "memswap", "quicklook"}
    /\ \A p \in DOMAIN Setups : Setups[p] \subseteq Setup /\ \A s \in Updates[p] : IsUpdate(p, s)
    /\ NCpu \in Nat /\ Rounds \in Nat
    /\ NoLimit \notin Int

VARIABLES
    followed,   \* the plugin
    setup,      \* which places have which file
    limits,     \* GlancesPluginModel::limits
    showing,      \* the stats of the last tick, <<>> before the first
    views,      \* views: a word for every figure that is classified
    thresholds, \* thresholds: the word remembered of every stat
    acted,      \* the commands handed on in the last tick
    rounds

settingsVars == <<followed, setup, limits, showing, views, thresholds, acted, rounds>>

EmptyMap == [x \in {} |-> x]

-----------------------------------------------------------------------------
(* The file.                                                               *)

\* candidate_paths: the places probed, in this order.
Probed == <<"user", "system", "package">>
CandidatePaths(s) ==
    {n \in 1..3 : \/ n = 1 /\ (s.xdg \/ s.home)
                  \/ n = 2 /\ s.home
                  \/ n = 3 /\ s.prefix}

FirstAmong(places) == CHOOSE n \in places : \A k \in places : n <= k

\* resolve: the first candidate that exists, else the first.
Resolve(s) ==
    LET existing == {n \in CandidatePaths(s) : s.at[Probed[n]] # Missing}
    IN IF s.override THEN "override"
       ELSE IF existing # {} THEN Probed[FirstAmong(existing)]
       ELSE IF CandidatePaths(s) # {} THEN Probed[FirstAmong(CandidatePaths(s))]
       ELSE "cwd"

WithEntry(f, key, value) == [k \in DOMAIN f \cup {key} |-> IF k = key THEN value ELSE f[k]]

\* Fault form: a section that comes again starts empty.
AfterLineOfSectionAnew(c, l) ==
    CASE l.kind = "skip" -> c
      [] l.kind = "header" ->
            [section |-> l.name,
             values |-> [k \in {x \in DOMAIN c.values : x[1] # l.name} |-> c.values[k]]]
      [] l.kind = "entry" ->
            [c EXCEPT !.values = WithEntry(@, <<c.section, l.stat, l.what>>, l.value)]

\* A line of Config::parse: the last value of a key stays.
AfterLineOf(c, l) ==
    CASE l.kind = "skip" -> c
      [] l.kind = "header" -> [c EXCEPT !.section = l.name]
      [] l.kind = "entry" ->
            [c EXCEPT !.values = WithEntry(@, <<c.section, l.stat, l.what>>, l.value)]

\* Config::parse and the fallback of main: a file with one line that is none of
\* these counts for nothing.
Config(s) ==
    LET file == s.at[Resolve(s)]
    IN IF file \in {Missing, Unreadable} THEN EmptyMap
       ELSE IF \E i \in DOMAIN file : file[i].kind = "bad" THEN EmptyMap
       ELSE LET after[i \in 0..Len(file)] ==
                    IF i = 0 THEN [section |-> "default", values |-> EmptyMap]
                    ELSE AfterLineOf(after[i - 1], file[i])
            IN after[Len(file)].values

-----------------------------------------------------------------------------
(* Limits.                                                                 *)

\* default_limit_entries, of the plugins that classify.
Banded(stats, careful, warning, critical) ==
    [k \in stats \X Bands |->
        CASE k[2] = "CAREFUL" -> careful [] k[2] = "WARNING" -> warning [] k[2] = "CRITICAL" -> critical]
Standard(stats) == Banded(stats, 500, 700, 900)

DefaultLimits(p) ==
    CASE p = "quicklook" -> Standard({<<p, "cpu">>, <<p, "mem">>, <<p, "swap">>})
      [] p = "cpu" -> WithDefaults(Standard({<<p, "user">>, <<p, "system">>, <<p, "steal">>, <<p, "iowait">>}),
                                   Banded({<<p, "ctx_switches">>}, 400000 * NCpu, 450000 * NCpu, 500000 * NCpu))
      [] p = "load" -> Banded({<<p>>}, 7, 10, 50)
      [] p \in {"mem", "memswap", "fs"} -> Standard({<<p>>})
      [] p = "network" -> Standard({<<p, "rx">>, <<p, "tx">>})
      [] OTHER -> EmptyMap

\* apply_limits_config: the plugin's section over its defaults.
LimitsOf(p, config) ==
    LET own == {k \in DOMAIN config : k[1] = p}
    IN WithDefaults(DefaultLimits(p),
                    [k \in {<<<<p>> \o x[2], x[3]>> : x \in own} |-> config[<<p, Tail(k[1]), k[2]>>]])

\* get_limit_log: <stat>_log, else <plugin>_log, else what the caller says.
LimitLog(stat, default) ==
    IF <<stat, "LOG">> \in DOMAIN limits THEN limits[<<stat, "LOG">>] # 0
    ELSE IF <<<<followed>>, "LOG">> \in DOMAIN limits THEN limits[<<<<followed>>, "LOG">>] # 0
    ELSE default

\* get_limit_action: the first of the four that is there.
LimitAction(word, stat) ==
    LET keys == <<<<stat \o <<word>>, "once">>, <<stat \o <<word>>, "repeat">>,
                  <<<<followed, word>>, "once">>, <<<<followed, word>>, "repeat">>>>
        there == {n \in 1..4 : keys[n] \in DOMAIN limits}
    IN {keys[n] : n \in {k \in there : \A j \in there : k <= j}}

-----------------------------------------------------------------------------
(* Views.                                                                  *)

\* A call of get_alert: the figure it is for, under which stat, with the default
\* for its log.
AlertCall(field, stat, current, maximum, highlightZero, log) ==
    [field |-> field, stat |-> <<followed>> \o stat, log |-> log,
     m |-> [current |-> 10 * current, minimum |-> 0, maximum |-> maximum, highlightZero |-> highlightZero]]

WordFor(c) == IF Unclassified(c.m) THEN "DEFAULT" ELSE Classify(limits, <<followed>>, c.stat, c.m)

\* The verdict of the link, only where there is none for the interface.
Again(direct, field, stat, current, speed) ==
    IF WordFor(direct) = "DEFAULT" /\ speed > 0
    THEN <<AlertCall(field, stat, current, speed, FALSE, FALSE)>> ELSE <<>>

\* NetworkPlugin::update_views, of one interface.
OfInterface(i) ==
    LET rx == AlertCall(<<i.name, "rx">>, <<i.real, "rx">>, 8 * i.rx, 100, TRUE, FALSE)
        tx == AlertCall(<<i.name, "tx">>, <<i.real, "tx">>, 8 * i.tx, 100, TRUE, FALSE)
    IN <<rx, tx>> \o Again(rx, rx.field, <<"rx">>, 8 * i.rx, i.speed)
                  \o Again(tx, tx.field, <<"tx">>, 8 * i.tx, i.speed)

\* DiskioPlugin::update_views.
OfDisk(d) ==
    <<AlertCall(<<d.name, "rx">>, <<d.name, "rx">>, d.rx, 100, TRUE, FALSE),
      AlertCall(<<d.name, "tx">>, <<d.name, "tx">>, d.tx, 100, TRUE, FALSE)>>

\* FsPlugin::update_views: none for what is mounted read-only.
OfMount(f) ==
    IF f.readOnly \/ f.size <= 0 THEN <<>>
    ELSE <<AlertCall(<<f.name, "used">>, <<f.name>>, f.size - f.free, f.size, FALSE, FALSE)>>

\* build_views with CPU_DESCS, then CpuPlugin::update_views.
OfCpu(s) ==
    LET described(f) ==
            IF f \in DOMAIN s.percent
            THEN <<AlertCall(<<f>>, <<f>>, s.percent[f], 100, FALSE, f # "steal")>> ELSE <<>>
        switches ==
            IF s.since = 0 THEN <<>>
            ELSE <<AlertCall(<<"ctx_switches">>, <<"ctx_switches">>, s.ctx, 100 * s.cores, FALSE, FALSE)>>
    IN FlattenSeq([n \in 1..7 |-> IF n <= 6 THEN described(CpuStates[n]) ELSE switches])

\* LoadPlugin::update_views: two figures under one stat.
OfLoad(s) ==
    <<AlertCall(<<"min15">>, <<>>, s.min15, 100 * s.cores, FALSE, TRUE),
      AlertCall(<<"min5">>, <<>>, s.min5, 100 * s.cores, FALSE, FALSE)>>

\* MemPlugin, MemswapPlugin::update_views.
OfMemory(s) == IF s.total = 0 THEN <<>> ELSE <<AlertCall(<<"percent">>, <<>>, s.used, s.total, FALSE, TRUE)>>

\* QuicklookPlugin::update_views.
OfQuicklook(s) ==
    LET summed(k) == AlertCall(<<k>>, <<k>>, s[k], 100, FALSE, FALSE)
    IN <<summed("cpu"), summed("mem"), summed("swap")>>

CallsFor(s) ==
    CASE followed = "network" -> FlattenSeq([n \in DOMAIN s |-> OfInterface(s[n])])
      [] followed = "diskio" -> FlattenSeq([n \in DOMAIN s |-> OfDisk(s[n])])
      [] followed = "fs" -> FlattenSeq([n \in DOMAIN s |-> OfMount(s[n])])
      [] followed = "cpu" -> OfCpu(s)
      [] followed = "load" -> OfLoad(s)
      [] followed \in {"mem", "memswap"} -> OfMemory(s)
      [] followed = "quicklook" -> OfQuicklook(s)

Verdict(c) ==
    [word |-> WordFor(c), logged |-> WordFor(c) # "DEFAULT" /\ LimitLog(c.stat, c.log)]

\* The last call for a figure leaves its word.
ViewsOf(calls) ==
    LET last(f) == CHOOSE n \in DOMAIN calls : calls[n].field = f /\ \A k \in DOMAIN calls : calls[k].field = f => k <= n
    IN [f \in {calls[n].field : n \in DOMAIN calls} |-> Verdict(calls[last(f)])]

-----------------------------------------------------------------------------
(* Steps.                                                                  *)

SettingsInit ==
    /\ followed \in DOMAIN Setups
    /\ setup \in Setups[followed]
    /\ limits = EmptyMap /\ showing = <<>> /\ views = EmptyMap /\ thresholds = EmptyMap
    /\ acted = {} /\ rounds = 0

\* main: the file is read once, then limits are given.
ReadConfig ==
    /\ rounds = 0
    /\ limits' = LimitsOf(followed, Config(setup))
    /\ rounds' = 1
    /\ UNCHANGED <<followed, setup, showing, views, thresholds, acted>>

\* after_update: the commands of the words remembered, then the views.
AfterUpdate(s) ==
    LET calls == CallsFor(s)
        told(stat) == {n \in DOMAIN calls : calls[n].stat = stat /\ ~Unclassified(calls[n].m)}
        last(of) == CHOOSE n \in of : \A k \in of : k <= n
        stats == {t \in {calls[n].stat : n \in DOMAIN calls} : told(t) # {}}
        live == {t \in DOMAIN thresholds : thresholds[t] \in Bands}
    IN /\ rounds \in 1..Rounds
       /\ rounds' = rounds + 1
       /\ showing' = s
       /\ acted' = UNION {{[stat |-> t, word |-> thresholds[t], command |-> limits[k]] :
                                k \in LimitAction(thresholds[t], t)} : t \in live}
       /\ views' = ViewsOf(calls)
       /\ thresholds' = WithDefaults(thresholds, [t \in stats |-> WordFor(calls[last(told(t))])])
       /\ UNCHANGED <<followed, setup, limits>>

SettingsNext == ReadConfig \/ \E s \in Updates[followed] : AfterUpdate(s)
SettingsSpec == SettingsInit /\ [][SettingsNext]_settingsVars

-----------------------------------------------------------------------------
(* Properties.                                                             *)

\* The file that is read; one that is not there, cannot be read or has a line
\* without a meaning says nothing.
FileMeant ==
    LET probed == <<"user", "system", "package">>
        open(n) == CASE n = 1 -> setup.xdg \/ setup.home [] n = 2 -> setup.home [] n = 3 -> setup.prefix
        there == {n \in 1..3 : open(n) /\ setup.at[probed[n]] # Missing}
        file == CASE setup.override -> setup.at["override"]
                  [] ~setup.override /\ there # {} -> setup.at[probed[CHOOSE n \in there : \A k \in there : n <= k]]
                  [] ~setup.override /\ there = {} -> IF \E n \in 1..3 : open(n) THEN Missing ELSE setup.at["cwd"]
    IN IF file \in {Missing, Unreadable} THEN <<>>
       ELSE IF \E i \in DOMAIN file : file[i].kind = "bad" THEN <<>> ELSE file

\* What a file says: the last value given to a key under a header of the plugin.
Says(file, stat, what) ==
    LET under(i) == \E h \in 1..i - 1 : /\ file[h].kind = "header" /\ file[h].name = followed
                                        /\ \A j \in h + 1..i - 1 : file[j].kind # "header"
        lines == {i \in DOMAIN file : /\ file[i].kind = "entry" /\ <<followed>> \o file[i].stat = stat
                                     /\ file[i].what = what /\ under(i)}
    IN {file[i].value : i \in {k \in lines : \A j \in lines : j <= k}}

\* The limit of a band: what is written of the stat, else what is built in, and
\* only when that is no number what holds for the plugin as a whole.
BoundOf(file, stat, band) ==
    LET own(t) == (IF Says(file, t, band) # {} THEN Says(file, t, band)
                   ELSE {DefaultLimits(followed)[k] : k \in {<<t, band>>} \cap DOMAIN DefaultLimits(followed)}) \ {NoLimit}
    IN IF own(stat) # {} THEN own(stat) ELSE own(<<followed>>)

\* The most severe band that a figure has reached; OK if it has any.
WordMeant(file, stat, current, maximum, zeroCounts) ==
    LET bounds == [b \in Bands |-> BoundOf(file, <<followed>> \o stat, b)]
        severity == <<"OK", "CAREFUL", "WARNING", "CRITICAL">>
        reached == {n \in 2..4 : \E v \in bounds[severity[n]] : current * 1000 >= v * maximum}
    IN IF maximum = 0 \/ (current = 0 /\ ~zeroCounts) \/ \A b \in Bands : bounds[b] = {} THEN "DEFAULT"
       ELSE severity[CHOOSE n \in {1} \cup reached : \A k \in reached : k <= n]

\* The words of the figures that are shown, each from its own figure.
WordsMeant(file) ==
    LET elements == DOMAIN showing
        link(i, d, rate) ==
            LET own == WordMeant(file, <<i.real, d>>, 8 * rate, 100, TRUE)
            IN IF own # "DEFAULT" \/ i.speed = 0 THEN own ELSE WordMeant(file, <<d>>, 8 * rate, i.speed, FALSE)
    IN CASE followed = "network" ->
              {<<<<showing[n].name, d>>, link(showing[n], d, showing[n][d])>> : n \in elements, d \in {"rx", "tx"}}
         [] followed = "diskio" ->
              {<<<<showing[n].name, d>>, WordMeant(file, <<showing[n].name, d>>, showing[n][d], 100, TRUE)>> :
                    n \in elements, d \in {"rx", "tx"}}
         [] followed = "fs" ->
              {<<<<showing[n].name, "used">>,
                 WordMeant(file, <<showing[n].name>>, showing[n].size - showing[n].free, showing[n].size, FALSE)>> :
                    n \in {k \in elements : ~showing[k].readOnly /\ showing[k].size > 0}}
         [] followed = "cpu" ->
              {<<<<f>>, WordMeant(file, <<f>>, showing.percent[f], 100, FALSE)>> : f \in DOMAIN showing.percent}
              \cup {<<<<"ctx_switches">>, WordMeant(file, <<"ctx_switches">>, showing.ctx, 100 * showing.cores, FALSE)>> :
                        k \in {1} \cap 1..showing.since}
         [] followed = "load" ->
              {<<<<f>>, WordMeant(file, <<>>, showing[f], 100 * showing.cores, FALSE)>> : f \in {"min5", "min15"}}
         [] followed \in {"mem", "memswap"} ->
              {<<<<"percent">>, WordMeant(file, <<>>, showing.used, showing.total, FALSE)>> : k \in {1} \cap 1..showing.total}
         [] followed = "quicklook" ->
              {<<<<f>>, WordMeant(file, <<f>>, showing[f], 100, FALSE)>> : f \in {"cpu", "mem", "swap"}}

CommandMeant(file, stat, word) ==
    LET said(t, how) == Says(file, t \o <<word>>, how)
    IN CASE said(stat, "once") # {} -> said(stat, "once")
         [] said(stat, "once") = {} /\ said(stat, "repeat") # {} -> said(stat, "repeat")
         [] OTHER -> IF said(<<followed>>, "once") # {} THEN said(<<followed>>, "once") ELSE said(<<followed>>, "repeat")

\* The words beside the figures are those of the limits that the user wrote, in
\* whichever file is read, in whichever order, with headers, keys and comments as
\* often as they come, over those built in; each figure of the last tick has its
\* word and nothing else has one; and a command that is handed on is the one
\* written for the word of its stat.
LimitsAsWritten ==
    rounds > 1 => \A file \in {FileMeant} :
        /\ {<<f, views[f].word>> : f \in DOMAIN views} = WordsMeant(file)
        /\ \A a \in acted : CommandMeant(file, a.stat, a.word) = {a.command}
=============================================================================
