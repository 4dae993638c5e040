--------------------------- MODULE CounterPlugins ---------------------------
(***************************************************************************)
(* The plugins that turn cumulative counters into what happened since they *)
(* last looked: plugins/network.rs (local and SNMP), diskio.rs, irq.rs,    *)
(* power.rs, cpu.rs, percpu.rs and processlist/mod.rs.                     *)
(*                                                                         *)
(* The kernel (or the agent) keeps a counter per element: an interface, a  *)
(* disk, an interrupt line, a CPU, a process.  Elements move their         *)
(* counters, wrap them, go and come back between any two updates.  Each    *)
(* plugin keeps a baseline and differs from the others in what it does     *)
(* with it when a reading fails or an element is missing.  A rate is a     *)
(* reported difference over the time since the plugin's window began, so a *)
(* rate is right when its difference is of that window.                    *)
(*                                                                         *)
(* One plugin is followed, chosen at the start; the plugins share nothing. *)
(* prev_time is set whenever a baseline is, so it is not a variable: what  *)
(* it decides is where the window begins.                                  *)
(***************************************************************************)
EXTENDS Naturals, FiniteSets

CONSTANTS
    NElements, \* bound: elements that may exist
    Width,     \* counters are modulo Width
    MaxRows,   \* MAX_NICS of network, the 5 of irq
    MaxTraffic \* bound: what an element moves in all

Elements == 1..NElements
Count == 0..Width - 1

\* The plugins, and those whose differences should add up.
Followed ==
    {"network", "network_snmp", "diskio", "irq", "power", "cpu", "percpu", "processlist"}
Additive == {"network", "diskio", "irq", "power", "cpu"}

ASSUME CounterAssumption ==
    /\ {NElements, Width, MaxRows, MaxTraffic} \subseteq Nat
    /\ NElements > 0 /\ Width > 0

VARIABLES
    plugin,   \* the plugin followed
    present,  \* elements the kernel lists
    counter,  \* counter[e]
    baseline, \* prev, prev_counts, lasts or prev_uj: by row label
    rows,     \* the differences in the plugin's stats, by row label
    moved,    \* history: what e has moved since the window began
    steady,   \* history: elements listed and not wrapped since then
    source,   \* history: the element read into baseline[l] at the last reading
    truth,    \* history: about each row, what was so when it was made
    total,    \* history: what e has moved in all
    reported  \* history: the sum of e's differences in stats

kernel == <<present, counter>>
history == <<moved, steady, source, truth, total, reported>>
countersVars == <<plugin, kernel, baseline, rows, history>>

Nothing == [l \in {} |-> 0]

\* Elements come and go, save the machine's own counters and its last CPU.
Removable(e) ==
    /\ plugin \notin {"cpu", "power"}
    /\ plugin = "percpu" => present # {e}

\* The first MaxRows of the elements listed, in their order.
FirstRows(listed) == {e \in listed : Cardinality({f \in listed : f < e}) < MaxRows}

\* Fault: the difference is signed.
SinceSigned(cur, prev) == cur - prev

\* u64::saturating_sub
Since(cur, prev) == IF cur > prev THEN cur - prev ELSE 0

-----------------------------------------------------------------------------
(* What updates share *)

\* The difference a row shows for a counter that reads cur.
Delta(l, cur) == IF l \in DOMAIN baseline THEN Since(cur, baseline[l]) ELSE 0

\* What row l is about, where rows are by name.
Identity(listed) == [e \in listed |-> e]

\* Fault: what is no longer listed stays in the baseline.
CountsMerged(listed) ==
    [e \in DOMAIN baseline \cup listed |->
        IF e \in listed THEN counter[e] ELSE baseline[e]]

\* Fault: only what gets a row gets a baseline.
CountsShown(listed) == [e \in FirstRows(listed) |-> counter[e]]

\* The baseline the next update will compare with.
Counts(listed) == [e \in listed |-> counter[e]]

\* Bookkeeping: the rows made now, each about an element; read are the labels
\* whose counters were really read.
Judge(about, read) ==
    /\ truth' = [l \in DOMAIN rows' |->
                    [moved |-> moved[about[l]],
                     steady |-> about[l] \in steady,
                     fresh |-> l \in read /\ l \in DOMAIN source /\ source[l] = about[l],
                     hotplugged |-> \A k \in DOMAIN source : source[k] # about[l]]]
    /\ reported' = [e \in Elements |->
                       IF plugin \in Additive /\ e \in DOMAIN rows'
                       THEN reported[e] + rows'[e] ELSE reported[e]]
    /\ UNCHANGED total

\* Bookkeeping: a new window begins, with what was read now.
NewWindow(read) ==
    /\ moved' = [e \in Elements |-> 0]
    /\ steady' = present
    /\ source' = read

SameWindow == UNCHANGED <<moved, steady, source>>

\* An update that returns Err: the plugin keeps its stats and its baseline.
Keeps == UNCHANGED <<baseline, rows, history>>

-----------------------------------------------------------------------------
(* The counters *)

CountersInit ==
    /\ plugin \in Followed
    /\ present = CASE plugin = "power" -> {1}
                   [] OTHER -> Elements
    /\ counter \in [Elements -> Count]
    /\ baseline = Nothing
    /\ rows = Nothing
    /\ moved = [e \in Elements |-> 0]
    /\ steady = present
    /\ source = Nothing
    /\ truth = Nothing
    /\ total = [e \in Elements |-> 0]
    /\ reported = [e \in Elements |-> 0]

\* A byte, an interrupt, a tick of CPU time, some energy.
Move(e) ==
    /\ e \in present
    /\ total[e] < MaxTraffic
    /\ counter' = [counter EXCEPT ![e] = (@ + 1) % Width]
    /\ moved' = [moved EXCEPT ![e] = @ + 1]
    /\ total' = [total EXCEPT ![e] = @ + 1]
    /\ steady' = IF counter[e] + 1 = Width THEN steady \ {e} ELSE steady
    /\ UNCHANGED <<plugin, present, baseline, rows, source, truth, reported>>

Leave(e) ==
    /\ e \in present /\ Removable(e)
    /\ present' = present \ {e}
    /\ steady' = steady \ {e}
    /\ UNCHANGED <<plugin, counter, baseline, rows, moved, source, truth, total, reported>>

\* The same element again, or another of its name (a pid, a disk) at zero.
Return(e) ==
    /\ e \notin present
    /\ present' = present \cup {e}
    /\ \E c \in {0, counter[e]} :
        /\ plugin = "processlist" => c = 0
        /\ counter' = [counter EXCEPT ![e] = c]
    /\ UNCHANGED <<plugin, baseline, rows, history>>

-----------------------------------------------------------------------------
(* The plugins.  Those whose reading fails with Err keep everything. *)

ReadFails ==
    /\ plugin \in {"network_snmp", "diskio", "cpu", "percpu"}
    /\ Keeps
    /\ UNCHANGED <<plugin, kernel>>

\* read().unwrap_or_default(): a failed reading is a machine without
\* interfaces.  The cap is on rows, not on the baseline.
NetworkUpdate ==
    /\ plugin = "network"
    /\ \E listed \in {present, {}} :
        /\ rows' = [e \in FirstRows(listed) |-> Delta(e, counter[e])]
        /\ baseline' = Counts(listed)
        /\ Judge(Identity(Elements), listed)
        /\ NewWindow(Identity(listed))
    /\ UNCHANGED <<plugin, kernel>>

\* A column that is missing from the walk counts as zero.
NetworkUpdateSnmp ==
    /\ plugin = "network_snmp"
    /\ \E missing \in SUBSET present :
        LET cur == [e \in present |-> IF e \in missing THEN 0 ELSE counter[e]]
        IN /\ rows' = [e \in FirstRows(present) |-> Delta(e, cur[e])]
           /\ baseline' = cur
           /\ Judge(Identity(Elements), present \ missing)
           /\ NewWindow(Identity(present \ missing))
    /\ UNCHANGED <<plugin, kernel>>

DiskioUpdate ==
    /\ plugin = "diskio"
    /\ rows' = [e \in present |-> Delta(e, counter[e])]
    /\ baseline' = Counts(present)
    /\ Judge(Identity(Elements), present)
    /\ NewWindow(Identity(present))
    /\ UNCHANGED <<plugin, kernel>>

\* lasts is only ever added to, and the window begins anew though nothing
\* could be read.  The rows are the MaxRows of the highest rates.
IrqUpdate ==
    /\ plugin = "irq"
    /\ \E listed \in {present, {}} :
        /\ \E top \in SUBSET listed :
            /\ Cardinality(top) = IF Cardinality(listed) <= MaxRows
                                  THEN Cardinality(listed) ELSE MaxRows
            /\ \A e \in top, f \in listed \ top :
                Delta(e, counter[e]) >= Delta(f, counter[f])
            /\ rows' = [e \in top |-> Delta(e, counter[e])]
        /\ baseline' = [e \in DOMAIN baseline \cup listed |->
                            IF e \in listed THEN counter[e] ELSE baseline[e]]
        /\ Judge(Identity(Elements), listed)
        /\ NewWindow(Identity(listed))
    /\ UNCHANGED <<plugin, kernel>>

\* No watts (Null) without a reading, without a baseline, or after a wrap.
PowerUpdate ==
    /\ plugin = "power"
    /\ \/ /\ rows' = IF 1 \in DOMAIN baseline /\ counter[1] >= baseline[1]
                     THEN [e \in {1} |-> counter[1] - baseline[1]] ELSE Nothing
          /\ baseline' = Counts({1})
          /\ Judge(Identity(Elements), {1})
          /\ NewWindow(Identity({1}))
       \/ /\ rows' = Nothing
          /\ Judge(Identity(Elements), {})
          /\ SameWindow
          /\ UNCHANGED baseline
    /\ UNCHANGED <<plugin, kernel>>

\* Its elements are the counters of /proc/stat, each with a RateTrack.
CpuUpdate ==
    /\ plugin = "cpu"
    /\ rows' = [e \in Elements |-> Delta(e, counter[e])]
    /\ baseline' = Counts(Elements)
    /\ Judge(Identity(Elements), Elements)
    /\ NewWindow(Identity(Elements))
    /\ UNCHANGED <<plugin, kernel>>

\* Rows are by place in /proc/stat, which lists the CPUs online in order.
PercpuUpdate ==
    /\ plugin = "percpu"
    /\ \E nth \in [1..Cardinality(present) -> present] :
        /\ \A i, j \in DOMAIN nth : i < j => nth[i] < nth[j]
        /\ rows' = [l \in DOMAIN nth |-> Delta(l, counter[nth[l]])]
        /\ baseline' = [l \in DOMAIN nth |-> counter[nth[l]]]
        /\ Judge(nth, DOMAIN nth)
        /\ NewWindow(nth)
    /\ UNCHANGED <<plugin, kernel>>

\* A process whose stat cannot be read is skipped and forgotten; one whose io
\* cannot be read counts zero.  Each pid has a window of its own, but as every
\* pid listed is seen, all windows begin with the last listing.
ProcessesUpdate ==
    /\ plugin = "processlist"
    /\ \E listed \in SUBSET present : \E opaque \in SUBSET listed :
        LET cur == [e \in listed |-> IF e \in opaque THEN 0 ELSE counter[e]]
        IN /\ rows' = [e \in listed |-> Delta(e, cur[e])]
           /\ baseline' = cur
           /\ Judge(Identity(Elements), listed \ opaque)
           /\ NewWindow(Identity(listed \ opaque))
    /\ UNCHANGED <<plugin, kernel>>

\* /proc itself cannot be listed: no rows, and every pid keeps its baseline.
ProcessesUnlisted ==
    /\ plugin = "processlist"
    /\ rows' = Nothing
    /\ Judge(Identity(Elements), {})
    /\ SameWindow
    /\ UNCHANGED <<plugin, kernel, baseline>>

Update ==
    \/ ReadFails
    \/ NetworkUpdate
    \/ NetworkUpdateSnmp
    \/ DiskioUpdate
    \/ IrqUpdate
    \/ PowerUpdate
    \/ CpuUpdate
    \/ PercpuUpdate
    \/ ProcessesUpdate
    \/ ProcessesUnlisted

CountersNext ==
    \/ \E e \in Elements : Move(e) \/ Leave(e) \/ Return(e)
    \/ Update

CountersSpec == CountersInit /\ [][CountersNext]_countersVars

-----------------------------------------------------------------------------
(* Properties *)

\* Types: rows and baselines are counts by label.
CountersTypeOK ==
    /\ plugin \in Followed
    /\ present \subseteq Elements
    /\ counter \in [Elements -> Count]
    /\ DOMAIN baseline \subseteq Elements
    /\ \A l \in DOMAIN baseline : baseline[l] \in Count
    /\ DOMAIN rows \subseteq Elements
    /\ \A l \in DOMAIN rows : rows[l] \in Count
    /\ moved \in [Elements -> Nat]
    /\ total \in [Elements -> Nat]
    /\ reported \in [Elements -> Nat]
    /\ steady \subseteq Elements
    /\ DOMAIN source \subseteq DOMAIN baseline
    /\ \A l \in DOMAIN source : source[l] \in Elements
    /\ DOMAIN truth = DOMAIN rows
    /\ \A l \in DOMAIN truth :
        truth[l] \in [moved : Nat, steady : BOOLEAN, fresh : BOOLEAN,
                      hotplugged : BOOLEAN]

\* No rate is of more than its element moved in the time the rate is over,
\* whatever failed, wrapped, left or came back (as itself or as another of its
\* name) in between: network.rs:60, diskio.rs:157, power.rs:155, cpu.rs:35.
\* The others need that the row's own counter was read at the last reading:
\* an interrupt line (irq.rs:97), a process's io (processlist/mod.rs:118), an
\* SNMP column or the l-th CPU that was not differs from something else.
Careful == {"network", "diskio", "power", "cpu"}
NoInventedTraffic ==
    \A l \in DOMAIN rows :
        plugin \in Careful \/ truth[l].fresh => rows[l] <= truth[l].moved

\* What an element that was listed and did not wrap in the window moved is
\* reported whole, also after failed readings and beyond the cap on rows.
SteadyIsExact ==
    \A l \in DOMAIN rows :
        truth[l].fresh /\ truth[l].steady => rows[l] = truth[l].moved

\* Nothing is reported twice: over any number of updates an element's
\* differences add up to no more than it moved.
CountedOnce == \A e \in Elements : reported[e] <= total[e]

\* percpu.rs:5: "first ticks and hotplugged CPUs report zeros".  A CPU that was
\* not online at the last reading reports zero.
HotplugZero ==
    plugin = "percpu" => \A l \in DOMAIN rows : ~truth[l].hotplugged \/ rows[l] = 0
=============================================================================
