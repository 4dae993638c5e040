------------------------------ MODULE Readings ------------------------------
(***************************************************************************)
(* The plugins that show what a file, a socket or a program says at the    *)
(* time (plugins/mem.rs to plugins/vms): what an update leaves in their    *)
(* stats when some of its sources are gone or garbled, and the caches      *)
(* some of them keep.  A figure is the time of the reading it comes from,  *)
(* or Empty: a null, a zero, an empty string or rows left out.             *)
(*                                                                         *)
(* One plugin is followed, chosen at the start; the plugins share nothing. *)
(* Sources change at any time; what they say is read at once.              *)
(***************************************************************************)
EXTENDS Naturals, FiniteSets

CONSTANTS
    SlowTtl,  \* CACHE_TTL of smart and vms: 60 s
    PowerTtl, \* NVIDIA_TTL of power: 30 s
    Forever,  \* bound on time; as a window: no bound
    Error,    \* no reading: the reader returned Err
    Gap       \* an update comes after 1 or after Gap

Empty == 0
Conditions == {"fine", "garbled", "gone"}

ASSUME ReadingsAssumption ==
    /\ {SlowTtl, PowerTtl, Forever, Gap} \subseteq Nat \ {0}
    /\ Error \notin Nat
    /\ SlowTtl < Forever /\ PowerTtl < Forever

\* The sources each figure of a plugin comes from.  A figure stands for all that
\* is read together.
Figures ==
    [mem |-> [memory |-> {"meminfo"}, arc |-> {"arcstats"}],
     memswap |-> [swap |-> {"meminfo"}],
     load |-> [averages |-> {"loadavg"}, cores |-> {"cpuinfo"}],
     uptime |-> [seconds |-> {"uptime"}],
     fs |-> [mount |-> {"mounts", "statvfs"}],
     sensors |-> [sensor |-> {"hwmon", "input"}],
     wifi |-> [link |-> {"wireless"}, speed |-> {"wireless", "speed"}],
     raid |-> [array |-> {"mdstat"}],
     containers |-> [container |-> {"docker"}],
     ports |-> [tcp |-> {"tcp"}, udp |-> {"udp"}],
     connections |-> [states |-> {"tcp"}, conntrack |-> {"conntrack"}],
     pressure |-> [cpu |-> {"cpu"}, io |-> {"io"}],
     processcount |-> [counts |-> {"proc"}, pid_max |-> {"pid_max"}],
     mpp |-> [encoder |-> {"dri"}],
     system |-> [kernel |-> {"uname"}, distro |-> {"os-release"}],
     power |-> [nvidia |-> {"nvidia-smi"}, amdgpu |-> {"power1"}],
     smart |-> [device |-> {"scan", "smartctl"}],
     vms |-> [domain |-> {"virsh"}, instance |-> {"multipass"}, version |-> {"virsh_version"}],
     npu |-> [device |-> {"bus"}, load |-> {"bus", "util"}],
     cloud |-> [identity |-> {"metadata"}]]

Gauges == DOMAIN Figures
FiguresOf(g) == DOMAIN Figures[g]
SourcesOf(g) == UNION {Figures[g][f] : f \in FiguresOf(g)}

VARIABLES
    gauge,     \* the plugin followed
    time,      \* seconds, in the unit of the windows
    condition, \* the condition of each of its sources
    figures,   \* what its stats show
    cache,     \* what it keeps beside: figures and when they were collected
    succeeded, \* history: when an update last returned Ok
    lastBad    \* history: when a source was last not fine at an update

readingsVars == <<gauge, time, condition, figures, cache, succeeded, lastBad>>

Never == [at |-> 0, kept |-> [f \in {} |-> Empty]]

ReadingsInit ==
    /\ gauge \in Gauges
    /\ time = 1
    /\ condition = [s \in SourcesOf(gauge) |-> "fine"]
    /\ figures = [f \in FiguresOf(gauge) |-> Empty]
    /\ cache = Never
    /\ succeeded = 0
    /\ lastBad = [s \in SourcesOf(gauge) |-> 0]

-----------------------------------------------------------------------------
(* Readers.  A reading is the time, Empty or an error.                     *)

Strict(s) == IF condition[s] = "fine" THEN time ELSE Error
Lenient(s) == IF condition[s] = "fine" THEN time ELSE IF condition[s] = "gone" THEN Error ELSE Empty
Soft(s) == IF condition[s] = "fine" THEN time ELSE Empty
Both(s, t) == IF condition[t] = "fine" THEN Soft(s) ELSE Empty

MemInfo == Lenient("meminfo")     \* lines that do not parse are skipped
ZfsArc == Soft("arcstats")
LoadAvg == Strict("loadavg")
Uptime == Strict("uptime")
CpuCount == Soft("cpuinfo")       \* rows of /proc/stat, or 1
ReadMounts == IF condition["mounts"] = "gone" THEN Error ELSE Both("mounts", "statvfs")
ReadSensors == IF condition["hwmon"] = "garbled" THEN Error ELSE Both("hwmon", "input")
UnameInfo == Soft("uname")
Distro == Soft("os-release")
WirelessLinks == Soft("wireless")
WirelessSpeed == Both("wireless", "speed")
MdStat == Soft("mdstat")
DockerList == Soft("docker")
NetTable(s) == Soft(s)
Conntrack == Soft("conntrack")
Avg10(s) == Soft(s)
StateCounts == Soft("proc")       \* counts of /proc/stat, or zeros
PidMax == Soft("pid_max")
ProbeDri == Soft("dri")
NvidiaWatts == Soft("nvidia-smi")
AmdgpuWatts == Soft("power1")
SmartDevices == Both("scan", "smartctl")
Domains == Soft("virsh")
Instances == Soft("multipass")
VirshVersion == Soft("virsh_version")
NpuDevices == Soft("bus")
NpuLoad == Both("bus", "util")
CloudIdentity == Soft("metadata")

-----------------------------------------------------------------------------
(* Updates.  Each gives the figures that change, or fails.                 *)

Failed == [ok |-> FALSE, new |-> [f \in {} |-> Empty], cache |-> cache]
Shows(new) == [ok |-> TRUE, new |-> new, cache |-> cache]
WithCache(new, c) == [ok |-> TRUE, new |-> new, cache |-> c]

UpdateMem == IF MemInfo = Error THEN Failed ELSE Shows([memory |-> MemInfo, arc |-> ZfsArc])
UpdateMemswap == IF MemInfo = Error THEN Failed ELSE Shows([swap |-> MemInfo])
UpdateLoad == IF LoadAvg = Error THEN Failed ELSE Shows([averages |-> LoadAvg, cores |-> CpuCount])
UpdateUptime == IF Uptime = Error THEN Failed ELSE Shows([seconds |-> Uptime])
UpdateFs == IF ReadMounts = Error THEN Failed ELSE Shows([mount |-> ReadMounts])
UpdateSensors == IF ReadSensors = Error THEN Failed ELSE Shows([sensor |-> ReadSensors])
UpdateWifi == Shows([link |-> WirelessLinks, speed |-> WirelessSpeed])
UpdateRaid == Shows([array |-> MdStat])
UpdateContainers == Shows([container |-> DockerList])
UpdatePorts == Shows([tcp |-> NetTable("tcp"), udp |-> NetTable("udp")])

\* The conntrack figures stay when they cannot be read.
UpdateConnections ==
    Shows([states |-> NetTable("tcp"), conntrack |-> IF Conntrack = Empty THEN figures.conntrack ELSE Conntrack])

UpdatePressure == Shows([cpu |-> Avg10("cpu"), io |-> Avg10("io")])
UpdateProcesscount == Shows([counts |-> StateCounts, pid_max |-> PidMax])
UpdateMpp == Shows([encoder |-> ProbeDri])
UpdateSystem == Shows([kernel |-> UnameInfo, distro |-> Distro])

\* Fault form: a sweep that found nothing is as good as one that did, for ever.
FreshForEver(window) == cache.at # 0

\* cache_fresh, nv_at: a failed sweep is kept as long as one that succeeded.
FreshCache(window) == cache.at # 0 /\ time - cache.at < window

Collected(current, window) == IF FreshCache(window) THEN cache ELSE [at |-> time, kept |-> current]

UpdatePower ==
    LET c == Collected([nvidia |-> NvidiaWatts], PowerTtl)
    IN WithCache([nvidia |-> c.kept.nvidia, amdgpu |-> AmdgpuWatts], c)

UpdateSmart ==
    LET c == Collected([device |-> SmartDevices], SlowTtl) IN WithCache([device |-> c.kept.device], c)

\* collect_virsh asks for the version once there is a list, and never again.
UpdateVms ==
    LET asked == cache.at # 0 /\ cache.kept.asked
        current == [domain |-> Domains, instance |-> Instances, asked |-> asked \/ Domains # Empty,
                    version |-> IF asked THEN cache.kept.version
                                ELSE IF Domains # Empty THEN VirshVersion ELSE Empty]
        c == Collected(current, SlowTtl)
    IN WithCache([domain |-> c.kept.domain, instance |-> c.kept.instance, version |-> c.kept.version], c)

\* The first list and the first identity are kept for ever.
UpdateNpu ==
    LET c == IF cache.at # 0 THEN cache ELSE [at |-> time, kept |-> [device |-> NpuDevices]]
    IN WithCache([device |-> c.kept.device, load |-> IF c.kept.device = Empty THEN Empty ELSE NpuLoad], c)

UpdateCloud ==
    LET c == IF cache.at # 0 THEN cache ELSE [at |-> time, kept |-> [identity |-> CloudIdentity]]
    IN WithCache([identity |-> c.kept.identity], c)

Result ==
    CASE gauge = "mem" -> UpdateMem
      [] gauge = "memswap" -> UpdateMemswap
      [] gauge = "load" -> UpdateLoad
      [] gauge = "uptime" -> UpdateUptime
      [] gauge = "fs" -> UpdateFs
      [] gauge = "sensors" -> UpdateSensors
      [] gauge = "wifi" -> UpdateWifi
      [] gauge = "raid" -> UpdateRaid
      [] gauge = "containers" -> UpdateContainers
      [] gauge = "ports" -> UpdatePorts
      [] gauge = "connections" -> UpdateConnections
      [] gauge = "pressure" -> UpdatePressure
      [] gauge = "processcount" -> UpdateProcesscount
      [] gauge = "mpp" -> UpdateMpp
      [] gauge = "system" -> UpdateSystem
      [] gauge = "power" -> UpdatePower
      [] gauge = "smart" -> UpdateSmart
      [] gauge = "vms" -> UpdateVms
      [] gauge = "npu" -> UpdateNpu
      [] gauge = "cloud" -> UpdateCloud

-----------------------------------------------------------------------------
(* The machine.                                                            *)

\* update(), after a while in which sources came and went.
ReadingStep ==
    /\ figures' = [f \in FiguresOf(gauge) |-> IF f \in DOMAIN Result.new THEN Result.new[f] ELSE figures[f]]
    /\ cache' = Result.cache
    /\ succeeded' = IF Result.ok THEN time ELSE succeeded
    /\ lastBad' = [s \in SourcesOf(gauge) |-> IF condition[s] = "fine" THEN lastBad[s] ELSE time]
    /\ UNCHANGED <<gauge, time, condition>>

Elapses ==
    /\ \E d \in {1, Gap} : time + d < Forever /\ time' = time + d
    /\ condition' \in [SourcesOf(gauge) -> Conditions]
    /\ UNCHANGED <<gauge, figures, cache, succeeded, lastBad>>

ReadingsNext == ReadingStep \/ Elapses
ReadingsSpec == ReadingsInit /\ [][ReadingsNext]_readingsVars

-----------------------------------------------------------------------------
(* Properties.                                                             *)

\* How old a figure may be when an update shows it; the conntrack figures stay
\* without a bound, a boot's identity and devices are read once.
Window(g, f) ==
    CASE g \in {"smart", "vms"} /\ f # "version" -> SlowTtl
      [] g = "power" /\ f = "nvidia" -> PowerTtl
      [] f \in {"conntrack", "version", "identity"} \/ <<g, f>> = <<"npu", "device">> -> Forever
      [] OTHER -> 1

ReadingsTypeOK ==
    /\ gauge \in Gauges /\ time \in 1..Forever
    /\ condition \in [SourcesOf(gauge) -> Conditions]
    /\ figures \in [FiguresOf(gauge) -> 0..time]
    /\ cache.at \in 0..time
    /\ succeeded \in 0..time

\* An update that succeeds leaves no figure of an earlier one beside its own,
\* save those kept on purpose, and these no longer than their window; and a
\* failure is forgotten: when the sources of a figure have been fine at every
\* update within its window it is shown again, save what is read once.
FiguresFresh ==
    \A f \in FiguresOf(gauge) :
        LET since == IF f = "conntrack" THEN 1 ELSE IF gauge = "npu" THEN Forever ELSE Window(gauge, f)
            fine == \A s \in SourcesOf(gauge) : lastBad[s] + since <= succeeded
        IN /\ figures[f] # Empty => succeeded - figures[f] < Window(gauge, f)
           /\ succeeded # 0 /\ since < Forever /\ fine => figures[f] # Empty
=============================================================================
