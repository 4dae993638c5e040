------------------------------ MODULE GpuPlugin ------------------------------
(***************************************************************************)
(* The GPU plugin (plugins/gpu*.rs): which processes it shows on which     *)
(* card.  A sweep of nvidia-smi lists the processes that hold a context    *)
(* and is kept for SweepTtl; on other drivers the files in fdinfo give a   *)
(* time counter per process, card and engine, and who moved one since the  *)
(* previous update is shown.  Processes work, close and open cards, exit   *)
(* and have their pids used again between updates.                         *)
(*                                                                         *)
(* Counters are in units of ENGINE_ACTIVE_NS, a name is whether it is one  *)
(* of a transcoder, and the rows of the cards carry nothing else.          *)
(***************************************************************************)
EXTENDS Naturals, FiniteSets

CONSTANTS
    Programs,    \* process ids
    OpenCards,   \* cards of other drivers, in the order of their names
    NvidiaCards, \* cards whose vendor is nvidia
    Engines,     \* names of engines
    Video,       \* those of the video class
    SweepTtl,    \* NVIDIA_TTL: 6 s
    MaxClock,    \* bound on time, in seconds
    MaxWork,     \* bound on a counter
    Gone         \* no such process

Cards == OpenCards \cup NvidiaCards

\* Time per card and engine: what the fdinfo files of a process say of the
\* cards it has open.
Usage == UNION {[S \X Engines -> 0..MaxWork] : S \in SUBSET OpenCards}
Process == [transcoder : BOOLEAN, used : Usage, contexts : SUBSET NvidiaCards]

\* A machine has finitely many cards, and a sweep is kept for a while.
ASSUME GpuAssumption ==
    /\ OpenCards \subseteq Nat /\ NvidiaCards \subseteq Nat
    /\ IsFiniteSet(OpenCards) /\ OpenCards \cap NvidiaCards = {} /\ Video \subseteq Engines
    /\ SweepTtl \in Nat \ {0} /\ MaxClock \in Nat /\ MaxWork \in Nat
    /\ Gone \notin Process /\ Gone \notin Nat

VARIABLES
    clock,       \* seconds
    processes,   \* what runs under a pid, or Gone
    sweep,       \* last_apps placed by last_rows, last_nvidia_at
    prevEngines, \* prev_engines: by pid and engine
    clients,     \* the clients of all cards, as shown
    worked,      \* history: <<pid, card>> that worked since the last update
    openSince,   \* history: <<pid, card>> read by it and open ever since
    spread,      \* history: pids it found on several cards
    wrong,       \* history: <<pid, card>> it showed or left out wrongly, and
                 \* whether the pid was spread then
    held,     \* history: when <<pid, card>> last had a context
    updatedAt \* history: when it was

gpuVars == <<clock, processes, sweep, prevEngines, clients, worked, openSince, spread, wrong, held, updatedAt>>

NoSweep == [at |-> Gone, apps |-> {}]
NoCounters == [k \in {} |-> 0]

GpuInit ==
    /\ clock = 0
    /\ processes = [p \in Programs |-> Gone]
    /\ sweep = NoSweep
    /\ prevEngines = NoCounters
    /\ clients = {}
    /\ worked = {}
    /\ openSince = {}
    /\ spread = {}
    /\ wrong = {}
    /\ held = NoCounters
    /\ updatedAt = 0

Live == {p \in Programs : processes[p] # Gone}
gpuState == <<sweep, prevEngines, clients, spread, wrong, updatedAt>>

-----------------------------------------------------------------------------
(* The machine.                                                            *)

Become(p, process) == processes' = [processes EXCEPT ![p] = process]

Holds == UNION {{<<p, c>> : c \in processes[p].contexts} : p \in Live}

Elapse ==
    /\ clock < MaxClock
    /\ clock' = clock + 1
    /\ held' = [k \in DOMAIN held \cup Holds |-> IF k \in Holds THEN clock' ELSE held[k]]
    /\ UNCHANGED <<processes, gpuState, worked, openSince>>

BeginProcess(p) ==
    /\ processes[p] = Gone
    /\ \E transcoder \in BOOLEAN, contexts \in SUBSET NvidiaCards :
        /\ Become(p, [transcoder |-> transcoder, used |-> NoCounters, contexts |-> contexts])
        /\ held' = [k \in DOMAIN held \cup ({p} \X contexts) |-> IF k[1] = p /\ k[2] \in contexts THEN clock ELSE held[k]]
    /\ UNCHANGED <<clock, gpuState, worked, openSince>>

EndProcess(p) ==
    /\ p \in Live
    /\ Become(p, Gone)
    /\ worked' = {x \in worked : x[1] # p}
    /\ openSince' = {x \in openSince : x[1] # p}
    /\ UNCHANGED <<clock, gpuState, held>>

\* Opening a card begins its counters, closing it ends them.
OpenOrClose(p, c) ==
    /\ p \in Live
    /\ LET used == processes[p].used
           opened == {k[1] : k \in DOMAIN used}
           still == IF c \in opened THEN opened \ {c} ELSE opened \cup {c}
       IN Become(p, [processes[p] EXCEPT !.used =
              [k \in still \X Engines |-> IF k \in DOMAIN used THEN used[k] ELSE 0]])
    /\ openSince' = openSince \ {<<p, c>>}
    /\ UNCHANGED <<clock, gpuState, worked, held>>

Work(p, c, e) ==
    /\ p \in Live
    /\ <<c, e>> \in DOMAIN processes[p].used
    /\ processes[p].used[<<c, e>>] < MaxWork
    /\ Become(p, [processes[p] EXCEPT !.used[<<c, e>>] = @ + 1])
    /\ worked' = worked \cup {<<p, c>>}
    /\ UNCHANGED <<clock, gpuState, openSince, held>>

-----------------------------------------------------------------------------
(* The update.                                                             *)

\* Fault form: a sweep that gave nothing is tried again and its rows kept.
FreshIfAny(s) == s.at # Gone /\ (clock < s.at + SweepTtl \/ s.apps # {})

\* nvidia_fresh
Fresh(s) == s.at # Gone /\ clock < s.at + SweepTtl

\* query_nvidia_smi, query_apps and apply_apps: a process is placed by the uuid
\* of its card, which the rows give, or on the only card there is.  Either query
\* may give nothing, and where a process cannot be placed it is dropped.
Sweep(placed) ==
    [at |-> clock,
     apps |-> {[pid |-> k[1], card |-> k[2], transcoder |-> processes[k[1]].transcoder] : k \in placed}]

\* The name is the one the pid has now, or the sweep's if there is none.
NameOf(app) == IF app.pid \in Live THEN processes[app.pid].transcoder ELSE app.transcoder

NvidiaClients(s) ==
    {[card |-> app.card, pid |-> app.pid, transcoding |-> NameOf(app), by |-> "sweep"] : app \in s.apps}

\* scan_drm_clients: processes that cannot be read are left out.
Found(readable) == UNION {{<<p, k[1], k[2]>> : k \in DOMAIN processes[p].used} : p \in readable}
Counter(f) == processes[f[1]].used[<<f[2], f[3]>>]

\* Fault form: what was not there at the previous update has come from zero.
AdvancedFromZero(f) ==
    LET key == <<f[1], f[3]>>
        before == IF key \in DOMAIN prevEngines /\ prevEngines[key] <= Counter(f) THEN prevEngines[key] ELSE 0
    IN Counter(f) > before

\* A counter that is new or has gone back shows nothing.
Advanced(f) ==
    /\ <<f[1], f[3]>> \in DOMAIN prevEngines
    /\ Counter(f) > prevEngines[<<f[1], f[3]>>]

\* attach_drm_clients: one client for each process and card.
DrmClients(found) ==
    LET active == {f \in found : Advanced(f)}
    IN {[card |-> f[2], pid |-> f[1], by |-> "fdinfo",
         transcoding |-> /\ processes[f[1]].transcoder
                         /\ \E v \in active : v[1] = f[1] /\ v[2] = f[2] /\ v[3] \in Video] : f \in active}

\* The counters are kept by pid and engine: of two cards the later one's.
Baselines(found) ==
    [key \in {<<f[1], f[3]>> : f \in found} |->
        LET of == {f \in found : f[1] = key[1] /\ f[3] = key[2]}
        IN Counter(CHOOSE f \in of : \A g \in of : g[2] <= f[2])]

Pairs(found) == {<<f[1], f[2]>> : f \in found}

\* What is shown of a process and a card against what it did: who did nothing
\* is not shown, who is known and worked is.
Misjudged(found) ==
    LET shownPairs == {<<d.pid, d.card>> : d \in DrmClients(found)}
    IN (shownPairs \ worked) \cup ((Pairs(found) \cap openSince \cap worked) \ shownPairs)

GpuUpdate(readable) ==
    LET found == IF OpenCards = {} THEN {} ELSE Found(readable)
    IN /\ IF NvidiaCards = {} \/ Fresh(sweep) THEN sweep' = sweep
          ELSE \E placed \in {Holds, {}} : sweep' = Sweep(placed)
       /\ clients' = NvidiaClients(sweep') \cup DrmClients(found)
       /\ prevEngines' = Baselines(found)
       /\ worked' = {}
       /\ openSince' = Pairs(found)
       /\ spread' = {p \in readable : Cardinality({x \in Pairs(found) : x[1] = p}) > 1}
       /\ wrong' = {[pair |-> x, spread |-> x[1] \in spread] : x \in Misjudged(found)}
       /\ updatedAt' = clock
       /\ UNCHANGED <<clock, processes, held>>

GpuNext ==
    \/ Elapse
    \/ \E p \in Programs :
        \/ BeginProcess(p) \/ EndProcess(p)
        \/ \E c \in OpenCards : OpenOrClose(p, c) \/ \E e \in Engines : Work(p, c, e)
    \/ \E readable \in SUBSET Live : GpuUpdate(readable)

GpuSpec == GpuInit /\ [][GpuNext]_gpuVars

-----------------------------------------------------------------------------
(* Properties.                                                             *)

Client == [card : Cards, pid : Programs, transcoding : BOOLEAN, by : {"sweep", "fdinfo"}]

GpuTypeOK ==
    /\ clock \in 0..MaxClock
    /\ processes \in [Programs -> Process \cup {Gone}]
    /\ sweep.at \in (0..clock) \cup {Gone} /\ (sweep.at = Gone => sweep = NoSweep)
    /\ \A k \in DOMAIN prevEngines : k \in Programs \X Engines /\ prevEngines[k] \in 0..MaxWork
    /\ clients \subseteq Client

\* A process with one card open is shown on it when and only when it worked
\* there since the previous update; not when it was new, came back under the
\* pid of another, could not be read then or began its counters again.
ShownIsWorking == \A x \in wrong : x.spread

\* No process is shown by nvidia-smi that gave its context up SweepTtl before
\* the update or earlier, though a failed sweep is kept like any other.
SweepIsRecent ==
    \A d \in clients : d.by = "sweep" =>
        <<d.pid, d.card>> \in DOMAIN held /\ updatedAt < held[<<d.pid, d.card>>] + SweepTtl

\* "A client is listed when any engine advanced >= 1ms since the previous tick"
\* (plugins/gpu_drm.rs:163-164).  Fails: a process with two cards open is shown on
\* one of them because its counter there is above that of the other card.
ListedAdvanced == wrong = {}
=============================================================================
