----------------------------- MODULE Processes -----------------------------
(***************************************************************************)
(* The process plugins: sample_all walks /proc while the kernel runs, and  *)
(* keeps for each pid the ticks and the machine total it last saw.  The    *)
(* process list shows the samples, the program list groups them by name.   *)
(* The two plugins walk apart, each with baselines of its own; this is     *)
(* either of them, with what each would make of the samples.               *)
(*                                                                         *)
(* Jiffies are counted whole.  A share is kept as its two halves, the      *)
(* ticks of the process and those of the machine; where the code shows 0   *)
(* without dividing, both are 0.  Disk rates are windows of the same kind  *)
(* (module CounterPlugins); the filter is module Filters.                  *)
(***************************************************************************)
EXTENDS Naturals, FiniteSets, FiniteSetsExt

CONSTANTS Pids,         \* pids of the machine
          ProgramNames, \* names of programs
          Users,        \* their owners
          Root,         \* the name of uid 0
          Cores,        \* what -0 divides the shares of the process list by; 1 without it
          MaxTotal      \* bound on the jiffies counted

ASSUME ProcessesAssumption == Cores \in Nat \ {0} /\ MaxTotal \in Nat

VARIABLES running,  \* what runs: pid |-> its name, owner and ticks
          jiffies,  \* jiffies of the machine, all CPUs together
          lastSeen, \* pid |-> the ticks and the total last seen
          walk,     \* the walk under way: the total it read, pids to come, samples
          listing,  \* what the process list shows
          programs  \* what the program list shows

processVars == <<running, jiffies, lastSeen, walk, listing, programs>>

Monus(a, b) == IF a > b THEN a - b ELSE 0
Without(f, k) == [p \in DOMAIN f \ {k} |-> f[p]]
With(f, k, v) == [p \in DOMAIN f \cup {k} |-> IF p = k THEN v ELSE f[p]]
NoEntry == [p \in {} |-> 0]
NoWalk == [on |-> FALSE, jiffies |-> 0, left |-> {}, samples |-> {}]

ProcessesInit ==
    /\ running = NoEntry
    /\ jiffies = 0
    /\ lastSeen = NoEntry
    /\ walk = NoWalk
    /\ listing = {}
    /\ programs = {}

(***************************************************************************)
(* The kernel.                                                             *)
(***************************************************************************)
Fork(p, n, u) ==
    /\ p \notin DOMAIN running
    /\ running' = With(running, p, [name |-> n, user |-> u, ticks |-> 0])
    /\ UNCHANGED <<jiffies, lastSeen, walk, listing, programs>>

Exit(p) ==
    /\ p \in DOMAIN running
    /\ running' = Without(running, p)
    /\ UNCHANGED <<jiffies, lastSeen, walk, listing, programs>>

\* One jiffy passes, for a process or for nobody.
Jiffy(p) ==
    /\ jiffies < MaxTotal
    /\ jiffies' = jiffies + 1
    /\ running' = IF p \in DOMAIN running THEN [running EXCEPT ![p].ticks = @ + 1] ELSE running
    /\ UNCHANGED <<lastSeen, walk, listing, programs>>

(***************************************************************************)
(* One walk over /proc.                                                    *)
(***************************************************************************)
\* read_total_cpu: 0 when /proc/stat cannot be read.
TotalRead == {jiffies, 0}

BeginWalk ==
    /\ walk = NoWalk
    /\ \E t \in TotalRead :
          walk' = [on |-> TRUE, jiffies |-> t, left |-> DOMAIN running, samples |-> {}]
    /\ UNCHANGED <<running, jiffies, lastSeen, listing, programs>>

\* read_dir fails: nothing is listed, and the baselines stay as they are.
WalkFails ==
    /\ walk = NoWalk
    /\ listing' = {} /\ programs' = {}
    /\ UNCHANGED <<running, jiffies, lastSeen, walk>>

\* The code divides only when the total has grown.
Share(was, ticks, current) ==
    IF current > was.jiffies THEN <<Monus(ticks, was.ticks), current - was.jiffies>> ELSE <<0, 0>>

\* Its status file, read after the stat file: uid 0 when it cannot be read.
Owners(p) == {running[p].user, Root}

Sample(p, user) ==
    LET share == IF p \in DOMAIN lastSeen THEN Share(lastSeen[p], running[p].ticks, walk.jiffies) ELSE <<0, 0>>
    IN  [pid |-> p, name |-> running[p].name, user |-> user,
         used |-> share[1], of |-> share[2]]

\* The next entry, if its stat can be read: a process that is gone, or whose
\* file cannot be read, is passed over.
ReadProcess(p) ==
    /\ p \in walk.left
    /\ \/ /\ p \in DOMAIN running
          /\ lastSeen' = With(lastSeen, p, [ticks |-> running[p].ticks, jiffies |-> walk.jiffies])
          /\ \E user \in Owners(p) :
                walk' = [walk EXCEPT !.left = @ \ {p}, !.samples = @ \cup {Sample(p, user)}]
       \/ /\ walk' = [walk EXCEPT !.left = @ \ {p}]
          /\ UNCHANGED lastSeen
    /\ UNCHANGED <<running, jiffies, listing, programs>>

Sampled(samples) == {s.pid : s \in samples}

\* Faulty form: every baseline is kept.
RetainAll(before, samples) == before
\* Baselines of pids that were not sampled are dropped.
Retain(before, samples) == [p \in DOMAIN before \cap Sampled(samples) |-> before[p]]

\* The members' value when they agree, "_" otherwise.
Collapse(values) == IF Cardinality(values) = 1 THEN CHOOSE v \in values : TRUE ELSE "_"

\* The windows that shares were taken over.
Windows(samples) == {s.of : s \in samples} \ {0}

Used(members) == MapThenSumSet(LAMBDA s : s.used, members)

ProgramRow(n, members) ==
    [name |-> n,
     user |-> Collapse({s.user : s \in members}),
     nprocs |-> Cardinality(members),
     used |-> Used(members),
     of |-> Windows(members),
     childrens |-> Sampled(members)]

\* programlist::aggregate: one row for each name, its counters summed.
Grouped(samples) ==
    {ProgramRow(n, {s \in samples : s.name = n}) : n \in {s.name : s \in samples}}

\* ProcessListPlugin::update shows every sample; -0 divides its share.
Displayed(s) == [s EXCEPT !.of = Cores * @]

EndWalk ==
    /\ walk.on
    /\ walk.left = {}
    /\ lastSeen' = Retain(lastSeen, walk.samples)
    /\ listing' = {Displayed(s) : s \in walk.samples}
    /\ programs' = Grouped(walk.samples)
    /\ walk' = NoWalk
    /\ UNCHANGED <<running, jiffies>>

ProcessesNext ==
    \/ \E p \in Pids, n \in ProgramNames, u \in Users : Fork(p, n, u)
    \/ \E p \in Pids : Exit(p) \/ Jiffy(p) \/ ReadProcess(p)
    \/ BeginWalk \/ WalkFails \/ EndWalk

ProcessesSpec == ProcessesInit /\ [][ProcessesNext]_processVars

----------------------------------------------------------------------------
\* All shares of one walk are of the same window, whatever came and went, took
\* a freed pid or could not be read in between: they can be compared, and the
\* sum a program shows is a share again.
SharesOfOneWindow ==
    /\ \A a, b \in Windows(listing) : a = b
    /\ \A a, b \in UNION {row.of : row \in programs} : a = b
============================================================================
