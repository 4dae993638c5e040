--------------------------- MODULE DevicesProofs ----------------------------
(***************************************************************************)
(* Theorems of CounterPlugins, Processes, GpuPlugin, Addressing, History   *)
(* and Readings, for any elements, processes and cards, any tables, items, *)
(* sources and windows, and any width of the counters and caps.            *)
(*                                                                         *)
(* Counter plugins: what a row shows is decided when its baseline is       *)
(* taken, so each property rests on what relates a baseline to the counter *)
(* it was read from while the window lasts (Behind, Exactly, Booked).      *)
(*                                                                         *)
(* Processes: a walk that ends keeps baselines of the pids it sampled      *)
(* only, and each of those bears the total that walk read.  So while the   *)
(* next one runs, the pids it has not come to share one total (OneTotal),  *)
(* whichever of them have gone or been taken by others since, and every    *)
(* share is of the time from that total to the walk's own, or is not taken *)
(* (Shares).                                                               *)
(*                                                                         *)
(* GPU: whom an update found on one card left its counters as they were    *)
(* then, so who did nothing since has them still and who worked has one    *)
(* that moved (KnownAt, MovedAt); and whom a sweep saw has its context now *)
(* or had it after the sweep (HeldSince).                                  *)
(*                                                                         *)
(* Addresses: the tables are read one after another, and what was read     *)
(* describes them as long as they hold still (ReadSoFar); rows that go     *)
(* leave them well formed.                                                 *)
(*                                                                         *)
(* History: a list is the newest end of what was ever logged under its key *)
(* (Tails).                                                                *)
(*                                                                         *)
(* Readings: what a sweep found is shown while the sweep is recent and     *)
(* else was found with a source bad (SweepShown); a figure read at each    *)
(* update is of the last one that succeeded (OfLast), and is there unless  *)
(* a source was bad then (There).                                          *)
(***************************************************************************)
EXTENDS CounterPlugins, Processes, GpuPlugin, Addressing, History, Readings, Induction, SequenceTheorems

-----------------------------------------------------------------------------
(* Counter plugins.                                                        *)

\* A counter is ahead of its baseline by no more than was moved since.
Behind ==
    \A l \in DOMAIN source : counter[source[l]] <= baseline[l] + moved[source[l]]

\* It is ahead by exactly that unless it was interrupted.
Exactly ==
    \A l \in DOMAIN source :
        source[l] \in steady => counter[source[l]] = baseline[l] + moved[source[l]]

\* Where rows are by name, a baseline is of its own element; the careful
\* plugins have no baseline but of the last reading.
Own ==
    /\ plugin # "percpu" => \A l \in DOMAIN source : source[l] = l
    /\ plugin \in Careful => DOMAIN baseline = DOMAIN source

\* What was reported, with what the next update may add, was moved.
Booked ==
    /\ CountedOnce
    /\ plugin \in Additive =>
        \A e \in DOMAIN baseline :
            reported[e] + Since(counter[e], baseline[e]) <= total[e]

\* The inductive invariant of the counters.
CounterInv ==
    /\ CountersTypeOK
    /\ steady \subseteq present
    /\ Behind
    /\ Exactly
    /\ Own
    /\ Booked
    /\ NoInventedTraffic
    /\ SteadyIsExact

-----------------------------------------------------------------------------
(* Lemmas *)

\* A difference of counts is a count.
LEMMA SinceCount ==
    ASSUME NEW a \in Count, NEW b \in Count
    PROVE  Since(a, b) \in Count /\ Since(a, b) <= a
BY CounterAssumption DEF Since, Count

\* How far a counter of finite width is ahead of a baseline.
LEMMA DeltaCount ==
    ASSUME CountersTypeOK, NEW l, NEW a \in Count
    PROVE  Delta(l, a) \in Count
<1>1. 0 \in Count
    BY CounterAssumption DEF Count
<1> QED BY <1>1, SinceCount DEF Delta, CountersTypeOK

\* A counter that moves stays a count: one more, or zero after a wrap.
LEMMA MovedCount ==
    ASSUME NEW c \in Count
    PROVE  /\ (c + 1) % Width \in Count
           /\ c + 1 = Width => (c + 1) % Width = 0
           /\ c + 1 # Width => (c + 1) % Width = c + 1
<1>1. c + 1 \in 0..Width /\ Width \in Nat /\ Width > 0
    BY CounterAssumption DEF Count
<1>2. c + 1 # Width => c + 1 < Width
    BY <1>1
<1> QED BY <1>1, <1>2 DEF Count

\* Whatever is read at the start of a window is what it is measured from.
LEMMA WindowBegins ==
    ASSUME CountersTypeOK, NEW read, NewWindow(read), UNCHANGED kernel,
           DOMAIN read \subseteq DOMAIN baseline',
           \A l \in DOMAIN read :
                read[l] \in Elements /\ baseline'[l] = counter[read[l]]
    PROVE  /\ Behind'
           /\ Exactly'
           /\ moved' \in [Elements -> Nat]
           /\ steady' \subseteq present'
           /\ DOMAIN source' \subseteq DOMAIN baseline'
           /\ \A l \in DOMAIN source' : source'[l] \in Elements
BY DEF CountersTypeOK, NewWindow, kernel, Behind, Exactly, Count

\* Rows that are differences from the baseline are judged as they should be.
LEMMA RowsAreTrue ==
    ASSUME CounterInv, NEW about, NEW read, Judge(about, read), UNCHANGED plugin,
           DOMAIN rows' \subseteq Elements,
           \A l \in DOMAIN rows' :
                /\ about[l] \in Elements /\ rows'[l] \in Count
                /\ l \in read => rows'[l] = Delta(l, counter[about[l]]),
           plugin \in Careful =>
                \A l \in DOMAIN rows' : l \in read /\ about[l] = l
    PROVE  /\ NoInventedTraffic'
           /\ SteadyIsExact'
           /\ DOMAIN truth' = DOMAIN rows'
           /\ \A l \in DOMAIN truth' :
                truth'[l] \in [moved : Nat, steady : BOOLEAN, fresh : BOOLEAN,
                               hotplugged : BOOLEAN]
<1> USE DEF CounterInv
<1>1. DOMAIN truth' = DOMAIN rows'
    BY DEF Judge
<1>2. ASSUME NEW l \in DOMAIN rows'
      PROVE  /\ truth'[l].moved = moved[about[l]]
             /\ truth'[l].steady => about[l] \in steady
             /\ truth'[l].fresh => l \in read /\ l \in DOMAIN source /\ source[l] = about[l]
             /\ truth'[l] \in [moved : Nat, steady : BOOLEAN, fresh : BOOLEAN,
                               hotplugged : BOOLEAN]
    <2> DEFINE s == about[l] \in steady
               f == l \in read /\ l \in DOMAIN source /\ source[l] = about[l]
               h == \A k \in DOMAIN source : source[k] # about[l]
    <2>1. truth'[l] = [moved |-> moved[about[l]], steady |-> s, fresh |-> f, hotplugged |-> h]
        BY DEF Judge
    <2>2. s \in BOOLEAN /\ f \in BOOLEAN /\ h \in BOOLEAN
        OBVIOUS
    <2>3. moved[about[l]] \in Nat
        BY DEF CountersTypeOK
    <2> HIDE DEF s, f, h
    <2>4. /\ truth'[l].moved = moved[about[l]]
          /\ truth'[l].steady = s
          /\ truth'[l].fresh = f
        BY <2>1
    <2>5. truth'[l] \in [moved : Nat, steady : BOOLEAN, fresh : BOOLEAN,
                         hotplugged : BOOLEAN]
        BY <2>1, <2>2, <2>3
    <2> QED BY <2>2, <2>4, <2>5 DEF s, f
<1>4. ASSUME NEW l \in DOMAIN rows', l \in read, l \in DOMAIN source, source[l] = about[l]
      PROVE  /\ rows'[l] <= moved[about[l]]
             /\ about[l] \in steady => rows'[l] = moved[about[l]]
    <2>1. l \in DOMAIN baseline /\ baseline[l] \in Nat
        BY <1>4 DEF CountersTypeOK, Count
    <2>2. counter[about[l]] \in Nat /\ moved[about[l]] \in Nat
        BY DEF CountersTypeOK, Count
    <2>3. rows'[l] = Since(counter[about[l]], baseline[l])
        BY <1>4, <2>1 DEF Delta
    <2>4. counter[about[l]] <= baseline[l] + moved[about[l]]
        BY <1>4 DEF Behind
    <2>5. about[l] \in steady => counter[about[l]] = baseline[l] + moved[about[l]]
        BY <1>4 DEF Exactly
    <2> QED BY <2>1, <2>2, <2>3, <2>4, <2>5 DEF Since
<1>5. ASSUME NEW l \in DOMAIN rows', plugin \in Careful
      PROVE  rows'[l] <= moved[about[l]]
    <2>1. l \in read /\ about[l] = l
        BY <1>5
    <2>2. CASE l \in DOMAIN baseline
        <3>1. l \in DOMAIN source /\ source[l] = l
            BY <1>5, <2>2 DEF Own, Careful
        <3> QED BY <1>4, <2>1, <3>1
    <2>3. CASE l \notin DOMAIN baseline
        <3>1. rows'[l] = 0 /\ moved[about[l]] \in Nat
            BY <2>1, <2>3 DEF Delta, CountersTypeOK
        <3> QED BY <3>1
    <2> QED BY <2>2, <2>3
<1>6. NoInventedTraffic'
    BY <1>2, <1>4, <1>5 DEF NoInventedTraffic
<1>7. SteadyIsExact'
    BY <1>2, <1>4 DEF SteadyIsExact
<1> QED BY <1>1, <1>2, <1>6, <1>7

\* Reporting a difference and starting over from the counter books nothing twice.
LEMMA BooksBalance ==
    ASSUME CounterInv, NEW about, NEW read, Judge(about, read), UNCHANGED <<plugin, kernel>>,
           DOMAIN rows' \subseteq Elements,
           \A l \in DOMAIN rows' : rows'[l] \in Count,
           DOMAIN baseline' \subseteq Elements,
           plugin \in Additive =>
                /\ \A e \in DOMAIN rows' :
                    rows'[e] <= Delta(e, counter[e]) /\ e \in DOMAIN baseline'
                /\ \A e \in DOMAIN baseline' :
                    baseline'[e] = counter[e]
                        \/ (e \in DOMAIN baseline \ DOMAIN rows' /\ baseline'[e] = baseline[e])
    PROVE  Booked' /\ reported' \in [Elements -> Nat]
<1> USE DEF CounterInv
<1>1. \A e \in Elements : reported[e] \in Nat /\ total[e] \in Nat /\ counter[e] \in Nat
    BY DEF CountersTypeOK, Count
<1>2. reported' \in [Elements -> Nat]
    BY <1>1 DEF Judge, Count
<1>3. ASSUME NEW e \in Elements, plugin \in Additive, e \in DOMAIN rows'
      PROVE  reported'[e] <= total[e]
    <2>1. reported'[e] = reported[e] + rows'[e] /\ rows'[e] \in Nat
        BY <1>3 DEF Judge, Count
    <2>2. rows'[e] <= Delta(e, counter[e])
        BY <1>3
    <2>3. reported[e] + Delta(e, counter[e]) <= total[e]
        <3>1. CASE e \in DOMAIN baseline BY <1>3, <3>1 DEF Booked, Delta
        <3>2. CASE e \notin DOMAIN baseline
            BY <1>1, <3>2 DEF Booked, CountedOnce, Delta
        <3> QED BY <3>1, <3>2
    <2>4. Delta(e, counter[e]) \in Nat
        BY DeltaCount DEF CountersTypeOK, Count
    <2> QED BY <1>1, <2>1, <2>2, <2>3, <2>4
<1>4. ASSUME NEW e \in Elements, ~(plugin \in Additive /\ e \in DOMAIN rows')
      PROVE  reported'[e] = reported[e]
    BY <1>4 DEF Judge
<1>5. total' = total
    BY DEF Judge
<1>6. CountedOnce'
    BY <1>3, <1>4, <1>5 DEF CountedOnce, Booked
<1>7. ASSUME NEW e \in DOMAIN baseline', plugin \in Additive
      PROVE  reported'[e] + Since(counter[e], baseline'[e]) <= total[e]
    <2>1. CASE baseline'[e] = counter[e]
        <3>1. Since(counter[e], baseline'[e]) = 0
            BY <1>1, <2>1 DEF Since
        <3> QED BY <1>1, <1>2, <1>5, <1>6, <3>1 DEF CountedOnce
    <2>2. CASE e \in DOMAIN baseline \ DOMAIN rows' /\ baseline'[e] = baseline[e]
        BY <1>4, <1>7, <2>2 DEF Booked
    <2> QED BY <1>7, <2>1, <2>2
<1> QED BY <1>2, <1>5, <1>6, <1>7 DEF Booked, kernel

-----------------------------------------------------------------------------
(* The counters *)

\* The invariant holds before the first update.
LEMMA InitInv == CountersInit => CounterInv
<1> SUFFICES ASSUME CountersInit PROVE CounterInv OBVIOUS
<1>1. present \subseteq Elements /\ DOMAIN Nothing = {}
    BY CounterAssumption DEF CountersInit, Elements, Nothing
<1>2. CountersTypeOK
    BY <1>1 DEF CountersInit, CountersTypeOK
<1> QED
    BY <1>1, <1>2
       DEF CountersInit, CounterInv, Behind, Exactly, Own, Booked, CountedOnce, NoInventedTraffic,
           SteadyIsExact, CountersTypeOK, Since, Additive, Careful

\* An element moves units.
LEMMA MoveInv ==
    ASSUME CounterInv, NEW e \in Elements, Move(e)
    PROVE  CounterInv'
<1> USE DEF CounterInv
<1>1. /\ counter[e] \in Count
      /\ \A f \in Elements : counter[f] \in Nat /\ moved[f] \in Nat
                             /\ total[f] \in Nat /\ reported[f] \in Nat
      /\ \A l \in DOMAIN baseline : l \in Elements /\ baseline[l] \in Nat
    BY DEF CountersTypeOK, Count
<1>2. /\ counter'[e] \in Count
      /\ counter[e] + 1 = Width => counter'[e] = 0
      /\ counter[e] + 1 # Width => counter'[e] = counter[e] + 1
    BY <1>1, MovedCount DEF Move, CountersTypeOK
<1>3. /\ moved'[e] = moved[e] + 1 /\ total'[e] = total[e] + 1
      /\ \A f \in Elements \ {e} :
            counter'[f] = counter[f] /\ moved'[f] = moved[f] /\ total'[f] = total[f]
      /\ UNCHANGED <<plugin, present, baseline, rows, source, truth, reported>>
      /\ steady' \subseteq steady /\ steady' \subseteq present
      /\ e \in steady' => counter[e] + 1 # Width
    BY DEF Move, CountersTypeOK
<1>4. CountersTypeOK'
    BY <1>1, <1>2, <1>3 DEF Move, CountersTypeOK
<1>5. \A f \in Elements : counter'[f] \in Nat /\ counter'[f] <= counter[f] + (moved'[f] - moved[f])
    BY <1>1, <1>2, <1>3 DEF Count
<1>6. \A l \in DOMAIN source : source[l] \in Elements /\ l \in DOMAIN baseline
    BY DEF CountersTypeOK
<1>7. Behind'
    <2> SUFFICES ASSUME NEW l \in DOMAIN source
                 PROVE  counter'[source[l]] <= baseline[l] + moved'[source[l]]
        BY <1>3 DEF Behind
    <2>1. counter[source[l]] <= baseline[l] + moved[source[l]]
        BY DEF Behind
    <2>2. source[l] \in Elements /\ baseline[l] \in Nat
        BY <1>1, <1>6
    <2>3. moved'[source[l]] \in Nat
        BY <1>4, <2>2 DEF CountersTypeOK
    <2> QED BY <1>1, <1>5, <2>1, <2>2, <2>3
<1>8. Exactly'
    <2> SUFFICES ASSUME NEW l \in DOMAIN source, source[l] \in steady'
                 PROVE  counter'[source[l]] = baseline[l] + moved'[source[l]]
        BY <1>3 DEF Exactly
    <2>1. counter[source[l]] = baseline[l] + moved[source[l]]
        BY <1>3 DEF Exactly
    <2>2. source[l] \in Elements /\ baseline[l] \in Nat
        BY <1>1, <1>6
    <2>3. CASE source[l] = e
        BY <1>1, <1>2, <1>3, <2>1, <2>2, <2>3
    <2>4. CASE source[l] # e
        BY <1>3, <2>1, <2>2, <2>4
    <2> QED BY <2>3, <2>4
<1>9. Own'
    BY <1>3 DEF Own
<1>10. Booked'
    <2>1. CountedOnce'
        BY <1>1, <1>3 DEF Booked, CountedOnce
    <2>2. ASSUME NEW f \in DOMAIN baseline, plugin \in Additive
          PROVE  reported[f] + Since(counter'[f], baseline[f]) <= total'[f]
        <3>1. reported[f] + Since(counter[f], baseline[f]) <= total[f]
            BY <2>2 DEF Booked
        <3>2. CASE f = e
            <4>1. Since(counter'[f], baseline[f]) <= Since(counter[f], baseline[f]) + 1
                BY <1>1, <1>2, <3>2 DEF Since
            <4>2. Since(counter'[f], baseline[f]) \in Nat /\ Since(counter[f], baseline[f]) \in Nat
                BY <1>1, <1>5 DEF Since
            <4> QED BY <1>1, <1>3, <3>1, <3>2, <4>1, <4>2
        <3>3. CASE f # e
            BY <1>1, <1>3, <3>1, <3>3
        <3> QED BY <3>2, <3>3
    <2> QED BY <1>3, <2>1, <2>2 DEF Booked
<1>11. NoInventedTraffic' /\ SteadyIsExact'
    BY <1>3 DEF NoInventedTraffic, SteadyIsExact
<1> QED BY <1>3, <1>4, <1>7, <1>8, <1>9, <1>10, <1>11

\* An element leaves, and another may take its name.
LEMMA LeaveInv ==
    ASSUME CounterInv, NEW e \in Elements, Leave(e)
    PROVE  CounterInv'
BY DEF CounterInv, Leave, CountersTypeOK, Behind, Exactly, Own, Booked, CountedOnce,
       NoInventedTraffic, SteadyIsExact

\* A counter that comes back is where it was or at zero, and is not steady.
LEMMA ReturnInv ==
    ASSUME CounterInv, NEW e \in Elements, Return(e)
    PROVE  CounterInv'
<1> USE DEF CounterInv
<1>1. /\ steady' \subseteq present'
      /\ counter' \in [Elements -> Count]
      /\ \A f \in Elements : counter'[f] = counter[f] \/ counter'[f] = 0
      /\ \A f \in steady : counter'[f] = counter[f]
      /\ UNCHANGED <<plugin, baseline, rows, history>>
    <2>1. 0 \in Count
        BY CounterAssumption DEF Count
    <2> QED BY <2>1 DEF Return, CountersTypeOK, history
<1>2. CountersTypeOK'
    BY <1>1 DEF Return, CountersTypeOK, history
<1>3. Behind'
    BY <1>1 DEF Behind, CountersTypeOK, history, Count
<1>4. Exactly'
    BY <1>1 DEF Exactly, CountersTypeOK, history
<1>5. Booked'
    BY <1>1 DEF Booked, CountedOnce, CountersTypeOK, history, Since, Count
<1> QED BY <1>1, <1>2, <1>3, <1>4, <1>5 DEF Own, NoInventedTraffic, SteadyIsExact, history

-----------------------------------------------------------------------------
(* The plugins *)

\* What every update that reads something must show of its rows and of its new
\* baseline: rows are differences from the old baseline, and the new one is
\* what was read.
Reads(about, read) ==
    /\ DOMAIN rows' \subseteq Elements
    /\ \A l \in DOMAIN rows' :
        /\ about[l] \in Elements /\ rows'[l] \in Count
        /\ l \in read => rows'[l] = Delta(l, counter[about[l]])
    /\ DOMAIN baseline' \subseteq Elements
    /\ \A l \in DOMAIN baseline' : baseline'[l] \in Count
    /\ read \subseteq DOMAIN baseline'
    /\ \A l \in read : about[l] \in Elements /\ baseline'[l] = counter[about[l]]
    /\ plugin # "percpu" => \A l \in Elements : about[l] = l
    /\ plugin \in Careful => DOMAIN rows' \subseteq read /\ DOMAIN baseline' = read
    /\ plugin \in Additive =>
        /\ DOMAIN rows' \subseteq read
        /\ \A e \in DOMAIN baseline' \ read :
            e \in DOMAIN baseline /\ baseline'[e] = baseline[e]

\* Any update: what it shows and keeps is decided by what it reads of which element.
LEMMA UpdateInv ==
    ASSUME CounterInv, UNCHANGED <<plugin, kernel>>, NEW about, NEW read,
           Judge(about, read), NewWindow([l \in read |-> about[l]]), Reads(about, read)
    PROVE  CounterInv'
<1> USE DEF CounterInv
<1>1. CountersTypeOK /\ kernel' = kernel /\ plugin' = plugin
    OBVIOUS
<1>2. /\ Behind' /\ Exactly'
      /\ moved' \in [Elements -> Nat]
      /\ steady' \subseteq present'
      /\ DOMAIN source' \subseteq DOMAIN baseline'
      /\ \A l \in DOMAIN source' : source'[l] \in Elements
    BY WindowBegins DEF Reads
<1>3. /\ NoInventedTraffic' /\ SteadyIsExact'
      /\ DOMAIN truth' = DOMAIN rows'
      /\ \A l \in DOMAIN truth' :
            truth'[l] \in [moved : Nat, steady : BOOLEAN, fresh : BOOLEAN,
                           hotplugged : BOOLEAN]
    <2>1. plugin \in Careful => plugin # "percpu"
        BY DEF Careful
    <2>2. plugin \in Careful => \A l \in DOMAIN rows' : l \in read /\ about[l] = l
        BY <2>1 DEF Reads
    <2> QED BY <2>2, RowsAreTrue DEF Reads
<1>4. Booked' /\ reported' \in [Elements -> Nat]
    <2>1. plugin \in Additive => plugin # "percpu"
        BY DEF Additive
    <2>2. ASSUME plugin \in Additive
          PROVE  /\ \A e \in DOMAIN rows' :
                        rows'[e] <= Delta(e, counter[e]) /\ e \in DOMAIN baseline'
                 /\ \A e \in DOMAIN baseline' :
                        baseline'[e] = counter[e]
                          \/ (e \in DOMAIN baseline \ DOMAIN rows' /\ baseline'[e] = baseline[e])
        <3>1. \A e \in Elements : about[e] = e
            BY <2>1, <2>2 DEF Reads
        <3>2. \A e \in DOMAIN rows' : e \in Elements /\ rows'[e] = Delta(e, counter[e])
            BY <2>2, <3>1 DEF Reads
        <3>3. \A e \in DOMAIN rows' : rows'[e] \in Nat
            BY DEF Reads, Count
        <3>4. \A e \in DOMAIN rows' : e \in DOMAIN baseline' /\ e \in read
            BY <2>2 DEF Reads
        <3>5. \A e \in read : baseline'[e] = counter[e]
            BY <3>1 DEF Reads
        <3>6. \A e \in DOMAIN baseline' \ read :
                e \in DOMAIN baseline \ DOMAIN rows' /\ baseline'[e] = baseline[e]
            BY <2>2, <3>4 DEF Reads
        <3>7. \A e \in DOMAIN rows' : rows'[e] <= Delta(e, counter[e])
            BY <3>2, <3>3
        <3>8. ASSUME NEW e \in DOMAIN baseline'
              PROVE  baseline'[e] = counter[e]
                       \/ (e \in DOMAIN baseline \ DOMAIN rows' /\ baseline'[e] = baseline[e])
            BY <3>5, <3>6
        <3>9. ASSUME NEW e \in DOMAIN rows'
              PROVE  rows'[e] <= Delta(e, counter[e]) /\ e \in DOMAIN baseline'
            BY <3>4, <3>7
        <3> QED BY <3>8, <3>9
    <2> QED BY <2>2, BooksBalance DEF Reads
<1>5. Own'
    <2>1. source' = [l \in read |-> about[l]]
        BY DEF NewWindow
    <2>2. read \subseteq Elements
        BY DEF Reads
    <2> QED BY <1>1, <2>1, <2>2 DEF Own, Reads
<1>6. CountersTypeOK'
    <2>1. total' = total
        BY DEF Judge
    <2> QED BY <1>1, <1>2, <1>3, <1>4, <2>1 DEF CountersTypeOK, Reads, kernel
<1> QED BY <1>2, <1>3, <1>4, <1>5, <1>6

\* The same for rows by name: a row is the difference of what was read of its
\* element (cur).
LEMMA ByNameInv ==
    ASSUME CounterInv, UNCHANGED <<plugin, kernel>>, plugin # "percpu",
           NEW read, read \subseteq Elements, NEW shown, NEW cur,
           Judge(Identity(Elements), read), NewWindow(Identity(read)),
           shown \subseteq Elements,
           \A e \in shown : cur[e] \in Count /\ (e \in read => cur[e] = counter[e]),
           rows' = [e \in shown |-> Delta(e, cur[e])],
           DOMAIN baseline' \subseteq Elements,
           \A e \in DOMAIN baseline' : baseline'[e] \in Count,
           \A e \in read : e \in DOMAIN baseline' /\ baseline'[e] = counter[e],
           plugin \in Additive => shown \subseteq read,
           plugin \in Careful => DOMAIN baseline' = read,
           plugin \in Additive =>
                \A e \in DOMAIN baseline' \ read :
                    e \in DOMAIN baseline /\ baseline'[e] = baseline[e]
    PROVE  CounterInv'
<1> USE DEF CounterInv
<1> DEFINE about == Identity(Elements)
<1>1. \A e \in Elements : about[e] = e
    BY DEF Identity
<1>2. NewWindow([l \in read |-> about[l]])
    <2>1. Identity(read) = [l \in read |-> about[l]]
        BY DEF Identity
    <2> QED BY <2>1
<1>3. \A e \in DOMAIN rows' :
        /\ rows'[e] = Delta(e, cur[e])
        /\ rows'[e] \in Count
    BY DeltaCount
<1>4. plugin \in Careful => plugin \in Additive
    BY DEF Careful, Additive
<1> HIDE DEF about
<1>5. Reads(about, read)
    BY <1>1, <1>3, <1>4 DEF Reads
<1>6. Judge(about, read)
    BY DEF about
<1> QED BY <1>2, <1>5, <1>6, UpdateInv

\* An update that reads nothing and keeps its window: its rows are gone.
LEMMA NothingReadInv ==
    ASSUME CounterInv, UNCHANGED <<plugin, kernel, baseline>>,
           rows' = Nothing, Judge(Identity(Elements), {}), SameWindow
    PROVE  CounterInv'
<1> USE DEF CounterInv
<1>1. DOMAIN rows' = {} /\ DOMAIN truth' = {}
    BY DEF Nothing, Judge
<1>2. reported' = reported /\ total' = total
    BY <1>1 DEF Judge, CountersTypeOK
<1>3. UNCHANGED <<moved, steady, source, present, counter>>
    BY DEF SameWindow, kernel
<1>4. CountersTypeOK'
    BY <1>1, <1>2, <1>3 DEF CountersTypeOK
<1> QED
    BY <1>1, <1>2, <1>3, <1>4
       DEF Behind, Exactly, Own, Booked, CountedOnce, NoInventedTraffic, SteadyIsExact

\* A reading fails, and nothing changes.
LEMMA FailInv == ASSUME CounterInv, ReadFails PROVE CounterInv'
BY DEF CounterInv, ReadFails, Keeps, kernel, history, CountersTypeOK, Behind, Exactly, Own, Booked,
       CountedOnce, NoInventedTraffic, SteadyIsExact

\* The rates of interfaces.
LEMMA NetworkInv == ASSUME CounterInv, NetworkUpdate PROVE CounterInv'
<1>1. PICK listed \in {present, {}} :
        /\ rows' = [e \in FirstRows(listed) |-> Delta(e, counter[e])]
        /\ baseline' = Counts(listed)
        /\ Judge(Identity(Elements), listed)
        /\ NewWindow(Identity(listed))
    BY DEF NetworkUpdate
<1>2. listed \subseteq Elements /\ FirstRows(listed) \subseteq listed
    BY DEF CounterInv, CountersTypeOK, FirstRows
<1>3. counter \in [Elements -> Count]
    BY DEF CounterInv, CountersTypeOK
<1>4. plugin = "network" /\ UNCHANGED <<plugin, kernel>>
    BY DEF NetworkUpdate
<1> QED BY <1>1, <1>2, <1>3, <1>4, ByNameInv DEF Counts

\* The rates of interfaces read over SNMP.
LEMMA NetworkSnmpInv == ASSUME CounterInv, NetworkUpdateSnmp PROVE CounterInv'
<1>1. PICK missing \in SUBSET present :
        LET cur == [e \in present |-> IF e \in missing THEN 0 ELSE counter[e]]
        IN /\ rows' = [e \in FirstRows(present) |-> Delta(e, cur[e])]
           /\ baseline' = cur
           /\ Judge(Identity(Elements), present \ missing)
           /\ NewWindow(Identity(present \ missing))
    BY DEF NetworkUpdateSnmp
<1> DEFINE cur == [e \in present |-> IF e \in missing THEN 0 ELSE counter[e]]
<1>2. present \subseteq Elements /\ FirstRows(present) \subseteq present
    BY DEF CounterInv, CountersTypeOK, FirstRows
<1>3. \A e \in present :
        cur[e] \in Count /\ (e \in present \ missing => cur[e] = counter[e])
    BY <1>2, CounterAssumption DEF CounterInv, CountersTypeOK, Count
<1>4. plugin = "network_snmp" /\ UNCHANGED <<plugin, kernel>>
    BY DEF NetworkUpdateSnmp
<1>5. plugin \notin Additive /\ plugin \notin Careful /\ plugin # "percpu"
    BY <1>4 DEF Additive, Careful
<1>6. DOMAIN cur = present
    OBVIOUS
<1>7. /\ rows' = [e \in FirstRows(present) |-> Delta(e, cur[e])]
      /\ baseline' = cur
    BY <1>1
<1> HIDE DEF cur
<1> QED BY <1>1, <1>2, <1>3, <1>4, <1>5, <1>6, <1>7, ByNameInv

\* The rates of disks.
LEMMA DiskioInv == ASSUME CounterInv, DiskioUpdate PROVE CounterInv'
<1>1. present \subseteq Elements /\ counter \in [Elements -> Count]
    BY DEF CounterInv, CountersTypeOK
<1> QED BY <1>1, ByNameInv DEF DiskioUpdate, Counts

\* The rates of interrupts, of which only the first rows are shown.
LEMMA IrqInv == ASSUME CounterInv, IrqUpdate PROVE CounterInv'
<1>0. PICK listed \in {present, {}} :
        /\ \E top \in SUBSET listed : rows' = [e \in top |-> Delta(e, counter[e])]
        /\ baseline' = [e \in DOMAIN baseline \cup listed |->
                            IF e \in listed THEN counter[e] ELSE baseline[e]]
        /\ Judge(Identity(Elements), listed)
        /\ NewWindow(Identity(listed))
    BY DEF IrqUpdate
<1>1. PICK top \in SUBSET listed : rows' = [e \in top |-> Delta(e, counter[e])]
    BY <1>0
<1>2. /\ listed \subseteq Elements /\ counter \in [Elements -> Count]
      /\ DOMAIN baseline \subseteq Elements
      /\ \A e \in DOMAIN baseline : baseline[e] \in Count
    BY DEF CounterInv, CountersTypeOK
<1>3. /\ DOMAIN baseline' = DOMAIN baseline \cup listed
      /\ \A e \in listed : baseline'[e] = counter[e]
      /\ \A e \in DOMAIN baseline' \ listed :
            e \in DOMAIN baseline /\ baseline'[e] = baseline[e]
    BY <1>0
<1>4. \A e \in DOMAIN baseline' : baseline'[e] \in Count
    BY <1>2, <1>3
<1>5. plugin = "irq" /\ UNCHANGED <<plugin, kernel>>
    BY DEF IrqUpdate
<1>6. plugin \notin Careful
    BY <1>5 DEF Careful
<1> QED BY <1>0, <1>1, <1>2, <1>3, <1>4, <1>5, <1>6, ByNameInv

\* Energy counters, that begin again at the top of their range.
LEMMA PowerInv == ASSUME CounterInv, PowerUpdate PROVE CounterInv'
<1> DEFINE shown == IF 1 \in DOMAIN baseline /\ counter[1] >= baseline[1] THEN {1} ELSE {}
<1>1. /\ 1 \in Elements /\ counter[1] \in Count
      /\ \A e \in DOMAIN baseline : baseline[e] \in Count
    BY CounterAssumption DEF CounterInv, CountersTypeOK, Elements
<1>2. plugin = "power" /\ UNCHANGED <<plugin, kernel>>
    BY DEF PowerUpdate
<1>3. ASSUME rows' = (IF 1 \in DOMAIN baseline /\ counter[1] >= baseline[1]
                      THEN [e \in {1} |-> counter[1] - baseline[1]] ELSE Nothing),
             baseline' = Counts({1}), Judge(Identity(Elements), {1}),
             NewWindow(Identity({1}))
      PROVE  CounterInv'
    <2>1. ASSUME shown = {1}
          PROVE  counter[1] - baseline[1] = Delta(1, counter[1])
        BY <1>1, <2>1 DEF Delta, Since, Count
    <2>2. rows' = [e \in shown |-> Delta(e, counter[e])]
        <3>1. CASE shown = {1}
            <4>1. rows' = [e \in {1} |-> counter[1] - baseline[1]]
                BY <1>3, <3>1
            <4> QED BY <2>1, <3>1, <4>1
        <3>2. CASE shown # {1}
            BY <1>3, <3>2 DEF Nothing
        <3> QED BY <3>1, <3>2
    <2>3. shown \subseteq {1}
        OBVIOUS
    <2> HIDE DEF shown
    <2> QED BY <1>1, <1>2, <1>3, <2>2, <2>3, ByNameInv DEF Counts
<1>4. ASSUME rows' = Nothing, Judge(Identity(Elements), {}), SameWindow, UNCHANGED baseline
      PROVE  CounterInv'
    BY <1>2, <1>4, NothingReadInv
<1> QED BY <1>3, <1>4 DEF PowerUpdate

\* The times of CPUs, by place.
LEMMA CpuInv == ASSUME CounterInv, CpuUpdate PROVE CounterInv'
<1>1. counter \in [Elements -> Count]
    BY DEF CounterInv, CountersTypeOK
<1> QED BY <1>1, ByNameInv DEF CpuUpdate, Counts

\* There are no more rows than elements, so their labels are elements too.
LEMMA PercpuInv == ASSUME CounterInv, PercpuUpdate PROVE CounterInv'
<1>1. PICK nth \in [1..Cardinality(present) -> present] :
        /\ rows' = [l \in DOMAIN nth |-> Delta(l, counter[nth[l]])]
        /\ baseline' = [l \in DOMAIN nth |-> counter[nth[l]]]
        /\ Judge(nth, DOMAIN nth)
        /\ NewWindow(nth)
    BY DEF PercpuUpdate
<1>2. present \subseteq Elements /\ counter \in [Elements -> Count]
    BY DEF CounterInv, CountersTypeOK
<1>3. DOMAIN nth \subseteq Elements
    <2>1. IsFiniteSet(Elements) /\ Cardinality(Elements) = NElements
        BY FS_Interval, CounterAssumption DEF Elements
    <2>2. Cardinality(present) \in Nat /\ Cardinality(present) <= NElements
        BY <1>2, <2>1, FS_Subset, FS_CardinalityType
    <2> QED BY <2>2, CounterAssumption DEF Elements
<1>4. \A l \in DOMAIN nth : nth[l] \in Elements /\ counter[nth[l]] \in Count
    BY <1>2
<1>5. \A l \in DOMAIN nth : Delta(l, counter[nth[l]]) \in Count
    BY <1>4, DeltaCount DEF CounterInv
<1>6. plugin = "percpu" /\ UNCHANGED <<plugin, kernel>>
    BY DEF PercpuUpdate
<1>7. plugin \notin Additive /\ plugin \notin Careful
    BY <1>6 DEF Additive, Careful
<1> DEFINE read == DOMAIN nth
<1>8. Reads(nth, read)
    BY <1>1, <1>3, <1>4, <1>5, <1>6, <1>7 DEF Reads
<1>9. NewWindow([l \in read |-> nth[l]])
    <2>1. nth = [l \in read |-> nth[l]]
        OBVIOUS
    <2> QED BY <1>1, <2>1
<1> HIDE DEF read
<1>10. Judge(nth, read)
    BY <1>1 DEF read
<1> QED BY <1>6, <1>8, <1>9, <1>10, UpdateInv

\* The times of processes, of which only some are shown.
LEMMA ProcessesInv == ASSUME CounterInv, ProcessesUpdate PROVE CounterInv'
<1>1. PICK listed \in SUBSET present : \E opaque \in SUBSET listed :
        LET cur == [e \in listed |-> IF e \in opaque THEN 0 ELSE counter[e]]
        IN /\ rows' = [e \in listed |-> Delta(e, cur[e])]
           /\ baseline' = cur
           /\ Judge(Identity(Elements), listed \ opaque)
           /\ NewWindow(Identity(listed \ opaque))
    BY DEF ProcessesUpdate
<1>2. PICK opaque \in SUBSET listed :
        LET cur == [e \in listed |-> IF e \in opaque THEN 0 ELSE counter[e]]
        IN /\ rows' = [e \in listed |-> Delta(e, cur[e])]
           /\ baseline' = cur
           /\ Judge(Identity(Elements), listed \ opaque)
           /\ NewWindow(Identity(listed \ opaque))
    BY <1>1
<1> DEFINE cur == [e \in listed |-> IF e \in opaque THEN 0 ELSE counter[e]]
<1>3. listed \subseteq Elements
    BY DEF CounterInv, CountersTypeOK
<1>4. \A e \in listed :
        cur[e] \in Count /\ (e \in listed \ opaque => cur[e] = counter[e])
    BY <1>3, CounterAssumption DEF CounterInv, CountersTypeOK, Count
<1>5. plugin = "processlist" /\ UNCHANGED <<plugin, kernel>>
    BY DEF ProcessesUpdate
<1>6. plugin \notin Additive /\ plugin \notin Careful /\ plugin # "percpu"
    BY <1>5 DEF Additive, Careful
<1>7. DOMAIN cur = listed
    OBVIOUS
<1>8. /\ rows' = [e \in listed |-> Delta(e, cur[e])]
      /\ baseline' = cur
    BY <1>2
<1> HIDE DEF cur
<1> QED BY <1>2, <1>3, <1>4, <1>5, <1>6, <1>7, <1>8, ByNameInv

\* An update that lists no process.
LEMMA UnlistedInv == ASSUME CounterInv, ProcessesUnlisted PROVE CounterInv'
BY NothingReadInv DEF ProcessesUnlisted

-----------------------------------------------------------------------------
(* Theorems *)

\* Every step keeps the invariant.
LEMMA NextInv == CounterInv /\ [CountersNext]_countersVars => CounterInv'
<1> SUFFICES ASSUME CounterInv, [CountersNext]_countersVars PROVE CounterInv'
    OBVIOUS
<1>1. ASSUME NEW e \in Elements, Move(e) PROVE CounterInv'
    BY <1>1, MoveInv
<1>2. ASSUME NEW e \in Elements, Leave(e) PROVE CounterInv'
    BY <1>2, LeaveInv
<1>3. ASSUME NEW e \in Elements, Return(e) PROVE CounterInv'
    BY <1>3, ReturnInv
<1>4. CASE Update
    BY <1>4, FailInv, NetworkInv, NetworkSnmpInv, DiskioInv, IrqInv, PowerInv, CpuInv, PercpuInv,
       ProcessesInv, UnlistedInv DEF Update
<1>5. CASE UNCHANGED countersVars
    BY <1>5 DEF CounterInv, countersVars, kernel, history, CountersTypeOK, Behind, Exactly, Own, Booked,
       CountedOnce, NoInventedTraffic, SteadyIsExact
<1> QED BY <1>1, <1>2, <1>3, <1>4, <1>5 DEF CountersNext

\* Every state satisfies it.
LEMMA SpecInv == CountersSpec => []CounterInv
BY InitInv, NextInv, PTL DEF CountersSpec

\* Rows, baselines and bookkeeping are of their types.
THEOREM Types == CountersSpec => []CountersTypeOK
BY SpecInv, PTL DEF CounterInv

\* No plugin shows a rate of more than was moved in the time it is over, be a
\* reading failed, an element gone and back, replaced, or its counter wrapped.
THEOREM NothingInvented == CountersSpec => []NoInventedTraffic
BY SpecInv, PTL DEF CounterInv

\* What an undisturbed element moved between two readings is shown whole.
THEOREM SteadyExact == CountersSpec => []SteadyIsExact
BY SpecInv, PTL DEF CounterInv

\* The differences shown of an element never add up to more than it moved.
THEOREM NothingTwice == CountersSpec => []CountedOnce
<1>1. CounterInv => CountedOnce
    BY DEF CounterInv, Booked
<1> QED BY <1>1, SpecInv, PTL

-----------------------------------------------------------------------------
(* Processes.                                                              *)

\* Samples are the records Sample makes.
IsSample(s) == s = [pid |-> s.pid, name |-> s.name, user |-> s.user, used |-> s.used, of |-> s.of]

\* The windows are computed from numbers, a pid still to come has not been sampled, and
\* samples are the records Sample makes.
Counted ==
    /\ jiffies \in Nat /\ walk.jiffies \in Nat
    /\ \A p \in DOMAIN lastSeen : lastSeen[p].jiffies \in Nat
    /\ \A s \in walk.samples : IsSample(s) /\ s.of \in Nat /\ s.pid \notin walk.left
    /\ ~walk.on => walk.samples = {} /\ walk.left = {}

\* A pid sampled in this walk bears its total.
SampledNow ==
    \A p \in Sampled(walk.samples) \cap DOMAIN lastSeen : lastSeen[p].jiffies = walk.jiffies

\* Those not sampled bear one total, and shares are of the time since then.
OneTotal(base) ==
    \A p \in DOMAIN lastSeen \ Sampled(walk.samples) : lastSeen[p].jiffies = base

\* A share is of the time since the total that the baselines bear, or of none.
Shares(base) == \A s \in walk.samples : s.of \in {0, walk.jiffies - base}

\* The rows of the list are of one window.
ListedShares == \E w : \A s \in listing : s.of \in {0, w}

\* The rows of programs are of one window.
GroupedShares == \E w : \A row \in programs : row.of \subseteq {w}

\* The inductive invariant of the walk.
WindowInv ==
    /\ Counted /\ SampledNow
    /\ \E base \in Nat : OneTotal(base) /\ Shares(base)
    /\ ListedShares /\ GroupedShares

-----------------------------------------------------------------------------

\* A row's windows are those of its members.
LEMMA RowWindows ==
    ASSUME NEW samples, NEW row \in Grouped(samples)
    PROVE  row.of \subseteq Windows(samples)
  <1>1. PICK n : row = ProgramRow(n, {s \in samples : s.name = n})
    BY DEF Grouped
  <1>2. row.of = Windows({s \in samples : s.name = n})
    BY <1>1 DEF ProgramRow
  <1> QED BY <1>2 DEF Windows

\* The initial state: nothing sampled yet.
LEMMA InitWindows == ProcessesInit => WindowInv
  <1> SUFFICES ASSUME ProcessesInit PROVE WindowInv
    OBVIOUS
  <1>1. Counted /\ SampledNow
    BY DEF ProcessesInit, Counted, SampledNow, NoEntry, NoWalk
  <1>2. OneTotal(0) /\ Shares(0)
    BY DEF ProcessesInit, OneTotal, Shares, NoEntry, NoWalk
  <1>3. ListedShares /\ GroupedShares
    BY DEF ProcessesInit, ListedShares, GroupedShares
  <1> QED BY <1>1, <1>2, <1>3 DEF WindowInv

\* Reading one process: the total of its baseline is the common one, and it
\* bears the walk's from now on.
LEMMA ReadWindows ==
    ASSUME WindowInv, NEW p \in Pids, ReadProcess(p)
    PROVE  WindowInv'
  <1>1. PICK base \in Nat : OneTotal(base) /\ Shares(base)
    BY DEF WindowInv
  <1>2. UNCHANGED <<jiffies, listing, programs>> /\ p \in walk.left
    BY DEF ReadProcess
  <1>3. ListedShares' /\ GroupedShares'
    BY <1>2 DEF WindowInv, ListedShares, GroupedShares
  <1>4. CASE /\ walk' = [walk EXCEPT !.left = @ \ {p}]
             /\ UNCHANGED lastSeen
    <2>1. walk'.samples = walk.samples /\ walk'.jiffies = walk.jiffies /\ walk'.on = walk.on
          /\ walk'.left \subseteq walk.left
      BY <1>4
    <2>2. Counted' /\ SampledNow'
      BY <1>2, <1>4, <2>1 DEF WindowInv, Counted, SampledNow, Sampled
    <2>3. OneTotal(base)' /\ Shares(base)'
      BY <1>1, <1>4, <2>1 DEF OneTotal, Shares, Sampled
    <2> QED BY <1>3, <2>2, <2>3 DEF WindowInv
  <1>5. ASSUME p \in DOMAIN running, NEW user \in Owners(p),
               lastSeen' = With(lastSeen, p, [ticks |-> running[p].ticks, jiffies |-> walk.jiffies]),
               walk' = [walk EXCEPT !.left = @ \ {p}, !.samples = @ \cup {Sample(p, user)}]
        PROVE  WindowInv'
    <2> DEFINE new == Sample(p, user)
    <2>1. new.pid = p /\ IsSample(new)
      BY DEF Sample, IsSample
    <2>2. p \in DOMAIN lastSeen => lastSeen[p].jiffies = base
      BY <1>1, <1>2 DEF WindowInv, Counted, OneTotal, Sampled
    <2>3. new.of \in Nat /\ new.of \in {0, walk.jiffies - base}
      BY <2>2 DEF Sample, Share, WindowInv, Counted
    <2> HIDE DEF new
    <2>4. /\ walk'.samples = walk.samples \cup {new} /\ walk'.jiffies = walk.jiffies
          /\ walk'.left = walk.left \ {p} /\ walk'.on = walk.on
      BY <1>5 DEF new
    <2>5. walk.on
      BY <1>2 DEF WindowInv, Counted
    <2>6. /\ DOMAIN lastSeen' = DOMAIN lastSeen \cup {p}
          /\ \A q \in DOMAIN lastSeen' :
               lastSeen'[q].jiffies = IF q = p THEN walk.jiffies ELSE lastSeen[q].jiffies
      BY <1>5 DEF With
    <2>7. Sampled(walk.samples)' = Sampled(walk.samples) \cup {p}
      BY <2>1, <2>4 DEF Sampled
    <2>8. Counted'
      BY <1>2, <2>1, <2>3, <2>4, <2>5, <2>6 DEF WindowInv, Counted
    <2>9. SampledNow'
      BY <2>4, <2>6, <2>7 DEF WindowInv, SampledNow
    <2>10. OneTotal(base)'
      BY <1>1, <2>4, <2>6, <2>7 DEF OneTotal
    <2>11. Shares(base)'
      BY <1>1, <2>3, <2>4 DEF Shares
    <2> QED BY <1>3, <2>8, <2>9, <2>10, <2>11 DEF WindowInv
  <1> QED
    BY <1>4, <1>5 DEF ReadProcess

\* The end of a walk: its shares are shown, and its total is the common one.
LEMMA EndWindows ==
    ASSUME WindowInv, EndWalk
    PROVE  WindowInv'
  <1> USE ProcessesAssumption
  <1>1. PICK base \in Nat : OneTotal(base) /\ Shares(base)
    BY DEF WindowInv
  <1>2. walk' = NoWalk /\ UNCHANGED jiffies
    BY DEF EndWalk
  <1>3. /\ DOMAIN lastSeen' = DOMAIN lastSeen \cap Sampled(walk.samples)
        /\ \A p \in DOMAIN lastSeen' : lastSeen'[p] = lastSeen[p]
    BY DEF EndWalk, Retain
  <1>4. Counted' /\ SampledNow'
    BY <1>2, <1>3 DEF WindowInv, Counted, SampledNow, NoWalk, Sampled
  <1>6. \E t \in Nat : OneTotal(t)' /\ Shares(t)'
    BY <1>2, <1>3 DEF WindowInv, Counted, SampledNow, OneTotal, Shares, NoWalk, Sampled
  <1>7. ListedShares'
    <2>1. \A d \in listing' : \E s \in walk.samples : d.of = Cores * s.of
      <3>1. ASSUME NEW s \in walk.samples PROVE Displayed(s).of = Cores * s.of
        <4>1. IsSample(s)
          BY DEF WindowInv, Counted
        <4>2. s.of = s["of"] /\ "of" \in DOMAIN s
          BY <4>1 DEF IsSample
        <4> QED BY <4>1, <4>2 DEF Displayed
      <3> QED BY <3>1 DEF EndWalk
    <2>2. \A d \in listing' : d.of \in {0, Cores * (walk.jiffies - base)}
      BY <1>1, <2>1 DEF Shares
    <2> QED BY <2>2 DEF ListedShares
  <1>8. GroupedShares'
    <2>1. Windows(walk.samples) \subseteq {walk.jiffies - base}
      BY <1>1 DEF Shares, Windows
    <2>2. \A row \in programs' : row.of \subseteq {walk.jiffies - base}
      BY <2>1, RowWindows DEF EndWalk
    <2> QED BY <2>2 DEF GroupedShares
  <1> QED BY <1>4, <1>6, <1>7, <1>8 DEF WindowInv

\* Every step keeps the invariant.
LEMMA StepWindows == WindowInv /\ [ProcessesNext]_processVars => WindowInv'
  <1> SUFFICES ASSUME WindowInv, [ProcessesNext]_processVars PROVE WindowInv'
    OBVIOUS
  <1>1. ASSUME UNCHANGED <<lastSeen, walk, listing, programs>>, jiffies' \in Nat
        PROVE  WindowInv'
    <2>1. Counted' /\ SampledNow'
      BY <1>1 DEF WindowInv, Counted, SampledNow, Sampled
    <2>2. \E t \in Nat : OneTotal(t)' /\ Shares(t)'
      BY <1>1 DEF WindowInv, OneTotal, Shares, Sampled
    <2>3. ListedShares' /\ GroupedShares'
      BY <1>1 DEF WindowInv, ListedShares, GroupedShares
    <2> QED BY <2>1, <2>2, <2>3 DEF WindowInv
  <1>2. jiffies \in Nat
    BY DEF WindowInv, Counted
  <1>3. ASSUME NEW p \in Pids, NEW n \in ProgramNames, NEW u \in Users, Fork(p, n, u)
        PROVE  WindowInv'
    BY <1>1, <1>2, <1>3 DEF Fork
  <1>4. ASSUME NEW p \in Pids, Exit(p) \/ Jiffy(p)
        PROVE  WindowInv'
    BY <1>1, <1>2, <1>4 DEF Exit, Jiffy
  <1>5. ASSUME NEW p \in Pids, ReadProcess(p)
        PROVE  WindowInv'
    BY <1>5, ReadWindows
  <1>6. CASE BeginWalk
    <2>1. walk = NoWalk /\ UNCHANGED <<jiffies, lastSeen, listing, programs>>
      BY <1>6 DEF BeginWalk
    <2>2. walk'.on /\ walk'.samples = {} /\ walk'.jiffies \in Nat
      BY <1>2, <1>6 DEF BeginWalk, TotalRead
    <2>3. Counted' /\ SampledNow'
      BY <1>2, <2>1, <2>2 DEF WindowInv, Counted, SampledNow, Sampled
    <2>4. \E t \in Nat : OneTotal(t)' /\ Shares(t)'
      BY <2>1, <2>2 DEF WindowInv, OneTotal, Shares, Sampled, NoWalk
    <2>5. ListedShares' /\ GroupedShares'
      BY <2>1 DEF WindowInv, ListedShares, GroupedShares
    <2> QED BY <2>3, <2>4, <2>5 DEF WindowInv
  <1>7. CASE WalkFails
    <2>1. UNCHANGED <<jiffies, lastSeen, walk>> /\ listing' = {} /\ programs' = {}
      BY <1>7 DEF WalkFails
    <2>2. Counted' /\ SampledNow'
      BY <2>1 DEF WindowInv, Counted, SampledNow, Sampled
    <2>3. \E t \in Nat : OneTotal(t)' /\ Shares(t)'
      BY <2>1 DEF WindowInv, OneTotal, Shares, Sampled
    <2>4. ListedShares' /\ GroupedShares'
      BY <2>1 DEF ListedShares, GroupedShares
    <2> QED BY <2>2, <2>3, <2>4 DEF WindowInv
  <1>8. CASE EndWalk
    BY <1>8, EndWindows
  <1>9. CASE UNCHANGED processVars
    BY <1>1, <1>2, <1>9 DEF processVars
  <1> QED
    BY <1>3, <1>4, <1>5, <1>6, <1>7, <1>8, <1>9 DEF ProcessesNext

\* Shares can be compared and summed (SharesOfOneWindow): one window for all
\* that a walk of sample_all showed, in the process list and the program list.
THEOREM OneWindow == ProcessesSpec => []SharesOfOneWindow
  <1>1. WindowInv => SharesOfOneWindow
    <2> SUFFICES ASSUME WindowInv PROVE SharesOfOneWindow
      OBVIOUS
    <2>1. \A a, b \in Windows(listing) : a = b
      BY DEF WindowInv, ListedShares, Windows
    <2>2. \A a, b \in UNION {row.of : row \in programs} : a = b
      BY DEF WindowInv, GroupedShares
    <2> QED BY <2>1, <2>2 DEF SharesOfOneWindow
  <1> QED
    BY <1>1, InitWindows, StepWindows, PTL DEF ProcessesSpec

-----------------------------------------------------------------------------
(* GPU.                                                                    *)

\* What an engine of a card says of the process that runs under a pid.
UsedOn(p, c, e) == processes[p].used[<<c, e>>]

\* What the plugin knows of an engine p has open, p having been found on one card
\* at most: not less than it was if the card has been open since, no more unless it
\* worked; and a card opened since is unknown or its counter has not moved.
KnownAt(p, c, e) ==
    p \notin spread /\ <<c, e>> \in DOMAIN processes[p].used =>
        /\ <<p, c>> \in openSince => <<p, e>> \in DOMAIN prevEngines /\ prevEngines[<<p, e>>] <= UsedOn(p, c, e)
        /\ <<p, c>> \in openSince /\ <<p, c>> \notin worked => UsedOn(p, c, e) = prevEngines[<<p, e>>]
        /\ <<p, c>> \notin openSince /\ <<p, c>> \notin worked =>
              <<p, e>> \notin DOMAIN prevEngines \/ UsedOn(p, c, e) = 0

\* Who worked on a card that has been open since moved one of its counters.
MovedAt(p, c) ==
    p \notin spread /\ <<p, c>> \in openSince /\ <<p, c>> \in worked =>
        \E e \in Engines : <<c, e>> \in DOMAIN processes[p].used /\ prevEngines[<<p, e>>] < UsedOn(p, c, e)

\* What the plugin knows holds on every card of whoever runs.
KnownSince ==
    /\ \A x \in openSince : x[1] \in Live
    /\ \A p \in Live, c \in OpenCards : MovedAt(p, c) /\ \A e \in Engines : KnownAt(p, c, e)

\* Who has a context has it now; what a sweep saw was held at that time or later.
HeldSince ==
    /\ DOMAIN held \subseteq Programs \X NvidiaCards
    /\ \A k \in DOMAIN held : held[k] \in 0..clock
    /\ \A k \in Holds : k \in DOMAIN held /\ held[k] = clock
    /\ sweep.apps \subseteq [pid : Programs, card : NvidiaCards, transcoder : BOOLEAN]
    /\ \A app \in sweep.apps : <<app.pid, app.card>> \in DOMAIN held /\ sweep.at <= held[<<app.pid, app.card>>]

\* The inductive invariant of the GPU plugin.
GpuInv == GpuTypeOK /\ updatedAt \in Nat /\ KnownSince /\ HeldSince /\ SweepIsRecent /\ ShownIsWorking

\* What a sweep saw and what is shown of it stays recent while the times of contexts only
\* grow.
LEMMA HeldLater ==
    ASSUME GpuTypeOK, HeldSince, DOMAIN held \subseteq DOMAIN held', DOMAIN held' \subseteq Programs \X NvidiaCards,
           \A k \in DOMAIN held' : held'[k] \in 0..clock',
           \A k \in DOMAIN held : held[k] <= held'[k],
           \A k \in Holds' : k \in DOMAIN held' /\ held'[k] = clock',
           sweep' = sweep, clock' \in Nat
    PROVE  HeldSince'
<1>1. ASSUME NEW app \in sweep.apps
      PROVE  <<app.pid, app.card>> \in DOMAIN held' /\ sweep.at <= held'[<<app.pid, app.card>>]
    <2> DEFINE k == <<app.pid, app.card>>
    <2>1. k \in DOMAIN held /\ sweep.at <= held[k] /\ held[k] <= held'[k] /\ k \in DOMAIN held'
        BY DEF HeldSince
    <2>2. held[k] \in 0..clock /\ held'[k] \in 0..clock' /\ clock \in Nat
        BY <2>1, GpuAssumption DEF HeldSince, GpuTypeOK
    <2>3. sweep.at \in Nat
        BY DEF GpuTypeOK, NoSweep
    <2> HIDE DEF k
    <2>4. sweep.at <= held'[k]
        BY <2>1, <2>2, <2>3
    <2> QED
        BY <2>1, <2>4 DEF k
<1> QED
    BY <1>1 DEF HeldSince

\* What is shown stays recent while the times of contexts only grow.
LEMMA RecentLater ==
    ASSUME HeldSince, SweepIsRecent, DOMAIN held \subseteq DOMAIN held', clock' \in Nat, clock \in Nat,
           \A k \in DOMAIN held' : held'[k] \in 0..clock',
           \A k \in DOMAIN held : held[k] <= held'[k],
           clients' = clients, updatedAt' = updatedAt, updatedAt \in Nat
    PROVE  SweepIsRecent'
<1>1. ASSUME NEW d \in clients, d.by = "sweep"
      PROVE  <<d.pid, d.card>> \in DOMAIN held' /\ updatedAt < held'[<<d.pid, d.card>>] + SweepTtl
    <2> DEFINE k == <<d.pid, d.card>>
    <2>1. k \in DOMAIN held /\ k \in DOMAIN held' /\ updatedAt < held[k] + SweepTtl /\ held[k] <= held'[k]
        BY <1>1 DEF SweepIsRecent
    <2>2. held[k] \in 0..clock /\ held'[k] \in 0..clock' /\ SweepTtl \in Nat
        BY <2>1, GpuAssumption DEF HeldSince
    <2> HIDE DEF k
    <2>3. updatedAt < held'[k] + SweepTtl
        BY <2>1, <2>2
    <2> QED
        BY <2>1, <2>3 DEF k
<1> QED
    BY <1>1 DEF SweepIsRecent

\* Nothing is learnt about a process that did nothing.
LEMMA SameKnown ==
    ASSUME NEW p, NEW c, processes'[p] = processes[p], prevEngines' = prevEngines, spread' = spread,
           <<p, c>> \in openSince' <=> <<p, c>> \in openSince, <<p, c>> \in worked' <=> <<p, c>> \in worked,
           MovedAt(p, c) /\ \A e \in Engines : KnownAt(p, c, e)
    PROVE  MovedAt(p, c)' /\ \A e \in Engines : KnownAt(p, c, e)'
<1>1. MovedAt(p, c)'
    BY DEF MovedAt, UsedOn
<1>2. ASSUME NEW e \in Engines PROVE KnownAt(p, c, e)'
    <2>1. KnownAt(p, c, e)
        OBVIOUS
    <2> QED
        BY <2>1 DEF KnownAt, UsedOn
<1> QED
    BY <1>1, <1>2

\* What the files of a process say is a time for each engine of the cards it has open.
LEMMA UsageIs ==
    ASSUME NEW u \in Usage
    PROVE  /\ \E S \in SUBSET OpenCards : u \in [S \X Engines -> 0..MaxWork]
           /\ \A c, e : <<c, e>> \in DOMAIN u => c \in OpenCards /\ e \in Engines /\ u[<<c, e>>] \in 0..MaxWork
           /\ \A k \in DOMAIN u : k = <<k[1], k[2]>> /\ k[1] \in OpenCards /\ k[2] \in Engines
<1>1. PICK S \in SUBSET OpenCards : u \in [S \X Engines -> 0..MaxWork]
    BY DEF Usage
<1>2. DOMAIN u = S \X Engines /\ \A k \in S \X Engines : u[k] \in 0..MaxWork
    BY <1>1
<1> QED
    BY <1>1, <1>2

\* A process starts with no card open.
LEMMA NoUsage == NoCounters \in Usage /\ DOMAIN NoCounters = {}
<1>1. DOMAIN NoCounters = {} /\ NoCounters = [k \in {} |-> 0]
    BY DEF NoCounters
<1>2. {} \X Engines = {}
    OBVIOUS
<1>3. NoCounters \in [{} \X Engines -> 0..MaxWork]
    BY <1>1, <1>2
<1>4. {} \in SUBSET OpenCards
    OBVIOUS
<1> QED
    BY <1>1, <1>3, <1>4, Zenon DEF Usage

\* What runs has files, contexts and a name.
LEMMA LiveIs ==
    ASSUME GpuTypeOK, NEW p \in Live
    PROVE  /\ p \in Programs /\ processes[p] \in Process /\ processes[p].used \in Usage
           /\ processes[p].transcoder \in BOOLEAN /\ processes[p].contexts \in SUBSET NvidiaCards
<1>1. p \in Programs /\ processes[p] # Gone
    BY DEF Live
<1>2. processes[p] \in Process
    BY <1>1 DEF GpuTypeOK
<1> QED
    BY <1>1, <1>2 DEF Process

\* The clock moves.
LEMMA ElapseKeeps == ASSUME GpuInv, Elapse PROVE GpuInv'
<1>1. /\ clock' = clock + 1 /\ clock \in 0..MaxClock /\ clock < MaxClock /\ processes' = processes
      /\ sweep' = sweep /\ prevEngines' = prevEngines /\ clients' = clients /\ spread' = spread /\ wrong' = wrong
      /\ updatedAt' = updatedAt /\ worked' = worked /\ openSince' = openSince
    BY DEF Elapse, gpuState, GpuInv, GpuTypeOK
<1>2. clock \in Nat /\ clock' \in Nat /\ clock' \in 0..MaxClock /\ \A n \in 0..clock : n \in 0..clock' /\ n <= clock'
    BY <1>1, GpuAssumption
<1>3. Live' = Live /\ Holds' = Holds
    BY <1>1 DEF Live, Holds
<1>4. GpuTypeOK'
    BY <1>1, <1>2 DEF GpuInv, GpuTypeOK
<1>5. KnownSince'
    <2>1. ASSUME NEW p \in Live', NEW c \in OpenCards PROVE MovedAt(p, c)' /\ \A e \in Engines : KnownAt(p, c, e)'
        BY <1>1, <1>3, SameKnown DEF GpuInv, KnownSince
    <2> QED
        BY <1>1, <1>3, <2>1 DEF GpuInv, KnownSince
<1>6. held' = [k \in DOMAIN held \cup Holds |-> IF k \in Holds THEN clock' ELSE held[k]]
    BY DEF Elapse
<1>7. Holds \subseteq DOMAIN held /\ DOMAIN held' = DOMAIN held /\ DOMAIN held \subseteq Programs \X NvidiaCards
    BY <1>6 DEF GpuInv, HeldSince
<1>8. \A k \in DOMAIN held : held[k] \in 0..clock
    BY DEF GpuInv, HeldSince
<1>9. \A k \in DOMAIN held : held'[k] \in 0..clock' /\ held[k] <= held'[k] /\ held[k] \in Nat /\ held'[k] \in Nat
    <2> SUFFICES ASSUME NEW k \in DOMAIN held
                 PROVE  held'[k] \in 0..clock' /\ held[k] <= held'[k] /\ held[k] \in Nat /\ held'[k] \in Nat
        OBVIOUS
    <2>1. held[k] \in 0..clock /\ held'[k] \in {clock', held[k]}
        BY <1>6, <1>7, <1>8
    <2> QED
        BY <1>1, <1>2, <2>1
<1>10. \A k \in Holds : k \in DOMAIN held' /\ held'[k] = clock'
    BY <1>6, <1>7
<1>11. HeldSince'
    BY <1>1, <1>2, <1>3, <1>7, <1>9, <1>10, HeldLater DEF GpuInv
<1>12. SweepIsRecent' /\ ShownIsWorking'
    BY <1>1, <1>2, <1>7, <1>9, RecentLater DEF GpuInv, ShownIsWorking
<1> QED
    BY <1>1, <1>4, <1>5, <1>11, <1>12 DEF GpuInv

\* A process starts, under a pid that may have been another's.
LEMMA BeginProcessKeeps == ASSUME GpuInv, NEW p \in Programs, BeginProcess(p) PROVE GpuInv'
<1>1. PICK transcoder \in BOOLEAN, contexts \in SUBSET NvidiaCards :
        /\ Become(p, [transcoder |-> transcoder, used |-> NoCounters, contexts |-> contexts])
        /\ held' = [k \in DOMAIN held \cup ({p} \X contexts) |-> IF k[1] = p /\ k[2] \in contexts THEN clock ELSE held[k]]
    BY DEF BeginProcess
<1> DEFINE new == [transcoder |-> transcoder, used |-> NoCounters, contexts |-> contexts]
<1>2. /\ clock' = clock /\ clock \in Nat /\ clock \in 0..MaxClock /\ processes[p] = Gone
      /\ sweep' = sweep /\ prevEngines' = prevEngines /\ clients' = clients /\ spread' = spread /\ wrong' = wrong
      /\ updatedAt' = updatedAt /\ updatedAt \in Nat /\ worked' = worked /\ openSince' = openSince
    BY GpuAssumption DEF BeginProcess, gpuState, GpuInv, GpuTypeOK
<1>3. /\ processes \in [Programs -> Process \cup {Gone}] /\ processes' = [processes EXCEPT ![p] = new]
      /\ new \in Process /\ new # Gone /\ new.used = NoCounters /\ new.contexts = contexts
    BY <1>1, NoUsage, GpuAssumption DEF Become, GpuInv, GpuTypeOK, Process
<1> HIDE DEF new
<1>4. processes' \in [Programs -> Process \cup {Gone}] /\ processes'[p] = new /\ \A q \in Programs \ {p} : processes'[q] = processes[q]
    BY <1>3
<1>5. p \notin Live /\ Live' = Live \cup {p}
    BY <1>2, <1>3, <1>4 DEF Live
<1>6. GpuTypeOK'
    BY <1>2, <1>4 DEF GpuInv, GpuTypeOK
<1>7. KnownSince'
    <2>1. \A x \in openSince : x[1] \in Live
        BY DEF GpuInv, KnownSince
    <2>2. ASSUME NEW q \in Live', NEW c \in OpenCards PROVE MovedAt(q, c)' /\ \A e \in Engines : KnownAt(q, c, e)'
        <3>1. CASE q = p
            <4>1. <<q, c>> \notin openSince' /\ DOMAIN processes'[q].used = {}
                BY <1>2, <1>3, <1>4, <1>5, <2>1, <3>1, NoUsage
            <4> QED
                BY <4>1 DEF MovedAt, KnownAt
        <3>2. CASE q # p
            <4>1. q \in Live /\ processes'[q] = processes[q]
                BY <1>4, <1>5, <3>2 DEF Live
            <4> QED
                BY <1>2, <4>1, SameKnown DEF GpuInv, KnownSince
        <3> QED
            BY <3>1, <3>2
    <2> QED
        BY <1>2, <1>5, <2>1, <2>2 DEF KnownSince
<1>8. Holds' = Holds \cup ({p} \X contexts)
    <2>1. \A q \in Live : processes'[q] = processes[q]
        BY <1>4, <1>5 DEF Live
    <2>2. ASSUME NEW k PROVE k \in Holds' <=> k \in Holds \/ k \in {p} \X contexts
        <3>1. k \in Holds' <=> \E q \in Live' : \E c \in processes'[q].contexts : k = <<q, c>>
            BY DEF Holds
        <3>2. k \in Holds <=> \E q \in Live : \E c \in processes[q].contexts : k = <<q, c>>
            BY DEF Holds
        <3> QED
            BY <1>3, <1>4, <1>5, <2>1, <3>1, <3>2
    <2> QED
        BY <2>2
<1>9. /\ DOMAIN held' = DOMAIN held \cup ({p} \X contexts) /\ DOMAIN held' \subseteq Programs \X NvidiaCards
      /\ \A k \in DOMAIN held : held[k] \in 0..clock
      /\ \A k \in Holds : k \in DOMAIN held /\ held[k] = clock
    BY <1>1 DEF GpuInv, HeldSince
<1>10. \A k \in DOMAIN held' : held'[k] \in {clock, held[k]} /\ (k \in {p} \X contexts => held'[k] = clock)
            /\ (k \notin {p} \X contexts => held'[k] = held[k] /\ k \in DOMAIN held)
    <2> SUFFICES ASSUME NEW k \in DOMAIN held'
                 PROVE  held'[k] \in {clock, held[k]} /\ (k \in {p} \X contexts => held'[k] = clock)
                        /\ (k \notin {p} \X contexts => held'[k] = held[k] /\ k \in DOMAIN held)
        OBVIOUS
    <2>1. k \in Programs \X NvidiaCards /\ k = <<k[1], k[2]>>
        BY <1>9
    <2>2. held'[k] = IF k[1] = p /\ k[2] \in contexts THEN clock ELSE held[k]
        BY <1>1, <1>9
    <2>3. k \in {p} \X contexts <=> k[1] = p /\ k[2] \in contexts
        BY <2>1
    <2> QED
        BY <1>9, <2>2, <2>3
<1>11. /\ \A k \in DOMAIN held' : held'[k] \in 0..clock'
       /\ \A k \in DOMAIN held : held[k] <= held'[k]
       /\ \A k \in Holds' : k \in DOMAIN held' /\ held'[k] = clock'
    <2>1. ASSUME NEW k \in DOMAIN held' PROVE held'[k] \in 0..clock'
        BY <1>2, <1>9, <1>10
    <2>2. ASSUME NEW k \in DOMAIN held PROVE held[k] <= held'[k]
        <3>1. held[k] \in 0..clock /\ held'[k] \in {clock, held[k]}
            BY <1>9, <1>10
        <3> QED
            BY <1>2, <3>1
    <2>3. ASSUME NEW k \in Holds' PROVE k \in DOMAIN held' /\ held'[k] = clock'
        BY <1>2, <1>8, <1>9, <1>10
    <2> QED
        BY <2>1, <2>2, <2>3
<1>12. DOMAIN held \subseteq DOMAIN held'
    BY <1>9
<1>13. HeldSince'
    BY <1>2, <1>9, <1>11, <1>12, HeldLater DEF GpuInv
<1>14. SweepIsRecent' /\ ShownIsWorking'
    BY <1>2, <1>11, <1>12, RecentLater DEF GpuInv, ShownIsWorking
<1> QED
    BY <1>2, <1>6, <1>7, <1>13, <1>14 DEF GpuInv

\* What a process does to itself, whatever it is: who has contexts loses or keeps them.
LEMMA HeldWithin ==
    ASSUME GpuInv, Holds' \subseteq Holds, UNCHANGED <<clock, gpuState, held>>
    PROVE  HeldSince' /\ SweepIsRecent' /\ ShownIsWorking'
<1>1. /\ clock' = clock /\ clock \in Nat /\ sweep' = sweep /\ clients' = clients /\ wrong' = wrong
      /\ updatedAt' = updatedAt /\ held' = held /\ updatedAt \in Nat
    BY GpuAssumption DEF gpuState, GpuInv, GpuTypeOK
<1>2. HeldSince'
    BY <1>1 DEF GpuInv, HeldSince
<1> QED
    BY <1>1, <1>2 DEF GpuInv, SweepIsRecent, ShownIsWorking

\* A process exits, and what was known of its pid with it.
LEMMA EndProcessKeeps == ASSUME GpuInv, NEW p \in Programs, EndProcess(p) PROVE GpuInv'
<1>1. /\ clock' = clock /\ prevEngines' = prevEngines /\ spread' = spread /\ sweep' = sweep /\ clients' = clients
      /\ updatedAt' = updatedAt /\ updatedAt \in Nat /\ held' = held /\ UNCHANGED <<clock, gpuState, held>>
      /\ worked' = {x \in worked : x[1] # p} /\ openSince' = {x \in openSince : x[1] # p}
      /\ processes' = [processes EXCEPT ![p] = Gone]
    BY DEF EndProcess, Become, gpuState, GpuInv
<1>2. processes' \in [Programs -> Process \cup {Gone}] /\ processes'[p] = Gone /\ \A q \in Programs \ {p} : processes'[q] = processes[q]
    BY <1>1 DEF GpuInv, GpuTypeOK
<1>3. Live' = Live \ {p}
    BY <1>2 DEF Live
<1>4. GpuTypeOK'
    BY <1>1, <1>2 DEF GpuInv, GpuTypeOK
<1>5. KnownSince'
    <2>1. ASSUME NEW q \in Live', NEW c \in OpenCards PROVE MovedAt(q, c)' /\ \A e \in Engines : KnownAt(q, c, e)'
        <3>1. q \in Live /\ q # p /\ processes'[q] = processes[q]
            BY <1>2, <1>3 DEF Live
        <3>2. (<<q, c>> \in openSince' <=> <<q, c>> \in openSince) /\ (<<q, c>> \in worked' <=> <<q, c>> \in worked)
            BY <1>1, <3>1
        <3> QED
            BY <1>1, <3>1, <3>2, SameKnown DEF GpuInv, KnownSince
    <2>2. \A x \in openSince' : x[1] \in Live'
        BY <1>1, <1>3 DEF GpuInv, KnownSince
    <2> QED
        BY <2>1, <2>2 DEF KnownSince
<1>6. Holds' \subseteq Holds
    <2>1. \A q \in Live' : q \in Live /\ processes'[q] = processes[q]
        BY <1>2, <1>3 DEF Live
    <2>2. ASSUME NEW k \in Holds' PROVE k \in Holds
        <3>1. PICK q \in Live' : \E c \in processes'[q].contexts : k = <<q, c>>
            BY DEF Holds
        <3> QED
            BY <2>1, <3>1 DEF Holds
    <2> QED
        BY <2>2
<1> QED
    BY <1>1, <1>4, <1>5, <1>6, HeldWithin DEF GpuInv

\* What one process does to its counters alone: types and contexts stay.
LEMMA ItsCounters ==
    ASSUME GpuInv, NEW p \in Live, NEW new \in Usage,
           processes' = [processes EXCEPT ![p] = [processes[p] EXCEPT !.used = new]],
           UNCHANGED <<clock, gpuState, held>>
    PROVE  /\ GpuTypeOK' /\ HeldSince' /\ SweepIsRecent' /\ ShownIsWorking' /\ (updatedAt \in Nat)'
           /\ Live' = Live /\ processes'[p].used = new /\ prevEngines' = prevEngines /\ spread' = spread
           /\ \A q \in Live \ {p} : processes'[q] = processes[q]
<1>1. /\ p \in Programs /\ processes[p] \in Process /\ processes[p] # Gone
      /\ processes \in [Programs -> Process \cup {Gone}]
    BY LiveIs DEF GpuInv, GpuTypeOK, Live
<1> DEFINE is == [processes[p] EXCEPT !.used = new]
<1>2. is \in Process /\ is.used = new /\ is.contexts = processes[p].contexts
    BY <1>1 DEF Process
<1> HIDE DEF is
<1>3. processes' \in [Programs -> Process \cup {Gone}] /\ processes'[p] = is /\ \A q \in Programs \ {p} : processes'[q] = processes[q]
    BY <1>1, <1>2 DEF is
<1>4. is # Gone
    BY <1>2, GpuAssumption
<1>5. Live' = Live
    BY <1>1, <1>3, <1>4 DEF Live
<1>6. GpuTypeOK' /\ prevEngines' = prevEngines /\ spread' = spread /\ (updatedAt \in Nat)'
    BY <1>3 DEF gpuState, GpuInv, GpuTypeOK
<1>7. \A q \in Live : processes'[q].contexts = processes[q].contexts
    BY <1>2, <1>3 DEF Live
<1>8. Holds' \subseteq Holds
    <2> SUFFICES ASSUME NEW k \in Holds' PROVE k \in Holds
        OBVIOUS
    <2>1. PICK q \in Live' : \E c \in processes'[q].contexts : k = <<q, c>>
        BY DEF Holds
    <2> QED
        BY <1>5, <1>7, <2>1 DEF Holds
<1> QED
    BY <1>2, <1>3, <1>5, <1>6, <1>8, HeldWithin DEF Live

\* A card is opened, its counters at zero, or closed.
LEMMA OpenOrCloseKeeps ==
    ASSUME GpuInv, NEW p \in Programs, NEW c \in OpenCards, OpenOrClose(p, c)
    PROVE  GpuInv'
<1> DEFINE used == processes[p].used
           opened == {k[1] : k \in DOMAIN used}
           still == IF c \in opened THEN opened \ {c} ELSE opened \cup {c}
           new == [k \in still \X Engines |-> IF k \in DOMAIN used THEN used[k] ELSE 0]
<1>1. /\ p \in Live /\ UNCHANGED <<clock, gpuState, held>> /\ worked' = worked /\ openSince' = openSince \ {<<p, c>>}
      /\ processes' = [processes EXCEPT ![p] = [processes[p] EXCEPT !.used = new]]
    BY DEF OpenOrClose, Become
<1>2. used \in Usage
    BY <1>1, LiveIs DEF GpuInv
<1> HIDE DEF used
<1>3. PICK S \in SUBSET OpenCards : used \in [S \X Engines -> 0..MaxWork]
    BY <1>2, UsageIs
<1>4. opened \subseteq S /\ \A d \in S, e \in Engines : d \in opened
    <2>1. DOMAIN used = S \X Engines
        BY <1>3
    <2>2. ASSUME NEW d \in S, NEW e \in Engines PROVE d \in opened
        <3>1. <<d, e>> \in DOMAIN used /\ <<d, e>>[1] = d
            BY <2>1
        <3> QED
            BY <3>1
    <2>3. \A k \in S \X Engines : k[1] \in S
        OBVIOUS
    <2> QED
        BY <2>1, <2>2, <2>3
<1> HIDE DEF opened
<1>5. still \in SUBSET OpenCards
    BY <1>4
<1>6. new \in [still \X Engines -> 0..MaxWork]
    <2>1. 0 \in 0..MaxWork
        BY GpuAssumption
    <2>2. \A k \in DOMAIN used : used[k] \in 0..MaxWork
        BY <1>3
    <2> QED
        BY <2>1, <2>2
<1>7. new \in Usage
    BY <1>5, <1>6, Zenon DEF Usage
<1>8. ASSUME NEW d, NEW e \in Engines, d # c
      PROVE  /\ <<d, e>> \in DOMAIN new <=> <<d, e>> \in DOMAIN used
             /\ <<d, e>> \in DOMAIN new => new[<<d, e>>] = used[<<d, e>>]
    <2>1. <<d, e>> \in DOMAIN used <=> d \in S
        BY <1>3
    <2>2. d \in still <=> d \in S
        BY <1>4, <1>8
    <2> QED
        BY <2>1, <2>2
<1>9. ASSUME NEW e \in Engines, <<c, e>> \in DOMAIN new PROVE new[<<c, e>>] = 0
    <2>1. c \in still
        BY <1>9
    <2>2. c \notin S
        BY <1>4, <2>1
    <2>3. <<c, e>> \notin DOMAIN used
        BY <1>3, <2>2
    <2> QED
        BY <1>9, <2>3
<1> HIDE DEF new, still
<1>10. /\ GpuTypeOK' /\ HeldSince' /\ SweepIsRecent' /\ ShownIsWorking' /\ (updatedAt \in Nat)'
       /\ Live' = Live /\ processes'[p].used = new /\ prevEngines' = prevEngines /\ spread' = spread
       /\ \A q \in Live \ {p} : processes'[q] = processes[q]
    BY <1>1, <1>7, ItsCounters
<1>11. ASSUME NEW q \in Live', NEW d \in OpenCards PROVE MovedAt(q, d)' /\ \A e \in Engines : KnownAt(q, d, e)'
    <2>1. q \in Live /\ MovedAt(q, d) /\ \A e \in Engines : KnownAt(q, d, e)
        BY <1>10 DEF GpuInv, KnownSince
    <2>2. CASE q # p
        <3>1. processes'[q] = processes[q] /\ (<<q, d>> \in openSince' <=> <<q, d>> \in openSince)
            BY <1>1, <1>10, <2>1, <2>2
        <3> QED
            BY <1>1, <1>10, <2>1, <3>1, SameKnown
    <2>3. CASE q = p /\ d = c
        <3>1. <<p, c>> \notin openSince'
            BY <1>1
        <3>2. MovedAt(q, d)'
            BY <2>3, <3>1 DEF MovedAt
        <3>3. ASSUME NEW e \in Engines PROVE KnownAt(q, d, e)'
            <4>1. <<c, e>> \in DOMAIN processes'[p].used => processes'[p].used[<<c, e>>] = 0
                BY <1>9, <1>10
            <4> QED
                BY <2>3, <3>1, <4>1 DEF KnownAt, UsedOn
        <3> QED
            BY <3>2, <3>3
    <2>4. CASE q = p /\ d # c
        <3>1. (<<p, d>> \in openSince' <=> <<p, d>> \in openSince) /\ (<<p, d>> \in worked' <=> <<p, d>> \in worked)
            BY <1>1, <2>4
        <3>2. ASSUME NEW e \in Engines
              PROVE  /\ <<d, e>> \in DOMAIN processes'[p].used <=> <<d, e>> \in DOMAIN processes[p].used
                     /\ <<d, e>> \in DOMAIN processes[p].used => UsedOn(p, d, e)' = UsedOn(p, d, e)
            BY <1>8, <1>10, <2>4 DEF used, UsedOn
        <3>3. MovedAt(p, d)'
            BY <1>10, <2>1, <2>4, <3>1, <3>2 DEF MovedAt
        <3>4. ASSUME NEW e \in Engines PROVE KnownAt(p, d, e)'
            <4>1. KnownAt(p, d, e)
                BY <2>1, <2>4
            <4> QED
                BY <1>10, <4>1, <3>1, <3>2 DEF KnownAt
        <3> QED
            BY <2>4, <3>3, <3>4
    <2> QED
        BY <2>2, <2>3, <2>4
<1>12. KnownSince'
    <2>1. \A x \in openSince' : x[1] \in Live'
        BY <1>1, <1>10 DEF GpuInv, KnownSince
    <2> QED
        BY <1>11, <2>1 DEF KnownSince
<1> QED
    BY <1>10, <1>12 DEF GpuInv

\* A counter moves.
LEMMA WorkKeeps ==
    ASSUME GpuInv, NEW p \in Programs, NEW c \in OpenCards, NEW f \in Engines, Work(p, c, f)
    PROVE  GpuInv'
<1> DEFINE used == processes[p].used
           new == [used EXCEPT ![<<c, f>>] = @ + 1]
<1>1. /\ p \in Live /\ UNCHANGED <<clock, gpuState, held>> /\ openSince' = openSince /\ worked' = worked \cup {<<p, c>>}
      /\ <<c, f>> \in DOMAIN used /\ used[<<c, f>>] < MaxWork
      /\ processes' = [processes EXCEPT ![p] = [processes[p] EXCEPT !.used[<<c, f>>] = @ + 1]]
    BY DEF Work, Become
<1>2. processes' = [processes EXCEPT ![p] = [processes[p] EXCEPT !.used = new]]
    <2>1. [processes[p] EXCEPT !.used[<<c, f>>] = @ + 1] = [processes[p] EXCEPT !.used = new]
        OBVIOUS
    <2> QED
        BY <1>1, <2>1
<1>3. used \in Usage
    BY <1>1, LiveIs DEF GpuInv
<1> HIDE DEF used
<1>4. PICK S \in SUBSET OpenCards : used \in [S \X Engines -> 0..MaxWork]
    BY <1>3, UsageIs
<1>5. \A k \in DOMAIN used : used[k] \in Nat
    BY <1>4, GpuAssumption
<1>6. used[<<c, f>>] + 1 \in 0..MaxWork
    <2>1. used[<<c, f>>] \in 0..MaxWork
        BY <1>1, <1>4
    <2> QED
        BY <1>1, <2>1, GpuAssumption
<1>7. new \in [S \X Engines -> 0..MaxWork] /\ DOMAIN new = DOMAIN used /\ new[<<c, f>>] = used[<<c, f>>] + 1
      /\ \A k \in DOMAIN used : k # <<c, f>> => new[k] = used[k]
    BY <1>1, <1>4, <1>6
<1> HIDE DEF new
<1>8. new \in Usage
    BY <1>7, Zenon DEF Usage
<1>9. /\ GpuTypeOK' /\ HeldSince' /\ SweepIsRecent' /\ ShownIsWorking' /\ (updatedAt \in Nat)'
      /\ Live' = Live /\ processes'[p].used = new /\ prevEngines' = prevEngines /\ spread' = spread
      /\ \A q \in Live \ {p} : processes'[q] = processes[q]
    BY <1>1, <1>2, <1>8, ItsCounters
<1>10. ASSUME NEW k \in DOMAIN prevEngines PROVE prevEngines[k] \in Nat
    BY GpuAssumption DEF GpuInv, GpuTypeOK
<1>11. ASSUME NEW q \in Live', NEW d \in OpenCards PROVE MovedAt(q, d)' /\ \A e \in Engines : KnownAt(q, d, e)'
    <2>1. q \in Live /\ MovedAt(q, d) /\ \A e \in Engines : KnownAt(q, d, e)
        BY <1>9 DEF GpuInv, KnownSince
    <2>2. CASE q # p \/ d # c
        <3>1. <<q, d>> \in worked' <=> <<q, d>> \in worked
            BY <1>1, <2>2
        <3>2. ASSUME NEW e \in Engines
              PROVE  /\ <<d, e>> \in DOMAIN processes'[q].used <=> <<d, e>> \in DOMAIN processes[q].used
                     /\ <<d, e>> \in DOMAIN processes[q].used => UsedOn(q, d, e)' = UsedOn(q, d, e)
            <4>1. CASE q # p
                BY <1>9, <2>1, <4>1 DEF UsedOn
            <4>2. CASE q = p
                BY <1>7, <1>9, <2>2, <4>2 DEF used, UsedOn
            <4> QED
                BY <4>1, <4>2
        <3>3. MovedAt(q, d)'
            BY <1>1, <1>9, <2>1, <3>1, <3>2 DEF MovedAt
        <3>4. ASSUME NEW e \in Engines PROVE KnownAt(q, d, e)'
            <4>1. KnownAt(q, d, e)
                BY <2>1
            <4> QED
                BY <1>1, <1>9, <4>1, <3>1, <3>2 DEF KnownAt
        <3> QED
            BY <3>3, <3>4
    <2>3. CASE q = p /\ d = c
        <3> DEFINE was(e) == used[<<c, e>>]
                   before(e) == prevEngines[<<p, e>>]
        <3>1. <<p, c>> \in worked'
            BY <1>1
        <3>2. ASSUME NEW e \in Engines, <<c, e>> \in DOMAIN used
              PROVE  /\ UsedOn(p, c, e) = was(e) /\ UsedOn(p, c, e)' = new[<<c, e>>]
                     /\ was(e) \in Nat /\ new[<<c, e>>] \in Nat /\ was(e) <= new[<<c, e>>]
                     /\ e = f => was(e) < new[<<c, e>>]
            <4>1. UsedOn(p, c, e) = was(e) /\ UsedOn(p, c, e)' = new[<<c, e>>]
                BY <1>9 DEF used, UsedOn
            <4>2. new[<<c, e>>] = IF e = f THEN was(e) + 1 ELSE was(e)
                BY <1>7, <3>2
            <4>3. was(e) \in Nat
                BY <1>5, <3>2
            <4> QED
                BY <4>1, <4>2, <4>3
        <3>3. ASSUME NEW e \in Engines, <<c, e>> \in DOMAIN used, p \notin spread, <<p, c>> \in openSince
              PROVE  <<p, e>> \in DOMAIN prevEngines /\ before(e) <= was(e) /\ before(e) \in Nat
            <4>1. KnownAt(p, c, e)
                BY <2>1, <2>3
            <4>2. <<p, e>> \in DOMAIN prevEngines /\ before(e) <= UsedOn(p, c, e)
                BY <3>3, <4>1 DEF KnownAt, used
            <4> QED
                BY <1>10, <3>2, <3>3, <4>2
        <3>4. ASSUME NEW e \in Engines PROVE KnownAt(p, c, e)'
            <4>1. SUFFICES ASSUME p \notin spread, <<c, e>> \in DOMAIN used, <<p, c>> \in openSince
                           PROVE  <<p, e>> \in DOMAIN prevEngines /\ before(e) <= UsedOn(p, c, e)'
                BY <1>1, <1>7, <1>9, <3>1 DEF KnownAt
            <4>2. <<p, e>> \in DOMAIN prevEngines /\ before(e) <= was(e) /\ before(e) \in Nat
                BY <3>3, <4>1
            <4>3. UsedOn(p, c, e)' = new[<<c, e>>] /\ was(e) \in Nat /\ new[<<c, e>>] \in Nat /\ was(e) <= new[<<c, e>>]
                BY <3>2, <4>1
            <4> HIDE DEF was, before
            <4>4. before(e) <= new[<<c, e>>]
                BY <4>2, <4>3
            <4> QED
                BY <4>2, <4>3, <4>4
        <3>5. MovedAt(p, c)'
            <4>1. SUFFICES ASSUME p \notin spread, <<p, c>> \in openSince
                           PROVE  <<c, f>> \in DOMAIN new /\ before(f) < UsedOn(p, c, f)'
                BY <1>1, <1>9 DEF MovedAt
            <4>2. <<c, f>> \in DOMAIN used /\ <<c, f>> \in DOMAIN new
                BY <1>1, <1>7
            <4>3. before(f) <= was(f) /\ before(f) \in Nat
                BY <3>3, <4>1, <4>2
            <4>4. UsedOn(p, c, f)' = new[<<c, f>>] /\ was(f) \in Nat /\ new[<<c, f>>] \in Nat /\ was(f) < new[<<c, f>>]
                BY <3>2, <4>2
            <4> HIDE DEF was, before
            <4>5. before(f) < new[<<c, f>>]
                BY <4>3, <4>4
            <4> QED
                BY <4>2, <4>4, <4>5
        <3> QED
            BY <2>3, <3>4, <3>5
    <2> QED
        BY <2>2, <2>3
<1>12. KnownSince'
    <2>1. \A x \in openSince' : x[1] \in Live'
        BY <1>1, <1>9 DEF GpuInv, KnownSince
    <2> QED
        BY <1>11, <2>1 DEF KnownSince
<1> QED
    BY <1>9, <1>12 DEF GpuInv

\* What an update reads: every counter of who can be read.
Seen(found, readable) ==
    /\ \A f \in found : /\ f = <<f[1], f[2], f[3]>> /\ f[1] \in readable /\ f[2] \in OpenCards /\ f[3] \in Engines
                        /\ <<f[2], f[3]>> \in DOMAIN processes[f[1]].used
                        /\ Counter(f) = UsedOn(f[1], f[2], f[3]) /\ Counter(f) \in 0..MaxWork
    /\ \A p \in readable : \A c, e : <<c, e>> \in DOMAIN processes[p].used => <<p, c, e>> \in found

\* What the files in fdinfo give is what Seen says.
LEMMA SeenFound ==
    ASSUME GpuTypeOK, NEW readable \in SUBSET Live,
           NEW found, found = IF OpenCards = {} THEN {} ELSE Found(readable)
    PROVE  Seen(found, readable)
<1>1. ASSUME NEW p \in readable
      PROVE  /\ processes[p].used \in Usage
             /\ \A c, e : <<c, e>> \in DOMAIN processes[p].used =>
                    c \in OpenCards /\ e \in Engines /\ processes[p].used[<<c, e>>] \in 0..MaxWork
             /\ \A k \in DOMAIN processes[p].used : k = <<k[1], k[2]>>
    <2>1. processes[p].used \in Usage
        BY LiveIs
    <2> QED
        BY <2>1, UsageIs
<1>2. ASSUME NEW f \in found
      PROVE  /\ f = <<f[1], f[2], f[3]>> /\ f[1] \in readable /\ f[2] \in OpenCards /\ f[3] \in Engines
             /\ <<f[2], f[3]>> \in DOMAIN processes[f[1]].used
             /\ Counter(f) = UsedOn(f[1], f[2], f[3]) /\ Counter(f) \in 0..MaxWork
    <2>1. PICK p \in readable : \E k \in DOMAIN processes[p].used : f = <<p, k[1], k[2]>>
        BY <1>2 DEF Found
    <2>2. PICK k \in DOMAIN processes[p].used : f = <<p, k[1], k[2]>>
        BY <2>1
    <2>3. f[1] = p /\ f[2] = k[1] /\ f[3] = k[2] /\ k = <<k[1], k[2]>>
        BY <1>1, <2>2
    <2>4. f[2] \in OpenCards /\ f[3] \in Engines /\ <<f[2], f[3]>> \in DOMAIN processes[f[1]].used
          /\ processes[f[1]].used[<<f[2], f[3]>>] \in 0..MaxWork
        BY <1>1, <2>2, <2>3
    <2> QED
        BY <2>2, <2>3, <2>4 DEF Counter, UsedOn
<1>3. ASSUME NEW p \in readable, NEW c, NEW e, <<c, e>> \in DOMAIN processes[p].used
      PROVE  <<p, c, e>> \in found
    <2>1. c \in OpenCards
        BY <1>1, <1>3
    <2>2. <<p, <<c, e>>[1], <<c, e>>[2]>> \in found
        BY <1>3, <2>1 DEF Found
    <2> QED
        BY <2>2
<1> QED
    BY <1>2, <1>3 DEF Seen

\* Who was not found on several cards was found on one.
LEMMA OneCard ==
    ASSUME NEW found, NEW readable, Seen(found, readable), NEW p \in readable,
           ~(Cardinality({x \in Pairs(found) : x[1] = p}) > 1),
           NEW f \in found, NEW g \in found, f[1] = p, g[1] = p
    PROVE  f[2] = g[2]
<1> DEFINE X == {x \in Pairs(found) : x[1] = p}
           two == {<<p, f[2]>>} \cup {<<p, g[2]>>}
<1>1. SUFFICES ASSUME f[2] # g[2] PROVE FALSE
    OBVIOUS
<1>2. X \subseteq {p} \X OpenCards
    <2> SUFFICES ASSUME NEW x \in X PROVE x \in {p} \X OpenCards
        OBVIOUS
    <2>1. PICK h \in found : x = <<h[1], h[2]>>
        BY DEF Pairs
    <2>2. x[1] = h[1] /\ h[2] \in OpenCards
        BY <2>1 DEF Seen
    <2> QED
        BY <2>1, <2>2
<1>3. IsFiniteSet({p} \X OpenCards)
    BY FS_Singleton, FS_Product, GpuAssumption
<1>4. IsFiniteSet(X)
    BY <1>2, <1>3, FS_Subset
<1>5. two \subseteq X
    BY DEF Pairs
<1>6. Cardinality(two) = 2
    <2>1. IsFiniteSet({<<p, f[2]>>}) /\ Cardinality({<<p, f[2]>>}) = 1 /\ <<p, g[2]>> \notin {<<p, f[2]>>}
        BY <1>1, FS_Singleton
    <2>2. Cardinality(two) = 1 + 1
        BY <2>1, FS_AddElement, Zenon
    <2> QED
        BY <2>2
<1>7. Cardinality(two) <= Cardinality(X) /\ Cardinality(X) \in Nat
    BY <1>4, <1>5, FS_Subset, FS_CardinalityType
<1>8. ~(Cardinality(X) > 1)
    OBVIOUS
<1> HIDE DEF X, two
<1> QED
    BY <1>6, <1>7, <1>8

\* What is kept for the next update is the counter of one of the cards.
LEMMA BaselineIs ==
    ASSUME NEW found, NEW readable, Seen(found, readable), NEW k \in DOMAIN Baselines(found)
    PROVE  \E f \in found : k = <<f[1], f[3]>> /\ Baselines(found)[k] = Counter(f)
<1> DEFINE of == {f \in found : f[1] = k[1] /\ f[3] = k[2]}
<1>1. DOMAIN Baselines(found) = {<<f[1], f[3]>> : f \in found}
    BY DEF Baselines
<1>2. PICK f \in found : k = <<f[1], f[3]>>
    BY <1>1
<1>3. Baselines(found)[k] = Counter(CHOOSE h \in of : \A g \in of : g[2] <= h[2])
    BY <1>1 DEF Baselines
<1>4. {h[2] : h \in of} \in SUBSET OpenCards /\ {h[2] : h \in of} # {}
    BY <1>2 DEF Seen
<1>5. PICK m \in {h[2] : h \in of} : \A x \in {h[2] : h \in of} : x <= m
    <2>1. IsFiniteSet({h[2] : h \in of}) /\ {h[2] : h \in of} \in SUBSET Nat
        BY <1>4, FS_Subset, GpuAssumption
    <2> QED
        BY <1>4, <2>1, GreatestOf
<1>6. \E h \in of : \A g \in of : g[2] <= h[2]
    BY <1>5
<1> DEFINE top == CHOOSE h \in of : \A g \in of : g[2] <= h[2]
<1>7. top \in of
    BY <1>6
<1>8. top \in found /\ k = <<top[1], top[3]>>
    BY <1>2, <1>7
<1> QED
    BY <1>3, <1>8

\* What an update shows is right of who was not found on several cards before:
\* who did nothing has the counters the update before left, and who worked has more.
LEMMA NothingMisjudged ==
    ASSUME GpuInv, NEW readable \in SUBSET Live, NEW found, Seen(found, readable),
           NEW x \in Misjudged(found)
    PROVE  x[1] \in spread
<1> DEFINE shownPairs == {<<d.pid, d.card>> : d \in DrmClients(found)}
<1>1. x \in shownPairs \ worked \/ x \in (Pairs(found) \cap openSince \cap worked) \ shownPairs
    BY DEF Misjudged
<1>2. \A y : y \in shownPairs <=> \E f \in found : Advanced(f) /\ y = <<f[1], f[2]>>
    <2> DEFINE active == {f \in found : Advanced(f)}
               transcodes(f) == processes[f[1]].transcoder /\ \E v \in active : v[1] = f[1] /\ v[2] = f[2] /\ v[3] \in Video
               client(f) == [card |-> f[2], pid |-> f[1], by |-> "fdinfo", transcoding |-> transcodes(f)]
    <2>1. DrmClients(found) = {client(f) : f \in active}
        BY DEF DrmClients
    <2>2. \A f : client(f).pid = f[1] /\ client(f).card = f[2]
        OBVIOUS
    <2> HIDE DEF client
    <2>3. shownPairs = {<<client(f).pid, client(f).card>> : f \in active}
        BY <2>1
    <2> QED
        BY <2>2, <2>3
<1>3. ASSUME NEW p \in readable, NEW c \in OpenCards
      PROVE  p \in Live /\ MovedAt(p, c) /\ \A e \in Engines : KnownAt(p, c, e)
    BY DEF GpuInv, KnownSince
<1>4. \A k \in DOMAIN prevEngines : prevEngines[k] \in Nat
    BY GpuAssumption DEF GpuInv, GpuTypeOK
<1>5. CASE x \in shownPairs \ worked
    <2>1. PICK f \in found : Advanced(f) /\ x = <<f[1], f[2]>>
        BY <1>2, <1>5
    <2> DEFINE p == f[1]
               c == f[2]
               e == f[3]
    <2>2. /\ x = <<p, c>> /\ x[1] = p /\ p \in readable /\ c \in OpenCards /\ e \in Engines
          /\ <<c, e>> \in DOMAIN processes[p].used /\ Counter(f) = UsedOn(p, c, e) /\ UsedOn(p, c, e) \in Nat
        BY <2>1, GpuAssumption DEF Seen
    <2>3. <<p, e>> \in DOMAIN prevEngines /\ UsedOn(p, c, e) > prevEngines[<<p, e>>]
        BY <2>1, <2>2 DEF Advanced
    <2>4. <<p, c>> \notin worked
        BY <1>5, <2>2
    <2>5. KnownAt(p, c, e)
        BY <1>3, <2>2
    <2>6. prevEngines[<<p, e>>] \in Nat
        BY <1>4, <2>3
    <2> HIDE DEF p, c, e
    <2>7. SUFFICES ASSUME p \notin spread PROVE FALSE
        BY <2>2
    <2>8. UsedOn(p, c, e) = prevEngines[<<p, e>>] \/ UsedOn(p, c, e) = 0
        BY <2>2, <2>3, <2>4, <2>5, <2>7 DEF KnownAt
    <2> QED
        BY <2>2, <2>3, <2>6, <2>8
<1>6. CASE x \in (Pairs(found) \cap openSince \cap worked) \ shownPairs
    <2>1. PICK f \in found : x = <<f[1], f[2]>>
        BY <1>6 DEF Pairs
    <2> DEFINE p == f[1]
               c == f[2]
    <2>2. x = <<p, c>> /\ x[1] = p /\ p \in readable /\ c \in OpenCards
        BY <2>1 DEF Seen
    <2>3. SUFFICES ASSUME p \notin spread PROVE FALSE
        BY <2>2
    <2>4. MovedAt(p, c) /\ \A e \in Engines : KnownAt(p, c, e)
        BY <1>3, <2>2
    <2>5. <<p, c>> \in openSince /\ <<p, c>> \in worked /\ <<p, c>> \notin shownPairs
        BY <1>6, <2>2
    <2>6. PICK e \in Engines : <<c, e>> \in DOMAIN processes[p].used /\ prevEngines[<<p, e>>] < UsedOn(p, c, e)
        BY <2>3, <2>4, <2>5 DEF MovedAt
    <2>7. <<p, e>> \in DOMAIN prevEngines
        BY <2>3, <2>4, <2>5, <2>6 DEF KnownAt
    <2>8. <<p, c, e>> \in found /\ Counter(<<p, c, e>>) = UsedOn(p, c, e) /\ UsedOn(p, c, e) \in Nat
        <3>1. <<p, c, e>> \in found
            BY <2>2, <2>6 DEF Seen
        <3> DEFINE g == <<p, c, e>>
        <3>2. Counter(g) = UsedOn(g[1], g[2], g[3]) /\ Counter(g) \in 0..MaxWork /\ g[1] = p /\ g[2] = c /\ g[3] = e
            BY <3>1 DEF Seen
        <3> QED
            BY <3>1, <3>2, GpuAssumption
    <2>9. Counter(<<p, c, e>>) > prevEngines[<<p, e>>]
        BY <1>4, <2>6, <2>7, <2>8
    <2>10. Advanced(<<p, c, e>>)
        BY <2>7, <2>9 DEF Advanced
    <2>11. <<p, c>> \in shownPairs
        BY <1>2, <2>8, <2>10
    <2> QED
        BY <2>5, <2>11
<1> QED
    BY <1>1, <1>5, <1>6

\* What an update leaves: the counters it read, as they are.
LEMMA UpdateKnows ==
    ASSUME GpuInv, NEW readable \in SUBSET Live, NEW found, Seen(found, readable), processes' = processes,
           prevEngines' = Baselines(found), worked' = {}, openSince' = Pairs(found),
           spread' = {p \in readable : Cardinality({x \in Pairs(found) : x[1] = p}) > 1}
    PROVE  KnownSince'
<1>1. Live' = Live
    BY DEF Live
<1>2. ASSUME NEW x \in openSince' PROVE x[1] \in Live'
    <2>1. PICK f \in found : x = <<f[1], f[2]>>
        BY DEF Pairs
    <2> QED
        BY <1>1, <2>1 DEF Seen
<1>3. ASSUME NEW p \in Live, NEW c \in OpenCards, NEW e \in Engines PROVE KnownAt(p, c, e)'
    <2>1. SUFFICES ASSUME p \notin spread', <<c, e>> \in DOMAIN processes[p].used
                   PROVE  /\ <<p, c>> \in Pairs(found) => /\ <<p, e>> \in DOMAIN Baselines(found)
                                                          /\ Baselines(found)[<<p, e>>] <= UsedOn(p, c, e)
                                                          /\ UsedOn(p, c, e) = Baselines(found)[<<p, e>>]
                          /\ <<p, c>> \notin Pairs(found) => <<p, e>> \notin DOMAIN Baselines(found)
        BY DEF KnownAt, UsedOn
    <2>2. CASE p \in readable
        <3> DEFINE g == <<p, c, e>>
        <3>1. g \in found /\ g[1] = p /\ g[2] = c /\ g[3] = e
            BY <2>1, <2>2 DEF Seen
        <3>2. Counter(g) = UsedOn(p, c, e) /\ UsedOn(p, c, e) \in Nat
            <4>1. Counter(g) = UsedOn(g[1], g[2], g[3]) /\ Counter(g) \in 0..MaxWork
                BY <3>1 DEF Seen
            <4> QED
                BY <3>1, <4>1, GpuAssumption
        <3>3. <<p, c>> \in Pairs(found)
            BY <3>1 DEF Pairs
        <3>4. <<p, e>> \in DOMAIN Baselines(found)
            BY <3>1 DEF Baselines
        <3>5. PICK f \in found : <<p, e>> = <<f[1], f[3]>> /\ Baselines(found)[<<p, e>>] = Counter(f)
            BY <3>4, BaselineIs
        <3>6. f[2] = g[2]
            BY <2>1, <2>2, <3>1, <3>5, OneCard
        <3>7. f = g
            BY <3>1, <3>5, <3>6 DEF Seen
        <3> HIDE DEF g
        <3>8. Baselines(found)[<<p, e>>] = UsedOn(p, c, e)
            BY <3>2, <3>5, <3>7
        <3>9. Baselines(found)[<<p, e>>] <= UsedOn(p, c, e)
            BY <3>2, <3>8
        <3> QED
            BY <3>3, <3>4, <3>8, <3>9
    <2>3. CASE p \notin readable
        <3>1. <<p, c>> \notin Pairs(found)
            BY <2>3 DEF Pairs, Seen
        <3>2. <<p, e>> \notin DOMAIN Baselines(found)
            BY <2>3 DEF Baselines, Seen
        <3> QED
            BY <3>1, <3>2
    <2> QED
        BY <2>2, <2>3
<1>4. ASSUME NEW p \in Live, NEW c \in OpenCards PROVE MovedAt(p, c)'
    BY DEF MovedAt
<1> QED
    BY <1>1, <1>2, <1>3, <1>4 DEF KnownSince

\* A sweep names processes and cards.
Names(s) == s.apps \subseteq [pid : Programs, card : NvidiaCards, transcoder : BOOLEAN]

\* A client shown by a sweep is one it names.
OfSweep(all, s) == \A d \in all : d.by = "sweep" => \E app \in s.apps : d.pid = app.pid /\ d.card = app.card

\* Every client is of a card and a process, by one of the two ways.
LEMMA ClientsAre ==
    ASSUME GpuTypeOK, NEW readable \in SUBSET Live, NEW found, Seen(found, readable),
           NEW s, Names(s)
    PROVE  /\ NvidiaClients(s) \cup DrmClients(found) \subseteq Client
           /\ OfSweep(NvidiaClients(s) \cup DrmClients(found), s)
<1> DEFINE of(app) == [card |-> app.card, pid |-> app.pid, transcoding |-> NameOf(app), by |-> "sweep"]
           active == {f \in found : Advanced(f)}
           transcodes(f) == processes[f[1]].transcoder /\ \E v \in active : v[1] = f[1] /\ v[2] = f[2] /\ v[3] \in Video
           client(f) == [card |-> f[2], pid |-> f[1], by |-> "fdinfo", transcoding |-> transcodes(f)]
<1>1. NvidiaClients(s) = {of(app) : app \in s.apps} /\ DrmClients(found) = {client(f) : f \in active}
    BY DEF NvidiaClients, DrmClients
<1>2. ASSUME NEW app \in s.apps
      PROVE  of(app) \in Client /\ of(app).pid = app.pid /\ of(app).card = app.card
    <2>1. app.pid \in Programs /\ app.card \in NvidiaCards /\ app.transcoder \in BOOLEAN
        BY DEF Names
    <2>2. NameOf(app) \in BOOLEAN
        BY <2>1, LiveIs DEF NameOf
    <2> QED
        BY <2>1, <2>2 DEF Client, Cards
<1>3. ASSUME NEW f \in active PROVE client(f) \in Client /\ client(f).by = "fdinfo"
    <2>1. f[1] \in Live /\ f[1] \in Programs /\ f[2] \in OpenCards
        BY DEF Seen, Live
    <2>2. transcodes(f) \in BOOLEAN
        <3>1. CASE transcodes(f)
            <4>1. transcodes(f) = TRUE
                BY <2>1, LiveIs, <3>1, Zenon
            <4> QED
                BY <4>1
        <3>2. CASE ~transcodes(f)
            BY <3>2
        <3> QED
            BY <3>1, <3>2
    <2> HIDE DEF transcodes
    <2> QED
        BY <2>1, <2>2 DEF Client, Cards
<1> HIDE DEF of, client
<1>4. "fdinfo" # "sweep"
    OBVIOUS
<1> QED
    BY <1>1, <1>2, <1>3, <1>4 DEF OfSweep

\* Where the sweep of an update comes from: the one kept, while it is fresh, or one taken
\* now.
LEMMA SweepIs ==
    ASSUME GpuInv, clock' = clock, processes' = processes, held' = held, updatedAt' = clock,
           \/ (NvidiaCards = {} \/ Fresh(sweep)) /\ sweep' = sweep
           \/ \E placed \in {Holds, {}} : sweep' = Sweep(placed)
    PROVE  /\ HeldSince'
           /\ sweep'.at \in (0..clock) \cup {Gone} /\ (sweep'.at = Gone => sweep' = NoSweep)
           /\ \A app \in sweep'.apps : /\ <<app.pid, app.card>> \in DOMAIN held
                                       /\ clock < held[<<app.pid, app.card>>] + SweepTtl
<1>1. clock \in Nat /\ SweepTtl \in Nat /\ SweepTtl > 0 /\ \A k \in DOMAIN held : held[k] \in Nat
    BY GpuAssumption DEF GpuInv, GpuTypeOK, HeldSince
<1>2. Live' = Live /\ Holds' = Holds
    BY DEF Live, Holds
<1>3. CASE (NvidiaCards = {} \/ Fresh(sweep)) /\ sweep' = sweep
    <2>1. HeldSince'
        BY <1>2, <1>3 DEF GpuInv, HeldSince
    <2>2. ASSUME NEW app \in sweep.apps
          PROVE  <<app.pid, app.card>> \in DOMAIN held /\ clock < held[<<app.pid, app.card>>] + SweepTtl
        <3> DEFINE k == <<app.pid, app.card>>
        <3>1. k \in DOMAIN held /\ sweep.at <= held[k] /\ app.card \in NvidiaCards
            BY DEF GpuInv, HeldSince
        <3>2. sweep.at \in Nat /\ clock < sweep.at + SweepTtl
            BY <1>3, <3>1 DEF Fresh, GpuInv, GpuTypeOK
        <3>3. held[k] \in Nat
            BY <1>1, <3>1
        <3> HIDE DEF k
        <3>4. clock < held[k] + SweepTtl
            BY <1>1, <3>1, <3>2, <3>3
        <3> QED
            BY <3>1, <3>4 DEF k
    <2> QED
        BY <1>3, <2>1, <2>2 DEF GpuInv, GpuTypeOK
<1>4. ASSUME NEW placed \in {Holds, {}}, sweep' = Sweep(placed) PROVE
           /\ HeldSince'
           /\ sweep'.at \in (0..clock) \cup {Gone} /\ (sweep'.at = Gone => sweep' = NoSweep)
           /\ \A app \in sweep'.apps : /\ <<app.pid, app.card>> \in DOMAIN held
                                       /\ clock < held[<<app.pid, app.card>>] + SweepTtl
    <2>1. sweep'.at = clock /\ clock # Gone /\ clock \in 0..clock
        BY <1>1, <1>4, GpuAssumption DEF Sweep
    <2>2. ASSUME NEW app \in sweep'.apps
          PROVE  /\ app \in [pid : Programs, card : NvidiaCards, transcoder : BOOLEAN]
                 /\ <<app.pid, app.card>> \in DOMAIN held /\ held[<<app.pid, app.card>>] = clock
        <3>1. PICK k \in placed : app = [pid |-> k[1], card |-> k[2], transcoder |-> processes[k[1]].transcoder]
            BY <1>4 DEF Sweep
        <3>2. k \in Holds
            BY <1>4, <3>1
        <3>3. PICK p \in Live : \E c \in processes[p].contexts : k = <<p, c>>
            BY <3>2 DEF Holds
        <3>4. p \in Programs /\ processes[p].transcoder \in BOOLEAN /\ processes[p].contexts \in SUBSET NvidiaCards
            BY LiveIs DEF GpuInv
        <3>5. k = <<app.pid, app.card>> /\ app.pid = p /\ app.card \in NvidiaCards
            BY <3>1, <3>3, <3>4
        <3>6. app \in [pid : Programs, card : NvidiaCards, transcoder : BOOLEAN]
            BY <3>1, <3>3, <3>4
        <3> QED
            BY <3>2, <3>5, <3>6 DEF GpuInv, HeldSince
    <2>3. \A app \in sweep'.apps : sweep'.at <= held[<<app.pid, app.card>>]
        <3>1. clock <= clock
            BY <1>1
        <3> QED
            BY <2>1, <2>2, <3>1
    <2>4. HeldSince'
        BY <1>2, <2>2, <2>3 DEF GpuInv, HeldSince
    <2>5. clock < clock + SweepTtl
        BY <1>1
    <2> QED
        BY <2>1, <2>2, <2>4, <2>5
<1> QED
    BY <1>3, <1>4

\* The update: a sweep, the files, what is shown of both and what is kept.
LEMMA UpdateKeeps == ASSUME GpuInv, NEW readable \in SUBSET Live, GpuUpdate(readable) PROVE GpuInv'
<1> DEFINE found == IF OpenCards = {} THEN {} ELSE Found(readable)
<1>1. /\ \/ (NvidiaCards = {} \/ Fresh(sweep)) /\ sweep' = sweep
         \/ \E placed \in {Holds, {}} : sweep' = Sweep(placed)
      /\ clients' = NvidiaClients(sweep') \cup DrmClients(found) /\ prevEngines' = Baselines(found)
      /\ worked' = {} /\ openSince' = Pairs(found)
      /\ spread' = {p \in readable : Cardinality({x \in Pairs(found) : x[1] = p}) > 1}
      /\ wrong' = {[pair |-> x, spread |-> x[1] \in spread] : x \in Misjudged(found)}
      /\ clock' = clock /\ processes' = processes /\ held' = held /\ updatedAt' = clock
    BY DEF GpuUpdate
<1>2. Seen(found, readable)
    BY SeenFound DEF GpuInv
<1> HIDE DEF found
<1>3. KnownSince'
    BY <1>1, <1>2, UpdateKnows
<1>4. /\ HeldSince'
      /\ sweep'.at \in (0..clock) \cup {Gone} /\ (sweep'.at = Gone => sweep' = NoSweep)
      /\ \A app \in sweep'.apps : /\ <<app.pid, app.card>> \in DOMAIN held
                                  /\ clock < held[<<app.pid, app.card>>] + SweepTtl
    BY <1>1, SweepIs
<1>5. sweep'.apps \subseteq [pid : Programs, card : NvidiaCards, transcoder : BOOLEAN]
    BY <1>4 DEF HeldSince
<1>6. /\ clients' \subseteq Client
      /\ \A d \in clients' : d.by = "sweep" => \E app \in sweep'.apps : d.pid = app.pid /\ d.card = app.card
    <2>1. GpuTypeOK /\ Names(sweep')
        BY <1>5 DEF GpuInv, Names
    <2>2. NvidiaClients(sweep') \cup DrmClients(found) \subseteq Client /\ OfSweep(NvidiaClients(sweep') \cup DrmClients(found), sweep')
        BY <1>2, <2>1, ClientsAre
    <2> QED
        BY <1>1, <2>2 DEF OfSweep
<1>7. \A k \in DOMAIN prevEngines' : k \in Programs \X Engines /\ prevEngines'[k] \in 0..MaxWork
    <2> SUFFICES ASSUME NEW k \in DOMAIN Baselines(found)
                 PROVE  k \in Programs \X Engines /\ Baselines(found)[k] \in 0..MaxWork
        BY <1>1
    <2>1. PICK f \in found : k = <<f[1], f[3]>> /\ Baselines(found)[k] = Counter(f)
        BY <1>2, BaselineIs
    <2>2. f[1] \in Programs /\ f[3] \in Engines /\ Counter(f) \in 0..MaxWork
        BY <1>2 DEF Seen, Live
    <2> QED
        BY <2>1, <2>2
<1>8. GpuTypeOK' /\ (updatedAt \in Nat)'
    BY <1>1, <1>4, <1>6, <1>7, GpuAssumption DEF GpuInv, GpuTypeOK
<1>9. SweepIsRecent'
    BY <1>1, <1>4, <1>6 DEF SweepIsRecent
<1>10. ShownIsWorking'
    <2>1. \A x \in Misjudged(found) : x[1] \in spread
        BY <1>2, NothingMisjudged
    <2>2. ASSUME NEW w \in wrong' PROVE w.spread
        <3>1. PICK x \in Misjudged(found) : w = [pair |-> x, spread |-> x[1] \in spread]
            BY <1>1
        <3>2. w.spread = (x[1] \in spread)
            BY <3>1
        <3> QED
            BY <2>1, <3>2
    <2> QED
        BY <2>2 DEF ShownIsWorking
<1> QED
    BY <1>3, <1>4, <1>8, <1>9, <1>10 DEF GpuInv

\* The invariant holds before the first update.
LEMMA GpuStarts == GpuInit => GpuInv
<1> SUFFICES ASSUME GpuInit PROVE GpuInv
    OBVIOUS
<1>1. DOMAIN NoCounters = {} /\ 0 \in 0..0 /\ 0 \in 0..MaxClock /\ NoSweep.at = Gone /\ NoSweep.apps = {}
    BY NoUsage, GpuAssumption DEF NoSweep
<1>2. Live = {} /\ Holds = {}
    BY DEF GpuInit, Live, Holds
<1>3. GpuTypeOK /\ updatedAt \in Nat
    BY <1>1 DEF GpuInit, GpuTypeOK
<1>4. KnownSince
    BY <1>2 DEF GpuInit, KnownSince
<1>5. HeldSince
    BY <1>1, <1>2 DEF GpuInit, HeldSince
<1>6. SweepIsRecent /\ ShownIsWorking
    BY DEF GpuInit, SweepIsRecent, ShownIsWorking
<1> QED
    BY <1>3, <1>4, <1>5, <1>6 DEF GpuInv

\* Every step keeps it.
LEMMA GpuStep == GpuInv /\ [GpuNext]_gpuVars => GpuInv'
<1> SUFFICES ASSUME GpuInv, [GpuNext]_gpuVars PROVE GpuInv'
    OBVIOUS
<1>1. CASE Elapse
    BY <1>1, ElapseKeeps
<1>2. ASSUME NEW p \in Programs, BeginProcess(p) PROVE GpuInv'
    BY <1>2, BeginProcessKeeps
<1>3. ASSUME NEW p \in Programs, EndProcess(p) PROVE GpuInv'
    BY <1>3, EndProcessKeeps
<1>4. ASSUME NEW p \in Programs, NEW c \in OpenCards, OpenOrClose(p, c) PROVE GpuInv'
    BY <1>4, OpenOrCloseKeeps
<1>5. ASSUME NEW p \in Programs, NEW c \in OpenCards, NEW e \in Engines, Work(p, c, e) PROVE GpuInv'
    BY <1>5, WorkKeeps
<1>6. ASSUME NEW readable \in SUBSET Live, GpuUpdate(readable) PROVE GpuInv'
    BY <1>6, UpdateKeeps
<1>7. CASE UNCHANGED gpuVars
    <2>1. UNCHANGED <<clock, processes, sweep, prevEngines, clients, worked, openSince, spread, wrong, held, updatedAt>>
        BY <1>7 DEF gpuVars
    <2>2. Live' = Live /\ Holds' = Holds
        BY <2>1 DEF Live, Holds
    <2>3. GpuTypeOK' /\ (updatedAt \in Nat)'
        BY <2>1 DEF GpuInv, GpuTypeOK
    <2>4. ASSUME NEW p \in Live', NEW c \in OpenCards PROVE MovedAt(p, c)' /\ \A e \in Engines : KnownAt(p, c, e)'
        BY <2>1, <2>2, SameKnown DEF GpuInv, KnownSince
    <2>5. KnownSince'
        BY <2>1, <2>2, <2>4 DEF GpuInv, KnownSince
    <2>6. Holds' \subseteq Holds /\ UNCHANGED <<clock, gpuState, held>>
        BY <2>1, <2>2 DEF gpuState
    <2>7. HeldSince' /\ SweepIsRecent' /\ ShownIsWorking'
        BY <2>6, HeldWithin
    <2> QED
        BY <2>3, <2>5, <2>7 DEF GpuInv
<1> QED
    BY <1>1, <1>2, <1>3, <1>4, <1>5, <1>6, <1>7 DEF GpuNext

\* Every state of the GPU plugin satisfies the invariant, for any processes, cards,
\* engines and times.
THEOREM GpuInvariant == GpuSpec => []GpuInv
<1> QED
    BY GpuStarts, GpuStep, PTL DEF GpuSpec

\* The sweep, the counters kept and the clients shown have their types.
THEOREM GpuTypesHold == GpuSpec => []GpuTypeOK
<1>1. GpuInv => GpuTypeOK
    BY DEF GpuInv
<1> QED
    BY <1>1, GpuInvariant, PTL

\* What nvidia-smi gave is shown only of who had a context less than SweepTtl before the
\* update, failed sweeps included (gpu_nvidia.rs).
THEOREM SweepIsRecentAlways == GpuSpec => []SweepIsRecent
<1>1. GpuInv => SweepIsRecent
    BY DEF GpuInv
<1> QED
    BY <1>1, GpuInvariant, PTL

\* Who the update before found on one card is shown there exactly if it worked since,
\* whoever had the pid, the card or the counter before (attach_drm_clients).
THEOREM ShownIsWorkingAlways == GpuSpec => []ShownIsWorking
<1>1. GpuInv => ShownIsWorking
    BY DEF GpuInv
<1> QED
    BY <1>1, GpuInvariant, PTL

-----------------------------------------------------------------------------
(* Addresses.                                                              *)

\* Some lines have a first.
LEMMA MinIs ==
    ASSUME NEW lines \in SUBSET Nat, lines # {}
    PROVE  Min(lines) \in lines /\ \A i \in lines : Min(lines) <= i
BY LeastOf DEF Min

\* The routes that match an address.
Matching(t, a) == {i \in DOMAIN t.routes : ~IsDefault(t.routes[i]) /\ Covers(t.routes[i], a)}

\* Of some routes that match one is the best.
LEMMA BestExists ==
    ASSUME NEW t, WellFormed(t), NEW a, Matching(t, a) # {}
    PROVE  BestMatch(t, a) # {}
<1> DEFINE M == Matching(t, a)
           Short(i) == Bits - t.routes[i].length
           T == {Short(i) : i \in M}
<1>1. M \subseteq Nat /\ M \subseteq DOMAIN t.routes
    BY DEF WellFormed, Matching
<1>2. Bits \in Nat /\ \A i \in M : t.routes[i].length \in 0..Bits
    BY <1>1, AddressingAssumption DEF WellFormed
<1>3. \A i \in M : Short(i) \in Nat
    BY <1>2
<1>4. T \in SUBSET Nat /\ T # {}
    BY <1>3
<1>5. PICK n \in T : \A m \in T : n <= m
    BY <1>4, LeastOf
<1> DEFINE L == {i \in M : Short(i) = n}
<1>6. L \in SUBSET Nat /\ L # {}
    BY <1>1, <1>5
<1>7. PICK b \in L : \A j \in L : b <= j
    BY <1>6, LeastOf
<1>8. ASSUME NEW j \in M
      PROVE  \/ t.routes[j].length < t.routes[b].length
             \/ t.routes[j].length = t.routes[b].length /\ b <= j
    <2>1. b \in M /\ Short(b) = n /\ Short(b) <= Short(j)
        BY <1>5, <1>7
    <2>2. t.routes[j].length \in Nat /\ t.routes[b].length \in Nat
        BY <1>2, <2>1
    <2>3. CASE Short(j) = n
        <3>1. j \in L
            BY <2>3
        <3>2. t.routes[j].length = t.routes[b].length
            BY <1>2, <2>1, <2>2, <2>3
        <3> QED
            BY <1>7, <3>1, <3>2
    <2>4. CASE Short(j) # n
        <3> DEFINE lj == t.routes[j].length
                   lb == t.routes[b].length
        <3>1. Bits - lb <= Bits - lj /\ Bits - lj # Bits - lb /\ lj \in Nat /\ lb \in Nat /\ Bits \in Nat
            BY <1>2, <2>1, <2>2, <2>4
        <3> HIDE DEF lj, lb
        <3>2. lj < lb
            BY ONLY <3>1
        <3> QED
            BY <3>2 DEF lj, lb
    <2> QED
        BY <2>3, <2>4
<1>9. b \in M
    BY <1>7
<1> QED
    BY <1>8, <1>9 DEF BestMatch, Matching

\* An address with a nearest interface is given to it by its route.
LEMMA BestIsNearest ==
    ASSUME NEW t, WellFormed(t), NEW x, Nearest(x, t)
    PROVE  BestMatch(t, x[2]) # {} /\ \A b \in BestMatch(t, x[2]) : t.routes[b].iface = x[1]
<1>1. PICK i \in DOMAIN t.routes :
        /\ t.routes[i].iface = x[1] /\ ~IsDefault(t.routes[i]) /\ Covers(t.routes[i], x[2])
        /\ \A j \in DOMAIN t.routes : Covers(t.routes[j], x[2]) /\ t.routes[j].iface # x[1] =>
            t.routes[j].length < t.routes[i].length
    BY DEF Nearest
<1>2. i \in Matching(t, x[2])
    BY <1>1 DEF Matching
<1>3. BestMatch(t, x[2]) # {}
    BY <1>2, BestExists
<1>4. ASSUME NEW b \in BestMatch(t, x[2]), t.routes[b].iface # x[1] PROVE FALSE
    <2>1. b \in Matching(t, x[2]) /\ (\/ t.routes[i].length < t.routes[b].length
                                      \/ t.routes[i].length = t.routes[b].length)
        BY <1>2, <1>4 DEF BestMatch, Matching
    <2>2. b \in DOMAIN t.routes /\ Covers(t.routes[b], x[2])
        BY <2>1 DEF Matching
    <2>3. t.routes[b].length < t.routes[i].length
        BY <1>1, <1>4, <2>2
    <2>4. t.routes[i].length \in Nat /\ t.routes[b].length \in Nat
        BY <1>1, <2>2, AddressingAssumption DEF WellFormed
    <2> QED
        BY <2>1, <2>3, <2>4
<1> QED
    BY <1>3, <1>4

\* Where every address has a nearest interface, each is given to its own.
LEMMA AttributionIs ==
    ASSUME NEW t, WellFormed(t),
           \A x \in Owned(t) : IF x[2] \in Loopbacks THEN x[1] = Lo ELSE Nearest(x, t)
    PROVE  Attribution(t) = {x \in Owned(t) : x[2] \in Loopbacks => x[1] \in UpNames(t)}
<1> DEFINE ips == {t.links[k].address : k \in LocalIps(t)}
           byRoute == UNION {{<<t.routes[i].iface, a>> : i \in BestMatch(t, a)} : a \in ips \ Loopbacks}
           byName == IF Lo \in UpNames(t) THEN {<<Lo, a>> : a \in ips \cap Loopbacks} ELSE {}
           rest == {a \in ips \ Loopbacks : BestMatch(t, a) = {}}
           owned == Owned(t)
<1>1. ASSUME NEW a \in ips PROVE \E x \in owned : x = <<x[1], a>>
    <2>1. PICK k \in LocalIps(t) : a = t.links[k].address
        OBVIOUS
    <2>2. <<t.links[k].name, a>> \in owned
        BY <2>1 DEF Owned
    <2> QED
        BY <2>2
<1>2. ASSUME NEW x \in owned PROVE x = <<x[1], x[2]>> /\ x[2] \in ips
    BY DEF Owned
<1> HIDE DEF ips, owned
<1>3. ASSUME NEW x \in owned, x[2] \notin Loopbacks
      PROVE  BestMatch(t, x[2]) # {} /\ \A b \in BestMatch(t, x[2]) : t.routes[b].iface = x[1]
    BY <1>3, BestIsNearest DEF owned
<1>4. rest = {}
    <2> SUFFICES ASSUME NEW a \in ips, a \notin Loopbacks, BestMatch(t, a) = {} PROVE FALSE
        OBVIOUS
    <2>1. PICK x \in owned : x = <<x[1], a>>
        BY <1>1
    <2>2. x[2] = a
        BY <2>1
    <2> QED
        BY <1>3, <2>2
<1>5. Attribution(t) = byRoute \cup byName
    <2>1. Cardinality(rest) # 1
        BY <1>4, FS_EmptySet
    <2> QED
        BY <2>1 DEF Attribution, ips
<1>6. byRoute = {x \in owned : x[2] \notin Loopbacks}
    <2>1. ASSUME NEW a \in ips, a \notin Loopbacks, NEW b \in BestMatch(t, a)
          PROVE  <<t.routes[b].iface, a>> \in owned
        <3>1. PICK x \in owned : x = <<x[1], a>>
            BY <1>1
        <3>2. x[2] = a
            BY <3>1
        <3>3. t.routes[b].iface = x[1]
            BY <1>3, <2>1, <3>2
        <3> QED
            BY <3>1, <3>3
    <2>2. ASSUME NEW x \in owned, x[2] \notin Loopbacks
          PROVE  \E b \in BestMatch(t, x[2]) : x = <<t.routes[b].iface, x[2]>>
        BY <1>2, <1>3, <2>2
    <2>3. ASSUME NEW y \in byRoute PROVE y \in owned /\ y[2] \notin Loopbacks
        <3>1. PICK a \in ips \ Loopbacks : y \in {<<t.routes[i].iface, a>> : i \in BestMatch(t, a)}
            OBVIOUS
        <3>2. PICK b \in BestMatch(t, a) : y = <<t.routes[b].iface, a>>
            BY <3>1
        <3> QED
            BY <2>1, <3>2
    <2>4. ASSUME NEW x \in owned, x[2] \notin Loopbacks PROVE x \in byRoute
        <3>1. x[2] \in ips \ Loopbacks
            BY <1>2, <2>4
        <3>2. x \in {<<t.routes[i].iface, x[2]>> : i \in BestMatch(t, x[2])}
            BY <2>2, <2>4
        <3> QED
            BY <3>1, <3>2
    <2> QED
        BY <2>3, <2>4
<1>7. byName = {x \in owned : x[2] \in Loopbacks /\ x[1] \in UpNames(t)}
    <2>1. \A x \in owned : x[2] \in Loopbacks => x[1] = Lo
        BY DEF owned
    <2>2. ASSUME NEW a \in ips \cap Loopbacks PROVE <<Lo, a>> \in owned
        <3>1. PICK x \in owned : x = <<x[1], a>>
            BY <1>1
        <3>2. x[2] = a
            BY <3>1
        <3>3. x[1] = Lo
            BY <2>1, <3>2
        <3> QED
            BY <3>1, <3>3
    <2>3. ASSUME NEW x \in owned, x[2] \in Loopbacks PROVE x = <<Lo, x[2]>> /\ x[2] \in ips
        BY <1>2, <2>1, <2>3
    <2>4. CASE Lo \in UpNames(t)
        <3>1. byName = {<<Lo, a>> : a \in ips \cap Loopbacks}
            BY <2>4
        <3>2. ASSUME NEW y \in byName PROVE y \in owned /\ y[2] \in Loopbacks /\ y[1] \in UpNames(t)
            BY <2>2, <2>4, <3>1
        <3>3. ASSUME NEW x \in owned, x[2] \in Loopbacks PROVE x \in byName
            BY <2>3, <3>1, <3>3
        <3> QED
            BY <3>2, <3>3
    <2>5. CASE Lo \notin UpNames(t)
        BY <2>1, <2>5
    <2> QED
        BY <2>4, <2>5
<1> QED
    BY <1>5, <1>6, <1>7 DEF owned

\* What the update has read so far describes the tables, as long as they hold still.
ReadSoFar ==
    /\ reading \in {"mac", "mask", "gateway", "address", "public", "shown"} => draft.iface = DefaultIface(tables)
    /\ reading \in {"mask", "gateway", "address", "public", "shown"} => draft.mac \in {draft.iface, Absent}
    /\ reading \in {"gateway", "address", "public", "shown"} => draft.mask \in {MaskOf(draft.iface, tables), Absent}
    /\ reading \in {"address", "public", "shown"} => draft.gateway = DefaultGateway(tables)
    /\ reading \in {"public", "shown"} => draft.address = AddressFor(draft.iface, tables)

\* The inductive invariant: tables are well formed while there are some, also when
\* links have gone.
AddressInv ==
    /\ reading \in {"none", "iface", "mac", "mask", "gateway", "address", "public", "shown"}
    /\ reading # "none" => WellFormed(tables)
    /\ draft = [f \in DOMAIN Blank |-> draft[f]]
    /\ calm => ReadSoFar

\* Tables keep their form when rows go.
LEMMA RowsGo ==
    ASSUME NEW t, WellFormed(t), NEW L \in SUBSET DOMAIN t.links, NEW R \in SUBSET DOMAIN t.routes
    PROVE  WellFormed([links |-> Restrict(t.links, L), routes |-> Restrict(t.routes, R)])
<1> DEFINE u == [links |-> Restrict(t.links, L), routes |-> Restrict(t.routes, R)]
<1>1. u.links = [k \in L |-> t.links[k]] /\ u.routes = [i \in R |-> t.routes[i]]
    BY DEF Restrict
<1> HIDE DEF u
<1> QED
    BY <1>1 DEF WellFormed, u

\* A field is read and the ones read before stay.
LEMMA AddressReads ==
    ASSUME AddressInv, AddressStep
    PROVE  AddressInv'
<1>0. DOMAIN Blank = {"iface", "mac", "mask", "gateway", "address", "public"}
    BY DEF Blank
<1>1. draft = [f \in {"iface", "mac", "mask", "gateway", "address", "public"} |-> draft[f]]
    BY <1>0 DEF AddressInv
<1>2. tables' = tables /\ calm' = calm /\ reading # "none"
    BY DEF AddressStep, Read
<1>3. WellFormed(tables)'
    BY <1>2 DEF AddressInv
<1>4. reading' \in {"mac", "mask", "gateway", "address", "public", "shown"}
    BY DEF AddressStep, Read
<1>5. draft' = [f \in DOMAIN Blank |-> draft'[f]]
    BY <1>0, <1>1 DEF AddressStep, Read
<1>6. ASSUME calm PROVE ReadSoFar'
    <2>1. ReadSoFar
        BY <1>6 DEF AddressInv
    <2>2. CASE reading = "iface"
        <3>1. reading' = "mac" /\ draft'.iface = DefaultIface(tables)
            BY <1>1, <2>2 DEF AddressStep, Read
        <3> QED
            BY <1>2, <3>1 DEF ReadSoFar
    <2>3. CASE reading = "mac"
        <3>1. reading' = "mask" /\ draft'.iface = draft.iface /\ draft'.mac \in {draft.iface, Absent}
            BY <1>1, <2>3 DEF AddressStep, Read
        <3> QED
            BY <1>2, <2>1, <2>3, <3>1 DEF ReadSoFar
    <2>4. CASE reading = "mask"
        <3>1. /\ reading' = "gateway" /\ draft'.iface = draft.iface /\ draft'.mac = draft.mac
              /\ draft'.mask \in {MaskOf(draft.iface, tables), Absent}
            BY <1>1, <2>4 DEF AddressStep, Read, Named
        <3> QED
            BY <1>2, <2>1, <2>4, <3>1 DEF ReadSoFar
    <2>5. CASE reading = "gateway"
        <3>1. /\ reading' = "address" /\ draft'.iface = draft.iface /\ draft'.mac = draft.mac
              /\ draft'.mask = draft.mask /\ draft'.gateway = DefaultGateway(tables)
            BY <1>1, <2>5 DEF AddressStep, Read
        <3> QED
            BY <1>2, <2>1, <2>5, <3>1 DEF ReadSoFar
    <2>6. CASE reading = "address"
        <3>1. /\ reading' = "public" /\ draft'.iface = draft.iface /\ draft'.mac = draft.mac
              /\ draft'.mask = draft.mask /\ draft'.gateway = draft.gateway
              /\ draft'.address = AddressFor(draft.iface, tables)
            BY <1>1, <2>6 DEF AddressStep, Read
        <3> QED
            BY <1>2, <2>1, <2>6, <3>1 DEF ReadSoFar
    <2>7. CASE reading = "public"
        <3>1. /\ reading' = "shown" /\ draft'.iface = draft.iface /\ draft'.mac = draft.mac
              /\ draft'.mask = draft.mask /\ draft'.gateway = draft.gateway
              /\ draft'.address = draft.address
            BY <1>1, <2>7 DEF AddressStep, Read
        <3> QED
            BY <1>2, <2>1, <2>7, <3>1 DEF ReadSoFar
    <2> QED
        BY <2>2, <2>3, <2>4, <2>5, <2>6, <2>7 DEF AddressStep
<1> QED
    BY <1>2, <1>3, <1>4, <1>5, <1>6 DEF AddressInv

\* Every step keeps the invariant.
LEMMA AddressKeeps == AddressInv /\ [AddressingNext]_addressingVars => AddressInv'
<1> SUFFICES ASSUME AddressInv, [AddressingNext]_addressingVars PROVE AddressInv'
    OBVIOUS
<1>1. CASE UNCHANGED addressingVars
    BY <1>1 DEF AddressInv, ReadSoFar, addressingVars
<1>2. ASSUME NEW t \in Tables, Begin(t) PROVE AddressInv'
    BY <1>2, AddressingAssumption DEF Begin, AddressInv, ReadSoFar, Blank
<1>3. CASE AddressStep
    BY <1>3, AddressReads
<1>4. CASE Rest
    BY <1>4 DEF Rest, AddressInv, ReadSoFar, Blank
<1>5. ASSUME NEW name, LinkLost(name) PROVE AddressInv'
    <2> DEFINE L == {k \in DOMAIN tables.links : tables.links[k].name # name}
               R == {i \in DOMAIN tables.routes : tables.routes[i].iface # name}
    <2>1. WellFormed(tables) /\ reading # "none"
        BY <1>5 DEF AddressInv, LinkLost
    <2>2. tables' = [links |-> Restrict(tables.links, L), routes |-> Restrict(tables.routes, R)]
        BY <1>5 DEF LinkLost
    <2>3. L \in SUBSET DOMAIN tables.links /\ R \in SUBSET DOMAIN tables.routes
        OBVIOUS
    <2> HIDE DEF L, R
    <2>4. WellFormed(tables')
        BY <2>1, <2>2, <2>3, RowsGo
    <2> QED
        BY <1>5, <2>1, <2>4 DEF LinkLost, AddressInv
<1>6. ASSUME NEW reply, Fetch(reply) PROVE AddressInv'
    BY <1>6 DEF Fetch, AddressInv, ReadSoFar
<1> QED
    BY <1>1, <1>2, <1>3, <1>4, <1>5, <1>6 DEF AddressingNext

\* The inductive invariant of the addresses.
THEOREM AddressInvariant == AddressingSpec => []AddressInv
<1>1. AddressingInit => AddressInv
    BY DEF AddressingInit, AddressInv, ReadSoFar, Blank
<1> QED
    BY <1>1, AddressKeeps, PTL DEF AddressingSpec

\* Each address is given to its interface (network plugin), whatever links have gone.
THEOREM OwnersFoundAlways == AddressingSpec => []OwnersFound
<1>1. AddressInv => OwnersFound
    BY AttributionIs DEF AddressInv, OwnersFound
<1> QED
    BY <1>1, AddressInvariant, PTL

\* The mask shown is of a subnet of the interface.
LEMMA MaskIs ==
    ASSUME NEW t, WellFormed(t), NEW iface, Subnets(iface, t) # {}
    PROVE  \E i \in DOMAIN t.routes :
              Subnet(iface, t.routes[i]) /\ i = Min(Subnets(iface, t)) /\ t.routes[i].length = MaskOf(iface, t)
<1>1. Subnets(iface, t) \in SUBSET Nat
    BY DEF Subnets, WellFormed
<1>2. Min(Subnets(iface, t)) \in Subnets(iface, t)
    BY <1>1, MinIs
<1> QED
    BY <1>2 DEF Subnets, MaskOf

\* The gateway shown is of the interface.
LEMMA GatewayIs ==
    ASSUME NEW t, WellFormed(t), PlainDefault(t), DefaultRoutes(t) # {}
    PROVE  \E i \in DOMAIN t.routes :
              t.routes[i].iface = DefaultIface(t) /\ IsDefault(t.routes[i]) /\ t.routes[i].gateway = DefaultGateway(t)
<1> DEFINE routed == {i \in DOMAIN t.routes : IsDefault(t.routes[i]) /\ t.routes[i].gateway # 0}
<1>1. routed = DefaultRoutes(t) /\ routed \in SUBSET Nat
    BY DEF PlainDefault, DefaultRoutes, WellFormed
<1>2. DefaultIface(t) = t.routes[Min(routed)].iface
    BY <1>1 DEF DefaultIface
<1>3. DefaultGateway(t) = t.routes[Min(routed)].gateway
    BY <1>1 DEF DefaultGateway
<1>4. Min(routed) \in routed
    BY <1>1, MinIs
<1> QED
    BY <1>2, <1>3, <1>4

\* The address shown is of the interface.
LEMMA AddressIs ==
    ASSUME NEW t, WellFormed(t), NEW iface, PlainSubnet(iface, t)
    PROVE  <<iface, AddressFor(iface, t)>> \in Owned(t)
<1> DEFINE external == {k \in LocalIps(t) : t.links[k].address \notin Loopbacks}
           row == t.routes[Min(Subnets(iface, t))]
           within == {k \in external : Subnets(iface, t) # {} /\ Covers(row, t.links[k].address)}
<1>1. Subnets(iface, t) # {}
    BY DEF PlainSubnet, Subnets, Subnet, IsSubnet
<1>2. PICK i \in DOMAIN t.routes : Subnet(iface, t.routes[i]) /\ i = Min(Subnets(iface, t))
    BY <1>1, MaskIs
<1>3. row = t.routes[i] /\ row.iface = iface /\ ~IsDefault(row) /\ IsSubnet(row)
    BY <1>2 DEF Subnet, IsSubnet
<1>4. PICK x \in Owned(t) : x[1] = row.iface /\ x[2] \notin Loopbacks /\ Covers(row, x[2])
    BY <1>3 DEF PlainSubnet
<1>5. PICK k \in LocalIps(t) : x = <<t.links[k].name, t.links[k].address>>
    BY <1>4 DEF Owned
<1>6. within # {} /\ within \in SUBSET Nat
    <2>1. k \in within
        BY <1>1, <1>4, <1>5
    <2>2. within \subseteq LocalIps(t)
        OBVIOUS
    <2>3. LocalIps(t) \subseteq Nat
        BY DEF LocalIps, WellFormed
    <2> QED
        BY <2>1, <2>2, <2>3
<1>7. Min(within) \in within
    BY <1>6, MinIs
<1>8. AddressFor(iface, t) = t.links[Min(within)].address
    BY <1>6 DEF AddressFor
<1>9. Min(within) \in LocalIps(t) /\ Covers(row, t.links[Min(within)].address)
    BY <1>7
<1> DEFINE y == <<t.links[Min(within)].name, t.links[Min(within)].address>>
<1>10. y \in Owned(t) /\ Covers(row, y[2])
    BY <1>9 DEF Owned
<1>11. row.iface = y[1]
    BY <1>2, <1>3, <1>10 DEF PlainSubnet
<1> QED
    BY <1>3, <1>8, <1>10, <1>11

\* Mask, gateway, hardware address and address are of the interface shown (ip plugin).
THEOREM OneInterfaceAlways == AddressingSpec => []OneInterface
<1>1. ASSUME AddressInv PROVE OneInterface
    <2> SUFFICES ASSUME reading = "shown", calm, PlainDefault(tables), PlainSubnet(draft.iface, tables)
                 PROVE  Describes(draft, tables)
        BY DEF OneInterface
    <2>1. WellFormed(tables) /\ ReadSoFar
        BY <1>1 DEF AddressInv
    <2>2. /\ draft.iface = DefaultIface(tables) /\ draft.mac \in {draft.iface, Absent}
          /\ draft.mask \in {MaskOf(draft.iface, tables), Absent}
          /\ draft.gateway = DefaultGateway(tables) /\ draft.address = AddressFor(draft.iface, tables)
        BY <2>1 DEF ReadSoFar
    <2>3. draft.mask # Absent =>
            \E i \in DOMAIN tables.routes :
                tables.routes[i].iface = draft.iface /\ IsSubnet(tables.routes[i]) /\ tables.routes[i].length = draft.mask
        <3>1. draft.mask # Absent => Subnets(draft.iface, tables) # {}
            BY <2>2 DEF MaskOf
        <3> QED
            BY <2>1, <2>2, <3>1, MaskIs DEF Subnet, IsSubnet
    <2>4. draft.gateway # Absent =>
            \E i \in DOMAIN tables.routes :
                /\ tables.routes[i].iface = draft.iface /\ IsDefault(tables.routes[i])
                /\ tables.routes[i].gateway = draft.gateway
        <3>1. draft.gateway # Absent => DefaultRoutes(tables) # {}
            BY <2>2 DEF DefaultGateway
        <3> QED
            BY <2>1, <2>2, <3>1, GatewayIs
    <2>5. <<draft.iface, draft.address>> \in Owned(tables)
        BY <2>1, <2>2, AddressIs
    <2> QED
        BY <2>2, <2>3, <2>4, <2>5 DEF Describes
<1> QED
    BY <1>1, AddressInvariant, PTL

-----------------------------------------------------------------------------
(* History.                                                                *)

\* Where there are no more samples than asked for, all are the newest.
LEMMA NewestAll ==
    ASSUME NEW s \in Seq(Nat), NEW nb \in Nat \ {0}, nb >= Len(s)
    PROVE  Newest(s, nb) = s
BY DEF Newest

\* Where there are more, the newest are as many as asked for, from the end.
LEMMA NewestPart ==
    ASSUME NEW s \in Seq(Nat), NEW nb \in Nat \ {0}, nb < Len(s)
    PROVE  /\ Newest(s, nb) \in Seq(Nat) /\ Len(Newest(s, nb)) = nb
           /\ \A i \in 1..nb : Newest(s, nb)[i] = s[Len(s) - nb + i]
<1> DEFINE m == Len(s) - nb + 1
<1>1. m \in Int /\ Len(s) \in Int /\ 1 <= m /\ m <= Len(s) /\ Len(s) - m + 1 = nb
    OBVIOUS
<1>2. \A i \in m..Len(s) : s[i] \in Nat
    BY <1>1
<1>3. Newest(s, nb) = SubSeq(s, m, Len(s))
    BY DEF Newest
<1>4. \A i \in 1..nb : m + i - 1 = Len(s) - nb + i
    BY <1>1
<1> HIDE DEF m
<1>5. /\ SubSeq(s, m, Len(s)) \in Seq(Nat) /\ Len(SubSeq(s, m, Len(s))) = nb
      /\ \A i \in 1..nb : SubSeq(s, m, Len(s))[i] = s[m + i - 1]
    BY <1>1, <1>2, SubSeqProperties
<1> QED
    BY <1>3, <1>4, <1>5

\* Either way it is a series.
LEMMA NewestSeq ==
    ASSUME NEW s \in Seq(Nat), NEW nb \in Nat \ {0}
    PROVE  Newest(s, nb) \in Seq(Nat)
<1>1. CASE nb >= Len(s)
    BY <1>1, NewestAll
<1>2. CASE nb < Len(s)
    BY <1>2, NewestPart
<1> QED
    BY <1>1, <1>2

\* A slice of the newest is the newest.
LEMMA NewestOfNewest ==
    ASSUME NEW s \in Seq(Nat), NEW m \in Nat \ {0}, NEW nb \in 1..m
    PROVE  Newest(Newest(s, m), nb) = Newest(s, nb)
<1> DEFINE t == Newest(s, m)
           u == Newest(t, nb)
           v == Newest(s, nb)
<1>0. nb \in Nat \ {0} /\ m \in Nat \ {0} /\ nb <= m
    OBVIOUS
<1>1. CASE m >= Len(s)
    BY <1>1, NewestAll
<1>2. CASE m < Len(s)
    <2>0. nb < Len(s)
        BY <1>0, <1>2
    <2>1. t \in Seq(Nat) /\ Len(t) = m /\ \A i \in 1..m : t[i] = s[Len(s) - m + i]
        BY <1>2, NewestPart
    <2>2. v \in Seq(Nat) /\ Len(v) = nb /\ \A i \in 1..nb : v[i] = s[Len(s) - nb + i]
        BY <1>0, <2>0, NewestPart
    <2>3. CASE nb = m
        BY <1>0, <2>1, <2>3, NewestAll
    <2>4. CASE nb < m
        <3> HIDE DEF t, v
        <3>1. u \in Seq(Nat) /\ Len(u) = nb /\ \A i \in 1..nb : u[i] = t[m - nb + i]
            <4>1. nb < Len(t)
                BY <2>1, <2>4
            <4> QED
                BY <1>0, <2>1, <4>1, NewestPart DEF u
        <3> HIDE DEF u
        <3>2. ASSUME NEW i \in 1..nb PROVE u[i] = v[i]
            <4>1. Len(s) \in Nat
                OBVIOUS
            <4>2. m - nb + i \in 1..m /\ Len(s) - m + (m - nb + i) = Len(s) - nb + i
                BY <1>0, <2>4, <4>1
            <4>3. u[i] = t[m - nb + i] /\ t[m - nb + i] = s[Len(s) - m + (m - nb + i)]
                BY <2>1, <3>1, <4>2
            <4>4. v[i] = s[Len(s) - nb + i]
                BY <2>2
            <4> QED
                BY <4>2, <4>3, <4>4
        <3>3. u = v
            BY <2>2, <3>1, <3>2, SeqEqual
        <3> QED
            BY <3>3 DEF u, v, t
    <2> QED
        BY <1>0, <2>3, <2>4
<1> QED
    BY <1>1, <1>2

\* The bound is at least one.
LEMMA SizeIs == MaxSize \in Nat \ {0}
BY HistoryAssumption DEF MaxSize

\* A sample added to the newest, the oldest of too many cut off, leaves the newest.
LEMMA CappedIsNewest ==
    ASSUME NEW s \in Seq(Nat), NEW value \in Nat
    PROVE  Capped(Append(Newest(s, MaxSize), value)) = Newest(Append(s, value), MaxSize)
<1> DEFINE m == MaxSize
           t == Newest(s, m)
           a == Append(t, value)
           b == Append(s, value)
           u == Newest(a, m)
           v == Newest(b, m)
<1>0. m \in Nat \ {0} /\ Len(s) \in Nat
    BY SizeIs
<1>1. b \in Seq(Nat) /\ Len(b) = Len(s) + 1 /\ \A i \in 1..Len(s) : b[i] = s[i]
    OBVIOUS
<1>2. b[Len(s) + 1] = value
    OBVIOUS
<1> HIDE DEF m
<1>3. CASE Len(s) < m
    <2>1. t = s
        BY <1>0, <1>3, NewestAll
    <2>2. Capped(a) = b
        BY <1>0, <1>1, <1>3, <2>1 DEF Capped, m
    <2>3. v = b
        <3>1. m >= Len(b)
            BY <1>0, <1>1, <1>3
        <3> QED
            BY <1>0, <1>1, <3>1, NewestAll
    <2> QED
        BY <2>2, <2>3 DEF m
<1>4. CASE ~(Len(s) < m)
    <2>1. t \in Seq(Nat) /\ Len(t) = m
        <3>1. CASE m = Len(s)
            BY <1>0, <3>1, NewestAll
        <3>2. CASE m < Len(s)
            BY <1>0, <3>2, NewestPart
        <3> QED
            BY <1>0, <1>4, <3>1, <3>2
    <2>2. ASSUME NEW i \in 1..m PROVE t[i] = s[Len(s) - m + i]
        <3>1. CASE m = Len(s)
            <4>1. t = s /\ Len(s) - m + i = i
                BY <1>0, <3>1, NewestAll
            <4> QED
                BY <4>1
        <3>2. CASE m < Len(s)
            BY <1>0, <3>2, NewestPart
        <3> QED
            BY <1>0, <1>4, <3>1, <3>2
    <2> HIDE DEF t, b
    <2>3. a \in Seq(Nat) /\ Len(a) = m + 1 /\ (\A i \in 1..m : a[i] = t[i]) /\ a[m + 1] = value
        BY <1>0, <2>1
    <2> HIDE DEF a
    <2>4. m < Len(a) /\ m < Len(b)
        BY <1>0, <1>1, <1>4, <2>3
    <2>5. u \in Seq(Nat) /\ Len(u) = m /\ \A i \in 1..m : u[i] = a[Len(a) - m + i]
        BY <1>0, <2>3, <2>4, NewestPart
    <2>6. v \in Seq(Nat) /\ Len(v) = m /\ \A i \in 1..m : v[i] = b[Len(b) - m + i]
        BY <1>0, <1>1, <2>4, NewestPart
    <2>7. Capped(a) = u
        BY <2>4 DEF Capped, m
    <2> HIDE DEF u, v
    <2>8. ASSUME NEW i \in 1..m PROVE u[i] = v[i]
        <3>1. Len(a) - m + i = i + 1 /\ Len(b) - m + i = Len(s) - m + i + 1
            BY <1>0, <1>1, <2>3
        <3>2. u[i] = a[i + 1] /\ v[i] = b[Len(s) - m + i + 1]
            BY <2>5, <2>6, <3>1
        <3>3. CASE i = m
            <4>1. Len(s) - m + i + 1 = Len(s) + 1
                BY <1>0, <3>3
            <4>2. v[i] = value
                BY <1>2, <3>2, <4>1 DEF b
            <4> QED
                BY <2>3, <3>2, <3>3, <4>2
        <3>4. CASE i # m
            <4>1. i + 1 \in 1..m /\ Len(s) - m + (i + 1) \in 1..Len(s)
                  /\ Len(s) - m + (i + 1) = Len(s) - m + i + 1
                BY <1>0, <1>4, <3>4
            <4>2. a[i + 1] = t[i + 1] /\ t[i + 1] = s[Len(s) - m + (i + 1)]
                BY <2>2, <2>3, <4>1
            <4>3. b[Len(s) - m + (i + 1)] = s[Len(s) - m + (i + 1)]
                BY <1>1, <4>1
            <4> QED
                BY <3>2, <4>1, <4>2, <4>3
        <3> QED
            BY <3>3, <3>4
    <2>9. u = v
        BY <2>5, <2>6, <2>8, SeqEqual
    <2> QED
        BY <2>7, <2>9 DEF u, v, a, b, t, m
<1> QED
    BY <1>3, <1>4

\* What a series is kept in, and what was added to each.
SeriesOf == UNION {[D -> Seq(Nat)] : D \in SUBSET Keys}
Logs == [Keys -> Seq(Nat)]

\* Each series is the newest of what was added.
Tails(entries, added) == \A k \in Keys : Entry(entries, k) = Newest(added[k], MaxSize)

\* One more sample, and each series is the newest still.
LEMMA AddKeepsTails ==
    ASSUME NEW entries \in SeriesOf, NEW added \in Logs, NEW key \in Keys, NEW value \in Nat
    PROVE  /\ Add(entries, key, value) \in SeriesOf
           /\ [added EXCEPT ![key] = Append(@, value)] \in Logs
           /\ Tails(entries, added) =>
                Tails(Add(entries, key, value), [added EXCEPT ![key] = Append(@, value)])
<1> DEFINE e == Add(entries, key, value)
           l == [added EXCEPT ![key] = Append(@, value)]
           D == DOMAIN entries
<1>1. D \in SUBSET Keys /\ entries \in [D -> Seq(Nat)]
    BY DEF SeriesOf
<1>2. Entry(entries, key) \in Seq(Nat)
    BY <1>1 DEF Entry
<1>3. \A s \in Seq(Nat) : Append(s, value) \in Seq(Nat) /\ Capped(s) \in Seq(Nat)
    BY SizeIs, NewestSeq DEF Capped
<1>4. e = [k \in D \cup {key} |-> IF k = key THEN Capped(Append(Entry(entries, key), value)) ELSE entries[k]]
    BY DEF Add
<1> HIDE DEF e, D
<1>5. e \in [D \cup {key} -> Seq(Nat)]
    <2> DEFINE new == Capped(Append(Entry(entries, key), value))
    <2>1. new \in Seq(Nat)
        BY <1>2, <1>3
    <2> HIDE DEF new
    <2> QED
        BY <1>1, <1>4, <2>1 DEF new
<1>6. e \in SeriesOf
    <2>1. D \cup {key} \in SUBSET Keys
        BY <1>1
    <2> QED
        BY <1>5, <2>1 DEF SeriesOf
<1>7. l \in Logs
    BY <1>3 DEF Logs
<1>8. ASSUME Tails(entries, added), NEW k \in Keys PROVE Entry(e, k) = Newest(l[k], MaxSize)
    <2>1. CASE k = key
        <3>1. e[key] = Capped(Append(Newest(added[key], MaxSize), value)) /\ key \in DOMAIN e
            BY <1>4, <1>8 DEF Tails
        <3>2. added[key] \in Seq(Nat) /\ l[key] = Append(added[key], value)
            BY DEF Logs
        <3>3. e[key] = Newest(l[key], MaxSize)
            BY <3>1, <3>2, CappedIsNewest
        <3> QED
            BY <2>1, <3>1, <3>3 DEF Entry
    <2>2. CASE k # key
        <3>1. Entry(e, k) = Entry(entries, k)
            BY <1>4, <2>2 DEF Entry, D
        <3>2. l[k] = added[k]
            BY <2>2 DEF Logs
        <3> QED
            BY <1>8, <3>1, <3>2 DEF Tails
    <2> QED
        BY <2>1, <2>2
<1> QED
    BY <1>6, <1>7, <1>8 DEF Tails, e

\* The samples of an update, one after the other, as the two functions have them.
LEMMA AllKeepTails ==
    ASSUME NEW keys \in Seq(Keys), NEW value \in Nat, series \in SeriesOf, log \in Logs, Tails(series, log)
    PROVE  /\ AddAll(keys, value) \in SeriesOf /\ Logged(keys, value) \in Logs
           /\ Tails(AddAll(keys, value), Logged(keys, value))
<1> DEFINE n == Len(keys)
           E(f) == [i \in 0..n |-> IF i = 0 THEN series ELSE Add(f[i - 1], keys[i], value)]
           L(f) == [i \in 0..n |-> IF i = 0 THEN log ELSE [f[i - 1] EXCEPT ![keys[i]] = Append(@, value)]]
           es == CHOOSE f : f = E(f)
           ls == CHOOSE f : f = L(f)
           followE == [p \in Nat \X SeriesOf |-> IF p[1] \in 1..n THEN Add(p[2], keys[p[1]], value) ELSE p[2]]
           followL == [p \in Nat \X Logs |->
                          IF p[1] \in 1..n THEN [p[2] EXCEPT ![keys[p[1]]] = Append(@, value)] ELSE p[2]]
<1>1. n \in Nat /\ \A i \in 1..n : keys[i] \in Keys
    OBVIOUS
<1>2. AddAll(keys, value) = es[n] /\ Logged(keys, value) = ls[n]
    BY DEF AddAll, Logged
<1> HIDE DEF n
<1>3. es = E(es)
    <2>1. followE \in [Nat \X SeriesOf -> SeriesOf]
        BY <1>1, AddKeepsTails
    <2>2. \A i \in 1..n, e \in SeriesOf : followE[<<i, e>>] = Add(e, keys[i], value)
        <3>1. \A i \in 1..n : i \in Nat
            BY <1>1
        <3> QED
            BY <3>1
    <2> HIDE DEF followE
    <2>3. PICK f \in [0..n -> SeriesOf] : Recurs(f, series, followE, n)
        BY <1>1, <2>1, Recursion
    <2>4. ASSUME NEW i \in 1..n PROVE f[i] = Add(f[i - 1], keys[i], value)
        <3>1. i - 1 \in 0..n
            BY <1>1
        <3> QED
            BY <2>2, <2>3, <3>1 DEF Recurs
    <2>5. f[0] = series
        BY <2>3 DEF Recurs
    <2>6. \A i \in 0..n : i # 0 => i \in 1..n
        BY <1>1
    <2>7. f = E(f)
        BY <2>4, <2>5, <2>6
    <2> QED
        BY <2>7
<1>4. ls = L(ls)
    <2>1. followL \in [Nat \X Logs -> Logs]
        <3>1. \A l \in Logs, k \in Keys : [l EXCEPT ![k] = Append(@, value)] \in Logs
            BY DEF Logs
        <3> QED
            BY <1>1, <3>1
    <2>2. \A i \in 1..n, l \in Logs : followL[<<i, l>>] = [l EXCEPT ![keys[i]] = Append(@, value)]
        <3>1. \A i \in 1..n : i \in Nat
            BY <1>1
        <3> QED
            BY <3>1
    <2> HIDE DEF followL
    <2>3. PICK f \in [0..n -> Logs] : Recurs(f, log, followL, n)
        BY <1>1, <2>1, Recursion
    <2>4. ASSUME NEW i \in 1..n PROVE f[i] = [f[i - 1] EXCEPT ![keys[i]] = Append(@, value)]
        <3>1. i - 1 \in 0..n
            BY <1>1
        <3> QED
            BY <2>2, <2>3, <3>1 DEF Recurs
    <2>5. f[0] = log
        BY <2>3 DEF Recurs
    <2>6. \A i \in 0..n : i # 0 => i \in 1..n
        BY <1>1
    <2>7. f = L(f)
        BY <2>4, <2>5, <2>6
    <2> QED
        BY <2>7
<1> HIDE DEF es, ls
<1> DEFINE T == {i \in Nat : i \in 0..n => es[i] \in SeriesOf /\ ls[i] \in Logs /\ Tails(es[i], ls[i])}
<1>5. 0 \in T
    <2>1. es[0] = series /\ ls[0] = log
        BY <1>1, <1>3, <1>4
    <2> QED
        BY <2>1
<1>6. ASSUME NEW i \in 0..n, i < n, i \in T PROVE i + 1 \in T
    <2>0. n \in Nat /\ i \in 0..n /\ i < n
        BY <1>1, <1>6
    <2>1. i + 1 \in 1..n /\ i + 1 \in 0..n /\ i + 1 # 0 /\ (i + 1) - 1 = i /\ i + 1 \in Nat
        BY ONLY <2>0
    <2>2. es[i + 1] = Add(es[i], keys[i + 1], value)
        BY <1>3, <2>1
    <2>3. ls[i + 1] = [ls[i] EXCEPT ![keys[i + 1]] = Append(@, value)]
        BY <1>4, <2>1
    <2>4. es[i] \in SeriesOf /\ ls[i] \in Logs /\ Tails(es[i], ls[i]) /\ keys[i + 1] \in Keys
        BY <1>1, <1>6, <2>1
    <2>5. es[i + 1] \in SeriesOf /\ ls[i + 1] \in Logs /\ Tails(es[i + 1], ls[i + 1])
        <3> DEFINE e == es[i]
                   l == ls[i]
                   k == keys[i + 1]
        <3>1. e \in SeriesOf /\ l \in Logs /\ k \in Keys /\ Tails(e, l)
            BY <2>4
        <3>2. es[i + 1] = Add(e, k, value) /\ ls[i + 1] = [l EXCEPT ![k] = Append(@, value)]
            BY <2>2, <2>3
        <3> HIDE DEF e, l, k
        <3>3. /\ Add(e, k, value) \in SeriesOf /\ [l EXCEPT ![k] = Append(@, value)] \in Logs
              /\ Tails(Add(e, k, value), [l EXCEPT ![k] = Append(@, value)])
            BY <3>1, AddKeepsTails
        <3> QED
            BY <3>2, <3>3
    <2> QED
        BY <2>1, <2>5
<1> HIDE DEF T
<1>7. 0..n \subseteq T
    BY <1>1, <1>5, <1>6, UpTo
<1>8. n \in 0..n /\ n \in T
    BY <1>1, <1>7
<1> QED
    BY <1>2, <1>8 DEF T

\* The fields an element has, in some order.
LEMMA FieldsAre ==
    ASSUME NEW has \in SUBSET Items
    PROVE  Cardinality(has) \in Nat /\ SetToSeq(has) \in [1..Cardinality(has) -> has]
<1>1. IsFiniteSet(has)
    BY HistoryAssumption, FS_Subset
<1>2. Cardinality(has) \in Nat /\ IsFiniteSet(1..Cardinality(has)) /\ Cardinality(1..Cardinality(has)) = Cardinality(has)
    BY <1>1, FS_CardinalityType, FS_Interval
<1>3. PICK f \in Bijection(1..Cardinality(has), has) : TRUE
    BY <1>1, <1>2, FS_SameCardinalityBij DEF ExistsBijection
<1>4. f \in [1..Cardinality(has) -> has] /\ IsInjective(f)
    BY <1>3 DEF Bijection, Injection
<1> QED
    BY <1>2, <1>4 DEF SetToSeq

\* What an update records under are keys.
LEMMA RecordedAre ==
    ASSUME NEW list \in ElementLists
    PROVE  Recorded(list) \in Seq(Keys)
<1> DEFINE Under(i) == [j \in 1..Cardinality(list[i].has) |-> <<ElementLabel(list, i), SetToSeq(list[i].has)[j]>>]
           seqs == [i \in DOMAIN list |-> Under(i)]
<1>1. PICK n \in 0..2 : list \in [1..n -> [label : Labels \cup {NoLabel}, has : SUBSET Items]]
    BY DEF ElementLists
<1>2. ASSUME NEW i \in 1..n PROVE Under(i) \in Seq(Keys)
    <2>1. list[i].has \in SUBSET Items /\ list[i].label \in Labels \cup {NoLabel} /\ i \in 1..2
        BY <1>1
    <2>2. ElementLabel(list, i) \in Labels \cup 1..2
        BY <2>1 DEF ElementLabel
    <2> DEFINE c == Cardinality(list[i].has)
               f == SetToSeq(list[i].has)
    <2>3. c \in Nat /\ \A j \in 1..c : f[j] \in Items
        BY <2>1, FieldsAre
    <2> HIDE DEF c, f
    <2>4. \A j \in 1..c : <<ElementLabel(list, i), f[j]>> \in Keys
        BY <2>2, <2>3 DEF Keys
    <2>5. [j \in 1..c |-> <<ElementLabel(list, i), f[j]>>] \in Seq(Keys)
        BY <2>3, <2>4
    <2> QED
        BY <2>5 DEF c, f
<1> HIDE DEF Under
<1>3. seqs \in Seq(Seq(Keys))
    <2>1. DOMAIN list = 1..n /\ n \in Nat
        BY <1>1
    <2> QED
        BY <1>2, <2>1
<1>4. Recorded(list) = FlattenSeq(seqs)
    BY DEF Recorded, Under
<1> QED
    BY <1>3, <1>4, FlattenType

\* The inductive invariant: types, and each series is the newest of what was added.
HistoryInv ==
    /\ updates \in Nat
    /\ series \in SeriesOf /\ log \in Logs
    /\ Tails(series, log)

\* The inductive invariant of the history.
THEOREM HistoryInvariant == HistorySpec => []HistoryInv
<1>1. HistoryInit => HistoryInv
    <2> SUFFICES ASSUME HistoryInit PROVE HistoryInv
        OBVIOUS
    <2>1. series = [k \in {} |-> <<>>] /\ log = [k \in Keys |-> <<>>] /\ updates = 0
        BY DEF HistoryInit
    <2>2. series \in SeriesOf
        <3>1. {} \in SUBSET Keys
            BY Zenon
        <3>2. series \in [{} -> Seq(Nat)]
            BY <2>1
        <3> QED
            BY <3>1, <3>2 DEF SeriesOf
    <2>3. log \in Logs
        BY <2>1 DEF Logs
    <2>4. Newest(<<>>, MaxSize) = <<>>
        BY SizeIs DEF Newest
    <2>5. ASSUME NEW k \in Keys PROVE Entry(series, k) = Newest(log[k], MaxSize)
        BY <2>1, <2>4 DEF Entry
    <2> QED
        BY <2>1, <2>2, <2>3, <2>5 DEF HistoryInv, Tails
<1>2. HistoryInv /\ [HistoryNext]_historyVars => HistoryInv'
    <2> SUFFICES ASSUME HistoryInv, [HistoryNext]_historyVars PROVE HistoryInv'
        OBVIOUS
    <2>1. CASE UNCHANGED historyVars
        BY <2>1 DEF HistoryInv, Tails, historyVars
    <2>2. ASSUME NEW list \in ElementLists, NEW recording \in BOOLEAN, Record(list, recording) PROVE HistoryInv'
        <3>1. updates' \in Nat
            BY <2>2 DEF HistoryInv, Record
        <3>2. CASE ~recording
            BY <2>2, <3>1, <3>2 DEF HistoryInv, Tails, Record
        <3>3. CASE recording
            <4>1. series' = AddAll(Recorded(list), updates') /\ log' = Logged(Recorded(list), updates')
                BY <2>2, <3>3 DEF Record
            <4>2. Recorded(list) \in Seq(Keys)
                BY RecordedAre
            <4>3. series' \in SeriesOf /\ log' \in Logs /\ Tails(series', log')
                BY <3>1, <4>1, <4>2, AllKeepTails DEF HistoryInv
            <4> QED
                BY <3>1, <4>3 DEF HistoryInv
        <3> QED
            BY <3>2, <3>3
    <2> QED
        BY <2>1, <2>2 DEF HistoryNext
<1> QED
    BY <1>1, <1>2, PTL DEF HistorySpec

\* A series, and every slice of it, is the newest of what was ever added to it
\* (GlancesHistory), for any elements, items and bound.
THEOREM SeriesIsTailAlways == HistorySpec => []SeriesIsTail
<1>1. ASSUME HistoryInv, NEW k \in Keys
      PROVE  /\ Entry(series, k) = Newest(log[k], MaxSize)
             /\ \A nb \in 1..MaxSize : Newest(Entry(series, k), nb) = Newest(log[k], nb)
    <2>1. log[k] \in Seq(Nat) /\ Entry(series, k) = Newest(log[k], MaxSize)
        BY <1>1 DEF HistoryInv, Tails, Logs
    <2> QED
        BY <2>1, SizeIs, NewestOfNewest
<1>2. HistoryInv => SeriesIsTail
    BY <1>1 DEF SeriesIsTail
<1> QED
    BY <1>2, HistoryInvariant, PTL

-----------------------------------------------------------------------------
(* Gauges.                                                                 *)

\* The figures swept at times and how long a sweep is kept.
Swept(g) ==
    IF g = "power" THEN {"nvidia"}
    ELSE IF g = "smart" THEN {"device"}
    ELSE IF g = "vms" THEN {"domain", "instance"}
    ELSE {}
Ttl(g) == IF g = "power" THEN PowerTtl ELSE SlowTtl

\* The figures kept beside the stats.
Kept(g) ==
    IF g = "vms" THEN {"domain", "instance", "version"}
    ELSE IF g = "npu" THEN {"device"}
    ELSE IF g = "cloud" THEN {"identity"}
    ELSE Swept(g)

\* Types, of what is kept too.
GaugeTypes ==
    /\ gauge \in Gauges /\ time \in 1..Forever
    /\ condition \in [SourcesOf(gauge) -> Conditions]
    /\ figures \in [FiguresOf(gauge) -> 0..time]
    /\ cache.at \in 0..time /\ succeeded \in 0..time
    /\ lastBad \in [SourcesOf(gauge) -> 0..time]
    /\ cache.at # 0 => \A f \in Kept(gauge) : cache.kept[f] \in 0..time

\* What a sweep found is shown while the sweep is recent; if it found nothing a source
\* has been bad since.
SweepShown(f) ==
    IF cache.at = 0 THEN figures[f] = Empty /\ succeeded = 0
    ELSE /\ figures[f] = cache.kept[f] /\ cache.kept[f] \in {Empty, cache.at}
         /\ cache.at <= succeeded /\ succeeded < cache.at + Ttl(gauge)
         /\ cache.kept[f] = Empty => \E s \in SourcesOf(gauge) : cache.at <= lastBad[s]

\* A figure is of the last update that succeeded, and is there unless a source was bad then.
OfLast(f) == figures[f] # Empty => figures[f] = succeeded
There(f) == succeeded # 0 /\ (\A s \in SourcesOf(gauge) : lastBad[s] + 1 <= succeeded) => figures[f] # Empty

\* The figures read at every update.
Direct(g) ==
    FiguresOf(g) \ (Kept(g) \cup (IF g = "connections" THEN {"conntrack"} ELSE {}))

\* The inductive invariant of the gauges.
GaugeInv ==
    /\ GaugeTypes
    /\ \A f \in Swept(gauge) : SweepShown(f)
    /\ \A f \in Direct(gauge) : OfLast(f) /\ (gauge # "npu" => There(f))
    /\ gauge = "connections" => There("conntrack")

\* The windows are numbers, times no errors.
LEMMA TtlIs ==
    /\ SlowTtl \in Nat \ {0} /\ PowerTtl \in Nat \ {0} /\ Forever \in Nat \ {0} /\ Gap \in Nat \ {0}
    /\ SlowTtl < Forever /\ PowerTtl < Forever
    /\ Ttl(gauge) \in Nat \ {0}
BY ReadingsAssumption DEF Ttl

\* The plugins and their figures.
LEMMA GaugesAre ==
    Gauges = {"mem", "memswap", "load", "uptime", "fs", "sensors", "wifi", "raid", "containers", "ports",
              "connections", "pressure", "processcount", "mpp", "system", "power", "smart", "vms", "npu", "cloud"}
BY DEF Gauges, Figures

\* The figures of each plugin.
LEMMA FiguresAre ==
    /\ FiguresOf("mem") = {"memory", "arc"} /\ FiguresOf("memswap") = {"swap"}
    /\ FiguresOf("load") = {"averages", "cores"} /\ FiguresOf("uptime") = {"seconds"}
    /\ FiguresOf("fs") = {"mount"} /\ FiguresOf("sensors") = {"sensor"}
    /\ FiguresOf("wifi") = {"link", "speed"} /\ FiguresOf("raid") = {"array"}
    /\ FiguresOf("containers") = {"container"} /\ FiguresOf("ports") = {"tcp", "udp"}
    /\ FiguresOf("connections") = {"states", "conntrack"} /\ FiguresOf("pressure") = {"cpu", "io"}
    /\ FiguresOf("processcount") = {"counts", "pid_max"} /\ FiguresOf("mpp") = {"encoder"}
    /\ FiguresOf("system") = {"kernel", "distro"} /\ FiguresOf("power") = {"nvidia", "amdgpu"}
    /\ FiguresOf("smart") = {"device"} /\ FiguresOf("vms") = {"domain", "instance", "version"}
    /\ FiguresOf("npu") = {"device", "load"} /\ FiguresOf("cloud") = {"identity"}
BY DEF FiguresOf, Figures

\* What each plugin reads them from.
LEMMA SourcesAre ==
    /\ SourcesOf("mem") = {"meminfo", "arcstats"} /\ SourcesOf("memswap") = {"meminfo"}
    /\ SourcesOf("load") = {"loadavg", "cpuinfo"} /\ SourcesOf("uptime") = {"uptime"}
    /\ SourcesOf("fs") = {"mounts", "statvfs"} /\ SourcesOf("sensors") = {"hwmon", "input"}
    /\ SourcesOf("wifi") = {"wireless", "speed"} /\ SourcesOf("raid") = {"mdstat"}
    /\ SourcesOf("containers") = {"docker"} /\ SourcesOf("ports") = {"tcp", "udp"}
    /\ SourcesOf("connections") = {"tcp", "conntrack"} /\ SourcesOf("pressure") = {"cpu", "io"}
    /\ SourcesOf("processcount") = {"proc", "pid_max"} /\ SourcesOf("mpp") = {"dri"}
    /\ SourcesOf("system") = {"uname", "os-release"} /\ SourcesOf("power") = {"nvidia-smi", "power1"}
    /\ SourcesOf("smart") = {"scan", "smartctl"} /\ SourcesOf("vms") = {"virsh", "multipass", "virsh_version"}
    /\ SourcesOf("npu") = {"bus", "util"} /\ SourcesOf("cloud") = {"metadata"}
<1>1. SourcesOf("mem") = {"meminfo", "arcstats"}
    BY FiguresAre DEF SourcesOf, Figures
<1>2. SourcesOf("memswap") = {"meminfo"}
    BY FiguresAre DEF SourcesOf, Figures
<1>3. SourcesOf("load") = {"loadavg", "cpuinfo"}
    BY FiguresAre DEF SourcesOf, Figures
<1>4. SourcesOf("uptime") = {"uptime"}
    BY FiguresAre DEF SourcesOf, Figures
<1>5. SourcesOf("fs") = {"mounts", "statvfs"}
    BY FiguresAre DEF SourcesOf, Figures
<1>6. SourcesOf("sensors") = {"hwmon", "input"}
    BY FiguresAre DEF SourcesOf, Figures
<1>7. SourcesOf("wifi") = {"wireless", "speed"}
    BY FiguresAre DEF SourcesOf, Figures
<1>8. SourcesOf("raid") = {"mdstat"}
    BY FiguresAre DEF SourcesOf, Figures
<1>9. SourcesOf("containers") = {"docker"}
    BY FiguresAre DEF SourcesOf, Figures
<1>10. SourcesOf("ports") = {"tcp", "udp"}
    BY FiguresAre DEF SourcesOf, Figures
<1>11. SourcesOf("connections") = {"tcp", "conntrack"}
    BY FiguresAre DEF SourcesOf, Figures
<1>12. SourcesOf("pressure") = {"cpu", "io"}
    BY FiguresAre DEF SourcesOf, Figures
<1>13. SourcesOf("processcount") = {"proc", "pid_max"}
    BY FiguresAre DEF SourcesOf, Figures
<1>14. SourcesOf("mpp") = {"dri"}
    BY FiguresAre DEF SourcesOf, Figures
<1>15. SourcesOf("system") = {"uname", "os-release"}
    BY FiguresAre DEF SourcesOf, Figures
<1>16. SourcesOf("power") = {"nvidia-smi", "power1"}
    BY FiguresAre DEF SourcesOf, Figures
<1>17. SourcesOf("smart") = {"scan", "smartctl"}
    BY FiguresAre DEF SourcesOf, Figures
<1>18. SourcesOf("vms") = {"virsh", "multipass", "virsh_version"}
    BY FiguresAre DEF SourcesOf, Figures
<1>19. SourcesOf("npu") = {"bus", "util"}
    BY FiguresAre DEF SourcesOf, Figures
<1>20. SourcesOf("cloud") = {"metadata"}
    BY FiguresAre DEF SourcesOf, Figures
<1> QED
    BY <1>1, <1>2, <1>3, <1>4, <1>5, <1>6, <1>7, <1>8, <1>9, <1>10, <1>11, <1>12, <1>13, <1>14, <1>15, <1>16, <1>17, <1>18, <1>19, <1>20

\* A reading is of now or of nothing, and of nothing only if a source is bad.
NowOrNone(v) == v \in {Empty, time} /\ (v = Empty => \E s \in SourcesOf(gauge) : condition[s] # "fine")

\* Sources that are read without an error give samples.
LEMMA Samples ==
    ASSUME GaugeTypes, NEW s \in SourcesOf(gauge), NEW t \in SourcesOf(gauge)
    PROVE  NowOrNone(Soft(s)) /\ NowOrNone(Both(s, t)) /\ time # Empty
BY DEF GaugeTypes, NowOrNone, Soft, Both, Empty

\* What a step does to the plugin followed.
LEMMA StepIs ==
    ASSUME GaugeTypes, ReadingStep
    PROVE  /\ gauge' = gauge /\ time' = time /\ condition' = condition
           /\ DOMAIN figures' = FiguresOf(gauge) /\ figures' = [f \in FiguresOf(gauge) |-> figures'[f]]
           /\ \A f \in FiguresOf(gauge) : figures'[f] = IF f \in DOMAIN Result.new THEN Result.new[f] ELSE figures[f]
           /\ cache' = Result.cache /\ succeeded' = IF Result.ok THEN time ELSE succeeded
           /\ lastBad' \in [SourcesOf(gauge) -> 0..time]
           /\ \A s \in SourcesOf(gauge) : lastBad[s] <= lastBad'[s] /\ lastBad[s] \in 0..time
           /\ \A s \in SourcesOf(gauge) : condition[s] # "fine" => lastBad'[s] = time
<1> USE DEF ReadingStep
<1>1. time \in Nat /\ \A s \in SourcesOf(gauge) : lastBad[s] \in 0..time
    BY DEF GaugeTypes
<1>2. lastBad' = [s \in SourcesOf(gauge) |-> IF condition[s] = "fine" THEN lastBad[s] ELSE time]
    OBVIOUS
<1>3. \A s \in SourcesOf(gauge) : lastBad'[s] = IF condition[s] = "fine" THEN lastBad[s] ELSE time
    BY <1>2
<1>4. lastBad' \in [SourcesOf(gauge) -> 0..time]
    BY <1>1, <1>2
<1>5. \A s \in SourcesOf(gauge) : lastBad[s] <= lastBad'[s]
    BY <1>1, <1>3
<1>6. \A s \in SourcesOf(gauge) : condition[s] # "fine" => lastBad'[s] = time
    BY <1>3
<1>7. figures' = [f \in FiguresOf(gauge) |-> IF f \in DOMAIN Result.new THEN Result.new[f] ELSE figures[f]]
    OBVIOUS
<1> HIDE DEF ReadingStep
<1>8. /\ DOMAIN figures' = FiguresOf(gauge) /\ figures' = [f \in FiguresOf(gauge) |-> figures'[f]]
      /\ \A f \in FiguresOf(gauge) : figures'[f] = IF f \in DOMAIN Result.new THEN Result.new[f] ELSE figures[f]
    BY <1>7
<1>9. gauge' = gauge /\ time' = time /\ condition' = condition /\ cache' = Result.cache
      /\ succeeded' = IF Result.ok THEN time ELSE succeeded
    BY DEF ReadingStep
<1> QED
    BY <1>1, <1>4, <1>5, <1>6, <1>8, <1>9

\* A figure that a successful update samples.
LEMMA SampleShown ==
    ASSUME GaugeTypes, ReadingStep, Result.ok,
           NEW f \in FiguresOf(gauge), f \in DOMAIN Result.new, NowOrNone(Result.new[f])
    PROVE  figures'[f] \in 0..time /\ OfLast(f)' /\ There(f)'
<1>1. figures'[f] = Result.new[f] /\ succeeded' = time /\ gauge' = gauge
    BY StepIs
<1>2. time \in Nat
    BY DEF GaugeTypes
<1>3. figures'[f] \in {Empty, time}
    BY <1>1 DEF NowOrNone
<1>4. figures'[f] \in 0..time
    BY <1>2, <1>3 DEF Empty
<1>5. ASSUME figures'[f] = Empty PROVE \E s \in SourcesOf(gauge) : ~(lastBad'[s] + 1 <= succeeded')
    <2>1. PICK s \in SourcesOf(gauge) : condition[s] # "fine"
        BY <1>1, <1>5 DEF NowOrNone
    <2>2. lastBad'[s] = time
        BY <2>1, StepIs
    <2>3. ~(time + 1 <= time)
        BY <1>2
    <2> QED
        BY <1>1, <2>1, <2>2, <2>3
<1> QED
    BY <1>1, <1>3, <1>4, <1>5 DEF OfLast, There

\* A figure that an update which fails for a bad source leaves.
LEMMA FailureKeeps ==
    ASSUME GaugeTypes, ReadingStep, ~Result.ok, DOMAIN Result.new = {},
           \E s \in SourcesOf(gauge) : condition[s] # "fine",
           NEW f \in FiguresOf(gauge), OfLast(f)
    PROVE  figures'[f] \in 0..time /\ OfLast(f)' /\ There(f)'
<1>1. figures'[f] = figures[f] /\ succeeded' = succeeded /\ gauge' = gauge
    BY StepIs
<1>2. PICK s \in SourcesOf(gauge) : condition[s] # "fine"
    OBVIOUS
<1>3. lastBad'[s] = time
    BY <1>2, StepIs
<1>4. time \in Nat /\ succeeded \in 0..time /\ figures[f] \in 0..time
    BY DEF GaugeTypes
<1>5. ~(time + 1 <= succeeded)
    BY <1>4
<1> QED
    BY <1>1, <1>3, <1>4, <1>5 DEF OfLast, There

\* A figure of a sweep, made again when it is too old.
LEMMA SweepKept ==
    ASSUME GaugeTypes, ReadingStep, Result.ok,
           NEW f \in Swept(gauge), f \in FiguresOf(gauge), f \in Kept(gauge), SweepShown(f),
           f \in DOMAIN Result.new, Result.new[f] = Result.cache.kept[f],
           NEW current, NowOrNone(current[f]), Result.cache = Collected(current, Ttl(gauge))
    PROVE  figures'[f] \in 0..time /\ cache'.kept[f] \in 0..time /\ SweepShown(f)'
<1>1. figures'[f] = cache'.kept[f] /\ succeeded' = time /\ gauge' = gauge /\ cache' = Collected(current, Ttl(gauge))
    BY StepIs
<1>2. time \in Nat /\ time # 0 /\ cache.at \in 0..time /\ Ttl(gauge) \in Nat \ {0}
    BY TtlIs DEF GaugeTypes
<1>3. CASE FreshCache(Ttl(gauge))
    <2>1. cache' = cache /\ cache.at # 0 /\ time - cache.at < Ttl(gauge)
        BY <1>1, <1>3 DEF Collected, FreshCache
    <2>2. cache.kept[f] \in {Empty, cache.at} /\ (cache.kept[f] = Empty => \E s \in SourcesOf(gauge) : cache.at <= lastBad[s])
        BY <2>1 DEF SweepShown
    <2>3. cache.kept[f] \in 0..time /\ cache.at <= time /\ time < cache.at + Ttl(gauge)
        BY <1>2, <2>1, <2>2 DEF Empty
    <2>4. ASSUME cache.kept[f] = Empty PROVE \E s \in SourcesOf(gauge) : cache.at <= lastBad'[s]
        <3>1. PICK s \in SourcesOf(gauge) : cache.at <= lastBad[s]
            BY <2>2, <2>4
        <3>2. lastBad[s] <= lastBad'[s] /\ lastBad[s] \in 0..time /\ lastBad'[s] \in 0..time
            BY StepIs
        <3>3. cache.at <= lastBad'[s]
            BY <1>2, <3>1, <3>2
        <3> QED
            BY <3>3
    <2> QED
        BY <1>1, <2>1, <2>2, <2>3, <2>4 DEF SweepShown
<1>4. CASE ~FreshCache(Ttl(gauge))
    <2>1. cache' = [at |-> time, kept |-> current]
        BY <1>1, <1>4 DEF Collected
    <2>2. cache'.at = time /\ cache'.kept = current
        BY <2>1
    <2>3. cache'.kept[f] \in {Empty, time} /\ cache'.kept[f] \in 0..time
        BY <1>2, <2>2 DEF NowOrNone, Empty
    <2>4. ASSUME cache'.kept[f] = Empty PROVE \E s \in SourcesOf(gauge) : time <= lastBad'[s]
        <3>1. PICK s \in SourcesOf(gauge) : condition[s] # "fine"
            BY <2>2, <2>4 DEF NowOrNone
        <3>2. lastBad'[s] = time
            BY <3>1, StepIs
        <3> QED
            BY <1>2, <3>2
    <2>5. time <= time /\ time < time + Ttl(gauge)
        BY <1>2
    <2> QED
        BY <1>1, <1>2, <2>2, <2>3, <2>4, <2>5 DEF SweepShown
<1> QED
    BY <1>3, <1>4

\* The plugins that read all their figures at every update.
Simple == {"mem", "memswap", "load", "uptime", "fs", "sensors", "wifi", "raid", "containers", "ports",
           "pressure", "processcount", "mpp", "system"}

\* An update samples each figure, or fails for a source.
LEMMA SimpleResult ==
    ASSUME GaugeTypes, gauge \in Simple
    PROVE  /\ Result.ok => \A f \in FiguresOf(gauge) : f \in DOMAIN Result.new /\ NowOrNone(Result.new[f])
           /\ ~Result.ok => DOMAIN Result.new = {} /\ \E s \in SourcesOf(gauge) : condition[s] # "fine"
           /\ Result.cache = cache
<1>1. time \in Nat /\ time # Empty /\ time # Error /\ Empty # Error
    BY ReadingsAssumption DEF GaugeTypes, Empty
<1>2. CASE gauge = "mem"
    BY <1>1, <1>2, FiguresAre, SourcesAre DEF Result, UpdateMem, MemInfo, ZfsArc, Lenient, Soft, NowOrNone, Shows, Failed
<1>3. CASE gauge = "memswap"
    BY <1>1, <1>3, FiguresAre, SourcesAre DEF Result, UpdateMemswap, MemInfo, Lenient, NowOrNone, Shows, Failed
<1>4. CASE gauge = "load"
    BY <1>1, <1>4, FiguresAre, SourcesAre DEF Result, UpdateLoad, LoadAvg, CpuCount, Strict, Soft, NowOrNone, Shows, Failed
<1>5. CASE gauge = "uptime"
    BY <1>1, <1>5, FiguresAre, SourcesAre DEF Result, UpdateUptime, Uptime, Strict, NowOrNone, Shows, Failed
<1>6. CASE gauge = "fs"
    BY <1>1, <1>6, FiguresAre, SourcesAre DEF Result, UpdateFs, ReadMounts, Both, Soft, NowOrNone, Shows, Failed
<1>7. CASE gauge = "sensors"
    BY <1>1, <1>7, FiguresAre, SourcesAre DEF Result, UpdateSensors, ReadSensors, Both, Soft, NowOrNone, Shows, Failed
<1>8. CASE gauge = "wifi"
    BY <1>8, FiguresAre, SourcesAre, Samples DEF Result, UpdateWifi, WirelessLinks, WirelessSpeed, Shows
<1>9. CASE gauge = "raid"
    BY <1>9, FiguresAre, SourcesAre, Samples DEF Result, UpdateRaid, MdStat, Shows
<1>10. CASE gauge = "containers"
    BY <1>10, FiguresAre, SourcesAre, Samples DEF Result, UpdateContainers, DockerList, Shows
<1>11. CASE gauge = "ports"
    BY <1>11, FiguresAre, SourcesAre, Samples DEF Result, UpdatePorts, NetTable, Shows
<1>12. CASE gauge = "pressure"
    BY <1>12, FiguresAre, SourcesAre, Samples DEF Result, UpdatePressure, Avg10, Shows
<1>13. CASE gauge = "processcount"
    BY <1>13, FiguresAre, SourcesAre, Samples DEF Result, UpdateProcesscount, StateCounts, PidMax, Shows
<1>14. CASE gauge = "mpp"
    BY <1>14, FiguresAre, SourcesAre, Samples DEF Result, UpdateMpp, ProbeDri, Shows
<1>15. CASE gauge = "system"
    BY <1>15, FiguresAre, SourcesAre, Samples DEF Result, UpdateSystem, UnameInfo, Distro, Shows
<1> QED
    BY <1>2, <1>3, <1>4, <1>5, <1>6, <1>7, <1>8, <1>9, <1>10, <1>11, <1>12, <1>13, <1>14, <1>15 DEF Simple

\* The types after an update, given those of its figures and of what it keeps.
LEMMA TypesKeep ==
    ASSUME GaugeTypes, ReadingStep,
           \A f \in FiguresOf(gauge) : figures'[f] \in 0..time,
           cache'.at \in 0..time,
           cache'.at # 0 => \A f \in Kept(gauge) : cache'.kept[f] \in 0..time
    PROVE  GaugeTypes'
<1>1. /\ gauge' = gauge /\ time' = time /\ condition' = condition
      /\ figures' = [f \in FiguresOf(gauge) |-> figures'[f]]
      /\ lastBad' \in [SourcesOf(gauge) -> 0..time] /\ succeeded' = IF Result.ok THEN time ELSE succeeded
    BY StepIs
<1>2. time \in Nat /\ succeeded' \in 0..time
    BY <1>1 DEF GaugeTypes
<1>3. figures' \in [FiguresOf(gauge) -> 0..time]
    BY <1>1
<1> QED
    BY <1>1, <1>2, <1>3 DEF GaugeTypes

\* Plugins that read all their figures at every update.
LEMMA SimpleKeeps ==
    ASSUME GaugeInv, ReadingStep, gauge \in Simple
    PROVE  GaugeInv'
<1>1. GaugeTypes /\ gauge' = gauge /\ cache' = cache /\ time' = time
    BY SimpleResult, StepIs DEF GaugeInv
<1>2. Swept(gauge) = {} /\ Kept(gauge) = {} /\ Direct(gauge) = FiguresOf(gauge) /\ gauge # "npu" /\ gauge # "connections"
    BY DEF Simple, Swept, Kept, Direct
<1>3. ASSUME NEW f \in FiguresOf(gauge) PROVE figures'[f] \in 0..time /\ OfLast(f)' /\ There(f)'
    <2>1. CASE Result.ok
        BY <1>1, <2>1, SimpleResult, SampleShown
    <2>2. CASE ~Result.ok
        BY <1>1, <1>2, <2>2, SimpleResult, FailureKeeps DEF GaugeInv
    <2> QED
        BY <2>1, <2>2
<1>4. GaugeTypes'
    BY <1>1, <1>2, <1>3, TypesKeep DEF GaugeTypes
<1> QED
    BY <1>1, <1>2, <1>3, <1>4 DEF GaugeInv

\* Conntrack stays when it cannot be read.
LEMMA ConnectionsKeep ==
    ASSUME GaugeInv, ReadingStep, gauge = "connections"
    PROVE  GaugeInv'
<1>1. GaugeTypes /\ gauge' = gauge /\ time' = time /\ time \in Nat
    BY StepIs DEF GaugeInv, GaugeTypes
<1>2. /\ Swept(gauge) = {} /\ Kept(gauge) = {} /\ Direct(gauge) = {"states"} /\ gauge # "npu"
      /\ FiguresOf(gauge) = {"states", "conntrack"} /\ SourcesOf(gauge) = {"tcp", "conntrack"}
    BY FiguresAre, SourcesAre DEF Swept, Kept, Direct
<1>3. Result = Shows([states |-> Soft("tcp"), conntrack |-> IF Soft("conntrack") = Empty THEN figures.conntrack ELSE Soft("conntrack")])
    BY DEF Result, UpdateConnections, Conntrack, NetTable
<1>4. /\ Result.ok /\ Result.cache = cache /\ "states" \in DOMAIN Result.new /\ "conntrack" \in DOMAIN Result.new
      /\ Result.new["states"] = Soft("tcp")
      /\ Result.new["conntrack"] = IF Soft("conntrack") = Empty THEN figures["conntrack"] ELSE Soft("conntrack")
    BY <1>3 DEF Shows
<1>5. NowOrNone(Soft("tcp")) /\ NowOrNone(Soft("conntrack"))
    BY <1>1, <1>2, Samples
<1>6. figures'["states"] \in 0..time /\ OfLast("states")' /\ There("states")'
    BY <1>1, <1>2, <1>4, <1>5, SampleShown
<1>7. figures'["conntrack"] \in 0..time /\ There("conntrack")'
    <2>1. CASE Soft("conntrack") = Empty
        <3>1. figures'["conntrack"] = figures["conntrack"] /\ succeeded' = time
            BY <1>1, <1>2, <1>4, <2>1, StepIs
        <3>2. PICK s \in SourcesOf(gauge) : condition[s] # "fine"
            BY <1>5, <2>1 DEF NowOrNone
        <3>3. lastBad'[s] = time
            BY <1>1, <3>2, StepIs
        <3>4. ~(time + 1 <= time)
            BY <1>1
        <3> QED
            BY <1>1, <1>2, <3>1, <3>2, <3>3, <3>4 DEF GaugeTypes, There
    <2>2. CASE Soft("conntrack") # Empty
        BY <1>1, <1>2, <1>4, <1>5, <2>2, SampleShown
    <2> QED
        BY <2>1, <2>2
<1>8. cache' = cache
    BY <1>1, <1>4, StepIs
<1>9. GaugeTypes'
    BY <1>1, <1>2, <1>6, <1>7, <1>8, TypesKeep DEF GaugeTypes
<1> QED
    BY <1>1, <1>2, <1>6, <1>7, <1>9 DEF GaugeInv

\* What a cache holds after a sweep or without one.
LEMMA CollectedIs ==
    ASSUME GaugeTypes, NEW current, NEW w
    PROVE  /\ Collected(current, w).at \in 0..time /\ Collected(current, w).at # 0
           /\ (Collected(current, w) = cache /\ cache.at # 0) \/ Collected(current, w).kept = current
<1>1. time \in Nat /\ time # 0 /\ cache.at \in 0..time
    BY DEF GaugeTypes
<1>2. CASE FreshCache(w)
    BY <1>1, <1>2 DEF Collected, FreshCache
<1>3. CASE ~FreshCache(w)
    <2>1. Collected(current, w) = [at |-> time, kept |-> current]
        BY <1>3 DEF Collected
    <2> QED
        BY <1>1, <2>1
<1> QED
    BY <1>2, <1>3

\* A graphics card is asked for its watts again once the sweep is too old.
LEMMA PowerKeeps ==
    ASSUME GaugeInv, ReadingStep, gauge = "power"
    PROVE  GaugeInv'
<1> DEFINE current == [nvidia |-> Soft("nvidia-smi")]
           c == Collected(current, PowerTtl)
<1>1. GaugeTypes /\ gauge' = gauge /\ time' = time /\ cache' = Result.cache
    BY StepIs DEF GaugeInv
<1>2. /\ Swept(gauge) = {"nvidia"} /\ Kept(gauge) = {"nvidia"} /\ Direct(gauge) = {"amdgpu"} /\ gauge # "npu"
      /\ FiguresOf(gauge) = {"nvidia", "amdgpu"} /\ SourcesOf(gauge) = {"nvidia-smi", "power1"}
      /\ Ttl(gauge) = PowerTtl
    BY FiguresAre, SourcesAre DEF Swept, Kept, Direct, Ttl
<1>3. Result = WithCache([nvidia |-> c.kept.nvidia, amdgpu |-> Soft("power1")], c)
    BY DEF Result, UpdatePower, NvidiaWatts, AmdgpuWatts
<1>4. current["nvidia"] = Soft("nvidia-smi")
    OBVIOUS
<1> HIDE DEF current
<1>5. c.at \in 0..time
    BY <1>1, CollectedIs
<1>6. /\ Result.ok /\ Result.cache = c /\ "nvidia" \in DOMAIN Result.new /\ "amdgpu" \in DOMAIN Result.new
      /\ Result.new["nvidia"] = c.kept["nvidia"] /\ Result.new["amdgpu"] = Soft("power1")
    BY <1>3 DEF WithCache
<1>7. NowOrNone(current["nvidia"]) /\ NowOrNone(Soft("power1"))
    BY <1>1, <1>2, <1>4, Samples
<1>8. figures'["amdgpu"] \in 0..time /\ OfLast("amdgpu")' /\ There("amdgpu")'
    BY <1>1, <1>2, <1>6, <1>7, SampleShown
<1>9. figures'["nvidia"] \in 0..time /\ cache'.kept["nvidia"] \in 0..time /\ SweepShown("nvidia")'
    BY <1>1, <1>2, <1>6, <1>7, SweepKept DEF GaugeInv
<1> HIDE DEF c
<1>10. GaugeTypes'
    BY <1>1, <1>2, <1>5, <1>6, <1>8, <1>9, TypesKeep
<1> QED
    BY <1>1, <1>2, <1>8, <1>9, <1>10 DEF GaugeInv

\* Drives are asked again once the sweep is too old.
LEMMA SmartKeeps ==
    ASSUME GaugeInv, ReadingStep, gauge = "smart"
    PROVE  GaugeInv'
<1> DEFINE current == [device |-> Both("scan", "smartctl")]
           c == Collected(current, SlowTtl)
<1>1. GaugeTypes /\ gauge' = gauge /\ time' = time /\ cache' = Result.cache
    BY StepIs DEF GaugeInv
<1>2. /\ Swept(gauge) = {"device"} /\ Kept(gauge) = {"device"} /\ Direct(gauge) = {} /\ gauge # "npu"
      /\ FiguresOf(gauge) = {"device"} /\ SourcesOf(gauge) = {"scan", "smartctl"}
      /\ Ttl(gauge) = SlowTtl
    BY FiguresAre, SourcesAre DEF Swept, Kept, Direct, Ttl
<1>3. Result = WithCache([device |-> c.kept.device], c)
    BY DEF Result, UpdateSmart, SmartDevices
<1>4. current["device"] = Both("scan", "smartctl")
    OBVIOUS
<1> HIDE DEF current
<1>5. c.at \in 0..time
    BY <1>1, CollectedIs
<1>6. Result.ok /\ Result.cache = c /\ "device" \in DOMAIN Result.new /\ Result.new["device"] = c.kept["device"]
    BY <1>3 DEF WithCache
<1>7. NowOrNone(current["device"])
    BY <1>1, <1>2, <1>4, Samples
<1>9. figures'["device"] \in 0..time /\ cache'.kept["device"] \in 0..time /\ SweepShown("device")'
    BY <1>1, <1>2, <1>6, <1>7, SweepKept DEF GaugeInv
<1> HIDE DEF c
<1>10. GaugeTypes'
    BY <1>1, <1>2, <1>5, <1>6, <1>9, TypesKeep
<1> QED
    BY <1>1, <1>2, <1>9, <1>10 DEF GaugeInv

\* Machines are asked for again once the sweep is too old; the version is kept for good.
LEMMA VmsKeeps ==
    ASSUME GaugeInv, ReadingStep, gauge = "vms"
    PROVE  GaugeInv'
<1> DEFINE asked == cache.at # 0 /\ cache.kept.asked
           version == IF asked THEN cache.kept.version ELSE IF Soft("virsh") # Empty THEN Soft("virsh_version") ELSE Empty
           current == [domain |-> Soft("virsh"), instance |-> Soft("multipass"),
                       asked |-> asked \/ Soft("virsh") # Empty, version |-> version]
           c == Collected(current, SlowTtl)
<1>1. GaugeTypes /\ gauge' = gauge /\ time' = time /\ cache' = Result.cache
    BY StepIs DEF GaugeInv
<1>2. /\ Swept(gauge) = {"domain", "instance"} /\ Kept(gauge) = {"domain", "instance", "version"}
      /\ Direct(gauge) = {} /\ gauge # "npu"
      /\ FiguresOf(gauge) = {"domain", "instance", "version"}
      /\ SourcesOf(gauge) = {"virsh", "multipass", "virsh_version"}
      /\ Ttl(gauge) = SlowTtl
    BY FiguresAre, SourcesAre DEF Swept, Kept, Direct, Ttl
<1>3. Result = WithCache([domain |-> c.kept.domain, instance |-> c.kept.instance, version |-> c.kept.version], c)
    BY DEF Result, UpdateVms, Domains, Instances, VirshVersion
<1>4. current["domain"] = Soft("virsh") /\ current["instance"] = Soft("multipass") /\ current["version"] = version
    OBVIOUS
<1>5. version \in 0..time
    <2>1. time \in Nat /\ Soft("virsh_version") \in {Empty, time}
        BY DEF Soft, GaugeTypes, GaugeInv
    <2>2. asked => cache.kept["version"] \in 0..time
        BY <1>1, <1>2 DEF GaugeTypes
    <2> QED
        BY <2>1, <2>2 DEF Empty
<1> HIDE DEF current, version
<1>6. c.at \in 0..time
    BY <1>1, CollectedIs
<1>7. /\ Result.ok /\ Result.cache = c
      /\ "domain" \in DOMAIN Result.new /\ "instance" \in DOMAIN Result.new /\ "version" \in DOMAIN Result.new
      /\ Result.new["domain"] = c.kept["domain"] /\ Result.new["instance"] = c.kept["instance"]
      /\ Result.new["version"] = c.kept["version"]
    BY <1>3 DEF WithCache
<1>8. NowOrNone(current["domain"]) /\ NowOrNone(current["instance"])
    BY <1>1, <1>2, <1>4, Samples
<1>9. figures'["domain"] \in 0..time /\ cache'.kept["domain"] \in 0..time /\ SweepShown("domain")'
    BY <1>1, <1>2, <1>7, <1>8, SweepKept DEF GaugeInv
<1>10. figures'["instance"] \in 0..time /\ cache'.kept["instance"] \in 0..time /\ SweepShown("instance")'
    BY <1>1, <1>2, <1>7, <1>8, SweepKept DEF GaugeInv
<1>11. c.kept["version"] \in 0..time
    <2>1. (c = cache /\ cache.at # 0) \/ c.kept = current
        BY <1>1, CollectedIs
    <2> QED
        BY <1>1, <1>2, <1>4, <1>5, <2>1 DEF GaugeTypes
<1> HIDE DEF c
<1>12. figures'["version"] \in 0..time /\ cache'.kept["version"] \in 0..time
    <2>1. figures'["version"] = c.kept["version"]
        BY <1>1, <1>2, <1>7, StepIs
    <2> QED
        BY <1>1, <1>7, <1>11, <2>1
<1>13. GaugeTypes'
    BY <1>1, <1>2, <1>6, <1>7, <1>9, <1>10, <1>12, TypesKeep
<1> QED
    BY <1>1, <1>2, <1>9, <1>10, <1>13 DEF GaugeInv

\* The devices found first stay; their load is read as long as there are any.
LEMMA NpuKeeps ==
    ASSUME GaugeInv, ReadingStep, gauge = "npu"
    PROVE  GaugeInv'
<1> DEFINE c == IF cache.at # 0 THEN cache ELSE [at |-> time, kept |-> [device |-> Soft("bus")]]
           load == IF c.kept.device = Empty THEN Empty ELSE Both("bus", "util")
<1>1. GaugeTypes /\ gauge' = gauge /\ time' = time /\ cache' = Result.cache /\ time \in Nat
    BY StepIs DEF GaugeInv, GaugeTypes
<1>2. /\ Swept(gauge) = {} /\ Kept(gauge) = {"device"} /\ Direct(gauge) = {"load"} /\ gauge # "connections"
      /\ FiguresOf(gauge) = {"device", "load"} /\ SourcesOf(gauge) = {"bus", "util"}
    BY FiguresAre, SourcesAre DEF Swept, Kept, Direct
<1>3. Result = WithCache([device |-> c.kept.device, load |-> load], c)
    BY DEF Result, UpdateNpu, NpuDevices, NpuLoad
<1>4. c.at \in 0..time /\ c.kept["device"] \in 0..time
    <2>1. Soft("bus") \in 0..time
        BY <1>1 DEF Soft, Empty
    <2> QED
        BY <1>1, <1>2, <2>1 DEF GaugeTypes
<1>5. load \in {Empty, time}
    BY DEF Both, Soft
<1> HIDE DEF c, load
<1>6. /\ Result.ok /\ Result.cache = c /\ "device" \in DOMAIN Result.new /\ "load" \in DOMAIN Result.new
      /\ Result.new["device"] = c.kept["device"] /\ Result.new["load"] = load
    BY <1>3 DEF WithCache
<1>7. figures'["device"] = c.kept["device"] /\ figures'["load"] = load /\ succeeded' = time
    BY <1>1, <1>2, <1>6, StepIs
<1>8. figures'["load"] \in 0..time /\ OfLast("load")'
    BY <1>1, <1>5, <1>7 DEF OfLast, Empty
<1>9. GaugeTypes'
    BY <1>1, <1>2, <1>4, <1>6, <1>7, <1>8, TypesKeep
<1> QED
    BY <1>1, <1>2, <1>8, <1>9 DEF GaugeInv

\* The identity found first stays.
LEMMA CloudKeeps ==
    ASSUME GaugeInv, ReadingStep, gauge = "cloud"
    PROVE  GaugeInv'
<1> DEFINE c == IF cache.at # 0 THEN cache ELSE [at |-> time, kept |-> [identity |-> Soft("metadata")]]
<1>1. GaugeTypes /\ gauge' = gauge /\ time' = time /\ cache' = Result.cache /\ time \in Nat
    BY StepIs DEF GaugeInv, GaugeTypes
<1>2. /\ Swept(gauge) = {} /\ Kept(gauge) = {"identity"} /\ Direct(gauge) = {} /\ gauge # "connections"
      /\ FiguresOf(gauge) = {"identity"}
    BY FiguresAre DEF Swept, Kept, Direct
<1>3. Result = WithCache([identity |-> c.kept.identity], c)
    BY DEF Result, UpdateCloud, CloudIdentity
<1>4. c.at \in 0..time /\ c.kept["identity"] \in 0..time
    <2>1. Soft("metadata") \in 0..time
        BY <1>1 DEF Soft, Empty
    <2> QED
        BY <1>1, <1>2, <2>1 DEF GaugeTypes
<1> HIDE DEF c
<1>5. Result.ok /\ Result.cache = c /\ "identity" \in DOMAIN Result.new /\ Result.new["identity"] = c.kept["identity"]
    BY <1>3 DEF WithCache
<1>6. figures'["identity"] = c.kept["identity"]
    BY <1>1, <1>2, <1>5, StepIs
<1>7. GaugeTypes'
    BY <1>1, <1>2, <1>4, <1>5, <1>6, TypesKeep
<1> QED
    BY <1>1, <1>2, <1>7 DEF GaugeInv

\* Time goes on and sources come and go; what is shown stays.
LEMMA ElapsesKeeps == ASSUME GaugeInv, Elapses PROVE GaugeInv'
<1>1. /\ gauge' = gauge /\ figures' = figures /\ cache' = cache /\ succeeded' = succeeded /\ lastBad' = lastBad
      /\ condition' \in [SourcesOf(gauge) -> Conditions]
    BY DEF Elapses
<1>2. PICK d \in {1, Gap} : time + d < Forever /\ time' = time + d
    BY DEF Elapses
<1>3. time \in Nat /\ time' \in Nat /\ time <= time' /\ time' \in 1..Forever /\ \A n \in 0..time : n \in 0..time'
    <2>1. time \in 1..Forever /\ d \in Nat /\ Forever \in Nat
        BY TtlIs DEF GaugeInv, GaugeTypes
    <2> QED
        BY <1>2, <2>1
<1>4. /\ figures \in [FiguresOf(gauge) -> 0..time'] /\ lastBad \in [SourcesOf(gauge) -> 0..time']
      /\ cache.at \in 0..time' /\ succeeded \in 0..time'
      /\ cache.at # 0 => \A f \in Kept(gauge) : cache.kept[f] \in 0..time'
    BY <1>3 DEF GaugeInv, GaugeTypes
<1>5. GaugeTypes'
    BY <1>1, <1>3, <1>4 DEF GaugeInv, GaugeTypes
<1> QED
    BY <1>1, <1>5 DEF GaugeInv, SweepShown, OfLast, There

\* The inductive invariant of the gauges.
THEOREM GaugeInvariant == ReadingsSpec => []GaugeInv
<1>1. ReadingsInit => GaugeInv
    <2> SUFFICES ASSUME ReadingsInit PROVE GaugeInv
        OBVIOUS
    <2>1. /\ gauge \in Gauges /\ time = 1 /\ succeeded = 0 /\ cache.at = 0
          /\ condition = [s \in SourcesOf(gauge) |-> "fine"]
          /\ figures = [f \in FiguresOf(gauge) |-> Empty] /\ lastBad = [s \in SourcesOf(gauge) |-> 0]
        BY DEF ReadingsInit, Never
    <2>2. GaugeTypes
        <3>1. "fine" \in Conditions /\ 0 \in 0..time /\ Empty \in 0..time /\ time \in 1..Forever
            BY <2>1, TtlIs DEF Conditions, Empty
        <3> QED
            BY <2>1, <3>1 DEF GaugeTypes
    <2>3. \A f \in FiguresOf(gauge) : figures[f] = Empty
        BY <2>1
    <2>4. Swept(gauge) \subseteq FiguresOf(gauge) /\ Direct(gauge) \subseteq FiguresOf(gauge)
        BY FiguresAre DEF Swept, Direct
    <2> QED
        BY <2>1, <2>2, <2>3, <2>4 DEF GaugeInv, SweepShown, OfLast, There
<1>2. GaugeInv /\ [ReadingsNext]_readingsVars => GaugeInv'
    <2> SUFFICES ASSUME GaugeInv, [ReadingsNext]_readingsVars PROVE GaugeInv'
        OBVIOUS
    <2>1. CASE UNCHANGED readingsVars
        BY <2>1 DEF GaugeInv, GaugeTypes, SweepShown, OfLast, There, readingsVars
    <2>2. CASE ReadingStep
        <3>1. gauge \in Gauges
            BY DEF GaugeInv, GaugeTypes
        <3>2. gauge \in Simple \cup {"connections", "power", "smart", "vms", "npu", "cloud"}
            BY <3>1, GaugesAre DEF Simple
        <3> QED
            BY <2>2, <3>2, SimpleKeeps, ConnectionsKeep, PowerKeeps, SmartKeeps, VmsKeeps, NpuKeeps, CloudKeeps
    <2>3. CASE Elapses
        BY <2>3, ElapsesKeeps
    <2> QED
        BY <2>1, <2>2, <2>3 DEF ReadingsNext
<1> QED
    BY <1>1, <1>2, PTL DEF ReadingsSpec

\* Types of what is shown and kept.
THEOREM GaugeTypesHold == ReadingsSpec => []ReadingsTypeOK
<1>1. GaugeInv => ReadingsTypeOK
    BY DEF GaugeInv, GaugeTypes, ReadingsTypeOK
<1> QED
    BY <1>1, GaugeInvariant, PTL

\* No figure is older than its cache's window, or shown once its source was bad at an
\* update, but for those kept by design; and each is shown again when its sources are
\* fine (the update of each plugin).
THEOREM FiguresFreshAlways == ReadingsSpec => []FiguresFresh
<1> DEFINE Within(f) == IF f = "conntrack" THEN 1 ELSE IF gauge = "npu" THEN Forever ELSE Window(gauge, f)
           Shown(f) == figures[f] # Empty => succeeded - figures[f] < Window(gauge, f)
           Again(f) == succeeded # 0 /\ Within(f) < Forever /\ (\A s \in SourcesOf(gauge) : lastBad[s] + Within(f) <= succeeded)
                          => figures[f] # Empty
<1>1. ASSUME GaugeInv, NEW f \in FiguresOf(gauge) PROVE Shown(f) /\ Again(f)
    <2>1. /\ time \in Nat /\ succeeded \in 0..time /\ figures[f] \in 0..time /\ Forever \in Nat /\ time <= Forever
          /\ gauge \in Gauges /\ \A s \in SourcesOf(gauge) : lastBad[s] \in 0..time
        BY <1>1, TtlIs DEF GaugeInv, GaugeTypes
    <2>2. ASSUME Window(gauge, f) = Forever PROVE Shown(f)
        BY <2>1, <2>2 DEF Empty
    <2>3. CASE f \in Direct(gauge)
        <3>1. Window(gauge, f) = 1
            BY <2>1, <2>3, GaugesAre, FiguresAre DEF Direct, Kept, Swept, Window
        <3>2. OfLast(f) /\ (gauge # "npu" => There(f)) /\ f # "conntrack"
            BY <1>1, <2>1, <2>3, GaugesAre, FiguresAre DEF GaugeInv, Direct, Kept, Swept
        <3>3. Shown(f)
            BY <2>1, <3>1, <3>2 DEF OfLast
        <3> QED
            BY <3>1, <3>2, <3>3, <2>1 DEF There
    <2>4. CASE f \in Swept(gauge)
        <3>1. Window(gauge, f) = Ttl(gauge) /\ gauge # "npu" /\ f # "conntrack"
            BY <2>4 DEF Swept, Window, Ttl
        <3>2. SweepShown(f) /\ cache.at \in 0..time /\ Ttl(gauge) \in Nat
            BY <1>1, <2>4, TtlIs DEF GaugeInv, GaugeTypes
        <3>3. Shown(f)
            BY <2>1, <3>1, <3>2 DEF SweepShown, Empty
        <3>4. ASSUME succeeded # 0, figures[f] = Empty PROVE \E s \in SourcesOf(gauge) : ~(lastBad[s] + Ttl(gauge) <= succeeded)
            <4>1. PICK s \in SourcesOf(gauge) : cache.at <= lastBad[s]
                BY <3>2, <3>4 DEF SweepShown
            <4>2. succeeded < cache.at + Ttl(gauge) /\ lastBad[s] \in Nat /\ cache.at \in Nat /\ succeeded \in Nat
                BY <2>1, <3>2, <3>4 DEF SweepShown
            <4>3. ~(lastBad[s] + Ttl(gauge) <= succeeded)
                BY <3>2, <4>1, <4>2
            <4> QED
                BY <4>3
        <3> QED
            BY <3>1, <3>3, <3>4
    <2>5. CASE f \notin Direct(gauge) /\ f \notin Swept(gauge)
        <3>1. <<gauge, f>> \in {<<"connections", "conntrack">>, <<"vms", "version">>, <<"npu", "device">>, <<"cloud", "identity">>}
            BY <2>1, <2>5, GaugesAre, FiguresAre DEF Direct, Kept, Swept
        <3>2. Window(gauge, f) = Forever
            BY <3>1 DEF Window
        <3>3. CASE gauge = "connections"
            <4>1. f = "conntrack" /\ There("conntrack")
                BY <1>1, <3>1, <3>3 DEF GaugeInv
            <4> QED
                BY <2>2, <3>2, <4>1 DEF There
        <3>4. CASE gauge # "connections"
            <4>1. Within(f) = Forever
                BY <3>1, <3>2, <3>4
            <4> QED
                BY <2>1, <2>2, <3>2, <4>1
        <3> QED
            BY <3>3, <3>4
    <2> QED
        BY <2>3, <2>4, <2>5
<1>2. GaugeInv => FiguresFresh
    BY <1>1 DEF FiguresFresh
<1> QED
    BY <1>2, GaugeInvariant, PTL
=============================================================================
