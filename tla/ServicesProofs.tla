-------------------------- MODULE ServicesProofs ---------------------------
(***************************************************************************)
(* Theorems of ActionRunner, CommandLine, SnmpClient and Routes, for any   *)
(* commands and pipes, any words, any table, limits and network, and any   *)
(* plugins and requests.                                                   *)
(*                                                                         *)
(* Alert commands: units of output are moved and never made or dropped, so *)
(* of the last process the sum of what is left, in its pipes and read is   *)
(* what it set out to write (Conserved); and a pipeline starts only when   *)
(* every stage is in order (AllFine), so it is given up half-way only for  *)
(* a program that cannot be spawned.                                       *)
(*                                                                         *)
(* Command line: tokens mean the words they are of (Meant), which holds of *)
(* two sequences of tokens put end to end; every reader of words adds a    *)
(* sequence that means the words it reads.                                 *)
(*                                                                         *)
(* SNMP client: a datagram under the id that is waited for answers what    *)
(* was asked in this tick (ToTheAsker), and the rows of a walk are those   *)
(* of the table so far (WalkSoFar).  What an answer has and how rows grow  *)
(* are recursive functions of the module, so what they return is by        *)
(* induction (ChainOf, InsideIs, RowsAdded).                               *)
(*                                                                         *)
(* Router: every path of the API's list passes the arms before its own     *)
(* (FirstSuffix, FirstRead, FirstEvent, FirstPost), and each arm that may  *)
(* answer for a plugin was asked for it by name (NamesPath).               *)
(*                                                                         *)
(* Together: a behaviour of MCServices is one of each part (PartsKept), so *)
(* what is proved of each part alone, here and in AdmissionProofs, holds   *)
(* of them side by side.                                                   *)
(***************************************************************************)
EXTENDS MCServices, AdmissionProofs, Induction

-----------------------------------------------------------------------------
(* Alert commands.                                                         *)

\* A segment that names a program.
Whole == {seg \in Segment : seg.stages # <<>>}

\* A command made of such.
WholeCommands == {c \in Seq(Whole) : c # <<>>}

\* The stage whose output is read.
LastStage == Stages[Len(Stages)]

\* What the last process has yet to write, has in its pipes and has had read.
Conserved ==
    LET k == kids[Len(Stages)]
    IN /\ k.left.out + k.pipe.out + got.out = LastStage.out
       /\ k.left.err + k.pipe.err + got.err = LastStage.err
       /\ ~k.runs => k.left = Nothing

\* What is still to run names a program in every segment, and a call under way is within
\* the bound.
Bounds ==
    /\ todo \in Seq(WholeCommands) /\ rest \in Seq(Whole)
    /\ call # Never => calls < MaxCalls

\* Between segments nothing of a pipeline is left.
Clean == at \in {"command", "segment", "write"} => kids = <<>>

\* A pipeline that was started had no template error in any stage.
AllFine == at \in {"spawn", "drain", "reap"} => \A i \in 1..Len(Stages) : Stages[i].text = "fine"

\* Nothing the last process wrote is lost, from its start to the redirection.
Kept ==
    /\ at \in {"command", "segment"} => got = Nothing
    /\ at \in {"spawn", "drain", "reap"} =>
          IF Len(kids) < Len(Stages) THEN at = "spawn" /\ got = Nothing ELSE Conserved
    /\ at = "reap" => ~kids[Len(Stages)].runs /\ kids[Len(Stages)].pipe = Nothing
    /\ at = "write" => got = [out |-> LastStage.out, err |-> LastStage.err]

\* The inductive invariant: types, and how far the segment under way has come.
RunnerInv ==
    /\ RunnerTypeOK
    /\ Bounds /\ Clean /\ AllFine /\ Kept
    /\ NoHalfStart /\ WholeOutput

\* A process: whether it runs, what it has yet to write and what is in its pipes.
Kid == [runs : BOOLEAN, left : [out : Nat, err : Nat], pipe : [out : 0..PipeCap, err : 0..PipeCap]]

\* What a process has yet to write.
LeftUnits == [out : Nat, err : Nat]

\* What is in its pipes, no more than they hold.
PipeUnits == [out : 0..PipeCap, err : 0..PipeCap]

\* The bounds are numbers.
LEMMA Caps == PipeCap \in Nat /\ MaxCalls \in Nat
    BY ActionRunnerAssumption

\* Kid, with its two records named.
LEMMA KidIs == Kid = [runs : BOOLEAN, left : LeftUnits, pipe : PipeUnits]
    BY DEF Kid, LeftUnits, PipeUnits

\* The fields of a process have their types.
LEMMA KidFields ==
    ASSUME NEW k \in Kid
    PROVE  k.left \in LeftUnits /\ k.pipe \in PipeUnits /\ k.runs \in BOOLEAN
    BY DEF Kid, LeftUnits, PipeUnits

\* Units that move from what is left to a pipe, or from there to what was read, stay in
\* the sum.
LEMMA Regroup ==
    ASSUME NEW a \in Nat, NEW b \in Nat, NEW c \in Nat, NEW d \in Nat, NEW e \in Nat, NEW t,
           a + b + c = t, d + e = b + c
    PROVE  a + d + e = t
    OBVIOUS

\* One unit goes from what is left to write into the pipe.
LEMMA UnitMoves ==
    ASSUME NEW l \in LeftUnits, NEW p \in PipeUnits, NEW x \in {"out", "err"}, l[x] > 0, p[x] < PipeCap
    PROVE  LET a == [l EXCEPT ![x] = @ - 1]
               b == [p EXCEPT ![x] = @ + 1]
           IN /\ a \in LeftUnits /\ b \in PipeUnits
              /\ a.out + b.out = l.out + p.out /\ a.err + b.err = l.err + p.err
<1> USE Caps
<1>1. CASE x = "out"
    <2>1. l.out \in Nat \ {0} /\ p.out \in 0..PipeCap /\ p.out < PipeCap /\ l.err \in Nat /\ p.err \in 0..PipeCap
        BY <1>1 DEF LeftUnits, PipeUnits
    <2>2. l.out - 1 \in Nat /\ p.out + 1 \in 0..PipeCap /\ (l.out - 1) + (p.out + 1) = l.out + p.out
        BY <2>1
    <2>3. [l EXCEPT !["out"] = @ - 1] \in LeftUnits /\ [l EXCEPT !["out"] = @ - 1].out = l.out - 1
          /\ [l EXCEPT !["out"] = @ - 1].err = l.err
        BY <2>1, <2>2 DEF LeftUnits
    <2>4. [p EXCEPT !["out"] = @ + 1] \in PipeUnits /\ [p EXCEPT !["out"] = @ + 1].out = p.out + 1
          /\ [p EXCEPT !["out"] = @ + 1].err = p.err
        BY <2>1, <2>2 DEF PipeUnits
    <2> QED
        BY <1>1, <2>2, <2>3, <2>4
<1>2. CASE x = "err"
    <2>1. l.err \in Nat \ {0} /\ p.err \in 0..PipeCap /\ p.err < PipeCap /\ l.out \in Nat /\ p.out \in 0..PipeCap
        BY <1>2 DEF LeftUnits, PipeUnits
    <2>2. l.err - 1 \in Nat /\ p.err + 1 \in 0..PipeCap /\ (l.err - 1) + (p.err + 1) = l.err + p.err
        BY <2>1
    <2>3. [l EXCEPT !["err"] = @ - 1] \in LeftUnits /\ [l EXCEPT !["err"] = @ - 1].err = l.err - 1
          /\ [l EXCEPT !["err"] = @ - 1].out = l.out
        BY <2>1, <2>2 DEF LeftUnits
    <2>4. [p EXCEPT !["err"] = @ + 1] \in PipeUnits /\ [p EXCEPT !["err"] = @ + 1].err = p.err + 1
          /\ [p EXCEPT !["err"] = @ + 1].out = p.out
        BY <2>1, <2>2 DEF PipeUnits
    <2> QED
        BY <1>2, <2>2, <2>3, <2>4
<1> QED
    BY <1>1, <1>2

\* One unit is taken out of a pipe.
LEMMA UnitTaken ==
    ASSUME NEW p \in PipeUnits, NEW x \in {"out", "err"}, p[x] > 0
    PROVE  [p EXCEPT ![x] = @ - 1] \in PipeUnits
<1> USE Caps
<1>1. CASE x = "out"
    <2>1. p.out \in 0..PipeCap /\ p.out > 0 /\ p.out - 1 \in 0..PipeCap
        BY <1>1 DEF PipeUnits
    <2>2. [p EXCEPT !["out"] = @ - 1] \in PipeUnits
        BY <2>1 DEF PipeUnits
    <2> QED
        BY <1>1, <2>2
<1>2. CASE x = "err"
    <2>1. p.err \in 0..PipeCap /\ p.err > 0 /\ p.err - 1 \in 0..PipeCap
        BY <1>2 DEF PipeUnits
    <2>2. [p EXCEPT !["err"] = @ - 1] \in PipeUnits
        BY <2>1 DEF PipeUnits
    <2> QED
        BY <1>2, <2>2
<1> QED
    BY <1>1, <1>2

\* The invariant holds before the first call.
LEMMA RunnerStart ==
    ASSUME RunnerInit
    PROVE  RunnerInv
<1> USE Caps DEF RunnerInit, Nothing
<1>1. RunnerTypeOK
    <2>1. status \in [Stats -> Levels \cup {Never}] /\ got \in [out : Nat, err : Nat] /\ calls \in 0..MaxCalls
        OBVIOUS
    <2>2. /\ grace \in BOOLEAN /\ operators \in BOOLEAN /\ call \in Calls \cup {Never}
          /\ strays \in Nat /\ trouble \in BOOLEAN
          /\ at = "command"
        OBVIOUS
    <2>3. todo \in Seq(Seq(Segment)) /\ rest \in Seq(Segment)
          /\ kids \in Seq([runs : BOOLEAN, left : [out : Nat, err : Nat], pipe : [out : 0..PipeCap, err : 0..PipeCap]])
        OBVIOUS
    <2> QED
        BY ONLY <2>1, <2>2, <2>3 DEF RunnerTypeOK
<1>2. Bounds /\ Clean /\ AllFine
    BY DEF Bounds, Clean, AllFine
<1>3. Kept /\ NoHalfStart /\ WholeOutput
    BY DEF Kept, NoHalfStart, WholeOutput
<1> QED
    BY <1>1, <1>2, <1>3 DEF RunnerInv

\* What the pipeline at hand is made of.
LEMMA StagesType ==
    ASSUME RunnerInv, rest # <<>>
    PROVE  /\ segment \in Whole /\ Stages \in Seq(Stage) /\ Len(Stages) \in Nat /\ Len(Stages) > 0
           /\ \A i \in 1..Len(Stages) : Stages[i] \in Stage
<1>1. rest[1] \in Whole
    <2>1. rest \in Seq(Whole)
        BY DEF RunnerInv, Bounds
    <2> QED
        BY <2>1
<1>2. segment = rest[1] /\ Stages = rest[1].stages
    BY DEF segment, Stages
<1>3. rest[1].stages \in Seq(Stage) /\ rest[1].stages # <<>>
    BY <1>1 DEF Whole, Segment
<1> QED
    BY <1>1, <1>2, <1>3

\* What a process is to write to stderr and nobody has read.
Unread(k) == k.left.err + k.pipe.err

\* It is a number.
LEMMA UnreadNat == ASSUME NEW k \in Kid PROVE Unread(k) \in Nat
<1>1. k.left.err \in Nat /\ k.pipe.err \in Nat
    BY KidFields, Caps DEF LeftUnits, PipeUnits
<1> QED
    BY <1>1 DEF Unread

\* Whatever a process does, what the last one of the pipeline wrote stays in its
\* pipes, one that has ended stays as it is, and nobody has more to write to stderr.
LEMMA KidsMove ==
    ASSUME kids \in Seq(Kid), NEW i \in DOMAIN kids, KidMoves(i)
    PROVE  /\ kids' \in Seq(Kid) /\ Len(kids') = Len(kids)
           /\ \A j \in 1..Len(kids) : Unread(kids'[j]) <= Unread(kids[j])
           /\ LET k == kids[Len(kids)]
                  l == kids'[Len(kids)]
              IN /\ ~k.runs => l = k
                 /\ l.left.out + l.pipe.out = k.left.out + k.pipe.out
                 /\ l.left.err + l.pipe.err = k.left.err + k.pipe.err
                 /\ (~k.runs => k.left = Nothing) => (~l.runs => l.left = Nothing)
<1>1. Len(kids) \in Nat /\ DOMAIN kids = 1..Len(kids) /\ i \in 1..Len(kids) /\ PipeCap \in Nat
    BY ActionRunnerAssumption
<1>2. \A j \in 1..Len(kids) : kids[j] \in Kid
    BY <1>1
<1>3. Len(kids) \in 1..Len(kids)
    BY <1>1

\* One entry changes, to a process of the same kind.
<1>4. ASSUME NEW j \in 1..Len(kids), NEW k \in Kid, kids' = [kids EXCEPT ![j] = k]
      PROVE  /\ kids' \in Seq(Kid) /\ Len(kids') = Len(kids) /\ kids'[j] = k
             /\ \A m \in 1..Len(kids) : m # j => kids'[m] = kids[m]
    <2>1. kids' \in Seq(Kid) /\ Len(kids') = Len(kids)
        BY <1>1, <1>4
    <2> QED
        BY <1>1, <1>4, <2>1
<1>11. ASSUME NEW j \in 1..Len(kids), NEW k \in Kid, kids' = [kids EXCEPT ![j] = k], Unread(k) <= Unread(kids[j])
       PROVE  \A m \in 1..Len(kids) : Unread(kids'[m]) <= Unread(kids[m])
    <2>1. kids'[j] = k /\ \A m \in 1..Len(kids) : m # j => kids'[m] = kids[m]
        BY <1>4, <1>11
    <2>2. \A m \in 1..Len(kids) : Unread(kids[m]) \in Nat
        BY <1>2, UnreadNat
    <2>3. \A m \in 1..Len(kids) : Unread(kids[m]) <= Unread(kids[m])
        BY <2>2
    <2> QED
        BY <1>11, <2>1, <2>3
<1>5. kids[i].runs /\ kids[i] \in Kid
    BY <1>1, <1>2 DEF KidMoves, Put, BrokenPipe, Take, Exit, KidStep
<1>6. ASSUME NEW x \in {"out", "err"}, Put(i, x)
      PROVE  /\ kids' \in Seq(Kid) /\ Len(kids') = Len(kids)
             /\ kids'[Len(kids)].runs = kids[Len(kids)].runs
             /\ \A m \in 1..Len(kids) : Unread(kids'[m]) <= Unread(kids[m])
             /\ ~kids[Len(kids)].runs => kids'[Len(kids)] = kids[Len(kids)]
             /\ LET k == kids[Len(kids)]
                    l == kids'[Len(kids)]
                IN /\ l.left.out + l.pipe.out = k.left.out + k.pipe.out
                   /\ l.left.err + l.pipe.err = k.left.err + k.pipe.err
    <2> DEFINE l == [kids[i].left EXCEPT ![x] = @ - 1]
               p == [kids[i].pipe EXCEPT ![x] = @ + 1]
               k == [kids[i] EXCEPT !.left = l, !.pipe = p]
    <2>1. kids[i].left[x] > 0 /\ kids[i].pipe[x] < PipeCap
        BY <1>6 DEF Put, RoomFor
    <2>2. kids[i].left \in LeftUnits /\ kids[i].pipe \in PipeUnits
        BY <1>5, KidFields
    <2>3. /\ l \in LeftUnits /\ p \in PipeUnits
          /\ l.out + p.out = kids[i].left.out + kids[i].pipe.out
          /\ l.err + p.err = kids[i].left.err + kids[i].pipe.err
        BY <2>1, <2>2, UnitMoves
    <2>4. kids' = [kids EXCEPT ![i].left[x] = @ - 1, ![i].pipe[x] = @ + 1]
        BY <1>6 DEF Put, KidStep
    <2>5. kids' = [kids EXCEPT ![i] = k]
        BY <2>4
    <2> HIDE DEF l, p
    <2>6. k \in Kid /\ k.left = l /\ k.pipe = p /\ k.runs = kids[i].runs
        <3>1. kids[i] \in [runs : BOOLEAN, left : LeftUnits, pipe : PipeUnits]
            BY <1>5, KidIs
        <3>2. /\ k \in [runs : BOOLEAN, left : LeftUnits, pipe : PipeUnits]
              /\ k.left = l /\ k.pipe = p /\ k.runs = kids[i].runs
            BY <2>3, <3>1
        <3> QED
            BY <3>2, KidIs
    <2> HIDE DEF k
    <2>7. /\ kids' \in Seq(Kid) /\ Len(kids') = Len(kids) /\ kids'[i] = k
          /\ \A m \in 1..Len(kids) : m # i => kids'[m] = kids[m]
        BY <1>1, <1>4, <2>5, <2>6
    <2>10. \A m \in 1..Len(kids) : Unread(kids'[m]) <= Unread(kids[m])
        <3>1. Unread(k) = Unread(kids[i]) /\ Unread(kids[i]) \in Nat
            BY <1>5, <2>3, <2>6, UnreadNat DEF Unread
        <3>2. Unread(k) <= Unread(kids[i])
            BY ONLY <3>1
        <3> QED
            BY <1>1, <1>11, <2>5, <2>6, <3>2
    <2>8. CASE i = Len(kids)
        BY <1>5, <2>3, <2>6, <2>7, <2>8, <2>10
    <2>9. CASE i # Len(kids)
        BY <1>3, <2>7, <2>9, <2>10
    <2> QED
        BY <2>8, <2>9
<1>8. CASE BrokenPipe(i)
    <2> DEFINE k == [kids[i] EXCEPT !.runs = FALSE, !.left = Nothing]
    <2>1. Nothing \in LeftUnits
        BY DEF Nothing, LeftUnits
    <2>2. k \in [runs : BOOLEAN, left : LeftUnits, pipe : PipeUnits]
        <3>1. kids[i] \in [runs : BOOLEAN, left : LeftUnits, pipe : PipeUnits]
            BY <1>5 DEF Kid, LeftUnits, PipeUnits
        <3> QED
            BY <2>1, <3>1
    <2>3. kids' = [kids EXCEPT ![i] = k]
        BY <1>8 DEF BrokenPipe, KidStep
    <2>4. i # Len(kids)
        BY <1>1, <1>8 DEF BrokenPipe, Severed, ReaderGone, Final
    <2>7. k.left.err = 0 /\ k.pipe = kids[i].pipe
        BY <1>5 DEF Nothing, Kid
    <2> HIDE DEF k
    <2>5. k \in Kid
        BY <2>2 DEF Kid, LeftUnits, PipeUnits
    <2>8. \A m \in 1..Len(kids) : Unread(kids'[m]) <= Unread(kids[m])
        <3>1. kids[i].left.err \in Nat /\ kids[i].pipe.err \in Nat
            BY <1>5, KidFields, Caps DEF LeftUnits, PipeUnits
        <3>2. Unread(k) <= Unread(kids[i])
            BY <2>7, <3>1 DEF Unread
        <3> QED
            BY <1>1, <1>11, <2>3, <2>5, <3>2
    <2>6. kids' \in Seq(Kid) /\ Len(kids') = Len(kids) /\ kids'[Len(kids)] = kids[Len(kids)]
        BY <1>1, <1>3, <1>4, <2>3, <2>4, <2>5
    <2> QED
        BY <2>6, <2>8
<1>9. CASE Take(i)
    <2> DEFINE p == [kids[i - 1].pipe EXCEPT !["out"] = @ - 1]
               k == [kids[i - 1] EXCEPT !.left = kids[i - 1].left, !.pipe = p]
    <2>1. i - 1 \in 1..Len(kids) /\ i - 1 # Len(kids) /\ kids[i - 1] \in Kid
        BY <1>1, <1>2, <1>9 DEF Take, HasInput
    <2>2. kids[i - 1].left \in LeftUnits /\ kids[i - 1].pipe \in PipeUnits
        BY <2>1, KidFields
    <2>3. kids[i - 1].pipe["out"] > 0
        BY <1>9, <2>2 DEF Take, HasInput, PipeUnits
    <2>4. p \in PipeUnits
        BY <2>2, <2>3, UnitTaken
    <2>5. kids' = [kids EXCEPT ![i - 1] = k]
        <3>1. kids' = [kids EXCEPT ![i - 1].pipe.out = @ - 1]
            BY <1>9 DEF Take, KidStep
        <3>2. k = [kids[i - 1] EXCEPT !.pipe = [kids[i - 1].pipe EXCEPT !.out = @ - 1]]
            BY <2>1 DEF Kid
        <3> QED
            BY <3>1, <3>2
    <2>6. k \in Kid
        <3>1. kids[i - 1] \in [runs : BOOLEAN, left : LeftUnits, pipe : PipeUnits]
            BY <2>1, KidIs
        <3> HIDE DEF p
        <3>2. k \in [runs : BOOLEAN, left : LeftUnits, pipe : PipeUnits]
            BY <2>2, <2>4, <3>1
        <3> QED
            BY <3>2, KidIs
    <2>8. k.left = kids[i - 1].left /\ k.pipe.err = kids[i - 1].pipe.err
        <3>1. kids[i - 1] \in [runs : BOOLEAN, left : LeftUnits, pipe : PipeUnits]
            BY <2>1, KidIs
        <3>2. k.left = kids[i - 1].left /\ k.pipe = p
            BY <3>1
        <3>3. p.err = kids[i - 1].pipe.err
            BY <2>2 DEF PipeUnits
        <3> QED
            BY <3>2, <3>3
    <2> HIDE DEF k
    <2>7. kids' \in Seq(Kid) /\ Len(kids') = Len(kids) /\ kids'[Len(kids)] = kids[Len(kids)]
        BY <1>1, <1>3, <1>4, <2>1, <2>5, <2>6
    <2>9. \A m \in 1..Len(kids) : Unread(kids'[m]) <= Unread(kids[m])
        <3>1. Unread(k) = Unread(kids[i - 1]) /\ Unread(kids[i - 1]) \in Nat
            BY <2>1, <2>8, UnreadNat DEF Unread
        <3>2. Unread(k) <= Unread(kids[i - 1])
            BY ONLY <3>1
        <3> QED
            BY <1>11, <2>1, <2>5, <2>6, <3>2
    <2> QED
        BY <2>7, <2>9
<1>10. CASE Exit(i)
    <2> DEFINE k == [kids[i] EXCEPT !.runs = FALSE]
    <2>1. k \in Kid /\ k.left = Nothing /\ k.left = kids[i].left /\ k.pipe = kids[i].pipe
        BY <1>5, <1>10 DEF Kid, Exit, Finished
    <2>2. kids' = [kids EXCEPT ![i] = k]
        BY <1>10 DEF Exit, KidStep
    <2> HIDE DEF k
    <2>3. /\ kids' \in Seq(Kid) /\ Len(kids') = Len(kids) /\ kids'[i] = k
          /\ \A m \in 1..Len(kids) : m # i => kids'[m] = kids[m]
        BY <1>1, <1>4, <2>1, <2>2
    <2>6. \A m \in 1..Len(kids) : Unread(kids'[m]) <= Unread(kids[m])
        <3>1. Unread(k) = Unread(kids[i]) /\ Unread(kids[i]) \in Nat
            BY <1>5, <2>1, UnreadNat DEF Unread
        <3>2. Unread(k) <= Unread(kids[i])
            BY ONLY <3>1
        <3> QED
            BY <1>1, <1>11, <2>1, <2>2, <3>2
    <2>4. CASE i = Len(kids)
        BY <1>5, <2>1, <2>3, <2>4, <2>6
    <2>5. CASE i # Len(kids)
        BY <1>3, <2>3, <2>5, <2>6
    <2> QED
        BY <2>4, <2>5
<1> QED
    BY <1>6, <1>8, <1>9, <1>10 DEF KidMoves

\* With operators disabled a command is one segment that names a program.
LEMMA OneProcessType ==
    ASSUME NEW c \in WholeCommands
    PROVE  OneProcess(c) \in Seq(Whole)
<1> DEFINE seqs == [i \in DOMAIN c |-> c[i].stages]
           all == FlattenSeq(seqs)
<1>1. c \in Seq(Whole) /\ DOMAIN c = 1..Len(c) /\ Len(c) \in Nat /\ Len(c) > 0
    BY DEF WholeCommands
<1>2. \A i \in 1..Len(c) : c[i].stages \in Seq(Stage) /\ c[i].stages # <<>>
    <2>1. \A i \in 1..Len(c) : c[i] \in Whole
        BY <1>1
    <2> QED
        BY <2>1 DEF Whole, Segment
<1>3. seqs \in Seq(Seq(Stage)) /\ Len(seqs) = Len(c) /\ seqs[1] # <<>>
    BY <1>1, <1>2
<1> HIDE DEF seqs
<1>4. all \in Seq(Stage) /\ all # <<>>
    BY <1>1, <1>3, FlattenType
<1> DEFINE bad == \E i \in DOMAIN all : all[i].text = "bad"
           only == [Head(all) EXCEPT !.text = IF bad THEN "bad" ELSE @]
<1>5. OneProcess(c) = << [stages |-> << only >>, to |-> "none"] >>
    BY DEF OneProcess, seqs
<1> HIDE DEF all
<1>6. Head(all) \in Stage
    BY <1>4
<1> HIDE DEF bad
<1>7. only \in Stage
    BY <1>6 DEF Stage
<1> HIDE DEF only
<1>8. [stages |-> << only >>, to |-> "none"] \in Whole
    BY <1>7 DEF Whole, Segment, Redirects
<1> QED
    BY <1>5, <1>8

\* Grace, operators, status and calls are no part of a pipeline.
LEMMA PipelineSame ==
    ASSUME RunnerInv, UNCHANGED <<todo, rest, at, kids, got, outcome>>
    PROVE  Clean' /\ AllFine' /\ Kept' /\ NoHalfStart' /\ WholeOutput'
<1> USE DEF outcome, RunnerInv
<1>1. Stages' = Stages /\ LastStage' = LastStage
    BY DEF Stages, LastStage
<1>2. Clean' /\ AllFine' /\ NoHalfStart' /\ WholeOutput'
    BY <1>1 DEF Clean, AllFine, NoHalfStart, WholeOutput
<1>3. Conserved' <=> Conserved
    BY <1>1 DEF Conserved
<1>4. Kept'
    BY <1>1, <1>3 DEF Kept
<1> QED
    BY <1>2, <1>4

\* A sequence is over every set that holds its entries.
LEMMA SeqOver ==
    ASSUME NEW A, NEW B, NEW s \in Seq(A), \A i \in 1..Len(s) : s[i] \in B
    PROVE  s \in Seq(B)
    OBVIOUS

\* A call begins: its commands name programs.
LEMMA TriggerKeeps ==
    ASSUME RunnerInv, NEW c \in Calls, Trigger(c)
    PROVE  RunnerInv'
<1> USE DEF Trigger, memory, outcome
<1>1. todo' \in Seq(WholeCommands)
    <2>1. /\ c.commands \in Seq(Seq(Segment))
          /\ \A command \in ToSet(c.commands) :
                command # <<>> /\ \A seg \in ToSet(command) : seg.stages # <<>>
        BY ActionRunnerAssumption
    <2>2. ASSUME NEW i \in 1..Len(c.commands) PROVE c.commands[i] \in WholeCommands
        <3>1. c.commands[i] \in Seq(Segment) /\ c.commands[i] \in ToSet(c.commands)
            BY <2>1 DEF ToSet
        <3>2. c.commands[i] # <<>> /\ \A seg \in ToSet(c.commands[i]) : seg.stages # <<>>
            BY <2>1, <3>1
        <3>3. \A j \in 1..Len(c.commands[i]) : c.commands[i][j] \in Whole
            BY <3>1, <3>2 DEF ToSet, Whole
        <3> QED
            BY <3>1, <3>2, <3>3 DEF WholeCommands
    <2>3. c.commands \in Seq(WholeCommands)
        BY <2>1, <2>2, SeqOver
    <2> QED
        BY <2>3
<1>2. Bounds'
    BY <1>1 DEF RunnerInv, Bounds
<1>3. RunnerTypeOK'
    <2>1. todo' \in Seq(Seq(Segment))
        BY ActionRunnerAssumption
    <2>2. Stages' = Stages
        BY DEF Stages
    <2> QED
        BY <2>1, <2>2 DEF RunnerInv, RunnerTypeOK
<1>4. Clean' /\ AllFine' /\ Kept' /\ NoHalfStart' /\ WholeOutput'
    <2>1. Stages' = Stages /\ LastStage' = LastStage
        BY DEF Stages, LastStage
    <2>2. Clean' /\ AllFine' /\ NoHalfStart' /\ WholeOutput'
        BY <2>1 DEF RunnerInv, Clean, AllFine, NoHalfStart, WholeOutput
    <2>3. Conserved' <=> Conserved
        BY <2>1 DEF Conserved
    <2> QED
        BY <2>1, <2>2, <2>3 DEF RunnerInv, Kept
<1> QED
    BY <1>2, <1>3, <1>4 DEF RunnerInv

\* The grace, the switch and the recording of a level.
LEMMA SettingsKeep ==
    ASSUME RunnerInv, DisableOperators \/ GraceEnds \/ Record
    PROVE  RunnerInv'
<1> USE DEF DisableOperators, GraceEnds, Record, plan, outcome
<1>1. UNCHANGED <<todo, rest, at, kids, got, outcome>>
    OBVIOUS
<1>2. Stages' = Stages
    BY <1>1 DEF Stages
<1>3. CASE Record
    <2>1. call \in Calls /\ calls < MaxCalls /\ calls \in Nat /\ calls' = calls + 1 /\ call' = Never
        BY <1>3, Caps DEF RunnerInv, RunnerTypeOK, Bounds
    <2>2. call.stat \in Stats /\ call.level \in Levels
        BY <2>1, ActionRunnerAssumption
    <2>3. status' \in [Stats -> Levels \cup {Never}]
        BY <1>3, <2>2 DEF RunnerInv, RunnerTypeOK
    <2>4. calls' \in 0..MaxCalls
        BY <2>1, Caps
    <2>5. RunnerTypeOK'
        BY <1>2, <1>3, <2>3, <2>4 DEF RunnerInv, RunnerTypeOK
    <2>6. Bounds'
        BY <1>3, <2>1 DEF RunnerInv, Bounds
    <2> QED
        BY <1>1, <2>5, <2>6, PipelineSame DEF RunnerInv
<1>4. CASE DisableOperators \/ GraceEnds
    <2>1. RunnerTypeOK' /\ Bounds'
        BY <1>2, <1>4 DEF RunnerInv, RunnerTypeOK, Bounds
    <2> QED
        BY <1>1, <2>1, PipelineSame DEF RunnerInv
<1> QED
    BY <1>3, <1>4

\* The next command of a call begins.
LEMMA NextCommandKeeps ==
    ASSUME RunnerInv, NextCommand
    PROVE  RunnerInv'
<1> USE DEF NextCommand, memory, outcome
<1>1. todo \in Seq(WholeCommands) /\ todo # <<>>
    BY DEF RunnerInv, Bounds
<1>2. Head(todo) \in WholeCommands /\ todo' \in Seq(WholeCommands)
    BY <1>1
<1>3. rest' \in Seq(Whole)
    <2>1. Head(todo) \in Seq(Whole)
        BY <1>2 DEF WholeCommands
    <2>2. OneProcess(Head(todo)) \in Seq(Whole)
        BY <1>2, OneProcessType
    <2>3. rest' = Head(todo) \/ rest' = OneProcess(Head(todo))
        OBVIOUS
    <2> QED
        BY ONLY <2>1, <2>2, <2>3
<1>4. Bounds'
    BY <1>2, <1>3 DEF RunnerInv, Bounds
<1>5. RunnerTypeOK'
    <2>1. rest' \in Seq(Segment)
        BY <1>3 DEF Whole
    <2>2. todo' \in Seq(Seq(Segment))
        BY <1>1 DEF RunnerInv, RunnerTypeOK
    <2> QED
        BY <2>1, <2>2 DEF RunnerInv, RunnerTypeOK
<1>6. Clean' /\ AllFine' /\ Kept' /\ NoHalfStart' /\ WholeOutput'
    BY DEF RunnerInv, Clean, AllFine, Kept, NoHalfStart, WholeOutput
<1> QED
    BY <1>4, <1>5, <1>6 DEF RunnerInv

\* A command that is given up with no process running leaves none behind.
LEMMA AbandonKeeps ==
    ASSUME RunnerInv, Abandon, kids = <<>> \/ trouble', UNCHANGED <<memory, call, todo>>,
           trouble \in BOOLEAN, trouble' \in BOOLEAN, trouble => trouble', WholeOutput'
    PROVE  RunnerInv'
<1> USE DEF Abandon, memory, Nothing
<1>1. Len(kids) \in Nat /\ strays \in Nat /\ (kids = <<>> => Len(kids) = 0)
    BY DEF RunnerInv, RunnerTypeOK
<1>2. RunnerTypeOK'
    <2>1. got' \in [out : Nat, err : Nat] /\ strays' \in Nat
        BY <1>1
    <2>2. rest' \in Seq(Segment)
          /\ kids' \in Seq([runs : BOOLEAN, left : [out : Nat, err : Nat], pipe : [out : 0..PipeCap, err : 0..PipeCap]])
        OBVIOUS
    <2> HIDE DEF Nothing
    <2> QED
        BY <2>1, <2>2 DEF RunnerInv, RunnerTypeOK
<1>3. Bounds'
    BY DEF RunnerInv, Bounds
<1>4. Clean' /\ AllFine' /\ Kept'
    BY DEF Clean, AllFine, Kept
<1>5. NoHalfStart'
    BY <1>1 DEF RunnerInv, NoHalfStart
<1> QED
    BY <1>2, <1>3, <1>4, <1>5 DEF RunnerInv

\* A segment is refused, or all of its stages are in order.
LEMMA TokenizeKeeps ==
    ASSUME RunnerInv, Tokenize
    PROVE  RunnerInv'
<1>1. at = "segment" /\ rest # <<>> /\ kids = <<>> /\ got = Nothing
    BY DEF Tokenize, RunnerInv, Clean, Kept
<1>2. WholeOutput'
    BY DEF Tokenize, RunnerInv, WholeOutput
<1>3. CASE Refused(segment) /\ Abandon
    BY <1>1, <1>2, <1>3, AbandonKeeps DEF Tokenize, RunnerInv, RunnerTypeOK
<1>4. CASE ~Refused(segment) /\ at' = "spawn" /\ UNCHANGED <<rest, kids, got, strays>>
    <2> USE DEF Tokenize, memory
    <2>1. Stages' = Stages /\ LastStage' = LastStage
        BY <1>4 DEF Stages, LastStage
    <2>2. Len(Stages) \in Nat /\ Len(Stages) > 0 /\ DOMAIN Stages = 1..Len(Stages)
        BY <1>1, StagesType
    <2>3. \A i \in 1..Len(Stages) : Stages[i].text = "fine"
        BY <1>4, <2>2 DEF Refused, segment, Stages
    <2>4. RunnerTypeOK'
        <3>1. Len(kids) = 0
            BY <1>1
        <3>2. rest' # <<>> /\ Len(kids') <= Len(Stages')
            BY <1>1, <1>4, <2>1, <2>2, <3>1
        <3> QED
            BY <1>4, <3>2 DEF RunnerInv, RunnerTypeOK
    <2>5. Bounds'
        BY <1>4 DEF RunnerInv, Bounds
    <2>6. Clean' /\ AllFine' /\ NoHalfStart'
        BY <1>4, <2>1, <2>3 DEF RunnerInv, Clean, AllFine, NoHalfStart
    <2>7. Kept'
        <3>1. Len(kids') < Len(Stages')
            BY <1>1, <1>4, <2>1, <2>2
        <3> QED
            BY <1>1, <1>4, <3>1 DEF Kept, Nothing
    <2> QED
        BY <1>2, <2>4, <2>5, <2>6, <2>7 DEF RunnerInv
<1> QED
    BY <1>3, <1>4 DEF Tokenize

\* A command has no more segments.
LEMMA SegmentsDoneKeeps ==
    ASSUME RunnerInv, SegmentsDone
    PROVE  RunnerInv'
<1> USE DEF SegmentsDone, memory, plan, outcome
<1>1. RunnerTypeOK'
    BY DEF RunnerInv, RunnerTypeOK
<1>2. Bounds'
    BY DEF RunnerInv, Bounds
<1>3. Clean' /\ AllFine' /\ Kept' /\ NoHalfStart' /\ WholeOutput'
    BY DEF RunnerInv, Clean, AllFine, Kept, NoHalfStart, WholeOutput
<1> QED
    BY <1>1, <1>2, <1>3 DEF RunnerInv

\* A stage is started, with all of its output to come, or cannot be: the one way to leave
\* processes behind.
LEMMA SpawnStageKeeps ==
    ASSUME RunnerInv, SpawnStage
    PROVE  RunnerInv'
<1> DEFINE n == Len(kids)
           s == Stages[n + 1]
           k == [runs |-> TRUE, left |-> [out |-> s.out, err |-> s.err], pipe |-> Nothing]
<1>1. at = "spawn" /\ rest # <<>> /\ n < Len(Stages) /\ kids \in Seq(Kid) /\ n \in Nat
    BY DEF SpawnStage, RunnerInv, RunnerTypeOK, Kid
<1>2. Len(Stages) \in Nat /\ n + 1 \in 1..Len(Stages) /\ s \in Stage
    BY <1>1, StagesType
<1>3. s.text = "fine"
    BY <1>1, <1>2 DEF RunnerInv, AllFine
<1>4. WholeOutput'
    BY DEF SpawnStage, RunnerInv, WholeOutput
<1>5. CASE ~(s.found /\ s.text = "fine") /\ Abandon /\ trouble' = (trouble \/ s.text = "fine")
    <2>1. trouble'
        BY <1>3, <1>5
    <2> QED
        BY <1>4, <1>5, <2>1, AbandonKeeps DEF SpawnStage, RunnerInv, RunnerTypeOK
<1>6. CASE kids' = Append(kids, k) /\ UNCHANGED <<rest, at, got, strays, trouble>>
    <2>1. Stages' = Stages /\ LastStage' = LastStage
        BY <1>6 DEF Stages, LastStage
    <2>2. s.out \in Nat /\ s.err \in Nat
        BY <1>2 DEF Stage
    <2>3. Nothing \in PipeUnits /\ [out |-> s.out, err |-> s.err] \in LeftUnits
        BY <2>2, Caps DEF Nothing, PipeUnits, LeftUnits
    <2>4. k \in [runs : BOOLEAN, left : LeftUnits, pipe : PipeUnits]
        BY <2>3
    <2>5. k.left.out = s.out /\ k.left.err = s.err /\ k.pipe.out = 0 /\ k.pipe.err = 0 /\ k.runs
        BY DEF Nothing
    <2> HIDE DEF k
    <2>6. k \in Kid
        BY <2>4, KidIs
    <2>7. kids' \in Seq(Kid) /\ Len(kids') = n + 1 /\ kids'[n + 1] = k
        BY <1>1, <1>6, <2>6
    <2>8. RunnerTypeOK'
        BY <1>1, <1>2, <1>6, <2>1, <2>7 DEF SpawnStage, memory, RunnerInv, RunnerTypeOK, Kid
    <2>9. Bounds'
        BY <1>6 DEF SpawnStage, memory, RunnerInv, Bounds
    <2>10. Clean' /\ AllFine' /\ NoHalfStart'
        BY <1>1, <1>6, <2>1 DEF RunnerInv, Clean, AllFine, NoHalfStart
    <2>11. got = Nothing
        BY <1>1 DEF RunnerInv, Kept
    <2>12. Kept'
        <3>1. CASE n + 1 < Len(Stages)
            BY <1>1, <1>6, <2>1, <2>7, <2>11, <3>1 DEF Kept, Nothing
        <3>2. CASE ~(n + 1 < Len(Stages))
            <4>1. n + 1 = Len(Stages) /\ s = LastStage
                BY <1>1, <1>2, <3>2 DEF LastStage
            <4>2. got'.out = 0 /\ got'.err = 0
                BY <1>6, <2>11 DEF Nothing
            <4>3. /\ k.left.out + k.pipe.out + got'.out = LastStage.out
                  /\ k.left.err + k.pipe.err + got'.err = LastStage.err
                BY <2>2, <2>5, <4>1, <4>2
            <4>4. kids'[Len(Stages')] = k
                BY <2>1, <2>7, <4>1
            <4>5. Conserved'
                BY <2>1, <2>5, <4>3, <4>4 DEF Conserved
            <4> QED
                BY <1>1, <1>6, <2>1, <2>7, <3>2, <4>1, <4>5 DEF Kept
        <3> QED
            BY <3>1, <3>2
    <2> QED
        BY <1>4, <2>8, <2>9, <2>10, <2>12 DEF RunnerInv
<1> QED
    BY <1>5, <1>6 DEF SpawnStage

\* The last stage runs.
LEMMA SpawnedAllKeeps ==
    ASSUME RunnerInv, SpawnedAll
    PROVE  RunnerInv'
<1> USE DEF SpawnedAll, memory, plan, outcome
<1>1. Stages' = Stages /\ LastStage' = LastStage
    BY DEF Stages, LastStage
<1>2. rest # <<>> /\ Len(Stages) \in Nat
    BY StagesType DEF RunnerInv, RunnerTypeOK
<1>3. RunnerTypeOK'
    BY <1>1 DEF RunnerInv, RunnerTypeOK
<1>4. Bounds'
    BY DEF RunnerInv, Bounds
<1>5. Clean' /\ AllFine' /\ NoHalfStart' /\ WholeOutput'
    BY <1>1 DEF RunnerInv, Clean, AllFine, NoHalfStart, WholeOutput
<1>6. Conserved'
    <2>1. Conserved
        BY <1>2 DEF RunnerInv, Kept
    <2> QED
        BY <1>1, <2>1 DEF Conserved
<1>7. Kept'
    BY <1>1, <1>2, <1>6 DEF Kept
<1> QED
    BY <1>3, <1>4, <1>5, <1>7 DEF RunnerInv

\* A unit of the last process is read.
LEMMA DrainKeeps ==
    ASSUME RunnerInv, NEW x \in {"out", "err"}, Drain(x)
    PROVE  RunnerInv'
<1> DEFINE n == Len(kids)
           p == [kids[n].pipe EXCEPT ![x] = @ - 1]
           k == [kids[n] EXCEPT !.pipe = p]
<1>1. at = "drain" /\ rest # <<>> /\ kids \in Seq(Kid) /\ n \in Nat /\ DOMAIN kids = 1..n
    BY DEF Drain, RunnerInv, RunnerTypeOK, Kid
<1>2. Stages' = Stages /\ LastStage' = LastStage
    BY DEF Drain, plan, Stages, LastStage
<1>3. Len(Stages) \in Nat /\ n = Len(Stages) /\ n > 0 /\ Conserved
    <2>1. Len(Stages) \in Nat /\ Len(Stages) > 0
        BY <1>1, StagesType
    <2>2. n <= Len(Stages) /\ ~(n < Len(Stages)) /\ Conserved
        BY <1>1 DEF RunnerInv, RunnerTypeOK, Kept
    <2> QED
        BY <1>1, <2>1, <2>2
<1>4. n \in 1..n /\ kids[n] \in Kid
    BY <1>1, <1>3
<1>5. kids[n].left \in LeftUnits /\ kids[n].pipe \in PipeUnits /\ kids[n].pipe[x] > 0
    BY <1>4, KidFields DEF Drain, Polled, Final
<1>6. p \in PipeUnits
    BY <1>5, UnitTaken
<1>7. kids' = [kids EXCEPT ![n] = k] /\ got' = [got EXCEPT ![x] = @ + 1]
    <2>1. kids' = [kids EXCEPT ![n].pipe[x] = @ - 1]
        BY DEF Drain, Final
    <2> QED
        BY <2>1 DEF Drain
<1>8. /\ p.out + got'.out = kids[n].pipe.out + got.out
      /\ p.err + got'.err = kids[n].pipe.err + got.err
      /\ got' \in LeftUnits
    <2>1. got \in LeftUnits
        BY DEF RunnerInv, RunnerTypeOK, LeftUnits
    <2>2. CASE x = "out"
        <3>1. kids[n].pipe.out \in 1..PipeCap /\ kids[n].pipe.err \in 0..PipeCap /\ got.out \in Nat /\ got.err \in Nat
            BY <1>5, <2>1, <2>2, Caps DEF LeftUnits, PipeUnits
        <3>2. p.out = kids[n].pipe.out - 1 /\ p.err = kids[n].pipe.err
            BY <1>5, <2>2 DEF PipeUnits
        <3>3. got'.out = got.out + 1 /\ got'.err = got.err /\ got' \in LeftUnits
            BY <1>7, <2>1, <2>2, <3>1 DEF LeftUnits
        <3>4. kids[n].pipe.out \in Nat /\ kids[n].pipe.err \in Nat
            BY <3>1, Caps
        <3> HIDE DEF p
        <3>5. p.out + got'.out = kids[n].pipe.out + got.out
            BY <3>1, <3>2, <3>3, <3>4
        <3>6. p.err + got'.err = kids[n].pipe.err + got.err
            BY <3>1, <3>2, <3>3, <3>4
        <3> QED
            BY <3>3, <3>5, <3>6
    <2>3. CASE x = "err"
        <3>1. kids[n].pipe.err \in 1..PipeCap /\ kids[n].pipe.out \in 0..PipeCap /\ got.out \in Nat /\ got.err \in Nat
            BY <1>5, <2>1, <2>3, Caps DEF LeftUnits, PipeUnits
        <3>2. p.err = kids[n].pipe.err - 1 /\ p.out = kids[n].pipe.out
            BY <1>5, <2>3 DEF PipeUnits
        <3>3. got'.err = got.err + 1 /\ got'.out = got.out /\ got' \in LeftUnits
            BY <1>7, <2>1, <2>3, <3>1 DEF LeftUnits
        <3> HIDE DEF p
        <3> QED
            BY <3>1, <3>2, <3>3, Caps
    <2> QED
        BY <2>2, <2>3
<1> HIDE DEF p
<1>9. k \in Kid /\ k.left = kids[n].left /\ k.pipe = p /\ k.runs = kids[n].runs
    <2>1. kids[n] \in [runs : BOOLEAN, left : LeftUnits, pipe : PipeUnits]
        BY <1>4, KidIs
    <2>2. /\ k \in [runs : BOOLEAN, left : LeftUnits, pipe : PipeUnits]
          /\ k.left = kids[n].left /\ k.pipe = p /\ k.runs = kids[n].runs
        BY <1>6, <2>1
    <2> QED
        BY <2>2, KidIs
<1> HIDE DEF k
<1>10. kids' \in Seq(Kid) /\ Len(kids') = n /\ kids'[n] = k
    BY <1>1, <1>4, <1>7, <1>9
<1>11. RunnerTypeOK'
    BY <1>1, <1>2, <1>3, <1>8, <1>10 DEF Drain, memory, plan, outcome, RunnerInv, RunnerTypeOK, Kid, LeftUnits
<1>12. Bounds'
    BY DEF Drain, memory, plan, RunnerInv, Bounds
<1>13. Clean' /\ AllFine' /\ NoHalfStart' /\ WholeOutput'
    BY <1>1, <1>2 DEF Drain, outcome, RunnerInv, Clean, AllFine, NoHalfStart, WholeOutput
<1>14. Conserved'
    <2>1. /\ kids[n].left.out + kids[n].pipe.out + got.out = LastStage.out
          /\ kids[n].left.err + kids[n].pipe.err + got.err = LastStage.err
        BY <1>3 DEF Conserved
    <2>2. /\ p.out + got'.out = kids[n].pipe.out + got.out
          /\ p.err + got'.err = kids[n].pipe.err + got.err
        BY <1>8
    <2>numbers. /\ kids[n].left.out \in Nat /\ kids[n].left.err \in Nat
                /\ kids[n].pipe.out \in Nat /\ kids[n].pipe.err \in Nat /\ p.out \in Nat /\ p.err \in Nat
                /\ got.out \in Nat /\ got.err \in Nat /\ got'.out \in Nat /\ got'.err \in Nat
        <3>1. kids[n].left.out \in Nat /\ kids[n].left.err \in Nat /\ got'.out \in Nat /\ got'.err \in Nat
            BY <1>5, <1>8 DEF LeftUnits
        <3>2. kids[n].pipe.out \in 0..PipeCap /\ kids[n].pipe.err \in 0..PipeCap
            BY <1>5 DEF PipeUnits
        <3>3. p.out \in 0..PipeCap /\ p.err \in 0..PipeCap
            BY <1>6 DEF PipeUnits
        <3>4. got.out \in Nat /\ got.err \in Nat
            BY DEF RunnerInv, RunnerTypeOK
        <3> QED
            BY <3>1, <3>2, <3>3, <3>4, Caps
    <2>3. /\ kids[n].left.out + p.out + got'.out = LastStage.out
          /\ kids[n].left.err + p.err + got'.err = LastStage.err
        <3>1. ASSUME NEW f \in {"out", "err"} PROVE kids[n].left[f] + p[f] + got'[f] = LastStage[f]
            <4>1. PICK a \in Nat, b \in Nat, c \in Nat, d \in Nat, e \in Nat :
                        a = kids[n].left[f] /\ b = kids[n].pipe[f] /\ c = got[f] /\ d = p[f] /\ e = got'[f]
                BY <2>numbers
            <4>2. a + b + c = LastStage[f]
                BY <2>1, <4>1
            <4>3. d + e = b + c
                BY <2>2, <4>1
            <4>4. a + d + e = a + b + c
                BY <4>3
            <4> QED
                BY <4>1, <4>2, <4>4
        <3> QED
            BY <3>1
    <2>4. kids'[Len(Stages')] = k
        BY <1>2, <1>3, <1>10
    <2> QED
        BY <1>2, <1>3, <1>9, <2>3, <2>4 DEF Conserved
<1>15. Kept'
    <2>1. at' = "drain" /\ ~(Len(kids') < Len(Stages'))
        BY <1>1, <1>2, <1>3, <1>10 DEF Drain
    <2> QED
        BY <1>14, <2>1 DEF Kept
<1> QED
    BY <1>11, <1>12, <1>13, <1>15 DEF RunnerInv

\* Both pipes are at their end: all the last process wrote has been read.
LEMMA FinalEndsKeeps ==
    ASSUME RunnerInv, FinalEnds
    PROVE  RunnerInv'
<1> USE DEF FinalEnds, memory, plan, outcome
<1>1. at = "drain" /\ at' = "reap" /\ kids' = kids /\ got' = got
    OBVIOUS
<1>2. Stages' = Stages /\ LastStage' = LastStage
    BY DEF Stages, LastStage
<1>3. Len(Stages) \in Nat /\ Len(kids) = Len(Stages) /\ Conserved
    <2>1. Len(Stages) \in Nat /\ Len(kids) \in Nat
        BY <1>1, StagesType DEF RunnerInv, RunnerTypeOK
    <2>2. Len(kids) <= Len(Stages) /\ ~(Len(kids) < Len(Stages)) /\ Conserved
        BY <1>1 DEF RunnerInv, RunnerTypeOK, Kept
    <2> QED
        BY <2>1, <2>2
<1>4. RunnerTypeOK'
    BY <1>1, <1>2 DEF RunnerInv, RunnerTypeOK
<1>5. Bounds'
    BY DEF RunnerInv, Bounds
<1>6. Clean' /\ AllFine' /\ NoHalfStart' /\ WholeOutput'
    BY <1>1, <1>2 DEF RunnerInv, Clean, AllFine, NoHalfStart, WholeOutput
<1>7. Conserved'
    BY <1>1, <1>2, <1>3 DEF Conserved
<1>8. ~kids[Len(Stages)].runs /\ kids[Len(Stages)].pipe = Nothing
    BY <1>3 DEF AtEnd, Final
<1>9. Kept'
    BY <1>1, <1>2, <1>3, <1>7, <1>8 DEF Kept
<1> QED
    BY <1>4, <1>5, <1>6, <1>9 DEF RunnerInv

\* All processes have been waited for.
LEMMA ReapAllKeeps ==
    ASSUME RunnerInv, ReapAll
    PROVE  RunnerInv'
<1> USE DEF ReapAll, memory, plan, outcome
<1>1. at = "reap" /\ at' = "write" /\ kids' = <<>> /\ got' = got
    OBVIOUS
<1>2. Stages' = Stages /\ LastStage' = LastStage
    BY DEF Stages, LastStage
<1> DEFINE k == kids[Len(Stages)]
<1>3. Len(Stages) \in Nat /\ k.left = Nothing /\ k.pipe = Nothing /\ Conserved
    <2>1. Len(Stages) \in Nat
        BY <1>1, StagesType DEF RunnerInv, RunnerTypeOK
    <2>2. Conserved /\ ~k.runs /\ k.pipe = Nothing
        BY <1>1 DEF RunnerInv, Kept
    <2> QED
        BY <2>1, <2>2 DEF Conserved
<1>4. got.out \in Nat /\ got.err \in Nat /\ got = [out |-> got.out, err |-> got.err]
    BY DEF RunnerInv, RunnerTypeOK
<1>5. got = [out |-> LastStage.out, err |-> LastStage.err]
    <2>1. k.left.out = 0 /\ k.left.err = 0 /\ k.pipe.out = 0 /\ k.pipe.err = 0
        BY <1>3 DEF Nothing
    <2>2. k.left.out + k.pipe.out + got.out = LastStage.out /\ k.left.err + k.pipe.err + got.err = LastStage.err
        BY <1>3 DEF Conserved
    <2> HIDE DEF k
    <2>3. got.out = LastStage.out /\ got.err = LastStage.err
        BY <1>4, <2>1, <2>2
    <2> QED
        BY <1>4, <2>3
<1>6. RunnerTypeOK'
    <2>1. Len(<<>>) <= Len(Stages)
        BY <1>3
    <2> QED
        BY <1>1, <1>2, <2>1 DEF RunnerInv, RunnerTypeOK
<1>7. Bounds'
    BY DEF RunnerInv, Bounds
<1>8. Clean' /\ AllFine' /\ NoHalfStart' /\ WholeOutput'
    BY <1>1, <1>2 DEF RunnerInv, Clean, AllFine, NoHalfStart, WholeOutput
<1>9. Kept'
    BY <1>1, <1>2, <1>5 DEF Kept
<1> QED
    BY <1>6, <1>7, <1>8, <1>9 DEF RunnerInv

\* What was read is written, and the next segment begins or the command is given up.
LEMMA WriteOutputKeeps ==
    ASSUME RunnerInv, WriteOutput
    PROVE  RunnerInv'
<1>1. at = "write" /\ rest # <<>> /\ kids = <<>>
    BY DEF WriteOutput, RunnerInv, RunnerTypeOK, Clean
<1>2. got = [out |-> LastStage.out, err |-> LastStage.err]
    BY <1>1 DEF RunnerInv, Kept
<1>3. WholeOutput'
    <2>1. Output = IF LastStage.err > 0 THEN LastStage.err ELSE LastStage.out
        BY <1>2 DEF Output
    <2>2. written' = written \/ written' = [units |-> Output, of |-> LastStage]
        BY DEF WriteOutput, LastStage
    <2>3. CASE written' = written
        BY <2>3 DEF RunnerInv, WholeOutput
    <2>4. CASE written' = [units |-> Output, of |-> LastStage]
        <3>1. written'.units = Output /\ written'.of = LastStage
            BY <2>4
        <3> QED
            BY <2>1, <3>1 DEF WholeOutput
    <2> QED
        BY <2>2, <2>3, <2>4
<1>4. CASE segment.to = "unwritable"
    BY <1>1, <1>3, <1>4, AbandonKeeps DEF WriteOutput, RunnerInv, RunnerTypeOK
<1>5. CASE segment.to # "unwritable"
    <2>1. /\ rest' = Tail(rest) /\ at' = "segment" /\ kids' = kids /\ strays' = strays /\ got' = Nothing
          /\ UNCHANGED <<memory, call, todo, trouble>>
        BY <1>5 DEF WriteOutput
    <2>2. rest' \in Seq(Whole) /\ rest' \in Seq(Segment)
        BY <1>1, <2>1 DEF RunnerInv, RunnerTypeOK, Bounds
    <2>3. got' \in [out : Nat, err : Nat]
        BY <2>1 DEF Nothing
    <2>4. RunnerTypeOK'
        BY <2>1, <2>2, <2>3 DEF memory, RunnerInv, RunnerTypeOK
    <2>5. Bounds'
        BY <2>1, <2>2 DEF memory, RunnerInv, Bounds
    <2>6. Clean' /\ AllFine' /\ Kept' /\ NoHalfStart'
        BY <1>1, <2>1 DEF Clean, AllFine, Kept, RunnerInv, NoHalfStart, Nothing
    <2> QED
        BY <1>3, <2>4, <2>5, <2>6 DEF RunnerInv
<1> QED
    BY <1>4, <1>5

\* A process writes, reads, is killed or ends.
LEMMA KidMovesKeeps ==
    ASSUME RunnerInv, NEW i \in DOMAIN kids, KidMoves(i)
    PROVE  RunnerInv'
<1>1. UNCHANGED <<memory, plan, at, got, outcome>>
    BY DEF KidMoves, Put, BrokenPipe, Take, Exit, KidStep
<1>2. kids \in Seq(Kid)
    BY DEF RunnerInv, RunnerTypeOK, Kid
<1> DEFINE k == kids[Len(kids)]
           l == kids'[Len(kids)]
<1>3. /\ kids' \in Seq(Kid) /\ Len(kids') = Len(kids)
      /\ ~k.runs => l = k
      /\ l.left.out + l.pipe.out = k.left.out + k.pipe.out
      /\ l.left.err + l.pipe.err = k.left.err + k.pipe.err
      /\ (~k.runs => k.left = Nothing) => (~l.runs => l.left = Nothing)
    BY <1>2, KidsMove
<1>4. Stages' = Stages /\ LastStage' = LastStage
    BY <1>1 DEF plan, Stages, LastStage
<1>5. kids # <<>> /\ Len(kids) \in Nat /\ Len(kids) > 0
    BY <1>2
<1>6. at \in {"spawn", "drain", "reap"} /\ rest # <<>>
    BY <1>5 DEF RunnerInv, RunnerTypeOK, Clean
<1>7. Len(Stages) \in Nat
    BY <1>6, StagesType
<1>8. RunnerTypeOK'
    BY <1>1, <1>3, <1>4 DEF memory, plan, outcome, RunnerInv, RunnerTypeOK, Kid
<1>9. Bounds'
    BY <1>1 DEF memory, plan, RunnerInv, Bounds
<1>10. Clean' /\ AllFine' /\ NoHalfStart' /\ WholeOutput'
    BY <1>1, <1>4, <1>6 DEF outcome, RunnerInv, Clean, AllFine, NoHalfStart, WholeOutput
<1>11. CASE Len(kids) < Len(Stages)
    <2>1. at = "spawn" /\ got = Nothing
        BY <1>6, <1>11 DEF RunnerInv, Kept
    <2>2. Kept'
        BY <1>1, <1>3, <1>4, <1>11, <2>1 DEF Kept
    <2> QED
        BY <1>8, <1>9, <1>10, <2>2 DEF RunnerInv
<1>12. CASE ~(Len(kids) < Len(Stages))
    <2>1. Len(kids) = Len(Stages) /\ Conserved
        <3>1. Len(kids) <= Len(Stages)
            BY <1>6 DEF RunnerInv, RunnerTypeOK
        <3>2. Conserved
            BY <1>6, <1>12 DEF RunnerInv, Kept
        <3> QED
            BY <1>5, <1>7, <1>12, <3>1, <3>2
    <2>2. k \in Kid /\ l \in Kid
        BY <1>2, <1>3, <1>5
    <2>numbers. /\ k.left.out \in Nat /\ k.left.err \in Nat /\ k.pipe.out \in Nat /\ k.pipe.err \in Nat
                /\ l.left.out \in Nat /\ l.left.err \in Nat /\ l.pipe.out \in Nat /\ l.pipe.err \in Nat
                /\ got.out \in Nat /\ got.err \in Nat
        <3>1. k.left \in LeftUnits /\ l.left \in LeftUnits /\ k.pipe \in PipeUnits /\ l.pipe \in PipeUnits
            BY <2>2, KidFields
        <3>2. got.out \in Nat /\ got.err \in Nat
            BY DEF RunnerInv, RunnerTypeOK
        <3> QED
            BY <3>1, <3>2, Caps DEF LeftUnits, PipeUnits
    <2>3. /\ k.left.out + k.pipe.out + got.out = LastStage.out
          /\ k.left.err + k.pipe.err + got.err = LastStage.err
          /\ ~k.runs => k.left = Nothing
        BY <2>1 DEF Conserved
    <2> HIDE DEF k, l
    <2>4. l.left.out + l.pipe.out + got.out = LastStage.out /\ l.left.err + l.pipe.err + got.err = LastStage.err
        <3>1. /\ k.left.out + k.pipe.out + got.out = LastStage.out
              /\ k.left.err + k.pipe.err + got.err = LastStage.err
            BY <2>3
        <3>2. /\ l.left.out + l.pipe.out = k.left.out + k.pipe.out
              /\ l.left.err + l.pipe.err = k.left.err + k.pipe.err
            BY <1>3
        <3> QED
            BY ONLY <2>numbers, <3>1, <3>2
    <2>5. l = kids'[Len(Stages')] /\ got' = got
        BY <1>1, <1>4, <2>1 DEF l
    <2>6. Conserved'
        BY <1>3, <1>4, <2>3, <2>4, <2>5 DEF Conserved
    <2>7. at = "reap" => ~l.runs /\ l.pipe = Nothing
        <3>1. at = "reap" => ~k.runs /\ k.pipe = Nothing
            BY <2>1 DEF RunnerInv, Kept, k
        <3> QED
            BY <1>3, <3>1
    <2>8. Kept'
        BY <1>1, <1>3, <1>4, <1>6, <1>12, <2>5, <2>6, <2>7 DEF Kept
    <2> QED
        BY <1>8, <1>9, <1>10, <2>8 DEF RunnerInv
<1> QED
    BY <1>11, <1>12

\* Every state of the runner satisfies the invariant, for any commands, any size of a
\* pipe and any number of calls.
THEOREM RunnerInvariant == RunnerSpec => []RunnerInv
<1>1. RunnerInit => RunnerInv
    BY RunnerStart
<1>2. RunnerInv /\ [RunnerNext]_runnerVars => RunnerInv'
    <2> SUFFICES ASSUME RunnerInv, [RunnerNext]_runnerVars PROVE RunnerInv'
        OBVIOUS
    <2>1. CASE DisableOperators \/ GraceEnds \/ Record
        BY <2>1, SettingsKeep
    <2>2. CASE \E c \in Calls : Trigger(c)
        BY <2>2, TriggerKeeps
    <2>3. CASE NextCommand
        BY <2>3, NextCommandKeeps
    <2>4. CASE Tokenize
        BY <2>4, TokenizeKeeps
    <2>5. CASE SegmentsDone
        BY <2>5, SegmentsDoneKeeps
    <2>6. CASE SpawnStage
        BY <2>6, SpawnStageKeeps
    <2>7. CASE SpawnedAll
        BY <2>7, SpawnedAllKeeps
    <2>8. CASE \E stream \in {"out", "err"} : Drain(stream)
        BY <2>8, DrainKeeps
    <2>9. CASE FinalEnds
        BY <2>9, FinalEndsKeeps
    <2>10. CASE ReapAll
        BY <2>10, ReapAllKeeps
    <2>11. CASE WriteOutput
        BY <2>11, WriteOutputKeeps
    <2>12. CASE \E i \in DOMAIN kids : KidMoves(i)
        BY <2>12, KidMovesKeeps
    <2>13. CASE UNCHANGED runnerVars
        <3> USE <2>13 DEF runnerVars
        <3>1. RunnerTypeOK' /\ Bounds'
            BY DEF RunnerInv, RunnerTypeOK, Bounds, Stages
        <3>2. Clean' /\ AllFine' /\ Kept' /\ NoHalfStart' /\ WholeOutput'
            BY PipelineSame DEF outcome
        <3> QED
            BY <3>1, <3>2 DEF RunnerInv
    <2> QED
        BY <2>1, <2>2, <2>3, <2>4, <2>5, <2>6, <2>7, <2>8, <2>9, <2>10, <2>11, <2>12, <2>13
           DEF RunnerNext, ParentMoves
<1> QED
    BY <1>1, <1>2, PTL DEF RunnerSpec

\* Calls, plans, processes and what was read keep their types, and no more processes run
\* than the segment has stages.
THEOREM RunnerTypesHold == RunnerSpec => []RunnerTypeOK
    BY RunnerInvariant, PTL DEF RunnerInv

\* run_pipeline leaves no process behind but where one could not be spawned, and a
\* redirection writes all that the last stage wrote.
THEOREM NothingIsHalfDone == RunnerSpec => []NothingHalfDone
<1>1. RunnerInv => NothingHalfDone
    BY DEF RunnerInv, NothingHalfDone
<1> QED
    BY <1>1, RunnerInvariant, PTL

\* A process has no more to write to stderr than its stage was to write.
ErrWithin ==
    at \in {"spawn", "drain", "reap"} => \A i \in DOMAIN kids : Unread(kids[i]) <= Stages[i].err

\* No step gives a process more to write to stderr.
LEMMA ErrStays ==
    ASSUME RunnerInv, ErrWithin, [RunnerNext]_runnerVars
    PROVE  ErrWithin'
<1>1. kids \in Seq(Kid) /\ Len(kids) \in Nat /\ DOMAIN kids = 1..Len(kids)
    BY DEF RunnerInv, RunnerTypeOK, Kid
<1>2. CASE UNCHANGED <<rest, at, kids>>
    BY <1>2 DEF ErrWithin, Stages
<1>3. CASE DisableOperators \/ GraceEnds \/ Record \/ (\E c \in Calls : Trigger(c))
    BY <1>2, <1>3 DEF DisableOperators, GraceEnds, Record, Trigger, plan
<1>4. CASE at' \in {"command", "segment", "write"}
    BY <1>4 DEF ErrWithin
<1>5. CASE NextCommand \/ SegmentsDone \/ ReapAll \/ WriteOutput
    BY <1>4, <1>5 DEF NextCommand, SegmentsDone, ReapAll, WriteOutput, Abandon
<1>6. CASE Tokenize
    <2>1. kids = <<>>
        BY <1>6 DEF Tokenize, RunnerInv, Clean
    <2>2. at' = "command" \/ kids' = <<>>
        BY <1>6, <2>1 DEF Tokenize, Abandon
    <2> QED
        BY <2>2 DEF ErrWithin
<1>7. CASE SpawnStage
    <2> DEFINE n == Len(kids)
               s == Stages[n + 1]
               k == [runs |-> TRUE, left |-> [out |-> s.out, err |-> s.err], pipe |-> Nothing]
    <2>1. CASE Abandon
        BY <1>4, <2>1 DEF Abandon
    <2>2. CASE kids' = Append(kids, k) /\ UNCHANGED <<rest, at>>
        <3>1. at = "spawn" /\ rest # <<>> /\ n < Len(Stages)
            BY <1>7 DEF SpawnStage, RunnerInv, RunnerTypeOK
        <3>2. s \in Stage
            BY <1>1, <3>1, StagesType
        <3>3. s.err \in Nat
            BY <3>2 DEF Stage
        <3>4. Unread(k) = s.err
            BY <3>3 DEF Unread, Nothing
        <3>5. Stages' = Stages
            BY <2>2 DEF Stages
        <3> HIDE DEF k
        <3>6. DOMAIN kids' = 1..n + 1 /\ kids'[n + 1] = k /\ \A i \in 1..n : kids'[i] = kids[i]
            BY <1>1, <2>2
        <3>7. Unread(kids'[n + 1]) <= s.err
            BY <3>3, <3>4, <3>6
        <3> HIDE DEF n, s
        <3>8. \A i \in 1..n : Unread(kids'[i]) <= Stages[i].err
            BY <1>1, <3>1, <3>6 DEF ErrWithin, n
        <3>9. ASSUME NEW i \in DOMAIN kids' PROVE Unread(kids'[i]) <= Stages[i].err
            <4>1. i \in 1..n \/ i = n + 1
                BY <1>1, <3>6 DEF n
            <4> QED
                BY <3>7, <3>8, <4>1 DEF s
        <3> QED
            BY <3>5, <3>9 DEF ErrWithin
    <2> QED
        BY <1>7, <2>1, <2>2 DEF SpawnStage
<1>8. CASE SpawnedAll \/ FinalEnds
    <2>1. at \in {"spawn", "drain", "reap"} /\ kids' = kids /\ Stages' = Stages
        BY <1>8 DEF SpawnedAll, FinalEnds, plan, Stages
    <2> QED
        BY <2>1 DEF ErrWithin
<1>9. CASE \E x \in {"out", "err"} : Drain(x)
    <2> PICK x \in {"out", "err"} : Drain(x)
        BY <1>9
    <2> DEFINE n == Len(kids)
    <2>1. at = "drain" /\ at' = "drain" /\ rest # <<>> /\ Stages' = Stages /\ LastStage' = LastStage
          /\ kids' = [kids EXCEPT ![n].pipe[x] = @ - 1]
        BY DEF Drain, Final, plan, Stages, LastStage, RunnerInv, RunnerTypeOK
    <2>2. n = Len(Stages) /\ n > 0
        <3>1. Len(Stages) \in Nat /\ Len(Stages) > 0
            BY <2>1, StagesType
        <3>2. n <= Len(Stages) /\ ~(n < Len(Stages))
            BY <2>1 DEF RunnerInv, RunnerTypeOK, Kept
        <3> QED
            BY <1>1, <3>1, <3>2
    <2>3. Len(kids') = n /\ DOMAIN kids' = 1..n /\ \A i \in 1..n : i # n => kids'[i] = kids[i]
        BY <1>1, <2>1
    <2>4. Conserved' /\ kids' \in Seq(Kid) /\ got' \in LeftUnits
        <3>1. RunnerInv'
            BY DrainKeeps
        <3>2. ~(Len(kids') < Len(Stages'))
            BY <1>1, <2>1, <2>2, <2>3
        <3> QED
            BY <2>1, <3>1, <3>2 DEF RunnerInv, Kept, RunnerTypeOK, Kid, LeftUnits
    <2>5. kids'[n] \in Kid
        <3>1. n \in 1..n
            BY <1>1, <2>2
        <3>2. kids' \in Seq(Kid) /\ DOMAIN kids' = 1..n
            BY <2>3, <2>4
        <3> HIDE DEF n
        <3>3. \A s \in Seq(Kid) : \A j \in DOMAIN s : s[j] \in Kid
            OBVIOUS
        <3> QED
            BY <3>1, <3>2, <3>3
    <2>6. kids'[n].left.err + kids'[n].pipe.err + got'.err = LastStage.err
        BY <2>1, <2>2, <2>4 DEF Conserved
    <2>7. Unread(kids'[n]) <= Stages[n].err
        <3>1. Unread(kids'[n]) \in Nat /\ got'.err \in Nat
            BY <2>4, <2>5, UnreadNat DEF LeftUnits
        <3>2. Unread(kids'[n]) + got'.err = Stages[n].err
            BY <2>2, <2>6 DEF Unread, LastStage
        <3> QED
            BY <3>1, <3>2
    <2> HIDE DEF n
    <2>8. ASSUME NEW i \in DOMAIN kids' PROVE Unread(kids'[i]) <= Stages[i].err
        BY <1>1, <2>1, <2>3, <2>7 DEF ErrWithin, n
    <2> QED
        BY <2>1, <2>8 DEF ErrWithin
<1>10. CASE \E i \in DOMAIN kids : KidMoves(i)
    <2> PICK i \in DOMAIN kids : KidMoves(i)
        BY <1>10
    <2>1. at' = at /\ Stages' = Stages
        BY DEF KidMoves, Put, BrokenPipe, Take, Exit, KidStep, plan, Stages
    <2>2. /\ kids' \in Seq(Kid) /\ Len(kids') = Len(kids)
          /\ \A j \in 1..Len(kids) : Unread(kids'[j]) <= Unread(kids[j])
        BY <1>1, KidsMove
    <2>3. at \in {"spawn", "drain", "reap"} /\ rest # <<>> /\ Len(kids) <= Len(Stages)
        <3>1. kids # <<>>
            BY <1>1
        <3> QED
            BY <3>1 DEF RunnerInv, RunnerTypeOK, Clean
    <2>4. ASSUME NEW j \in 1..Len(kids) PROVE Unread(kids'[j]) <= Stages[j].err
        <3>1. Unread(kids'[j]) \in Nat /\ Unread(kids[j]) \in Nat
            BY <1>1, <2>2, UnreadNat
        <3>2. Stages[j].err \in Nat
            BY <1>1, <2>3, StagesType DEF Stage
        <3>3. Unread(kids'[j]) <= Unread(kids[j]) /\ Unread(kids[j]) <= Stages[j].err
            BY <1>1, <2>2, <2>3 DEF ErrWithin
        <3> QED
            BY ONLY <3>1, <3>2, <3>3
    <2> QED
        BY <2>1, <2>2, <2>4 DEF ErrWithin
<1> QED
    BY <1>2, <1>3, <1>5, <1>6, <1>7, <1>8, <1>9, <1>10 DEF RunnerNext, ParentMoves, runnerVars

\* A process waits for the one before it to write or to end.
AwaitsInput(i) ==
    i > 1 /\ kids[i].runs /\ Stages[i].reads /\ kids[i - 1].runs /\ kids[i - 1].pipe.out = 0

\* While the parent waits for a quiet pipeline a process can move: one that cannot, and
\* runs, awaits the one before it, which then cannot be held up by a full pipe.
LEMMA QuietMoves ==
    ASSUME RunnerInv, ErrWithin, rest # <<>> => Quiet(segment), ParentWaits
    PROVE  \E i \in DOMAIN kids : CanMove(i)
<1> SUFFICES ASSUME \A i \in DOMAIN kids : ~CanMove(i) PROVE FALSE
    OBVIOUS
<1> DEFINE n == Len(kids)
<1>1. kids \in Seq(Kid) /\ n \in Nat /\ DOMAIN kids = 1..n /\ PipeCap \in Nat /\ PipeCap > 0
    BY ActionRunnerAssumption DEF RunnerInv, RunnerTypeOK, Kid
<1>2. at \in {"drain", "reap"} /\ rest # <<>>
    BY DEF ParentWaits, RunnerInv, RunnerTypeOK
<1>3. n = Len(Stages) /\ n > 0
    <2>1. Len(Stages) \in Nat /\ Len(Stages) > 0
        BY <1>2, StagesType
    <2>2. n <= Len(Stages) /\ ~(n < Len(Stages))
        BY <1>2 DEF RunnerInv, RunnerTypeOK, Kept
    <2> QED
        BY <1>1, <2>1, <2>2
<1>4. ASSUME NEW i \in 1..n
      PROVE  /\ kids[i].left.out \in Nat /\ kids[i].left.err \in Nat
             /\ kids[i].pipe.out \in 0..PipeCap /\ kids[i].pipe.err \in 0..PipeCap
             /\ kids[i].left.out = 0 /\ kids[i].left.err = 0 => kids[i].left = Nothing
             /\ kids[i].pipe.out = 0 /\ kids[i].pipe.err = 0 => kids[i].pipe = Nothing
    <2>1. kids[i].left \in LeftUnits /\ kids[i].pipe \in PipeUnits
        BY <1>1, KidFields
    <2> QED
        BY <2>1 DEF LeftUnits, PipeUnits, Nothing

\* A process but the last has room on stderr.
<1>5. ASSUME NEW i \in 1..n, i < n, kids[i].runs
      PROVE  kids[i].left.err = 0
    <2>1. Unread(kids[i]) <= Stages[i].err
        BY <1>1, <1>2 DEF ErrWithin
    <2>2. Stages[i].err <= PipeCap /\ Stages[i].err \in Nat
        <3>1. Stages[i].err \in Nat
            BY <1>2, <1>3, StagesType DEF Stage
        <3>2. i \in 1..Len(segment.stages) - 1 /\ segment.stages = Stages
            BY <1>1, <1>3, <1>5 DEF Stages, segment
        <3> QED
            BY <1>2, <3>1, <3>2 DEF Quiet
    <2>3. ~RoomFor(i, "err")
        BY <1>1, <1>5 DEF CanMove
    <2>4. ~(kids[i].left.err > 0 /\ kids[i].pipe.err < PipeCap)
        BY <2>3 DEF RoomFor
    <2> QED
        BY <1>1, <1>4, <2>1, <2>2, <2>4 DEF Unread

\* One that has nothing left to write awaits its input.
<1>6. ASSUME NEW i \in 1..n, kids[i].runs, kids[i].left = Nothing
      PROVE  AwaitsInput(i)
    <2>1. ~Finished(i) /\ ~HasInput(i)
        BY <1>1, <1>6 DEF CanMove
    <2>2. Stages[i].reads /\ i > 1 /\ ~(~kids[i - 1].runs /\ kids[i - 1].pipe.out = 0)
        BY <1>6, <2>1 DEF Finished, InputEnds
    <2>3. i - 1 \in 1..n /\ ~(kids[i - 1].pipe.out > 0)
        BY <1>1, <2>1, <2>2 DEF HasInput
    <2>4. kids[i - 1].pipe.out = 0
        BY <1>1, <1>4, <2>3
    <2> QED
        BY <1>6, <2>2, <2>4 DEF AwaitsInput

\* And so does the one it awaits.
<1>7. ASSUME NEW i \in 1..n, AwaitsInput(i)
      PROVE  i - 1 \in 1..n /\ AwaitsInput(i - 1)
    <2>1. i - 1 \in 1..n /\ i - 1 < n /\ (i - 1) + 1 = i
        BY <1>1, <1>7 DEF AwaitsInput
    <2>2. kids[i - 1].runs /\ kids[i].runs /\ kids[i - 1].pipe.out = 0
        BY <1>7 DEF AwaitsInput
    <2>3. ~RoomFor(i - 1, "out") /\ ~ReaderGone(i - 1)
        BY <1>1, <2>1, <2>2 DEF CanMove, ReaderGone
    <2>4. kids[i - 1].left.out = 0
        BY <1>1, <1>4, <2>1, <2>2, <2>3 DEF RoomFor
    <2>5. kids[i - 1].left = Nothing
        BY <1>4, <1>5, <2>1, <2>2, <2>4
    <2> QED
        BY <1>6, <2>1, <2>2, <2>5

\* The first has none to await.
<1>8. ASSUME NEW i \in 1..n, AwaitsInput(i) PROVE FALSE
    <2> DEFINE T == {j \in Nat : j \in 1..n /\ AwaitsInput(j)}
    <2>1. T # {} /\ T \in SUBSET Nat
        BY <1>1, <1>8
    <2>2. PICK m \in T : \A j \in T : m <= j
        BY <2>1, LeastOf
    <2>3. m - 1 \in T
        BY <1>1, <1>7
    <2> QED
        BY <2>2, <2>3
<1>9. CASE at = "drain"
    <2>1. kids[n].pipe.out = 0 /\ kids[n].pipe.err = 0
        <3>1. ~Polled("out") /\ ~Polled("err")
            BY <1>9 DEF ParentWaits
        <3> QED
            BY <1>1, <1>3, <1>4, <3>1 DEF Polled, Final
    <2>2. kids[n].runs
        <3>1. ~AtEnd(kids[n])
            BY <1>9 DEF ParentWaits, Final
        <3> QED
            BY <1>1, <1>3, <1>4, <2>1, <3>1 DEF AtEnd
    <2>3. ~RoomFor(n, "out") /\ ~RoomFor(n, "err") /\ ~ReaderGone(n)
        BY <1>1, <1>3, <2>2 DEF CanMove, ReaderGone, Final
    <2>4. kids[n].left.out = 0 /\ kids[n].left.err = 0
        BY <1>1, <1>3, <1>4, <2>1, <2>3 DEF RoomFor
    <2> QED
        BY <1>1, <1>3, <1>4, <1>6, <1>8, <2>2, <2>4
<1>10. CASE at = "reap"
    <2> DEFINE T == {i \in 1..n : kids[i].runs}
    <2>1. T # {}
        BY <1>1, <1>10 DEF ParentWaits
    <2>2. T \in SUBSET Nat /\ IsFiniteSet(T)
        <3>1. IsFiniteSet(1..n)
            BY <1>1, FS_Interval
        <3> QED
            BY <1>1, <3>1, FS_Subset
    <2>3. PICK m \in T : \A i \in T : i <= m
        BY <2>1, <2>2, GreatestOf
    <2>4. ~kids[n].runs
        BY <1>3, <1>10 DEF RunnerInv, Kept
    <2>5. m \in 1..n /\ m < n /\ kids[m].runs /\ m + 1 \in 1..n
        BY <1>1, <2>3, <2>4
    <2>6. ~kids[m + 1].runs
        BY <1>1, <2>3, <2>5
    <2>7. ReaderGone(m) /\ ~Severed(m)
        BY <1>1, <2>5, <2>6 DEF CanMove, ReaderGone, Final
    <2>8. kids[m].left.out = 0 /\ kids[m].left.err = 0
        BY <1>1, <1>4, <1>5, <2>5, <2>7 DEF Severed
    <2> QED
        BY <1>4, <1>6, <1>8, <2>5, <2>8
<1> QED
    BY <1>2, <1>9, <1>10

\* run_pipeline never waits in vain for stages that keep within a pipe on stderr, however
\* many they are and whatever they write, read or leave unread.
THEOREM QuietNeverStallsAlways == RunnerSpec => []QuietNeverStalls
<1>1. RunnerInit => ErrWithin
    BY DEF RunnerInit, ErrWithin
<1>2. RunnerInv /\ ErrWithin /\ [RunnerNext]_runnerVars => ErrWithin'
    BY ErrStays
<1>3. RunnerInv /\ ErrWithin => QuietNeverStalls
    BY QuietMoves DEF QuietNeverStalls
<1> QED
    BY <1>1, <1>2, <1>3, RunnerInvariant, PTL DEF RunnerSpec

-----------------------------------------------------------------------------
(* Command line.                                                           *)

\* What the tokens of s, made of the words lo to hi, are like.
Meant(s, lo, hi) ==
    /\ \A i \in DOMAIN s : s[i].of \in lo..hi /\ s[i].uses \subseteq lo..hi
    /\ \A i, j \in DOMAIN s : s[i].of # s[j].of => s[i].uses \cap s[j].uses = {}
    /\ \A i \in DOMAIN s : \A w \in s[i].uses \ {s[i].of} : argv[w].dashes = 0
    /\ \A i \in DOMAIN s : s[i].kind # "positional" => \A w \in 1..s[i].of - 1 : ~EndsOptions(argv[w])
    /\ \A i, j \in DOMAIN s : s[i].of = s[j].of /\ s[i].kind = "valued" => j <= i

\* Tokens of the words before p and of those from p on are together what the words mean.
LEMMA MeantConcat ==
    ASSUME NEW s \in Seq(Tokens), NEW t \in Seq(Tokens), NEW p \in Nat, NEW q \in Nat, p <= q,
           Meant(s, 1, p), Meant(t, p + 1, q)
    PROVE  Meant(s \o t, 1, q)
<1> DEFINE u == s \o t
           m == Len(s)
           n == Len(t)
<1>1. m \in Nat /\ n \in Nat /\ u \in Seq(Tokens) /\ Len(u) = m + n /\ DOMAIN u = 1..m + n
    OBVIOUS
<1>2. DOMAIN s = 1..m /\ DOMAIN t = 1..n
    OBVIOUS
<1>3. \A i \in 1..m : u[i] = s[i] /\ u[i] \in Tokens
    OBVIOUS
<1>4. \A i \in m + 1..m + n : i - m \in 1..n /\ u[i] = t[i - m] /\ u[i] \in Tokens
    OBVIOUS
<1> HIDE DEF u, m, n
<1>5. \A i \in 1..m : u[i].of \in 1..p /\ u[i].uses \subseteq 1..p
    BY <1>2, <1>3 DEF Meant
<1>6. \A i \in m + 1..m + n : u[i].of \in p + 1..q /\ u[i].uses \subseteq p + 1..q
    BY <1>2, <1>4 DEF Meant
<1>7. \A i \in 1..m + n : i \in 1..m \/ i \in m + 1..m + n
    BY <1>1
<1>8. ASSUME NEW i \in 1..m + n PROVE u[i].of \in 1..q /\ u[i].uses \subseteq 1..q
    BY <1>5, <1>6, <1>7
<1>9. ASSUME NEW i \in 1..m + n, NEW j \in 1..m + n, u[i].of # u[j].of
      PROVE  u[i].uses \cap u[j].uses = {}
    <2>1. CASE i \in 1..m /\ j \in 1..m
        BY <1>2, <1>3, <1>9, <2>1 DEF Meant
    <2>2. CASE i \in m + 1..m + n /\ j \in m + 1..m + n
        BY <1>2, <1>4, <1>9, <2>2 DEF Meant
    <2>3. CASE i \in 1..m /\ j \in m + 1..m + n
        BY <1>5, <1>6, <2>3
    <2>4. CASE j \in 1..m /\ i \in m + 1..m + n
        BY <1>5, <1>6, <2>4
    <2> QED
        BY <1>7, <2>1, <2>2, <2>3, <2>4
<1>10. ASSUME NEW i \in 1..m + n
       PROVE  /\ \A w \in u[i].uses \ {u[i].of} : argv[w].dashes = 0
              /\ u[i].kind # "positional" => \A w \in 1..u[i].of - 1 : ~EndsOptions(argv[w])
    <2>1. CASE i \in 1..m
        BY <1>2, <1>3, <2>1 DEF Meant
    <2>2. CASE i \in m + 1..m + n
        BY <1>2, <1>4, <2>2 DEF Meant
    <2> QED
        BY <1>7, <2>1, <2>2
<1>11. ASSUME NEW i \in 1..m + n, NEW j \in 1..m + n, u[i].of = u[j].of, u[i].kind = "valued"
       PROVE  j <= i
    <2>1. CASE i \in 1..m /\ j \in 1..m
        BY <1>2, <1>3, <1>11, <2>1 DEF Meant
    <2>2. CASE i \in m + 1..m + n /\ j \in m + 1..m + n
        <3>1. j - m <= i - m
            BY <1>2, <1>4, <1>11, <2>2 DEF Meant
        <3> QED
            BY <1>1, <2>2, <3>1
    <2>3. CASE i \in m + 1..m + n /\ j \in 1..m
        BY <1>1, <2>3
    <2>4. CASE i \in 1..m /\ j \in m + 1..m + n
        <3>1. u[i].of \in 1..p /\ u[j].of \in p + 1..q
            BY <1>5, <1>6, <2>4
        <3> QED
            BY <1>11, <3>1
    <2> QED
        BY <1>7, <2>1, <2>2, <2>3, <2>4
<1> QED
    BY <1>1, <1>8, <1>9, <1>10, <1>11 DEF Meant, u

\* Flags of one cluster, and one token more of the same word.
LEMMA MeantFlags ==
    ASSUME NEW p \in Nat, NEW q \in Nat, p < q, NEW n \in Nat, NEW s \in Seq(Tokens), Len(s) = n,
           \A i \in 1..n : s[i].of = p + 1 /\ s[i].uses = {p + 1} /\ s[i].kind = "flag",
           \A w \in 1..p : ~EndsOptions(argv[w])
    PROVE  Meant(s, p + 1, q)
<1>1. DOMAIN s = 1..n /\ p + 1 \in p + 1..q /\ (p + 1) - 1 = p
    OBVIOUS
<1> QED
    BY <1>1 DEF Meant

\* The flags of a cluster all stand for the one word.
LEMMA MeantLast ==
    ASSUME NEW p \in Nat, NEW q \in Nat, p < q, NEW n \in Nat, NEW s \in Seq(Tokens), Len(s) = n,
           \A i \in 1..n : s[i].of = p + 1 /\ s[i].uses = {p + 1} /\ s[i].kind = "flag",
           \A w \in 1..p : ~EndsOptions(argv[w]),
           NEW t \in Tokens, t.of = p + 1, t.uses \subseteq p + 1..q,
           \A w \in t.uses \ {p + 1} : argv[w].dashes = 0
    PROVE  Append(s, t) \in Seq(Tokens) /\ Meant(Append(s, t), p + 1, q)
<1> DEFINE u == Append(s, t)
<1>1. u \in Seq(Tokens) /\ DOMAIN u = 1..n + 1 /\ u[n + 1] = t /\ \A i \in 1..n : u[i] = s[i]
    OBVIOUS
<1>2. p + 1 \in p + 1..q /\ (p + 1) - 1 = p
    OBVIOUS
<1>3. \A i \in 1..n + 1 : i \in 1..n \/ i = n + 1
    OBVIOUS
<1> HIDE DEF u
<1>4. \A i \in 1..n + 1 : u[i].of = p + 1
    BY <1>1, <1>3
<1>5. \A i \in 1..n + 1 : u[i].uses \subseteq p + 1..q /\ \A w \in u[i].uses \ {p + 1} : argv[w].dashes = 0
    BY <1>1, <1>2, <1>3
<1>6. \A i, j \in 1..n + 1 : u[i].kind = "valued" => j <= i
    <2> SUFFICES ASSUME NEW i \in 1..n + 1, NEW j \in 1..n + 1, u[i].kind = "valued" PROVE j <= i
        OBVIOUS
    <2>1. i = n + 1
        BY <1>1, <1>3
    <2> QED
        BY <2>1
<1>7. Meant(u, p + 1, q)
    BY <1>1, <1>2, <1>4, <1>5, <1>6 DEF Meant
<1> QED
    BY <1>1, <1>7 DEF u

\* One token of one word.
LEMMA MeantOne ==
    ASSUME NEW p \in Nat, NEW q \in Nat, p < q, NEW t \in Tokens, t.of = p + 1, t.uses \subseteq p + 1..q,
           \A w \in 1..p : ~EndsOptions(argv[w]),
           \A w \in t.uses \ {p + 1} : argv[w].dashes = 0
    PROVE  <<t>> \in Seq(Tokens) /\ Meant(<<t>>, p + 1, q)
<1>1. p + 1 \in p + 1..q /\ (p + 1) - 1 = p
    OBVIOUS
<1> QED
    BY <1>1 DEF Meant

\* The words after "--", each of its own.
LEMMA MeantAfter ==
    ASSUME NEW p \in Nat, NEW q \in Nat, p < q, NEW s \in Seq(Tokens), NEW n \in Nat, Len(s) = n, p + 1 + n = q,
           \A i \in 1..n : s[i].of = p + 1 + i /\ s[i].uses = {p + 1 + i} /\ s[i].kind = "positional"
    PROVE  Meant(s, p + 1, q)
<1>1. DOMAIN s = 1..n
    OBVIOUS
<1>2. \A i \in 1..n : p + 1 + i \in p + 1..q
    OBVIOUS
<1>3. \A i, j \in 1..n : p + 1 + i = p + 1 + j => i = j
    OBVIOUS
<1> QED
    BY <1>1, <1>2, <1>3 DEF Meant

\* The inductive invariant: the tokens so far are what the words so far mean, and no word
\* but the last of them ended the options.
LineInv ==
    /\ LineTypeOK
    /\ step = "shell" => pos = 0 /\ tokens = <<>>
    /\ step = "parse" =>
          /\ Meant(tokens, 1, pos)
          /\ pos < Len(argv) => \A w \in 1..pos : ~EndsOptions(argv[w])
    /\ plugins # {} => step = "done" /\ plugins = Registered(args.hides, args.disabled, args.enabled)

\* The invariant holds before the shell gives the words.
LEMMA LineStart == LineInit => LineInv
<1> SUFFICES ASSUME LineInit PROVE LineInv
    OBVIOUS
<1>1. argv \in Seq(Words) /\ Len(argv) = 0 /\ tokens \in Seq(Tokens) /\ MaxWords \in Nat
    BY LineAssumption DEF LineInit
<1>2. "2" \in Finite
    BY DEF Finite
<1>3. args = Defaults /\ pos = 0 /\ step = "shell" /\ plugins = {} /\ tokens = <<>>
    BY DEF LineInit
<1>4. args \in Args
    <2>sets. {} \in SUBSET {"--username", "--password"} /\ {} \in SUBSET Subsets /\ {} \in SUBSET Values
             /\ {} \in SUBSET (Values \cup {"irq"})
        BY Zenon
    <2> QED
        BY <1>2, <1>3, <2>sets DEF Defaults, Args, Modes
<1>5. LineTypeOK
    BY <1>1, <1>3, <1>4 DEF LineTypeOK
<1> QED
    BY <1>3, <1>5 DEF LineInv

\* The word read next is a word, and its parts are what words are made of.
LEMMA WordIs ==
    ASSUME LineInv, pos < Len(argv)
    PROVE  /\ pos \in Nat /\ Len(argv) \in Nat /\ pos + 1 \in 1..Len(argv)
           /\ word \in Words /\ word.dashes \in 0..2 /\ word.name \in STRING
           /\ word.letters \in Seq(STRING) /\ word.rest \in Values /\ word.value \in Values /\ word.name \in Values
<1>1. argv \in Seq(Words) /\ pos \in 0..Len(argv) /\ Len(argv) \in Nat
    BY DEF LineInv, LineTypeOK
<1>2. pos \in Nat /\ pos + 1 \in 1..Len(argv)
    BY <1>1
<1>3. word \in Words
    BY <1>1, <1>2 DEF word
<1>4. word \in [dashes : 0..2, name : STRING, letters : Seq(STRING), rest : STRING, value : STRING \cup {Absent}]
    BY <1>3, LineAssumption
<1>5. word.rest \in Values /\ word.value \in Values /\ word.name \in Values
    BY <1>3 DEF Values
<1> QED
    BY <1>1, <1>2, <1>3, <1>4, <1>5

\* Tokens of the next words that mean what they should keep the invariant.
LEMMA ReadsKeep ==
    ASSUME LineInv, NEW new \in Seq(Tokens), NEW count \in Nat,
           step = "parse", pos < Len(argv), tokens' = tokens \o new, pos' = pos + count,
           UNCHANGED <<argv, args, step, plugins, result>>, count > 0, pos + count <= Len(argv), Meant(new, pos + 1, pos + count),
           pos + count < Len(argv) => \A w \in pos + 1..pos + count : ~EndsOptions(argv[w])
    PROVE  LineInv'
<1>1. /\ step = "parse" /\ pos < Len(argv) /\ tokens' = tokens \o new /\ pos' = pos + count
      /\ argv' = argv /\ args' = args /\ step' = step /\ plugins' = plugins
    OBVIOUS
<1>2. pos \in Nat /\ Len(argv) \in Nat /\ tokens \in Seq(Tokens) /\ pos + count \in Nat
    BY <1>1, WordIs DEF LineInv, LineTypeOK
<1>3. pos' \in 0..Len(argv') /\ tokens' \in Seq(Tokens)
    BY <1>1, <1>2
<1>4. LineTypeOK'
    BY <1>1, <1>3 DEF LineInv, LineTypeOK
<1>5. Meant(tokens, 1, pos) /\ \A w \in 1..pos : ~EndsOptions(argv[w])
    BY <1>1 DEF LineInv
<1>6. Meant(tokens \o new, 1, pos + count)
    BY <1>2, <1>5, MeantConcat
<1>7. Meant(tokens, 1, pos)'
    BY <1>1, <1>6 DEF Meant
<1>8. ASSUME pos' < Len(argv') PROVE \A w \in 1..pos' : ~EndsOptions(argv'[w])
    <2>1. \A w \in 1..pos + count : w \in 1..pos \/ w \in pos + 1..pos + count
        BY <1>2
    <2>2. \A w \in pos + 1..pos + count : ~EndsOptions(argv[w])
        BY <1>1, <1>8
    <2> QED
        BY <1>1, <1>5, <2>1, <2>2
<1>9. (\A w \in 1..pos : ~EndsOptions(argv[w]))' <=> \A w \in 1..pos' : ~EndsOptions(argv'[w])
    BY DEF EndsOptions
<1>10. plugins' = {}
    BY <1>1 DEF LineInv
<1> QED
    BY <1>1, <1>4, <1>7, <1>8, <1>9, <1>10 DEF LineInv

\* An option that takes the next word takes one, and one without dashes.
LEMMA TakenIs ==
    ASSUME LineInv, pos < Len(argv), Follows, NEW name \in STRING
    PROVE  /\ Taken(name) \in Tokens /\ Taken(name).of = pos + 1 /\ Taken(name).uses = {pos + 1, pos + 2}
           /\ argv[pos + 2].dashes = 0 /\ pos + 2 <= Len(argv)
<1>1. pos \in Nat /\ Len(argv) \in Nat /\ pos + 2 <= Len(argv) /\ argv[pos + 2].dashes = 0
    BY WordIs DEF Follows
<1>2. pos + 2 \in 1..Len(argv) /\ {pos + 1, pos + 2} \in SUBSET Nat
    BY <1>1
<1>3. argv[pos + 2] \in Words
    BY <1>2 DEF LineInv, LineTypeOK
<1>4. argv[pos + 2].name \in Values
    BY <1>3 DEF Values
<1> QED
    BY <1>1, <1>2, <1>4 DEF Taken, Token, Tokens

\* A flag stands for its own word.
LEMMA FlagIs ==
    ASSUME LineInv, pos < Len(argv), NEW name \in STRING
    PROVE  /\ Flag(name) \in Tokens /\ Flag(name).of = pos + 1 /\ Flag(name).uses = {pos + 1}
           /\ Flag(name).kind = "flag"
<1>1. pos + 1 \in Nat /\ {pos + 1} \in SUBSET Nat
    BY WordIs
<1>2. Absent \in Values
    BY DEF Values
<1> QED
    BY <1>1, <1>2 DEF Flag, Token, Tokens

\* What the readers of one word have in common.
LEMMA OneWord ==
    ASSUME LineInv, NEW t \in Tokens, t.of = pos + 1, t.uses = {pos + 1}, ~EndsOptions(word),
           step = "parse", pos < Len(argv), tokens' = tokens \o <<t>>, pos' = pos + 1,
           UNCHANGED <<argv, args, step, plugins, result>>
    PROVE  LineInv'
<1>1. pos \in Nat /\ pos + 1 <= Len(argv) /\ 1 \in Nat /\ 1 > 0
    BY WordIs
<1>2. \A w \in 1..pos : ~EndsOptions(argv[w])
    BY <1>1 DEF LineInv
<1>3. <<t>> \in Seq(Tokens) /\ Meant(<<t>>, pos + 1, pos + 1)
    <2>1. pos + 1 \in Nat /\ pos < pos + 1
        BY <1>1
    <2>2. t.uses \subseteq pos + 1..pos + 1 /\ t.uses \ {pos + 1} = {}
        BY <1>1
    <2> QED
        BY <1>1, <1>2, <2>1, <2>2, MeantOne
<1>4. \A w \in pos + 1..pos + 1 : ~EndsOptions(argv[w])
    BY <1>1 DEF word
<1> QED
    BY <1>1, <1>3, <1>4, ReadsKeep

\* A word with "=" brings its value.
LEMMA AssignedKeeps == ASSUME LineInv, Assigned PROVE LineInv'
<1> DEFINE t == Token("valued", word.name, word.value, {pos + 1})
<1>1. /\ step = "parse" /\ pos < Len(argv) /\ tokens' = tokens \o <<t>> /\ pos' = pos + 1
      /\ UNCHANGED <<argv, args, step, plugins, result>>
      /\ word.value # Absent
    BY DEF Assigned, Reads
<1>2. t \in Tokens /\ t.of = pos + 1 /\ t.uses = {pos + 1}
    <2>1. word.name \in STRING /\ word.value \in Values /\ pos + 1 \in Nat /\ {pos + 1} \in SUBSET Nat
        BY <1>1, WordIs
    <2> QED
        BY <2>1 DEF Token, Tokens
<1> HIDE DEF t
<1> QED
    BY <1>1, <1>2, OneWord DEF EndsOptions

\* A long option stands alone.
LEMMA LongKeeps == ASSUME LineInv, Long PROVE LineInv'
<1> DEFINE t == Flag(word.name)
<1>1. /\ step = "parse" /\ pos < Len(argv) /\ tokens' = tokens \o <<t>> /\ pos' = pos + 1
      /\ UNCHANGED <<argv, args, step, plugins, result>>
      /\ word.name # ""
    BY DEF Long, Reads
<1>2. t \in Tokens /\ t.of = pos + 1 /\ t.uses = {pos + 1}
    BY <1>1, WordIs, FlagIs
<1> HIDE DEF t
<1> QED
    BY <1>1, <1>2, OneWord DEF EndsOptions

\* A word without dashes stands alone.
LEMMA PositionalKeeps == ASSUME LineInv, Positional PROVE LineInv'
<1> DEFINE t == Token("positional", word.name, Absent, {pos + 1})
<1>1. /\ step = "parse" /\ pos < Len(argv) /\ tokens' = tokens \o <<t>> /\ pos' = pos + 1
      /\ UNCHANGED <<argv, args, step, plugins, result>>
      /\ word.dashes # 2
    BY DEF Positional, Reads
<1>2. t \in Tokens /\ t.of = pos + 1 /\ t.uses = {pos + 1}
    <2>1. word.name \in STRING /\ pos + 1 \in Nat /\ {pos + 1} \in SUBSET Nat
        BY <1>1, WordIs
    <2>2. Absent \in Values
        BY DEF Values
    <2> QED
        BY <2>1, <2>2 DEF Token, Tokens
<1> HIDE DEF t
<1> QED
    BY <1>1, <1>2, OneWord DEF EndsOptions

\* A long option takes the next word for its value.
LEMMA LongWithValueKeeps == ASSUME LineInv, LongWithValue PROVE LineInv'
<1> DEFINE t == Taken(word.name)
<1>1. /\ step = "parse" /\ pos < Len(argv) /\ tokens' = tokens \o <<t>> /\ pos' = pos + 2
      /\ UNCHANGED <<argv, args, step, plugins, result>>
      /\ word.name # "" /\ Follows
    BY DEF LongWithValue, Reads
<1>2. word.name \in STRING /\ pos \in Nat
    BY <1>1, WordIs
<1>3. t \in Tokens /\ t.of = pos + 1 /\ t.uses = {pos + 1, pos + 2} /\ argv[pos + 2].dashes = 0 /\ pos + 2 <= Len(argv)
    BY <1>1, <1>2, TakenIs
<1> HIDE DEF t
<1>4. \A w \in 1..pos : ~EndsOptions(argv[w])
    BY <1>1 DEF LineInv
<1>5. pos < pos + 2 /\ {pos + 1, pos + 2} \subseteq pos + 1..pos + 2
    BY <1>2
<1>6. \A w \in t.uses \ {pos + 1} : argv[w].dashes = 0
    BY <1>3
<1> DEFINE q == pos + 2
<1>7. q \in Nat /\ pos < q /\ t.uses \subseteq pos + 1..q
    BY <1>2, <1>3, <1>5
<1> HIDE DEF q
<1>8. <<t>> \in Seq(Tokens) /\ Meant(<<t>>, pos + 1, q)
    BY <1>2, <1>3, <1>4, <1>6, <1>7, MeantOne
<1> USE DEF q
<1>9. \A w \in pos + 1..pos + 2 : ~EndsOptions(argv[w])
    <2>1. \A w \in pos + 1..pos + 2 : w = pos + 1 \/ w = pos + 2
        BY <1>2
    <2>2. ~EndsOptions(argv[pos + 1])
        BY <1>1 DEF EndsOptions, word
    <2>3. ~EndsOptions(argv[pos + 2])
        BY <1>3 DEF EndsOptions
    <2> QED
        BY <2>1, <2>2, <2>3
<1>10. 2 \in Nat /\ 2 > 0
    OBVIOUS
<1> QED
    BY <1>1, <1>2, <1>3, <1>8, <1>9, <1>10, ReadsKeep

\* After "--" every word is positional.
LEMMA EndOfOptionsKeeps == ASSUME LineInv, EndOfOptions PROVE LineInv'
<1> DEFINE n == Len(argv) - pos - 1
           s == [i \in 1..n |-> [kind |-> "positional", name |-> argv[pos + 1 + i].name, value |-> Absent,
                                 of |-> pos + 1 + i, uses |-> {pos + 1 + i}]]
           count == Len(argv) - pos
<1>1. /\ step = "parse" /\ pos < Len(argv) /\ tokens' = tokens \o s /\ pos' = pos + count
      /\ UNCHANGED <<argv, args, step, plugins, result>>
    BY DEF EndOfOptions, Reads
<1>2. pos \in Nat /\ Len(argv) \in Nat /\ pos + 1 \in 1..Len(argv)
    BY <1>1, WordIs
<1>3. n \in Nat /\ count \in Nat /\ count > 0 /\ pos + count = Len(argv) /\ pos + 1 + n = Len(argv)
    BY <1>1, <1>2
<1>4. \A i \in 1..n : pos + 1 + i \in 1..Len(argv) /\ pos + 1 + i \in Nat
    BY <1>2, <1>3
<1>5. Absent \in Values
    BY DEF Values
<1>6. \A i \in 1..n : argv[pos + 1 + i].name \in STRING
    <2> SUFFICES ASSUME NEW i \in 1..n PROVE argv[pos + 1 + i].name \in STRING
        OBVIOUS
    <2>1. argv[pos + 1 + i] \in Words
        BY <1>4 DEF LineInv, LineTypeOK
    <2> QED
        BY <2>1, LineAssumption
<1> HIDE DEF n, count
<1>7. s \in Seq(Tokens) /\ Len(s) = n
    <2>1. \A i \in 1..n : s[i] \in Tokens
        BY <1>4, <1>5, <1>6 DEF Tokens
    <2>2. s \in [1..n -> Tokens]
        BY <2>1
    <2> QED
        BY <1>3, <2>2
<1>8. \A i \in 1..n : s[i].of = pos + 1 + i /\ s[i].uses = {pos + 1 + i} /\ s[i].kind = "positional"
    OBVIOUS
<1> HIDE DEF s
<1>9. Meant(s, pos + 1, pos + count)
    <2>1. pos < pos + count /\ pos + 1 + n = pos + count /\ pos + count \in Nat
        BY <1>2, <1>3
    <2> QED
        BY <1>2, <1>3, <1>7, <1>8, <2>1, MeantAfter
<1>10. pos + count <= Len(argv) /\ ~(pos + count < Len(argv))
    BY <1>2, <1>3
<1> QED
    BY <1>1, <1>3, <1>7, <1>9, <1>10, ReadsKeep

\* The letter found is one of the word's, or there is none.
LEMMA ValueLetterIs ==
    ASSUME word.letters \in Seq(STRING)
    PROVE  ValueLetter \in 0..Len(word.letters)
<1> DEFINE T == {i \in 1..Len(word.letters) : word.letters[i] \in TakesValue}
<1>1. Len(word.letters) \in Nat /\ T \in SUBSET Nat
    OBVIOUS
<1>2. ValueLetter = IF T # {} THEN Min(T) ELSE 0
    BY DEF ValueLetter, SelectInSeq
<1>3. ASSUME T # {} PROVE Min(T) \in T
    <2>1. PICK i \in T : \A j \in T : i <= j
        BY <1>1, <1>3, LeastOf
    <2> QED
        BY <2>1 DEF Min
<1> QED
    BY <1>1, <1>2, <1>3

\* The letters before one that takes a value are flags of the word.
LEMMA FlagsAre ==
    ASSUME LineInv, pos < Len(argv), NEW n \in 0..Len(word.letters)
    PROVE  /\ FlagsBefore(n) \in Seq(Tokens) /\ Len(FlagsBefore(n)) = n
           /\ \A i \in 1..n : /\ FlagsBefore(n)[i].of = pos + 1 /\ FlagsBefore(n)[i].uses = {pos + 1}
                              /\ FlagsBefore(n)[i].kind = "flag"
<1> DEFINE s == [i \in 1..n |-> Flag(word.letters[i])]
<1>1. word.letters \in Seq(STRING) /\ n \in Nat /\ \A i \in 1..n : word.letters[i] \in STRING
    BY WordIs
<1>2. \A i \in 1..n : s[i] \in Tokens /\ s[i].of = pos + 1 /\ s[i].uses = {pos + 1} /\ s[i].kind = "flag"
    BY <1>1, FlagIs
<1>3. s \in [1..n -> Tokens]
    BY <1>2
<1>4. s \in Seq(Tokens) /\ Len(s) = n
    BY <1>1, <1>3
<1> QED
    BY <1>2, <1>4 DEF FlagsBefore

\* A word of several letters: flags, and at most one value, the rest of it or the next word.
LEMMA ClusterKeeps == ASSUME LineInv, Cluster PROVE LineInv'
<1> DEFINE n == Len(word.letters)
           v == ValueLetter
           letter == word.letters[v]
<1>1. step = "parse" /\ pos < Len(argv) /\ word.dashes = 1 /\ UNCHANGED <<argv, args, step, plugins, result>>
    BY DEF Cluster, Reads
<1>2. /\ pos \in Nat /\ Len(argv) \in Nat /\ pos + 1 \in 1..Len(argv)
      /\ word.letters \in Seq(STRING) /\ word.rest \in Values
    BY <1>1, WordIs
<1>3. n \in Nat /\ v \in 0..n /\ (v > 0 => letter \in STRING /\ v - 1 \in 0..n)
    BY <1>2, ValueLetterIs
<1>4. \A w \in 1..pos : ~EndsOptions(argv[w])
    BY <1>1 DEF LineInv
<1>5. ~EndsOptions(argv[pos + 1])
    BY <1>1 DEF EndsOptions, word
<1>6. \A w \in pos + 1..pos + 1 : ~EndsOptions(argv[w])
    BY <1>2, <1>5
<1>7. 1 \in Nat /\ 1 > 0 /\ pos < pos + 1 /\ pos + 1 <= Len(argv) /\ pos + 1 \in Nat /\ {pos + 1} \in SUBSET Nat
      /\ {pos + 1} \subseteq pos + 1..pos + 1
    BY <1>2
<1>8. n \in 0..n
    BY <1>3
<1>9. CASE tokens' = tokens \o FlagsBefore(n) /\ pos' = pos + 1
    <2>1. FlagsBefore(n) \in Seq(Tokens) /\ Meant(FlagsBefore(n), pos + 1, pos + 1)
        BY <1>1, <1>2, <1>3, <1>4, <1>7, <1>8, FlagsAre, MeantFlags
    <2> QED
        BY <1>1, <1>6, <1>7, <1>9, <2>1, ReadsKeep
<1>10. CASE /\ v > 0 /\ v < n /\ pos' = pos + 1
            /\ tokens' = tokens \o Append(FlagsBefore(v - 1), Token("valued", letter, word.rest, {pos + 1}))
    <2> DEFINE t == Token("valued", letter, word.rest, {pos + 1})
               s == FlagsBefore(v - 1)
    <2>1. t \in Tokens /\ t.of = pos + 1 /\ t.uses = {pos + 1}
        BY <1>2, <1>3, <1>7, <1>10 DEF Token, Tokens
    <2> HIDE DEF t
    <2>2. Append(s, t) \in Seq(Tokens) /\ Meant(Append(s, t), pos + 1, pos + 1)
        <3>1. v - 1 \in 0..n /\ v - 1 \in Nat
            BY <1>3, <1>10
        <3>2. /\ s \in Seq(Tokens) /\ Len(s) = v - 1
              /\ \A i \in 1..v - 1 : s[i].of = pos + 1 /\ s[i].uses = {pos + 1} /\ s[i].kind = "flag"
            BY <1>1, <3>1, FlagsAre
        <3> HIDE DEF s
        <3> QED
            BY <1>2, <1>4, <1>7, <2>1, <3>1, <3>2, MeantLast
    <2> DEFINE new == Append(s, t)
    <2>3. tokens' = tokens \o new /\ new \in Seq(Tokens) /\ Meant(new, pos + 1, pos + 1)
        BY <1>10, <2>2 DEF t
    <2> HIDE DEF new
    <2> QED
        BY <1>1, <1>6, <1>7, <1>10, <2>3, ReadsKeep
<1>11. CASE v > 0 /\ v = n /\ Follows /\ pos' = pos + 2 /\ tokens' = tokens \o Append(FlagsBefore(v - 1), Taken(letter))
    <2> DEFINE t == Taken(letter)
               s == FlagsBefore(v - 1)
    <2>1. t \in Tokens /\ t.of = pos + 1 /\ t.uses = {pos + 1, pos + 2} /\ argv[pos + 2].dashes = 0 /\ pos + 2 <= Len(argv)
        BY <1>1, <1>3, <1>11, TakenIs
    <2> HIDE DEF t
    <2>2. /\ pos < pos + 2 /\ pos + 2 \in Nat /\ {pos + 1, pos + 2} \subseteq pos + 1..pos + 2 /\ 2 \in Nat /\ 2 > 0
          /\ \A w \in pos + 1..pos + 2 : w = pos + 1 \/ w = pos + 2
        BY <1>2
    <2>3. Append(s, t) \in Seq(Tokens) /\ Meant(Append(s, t), pos + 1, pos + 2)
        <3>1. v - 1 \in 0..n /\ v - 1 \in Nat
            BY <1>3, <1>11
        <3>2. /\ s \in Seq(Tokens) /\ Len(s) = v - 1
              /\ \A i \in 1..v - 1 : s[i].of = pos + 1 /\ s[i].uses = {pos + 1} /\ s[i].kind = "flag"
            BY <1>1, <3>1, FlagsAre
        <3> HIDE DEF s
        <3>3. \A w \in t.uses \ {pos + 1} : argv[w].dashes = 0
            BY <2>1
        <3> QED
            BY <1>2, <1>4, <2>1, <2>2, <3>1, <3>2, <3>3, MeantLast
    <2> DEFINE new == Append(s, t)
    <2>4. tokens' = tokens \o new /\ new \in Seq(Tokens) /\ Meant(new, pos + 1, pos + 2)
        BY <1>11, <2>3 DEF t
    <2> HIDE DEF new
    <2>5. ~EndsOptions(argv[pos + 2])
        BY <2>1 DEF EndsOptions
    <2>6. \A w \in pos + 1..pos + 2 : ~EndsOptions(argv[w])
        BY <1>5, <2>2, <2>5
    <2> QED
        BY <1>1, <1>11, <2>1, <2>2, <2>4, <2>6, ReadsKeep
<1> QED
    <2>1. \/ tokens' = tokens \o FlagsBefore(n) /\ pos' = pos + 1
          \/ /\ v > 0 /\ v < n /\ pos' = pos + 1
             /\ tokens' = tokens \o Append(FlagsBefore(v - 1), Token("valued", letter, word.rest, {pos + 1}))
          \/ v > 0 /\ v = n /\ Follows /\ pos' = pos + 2 /\ tokens' = tokens \o Append(FlagsBefore(v - 1), Taken(letter))
        BY DEF Cluster, Reads
    <2> QED
        BY <1>9, <1>10, <1>11, <2>1

\* The shell gives any words.
LEMMA ExecKeeps == ASSUME LineInv, Exec PROVE LineInv'
<1>1. PICK n \in 0..MaxWords : argv' \in [1..n -> Words]
    BY DEF Exec
<1>2. /\ step = "shell" /\ step' = "parse" /\ pos' = pos /\ tokens' = tokens /\ args' = args /\ plugins' = plugins
      /\ pos = 0 /\ tokens = <<>>
    BY DEF Exec, LineInv
<1>3. n \in Nat /\ argv' \in Seq(Words) /\ Len(argv') = n /\ n <= MaxWords
    BY <1>1, LineAssumption
<1>4. pos' \in 0..Len(argv')
    BY <1>2, <1>3
<1>5. LineTypeOK'
    BY <1>2, <1>3, <1>4 DEF LineInv, LineTypeOK
<1>6. Meant(tokens, 1, pos)' /\ (\A w \in 1..pos : ~EndsOptions(argv[w]))'
    BY <1>2 DEF Meant
<1> QED
    BY <1>2, <1>5, <1>6 DEF LineInv

\* All words are read.
LEMMA ParsedKeeps == ASSUME LineInv, Parsed PROVE LineInv'
    BY DEF Parsed, LineInv, LineTypeOK

\* All tokens are applied.
LEMMA AppliedKeeps == ASSUME LineInv, Applied PROVE LineInv'
    BY DEF Applied, LineInv, LineTypeOK

\* main builds the registry of what the options leave.
LEMMA MainKeeps == ASSUME LineInv, Main PROVE LineInv'
<1>1. Registered(args.hides, args.disabled, args.enabled) \subseteq AllPlugins
    BY DEF Registered, Filtered
<1>2. plugins' \in {{}, Registered(args.hides, args.disabled, args.enabled)}
    BY DEF Main
<1>3. LineTypeOK'
    BY <1>1, <1>2 DEF Main, LineInv, LineTypeOK
<1> QED
    BY <1>2, <1>3 DEF Main, LineInv

\* A step of nothing keeps the invariant.
LEMMA LineStutters == ASSUME LineInv, UNCHANGED lineVars PROVE LineInv'
    BY DEF lineVars, LineInv, LineTypeOK, Meant, EndsOptions

\* Setting one option to what it may be leaves the options what they are.
LEMMA ArgsWith ==
    ASSUME NEW a \in Args
    PROVE  /\ \A m \in Modes : [a EXCEPT !.mode = m] \in Args
           /\ \A m \in Modes : [a EXCEPT !.mode = m, !.host = TRUE] \in Args
           /\ \A r \in Finite : [a EXCEPT !.refresh = r] \in Args
           /\ \A x \in {"--username", "--password"} : [a EXCEPT !.asks = @ \cup {x}] \in Args
           /\ \A f \in Subsets : [a EXCEPT !.hides = @ \cup {f}] \in Args
           /\ [a EXCEPT !.enabled = @ \cup {"irq"}] \in Args
           /\ [a EXCEPT !.force = TRUE] \in Args /\ [a EXCEPT !.named = TRUE] \in Args
           /\ \A v \in Values : /\ [a EXCEPT !.disabled = @ \cup {v}] \in Args
                               /\ [a EXCEPT !.enabled = @ \cup {v}] \in Args
<1>1. /\ \A m \in Modes : [a EXCEPT !.mode = m] \in Args
      /\ \A m \in Modes : [a EXCEPT !.mode = m, !.host = TRUE] \in Args
      /\ \A r \in Finite : [a EXCEPT !.refresh = r] \in Args
      /\ [a EXCEPT !.force = TRUE] \in Args /\ [a EXCEPT !.named = TRUE] \in Args
    BY DEF Args
<1>2. \A x \in {"--username", "--password"} : [a EXCEPT !.asks = @ \cup {x}] \in Args
    BY DEF Args
<1>3. \A f \in Subsets : [a EXCEPT !.hides = @ \cup {f}] \in Args
    BY DEF Args
<1>4. [a EXCEPT !.enabled = @ \cup {"irq"}] \in Args
    BY DEF Args
<1>5. \A v \in Values : [a EXCEPT !.disabled = @ \cup {v}] \in Args
    BY DEF Args
<1>6. \A v \in Values : [a EXCEPT !.enabled = @ \cup {v}] \in Args
    BY DEF Args
<1> QED
    BY <1>1, <1>2, <1>3, <1>4, <1>5, <1>6

\* A flag leaves the options well formed.
LEMMA BareType ==
    ASSUME NEW a \in Args, NEW name
    PROVE  Bare(a, name) \in Args
<1> DEFINE mode == \E p \in BareModes : p[1] = name
           m == (CHOOSE p \in BareModes : p[1] = name)[2]
<1>1. mode => m \in Modes
    BY DEF Modes
<1>2. Bare(a, name) =
        CASE mode -> [a EXCEPT !.mode = m]
          [] name \in {"--username", "--password"} -> [a EXCEPT !.asks = @ \cup {name}]
          [] name \in Subsets -> [a EXCEPT !.hides = @ \cup {name}]
          [] name = "--enable-irq" -> [a EXCEPT !.enabled = @ \cup {"irq"}]
          [] name = "--snmp-force" -> [a EXCEPT !.force = TRUE]
          [] OTHER -> a
    BY DEF Bare
<1> HIDE DEF mode, m
<1> QED
    BY <1>1, <1>2, ArgsWith

\* An option with a value leaves the options well formed.
LEMMA ValuedType ==
    ASSUME NEW a \in Args, NEW name, NEW value \in Values
    PROVE  Valued(a, name, value) \in Args
<1> DEFINE mode == \E p \in StreamModes : p[1] = name
           m == (CHOOSE p \in StreamModes : p[1] = name)[2]
<1>1. mode => m \in Modes
    BY DEF Modes, BareModes
<1>2. {"StdoutPath", "Client", "Ping"} \subseteq Modes
    BY DEF Modes
<1>3. Valued(a, name, value) =
        CASE name \in {"-t", "--time"} -> IF value \in Finite THEN [a EXCEPT !.refresh = value] ELSE a
          [] mode -> [a EXCEPT !.mode = m]
          [] name = "--stdout" -> [a EXCEPT !.mode = "StdoutPath"]
          [] name \in {"-c", "--client"} -> [a EXCEPT !.mode = "Client", !.host = TRUE]
          [] name = "--ping" -> [a EXCEPT !.mode = "Ping"]
          [] name = "-u" -> [a EXCEPT !.named = TRUE]
          [] name = "--disable-plugin" -> [a EXCEPT !.disabled = @ \cup {value}]
          [] name = "--enable-plugin" -> [a EXCEPT !.enabled = @ \cup {value}]
          [] OTHER -> a
    BY DEF Valued, Usable
<1> HIDE DEF mode, m
<1>4. Valued(a, name, value) \in
        {IF value \in Finite THEN [a EXCEPT !.refresh = value] ELSE a, IF mode THEN [a EXCEPT !.mode = m] ELSE a,
         [a EXCEPT !.mode = "StdoutPath"], [a EXCEPT !.mode = "Client", !.host = TRUE], [a EXCEPT !.mode = "Ping"],
         [a EXCEPT !.named = TRUE], [a EXCEPT !.disabled = @ \cup {value}], [a EXCEPT !.enabled = @ \cup {value}], a}
    BY <1>3
<1>5. /\ IF value \in Finite THEN [a EXCEPT !.refresh = value] \in Args ELSE a \in Args
      /\ IF mode THEN [a EXCEPT !.mode = m] \in Args ELSE a \in Args
      /\ [a EXCEPT !.mode = "StdoutPath"] \in Args
    BY <1>1, <1>2, ArgsWith
<1>6. /\ [a EXCEPT !.mode = "Client", !.host = TRUE] \in Args /\ [a EXCEPT !.mode = "Ping"] \in Args
      /\ [a EXCEPT !.named = TRUE] \in Args
    BY <1>2, ArgsWith
<1>7. /\ [a EXCEPT !.disabled = @ \cup {value}] \in Args /\ [a EXCEPT !.enabled = @ \cup {value}] \in Args
    BY ArgsWith
<1> QED
    BY <1>4, <1>5, <1>6, <1>7

\* One token is applied.
LEMMA ApplyKeeps == ASSUME LineInv, Apply PROVE LineInv'
<1> DEFINE t == Head(tokens)
<1>1. step = "apply" /\ step' = step /\ tokens # <<>> /\ tokens' = Tail(tokens) /\ argv' = argv /\ pos' = pos
      /\ plugins' = plugins
    BY DEF Apply
<1>2. tokens \in Seq(Tokens) /\ args \in Args
    BY DEF LineInv, LineTypeOK
<1>3. t \in Tokens /\ Tail(tokens) \in Seq(Tokens)
    BY <1>1, <1>2
<1>4. args' \in {Bare(args, t.name), Valued(args, t.name, t.value), args}
    BY DEF Apply
<1> HIDE DEF t
<1>5. args' \in Args
    <2>1. t.value \in Values
        BY <1>3 DEF Tokens
    <2> QED
        BY <1>2, <1>4, <2>1, BareType, ValuedType
<1>6. LineTypeOK'
    BY <1>1, <1>3, <1>5 DEF LineInv, LineTypeOK
<1> QED
    BY <1>1, <1>6 DEF LineInv

\* Every state of the command line satisfies the invariant, for any words and any number
\* of them.
THEOREM LineInvariant == LineSpec => []LineInv
<1>1. LineInit => LineInv
    BY LineStart
<1>2. LineInv /\ [LineNext]_lineVars => LineInv'
    BY ExecKeeps, EndOfOptionsKeeps, AssignedKeeps, LongWithValueKeeps, LongKeeps, ClusterKeeps, PositionalKeeps,
       ParsedKeeps, ApplyKeeps, AppliedKeeps, MainKeeps, LineStutters DEF LineNext
<1> QED
    BY <1>1, <1>2, PTL DEF LineSpec

\* What one display flag leaves on.
LEMMA OneFlag ==
    ASSUME NEW f \in Subsets, NEW p \in AllPlugins
    PROVE  p \in Registered({f}, {}, {"irq"}) <=> p \notin HiddenBy(f)
<1>1. UNION {HiddenBy(g) : g \in {f}} = HiddenBy(f)
    BY Zenon
<1>2. "all" \notin HiddenBy(f)
    BY DEF Subsets, HiddenBy, LeftSidebar, TopSet, LightExtra, ProcessFamily
<1> HIDE DEF HiddenBy
<1>3. p \in Registered({f}, {}, {"irq"}) <=> p \in Filtered(HiddenBy(f), {"irq"} \cup (IF "-4" \in {f} THEN {"quicklook", "load"} ELSE {}))
    BY <1>1 DEF Registered
<1> QED
    BY <1>2, <1>3 DEF Filtered

\* The plugins that stay when no flag disables all: those not disabled, irq only if
\* enabled, and none that a mode hides.
LeftOn(hides, disabled, enabled) ==
    {p \in AllPlugins :
        /\ p \notin disabled
        /\ p = "irq" => "irq" \in enabled
        /\ \A f \in hides : p \in Registered({f}, {}, {"irq"})}

\* What the registry is built of: nothing disabled is in it, and without --disable-plugin
\* all everything else is.
LEMMA Composed ==
    ASSUME NEW hides \in SUBSET Subsets, NEW disabled, NEW enabled
    PROVE  /\ Registered(hides, disabled, enabled) \cap disabled = {}
           /\ "all" \notin disabled => Registered(hides, disabled, enabled) = LeftOn(hides, disabled, enabled)
<1> DEFINE hidden == UNION {HiddenBy(f) : f \in hides}
           on == enabled \cup (IF "-4" \in hides THEN {"quicklook", "load"} ELSE {})
<1>1. Registered(hides, disabled, enabled) =
        {p \in AllPlugins : /\ p \notin disabled \cup hidden
                            /\ "all" \in disabled \cup hidden => p \in on
                            /\ p = "irq" => p \in on}
    BY DEF Registered, Filtered
<1>2. "all" \notin hidden
    <2>1. \A f \in Subsets : "all" \notin HiddenBy(f)
        BY DEF Subsets, HiddenBy, LeftSidebar, TopSet, LightExtra, ProcessFamily
    <2> QED
        BY <2>1
<1>3. "irq" \in on <=> "irq" \in enabled
    OBVIOUS
<1>4. \A p \in AllPlugins : p \notin hidden <=> \A f \in hides : p \in Registered({f}, {}, {"irq"})
    <2> SUFFICES ASSUME NEW p \in AllPlugins
                 PROVE  p \notin hidden <=> \A f \in hides : p \in Registered({f}, {}, {"irq"})
        OBVIOUS
    <2>1. p \notin hidden <=> \A f \in hides : p \notin HiddenBy(f)
        BY Zenon
    <2>2. \A f \in hides : p \in Registered({f}, {}, {"irq"}) <=> p \notin HiddenBy(f)
        BY OneFlag
    <2> QED
        BY <2>1, <2>2
<1> HIDE DEF hidden, on
<1>5. Registered(hides, disabled, enabled) \cap disabled = {}
    BY <1>1
<1>6. ASSUME "all" \notin disabled
      PROVE  Registered(hides, disabled, enabled) = LeftOn(hides, disabled, enabled)
    <2>1. Registered(hides, disabled, enabled) =
            {p \in AllPlugins : p \notin disabled /\ p \notin hidden /\ (p = "irq" => "irq" \in enabled)}
        BY <1>1, <1>2, <1>3, <1>6
    <2> QED
        BY <1>4, <2>1 DEF LeftOn
<1> QED
    BY <1>5, <1>6

\* What the invariant says of tokens and plugins is what the words mean.
LEMMA MeantHolds == LineInv => ArgsAsMeant
<1> SUFFICES ASSUME LineInv PROVE ArgsAsMeant
    OBVIOUS
<1>1. WordsReadOnce
    BY DEF LineInv, Meant, WordsReadOnce
<1>2. ASSUME step = "done", plugins # {} PROVE SubsetsCompose
    <2>1. plugins = Registered(args.hides, args.disabled, args.enabled) /\ args.hides \in SUBSET Subsets
        BY <1>2 DEF LineInv, LineTypeOK, Args
    <2> DEFINE allowed == LeftOn(args.hides, args.disabled, args.enabled)
               r == Registered(args.hides, args.disabled, args.enabled)
    <2>2. r \cap args.disabled = {} /\ ("all" \notin args.disabled => r = allowed)
        BY <2>1, Composed
    <2> HIDE DEF r
    <2>3. plugins = r
        BY <2>1 DEF r
    <2>4. plugins \cap args.disabled = {} /\ ("all" \notin args.disabled => plugins = allowed)
        BY <2>2, <2>3
    <2> QED
        BY <2>4, Zenon DEF SubsetsCompose, LeftOn
<1> QED
    BY <1>1, <1>2 DEF ArgsAsMeant, SubsetsCompose

\* The position is within the words, and tokens, options and plugins have their types.
THEOREM LineTypesHold == LineSpec => []LineTypeOK
<1>1. LineInv => LineTypeOK
    BY DEF LineInv
<1> QED
    BY <1>1, LineInvariant, PTL

\* parse.rs reads every word once and gives no option a word that is an option or stands
\* after "--", and the registry main builds holds what the options left.
THEOREM ArgsAsMeantAlways == LineSpec => []ArgsAsMeant
<1> QED
    BY MeantHolds, LineInvariant, PTL

-----------------------------------------------------------------------------
(* SNMP client.                                                            *)

\* The agent answers with an id.
LEMMA SuccessorNat == ASSUME NEW id \in Nat PROVE Successor(id) \in Nat
    BY SnmpAssumption DEF Successor, Marker

\* A batch is a chain of successors.
LEMMA ChainOf ==
    ASSUME NEW id \in Nat
    PROVE  \E chain \in [1..Batch -> Nat] :
              /\ chain[1] = Successor(id)
              /\ \A i \in 2..Batch : chain[i] = Successor(chain[i - 1])
              /\ Following(id) = [i \in 1..(IF version = 1 THEN 1 ELSE Batch) |-> chain[i]]
<1> DEFINE Body(f) == [i \in 1..Batch |-> IF i = 1 THEN Successor(id) ELSE Successor(f[i - 1])]
           chain == CHOOSE f : f = Body(f)
           follow == [p \in Nat \X Nat |-> Successor(p[2])]
<1>1. Batch \in Nat /\ Batch >= 1
    BY SnmpAssumption
<1>2. follow \in [Nat \X Nat -> Nat]
    BY SuccessorNat
<1>3. \A i, x \in Nat : follow[<<i, x>>] = Successor(x)
    OBVIOUS
<1> HIDE DEF follow
<1>4. PICK f \in [0..Batch -> Nat] : Recurs(f, id, follow, Batch)
    <2>1. Batch \in Nat
        BY <1>1
    <2> QED
        BY <1>2, <2>1, Recursion, Zenon
<1> DEFINE g == [i \in 1..Batch |-> f[i]]
<1>5. \A i \in 1..Batch : f[i] = Successor(f[i - 1])
    <2> SUFFICES ASSUME NEW i \in 1..Batch PROVE f[i] = Successor(f[i - 1])
        OBVIOUS
    <2>1. i \in Nat /\ i - 1 \in 0..Batch
        BY <1>1
    <2>2. f[i - 1] \in Nat
        BY <2>1
    <2> QED
        BY <1>3, <1>4, <2>1, <2>2 DEF Recurs
<1>6. ASSUME NEW i \in 1..Batch PROVE g[i] = IF i = 1 THEN Successor(id) ELSE Successor(g[i - 1])
    <2>1. CASE i = 1
        BY <2>1, <1>5, <1>4 DEF Recurs
    <2>2. CASE i # 1
        <3>1. i - 1 \in 1..Batch
            BY <2>2, <1>1
        <3> QED
            BY <2>2, <3>1, <1>5
    <2> QED
        BY <2>1, <2>2
<1>7. g = Body(g)
    BY <1>6
<1> HIDE DEF g
<1>8. chain = Body(chain)
    BY <1>7
<1>9. Following(id) = [i \in 1..(IF version = 1 THEN 1 ELSE Batch) |-> chain[i]]
    BY DEF Following
<1> HIDE DEF chain
<1>10. \A i \in 1..Batch : chain[i] = IF i = 1 THEN Successor(id) ELSE Successor(chain[i - 1])
    BY <1>8
<1>11. \A i \in 1..Batch : chain[i] \in Nat
    <2> DEFINE S == {i \in Nat : i >= 1 => chain[i] \in Nat}
    <2>1. 0 \in S
        OBVIOUS
    <2>2. ASSUME NEW i \in 0..Batch, i < Batch, i \in S PROVE i + 1 \in S
        <3>1. i + 1 \in 1..Batch /\ (i + 1) - 1 = i /\ i + 1 \in Nat
            BY <1>1, <2>2
        <3>2. chain[i + 1] = IF i + 1 = 1 THEN Successor(id) ELSE Successor(chain[i])
            BY <3>1, <1>10
        <3>3. CASE i = 0
            BY <3>1, <3>2, <3>3, SuccessorNat DEF S
        <3>4. CASE i # 0
            <4>1. i >= 1 /\ i + 1 # 1
                BY <3>4
            <4>2. chain[i] \in Nat
                BY <2>2, <4>1
            <4> QED
                BY <3>1, <3>2, <4>1, <4>2, SuccessorNat
        <3> QED
            BY <3>3, <3>4
    <2> HIDE DEF S
    <2>3. 0..Batch \subseteq S
        BY <1>1, <2>1, <2>2, UpTo
    <2> QED
        BY <1>1, <2>3 DEF S
<1>12. chain = [i \in 1..Batch |-> chain[i]]
    BY <1>8
<1>13. chain \in [1..Batch -> Nat]
    BY <1>11, <1>12
<1> QED
    <2>1. chain[1] = Successor(id)
        BY <1>1, <1>10
    <2>2. \A i \in 2..Batch : chain[i] = Successor(chain[i - 1])
        BY <1>1, <1>10
    <2>3. chain \in [1..Batch -> Nat]
        BY <1>13
    <2> HIDE DEF chain
    <2> WITNESS chain \in [1..Batch -> Nat]
    <2> QED
        BY <1>9, <2>1, <2>2

\* An answer has ids, at least one and no more than a batch.
LEMMA FollowingType ==
    ASSUME NEW id \in Nat, version \in {1, 2}
    PROVE  /\ Following(id) \in Seq(Nat)
           /\ Len(Following(id)) \in 1..Batch
<1>1. PICK chain \in [1..Batch -> Nat] :
              /\ chain[1] = Successor(id)
              /\ \A i \in 2..Batch : chain[i] = Successor(chain[i - 1])
              /\ Following(id) = [i \in 1..(IF version = 1 THEN 1 ELSE Batch) |-> chain[i]]
    BY ChainOf
<1>2. Batch \in Nat /\ Batch >= 1
    BY SnmpAssumption
<1> DEFINE n == IF version = 1 THEN 1 ELSE Batch
<1>3. n \in 1..Batch
    BY <1>2
<1> HIDE DEF n
<1>4. Following(id) = [i \in 1..n |-> chain[i]]
    BY <1>1 DEF n
<1>5. \A i \in 1..n : chain[i] \in Nat
    BY <1>2, <1>3
<1> QED
    BY <1>3, <1>4, <1>5

\* A good agent answers with the ids that follow, as far as the table goes.
LEMMA FollowingGood ==
    ASSUME NEW id \in Nat, version \in {1, 2}, agent = "good", id <= Top
    PROVE  \A i \in 1..Len(Following(id)) : id + i <= Top + 1 => Following(id)[i] = id + i
<1>1. PICK chain \in [1..Batch -> Nat] :
              /\ chain[1] = Successor(id)
              /\ \A i \in 2..Batch : chain[i] = Successor(chain[i - 1])
              /\ Following(id) = [i \in 1..(IF version = 1 THEN 1 ELSE Batch) |-> chain[i]]
    BY ChainOf
<1>2. Batch \in Nat /\ Batch >= 1 /\ Top \in Nat
    BY SnmpAssumption
<1> DEFINE S == {i \in Nat : i >= 1 /\ id + i <= Top + 1 => chain[i] = id + i}
<1>3. \A x \in Nat : x <= Top => Successor(x) = x + 1
    BY <1>2 DEF Successor
<1>4. 0 \in S
    OBVIOUS
<1>5. ASSUME NEW i \in 0..Batch, i < Batch, i \in S PROVE i + 1 \in S
    <2>1. i \in Nat /\ i + 1 \in 1..Batch
        BY <1>2, <1>5
    <2>2. SUFFICES ASSUME id + (i + 1) <= Top + 1 PROVE chain[i + 1] = id + (i + 1)
        BY <2>1
    <2>3. CASE i = 0
        BY <1>1, <1>3, <2>3
    <2>4. CASE i # 0
        <3>1. i + 1 \in 2..Batch /\ (i + 1) - 1 = i /\ i >= 1 /\ id + i <= Top
            BY <1>2, <2>1, <2>2, <2>4
        <3>2. chain[i + 1] = Successor(chain[i])
            BY <1>1, <3>1
        <3>3. chain[i] = id + i
            BY <1>5, <3>1, <1>2
        <3> QED
            BY <1>3, <2>1, <3>1, <3>2, <3>3
    <2> QED
        BY <2>3, <2>4
<1> HIDE DEF S
<1>6. 0..Batch \subseteq S
    BY <1>2, <1>4, <1>5, UpTo
<1>7. \A i \in 1..Batch : id + i <= Top + 1 => chain[i] = id + i
    BY <1>2, <1>6 DEF S
<1> QED
    <2> SUFFICES ASSUME NEW i \in 1..Len(Following(id)), id + i <= Top + 1
                 PROVE  Following(id)[i] = id + i
        OBVIOUS
    <2> DEFINE n == IF version = 1 THEN 1 ELSE Batch
    <2>1. n \in 1..Batch
        BY <1>2
    <2> HIDE DEF n
    <2>2. Following(id) = [k \in 1..n |-> chain[k]]
        BY <1>1 DEF n
    <2>3. i \in 1..n
        BY <2>1, <2>2
    <2>4. i \in 1..Batch
        BY <1>2, <2>1, <2>3
    <2>5. Following(id)[i] = chain[i]
        BY <2>2, <2>3
    <2> QED
        BY <1>7, <2>4, <2>5

\* The ids before the first that leaves the subtree are rows of the table.
LEMMA InsideIs ==
    ASSUME NEW ids \in Seq(Nat)
    PROVE  /\ Inside(ids) \in 0..Len(ids)
           /\ \A i \in 1..Inside(ids) : ids[i] \in First..Top
           /\ Inside(ids) < Len(ids) => ids[Inside(ids) + 1] \notin First..Top
<1> DEFINE stops == {i \in DOMAIN ids : ids[i] \notin First..Top}
           least == CHOOSE i \in stops : \A j \in stops : i <= j
<1>1. Len(ids) \in Nat /\ DOMAIN ids = 1..Len(ids)
    OBVIOUS
<1>2. Inside(ids) = IF stops = {} THEN Len(ids) ELSE least - 1
    BY DEF Inside
<1>3. CASE stops = {}
    <2>1. Inside(ids) = Len(ids)
        BY <1>2, <1>3
    <2>2. \A i \in 1..Len(ids) : ids[i] \in First..Top
        BY <1>1, <1>3
    <2> QED
        BY <1>1, <2>1, <2>2
<1>4. CASE stops # {}
    <2>1. stops \in SUBSET Nat
        BY <1>1
    <2> HIDE DEF stops
    <2>2. \E i \in stops : \A j \in stops : i <= j
        BY <1>4, <2>1, LeastOf
    <2>3. least \in stops /\ \A j \in stops : least <= j
        BY <2>2
    <2> HIDE DEF least
    <2>4. least \in 1..Len(ids) /\ ids[least] \notin First..Top
        BY <1>1, <2>3 DEF stops
    <2>5. \A i \in 1..least - 1 : i \in 1..Len(ids) /\ ~(least <= i)
        BY <1>1, <2>4
    <2>6. \A i \in 1..least - 1 : ids[i] \in First..Top
        BY <1>1, <2>3, <2>5 DEF stops
    <2>7. Inside(ids) = least - 1
        BY <1>2, <1>4
    <2>8. least - 1 \in 0..Len(ids) /\ (least - 1) + 1 = least
        BY <1>1, <2>4
    <2> QED
        BY <2>4, <2>6, <2>7, <2>8
<1> QED
    BY <1>3, <1>4

\* A row is added unless it is the last one again.
Extend(s, x) == IF s # <<>> /\ s[Len(s)] = x THEN s ELSE Append(s, x)

\* The rows of a walk grow by the ids of an answer, one after another.
LEMMA RowsAdded ==
    ASSUME NEW ids \in Seq(Nat), out \in Seq(First..Top)
    PROVE  \E add \in [0..Inside(ids) -> Seq(First..Top)] :
              /\ add[0] = out
              /\ \A i \in 1..Inside(ids) : add[i] = Extend(add[i - 1], ids[i])
              /\ Rows(ids) = add[Inside(ids)]
<1> DEFINE k == Inside(ids)
           A == Seq(First..Top)
           Body(f) == [i \in 0..k |->
                         IF i = 0 THEN out
                         ELSE IF f[i - 1] # <<>> /\ f[i - 1][Len(f[i - 1])] = ids[i] THEN f[i - 1]
                         ELSE Append(f[i - 1], ids[i])]
           add == CHOOSE f : f = Body(f)
           follow == [p \in Nat \X A |-> IF p[1] \in 1..k THEN Extend(p[2], ids[p[1]]) ELSE p[2]]
<1>1. k \in Nat /\ \A i \in 1..k : ids[i] \in First..Top
    BY InsideIs
<1>2. Rows(ids) = add[k]
    BY DEF Rows
<1> HIDE DEF k
<1>3. follow \in [Nat \X A -> A]
    <2>1. ASSUME NEW s \in A, NEW x \in First..Top PROVE Extend(s, x) \in A
        <3>1. Append(s, x) \in A
            OBVIOUS
        <3> HIDE DEF A
        <3> QED
            BY <3>1 DEF Extend
    <2> HIDE DEF A
    <2> SUFFICES ASSUME NEW p \in Nat \X A
                 PROVE  (IF p[1] \in 1..k THEN Extend(p[2], ids[p[1]]) ELSE p[2]) \in A
        OBVIOUS
    <2> QED
        BY <1>1, <2>1
<1>4. \A i \in 1..k, s \in A : follow[<<i, s>>] = Extend(s, ids[i])
    <2> HIDE DEF A
    <2> QED
        BY <1>1
<1>5. out \in A
    OBVIOUS
<1> HIDE DEF follow, A
<1>6. PICK f \in [0..k -> A] : Recurs(f, out, follow, k)
    BY <1>1, <1>3, <1>5, Recursion
<1>7. f[0] = out /\ \A i \in 1..k : f[i] = Extend(f[i - 1], ids[i])
    <2> SUFFICES ASSUME NEW i \in 1..k PROVE f[i] = Extend(f[i - 1], ids[i])
        BY <1>6 DEF Recurs
    <2>1. i - 1 \in 0..k
        BY <1>1
    <2>2. f[i - 1] \in A
        BY <2>1
    <2> QED
        BY <1>4, <1>6, <2>2 DEF Recurs
<1>8. f = Body(f)
    <2>1. \A i \in 0..k : i # 0 => i \in 1..k
        BY <1>1
    <2> QED
        BY <1>7, <2>1 DEF Extend
<1>9. add = Body(add)
    BY <1>8
<1> HIDE DEF add
<1>10. add[0] = out /\ \A i \in 1..k : add[i] = Extend(add[i - 1], ids[i])
    <2>1. 0 \in 0..k /\ \A i \in 1..k : i \in 0..k /\ i # 0
        BY <1>1
    <2>2. \A i \in 0..k : add[i] =
                         IF i = 0 THEN out
                         ELSE IF add[i - 1] # <<>> /\ add[i - 1][Len(add[i - 1])] = ids[i] THEN add[i - 1]
                         ELSE Append(add[i - 1], ids[i])
        BY <1>9
    <2> QED
        BY <2>1, <2>2 DEF Extend
<1>11. 0..k \subseteq {i \in Nat : i \in 0..k => add[i] = f[i]}
    <2> DEFINE S == {i \in Nat : i \in 0..k => add[i] = f[i]}
    <2>1. 0 \in S
        BY <1>7, <1>10
    <2>2. ASSUME NEW i \in 0..k, i < k, i \in S PROVE i + 1 \in S
        <3>1. i + 1 \in 1..k /\ (i + 1) - 1 = i /\ i + 1 \in Nat
            BY <1>1, <2>2
        <3>2. add[i] = f[i]
            BY <2>2
        <3> QED
            BY <1>7, <1>10, <3>1, <3>2
    <2> HIDE DEF S
    <2>3. 0..k \subseteq S
        BY <1>1, <2>1, <2>2, UpTo
    <2> QED
        BY <2>3 DEF S
<1>12. k \in 0..k
    BY <1>1
<1>13. Rows(ids) = f[k]
    BY <1>2, <1>11, <1>12
<1>14. \E g \in [0..k -> A] :
          /\ g[0] = out
          /\ \A i \in 1..k : g[i] = Extend(g[i - 1], ids[i])
          /\ Rows(ids) = g[k]
    BY <1>7, <1>13
<1> QED
    BY <1>14 DEF k, A

\* They are rows of the table, no more than before and those of the answer.
LEMMA RowsType ==
    ASSUME NEW ids \in Seq(Nat), out \in Seq(First..Top)
    PROVE  /\ Rows(ids) \in Seq(First..Top)
           /\ Len(Rows(ids)) <= Len(out) + Inside(ids)
           /\ Rows(ids) = out \/ Len(Rows(ids)) > Len(out)
<1> DEFINE k == Inside(ids)
<1>1. k \in Nat /\ \A i \in 1..k : ids[i] \in First..Top
    BY InsideIs
<1>2. PICK add \in [0..k -> Seq(First..Top)] :
          /\ add[0] = out
          /\ \A i \in 1..k : add[i] = Extend(add[i - 1], ids[i])
          /\ Rows(ids) = add[k]
    BY RowsAdded
<1> HIDE DEF k
<1> DEFINE S == {i \in Nat : i \in 0..k =>
                    /\ Len(add[i]) <= Len(out) + i
                    /\ add[i] = out \/ Len(add[i]) > Len(out)}
<1>3. 0 \in S
    BY <1>2
<1>4. ASSUME NEW i \in 0..k, i < k, i \in S PROVE i + 1 \in S
    <2>1. i + 1 \in 1..k /\ (i + 1) - 1 = i /\ i + 1 \in Nat /\ i \in Nat
        BY <1>1, <1>4
    <2>2. add[i + 1] = Extend(add[i], ids[i + 1])
        BY <1>2, <2>1
    <2>3. Len(add[i]) <= Len(out) + i /\ (add[i] = out \/ Len(add[i]) > Len(out))
        BY <1>4
    <2>4. add[i] \in Seq(First..Top) /\ ids[i + 1] \in First..Top
        BY <1>1, <2>1
    <2>5. Len(out) \in Nat /\ Len(add[i]) \in Nat
        BY <2>4
    <2>6. CASE add[i + 1] = add[i]
        BY <2>1, <2>3, <2>5, <2>6
    <2>7. CASE add[i + 1] = Append(add[i], ids[i + 1])
        <3>1. Len(add[i + 1]) = Len(add[i]) + 1
            BY <2>4, <2>7
        <3> QED
            BY <2>1, <2>3, <2>5, <3>1
    <2> QED
        BY <2>2, <2>6, <2>7 DEF Extend
<1> HIDE DEF S
<1>5. 0..k \subseteq S
    BY <1>1, <1>3, <1>4, UpTo
<1>6. k \in 0..k
    BY <1>1
<1>7. /\ Len(add[k]) <= Len(out) + k
      /\ add[k] = out \/ Len(add[k]) > Len(out)
    BY <1>5, <1>6 DEF S
<1>8. add[k] \in Seq(First..Top)
    BY <1>6
<1> QED
    BY <1>2, <1>7, <1>8 DEF k

\* s is the table's rows from the first on.
InOrder(s) == \A i \in 1..Len(s) : s[i] = First + i - 1

\* Ids that continue the table in order extend the rows in order.
LEMMA RowsGood ==
    ASSUME NEW ids \in Seq(Nat), out \in Seq(First..Top), InOrder(out),
           \A i \in 1..Inside(ids) : ids[i] = First + Len(out) + i - 1
    PROVE  InOrder(Rows(ids)) /\ Len(Rows(ids)) = Len(out) + Inside(ids)
<1> DEFINE k == Inside(ids)
<1>1. k \in Nat /\ \A i \in 1..k : ids[i] \in First..Top
    BY InsideIs
<1>2. PICK add \in [0..k -> Seq(First..Top)] :
          /\ add[0] = out
          /\ \A i \in 1..k : add[i] = Extend(add[i - 1], ids[i])
          /\ Rows(ids) = add[k]
    BY RowsAdded
<1>3. \A i \in 1..k : ids[i] = First + Len(out) + i - 1
    OBVIOUS
<1> HIDE DEF k
<1> DEFINE S == {i \in Nat : i \in 0..k => InOrder(add[i]) /\ Len(add[i]) = Len(out) + i}
<1>4. 0 \in S
    BY <1>2
<1>5. ASSUME NEW i \in 0..k, i < k, i \in S PROVE i + 1 \in S
    <2>1. i + 1 \in 1..k /\ (i + 1) - 1 = i /\ i + 1 \in Nat /\ i \in Nat
        BY <1>1, <1>5
    <2>2. add[i + 1] = Extend(add[i], ids[i + 1])
        BY <1>2, <2>1
    <2>3. InOrder(add[i]) /\ Len(add[i]) = Len(out) + i
        BY <1>5
    <2>4. add[i] \in Seq(First..Top) /\ ids[i + 1] \in First..Top
        BY <1>1, <2>1
    <2>5. Len(out) \in Nat /\ Len(add[i]) \in Nat /\ First \in Nat
        BY <2>4, SnmpAssumption
    <2>6. ids[i + 1] = First + Len(add[i])
        BY <1>3, <2>1, <2>3, <2>5
    <2>7. add[i + 1] = Append(add[i], ids[i + 1])
        <3>1. ASSUME add[i] # <<>> PROVE add[i][Len(add[i])] # ids[i + 1]
            <4>1. Len(add[i]) \in 1..Len(add[i])
                BY <2>4, <3>1
            <4>2. add[i][Len(add[i])] = First + Len(add[i]) - 1
                BY <2>3, <4>1 DEF InOrder
            <4> QED
                BY <2>5, <2>6, <4>2
        <3> QED
            BY <2>2, <3>1 DEF Extend
    <2>8. Len(add[i + 1]) = Len(add[i]) + 1
        BY <2>4, <2>7
    <2>9. ASSUME NEW j \in 1..Len(add[i]) + 1 PROVE add[i + 1][j] = First + j - 1
        <3>1. CASE j <= Len(add[i])
            <4>1. j \in 1..Len(add[i])
                BY <2>5, <3>1
            <4>2. add[i + 1][j] = add[i][j]
                BY <2>4, <2>7, <4>1
            <4> QED
                BY <2>3, <4>1, <4>2 DEF InOrder
        <3>2. CASE ~(j <= Len(add[i]))
            <4>1. j = Len(add[i]) + 1
                BY <2>5, <3>2
            <4>2. add[i + 1][j] = ids[i + 1]
                BY <2>4, <2>7, <4>1
            <4> QED
                BY <2>5, <2>6, <4>1, <4>2
        <3> QED
            BY <3>1, <3>2
    <2> QED
        BY <2>1, <2>3, <2>5, <2>8, <2>9 DEF InOrder
<1> HIDE DEF S
<1>6. 0..k \subseteq S
    BY <1>1, <1>4, <1>5, UpTo
<1>7. k \in 0..k
    BY <1>1
<1> QED
    BY <1>2, <1>6, <1>7 DEF S, k

\* Types that the invariant below adds to SnmpTypeOK.
SnmpTypes ==
    /\ SnmpTypeOK
    /\ \A q \in asked : q.id < nextId
    /\ \A d \in net : d.id \in Nat /\ d.id < nextId /\ d.read \in 0..ticks /\ d.ids \in Seq(Nat)
    /\ rounds \in Nat /\ moreOf \in Nat
    /\ out \in Seq(First..Top) /\ lastWalk \in Seq(First..Top)

\* Nothing is sent before the client stands, and no tick has begun during the probe.
BeforeTheFirst ==
    /\ stage = "construct" => asked = {} /\ net = {} /\ ask = Nobody /\ lastWalk = <<>>
    /\ stage \in {"construct", "sysname", "sysdescr"} => ticks = 0

\* What is in flight under the id that is waited for is what was asked, read in
\* this tick.
ToTheAsker ==
    ask # Nobody =>
        /\ stage \in Kinds
        /\ ask.kind = stage /\ ask.from = moreOf
        /\ \A q \in asked : q.id = ask.id => q = ask
        /\ \A d \in net : d.id = ask.id =>
              /\ d.read = ticks
              /\ stage = "walk" => d.ids = Following(moreOf)

\* A walk goes on after a scalar exchange that succeeded or is held missed.
ScalarsFirst ==
    stage \in {"walk", "print"} => shown.scalars = ticks \/ "get" \in missed

\* The walk so far.
WalkSoFar ==
    /\ stage # "walk" => out = <<>> /\ rounds = 0
    /\ moreOf = IF out = <<>> THEN Subtree ELSE out[Len(out)]
    /\ Len(out) < Limit
    /\ rounds <= Len(out) + (IF ask = Nobody THEN 0 ELSE 1)
    /\ agent = "good" => InOrder(out)

\* The inductive invariant.
SnmpInv ==
    /\ SnmpTypes
    /\ BeforeTheFirst
    /\ ToTheAsker
    /\ ScalarsFirst
    /\ TickIsFresh
    /\ WalkSoFar
    /\ WalkIsTable

\* What the agent would answer is the same while it, the version and the position are.
LEMMA FollowingSame ==
    ASSUME version' = version, agent' = agent, moreOf' = moreOf
    PROVE  Following(moreOf)' = Following(moreOf)
    BY DEF Following, Successor

\* The invariant holds before the client is constructed.
LEMMA SnmpStart ==
    ASSUME SnmpInit
    PROVE  SnmpInv
<1> USE SnmpAssumption DEF SnmpInit
<1>1. SnmpTypes
    BY DEF SnmpTypes, SnmpTypeOK, Agents, Kinds, Subtree
<1>2. BeforeTheFirst /\ ToTheAsker /\ ScalarsFirst /\ TickIsFresh
    BY DEF BeforeTheFirst, ToTheAsker, ScalarsFirst, TickIsFresh
<1>3. WalkSoFar
    BY DEF WalkSoFar, InOrder
<1>4. WalkIsTable
    BY DEF WalkIsTable
<1> QED
    BY <1>1, <1>2, <1>3, <1>4 DEF SnmpInv

\* The client is constructed, and the probe begins.
LEMMA ConstructKeeps ==
    ASSUME SnmpInv, Construct
    PROVE  SnmpInv'
<1> USE DEF Construct, transport, walking
<1>1. SnmpTypes'
    BY DEF SnmpInv, SnmpTypes, SnmpTypeOK, Kinds
<1>2. BeforeTheFirst' /\ ToTheAsker'
    BY DEF SnmpInv, BeforeTheFirst, ToTheAsker
<1>3. ScalarsFirst' /\ TickIsFresh'
    BY DEF SnmpInv, ScalarsFirst, TickIsFresh
<1>4. WalkSoFar'
    <2>1. stage # "walk" /\ stage' # "walk" /\ out = <<>>
        BY DEF SnmpInv, WalkSoFar
    <2>2. InOrder(out)'
        BY <2>1 DEF InOrder
    <2> QED
        BY <2>1, <2>2 DEF SnmpInv, WalkSoFar, Subtree
<1>5. WalkIsTable'
    BY DEF SnmpInv, BeforeTheFirst, WalkIsTable
<1> QED
    BY <1>1, <1>2, <1>3, <1>4, <1>5 DEF SnmpInv

\* A request is sent from a port, under an id of its own.
LEMMA SendKeeps ==
    ASSUME SnmpInv, Send
    PROVE  SnmpInv'
<1> USE SnmpAssumption
<1>1. PICK p \in Ports :
        /\ ask' = [id |-> nextId, port |-> p, kind |-> stage, from |-> moreOf]
        /\ asked' = {q \in asked : q.id + Delay >= nextId} \cup {ask'}
    BY DEF Send
<1>2. nextId \in Nat /\ ask'.id = nextId /\ ask' \in asked' /\ nextId' = nextId + 1
    BY <1>1 DEF Send, SnmpInv, SnmpTypes, SnmpTypeOK
<1>3. \A q \in asked : q.id \in Nat /\ q.id < nextId
    BY DEF SnmpInv, SnmpTypes, SnmpTypeOK, Datagrams
<1>4. SnmpTypes'
    <2>1. ask' \in Datagrams
        BY <1>1 DEF Send, SnmpInv, SnmpTypes, SnmpTypeOK, Datagrams
    <2>2. asked' \subseteq Datagrams
        BY <1>1, <2>1 DEF SnmpInv, SnmpTypes, SnmpTypeOK
    <2>3. SnmpTypeOK'
        BY <1>2, <2>2 DEF Send, SnmpInv, SnmpTypes, SnmpTypeOK
    <2>4. \A q \in asked' : q.id < nextId'
        BY <1>1, <1>2, <1>3
    <2>5. (\A d \in net : d.id \in Nat /\ d.id < nextId /\ d.read \in 0..ticks /\ d.ids \in Seq(Nat))'
        <3>1. \A d \in net : d.id < nextId + 1
            BY <1>2 DEF SnmpInv, SnmpTypes
        <3> QED
            BY <1>2, <3>1 DEF Send, SnmpInv, SnmpTypes
    <2> QED
        BY <2>3, <2>4, <2>5 DEF Send, SnmpInv, SnmpTypes
<1>5. BeforeTheFirst'
    BY DEF Send, SnmpInv, BeforeTheFirst, Kinds
<1>6. ToTheAsker'
    <2>1. \A q \in asked' : q.id = nextId => q = ask'
        BY <1>1, <1>2, <1>3
    <2>2. \A d \in net : d.id # nextId
        BY <1>2 DEF SnmpInv, SnmpTypes
    <2> QED
        BY <1>1, <1>2, <2>1, <2>2 DEF Send, ToTheAsker
<1>7. ScalarsFirst' /\ TickIsFresh'
    BY DEF Send, SnmpInv, ScalarsFirst, TickIsFresh, Kinds
<1>8. rounds \in Nat /\ Len(out) \in Nat /\ rounds <= Len(out)
    BY DEF Send, SnmpInv, SnmpTypes, WalkSoFar
<1>9. WalkSoFar'
    <2>1. InOrder(out)' <=> InOrder(out)
        BY DEF Send, InOrder
    <2>2. rounds' <= Len(out) + (IF ask' = Nobody THEN 0 ELSE 1)
        <3>1. ask' # Nobody
            BY <1>4, <1>2, NobodyAssumption DEF SnmpTypes, SnmpTypeOK
        <3> QED
            BY <1>8, <3>1 DEF Send
    <2> QED
        BY <2>1, <2>2 DEF Send, SnmpInv, WalkSoFar, Subtree
<1>10. WalkIsTable'
    BY <1>8 DEF Send, SnmpInv, WalkIsTable, WalkSoFar
<1> QED
    BY <1>4, <1>5, <1>6, <1>7, <1>9, <1>10 DEF SnmpInv

\* The agent answers a request, possibly one answered before.
LEMMA AgentAnswersKeeps ==
    ASSUME SnmpInv, NEW r \in asked, AgentAnswers(r)
    PROVE  SnmpInv'
<1> USE DEF walking
<1> DEFINE reply(fine) ==
        [to |-> r.port, id |-> r.id, kind |-> r.kind, read |-> ticks, fine |-> fine,
         ids |-> IF r.kind = "walk" THEN Following(r.from) ELSE <<>>]
<1>0. PICK fine \in BOOLEAN : net' = net \cup {reply(fine)}
    BY DEF AgentAnswers
<1> DEFINE d == reply(fine)
<1>1. /\ net' = net \cup {d}
      /\ d.id = r.id /\ d.read = ticks
      /\ d.ids = IF r.kind = "walk" THEN Following(r.from) ELSE <<>>
    BY <1>0
<1> HIDE DEF d
<1>2. r \in Datagrams /\ r.id < nextId
    BY DEF SnmpInv, SnmpTypes, SnmpTypeOK
<1>3. d.id \in Nat /\ d.id < nextId /\ d.read \in 0..ticks
    BY <1>1, <1>2 DEF Datagrams, SnmpInv, SnmpTypes, SnmpTypeOK
<1>4. d.ids \in Seq(Nat)
    <2>1. r.from \in Nat /\ version \in {1, 2}
        BY <1>2 DEF Datagrams, SnmpInv, SnmpTypes, SnmpTypeOK
    <2>2. Following(r.from) \in Seq(Nat)
        BY <2>1, FollowingType
    <2> QED
        BY <1>1, <2>2
<1>5. SnmpTypes'
    <2>1. (\A e \in net : e.id \in Nat /\ e.id < nextId /\ e.read \in 0..ticks /\ e.ids \in Seq(Nat))'
        BY <1>1, <1>3, <1>4 DEF AgentAnswers, SnmpInv, SnmpTypes
    <2>2. SnmpTypeOK'
        BY DEF AgentAnswers, SnmpInv, SnmpTypes, SnmpTypeOK
    <2> QED
        BY <2>1, <2>2 DEF AgentAnswers, SnmpInv, SnmpTypes
<1>6. BeforeTheFirst'
    BY DEF AgentAnswers, SnmpInv, BeforeTheFirst
<1>7. ToTheAsker'
    <2>1. Following(moreOf)' = Following(moreOf)
        BY FollowingSame DEF AgentAnswers
    <2> SUFFICES ASSUME ask # Nobody
                 PROVE  \A e \in net' : e.id = ask.id =>
                          e.read = ticks /\ (stage = "walk" => e.ids = Following(moreOf))
        BY <2>1 DEF AgentAnswers, SnmpInv, ToTheAsker
    <2>2. \A e \in net : e.id = ask.id =>
                          e.read = ticks /\ (stage = "walk" => e.ids = Following(moreOf))
        BY DEF SnmpInv, ToTheAsker
    <2>3. ASSUME r.id = ask.id PROVE r = ask /\ r.kind = stage /\ r.from = moreOf
        BY <2>3 DEF SnmpInv, ToTheAsker
    <2> QED
        BY <1>1, <2>2, <2>3
<1>8. ScalarsFirst' /\ TickIsFresh'
    BY DEF AgentAnswers, SnmpInv, ScalarsFirst, TickIsFresh
<1>9. WalkSoFar'
    <2>1. InOrder(out)' <=> InOrder(out)
        BY DEF AgentAnswers, InOrder
    <2> QED
        BY <2>1 DEF AgentAnswers, SnmpInv, WalkSoFar, Subtree
<1>10. WalkIsTable'
    BY DEF AgentAnswers, SnmpInv, WalkIsTable
<1> QED
    BY <1>5, <1>6, <1>7, <1>8, <1>9, <1>10 DEF SnmpInv

\* A datagram is lost.
LEMMA LoseKeeps ==
    ASSUME SnmpInv, NEW d \in net, Lose(d)
    PROVE  SnmpInv'
<1> USE DEF Lose, walking
<1>1. net' \subseteq net
    OBVIOUS
<1>2. SnmpTypes'
    BY <1>1 DEF SnmpInv, SnmpTypes, SnmpTypeOK
<1>3. BeforeTheFirst'
    BY <1>1 DEF SnmpInv, BeforeTheFirst
<1>4. ToTheAsker'
    <2>1. Following(moreOf)' = Following(moreOf)
        BY FollowingSame
    <2> QED
        BY <1>1, <2>1 DEF SnmpInv, ToTheAsker
<1>5. ScalarsFirst' /\ TickIsFresh'
    BY DEF SnmpInv, ScalarsFirst, TickIsFresh
<1>6. WalkSoFar'
    <2>1. InOrder(out)' <=> InOrder(out)
        BY DEF InOrder
    <2> QED
        BY <2>1 DEF SnmpInv, WalkSoFar, Subtree
<1>7. WalkIsTable'
    BY DEF SnmpInv, WalkIsTable
<1> QED
    BY <1>2, <1>3, <1>4, <1>5, <1>6, <1>7 DEF SnmpInv

\* A tick is printed and the next one begins.
LEMMA PrintTickKeeps ==
    ASSUME SnmpInv, PrintTick
    PROVE  SnmpInv'
<1> USE SnmpAssumption DEF PrintTick, transport, walking
<1>1. stage = "print" /\ stage' \in {"stopped", "get"} /\ ask' = ask /\ out' = out
    OBVIOUS
<1>2. ask = Nobody
    BY <1>1 DEF SnmpInv, ToTheAsker, Kinds
<1>3. ticks \in Nat /\ ticks' \in Nat /\ ticks <= ticks' /\ ticks' <= MaxTicks + 1
    BY DEF SnmpInv, SnmpTypes, SnmpTypeOK
<1>4. SnmpTypes'
    <2>1. 0..ticks \subseteq 0..ticks'
        BY <1>3
    <2>2. SnmpTypeOK'
        BY <1>1, <1>2, <1>3, <2>1 DEF SnmpInv, SnmpTypes, SnmpTypeOK, Kinds
    <2> QED
        BY <2>1, <2>2 DEF SnmpInv, SnmpTypes
<1>5. BeforeTheFirst' /\ ToTheAsker' /\ ScalarsFirst' /\ TickIsFresh'
    BY <1>1, <1>2 DEF BeforeTheFirst, ToTheAsker, ScalarsFirst, TickIsFresh
<1>6. WalkSoFar'
    <2>1. InOrder(out)' <=> InOrder(out)
        BY DEF InOrder
    <2> QED
        BY <1>1, <2>1 DEF SnmpInv, WalkSoFar, Subtree
<1>7. WalkIsTable'
    BY DEF SnmpInv, WalkIsTable
<1> QED
    BY <1>4, <1>5, <1>6, <1>7 DEF SnmpInv

\* An exchange that fails, for whatever reason, leaves nothing of it behind.
LEMMA FailedKeeps ==
    ASSUME SnmpInv, ask # Nobody, Failed, net' \subseteq net, asked' = asked, nextId' = nextId
    PROVE  SnmpInv'
<1> USE SnmpAssumption
<1>1. stage \in Kinds /\ ask' = Nobody /\ out' = <<>> /\ rounds' = 0 /\ moreOf' = Subtree
    BY DEF Failed, SnmpInv, ToTheAsker
<1>2. /\ stage = "sysname" => stage' = "failed" /\ ticks' = ticks /\ missed' = missed
      /\ stage = "sysdescr" => stage' = "get" /\ ticks' = ticks + 1 /\ missed' = missed
      /\ stage = "get" => stage' = "walk" /\ ticks' = ticks /\ missed' = missed \cup {"get"}
      /\ stage = "walk" => stage' = "print" /\ ticks' = ticks /\ missed' = missed \cup {"walk"}
    BY <1>1 DEF Failed, Kinds
<1>3. stage \in {"sysname", "sysdescr", "get", "walk"}
    BY <1>1 DEF Kinds
<1>4. ticks \in Nat /\ ticks' \in Nat /\ ticks <= ticks' /\ ticks' <= MaxTicks + 1
    <2>1. ticks \in 0..MaxTicks + 1 /\ (stage = "sysdescr" => ticks = 0)
        BY DEF SnmpInv, SnmpTypes, SnmpTypeOK, BeforeTheFirst
    <2> QED
        BY <2>1, <1>2, <1>3
<1>5. SnmpTypes'
    <2>1. 0..ticks \subseteq 0..ticks'
        BY <1>4
    <2>2. shown' \in [scalars : 0..ticks', rows : 0..ticks']
        BY <2>1 DEF Failed, SnmpInv, SnmpTypes, SnmpTypeOK
    <2>3. stage' \in {"failed", "get", "walk", "print"}
        BY <1>2, <1>3
    <2>4. SnmpTypeOK'
        BY <1>1, <1>4, <2>2, <2>3 DEF Failed, SnmpInv, SnmpTypes, SnmpTypeOK, Kinds
    <2>5. (\A d \in net : d.id \in Nat /\ d.id < nextId /\ d.read \in 0..ticks /\ d.ids \in Seq(Nat))'
        BY <2>1 DEF SnmpInv, SnmpTypes
    <2>6. Subtree \in Nat
        BY DEF Subtree
    <2> QED
        BY <1>1, <2>4, <2>5, <2>6 DEF Failed, SnmpInv, SnmpTypes
<1>6. BeforeTheFirst' /\ ToTheAsker'
    BY <1>1, <1>2, <1>3 DEF SnmpInv, BeforeTheFirst, ToTheAsker
<1>7. ScalarsFirst'
    BY <1>2, <1>3 DEF Failed, SnmpInv, ScalarsFirst
<1>8. TickIsFresh'
    BY <1>2, <1>3 DEF Failed, SnmpInv, ScalarsFirst, TickIsFresh
<1>9. WalkSoFar'
    BY <1>1 DEF Failed, WalkSoFar, InOrder, Subtree
<1>10. WalkIsTable'
    BY <1>1 DEF Failed, SnmpInv, WalkIsTable
<1> QED
    BY <1>5, <1>6, <1>7, <1>8, <1>9, <1>10 DEF SnmpInv

\* An answer with scalars is taken.
LEMMA ReceiveScalarsKeeps ==
    ASSUME SnmpInv, NEW d \in net, ReceiveScalars(d)
    PROVE  SnmpInv'
<1> USE SnmpAssumption
<1>1. /\ stage \in {"sysname", "sysdescr", "get"}
      /\ ask # Nobody /\ d.id = ask.id /\ ask' = Nobody /\ net' \subseteq net
    BY DEF ReceiveScalars, AnswersIt, SnmpInv, ToTheAsker, Kinds
<1>2. /\ stage = "sysname" => stage' = "sysdescr" /\ ticks' = ticks /\ shown' = shown
      /\ stage = "sysdescr" => stage' = "get" /\ ticks' = ticks + 1 /\ shown' = shown
      /\ stage = "get" => stage' = "walk" /\ ticks' = ticks /\ shown' = [shown EXCEPT !.scalars = d.read]
    BY <1>1 DEF ReceiveScalars
<1>3. d.read = ticks
    BY <1>1 DEF SnmpInv, ToTheAsker
<1>4. ticks \in Nat /\ ticks' \in Nat /\ ticks <= ticks' /\ ticks' <= MaxTicks + 1
    <2>1. ticks \in 0..MaxTicks + 1 /\ (stage = "sysdescr" => ticks = 0)
        BY DEF SnmpInv, SnmpTypes, SnmpTypeOK, BeforeTheFirst
    <2> QED
        BY <2>1, <1>1, <1>2
<1>5. shown' \in [scalars : 0..ticks', rows : 0..ticks']
    <2>1. 0..ticks \subseteq 0..ticks' /\ ticks \in 0..ticks'
        BY <1>4
    <2>2. shown \in [scalars : 0..ticks, rows : 0..ticks]
        BY DEF SnmpInv, SnmpTypes, SnmpTypeOK
    <2> QED
        BY <1>1, <1>2, <1>3, <2>1, <2>2
<1>6. SnmpTypes'
    <2>1. 0..ticks \subseteq 0..ticks'
        BY <1>4
    <2>2. stage' \in {"sysdescr", "get", "walk"}
        BY <1>1, <1>2
    <2>3. SnmpTypeOK'
        BY <1>1, <1>4, <1>5, <2>2 DEF ReceiveScalars, SnmpInv, SnmpTypes, SnmpTypeOK, Kinds
    <2>4. (\A e \in net : e.id \in Nat /\ e.id < nextId /\ e.read \in 0..ticks /\ e.ids \in Seq(Nat))'
        BY <1>1, <2>1 DEF ReceiveScalars, SnmpInv, SnmpTypes
    <2> QED
        BY <2>3, <2>4 DEF ReceiveScalars, walking, SnmpInv, SnmpTypes
<1>7. BeforeTheFirst' /\ ToTheAsker' /\ TickIsFresh'
    BY <1>1, <1>2 DEF SnmpInv, BeforeTheFirst, ToTheAsker, TickIsFresh
<1>8. ScalarsFirst'
    <2>1. shown \in [scalars : 0..ticks, rows : 0..ticks]
        BY DEF SnmpInv, SnmpTypes, SnmpTypeOK
    <2> QED
        BY <1>1, <1>2, <1>3, <2>1 DEF ScalarsFirst
<1>9. out' = out /\ rounds' = rounds /\ moreOf' = moreOf /\ agent' = agent /\ lastWalk' = lastWalk
    BY DEF ReceiveScalars, walking
<1>10. WalkSoFar'
    <2>1. out = <<>> /\ rounds = 0 /\ moreOf = Subtree
        BY <1>1 DEF SnmpInv, WalkSoFar
    <2> QED
        BY <1>1, <1>9, <2>1 DEF WalkSoFar, Subtree, InOrder
<1>11. WalkIsTable'
    BY <1>9 DEF SnmpInv, WalkIsTable
<1> QED
    BY <1>6, <1>7, <1>8, <1>10, <1>11 DEF SnmpInv

\* The rows of a walk are rows of the table.
LEMMA EntriesIn ==
    ASSUME NEW s \in Seq(First..Top)
    PROVE  \A i \in 1..Len(s) : s[i] \in First..Top
    BY SnmpAssumption

\* An answer with rows is taken: the walk goes on or ends.
LEMMA ReceiveBatchKeeps ==
    ASSUME SnmpInv, NEW d \in net, ReceiveBatch(d)
    PROVE  SnmpInv'
<1> DEFINE rows == Rows(d.ids)
           k == Inside(d.ids)
           n == Len(d.ids)
<1>1. /\ ask # Nobody /\ stage = "walk" /\ d.id = ask.id
      /\ ask' = Nobody /\ net' \subseteq net
      /\ version' = version /\ agent' = agent /\ nextId' = nextId /\ asked' = asked
      /\ ticks' = ticks /\ missed' = missed
    BY DEF ReceiveBatch, AnswersIt
<1>2. d.read = ticks /\ d.ids = Following(moreOf) /\ d.ids \in Seq(Nat)
    BY <1>1 DEF SnmpInv, SnmpTypes, ToTheAsker
<1>3. /\ First \in Nat /\ Top \in Nat /\ First <= Top /\ Batch \in Nat /\ Limit \in Nat /\ Limit > 0
      /\ ticks \in Nat /\ version \in {1, 2}
    BY SnmpAssumption DEF SnmpInv, SnmpTypes, SnmpTypeOK
<1>4. /\ out \in Seq(First..Top) /\ Len(out) \in Nat /\ Len(out) < Limit
      /\ moreOf = IF out = <<>> THEN Subtree ELSE out[Len(out)]
      /\ rounds \in Nat /\ rounds <= Len(out) + 1
    BY <1>1 DEF SnmpInv, SnmpTypes, WalkSoFar
<1>5. moreOf \in Nat /\ moreOf <= Top
    <2>1. out # <<>> => Len(out) \in 1..Len(out)
        BY <1>4
    <2>2. ASSUME out # <<>> PROVE out[Len(out)] \in First..Top
        <3>1. \A i \in 1..Len(out) : out[i] \in First..Top
            BY <1>4, EntriesIn
        <3> QED
            BY <2>1, <2>2, <3>1
    <2>3. Subtree \in Nat /\ Subtree <= Top
        BY SnmpAssumption DEF Subtree
    <2> QED
        BY <1>3, <1>4, <2>2, <2>3
<1>6. n \in 1..Batch
    BY <1>2, <1>3, <1>5, FollowingType
<1>7. /\ k \in 0..n
      /\ \A i \in 1..k : d.ids[i] \in First..Top
      /\ k < n => d.ids[k + 1] \notin First..Top
    BY <1>2, InsideIs
<1>8. /\ rows \in Seq(First..Top) /\ Len(rows) \in Nat
      /\ Len(rows) <= Len(out) + k
      /\ rows = out \/ Len(rows) > Len(out)
    BY <1>2, <1>4, RowsType

\* With a good agent the rows go on where they stopped, and stop short of the
\* batch only at the table's end.
<1>9. ASSUME agent = "good"
      PROVE  InOrder(rows) /\ Len(rows) = Len(out) + k /\ (k < n => Len(rows) = Top - First + 1)
    <2>1. InOrder(out) /\ moreOf = First + Len(out) - 1
        <3>1. InOrder(out)
            BY <1>9 DEF SnmpInv, WalkSoFar
        <3>2. CASE out = <<>>
            BY <1>3, <1>4, <3>1, <3>2 DEF Subtree
        <3>3. CASE out # <<>>
            <4>1. Len(out) \in 1..Len(out)
                BY <1>4, <3>3
            <4> QED
                BY <1>4, <3>1, <3>3, <4>1 DEF InOrder
        <3> QED
            BY <3>1, <3>2, <3>3
    <2>2. \A i \in 1..n : moreOf + i <= Top + 1 => d.ids[i] = moreOf + i
        BY <1>2, <1>3, <1>5, <1>9, FollowingGood
    <2>3. moreOf + k <= Top
        <3>1. CASE k = 0
            BY <1>5, <3>1
        <3>2. CASE k # 0
            <4> SUFFICES ASSUME moreOf + k > Top PROVE FALSE
                BY <1>3, <1>5, <1>7, <1>6
            <4> DEFINE i == Top + 1 - moreOf
            <4>1. i \in 1..k /\ i \in 1..n /\ moreOf + i = Top + 1
                BY <1>3, <1>5, <1>6, <1>7
            <4> HIDE DEF i
            <4>2. d.ids[i] = Top + 1
                BY <1>3, <2>2, <4>1
            <4>3. d.ids[i] \in First..Top
                BY <1>7, <4>1
            <4> QED
                BY <1>3, <4>2, <4>3
        <3> QED
            BY <3>1, <3>2
    <2>4. \A i \in 1..k : d.ids[i] = moreOf + i
        BY <1>3, <1>5, <1>6, <1>7, <2>2, <2>3
    <2>numbers. First \in Nat /\ Top \in Nat /\ Len(out) \in Nat /\ k \in Nat /\ n \in Nat /\ k <= n
        BY <1>3, <1>4, <1>6, <1>7
    <2>last. moreOf = First + Len(out) - 1
        BY <2>1
    <2>5. ASSUME NEW i \in 1..k PROVE d.ids[i] = First + Len(out) + i - 1
        <3>1. d.ids[i] = moreOf + i /\ i \in Nat
            BY <2>4, <2>numbers
        <3> QED
            BY <2>numbers, <2>last, <3>1
    <2>6. InOrder(rows) /\ Len(rows) = Len(out) + k
        BY <1>2, <1>4, <2>1, <2>5, RowsGood
    <2>7. ASSUME k < n PROVE moreOf + k = Top
        <3>1. k + 1 \in 1..n
            BY <1>6, <1>7, <2>7
        <3>2. d.ids[k + 1] = moreOf + (k + 1)
            BY <1>3, <1>5, <1>6, <1>7, <2>2, <2>3, <3>1
        <3>3. d.ids[k + 1] \notin First..Top
            BY <1>7, <2>7
        <3>4. moreOf + (k + 1) \in Int /\ First <= moreOf + (k + 1)
            BY ONLY <1>5, <2>numbers, <2>last
        <3>5. ~(moreOf + (k + 1) <= Top)
            <4>1. moreOf + (k + 1) \notin First..Top
                BY <3>2, <3>3
            <4> QED
                BY ONLY <2>numbers, <3>4, <4>1
        <3> QED
            BY ONLY <1>5, <2>numbers, <2>3, <3>5
    <2> QED
        BY <2>numbers, <2>last, <2>6, <2>7
<1> HIDE DEF rows, k, n
<1>10. CASE WalkDone(d.ids, rows)
    <2>1. /\ stage' = "print" /\ shown' = [shown EXCEPT !.rows = d.read]
          /\ lastWalk' = rows /\ out' = <<>> /\ moreOf' = Subtree /\ rounds' = 0
        BY <1>10 DEF ReceiveBatch, rows
    <2>2. SnmpTypes'
        <3>1. shown' \in [scalars : 0..ticks', rows : 0..ticks']
            BY <1>1, <1>2, <1>3, <2>1 DEF SnmpInv, SnmpTypes, SnmpTypeOK
        <3>2. SnmpTypeOK'
            BY <1>1, <2>1, <3>1 DEF SnmpInv, SnmpTypes, SnmpTypeOK
        <3>3. Subtree \in Nat
            BY SnmpAssumption DEF Subtree
        <3> QED
            BY <1>1, <1>8, <2>1, <3>2, <3>3 DEF SnmpInv, SnmpTypes
    <2>3. BeforeTheFirst' /\ ToTheAsker'
        BY <1>1, <2>1 DEF BeforeTheFirst, ToTheAsker
    <2>4. ScalarsFirst' /\ TickIsFresh'
        <3>1. shown \in [scalars : 0..ticks, rows : 0..ticks]
            BY DEF SnmpInv, SnmpTypes, SnmpTypeOK
        <3>2. shown'.rows = ticks' /\ shown'.scalars = shown.scalars
            BY <1>1, <1>2, <2>1, <3>1
        <3> QED
            BY <1>1, <2>1, <3>2 DEF SnmpInv, ScalarsFirst, TickIsFresh
    <2>5. WalkSoFar'
        BY <1>1, <1>3, <2>1 DEF WalkSoFar, InOrder, Subtree
    <2>6. Len(rows) < Limit + Batch
        BY <1>3, <1>4, <1>6, <1>7, <1>8
    <2>7. ASSUME agent = "good", rows # <<>>
          PROVE  /\ \A i \in DOMAIN rows : rows[i] = First + i - 1 /\ rows[i] <= Top
                 /\ Len(rows) >= Limit \/ Len(rows) = Top - First + 1
        <3>1. \A i \in 1..Len(rows) : rows[i] \in First..Top
            BY <1>8, EntriesIn
        <3>2. DOMAIN rows = 1..Len(rows)
            BY <1>8
        <3>3. \A i \in DOMAIN rows : rows[i] = First + i - 1 /\ rows[i] <= Top
            BY <1>3, <1>9, <2>7, <3>1, <3>2 DEF InOrder
        <3>4. k < n \/ rows # out
            <4>1. Len(rows) = Len(out) + k /\ Len(out) \in Nat /\ n >= 1 /\ k \in Nat /\ n \in Nat /\ k <= n
                BY <1>3, <1>4, <1>6, <1>7, <1>9, <2>7
            <4>2. k = n => Len(rows) # Len(out)
                BY <4>1
            <4> QED
                BY <4>1, <4>2
        <3>5. k < n \/ Len(rows) >= Limit
            BY <1>10, <3>4 DEF WalkDone, k, n
        <3> QED
            BY <1>9, <2>7, <3>3, <3>5
    <2>8. WalkIsTable'
        BY <1>1, <1>3, <2>1, <2>6, <2>7 DEF SnmpInv, WalkIsTable
    <2> QED
        BY <2>2, <2>3, <2>4, <2>5, <2>8 DEF SnmpInv
<1>11. CASE ~WalkDone(d.ids, rows)
    <2>1. /\ out' = rows /\ moreOf' = rows[Len(rows)] /\ rounds' = rounds
          /\ stage' = stage /\ shown' = shown /\ lastWalk' = lastWalk
        BY <1>11 DEF ReceiveBatch, rows
    <2>2. Len(rows) < Limit /\ Len(rows) > Len(out)
        BY <1>3, <1>8, <1>11 DEF WalkDone
    <2>3. rows # <<>> /\ Len(rows) \in 1..Len(rows)
        BY <1>4, <1>8, <2>2
    <2>4. rows[Len(rows)] \in Nat
        <3>1. \A i \in 1..Len(rows) : rows[i] \in First..Top
            BY <1>8, EntriesIn
        <3> QED
            BY <1>3, <2>3, <3>1
    <2>5. SnmpTypes'
        <3>1. SnmpTypeOK'
            BY <1>1, <2>1 DEF SnmpInv, SnmpTypes, SnmpTypeOK
        <3> QED
            BY <1>1, <1>8, <2>1, <2>4, <3>1 DEF SnmpInv, SnmpTypes
    <2>6. BeforeTheFirst' /\ ToTheAsker' /\ ScalarsFirst' /\ TickIsFresh'
        BY <1>1, <2>1 DEF SnmpInv, BeforeTheFirst, ToTheAsker, ScalarsFirst, TickIsFresh
    <2>7. rounds <= Len(rows)
        BY <1>4, <1>8, <2>2
    <2>8. WalkSoFar'
        <3>1. agent' = "good" => InOrder(out)'
            BY <1>1, <1>9, <2>1 DEF InOrder
        <3> QED
            BY <1>1, <1>8, <2>1, <2>2, <2>3, <2>7, <3>1 DEF WalkSoFar
    <2>9. WalkIsTable'
        BY <1>1, <2>1 DEF SnmpInv, WalkIsTable
    <2> QED
        BY <2>5, <2>6, <2>8, <2>9 DEF SnmpInv
<1> QED
    BY <1>10, <1>11

\* A step of nothing keeps the invariant.
LEMMA SnmpStutters ==
    ASSUME SnmpInv, UNCHANGED snmpVars
    PROVE  SnmpInv'
<1> USE DEF snmpVars
<1>1. SnmpTypes'
    BY DEF SnmpInv, SnmpTypes, SnmpTypeOK
<1>2. BeforeTheFirst' /\ ScalarsFirst' /\ TickIsFresh' /\ WalkIsTable'
    BY DEF SnmpInv, BeforeTheFirst, ScalarsFirst, TickIsFresh, WalkIsTable
<1>3. ToTheAsker'
    <2>1. Following(moreOf)' = Following(moreOf)
        BY FollowingSame
    <2> QED
        BY <2>1 DEF SnmpInv, ToTheAsker
<1>4. WalkSoFar'
    <2>1. InOrder(out)' <=> InOrder(out)
        BY DEF InOrder
    <2> QED
        BY <2>1 DEF SnmpInv, WalkSoFar, Subtree
<1> QED
    BY <1>1, <1>2, <1>3, <1>4 DEF SnmpInv

\* Every state of the SNMP client satisfies the invariant, for any table, batch, limit,
\* agent and network.
THEOREM SnmpInvariant == SnmpSpec => []SnmpInv
<1>1. SnmpInit => SnmpInv
    BY SnmpStart
<1>2. SnmpInv /\ [SnmpNext]_snmpVars => SnmpInv'
    <2> SUFFICES ASSUME SnmpInv, [SnmpNext]_snmpVars PROVE SnmpInv'
        OBVIOUS
    <2>1. CASE Construct
        BY <2>1, ConstructKeeps
    <2>2. CASE Send
        BY <2>2, SendKeeps
    <2>3. CASE TimesOut
        BY <2>3, FailedKeeps DEF TimesOut, transport
    <2>4. CASE PrintTick
        BY <2>4, PrintTickKeeps
    <2>5. CASE \E r \in asked : AgentAnswers(r)
        BY <2>5, AgentAnswersKeeps
    <2>6. ASSUME NEW d \in net, Lose(d) PROVE SnmpInv'
        BY <2>6, LoseKeeps
    <2>7. ASSUME NEW d \in net, ReceiveBad(d) PROVE SnmpInv'
        BY <2>7, FailedKeeps DEF ReceiveBad
    <2>8. ASSUME NEW d \in net, ReceiveScalars(d) PROVE SnmpInv'
        BY <2>8, ReceiveScalarsKeeps
    <2>9. ASSUME NEW d \in net, ReceiveBatch(d) PROVE SnmpInv'
        BY <2>9, ReceiveBatchKeeps
    <2>10. CASE UNCHANGED snmpVars
        BY <2>10, SnmpStutters
    <2> QED
        BY <2>1, <2>2, <2>3, <2>4, <2>5, <2>6, <2>7, <2>8, <2>9, <2>10 DEF SnmpNext
<1> QED
    BY <1>1, <1>2, PTL DEF SnmpSpec

\* Stage, requests, datagrams, rows and counts keep their types.
THEOREM SnmpTypesHold == SnmpSpec => []SnmpTypeOK
    BY SnmpInvariant, PTL DEF SnmpInv, SnmpTypes

\* What SnmpClient shows in a tick was read by the agent in that tick or is held missed:
\* an answer to an older request, late or doubled, is not taken.
THEOREM TickIsFreshAlways == SnmpSpec => []TickIsFresh
    BY SnmpInvariant, PTL DEF SnmpInv

\* A walk ends within its limit, and of a good agent with the rows of the table in order
\* and none twice.
THEOREM WalkIsTableAlways == SnmpSpec => []WalkIsTable
    BY SnmpInvariant, PTL DEF SnmpInv

-----------------------------------------------------------------------------
(* Router.                                                                 *)

\* Two lists end to end.
LEMMA TwoPieces ==
    ASSUME NEW R, NEW a \in Seq(R), NEW b \in Seq(R)
    PROVE  /\ a \o b \in Seq(R) /\ Len(a \o b) = Len(a) + Len(b)
           /\ \A i \in 1..Len(a) : (a \o b)[i] = a[i]
           /\ \A i \in 1..Len(b) : (a \o b)[Len(a) + i] = b[i]
OBVIOUS

\* Five lists end to end.
Joined(a, b, c, d, e) == a \o b \o c \o d \o e

\* Where each of them is.
PlacedIn(s, a, b, c, d, e) ==
    /\ Len(s) = Len(a) + Len(b) + Len(c) + Len(d) + Len(e)
    /\ \A i \in 1..Len(a) : s[i] = a[i]
    /\ \A i \in 1..Len(b) : s[Len(a) + i] = b[i]
    /\ \A i \in 1..Len(c) : s[Len(a) + Len(b) + i] = c[i]
    /\ \A i \in 1..Len(d) : s[Len(a) + Len(b) + Len(c) + i] = d[i]
    /\ \A i \in 1..Len(e) : s[Len(a) + Len(b) + Len(c) + Len(d) + i] = e[i]

\* Five sequences put end to end are their pieces.
LEMMA FivePieces ==
    ASSUME NEW R, NEW a \in Seq(R), NEW b \in Seq(R), NEW c \in Seq(R), NEW d \in Seq(R), NEW e \in Seq(R)
    PROVE  Joined(a, b, c, d, e) \in Seq(R) /\ PlacedIn(Joined(a, b, c, d, e), a, b, c, d, e)
<1>1. Len(a) \in Nat /\ Len(b) \in Nat /\ Len(c) \in Nat /\ Len(d) \in Nat /\ Len(e) \in Nat
    OBVIOUS
<1> DEFINE ab == a \o b
           abc == ab \o c
           abcd == abc \o d
           s == abcd \o e
<1>2. /\ ab \in Seq(R) /\ Len(ab) = Len(a) + Len(b)
      /\ \A i \in 1..Len(a) : ab[i] = a[i]
      /\ \A i \in 1..Len(b) : ab[Len(a) + i] = b[i]
    BY TwoPieces
<1> HIDE DEF ab
<1>3. /\ abc \in Seq(R) /\ Len(abc) = Len(ab) + Len(c)
      /\ \A i \in 1..Len(ab) : abc[i] = ab[i]
      /\ \A i \in 1..Len(c) : abc[Len(ab) + i] = c[i]
    <2>1. ab \in Seq(R)
        BY <1>2
    <2> QED
        BY <2>1, TwoPieces
<1> HIDE DEF abc
<1>4. /\ abcd \in Seq(R) /\ Len(abcd) = Len(abc) + Len(d)
      /\ \A i \in 1..Len(abc) : abcd[i] = abc[i]
      /\ \A i \in 1..Len(d) : abcd[Len(abc) + i] = d[i]
    <2>1. abc \in Seq(R)
        BY <1>3
    <2> QED
        BY <2>1, TwoPieces
<1> HIDE DEF abcd
<1>5. /\ s \in Seq(R) /\ Len(s) = Len(abcd) + Len(e)
      /\ \A i \in 1..Len(abcd) : s[i] = abcd[i]
      /\ \A i \in 1..Len(e) : s[Len(abcd) + i] = e[i]
    <2>1. abcd \in Seq(R)
        BY <1>4
    <2> QED
        BY <2>1, TwoPieces
<1>6. s = Joined(a, b, c, d, e)
    BY DEF Joined, s, ab, abc, abcd
<1> HIDE DEF s
<1>7. \A i \in 1..Len(a) : s[i] = a[i]
    BY <1>1, <1>2, <1>3, <1>4, <1>5
<1>8. \A i \in 1..Len(b) : s[Len(a) + i] = b[i]
    <2> SUFFICES ASSUME NEW i \in 1..Len(b) PROVE s[Len(a) + i] = b[i]
        OBVIOUS
    <2>1. Len(a) + i \in 1..Len(ab) /\ Len(a) + i \in 1..Len(abc) /\ Len(a) + i \in 1..Len(abcd)
        BY <1>1, <1>2, <1>3, <1>4
    <2> QED
        BY <1>2, <1>3, <1>4, <1>5, <2>1
<1>9. \A i \in 1..Len(c) : s[Len(a) + Len(b) + i] = c[i]
    <2> SUFFICES ASSUME NEW i \in 1..Len(c) PROVE s[Len(a) + Len(b) + i] = c[i]
        OBVIOUS
    <2>1. Len(a) + Len(b) + i \in 1..Len(abc) /\ Len(a) + Len(b) + i \in 1..Len(abcd)
        BY <1>1, <1>2, <1>3, <1>4
    <2>2. Len(a) + Len(b) + i = Len(ab) + i
        BY <1>2
    <2>3. s[Len(ab) + i] = c[i]
        BY <1>3, <1>4, <1>5, <2>1, <2>2
    <2> QED
        BY <2>2, <2>3
<1>10. \A i \in 1..Len(d) : s[Len(a) + Len(b) + Len(c) + i] = d[i]
    <2> SUFFICES ASSUME NEW i \in 1..Len(d) PROVE s[Len(a) + Len(b) + Len(c) + i] = d[i]
        OBVIOUS
    <2>1. Len(a) + Len(b) + Len(c) + i \in 1..Len(abcd)
        BY <1>1, <1>2, <1>3, <1>4
    <2>2. Len(a) + Len(b) + Len(c) + i = Len(abc) + i
        BY <1>2, <1>3
    <2>3. s[Len(abc) + i] = d[i]
        BY <1>4, <1>5, <2>1, <2>2
    <2> QED
        BY <2>2, <2>3
<1>11. \A i \in 1..Len(e) : s[Len(a) + Len(b) + Len(c) + Len(d) + i] = e[i]
    BY <1>1, <1>2, <1>3, <1>4, <1>5
<1>12. Len(s) = Len(a) + Len(b) + Len(c) + Len(d) + Len(e)
    BY <1>2, <1>3, <1>4, <1>5
<1> QED
    BY <1>5, <1>6, <1>7, <1>8, <1>9, <1>10, <1>11, <1>12 DEF PlacedIn

\* A list is a function on the numbers up to its length.
LEMMA AList == ASSUME NEW R, NEW n \in Nat, NEW f \in [1..n -> R] PROVE f \in Seq(R) /\ Len(f) = n
OBVIOUS

\* Lists written out.
LEMMA Written ==
    ASSUME NEW R
    PROVE  /\ \A a, b, c \in R : <<a, b, c>> \in Seq(R) /\ Len(<<a, b, c>>) = 3
           /\ \A a, b, c, d \in R : <<a, b, c, d>> \in Seq(R) /\ Len(<<a, b, c, d>>) = 4
           /\ \A a, b, c, d, e, f \in R : <<a, b, c, d, e, f>> \in Seq(R) /\ Len(<<a, b, c, d, e, f>>) = 6
OBVIOUS

\* Whatever makes an arm.
ArmSet(get, post, path, body) ==
    {NamedArms(get, path)[i] : i \in 1..12} \cup {SuffixArms(get, path)[i] : i \in 1..6}
    \cup {EventArms(post, path)[i] : i \in 1..3} \cup {ReadArms(get, path)[i] : i \in 1..4}
    \cup {PostArms(post, path, body)[i] : i \in 1..3}

\* The lists of arms and their lengths.
LEMMA Lists ==
    ASSUME NEW get, NEW post, NEW path, NEW body
    PROVE  /\ NamedArms(get, path) \in Seq(ArmSet(get, post, path, body)) /\ Len(NamedArms(get, path)) = 12
           /\ SuffixArms(get, path) \in Seq(ArmSet(get, post, path, body)) /\ Len(SuffixArms(get, path)) = 6
           /\ EventArms(post, path) \in Seq(ArmSet(get, post, path, body)) /\ Len(EventArms(post, path)) = 3
           /\ ReadArms(get, path) \in Seq(ArmSet(get, post, path, body)) /\ Len(ReadArms(get, path)) = 4
           /\ PostArms(post, path, body) \in Seq(ArmSet(get, post, path, body)) /\ Len(PostArms(post, path, body)) = 3
<1> DEFINE A == ArmSet(get, post, path, body)
<1>1. \A i \in 1..12 : NamedArms(get, path)[i] \in A
    BY DEF ArmSet
<1>2. \A i \in 1..6 : SuffixArms(get, path)[i] \in A
    BY DEF ArmSet
<1>3. \A i \in 1..3 : EventArms(post, path)[i] \in A
    BY DEF ArmSet
<1>4. \A i \in 1..4 : ReadArms(get, path)[i] \in A
    BY DEF ArmSet
<1>5. \A i \in 1..3 : PostArms(post, path, body)[i] \in A
    BY DEF ArmSet
<1> HIDE DEF A
<1>6. NamedArms(get, path) \in Seq(A) /\ Len(NamedArms(get, path)) = 12
    <2> DEFINE N == NamedArms(get, path)
    <2>1. N = [n \in 1..12 |-> N[n]]
        BY DEF NamedArms
    <2> HIDE DEF N
    <2>2. \A i \in 1..12 : N[i] \in A
        BY <1>1 DEF N
    <2>3. N \in [1..12 -> A]
        BY <2>1, <2>2
    <2>4. N \in Seq(A) /\ Len(N) = 12
        BY <2>3, AList
    <2> QED
        BY <2>4 DEF N
<1>7. SuffixArms(get, path) \in Seq(A) /\ Len(SuffixArms(get, path)) = 6
    <2>1. \E a, b, c, d, e, f : SuffixArms(get, path) = <<a, b, c, d, e, f>>
        BY Zenon DEF SuffixArms
    <2>2. PICK a, b, c, d, e, f : SuffixArms(get, path) = <<a, b, c, d, e, f>>
        BY <2>1
    <2>3. a \in A /\ b \in A /\ c \in A /\ d \in A /\ e \in A /\ f \in A
        BY <1>2, <2>2
    <2> QED
        BY <2>2, <2>3, Written
<1>8. EventArms(post, path) \in Seq(A) /\ Len(EventArms(post, path)) = 3
    <2>1. \E a, b, c : EventArms(post, path) = <<a, b, c>>
        BY Zenon DEF EventArms
    <2>2. PICK a, b, c : EventArms(post, path) = <<a, b, c>>
        BY <2>1
    <2>3. a \in A /\ b \in A /\ c \in A
        BY <1>3, <2>2
    <2> QED
        BY <2>2, <2>3, Written
<1>9. ReadArms(get, path) \in Seq(A) /\ Len(ReadArms(get, path)) = 4
    <2>1. \E a, b, c, d : ReadArms(get, path) = <<a, b, c, d>>
        BY Zenon DEF ReadArms
    <2>2. PICK a, b, c, d : ReadArms(get, path) = <<a, b, c, d>>
        BY <2>1
    <2>3. a \in A /\ b \in A /\ c \in A /\ d \in A
        BY <1>4, <2>2
    <2> QED
        BY <2>2, <2>3, Written
<1>10. PostArms(post, path, body) \in Seq(A) /\ Len(PostArms(post, path, body)) = 3
    <2>1. \E a, b, c : PostArms(post, path, body) = <<a, b, c>>
        BY Zenon DEF PostArms
    <2>2. PICK a, b, c : PostArms(post, path, body) = <<a, b, c>>
        BY <2>1
    <2>3. a \in A /\ b \in A /\ c \in A
        BY <1>5, <2>2
    <2> QED
        BY <2>2, <2>3, Written
<1> QED
    BY <1>6, <1>7, <1>8, <1>9, <1>10 DEF A

\* The place of each list among the arms.
LEMMA Places ==
    ASSUME NEW get, NEW post, NEW path, NEW body
    PROVE  /\ Len(Arms(get, post, path, body)) = 28 /\ DOMAIN Arms(get, post, path, body) = 1..28
           /\ \A i \in 1..12 : Arms(get, post, path, body)[i] = NamedArms(get, path)[i]
           /\ \A i \in 1..6 : Arms(get, post, path, body)[12 + i] = SuffixArms(get, path)[i]
           /\ \A i \in 1..3 : Arms(get, post, path, body)[18 + i] = EventArms(post, path)[i]
           /\ \A i \in 1..4 : Arms(get, post, path, body)[21 + i] = ReadArms(get, path)[i]
           /\ \A i \in 1..3 : Arms(get, post, path, body)[25 + i] = PostArms(post, path, body)[i]
<1> DEFINE s == Arms(get, post, path, body)
           N == NamedArms(get, path)
           S == SuffixArms(get, path)
           E == EventArms(post, path)
           R == ReadArms(get, path)
           P == PostArms(post, path, body)
           A == ArmSet(get, post, path, body)
<1>1. /\ N \in Seq(A) /\ S \in Seq(A) /\ E \in Seq(A) /\ R \in Seq(A) /\ P \in Seq(A)
      /\ Len(N) = 12 /\ Len(S) = 6 /\ Len(E) = 3 /\ Len(R) = 4 /\ Len(P) = 3
    BY Lists
<1>2. s = Joined(N, S, E, R, P)
    BY DEF Arms, Joined
<1> HIDE DEF s, N, S, E, R, P, A
<1>3. Joined(N, S, E, R, P) \in Seq(A) /\ PlacedIn(Joined(N, S, E, R, P), N, S, E, R, P)
    BY <1>1, FivePieces
<1>6. /\ s \in Seq(A) /\ Len(s) = Len(N) + Len(S) + Len(E) + Len(R) + Len(P)
      /\ \A i \in 1..Len(N) : s[i] = N[i]
      /\ \A i \in 1..Len(S) : s[Len(N) + i] = S[i]
      /\ \A i \in 1..Len(E) : s[Len(N) + Len(S) + i] = E[i]
      /\ \A i \in 1..Len(R) : s[Len(N) + Len(S) + Len(E) + i] = R[i]
      /\ \A i \in 1..Len(P) : s[Len(N) + Len(S) + Len(E) + Len(R) + i] = P[i]
    BY <1>2, <1>3 DEF PlacedIn
<1>4. Len(s) = 28 /\ DOMAIN s = 1..28
    BY <1>1, <1>6
<1>5. /\ \A i \in 1..12 : s[i] = N[i]
      /\ \A i \in 1..6 : s[12 + i] = S[i]
      /\ \A i \in 1..3 : s[18 + i] = E[i]
      /\ \A i \in 1..4 : s[21 + i] = R[i]
      /\ \A i \in 1..3 : s[25 + i] = P[i]
    BY <1>1, <1>6
<1> QED
    BY <1>4, <1>5 DEF s, N, S, E, R, P

\* The first of the arms that fit answers.
LEMMA FirstAnswers ==
    ASSUME NEW method, NEW path, NEW body, NEW k \in 1..28,
           Arms(method = "GET", method = "POST", path, body)[k].fits,
           \A j \in 1..28 : j < k => ~Arms(method = "GET", method = "POST", path, body)[j].fits
    PROVE  RouteOf(method, path, body) = Arms(method = "GET", method = "POST", path, body)[k].then
<1> DEFINE s == Arms(method = "GET", method = "POST", path, body)
           fit == {i \in DOMAIN s : s[i].fits}
           first == CHOOSE i \in fit : \A j \in fit : i <= j
<1>1. DOMAIN s = 1..28
    BY Places
<1>2. RouteOf(method, path, body) = IF fit = {} THEN NotFound ELSE s[first].then
    BY DEF RouteOf
<1> HIDE DEF s
<1>3. fit \subseteq 1..28 /\ k \in fit /\ \A j \in fit : k <= j
    BY <1>1 DEF s
<1> HIDE DEF fit
<1>4. first \in fit /\ \A j \in fit : first <= j
    BY <1>3
<1>5. first = k
    <2>1. k <= first /\ first <= k /\ first \in 1..28
        BY <1>3, <1>4
    <2> HIDE DEF first
    <2> QED
        BY <2>1
<1> QED
    BY <1>2, <1>3, <1>5 DEF s

\* An answer is that of an arm that fits, if any does.
LEMMA SomeAnswers ==
    ASSUME NEW method, NEW path, NEW body
    PROVE  \/ RouteOf(method, path, body) = NotFound
           \/ \E k \in 1..28 : /\ Arms(method = "GET", method = "POST", path, body)[k].fits
                               /\ RouteOf(method, path, body) = Arms(method = "GET", method = "POST", path, body)[k].then
<1> DEFINE s == Arms(method = "GET", method = "POST", path, body)
           fit == {i \in DOMAIN s : s[i].fits}
           first == CHOOSE i \in fit : \A j \in fit : i <= j
<1>1. DOMAIN s = 1..28
    BY Places
<1>2. RouteOf(method, path, body) = IF fit = {} THEN NotFound ELSE s[first].then
    BY DEF RouteOf
<1> HIDE DEF s
<1>3. ASSUME fit # {} PROVE first \in fit
    <2>1. fit \subseteq Nat
        BY <1>1
    <2>2. \E i \in fit : \A j \in fit : i <= j
        BY <1>3, <2>1, LeastOf
    <2> HIDE DEF fit
    <2> QED
        BY <2>2
<1> QED
    BY <1>1, <1>2, <1>3 DEF s

\* The paths of the arms that name theirs.
NamedPaths ==
    {<<>>, <<"index.html">>, <<"dashboard">>, <<"favicon.ico">>, <<"openapi.json">>,
     <<"api", "all", "values">>, <<"api", "4", "all">>, <<"api", "4", "all", "limits">>, <<"api", "all", "limits">>,
     <<"api", "4", "all", "views">>, <<"api", "all", "views">>, <<"api", "4", "status">>,
     <<"api", "4", "pluginslist">>, <<"api", "4", "serverslist">>, <<"api", "4", "health">>, <<"api", "health">>,
     <<"api", "4", "dashboard">>, <<"api", "all", "description">>, <<"api", "all", "stats">>}

\* A list is its members.
LEMMA ByMembers ==
    ASSUME NEW R
    PROVE  /\ \A s \in Seq(R) : Len(s) = 1 => s = <<s[1]>>
           /\ \A s \in Seq(R) : Len(s) = 2 => s = <<s[1], s[2]>>
           /\ \A s \in Seq(R) : Len(s) = 3 => s = <<s[1], s[2], s[3]>>
           /\ \A s \in Seq(R) : Len(s) = 4 => s = <<s[1], s[2], s[3], s[4]>>
           /\ \A s \in Seq(R) : Len(s) = 5 => s = <<s[1], s[2], s[3], s[4], s[5]>>
OBVIOUS

\* A tail of one under either prefix.
LEMMA ApiOne ==
    ASSUME NEW a
    PROVE  Api(<<a>>) = {<<"api", "4", a>>, <<"api", a>>}
<1> DEFINE s == <<"api", "4">> \o <<a>>
           t == <<"api">> \o <<a>>
           R == {"api", "4", a}
<1>1. <<"api", "4">> \in Seq(R) /\ <<"api">> \in Seq(R) /\ <<a>> \in Seq(R)
    OBVIOUS
<1>2. s \in Seq(R) /\ Len(s) = 3 /\ t \in Seq(R) /\ Len(t) = 2
    BY <1>1
<1>3. s[1] = "api" /\ s[2] = "4" /\ t[1] = "api" /\ s[3] = a /\ t[2] = a
    BY <1>1
<1> HIDE DEF s, t, R
<1>4. s = <<"api", "4", a>> /\ t = <<"api", a>>
    BY <1>2, <1>3, ByMembers
<1> QED
    BY <1>4 DEF s, t, Api

\* A tail of two under either prefix.
LEMMA ApiTwo ==
    ASSUME NEW a, NEW b
    PROVE  Api(<<a, b>>) = {<<"api", "4", a, b>>, <<"api", a, b>>}
<1> DEFINE s == <<"api", "4">> \o <<a, b>>
           t == <<"api">> \o <<a, b>>
           R == {"api", "4", a, b}
<1>1. <<"api", "4">> \in Seq(R) /\ <<"api">> \in Seq(R) /\ <<a, b>> \in Seq(R)
    OBVIOUS
<1>2. s \in Seq(R) /\ Len(s) = 4 /\ t \in Seq(R) /\ Len(t) = 3
    BY <1>1
<1>3. s[1] = "api" /\ s[2] = "4" /\ t[1] = "api" /\ s[3] = a /\ t[2] = a /\ s[4] = b /\ t[3] = b
    BY <1>1
<1> HIDE DEF s, t, R
<1>4. s = <<"api", "4", a, b>> /\ t = <<"api", a, b>>
    BY <1>2, <1>3, ByMembers
<1> QED
    BY <1>4 DEF s, t, Api

\* A tail of three under either prefix.
LEMMA ApiThree ==
    ASSUME NEW a, NEW b, NEW c
    PROVE  Api(<<a, b, c>>) = {<<"api", "4", a, b, c>>, <<"api", a, b, c>>}
<1> DEFINE s == <<"api", "4">> \o <<a, b, c>>
           t == <<"api">> \o <<a, b, c>>
           R == {"api", "4", a, b, c}
<1>1. <<"api", "4">> \in Seq(R) /\ <<"api">> \in Seq(R) /\ <<a, b, c>> \in Seq(R)
    OBVIOUS
<1>2. s \in Seq(R) /\ Len(s) = 5 /\ t \in Seq(R) /\ Len(t) = 4
    BY <1>1
<1>3. s[1] = "api" /\ s[2] = "4" /\ t[1] = "api" /\ s[3] = a /\ t[2] = a /\ s[4] = b /\ t[3] = b /\ s[5] = c /\ t[4] = c
    BY <1>1
<1> HIDE DEF s, t, R
<1>4. s = <<"api", "4", a, b, c>> /\ t = <<"api", a, b, c>>
    BY <1>2, <1>3, ByMembers
<1> QED
    BY <1>4 DEF s, t, Api

\* When each of them fits and what it answers.
LEMMA NamedAre ==
    ASSUME NEW get \in BOOLEAN, NEW path
    PROVE  /\ NamedArms(get, path)[1].fits <=> get /\ path \in {<<>>, <<"index.html">>, <<"dashboard">>}
           /\ NamedArms(get, path)[2].fits <=> get /\ path \in {<<"favicon.ico">>, <<"openapi.json">>}
           /\ NamedArms(get, path)[3].fits <=> get /\ path \in {<<"api", "all", "values">>, <<"api", "4", "all">>}
           /\ NamedArms(get, path)[4].fits <=> get /\ path \in Api(<<"all", "limits">>)
           /\ NamedArms(get, path)[5].fits <=> get /\ path \in Api(<<"all", "views">>)
           /\ NamedArms(get, path)[6].fits <=> get /\ path = <<"api", "4", "status">>
           /\ NamedArms(get, path)[7].fits <=> get /\ path = <<"api", "4", "pluginslist">>
           /\ NamedArms(get, path)[8].fits <=> get /\ path = <<"api", "4", "serverslist">>
           /\ NamedArms(get, path)[9].fits <=> get /\ path \in Api(<<"health">>)
           /\ NamedArms(get, path)[10].fits <=> get /\ path = <<"api", "4", "dashboard">>
           /\ NamedArms(get, path)[11].fits <=> get /\ path = <<"api", "all", "description">>
           /\ NamedArms(get, path)[12].fits <=> get /\ path = <<"api", "all", "stats">>
BY DEF NamedArms, Arm

\* The answers of those arms.
LEMMA NamedSay ==
    ASSUME NEW get \in BOOLEAN, NEW path
    PROVE  /\ NamedArms(get, path)[1].then = <<"dashboard.html">> /\ NamedArms(get, path)[2].then = path
           /\ NamedArms(get, path)[3].then = <<"all values">> /\ NamedArms(get, path)[4].then = <<"all limits">>
           /\ NamedArms(get, path)[5].then = <<"all views">> /\ NamedArms(get, path)[6].then = <<"status">>
           /\ NamedArms(get, path)[7].then = <<"pluginslist">> /\ NamedArms(get, path)[8].then = <<"serverslist">>
           /\ NamedArms(get, path)[9].then = <<"health">> /\ NamedArms(get, path)[10].then = <<"dashboard">>
           /\ NamedArms(get, path)[11].then = <<"all views">> /\ NamedArms(get, path)[12].then = <<"all values">>
BY DEF NamedArms, Arm

\* They fit no other path.
LEMMA NamedOnly ==
    ASSUME NEW get \in BOOLEAN, NEW path, NEW i \in 1..12, NamedArms(get, path)[i].fits
    PROVE  get /\ path \in NamedPaths
<1>1. i \in {1, 2, 3, 4, 5, 6, 7, 8, 9, 10, 11, 12}
    OBVIOUS
<1> QED
    BY <1>1, NamedAre, ApiOne, ApiTwo DEF NamedPaths

\* The arms of suffixes and of single plugins.
LEMMA SuffixAre ==
    ASSUME NEW get \in BOOLEAN, NEW path
    PROVE  /\ SuffixArms(get, path)[1].fits <=> get /\ Under(path, <<"api">>) /\ Ends(path, "values")
           /\ SuffixArms(get, path)[2].fits <=> get /\ Under(path, <<"api">>) /\ Ends(path, "description")
           /\ SuffixArms(get, path)[3].fits <=> get /\ path = <<"api", "4", "history">>
           /\ SuffixArms(get, path)[4].fits <=> get /\ \E p \in {"cpu", "mem", "load"} : path \in Api(<<p>>)
           /\ SuffixArms(get, path)[5].fits <=> get /\ Starts(path, <<"api", "4", "events", "stream">>)
           /\ SuffixArms(get, path)[6].fits <=> get /\ path = <<"healthz">>
           /\ SuffixArms(get, path)[1].then = Suffixed("plugin", path)
           /\ SuffixArms(get, path)[2].then = Suffixed("description", path)
           /\ SuffixArms(get, path)[3].then = <<"all history">>
           /\ SuffixArms(get, path)[4].then = OfPlugin("plugin", Back(path))
           /\ SuffixArms(get, path)[5].then = <<"event stream">>
           /\ SuffixArms(get, path)[6].then = <<"ok">>
BY DEF SuffixArms, Arm

\* The arms of events.
LEMMA EventAre ==
    ASSUME NEW post \in BOOLEAN, NEW path
    PROVE  /\ EventArms(post, path)[1].fits <=> post /\ path \in Api(<<"events", "clear", "warning">>)
           /\ EventArms(post, path)[2].fits <=> post /\ path \in Api(<<"events", "clear", "all">>)
           /\ EventArms(post, path)[3].fits <=> post /\ path \in Api(<<"processes", "extended", "disable">>)
           /\ EventArms(post, path)[1].then = <<"clear", "warning">>
           /\ EventArms(post, path)[2].then = <<"clear", "all">>
           /\ EventArms(post, path)[3].then = <<"unpin">>
BY DEF EventArms, Arm

\* The arms of processes, histories and plugins.
LEMMA ReadAre ==
    ASSUME NEW get \in BOOLEAN, NEW path
    PROVE  /\ ReadArms(get, path)[1].fits <=> get /\ path \in Api(<<"processes", "extended">>)
           /\ ReadArms(get, path)[2].fits <=> get /\ Under(path, <<"api", "4", "processes">>)
           /\ ReadArms(get, path)[3].fits <=> get /\ Holds(path, "history")
           /\ ReadArms(get, path)[4].fits <=> get /\ Under(path, <<"api">>)
           /\ ReadArms(get, path)[1].then = <<"pinned">>
           /\ ReadArms(get, path)[2].then = ProcessByPid(path)
           /\ ReadArms(get, path)[3].then = History(path)
           /\ ReadArms(get, path)[4].then = Direct(path)
BY DEF ReadArms, Arm

\* The last arms.
LEMMA PostAre ==
    ASSUME NEW post \in BOOLEAN, NEW path, NEW body
    PROVE  /\ PostArms(post, path, body)[1].fits <=>
                post /\ Under(path, <<"api">>) /\ \E i \in 1..Len(path) - 2 : SubSeq(path, i, i + 1) = <<"processes", "extended">>
           /\ PostArms(post, path, body)[2].fits <=> post /\ path \in Api(<<"token">>)
           /\ PostArms(post, path, body)[3].fits <=> post /\ path \in {McpPath, <<"mcp">>}
           /\ PostArms(post, path, body)[1].then = Pin(path)
           /\ PostArms(post, path, body)[2].then = <<"not implemented">>
           /\ PostArms(post, path, body)[3].then = Mcp(body)
BY DEF PostArms, Arm

\* An arm that names the path of a GET answers it.
LEMMA FirstNamed ==
    ASSUME NEW path, NEW body, NEW k \in 1..12, NamedArms(TRUE, path)[k].fits,
           \A j \in 1..12 : j < k => ~NamedArms(TRUE, path)[j].fits
    PROVE  RouteOf("GET", path, body) = NamedArms(TRUE, path)[k].then
<1> DEFINE s == Arms("GET" = "GET", "GET" = "POST", path, body)
<1>1. ("GET" = "GET") = TRUE
    OBVIOUS
<1>2. \A i \in 1..12 : s[i] = NamedArms("GET" = "GET", path)[i]
    BY Places
<1>3. \A i \in 1..12 : s[i] = NamedArms(TRUE, path)[i]
    BY <1>1, <1>2
<1> HIDE DEF s
<1>4. k \in 1..28 /\ s[k].fits /\ \A j \in 1..28 : j < k => ~s[j].fits
    <2>1. \A j \in 1..28 : j < k => j \in 1..12
        OBVIOUS
    <2>2. k \in 1..28
        OBVIOUS
    <2>3. s[k] = NamedArms(TRUE, path)[k]
        BY <1>3
    <2>4. s[k].fits
        BY <2>3
    <2>5. \A j \in 1..28 : j < k => s[j] = NamedArms(TRUE, path)[j] /\ ~NamedArms(TRUE, path)[j].fits
        BY <1>3, <2>1
    <2> QED
        BY <2>2, <2>4, <2>5
<1>5. RouteOf("GET", path, body) = s[k].then
    BY <1>4, FirstAnswers DEF s
<1> QED
    BY <1>3, <1>5

\* A POST reaches no arm of a GET, nor a GET one of a POST.
LEMMA NoEvent == ASSUME NEW path, NEW j \in 1..3 PROVE ~EventArms(FALSE, path)[j].fits
<1>1. j \in {1, 2, 3}
    OBVIOUS
<1> QED
    BY <1>1, EventAre

\* The same of suffixes.
LEMMA NoSuffix == ASSUME NEW path, NEW j \in 1..6 PROVE ~SuffixArms(FALSE, path)[j].fits
<1>1. j \in {1, 2, 3, 4, 5, 6}
    OBVIOUS
<1> QED
    BY <1>1, SuffixAre

\* And of what is read.
LEMMA NoRead == ASSUME NEW path, NEW j \in 1..4 PROVE ~ReadArms(FALSE, path)[j].fits
<1>1. j \in {1, 2, 3, 4}
    OBVIOUS
<1> QED
    BY <1>1, ReadAre

\* The arms of suffixes answer a GET that no arm names.
LEMMA FirstSuffix ==
    ASSUME NEW path, NEW body, NEW k \in 1..6, SuffixArms(TRUE, path)[k].fits,
           path \notin NamedPaths,
           \A j \in 1..6 : j < k => ~SuffixArms(TRUE, path)[j].fits
    PROVE  RouteOf("GET", path, body) = SuffixArms(TRUE, path)[k].then
<1> DEFINE s == Arms("GET" = "GET", "GET" = "POST", path, body)
<1>1. ("GET" = "GET") = TRUE /\ ("GET" = "POST") = FALSE
    OBVIOUS
<1>2. /\ \A i \in 1..12 : s[i] = NamedArms("GET" = "GET", path)[i]
      /\ \A i \in 1..6 : s[12 + i] = SuffixArms("GET" = "GET", path)[i]
      /\ \A i \in 1..3 : s[18 + i] = EventArms("GET" = "POST", path)[i]
      /\ \A i \in 1..4 : s[21 + i] = ReadArms("GET" = "GET", path)[i]
      /\ \A i \in 1..3 : s[25 + i] = PostArms("GET" = "POST", path, body)[i]
    BY Places
<1>3. /\ \A i \in 1..12 : s[i] = NamedArms(TRUE, path)[i]
      /\ \A i \in 1..6 : s[12 + i] = SuffixArms(TRUE, path)[i]
      /\ \A i \in 1..3 : s[18 + i] = EventArms(FALSE, path)[i]
      /\ \A i \in 1..4 : s[21 + i] = ReadArms(TRUE, path)[i]
      /\ \A i \in 1..3 : s[25 + i] = PostArms(FALSE, path, body)[i]
    BY <1>1, <1>2
<1> HIDE DEF s
<1>4. s[12 + k] = SuffixArms(TRUE, path)[k] /\ 12 + k \in 1..28
    <2>1. s[12 + k] = SuffixArms(TRUE, path)[k]
        BY <1>3
    <2>2. 12 + k \in 1..28
        OBVIOUS
    <2> QED
        BY <2>1, <2>2
<1>5. \A j \in 1..6 : j < k => ~s[12 + j].fits
    BY <1>3
<1>6. \A j \in 1..12 : ~s[j].fits
    BY <1>3, NamedOnly
<1>7. ASSUME NEW j \in 1..28, j < 12 + k PROVE ~s[j].fits
    <2>1. CASE j \in 1..12
        BY <1>6, <2>1
    <2>2. CASE j \in 13..18
        <3>1. j - 12 \in 1..6 /\ 12 + (j - 12) = j /\ j - 12 < k
            BY <1>7, <2>2
        <3> QED
            BY <1>5, <3>1
    <2> QED
        BY <1>7, <2>1, <2>2
<1>8. RouteOf("GET", path, body) = s[12 + k].then
    <2>1. 12 + k \in 1..28 /\ s[12 + k].fits
        BY <1>4
    <2> QED
        BY <1>7, <2>1, FirstAnswers DEF s
<1> QED
    BY <1>4, <1>8

\* The arms of processes, histories and plugins answer a GET that is neither named nor suffixed.
LEMMA FirstRead ==
    ASSUME NEW path, NEW body, NEW k \in 1..4, ReadArms(TRUE, path)[k].fits,
           path \notin NamedPaths, \A j \in 1..6 : ~SuffixArms(TRUE, path)[j].fits,
           \A j \in 1..4 : j < k => ~ReadArms(TRUE, path)[j].fits
    PROVE  RouteOf("GET", path, body) = ReadArms(TRUE, path)[k].then
<1> DEFINE s == Arms("GET" = "GET", "GET" = "POST", path, body)
<1>1. ("GET" = "GET") = TRUE /\ ("GET" = "POST") = FALSE
    OBVIOUS
<1>2. /\ \A i \in 1..12 : s[i] = NamedArms("GET" = "GET", path)[i]
      /\ \A i \in 1..6 : s[12 + i] = SuffixArms("GET" = "GET", path)[i]
      /\ \A i \in 1..3 : s[18 + i] = EventArms("GET" = "POST", path)[i]
      /\ \A i \in 1..4 : s[21 + i] = ReadArms("GET" = "GET", path)[i]
      /\ \A i \in 1..3 : s[25 + i] = PostArms("GET" = "POST", path, body)[i]
    BY Places
<1>3. /\ \A i \in 1..12 : s[i] = NamedArms(TRUE, path)[i]
      /\ \A i \in 1..6 : s[12 + i] = SuffixArms(TRUE, path)[i]
      /\ \A i \in 1..3 : s[18 + i] = EventArms(FALSE, path)[i]
      /\ \A i \in 1..4 : s[21 + i] = ReadArms(TRUE, path)[i]
      /\ \A i \in 1..3 : s[25 + i] = PostArms(FALSE, path, body)[i]
    BY <1>1, <1>2
<1> HIDE DEF s
<1>4. s[21 + k] = ReadArms(TRUE, path)[k] /\ 21 + k \in 1..28
    <2>1. s[21 + k] = ReadArms(TRUE, path)[k]
        BY <1>3
    <2>2. 21 + k \in 1..28
        OBVIOUS
    <2> QED
        BY <2>1, <2>2
<1>5. \A j \in 1..4 : j < k => ~s[21 + j].fits
    BY <1>3
<1>6. \A j \in 1..12 : ~s[j].fits
    BY <1>3, NamedOnly
<1>7. \A j \in 1..6 : ~s[12 + j].fits
    BY <1>3
<1>8. \A j \in 1..3 : ~s[18 + j].fits
    BY <1>3, NoEvent
<1>9. ASSUME NEW j \in 1..28, j < 21 + k PROVE ~s[j].fits
    <2>1. CASE j \in 1..12
        BY <1>6, <2>1
    <2>2. CASE j \in 13..18
        <3>1. j - 12 \in 1..6 /\ 12 + (j - 12) = j
            BY <2>2
        <3> QED
            BY <1>7, <3>1
    <2>3. CASE j \in 19..21
        <3>1. j - 18 \in 1..3 /\ 18 + (j - 18) = j
            BY <2>3
        <3> QED
            BY <1>8, <3>1
    <2>4. CASE j \in 22..25
        <3>1. j - 21 \in 1..4 /\ 21 + (j - 21) = j /\ j - 21 < k
            BY <1>9, <2>4
        <3> QED
            BY <1>5, <3>1
    <2> QED
        BY <1>9, <2>1, <2>2, <2>3, <2>4
<1>10. RouteOf("GET", path, body) = s[21 + k].then
    <2>1. 21 + k \in 1..28 /\ s[21 + k].fits
        BY <1>4
    <2> QED
        BY <1>9, <2>1, FirstAnswers DEF s
<1> QED
    BY <1>4, <1>10

\* The arms of events answer a POST to them.
LEMMA FirstEvent ==
    ASSUME NEW path, NEW body, NEW k \in 1..3, EventArms(TRUE, path)[k].fits,
           \A j \in 1..3 : j < k => ~EventArms(TRUE, path)[j].fits
    PROVE  RouteOf("POST", path, body) = EventArms(TRUE, path)[k].then
<1> DEFINE s == Arms("POST" = "GET", "POST" = "POST", path, body)
<1>1. ("POST" = "GET") = FALSE /\ ("POST" = "POST") = TRUE
    OBVIOUS
<1>2. /\ \A i \in 1..12 : s[i] = NamedArms("POST" = "GET", path)[i]
      /\ \A i \in 1..6 : s[12 + i] = SuffixArms("POST" = "GET", path)[i]
      /\ \A i \in 1..3 : s[18 + i] = EventArms("POST" = "POST", path)[i]
      /\ \A i \in 1..4 : s[21 + i] = ReadArms("POST" = "GET", path)[i]
      /\ \A i \in 1..3 : s[25 + i] = PostArms("POST" = "POST", path, body)[i]
    BY Places
<1>3. /\ \A i \in 1..12 : s[i] = NamedArms(FALSE, path)[i]
      /\ \A i \in 1..6 : s[12 + i] = SuffixArms(FALSE, path)[i]
      /\ \A i \in 1..3 : s[18 + i] = EventArms(TRUE, path)[i]
      /\ \A i \in 1..4 : s[21 + i] = ReadArms(FALSE, path)[i]
      /\ \A i \in 1..3 : s[25 + i] = PostArms(TRUE, path, body)[i]
    BY <1>1, <1>2
<1> HIDE DEF s
<1>4. s[18 + k] = EventArms(TRUE, path)[k] /\ 18 + k \in 1..28
    <2>1. s[18 + k] = EventArms(TRUE, path)[k]
        BY <1>3
    <2>2. 18 + k \in 1..28
        OBVIOUS
    <2> QED
        BY <2>1, <2>2
<1>5. \A j \in 1..3 : j < k => ~s[18 + j].fits
    BY <1>3
<1>6. \A j \in 1..12 : ~s[j].fits
    BY <1>3, NamedOnly
<1>7. \A j \in 1..6 : ~s[12 + j].fits
    BY <1>3, NoSuffix
<1>8. ASSUME NEW j \in 1..28, j < 18 + k PROVE ~s[j].fits
    <2>1. CASE j \in 1..12
        BY <1>6, <2>1
    <2>2. CASE j \in 13..18
        <3>1. j - 12 \in 1..6 /\ 12 + (j - 12) = j
            BY <2>2
        <3> QED
            BY <1>7, <3>1
    <2>3. CASE j \in 19..21
        <3>1. j - 18 \in 1..3 /\ 18 + (j - 18) = j /\ j - 18 < k
            BY <1>8, <2>3
        <3> QED
            BY <1>5, <3>1
    <2> QED
        BY <1>8, <2>1, <2>2, <2>3
<1>9. RouteOf("POST", path, body) = s[18 + k].then
    <2>1. 18 + k \in 1..28 /\ s[18 + k].fits
        BY <1>4
    <2> QED
        BY <1>8, <2>1, FirstAnswers DEF s
<1> QED
    BY <1>4, <1>9

\* The last arms answer any other POST.
LEMMA FirstPost ==
    ASSUME NEW path, NEW body, NEW k \in 1..3, PostArms(TRUE, path, body)[k].fits,
           \A j \in 1..3 : ~EventArms(TRUE, path)[j].fits,
           \A j \in 1..3 : j < k => ~PostArms(TRUE, path, body)[j].fits
    PROVE  RouteOf("POST", path, body) = PostArms(TRUE, path, body)[k].then
<1> DEFINE s == Arms("POST" = "GET", "POST" = "POST", path, body)
<1>1. ("POST" = "GET") = FALSE /\ ("POST" = "POST") = TRUE
    OBVIOUS
<1>2. /\ \A i \in 1..12 : s[i] = NamedArms("POST" = "GET", path)[i]
      /\ \A i \in 1..6 : s[12 + i] = SuffixArms("POST" = "GET", path)[i]
      /\ \A i \in 1..3 : s[18 + i] = EventArms("POST" = "POST", path)[i]
      /\ \A i \in 1..4 : s[21 + i] = ReadArms("POST" = "GET", path)[i]
      /\ \A i \in 1..3 : s[25 + i] = PostArms("POST" = "POST", path, body)[i]
    BY Places
<1>3. /\ \A i \in 1..12 : s[i] = NamedArms(FALSE, path)[i]
      /\ \A i \in 1..6 : s[12 + i] = SuffixArms(FALSE, path)[i]
      /\ \A i \in 1..3 : s[18 + i] = EventArms(TRUE, path)[i]
      /\ \A i \in 1..4 : s[21 + i] = ReadArms(FALSE, path)[i]
      /\ \A i \in 1..3 : s[25 + i] = PostArms(TRUE, path, body)[i]
    BY <1>1, <1>2
<1> HIDE DEF s
<1>4. s[25 + k] = PostArms(TRUE, path, body)[k] /\ 25 + k \in 1..28
    <2>1. s[25 + k] = PostArms(TRUE, path, body)[k]
        BY <1>3
    <2>2. 25 + k \in 1..28
        OBVIOUS
    <2> QED
        BY <2>1, <2>2
<1>5. \A j \in 1..3 : j < k => ~s[25 + j].fits
    BY <1>3
<1>6. \A j \in 1..12 : ~s[j].fits
    BY <1>3, NamedOnly
<1>7. \A j \in 1..6 : ~s[12 + j].fits
    BY <1>3, NoSuffix
<1>8. \A j \in 1..3 : ~s[18 + j].fits
    BY <1>3
<1>9. \A j \in 1..4 : ~s[21 + j].fits
    BY <1>3, NoRead
<1>10. ASSUME NEW j \in 1..28, j < 25 + k PROVE ~s[j].fits
    <2>1. CASE j \in 1..12
        BY <1>6, <2>1
    <2>2. CASE j \in 13..18
        <3>1. j - 12 \in 1..6 /\ 12 + (j - 12) = j
            BY <2>2
        <3> QED
            BY <1>7, <3>1
    <2>3. CASE j \in 19..21
        <3>1. j - 18 \in 1..3 /\ 18 + (j - 18) = j
            BY <2>3
        <3> QED
            BY <1>8, <3>1
    <2>4. CASE j \in 22..25
        <3>1. j - 21 \in 1..4 /\ 21 + (j - 21) = j
            BY <2>4
        <3> QED
            BY <1>9, <3>1
    <2>5. CASE j \in 26..28
        <3>1. j - 25 \in 1..3 /\ 25 + (j - 25) = j /\ j - 25 < k
            BY <1>10, <2>5
        <3> QED
            BY <1>5, <3>1
    <2> QED
        BY <1>10, <2>1, <2>2, <2>3, <2>4, <2>5
<1>11. RouteOf("POST", path, body) = s[25 + k].then
    <2>1. 25 + k \in 1..28 /\ s[25 + k].fits
        BY <1>4
    <2> QED
        BY <1>10, <2>1, FirstAnswers DEF s
<1> QED
    BY <1>4, <1>11

\* What the names are not.
LEMMA NamesAre ==
    /\ \A p \in Plugins : p \in STRING /\ p \notin Reserved /\ p \notin Numbers
    /\ \A n \in Numbers : n \in STRING /\ n \notin Reserved /\ n \notin Plugins
    /\ Listed \subseteq Numbers /\ "4" \in Numbers
BY RoutesAssumption

\* The arms that name their path, for a GET.
LEMMA NamedGet ==
    ASSUME NEW path
    PROVE  /\ NamedArms(TRUE, path)[1].fits <=> path \in {<<>>, <<"index.html">>, <<"dashboard">>}
           /\ NamedArms(TRUE, path)[2].fits <=> path \in {<<"favicon.ico">>, <<"openapi.json">>}
           /\ NamedArms(TRUE, path)[3].fits <=> path \in {<<"api", "all", "values">>, <<"api", "4", "all">>}
           /\ NamedArms(TRUE, path)[4].fits <=> path \in {<<"api", "4", "all", "limits">>, <<"api", "all", "limits">>}
           /\ NamedArms(TRUE, path)[5].fits <=> path \in {<<"api", "4", "all", "views">>, <<"api", "all", "views">>}
           /\ NamedArms(TRUE, path)[6].fits <=> path = <<"api", "4", "status">>
           /\ NamedArms(TRUE, path)[7].fits <=> path = <<"api", "4", "pluginslist">>
           /\ NamedArms(TRUE, path)[8].fits <=> path = <<"api", "4", "serverslist">>
           /\ NamedArms(TRUE, path)[9].fits <=> path \in {<<"api", "4", "health">>, <<"api", "health">>}
<1>1. TRUE \in BOOLEAN
    OBVIOUS
<1>2. /\ Api(<<"all", "limits">>) = {<<"api", "4", "all", "limits">>, <<"api", "all", "limits">>}
      /\ Api(<<"all", "views">>) = {<<"api", "4", "all", "views">>, <<"api", "all", "views">>}
      /\ Api(<<"health">>) = {<<"api", "4", "health">>, <<"api", "health">>}
    BY ApiOne, ApiTwo
<1> QED
    BY <1>1, <1>2, NamedAre

\* A part of a list.
LEMMA PartIs ==
    ASSUME NEW R, NEW s \in Seq(R), NEW i \in 1..Len(s), NEW j \in i..Len(s)
    PROVE  /\ SubSeq(s, i, j) \in Seq(R) /\ Len(SubSeq(s, i, j)) = j - i + 1
           /\ \A k \in 1..j - i + 1 : SubSeq(s, i, j)[k] = s[i + k - 1]
OBVIOUS

\* What the arms that name their path answer.
LEMMA NamedAnswers ==
    ASSUME NEW body
    PROVE  /\ RouteOf("GET", <<"api", "4", "all">>, body) = <<"all values">>
           /\ RouteOf("GET", <<"api", "4", "all", "limits">>, body) = <<"all limits">>
           /\ RouteOf("GET", <<"api", "4", "all", "views">>, body) = <<"all views">>
           /\ RouteOf("GET", <<"api", "4", "status">>, body) = <<"status">>
           /\ RouteOf("GET", <<"api", "4", "pluginslist">>, body) = <<"pluginslist">>
           /\ RouteOf("GET", <<"api", "4", "serverslist">>, body) = <<"serverslist">>
           /\ RouteOf("GET", <<"api", "4", "health">>, body) = <<"health">>
<1>1. RouteOf("GET", <<"api", "4", "all">>, body) = <<"all values">>
    <2> DEFINE path == <<"api", "4", "all">>
    <2>0. path = <<"api", "4", "all">>
        OBVIOUS
    <2> HIDE DEF path
    <2>1. NamedArms(TRUE, path)[3].fits /\ NamedArms(TRUE, path)[3].then = <<"all values">>
        <3>1. NamedArms(TRUE, path)[3].fits
            BY <2>0, NamedGet
        <3>2. NamedArms(TRUE, path)[3].then = <<"all values">>
            BY NamedSay
        <3> QED
            BY <3>1, <3>2
    <2>6. /\ path \notin {<<>>, <<"index.html">>, <<"dashboard">>}
          /\ path \notin {<<"favicon.ico">>, <<"openapi.json">>}
        BY <2>0
    <2>2. \A j \in {1, 2} : ~NamedArms(TRUE, path)[j].fits
        BY <2>6, NamedGet
    <2>3. \A j \in 1..12 : j < 3 => j \in {1, 2}
        OBVIOUS
    <2>4. \A j \in 1..12 : j < 3 => ~NamedArms(TRUE, path)[j].fits
        BY <2>2, <2>3
    <2>7. 3 \in 1..12
        OBVIOUS
    <2>5. RouteOf("GET", path, body) = NamedArms(TRUE, path)[3].then
        BY <2>1, <2>4, <2>7, FirstNamed
    <2> QED
        BY <2>0, <2>1, <2>5
<1>2. RouteOf("GET", <<"api", "4", "all", "limits">>, body) = <<"all limits">>
    <2> DEFINE path == <<"api", "4", "all", "limits">>
    <2>0. path = <<"api", "4", "all", "limits">>
        OBVIOUS
    <2> HIDE DEF path
    <2>1. NamedArms(TRUE, path)[4].fits /\ NamedArms(TRUE, path)[4].then = <<"all limits">>
        <3>1. NamedArms(TRUE, path)[4].fits
            BY <2>0, NamedGet
        <3>2. NamedArms(TRUE, path)[4].then = <<"all limits">>
            BY NamedSay
        <3> QED
            BY <3>1, <3>2
    <2>6. /\ path \notin {<<>>, <<"index.html">>, <<"dashboard">>}
          /\ path \notin {<<"favicon.ico">>, <<"openapi.json">>}
          /\ path \notin {<<"api", "all", "values">>, <<"api", "4", "all">>}
        BY <2>0
    <2>2. \A j \in {1, 2, 3} : ~NamedArms(TRUE, path)[j].fits
        BY <2>6, NamedGet
    <2>3. \A j \in 1..12 : j < 4 => j \in {1, 2, 3}
        OBVIOUS
    <2>4. \A j \in 1..12 : j < 4 => ~NamedArms(TRUE, path)[j].fits
        BY <2>2, <2>3
    <2>7. 4 \in 1..12
        OBVIOUS
    <2>5. RouteOf("GET", path, body) = NamedArms(TRUE, path)[4].then
        BY <2>1, <2>4, <2>7, FirstNamed
    <2> QED
        BY <2>0, <2>1, <2>5
<1>3. RouteOf("GET", <<"api", "4", "all", "views">>, body) = <<"all views">>
    <2> DEFINE path == <<"api", "4", "all", "views">>
    <2>0. path = <<"api", "4", "all", "views">>
        OBVIOUS
    <2> HIDE DEF path
    <2>1. NamedArms(TRUE, path)[5].fits /\ NamedArms(TRUE, path)[5].then = <<"all views">>
        <3>1. NamedArms(TRUE, path)[5].fits
            BY <2>0, NamedGet
        <3>2. NamedArms(TRUE, path)[5].then = <<"all views">>
            BY NamedSay
        <3> QED
            BY <3>1, <3>2
    <2>6. /\ path \notin {<<>>, <<"index.html">>, <<"dashboard">>}
          /\ path \notin {<<"favicon.ico">>, <<"openapi.json">>}
          /\ path \notin {<<"api", "all", "values">>, <<"api", "4", "all">>}
          /\ path \notin {<<"api", "4", "all", "limits">>, <<"api", "all", "limits">>}
        BY <2>0
    <2>2. \A j \in {1, 2, 3, 4} : ~NamedArms(TRUE, path)[j].fits
        BY <2>6, NamedGet
    <2>3. \A j \in 1..12 : j < 5 => j \in {1, 2, 3, 4}
        OBVIOUS
    <2>4. \A j \in 1..12 : j < 5 => ~NamedArms(TRUE, path)[j].fits
        BY <2>2, <2>3
    <2>7. 5 \in 1..12
        OBVIOUS
    <2>5. RouteOf("GET", path, body) = NamedArms(TRUE, path)[5].then
        BY <2>1, <2>4, <2>7, FirstNamed
    <2> QED
        BY <2>0, <2>1, <2>5
<1>4. RouteOf("GET", <<"api", "4", "status">>, body) = <<"status">>
    <2> DEFINE path == <<"api", "4", "status">>
    <2>0. path = <<"api", "4", "status">>
        OBVIOUS
    <2> HIDE DEF path
    <2>1. NamedArms(TRUE, path)[6].fits /\ NamedArms(TRUE, path)[6].then = <<"status">>
        <3>1. NamedArms(TRUE, path)[6].fits
            BY <2>0, NamedGet
        <3>2. NamedArms(TRUE, path)[6].then = <<"status">>
            BY NamedSay
        <3> QED
            BY <3>1, <3>2
    <2>6. /\ path \notin {<<>>, <<"index.html">>, <<"dashboard">>}
          /\ path \notin {<<"favicon.ico">>, <<"openapi.json">>}
          /\ path \notin {<<"api", "all", "values">>, <<"api", "4", "all">>}
          /\ path \notin {<<"api", "4", "all", "limits">>, <<"api", "all", "limits">>}
          /\ path \notin {<<"api", "4", "all", "views">>, <<"api", "all", "views">>}
        BY <2>0
    <2>2. \A j \in {1, 2, 3, 4, 5} : ~NamedArms(TRUE, path)[j].fits
        BY <2>6, NamedGet
    <2>3. \A j \in 1..12 : j < 6 => j \in {1, 2, 3, 4, 5}
        OBVIOUS
    <2>4. \A j \in 1..12 : j < 6 => ~NamedArms(TRUE, path)[j].fits
        BY <2>2, <2>3
    <2>7. 6 \in 1..12
        OBVIOUS
    <2>5. RouteOf("GET", path, body) = NamedArms(TRUE, path)[6].then
        BY <2>1, <2>4, <2>7, FirstNamed
    <2> QED
        BY <2>0, <2>1, <2>5
<1>5. RouteOf("GET", <<"api", "4", "pluginslist">>, body) = <<"pluginslist">>
    <2> DEFINE path == <<"api", "4", "pluginslist">>
    <2>0. path = <<"api", "4", "pluginslist">>
        OBVIOUS
    <2> HIDE DEF path
    <2>1. NamedArms(TRUE, path)[7].fits /\ NamedArms(TRUE, path)[7].then = <<"pluginslist">>
        <3>1. NamedArms(TRUE, path)[7].fits
            BY <2>0, NamedGet
        <3>2. NamedArms(TRUE, path)[7].then = <<"pluginslist">>
            BY NamedSay
        <3> QED
            BY <3>1, <3>2
    <2>6. /\ path \notin {<<>>, <<"index.html">>, <<"dashboard">>}
          /\ path \notin {<<"favicon.ico">>, <<"openapi.json">>}
          /\ path \notin {<<"api", "all", "values">>, <<"api", "4", "all">>}
          /\ path \notin {<<"api", "4", "all", "limits">>, <<"api", "all", "limits">>}
          /\ path \notin {<<"api", "4", "all", "views">>, <<"api", "all", "views">>}
          /\ path # <<"api", "4", "status">>
        BY <2>0
    <2>2. \A j \in {1, 2, 3, 4, 5, 6} : ~NamedArms(TRUE, path)[j].fits
        BY <2>6, NamedGet
    <2>3. \A j \in 1..12 : j < 7 => j \in {1, 2, 3, 4, 5, 6}
        OBVIOUS
    <2>4. \A j \in 1..12 : j < 7 => ~NamedArms(TRUE, path)[j].fits
        BY <2>2, <2>3
    <2>7. 7 \in 1..12
        OBVIOUS
    <2>5. RouteOf("GET", path, body) = NamedArms(TRUE, path)[7].then
        BY <2>1, <2>4, <2>7, FirstNamed
    <2> QED
        BY <2>0, <2>1, <2>5
<1>6. RouteOf("GET", <<"api", "4", "serverslist">>, body) = <<"serverslist">>
    <2> DEFINE path == <<"api", "4", "serverslist">>
    <2>0. path = <<"api", "4", "serverslist">>
        OBVIOUS
    <2> HIDE DEF path
    <2>1. NamedArms(TRUE, path)[8].fits /\ NamedArms(TRUE, path)[8].then = <<"serverslist">>
        <3>1. NamedArms(TRUE, path)[8].fits
            BY <2>0, NamedGet
        <3>2. NamedArms(TRUE, path)[8].then = <<"serverslist">>
            BY NamedSay
        <3> QED
            BY <3>1, <3>2
    <2>6. /\ path \notin {<<>>, <<"index.html">>, <<"dashboard">>}
          /\ path \notin {<<"favicon.ico">>, <<"openapi.json">>}
          /\ path \notin {<<"api", "all", "values">>, <<"api", "4", "all">>}
          /\ path \notin {<<"api", "4", "all", "limits">>, <<"api", "all", "limits">>}
          /\ path \notin {<<"api", "4", "all", "views">>, <<"api", "all", "views">>}
          /\ path # <<"api", "4", "status">>
          /\ path # <<"api", "4", "pluginslist">>
        BY <2>0
    <2>2. \A j \in {1, 2, 3, 4, 5, 6, 7} : ~NamedArms(TRUE, path)[j].fits
        BY <2>6, NamedGet
    <2>3. \A j \in 1..12 : j < 8 => j \in {1, 2, 3, 4, 5, 6, 7}
        OBVIOUS
    <2>4. \A j \in 1..12 : j < 8 => ~NamedArms(TRUE, path)[j].fits
        BY <2>2, <2>3
    <2>7. 8 \in 1..12
        OBVIOUS
    <2>5. RouteOf("GET", path, body) = NamedArms(TRUE, path)[8].then
        BY <2>1, <2>4, <2>7, FirstNamed
    <2> QED
        BY <2>0, <2>1, <2>5
<1>7. RouteOf("GET", <<"api", "4", "health">>, body) = <<"health">>
    <2> DEFINE path == <<"api", "4", "health">>
    <2>0. path = <<"api", "4", "health">>
        OBVIOUS
    <2> HIDE DEF path
    <2>1. NamedArms(TRUE, path)[9].fits /\ NamedArms(TRUE, path)[9].then = <<"health">>
        <3>1. NamedArms(TRUE, path)[9].fits
            BY <2>0, NamedGet
        <3>2. NamedArms(TRUE, path)[9].then = <<"health">>
            BY NamedSay
        <3> QED
            BY <3>1, <3>2
    <2>6. /\ path \notin {<<>>, <<"index.html">>, <<"dashboard">>}
          /\ path \notin {<<"favicon.ico">>, <<"openapi.json">>}
          /\ path \notin {<<"api", "all", "values">>, <<"api", "4", "all">>}
          /\ path \notin {<<"api", "4", "all", "limits">>, <<"api", "all", "limits">>}
          /\ path \notin {<<"api", "4", "all", "views">>, <<"api", "all", "views">>}
          /\ path # <<"api", "4", "status">>
          /\ path # <<"api", "4", "pluginslist">>
          /\ path # <<"api", "4", "serverslist">>
        BY <2>0
    <2>2. \A j \in {1, 2, 3, 4, 5, 6, 7, 8} : ~NamedArms(TRUE, path)[j].fits
        BY <2>6, NamedGet
    <2>3. \A j \in 1..12 : j < 9 => j \in {1, 2, 3, 4, 5, 6, 7, 8}
        OBVIOUS
    <2>4. \A j \in 1..12 : j < 9 => ~NamedArms(TRUE, path)[j].fits
        BY <2>2, <2>3
    <2>7. 9 \in 1..12
        OBVIOUS
    <2>5. RouteOf("GET", path, body) = NamedArms(TRUE, path)[9].then
        BY <2>1, <2>4, <2>7, FirstNamed
    <2> QED
        BY <2>0, <2>1, <2>5
<1> QED
    BY <1>1, <1>2, <1>3, <1>4, <1>5, <1>6, <1>7

\* A path of one plugin.
LEMMA PathsOfPlugin ==
    ASSUME NEW p \in Plugins
    PROVE  /\ <<"api", "4", p>> \notin NamedPaths /\ <<"api", "4", p, "values">> \notin NamedPaths
           /\ <<"api", "4", p, "description">> \notin NamedPaths /\ <<"api", "4", p, "history">> \notin NamedPaths
           /\ \A n \in Numbers : <<"api", "4", p, "history", n>> \notin NamedPaths
<1>1. p \notin Reserved
    BY NamesAre
<1> QED
    BY <1>1 DEF NamedPaths, Reserved

\* The lists that a path of three to five segments begins and ends with.
LEMMA Segments ==
    ASSUME NEW a, NEW b, NEW c, NEW d, NEW e
    PROVE  /\ Under(<<a, b, c>>, <<"api">>) <=> a = "api"
           /\ Under(<<a, b, c, d>>, <<"api">>) <=> a = "api"
           /\ Under(<<a, b, c, d, e>>, <<"api">>) <=> a = "api"
           /\ ~Under(<<a, b, c>>, <<"api", "4", "processes">>)
           /\ Under(<<a, b, c, d>>, <<"api", "4", "processes">>) <=> a = "api" /\ b = "4" /\ c = "processes"
           /\ Under(<<a, b, c, d, e>>, <<"api", "4", "processes">>) <=> a = "api" /\ b = "4" /\ c = "processes"
           /\ ~Starts(<<a, b, c>>, <<"api", "4", "events", "stream">>)
           /\ Starts(<<a, b, c, d>>, <<"api", "4", "events", "stream">>) <=> a = "api" /\ b = "4" /\ c = "events" /\ d = "stream"
           /\ Starts(<<a, b, c, d, e>>, <<"api", "4", "events", "stream">>) <=> a = "api" /\ b = "4" /\ c = "events" /\ d = "stream"
<1> DEFINE R == {a, b, c, d, e}
           x == <<a, b, c>>
           y == <<a, b, c, d>>
           z == <<a, b, c, d, e>>
<1>0. /\ x \in Seq(R) /\ y \in Seq(R) /\ z \in Seq(R) /\ Len(x) = 3 /\ Len(y) = 4 /\ Len(z) = 5
      /\ x[1] = a /\ y[1] = a /\ z[1] = a /\ y[2] = b /\ z[2] = b /\ y[3] = c /\ z[3] = c /\ y[4] = d /\ z[4] = d
    OBVIOUS
<1> HIDE DEF R, x, y, z
<1>5. ASSUME NEW s \in Seq(R), Len(s) \in 3..5 PROVE SubSeq(s, 1, 1) = <<s[1]>>
    <2>1. SubSeq(s, 1, 1) \in Seq(R) /\ Len(SubSeq(s, 1, 1)) = 1 /\ SubSeq(s, 1, 1)[1] = s[1]
        BY <1>5
    <2> QED
        BY <2>1, ByMembers
<1>6. ASSUME NEW s \in Seq(R), Len(s) \in 4..5 PROVE SubSeq(s, 1, 3) = <<s[1], s[2], s[3]>>
    <2>1. /\ SubSeq(s, 1, 3) \in Seq(R) /\ Len(SubSeq(s, 1, 3)) = 3
          /\ SubSeq(s, 1, 3)[1] = s[1] /\ SubSeq(s, 1, 3)[2] = s[2] /\ SubSeq(s, 1, 3)[3] = s[3]
        BY <1>6
    <2> QED
        BY <2>1, ByMembers
<1>7. ASSUME NEW s \in Seq(R), Len(s) \in 4..5 PROVE SubSeq(s, 1, 4) = <<s[1], s[2], s[3], s[4]>>
    <2>1. /\ SubSeq(s, 1, 4) \in Seq(R) /\ Len(SubSeq(s, 1, 4)) = 4
          /\ SubSeq(s, 1, 4)[1] = s[1] /\ SubSeq(s, 1, 4)[2] = s[2]
          /\ SubSeq(s, 1, 4)[3] = s[3] /\ SubSeq(s, 1, 4)[4] = s[4]
        BY <1>7
    <2> QED
        BY <2>1, ByMembers
<1>1. SubSeq(x, 1, 1) = <<a>> /\ SubSeq(y, 1, 1) = <<a>> /\ SubSeq(z, 1, 1) = <<a>>
    BY <1>0, <1>5, <1>6, <1>7
<1>2. SubSeq(y, 1, 3) = <<a, b, c>> /\ SubSeq(z, 1, 3) = <<a, b, c>>
    BY <1>0, <1>5, <1>6, <1>7
<1>3. SubSeq(y, 1, 4) = <<a, b, c, d>> /\ SubSeq(z, 1, 4) = <<a, b, c, d>>
    BY <1>0, <1>5, <1>6, <1>7
<1>4. /\ Len(<<"api">>) = 1 /\ Len(<<"api", "4", "processes">>) = 3 /\ Len(<<"api", "4", "events", "stream">>) = 4
      /\ Len(<<a, b, c>>) = 3 /\ Len(<<a, b, c, d>>) = 4 /\ Len(<<a, b, c, d, e>>) = 5
    OBVIOUS
<1> QED
    BY <1>1, <1>2, <1>3, <1>4 DEF Under, Starts, x, y, z

\* The arms of suffixes, for a GET.
LEMMA SuffixGet ==
    ASSUME NEW path
    PROVE  /\ SuffixArms(TRUE, path)[1].fits <=> Under(path, <<"api">>) /\ Ends(path, "values")
           /\ SuffixArms(TRUE, path)[2].fits <=> Under(path, <<"api">>) /\ Ends(path, "description")
           /\ SuffixArms(TRUE, path)[3].fits <=> path = <<"api", "4", "history">>
           /\ SuffixArms(TRUE, path)[4].fits <=> \E p \in {"cpu", "mem", "load"} : path \in {<<"api", "4", p>>, <<"api", p>>}
           /\ SuffixArms(TRUE, path)[5].fits <=> Starts(path, <<"api", "4", "events", "stream">>)
           /\ SuffixArms(TRUE, path)[6].fits <=> path = <<"healthz">>
<1>1. TRUE \in BOOLEAN
    OBVIOUS
<1> QED
    BY <1>1, SuffixAre, ApiOne

\* The arms of processes, histories and plugins, for a GET.
LEMMA ReadGet ==
    ASSUME NEW path
    PROVE  /\ ReadArms(TRUE, path)[1].fits <=> path \in {<<"api", "4", "processes", "extended">>, <<"api", "processes", "extended">>}
           /\ ReadArms(TRUE, path)[2].fits <=> Under(path, <<"api", "4", "processes">>)
           /\ ReadArms(TRUE, path)[3].fits <=> Holds(path, "history")
           /\ ReadArms(TRUE, path)[4].fits <=> Under(path, <<"api">>)
<1>1. TRUE \in BOOLEAN
    OBVIOUS
<1> QED
    BY <1>1, ReadAre, ApiTwo

\* What a path of three segments ends with and holds.
LEMMA EndOfThree ==
    ASSUME NEW a, NEW b, NEW c
    PROVE  /\ \A x : Ends(<<a, b, c>>, x) <=> c = x
           /\ \A x : Holds(<<a, b, c>>, x) <=> x \in {a, b, c}
           /\ Back(<<a, b, c>>) = c
<1>1. Len(<<a, b, c>>) = 3 /\ DOMAIN <<a, b, c>> = {1, 2, 3} /\ <<a, b, c>> # <<>>
    OBVIOUS
<1> QED
    BY <1>1 DEF Ends, Holds, Back

\* What a path of four segments ends with and holds.
LEMMA EndOfFour ==
    ASSUME NEW a, NEW b, NEW c, NEW d
    PROVE  /\ \A x : Ends(<<a, b, c, d>>, x) <=> d = x
           /\ \A x : Holds(<<a, b, c, d>>, x) <=> x \in {a, b, c, d}
           /\ Back(<<a, b, c, d>>) = d
<1>1. Len(<<a, b, c, d>>) = 4 /\ DOMAIN <<a, b, c, d>> = {1, 2, 3, 4} /\ <<a, b, c, d>> # <<>>
    OBVIOUS
<1> QED
    BY <1>1 DEF Ends, Holds, Back

\* What a path of five segments ends with and holds.
LEMMA EndOfFive ==
    ASSUME NEW a, NEW b, NEW c, NEW d, NEW e
    PROVE  /\ \A x : Ends(<<a, b, c, d, e>>, x) <=> e = x
           /\ \A x : Holds(<<a, b, c, d, e>>, x) <=> x \in {a, b, c, d, e}
           /\ Back(<<a, b, c, d, e>>) = e
<1>1. Len(<<a, b, c, d, e>>) = 5 /\ DOMAIN <<a, b, c, d, e>> = {1, 2, 3, 4, 5} /\ <<a, b, c, d, e>> # <<>>
    OBVIOUS
<1> QED
    BY <1>1 DEF Ends, Holds, Back

\* The rest of a path of three segments.
LEMMA RestOfThree ==
    ASSUME NEW a, NEW b, NEW c
    PROVE  Rest(<<a, b, c>>) = <<b, c>>
<1> DEFINE R == {a, b, c}
           s == <<a, b, c>>
<1>1. s \in Seq(R) /\ Len(s) = 3 /\ s[1] = a /\ s[2] = b /\ s[3] = c
    OBVIOUS
<1> HIDE DEF R, s
<1>2. SubSeq(s, 2, 3) = <<b, c>>
    <2>2. 2 \in 1..Len(s) /\ 3 \in 2..Len(s) /\ 3 - 2 + 1 = 2 /\ Len(s) \in Nat
        BY <1>1
    <2>3. /\ SubSeq(s, 2, 3) \in Seq(R) /\ Len(SubSeq(s, 2, 3)) = 3 - 2 + 1
          /\ \A k \in 1..3 - 2 + 1 : SubSeq(s, 2, 3)[k] = s[2 + k - 1]
        BY <1>1, <2>2, PartIs
    <2>4. \A k \in 1..2 : SubSeq(s, 2, 3)[k] = s[2 + k - 1]
        BY <2>2, <2>3
    <2>1. /\ SubSeq(s, 2, 3) \in Seq(R) /\ Len(SubSeq(s, 2, 3)) = 2
          /\ SubSeq(s, 2, 3)[1] = b /\ SubSeq(s, 2, 3)[2] = c
        BY <1>1, <2>2, <2>3, <2>4
    <2> QED
        BY <2>1, ByMembers
<1> QED
    BY <1>1, <1>2 DEF s, Rest

\* The parts of one of four.
LEMMA PartsOfFour ==
    ASSUME NEW a, NEW b, NEW c, NEW d
    PROVE  SubSeq(<<a, b, c, d>>, 2, 3) = <<b, c>> /\ SubSeq(<<a, b, c, d>>, 3, 4) = <<c, d>>
<1> DEFINE R == {a, b, c, d}
           s == <<a, b, c, d>>
<1>1. s \in Seq(R) /\ Len(s) = 4 /\ s[1] = a /\ s[2] = b /\ s[3] = c /\ s[4] = d
    OBVIOUS
<1> HIDE DEF R, s
<1>2. SubSeq(s, 2, 3) = <<b, c>>
    <2>2. 2 \in 1..Len(s) /\ 3 \in 2..Len(s) /\ 3 - 2 + 1 = 2 /\ Len(s) \in Nat
        BY <1>1
    <2>3. /\ SubSeq(s, 2, 3) \in Seq(R) /\ Len(SubSeq(s, 2, 3)) = 3 - 2 + 1
          /\ \A k \in 1..3 - 2 + 1 : SubSeq(s, 2, 3)[k] = s[2 + k - 1]
        BY <1>1, <2>2, PartIs
    <2>4. \A k \in 1..2 : SubSeq(s, 2, 3)[k] = s[2 + k - 1]
        BY <2>2, <2>3
    <2>1. /\ SubSeq(s, 2, 3) \in Seq(R) /\ Len(SubSeq(s, 2, 3)) = 2
          /\ SubSeq(s, 2, 3)[1] = b /\ SubSeq(s, 2, 3)[2] = c
        BY <1>1, <2>2, <2>3, <2>4
    <2> QED
        BY <2>1, ByMembers
<1>3. SubSeq(s, 3, 4) = <<c, d>>
    <2>2. 3 \in 1..Len(s) /\ 4 \in 3..Len(s) /\ 4 - 3 + 1 = 2 /\ Len(s) \in Nat
        BY <1>1
    <2>3. /\ SubSeq(s, 3, 4) \in Seq(R) /\ Len(SubSeq(s, 3, 4)) = 4 - 3 + 1
          /\ \A k \in 1..4 - 3 + 1 : SubSeq(s, 3, 4)[k] = s[3 + k - 1]
        BY <1>1, <2>2, PartIs
    <2>4. \A k \in 1..2 : SubSeq(s, 3, 4)[k] = s[3 + k - 1]
        BY <2>2, <2>3
    <2>1. /\ SubSeq(s, 3, 4) \in Seq(R) /\ Len(SubSeq(s, 3, 4)) = 2
          /\ SubSeq(s, 3, 4)[1] = c /\ SubSeq(s, 3, 4)[2] = d
        BY <1>1, <2>2, <2>3, <2>4
    <2> QED
        BY <2>1, ByMembers
<1> QED
    BY <1>1, <1>2, <1>3 DEF s

\* The last segments of one of five.
LEMMA PartOfFive ==
    ASSUME NEW a, NEW b, NEW c, NEW d, NEW e
    PROVE  SubSeq(<<a, b, c, d, e>>, 3, 5) = <<c, d, e>>
<1> DEFINE R == {a, b, c, d, e}
           s == <<a, b, c, d, e>>
<1>1. s \in Seq(R) /\ Len(s) = 5 /\ s[1] = a /\ s[2] = b /\ s[3] = c /\ s[4] = d /\ s[5] = e
    OBVIOUS
<1> HIDE DEF R, s
<1>2. SubSeq(s, 3, 5) = <<c, d, e>>
    <2>2. 3 \in 1..Len(s) /\ 5 \in 3..Len(s) /\ 5 - 3 + 1 = 3 /\ Len(s) \in Nat
        BY <1>1
    <2>3. /\ SubSeq(s, 3, 5) \in Seq(R) /\ Len(SubSeq(s, 3, 5)) = 5 - 3 + 1
          /\ \A k \in 1..5 - 3 + 1 : SubSeq(s, 3, 5)[k] = s[3 + k - 1]
        BY <1>1, <2>2, PartIs
    <2>4. \A k \in 1..3 : SubSeq(s, 3, 5)[k] = s[3 + k - 1]
        BY <2>2, <2>3
    <2>1. /\ SubSeq(s, 3, 5) \in Seq(R) /\ Len(SubSeq(s, 3, 5)) = 3
          /\ SubSeq(s, 3, 5)[1] = c /\ SubSeq(s, 3, 5)[2] = d /\ SubSeq(s, 3, 5)[3] = e
        BY <1>1, <2>2, <2>3, <2>4
    <2> QED
        BY <2>1, ByMembers
<1> QED
    BY <1>1, <1>2 DEF s

\* The plugin of a version and a name.
LEMMA VersionNamed == ASSUME NEW v \in Numbers, NEW p PROVE Named(<<v, p>>) = p
BY DEF Named

\* GET of one plugin's stats.
LEMMA PluginAnswers ==
    ASSUME NEW p \in Plugins, NEW body
    PROVE  RouteOf("GET", <<"api", "4", p>>, body) = <<"plugin", p>>
<1> DEFINE path == <<"api", "4", p>>
<1>1. p \notin Reserved /\ p \notin Numbers /\ "4" \in Numbers /\ p # "history" /\ p # "values" /\ p # "description"
    BY NamesAre DEF Reserved
<1>2. /\ path \notin NamedPaths /\ path # <<"api", "4", "history">> /\ path # <<"healthz">>
      /\ path \notin {<<"api", "4", "processes", "extended">>, <<"api", "processes", "extended">>}
    BY <1>1, PathsOfPlugin
<1>3. ~Ends(path, "values") /\ ~Ends(path, "description") /\ ~Holds(path, "history") /\ Back(path) = p
    BY <1>1, EndOfThree
<1>4. /\ Under(path, <<"api">>) /\ ~Under(path, <<"api", "4", "processes">>)
      /\ ~Starts(path, <<"api", "4", "events", "stream">>)
    BY Segments
<1>9. Rest(path) = <<"4", p>> /\ Named(<<"4", p>>) = p
    BY <1>1, RestOfThree, VersionNamed
<1>5. Direct(path) = <<"plugin", p>> /\ OfPlugin("plugin", Back(path)) = <<"plugin", p>>
    BY <1>3, <1>9 DEF Direct, OfPlugin
<1> HIDE DEF path
<1>6. \A j \in {1, 2, 3, 5, 6} : ~SuffixArms(TRUE, path)[j].fits
    BY <1>2, <1>3, <1>4, SuffixGet
<1>7. CASE SuffixArms(TRUE, path)[4].fits
    <2>1. \A j \in 1..6 : j < 4 => j \in {1, 2, 3, 5, 6}
        OBVIOUS
    <2>2. \A j \in 1..6 : j < 4 => ~SuffixArms(TRUE, path)[j].fits
        BY <1>6, <2>1
    <2>3. 4 \in 1..6
        OBVIOUS
    <2>4. RouteOf("GET", path, body) = SuffixArms(TRUE, path)[4].then
        BY <1>2, <1>7, <2>2, <2>3, FirstSuffix
    <2> QED
        BY <1>5, <2>4, SuffixAre DEF path
<1>8. CASE ~SuffixArms(TRUE, path)[4].fits
    <2>1. \A j \in 1..6 : j \in {1, 2, 3, 4, 5, 6}
        OBVIOUS
    <2>2. \A j \in 1..6 : ~SuffixArms(TRUE, path)[j].fits
        BY <1>6, <1>8, <2>1
    <2>3. \A j \in {1, 2, 3} : ~ReadArms(TRUE, path)[j].fits
        BY <1>2, <1>3, <1>4, ReadGet
    <2>4. \A j \in 1..4 : j < 4 => j \in {1, 2, 3}
        OBVIOUS
    <2>5. \A j \in 1..4 : j < 4 => ~ReadArms(TRUE, path)[j].fits
        BY <2>3, <2>4
    <2>6. ReadArms(TRUE, path)[4].fits
        BY <1>4, ReadGet
    <2>7. 4 \in 1..4
        OBVIOUS
    <2>8. RouteOf("GET", path, body) = ReadArms(TRUE, path)[4].then
        BY <1>2, <2>2, <2>5, <2>6, <2>7, FirstRead
    <2> QED
        BY <1>5, <2>8, ReadAre DEF path
<1> QED
    BY <1>7, <1>8 DEF path

\* Neither named nor of a suffix.
NoEarlier(path) ==
    /\ path \notin NamedPaths /\ ~Ends(path, "values") /\ ~Ends(path, "description")
    /\ path # <<"api", "4", "history">> /\ path # <<"healthz">>
    /\ \A q \in {"cpu", "mem", "load"} : path \notin {<<"api", "4", q>>, <<"api", q>>}
    /\ ~Starts(path, <<"api", "4", "events", "stream">>)

\* No suffix takes such a path.
LEMMA PassesSuffixes ==
    ASSUME NEW path, NoEarlier(path)
    PROVE  \A j \in 1..6 : ~SuffixArms(TRUE, path)[j].fits
<1>1. \A j \in {1, 2, 3, 4, 5, 6} : ~SuffixArms(TRUE, path)[j].fits
    BY SuffixGet DEF NoEarlier
<1>2. \A j \in 1..6 : j \in {1, 2, 3, 4, 5, 6}
    OBVIOUS
<1> QED
    BY <1>1, <1>2

\* What ends with "values" is answered by its plugin.
LEMMA ValuesArm ==
    ASSUME NEW path, NEW body, path \notin NamedPaths, Under(path, <<"api">>), Ends(path, "values")
    PROVE  RouteOf("GET", path, body) = Suffixed("plugin", path)
<1>1. SuffixArms(TRUE, path)[1].fits
    BY SuffixGet
<1>2. 1 \in 1..6 /\ \A j \in 1..6 : ~(j < 1)
    OBVIOUS
<1>3. RouteOf("GET", path, body) = SuffixArms(TRUE, path)[1].then
    BY <1>1, <1>2, FirstSuffix
<1> QED
    BY <1>3, SuffixAre

\* What ends with "description" is, too.
LEMMA DescriptionArm ==
    ASSUME NEW path, NEW body, path \notin NamedPaths, Under(path, <<"api">>),
           ~Ends(path, "values"), Ends(path, "description")
    PROVE  RouteOf("GET", path, body) = Suffixed("description", path)
<1>1. SuffixArms(TRUE, path)[2].fits /\ ~SuffixArms(TRUE, path)[1].fits
    BY SuffixGet
<1>2. 2 \in 1..6 /\ \A j \in 1..6 : j < 2 => j = 1
    OBVIOUS
<1>3. \A j \in 1..6 : j < 2 => ~SuffixArms(TRUE, path)[j].fits
    BY <1>1, <1>2
<1>4. RouteOf("GET", path, body) = SuffixArms(TRUE, path)[2].then
    BY <1>1, <1>2, <1>3, FirstSuffix
<1> QED
    BY <1>4, SuffixAre

\* The history of all plugins.
LEMMA AllHistoryArm ==
    ASSUME NEW body
    PROVE  RouteOf("GET", <<"api", "4", "history">>, body) = <<"all history">>
<1> DEFINE path == <<"api", "4", "history">>
<1>0. path \notin NamedPaths
    BY DEF NamedPaths
<1>1. ~Ends(path, "values") /\ ~Ends(path, "description")
    <2>1. \A x : Ends(path, x) <=> "history" = x
        BY EndOfThree
    <2> QED
        BY <2>1
<1>5. SuffixArms(TRUE, path)[3].fits
    BY SuffixGet
<1> HIDE DEF path
<1>2. \A j \in {1, 2} : ~SuffixArms(TRUE, path)[j].fits
    BY <1>1, SuffixGet
<1>3. 3 \in 1..6 /\ \A j \in 1..6 : j < 3 => j \in {1, 2}
    OBVIOUS
<1>4. \A j \in 1..6 : j < 3 => ~SuffixArms(TRUE, path)[j].fits
    BY <1>2, <1>3
<1>6. RouteOf("GET", path, body) = SuffixArms(TRUE, path)[3].then
    BY <1>0, <1>5, <1>3, <1>4, FirstSuffix
<1> QED
    BY <1>6, SuffixAre DEF path

\* The event stream.
LEMMA StreamArm ==
    ASSUME NEW path, NEW body, path \notin NamedPaths, ~Ends(path, "values"), ~Ends(path, "description"),
           path # <<"api", "4", "history">>, Starts(path, <<"api", "4", "events", "stream">>),
           \A q \in {"cpu", "mem", "load"} : path \notin {<<"api", "4", q>>, <<"api", q>>}
    PROVE  RouteOf("GET", path, body) = <<"event stream">>
<1>1. SuffixArms(TRUE, path)[5].fits
    BY SuffixGet
<1>2. \A j \in {1, 2, 3, 4} : ~SuffixArms(TRUE, path)[j].fits
    BY SuffixGet
<1>3. 5 \in 1..6 /\ \A j \in 1..6 : j < 5 => j \in {1, 2, 3, 4}
    OBVIOUS
<1>4. \A j \in 1..6 : j < 5 => ~SuffixArms(TRUE, path)[j].fits
    BY <1>2, <1>3
<1>6. RouteOf("GET", path, body) = SuffixArms(TRUE, path)[5].then
    BY <1>1, <1>3, <1>4, FirstSuffix
<1> QED
    BY <1>6, SuffixAre

\* The pinned process, of what comes that far.
LEMMA PinnedArm ==
    ASSUME NEW path, NEW body, NoEarlier(path), path = <<"api", "4", "processes", "extended">>
    PROVE  RouteOf("GET", path, body) = <<"pinned">>
<1>1. ReadArms(TRUE, path)[1].fits
    BY ReadGet
<1>2. 1 \in 1..4 /\ \A j \in 1..4 : ~(j < 1)
    OBVIOUS
<1>3. RouteOf("GET", path, body) = ReadArms(TRUE, path)[1].then
    BY <1>1, <1>2, PassesSuffixes, FirstRead DEF NoEarlier
<1> QED
    BY <1>3, ReadAre

\* One process.
LEMMA ProcessArm ==
    ASSUME NEW path, NEW body, NoEarlier(path), Under(path, <<"api", "4", "processes">>),
           path \notin {<<"api", "4", "processes", "extended">>, <<"api", "processes", "extended">>}
    PROVE  RouteOf("GET", path, body) = ProcessByPid(path)
<1>1. ReadArms(TRUE, path)[2].fits /\ ~ReadArms(TRUE, path)[1].fits
    BY ReadGet
<1>2. 2 \in 1..4 /\ \A j \in 1..4 : j < 2 => j = 1
    OBVIOUS
<1>3. \A j \in 1..4 : j < 2 => ~ReadArms(TRUE, path)[j].fits
    BY <1>1, <1>2
<1>4. RouteOf("GET", path, body) = ReadArms(TRUE, path)[2].then
    BY <1>1, <1>2, <1>3, PassesSuffixes, FirstRead DEF NoEarlier
<1> QED
    BY <1>4, ReadAre

\* One history.
LEMMA HistoryArm ==
    ASSUME NEW path, NEW body, NoEarlier(path), ~Under(path, <<"api", "4", "processes">>), Holds(path, "history"),
           path \notin {<<"api", "4", "processes", "extended">>, <<"api", "processes", "extended">>}
    PROVE  RouteOf("GET", path, body) = History(path)
<1>1. ReadArms(TRUE, path)[3].fits /\ \A j \in {1, 2} : ~ReadArms(TRUE, path)[j].fits
    BY ReadGet
<1>2. 3 \in 1..4 /\ \A j \in 1..4 : j < 3 => j \in {1, 2}
    OBVIOUS
<1>3. \A j \in 1..4 : j < 3 => ~ReadArms(TRUE, path)[j].fits
    BY <1>1, <1>2
<1>4. RouteOf("GET", path, body) = ReadArms(TRUE, path)[3].then
    BY <1>1, <1>2, <1>3, PassesSuffixes, FirstRead DEF NoEarlier
<1> QED
    BY <1>4, ReadAre

\* A path of four segments that no earlier arm takes.
LEMMA FourSegments ==
    ASSUME NEW c, NEW d, c # "all", c # "events", d # "values", d # "description"
    PROVE  NoEarlier(<<"api", "4", c, d>>)
<1> DEFINE path == <<"api", "4", c, d>>
<1>1. \A x : Ends(path, x) <=> d = x
    BY EndOfFour
<1>2. ~Ends(path, "values") /\ ~Ends(path, "description")
    BY <1>1
<1>3. ~Starts(path, <<"api", "4", "events", "stream">>)
    BY Segments
<1>4. path \notin NamedPaths
    BY DEF NamedPaths
<1>5. path # <<"api", "4", "history">> /\ path # <<"healthz">>
    OBVIOUS
<1>6. \A q : path \notin {<<"api", "4", q>>, <<"api", q>>}
    OBVIOUS
<1> QED
    BY <1>2, <1>3, <1>4, <1>5, <1>6 DEF NoEarlier

\* And one of five.
LEMMA FiveSegments ==
    ASSUME NEW c, NEW d, NEW e, c # "events", e # "values", e # "description"
    PROVE  NoEarlier(<<"api", "4", c, d, e>>)
<1> DEFINE path == <<"api", "4", c, d, e>>
<1>1. \A x : Ends(path, x) <=> e = x
    BY EndOfFive
<1>2. ~Ends(path, "values") /\ ~Ends(path, "description")
    BY <1>1
<1>3. ~Starts(path, <<"api", "4", "events", "stream">>)
    BY Segments
<1>4. path \notin NamedPaths
    BY DEF NamedPaths
<1>5. path # <<"api", "4", "history">> /\ path # <<"healthz">>
    OBVIOUS
<1>6. \A q : path \notin {<<"api", "4", q>>, <<"api", q>>}
    OBVIOUS
<1> QED
    BY <1>2, <1>3, <1>4, <1>5, <1>6 DEF NoEarlier

\* GET of one plugin's values, of its description.
LEMMA OfPluginAnswers ==
    ASSUME NEW p \in Plugins, NEW body
    PROVE  /\ RouteOf("GET", <<"api", "4", p, "values">>, body) = <<"plugin", p>>
           /\ RouteOf("GET", <<"api", "4", p, "description">>, body) = <<"description", p>>
<1> DEFINE path(s) == <<"api", "4", p, s>>
<1>1. path("values") \notin NamedPaths /\ path("description") \notin NamedPaths
    BY PathsOfPlugin
<1>2. ASSUME NEW s PROVE Under(path(s), <<"api">>) /\ \A x : Ends(path(s), x) <=> s = x
    <2>1. Under(path(s), <<"api">>)
        BY Segments
    <2>2. \A x : Ends(path(s), x) <=> s = x
        BY EndOfFour
    <2> QED
        BY <2>1, <2>2
<1>3. ASSUME NEW s PROVE \A kind : Suffixed(kind, path(s)) = <<kind, p>>
    <2>1. Len(path(s)) = 4 /\ SubSeq(path(s), 2, 3) = <<"4", p>>
        BY PartsOfFour
    <2>2. Named(<<"4", p>>) = p
        BY NamesAre, VersionNamed
    <2> HIDE DEF path
    <2>3. SubSeq(path(s), 2, Len(path(s)) - 1) = <<"4", p>>
        BY <2>1
    <2> QED
        BY <2>2, <2>3 DEF Suffixed, OfPlugin
<1> HIDE DEF path
<1>4. RouteOf("GET", path("values"), body) = Suffixed("plugin", path("values"))
    BY <1>1, <1>2, ValuesArm
<1>5. RouteOf("GET", path("description"), body) = Suffixed("description", path("description"))
    <2>1. ~Ends(path("description"), "values") /\ Ends(path("description"), "description")
        BY <1>2
    <2> QED
        BY <1>1, <1>2, <2>1, DescriptionArm
<1> QED
    BY <1>3, <1>4, <1>5 DEF path

\* GET of the event stream.
LEMMA StreamAnswers ==
    ASSUME NEW body
    PROVE  RouteOf("GET", <<"api", "4", "events", "stream">>, body) = <<"event stream">>
<1> DEFINE path == <<"api", "4", "events", "stream">>
<1>1. \A x : Ends(path, x) <=> "stream" = x
    BY EndOfFour
<1>2. ~Ends(path, "values") /\ ~Ends(path, "description")
    BY <1>1
<1>3. Starts(path, <<"api", "4", "events", "stream">>)
    BY Segments
<1>4. path \notin NamedPaths
    BY DEF NamedPaths
<1>5. path # <<"api", "4", "history">>
    OBVIOUS
<1>6. \A q \in {"cpu", "mem", "load"} : path \notin {<<"api", "4", q>>, <<"api", q>>}
    OBVIOUS
<1> HIDE DEF path
<1>7. RouteOf("GET", path, body) = <<"event stream">>
    BY <1>2, <1>3, <1>4, <1>5, <1>6, StreamArm
<1> QED
    BY <1>7 DEF path

\* GET of the pinned process, and of one that is listed.
LEMMA ProcessAnswers ==
    ASSUME NEW body
    PROVE  /\ RouteOf("GET", <<"api", "4", "processes", "extended">>, body) = <<"pinned">>
           /\ \A n \in Listed : RouteOf("GET", <<"api", "4", "processes", n>>, body) = <<"process", n>>
<1> DEFINE path(n) == <<"api", "4", "processes", n>>
<1>1. NoEarlier(path("extended"))
    BY FourSegments
<1>2. ASSUME NEW n \in Listed PROVE RouteOf("GET", path(n), body) = <<"process", n>>
    <2>1. n # "values" /\ n # "description" /\ n # "extended"
        BY NamesAre DEF Reserved
    <2>2. NoEarlier(path(n))
        BY <2>1, FourSegments
    <2>3. Under(path(n), <<"api", "4", "processes">>)
        BY Segments
    <2>4. path(n) \notin {<<"api", "4", "processes", "extended">>, <<"api", "processes", "extended">>}
        BY <2>1
    <2>5. Back(path(n)) = n
        BY EndOfFour
    <2> HIDE DEF path
    <2> QED
        BY <2>2, <2>3, <2>4, <2>5, ProcessArm DEF ProcessByPid
<1>3. RouteOf("GET", path("extended"), body) = <<"pinned">>
    BY <1>1, PinnedArm
<1> QED
    BY <1>2, <1>3

\* GET of one plugin's history, and of the last samples of it.
LEMMA HistoryAnswers ==
    ASSUME NEW p \in Plugins, NEW body
    PROVE  /\ RouteOf("GET", <<"api", "4", p, "history">>, body) = <<"history", p>>
           /\ \A n \in Numbers : RouteOf("GET", <<"api", "4", p, "history", n>>, body) = <<"history", p>>
<1> DEFINE whole == <<"api", "4", p, "history">>
           slice(n) == <<"api", "4", p, "history", n>>
<1>1. p # "all" /\ p # "events" /\ p # "processes" /\ "4" \in Numbers
    BY NamesAre DEF Reserved
<1>2. RouteOf("GET", whole, body) = <<"history", p>>
    <2>1. NoEarlier(whole)
        BY <1>1, FourSegments
    <2>2. ~Under(whole, <<"api", "4", "processes">>)
        BY <1>1, Segments
    <2>3. Holds(whole, "history")
        <3>1. \A x : Holds(whole, x) <=> x \in {"api", "4", p, "history"}
            BY EndOfFour
        <3> QED
            BY <3>1
    <2>4. whole \notin {<<"api", "4", "processes", "extended">>, <<"api", "processes", "extended">>}
        OBVIOUS
    <2>5. Starts(whole, <<"api">>)
        BY Segments DEF Under
    <2>6. Len(whole) = 4 /\ whole[2] \in Numbers /\ SubSeq(whole, 3, 4) = <<p, "history">>
        BY <1>1, PartsOfFour
    <2> HIDE DEF whole
    <2>7. RouteOf("GET", whole, body) = History(whole)
        BY <2>1, <2>2, <2>3, <2>4, HistoryArm
    <2>8. (IF Len(whole) >= 4 /\ whole[2] \in Numbers THEN SubSeq(whole, 3, Len(whole)) ELSE Rest(whole)) = <<p, "history">>
        BY <2>6
    <2>9. Len(<<p, "history">>) = 2 /\ <<p, "history">>[1] = p /\ <<p, "history">>[2] = "history"
        OBVIOUS
    <2>10. History(whole) = OfPlugin("history", p)
        BY <2>5, <2>8, <2>9 DEF History
    <2> QED
        BY <2>7, <2>10 DEF OfPlugin
<1>3. ASSUME NEW n \in Numbers PROVE RouteOf("GET", slice(n), body) = <<"history", p>>
    <2>0. n # "values" /\ n # "description"
        BY NamesAre DEF Reserved
    <2>1. NoEarlier(slice(n))
        BY <1>1, <2>0, FiveSegments
    <2>2. ~Under(slice(n), <<"api", "4", "processes">>)
        BY <1>1, Segments
    <2>3. Holds(slice(n), "history")
        <3>1. \A x : Holds(slice(n), x) <=> x \in {"api", "4", p, "history", n}
            BY EndOfFive
        <3> QED
            BY <3>1
    <2>4. slice(n) \notin {<<"api", "4", "processes", "extended">>, <<"api", "processes", "extended">>}
        OBVIOUS
    <2>5. Starts(slice(n), <<"api">>)
        BY Segments DEF Under
    <2>6. Len(slice(n)) = 5 /\ slice(n)[2] \in Numbers /\ SubSeq(slice(n), 3, 5) = <<p, "history", n>>
        BY <1>1, PartOfFive
    <2> HIDE DEF slice
    <2>7. RouteOf("GET", slice(n), body) = History(slice(n))
        BY <2>1, <2>2, <2>3, <2>4, HistoryArm
    <2>8. (IF Len(slice(n)) >= 4 /\ slice(n)[2] \in Numbers THEN SubSeq(slice(n), 3, Len(slice(n))) ELSE Rest(slice(n))) = <<p, "history", n>>
        BY <2>6
    <2>9. /\ Len(<<p, "history", n>>) = 3 /\ <<p, "history", n>>[1] = p /\ <<p, "history", n>>[2] = "history"
          /\ <<p, "history", n>>[3] = n
        OBVIOUS
    <2>10. History(slice(n)) = OfPlugin("history", p)
        BY <2>5, <2>8, <2>9 DEF History
    <2> QED
        BY <2>7, <2>10 DEF OfPlugin
<1> QED
    BY <1>2, <1>3

\* The arms of events, for a POST.
LEMMA EventPost ==
    ASSUME NEW path
    PROVE  /\ EventArms(TRUE, path)[1].fits <=>
                path \in {<<"api", "4", "events", "clear", "warning">>, <<"api", "events", "clear", "warning">>}
           /\ EventArms(TRUE, path)[2].fits <=>
                path \in {<<"api", "4", "events", "clear", "all">>, <<"api", "events", "clear", "all">>}
           /\ EventArms(TRUE, path)[3].fits <=>
                path \in {<<"api", "4", "processes", "extended", "disable">>, <<"api", "processes", "extended", "disable">>}
<1>1. TRUE \in BOOLEAN
    OBVIOUS
<1>2. /\ EventArms(TRUE, path)[1].fits <=> path \in Api(<<"events", "clear", "warning">>)
      /\ EventArms(TRUE, path)[2].fits <=> path \in Api(<<"events", "clear", "all">>)
      /\ EventArms(TRUE, path)[3].fits <=> path \in Api(<<"processes", "extended", "disable">>)
    BY <1>1, EventAre
<1>3. /\ Api(<<"events", "clear", "warning">>)
            = {<<"api", "4", "events", "clear", "warning">>, <<"api", "events", "clear", "warning">>}
      /\ Api(<<"events", "clear", "all">>)
            = {<<"api", "4", "events", "clear", "all">>, <<"api", "events", "clear", "all">>}
      /\ Api(<<"processes", "extended", "disable">>)
            = {<<"api", "4", "processes", "extended", "disable">>, <<"api", "processes", "extended", "disable">>}
    BY ApiThree
<1> QED
    BY <1>2, <1>3

\* Their answers.
LEMMA EventsAnswer ==
    ASSUME NEW body
    PROVE  /\ RouteOf("POST", <<"api", "4", "events", "clear", "warning">>, body) = <<"clear", "warning">>
           /\ RouteOf("POST", <<"api", "4", "events", "clear", "all">>, body) = <<"clear", "all">>
           /\ RouteOf("POST", <<"api", "4", "processes", "extended", "disable">>, body) = <<"unpin">>
<1> DEFINE w == <<"api", "4", "events", "clear", "warning">>
           a == <<"api", "4", "events", "clear", "all">>
           d == <<"api", "4", "processes", "extended", "disable">>
           Warning == {<<"api", "4", "events", "clear", "warning">>, <<"api", "events", "clear", "warning">>}
           All == {<<"api", "4", "events", "clear", "all">>, <<"api", "events", "clear", "all">>}
           Disable == {<<"api", "4", "processes", "extended", "disable">>, <<"api", "processes", "extended", "disable">>}
<1>7. w \in Warning /\ a \in All /\ d \in Disable
    OBVIOUS
<1>8. a \notin Warning
    OBVIOUS
<1>9. d \notin Warning
    OBVIOUS
<1>10. d \notin All
    OBVIOUS
<1>11. \A path : /\ EventArms(TRUE, path)[1].fits <=> path \in Warning
                 /\ EventArms(TRUE, path)[2].fits <=> path \in All
                 /\ EventArms(TRUE, path)[3].fits <=> path \in Disable
    BY EventPost
<1> HIDE DEF w, a, d, Warning, All, Disable
<1>1. EventArms(TRUE, w)[1].fits
    BY <1>7, <1>11
<1>2. EventArms(TRUE, a)[2].fits /\ ~EventArms(TRUE, a)[1].fits
    BY <1>7, <1>8, <1>11
<1>3. EventArms(TRUE, d)[3].fits /\ ~EventArms(TRUE, d)[1].fits /\ ~EventArms(TRUE, d)[2].fits
    BY <1>7, <1>9, <1>10, <1>11
<1>4. RouteOf("POST", w, body) = <<"clear", "warning">>
    <2>1. 1 \in 1..3 /\ \A j \in 1..3 : ~(j < 1)
        OBVIOUS
    <2>2. RouteOf("POST", w, body) = EventArms(TRUE, w)[1].then
        BY <1>1, <2>1, FirstEvent
    <2> QED
        BY <2>2, EventAre
<1>5. RouteOf("POST", a, body) = <<"clear", "all">>
    <2>1. 2 \in 1..3 /\ \A j \in 1..3 : j < 2 => j = 1
        OBVIOUS
    <2>2. RouteOf("POST", a, body) = EventArms(TRUE, a)[2].then
        BY <1>2, <2>1, FirstEvent
    <2> QED
        BY <2>2, EventAre
<1>6. RouteOf("POST", d, body) = <<"unpin">>
    <2>1. 3 \in 1..3 /\ \A j \in 1..3 : j < 3 => j = 1 \/ j = 2
        OBVIOUS
    <2>2. RouteOf("POST", d, body) = EventArms(TRUE, d)[3].then
        BY <1>3, <2>1, FirstEvent
    <2> QED
        BY <2>2, EventAre
<1> QED
    BY <1>4, <1>5, <1>6 DEF w, a, d

\* POST of a pin.
LEMMA PinAnswers ==
    ASSUME NEW n \in Listed, NEW body
    PROVE  RouteOf("POST", <<"api", "4", "processes", "extended", n>>, body) = <<"pin", n>>
<1> DEFINE path == <<"api", "4", "processes", "extended", n>>
           R == {"api", "4", "processes", "extended", n}
<1>1. n # "disable" /\ n \in Numbers
    BY NamesAre DEF Reserved
<1>2. \A j \in {1, 2, 3} : ~EventArms(TRUE, path)[j].fits
    <2>1. path \notin {<<"api", "4", "events", "clear", "warning">>, <<"api", "events", "clear", "warning">>}
        OBVIOUS
    <2>2. path \notin {<<"api", "4", "events", "clear", "all">>, <<"api", "events", "clear", "all">>}
        OBVIOUS
    <2>3. path \notin {<<"api", "4", "processes", "extended", "disable">>, <<"api", "processes", "extended", "disable">>}
        BY <1>1
    <2> HIDE DEF path
    <2> QED
        BY <2>1, <2>2, <2>3, EventPost
<1>3. Under(path, <<"api">>) /\ Back(path) = n
    <2>1. Under(path, <<"api">>)
        BY Segments
    <2>2. Back(path) = n
        BY EndOfFive
    <2> QED
        BY <2>1, <2>2
<1>4. path \in Seq(R) /\ Len(path) = 5 /\ path[3] = "processes" /\ path[4] = "extended"
    OBVIOUS
<1> HIDE DEF path, R
<1>5. SubSeq(path, 3, 4) = <<"processes", "extended">>
    <2>0. 3 \in 1..Len(path) /\ 4 \in 3..Len(path)
        BY <1>4
    <2>2. /\ SubSeq(path, 3, 4) \in Seq(R) /\ Len(SubSeq(path, 3, 4)) = 4 - 3 + 1
          /\ \A k \in 1..4 - 3 + 1 : SubSeq(path, 3, 4)[k] = path[3 + k - 1]
        BY <1>4, <2>0, PartIs
    <2>3. 4 - 3 + 1 = 2 /\ 1 \in 1..4 - 3 + 1 /\ 2 \in 1..4 - 3 + 1 /\ 3 + 1 - 1 = 3 /\ 3 + 2 - 1 = 4
        OBVIOUS
    <2>1. Len(SubSeq(path, 3, 4)) = 2 /\ SubSeq(path, 3, 4)[1] = path[3] /\ SubSeq(path, 3, 4)[2] = path[4]
        BY <2>2, <2>3
    <2> QED
        BY <1>4, <2>1, <2>2, ByMembers
<1>6. \E i \in 1..Len(path) - 2 : SubSeq(path, i, i + 1) = <<"processes", "extended">>
    <2>1. 3 \in 1..Len(path) - 2 /\ 3 + 1 = 4
        BY <1>4
    <2> QED
        BY <1>5, <2>1
<1>7. PostArms(TRUE, path, body)[1].fits
    BY <1>3, <1>6, PostAre
<1>8. \A j \in 1..3 : ~EventArms(TRUE, path)[j].fits
    <2>1. \A j \in 1..3 : j \in {1, 2, 3}
        OBVIOUS
    <2> QED
        BY <1>2, <2>1
<1>9. 1 \in 1..3 /\ \A j \in 1..3 : ~(j < 1)
    OBVIOUS
<1>10. RouteOf("POST", path, body) = PostArms(TRUE, path, body)[1].then
    BY <1>7, <1>8, <1>9, FirstPost
<1>11. RouteOf("POST", path, body) = Pin(path)
    BY <1>10, PostAre
<1> QED
    BY <1>1, <1>3, <1>11 DEF Pin, path

\* POST for a token.
LEMMA TokenAnswers ==
    ASSUME NEW body
    PROVE  RouteOf("POST", <<"api", "4", "token">>, body) = <<"not implemented">>
<1> DEFINE path == <<"api", "4", "token">>
           R == {"api", "4", "token"}
<1>1. \A j \in {1, 2, 3} : ~EventArms(TRUE, path)[j].fits
    <2>1. path \notin {<<"api", "4", "events", "clear", "warning">>, <<"api", "events", "clear", "warning">>}
        OBVIOUS
    <2>2. path \notin {<<"api", "4", "events", "clear", "all">>, <<"api", "events", "clear", "all">>}
        OBVIOUS
    <2>3. path \notin {<<"api", "4", "processes", "extended", "disable">>, <<"api", "processes", "extended", "disable">>}
        OBVIOUS
    <2> HIDE DEF path
    <2> QED
        BY <2>1, <2>2, <2>3, EventPost
<1>2. path \in Seq(R) /\ Len(path) = 3 /\ path[1] = "api"
    OBVIOUS
<1>3. path \in {<<"api", "4", "token">>, <<"api", "token">>}
    OBVIOUS
<1> HIDE DEF path, R
<1>4. PostArms(TRUE, path, body)[2].fits
    BY <1>3, PostAre, ApiOne
<1>5. ~PostArms(TRUE, path, body)[1].fits
    <2>1. ASSUME NEW i \in 1..Len(path) - 2 PROVE SubSeq(path, i, i + 1) # <<"processes", "extended">>
        <3>1. i = 1 /\ i + 1 = 2
            BY <1>2
        <3>2. SubSeq(path, 1, 2)[1] = "api"
            <4>1. 1 \in 1..Len(path) /\ 2 \in 1..Len(path) /\ 1 \in 1..2 - 1 + 1 /\ 1 + 1 - 1 = 1
                BY <1>2
            <4> QED
                BY <1>2, <4>1, PartIs
        <3>3. <<"processes", "extended">>[1] = "processes"
            OBVIOUS
        <3>4. SubSeq(path, 1, 2) # <<"processes", "extended">>
            BY <3>2, <3>3
        <3> QED
            BY <3>1, <3>4
    <2> QED
        BY <2>1, PostAre
<1>6. \A j \in 1..3 : ~EventArms(TRUE, path)[j].fits
    <2>1. \A j \in 1..3 : j \in {1, 2, 3}
        OBVIOUS
    <2> QED
        BY <1>1, <2>1
<1>7. 2 \in 1..3 /\ \A j \in 1..3 : j < 2 => j = 1
    OBVIOUS
<1>8. RouteOf("POST", path, body) = PostArms(TRUE, path, body)[2].then
    BY <1>4, <1>5, <1>6, <1>7, FirstPost
<1>9. PostArms(TRUE, path, body)[2].then = <<"not implemented">>
    BY PostAre
<1> QED
    BY <1>8, <1>9 DEF path

\* Lists that grow by one, or by none.
LEMMA Glued ==
    ASSUME NEW a, NEW b, NEW c, NEW d
    PROVE  /\ <<a>> \o <<b>> = <<a, b>> /\ <<a, b>> \o <<c>> = <<a, b, c>> /\ <<a, b, c>> \o <<d>> = <<a, b, c, d>>
           /\ <<a>> \o <<>> = <<a>> /\ <<a, b>> \o <<>> = <<a, b>> /\ <<a, b, c>> \o <<>> = <<a, b, c>>
<1> DEFINE R == {a, b, c, d}
           x == <<a>> \o <<b>>
           y == <<a, b>> \o <<c>>
           z == <<a, b, c>> \o <<d>>
           u == <<a>> \o <<>>
           v == <<a, b>> \o <<>>
           w == <<a, b, c>> \o <<>>
<1>1. /\ <<a>> \in Seq(R) /\ <<a, b>> \in Seq(R) /\ <<a, b, c>> \in Seq(R) /\ <<>> \in Seq(R)
      /\ <<b>> \in Seq(R) /\ <<c>> \in Seq(R) /\ <<d>> \in Seq(R)
    OBVIOUS
<1>2. /\ x \in Seq(R) /\ Len(x) = 2 /\ y \in Seq(R) /\ Len(y) = 3 /\ z \in Seq(R) /\ Len(z) = 4
      /\ u \in Seq(R) /\ Len(u) = 1 /\ v \in Seq(R) /\ Len(v) = 2 /\ w \in Seq(R) /\ Len(w) = 3
    BY <1>1
<1>3. x[1] = a /\ x[2] = b /\ y[1] = a /\ y[2] = b /\ y[3] = c
    BY <1>1
<1>4. z[1] = a /\ z[2] = b /\ z[3] = c /\ z[4] = d
    BY <1>1
<1>5. u[1] = a /\ v[1] = a /\ v[2] = b /\ w[1] = a /\ w[2] = b /\ w[3] = c
    BY <1>1
<1> HIDE DEF R, x, y, z, u, v, w
<1>6. x = <<a, b>> /\ y = <<a, b, c>> /\ z = <<a, b, c, d>>
    BY <1>2, <1>3, <1>4, ByMembers
<1>7. u = <<a>> /\ v = <<a, b>> /\ w = <<a, b, c>>
    BY <1>2, <1>5, ByMembers
<1> QED
    BY <1>6, <1>7 DEF x, y, z, u, v, w

\* The paths that name a plugin, written out.
LEMMA NamesOne ==
    ASSUME NEW name
    PROVE  /\ <<"api", name>> \in OfName(name)
           /\ \A t \in {"values", "description"} : <<"api", name, t>> \in OfName(name)
           /\ \A v \in Numbers : <<"api", v, name>> \in OfName(name)
           /\ \A v \in Numbers, t \in {"values", "description"} : <<"api", v, name, t>> \in OfName(name)
<1> DEFINE V == {<<>>} \cup {<<n>> : n \in Numbers}
           S == {<<>>, <<"values">>, <<"description">>}
           F(v, s) == <<"api">> \o v \o <<name>> \o s
<1>0. OfName(name) = {F(v, s) : v \in V, s \in S}
    BY DEF OfName
<1> HIDE DEF V, S, F
<1>1. ASSUME NEW s \in S, NEW v \in V PROVE F(v, s) \in OfName(name)
    BY <1>0
<1> USE DEF F, S, V
<1>2. <<"api">> \o <<>> \o <<name>> \o <<>> = <<"api", name>>
    BY Glued
<1>3. ASSUME NEW t PROVE <<"api">> \o <<>> \o <<name>> \o <<t>> = <<"api", name, t>>
    <2>1. <<"api">> \o <<>> = <<"api">> /\ <<"api">> \o <<name>> = <<"api", name>>
        BY Glued
    <2>2. <<"api", name>> \o <<t>> = <<"api", name, t>>
        BY Glued
    <2> QED
        BY <2>1, <2>2
<1>4. ASSUME NEW v PROVE <<"api">> \o <<v>> \o <<name>> \o <<>> = <<"api", v, name>>
    <2>1. <<"api">> \o <<v>> = <<"api", v>> /\ <<"api", v>> \o <<name>> = <<"api", v, name>>
        BY Glued
    <2>2. <<"api", v, name>> \o <<>> = <<"api", v, name>>
        BY Glued
    <2> QED
        BY <2>1, <2>2
<1>5. ASSUME NEW v, NEW t PROVE <<"api">> \o <<v>> \o <<name>> \o <<t>> = <<"api", v, name, t>>
    <2>1. <<"api">> \o <<v>> = <<"api", v>> /\ <<"api", v>> \o <<name>> = <<"api", v, name>>
        BY Glued
    <2>2. <<"api", v, name>> \o <<t>> = <<"api", v, name, t>>
        BY Glued
    <2> QED
        BY <2>1, <2>2
<1>6. <<>> \in {<<>>} \cup {<<n>> : n \in Numbers} /\ \A v \in Numbers : <<v>> \in {<<>>} \cup {<<n>> : n \in Numbers}
    OBVIOUS
<1>7. <<>> \in {<<>>, <<"values">>, <<"description">>}
    OBVIOUS
<1>8. \A t \in {"values", "description"} : <<t>> \in {<<>>, <<"values">>, <<"description">>}
    OBVIOUS
<1>9. <<"api", name>> \in OfName(name)
    BY <1>1, <1>2, <1>6, <1>7
<1>10. ASSUME NEW t \in {"values", "description"} PROVE <<"api", name, t>> \in OfName(name)
    <2>1. <<"api">> \o <<>> \o <<name>> \o <<t>> \in OfName(name)
        BY <1>1, <1>6, <1>8
    <2> QED
        BY <1>3, <2>1
<1>11. ASSUME NEW v \in Numbers PROVE <<"api", v, name>> \in OfName(name)
    <2>1. <<"api">> \o <<v>> \o <<name>> \o <<>> \in OfName(name)
        BY <1>1, <1>6, <1>7
    <2> QED
        BY <1>4, <2>1
<1>12. ASSUME NEW v \in Numbers, NEW t \in {"values", "description"} PROVE <<"api", v, name, t>> \in OfName(name)
    <2>1. <<"api">> \o <<v>> \o <<name>> \o <<t>> \in OfName(name)
        BY <1>1, <1>6, <1>8
    <2> QED
        BY <1>5, <2>1
<1> QED
    BY <1>9, <1>10, <1>11, <1>12

\* Segments that name a plugin are its name, with a version or without.
LEMMA NamedIs ==
    ASSUME NEW segs \in Seq(STRING), Named(segs) # ""
    PROVE  segs = <<Named(segs)>> \/ \E v \in Numbers : segs = <<v, Named(segs)>>
<1>1. CASE segs # <<>> /\ segs[1] \in Numbers
    <2>1. Len(segs) = 2 /\ Named(segs) = segs[2]
        BY <1>1 DEF Named
    <2>2. segs = <<segs[1], segs[2]>>
        BY <2>1, ByMembers
    <2> QED
        BY <1>1, <2>1, <2>2
<1>2. CASE ~(segs # <<>> /\ segs[1] \in Numbers)
    <2>1. Len(segs) = 1 /\ Named(segs) = segs[1]
        BY <1>2 DEF Named
    <2>2. segs = <<segs[1]>>
        BY <2>1, ByMembers
    <2> QED
        BY <2>1, <2>2
<1> QED
    BY <1>1, <1>2

\* What is under the API begins with its name.
LEMMA UnderApi ==
    ASSUME NEW path \in Seq(STRING), Under(path, <<"api">>)
    PROVE  Len(path) \in Nat /\ Len(path) >= 2 /\ path[1] = "api"
<1>1. Len(<<"api">>) = 1 /\ <<"api">>[1] = "api"
    OBVIOUS
<1>2. Len(path) \in Nat /\ Len(path) >= 2 /\ SubSeq(path, 1, 1) = <<"api">>
    BY <1>1 DEF Under, Starts
<1>3. SubSeq(path, 1, 1)[1] = path[1]
    BY <1>2
<1> QED
    BY <1>1, <1>2, <1>3

\* A path is put together again from its rest.
LEMMA FromRest ==
    ASSUME NEW path \in Seq(STRING), Under(path, <<"api">>)
    PROVE  /\ Rest(path) \in Seq(STRING)
           /\ \A a : Rest(path) = <<a>> => path = <<"api", a>>
           /\ \A a, b : Rest(path) = <<a, b>> => path = <<"api", a, b>>
<1>1. Len(path) \in Nat /\ Len(path) >= 2 /\ path[1] = "api"
    BY UnderApi
<1>2. /\ Rest(path) \in Seq(STRING) /\ Len(Rest(path)) = Len(path) - 1
      /\ \A k \in 1..Len(path) - 1 : Rest(path)[k] = path[k + 1]
    <2>1. 2 \in 1..Len(path) /\ Len(path) \in 2..Len(path)
        BY <1>1
    <2>2. /\ Rest(path) \in Seq(STRING) /\ Len(Rest(path)) = Len(path) - 2 + 1
          /\ \A k \in 1..Len(path) - 2 + 1 : Rest(path)[k] = path[2 + k - 1]
        BY <2>1, PartIs DEF Rest
    <2>3. Len(path) - 2 + 1 = Len(path) - 1 /\ \A k \in Nat : 2 + k - 1 = k + 1
        BY <1>1
    <2> QED
        BY <2>2, <2>3
<1>3. ASSUME NEW a, Rest(path) = <<a>> PROVE path = <<"api", a>>
    <2>1. Len(<<a>>) = 1 /\ <<a>>[1] = a
        OBVIOUS
    <2>2. Len(path) = 2
        BY <1>1, <1>2, <1>3, <2>1
    <2>3. path[2] = a
        BY <1>2, <1>3, <2>1, <2>2
    <2> QED
        BY <1>1, <2>2, <2>3, ByMembers
<1>4. ASSUME NEW a, NEW b, Rest(path) = <<a, b>> PROVE path = <<"api", a, b>>
    <2>1. Len(<<a, b>>) = 2 /\ <<a, b>>[1] = a /\ <<a, b>>[2] = b
        OBVIOUS
    <2>2. Len(path) = 3
        BY <1>1, <1>2, <1>4, <2>1
    <2>3. path[2] = a /\ path[3] = b
        BY <1>2, <1>4, <2>1, <2>2
    <2> QED
        BY <1>1, <2>2, <2>3, ByMembers
<1> QED
    BY <1>2, <1>3, <1>4

\* And from what is between its first and its last.
LEMMA FromMiddle ==
    ASSUME NEW path \in Seq(STRING), Under(path, <<"api">>), NEW t, Ends(path, t)
    PROVE  LET middle == SubSeq(path, 2, Len(path) - 1)
           IN  /\ middle \in Seq(STRING)
               /\ \A a : middle = <<a>> => path = <<"api", a, t>>
               /\ \A a, b : middle = <<a, b>> => path = <<"api", a, b, t>>
<1> DEFINE middle == SubSeq(path, 2, Len(path) - 1)
<1>1. Len(path) \in Nat /\ Len(path) >= 2 /\ path[1] = "api" /\ path[Len(path)] = t
    BY UnderApi DEF Ends
<1>2. CASE Len(path) = 2
    <2>1. middle \in Seq(STRING) /\ Len(middle) = 0
        BY <1>2
    <2>2. \A a, b : Len(<<a>>) = 1 /\ Len(<<a, b>>) = 2
        OBVIOUS
    <2> HIDE DEF middle
    <2>3. \A a, b : middle # <<a>> /\ middle # <<a, b>>
        BY <2>1, <2>2
    <2> QED
        BY <2>1, <2>3 DEF middle
<1>3. CASE Len(path) >= 3
    <2>0. 2 \in 1..Len(path) /\ Len(path) - 1 \in 2..Len(path)
        BY <1>1, <1>3
    <2>1. /\ middle \in Seq(STRING) /\ Len(middle) = (Len(path) - 1) - 2 + 1
          /\ \A k \in 1..(Len(path) - 1) - 2 + 1 : middle[k] = path[2 + k - 1]
        BY <2>0, PartIs
    <2> HIDE DEF middle
    <2>2. (Len(path) - 1) - 2 + 1 = Len(path) - 2 /\ \A k \in Nat : 2 + k - 1 = k + 1
        BY <1>1
    <2>3. Len(middle) = Len(path) - 2 /\ \A k \in 1..Len(path) - 2 : middle[k] = path[k + 1]
        BY <2>1, <2>2
    <2>4. ASSUME NEW a, middle = <<a>> PROVE path = <<"api", a, t>>
        <3>1. Len(<<a>>) = 1 /\ <<a>>[1] = a
            OBVIOUS
        <3>2. Len(path) = 3
            BY <1>1, <2>3, <2>4, <3>1
        <3>3. path[2] = a
            BY <2>3, <2>4, <3>1, <3>2
        <3> QED
            BY <1>1, <3>2, <3>3, ByMembers
    <2>5. ASSUME NEW a, NEW b, middle = <<a, b>> PROVE path = <<"api", a, b, t>>
        <3>1. Len(<<a, b>>) = 2 /\ <<a, b>>[1] = a /\ <<a, b>>[2] = b
            OBVIOUS
        <3>2. Len(path) = 4
            BY <1>1, <2>3, <2>5, <3>1
        <3>3. path[2] = a /\ path[3] = b
            BY <2>3, <2>5, <3>1, <3>2
        <3> QED
            BY <1>1, <3>2, <3>3, ByMembers
    <2> QED
        BY <2>1, <2>4, <2>5 DEF middle
<1>4. Len(path) = 2 \/ Len(path) >= 3
    <2>1. \A k \in Nat : k >= 2 => k = 2 \/ k >= 3
        OBVIOUS
    <2> QED
        BY <1>1, <2>1
<1> QED
    BY <1>2, <1>3, <1>4

\* An answer of one plugin names its path.
NamesPath(reply, path) == reply[1] \in {"plugin", "description"} => path \in OfName(reply[2])

\* A plugin that is named is not the empty string; NotFound is neither kind.
LEMMA PluginFound ==
    ASSUME NEW kind, NEW name
    PROVE  \/ OfPlugin(kind, name) = <<kind, name>> /\ name # ""
           \/ OfPlugin(kind, name) = NotFound
BY NamesAre DEF OfPlugin, Reserved

\* That nothing was found says nothing of a plugin.
LEMMA NotFoundNames == ASSUME NEW path PROVE NamesPath(NotFound, path)
BY DEF NamesPath, NotFound

\* Nor does an answer for the server as a whole.
LEMMA OneNames ==
    ASSUME NEW path, NEW said, said \notin {"plugin", "description"}
    PROVE  NamesPath(<<said>>, path)
BY DEF NamesPath

\* An answer for a plugin whose name the path has in its place.
LEMMA PairNames ==
    ASSUME NEW path, NEW kind, NEW name, path \in OfName(name)
    PROVE  NamesPath(<<kind, name>>, path)
BY DEF NamesPath

\* The arms of a name and a suffix cut out the name in between.
LEMMA SuffixedNames ==
    ASSUME NEW path \in Seq(STRING), Under(path, <<"api">>), NEW t \in {"values", "description"}, Ends(path, t), NEW kind
    PROVE  NamesPath(Suffixed(kind, path), path)
<1> DEFINE middle == SubSeq(path, 2, Len(path) - 1)
           name == Named(middle)
<1>1. /\ middle \in Seq(STRING)
      /\ \A a : middle = <<a>> => path = <<"api", a, t>>
      /\ \A a, b : middle = <<a, b>> => path = <<"api", a, b, t>>
    BY FromMiddle
<1>2. Suffixed(kind, path) = OfPlugin(kind, name)
    BY DEF Suffixed
<1> HIDE DEF middle
<1>3. CASE name # ""
    <2>1. middle = <<name>> \/ \E v \in Numbers : middle = <<v, name>>
        BY <1>1, <1>3, NamedIs
    <2> HIDE DEF name
    <2>2. path \in OfName(name)
        BY <1>1, <2>1, NamesOne
    <2> QED
        BY <1>2, <2>2, PluginFound, PairNames, NotFoundNames
<1>4. CASE name = ""
    BY <1>2, <1>4, PluginFound, NotFoundNames
<1> QED
    BY <1>3, <1>4

\* The arm of a bare name takes the rest of the path.
LEMMA DirectNames ==
    ASSUME NEW path \in Seq(STRING), Under(path, <<"api">>)
    PROVE  NamesPath(Direct(path), path)
<1> DEFINE after == Rest(path)
           name == Named(after)
<1>1. /\ after \in Seq(STRING)
      /\ \A a : after = <<a>> => path = <<"api", a>>
      /\ \A a, b : after = <<a, b>> => path = <<"api", a, b>>
    BY FromRest
<1>2. Direct(path) = OfPlugin("plugin", name)
    BY DEF Direct
<1> HIDE DEF after
<1>3. CASE name # ""
    <2>1. after = <<name>> \/ \E v \in Numbers : after = <<v, name>>
        BY <1>1, <1>3, NamedIs
    <2> HIDE DEF name
    <2>2. path \in OfName(name)
        BY <1>1, <2>1, NamesOne
    <2> QED
        BY <1>2, <2>2, PluginFound, PairNames, NotFoundNames
<1>4. CASE name = ""
    BY <1>2, <1>4, PluginFound, NotFoundNames
<1> QED
    BY <1>3, <1>4

\* The arms that name their path answer for no plugin.
LEMMA NamedNames ==
    ASSUME NEW get \in BOOLEAN, NEW path, NEW i \in 1..12, NamedArms(get, path)[i].fits
    PROVE  NamesPath(NamedArms(get, path)[i].then, path)
<1>1. i \in {1, 2, 3, 4, 5, 6, 7, 8, 9, 10, 11, 12}
    OBVIOUS
<1>2. CASE i = 2
    <2>1. path \in {<<"favicon.ico">>, <<"openapi.json">>} /\ NamedArms(get, path)[2].then = path
        BY <1>2, NamedAre, NamedSay
    <2>2. path[1] \in {"favicon.ico", "openapi.json"}
        BY <2>1
    <2> QED
        BY <1>2, <2>1, <2>2 DEF NamesPath
<1>3. CASE i # 2
    <2> DEFINE Plain(n) == NamesPath(NamedArms(get, path)[n].then, path)
    <2>0. /\ NamedArms(get, path)[1].then = <<"dashboard.html">> /\ NamedArms(get, path)[3].then = <<"all values">>
          /\ NamedArms(get, path)[4].then = <<"all limits">> /\ NamedArms(get, path)[5].then = <<"all views">>
          /\ NamedArms(get, path)[6].then = <<"status">> /\ NamedArms(get, path)[7].then = <<"pluginslist">>
          /\ NamedArms(get, path)[8].then = <<"serverslist">> /\ NamedArms(get, path)[9].then = <<"health">>
          /\ NamedArms(get, path)[10].then = <<"dashboard">> /\ NamedArms(get, path)[11].then = <<"all views">>
          /\ NamedArms(get, path)[12].then = <<"all values">>
        BY DEF NamedArms, Arm
    <2>1. /\ NamesPath(<<"dashboard.html">>, path) /\ NamesPath(<<"all values">>, path)
          /\ NamesPath(<<"all limits">>, path) /\ NamesPath(<<"all views">>, path)
          /\ NamesPath(<<"status">>, path) /\ NamesPath(<<"pluginslist">>, path)
          /\ NamesPath(<<"serverslist">>, path) /\ NamesPath(<<"health">>, path)
          /\ NamesPath(<<"dashboard">>, path)
        BY OneNames
    <2>2. Plain(1) /\ Plain(3) /\ Plain(4) /\ Plain(5) /\ Plain(6) /\ Plain(7)
        BY <2>0, <2>1
    <2>3. Plain(8) /\ Plain(9) /\ Plain(10) /\ Plain(11) /\ Plain(12)
        BY <2>0, <2>1
    <2> HIDE DEF Plain
    <2>4. Plain(i)
        BY <1>1, <1>3, <2>2, <2>3
    <2> QED
        BY <2>4 DEF Plain
<1> QED
    BY <1>2, <1>3

\* Those of suffixes and of three plugins name theirs.
LEMMA SuffixNames ==
    ASSUME NEW get \in BOOLEAN, NEW path \in Seq(STRING), NEW i \in 1..6, SuffixArms(get, path)[i].fits
    PROVE  NamesPath(SuffixArms(get, path)[i].then, path)
<1>0. i \in {1, 2, 3, 4, 5, 6}
    OBVIOUS
<1>1. CASE i = 1
    <2>1. Under(path, <<"api">>) /\ Ends(path, "values") /\ SuffixArms(get, path)[1].then = Suffixed("plugin", path)
        BY <1>1, SuffixAre
    <2> QED
        BY <1>1, <2>1, SuffixedNames
<1>2. CASE i = 2
    <2>1. /\ Under(path, <<"api">>) /\ Ends(path, "description")
          /\ SuffixArms(get, path)[2].then = Suffixed("description", path)
        BY <1>2, SuffixAre
    <2> QED
        BY <1>2, <2>1, SuffixedNames
<1>3. CASE i = 4
    <2>1. /\ \E p \in {"cpu", "mem", "load"} : path \in Api(<<p>>)
          /\ SuffixArms(get, path)[4].then = OfPlugin("plugin", Back(path))
        BY <1>3, SuffixAre
    <2>2. PICK p \in {"cpu", "mem", "load"} : path \in {<<"api", "4", p>>, <<"api", p>>}
        BY <2>1, ApiOne
    <2>3. Back(<<"api", "4", p>>) = p /\ Back(<<"api", p>>) = p
        <3>1. Len(<<"api", p>>) = 2 /\ <<"api", p>>[2] = p /\ <<"api", p>> # <<>>
            OBVIOUS
        <3> QED
            BY <3>1, EndOfThree DEF Back
    <2>4. Back(path) = p
        BY <2>2, <2>3
    <2>5. path \in OfName(p)
        BY <2>2, NamesOne, NamesAre
    <2>6. NamesPath(OfPlugin("plugin", p), path)
        BY <2>5, PluginFound, PairNames, NotFoundNames
    <2> QED
        BY <1>3, <2>1, <2>4, <2>6
<1>4. CASE i \notin {1, 2, 4}
    <2>1. /\ SuffixArms(get, path)[3].then = <<"all history">> /\ SuffixArms(get, path)[5].then = <<"event stream">>
          /\ SuffixArms(get, path)[6].then = <<"ok">>
        BY DEF SuffixArms, Arm
    <2> QED
        BY <1>0, <1>4, <2>1, OneNames
<1> QED
    BY <1>1, <1>2, <1>3, <1>4

\* The events answer for none.
LEMMA EventNames ==
    ASSUME NEW post \in BOOLEAN, NEW path, NEW i \in 1..3
    PROVE  NamesPath(EventArms(post, path)[i].then, path)
<1>1. i \in {1, 2, 3}
    OBVIOUS
<1>2. EventArms(post, path)[i].then \in {<<"clear", "warning">>, <<"clear", "all">>, <<"unpin">>}
    BY <1>1, EventAre
<1> QED
    BY <1>2 DEF NamesPath

\* What is read of one plugin names it.
LEMMA ReadNames ==
    ASSUME NEW get \in BOOLEAN, NEW path \in Seq(STRING), NEW i \in 1..4, ReadArms(get, path)[i].fits
    PROVE  NamesPath(ReadArms(get, path)[i].then, path)
<1>0. i \in {1, 2, 3, 4}
    OBVIOUS
<1>1. CASE i = 1
    BY <1>1, ReadAre DEF NamesPath
<1>2. CASE i = 2
    <2>1. ReadArms(get, path)[2].then = ProcessByPid(path)
        BY ReadAre
    <2>2. ProcessByPid(path)[1] \in {"process", "not found"}
        BY DEF ProcessByPid, NotFound
    <2> QED
        BY <1>2, <2>1, <2>2 DEF NamesPath
<1>3. CASE i = 3
    <2>1. ReadArms(get, path)[3].then = History(path)
        BY ReadAre
    <2>2. \A name : OfPlugin("history", name)[1] \in {"history", "not found"}
        BY DEF OfPlugin, NotFound
    <2>3. History(path) = NotFound \/ \E name : History(path) = OfPlugin("history", name)
        BY DEF History
    <2>4. History(path)[1] \in {"history", "not found"}
        <3>1. NotFound[1] = "not found"
            BY DEF NotFound
        <3> HIDE DEF NotFound
        <3> QED
            BY <2>2, <2>3, <3>1
    <2> QED
        BY <1>3, <2>1, <2>4 DEF NamesPath
<1>4. CASE i = 4
    <2>1. Under(path, <<"api">>) /\ ReadArms(get, path)[4].then = Direct(path)
        BY <1>4, ReadAre
    <2> QED
        BY <1>4, <2>1, DirectNames
<1> QED
    BY <1>0, <1>1, <1>2, <1>3, <1>4

\* What is posted answers for none.
LEMMA PostNames ==
    ASSUME NEW post \in BOOLEAN, NEW path, NEW body, NEW i \in 1..3
    PROVE  NamesPath(PostArms(post, path, body)[i].then, path)
<1>0. i \in {1, 2, 3}
    OBVIOUS
<1>1. CASE i = 1
    <2>1. PostArms(post, path, body)[1].then = Pin(path)
        BY DEF PostArms, Arm
    <2>2. Pin(path)[1] \in {"bad request", "pin", "not found"}
        BY DEF Pin, NotFound
    <2> QED
        BY <1>1, <2>1, <2>2 DEF NamesPath
<1>2. CASE i = 2
    <2>1. PostArms(post, path, body)[2].then = <<"not implemented">>
        BY DEF PostArms, Arm
    <2> QED
        BY <1>2, <2>1, OneNames
<1>3. CASE i = 3
    <2>1. PostArms(post, path, body)[3].then = Mcp(body)
        BY DEF PostArms, Arm
    <2>2. Mcp(body)[1] \in {"initialize", "capabilities", "tools/list", "tools/call", "mcp error"}
        BY DEF Mcp
    <2> QED
        BY <1>3, <2>1, <2>2 DEF NamesPath
<1> QED
    BY <1>0, <1>1, <1>2, <1>3

\* Whatever is asked, an answer of one plugin names its path.
LEMMA AnswersName ==
    ASSUME NEW method, NEW path \in Seq(STRING), NEW body
    PROVE  NamesPath(RouteOf(method, path, body), path)
<1> DEFINE get == method = "GET"
           post == method = "POST"
           s == Arms(method = "GET", method = "POST", path, body)
<1>1. get \in BOOLEAN /\ post \in BOOLEAN
    OBVIOUS
<1>2. /\ \A i \in 1..12 : s[i] = NamedArms(get, path)[i]
      /\ \A i \in 1..6 : s[12 + i] = SuffixArms(get, path)[i]
      /\ \A i \in 1..3 : s[18 + i] = EventArms(post, path)[i]
      /\ \A i \in 1..4 : s[21 + i] = ReadArms(get, path)[i]
      /\ \A i \in 1..3 : s[25 + i] = PostArms(post, path, body)[i]
    BY Places
<1>3. \/ RouteOf(method, path, body) = NotFound
      \/ \E k \in 1..28 : s[k].fits /\ RouteOf(method, path, body) = s[k].then
    BY SomeAnswers
<1> HIDE DEF get, post, s
<1>4. ASSUME NEW k \in 1..28, s[k].fits PROVE NamesPath(s[k].then, path)
    <2>1. CASE k \in 1..12
        BY <1>1, <1>2, <1>4, <2>1, NamedNames
    <2>2. CASE k \in 13..18
        <3>1. k - 12 \in 1..6 /\ 12 + (k - 12) = k
            BY <2>2
        <3>2. s[k] = SuffixArms(get, path)[k - 12]
            BY <1>2, <3>1
        <3> QED
            BY <1>1, <1>4, <3>1, <3>2, SuffixNames
    <2>3. CASE k \in 19..21
        <3>1. k - 18 \in 1..3 /\ 18 + (k - 18) = k
            BY <2>3
        <3>2. s[k] = EventArms(post, path)[k - 18]
            BY <1>2, <3>1
        <3> QED
            BY <1>1, <3>1, <3>2, EventNames
    <2>4. CASE k \in 22..25
        <3>1. k - 21 \in 1..4 /\ 21 + (k - 21) = k
            BY <2>4
        <3>2. s[k] = ReadArms(get, path)[k - 21]
            BY <1>2, <3>1
        <3> QED
            BY <1>1, <1>4, <3>1, <3>2, ReadNames
    <2>5. CASE k \in 26..28
        <3>1. k - 25 \in 1..3 /\ 25 + (k - 25) = k
            BY <2>5
        <3>2. s[k] = PostArms(post, path, body)[k - 25]
            BY <1>2, <3>1
        <3> QED
            BY <1>1, <3>1, <3>2, PostNames
    <2> QED
        BY <2>1, <2>2, <2>3, <2>4, <2>5
<1> QED
    BY <1>3, <1>4, NotFoundNames

\* Paths of the version the list is of.
LEMMA Versioned ==
    ASSUME NEW a, NEW b, NEW c
    PROVE  /\ <<"api", "4">> \o <<a>> = <<"api", "4", a>>
           /\ <<"api", "4">> \o <<a, b>> = <<"api", "4", a, b>>
           /\ <<"api", "4">> \o <<a, b, c>> = <<"api", "4", a, b, c>>
<1> DEFINE R == {"api", "4", a, b, c}
           x == <<"api", "4">> \o <<a>>
           y == <<"api", "4">> \o <<a, b>>
           z == <<"api", "4">> \o <<a, b, c>>
<1>1. <<"api", "4">> \in Seq(R) /\ <<a>> \in Seq(R) /\ <<a, b>> \in Seq(R) /\ <<a, b, c>> \in Seq(R)
    OBVIOUS
<1>2. x \in Seq(R) /\ Len(x) = 3 /\ y \in Seq(R) /\ Len(y) = 4 /\ z \in Seq(R) /\ Len(z) = 5
    BY <1>1
<1>3. x[1] = "api" /\ x[2] = "4" /\ y[1] = "api" /\ y[2] = "4" /\ z[1] = "api" /\ z[2] = "4"
    BY <1>1
<1>4. x[3] = a /\ y[3] = a /\ z[3] = a /\ y[4] = b /\ z[4] = b /\ z[5] = c
    BY <1>1
<1> HIDE DEF x, y, z, R
<1>5. x = <<"api", "4", a>> /\ y = <<"api", "4", a, b>> /\ z = <<"api", "4", a, b, c>>
    BY <1>2, <1>3, <1>4, ByMembers
<1> QED
    BY <1>5 DEF x, y, z

\* What an entry of the list says is so.
Honoured(e) == \A body : RouteOf(e.method, e.path, body) = e.reply

\* An entry of the list under the version's prefix.
LEMMA EntryKept ==
    ASSUME NEW method, NEW tail, NEW reply, \A body : RouteOf(method, <<"api", "4">> \o tail, body) = reply
    PROVE  Honoured(Entry(method, tail, reply))
BY DEF Honoured, Entry

\* The entries without a name in them.
LEMMA PlainKept ==
    /\ \A a \in {<<"status">>, <<"pluginslist">>, <<"serverslist">>, <<"health">>} : Honoured(Entry("GET", a, a))
    /\ Honoured(Entry("GET", <<"all">>, <<"all values">>)) /\ Honoured(Entry("GET", <<"all", "limits">>, <<"all limits">>))
    /\ Honoured(Entry("GET", <<"all", "views">>, <<"all views">>)) /\ Honoured(Entry("GET", <<"history">>, <<"all history">>))
    /\ Honoured(Entry("GET", <<"processes", "extended">>, <<"pinned">>))
    /\ Honoured(Entry("GET", <<"events", "stream">>, <<"event stream">>))
    /\ Honoured(Entry("POST", <<"processes", "extended", "disable">>, <<"unpin">>))
    /\ Honoured(Entry("POST", <<"token">>, <<"not implemented">>))
    /\ \A w \in {"all", "warning"} : Honoured(Entry("POST", <<"events", "clear", w>>, <<"clear", w>>))
<1>1. ASSUME NEW a \in {<<"status">>, <<"pluginslist">>, <<"serverslist">>, <<"health">>} PROVE Honoured(Entry("GET", a, a))
    <2>1. Honoured(Entry("GET", <<"status">>, <<"status">>))
        BY NamedAnswers, Versioned, EntryKept
    <2>2. Honoured(Entry("GET", <<"pluginslist">>, <<"pluginslist">>))
        BY NamedAnswers, Versioned, EntryKept
    <2>3. Honoured(Entry("GET", <<"serverslist">>, <<"serverslist">>))
        BY NamedAnswers, Versioned, EntryKept
    <2>4. Honoured(Entry("GET", <<"health">>, <<"health">>))
        BY NamedAnswers, Versioned, EntryKept
    <2> QED
        BY <2>1, <2>2, <2>3, <2>4
<1>2. Honoured(Entry("GET", <<"all">>, <<"all values">>))
    BY NamedAnswers, Versioned, EntryKept
<1>3. Honoured(Entry("GET", <<"all", "limits">>, <<"all limits">>))
    BY NamedAnswers, Versioned, EntryKept
<1>4. Honoured(Entry("GET", <<"all", "views">>, <<"all views">>))
    BY NamedAnswers, Versioned, EntryKept
<1>5. Honoured(Entry("GET", <<"history">>, <<"all history">>))
    BY AllHistoryArm, Versioned, EntryKept
<1>6. Honoured(Entry("GET", <<"processes", "extended">>, <<"pinned">>))
    BY ProcessAnswers, Versioned, EntryKept
<1>7. Honoured(Entry("GET", <<"events", "stream">>, <<"event stream">>))
    BY StreamAnswers, Versioned, EntryKept
<1>8. Honoured(Entry("POST", <<"processes", "extended", "disable">>, <<"unpin">>))
    <2>1. <<"api", "4">> \o <<"processes", "extended", "disable">> = <<"api", "4", "processes", "extended", "disable">>
        BY Versioned
    <2>2. \A body : RouteOf("POST", <<"api", "4", "processes", "extended", "disable">>, body) = <<"unpin">>
        BY EventsAnswer
    <2>3. \A body : RouteOf("POST", <<"api", "4">> \o <<"processes", "extended", "disable">>, body) = <<"unpin">>
        BY <2>1, <2>2
    <2> QED
        BY <2>3, EntryKept
<1>9. Honoured(Entry("POST", <<"token">>, <<"not implemented">>))
    BY TokenAnswers, Versioned, EntryKept
<1>10. Honoured(Entry("POST", <<"events", "clear", "all">>, <<"clear", "all">>))
    <2>1. <<"api", "4">> \o <<"events", "clear", "all">> = <<"api", "4", "events", "clear", "all">>
        BY Versioned
    <2>2. \A body : RouteOf("POST", <<"api", "4", "events", "clear", "all">>, body) = <<"clear", "all">>
        BY EventsAnswer
    <2>3. \A body : RouteOf("POST", <<"api", "4">> \o <<"events", "clear", "all">>, body) = <<"clear", "all">>
        BY <2>1, <2>2
    <2> QED
        BY <2>3, EntryKept
<1>11. Honoured(Entry("POST", <<"events", "clear", "warning">>, <<"clear", "warning">>))
    <2>1. <<"api", "4">> \o <<"events", "clear", "warning">> = <<"api", "4", "events", "clear", "warning">>
        BY Versioned
    <2>2. \A body : RouteOf("POST", <<"api", "4", "events", "clear", "warning">>, body) = <<"clear", "warning">>
        BY EventsAnswer
    <2>3. \A body : RouteOf("POST", <<"api", "4">> \o <<"events", "clear", "warning">>, body) = <<"clear", "warning">>
        BY <2>1, <2>2
    <2> QED
        BY <2>3, EntryKept
<1> QED
    BY <1>1, <1>2, <1>3, <1>4, <1>5, <1>6, <1>7, <1>8, <1>9, <1>10, <1>11

\* Those of one plugin or one process.
LEMMA NamesKept ==
    /\ \A p \in Plugins, s \in {<<>>, <<"values">>} : Honoured(Entry("GET", <<p>> \o s, <<"plugin", p>>))
    /\ \A p \in Plugins : Honoured(Entry("GET", <<p, "description">>, <<"description", p>>))
    /\ \A p \in Plugins, s \in {<<>>} \cup {<<n>> : n \in Numbers} :
            Honoured(Entry("GET", <<p, "history">> \o s, <<"history", p>>))
    /\ \A p \in Listed : Honoured(Entry("GET", <<"processes", p>>, <<"process", p>>))
    /\ \A p \in Listed : Honoured(Entry("POST", <<"processes", "extended", p>>, <<"pin", p>>))
<1>1. ASSUME NEW p \in Plugins, NEW s \in {<<>>, <<"values">>} PROVE Honoured(Entry("GET", <<p>> \o s, <<"plugin", p>>))
    <2>1. Honoured(Entry("GET", <<p>>, <<"plugin", p>>))
        BY PluginAnswers, Versioned, EntryKept
    <2>2. Honoured(Entry("GET", <<p, "values">>, <<"plugin", p>>))
        BY OfPluginAnswers, Versioned, EntryKept
    <2>3. <<p>> \o <<>> = <<p>> /\ <<p>> \o <<"values">> = <<p, "values">>
        BY Glued
    <2> QED
        BY <2>1, <2>2, <2>3
<1>2. ASSUME NEW p \in Plugins PROVE Honoured(Entry("GET", <<p, "description">>, <<"description", p>>))
    BY OfPluginAnswers, Versioned, EntryKept
<1>3. ASSUME NEW p \in Plugins, NEW s \in {<<>>} \cup {<<n>> : n \in Numbers}
      PROVE  Honoured(Entry("GET", <<p, "history">> \o s, <<"history", p>>))
    <2>1. Honoured(Entry("GET", <<p, "history">>, <<"history", p>>))
        <3>1. <<"api", "4">> \o <<p, "history">> = <<"api", "4", p, "history">>
            BY Versioned
        <3>2. \A body : RouteOf("GET", <<"api", "4", p, "history">>, body) = <<"history", p>>
            BY HistoryAnswers
        <3>3. \A body : RouteOf("GET", <<"api", "4">> \o <<p, "history">>, body) = <<"history", p>>
            BY <3>1, <3>2
        <3> QED
            BY <3>3, EntryKept
    <2>2. ASSUME NEW n \in Numbers PROVE Honoured(Entry("GET", <<p, "history", n>>, <<"history", p>>))
        <3>1. <<"api", "4">> \o <<p, "history", n>> = <<"api", "4", p, "history", n>>
            BY Versioned
        <3>2. \A body : RouteOf("GET", <<"api", "4", p, "history", n>>, body) = <<"history", p>>
            BY HistoryAnswers
        <3>3. \A body : RouteOf("GET", <<"api", "4">> \o <<p, "history", n>>, body) = <<"history", p>>
            BY <3>1, <3>2
        <3> QED
            BY <3>3, EntryKept
    <2>3. /\ <<p, "history">> \o <<>> = <<p, "history">>
          /\ \A n : <<p, "history">> \o <<n>> = <<p, "history", n>>
        BY Glued
    <2> QED
        BY <2>1, <2>2, <2>3
<1>4. ASSUME NEW p \in Listed PROVE Honoured(Entry("GET", <<"processes", p>>, <<"process", p>>))
    BY ProcessAnswers, Versioned, EntryKept
<1>5. ASSUME NEW p \in Listed PROVE Honoured(Entry("POST", <<"processes", "extended", p>>, <<"pin", p>>))
    <2>1. <<"api", "4">> \o <<"processes", "extended", p>> = <<"api", "4", "processes", "extended", p>>
        BY Versioned
    <2>2. \A body : RouteOf("POST", <<"api", "4", "processes", "extended", p>>, body) = <<"pin", p>>
        BY PinAnswers
    <2>3. \A body : RouteOf("POST", <<"api", "4">> \o <<"processes", "extended", p>>, body) = <<"pin", p>>
        BY <2>1, <2>2
    <2> QED
        BY <2>3, EntryKept
<1> QED
    BY <1>1, <1>2, <1>3, <1>4, <1>5

\* The whole list.
LEMMA ListKept == \A e \in Endpoints : Honoured(e)
<1> DEFINE A == {Entry("GET", a, a) : a \in {<<"status">>, <<"pluginslist">>, <<"serverslist">>, <<"health">>}}
           B == {Entry("GET", <<"all">>, <<"all values">>), Entry("GET", <<"all", "limits">>, <<"all limits">>),
                 Entry("GET", <<"all", "views">>, <<"all views">>), Entry("GET", <<"history">>, <<"all history">>),
                 Entry("GET", <<"processes", "extended">>, <<"pinned">>),
                 Entry("GET", <<"events", "stream">>, <<"event stream">>),
                 Entry("POST", <<"processes", "extended", "disable">>, <<"unpin">>),
                 Entry("POST", <<"token">>, <<"not implemented">>)}
           C == {Entry("GET", <<p>> \o s, <<"plugin", p>>) : p \in Plugins, s \in {<<>>, <<"values">>}}
           D == {Entry("GET", <<p, "description">>, <<"description", p>>) : p \in Plugins}
           E == {Entry("GET", <<p, "history">> \o s, <<"history", p>>) :
                    p \in Plugins, s \in {<<>>} \cup {<<n>> : n \in Numbers}}
           F == {Entry("GET", <<"processes", p>>, <<"process", p>>) : p \in Listed}
           G == {Entry("POST", <<"processes", "extended", p>>, <<"pin", p>>) : p \in Listed}
           H == {Entry("POST", <<"events", "clear", w>>, <<"clear", w>>) : w \in {"all", "warning"}}
<1>1. Endpoints = A \cup B \cup C \cup D \cup E \cup F \cup G \cup H
    BY DEF Endpoints
<1>2. \A e \in A : Honoured(e)
    BY PlainKept
<1>3. \A e \in B : Honoured(e)
    BY PlainKept
<1>4. \A e \in C : Honoured(e)
    <2> DEFINE S == {<<>>, <<"values">>}
               Of(p, s) == Entry("GET", <<p>> \o s, <<"plugin", p>>)
    <2>1. \A p \in Plugins, s \in S : Honoured(Of(p, s))
        BY NamesKept
    <2>2. C = {Of(p, s) : p \in Plugins, s \in S}
        OBVIOUS
    <2> HIDE DEF S, Of, C
    <2> QED
        BY <2>1, <2>2
<1>5. \A e \in D : Honoured(e)
    BY NamesKept
<1>6. \A e \in E : Honoured(e)
    <2> DEFINE S == {<<>>} \cup {<<n>> : n \in Numbers}
               Of(p, s) == Entry("GET", <<p, "history">> \o s, <<"history", p>>)
    <2>1. \A p \in Plugins, s \in S : Honoured(Of(p, s))
        BY NamesKept
    <2>2. E = {Of(p, s) : p \in Plugins, s \in S}
        OBVIOUS
    <2> HIDE DEF S, Of, E
    <2> QED
        BY <2>1, <2>2
<1>7. \A e \in F : Honoured(e)
    BY NamesKept
<1>8. \A e \in G : Honoured(e)
    BY NamesKept
<1>9. \A e \in H : Honoured(e)
    BY PlainKept
<1> HIDE DEF A, B, C, D, E, F, G, H
<1> QED
    BY <1>1, <1>2, <1>3, <1>4, <1>5, <1>6, <1>7, <1>8, <1>9

\* The inductive invariant of the router.
RouteInv ==
    requested # Unasked =>
        requested \in Asks /\ answer = RouteOf(requested.method, requested.path, requested.body)

\* The answer is that of the arms in their order (route).
THEOREM RouteInvariant == RoutesSpec => []RouteInv
<1>1. RoutesInit => RouteInv
    BY DEF RoutesInit, RouteInv
<1>2. RouteInv /\ [RoutesNext]_routeVars => RouteInv'
    BY DEF RouteInv, RoutesNext, Ask, Close, routeVars
<1> QED
    BY <1>1, <1>2, PTL DEF RoutesSpec

\* Every path of the API's own list reaches what it is listed for, and what is of one
\* plugin is answered only where that plugin is named (route, in web/router).
THEOREM RoutesAsListedAlways == RoutesSpec => []RoutesAsListed
<1>1. ASSUME RouteInv, requested # Unasked
      PROVE  /\ \A e \in Endpoints : e.method = requested.method /\ e.path = requested.path => answer = e.reply
             /\ answer[1] \in {"plugin", "description"} => requested.path \in OfName(answer[2])
    <2>1. requested \in Asks /\ answer = RouteOf(requested.method, requested.path, requested.body)
        BY <1>1 DEF RouteInv
    <2>2. requested.path \in Seq(STRING)
        BY <2>1, RoutesAssumption
    <2>3. NamesPath(answer, requested.path)
        BY <2>1, <2>2, AnswersName
    <2> QED
        BY <2>1, <2>3, ListKept DEF Honoured, NamesPath
<1>2. RouteInv => RoutesAsListed
    BY <1>1 DEF RoutesAsListed
<1> QED
    BY <1>2, RouteInvariant, PTL

-----------------------------------------------------------------------------
(* The parts together.                                                     *)

\* The parts share no state: of any behaviour of them together, what each sees is a
\* behaviour of that part alone.
THEOREM PartsKept ==
    ServicesSpec => AccessSpec /\ RunnerSpec /\ LineSpec /\ SnmpSpec /\ Spec /\ RoutesSpec
<1>1. ServicesInit => AccessInit /\ RunnerInit /\ LineInit /\ SnmpInit /\ Init /\ RoutesInit
    BY DEF ServicesInit
<1>2. [ServicesNext]_servicesVars =>
          /\ [AccessNext]_accessVars /\ [RunnerNext]_runnerVars /\ [LineNext]_lineVars
          /\ [SnmpNext]_snmpVars /\ [Next]_vars /\ [RoutesNext]_routeVars
    BY DEF ServicesNext, servicesVars
<1> QED
    BY <1>1, <1>2, PTL DEF ServicesSpec, AccessSpec, RunnerSpec, LineSpec, SnmpSpec, Spec, RoutesSpec

\* Each part's state keeps its type whichever of them runs (the whole of each part's handlers).
THEOREM ServicesTypesHold == ServicesSpec => []ServicesTypeOK
<1>1. AccessTypeOK /\ RunnerTypeOK /\ LineTypeOK /\ SnmpTypeOK /\ TypeOK
      /\ RouteInv /\ part \in Parts => ServicesTypeOK
    BY DEF ServicesTypeOK, Parts, RouteInv
<1>2. ServicesSpec => [](part \in Parts)
    <2>1. ServicesInit => part \in Parts
        BY DEF ServicesInit
    <2>2. part \in Parts /\ [ServicesNext]_servicesVars => (part \in Parts)'
        BY DEF ServicesNext, servicesVars
    <2> QED
        BY <2>1, <2>2, PTL DEF ServicesSpec
<1> QED
    BY <1>1, <1>2, PartsKept, AccessTypeCorrect, RunnerTypesHold, LineTypesHold, SnmpTypesHold,
       ConnTypeCorrect, RouteInvariant, PTL

\* And so does each keep what it promises: the slots of serve and the whole requests of
\* read_request, the sign-in of credentials_ok and what PasswordFile has on file, the
\* commands of GlancesActions, the arguments of parse_args, the answers and the walks of
\* SnmpClient, and the arms of route.
THEOREM ServicesKeepTheirWord ==
    ServicesSpec => [](/\ CapHolds /\ WholeRequest /\ GateExact /\ OnlyDefinedLogins /\ SavedSurvives
                       /\ NothingHalfDone /\ QuietNeverStalls /\ ArgsAsMeant /\ TickIsFresh /\ WalkIsTable /\ RoutesAsListed)
BY PartsKept, AtMostMaxConns, WholeRequests, ServedExactly, NothingUndefined, SavesSurvive,
   NothingIsHalfDone, QuietNeverStallsAlways, ArgsAsMeantAlways, TickIsFreshAlways, WalkIsTableAlways, RoutesAsListedAlways, PTL
=============================================================================
