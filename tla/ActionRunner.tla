---------------------------- MODULE ActionRunner ----------------------------
(***************************************************************************)
(* The runner of alert commands (core/actions/run.rs), called by the tick  *)
(* under the write lock of the hub: which triggers run their commands, and *)
(* the pipelines of processes a command becomes.  A process is what it     *)
(* will write and whether it reads; a pipe is how many units are in it.    *)
(*                                                                         *)
(* A command is a sequence of segments (split at "&&"), a segment a        *)
(* sequence of stages (split at "|") with a redirection.  Tokenizing and   *)
(* rendering are what they find: "fine", "bad" (an unclosed quote or tag,  *)
(* a section tag) or "empty".                                              *)
(***************************************************************************)
EXTENDS Naturals, Sequences, SequencesExt, FiniteSets

CONSTANTS
    Stats,    \* names alert words are kept under
    Levels,   \* words that trigger: CAREFUL, WARNING, CRITICAL
    Calls,    \* calls of run() the limits allow
    PipeCap,  \* units a pipe holds (64 KiB)
    MaxCalls, \* bound on calls
    Never     \* no level

Stage == [text : {"fine", "bad", "empty"}, found : BOOLEAN, reads : BOOLEAN, out : Nat, err : Nat]
Redirects == {"none", "file", "malformed", "unwritable"}
Segment == [stages : Seq(Stage), to : Redirects]

ASSUME ActionRunnerAssumption ==
    /\ \A c \in Calls :
        /\ c.stat \in Stats /\ c.level \in Levels
        /\ c.repeat \in BOOLEAN
        /\ c.commands \in Seq(Seq(Segment))
        /\ \A command \in ToSet(c.commands) :
            command # <<>> /\ \A seg \in ToSet(command) : seg.stages # <<>>
    /\ PipeCap \in Nat \ {0}
    /\ MaxCalls \in Nat
    /\ Never \notin Levels

VARIABLES
    grace,     \* whether the start-up grace still holds
    operators, \* allow_operators
    status,    \* GlancesActions::status
    call,      \* the call of run() in progress, or Never
    todo,      \* its commands still to run
    rest,      \* segments of the command at hand still to run
    at,        \* where execution is: command, segment, spawn, drain, reap, write
    kids,      \* the processes of the pipeline, in order
    got,       \* what wait_with_output read: units of stdout and of stderr
    strays,    \* processes dropped without wait()
    calls,     \* number of calls that ran
    trouble,   \* history: whether a spawn failed
    written    \* history: the last redirection written: what and of which segment

runnerVars == <<grace, operators, status, call, todo, rest, at, kids, got, strays, calls,
                trouble, written>>
memory == <<grace, operators, status, calls>>
plan == <<call, todo, rest>>
outcome == <<strays, trouble, written>>

Nothing == [out |-> 0, err |-> 0]

RunnerInit ==
    /\ grace = TRUE
    /\ operators = TRUE
    /\ status = [s \in Stats |-> Never]
    /\ call = Never
    /\ todo = <<>>
    /\ rest = <<>>
    /\ at = "command"
    /\ kids = <<>>
    /\ got = Nothing
    /\ strays = 0
    /\ calls = 0
    /\ trouble = FALSE
    /\ written = Never

-----------------------------------------------------------------------------
(* The trigger.                                                            *)

\* --disable-config-exec, before the first tick.
DisableOperators ==
    /\ calls = 0 /\ call = Never /\ operators
    /\ operators' = FALSE
    /\ UNCHANGED <<grace, status, plan, at, kids, got, calls, outcome>>

\* Twice the refresh time has passed since the start.
GraceEnds ==
    /\ grace
    /\ grace' = FALSE
    /\ UNCHANGED <<operators, status, plan, at, kids, got, calls, outcome>>

\* run(): the same word again without the repeat flag, and the grace.
Gated(c) == grace \/ (status[c.stat] = c.level /\ ~c.repeat)

Trigger(c) ==
    /\ call = Never
    /\ calls < MaxCalls
    /\ ~Gated(c)
    /\ call' = c
    /\ todo' = c.commands
    /\ UNCHANGED <<memory, rest, at, kids, got, outcome>>

\* In single-process mode operators are literal arguments of the first word.
OneProcess(segments) ==
    LET all == FlattenSeq([i \in DOMAIN segments |-> segments[i].stages])
        bad == \E i \in DOMAIN all : all[i].text = "bad"
    IN << [stages |-> << [Head(all) EXCEPT !.text = IF bad THEN "bad" ELSE @] >>, to |-> "none"] >>

NextCommand ==
    /\ call # Never
    /\ at = "command"
    /\ todo # <<>>
    /\ rest' = IF operators THEN Head(todo) ELSE OneProcess(Head(todo))
    /\ todo' = Tail(todo)
    /\ at' = "segment"
    /\ UNCHANGED <<memory, call, kids, got, outcome>>

\* All commands ran or failed: the level is recorded and true returned.
Record ==
    /\ call # Never
    /\ at = "command"
    /\ todo = <<>>
    /\ status' = [status EXCEPT ![call.stat] = call.level]
    /\ calls' = calls + 1
    /\ call' = Never
    /\ UNCHANGED <<grace, operators, todo, rest, at, kids, got, outcome>>

-----------------------------------------------------------------------------
(* One segment: run_pipeline, and run_argv as the case of one stage.       *)

segment == Head(rest)
Stages == Head(rest).stages

Refused(seg) ==
    \/ seg.to = "malformed"
    \/ \E i \in DOMAIN seg.stages : seg.stages[i].text # "fine"

\* An error: the rest of this command is given up, the next one runs.
Abandon ==
    /\ rest' = <<>>
    /\ at' = "command"
    /\ kids' = <<>>
    /\ got' = Nothing
    /\ strays' = strays + Len(kids)

\* The redirection and every stage are tokenized before anything spawns.
Tokenize ==
    /\ at = "segment"
    /\ rest # <<>>
    /\ \/ Refused(segment) /\ Abandon
       \/ ~Refused(segment) /\ at' = "spawn" /\ UNCHANGED <<rest, kids, got, strays>>
    /\ UNCHANGED <<memory, call, todo, trouble, written>>

SegmentsDone ==
    /\ at = "segment"
    /\ rest = <<>>
    /\ at' = "command"
    /\ UNCHANGED <<memory, plan, kids, got, outcome>>

\* The next process, its stdin the stdout of the one before.  Stdout and stderr
\* are pipes to the parent until the next process takes the former.
SpawnStage ==
    /\ at = "spawn"
    /\ Len(kids) < Len(Stages)
    /\ LET s == Stages[Len(kids) + 1]
       IN \/ /\ s.found /\ s.text = "fine"
             /\ kids' = Append(kids, [runs |-> TRUE, left |-> [out |-> s.out, err |-> s.err], pipe |-> Nothing])
             /\ UNCHANGED <<rest, at, got, strays, trouble>>
          \/ /\ ~(s.found /\ s.text = "fine")
             /\ Abandon
             /\ trouble' = (trouble \/ s.text = "fine")
    /\ UNCHANGED <<memory, call, todo, written>>

SpawnedAll ==
    /\ at = "spawn"
    /\ Len(kids) = Len(Stages)
    /\ at' = "drain"
    /\ UNCHANGED <<memory, plan, kids, got, outcome>>

Final == Len(kids)

\* Fault form: stderr is read only once the process has ended.
PolledInTurn(stream) == kids[Final].pipe[stream] > 0 /\ (stream = "out" \/ ~kids[Final].runs)

\* wait_with_output polls both pipes.
Polled(stream) == kids[Final].pipe[stream] > 0

\* wait_with_output reads both pipes of the last process until both end.
Drain(stream) ==
    /\ at = "drain"
    /\ Polled(stream)
    /\ kids' = [kids EXCEPT ![Final].pipe[stream] = @ - 1]
    /\ got' = [got EXCEPT ![stream] = @ + 1]
    /\ UNCHANGED <<memory, plan, at, outcome>>

\* Fault form: the end of the process is taken for the end of its output.
EndSeen(k) == ~k.runs

\* End of file on both pipes.
AtEnd(k) == ~k.runs /\ k.pipe = Nothing

FinalEnds ==
    /\ at = "drain"
    /\ AtEnd(kids[Final])
    /\ at' = "reap"
    /\ UNCHANGED <<memory, plan, kids, got, outcome>>

\* The others are waited for in order.  Nobody reads their stderr.
ReapAll ==
    /\ at = "reap"
    /\ \A i \in DOMAIN kids : ~kids[i].runs
    /\ kids' = <<>>
    /\ at' = "write"
    /\ UNCHANGED <<memory, plan, got, outcome>>

\* Stderr wins over stdout.
Output == IF got.err > 0 THEN got.err ELSE got.out

WriteOutput ==
    /\ at = "write"
    /\ got' = Nothing
    /\ written' = IF segment.to = "file" THEN [units |-> Output, of |-> Stages[Len(Stages)]] ELSE written
    /\ IF segment.to = "unwritable" THEN Abandon
       ELSE /\ rest' = Tail(rest)
            /\ at' = "segment"
            /\ UNCHANGED <<kids, strays>>
    /\ UNCHANGED <<memory, call, todo, trouble>>

-----------------------------------------------------------------------------
(* The processes.                                                          *)

KidStep(i, k) ==
    /\ kids' = k
    /\ kids[i].runs
    /\ UNCHANGED <<memory, plan, at, got, outcome>>

ReaderGone(i) == i < Final /\ ~kids[i + 1].runs

\* A write into a full pipe waits; one into a pipe whose reader is gone kills.
RoomFor(i, stream) ==
    /\ kids[i].left[stream] > 0
    /\ kids[i].pipe[stream] < PipeCap
    /\ ~(stream = "out" /\ ReaderGone(i))

Put(i, stream) ==
    /\ RoomFor(i, stream)
    /\ KidStep(i, [kids EXCEPT ![i].left[stream] = @ - 1, ![i].pipe[stream] = @ + 1])

Severed(i) == kids[i].left.out > 0 /\ ReaderGone(i)

BrokenPipe(i) ==
    /\ Severed(i)
    /\ KidStep(i, [kids EXCEPT ![i].runs = FALSE, ![i].left = Nothing])

HasInput(i) == i > 1 /\ Stages[i].reads /\ kids[i - 1].pipe.out > 0

Take(i) ==
    /\ HasInput(i)
    /\ KidStep(i, [kids EXCEPT ![i - 1].pipe.out = @ - 1])

\* A process that reads ends at the end of its input; that of the first one is
\* the server's own, taken to be at its end.
InputEnds(i) == Stages[i].reads /\ i > 1 => ~kids[i - 1].runs /\ kids[i - 1].pipe.out = 0

Finished(i) == kids[i].left = Nothing /\ InputEnds(i)

Exit(i) ==
    /\ Finished(i)
    /\ KidStep(i, [kids EXCEPT ![i].runs = FALSE])

KidMoves(i) ==
    \/ \E stream \in {"out", "err"} : Put(i, stream)
    \/ BrokenPipe(i) \/ Take(i) \/ Exit(i)

ParentMoves ==
    \/ NextCommand \/ Record \/ Tokenize \/ SegmentsDone \/ SpawnStage \/ SpawnedAll
    \/ \E stream \in {"out", "err"} : Drain(stream)
    \/ FinalEnds \/ ReapAll \/ WriteOutput

RunnerNext ==
    \/ DisableOperators \/ GraceEnds
    \/ \E c \in Calls : Trigger(c)
    \/ ParentMoves
    \/ \E i \in DOMAIN kids : KidMoves(i)

RunnerSpec == RunnerInit /\ [][RunnerNext]_runnerVars

\* The scheduler runs the process and its children.
RunnerFair ==
    /\ RunnerSpec
    /\ WF_runnerVars(ParentMoves)
    /\ WF_runnerVars(\E i \in DOMAIN kids : KidMoves(i))

-----------------------------------------------------------------------------
(* Properties.                                                             *)

RunnerTypeOK ==
    /\ grace \in BOOLEAN /\ operators \in BOOLEAN
    /\ status \in [Stats -> Levels \cup {Never}]
    /\ call \in Calls \cup {Never}
    /\ todo \in Seq(Seq(Segment))
    /\ rest \in Seq(Segment)
    /\ at \in {"command", "segment", "spawn", "drain", "reap", "write"}
    /\ kids \in Seq([runs : BOOLEAN, left : [out : Nat, err : Nat], pipe : [out : 0..PipeCap, err : 0..PipeCap]])
    /\ got \in [out : Nat, err : Nat]
    /\ strays \in Nat /\ calls \in 0..MaxCalls
    /\ trouble \in BOOLEAN
    /\ at \in {"spawn", "drain", "reap", "write"} => rest # <<>> /\ Len(kids) <= Len(Stages)

\* No process is left behind unless one could not be spawned: a template error
\* in any stage is found before the first stage starts, and every other process
\* is waited for (run.rs:159, "so a template error never leaves a half-started
\* pipeline behind").
NoHalfStart == strays > 0 => trouble

\* What a redirection writes is all its last stage ever wrote, to stderr if it
\* wrote there: nothing in a pipe is lost when the process ends.
WholeOutput ==
    written # Never =>
        written.units = IF written.of.err > 0 THEN written.of.err ELSE written.of.out

\* A command leaves neither processes it started nor output it read behind.
NothingHalfDone == NoHalfStart /\ WholeOutput

\* Whether every stage but the last keeps within a pipe on stderr.
Quiet(seg) == \A i \in 1..Len(seg.stages) - 1 : seg.stages[i].err <= PipeCap

\* What the parent waits for is yet to come.
ParentWaits ==
    \/ at = "drain" /\ ~AtEnd(kids[Final]) /\ \A stream \in {"out", "err"} : ~Polled(stream)
    \/ at = "reap" /\ \E i \in DOMAIN kids : kids[i].runs

\* A process can write, is killed by its write, can read or can end.
CanMove(i) ==
    /\ kids[i].runs
    /\ \/ \E stream \in {"out", "err"} : RoomFor(i, stream)
       \/ Severed(i) \/ HasInput(i) \/ Finished(i)

\* The tick, which runs all this under the write lock, never stalls on a quiet
\* pipeline, whatever its processes write, read or leave unread: while it waits,
\* one of them can move.
QuietNeverStalls ==
    call # Never /\ (rest # <<>> => Quiet(segment)) /\ ParentWaits => \E i \in DOMAIN kids : CanMove(i)

\* "Each command executes with failures logged, never raised; the trigger level
\* is recorded and true returned" (docs/spec/p1b2-services.md:22).  Fails: a
\* stage before the last that writes more than a pipe to stderr.
CommandsEnd == call # Never ~> call = Never
=============================================================================
