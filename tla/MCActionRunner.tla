--------------------------- MODULE MCActionRunner ---------------------------
(* ActionRunner on a few commands that differ in how they can go wrong. *)
EXTENDS ActionRunner

Program(reads, out, err) == [text |-> "fine", found |-> TRUE, reads |-> reads, out |-> out, err |-> err]
Talks == Program(FALSE, 2, 1)
Filters == Program(TRUE, 1, 2)
Ignores == Program(FALSE, 1, 0)
Missing == [Talks EXCEPT !.found = FALSE]
Unclosed == [Talks EXCEPT !.text = "bad"]
Blank == [Talks EXCEPT !.text = "empty"]

Pipe(stages, to) == [stages |-> stages, to |-> to]

\* Commands of one or two segments.
SomeCommands == {
    << Pipe(<<Talks, Filters>>, "file"), Pipe(<<Ignores>>, "file") >>,
    << Pipe(<<Talks, Ignores>>, "unwritable"), Pipe(<<Ignores>>, "none") >>,
    << Pipe(<<Talks, Talks, Filters>>, "file") >>,
    << Pipe(<<Talks, Missing>>, "none") >>,
    << Pipe(<<Ignores, Unclosed>>, "file") >>,
    << Pipe(<<Ignores>>, "none"), Pipe(<<Blank>>, "none") >>,
    << Pipe(<<Ignores>>, "malformed") >> }

SomeCalls ==
    {[stat |-> "load", level |-> "WARNING", repeat |-> FALSE, commands |-> <<c, d>>] :
        c \in SomeCommands, d \in { << Pipe(<<Filters>>, "file") >> }}
    \cup {[stat |-> "load", level |-> "CRITICAL", repeat |-> TRUE, commands |-> <<c>>] : c \in SomeCommands}

\* One stage that writes more to stderr than a pipe holds, and one that reads it.
LoudCalls ==
    {[stat |-> "load", level |-> "WARNING", repeat |-> FALSE,
      commands |-> << << Pipe(<<Program(FALSE, e, e), Filters>>, "none") >> >>] : e \in 0..2}
=============================================================================
