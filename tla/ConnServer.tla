----------------------------- MODULE ConnServer -----------------------------
(***************************************************************************)
(* The accept loop and the life of a connection (outputs/web/server.rs,    *)
(* Reader of outputs/web/request.rs): one thread per connection, at most   *)
(* MaxConns of them, each counted by an atomic the accept loop raises      *)
(* before it spawns the thread and a drop guard lowers when it unwinds.    *)
(*                                                                         *)
(* Bytes are counted in units.  What a client means to send is a message:  *)
(* the size of its header block with the blank line, its Content-Length,   *)
(* and whether the header parses.  It may send it in any pieces, stop, or  *)
(* go on past its end.  What route() does is in StatsHub.                  *)
(***************************************************************************)
EXTENDS Naturals, FiniteSets

CONSTANTS
    Conns,        \* client sockets
    MaxConns,     \* MAX_CONNS
    MaxHeader,    \* MAX_HEADER_BYTES
    MaxBody,      \* MAX_BODY
    Chunk,        \* the read buffer
    Word,         \* 2^usize::BITS
    Messages,     \* what clients mean to send
    SpawnMayFail, \* whether the system can refuse a thread
    None          \* absence

MaxRequest == MaxHeader + MaxBody

ASSUME ConnAssumption ==
    /\ MaxConns \in Nat \ {0}
    /\ MaxHeader \in Nat \ {0}
    /\ MaxBody \in Nat
    /\ Chunk \in Nat \ {0}
    /\ Word \in Nat \ {0}
    /\ Messages \subseteq [head : Nat, length : 0..Word - 1, parses : BOOLEAN]
    /\ SpawnMayFail \in BOOLEAN
    /\ None \notin Conns

VARIABLES
    active,   \* the AtomicUsize
    acceptor, \* the accept loop: listening, admitting, counted, dead
    taken,    \* the socket it is admitting, or None
    conn,     \* where each socket is
    msg,      \* what its client means to send
    buf       \* bytes in its Reader

vars == <<active, acceptor, taken, conn, msg, buf>>

Init ==
    /\ active = 0
    /\ acceptor = "listening"
    /\ taken = None
    /\ conn = [c \in Conns |-> "none"]
    /\ msg \in [Conns -> Messages]
    /\ buf = [c \in Conns |-> 0]

-----------------------------------------------------------------------------
(* Reader::try_parse.                                                      *)

Overflows(m) == m.head + m.length >= Word

\* Fault form: the request is cut at `total` without parsing the cut again.
CompleteNotReparsed(m, b) ==
    /\ m.parses
    /\ b >= m.head
    /\ b >= (m.head + m.length) % Word
    /\ m.length <= MaxBody \/ Overflows(m)

\* The blank line is in the buffer, and so is the whole body; the request cut
\* at `total`, which wraps in a release build, is parsed once more, and its
\* body is within MAX_BODY.
Complete(m, b) ==
    LET total == (m.head + m.length) % Word
    IN /\ m.parses
       /\ b >= m.head
       /\ b >= total
       /\ total >= m.head
       /\ total - m.head <= MaxBody

-----------------------------------------------------------------------------
(* The kernel and the accept loop.                                         *)

\* A client connects: its socket waits in the listener's backlog.
Connect(c) ==
    /\ conn[c] = "none"
    /\ \E m \in Messages : msg' = [msg EXCEPT ![c] = m]
    /\ conn' = [conn EXCEPT ![c] = "queued"]
    /\ buf' = [buf EXCEPT ![c] = 0]
    /\ UNCHANGED <<active, acceptor, taken>>

\* Fault form: the count is tested with > instead of >=.
HasRoomOffByOne == active <= MaxConns

\* active.load() >= MAX_CONNS is the refusal.
HasRoom == active < MaxConns

\* accept() returns a socket there is room for.
Admit(c) ==
    /\ acceptor = "listening"
    /\ conn[c] = "queued"
    /\ HasRoom
    /\ acceptor' = "admitting"
    /\ taken' = c
    /\ conn' = [conn EXCEPT ![c] = "admitted"]
    /\ UNCHANGED <<active, msg, buf>>

\* accept() returns a socket there is no room for: dropped at once.
Refuse(c) ==
    /\ acceptor = "listening"
    /\ conn[c] = "queued"
    /\ ~HasRoom
    /\ conn' = [conn EXCEPT ![c] = "none"]
    /\ UNCHANGED <<active, acceptor, taken, msg, buf>>

\* fetch_add, some time after the load.
CountIn ==
    /\ acceptor = "admitting"
    /\ active' = active + 1
    /\ acceptor' = "counted"
    /\ conn' = [conn EXCEPT ![taken] = "counted"]
    /\ UNCHANGED <<taken, msg, buf>>

\* The thread starts and makes its drop guard.
Spawn ==
    /\ acceptor = "counted"
    /\ acceptor' = "listening"
    /\ conn' = [conn EXCEPT ![taken] = "reading"]
    /\ taken' = None
    /\ UNCHANGED <<active, msg, buf>>

\* std::thread::spawn panics when there is no thread to be had.  serve() runs
\* on the main thread: the process ends, and nothing happens any more.
SpawnPanics ==
    /\ SpawnMayFail
    /\ acceptor = "counted"
    /\ acceptor' = "dead"
    /\ UNCHANGED <<active, taken, conn, msg, buf>>

-----------------------------------------------------------------------------
(* A connection thread: handle_conn.                                       *)

\* Fault form: past the cap the Reader starts over.
ReadStartsOver(c) ==
    /\ conn[c] = "reading"
    /\ \E n \in 1..Chunk :
           LET b == IF buf[c] + n > MaxRequest THEN 0 ELSE buf[c] + n
           IN /\ buf' = [buf EXCEPT ![c] = b]
              /\ conn' = [conn EXCEPT ![c] =
                             IF Complete(msg[c], b) THEN "routing" ELSE "reading"]
    /\ UNCHANGED <<active, acceptor, taken, msg>>

\* read() returns n bytes.  Past the cap the connection ends; else they are
\* fed to the Reader, and a complete request is marked served and routed.
Read(c) ==
    /\ conn[c] = "reading"
    /\ \E n \in 1..Chunk :
           IF buf[c] + n > MaxRequest
           THEN /\ conn' = [conn EXCEPT ![c] = "leaving"]
                /\ UNCHANGED buf
           ELSE /\ buf' = [buf EXCEPT ![c] = @ + n]
                /\ conn' = [conn EXCEPT ![c] =
                               IF Complete(msg[c], buf[c] + n)
                               THEN "routing" ELSE "reading"]
    /\ UNCHANGED <<active, acceptor, taken, msg>>

\* read() returns no data: the end of the stream, an error, or the 5 s
\* timeout.  In a build with overflow checks, a Content-Length whose sum with
\* the header size overflows ends the thread in try_parse.
StopReading(c) ==
    /\ conn[c] = "reading"
    /\ conn' = [conn EXCEPT ![c] = "leaving"]
    /\ UNCHANGED <<active, acceptor, taken, msg, buf>>

\* route() has made a response.
Route(c) ==
    /\ conn[c] = "routing"
    /\ conn' = [conn EXCEPT ![c] = "writing"]
    /\ UNCHANGED <<active, acceptor, taken, msg, buf>>

\* route() panics and the thread unwinds.
RoutePanics(c) ==
    /\ conn[c] = "routing"
    /\ conn' = [conn EXCEPT ![c] = "leaving"]
    /\ UNCHANGED <<active, acceptor, taken, msg, buf>>

\* The response is written, or the write fails or times out.
Write(c) ==
    /\ conn[c] = "writing"
    /\ conn' = [conn EXCEPT ![c] = "leaving"]
    /\ UNCHANGED <<active, acceptor, taken, msg, buf>>

\* Fault form: the count is lowered on the way out of handle_conn only.
LeaveOnlyServed(c) ==
    /\ conn[c] = "leaving"
    /\ active' = IF Complete(msg[c], buf[c]) THEN active - 1 ELSE active
    /\ conn' = [conn EXCEPT ![c] = "none"]
    /\ UNCHANGED <<acceptor, taken, msg, buf>>

\* handle_conn has closed the socket; only now does the guard lower the count.
Leave(c) ==
    /\ conn[c] = "leaving"
    /\ active' = active - 1
    /\ conn' = [conn EXCEPT ![c] = "none"]
    /\ UNCHANGED <<acceptor, taken, msg, buf>>

-----------------------------------------------------------------------------

AcceptStep == CountIn \/ Spawn \/ SpawnPanics \/ \E c \in Conns : Admit(c) \/ Refuse(c)

ThreadStep(c) ==
    \/ Read(c) \/ StopReading(c)
    \/ Route(c) \/ RoutePanics(c) \/ Write(c)
    \/ Leave(c)

\* A process that has ended takes no more steps.
Next ==
    /\ acceptor # "dead"
    /\ AcceptStep \/ \E c \in Conns : Connect(c) \/ ThreadStep(c)

Spec == Init /\ [][Next]_vars

\* The accept loop and every thread run; a read ends within its timeout and a
\* write within its own; route() returns (StatsHub says when it does).  No
\* fairness is asked of the clients.
Fairness ==
    /\ WF_vars(AcceptStep)
    /\ \A c \in Conns : WF_vars(ThreadStep(c))

FairSpec == Spec /\ Fairness

-----------------------------------------------------------------------------
(* Properties.                                                             *)

ConnStates ==
    {"none", "queued", "admitted", "counted", "reading", "routing", "writing",
     "leaving"}

\* Every variable has the values the code can give it; in particular a Reader
\* never buffers more than a header block and a body.
TypeOK ==
    /\ active \in Nat
    /\ acceptor \in {"listening", "admitting", "counted", "dead"}
    /\ taken \in Conns \cup {None}
    /\ conn \in [Conns -> ConnStates]
    /\ msg \in [Conns -> Messages]
    /\ buf \in [Conns -> 0..MaxRequest]

\* The sockets the count stands for.
Held == {c \in Conns : conn[c] \in
            {"counted", "reading", "routing", "writing", "leaving"}}

\* The count is exact at every moment, however a thread ends (end of stream,
\* timeout, cap, panic, write error): no slot is lost or given back twice,
\* and `active - 1` never goes below zero.
CountExact == IsFiniteSet(Held) /\ active = Cardinality(Held)

\* No interleaving of the accept loop's load and fetch_add with the guards'
\* fetch_sub ever makes more than MAX_CONNS threads.
CapHolds == Cardinality(Held) <= MaxConns

\* A socket is dropped unserved only while MAX_CONNS slots are really held.
RefusedOnlyWhenFull ==
    [][\A c \in Conns :
           conn[c] = "queued" /\ conn'[c] = "none" => Cardinality(Held) = MaxConns]_vars

\* What is routed is a whole request: header block and the declared body are
\* in the buffer, whatever the pieces they came in and however large the
\* declared length.
WholeRequest ==
    \A c \in Conns : conn[c] = "routing" =>
        /\ buf[c] >= msg[c].head + msg[c].length
        /\ msg[c].length <= MaxBody

\* An admitted connection ends, however slowly or endlessly its client sends:
\* reads time out, and the cap bounds how many there can be.
ConnectionEnds == \A c \in Conns : conn[c] = "reading" ~> conn[c] = "none"

\* A server at its limit takes clients again: every slot comes back, whatever
\* the clients that hold them do or do not send.
SlotsComeBack == active = MaxConns ~> active < MaxConns
=============================================================================
