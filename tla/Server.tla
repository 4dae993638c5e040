------------------------------- MODULE Server -------------------------------
(***************************************************************************)
(* The web server as a whole: the connections of ConnServer, the requests  *)
(* their threads route over the shared GlancesStats of StatsHub, and the   *)
(* refresh thread.  handle_conn (outputs/web/server.rs) reads a request,   *)
(* routes it and writes the answer on one thread, so a connection is in    *)
(* "routing" exactly while its thread runs a handler of StatsHub; what     *)
(* ConnServer takes for granted there, that route() returns, is here what  *)
(* the locks and the ticks have to allow.                                  *)
(***************************************************************************)
EXTENDS StatsHub, FiniteSets

CONSTANTS
    MaxConns, MaxHeader, MaxBody, Chunk, Word, Messages, SpawnMayFail

VARIABLES
    active, acceptor, taken, conn, msg, buf

\* Connections are the threads of the hub.
C == INSTANCE ConnServer WITH Conns <- Handlers

connVars == <<active, acceptor, taken, conn, msg, buf>>
serverVars == <<connVars, vars>>

ServerInit == Init /\ C!Init

\* handle_conn calls route(): the handler starts.
StartRoute(c) ==
    /\ conn[c] = "routing"
    /\ Receive(c)
    /\ UNCHANGED connVars

\* A step of the handler that is not its last.
Handle(c) ==
    /\ pc[c] # "reply"
    /\ HandlerStep(c)
    /\ UNCHANGED connVars

\* route() returns the response to handle_conn, with nothing held.
EndRoute(c) == Reply(c) /\ C!Route(c)

\* Fault form: a guard outlives the thread that unwinds.
UnwindKeepsGuards(c) ==
    /\ C!RoutePanics(c)
    /\ pc[c] \notin {"idle", "extended", "events"}
    /\ pc' = [pc EXCEPT ![c] = "idle"]
    /\ pid' = [pid EXCEPT ![c] = None]
    /\ view' = [view EXCEPT ![c] = None]
    /\ health' = [health EXCEPT ![c] = None]
    /\ req' = [req EXCEPT ![c] = "ping"]
    /\ UNCHANGED <<guards, owner, extended>>
    /\ UNCHANGED refreshVars

\* A handler panics where it computes: its read guards are dropped as the thread
\* unwinds.  Under a mutex there is nothing that could panic.
Unwind(c) ==
    /\ C!RoutePanics(c)
    /\ pc[c] \notin {"idle", "extended", "events"}
    /\ guards' = [guards EXCEPT ![c] = 0]
    /\ pc' = [pc EXCEPT ![c] = "idle"]
    /\ pid' = [pid EXCEPT ![c] = None]
    /\ view' = [view EXCEPT ![c] = None]
    /\ health' = [health EXCEPT ![c] = None]
    /\ req' = [req EXCEPT ![c] = "ping"]
    /\ UNCHANGED <<owner, extended>>
    /\ UNCHANGED refreshVars

\* A connection's thread from its first read to the drop of its guard.
Serve(c) ==
    \/ (C!Read(c) \/ C!StopReading(c) \/ C!Write(c) \/ C!Leave(c)) /\ UNCHANGED vars
    \/ StartRoute(c) \/ Handle(c) \/ EndRoute(c) \/ Unwind(c)

Tick == RefreshStep /\ UNCHANGED connVars
Accept == C!AcceptStep /\ UNCHANGED vars

\* A process that has ended takes no more steps.
ServerNext ==
    /\ acceptor # "dead"
    /\ \/ Tick \/ Accept
       \/ \E c \in Handlers : Serve(c) \/ (C!Connect(c) /\ UNCHANGED vars)

ServerSpec == ServerInit /\ [][ServerNext]_serverVars

\* As in StatsHub and ConnServer, without the assumption that route() returns.
\* A panic is nothing to count on, so it does not stand for progress.
Progress(c) ==
    \/ (C!Read(c) \/ C!StopReading(c) \/ C!Write(c) \/ C!Leave(c)) /\ UNCHANGED vars
    \/ StartRoute(c) \/ Handle(c) \/ EndRoute(c)

LockTaken(c) == (AcquireRead(c) \/ LockExtended(c) \/ LockEventLog(c)) /\ UNCHANGED connVars

ServerFairness ==
    /\ WF_serverVars(Tick)
    /\ SF_serverVars(LockEvents /\ UNCHANGED connVars)
    /\ WF_serverVars(Accept)
    /\ \A c \in Handlers : WF_serverVars(Progress(c)) /\ SF_serverVars(LockTaken(c))

ServerFairSpec == ServerSpec /\ ServerFairness

-----------------------------------------------------------------------------
(* Properties.                                                             *)

\* A thread that talks to its client holds no lock of the hub: however slow a
\* client reads or writes, and however its thread ended, no tick and no other
\* request waits for it (handle_conn reads before route() and writes after it).
NoLockWhileTalking ==
    \A c \in Handlers :
        conn[c] # "routing" => guards[c] = 0 /\ \A m \in Mutexes : owner[m] # c

\* The server does what ConnServer says of it, its fairness included: route()
\* returns to every connection because the hub's locks are let go, so what
\* ConnServer concludes about slots and connections holds of the whole server.
RouteReturns == C!FairSpec

\* An admitted connection ends, though its thread has to get at locks that ticks
\* and other connections' threads hold.
AdmittedEnds == C!ConnectionEnds

\* A server that is full takes clients again.
FullServerRecovers == C!SlotsComeBack
=============================================================================
