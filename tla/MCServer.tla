------------------------------ MODULE MCServer ------------------------------
(* Server with two connections, and as many slots.                             *)
EXTENDS Server

\* Without the dashboard, whose handler can block the tick for ever (see the run
\* hub_dashboard).
NoDashboard == RequestKinds \ {"dashboard"}

\* With MaxHeader 1, MaxBody 0 and Chunk 1: a request and a header without end.
TwoClients ==
    {[head |-> 1, length |-> 0, parses |-> TRUE],
     [head |-> 3, length |-> 0, parses |-> TRUE]}
=============================================================================
