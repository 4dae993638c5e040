---------------------------- MODULE MCConnServer ----------------------------
(* ConnServer on small instances. *)
EXTENDS ConnServer

\* With MaxHeader 2, MaxBody 3 and Word 8: a POST with a body in bounds, a
\* header beyond its own cap with a body that makes up for it, a length beyond
\* the body's cap whose sum with the header wraps, and a header that does not parse,
\* which for the Reader is one that never ends.
Clients ==
    {[head |-> 2, length |-> 3, parses |-> TRUE],
     [head |-> 3, length |-> 1, parses |-> TRUE],
     [head |-> 2, length |-> 7, parses |-> TRUE],
     [head |-> 1, length |-> 0, parses |-> FALSE]}
=============================================================================
