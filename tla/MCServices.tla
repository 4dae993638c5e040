----------------------------- MODULE MCServices -----------------------------
(***************************************************************************)
(* The parts of the program that share no state with the statistics: the   *)
(* sign-in, the alert commands, the command line, the SNMP client, the     *)
(* connections and the router, each on a small instance.  They do not      *)
(* interact, so one run takes them one at a time: part says which.         *)
(***************************************************************************)
EXTENDS MCAccess, MCActionRunner, CommandLine, SnmpClient, MCConnServer, Routes

(* Command line: words of every shape. *)
AWord(dashes, name, letters, after, value) ==
    [dashes |-> dashes, name |-> name, letters |-> letters, rest |-> after, value |-> value]
TwoDashes(name, value) == AWord(2, name, <<>>, "", value)
OneDash(letters, after) == AWord(1, "", letters, after, Absent)

SomeWords ==
    {TwoDashes("", Absent), TwoDashes("", "3"), TwoDashes("--light", Absent), TwoDashes("--enable-irq", Absent), TwoDashes("--password", Absent),
     TwoDashes("--time", "0"), TwoDashes("--disable-plugin", "all"), TwoDashes("--enable-plugin", "fs"),
     TwoDashes("--disable-plugin", "irq"), TwoDashes("--stdout-csv", Absent), TwoDashes("--client", Absent),
     TwoDashes("--snmp-force", Absent),
     OneDash(<<"-w", "-t">>, ""), OneDash(<<"-w", "-t", "-5">>, "5"), OneDash(<<"-4", "-3">>, ""), OneDash(<<"-w", "-2">>, ""),
     OneDash(<<>>, ""), AWord(1, "-wt", <<"-w", "-t">>, "", "3"), AWord(0, "3", <<>>, "", Absent)}

(* Routes: every path of two segments under /api, and longer ones below those
   that an arm looks into. *)
SomeSegments == {"4", "12", "cpu", "fs", "all", "values", "description", "history", "limits", "views",
             "stats", "status", "health", "dashboard", "processes", "extended", "disable",
             "events", "stream", "clear", "warning", "token", "pluginslist", "serverslist"}
LastSegments == {"4", "12", "cpu", "all", "values", "description", "history", "limits", "views",
             "extended", "disable", "stream", "warning"}
SomePaths == UNION {{<<"api">> \o s : s \in [1..n -> SomeSegments]} : n \in 0..2}
         \cup {<<"api", a, b, c>> : a \in {"4", "12", "cpu", "all", "processes"}, b \in SomeSegments, c \in LastSegments}
         \cup {<<"api", "4", "processes", "extended", s>> : s \in SomeSegments}
         \cup {<<"api", "4", "events", "clear", s>> : s \in SomeSegments}
         \cup {<<"api", "4", "cpu", "history", s>> : s \in SomeSegments}
         \cup {<<>>, <<"index.html">>, <<"favicon.ico">>, <<"openapi.json">>, <<"healthz">>, <<"mcp">>}
SomeBodies == {<<>>, <<<<"id", "1">>, <<"method", "tools/list">>>>,
           <<<<"method", "tools/call">>, <<"name", "glances.snapshot">>, <<"id", "2">>>>,
           <<<<"method", "other">>>>}
MCAsks == {[method |-> m, path |-> p, body |-> <<>>] : m \in {"GET", "POST"}, p \in SomePaths}
          \cup {[method |-> "POST", path |-> <<"mcp">>, body |-> b] : b \in SomeBodies}
MCMcpPath == <<"mcp">>

----------------------------------------------------------------------------
VARIABLE part

servicesVars == <<part, accessVars, runnerVars, lineVars, snmpVars, vars, routeVars>>

Parts == {"access", "runner", "line", "snmp", "connections", "routes"}

ServicesInit ==
    /\ part \in Parts
    /\ AccessInit /\ RunnerInit /\ LineInit /\ SnmpInit /\ RoutesInit
    /\ Init
    /\ part # "connections" => \A c \in Conns : msg[c] = CHOOSE m \in Messages : TRUE

ServicesNext ==
    \/ /\ part = "access" /\ AccessNext
       /\ UNCHANGED <<part, runnerVars, lineVars, snmpVars, vars, routeVars>>
    \/ /\ part = "runner" /\ RunnerNext
       /\ UNCHANGED <<part, accessVars, lineVars, snmpVars, vars, routeVars>>
    \/ /\ part = "line" /\ LineNext
       /\ UNCHANGED <<part, accessVars, runnerVars, snmpVars, vars, routeVars>>
    \/ /\ part = "snmp" /\ SnmpNext
       /\ UNCHANGED <<part, accessVars, runnerVars, lineVars, vars, routeVars>>
    \/ /\ part = "connections" /\ Next
       /\ UNCHANGED <<part, accessVars, runnerVars, lineVars, snmpVars, routeVars>>
    \/ /\ part = "routes" /\ RoutesNext
       /\ UNCHANGED <<part, accessVars, runnerVars, lineVars, snmpVars, vars>>

ServicesSpec == ServicesInit /\ [][ServicesNext]_servicesVars

ServicesSymmetry == AccessSymmetry

----------------------------------------------------------------------------
\* Each part's state keeps its type; no Reader is above the cap on requests, no
\* flag is given a word it cannot use, no line of the login file is half a hash
\* but one cut short, no answer is of a probe that was not sent.
ServicesTypeOK ==
    CASE part = "access" -> AccessTypeOK
      [] part = "runner" -> RunnerTypeOK
      [] part = "line" -> LineTypeOK
      [] part = "snmp" -> SnmpTypeOK
      [] part = "connections" -> TypeOK
      [] part = "routes" -> requested \in Asks \cup {Unasked}
============================================================================
