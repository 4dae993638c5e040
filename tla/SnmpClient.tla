----------------------------- MODULE SnmpClient -----------------------------
(***************************************************************************)
(* The SNMP client mode (core/snmp, cli/snmp_mode.rs): a probe, then one   *)
(* tick after the other, each a GET of scalars (load, mem, cpu) and a walk *)
(* of a table (network, fs) over UDP.  Every request has a socket of its   *)
(* own, one datagram out and one in.  Datagrams are lost, late, doubled    *)
(* and out of order; a port is used again, and what was sent to its former *)
(* owner arrives.  The agent may be a bad one.                             *)
(*                                                                         *)
(* An object id is a number, a reading is the tick it was made in, and an  *)
(* answer is a sequence of ids; Marker is an exception value.  BER is      *)
(* left out: an answer that does not decode is an error answer.            *)
(***************************************************************************)
EXTENDS Naturals, Sequences, FiniteSets

CONSTANTS
    Ports,    \* ephemeral ports
    First,    \* the ids of the table walked are First..Top
    Top,
    Batch,    \* repetitions of a GETBULK (25)
    Limit,    \* of a walk (4096)
    MaxTicks, \* bound on ticks
    MaxAsks,  \* bound on requests
    Delay,    \* bound: how many requests later the agent may still answer
    NetCap,   \* bound: answers on their way
    Nobody    \* absence

ASSUME SnmpAssumption ==
    /\ First \in Nat \ {0, 1} /\ Top \in Nat /\ First <= Top
    /\ Batch \in Nat \ {0} /\ Limit \in Nat \ {0}
    /\ {MaxTicks, MaxAsks, Delay, NetCap} \subseteq Nat

Kinds == {"sysname", "sysdescr", "get", "walk"}
Agents == {"good", "circular"}
Marker == 0

\* What is sent: the request's id, the port it leaves, the exchange, the id asked from.
Datagrams == [id : 1..MaxAsks, port : Ports, kind : Kinds, from : Nat]

ASSUME NobodyAssumption == Nobody \notin Datagrams

\* The subtree's own id, which comes before its rows.
Subtree == First - 1

VARIABLES
    version,  \* 1 or 2: no GETBULK in the former
    agent,    \* how the agent answers
    stage,    \* construct, the exchange at hand, print, failed, stopped
    ask,      \* the request waiting for its answer, or Nobody
    nextId,   \* NEXT_ID
    asked,    \* requests that reached the agent
    net,      \* answers on their way: port, request, time of reading
    out,      \* rows of the walk so far
    moreOf,   \* the id the walk goes on from
    rounds,   \* history: requests of this walk
    ticks,    \* ticks begun
    shown,    \* the readings the scalars and the table were last set to
    missed,   \* history: which exchanges of this tick failed
    lastWalk  \* history: the rows of the last walk that ended well, and their agent

snmpVars == <<version, agent, stage, ask, nextId, asked, net, out, moreOf, rounds, ticks, shown,
              missed, lastWalk>>
transport == <<nextId, asked, net>>
walking == <<out, moreOf, rounds, lastWalk>>

SnmpInit ==
    /\ version = 2
    /\ agent = "good"
    /\ stage = "construct"
    /\ ask = Nobody
    /\ nextId = 1
    /\ asked = {}
    /\ net = {}
    /\ out = <<>>
    /\ moreOf = Subtree
    /\ rounds = 0
    /\ ticks = 0
    /\ shown = [scalars |-> 0, rows |-> 0]
    /\ missed = {}
    /\ lastWalk = <<>>

-----------------------------------------------------------------------------
(* The agent and the network.                                              *)

\* What follows an id: the table in order, one id beyond it, the end of the
\* view.  A circular agent begins again at the table's first id.
Successor(id) ==
    CASE id < Top -> id + 1
      [] id = Top -> IF agent = "circular" THEN First ELSE Top + 1
      [] OTHER -> Marker

\* GETNEXT gives one, GETBULK up to Batch ids.
Following(id) ==
    LET chain[i \in 1..Batch] == IF i = 1 THEN Successor(id) ELSE Successor(chain[i - 1])
    IN [i \in 1..(IF version = 1 THEN 1 ELSE Batch) |-> chain[i]]

\* A request arrives, now or later, once or twice, and is answered with what
\* the agent reads at that time, or with an error status.
AgentAnswers(r) ==
    /\ r \in asked
    /\ Cardinality(net) < NetCap
    /\ \E fine \in BOOLEAN :
        net' = net \cup {[to |-> r.port, id |-> r.id, kind |-> r.kind, read |-> ticks, fine |-> fine,
                          ids |-> IF r.kind = "walk" THEN Following(r.from) ELSE <<>>]}
    /\ UNCHANGED <<version, agent, stage, ask, nextId, asked, walking, ticks, shown, missed>>

\* A datagram is lost.
Lose(d) ==
    /\ net' = net \ {d}
    /\ d \in net
    /\ UNCHANGED <<version, agent, stage, ask, nextId, asked, walking, ticks, shown, missed>>

-----------------------------------------------------------------------------
(* The client.                                                             *)

\* SnmpClient::new: version 3 is refused.
Construct ==
    /\ stage = "construct"
    /\ agent' \in Agents
    /\ \/ version' \in {1, 2} /\ stage' = "sysname"
       \/ version' = version /\ stage' = "failed"
    /\ UNCHANGED <<ask, transport, walking, ticks, shown, missed>>

\* exchange and round_trip: a new socket, a new id, one datagram.
Send ==
    /\ stage \in Kinds
    /\ ask = Nobody
    /\ nextId <= MaxAsks
    /\ \E p \in Ports :
        LET r == [id |-> nextId, port |-> p, kind |-> stage, from |-> moreOf]
        IN ask' = r /\ asked' = {q \in asked : q.id + Delay >= nextId} \cup {r}
    /\ nextId' = nextId + 1
    /\ rounds' = IF stage = "walk" THEN rounds + 1 ELSE rounds
    /\ UNCHANGED <<version, agent, stage, net, out, moreOf, ticks, shown, missed, lastWalk>>

\* Fault form: the request id is not compared.
AnswersAny(d) == d.fine

\* parse_response: tag, request id, error status.
AnswersIt(d) == d.fine /\ d.id = ask.id

\* What an exchange that failed means to whoever made it: the probe needs
\* sysName and can do without sysDescr; a plugin leaves its stats as they were.
Failed ==
    /\ ask' = Nobody
    /\ stage' = CASE stage = "sysname" -> "failed"
                  [] stage = "sysdescr" -> "get"
                  [] stage = "get" -> "walk"
                  [] stage = "walk" -> "print"
    /\ ticks' = IF stage = "sysdescr" THEN ticks + 1 ELSE ticks
    /\ missed' = IF stage \in {"get", "walk"} THEN missed \cup {stage} ELSE missed
    /\ moreOf' = Subtree
    /\ out' = <<>>
    /\ rounds' = 0
    /\ UNCHANGED <<version, agent, shown, lastWalk>>

\* No datagram within the timeout.
TimesOut ==
    /\ ask # Nobody
    /\ Failed
    /\ UNCHANGED transport

\* Whatever datagram comes first is the answer, or the exchange fails.
ReceiveBad(d) ==
    /\ ask # Nobody
    /\ d \in net
    /\ d.to = ask.port
    /\ ~AnswersIt(d)
    /\ net' = net \ {d}
    /\ Failed
    /\ UNCHANGED <<nextId, asked>>

\* The probe and the GETs.
ReceiveScalars(d) ==
    /\ ask # Nobody
    /\ d \in net
    /\ d.to = ask.port
    /\ AnswersIt(d)
    /\ stage # "walk"
    /\ net' = net \ {d}
    /\ ask' = Nobody
    /\ stage' = CASE stage = "sysname" -> "sysdescr" [] stage = "sysdescr" -> "get" [] stage = "get" -> "walk"
    /\ ticks' = IF stage = "sysdescr" THEN ticks + 1 ELSE ticks
    /\ shown' = IF stage = "get" THEN [shown EXCEPT !.scalars = d.read] ELSE shown
    /\ UNCHANGED <<version, agent, nextId, asked, walking, missed>>

\* Fault form: only an exception ends the walk, an id outside the subtree does not.
InsideView(ids) ==
    LET stops == {i \in DOMAIN ids : ids[i] = Marker}
    IN IF stops = {} THEN Len(ids) ELSE (CHOOSE i \in stops : \A j \in stops : i <= j) - 1

\* How many ids of a batch the walk takes: up to an exception or an id outside.
Inside(ids) ==
    LET stops == {i \in DOMAIN ids : ids[i] \notin First..Top}
    IN IF stops = {} THEN Len(ids) ELSE (CHOOSE i \in stops : \A j \in stops : i <= j) - 1

\* The walk ends outside the subtree, at a marker, at the limit, or if nothing
\* was added.
WalkDone(ids, rows) ==
    \/ Inside(ids) < Len(ids)
    \/ Len(rows) >= Limit
    \/ rows = out

\* Ids equal to the one before are skipped.
Rows(ids) ==
    LET add[i \in 0..Inside(ids)] ==
            IF i = 0 THEN out
            ELSE IF add[i - 1] # <<>> /\ add[i - 1][Len(add[i - 1])] = ids[i] THEN add[i - 1]
            ELSE Append(add[i - 1], ids[i])
    IN add[Inside(ids)]

ReceiveBatch(d) ==
    LET rows == Rows(d.ids)
    IN /\ ask # Nobody
       /\ stage = "walk"
       /\ d \in net
       /\ d.to = ask.port
       /\ AnswersIt(d)
       /\ net' = net \ {d}
       /\ ask' = Nobody
       /\ IF WalkDone(d.ids, rows)
          THEN /\ stage' = "print"
               /\ shown' = [shown EXCEPT !.rows = d.read]
               /\ lastWalk' = rows
               /\ out' = <<>> /\ moreOf' = Subtree /\ rounds' = 0
          ELSE /\ out' = rows
               /\ moreOf' = rows[Len(rows)]
               /\ UNCHANGED <<stage, shown, lastWalk, rounds>>
       /\ UNCHANGED <<version, agent, nextId, asked, ticks, missed>>

\* snapshot_loop: the line is printed; one shot, --stop-after or Ctrl-C end the
\* loop, else it sleeps and ticks again.
PrintTick ==
    /\ stage = "print"
    /\ \/ stage' = "stopped" /\ UNCHANGED <<ticks, missed>>
       \/ /\ ticks < MaxTicks
          /\ stage' = "get"
          /\ ticks' = ticks + 1
          /\ missed' = {}
    /\ UNCHANGED <<version, agent, ask, transport, walking, shown>>

SnmpNext ==
    \/ Construct \/ Send \/ TimesOut \/ PrintTick
    \/ \E r \in asked : AgentAnswers(r)
    \/ \E d \in net : Lose(d) \/ ReceiveBad(d) \/ ReceiveScalars(d) \/ ReceiveBatch(d)

SnmpSpec == SnmpInit /\ [][SnmpNext]_snmpVars

-----------------------------------------------------------------------------
(* Properties.                                                             *)

SnmpTypeOK ==
    /\ version \in {1, 2}
    /\ agent \in Agents
    /\ stage \in Kinds \cup {"construct", "print", "failed", "stopped"}
    /\ asked \subseteq Datagrams
    /\ ask # Nobody => ask \in asked /\ ask.id < nextId
    /\ nextId \in 1..MaxAsks + 1
    /\ ticks \in 0..MaxTicks + 1
    /\ shown \in [scalars : 0..ticks, rows : 0..ticks]

\* What a tick shows as new was read in that tick, for the request that was
\* asked: no late, doubled or foreign datagram is taken for an answer
\* (client.rs, round_trip and parse_response).
TickIsFresh ==
    stage = "print" =>
        /\ shown.scalars = ticks \/ "get" \in missed
        /\ shown.rows = ticks \/ "walk" \in missed

\* A walk that ended well over a good agent has the rows of the table from the
\* first on, each once, and all of them unless the limit cut it short; and over
\* any agent a walk ends within as many requests as rows, and no batch more rows
\* than the limit.
WalkIsTable ==
    /\ agent = "good" /\ lastWalk # <<>> =>
        /\ \A i \in DOMAIN lastWalk : lastWalk[i] = First + i - 1 /\ lastWalk[i] <= Top
        /\ Len(lastWalk) >= Limit \/ Len(lastWalk) = Top - First + 1
    /\ rounds <= Limit
    /\ Len(lastWalk) < Limit + Batch
=============================================================================
