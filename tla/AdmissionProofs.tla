--------------------------- MODULE AdmissionProofs ---------------------------
(***************************************************************************)
(* Theorems of ConnServer and Access, the two gates a request passes: for  *)
(* every set of sockets, every limit and every message; for any users,     *)
(* secrets, keys, threads and capacity of the memo, and any number of      *)
(* starts.                                                                 *)
(*                                                                         *)
(* Connections: CountExact alone is not inductive, as fetch_add counts the *)
(* socket the accept loop took, so the loop's state, `taken` and that      *)
(* socket's state must agree (TakenInv).  CapHolds needs more: between the *)
(* load and the fetch_add there must be room for one (RoomInv), which only *)
(* the accept loop can use up.                                             *)
(*                                                                         *)
(* Sign-in: the gate is exact because entries and gate change only while   *)
(* no thread serves (NoneServes), so that a verdict once found stays right *)
(* (MemoRight, ThreadsRight).  What is on file is founded on definitions   *)
(* (Founded), and, once every line is written, is what the entries say     *)
(* (LinesWritten).                                                         *)
(***************************************************************************)
EXTENDS ConnServer, Access, FiniteSetTheorems, SequenceTheorems, TLAPS

-----------------------------------------------------------------------------
(* Connections.                                                            *)

\* The accept loop and the socket it took agree.
TakenInv ==
    /\ acceptor = "listening" => taken = None
    /\ acceptor \in {"admitting", "counted", "dead"} => taken \in Conns
    /\ \A c \in Conns :
           /\ conn[c] = "admitted" <=> acceptor = "admitting" /\ c = taken
           /\ conn[c] = "counted" <=> acceptor \in {"counted", "dead"} /\ c = taken

\* The count never passes the limit, and leaves room for a socket admitted.
RoomInv ==
    /\ active <= MaxConns
    /\ acceptor = "admitting" => active < MaxConns

\* What is routed was complete when it was read.
RoutedInv == \A c \in Conns : conn[c] = "routing" => Complete(msg[c], buf[c])

ConnInv == TypeOK /\ TakenInv /\ CountExact /\ RoomInv /\ RoutedInv

-----------------------------------------------------------------------------

\* A step that takes c into a counted state from one that is not adds it.
LEMMA HeldJoins ==
    ASSUME TypeOK, NEW c \in Conns, NEW s \in ConnStates,
           conn' = [conn EXCEPT ![c] = s],
           s \in {"counted", "reading", "routing", "writing", "leaving"}
    PROVE  Held' = Held \cup {c}
  BY DEF TypeOK, Held

\* A step that takes c to any other state removes it.
LEMMA HeldLeaves ==
    ASSUME TypeOK, NEW c \in Conns, NEW s \in {"none", "queued", "admitted"},
           conn' = [conn EXCEPT ![c] = s]
    PROVE  Held' = Held \ {c}
  BY DEF TypeOK, Held

\* A request cut at the wrapped sum and parsed again is a whole request.
LEMMA CompleteIsWhole ==
    ASSUME NEW m \in Messages, NEW b \in Nat, Complete(m, b)
    PROVE  b >= m.head + m.length /\ m.length <= MaxBody
<1> DEFINE h == m.head
           l == m.length
           total == (h + l) % Word
<1>1. h \in Nat /\ l \in Nat /\ l < Word /\ Word \in Nat \ {0} /\ MaxBody \in Nat
  BY ConnAssumption
<1>2. b >= total /\ total >= h /\ total - h <= MaxBody
  BY DEF Complete
<1>3. total \in Nat /\ total < Word
  BY <1>1
<1>4. h + l < Word
  <2>1. SUFFICES ASSUME h + l >= Word
                 PROVE  FALSE
    BY <1>1
  <2>2. h < Word
    BY <1>1, <1>2, <1>3
  <2>3. total = h + l - Word
    <3>1. h + l - Word \in 0..Word - 1
      BY <1>1, <2>1, <2>2
    <3> QED
      BY <1>1, <2>1, <3>1
  <2> QED
    BY <1>1, <1>2, <2>3
<1>5. total = h + l
  BY <1>1, <1>4
<1> QED
  BY <1>1, <1>2, <1>5

-----------------------------------------------------------------------------

\* It holds at the start.
LEMMA ConnInit == Init => ConnInv
<1> SUFFICES ASSUME Init PROVE ConnInv
  OBVIOUS
<1>1. TypeOK
  BY ConnAssumption DEF Init, TypeOK, ConnStates, MaxRequest
<1>2. TakenInv /\ RoutedInv
  BY ConnAssumption DEF Init, TakenInv, RoutedInv
<1>3. Held = {}
  BY DEF Init, Held
<1>4. CountExact
  BY <1>3, FS_EmptySet DEF Init, CountExact
<1>5. RoomInv
  BY ConnAssumption DEF Init, RoomInv
<1> QED
  BY <1>1, <1>2, <1>4, <1>5 DEF ConnInv

\* Every action keeps the types.
LEMMA TypeStep == ConnInv /\ [Next]_vars => TypeOK'
<1> SUFFICES ASSUME ConnInv, [Next]_vars PROVE TypeOK'
  OBVIOUS
<1> USE ConnAssumption DEF ConnInv, TypeOK, ConnStates, MaxRequest
<1>1. ASSUME NEW c \in Conns, Connect(c) PROVE TypeOK'
  BY <1>1 DEF Connect
<1>2. ASSUME NEW c \in Conns, Admit(c) PROVE TypeOK'
  BY <1>2 DEF Admit
<1>3. ASSUME NEW c \in Conns, Refuse(c) PROVE TypeOK'
  BY <1>3 DEF Refuse
<1>4. CASE CountIn
  <2>1. active' \in Nat /\ taken \in Conns
    BY <1>4 DEF CountIn, TakenInv
  <2>2. conn' \in [Conns -> ConnStates]
    BY <1>4, <2>1 DEF CountIn
  <2> QED
    BY <1>4, <2>1, <2>2 DEF CountIn
<1>5. CASE Spawn
  BY <1>5 DEF Spawn
<1>6. CASE SpawnPanics
  BY <1>6 DEF SpawnPanics
<1>7. ASSUME NEW c \in Conns, Read(c) PROVE TypeOK'
  <2>1. PICK n \in 1..Chunk :
            IF buf[c] + n > MaxRequest
            THEN conn' = [conn EXCEPT ![c] = "leaving"] /\ UNCHANGED buf
            ELSE /\ buf' = [buf EXCEPT ![c] = @ + n]
                 /\ conn' = [conn EXCEPT ![c] =
                       IF Complete(msg[c], buf[c] + n) THEN "routing" ELSE "reading"]
    BY <1>7 DEF Read
  <2>2. CASE buf[c] + n > MaxRequest
    BY <1>7, <2>1, <2>2 DEF Read
  <2>3. CASE ~(buf[c] + n > MaxRequest)
    <3>1. buf[c] + n \in 0..MaxRequest
      BY <2>3
    <3>2. buf' \in [Conns -> 0..MaxRequest]
      BY <2>1, <2>3, <3>1
    <3>3. conn' \in [Conns -> ConnStates]
      BY <2>1, <2>3
    <3> QED
      BY <1>7, <3>2, <3>3 DEF Read
  <2> QED
    BY <2>2, <2>3
<1>8. ASSUME NEW c \in Conns, StopReading(c) PROVE TypeOK'
  BY <1>8 DEF StopReading
<1>9. ASSUME NEW c \in Conns, Route(c) \/ RoutePanics(c) \/ Write(c) PROVE TypeOK'
  BY <1>9 DEF Route, RoutePanics, Write
<1>10. ASSUME NEW c \in Conns, Leave(c) PROVE TypeOK'
  <2>1. c \in Held
    BY <1>10 DEF Leave, Held
  <2>2. active # 0
    BY <2>1, FS_EmptySet DEF CountExact
  <2> QED
    BY <1>10, <2>2 DEF Leave
<1>11. CASE UNCHANGED vars
  BY <1>11 DEF vars
<1> QED
  BY <1>1, <1>2, <1>3, <1>4, <1>5, <1>6, <1>7, <1>8, <1>9, <1>10, <1>11
  DEF Next, AcceptStep, ThreadStep

\* The accept loop and its socket keep agreeing.
LEMMA TakenStep == ConnInv /\ [Next]_vars => TakenInv'
<1> SUFFICES ASSUME ConnInv, [Next]_vars PROVE TakenInv'
  OBVIOUS
<1> USE ConnAssumption DEF ConnInv, TypeOK, ConnStates, TakenInv
<1>1. ASSUME NEW c \in Conns, Connect(c) PROVE TakenInv'
  BY <1>1 DEF Connect
<1>2. ASSUME NEW c \in Conns, Admit(c) PROVE TakenInv'
  BY <1>2 DEF Admit
<1>3. ASSUME NEW c \in Conns, Refuse(c) PROVE TakenInv'
  BY <1>3 DEF Refuse
<1>4. CASE CountIn
  BY <1>4 DEF CountIn
<1>5. CASE Spawn
  BY <1>5 DEF Spawn
<1>6. CASE SpawnPanics
  BY <1>6 DEF SpawnPanics
<1>7. ASSUME NEW c \in Conns, Read(c) PROVE TakenInv'
  BY <1>7 DEF Read
<1>8. ASSUME NEW c \in Conns,
             StopReading(c) \/ Route(c) \/ RoutePanics(c) \/ Write(c) \/ Leave(c)
      PROVE TakenInv'
  BY <1>8 DEF StopReading, Route, RoutePanics, Write, Leave
<1>9. CASE UNCHANGED vars
  BY <1>9 DEF vars
<1> QED
  BY <1>1, <1>2, <1>3, <1>4, <1>5, <1>6, <1>7, <1>8, <1>9
  DEF Next, AcceptStep, ThreadStep

\* The count goes up with the one socket that joins Held, and down with the
\* one that leaves it.
LEMMA CountStep == ConnInv /\ [Next]_vars => CountExact'
<1> SUFFICES ASSUME ConnInv, [Next]_vars PROVE CountExact'
  OBVIOUS
<1> USE DEF ConnInv
<1>1. ASSUME Held' = Held, UNCHANGED active PROVE CountExact'
  BY <1>1 DEF CountExact
<1>2. ASSUME NEW c \in Conns, Connect(c) \/ Refuse(c) \/ Admit(c) PROVE CountExact'
  <2>1. c \notin Held
    BY <1>2 DEF Connect, Refuse, Admit, Held
  <2>2. Held' = Held
    BY <1>2, <2>1, HeldLeaves DEF Connect, Refuse, Admit
  <2> QED
    BY <1>1, <1>2, <2>2 DEF Connect, Refuse, Admit
<1>3. CASE CountIn
  <2>1. taken \in Conns /\ taken \notin Held
    BY <1>3 DEF CountIn, TakenInv, Held
  <2>2. Held' = Held \cup {taken}
    BY <1>3, <2>1, HeldJoins DEF CountIn, ConnStates
  <2> QED
    BY <1>3, <2>1, <2>2, FS_AddElement DEF CountIn, CountExact
<1>4. CASE Spawn
  <2>1. taken \in Conns /\ taken \in Held
    BY <1>4 DEF Spawn, TakenInv, Held
  <2>2. Held' = Held \cup {taken}
    BY <1>4, <2>1, HeldJoins DEF Spawn, ConnStates
  <2> QED
    BY <1>1, <1>4, <2>1, <2>2 DEF Spawn
<1>5. CASE SpawnPanics
  BY <1>1, <1>5 DEF SpawnPanics, Held
<1>6. ASSUME NEW c \in Conns,
             Read(c) \/ StopReading(c) \/ Route(c) \/ RoutePanics(c) \/ Write(c)
      PROVE CountExact'
  <2>1. c \in Held /\ UNCHANGED active
    BY <1>6 DEF Read, StopReading, Route, RoutePanics, Write, Held
  <2>2. \E s \in {"reading", "routing", "writing", "leaving"} :
            conn' = [conn EXCEPT ![c] = s]
    BY <1>6 DEF Read, StopReading, Route, RoutePanics, Write
  <2>3. Held' = Held \cup {c}
    BY <2>2, HeldJoins DEF ConnStates
  <2> QED
    BY <1>1, <2>1, <2>3
<1>7. ASSUME NEW c \in Conns, Leave(c) PROVE CountExact'
  <2>1. c \in Held
    BY <1>7 DEF Leave, Held
  <2>2. Held' = Held \ {c}
    BY <1>7, HeldLeaves DEF Leave
  <2> QED
    BY <1>7, <2>1, <2>2, FS_RemoveElement DEF Leave, CountExact
<1>8. CASE UNCHANGED vars
  BY <1>1, <1>8 DEF vars, Held
<1> QED
  BY <1>2, <1>3, <1>4, <1>5, <1>6, <1>7, <1>8 DEF Next, AcceptStep, ThreadStep

\* Room seen by the load is still there at the fetch_add.
LEMMA RoomStep == ConnInv /\ [Next]_vars => RoomInv'
<1> SUFFICES ASSUME ConnInv, [Next]_vars PROVE RoomInv'
  OBVIOUS
<1> USE ConnAssumption DEF ConnInv, TypeOK, RoomInv
<1>1. ASSUME UNCHANGED <<active, acceptor>> PROVE RoomInv'
  BY <1>1
<1>2. ASSUME NEW c \in Conns, Admit(c) PROVE RoomInv'
  BY <1>2 DEF Admit, HasRoom
<1>3. CASE CountIn
  BY <1>3 DEF CountIn
<1>4. CASE Spawn \/ SpawnPanics
  BY <1>4 DEF Spawn, SpawnPanics
<1>5. ASSUME NEW c \in Conns, Leave(c) PROVE RoomInv'
  BY <1>5 DEF Leave
<1>6. ASSUME NEW c \in Conns,
             \/ Connect(c) \/ Refuse(c) \/ Read(c) \/ StopReading(c)
             \/ Route(c) \/ RoutePanics(c) \/ Write(c)
      PROVE RoomInv'
  BY <1>1, <1>6 DEF Connect, Refuse, Read, StopReading, Route, RoutePanics, Write
<1>7. CASE UNCHANGED vars
  BY <1>1, <1>7 DEF vars
<1> QED
  BY <1>2, <1>3, <1>4, <1>5, <1>6, <1>7 DEF Next, AcceptStep, ThreadStep

\* A request being routed keeps its bytes.
LEMMA RoutedStep == ConnInv /\ [Next]_vars => RoutedInv'
<1> SUFFICES ASSUME ConnInv, [Next]_vars, NEW d \in Conns, conn'[d] = "routing"
             PROVE  Complete(msg'[d], buf'[d])
  BY DEF RoutedInv, Complete
<1> USE DEF ConnInv, TypeOK, RoutedInv, TakenInv
<1>1. ASSUME conn[d] = "routing", msg'[d] = msg[d], buf'[d] = buf[d]
      PROVE  Complete(msg'[d], buf'[d])
  BY <1>1
<1>2. ASSUME NEW c \in Conns,
             \/ Connect(c) \/ Admit(c) \/ Refuse(c) \/ StopReading(c)
             \/ Route(c) \/ RoutePanics(c) \/ Write(c) \/ Leave(c)
      PROVE  Complete(msg'[d], buf'[d])
  BY <1>1, <1>2
  DEF Connect, Admit, Refuse, StopReading, Route, RoutePanics, Write, Leave
<1>3. CASE CountIn \/ Spawn \/ SpawnPanics
  BY <1>1, <1>3 DEF CountIn, Spawn, SpawnPanics
<1>4. ASSUME NEW c \in Conns, Read(c) PROVE Complete(msg'[d], buf'[d])
  <2>1. CASE c = d
    BY <1>4, <2>1 DEF Read
  <2>2. CASE c # d
    BY <1>1, <1>4, <2>2 DEF Read
  <2> QED
    BY <2>1, <2>2
<1>5. CASE UNCHANGED vars
  BY <1>1, <1>5 DEF vars
<1> QED
  BY <1>2, <1>3, <1>4, <1>5 DEF Next, AcceptStep, ThreadStep

-----------------------------------------------------------------------------

\* The inductive invariant holds in every reachable state.
THEOREM ConnInvariant == Spec => []ConnInv
<1>1. ConnInv /\ [Next]_vars => ConnInv'
  BY TypeStep, TakenStep, CountStep, RoomStep, RoutedStep DEF ConnInv
<1> QED
  BY ConnInit, <1>1, PTL DEF Spec

\* Every reachable state is well typed; no Reader passes the request cap.
THEOREM ConnTypeCorrect == Spec => []TypeOK
  BY ConnInvariant, PTL DEF ConnInv

\* The atomic is exactly the number of slots held, however threads end.
THEOREM ExactCount == Spec => []CountExact
  BY ConnInvariant, PTL DEF ConnInv

\* There are never more than MAX_CONNS connection threads.
THEOREM AtMostMaxConns == Spec => []CapHolds
<1>1. ConnInv => CapHolds
  BY DEF ConnInv, CountExact, RoomInv, CapHolds
<1> QED
  BY ConnInvariant, <1>1, PTL

\* What is routed is a whole request, for every word size and every length.
THEOREM WholeRequests == Spec => []WholeRequest
<1>1. ConnInv => WholeRequest
  <2> SUFFICES ASSUME ConnInv, NEW c \in Conns, conn[c] = "routing"
               PROVE  /\ buf[c] >= msg[c].head + msg[c].length
                      /\ msg[c].length <= MaxBody
    BY DEF WholeRequest
  <2>1. Complete(msg[c], buf[c])
    BY DEF ConnInv, RoutedInv
  <2>2. msg[c] \in Messages /\ buf[c] \in Nat
    BY ConnAssumption DEF ConnInv, TypeOK, MaxRequest
  <2> QED
    BY <2>1, <2>2, CompleteIsWhole
<1> QED
  BY ConnInvariant, <1>1, PTL

\* A client is turned away only while every slot is held.
THEOREM RefusalsJustified == Spec => RefusedOnlyWhenFull
<1> DEFINE Justified == \A c \in Conns :
        conn[c] = "queued" /\ conn'[c] = "none" => Cardinality(Held) = MaxConns
<1>1. ConnInv /\ [Next]_vars => [Justified]_vars
  <2> SUFFICES ASSUME ConnInv, Next, NEW c \in Conns,
                      conn[c] = "queued", conn'[c] = "none"
               PROVE  Cardinality(Held) = MaxConns
    BY DEF Justified
  <2> USE DEF ConnInv, TypeOK
  <2>1. ASSUME NEW d \in Conns, Refuse(d) PROVE Cardinality(Held) = MaxConns
    <3>1. ~(active < MaxConns) /\ active <= MaxConns
      BY <2>1 DEF Refuse, HasRoom, RoomInv
    <3>2. active = MaxConns
      BY <3>1, ConnAssumption
    <3> QED
      BY <3>2 DEF CountExact
  <2>2. ASSUME NEW d \in Conns,
               \/ Connect(d) \/ Admit(d) \/ Read(d) \/ StopReading(d)
               \/ Route(d) \/ RoutePanics(d) \/ Write(d) \/ Leave(d)
        PROVE FALSE
    BY <2>2 DEF Connect, Admit, Read, StopReading, Route, RoutePanics, Write, Leave
  <2>3. CASE CountIn \/ Spawn \/ SpawnPanics
    BY <2>3 DEF CountIn, Spawn, SpawnPanics, TakenInv
  <2> QED
    BY <2>1, <2>2, <2>3 DEF Next, AcceptStep, ThreadStep
<1> QED
  BY ConnInvariant, <1>1, PTL DEF Spec, RefusedOnlyWhenFull

-----------------------------------------------------------------------------
(* Sign-in.                                                                *)

Hashes == Secrets \cup {Unset, Torn}

\* No request is under way, and nothing remembered, unless the server serves;
\* before a start there are no entries, and lines to write only in save().
NoneServes ==
    /\ phase # "serving" => memo = <<>> /\ \A t \in Threads : thread[t] = "idle"
    /\ phase = "down" => entries = NoEntries /\ ~named
    /\ phase # "writing" => unsaved = {}

\* What is remembered of a login is what its hash says.
MemoRight ==
    \A i \in DOMAIN memo : memo[i].ok = Fits(entries[memo[i].login[1]], memo[i].login[2])

\* A thread asks for a verdict only behind the gate, and the one it found is right.
ThreadsRight ==
    \A t \in Threads :
        /\ thread[t] \in {"lookup", "verify", "remember"} =>
               GateApplies(request[t].path) /\ gate.basic /\ request[t].basic # Unset
        /\ thread[t] = "remember" =>
               verdict[t] = Fits(entries[request[t].basic[1]], request[t].basic[2])

\* A secret on file, or among the entries, was defined.
Founded ==
    /\ OnlyDefinedLogins
    /\ file # Unset => \A l \in Logins : file[l[1]] = l[2] => l \in defined

\* While lines are written the others are as the entries say, and no save counts.
LinesWritten ==
    phase = "writing" =>
        /\ file # Unset /\ saved = Unset
        /\ \A u \in Users \ unsaved : file[u] = entries[u]

AccessIInv ==
    /\ AccessTypeOK /\ NoneServes /\ MemoRight /\ ThreadsRight
    /\ GateExact /\ Founded /\ LinesWritten /\ SavedSurvives

-----------------------------------------------------------------------------
\* Absence is not a file, a login, or a hash that fits.
LEMMA Absences ==
    /\ \A f \in [Users -> Hashes] : f # Unset
    /\ NoEntries \in [Users -> Hashes] /\ NoRequest \in Requests
    /\ \A l \in Logins : l[1] \in Users /\ l[2] \in Secrets /\ l # Unset
  BY AccessAssumption DEF Hashes, NoEntries, NoRequest, Requests, Paths, Logins

\* The initial state: nothing on file, nobody asks.
LEMMA InitHolds == AccessInit => AccessIInv
  <1> SUFFICES ASSUME AccessInit PROVE AccessIInv
    OBVIOUS
  <1>1. AccessTypeOK
    <2>1. memo \in Seq([login : Logins, ok : BOOLEAN]) /\ Len(memo) <= MemoCap
      BY AccessAssumption DEF AccessInit
    <2>2. starts \in 0..MaxStarts
      BY AccessAssumption DEF AccessInit
    <2>3. gate \in [basic : BOOLEAN, key : Keys \cup {Unset}]
      BY DEF AccessInit
    <2> QED
      BY <2>1, <2>2, <2>3, Absences DEF AccessInit, AccessTypeOK, Hashes
  <1>2. NoneServes /\ MemoRight /\ ThreadsRight /\ GateExact /\ LinesWritten /\ SavedSurvives
    BY DEF AccessInit, NoneServes, MemoRight, ThreadsRight, GateExact, LinesWritten, SavedSurvives
  <1>3. Founded
    BY AccessAssumption, Absences DEF AccessInit, NoEntries, Founded, OnlyDefinedLogins, Fits
  <1> QED BY <1>1, <1>2, <1>3 DEF AccessIInv

-----------------------------------------------------------------------------
(* Types.                                                                  *)

\* The steps of start-up keep the types.
LEMMA StartTypes ==
    ASSUME AccessTypeOK, NoneServes, LinesWritten, StartStep
    PROVE  AccessTypeOK'
  <1> USE AccessAssumption, Absences DEF AccessTypeOK, Hashes
  <1>1. CASE Provide
    BY <1>1 DEF Provide, serving, Logins
  <1>2. CASE Start
    <2>1. starts' \in 0..MaxStarts
      BY <1>2 DEF Start
    <2>2. gate' \in [basic : BOOLEAN, key : Keys \cup {Unset}]
      BY <1>2 DEF Start, ApiKey
    <2>3. entries' \in [Users -> Hashes]
      BY <1>2 DEF Start, Loaded
    <2> QED
      BY <1>2, <2>1, <2>2, <2>3 DEF Start, disk, serving
  <1>3. ASSUME NEW u \in Users, NEW s \in Secrets, DefineLogin(u, s)
        PROVE  AccessTypeOK'
    <2>1. memo' \in Seq([login : Logins, ok : BOOLEAN]) /\ Len(memo') <= MemoCap
      BY <1>3 DEF DefineLogin
    <2>2. <<u, s>> \in Logins
      BY DEF Logins
    <2> QED
      BY <1>3, <2>1, <2>2 DEF DefineLogin, disk
  <1>4. CASE OpenFails
    BY <1>4 DEF OpenFails, disk, startup, serving
  <1>5. CASE OpenTruncates
    BY <1>5 DEF OpenTruncates, startup, serving
  <1>6. ASSUME NEW u \in Users, WriteLine(u)
        PROVE  AccessTypeOK'
    BY <1>6 DEF WriteLine, LinesWritten, startup, serving
  <1>7. ASSUME phase = "writing", NEW f \in Cut
        PROVE  f \in [Users -> Hashes]
    BY <1>7 DEF Cut, LinesWritten
  <1>8. CASE WriteFails
    BY <1>7, <1>8 DEF WriteFails, startup, serving
  <1>9. CASE WriteDone
    BY <1>9 DEF WriteDone, startup, serving
  <1>10. CASE Crash
    <2>1. memo' \in Seq([login : Logins, ok : BOOLEAN]) /\ Len(memo') <= MemoCap
      BY <1>10 DEF Crash
    <2>2. file' \in [Users -> Hashes] \cup {Unset}
      BY <1>7, <1>10 DEF Crash
    <2>3. gate' \in [basic : BOOLEAN, key : Keys \cup {Unset}]
      BY <1>10 DEF Crash
    <2> QED
      BY <1>10, <2>1, <2>2, <2>3 DEF Crash
  <1> QED
    BY <1>1, <1>2, <1>3, <1>4, <1>5, <1>6, <1>8, <1>9, <1>10 DEF StartStep

\* What trimming leaves is within the capacity, and of what there was.
LEMMA Trimmed ==
    ASSUME NEW S, NEW m \in Seq(S), Len(m) <= MemoCap, NEW e \in S
    PROVE  LET n == Trim(Append(m, e))
           IN  /\ n \in Seq(S) /\ Len(n) <= MemoCap
               /\ \A i \in DOMAIN n : n[i] = e \/ \E j \in DOMAIN m : n[i] = m[j]
  <1> DEFINE a == Append(m, e)
  <1>1. a \in Seq(S) /\ Len(a) = Len(m) + 1
    OBVIOUS
  <1>2. \A i \in DOMAIN a : a[i] = e \/ \E j \in DOMAIN m : a[i] = m[j]
    OBVIOUS
  <1>3. CASE Len(a) > MemoCap
    <2>1. Tail(a) \in Seq(S) /\ Len(Tail(a)) = Len(m)
      BY <1>1, <1>3, AccessAssumption
    <2>2. \A i \in DOMAIN Tail(a) : i + 1 \in DOMAIN a /\ Tail(a)[i] = a[i + 1]
      BY <1>1, <1>3, AccessAssumption
    <2> QED
      BY <1>2, <1>3, <2>1, <2>2 DEF Trim
  <1>4. CASE ~(Len(a) > MemoCap)
    BY <1>1, <1>2, <1>4, AccessAssumption DEF Trim
  <1> QED
    BY <1>3, <1>4

\* The steps of a request keep the types.
LEMMA RequestTypes ==
    ASSUME AccessTypeOK, ThreadsRight, NEW t \in Threads, RequestStep(t)
    PROVE  AccessTypeOK'
  <1> USE AccessAssumption, Absences DEF AccessTypeOK, Hashes
  <1>1. ASSUME NEW r \in Asked, Receive(t, r)
        PROVE  AccessTypeOK'
    BY <1>1 DEF Receive, At, Outcome, disk, startup
  <1>2. CASE Lookup(t)
    BY <1>2 DEF Lookup, At, Outcome, disk, startup
  <1>3. CASE Verify(t)
    BY <1>3 DEF Verify, At, Fits, disk, startup
  <1>4. CASE Remember(t)
    <2>1. [login |-> request[t].basic, ok |-> verdict[t]] \in [login : Logins, ok : BOOLEAN]
      BY <1>4 DEF Remember, At, ThreadsRight, Requests
    <2>2. memo' \in Seq([login : Logins, ok : BOOLEAN]) /\ Len(memo') <= MemoCap
      BY <1>4, <2>1, Trimmed DEF Remember
    <2> QED
      BY <1>4, <2>2 DEF Remember, At, Outcome, disk, startup
  <1>5. CASE Answer(t)
    BY <1>5 DEF Answer, disk, startup
  <1> QED
    BY <1>1, <1>2, <1>3, <1>4, <1>5 DEF RequestStep

-----------------------------------------------------------------------------
(* The gate.                                                               *)

\* Start-up and crashes leave nobody behind the gate and nothing remembered.
LEMMA StartSafe ==
    ASSUME AccessTypeOK, NoneServes, StartStep
    PROVE  NoneServes' /\ MemoRight' /\ ThreadsRight' /\ GateExact'
  <1>1. memo' = <<>> /\ \A t \in Threads : thread'[t] = "idle"
    BY DEF StartStep, NoneServes, Provide, Start, DefineLogin, OpenFails, OpenTruncates, WriteLine,
           WriteFails, WriteDone, Crash, serving
  <1>2. phase' = "down" => entries' = NoEntries /\ ~named'
    BY DEF StartStep, NoneServes, Provide, Start, DefineLogin, OpenFails, OpenTruncates, WriteLine,
           WriteFails, WriteDone, Crash
  <1>3. phase' # "writing" => unsaved' = {}
    BY DEF StartStep, NoneServes, Provide, Start, DefineLogin, OpenFails, OpenTruncates, WriteLine,
           WriteFails, WriteDone, Crash
  <1> QED
    BY <1>1, <1>2, <1>3 DEF NoneServes, MemoRight, ThreadsRight, GateExact

\* What a request deserves, by the entries and the key there are.
BasicFits(r) == gate.basic /\ r.basic # Unset /\ Fits(entries[r.basic[1]], r.basic[2])
Deserves(r) == GateApplies(r.path) => BasicFits(r) \/ KeyFits(r)

\* ThreadsRight and GateExact, for one thread.
RightOf(t) ==
    /\ thread[t] \in {"lookup", "verify", "remember"} =>
           GateApplies(request[t].path) /\ gate.basic /\ request[t].basic # Unset
    /\ thread[t] = "remember" =>
           verdict[t] = Fits(entries[request[t].basic[1]], request[t].basic[2])

ExactOf(t) ==
    /\ thread[t] = "served" => Deserves(request[t])
    /\ thread[t] = "refused" => ~Deserves(request[t])

\* Open paths and right credentials are what a request deserves.
LEMMA GateDecides ==
    /\ GateExact <=> \A t \in Threads : ExactOf(t)
    /\ GateExact' <=> \A t \in Threads : ExactOf(t)'
  <1>1. ASSUME NEW t \in Threads
        PROVE  LET r == request[t]
                   open == \/ ~gate.basic /\ gate.key = Unset
                           \/ r.path = "favicon"
                           \/ r.path = "shell" /\ ~gate.basic
                   right == \/ gate.basic /\ r.basic # Unset /\ Fits(entries[r.basic[1]], r.basic[2])
                            \/ gate.key # Unset /\ r.key = gate.key
               IN  Deserves(r) <=> (open \/ right)
    BY Zenon DEF Deserves, GateApplies, BasicFits, KeyFits
  <1>2. ASSUME NEW t \in Threads
        PROVE  (LET r == request[t]
                    open == \/ ~gate.basic /\ gate.key = Unset
                            \/ r.path = "favicon"
                            \/ r.path = "shell" /\ ~gate.basic
                    right == \/ gate.basic /\ r.basic # Unset /\ Fits(entries[r.basic[1]], r.basic[2])
                             \/ gate.key # Unset /\ r.key = gate.key
                IN  Deserves(r) <=> (open \/ right))'
    BY Zenon DEF Deserves, GateApplies, BasicFits, KeyFits
  <1> QED
    BY <1>1, <1>2 DEF GateExact, ExactOf

\* A step of one thread leaves the others as right as they were.
LEMMA OthersKept ==
    ASSUME AccessTypeOK, NEW t \in Threads, ThreadsRight, GateExact,
           UNCHANGED <<entries, gate>>,
           \A x \in Threads \ {t} : /\ thread'[x] = thread[x] /\ request'[x] = request[x]
                                    /\ verdict'[x] = verdict[x],
           RightOf(t)', ExactOf(t)'
    PROVE  ThreadsRight' /\ GateExact'
  <1>1. ASSUME NEW x \in Threads PROVE RightOf(x)' /\ ExactOf(x)'
    <2>1. RightOf(x) /\ ExactOf(x)
      BY GateDecides DEF ThreadsRight, RightOf
    <2>2. CASE x # t
      <3>1. /\ thread'[x] = thread[x] /\ request'[x] = request[x]
            /\ verdict'[x] = verdict[x]
        BY <2>2
      <3>2. RightOf(x)'
        BY <2>1, <3>1 DEF RightOf, GateApplies, Fits
      <3>3. ExactOf(x)'
        BY <2>1, <3>1 DEF ExactOf, Deserves, BasicFits, GateApplies, KeyFits, Fits
      <3> QED BY <3>2, <3>3
    <2> QED BY <2>2
  <1>2. ThreadsRight'
    BY <1>1 DEF ThreadsRight, RightOf
  <1>3. (\A x \in Threads : ExactOf(x))'
    BY <1>1
  <1>4. GateExact'
    BY <1>3, GateDecides
  <1> QED BY <1>2, <1>4

\* A step of a request keeps verdicts right, and decides by them.
LEMMA RequestSafe ==
    ASSUME AccessTypeOK, NoneServes, MemoRight, ThreadsRight, GateExact,
           NEW t \in Threads, RequestStep(t)
    PROVE  NoneServes' /\ MemoRight' /\ ThreadsRight' /\ GateExact'
  <1>1. UNCHANGED <<disk, startup, phase, unsaved>> /\ phase = "serving"
    BY DEF RequestStep, Receive, Lookup, Verify, Remember, Answer, At, NoneServes
  <1>2. NoneServes'
    BY <1>1 DEF NoneServes, startup
  <1>3. UNCHANGED <<entries, gate>> /\ RightOf(t) /\ ExactOf(t) /\ request[t] \in Requests
    BY <1>1, GateDecides DEF startup, ThreadsRight, RightOf, AccessTypeOK
  <1>4. UNCHANGED memo => MemoRight'
    BY <1>3 DEF MemoRight, Fits
  <1>5. /\ DOMAIN thread = Threads /\ DOMAIN request = Threads /\ DOMAIN verdict = Threads
        /\ thread = [x \in Threads |-> thread[x]] /\ request = [x \in Threads |-> request[x]]
        /\ verdict = [x \in Threads |-> verdict[x]]
    BY DEF AccessTypeOK
  <1> DEFINE Others == \A x \in Threads \ {t} : /\ thread'[x] = thread[x] /\ request'[x] = request[x]
                                               /\ verdict'[x] = verdict[x]
  <1>13. RightOf(t)' /\ ExactOf(t)' /\ Others => ThreadsRight' /\ GateExact'
    BY <1>3, OthersKept
  <1>6. ASSUME NEW r \in Asked, Receive(t, r)
        PROVE  MemoRight' /\ ThreadsRight' /\ GateExact'
    <2>1. /\ request' = [request EXCEPT ![t] = r] /\ UNCHANGED <<memo, verdict>>
          /\ thread' = [thread EXCEPT ![t] =
                IF GateApplies(r.path) /\ gate.basic /\ r.basic # Unset THEN "lookup"
                ELSE Outcome(GateApplies(r.path) => KeyFits(r))]
      BY <1>6 DEF Receive, At
    <2>2. request'[t] = r
      BY <1>5, <2>1
    <2>5. Others
      BY <1>5, <2>1
    <2>3. CASE GateApplies(r.path) /\ gate.basic /\ r.basic # Unset
      <3>1. thread'[t] = "lookup"
        BY <1>5, <2>1, <2>3
      <3> QED
        <4>1. RightOf(t)' /\ ExactOf(t)'
          BY <1>3, <2>2, <2>3, <3>1 DEF RightOf, ExactOf, GateApplies
        <4> QED BY <1>4, <1>13, <2>1, <2>5, <4>1
    <2>4. CASE ~(GateApplies(r.path) /\ gate.basic /\ r.basic # Unset)
      <3>1. thread'[t] = Outcome(GateApplies(r.path) => KeyFits(r))
        BY <1>5, <2>1, <2>4
      <3>2. Deserves(r) <=> (GateApplies(r.path) => KeyFits(r))
        BY <2>4 DEF Deserves, BasicFits
      <3>3. Deserves(r)' <=> Deserves(r)
        BY <1>3 DEF Deserves, BasicFits, GateApplies, KeyFits, Fits
      <3>4. RightOf(t)' /\ ExactOf(t)'
        BY <2>2, <3>1, <3>2, <3>3 DEF RightOf, ExactOf, Outcome
      <3> QED
        BY <1>4, <1>13, <2>1, <2>5, <3>4
    <2> QED BY <2>3, <2>4
  <1>7. ASSUME UNCHANGED request, NEW ok \in BOOLEAN, thread' = [thread EXCEPT ![t] = Outcome(ok)],
               ok <=> Deserves(request[t])
        PROVE  RightOf(t)' /\ ExactOf(t)'
    <2>1. thread'[t] = Outcome(ok)
      BY <1>5, <1>7
    <2>2. Deserves(request[t])' <=> Deserves(request[t])
      BY <1>3, <1>7 DEF Deserves, BasicFits, GateApplies, KeyFits, Fits
    <2> QED
      BY <1>7, <2>1, <2>2 DEF RightOf, ExactOf, Outcome
  <1>8. ASSUME NEW here \in {"lookup", "remember"}, thread[t] = here, NEW found \in BOOLEAN,
               found = Fits(entries[request[t].basic[1]], request[t].basic[2])
        PROVE  (found \/ KeyFits(request[t])) <=> Deserves(request[t])
    BY <1>3, <1>8 DEF RightOf, Deserves, BasicFits
  <1>9. CASE Lookup(t)
    <2>1. UNCHANGED <<request, memo, verdict>> /\ thread[t] = "lookup"
      BY <1>9 DEF Lookup
    <2>2. CASE thread' = [thread EXCEPT ![t] = "verify"]
      <3>1. thread'[t] = "verify"
        BY <1>5, <2>2
      <3>2. RightOf(t)' /\ ExactOf(t)'
        BY <1>3, <2>1, <3>1 DEF RightOf, ExactOf, GateApplies
      <3>3. Others
        BY <1>5, <2>1, <2>2
      <3> QED
        BY <1>2, <1>4, <1>13, <2>1, <3>2, <3>3
    <2>3. ASSUME NEW i \in DOMAIN memo, memo[i].login = request[t].basic,
                 thread' = [thread EXCEPT ![t] = Outcome(memo[i].ok \/ KeyFits(request[t]))]
          PROVE  MemoRight' /\ ThreadsRight' /\ GateExact'
      <3>1. memo[i].ok = Fits(entries[request[t].basic[1]], request[t].basic[2])
        BY <2>3 DEF MemoRight
      <3>2. memo[i].ok \in BOOLEAN /\ KeyFits(request[t]) \in BOOLEAN
        <4>1. memo[i].ok \in BOOLEAN
          <5>1. memo[i] \in [login : Logins, ok : BOOLEAN]
            <6> DEFINE R == [login : Logins, ok : BOOLEAN]
            <6>1. memo \in Seq(R)
              BY DEF AccessTypeOK
            <6> HIDE DEF R
            <6>2. i \in 1..Len(memo)
              BY <6>1
            <6>3. memo[i] \in R
              BY <6>1, <6>2, ElementOfSeq
            <6> QED BY <6>3 DEF R
          <5> QED BY <5>1
        <4> QED BY <4>1 DEF KeyFits
      <3>3. RightOf(t)' /\ ExactOf(t)'
        BY <1>7, <1>8, <2>1, <2>3, <3>1, <3>2
      <3>4. Others
        BY <1>5, <2>1, <2>3
      <3> QED
        BY <1>4, <1>13, <2>1, <3>3, <3>4
    <2>4. \/ thread' = [thread EXCEPT ![t] = "verify"]
          \/ \E i \in DOMAIN memo :
                /\ memo[i].login = request[t].basic
                /\ thread' = [thread EXCEPT ![t] = Outcome(memo[i].ok \/ KeyFits(request[t]))]
      <3> DEFINE hits == {i \in DOMAIN memo : Remembers(request[t].basic, memo[i])}
      <3>1. \/ \E i \in hits : At(t, "lookup", Outcome(memo[i].ok \/ KeyFits(request[t])))
            \/ At(t, "lookup", "verify")
        BY <1>9 DEF Lookup
      <3> QED BY <3>1 DEF At, Remembers
    <2> QED
      BY <1>2, <2>2, <2>3, <2>4
  <1>10. CASE Verify(t)
    <2> DEFINE found == Fits(entries[request[t].basic[1]], request[t].basic[2])
    <2>1. /\ UNCHANGED <<request, memo>> /\ thread[t] = "verify"
          /\ thread' = [thread EXCEPT ![t] = "remember"]
          /\ verdict' = [verdict EXCEPT ![t] = found]
      BY <1>10 DEF Verify, At
    <2>2. thread'[t] = "remember" /\ verdict'[t] = found
      BY <1>5, <2>1
    <2>3. RightOf(t)' /\ ExactOf(t)'
      BY <1>3, <2>1, <2>2 DEF RightOf, ExactOf, GateApplies, Fits
    <2>4. Others
      BY <1>5, <2>1
    <2> QED
      BY <1>2, <1>4, <1>13, <2>1, <2>3, <2>4
  <1>11. CASE Remember(t)
    <2> DEFINE e == [login |-> request[t].basic, ok |-> verdict[t]]
    <2>1. /\ UNCHANGED request /\ thread[t] = "remember"
          /\ thread' = [thread EXCEPT ![t] = Outcome(verdict[t] \/ KeyFits(request[t]))]
          /\ verdict' = [verdict EXCEPT ![t] = FALSE]
          /\ memo' = Trim(Append(memo, e))
      BY <1>11 DEF Remember, At
    <2>2. /\ request[t].basic # Unset
          /\ verdict[t] = Fits(entries[request[t].basic[1]], request[t].basic[2])
      BY <1>3, <2>1 DEF RightOf
    <2>3. e \in [login : Logins, ok : BOOLEAN] /\ verdict[t] \in BOOLEAN
      BY <1>3, <2>2 DEF Requests, AccessTypeOK
    <2>4. \A i \in DOMAIN memo' : memo'[i] = e \/ \E j \in DOMAIN memo : memo'[i] = memo[j]
      <3>1. memo \in Seq([login : Logins, ok : BOOLEAN]) /\ Len(memo) <= MemoCap
        BY DEF AccessTypeOK
      <3> HIDE DEF e
      <3>2. \A i \in DOMAIN Trim(Append(memo, e)) :
               \/ Trim(Append(memo, e))[i] = e
               \/ \E j \in DOMAIN memo : Trim(Append(memo, e))[i] = memo[j]
        <4> DEFINE R == [login : Logins, ok : BOOLEAN]
        <4>1. memo \in Seq(R) /\ Len(memo) <= MemoCap /\ e \in R
          BY <2>3, <3>1
        <4> HIDE DEF R
        <4> QED BY <4>1, Trimmed
      <3> QED BY <2>1, <3>2
    <2>5. MemoRight'
      <3>1. e.login = request[t].basic /\ e.ok = verdict[t]
        OBVIOUS
      <3> HIDE DEF e
      <3> QED
        BY <1>3, <2>2, <2>4, <3>1 DEF MemoRight, Fits
    <2>6. RightOf(t)' /\ ExactOf(t)'
      BY <1>7, <1>8, <2>1, <2>2, <2>3 DEF KeyFits
    <2>7. ThreadsRight' /\ GateExact'
      <3>1. Others
        BY <1>5, <2>1
      <3> QED BY <1>13, <2>6, <3>1
    <2> QED BY <1>2, <2>5, <2>7
  <1>12. CASE Answer(t)
    <2>1. /\ UNCHANGED <<memo, verdict>>
          /\ thread' = [thread EXCEPT ![t] = "idle"] /\ request' = [request EXCEPT ![t] = NoRequest]
      BY <1>12 DEF Answer
    <2>2. RightOf(t)' /\ ExactOf(t)'
      BY <1>5, <2>1 DEF RightOf, ExactOf
    <2>3. Others
      BY <1>5, <2>1
    <2> QED
      BY <1>2, <1>4, <1>13, <2>1, <2>2, <2>3
  <1> QED
    BY <1>2, <1>6, <1>9, <1>10, <1>11, <1>12 DEF RequestStep

-----------------------------------------------------------------------------
(* The file.                                                               *)

\* No step of start-up makes a login that was not defined fit.
LEMMA FoundedStep ==
    ASSUME AccessTypeOK, NoneServes, Founded, LinesWritten, StartStep
    PROVE  Founded'
  <1> USE AccessAssumption, Absences DEF AccessTypeOK, Hashes, Founded, OnlyDefinedLogins, Fits
  <1>1. CASE Provide
    BY <1>1 DEF Provide, NoneServes, NoEntries
  <1>2. CASE Start
    <2>1. defined' = defined /\ file' = file
      BY <1>2 DEF Start, disk
    <2>2. \A l \in Logins : entries'[l[1]] = l[2] => l \in defined
      BY <1>2 DEF Start, Loaded, NoEntries
    <2> QED BY <2>1, <2>2
  <1>3. ASSUME NEW u \in Users, NEW s \in Secrets, DefineLogin(u, s)
        PROVE  Founded'
    <2>1. \A l \in Logins : l[1] = u /\ l[2] = s => l = <<u, s>>
      BY DEF Logins
    <2> QED
      BY <1>3, <2>1 DEF DefineLogin, disk
  <1>4. CASE OpenFails
    BY <1>4 DEF OpenFails, disk, startup
  <1>5. CASE OpenTruncates
    BY <1>5 DEF OpenTruncates, startup, NoEntries
  <1>6. ASSUME NEW u \in Users, WriteLine(u)
        PROVE  Founded'
    BY <1>6 DEF WriteLine, startup, LinesWritten
  <1>7. ASSUME phase = "writing", NEW f \in Cut, NEW l \in Logins, f[l[1]] = l[2]
        PROVE  l \in defined
    BY <1>7 DEF Cut, LinesWritten
  <1>8. CASE WriteFails
    BY <1>7, <1>8 DEF WriteFails, startup
  <1>9. CASE WriteDone
    BY <1>9 DEF WriteDone, startup
  <1>10. CASE Crash
    BY <1>7, <1>10 DEF Crash, NoEntries
  <1> QED
    BY <1>1, <1>2, <1>3, <1>4, <1>5, <1>6, <1>8, <1>9, <1>10 DEF StartStep

\* The steps of start-up write what the entries say, and load what was written.
LEMMA SavedStep ==
    ASSUME AccessTypeOK, NoneServes, LinesWritten, SavedSurvives, StartStep
    PROVE  LinesWritten' /\ SavedSurvives'
  <1> USE AccessAssumption, Absences DEF AccessTypeOK, Hashes, LinesWritten, SavedSurvives
  <1>1. CASE Provide
    BY <1>1 DEF Provide
  <1>2. CASE Start
    BY <1>2 DEF Start, Loaded, disk
  <1>3. ASSUME NEW u \in Users, NEW s \in Secrets, DefineLogin(u, s)
        PROVE  LinesWritten' /\ SavedSurvives'
    BY <1>3 DEF DefineLogin, disk
  <1>4. CASE OpenFails
    BY <1>4 DEF OpenFails, disk, startup
  <1>5. CASE OpenTruncates
    BY <1>5 DEF OpenTruncates, startup, NoEntries
  <1>6. ASSUME NEW u \in Users, WriteLine(u)
        PROVE  LinesWritten' /\ SavedSurvives'
    BY <1>6 DEF WriteLine, startup
  <1>7. CASE WriteFails
    BY <1>7 DEF WriteFails, startup
  <1>8. CASE WriteDone
    BY <1>8 DEF WriteDone, startup
  <1>9. CASE Crash
    BY <1>9 DEF Crash
  <1> QED
    BY <1>1, <1>2, <1>3, <1>4, <1>5, <1>6, <1>7, <1>8, <1>9 DEF StartStep

-----------------------------------------------------------------------------
(* The theorems.                                                           *)

\* Every step keeps the invariant.
LEMMA StepHolds == AccessIInv /\ [AccessNext]_accessVars => AccessIInv'
  <1> SUFFICES ASSUME AccessIInv, [AccessNext]_accessVars PROVE AccessIInv'
    OBVIOUS
  <1> USE DEF AccessIInv
  <1>1. CASE StartStep
    BY <1>1, StartTypes, StartSafe, FoundedStep, SavedStep
  <1>2. ASSUME NEW t \in Threads, RequestStep(t)
        PROVE  AccessIInv'
    <2>1. UNCHANGED <<disk, startup, phase, unsaved>>
      BY <1>2 DEF RequestStep, Receive, Lookup, Verify, Remember, Answer
    <2>2. Founded' /\ LinesWritten' /\ SavedSurvives'
      BY <2>1 DEF Founded, OnlyDefinedLogins, LinesWritten, SavedSurvives, Fits, disk, startup
    <2> QED
      BY <1>2, <2>2, RequestTypes, RequestSafe
  <1>3. CASE UNCHANGED accessVars
    BY <1>3 DEF accessVars, AccessTypeOK, NoneServes, MemoRight, ThreadsRight, GateExact, Founded,
                OnlyDefinedLogins, LinesWritten, SavedSurvives, GateApplies, Fits, Cut
  <1> QED
    BY <1>1, <1>2, <1>3 DEF AccessNext

\* The inductive invariant of sign-in: verdicts stay right because entries and
\* gate change only while nobody is behind them (PasswordFile::check, main).
THEOREM AccessInvariant == AccessSpec => []AccessIInv
  BY InitHolds, StepHolds, PTL DEF AccessSpec

\* Types, and the capacity of the memo of PasswordFile, for any constants.
THEOREM AccessTypeCorrect == AccessSpec => []AccessTypeOK
  <1>1. AccessIInv => AccessTypeOK
    BY DEF AccessIInv
  <1> QED BY <1>1, AccessInvariant, PTL

\* A request is served exactly if its path is open or a credential of it is right,
\* with any threads, and any capacity of the memo (credentials_ok).
THEOREM ServedExactly == AccessSpec => []GateExact
  <1>1. AccessIInv => GateExact
    BY DEF AccessIInv
  <1> QED BY <1>1, AccessInvariant, PTL

\* Whatever crashes and full disks make of the file, no login fits that nobody
\* defined (PasswordFile::load, save).
THEOREM NothingUndefined == AccessSpec => []OnlyDefinedLogins
  <1>1. AccessIInv => OnlyDefinedLogins
    BY DEF AccessIInv, Founded
  <1> QED BY <1>1, AccessInvariant, PTL

\* What a save() that returned Ok wrote is what the next start reads.
THEOREM SavesSurvive == AccessSpec => []SavedSurvives
  <1>1. AccessIInv => SavedSurvives
    BY DEF AccessIInv
  <1> QED BY <1>1, AccessInvariant, PTL
=============================================================================
