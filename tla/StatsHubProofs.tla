--------------------------- MODULE StatsHubProofs ---------------------------
(***************************************************************************)
(* What holds of StatsHub for every set of connection threads, every       *)
(* number of plugins and every item set, and of the server, whose          *)
(* connections run its handlers and may panic in them.                     *)
(*                                                                         *)
(* None of the properties is inductive alone: that a request never copies  *)
(* a torn tree rests on the write lock leaving no reader, which rests on   *)
(* each handler's guards being those of the code it is in, and on the tree *)
(* being consistent whenever the lock is free.  HubInv is their            *)
(* conjunction; each part has a lemma saying that every step keeps it.     *)
(* ServerInv adds that only a thread that routes is in a handler, which    *)
(* every way out of route() has to keep, unwinding included.               *)
(***************************************************************************)
EXTENDS Server, TLAPS

\* Read guards held at each point of a handler: none, the handler's own, and
\* the dashboard's second one.
GuardsAt(c) ==
    IF c \in {"read", "wantHealth"} THEN 1 ELSE IF c = "health" THEN 2 ELSE 0

\* Between a plugin's update and its views the cursor is on that plugin.
CursorInv == step \in {"actions", "acting", "events", "views"} => cursor \in Plugins

\* The refresh thread at the write lock: what it published is the tree while
\* it is not at work, and the summary is of the tree when it is done.
WriterInv ==
    /\ writer = "holding" <=> step # "sleep"
    /\ writer # "holding" => published = Tree
    /\ step = "filled" => quicklook = stats
    /\ published.quicklook = published.stats

\* The readers' guards are those of the code they are in, and a held write
\* lock leaves them none.
GuardInv ==
    /\ \A h \in Handlers : guards[h] = GuardsAt(pc[h])
    /\ writer = "holding" => \A h \in Handlers : guards[h] = 0

\* What a request copied is consistent; for a dashboard that still holds its
\* guard it is what the tree is now.
CopyInv ==
    /\ \A h \in Handlers : pc[h] \in {"wantHealth", "health"} => view[h] = Tree
    /\ \A h \in Handlers : view[h] # None => view[h].quicklook = view[h].stats
    /\ \A h \in Handlers : health[h] # None => health[h] = view[h].stats
    /\ \A h \in Handlers : pc[h] # "reply" => health[h] = None

\* A mutex is held exactly by the thread in its critical section.
OwnerInv ==
    /\ \A h \in Handlers : owner["extended"] = h <=> pc[h] = "extended"
    /\ \A h \in Handlers : owner["events"] = h <=> pc[h] = "events"
    /\ \A h \in Handlers : owner["actions"] # h
    /\ owner["actions"] = Refresh <=> step = "acting"
    /\ owner["events"] = Refresh <=> step = "views"
    /\ owner["extended"] # Refresh

HubInv ==
    TypeOK /\ CursorInv /\ WriterInv /\ GuardInv /\ CopyInv /\ OwnerInv

-----------------------------------------------------------------------------

\* A connection thread never changes what the refresh thread works on.
LEMMA HandlerFrame ==
    \A h \in Handlers : Receive(h) \/ HandlerStep(h) => UNCHANGED refreshVars
BY DEF Receive, HandlerStep, AcquireRead, CopyTree, CopyPayloads, AcquireHealth,
       HealthValue, FindProcess, LockExtended, WriteExtended, ReadExtended,
       LockEventLog, CleanEvents, Reply

\* The refresh thread never changes what connection threads keep for themselves.
LEMMA RefreshFrame == RefreshStep => UNCHANGED handlerVars
BY DEF RefreshStep, RequestWrite, AcquireWrite, UpdateOk, UpdateFails,
       LockActions, RunActions, LockEvents, UpdateViews, FillQuicklook,
       ReleaseWrite

\* Every step keeps every variable in its type.
LEMMA TypeStep == TypeOK /\ CursorInv /\ GuardInv /\ [Next]_vars => TypeOK'
<1> SUFFICES ASSUME TypeOK /\ CursorInv /\ GuardInv, [Next]_vars PROVE TypeOK'
  OBVIOUS
<1> USE HubAssumption DEF TypeOK, GuardInv, GuardsAt, CursorInv, Plugins, Mutexes, RefreshSteps, HandlerSteps
<1>1. CASE RefreshStep
  <2> USE DEF handlerVars
  <2>1. CASE RequestWrite
    BY <2>1 DEF RequestWrite
  <2>2. CASE AcquireWrite
    BY <2>2 DEF AcquireWrite
  <2>3. CASE UpdateOk
    BY <2>3 DEF UpdateOk, Trees
  <2>4. CASE UpdateFails
    BY <2>4 DEF UpdateFails, Trees
  <2>5. CASE LockActions
    BY <2>5 DEF LockActions
  <2>6. CASE RunActions
    BY <2>6 DEF RunActions
  <2>7. CASE LockEvents
    BY <2>7 DEF LockEvents
  <2>8. CASE UpdateViews
    BY <2>8 DEF UpdateViews
  <2>9. CASE FillQuicklook
    BY <2>9 DEF FillQuicklook
  <2>10. CASE ReleaseWrite
    BY <2>10 DEF ReleaseWrite, Tree, Versions
  <2>11. QED
    BY <1>1, <2>1, <2>2, <2>3, <2>4, <2>5, <2>6, <2>7, <2>8, <2>9, <2>10
    DEF RefreshStep
<1>2. ASSUME NEW h \in Handlers, Receive(h) PROVE TypeOK'
  BY <1>2 DEF Receive, refreshVars, Entry
<1>3. ASSUME NEW h \in Handlers, HandlerStep(h) PROVE TypeOK'
  <2> USE DEF refreshVars
  <2>1. CASE AcquireRead(h)
    BY <2>1 DEF AcquireRead
  <2>2. CASE CopyTree(h)
    BY <2>2 DEF CopyTree, Tree, Versions
  <2>3. CASE CopyPayloads(h)
    BY <2>3 DEF CopyPayloads, Tree, Versions
  <2>4. CASE AcquireHealth(h)
    BY <2>4 DEF AcquireHealth
  <2>5. CASE HealthValue(h)
    BY <2>5 DEF HealthValue, Tree, Versions
  <2>6. CASE FindProcess(h)
    BY <2>6 DEF FindProcess
  <2>7. CASE LockExtended(h)
    BY <2>7 DEF LockExtended
  <2>8. CASE WriteExtended(h)
    BY <2>8 DEF WriteExtended
  <2>9. CASE ReadExtended(h)
    BY <2>9 DEF ReadExtended
  <2>10. CASE LockEventLog(h)
    BY <2>10 DEF LockEventLog
  <2>11. CASE CleanEvents(h)
    BY <2>11 DEF CleanEvents
  <2>12. CASE Reply(h)
    BY <2>12 DEF Reply, RequestKinds
  <2>13. QED
    BY <1>3, <2>1, <2>2, <2>3, <2>4, <2>5, <2>6, <2>7, <2>8, <2>9, <2>10, <2>11, <2>12
    DEF HandlerStep
<1>4. CASE UNCHANGED vars
  BY <1>4 DEF vars
<1>5. QED
  BY <1>1, <1>2, <1>3, <1>4 DEF Next

\* Every step keeps the cursor on a plugin where one is being worked on.
LEMMA CursorStep == TypeOK /\ CursorInv /\ [Next]_vars => CursorInv'
<1> SUFFICES ASSUME TypeOK /\ CursorInv, [Next]_vars PROVE CursorInv'
  OBVIOUS
<1> USE HubAssumption DEF TypeOK, CursorInv, Plugins
<1>1. CASE RefreshStep
  <2> USE DEF handlerVars
  <2>1. CASE RequestWrite
    BY <2>1 DEF RequestWrite
  <2>2. CASE AcquireWrite
    BY <2>2 DEF AcquireWrite
  <2>3. CASE UpdateOk
    BY <2>3 DEF UpdateOk
  <2>4. CASE UpdateFails
    BY <2>4 DEF UpdateFails
  <2>5. CASE LockActions
    BY <2>5 DEF LockActions
  <2>6. CASE RunActions
    BY <2>6 DEF RunActions
  <2>7. CASE LockEvents
    BY <2>7 DEF LockEvents
  <2>8. CASE UpdateViews
    BY <2>8 DEF UpdateViews
  <2>9. CASE FillQuicklook
    BY <2>9 DEF FillQuicklook
  <2>10. CASE ReleaseWrite
    BY <2>10 DEF ReleaseWrite
  <2>11. QED
    BY <1>1, <2>1, <2>2, <2>3, <2>4, <2>5, <2>6, <2>7, <2>8, <2>9, <2>10
    DEF RefreshStep
<1>2. ASSUME NEW h \in Handlers, Receive(h) \/ HandlerStep(h) PROVE CursorInv'
  BY <1>2, HandlerFrame DEF refreshVars
<1>3. CASE UNCHANGED vars
  BY <1>3 DEF vars
<1>4. QED
  BY <1>1, <1>2, <1>3 DEF Next

\* Every step keeps what was published equal to the tree and consistent.
LEMMA WriterStep == TypeOK /\ WriterInv /\ [Next]_vars => WriterInv'
<1> SUFFICES ASSUME TypeOK /\ WriterInv, [Next]_vars PROVE WriterInv'
  OBVIOUS
<1> USE HubAssumption DEF TypeOK, WriterInv, Tree
<1>1. CASE RefreshStep
  <2> USE DEF handlerVars
  <2>1. CASE RequestWrite
    BY <2>1 DEF RequestWrite
  <2>2. CASE AcquireWrite
    BY <2>2 DEF AcquireWrite
  <2>3. CASE UpdateOk
    BY <2>3 DEF UpdateOk
  <2>4. CASE UpdateFails
    BY <2>4 DEF UpdateFails
  <2>5. CASE LockActions
    BY <2>5 DEF LockActions
  <2>6. CASE RunActions
    BY <2>6 DEF RunActions
  <2>7. CASE LockEvents
    BY <2>7 DEF LockEvents
  <2>8. CASE UpdateViews
    BY <2>8 DEF UpdateViews
  <2>9. CASE FillQuicklook
    BY <2>9 DEF FillQuicklook
  <2>10. CASE ReleaseWrite
    BY <2>10 DEF ReleaseWrite
  <2>11. QED
    BY <1>1, <2>1, <2>2, <2>3, <2>4, <2>5, <2>6, <2>7, <2>8, <2>9, <2>10
    DEF RefreshStep
<1>2. ASSUME NEW h \in Handlers, Receive(h) \/ HandlerStep(h) PROVE WriterInv'
  BY <1>2, HandlerFrame DEF refreshVars
<1>3. CASE UNCHANGED vars
  BY <1>3 DEF vars
<1>4. QED
  BY <1>1, <1>2, <1>3 DEF Next

\* Every step keeps the read guards those of the code, and none under a writer.
LEMMA GuardStep == TypeOK /\ WriterInv /\ GuardInv /\ [Next]_vars => GuardInv'
<1> SUFFICES ASSUME TypeOK /\ WriterInv /\ GuardInv, [Next]_vars PROVE GuardInv'
  OBVIOUS
<1> USE HubAssumption DEF TypeOK, WriterInv, GuardInv, GuardsAt, ReadLockable, HandlerSteps
<1>1. CASE RefreshStep
  <2> USE DEF handlerVars
  <2>1. CASE RequestWrite
    BY <2>1 DEF RequestWrite
  <2>2. CASE AcquireWrite
    BY <2>2 DEF AcquireWrite
  <2>3. CASE UpdateOk
    BY <2>3 DEF UpdateOk
  <2>4. CASE UpdateFails
    BY <2>4 DEF UpdateFails
  <2>5. CASE LockActions
    BY <2>5 DEF LockActions
  <2>6. CASE RunActions
    BY <2>6 DEF RunActions
  <2>7. CASE LockEvents
    BY <2>7 DEF LockEvents
  <2>8. CASE UpdateViews
    BY <2>8 DEF UpdateViews
  <2>9. CASE FillQuicklook
    BY <2>9 DEF FillQuicklook
  <2>10. CASE ReleaseWrite
    BY <2>10 DEF ReleaseWrite
  <2>11. QED
    BY <1>1, <2>1, <2>2, <2>3, <2>4, <2>5, <2>6, <2>7, <2>8, <2>9, <2>10
    DEF RefreshStep
<1>2. ASSUME NEW h \in Handlers, Receive(h) PROVE GuardInv'
  BY <1>2 DEF Receive, refreshVars, Entry
<1>3. ASSUME NEW h \in Handlers, HandlerStep(h) PROVE GuardInv'
  <2> USE DEF refreshVars
  <2>1. CASE AcquireRead(h)
    BY <2>1 DEF AcquireRead
  <2>2. CASE CopyTree(h)
    BY <2>2 DEF CopyTree
  <2>3. CASE CopyPayloads(h)
    BY <2>3 DEF CopyPayloads
  <2>4. CASE AcquireHealth(h)
    BY <2>4 DEF AcquireHealth
  <2>5. CASE HealthValue(h)
    BY <2>5 DEF HealthValue
  <2>6. CASE FindProcess(h)
    BY <2>6 DEF FindProcess
  <2>7. CASE LockExtended(h)
    BY <2>7 DEF LockExtended
  <2>8. CASE WriteExtended(h)
    BY <2>8 DEF WriteExtended
  <2>9. CASE ReadExtended(h)
    BY <2>9 DEF ReadExtended
  <2>10. CASE LockEventLog(h)
    BY <2>10 DEF LockEventLog
  <2>11. CASE CleanEvents(h)
    BY <2>11 DEF CleanEvents
  <2>12. CASE Reply(h)
    BY <2>12 DEF Reply
  <2>13. QED
    BY <1>3, <2>1, <2>2, <2>3, <2>4, <2>5, <2>6, <2>7, <2>8, <2>9, <2>10, <2>11, <2>12
    DEF HandlerStep
<1>4. CASE UNCHANGED vars
  BY <1>4 DEF vars
<1>5. QED
  BY <1>1, <1>2, <1>3, <1>4 DEF Next

\* Every step keeps every copied version consistent.
LEMMA CopyStep == TypeOK /\ WriterInv /\ GuardInv /\ CopyInv /\ [Next]_vars => CopyInv'
<1> SUFFICES ASSUME TypeOK /\ WriterInv /\ GuardInv /\ CopyInv, [Next]_vars PROVE CopyInv'
  OBVIOUS
<1> USE HubAssumption DEF TypeOK, WriterInv, GuardInv, GuardsAt, CopyInv, Tree, ReadLockable
<1>1. CASE RefreshStep
  <2> USE DEF handlerVars
  <2>1. CASE RequestWrite
    BY <2>1 DEF RequestWrite
  <2>2. CASE AcquireWrite
    BY <2>2 DEF AcquireWrite
  <2>3. CASE UpdateOk
    BY <2>3 DEF UpdateOk
  <2>4. CASE UpdateFails
    BY <2>4 DEF UpdateFails
  <2>5. CASE LockActions
    BY <2>5 DEF LockActions
  <2>6. CASE RunActions
    BY <2>6 DEF RunActions
  <2>7. CASE LockEvents
    BY <2>7 DEF LockEvents
  <2>8. CASE UpdateViews
    BY <2>8 DEF UpdateViews
  <2>9. CASE FillQuicklook
    BY <2>9 DEF FillQuicklook
  <2>10. CASE ReleaseWrite
    BY <2>10 DEF ReleaseWrite
  <2>11. QED
    BY <1>1, <2>1, <2>2, <2>3, <2>4, <2>5, <2>6, <2>7, <2>8, <2>9, <2>10
    DEF RefreshStep
<1>2. ASSUME NEW h \in Handlers, Receive(h) PROVE CopyInv'
  BY <1>2 DEF Receive, refreshVars, Entry
<1>3. ASSUME NEW h \in Handlers, HandlerStep(h) PROVE CopyInv'
  <2> USE DEF refreshVars
  <2>1. CASE AcquireRead(h)
    BY <2>1 DEF AcquireRead
  <2>2. CASE CopyTree(h)
    BY <2>2 DEF CopyTree
  <2>3. CASE CopyPayloads(h)
    BY <2>3 DEF CopyPayloads
  <2>4. CASE AcquireHealth(h)
    BY <2>4 DEF AcquireHealth
  <2>5. CASE HealthValue(h)
    BY <2>5 DEF HealthValue
  <2>6. CASE FindProcess(h)
    BY <2>6 DEF FindProcess
  <2>7. CASE LockExtended(h)
    BY <2>7 DEF LockExtended
  <2>8. CASE WriteExtended(h)
    BY <2>8 DEF WriteExtended
  <2>9. CASE ReadExtended(h)
    BY <2>9 DEF ReadExtended
  <2>10. CASE LockEventLog(h)
    BY <2>10 DEF LockEventLog
  <2>11. CASE CleanEvents(h)
    BY <2>11 DEF CleanEvents
  <2>12. CASE Reply(h)
    BY <2>12 DEF Reply
  <2>13. QED
    BY <1>3, <2>1, <2>2, <2>3, <2>4, <2>5, <2>6, <2>7, <2>8, <2>9, <2>10, <2>11, <2>12
    DEF HandlerStep
<1>4. CASE UNCHANGED vars
  BY <1>4 DEF vars
<1>5. QED
  BY <1>1, <1>2, <1>3, <1>4 DEF Next

\* Every step keeps each mutex with the thread in its critical section.
LEMMA OwnerStep == TypeOK /\ WriterInv /\ OwnerInv /\ [Next]_vars => OwnerInv'
<1> SUFFICES ASSUME TypeOK /\ WriterInv /\ OwnerInv, [Next]_vars PROVE OwnerInv'
  OBVIOUS
<1> USE HubAssumption DEF TypeOK, WriterInv, OwnerInv, Mutexes
<1>1. CASE RefreshStep
  <2> USE DEF handlerVars
  <2>1. CASE RequestWrite
    BY <2>1 DEF RequestWrite
  <2>2. CASE AcquireWrite
    BY <2>2 DEF AcquireWrite
  <2>3. CASE UpdateOk
    BY <2>3 DEF UpdateOk
  <2>4. CASE UpdateFails
    BY <2>4 DEF UpdateFails
  <2>5. CASE LockActions
    BY <2>5 DEF LockActions
  <2>6. CASE RunActions
    BY <2>6 DEF RunActions
  <2>7. CASE LockEvents
    BY <2>7 DEF LockEvents
  <2>8. CASE UpdateViews
    BY <2>8 DEF UpdateViews
  <2>9. CASE FillQuicklook
    BY <2>9 DEF FillQuicklook
  <2>10. CASE ReleaseWrite
    BY <2>10 DEF ReleaseWrite
  <2>11. QED
    BY <1>1, <2>1, <2>2, <2>3, <2>4, <2>5, <2>6, <2>7, <2>8, <2>9, <2>10
    DEF RefreshStep
<1>2. ASSUME NEW h \in Handlers, Receive(h) PROVE OwnerInv'
  BY <1>2 DEF Receive, refreshVars, Entry
<1>3. ASSUME NEW h \in Handlers, HandlerStep(h) PROVE OwnerInv'
  <2> USE DEF refreshVars
  <2>1. CASE AcquireRead(h)
    BY <2>1 DEF AcquireRead
  <2>2. CASE CopyTree(h)
    BY <2>2 DEF CopyTree
  <2>3. CASE CopyPayloads(h)
    BY <2>3 DEF CopyPayloads
  <2>4. CASE AcquireHealth(h)
    BY <2>4 DEF AcquireHealth
  <2>5. CASE HealthValue(h)
    BY <2>5 DEF HealthValue
  <2>6. CASE FindProcess(h)
    BY <2>6 DEF FindProcess
  <2>7. CASE LockExtended(h)
    BY <2>7 DEF LockExtended
  <2>8. CASE WriteExtended(h)
    BY <2>8 DEF WriteExtended
  <2>9. CASE ReadExtended(h)
    BY <2>9 DEF ReadExtended
  <2>10. CASE LockEventLog(h)
    BY <2>10 DEF LockEventLog
  <2>11. CASE CleanEvents(h)
    BY <2>11 DEF CleanEvents
  <2>12. CASE Reply(h)
    BY <2>12 DEF Reply
  <2>13. QED
    BY <1>3, <2>1, <2>2, <2>3, <2>4, <2>5, <2>6, <2>7, <2>8, <2>9, <2>10, <2>11, <2>12
    DEF HandlerStep
<1>4. CASE UNCHANGED vars
  BY <1>4 DEF vars
<1>5. QED
  BY <1>1, <1>2, <1>3, <1>4 DEF Next
-----------------------------------------------------------------------------

\* The first state, before any tick and any request, is one.
LEMMA HubStarts == Init => HubInv
<1> SUFFICES ASSUME Init PROVE HubInv
  OBVIOUS
<1> USE HubAssumption DEF Init
<1>1. TypeOK
  BY DEF TypeOK, Trees, Readings, Versions, Tree, Mutexes, Plugins,
         RefreshSteps, HandlerSteps, RequestKinds
<1>2. CursorInv /\ WriterInv /\ OwnerInv
  BY DEF CursorInv, WriterInv, OwnerInv, Tree, Mutexes
<1>3. GuardInv /\ CopyInv
  BY DEF GuardInv, GuardsAt, CopyInv
<1>4. QED
  BY <1>1, <1>2, <1>3 DEF HubInv

\* The inductive invariant holds of every behaviour of the hub.
THEOREM HubInvariant == Spec => []HubInv
<1>1. Init => HubInv
  BY HubStarts
<1>2. HubInv /\ [Next]_vars => HubInv'
  BY TypeStep, CursorStep, WriterStep, GuardStep, CopyStep, OwnerStep DEF HubInv
<1>3. QED
  BY <1>1, <1>2, PTL DEF Spec

\* Type correctness: every variable keeps the values the code can give it,
\* and no handler ever holds more than two read guards.
THEOREM TypeCorrect == Spec => []TypeOK
<1>1. HubInv => TypeOK
  BY DEF HubInv
<1>2. QED
  BY <1>1, HubInvariant, PTL

\* No request ever copies the stats of one tick beside the quicklook summary
\* of another, whatever tick() is doing meanwhile.
THEOREM NoTornReads == Spec => []NoTornRead
<1>1. HubInv => NoTornRead
  BY DEF HubInv, CopyInv, NoTornRead
<1>2. QED
  BY <1>1, HubInvariant, PTL

\* The health rollup of a dashboard answer is of the tick of its payloads.
THEOREM DashboardsOfOneTick == Spec => []DashboardOfOneTick
<1>1. HubInv => DashboardOfOneTick
  BY DEF HubInv, CopyInv, DashboardOfOneTick
<1>2. QED
  BY <1>1, HubInvariant, PTL

\* Whoever holds a mutex waits for no other lock.
THEOREM LeafMutexes == Spec => []MutexesAreLeaves
<1>1. HubInv => MutexesAreLeaves
  BY HubAssumption
  DEF HubInv, TypeOK, OwnerInv, GuardInv, GuardsAt, MutexesAreLeaves, Mutexes
<1>2. QED
  BY <1>1, HubInvariant, PTL

\* Outside serve_dashboard, a handler that waits for a lock holds no guard.
THEOREM WaitersHoldNoGuard == Spec => []NoGuardWhileWaiting
<1>1. HubInv => NoGuardWhileWaiting
  BY DEF HubInv, GuardInv, GuardsAt, NoGuardWhileWaiting
<1>2. QED
  BY <1>1, HubInvariant, PTL

\* What is published before the first tick is consistent.
LEMMA StoreStarts == Init => Store!StoreInit
<1> SUFFICES ASSUME Init PROVE Store!StoreInit
  OBVIOUS
<1>1. stats \in Trees
  BY DEF Init, Trees, Readings
<1>2. published \in Versions /\ published.quicklook = published.stats
  BY <1>1 DEF Init, Tree, Versions
<1>3. QED
  BY <1>2 DEF Init, Store!StoreInit, Store!Consistent

\* Every step of the hub is a step of the store or none.
LEMMA StoreStep == HubInv /\ [Next]_vars => [Store!StoreNext]_(Store!storeVars)
<1> SUFFICES ASSUME HubInv, [Next]_vars
             PROVE [Store!StoreNext]_(Store!storeVars)
  OBVIOUS
<1> USE DEF Store!storeVars
<1>1. CASE ReleaseWrite
  <2>1. Tree \in Store!Consistent
    BY <1>1 DEF ReleaseWrite, HubInv, TypeOK, WriterInv, Tree, Versions,
                Store!Consistent
  <2>2. QED
    BY <1>1, <2>1 DEF ReleaseWrite, handlerVars, Store!StoreNext, Store!Publish
<1>2. CASE RefreshStep /\ ~ReleaseWrite
  BY <1>2 DEF RefreshStep, RequestWrite, AcquireWrite, UpdateOk, UpdateFails,
              LockActions, RunActions, LockEvents, UpdateViews, FillQuicklook,
              handlerVars
<1>3. ASSUME NEW h \in Handlers, CopyTree(h) \/ CopyPayloads(h)
      PROVE Store!StoreNext
  <2>1. published = Tree
    BY <1>3 DEF HubInv, WriterInv, GuardInv, GuardsAt, CopyTree, CopyPayloads
  <2>2. QED
    BY <1>3, <2>1
    DEF CopyTree, CopyPayloads, refreshVars, Store!StoreNext, Store!Read
<1>4. ASSUME NEW h \in Handlers, Reply(h) PROVE Store!StoreNext
  BY <1>4 DEF Reply, refreshVars, Store!StoreNext, Store!Forget
<1>5. ASSUME NEW h \in Handlers,
             \/ Receive(h) \/ AcquireRead(h) \/ AcquireHealth(h)
             \/ HealthValue(h) \/ FindProcess(h) \/ LockExtended(h)
             \/ WriteExtended(h) \/ ReadExtended(h) \/ LockEventLog(h)
             \/ CleanEvents(h)
      PROVE UNCHANGED Store!storeVars
  BY <1>5 DEF Receive, AcquireRead, AcquireHealth, HealthValue, FindProcess,
              LockExtended, WriteExtended, ReadExtended, LockEventLog,
              CleanEvents, refreshVars
<1>6. CASE UNCHANGED vars
  BY <1>6 DEF vars
<1>7. QED
  BY <1>1, <1>2, <1>3, <1>4, <1>5, <1>6 DEF Next, HandlerStep

\* The hub implements the abstract store: releasing the write lock publishes
\* a consistent tree, copying is reading what is published, answering is
\* forgetting it, and every other step changes neither.
THEOREM HubImplementsStore == Spec => ImplementsStore
<1>1. Init => Store!StoreInit
  BY StoreStarts
<1>2. HubInv /\ [Next]_vars => [Store!StoreNext]_(Store!storeVars)
  BY StoreStep
<1>3. QED
  BY <1>1, <1>2, HubInvariant, PTL DEF Spec, ImplementsStore, Store!StoreSpec

-----------------------------------------------------------------------------
(* The server: connections whose threads run the handlers of the hub.      *)

\* The socket the accept loop is at is where that loop has put it, and only a
\* thread that routes is in a handler.
RoutingInv ==
    /\ conn \in [Handlers -> C!ConnStates]
    /\ acceptor = "admitting" => taken \in Handlers /\ conn[taken] = "admitted"
    /\ acceptor = "counted" => taken \in Handlers /\ conn[taken] = "counted"
    /\ \A c \in Handlers : conn[c] # "routing" => pc[c] = "idle"

ServerInv == HubInv /\ RoutingInv

\* A thread that unwinds out of a handler drops what it holds.
LEMMA UnwindKeepsHub ==
    ASSUME HubInv, NEW c \in Handlers, Unwind(c)
    PROVE  HubInv'
<1> USE HubAssumption DEF Unwind, refreshVars, HubInv
<1>1. TypeOK'
  BY DEF TypeOK, HandlerSteps, RequestKinds
<1>2. CursorInv' /\ WriterInv'
  BY DEF CursorInv, WriterInv, Tree
<1>3. GuardInv'
  BY DEF TypeOK, GuardInv, GuardsAt
<1>4. CopyInv'
  BY DEF TypeOK, CopyInv, Tree
<1>5. OwnerInv'
  BY DEF TypeOK, OwnerInv
<1>6. QED
  BY <1>1, <1>2, <1>3, <1>4, <1>5

\* The steps of a handler are steps of the hub.
LEMMA HandlersAreHubs ==
    ASSUME NEW c \in Handlers, StartRoute(c) \/ Handle(c) \/ EndRoute(c)
    PROVE  Next
BY DEF StartRoute, Handle, EndRoute, Next, HandlerStep

\* Every step of the server keeps what holds of the hub.
LEMMA ServerKeepsHub == HubInv /\ [ServerNext]_serverVars => HubInv'
<1> SUFFICES ASSUME HubInv, [ServerNext]_serverVars PROVE HubInv'
  OBVIOUS
<1>1. ASSUME [Next]_vars PROVE HubInv'
  BY <1>1, TypeStep, CursorStep, WriterStep, GuardStep, CopyStep, OwnerStep DEF HubInv
<1>2. CASE Tick
  BY <1>1, <1>2 DEF Tick, Next
<1>3. CASE Accept
  BY <1>1, <1>3 DEF Accept
<1>4. ASSUME NEW c \in Handlers, Serve(c) \/ (C!Connect(c) /\ UNCHANGED vars) PROVE HubInv'
  BY <1>1, <1>4, HandlersAreHubs, UnwindKeepsHub DEF Serve
<1>5. CASE UNCHANGED serverVars
  BY <1>1, <1>5 DEF serverVars
<1>6. QED
  BY <1>2, <1>3, <1>4, <1>5 DEF ServerNext

\* Every step of the server keeps handlers to the threads that route.
LEMMA RoutingStep == HubInv /\ RoutingInv /\ [ServerNext]_serverVars => RoutingInv'
<1> SUFFICES ASSUME HubInv, RoutingInv, [ServerNext]_serverVars PROVE RoutingInv'
  OBVIOUS
<1>0. pc \in [Handlers -> HandlerSteps]
  BY DEF HubInv, TypeOK
<1> USE DEF RoutingInv, C!ConnStates
<1>1. CASE Tick
  BY <1>1, RefreshFrame DEF Tick, connVars, handlerVars
<1>2. CASE Accept
  <2>1. CASE C!CountIn
    BY <1>2, <2>1 DEF Accept, vars, C!CountIn
  <2>2. CASE C!Spawn
    BY <1>2, <2>2 DEF Accept, vars, C!Spawn
  <2>3. CASE C!SpawnPanics
    BY <1>2, <2>3 DEF Accept, vars, C!SpawnPanics
  <2>4. ASSUME NEW c \in Handlers, C!Admit(c) PROVE RoutingInv'
    BY <1>2, <2>4 DEF Accept, vars, C!Admit
  <2>5. ASSUME NEW c \in Handlers, C!Refuse(c) PROVE RoutingInv'
    BY <1>2, <2>5 DEF Accept, vars, C!Refuse
  <2>6. QED
    BY <1>2, <2>1, <2>2, <2>3, <2>4, <2>5 DEF Accept, C!AcceptStep
<1>3. ASSUME NEW c \in Handlers, C!Connect(c), UNCHANGED vars PROVE RoutingInv'
  BY <1>3 DEF vars, C!Connect
<1>4. ASSUME NEW c \in Handlers, Serve(c) PROVE RoutingInv'
  <2>1. CASE C!Read(c) /\ UNCHANGED vars
    BY <2>1 DEF vars, C!Read
  <2>2. CASE (C!StopReading(c) \/ C!Write(c) \/ C!Leave(c)) /\ UNCHANGED vars
    BY <2>2 DEF vars, C!StopReading, C!Write, C!Leave
  <2>3. CASE StartRoute(c)
    BY <1>0, <2>3 DEF StartRoute, Receive, connVars
  <2>4. CASE Handle(c)
    <3>1. pc[c] # "idle"
      BY <2>4 DEF Handle, HandlerStep, AcquireRead, CopyTree, CopyPayloads, AcquireHealth, HealthValue,
                  FindProcess, LockExtended, WriteExtended, ReadExtended, LockEventLog, CleanEvents, Reply
    <3>2. \A h \in Handlers \ {c} : pc'[h] = pc[h]
      BY <1>0, <2>4 DEF Handle, HandlerStep, AcquireRead, CopyTree, CopyPayloads, AcquireHealth, HealthValue,
                  FindProcess, LockExtended, WriteExtended, ReadExtended, LockEventLog, CleanEvents, Reply
    <3>3. QED
      BY <2>4, <3>1, <3>2 DEF Handle, connVars
  <2>5. CASE EndRoute(c)
    BY <1>0, <2>5 DEF EndRoute, Reply, C!Route
  <2>6. CASE Unwind(c)
    BY <1>0, <2>6 DEF Unwind, C!RoutePanics
  <2>7. QED
    BY <1>4, <2>1, <2>2, <2>3, <2>4, <2>5, <2>6 DEF Serve
<1>5. CASE UNCHANGED serverVars
  BY <1>5 DEF serverVars, connVars, vars
<1>6. QED
  BY <1>1, <1>2, <1>3, <1>4, <1>5 DEF ServerNext

\* The hub's invariant holds of the whole server, whose handlers may panic, and
\* only the threads that route are in a handler.
THEOREM ServerInvariant == ServerSpec => []ServerInv
<1>1. Init => HubInv
  BY HubStarts
<1>2. ServerInit => ServerInv
  BY <1>1 DEF ServerInit, ServerInv, RoutingInv, Init, C!Init, C!ConnStates
<1>3. ServerInv /\ [ServerNext]_serverVars => ServerInv'
  BY ServerKeepsHub, RoutingStep DEF ServerInv
<1>4. QED
  BY <1>2, <1>3, PTL DEF ServerSpec

\* A thread that talks to its client holds no lock of the hub (handle_conn reads
\* before route() and writes after it), and a panic in a handler leaves none held.
THEOREM NoLocksWhileTalking == ServerSpec => []NoLockWhileTalking
<1>1. ServerInv => NoLockWhileTalking
  BY HubAssumption DEF ServerInv, HubInv, TypeOK, GuardInv, GuardsAt, OwnerInv, RoutingInv, Mutexes, NoLockWhileTalking
<1>2. QED
  BY <1>1, ServerInvariant, PTL

\* With handlers that may panic still no request copies a torn tree, and no dashboard
\* is made of two ticks.
THEOREM ServedWhole == ServerSpec => [](NoTornRead /\ DashboardOfOneTick)
<1>1. ServerInv => NoTornRead /\ DashboardOfOneTick
  BY DEF ServerInv, HubInv, CopyInv, NoTornRead, DashboardOfOneTick
<1>2. QED
  BY <1>1, ServerInvariant, PTL

\* The server's connections are those of ConnServer: what the hub does to a request
\* is a step of the thread in route() or no step of the connection.
THEOREM ServerImplementsConnections == ServerSpec => C!Spec
<1>1. ServerInit => C!Init
  BY DEF ServerInit
<1>2. [ServerNext]_serverVars => [C!Next]_connVars
  <2> SUFFICES ASSUME [ServerNext]_serverVars PROVE [C!Next]_connVars
    OBVIOUS
  <2>1. CASE ServerNext
    <3>1. acceptor # "dead"
      BY <2>1 DEF ServerNext
    <3>2. CASE Tick
      BY <3>2 DEF Tick
    <3>3. CASE Accept
      BY <3>1, <3>3 DEF Accept, C!Next
    <3>4. ASSUME NEW c \in Handlers, C!Connect(c) PROVE C!Next
      BY <3>1, <3>4 DEF C!Next
    <3>5. ASSUME NEW c \in Handlers, Serve(c) PROVE [C!Next]_connVars
      BY <3>1, <3>5 DEF Serve, StartRoute, Handle, EndRoute, Unwind, C!Next, C!ThreadStep
    <3>6. QED
      BY <2>1, <3>2, <3>3, <3>4, <3>5 DEF ServerNext
  <2>2. CASE UNCHANGED serverVars
    BY <2>2 DEF serverVars
  <2>3. QED
    BY <2>1, <2>2
<1>3. QED
  BY <1>1, <1>2, PTL DEF ServerSpec, C!Spec, connVars, C!vars

\* The server implements the abstract store too: a thread that unwinds forgets what
\* it copied, and nothing it leaves behind is ever copied by another.
THEOREM ServerImplementsStore == ServerSpec => ImplementsStore
<1>1. ServerInit => Store!StoreInit
  BY StoreStarts DEF ServerInit
<1>2. ServerInv /\ [ServerNext]_serverVars => [Store!StoreNext]_(Store!storeVars)
  <2> SUFFICES ASSUME HubInv, [ServerNext]_serverVars PROVE [Store!StoreNext]_(Store!storeVars)
    BY DEF ServerInv
  <2>1. ASSUME [Next]_vars PROVE [Store!StoreNext]_(Store!storeVars)
    BY <2>1, StoreStep
  <2>2. CASE Tick \/ Accept \/ UNCHANGED serverVars
    BY <2>1, <2>2 DEF Tick, Accept, serverVars, Next
  <2>3. ASSUME NEW c \in Handlers, C!Connect(c), UNCHANGED vars PROVE [Store!StoreNext]_(Store!storeVars)
    BY <2>1, <2>3
  <2>4. ASSUME NEW c \in Handlers, Unwind(c) PROVE Store!StoreNext
    BY <2>4 DEF Unwind, refreshVars, Store!StoreNext, Store!Forget
  <2>5. ASSUME NEW c \in Handlers, Serve(c), ~Unwind(c) PROVE [Store!StoreNext]_(Store!storeVars)
    BY <2>1, <2>5, HandlersAreHubs DEF Serve
  <2>6. QED
    BY <2>2, <2>3, <2>4, <2>5 DEF ServerNext
<1>3. QED
  BY <1>1, <1>2, ServerInvariant, PTL DEF ServerSpec, ImplementsStore, Store!StoreSpec
=============================================================================
