------------------------------ MODULE StatsHub ------------------------------
(***************************************************************************)
(* GlancesStats shared between the refresh thread and the connection       *)
(* threads (core/stats.rs, outputs/web/{router,meta,health,mutate}.rs,     *)
(* outputs/mcp/mod.rs).  The plugin list is behind an RwLock whose only    *)
(* writer, once the server runs, is the refresh thread; the event log, the *)
(* action runner and the pinned pid are each behind a Mutex.               *)
(*                                                                         *)
(* A plugin is its position in registration order, and its stats are       *)
(* abstracted to the set of items it lists (for processlist: the pids).    *)
(* No plugin overrides is_enabled, so every registered plugin is updated.  *)
(* What the events and actions mutexes protect is modelled in AlertTick.   *)
(***************************************************************************)
EXTENDS Naturals

CONSTANTS
    Handlers,   \* connection threads
    NPlugins,   \* number of registered plugins
    ProcList,   \* position of processlist
    Items,      \* what a plugin can list
    Requests,   \* the kinds of request clients send
    None        \* absence: no owner, no pid, nothing copied

RequestKinds ==
    {"ping", "values", "dashboard", "find", "pin", "pinned", "unpin", "clear"}

Plugins == 1..NPlugins
Refresh == "refresh"
Mutexes == {"events", "actions", "extended"}

ASSUME HubAssumption ==
    /\ NPlugins \in Nat
    /\ ProcList \in Plugins
    /\ Requests \subseteq RequestKinds
    /\ None \notin Items
    /\ None \notin Handlers
    /\ Refresh \notin Handlers \cup {None}

Readings == SUBSET Items
Trees == [Plugins -> Readings]
Versions == [stats : Trees, quicklook : Trees]

VARIABLES
    stats,      \* stats[p]: p.stats() of the plugin at position p
    quicklook,  \* the sibling readings the quicklook summary was made of
    published,  \* history variable: the tree when the write lock was last free
    writer,     \* the refresh thread at the RwLock: idle, waiting, holding
    step,       \* where the refresh thread is in tick()
    cursor,     \* the plugin tick() is at
    guards,     \* guards[h]: read guards h holds
    owner,      \* owner[m]: who holds mutex m
    extended,   \* the pinned pid, or None
    pc,         \* where each connection thread is in its handler
    req,        \* the request it is serving
    pid,        \* the pid that request is about
    view,       \* the version of the tree it copied
    health      \* the stats its health rollup was made of

refreshVars == <<stats, quicklook, published, writer, step, cursor>>
handlerVars == <<guards, extended, pc, req, pid, view, health>>
vars == <<stats, quicklook, published, writer, step, cursor, guards, owner,
          extended, pc, req, pid, view, health>>

Tree == [stats |-> stats, quicklook |-> quicklook]

Init ==
    /\ stats = [p \in Plugins |-> {}]
    /\ quicklook = stats
    /\ published = Tree
    /\ writer = "idle"
    /\ step = "sleep"
    /\ cursor = 1
    /\ guards = [h \in Handlers |-> 0]
    /\ owner = [m \in Mutexes |-> None]
    /\ extended = None
    /\ pc = [h \in Handlers |-> "idle"]
    /\ req = [h \in Handlers |-> "ping"]
    /\ pid = [h \in Handlers |-> None]
    /\ view = [h \in Handlers |-> None]
    /\ health = [h \in Handlers |-> None]

-----------------------------------------------------------------------------
(* The refresh thread: GlancesStats::tick.                                 *)

\* plugins.write(): from here on the lock admits no new reader.
RequestWrite ==
    /\ step = "sleep"
    /\ writer = "idle"
    /\ writer' = "waiting"
    /\ UNCHANGED <<stats, quicklook, published, step, cursor, owner>>
    /\ UNCHANGED handlerVars

\* The write guard is granted once the last reader is gone.
AcquireWrite ==
    /\ writer = "waiting"
    /\ \A h \in Handlers : guards[h] = 0
    /\ writer' = "holding"
    /\ step' = "update"
    /\ cursor' = 1
    /\ UNCHANGED <<stats, quicklook, published, owner>>
    /\ UNCHANGED handlerVars

\* update() returns Ok: its new stats go through after_update.
UpdateOk ==
    /\ step = "update"
    /\ cursor \in Plugins
    /\ \E r \in Readings : stats' = [stats EXCEPT ![cursor] = r]
    /\ step' = "actions"
    /\ UNCHANGED <<quicklook, published, writer, cursor, owner>>
    /\ UNCHANGED handlerVars

\* Fault form: an error leaves tick() on the spot (update()?).
UpdateFailsReturns ==
    /\ step = "update"
    /\ cursor \in Plugins
    /\ \E r \in Readings : stats' = [stats EXCEPT ![cursor] = r]
    /\ step' = "filled"
    /\ UNCHANGED <<quicklook, published, writer, cursor, owner>>
    /\ UNCHANGED handlerVars

\* update() returns Err or panics: the loop goes on to the next plugin.
\* Nothing rolls back what the plugin had already stored.
UpdateFails ==
    /\ step = "update"
    /\ cursor \in Plugins
    /\ \E r \in Readings : stats' = [stats EXCEPT ![cursor] = r]
    /\ cursor' = cursor + 1
    /\ UNCHANGED <<quicklook, published, writer, step, owner>>
    /\ UNCHANGED handlerVars

\* after_update, first part: history, then the actions mutex.
LockActions ==
    /\ step = "actions"
    /\ owner["actions"] = None
    /\ owner' = [owner EXCEPT !["actions"] = Refresh]
    /\ step' = "acting"
    /\ UNCHANGED <<stats, quicklook, published, writer, cursor>>
    /\ UNCHANGED handlerVars

\* run_plugin_actions has returned or panicked inside its guard.
RunActions ==
    /\ step = "acting"
    /\ owner' = [owner EXCEPT !["actions"] = None]
    /\ step' = "events"
    /\ UNCHANGED <<stats, quicklook, published, writer, cursor>>
    /\ UNCHANGED handlerVars

\* after_update, second part: the events mutex.
LockEvents ==
    /\ step = "events"
    /\ owner["events"] = None
    /\ owner' = [owner EXCEPT !["events"] = Refresh]
    /\ step' = "views"
    /\ UNCHANGED <<stats, quicklook, published, writer, cursor>>
    /\ UNCHANGED handlerVars

\* update_views has returned or panicked inside its guard.
UpdateViews ==
    /\ step = "views"
    /\ owner' = [owner EXCEPT !["events"] = None]
    /\ step' = "update"
    /\ cursor' = cursor + 1
    /\ UNCHANGED <<stats, quicklook, published, writer>>
    /\ UNCHANGED handlerVars

\* fill_quicklook runs after every update, still under the write lock.
FillQuicklook ==
    /\ step = "update"
    /\ cursor = NPlugins + 1
    /\ quicklook' = stats
    /\ step' = "filled"
    /\ UNCHANGED <<stats, published, writer, cursor, owner>>
    /\ UNCHANGED handlerVars

\* tick() returns and drops the write guard; the thread goes to sleep.
ReleaseWrite ==
    /\ step = "filled"
    /\ writer' = "idle"
    /\ step' = "sleep"
    /\ published' = Tree
    /\ UNCHANGED <<stats, quicklook, cursor, owner>>
    /\ UNCHANGED handlerVars

RefreshStep ==
    \/ RequestWrite \/ AcquireWrite
    \/ UpdateOk \/ UpdateFails
    \/ LockActions \/ RunActions \/ LockEvents \/ UpdateViews
    \/ FillQuicklook \/ ReleaseWrite

-----------------------------------------------------------------------------
(* A connection thread: one request through router::route.                 *)

\* The lock each handler asks for first.
Entry(r) ==
    IF r = "ping" THEN "reply"
    ELSE IF r = "clear" THEN "wantEvents"
    ELSE IF r \in {"pinned", "unpin"} THEN "wantExtended"
    ELSE "wantRead"

Receive(h) ==
    /\ pc[h] = "idle"
    /\ \E r \in Requests, i \in Items :
           /\ req' = [req EXCEPT ![h] = r]
           /\ pid' = [pid EXCEPT ![h] = i]
           /\ pc' = [pc EXCEPT ![h] = Entry(r)]
    /\ UNCHANGED <<guards, owner, extended, view, health>>
    /\ UNCHANGED refreshVars

\* Fault form: a lock that prefers readers.
ReadLockableReadersFirst == writer # "holding"

\* The std RwLock turns readers away while a writer holds it or waits for
\* it, whether or not the reader already holds a guard.
ReadLockable == writer = "idle"

AcquireRead(h) ==
    /\ pc[h] = "wantRead"
    /\ ReadLockable
    /\ guards' = [guards EXCEPT ![h] = @ + 1]
    /\ pc' = [pc EXCEPT ![h] = "read"]
    /\ UNCHANGED <<owner, extended, req, pid, view, health>>
    /\ UNCHANGED refreshVars

\* One guard, one copy of the tree, guard dropped: /all, /<plugin>, /health,
\* the meta exports, the MCP snapshot.
CopyTree(h) ==
    /\ pc[h] = "read"
    /\ req[h] = "values"
    /\ view' = [view EXCEPT ![h] = Tree]
    /\ guards' = [guards EXCEPT ![h] = @ - 1]
    /\ pc' = [pc EXCEPT ![h] = "reply"]
    /\ UNCHANGED <<owner, extended, req, pid, health>>
    /\ UNCHANGED refreshVars

\* Fault form: the payloads are copied in a block of their own.
CopyPayloadsDropsGuard(h) ==
    /\ pc[h] = "read"
    /\ req[h] = "dashboard"
    /\ view' = [view EXCEPT ![h] = Tree]
    /\ guards' = [guards EXCEPT ![h] = @ - 1]
    /\ pc' = [pc EXCEPT ![h] = "wantHealth"]
    /\ UNCHANGED <<owner, extended, req, pid, health>>
    /\ UNCHANGED refreshVars

\* serve_dashboard copies its payloads and keeps the guard...
CopyPayloads(h) ==
    /\ pc[h] = "read"
    /\ req[h] = "dashboard"
    /\ view' = [view EXCEPT ![h] = Tree]
    /\ pc' = [pc EXCEPT ![h] = "wantHealth"]
    /\ UNCHANGED <<guards, owner, extended, req, pid, health>>
    /\ UNCHANGED refreshVars

\* ...while health_value asks for a second one on the same thread.
AcquireHealth(h) ==
    /\ pc[h] = "wantHealth"
    /\ ReadLockable
    /\ guards' = [guards EXCEPT ![h] = @ + 1]
    /\ pc' = [pc EXCEPT ![h] = "health"]
    /\ UNCHANGED <<owner, extended, req, pid, view, health>>
    /\ UNCHANGED refreshVars

\* The rollup is computed, and both guards go out of scope.
HealthValue(h) ==
    /\ pc[h] = "health"
    /\ health' = [health EXCEPT ![h] = stats]
    /\ guards' = [guards EXCEPT ![h] = 0]
    /\ pc' = [pc EXCEPT ![h] = "reply"]
    /\ UNCHANGED <<owner, extended, req, pid, view>>
    /\ UNCHANGED refreshVars

\* find_process clones the entry and drops its guard; only a pin of a pid
\* that is listed goes on.
FindProcess(h) ==
    /\ pc[h] = "read"
    /\ req[h] \in {"find", "pin", "pinned"}
    /\ guards' = [guards EXCEPT ![h] = @ - 1]
    /\ pc' = [pc EXCEPT ![h] =
                 IF req[h] = "pin" /\ pid[h] \in stats[ProcList]
                 THEN "wantExtended" ELSE "reply"]
    /\ UNCHANGED <<owner, extended, req, pid, view, health>>
    /\ UNCHANGED refreshVars

LockExtended(h) ==
    /\ pc[h] = "wantExtended"
    /\ owner["extended"] = None
    /\ owner' = [owner EXCEPT !["extended"] = h]
    /\ pc' = [pc EXCEPT ![h] = "extended"]
    /\ UNCHANGED <<guards, extended, req, pid, view, health>>
    /\ UNCHANGED refreshVars

\* *ext = Some(pid) or *ext = None under the mutex, which is then dropped.
WriteExtended(h) ==
    /\ pc[h] = "extended"
    /\ req[h] \in {"pin", "unpin"}
    /\ extended' = IF req[h] = "pin" THEN pid[h] ELSE None
    /\ owner' = [owner EXCEPT !["extended"] = None]
    /\ pc' = [pc EXCEPT ![h] = "reply"]
    /\ UNCHANGED <<guards, req, pid, view, health>>
    /\ UNCHANGED refreshVars

\* Fault form: the mutex guard lives on while the process is looked up.
ReadExtendedKeepsMutex(h) ==
    /\ pc[h] = "extended"
    /\ req[h] = "pinned"
    /\ pid' = [pid EXCEPT ![h] = extended]
    /\ pc' = [pc EXCEPT ![h] = IF extended = None THEN "reply" ELSE "wantRead"]
    /\ UNCHANGED <<guards, owner, extended, req, view, health>>
    /\ UNCHANGED refreshVars

\* serve_extended_process copies the pid out, drops the mutex, and only
\* then looks the process up.
ReadExtended(h) ==
    /\ pc[h] = "extended"
    /\ req[h] = "pinned"
    /\ pid' = [pid EXCEPT ![h] = extended]
    /\ owner' = [owner EXCEPT !["extended"] = None]
    /\ pc' = [pc EXCEPT ![h] = IF extended = None THEN "reply" ELSE "wantRead"]
    /\ UNCHANGED <<guards, extended, req, view, health>>
    /\ UNCHANGED refreshVars

LockEventLog(h) ==
    /\ pc[h] = "wantEvents"
    /\ owner["events"] = None
    /\ owner' = [owner EXCEPT !["events"] = h]
    /\ pc' = [pc EXCEPT ![h] = "events"]
    /\ UNCHANGED <<guards, extended, req, pid, view, health>>
    /\ UNCHANGED refreshVars

CleanEvents(h) ==
    /\ pc[h] = "events"
    /\ owner' = [owner EXCEPT !["events"] = None]
    /\ pc' = [pc EXCEPT ![h] = "reply"]
    /\ UNCHANGED <<guards, extended, req, pid, view, health>>
    /\ UNCHANGED refreshVars

\* The response is written and the thread ends; h stands for a new one.
Reply(h) ==
    /\ pc[h] = "reply"
    /\ pc' = [pc EXCEPT ![h] = "idle"]
    /\ pid' = [pid EXCEPT ![h] = None]
    /\ view' = [view EXCEPT ![h] = None]
    /\ health' = [health EXCEPT ![h] = None]
    /\ req' = [req EXCEPT ![h] = "ping"]
    /\ UNCHANGED <<guards, owner, extended>>
    /\ UNCHANGED refreshVars

HandlerStep(h) ==
    \/ AcquireRead(h) \/ CopyTree(h)
    \/ CopyPayloads(h) \/ AcquireHealth(h) \/ HealthValue(h)
    \/ FindProcess(h)
    \/ LockExtended(h) \/ WriteExtended(h) \/ ReadExtended(h)
    \/ LockEventLog(h) \/ CleanEvents(h)
    \/ Reply(h)

Next == RefreshStep \/ \E h \in Handlers : Receive(h) \/ HandlerStep(h)

Spec == Init /\ [][Next]_vars

\* The scheduler runs every thread (WF), and a thread that finds a lock free
\* again and again gets it in the end (SF): the std locks promise no queue,
\* but each is held for a bounded time and the refresh thread sleeps between
\* ticks.  Plugin updates and alert commands are assumed to return.
Fairness ==
    /\ WF_vars(RefreshStep)
    /\ SF_vars(LockEvents)
    /\ \A h \in Handlers :
           /\ WF_vars(HandlerStep(h))
           /\ SF_vars(AcquireRead(h) \/ LockExtended(h) \/ LockEventLog(h))

FairSpec == Spec /\ Fairness

-----------------------------------------------------------------------------
(* Properties.                                                             *)

RefreshSteps ==
    {"sleep", "update", "actions", "acting", "events", "views", "filled"}
HandlerSteps ==
    {"idle", "wantRead", "read", "wantHealth", "health", "wantExtended",
     "extended", "wantEvents", "events", "reply"}

\* Every variable has the values the code can give it; in particular no
\* handler ever holds more than the dashboard's two read guards.
TypeOK ==
    /\ stats \in Trees
    /\ quicklook \in Trees
    /\ published \in Versions
    /\ writer \in {"idle", "waiting", "holding"}
    /\ step \in RefreshSteps
    /\ cursor \in 1..NPlugins + 1
    /\ guards \in [Handlers -> 0..2]
    /\ owner \in [Mutexes -> Handlers \cup {Refresh, None}]
    /\ extended \in Items \cup {None}
    /\ pc \in [Handlers -> HandlerSteps]
    /\ req \in [Handlers -> RequestKinds]
    /\ pid \in [Handlers -> Items \cup {None}]
    /\ view \in [Handlers -> Versions \cup {None}]
    /\ health \in [Handlers -> Trees \cup {None}]

\* What tick() does to the tree is invisible until it is done: no request
\* copies stats of one tick beside a quicklook summary of another
\* ("no half-filled reads", core/stats.rs:117).
NoTornRead ==
    \A h \in Handlers : view[h] # None => view[h].quicklook = view[h].stats

\* The health rollup embedded in a dashboard answer is computed from the very
\* tick its payloads come from: serve_dashboard keeps its guard for that.
DashboardOfOneTick ==
    \A h \in Handlers : health[h] # None => health[h] = view[h].stats

\* The mutexes are leaves of the lock order: whoever holds one is not waiting
\* for any other lock, and the refresh thread holds at most one at a time.
\* This is what keeps the pin, unpin, clear and extended handlers out of any
\* cycle with a tick that holds the write lock.
MutexesAreLeaves ==
    /\ \A m \in Mutexes, h \in Handlers :
           owner[m] = h => pc[h] \in {"extended", "events"} /\ guards[h] = 0
    /\ \A m \in Mutexes :
           owner[m] = Refresh => step = IF m = "actions" THEN "acting" ELSE "views"

\* Except in serve_dashboard, a handler asks for a lock only when it holds no
\* read guard, so nothing it waits for can be waiting for it.
NoGuardWhileWaiting ==
    \A h \in Handlers :
        pc[h] \in {"wantRead", "wantExtended", "wantEvents"} => guards[h] = 0

\* A tick that has asked for the lock ends: the refresh thread is not starved
\* by readers and not stuck behind one.
TickEnds == writer = "waiting" ~> writer = "idle"

\* The hub implements the abstract store: a tick is one replacement of the
\* tree, and what a request copied is the version it was answered with.
Store == INSTANCE SnapshotStore WITH store <- published, seen <- view
ImplementsStore == Store!StoreSpec
=============================================================================
