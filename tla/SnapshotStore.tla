--------------------------- MODULE SnapshotStore ---------------------------
(***************************************************************************)
(* What the stats hub promises its readers, with no locks and no refresh   *)
(* thread: a store that is replaced by a whole tick at once, and requests  *)
(* that see one version of it.  A version pairs every plugin's stats with  *)
(* the quicklook summary computed from those same stats, so a consistent   *)
(* version is one whose summary is of its own stats.                       *)
(***************************************************************************)
CONSTANTS Handlers,  \* the connection threads
          Versions,  \* versions of the plugin tree: [stats, quicklook]
          None       \* "this request has copied nothing yet"

VARIABLES store,  \* the version a reader copies
          seen    \* seen[h]: what h's current request copied, or None

storeVars == <<store, seen>>

Consistent == {v \in Versions : v.quicklook = v.stats}

StoreInit ==
    /\ store \in Consistent
    /\ seen = [h \in Handlers |-> None]

\* One tick, seen by readers as a single replacement of the whole tree.
Publish ==
    /\ store' \in Consistent
    /\ UNCHANGED seen

\* A request copies the current version.
Read(h) ==
    /\ seen' = [seen EXCEPT ![h] = store]
    /\ UNCHANGED store

\* The request is answered.
Forget(h) ==
    /\ seen' = [seen EXCEPT ![h] = None]
    /\ UNCHANGED store

StoreNext == Publish \/ \E h \in Handlers : Read(h) \/ Forget(h)

StoreSpec == StoreInit /\ [][StoreNext]_storeVars
=============================================================================
