----------------------------- MODULE MCStatsHub -----------------------------
(***************************************************************************)
(* StatsHub on a small instance.  Connection threads are interchangeable.  *)
(***************************************************************************)
EXTENDS StatsHub, TLC

HandlerSymmetry == Permutations(Handlers)

AllRequests == RequestKinds

NoDashboard == RequestKinds \ {"dashboard"}
=============================================================================
