------------------------------ MODULE MCAccess ------------------------------
(* Access on a small instance. *)
EXTENDS Access, TLC

\* The open paths with nothing; data with nothing, a key, and each login, that of
\* a name whose line reads as a comment beside a key.
Askers ==
    {[path |-> p, basic |-> Unset, key |-> Unset] : p \in Paths}
    \cup {[path |-> "data", basic |-> l, key |-> Unset] : l \in (Users \ Commented) \X Secrets}
    \cup {[path |-> "data", basic |-> b, key |-> x] : b \in {Unset} \cup Commented \X Secrets, x \in Keys}

AccessSymmetry == Permutations(Threads) \cup Permutations(Secrets)
=============================================================================
