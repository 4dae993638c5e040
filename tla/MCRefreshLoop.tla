--------------------------- MODULE MCRefreshLoop ---------------------------
(* RefreshLoop on small instances. *)
EXTENDS RefreshLoop

Forward == {5}
Backward == {-20}
=============================================================================
