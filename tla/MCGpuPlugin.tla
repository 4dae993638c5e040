----------------------------- MODULE MCGpuPlugin -----------------------------
(* GpuPlugin on a small instance. *)
EXTENDS GpuPlugin

TwoOpen == {1, 2}
OneNvidia == {3}
=============================================================================
