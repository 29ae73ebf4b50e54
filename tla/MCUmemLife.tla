----------------------------- MODULE MCUmemLife -----------------------------
(* UmemLife for TLC: processes that compete for small pools of objects.    *)
EXTENDS UmemLife
CONSTANTS p1, p2
=============================================================================
