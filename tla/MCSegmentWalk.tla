--------------------------- MODULE MCSegmentWalk ---------------------------
(* SegmentWalk for TLC: every dump of up to three segments, of every type  *)
(* and two lengths, cut at every dword in inline mode; in umem mode with a *)
(* umem smaller than the fixed segments, one smaller than most dumps and   *)
(* one larger than all, and a temporary buffer that some overrun.          *)
EXTENDS SegmentWalk
=============================================================================
