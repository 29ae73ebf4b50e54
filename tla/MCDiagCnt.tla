----------------------------- MODULE MCDiagCnt -----------------------------
(* DiagCnt for TLC: a few argument strings and line counts.                *)
EXTENDS DiagCnt
CONSTANTS p1, p2

(* Flag arguments: valid flags, on_demand, a letter that is no flag.       *)
MCFlagStrings == {{"-", "c", "S", "s", "r"}, {"-", "o"}, {"x"}}

(* An absent list, one of two counters, lists with a counter of 17 bits    *)
(* and with empty items at the front, inside and at the end, and only such. *)
MCLists == {<<>>, <<2, 1>>, <<65537, Empty>>, <<Empty, 1, Empty, Empty, 2>>, <<Empty>>}

(* Line counts around the ends of 16 bits, and inside the configuration.   *)
MCCounts == {-5, 1, 4094, 4095, 16375, 16376}
=============================================================================
