----------------------------- MODULE MCMessages -----------------------------
EXTENDS Messages

(* 0, 0x12, 0x1000000 (a number of 25 bits) with 5 in it, and all ones.    *)
NumbersMC == {{}, {1, 4}, {0, 2, 24}, 0 .. 31}
ModesMC == {{}, {0} \cup 15 .. 20}
ContentsMC == {1}
=============================================================================
