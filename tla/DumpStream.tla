----------------------------- MODULE DumpStream -----------------------------
(***************************************************************************)
(* What collecting a resource dump promises its user, whatever the         *)
(* conversation behind it: the chunks of the dump are delivered in order,  *)
(* and the collection ends either "complete", with all of them, or "cut",  *)
(* with an error message and the chunks delivered so far.                  *)
(***************************************************************************)
EXTENDS Integers

CONSTANT MaxLen  \* the longest dump, in chunks

VARIABLES
  len,      \* how many chunks the dump has
  got,      \* how many of them were delivered
  status    \* "open", "complete" or "cut"

vars == <<len, got, status>>

Init ==
  /\ len \in 1 .. MaxLen
  /\ got = 0
  /\ status = "open"

Deliver ==
  /\ status = "open" /\ got < len
  /\ got' = got + 1
  /\ status' = IF got' = len THEN "complete" ELSE "open"
  /\ UNCHANGED len

Cut ==
  /\ status = "open"
  /\ status' = "cut"
  /\ UNCHANGED <<len, got>>

Next == Deliver \/ Cut

Spec == Init /\ [][Next]_vars

FairSpec == Spec /\ WF_vars(Next)
=============================================================================
