----------------------------- MODULE MCRscDump -----------------------------
(* RscDump for TLC.  Dumps of up to 18 chunks wrap the 4-bit sequence      *)
(* number; a buffer of 3 bytes and chunks of up to 2 make it grow several  *)
(* times.                                                                  *)
EXTENDS RscDump
=============================================================================
