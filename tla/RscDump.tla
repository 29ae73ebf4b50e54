------------------------------ MODULE RscDump ------------------------------
(***************************************************************************)
(* The resource dump conversation of rscdump.c in inline mode: one         *)
(* `mlx5ctl <dev> rscdump' collects a dump that the firmware hands out in  *)
(* chunks, one ACCESS_REG(RESOURCE_DUMP) command per chunk.                *)
(*                                                                         *)
(* A dump is a sequence of `len' chunks, named by their positions          *)
(* 0 .. len-1.  The firmware keeps nothing between two commands: the       *)
(* position it stopped at rides in the reply (index1, index2, num_of_obj1, *)
(* num_of_obj2 and device_opaque, here one `cursor'), together with a      *)
(* 4-bit sequence number and a more_dump flag, and the program echoes all  *)
(* of them in its next request.  A reply may be out of order at most       *)
(* MaxSkew times in a behaviour; MaxSkew = 0 is a firmware that always     *)
(* answers with the chunk it was asked for.                                *)
(*                                                                         *)
(* The payload of a chunk is its position; its size in bytes is any number *)
(* up to InlineMax (52 dwords in the code).                                *)
(***************************************************************************)
EXTENDS Integers, Sequences

CONSTANTS
  MaxLen,     \* the longest dump, in chunks
  InlineMax,  \* bytes of inline_data: 208 in the code
  InitSize,   \* bytes of the first malloc: 4069 in the code
  MaxSkew     \* how many replies may be out of order

ASSUME MaxLenAssumption == MaxLen \in Nat \ {0}
ASSUME SizesAssumption ==
  InlineMax \in Nat \ {0} /\ InitSize \in Nat /\ InlineMax <= InitSize
ASSUME MaxSkewAssumption == MaxSkew \in Nat

VARIABLES
  pc,        \* where mlx5_rsc_dump and rscdump_collect stand
  in,        \* the request: sequence number, cursor, more_dump
  out,       \* the last reply
  data,      \* the chunks in the data buffer, in the order they were copied
  total,     \* bytes in the data buffer
  size,      \* bytes allocated for it
  live,      \* the data buffer is allocated
  ret,       \* what rscdump_collect returned
  errors,    \* the kinds of error messages on stderr
  len,       \* external: how many chunks the dump asked for has
  numbered,  \* external: does this firmware number its replies?
  skews      \* external: replies that were out of order so far

device == <<len, numbered, skews>>
buffer == <<data, total, size, live>>
vars == <<pc, in, out, data, total, size, live, ret, errors, len, numbered, skews>>

(* seq_num is a field of four bits. *)
SeqMod == 16

Chunk == 0 .. MaxLen - 1
Request == [seq: 0 .. SeqMod - 1, cursor: 0 .. MaxLen, more: BOOLEAN]
Reply == [seq: 0 .. SeqMod - 1, chunk: Chunk, size: 0 .. InlineMax, more: BOOLEAN]
ErrorKinds == {"malloc", "access", "sequence", "realloc"}

(***************************************************************************)
(* The buffers on entry: in[] and out[] are zeroed, *total is 0.           *)
(***************************************************************************)
Init ==
  /\ pc = "call"
  /\ in = [seq |-> 0, cursor |-> 0, more |-> FALSE]
  /\ out = [seq |-> 0, chunk |-> 0, size |-> 0, more |-> FALSE]
  /\ data = <<>> /\ total = 0 /\ size = 0 /\ live = FALSE
  /\ ret = "none"
  /\ errors = {}
  /\ len \in 1 .. MaxLen
  /\ numbered \in BOOLEAN
  /\ skews = 0

Malloc ==
  /\ pc = "call"
  /\ pc' = "iter" /\ size' = InitSize /\ live' = TRUE
  /\ UNCHANGED <<in, out, data, total, ret, errors, device>>

MallocFails ==
  /\ pc = "call"
  /\ pc' = "returned" /\ ret' = "NULL"
  /\ errors' = errors \cup {"malloc"}
  /\ UNCHANGED <<in, out, buffer, device>>

(***************************************************************************)
(* The firmware's answer with chunk c, of n bytes, to the request in `in'. *)
(***************************************************************************)
ReplyWith(c, n) ==
  [seq   |-> IF numbered THEN (c + 1) % SeqMod ELSE 0,
   chunk |-> c,
   size  |-> n,
   more  |-> c + 1 < len]

Answers(c) ==
  \/ c = in.cursor /\ skews' = skews
  \/ c # in.cursor /\ skews < MaxSkew /\ skews' = skews + 1

(***************************************************************************)
(* mlx5_rsc_dump_iter: one command, then the sequence check.               *)
(***************************************************************************)
InSequenceStrict(r) == in.seq + 1 = r.seq  \* mutant: 0 is not let through
InSequenceUnchecked(r) == TRUE             \* mutant: the check is missing
InSequence(r) == r.seq = 0 \/ in.seq + 1 = r.seq

(* mutants: the program counts by itself; the cursor is lost *)
EchoCounts(r) ==
  IF r.more THEN [seq |-> in.seq + 1, cursor |-> r.chunk + 1, more |-> TRUE] ELSE in
EchoNumberOnly(r) == IF r.more THEN [in EXCEPT !.seq = r.seq, !.more = TRUE] ELSE in

(* cpy_out2in of every field that carries the position. *)
Echo(r) ==
  IF r.more THEN [seq |-> r.seq, cursor |-> r.chunk + 1, more |-> TRUE] ELSE in

(* mutants: the buffer is dropped whatever it holds; no message *)
GiveUpDrops(kind) ==
  /\ pc' = "returned" /\ ret' = "NULL"
  /\ errors' = errors \cup {kind}
  /\ UNCHANGED <<in, buffer>>
GiveUpSilently(kind) ==
  /\ pc' = "returned" /\ ret' = IF total # 0 THEN "data" ELSE "NULL"
  /\ UNCHANGED <<in, errors, buffer>>

(* `return *total ? data : NULL': the buffer is not freed when it is dropped. *)
GiveUp(kind) ==
  /\ pc' = "returned"
  /\ ret' = IF total # 0 THEN "data" ELSE "NULL"
  /\ errors' = errors \cup {kind}
  /\ UNCHANGED <<in, buffer>>

Accept(r) ==
  /\ InSequence(r)
  /\ in' = Echo(r)
  /\ pc' = "store"
  /\ UNCHANGED <<buffer, ret, errors>>

Iter ==
  /\ pc = "iter"
  /\ \E c \in 0 .. len - 1, n \in 0 .. InlineMax :
       LET r == ReplyWith(c, n) IN
       /\ Answers(c)
       /\ out' = r
       /\ Accept(r) \/ (~InSequence(r) /\ GiveUp("sequence"))
  /\ UNCHANGED <<len, numbered>>

(* mlx5_access_reg failed: no memory, ioctl error or a firmware status. *)
IterFails ==
  /\ pc = "iter"
  /\ GiveUp("access")
  /\ UNCHANGED <<out, device>>

(***************************************************************************)
(* Copy the chunk, doubling the buffer once if it does not fit.            *)
(***************************************************************************)
NoRoomLate == total > size  \* mutant: the chunk at hand is not counted
NoRoom == total + out.size > size

Grown == IF NoRoom THEN size * 2 ELSE size

Store ==
  /\ pc = "store"
  /\ size' = Grown
  /\ data' = Append(data, out.chunk)
  /\ total' = total + out.size
  /\ IF out.more THEN pc' = "iter" /\ ret' = ret
                 ELSE pc' = "returned" /\ ret' = "data"
  /\ UNCHANGED <<in, out, live, errors, device>>

ReallocFailsSilently ==  \* mutant: no message
  /\ pc = "store" /\ NoRoom
  /\ pc' = "returned" /\ ret' = "data"
  /\ UNCHANGED <<in, out, buffer, errors, device>>
ReallocFails ==
  /\ pc = "store" /\ NoRoom
  /\ pc' = "returned" /\ ret' = "data"
  /\ errors' = errors \cup {"realloc"}
  /\ UNCHANGED <<in, out, buffer, device>>

(***************************************************************************)
(* The rest of mlx5_rsc_dump: parse what was collected, then free it.      *)
(***************************************************************************)
FinishRetries ==  \* mutant: an empty collection is tried again
  /\ pc = "returned"
  /\ pc' = IF ret = "NULL" THEN "call" ELSE "done"
  /\ live' = IF ret = "NULL" THEN live ELSE FALSE
  /\ UNCHANGED <<in, out, data, total, size, ret, errors, device>>
Finish ==
  /\ pc = "returned"
  /\ pc' = "done"
  /\ live' = IF ret = "NULL" THEN live ELSE FALSE
  /\ UNCHANGED <<in, out, data, total, size, ret, errors, device>>

Next == Malloc \/ MallocFails \/ Iter \/ IterFails \/ Store \/ ReallocFails \/ Finish

Spec == Init /\ [][Next]_vars

(* The program is sequential and every ioctl returns: it keeps stepping. *)
FairSpec == Spec /\ WF_vars(Next)
-----------------------------------------------------------------------------
TypeOK ==
  /\ pc \in {"call", "iter", "store", "returned", "done"}
  /\ in \in Request
  /\ out \in Reply
  /\ data \in Seq(Chunk)
  /\ total \in Nat /\ size \in Nat /\ live \in BOOLEAN
  /\ ret \in {"none", "NULL", "data"}
  /\ errors \in SUBSET ErrorKinds
  /\ len \in 1 .. MaxLen
  /\ numbered \in BOOLEAN
  /\ skews \in 0 .. MaxSkew

(* The memcpy of rscdump_collect never runs past the buffer, although the   *)
(* code doubles the buffer only once per chunk: the bytes collected fit the *)
(* bytes allocated, and the chunk at hand fits after one doubling.          *)
CopyInBounds ==
  /\ total <= size
  /\ pc = "store" => live /\ total + out.size <= Grown

(* With a firmware that answers what it was asked, the buffer holds the     *)
(* chunks of the dump in order, none twice and none missing, and the next   *)
(* request asks for the one that follows.                                   *)
CollectedInOrder ==
  MaxSkew = 0 =>
    /\ \A i \in 1 .. Len(data) : data[i] = i - 1
    /\ pc = "iter" => in.cursor = Len(data)

(* The sequence check raises no false alarm, however often the 4-bit number *)
(* wraps and whether or not the firmware numbers its replies.               *)
NoFalseAlarm == MaxSkew = 0 => "sequence" \notin errors

(* The chunk collected before the i-th, -1 for the first. *)
Before(i) == IF i = 1 THEN -1 ELSE data[i - 1]

(* What the check lets through when replies are numbered: a chunk that is   *)
(* out of order is stored only if its sequence number is 0 or if it is off  *)
(* by a multiple of the sequence space.                                     *)
GapsOnlyAtWrap ==
  numbered =>
    \A i \in 1 .. Len(data) :
      \/ (data[i] + 1) % SeqMod = 0
      \/ (data[i] - Before(i) - 1) % SeqMod = 0

(* A dump that is cut short says so: if the run ends and printed no error,  *)
(* the last chunk of the dump was collected, and all of them when the       *)
(* firmware was in order.                                                   *)
LossIsReported ==
  pc = "done" /\ errors = {} =>
    /\ ret = "data" /\ data # <<>>
    /\ data[Len(data)] = len - 1
    /\ MaxSkew = 0 => Len(data) = len

(* The buffer is given back on every path but one: an iteration that fails  *)
(* before any byte was collected.                                           *)
LeaksOnlyWhenEmpty ==
  pc = "done" =>
    (live <=> total = 0 /\ errors \cap {"access", "sequence"} # {})

(* The conversation implements DumpStream, fairness included, when the      *)
(* firmware answers in order: chunks are delivered one by one, and a        *)
(* collection is complete exactly when it ends without an error.            *)
Status ==
  IF pc \notin {"returned", "done"} THEN "open"
  ELSE IF errors = {} THEN "complete" ELSE "cut"

Stream == INSTANCE DumpStream WITH got <- Len(data), status <- Status

ImplementsStream == Stream!FairSpec

(* Every dump ends when the firmware answers in order.                      *)
Terminates == <>(pc = "done")
=============================================================================
