---------------------------- MODULE SegmentWalk ----------------------------
(***************************************************************************)
(* parse_resource_dump of rscdump.c: the walk over the segments of a       *)
(* collected dump, driven by the length each segment header carries, and   *)
(* rscdump_collect_umem, which collects the dump in umem mode.             *)
(*                                                                         *)
(* A dump is an info and a command segment followed by the segments        *)
(* `segs', each with a type and a length in dwords that covers the         *)
(* structure of its type, as the firmware writes them.  What the walk is   *)
(* handed may be less: in inline mode the first `size' dwords of the dump  *)
(* (RscDump is the model of that collection, which can be cut short).  In  *)
(* umem mode the firmware writes each reply to the start of the umem and   *)
(* the program appends it to a temporary buffer of fixed size, of which    *)
(* the walk then looks at `size' dwords, `size' being that of the umem and *)
(* not of what was collected.  All lengths are in dwords.                  *)
(*                                                                         *)
(* Of a segment that was cut, the walk needs two things: its length, which *)
(* is in its first dword, and, of a menu, the number of records, which is  *)
(* in its second.  Behind the cut that number is whatever the memory of    *)
(* the buffer holds (Stray).                                               *)
(***************************************************************************)
EXTENDS Integers, Sequences, FiniteSets

CONSTANTS
  MaxSegs,   \* the most segments after the command segment
  Payloads,  \* payload lengths of resource segments
  Records,   \* numbers of records of menu segments
  Umems,     \* sizes of the umem
  Chunks,    \* lengths of a reply into the umem that do not fill it
  Stray,     \* numbers of records that memory nobody wrote may show
  TempDw     \* the temporary buffer: 2^18 dwords in the code

MaxRecords == 65535  \* of 16 bits

ASSUME MaxSegsAssumption == MaxSegs \in Nat
ASSUME LengthsAssumption == Payloads \subseteq Nat /\ Records \subseteq Nat
ASSUME StrayAssumption == Stray \subseteq 0 .. MaxRecords
ASSUME UmemAssumption == Umems \subseteq Nat \ {0} /\ Chunks \subseteq Nat \ {0} /\ TempDw \in Nat

VARIABLES
  pc,        \* in umem mode "malloc" and "collect", then "enter" and "walk";
             \* at the end "none" without a dump, "done" with one, "lost" in
             \* memory nobody wrote, "overrun" of the temporary buffer
  mode,      \* "inline" or "umem"
  segs,      \* the dump
  size,      \* what parse_resource_dump is told its length is
  total,     \* how much of the dump is in the buffer
  remain,    \* the room rscdump_collect_umem thinks is left in the umem
  failed,    \* a call failed during the collection
  off,       \* segment - data
  walked,    \* offsets of the segments parsed so far
  reach,     \* the first dword after all that were read
  overflow   \* "Segment overflow" was printed

collection == <<total, remain, failed>>
walk == <<off, walked, reach, overflow>>
vars == <<pc, mode, segs, size, total, remain, failed, off, walked, reach, overflow>>

(***************************************************************************)
(* The layout of mlx5_ifc.h.                                               *)
(***************************************************************************)
InfoDw == 4
CommandDw == 5
ResponseDw == InfoDw + CommandDw  \* MLX5_ST_SZ_BYTES(resource_dump_response)
TerminateDw == 1
NoticeDw == 12                    \* also an error segment
ReferenceDw == 5
MenuDw(n) == 2 + 13 * n           \* n records of 13 dwords
ResourceDw == 4                   \* without its payload

Segment ==
  {[type |-> "terminate", dw |-> TerminateDw], [type |-> "error", dw |-> NoticeDw],
   [type |-> "notice", dw |-> NoticeDw], [type |-> "reference", dw |-> ReferenceDw],
   [type |-> "other", dw |-> 1]}
  \cup {[type |-> "menu", dw |-> MenuDw(n)] : n \in Records}
  \cup {[type |-> "resource", dw |-> ResourceDw + n] : n \in Payloads}

(* Where the k-th segment of s starts. *)
StartOf(s, k) ==
  LET start[i \in 1 .. Len(s) + 1] ==
        IF i = 1 THEN ResponseDw ELSE start[i - 1] + s[i - 1].dw
  IN  start[k]

Full == StartOf(segs, Len(segs) + 1)

InitUnsized ==  \* mutant: a failed collection's -1 is passed for the size
  /\ segs \in UNION {[1 .. n -> Segment] : n \in 0 .. MaxSegs}
  /\ pc = "enter" /\ mode = "inline" /\ size = -1 /\ total = 0 /\ remain = 0
  /\ failed = TRUE
  /\ off = 0 /\ walked = <<>> /\ reach = 0 /\ overflow = FALSE
Init ==
  /\ segs \in UNION {[1 .. n -> Segment] : n \in 0 .. MaxSegs}
  /\ \/ /\ mode = "inline" /\ pc = "enter"
        /\ size \in 0 .. Full /\ total = size /\ remain = 0
     \/ /\ mode = "umem" /\ pc = "malloc"
        /\ size \in Umems /\ total = 0 /\ remain = size
  /\ failed = FALSE
  /\ off = 0 /\ walked = <<>> /\ reach = 0 /\ overflow = FALSE

(***************************************************************************)
(* rscdump_collect_umem.                                                   *)
(***************************************************************************)
Malloc ==
  /\ pc = "malloc"
  /\ pc' = "collect"
  /\ UNCHANGED <<mode, segs, size, collection, walk>>

MallocFails ==
  /\ pc = "malloc"
  /\ pc' = "none" /\ failed' = TRUE
  /\ UNCHANGED <<mode, segs, size, total, remain, walk>>

(* What a reply may add: it fills the umem, or ends the dump, or is short.  *)
LeastOf(a, b) == IF a <= b THEN a ELSE b
Fits == LeastOf(size, Full - total)
Reply == {Fits} \cup {n \in Chunks : n <= Fits}

(* The request is sent again with the size and the address of the first     *)
(* time while the firmware has more; `remain' is meant to end the loop.     *)
LessOrEqual(n) == IF n <= remain THEN remain - n ELSE remain  \* mutant: remain can reach 0
Less(n) == IF n < remain THEN remain - n ELSE remain

Iter(n) ==
  /\ pc = "collect"
  /\ remain' = Less(n)
  /\ IF total + n > TempDw
     THEN pc' = "overrun" /\ UNCHANGED total
     ELSE /\ total' = total + n
          /\ pc' = IF remain' = 0 \/ total' = Full THEN "enter" ELSE "collect"
  /\ UNCHANGED <<mode, segs, size, failed, walk>>

(* A failed call: what was collected so far is returned, if anything.       *)
IterFails ==
  /\ pc = "collect"
  /\ pc' = IF total > 0 THEN "enter" ELSE "none"
  /\ failed' = TRUE
  /\ UNCHANGED <<mode, segs, size, total, remain, walk>>

Collect == Malloc \/ MallocFails \/ (\E n \in Reply : Iter(n)) \/ IterFails

(* The info and command segments are printed before the size is looked at. *)
Enter ==
  /\ pc = "enter"
  /\ reach' = ResponseDw
  /\ IF size < ResponseDw + TerminateDw
     THEN pc' = "done" /\ off' = off
     ELSE pc' = "walk" /\ off' = ResponseDw
  /\ UNCHANGED <<mode, segs, size, collection, walked, overflow>>

(***************************************************************************)
(* parse_segment: what it reads of a segment, and whether the walk stops.  *)
(***************************************************************************)

(* How many dwords of segment s are read.  The number of records of a menu  *)
(* is that of its length only where it was written.                         *)
RecordsWritten == off + 1 < total
MenuReads(s) == IF RecordsWritten THEN {s.dw} ELSE {MenuDw(n) : n \in Stray}

ReadDwWholePayload(s) ==  \* mutant: a payload is taken to be as long as its segment
  CASE s.type \in {"terminate", "other"} -> {1}
    [] s.type \in {"error", "notice"} -> {NoticeDw}
    [] s.type = "reference" -> {ReferenceDw}
    [] s.type = "resource" -> {ResourceDw + s.dw}
    [] s.type = "menu" -> MenuReads(s)
ReadDwWholeString(s) ==  \* mutant: the 64 bytes of str[] are copied, not the 32 of the field
  CASE s.type \in {"terminate", "other"} -> {1}
    [] s.type \in {"error", "notice"} -> {NoticeDw + 8}
    [] s.type = "reference" -> {ReferenceDw}
    [] s.type = "resource" -> {s.dw}
    [] s.type = "menu" -> MenuReads(s)
ReadDw(s) ==
  CASE s.type \in {"terminate", "other"} -> {1}
    [] s.type \in {"error", "notice"} -> {NoticeDw}
    [] s.type = "reference" -> {ReferenceDw}
    [] s.type = "resource" -> {s.dw}
    [] s.type = "menu" -> MenuReads(s)

StopsAtTerminate(s) == s.type = "terminate"  \* mutant: an error segment is stepped over
Stops(s) == s.type \in {"terminate", "error"}

MaxOf(a, b) == IF a >= b THEN a ELSE b

ParseNoticeStays(k) ==  \* mutant: a notice is not stepped over
  LET s == segs[k]
      next == IF s.type = "notice" THEN off ELSE off + s.dw
  IN  /\ walked' = walked
      /\ \E d \in ReadDw(s) : reach' = MaxOf(reach, off + d)
      /\ IF Stops(s) THEN pc' = "done" /\ UNCHANGED <<off, overflow>>
         ELSE /\ off' = next
              /\ pc' = IF next >= size THEN "done" ELSE "walk"
              /\ overflow' = (next >= size)
ParseOneMore(k) ==  \* mutant: the end of the data is taken to be inside it
  LET s == segs[k]
      next == off + s.dw
  IN  /\ walked' = Append(walked, off)
      /\ \E d \in ReadDw(s) : reach' = MaxOf(reach, off + d)
      /\ IF Stops(s) THEN pc' = "done" /\ UNCHANGED <<off, overflow>>
         ELSE /\ off' = next
              /\ pc' = IF next > size THEN "done" ELSE "walk"
              /\ overflow' = (next > size)
Parse(k) ==
  LET s == segs[k]
      next == off + s.dw
  IN  /\ walked' = Append(walked, off)
      /\ \E d \in ReadDw(s) : reach' = MaxOf(reach, off + d)
      /\ IF Stops(s) THEN pc' = "done" /\ UNCHANGED <<off, overflow>>
         ELSE /\ off' = next
              /\ pc' = IF next >= size THEN "done" ELSE "walk"
              /\ overflow' = (next >= size)

Step ==
  /\ pc = "walk" /\ off < total
  /\ \E k \in 1 .. Len(segs) : off = StartOf(segs, k) /\ Parse(k)
  /\ UNCHANGED <<mode, segs, size, collection>>

(* A header is read where nothing was written: it can be anything. *)
GetLost ==
  /\ pc = "walk" /\ off >= total
  /\ pc' = "lost"
  /\ UNCHANGED <<mode, segs, size, collection, walk>>

Next == Collect \/ Enter \/ Step \/ GetLost

Spec == Init /\ [][Next]_vars

FairSpec == Spec /\ WF_vars(Next)
-----------------------------------------------------------------------------
TypeOK ==
  /\ pc \in {"malloc", "collect", "enter", "walk", "none", "done", "lost", "overrun"}
  /\ mode \in {"inline", "umem"}
  /\ segs \in Seq(Segment)
  /\ size \in Nat /\ total \in Nat /\ remain \in Nat /\ off \in Nat /\ reach \in Nat
  /\ walked \in Seq(Nat)
  /\ failed \in BOOLEAN /\ overflow \in BOOLEAN

(* The segments that end a dump. *)
Ends(s) == s.type = "terminate" \/ s.type = "error"

(* The segments a reader would expect to see, said without walking: those   *)
(* that start inside the size, as far as the first that ends the dump.      *)
Expected ==
  IF size < ResponseDw + TerminateDw THEN {}
  ELSE {k \in 1 .. Len(segs) :
          StartOf(segs, k) < size /\ \A j \in 1 .. k - 1 : ~Ends(segs[j])}

(* The walk parses exactly the segments expected, in order, and reports an  *)
(* overflow exactly when it walked and met no segment that ends the dump.   *)
WalksTheDump ==
  pc = "done" =>
    /\ Len(walked) = Cardinality(Expected)
    /\ \A i \in 1 .. Len(walked) : walked[i] = StartOf(segs, i)
    /\ overflow <=> Expected # {} /\ \A k \in Expected : ~Ends(segs[k])

(* In umem mode the loop ends with the dump or with a failure, never for    *)
(* what `remain' says although it is the size of a umem that is used over   *)
(* and over, and it overruns the temporary buffer only with a dump that is  *)
(* larger than that buffer.                                                 *)
CollectsTheWholeDump ==
  mode = "umem" =>
    /\ pc \in {"enter", "walk", "done", "lost"} /\ ~failed => total = Full
    /\ pc = "overrun" => Full > TempDw

(* A whole dump is parsed without reading past it, in either mode.          *)
WholeDumpReadInside == total = Full /\ pc # "lost" => reach <= Full

(* Of a dump that was cut short, only the segment at the cut is read past   *)
(* the cut; the cut falls inside it, or inside the two fixed segments that  *)
(* are read unseen.  No more is read than its header says, but for a menu   *)
(* that was cut right behind its header: of that one, as many records as    *)
(* the 16 bits behind the cut happen to say.                                *)
Kept == LeastOf(size, total)
CutBehindHeader(k) == segs[k].type = "menu" /\ total = StartOf(segs, k) + 1

OverreadAtTheCut ==
  reach > Kept /\ reach > ResponseDw =>
    \E k \in 1 .. Len(segs) :
      /\ StartOf(segs, k) = walked[Len(walked)]
      /\ StartOf(segs, k) < Kept /\ Kept < StartOf(segs, k + 1)
      /\ reach > StartOf(segs, k + 1) =>
           CutBehindHeader(k) /\ reach <= StartOf(segs, k) + MenuDw(MaxRecords)

(* The walk leaves what was written only in umem mode, and only when the    *)
(* umem is larger than what was collected and no terminate or error segment *)
(* was.                                                                     *)
LostOnlyUnterminated ==
  pc = "lost" =>
    /\ mode = "umem" /\ total < size
    /\ \A k \in 1 .. Len(segs) : StartOf(segs, k) < total => ~Ends(segs[k])

(* Every collection ends, and so does every walk over segments of non-zero  *)
(* length.                                                                  *)
WalkEnds == <>(pc \in {"none", "done", "lost", "overrun"})
=============================================================================
