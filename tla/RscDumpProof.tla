---------------------------- MODULE RscDumpProof ----------------------------
(***************************************************************************)
(* Proofs about RscDump, for dumps of any length, any sizes of the inline  *)
(* data and of the first buffer, and any number of replies out of order.   *)
(*                                                                         *)
(* None of the invariants of RscDump is inductive on its own: what keeps   *)
(* the chunks in order is that the position echoed in the next request     *)
(* follows the last chunk stored, which between Iter and Store is carried  *)
(* by the reply.  IInv adds that link (Linked), the space that is always   *)
(* there for one more chunk after one doubling (Roomy), and how the result *)
(* of the collection follows from its error messages (Outcome).            *)
(***************************************************************************)
EXTENDS RscDump, TLAPS

Busy == pc \in {"call", "iter", "store"}

Last == IF data = <<>> THEN -1 ELSE data[Len(data)]

SeqAfter(c) == IF numbered THEN (c + 1) % SeqMod ELSE 0

Roomy ==
  /\ total <= size
  /\ pc = "call" => ~live /\ data = <<>> /\ total = 0
  /\ pc \in {"iter", "store"} => live /\ InlineMax <= size

Linked ==
  /\ pc \in {"call", "iter"} =>
       /\ in.cursor = Last + 1
       /\ in.cursor < len
       /\ in.seq = SeqAfter(Last)
  /\ pc = "store" =>
       /\ out.chunk < len
       /\ out.seq = SeqAfter(out.chunk)
       /\ out.more <=> out.chunk + 1 < len
       /\ out.more => in.cursor = out.chunk + 1 /\ in.seq = out.seq
       /\ MaxSkew = 0 => out.chunk = Last + 1
       /\ numbered => \/ (out.chunk + 1) % SeqMod = 0
                      \/ (out.chunk - Last - 1) % SeqMod = 0

Ordered == MaxSkew = 0 => \A i \in 1 .. Len(data) : data[i] = i - 1

Outcome ==
  /\ Busy => ret = "none" /\ errors = {}
  /\ ~Busy =>
       /\ ret \in {"NULL", "data"}
       /\ errors = {} => ret = "data" /\ data # <<>> /\ Last = len - 1
       /\ ret = "NULL" <=> \/ errors = {"malloc"}
                           \/ total = 0 /\ errors \cap {"access", "sequence"} # {}
  /\ pc = "returned" => (live <=> errors # {"malloc"})

IInv ==
  /\ TypeOK
  /\ Roomy
  /\ Linked
  /\ Ordered
  /\ Outcome
  /\ NoFalseAlarm
  /\ GapsOnlyAtWrap
  /\ LeaksOnlyWhenEmpty
-----------------------------------------------------------------------------
(* Appending a chunk, as Store does: what is added is the last element and *)
(* the others stay where they were.                                        *)
LEMMA AppendFacts ==
  ASSUME NEW S, NEW s \in Seq(S), NEW e \in S
  PROVE  /\ Append(s, e) \in Seq(S)
         /\ Append(s, e) # <<>>
         /\ Len(Append(s, e)) = Len(s) + 1
         /\ Append(s, e)[Len(s) + 1] = e
         /\ \A i \in 1 .. Len(s) : Append(s, e)[i] = s[i]
  OBVIOUS

(* The initial states satisfy the strengthened invariant. *)
LEMMA InitIInv == Init => IInv
<1> SUFFICES ASSUME Init PROVE IInv
  OBVIOUS
<1> USE MaxLenAssumption, SizesAssumption, MaxSkewAssumption
<1>1. TypeOK
  <2>1. in \in Request
    BY DEF Init, Request, SeqMod
  <2>2. out \in Reply
    BY DEF Init, Reply, Chunk, SeqMod
  <2>3. data \in Seq(Chunk)
    BY DEF Init
  <2>4. total \in Nat /\ size \in Nat /\ skews \in 0 .. MaxSkew
    BY DEF Init
  <2> QED
    BY <2>1, <2>2, <2>3, <2>4, Zenon DEF Init, TypeOK
<1>2. Linked
  BY DEF Init, Linked, Last, SeqAfter, SeqMod
<1>3. Roomy /\ Ordered /\ Outcome /\ NoFalseAlarm /\ LeaksOnlyWhenEmpty
  BY DEF Init, Roomy, Ordered, Outcome, Busy, NoFalseAlarm, LeaksOnlyWhenEmpty
<1>4. GapsOnlyAtWrap
  BY DEF Init, GapsOnlyAtWrap
<1> QED
  BY <1>1, <1>2, <1>3, <1>4 DEF IInv

(* Nothing that is not the buffer's or the conversation's own step touches *)
(* the invariant: the two outcomes of malloc.                              *)
LEMMA MallocIInv == IInv /\ (Malloc \/ MallocFails) => IInv'
<1> USE SizesAssumption
<1>1. ASSUME IInv, Malloc PROVE IInv'
  <2> USE <1>1 DEF Malloc, IInv
  <2>1. TypeOK'
    BY DEF TypeOK, device
  <2>2. Linked' /\ Ordered' /\ GapsOnlyAtWrap'
    BY DEF Linked, Ordered, GapsOnlyAtWrap, Last, SeqAfter, Before, device
  <2>3. Roomy' /\ Outcome' /\ NoFalseAlarm' /\ LeaksOnlyWhenEmpty'
    BY DEF Roomy, Outcome, Busy, NoFalseAlarm, LeaksOnlyWhenEmpty, device, TypeOK
  <2> QED
    BY <2>1, <2>2, <2>3
<1>2. ASSUME IInv, MallocFails PROVE IInv'
  <2> USE <1>2 DEF MallocFails, IInv
  <2>1. TypeOK'
    BY DEF TypeOK, device, buffer, ErrorKinds
  <2>2. Linked' /\ Ordered' /\ GapsOnlyAtWrap'
    BY DEF Linked, Ordered, GapsOnlyAtWrap, Last, SeqAfter, Before, device, buffer
  <2>3. Roomy' /\ Outcome' /\ NoFalseAlarm' /\ LeaksOnlyWhenEmpty'
    BY DEF Roomy, Outcome, Busy, NoFalseAlarm, LeaksOnlyWhenEmpty, device, buffer, TypeOK
  <2> QED
    BY <2>1, <2>2, <2>3
<1> QED
  BY <1>1, <1>2

(* A collection that gives up keeps what it holds. *)
LEMMA GiveUpIInv ==
  ASSUME IInv, pc = "iter",
         NEW kind \in {"access", "sequence"}, GiveUp(kind),
         out' \in Reply, skews' \in 0 .. MaxSkew, UNCHANGED <<len, numbered>>,
         MaxSkew = 0 => kind # "sequence"
  PROVE  IInv'
<1> USE DEF GiveUp, buffer, IInv
<1>1. TypeOK'
  BY DEF TypeOK, ErrorKinds
<1>2. Roomy' /\ NoFalseAlarm' /\ LeaksOnlyWhenEmpty'
  BY DEF Roomy, NoFalseAlarm, LeaksOnlyWhenEmpty
<1>3. Linked' /\ Ordered' /\ GapsOnlyAtWrap'
  BY DEF Linked, Ordered, GapsOnlyAtWrap, Before
<1>4. Outcome'
  <2>1. live /\ errors = {}
    BY DEF Roomy, Outcome, Busy
  <2> QED
    BY <2>1 DEF Outcome, Busy
<1> QED
  BY <1>1, <1>2, <1>3, <1>4

(* The sequence check against the last chunk stored: a chunk that comes    *)
(* next always passes, and one that passes is next, or numbered 0, or a    *)
(* multiple of the sequence space away.                                    *)
LEMMA SequenceCheck ==
  ASSUME NEW c \in Nat, NEW l \in Nat \cup {-1}
  PROVE  /\ (l + 2) % SeqMod # 0 => ((l + 1) % SeqMod) + 1 = (l + 2) % SeqMod
         /\ ((l + 1) % SeqMod) + 1 = (c + 1) % SeqMod => (c - l - 1) % SeqMod = 0
         /\ (c + 1) % SeqMod \in 0 .. SeqMod - 1
  BY DEF SeqMod

(* Every reply keeps the position in the next request one past the last    *)
(* chunk accepted.                                                         *)
LEMMA IterIInv == IInv /\ Iter => IInv'
<1> SUFFICES ASSUME IInv, pc = "iter",
                    NEW c \in 0 .. len - 1, NEW n \in 0 .. InlineMax,
                    Answers(c),
                    out' = ReplyWith(c, n),
                    \/ Accept(ReplyWith(c, n))
                    \/ ~InSequence(ReplyWith(c, n)) /\ GiveUp("sequence"),
                    UNCHANGED <<len, numbered>>
             PROVE  IInv'
  BY DEF Iter
<1> USE MaxLenAssumption, SizesAssumption, MaxSkewAssumption
<1> DEFINE r == ReplyWith(c, n)
<1>1. /\ r.chunk = c /\ r.size = n
      /\ r.seq = SeqAfter(c)
      /\ r.more <=> c + 1 < len
  BY DEF ReplyWith, SeqAfter
<1>2. c \in Nat /\ c < len /\ len <= MaxLen /\ c \in Chunk /\ len \in Nat
  BY DEF IInv, TypeOK, Chunk
<1>3. r \in Reply
  <2>1. SeqAfter(c) \in 0 .. SeqMod - 1
    BY <1>2 DEF SeqAfter, SeqMod
  <2>2. (c + 1 < len) \in BOOLEAN
    OBVIOUS
  <2> QED
    BY <1>2, <2>1, <2>2 DEF ReplyWith, Reply, SeqAfter
<1>4. skews' \in 0 .. MaxSkew /\ (MaxSkew = 0 => c = in.cursor)
  BY DEF Answers, IInv, TypeOK
<1>5. Last \in Nat \cup {-1} /\ in.cursor = Last + 1 /\ in.seq = SeqAfter(Last)
  <2>1. data # <<>> => data[Len(data)] \in Chunk
    BY DEF IInv, TypeOK
  <2> QED
    BY <2>1 DEF IInv, Linked, Last, Chunk
<1>6. CASE Accept(r)
  <2> USE <1>6 DEF Accept, buffer
  <2>1. TypeOK'
    <3>1. in' \in Request
      <4>1. CASE ~r.more
        BY <4>1 DEF Echo, IInv, TypeOK
      <4>2. CASE r.more
        <5>1. in' = [seq |-> r.seq, cursor |-> c + 1, more |-> TRUE]
          BY <4>2, <1>1 DEF Echo
        <5>2. r.seq \in 0 .. SeqMod - 1 /\ c + 1 \in 0 .. MaxLen
          BY <1>2, <1>3 DEF Reply
        <5> QED
          BY <5>1, <5>2 DEF Request
      <4> QED
        BY <4>1, <4>2
    <3> QED
      BY <3>1, <1>3, <1>4 DEF IInv, TypeOK
  <2>2. Roomy' /\ Ordered' /\ NoFalseAlarm' /\ LeaksOnlyWhenEmpty'
    BY DEF IInv, Roomy, Ordered, NoFalseAlarm, LeaksOnlyWhenEmpty
  <2>3. GapsOnlyAtWrap' /\ Outcome'
    BY DEF IInv, GapsOnlyAtWrap, Before, Outcome, Busy
  <2>4. Linked'
    <3>1. out' = r /\ numbered' = numbered /\ len' = len /\ Last' = Last /\ pc' = "store"
      BY DEF Last
    <3>2. r.more => in'.cursor = c + 1 /\ in'.seq = r.seq
      BY <1>1 DEF Echo
    <3>3. MaxSkew = 0 => c = Last + 1
      BY <1>4, <1>5
    <3>4. numbered => (c + 1) % SeqMod = 0 \/ (c - Last - 1) % SeqMod = 0
      <4>1. SUFFICES ASSUME numbered, (c + 1) % SeqMod # 0
                     PROVE  (c - Last - 1) % SeqMod = 0
        OBVIOUS
      <4>2. r.seq = (c + 1) % SeqMod /\ in.seq = (Last + 1) % SeqMod
        BY <4>1, <1>1, <1>5 DEF SeqAfter
      <4>3. in.seq + 1 = r.seq
        BY <4>1, <4>2 DEF InSequence
      <4> QED
        BY <4>2, <4>3, <1>2, <1>5, SequenceCheck
    <3>5. SeqAfter(c)' = SeqAfter(c)
      BY <3>1 DEF SeqAfter
    <3> QED
      BY <3>1, <3>2, <3>3, <3>4, <3>5, <1>1, <1>2 DEF Linked, SeqAfter
  <2> QED
    BY <2>1, <2>2, <2>3, <2>4 DEF IInv
<1>7. CASE ~InSequence(r) /\ GiveUp("sequence")
  <2>1. MaxSkew # 0
    <3> SUFFICES ASSUME MaxSkew = 0 PROVE InSequence(r)
      BY <1>7
    <3>1. c = Last + 1
      BY <1>4, <1>5
    <3> QED
      BY <3>1, <1>1, <1>5, SequenceCheck DEF InSequence, SeqAfter
  <2> QED
    BY <1>7, <2>1, <1>3, <1>4, GiveUpIInv
<1> QED
  BY <1>6, <1>7

(* A failed command only ends the conversation. *)
LEMMA IterFailsIInv == IInv /\ IterFails => IInv'
<1> SUFFICES ASSUME IInv, IterFails PROVE IInv'
  OBVIOUS
<1>1. out' \in Reply /\ skews' \in 0 .. MaxSkew
  BY DEF IterFails, device, IInv, TypeOK
<1> QED
  BY <1>1, GiveUpIInv DEF IterFails, device

(* One doubling makes room for any chunk, and the chunk stored is the one  *)
(* whose place the reply carries.                                          *)
LEMMA StoreIInv == IInv /\ Store => IInv'
<1> SUFFICES ASSUME IInv, Store PROVE IInv'
  OBVIOUS
<1> USE MaxLenAssumption, SizesAssumption, MaxSkewAssumption DEF Store, device
<1>1. /\ out.chunk \in Chunk /\ out.chunk \in Nat /\ len \in Nat
      /\ out.size \in 0 .. InlineMax
      /\ total \in Nat /\ size \in Nat /\ total <= size /\ InlineMax <= size
  BY DEF IInv, TypeOK, Reply, Chunk, Roomy
<1>2. /\ data' \in Seq(Chunk)
      /\ data' # <<>>
      /\ Len(data') = Len(data) + 1
      /\ data'[Len(data) + 1] = out.chunk
      /\ \A i \in 1 .. Len(data) : data'[i] = data[i]
      /\ Len(data) \in Nat
  BY <1>1, AppendFacts DEF IInv, TypeOK
<1>3. Last' = out.chunk
  BY <1>2 DEF Last
<1>4. TypeOK'
  BY <1>1, <1>2 DEF IInv, TypeOK, Grown
<1>5. Roomy'
  BY <1>1 DEF IInv, Roomy, Grown, NoRoom
<1>6. Linked'
  <2>1. SeqAfter(out.chunk)' = SeqAfter(out.chunk)
    BY DEF SeqAfter
  <2> QED
    BY <1>1, <1>3, <2>1 DEF IInv, Linked, SeqAfter
<1>7. Ordered'
  <2> SUFFICES ASSUME MaxSkew = 0, NEW i \in 1 .. Len(data) + 1
               PROVE  data'[i] = i - 1
    BY <1>2 DEF Ordered
  <2>1. CASE i \in 1 .. Len(data)
    BY <2>1, <1>2 DEF IInv, Ordered
  <2>2. CASE i = Len(data) + 1
    <3>1. out.chunk = Last + 1
      BY DEF IInv, Linked
    <3>2. Last = Len(data) - 1
      BY <1>2 DEF IInv, TypeOK, Ordered, Last
    <3> QED
      BY <2>2, <3>1, <3>2, <1>2
  <2> QED
    BY <2>1, <2>2, <1>2
<1>8. GapsOnlyAtWrap'
  <2> SUFFICES ASSUME numbered, NEW i \in 1 .. Len(data) + 1
               PROVE  \/ (data'[i] + 1) % SeqMod = 0
                      \/ (data'[i] - Before(i)' - 1) % SeqMod = 0
    BY <1>2 DEF GapsOnlyAtWrap
  <2>1. CASE i \in 1 .. Len(data)
    <3>1. data'[i] = data[i] /\ Before(i)' = Before(i)
      BY <2>1, <1>2 DEF Before
    <3> QED
      BY <2>1, <3>1 DEF IInv, GapsOnlyAtWrap
  <2>2. CASE i = Len(data) + 1
    <3>1. Before(i)' = Last
      BY <2>2, <1>2 DEF Before, Last, IInv, TypeOK
    <3> QED
      BY <2>2, <3>1, <1>2 DEF IInv, Linked
  <2> QED
    BY <2>1, <2>2, <1>2
<1>9. NoFalseAlarm' /\ LeaksOnlyWhenEmpty'
  BY DEF IInv, NoFalseAlarm, LeaksOnlyWhenEmpty
<1>10. Outcome'
  <2>1. live /\ errors = {} /\ ret = "none"
    BY DEF IInv, Roomy, Outcome, Busy
  <2>2. ~out.more => out.chunk = len - 1
    BY <1>1 DEF IInv, Linked
  <2> QED
    BY <2>1, <2>2, <1>2, <1>3 DEF Outcome, Busy
<1> QED
  BY <1>4, <1>5, <1>6, <1>7, <1>8, <1>9, <1>10 DEF IInv

(* Losing the race for memory ends the collection with what it holds. *)
LEMMA ReallocFailsIInv == IInv /\ ReallocFails => IInv'
<1> SUFFICES ASSUME IInv, ReallocFails PROVE IInv'
  OBVIOUS
<1> USE DEF ReallocFails, buffer, device, IInv
<1>1. TypeOK'
  BY DEF TypeOK, ErrorKinds
<1>2. Roomy' /\ Linked' /\ Ordered' /\ GapsOnlyAtWrap'
  BY DEF Roomy, Linked, Ordered, GapsOnlyAtWrap, Before
<1>3. NoFalseAlarm' /\ LeaksOnlyWhenEmpty'
  BY DEF NoFalseAlarm, LeaksOnlyWhenEmpty
<1>4. Outcome'
  BY DEF Outcome, Busy, Roomy
<1> QED
  BY <1>1, <1>2, <1>3, <1>4

(* mlx5_rsc_dump frees the buffer exactly when it was handed one. *)
LEMMA FinishIInv == IInv /\ Finish => IInv'
<1> SUFFICES ASSUME IInv, Finish PROVE IInv'
  OBVIOUS
<1> USE DEF Finish, device, IInv
<1>1. TypeOK'
  BY DEF TypeOK
<1>2. Roomy' /\ Linked' /\ Ordered' /\ GapsOnlyAtWrap' /\ NoFalseAlarm'
  BY DEF Roomy, Linked, Ordered, GapsOnlyAtWrap, Before, NoFalseAlarm
<1>3. LeaksOnlyWhenEmpty'
  BY DEF LeaksOnlyWhenEmpty, Outcome, Busy
<1>4. Outcome'
  BY DEF Outcome, Busy, Last
<1> QED
  BY <1>1, <1>2, <1>3, <1>4

(* The strengthened invariant holds of every behaviour. *)
THEOREM Invariance == Spec => []IInv
<1>1. IInv /\ [Next]_vars => IInv'
  <2> SUFFICES ASSUME IInv, [Next]_vars PROVE IInv'
    OBVIOUS
  <2>1. CASE Next
    BY <2>1, MallocIInv, IterIInv, IterFailsIInv, StoreIInv, ReallocFailsIInv,
       FinishIInv DEF Next
  <2>2. CASE UNCHANGED vars
    BY <2>2 DEF vars, IInv, TypeOK, Roomy, Linked, Ordered, Outcome, Busy, Last,
       SeqAfter, NoFalseAlarm, GapsOnlyAtWrap, Before, LeaksOnlyWhenEmpty
  <2> QED
    BY <2>1, <2>2
<1> QED
  BY InitIInv, <1>1, PTL DEF Spec
-----------------------------------------------------------------------------
(* The state of rscdump_collect keeps its type: in particular the request  *)
(* never asks for a chunk past the end and the 4-bit number never leaves   *)
(* its field.                                                              *)
THEOREM TypeCorrect == Spec => []TypeOK
<1>1. IInv => TypeOK
  BY DEF IInv
<1> QED
  BY Invariance, <1>1, PTL

(* The memcpy of rscdump_collect stays inside the buffer for every size of *)
(* the inline data that the first malloc can hold.                         *)
THEOREM CopySafe == Spec => []CopyInBounds
<1>1. IInv => CopyInBounds
  BY SizesAssumption DEF IInv, TypeOK, Reply, Roomy, CopyInBounds, Grown, NoRoom
<1> QED
  BY Invariance, <1>1, PTL

(* With a firmware in order, rscdump_collect collects the chunks of the    *)
(* dump in order, for dumps of any length.                                 *)
THEOREM InOrder == Spec => []CollectedInOrder
<1>1. IInv => CollectedInOrder
  <2> SUFFICES ASSUME IInv, MaxSkew = 0, pc = "iter" PROVE in.cursor = Len(data)
    BY DEF IInv, Ordered, CollectedInOrder
  <2>1. Len(data) \in Nat /\ (data = <<>> => Len(data) = 0)
    BY DEF IInv, TypeOK
  <2>2. Last = Len(data) - 1
    BY <2>1 DEF IInv, TypeOK, Ordered, Last
  <2>3. in.cursor = Last + 1
    BY DEF IInv, Linked
  <2> QED
    BY <2>1, <2>2, <2>3
<1> QED
  BY Invariance, <1>1, PTL

(* The check of mlx5_rsc_dump_iter never rejects a reply of a firmware in  *)
(* order, however often the sequence number wraps.                         *)
THEOREM NoFalseAlarms == Spec => []NoFalseAlarm
<1>1. IInv => NoFalseAlarm
  BY DEF IInv
<1> QED
  BY Invariance, <1>1, PTL

(* What the same check lets through of a numbering firmware out of order:  *)
(* only chunks numbered 0 or a multiple of 16 off.                         *)
THEOREM GapsBounded == Spec => []GapsOnlyAtWrap
<1>1. IInv => GapsOnlyAtWrap
  BY DEF IInv
<1> QED
  BY Invariance, <1>1, PTL

(* A collection that ends without an error message has the whole dump.     *)
THEOREM NoSilentLoss == Spec => []LossIsReported
<1>1. IInv => LossIsReported
  <2> SUFFICES ASSUME IInv, pc = "done", errors = {} PROVE LossIsReported
    BY DEF LossIsReported
  <2>1. ret = "data" /\ data # <<>> /\ Last = len - 1
    BY DEF IInv, Outcome, Busy
  <2>2. MaxSkew = 0 => Len(data) = len
    <3>1. Len(data) \in Nat \ {0} /\ len \in Nat
      BY <2>1 DEF IInv, TypeOK
    <3> QED
      BY <2>1, <3>1 DEF IInv, Ordered, Last
  <2> QED
    BY <2>1, <2>2 DEF LossIsReported, Last
<1> QED
  BY Invariance, <1>1, PTL

(* The data buffer is freed on every path except the one that fails before *)
(* a byte was collected.                                                   *)
THEOREM LeakCharacterised == Spec => []LeaksOnlyWhenEmpty
<1>1. IInv => LeaksOnlyWhenEmpty
  BY DEF IInv
<1> QED
  BY Invariance, <1>1, PTL
-----------------------------------------------------------------------------
(* The conversation with a firmware in order implements DumpStream: Store  *)
(* is a Deliver, each failure is a Cut, and the rest is invisible.         *)
THEOREM Refinement == MaxSkew = 0 /\ Spec => Stream!Spec
<1> SUFFICES ASSUME MaxSkew = 0 PROVE Spec => Stream!Spec
  OBVIOUS
<1>1. Init => Stream!Init
  BY DEF Init, Stream!Init, Status
<1>2. IInv /\ [Next]_vars => [Stream!Next]_Stream!vars
  <2> SUFFICES ASSUME IInv, [Next]_vars PROVE [Stream!Next]_Stream!vars
    OBVIOUS
  <2> USE DEF Stream!Next, Stream!vars, device, buffer
  <2>1. CASE Malloc \/ Finish
    BY <2>1 DEF Malloc, Finish, Status
  <2>2. CASE MallocFails \/ IterFails \/ ReallocFails
    BY <2>2 DEF MallocFails, IterFails, ReallocFails, GiveUp, Status, Stream!Cut
  <2>3. CASE Iter
    <3>1. UNCHANGED <<len, data>> /\ pc = "iter"
      BY <2>3 DEF Iter, Accept, GiveUp
    <3>2. CASE pc' = "store"
      BY <3>1, <3>2 DEF Status
    <3>3. CASE GiveUp("sequence")
      BY <3>1, <3>3 DEF GiveUp, Status, Stream!Cut
    <3> QED
      BY <2>3, <3>2, <3>3 DEF Iter, Accept
  <2>4. CASE Store
    <3>1. /\ Len(data') = Len(data) + 1 /\ Len(data) \in Nat
          /\ len \in Nat /\ out.chunk \in Nat
          /\ UNCHANGED <<len, errors>>
      BY <2>4, AppendFacts DEF Store, IInv, TypeOK, Reply, Chunk
    <3>2. errors = {} /\ out.chunk < len /\ out.chunk = Last + 1
          /\ (out.more <=> out.chunk + 1 < len)
      BY <2>4 DEF Store, IInv, Outcome, Busy, Linked
    <3>3. Last = Len(data) - 1
      BY <3>1 DEF IInv, TypeOK, Ordered, Last
    <3>4. Status = "open" /\ Status' = IF Len(data') = len THEN "complete" ELSE "open"
      BY <2>4, <3>1, <3>2, <3>3 DEF Store, Status
    <3> QED
      BY <3>1, <3>2, <3>3, <3>4 DEF Stream!Deliver
  <2>5. CASE UNCHANGED vars
    BY <2>5 DEF vars, Status
  <2> QED
    BY <2>1, <2>2, <2>3, <2>4, <2>5 DEF Next
<1> QED
  BY Invariance, <1>1, <1>2, PTL DEF Spec, Stream!Spec
=============================================================================
