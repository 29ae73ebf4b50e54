-------------------------- MODULE SegmentWalkProof --------------------------
(***************************************************************************)
(* Proofs about SegmentWalk, for dumps of any number of segments with any  *)
(* payloads and records, umems and replies of any size, and a temporary    *)
(* buffer of any size.                                                     *)
(*                                                                         *)
(* What the walk does depends on StartOf, which is a sum over the segments *)
(* before: Starts gives its recursion equations and StartsRise that the    *)
(* starts are strictly increasing, both by a least counterexample (Least,  *)
(* from the library's WFMin), as no induction rule can be instantiated.    *)
(* From then on the proof is about the position of the walk: after n       *)
(* segments the walk is at StartOf(segs, n + 1) and none of the n segments *)
(* ended the dump (Walking), and all it read ends there too, unless the    *)
(* last of them is a menu of which only the header was written (Reading).  *)
(***************************************************************************)
EXTENDS SegmentWalk, FiniteSetTheorems, WellFoundedInduction, TLAPS

(* Where the segment after those parsed starts. *)
NextStart == StartOf(segs, Len(walked) + 1)

NoneEnds(n) == \A i \in 1 .. n : ~Ends(segs[i])

(* Nothing was parsed yet, or never will be. *)
Before ==
  pc \in {"malloc", "collect", "enter", "none", "overrun"} =>
    walked = <<>> /\ off = 0 /\ reach = 0 /\ ~overflow

Collecting ==
  /\ pc \in {"malloc", "collect"} => mode = "umem" /\ ~failed
  /\ total <= Full
  /\ mode = "inline" => total = size
  /\ mode = "umem" => size > 0 /\ remain > 0
  /\ pc = "malloc" => total = 0

Parsed ==
  /\ Len(walked) <= Len(segs)
  /\ \A i \in 1 .. Len(walked) :
       walked[i] = StartOf(segs, i) /\ StartOf(segs, i) < Kept

Walking ==
  /\ pc \in {"walk", "lost"} =>
       /\ off = NextStart /\ off < size
       /\ NoneEnds(Len(walked)) /\ ~overflow
       /\ ResponseDw + TerminateDw <= size
  /\ pc = "lost" => total <= off

TooShort ==
  /\ size < ResponseDw + TerminateDw
  /\ walked = <<>> /\ reach = ResponseDw /\ ~overflow

AtItsEnd ==
  /\ ResponseDw + TerminateDw <= size
  /\ Len(walked) > 0
  /\ NoneEnds(Len(walked) - 1)
  /\ overflow <=> ~Ends(segs[Len(walked)])
  /\ overflow => size <= NextStart

Finished == pc = "done" => TooShort \/ AtItsEnd

(* What was read ends with the last segment parsed, or with the records of  *)
(* a menu that nobody wrote the number of.                                  *)
ReachesEnd ==
  IF walked = <<>> THEN reach = ResponseDw
  ELSE IF CutBehindHeader(Len(walked))
  THEN reach <= StartOf(segs, Len(walked)) + MenuDw(MaxRecords)
  ELSE reach = NextStart

Reading == pc \in {"walk", "lost", "done"} => ReachesEnd

IInv ==
  /\ TypeOK
  /\ Before
  /\ Collecting
  /\ CollectsTheWholeDump
  /\ Parsed
  /\ Walking
  /\ Finished
  /\ Reading
-----------------------------------------------------------------------------
(***************************************************************************)
(* Where the segments start.                                               *)
(***************************************************************************)

(* A non-empty set of naturals has a least element. *)
LEMMA Least ==
  ASSUME NEW T \in SUBSET Nat, T # {}
  PROVE  \E x \in T : \A y \in T : x <= y
<1> DEFINE Smaller == {p \in Nat \X Nat : p[1] < p[2]}
<1>1. IsWellFoundedOn(Smaller, Nat)
  BY NatLessThanWellFounded DEF OpToRel
<1>2. PICK x \in T : \A y \in T : <<y, x>> \notin Smaller
  <2> HIDE DEF Smaller
  <2> QED
    BY <1>1, WFMin
<1>3. ASSUME NEW y \in T PROVE x <= y
  <2>1. <<y, x>> \in Nat \X Nat /\ ~(y < x)
    BY <1>2
  <2> QED
    BY <2>1
<1> QED
  BY <1>3

IsSum(f, n, a, d) ==
  f = [i \in 1 .. n + 1 |-> IF i = 1 THEN a ELSE f[i - 1] + d[i - 1]]

(* The partial sums of any sequence exist. *)
LEMMA SumExists ==
  ASSUME NEW m \in Nat, NEW a, NEW d
  PROVE  \E f : IsSum(f, m, a, d)
<1> DEFINE T == {n \in Nat : ~ \E f : IsSum(f, n, a, d)}
<1>1. IsSum([i \in 1 .. 0 + 1 |-> a], 0, a, d)
  BY DEF IsSum
<1>2. ASSUME NEW n \in Nat, NEW f, IsSum(f, n, a, d)
      PROVE  \E g : IsSum(g, n + 1, a, d)
  <2> DEFINE g == [i \in 1 .. n + 2 |->
                     IF i = n + 2 THEN f[n + 1] + d[n + 1] ELSE f[i]]
  <2>1. IsSum(g, n + 1, a, d)
    BY <1>2 DEF IsSum
  <2> QED
    BY <2>1
<1>3. T = {}
  <2>1. SUFFICES ASSUME T # {} PROVE FALSE
    OBVIOUS
  <2>2. PICK n \in T : \A y \in T : n <= y
    BY <2>1, Least
  <2>3. n # 0
    BY <1>1
  <2>4. n - 1 \in Nat /\ n - 1 \notin T
    BY <2>2, <2>3
  <2>5. \E f : IsSum(f, n - 1, a, d)
    BY <2>4
  <2>6. \E g : IsSum(g, (n - 1) + 1, a, d)
    BY <2>4, <2>5, <1>2
  <2>7. (n - 1) + 1 = n
    BY <2>4
  <2> QED
    BY <2>6, <2>7
<1> QED
  BY <1>3

(* StartOf as recursion equations. *)
LEMMA Starts ==
  ASSUME NEW s, Len(s) \in Nat
  PROVE  /\ StartOf(s, 1) = ResponseDw
         /\ \A k \in 1 .. Len(s) : StartOf(s, k + 1) = StartOf(s, k) + s[k].dw
<1> DEFINE start == CHOOSE f : f = [i \in 1 .. Len(s) + 1 |->
                      IF i = 1 THEN ResponseDw ELSE f[i - 1] + s[i - 1].dw]
           d == [i \in 1 .. Len(s) |-> s[i].dw]
<1>1. PICK f : IsSum(f, Len(s), ResponseDw, d)
  <2> HIDE DEF d
  <2> QED
    BY SumExists
<1>2. f = [i \in 1 .. Len(s) + 1 |->
             IF i = 1 THEN ResponseDw ELSE f[i - 1] + s[i - 1].dw]
  BY <1>1 DEF IsSum
<1>3. start = [i \in 1 .. Len(s) + 1 |->
                 IF i = 1 THEN ResponseDw ELSE start[i - 1] + s[i - 1].dw]
  BY <1>2
<1>4. \A k : StartOf(s, k) = start[k]
  BY DEF StartOf
<1> HIDE DEF start
<1>5. start[1] = ResponseDw
  BY <1>3
<1>6. ASSUME NEW k \in 1 .. Len(s) PROVE start[k + 1] = start[k] + s[k].dw
  <2>1. k + 1 \in 1 .. Len(s) + 1 /\ k + 1 # 1 /\ (k + 1) - 1 = k
    OBVIOUS
  <2>2. start[k + 1] = start[(k + 1) - 1] + s[(k + 1) - 1].dw
    BY <1>3, <2>1
  <2> QED
    BY <2>1, <2>2
<1> QED
  BY <1>4, <1>5, <1>6

(* A segment is never empty, and a menu is more than its header. *)
LEMMA SegmentLength ==
  ASSUME NEW s \in Segment
  PROVE  /\ s.dw \in Nat \ {0}
         /\ s.type = "menu" => s.dw >= 2
         /\ Stops(s) <=> Ends(s)
BY LengthsAssumption DEF Segment, Stops, Ends, TerminateDw, NoticeDw,
  ReferenceDw, MenuDw, ResourceDw

(* A segment is read as far as its length, but for a menu the number of     *)
(* records of which was not written.                                        *)
LEMMA SegmentRead ==
  ASSUME NEW s \in Segment, NEW d \in ReadDw(s)
  PROVE  /\ s.type # "menu" \/ RecordsWritten => d = s.dw
         /\ d \in Nat \ {0}
         /\ s.type = "menu" /\ ~RecordsWritten => d <= MenuDw(MaxRecords)
<1>1. CASE s.type # "menu"
  BY <1>1, LengthsAssumption DEF Segment, ReadDw, TerminateDw, NoticeDw, ReferenceDw,
    MenuDw, ResourceDw
<1>2. CASE s.type = "menu" /\ RecordsWritten
  <2>1. d = s.dw
    BY <1>2 DEF ReadDw, MenuReads
  <2> QED
    BY <1>2, <2>1, SegmentLength
<1>3. CASE s.type = "menu" /\ ~RecordsWritten
  <2>1. PICK n \in Stray : d = MenuDw(n)
    BY <1>3 DEF ReadDw, MenuReads
  <2>2. MaxRecords \in Nat
    BY DEF MaxRecords
  <2>3. n \in Nat /\ n <= MaxRecords
    BY <2>2, StrayAssumption
  <2>4. d \in Nat \ {0} /\ d <= MenuDw(MaxRecords)
    BY <2>1, <2>2, <2>3 DEF MenuDw
  <2> QED
    BY <1>3, <2>4
<1> QED
  BY <1>1, <1>2, <1>3

(* Where segments start is a number, not before the fixed segments' end. *)
LEMMA StartsAreNat ==
  ASSUME NEW s \in Seq(Segment)
  PROVE  \A k \in 1 .. Len(s) + 1 : StartOf(s, k) \in Nat /\ ResponseDw <= StartOf(s, k)
<1> DEFINE Ok(k) == StartOf(s, k) \in Nat /\ ResponseDw <= StartOf(s, k)
           T == {k \in 1 .. Len(s) + 1 : ~Ok(k)}
<1>1. SUFFICES ASSUME T # {} PROVE FALSE
  OBVIOUS
<1>2. Len(s) \in Nat /\ T \in SUBSET Nat
  OBVIOUS
<1>3. PICK k \in T : \A y \in T : k <= y
  <2> HIDE DEF T
  <2> QED
    BY <1>1, <1>2, Least
<1>4. Ok(1)
  BY <1>2, Starts DEF ResponseDw, InfoDw, CommandDw
<1>5. k - 1 \in 1 .. Len(s) /\ (k - 1) + 1 = k /\ k - 1 \notin T
  <2> HIDE DEF Ok
  <2> QED
    BY <1>2, <1>3, <1>4
<1>6. Ok(k - 1)
  BY <1>2, <1>5
<1>7. StartOf(s, k) = StartOf(s, k - 1) + s[k - 1].dw
  BY <1>2, <1>5, Starts
<1>8. s[k - 1].dw \in Nat
  BY <1>5, SegmentLength
<1> QED
  BY <1>3, <1>6, <1>7, <1>8 DEF ResponseDw, InfoDw, CommandDw

(* Each segment starts after the one before. *)
LEMMA StartsRise ==
  ASSUME NEW s \in Seq(Segment)
  PROVE  \A i, j \in 1 .. Len(s) + 1 : i < j => StartOf(s, i) < StartOf(s, j)
<1>1. SUFFICES ASSUME NEW i \in 1 .. Len(s) + 1
               PROVE  \A j \in 1 .. Len(s) + 1 : i < j => StartOf(s, i) < StartOf(s, j)
  OBVIOUS
<1> DEFINE T == {j \in 1 .. Len(s) + 1 : i < j /\ ~(StartOf(s, i) < StartOf(s, j))}
<1>2. SUFFICES ASSUME T # {} PROVE FALSE
  OBVIOUS
<1>3. Len(s) \in Nat /\ T \in SUBSET Nat
  OBVIOUS
<1>4. PICK j \in T : \A y \in T : j <= y
  <2> HIDE DEF T
  <2> QED
    BY <1>2, <1>3, Least
<1>5. j - 1 \in 1 .. Len(s) /\ (j - 1) + 1 = j /\ j - 1 \notin T
  BY <1>3, <1>4
<1>6. StartOf(s, j) = StartOf(s, j - 1) + s[j - 1].dw
  BY <1>3, <1>5, Starts
<1>7. s[j - 1].dw \in Nat \ {0}
  BY <1>5, SegmentLength
<1>8. StartOf(s, i) \in Nat /\ StartOf(s, j - 1) \in Nat
  BY <1>3, <1>5, StartsAreNat
<1>9. CASE i = j - 1
  BY <1>4, <1>6, <1>7, <1>8, <1>9
<1>10. CASE i < j - 1
  BY <1>4, <1>5, <1>6, <1>7, <1>8, <1>10
<1> QED
  BY <1>4, <1>5, <1>9, <1>10

(* A segment is told by where it starts. *)
COROLLARY StartsDiffer ==
  ASSUME NEW s \in Seq(Segment), NEW i \in 1 .. Len(s) + 1, NEW j \in 1 .. Len(s) + 1,
         StartOf(s, i) = StartOf(s, j)
  PROVE  i = j
<1>1. StartOf(s, i) \in Nat /\ Len(s) \in Nat
  BY StartsAreNat
<1> QED
  BY <1>1, StartsRise
-----------------------------------------------------------------------------
(***************************************************************************)
(* The inductive invariant.                                                *)
(***************************************************************************)

(* The length of a dump is a number, and so is where a segment starts. *)
LEMMA Lengths ==
  ASSUME TypeOK
  PROVE  /\ Len(segs) \in Nat /\ Len(walked) \in Nat
         /\ Full \in Nat /\ ResponseDw <= Full
         /\ \A k \in 1 .. Len(segs) + 1 : StartOf(segs, k) \in Nat
<1>1. segs \in Seq(Segment) /\ Len(segs) \in Nat /\ Len(walked) \in Nat
  BY DEF TypeOK
<1> QED
  BY <1>1, StartsAreNat DEF Full

(* The inductive invariant holds initially. *)
LEMMA InitInv == Init => IInv
<1> SUFFICES ASSUME Init PROVE IInv
  OBVIOUS
<1> USE DEF Init
<1>1. segs \in Seq(Segment)
  OBVIOUS
<1>2. Full \in Nat
  <2>1. Len(segs) \in Nat
    BY <1>1
  <2> QED
    BY <1>1, <2>1, StartsAreNat DEF Full
<1>3. walked = <<>> /\ Len(walked) = 0 /\ walked \in Seq(Nat)
  OBVIOUS
<1>4. /\ size \in Nat /\ total \in Nat /\ total <= Full /\ remain \in Nat
      /\ mode \in {"inline", "umem"} /\ pc \in {"enter", "malloc"}
      /\ mode = "inline" => total = size /\ pc = "enter"
      /\ mode = "umem" => size > 0 /\ remain > 0 /\ total = 0 /\ pc = "malloc"
  <2>1. CASE mode = "inline" /\ pc = "enter" /\ size \in 0 .. Full /\ total = size /\ remain = 0
    <3> HIDE DEF Init
    <3> QED
      BY <1>2, <2>1
  <2>2. CASE mode = "umem" /\ pc = "malloc" /\ size \in Umems /\ total = 0 /\ remain = size
    <3> HIDE DEF Init
    <3> QED
      BY <1>2, <2>2, UmemAssumption
  <2> QED
    BY <2>1, <2>2
<1>5. TypeOK /\ Collecting
  BY <1>1, <1>3, <1>4 DEF TypeOK, Collecting
<1>6. Parsed
  BY <1>1, <1>3 DEF Parsed
<1> QED
  BY <1>3, <1>4, <1>5, <1>6 DEF IInv, Before, CollectsTheWholeDump, Walking, Finished,
    Reading

(* What an action leaves alone of the walk, when it collects. *)
LEMMA CollectKeeps ==
  ASSUME IInv, pc \in {"malloc", "collect"}, pc' \in {"collect", "none", "enter", "overrun"},
         UNCHANGED <<segs, size, walk>>
  PROVE  Before' /\ Parsed' /\ Walking' /\ Finished' /\ Reading'
<1> USE DEF IInv, walk
<1>1. walked = <<>> /\ Len(walked) = 0
  BY DEF Before
<1>2. Before'
  BY DEF Before
<1>3. Parsed'
  BY <1>1 DEF Parsed
<1>4. Walking' /\ Finished'
  BY DEF Walking, Finished
<1>5. Reading'
  <2>1. CASE pc' # "enter"
    BY <2>1 DEF Reading
  <2>2. CASE pc' = "enter"
    BY <2>2 DEF Reading
  <2> QED
    BY <2>1, <2>2
<1> QED
  BY <1>2, <1>3, <1>4, <1>5

(* Every action of the collection keeps the invariant. *)
LEMMA CollectInv == ASSUME IInv, Collect PROVE IInv'
<1> USE DEF IInv
<1>1. Full' = Full /\ Full \in Nat /\ ResponseDw <= Full
  <2>1. segs' = segs
    BY DEF Collect, Malloc, MallocFails, Iter, IterFails
  <2> QED
    BY <2>1, Lengths DEF Full
<1>2. CASE Malloc
  <2>1. TypeOK' /\ Collecting' /\ CollectsTheWholeDump'
    BY <1>1, <1>2 DEF Malloc, TypeOK, Collecting, CollectsTheWholeDump, collection, walk
  <2> QED
    BY <1>2, <2>1, CollectKeeps DEF Malloc
<1>3. CASE MallocFails
  <2>1. TypeOK' /\ Collecting' /\ CollectsTheWholeDump'
    BY <1>1, <1>3 DEF MallocFails, TypeOK, Collecting, CollectsTheWholeDump, walk
  <2> QED
    BY <1>3, <2>1, CollectKeeps DEF MallocFails
<1>4. ASSUME NEW n \in Reply, Iter(n) PROVE IInv'
  <2>1. n \in Nat /\ n <= Full - total
    BY <1>1, UmemAssumption DEF Reply, Fits, LeastOf, TypeOK, Collecting
  <2>2. remain' \in Nat /\ (mode = "umem" => remain' > 0)
    BY <1>4, <2>1 DEF Iter, Less, TypeOK, Collecting
  <2>3. mode = "umem"
    BY <1>4 DEF Iter, Collecting
  <2>4. TypeOK'
    BY <1>4, <2>1, <2>2 DEF Iter, TypeOK, walk
  <2>5. Collecting'
    BY <1>1, <1>4, <2>1, <2>2, <2>3 DEF Iter, TypeOK, Collecting
  <2>6. CollectsTheWholeDump'
    BY <1>1, <1>4, <2>1, <2>2, <2>3, UmemAssumption
      DEF Iter, TypeOK, Collecting, CollectsTheWholeDump
  <2> QED
    BY <1>4, <2>4, <2>5, <2>6, CollectKeeps DEF Iter
<1>5. CASE IterFails
  <2>1. TypeOK' /\ Collecting' /\ CollectsTheWholeDump'
    BY <1>1, <1>5 DEF IterFails, TypeOK, Collecting, CollectsTheWholeDump, walk
  <2> QED
    BY <1>5, <2>1, CollectKeeps DEF IterFails
<1> QED
  BY <1>2, <1>3, <1>4, <1>5 DEF Collect

(* Entering the walk keeps the invariant. *)
LEMMA EnterInv == ASSUME IInv, Enter PROVE IInv'
<1> USE DEF IInv, Enter, collection
<1>1. /\ walked = <<>> /\ Len(walked) = 0 /\ off = 0 /\ ~overflow
      /\ segs \in Seq(Segment) /\ Len(segs) \in Nat
  BY DEF Before, TypeOK
<1>2. StartOf(segs, 1) = ResponseDw
  BY <1>1, Starts
<1>3. TypeOK'
  BY DEF TypeOK, ResponseDw, InfoDw, CommandDw
<1>4. Before' /\ Collecting' /\ CollectsTheWholeDump' /\ Parsed'
  BY <1>1 DEF Before, Collecting, CollectsTheWholeDump, Full, Parsed, Kept
<1>5. Walking'
  <2>1. NoneEnds(Len(walked))'
    BY <1>1 DEF NoneEnds
  <2>2. NextStart' = ResponseDw
    BY <1>1, <1>2 DEF NextStart
  <2> QED
    BY <1>1, <2>1, <2>2
      DEF Walking, TypeOK, ResponseDw, InfoDw, CommandDw, TerminateDw
<1>6. Finished'
  BY <1>1 DEF Finished, TooShort
<1>7. Reading'
  BY <1>1 DEF Reading, ReachesEnd
<1> QED
  BY <1>3, <1>4, <1>5, <1>6, <1>7

(* A menu of which only the header was written is the last of what was.     *)
LEMMA PastTheHeader ==
  ASSUME TypeOK, NEW k \in 1 .. Len(segs), CutBehindHeader(k)
  PROVE  total < StartOf(segs, k + 1)
<1>1. segs \in Seq(Segment) /\ Len(segs) \in Nat /\ StartOf(segs, k) \in Nat
  BY Lengths DEF TypeOK
<1>2. segs[k].dw \in Nat /\ segs[k].dw >= 2
  BY <1>1, SegmentLength DEF CutBehindHeader
<1>3. StartOf(segs, k + 1) = StartOf(segs, k) + segs[k].dw
  BY <1>1, Starts
<1> QED
  BY <1>1, <1>2, <1>3 DEF CutBehindHeader

(* The segment parsed next is the one after those parsed. *)
LEMMA ParsesTheNext ==
  ASSUME IInv, pc = "walk", NEW k \in 1 .. Len(segs), off = StartOf(segs, k)
  PROVE  k = Len(walked) + 1
<1>1. /\ segs \in Seq(Segment) /\ Len(segs) \in Nat
      /\ Len(walked) + 1 \in 1 .. Len(segs) + 1 /\ k \in 1 .. Len(segs) + 1
  BY Lengths DEF IInv, TypeOK, Parsed
<1>2. off = StartOf(segs, Len(walked) + 1)
  BY DEF IInv, Walking, NextStart
<1> QED
  BY <1>1, <1>2, StartsDiffer

(* Of the dump the segments up to the last parsed are known: they start    *)
(* inside what was kept, in order, and what was read ends as ReachesEnd    *)
(* says.                                                                   *)
LEMMA ReadSoFar ==
  ASSUME IInv, walked # <<>>
  PROVE  /\ Len(walked) \in 1 .. Len(segs)
         /\ walked[Len(walked)] = StartOf(segs, Len(walked))
         /\ StartOf(segs, Len(walked)) < Kept
         /\ ReachesEnd
<1> USE DEF IInv
<1>1. Len(walked) \in Nat /\ Len(walked) # 0 /\ Len(segs) \in Nat
  BY Lengths DEF TypeOK
<1>2. pc \in {"walk", "lost", "done"}
  BY DEF Before, TypeOK
<1> QED
  BY <1>1, <1>2 DEF Parsed, Reading

(* Where the walk is inside what was written, what was read ends there: a   *)
(* menu cut behind its header leads it out.                                 *)
LEMMA ReachesTheWalk ==
  ASSUME IInv, pc = "walk", off < total
  PROVE  reach = off
<1> USE DEF IInv
<1> DEFINE n == Len(walked)
<1>1. /\ segs \in Seq(Segment) /\ Len(segs) \in Nat /\ n \in Nat /\ n <= Len(segs)
      /\ off = StartOf(segs, n + 1) /\ ReachesEnd
  BY Lengths DEF TypeOK, Parsed, Walking, NextStart, Reading
<1>2. CASE walked = <<>>
  <2>1. n = 0
    BY <1>2
  <2>2. off = StartOf(segs, 1)
    BY <1>1, <2>1
  <2>3. StartOf(segs, 1) = ResponseDw
    BY <1>1, Starts
  <2> QED
    BY <1>1, <1>2, <2>2, <2>3 DEF ReachesEnd
<1>3. CASE walked # <<>>
  <2>1. n \in 1 .. Len(segs)
    BY <1>3, ReadSoFar
  <2>2. CutBehindHeader(n) => total < off
    BY <1>1, <2>1, PastTheHeader
  <2>3. ~CutBehindHeader(n)
    BY <2>2 DEF TypeOK
  <2> QED
    BY <1>1, <1>3, <2>3 DEF ReachesEnd, NextStart
<1> QED
  BY <1>2, <1>3

(* Parsing a segment keeps the invariant. *)
LEMMA StepInv == ASSUME IInv, Step PROVE IInv'
<1> USE DEF IInv
<1>1. PICK k \in 1 .. Len(segs) : off = StartOf(segs, k) /\ Parse(k)
  BY DEF Step
<1> DEFINE n == Len(walked)
           s == segs[k]
<1>2. pc = "walk" /\ off < total /\ UNCHANGED <<mode, segs, size, total, remain, failed>>
  BY DEF Step, collection
<1>3. k = n + 1 /\ n \in Nat /\ Len(segs) \in Nat /\ n + 1 <= Len(segs)
  BY <1>1, <1>2, ParsesTheNext, Lengths
<1>4. s \in Segment /\ s.dw \in Nat \ {0} /\ (Stops(s) <=> Ends(s))
  BY <1>1, SegmentLength DEF TypeOK
<1>5. /\ StartOf(segs, k + 1) = off + s.dw
      /\ off \in Nat /\ off < size /\ NoneEnds(n) /\ ~overflow
      /\ ResponseDw + TerminateDw <= size
  BY <1>1, <1>2, <1>3, Starts DEF TypeOK, Walking
<1>6. /\ walked' = Append(walked, off) /\ Len(walked') = n + 1
      /\ \A i \in 1 .. n : walked'[i] = walked[i]
      /\ walked'[n + 1] = off /\ walked' \in Seq(Nat)
  BY <1>1, <1>5 DEF Parse, TypeOK
<1>7. NextStart' = off + s.dw
  BY <1>1, <1>2, <1>3, <1>5, <1>6 DEF NextStart
<1>8. reach' \in Nat /\ ReachesEnd'
  <2>1. reach = off
    BY <1>1, <1>2, ReachesTheWalk
  <2>2. PICK d \in ReadDw(s) : reach' = MaxOf(reach, off + d)
    BY <1>1 DEF Parse
  <2>3. d \in Nat \ {0} /\ reach' = off + d
    BY <1>4, <1>5, <2>1, <2>2, SegmentRead DEF MaxOf
  <2>4. walked' # <<>> /\ Len(walked') = k /\ segs' = segs /\ total' = total /\ total \in Nat
    BY <1>2, <1>3, <1>6 DEF TypeOK
  <2>5. CutBehindHeader(k) <=> s.type = "menu" /\ ~RecordsWritten
    BY <1>1, <1>2, <1>5, <2>4 DEF CutBehindHeader, RecordsWritten
  <2>6. CutBehindHeader(Len(walked))' <=> CutBehindHeader(k)
    BY <2>4 DEF CutBehindHeader
  <2>7. StartOf(segs, Len(walked))' = off
    BY <1>1, <2>4
  <2>8. CASE CutBehindHeader(k)
    <3>1. d <= MenuDw(MaxRecords)
      BY <1>4, <2>5, <2>8, SegmentRead
    <3>2. MenuDw(MaxRecords) \in Nat
      BY DEF MenuDw, MaxRecords
    <3>3. reach' <= off + MenuDw(MaxRecords)
      BY <1>5, <2>3, <3>1, <3>2
    <3>4. reach' <= StartOf(segs, Len(walked))' + MenuDw(MaxRecords)
      BY <2>7, <3>3
    <3> QED
      BY <1>5, <2>3, <2>4, <2>6, <2>8, <3>4 DEF ReachesEnd
  <2>9. CASE ~CutBehindHeader(k)
    <3>1. d = s.dw
      BY <1>4, <2>5, <2>9, SegmentRead
    <3> QED
      BY <1>5, <1>7, <2>3, <2>4, <2>6, <2>9, <3>1 DEF ReachesEnd
  <2> QED
    BY <2>8, <2>9
<1>9. Reading'
  BY <1>8 DEF Reading
<1>10. CASE Ends(s)
  <2>1. pc' = "done" /\ UNCHANGED <<off, overflow>>
    BY <1>1, <1>4, <1>10 DEF Parse
  <2>2. TypeOK'
    BY <1>2, <1>4, <1>5, <1>6, <1>8, <2>1 DEF TypeOK
  <2>3. Before' /\ Collecting' /\ CollectsTheWholeDump' /\ Walking'
    BY <1>2, <2>1 DEF Before, Collecting, CollectsTheWholeDump, Full, Walking
  <2>4. Parsed'
    BY <1>1, <1>2, <1>3, <1>5, <1>6 DEF Parsed, Kept, LeastOf, TypeOK
  <2>5. AtItsEnd'
    BY <1>2, <1>3, <1>5, <1>6, <1>7, <1>10, <2>1 DEF AtItsEnd, NoneEnds
  <2> QED
    BY <1>9, <2>2, <2>3, <2>4, <2>5 DEF Finished
<1>11. CASE ~Ends(s)
  <2>1. /\ off' = off + s.dw
        /\ pc' = IF off' >= size THEN "done" ELSE "walk"
        /\ overflow' = (off' >= size)
    BY <1>1, <1>4, <1>11 DEF Parse
  <2>2. TypeOK'
    BY <1>2, <1>4, <1>5, <1>6, <1>8, <2>1, SMTT(30) DEF TypeOK
  <2>3. Before' /\ Collecting' /\ CollectsTheWholeDump'
    BY <1>2, <2>1 DEF Before, Collecting, CollectsTheWholeDump, Full
  <2>4. Parsed'
    BY <1>1, <1>2, <1>3, <1>5, <1>6 DEF Parsed, Kept, LeastOf, TypeOK
  <2>5. NoneEnds(Len(walked))' /\ ~Ends(segs'[Len(walked')])
    BY <1>2, <1>3, <1>5, <1>6, <1>11 DEF NoneEnds
  <2>6. CASE off' >= size
    <3>1. pc' = "done" /\ overflow'
      BY <2>1, <2>6
    <3>2. NoneEnds(Len(walked) - 1)' /\ Len(walked') > 0
      BY <1>2, <1>3, <1>5, <1>6 DEF NoneEnds
    <3>3. ResponseDw + TerminateDw <= size' /\ size' <= NextStart'
      BY <1>2, <1>5, <1>7, <2>1, <2>6
    <3>4. AtItsEnd'
      BY <2>5, <3>1, <3>2, <3>3 DEF AtItsEnd
    <3>5. Walking' /\ Finished'
      BY <3>1, <3>4 DEF Walking, Finished
    <3> QED
      BY <1>9, <2>2, <2>3, <2>4, <3>5
  <2>7. CASE off' < size
    <3>1. pc' = "walk" /\ ~overflow'
      <4>1. (off' >= size) = FALSE
        BY <1>2, <2>2, <2>7 DEF TypeOK
      <4> QED
        BY <2>1, <4>1
    <3>2. off' = NextStart' /\ off' < size'
      BY <1>2, <1>7, <2>1, <2>7
    <3>3. Walking' /\ Finished'
      BY <1>2, <1>5, <2>5, <3>1, <3>2 DEF Walking, Finished
    <3> QED
      BY <1>9, <2>2, <2>3, <2>4, <3>3
  <2> QED
    BY <1>2, <2>2, <2>6, <2>7 DEF TypeOK
<1> QED
  BY <1>10, <1>11

(* Reading a header where nothing was written keeps the invariant. *)
LEMMA GetLostInv == ASSUME IInv, GetLost PROVE IInv'
<1> USE DEF IInv, GetLost, collection, walk
<1>1. TypeOK' /\ Before' /\ Collecting'
  BY DEF TypeOK, Before, Collecting, Full
<1>2. CollectsTheWholeDump' /\ Parsed' /\ Finished'
  BY DEF CollectsTheWholeDump, Full, Parsed, Kept, Finished
<1>3. Walking'
  BY DEF Walking, NoneEnds, NextStart, TypeOK
<1>4. Reading'
  BY DEF Reading, ReachesEnd, CutBehindHeader, NextStart
<1> QED
  BY <1>1, <1>2, <1>3, <1>4

(* Every step keeps the inductive invariant. *)
LEMMA NextInv == IInv /\ [Next]_vars => IInv'
<1> SUFFICES ASSUME IInv, [Next]_vars PROVE IInv'
  OBVIOUS
<1>1. CASE UNCHANGED vars
  BY <1>1 DEF vars, IInv, TypeOK, Before, Collecting, CollectsTheWholeDump, Full, Parsed,
    Kept, Walking, NoneEnds, NextStart, Finished, TooShort, AtItsEnd, Reading, ReachesEnd,
    CutBehindHeader
<1> QED
  BY <1>1, CollectInv, EnterInv, StepInv, GetLostInv DEF Next
-----------------------------------------------------------------------------
(***************************************************************************)
(* What the invariant says of the walk.                                    *)
(***************************************************************************)

(* Before the walk no more than the two fixed segments is read. *)
LEMMA FixedFirst ==
  ASSUME IInv, walked = <<>>
  PROVE  reach <= ResponseDw
BY DEF IInv, TypeOK, Before, Reading, ReachesEnd, ResponseDw, InfoDw, CommandDw

(* Every segment ends inside the dump. *)
LEMMA EndsInside ==
  ASSUME TypeOK, NEW k \in 1 .. Len(segs)
  PROVE  StartOf(segs, k + 1) \in Nat /\ StartOf(segs, k + 1) <= Full
<1>1. segs \in Seq(Segment) /\ Len(segs) \in Nat
  BY Lengths DEF TypeOK
<1>2. CASE k = Len(segs)
  BY <1>1, <1>2, StartsAreNat DEF Full
<1>3. CASE k < Len(segs)
  BY <1>1, <1>3, StartsRise, StartsAreNat DEF Full
<1> QED
  BY <1>1, <1>2, <1>3

(* The walk parses exactly the segments expected. *)
LEMMA InvWalks == IInv => WalksTheDump
<1> SUFFICES ASSUME IInv, pc = "done" PROVE WalksTheDump
  BY DEF WalksTheDump
<1> USE DEF IInv
<1> DEFINE n == Len(walked)
<1>1. n \in Nat /\ Len(segs) \in Nat /\ segs \in Seq(Segment) /\ n <= Len(segs)
  BY Lengths DEF TypeOK, Parsed
<1>2. \A i \in 1 .. n : walked[i] = StartOf(segs, i)
  BY DEF Parsed
<1>3. CASE TooShort
  <2>1. Expected = {} /\ n = 0 /\ ~overflow
    BY <1>3 DEF TooShort, Expected
  <2>2. Cardinality(Expected) = 0
    BY <2>1, FS_EmptySet
  <2> QED
    BY <1>2, <2>1, <2>2 DEF WalksTheDump
<1>4. CASE AtItsEnd
  <2>1. /\ n \in 1 .. Len(segs) /\ NoneEnds(n - 1) /\ size \in Nat
        /\ overflow <=> ~Ends(segs[n])
    BY <1>1, <1>4 DEF AtItsEnd, TypeOK
  <2>2. \A k \in 1 .. n : StartOf(segs, k) < size
    <3>1. Kept <= size
      BY DEF Kept, LeastOf, TypeOK
    <3>2. Kept \in Nat
      BY DEF Kept, LeastOf, TypeOK
    <3> QED
      BY <1>1, <3>1, <3>2, StartsAreNat, SMTT(30) DEF Parsed, TypeOK
  <2>3. ASSUME NEW k \in n + 1 .. Len(segs) PROVE k \notin Expected
    <3>1. CASE Ends(segs[n])
      BY <2>1, <3>1 DEF Expected
    <3>2. CASE ~Ends(segs[n])
      <4>1. size <= StartOf(segs, n + 1)
        BY <1>4, <3>2 DEF AtItsEnd, NextStart
      <4>2. StartOf(segs, n + 1) \in Nat /\ StartOf(segs, k) \in Nat
        BY <1>1, StartsAreNat
      <4>3. StartOf(segs, n + 1) <= StartOf(segs, k)
        BY <1>1, <4>2, StartsRise
      <4> QED
        BY <2>1, <4>1, <4>2, <4>3 DEF Expected
    <3> QED
      BY <3>1, <3>2
  <2>4. ASSUME NEW k \in 1 .. n PROVE k \in Expected
    BY <1>1, <1>4, <2>1, <2>2 DEF Expected, NoneEnds, AtItsEnd, ResponseDw, InfoDw,
      CommandDw, TerminateDw
  <2>5. Expected = 1 .. n
    <3>1. Expected \subseteq 1 .. Len(segs)
      BY DEF Expected
    <3>2. \A k \in 1 .. Len(segs) : k \in Expected <=> k \in 1 .. n
      BY <1>1, <2>3, <2>4
    <3>3. 1 .. n \subseteq 1 .. Len(segs)
      BY <1>1
    <3> QED
      BY <3>1, <3>2, <3>3
  <2>6. Cardinality(Expected) = n
    <3>1. Cardinality(1 .. n) = IF 1 > n THEN 0 ELSE n - 1 + 1
      <4>1. 1 \in Int /\ n \in Int
        BY <1>1
      <4> HIDE DEF n
      <4> QED
        BY ONLY <4>1, FS_Interval
    <3> QED
      BY <2>1, <2>5, <3>1
  <2>7. (Expected # {} /\ \A k \in Expected : ~Ends(segs[k])) <=> ~Ends(segs[n])
    BY <2>1, <2>5 DEF NoneEnds
  <2> QED
    BY <1>2, <2>1, <2>6, <2>7 DEF WalksTheDump
<1> QED
  BY <1>3, <1>4 DEF Finished

(* A whole dump is not read past. *)
LEMMA InvInside == IInv => WholeDumpReadInside
<1> SUFFICES ASSUME IInv, total = Full PROVE reach <= Full
  BY DEF WholeDumpReadInside
<1>1. TypeOK /\ Full \in Nat /\ ResponseDw <= Full /\ reach \in Nat
  BY Lengths DEF IInv, TypeOK
<1>2. CASE walked = <<>>
  BY <1>1, <1>2, FixedFirst DEF ResponseDw, InfoDw, CommandDw
<1>3. CASE walked # <<>>
  <2>1. Len(walked) \in 1 .. Len(segs) /\ ReachesEnd
    BY <1>3, ReadSoFar
  <2>2. StartOf(segs, Len(walked) + 1) \in Nat /\ StartOf(segs, Len(walked) + 1) <= Full
    BY <1>1, <2>1, EndsInside
  <2>3. ~CutBehindHeader(Len(walked))
    BY <1>1, <2>1, <2>2, PastTheHeader
  <2> QED
    BY <1>3, <2>1, <2>2, <2>3 DEF ReachesEnd, NextStart
<1> QED
  BY <1>2, <1>3

(* Only the segment at the cut is read past the cut. *)
LEMMA InvCut == IInv => OverreadAtTheCut
<1> SUFFICES ASSUME IInv, reach > Kept, reach > ResponseDw
             PROVE  OverreadAtTheCut
  BY DEF OverreadAtTheCut
<1> DEFINE n == Len(walked)
<1>1. TypeOK /\ reach \in Nat /\ Kept \in Nat /\ Kept <= total /\ total \in Nat
  BY DEF IInv, TypeOK, Kept, LeastOf
<1>2. walked # <<>>
  BY <1>1, FixedFirst DEF ResponseDw, InfoDw, CommandDw
<1>3. /\ n \in 1 .. Len(segs) /\ walked[n] = StartOf(segs, n)
      /\ StartOf(segs, n) < Kept /\ ReachesEnd
  BY <1>2, ReadSoFar
<1>4. StartOf(segs, n + 1) \in Nat
  BY <1>1, <1>3, EndsInside
<1>5. /\ Kept < StartOf(segs, n + 1)
      /\ reach > StartOf(segs, n + 1) =>
           CutBehindHeader(n) /\ reach <= StartOf(segs, n) + MenuDw(MaxRecords)
  <2>1. CASE CutBehindHeader(n)
    <3>1. Kept < StartOf(segs, n + 1)
      BY <1>1, <1>3, <1>4, <2>1, PastTheHeader
    <3> QED
      BY <1>2, <1>3, <2>1, <3>1 DEF ReachesEnd
  <2>2. CASE ~CutBehindHeader(n)
    <3>1. reach = StartOf(segs, n + 1)
      BY <1>2, <1>3, <2>2 DEF ReachesEnd, NextStart
    <3> QED
      BY <1>1, <1>4, <3>1
  <2> QED
    BY <2>1, <2>2
<1> QED
  BY <1>3, <1>5 DEF OverreadAtTheCut

(* The walk is lost only behind an unterminated part of the dump. *)
LEMMA InvLost == IInv => LostOnlyUnterminated
<1> SUFFICES ASSUME IInv, pc = "lost" PROVE LostOnlyUnterminated
  BY DEF LostOnlyUnterminated
<1> USE DEF IInv
<1>1. /\ total <= off /\ off = NextStart /\ off < size /\ NoneEnds(Len(walked))
      /\ size \in Nat /\ total \in Nat /\ off \in Nat
  BY DEF Walking, TypeOK
<1>2. mode = "umem" /\ total < size
  BY <1>1 DEF Collecting, TypeOK
<1>3. ASSUME NEW k \in 1 .. Len(segs), StartOf(segs, k) < total PROVE ~Ends(segs[k])
  <2>1. /\ segs \in Seq(Segment) /\ Len(segs) \in Nat
        /\ Len(walked) \in Nat /\ Len(walked) <= Len(segs)
    BY Lengths DEF TypeOK, Parsed
  <2>2. StartOf(segs, k) \in Nat /\ StartOf(segs, k) < StartOf(segs, Len(walked) + 1)
    BY <1>1, <1>3, <2>1, StartsAreNat DEF NextStart
  <2>3. k <= Len(walked)
    <3>1. SUFFICES ASSUME Len(walked) + 1 <= k PROVE FALSE
      BY <2>1
    <3>2. Len(walked) + 1 \in 1 .. Len(segs) + 1 /\ k \in 1 .. Len(segs) + 1
      BY <2>1, <3>1
    <3>3. StartOf(segs, Len(walked) + 1) <= StartOf(segs, k)
      BY <1>1, <2>1, <2>2, <3>1, <3>2, StartsRise DEF NextStart
    <3> QED
      BY <1>1, <2>2, <3>3 DEF NextStart
  <2> QED
    BY <1>1, <2>1, <2>3 DEF NoneEnds
<1> QED
  BY <1>2, <1>3 DEF LostOnlyUnterminated

-----------------------------------------------------------------------------
(* The inductive invariant is an invariant of every behaviour. *)
THEOREM Invariance == Spec => []IInv
BY InitInv, NextInv, PTL DEF Spec

(* The variables keep their types, whatever the dump. *)
THEOREM TypeCorrect == Spec => []TypeOK
<1>1. IInv => TypeOK
  BY DEF IInv
<1> QED
  BY <1>1, Invariance, PTL

(* parse_resource_dump parses every segment up to the first that ends the  *)
(* dump, or up to the size it was given, none twice and none left out, and *)
(* says "Segment overflow" exactly when it met none that ends the dump.    *)
THEOREM Walks == Spec => []WalksTheDump
BY Invariance, InvWalks, PTL

(* rscdump_collect_umem returns the whole dump unless a call fails, and    *)
(* overruns its temporary buffer only with a dump larger than that buffer. *)
THEOREM CollectsWhole == Spec => []CollectsTheWholeDump
<1>1. IInv => CollectsTheWholeDump
  BY DEF IInv
<1> QED
  BY <1>1, Invariance, PTL

(* A whole dump is parsed without reading past its end. *)
THEOREM ReadsInside == Spec => []WholeDumpReadInside
BY Invariance, InvInside, PTL

(* What is read past the end of a dump that was cut short is the segment   *)
(* at the cut, no further than its own header says; only of a menu that    *)
(* was cut right behind its header, as many records are read as the 16     *)
(* bits behind the cut happen to say.                                      *)
THEOREM OverreadBounded == Spec => []OverreadAtTheCut
BY Invariance, InvCut, PTL

(* The walk reads what was never written only in umem mode, past a dump    *)
(* that is smaller than the umem and carries no segment that ends it.      *)
THEOREM LostOnlyPastTheDump == Spec => []LostOnlyUnterminated
BY Invariance, InvLost, PTL
=============================================================================
