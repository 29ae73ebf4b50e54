---------------------------- MODULE UmemLifeProof ----------------------------
(***************************************************************************)
(* Proofs about UmemLife, for any processes, pools and faults.             *)
(*                                                                         *)
(* None of the safety properties is inductive: that a destroy command hits *)
(* the caller's object and nobody else's rests on where every process      *)
(* stands.  The invariant says, object by object, from which step to which *)
(* a process holds one, that it then holds just the one its variables      *)
(* name, and that a memory key is over a PD and a umem of its owner.       *)
(***************************************************************************)
EXTENDS UmemLife, TLAPS

(* The steps between which a process holds an object. *)
Dumping(p) == pc[p] = "dump" /\ has[p]
HoldsPd(p) ==
  Dumping(p) \/ pc[p] \in {"memalign", "umem_reg", "create_mkey", "destroy_mkey",
                           "umem_unreg", "free", "dealloc_pd"}
HoldsUmem(p) == Dumping(p) \/ pc[p] \in {"create_mkey", "destroy_mkey", "umem_unreg"}
HoldsMkey(p) == Dumping(p) \/ pc[p] = "destroy_mkey"
HoldsBuff(p) ==
  Dumping(p) \/ pc[p] \in {"umem_reg", "create_mkey", "destroy_mkey", "umem_unreg", "free"}

PdInv ==
  \A p \in Procs :
    /\ HoldsPd(p) => pdOf[pdn[p]] = p
    /\ \A i \in Pds : pdOf[i] = p =>
         i = pdn[p] /\ (HoldsPd(p) \/ (pc[p] = "return" /\ p \in ignored))

UmemInv ==
  \A p \in Procs :
    /\ HoldsUmem(p) => umemOf[umem[p]] = p
    /\ \A i \in Umems : umemOf[i] = p =>
         /\ i = umem[p]
         /\ HoldsUmem(p) \/ (pc[p] \in {"free", "dealloc_pd", "return"} /\ p \in ignored)

MkeyInv ==
  /\ \A p \in Procs : HoldsMkey(p) => \E m \in mkeys : m.owner = p
  /\ \A m \in mkeys :
       /\ m.idx = mkey[m.owner].idx /\ m.pd = pdn[m.owner] /\ m.umem = umem[m.owner]
       /\ pdOf[m.pd] = m.owner /\ umemOf[m.umem] = m.owner
       /\ \/ HoldsMkey(m.owner)
          \/ /\ pc[m.owner] \in {"umem_unreg", "free", "dealloc_pd", "return"}
             /\ m.owner \in ignored
  /\ \A m, n \in mkeys : m.idx = n.idx => m = n

BuffInv ==
  \A p \in Procs :
    /\ HoldsBuff(p) => buff[p] = "live"
    /\ buff[p] = "live" => HoldsBuff(p)

HasInv ==
  \A p \in Procs :
    pc[p] \in {"closed", "alloc_pd", "memalign", "umem_reg", "create_mkey"} => ~has[p]

Inv == PdInv /\ UmemInv /\ MkeyInv /\ BuffInv /\ HasInv /\ NeverRefused
-----------------------------------------------------------------------------
(* The pools of object numbers are not empty: each starts at 0, the value C  *)
(* gives the variables of a fresh process.                                   *)
LEMMA Zeros == 0 \in Pds /\ 0 \in Umems /\ 0 \in MkeyIdx
  BY PoolsAssumption DEF Pds, Umems, MkeyIdx

(* A function with one value replaced; for truth values Zenon has to do it. *)
LEMMA Update ==
  ASSUME NEW S, NEW T, NEW f \in [S -> T], NEW x \in S, NEW e \in T
  PROVE  [f EXCEPT ![x] = e] \in [S -> T]
  OBVIOUS

(* A device nobody uses yet satisfies the invariant.                         *)
LEMMA InitInv == Init => TypeOK /\ Inv
  <1> SUFFICES ASSUME Init PROVE TypeOK /\ Inv
    OBVIOUS
  <1>2. TypeOK
    BY Zeros DEF Init, TypeOK
  <1>3. PdInv /\ UmemInv
    BY NoneAssumption DEF Init, PdInv, UmemInv, HoldsPd, HoldsUmem, Dumping
  <1>4. MkeyInv /\ BuffInv /\ HasInv /\ NeverRefused
    BY DEF Init, MkeyInv, BuffInv, HasInv, NeverRefused, HoldsMkey, HoldsBuff, Dumping
  <1> QED
    BY <1>2, <1>3, <1>4 DEF Inv
-----------------------------------------------------------------------------
(* Type correctness of the three truth values: --umem given, umem_buff set,  *)
(* dump taken.                                                               *)
LEMMA FlagsStep ==
  ASSUME TypeOK, [Next]_vars
  PROVE  /\ asked' \in [Procs -> BOOLEAN] /\ has' \in [Procs -> BOOLEAN]
         /\ dumped' \in [Procs -> BOOLEAN]
  <1>0. /\ asked \in [Procs -> BOOLEAN] /\ has \in [Procs -> BOOLEAN]
        /\ dumped \in [Procs -> BOOLEAN]
    BY Zenon DEF TypeOK
  <1>1. ASSUME NEW p \in Procs, Start(p)
        PROVE  UNCHANGED <<has, dumped>> /\ asked' \in [Procs -> BOOLEAN]
    <2>1. PICK u \in BOOLEAN : asked' = [asked EXCEPT ![p] = u]
      BY <1>1, Zenon DEF Start
    <2>2. UNCHANGED <<has, dumped>>
      BY <1>1, Zenon DEF Start
    <2> QED
      BY <1>0, <2>1, <2>2, Update, Zenon
  <1>2. ASSUME NEW p \in Procs, CreateMkey(p)
        PROVE  UNCHANGED <<asked, dumped>> /\ has' \in [Procs -> BOOLEAN]
    <2>1. has' = [has EXCEPT ![p] = TRUE] /\ UNCHANGED <<asked, dumped>>
      BY <1>2, Zenon DEF CreateMkey
    <2>2. TRUE \in BOOLEAN
      OBVIOUS
    <2> QED
      BY <1>0, <2>1, <2>2, Update, Zenon
  <1>3. ASSUME NEW p \in Procs, Dump(p)
        PROVE  UNCHANGED <<asked, has>> /\ dumped' \in [Procs -> BOOLEAN]
    <2>1. PICK ok \in BOOLEAN :
            dumped' = [dumped EXCEPT ![p] = ok /\ (has[p] \/ cmd[p] = "rscdump")]
      <3>1. PICK ok \in IF Faults = {} THEN {TRUE} ELSE BOOLEAN :
              dumped' = [dumped EXCEPT ![p] = ok /\ (has[p] \/ cmd[p] = "rscdump")]
        BY <1>3, Zenon DEF Dump
      <3>2. ok \in BOOLEAN
        BY <3>1, Zenon
      <3> QED
        BY <3>1, <3>2, Zenon
    <2>2. (ok /\ (has[p] \/ cmd[p] = "rscdump")) \in BOOLEAN
      BY Zenon
    <2>3. UNCHANGED <<asked, has>>
      BY <1>3, Zenon DEF Dump
    <2> QED
      BY <1>0, <2>1, <2>2, <2>3, Update, Zenon
  <1>4. ASSUME NEW p \in Procs, Gone(p)
        PROVE  /\ asked' \in [Procs -> BOOLEAN] /\ has' \in [Procs -> BOOLEAN]
               /\ dumped' \in [Procs -> BOOLEAN]
    <2>1. /\ asked' = [asked EXCEPT ![p] = FALSE] /\ has' = [has EXCEPT ![p] = FALSE]
          /\ dumped' = [dumped EXCEPT ![p] = FALSE]
      BY <1>4, Zenon DEF Gone
    <2>2. FALSE \in BOOLEAN
      OBVIOUS
    <2> QED
      BY <1>0, <2>1, <2>2, Update, Zenon
  <1>5. ASSUME NEW p \in Procs,
               \/ AllocPd(p) \/ AllocPdFails(p) \/ Memalign(p) \/ MemalignFails(p)
               \/ UmemReg(p) \/ UmemRegFails(p) \/ CreateMkeyFails(p) \/ TearDown(p)
        PROVE  UNCHANGED <<asked, has, dumped>>
    BY <1>5, Zenon
       DEF AllocPd, AllocPdFails, Memalign, MemalignFails, UmemReg, UmemRegFails, CreateMkeyFails,
           TearDown, DestroyMkey, UmemUnreg, Free, DeallocPd
  <1>6. CASE UNCHANGED vars
    BY <1>0, <1>6, Zenon DEF vars
  <1> QED
    BY <1>0, <1>1, <1>2, <1>3, <1>4, <1>5, <1>6, Zenon DEF Next, Run, SetUp, Close, Kill

(* The rest of the types. *)
DataOK ==
  /\ pc \in [Procs -> {"closed", "alloc_pd", "memalign", "umem_reg", "create_mkey", "dump",
                        "destroy_mkey", "umem_unreg", "free", "dealloc_pd", "return"}]
  /\ cmd \in [Procs -> {"rscdump", "coredump"}]
  /\ pdn \in [Procs -> Pds]
  /\ buff \in [Procs -> {"none", "live", "freed"}]
  /\ umem \in [Procs -> Umems]
  /\ mkey \in [Procs -> {idx_to_mkey(i) : i \in MkeyIdx}]
  /\ ret \in [Procs -> {"ok", "cmd error", "-ENOMEM"}]
  /\ pdOf \in [Pds -> Procs \cup {None}]
  /\ umemOf \in [Umems -> Procs \cup {None}]
  /\ mkeys \subseteq MkeyRecord
  /\ refused \subseteq Procs
  /\ ignored \subseteq Procs

(* Every call of do_rscdump and every reclaim by the kernel keeps the object *)
(* numbers inside their pools and the owners among the processes.            *)
LEMMA DataStep == ASSUME DataOK, [Next]_vars PROVE DataOK'
  <1> USE DEF DataOK, Goto, Unwind, device
  <1>1. ASSUME NEW p \in Procs, Start(p) PROVE DataOK'
    BY <1>1 DEF Start
  <1>2. ASSUME NEW p \in Procs, AllocPd(p) PROVE DataOK'
    BY <1>2 DEF AllocPd
  <1>3. ASSUME NEW p \in Procs, AllocPdFails(p) PROVE DataOK'
    BY <1>3 DEF AllocPdFails
  <1>4. ASSUME NEW p \in Procs, Memalign(p) \/ MemalignFails(p) PROVE DataOK'
    BY <1>4 DEF Memalign, MemalignFails
  <1>5. ASSUME NEW p \in Procs, UmemReg(p) PROVE DataOK'
    BY <1>5 DEF UmemReg
  <1>6. ASSUME NEW p \in Procs, UmemRegFails(p) PROVE DataOK'
    BY <1>6 DEF UmemRegFails
  <1>7. ASSUME NEW p \in Procs, CreateMkey(p) PROVE DataOK'
    <2> PICK i \in MkeyIdx :
          /\ mkeys' = mkeys \cup {[idx |-> i, owner |-> p, pd |-> pdn[p], umem |-> umem[p]]}
          /\ mkey' = [mkey EXCEPT ![p] = idx_to_mkey(i)]
      BY <1>7 DEF CreateMkey
    <2>1. [idx |-> i, owner |-> p, pd |-> pdn[p], umem |-> umem[p]] \in MkeyRecord
      BY DEF MkeyRecord
    <2>2. mkey' \in [Procs -> {idx_to_mkey(k) : k \in MkeyIdx}]
      OBVIOUS
    <2> QED
      BY <1>7, <2>1, <2>2 DEF CreateMkey
  <1>8. ASSUME NEW p \in Procs, CreateMkeyFails(p) \/ Dump(p) PROVE DataOK'
    BY <1>8 DEF CreateMkeyFails, Dump
  <1>9. ASSUME NEW p \in Procs, DestroyMkey(p) \/ Free(p) PROVE DataOK'
    BY <1>9 DEF DestroyMkey, DestroyFails, Free
  <1>10. ASSUME NEW p \in Procs, UmemUnreg(p) PROVE DataOK'
    BY <1>10 DEF UmemUnreg, DestroyFails, Refuse
  <1>11. ASSUME NEW p \in Procs, DeallocPd(p) PROVE DataOK'
    BY <1>11 DEF DeallocPd, DestroyFails, Refuse
  <1>12. ASSUME NEW p \in Procs, Gone(p) PROVE DataOK'
    <2>1. mkey' \in [Procs -> {idx_to_mkey(k) : k \in MkeyIdx}]
      BY <1>12, Zeros DEF Gone
    <2>2. /\ pdOf' \in [Pds -> Procs \cup {None}] /\ umemOf' \in [Umems -> Procs \cup {None}]
          /\ mkeys' \subseteq MkeyRecord /\ refused' \subseteq Procs /\ ignored' \subseteq Procs
      BY <1>12 DEF Gone, Reclaim
    <2> QED
      BY <1>12, <2>1, <2>2, Zeros DEF Gone
  <1>13. CASE UNCHANGED vars
    BY <1>13 DEF vars
  <1> QED
    BY <1>1, <1>2, <1>3, <1>4, <1>5, <1>6, <1>7, <1>8, <1>9, <1>10, <1>11, <1>12, <1>13
       DEF Next, Run, SetUp, TearDown, Close, Kill

(* Every step keeps all the types.                                           *)
LEMMA TypeStep == TypeOK /\ [Next]_vars => TypeOK'
  <1>1. TypeOK <=> /\ DataOK
                   /\ asked \in [Procs -> BOOLEAN] /\ has \in [Procs -> BOOLEAN]
                   /\ dumped \in [Procs -> BOOLEAN]
    BY Zenon DEF TypeOK, DataOK
  <1>2. TypeOK' <=> /\ DataOK'
                    /\ asked' \in [Procs -> BOOLEAN] /\ has' \in [Procs -> BOOLEAN]
                    /\ dumped' \in [Procs -> BOOLEAN]
    BY Zenon DEF TypeOK, DataOK
  <1> QED
    BY <1>1, <1>2, FlagsStep, DataStep, Zenon
-----------------------------------------------------------------------------
(* The processes other than p stay where they are. *)
Elsewhere(p) ==
  \A q \in Procs : q # p => pc'[q] = pc[q] /\ (Dumping(q)' <=> Dumping(q))

(* What a plain move of p from step to step does.                            *)
LEMMA Moved ==
  ASSUME TypeOK, NEW p \in Procs, NEW l, pc' = [pc EXCEPT ![p] = l], UNCHANGED has
  PROVE  /\ Elsewhere(p)
         /\ pc'[p] = l
         /\ l # "dump" => ~Dumping(p)'
         /\ pc[p] # "dump" => ~Dumping(p)
  <1>1. pc \in [Procs -> {"closed", "alloc_pd", "memalign", "umem_reg", "create_mkey", "dump",
                          "destroy_mkey", "umem_unreg", "free", "dealloc_pd", "return"}]
    BY Zenon DEF TypeOK
  <1>2. pc'[p] = l /\ \A q \in Procs : q # p => pc'[q] = pc[q]
    BY <1>1
  <1> QED
    BY <1>2, Zenon DEF Dumping, Elsewhere

(* The part of the types that the SMT solver is given.                       *)
LEMMA TypeData == TypeOK => DataOK
  BY Zenon DEF TypeOK, DataOK

(* What a step of p leaves of the invariant if it does not touch an object, *)
(* nor the variable that names it, nor whether p holds one.                *)
LEMMA PdKept ==
  ASSUME PdInv, NEW p \in Procs, Elsewhere(p), HoldsPd(p)' <=> HoldsPd(p),
         pc[p] # "return", UNCHANGED <<pdOf, pdn>>, ignored \subseteq ignored'
  PROVE  PdInv'
  <1>1. \A q \in Procs : HoldsPd(q)' <=> HoldsPd(q)
    BY DEF HoldsPd, Elsewhere
  <1> QED
    BY <1>1 DEF PdInv, Elsewhere, Pds

(* The same for umems; p may go down the undo chain as it likes.             *)
LEMMA UmemKept ==
  ASSUME UmemInv, NEW p \in Procs, Elsewhere(p), HoldsUmem(p)' <=> HoldsUmem(p),
         pc[p] \in {"free", "dealloc_pd", "return"} => pc'[p] \in {"free", "dealloc_pd", "return"},
         UNCHANGED <<umemOf, umem>>, ignored \subseteq ignored'
  PROVE  UmemInv'
  <1>1. \A q \in Procs : HoldsUmem(q)' <=> HoldsUmem(q)
    BY DEF HoldsUmem, Elsewhere
  <1> QED
    BY <1>1 DEF UmemInv, Elsewhere, Umems

(* The same for memory keys and what they are over.                          *)
LEMMA MkeyKept ==
  ASSUME DataOK, MkeyInv, NEW p \in Procs, Elsewhere(p), HoldsMkey(p)' <=> HoldsMkey(p),
         pc[p] \in {"umem_unreg", "free", "dealloc_pd", "return"} =>
           pc'[p] \in {"umem_unreg", "free", "dealloc_pd", "return"},
         UNCHANGED <<mkeys, mkey, pdn, umem, pdOf, umemOf>>, ignored \subseteq ignored'
  PROVE  MkeyInv'
  <1>1. \A q \in Procs : HoldsMkey(q)' <=> HoldsMkey(q)
    BY DEF HoldsMkey, Elsewhere
  <1>2. \A m \in mkeys : m.owner \in Procs
    BY DEF DataOK, MkeyRecord
  <1>3. \A q \in Procs : pc'[q] # pc[q] => q = p
    BY DEF Elsewhere
  <1> QED
    BY <1>1, <1>2, <1>3 DEF MkeyInv

(* The same for the buffer, which p may allocate or free.                    *)
LEMMA BuffKept ==
  ASSUME BuffInv, NEW p \in Procs, Elsewhere(p),
         \A q \in Procs : q # p => buff'[q] = buff[q],
         HoldsBuff(p)' <=> buff'[p] = "live"
  PROVE  BuffInv'
  <1>1. \A q \in Procs : q # p => (HoldsBuff(q)' <=> HoldsBuff(q))
    BY DEF HoldsBuff, Elsewhere
  <1> QED
    BY <1>1 DEF BuffInv

(* umem_buff stays unset as long as the set-up is not complete.              *)
LEMMA HasKept ==
  ASSUME HasInv, NEW p \in Procs, Elsewhere(p), UNCHANGED has,
         pc'[p] \in {"closed", "alloc_pd", "memalign", "umem_reg", "create_mkey"} =>
           pc[p] \in {"closed", "alloc_pd", "memalign", "umem_reg", "create_mkey"}
  PROVE  HasInv'
  BY Zenon DEF HasInv, Elsewhere
-----------------------------------------------------------------------------
(* Steps that create and destroy nothing: p moves to l, with the same      *)
(* objects in its hands.                                                   *)
LEMMA Quiet ==
  ASSUME TypeOK, Inv, NEW p \in Procs, NEW l, pc' = [pc EXCEPT ![p] = l], UNCHANGED has,
         UNCHANGED <<pdOf, pdn, umemOf, umem, mkeys, mkey, ignored, refused>>,
         pc[p] # "return",
         HoldsPd(p)' <=> HoldsPd(p), HoldsUmem(p)' <=> HoldsUmem(p),
         HoldsMkey(p)' <=> HoldsMkey(p), HoldsBuff(p)' <=> buff'[p] = "live",
         \A q \in Procs : q # p => buff'[q] = buff[q],
         pc[p] \in {"umem_unreg", "free", "dealloc_pd"} => l \in {"free", "dealloc_pd", "return"},
         l \in {"closed", "alloc_pd", "memalign", "umem_reg", "create_mkey"} =>
           pc[p] \in {"closed", "alloc_pd", "memalign", "umem_reg", "create_mkey"}
  PROVE  Inv'
  <1>1. Elsewhere(p) /\ pc'[p] = l
    BY Moved
  <1>2. PdInv /\ UmemInv /\ MkeyInv /\ BuffInv /\ HasInv /\ NeverRefused
    BY Zenon DEF Inv
  <1>3. PdInv'
    BY <1>1, <1>2, PdKept
  <1>4. UmemInv'
    BY <1>1, <1>2, UmemKept
  <1>5. MkeyInv'
    BY <1>1, <1>2, MkeyKept, TypeData
  <1>6. BuffInv'
    BY <1>1, <1>2, BuffKept
  <1>7. HasInv'
    BY <1>1, <1>2, HasKept, Zenon
  <1>8. NeverRefused'
    BY <1>2 DEF NeverRefused
  <1> QED
    BY <1>3, <1>4, <1>5, <1>6, <1>7, <1>8, Zenon DEF Inv

(* The steps of do_rscdump that change no device object keep the invariant.  *)
LEMMA QuietStep ==
  ASSUME TypeOK, Inv, NEW p \in Procs,
         \/ Start(p) \/ AllocPdFails(p) \/ Memalign(p) \/ MemalignFails(p)
         \/ UmemRegFails(p) \/ CreateMkeyFails(p) \/ Dump(p) \/ Free(p)
  PROVE  Inv'
  <1>0. HoldsBuff(p) <=> buff[p] = "live"
    BY DEF Inv, BuffInv
  <1>1. CASE AllocPdFails(p)
    <2>1. /\ pc[p] = "alloc_pd" /\ pc' = [pc EXCEPT ![p] = "return"] /\ UNCHANGED has
          /\ UNCHANGED <<pdOf, pdn, umemOf, umem, mkeys, mkey, ignored, refused>>
          /\ buff' = buff
      BY <1>1, Zenon DEF AllocPdFails, Goto, Unwind, device
    <2>2. pc'[p] = "return" /\ ~Dumping(p)' /\ ~Dumping(p)
      BY <2>1, Moved
    <2> QED
      BY <1>0, <2>1, <2>2, Quiet, TypeData DEF HoldsPd, HoldsUmem, HoldsMkey, HoldsBuff, DataOK
  <1>2. CASE Memalign(p)
    <2>1. /\ pc[p] = "memalign" /\ pc' = [pc EXCEPT ![p] = "umem_reg"] /\ UNCHANGED has
          /\ UNCHANGED <<pdOf, pdn, umemOf, umem, mkeys, mkey, ignored, refused>>
          /\ buff' = [buff EXCEPT ![p] = "live"]
      BY <1>2, Zenon DEF Memalign, Goto, Unwind, device
    <2>2. pc'[p] = "umem_reg" /\ ~Dumping(p)' /\ ~Dumping(p)
      BY <2>1, Moved
    <2> QED
      BY <1>0, <2>1, <2>2, Quiet, TypeData DEF HoldsPd, HoldsUmem, HoldsMkey, HoldsBuff, DataOK
  <1>3. CASE MemalignFails(p)
    <2>1. /\ pc[p] = "memalign" /\ pc' = [pc EXCEPT ![p] = "dealloc_pd"] /\ UNCHANGED has
          /\ UNCHANGED <<pdOf, pdn, umemOf, umem, mkeys, mkey, ignored, refused>>
          /\ buff' = buff
      BY <1>3, Zenon DEF MemalignFails, Goto, Unwind, device
    <2>2. pc'[p] = "dealloc_pd" /\ ~Dumping(p)' /\ ~Dumping(p)
      BY <2>1, Moved
    <2> QED
      BY <1>0, <2>1, <2>2, Quiet, TypeData DEF HoldsPd, HoldsUmem, HoldsMkey, HoldsBuff, DataOK
  <1>4. CASE UmemRegFails(p)
    <2>1. /\ pc[p] = "umem_reg" /\ pc' = [pc EXCEPT ![p] = "free"] /\ UNCHANGED has
          /\ UNCHANGED <<pdOf, pdn, umemOf, umem, mkeys, mkey, ignored, refused>>
          /\ buff' = buff
      BY <1>4, Zenon DEF UmemRegFails, Goto, Unwind, device
    <2>2. pc'[p] = "free" /\ ~Dumping(p)' /\ ~Dumping(p)
      BY <2>1, Moved
    <2> QED
      BY <1>0, <2>1, <2>2, Quiet, TypeData DEF HoldsPd, HoldsUmem, HoldsMkey, HoldsBuff, DataOK
  <1>5. CASE CreateMkeyFails(p)
    <2>1. /\ pc[p] = "create_mkey" /\ pc' = [pc EXCEPT ![p] = "umem_unreg"] /\ UNCHANGED has
          /\ UNCHANGED <<pdOf, pdn, umemOf, umem, mkeys, mkey, ignored, refused>>
          /\ buff' = buff
      BY <1>5, Zenon DEF CreateMkeyFails, Goto, Unwind, device
    <2>2. pc'[p] = "umem_unreg" /\ ~Dumping(p)' /\ ~Dumping(p)
      BY <2>1, Moved
    <2> QED
      BY <1>0, <2>1, <2>2, Quiet, TypeData DEF HoldsPd, HoldsUmem, HoldsMkey, HoldsBuff, DataOK
  <1>6. CASE Free(p)
    <2>1. /\ pc[p] = "free" /\ pc' = [pc EXCEPT ![p] = "dealloc_pd"] /\ UNCHANGED has
          /\ UNCHANGED <<pdOf, pdn, umemOf, umem, mkeys, mkey, ignored, refused>>
          /\ buff' = [buff EXCEPT ![p] = "freed"]
      BY <1>6, Zenon DEF Free, Goto, Unwind, device
    <2>2. pc'[p] = "dealloc_pd" /\ ~Dumping(p)' /\ ~Dumping(p)
      BY <2>1, Moved
    <2> QED
      BY <1>0, <2>1, <2>2, Quiet, TypeData DEF HoldsPd, HoldsUmem, HoldsMkey, HoldsBuff, DataOK
  <1>7. CASE Start(p)
    <2>1. PICK u \in BOOLEAN : pc' = [pc EXCEPT ![p] = IF u THEN "alloc_pd" ELSE "dump"]
      BY <1>7, Zenon DEF Start, Goto
    <2>2. /\ pc[p] = "closed" /\ UNCHANGED has
          /\ UNCHANGED <<pdOf, pdn, umemOf, umem, mkeys, mkey, ignored, refused, buff>>
      BY <1>7, Zenon DEF Start, device
    <2>3. \E l \in {"alloc_pd", "dump"} : pc' = [pc EXCEPT ![p] = l]
      BY <2>1, Zenon
    <2>4. PICK l \in {"alloc_pd", "dump"} : pc' = [pc EXCEPT ![p] = l]
      BY <2>3
    <2>5. ~Dumping(p)
      BY <2>2, Zenon DEF Dumping
    <2>6. ~Dumping(p)'
      BY <2>2, Zenon DEF Dumping, HasInv, Inv
    <2>7. pc'[p] = l
      BY <2>2, <2>4, Moved
    <2> QED
      BY <1>0, <2>2, <2>4, <2>5, <2>6, <2>7, Quiet
         DEF HoldsPd, HoldsUmem, HoldsMkey, HoldsBuff
  <1>8. CASE Dump(p)
    <2>1. /\ pc[p] = "dump" /\ UNCHANGED has
          /\ UNCHANGED <<pdOf, pdn, umemOf, umem, mkeys, mkey, ignored, refused, buff>>
      BY <1>8, Zenon DEF Dump, device
    <2>2. CASE Dumping(p)
      <3>1. pc' = [pc EXCEPT ![p] = "destroy_mkey"] /\ Dumping(p)
        BY <1>8, <2>1, <2>2, Zenon DEF Dump, Goto, Dumping
      <3>2. pc' = [pc EXCEPT ![p] = "destroy_mkey"] /\ UNCHANGED has
        BY <2>1, <3>1, Zenon
      <3>3. pc'[p] = "destroy_mkey"
        BY <3>2, TypeData DEF DataOK
      <3>4. ~Dumping(p)'
        BY <3>3, Zenon DEF Dumping
      <3> QED
        BY <1>0, <2>1, <3>1, <3>2, <3>3, <3>4, Quiet DEF HoldsPd, HoldsUmem, HoldsMkey, HoldsBuff
    <2>3. CASE ~Dumping(p)
      <3>1. pc' = [pc EXCEPT ![p] = "return"] /\ ~Dumping(p)
        BY <1>8, <2>1, <2>3, Zenon DEF Dump, Goto, Dumping
      <3>2. pc' = [pc EXCEPT ![p] = "return"] /\ UNCHANGED has
        BY <2>1, <3>1, Zenon
      <3>3. pc'[p] = "return"
        BY <3>2, TypeData DEF DataOK
      <3>4. ~Dumping(p)'
        BY <3>3, Zenon DEF Dumping
      <3> QED
        BY <1>0, <2>1, <3>1, <3>2, <3>3, <3>4, Quiet DEF HoldsPd, HoldsUmem, HoldsMkey, HoldsBuff
    <2> QED
      BY <2>2, <2>3, Zenon
  <1> QED
    BY <1>1, <1>2, <1>3, <1>4, <1>5, <1>6, <1>7, <1>8, Zenon
-----------------------------------------------------------------------------
(* alloc_pd hands out a PD nobody owns, so nobody else's is touched.         *)
LEMMA AllocPdStep == ASSUME TypeOK, Inv, NEW p \in Procs, AllocPd(p) PROVE Inv'
  <1>1. /\ pc[p] = "alloc_pd" /\ pc' = [pc EXCEPT ![p] = "memalign"] /\ UNCHANGED has
        /\ UNCHANGED <<umemOf, umem, mkeys, mkey, buff, ignored, refused>>
    BY Zenon DEF AllocPd, Goto
  <1>2. PICK i \in Pds :
          /\ pdOf[i] = None
          /\ pdOf' = [pdOf EXCEPT ![i] = p]
          /\ pdn' = [pdn EXCEPT ![p] = i]
    BY Zenon DEF AllocPd
  <1>3. Elsewhere(p) /\ pc'[p] = "memalign" /\ ~Dumping(p)' /\ ~Dumping(p)
    BY <1>1, Moved
  <1>4. PdInv /\ UmemInv /\ MkeyInv /\ BuffInv /\ HasInv /\ NeverRefused /\ DataOK
    BY TypeData, Zenon DEF Inv
  <1>5. UmemInv'
    BY <1>1, <1>3, <1>4, UmemKept DEF HoldsUmem
  <1>6. /\ pdn'[p] = i /\ \A q \in Procs : q # p => pdn'[q] = pdn[q]
        /\ pdOf'[i] = p /\ \A k \in Pds : k # i => pdOf'[k] = pdOf[k]
    BY <1>2, <1>4 DEF DataOK
  <1>7. /\ ~HoldsPd(p) /\ ~HoldsMkey(p) /\ HoldsPd(p)' /\ ~HoldsMkey(p)'
        /\ \A q \in Procs : q # p => /\ HoldsPd(q)' <=> HoldsPd(q)
                                     /\ HoldsMkey(q)' <=> HoldsMkey(q)
    BY <1>1, <1>3 DEF HoldsPd, HoldsMkey, Elsewhere
  <1>8. PdInv'
    <2>1. \A k \in Pds : pdOf[k] # p
      BY <1>1, <1>4, <1>7 DEF PdInv
    <2>2. ASSUME NEW q \in Procs, HoldsPd(q)' PROVE pdOf'[pdn'[q]] = q
      <3>1. CASE q = p
        BY <1>6, <3>1
      <3>2. CASE q # p
        <4>1. pdn[q] \in Pds /\ pdOf[pdn[q]] = q
          BY <1>4, <1>7, <2>2, <3>2 DEF PdInv, DataOK
        <4> QED
          BY <1>2, <1>6, <3>2, <4>1, NoneAssumption
      <3> QED
        BY <3>1, <3>2
    <2>3. ASSUME NEW q \in Procs, NEW k \in Pds, pdOf'[k] = q
          PROVE  /\ k = pdn'[q]
                 /\ \/ HoldsPd(q)'
                    \/ pc'[q] = "return" /\ q \in ignored'
      <3>1. CASE k = i
        BY <1>6, <1>7, <2>3, <3>1
      <3>2. CASE k # i
        <4>1. pdOf[k] = q /\ q # p
          BY <1>6, <2>1, <2>3, <3>2
        <4> QED
          BY <1>1, <1>3, <1>4, <1>6, <1>7, <4>1 DEF PdInv, Elsewhere
      <3> QED
        BY <3>1, <3>2
    <2> QED
      BY <2>2, <2>3 DEF PdInv, Pds
  <1>9. MkeyInv'
    <2>1. \A m \in mkeys : m.owner \in Procs /\ m.pd \in Pds
      BY <1>4 DEF DataOK, MkeyRecord
    <2>2. \A m \in mkeys : m.owner # p /\ m.pd # i
      BY <1>1, <1>2, <1>4, <1>7, <2>1, NoneAssumption DEF MkeyInv
    <2>3. \A m \in mkeys : pdn'[m.owner] = pdn[m.owner] /\ pdOf'[m.pd] = pdOf[m.pd]
      BY <1>6, <2>1, <2>2
    <2>4. ASSUME NEW m \in mkeys
          PROVE  /\ m.idx = mkey'[m.owner].idx /\ m.pd = pdn'[m.owner] /\ m.umem = umem'[m.owner]
                 /\ pdOf'[m.pd] = m.owner /\ umemOf'[m.umem] = m.owner
                 /\ \/ HoldsMkey(m.owner)'
                    \/ /\ pc'[m.owner] \in {"umem_unreg", "free", "dealloc_pd", "return"}
                       /\ m.owner \in ignored'
      BY <1>1, <1>3, <1>4, <1>7, <2>1, <2>2, <2>3 DEF MkeyInv, Elsewhere
    <2>5. \A q \in Procs : HoldsMkey(q)' => \E m \in mkeys : m.owner = q
      BY <1>4, <1>7 DEF MkeyInv
    <2> QED
      BY <1>1, <1>4, <2>4, <2>5 DEF MkeyInv
  <1>10. BuffInv'
    BY <1>1, <1>3, <1>4, BuffKept DEF BuffInv, HoldsBuff
  <1>11. HasInv' /\ NeverRefused'
    BY <1>1, <1>3, <1>4, HasKept, Zenon DEF NeverRefused
  <1> QED
    BY <1>5, <1>8, <1>9, <1>10, <1>11, Zenon DEF Inv

(* umem_reg hands out a umem nobody owns, so nobody else's is touched.       *)
LEMMA UmemRegStep == ASSUME TypeOK, Inv, NEW p \in Procs, UmemReg(p) PROVE Inv'
  <1>1. /\ pc[p] = "umem_reg" /\ pc' = [pc EXCEPT ![p] = "create_mkey"] /\ UNCHANGED has
        /\ UNCHANGED <<pdOf, pdn, mkeys, mkey, buff, ignored, refused>>
    BY Zenon DEF UmemReg, Goto
  <1>2. PICK i \in Umems :
          /\ umemOf[i] = None
          /\ umemOf' = [umemOf EXCEPT ![i] = p]
          /\ umem' = [umem EXCEPT ![p] = i]
    BY Zenon DEF UmemReg
  <1>3. Elsewhere(p) /\ pc'[p] = "create_mkey" /\ ~Dumping(p)' /\ ~Dumping(p)
    BY <1>1, Moved
  <1>4. PdInv /\ UmemInv /\ MkeyInv /\ BuffInv /\ HasInv /\ NeverRefused /\ DataOK
    BY TypeData, Zenon DEF Inv
  <1>5. PdInv'
    BY <1>1, <1>3, <1>4, PdKept DEF HoldsPd
  <1>6. /\ umem'[p] = i /\ \A q \in Procs : q # p => umem'[q] = umem[q]
        /\ umemOf'[i] = p /\ \A k \in Umems : k # i => umemOf'[k] = umemOf[k]
    BY <1>2, <1>4 DEF DataOK
  <1>7. /\ ~HoldsUmem(p) /\ ~HoldsMkey(p) /\ HoldsUmem(p)' /\ ~HoldsMkey(p)'
        /\ \A q \in Procs : q # p => /\ HoldsUmem(q)' <=> HoldsUmem(q)
                                     /\ HoldsMkey(q)' <=> HoldsMkey(q)
    BY <1>1, <1>3 DEF HoldsUmem, HoldsMkey, Elsewhere
  <1>8. UmemInv'
    <2>1. \A k \in Umems : umemOf[k] # p
      BY <1>1, <1>4, <1>7 DEF UmemInv
    <2>2. ASSUME NEW q \in Procs, HoldsUmem(q)' PROVE umemOf'[umem'[q]] = q
      <3>1. CASE q = p
        BY <1>6, <3>1
      <3>2. CASE q # p
        <4>1. umem[q] \in Umems /\ umemOf[umem[q]] = q
          BY <1>4, <1>7, <2>2, <3>2 DEF UmemInv, DataOK
        <4> QED
          BY <1>2, <1>6, <3>2, <4>1, NoneAssumption
      <3> QED
        BY <3>1, <3>2
    <2>3. ASSUME NEW q \in Procs, NEW k \in Umems, umemOf'[k] = q
          PROVE  /\ k = umem'[q]
                 /\ \/ HoldsUmem(q)'
                    \/ pc'[q] \in {"free", "dealloc_pd", "return"} /\ q \in ignored'
      <3>1. CASE k = i
        BY <1>6, <1>7, <2>3, <3>1
      <3>2. CASE k # i
        <4>1. umemOf[k] = q /\ q # p
          BY <1>6, <2>1, <2>3, <3>2
        <4> QED
          BY <1>1, <1>3, <1>4, <1>6, <1>7, <4>1 DEF UmemInv, Elsewhere
      <3> QED
        BY <3>1, <3>2
    <2> QED
      BY <2>2, <2>3 DEF UmemInv, Umems
  <1>9. MkeyInv'
    <2>1. \A m \in mkeys : m.owner \in Procs /\ m.umem \in Umems
      BY <1>4 DEF DataOK, MkeyRecord
    <2>2. \A m \in mkeys : m.owner # p /\ m.umem # i
      BY <1>1, <1>2, <1>4, <1>7, <2>1, NoneAssumption DEF MkeyInv
    <2>3. \A m \in mkeys : umem'[m.owner] = umem[m.owner] /\ umemOf'[m.umem] = umemOf[m.umem]
      BY <1>6, <2>1, <2>2
    <2>4. ASSUME NEW m \in mkeys
          PROVE  /\ m.idx = mkey'[m.owner].idx /\ m.pd = pdn'[m.owner] /\ m.umem = umem'[m.owner]
                 /\ pdOf'[m.pd] = m.owner /\ umemOf'[m.umem] = m.owner
                 /\ \/ HoldsMkey(m.owner)'
                    \/ /\ pc'[m.owner] \in {"umem_unreg", "free", "dealloc_pd", "return"}
                       /\ m.owner \in ignored'
      BY <1>1, <1>3, <1>4, <1>7, <2>1, <2>2, <2>3 DEF MkeyInv, Elsewhere
    <2>5. \A q \in Procs : HoldsMkey(q)' => \E m \in mkeys : m.owner = q
      BY <1>4, <1>7 DEF MkeyInv
    <2> QED
      BY <1>1, <1>4, <2>4, <2>5 DEF MkeyInv
  <1>10. BuffInv'
    BY <1>1, <1>3, <1>4, BuffKept DEF BuffInv, HoldsBuff
  <1>11. HasInv' /\ NeverRefused'
    BY <1>1, <1>3, <1>4, HasKept, Zenon DEF NeverRefused
  <1> QED
    BY <1>5, <1>8, <1>9, <1>10, <1>11, Zenon DEF Inv

(* create_mkey makes a key over the PD and the umem this process owns, under *)
(* an index no other key has.                                                *)
LEMMA CreateMkeyStep == ASSUME TypeOK, Inv, NEW p \in Procs, CreateMkey(p) PROVE Inv'
  <1>1. /\ pc[p] = "create_mkey" /\ pc' = [pc EXCEPT ![p] = "dump"]
        /\ UNCHANGED <<pdOf, pdn, umemOf, umem, buff, ignored, refused>>
    BY Zenon DEF CreateMkey, Goto
  <1>2. PICK i \in MkeyIdx \ UsedIdx :
          /\ mkeys' = mkeys \cup {[idx |-> i, owner |-> p, pd |-> pdn[p], umem |-> umem[p]]}
          /\ mkey' = [mkey EXCEPT ![p] = idx_to_mkey(i)]
    BY Zenon DEF CreateMkey
  <1>3. Elsewhere(p) /\ pc'[p] = "dump" /\ Dumping(p)' /\ ~Dumping(p)
    <2>1. has' = [has EXCEPT ![p] = TRUE]
      BY Zenon DEF CreateMkey
    <2>2. has \in [Procs -> BOOLEAN]
      BY Zenon DEF TypeOK
    <2>5. DataOK
      BY TypeData, Zenon
    <2>6. pc'[p] = "dump" /\ \A q \in Procs : q # p => pc'[q] = pc[q]
      BY <1>1, <2>5 DEF DataOK
    <2>7. has'[p] /\ \A q \in Procs : q # p => (has'[q] <=> has[q])
      BY <2>1, <2>2, Zenon
    <2>3. /\ pc'[p] = "dump" /\ \A q \in Procs : q # p => pc'[q] = pc[q]
          /\ has'[p] /\ \A q \in Procs : q # p => (has'[q] <=> has[q])
      BY <2>6, <2>7, Zenon
    <2>4. Dumping(p)' /\ ~Dumping(p)
      BY <1>1, <2>3, Zenon DEF Dumping
    <2> QED
      BY <2>3, <2>4, Zenon DEF Dumping, Elsewhere
  <1>4. PdInv /\ UmemInv /\ MkeyInv /\ BuffInv /\ HasInv /\ NeverRefused /\ DataOK
    BY TypeData, Zenon DEF Inv
  <1>5. PdInv'
    BY <1>1, <1>3, <1>4, PdKept DEF HoldsPd
  <1>6. UmemInv'
    BY <1>1, <1>3, <1>4, UmemKept DEF HoldsUmem
  <1>7. MkeyInv'
    <2> DEFINE new == [idx |-> i, owner |-> p, pd |-> pdn[p], umem |-> umem[p]]
    <2>1. \A m \in mkeys : m.owner \in Procs /\ m.owner # p /\ m.idx # i
      <3>1. ASSUME NEW m \in mkeys PROVE m.owner \in Procs
        BY <1>4 DEF DataOK, MkeyRecord
      <3>2. ASSUME NEW m \in mkeys PROVE m.idx # i
        BY <1>2 DEF UsedIdx
      <3>3. ~HoldsMkey(p) /\ pc[p] \notin {"umem_unreg", "free", "dealloc_pd", "return"}
        BY <1>1, <1>2, <1>3 DEF HoldsMkey
      <3>4. ASSUME NEW m \in mkeys PROVE m.owner # p
        BY <1>4, <3>3 DEF MkeyInv
      <3> QED
        BY <3>1, <3>2, <3>4
    <2>2. /\ mkey'[p].idx = i
          /\ \A q \in Procs : q # p => mkey'[q] = mkey[q]
      BY <1>2, <1>4 DEF DataOK, idx_to_mkey
    <2>3. /\ new.idx = i /\ new.owner = p /\ new.pd = pdn[p] /\ new.umem = umem[p]
          /\ mkeys' = mkeys \cup {new}
      BY <1>2
    <2>4. pdOf[pdn[p]] = p /\ umemOf[umem[p]] = p
      BY <1>1, <1>4 DEF PdInv, UmemInv, HoldsPd, HoldsUmem
    <2> HIDE DEF new
    <2>5. \A q \in Procs : HoldsMkey(q)' => \E m \in mkeys' : m.owner = q
      BY <1>1, <1>3, <1>4, <2>3 DEF MkeyInv, HoldsMkey, Elsewhere
    <2>6. ASSUME NEW m \in mkeys'
          PROVE  /\ m.idx = mkey'[m.owner].idx /\ m.pd = pdn'[m.owner] /\ m.umem = umem'[m.owner]
                 /\ pdOf'[m.pd] = m.owner /\ umemOf'[m.umem] = m.owner
                 /\ \/ HoldsMkey(m.owner)'
                    \/ /\ pc'[m.owner] \in {"umem_unreg", "free", "dealloc_pd", "return"}
                       /\ m.owner \in ignored'
      <3>1. CASE m = new
        BY <1>1, <1>3, <2>2, <2>3, <2>4, <3>1 DEF HoldsMkey
      <3>2. CASE m \in mkeys
        BY <1>1, <1>3, <1>4, <2>1, <2>2, <3>2 DEF MkeyInv, HoldsMkey, Elsewhere
      <3> QED
        BY <2>3, <3>1, <3>2
    <2>7. \A m, n \in mkeys' : m.idx = n.idx => m = n
      BY <1>4, <2>1, <2>3 DEF MkeyInv
    <2> QED
      BY <2>5, <2>6, <2>7 DEF MkeyInv
  <1>8. BuffInv'
    BY <1>1, <1>3, <1>4, BuffKept DEF BuffInv, HoldsBuff
  <1>9. HasInv'
    <2>1. \A q \in Procs : q # p => has'[q] = has[q]
      <3>1. has' = [has EXCEPT ![p] = TRUE]
        BY Zenon DEF CreateMkey
      <3>2. has \in [Procs -> BOOLEAN]
        BY Zenon DEF TypeOK
      <3> QED
        BY <3>1, <3>2, Zenon
    <2> QED
      BY <1>3, <1>4, <2>1, Zenon DEF HasInv, Elsewhere
  <1>10. NeverRefused'
    BY <1>1, <1>4 DEF NeverRefused
  <1> QED
    BY <1>5, <1>6, <1>7, <1>8, <1>9, <1>10, Zenon DEF Inv
-----------------------------------------------------------------------------
(* destroy_mkey hits the caller's key and no other, indices being unique.    *)
(* When the command fails the key stays, and the process is known for it.    *)
LEMMA DestroyMkeyStep == ASSUME TypeOK, Inv, NEW p \in Procs, DestroyMkey(p) PROVE Inv'
  <1>1. /\ pc[p] = "destroy_mkey" /\ pc' = [pc EXCEPT ![p] = "umem_unreg"] /\ UNCHANGED has
        /\ UNCHANGED <<pdOf, pdn, umemOf, umem, mkey, buff, refused>>
    BY Zenon DEF DestroyMkey, Goto
  <1>2. \/ mkeys' = {m \in mkeys : m.idx # mkey[p].idx} /\ ignored' = ignored
        \/ mkeys' = mkeys /\ ignored' = ignored \cup {p}
    BY DEF DestroyMkey, DestroyFails, mkey_to_idx
  <1>3. Elsewhere(p) /\ pc'[p] = "umem_unreg" /\ ~Dumping(p)' /\ ~Dumping(p)
    BY <1>1, Moved
  <1>4. PdInv /\ UmemInv /\ MkeyInv /\ BuffInv /\ HasInv /\ NeverRefused /\ DataOK
    BY TypeData, Zenon DEF Inv
  <1>5. ignored \subseteq ignored'
    BY <1>2
  <1>6. PdInv' /\ UmemInv'
    BY <1>1, <1>3, <1>4, <1>5, PdKept, UmemKept DEF HoldsPd, HoldsUmem
  <1>7. MkeyInv'
    <2>1. /\ HoldsMkey(p) /\ ~HoldsMkey(p)'
          /\ \A q \in Procs : q # p => (HoldsMkey(q)' <=> HoldsMkey(q))
      BY <1>1, <1>3 DEF HoldsMkey, Elsewhere
    <2>2. \A m \in mkeys : m.owner \in Procs
      BY <1>4 DEF DataOK, MkeyRecord
    <2>3. \A m \in mkeys : m.owner = p <=> m.idx = mkey[p].idx
      BY <1>4, <2>1 DEF MkeyInv
    <2>4. mkeys' \subseteq mkeys
      BY <1>2
    <2>5. \A m \in mkeys : m.owner # p => m \in mkeys'
      BY <1>2, <2>3
    <2>6. \A m \in mkeys' : m.owner # p \/ p \in ignored'
      BY <1>2, <2>3
    <2>7. ASSUME NEW m \in mkeys'
          PROVE  /\ m.idx = mkey'[m.owner].idx /\ m.pd = pdn'[m.owner] /\ m.umem = umem'[m.owner]
                 /\ pdOf'[m.pd] = m.owner /\ umemOf'[m.umem] = m.owner
                 /\ \/ HoldsMkey(m.owner)'
                    \/ /\ pc'[m.owner] \in {"umem_unreg", "free", "dealloc_pd", "return"}
                       /\ m.owner \in ignored'
      <3>1. CASE m.owner = p
        BY <1>1, <1>3, <1>4, <2>4, <2>6, <3>1 DEF MkeyInv
      <3>2. CASE m.owner # p
        BY <1>1, <1>3, <1>4, <1>5, <2>1, <2>2, <2>4, <3>2 DEF MkeyInv, Elsewhere
      <3> QED
        BY <3>1, <3>2
    <2>8. \A q \in Procs : HoldsMkey(q)' => \E m \in mkeys' : m.owner = q
      BY <1>4, <2>1, <2>5 DEF MkeyInv
    <2>9. \A m, n \in mkeys' : m.idx = n.idx => m = n
      BY <1>4, <2>4 DEF MkeyInv
    <2> QED
      BY <2>7, <2>8, <2>9 DEF MkeyInv
  <1>8. BuffInv'
    BY <1>1, <1>3, <1>4, BuffKept DEF BuffInv, HoldsBuff
  <1>9. HasInv'
    BY <1>1, <1>3, <1>4, HasKept, Zenon
  <1>10. NeverRefused'
    BY <1>1, <1>4, <1>5 DEF NeverRefused
  <1> QED
    BY <1>6, <1>7, <1>8, <1>9, <1>10, Zenon DEF Inv

(* umem_unreg finds the umem in use only by a key of the caller, which then  *)
(* had a destroy command fail.                                               *)
LEMMA UmemUnregStep == ASSUME TypeOK, Inv, NEW p \in Procs, UmemUnreg(p) PROVE Inv'
  <1> DEFINE inUse == \E m \in mkeys : m.umem = umem[p]
  <1>1. /\ pc[p] = "umem_unreg" /\ pc' = [pc EXCEPT ![p] = "free"] /\ UNCHANGED has
        /\ UNCHANGED <<pdOf, pdn, umem, mkeys, mkey, buff>>
    BY Zenon DEF UmemUnreg, Goto
  <1>2. /\ \/ ~inUse /\ umemOf' = [umemOf EXCEPT ![umem[p]] = None] /\ ignored' = ignored
           \/ inUse /\ umemOf' = umemOf /\ ignored' = ignored
           \/ umemOf' = umemOf /\ ignored' = ignored \cup {p}
        /\ refused' = IF inUse THEN refused \cup {p} ELSE refused
    BY DEF UmemUnreg, DestroyFails, Refuse
  <1>3. Elsewhere(p) /\ pc'[p] = "free" /\ ~Dumping(p)' /\ ~Dumping(p)
    BY <1>1, Moved
  <1>4. PdInv /\ UmemInv /\ MkeyInv /\ BuffInv /\ HasInv /\ NeverRefused /\ DataOK
    BY TypeData, Zenon DEF Inv
  <1>5. /\ HoldsUmem(p) /\ ~HoldsUmem(p)' /\ ~HoldsMkey(p) /\ ~HoldsMkey(p)'
        /\ \A q \in Procs : q # p => /\ HoldsUmem(q)' <=> HoldsUmem(q)
                                     /\ HoldsMkey(q)' <=> HoldsMkey(q)
    BY <1>1, <1>3 DEF HoldsUmem, HoldsMkey, Elsewhere
  <1>6. inUse => p \in ignored
    BY <1>4, <1>5 DEF UmemInv, MkeyInv
  <1> HIDE DEF inUse
  <1>7. /\ ignored \subseteq ignored'
        /\ \/ ~inUse /\ umemOf' = [umemOf EXCEPT ![umem[p]] = None]
           \/ umemOf' = umemOf /\ p \in ignored'
    BY <1>2, <1>6
  <1>8. \A k \in Umems : umemOf'[k] = umemOf[k] \/ (k = umem[p] /\ umemOf'[k] = None)
    BY <1>4, <1>7 DEF DataOK
  <1>9. PdInv'
    BY <1>1, <1>3, <1>4, <1>7, PdKept DEF HoldsPd
  <1>10. UmemInv'
    <2>1. ASSUME NEW q \in Procs, HoldsUmem(q)' PROVE umemOf'[umem'[q]] = q
      <3>1. q # p /\ umem[q] \in Umems /\ umemOf[umem[q]] = q
        BY <1>4, <1>5, <2>1 DEF UmemInv, DataOK
      <3>2. umemOf[umem[p]] = p
        BY <1>4, <1>5 DEF UmemInv
      <3> QED
        BY <1>1, <1>8, <3>1, <3>2
    <2>2. ASSUME NEW q \in Procs, NEW k \in Umems, umemOf'[k] = q
          PROVE  /\ k = umem'[q]
                 /\ \/ HoldsUmem(q)'
                    \/ pc'[q] \in {"free", "dealloc_pd", "return"} /\ q \in ignored'
      <3>1. umemOf[k] = q
        BY <1>8, <2>2, NoneAssumption
      <3>2. k = umem[q]
        BY <1>4, <3>1 DEF UmemInv
      <3>3. CASE q = p
        <4>0. umemOf \in [Umems -> Procs \cup {None}]
          BY <1>4 DEF DataOK
        <4>2. umemOf' # [umemOf EXCEPT ![umem[p]] = None]
          BY <2>2, <3>2, <3>3, <4>0, NoneAssumption
        <4>1. umemOf' = umemOf /\ p \in ignored'
          BY <1>7, <4>2, Zenon
        <4> QED
          BY <1>1, <1>3, <3>2, <3>3, <4>1
      <3>4. CASE q # p
        BY <1>1, <1>3, <1>4, <1>5, <1>7, <3>1, <3>4 DEF UmemInv, Elsewhere
      <3> QED
        BY <3>3, <3>4
    <2> QED
      BY <2>1, <2>2 DEF UmemInv, Umems
  <1>11. MkeyInv'
    <2>1. \A m \in mkeys : m.owner \in Procs /\ m.umem \in Umems
      BY <1>4 DEF DataOK, MkeyRecord
    <2>2. \A m \in mkeys : umemOf'[m.umem] = umemOf[m.umem]
      BY <1>4, <1>7, <2>1 DEF DataOK, inUse
    <2>3. ASSUME NEW m \in mkeys
          PROVE  /\ m.idx = mkey'[m.owner].idx /\ m.pd = pdn'[m.owner] /\ m.umem = umem'[m.owner]
                 /\ pdOf'[m.pd] = m.owner /\ umemOf'[m.umem] = m.owner
                 /\ \/ HoldsMkey(m.owner)'
                    \/ /\ pc'[m.owner] \in {"umem_unreg", "free", "dealloc_pd", "return"}
                       /\ m.owner \in ignored'
      <3>1. CASE m.owner = p
        BY <1>1, <1>3, <1>4, <1>5, <1>7, <2>2, <3>1 DEF MkeyInv
      <3>2. CASE m.owner # p
        BY <1>1, <1>3, <1>4, <1>5, <1>7, <2>1, <2>2, <3>2 DEF MkeyInv, Elsewhere
      <3> QED
        BY <3>1, <3>2
    <2>4. \A q \in Procs : HoldsMkey(q)' => \E m \in mkeys : m.owner = q
      BY <1>4, <1>5 DEF MkeyInv
    <2> QED
      BY <1>1, <1>4, <2>3, <2>4 DEF MkeyInv
  <1>12. BuffInv'
    BY <1>1, <1>3, <1>4, BuffKept DEF BuffInv, HoldsBuff
  <1>13. HasInv'
    BY <1>1, <1>3, <1>4, HasKept, Zenon
  <1>14. NeverRefused'
    BY <1>2, <1>4, <1>6, <1>7 DEF NeverRefused
  <1> QED
    BY <1>9, <1>10, <1>11, <1>12, <1>13, <1>14, Zenon DEF Inv

(* dealloc_pd likewise.                                                      *)
LEMMA DeallocPdStep == ASSUME TypeOK, Inv, NEW p \in Procs, DeallocPd(p) PROVE Inv'
  <1> DEFINE inUse == \E m \in mkeys : m.pd = pdn[p]
  <1>1. /\ pc[p] = "dealloc_pd" /\ pc' = [pc EXCEPT ![p] = "return"] /\ UNCHANGED has
        /\ UNCHANGED <<umemOf, pdn, umem, mkeys, mkey, buff>>
    BY Zenon DEF DeallocPd, Goto
  <1>2. /\ \/ ~inUse /\ pdOf' = [pdOf EXCEPT ![pdn[p]] = None] /\ ignored' = ignored
           \/ inUse /\ pdOf' = pdOf /\ ignored' = ignored
           \/ pdOf' = pdOf /\ ignored' = ignored \cup {p}
        /\ refused' = IF inUse THEN refused \cup {p} ELSE refused
    BY DEF DeallocPd, DestroyFails, Refuse
  <1>3. Elsewhere(p) /\ pc'[p] = "return" /\ ~Dumping(p)' /\ ~Dumping(p)
    BY <1>1, Moved
  <1>4. PdInv /\ UmemInv /\ MkeyInv /\ BuffInv /\ HasInv /\ NeverRefused /\ DataOK
    BY TypeData, Zenon DEF Inv
  <1>5. /\ HoldsPd(p) /\ ~HoldsPd(p)' /\ ~HoldsMkey(p) /\ ~HoldsMkey(p)'
        /\ \A q \in Procs : q # p => /\ HoldsPd(q)' <=> HoldsPd(q)
                                     /\ HoldsMkey(q)' <=> HoldsMkey(q)
    BY <1>1, <1>3 DEF HoldsPd, HoldsMkey, Elsewhere
  <1>6. inUse => p \in ignored
    BY <1>4, <1>5 DEF PdInv, MkeyInv
  <1> HIDE DEF inUse
  <1>7. /\ ignored \subseteq ignored'
        /\ \/ ~inUse /\ pdOf' = [pdOf EXCEPT ![pdn[p]] = None]
           \/ pdOf' = pdOf /\ p \in ignored'
    BY <1>2, <1>6
  <1>8. \A k \in Pds : pdOf'[k] = pdOf[k] \/ (k = pdn[p] /\ pdOf'[k] = None)
    BY <1>4, <1>7 DEF DataOK
  <1>9. UmemInv'
    BY <1>1, <1>3, <1>4, <1>7, UmemKept DEF HoldsUmem
  <1>10. PdInv'
    <2>1. ASSUME NEW q \in Procs, HoldsPd(q)' PROVE pdOf'[pdn'[q]] = q
      <3>1. q # p /\ pdn[q] \in Pds /\ pdOf[pdn[q]] = q
        <4>1. q # p /\ HoldsPd(q)
          BY <1>5, <2>1
        <4> QED
          BY <1>4, <4>1 DEF PdInv, DataOK
      <3>2. pdOf[pdn[p]] = p
        BY <1>4, <1>5 DEF PdInv
      <3> QED
        BY <1>1, <1>8, <3>1, <3>2
    <2>2. ASSUME NEW q \in Procs, NEW k \in Pds, pdOf'[k] = q
          PROVE  /\ k = pdn'[q]
                 /\ \/ HoldsPd(q)'
                    \/ pc'[q] = "return" /\ q \in ignored'
      <3>1. pdOf[k] = q
        BY <1>8, <2>2, NoneAssumption
      <3>2. k = pdn[q]
        BY <1>4, <3>1 DEF PdInv
      <3>3. CASE q = p
        <4>0. pdOf \in [Pds -> Procs \cup {None}]
          BY <1>4 DEF DataOK
        <4>2. pdOf' # [pdOf EXCEPT ![pdn[p]] = None]
          BY <2>2, <3>2, <3>3, <4>0, NoneAssumption
        <4>1. pdOf' = pdOf /\ p \in ignored'
          BY <1>7, <4>2, Zenon
        <4> QED
          BY <1>1, <1>3, <3>2, <3>3, <4>1
      <3>4. CASE q # p
        BY <1>1, <1>3, <1>4, <1>5, <1>7, <3>1, <3>4 DEF PdInv, Elsewhere
      <3> QED
        BY <3>3, <3>4
    <2> QED
      BY <2>1, <2>2 DEF PdInv, Pds
  <1>11. MkeyInv'
    <2>1. \A m \in mkeys : m.owner \in Procs /\ m.pd \in Pds
      BY <1>4 DEF DataOK, MkeyRecord
    <2>2. \A m \in mkeys : pdOf'[m.pd] = pdOf[m.pd]
      BY <1>4, <1>7, <2>1 DEF DataOK, inUse
    <2>3. ASSUME NEW m \in mkeys
          PROVE  /\ m.idx = mkey'[m.owner].idx /\ m.pd = pdn'[m.owner] /\ m.umem = umem'[m.owner]
                 /\ pdOf'[m.pd] = m.owner /\ umemOf'[m.umem] = m.owner
                 /\ \/ HoldsMkey(m.owner)'
                    \/ /\ pc'[m.owner] \in {"umem_unreg", "free", "dealloc_pd", "return"}
                       /\ m.owner \in ignored'
      <3>1. CASE m.owner = p
        BY <1>1, <1>3, <1>4, <1>5, <1>7, <2>2, <3>1 DEF MkeyInv
      <3>2. CASE m.owner # p
        BY <1>1, <1>3, <1>4, <1>5, <1>7, <2>1, <2>2, <3>2 DEF MkeyInv, Elsewhere
      <3> QED
        BY <3>1, <3>2
    <2>4. \A q \in Procs : HoldsMkey(q)' => \E m \in mkeys : m.owner = q
      BY <1>4, <1>5 DEF MkeyInv
    <2> QED
      BY <1>1, <1>4, <2>3, <2>4 DEF MkeyInv
  <1>12. BuffInv'
    BY <1>1, <1>3, <1>4, BuffKept DEF BuffInv, HoldsBuff
  <1>13. HasInv'
    BY <1>1, <1>3, <1>4, HasKept, Zenon
  <1>14. NeverRefused'
    BY <1>2, <1>4, <1>6, <1>7 DEF NeverRefused
  <1> QED
    BY <1>9, <1>10, <1>11, <1>12, <1>13, <1>14, Zenon DEF Inv

(* The kernel's reclaim, after exit or kill, leaves nothing of the process and *)
(* everything of the others.                                                 *)
LEMMA GoneStep == ASSUME TypeOK, Inv, NEW p \in Procs, Gone(p) PROVE Inv'
  <1>1. PdInv /\ UmemInv /\ MkeyInv /\ BuffInv /\ HasInv /\ NeverRefused /\ DataOK
    BY TypeData, Zenon DEF Inv
  <1>2. /\ pc'[p] = "closed" /\ buff'[p] = "none"
        /\ \A q \in Procs : q # p =>
             /\ pc'[q] = pc[q] /\ buff'[q] = buff[q] /\ pdn'[q] = pdn[q]
             /\ umem'[q] = umem[q] /\ mkey'[q] = mkey[q]
    BY <1>1 DEF Gone, Goto, DataOK
  <1>3. ~has'[p] /\ \A q \in Procs : q # p => (has'[q] <=> has[q])
    <2>1. has' = [has EXCEPT ![p] = FALSE] /\ has \in [Procs -> BOOLEAN]
      BY Zenon DEF Gone, TypeOK
    <2> QED
      BY <2>1, Zenon
  <1>4. ~Dumping(p)' /\ \A q \in Procs : q # p => (Dumping(q)' <=> Dumping(q))
    BY <1>2, <1>3, Zenon DEF Dumping
  <1>5. /\ mkeys' = {m \in mkeys : m.owner # p}
        /\ \A k \in Umems : umemOf'[k] = IF umemOf[k] = p THEN None ELSE umemOf[k]
        /\ \A k \in Pds : pdOf'[k] = IF pdOf[k] = p THEN None ELSE pdOf[k]
        /\ refused' = refused \ {p} /\ ignored' = ignored \ {p}
    BY DEF Gone, Reclaim
  <1>6. PdInv'
    <2>1. ~HoldsPd(p)' /\ \A q \in Procs : q # p => (HoldsPd(q)' <=> HoldsPd(q))
      BY <1>2, <1>4 DEF HoldsPd
    <2>2. ASSUME NEW q \in Procs, HoldsPd(q)' PROVE pdOf'[pdn'[q]] = q
      <3>1. q # p /\ pdn[q] \in Pds /\ pdOf[pdn[q]] = q /\ pdn'[q] = pdn[q]
        BY <1>1, <1>2, <2>1, <2>2 DEF PdInv, DataOK
      <3> QED
        BY <1>5, <3>1
    <2>3. ASSUME NEW q \in Procs, NEW k \in Pds, pdOf'[k] = q
          PROVE  /\ k = pdn'[q]
                 /\ HoldsPd(q)' \/ (pc'[q] = "return" /\ q \in ignored')
      <3>1. pdOf[k] = q /\ q # p
        BY <1>5, <2>3, NoneAssumption
      <3> QED
        BY <1>1, <1>2, <1>5, <2>1, <3>1 DEF PdInv
    <2> QED
      BY <2>2, <2>3 DEF PdInv, Pds
  <1>7. UmemInv'
    <2>1. ~HoldsUmem(p)' /\ \A q \in Procs : q # p => (HoldsUmem(q)' <=> HoldsUmem(q))
      BY <1>2, <1>4 DEF HoldsUmem
    <2>2. ASSUME NEW q \in Procs, HoldsUmem(q)' PROVE umemOf'[umem'[q]] = q
      <3>1. q # p /\ umem[q] \in Umems /\ umemOf[umem[q]] = q /\ umem'[q] = umem[q]
        BY <1>1, <1>2, <2>1, <2>2 DEF UmemInv, DataOK
      <3> QED
        BY <1>5, <3>1
    <2>3. ASSUME NEW q \in Procs, NEW k \in Umems, umemOf'[k] = q
          PROVE  /\ k = umem'[q]
                 /\ \/ HoldsUmem(q)'
                    \/ pc'[q] \in {"free", "dealloc_pd", "return"} /\ q \in ignored'
      <3>1. umemOf[k] = q /\ q # p
        BY <1>5, <2>3, NoneAssumption
      <3> QED
        BY <1>1, <1>2, <1>5, <2>1, <3>1 DEF UmemInv
    <2> QED
      BY <2>2, <2>3 DEF UmemInv, Umems
  <1>8. MkeyInv'
    <2>1. ~HoldsMkey(p)' /\ \A q \in Procs : q # p => (HoldsMkey(q)' <=> HoldsMkey(q))
      BY <1>2, <1>4 DEF HoldsMkey
    <2>2. \A m \in mkeys : m.owner \in Procs /\ m.pd \in Pds /\ m.umem \in Umems
      BY <1>1 DEF DataOK, MkeyRecord
    <2>3. ASSUME NEW m \in mkeys'
          PROVE  /\ m.idx = mkey'[m.owner].idx /\ m.pd = pdn'[m.owner] /\ m.umem = umem'[m.owner]
                 /\ pdOf'[m.pd] = m.owner /\ umemOf'[m.umem] = m.owner
                 /\ \/ HoldsMkey(m.owner)'
                    \/ /\ pc'[m.owner] \in {"umem_unreg", "free", "dealloc_pd", "return"}
                       /\ m.owner \in ignored'
      BY <1>1, <1>2, <1>5, <2>1, <2>2 DEF MkeyInv
    <2>4. \A q \in Procs : HoldsMkey(q)' => \E m \in mkeys' : m.owner = q
      BY <1>1, <1>5, <2>1 DEF MkeyInv
    <2>5. \A m, n \in mkeys' : m.idx = n.idx => m = n
      BY <1>1, <1>5 DEF MkeyInv
    <2> QED
      BY <2>3, <2>4, <2>5 DEF MkeyInv
  <1>9. BuffInv'
    <2>1. ~HoldsBuff(p)' /\ \A q \in Procs : q # p => (HoldsBuff(q)' <=> HoldsBuff(q))
      BY <1>2, <1>4 DEF HoldsBuff
    <2> QED
      BY <1>1, <1>2, <2>1 DEF BuffInv
  <1>10. HasInv'
    BY <1>1, <1>2, <1>3, Zenon DEF HasInv
  <1>11. NeverRefused'
    BY <1>1, <1>5 DEF NeverRefused
  <1> QED
    BY <1>6, <1>7, <1>8, <1>9, <1>10, <1>11, Zenon DEF Inv

(* Every step of every process keeps the invariant.                          *)
LEMMA InvStep == TypeOK /\ Inv /\ [Next]_vars => Inv'
  <1> SUFFICES ASSUME TypeOK, Inv, [Next]_vars PROVE Inv'
    OBVIOUS
  <1>1. CASE UNCHANGED vars
    <2>1. /\ UNCHANGED pc /\ UNCHANGED has
          /\ UNCHANGED <<pdn, buff, umem, mkey, pdOf, umemOf, mkeys, refused, ignored>>
      BY <1>1, Zenon DEF vars
    <2>2. \A p \in Procs : Dumping(p)' <=> Dumping(p)
      BY <2>1, Zenon DEF Dumping
    <2>3. PdInv' /\ UmemInv' /\ MkeyInv' /\ BuffInv' /\ NeverRefused'
      <3>1. PdInv /\ UmemInv /\ MkeyInv /\ BuffInv /\ NeverRefused /\ DataOK
        BY TypeData, Zenon DEF Inv
      <3>2. \A p \in Procs : /\ HoldsPd(p)' <=> HoldsPd(p)
                             /\ HoldsUmem(p)' <=> HoldsUmem(p)
                             /\ HoldsMkey(p)' <=> HoldsMkey(p)
                             /\ HoldsBuff(p)' <=> HoldsBuff(p)
        BY <2>1, <2>2 DEF HoldsPd, HoldsUmem, HoldsMkey, HoldsBuff
      <3>3. \A m \in mkeys : m.owner \in Procs
        BY <3>1 DEF DataOK, MkeyRecord
      <3>4. PdInv' /\ UmemInv'
        BY <2>1, <3>1, <3>2 DEF PdInv, UmemInv, Pds, Umems
      <3>5. MkeyInv'
        BY <2>1, <3>1, <3>2, <3>3 DEF MkeyInv
      <3>6. BuffInv' /\ NeverRefused'
        BY <2>1, <3>1, <3>2 DEF BuffInv, NeverRefused
      <3> QED
        BY <3>4, <3>5, <3>6
    <2>4. HasInv'
      BY <2>1, Zenon DEF HasInv, Inv
    <2> QED
      BY <2>3, <2>4, Zenon DEF Inv
  <1>2. ASSUME NEW p \in Procs, Start(p) \/ Run(p) \/ Kill(p) PROVE Inv'
    <2>1. CASE \/ Start(p) \/ AllocPdFails(p) \/ Memalign(p) \/ MemalignFails(p)
               \/ UmemRegFails(p) \/ CreateMkeyFails(p) \/ Dump(p) \/ Free(p)
      BY <2>1, QuietStep, Zenon
    <2>2. CASE AllocPd(p) \/ UmemReg(p) \/ CreateMkey(p)
      BY <2>2, AllocPdStep, UmemRegStep, CreateMkeyStep, Zenon
    <2>3. CASE DestroyMkey(p) \/ UmemUnreg(p) \/ DeallocPd(p)
      BY <2>3, DestroyMkeyStep, UmemUnregStep, DeallocPdStep, Zenon
    <2>4. CASE Gone(p)
      BY <2>4, GoneStep, Zenon
    <2> QED
      BY <1>2, <2>1, <2>2, <2>3, <2>4, Zenon DEF Run, SetUp, TearDown, Close, Kill
  <1> QED
    BY <1>1, <1>2, Zenon DEF Next

(* The invariant holds in every state that any number of processes can reach, *)
(* whatever fails and whoever is killed.                                     *)
THEOREM Invariance == Spec => [](TypeOK /\ Inv)
  <1>1. Init => TypeOK /\ Inv
    BY InitInv, Zenon
  <1>2. TypeOK /\ Inv /\ [Next]_vars => (TypeOK /\ Inv)'
    BY TypeStep, InvStep
  <1> QED
    BY <1>1, <1>2, PTL DEF Spec

(* Object numbers stay in their pools and owners among the processes,        *)
(* whatever mlx5lib.c's calls do.                                            *)
THEOREM TypeCorrect == Spec => []TypeOK
  BY Invariance, PTL

(* While a dump runs in umem mode, the key given to the device names a live  *)
(* key of the caller over its own PD, umem and allocated buffer.             *)
THEOREM Backed == Spec => []DumpIsBacked
  <1>1. TypeOK /\ Inv => DumpIsBacked
    <2> SUFFICES ASSUME TypeOK, Inv, NEW p \in Procs, Dumping(p)
                 PROVE  /\ buff[p] = "live"
                        /\ pdOf[pdn[p]] = p
                        /\ umemOf[umem[p]] = p
                        /\ \E m \in mkeys : /\ m.idx = mkey_to_idx(mkey[p])
                                            /\ m.owner = p /\ m.pd = pdn[p] /\ m.umem = umem[p]
      BY Zenon DEF DumpIsBacked, Dumping
    <2> QED
      BY DEF Inv, PdInv, UmemInv, MkeyInv, BuffInv, HoldsPd, HoldsUmem, HoldsMkey, HoldsBuff,
             mkey_to_idx
  <1> QED
    BY <1>1, Invariance, PTL

(* The buffer is freed only after its umem is unregistered, unless a destroy *)
(* command failed before, which do_rscdump ignores.                          *)
THEOREM FreedUnreachable == Spec => []NoAccessToFreed
  <1>1. Inv => NoAccessToFreed
    BY DEF Inv, UmemInv, BuffInv, NoAccessToFreed, OwnsUmem, HoldsUmem, HoldsBuff
  <1> QED
    BY <1>1, Invariance, PTL

(* The undo order of do_rscdump gives the device no reason to refuse a       *)
(* destroy, other than an earlier failed one.                                *)
THEOREM RefusedOnlyAfterFailure == Spec => []NeverRefused
  <1>1. Inv => NeverRefused
    BY Zenon DEF Inv
  <1> QED
    BY <1>1, Invariance, PTL

(* Whichever call failed, do_rscdump returns with buffer, umem, key and PD   *)
(* given back, but for what a destroy command failed for.                    *)
THEOREM AllGivenBack == Spec => []NothingLeft
  <1>1. TypeOK /\ Inv => NothingLeft
    <2> SUFFICES ASSUME TypeOK, Inv, NEW p \in Procs, pc[p] = "return"
                 PROVE  /\ buff[p] # "live"
                        /\ p \in ignored \/ ~(OwnsPd(p) \/ OwnsUmem(p) \/ OwnsMkey(p))
      BY Zenon DEF NothingLeft
    <2>1. ~HoldsPd(p) /\ ~HoldsUmem(p) /\ ~HoldsMkey(p) /\ ~HoldsBuff(p)
      BY DEF HoldsPd, HoldsUmem, HoldsMkey, HoldsBuff, Dumping
    <2> QED
      BY <2>1 DEF Inv, PdInv, UmemInv, MkeyInv, BuffInv, OwnsPd, OwnsUmem, OwnsMkey
  <1> QED
    BY <1>1, Invariance, PTL

(* A step moves its process on, and takes from the device only objects of its *)
(* own.                                                                      *)
LEMMA OwnStep ==
  ASSUME TypeOK, Inv, NEW p \in Procs, Start(p) \/ Run(p) \/ Kill(p)
  PROVE  /\ pc'[p] # pc[p]
         /\ \A i \in Pds : pdOf'[i] # pdOf[i] => pdOf[i] \in {None, p}
         /\ \A i \in Umems : umemOf'[i] # umemOf[i] => umemOf[i] \in {None, p}
         /\ \A m \in mkeys : m \notin mkeys' => m.owner = p
  <1>1. DataOK /\ PdInv /\ UmemInv /\ MkeyInv
    BY TypeData, Zenon DEF Inv
  <1>2. pdOf \in [Pds -> Procs \cup {None}] /\ umemOf \in [Umems -> Procs \cup {None}]
    BY <1>1 DEF DataOK
  <1>3. /\ HoldsPd(p) => pdOf[pdn[p]] = p
        /\ HoldsUmem(p) => umemOf[umem[p]] = p
    BY <1>1 DEF PdInv, UmemInv
  <1>4. CASE Start(p) \/ Dump(p) \/ CreateMkey(p)
    <2>1. UNCHANGED <<pdOf, umemOf>> /\ mkeys \subseteq mkeys'
      BY <1>4 DEF Start, Dump, CreateMkey, device
    <2>2. \E l \in {"alloc_pd", "dump", "destroy_mkey", "return"} :
            pc' = [pc EXCEPT ![p] = l] /\ l # pc[p]
      <3>1. CASE Start(p)
        BY <3>1, Zenon DEF Start, Goto
      <3>2. CASE Dump(p)
        BY <3>2, Zenon DEF Dump, Goto
      <3>3. CASE CreateMkey(p)
        BY <3>3, Zenon DEF CreateMkey, Goto
      <3> QED
        BY <1>4, <3>1, <3>2, <3>3
    <2>3. pc'[p] # pc[p]
      BY <1>1, <2>2 DEF DataOK
    <2> QED
      BY <2>1, <2>3
  <1>5. CASE \/ AllocPdFails(p) \/ Memalign(p) \/ MemalignFails(p) \/ UmemRegFails(p)
             \/ CreateMkeyFails(p) \/ Free(p)
    <2>1. UNCHANGED <<pdOf, umemOf, mkeys>>
      BY <1>5 DEF AllocPdFails, Memalign, MemalignFails, UmemRegFails, CreateMkeyFails, Free, device
    <2>2. pc'[p] # pc[p]
      BY <1>1, <1>5 DEF DataOK, Goto, Unwind, AllocPdFails, Memalign, MemalignFails, UmemRegFails,
                        CreateMkeyFails, Free
    <2> QED
      BY <2>1, <2>2
  <1>6. CASE AllocPd(p) \/ UmemReg(p)
    <2>1. pc'[p] # pc[p] /\ UNCHANGED mkeys
      BY <1>1, <1>6 DEF DataOK, Goto, AllocPd, UmemReg
    <2>2. \A i \in Pds : pdOf'[i] # pdOf[i] => pdOf[i] = None
      BY <1>2, <1>6 DEF AllocPd, UmemReg
    <2>3. \A i \in Umems : umemOf'[i] # umemOf[i] => umemOf[i] = None
      BY <1>2, <1>6 DEF AllocPd, UmemReg
    <2> QED
      BY <2>1, <2>2, <2>3
  <1>7. CASE DestroyMkey(p)
    <2>1. pc'[p] # pc[p] /\ UNCHANGED <<pdOf, umemOf>> /\ HoldsMkey(p)
      BY <1>1, <1>7 DEF DataOK, Goto, DestroyMkey, HoldsMkey
    <2>2. \A m \in mkeys : m.owner = p <=> m.idx = mkey[p].idx
      BY <1>1, <2>1 DEF MkeyInv
    <2>3. \A m \in mkeys : m \notin mkeys' => m.idx = mkey[p].idx
      BY <1>7 DEF DestroyMkey, mkey_to_idx
    <2> QED
      BY <2>1, <2>2, <2>3
  <1>8. CASE UmemUnreg(p)
    <2>1. pc'[p] # pc[p] /\ UNCHANGED <<pdOf, mkeys>> /\ umemOf[umem[p]] = p
      BY <1>1, <1>3, <1>8 DEF DataOK, Goto, UmemUnreg, HoldsUmem
    <2>2. \A i \in Umems : umemOf'[i] # umemOf[i] => i = umem[p]
      BY <1>2, <1>8 DEF UmemUnreg
    <2> QED
      BY <2>1, <2>2
  <1>9. CASE DeallocPd(p)
    <2>1. pc'[p] # pc[p] /\ UNCHANGED <<umemOf, mkeys>> /\ pdOf[pdn[p]] = p
      BY <1>1, <1>3, <1>9 DEF DataOK, Goto, DeallocPd, HoldsPd
    <2>2. \A i \in Pds : pdOf'[i] # pdOf[i] => i = pdn[p]
      BY <1>2, <1>9 DEF DeallocPd
    <2> QED
      BY <2>1, <2>2
  <1>10. CASE Close(p) \/ Kill(p)
    <2>1. pc[p] # "closed" /\ Gone(p)
      BY <1>10 DEF Close, Kill
    <2>2. pc'[p] # pc[p]
      BY <1>1, <2>1 DEF Gone, Goto, DataOK
    <2>3. /\ \A i \in Pds : pdOf'[i] # pdOf[i] => pdOf[i] = p
          /\ \A i \in Umems : umemOf'[i] # umemOf[i] => umemOf[i] = p
          /\ \A m \in mkeys : m \notin mkeys' => m.owner = p
      BY <2>1 DEF Gone, Reclaim
    <2> QED
      BY <2>2, <2>3
  <1> QED
    BY <1>4, <1>5, <1>6, <1>7, <1>8, <1>9, <1>10, Zenon DEF Run, SetUp, TearDown

(* No process ever destroys an object of another, although numbers are reused *)
(* and the device does not check who asks.                                   *)
THEOREM NobodyElseDestroys == Spec => OnlyOwnerDestroys
  <1> DEFINE Own ==
        /\ \A i \in Pds : pdOf[i] # None /\ pdOf'[i] # pdOf[i] => pc'[pdOf[i]] # pc[pdOf[i]]
        /\ \A i \in Umems :
             umemOf[i] # None /\ umemOf'[i] # umemOf[i] => pc'[umemOf[i]] # pc[umemOf[i]]
        /\ \A m \in mkeys : m \notin mkeys' => pc'[m.owner] # pc[m.owner]
  <1>1. TypeOK /\ Inv /\ [Next]_vars => [Own]_vars
    <2> SUFFICES ASSUME TypeOK, Inv, Next PROVE Own
      OBVIOUS
    <2>1. PICK p \in Procs : Start(p) \/ Run(p) \/ Kill(p)
      BY Zenon DEF Next
    <2> QED
      BY <2>1, OwnStep
  <1> QED
    BY <1>1, Invariance, PTL DEF Spec, OnlyOwnerDestroys
=============================================================================
