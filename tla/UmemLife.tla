------------------------------ MODULE UmemLife ------------------------------
(***************************************************************************)
(* The life of the memory a dump is written to in umem mode: the protection *)
(* domain (PD), the host buffer, its registration as a umem and the memory *)
(* key over it, as do_rscdump (rscdump.c) and mlx5lib.c create and undo    *)
(* them, for several mlx5ctl processes over one device.                    *)
(*                                                                         *)
(* Every call into the device is a step of its own, and a process may be   *)
(* killed between any two of them.  Object numbers are drawn from pools    *)
(* that all processes share and are reused, so that a handle kept too long *)
(* would name somebody else's object.  The device (external) refuses to    *)
(* destroy an object that a memory key refers to, does not check who asks, *)
(* and reclaims what a process still holds when its file descriptor is     *)
(* closed, on exit or by a kill.                                           *)
(***************************************************************************)
EXTENDS Integers, FiniteSets

CONSTANTS
  Procs,          \* the mlx5ctl processes
  NPds, NUmems,   \* PDs and umems are numbered 0 .. NPds-1 and 0 .. NUmems-1
  NMkeys,         \* memory key indices are 0 .. NMkeys-1
  None,           \* no owner
  UmemSupported,  \* FALSE: the stubs that are compiled; TRUE: the `#if 0' bodies
  Faults          \* which calls may fail by themselves: "create", "destroy"

ASSUME NoneAssumption == None \notin Procs
ASSUME FlagsAssumption == UmemSupported \in BOOLEAN /\ Faults \subseteq {"create", "destroy"}
ASSUME PoolsAssumption ==
  NPds \in Nat \ {0} /\ NUmems \in Nat \ {0} /\ NMkeys \in Nat \ {0}
VARIABLES
  pc,       \* where do_rscdump of each process stands
  cmd,      \* its command: "rscdump" or "coredump"
  asked,    \* args.umem # 0: --umem was given
  pdn,      \* do_rscdump's umem_pdn
  buff,     \* umem_buff->buff: "none", "live" or "freed"
  has,      \* the static pointer umem_buff is set
  umem,     \* umem_buff->umem_id
  mkey,     \* umem_buff->umem_mkey
  ret,      \* what do_rscdump is about to return
  dumped,   \* the process got its dump
  pdOf,     \* external: the owner of each PD
  umemOf,   \* external: the owner of each umem
  mkeys,    \* external: the memory keys
  refused,  \* external: processes a destroy was refused to, the object being in use
  ignored   \* processes that ignored the failure of a destroy command

program == <<pc, cmd, asked, pdn, buff, has, umem, mkey, ret, dumped>>
device == <<pdOf, umemOf, mkeys, refused, ignored>>
vars == <<pc, cmd, asked, pdn, buff, has, umem, mkey, ret, dumped, pdOf, umemOf, mkeys, refused, ignored>>

Pds == 0 .. NPds - 1
Umems == 0 .. NUmems - 1
MkeyIdx == 0 .. NMkeys - 1
MkeyRecord == [idx: MkeyIdx, owner: Procs, pd: Pds, umem: Umems]

(* A memory key is a 24-bit index above an 8-bit variant: mlx5_idx_to_mkey, *)
(* with the variant of the request (mkey_7_0), and mlx5_mkey_to_idx.        *)
idx_to_mkey(i) == [idx |-> i, variant |-> 0]
mkey_to_idx_low(m) == m.variant  \* mutant: the low bits are taken for the index
mkey_to_idx(m) == m.idx

Init ==
  /\ pc = [p \in Procs |-> "closed"]
  /\ cmd = [p \in Procs |-> "rscdump"]
  /\ asked = [p \in Procs |-> FALSE]
  /\ pdn = [p \in Procs |-> 0]
  /\ buff = [p \in Procs |-> "none"]
  /\ has = [p \in Procs |-> FALSE]
  /\ umem = [p \in Procs |-> 0]
  /\ mkey = [p \in Procs |-> idx_to_mkey(0)]
  /\ ret = [p \in Procs |-> "ok"]
  /\ dumped = [p \in Procs |-> FALSE]
  /\ pdOf = [i \in Pds |-> None]
  /\ umemOf = [i \in Umems |-> None]
  /\ mkeys = {}
  /\ refused = {}
  /\ ignored = {}

Goto(p, l) == pc' = [pc EXCEPT ![p] = l]

(* A failed set-up step enters the chain of undo steps at l. *)
Unwind(p, l, r) ==
  /\ Goto(p, l)
  /\ ret' = [ret EXCEPT ![p] = r]

(* A new invocation.  Without --umem nothing is set up. *)
Start(p) ==
  /\ pc[p] = "closed"
  /\ \E c \in {"rscdump", "coredump"} : cmd' = [cmd EXCEPT ![p] = c]
  /\ \E u \in BOOLEAN :
       /\ asked' = [asked EXCEPT ![p] = u]
       /\ Goto(p, IF u THEN "alloc_pd" ELSE "dump")
  /\ UNCHANGED <<pdn, buff, has, umem, mkey, ret, dumped, device>>

AllocPd(p) ==
  /\ pc[p] = "alloc_pd"
  /\ \E i \in Pds :
       /\ pdOf[i] = None
       /\ pdOf' = [pdOf EXCEPT ![i] = p]
       /\ pdn' = [pdn EXCEPT ![p] = i]
  /\ Goto(p, "memalign")
  /\ UNCHANGED <<cmd, asked, buff, has, umem, mkey, ret, dumped, umemOf, mkeys, refused, ignored>>

AllocPdFailsWritesPdn(p) ==  \* mutant: *pdn is written on failure as well
  /\ pc[p] = "alloc_pd"
  /\ pdn' = [pdn EXCEPT ![p] = NPds]
  /\ Unwind(p, "return", "cmd error")
  /\ UNCHANGED <<cmd, asked, buff, has, umem, mkey, dumped, device>>
AllocPdFails(p) ==
  /\ pc[p] = "alloc_pd"
  /\ "create" \in Faults \/ \A i \in Pds : pdOf[i] # None
  /\ Unwind(p, "return", "cmd error")
  /\ UNCHANGED <<cmd, asked, pdn, buff, has, umem, mkey, dumped, device>>

Memalign(p) ==
  /\ pc[p] = "memalign"
  /\ buff' = [buff EXCEPT ![p] = "live"]
  /\ Goto(p, "umem_reg")
  /\ UNCHANGED <<cmd, asked, pdn, has, umem, mkey, ret, dumped, device>>

MemalignFailsKeepsPd(p) ==  \* mutant: the PD is not given back
  /\ pc[p] = "memalign" /\ "create" \in Faults
  /\ Unwind(p, "return", "-ENOMEM")
  /\ UNCHANGED <<cmd, asked, pdn, buff, has, umem, mkey, dumped, device>>
MemalignFails(p) ==
  /\ pc[p] = "memalign" /\ "create" \in Faults
  /\ Unwind(p, "dealloc_pd", "-ENOMEM")
  /\ UNCHANGED <<cmd, asked, pdn, buff, has, umem, mkey, dumped, device>>

UmemReg(p) ==
  /\ pc[p] = "umem_reg" /\ UmemSupported
  /\ \E i \in Umems :
       /\ umemOf[i] = None
       /\ umemOf' = [umemOf EXCEPT ![i] = p]
       /\ umem' = [umem EXCEPT ![p] = i]
  /\ Goto(p, "create_mkey")
  /\ UNCHANGED <<cmd, asked, pdn, buff, has, mkey, ret, dumped, pdOf, mkeys, refused, ignored>>

UmemRegFailsUnregs(p) ==  \* mutant: what was never registered is unregistered
  /\ pc[p] = "umem_reg"
  /\ ~UmemSupported \/ "create" \in Faults \/ \A i \in Umems : umemOf[i] # None
  /\ Unwind(p, "umem_unreg", "-ENOMEM")
  /\ UNCHANGED <<cmd, asked, pdn, buff, has, umem, mkey, dumped, device>>
UmemRegFails(p) ==
  /\ pc[p] = "umem_reg"
  /\ ~UmemSupported \/ "create" \in Faults \/ \A i \in Umems : umemOf[i] # None
  /\ Unwind(p, "free", "-ENOMEM")
  /\ UNCHANGED <<cmd, asked, pdn, buff, has, umem, mkey, dumped, device>>

UsedIdx == {m.idx : m \in mkeys}

CreateMkeyForgets(p) ==  \* mutant: the static pointer is not set
  /\ pc[p] = "create_mkey"
  /\ \E i \in MkeyIdx \ UsedIdx :
       /\ mkeys' = mkeys \cup {[idx |-> i, owner |-> p, pd |-> pdn[p], umem |-> umem[p]]}
       /\ mkey' = [mkey EXCEPT ![p] = idx_to_mkey(i)]
  /\ Goto(p, "dump")
  /\ UNCHANGED <<cmd, asked, pdn, buff, has, umem, ret, dumped, pdOf, umemOf, refused, ignored>>
CreateMkey(p) ==
  /\ pc[p] = "create_mkey"
  /\ \E i \in MkeyIdx \ UsedIdx :
       /\ mkeys' = mkeys \cup {[idx |-> i, owner |-> p, pd |-> pdn[p], umem |-> umem[p]]}
       /\ mkey' = [mkey EXCEPT ![p] = idx_to_mkey(i)]
  /\ has' = [has EXCEPT ![p] = TRUE]
  /\ Goto(p, "dump")
  /\ UNCHANGED <<cmd, asked, pdn, buff, umem, ret, dumped, pdOf, umemOf, refused, ignored>>

CreateMkeyFailsFrees(p) ==  \* mutant: the umem is not unregistered
  /\ pc[p] = "create_mkey"
  /\ "create" \in Faults \/ MkeyIdx \subseteq UsedIdx
  /\ Unwind(p, "free", "-ENOMEM")
  /\ UNCHANGED <<cmd, asked, pdn, buff, has, umem, mkey, dumped, device>>
CreateMkeyFails(p) ==
  /\ pc[p] = "create_mkey"
  /\ "create" \in Faults \/ MkeyIdx \subseteq UsedIdx
  /\ Unwind(p, "umem_unreg", "-ENOMEM")
  /\ UNCHANGED <<cmd, asked, pdn, buff, has, umem, mkey, dumped, device>>

(***************************************************************************)
(* The dump itself, which may succeed or not: do_rscdump does not look.    *)
(* Without a umem, coredump only prints an error.  The process undoes its  *)
(* umem after the dump only if it has one.                                 *)
(***************************************************************************)
DumpKeepsMkey(p) ==  \* mutant: the memory key is not destroyed first
  /\ pc[p] = "dump"
  /\ Goto(p, IF has[p] THEN "umem_unreg" ELSE "return")
  /\ UNCHANGED <<cmd, asked, pdn, buff, has, umem, mkey, ret, dumped, device>>
Dump(p) ==
  /\ pc[p] = "dump"
  /\ \E ok \in IF Faults = {} THEN {TRUE} ELSE BOOLEAN :
       dumped' = [dumped EXCEPT ![p] = ok /\ (has[p] \/ cmd[p] = "rscdump")]
  /\ Goto(p, IF has[p] THEN "destroy_mkey" ELSE "return")
  /\ UNCHANGED <<cmd, asked, pdn, buff, has, umem, mkey, ret, device>>

(***************************************************************************)
(* Undoing, in the order of the code: destroy_mkey, umem_unreg, free,      *)
(* dealloc_pd.  No result is looked at.                                    *)
(***************************************************************************)
(* A destroy is refused while a memory key refers to the object, and may   *)
(* fail by itself; the result is ignored.                                  *)
Refuse(p, inUse) == refused' = IF inUse THEN refused \cup {p} ELSE refused
DestroyFails(p) == "destroy" \in Faults /\ ignored' = ignored \cup {p}

DestroyMkey(p) ==
  /\ pc[p] = "destroy_mkey"
  /\ \/ mkeys' = {m \in mkeys : m.idx # mkey_to_idx(mkey[p])} /\ UNCHANGED ignored
     \/ DestroyFails(p) /\ UNCHANGED mkeys
  /\ Goto(p, "umem_unreg")
  /\ UNCHANGED <<cmd, asked, pdn, buff, has, umem, mkey, ret, dumped, pdOf, umemOf, refused>>

UmemUnregRetries(p) ==  \* mutant: undoing starts over until it works
  /\ pc[p] = "umem_unreg"
  /\ LET inUse == \E m \in mkeys : m.umem = umem[p]
     IN  /\ \/ ~inUse /\ umemOf' = [umemOf EXCEPT ![umem[p]] = None] /\ UNCHANGED ignored
            \/ inUse /\ UNCHANGED <<umemOf, ignored>>
            \/ DestroyFails(p) /\ UNCHANGED umemOf
         /\ Refuse(p, inUse)
  /\ Goto(p, IF umemOf' = umemOf THEN "destroy_mkey" ELSE "free")
  /\ UNCHANGED <<cmd, asked, pdn, buff, has, umem, mkey, ret, dumped, pdOf, mkeys>>
UmemUnreg(p) ==
  /\ pc[p] = "umem_unreg"
  /\ LET inUse == \E m \in mkeys : m.umem = umem[p]
     IN  /\ \/ ~inUse /\ umemOf' = [umemOf EXCEPT ![umem[p]] = None] /\ UNCHANGED ignored
            \/ inUse /\ UNCHANGED <<umemOf, ignored>>
            \/ DestroyFails(p) /\ UNCHANGED umemOf
         /\ Refuse(p, inUse)
  /\ Goto(p, "free")
  /\ UNCHANGED <<cmd, asked, pdn, buff, has, umem, mkey, ret, dumped, pdOf, mkeys>>

Free(p) ==
  /\ pc[p] = "free"
  /\ buff' = [buff EXCEPT ![p] = "freed"]
  /\ Goto(p, "dealloc_pd")
  /\ UNCHANGED <<cmd, asked, pdn, has, umem, mkey, ret, dumped, device>>

DeallocPd(p) ==
  /\ pc[p] = "dealloc_pd"
  /\ LET inUse == \E m \in mkeys : m.pd = pdn[p]
     IN  /\ \/ ~inUse /\ pdOf' = [pdOf EXCEPT ![pdn[p]] = None] /\ UNCHANGED ignored
            \/ inUse /\ UNCHANGED <<pdOf, ignored>>
            \/ DestroyFails(p) /\ UNCHANGED pdOf
         /\ Refuse(p, inUse)
  /\ Goto(p, "return")
  /\ UNCHANGED <<cmd, asked, pdn, buff, has, umem, mkey, ret, dumped, umemOf, mkeys>>

(***************************************************************************)
(* main closes the device and exits, or the process is killed: in both     *)
(* cases the kernel closes the file descriptor and reclaims its objects,   *)
(* and the variables of the process are gone.                              *)
(***************************************************************************)
Reclaim(p) ==
  /\ mkeys' = {m \in mkeys : m.owner # p}
  /\ umemOf' = [i \in Umems |-> IF umemOf[i] = p THEN None ELSE umemOf[i]]
  /\ pdOf' = [i \in Pds |-> IF pdOf[i] = p THEN None ELSE pdOf[i]]
  /\ refused' = refused \ {p}
  /\ ignored' = ignored \ {p}

Gone(p) ==
  /\ Goto(p, "closed")
  /\ cmd' = [cmd EXCEPT ![p] = "rscdump"]
  /\ asked' = [asked EXCEPT ![p] = FALSE]
  /\ pdn' = [pdn EXCEPT ![p] = 0]
  /\ buff' = [buff EXCEPT ![p] = "none"]
  /\ has' = [has EXCEPT ![p] = FALSE]
  /\ umem' = [umem EXCEPT ![p] = 0]
  /\ mkey' = [mkey EXCEPT ![p] = idx_to_mkey(0)]
  /\ ret' = [ret EXCEPT ![p] = "ok"]
  /\ dumped' = [dumped EXCEPT ![p] = FALSE]
  /\ Reclaim(p)

Close(p) == pc[p] = "return" /\ Gone(p)

Kill(p) == pc[p] \notin {"closed", "return"} /\ Gone(p)

SetUp(p) ==
  \/ AllocPd(p) \/ AllocPdFails(p)
  \/ Memalign(p) \/ MemalignFails(p)
  \/ UmemReg(p) \/ UmemRegFails(p)
  \/ CreateMkey(p) \/ CreateMkeyFails(p)

TearDown(p) == DestroyMkey(p) \/ UmemUnreg(p) \/ Free(p) \/ DeallocPd(p)

Run(p) == SetUp(p) \/ Dump(p) \/ TearDown(p) \/ Close(p)

Next == \E p \in Procs : Start(p) \/ Run(p) \/ Kill(p)

Spec == Init /\ [][Next]_vars

(* Every process runs on while it is alive; nobody has to start or be killed. *)
FairSpec == Spec /\ \A p \in Procs : WF_vars(Run(p))
-----------------------------------------------------------------------------
TypeOK ==
  /\ pc \in [Procs -> {"closed", "alloc_pd", "memalign", "umem_reg", "create_mkey", "dump",
                        "destroy_mkey", "umem_unreg", "free", "dealloc_pd", "return"}]
  /\ cmd \in [Procs -> {"rscdump", "coredump"}]
  /\ asked \in [Procs -> BOOLEAN]
  /\ pdn \in [Procs -> Pds]
  /\ buff \in [Procs -> {"none", "live", "freed"}]
  /\ has \in [Procs -> BOOLEAN]
  /\ umem \in [Procs -> Umems]
  /\ mkey \in [Procs -> {idx_to_mkey(i) : i \in MkeyIdx}]
  /\ ret \in [Procs -> {"ok", "cmd error", "-ENOMEM"}]
  /\ dumped \in [Procs -> BOOLEAN]
  /\ pdOf \in [Pds -> Procs \cup {None}]
  /\ umemOf \in [Umems -> Procs \cup {None}]
  /\ mkeys \subseteq MkeyRecord
  /\ refused \subseteq Procs
  /\ ignored \subseteq Procs

OwnsPd(p) == \E i \in Pds : pdOf[i] = p
OwnsUmem(p) == \E i \in Umems : umemOf[i] = p
OwnsMkey(p) == \E m \in mkeys : m.owner = p

(* While a dump runs in umem mode, what the device was told to write to is  *)
(* there: the key it was given names a live key of this process, over its   *)
(* own registered umem and PD, and the buffer behind them is allocated.     *)
DumpIsBacked ==
  \A p \in Procs :
    pc[p] = "dump" /\ has[p] =>
      /\ buff[p] = "live"
      /\ pdOf[pdn[p]] = p
      /\ umemOf[umem[p]] = p
      /\ \E m \in mkeys :
           /\ m.idx = mkey_to_idx(mkey[p])
           /\ m.owner = p /\ m.pd = pdn[p] /\ m.umem = umem[p]

(* Memory the device can reach is never freed under it: as long as a umem   *)
(* of a process is registered its buffer is allocated, unless one of its    *)
(* destroy commands failed, whose result the code ignores.                  *)
NoAccessToFreed == \A p \in Procs : OwnsUmem(p) => buff[p] = "live" \/ p \in ignored

(* Objects are undone before what they refer to, so the device has a reason *)
(* to refuse only after a destroy command failed.                           *)
NeverRefused == refused \subseteq ignored

(* Whichever call failed, do_rscdump returns with everything given back but *)
(* what a destroy command failed for.                                       *)
NothingLeft ==
  \A p \in Procs : pc[p] = "return" =>
    /\ buff[p] # "live"
    /\ p \in ignored \/ ~(OwnsPd(p) \/ OwnsUmem(p) \/ OwnsMkey(p))

(* No process destroys an object of another, although the numbers are       *)
(* reused and the device does not check: objects disappear only in a step   *)
(* of their owner.                                                          *)
OnlyOwnerDestroys ==
  [][/\ \A i \in Pds : pdOf[i] # None /\ pdOf'[i] # pdOf[i] => pc'[pdOf[i]] # pc[pdOf[i]]
     /\ \A i \in Umems :
          umemOf[i] # None /\ umemOf'[i] # umemOf[i] => pc'[umemOf[i]] # pc[umemOf[i]]
     /\ \A m \in mkeys : m \notin mkeys' => pc'[m.owner] # pc[m.owner]]_vars

(* README.md says "Both core dump and rscdump support umem mode": a command *)
(* that was given --umem takes its dump, when no call fails by itself and   *)
(* there are objects enough for everybody.                                  *)
Enough == Cardinality(Procs) <= NPds /\ NPds <= NUmems /\ NUmems <= NMkeys

UmemModeDumps ==
  Faults = {} /\ Enough => \A p \in Procs : pc[p] = "return" /\ asked[p] => dumped[p]

(* Registered memory is given back in the end, by the process or by the     *)
(* kernel, even if every undo command fails.                                *)
MemoryGivenBack == \A p \in Procs : OwnsUmem(p) ~> ~OwnsUmem(p)
=============================================================================
