------------------------------- MODULE DiagCnt -------------------------------
(***************************************************************************)
(* `mlx5ctl diagcnt' (diag_cnt.c): cap, set, disable, param and dump, for  *)
(* several processes over the one sampling configuration of a device.      *)
(*                                                                         *)
(* A process's path through a command is split at every loop iteration     *)
(* and every call that can fail; a command of the device is one step.  A   *)
(* call of the device has three ends: it is carried out, it is refused     *)
(* with a positive status, or the ioctl fails with -1, and then, if        *)
(* "lost" \in Faults, the device may have carried it out all the same.     *)
(*                                                                         *)
(* Abstracted: sample counts and periods, which are passed through, and    *)
(* the text printed.  A counter list `1,2,,3' is the sequence of the items *)
(* between its commas, each the number strtoul makes of it, an absent      *)
(* argument the empty sequence; a flag string is the set of its letters.   *)
(***************************************************************************)
EXTENDS Integers, Sequences, FiniteSets

CONSTANTS
  Procs,         \* the mlx5ctl processes
  Ids,           \* counter ids, as numbers of any width
  Empty,         \* an empty item of a counter list
  Garbage,       \* memory nobody wrote
  FlagStrings,   \* the flag arguments of set, sets of letters
  Lists,         \* its counter lists
  Counts,        \* the line counts given to param and dump
  Faults         \* subset of {"malloc", "ioctl", "status", "lost"}

ASSUME ItemsAssumption ==
  Ids \subseteq Nat /\ Empty \notin Nat /\ Garbage \notin Nat \cup {Empty}
ASSUME ArgsAssumption ==
  /\ Lists \subseteq Seq(Ids \cup {Empty})
  /\ Counts \subseteq Int
  /\ FlagStrings \subseteq SUBSET STRING

Width16 == 65536
U16(x) == x % Width16

VARIABLES
  pc,      \* where each process stands
  req,     \* its command and arguments
  flags,   \* params' bits: single, repetitive, sync, clear, on_demand, enable
  ids,     \* params.counter_id, as long as params.num_of_counters
  pos,     \* the item strtok looks at next
  i,       \* the tokens stored so far
  freq,    \* what dev_freq holds: "none", "frequency" or "status"
  sent,    \* the last context it sent with SET_DIAGNOSTIC_PARAMS
  ret,     \* its result
  shown,   \* the flags and the ids its `param' printed
  over,    \* it read past the end of a reply buffer
  conf     \* external: the device's configuration

vars == <<pc, req, flags, ids, pos, i, freq, sent, ret, shown, over, conf>>
params == <<flags, ids, pos, i>>

Flags == {"single", "repetitive", "sync", "clear", "on_demand", "enable"}
Fields16 == (0 .. Width16 - 1) \cup {Garbage}
Contexts == [flags : SUBSET Flags, ids : Seq(Fields16)]
Printed == [flags : (SUBSET Flags) \cup {Garbage}, ids : Seq(Fields16)]
NoContext == [flags |-> {}, ids |-> <<>>]

Requests ==
  [name : {"set"}, flags : FlagStrings, items : Lists, n : {0}]
  \cup [name : {"cap", "disable"}, flags : {{}}, items : {<<>>}, n : {0}]
  \cup [name : {"param", "dump"}, flags : {{}}, items : {<<>>}, n : Counts]
NoRequest == [name |-> "cap", flags |-> {}, items |-> <<>>, n |-> 0]

Letters == [c |-> "clear", S |-> "sync", s |-> "single", r |-> "repetitive", o |-> "on_demand"]
FlagsOf(letters) == {Letters[l] : l \in letters \cap DOMAIN Letters}
NotEmpty(item) == item # Empty

Init ==
  /\ pc = [p \in Procs |-> "idle"]
  /\ req = [p \in Procs |-> NoRequest]
  /\ flags = [p \in Procs |-> {}]
  /\ ids = [p \in Procs |-> <<>>]
  /\ pos = [p \in Procs |-> 1]
  /\ i = [p \in Procs |-> 0]
  /\ freq = [p \in Procs |-> "none"]
  /\ sent = [p \in Procs |-> NoContext]
  /\ ret = [p \in Procs |-> "ok"]
  /\ shown = [p \in Procs |-> NoContext]
  /\ over = [p \in Procs |-> FALSE]
  /\ conf = NoContext

Goto(p, l) == pc' = [pc EXCEPT ![p] = l]
Return(p, r) == Goto(p, "done") /\ ret' = [ret EXCEPT ![p] = r]

(* The ends of a call of the device that did not carry it out for sure. *)
CmdFailures ==
  (IF "ioctl" \in Faults THEN {"-1"} ELSE {}) \cup (IF "status" \in Faults THEN {"status"} ELSE {})

(* disable clears the configuration through the same call as set. *)
Start(p) ==
  /\ pc[p] = "idle"
  /\ \E r \in Requests :
       /\ req' = [req EXCEPT ![p] = r]
       /\ Goto(p, CASE r.name = "set" -> "parse" [] r.name = "disable" -> "set_param"
                    [] r.name = "cap" -> "cap_general" [] OTHER -> r.name)
       /\ flags' = [flags EXCEPT ![p] = IF r.name = "disable" THEN {"clear"} ELSE {}]
  /\ UNCHANGED <<ids, pos, i, freq, sent, ret, shown, over, conf>>

(* do_set: too few arguments, a letter that is no flag, or `o', for which  *)
(* parse_flags returns 8.                                                  *)
BadFlags(letters) == "o" \in letters \/ ~(letters \subseteq DOMAIN Letters \cup {"-"})

ParseFails(p) ==
  /\ pc[p] = "parse"
  /\ req[p].items = <<>> \/ BadFlags(req[p].flags)
  /\ Return(p, "EINVAL")
  /\ UNCHANGED <<req, params, freq, sent, shown, over, conf>>

(* A mistake: counting the commas themselves. *)
NumOfCommas(items) == Len(items) - 1

(* The counters are counted by the commas between them. *)
NumOfCounters(items) == Len(items)

Parse(p) ==
  /\ pc[p] = "parse"
  /\ req[p].items # <<>> /\ ~BadFlags(req[p].flags)
  /\ flags' = [flags EXCEPT ![p] = FlagsOf(req[p].flags)]
  /\ ids' = [ids EXCEPT ![p] = [k \in 1 .. NumOfCounters(req[p].items) |-> Garbage]]
  /\ Goto(p, "strtok")
  /\ UNCHANGED <<req, pos, i, freq, sent, ret, shown, over, conf>>

MallocFails(p) ==
  /\ "malloc" \in Faults
  /\ \/ pc[p] \in {"parse", "set_param", "param"} /\ Return(p, "ENOMEM")
     \/ pc[p] = "dump" /\ Return(p, "-ENOMEM")
  /\ pc[p] = "parse" => req[p].items # <<>> /\ ~BadFlags(req[p].flags)
  /\ UNCHANGED <<req, params, freq, sent, shown, over, conf>>

(* One turn of the strtok loop: empty items are skipped. *)
Token(p) ==
  /\ pc[p] = "strtok"
  /\ \E k \in pos[p] .. Len(req[p].items) :
       /\ NotEmpty(req[p].items[k])
       /\ \A j \in pos[p] .. k - 1 : ~NotEmpty(req[p].items[j])
       /\ ids' = [ids EXCEPT ![p] = [@ EXCEPT ![i[p] + 1] = req[p].items[k]]]
       /\ pos' = [pos EXCEPT ![p] = k + 1]
  /\ i' = [i EXCEPT ![p] = @ + 1]
  /\ UNCHANGED <<pc, req, flags, freq, sent, ret, shown, over, conf>>

NoToken(p) ==
  /\ pc[p] = "strtok"
  /\ \A k \in pos[p] .. Len(req[p].items) : ~NotEmpty(req[p].items[k])
  /\ Goto(p, "get_freq")
  /\ UNCHANGED <<req, params, freq, sent, ret, shown, over, conf>>

(* Mistakes: the cap command returns the frequency it printed; set forgets *)
(* the enable bit; it goes back to strtok when the query fails.            *)
GetFreqReturned(p) ==
  /\ pc[p] = "cap_freq"
  /\ freq' = [freq EXCEPT ![p] = "frequency"]
  /\ Return(p, "frequency")
  /\ UNCHANGED <<req, params, sent, shown, over, conf>>
GetFreqNoEnable(p) ==
  /\ pc[p] = "get_freq"
  /\ freq' = [freq EXCEPT ![p] = "frequency"]
  /\ Goto(p, "set_param")
  /\ UNCHANGED <<req, params, sent, ret, shown, over, conf>>
GetFreqRetried(p) ==
  /\ pc[p] = "get_freq"
  /\ Goto(p, "strtok")
  /\ UNCHANGED <<req, params, freq, sent, ret, shown, over, conf>>

(* get_dev_freq: a positive status of the query is returned as it is, and  *)
(* its callers only look for a negative result.                            *)
GetFreq(p) ==
  /\ pc[p] \in {"get_freq", "cap_freq"}
  /\ \E f \in {"frequency"} \cup IF "status" \in Faults THEN {"status"} ELSE {} :
       freq' = [freq EXCEPT ![p] = f]
  /\ IF pc[p] = "get_freq"
     THEN /\ flags' = [flags EXCEPT ![p] = @ \cup {"enable"}]
          /\ Goto(p, "set_param")
          /\ UNCHANGED ret
     ELSE Return(p, "ok") /\ UNCHANGED flags
  /\ UNCHANGED <<req, ids, pos, i, sent, shown, over, conf>>

GetFreqFails(p) ==
  /\ pc[p] \in {"get_freq", "cap_freq"}
  /\ "ioctl" \in Faults
  /\ Return(p, "-1")
  /\ UNCHANGED <<req, params, freq, sent, shown, over, conf>>

(***************************************************************************)
(* mlx5_diag_cnt_set_param: the message is built in memory that is not     *)
(* zeroed, and every field of its context is set.  The number of counters  *)
(* and each id have 16 bits there; that an id was first cut to the 32 of   *)
(* counter_id makes no difference.                                         *)
(***************************************************************************)
IdField(x) == IF x = Garbage THEN Garbage ELSE U16(x)

Context(p) ==
  [flags |-> flags[p], ids |-> [k \in 1 .. U16(Len(ids[p])) |-> IdField(ids[p][k])]]

SetParam(p) ==
  /\ pc[p] = "set_param"
  /\ sent' = [sent EXCEPT ![p] = Context(p)]
  /\ conf' = Context(p)
  /\ Return(p, "ok")
  /\ UNCHANGED <<req, params, freq, shown, over>>

(* A mistake: the result of the command is dropped. *)
SetParamFailsOk(p) ==
  /\ pc[p] = "set_param"
  /\ sent' = [sent EXCEPT ![p] = Context(p)]
  /\ CmdFailures # {}
  /\ Return(p, "ok")
  /\ UNCHANGED <<req, params, freq, shown, over, conf>>

SetParamFails(p) ==
  /\ pc[p] = "set_param"
  /\ sent' = [sent EXCEPT ![p] = Context(p)]
  /\ \E r \in CmdFailures :
       /\ Return(p, r)
       /\ conf' \in {conf} \cup IF r = "-1" /\ "lost" \in Faults THEN {Context(p)} ELSE {}
  /\ UNCHANGED <<req, params, freq, shown, over>>

(***************************************************************************)
(* The reply buffers of param and dump: a header and n lines, the size     *)
(* kept in 16 bits, while the lines are read up to n.                      *)
(***************************************************************************)
ParamHeader == 32
ParamLine == 4
DumpHeader == 16
DumpLine == 16
ParamSize(n) == U16(ParamHeader + n * ParamLine)
(* A mistake: room for the lines alone. *)
DumpSizeNoHeader(n) == U16(n * DumpLine)
DumpSize(n) == U16(DumpHeader + n * DumpLine)

(* What is read of the reply: the fixed fields (of param, up to the second *)
(* dword of its context, with the flags; of dump, the status) and n lines. *)
ParamFlags == 16
ParamRead(n) == IF n > 0 THEN ParamHeader + n * ParamLine ELSE ParamFlags
DumpRead(n) == IF n > 0 THEN DumpHeader + n * DumpLine ELSE 4

(* The device writes as much of the configuration as the reply has room    *)
(* for; what param prints of the rest is memory behind the reply.          *)
FlagsShown(n) == IF ParamFlags <= ParamSize(n) THEN conf.flags ELSE Garbage
IdShown(n, k) ==
  IF ParamHeader + k * ParamLine <= ParamSize(n) THEN conf.ids[k] ELSE Garbage
Lines(n) == IF n < Len(conf.ids) THEN n ELSE Len(conf.ids)

QueryParam(p) ==
  /\ pc[p] = "param"
  /\ LET n == req[p].n
     IN  shown' = [shown EXCEPT ![p] =
           [flags |-> FlagsShown(n), ids |-> [k \in 1 .. Lines(n) |-> IdShown(n, k)]]]
  /\ over' = [over EXCEPT ![p] = ParamRead(req[p].n) > ParamSize(req[p].n)]
  /\ Return(p, "ok")
  /\ UNCHANGED <<req, params, freq, sent, conf>>

QueryCntrs(p) ==
  /\ pc[p] = "dump"
  /\ over' = [over EXCEPT ![p] = DumpRead(req[p].n) > DumpSize(req[p].n)]
  /\ Return(p, "ok")
  /\ UNCHANGED <<req, params, freq, sent, shown, conf>>

(* Of a refused query, status and syndrome are read. *)
QueryFails(p) ==
  /\ pc[p] \in {"param", "dump"}
  /\ \E r \in CmdFailures :
       /\ Return(p, r)
       /\ LET size == IF pc[p] = "param" THEN ParamSize(req[p].n) ELSE DumpSize(req[p].n)
          IN  over' = [over EXCEPT ![p] = r = "status" /\ 8 > size]
  /\ UNCHANGED <<req, params, freq, sent, shown, conf>>

(***************************************************************************)
(* mlx5_diag_cnt_query_cap: the general capabilities tell whether there    *)
(* are counters and how many, the debug capabilities list them.            *)
(***************************************************************************)
CapGeneral(p) ==
  /\ pc[p] = "cap_general"
  /\ \/ Goto(p, "cap_debug") /\ UNCHANGED ret
     \/ Return(p, "ENOTSUP")
     \/ "malloc" \in Faults /\ Return(p, "ENOMEM")
     \/ \E r \in CmdFailures : Return(p, r)
  /\ UNCHANGED <<req, params, freq, sent, shown, over, conf>>

CapDebug(p) ==
  /\ pc[p] = "cap_debug"
  /\ \/ Goto(p, "cap_freq") /\ UNCHANGED ret
     \/ \E r \in CmdFailures : Return(p, r)
  /\ UNCHANGED <<req, params, freq, sent, shown, over, conf>>

(* do_diag_cnt returns the result and main exits with it: the next command *)
(* starts with its variables as they were in the beginning.                *)
Gone(p) ==
  /\ Goto(p, "idle")
  /\ req' = [req EXCEPT ![p] = NoRequest]
  /\ flags' = [flags EXCEPT ![p] = {}]
  /\ ids' = [ids EXCEPT ![p] = <<>>]
  /\ pos' = [pos EXCEPT ![p] = 1]
  /\ i' = [i EXCEPT ![p] = 0]
  /\ freq' = [freq EXCEPT ![p] = "none"]
  /\ sent' = [sent EXCEPT ![p] = NoContext]
  /\ ret' = [ret EXCEPT ![p] = "ok"]
  /\ shown' = [shown EXCEPT ![p] = NoContext]
  /\ over' = [over EXCEPT ![p] = FALSE]
  /\ UNCHANGED conf

Exit(p) == pc[p] = "done" /\ Gone(p)

(* External: a process may be killed at any time. The device samples on. *)
Kill(p) == pc[p] \notin {"idle", "done"} /\ Gone(p)

Set(p) == ParseFails(p) \/ Parse(p) \/ Token(p) \/ NoToken(p)
Query(p) == QueryParam(p) \/ QueryCntrs(p) \/ QueryFails(p) \/ CapGeneral(p) \/ CapDebug(p)
Run(p) ==
  \/ Set(p) \/ MallocFails(p)
  \/ GetFreq(p) \/ GetFreqFails(p)
  \/ SetParam(p) \/ SetParamFails(p)
  \/ Query(p)
  \/ Exit(p)

Next == \E p \in Procs : Start(p) \/ Run(p) \/ Kill(p)

Spec == Init /\ [][Next]_vars

(* A process runs on by itself; nobody has to start or to kill one. *)
FairSpec == Spec /\ \A p \in Procs : WF_vars(Run(p))
-----------------------------------------------------------------------------
TypeOK ==
  /\ pc \in [Procs -> {"idle", "parse", "strtok", "get_freq", "set_param", "param", "dump",
                        "cap_general", "cap_debug", "cap_freq", "done"}]
  /\ req \in [Procs -> Requests]
  /\ ids \in [Procs -> Seq(Ids \cup {Garbage})]
  /\ pos \in [Procs -> Nat \ {0}]
  /\ i \in [Procs -> Nat]
  /\ freq \in [Procs -> {"none", "frequency", "status"}]
  /\ ret \in [Procs -> {"ok", "EINVAL", "ENOMEM", "-ENOMEM", "ENOTSUP", "-1", "status"}]
  /\ flags \in [Procs -> SUBSET Flags]
  /\ sent \in [Procs -> Contexts]
  /\ shown \in [Procs -> Printed]
  /\ conf \in Contexts
  /\ over \in [Procs -> BOOLEAN]

(* The list was sized by its commas and is filled by strtok, which cuts it  *)
(* otherwise: no token is ever written past its end, whatever the argument. *)
TokensInBounds == \A p \in Procs : i[p] <= Len(ids[p])

(* Which of the items that are not empty the m-th item is. *)
Rank(items, m) == Cardinality({n \in 1 .. m : NotEmpty(items[n])})

(* What set sends is what was asked: its flags, and the low 16 bits of the  *)
(* ids in their order.  There is one unwritten element at the end for every *)
(* empty item of the list, and without such an item there is none.  (A list *)
(* of 2^16 items or more does not fit the message's count of them.)         *)
SentIsAsked ==
  \A p \in Procs :
    sent[p].flags # {} /\ req[p].name = "set" /\ Len(req[p].items) < Width16 =>
      LET items == req[p].items
      IN  /\ sent[p].flags = FlagsOf(req[p].flags) \cup {"enable"}
          /\ Len(sent[p].ids) = Len(items)
          /\ \A m \in 1 .. Len(items) :
               NotEmpty(items[m]) => sent[p].ids[Rank(items, m)] = U16(items[m])
          /\ \A k \in Rank(items, Len(items)) + 1 .. Len(items) : sent[p].ids[k] = Garbage

(* No reply is read past its end, up to the last line count whose reply     *)
(* size fits in 16 bits (and, of param, from -4 on); a reply of more lines  *)
(* than that always is, when the query succeeds.                            *)
DumpLines == 4094
ParamLines == 16375
RepliesReadInside ==
  \A p \in Procs :
    LET n == req[p].n
        succeeded == pc[p] = "done" /\ ret[p] = "ok"
    IN  /\ req[p].name = "dump" /\ n \in 0 .. DumpLines => ~over[p]
        /\ req[p].name = "dump" /\ n > DumpLines /\ succeeded => over[p]
        /\ req[p].name = "param" /\ n \in -4 .. ParamLines => ~over[p]
        /\ req[p].name = "param" /\ n > ParamLines /\ succeeded => over[p]

(* A request takes effect as a whole and at one moment, however the steps   *)
(* of several processes interleave and whatever fails between them; success *)
(* is reported only of a request that took effect; param shows the          *)
(* configuration of the latest one.  What is set is what was asked if the   *)
(* list is sound: of ids of 16 bits, none left out, and not longer than the *)
(* message can say; what is shown is the configuration if the reply of that *)
(* many lines fits its buffer.                                              *)
SoundList(items) ==
  Len(items) < Width16 /\ \A k \in 1 .. Len(items) : items[k] \in 0 .. Width16 - 1
Sound(r) ==
  /\ r.name = "set" => SoundList(r.items)
  /\ r.name = "param" => r.n \in -4 .. ParamLines

Abstract ==
  INSTANCE DiagConfig WITH
    state <- [p \in Procs |->
               CASE pc[p] = "idle" -> "idle"
                 [] pc[p] = "done" -> IF ret[p] = "ok" THEN "ok" ELSE "failed"
                 [] OTHER -> "pending"],
    req <- [p \in Procs |-> [req[p] EXCEPT !.flags = FlagsOf(@)]],
    Requests <- {[r EXCEPT !.flags = FlagsOf(@)] : r \in Requests},
    Defined <- {[r EXCEPT !.flags = FlagsOf(@)] : r \in {q \in Requests : Sound(q)}},
    Configs <- Contexts,
    Views <- Printed,
    Unsure <- "lost" \in Faults
ImplementsConfig == Abstract!Spec

(* Every command ends. *)
AlwaysEnds == \A p \in Procs : pc[p] # "idle" ~> pc[p] = "idle"

(* The help of set offers the flags "-Scsro = (S)ync (c)lear (s)ingle       *)
(* (r)epetitive (o)n_demand": a set with one of them, and with all its      *)
(* arguments, is not rejected as invalid.                                   *)
OnDemandAccepted ==
  \A p \in Procs :
    pc[p] = "done" /\ req[p].name = "set" /\ req[p].items # <<>>
      /\ req[p].flags \subseteq DOMAIN Letters \cup {"-"} => ret[p] # "EINVAL"
=============================================================================
