--------------------------- MODULE DiagCntRefines ---------------------------
(***************************************************************************)
(* DiagCnt implements DiagConfig, for any processes, arguments, line       *)
(* counts and faults.                                                      *)
(*                                                                         *)
(* The invariant says that a process is in the midst of the command it was *)
(* asked for.  What a set sends is in SetInv: for a sound list, in which   *)
(* every item is at its own rank, it is the list; for any other it is some *)
(* context with the flags asked.                                           *)
(***************************************************************************)
EXTENDS DiagCntProof

CommandInv ==
  \A p \in Procs :
    /\ pc[p] \in {"parse", "strtok", "get_freq"} => req[p].name = "set"
    /\ pc[p] \in {"cap_general", "cap_debug", "cap_freq"} => req[p].name = "cap"
    /\ pc[p] = "idle" => ids[p] = <<>>
    /\ pc[p] = "set_param" =>
         \/ req[p].name = "set"
         \/ req[p].name = "disable" /\ flags[p] = {"clear"} /\ ids[p] = <<>>

(* A process that only moves on, with the same params, keeps the invariant  *)
(* if it goes where its command leads.                                      *)
LEMMA MoveOn ==
  ASSUME TypeOK, CommandInv, NEW p \in Procs, NEW l, pc' = [pc EXCEPT ![p] = l],
         UNCHANGED <<req, ids, pos, i, flags>>,
         l \in {"cap_debug", "cap_freq", "done"},
         l # "done" => req[p].name = "cap"
  PROVE  CommandInv'
  BY DEF CommandInv, TypeOK

(* A set that moves on keeps the invariant, whatever it does to its params. *)
LEMMA SetsOn ==
  ASSUME TypeOK, CommandInv, NEW p \in Procs, req[p].name = "set", UNCHANGED req,
         pc'[p] \in {"strtok", "get_freq", "set_param"},
         \A q \in Procs \ {p} : pc'[q] = pc[q] /\ flags'[q] = flags[q] /\ ids'[q] = ids[q]
  PROVE  CommandInv'
  BY DEF CommandInv

(* The command of a process, step by step.                                 *)
LEMMA CommandStep ==
  ASSUME IInv, CommandInv, [Next]_vars
  PROVE  CommandInv'
  <1>0. TypeOK
    BY DEF IInv
  <1> USE DEF Goto, Return, params
  <1>1. ASSUME NEW p \in Procs, Start(p) PROVE CommandInv'
    <2>1. PICK r \in Requests :
            /\ req' = [req EXCEPT ![p] = r]
            /\ pc' = [pc EXCEPT ![p] =
                 CASE r.name = "set" -> "parse" [] r.name = "disable" -> "set_param"
                   [] r.name = "cap" -> "cap_general" [] OTHER -> r.name]
            /\ flags' = [flags EXCEPT ![p] = IF r.name = "disable" THEN {"clear"} ELSE {}]
      BY <1>1 DEF Start
    <2>2. pc[p] = "idle" /\ UNCHANGED <<ids, pos, i>>
      BY <1>1 DEF Start
    <2>3. r.name \in {"set", "cap", "disable", "param", "dump"}
      BY RequestTypes
    <2> QED
      BY <1>0, <2>1, <2>2, <2>3 DEF CommandInv, TypeOK
  <1>2. ASSUME NEW p \in Procs, Parse(p) \/ Token(p) \/ NoToken(p) PROVE CommandInv'
    <2>1. /\ pc[p] \in {"parse", "strtok"} /\ UNCHANGED req
          /\ pc'[p] \in {"strtok", "get_freq"}
          /\ \A q \in Procs \ {p} : pc'[q] = pc[q] /\ flags'[q] = flags[q] /\ ids'[q] = ids[q]
      <3>1. CASE Parse(p)
        BY <1>0, <3>1 DEF Parse, TypeOK
      <3>2. CASE Token(p)
        BY <1>0, <3>2 DEF Token, TypeOK
      <3>3. CASE NoToken(p)
        BY <1>0, <3>3 DEF NoToken, TypeOK
      <3> QED
        BY <1>2, <3>1, <3>2, <3>3
    <2>2. req[p].name = "set"
      BY <2>1 DEF CommandInv
    <2> QED
      BY <1>0, <2>1, <2>2, SetsOn
  <1>3. ASSUME NEW p \in Procs, GetFreq(p) PROVE CommandInv'
    <2>1. CASE pc[p] = "get_freq"
      <3>1. /\ flags' = [flags EXCEPT ![p] = @ \cup {"enable"}]
            /\ pc' = [pc EXCEPT ![p] = "set_param"] /\ UNCHANGED <<req, ids>>
        BY <1>3, <2>1 DEF GetFreq
      <3>2. req[p].name = "set"
        BY <2>1 DEF CommandInv
      <3>3. pc'[p] = "set_param" /\ \A q \in Procs \ {p} : pc'[q] = pc[q] /\ flags'[q] = flags[q]
        BY <1>0, <3>1 DEF TypeOK
      <3> QED
        BY <1>0, <3>1, <3>2, <3>3, SetsOn
    <2>2. CASE pc[p] # "get_freq"
      <3>1. pc' = [pc EXCEPT ![p] = "done"] /\ UNCHANGED <<req, ids, pos, i, flags>>
        BY <1>3, <2>2 DEF GetFreq
      <3> QED
        BY <1>0, <3>1, MoveOn
    <2> QED
      BY <2>1, <2>2
  <1>4. ASSUME NEW p \in Procs, CapGeneral(p) \/ CapDebug(p) PROVE CommandInv'
    <2>1. /\ pc[p] \in {"cap_general", "cap_debug"} /\ UNCHANGED <<req, ids, pos, i, flags>>
          /\ \E l \in {"cap_debug", "cap_freq", "done"} : pc' = [pc EXCEPT ![p] = l]
      BY <1>4 DEF CapGeneral, CapDebug
    <2>2. req[p].name = "cap"
      BY <2>1 DEF CommandInv
    <2> QED
      BY <1>0, <2>1, <2>2, MoveOn
  <1>5. ASSUME NEW p \in Procs,
               \/ ParseFails(p) \/ MallocFails(p) \/ GetFreqFails(p) \/ SetParam(p)
               \/ SetParamFails(p) \/ QueryParam(p) \/ QueryCntrs(p) \/ QueryFails(p)
        PROVE  CommandInv'
    <2>1. pc' = [pc EXCEPT ![p] = "done"] /\ UNCHANGED <<req, ids, pos, i, flags>>
      BY <1>5, Zenon DEF ParseFails, MallocFails, GetFreqFails, SetParam, SetParamFails,
                  QueryParam, QueryCntrs, QueryFails
    <2> QED
      BY <1>0, <2>1, MoveOn
  <1>6. ASSUME NEW p \in Procs, Gone(p) PROVE CommandInv'
    BY <1>0, <1>6 DEF Gone, CommandInv, TypeOK
  <1>7. CASE UNCHANGED vars
    BY <1>7 DEF vars, CommandInv
  <1> QED
    BY <1>1, <1>2, <1>3, <1>4, <1>5, <1>6, <1>7 DEF Next, Run, Set, Query, Exit, Kill
-----------------------------------------------------------------------------
(* What the mapping makes of pc, ret and req.                              *)
StateOf(l, r) ==
  CASE l = "idle" -> "idle"
    [] l = "done" -> IF r = "ok" THEN "ok" ELSE "failed"
    [] OTHER -> "pending"
State == [p \in Procs |-> StateOf(pc[p], ret[p])]
Asked == [p \in Procs |-> [req[p] EXCEPT !.flags = FlagsOf(@)]]
AskedRequests == {[r EXCEPT !.flags = FlagsOf(@)] : r \in Requests}
AskedDefined == {[r EXCEPT !.flags = FlagsOf(@)] : r \in {q \in Requests : Sound(q)}}

(* The actions of DiagConfig, under the mapping.                           *)
LEMMA MappedInit ==
  ASSUME State = [p \in Procs |-> "idle"], Asked \in [Procs -> AskedRequests],
         conf = NoContext, shown = [p \in Procs |-> NoContext]
  PROVE  Abstract!Init
  BY DEF Abstract!Init, Abstract!Nothing, NoContext, State, StateOf, Asked, AskedRequests

(* A command starts: Ask.                                                  *)
LEMMA MappedAsk ==
  ASSUME NEW p \in Procs, State[p] = "idle", State' = [State EXCEPT ![p] = "pending"],
         NEW r \in AskedRequests, Asked' = [Asked EXCEPT ![p] = r], UNCHANGED <<conf, shown>>
  PROVE  Abstract!Ask(p)
  BY DEF Abstract!Ask, State, StateOf, Asked, AskedRequests

(* It is carried out: Carry.                                               *)
LEMMA MappedCarry ==
  ASSUME NEW p \in Procs, State[p] = "pending", State' = [State EXCEPT ![p] = "ok"],
         UNCHANGED Asked, conf' \in Abstract!Effects(Asked[p]),
         shown' = [shown EXCEPT ![p] = shown'[p]],
         IF Asked[p].name = "param" THEN shown'[p] \in Abstract!Shows(Asked[p])
         ELSE shown'[p] = shown[p]
  PROVE  Abstract!Carry(p)
  BY DEF Abstract!Carry, State, StateOf, Asked

(* It fails: Fail.                                                         *)
LEMMA MappedFail ==
  ASSUME NEW p \in Procs, State[p] = "pending", State' = [State EXCEPT ![p] = "failed"],
         UNCHANGED <<Asked, shown>>,
         conf' = conf \/ ("lost" \in Faults /\ conf' \in Abstract!Effects(Asked[p]))
  PROVE  Abstract!Fail(p)
  BY DEF Abstract!Fail, State, StateOf, Asked

(* Its process goes: Leave.                                                *)
LEMMA MappedLeave ==
  ASSUME NEW p \in Procs, State[p] # "idle", State' = [State EXCEPT ![p] = "idle"],
         NEW r \in AskedRequests, Asked' = [Asked EXCEPT ![p] = r],
         shown' = [shown EXCEPT ![p] = NoContext], UNCHANGED conf
  PROVE  Abstract!Leave(p)
  BY DEF Abstract!Leave, Abstract!Nothing, NoContext, State, StateOf, Asked, AskedRequests

(* Nothing the user sees changes.                                          *)
LEMMA MappedStutter ==
  ASSUME UNCHANGED <<State, Asked, conf, shown>>
  PROVE  UNCHANGED Abstract!absvars
  BY DEF Abstract!absvars, State, StateOf, Asked

(* A process that goes somewhere changes its state alone.                  *)
LEMMA StateMoves ==
  ASSUME TypeOK, NEW p \in Procs, NEW l, pc' = [pc EXCEPT ![p] = l],
         \A q \in Procs : q # p => ret'[q] = ret[q]
  PROVE  State' = [State EXCEPT ![p] = StateOf(l, ret'[p])]
  <1>1. DOMAIN State = Procs /\ State' = [q \in Procs |-> State'[q]]
    BY DEF State
  <1>2. \A q \in Procs : q # p => State'[q] = State[q]
    BY DEF State, TypeOK
  <1>3. State'[p] = StateOf(l, ret'[p])
    BY DEF State, StateOf, TypeOK
  <1>4. State = [q \in Procs |-> State[q]]
    BY DEF State
  <1> QED
    BY <1>1, <1>2, <1>3, <1>4

(* So does a process that gets a request.                                  *)
LEMMA AskedMoves ==
  ASSUME TypeOK, NEW p \in Procs, NEW r \in Requests, req' = [req EXCEPT ![p] = r]
  PROVE  /\ [r EXCEPT !.flags = FlagsOf(@)] \in AskedRequests
         /\ Asked' = [Asked EXCEPT ![p] = [r EXCEPT !.flags = FlagsOf(@)]]
  <1>1. [r EXCEPT !.flags = FlagsOf(@)] \in AskedRequests
    BY DEF AskedRequests
  <1>2. \A q \in Procs : q # p => Asked'[q] = Asked[q]
    BY DEF Asked, TypeOK
  <1>3. Asked'[p] = [r EXCEPT !.flags = FlagsOf(@)]
    BY DEF Asked, TypeOK
  <1>4. Asked = [q \in Procs |-> Asked[q]] /\ Asked' = [q \in Procs |-> Asked'[q]]
    BY DEF Asked
  <1> QED
    BY <1>1, <1>2, <1>3, <1>4

(* The fields of a mapped request.                                         *)
LEMMA AskedFields ==
  ASSUME TypeOK, NEW p \in Procs
  PROVE  /\ Asked[p].name = req[p].name /\ Asked[p].n = req[p].n
         /\ Asked[p].items = req[p].items
         /\ Asked[p].flags = FlagsOf(req[p].flags)
  <1>1. req[p] \in Requests
    BY DEF TypeOK
  <1>2. DOMAIN req[p] = {"name", "flags", "items", "n"}
    BY <1>1, SMTT(30) DEF Requests
  <1>3. Asked[p] = [req[p] EXCEPT !.flags = FlagsOf(@)]
    BY DEF Asked
  <1> QED
    BY <1>2, <1>3
-----------------------------------------------------------------------------
(* The initial states map to initial states.                               *)
LEMMA InitRefines == Init => CommandInv /\ Abstract!Init
  <1> SUFFICES ASSUME Init PROVE CommandInv /\ Abstract!Init
    OBVIOUS
  <1>0. TypeOK
    BY InitInv DEF IInv
  <1>1. CommandInv
    BY DEF Init, CommandInv
  <1>2. State = [p \in Procs |-> "idle"]
    BY DEF Init, State, StateOf
  <1>3. Asked \in [Procs -> AskedRequests]
    BY <1>0 DEF Asked, AskedRequests, TypeOK
  <1>4. conf = NoContext /\ shown = [p \in Procs |-> NoContext]
    BY DEF Init
  <1> QED
    BY <1>1, <1>2, <1>3, <1>4, MappedInit

(* A step in the middle of a command changes nothing the user sees.        *)
LEMMA Moving ==
  ASSUME TypeOK, NEW p \in Procs, pc[p] \notin {"idle", "done"}, NEW l,
         pc' = [pc EXCEPT ![p] = l], l \notin {"idle", "done"},
         UNCHANGED <<req, ret, conf, shown>>
  PROVE  UNCHANGED Abstract!absvars
  <1>1. State' = [State EXCEPT ![p] = StateOf(l, ret'[p])]
    BY StateMoves
  <1>2. StateOf(l, ret'[p]) = "pending" /\ State[p] = "pending"
    BY DEF StateOf, State
  <1>3. State' = State
    BY <1>1, <1>2 DEF State
  <1>4. Asked' = Asked
    BY DEF Asked
  <1> QED
    BY <1>3, <1>4, MappedStutter

(* The end of a command that failed, and left the configuration alone.     *)
LEMMA Failing ==
  ASSUME TypeOK, NEW p \in Procs, pc[p] \notin {"idle", "done"}, NEW r, r # "ok",
         Return(p, r), UNCHANGED <<req, conf, shown>>
  PROVE  Abstract!Fail(p)
  <1>1. /\ pc' = [pc EXCEPT ![p] = "done"] /\ ret' = [ret EXCEPT ![p] = r]
        /\ \A q \in Procs : q # p => ret'[q] = ret[q]
        /\ ret'[p] = r
    BY DEF Return, Goto, TypeOK
  <1>2. State' = [State EXCEPT ![p] = StateOf("done", ret'[p])]
    BY <1>1, StateMoves
  <1>3. StateOf("done", ret'[p]) = "failed" /\ State[p] = "pending"
    BY <1>1 DEF StateOf, State
  <1>4. Asked' = Asked
    BY DEF Asked
  <1> QED
    BY <1>2, <1>3, <1>4, MappedFail

(* The end of a command that was carried out.                              *)
LEMMA Carrying ==
  ASSUME TypeOK, NEW p \in Procs, pc[p] \notin {"idle", "done"},
         Return(p, "ok"), UNCHANGED req, conf' \in Abstract!Effects(Asked[p]),
         \/ req[p].name # "param" /\ UNCHANGED shown
         \/ /\ req[p].name = "param"
            /\ \E v \in Abstract!Shows(Asked[p]) : shown' = [shown EXCEPT ![p] = v]
  PROVE  Abstract!Carry(p)
  <1>1. /\ pc' = [pc EXCEPT ![p] = "done"] /\ ret' = [ret EXCEPT ![p] = "ok"]
        /\ \A q \in Procs : q # p => ret'[q] = ret[q]
        /\ ret'[p] = "ok"
    BY DEF Return, Goto, TypeOK
  <1>2. State' = [State EXCEPT ![p] = StateOf("done", ret'[p])]
    BY <1>1, StateMoves
  <1>3. StateOf("done", ret'[p]) = "ok" /\ State[p] = "pending"
    BY <1>1 DEF StateOf, State
  <1>4. State' = [State EXCEPT ![p] = "ok"]
    BY <1>2, <1>3
  <1>5. Asked' = Asked
    BY DEF Asked
  <1>6. Asked[p].name = req[p].name
    BY AskedFields
  <1>7. CASE req[p].name # "param" /\ UNCHANGED shown
    <2>1. shown'[p] = shown[p] /\ shown' = [shown EXCEPT ![p] = shown'[p]]
      BY <1>7 DEF TypeOK
    <2> QED
      BY <1>3, <1>4, <1>5, <1>6, <1>7, <2>1, MappedCarry
  <1>8. CASE req[p].name = "param" /\ \E v \in Abstract!Shows(Asked[p]) :
                                        shown' = [shown EXCEPT ![p] = v]
    <2>1. PICK v \in Abstract!Shows(Asked[p]) : shown' = [shown EXCEPT ![p] = v]
      BY <1>8
    <2>2. shown'[p] = v
      BY <2>1 DEF TypeOK
    <2> QED
      BY <1>3, <1>4, <1>5, <1>6, <1>8, <2>1, <2>2, MappedCarry
  <1> QED
    BY <1>7, <1>8

(* A process that goes, on its own or killed, takes no effect back.        *)
LEMMA Going ==
  ASSUME TypeOK, NEW p \in Procs, pc[p] # "idle", Gone(p)
  PROVE  Abstract!Leave(p)
  <1>1. /\ pc' = [pc EXCEPT ![p] = "idle"] /\ req' = [req EXCEPT ![p] = NoRequest]
        /\ \A q \in Procs : q # p => ret'[q] = ret[q]
    BY DEF Gone, Goto, TypeOK
  <1>2. State' = [State EXCEPT ![p] = StateOf("idle", ret'[p])]
    BY <1>1, StateMoves
  <1>3. State[p] # "idle" /\ StateOf("idle", ret'[p]) = "idle"
    BY DEF State, StateOf
  <1>4. \E r \in AskedRequests : Asked' = [Asked EXCEPT ![p] = r]
    BY <1>1, AskedMoves, NoRequestIsOne
  <1>5. shown' = [shown EXCEPT ![p] = NoContext] /\ UNCHANGED conf
    BY DEF Gone
  <1> QED
    BY <1>2, <1>3, <1>4, <1>5, MappedLeave

(* A process that starts a command asks for what it was given.             *)
LEMMA Starting ==
  ASSUME TypeOK, NEW p \in Procs, Start(p)
  PROVE  Abstract!Ask(p)
  <1>1. PICK r \in Requests :
          /\ req' = [req EXCEPT ![p] = r]
          /\ pc' = [pc EXCEPT ![p] =
               CASE r.name = "set" -> "parse" [] r.name = "disable" -> "set_param"
                 [] r.name = "cap" -> "cap_general" [] OTHER -> r.name]
    BY DEF Start, Goto
  <1>2. PICK l \in {"parse", "set_param", "cap_general", "param", "dump"} :
          pc' = [pc EXCEPT ![p] = l]
    BY <1>1, RequestTypes
  <1>3. pc[p] = "idle" /\ UNCHANGED <<ret, conf, shown>>
    BY DEF Start
  <1>4. State' = [State EXCEPT ![p] = StateOf(l, ret'[p])]
    BY <1>2, <1>3, StateMoves
  <1>5. State[p] = "idle" /\ StateOf(l, ret'[p]) = "pending"
    BY <1>3 DEF State, StateOf
  <1>6. \E a \in AskedRequests : Asked' = [Asked EXCEPT ![p] = a]
    BY <1>1, AskedMoves
  <1> QED
    BY <1>3, <1>4, <1>5, <1>6, MappedAsk
-----------------------------------------------------------------------------
(* A mapped request is defined when the request is sound.                  *)
LEMMA DefinedIsSound ==
  ASSUME TypeOK, NEW p \in Procs
  PROVE  Asked[p] \in AskedDefined => Sound(req[p])
  <1> SUFFICES ASSUME Asked[p] \in AskedDefined PROVE Sound(req[p])
    OBVIOUS
  <1>1. PICK q \in Requests : Sound(q) /\ Asked[p] = [q EXCEPT !.flags = FlagsOf(@)]
    BY DEF AskedDefined
  <1>2. DOMAIN q = {"name", "flags", "items", "n"}
    BY SMTT(30) DEF Requests
  <1>3. Asked[p].name = q.name /\ Asked[p].items = q.items /\ Asked[p].n = q.n
    BY <1>1, <1>2
  <1>4. req[p].name = q.name /\ req[p].items = q.items /\ req[p].n = q.n
    BY <1>3, AskedFields
  <1> QED
    BY <1>1, <1>4 DEF Sound

(* In a list without empty items every item is at its own rank.            *)
LEMMA FullRank ==
  ASSUME NEW items, Len(items) \in Nat, \A k \in 1 .. Len(items) : NotEmpty(items[k])
  PROVE  \A m \in 1 .. Len(items) : Rank(items, m) = m
  <1> SUFFICES ASSUME NEW m \in 1 .. Len(items) PROVE Rank(items, m) = m
    OBVIOUS
  <1>1. {n \in 1 .. m : NotEmpty(items[n])} = 1 .. m
    OBVIOUS
  <1>2. Cardinality(1 .. m) = m
    BY FS_Interval
  <1> QED
    BY <1>1, <1>2 DEF Rank

(* The list sent for a sound list is the list.                             *)
LEMMA SoundIsSent ==
  ASSUME TypeOK, NEW p \in Procs, SoundList(req[p].items),
         Holds(ids[p], req[p].items, Len(req[p].items))
  PROVE  Context(p).ids = req[p].items
  <1> DEFINE items == req[p].items
  <1>1. /\ items \in Seq(Ids \cup {Empty}) /\ Len(items) \in Nat
        /\ ids[p] \in Seq(Ids \cup {Garbage})
    BY RequestTypes DEF TypeOK
  <1> HIDE DEF items
  <1>2. Len(ids[p]) = Len(items) /\ U16(Len(ids[p])) = Len(items)
    BY <1>1, U16Type, Limits DEF Holds, SoundList, items
  <1>3. ASSUME NEW k \in 1 .. Len(items)
        PROVE  /\ items[k] \in 0 .. Width16 - 1 /\ items[k] \in Nat
               /\ NotEmpty(items[k]) /\ items[k] # Garbage
    <2>1. items[k] \in 0 .. Width16 - 1
      BY DEF SoundList, items
    <2>2. items[k] \in Nat
      BY <2>1, Limits
    <2> QED
      BY <2>1, <2>2, ItemsAssumption DEF NotEmpty
  <1>4. ASSUME NEW k \in 1 .. Len(items) PROVE IdField(ids[p][k]) = items[k]
    <2>1. Rank(items, k) = k
      BY <1>1, <1>3, FullRank
    <2>2. ids[p][k] = items[k]
      BY <1>3, <2>1 DEF Holds, items
    <2>3. U16(items[k]) = items[k]
      BY <1>3, U16Type
    <2> QED
      BY <1>3, <2>2, <2>3 DEF IdField
  <1>5. Context(p).ids = [k \in 1 .. Len(items) |-> items[k]]
    BY <1>2, <1>4 DEF Context
  <1> QED
    BY <1>1, <1>5 DEF items

(* What a process sends is what its request asks for.                      *)
LEMMA ContextAsked ==
  ASSUME TypeOK, SetInv, CommandInv, NEW p \in Procs, pc[p] = "set_param"
  PROVE  /\ Context(p) \in Abstract!Effects(Asked[p])
         /\ req[p].name \in {"set", "disable"}
  <1>1. /\ Asked[p].name = req[p].name /\ Asked[p].items = req[p].items
        /\ Asked[p].flags = FlagsOf(req[p].flags)
    BY AskedFields
  <1>2. Context(p) \in Contexts
    BY ContextTypes
  <1>3. CASE req[p].name = "set"
    <2>1. /\ flags[p] = FlagsOf(req[p].flags) \cup {"enable"}
          /\ Holds(ids[p], req[p].items, Len(req[p].items))
      BY <1>3 DEF SetInv, Prepares
    <2>2. Context(p).flags = Asked[p].flags \cup {"enable"}
      BY <1>1, <2>1 DEF Context
    <2>3. CASE Asked[p] \in AskedDefined
      <3>1. SoundList(req[p].items)
        BY <1>3, <2>3, DefinedIsSound DEF Sound
      <3>2. Context(p).ids = Asked[p].items
        BY <1>1, <2>1, <3>1, SoundIsSent
      <3>3. Context(p) = [flags |-> Asked[p].flags \cup {"enable"}, ids |-> Asked[p].items]
        BY <2>2, <3>2 DEF Context
      <3> QED
        BY <1>1, <1>3, <2>3, <3>3 DEF Abstract!Effects, AskedDefined
    <2>4. CASE Asked[p] \notin AskedDefined
      BY <1>1, <1>2, <1>3, <2>2, <2>4 DEF Abstract!Effects, AskedDefined
    <2> QED
      BY <1>3, <2>3, <2>4
  <1>4. CASE req[p].name # "set"
    <2>1. req[p].name = "disable" /\ flags[p] = {"clear"} /\ ids[p] = <<>>
      BY <1>4 DEF CommandInv
    <2>2. Len(ids[p]) = 0 /\ U16(0) = 0
      BY <2>1, U16Type, Limits
    <2>3. Context(p).ids = <<>>
      BY <2>2 DEF Context
    <2>4. Context(p) = [flags |-> {"clear"}, ids |-> <<>>]
      BY <2>1, <2>3 DEF Context
    <2> QED
      BY <1>1, <2>1, <2>4 DEF Abstract!Effects, Abstract!Off
  <1> QED
    BY <1>3, <1>4

(* What param prints is what its request asks for.                         *)
LEMMA ShownAsked ==
  ASSUME TypeOK, NEW p \in Procs, req[p].name = "param"
  PROVE  LET n == req[p].n
         IN  [flags |-> FlagsShown(n), ids |-> [k \in 1 .. Lines(n) |-> IdShown(n, k)]]
               \in Abstract!Shows(Asked[p])
  <1> DEFINE n == req[p].n
             v == [flags |-> FlagsShown(n), ids |-> [k \in 1 .. Lines(n) |-> IdShown(n, k)]]
  <1>1. n \in Int /\ Asked[p].n = n /\ conf.ids \in Seq(Fields16) /\ Len(conf.ids) \in Nat
    BY RequestTypes, AskedFields DEF TypeOK, Contexts
  <1>2. v \in Printed
    BY <1>1, ContextTypes
  <1>3. ASSUME Asked[p] \in AskedDefined
        PROVE  v = Abstract!View(conf, n)
    <2>1. n \in -4 .. ParamLines
      BY <1>3, DefinedIsSound DEF Sound
    <2> HIDE DEF n
    <2>2. ParamSize(n) = 32 + n * 4 /\ n >= -4
      <3>1. ParamHeader + n * ParamLine \in 0 .. Width16 - 1
        BY <1>1, <2>1, Limits DEF ParamHeader, ParamLine
      <3> QED
        BY <1>1, <2>1, <3>1, U16Type DEF ParamSize, ParamHeader, ParamLine
    <2>3. FlagsShown(n) = conf.flags
      BY <1>1, <2>2 DEF FlagsShown, ParamFlags
    <2>4. Lines(n) \in Int /\ Lines(n) <= n /\ Lines(n) <= Len(conf.ids)
      BY <1>1 DEF Lines
    <2>5. \A k \in 1 .. Lines(n) : IdShown(n, k) = conf.ids[k]
      BY <1>1, <2>2, <2>4 DEF IdShown, ParamHeader, ParamLine
    <2>6. SubSeq(conf.ids, 1, Lines(n)) = [k \in 1 .. Lines(n) |-> conf.ids[k]]
      BY <1>1, <2>4
    <2> QED
      BY <2>3, <2>5, <2>6 DEF Abstract!View, Lines
  <1> HIDE DEF n, v
  <1>4. v \in Abstract!Shows(Asked[p])
    BY <1>1, <1>2, <1>3 DEF Abstract!Shows, AskedDefined
  <1> QED
    BY <1>4 DEF n, v

(* The other commands leave the configuration.                             *)
LEMMA NoEffect ==
  ASSUME TypeOK, NEW p \in Procs, req[p].name \in {"cap", "param", "dump"}
  PROVE  conf \in Abstract!Effects(Asked[p])
  <1>1. Asked[p].name \in {"cap", "param", "dump"}
    BY AskedFields
  <1> QED
    BY <1>1 DEF Abstract!Effects

(* Every step maps to a step or changes nothing the user sees.             *)
LEMMA StepRefines ==
  ASSUME TypeOK, ReplyInv, SetInv, CommandInv, [Next]_vars
  PROVE  Abstract!Next \/ UNCHANGED Abstract!absvars
  <1> DEFINE Refines == Abstract!Next \/ UNCHANGED Abstract!absvars
  <1>1. ASSUME NEW p \in Procs,
               Abstract!Ask(p) \/ Abstract!Carry(p) \/ Abstract!Fail(p) \/ Abstract!Leave(p)
        PROVE  Refines
    BY <1>1 DEF Abstract!Next
  <1> HIDE DEF Refines
  <1>2. ASSUME NEW p \in Procs, Start(p) PROVE Refines
    BY <1>1, <1>2, Starting
  <1>3. ASSUME NEW p \in Procs, Parse(p) \/ Token(p) \/ NoToken(p) PROVE Refines
    <2>1. PICK l \in {"strtok", "get_freq"} : pc' = [pc EXCEPT ![p] = l]
      <3>1. CASE Token(p)
        <4>1. pc[p] = "strtok" /\ pc' = pc
          BY <3>1 DEF Token
        <4>2. pc' = [pc EXCEPT ![p] = "strtok"]
          BY <4>1 DEF TypeOK
        <4> QED
          BY <4>2
      <3>2. CASE Parse(p) \/ NoToken(p)
        BY <3>2 DEF Parse, NoToken, Goto
      <3> QED
        BY <1>3, <3>1, <3>2
    <2>2. pc[p] \notin {"idle", "done"} /\ UNCHANGED <<req, ret, conf, shown>>
      BY <1>3 DEF Parse, Token, NoToken
    <2> QED
      BY <2>1, <2>2, Moving DEF Refines
  <1>4. ASSUME NEW p \in Procs, ParseFails(p) \/ MallocFails(p) \/ GetFreqFails(p)
        PROVE  Refines
    <2>1. PICK r \in {"EINVAL", "ENOMEM", "-ENOMEM", "-1"} : Return(p, r)
      BY <1>4 DEF ParseFails, MallocFails, GetFreqFails
    <2>2. pc[p] \notin {"idle", "done"} /\ UNCHANGED <<req, conf, shown>>
      BY <1>4 DEF ParseFails, MallocFails, GetFreqFails
    <2> QED
      BY <1>1, <2>1, <2>2, Failing
  <1>5. ASSUME NEW p \in Procs, GetFreq(p) PROVE Refines
    <2>1. UNCHANGED <<req, conf, shown>> /\ pc[p] \in {"get_freq", "cap_freq"}
      BY <1>5 DEF GetFreq
    <2>2. CASE pc[p] = "get_freq"
      <3>1. pc' = [pc EXCEPT ![p] = "set_param"] /\ UNCHANGED ret
        BY <1>5, <2>2 DEF GetFreq, Goto
      <3> QED
        BY <2>1, <3>1, Moving DEF Refines
    <2>3. CASE pc[p] = "cap_freq"
      <3>1. Return(p, "ok")
        BY <1>5, <2>3 DEF GetFreq
      <3>2. req[p].name = "cap"
        BY <2>3 DEF CommandInv
      <3> QED
        BY <1>1, <2>1, <3>1, <3>2, NoEffect, Carrying
    <2> QED
      BY <2>1, <2>2, <2>3
  <1>6. ASSUME NEW p \in Procs, SetParam(p) PROVE Refines
    <2>1. /\ pc[p] = "set_param" /\ conf' = Context(p) /\ Return(p, "ok")
          /\ UNCHANGED <<req, shown>>
      BY <1>6 DEF SetParam
    <2>2. conf' \in Abstract!Effects(Asked[p]) /\ req[p].name # "param"
      BY <2>1, ContextAsked
    <2> QED
      BY <1>1, <2>1, <2>2, Carrying
  <1>7. ASSUME NEW p \in Procs, SetParamFails(p) PROVE Refines
    <2>1. PICK r \in CmdFailures :
            /\ Return(p, r)
            /\ conf' \in {conf} \cup IF r = "-1" /\ "lost" \in Faults
                                     THEN {Context(p)} ELSE {}
      BY <1>7 DEF SetParamFails
    <2>2. pc[p] = "set_param" /\ UNCHANGED <<req, shown>> /\ r # "ok"
      BY <1>7 DEF SetParamFails, CmdFailures
    <2>3. CASE conf' = conf
      BY <1>1, <2>1, <2>2, <2>3, Failing
    <2>4. CASE "lost" \in Faults /\ conf' = Context(p)
      <3>1. ret'[p] = r /\ pc' = [pc EXCEPT ![p] = "done"]
            /\ \A q \in Procs : q # p => ret'[q] = ret[q]
        BY <2>1 DEF Return, Goto, TypeOK
      <3>2. State' = [State EXCEPT ![p] = StateOf("done", ret'[p])]
        BY <3>1, StateMoves
      <3>3. StateOf("done", ret'[p]) = "failed" /\ State[p] = "pending"
        BY <2>2, <3>1 DEF StateOf, State
      <3>4. Asked' = Asked
        BY <2>2 DEF Asked
      <3>5. conf' \in Abstract!Effects(Asked[p])
        BY <2>2, <2>4, ContextAsked
      <3>6. State' = [State EXCEPT ![p] = "failed"]
        BY <3>2, <3>3
      <3> QED
        BY <1>1, <2>2, <2>4, <3>3, <3>4, <3>5, <3>6, MappedFail
    <2> QED
      BY <2>1, <2>3, <2>4
  <1>8. ASSUME NEW p \in Procs, QueryParam(p) \/ QueryCntrs(p) PROVE Refines
    <2>1. CASE QueryParam(p)
      <3> DEFINE n == req[p].n
                 v == [flags |-> FlagsShown(n), ids |-> [k \in 1 .. Lines(n) |-> IdShown(n, k)]]
      <3>1. /\ pc[p] = "param" /\ Return(p, "ok") /\ UNCHANGED <<req, conf>>
            /\ shown' = [shown EXCEPT ![p] = v]
        BY <2>1 DEF QueryParam
      <3>2. req[p].name = "param"
        BY <3>1 DEF ReplyInv
      <3>3. v \in Abstract!Shows(Asked[p])
        BY <3>2, ShownAsked
      <3> HIDE DEF n, v
      <3> QED
        BY <1>1, <3>1, <3>2, <3>3, NoEffect, Carrying
    <2>2. CASE QueryCntrs(p)
      <3>1. pc[p] = "dump" /\ Return(p, "ok") /\ UNCHANGED <<req, conf, shown>>
        BY <2>2 DEF QueryCntrs
      <3>2. req[p].name = "dump"
        BY <3>1 DEF ReplyInv
      <3> QED
        BY <1>1, <3>1, <3>2, NoEffect, Carrying
    <2> QED
      BY <1>8, <2>1, <2>2
  <1>9. ASSUME NEW p \in Procs, QueryFails(p) PROVE Refines
    <2>1. PICK r \in CmdFailures : Return(p, r)
      BY <1>9 DEF QueryFails
    <2>2. r # "ok" /\ pc[p] \notin {"idle", "done"} /\ UNCHANGED <<req, conf, shown>>
      BY <1>9 DEF QueryFails, CmdFailures
    <2> QED
      BY <1>1, <2>1, <2>2, Failing
  <1>10. ASSUME NEW p \in Procs, CapGeneral(p) \/ CapDebug(p) PROVE Refines
    <2>1. pc[p] \in {"cap_general", "cap_debug"} /\ UNCHANGED <<req, conf, shown>>
      BY <1>10 DEF CapGeneral, CapDebug
    <2>2. CASE UNCHANGED ret /\ \E l \in {"cap_debug", "cap_freq"} : Goto(p, l)
      BY <2>1, <2>2, Moving DEF Refines, Goto
    <2>3. CASE \E r \in CmdFailures \cup {"ENOTSUP", "ENOMEM"} : Return(p, r)
      BY <1>1, <2>1, <2>3, Failing DEF CmdFailures
    <2> QED
      BY <1>10, <2>2, <2>3 DEF CapGeneral, CapDebug
  <1>11. ASSUME NEW p \in Procs, Exit(p) \/ Kill(p) PROVE Refines
    BY <1>1, <1>11, Going DEF Exit, Kill
  <1>12. ASSUME UNCHANGED vars PROVE Refines
    BY <1>12, MappedStutter DEF vars, State, Asked, Refines
  <1>13. ASSUME NEW p \in Procs, Run(p) PROVE Refines
    <2>1. CASE Set(p) \/ MallocFails(p) \/ GetFreqFails(p)
      BY <1>3, <1>4, <2>1 DEF Set
    <2>2. CASE GetFreq(p) \/ SetParam(p) \/ SetParamFails(p)
      BY <1>5, <1>6, <1>7, <2>2
    <2>3. CASE Query(p)
      BY <1>8, <1>9, <1>10, <2>3 DEF Query
    <2>4. CASE Exit(p)
      BY <1>11, <2>4
    <2> QED
      BY <1>13, <2>1, <2>2, <2>3, <2>4 DEF Run
  <1>14. Next => Refines
    BY <1>2, <1>11, <1>13 DEF Next
  <1>15. Refines
    BY <1>12, <1>14
  <1> QED
    BY <1>15 DEF Refines

(***************************************************************************)
(* DiagCnt implements DiagConfig: for any processes and any arguments, a   *)
(* request takes effect as a whole and at one moment, and success is       *)
(* reported only of a request that took effect.  What a set with a sound   *)
(* list leaves is what it asked for, and a param whose reply fits its      *)
(* buffer shows the latest configuration; a set with an empty item, or     *)
(* with an id or a number of ids of more than 16 bits, leaves its flags    *)
(* and some list, and a param of more lines prints anything.               *)
(***************************************************************************)
THEOREM Refinement == Spec => ImplementsConfig
  <1>1. Spec => []IInv
    BY Invariance
  <1>2. IInv /\ CommandInv /\ [Next]_vars => CommandInv'
    BY CommandStep
  <1>3. Init => CommandInv /\ Abstract!Init
    BY InitRefines
  <1>4. IInv /\ CommandInv /\ [Next]_vars => [Abstract!Next]_(Abstract!absvars)
    BY StepRefines DEF IInv
  <1> QED
    BY <1>1, <1>2, <1>3, <1>4, PTL DEF Spec, ImplementsConfig, Abstract!Spec
=============================================================================
