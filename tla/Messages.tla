------------------------------ MODULE Messages ------------------------------
(***************************************************************************)
(* The commands obj, reg and cap, one process after another, and what they *)
(* must do whichever layout, name, number and answer they meet.            *)
(***************************************************************************)
EXTENDS QueryObj, RegDump, DevCap

ObjNames == DOMAIN query_funcs \cup {"", "unknown"}
RegNames == DOMAIN regs \cup {"", "number"}
CapNames == {caps[i].name : i \in DOMAIN caps} \cup {"", "number"}

(* What may stand on the command line.  A number is given by `id' where    *)
(* the name is not one the command knows; --port may be left out.          *)
Args(cmd, names, ids, mods, ports, hows) ==
  [cmd : {cmd}, name : names, id : ids, mod : mods, port : ports, how : hows]
ObjArgs == Args("obj", ObjNames, Numbers, Modes, {{}}, {"hex", "bin"})
Ports == {{}} \cup {{n} : n \in Numbers}
RegArgs ==
  Args("reg", RegNames \ {"number"}, {{}}, Modes, Ports, Prints)
    \cup Args("reg", {"number"}, Numbers, {{}}, Ports, Prints)
CapArgs ==
  Args("cap", CapNames \ {"number"}, {{}}, {{}, {0}}, {{}}, Prints)
    \cup Args("cap", {"number"}, Numbers, {{}, {0}}, {{}}, Prints)
NoArgs ==
  UNION {Args(cmd, {"", "unknown"}, {{}}, {{}}, {{}}, Hows \ Prints) :
           cmd \in {"obj", "reg", "cap"}}

Init ==
  /\ pc = "idle"
  /\ asked = Nothing
  /\ sent = NoMessage
  /\ out = Blank
  /\ ret = "none"
  /\ shown = NotShown
  /\ tried = {}
  /\ code = "none"

Invoke == \E a \in ObjArgs \cup RegArgs \cup CapArgs \cup NoArgs : Start(a)

(* Refused before anything is sent. *)
Refuse ==
  /\ pc = "start" /\ sent = NoMessage
  /\ \E c \in CASE asked.cmd = "obj" -> ObjRefusals
               [] asked.cmd = "reg" -> RegRefusals
               [] asked.cmd = "cap" -> CapRefusals :
       End(c)
  /\ UNCHANGED <<shown, tried>>

mlx5u_cmd == IoctlFails \/ \E k \in Contents, s \in {{}, {1}} : Answer(k, s)

Obj == ObjSend \/ ObjShow \/ ObjFails
Reg == RegSend \/ RegShow \/ RegFails
CapOne == CapSend \/ CapShow \/ CapFails
CapAll == AllSend \/ AllShow \/ AllSkip \/ AllDone

Next == Invoke \/ Refuse \/ mlx5u_cmd \/ Obj \/ Reg \/ CapOne \/ CapAll \/ Exit

(* A process that was started runs on until it exits. *)
Spec == Init /\ [][Next]_vars /\ WF_vars(pc # "idle" /\ Next)

(***************************************************************************)
(* Properties                                                              *)
(***************************************************************************)

(* A message has its eight dwords and shows nothing before it was sent:    *)
(* the types of the program's variables.                                   *)
TypeOK ==
  /\ pc \in {"idle", "start", "cmd", "show", "end"}
  /\ asked.cmd \in {"none", "obj", "reg", "cap"} /\ asked.how \in Hows
  /\ sent = NoMessage \/ sent.dw \in [0 .. LastDw -> SUBSET (0 .. 31)]
  /\ sent.inlen % 4 = 0 /\ sent.outlen % 4 = 0
  /\ ret \in {"none", "ok", "status", "ioctl"}
  /\ shown.how \in {"none"} \cup Prints
  /\ \A f \in DOMAIN shown.values : shown.values[f] \subseteq 0 .. f.width - 1
  /\ tried \subseteq Printable
  /\ code \in {"none", "0", "1", "ENOMEM", "err", "crash"}

(* Where the help of obj (query_obj.c:401) says the id goes.               *)
IdAt ==
  [n \in DOMAIN query_funcs |->
     CASE n \in {"cq", "qp", "sq", "rq", "tis", "tir", "rqt", "rmp", "dct", "srq", "xrq",
                 "xrc_srq", "mkey"} -> {F(72, 24)}
       [] n \in {"eq", "cong_status"} -> {F(88, 8)}
       [] n \in {"pages", "vport_state", "esw_vport_context", "vport_counter",
                 "vhca_migration_state"} -> {F(80, 16)}
       [] n = "l2_table_entry" -> {F(168, 24)}
       [] n = "packet_reformat_context" -> {F(64, 32)}
       [] n = "cong_params" -> {F(92, 4)}
       [] n = "q_counter" -> {F(248, 8)}
       [] OTHER -> {}]

(* An object is asked for under the id given, as much of it as the id's    *)
(* field holds, in the mode given, and a number too wide for its field     *)
(* never spills over: nothing is set but these fields and other_vport.     *)
ObjectNamed ==
  (asked.cmd = "obj" /\ sent # NoMessage) =>
     LET other_vport == F(64, 1)
         there == {opcode, op_mod, other_vport} \cup IdAt[asked.name]
     IN  /\ \A f \in IdAt[asked.name] :
               OnWire(sent.dw, f) = asked.id \cap 0 .. f.width - 1
         /\ OnWire(sent.dw, op_mod) = asked.mod \cap 0 .. 15
         /\ \A d \in 0 .. LastDw : \A b \in sent.dw[d] :
               /\ 32 * d + b < 8 * sent.inlen
               /\ \E f \in there : 32 * d + b \in f.off .. f.off + f.width - 1

(* The command sent for an object is the query of that object, as the help *)
(* of obj says (query_obj.c:25: "executes PRM command query_<obj_name>_in").*)
ExecutesNamedQuery ==
  (asked.cmd = "obj" /\ sent # NoMessage) =>
     OnWire(sent.dw, opcode) = BitsOf(Opcode[asked.name])

(* A register is read and never written, the one whose name was given, or  *)
(* the low 16 bits of the number, with the argument and the port given, as *)
(* much of it as 8 bits hold, and port 0 where none was given.             *)
RegisterReadAsAsked ==
  (asked.cmd = "reg" /\ sent # NoMessage) =>
     /\ OnWire(sent.dw, op_mod) = {0}
     /\ asked.name \in DOMAIN regs =>
          OnWire(sent.dw, F(80, 16)) = regs[asked.name].reg_id
     /\ asked.name \notin DOMAIN regs =>
          OnWire(sent.dw, F(80, 16)) = asked.id \cap 0 .. 15
     /\ \A n \in asked.port : OnWire(sent.dw, F(136, 8)) = n \cap 0 .. 7
     /\ asked.port = {} => OnWire(sent.dw, F(136, 8)) = {}
     /\ OnWire(sent.dw, F(96, 32)) = asked.mod

(* Without --port it is port 1 that is asked for, as the help of reg says  *)
(* (reg.c:231: "port number, default 1").                                  *)
DefaultPortIsOne ==
  (asked.cmd = "reg" /\ asked.port = {} /\ sent # NoMessage) =>
     OnWire(sent.dw, F(136, 8)) = BitsOf(1)

(* What is printed under the name of a capability was answered to the      *)
(* request for that capability in that mode, though all of them share one  *)
(* buffer and any of them may fail.                                        *)
PrintedIsFresh ==
  shown.how # "none" =>
     /\ shown.from # Blank
     /\ asked.cmd # "cap" \/ ~ AllCaps => shown.from.answers = sent.dw
     /\ \A i \in DOMAIN caps :
          (asked.cmd = "cap" /\ shown.of = caps[i].name) =>
             OnWire(shown.from.answers, op_mod) =
                {b + 1 : b \in caps[i].type} \cup asked.mod

(* A value printed is what the device wrote in that field of the struct.   *)
PrintsWhatTheDeviceWrote ==
  shown.how = "pretty" =>
     \A f \in DOMAIN shown.values :
       shown.values[f] = OnWire(Reply(shown.from), F(128 + f.off, f.width))

(* A dump stays inside the reply, and that of a register shows the whole   *)
(* of its struct and no more.                                              *)
DumpInside ==
  shown.how \in {"hex", "bin"} =>
     /\ shown.bytes > 0
     /\ shown.bytes + (IF asked.cmd = "obj" THEN 0 ELSE 16) <= sent.outlen
     /\ (asked.cmd = "reg" /\ asked.name \in DOMAIN regs) =>
          shown.bytes = regs[asked.name].size

(* One capability that fails does not keep the others from being asked for.*)
EveryCapTried ==
  (asked.cmd = "cap" /\ pc = "end" /\ code = "0" /\ sent # NoMessage /\ AllCaps) =>
     tried = Printable

(* Every command ends. *)
AlwaysEnds == pc = "start" ~> pc = "idle"
=============================================================================
