------------------------------ MODULE Mailbox -------------------------------
(***************************************************************************)
(* One command of mlx5ctl that sends messages to the device: what it was   *)
(* asked, the message it built, the reply buffer and what it printed.  The *)
(* commands themselves are in QueryObj, RegDump and DevCap; numbers are    *)
(* sets of bits (IfcField).                                                *)
(***************************************************************************)
EXTENDS IfcCommands

CONSTANTS
  Numbers,    \* the values of the numeric arguments that are tried
  Modes,      \* those of the second one
  Contents    \* the kinds of data a device may answer with

ASSUME NumbersAssumption == \A n \in Numbers \cup Modes : n \subseteq 0 .. 31
ASSUME ContentsAssumption == Contents \subseteq Nat

VARIABLES
  pc,      \* "idle", "start", "cmd", "show" or "end"
  asked,   \* the arguments: cmd, name, id, mod, port ({} or {number}), how
  sent,    \* the last message: its dwords, its length, the room for a reply
  out,     \* the reply buffer: status, content, and the message it answers
  ret,     \* what mlx5u_cmd returned
  shown,   \* what was printed last: of whom, how, bytes, values, from where
  tried,   \* the capabilities asked for so far
  code     \* exit status

vars == <<pc, asked, sent, out, ret, shown, tried, code>>

Hows == {"hex", "bin", "pretty", "help", "invalid", "bare"}
Prints == {"hex", "bin", "pretty"}
Nothing == [cmd |-> "none", name |-> "", id |-> {}, mod |-> {}, port |-> {}, how |-> "hex"]
NoMessage == [dw |-> <<>>, inlen |-> 0, outlen |-> 0]
Blank == [status |-> {}, content |-> 0, answers |-> <<>>]
NotShown == [of |-> "", how |-> "none", bytes |-> 0, values |-> <<>>, from |-> Blank]

(* A number below 2^16 as the set of its bits.                             *)
BitsOf(n) == {b \in 0 .. 15 : (n \div 2^b) % 2 = 1}

(* The opcodes of the commands, by the object or the service they name.    *)
Opcode ==
  [hca_cap |-> \h100, adapter |-> \h101, pages |-> \h107, issi |-> \h10a,
   vhca_migration_state |-> \h117, mkey |-> \h201, special_contexts |-> \h203,
   eq |-> \h303, cq |-> \h402, qp |-> \h50b, srq |-> \h702, xrc_srq |-> \h707,
   dct |-> \h713, xrq |-> \h719, esw_functions |-> \h740, vport_state |-> \h750,
   esw_vport_context |-> \h752, vnic_env |-> \h76f, vport_counter |-> \h770,
   q_counter |-> \h773, access_reg |-> \h805, mad_demux |-> \h80b,
   cong_status |-> \h822, cong_params |-> \h824, cong_statistics |-> \h826,
   l2_table_entry |-> \h82a, wol_rol |-> \h831, lag |-> \h842, tir |-> \h903,
   sq |-> \h907, rq |-> \h90b, rmp |-> \h90f, tis |-> \h915, rqt |-> \h919,
   packet_reformat_context |-> \h93f]

(* The fields every command and every reply begin with (mbox_in, mbox_out).*)
opcode == F(0, 16)
op_mod == F(48, 16)
status == F(0, 8)

(* A message: zeroed memory on which the fields are set one after another. *)
(* No command sets a field behind dword 7; what follows stays zero.        *)
LastDw == 7
Zeroed == [d \in 0 .. LastDw |-> {}]
Message(sets) ==
  LET after[i \in 0 .. Len(sets)] ==
        IF i = 0 THEN Zeroed ELSE MLX5_SET(after[i - 1], sets[i][1], sets[i][2])
  IN  after[Len(sets)]

(* The reply as it lies in the buffer, zeroed memory before the first.     *)
(* External: bit b of dword d of a content.                                *)
Content(k, d) == {b \in 0 .. 31 : (b * (b + k) + 5 * d + (d \div 3) * b) % 7 < 3 + (k % 2)}
Reply(o) ==
  [d \in 0 .. 1023 |->
     CASE o = Blank -> {}
       [] o # Blank /\ d = 0 -> {7 - b : b \in o.status}
       [] OTHER -> Content(o.content, d)]

(* What follows the 16 bytes all replies begin with: MLX5_ADDR_OF of       *)
(* register_data and of capability.                                        *)
HeaderDw == 4
BehindHeaderShort(p) == [d \in 0 .. 1019 |-> p[d + HeaderDw - 2]]
BehindHeader(p) == [d \in 0 .. 1019 |-> p[d + HeaderDw]]

(* Pretty printing reads fields with MLX5_GET, 64-bit ones with MLX5_GET64.*)
Values(p, fields) ==
  [f \in fields |-> IF f.width = 64 THEN MLX5_GET64(p, f) ELSE MLX5_GET(p, f)]

(* A field they can read. *)
Readable(f) ==
  /\ InDword(f) \/ (f \in [off : Nat, width : {64}] /\ f.off % 64 = 0)
  /\ f.off + f.width <= 32 * 1020

Start(a) ==
  /\ pc = "idle"
  /\ asked' = a
  /\ pc' = "start"
  /\ UNCHANGED <<sent, out, ret, shown, tried, code>>

(* A command ends, for its return value or in the middle of its parsing.   *)
End(status_code) ==
  /\ pc' = "end"
  /\ code' = status_code
  /\ UNCHANGED <<asked, sent, out, ret>>

Send(sets, inlen, outlen) ==
  /\ sent' = [dw |-> Message(sets), inlen |-> inlen, outlen |-> outlen]
  /\ pc' = "cmd"
  /\ UNCHANGED <<asked, out, ret, shown, code>>

(* mlx5u_cmd: the ioctl fails, with nothing in the reply buffer; or the    *)
(* device answers, with status 0 or another.                               *)
IoctlFails ==
  /\ pc = "cmd"
  /\ ret' = "ioctl"
  /\ pc' = "show"
  /\ UNCHANGED <<asked, sent, out, shown, tried, code>>

Answer(k, s) ==
  /\ pc = "cmd"
  /\ out' = [status |-> s, content |-> k, answers |-> sent.dw]
  /\ ret' = IF MLX5_GET(Reply(out'), status) = {} THEN "ok" ELSE "status"
  /\ pc' = "show"
  /\ UNCHANGED <<asked, sent, shown, tried, code>>

(* The next command line is another process.                               *)
Exit ==
  /\ pc = "end"
  /\ pc' = "idle"
  /\ asked' = Nothing
  /\ sent' = NoMessage
  /\ out' = Blank
  /\ ret' = "none"
  /\ shown' = NotShown
  /\ tried' = {}
  /\ code' = "none"
=============================================================================
