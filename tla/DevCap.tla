------------------------------- MODULE DevCap -------------------------------
(***************************************************************************)
(* The command cap (devcaps.c): one capability, by its name or its number, *)
(* or without one all that have a pretty printer, one after another in the *)
(* same reply buffer.                                                      *)
(***************************************************************************)
EXTENDS Mailbox

(* The fields the pretty printers read: every one of cmd_hca_cap up to     *)
(* log_max_rqt, from there on some; of the other structs all, but for the  *)
(* flow tables of port selection.                                          *)
print_hca_caps_a == {f \in cmd_hca_cap.fields : f.off < 498}
print_hca_caps_b ==
  {f \in cmd_hca_cap.fields : f.off >= 498 /\ f.off < 915} \cup
  L(<<-1468, 1, 1, 1, 1, 16, 16, -8, 4, -220, 4, 4, 4, 4, 4, 4, 16, 16, 4,
    4, 24, -20, 12, -12, 4, -4, 12, -32, 64, 64>>).fields
print_hca_caps == print_hca_caps_a \cup print_hca_caps_b
print_hca_caps2 == cmd_hca_cap_2.fields
print_eth_caps == per_protocol_networking_offload_caps.fields
print_virtio_emulation_cap == virtio_emulation_cap.fields
print_roce_cap == roce_cap.fields
print_debug_caps == debug_cap.fields
print_port_selection_caps == L(<<-16, 1, -1, 1>>).fields

Cap(name, type) == [name |-> name, type |-> BitsOf(type), print |-> {}]
CapPrint(name, type, fields) == [name |-> name, type |-> BitsOf(type), print |-> fields]
caps ==
  <<CapPrint("GENERAL", \h0, print_hca_caps),
    CapPrint("ETHERNET_OFFLOADS", \h1, print_eth_caps),
    CapPrint("ROCE", \h4, print_roce_cap),
    CapPrint("GENERAL_2", \h20, print_hca_caps2),
    CapPrint("PORT_SELECTION", \h25, print_port_selection_caps),
    CapPrint("ADV_VIRTUALIZATION", \h26, print_virtio_emulation_cap),
    CapPrint("DEBUG", \hd, print_debug_caps),
    Cap("ODP", \h2), Cap("ATOMIC", \h3), Cap("IPOIB_OFFLOADS", \h5),
    Cap("IPOIB_ENHANCED_OFFLOADS", \h6), Cap("FLOW_TABLE", \h7),
    Cap("ESWITCH_FLOW_TABLE", \h8), Cap("ESWITCH", \h9), Cap("QOS", \hc),
    Cap("DEV_MEM", \hf), Cap("TLS", \h11), Cap("VDPA_EMULATION", \h13),
    Cap("DEV_EVENT", \h14), Cap("IPSEC", \h15), Cap("CRYPTO", \h1a),
    Cap("MACSEC", \h1f)>>

(* The sizes of the layouts and the fields that are printed.  No parameter *)
(* occurs here: TLC checks all there is.                                   *)
ASSUME CapsAssumption ==
  /\ MLX5_ST_SZ_BYTES(query_hca_cap_in) = 16
  /\ MLX5_ST_SZ_BYTES(query_hca_cap_out) = 16 + MLX5_ST_SZ_BYTES(hca_cap_union)
  /\ MLX5_ST_SZ_BYTES(hca_cap_union) \in Nat /\ MLX5_ST_SZ_BYTES(hca_cap_union) % 4 = 0
  /\ MLX5_ST_SZ_BYTES(cmd_hca_cap) \in 1 .. MLX5_ST_SZ_BYTES(hca_cap_union)
  /\ \A i \in DOMAIN caps : \A f \in caps[i].print : Readable(f)

(* The type of the capability asked for; -1 when none is.  The char that   *)
(* get_cap_type returns is signed where mlx5ctl is built.                  *)
cap_type ==
  IF \E i \in DOMAIN caps : caps[i].name = asked.name
  THEN caps[CHOOSE i \in DOMAIN caps : caps[i].name = asked.name].type
  ELSE IF asked.name = "" THEN 0 .. 31 ELSE asked.id

OfType(type) == {i \in DOMAIN caps : caps[i].type = type}

(* A negative type asks for all capabilities that have a printer.          *)
AllCaps == 31 \in cap_type
Printable == {i \in DOMAIN caps : caps[i].print # {}}
Untried == {i \in Printable : i \notin tried}
Next_cap == CHOOSE i \in Untried : \A j \in Untried : i <= j

CapRefusals ==
  CASE asked.how = "help" -> {"0", "ENOMEM"}
    [] asked.how = "invalid" -> {"1", "ENOMEM"}
    [] asked.how = "bare" -> {"crash", "ENOMEM"}
    [] asked.how \in Prints -> {"ENOMEM"}

(* op_mod is a u16: the type, and in the lowest bit the mode.              *)
opmod(type) == {b + 1 : b \in type \cap 0 .. 14} \cup asked.mod
query_caps(type) ==
  Send(<<<<opcode, BitsOf(Opcode.hca_cap)>>, <<op_mod, opmod(type)>>>>,
       MLX5_ST_SZ_BYTES(query_hca_cap_in), MLX5_ST_SZ_BYTES(query_hca_cap_out))

CapSend ==
  /\ pc = "start" /\ asked.cmd = "cap" /\ asked.how \in Prints /\ ~ AllCaps
  /\ query_caps(cap_type)
  /\ UNCHANGED tried

CapShow ==
  /\ pc = "show" /\ asked.cmd = "cap" /\ ~ AllCaps /\ ret = "ok"
  /\ LET printers == OfType(cap_type) \cap Printable IN
     shown' =
       IF asked.how = "pretty" /\ printers # {}
       THEN [of |-> asked.name, how |-> "pretty", bytes |-> 0, from |-> out,
             values |-> Values(BehindHeader(Reply(out)),
                               caps[CHOOSE i \in printers : TRUE].print)]
       ELSE [of |-> asked.name, how |-> IF asked.how = "bin" THEN "bin" ELSE "hex",
             bytes |-> MLX5_ST_SZ_BYTES(cmd_hca_cap), from |-> out, values |-> <<>>]
  /\ End("0")
  /\ UNCHANGED tried

CapFails ==
  /\ pc = "show" /\ asked.cmd = "cap" /\ ~ AllCaps /\ ret # "ok"
  /\ End("1")
  /\ UNCHANGED <<shown, tried>>

(* All capabilities: the next one is asked for, printed if it answered and *)
(* passed over if not, until none is left.                                 *)
AllSend ==
  /\ pc = "start" /\ asked.cmd = "cap" /\ asked.how \in Prints /\ AllCaps
  /\ Untried # {}
  /\ query_caps(caps[Next_cap].type)
  /\ tried' = tried \cup {Next_cap}

Latest == CHOOSE i \in tried : \A j \in tried : j <= i

AllShowUnchecked ==
  /\ pc = "show" /\ asked.cmd = "cap" /\ AllCaps
  /\ shown' = [of |-> caps[Latest].name, how |-> "pretty", bytes |-> 0, from |-> out,
               values |-> Values(BehindHeader(Reply(out)), caps[Latest].print)]
  /\ pc' = "start"
  /\ UNCHANGED <<asked, sent, out, ret, tried, code>>
AllShow ==
  /\ pc = "show" /\ asked.cmd = "cap" /\ AllCaps /\ ret = "ok"
  /\ shown' = [of |-> caps[Latest].name, how |-> "pretty", bytes |-> 0, from |-> out,
               values |-> Values(BehindHeader(Reply(out)), caps[Latest].print)]
  /\ pc' = "start"
  /\ UNCHANGED <<asked, sent, out, ret, tried, code>>

AllSkipReturns ==
  /\ pc = "show" /\ asked.cmd = "cap" /\ AllCaps /\ ret # "ok"
  /\ End("0")
  /\ UNCHANGED <<shown, tried>>
AllSkipRetries ==
  /\ pc = "show" /\ asked.cmd = "cap" /\ AllCaps /\ ret # "ok"
  /\ pc' = "start"
  /\ tried' = tried \ {Latest}
  /\ UNCHANGED <<asked, sent, out, ret, shown, code>>
AllSkip ==
  /\ pc = "show" /\ asked.cmd = "cap" /\ AllCaps /\ ret # "ok"
  /\ pc' = "start"
  /\ UNCHANGED <<asked, sent, out, ret, shown, tried, code>>

AllDone ==
  /\ pc = "start" /\ asked.cmd = "cap" /\ asked.how \in Prints /\ AllCaps
  /\ Untried = {}
  /\ End("0")
  /\ UNCHANGED <<shown, tried>>
=============================================================================
