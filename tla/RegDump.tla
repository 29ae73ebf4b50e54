------------------------------ MODULE RegDump -------------------------------
(***************************************************************************)
(* The command reg (reg.c): a register, by its name or its number, is read *)
(* with ACCESS_REG and printed.                                            *)
(***************************************************************************)
EXTENDS Mailbox

(* The fields the pretty printers read; NODE_DESC is printed as a string.  *)
print_reg_ptys ==
  L(<<-29, 3, 4, -12, 16, -32, 32, -64, 32, -64, 32, -60, 4, 32>>).fields
print_reg_dtor ==
  L(<<-32, 3, -9, 20, -128, 3, -9, 20, 3, -9, 20, 3, -9, 20, 3, -9, 20, 3,
    -9, 20, 3, -9, 20, 3, -9, 20, 3, -9, 20>>).fields
print_reg_mcam ==
  L(<<-8, 8, -8, 8, -60, 1, 1, 1, 1, -9, 1, 1, -17, 4, -18, 1, -266, 1, 1,
    1, -10, 1, 1, -2, 1, -5, 1, 1, 1, -4, 1, 1, 1, 1, 1>>).fields
print_reg_rcr == rcr_reg.fields

(* An entry of the table of registers: its size is that of its struct.     *)
Sized(id, layout) ==
  [num |-> id, reg_id |-> BitsOf(id), size |-> MLX5_ST_SZ_BYTES(layout),
   ppfun |-> FALSE, fields |-> {}]
Printed(id, layout, fields) ==
  [Sized(id, layout) EXCEPT !.ppfun = TRUE, !.fields = fields]
DocumentSize == MLX5_ST_SZ_BYTES(ports_control_registers_document)

(* Registers that mlx5_ifc.h has no struct for: of the size of the largest. *)
document_regs ==
  [NODE_DESC |-> \h6001, SBPR |-> \hb001, SBCM |-> \hb002, QETCR |-> \h4005, DCBX_APP |-> \h4021,
   FPGA_CAP |-> \h4022, FPGA_CTRL |-> \h4023, HOST_ENDIANNESS |-> \h7004,
   MTCAP |-> \h9009, MTMP |-> \h900a, MTRC_CAP |-> \h9040,
   MTRC_CONF |-> \h9041, MTRC_STDB |-> \h9042, MTRC_CTRL |-> \h9043,
   MTPPS |-> \h9053, MTPPSE |-> \h9054, RESOURCE_DUMP |-> \hc000,
   FPGA_ACCESS_REG |-> \h4024]

struct_regs ==
  [PTYS |-> Printed(\h5004, ptys_reg, print_reg_ptys),
   DTOR |-> Printed(\hc00e, dtor_reg, print_reg_dtor),
   RCR |-> Printed(\hc00f, rcr_reg, print_reg_rcr),
   MCAM |-> Printed(\h907f, mcam_reg, print_reg_mcam),
   QPTS |-> Sized(\h4002, qpts_reg), QTCT |-> Sized(\h400a, qtct_reg),
   QPDPM |-> Sized(\h4013, qpdpm_reg), QCAM |-> Sized(\h4019, qcam_reg),
   CORE_DUMP |-> Sized(\h402e, core_dump_reg),
   PCAP |-> Sized(\h5001, pcap_reg), PMTU |-> Sized(\h5003, pmtu_reg),
   PAOS |-> Sized(\h5006, paos_reg), PFCC |-> Sized(\h5007, pfcc_reg),
   PPCNT |-> Sized(\h5008, ppcnt_reg), PPTB |-> Sized(\h500b, pptb_reg),
   PBMC |-> Sized(\h500c, pbmc_reg), PMAOS |-> Sized(\h5012, pmaos_reg),
   PUDE |-> Sized(\h5009, pude_reg), PMPE |-> Sized(\h5010, pmpe_reg),
   PELC |-> Sized(\h500e, pelc_reg), PVLC |-> Sized(\h500f, pvlc_reg),
   PCMR |-> Sized(\h5041, pcmr_reg), PDDR |-> Sized(\h5031, pddr_reg),
   PMLP |-> Sized(\h5002, pmlp_reg), PPLM |-> Sized(\h5023, pplm_reg),
   PCAM |-> Sized(\h507f, pcam_reg), MCIA |-> Sized(\h9014, mcia_reg),
   MFRL |-> Sized(\h9028, mfrl_reg), MLCR |-> Sized(\h902b, mlcr_reg),
   MRTC |-> Sized(\h902d, mrtc_reg), MPEIN |-> Sized(\h9050, mpein_reg),
   MPCNT |-> Sized(\h9051, mpcnt_reg), MTUTC |-> Sized(\h9055, mtutc_reg),
   MPEGC |-> Sized(\h9056, mpegc_reg), MCQS |-> Sized(\h9060, mcqs_reg),
   MCQI |-> Sized(\h9061, mcqi_reg), MCC |-> Sized(\h9062, mcc_reg),
   MCDA |-> Sized(\h9063, mcda_reg), MIRC |-> Sized(\h9162, mirc_reg),
   SBCAM |-> Sized(\hb01f, sbcam_reg),
   DCBX_PARAM |-> Sized(\h4020, dcbx_param_reg)]

regs ==
  [n \in DOMAIN struct_regs \cup DOMAIN document_regs |->
     IF n \in DOMAIN struct_regs THEN struct_regs[n]
     ELSE [Sized(document_regs[n], ports_control_registers_document)
             EXCEPT !.ppfun = (n = "NODE_DESC")]]

MLX5_REG_IDS_FIRST == \h4002
MLX5_REG_LAST_ENUM == \hc010

(* The table in numbers: the ids are those of the enum, no two the same,   *)
(* and every register fits the data of access_register, of which the size  *)
(* is 16 bytes and the data.  No parameter occurs here: TLC checks all     *)
(* there is.                                                               *)
ASSUME RegsAssumption ==
  /\ MLX5_ST_SZ_BYTES(access_register_in) = 16 /\ MLX5_ST_SZ_BYTES(access_register_out) = 16
  /\ DocumentSize \in Nat /\ DocumentSize % 4 = 0
  /\ \A n \in DOMAIN regs :
       /\ regs[n].num \in MLX5_REG_IDS_FIRST .. MLX5_REG_LAST_ENUM
       /\ regs[n].reg_id \subseteq 0 .. 15
       /\ regs[n].size \in 1 .. DocumentSize
       /\ \A f \in regs[n].fields : Readable(f)
       /\ \A m \in DOMAIN regs : regs[m].reg_id = regs[n].reg_id => m = n

(* A name is looked for among the ids the enum spans; what is not found    *)
(* there is read as a number, 0 for a name nobody knows.                   *)
get_reg_id ==
  IF asked.name \in DOMAIN regs
     /\ regs[asked.name].num \in MLX5_REG_IDS_FIRST .. MLX5_REG_LAST_ENUM
  THEN regs[asked.name].reg_id
  ELSE asked.id

(* No --id, or one that is negative as an int. *)
NoRegId == asked.name = "" \/ 31 \in get_reg_id

RegEntry == {n \in DOMAIN regs : regs[n].reg_id = get_reg_id}
get_reg_size_in_bits ==
  IF RegEntry = {} THEN DocumentSize ELSE 8 * regs[CHOOSE n \in RegEntry : TRUE].size
get_reg_size ==
  IF RegEntry = {} THEN DocumentSize ELSE regs[CHOOSE n \in RegEntry : TRUE].size
PrintFunc == {n \in RegEntry : regs[n].ppfun}

RegRefusals ==
  CASE asked.how = "help" -> {"0"}
    [] asked.how = "invalid" -> {"1"}
    [] asked.how = "bare" -> {"crash"}
    [] asked.how \in Prints -> IF NoRegId THEN {"1"} ELSE {"ENOMEM"}

(* The number --port gave; without the option the static int is still 0,   *)
(* a number of no bits.                                                    *)
port == IF asked.port = {} THEN {} ELSE CHOOSE n \in asked.port : TRUE

(* mlx5_access_reg takes the number as a u16 and the command to be a read  *)
(* when `write' is 0; local_port is in the second byte of the data.        *)
access_reg_writes ==
  <<<<opcode, BitsOf(Opcode.access_reg)>>, <<op_mod, {}>>,
    <<F(96, 32), asked.mod>>, <<F(80, 16), get_reg_id \cap 0 .. 15>>,
    <<F(136, 8), port>>>>
access_reg ==
  <<<<opcode, BitsOf(Opcode.access_reg)>>, <<op_mod, {0}>>,
    <<F(96, 32), asked.mod>>, <<F(80, 16), get_reg_id \cap 0 .. 15>>,
    <<F(136, 8), port>>>>

RegSend ==
  /\ pc = "start" /\ asked.cmd = "reg" /\ asked.how \in Prints /\ ~ NoRegId
  /\ Send(access_reg, MLX5_ST_SZ_BYTES(access_register_in) + DocumentSize,
          MLX5_ST_SZ_BYTES(access_register_out) + DocumentSize)
  /\ UNCHANGED tried

(* Pretty printing of a register that has no printer falls through to hex. *)
RegShow ==
  /\ pc = "show" /\ asked.cmd = "reg" /\ ret = "ok"
  /\ shown' =
       IF asked.how = "pretty" /\ PrintFunc # {}
       THEN [of |-> asked.name, how |-> "pretty", bytes |-> 0, from |-> out,
             values |-> Values(BehindHeader(Reply(out)),
                               regs[CHOOSE n \in PrintFunc : TRUE].fields)]
       ELSE [of |-> asked.name, how |-> IF asked.how = "bin" THEN "bin" ELSE "hex",
             bytes |-> get_reg_size, from |-> out, values |-> <<>>]
  /\ End("0")
  /\ UNCHANGED tried

RegFails ==
  /\ pc = "show" /\ asked.cmd = "reg" /\ ret # "ok"
  /\ End("err")
  /\ UNCHANGED <<shown, tried>>
=============================================================================
