------------------------------ MODULE QueryObj ------------------------------
(***************************************************************************)
(* The command obj (query_obj.c): one function per object that can be      *)
(* queried fills in the message, and the reply is dumped as it came.       *)
(***************************************************************************)
EXTENDS Mailbox

(* Every function sets opcode, what names the object, and op_mod; the      *)
(* pairs are a field and the bit of obj_id its value begins with.          *)
Query(op, in, out_, ids) ==
  [opcode |-> BitsOf(op), inlen |-> MLX5_ST_SZ_BYTES(in),
   outlen |-> MLX5_ST_SZ_BYTES(out_), ids |-> ids, other_vport |-> FALSE]
QueryOther(op, in, out_, ids) ==
  [Query(op, in, out_, ids) EXCEPT !.other_vport = TRUE]

Id(off, width) == <<<<F(off, width), 0>>>>

query_eq == Query(Opcode.eq, query_eq_in, query_eq_out, Id(88, 8))
query_cq == Query(Opcode.cq, query_cq_in, query_cq_out, Id(72, 24))
query_qp == Query(Opcode.qp, query_qp_in, query_qp_out, Id(72, 24))
query_sq == Query(Opcode.sq, query_sq_in, query_sq_out, Id(72, 24))
query_rq == Query(Opcode.rq, query_rq_in, query_rq_out, Id(72, 24))
query_tis == Query(Opcode.tis, query_tis_in, query_tis_out, Id(72, 24))
query_tir == Query(Opcode.tir, query_tir_in, query_tir_out, Id(72, 24))
query_rqt == Query(Opcode.rqt, query_rqt_in, query_rqt_out, Id(72, 24))
query_rmp == Query(Opcode.rmp, query_rmp_in, query_rmp_out, Id(72, 24))
query_dct == Query(Opcode.dct, query_dct_in, query_dct_out, Id(72, 24))
query_srq == Query(Opcode.srq, query_srq_in, query_srq_out, Id(72, 24))
query_xrq == Query(Opcode.xrc_srq, query_xrq_in, query_xrq_out, Id(72, 24))
query_xrc_srq ==
  Query(Opcode.xrc_srq, query_xrc_srq_in, query_xrc_srq_out, Id(72, 24))
query_q_counter ==
  Query(Opcode.q_counter, query_q_counter_in, query_q_counter_out, Id(248, 8))
query_mkey == Query(Opcode.mkey, query_mkey_in, query_mkey_out, Id(72, 24))
query_pages == Query(Opcode.pages, query_pages_in, query_pages_out, Id(80, 16))
query_l2_table_entry ==
  Query(Opcode.l2_table_entry, query_l2_table_entry_in,
        query_l2_table_entry_out, Id(168, 24))
query_issi == Query(Opcode.issi, query_issi_in, query_issi_out, <<>>)
query_vport_state ==
  QueryOther(Opcode.vport_state, query_vport_state_in, query_vport_state_out,
        Id(80, 16))
query_esw_vport_context ==
  QueryOther(Opcode.esw_vport_context, query_esw_vport_context_in,
        query_esw_vport_context_out, Id(80, 16))
query_vport_counter ==
  QueryOther(Opcode.vport_counter, query_vport_counter_in,
        query_vport_counter_out, Id(80, 16))
query_vnic_env ==
  Query(Opcode.vnic_env, query_vnic_env_in, query_vnic_env_out, <<>>)
query_packet_reformat_context ==
  Query(Opcode.packet_reformat_context, query_packet_reformat_context_in,
        query_packet_reformat_context_out, Id(64, 32))
query_special_contexts ==
  Query(Opcode.special_contexts, query_special_contexts_in,
        query_special_contexts_out, <<>>)
query_mad_demux ==
  Query(Opcode.mad_demux, query_mad_demux_in, query_mad_demux_out, <<>>)
query_cong_statistics ==
  Query(Opcode.cong_statistics, query_cong_statistics_in,
        query_cong_statistics_out, <<>>)
query_cong_params ==
  Query(Opcode.cong_params, query_cong_params_in, query_cong_params_out,
        Id(92, 4))
query_cong_status ==
  Query(Opcode.cong_status, query_cong_status_in, query_cong_status_out,
        <<<<F(92, 4), 0>>, <<F(88, 4), 4>>>>)
query_adapter ==
  Query(Opcode.adapter, query_adapter_in, query_adapter_out, <<>>)
query_wol_rol ==
  Query(Opcode.wol_rol, query_wol_rol_in, query_wol_rol_out, <<>>)
query_lag == Query(Opcode.lag, query_lag_in, query_lag_out, <<>>)
query_esw_functions ==
  Query(Opcode.esw_functions, query_esw_functions_in,
        query_esw_functions_out, <<>>)
query_vhca_migration_state ==
  Query(Opcode.vhca_migration_state, query_vhca_migration_state_in,
        query_vhca_migration_state_out, Id(80, 16))

query_funcs ==
  [eq |-> query_eq, cq |-> query_cq, qp |-> query_qp, sq |-> query_sq,
   rq |-> query_rq, tis |-> query_tis, tir |-> query_tir, rqt |-> query_rqt,
   rmp |-> query_rmp, dct |-> query_dct, srq |-> query_srq, xrq |-> query_xrq,
   xrc_srq |-> query_xrc_srq, q_counter |-> query_q_counter,
   mkey |-> query_mkey, pages |-> query_pages,
   l2_table_entry |-> query_l2_table_entry, issi |-> query_issi,
   vport_state |-> query_vport_state,
   esw_vport_context |-> query_esw_vport_context,
   vport_counter |-> query_vport_counter, vnic_env |-> query_vnic_env,
   packet_reformat_context |-> query_packet_reformat_context,
   special_contexts |-> query_special_contexts, mad_demux |-> query_mad_demux,
   cong_statistics |-> query_cong_statistics,
   cong_params |-> query_cong_params, cong_status |-> query_cong_status,
   adapter |-> query_adapter, wol_rol |-> query_wol_rol, lag |-> query_lag,
   esw_functions |-> query_esw_functions,
   vhca_migration_state |-> query_vhca_migration_state]

(* What the sizes of the layouts are good for: a message has room for what *)
(* is set in it.  No parameter occurs here: TLC checks all there is.       *)
ASSUME QueriesAssumption ==
  \A n \in DOMAIN query_funcs :
    LET q == query_funcs[n] IN
    /\ q.inlen \in 16 .. 64 /\ q.inlen % 4 = 0
    /\ q.outlen \in Nat \ {0} /\ q.outlen % 4 = 0
    /\ \A i \in DOMAIN q.ids : q.ids[i][1].off + q.ids[i][1].width <= 8 * q.inlen

(* The ends of the command before anything is sent, by their status:       *)
(* parse_args and the search of the name; no memory for the reply.         *)
ObjRefusals ==
  CASE asked.name = "" -> {"1"}
    [] asked.name # "" /\ asked.how = "help" -> {"0"}
    [] asked.name # "" /\ asked.how = "invalid" -> {"1"}
    [] asked.name # "" /\ asked.how = "bare" -> {"crash"}
    [] asked.name # "" /\ asked.how \in Prints -> {"1"}

obj_sets(q) ==
  <<<<opcode, q.opcode>>>>
  \o [i \in DOMAIN q.ids |-> <<q.ids[i][1], Shr(asked.id, q.ids[i][2])>>]
  \o (IF q.other_vport THEN <<<<F(64, 1), {0}>>>> ELSE <<>>)
  \o <<<<op_mod, asked.mod>>>>

ObjSend ==
  /\ pc = "start" /\ asked.cmd = "obj" /\ asked.how \in {"hex", "bin"}
  /\ asked.name \in DOMAIN query_funcs
  /\ LET q == query_funcs[asked.name] IN Send(obj_sets(q), q.inlen, q.outlen)
  /\ UNCHANGED tried

(* A reply with a status is dumped too, after a warning.                   *)
ObjShow ==
  /\ pc = "show" /\ asked.cmd = "obj" /\ ret # "ioctl"
  /\ shown' = [of |-> asked.name, how |-> asked.how, bytes |-> sent.outlen,
               values |-> <<>>, from |-> out]
  /\ End("0")
  /\ UNCHANGED tried

ObjFails ==
  /\ pc = "show" /\ asked.cmd = "obj" /\ ret = "ioctl"
  /\ End("1")
  /\ UNCHANGED <<shown, tried>>
=============================================================================
