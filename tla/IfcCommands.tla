---------------------------- MODULE IfcCommands -----------------------------
(***************************************************************************)
(* The commands of mlx5_ifc.h that the program sends, and their replies.   *)
(***************************************************************************)
EXTENDS IfcRegisters

query_xrq_out == L(<<8, -24, 32, -64>>) ++ xrqc
query_xrq_in == L(<<16, -32, 16, -8, 24, -32>>)
query_xrc_srq_out == L(<<8, -24, 32, -64>>) ++ xrc_srqc ++ L(<<-1536>>)
query_xrc_srq_in == L(<<16, -32, 16, -8, 24, -32>>)
query_vport_state_out == L(<<8, -24, 32, -56, 4, 4>>)
query_vport_state_in == L(<<16, -32, 16, 1, -15, 16, -32>>)
query_vnic_env_out == L(<<8, -24, 32, -64>>) ++ vnic_diagnostic_statistics
query_vnic_env_in == L(<<16, -32, 16, 1, -15, 16, -32>>)
query_vport_counter_out ==
  L(<<8, -24, 32, -64>>) ++ traffic_counter ++ traffic_counter ++ traffic_counter ++
    traffic_counter ++ traffic_counter ++ traffic_counter ++ traffic_counter ++ traffic_counter
    ++ traffic_counter ++ traffic_counter ++ traffic_counter ++ traffic_counter ++ L(<<-2560>>)
query_vport_counter_in == L(<<16, -32, 16, 1, -11, 4, 16, -96, 1, -63>>)
query_tis_out == L(<<8, -24, 32, -64>>) ++ tisc
query_tis_in == L(<<16, -32, 16, -8, 24, -32>>)
query_tir_out == L(<<8, -24, 32, -192>>) ++ tirc
query_tir_in == L(<<16, -32, 16, -8, 24, -32>>)
query_srq_out == L(<<8, -24, 32, -64>>) ++ srqc ++ L(<<-1536>>)
query_srq_in == L(<<16, -32, 16, -8, 24, -32>>)
query_sq_out == L(<<8, -24, 32, -192>>) ++ sqc
query_sq_in == L(<<16, -32, 16, -8, 24, -32>>)
query_special_contexts_out == L(<<8, -24, 32, 32, 32, 32, -96>>)
query_special_contexts_in == L(<<16, -32, 16, -64>>)
query_rqt_out == L(<<8, -24, 32, -192>>) ++ rqtc
query_rqt_in == L(<<16, -32, 16, -8, 24, -32>>)
query_rq_out == L(<<8, -24, 32, -192>>) ++ rqc
query_rq_in == L(<<16, -32, 16, -8, 24, -32>>)
query_rmp_out == L(<<8, -24, 32, -192>>) ++ rmpc
query_rmp_in == L(<<16, -32, 16, -8, 24, -32>>)
query_qp_out == L(<<8, -24, 32, -64, 32, 32>>) ++ qpc ++ L(<<-128>>)
query_qp_in == L(<<16, -32, 16, -8, 24, -32>>)
query_q_counter_out ==
  L(<<8, -24, 32, -64, 32, -32, 32, -32, 32, -32, 32, -32, 32, -32, 32, -32, 32, -32, 32, -32,
    32, -32, 32, -32, 32, -160>>) ++ N(19, 32) ++ L(<<-32, 32, 32, 32, 32, 32, -288>>)
query_q_counter_in == L(<<16, -32, 16, -128, 1, -55, 8>>)
query_pages_out == L(<<8, -24, 32, 1, -15, 16, 32>>)
query_pages_in == L(<<16, -32, 16, 1, -15, 16, -32>>)
query_mkey_out == L(<<8, -24, 32, -64>>) ++ mkc ++ L(<<-1536>>) ++ N(16, 8) ++ N(16, 8)
query_mkey_in == L(<<16, -32, 16, -8, 24, 1, -31>>)
query_mad_demux_out == L(<<8, -24, 32, -64, 32>>)
query_mad_demux_in == L(<<16, -32, 16, -64>>)
query_l2_table_entry_out == L(<<8, -24, 32, -179, 1, 12>>) ++ mac_address_layout ++ L(<<-192>>)
query_l2_table_entry_in == L(<<16, -32, 16, -104, 24, -320>>)
query_issi_out == L(<<8, -24, 32, -16, 16, -768, 32>>)
query_issi_in == L(<<16, -32, 16, -64>>)
query_hca_cap_out == L(<<8, -24, 32, -64>>) ++ hca_cap_union
query_hca_cap_in == L(<<16, -32, 16, 1, -15, 16, -32>>)
query_esw_vport_context_out == L(<<8, -24, 32, -64>>) ++ esw_vport_context
query_esw_vport_context_in == L(<<16, -32, 16, 1, -15, 16, -32>>)
query_eq_out == L(<<8, -24, 32, -64>>) ++ eqc ++ L(<<-64, 64, -1408>>)
query_eq_in == L(<<16, -32, 16, -24, 8, -32>>)
packet_reformat_context_in == L(<<8, -4, 4, -6, 10, 8, -8>>) ++ N(2, 8)
query_packet_reformat_context_out == L(<<8, -24, 32, -160>>)
query_packet_reformat_context_in == L(<<16, -32, 16, 32, -160>>)
query_dct_out == L(<<8, -24, 32, -64>>) ++ dctc ++ L(<<-384>>)
query_dct_in == L(<<16, -32, 16, -8, 24, -32>>)
query_cq_out == L(<<8, -24, 32, -64>>) ++ cqc ++ L(<<-1536>>)
query_cq_in == L(<<16, -32, 16, -8, 24, -32>>)
query_cong_status_out == L(<<8, -24, 32, -32, 1, 1, -30>>)
query_cong_status_in == L(<<16, -32, 16, -24, 4, 4, -32>>)
query_cong_statistics_out ==
  L(<<8, -24, 32, -64>>) ++ N(6, 32) ++ L(<<-256>>) ++ N(7, 32) ++ L(<<-1376>>)
query_cong_statistics_in == L(<<16, -32, 16, 1, -63>>)
query_cong_params_out == L(<<8, -24, 32, -64>>) ++ cong_control_roce_ecn_auto
query_cong_params_in == L(<<16, -32, 16, -28, 4, -32>>)
query_adapter_out == L(<<8, -24, 32, -64>>) ++ query_adapter_param_block
query_adapter_in == L(<<16, -32, 16, -64>>)
destroy_mkey_out == L(<<8, -24, 32, -64>>)
destroy_mkey_in == L(<<16, 16, -16, 16, -8, 24, -32>>)
dealloc_pd_out == L(<<8, -24, 32, -64>>)
dealloc_pd_in == L(<<16, 16, -16, 16, -8, 24, -32>>)
create_mkey_out == L(<<8, -24, 32, -8, 24, -32>>)
create_mkey_in == L(<<16, 16, -16, 16, -32, 1, 1, -30>>) ++ mkc ++ L(<<-128, 32, 32, -1344>>)
alloc_pd_out == L(<<8, -24, 32, -8, 24, -32>>)
alloc_pd_in == L(<<16, 16, -16, 16, -64>>)
access_register_out == L(<<8, -24, 32, -64>>)
access_register_in == L(<<16, -16, 16, 16, -16, 16, 32>>)
query_wol_rol_out == L(<<8, -24, 32, -16, 8, 8, -32>>)
query_wol_rol_in == L(<<16, -32, 16, -64>>)
query_lag_out == L(<<8, -24, 32>>) ++ lagc
query_lag_in == L(<<16, -32, 16, -64>>)
query_esw_functions_in == L(<<16, -32, 16, -64>>)
query_esw_functions_out == L(<<8, -24, 32, -64>>) ++ host_params_context ++ L(<<-384>>)
query_vhca_migration_state_in == L(<<16, 16, -16, 16, -16, 16, -32>>)
query_vhca_migration_state_out == L(<<8, -24, 32, -64, 32, -352>>)
=============================================================================
