---------------------------- MODULE IfcRegisters ----------------------------
(***************************************************************************)
(* The access registers of mlx5_ifc.h, what they are made of, and the union*)
(* ports_control_registers_document whose size is that of the buffers.     *)
(***************************************************************************)
EXTENDS IfcContexts

phys_layer_cntrs == N(50, 32) ++ L(<<-384>>)
phys_layer_statistical_cntrs == N(16, 32) ++ L(<<-1472>>)
ib_port_cntrs_grp_data_layout == L(<<16, 8, 8, 16, 16, 16, 16, 8, 8, -8, 8, -16, 16, -128, 32>>)
eth_per_tc_prio_grp_data_layout == L(<<32, 32, 32, 32, -1856>>)
eth_per_tc_congest_prio_grp_data_layout == L(<<32, 32, 32, 32, -1856>>)
eth_per_prio_grp_data_layout ==
  L(<<32, 32, -192, 32, 32, 32, 32, -192>>) ++ N(18, 32) ++ L(<<-832>>)
eth_extended_cntrs_grp_data_layout == L(<<32, 32, -256>>) ++ N(6, 32) ++ L(<<-1472>>)
eth_3635_cntrs_grp_data_layout == N(32, 32) ++ L(<<-960>>)
eth_2819_cntrs_grp_data_layout == N(42, 32) ++ L(<<-640>>)
eth_2863_cntrs_grp_data_layout == N(26, 32) ++ L(<<-1152>>)
eth_802_3_cntrs_grp_data_layout == N(38, 32) ++ L(<<-768>>)
pcie_perf_cntrs_grp_data_layout == N(16, 32) ++ L(<<-1472>>)
default_timeout == L(<<3, -9, 20>>)
dtor_reg ==
  L(<<-32>>) ++ default_timeout ++ L(<<-96>>) ++ default_timeout ++ default_timeout ++
    default_timeout ++ default_timeout ++ default_timeout ++ default_timeout ++ default_timeout
    ++ default_timeout ++ default_timeout ++ L(<<-64>>)
eth_cntrs_grp_data_layout_auto ==
  AnyOf(<<eth_802_3_cntrs_grp_data_layout, eth_2863_cntrs_grp_data_layout,
    eth_2819_cntrs_grp_data_layout, eth_3635_cntrs_grp_data_layout,
    eth_extended_cntrs_grp_data_layout, eth_per_prio_grp_data_layout,
    eth_per_tc_prio_grp_data_layout, eth_per_tc_congest_prio_grp_data_layout,
    ib_port_cntrs_grp_data_layout, phys_layer_cntrs, phys_layer_statistical_cntrs,
    L(<<-1984>>)>>)
pcie_cntrs_grp_data_layout_auto == AnyOf(<<pcie_perf_cntrs_grp_data_layout, L(<<-1984>>)>>)
sltp_reg == L(<<4, 4, 8, 2, -2, 4, -47, 1, 8, 8, 8, -12, 4, 8, 8, -32>>)
slrg_reg ==
  L(<<4, 4, 8, 2, -2, 4, -8, 16, -12, 4, 8, 24, -4, 4, 24, 16, 16, -16, 16, -36, 4, 24, -8, 8,
    -8, 8, 16, 16>>)
pvlc_reg == L(<<-8, 8, -44, 4, -28, 4, -28, 4>>)
pude_reg == L(<<8, 8, -4, 4, -4, 4, -96>>)
ptys_reg ==
  L(<<-1, 1, 1, -5, 8, -13, 3, 4, -12, 16, 32, 32, 16, 16, 32, 32, 16, 16, 32, 32, 16, 16, -28,
    4, 32, -96>>)
mlcr_reg == L(<<-8, 8, -32, 16, -16, 16>>)
ptas_reg == L(<<-32, 16, -4, 4, 8, 8, 4, 4, 8, 8>>) ++ N(11, 16) ++ L(<<-8, 8, 16, 16, -21, 11>>)
pspa_reg == L(<<8, 8, 8, -40>>)
pqdr_reg == L(<<-8, 8, -5, 3, -6, 2, -48, 16, -16, 16, -16, 16, -96>>)
ppsc_reg == L(<<-8, 8, -140, 4, -28, 4, -8, 8, -8, 8, -60, 4, -28, 4, -64>>)
pplr_reg == L(<<-8, 8, -24, 8, -8, 8>>)
pplm_reg ==
  L(<<-8, 8, -48, 8, 8, 8, -8, 8, 24, 4, -8>>) ++ N(6, 4) ++ L(<<-8, 4, 4, 4, 4, 4>>) ++ N(8,
    16) ++ L(<<-320>>)
ppcnt_reg == L(<<8, 8, 2, -8, 6, 1, -28, 3>>) ++ eth_cntrs_grp_data_layout_auto
mpein_reg ==
  L(<<-2, 6, 8, 8, -8, 32, -8, 8, 16, 8, 8, 16, 16, 16, 16, -16, 4, 4, -5, 3, 4, -11, 1, -20,
    12, -32, 16, 8, -24, 16, -32>>)
mpcnt_reg == L(<<-8, 8, -10, 6, 1, -31>>) ++ pcie_cntrs_grp_data_layout_auto
ppad_reg == L(<<-3, 1, -4, 8, 16, 32, -64>>)
pmtu_reg == L(<<-8, 8, -16, 16, -16, 16, -16, 16, -16>>)
pmpr_reg == L(<<-8, 8, -40, 8, -24, 8, -24, 8>>)
pmpe_reg == L(<<-8, 8, -12, 4, -96>>)
pmpc_reg == N(32, 8)
pmlpn_reg == L(<<-4, 4, 8, -16, 1, -31>>)
pmlp_reg == L(<<1, -7, 8, -8, 8, 32, 32, 32, 32, -352>>)
pmaos_reg == L(<<-8, 8, -4, 4, -4, 4, 1, 1, -28, 2, -64>>)
plpc_reg == L(<<-4, 12, -4, 4, -24, 16, -23, 1, 8, 8, 24, 8, 24, 8, 24, -128>>)
plib_reg == L(<<-8, 8, -8, 8, -96>>)
plbf_reg == L(<<-8, 8, -13, 3, -32>>)
pipg_reg == L(<<-8, 8, -16, 1, -25, 4, -2>>)
pifr_reg == L(<<-8, 8, -240>>) ++ N(8, 32) ++ N(8, 32)
pfcc_reg ==
  L(<<-8, 8, -11, 1, 1, 1, -2, 4, -4, 8, -8, 8, 1, 1, 1, -5, 8, -16, 1, 1, 1, -5, 8, -16, 16,
    16, -96>>)
pelc_reg == L(<<4, -4, 8, -16, 8, 8, 8, 8, 64, 64, 64, 64, -128>>)
peir_reg == L(<<-8, 8, -28, 4, -28, 4, -8, 8>>)
mpegc_reg == L(<<-48, 16, 1, 1, 1, -27, 2, -256>>)
mtutc_reg == L(<<-28, 4, 32, -64, 32, -2, 30, 32>>)
pcam_enhanced_features == L(<<-104, 1, -4, 1, -4, 1, -3, 1, -3, 1, 1, 1, -1, 1, 1>>)
pcam_regs_5000_to_507f == L(<<32, 32, 28, 1, 3, 19, 1, 1, 2, 1, 8>>)
pcam_reg ==
  L(<<-8, 8, -8, 8, -32>>) ++ AnyOf(<<pcam_regs_5000_to_507f, L(<<-128>>)>>) ++ L(<<-128>>) ++
    AnyOf(<<pcam_enhanced_features, L(<<-128>>)>>) ++ L(<<-192>>)
mcam_enhanced_features == L(<<-93, 1, 1, 1, -10, 1, 1, -2, 1, -5, 1, 1, 1, -4, 1, 1, 1, 1, 1>>)
mcam_access_reg == L(<<-28, 1, 1, 1, 1, 9, 1, 1, 17, 4, 18, 1, 13, 32>>)
mcam_access_reg_bits1 == L(<<32, 32, 32, 32>>)
mcam_access_reg_bits2 == L(<<29, 1, 2, 32, 32, 32>>)
mcam_reg ==
  L(<<-8, 8, -8, 8, -32>>) ++ AnyOf(<<mcam_access_reg, mcam_access_reg_bits1,
    mcam_access_reg_bits2, L(<<-128>>)>>) ++ L(<<-128>>) ++ AnyOf(<<mcam_enhanced_features,
    L(<<-128>>)>>) ++ L(<<-128>>)
qcam_access_reg_cap_mask == L(<<108, 1, 15, 1, 1, 1, 1>>)
qcam_qos_feature_cap_mask == L(<<127, 1>>)
qcam_reg ==
  L(<<-8, 8, -8, 8, -32>>) ++ AnyOf(<<qcam_access_reg_cap_mask, L(<<-128>>)>>) ++ L(<<-128>>) ++
    AnyOf(<<qcam_qos_feature_cap_mask, L(<<-128>>)>>) ++ L(<<-128>>)
core_dump_reg == L(<<1, -23, 8, -48, 16, -8, 24, 32, 32, 64, 64, -192>>)
pcap_reg == L(<<-8, 8, -16>>) ++ N(4, 32)
paos_reg == L(<<8, 8, -4, 4, -4, 4, 1, 1, -28, 2, -64>>)
pamp_reg == L(<<-8, 8, -12, 4, 16, -4, 12>>) ++ N(18, 16)
pcmr_reg == L(<<-8, 8, -16, 1, 1, 1, -15, 1, -11, 1, -1, 1, 1, 1, -15, 1, -11, 1, -1>>)
lane_2_module_mapping == L(<<-4, 4, -4, 4, -8, 8>>)
bufferx_reg == L(<<-6, 1, 1, -8, 16, 16, 16>>)
mtpps_reg ==
  L(<<-12, 4, -4, 4, -4, 4, -19, 5, -3, 5, -4, 4, -4, 4, -4, 4, -4, 4, -4, 4, -4, 4, -4, 4, -4,
    4, 32, -32, 64, 1, -11, 4, -4, 4, 8, -2, 30, 64, 16, 16, 32, -32>>)
mtppse_reg == L(<<-24, 8, 1, -27, 4, -64>>)
mcqs_reg == L(<<1, -7, 8, 16, -16, 16, -23, 5, 4, 4, 4, -24>>)
mcqi_cap == L(<<32, 32, 32, 4, -12, 16, 1, -1, 1, 1, 1, 1, -26>>)
mcqi_version == L(<<-2, 1, 1, -20, 8, 32, 64, 64, 32, -32>>) ++ N(92, 8)
mcqi_activation_method == N(7, 1) ++ L(<<-25>>)
mcqi_reg_data == AnyOf(<<mcqi_cap, mcqi_version, mcqi_activation_method>>)
mcqi_reg == L(<<1, -15, 16, -59, 5, 32, 32, -16, 16>>)
mcc_reg == L(<<-4, 12, -8, 8, -16, 16, -8, 24, 4, 4, -1, 7, 8, -4, 4, 32, -96>>)
mcda_reg == L(<<-8, 24, 32, -16, 16, -32>>)
mfrl_reg == L(<<-34, 1, 2, 3, -4, 4, 8, 8>>)
mirc_reg == L(<<-24, 8, -32>>)
pddr_monitor_opcode == L(<<-16, 16>>)
pddr_troubleshooting_page_status_opcode_auto == AnyOf(<<pddr_monitor_opcode, L(<<-32>>)>>)
pddr_troubleshooting_page ==
  L(<<-16, 16>>) ++ pddr_troubleshooting_page_status_opcode_auto ++ L(<<-32>>) ++ N(59, 32)
pddr_reg_page_data_auto == AnyOf(<<pddr_troubleshooting_page, L(<<-1984>>)>>)
pddr_reg == L(<<-8, 8, 2, -38, 8>>) ++ pddr_reg_page_data_auto
mrtc_reg == L(<<1, -63, 32, 32>>)
ports_control_registers_document ==
  AnyOf(<<bufferx_reg, eth_2819_cntrs_grp_data_layout, eth_2863_cntrs_grp_data_layout,
    eth_3635_cntrs_grp_data_layout, eth_802_3_cntrs_grp_data_layout,
    eth_extended_cntrs_grp_data_layout, eth_per_prio_grp_data_layout,
    eth_per_tc_prio_grp_data_layout, eth_per_tc_congest_prio_grp_data_layout,
    lane_2_module_mapping, pamp_reg, paos_reg, pcap_reg, pddr_monitor_opcode, pddr_reg,
    pddr_troubleshooting_page, peir_reg, pelc_reg, pfcc_reg, ib_port_cntrs_grp_data_layout,
    phys_layer_cntrs, pifr_reg, pipg_reg, plbf_reg, plib_reg, plpc_reg, pmaos_reg, pmlp_reg,
    pmlpn_reg, pmpc_reg, pmpe_reg, pmpr_reg, pmtu_reg, ppad_reg, ppcnt_reg, mpein_reg,
    mpcnt_reg, pplm_reg, pplr_reg, ppsc_reg, pqdr_reg, pspa_reg, ptas_reg, ptys_reg, mlcr_reg,
    pude_reg, pvlc_reg, slrg_reg, sltp_reg, mtpps_reg, mtppse_reg, mcqi_reg, mcc_reg, mcda_reg,
    mirc_reg, mfrl_reg, mtutc_reg, mrtc_reg, L(<<-24800>>)>>)
qpdpm_dscp_reg == L(<<1, -11, 4>>)
qpdpm_reg == L(<<-8, 8, -16>>) ++ Times(64, qpdpm_dscp_reg)
qpts_reg == L(<<-8, 8, -45, 3>>)
pptb_reg == L(<<-2, 2, -4, 8, -6, 1, 1, 8, 32, 8, -16, 4, 4>>)
sbcam_reg ==
  L(<<-8, 8, -8, 8, -32>>) ++ N(4, 32) ++ L(<<-128>>) ++ N(4, 32) ++ L(<<-64, 32, 16, 8, 8, -8,
    8, 8, 8>>)
pbmc_reg == L(<<-8, 8, -16, 16, 16, -9, 7, 16>>) ++ Times(10, bufferx_reg) ++ L(<<-128>>)
qtct_reg == L(<<-8, 8, -13, 3, -29, 3>>)
mcia_reg == L(<<1, -7, 8, -8, 8, 8, 8, 16, -16, 16, -32>>) ++ N(12, 32)
rcr_reg == L(<<-31, 1, -24, 8, -320>>)
dcbx_param_reg ==
  L(<<1, 1, 1, -5, 8, -10, 6, -21, 3, -5, 3, 1, -3, 4, -4, 4, -4, 4, -4, 4, 1, -3, 4, -20, 4,
    -24, 8, -352>>)
=============================================================================
