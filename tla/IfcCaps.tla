------------------------------ MODULE IfcCaps -------------------------------
(***************************************************************************)
(* The capability structs of mlx5_ifc.h: what query_hca_cap may answer, in *)
(* the union hca_cap_union.                                                *)
(***************************************************************************)
EXTENDS IfcLayout

flow_table_fields_supported ==
  N(11, 1) ++ L(<<-1>>) ++ N(27, 1) ++ L(<<-1, 1, 1, 1, -1>>) ++ N(11, 1) ++ L(<<-9, 1, 1, -3,
    4, 4, 4, 4, -2, 1, -2, 1, -29>>) ++ N(8, 1)
flow_table_fields_supported_2 == L(<<-14, 1, -113>>)
flow_table_prop_layout ==
  L(<<1, -1>>) ++ N(7, 1) ++ L(<<-1, 1, 1, -1, 1, 1, 1, -1, 1, 1, 1, 1, 1, -1, 1, 1, 1, -2, 1,
    1, 1, -1, 1, -1, 6, 8, 8, 8, -6, 1, -27, 1, 1, 1, 1, -2, 1, 1, -14, 8, -16, 8, 8, -24, 8,
    -64>>) ++ flow_table_fields_supported ++ flow_table_fields_supported
odp_per_transport_service_cap == N(6, 1) ++ L(<<-26>>)
flow_table_nic_cap ==
  L(<<1, 1, 1, -4, 1, -24, 1, -10, 5, -6, 10, -448>>) ++ flow_table_prop_layout ++
    flow_table_prop_layout ++ flow_table_prop_layout ++ flow_table_prop_layout ++
    flow_table_prop_layout ++ flow_table_prop_layout ++ L(<<-1792>>) ++
    flow_table_fields_supported_2 ++ L(<<-640>>) ++ flow_table_fields_supported_2 ++ L(<<-1920,
    64, 64, 64, -24384>>)
port_selection_cap == L(<<-16, 1, -1, 1, -493>>) ++ flow_table_prop_layout ++ L(<<-31744>>)
flow_table_eswitch_cap ==
  L(<<8, -13, 1, 1, 1, -2, 1, 1, 1, -483>>) ++ flow_table_prop_layout ++ flow_table_prop_layout
    ++ flow_table_prop_layout ++ L(<<-4096, 64, 64, 64, 64, -26368>>)
e_switch_cap ==
  L(<<1, 1, 1, 1, 1, -2, 1, 1, 1, -15, 1, -1>>) ++ N(7, 1) ++ L(<<-1, 5, -3, 5, -6, 10, -11, 5,
    16, -1952>>)
qos_cap ==
  L(<<1, 1, 1, 1, -1, 1, 1, -1, 1, 1, 1, 1, 4, -27, 5, -16, 32, 32, -16, 16, 16, 16, -16, 16,
    32, -35, 5, -3, 5, -3, 5, -1736>>)
diagnostic_cntr_layout == L(<<1, -15, 16>>)
debug_cap == L(<<1, 1, -2, 5, 1, -1, 5, -8, 8, 1, 1, 1, 1, -20, 8, -448>>)
per_protocol_networking_offload_caps ==
  L(<<1, 1, 1, 1, 1, -2, 1, 1, -2, 5, 2, 2, 4>>) ++ N(19, 1) ++ L(<<-1, 1, 1, -2, 8, -6, 1, 1,
    -16, 16, -288>>) ++ N(4, 32) ++ L(<<-1536>>)
roce_cap == L(<<1, -3, 1, 1, 1, -23, 2, -108, 4, -8, 8, -16, 16, 16, 16, -16, 16, -1792>>)
device_mem_cap ==
  L(<<1, -42, 5, -8, 8, 64, 32, 32, 64, -8, 8, -2, 6, 8, -24, 8, 64, -64, 64, 32, -1504>>)
virtio_emulation_cap ==
  L(<<1, 1, 1, 13, 8, 8, 16, -3, 5, -3, 5, 64, 8, 24, -96>>) ++ N(6, 32) ++ L(<<-1600>>)
atomic_caps == L(<<-64, 2, -4, 1, -73, 16, -16, 16, -16, 16, -1824>>)
odp_cap ==
  L(<<-64, 1, -63>>) ++ odp_per_transport_service_cap ++ odp_per_transport_service_cap ++
    odp_per_transport_service_cap ++ odp_per_transport_service_cap ++
    odp_per_transport_service_cap ++ L(<<-1760>>)
calc_op == L(<<-25>>) ++ N(7, 1)
vector_calc_cap ==
  L(<<1, -39, 8, -13, 3>>) ++ calc_op ++ calc_op ++ calc_op ++ calc_op ++ L(<<-1824>>)
tls_cap == L(<<1, 1, 1, 1, -2044>>)
macsec_cap == L(<<1, -2, 1, 1, 1, 1, -4, 5, -16, 8, 8, -2000>>)
cmd_hca_cap_a ==
  L(<<-16, 1, -14>>) ++ N(9, 1) ++ L(<<-8, 16, -64, 8, 8, 1, -2, 1, -4, 1, -2, 5, -3, 1, -5, 1,
    -1, 5, -1, 1, 1, -7, 1, -5, 8, 8, 1, 1, -7, 1, 1, 5, 8, 1, 1, 6, -8, 1, -2, 1, 4, 8, 1, 7,
    1, -1, 6, 1, 1, 6, -10, 6, -2, 1, -6, 1, 6, -5, 1, 1, -2, 1, 6, -10, 6, 1, 1, 1, 1, 1, -4,
    1, -2, 1, 1, -1, 1, 16>>) ++ N(6, 1) ++ L(<<10, 16, 1, 1, 1>>)
cmd_hca_cap_b ==
  N(8, 1) ++ L(<<5, 1, 1, 1, -1, 1, 1, 2, 8, -1, 1, 1, 5, -4, 4, 1, 1, 1, -2, 1, 1, 1, -1>>) ++
    N(7, 1) ++ L(<<16, -1, 1, -6, 1, -3, 4, 1, 1, -1, 1, 1, -1, 1, 1, 1, 1, 2, 1, -2, 1, 2, 1,
    -1, 1, 1, -1>>) ++ N(8, 1) ++ L(<<-1, 1, 1, 1, -3, 1, 1, 1, -1, 1, 1, 1, -1, 1, 1, 1, 1, 1,
    -3, 1, 1, 1, -3, 1, 1, 1, 1, 1, -9, 6, 1, -1, 1, -5, 8>>)
cmd_hca_cap_c ==
  L(<<1, 1, 1, -3, 1, -4, 5, -6, 2, 1, 1, -1, 1, 4, 16, 16, -16, 16, 16, 16, -7, 25, -16, 8, 8,
    -3, 5, -3, 5, -11, 5, 1, 1, 1, 1, -1, 1, 1, -1, 8, 16, -3, 5, -3, 5, -3, 5, -3, 5, 1, -2, 5,
    -3, 5, -3, 5, -3, 5, 1, 1, 1, 5, -3, 5, -3, 5, -3, 5, 1, -2, 5, -3, 5, -3, 5, -3, 5, 1, 1,
    1, 5, -2, 1, 5, -3, 5, -3, 5, 64, 2, 2, 4, 24, -1, 1, -1>>)
cmd_hca_cap_d ==
  L(<<5, -2, 1, 5, 16, -1, 1, 1, 5, -8, 16, -32, 32, 32, -32, 32, 32, 8, -3, 5, -9, 1, -17, 5,
    -3, 5, -24, 1, -2, 5, -4, 1, 1, 1, 1, 16, 16, -8, 4, -4, 1, 1, 1, 5, -3, 5, 8, 8, 8, 4, -2,
    1, -1, 16, 16, 16, 16, -32, 1, 1, -1, 5, 1, -4, 1, -2, 8, 8, 32, -4>>) ++ N(7, 4) ++ L(<<16,
    16, 4, 4, 24, -20, 12, -12, 4, -4, 12, -32, 64, 64>>)
cmd_hca_cap == cmd_hca_cap_a ++ cmd_hca_cap_b ++ cmd_hca_cap_c ++ cmd_hca_cap_d
cmd_hca_cap_2 == L(<<-160, 8, 8, 8, 8, -235, 5, -113, 1, 14, -27, 5, -1456>>)
shampo_cap == L(<<-3, 5, -3, 5, 16, -3, 5, -2008>>)
hca_cap_union ==
  AnyOf(<<cmd_hca_cap, cmd_hca_cap_2, odp_cap, atomic_caps, roce_cap,
    per_protocol_networking_offload_caps, flow_table_nic_cap, flow_table_eswitch_cap,
    e_switch_cap, port_selection_cap, vector_calc_cap, qos_cap, debug_cap, tls_cap,
    device_mem_cap, virtio_emulation_cap, shampo_cap, macsec_cap, L(<<-32768>>)>>)
=============================================================================
