---------------------------- MODULE IfcContexts -----------------------------
(***************************************************************************)
(* The contexts of the objects that can be queried, and what they are made *)
(* of, from mlx5_ifc.h.                                                    *)
(***************************************************************************)
EXTENDS IfcCaps

cmd_pas == L(<<32, 20, -12>>)
ads ==
  L(<<1, 1, -14, 16, -8, 1, 7, 16, 5, -3, 8, -4, 4, 8, -4, 8, 20>>) ++ N(16, 8) ++ L(<<-4, 1, 1,
    -1, 1, 2, 6, 16, 1, 3, 4, 8, 16, 32>>)
rx_hash_field_select == L(<<1, 1, 30>>)
wq ==
  L(<<4, 1, 2, 1, -24, 1, 3, -7, 5, 16, -8, 24, -8, 24, 64, 32, 32, -12, 4, -3, 5, -3, 5, 1, 1,
    -1, 5, -3, 5, -4, 4, 1, -4, 3, -128, 32, 1, -4, 3, -5, 3, -6, 2, -4, 4, -1024>>)
rq_num == L(<<-8, 24>>)
mac_address_layout == L(<<-16, 16, 32>>)
cong_control_r_roce_ecn_np == L(<<-160, 32, -18, 6, -4, 1, 3, -1824>>)
cong_control_r_roce_ecn_rp ==
  L(<<-100, 1, -3, 1, -55>>) ++ N(9, 32) ++ L(<<-224, 32, 32, 32, 32, -32, 32, -1184>>)
cong_control_802_1qau_rp == L(<<-128>>) ++ N(10, 32) ++ L(<<-1600>>)
resource_dump ==
  L(<<1, 1, -10, 4, 16, -16, 16, 32, 32, 16, 16, -32, 64, 32, 32, 64>>) ++ N(52, 32)
resource_dump_menu_record ==
  L(<<-4>>) ++ N(12, 1) ++ L(<<16>>) ++ N(4, 32) ++ N(4, 32) ++ N(4, 32)
resource_dump_segment_header == L(<<16, 16>>)
resource_dump_command_segment == resource_dump_segment_header ++ L(<<16, 16, 32, 32, 16, 16>>)
resource_dump_error_segment == resource_dump_segment_header ++ L(<<-16, 16, -64>>) ++ N(8, 32)
resource_dump_info_segment == resource_dump_segment_header ++ L(<<-24, 8, 32, 32>>)
resource_dump_menu_segment == resource_dump_segment_header ++ L(<<-16, 16>>)
resource_dump_resource_segment == resource_dump_segment_header ++ L(<<-32, 32, 32>>)
resource_dump_reference_segment == resource_dump_segment_header ++ L(<<-16, 16, 32, 32, 16, 16>>)
resource_dump_notice_segment == resource_dump_segment_header ++ L(<<-16, 16, -64>>) ++ N(8, 32)
resource_dump_terminate_segment == resource_dump_segment_header
resource_dump_segment_union ==
  AnyOf(<<resource_dump_resource_segment, resource_dump_reference_segment,
    resource_dump_notice_segment, resource_dump_terminate_segment,
    resource_dump_error_segment>>)
resource_dump_response == resource_dump_info_segment ++ resource_dump_command_segment
qpc ==
  L(<<4, 4, 8, -2, 1, 2, -1, 2, 4, 2, -2, 1, 1, 1, 1, -1, 1, -2, 24, 3, 5, -1, 4, 3, 1, 4, -3,
    2, -1, 1, 4, 8, 24, -8, 24, -3, 5, 24>>) ++ ads ++ ads ++ L(<<4, -4, 3, -2, 3, 3, -1, 1, 3,
    3, -45, 24, -3, 5, 24, -3, 5, 24, -40, 24, -8, 24, -8, 3, -1, 4, 1, 1, 1, -1, 6, -3, 1, 1,
    1, -3, 5, 24, -8, 24, -8, 24, 64, 32, -5, 3, 24, -8, 24, 16, 16, 32, 32, -47, 1, 8, 8, 64,
    -3, 1, -188>>)
xrc_srqc ==
  L(<<4, 4, -24, 1, 1, -1, 1, 1, 3, 24, 6, -1, 1, 24, -32, 1, -1, 6, 24, -40, 24, 16, 16, -64,
    32, 30, -130>>)
vnic_diagnostic_statistics ==
  L(<<32, 32, 32, -32, 64, 64, 64, 32, 32, -32, 32, 32, 32, 32, 32, -3520>>)
traffic_counter == L(<<64, 64>>)
tisc == L(<<1, 1, -2, 4, -4, 4, -280, 24, -8, 24, -8, 24, -896>>)
tirc ==
  L(<<-32, 4, 1, -95, 16, 4, 8, -72, 24, 1, -1, 1, -5, 24, 4, -2, 2, 24>>) ++ N(10, 32) ++
    rx_hash_field_select ++ rx_hash_field_select ++ L(<<-1216>>)
srqc ==
  L(<<4, 4, -24, 1, 1, -1, 1, -1, 3, 24, 6, -2, 24, -34, 6, -64, 24, 16, 16, -64, 64, -128>>)
sqc ==
  L(<<1, 1, 1, 1, 1, 3, 4, 1, 1, 1, -11, 2, -12, 24, -8, 24, -8, 24, -16, 16, -40, 24, -16, 16,
    16, 16, -72, 24>>) ++ wq
rqtc == L(<<-165, 3, -8, 16, 1, -15, 16, -1696>>)
rqc ==
  L(<<1, 1, 1, 1, 4, 4, -1, 1, 1, -11, 2, -12, 24, -8, 24, 8, -32, 24, -8, 24, -16, 16, -70, 2,
    -6, 2, 16, -64>>) ++ wq
rmpc == L(<<-8, 4, -20, 1, -351>>) ++ wq
mkc ==
  L(<<-1, 1, -1, 3, -7, 1, -1>>) ++ N(7, 1) ++ L(<<2, -2, 2, -4, 24, 8, -32, 1, 1, 1, -2, 1, -1,
    1, 24, 64, 64, 32, -128, 32, -25, 1, -1, 5, -32>>)
esw_vport_context == L(<<1, -2, 1, 1, 1, 2, 8, -48, 1, 3, 12, 1, 3, 12, -1824, 64, 64>>)
eqc == L(<<4, -9, 1, 1, -5, 4, -60, 6, -9, 5, 24, -52, 12, -3, 5, -128, 24, -8, 24, -128>>)
dctc ==
  L(<<-4, 4, -32, 24, -8, 24, 8, 4>>) ++ N(7, 1) ++ L(<<-21, 8, -3, 5, -16, 24, -8, 24, 8, -4,
    20, 64, -5, 3, 8, 16, -8, 8, -8, 8, 32, -20, 1, 3, 2, 6, -32, 32>>)
cqc ==
  L(<<4, -2, 1, 1, 3, 1, -1, 1, 1, 2, 1, 2, 4, -6, 2, -52, 6, -9, 5, 24, -4, 12, 16, 32, -3, 5,
    -64, 24, -8, 24, -8, 24, -8, 24, -64, 64>>)
cong_control_roce_ecn_auto ==
  AnyOf(<<cong_control_802_1qau_rp, cong_control_r_roce_ecn_rp, cong_control_r_roce_ecn_np,
    L(<<-2048>>)>>)
query_adapter_param_block == L(<<-200, 24, -16, 16>>) ++ N(208, 8) ++ N(16, 8)
tag_matching_topology_context == L(<<4, -12, 16, 16, 16, -64>>)
xrqc ==
  L(<<4, 1, -15, 4, -4, 4, -8, 24, -8, 24, -160>>) ++ tag_matching_topology_context ++
    L(<<-640>>) ++ wq
lagc == L(<<1, -20, 3, -5, 3, -12, 4, -4, 4, -4, 4>>)
host_params_context == L(<<8, -7, 1, 16, 16, 16, -16, 16, -16, 16, -384>>)
=============================================================================
