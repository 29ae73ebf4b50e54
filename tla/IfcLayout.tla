----------------------------- MODULE IfcLayout -----------------------------
(***************************************************************************)
(* Layouts: a struct mlx5_ifc_*_bits as its size in bits and the set of    *)
(* its fields.  The modules Ifc* write the structs of mlx5_ifc.h with the  *)
(* operators below, a member by its width; reserved members are negative.  *)
(***************************************************************************)
EXTENDS IfcField, Sequences, FiniteSets

LOCAL Width(w) == IF w < 0 THEN -w ELSE w

(* Members one after another. *)
L(widths) ==
  LET at[i \in 1 .. Len(widths) + 1] ==
        IF i = 1 THEN 0 ELSE at[i - 1] + Width(widths[i - 1])
  IN  [bits |-> at[Len(widths) + 1],
       fields |-> {F(at[i], widths[i]) : i \in {j \in DOMAIN widths : widths[j] > 0}}]

(* n members, or an array of n elements, of the same width. *)
N(n, width) == [bits |-> n * width, fields |-> {F(i * width, width) : i \in 0 .. n - 1}]

(* Layout b behind layout a. *)
a ++ b ==
  [bits |-> a.bits + b.bits,
   fields |-> a.fields \cup {F(a.bits + f.off, f.width) : f \in b.fields}]

(* An array of n structs. *)
Times(n, a) ==
  [bits |-> n * a.bits,
   fields |-> {F(i * a.bits + f.off, f.width) : i \in 0 .. n - 1, f \in a.fields}]

(* A union. *)
AnyOf(layouts) ==
  [bits |-> CHOOSE n \in {layouts[i].bits : i \in DOMAIN layouts} :
              \A i \in DOMAIN layouts : layouts[i].bits <= n,
   fields |-> UNION {layouts[i].fields : i \in DOMAIN layouts}]

MLX5_ST_SZ_BYTES(a) == a.bits \div 8
MLX5_ST_SZ_DW(a) == a.bits \div 32
=============================================================================
