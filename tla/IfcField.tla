------------------------------ MODULE IfcField ------------------------------
(***************************************************************************)
(* The field access macros of ifcutil.h.  A field is an offset and a width *)
(* in bits, as offsetof and sizeof give them for a member of a             *)
(* struct mlx5_ifc_*_bits.  A message is a function from dword numbers to  *)
(* the set of the bit positions that are 1 in it, in the order of the wire *)
(* (0 is the first bit); a number is the set of its bits that are 1, by    *)
(* their weight (0 is the lowest).                                         *)
(***************************************************************************)
EXTENDS Integers

F(off, width) == [off |-> off, width |-> width]

dw_off(f) == f.off \div 32
qw_off(f) == f.off \div 64
dw_bit_off(f) == 32 - f.width - (f.off % 32)
mask(f) == 0 .. f.width - 1

(* A field that MLX5_GET and MLX5_SET can handle. *)
InDword(f) ==
  /\ f \in [off : Nat, width : Nat]
  /\ f.width >= 1 /\ (f.off % 32) + f.width <= 32

(* Between wire and number, in both directions: be32_to_cpu, cpu_to_be32;  *)
(* be64_to_cpu of the two dwords of a 64-bit word.                         *)
be32(x) == {31 - b : b \in x}
be64(hi, lo) == {31 - b : b \in lo} \cup {63 - b : b \in hi}

(* Shifts of 32-bit numbers.                                               *)
Shr(x, n) == {b - n : b \in {c \in x : c >= n}}
Shl(x, n) == {b + n : b \in {c \in x : c + n <= 31}}

dw_mask(f) == Shl(mask(f), dw_bit_off(f))

MLX5_GET_unmasked(p, f) == Shr(be32(p[dw_off(f)]), dw_bit_off(f))
MLX5_GET(p, f) == Shr(be32(p[dw_off(f)]), dw_bit_off(f)) \cap mask(f)

MLX5_GET64(p, f) == be64(p[2 * qw_off(f)], p[2 * qw_off(f) + 1])

(* A mistake: the whole dword is written, not only the field.              *)
MLX5_SET_clears(p, f, v) ==
  [p EXCEPT ![dw_off(f)] = be32(Shl(v \cap mask(f), dw_bit_off(f)))]
MLX5_SET(p, f, v) ==
  [p EXCEPT ![dw_off(f)] =
     be32((be32(@) \ dw_mask(f)) \cup Shl(v \cap mask(f), dw_bit_off(f)))]

(* External: what the device has in, or reads from, a field: its bits on   *)
(* the wire, the first one being the highest.                              *)
OnWire(p, f) ==
  {b \in 0 .. f.width - 1 :
     LET at == f.off + f.width - 1 - b IN at % 32 \in p[at \div 32]}
=============================================================================
