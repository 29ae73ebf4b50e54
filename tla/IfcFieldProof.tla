--------------------------- MODULE IfcFieldProof ---------------------------
(***************************************************************************)
(* What the field access macros compute, for every message, every value    *)
(* and every field that does not straddle two dwords: MLX5_GET reads the   *)
(* field the device sees on the wire, MLX5_SET gives it the value modulo   *)
(* its width and leaves every other bit alone.                             *)
(***************************************************************************)
EXTENDS IfcField, TLAPS

(* The number of the last bit of the field on the wire, in its dword.      *)
LEMMA FieldPlace ==
  ASSUME NEW f, InDword(f)
  PROVE  /\ dw_off(f) \in Nat
         /\ dw_bit_off(f) \in Nat /\ dw_bit_off(f) + f.width <= 32
         /\ \A b \in 0 .. f.width - 1 :
              /\ (f.off + f.width - 1 - b) \div 32 = dw_off(f)
              /\ (f.off + f.width - 1 - b) % 32 = 31 - b - dw_bit_off(f)
PROOF
  <1> DEFINE o == f.off
             w == f.width
  <1>1. o \in Nat /\ w \in Nat /\ w >= 1 /\ (o % 32) + w <= 32
    BY DEF InDword
  <1>2. ASSUME NEW b \in 0 .. w - 1
        PROVE  (o + w - 1 - b) \div 32 = o \div 32 /\ (o + w - 1 - b) % 32 = (o % 32) + w - 1 - b
    <2> HIDE DEF o, w
    <2>1. PICK q \in Int, r \in Int :
            o = 32 * q + r /\ 0 <= r /\ r <= 31 /\ o % 32 = r /\ o \div 32 = q
      BY <1>1, SMT
    <2>2. o + w - 1 - b = 32 * q + (r + w - 1 - b)
      BY <1>1, <2>1, SMT
    <2>3. 0 <= r + w - 1 - b /\ r + w - 1 - b <= 31
      BY <1>1, <2>1, SMT
    <2> QED BY <1>1, <2>1, <2>2, <2>3, SMT
  <1>3. o \div 32 \in Nat /\ o % 32 \in 0 .. 31
    BY <1>1, SMT
  <1> QED
    BY <1>1, <1>2, <1>3, SMT DEF dw_off, dw_bit_off

(* MLX5_GET reads the field as the device has it on the wire.              *)
THEOREM GetReadsTheField ==
  ASSUME NEW f, InDword(f), NEW p, NEW D, p \in [D -> SUBSET (0 .. 31)], dw_off(f) \in D
  PROVE  MLX5_GET(p, f) = OnWire(p, f)
PROOF
  <1> DEFINE d == dw_off(f)
             s == dw_bit_off(f)
             w == f.width
             x == p[d]
  <1>1. x \subseteq 0 .. 31
    OBVIOUS
  <1>2. s \in Nat /\ w \in Nat /\ s + w <= 32
    BY FieldPlace DEF InDword
  <1>3. OnWire(p, f) = {b \in 0 .. w - 1 : 31 - b - s \in x}
    BY FieldPlace DEF OnWire
  <1>4. MLX5_GET(p, f) = {b \in 0 .. w - 1 : b \in Shr(be32(x), s)}
    BY DEF MLX5_GET, mask
  <1>5. ASSUME NEW b \in 0 .. w - 1
        PROVE  b \in Shr(be32(x), s) <=> 31 - b - s \in x
    <2> HIDE DEF x, s, w, d
    <2>1. b \in Shr(be32(x), s) <=> \E c \in be32(x) : c >= s /\ b = c - s
      BY DEF Shr
    <2>2. (\E c \in be32(x) : c >= s /\ b = c - s) <=> b + s \in be32(x)
      <3>1. be32(x) \subseteq Int
        BY <1>1, SMT DEF be32
      <3> QED BY <1>2, <3>1, SMT
    <2>3. b + s \in be32(x) <=> \E a \in x : b + s = 31 - a
      BY DEF be32
    <2>4. (\E a \in x : b + s = 31 - a) <=> 31 - b - s \in x
      BY <1>1, <1>2, SMT
    <2> QED BY <2>1, <2>2, <2>3, <2>4
  <1> QED
    BY <1>3, <1>4, <1>5

(* What MLX5_SET leaves at a place of the field's dword: the value where   *)
(* the field is, what was there elsewhere.                                 *)
LEMMA SetDword ==
  ASSUME NEW f, InDword(f), NEW x \in SUBSET (0 .. 31), NEW v, v \subseteq Nat,
         NEW k \in 0 .. 31
  PROVE  k \in be32((be32(x) \ dw_mask(f)) \cup Shl(v \cap mask(f), dw_bit_off(f)))
           <=> IF 31 - k - dw_bit_off(f) \in mask(f)
               THEN 31 - k - dw_bit_off(f) \in v ELSE k \in x
PROOF
  <1> DEFINE s == dw_bit_off(f)
             w == f.width
             z == (be32(x) \ dw_mask(f)) \cup Shl(v \cap mask(f), s)
             b == 31 - k - s
  <1>1. s \in Nat /\ w \in Nat /\ s + w <= 32
    BY FieldPlace DEF InDword
  <1>2. mask(f) = 0 .. w - 1
    BY DEF mask
  <1>3. ASSUME NEW u, u \subseteq Nat
        PROVE  31 - k \in Shl(u, s) <=> b \in u
    <2>1. 31 - k \in Shl(u, s) <=> \E c \in u : c + s <= 31 /\ 31 - k = c + s
      BY DEF Shl
    <2> QED BY <1>1, <1>3, <2>1, SMT
  <1>4. 31 - k \in Shl(v \cap mask(f), s) <=> b \in v /\ b \in mask(f)
    <2>1. v \cap mask(f) \subseteq Nat
      OBVIOUS
    <2> QED BY <1>3, <2>1
  <1>5. 31 - k \in dw_mask(f) <=> b \in mask(f)
    <2>1. mask(f) \subseteq Nat
      BY <1>1, <1>2, SMT
    <2> QED BY <1>3, <2>1 DEF dw_mask
  <1>6. 31 - k \in be32(x) <=> k \in x
    <2>1. 31 - k \in be32(x) <=> \E a \in x : 31 - k = 31 - a
      BY DEF be32
    <2> QED BY <2>1, SMT
  <1>7. k \in be32(z) <=> 31 - k \in z
    <2>1. k \in be32(z) <=> \E a \in z : k = 31 - a
      BY DEF be32
    <2>2. be32(x) \subseteq Int
      BY SMT DEF be32
    <2>3. Shl(v \cap mask(f), s) \subseteq Int
      <3>1. ASSUME NEW c \in v \cap mask(f) PROVE c + s \in Int
        BY <1>1, <3>1, SMT
      <3> QED BY <3>1 DEF Shl
    <2>4. z \subseteq Int
      BY <2>2, <2>3
    <2> HIDE DEF z
    <2> QED BY <2>1, <2>4, SMT
  <1> QED
    BY <1>4, <1>5, <1>6, <1>7

(* MLX5_SET gives the field the value, modulo the field's width.           *)
THEOREM SetWritesTheField ==
  ASSUME NEW f, InDword(f), NEW D, NEW p \in [D -> SUBSET (0 .. 31)], dw_off(f) \in D,
         NEW v, v \subseteq Nat
  PROVE  OnWire(MLX5_SET(p, f, v), f) = v \cap mask(f)
PROOF
  <1> DEFINE s == dw_bit_off(f)
             q == MLX5_SET(p, f, v)
             x == p[dw_off(f)]
  <1>1. s \in Nat /\ f.width \in Nat /\ s + f.width <= 32
    BY FieldPlace DEF InDword
  <1>2. OnWire(q, f) = {b \in 0 .. f.width - 1 : 31 - b - s \in q[dw_off(f)]}
    BY FieldPlace DEF OnWire
  <1>3. q[dw_off(f)] = be32((be32(x) \ dw_mask(f)) \cup Shl(v \cap mask(f), s))
    BY DEF MLX5_SET
  <1>4. ASSUME NEW b \in 0 .. f.width - 1
        PROVE  31 - b - s \in q[dw_off(f)] <=> b \in v
    <2>1. 31 - b - s \in 0 .. 31
      BY <1>1, SMT
    <2>2. 31 - (31 - b - s) - s = b
      BY <1>1, SMT
    <2>3. b \in mask(f)
      BY DEF mask
    <2>4. x \in SUBSET (0 .. 31)
      OBVIOUS
    <2> HIDE DEF s, x, q
    <2>5. 31 - b - s \in be32((be32(x) \ dw_mask(f)) \cup Shl(v \cap mask(f), s))
            <=> IF b \in mask(f) THEN b \in v ELSE 31 - b - s \in x
      <3> DEFINE k == 31 - b - s
      <3> HIDE DEF k
      <3>1. k \in 0 .. 31 /\ 31 - k - s = b
        BY <2>1, <2>2 DEF k
      <3>2. k \in be32((be32(x) \ dw_mask(f)) \cup Shl(v \cap mask(f), s))
              <=> IF 31 - k - s \in mask(f) THEN 31 - k - s \in v ELSE k \in x
        BY <2>4, <3>1, SetDword DEF s
      <3>3. k \in be32((be32(x) \ dw_mask(f)) \cup Shl(v \cap mask(f), s))
              <=> IF b \in mask(f) THEN b \in v ELSE k \in x
        BY <3>1, <3>2, Zenon
      <3> QED BY <3>3 DEF k
    <2>6. 31 - b - s \in q[dw_off(f)] <=> IF b \in mask(f) THEN b \in v ELSE 31 - b - s \in x
      BY <1>3, <2>5, Zenon
    <2> QED BY <2>3, <2>6, Zenon
  <1> QED
    BY <1>2, <1>4 DEF mask

(* MLX5_SET changes no bit of the message outside of its field.            *)
THEOREM SetKeepsTheRest ==
  ASSUME NEW f, InDword(f), NEW D, NEW p \in [D -> SUBSET (0 .. 31)], dw_off(f) \in D,
         NEW v, v \subseteq Nat,
         NEW at \in Nat, at \div 32 \in D, ~(f.off <= at /\ at < f.off + f.width)
  PROVE  at % 32 \in MLX5_SET(p, f, v)[at \div 32] <=> at % 32 \in p[at \div 32]
PROOF
  <1> DEFINE s == dw_bit_off(f)
             d == dw_off(f)
             k == at % 32
             x == p[d]
             b == 31 - k - s
  <1>1. CASE at \div 32 # d
    BY <1>1 DEF MLX5_SET
  <1>2. CASE at \div 32 = d
    <2>1. MLX5_SET(p, f, v)[d] = be32((be32(x) \ dw_mask(f)) \cup Shl(v \cap mask(f), s))
      BY DEF MLX5_SET
    <2>2. k \in 0 .. 31
      BY SMT
    <2>4. x \in SUBSET (0 .. 31)
      OBVIOUS
    <2>3. b \notin mask(f)
      <3>1. f.off \in Nat /\ f.width \in Nat /\ s = 32 - f.width - (f.off % 32)
        BY DEF InDword, dw_bit_off
      <3>2. at = 32 * (at \div 32) + (at % 32) /\ f.off = 32 * (f.off \div 32) + (f.off % 32)
        BY <3>1, SMT
      <3>5. at \div 32 \in Int /\ at % 32 \in Int
        BY SMT
      <3>6. at = 32 * d + k /\ f.off = 32 * d + (f.off % 32) /\ d \in Int /\ k \in Int
        BY <1>2, <3>2, <3>5, Zenon DEF dw_off
      <3>3. SUFFICES ASSUME b \in 0 .. f.width - 1 PROVE FALSE
        BY DEF mask
      <3>4. f.off % 32 \in Int
        BY <3>1, SMT
      <3> HIDE DEF s, d, k
      <3>7. f.off <= at /\ at < f.off + f.width
        <4> HIDE DEF b
        <4>1. b \in Int /\ 0 <= b /\ b <= f.width - 1
          BY <3>3, <3>1, SMT
        <4>2. b = 31 - k - (32 - f.width - (f.off % 32))
          BY <3>1 DEF b
        <4> QED BY <3>1, <3>4, <3>6, <4>1, <4>2, SMT
      <3> QED BY <3>7
    <2> HIDE DEF x, s, d, k
    <2>5. k \in be32((be32(x) \ dw_mask(f)) \cup Shl(v \cap mask(f), s))
            <=> IF b \in mask(f) THEN b \in v ELSE k \in x
      BY <2>2, <2>4, SetDword DEF s
    <2>6. k \in MLX5_SET(p, f, v)[d] <=> k \in x
      BY <2>1, <2>3, <2>5
    <2> QED BY <1>2, <2>6 DEF k, x
  <1> QED
    BY <1>1, <1>2

(* Therefore a field set later does not disturb one set before, if they    *)
(* share no bit.                                                           *)
THEOREM SetKeepsOtherFields ==
  ASSUME NEW f, InDword(f), NEW g, InDword(g),
         f.off + f.width <= g.off \/ g.off + g.width <= f.off,
         NEW D, NEW p \in [D -> SUBSET (0 .. 31)], dw_off(f) \in D, dw_off(g) \in D,
         NEW v, v \subseteq Nat
  PROVE  OnWire(MLX5_SET(p, f, v), g) = OnWire(p, g)
PROOF
  <1>1. ASSUME NEW b \in 0 .. g.width - 1
        PROVE  LET at == g.off + g.width - 1 - b
               IN  at % 32 \in MLX5_SET(p, f, v)[at \div 32] <=> at % 32 \in p[at \div 32]
    <2> DEFINE at == g.off + g.width - 1 - b
    <2>1. f.off \in Nat /\ f.width \in Nat /\ g.off \in Nat /\ g.width \in Nat
      BY DEF InDword
    <2>2. at \in Nat /\ ~(f.off <= at /\ at < f.off + f.width)
      BY <2>1, SMT
    <2>3. at \div 32 \in D
      BY FieldPlace
    <2> HIDE DEF at
    <2>4. at % 32 \in MLX5_SET(p, f, v)[at \div 32] <=> at % 32 \in p[at \div 32]
      BY <2>2, <2>3, SetKeepsTheRest
    <2> QED BY <2>4 DEF at
  <1> QED
    BY <1>1 DEF OnWire
=============================================================================
