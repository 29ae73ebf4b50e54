--------------------------- MODULE MessagesProof ---------------------------
(***************************************************************************)
(* Proofs about Messages: the commands obj, reg and cap, for all numbers   *)
(* that can be given on a command line and all contents a device can       *)
(* answer with.                                                            *)
(*                                                                         *)
(* First the messages: whatever fields are set one after another, the      *)
(* message carries exactly their values (MessageCarries, MessageElsewhere, *)
(* from the theorems of IfcFieldProof and a least counterexample over the  *)
(* number of fields set).  Then the tables of the three commands.  Then    *)
(* the inductive invariant: the last message is the one the arguments call *)
(* for (SentIs), the reply answers it (Answered), the capabilities asked   *)
(* for are the first printable ones (Trying), and what was printed was     *)
(* read from the reply to the request for it.                              *)
(*                                                                         *)
(* QueriesAssumption, RegsAssumption and CapsAssumption are facts about    *)
(* the layouts that TLC evaluates: they have no parameters.                *)
(***************************************************************************)
EXTENDS Messages, IfcFieldProof, WellFoundedInduction

(* A non-empty set of naturals has a least element. *)
LEMMA Least ==
  ASSUME NEW T \in SUBSET Nat, T # {}
  PROVE  \E x \in T : \A y \in T : x <= y
<1> DEFINE Smaller == {p \in Nat \X Nat : p[1] < p[2]}
<1>1. IsWellFoundedOn(Smaller, Nat)
  BY NatLessThanWellFounded DEF OpToRel
<1>2. PICK x \in T : \A y \in T : <<y, x>> \notin Smaller
  <2> HIDE DEF Smaller
  <2> QED
    BY <1>1, WFMin
<1>3. ASSUME NEW y \in T PROVE x <= y
  <2>1. <<y, x>> \in Nat \X Nat /\ ~(y < x)
    BY <1>2
  <2> QED
    BY <2>1
<1> QED
  BY <1>3

(***************************************************************************)
(* Messages.                                                               *)
(***************************************************************************)

(* The messages on the way to Message(sets), one field after another.      *)
Building(a, sets, n) ==
  a = [i \in 0 .. n |->
         IF i = 0 THEN Zeroed ELSE MLX5_SET(a[i - 1], sets[i][1], sets[i][2])]

(* They exist. *)
LEMMA BuildingExists ==
  ASSUME NEW sets, NEW m \in Nat
  PROVE  \E a : Building(a, sets, m)
<1> DEFINE T == {n \in Nat : ~ \E a : Building(a, sets, n)}
<1>1. Building([i \in 0 .. 0 |-> Zeroed], sets, 0)
  BY DEF Building
<1>2. ASSUME NEW n \in Nat, NEW a, Building(a, sets, n)
      PROVE  \E b : Building(b, sets, n + 1)
  <2> DEFINE b == [i \in 0 .. n + 1 |->
                     IF i = n + 1 THEN MLX5_SET(a[n], sets[n + 1][1], sets[n + 1][2])
                     ELSE a[i]]
  <2>1. Building(b, sets, n + 1)
    BY <1>2 DEF Building
  <2> QED
    BY <2>1
<1>3. T = {}
  <2>1. SUFFICES ASSUME T # {} PROVE FALSE
    OBVIOUS
  <2>2. PICK n \in T : \A y \in T : n <= y
    BY <2>1, Least
  <2>3. n # 0
    BY <1>1
  <2>4. n - 1 \in Nat /\ n - 1 \notin T
    BY <2>2, <2>3
  <2>5. \E b : Building(b, sets, (n - 1) + 1)
    BY <2>4, <1>2
  <2>6. (n - 1) + 1 = n
    BY <2>4
  <2> QED
    BY <2>5, <2>6
<1> QED
  BY <1>3

(* Message(sets) is the last of them. *)
LEMMA MessageIsBuilt ==
  ASSUME NEW sets, Len(sets) \in Nat
  PROVE  \E a : /\ Message(sets) = a[Len(sets)]
                /\ a[0] = Zeroed
                /\ \A i \in 1 .. Len(sets) :
                     a[i] = MLX5_SET(a[i - 1], sets[i][1], sets[i][2])
<1> DEFINE after == CHOOSE a : a = [i \in 0 .. Len(sets) |->
              IF i = 0 THEN Zeroed ELSE MLX5_SET(a[i - 1], sets[i][1], sets[i][2])]
<1>1. PICK a : Building(a, sets, Len(sets))
  BY BuildingExists
<1>2. after = [i \in 0 .. Len(sets) |->
              IF i = 0 THEN Zeroed ELSE MLX5_SET(after[i - 1], sets[i][1], sets[i][2])]
  BY <1>1 DEF Building
<1>3. Message(sets) = after[Len(sets)]
  BY DEF Message
<1> HIDE DEF after
<1>4. after[0] = Zeroed
  BY <1>2
<1>5. \A i \in 1 .. Len(sets) : after[i] = MLX5_SET(after[i - 1], sets[i][1], sets[i][2])
  BY <1>2
<1> QED
  BY <1>3, <1>4, <1>5

(* A field of the eight dwords, and a value for it.                        *)
Settable(s) ==
  InDword(s[1]) /\ s[1].off + s[1].width <= 256 /\ s[2] \subseteq Nat

Apart(f, g) == f.off + f.width <= g.off \/ g.off + g.width <= f.off

Dwords == [0 .. LastDw -> SUBSET (0 .. 31)]

(* The dword of such a field. *)
LEMMA InMessage ==
  ASSUME NEW f, InDword(f), f.off + f.width <= 256
  PROVE  dw_off(f) \in 0 .. LastDw
<1>1. f.off \in Nat /\ f.off < 256
  BY DEF InDword
<1> QED
  BY <1>1, SMT DEF dw_off, LastDw

(* MLX5_SET keeps the message what it is. *)
LEMMA SetType ==
  ASSUME NEW p \in Dwords, NEW f, InDword(f), NEW v, v \subseteq Nat
  PROVE  MLX5_SET(p, f, v) \in Dwords
<1> DEFINE x == p[dw_off(f)]
           z == be32((be32(x) \ dw_mask(f)) \cup Shl(v \cap mask(f), dw_bit_off(f)))
<1>1. CASE dw_off(f) \in 0 .. LastDw
  <2>1. x \subseteq 0 .. 31
    BY <1>1 DEF Dwords
  <2>2. be32(x) \subseteq 0 .. 31
    BY <2>1 DEF be32
  <2>3. \A c \in v : c + dw_bit_off(f) \in Nat
    BY FieldPlace
  <2>4. Shl(v \cap mask(f), dw_bit_off(f)) \subseteq 0 .. 31
    BY <2>3 DEF Shl
  <2>5. z \subseteq 0 .. 31
    <3> DEFINE y == (be32(x) \ dw_mask(f)) \cup Shl(v \cap mask(f), dw_bit_off(f))
    <3>1. y \subseteq 0 .. 31
      BY <2>2, <2>4
    <3> HIDE DEF y
    <3>2. be32(y) \subseteq 0 .. 31
      BY <3>1 DEF be32
    <3> QED
      BY <3>2 DEF y
  <2>6. MLX5_SET(p, f, v) = [p EXCEPT ![dw_off(f)] = z]
    BY DEF MLX5_SET
  <2> HIDE DEF z
  <2> QED
    BY <1>1, <2>5, <2>6 DEF Dwords
<1>2. CASE dw_off(f) \notin 0 .. LastDw
  BY <1>2 DEF MLX5_SET, Dwords
<1> QED
  BY <1>1, <1>2

(* Every message on the way has its eight dwords.                          *)
LEMMA BuildingType ==
  ASSUME NEW sets, Len(sets) \in Nat, \A i \in 1 .. Len(sets) : Settable(sets[i]),
         NEW a, a[0] = Zeroed,
         \A i \in 1 .. Len(sets) : a[i] = MLX5_SET(a[i - 1], sets[i][1], sets[i][2])
  PROVE  \A i \in 0 .. Len(sets) : a[i] \in Dwords
<1> DEFINE T == {i \in 0 .. Len(sets) : a[i] \notin Dwords}
<1>1. SUFFICES ASSUME T # {} PROVE FALSE
  OBVIOUS
<1>2. T \in SUBSET Nat
  OBVIOUS
<1>3. PICK i \in T : \A j \in T : i <= j
  <2> HIDE DEF T
  <2> QED
    BY <1>1, <1>2, Least
<1>4. i # 0
  BY DEF Dwords, Zeroed
<1>5. i \in 1 .. Len(sets) /\ i - 1 \in 0 .. Len(sets) /\ i - 1 \notin T
  BY <1>3, <1>4
<1>6. a[i - 1] \in Dwords /\ a[i] = MLX5_SET(a[i - 1], sets[i][1], sets[i][2])
  BY <1>5
<1>7. InDword(sets[i][1]) /\ sets[i][2] \subseteq Nat
  BY <1>5 DEF Settable
<1> QED
  BY <1>6, <1>7, SetType

(* A message has its eight dwords, whatever is set in it. *)
THEOREM MessageType ==
  ASSUME NEW sets, Len(sets) \in Nat, \A i \in 1 .. Len(sets) : Settable(sets[i])
  PROVE  Message(sets) \in Dwords
<1>1. PICK a : /\ Message(sets) = a[Len(sets)]
               /\ a[0] = Zeroed
               /\ \A i \in 1 .. Len(sets) :
                    a[i] = MLX5_SET(a[i - 1], sets[i][1], sets[i][2])
  BY MessageIsBuilt
<1>2. \A i \in 0 .. Len(sets) : a[i] \in Dwords
  BY <1>1, BuildingType
<1> QED
  BY <1>1, <1>2

(* A message carries each value set, as much of it as its field holds, if  *)
(* no field set later shares a bit with its field.                         *)
THEOREM MessageCarries ==
  ASSUME NEW sets, Len(sets) \in Nat, \A i \in 1 .. Len(sets) : Settable(sets[i]),
         NEW k \in 1 .. Len(sets),
         \A j \in k + 1 .. Len(sets) : Apart(sets[j][1], sets[k][1])
  PROVE  OnWire(Message(sets), sets[k][1]) = sets[k][2] \cap mask(sets[k][1])
<1>1. PICK a : /\ Message(sets) = a[Len(sets)]
               /\ a[0] = Zeroed
               /\ \A i \in 1 .. Len(sets) :
                    a[i] = MLX5_SET(a[i - 1], sets[i][1], sets[i][2])
  BY MessageIsBuilt
<1>2. \A i \in 0 .. Len(sets) : a[i] \in Dwords
  BY <1>1, BuildingType
<1> DEFINE f == sets[k][1]
           v == sets[k][2]
           T == {j \in k .. Len(sets) : OnWire(a[j], f) # v \cap mask(f)}
<1>3. InDword(f) /\ v \subseteq Nat /\ dw_off(f) \in 0 .. LastDw
  BY InMessage DEF Settable
<1>4. SUFFICES ASSUME T # {} PROVE FALSE
  BY <1>1
<1>5. T \in SUBSET Nat
  OBVIOUS
<1>6. PICK i \in T : \A j \in T : i <= j
  <2> HIDE DEF T
  <2> QED
    BY <1>4, <1>5, Least
<1>7. i # k
  <2>1. a[k - 1] \in Dwords /\ a[k] = MLX5_SET(a[k - 1], f, v)
    BY <1>1, <1>2
  <2> HIDE DEF f, v
  <2>2. OnWire(a[k], f) = v \cap mask(f)
    BY <1>3, <2>1, SetWritesTheField DEF Dwords
  <2> QED
    BY <2>2
<1>8. i \in k + 1 .. Len(sets) /\ i - 1 \in k .. Len(sets) /\ i - 1 \notin T
  BY <1>6, <1>7
<1>9. OnWire(a[i - 1], f) = v \cap mask(f)
  BY <1>8
<1> DEFINE g == sets[i][1]
           w == sets[i][2]
<1>10. a[i - 1] \in Dwords /\ a[i] = MLX5_SET(a[i - 1], g, w)
  BY <1>1, <1>2, <1>8
<1>11. InDword(g) /\ w \subseteq Nat /\ dw_off(g) \in 0 .. LastDw
  BY <1>8, InMessage DEF Settable
<1>12. Apart(g, f)
  BY <1>8
<1>14. OnWire(a[i], f) # v \cap mask(f)
  BY <1>6
<1> HIDE DEF f, v, g, w, T
<1>13. OnWire(a[i], f) = OnWire(a[i - 1], f)
  <2>1. a[i - 1] \in [0 .. LastDw -> SUBSET (0 .. 31)]
    BY <1>10 DEF Dwords
  <2>2. g.off + g.width <= f.off \/ f.off + f.width <= g.off
    BY <1>12 DEF Apart
  <2>3. OnWire(MLX5_SET(a[i - 1], g, w), f) = OnWire(a[i - 1], f)
    BY <1>3, <1>11, <2>1, <2>2, SetKeepsOtherFields, ZenonT(60)
  <2> QED
    BY <1>10, <2>3
<1> QED
  BY <1>9, <1>13, <1>14

(* A bit, by its dword and its place there. *)
LEMMA BitPlace ==
  ASSUME NEW d \in Nat, NEW b \in 0 .. 31
  PROVE  32 * d + b \in Nat /\ (32 * d + b) \div 32 = d /\ (32 * d + b) % 32 = b
OBVIOUS

(* A message carries nothing else. *)
THEOREM MessageElsewhere ==
  ASSUME NEW sets, Len(sets) \in Nat, \A i \in 1 .. Len(sets) : Settable(sets[i]),
         NEW d \in 0 .. LastDw, NEW b \in Message(sets)[d]
  PROVE  \E i \in 1 .. Len(sets) :
           32 * d + b \in sets[i][1].off .. sets[i][1].off + sets[i][1].width - 1
<1>1. PICK a : /\ Message(sets) = a[Len(sets)]
               /\ a[0] = Zeroed
               /\ \A i \in 1 .. Len(sets) :
                    a[i] = MLX5_SET(a[i - 1], sets[i][1], sets[i][2])
  BY MessageIsBuilt
<1>2. \A i \in 0 .. Len(sets) : a[i] \in Dwords
  BY <1>1, BuildingType
<1> DEFINE T == {j \in 0 .. Len(sets) : b \in a[j][d]}
<1>3. T \in SUBSET Nat /\ T # {}
  BY <1>1
<1>4. PICK i \in T : \A j \in T : i <= j
  <2> HIDE DEF T
  <2> QED
    BY <1>3, Least
<1>5. i # 0
  BY <1>1, <1>4 DEF Zeroed
<1>6. i \in 1 .. Len(sets) /\ i - 1 \in 0 .. Len(sets) /\ i - 1 \notin T /\ b \in a[i][d]
  BY <1>4, <1>5
<1> DEFINE g == sets[i][1]
           w == sets[i][2]
           at == 32 * d + b
<1>7. a[i - 1] \in Dwords /\ a[i] = MLX5_SET(a[i - 1], g, w) /\ b \notin a[i - 1][d]
  BY <1>1, <1>2, <1>6
<1>8. InDword(g) /\ w \subseteq Nat /\ dw_off(g) \in 0 .. LastDw
  BY <1>6, InMessage DEF Settable
<1>9. b \in 0 .. 31
  BY <1>2, <1>6 DEF Dwords
<1>10. at \in Nat /\ at \div 32 = d /\ at % 32 = b
  <2>1. d \in Nat
    BY DEF LastDw
  <2> QED
    BY <1>9, <2>1, BitPlace
<1>11. g.off <= at /\ at < g.off + g.width
  <2>1. SUFFICES ASSUME ~(g.off <= at /\ at < g.off + g.width) PROVE FALSE
    OBVIOUS
  <2> HIDE DEF g, w, at
  <2>2. at % 32 \in MLX5_SET(a[i - 1], g, w)[at \div 32] <=> at % 32 \in a[i - 1][at \div 32]
    BY <1>7, <1>8, <1>10, <2>1, SetKeepsTheRest DEF Dwords
  <2> QED
    BY <1>6, <1>7, <1>10, <2>2
<1>12. g.off \in Nat /\ g.width \in Nat
  BY <1>8 DEF InDword
<1> HIDE DEF g
<1>13. at \in g.off .. g.off + g.width - 1
  BY <1>10, <1>11, <1>12, SMTT(30)
<1> QED
  BY <1>6, <1>13 DEF g

-----------------------------------------------------------------------------
(***************************************************************************)
(* The table of the objects.                                               *)
(***************************************************************************)

(* What a query sets of the id of an object, and where the help says it is *)
(* (at): nothing; one field; or, for cong_status, the two halves of one.   *)
Shape(q, at) ==
  /\ q.opcode \subseteq 0 .. 15
  /\ \/ q.ids = <<>> /\ at = {}
     \/ \E f : /\ q.ids = <<<<f, 0>>>> /\ at = {f}
               /\ InDword(f) /\ f.off + f.width <= 256
               /\ 64 <= f.off /\ (q.other_vport => 65 <= f.off)
     \/ /\ q.ids = <<<<F(92, 4), 0>>, <<F(88, 4), 4>>>> /\ at = {F(88, 8)}
        /\ ~q.other_vport

(* The fields of a query. *)
LEMMA QueryFields ==
  ASSUME NEW op, NEW in, NEW out_, NEW ids
  PROVE  /\ Query(op, in, out_, ids).opcode \subseteq 0 .. 15
         /\ Query(op, in, out_, ids).ids = ids
         /\ ~Query(op, in, out_, ids).other_vport
         /\ QueryOther(op, in, out_, ids).opcode \subseteq 0 .. 15
         /\ QueryOther(op, in, out_, ids).ids = ids
<1>0. BitsOf(op) \subseteq 0 .. 15
  BY DEF BitsOf
<1>1. Query(op, in, out_, ids).opcode \subseteq 0 .. 15
  BY <1>0 DEF Query
<1>2. Query(op, in, out_, ids).ids = ids
  BY DEF Query
<1>3. ~Query(op, in, out_, ids).other_vport
  BY DEF Query
<1>4. QueryOther(op, in, out_, ids).opcode \subseteq 0 .. 15
  BY <1>0 DEF Query, QueryOther
<1>5. QueryOther(op, in, out_, ids).ids = ids
  BY DEF Query, QueryOther
<1> QED
  BY <1>1, <1>2, <1>3, <1>4, <1>5

(* A query without an id. *)
LEMMA QueryNone ==
  ASSUME NEW op, NEW in, NEW out_
  PROVE  Shape(Query(op, in, out_, <<>>), {})
BY QueryFields DEF Shape

(* A query by one id. *)
LEMMA QueryOne ==
  ASSUME NEW op, NEW in, NEW out_, NEW off, NEW width,
         off \in 64 .. 248 /\ width \in 1 .. 32 /\ (off % 32) + width <= 32
  PROVE  Shape(Query(op, in, out_, Id(off, width)), {F(off, width)})
<1> DEFINE f == F(off, width)
           q == Query(op, in, out_, Id(off, width))
<1>1. InDword(f) /\ f.off = off
  BY DEF InDword, F
<1>4. f.off + f.width <= 256
  BY DEF F
<1>2. q.opcode \subseteq 0 .. 15 /\ q.ids = <<<<f, 0>>>> /\ ~q.other_vport
  BY QueryFields DEF Id
<1> HIDE DEF f, q
<1>3. Shape(q, {f})
  BY <1>1, <1>2, <1>4 DEF Shape
<1> QED
  BY <1>3 DEF f, q

(* A query by one id in a vport. *)
LEMMA QueryOneOther ==
  ASSUME NEW op, NEW in, NEW out_, NEW off, NEW width,
         off \in 65 .. 248 /\ width \in 1 .. 32 /\ (off % 32) + width <= 32
  PROVE  Shape(QueryOther(op, in, out_, Id(off, width)), {F(off, width)})
<1> DEFINE f == F(off, width)
           q == QueryOther(op, in, out_, Id(off, width))
<1>1. InDword(f) /\ f.off = off
  BY DEF InDword, F
<1>4. f.off + f.width <= 256
  BY DEF F
<1>2. q.opcode \subseteq 0 .. 15 /\ q.ids = <<<<f, 0>>>>
  BY QueryFields DEF Id
<1> HIDE DEF f, q
<1>3. Shape(q, {f})
  BY <1>1, <1>2, <1>4 DEF Shape
<1> QED
  BY <1>3 DEF f, q

(* Every object is queried by its id where the help says. *)
LEMMA ObjectShapes == \A n \in DOMAIN query_funcs : Shape(query_funcs[n], IdAt[n])
<1>1. DOMAIN query_funcs =
        {"eq", "cq", "qp", "sq", "rq", "tis", "tir", "rqt", "rmp", "dct", "srq",
         "xrq", "xrc_srq", "q_counter", "mkey", "pages", "l2_table_entry", "issi",
         "vport_state", "esw_vport_context", "vport_counter", "vnic_env",
         "packet_reformat_context", "special_contexts", "mad_demux",
         "cong_statistics", "cong_params", "cong_status", "adapter", "wol_rol", "lag",
         "esw_functions", "vhca_migration_state"}
  BY DEF query_funcs
<1>2. ASSUME NEW n \in {"eq"}
      PROVE  Shape(query_funcs[n], IdAt[n])
  <2>1. PICK op, in, out_ : query_funcs[n] = Query(op, in, out_, Id(88, 8))
    BY DEF query_funcs, query_eq
  <2>2. n \in DOMAIN query_funcs
    BY <1>1
  <2>3. IdAt[n] = {F(88, 8)}
    BY <2>2 DEF IdAt
  <2>4. 88 \in 64 .. 248 /\ 8 \in 1 .. 32 /\ (88 % 32) + 8 <= 32
    OBVIOUS
  <2>5. Shape(Query(op, in, out_, Id(88, 8)), {F(88, 8)})
    BY ONLY <2>4, QueryOne, Zenon
  <2> QED
    BY <2>1, <2>3, <2>5
<1>3. ASSUME NEW n \in {"cq", "qp", "sq", "rq", "tis", "tir", "rqt", "rmp", "dct", "srq", "xrq",
           "xrc_srq", "mkey"}
      PROVE  Shape(query_funcs[n], IdAt[n])
  <2>1. PICK op, in, out_ : query_funcs[n] = Query(op, in, out_, Id(72, 24))
    BY DEF query_funcs, query_cq, query_qp, query_sq, query_rq, query_tis, query_tir, query_rqt,
      query_rmp, query_dct, query_srq, query_xrq, query_xrc_srq, query_mkey
  <2>2. n \in DOMAIN query_funcs
    BY <1>1
  <2>3. IdAt[n] = {F(72, 24)}
    BY <2>2 DEF IdAt
  <2>4. 72 \in 64 .. 248 /\ 24 \in 1 .. 32 /\ (72 % 32) + 24 <= 32
    OBVIOUS
  <2>5. Shape(Query(op, in, out_, Id(72, 24)), {F(72, 24)})
    BY ONLY <2>4, QueryOne, Zenon
  <2> QED
    BY <2>1, <2>3, <2>5
<1>4. ASSUME NEW n \in {"q_counter"}
      PROVE  Shape(query_funcs[n], IdAt[n])
  <2>1. PICK op, in, out_ : query_funcs[n] = Query(op, in, out_, Id(248, 8))
    BY DEF query_funcs, query_q_counter
  <2>2. n \in DOMAIN query_funcs
    BY <1>1
  <2>3. IdAt[n] = {F(248, 8)}
    BY <2>2 DEF IdAt
  <2>4. 248 \in 64 .. 248 /\ 8 \in 1 .. 32 /\ (248 % 32) + 8 <= 32
    OBVIOUS
  <2>5. Shape(Query(op, in, out_, Id(248, 8)), {F(248, 8)})
    BY ONLY <2>4, QueryOne, ZenonT(60)
  <2> QED
    BY <2>1, <2>3, <2>5
<1>5. ASSUME NEW n \in {"pages", "vhca_migration_state"}
      PROVE  Shape(query_funcs[n], IdAt[n])
  <2>1. PICK op, in, out_ : query_funcs[n] = Query(op, in, out_, Id(80, 16))
    BY DEF query_funcs, query_pages, query_vhca_migration_state
  <2>2. n \in DOMAIN query_funcs
    BY <1>1
  <2>3. IdAt[n] = {F(80, 16)}
    BY <2>2 DEF IdAt
  <2>4. 80 \in 64 .. 248 /\ 16 \in 1 .. 32 /\ (80 % 32) + 16 <= 32
    OBVIOUS
  <2>5. Shape(Query(op, in, out_, Id(80, 16)), {F(80, 16)})
    BY ONLY <2>4, QueryOne, Zenon
  <2> QED
    BY <2>1, <2>3, <2>5
<1>6. ASSUME NEW n \in {"vport_state", "esw_vport_context", "vport_counter"}
      PROVE  Shape(query_funcs[n], IdAt[n])
  <2>1. PICK op, in, out_ : query_funcs[n] = QueryOther(op, in, out_, Id(80, 16))
    BY DEF query_funcs, query_vport_state, query_esw_vport_context, query_vport_counter
  <2>2. n \in DOMAIN query_funcs
    BY <1>1
  <2>3. IdAt[n] = {F(80, 16)}
    BY <2>2 DEF IdAt
  <2>4. 80 \in 65 .. 248 /\ 16 \in 1 .. 32 /\ (80 % 32) + 16 <= 32
    OBVIOUS
  <2>5. Shape(QueryOther(op, in, out_, Id(80, 16)), {F(80, 16)})
    BY ONLY <2>4, QueryOneOther, Zenon
  <2> QED
    BY <2>1, <2>3, <2>5
<1>7. ASSUME NEW n \in {"l2_table_entry"}
      PROVE  Shape(query_funcs[n], IdAt[n])
  <2>1. PICK op, in, out_ : query_funcs[n] = Query(op, in, out_, Id(168, 24))
    BY DEF query_funcs, query_l2_table_entry
  <2>2. n \in DOMAIN query_funcs
    BY <1>1
  <2>3. IdAt[n] = {F(168, 24)}
    BY <2>2 DEF IdAt
  <2>4. 168 \in 64 .. 248 /\ 24 \in 1 .. 32 /\ (168 % 32) + 24 <= 32
    OBVIOUS
  <2>5. Shape(Query(op, in, out_, Id(168, 24)), {F(168, 24)})
    BY ONLY <2>4, QueryOne, ZenonT(60)
  <2> QED
    BY <2>1, <2>3, <2>5
<1>8. ASSUME NEW n \in {"issi", "vnic_env", "special_contexts", "mad_demux", "cong_statistics",
           "adapter", "wol_rol", "lag", "esw_functions"}
      PROVE  Shape(query_funcs[n], IdAt[n])
  <2>1. PICK op, in, out_ : query_funcs[n] = Query(op, in, out_, <<>>)
    BY DEF query_funcs, query_issi, query_vnic_env, query_special_contexts, query_mad_demux,
      query_cong_statistics, query_adapter, query_wol_rol, query_lag,
      query_esw_functions
  <2>2. n \in DOMAIN query_funcs
    BY <1>1
  <2>3. IdAt[n] = {}
    BY <2>2 DEF IdAt
  <2> QED
    BY <2>1, <2>3, QueryNone
<1>9. ASSUME NEW n \in {"packet_reformat_context"}
      PROVE  Shape(query_funcs[n], IdAt[n])
  <2>1. PICK op, in, out_ : query_funcs[n] = Query(op, in, out_, Id(64, 32))
    BY DEF query_funcs, query_packet_reformat_context
  <2>2. n \in DOMAIN query_funcs
    BY <1>1
  <2>3. IdAt[n] = {F(64, 32)}
    BY <2>2 DEF IdAt
  <2>4. 64 \in 64 .. 248 /\ 32 \in 1 .. 32 /\ (64 % 32) + 32 <= 32
    OBVIOUS
  <2>5. Shape(Query(op, in, out_, Id(64, 32)), {F(64, 32)})
    BY ONLY <2>4, QueryOne, Zenon
  <2> QED
    BY <2>1, <2>3, <2>5
<1>10. ASSUME NEW n \in {"cong_params"}
      PROVE  Shape(query_funcs[n], IdAt[n])
  <2>1. PICK op, in, out_ : query_funcs[n] = Query(op, in, out_, Id(92, 4))
    BY DEF query_funcs, query_cong_params
  <2>2. n \in DOMAIN query_funcs
    BY <1>1
  <2>3. IdAt[n] = {F(92, 4)}
    BY <2>2 DEF IdAt
  <2>4. 92 \in 64 .. 248 /\ 4 \in 1 .. 32 /\ (92 % 32) + 4 <= 32
    OBVIOUS
  <2>5. Shape(Query(op, in, out_, Id(92, 4)), {F(92, 4)})
    BY ONLY <2>4, QueryOne, Zenon
  <2> QED
    BY <2>1, <2>3, <2>5
<1>11. ASSUME NEW n \in {"cong_status"}
      PROVE  Shape(query_funcs[n], IdAt[n])
  <2>1. PICK op, in, out_ :
          query_funcs[n] = Query(op, in, out_, <<<<F(92, 4), 0>>, <<F(88, 4), 4>>>>)
    BY DEF query_funcs, query_cong_status
  <2>2. n \in DOMAIN query_funcs
    BY <1>1
  <2>3. IdAt[n] = {F(88, 8)}
    BY <2>2 DEF IdAt
  <2>4. query_funcs[n].opcode \subseteq 0 .. 15 /\ ~query_funcs[n].other_vport
    BY <2>1, QueryFields
  <2>5. query_funcs[n].ids = <<<<F(92, 4), 0>>, <<F(88, 4), 4>>>>
    BY <2>1, QueryFields
  <2> QED
    BY <2>3, <2>4, <2>5 DEF Shape
<1> QED
  BY <1>1, <1>2, <1>3, <1>4, <1>5, <1>6, <1>7, <1>8, <1>9, <1>10, <1>11

(* Two sequences one after the other. *)
LEMMA Joined ==
  ASSUME NEW S, NEW s \in Seq(S), NEW t \in Seq(S)
  PROVE  /\ s \o t \in Seq(S) /\ Len(s \o t) = Len(s) + Len(t)
         /\ \A i \in 1 .. Len(s) : (s \o t)[i] = s[i]
         /\ \A i \in 1 .. Len(t) : (s \o t)[Len(s) + i] = t[i]
OBVIOUS

(* Four sequences, as they lie in one. *)
Holds(s, a, b, c, d) ==
  /\ Len(s) = Len(a) + Len(b) + Len(c) + Len(d)
  /\ \A i \in 1 .. Len(a) : s[i] = a[i]
  /\ \A i \in 1 .. Len(b) : s[Len(a) + i] = b[i]
  /\ \A i \in 1 .. Len(c) : s[Len(a) + Len(b) + i] = c[i]
  /\ \A i \in 1 .. Len(d) : s[Len(a) + Len(b) + Len(c) + i] = d[i]

(* Four sequences one after the other. *)
LEMMA JoinedFour ==
  ASSUME NEW S, NEW a \in Seq(S), NEW b \in Seq(S), NEW c \in Seq(S), NEW d \in Seq(S)
  PROVE  Holds(a \o b \o c \o d, a, b, c, d)
<1> DEFINE f == a \o b
<1>1. /\ f \in Seq(S) /\ Len(f) = Len(a) + Len(b)
      /\ \A i \in 1 .. Len(a) : f[i] = a[i]
      /\ \A i \in 1 .. Len(b) : f[Len(a) + i] = b[i]
  BY Joined
<1> HIDE DEF f
<1> DEFINE g == f \o c
<1>2. /\ g \in Seq(S) /\ Len(g) = Len(f) + Len(c)
      /\ \A i \in 1 .. Len(f) : g[i] = f[i]
      /\ \A i \in 1 .. Len(c) : g[Len(f) + i] = c[i]
  <2>1. f \in Seq(S)
    BY <1>1
  <2> QED
    BY <2>1, Joined
<1> HIDE DEF g
<1> DEFINE s == g \o d
<1>3. /\ s \in Seq(S) /\ Len(s) = Len(g) + Len(d)
      /\ \A i \in 1 .. Len(g) : s[i] = g[i]
      /\ \A i \in 1 .. Len(d) : s[Len(g) + i] = d[i]
  <2>1. g \in Seq(S)
    BY <1>2
  <2> QED
    BY <2>1, Joined
<1> HIDE DEF s
<1>4. s = a \o b \o c \o d
  BY DEF s, f, g
<1>7. Len(a) \in Nat /\ Len(b) \in Nat /\ Len(c) \in Nat /\ Len(d) \in Nat
  OBVIOUS
<1>8. /\ Len(f) = Len(a) + Len(b) /\ Len(g) = Len(a) + Len(b) + Len(c)
      /\ Len(s) = Len(a) + Len(b) + Len(c) + Len(d)
  BY <1>1, <1>2, <1>3
<1>9. \A i \in 1 .. Len(a) : s[i] = a[i]
  <2>1. \A i \in 1 .. Len(a) : i \in 1 .. Len(f) /\ i \in 1 .. Len(g)
    BY <1>7, <1>8
  <2> QED
    BY <1>1, <1>2, <1>3, <2>1
<1>10. \A i \in 1 .. Len(b) : s[Len(a) + i] = b[i]
  <2>1. \A i \in 1 .. Len(b) : Len(a) + i \in 1 .. Len(f) /\ Len(a) + i \in 1 .. Len(g)
    BY <1>7, <1>8
  <2> QED
    BY <1>1, <1>2, <1>3, <2>1
<1>11. \A i \in 1 .. Len(c) : s[Len(a) + Len(b) + i] = c[i]
  <2>1. \A i \in 1 .. Len(c) : Len(f) + i \in 1 .. Len(g)
    BY <1>7, <1>8
  <2> QED
    BY <1>2, <1>3, <1>8, <2>1
<1>12. \A i \in 1 .. Len(d) : s[Len(a) + Len(b) + Len(c) + i] = d[i]
  BY <1>3, <1>8
<1> QED
  BY <1>4, <1>8, <1>9, <1>10, <1>11, <1>12, Zenon DEF Holds
(* What is set in the message of a query, one by one. *)
LEMMA ObjSets ==
  ASSUME NEW q, Len(q.ids) \in Nat, DOMAIN q.ids = 1 .. Len(q.ids)
  PROVE  LET s == obj_sets(q)
             m == Len(q.ids)
             o == IF q.other_vport THEN 1 ELSE 0
         IN  /\ Len(s) = m + o + 2
             /\ s[1] = <<opcode, q.opcode>>
             /\ \A i \in 1 .. m : s[i + 1] = <<q.ids[i][1], Shr(asked.id, q.ids[i][2])>>
             /\ q.other_vport => s[m + 2] = <<F(64, 1), {0}>>
             /\ s[m + o + 2] = <<op_mod, asked.mod>>
<1> DEFINE e(i) == <<q.ids[i][1], Shr(asked.id, q.ids[i][2])>>
           m == Len(q.ids)
           x == <<opcode, q.opcode>>
           y == <<F(64, 1), {0}>>
           z == <<op_mod, asked.mod>>
           S == {x, y, z} \cup {e(i) : i \in 1 .. m}
           b == [i \in 1 .. m |-> e(i)]
           c == IF q.other_vport THEN <<y>> ELSE <<>>
           a == <<x>>
           d == <<z>>
           s == a \o b \o c \o d
           o == IF q.other_vport THEN 1 ELSE 0
<1>1. obj_sets(q) = s
  BY DEF obj_sets
<1> HIDE DEF e, x, y, z
<1>2. m \in Nat
  OBVIOUS
<1>3. b \in Seq(S) /\ Len(b) = m /\ \A i \in 1 .. m : b[i] = e(i)
  <2>1. b \in [1 .. m -> S]
    OBVIOUS
  <2> HIDE DEF S
  <2> QED
    BY <1>2, <2>1
<1>4. c \in Seq(S) /\ Len(c) = o /\ (q.other_vport => c[1] = y)
  <2>1. CASE q.other_vport
    BY <2>1
  <2>2. CASE ~q.other_vport
    BY <2>2
  <2> QED
    BY <2>1, <2>2
<1>5. a \in Seq(S) /\ Len(a) = 1 /\ a[1] = x /\ d \in Seq(S) /\ Len(d) = 1 /\ d[1] = z
  OBVIOUS
<1> HIDE DEF S, a, b, c, d
<1>6. Holds(s, a, b, c, d)
  <2>1. a \in Seq(S) /\ b \in Seq(S) /\ c \in Seq(S) /\ d \in Seq(S)
    BY <1>3, <1>4, <1>5
  <2> QED
    BY <2>1, JoinedFour
<1> HIDE DEF s, m
<1>7. Len(s) = m + o + 2
  BY <1>2, <1>3, <1>4, <1>5, <1>6 DEF Holds
<1>8. q.other_vport => s[m + 2] = y
  <2>1. SUFFICES ASSUME q.other_vport PROVE s[m + 2] = y
    OBVIOUS
  <2>2. 1 \in 1 .. Len(c) /\ 1 + m + 1 = m + 2
    BY <1>2, <1>4, <2>1
  <2> QED
    BY <1>3, <1>4, <1>5, <1>6, <2>1, <2>2 DEF Holds
<1>9. \A i \in 1 .. m : s[i + 1] = e(i)
  <2>1. \A i \in 1 .. m : 1 + i = i + 1
    BY <1>2
  <2> QED
    BY <1>3, <1>5, <1>6, <2>1 DEF Holds
<1>10. s[1] = x /\ s[m + o + 2] = z
  <2>1. 1 + m + o + 1 = m + o + 2 /\ 1 \in 1 .. 1
    BY <1>2, <1>4
  <2> QED
    BY <1>3, <1>4, <1>5, <1>6, <2>1 DEF Holds
<1> QED
  BY <1>1, <1>7, <1>8, <1>9, <1>10 DEF e, x, y, z, m, o

(* The ids of a query: where they lie and that they leave the other fields *)
(* alone.                                                                  *)
IdsPlaced(q, at) ==
  /\ \A j \in 1 .. Len(q.ids) :
       /\ InDword(q.ids[j][1]) /\ q.ids[j][1].off + q.ids[j][1].width <= 256
       /\ 64 <= q.ids[j][1].off /\ (q.other_vport => 65 <= q.ids[j][1].off)
       /\ q.ids[j][2] \in Nat
       /\ \E g \in at : /\ g.off <= q.ids[j][1].off
                        /\ q.ids[j][1].off + q.ids[j][1].width <= g.off + g.width
                        /\ g.off \in Nat /\ g.width \in Nat
  /\ \A i, j \in 1 .. Len(q.ids) : i < j => Apart(q.ids[j][1], q.ids[i][1])

(* They do for every shape. *)
LEMMA ShapePlaces ==
  ASSUME NEW q, NEW at, Shape(q, at)
  PROVE  /\ Len(q.ids) \in Nat /\ DOMAIN q.ids = 1 .. Len(q.ids)
         /\ IdsPlaced(q, at)
<1>1. CASE q.ids = <<>> /\ at = {}
  BY <1>1 DEF IdsPlaced
<1>2. ASSUME NEW f, q.ids = <<<<f, 0>>>>, at = {f}, InDword(f), f.off + f.width <= 256,
             64 <= f.off, q.other_vport => 65 <= f.off
      PROVE  /\ Len(q.ids) \in Nat /\ DOMAIN q.ids = 1 .. Len(q.ids)
             /\ IdsPlaced(q, at)
  <2>1. Len(q.ids) = 1 /\ DOMAIN q.ids = 1 .. 1
    BY <1>2
  <2>2. q.ids[1][1] = f /\ q.ids[1][2] = 0
    BY <1>2
  <2>3. f.off \in Nat /\ f.width \in Nat
    BY <1>2 DEF InDword
  <2>4. \A j \in 1 .. 1 : j = 1
    OBVIOUS
  <2>5. ASSUME NEW j \in 1 .. 1
        PROVE  /\ InDword(q.ids[j][1]) /\ q.ids[j][1].off + q.ids[j][1].width <= 256
               /\ 64 <= q.ids[j][1].off /\ (q.other_vport => 65 <= q.ids[j][1].off)
               /\ q.ids[j][2] \in Nat
               /\ \E g \in at : /\ g.off <= q.ids[j][1].off
                                /\ q.ids[j][1].off + q.ids[j][1].width <= g.off + g.width
                                /\ g.off \in Nat /\ g.width \in Nat
    <3>1. j = 1 /\ 0 \in Nat /\ f.off <= f.off /\ f.off + f.width <= f.off + f.width
      BY <2>3
    <3> QED
      BY <1>2, <2>2, <2>3, <3>1, Zenon
  <2> QED
    BY <2>1, <2>4, <2>5 DEF IdsPlaced
<1>3. CASE q.ids = <<<<F(92, 4), 0>>, <<F(88, 4), 4>>>> /\ at = {F(88, 8)} /\ ~q.other_vport
  <2>1. Len(q.ids) = 2 /\ DOMAIN q.ids = 1 .. 2
    BY <1>3
  <2>2. q.ids[1][1] = F(92, 4) /\ q.ids[2][1] = F(88, 4) /\ q.ids[1][2] = 0 /\ q.ids[2][2] = 4
    BY <1>3
  <2>3. InDword(F(92, 4)) /\ InDword(F(88, 4)) /\ Apart(F(88, 4), F(92, 4))
    BY DEF InDword, Apart, F
  <2>4. /\ F(92, 4).off = 92 /\ F(92, 4).width = 4 /\ F(88, 4).off = 88 /\ F(88, 4).width = 4
        /\ F(88, 8).off = 88 /\ F(88, 8).width = 8
    BY DEF F
  <2>5. \A j \in 1 .. 2 : j = 1 \/ j = 2
    OBVIOUS
  <2> QED
    BY <1>3, <2>1, <2>2, <2>3, <2>4, <2>5 DEF IdsPlaced
<1> QED
  BY <1>1, <1>2, <1>3 DEF Shape

(* What is set for a query, one field after another. *)
SetForQuery(s, q) ==
  /\ Len(s) \in Nat /\ Len(s) >= Len(q.ids) + 2
  /\ \A i \in 1 .. Len(s) :
       \/ i = 1 /\ s[i] = <<opcode, q.opcode>>
       \/ \E j \in 1 .. Len(q.ids) :
            i = j + 1 /\ s[i] = <<q.ids[j][1], Shr(asked.id, q.ids[j][2])>>
       \/ q.other_vport /\ i > Len(q.ids) + 1 /\ s[i] = <<F(64, 1), {0}>>
       \/ i = Len(s) /\ s[i] = <<op_mod, asked.mod>>
  /\ \A j \in 1 .. Len(q.ids) : s[j + 1] = <<q.ids[j][1], Shr(asked.id, q.ids[j][2])>>
  /\ s[Len(s)] = <<op_mod, asked.mod>>

(* These are the fields. *)
LEMMA ObjEach ==
  ASSUME NEW q, Len(q.ids) \in Nat, DOMAIN q.ids = 1 .. Len(q.ids), NEW s, s = obj_sets(q)
  PROVE  SetForQuery(s, q)
<1> DEFINE m == Len(q.ids)
           e(j) == <<q.ids[j][1], Shr(asked.id, q.ids[j][2])>>
           x == <<opcode, q.opcode>>
           y == <<F(64, 1), {0}>>
           z == <<op_mod, asked.mod>>
           o == IF q.other_vport THEN 1 ELSE 0
<1>1. /\ Len(s) = m + o + 2
      /\ s[1] = x
      /\ \A i \in 1 .. m : s[i + 1] = e(i)
      /\ q.other_vport => s[m + 2] = y
      /\ s[m + o + 2] = z
  BY ObjSets
<1> HIDE DEF e, x, y, z
<1>2. CASE q.other_vport
  <2>1. o = 1
    BY <1>2
  <2> HIDE DEF o, m
  <2>2. m \in Nat /\ Len(s) = m + 3 /\ s[m + 3] = z /\ s[m + 2] = y
    BY <1>1, <1>2, <2>1 DEF m
  <2>3. ASSUME NEW i \in 1 .. m + 3
        PROVE  \/ i = 1 /\ s[i] = x
               \/ \E j \in 1 .. m : i = j + 1 /\ s[i] = e(j)
               \/ i > m + 1 /\ s[i] = y
               \/ i = m + 3 /\ s[i] = z
    <3>1. CASE i \in 2 .. m + 1
      <4>1. i - 1 \in 1 .. m /\ i = (i - 1) + 1
        BY <2>2, <3>1
      <4> QED
        BY <1>1, <4>1
    <3>2. CASE i = 1 \/ i = m + 2 \/ i = m + 3
      BY <1>1, <2>2, <3>2
    <3> QED
      BY <2>2, <3>1, <3>2
  <2>4. m + 3 \in Nat /\ m + 3 >= m + 2
    BY <2>2
  <2> QED
    BY <1>1, <1>2, <2>2, <2>3, <2>4 DEF SetForQuery, m, e, x, y, z
<1>3. CASE ~q.other_vport
  <2>1. o = 0
    BY <1>3
  <2> HIDE DEF o, m
  <2>2. m \in Nat /\ Len(s) = m + 2 /\ s[m + 2] = z
    BY <1>1, <2>1 DEF m
  <2>3. ASSUME NEW i \in 1 .. m + 2
        PROVE  \/ i = 1 /\ s[i] = x
               \/ \E j \in 1 .. m : i = j + 1 /\ s[i] = e(j)
               \/ i = m + 2 /\ s[i] = z
    <3>1. CASE i \in 2 .. m + 1
      <4>1. i - 1 \in 1 .. m /\ i = (i - 1) + 1
        BY <2>2, <3>1
      <4> QED
        BY <1>1, <4>1
    <3>2. CASE i = 1 \/ i = m + 2
      BY <1>1, <2>2, <3>2
    <3> QED
      BY <2>2, <3>1, <3>2
  <2>4. m + 2 \in Nat /\ m + 2 >= m + 2
    BY <2>2
  <2> QED
    BY <1>1, <2>2, <2>3, <2>4 DEF SetForQuery, m, e, x, y, z
<1> QED
  BY <1>2, <1>3

(* The message of a query carries the id and the mode given, in the fields *)
(* of the id and in op_mod, and nothing but them, opcode and other_vport.  *)
LEMMA ObjMessageCarries ==
  ASSUME NEW q, NEW at, Shape(q, at),
         asked.id \subseteq Nat, asked.mod \subseteq Nat
  PROVE  LET p == Message(obj_sets(q))
         IN  /\ p \in Dwords
             /\ OnWire(p, op_mod) = asked.mod \cap mask(op_mod)
             /\ \A j \in 1 .. Len(q.ids) :
                  OnWire(p, q.ids[j][1]) = Shr(asked.id, q.ids[j][2]) \cap mask(q.ids[j][1])
             /\ \A d \in 0 .. LastDw : \A b \in p[d] :
                  \/ \E f \in {opcode, op_mod} : 32 * d + b \in f.off .. f.off + f.width - 1
                  \/ /\ q.other_vport
                     /\ 32 * d + b \in F(64, 1).off .. F(64, 1).off + F(64, 1).width - 1
                  \/ \E j \in 1 .. Len(q.ids) :
                       LET f == q.ids[j][1]
                       IN  32 * d + b \in f.off .. f.off + f.width - 1
<1> DEFINE s == obj_sets(q)
           m == Len(q.ids)
           p == Message(s)
<1>1. Len(q.ids) \in Nat /\ DOMAIN q.ids = 1 .. Len(q.ids) /\ IdsPlaced(q, at)
  BY ShapePlaces
<1>0. s = obj_sets(q)
  OBVIOUS
<1> HIDE DEF s, p
<1>2. /\ Len(s) \in Nat /\ Len(s) >= m + 2
      /\ \A i \in 1 .. Len(s) :
           \/ i = 1 /\ s[i] = <<opcode, q.opcode>>
           \/ \E j \in 1 .. m :
                i = j + 1 /\ s[i] = <<q.ids[j][1], Shr(asked.id, q.ids[j][2])>>
           \/ q.other_vport /\ i > m + 1 /\ s[i] = <<F(64, 1), {0}>>
           \/ i = Len(s) /\ s[i] = <<op_mod, asked.mod>>
      /\ \A j \in 1 .. m : s[j + 1] = <<q.ids[j][1], Shr(asked.id, q.ids[j][2])>>
      /\ s[Len(s)] = <<op_mod, asked.mod>>
  <2>1. SetForQuery(s, q)
    BY <1>0, <1>1, ObjEach
  <2> QED
    BY <2>1 DEF SetForQuery
<1> HIDE DEF m
<1>3. Settable(<<opcode, q.opcode>>)
  <2>1. q.opcode \subseteq Nat
    BY DEF Shape
  <2> QED
    BY <2>1 DEF Settable, opcode, F, InDword
<1>4. Settable(<<op_mod, asked.mod>>)
  BY DEF Settable, op_mod, F, InDword
<1>5. Settable(<<F(64, 1), {0}>>)
  BY DEF Settable, F, InDword
<1>6. ASSUME NEW j \in 1 .. m
      PROVE  Settable(<<q.ids[j][1], Shr(asked.id, q.ids[j][2])>>)
  <2>1. /\ InDword(q.ids[j][1]) /\ q.ids[j][1].off + q.ids[j][1].width <= 256
        /\ q.ids[j][2] \in Nat
    BY <1>1 DEF IdsPlaced, m
  <2>2. Shr(asked.id, q.ids[j][2]) \subseteq Nat
    BY <2>1 DEF Shr
  <2> QED
    BY <2>1, <2>2 DEF Settable
<1>7. \A i \in 1 .. Len(s) : Settable(s[i])
  BY <1>2, <1>3, <1>4, <1>5, <1>6
<1>8. p \in Dwords
  BY <1>2, <1>7, MessageType DEF p
<1>9. OnWire(p, op_mod) = asked.mod \cap mask(op_mod)
  <2>1. Len(s) \in 1 .. Len(s) /\ Len(s) + 1 .. Len(s) = {}
    BY <1>1, <1>2 DEF m
  <2>2. \A j \in Len(s) + 1 .. Len(s) : Apart(s[j][1], s[Len(s)][1])
    BY <2>1
  <2>3. OnWire(p, s[Len(s)][1]) = s[Len(s)][2] \cap mask(s[Len(s)][1])
    BY <1>2, <1>7, <2>1, <2>2, MessageCarries DEF p
  <2>4. s[Len(s)][1] = op_mod /\ s[Len(s)][2] = asked.mod
    BY <1>2
  <2> QED
    BY <2>3, <2>4
<1>10. ASSUME NEW j \in 1 .. m
       PROVE  OnWire(p, q.ids[j][1]) = Shr(asked.id, q.ids[j][2]) \cap mask(q.ids[j][1])
  <2> DEFINE k == j + 1
             g == q.ids[j][1]
  <2>0. m \in Nat
    BY <1>1 DEF m
  <2>1. k \in 1 .. Len(s) /\ k > 1
    BY <1>2, <2>0
  <2>2. s[k][1] = g /\ s[k][2] = Shr(asked.id, q.ids[j][2])
    BY <1>2
  <2>3. ASSUME NEW i \in k + 1 .. Len(s)
        PROVE  Apart(s[i][1], g)
    <3>1. InDword(g) /\ 64 <= g.off /\ (q.other_vport => 65 <= g.off)
      BY <1>1 DEF IdsPlaced, m
    <3>2. i \in 1 .. Len(s) /\ i # 1
      BY <2>1
    <3>3. g.off \in Nat /\ g.width \in Nat
      BY <3>1 DEF InDword
    <3> HIDE DEF g
    <3>4. CASE q.other_vport /\ i > m + 1 /\ s[i] = <<F(64, 1), {0}>>
      <4>1. s[i][1] = F(64, 1)
        BY <3>4
      <4>2. 65 <= g.off
        BY <3>1, <3>4
      <4> QED
        BY <3>3, <4>1, <4>2 DEF Apart, F
    <3>5. CASE i = Len(s) /\ s[i] = <<op_mod, asked.mod>>
      <4>1. s[i][1] = op_mod
        BY <3>5
      <4> QED
        BY <3>1, <3>3, <4>1 DEF Apart, F, op_mod
    <3>6. ASSUME NEW l \in 1 .. m, i = l + 1,
                 s[i] = <<q.ids[l][1], Shr(asked.id, q.ids[l][2])>>
          PROVE  Apart(s[i][1], g)
      <4>1. j < l
        BY <2>0, <3>6
      <4>2. Apart(q.ids[l][1], q.ids[j][1])
        BY <1>1, <4>1 DEF IdsPlaced, m
      <4> QED
        BY <3>6, <4>2 DEF g
    <3> QED
      BY <1>2, <3>2, <3>4, <3>5, <3>6
  <2> HIDE DEF k, g
  <2>4. \A i \in k + 1 .. Len(s) : Apart(s[i][1], s[k][1])
    BY <2>2, <2>3
  <2>5. OnWire(p, s[k][1]) = s[k][2] \cap mask(s[k][1])
    BY <1>2, <1>7, <2>1, <2>4, MessageCarries DEF p
  <2> QED
    BY <2>2, <2>5 DEF g
<1>11. ASSUME NEW d \in 0 .. LastDw, NEW b \in p[d]
       PROVE  \/ \E f \in {opcode, op_mod} : 32 * d + b \in f.off .. f.off + f.width - 1
              \/ /\ q.other_vport
                 /\ 32 * d + b \in F(64, 1).off .. F(64, 1).off + F(64, 1).width - 1
              \/ \E j \in 1 .. m :
                   32 * d + b \in q.ids[j][1].off .. q.ids[j][1].off + q.ids[j][1].width - 1
  <2>1. PICK i \in 1 .. Len(s) :
          32 * d + b \in s[i][1].off .. s[i][1].off + s[i][1].width - 1
    BY <1>2, <1>7, MessageElsewhere DEF p
  <2> DEFINE n == 32 * d + b
  <2> HIDE DEF n
  <2>2. n \in s[i][1].off .. s[i][1].off + s[i][1].width - 1
    BY <2>1 DEF n
  <2>3. CASE i = 1 /\ s[i] = <<opcode, q.opcode>>
    <3>1. s[i][1] = opcode
      BY <2>3
    <3> QED
      BY <2>2, <3>1, Zenon DEF n
  <2>4. CASE i = Len(s) /\ s[i] = <<op_mod, asked.mod>>
    <3>1. s[i][1] = op_mod
      BY <2>4
    <3> QED
      BY <2>2, <3>1, Zenon DEF n
  <2>5. CASE q.other_vport /\ i > m + 1 /\ s[i] = <<F(64, 1), {0}>>
    <3>1. s[i][1] = F(64, 1)
      BY <2>5
    <3> QED
      BY <2>2, <2>5, <3>1, Zenon DEF n
  <2>6. ASSUME NEW j \in 1 .. m, i = j + 1,
               s[i] = <<q.ids[j][1], Shr(asked.id, q.ids[j][2])>>
        PROVE  n \in q.ids[j][1].off .. q.ids[j][1].off + q.ids[j][1].width - 1
    <3>1. s[i][1] = q.ids[j][1]
      BY <2>6
    <3> QED
      BY <2>2, <3>1, Zenon
  <2> QED
    BY <1>2, <2>3, <2>4, <2>5, <2>6, Zenon DEF n
<1> QED
  BY <1>8, <1>9, <1>10, <1>11 DEF p, s, m

(* A number shifted by nothing. *)
LEMMA ShrNothing ==
  ASSUME NEW x, x \subseteq Nat
  PROVE  Shr(x, 0) = x
<1>1. \A c \in x : c >= 0 /\ c - 0 = c
  OBVIOUS
<1>2. {c \in x : c >= 0} = x
  BY <1>1
<1> QED
  BY <1>1, <1>2 DEF Shr

(* A field of eight bits as its two halves. *)
LEMMA Halves ==
  ASSUME NEW p, NEW x, x \subseteq Nat,
         OnWire(p, F(92, 4)) = x \cap mask(F(92, 4)),
         OnWire(p, F(88, 4)) = Shr(x, 4) \cap mask(F(88, 4))
  PROVE  OnWire(p, F(88, 8)) = x \cap 0 .. 7
<1> DEFINE At(n) == n % 32 \in p[n \div 32]
<1>1. \A b \in 0 .. 3 : At(95 - b) <=> b \in x
  <2>1. OnWire(p, F(92, 4)) = {b \in 0 .. 3 : At(95 - b)}
    BY DEF OnWire, F
  <2>2. mask(F(92, 4)) = 0 .. 3
    BY DEF mask, F
  <2> HIDE DEF At
  <2> QED
    BY <2>1, <2>2
<1>2. \A b \in 0 .. 3 : At(91 - b) <=> b + 4 \in x
  <2>1. OnWire(p, F(88, 4)) = {b \in 0 .. 3 : At(91 - b)}
    BY DEF OnWire, F
  <2>2. mask(F(88, 4)) = 0 .. 3
    BY DEF mask, F
  <2>3. \A b \in 0 .. 3 : b \in Shr(x, 4) <=> b + 4 \in x
    BY DEF Shr
  <2> HIDE DEF At
  <2> QED
    BY <2>1, <2>2, <2>3
<1>3. OnWire(p, F(88, 8)) = {b \in 0 .. 7 : At(95 - b)}
  BY DEF OnWire, F
<1> HIDE DEF At
<1>4. ASSUME NEW b \in 0 .. 7
      PROVE  At(95 - b) <=> b \in x
  <2>1. CASE b \in 0 .. 3
    BY <1>1, <2>1
  <2>2. CASE b \in 4 .. 7
    <3>1. b - 4 \in 0 .. 3 /\ 91 - (b - 4) = 95 - b /\ (b - 4) + 4 = b
      BY <2>2
    <3> QED
      BY <1>2, <3>1
  <2> QED
    BY <2>1, <2>2
<1> QED
  BY <1>3, <1>4

(* The id given is in the field of the id. *)
LEMMA IdAsGiven ==
  ASSUME NEW q, NEW at, Shape(q, at), asked.id \subseteq Nat, asked.mod \subseteq Nat,
         NEW f \in at
  PROVE  OnWire(Message(obj_sets(q)), f) = asked.id \cap 0 .. f.width - 1
<1> DEFINE p == Message(obj_sets(q))
<1>1. \A j \in 1 .. Len(q.ids) :
        OnWire(p, q.ids[j][1]) = Shr(asked.id, q.ids[j][2]) \cap mask(q.ids[j][1])
  BY ObjMessageCarries
<1> SUFFICES OnWire(p, f) = asked.id \cap 0 .. f.width - 1
  OBVIOUS
<1> HIDE DEF p
<1>2. ASSUME NEW g, q.ids = <<<<g, 0>>>>, at = {g}
      PROVE  OnWire(p, f) = asked.id \cap 0 .. f.width - 1
  <2>1. f = g /\ 1 \in 1 .. Len(q.ids) /\ q.ids[1][1] = g /\ q.ids[1][2] = 0
    BY <1>2
  <2>2. Shr(asked.id, 0) = asked.id
    BY ShrNothing
  <2>3. OnWire(p, g) = asked.id \cap mask(g)
    BY <1>1, <2>1, <2>2
  <2> QED
    BY <2>1, <2>3 DEF mask
<1>3. CASE q.ids = <<<<F(92, 4), 0>>, <<F(88, 4), 4>>>> /\ at = {F(88, 8)}
  <2>1. /\ 1 \in 1 .. Len(q.ids) /\ q.ids[1][1] = F(92, 4) /\ q.ids[1][2] = 0
        /\ 2 \in 1 .. Len(q.ids) /\ q.ids[2][1] = F(88, 4) /\ q.ids[2][2] = 4
    BY <1>3
  <2>2. Shr(asked.id, 0) = asked.id
    BY ShrNothing
  <2>3. /\ OnWire(p, F(92, 4)) = asked.id \cap mask(F(92, 4))
        /\ OnWire(p, F(88, 4)) = Shr(asked.id, 4) \cap mask(F(88, 4))
    <3>1. OnWire(p, q.ids[1][1]) = Shr(asked.id, q.ids[1][2]) \cap mask(q.ids[1][1])
      BY <1>1, <2>1, Zenon
    <3>2. OnWire(p, q.ids[2][1]) = Shr(asked.id, q.ids[2][2]) \cap mask(q.ids[2][1])
      BY <1>1, <2>1, Zenon
    <3> QED
      BY <2>1, <2>2, <3>1, <3>2, Zenon
  <2>4. OnWire(p, F(88, 8)) = asked.id \cap 0 .. 7
    BY <2>3, Halves
  <2>5. f = F(88, 8) /\ F(88, 8).width = 8 /\ 8 - 1 = 7
    BY <1>3 DEF F
  <2> QED
    BY <2>4, <2>5, Zenon
<1> QED
  <2>1. \/ q.ids = <<>> /\ at = {}
        \/ \E g : q.ids = <<<<g, 0>>>> /\ at = {g}
        \/ q.ids = <<<<F(92, 4), 0>>, <<F(88, 4), 4>>>> /\ at = {F(88, 8)}
    BY Zenon DEF Shape
  <2> QED
    BY <1>2, <1>3, <2>1, Zenon

(* Nothing else is set, and nothing behind the end of the message. *)
LEMMA NothingElse ==
  ASSUME NEW n \in DOMAIN query_funcs, asked.id \subseteq Nat, asked.mod \subseteq Nat,
         NEW d \in 0 .. LastDw, NEW b \in Message(obj_sets(query_funcs[n]))[d]
  PROVE  /\ 32 * d + b < 8 * query_funcs[n].inlen
         /\ \E f \in {opcode, op_mod, F(64, 1)} \cup IdAt[n] :
              32 * d + b \in f.off .. f.off + f.width - 1
<1> DEFINE q == query_funcs[n]
           at == IdAt[n]
           x == 32 * d + b
<1>1. Shape(q, at)
  BY ObjectShapes
<1>2. IdsPlaced(q, at) /\ Len(q.ids) \in Nat /\ DOMAIN q.ids = 1 .. Len(q.ids)
  BY <1>1, ShapePlaces
<1>3. \/ \E f \in {opcode, op_mod} : x \in f.off .. f.off + f.width - 1
      \/ q.other_vport /\ x \in F(64, 1).off .. F(64, 1).off + F(64, 1).width - 1
      \/ \E j \in 1 .. Len(q.ids) :
           LET f == q.ids[j][1] IN x \in f.off .. f.off + f.width - 1
  BY <1>1, ObjMessageCarries
<1>4. q.inlen \in 16 .. 64
  BY QueriesAssumption
<1>5. q.inlen \in Nat
  BY <1>4
<1>6. \A i \in DOMAIN q.ids : q.ids[i][1].off + q.ids[i][1].width <= 8 * q.inlen
  BY QueriesAssumption
<1> SUFFICES /\ x < 8 * q.inlen
             /\ \E f \in {opcode, op_mod, F(64, 1)} \cup at : x \in f.off .. f.off + f.width - 1
  OBVIOUS
<1> HIDE DEF q, at, x
<1>7. CASE \E f \in {opcode, op_mod, F(64, 1)} : x \in f.off .. f.off + f.width - 1
  <2>1. PICK f \in {opcode, op_mod, F(64, 1)} : x \in f.off .. f.off + f.width - 1
    BY <1>7
  <2>2. f.off \in Nat /\ f.width \in Nat /\ f.off + f.width <= 65
    BY DEF opcode, op_mod, F
  <2>3. x < 8 * q.inlen
    BY <1>4, <2>1, <2>2
  <2> QED
    BY <2>1, <2>3, Zenon
<1>8. CASE \E j \in 1 .. Len(q.ids) :
             x \in q.ids[j][1].off .. q.ids[j][1].off + q.ids[j][1].width - 1
  <2>1. PICK j \in 1 .. Len(q.ids) :
          x \in q.ids[j][1].off .. q.ids[j][1].off + q.ids[j][1].width - 1
    BY <1>8
  <2> DEFINE f == q.ids[j][1]
  <2>2. InDword(f)
    BY <1>2 DEF IdsPlaced
  <2>3. f.off + f.width <= 8 * q.inlen
    BY <1>2, <1>6
  <2>4. PICK g \in at : /\ g.off <= f.off /\ f.off + f.width <= g.off + g.width
                        /\ g.off \in Nat /\ g.width \in Nat
    BY <1>2 DEF IdsPlaced
  <2>5. x \in f.off .. f.off + f.width - 1
    BY <2>1
  <2> HIDE DEF f
  <2>6. f.off \in Nat /\ f.width \in Nat
    BY <2>2 DEF InDword
  <2>7. x < 8 * q.inlen
    <3>1. x \in Int /\ x <= f.off + f.width - 1
      BY <2>5, <2>6
    <3> QED
      BY <1>5, <2>3, <2>6, <3>1, SMTT(30)
  <2>8. x \in g.off .. g.off + g.width - 1
    BY <2>4, <2>5, <2>6, SMTT(30)
  <2> QED
    BY <2>7, <2>8, Zenon
<1> QED
  BY <1>3, <1>7, <1>8, Zenon

-----------------------------------------------------------------------------
(***************************************************************************)
(* The inductive invariant.                                                *)
(***************************************************************************)
ObjMessage ==
  LET q == query_funcs[asked.name]
  IN  [dw |-> Message(obj_sets(q)), inlen |-> q.inlen, outlen |-> q.outlen]

RegMessage ==
  [dw |-> Message(access_reg),
   inlen |-> MLX5_ST_SZ_BYTES(access_register_in) + DocumentSize,
   outlen |-> MLX5_ST_SZ_BYTES(access_register_out) + DocumentSize]

CapMessage(type) ==
  [dw |-> Message(<<<<opcode, BitsOf(Opcode.hca_cap)>>, <<op_mod, opmod(type)>>>>),
   inlen |-> MLX5_ST_SZ_BYTES(query_hca_cap_in),
   outlen |-> MLX5_ST_SZ_BYTES(query_hca_cap_out)]

AskedAll == asked.cmd = "cap" /\ AllCaps

Typed ==
  /\ pc \in {"idle", "start", "cmd", "show", "end"}
  /\ ret \in {"none", "ok", "status", "ioctl"}
  /\ code \in {"none", "0", "1", "ENOMEM", "err", "crash"}
  /\ pc # "idle" => asked \in ObjArgs \cup RegArgs \cup CapArgs \cup NoArgs

Stage ==
  /\ pc = "idle" => asked = Nothing /\ sent = NoMessage /\ shown = NotShown /\ tried = {}
  /\ pc = "start" => sent = NoMessage \/ AskedAll
  /\ pc \in {"cmd", "show"} => sent # NoMessage

SentIs ==
  sent # NoMessage =>
    \/ /\ asked.cmd = "obj" /\ asked.how \in {"hex", "bin"}
       /\ asked.name \in DOMAIN query_funcs /\ sent = ObjMessage
    \/ asked.cmd = "reg" /\ asked.how \in Prints /\ sent = RegMessage
    \/ asked.cmd = "cap" /\ asked.how \in Prints /\ ~AllCaps /\ sent = CapMessage(cap_type)
    \/ /\ asked.cmd = "cap" /\ asked.how \in Prints /\ AllCaps
       /\ tried # {} /\ sent = CapMessage(caps[Latest].type)

Answered ==
  /\ out.status \in SUBSET {1}
  /\ pc = "show" /\ ret # "ioctl" => out # Blank /\ out.answers = sent.dw

Trying ==
  /\ tried \subseteq Printable
  /\ \A i \in tried, j \in Printable : j < i => j \in tried
  /\ tried # {} => AskedAll /\ sent # NoMessage

Showing ==
  /\ shown.how \in {"none"} \cup Prints
  /\ shown.how = "none" => shown = NotShown
  /\ shown.how # "none" => pc = "end" \/ (AskedAll /\ shown.how = "pretty")
  /\ \A f \in DOMAIN shown.values : shown.values[f] \subseteq 0 .. f.width - 1

IInv ==
  /\ Typed /\ Stage /\ SentIs /\ Answered /\ Trying /\ Showing
  /\ PrintedIsFresh /\ PrintsWhatTheDeviceWrote /\ DumpInside /\ EveryCapTried

(* A port was given or not. *)
PortIn(given) == given = {} \/ \E n \in SUBSET (0 .. 31) : given = {n}

(* The port that is asked for, in either case. *)
LEMMA PortGiven ==
  ASSUME PortIn(asked.port)
  PROVE  /\ port \subseteq 0 .. 31
         /\ \A n \in asked.port : port = n
         /\ asked.port = {} => port = {}
<1>1. CASE asked.port = {}
  BY <1>1 DEF port
<1>2. CASE asked.port # {}
  <2>1. PICK n \in SUBSET (0 .. 31) : asked.port = {n}
    BY <1>2 DEF PortIn
  <2>2. port \in asked.port
    BY <1>2 DEF port
  <2> QED
    BY <1>2, <2>1, <2>2
<1> QED
  BY <1>1, <1>2

(* The message of reg: what is set, one field after another. *)
LEMMA RegSets ==
  ASSUME asked.mod \subseteq 0 .. 31, port \subseteq 0 .. 31
  PROVE  /\ Len(access_reg) = 5
         /\ \A i \in 1 .. 5 : Settable(access_reg[i])
         /\ access_reg[2] = <<op_mod, {0}>>
         /\ access_reg[3] = <<F(96, 32), asked.mod>>
         /\ access_reg[4] = <<F(80, 16), get_reg_id \cap 0 .. 15>>
         /\ access_reg[5] = <<F(136, 8), port>>
<1> DEFINE x == <<opcode, BitsOf(Opcode.access_reg)>>
           y == <<op_mod, {0}>>
           z == <<F(96, 32), asked.mod>>
           u == <<F(80, 16), get_reg_id \cap 0 .. 15>>
           v == <<F(136, 8), port>>
<1>1. access_reg = <<x, y, z, u, v>>
  BY DEF access_reg
<1>2. BitsOf(Opcode.access_reg) \subseteq Nat
  BY DEF BitsOf
<1>3. Settable(x)
  BY <1>2 DEF Settable, InDword, opcode, F
<1>4. Settable(y)
  BY DEF Settable, InDword, op_mod, F
<1>5. Settable(z)
  BY DEF Settable, InDword, F
<1>6. Settable(u)
  BY DEF Settable, InDword, F
<1>7. Settable(v)
  BY DEF Settable, InDword, F
<1> HIDE DEF x, y, z, u, v
<1>8. /\ Len(access_reg) = 5 /\ access_reg[1] = x /\ access_reg[2] = y /\ access_reg[3] = z
      /\ access_reg[4] = u /\ access_reg[5] = v
  BY <1>1
<1>9. \A i \in 1 .. 5 : i = 1 \/ i = 2 \/ i = 3 \/ i = 4 \/ i = 5
  OBVIOUS
<1>10. \A i \in 1 .. 5 : Settable(access_reg[i])
  BY <1>3, <1>4, <1>5, <1>6, <1>7, <1>8, <1>9
<1> QED
  BY <1>8, <1>10 DEF y, z, u, v

(* The message of reg carries them. *)
LEMMA RegMessageCarries ==
  ASSUME asked.mod \subseteq 0 .. 31, port \subseteq 0 .. 31
  PROVE  LET p == Message(access_reg)
         IN  /\ p \in Dwords
             /\ OnWire(p, op_mod) = {0}
             /\ OnWire(p, F(96, 32)) = asked.mod
             /\ OnWire(p, F(80, 16)) = get_reg_id \cap 0 .. 15
             /\ OnWire(p, F(136, 8)) = port \cap 0 .. 7
<1> DEFINE s == access_reg
           p == Message(s)
           w == [i \in 2 .. 5 |-> s[i][1]]
<1>1. /\ Len(s) = 5 /\ Len(s) \in Nat
      /\ \A i \in 1 .. Len(s) : Settable(s[i])
      /\ s[2][1] = op_mod /\ s[3][1] = F(96, 32) /\ s[4][1] = F(80, 16) /\ s[5][1] = F(136, 8)
      /\ s[2][2] = {0} /\ s[3][2] = asked.mod /\ s[4][2] = get_reg_id \cap 0 .. 15
      /\ s[5][2] = port
  <2>1. /\ Len(s) = 5 /\ \A i \in 1 .. 5 : Settable(s[i])
        /\ s[2] = <<op_mod, {0}>> /\ s[3] = <<F(96, 32), asked.mod>>
        /\ s[4] = <<F(80, 16), get_reg_id \cap 0 .. 15>> /\ s[5] = <<F(136, 8), port>>
    BY RegSets
  <2> HIDE DEF s
  <2> QED
    BY <2>1
<1> HIDE DEF s, p
<1>2. p \in Dwords
  BY <1>1, MessageType DEF p
<1>3. \A i, j \in 2 .. 5 : i # j => Apart(s[i][1], s[j][1])
  <2>1. \A i \in 2 .. 5 : i = 2 \/ i = 3 \/ i = 4 \/ i = 5
    OBVIOUS
  <2>2. /\ op_mod.off = 48 /\ op_mod.width = 16
        /\ F(96, 32).off = 96 /\ F(96, 32).width = 32
        /\ F(80, 16).off = 80 /\ F(80, 16).width = 16
        /\ F(136, 8).off = 136 /\ F(136, 8).width = 8
    BY DEF op_mod, F
  <2> QED
    BY <1>1, <2>1, <2>2 DEF Apart
<1>4. ASSUME NEW k \in 2 .. 5
      PROVE  OnWire(p, s[k][1]) = s[k][2] \cap mask(s[k][1])
  <2>1. k \in 1 .. Len(s) /\ \A j \in k + 1 .. Len(s) : j \in 2 .. 5 /\ j # k
    BY <1>1
  <2>2. \A j \in k + 1 .. Len(s) : Apart(s[j][1], s[k][1])
    BY <1>3, <2>1
  <2> QED
    BY <1>1, <2>1, <2>2, MessageCarries DEF p
<1>5. 2 \in 2 .. 5 /\ 3 \in 2 .. 5 /\ 4 \in 2 .. 5 /\ 5 \in 2 .. 5
  OBVIOUS
<1>6. OnWire(p, op_mod) = {0}
  <2>1. {0} \cap mask(op_mod) = {0}
    BY DEF mask, op_mod, F
  <2>2. OnWire(p, s[2][1]) = s[2][2] \cap mask(s[2][1])
    BY <1>4, <1>5
  <2> QED
    BY <1>1, <2>1, <2>2
<1>7. OnWire(p, F(96, 32)) = asked.mod
  <2>1. asked.mod \cap mask(F(96, 32)) = asked.mod
    BY DEF mask, F
  <2>2. OnWire(p, s[3][1]) = s[3][2] \cap mask(s[3][1])
    BY <1>4, <1>5
  <2> QED
    BY <1>1, <2>1, <2>2
<1>8. OnWire(p, F(80, 16)) = get_reg_id \cap 0 .. 15
  <2>1. mask(F(80, 16)) = 0 .. 15
    BY DEF mask, F
  <2>2. OnWire(p, s[4][1]) = s[4][2] \cap mask(s[4][1])
    BY <1>4, <1>5
  <2> QED
    BY <1>1, <2>1, <2>2
<1>9. OnWire(p, F(136, 8)) = port \cap 0 .. 7
  <2>1. mask(F(136, 8)) = 0 .. 7
    BY DEF mask, F
  <2>2. OnWire(p, s[5][1]) = s[5][2] \cap mask(s[5][1])
    BY <1>4, <1>5
  <2> QED
    BY <1>1, <2>1, <2>2
<1> QED
  BY <1>2, <1>6, <1>7, <1>8, <1>9 DEF p, s

(* The message of cap carries the type and the mode. *)
LEMMA CapMessageCarries ==
  ASSUME NEW type, type \subseteq Int, asked.mod \subseteq 0 .. 31
  PROVE  /\ CapMessage(type).dw \in Dwords
         /\ OnWire(CapMessage(type).dw, op_mod) = opmod(type) \cap 0 .. 15
<1> DEFINE x == <<opcode, BitsOf(Opcode.hca_cap)>>
           y == <<op_mod, opmod(type)>>
           s == <<x, y>>
<1>1. BitsOf(Opcode.hca_cap) \subseteq Nat
  BY DEF BitsOf
<1>2. Settable(x)
  BY <1>1 DEF Settable, InDword, opcode, F
<1>3. Settable(y)
  <2>1. opmod(type) \subseteq Nat
    BY DEF opmod
  <2> QED
    BY <2>1 DEF Settable, InDword, op_mod, F
<1>4. CapMessage(type).dw = Message(s)
  BY DEF CapMessage
<1>5. y[1] = op_mod /\ y[2] = opmod(type)
  OBVIOUS
<1> HIDE DEF x, y
<1>6. Len(s) = 2 /\ s[1] = x /\ s[2] = y
  OBVIOUS
<1> HIDE DEF s
<1>7. \A i \in 1 .. Len(s) : Settable(s[i])
  <2>1. \A i \in 1 .. 2 : i = 1 \/ i = 2
    OBVIOUS
  <2> QED
    BY <1>2, <1>3, <1>6, <2>1
<1>8. Len(s) \in Nat /\ 2 \in 1 .. Len(s) /\ \A j \in 2 + 1 .. Len(s) : Apart(s[j][1], s[2][1])
  BY <1>6
<1>9. OnWire(Message(s), s[2][1]) = s[2][2] \cap mask(s[2][1])
  BY <1>7, <1>8, MessageCarries
<1>10. Message(s) \in Dwords
  BY <1>7, <1>8, MessageType
<1>11. mask(op_mod) = 0 .. 15
  BY DEF mask, op_mod, F
<1> QED
  BY <1>4, <1>5, <1>6, <1>9, <1>10, <1>11

(***************************************************************************)
(* The tables.                                                             *)
(***************************************************************************)

(* What may be on a command line. *)
LEMMA AskedFacts ==
  ASSUME NEW a \in ObjArgs \cup RegArgs \cup CapArgs \cup NoArgs
  PROVE  /\ a.cmd \in {"obj", "reg", "cap"} /\ a.how \in Hows
         /\ a.id \subseteq 0 .. 31 /\ a.mod \subseteq 0 .. 31 /\ PortIn(a.port)
         /\ a.cmd = "cap" => a.mod \subseteq {0}
<1>1. \A x \in Numbers \cup Modes \cup {{}} : x \subseteq 0 .. 31
  BY NumbersAssumption
<1>2. ASSUME NEW x \in Ports \cup {{}} PROVE PortIn(x)
  <2>1. x = {} \/ \E n \in Numbers : x = {n}
    BY DEF Ports
  <2>2. \A n \in Numbers : n \in SUBSET (0 .. 31)
    BY <1>1
  <2> QED
    BY <2>1, <2>2 DEF PortIn
<1>3. CASE a \in ObjArgs \cup RegArgs
  <2>1. /\ a.cmd \in {"obj", "reg"} /\ a.how \in Hows
        /\ a.id \in Numbers \cup {{}} /\ a.mod \in Modes \cup {{}} /\ a.port \in Ports \cup {{}}
    BY <1>3 DEF ObjArgs, RegArgs, Args, Hows, Prints
  <2> QED
    BY <1>1, <1>2, <2>1
<1>4. CASE a \in CapArgs
  <2>1. /\ a.cmd = "cap" /\ a.how \in Hows
        /\ a.id \in Numbers \cup {{}} /\ a.mod \in {{}, {0}} /\ a.port = {}
    BY <1>4 DEF CapArgs, Args, Hows, Prints
  <2>2. a.mod \subseteq {0}
    BY <2>1
  <2> QED
    BY <1>1, <1>2, <2>1, <2>2
<1>5. CASE a \in NoArgs
  <2>1. PICK c \in {"obj", "reg", "cap"} :
          a \in Args(c, {"", "unknown"}, {{}}, {{}}, {{}}, Hows \ Prints)
    BY <1>5 DEF NoArgs
  <2>2. a.cmd = c /\ a.id = {} /\ a.mod = {} /\ a.port = {} /\ a.how \in Hows
    BY <2>1 DEF Args
  <2> QED
    BY <1>2, <2>2
<1> QED
  BY <1>3, <1>4, <1>5

(* The table of the capabilities. *)
LEMMA CapTable ==
  /\ DOMAIN caps = 1 .. 22
  /\ \A i \in DOMAIN caps : caps[i].type \subseteq 0 .. 14
  /\ \A i, j \in DOMAIN caps : caps[i].name = caps[j].name => i = j
<1>1. DOMAIN caps = 1 .. 22
  BY DEF caps
<1>2. \A i \in 1 .. 22 : caps[i].type \subseteq 0 .. 14
  <2> DEFINE Types == {BitsOf(n) : n \in 0 .. 255}
  <2>a. \A n \in 0 .. 255 : BitsOf(n) \in Types
    OBVIOUS
  <2> HIDE DEF Types
  <2>b. \A i \in 1 .. 22 : caps[i].type \in Types
    BY <2>a DEF caps, Cap, CapPrint
  <2>1. \A i \in 1 .. 22 : \E n \in 0 .. 255 : caps[i].type = BitsOf(n)
    BY ONLY <2>b DEF Types
  <2>2. ASSUME NEW n \in 0 .. 255
        PROVE  BitsOf(n) \subseteq 0 .. 14
    <3>1. (n \div 2^15) % 2 # 1
      OBVIOUS
    <3>2. BitsOf(n) \subseteq 0 .. 15 /\ 15 \notin BitsOf(n)
      BY <3>1 DEF BitsOf
    <3> QED
      BY <3>2
  <2> QED
    BY <2>1, <2>2, ZenonT(60)
<1>3. \A i, j \in 1 .. 22 : caps[i].name = caps[j].name => i = j
  BY DEF caps, Cap, CapPrint
<1> QED
  BY <1>1, <1>2, <1>3

(***************************************************************************)
(* What is read of a reply.                                                *)
(***************************************************************************)

(* Where a bit of a 64-bit word lies. *)
LEMMA QwordPlace ==
  ASSUME NEW q \in Nat
  PROVE  /\ \A b \in 0 .. 31 : /\ (64 * q + 63 - b) \div 32 = 2 * q + 1
                               /\ (64 * q + 63 - b) % 32 = 31 - b
         /\ \A b \in 32 .. 63 : /\ (64 * q + 63 - b) \div 32 = 2 * q
                                /\ (64 * q + 63 - b) % 32 = 63 - b
<1>1. ASSUME NEW b \in 0 .. 31
      PROVE  /\ (64 * q + 63 - b) \div 32 = 2 * q + 1
             /\ (64 * q + 63 - b) % 32 = 31 - b
  <2>1. 64 * q + 63 - b = 32 * (2 * q + 1) + (31 - b) /\ 2 * q + 1 \in Nat /\ 31 - b \in 0 .. 31
    OBVIOUS
  <2> QED
    BY <2>1, BitPlace, SMTT(30)
<1>2. ASSUME NEW b \in 32 .. 63
      PROVE  /\ (64 * q + 63 - b) \div 32 = 2 * q
             /\ (64 * q + 63 - b) % 32 = 63 - b
  <2>1. 64 * q + 63 - b = 32 * (2 * q) + (63 - b) /\ 2 * q \in Nat /\ 63 - b \in 0 .. 31
    OBVIOUS
  <2> QED
    BY <2>1, BitPlace
<1> QED
  BY <1>1, <1>2

(* MLX5_GET64 reads a 64-bit field that begins at a 64-bit word. *)
THEOREM Get64ReadsTheField ==
  ASSUME NEW f, f \in [off : Nat, width : {64}], f.off % 64 = 0,
         NEW p, \A d \in {2 * qw_off(f), 2 * qw_off(f) + 1} : p[d] \subseteq 0 .. 31
  PROVE  MLX5_GET64(p, f) = OnWire(p, f)
<1> DEFINE q == f.off \div 64
           hi == p[2 * q]
           lo == p[2 * q + 1]
<1>1. q \in Nat /\ f.off = 64 * q /\ f.width = 64
  OBVIOUS
<1>2. MLX5_GET64(p, f) = {31 - b : b \in lo} \cup {63 - b : b \in hi}
  BY DEF MLX5_GET64, qw_off, be64
<1>3. hi \subseteq 0 .. 31 /\ lo \subseteq 0 .. 31
  BY DEF qw_off
<1> DEFINE in(b) == (64 * q + 63 - b) % 32 \in p[(64 * q + 63 - b) \div 32]
<1>4. OnWire(p, f) = {b \in 0 .. 63 : in(b)}
  <2>1. \A b \in 0 .. 63 : f.off + f.width - 1 - b = 64 * q + 63 - b
    BY <1>1
  <2>2. OnWire(p, f) = {b \in 0 .. f.width - 1 :
                          (f.off + f.width - 1 - b) % 32
                             \in p[(f.off + f.width - 1 - b) \div 32]}
    BY DEF OnWire
  <2>3. 0 .. f.width - 1 = 0 .. 63
    BY <1>1
  <2> HIDE DEF q
  <2> QED
    BY <2>1, <2>2, <2>3, ZenonT(60)
<1> HIDE DEF q
<1>5. \A b \in 0 .. 31 : in(b) <=> 31 - b \in lo
  BY <1>1, QwordPlace
<1>6. \A b \in 32 .. 63 : in(b) <=> 63 - b \in hi
  BY <1>1, QwordPlace
<1> HIDE DEF in, lo, hi
<1>7. \A b \in 0 .. 63 : in(b) <=> b \in {31 - c : c \in lo} \cup {63 - c : c \in hi}
  <2>1. ASSUME NEW b \in 0 .. 31
        PROVE  in(b) <=> b \in {31 - c : c \in lo} \cup {63 - c : c \in hi}
    <3>1. b \in {31 - c : c \in lo} <=> 31 - b \in lo
      BY <1>3
    <3>2. b \notin {63 - c : c \in hi}
      BY <1>3
    <3> QED
      BY <1>5, <3>1, <3>2
  <2>2. ASSUME NEW b \in 32 .. 63
        PROVE  in(b) <=> b \in {31 - c : c \in lo} \cup {63 - c : c \in hi}
    <3>1. b \in {63 - c : c \in hi} <=> 63 - b \in hi
      BY <1>3
    <3>2. b \notin {31 - c : c \in lo}
      BY <1>3
    <3> QED
      BY <1>6, <3>1, <3>2
  <2> QED
    BY <2>1, <2>2
<1>8. \A b \in {31 - c : c \in lo} \cup {63 - c : c \in hi} : b \in 0 .. 63
  BY <1>3
<1> QED
  BY <1>2, <1>4, <1>7, <1>8, SMTT(30)

(* A reply: 1024 dwords, each the set of its bits that are 1. *)
Dword == SUBSET (0 .. 31)
ReplyDws == 0 .. 1023

(* The reply is memory. *)
LEMMA ReplyType ==
  ASSUME NEW o, o.status \subseteq 0 .. 7
  PROVE  Reply(o) \in [ReplyDws -> Dword]
<1>1. ASSUME NEW d PROVE Content(o.content, d) \subseteq 0 .. 31
  BY DEF Content
<1>2. {7 - b : b \in o.status} \subseteq 0 .. 31
  OBVIOUS
<1> DEFINE at(d) == CASE o = Blank -> {}
                      [] o # Blank /\ d = 0 -> {7 - b : b \in o.status}
                      [] OTHER -> Content(o.content, d)
<1>3. ASSUME NEW d PROVE at(d) \subseteq 0 .. 31
  <2>1. at(d) = {} \/ at(d) = {7 - b : b \in o.status} \/ at(d) = Content(o.content, d)
    OBVIOUS
  <2> HIDE DEF at
  <2> QED
    BY <1>1, <1>2, <2>1
<1>4. Reply(o) = [d \in ReplyDws |-> at(d)]
  BY DEF Reply, ReplyDws
<1> HIDE DEF at
<1>5. \A d : at(d) \in Dword
  BY <1>3 DEF Dword
<1> QED
  BY <1>4, <1>5

(* A field behind the header, in the reply. *)
LEMMA OnWireBehind ==
  ASSUME NEW p, NEW f, f \in [off : Nat, width : Nat], f.off + f.width <= 32 * 1020
  PROVE  OnWire(BehindHeader(p), f) = OnWire(p, F(128 + f.off, f.width))
<1> DEFINE o == f.off
           w == f.width
<1>1. o \in Nat /\ w \in Nat /\ o + w <= 32640
  OBVIOUS
<1>2. OnWire(BehindHeader(p), f) =
        {b \in 0 .. w - 1 : (o + w - 1 - b) % 32 \in BehindHeader(p)[(o + w - 1 - b) \div 32]}
  BY DEF OnWire
<1>3. OnWire(p, F(128 + o, w)) =
        {b \in 0 .. w - 1 : (128 + o + w - 1 - b) % 32 \in p[(128 + o + w - 1 - b) \div 32]}
  BY DEF OnWire, F
<1> HIDE DEF o, w
<1>4. ASSUME NEW b \in 0 .. w - 1
      PROVE  /\ (128 + o + w - 1 - b) % 32 = (o + w - 1 - b) % 32
             /\ BehindHeader(p)[(o + w - 1 - b) \div 32] = p[(128 + o + w - 1 - b) \div 32]
  <2> DEFINE n == o + w - 1 - b
  <2>1. n \in Nat /\ n < 32640 /\ 128 + o + w - 1 - b = 128 + n
    BY <1>1
  <2> HIDE DEF n
  <2>2. (128 + n) % 32 = n % 32 /\ (128 + n) \div 32 = n \div 32 + 4 /\ n \div 32 \in 0 .. 1019
    BY <2>1
  <2>3. BehindHeader(p)[n \div 32] = p[n \div 32 + 4]
    BY <2>2 DEF BehindHeader, HeaderDw
  <2> QED
    BY <2>1, <2>2, <2>3 DEF n
<1> QED
  BY <1>2, <1>3, <1>4 DEF o, w

(* What is behind the header of a reply. *)
Behind == 0 .. 1019

(* The two dwords of a 64-bit field that lies behind the header.            *)
LEMMA WordBehind ==
  ASSUME NEW f, f.off \in Nat /\ f.off + 64 <= 32640
  PROVE  2 * qw_off(f) \in Behind /\ 2 * qw_off(f) + 1 \in Behind
<1> DEFINE n == f.off
           q == n \div 64
<1>1. n \in Nat /\ n + 64 <= 32640
  OBVIOUS
<1> HIDE DEF n
<1>2. q \in Nat /\ 64 * q <= n
  BY <1>1
<1> HIDE DEF q
<1>3. q \in 0 .. 509
  BY <1>1, <1>2
<1>4. 2 * q \in Behind /\ 2 * q + 1 \in Behind
  BY <1>3 DEF Behind
<1> QED
  BY <1>4 DEF q, n, qw_off

(* What is printed of a reply is what the device wrote behind the header.  *)
LEMMA ReadsWhatWasWritten ==
  ASSUME NEW o, o.status \subseteq 0 .. 7, NEW fields, \A f \in fields : Readable(f)
  PROVE  LET v == Values(BehindHeader(Reply(o)), fields)
         IN  /\ DOMAIN v = fields
             /\ \A f \in fields : /\ v[f] = OnWire(Reply(o), F(128 + f.off, f.width))
                                 /\ v[f] \subseteq 0 .. f.width - 1
<1> DEFINE p == Reply(o)
           r == BehindHeader(p)
           v == Values(r, fields)
<1>1. p \in [ReplyDws -> Dword]
  BY ReplyType
<1>2. r \in [Behind -> Dword]
  <2> HIDE DEF p
  <2>1. r = [d \in Behind |-> p[d + HeaderDw]]
    BY DEF BehindHeader, Behind
  <2>2. \A d \in Behind : d + HeaderDw \in ReplyDws
    BY DEF HeaderDw, ReplyDws, Behind
  <2> HIDE DEF r
  <2>3. \A d \in Behind : p[d + HeaderDw] \in Dword
    BY <1>1, <2>2
  <2> QED
    BY <2>1, <2>3
<1> HIDE DEF p
<1>3. ASSUME NEW f \in fields
      PROVE  v[f] = OnWire(p, F(128 + f.off, f.width)) /\ v[f] \subseteq 0 .. f.width - 1
  <2>1. f \in [off : Nat, width : Nat] /\ f.off + f.width <= 32640
    BY DEF Readable, InDword
  <2>2. OnWire(r, f) = OnWire(p, F(128 + f.off, f.width))
    BY <2>1, OnWireBehind
  <2>3. OnWire(r, f) \subseteq 0 .. f.width - 1
    BY DEF OnWire
  <2> HIDE DEF r
  <2>4. v[f] = IF f.width = 64 THEN MLX5_GET64(r, f) ELSE MLX5_GET(r, f)
    BY DEF Values
  <2>5. CASE InDword(f)
    <3>1. f.width # 64 /\ f.off < 32640 /\ f.off \in Nat
      BY <2>1, <2>5 DEF InDword
    <3>2. dw_off(f) \in Behind
      BY <3>1 DEF dw_off, Behind
    <3>3. r \in [Behind -> SUBSET (0 .. 31)]
      BY <1>2 DEF Dword
    <3>4. MLX5_GET(r, f) = OnWire(r, f)
      BY ONLY <2>5, <3>2, <3>3, GetReadsTheField
    <3> QED
      BY <2>2, <2>3, <2>4, <3>1, <3>4
  <2>6. CASE f \in [off : Nat, width : {64}] /\ f.off % 64 = 0
    <3>1. f.width = 64 /\ f.off \in Nat /\ f.off + 64 <= 32640
      BY <2>1, <2>6
    <3>2. 2 * qw_off(f) \in Behind /\ 2 * qw_off(f) + 1 \in Behind
      BY <3>1, WordBehind
    <3>3. \A d \in {2 * qw_off(f), 2 * qw_off(f) + 1} : r[d] \subseteq 0 .. 31
      <4>1. \A d \in Behind : r[d] \in Dword
        BY <1>2
      <4>2. r[2 * qw_off(f)] \in Dword /\ r[2 * qw_off(f) + 1] \in Dword
        BY ONLY <3>2, <4>1
      <4> QED
        BY <4>2 DEF Dword
    <3>4. MLX5_GET64(r, f) = OnWire(r, f)
      BY <2>6, <3>3, Get64ReadsTheField
    <3> QED
      BY <2>2, <2>3, <2>4, <3>1, <3>4
  <2> QED
    BY <2>5, <2>6 DEF Readable
<1>4. DOMAIN v = fields
  BY DEF Values
<1> QED
  BY <1>3, <1>4 DEF p

(***************************************************************************)
(* The invariant is kept.                                                  *)
(***************************************************************************)

(* What only the arguments say stays with them. *)
LEMMA AskedSame ==
  ASSUME asked' = asked
  PROVE  /\ cap_type' = cap_type /\ (AllCaps' <=> AllCaps) /\ (AskedAll' <=> AskedAll)
         /\ ObjMessage' = ObjMessage /\ RegMessage' = RegMessage
         /\ \A t : CapMessage(t)' = CapMessage(t)
<1>1. cap_type' = cap_type
  BY DEF cap_type
<1>2. AllCaps' <=> AllCaps
  BY <1>1 DEF AllCaps
<1>3. AskedAll' <=> AskedAll
  BY <1>2 DEF AskedAll
<1>4. ObjMessage' = ObjMessage
  BY DEF ObjMessage, obj_sets
<1>5. RegMessage' = RegMessage
  BY DEF RegMessage, access_reg, get_reg_id, port
<1>6. \A t : CapMessage(t)' = CapMessage(t)
  BY DEF CapMessage, opmod
<1> QED
  BY <1>1, <1>2, <1>3, <1>4, <1>5, <1>6

(* What a request says, if nothing of what it depends on changes. *)
LEMMA SentIsSame ==
  ASSUME SentIs, asked' = asked, sent' = sent, tried' = tried
  PROVE  SentIs'
<1>1. Latest' = Latest
  BY DEF Latest
<1>2. caps[Latest]' = caps[Latest]
  BY <1>1
<1>3. CapMessage(cap_type)' = CapMessage(cap_type)
  BY DEF CapMessage, cap_type, opmod
<1>4. CapMessage(caps[Latest].type)' = CapMessage(caps[Latest].type)
  BY <1>1 DEF CapMessage, opmod
<1> QED
  BY <1>3, <1>4, AskedSame DEF SentIs

(* What was printed, if nothing of what it depends on changes. *)
LEMMA ShownSame ==
  ASSUME PrintedIsFresh, PrintsWhatTheDeviceWrote, DumpInside,
         asked' = asked, sent' = sent, shown' = shown
  PROVE  PrintedIsFresh' /\ PrintsWhatTheDeviceWrote' /\ DumpInside'
<1>1. PrintedIsFresh'
  BY AskedSame DEF PrintedIsFresh
<1>2. PrintsWhatTheDeviceWrote'
  BY DEF PrintsWhatTheDeviceWrote
<1>3. DumpInside'
  BY DEF DumpInside
<1> QED
  BY <1>1, <1>2, <1>3

(* Nothing printed. *)
LEMMA NothingShown == NotShown.how = "none" /\ DOMAIN NotShown.values = {}
<1>1. NotShown.values = <<>>
  BY DEF NotShown
<1>2. DOMAIN <<>> = {}
  OBVIOUS
<1> QED
  BY <1>1, <1>2 DEF NotShown

(* Initially. *)
LEMMA InitKeeps == ASSUME Init PROVE IInv
<1>1. Typed /\ Stage /\ SentIs /\ Trying
  BY DEF Init, Typed, Stage, SentIs, Trying
<1>2. Answered
  BY DEF Init, Answered, Blank
<1>3. Showing
  BY NothingShown DEF Init, Showing
<1>4. PrintedIsFresh /\ PrintsWhatTheDeviceWrote /\ DumpInside
  BY DEF Init, PrintedIsFresh, PrintsWhatTheDeviceWrote, DumpInside, NotShown
<1>5. EveryCapTried
  BY DEF Init, EveryCapTried
<1> QED
  BY <1>1, <1>2, <1>3, <1>4, <1>5 DEF IInv

(* The process is gone, or a new one begins. *)
LEMMA FreshKeeps ==
  ASSUME sent' = NoMessage, shown' = NotShown, tried' = {}, out'.status \in SUBSET {1},
         ret' \in {"none", "ok", "status", "ioctl"},
         code' \in {"none", "0", "1", "ENOMEM", "err", "crash"},
         \/ pc' = "idle" /\ asked' = Nothing
         \/ pc' = "start" /\ asked' \in ObjArgs \cup RegArgs \cup CapArgs \cup NoArgs
  PROVE  IInv'
<1>1. Typed'
  BY DEF Typed
<1>2. Stage' /\ SentIs' /\ Trying'
  BY DEF Stage, SentIs, Trying
<1>3. Answered'
  BY DEF Answered
<1>4. Showing'
  BY NothingShown DEF Showing
<1>5. PrintedIsFresh' /\ PrintsWhatTheDeviceWrote' /\ DumpInside'
  BY DEF PrintedIsFresh, PrintsWhatTheDeviceWrote, DumpInside, NotShown
<1>6. EveryCapTried'
  BY DEF EveryCapTried
<1> QED
  BY <1>1, <1>2, <1>3, <1>4, <1>5, <1>6 DEF IInv

(* A command ends without printing. *)
LEMMA EndKeeps ==
  ASSUME IInv, pc # "idle", NEW c \in {"0", "1", "ENOMEM", "err", "crash"}, End(c),
         UNCHANGED <<shown, tried>>,
         (c = "0" /\ AskedAll /\ sent # NoMessage) => tried = Printable
  PROVE  IInv'
<1>1. asked' = asked /\ sent' = sent /\ out' = out /\ ret' = ret /\ pc' = "end" /\ code' = c
      /\ shown' = shown /\ tried' = tried
  BY DEF End
<1>2. Typed'
  BY <1>1 DEF IInv, Typed
<1>3. Stage'
  BY <1>1 DEF Stage
<1>4. SentIs'
  BY <1>1, SentIsSame DEF IInv
<1>5. Answered'
  BY <1>1 DEF IInv, Answered
<1>6. Trying'
  BY <1>1, AskedSame DEF IInv, Trying
<1>7. Showing'
  BY <1>1 DEF IInv, Showing
<1>8. PrintedIsFresh' /\ PrintsWhatTheDeviceWrote' /\ DumpInside'
  BY <1>1, ShownSame DEF IInv
<1>9. EveryCapTried'
  BY <1>1, AskedSame DEF EveryCapTried, AskedAll
<1> QED
  BY <1>2, <1>3, <1>4, <1>5, <1>6, <1>7, <1>8, <1>9 DEF IInv

(* The capability asked for last is the last of those asked for. *)
LEMMA LatestIs ==
  ASSUME NEW T, T \subseteq DOMAIN caps, T # {}
  PROVE  \E i \in T : \A j \in T : j <= i
<1> DEFINE D == {23 - i : i \in T}
<1>1. T \subseteq 1 .. 22
  BY CapTable
<1>2. D \in SUBSET Nat /\ D # {}
  BY <1>1
<1>3. PICK x \in D : \A y \in D : x <= y
  <2> HIDE DEF D
  <2> QED
    BY <1>2, Least
<1>4. PICK i \in T : x = 23 - i
  OBVIOUS
<1>5. ASSUME NEW j \in T PROVE j <= i
  <2>1. 23 - j \in D
    OBVIOUS
  <2>2. x <= 23 - j
    BY <1>3, <2>1
  <2> QED
    BY <1>1, <1>4, <2>2
<1> QED
  BY <1>5

(* The type asked for. *)
LEMMA CapTypes ==
  ASSUME asked.id \subseteq 0 .. 31
  PROVE  cap_type \subseteq 0 .. 31
<1>1. CASE \E i \in DOMAIN caps : caps[i].name = asked.name
  <2>1. (CHOOSE i \in DOMAIN caps : caps[i].name = asked.name) \in DOMAIN caps
    BY <1>1
  <2>2. \A i \in DOMAIN caps : caps[i].type \subseteq 0 .. 31
    BY CapTable
  <2> QED
    BY <1>1, <2>1, <2>2 DEF cap_type
<1>2. CASE ~ \E i \in DOMAIN caps : caps[i].name = asked.name
  BY <1>2 DEF cap_type
<1> QED
  BY <1>1, <1>2

(* A message that was sent has its eight dwords. *)
LEMMA SentType ==
  ASSUME Typed, Stage, SentIs, Trying, sent # NoMessage
  PROVE  /\ sent.dw \in Dwords
         /\ asked.id \subseteq 0 .. 31 /\ asked.mod \subseteq 0 .. 31
         /\ PortIn(asked.port)
         /\ asked.cmd = "cap" => asked.mod \subseteq {0}
<1>1. pc # "idle"
  BY DEF Stage
<1>2. /\ asked.id \subseteq 0 .. 31 /\ asked.mod \subseteq 0 .. 31
      /\ PortIn(asked.port)
      /\ asked.cmd = "cap" => asked.mod \subseteq {0}
  BY <1>1, AskedFacts DEF Typed
<1>3. CASE asked.name \in DOMAIN query_funcs /\ sent = ObjMessage
  <2> DEFINE q == query_funcs[asked.name]
             at == IdAt[asked.name]
  <2>1. sent.dw = Message(obj_sets(q))
    BY <1>3 DEF ObjMessage
  <2>2. Shape(q, at)
    BY <1>3, ObjectShapes
  <2> HIDE DEF q, at
  <2>3. asked.id \subseteq Nat /\ asked.mod \subseteq Nat
    BY <1>2
  <2>4. Message(obj_sets(q)) \in Dwords
    BY <2>2, <2>3, ObjMessageCarries
  <2> QED
    BY <1>2, <2>1, <2>4
<1>4. CASE sent = RegMessage
  <2>1. sent.dw = Message(access_reg)
    BY <1>4 DEF RegMessage
  <2>2. Message(access_reg) \in Dwords
    BY <1>2, PortGiven, RegMessageCarries
  <2> QED
    BY <1>2, <2>1, <2>2
<1>5. CASE sent = CapMessage(cap_type)
  <2>1. cap_type \subseteq Int
    BY <1>2, CapTypes
  <2> QED
    BY <1>2, <1>5, <2>1, CapMessageCarries
<1>6. CASE tried # {} /\ sent = CapMessage(caps[Latest].type)
  <2>1. tried \subseteq DOMAIN caps
    BY DEF Trying, Printable
  <2>2. Latest \in tried
    BY <1>6, <2>1, LatestIs DEF Latest
  <2>3. caps[Latest].type \subseteq Int
    BY <2>1, <2>2, CapTable
  <2> QED
    BY <1>2, <1>6, <2>3, CapMessageCarries
<1> QED
  BY <1>3, <1>4, <1>5, <1>6 DEF SentIs

(* The kernel fails the call. *)
LEMMA IoctlFailsKeeps == ASSUME IInv, IoctlFails PROVE IInv'
<1>1. /\ pc = "cmd" /\ pc' = "show" /\ ret' = "ioctl" /\ asked' = asked /\ sent' = sent
      /\ out' = out /\ shown' = shown /\ tried' = tried /\ code' = code
  BY DEF IoctlFails
<1>2. Typed'
  BY <1>1 DEF IInv, Typed
<1>3. Stage'
  BY <1>1 DEF IInv, Stage
<1>4. SentIs'
  BY <1>1, SentIsSame DEF IInv
<1>5. Answered'
  BY <1>1 DEF IInv, Answered
<1>6. Trying'
  BY <1>1, AskedSame DEF IInv, Trying
<1>7. Showing'
  BY <1>1, AskedSame DEF IInv, Showing
<1>8. PrintedIsFresh' /\ PrintsWhatTheDeviceWrote' /\ DumpInside'
  BY <1>1, ShownSame DEF IInv
<1>9. EveryCapTried'
  BY <1>1 DEF EveryCapTried
<1> QED
  BY <1>2, <1>3, <1>4, <1>5, <1>6, <1>7, <1>8, <1>9 DEF IInv

(* The device answers. *)
LEMMA AnswerKeeps ==
  ASSUME IInv, NEW k, NEW s \in {{}, {1}}, Answer(k, s) PROVE IInv'
<1>1. /\ pc = "cmd" /\ pc' = "show" /\ asked' = asked /\ sent' = sent
      /\ out' = [status |-> s, content |-> k, answers |-> sent.dw]
      /\ shown' = shown /\ tried' = tried /\ code' = code
  BY DEF Answer
<1>0. ret' \in {"ok", "status"}
  BY DEF Answer
<1>2. Typed'
  BY <1>0, <1>1 DEF IInv, Typed
<1>3. Stage'
  BY <1>1 DEF IInv, Stage
<1>4. SentIs'
  BY <1>1, SentIsSame DEF IInv
<1>5. Answered'
  <2>1. sent # NoMessage
    BY <1>1 DEF IInv, Stage
  <2>2. sent.dw \in Dwords
    BY <2>1, SentType DEF IInv
  <2>3. sent.dw # <<>>
    <3>1. DOMAIN sent.dw = 0 .. LastDw /\ 0 \in 0 .. LastDw
      BY <2>2 DEF Dwords, LastDw
    <3>2. DOMAIN <<>> = {}
      OBVIOUS
    <3> QED
      BY <3>1, <3>2, Zenon
  <2>4. out'.answers = sent.dw /\ out'.status = s
    BY <1>1
  <2>5. Blank.answers = <<>>
    BY DEF Blank
  <2>6. out' # Blank
    BY <2>3, <2>4, <2>5
  <2> QED
    BY <1>1, <2>4, <2>6 DEF Answered
<1>6. Trying'
  BY <1>1, AskedSame DEF IInv, Trying
<1>7. Showing'
  BY <1>1, AskedSame DEF IInv, Showing
<1>8. PrintedIsFresh' /\ PrintsWhatTheDeviceWrote' /\ DumpInside'
  BY <1>1, ShownSame DEF IInv
<1>9. EveryCapTried'
  BY <1>1 DEF EveryCapTried
<1> QED
  BY <1>2, <1>3, <1>4, <1>5, <1>6, <1>7, <1>8, <1>9 DEF IInv

(* A message is sent. *)
LEMMA SendKeeps ==
  ASSUME IInv, pc = "start", NEW sets, NEW inlen, inlen > 0, NEW outlen,
         Send(sets, inlen, outlen), SentIs', Trying'
  PROVE  IInv'
<1>1. /\ pc' = "cmd" /\ asked' = asked /\ out' = out /\ ret' = ret /\ shown' = shown
      /\ code' = code /\ sent' = [dw |-> Message(sets), inlen |-> inlen, outlen |-> outlen]
  BY DEF Send
<1>2. Typed'
  BY <1>1 DEF IInv, Typed
<1>3. Stage'
  <2>1. sent'.inlen # NoMessage.inlen
    BY <1>1 DEF NoMessage
  <2>2. sent' # NoMessage
    BY <2>1
  <2> QED
    BY <1>1, <2>2 DEF Stage
<1>4. Answered'
  BY <1>1 DEF IInv, Answered
<1>5. shown.how # "none" => AskedAll /\ shown.how = "pretty"
  BY DEF IInv, Showing
<1>6. Showing'
  BY <1>1, <1>5, AskedSame DEF IInv, Showing
<1>7. PrintedIsFresh'
  <2>1. shown.how # "none" => AskedAll'
    BY <1>1, <1>5, AskedSame
  <2>2. shown.how # "none" =>
          /\ shown.from # Blank
          /\ \A i \in DOMAIN caps :
               (asked.cmd = "cap" /\ shown.of = caps[i].name) =>
                  OnWire(shown.from.answers, op_mod) = {b + 1 : b \in caps[i].type} \cup asked.mod
    BY DEF IInv, PrintedIsFresh
  <2> QED
    BY <1>1, <2>1, <2>2 DEF PrintedIsFresh, AskedAll
<1>8. PrintsWhatTheDeviceWrote'
  BY <1>1 DEF IInv, PrintsWhatTheDeviceWrote
<1>9. DumpInside'
  BY <1>1, <1>5 DEF Prints, IInv, Showing, DumpInside
<1>10. EveryCapTried'
  BY <1>1 DEF EveryCapTried
<1> QED
  BY <1>2, <1>3, <1>4, <1>6, <1>7, <1>8, <1>9, <1>10 DEF IInv

(* An answer is printed. *)
LEMMA ShowKeeps ==
  ASSUME IInv, pc = "show", ret # "ioctl",
         asked' = asked, sent' = sent, out' = out, ret' = ret, tried' = tried,
         \/ pc' = "end" /\ code' = "0" /\ ~AskedAll
         \/ pc' = "start" /\ code' = code /\ AskedAll /\ shown'.how = "pretty",
         shown'.how \in Prints, shown'.from = out,
         \A f \in DOMAIN shown'.values : shown'.values[f] \subseteq 0 .. f.width - 1,
         \A i \in DOMAIN caps :
           (asked.cmd = "cap" /\ shown'.of = caps[i].name) =>
              OnWire(sent.dw, op_mod) = {b + 1 : b \in caps[i].type} \cup asked.mod,
         PrintsWhatTheDeviceWrote', DumpInside'
  PROVE  IInv'
<1>1. Typed'
  BY DEF IInv, Typed
<1>2. Stage'
  BY AskedSame DEF IInv, Stage
<1>3. SentIs'
  BY SentIsSame DEF IInv
<1>4. Answered'
  BY DEF IInv, Answered
<1>5. Trying'
  BY AskedSame DEF IInv, Trying
<1>6. Showing'
  BY AskedSame DEF Showing, Prints
<1>7. PrintedIsFresh'
  <2>1. out # Blank /\ out.answers = sent.dw
    BY DEF IInv, Answered
  <2> QED
    BY <2>1 DEF PrintedIsFresh
<1>8. EveryCapTried'
  BY AskedSame DEF EveryCapTried, AskedAll
<1> QED
  BY <1>1, <1>2, <1>3, <1>4, <1>5, <1>6, <1>7, <1>8 DEF IInv

(* A command line is given. *)
LEMMA StartKeeps ==
  ASSUME IInv, NEW a \in ObjArgs \cup RegArgs \cup CapArgs \cup NoArgs, Start(a)
  PROVE  IInv'
<1>1. /\ pc = "idle" /\ pc' = "start" /\ asked' = a /\ sent' = sent /\ out' = out
      /\ ret' = ret /\ shown' = shown /\ tried' = tried /\ code' = code
  BY DEF Start
<1>2. sent = NoMessage /\ shown = NotShown /\ tried = {}
  BY <1>1 DEF IInv, Stage
<1>3. ret \in {"none", "ok", "status", "ioctl"}
      /\ code \in {"none", "0", "1", "ENOMEM", "err", "crash"}
  BY DEF IInv, Typed
<1>4. out.status \in SUBSET {1}
  BY DEF IInv, Answered
<1> QED
  BY <1>1, <1>2, <1>3, <1>4, FreshKeeps

(* The process is gone. *)
LEMMA ExitKeeps == ASSUME IInv, Exit PROVE IInv'
<1>1. /\ sent' = NoMessage /\ shown' = NotShown /\ tried' = {} /\ out'.status \in SUBSET {1}
      /\ ret' = "none" /\ code' = "none" /\ pc' = "idle" /\ asked' = Nothing
  BY DEF Exit, Blank
<1> QED
  BY <1>1, FreshKeeps

(* Refused before anything is sent. *)
LEMMA RefuseKeeps == ASSUME IInv, Refuse PROVE IInv'
<1>1. pc = "start" /\ sent = NoMessage /\ UNCHANGED <<shown, tried>>
  BY DEF Refuse
<1>2. asked.how \in Hows /\ asked.cmd \in {"obj", "reg", "cap"}
  BY <1>1, AskedFacts DEF IInv, Typed
<1> DEFINE C == {"0", "1", "ENOMEM", "err", "crash"}
<1>3. ObjRefusals \subseteq C
  BY <1>2 DEF ObjRefusals, Hows, Prints
<1>4. RegRefusals \subseteq C
  BY <1>2 DEF RegRefusals, Hows, Prints
<1>5. CapRefusals \subseteq C
  BY <1>2 DEF CapRefusals, Hows, Prints
<1>6. PICK c \in C : End(c)
  <2>1. CASE asked.cmd = "obj"
    BY <1>3, <2>1 DEF Refuse
  <2>2. CASE asked.cmd = "reg"
    BY <1>4, <2>2 DEF Refuse
  <2>3. CASE asked.cmd = "cap"
    BY <1>5, <2>3 DEF Refuse
  <2> QED
    BY <1>2, <2>1, <2>2, <2>3
<1> QED
  BY <1>1, <1>6, EndKeeps

(* Failures, and the end of all capabilities. *)
LEMMA FailKeeps ==
  ASSUME IInv, ObjFails \/ RegFails \/ CapFails \/ AllDone PROVE IInv'
<1>1. CASE ObjFails
  <2>1. pc # "idle" /\ End("1") /\ UNCHANGED <<shown, tried>> /\ "1" # "0"
    BY <1>1 DEF ObjFails
  <2> QED
    BY <2>1, EndKeeps
<1>2. CASE RegFails
  <2>1. pc # "idle" /\ End("err") /\ UNCHANGED <<shown, tried>> /\ "err" # "0"
    BY <1>2 DEF RegFails
  <2> QED
    BY <2>1, EndKeeps
<1>3. CASE CapFails
  <2>1. pc # "idle" /\ End("1") /\ UNCHANGED <<shown, tried>> /\ "1" # "0"
    BY <1>3 DEF CapFails
  <2> QED
    BY <2>1, EndKeeps
<1>4. CASE AllDone
  <2>1. pc # "idle" /\ End("0") /\ UNCHANGED <<shown, tried>>
    BY <1>4 DEF AllDone
  <2>2. tried = Printable
    BY <1>4 DEF AllDone, Untried, IInv, Trying
  <2> QED
    BY <2>1, <2>2, EndKeeps
<1> QED
  BY <1>1, <1>2, <1>3, <1>4

(* A capability that failed is passed over. *)
LEMMA AllSkipKeeps == ASSUME IInv, AllSkip PROVE IInv'
<1>1. /\ pc = "show" /\ pc' = "start" /\ asked' = asked /\ sent' = sent /\ out' = out
      /\ ret' = ret /\ shown' = shown /\ tried' = tried /\ code' = code
      /\ asked.cmd = "cap" /\ AllCaps
  BY DEF AllSkip
<1>2. AskedAll /\ AskedAll'
  BY <1>1, AskedSame DEF AskedAll
<1>3. Typed' /\ Stage' /\ Answered'
  BY <1>1, <1>2 DEF IInv, Typed, Stage, Answered
<1>4. SentIs'
  BY <1>1, SentIsSame DEF IInv
<1>5. Trying'
  BY <1>1, <1>2, AskedSame DEF IInv, Trying
<1>6. Showing'
  BY <1>1, <1>2, AskedSame DEF IInv, Showing
<1>7. PrintedIsFresh' /\ PrintsWhatTheDeviceWrote' /\ DumpInside'
  BY <1>1, ShownSame DEF IInv
<1>8. EveryCapTried'
  BY <1>1 DEF EveryCapTried
<1> QED
  BY <1>3, <1>4, <1>5, <1>6, <1>7, <1>8 DEF IInv

(* obj sends. *)
LEMMA ObjSendKeeps == ASSUME IInv, ObjSend PROVE IInv'
<1> DEFINE q == query_funcs[asked.name]
<1>1. /\ pc = "start" /\ asked.cmd = "obj" /\ asked.how \in {"hex", "bin"}
      /\ asked.name \in DOMAIN query_funcs
      /\ Send(obj_sets(q), q.inlen, q.outlen) /\ tried' = tried
  BY DEF ObjSend
<1>2. asked' = asked /\ sent' = ObjMessage
  BY <1>1 DEF Send, ObjMessage
<1>3. SentIs'
  BY <1>1, <1>2, AskedSame DEF SentIs
<1>4. tried = {}
  BY <1>1 DEF IInv, Trying, AskedAll
<1>5. Trying'
  BY <1>1, <1>4 DEF Trying
<1>6. q.inlen \in 16 .. 64
  BY <1>1, QueriesAssumption
<1> HIDE DEF q
<1>7. q.inlen > 0
  BY <1>6
<1> QED
  BY <1>1, <1>3, <1>5, <1>7, SendKeeps

(* reg sends. *)
LEMMA RegSendKeeps == ASSUME IInv, RegSend PROVE IInv'
<1> DEFINE inlen == MLX5_ST_SZ_BYTES(access_register_in) + DocumentSize
           outlen == MLX5_ST_SZ_BYTES(access_register_out) + DocumentSize
<1>1. /\ pc = "start" /\ asked.cmd = "reg" /\ asked.how \in Prints
      /\ Send(access_reg, inlen, outlen) /\ tried' = tried
  BY DEF RegSend
<1>2. asked' = asked /\ sent' = RegMessage
  BY <1>1 DEF Send, RegMessage
<1>3. SentIs'
  BY <1>1, <1>2, AskedSame DEF SentIs
<1>4. tried = {}
  BY <1>1 DEF IInv, Trying, AskedAll
<1>5. Trying'
  BY <1>1, <1>4 DEF Trying
<1>6. inlen > 0
  BY RegsAssumption
<1> HIDE DEF inlen, outlen
<1> QED
  BY <1>1, <1>3, <1>5, <1>6, SendKeeps

(* cap sends for one capability. *)
LEMMA CapSendKeeps == ASSUME IInv, CapSend PROVE IInv'
<1> DEFINE inlen == MLX5_ST_SZ_BYTES(query_hca_cap_in)
           outlen == MLX5_ST_SZ_BYTES(query_hca_cap_out)
           sets == <<<<opcode, BitsOf(Opcode.hca_cap)>>, <<op_mod, opmod(cap_type)>>>>
<1>1. /\ pc = "start" /\ asked.cmd = "cap" /\ asked.how \in Prints /\ ~AllCaps
      /\ Send(sets, inlen, outlen) /\ tried' = tried
  BY DEF CapSend, query_caps
<1>2. asked' = asked /\ sent' = CapMessage(cap_type)
  BY <1>1 DEF Send, CapMessage
<1>3. SentIs'
  <2>1. CapMessage(cap_type)' = CapMessage(cap_type)
    BY <1>2 DEF CapMessage, cap_type, opmod
  <2> QED
    BY <1>1, <1>2, <2>1, AskedSame DEF SentIs
<1>4. tried = {}
  BY <1>1 DEF IInv, Trying, AskedAll
<1>5. Trying'
  BY <1>1, <1>4 DEF Trying
<1>6. inlen > 0
  BY CapsAssumption
<1> HIDE DEF inlen, outlen, sets
<1> QED
  BY <1>1, <1>3, <1>5, <1>6, SendKeeps

(* cap sends for the next of all capabilities. *)
LEMMA AllSendKeeps == ASSUME IInv, AllSend PROVE IInv'
<1> DEFINE type == caps[Next_cap].type
           inlen == MLX5_ST_SZ_BYTES(query_hca_cap_in)
           outlen == MLX5_ST_SZ_BYTES(query_hca_cap_out)
           sets == <<<<opcode, BitsOf(Opcode.hca_cap)>>, <<op_mod, opmod(type)>>>>
<1>1. /\ pc = "start" /\ asked.cmd = "cap" /\ asked.how \in Prints /\ AllCaps
      /\ Untried # {}
      /\ Send(sets, inlen, outlen) /\ tried' = tried \cup {Next_cap}
  BY DEF AllSend, query_caps
<1>2. Untried \in SUBSET Nat /\ Untried \subseteq Printable
  BY CapTable DEF Untried, Printable
<1>3. Next_cap \in Untried /\ \A j \in Untried : Next_cap <= j
  BY <1>1, <1>2, Least DEF Next_cap
<1>4. tried \subseteq Printable /\ \A i \in tried, j \in Printable : j < i => j \in tried
  BY DEF IInv, Trying
<1>5. Printable \subseteq Nat
  BY CapTable DEF Printable
<1>6. \A j \in tried : j < Next_cap
  <2>1. SUFFICES ASSUME NEW j \in tried, ~(j < Next_cap) PROVE FALSE
    OBVIOUS
  <2>2. j \in Nat /\ Next_cap \in Nat /\ Next_cap \in Printable /\ Next_cap \notin tried
    BY <1>3, <1>4, <1>5 DEF Untried
  <2>3. Next_cap < j
    BY <2>1, <2>2
  <2> QED
    BY <1>4, <2>2, <2>3
<1>7. Latest' = Next_cap
  <2> DEFINE T == tried \cup {Next_cap}
             n == Next_cap
  <2>1. Latest' = CHOOSE i \in T : \A j \in T : j <= i
    BY <1>1 DEF Latest
  <2>2. n \in Nat /\ T \subseteq Nat /\ n \in T /\ \A j \in T : j <= n
    BY <1>3, <1>4, <1>5, <1>6 DEF Untried
  <2> HIDE DEF T, n
  <2>3. \A i \in T : (\A j \in T : j <= i) => i = n
    BY <2>2
  <2>4. (CHOOSE i \in T : \A j \in T : j <= i) = n
    BY <2>2, <2>3
  <2> QED
    BY <2>1, <2>4 DEF n
<1>8. asked' = asked /\ sent' = CapMessage(type)
  BY <1>1 DEF Send, CapMessage
<1>9. CapMessage(caps[Latest].type)' = CapMessage(type)
  BY <1>7, <1>8 DEF CapMessage, opmod
<1>10. SentIs'
  BY <1>1, <1>8, <1>9, AskedSame DEF SentIs
<1>11. inlen > 0
  BY CapsAssumption
<1>12. sent' # NoMessage
  <2>1. sent'.inlen # NoMessage.inlen
    BY <1>8, <1>11 DEF NoMessage, CapMessage
  <2> QED
    BY <2>1
<1>13. AskedAll'
  BY <1>1, <1>8, AskedSame DEF AskedAll
<1>14. Trying'
  <2>1. tried' \subseteq Printable
    BY <1>1, <1>2, <1>3, <1>4
  <2>2. ASSUME NEW i \in tried', NEW j \in Printable, j < i PROVE j \in tried'
    <3>1. CASE i \in tried
      BY <1>1, <1>4, <2>2, <3>1
    <3>2. CASE i = Next_cap
      <4>1. j \in tried
        <5>1. SUFFICES ASSUME j \notin tried PROVE FALSE
          OBVIOUS
        <5>2. j \in Untried
          BY <5>1 DEF Untried
        <5>3. Next_cap <= j /\ j < Next_cap /\ j \in Nat /\ Next_cap \in Nat
          BY <1>2, <1>3, <1>5, <2>2, <3>2, <5>2
        <5> QED
          BY <5>3
      <4> QED
        BY <1>1, <4>1
    <3> QED
      BY <1>1, <3>1, <3>2
  <2> QED
    BY <1>12, <1>13, <2>1, <2>2 DEF Trying
<1> HIDE DEF inlen, outlen, sets
<1> QED
  BY <1>1, <1>10, <1>11, <1>14, SendKeeps

(* How much of a register is printed. *)
LEMMA RegSize ==
  /\ get_reg_size \in 1 .. DocumentSize
  /\ asked.name \in DOMAIN regs => get_reg_size = regs[asked.name].size
<1>1. \A n \in DOMAIN regs : regs[n].size \in 1 .. DocumentSize
  BY RegsAssumption
<1>2. DocumentSize \in 1 .. DocumentSize
  <2>1. "PTYS" \in DOMAIN regs
    BY DEF regs, struct_regs
  <2>2. DocumentSize \in Nat
    BY RegsAssumption
  <2> QED
    BY <1>1, <2>1, <2>2
<1>3. get_reg_size \in 1 .. DocumentSize
  <2>1. CASE RegEntry = {}
    BY <1>2, <2>1 DEF get_reg_size
  <2>2. CASE RegEntry # {}
    <3>1. (CHOOSE n \in RegEntry : TRUE) \in RegEntry
      BY <2>2
    <3>2. (CHOOSE n \in RegEntry : TRUE) \in DOMAIN regs
      BY <3>1 DEF RegEntry
    <3> QED
      BY <1>1, <2>2, <3>2 DEF get_reg_size
  <2> QED
    BY <2>1, <2>2
<1>4. ASSUME asked.name \in DOMAIN regs PROVE get_reg_size = regs[asked.name].size
  <2>1. get_reg_id = regs[asked.name].reg_id
    BY <1>4, RegsAssumption DEF get_reg_id
  <2>2. \A m \in DOMAIN regs : regs[m].reg_id = regs[asked.name].reg_id => m = asked.name
    BY <1>4, RegsAssumption
  <2>3. RegEntry = {asked.name}
    BY <1>4, <2>1, <2>2 DEF RegEntry
  <2>4. (CHOOSE n \in RegEntry : TRUE) = asked.name
    BY <2>3
  <2> QED
    BY <2>3, <2>4 DEF get_reg_size
<1> QED
  BY <1>3, <1>4

(* What op_mod says of a capability. *)
LEMMA OpmodIs ==
  ASSUME NEW type, type \subseteq 0 .. 14, asked.mod \subseteq {0}
  PROVE  opmod(type) \cap 0 .. 15 = {b + 1 : b \in type} \cup asked.mod
<1>1. type \cap 0 .. 14 = type
  OBVIOUS
<1>2. {b + 1 : b \in type} \subseteq 0 .. 15 /\ asked.mod \subseteq 0 .. 15
  OBVIOUS
<1> QED
  BY <1>1, <1>2 DEF opmod

(* What was sent, where the reply is at hand. *)
LEMMA AtShow ==
  ASSUME IInv, pc = "show"
  PROVE  /\ sent # NoMessage
         /\ asked.cmd = "obj" =>
              /\ asked.how \in {"hex", "bin"} /\ asked.name \in DOMAIN query_funcs
              /\ sent = ObjMessage
         /\ asked.cmd = "reg" => asked.how \in Prints /\ sent = RegMessage
         /\ (asked.cmd = "cap" /\ ~AllCaps) => asked.how \in Prints /\ sent = CapMessage(cap_type)
         /\ (asked.cmd = "cap" /\ AllCaps) => tried # {} /\ sent = CapMessage(caps[Latest].type)
<1>1. sent # NoMessage
  BY DEF IInv, Stage
<1>2. SentIs
  BY DEF IInv
<1> QED
  BY <1>1, <1>2 DEF SentIs

(* obj prints. *)
LEMMA ObjShowKeeps == ASSUME IInv, ObjShow PROVE IInv'
<1>1. /\ pc = "show" /\ asked.cmd = "obj" /\ ret # "ioctl"
      /\ asked' = asked /\ sent' = sent /\ out' = out /\ ret' = ret /\ tried' = tried
      /\ pc' = "end" /\ code' = "0"
      /\ shown' = [of |-> asked.name, how |-> asked.how, bytes |-> sent.outlen,
                   values |-> <<>>, from |-> out]
  BY DEF ObjShow, End
<1>2. /\ asked.how \in {"hex", "bin"} /\ asked.name \in DOMAIN query_funcs
      /\ sent = ObjMessage
  BY <1>1, AtShow
<1>3. /\ shown'.how = asked.how /\ shown'.values = <<>> /\ shown'.from = out
      /\ shown'.bytes = sent.outlen
  BY <1>1
<1>4. sent.outlen > 0
  <2>1. sent.outlen = query_funcs[asked.name].outlen
    BY <1>2 DEF ObjMessage
  <2>2. query_funcs[asked.name].outlen \in Nat \ {0}
    BY <1>2, QueriesAssumption
  <2> QED
    BY <2>1, <2>2
<1>5. sent.outlen \in Int
  BY <1>2, QueriesAssumption DEF ObjMessage
<1>6. DumpInside'
  <2>1. asked.cmd # "reg"
    BY <1>1
  <2>2. shown'.bytes > 0 /\ shown'.bytes + 0 <= sent'.outlen
    BY <1>1, <1>3, <1>4, <1>5
  <2> QED
    BY <1>1, <2>1, <2>2 DEF DumpInside
<1>7. shown'.how # "pretty" /\ shown'.how \in Prints
  BY <1>2, <1>3 DEF Prints
<1>8. PrintsWhatTheDeviceWrote'
  BY <1>7 DEF PrintsWhatTheDeviceWrote
<1>9. \A f \in DOMAIN shown'.values : shown'.values[f] \subseteq 0 .. f.width - 1
  <2>1. DOMAIN <<>> = {}
    OBVIOUS
  <2> QED
    BY <1>3, <2>1
<1>10. ~AskedAll /\ asked.cmd # "cap"
  BY <1>1 DEF AskedAll
<1> QED
  BY <1>1, <1>3, <1>6, <1>7, <1>8, <1>9, <1>10, ShowKeeps

(* A dump, as a record. *)
LEMMA DumpShown ==
  ASSUME NEW of, NEW how, how \in {"hex", "bin"}, NEW bytes,
         shown' = [of |-> of, how |-> how, bytes |-> bytes, from |-> out, values |-> <<>>]
  PROVE  /\ shown'.of = of /\ shown'.how = how /\ shown'.bytes = bytes /\ shown'.from = out
         /\ shown'.how \in Prints
         /\ PrintsWhatTheDeviceWrote'
         /\ \A f \in DOMAIN shown'.values : shown'.values[f] \subseteq 0 .. f.width - 1
<1>1. /\ shown'.of = of /\ shown'.how = how /\ shown'.bytes = bytes /\ shown'.from = out
      /\ shown'.values = <<>>
  OBVIOUS
<1>2. DOMAIN <<>> = {}
  OBVIOUS
<1>3. shown'.how # "pretty" /\ shown'.how \in Prints
  BY <1>1 DEF Prints
<1>4. PrintsWhatTheDeviceWrote'
  BY <1>3 DEF PrintsWhatTheDeviceWrote
<1>5. \A f \in DOMAIN shown'.values : shown'.values[f] \subseteq 0 .. f.width - 1
  BY <1>1, <1>2
<1> QED
  BY <1>1, <1>3, <1>4, <1>5

(* A pretty print, as a record. *)
LEMMA PrettyShown ==
  ASSUME out.status \subseteq 0 .. 7, NEW of, NEW fields, \A f \in fields : Readable(f),
         shown' = [of |-> of, how |-> "pretty", bytes |-> 0, from |-> out,
                   values |-> Values(BehindHeader(Reply(out)), fields)]
  PROVE  /\ shown'.of = of /\ shown'.how = "pretty" /\ shown'.from = out
         /\ shown'.how \in Prints
         /\ PrintsWhatTheDeviceWrote' /\ DumpInside'
         /\ \A f \in DOMAIN shown'.values : shown'.values[f] \subseteq 0 .. f.width - 1
<1> DEFINE v == Values(BehindHeader(Reply(out)), fields)
<1>1. /\ DOMAIN v = fields
      /\ \A f \in fields : /\ v[f] = OnWire(Reply(out), F(128 + f.off, f.width))
                           /\ v[f] \subseteq 0 .. f.width - 1
  BY ReadsWhatWasWritten
<1> HIDE DEF v
<1>2. /\ shown'.of = of /\ shown'.how = "pretty" /\ shown'.from = out /\ shown'.values = v
  BY DEF v
<1>3. shown'.how \in Prints /\ shown'.how \notin {"hex", "bin"}
  BY <1>2 DEF Prints
<1>4. PrintsWhatTheDeviceWrote'
  BY <1>1, <1>2 DEF PrintsWhatTheDeviceWrote
<1>5. DumpInside'
  BY <1>3 DEF DumpInside
<1>6. \A f \in DOMAIN shown'.values : shown'.values[f] \subseteq 0 .. f.width - 1
  BY <1>1, <1>2
<1> QED
  BY <1>2, <1>3, <1>4, <1>5, <1>6

(* reg prints. *)
LEMMA RegShowKeeps == ASSUME IInv, RegShow PROVE IInv'
<1>1. /\ pc = "show" /\ asked.cmd = "reg" /\ ret # "ioctl"
      /\ asked' = asked /\ sent' = sent /\ out' = out /\ ret' = ret /\ tried' = tried
      /\ pc' = "end" /\ code' = "0"
  BY DEF RegShow, End
<1>2. asked.how \in Prints /\ sent = RegMessage
  BY <1>1, AtShow
<1>3. ~AskedAll /\ asked.cmd # "cap"
  BY <1>1 DEF AskedAll
<1>4. CASE asked.how = "pretty" /\ PrintFunc # {}
  <2> DEFINE n == CHOOSE n \in PrintFunc : TRUE
             fields == regs[n].fields
  <2>1. shown' = [of |-> asked.name, how |-> "pretty", bytes |-> 0, from |-> out,
                  values |-> Values(BehindHeader(Reply(out)), fields)]
    BY <1>4 DEF RegShow
  <2>2. n \in DOMAIN regs
    BY <1>4 DEF PrintFunc, RegEntry
  <2>3. \A f \in fields : Readable(f)
    BY <2>2, RegsAssumption
  <2>4. out.status \subseteq 0 .. 7
    BY DEF IInv, Answered
  <2> HIDE DEF n, fields
  <2>5. /\ shown'.of = asked.name /\ shown'.how = "pretty" /\ shown'.from = out
        /\ shown'.how \in Prints
        /\ PrintsWhatTheDeviceWrote' /\ DumpInside'
        /\ \A f \in DOMAIN shown'.values : shown'.values[f] \subseteq 0 .. f.width - 1
    BY <2>1, <2>3, <2>4, PrettyShown
  <2> QED
    BY <1>1, <1>3, <2>5, ShowKeeps
<1>5. CASE ~(asked.how = "pretty" /\ PrintFunc # {})
  <2> DEFINE how == IF asked.how = "bin" THEN "bin" ELSE "hex"
             bytes == get_reg_size
  <2>1. shown' = [of |-> asked.name, how |-> how, bytes |-> bytes, from |-> out,
                  values |-> <<>>]
    BY <1>5 DEF RegShow
  <2>2. how \in {"hex", "bin"}
    OBVIOUS
  <2> HIDE DEF how, bytes
  <2>3. /\ shown'.of = asked.name /\ shown'.how = how /\ shown'.bytes = bytes
        /\ shown'.from = out /\ shown'.how \in Prints
        /\ PrintsWhatTheDeviceWrote'
        /\ \A f \in DOMAIN shown'.values : shown'.values[f] \subseteq 0 .. f.width - 1
    BY <2>1, <2>2, DumpShown
  <2>4. /\ bytes \in 1 .. DocumentSize
        /\ asked.name \in DOMAIN regs => bytes = regs[asked.name].size
    BY RegSize DEF bytes
  <2>5. sent.outlen = 16 + DocumentSize /\ DocumentSize \in Nat
    BY <1>2, RegsAssumption DEF RegMessage
  <2>6. bytes > 0 /\ bytes + 16 <= sent.outlen
    BY <2>4, <2>5
  <2>7. DumpInside'
    BY <1>1, <2>3, <2>4, <2>6 DEF DumpInside
  <2> QED
    BY <1>1, <1>3, <2>3, <2>7, ShowKeeps
<1> QED
  BY <1>4, <1>5

(* cap prints one capability. *)
LEMMA CapShowKeeps == ASSUME IInv, CapShow PROVE IInv'
<1>1. /\ pc = "show" /\ asked.cmd = "cap" /\ ~AllCaps /\ ret # "ioctl"
      /\ asked' = asked /\ sent' = sent /\ out' = out /\ ret' = ret /\ tried' = tried
      /\ pc' = "end" /\ code' = "0"
  BY DEF CapShow, End
<1>2. asked.how \in Prints /\ sent = CapMessage(cap_type)
  BY <1>1, AtShow
<1>3. ~AskedAll
  BY <1>1 DEF AskedAll
<1>4. asked.mod \subseteq {0} /\ asked.mod \subseteq 0 .. 31
  BY <1>1, AskedFacts DEF IInv, Typed
<1>5. ASSUME NEW i \in DOMAIN caps, asked.name = caps[i].name
      PROVE  OnWire(sent.dw, op_mod) = {b + 1 : b \in caps[i].type} \cup asked.mod
  <2>1. \A j \in DOMAIN caps : caps[j].name = asked.name <=> j = i
    BY <1>5, CapTable
  <2>2. (CHOOSE j \in DOMAIN caps : caps[j].name = asked.name) = i
    BY <2>1
  <2>3. cap_type = caps[i].type
    BY <1>5, <2>2 DEF cap_type
  <2>4. caps[i].type \subseteq 0 .. 14
    BY CapTable
  <2> DEFINE type == caps[i].type
  <2> HIDE DEF type
  <2>5. type \subseteq Int /\ type \subseteq 0 .. 14
    BY <2>4 DEF type
  <2>6. OnWire(CapMessage(type).dw, op_mod) = opmod(type) \cap 0 .. 15
    BY <1>4, <2>5, CapMessageCarries
  <2>7. opmod(type) \cap 0 .. 15 = {b + 1 : b \in type} \cup asked.mod
    BY <1>4, <2>5, OpmodIs
  <2> QED
    BY <1>2, <2>3, <2>6, <2>7 DEF type
<1>6. CASE asked.how = "pretty" /\ OfType(cap_type) \cap Printable # {}
  <2> DEFINE n == CHOOSE i \in OfType(cap_type) \cap Printable : TRUE
             fields == caps[n].print
  <2>1. shown' = [of |-> asked.name, how |-> "pretty", bytes |-> 0, from |-> out,
                  values |-> Values(BehindHeader(Reply(out)), fields)]
    BY <1>6 DEF CapShow
  <2>2. n \in DOMAIN caps
    BY <1>6 DEF OfType
  <2>3. \A f \in fields : Readable(f)
    BY <2>2, CapsAssumption
  <2>4. out.status \subseteq 0 .. 7
    BY DEF IInv, Answered
  <2> HIDE DEF n, fields
  <2>5. /\ shown'.of = asked.name /\ shown'.how = "pretty" /\ shown'.from = out
        /\ shown'.how \in Prints
        /\ PrintsWhatTheDeviceWrote' /\ DumpInside'
        /\ \A f \in DOMAIN shown'.values : shown'.values[f] \subseteq 0 .. f.width - 1
    BY <2>1, <2>3, <2>4, PrettyShown
  <2> QED
    BY <1>1, <1>3, <1>5, <2>5, ShowKeeps
<1>7. CASE ~(asked.how = "pretty" /\ OfType(cap_type) \cap Printable # {})
  <2> DEFINE how == IF asked.how = "bin" THEN "bin" ELSE "hex"
             bytes == MLX5_ST_SZ_BYTES(cmd_hca_cap)
  <2>1. shown' = [of |-> asked.name, how |-> how, bytes |-> bytes, from |-> out,
                  values |-> <<>>]
    BY <1>7 DEF CapShow
  <2>2. how \in {"hex", "bin"}
    OBVIOUS
  <2>4. sent.outlen = 16 + MLX5_ST_SZ_BYTES(hca_cap_union)
    BY <1>2, CapsAssumption DEF CapMessage
  <2>5. MLX5_ST_SZ_BYTES(hca_cap_union) \in Nat /\ bytes \in 1 .. MLX5_ST_SZ_BYTES(hca_cap_union)
    BY CapsAssumption
  <2> HIDE DEF how, bytes
  <2>3. /\ shown'.of = asked.name /\ shown'.how = how /\ shown'.bytes = bytes
        /\ shown'.from = out /\ shown'.how \in Prints
        /\ PrintsWhatTheDeviceWrote'
        /\ \A f \in DOMAIN shown'.values : shown'.values[f] \subseteq 0 .. f.width - 1
    BY <2>1, <2>2, DumpShown
  <2>6. bytes > 0 /\ bytes + 16 <= sent.outlen
    BY <2>4, <2>5
  <2>7. DumpInside'
    BY <1>1, <2>3, <2>6 DEF DumpInside
  <2> QED
    BY <1>1, <1>3, <1>5, <2>3, <2>7, ShowKeeps
<1> QED
  BY <1>6, <1>7

(* cap prints one of all capabilities. *)
LEMMA AllShowKeeps == ASSUME IInv, AllShow PROVE IInv'
<1> DEFINE type == caps[Latest].type
           fields == caps[Latest].print
<1>1. /\ pc = "show" /\ asked.cmd = "cap" /\ AllCaps /\ ret # "ioctl"
      /\ asked' = asked /\ sent' = sent /\ out' = out /\ ret' = ret /\ tried' = tried
      /\ pc' = "start" /\ code' = code
      /\ shown' = [of |-> caps[Latest].name, how |-> "pretty", bytes |-> 0, from |-> out,
                   values |-> Values(BehindHeader(Reply(out)), fields)]
  BY DEF AllShow
<1>2. tried # {} /\ sent = CapMessage(type)
  BY <1>1, AtShow
<1>3. AskedAll
  BY <1>1 DEF AskedAll
<1>4. asked.mod \subseteq {0} /\ asked.mod \subseteq 0 .. 31
  BY <1>1, AskedFacts DEF IInv, Typed
<1>5. Latest \in DOMAIN caps
  <2>1. tried \subseteq DOMAIN caps
    BY DEF IInv, Trying, Printable
  <2>2. Latest \in tried
    BY <1>2, <2>1, LatestIs DEF Latest
  <2> QED
    BY <2>1, <2>2
<1>6. type \subseteq 0 .. 14
  BY <1>5, CapTable
<1>7. \A i \in DOMAIN caps : caps[i].name = caps[Latest].name => caps[i].type = type
  BY <1>5, CapTable
<1>8. \A f \in fields : Readable(f)
  BY <1>5, CapsAssumption
<1>9. out.status \subseteq 0 .. 7
  BY DEF IInv, Answered
<1> DEFINE of == caps[Latest].name
<1> HIDE DEF type, fields, of
<1>10. type \subseteq Int
  BY <1>6
<1>11. OnWire(sent.dw, op_mod) = {b + 1 : b \in type} \cup asked.mod
  BY <1>2, <1>4, <1>6, <1>10, CapMessageCarries, OpmodIs
<1>12. shown' = [of |-> of, how |-> "pretty", bytes |-> 0, from |-> out,
                 values |-> Values(BehindHeader(Reply(out)), fields)]
  BY <1>1 DEF of
<1>13. /\ shown'.of = of /\ shown'.how = "pretty" /\ shown'.from = out
       /\ shown'.how \in Prints
       /\ PrintsWhatTheDeviceWrote' /\ DumpInside'
       /\ \A f \in DOMAIN shown'.values : shown'.values[f] \subseteq 0 .. f.width - 1
  BY <1>8, <1>9, <1>12, PrettyShown
<1>14. ASSUME NEW i \in DOMAIN caps, shown'.of = caps[i].name
       PROVE  OnWire(sent.dw, op_mod) = {b + 1 : b \in caps[i].type} \cup asked.mod
  BY <1>7, <1>11, <1>13, <1>14 DEF of
<1> QED
  BY <1>1, <1>3, <1>13, <1>14, ShowKeeps

(***************************************************************************)
(* The theorems.                                                           *)
(***************************************************************************)

(* Every step keeps the invariant. *)
LEMMA NextKeeps == ASSUME IInv, [Next]_vars PROVE IInv'
<1>1. CASE Invoke
  BY <1>1, StartKeeps DEF Invoke
<1>2. CASE Refuse
  BY <1>2, RefuseKeeps
<1>3. CASE mlx5u_cmd
  <2>1. CASE IoctlFails
    BY <2>1, IoctlFailsKeeps
  <2>2. CASE \E k \in Contents, s \in {{}, {1}} : Answer(k, s)
    BY <2>2, AnswerKeeps
  <2> QED
    BY <1>3, <2>1, <2>2 DEF mlx5u_cmd
<1>4. CASE Obj
  BY <1>4, ObjSendKeeps, ObjShowKeeps, FailKeeps DEF Obj
<1>5. CASE Reg
  BY <1>5, RegSendKeeps, RegShowKeeps, FailKeeps DEF Reg
<1>6. CASE CapOne
  BY <1>6, CapSendKeeps, CapShowKeeps, FailKeeps DEF CapOne
<1>7. CASE CapAll
  BY <1>7, AllSendKeeps, AllShowKeeps, AllSkipKeeps, FailKeeps DEF CapAll
<1>8. CASE Exit
  BY <1>8, ExitKeeps
<1>9. CASE UNCHANGED vars
  <2>1. /\ pc' = pc /\ asked' = asked /\ sent' = sent /\ out' = out /\ ret' = ret
        /\ shown' = shown /\ tried' = tried /\ code' = code
    BY <1>9 DEF vars
  <2>2. Typed' /\ Stage' /\ Answered'
    BY <2>1, AskedSame DEF IInv, Typed, Stage, Answered
  <2>3. SentIs'
    BY <2>1, SentIsSame DEF IInv
  <2>4. Trying' /\ Showing'
    BY <2>1, AskedSame DEF IInv, Trying, Showing
  <2>5. PrintedIsFresh' /\ PrintsWhatTheDeviceWrote' /\ DumpInside'
    BY <2>1, ShownSame DEF IInv
  <2>6. EveryCapTried'
    BY <2>1, AskedSame DEF IInv, EveryCapTried
  <2> QED
    BY <2>2, <2>3, <2>4, <2>5, <2>6 DEF IInv
<1> QED
  BY <1>1, <1>2, <1>3, <1>4, <1>5, <1>6, <1>7, <1>8, <1>9 DEF Next

(* The invariant holds in all reachable states. *)
THEOREM Invariance == Spec => []IInv
<1>1. Init => IInv
  BY InitKeeps
<1>2. IInv /\ [Next]_vars => IInv'
  BY NextKeeps
<1> QED
  BY <1>1, <1>2, PTL DEF Spec

(* What cap prints under the name of a capability was answered to the      *)
(* request for it, though all share one reply buffer (devcaps.c).          *)
THEOREM Fresh == Spec => []PrintedIsFresh
<1>1. IInv => PrintedIsFresh
  BY DEF IInv
<1> QED
  BY <1>1, Invariance, PTL

(* A value printed is what the device wrote in that field of the struct,   *)
(* in 32 bits or 64 (MLX5_GET and MLX5_GET64 behind the header).           *)
THEOREM PrintsWhatIsThere == Spec => []PrintsWhatTheDeviceWrote
<1>1. IInv => PrintsWhatTheDeviceWrote
  BY DEF IInv
<1> QED
  BY <1>1, Invariance, PTL

(* A dump stays inside the reply; that of a register shows its struct.     *)
THEOREM DumpsInside == Spec => []DumpInside
<1>1. IInv => DumpInside
  BY DEF IInv
<1> QED
  BY <1>1, Invariance, PTL

(* `cap' without a name asks for every capability it can print, whichever  *)
(* of them fail.                                                           *)
THEOREM TriesEveryCap == Spec => []EveryCapTried
<1>1. IInv => EveryCapTried
  BY DEF IInv
<1> QED
  BY <1>1, Invariance, PTL

(* A register is read, never written: the one named, or the low half of    *)
(* the number, with the argument and the port given, or port 0.            *)
THEOREM ReadsTheRegister == Spec => []RegisterReadAsAsked
<1>1. ASSUME IInv PROVE RegisterReadAsAsked
  <2>1. SUFFICES ASSUME asked.cmd = "reg", sent # NoMessage
        PROVE  /\ OnWire(sent.dw, op_mod) = {0}
               /\ asked.name \in DOMAIN regs =>
                    OnWire(sent.dw, F(80, 16)) = regs[asked.name].reg_id
               /\ asked.name \notin DOMAIN regs =>
                    OnWire(sent.dw, F(80, 16)) = asked.id \cap 0 .. 15
               /\ \A n \in asked.port : OnWire(sent.dw, F(136, 8)) = n \cap 0 .. 7
               /\ asked.port = {} => OnWire(sent.dw, F(136, 8)) = {}
               /\ OnWire(sent.dw, F(96, 32)) = asked.mod
    BY DEF RegisterReadAsAsked
  <2>2. asked.mod \subseteq 0 .. 31 /\ PortIn(asked.port)
    BY <1>1, <2>1, SentType DEF IInv
  <2>3. sent = RegMessage
    BY <1>1, <2>1 DEF IInv, SentIs
  <2> DEFINE p == Message(access_reg)
  <2>4. sent.dw = p
    BY <2>3 DEF RegMessage
  <2>5. /\ OnWire(p, op_mod) = {0} /\ OnWire(p, F(96, 32)) = asked.mod
        /\ OnWire(p, F(80, 16)) = get_reg_id \cap 0 .. 15
        /\ OnWire(p, F(136, 8)) = port \cap 0 .. 7
    BY <2>2, PortGiven, RegMessageCarries
  <2> HIDE DEF p
  <2>8. /\ \A n \in asked.port : port = n
        /\ asked.port = {} => port = {}
    BY <2>2, PortGiven
  <2>6. ASSUME asked.name \in DOMAIN regs
        PROVE  get_reg_id \cap 0 .. 15 = regs[asked.name].reg_id
    BY <2>6, RegsAssumption DEF get_reg_id
  <2>7. asked.name \notin DOMAIN regs => get_reg_id = asked.id
    BY DEF get_reg_id
  <2> QED
    BY <2>4, <2>5, <2>6, <2>7, <2>8
<1> QED
  BY <1>1, Invariance, PTL

(* An object is queried under the id given, in the mode given, and nothing *)
(* else is set in the message.                                             *)
THEOREM NamesTheObject == Spec => []ObjectNamed
<1>1. ASSUME IInv PROVE ObjectNamed
  <2> DEFINE there == {opcode, op_mod, F(64, 1)} \cup IdAt[asked.name]
  <2>1. SUFFICES ASSUME asked.cmd = "obj", sent # NoMessage
        PROVE  /\ \A f \in IdAt[asked.name] :
                     OnWire(sent.dw, f) = asked.id \cap 0 .. f.width - 1
               /\ OnWire(sent.dw, op_mod) = asked.mod \cap 0 .. 15
               /\ \A d \in 0 .. LastDw : \A b \in sent.dw[d] :
                     /\ 32 * d + b < 8 * sent.inlen
                     /\ \E f \in there : 32 * d + b \in f.off .. f.off + f.width - 1
    BY DEF ObjectNamed
  <2> DEFINE q == query_funcs[asked.name]
             at == IdAt[asked.name]
  <2>2. asked.mod \subseteq Nat /\ asked.id \subseteq Nat
    BY <1>1, <2>1, SentType DEF IInv
  <2>3. sent = ObjMessage /\ asked.name \in DOMAIN query_funcs
    BY <1>1, <2>1 DEF IInv, SentIs
  <2>4. sent.dw = Message(obj_sets(q)) /\ sent.inlen = q.inlen
    BY <2>3 DEF ObjMessage
  <2>5. Shape(q, at)
    BY <2>3, ObjectShapes
  <2>6. \A f \in at : OnWire(sent.dw, f) = asked.id \cap 0 .. f.width - 1
    <3> HIDE DEF q, at
    <3> QED
      BY <2>2, <2>4, <2>5, IdAsGiven
  <2>7. OnWire(sent.dw, op_mod) = asked.mod \cap 0 .. 15
    <3> HIDE DEF q, at
    <3>1. OnWire(Message(obj_sets(q)), op_mod) = asked.mod \cap mask(op_mod)
      BY <2>2, <2>5, ObjMessageCarries
    <3>2. mask(op_mod) = 0 .. 15
      BY DEF mask, op_mod, F
    <3> QED
      BY <2>4, <3>1, <3>2
  <2>8. ASSUME NEW d \in 0 .. LastDw, NEW b \in sent.dw[d]
        PROVE  /\ 32 * d + b < 8 * sent.inlen
               /\ \E f \in there : 32 * d + b \in f.off .. f.off + f.width - 1
    <3>1. b \in Message(obj_sets(q))[d]
      BY <2>4
    <3>2. /\ 32 * d + b < 8 * q.inlen
          /\ \E f \in there : 32 * d + b \in f.off .. f.off + f.width - 1
      BY <2>2, <2>3, <3>1, NothingElse
    <3> QED
      BY <2>4, <3>2
  <2> QED
    BY <2>6, <2>7, <2>8
<1> QED
  BY <1>1, Invariance, PTL

(* The lengths of a message and of its reply are in dwords. *)
LEMMA LengthsInDwords ==
  ASSUME IInv PROVE sent.inlen % 4 = 0 /\ sent.outlen % 4 = 0
<1>1. CASE sent = NoMessage
  <2>1. sent.inlen = 0 /\ sent.outlen = 0
    BY <1>1 DEF NoMessage
  <2> QED
    BY <2>1
<1>2. CASE asked.name \in DOMAIN query_funcs /\ sent = ObjMessage
  <2> DEFINE q == query_funcs[asked.name]
  <2>1. q.inlen % 4 = 0 /\ q.outlen % 4 = 0
    BY <1>2, QueriesAssumption
  <2>2. sent.inlen = q.inlen /\ sent.outlen = q.outlen
    BY <1>2 DEF ObjMessage
  <2> QED
    BY <2>1, <2>2
<1>3. CASE sent = RegMessage
  <2> DEFINE n == DocumentSize
  <2>1. n \in Nat /\ n % 4 = 0
    BY RegsAssumption
  <2>2. sent.inlen = 16 + n /\ sent.outlen = 16 + n
    BY <1>3, RegsAssumption DEF RegMessage
  <2> HIDE DEF n
  <2> QED
    BY <2>1, <2>2
<1>4. ASSUME NEW type, sent = CapMessage(type)
      PROVE  sent.inlen % 4 = 0 /\ sent.outlen % 4 = 0
  <2> DEFINE n == MLX5_ST_SZ_BYTES(hca_cap_union)
  <2>1. n \in Nat /\ n % 4 = 0
    BY CapsAssumption
  <2>2. sent.inlen = 16 /\ sent.outlen = 16 + n
    BY <1>4, CapsAssumption DEF CapMessage
  <2> HIDE DEF n
  <2> QED
    BY <2>1, <2>2
<1> QED
  BY <1>1, <1>2, <1>3, <1>4 DEF IInv, SentIs

(* The program's variables keep their types: a message has eight dwords. *)
THEOREM TypeCorrect == Spec => []TypeOK
<1>1. ASSUME IInv PROVE TypeOK
  <2>1. asked.cmd \in {"none", "obj", "reg", "cap"} /\ asked.how \in Hows
    <3>1. CASE pc = "idle"
      <4>1. asked = Nothing
        BY <1>1, <3>1 DEF IInv, Stage
      <4> QED
        BY <4>1 DEF Nothing, Hows
    <3>2. CASE pc # "idle"
      BY <1>1, <3>2, AskedFacts DEF IInv, Typed
    <3> QED
      BY <3>1, <3>2
  <2>2. sent = NoMessage \/ sent.dw \in [0 .. LastDw -> SUBSET (0 .. 31)]
    BY <1>1, SentType DEF IInv, Dwords
  <2>3. /\ pc \in {"idle", "start", "cmd", "show", "end"}
        /\ ret \in {"none", "ok", "status", "ioctl"}
        /\ code \in {"none", "0", "1", "ENOMEM", "err", "crash"}
    BY <1>1 DEF IInv, Typed
  <2>4. /\ shown.how \in {"none"} \cup Prints
        /\ \A f \in DOMAIN shown.values : shown.values[f] \subseteq 0 .. f.width - 1
        /\ tried \subseteq Printable
    BY <1>1 DEF IInv, Showing, Trying
  <2> QED
    BY <1>1, <2>1, <2>2, <2>3, <2>4, LengthsInDwords DEF TypeOK
<1> QED
  BY <1>1, Invariance, PTL
=============================================================================
