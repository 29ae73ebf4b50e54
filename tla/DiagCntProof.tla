----------------------------- MODULE DiagCntProof -----------------------------
(***************************************************************************)
(* Proofs about DiagCnt, for any processes, arguments, line counts and     *)
(* faults.  The bound on the tokens is not inductive by itself: while      *)
(* strtok runs, the list is as long as the argument has items, and there   *)
(* are fewer tokens than items looked at.  The bound on the replies needs  *)
(* that only the commands that ask for a reply read one.  That set sends   *)
(* what was asked needs what the list holds at every turn of strtok: the   *)
(* tokens of the items passed over, each at its rank, and nothing behind.  *)
(***************************************************************************)
EXTENDS DiagCnt, TLAPS, SequenceTheorems, FiniteSetTheorems

StrtokInv ==
  \A p \in Procs :
    /\ pc[p] \in {"idle", "parse"} => i[p] = 0 /\ pos[p] = 1
    /\ pc[p] = "strtok" =>
         /\ Len(ids[p]) = Len(req[p].items)
         /\ i[p] < pos[p]
         /\ pos[p] <= Len(req[p].items) + 1

ReplyInv ==
  \A p \in Procs :
    /\ pc[p] \in {"param", "dump"} => req[p].name = pc[p]
    /\ pc[p] \notin {"param", "dump", "done"} => req[p].name \notin {"param", "dump"}
    /\ pc[p] = "idle" => ~over[p]

(* A list holds the tokens of the first n items, and nothing else.           *)
Holds(list, items, n) ==
  /\ Len(list) = Len(items)
  /\ \A m \in 1 .. n : NotEmpty(items[m]) => list[Rank(items, m)] = items[m]
  /\ \A k \in Rank(items, n) + 1 .. Len(items) : list[k] = Garbage

Prepares(p) ==
  /\ pc[p] # "done" => sent[p] = NoContext
  /\ pc[p] \in {"strtok", "get_freq"} => flags[p] = FlagsOf(req[p].flags)
  /\ pc[p] = "strtok" =>
       /\ i[p] = Rank(req[p].items, pos[p] - 1)
       /\ Holds(ids[p], req[p].items, pos[p] - 1)
  /\ pc[p] = "get_freq" => Holds(ids[p], req[p].items, Len(req[p].items))
  /\ pc[p] = "set_param" /\ req[p].name = "set" =>
       /\ flags[p] = FlagsOf(req[p].flags) \cup {"enable"}
       /\ Holds(ids[p], req[p].items, Len(req[p].items))

Sends(p) ==
  sent[p].flags # {} /\ req[p].name = "set" =>
    /\ sent[p] = Context(p)
    /\ flags[p] = FlagsOf(req[p].flags) \cup {"enable"}
    /\ Holds(ids[p], req[p].items, Len(req[p].items))

SetInv == \A p \in Procs : Prepares(p) /\ Sends(p)

IInv == TypeOK /\ TokensInBounds /\ StrtokInv /\ RepliesReadInside /\ ReplyInv /\ SetInv

(* The requests, field by field. *)
LEMMA RequestTypes ==
  ASSUME NEW r \in Requests
  PROVE  /\ r.name \in {"set", "cap", "disable", "param", "dump"}
         /\ r.items \in Seq(Ids \cup {Empty})
         /\ r.n \in Int
  <1>1. \A l \in Lists : l \in Seq(Ids \cup {Empty})
    BY ArgsAssumption
  <1>2. \A n \in Counts : n \in Int
    BY ArgsAssumption
  <1>3. <<>> \in Seq(Ids \cup {Empty})
    OBVIOUS
  <1>4. CASE r \in [name : {"set"}, flags : FlagStrings, items : Lists, n : {0}]
    BY <1>1, <1>4
  <1>5. CASE r \in [name : {"cap", "disable"}, flags : {{}}, items : {<<>>}, n : {0}]
    <2>1. r.items \in {<<>>} /\ r.name \in {"cap", "disable"} /\ r.n \in {0}
      BY <1>5
    <2>2. r.items \in Seq(Ids \cup {Empty})
      <3>1. r.items = <<>>
        BY <2>1, Zenon
      <3> QED
        BY <3>1
    <2> QED
      BY <2>1, <2>2
  <1>6. CASE r \in [name : {"param", "dump"}, flags : {{}}, items : {<<>>}, n : Counts]
    <2>1. r.items \in {<<>>} /\ r.name \in {"param", "dump"} /\ r.n \in Counts
      BY <1>6
    <2>2. r.items \in Seq(Ids \cup {Empty})
      <3>1. r.items = <<>>
        BY <2>1, Zenon
      <3> QED
        BY <3>1
    <2> QED
      BY <1>2, <2>1, <2>2
  <1> QED
    BY <1>4, <1>5, <1>6 DEF Requests

(* The request of an idle process is a request.                            *)
LEMMA NoRequestIsOne == NoRequest \in Requests
  <1>1. NoRequest \in [name : {"cap", "disable"}, flags : {{}}, items : {<<>>}, n : {0}]
    BY DEF NoRequest
  <1> QED
    BY <1>1 DEF Requests

(* The letters of a flag argument give flags, never `enable'.              *)
LEMMA FlagsOfType == ASSUME NEW l PROVE FlagsOf(l) \subseteq Flags \ {"enable"}
  BY DEF FlagsOf, Letters, Flags

(* A list with one element set, wherever that is, is a list. *)
LEMMA ElementSet ==
  ASSUME NEW S, NEW l \in Seq(S), NEW n, NEW e \in S
  PROVE  [l EXCEPT ![n] = e] \in Seq(S)
  <1>1. CASE n \in 1 .. Len(l)
    BY <1>1, ExceptSeq
  <1>2. CASE n \notin 1 .. Len(l)
    <2>1. DOMAIN l = 1 .. Len(l)
      OBVIOUS
    <2>2. l = [k \in DOMAIN l |-> l[k]]
      OBVIOUS
    <2>3. [l EXCEPT ![n] = e] = [k \in DOMAIN l |-> l[k]]
      BY <1>2, <2>1
    <2> QED
      BY <2>2, <2>3
  <1> QED
    BY <1>1, <1>2

(* The initial states satisfy the invariant.                               *)
LEMMA InitInv == Init => IInv
  <1> SUFFICES ASSUME Init PROVE IInv
    OBVIOUS
  <1>1. <<>> \in Seq(Ids \cup {Garbage}) /\ Len(<<>>) = 0
    OBVIOUS
  <1>2. NoContext \in Contexts /\ NoContext \in Printed
    BY DEF NoContext, Contexts, Printed
  <1>3. TypeOK
    BY <1>1, <1>2, NoRequestIsOne DEF Init, TypeOK
  <1>4. TokensInBounds /\ StrtokInv /\ RepliesReadInside /\ ReplyInv
    BY <1>1 DEF Init, TokensInBounds, StrtokInv, RepliesReadInside, ReplyInv, NoRequest
  <1>5. ASSUME NEW p \in Procs PROVE pc[p] = "idle" /\ sent[p] = NoContext
    BY DEF Init
  <1>6. NoContext.flags = {}
    BY DEF NoContext
  <1>7. SetInv
    BY <1>5, <1>6 DEF SetInv, Prepares, Sends
  <1> QED
    BY <1>3, <1>4, <1>7 DEF IInv
-----------------------------------------------------------------------------
(* The limits by their bounds, for what is said of intervals: the provers  *)
(* would enumerate an interval between such numerals.                      *)
LEMMA Limits ==
  /\ Width16 \in Int /\ 65536 <= Width16 /\ Width16 <= 65536
  /\ DumpLines \in Int /\ 4094 <= DumpLines /\ DumpLines <= 4094
  /\ ParamLines \in Int /\ 16375 <= ParamLines /\ ParamLines <= 16375
  BY DEF Width16, DumpLines, ParamLines

(* Sixteen bits of a number.                                               *)
LEMMA U16Type ==
  ASSUME NEW x \in Int
  PROVE  /\ U16(x) \in 0 .. Width16 - 1
         /\ x \in 0 .. Width16 - 1 => U16(x) = x
         /\ x \in Nat => U16(x) <= x
  <1>1. U16(x) \in Int /\ 0 <= U16(x) /\ U16(x) < Width16
    BY DEF U16, Width16
  <1>2. 0 <= x /\ x < Width16 => U16(x) = x
    BY DEF U16, Width16
  <1>3. x >= Width16 => U16(x) <= x
    BY <1>1, Limits
  <1> QED
    BY <1>1, <1>2, <1>3, Limits

(* An element of the list, as the message has it. *)
LEMMA IdFieldType == \A x \in Ids \cup {Garbage} : IdField(x) \in Fields16
  <1> SUFFICES ASSUME NEW x \in Ids \cup {Garbage} PROVE IdField(x) \in Fields16
    OBVIOUS
  <1>1. CASE x = Garbage
    BY <1>1 DEF IdField, Fields16
  <1>2. CASE x # Garbage
    <2>1. x \in Int
      BY <1>2, ItemsAssumption
    <2> QED
      BY <1>2, <2>1, U16Type DEF IdField, Fields16
  <1> QED
    BY <1>1, <1>2

(* What is sent and what is printed have the types of contexts.             *)
LEMMA ContextTypes ==
  ASSUME TypeOK, NEW p \in Procs
  PROVE  /\ NoContext \in Contexts /\ NoContext \in Printed
         /\ Context(p) \in Contexts
         /\ \A n \in Int :
              [flags |-> FlagsShown(n), ids |-> [k \in 1 .. Lines(n) |-> IdShown(n, k)]]
                \in Printed
  <1>1. NoContext \in Contexts /\ NoContext \in Printed
    BY DEF NoContext, Contexts, Printed
  <1>2. Context(p) \in Contexts
    <2>1. ids[p] \in Seq(Ids \cup {Garbage}) /\ Len(ids[p]) \in Nat
      BY DEF TypeOK
    <2>2. U16(Len(ids[p])) \in Nat /\ U16(Len(ids[p])) <= Len(ids[p])
      BY <2>1, U16Type
    <2>3. \A k \in 1 .. U16(Len(ids[p])) : IdField(ids[p][k]) \in Fields16
      BY <2>1, <2>2, IdFieldType
    <2>4. Context(p).ids \in Seq(Fields16)
      BY <2>2, <2>3 DEF Context
    <2> QED
      BY <2>4 DEF Context, Contexts, TypeOK
  <1>3. conf.flags \in SUBSET Flags /\ conf.ids \in Seq(Fields16) /\ Len(conf.ids) \in Nat
    BY DEF TypeOK, Contexts
  <1>4. ASSUME NEW n \in Int
        PROVE  [flags |-> FlagsShown(n), ids |-> [k \in 1 .. Lines(n) |-> IdShown(n, k)]]
                 \in Printed
    <2>1. Lines(n) \in Int /\ Lines(n) <= Len(conf.ids)
      BY <1>3 DEF Lines
    <2>2. \A k \in 1 .. Lines(n) : IdShown(n, k) \in Fields16
      BY <1>3, <2>1 DEF IdShown, Fields16
    <2>3. [k \in 1 .. Lines(n) |-> IdShown(n, k)] \in Seq(Fields16)
      <3>1. CASE Lines(n) >= 0
        BY <2>1, <2>2, <3>1
      <3>2. CASE Lines(n) < 0
        <4>1. 1 .. Lines(n) = {}
          BY <2>1, <3>2
        <4>2. [k \in 1 .. Lines(n) |-> IdShown(n, k)] = <<>>
          BY <4>1
        <4>3. <<>> \in Seq(Fields16)
          OBVIOUS
        <4> QED
          BY <4>2, <4>3
      <3> QED
        BY <2>1, <3>1, <3>2
    <2>4. FlagsShown(n) \in (SUBSET Flags) \cup {Garbage}
      BY <1>3 DEF FlagsShown
    <2> QED
      BY <2>3, <2>4 DEF Printed
  <1> QED
    BY <1>1, <1>2, <1>4

(* A request decides which of the command's first steps is taken. *)
LEMMA TypeStep == TypeOK /\ [Next]_vars => TypeOK'
  <1> SUFFICES ASSUME TypeOK, [Next]_vars PROVE TypeOK'
    OBVIOUS
  <1> USE DEF TypeOK, Goto, Return, params
  <1>1. ASSUME NEW p \in Procs, Start(p) PROVE TypeOK'
    <2> PICK r \in Requests :
          /\ req' = [req EXCEPT ![p] = r]
          /\ Goto(p, CASE r.name = "set" -> "parse" [] r.name = "disable" -> "set_param"
                       [] r.name = "cap" -> "cap_general" [] OTHER -> r.name)
          /\ flags' = [flags EXCEPT ![p] = IF r.name = "disable" THEN {"clear"} ELSE {}]
      BY <1>1 DEF Start
    <2> UNCHANGED <<ids, pos, i, freq, sent, ret, shown, over, conf>>
      BY <1>1 DEF Start
    <2> QED
      BY RequestTypes DEF Flags
  <1>2. ASSUME NEW p \in Procs, ParseFails(p) PROVE TypeOK'
    BY <1>2 DEF ParseFails
  <1>3. ASSUME NEW p \in Procs, Parse(p) PROVE TypeOK'
    <2>1. Len(req[p].items) \in Nat
      BY RequestTypes
    <2>2. [k \in 1 .. Len(req[p].items) |-> Garbage] \in Seq(Ids \cup {Garbage})
      BY <2>1
    <2> QED
      BY <1>3, <2>2, FlagsOfType DEF Parse, NumOfCounters
  <1>4. ASSUME NEW p \in Procs, MallocFails(p) PROVE TypeOK'
    BY <1>4 DEF MallocFails
  <1>5. ASSUME NEW p \in Procs, Token(p) PROVE TypeOK'
    <2>1. PICK k \in pos[p] .. Len(req[p].items) :
            /\ NotEmpty(req[p].items[k])
            /\ ids' = [ids EXCEPT ![p] = [@ EXCEPT ![i[p] + 1] = req[p].items[k]]]
            /\ pos' = [pos EXCEPT ![p] = k + 1]
      BY <1>5 DEF Token
    <2>2. req[p].items[k] \in Ids
      BY <2>1, RequestTypes DEF NotEmpty
    <2>3. [ids[p] EXCEPT ![i[p] + 1] = req[p].items[k]] \in Seq(Ids \cup {Garbage})
      <3>1. ids[p] \in Seq(Ids \cup {Garbage}) /\ req[p].items[k] \in Ids \cup {Garbage}
        BY <2>2
      <3> QED
        BY <3>1, ElementSet
    <2>4. k + 1 \in Nat \ {0} /\ i[p] + 1 \in Nat
      BY <2>1, RequestTypes
    <2>5. ids' \in [Procs -> Seq(Ids \cup {Garbage})]
      BY <2>1, <2>3
    <2>6. pos' \in [Procs -> Nat \ {0}]
      BY <2>1, <2>4
    <2>7. i' \in [Procs -> Nat]
      BY <1>5, <2>4 DEF Token
    <2>8. UNCHANGED <<pc, req, flags, freq, sent, ret, shown, over, conf>>
      BY <1>5 DEF Token
    <2> QED
      BY <2>5, <2>6, <2>7, <2>8
  <1>6. ASSUME NEW p \in Procs, NoToken(p) PROVE TypeOK'
    BY <1>6 DEF NoToken
  <1>7. ASSUME NEW p \in Procs, GetFreq(p) PROVE TypeOK'
    <2>1. freq' \in [Procs -> {"none", "frequency", "status"}]
      <3>1. PICK f \in {"frequency", "status"} : freq' = [freq EXCEPT ![p] = f]
        BY <1>7, Zenon DEF GetFreq
      <3> QED
        BY <3>1
    <2>2. flags' \in [Procs -> SUBSET Flags]
      <3>1. flags' = [flags EXCEPT ![p] = @ \cup {"enable"}] \/ flags' = flags
        BY <1>7, Zenon DEF GetFreq
      <3> QED
        <4>1. CASE flags' = [flags EXCEPT ![p] = @ \cup {"enable"}]
          <5>1. flags[p] \cup {"enable"} \in SUBSET Flags
            BY DEF Flags
          <5> QED
            BY <4>1, <5>1
        <4> QED
          BY <3>1, <4>1
    <2>3. UNCHANGED <<req, ids, pos, i, sent, shown, over, conf>>
      BY <1>7 DEF GetFreq
    <2>4. CASE pc[p] = "get_freq"
      <3>1. pc' = [pc EXCEPT ![p] = "set_param"] /\ ret' = ret
        BY <1>7, <2>4 DEF GetFreq
      <3> QED
        BY <2>1, <2>2, <2>3, <3>1
    <2>5. CASE pc[p] # "get_freq"
      <3>1. pc' = [pc EXCEPT ![p] = "done"] /\ ret' = [ret EXCEPT ![p] = "ok"]
        BY <1>7, <2>5 DEF GetFreq
      <3> QED
        BY <2>1, <2>2, <2>3, <3>1
    <2> QED
      BY <2>4, <2>5
  <1>8. ASSUME NEW p \in Procs, GetFreqFails(p) PROVE TypeOK'
    BY <1>8 DEF GetFreqFails
  <1>9. ASSUME NEW p \in Procs, SetParam(p) PROVE TypeOK'
    BY <1>9, ContextTypes DEF SetParam
  <1>10. ASSUME NEW p \in Procs, SetParamFails(p) PROVE TypeOK'
    BY <1>10, ContextTypes DEF SetParamFails, CmdFailures
  <1>11. ASSUME NEW p \in Procs, QueryParam(p) PROVE TypeOK'
    BY <1>11, ContextTypes, RequestTypes DEF QueryParam
  <1>12. ASSUME NEW p \in Procs, QueryCntrs(p) PROVE TypeOK'
    BY <1>12 DEF QueryCntrs
  <1>13. ASSUME NEW p \in Procs, QueryFails(p) PROVE TypeOK'
    BY <1>13 DEF QueryFails, CmdFailures
  <1>14. ASSUME NEW p \in Procs, CapGeneral(p) PROVE TypeOK'
    BY <1>14 DEF CapGeneral, CmdFailures
  <1>15. ASSUME NEW p \in Procs, CapDebug(p) PROVE TypeOK'
    BY <1>15 DEF CapDebug, CmdFailures
  <1>16. ASSUME NEW p \in Procs, Gone(p) PROVE TypeOK'
    BY <1>16, NoRequestIsOne, ContextTypes DEF Gone
  <1>17. CASE UNCHANGED vars
    BY <1>17 DEF vars
  <1> QED
    BY <1>1, <1>2, <1>3, <1>4, <1>5, <1>6, <1>7, <1>8, <1>9, <1>10, <1>11, <1>12, <1>13,
       <1>14, <1>15, <1>16, <1>17 DEF Next, Run, Set, Query, Exit, Kill
-----------------------------------------------------------------------------
(* strtok stores at most one token for each item it passes over. *)
LEMMA TokensStep ==
  IInv /\ [Next]_vars => TokensInBounds' /\ StrtokInv'
  <1> SUFFICES ASSUME IInv, [Next]_vars PROVE TokensInBounds' /\ StrtokInv'
    OBVIOUS
  <1> USE DEF IInv, TypeOK, TokensInBounds, StrtokInv, Goto, Return, params
  <1>1. ASSUME NEW p \in Procs, Start(p) PROVE TokensInBounds' /\ StrtokInv'
    <2>1. PICK r \in Requests :
          /\ req' = [req EXCEPT ![p] = r]
          /\ pc' = [pc EXCEPT ![p] =
               CASE r.name = "set" -> "parse" [] r.name = "disable" -> "set_param"
                 [] r.name = "cap" -> "cap_general" [] OTHER -> r.name]
      BY <1>1 DEF Start
    <2>2. r.name \in {"set", "cap", "disable", "param", "dump"}
      BY RequestTypes
    <2>3. pc'[p] # "strtok"
      BY <2>1, <2>2
    <2>4. pc[p] = "idle" /\ UNCHANGED <<ids, pos, i>>
      BY <1>1 DEF Start
    <2> QED
      BY <2>1, <2>3, <2>4
  <1>2. ASSUME NEW p \in Procs, Parse(p) PROVE TokensInBounds' /\ StrtokInv'
    <2>1. Len(req[p].items) \in Nat
      BY RequestTypes
    <2>2. Len([k \in 1 .. Len(req[p].items) |-> Garbage]) = Len(req[p].items)
      BY <2>1
    <2>3. i[p] = 0 /\ pos[p] = 1
      BY <1>2 DEF Parse
    <2> QED
      BY <1>2, <2>1, <2>2, <2>3 DEF Parse, NumOfCounters
  <1>3. ASSUME NEW p \in Procs, Token(p) PROVE TokensInBounds' /\ StrtokInv'
    <2>1. PICK k \in pos[p] .. Len(req[p].items) :
            /\ ids' = [ids EXCEPT ![p] = [@ EXCEPT ![i[p] + 1] = req[p].items[k]]]
            /\ pos' = [pos EXCEPT ![p] = k + 1]
      BY <1>3 DEF Token
    <2>2. Len([ids[p] EXCEPT ![i[p] + 1] = req[p].items[k]]) = Len(ids[p])
      OBVIOUS
    <2>3. UNCHANGED <<pc, req>> /\ i' = [i EXCEPT ![p] = @ + 1] /\ pc[p] = "strtok"
      BY <1>3 DEF Token
    <2>4. Len(req[p].items) \in Nat
      BY RequestTypes
    <2>5. i'[p] = i[p] + 1 /\ pos'[p] = k + 1 /\ Len(ids'[p]) = Len(ids[p])
      BY <2>1, <2>2, <2>3
    <2>6. i'[p] <= Len(ids'[p]) /\ i'[p] < pos'[p] /\ pos'[p] <= Len(req[p].items) + 1
      BY <2>3, <2>4, <2>5
    <2>7. \A q \in Procs \ {p} : ids'[q] = ids[q] /\ i'[q] = i[q] /\ pos'[q] = pos[q]
      BY <2>1, <2>3
    <2> QED
      BY <2>3, <2>5, <2>6, <2>7, SMTT(30)
  <1>4. ASSUME NEW p \in Procs, Gone(p) PROVE TokensInBounds' /\ StrtokInv'
    <2>1. Len(<<>>) = 0
      OBVIOUS
    <2> QED
      BY <1>4, <2>1 DEF Gone
  <1>5. ASSUME NEW p \in Procs,
               UNCHANGED <<req, ids, pos, i>>,
               \E l : pc' = [pc EXCEPT ![p] = l] /\ l \notin {"idle", "parse", "strtok"}
        PROVE  TokensInBounds' /\ StrtokInv'
    BY <1>5
  <1>6. ASSUME NEW p \in Procs, ParseFails(p) \/ MallocFails(p) \/ NoToken(p)
        PROVE  TokensInBounds' /\ StrtokInv'
    BY <1>5, <1>6 DEF ParseFails, MallocFails, NoToken
  <1>7. ASSUME NEW p \in Procs, GetFreq(p) \/ GetFreqFails(p)
        PROVE  TokensInBounds' /\ StrtokInv'
    BY <1>5, <1>7, SMTT(30) DEF GetFreq, GetFreqFails
  <1>8. ASSUME NEW p \in Procs, SetParam(p) \/ SetParamFails(p)
        PROVE  TokensInBounds' /\ StrtokInv'
    BY <1>5, <1>8 DEF SetParam, SetParamFails
  <1>9. ASSUME NEW p \in Procs, Query(p)
        PROVE  TokensInBounds' /\ StrtokInv'
    BY <1>5, <1>9 DEF Query, QueryParam, QueryCntrs, QueryFails, CapGeneral, CapDebug
  <1>10. CASE UNCHANGED vars
    BY <1>10 DEF vars
  <1> QED
    BY <1>1, <1>2, <1>3, <1>4, <1>6, <1>7, <1>8, <1>9, <1>10 DEF Next, Run, Set, Exit, Kill

(* Up to the largest line counts whose replies fit in 16 bits, the size   *)
(* computed is the size read; from there on it is less.                   *)
LEMMA RepliesFit ==
  ASSUME NEW n \in Int
  PROVE  /\ n \in 0 .. DumpLines => ~(DumpRead(n) > DumpSize(n)) /\ ~(8 > DumpSize(n))
         /\ n > DumpLines => DumpRead(n) > DumpSize(n)
         /\ n \in -4 .. ParamLines => ~(ParamRead(n) > ParamSize(n)) /\ ~(8 > ParamSize(n))
         /\ n > ParamLines => ParamRead(n) > ParamSize(n)
  <1> USE Limits DEF DumpHeader, DumpLine, ParamHeader, ParamLine
  <1>1. ASSUME n \in 0 .. DumpLines
        PROVE  ~(DumpRead(n) > DumpSize(n)) /\ ~(8 > DumpSize(n))
    <2>1. DumpHeader + n * DumpLine \in 0 .. Width16 - 1
      BY <1>1
    <2>2. DumpSize(n) = 16 + n * 16
      BY <1>1, <2>1, U16Type DEF DumpSize
    <2> QED
      BY <1>1, <2>2 DEF DumpRead
  <1>2. ASSUME n > DumpLines PROVE DumpRead(n) > DumpSize(n)
    <2>1. DumpSize(n) \in 0 .. Width16 - 1
      BY U16Type DEF DumpSize
    <2>2. DumpRead(n) = 16 + n * 16 /\ DumpRead(n) >= Width16
      BY <1>2 DEF DumpRead
    <2> QED
      BY <1>2, <2>1, <2>2
  <1>3. ASSUME n \in -4 .. ParamLines
        PROVE  ~(ParamRead(n) > ParamSize(n)) /\ ~(8 > ParamSize(n))
    <2>1. ParamHeader + n * ParamLine \in 0 .. Width16 - 1
      BY <1>3
    <2>2. ParamSize(n) = 32 + n * 4
      BY <1>3, <2>1, U16Type DEF ParamSize
    <2> QED
      BY <1>3, <2>2 DEF ParamRead, ParamFlags
  <1>4. ASSUME n > ParamLines PROVE ParamRead(n) > ParamSize(n)
    <2>1. ParamSize(n) \in 0 .. Width16 - 1
      BY U16Type DEF ParamSize
    <2>2. n >= 16376
      BY <1>4
    <2>3. ParamRead(n) = 32 + n * 4
      BY <2>2 DEF ParamRead, ParamFlags
    <2>4. ParamRead(n) >= Width16
      BY <2>2, <2>3
    <2> QED
      BY <2>1, <2>3, <2>4
  <1> QED
    BY <1>1, <1>2, <1>3, <1>4

(* What the bound says of one process.                                     *)
ReadsInside(p) ==
  LET n == req[p].n
      succeeded == pc[p] = "done" /\ ret[p] = "ok"
  IN  /\ req[p].name = "dump" /\ n \in 0 .. DumpLines => ~over[p]
      /\ req[p].name = "dump" /\ n > DumpLines /\ succeeded => over[p]
      /\ req[p].name = "param" /\ n \in -4 .. ParamLines => ~over[p]
      /\ req[p].name = "param" /\ n > ParamLines /\ succeeded => over[p]

Replying(p) ==
  /\ pc[p] \in {"param", "dump"} => req[p].name = pc[p]
  /\ pc[p] \notin {"param", "dump", "done"} => req[p].name \notin {"param", "dump"}
  /\ pc[p] = "idle" => ~over[p]

(* The bound on the replies is kept by a step of p, if it is for p.        *)
LEMMA RepliesOf ==
  ASSUME RepliesReadInside, ReplyInv, NEW p \in Procs, ReadsInside(p)', Replying(p)',
         \A q \in Procs \ {p} : /\ pc'[q] = pc[q] /\ ret'[q] = ret[q]
                               /\ req'[q] = req[q] /\ over'[q] = over[q]
  PROVE  RepliesReadInside' /\ ReplyInv'
  <1>1. ASSUME NEW q \in Procs \ {p} PROVE ReadsInside(q)' /\ Replying(q)'
    <2>1. ReadsInside(q) /\ Replying(q)
      BY DEF RepliesReadInside, ReplyInv, ReadsInside, Replying
    <2> QED
      BY <2>1 DEF ReadsInside, Replying
  <1>2. \A q \in Procs : ReadsInside(q)' /\ Replying(q)'
    BY <1>1
  <1> QED
    BY <1>2, Zenon DEF RepliesReadInside, ReplyInv, ReadsInside, Replying

(* The bound on the replies, step by step.                                 *)
LEMMA RepliesStep ==
  IInv /\ [Next]_vars => RepliesReadInside' /\ ReplyInv'
  <1> SUFFICES ASSUME IInv, [Next]_vars PROVE RepliesReadInside' /\ ReplyInv'
    OBVIOUS
  <1>0. TypeOK /\ RepliesReadInside /\ ReplyInv
    BY DEF IInv
  <1> USE DEF Goto, Return, params
  <1>n. ASSUME NEW p \in Procs
        PROVE  req[p] \in Requests /\ req[p].n \in Int /\ ReadsInside(p) /\ Replying(p)
    BY <1>0, RequestTypes DEF TypeOK, RepliesReadInside, ReplyInv, ReadsInside, Replying
  <1>1. ASSUME NEW p \in Procs, Start(p) PROVE RepliesReadInside' /\ ReplyInv'
    <2>1. PICK r \in Requests :
          /\ req' = [req EXCEPT ![p] = r]
          /\ pc' = [pc EXCEPT ![p] =
               CASE r.name = "set" -> "parse" [] r.name = "disable" -> "set_param"
                 [] r.name = "cap" -> "cap_general" [] OTHER -> r.name]
      BY <1>1, Zenon DEF Start
    <2>2. r.name \in {"set", "cap", "disable", "param", "dump"}
      BY RequestTypes
    <2>3. ~over[p] /\ over' = over /\ ret' = ret
      BY <1>n, <1>1 DEF Start, Replying
    <2>4. /\ pc'[p] \notin {"idle", "done"} /\ req'[p] = r
          /\ pc'[p] \in {"param", "dump"} => r.name = pc'[p]
          /\ pc'[p] \notin {"param", "dump"} => r.name \notin {"param", "dump"}
      BY <1>0, <2>1, <2>2 DEF TypeOK
    <2>5. ReadsInside(p)' /\ Replying(p)'
      BY <2>3, <2>4 DEF ReadsInside, Replying
    <2>6. \A q \in Procs \ {p} : pc'[q] = pc[q] /\ req'[q] = req[q]
      BY <1>0, <2>1 DEF TypeOK
    <2> QED
      BY <1>0, <2>3, <2>5, <2>6, RepliesOf
  <1>2. ASSUME NEW p \in Procs, NEW r, NEW o, pc[p] \notin {"idle", "done"}, UNCHANGED req,
               pc' = [pc EXCEPT ![p] = "done"], ret' = [ret EXCEPT ![p] = r],
               over' = [over EXCEPT ![p] = o],
               LET n == req[p].n
               IN  /\ req[p].name = "dump" /\ n \in 0 .. DumpLines => ~o
                   /\ req[p].name = "dump" /\ n > DumpLines /\ r = "ok" => o
                   /\ req[p].name = "param" /\ n \in -4 .. ParamLines => ~o
                   /\ req[p].name = "param" /\ n > ParamLines /\ r = "ok" => o
        PROVE  RepliesReadInside' /\ ReplyInv'
    <2>1. pc'[p] = "done" /\ ret'[p] = r /\ over'[p] = o /\ req'[p] = req[p]
      BY <1>0, <1>2 DEF TypeOK
    <2>2. ReadsInside(p)' /\ Replying(p)'
      BY <1>2, <2>1 DEF ReadsInside, Replying
    <2>3. \A q \in Procs \ {p} : pc'[q] = pc[q] /\ ret'[q] = ret[q] /\ over'[q] = over[q]
      BY <1>0, <1>2 DEF TypeOK
    <2> QED
      BY <1>0, <1>2, <2>2, <2>3, RepliesOf
  <1>3. ASSUME NEW p \in Procs, QueryParam(p) PROVE RepliesReadInside' /\ ReplyInv'
    <2>1. req[p].name = "param" /\ pc[p] = "param"
      BY <1>n, <1>3 DEF QueryParam, Replying
    <2>2. UNCHANGED req /\ pc' = [pc EXCEPT ![p] = "done"] /\ ret' = [ret EXCEPT ![p] = "ok"]
          /\ over' = [over EXCEPT ![p] = ParamRead(req[p].n) > ParamSize(req[p].n)]
      BY <1>3 DEF QueryParam
    <2>3. /\ req[p].n \in -4 .. ParamLines => ~(ParamRead(req[p].n) > ParamSize(req[p].n))
          /\ req[p].n > ParamLines => ParamRead(req[p].n) > ParamSize(req[p].n)
      BY <1>n, RepliesFit
    <2> QED
      BY <1>2, <2>1, <2>2, <2>3
  <1>4. ASSUME NEW p \in Procs, QueryCntrs(p) PROVE RepliesReadInside' /\ ReplyInv'
    <2>1. req[p].name = "dump" /\ pc[p] = "dump"
      BY <1>n, <1>4 DEF QueryCntrs, Replying
    <2>2. UNCHANGED req /\ pc' = [pc EXCEPT ![p] = "done"] /\ ret' = [ret EXCEPT ![p] = "ok"]
          /\ over' = [over EXCEPT ![p] = DumpRead(req[p].n) > DumpSize(req[p].n)]
      BY <1>4 DEF QueryCntrs
    <2>3. /\ req[p].n \in 0 .. DumpLines => ~(DumpRead(req[p].n) > DumpSize(req[p].n))
          /\ req[p].n > DumpLines => DumpRead(req[p].n) > DumpSize(req[p].n)
      BY <1>n, RepliesFit
    <2> QED
      BY <1>2, <2>1, <2>2, <2>3
  <1>5. ASSUME NEW p \in Procs, QueryFails(p) PROVE RepliesReadInside' /\ ReplyInv'
    <2>1. req[p].name = pc[p] /\ pc[p] \in {"param", "dump"}
      BY <1>n, <1>5 DEF QueryFails, Replying
    <2> DEFINE size == IF pc[p] = "param" THEN ParamSize(req[p].n) ELSE DumpSize(req[p].n)
    <2>2. PICK r \in CmdFailures :
            /\ UNCHANGED req /\ pc' = [pc EXCEPT ![p] = "done"] /\ ret' = [ret EXCEPT ![p] = r]
            /\ over' = [over EXCEPT ![p] = r = "status" /\ 8 > size]
      BY <1>5, Zenon DEF QueryFails
    <2>3. r # "ok"
      BY DEF CmdFailures
    <2>4. /\ pc[p] = "param" /\ req[p].n \in -4 .. ParamLines => ~(8 > size)
          /\ pc[p] = "dump" /\ req[p].n \in 0 .. DumpLines => ~(8 > size)
      BY <1>n, RepliesFit
    <2> HIDE DEF size
    <2> QED
      BY <1>2, <2>1, <2>2, <2>3, <2>4
  <1>6. ASSUME NEW p \in Procs, Gone(p) PROVE RepliesReadInside' /\ ReplyInv'
    <2>1. pc'[p] = "idle" /\ req'[p] = NoRequest /\ ~over'[p]
      BY <1>0, <1>6 DEF Gone, TypeOK
    <2>2. ReadsInside(p)' /\ Replying(p)'
      BY <2>1 DEF ReadsInside, Replying, NoRequest
    <2>3. \A q \in Procs \ {p} : /\ pc'[q] = pc[q] /\ ret'[q] = ret[q]
                               /\ req'[q] = req[q] /\ over'[q] = over[q]
      BY <1>0, <1>6 DEF Gone, TypeOK
    <2> QED
      BY <1>0, <2>2, <2>3, RepliesOf
  <1>7. ASSUME NEW p \in Procs, NEW l, pc[p] \notin {"idle", "param", "dump", "done"},
               UNCHANGED <<req, over>>, pc' = [pc EXCEPT ![p] = l],
               l \notin {"idle", "param", "dump"}, \A q \in Procs \ {p} : ret'[q] = ret[q]
        PROVE  RepliesReadInside' /\ ReplyInv'
    <2>1. req[p].name \notin {"param", "dump"}
      BY <1>n, <1>7 DEF Replying
    <2>2. pc'[p] = l /\ \A q \in Procs \ {p} : pc'[q] = pc[q]
      BY <1>0, <1>7 DEF TypeOK
    <2>3. ReadsInside(p)' /\ Replying(p)'
      BY <1>7, <2>1, <2>2 DEF ReadsInside, Replying
    <2> QED
      BY <1>0, <1>7, <2>2, <2>3, RepliesOf
  <1>8. ASSUME NEW p \in Procs, Set(p) PROVE RepliesReadInside' /\ ReplyInv'
    <2>1. pc[p] \in {"parse", "strtok"} /\ UNCHANGED <<req, over>>
          /\ \A q \in Procs \ {p} : ret'[q] = ret[q]
      BY <1>0, <1>8 DEF Set, ParseFails, Parse, Token, NoToken, TypeOK
    <2>2. PICK l \in {"strtok", "get_freq", "done"} : pc' = [pc EXCEPT ![p] = l]
      <3>1. CASE Token(p)
        <4>1. pc' = pc /\ pc[p] = "strtok"
          BY <3>1 DEF Token
        <4>2. pc' = [pc EXCEPT ![p] = "strtok"]
          BY <1>0, <4>1 DEF TypeOK
        <4> QED
          BY <4>2
      <3>2. CASE ParseFails(p) \/ Parse(p) \/ NoToken(p)
        BY <3>2 DEF ParseFails, Parse, NoToken
      <3> QED
        BY <1>8, <3>1, <3>2 DEF Set
    <2> QED
      BY <1>7, <2>1, <2>2
  <1>9. ASSUME NEW p \in Procs, MallocFails(p) PROVE RepliesReadInside' /\ ReplyInv'
    <2>1. PICK r \in {"ENOMEM", "-ENOMEM"} :
            /\ pc' = [pc EXCEPT ![p] = "done"] /\ ret' = [ret EXCEPT ![p] = r]
            /\ UNCHANGED <<req, over>>
      BY <1>9 DEF MallocFails
    <2>2. over' = [over EXCEPT ![p] = over[p]] /\ pc[p] \notin {"idle", "done"}
      BY <1>0, <1>9, <2>1 DEF TypeOK, MallocFails
    <2>3. /\ req[p].name = "dump" /\ req[p].n \in 0 .. DumpLines => ~over[p]
          /\ req[p].name = "param" /\ req[p].n \in -4 .. ParamLines => ~over[p]
      BY <1>n DEF ReadsInside
    <2> QED
      BY <1>2, <2>1, <2>2, <2>3
  <1>10. ASSUME NEW p \in Procs, GetFreq(p) \/ GetFreqFails(p)
        PROVE  RepliesReadInside' /\ ReplyInv'
    <2>1. PICK l \in {"set_param", "done"} : pc' = [pc EXCEPT ![p] = l]
      BY <1>10 DEF GetFreq, GetFreqFails
    <2>2. /\ pc[p] \in {"get_freq", "cap_freq"} /\ UNCHANGED <<req, over>>
          /\ \A q \in Procs \ {p} : ret'[q] = ret[q]
      BY <1>0, <1>10 DEF GetFreq, GetFreqFails, TypeOK
    <2> QED
      BY <1>7, <2>1, <2>2
  <1>11. ASSUME NEW p \in Procs, SetParam(p) \/ SetParamFails(p)
        PROVE  RepliesReadInside' /\ ReplyInv'
    <2>1. /\ pc[p] = "set_param" /\ UNCHANGED <<req, over>> /\ pc' = [pc EXCEPT ![p] = "done"]
          /\ \E r : ret' = [ret EXCEPT ![p] = r]
      BY <1>11, Zenon DEF SetParam, SetParamFails
    <2>2. \A q \in Procs \ {p} : ret'[q] = ret[q]
      BY <1>0, <2>1 DEF TypeOK
    <2> QED
      BY <1>7, <2>1, <2>2
  <1>12. ASSUME NEW p \in Procs, CapGeneral(p) \/ CapDebug(p)
        PROVE  RepliesReadInside' /\ ReplyInv'
    <2>1. PICK l \in {"cap_debug", "cap_freq", "done"} : pc' = [pc EXCEPT ![p] = l]
      BY <1>12, Zenon DEF CapGeneral, CapDebug
    <2>2. /\ pc[p] \in {"cap_general", "cap_debug"} /\ UNCHANGED <<req, over>>
          /\ \A q \in Procs \ {p} : ret'[q] = ret[q]
      BY <1>0, <1>12 DEF CapGeneral, CapDebug, TypeOK
    <2> QED
      BY <1>7, <2>1, <2>2
  <1>13. CASE UNCHANGED vars
    BY <1>0, <1>13 DEF vars, RepliesReadInside, ReplyInv
  <1> QED
    BY <1>1, <1>3, <1>4, <1>5, <1>6, <1>8, <1>9, <1>10, <1>11, <1>12, <1>13
    DEF Next, Run, Query, Exit, Kill
-----------------------------------------------------------------------------
(* The rank counts: 0 before the first item, one more at an item that is    *)
(* not empty, unchanged over empty ones, and never past the position.       *)
LEMMA Ranks ==
  ASSUME NEW items
  PROVE  /\ Rank(items, 0) = 0
         /\ \A n \in Nat : Rank(items, n) \in 0 .. n
         /\ \A n, m \in Nat : m <= n => Rank(items, m) <= Rank(items, n)
         /\ \A n, m \in Nat :
              m <= n /\ (\A j \in m + 1 .. n : ~NotEmpty(items[j])) =>
                Rank(items, n) = Rank(items, m)
         /\ \A n \in Nat : NotEmpty(items[n + 1]) =>
              Rank(items, n + 1) = Rank(items, n) + 1
  <1> DEFINE Full(n) == {j \in 1 .. n : NotEmpty(items[j])}
  <1>0. \A n : Rank(items, n) = Cardinality(Full(n))
    BY DEF Rank
  <1>1. Full(0) = {}
    OBVIOUS
  <1>2. ASSUME NEW n \in Nat
        PROVE  IsFiniteSet(Full(n)) /\ Cardinality(Full(n)) \in 0 .. n
    <2>1. IsFiniteSet(1 .. n) /\ Cardinality(1 .. n) = n
      BY FS_Interval
    <2>2. Full(n) \in SUBSET (1 .. n)
      OBVIOUS
    <2> HIDE DEF Full
    <2>3. IsFiniteSet(Full(n)) /\ Cardinality(Full(n)) <= n
      BY <2>1, <2>2, FS_Subset
    <2>4. Cardinality(Full(n)) \in Nat
      BY <2>3, FS_CardinalityType
    <2> QED
      BY <2>3, <2>4
  <1>3. ASSUME NEW n \in Nat, NEW m \in Nat, m <= n
        PROVE  Cardinality(Full(m)) <= Cardinality(Full(n))
    <2>1. Full(m) \in SUBSET Full(n)
      BY <1>3
    <2> HIDE DEF Full
    <2> QED
      BY <1>2, <2>1, FS_Subset
  <1>4. ASSUME NEW n \in Nat, NEW m \in Nat, m <= n,
               \A j \in m + 1 .. n : ~NotEmpty(items[j])
        PROVE  Full(n) = Full(m)
    BY <1>4
  <1>5. ASSUME NEW n \in Nat, NotEmpty(items[n + 1])
        PROVE  Cardinality(Full(n + 1)) = Cardinality(Full(n)) + 1
    <2>1. Full(n + 1) = Full(n) \cup {n + 1} /\ n + 1 \notin Full(n)
      BY <1>5
    <2> HIDE DEF Full
    <2>2. IsFiniteSet(Full(n))
      BY <1>2
    <2> QED
      BY <2>1, <2>2, FS_AddElement
  <1>6. Cardinality(Full(0)) = 0
    BY <1>1, FS_EmptySet
  <1> HIDE DEF Full
  <1> QED
    BY <1>0, <1>2, <1>3, <1>4, <1>5, <1>6

(* A list just made holds the tokens of no item.                            *)
LEMMA HoldsNothing ==
  ASSUME NEW items, Len(items) \in Nat
  PROVE  Holds([k \in 1 .. Len(items) |-> Garbage], items, 0)
  <1>1. Rank(items, 0) = 0
    BY Ranks
  <1>2. Len([k \in 1 .. Len(items) |-> Garbage]) = Len(items)
    OBVIOUS
  <1> QED
    BY <1>1, <1>2 DEF Holds

(* A token stored: the next item that is not empty is k.                    *)
LEMMA HoldsOneMore ==
  ASSUME NEW S, NEW list \in Seq(S), NEW items, Len(items) \in Nat,
         NEW n \in Nat, NEW k \in n + 1 .. Len(items), Holds(list, items, n),
         NotEmpty(items[k]), \A j \in n + 1 .. k - 1 : ~NotEmpty(items[j])
  PROVE  /\ Rank(items, k) = Rank(items, n) + 1
         /\ Holds([list EXCEPT ![Rank(items, n) + 1] = items[k]], items, k)
  <1>1. k \in Nat /\ k - 1 \in Nat /\ (k - 1) + 1 = k /\ n <= k - 1
    OBVIOUS
  <1>2. Rank(items, k - 1) = Rank(items, n)
    BY <1>1, Ranks
  <1>3. Rank(items, k) = Rank(items, k - 1) + 1
    <2>1. NotEmpty(items[(k - 1) + 1])
      BY <1>1
    <2>2. Rank(items, (k - 1) + 1) = Rank(items, k - 1) + 1
      BY <1>1, <2>1, Ranks
    <2> QED
      BY <1>1, <2>2
  <1>4. Rank(items, n) \in Nat /\ Rank(items, k) \in 0 .. k
    BY <1>1, Ranks
  <1>5. \A m \in 1 .. n : Rank(items, m) <= Rank(items, n)
    BY Ranks
  <1>6. ASSUME NEW m \in 1 .. n PROVE Rank(items, m) \in Nat
    <2>1. m \in Nat
      OBVIOUS
    <2>2. Rank(items, m) \in 0 .. m
      BY <2>1, Ranks, Zenon
    <2> QED
      BY <2>1, <2>2
  <1> DEFINE r == Rank(items, n) + 1
             new == [list EXCEPT ![r] = items[k]]
  <1>7. r \in Nat /\ r \in 1 .. Len(list) /\ r = Rank(items, k)
    BY <1>2, <1>3, <1>4 DEF Holds
  <1>8. /\ Len(new) = Len(list) /\ new[r] = items[k]
        /\ \A j \in 1 .. Len(list) : j # r => new[j] = list[j]
    <2> HIDE DEF r
    <2> QED
      BY <1>7
  <1> HIDE DEF new
  <1>9. ASSUME NEW m \in 1 .. k, NotEmpty(items[m]) PROVE new[Rank(items, m)] = items[m]
    <2>1. CASE m = k
      BY <1>7, <1>8, <2>1
    <2>2. CASE m \in 1 .. n
      <3>1. Rank(items, m) \in Nat /\ Rank(items, m) < r /\ m \in Nat /\ m - 1 \in Nat
        BY <1>4, <1>5, <1>6, <2>2
      <3>2. Rank(items, (m - 1) + 1) = Rank(items, m - 1) + 1
        <4>1. NotEmpty(items[(m - 1) + 1])
          BY <1>9
        <4> QED
          BY <3>1, <4>1, Ranks
      <3>3. Rank(items, m - 1) \in 0 .. m - 1
        BY <3>1, Ranks
      <3>4. Rank(items, m) \in 1 .. Len(list)
        BY <1>7, <3>1, <3>2, <3>3
      <3>5. list[Rank(items, m)] = items[m]
        BY <1>9, <2>2 DEF Holds
      <3> HIDE DEF r
      <3> QED
        BY <1>7, <1>8, <3>1, <3>4, <3>5
    <2>3. CASE m \in n + 1 .. k - 1
      BY <1>9, <2>3
    <2> QED
      BY <2>1, <2>2, <2>3
  <1>10. ASSUME NEW j \in Rank(items, k) + 1 .. Len(items) PROVE new[j] = Garbage
    <2>1. j # r /\ j \in 1 .. Len(list) /\ j \in Rank(items, n) + 1 .. Len(items)
      BY <1>4, <1>7 DEF Holds
    <2> QED
      BY <1>8, <2>1 DEF Holds
  <1>11. Len(new) = Len(items)
    BY <1>8 DEF Holds
  <1>12. Holds(new, items, k)
    BY <1>9, <1>10, <1>11 DEF Holds
  <1> QED
    BY <1>7, <1>12 DEF new

(* When only empty items are left, the list holds all the tokens.           *)
LEMMA HoldsAll ==
  ASSUME NEW list, NEW items, Len(items) \in Nat, NEW n \in 0 .. Len(items),
         Holds(list, items, n), \A j \in n + 1 .. Len(items) : ~NotEmpty(items[j])
  PROVE  Holds(list, items, Len(items))
  <1>1. Rank(items, Len(items)) = Rank(items, n)
    BY Ranks
  <1> QED
    BY <1>1 DEF Holds

(* Every step of a command keeps its list as far as it has been filled, and *)
(* only a complete list is sent.                                            *)
LEMMA SetStep == IInv /\ [Next]_vars => SetInv'
  <1> SUFFICES ASSUME IInv, [Next]_vars PROVE SetInv'
    OBVIOUS
  <1>0. TypeOK /\ StrtokInv /\ SetInv
    BY DEF IInv
  <1> USE DEF Goto, Return, params
  <1>a. ASSUME NEW p \in Procs
        PROVE  /\ req[p] \in Requests /\ req[p].items \in Seq(Ids \cup {Empty})
               /\ Len(req[p].items) \in Nat /\ ids[p] \in Seq(Ids \cup {Garbage})
    BY <1>0, RequestTypes DEF TypeOK
  <1>b. ASSUME NEW p \in Procs, Prepares(p)' /\ Sends(p)',
               \A q \in Procs \ {p} :
                 /\ pc'[q] = pc[q] /\ req'[q] = req[q] /\ flags'[q] = flags[q]
                 /\ ids'[q] = ids[q] /\ pos'[q] = pos[q] /\ i'[q] = i[q] /\ sent'[q] = sent[q]
        PROVE  SetInv'
    <2> SUFFICES ASSUME NEW q \in Procs \ {p} PROVE Prepares(q)' /\ Sends(q)'
      BY <1>b DEF SetInv
    <2>1. Prepares(q) /\ Sends(q)
      BY <1>0 DEF SetInv
    <2>2. Prepares(q)'
      BY <1>b, <2>1 DEF Prepares
    <2>3. Sends(q)'
      <3>1. Context(q)' = Context(q)
        BY <1>b DEF Context
      <3> QED
        BY <1>b, <2>1, <3>1 DEF Sends
    <2> QED
      BY <2>2, <2>3
  <1>c. NoContext.flags = {}
    BY DEF NoContext
  <1>1. ASSUME NEW p \in Procs, Start(p) PROVE SetInv'
    <2>1. PICK r \in Requests :
          /\ req' = [req EXCEPT ![p] = r]
          /\ pc' = [pc EXCEPT ![p] =
               CASE r.name = "set" -> "parse" [] r.name = "disable" -> "set_param"
                 [] r.name = "cap" -> "cap_general" [] OTHER -> r.name]
          /\ flags' = [flags EXCEPT ![p] = IF r.name = "disable" THEN {"clear"} ELSE {}]
      BY <1>1, Zenon DEF Start
    <2>2. r.name \in {"set", "cap", "disable", "param", "dump"}
      BY RequestTypes
    <2>3. pc'[p] \notin {"done", "strtok", "get_freq"} /\ req'[p] = r
          /\ (pc'[p] = "set_param" => r.name # "set")
      BY <1>0, <2>1, <2>2 DEF TypeOK
    <2>4. pc[p] = "idle" /\ UNCHANGED <<ids, pos, i, sent>>
      BY <1>1 DEF Start
    <2>5. sent'[p] = NoContext
      BY <1>0, <2>4 DEF SetInv, Prepares
    <2>6. Prepares(p)' /\ Sends(p)'
      BY <1>c, <2>3, <2>5 DEF Prepares, Sends
    <2>7. \A q \in Procs \ {p} : pc'[q] = pc[q] /\ req'[q] = req[q] /\ flags'[q] = flags[q]
      BY <1>0, <2>1 DEF TypeOK
    <2> QED
      BY <1>b, <2>4, <2>6, <2>7
  <1>2. ASSUME NEW p \in Procs, Parse(p) PROVE SetInv'
    <2> DEFINE new == [k \in 1 .. Len(req[p].items) |-> Garbage]
    <2>1. /\ pc[p] = "parse" /\ UNCHANGED <<req, pos, i, sent>>
          /\ flags' = [flags EXCEPT ![p] = FlagsOf(req[p].flags)]
          /\ ids' = [ids EXCEPT ![p] = new] /\ pc' = [pc EXCEPT ![p] = "strtok"]
      BY <1>2 DEF Parse, NumOfCounters
    <2>2. i[p] = 0 /\ pos[p] = 1
      BY <1>0, <2>1 DEF StrtokInv
    <2>3. Holds(new, req[p].items, 0) /\ Rank(req[p].items, 0) = 0
      BY <1>a, HoldsNothing, Ranks
    <2> HIDE DEF new
    <2>4. /\ pc'[p] = "strtok" /\ flags'[p] = FlagsOf(req[p].flags) /\ ids'[p] = new
          /\ pos'[p] - 1 = 0 /\ i'[p] = 0 /\ req'[p] = req[p]
      BY <1>0, <2>1, <2>2 DEF TypeOK
    <2>5. sent'[p] = NoContext
      BY <1>0, <2>1 DEF SetInv, Prepares
    <2>6. Prepares(p)' /\ Sends(p)'
      BY <1>c, <2>3, <2>4, <2>5 DEF Prepares, Sends
    <2>7. \A q \in Procs \ {p} : pc'[q] = pc[q] /\ ids'[q] = ids[q] /\ flags'[q] = flags[q]
      BY <1>0, <2>1 DEF TypeOK
    <2> QED
      BY <1>b, <2>1, <2>6, <2>7
  <1>3. ASSUME NEW p \in Procs, Token(p) PROVE SetInv'
    <2> DEFINE items == req[p].items
               n == pos[p] - 1
    <2>1. PICK k \in pos[p] .. Len(items) :
            /\ NotEmpty(items[k])
            /\ \A j \in pos[p] .. k - 1 : ~NotEmpty(items[j])
            /\ ids' = [ids EXCEPT ![p] = [@ EXCEPT ![i[p] + 1] = items[k]]]
            /\ pos' = [pos EXCEPT ![p] = k + 1]
      BY <1>3, Zenon DEF Token
    <2>2. pc[p] = "strtok" /\ i' = [i EXCEPT ![p] = @ + 1]
          /\ UNCHANGED <<pc, req, flags, sent>>
      BY <1>3 DEF Token
    <2>3. /\ flags[p] = FlagsOf(req[p].flags) /\ i[p] = Rank(items, n)
          /\ Holds(ids[p], items, n) /\ sent[p] = NoContext
      BY <1>0, <2>2 DEF SetInv, Prepares
    <2>4. n \in Nat /\ n + 1 = pos[p]
      BY <1>0 DEF TypeOK
    <2>5. k \in n + 1 .. Len(items) /\ \A j \in n + 1 .. k - 1 : ~NotEmpty(items[j])
      BY <2>1, <2>4
    <2>6. Len(items) \in Nat /\ ids[p] \in Seq(Ids \cup {Garbage})
      BY <1>a
    <2> DEFINE new == [ids[p] EXCEPT ![Rank(items, n) + 1] = items[k]]
    <2> HIDE DEF items, n
    <2>7. Rank(items, k) = Rank(items, n) + 1 /\ Holds(new, items, k)
      BY <2>1, <2>3, <2>4, <2>5, <2>6, HoldsOneMore
    <2>8. ids'[p] = new /\ i'[p] = Rank(items, n) + 1 /\ pos'[p] - 1 = k
      BY <1>0, <2>1, <2>2, <2>3, <2>4 DEF TypeOK
    <2> HIDE DEF new
    <2>9. req'[p].items = items /\ pc'[p] = "strtok" /\ flags'[p] = FlagsOf(req'[p].flags)
          /\ sent'[p] = NoContext
      BY <2>2, <2>3 DEF items
    <2>10. Prepares(p)' /\ Sends(p)'
      BY <1>c, <2>7, <2>8, <2>9 DEF Prepares, Sends
    <2>11. \A q \in Procs \ {p} : ids'[q] = ids[q] /\ pos'[q] = pos[q] /\ i'[q] = i[q]
      BY <1>0, <2>1, <2>2 DEF TypeOK
    <2> QED
      BY <1>b, <2>2, <2>10, <2>11
  <1>4. ASSUME NEW p \in Procs, NoToken(p) PROVE SetInv'
    <2> DEFINE items == req[p].items
               n == pos[p] - 1
    <2>1. /\ pc[p] = "strtok" /\ pc' = [pc EXCEPT ![p] = "get_freq"]
          /\ \A k \in pos[p] .. Len(items) : ~NotEmpty(items[k])
          /\ UNCHANGED <<req, flags, ids, pos, i, sent>>
      BY <1>4 DEF NoToken
    <2>2. /\ flags[p] = FlagsOf(req[p].flags) /\ Holds(ids[p], items, n)
          /\ sent[p] = NoContext
      BY <1>0, <2>1 DEF SetInv, Prepares
    <2>3. Len(items) \in Nat /\ n \in 0 .. Len(items) /\ n + 1 = pos[p]
      BY <1>0, <1>a, <2>1 DEF TypeOK, StrtokInv
    <2>4. \A j \in n + 1 .. Len(items) : ~NotEmpty(items[j])
      BY <2>1, <2>3
    <2> HIDE DEF n
    <2>5. Holds(ids[p], items, Len(items))
      BY <2>2, <2>3, <2>4, HoldsAll
    <2>6. pc'[p] = "get_freq" /\ \A q \in Procs \ {p} : pc'[q] = pc[q]
      BY <1>0, <2>1 DEF TypeOK
    <2>7. Prepares(p)' /\ Sends(p)'
      BY <1>c, <2>1, <2>2, <2>5, <2>6 DEF Prepares, Sends
    <2> QED
      BY <1>b, <2>1, <2>6, <2>7
  <1>5. ASSUME NEW p \in Procs, NEW l, pc[p] # "done", pc' = [pc EXCEPT ![p] = l],
               l \notin {"strtok", "get_freq", "set_param"},
               UNCHANGED <<req, flags, ids, pos, i, sent>>
        PROVE  SetInv'
    <2>1. pc'[p] = l /\ \A q \in Procs \ {p} : pc'[q] = pc[q]
      BY <1>0, <1>5 DEF TypeOK
    <2>2. sent'[p] = NoContext
      BY <1>0, <1>5 DEF SetInv, Prepares
    <2>3. Prepares(p)' /\ Sends(p)'
      BY <1>5, <1>c, <2>1, <2>2 DEF Prepares, Sends
    <2> QED
      BY <1>5, <1>b, <2>1, <2>3
  <1>6. ASSUME NEW p \in Procs, GetFreq(p) PROVE SetInv'
    <2>1. pc[p] \in {"get_freq", "cap_freq"} /\ UNCHANGED <<req, ids, pos, i, sent>>
      BY <1>6 DEF GetFreq
    <2>2. CASE pc[p] = "get_freq"
      <3>1. /\ flags' = [flags EXCEPT ![p] = @ \cup {"enable"}]
            /\ pc' = [pc EXCEPT ![p] = "set_param"]
        BY <1>6, <2>2 DEF GetFreq
      <3>2. /\ flags[p] = FlagsOf(req[p].flags) /\ sent[p] = NoContext
            /\ Holds(ids[p], req[p].items, Len(req[p].items))
        BY <1>0, <2>2 DEF SetInv, Prepares
      <3>3. pc'[p] = "set_param" /\ flags'[p] = FlagsOf(req[p].flags) \cup {"enable"}
        BY <1>0, <3>1, <3>2 DEF TypeOK
      <3>4. Prepares(p)' /\ Sends(p)'
        BY <1>c, <2>1, <3>2, <3>3 DEF Prepares, Sends
      <3>5. \A q \in Procs \ {p} : pc'[q] = pc[q] /\ flags'[q] = flags[q]
        BY <1>0, <3>1 DEF TypeOK
      <3> QED
        BY <1>b, <2>1, <3>4, <3>5
    <2>3. CASE pc[p] = "cap_freq"
      <3>1. pc' = [pc EXCEPT ![p] = "done"] /\ UNCHANGED flags
        BY <1>6, <2>3 DEF GetFreq
      <3> QED
        BY <1>5, <2>1, <2>3, <3>1
    <2> QED
      BY <2>1, <2>2, <2>3
  <1>7. ASSUME NEW p \in Procs, SetParam(p) \/ SetParamFails(p) PROVE SetInv'
    <2>1. /\ pc[p] = "set_param" /\ pc' = [pc EXCEPT ![p] = "done"]
          /\ sent' = [sent EXCEPT ![p] = Context(p)]
          /\ UNCHANGED <<req, flags, ids, pos, i>>
      BY <1>7, Zenon DEF SetParam, SetParamFails
    <2>2. req[p].name = "set" =>
            /\ flags[p] = FlagsOf(req[p].flags) \cup {"enable"}
            /\ Holds(ids[p], req[p].items, Len(req[p].items))
      BY <1>0, <2>1 DEF SetInv, Prepares
    <2>3. pc'[p] = "done" /\ sent'[p] = Context(p)
      BY <1>0, <2>1 DEF TypeOK
    <2>4. Context(p)' = Context(p)
      BY <2>1 DEF Context
    <2>5. Prepares(p)'
      BY <2>3 DEF Prepares
    <2>6. Sends(p)'
      BY <2>1, <2>2, <2>3, <2>4 DEF Sends
    <2>7. \A q \in Procs \ {p} : pc'[q] = pc[q] /\ sent'[q] = sent[q]
      BY <1>0, <2>1 DEF TypeOK
    <2> QED
      BY <1>b, <2>1, <2>5, <2>6, <2>7
  <1>8. ASSUME NEW p \in Procs, Gone(p) PROVE SetInv'
    <2>1. pc'[p] = "idle" /\ sent'[p] = NoContext
      BY <1>0, <1>8 DEF Gone, TypeOK
    <2>2. Prepares(p)' /\ Sends(p)'
      BY <1>c, <2>1 DEF Prepares, Sends
    <2>3. \A q \in Procs \ {p} :
            /\ pc'[q] = pc[q] /\ req'[q] = req[q] /\ flags'[q] = flags[q]
            /\ ids'[q] = ids[q] /\ pos'[q] = pos[q] /\ i'[q] = i[q] /\ sent'[q] = sent[q]
      BY <1>0, <1>8 DEF Gone, TypeOK
    <2> QED
      BY <1>b, <2>2, <2>3
  <1>9. ASSUME NEW p \in Procs, ParseFails(p) \/ MallocFails(p) \/ GetFreqFails(p) \/ Query(p)
        PROVE  SetInv'
    <2>1. /\ pc[p] # "done" /\ UNCHANGED <<req, flags, ids, pos, i, sent>>
          /\ \/ pc' = [pc EXCEPT ![p] = "done"]
             \/ pc' = [pc EXCEPT ![p] = "cap_debug"]
             \/ pc' = [pc EXCEPT ![p] = "cap_freq"]
      BY <1>9, Zenon DEF ParseFails, MallocFails, GetFreqFails, Query, QueryParam, QueryCntrs,
                         QueryFails, CapGeneral, CapDebug
    <2> QED
      BY <1>5, <2>1
  <1>10. CASE UNCHANGED vars
    BY <1>0, <1>10 DEF vars, SetInv, Prepares, Sends, Context
  <1> QED
    BY <1>1, <1>2, <1>3, <1>4, <1>6, <1>7, <1>8, <1>9, <1>10 DEF Next, Run, Set, Exit, Kill
-----------------------------------------------------------------------------
(* What is sent of the list held.                                           *)
LEMMA HeldIsAsked ==
  ASSUME TypeOK, SetInv, NEW p \in Procs, sent[p].flags # {}, req[p].name = "set",
         Len(req[p].items) < Width16
  PROVE  LET items == req[p].items
         IN  /\ sent[p].flags = FlagsOf(req[p].flags) \cup {"enable"}
             /\ Len(sent[p].ids) = Len(items)
             /\ \A m \in 1 .. Len(items) :
                  NotEmpty(items[m]) => sent[p].ids[Rank(items, m)] = U16(items[m])
             /\ \A k \in Rank(items, Len(items)) + 1 .. Len(items) : sent[p].ids[k] = Garbage
  <1> DEFINE items == req[p].items
  <1>1. /\ items \in Seq(Ids \cup {Empty}) /\ Len(items) \in Nat
        /\ ids[p] \in Seq(Ids \cup {Garbage})
    BY RequestTypes DEF TypeOK
  <1>2. /\ sent[p] = Context(p) /\ flags[p] = FlagsOf(req[p].flags) \cup {"enable"}
        /\ Holds(ids[p], items, Len(items))
    BY DEF SetInv, Sends
  <1>3. Len(ids[p]) = Len(items) /\ U16(Len(ids[p])) = Len(items)
    BY <1>1, <1>2, U16Type, Limits DEF Holds
  <1>4. /\ sent[p].flags = flags[p]
        /\ sent[p].ids = [k \in 1 .. Len(items) |-> IdField(ids[p][k])]
    BY <1>2, <1>3 DEF Context
  <1> HIDE DEF items
  <1>5. ASSUME NEW m \in 1 .. Len(items), NotEmpty(items[m])
        PROVE  sent[p].ids[Rank(items, m)] = U16(items[m])
    <2>1. Rank(items, m) \in 1 .. Len(items)
      <3>1. m \in Nat /\ m - 1 \in Nat /\ (m - 1) + 1 = m /\ m <= Len(items)
        BY <1>1
      <3>2. Rank(items, m) = Rank(items, m - 1) + 1
        <4>1. NotEmpty(items[(m - 1) + 1])
          BY <1>5, <3>1
        <4>2. Rank(items, (m - 1) + 1) = Rank(items, m - 1) + 1
          BY <3>1, <4>1, Ranks
        <4> QED
          BY <3>1, <4>2
      <3>3. Rank(items, m - 1) \in 0 .. m - 1
        BY <3>1, Ranks
      <3> QED
        BY <1>1, <3>1, <3>2, <3>3
    <2>2. ids[p][Rank(items, m)] = items[m]
      BY <1>2, <1>5 DEF Holds
    <2>3. items[m] # Garbage
      <3>1. items[m] \in Ids \cup {Empty}
        BY <1>1
      <3> QED
        BY <1>5, <3>1, ItemsAssumption DEF NotEmpty
    <2> QED
      BY <1>4, <2>1, <2>2, <2>3 DEF IdField
  <1>6. ASSUME NEW k \in Rank(items, Len(items)) + 1 .. Len(items)
        PROVE  sent[p].ids[k] = Garbage
    <2>1. k \in 1 .. Len(items)
      <3>1. Rank(items, Len(items)) \in 0 .. Len(items)
        BY <1>1, Ranks
      <3> QED
        BY <1>1, <3>1
    <2>2. ids[p][k] = Garbage
      BY <1>2 DEF Holds
    <2> QED
      BY <1>4, <2>1, <2>2 DEF IdField
  <1>7. Len(sent[p].ids) = Len(items)
    BY <1>1, <1>4
  <1> QED
    BY <1>2, <1>4, <1>5, <1>6, <1>7 DEF items

(* The inductive invariant holds in every reachable state.                 *)
LEMMA Invariance == Spec => []IInv
  <1>1. IInv /\ [Next]_vars => IInv'
    BY TypeStep, TokensStep, RepliesStep, SetStep DEF IInv
  <1> QED
    BY <1>1, InitInv, PTL DEF Spec

(* Every command of diagcnt keeps its variables, its messages and the      *)
(* device's configuration of their types, interrupted or not (diag_cnt.c). *)
THEOREM DiagCntType == Spec => []TypeOK
  <1>1. IInv => TypeOK
    BY DEF IInv
  <1> QED
    BY <1>1, Invariance, PTL

(* strtok never writes past the counter ids that were counted by commas,   *)
(* for any list of any length (do_set).                                    *)
THEOREM NoTokenPastTheList == Spec => []TokensInBounds
  <1>1. IInv => TokensInBounds
    BY DEF IInv
  <1> QED
    BY <1>1, Invariance, PTL

(* A param of up to 16375 lines and a dump of up to 4094 lines read their  *)
(* replies only inside their buffers, for any line count given.            *)
THEOREM RepliesInside == Spec => []RepliesReadInside
  <1>1. IInv => RepliesReadInside
    BY DEF IInv
  <1> QED
    BY <1>1, Invariance, PTL

(* Whatever the list and its empty items, whatever fails between: what set  *)
(* sends is its flags with enable, the low 16 bits of the ids in their      *)
(* order, and an unwritten element at the end for each empty item (do_set). *)
THEOREM SendsWhatWasAsked == Spec => []SentIsAsked
  <1>1. IInv => SentIsAsked
    BY HeldIsAsked DEF IInv, SentIsAsked
  <1> QED
    BY <1>1, Invariance, PTL
=============================================================================
