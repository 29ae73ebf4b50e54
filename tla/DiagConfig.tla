------------------------------ MODULE DiagConfig ------------------------------
(***************************************************************************)
(* What `mlx5ctl diagcnt' promises its users: the device has one sampling  *)
(* configuration; a request of a process takes effect as a whole, at one   *)
(* moment between its start and its end, or not at all; and the process    *)
(* ends with success only if it took effect.  `param' shows the            *)
(* configuration of the latest set (README.md, "Diagnostic query param").  *)
(* That is promised of the requests whose arguments say what to set or to  *)
(* show (Defined).  The others are as much a request, with one moment and  *)
(* with success only if they took effect, but what they set, or show, can  *)
(* be any list.                                                            *)
(***************************************************************************)
EXTENDS Integers, Sequences

CONSTANTS
  Procs,     \* the processes
  Requests,  \* what they may ask: [name, flags, items, n]
  Defined,   \* the requests whose arguments say what to set or to show
  Configs,   \* every configuration: [flags, ids]
  Views,     \* all that `param' can print: [flags, ids]
  Unsure     \* TRUE: a request that is reported as failed may have taken effect

VARIABLES
  state,  \* of each process: "idle", "pending", "ok" or "failed"
  req,    \* its request, of no meaning while it is idle
  conf,   \* the configuration of the device
  shown   \* what its `param' printed

absvars == <<state, req, conf, shown>>

Nothing == [flags |-> {}, ids |-> <<>>]
Off == [flags |-> {"clear"}, ids |-> <<>>]

(* The configurations a request may leave. *)
Effects(r) ==
  LET asked == r.flags \cup {"enable"}
  IN  CASE r.name = "set" /\ r \in Defined -> {[flags |-> asked, ids |-> r.items]}
        [] r.name = "set" /\ r \notin Defined -> {c \in Configs : c.flags = asked}
        [] r.name = "disable" -> {Off}
        [] OTHER -> {conf}

(* The configuration with its first n counters. *)
View(c, n) ==
  [flags |-> c.flags, ids |-> SubSeq(c.ids, 1, IF n < Len(c.ids) THEN n ELSE Len(c.ids))]

Shows(r) == IF r \in Defined THEN {View(conf, r.n)} ELSE Views

Init ==
  /\ state = [p \in Procs |-> "idle"]
  /\ req \in [Procs -> Requests]
  /\ conf = Nothing
  /\ shown = [p \in Procs |-> Nothing]

Ask(p) ==
  /\ state[p] = "idle"
  /\ state' = [state EXCEPT ![p] = "pending"]
  /\ \E r \in Requests : req' = [req EXCEPT ![p] = r]
  /\ UNCHANGED <<conf, shown>>

Carry(p) ==
  /\ state[p] = "pending"
  /\ state' = [state EXCEPT ![p] = "ok"]
  /\ conf' \in Effects(req[p])
  /\ shown' = [shown EXCEPT ![p] = shown'[p]]
  /\ IF req[p].name = "param" THEN shown'[p] \in Shows(req[p]) ELSE shown'[p] = shown[p]
  /\ UNCHANGED req

Fail(p) ==
  /\ state[p] = "pending"
  /\ state' = [state EXCEPT ![p] = "failed"]
  /\ conf' = conf \/ (Unsure /\ conf' \in Effects(req[p]))
  /\ UNCHANGED <<req, shown>>

(* The process ends, or is killed before its request took effect. *)
Leave(p) ==
  /\ state[p] # "idle"
  /\ state' = [state EXCEPT ![p] = "idle"]
  /\ \E r \in Requests : req' = [req EXCEPT ![p] = r]
  /\ shown' = [shown EXCEPT ![p] = Nothing]
  /\ UNCHANGED conf

Next == \E p \in Procs : Ask(p) \/ Carry(p) \/ Fail(p) \/ Leave(p)

Spec == Init /\ [][Next]_absvars
=============================================================================
