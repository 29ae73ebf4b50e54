------------------------------ MODULE Mlx5Ctl ------------------------------
(***************************************************************************)
(* The frame of the mlx5ctl program: main and cmd_select of mlx5ctlu.c,    *)
(* the search for the device to open and its close in mlx5ctl_misc.c, and  *)
(* what every command makes of a failure on the way to the exit status.    *)
(*                                                                         *)
(* One process runs while PCI functions come and go (processes of mlx5ctl  *)
(* do not meet here).  A function that is plugged in gets the lowest free  *)
(* number, its char device being /dev/fwctl/fwctl<number>, so a number can *)
(* name another function a moment later.  The user names the device by     *)
(* number, by fwctl name or by sysfs name.  For the last, the program      *)
(* lists /sys/class/fwctl, looks at each entry in turn, and then opens the *)
(* path it made up for the entry that matches, in a world that may change  *)
(* in between.                                                             *)
(***************************************************************************)
EXTENDS Integers, Sequences, FiniteSets

CONSTANTS
  Funcs,      \* PCI functions with a fwctl driver
  Mlx5,       \* those of mlx5_core
  Denied,     \* those whose char device the user may not open
  NSlots,     \* fwctl numbers are 0 .. NSlots-1
  None,       \* no function
  MaxPlugs,   \* bound on plug and unplug events
  Commands    \* the commands users give

ASSUME FuncsAssumption == Mlx5 \subseteq Funcs /\ Denied \subseteq Funcs /\ None \notin Funcs
ASSUME BoundsAssumption == NSlots \in Nat \ {0} /\ MaxPlugs \in Nat
ASSUME CommandsAssumption ==
  Commands \subseteq {"info", "cap", "caps", "reg", "obj", "diagcnt", "rscdump", "unknown"}

VARIABLES
  slot,     \* external: the function behind each fwctl number
  plugs,    \* external: plug events so far
  moved,    \* external: a plug event since the program began to scan
  pc,       \* where the process stands
  name,     \* the device named on its command line
  cmd,      \* the command, and whether it is behind a `sleep'
  todo,     \* entries of /sys/class/fwctl still to look at
  found,    \* devs[]: what the scan found
  fd,       \* the function that was opened
  outcome,  \* what became of the command itself
  exit      \* the exit status, once it is known

world == <<slot, plugs, moved>>
line == <<name, cmd>>
vars == <<slot, plugs, moved, pc, name, cmd, todo, found, fd, outcome, exit>>

Slot == 0 .. NSlots - 1
Entry == [n: Slot, mdev: Funcs]
Name == [by: {"number", "fwctl"}, n: Slot] \cup [by: {"sysfs"}, mdev: Funcs]
Command == [do: Commands, asleep: BOOLEAN]

Init ==
  /\ slot \in [Slot -> Funcs \cup {None}]
  /\ \A m, n \in Slot : m # n /\ slot[m] # None => slot[m] # slot[n]
  /\ plugs = 0 /\ moved = FALSE
  /\ pc = "open"
  /\ name \in Name
  /\ cmd \in Command
  /\ todo = <<>> /\ found = <<>>
  /\ fd = None
  /\ outcome = "none" /\ exit = -1

(***************************************************************************)
(* The outside world: functions come and go.                               *)
(***************************************************************************)
Present == {slot[n] : n \in Slot} \ {None}

Change(n, f) ==
  /\ plugs < MaxPlugs
  /\ plugs' = plugs + 1
  /\ slot' = [slot EXCEPT ![n] = f]
  /\ moved' = (moved \/ pc \in {"check", "match"})
  /\ UNCHANGED <<pc, line, todo, found, fd, outcome, exit>>

Unplug == \E n \in Slot : slot[n] # None /\ Change(n, None)

Plug ==
  \E f \in Funcs \ Present, n \in Slot :
    /\ slot[n] = None
    /\ \A m \in Slot : m < n => slot[m] # None
    /\ Change(n, f)

(***************************************************************************)
(* find_dev.  A number or a fwctl name is tried as a path first; a sysfs   *)
(* name tried that way does not exist.  Whatever is behind the path is     *)
(* opened, of mlx5_core or not.                                            *)
(***************************************************************************)
Openable(n) == slot[n] # None /\ slot[n] \notin Denied

Opens(n) ==
  /\ Openable(n)
  /\ fd' = slot[n]
  /\ pc' = "cmd"

(* main: err_msg("Failed to open device") and return 1. *)
NotFound == pc' = "exited" /\ exit' = 1

OpenPath ==
  /\ pc = "open"
  /\ IF name.by # "sysfs" /\ Openable(name.n)
     THEN Opens(name.n)
     ELSE pc' = "glob" /\ UNCHANGED fd
  /\ UNCHANGED <<world, line, todo, found, outcome, exit>>

(* _scan_ctl_devs: list the entries (glob sorts them), ... *)
Sorted(S) == {s \in [1 .. Cardinality(S) -> S] : \A i, j \in DOMAIN s : i < j => s[i] < s[j]}

Glob ==
  /\ pc = "glob"
  /\ todo' \in Sorted({n \in Slot : slot[n] # None})
  /\ IF todo' = <<>> THEN NotFound ELSE pc' = "check" /\ UNCHANGED exit
  /\ UNCHANGED <<world, line, found, fd, outcome>>

(* ... check_fwctl each of them and keep those of mlx5_core ... *)
CheckAnyDriver ==  \* mutant: the driver is not looked at
  /\ pc = "check" /\ todo # <<>>
  /\ found' = Append(found, [n |-> Head(todo), mdev |-> slot[Head(todo)]])
  /\ todo' = Tail(todo)
  /\ UNCHANGED <<world, pc, line, fd, outcome, exit>>
Check ==
  /\ pc = "check" /\ todo # <<>>
  /\ found' = IF slot[Head(todo)] \in Mlx5
              THEN Append(found, [n |-> Head(todo), mdev |-> slot[Head(todo)]])
              ELSE found
  /\ todo' = Tail(todo)
  /\ UNCHANGED <<world, pc, line, fd, outcome, exit>>

Checked ==
  /\ pc = "check" /\ todo = <<>>
  /\ pc' = "match"
  /\ UNCHANGED <<world, line, todo, found, fd, outcome, exit>>

(* ... and open the entries that match, in turn, by the path made up for them. *)
MatchesAny(e) == name.by = "sysfs"  \* mutant: the names are not compared
Matches(e) == name.by = "sysfs" /\ e.mdev = name.mdev

MatchFirst ==  \* mutant: only the first entry is tried
  /\ pc = "match" /\ found # <<>>
  /\ LET e == Head(found) IN
       IF Matches(e) /\ Openable(e.n) THEN Opens(e.n) /\ UNCHANGED exit
                                     ELSE NotFound /\ UNCHANGED fd
  /\ UNCHANGED <<world, line, todo, found, outcome>>
Match ==
  /\ pc = "match" /\ found # <<>>
  /\ LET e == Head(found) IN
       IF Matches(e) /\ Openable(e.n) THEN Opens(e.n) ELSE UNCHANGED <<pc, fd>>
  /\ found' = Tail(found)
  /\ UNCHANGED <<world, line, todo, outcome, exit>>

NoMatch ==
  /\ pc = "match" /\ found = <<>>
  /\ NotFound
  /\ UNCHANGED <<world, line, todo, found, fd, outcome>>

(***************************************************************************)
(* cmd_select and the command.  `sleep' runs the rest of its command line  *)
(* first, drops its result, sleeps and returns 0.  A command either does   *)
(* what it is for ("ok") or fails: its ioctl fails, as all do once the     *)
(* function is gone ("ioctl"), or the firmware refuses ("status").         *)
(***************************************************************************)
Outcomes ==
  CASE cmd.do = "unknown" -> {"ioctl"}  \* nothing is sent
    [] fd \notin Present -> {"ioctl"}
    [] cmd.do = "info" -> IF fd \in Mlx5 THEN {"ok", "ioctl"} ELSE {"ioctl"}
    [] OTHER -> {"ok", "ioctl", "status"}

Status == 3  \* some positive firmware status

(* What the call into the device returns, ... *)
mlx5u_cmd(o) == CASE o = "ok" -> 0 [] o = "ioctl" -> -1 [] o = "status" -> Status

(* ... and what the functions of the commands make of it: `cap' with and    *)
(* without a capability, `obj', the dumps, and those that pass it on.       *)
do_devcap(r) == IF r # 0 THEN 1 ELSE 0
do_devcap_all(r) == 0
query_obj(r) == IF r < 0 THEN 1 ELSE 0
do_rscdump(r) == 0

Returns(c, r) ==
  CASE c = "cap" -> do_devcap(r)
    [] c = "caps" -> do_devcap_all(r)
    [] c = "obj" -> query_obj(r)
    [] c = "rscdump" -> do_rscdump(r)
    [] c \in {"info", "reg", "diagcnt", "unknown"} -> r

(* The exit status is the magnitude of the result, in eight bits. *)
ExitStatus(r) == (IF r > 0 THEN r ELSE -r) % 256

Run ==
  /\ pc = "cmd"
  /\ outcome' \in Outcomes
  /\ exit' = IF cmd.asleep THEN 0 ELSE ExitStatus(Returns(cmd.do, mlx5u_cmd(outcome')))
  /\ pc' = IF cmd.asleep THEN "sleep" ELSE "close"
  /\ UNCHANGED <<world, line, todo, found, fd>>

Sleep ==
  /\ pc = "sleep"
  /\ pc' = "close"
  /\ UNCHANGED <<world, line, todo, found, fd, outcome, exit>>

Close ==
  /\ pc = "close"
  /\ pc' = "exited"
  /\ fd' = None
  /\ UNCHANGED <<world, line, todo, found, outcome, exit>>

Search == OpenPath \/ Glob \/ Check \/ Checked \/ Match \/ NoMatch

Proceed == Search \/ Run \/ Sleep \/ Close

Next == Unplug \/ Plug \/ Proceed

Spec == Init /\ [][Next]_vars
-----------------------------------------------------------------------------
TypeOK ==
  /\ slot \in [Slot -> Funcs \cup {None}]
  /\ plugs \in 0 .. MaxPlugs /\ moved \in BOOLEAN
  /\ pc \in {"open", "glob", "check", "match", "cmd", "sleep", "close", "exited"}
  /\ name \in Name /\ cmd \in Command
  /\ todo \in Seq(Slot) /\ found \in Seq(Entry)
  /\ fd \in Funcs \cup {None}
  /\ outcome \in {"none", "ok", "ioctl", "status"}
  /\ exit \in -1 .. 255

(* A device named by its sysfs name is the one that is opened, and it is of *)
(* mlx5_core, although it is opened by a number: unless functions came or   *)
(* went between the scan and the open.                                      *)
OpensWhatWasNamed ==
  pc \in {"cmd", "sleep", "close"} /\ name.by = "sysfs" /\ ~moved =>
    fd = name.mdev /\ fd \in Mlx5

(* "device not found" is true: a search by sysfs name that gives up without *)
(* the world having moved gives up only on a device that is not there, not  *)
(* of mlx5_core or not openable.                                            *)
NotFoundIsTrue ==
  [][pc # "exited" /\ pc' = "exited" /\ outcome = "none" /\ name.by = "sysfs" /\ ~moved
       => name.mdev \notin (Present \cap Mlx5) \ Denied]_vars

(* scripts/check-readme-compat.sh runs the commands of README.md and takes  *)
(* their exit status for their success ("The command ... failed."): an      *)
(* invocation that opened its device and did not do what it was asked for   *)
(* exits with a non-zero status.  None of those commands is behind `sleep'. *)
ExitStatusTells ==
  pc = "exited" /\ ~cmd.asleep /\ outcome \in {"ioctl", "status"} => exit # 0
=============================================================================
