---------------------------- MODULE Mlx5CtlProof ----------------------------
(***************************************************************************)
(* Proofs about Mlx5Ctl, for any functions, numbers and plug events.       *)
(*                                                                         *)
(* What the user is told about a device named by its sysfs name is said of *)
(* the moment the program opens it or gives up, but decided by a list made *)
(* before.  The invariant keeps list and world together: as long as the    *)
(* world has not moved, what was found is there (FoundTrue), and what is   *)
(* there to be found is in the list or still to be looked at (Seen).       *)
(***************************************************************************)
EXTENDS Mlx5Ctl, FiniteSetTheorems, TLAPS

Searching == name.by = "sysfs" /\ ~moved /\ pc \in {"check", "match"}

FoundTrue ==
  Searching => \A i \in 1 .. Len(found) :
                 found[i].mdev \in Mlx5 /\ slot[found[i].n] = found[i].mdev

Wanted(n) == slot[n] = name.mdev /\ name.mdev \in Mlx5 \ Denied

Seen ==
  Searching =>
    \A n \in Slot : Wanted(n) =>
      \/ \E i \in 1 .. Len(todo) : todo[i] = n
      \/ \E i \in 1 .. Len(found) : found[i].n = n /\ found[i].mdev = name.mdev

Progress ==
  /\ pc \in {"open", "glob"} => found = <<>>
  /\ pc = "match" => todo = <<>>
  /\ pc \in {"sleep", "close"} => outcome # "none"

Inv == FoundTrue /\ Seen /\ Progress /\ OpensWhatWasNamed

(* The types, without the truth values. *)
DataOK ==
  /\ slot \in [Slot -> Funcs \cup {None}]
  /\ plugs \in 0 .. MaxPlugs
  /\ pc \in {"open", "glob", "check", "match", "cmd", "sleep", "close", "exited"}
  /\ name \in Name /\ cmd.do \in Commands
  /\ todo \in Seq(Slot) /\ found \in Seq(Entry)
  /\ fd \in Funcs \cup {None}
  /\ outcome \in {"none", "ok", "ioctl", "status"}
  /\ exit \in -1 .. 255
-----------------------------------------------------------------------------
(* The list glob makes of a set of numbers holds each of them.               *)
LEMMA SortedSeq ==
  ASSUME NEW S \in SUBSET Slot, NEW s \in Sorted(S)
  PROVE  /\ s \in Seq(Slot)
         /\ s = <<>> => S = {}
         /\ \A n \in S : \E i \in 1 .. Len(s) : s[i] = n
  <1>1. IsFiniteSet(S)
    <2>1. IsFiniteSet(Slot)
      <3>1. NSlots - 1 \in Int
        BY BoundsAssumption
      <3> QED
        BY <3>1, FS_Interval DEF Slot
    <2> QED
      BY <2>1, FS_Subset, Zenon
  <1>2. Cardinality(S) \in Nat
    BY <1>1, FS_CardinalityType
  <1>3. /\ s \in [1 .. Cardinality(S) -> S]
        /\ \A i, j \in 1 .. Cardinality(S) : i < j => s[i] < s[j]
    BY DEF Sorted
  <1>4. s \in Seq(Slot) /\ Len(s) = Cardinality(S)
    BY <1>2, <1>3
  <1>5. s \in Injection(1 .. Cardinality(S), S)
    <2>1. ASSUME NEW i \in 1 .. Cardinality(S), NEW j \in 1 .. Cardinality(S), s[i] = s[j]
          PROVE  i = j
      <3>1. s[i] \in Int /\ s[j] \in Int
        BY <1>3, Slot \subseteq Int, BoundsAssumption DEF Slot
      <3> QED
        BY <1>2, <1>3, <2>1, <3>1
    <2> QED
      BY <1>3, <2>1 DEF Injection, IsInjective
  <1>6. s \in Surjection(1 .. Cardinality(S), S)
    <2>1. Cardinality(1 .. Cardinality(S)) = Cardinality(S)
      BY <1>2, FS_Interval
    <2> QED
      BY <1>1, <1>5, <2>1, FS_Injection
  <1>7. \A n \in S : \E i \in 1 .. Len(s) : s[i] = n
    BY <1>4, <1>6 DEF Surjection
  <1> QED
    BY <1>4, <1>7

(* Every result a command can have is one of three, ...                      *)
LEMMA OutcomeType == Outcomes \subseteq {"ok", "ioctl", "status"}
  BY DEF Outcomes

(* ... and the exit status is a byte.                                        *)
LEMMA ExitType ==
  ASSUME NEW c \in Commands, NEW o \in {"ok", "ioctl", "status"}
  PROVE  ExitStatus(Returns(c, mlx5u_cmd(o))) \in 0 .. 255
  <1>1. mlx5u_cmd(o) \in {-1, 0, 3}
    BY DEF mlx5u_cmd, Status
  <1>2. Returns(c, mlx5u_cmd(o)) \in {-1, 0, 1, 3}
    BY <1>1, CommandsAssumption
       DEF Returns, do_devcap, do_devcap_all, query_obj, do_rscdump
  <1> QED
    BY <1>2 DEF ExitStatus
-----------------------------------------------------------------------------
(* The program starts with nothing found and nothing opened.                 *)
LEMMA InitInv == Init => DataOK /\ Inv
  <1> SUFFICES ASSUME Init PROVE DataOK /\ Inv
    OBVIOUS
  <1>1. DataOK
    BY BoundsAssumption DEF Init, DataOK, Command
  <1>2. Inv
    BY DEF Init, Inv, FoundTrue, Seen, Progress, OpensWhatWasNamed, Searching
  <1> QED
    BY <1>1, <1>2

(* Every step of the program and of the world keeps the types.               *)
LEMMA DataStep == ASSUME DataOK, [Next]_vars PROVE DataOK'
  <1> USE DEF DataOK, world, line
  <1>1. ASSUME NEW n \in Slot, NEW f \in Funcs \cup {None}, Change(n, f) PROVE DataOK'
    BY <1>1, BoundsAssumption DEF Change
  <1>2. CASE Unplug
    BY <1>1, <1>2 DEF Unplug
  <1>3. CASE Plug
    BY <1>1, <1>3 DEF Plug
  <1>4. ASSUME NEW n \in Slot PROVE Openable(n) => slot[n] \in Funcs
    BY DEF Openable
  <1>5. CASE OpenPath
    <2>1. name.by # "sysfs" => name.n \in Slot
      BY DEF Name
    <2> QED
      BY <1>4, <1>5, <2>1 DEF OpenPath, Opens
  <1>6. CASE Glob
    <2>1. todo' \in Seq(Slot)
      BY <1>6, SortedSeq DEF Glob
    <2>2. (pc' = "exited" /\ exit' = 1) \/ (pc' = "check" /\ exit' = exit)
      BY <1>6, Zenon DEF Glob, NotFound
    <2>3. pc' \in {"exited", "check"} /\ exit' \in -1 .. 255
      <3>1. exit \in -1 .. 255 /\ 1 \in -1 .. 255
        OBVIOUS
      <3> QED
        BY <2>2, <3>1, Zenon
    <2>4. UNCHANGED <<slot, plugs, name, cmd, found, fd, outcome>>
      BY <1>6 DEF Glob
    <2> QED
      BY <2>1, <2>3, <2>4
  <1>7. CASE Check
    <2>1. Head(todo) \in Slot /\ todo' \in Seq(Slot)
      BY <1>7 DEF Check
    <2>2. slot[Head(todo)] \in Mlx5 =>
            [n |-> Head(todo), mdev |-> slot[Head(todo)]] \in Entry
      BY <2>1, FuncsAssumption DEF Entry
    <2>3. found' \in Seq(Entry)
      BY <1>7, <2>2 DEF Check
    <2> QED
      BY <1>7, <2>1, <2>3 DEF Check
  <1>8. CASE Checked
    BY <1>8 DEF Checked
  <1>9. CASE Match
    <2>1. Head(found) \in Entry /\ found' \in Seq(Entry)
      BY <1>9 DEF Match
    <2>2. Head(found).n \in Slot
      BY <2>1 DEF Entry
    <2> QED
      BY <1>4, <1>9, <2>1, <2>2 DEF Match, Opens
  <1>10. CASE NoMatch
    BY <1>10 DEF NoMatch, NotFound
  <1>11. CASE Run
    <2>1. outcome' \in {"ok", "ioctl", "status"}
      BY <1>11, OutcomeType DEF Run
    <2>2. ExitStatus(Returns(cmd.do, mlx5u_cmd(outcome'))) \in 0 .. 255
      BY <2>1, ExitType
    <2>3. exit' \in -1 .. 255
      BY <1>11, <2>2 DEF Run
    <2>4. pc' \in {"sleep", "close"}
      BY <1>11, Zenon DEF Run
    <2> QED
      BY <1>11, <2>1, <2>3, <2>4 DEF Run
  <1>12. CASE Sleep \/ Close
    <2>1. CASE Sleep
      BY <2>1 DEF Sleep
    <2>2. CASE Close
      BY <2>2 DEF Close
    <2> QED
      BY <1>12, <2>1, <2>2
  <1>13. CASE UNCHANGED vars
    BY <1>13 DEF vars
  <1> QED
    BY <1>2, <1>3, <1>5, <1>6, <1>7, <1>8, <1>9, <1>10, <1>11, <1>12, <1>13
       DEF Next, Proceed, Search

(* The two truth values: `moved' stays one, and nothing writes to the command *)
(* line.                                                                      *)
LEMMA FlagStep ==
  moved \in BOOLEAN /\ cmd \in Command /\ [Next]_vars => moved' \in BOOLEAN /\ cmd' \in Command
  <1> SUFFICES ASSUME moved \in BOOLEAN, cmd \in Command, [Next]_vars
               PROVE  moved' \in BOOLEAN /\ cmd' \in Command
    OBVIOUS
  <1>1. CASE Unplug \/ Plug
    <2>1. moved' = (moved \/ pc \in {"check", "match"}) /\ cmd' = cmd
      BY <1>1, Zenon DEF Unplug, Plug, Change, line
    <2> QED
      BY <2>1, Zenon DEF Command
  <1>2. CASE Proceed \/ UNCHANGED vars
    <2>1. moved' = moved /\ cmd' = cmd
      BY <1>2, Zenon
         DEF Proceed, Search, OpenPath, Glob, Check, Checked, Match, NoMatch, Run, Sleep, Close,
             vars, world, line
    <2> QED
      BY <2>1, Zenon DEF Command
  <1> QED
    BY <1>1, <1>2 DEF Next
-----------------------------------------------------------------------------
(* Functions come and go: during the search that is remembered, after it the *)
(* device is open already.                                                   *)
LEMMA WorldStep == ASSUME Inv, Unplug \/ Plug PROVE Inv'
  <1>1. /\ UNCHANGED <<pc, name, todo, found, fd, outcome>>
        /\ moved' = (moved \/ pc \in {"check", "match"})
    BY Zenon DEF Unplug, Plug, Change, line
  <1>2. ~Searching'
    BY <1>1, Zenon DEF Searching
  <1>3. FoundTrue' /\ Seen'
    BY <1>2, Zenon DEF FoundTrue, Seen
  <1>4. Progress' /\ OpensWhatWasNamed'
    BY <1>1, Zenon DEF Inv, Progress, OpensWhatWasNamed
  <1> QED
    BY <1>3, <1>4, Zenon DEF Inv

(* A path can only be tried with a number, so it opens no sysfs name.        *)
LEMMA OpenPathStep == ASSUME Inv, OpenPath PROVE Inv'
  <1>1. /\ pc = "open" /\ UNCHANGED <<name, moved, outcome, todo, found>>
        /\ \/ pc' = "cmd" /\ name.by # "sysfs"
           \/ pc' = "glob"
    BY Zenon DEF OpenPath, Opens, world, line
  <1>2. ~Searching' /\ pc' \notin {"match", "sleep", "close"}
    BY <1>1 DEF Searching
  <1>3. OpensWhatWasNamed'
    BY <1>1 DEF OpensWhatWasNamed
  <1> QED
    BY <1>1, <1>2, <1>3 DEF Inv, FoundTrue, Seen, Progress

(* The list holds every number there is.                                     *)
LEMMA GlobStep == ASSUME DataOK, Inv, Glob PROVE Inv'
  <1> DEFINE T == {n \in Slot : slot[n] # None}
  <1>1. /\ UNCHANGED <<slot, name, found, outcome>>
        /\ pc' \in {"exited", "check"}
        /\ todo' \in Sorted(T)
        /\ found = <<>>
    BY DEF Glob, NotFound, world, line, Inv, Progress
  <1>2. \A n \in T : \E i \in 1 .. Len(todo') : todo'[i] = n
    BY <1>1, SortedSeq
  <1>3. \A n \in Slot : Wanted(n)' => n \in T
    BY <1>1, FuncsAssumption DEF Wanted
  <1>4. Seen'
    BY <1>2, <1>3, Zenon DEF Seen
  <1>5. FoundTrue'
    BY <1>1 DEF FoundTrue
  <1>6. Progress' /\ OpensWhatWasNamed'
    BY <1>1 DEF Progress, OpensWhatWasNamed
  <1> QED
    BY <1>4, <1>5, <1>6 DEF Inv

(* A number that was looked at is in devs[] if its function is wanted.       *)
LEMMA CheckStep == ASSUME DataOK, Inv, Check PROVE Inv'
  <1>1. /\ pc = "check" /\ todo # <<>>
        /\ todo' = Tail(todo)
        /\ UNCHANGED <<slot, moved, pc, name, outcome>>
    BY DEF Check, world, line
  <1>2. found' = IF slot[Head(todo)] \in Mlx5
                 THEN Append(found, [n |-> Head(todo), mdev |-> slot[Head(todo)]])
                 ELSE found
    BY DEF Check
  <1>3. todo \in Seq(Slot) /\ found \in Seq(Entry)
    BY DEF DataOK
  <1>4. Searching' <=> Searching
    BY <1>1, Zenon DEF Searching
  <1> DEFINE e == [n |-> Head(todo), mdev |-> slot[Head(todo)]]
  <1>5. e.n = Head(todo) /\ e.mdev = slot[Head(todo)]
    OBVIOUS
  <1> HIDE DEF e
  <1>6. \/ slot[Head(todo)] \in Mlx5 /\ found' = Append(found, e)
        \/ slot[Head(todo)] \notin Mlx5 /\ found' = found
    BY <1>2 DEF e
  <1>7. \A i \in 1 .. Len(found) : i \in 1 .. Len(found') /\ found'[i] = found[i]
    <2>1. slot[Head(todo)] \in Mlx5 => e \in Entry
      BY <1>1, <1>3, <1>5, FuncsAssumption DEF Entry, e
    <2> QED
      BY <1>3, <1>6, <2>1
  <1>8. FoundTrue'
    <2> SUFFICES ASSUME Searching, NEW i \in 1 .. Len(found')
                 PROVE  found'[i].mdev \in Mlx5 /\ slot[found'[i].n] = found'[i].mdev
      BY <1>1, <1>4 DEF FoundTrue
    <2>1. CASE i \in 1 .. Len(found)
      BY <1>7, <2>1 DEF Inv, FoundTrue
    <2>2. CASE i \notin 1 .. Len(found)
      <3>1. slot[Head(todo)] \in Mlx5 /\ found'[i] = e
        BY <1>3, <1>6, <2>2
      <3> QED
        BY <1>5, <3>1
    <2> QED
      BY <2>1, <2>2
  <1>9. Seen'
    <2> SUFFICES ASSUME Searching, NEW k \in Slot, Wanted(k)
                 PROVE  \/ \E i \in 1 .. Len(todo') : todo'[i] = k
                        \/ \E i \in 1 .. Len(found') :
                             found'[i].n = k /\ found'[i].mdev = name.mdev
      BY <1>1, <1>4 DEF Seen, Wanted, Slot
    <2>1. CASE \E i \in 1 .. Len(found) : found[i].n = k /\ found[i].mdev = name.mdev
      BY <1>7, <2>1
    <2>2. CASE \E i \in 1 .. Len(todo) : todo[i] = k
      <3>1. PICK i \in 1 .. Len(todo) : todo[i] = k
        BY <2>2
      <3>2. CASE i = 1
        <4>1. Head(todo) = k /\ slot[Head(todo)] \in Mlx5 /\ slot[Head(todo)] = name.mdev
          BY <1>1, <1>3, <3>1, <3>2 DEF Wanted
        <4>2. found' = Append(found, e)
          BY <1>6, <4>1
        <4>3. Len(found) + 1 \in 1 .. Len(found') /\ found'[Len(found) + 1] = e
          BY <1>3, <4>2
        <4> QED
          BY <1>5, <4>1, <4>3
      <3>3. CASE i # 1
        <4>1. i - 1 \in 1 .. Len(todo') /\ todo'[i - 1] = k
          BY <1>1, <1>3, <3>1, <3>3
        <4> QED
          BY <4>1
      <3> QED
        BY <3>2, <3>3
    <2> QED
      BY <2>1, <2>2 DEF Inv, Seen
  <1>10. Progress' /\ OpensWhatWasNamed'
    BY <1>1 DEF Progress, OpensWhatWasNamed
  <1> QED
    BY <1>8, <1>9, <1>10 DEF Inv

(* What matches is opened; what is passed over was not wanted.               *)
LEMMA MatchStep == ASSUME DataOK, Inv, Match PROVE Inv'
  <1> DEFINE e == Head(found)
  <1>1. /\ pc = "match" /\ found # <<>> /\ found' = Tail(found)
        /\ UNCHANGED <<slot, moved, name, todo, outcome>>
    BY DEF Match, world, line
  <1>2. \/ Matches(e) /\ Openable(e.n) /\ fd' = slot[e.n] /\ pc' = "cmd"
        \/ ~(Matches(e) /\ Openable(e.n)) /\ pc' = pc
    BY Zenon DEF Match, Opens
  <1>3. found \in Seq(Entry) /\ e = found[1] /\ 1 \in 1 .. Len(found)
    BY <1>1 DEF DataOK
  <1>4. todo = <<>>
    BY <1>1 DEF Inv, Progress
  <1>5. Searching' => Searching
    BY <1>1, <1>2, Zenon DEF Searching
  <1> HIDE DEF e
  <1>6. \A i \in 1 .. Len(found') : i + 1 \in 1 .. Len(found) /\ found'[i] = found[i + 1]
    BY <1>1, <1>3
  <1>7. FoundTrue'
    BY <1>1, <1>5, <1>6 DEF Inv, FoundTrue
  <1>8. Seen'
    <2> SUFFICES ASSUME Searching', NEW k \in Slot, Wanted(k)
                 PROVE  \E i \in 1 .. Len(found') :
                          found'[i].n = k /\ found'[i].mdev = name.mdev
      BY <1>1 DEF Seen, Wanted, Slot
    <2>1. PICK i \in 1 .. Len(found) : found[i].n = k /\ found[i].mdev = name.mdev
      BY <1>4, <1>5 DEF Inv, Seen
    <2>2. i # 1
      <3>1. ~(Matches(e) /\ Openable(e.n))
        BY <1>2 DEF Searching
      <3>2. Openable(k) /\ name.by = "sysfs"
        BY <1>5, FuncsAssumption DEF Openable, Wanted, Searching
      <3> QED
        BY <1>3, <2>1, <3>1, <3>2 DEF Matches
    <2>3. i - 1 \in 1 .. Len(found') /\ found'[i - 1] = found[i]
      BY <1>1, <1>3, <2>2
    <2> QED
      BY <2>1, <2>3
  <1>9. OpensWhatWasNamed'
    <2> SUFFICES ASSUME pc' = "cmd", name.by = "sysfs", ~moved
                 PROVE  fd' = name.mdev /\ fd' \in Mlx5
      BY <1>1, <1>2 DEF OpensWhatWasNamed
    <2>1. Searching
      BY <1>1, Zenon DEF Searching
    <2>2. Matches(e) /\ fd' = slot[e.n]
      BY <1>1, <1>2
    <2> QED
      BY <1>3, <2>1, <2>2 DEF Inv, FoundTrue, Matches
  <1>10. Progress'
    BY <1>1, <1>2, <1>4 DEF Progress
  <1> QED
    BY <1>7, <1>8, <1>9, <1>10 DEF Inv

(* From the open device on, only the command's outcome is added.             *)
LEMMA RestStep ==
  ASSUME DataOK, Inv, Checked \/ NoMatch \/ Run \/ Sleep \/ Close \/ UNCHANGED vars
  PROVE  Inv'
  <1>1. CASE Checked
    <2>1. /\ pc = "check" /\ pc' = "match" /\ todo = <<>>
          /\ UNCHANGED <<slot, moved, name, todo, found, outcome>>
      BY <1>1 DEF Checked, world, line
    <2>2. Searching' <=> Searching
      BY <2>1, Zenon DEF Searching
    <2>3. FoundTrue' /\ Seen'
      BY <2>1, <2>2 DEF Inv, FoundTrue, Seen, Wanted, Slot
    <2>4. Progress' /\ OpensWhatWasNamed'
      BY <2>1 DEF Progress, OpensWhatWasNamed
    <2> QED
      BY <2>3, <2>4 DEF Inv
  <1>2. CASE NoMatch \/ Close
    <2>1. pc' = "exited"
      BY <1>2, Zenon DEF NoMatch, NotFound, Close
    <2> QED
      BY <2>1 DEF Inv, FoundTrue, Seen, Progress, OpensWhatWasNamed, Searching
  <1>3. CASE Run
    <2>1. pc = "cmd" /\ pc' \in {"sleep", "close"} /\ UNCHANGED <<moved, name, fd>>
      BY <1>3, Zenon DEF Run, world, line
    <2>2. outcome' # "none"
      BY <1>3, OutcomeType DEF Run
    <2> QED
      BY <2>1, <2>2 DEF Inv, FoundTrue, Seen, Progress, OpensWhatWasNamed, Searching
  <1>4. CASE Sleep
    <2>1. pc = "sleep" /\ pc' = "close" /\ UNCHANGED <<moved, name, fd, outcome>>
      BY <1>4 DEF Sleep, world, line
    <2> QED
      BY <2>1 DEF Inv, FoundTrue, Seen, Progress, OpensWhatWasNamed, Searching
  <1>5. CASE UNCHANGED vars
    <2>1. UNCHANGED <<slot, moved, pc, name, todo, found, fd, outcome>>
      BY <1>5 DEF vars
    <2>2. Searching' <=> Searching
      BY <2>1, Zenon DEF Searching
    <2> QED
      BY <2>1, <2>2 DEF Inv, FoundTrue, Seen, Progress, OpensWhatWasNamed, Wanted, Slot
  <1> QED
    BY <1>1, <1>2, <1>3, <1>4, <1>5
-----------------------------------------------------------------------------
(* Types and invariant hold in every state that the program can reach while  *)
(* any number of functions come and go.                                      *)
THEOREM Invariance == Spec => [](DataOK /\ moved \in BOOLEAN /\ cmd \in Command /\ Inv)
  <1>1. Init => DataOK /\ moved \in BOOLEAN /\ cmd \in Command /\ Inv
    <2>1. Init => moved \in BOOLEAN /\ cmd \in Command
      BY Zenon DEF Init
    <2> QED
      BY <2>1, InitInv, Zenon
  <1>2. DataOK /\ Inv /\ [Next]_vars => Inv'
    BY WorldStep, OpenPathStep, GlobStep, CheckStep, MatchStep, RestStep, Zenon
       DEF Next, Proceed, Search
  <1>3. DataOK /\ moved \in BOOLEAN /\ cmd \in Command /\ Inv /\ [Next]_vars
          => (DataOK /\ moved \in BOOLEAN /\ cmd \in Command /\ Inv)'
    BY <1>2, DataStep, FlagStep, Zenon DEF Command
  <1> QED
    BY <1>1, <1>3, PTL DEF Spec

(* Entries listed, device opened, outcome and exit status are what their C   *)
(* types and the world allow.                                                *)
THEOREM TypeCorrect == Spec => []TypeOK
  <1>1. DataOK /\ moved \in BOOLEAN /\ cmd \in Command => TypeOK
    BY Zenon DEF DataOK, TypeOK
  <1> QED
    BY <1>1, Invariance, PTL

(* find_dev opens the function whose sysfs name was given, and one of        *)
(* mlx5_core, unless functions came or went during the search.               *)
THEOREM NamedIsOpened == Spec => []OpensWhatWasNamed
  <1>1. Inv => OpensWhatWasNamed
    BY Zenon DEF Inv
  <1> QED
    BY <1>1, Invariance, PTL

(* find_dev reports a device as not found only when it is not there, not of  *)
(* mlx5_core or not openable, unless functions came or went meanwhile.       *)
THEOREM GivesUpRightly == Spec => NotFoundIsTrue
  <1> DEFINE Right ==
        pc # "exited" /\ pc' = "exited" /\ outcome = "none" /\ name.by = "sysfs" /\ ~moved
          => name.mdev \notin (Present \cap Mlx5) \ Denied
  <1>1. DataOK /\ Inv /\ [Next]_vars => [Right]_vars
    <2> SUFFICES ASSUME DataOK, Inv, Next,
                        pc # "exited", pc' = "exited", outcome = "none", name.by = "sysfs", ~moved,
                        NEW k \in Slot, Wanted(k)
                 PROVE  FALSE
      BY DEF Present, Wanted
    <2>1. Glob \/ NoMatch
      <3>1. ~(Unplug \/ Plug \/ OpenPath \/ Check \/ Checked \/ Match \/ Run \/ Sleep)
        <4>1. ~(Unplug \/ Plug \/ Check)
          BY Zenon DEF Unplug, Plug, Check, Change
        <4>2. ~(OpenPath \/ Checked \/ Match \/ Run \/ Sleep)
          BY DEF OpenPath, Checked, Match, Opens, Run, Sleep
        <4> QED
          BY <4>1, <4>2
      <3>2. ~Close
        BY DEF Close, Inv, Progress
      <3> QED
        BY <3>1, <3>2 DEF Next, Proceed, Search
    <2>2. CASE Glob
      <3>1. todo' \in Sorted({n \in Slot : slot[n] # None}) /\ todo' = <<>>
        BY <2>2 DEF Glob
      <3>2. {n \in Slot : slot[n] # None} = {}
        BY <3>1, SortedSeq
      <3> QED
        BY <3>2, FuncsAssumption DEF Wanted
    <2>3. CASE NoMatch
      <3>1. pc = "match" /\ found = <<>> /\ todo = <<>>
        BY <2>3 DEF NoMatch, Inv, Progress
      <3>2. Searching
        BY <3>1 DEF Searching
      <3> QED
        BY <3>1, <3>2 DEF Inv, Seen
    <2> QED
      BY <2>1, <2>2, <2>3
  <1> QED
    BY <1>1, Invariance, PTL DEF Spec, NotFoundIsTrue
=============================================================================
