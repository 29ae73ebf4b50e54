# mlx5ctl: a TLA+ verification project

`mlx5ctl` is a user-space tool for ConnectX devices. It opens a `fwctl` char
device, sends firmware commands through one ioctl and prints what comes back:
device information, capabilities, registers, objects, diagnostic counters,
resource dumps and core dumps. This directory holds TLA+ models of the parts of
it that keep state over several steps, the TLC configurations that check them,
and theorems about them that TLAPS proves.

    tlc -config MCRscDump_orderly.cfg MCRscDump.tla     # one run
    tlapm RscDumpProof.tla                              # the proofs of one module

`PROJECT.json` lists the components, the runs, the source lines behind every
definition, the mutated definitions each property is tried against, the hazards
and the theorems.

## 1. Inventory

| Component | Source | State | Operations | What is hard | What makes it correct |
|---|---|---|---|---|---|
| Resource dump conversation, inline | `rscdump.c` 38-139, 411-430; `reg.c` `mlx5_access_reg` | request and reply buffers, data buffer, its size and fill | one iteration, sequence check, echo, copy, growth, giving up | a protocol whose only memory is in the messages; a 4-bit sequence number; a failure at any iteration | every chunk once and in order, no false alarm, no overrun, no silent loss, it ends |
| Resource dump collection, umem | `rscdump.c` 141-192 | umem, temporary buffer, `remain`, `total` | the same loop with the device writing to memory | accounting at its bounds | chunks land where the walk expects them |
| Segment walk | `rscdump.c` 194-407, layouts in `mlx5_ifc.h` 2187-2353 | position in the dump | parse a segment, step by its length | data cut anywhere, a size that is not the dump's | the segments seen are those of the dump; what is read is what was written |
| Umem life cycle | `mlx5lib.c`, `mlx5lib.h`, `rscdump.c` 489-529, `mlx5ctl_misc.c` 311-354 | PD, memory, umem, memory key | create and destroy each | a failure at each step, kills, ignored results, numbers reused across processes | unwinding leaves nothing, order of destruction, ownership |
| Core dump | `rscdump.c` 531-561 | none of its own | one register access into the umem | needs a umem | as above |
| Program frame | `mlx5ctlu.c`, `mlx5ctl_misc.c` 28-309 | the open device | search, open, select command, close, exit status | the world moves between scan and open; results lost on the way out | the device opened is the one named; failures show |
| Access register | `reg.c` | options, request and reply buffer | access, print | options and defaults, sizes by register, one buffer size for all | the register asked for is read, not written; a dump stays inside the reply |
| Object query | `query_obj.c` | options, request and reply buffer | one query per object type | 33 similar functions, each with its own layout; numbers wider than their fields | each sends its own opcode, with the id in its place |
| Capabilities | `devcaps.c` | options, a reply buffer for all queries | query one or all | a failure among many queries into one buffer | what is printed answers the query it is printed for; one failure does not stop the rest |
| Diagnostic counters | `diag_cnt.c` | the device's sampling configuration, shared by all processes | cap, set, param, dump, disable | several processes, 16-bit sizes, list parsing | what is dumped was asked for |
| Field access | `ifcutil.h` | none | MLX5_GET, MLX5_SET, 64-bit forms | masks and shifts | set then get is the identity, neighbours untouched |
| Layouts | `mlx5_ifc.h` | none | none | some 600 fields at hand-counted offsets, unions whose members differ in size | what is printed under a field's name is what the device wrote there |
| Kernel interface | `uapi/` | none | constants and structs | none | |
| Build, packaging, README check | `CMakeLists.txt`, `Makefile`, `rpm/`, `Dockerfiles/`, `scripts/` | none | none | none | |

How they interact: `main` opens the device (`mlx5u_open`) and calls the function of
the command with the handle. All commands but `info` reach the device through
`mlx5u_cmd`; register commands and both dumps through `mlx5_access_reg` on top of
it. `do_rscdump` sets up a umem through `mlx5lib.c` if `--umem` was given, takes a
dump (inline or umem), hands it to the segment walk, and undoes the umem. There
are no threads and no callbacks: concurrency comes from other processes of
`mlx5ctl`, from the firmware, from hot plug, and from kills.

## 2. The modules

| Module | Models | Actions and the code behind them |
|---|---|---|
| `RscDump` | the inline conversation | `Malloc`, `MallocFails`: entry of `rscdump_collect`. `Iter`: `mlx5_rsc_dump_iter` with the firmware's reply, the sequence check (`InSequence`), the echo (`Echo`), and the caller's early return (`GiveUp`). `IterFails`: `mlx5_access_reg` failed. `Store`, `ReallocFails`: growth and copy. `Finish`: the rest of `mlx5_rsc_dump` |
| `DumpStream` | what a collection promises (abstract) | chunks delivered in order; an end that is "complete" or "cut" |
| `SegmentWalk` | `rscdump_collect_umem` and `parse_resource_dump` | `Malloc`, `MallocFails`, `Iter`, `IterFails`: the collection loop of umem mode. `Enter`: the two fixed segments and the size test. `Step`: `parse_segment` and the step by `length_dw`. `GetLost`: a header is read where nothing was written |
| `UmemLife` | the umem life cycle, several processes | one action per call into the device or allocator, one per way it can fail, `Dump`, the undo steps, `Close`, `Kill` |
| `Mlx5Ctl` | the frame | `OpenPath`, `Glob`, `Check`, `Checked`, `Match`, `NoMatch`: `find_dev`. `Run`, `Sleep`, `Close`: `cmd_select`, `do_sleep`, `main`. `Plug`, `Unplug`: the world |
| `DiagCnt` | `mlx5ctl diagcnt`, several processes over one device | `Start` (the five commands), `ParseFails`, `Parse`, `Token`, `NoToken`: `do_set` up to and through its strtok loop. `GetFreq`, `GetFreqFails`: `get_dev_freq`. `SetParam`, `SetParamFails`: `mlx5_diag_cnt_set_param`. `QueryParam`, `QueryCntrs`, `QueryFails`, `CapGeneral`, `CapDebug`: the queries. `MallocFails`, `Exit`, `Kill` |
| `DiagConfig` | what diagcnt promises (abstract) | `Ask`, `Carry`, `Fail`, `Leave`: one configuration, requests that take effect as a whole and at one moment |
| `IfcField` | `ifcutil.h`: MLX5_GET, MLX5_GET64, MLX5_SET | operators on messages, a message being a function from dwords to sets of bits; `OnWire` is the reference: the bits of the field in the order the device sees them |
| `IfcLayout` | how a `struct mlx5_ifc_*_bits` lays out its members | `L`, `N`, `++`, `Times`, `AnyOf`: members, arrays, nesting, unions |
| `IfcCaps`, `IfcContexts`, `IfcRegisters`, `IfcCommands` | the structs of `mlx5_ifc.h` the program refers to | capabilities; object contexts; access registers; commands and replies |
| `Mailbox` | what obj, reg and cap share: a message, `mlx5u_cmd`, a reply buffer, what was printed | `Answer`, `IoctlFails`, `Start`, `Exit`, printing operators |
| `QueryObj` | `query_obj.c` | `ObjSend` with `query_funcs` (33 functions), `ObjShow`, `ObjFails` |
| `RegDump` | `reg.c` | `RegSend` with the table `regs`, `RegShow`, `RegFails` |
| `DevCap` | `devcaps.c` | `CapSend`, `CapShow`, `CapFails` for one; `AllSend`, `AllShow`, `AllSkip`, `AllDone` for all |
| `Messages` | the composition of `QueryObj`, `RegDump` and `DevCap` over `Mailbox` and the layouts | `Invoke` (a command line), `Refuse`, `mlx5u_cmd`, the commands' actions, `Exit`; the properties |
| `RscDumpProof`, `SegmentWalkProof`, `UmemLifeProof`, `DiagCntProof`, `DiagCntRefines`, `IfcFieldProof`, `MessagesProof`, `Mlx5CtlProof` | | theorems (section 4) |
| `MC*` | | small instances for TLC |

Comments that say `mutant` or "a mistake" mark variants of a definition that no
specification uses: each is a plausible bug, and the property it is paired with in
`PROJECT.json` fails when it takes the place of the definition after it.

Abstractions that matter:

* **RscDump.** A chunk is its position in the dump, its size a number of bytes up to
  `InlineMax`. The five fields that carry the firmware's position are one `cursor`,
  because the code always copies them together. The firmware keeps nothing between
  two commands: it answers from the request it gets, numbers its replies 1, 2, ...
  modulo 16 or not at all (`numbered`; the code lets both through), and may answer
  out of order at most `MaxSkew` times. A reply is a valid one: its `size` is not
  more than the inline data of the register, as the layout of the register requires.
  Byte counts are unbounded here; in the code they are of type `int`, so the
  properties of the buffer speak of dumps well below 1 GiB.
* **SegmentWalk.** Lengths are in dwords, from the layouts. A segment's header length
  covers its structure, as the firmware writes it; a header with length 0 is outside
  the model (the walk would not end). The walk reads a second number from a segment, the
  number of records of a menu; where a cut left it out, it is what the memory behind
  happens to hold (`Stray`, any 16-bit number). In inline mode any prefix of a dump can be
  handed to the walk. In umem mode the firmware writes each reply to the start of the
  umem and the program appends it to a temporary buffer of `TempDw` dwords; the walk
  is told the size of the umem and not that of the dump, as the code does. `total` is
  what was written, `reach` the first dword after everything that was read.
* **UmemLife.** The device (external) hands out numbers from small pools shared by the
  processes, refuses to destroy what a memory key refers to, and is assumed *not* to
  check who asks, which is less than `uapi/fwctl/mlx5.h` says (a descriptor is bound
  to a firmware user context), so that ownership has to follow from the program.
  The kernel reclaims what a process holds when its descriptor is closed.
  `UmemSupported` chooses between the stubs that are compiled and the bodies under
  `#if 0`. `ignored` remembers the processes whose destroy command failed and whose
  code went on regardless. The dump itself is one step here; `RscDump` and
  `SegmentWalk` open it up.
* **Mlx5Ctl.** A function that is plugged in gets the lowest free number. `moved`
  records a plug event during the search. A command's work is its outcome: done, an
  ioctl that failed, or a firmware status. A function that left and came back while it
  was open may answer in the model; in reality its old descriptor stays dead.
* **DiagCnt.** A command of the device is one step and ends in one of three ways:
  carried out, refused with a positive status, or -1 from the ioctl, and then
  (`"lost" \in Faults`) it may have been carried out all the same. A counter list is
  the sequence of the items between its commas, empty ones included; a flag argument
  the set of its letters. An id is a number of any width in the argument and has 16 bits
  in the message, and so has the number of ids. Reply sizes are numbers modulo 2^16; what
  `param` prints of a line, or of the flags, that the truncated reply has no room for is
  `Garbage`, memory nobody wrote. Sample counts and periods go through unchanged and are
  left out.
* **Messages.** A number is the set of its bits, so that masks, shifts and truncation are
  set operations and every width is exact. A port is the set of what `--port` gave, a
  number or nothing, and `port` the variable of `reg.c` that is 0 until the option is
  read. The device's answer is any of a small set
  of contents chosen so that neighbouring fields differ. The layouts hold the members
  in the order and widths of `mlx5_ifc.h`, unnamed; their sizes and offsets were
  compared with those a C compiler gives. What a pretty printer prints is the
  set of fields it reads, with their values; the text around them is left out. A bare
  option whose argument is missing ends the process with the code "crash".

## 3. What the runs check

**`rscdump_orderly`** (`MaxSkew = 0`): dumps of up to 18 chunks, so that the 4-bit
number wraps and goes on; chunks of 0 to 2 bytes in a buffer that starts at 3 bytes, so
that it grows four times at different fills; allocation, access and realloc failures
at any point.

* `CopyInBounds`: no copy runs past the buffer, one doubling per chunk being enough.
* `CollectedInOrder`: the buffer holds chunks 0, 1, 2, ... and the next request asks for the next.
* `NoFalseAlarm`: the sequence check never stops an orderly firmware.
* `LossIsReported`: without an error message, the dump is whole.
* `LeaksOnlyWhenEmpty`: the one path on which the buffer is lost.
* `Terminates`, and `ImplementsStream`: the conversation implements `DumpStream`,
  liveness included, with `got` the chunks stored and `status` from `pc` and `errors`.

**`rscdump_skewed`** (`MaxSkew = 1`, 18 chunks): one misordered reply at any point.
`GapsOnlyAtWrap` says exactly what the check lets through: a reply numbered 0 (every
16th, as the check takes 0 for "not numbered") or one off by a multiple of 16. Both
happen within 18 chunks.

**`segment_walk`**: every dump of up to three segments out of all types, with two lengths
for menu and resource segments. Inline: cut at every size. Umem: a umem smaller than the
two fixed segments (6), one smaller than most dumps (13), one larger than all (64);
replies that fill the umem or not; a temporary buffer (40) that some dumps overrun.
Behind a cut a menu's number of records reads as 0, 2 or 65535 (`Stray`). Three
segments make a first, a middle and a last one; what the walk does at a segment depends
on that segment and the size alone.

* `WalksTheDump`: the walk parses exactly the segments that start inside the size, in
  order, up to the first that ends the dump, and reports an overflow exactly when there
  is no such segment.
* `CollectsTheWholeDump`: the umem loop, whose `remain` never reaches 0, still ends with
  the whole dump or a reported failure, and overruns the temporary buffer only with a
  dump larger than it.
* `WholeDumpReadInside`: of a whole dump nothing past it is read.
* `OverreadAtTheCut`: of a cut dump, what is read past the cut is the rest of
  the segment at the cut, with one exception that really happens: of a menu cut right
  behind its header, up to 65535 records are read, far past the segment
  (`rscdump.c` 271, 276-281).
* `LostOnlyUnterminated`: only in umem mode, over a dump no segment ends, does the walk
  leave what was written.
* `WalkEnds`.

**`umem_faults`**: two processes over pools of two objects of each kind, because
ownership and reuse of numbers need two and each process goes through the same steps. Any set-up
and any destroy command may fail, any process may be killed between two calls.

* `DumpIsBacked`: while a dump runs, the key it uses is a live key of this process over
  its own umem and PD, and the memory is allocated.
* `NoAccessToFreed`, `NeverRefused`: the order of destruction, on every path.
* `NothingLeft`: unwinding from every step.
* `OnlyOwnerDestroys`: objects disappear only in a step of their owner.
* `MemoryGivenBack`: registered memory is given back, whatever fails.

The second and third say nothing about a process in `ignored`: once a destroy
command failed, the code, which drops its result, frees memory that stays registered until the
descriptor is closed. The exception is as narrow as it is: the properties hold for
the other process at the same time.

**`umem_stubs`** (a finding): `UmemModeDumps` fails of the stubs that are compiled.

**`mlx5ctl_open`**: three functions, one not of mlx5_core, one that may not be opened,
over three numbers, three plug events: enough for the named function to leave, another
to take its number, and the first to come back.

* `OpensWhatWasNamed`, `NotFoundIsTrue`: the result of a search by sysfs name is right
  unless a plug event fell between the first listing and the open. The exception is
  real: the code opens by the number found, and does not look again.

**`mlx5ctl_exit`** (a finding): `ExitStatusTells` fails, since `do_rscdump` returns 0 always.

**`diagcnt`**: two processes, every command, all faults, kills. Counter lists with an id of
17 bits and with empty items at the front, inside, at the end and alone; line counts on
both sides of each end of the 16-bit reply sizes, and a negative one. Two processes are
enough for one to overwrite the configuration between another's `set` and `param`.

* `ImplementsConfig`: `DiagCnt` implements `DiagConfig`, with the state of a process from
  its `pc` and `ret`. That a request takes effect as a whole, at one moment, and is
  reported as done only if it did, holds of every request. What it sets or shows is
  determined for the `Defined` ones alone: a `set` of a sound list (16-bit ids, no empty item)
  and a `param` of up to 16375 lines, whose reply fits.
* `TokensInBounds`: the list, sized by its commas, is filled by strtok, which skips
  empty items: nothing is written past its end.
* `SentIsAsked`: what is sent is what was asked, the low 16 bits of each id, in order,
  with one unwritten element at the end for every empty item and none otherwise; a
  firmware status mistaken for the frequency does not reach it.
* `RepliesReadInside`: a reply is read inside its buffer up to 4094 lines of dump and
  16375 of param, and past its end by every query of more lines that succeeds.
* `AlwaysEnds`.

**`diagcnt_on_demand`** (a finding): `OnDemandAccepted` fails: `o`, which the help offers, is rejected.

**`messages`**: every object, register and capability, known and unknown names, each output
format, and numbers that fit their fields and that do not: `Numbers` are 0, 0x12,
a 25-bit number and 32 ones; `Modes` are 0 and a number with bits on both sides of
the 16-bit boundary. Every command may fail with a status or an ioctl error.

* `ObjectNamed`: the id lands in its object's field, the mode in `op_mod`, cut to
  their widths, and no other bit of the message is set. The ids' places are taken from the help text
  of `obj`, the layouts from `mlx5_ifc.h`, and the setters from the code: three sources.
* `RegisterReadAsAsked`: the register whose name or number was given is read, never written,
  with the argument and the port given, and with port 0 where none was.
* `PrintedIsFresh`: what is printed for a capability was answered to the query of that
  capability, though all share one buffer and any may fail.
* `PrintsWhatTheDeviceWrote`: each value printed is what the device wrote in that field.
* `DumpInside`: a dump stays inside the reply and shows the whole of a register.
* `EveryCapTried`: a capability that fails does not stop the listing.
* `AlwaysEnds`.

**`messages_query`** (a finding): `ExecutesNamedQuery` fails of `obj xrq`.

**`reg_port`** (a finding): `DefaultPortIsOne` fails of every `reg` without `--port`.

### Fairness

`RscDump` and `SegmentWalk` are sequential programs whose calls return: weak fairness of
their next step. `UmemLife`, `DiagCnt`: weak fairness of each process's own steps once it
was started; nobody has to start or kill one. `Messages`: weak fairness of the command
that runs, none of the next invocation. `Mlx5Ctl` states none: nothing live is claimed
of it. The assumption behind all of them is that system calls and firmware commands
return, with whatever result; no strong fairness is needed.

### Bounds

`MaxLen`, `InlineMax`, `InitSize`, `MaxSkew` (`RscDump`); `NPds`, `NUmems`, `NMkeys`
(`UmemLife`); `MaxSegs`, `Payloads`, `Records`, `Umems`, `Chunks`, `Stray`, `TempDw`
(`SegmentWalk`); `NSlots`, `MaxPlugs` (`Mlx5Ctl`); `Ids`, `Lists`, `Counts`, `FlagStrings`
(`DiagCnt`); `Numbers`, `Modes`, `Contents`, and `LastDw`, the last dword of a message that any command
writes (`Mailbox`). The code's own sizes (208 bytes of inline data, a first buffer of
4069, 1 MiB of temporary buffer) are replaced by small ones of the same order in
`RscDump` and `SegmentWalk`; where there are proofs, they hold for any. Sizes and
offsets in `DiagCnt` and `Messages` are the code's own.

`CHECK_DEADLOCK FALSE` where the program ends for good (`RscDump`, `SegmentWalk`, `Mlx5Ctl`).

## 4. What is proved

Eight modules hold theorems, for every value of the constants that meets the named
assumptions. Every invariant and every action property that a passing run checks is the
conclusion of one. Each module is built the same way: an inductive invariant, one lemma or
step per action, `Spec => []Invariant`, and the properties as its consequences.

* **`RscDumpProof`**: all the safety properties of the two `RscDump` runs, and the
  safety part of the refinement, `MaxSkew = 0 /\ Spec => Stream!Spec`, for every
  `MaxLen`, `InlineMax <= InitSize` and `MaxSkew`. None of the properties is inductive.
  The invariant adds what the request says at each point (`Linked`: between two
  iterations its cursor is the position of the last chunk stored plus one, and its
  number agrees with it modulo 16), the chunk at hand while `pc = "store"`, the size of
  the buffer (`Roomy`: never below `InlineMax`, so that `total + out.size <= size +
  InlineMax <= 2 * size` and one doubling is enough), and what `ret`, `live` and
  `errors` are on each way out. The arithmetic of the sequence check is one lemma,
  `SequenceCheck`.
* **`SegmentWalkProof`**: all six invariants of the `segment_walk` run, for any number of
  segments, any lengths, umem and buffer sizes, and whatever stands behind a cut (`Stray`).
  The invariant says of each point of the
  collection how `total`, `remain` and the replies stand to the dump (`Collecting`), and of
  the walk that it stands where the next segment starts (`Walking`), that it parsed the
  segments before and that none of them ends the dump (`Parsed`), and on which of three
  ways it finished. Where a segment starts is a sum over the segments before it
  (`StartOf`). What is needed of these sums (they are naturals, rise by the length of each
  segment, and keep their order) is shown by the least counterexample: a set of naturals
  that is not empty has a least element (`Least`, from the library's `WFMin`), and there
  the recursive definition refutes it. The library's induction theorems are not used.
* **`UmemLifeProof`**: `TypeOK`, `DumpIsBacked`, `NoAccessToFreed`, `NeverRefused`,
  `NothingLeft` and `OnlyOwnerDestroys`, for any processes, pools and faults. The
  invariant says for each kind of object from which step to which a process holds one
  (`HoldsPd`, `HoldsUmem`, `HoldsMkey`, `HoldsBuff`), that it then holds just the one its
  variables name, that what it holds otherwise a failed destroy left over (`ignored`),
  and that a live key is over a PD and a umem of its owner. That is what makes a
  destroy by number hit the caller's own object.
* **`DiagCntProof`**: `TypeOK`, `TokensInBounds`, `SentIsAsked` and `RepliesReadInside`. While
  strtok runs, the list is as long as the argument has items and there are fewer tokens than
  items looked at (`StrtokInv`); a process reads the reply of its own command (`ReplyInv`).
  `RepliesReadInside` is exact on
  both sides: past the largest size that 16 bits hold, a reply that succeeds is always read
  past its end. `SentIsAsked` places the m-th item of the list by its `Rank`, the number of items up
  to it that are not empty. At every turn of strtok the list holds the tokens of the items
  passed over, each at its rank, and nothing behind them (`Holds`, in `SetInv`); `Ranks` says
  what a turn does to the rank.
* **`DiagCntRefines`**: `Spec => ImplementsConfig`, for any number of processes, any lists
  and any line counts. The invariant `CommandInv` says what stands in `params` at each
  step of `set`, so that what `SetParam` sends is what a request with a sound list asked
  for: in such a list every item has its own number for its rank (`FullRank`), and its ids are
  their own low 16 bits (`SoundIsSent`). That the reply of a `param` of up to 16375 lines fits makes
  what is shown the configuration (`ShownAsked`). One lemma per abstract action carries the mapping;
  `SetParam`, the queries and the end of `cap` are `Carry`, every failure is `Fail`, the
  steps in between change nothing the user sees.
* **`IfcFieldProof`**: MLX5_GET returns the bits of the field on the wire; after MLX5_SET
  the field holds the value modulo its width; every other bit, and so every field that
  does not overlap, is as it was; for every message, value and field inside a dword.
  `PrintsWhatTheDeviceWrote` and `ObjectNamed` rest on these two macros.
* **`MessagesProof`**: all seven invariants of the `messages` run, for any numbers of up to 32
  bits, any modes, any contents of a reply, and every query, register and capability of the
  tables. First the operators: a message carries each value set in it, cut to its field,
  unless a field set later overlaps (`MessageCarries`), and is zero elsewhere
  (`MessageElsewhere`); MLX5_GET64 reads the 64 bits of a field that begins at a 64-bit word
  (`Get64ReadsTheField`). The invariant then says at which stage of which command the
  program stands (`Stage`), what the message sent is made of (`SentIs`), that the reply in
  the buffer answers it unless the ioctl failed (`Answered`, the reason why the buffer
  shared by all capabilities never shows a stale one), that the capabilities tried are the
  first of the list (`Trying`), and what may have been shown (`Showing`). Facts about the
  tables, which have no parameters, are the named assumptions `QueriesAssumption`,
  `RegsAssumption` and `CapsAssumption`: TLC computes them in full, over all 33 queries, all
  registers and all capabilities, in every run of `Messages`. They say that the fields of
  an id lie inside the message, that a register's number is its own and its struct
  fits the buffer, and that every field a pretty printer reads can be read by its macro.
* **`Mlx5CtlProof`**: `TypeOK`, `OpensWhatWasNamed`, `NotFoundIsTrue`, for any functions,
  numbers and plug events. As long as the world has not moved, what was found is there
  (`FoundTrue`), and what is there to be found is in the list or still to be looked at (`Seen`).

Only model-checked: the liveness properties `Terminates`, `WalkEnds`, `MemoryGivenBack`,
`AlwaysEnds` and the fairness part of `ImplementsStream`, which are beyond the prover.

## 5. Findings

1. `umem_stubs`: `mlx5u_umem_reg` is compiled as a stub that returns -1
   (`mlx5ctl_misc.c` 346-349), so no command given `--umem` takes its dump, although
   `README.md` 1775 documents umem mode and 975 shows it.
2. `mlx5ctl_exit`: a `rscdump` that fails exits with status 0 (`rscdump.c` 528), while
   `scripts/check-readme-compat.sh` takes exit statuses for success.
3. `diagcnt_on_demand`: `parse_flags` returns 8 for the flag `o` and `do_set` takes that for
   an error (`diag_cnt.c` 329, 375); the help (366) offers the flag.
4. `messages_query`: `obj xrq` sends `QUERY_XRC_SRQ` (`query_obj.c` 182), so it shows
   another kind of object; the help (25) promises `query_<obj_name>_in`.
5. `reg_port`: without `--port`, `reg` asks for port 0 (`reg.c` 224); the help (231) and
   `README.md` 628 say "default 1".

## 6. Not modelled

* The structs of `mlx5_ifc.h` that nothing in the program refers to: most of the file.
  The header is shared with the kernel driver; a layout without a reader has no
  behaviour here.
* Help texts, printing and formatting, `hexdump`'s layout, the build, the packaging and
  the container files.
* `mlx5u_lsdevs`, which lists the devices and keeps nothing; main's `-v`; a `sleep` whose command is again `sleep`.
* Option parsing of `rscdump` and `coredump` beyond `--umem`, and the register fields and
  printing of the core dump. `args.umem * 1024` as an `int`: a size for which it overflows is undefined in C.
* Segment headers with a `length_dw` of 0 and buffers past 1 GiB (overflow of `size`), as
  noted at their hazards.
* The kernel driver and the firmware: they are the external actions of the modules, as
  much of them as the code in this repository relies on.

## 7. What could come next

1. One composition of `RscDump` and `SegmentWalk` over bytes: which segments a user sees
   of a conversation that was cut in the middle of one. `SegmentWalk` already takes every prefix.
2. The table assumptions of `Messages` as theorems: the sizes of the larger layouts are sums
   over long lists of members, which TLC computes and the prover would have to unfold.
