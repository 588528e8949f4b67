# TLA+ models of OpenPiton with a victim cache

The repository is the OpenPiton manycore with a victim cache being added to the L1.5
cache of each tile, together with the C and C++ programs it is simulated with. This
project models two halves of it:

* the **L1.5 cache** (`src/piton/design/chip/tile/l15`), the part the repository changes:
  a three-stage pipeline between a two-threaded core and three networks;
* the **simulation environment**: the simulated JBus master (SJM), the JBUS monitor and
  checker, the message monitor, the socket to the instruction simulator, the models of
  memory and i/o, and the tools that make memory images (`src/piton/verif/env/iss/pli`,
  `src/piton/tools/pli`, `src/piton/tools/src`).

"pipeline" below is `src/piton/design/chip/tile/l15/rtl/l15_pipeline.v.pyv`.

## 1. Inventory

### The chip

| Component | State | Operations | Interacts with |
|---|---|---|---|
| Pipeline, S1 | `fetch_state_s1`, three credit counters | one instruction per cycle from NoC2 (priority) or PCX; two- and four-phase requests | MSHRs, arrays |
| Pipeline, S2, S3 | flops, three stale flags | tag check, way choice, data access; way map, LRU and MSHR writes, CPX / NoC1 / NoC3 output | arrays, encoders, buffers |
| `l15_mshr` | per thread: load, store and ifill MSHR; store state and way; write buffer | allocate, merge a store, change state, release | S1 and S3 |
| tag, MESI, LRU, way-map arrays | per set | read and written in different stages | pipeline |
| `noc1buffer`, `noc1encoder` | ring of 8 commands, 2 data words | push by S3, pop by the encoder | credit counters |
| `noc3buffer`, `noc3encoder`, `l15_cpxencoder` | one message, flit counter; second beat | accept, send flits; one- and two-beat returns | S3 |
| victim cache (`sram_l15_utag`, `sram_l15_udata`, `rf_l15_vi`, `rf_l15_vlruarray`) | victim tags, data, valid bits, LRU | copy or swap on a miss | pipeline S2 |
| input buffers and decoders, CSM, HMC | small buffers, home ids | offer one message; translate | S1, NoC1 |
| L2, NoC routers, DMBR, chip bridge, chipset, core, FPU | directory, queues, credits | coherence and transport | the three NoCs |

### The simulation environment

| Component | State | Operations | Interacts with |
|---|---|---|---|
| SJM bus side (`SJM.cc`, `JBusArb`) | arbiter per port, output queues | request, grant, address and data cycles, reset | all ports over the bus |
| SJM coherence (`Cache`, `SnoopControl`, `MemoryControl`, ORB) | MOESI lines, read buffer, snoop, result and memory queues | cacheable commands, snoops, j_packs, returns, installation | other ports |
| SJM flow control | queue lengths, AOK/DOK, pack queue | stop and restart senders | other ports |
| SJM compiler, reader, start-up (`Parser.cc`, `SJM.cc`, `main.cc`) | compiled program, counters, reset state, plusargs | compile, run, synchronise, interrupt, reset | bus side, simulator |
| Command program (`pli_api.cc`) | two pipes, library state | call, answer, transaction and reset packets | a port |
| PLI containers | trees, lists, queues, ring, token stream | insert, remove, enumerate | all of the PLI code |
| JBUS monitor and checker, threads | outstanding table, snoop FIFO, arbitration pipeline, semaphores | follow every bus cycle | bus, message monitor |
| Message monitor | unit table, counts, limits | show, count, stop | every checker |
| Socket (`bw_socket.c`) | lists of pending writes, send buffer | compare the register writes of both machines | RTL, instruction simulator |
| IOB, DRAM, system memory, SSI, warming, events | queues, trees, ECC words, pins | answer the chip, load images, inject errors | RTL |
| goldfinger, splitsec | blocks, tables, files | lay out memory images | assembler, DRAM model |

What is hard: credits taken on a guess in S1 and corrected two stages later; MSHRs
released in S3 and taken in S1; a NoC2 response that must never wait; a line
invalidated, evicted, flushed or merged into while its upgrade is outstanding; an L1
known only through a way map; outputs of which one is accepted and another not; ports
that arbitrate each for itself from requests a cycle apart; snoops, returns and
installations that cross; flow control that acts two cycles late; threads that share a
clock by semaphores; non-blocking pipes and sockets that take a part.

The hazards, each at its line with the properties aimed at it, are in `PROJECT.json`.

## 2. Plan

Done: the modules of section 3; proofs of credits, data slots, replacement, output,
cache set, bus arbitration, thread barrier, arbitration checker, flow control, command
compiler, ports running their files, command program, i/o bridge, pin events, message monitor
and sender. To come, in this order:

1. proofs of what is now only checked on small instances and has an inductive argument:
   the data queue of the flow control (`SjmFlow`) under one kind of write, the coherence of
   two ports (`SjmCoherence`);
2. `noc1buffer` with its ring indices as an implementation of a queue; the four-subline
   invalidation with its single acknowledgement;
3. the L2 directory with two L1.5s, then router, DMBR and chip bridge;
4. the victim cache again, once its signals are driven.

## 3. Modules and how they correspond to the code

`PROJECT.json` maps the definitions to their lines; a helper whose lines lie within those of
the operation it serves has no entry of its own. Definitions whose comment begins with
"Mutant:" (or whose name is another definition's with a suffix) are deliberate faults:
each shows that a property notices it. `BitSets` is a small library of words as sets of
bits. The `MC*` modules compose components, or put several side by side of which a
behaviour exercises one (`part`, `focus`), and give the constants their values.

### L1.5

* **`L15CreditMan`** (proofs in `L15CreditManProofs`): a step is a clock cycle: `stall` is
  `stall_s3`, `sent` is noc1encoder taking the head of noc1buffer, and S1 fetches one
  instruction or none. `avail`, `data_avail`, `reserve` are the counters of the same
  names, four bits wide, with the comparison of pipeline `stall_tmp_result` as written. One
  action per kind of fetch. Hit, miss and dirtiness are chosen at the fetch; index
  conflicts are idle cycles of S1; each subline of an invalidation is a `Noc2Forward` of
  its own. `FlushNeedsSpareCredit = FALSE` is the code; `TRUE` is an assumption about
  the core, needed because of finding 1.
* **`L15Cache`**: one set, request by request: two instructions of one set never overlap
  (`stall_index_conflict_stall_s1`), so a step is everything a request does in S1, S2 and
  S3. The L1 is external: `l1` is what CPX told it to hold, `bad` the L1 ways that miss an
  acknowledged store to their line or got a store of another, `lost` the states of MSHRs that
  were released with an acknowledged store that no way took. The LRU way is any way.
  `UpgradePinsWay = FALSE` is the code, `TRUE` assumes that no fill or flush takes the way
  of a pending upgrade; `StWayCount`, the ways the pipeline's copy of `st_way` can
  name, is 2 in the code although a set has 4 ways.
* **`L15Lru`**: the LRU array around the pipeline, cycle by cycle: the asynchronous read in
  S2, `lru_data_s3`, which follows the array even during a stall, the write in S3. The way
  of a fill is carried as three values: the tag's, MESI's and the data's.
* **`L15Issue`**: S3's outputs with their stale flags, cpxencoder, noc3buffer, noc3encoder,
  under any `noc3out_ready`. `got`, `left`, `owed` are history variables.
* **`L15Victim`**: the tag and data arrays as rewritten for the victim cache. The valid
  bits and the victim index are not driven, so they are nondeterministic.

### SJM and the PLI library

* **`SjmBus`** (proofs in `SjmBusProofs`): every port's own arbiter and output state machine;
  one bus cycle per step.
* **`SjmFlow`** (proofs in `SjmFlowProofs`): the queues of one port, the packs that stop and restart senders, the
  two-cycle delay until they act.
* **`SjmCoherence`**: caches, read buffers, snoop and result queues of the ports, memory.
  Each cycle step of the code is an action of one port.
* **`SjmParser`**, **`SjmProgram`** (proofs in `SjmProofs`), **`SjmFront`**: the compiler of command files, the ports
  that run them (reset, CHANGE, SYNC, IOSYNC, interrupts, timeouts), start-up from plusargs.
* **`PliApi`** (proofs in `PliApiProofs`): a command program and its port over two pipes, the port's end O_NDELAY.
* **`PliContainers`** implements **`PliCollections`**: links, cursors and rotations against
  sets, queues, memories, rings and token streams. The refinement mapping reads the set off
  the tree, the queue off the ring buffer, and so on; the answers must be equal.

### Monitor, socket, models, tools

* **`JbusMonitor`**, **`JbusChecker`** (proofs in `MonitorProofs`): every bus cycle as the monitor and the arbitration
  thread see it; the agents are external and may break the protocol. `jmBell` is `valid_ports ==
  0x7f`; `jmFault` collects the kinds of fault committed, "blocked" for a command against flow control.
* **`JbusThreads`** (proofs in `MonitorProofs`): the semaphores of `thread_state`, fork,
  `wait_next_cycle`, `wait_for_event`. Releasing a thread and reading the next of the list are two
  steps, so a released thread may fork in between.
* **`Dispmon`** (proofs in `ModelsProofs`): `$dispmon` with its options, limits and delayed finish.
* **`SasCompare`**, **`SasSend`** (proofs in `ModelsProofs`), **`SasList`**: the comparator, the
  sender and the lists of `bw_socket.c`. The bytes offered are numbered; what the kernel takes of a
  send is any prefix. `SlInit` takes the list heads that `decoder.c` leaves uninitialised (40,
  357-358) to be null, as in memory fresh from the kernel.
* **`IobModel`**, **`DramMem`**, **`AvlTree`**, **`EccCodes`**, **`SysMem`**, **`CacheWarm`**,
  **`IopEvents`** (proofs in `ModelsProofs`, of the bridge in `PliApiProofs`): the models of i/o bridge, DRAM, system memory and SSI, cache warming and
  pin events; pure algorithms (hashes, trees, ECC) are operators checked against a reference
  definition on every input of the instance.
* **`Goldfinger`**, **`Splitsec`**: memory images and split assembler sources.

## 4. Runs

| Run | Instance | Shows |
|---|---|---|
| `credit` | 1 thread, 3 slots, 2 data slots | credits and data slots conserved, a credit for every eviction, every request served |
| `l15` | 2 threads, 3 lines, 2 ways, 2 L1 ways, 2 sets | one copy per line, L1 known and fresh (section 5 has the one store that is lost), grants only from the L2; arrays agree on a fill's way; each output exactly once, no standstill |
| `bus` | 2 ports; flow control under one kind of traffic | one driver; returns drain; no queue overflows; traffic resumes |
| `sjm` | 2 ports, 2 addresses, 11 cycles | start-up, compiler, counters, SYNC, coherence |
| `monitor` | 2 ports, 2 commands, 10 cycles | no false and no missing report (flow control: with a Bell chip only), threads in lock step, messages as asked |
| `tools` | see `MCTools` | images, sources, comparator, sender, lists, answers, container refinement |
| `models` | see `MCModels` | i/o bridge, memories, codes, trees, warming, injected errors, events |
| `credit_flush`, `cache_evict`, `victim_fill`, `avl`, `flow` | | findings 1 to 5 |

Bounds. *credit*: three slots let the reserve take all of them with a two-credit request
waiting, and the theorems hold for up to 15; instruction fills and requests of no effect (`QuietOps`) are only
presented while all MSHRs are free, which keeps liveness checkable. *l15*: three lines and two ways force
evictions between two threads' requests; two L1 ways give the way map something to
confuse; the theorems of section 6 have no bound. *bus*: sizes just above the overflow
limits make every boundary reachable in a few cycles; the finding `flow` uses the sizes of
the code. *sjm*: `MaxCycle` 11 covers a timeout, a reset pulse and the restart; two
commands per port on two addresses of one cache line give every crossing of a snoop
with a return. *monitor*: one command suffices where no Bell chip watches flow
control (`OneWithoutBell`); 10 cycles hold three tenures; four clocks with one forked thread
give every order of the semaphores. *tools*: buffers of three and four bytes are filled,
overrun and refilled by commands of one, two and five; three calls, two transactions and a
reset overfill the pipe of four packets; three items pass through any of the lists, and four through
the compare list and its free list, so that nodes are inserted, removed and reordered in the
middle and reused (`AnyList`, `CompareList` in `MCTools`). *models*: keys
split the B-tree's root twice and rotate the AVL tree in each direction, with two data items to
tell a key's data from another's.

Fairness. *credit*: the clock runs, the networks drain, the L2 answers every request, PCX
gets S1 if it could again and again (NoC2 answers in flight are finitely many, each caused
by this core). *l15*: NoC3 is ready infinitely often. *bus*: the clock runs; delays are
finite and senders have gaps. *monitor*: the simulator and every runnable thread go on.
*tools*: the child process runs and the simulator clocks the port. Runs without a liveness
property assume none. Deadlock is checked except in `monitor`, `tools`, `models` and `avl`, whose
behaviours end (bounded inputs, a program that exits, an image loaded).

## 5. Findings

1. `credit_flush`: the second phase of a line flush takes a NoC1 credit without a check
   (pipeline 1319; the stall of 1747-1749 covers fetch state NORMAL only).
2. `cache_evict`: an eviction looks for a pending upgrade of the line that arrives, not of
   the line that leaves (pipeline 3053-3058), so the upgrade later hits the wrong line.
3. `victim_fill`: a fill's data are never written, because the data array obeys the
   pipeline only on a hit (`sram_l15_udata.v.pyv` 57-64).
4. `avl`: `balance_left` tests the wrong sign (`tools/pli/mem/utility.h` 227).
5. `flow`: the queue of j_packs that "doesn't ever stall" overflows (`SnoopControl.cc` 285).

Seen while modelling, without a run of their own:

* *L1.5*: the pipeline's copy of the upgrade's way has one bit (414); a store merges into a
  write-through's MSHR and is lost (1247); a hit in way 2 or 3 marks way 1 as used (3085); a
  stalled instruction writes another set's LRU bits (3006, 3337).
* *Victim cache*: `l15_vcache_index_s2`, `l15_cmst_vidx_s2`, the victim tag's write data and
  mask and every `vi` and `vlruarray` write signal are undriven; `vi_l15_vout_s2` is one bit
  and is indexed 0..3; victim tags leave out the set index.
* *SJM*: `GetExecStatus` looks at `out_trans` although its comment names the output queue;
  `InterruptControl::Cycle` says it clears the repeat and does not; random delay maxima are
  passed as the owner; `sjm0_timeout_scale` is ignored beside a general scale; a late read
  error decrements a counter twice; `BUSWAIT` in a loop reuses an absolute deadline; an
  interrupt's answer is repeated after a full queue; mixed noncacheable traffic overtakes
  a DOK_ON with a DOK_OFF; compressible writes that fill their queue hang.
* *PLI library*: four options are never sent (an unsigned compared with -1); the size of an
  INT becomes its first data word; an answer lost in a full pipe hangs the program.
* *Monitor*: without a Bell chip flow control is not checked: the delayed AOK and DOK enter at
  stage 4 (`jbus_tasks.cc` 292-295), but 330-335 shift only stages 1 and 2 towards the one that is
  tested, so `MonitorExact` claims no report of a command against it; tags 36-39 keep no default because the loop
  for 31..35 runs twice; one-cycle
  request pulses give false alarms in arthur mode; "hold" tenures are not checked.
* *Models*: `remove_min` of the AVL tree lacks a return (`avl.cc` 199-210), so removing a node with
  two children gives undefined data to the key that takes its place unless that is its right child
  (`avLost`, which `AvlFinds` excepts; nothing calls `remove` yet); old-stack hash modes collide;
  a DRAM line made up when it is first read gets the ECC of another address with two channels and two
  bank bits (`dexor_addr`; excepted in `DramKeeps`); the last
  partial line of a system memory image is not inserted; injected double errors may flip one
  bit twice; `which_event` lacks a return.
* *Tools*: a partial last line after a compressed one is printed without its address; the
  link pointer of a collided TSBCSM entry is not written; an end label before its start
  gives a huge length.

## 6. Proofs

TLAPS checks the proofs of eight modules. No module they use declares a RECURSIVE operator.

Two forms of argument return. A loop over a list is a recursive function of the position;
what it computes is proved by the smallest position at which it would be wrong
(`SmallestOf`: a set of naturals has a smallest element, from the well-foundedness of
inclusion of finite sets; `StepsExist`, `StepsStay` state the same for a chain of steps), so
no induction theorem with an operator parameter is needed. And each invariant is a
conjunction of named parts, one lemma per part or per action.

### Credits (`L15CreditManProofs`)

For every number of slots up to 15, every number of data slots, every set of threads with
at most 15 MSHRs, under `FlushNeedsSpareCredit`: `TypeCorrect`, `Conservation`,
`ReserveCounts`, `Noc2NeverWaits`, `MshrKept`, from `Invariance`. `DataConserved`
(`DataConservation`) needs no such assumption.

Conservation needs to know that the counter does not wrap, which needs a credit for every
response that takes one unchecked, which needs the reserve to be exact, which needs
every MSHR to have one owner (`OwnerInv`, `BufferInv`), which needs the shape of the
instructions in each stage (`StageInv`, `FetchInv`, `FlushInv`). `Inv` is their conjunction.
One lemma per part for an arbitrary `Cycle`, one lemma per kind of fetch. The data slots have
an invariant of their own: each is free, owed by one instruction in a stage, or queued.

### Replacement, output and cache set (`L15Proofs`)

`SmallestOf` is also what the priority encoders need.

* `FillWays`, `FillUnused` from `LruInvariance`, for any number of sets and ways: between an
  eviction in S3 and its fill, the way `EvictionHeld` keeps is what all three arrays will use.
* `SentOnce` from `IssueInvariance`: `SentSoFar` ties each stale flag to what has been
  accepted of the instruction in S3, and the history to the one-deep buffer.
* `L1Included` (`Inclusion`) from `MapInvariance`, for any number of ways, threads and
  lines and **without** any assumption on upgrades: it is inductive together with `WmtOnce`
  (no two L1 ways are filled from one way), which is why the one way a CPX packet can name is
  every way that must be told.
* `OnceWhileHeld`, `GrantWhileHeld`: as long as the way of each pending upgrade still holds
  its line (`UpgradeHeld`), a line is in at most one way and in none while it is asked for, the L1
  copies are fresh (`CopiesFresh`, `StoresKept`), and write permission comes only from the L2. `CacheInv` adds `OneMshr` (a
  line has one MSHR) and `AskedAbsent`. These hold for the code as it is, in every behaviour
  where the condition holds.
* `UpgradesHeld` and its corollaries `LinesOnce`, `L1CopiesFresh`, `UpgradeWritesItsLine`,
  `GrantNeeded`: the condition always holds if `Pinned`: fills and flushes spare the way of
  a pending upgrade, and the pipeline's `st_way` can name every way. The code provides neither
  (finding 2 and the remark on pipeline 414); `cache_evict` shows what happens without the
  first. The theorem says that these two repairs are enough. `L1Fresh` and the theorems about it except
  the store that merges into a write-through's MSHR (section 5), which no pinning saves.

### Bus arbitration (`SjmBusProofs`)

For any number of ports: `SingleDriver` (`OneDriver`), `OneGrant`, `TransactionKeepsGrant`,
`IdleBetweenDrivers`, from `Invariance`. Every port keeps its own view of requests and grant;
the invariant says that the views are rotations of one another, that a port in a transaction
keeps its request up (`KeepsRequest`), and that a port about to drive is the only one whose
arbiter can grant (`Secure`).

### Threads and arbitration checker (`MonitorProofs`)

For any set of forked threads: `LockStep` (`AtBarrier`) and `Bounded` from `ThInvariance`,
which counts for each thread what it still owes the barrier (`Owed`) and shows that the
clock passes only when every thread that owes nothing is quiet (`QuietState`).

`ArbitrationIsExact` (`ArbitrationExact`): for any ports, transactions of any length and every
mode, the arbitration thread of the checker reports no master that kept the rules, and
(except in arthur mode) misses none that runs into the next master's transaction.
`CheckerInvariance` carries what it needs: only the master of a cycle lowers a request
(`BusOK`), the thread's pipeline of requests and drivers holds what was on the wires
(`Wired`), while it follows a new master that master goes on requesting (`Follows`), and its
cycle count is that of the bus until a rule is broken (`Counts`).

### Flow control (`SjmFlowProofs`)

Queues, limits and packet queue of any size, under `RoomForTwo`: `AddrLimit` at least 2 and
smaller than the request queue (the code has 4 and 36; with 1 TLC finds an overflow, so the
bound is tight).

* `AddressesFit`: noncacheable reads, writes and block writes in any mixture never overflow
  the request queue. `FlowInv` follows AOK through the port's queue, the wire and the
  sender's two registers: while the flow is off, AOK_OFF is on the wire or the senders have
  acted on it and at most one address is still under way; while AOK_ON waits in the queue the
  senders hold and there is one place more than the limit.
* `ReadsNeverOverflow` (`NoOverflow`): reads alone overflow no queue at all. `ReadInv` adds
  that a cycle queues one pack at most, so out_packq is empty between cycles. In mixed
  traffic this part is false: TLC finds mixtures of reads and writes in which a pack is lost,
  as one is in finding 5. The data queue, snoops and coherent reads stay with TLC.

### Programs and ports (`PliApiProofs`)

`AnswersOwn`: for any program, any packet pipes and resets at any point, the answer a call
reads is its own and transactions are reported in the order they were asked for.
`ApiAnswersMatch` (`AnswersMatch`) adds that the port builds the transfer that was asked for,
if the sizes are transfer sizes (`TransferSizes`: 1 to 64, powers of two). `ApiInvariance` says why: at most
one command is under way, nothing is in the response pipe before its command has been
read, and what is there belongs to the call that waits.

### I/O bridge (`PliApiProofs`)

`IobAnswered` (`IobAnswers`) from `IobInvariance`: for any cores, requests, events, delays and
stalls, a core is told about each of its requests at most once, with its own core, thread, kind
and boot ROM line, and exactly once when the bridge is idle. Packets are recycled with their old
fields, so the invariant is about identity: an unanswered request is in exactly one place, in
`pcx_list`, in a read being sent or due from a device, or in the packets to the cores; the object
it is in is on neither of the other lists, and the one at the head of `pcx_load` or `jpcx_load`
still holds the load its device was asked (`BridgeSound`). Like the property it is
conditional on what the bridge can serve (`Served`: I/O loads of thread 0, one for the DRAM and
one for the JBus, as an answered load is never taken off these lists). `IobMenuAssumption` says what
a request is: cores are numbers, threads the two bits of the field, and fetches go to no device,
because the bridge answers a fetch at once and would still ask the device.

### Command compiler (`SjmProofs`)

`AcceptedRuns` (`AcceptedIsExecutable`): for command files of any length and any lines, an
accepted list ends with its only DONE, and every branch the second pass links goes to a
command of the list. `CompilerInvariance` says why: at every line the list so far holds
lines of the file and no DONE before the end (`ListSound`), and as long as no error was
counted each label names a command that is still in it (`LabelsSound`): a label is
attached before the parameters are checked, so every path that drops a command must count
an error.

### Ports that run their files (`SjmProofs`)

For any files that can be run (`FilesAssumption`: what `AcceptedRuns` promises of a compiled
file), any number of ports, buffer entries and interrupt targets (`ProgramAssumption`: targets are
at most `LastTarget`, the code's `G_MAX_INT_TARGETS`), any timeouts and any answers of the bus:

* `CountersHold` (`CountersCover`): `numvalid` and `int_num_outgoing` are never below what is
  outstanding. For the read buffer that is not inductive: an entry that times out is freed and
  stays counted, and its late answer is counted down then, perhaps after the entry was given away
  again. The invariant counts claims instead: one for a read that is queued or whose data are
  in, one for every answer the bus still owes an entry (`ClaimsOK`); an entry on the bus has at least
  one. The two passes of a cycle over entries and targets are in closed form and a recursive
  function, so that `Passes` and `IntTurns` can follow them.
* `SyncsMeet` (`SyncRendezvous`): of two ports that SYNC only with each other neither gets two SYNCs
  ahead before the first XIR, and no IOSYNC passes without a write of its own. `PairOK` says that of two
  such ports one waits at most, and one whose wait was ended by the other has that SYNC still to
  come; `Resetting`, that in the cycle of a reset the ports already clocked count from 0 with their
  devices cleared; `IoOK`, that a write that lets an IOSYNC pass is not used up.

Both follow from `ProgramInvariance`.

### Events, messages and sender (`ModelsProofs`)

* `EventsHeld` (`HeldAsAsked`) from `EventInvariance`: for any event files and any order of
  calls, a pin is asserted and a destination stalled for exactly the calls the last event for
  it asked for. The two loops over the events of a program counter are unfolded by the
  lemmas on steps.
* `MessagesAsAsked` (`ShownAsAsked`) from `MessageInvariance`: for any number of units, tags,
  options and messages, a message is shown, typed and counted as the last option for its
  unit asks, and the simulation ends, or its finish is pending, exactly at the limit. The
  assumption `PlainOptions` is that options name a unit and no instance and that limits are
  positive: with an instance, an entry for the instance hides later options for its unit,
  and "the last option" is no longer what decides. The invariant is about the unit table: it
  is filled from the front (`Compact`), every unit an option names is listed once
  (`Listed`), and what an entry says is what the last option said (`Shown`).

* `SentInOrder` (`WireInOrder`) from `SenderInvariance`: for any commands, any prefix taken by
  each send, RETRY and QUIT at any time, what the kernel took, the buffer and the list hold in
  this order exactly the bytes of the commands, and a byte waits in the list only while the buffer
  is full. The sizes are parameters, with `SEND_MAX <= CMD_BUFSIZE` (500 and 10240 in the code): a
  command that is only packed must fit. The invariant adds that the used part of every node ends
  where its data ends; the loops of `packed` and `add_node` are lemmas (`PackedKeeps`,
  `NodesAdded`), what a list holds follows from `WaitingConcat`.

### Only model-checked

* liveness (`PcxServed`, `S3Moves`, `ReturnsDrain`, `FlowResumes`, `ClocksEnd`, `CallsReturn`):
  the prover does not reach fairness and ENABLED;
* the refinement `Collections`, the images, trees, codes, loaders and the comparator: they
  rest on RECURSIVE operators or on folds over data, for which the prover has no induction;
* `Coherent`, `StartedAsAsked`, `MonitorExact`,
  `NoOverflow` with writes and snoops, `ListsExact`: planned (section 2) where
  they have an inductive argument that is not longer than the model.

## 7. Not modelled

*Chip*: packet formats and data paths, prefetches and diagnostic accesses, CSM and HMC, input
buffers, L2, routers, DMBR, bridge, tile glue; core and FPU (third-party); debug access;
chipset (vendor IP). *Environment*: test benches, diags and macros; PLI code that is not built
(`threaded_pli_interface.cc`, `display*.c`, `sim_info`); of the socket the decoder of received
bytes, the good trap, instruction checks and dropped registers; ECC, parity and read errors
injected by SJM commands; statistics, traces and wording; parsing of ELF and description
files. `PROJECT.json` says for every component what is left out.
