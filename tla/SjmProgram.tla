------------------------------ MODULE SjmProgram ------------------------------
(***************************************************************************)
(* SJM ports running their compiled command files: the reset state machine *)
(* and the command reader (SJM.cc), the outstanding read buffer's          *)
(* occupancy (ReadOutBuffer.cc), the interrupt controller                  *)
(* (InterruptControl.cc), SYNC between ports (sync_int.cc,                 *)
(* SynchronizedObject.cc) and IOSYNC (MemoryControl.cc).                   *)
(*                                                                         *)
(* The simulator clocks every port once per cycle through                  *)
(* SJM::InputValues, in an order of its own (ClockPort); what the bus      *)
(* shows a port in that cycle - a read answered late, an interrupt         *)
(* acknowledged or refused, a write to the iosync word, a matching         *)
(* address, a grant - is chosen by the environment.  Addresses and data,   *)
(* and the error-injection lists, are left out; SjmCoherence has the       *)
(* cacheable commands and SjmBus the arbitration.                          *)
(***************************************************************************)
EXTENDS SjmParser

CONSTANTS Ports,           \* the ports, an initial segment of the naturals
          Files,           \* the sets of command files to run: Ports -> file
          PostRst,         \* J_POST_RST_CYCLES
          ChangeInitiate,  \* J_CHANGE_INITIATE
          ChangeWait,      \* J_CHANGE_WAIT
          CmdTimeout,      \* rdr_timeout
          OrbTimeout,      \* ORB_timeout
          IntTimeout,      \* INT_timeout
          OutqDepth,       \* G_OUTQ_DEPTH
          OrbSize,         \* entries of the outstanding read buffer
          LastTarget,      \* G_MAX_INT_TARGETS
          Targets,         \* interrupt targets: t stands for int_outgoing[t - 1]
          RetryDelay,      \* int_retry_delay
          MaxCycle,        \* bound on sjm_cyclecnt
          MaxPulses        \* bound on resets and CHANGE requests after power-on

ASSUME ProgramAssumption ==
    /\ OrbSize \in Nat /\ LastTarget \in Nat
    /\ Targets \subseteq 1..LastTarget

VARIABLES prog,            \* the compiled command list of each port
          port,            \* the state of each port
          sync,            \* the SynchronizedObject of each port
          pins,            \* [por, rst, change, pulses]: the shared pins
          xir,             \* [in, out]: an XIR seen in this cycle, driven in it
          cyc,             \* sjm_cyclecnt
          todo             \* the ports not yet clocked in this cycle

progVars == <<prog, port, sync, pins, xir, cyc, todo>>

-----------------------------------------------------------------------------
(* The command list, as the reader sees it                                 *)

\* An accepted file, its branch targets turned into positions (0 is NULL).
CommandsOf(p, lines) ==
    LET at(k) == IF k = 0 THEN 0 ELSE CHOOSE i \in DOMAIN p.list : p.list[i] = k
    IN [i \in DOMAIN p.list |->
          IF p.list[i] = 0
          THEN [op |-> "DONE", n |-> 0, ids |-> {}, branch |-> 0, queue |-> FALSE, cc |-> FALSE]
          ELSE LET ln == lines[p.list[i]] IN
               [op |-> ln.op, n |-> ln.n, ids |-> ln.ids, queue |-> ln.queue, cc |-> ln.cc,
                branch |-> IF i \in DOMAIN p.branch THEN at(p.branch[i]) ELSE 0]]
Compile(lines) == CommandsOf(ReadFile(lines, 0), lines)

\* What AcceptedIsExecutable promises of a file: there are commands to run and
\* every branch leads to one of them, or (0) back to the first.
Runnable(cmds) ==
    /\ Len(cmds) \in Nat \ {0} /\ DOMAIN cmds = 1..Len(cmds)
    /\ \A j \in DOMAIN cmds : cmds[j].branch \in 0..Len(cmds)
ASSUME FilesAssumption == \A f \in Files : \A i \in Ports : Runnable(Compile(f[i]))

Cmd(i, p) == prog[i][p.pc]
Op(i, p) == IF p.pc = 0 THEN "NULL" ELSE Cmd(i, p).op

\* rdr_currCmd is Parser's prs_currCmd: GetNextCmd and GetBranchCmd, and the
\* bookkeeping of SJM::rdrNextCmd.
NextCmd(i, p) == [p EXCEPT !.pc = IF @ = 0 \/ @ = Len(prog[i]) THEN 0 ELSE @ + 1, !.tcnt = 0]
BranchCmd(i, p) == [p EXCEPT !.pc = Cmd(i, p).branch, !.tcnt = 0]

-----------------------------------------------------------------------------
(* ReadOutBuffer: Empty and Full look at numvalid, not at the entries      *)

OrbEmpty(p) == p.num = 0
OrbFull(p) == p.num = OrbSize
Valid(p) == {k \in 1..OrbSize : p.orb[k].st # "free"}
FreeEntry == [st |-> "free", t |-> 0, cc |-> FALSE]

OrbAdd(p, cc) ==
    LET k == CHOOSE k \in 1..OrbSize : k \notin Valid(p) /\ \A j \in 1..(k - 1) : j \in Valid(p)
    IN [p EXCEPT !.orb[k] = [st |-> "queued", t |-> 0, cc |-> cc], !.num = @ + 1,
                 !.tr = [t |-> "NCRD", k |-> k]]

OrbRemove(p, k) == [p EXCEPT !.orb[k] = FreeEntry, !.num = @ - 1]

Returned(p) == {k \in 1..OrbSize : p.orb[k].st = "data"}
TimedOut(p) == {k \in 1..OrbSize : p.orb[k].st = "bus" /\ p.orb[k].t + 1 >= OrbTimeout}
\* An entry after a cycle that removes or clears the entries in gone.
AgedEntry(p, k, gone) ==
    IF k \in gone THEN FreeEntry
    ELSE IF p.orb[k].st = "bus" THEN [p.orb[k] EXCEPT !.t = @ + 1] ELSE p.orb[k]

\* A mutant of OrbCycle: the timeout counts the entry down as well.
OrbCycle_counts(p, cc) ==
    LET gone == Returned(p) \union TimedOut(p) IN
    [p EXCEPT !.orb = [k \in 1..OrbSize |-> AgedEntry(p, k, gone)],
              !.num = @ - Cardinality(gone)]

(***************************************************************************)
(* ReadOutBuffer::Cycle.  Returned data leaves the buffer and may set the  *)
(* condition code; an entry on the bus times out with Clear, which, unlike *)
(* Remove, does not count down numvalid.                                   *)
(***************************************************************************)
OrbCycle(p, cc) ==
    [p EXCEPT !.orb = [k \in 1..OrbSize |-> AgedEntry(p, k, Returned(p) \union TimedOut(p))],
              !.num = @ - Cardinality(Returned(p)),
              !.ccr = IF \E k \in Returned(p) : p.orb[k].cc THEN cc ELSE @]

\* ReadOutBuffer::ReportError removes the entry even when it is not valid.
ReportError(p, k) == OrbRemove(p, k)

\* SJM::sjmProcessInSigs, a data return: only a valid entry takes it.
TakeData(p, k) == IF k \in Valid(p) THEN [p EXCEPT !.orb[k].st = "data"] ELSE p

-----------------------------------------------------------------------------
(* InterruptControl                                                        *)

NoInt == [on |-> FALSE, issued |-> FALSE, resp |-> "none", done |-> FALSE, rep |-> 0,
          delay |-> 0, t |-> 0, acks |-> 0]      \* acks is a history variable

\* NewOutgoing: refused while an interrupt to the same target is not done.
IntBusy(p, t) == p.int[t].on /\ ~p.int[t].done
NewOutgoing(p, t, rep) == [p EXCEPT !.int[t] = [NoInt EXCEPT !.on = TRUE, !.rep = rep]]

\* NewIncoming, for INTACK and INTNACK (an INT is ignored in this build).
NewIncoming(p, t, r) == IF IntBusy(p, t) THEN [p EXCEPT !.int[t].resp = r] ELSE p

\* CheckForACK also forgets the interrupts that were acknowledged and are done.
CheckForACK(p) == \E t \in Targets : p.int[t].on /\ p.int[t].resp = "ACK"
ClearACKed(p) ==
    [p EXCEPT !.int = [t \in Targets |-> IF @[t].on /\ @[t].resp = "ACK" /\ @[t].done
                                         THEN NoInt ELSE @[t]]]
CheckForNACK(p) == \E t \in Targets : p.int[t].on /\ p.int[t].resp = "NACK"

\* pushOutgoingTrans: itr is the interrupt that found the queue full.
PushInt(p) == IF Len(p.outq) < OutqDepth
              THEN [p EXCEPT !.outq = Append(@, [t |-> "INT", k |-> p.itr]), !.itr = 0]
              ELSE p

IssueInt(p, t) ==
    PushInt([p EXCEPT !.int[t].issued = TRUE, !.int[t].resp = "none", !.int[t].delay = 0,
                      !.itr = t, !.inum = @ + 1])

\* The body of the loop of InterruptControl::Cycle for one target.
IntTarget(p, t) ==
    LET e == p.int[t]
        wait == [p EXCEPT !.int[t].delay = @ + 1]
        again == [p EXCEPT !.int[t].issued = FALSE, !.int[t].delay = 0, !.inum = @ - 1]
    IN IF ~IntBusy(p, t) THEN p
       ELSE IF ~e.issued
       THEN CASE e.resp = "ACK" ->
                   IF e.delay < e.rep THEN wait
                   ELSE IssueInt([p EXCEPT !.int[t].rep = 0], t)
              [] e.resp = "NACK" -> IF e.delay < RetryDelay THEN wait ELSE IssueInt(p, t)
              [] OTHER -> IssueInt(p, t)
       ELSE CASE e.resp = "ACK" ->
                   IF e.rep = 0 THEN [p EXCEPT !.int[t].done = TRUE, !.inum = @ - 1]
                   ELSE [again EXCEPT !.int[t].resp = "none", !.int[t].acks = @ + 1]
              [] e.resp = "NACK" -> again
              [] OTHER -> IF e.t + 1 >= IntTimeout THEN [p EXCEPT !.int[t] = NoInt]
                          ELSE [p EXCEPT !.int[t].t = @ + 1]

\* InterruptControl::Cycle: a transaction that could not be pushed goes first
\* and alone; a push that fails ends the loop.
IntTurn(q, t) == IF q.itr # 0 \/ t \notin Targets THEN q ELSE IntTarget(q, t)
IntCycle(p) ==
    LET pass[t \in 0..LastTarget] == IF t = 0 THEN p ELSE IntTurn(pass[t-1], t)
    IN IF p.itr # 0 THEN PushInt(p) ELSE pass[LastTarget]

-----------------------------------------------------------------------------
(* SYNC: SynchronizedObject and sync_int                                   *)

NoSync == [waiting |-> FALSE, list |-> {}, state |-> "NOTWAITING"]

\* SyncTo: device s, if it waits for c, has c struck off its list.
SyncTo(s, c) ==
    IF ~s.waiting THEN s
    ELSE IF c \notin s.list THEN [s EXCEPT !.state = "WAITING"]
    ELSE IF s.list = {c} THEN [waiting |-> FALSE, list |-> {}, state |-> "FINISHED"]
    ELSE [s EXCEPT !.list = @ \ {c}, !.state = "FOUNDDEV"]

WaitsFor(s, c) == s.waiting /\ c \in s.list

\* A mutant of sync_initiate: the caller waits for those that wait for it.
sync_initiate_found(sy, c, ids) ==
    LET left == {d \in ids : WaitsFor(sy[d], c)}
        told == [d \in Ports |-> IF d \in ids THEN SyncTo(sy[d], c) ELSE sy[d]]
    IN IF left = {} THEN told
       ELSE [told EXCEPT ![c] = [waiting |-> TRUE, list |-> left, state |-> "WAITING"]]

\* sync_initiate: strike the caller off the lists that name it, and make it
\* wait for the devices that were not waiting for it.
sync_initiate(sy, c, ids) ==
    LET left == {d \in ids : ~WaitsFor(sy[d], c)}
        told == [d \in Ports |-> IF d \in ids THEN SyncTo(sy[d], c) ELSE sy[d]]
    IN IF left = {} THEN told
       ELSE [told EXCEPT ![c] = [waiting |-> TRUE, list |-> left, state |-> "WAITING"]]

\* sync_check_status reads FINISHED once: GetState then goes back to NOTWAITING.
Polled(s) == IF s.state = "FINISHED" THEN [s EXCEPT !.state = "NOTWAITING"] ELSE s

-----------------------------------------------------------------------------
(* IOSYNC: MemoryControl::GetSyncState and the write that ends the wait    *)

IosyncPasses(p) == p.io = "DONE" \/ (p.io = "NONE" /\ p.iomem)
GetSyncState(p) ==
    CASE p.io = "DONE" -> [p EXCEPT !.io = "NONE", !.iomem = FALSE]
      [] p.io = "NONE" /\ p.iomem -> [p EXCEPT !.iomem = FALSE]
      [] p.io = "NONE" /\ ~p.iomem -> [p EXCEPT !.io = "WAIT", !.iomem = TRUE]
      [] OTHER -> p
IosyncWrite(p, v) == [p EXCEPT !.io = IF @ = "WAIT" THEN "DONE" ELSE @, !.iomem = v,
                               !.iow = @ + 1]

-----------------------------------------------------------------------------
(* SJM::sjmCycle, for a port in EXEC.  It works on w = [p, sy, ok]: the    *)
(* port, the sync devices, and its result (FALSE: the output queue is      *)
(* full).  e is what the cycle shows the port: e.b the address bus         *)
(* ("match", "type" or "idle"), e.r whether the request line an ARBWAIT    *)
(* looks at is up, e.pd whether the other PLI modules are done.            *)

ErrorAddressOps == {"TOADDRESS", "BEADDRESS", "SEADDRESS", "CACHESTATE"}
ImmediateOps == {"SEED", "INTACCEPT", "INTACK", "INTMODE", "APADDRESS", "APERROR", "APCHECK",
                 "ECCERROR", "PRINT", "DISPLAY_ECTAG", "TIMEOUT"} \union ErrorAddressOps
\* FLIPBITS, ERROR, AOK, DOK, READINT and BIA are over in their cycle too, but the next
\* command waits for the next (no interrupt comes in from outside: BIA is never taken).
WriteOps == {"WRITEIO", "WRITEMSKIO", "WRITEBLKIO", "WRITEMSK"}
ReadOps  == {"READIO", "READMSKIO", "READBLKIO"}

\* A READIO waits for the writes in the queue.
rdrWritePending(p) == \E j \in DOMAIN p.outq : p.outq[j].t \in {"NCWR", "NCBWR", "WRM"}

TransOf(op) == CASE op = "WRITEBLKIO" -> "NCBWR" [] op = "WRITEMSK" -> "WRM"
                 [] op = "XIR" -> "XIR" [] op = "BUSERROR" -> "RAW" [] OTHER -> "NCWR"

\* The pending transaction goes to the output queue, then the next command.
PushTrans(i, w) ==
    IF w.p.tr.t = "none" THEN [w EXCEPT !.p = NextCmd(i, w.p)]
    ELSE IF Len(w.p.outq) = OutqDepth THEN [w EXCEPT !.ok = FALSE]
    ELSE [w EXCEPT !.p = NextCmd(i, [w.p EXCEPT !.outq = Append(@, w.p.tr),
                                                !.tr = [t |-> "none", k |-> 0]])]

Stay(w) == w
Branch(i, w) == [w EXCEPT !.p = BranchCmd(i, w.p)]

\* WAIT, and the count of BUSCHECK and BUSWAIT.
WaitCmd(i, w) ==
    IF w.p.wait # w.p.cycles[w.p.pc] THEN [w EXCEPT !.p.wait = @ + 1]
    ELSE PushTrans(i, [w EXCEPT !.p.wait = 0])

BusCheckCmd(i, w, b) ==
    CASE b = "match" -> PushTrans(i, [w EXCEPT !.p.wait = 0])
      [] b = "type" -> Stay(w)
      [] OTHER -> WaitCmd(i, w)

\* BUSWAIT with queue leaves the wait pending and goes on; the command's own
\* cycles becomes the absolute deadline.  A plain BUSWAIT that expires stays.
BusWaitCmd(i, w, b) ==
    IF b = "match" THEN PushTrans(i, [w EXCEPT !.p.wait = 0])
    ELSE IF w.p.wait = w.p.cycles[w.p.pc] THEN Stay(w)
    ELSE IF Cmd(i, w.p).queue /\ w.p.bw = 0
         THEN PushTrans(i, [w EXCEPT !.p.bw = w.p.pc, !.p.cycles[w.p.pc] = @ + cyc,
                                     !.p.wait = 0])
    ELSE [w EXCEPT !.p.wait = @ + 1]

SyncCmd(i, w) ==
    LET s == w.sy[i]
        sy == [w.sy EXCEPT ![i] = Polled(s)]
        begun == sync_initiate(sy, i, Cmd(i, w.p).ids)
    IN CASE s.state = "FINISHED" -> PushTrans(i, [w EXCEPT !.sy = sy, !.p.nsync = @ + 1])
         [] s.state \in {"WAITING", "FOUNDDEV"} -> Stay(w)
         [] OTHER -> IF begun[i].waiting THEN [w EXCEPT !.sy = begun]
                     ELSE PushTrans(i, [w EXCEPT !.sy = begun, !.p.nsync = @ + 1])

IosyncCmd(i, w) ==
    LET q == GetSyncState(w.p)
    IN IF IosyncPasses(w.p) THEN PushTrans(i, [w EXCEPT !.p = [q EXCEPT !.iop = @ + 1]])
       ELSE [w EXCEPT !.p = q]

\* BI and BNI block while interrupts are outstanding.
IntBranchCmd(i, w, op) ==
    IF w.p.inum > 0 THEN Stay(w)
    ELSE IF op = "BI"
         THEN IF CheckForACK(w.p) THEN Branch(i, [w EXCEPT !.p = ClearACKed(w.p)])
              ELSE PushTrans(i, w)
         ELSE IF CheckForNACK(w.p) THEN Branch(i, w) ELSE PushTrans(i, w)

IntCmd(i, w) ==
    LET t == CHOOSE t \in Cmd(i, w.p).ids : TRUE
    IN IF IntBusy(w.p, t) THEN Stay(w)
       ELSE PushTrans(i, [w EXCEPT !.p = NewOutgoing(w.p, t, Cmd(i, w.p).n)])

ReadIoCmd(i, w) ==
    IF rdrWritePending(w.p) \/ OrbFull(w.p) THEN Stay(w)
    ELSE PushTrans(i, [w EXCEPT !.p = OrbAdd(w.p, Cmd(i, w.p).cc)])

\* A pending buswait is looked at before the command; it is forgotten when it
\* is met, and in the one cycle of its deadline it stops the reader.
BusWaitMet(p, b) == p.bw # 0 /\ b = "match"
BusWaitExpired(p, b) == p.bw # 0 /\ b # "match" /\ p.cycles[p.bw] = cyc

\* The command proper.
Dispatch(i, w, e) ==
    LET op == Op(i, w.p) IN
    CASE op = "DONE" -> Stay(w)
      [] op = "WAIT" -> WaitCmd(i, w)
      [] op = "ARBWAIT" -> IF e.r THEN PushTrans(i, w) ELSE Stay(w)
      [] op = "BUSCHECK" -> BusCheckCmd(i, w, e.b)
      [] op = "BUSWAIT" -> BusWaitCmd(i, w, e.b)
      [] op = "SYNC" -> SyncCmd(i, w)
      [] op = "IOSYNC" -> IosyncCmd(i, w)
      [] op \in {"FLUSH", "CMP"} -> IF OrbEmpty(w.p) THEN PushTrans(i, w) ELSE Stay(w)
      [] op \in {"BNE", "BE"} ->
            IF ~OrbEmpty(w.p) THEN Stay(w)
            ELSE IF w.p.ccr = (op = "BNE") THEN Branch(i, w) ELSE PushTrans(i, w)
      [] op \in {"BA", "BNIA"} -> Branch(i, w)
      [] op \in {"BI", "BNI"} -> IntBranchCmd(i, w, op)
      [] op \in {"BD", "BND"} -> IF e.pd = (op = "BD") THEN Branch(i, w) ELSE PushTrans(i, w)
      [] op = "INT" -> IntCmd(i, w)
      [] op \in ReadOps -> ReadIoCmd(i, w)
      [] op = "INV" \/ (op = "WRITEMSK" /\ Valid(w.p) # {}) -> Stay(w)
      [] op \in WriteOps \union {"XIR", "BUSERROR"} /\ ~(op = "WRITEMSK" /\ Valid(w.p) # {}) ->
            PushTrans(i, [w EXCEPT !.p.tr = [t |-> TransOf(op), k |-> 0]])
      [] OTHER -> PushTrans(i, w)     \* a one-cycle command, or one the reader does not know

\* INV turns its register over once the reads are back.
InvReady(op, p) == op = "INV" /\ OrbEmpty(p)

\* sjmCycle: fetch if there is no command, check the reader's timeout, then
\* run one command; the immediate ones (INV too, once the reads are back) are
\* followed by the next at once, up to the DONE every file ends with.
Fetched(i, p) == IF p.pc = 0 THEN NextCmd(i, p) ELSE p
Stuck(i, p) == Op(i, p) = "NULL" \/ (Op(i, p) # "DONE" /\ p.tcnt >= p.tmo)
Begun(p, b) == [p EXCEPT !.tcnt = @ + 1, !.bw = IF BusWaitMet(p, b) THEN 0 ELSE @]
Immediate(i, p, b) ==
    /\ ~Stuck(i, p) /\ ~BusWaitExpired(p, b) /\ p.tr.t = "none"
    /\ Op(i, p) \in ImmediateOps \/ InvReady(Op(i, p), p)
\* The first command of those left, if it is an immediate one.
Pass(i, w, e) ==
    LET p == Fetched(i, w.p)
        q == Begun(p, e.b)
        t == IF Op(i, p) = "TIMEOUT" THEN [q EXCEPT !.tmo = Cmd(i, p).n] ELSE q
    IN IF Immediate(i, p, e.b) THEN [w EXCEPT !.p = NextCmd(i, t)] ELSE w
\* The command the reader stops at.
Stop(i, w, e) ==
    LET p == Fetched(i, w.p)
        v == [w EXCEPT !.p = Begun(p, e.b)]
    IN CASE Stuck(i, p) -> [w EXCEPT !.p = p]
         [] ~Stuck(i, p) /\ BusWaitExpired(p, e.b) -> v
         [] ~Stuck(i, p) /\ ~BusWaitExpired(p, e.b) /\ p.tr.t # "none" -> PushTrans(i, v)
         [] OTHER -> Dispatch(i, v, e)
sjmCycle(i, w, e) ==
    LET pass[n \in 0..Len(prog[i])] == IF n = 0 THEN w ELSE Pass(i, pass[n-1], e)
    IN Stop(i, pass[Len(prog[i])], e)

-----------------------------------------------------------------------------
(* The rest of a port's cycle                                              *)

NoTrans == [t |-> "none", k |-> 0]

(***************************************************************************)
(* SJM::sjmProcessOutSigs, as far as the command reader can tell: the head *)
(* of the output queue is out_trans while it waits for the bus, leaves the *)
(* queue with the grant g, and out_trans is NULL again after its last data *)
(* cycle.  In CHANGE no new transaction is taken.                          *)
(***************************************************************************)
DataCycles(t) == CASE t \in {"INT", "NCBWR", "WRM"} -> 2 [] t = "NCWR" -> 1 [] OTHER -> 0

OnTheBus(p, tr) ==
    CASE tr.t = "NCRD" /\ p.orb[tr.k].st = "queued" ->
           [p EXCEPT !.orb[tr.k].st = "bus", !.orb[tr.k].t = 1, !.owedr[tr.k] = @ + 1]
      [] tr.t = "INT" -> [p EXCEPT !.owedi[tr.k] = @ + 1]
      [] OTHER -> p

ProcessOutSigs(p0, g) ==
    LET p == [p0 EXCEPT !.put = "none"] IN
    IF p.busy > 0 THEN [p EXCEPT !.busy = @ - 1, !.ot = IF p.busy = 1 THEN NoTrans ELSE @]
    ELSE IF p.st = "CHANGE" THEN p
    ELSE IF p.outq = <<>> THEN [p EXCEPT !.ot = NoTrans]
    ELSE LET h == Head(p.outq) IN
         IF ~g THEN [p EXCEPT !.ot = h]
         ELSE OnTheBus([p EXCEPT !.outq = Tail(@), !.busy = DataCycles(h.t), !.put = h.t,
                                 !.ot = IF DataCycles(h.t) = 0 THEN NoTrans ELSE h], h)

\* What the bus brings in this cycle: the owed answers are counted off.
Incoming(p, in) ==
    CASE in[1] = "data" -> TakeData([p EXCEPT !.owedr[in[2]] = @ - 1], in[2])
      [] in[1] = "rderr" -> ReportError([p EXCEPT !.owedr[in[2]] = @ - 1], in[2])
      [] in[1] \in {"ACK", "NACK"} ->
           NewIncoming([p EXCEPT !.owedi[in[2]] = @ - 1], in[2], in[1])
      [] in[1] = "iow" -> IosyncWrite(p, in[2])
      [] OTHER -> p

\* An XIR on the bus restarts the command reader of every port, and nothing
\* else: not the sync device, not a pending buswait.
XirRestart(p) == [p EXCEPT !.pc = 1, !.wait = 0, !.tr = NoTrans, !.tcnt = 0]

(***************************************************************************)
(* The generators of sjmProcessInSigs, starting with nextgen.  Snoop and   *)
(* memory control do not touch the state modelled here and always succeed; *)
(* a generator that finds the output queue full ends the round, the        *)
(* interrupt controller to go first in the next, the reader not.           *)
(***************************************************************************)
IntGen(w) == LET q == IntCycle(w.p) IN [w EXCEPT !.p = q, !.ok = (q.itr = 0)]
CmdGen(i, w, e) == IF w.p.st = "EXEC" THEN sjmCycle(i, w, e) ELSE w

Generators(i, w, e) ==
    IF w.p.gen = "cmd"
    THEN LET c == CmdGen(i, w, e)
             n == IntGen(c)
         IN IF ~c.ok THEN [c EXCEPT !.p.gen = "snp"]
            ELSE [n EXCEPT !.p.gen = IF n.ok THEN "cmd" ELSE "int"]
    ELSE LET n == IntGen(w)
             c == CmdGen(i, n, e)
         IN IF ~n.ok THEN [n EXCEPT !.p.gen = "int"]
            ELSE [c EXCEPT !.p.gen = IF c.ok THEN @ ELSE "snp"]

ProcessInSigs(i, w, e) ==
    LET a == IF xir.in THEN XirRestart(w.p) ELSE w.p
    IN Generators(i, [w EXCEPT !.p = OrbCycle(Incoming(a, e.in), e.cc), !.ok = TRUE], e)

(***************************************************************************)
(* SJM::Reset.  The interrupt controller forgets its interrupts but keeps  *)
(* int_num_outgoing and a transaction it could not push; a pending buswait *)
(* and the deadlines written into commands survive too.                    *)
(***************************************************************************)
Reset(p) ==
    [p EXCEPT !.pc = 1, !.wait = 0, !.tr = NoTrans, !.tcnt = 0, !.outq = <<>>,
              !.ot = NoTrans, !.busy = 0, !.orb = [k \in 1..OrbSize |-> FreeEntry], !.num = 0,
              !.int = [t \in Targets |-> NoInt], !.ccr = FALSE, !.nsync = 0,
              !.owedr = [k \in 1..OrbSize |-> 0], !.owedi = [t \in Targets |-> 0]]

ResetPort(w, i, st) == [w EXCEPT !.p = [Reset(w.p) EXCEPT !.st = st, !.rstcnt = -1],
                                 !.sy[i] = NoSync]

(***************************************************************************)
(* SJM::InputValues: one clock of port i.                                  *)
(***************************************************************************)
ReadyCycle(i, w, e) ==
    LET start == w.p.st = "READY" /\ cyc = w.p.rstcnt + PostRst
        p == [w.p EXCEPT !.st = IF start THEN "EXEC" ELSE @]
        into == p.chg > 0 /\ p.chg >= ChangeInitiate
        count == (IF p.chg > 0 /\ ~into THEN 1 ELSE 0) + (IF pins.change THEN 1 ELSE 0)
    IN IF pins.rst THEN ResetPort([w EXCEPT !.p = p], i, "RST")
       ELSE ProcessInSigs(i, [w EXCEPT !.p = [p EXCEPT !.st = IF into THEN "CHANGE" ELSE @,
                                                       !.chg = @ + count]], e)

InputValues(i, w, e) ==
    LET p == w.p
        v == CASE p.st = "POR" -> IF pins.rst THEN ResetPort(w, i, "PORRST") ELSE w
               [] p.st \in {"RST", "PORRST"} ->
                    IF p.rstcnt < 0 /\ ~pins.rst
                    THEN [w EXCEPT !.p.st = "READY", !.p.rstcnt = cyc] ELSE w
               [] p.st = "CHANGE" ->
                    IF pins.rst THEN ResetPort([w EXCEPT !.p.chg = 0], i, "RST")
                    ELSE IF p.chg + 1 < ChangeWait THEN [w EXCEPT !.p.chg = @ + 1]
                    ELSE [w EXCEPT !.p.chg = 0, !.p.st = "EXEC"]
               [] OTHER -> ReadyCycle(i, w, e)
    IN IF p.st = "UNKNOWN" THEN w ELSE [v EXCEPT !.p = ProcessOutSigs(v.p, e.g)]

-----------------------------------------------------------------------------
(* The simulation                                                          *)

NewPort(cmds) ==
    [st |-> "UNKNOWN", rstcnt |-> -1, chg |-> 0, pc |-> 1, wait |-> 0, tmo |-> CmdTimeout,
     tcnt |-> 0, bw |-> 0, cycles |-> [j \in DOMAIN cmds |-> cmds[j].n], tr |-> NoTrans,
     outq |-> <<>>, ot |-> NoTrans, busy |-> 0, orb |-> [k \in 1..OrbSize |-> FreeEntry],
     num |-> 0, ccr |-> FALSE, int |-> [t \in Targets |-> NoInt], itr |-> 0, inum |-> 0,
     io |-> "NONE", iomem |-> FALSE, gen |-> "cmd", owedr |-> [k \in 1..OrbSize |-> 0],
     owedi |-> [t \in Targets |-> 0], nsync |-> 0, iow |-> 0, iop |-> 0,
     put |-> "none"]

ProgramInit ==
    /\ \E f \in Files : prog = [i \in Ports |-> Compile(f[i])]
    /\ port = [i \in Ports |-> NewPort(prog[i])]
    /\ sync = [i \in Ports |-> NoSync]
    /\ pins = [por |-> FALSE, rst |-> FALSE, change |-> FALSE, pulses |-> 0]
    /\ xir = [in |-> FALSE, out |-> FALSE, ever |-> FALSE]
    /\ cyc = 0
    /\ todo = Ports

Ops(i) == {prog[i][j].op : j \in DOMAIN prog[i]}
Running(p) == p.st \in {"READY", "EXEC"}

\* What the environment may show port i in one cycle.
BusViews(i) == IF Ops(i) \cap {"BUSCHECK", "BUSWAIT"} # {} THEN {"idle", "type", "match"}
               ELSE {"idle"}
Answers(i) ==
    LET p == port[i] IN
    {<<"none", 0>>} \union
    (IF ~Running(p) \/ pins.rst THEN {}
     ELSE {<<a, k>> : a \in {"data", "rderr"}, k \in {k \in 1..OrbSize : p.owedr[k] > 0}}
          \union {<<a, t>> : a \in {"ACK", "NACK"}, t \in {t \in Targets : p.owedi[t] > 0}}
          \union {<<"iow", v>> : v \in IF "IOSYNC" \in Ops(i) /\ p.iow < 2 THEN BOOLEAN ELSE {}})
Flags(cond) == IF cond THEN BOOLEAN ELSE {FALSE}

ClockPort(i) ==
    /\ i \in todo
    /\ todo' = todo \ {i}
    /\ \E b \in BusViews(i), in \in Answers(i), g \in BOOLEAN,
          r \in Flags("ARBWAIT" \in Ops(i)), pd \in Flags(Ops(i) \cap {"BD", "BND"} # {}),
          cc \in Flags(\E k \in 1..OrbSize : port[i].orb[k].cc) :
          LET w == InputValues(i, [p |-> port[i], sy |-> sync, ok |-> TRUE],
                               [b |-> b, in |-> in, g |-> g, r |-> r, pd |-> pd, cc |-> cc])
          IN /\ port' = [port EXCEPT ![i] = w.p]
             /\ sync' = w.sy
             /\ xir' = [xir EXCEPT !.out = @ \/ w.p.put = "XIR"]
    /\ UNCHANGED <<prog, pins, cyc>>

EndCycle ==
    /\ todo = {}
    /\ cyc < MaxCycle
    /\ todo' = Ports
    /\ cyc' = cyc + 1
    /\ pins' = [pins EXCEPT !.change = FALSE]
    /\ xir' = [in |-> xir.out, out |-> FALSE, ever |-> xir.ever \/ xir.out]
    /\ UNCHANGED <<prog, port, sync>>

\* SetPor is called for every port when the pin moves.
AssertPor ==
    /\ todo = Ports /\ cyc = 0 /\ ~pins.por
    /\ pins' = [pins EXCEPT !.por = TRUE, !.rst = TRUE]
    /\ port' = [i \in Ports |-> [port[i] EXCEPT !.st = "POR"]]
    /\ UNCHANGED <<prog, sync, xir, cyc, todo>>

ReleasePor ==
    /\ todo = Ports /\ pins.por /\ \A i \in Ports : port[i].st = "PORRST"
    /\ pins' = [pins EXCEPT !.por = FALSE]
    /\ port' = [i \in Ports |-> [port[i] EXCEPT !.st = "RST"]]
    /\ UNCHANGED <<prog, sync, xir, cyc, todo>>

ReleaseRst ==
    /\ todo = Ports /\ ~pins.por /\ pins.rst /\ \A i \in Ports : port[i].st = "RST"
    /\ pins' = [pins EXCEPT !.rst = FALSE]
    /\ UNCHANGED <<prog, port, sync, xir, cyc, todo>>

Pulse ==
    /\ todo = Ports /\ ~pins.por /\ ~pins.rst /\ pins.pulses < MaxPulses
    /\ \A i \in Ports : port[i].st = "EXEC"
    /\ \/ pins' = [pins EXCEPT !.rst = TRUE, !.pulses = @ + 1]
       \/ pins' = [pins EXCEPT !.change = TRUE, !.pulses = @ + 1]
    /\ UNCHANGED <<prog, port, sync, xir, cyc, todo>>

ProgramNext == \/ EndCycle \/ AssertPor \/ ReleasePor \/ ReleaseRst \/ Pulse
               \/ \E i \in Ports : ClockPort(i)
ProgramSpec == ProgramInit /\ [][ProgramNext]_progVars

-----------------------------------------------------------------------------
(* Properties                                                              *)

(***************************************************************************)
(* FLUSH, CMP and the branches wait for numvalid, BI and BNI for           *)
(* int_num_outgoing.  Neither counter follows its table exactly - a read   *)
(* that times out, an interrupt that times out or is reset away is never   *)
(* counted down, a late read error is counted down for an entry that is    *)
(* gone - but neither may ever fall below what is outstanding, or a FLUSH  *)
(* would let a read pass.                                                  *)
(***************************************************************************)
CountersCover ==
    \A i \in Ports :
        /\ Cardinality(Valid(port[i])) <= port[i].num
        /\ Cardinality({t \in Targets : IntBusy(port[i], t) /\ port[i].int[t].issued})
             <= port[i].inum

(***************************************************************************)
(* SYNC is a rendezvous: of two ports that name each other, neither gets   *)
(* two SYNCs ahead, in whatever order the simulator clocks them.  Claimed  *)
(* up to the first XIR, which restarts the readers but not the devices.    *)
(* And each IOSYNC that completes was released by a write of its own to    *)
(* the iosync word, whether the write came before the command or during    *)
(* the wait, and across resets (neither the word nor the state is reset).  *)
(***************************************************************************)
OnlySyncsWith(i, j) == \A k \in DOMAIN prog[i] : prog[i][k].op = "SYNC" => prog[i][k].ids = {j}

SyncRendezvous ==
    /\ todo = Ports /\ ~xir.ever =>
         \A i, j \in Ports :
             i # j /\ OnlySyncsWith(i, j) /\ OnlySyncsWith(j, i) /\ "SYNC" \in Ops(i) \cap Ops(j)
                => port[i].nsync <= port[j].nsync + 1
    /\ \A i \in Ports : port[i].iop <= port[i].iow
=============================================================================
