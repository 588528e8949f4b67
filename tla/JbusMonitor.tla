----------------------------- MODULE JbusMonitor -----------------------------
(***************************************************************************)
(* The JBUS protocol monitor of the verification environment               *)
(* (pli/jbus_mon/c/jbus_mon.cc and its snoop fifo in jbus_tasks.cc).       *)
(*                                                                         *)
(* The monitor follows the bus a cycle at a time: it remembers every read  *)
(* by agent and transaction id, puts every snooped command in a fifo,      *)
(* collects the ports' acknowledgements there, works out which port must   *)
(* return the data, and delays flow-control packs as the repeaters do.     *)
(*                                                                         *)
(* The bus itself is external: the agents' own view of the traffic         *)
(* (variables jbOwed, jbSnoops and jbHeld) says what is legal, and         *)
(* every step is marked jmFault when the agents break the protocol.  The   *)
(* monitor must report exactly those steps; in a system without a Bell     *)
(* repeater it checks no flow control at all (see entry_point).            *)
(***************************************************************************)
EXTENDS Integers, Sequences, FiniteSets, SequencesExt, TLC

CONSTANTS
    MonPorts,       \* the ports that are present
    MonAgents,      \* agent ids used as the source of a command
    MonLines,       \* id fields of the addresses used
    MonTids,        \* transaction ids of one agent
    MonTypes,       \* the commands the agents send, by focus of the behaviour: "reads" or "flow"
    FifoDepth,      \* FIFO_DEPTH
    SnoopTimeout,   \* snoop_timeout: cycles a port may take to answer a snoop
    Bells,          \* the systems: TRUE with a Bell chip (valid_ports = 0x7f), FALSE without
    TimedOutLines,  \* owners of the addresses of +jbus_rd_timeout_base/_top
    MaxCommands,    \* bound on the commands and resets of a behaviour, by focus
    MaxFlow         \* bound on the AOK/DOK off packs of a behaviour that looks at flow control

ASSUME MonAssumption == /\ FifoDepth \in Nat \ {0, 1} /\ SnoopTimeout \in Nat
                        /\ Bells \subseteq BOOLEAN /\ MonPorts \subseteq 0..6 /\ MonAgents \subseteq 0..15

VARIABLES
    jmTrans,    \* transactions[agent][tid]
    jmFifo,     \* the snoop fifo: an entry per slot
    jmRead, jmWrite,
    jmAokRetime, jmDokRetime, jmAokOff, jmDokOff,
    jmBell,     \* local_ports_mask, sampled at reset, is 0x7f
    jmLast,     \* last_type
    jmData,     \* the multi-cycle transaction being followed
    jmErrors,   \* errors reported in the last step
    jmFault,    \* how the agents broke the protocol in the last step: "protocol", "blocked"
    jbOwed,     \* external: the port that owes data for a read, or a reason it owes none
    jbSnoops,   \* external: the snoops in flight, oldest first
    jbHeld,     \* external: flow control as the agents see it, by cycles since the pack
    jbCount     \* commands so far, flow-control packs left, the last command and the focus

monState == <<jmTrans, jmFifo, jmRead, jmWrite, jmAokRetime, jmDokRetime, jmAokOff, jmDokOff, jmBell, jmLast, jmData>>
monVars == <<monState, jmErrors, jmFault, jbOwed, jbSnoops, jbHeld, jbCount>>

(***************************************************************************)
(* init_routine: what each command is.                                     *)
(***************************************************************************)
Cmd(r, w, l, sn, mem) == [read |-> r, write |-> w, length |-> l, snoop |-> sn, mem |-> mem]
trans_types == [t \in {"RD", "RDD", "RDS", "RDSA", "RDO", "OWN"} |-> Cmd(TRUE, FALSE, 1, TRUE, TRUE)]
            @@ [t \in {"NCRD", "NCBR"} |-> Cmd(TRUE, FALSE, 1, FALSE, TRUE)]
            @@ [t \in {"WRM", "WRI", "WRIS"} |-> Cmd(FALSE, TRUE, 5, TRUE, TRUE)]
            @@ [t \in {"WRB", "WRBC", "NCBWR"} |-> Cmd(FALSE, TRUE, 5, FALSE, TRUE)]
            @@ [t \in {"NCWRC", "NCWR"} |-> Cmd(FALSE, TRUE, 2, FALSE, TRUE)]
            @@ ("INV" :> Cmd(FALSE, FALSE, 1, TRUE, TRUE))
            @@ ("INT" :> Cmd(FALSE, FALSE, 5, FALSE, FALSE))
            @@ [t \in {"INTACK", "INTNACK", "XIR", "IDLE"} |-> Cmd(FALSE, FALSE, 1, FALSE, FALSE)]

(* get_agent_mask: the agent ids a port may use as a source. *)
AgentsOf == [p \in 0..6 |-> CASE p \in 0..3 -> {p}
                              [] p = 4 -> {4, 5, 6, 7, 12, 13, 14, 15}
                              [] p = 5 -> {14, 15}
                              [] p = 6 -> {8, 9, 10, 11}]
AgentsOfAlt == [p \in 0..6 |-> IF p = 6 THEN {5} ELSE AgentsOf[p]]
compare_agent_to_jbus_id(a, p) == a \in AgentsOf[p] \/ (p = 6 /\ a = 5) \/ (p = 0 /\ a \in 0..3)

(* agent_to_id; agents 6 and 7 fall off the end of the function. *)
agent_to_id(a) == CASE a \in 0..3 -> a [] a = 4 -> 4 [] a = 5 -> 6 [] a \in 8..11 -> 6
                    [] a \in {14, 15} -> 5 [] a \in {12, 13} -> 4 [] OTHER -> 0

(* get_address_owner: the id field of an address; CPUs 1 to 7 are behind port 0. *)
get_address_owner(field) == IF field \in 1..7 THEN 0 ELSE field

(***************************************************************************)
(* The state after a reset, and the snoop fifo.                            *)
(***************************************************************************)
NoTrans == [valid |-> FALSE, cancelled |-> FALSE, known |-> FALSE, type |-> "NCRD", line |-> 0, ptr |-> 0, ret |-> 0, retValid |-> FALSE]
NoEntry == [valid |-> FALSE, acked |-> {}, share |-> FALSE, dirty |-> FALSE, split |-> FALSE,
            tr |-> <<>>, port |-> 0, req |-> 0, tid |-> 0, closed |-> FALSE, age |-> 0]

FifoSlots == 0..FifoDepth-1
Retime == 0..4
Calm == [i \in Retime |-> {}]

(* update_flow_control: where a pack enters the delay line depends on      *)
(* whether a Bell repeater is present.  Without one it enters at stage 4,  *)
(* from which nothing is ever shifted down.                                *)
entry_point == IF jmBell THEN 2 ELSE 4

update_flow_control(line, port, off) ==
    [line EXCEPT ![entry_point] = IF off THEN @ \cup {port} ELSE @ \ {port}]

(* flow_control_sample_and_delay: stage 0 is sampled, then stages 0 and 1  *)
(* take the stage above as long as stage 2 still has the port off.         *)
Delay_lag(line) ==
    LET s0 == [line EXCEPT ![0] = line[1]] IN [s0 EXCEPT ![1] = s0[2]]
Delay(line) ==
    LET s0 == [line EXCEPT ![0] = line[1] \cap line[2]] IN [s0 EXCEPT ![1] = s0[2]]

(* add_transation *)
AddTransaction(f, w, a, t, split, age) ==
    [f EXCEPT ![w] = [valid |-> TRUE, acked |-> {}, share |-> FALSE, dirty |-> FALSE, split |-> split,
                      tr |-> IF split THEN <<a, t>> ELSE f[w].tr, port |-> f[w].port, req |-> a, tid |-> t,
                      closed |-> FALSE, age |-> age]]

(* close_snoop_entry: the data came before all the acknowledgements. *)
CloseEntry(f, tr, a, t) ==
    IF f[tr.ptr].tr = <<a, t>> /\ f[tr.ptr].valid
    THEN [f EXCEPT ![tr.ptr].closed = TRUE, ![tr.ptr].tr = <<>>]
    ELSE f

(* The entry an acknowledgement of port p belongs to: the oldest valid one *)
(* it has not acknowledged, or jmWrite when there is none.                 *)
Step(i, n) == (i + n) % FifoDepth
AckSlot(s, p) ==
    LET Mine(i) == s.fifo[i].valid /\ p \notin s.fifo[i].acked
        n == CHOOSE k \in 0..FifoDepth :
                /\ Step(s.read, k) = s.write \/ Mine(Step(s.read, k))
                /\ \A j \in 0..k-1 : Step(s.read, j) # s.write /\ ~Mine(Step(s.read, j))
    IN Step(s.read, n)

(* The transaction of an entry after a dirty acknowledgement of port p; an *)
(* OWN whose requester still holds the line is complete.                   *)
SelfOwned(e, tr, p) == tr.type = "OWN" /\ (e.req \in AgentsOf[p] \/ e.req \in AgentsOfAlt[p])
DirtyTrans(e, tr, p) ==
    [tr EXCEPT !.known = TRUE, !.ret = p, !.cancelled = @ \/ SelfOwned(e, tr, p)]

(* handle_packs after the last acknowledgement: who returns the data. The  *)
(* transaction is found again by agent and id.                             *)
Completed(e, tr) ==
    IF ~e.split \/ (e.dirty /\ (e.closed \/ ~trans_types[tr.type].read)) THEN tr
    ELSE IF e.dirty THEN [tr EXCEPT !.ret = e.port, !.retValid = TRUE]
    ELSE IF get_address_owner(tr.line) = e.req THEN [tr EXCEPT !.cancelled = TRUE]
    ELSE [tr EXCEPT !.ret = agent_to_id(get_address_owner(tr.line)), !.retValid = TRUE]

(* add_pack: a snoop acknowledgement of port p. *)
AddPack(s, p, ack) ==
    LET i == AckSlot(s, p)
        old == s.fifo[i]
        isD == ack = "COHACKD"
        self == isD /\ old.tr # <<>> /\ old.split /\ SelfOwned(old, s.trans[old.tr[1]][old.tr[2]], p)
        e == [old EXCEPT !.acked = @ \cup {p}, !.dirty = @ \/ isD, !.share = @ \/ ack = "COHACKS",
                         !.port = IF isD THEN p ELSE @, !.closed = @ \/ self]
        tr1 == IF isD /\ e.tr # <<>> /\ e.split
               THEN [s.trans EXCEPT ![e.tr[1]][e.tr[2]] = DirtyTrans(e, @, p)] ELSE s.trans
        done == e.valid /\ e.acked = MonPorts
        tr2 == IF done /\ e.tr # <<>> /\ e.split THEN [tr1 EXCEPT ![e.tr[1]][e.tr[2]].known = TRUE] ELSE tr1
        tr3 == IF done THEN [tr2 EXCEPT ![e.req][e.tid] = Completed(e, @)] ELSE tr2
        gone == [e EXCEPT !.valid = FALSE, !.acked = {}, !.tr = IF e.split THEN <<>> ELSE @]
        errs == (IF i = s.write THEN {"too many jpacks"} ELSE {})
                \cup (IF old.tr = <<>> /\ old.split /\ ~old.closed THEN {"no request"} ELSE {})
                \cup (IF isD /\ old.dirty THEN {"two dirty"} ELSE {})
    IN [s EXCEPT !.fifo = [s.fifo EXCEPT ![i] = IF done THEN gone ELSE e],
                 !.trans = tr3,
                 !.read = IF done /\ i = s.read THEN Step(s.read, 1) ELSE @,
                 !.errors = @ \cup errs]

(* check_snoop_timing: the oldest entry must not wait too long, and none   *)
(* behind it may be complete.                                              *)
Span(r, w) == {Step(r, n) : n \in 0..((w - r + FifoDepth) % FifoDepth) - 1}
TimingErrors(s) ==
    LET live == {i \in Span(s.read, s.write) : s.fifo[i].valid}
        gaps == {i \in Span(s.read, s.write) : ~s.fifo[i].valid}
        Dist(i) == (i - s.read + FifoDepth) % FifoDepth
        oldest == CHOOSE i \in live : \A j \in live : Dist(i) <= Dist(j)
    IN (IF live # {} /\ s.fifo[oldest].age > SnoopTimeout THEN {"snoop timeout"} ELSE {})
       \cup (IF \E i \in gaps : live # {} /\ Dist(i) > Dist(oldest) THEN {"out of order"} ELSE {})

(* One port's pack. *)
OnePack(s, p, ack) ==
    CASE ack \in {"COHACK", "COHACKS", "COHACKD"} -> AddPack(s, p, ack)
      [] ack \in {"AOK_OFF", "AOK_ON"} -> [s EXCEPT !.aok = update_flow_control(@, p, ack = "AOK_OFF")]
      [] ack \in {"DOK_OFF", "DOK_ON"} -> [s EXCEPT !.dok = update_flow_control(@, p, ack = "DOK_OFF")]
      [] OTHER -> s

Older(e) == IF e.valid /\ e.age <= SnoopTimeout THEN [e EXCEPT !.age = @ + 1] ELSE e
Working == [fifo |-> [i \in FifoSlots |-> Older(jmFifo[i])], trans |-> jmTrans, read |-> jmRead, write |-> jmWrite,
            aok |-> Delay(jmAokRetime), dok |-> Delay(jmDokRetime), errors |-> {}]

(* handle_packs: the packs of one cycle, ports in order. *)
handle_packs(packs) ==
    FoldLeft(LAMBDA s, p : IF p \in MonPorts THEN OnePack(s, p, packs[p]) ELSE s, Working, <<0, 1, 2, 3, 4, 5, 6>>)

(***************************************************************************)
(* external: the agents.  A read is idle, open (the snoops have not said   *)
(* who has the line), owed by a port, or needs no data.                    *)
(***************************************************************************)
Idle == [st |-> "idle", port |-> 0, type |-> "NCRD", line |-> 0]
PortOf(a) == CHOOSE p \in MonPorts : a \in AgentsOf[p] \/ (p = 0 /\ a \in 0..3)
Blocked(k) == jbHeld[3][k] \cap jbHeld[4][k]   \* an off holds from the third cycle, an on frees in the second
Quiet(p) == p \in MonPorts /\ \A s \in ToSet(jbSnoops) : p \in s.acked

InitAgents ==
    /\ jbOwed = [a \in MonAgents |-> [t \in MonTids |-> Idle]]
    /\ jbSnoops = <<>>
    /\ jbHeld = [i \in 1..4 |-> [k \in {"aok", "dok"} |-> {}]]
    /\ \E focus \in DOMAIN MonTypes :
         jbCount = [cmds |-> 0, flow |-> IF focus = "flow" THEN MaxFlow ELSE 0, prev |-> "IDLE", focus |-> focus]

(* A read that needs no more data, or whose data was given up, frees its id. *)
Reusable(a, t) ==
    \/ jbOwed[a][t].st \in {"idle", "none"}
    \/ \E s \in ToSet(jbSnoops) : s.live /\ s.a = a /\ s.t = t /\ s.self

(* The snoop s after port p acknowledged it, and what the read is owed then. *)
Acked(s, p, ack) == [s EXCEPT !.acked = @ \cup {p}, !.dirty = @ \/ ack = "COHACKD", !.live = @ /\ s.acked \cup {p} # MonPorts]
Owes(s, p, ack, o) ==
    IF ~s.live THEN o
    ELSE IF ack = "COHACKD" THEN IF s.self THEN [o EXCEPT !.st = "none"] ELSE [o EXCEPT !.st = "owed", !.port = p]
    ELSE IF s.dirty \/ s.acked \cup {p} # MonPorts THEN o
    ELSE IF get_address_owner(s.line) = s.a THEN [o EXCEPT !.st = "none"]
    ELSE [o EXCEPT !.st = "owed", !.port = agent_to_id(get_address_owner(s.line))]

(* The packs a port may send: an answer to its oldest snoop (dirty only    *)
(* where it can hold the line), a flow-control change, nothing, and the    *)
(* faults: an answer to no snoop and a second dirty answer.                *)
Oldest(p) == CHOOSE i \in 1..Len(jbSnoops) : p \notin jbSnoops[i].acked /\ \A j \in 1..i-1 : p \in jbSnoops[j].acked
MayHold(s, p) == s.type # "RD" /\ (s.self <=> p = PortOf(s.a)) /\ ~s.dirty
PackChoices(p) ==
    {"IDLE"} \cup (IF jbCount.flow > 0 /\ p \notin jbHeld[1].aok THEN {"AOK_OFF"} ELSE {})
    \cup (IF jbCount.flow > 0 /\ p \notin jbHeld[1].dok THEN {"DOK_OFF"} ELSE {})
    \cup (IF p \in jbHeld[1].aok THEN {"AOK_ON"} ELSE {})
    \cup (IF p \in jbHeld[1].dok THEN {"DOK_ON"} ELSE {})
    \cup (IF jbCount.focus = "flow" THEN IF Quiet(p) THEN {} ELSE {"COHACK"}
          ELSE IF Quiet(p) THEN {"COHACK"}
          ELSE LET s == jbSnoops[Oldest(p)] IN
               IF s.self /\ p = PortOf(s.a) THEN {"COHACKD"}
               ELSE {"COHACK", "COHACKS"} \cup (IF MayHold(s, p) \/ s.dirty THEN {"COHACKD"} ELSE {}))

IsAck(ack) == ack \in {"COHACK", "COHACKS", "COHACKD"}
Fault(how, broken) == IF broken THEN {how} ELSE {}

(***************************************************************************)
(* next_cycle_POC: the packs of the next cycle.                            *)
(***************************************************************************)
next_cycle_POC(p, ack) ==
    LET packs == [q \in MonPorts |-> IF q = p THEN ack ELSE "IDLE"]
        s == handle_packs(packs)
        mine == IsAck(ack) /\ ~Quiet(p)
        i == Oldest(p)
        after == [j \in 1..Len(jbSnoops) |->
                    LET n == IF mine /\ j = i THEN Acked(jbSnoops[j], p, ack) ELSE jbSnoops[j]
                    IN [n EXCEPT !.age = IF @ <= SnoopTimeout THEN @ + 1 ELSE @]]
        open == SelectSeq(after, LAMBDA x : x.acked # MonPorts)
        raw == [k \in {"aok", "dok"} |->
                  CASE ack = (IF k = "aok" THEN "AOK_OFF" ELSE "DOK_OFF") -> jbHeld[1][k] \cup {p}
                    [] ack = (IF k = "aok" THEN "AOK_ON" ELSE "DOK_ON") -> jbHeld[1][k] \ {p}
                    [] OTHER -> jbHeld[1][k]]
    IN /\ jmFifo' = s.fifo /\ jmTrans' = s.trans /\ jmRead' = s.read /\ UNCHANGED jmWrite
       /\ jmAokOff' = jmAokRetime[0] /\ jmAokRetime' = s.aok
       /\ jmDokOff' = jmDokRetime[0] /\ jmDokRetime' = s.dok
       /\ jmErrors' = s.errors \cup TimingErrors(s)
       /\ jmFault' = Fault("protocol", \/ IsAck(ack) /\ Quiet(p)
                                       \/ ack = "COHACKD" /\ mine /\ jbSnoops[i].dirty
                                       \/ open # <<>> /\ Head(open).age > SnoopTimeout)
       /\ jbSnoops' = open
       /\ jbOwed' = IF mine THEN [jbOwed EXCEPT ![jbSnoops[i].a][jbSnoops[i].t] = Owes(jbSnoops[i], p, ack, @)] ELSE jbOwed
       /\ jbHeld' = <<raw, jbHeld[1], jbHeld[2], jbHeld[3]>>
       /\ jbCount' = IF ack \in {"AOK_OFF", "DOK_OFF"} THEN [jbCount EXCEPT !.flow = @ - 1] ELSE jbCount
       /\ UNCHANGED <<jmBell, jmLast>>

Packs == /\ jmFault = {} /\ jmData.turn = "packs"
         /\ \E p \in MonPorts : \E ack \in PackChoices(p) : next_cycle_POC(p, ack)
         /\ jmData' = [jmData EXCEPT !.turn = "bus"]

(***************************************************************************)
(* jbus_monitor: an address cycle.  port drives the bus, agent a is the    *)
(* source id, line the id field of the address.                            *)
(***************************************************************************)
CacheableReads == {"RD", "RDS", "RDSA", "RDO"}

Reuse(a, t, type) ==
    LET tr == jmTrans[a][t]
        active == trans_types[type].read /\ tr.valid /\ ~tr.cancelled /\ tr.line \notin TimedOutLines
    IN [close |-> active /\ ~tr.known /\ tr.type = "OWN", error |-> active /\ (tr.known \/ tr.type # "OWN")]

Stored(tr, type, line) == [tr EXCEPT !.line = line, !.type = type, !.cancelled = FALSE, !.valid = TRUE]

AddressErrors(port, a, t, type, line) ==
    LET c == trans_types[type] IN
    (IF c.mem /\ jmAokOff # {} THEN {"aok"} ELSE {})
    \cup (IF Reuse(a, t, type).error THEN {"reuse"} ELSE {})
    \cup (IF (c.read \/ type \in {"INT", "INTACK", "INTNACK"}) /\ ~compare_agent_to_jbus_id(a, port) THEN {"source"} ELSE {})
    \cup (IF type \in {"WRB", "WRBC"} /\ jmLast \notin CacheableReads THEN {"writeback"} ELSE {})
    \cup (IF c.snoop /\ jmFifo[jmWrite].valid THEN {"fifo full"} ELSE {})
    \cup (IF c.mem /\ agent_to_id(get_address_owner(line)) \notin MonPorts THEN {"absent"} ELSE {})
    \cup (IF c.mem /\ c.write /\ agent_to_id(get_address_owner(line)) \in jmDokOff THEN {"dok"} ELSE {})

DataCycles(type) == IF trans_types[type].write \/ type = "INT" THEN trans_types[type].length - 1 ELSE 0

address_cycle(port, a, t, type, line) ==
    LET c == trans_types[type]
        f == IF Reuse(a, t, type).close THEN CloseEntry(jmFifo, jmTrans[a][t], a, t) ELSE jmFifo
        tr == IF c.read THEN Stored(jmTrans[a][t], type, line) ELSE jmTrans[a][t]
    IN /\ jmFifo' = IF c.snoop THEN AddTransaction(f, jmWrite, a, t, c.read, 0) ELSE f
       /\ jmTrans' = [jmTrans EXCEPT ![a][t] = IF c.snoop /\ c.read THEN [tr EXCEPT !.ptr = jmWrite, !.known = FALSE] ELSE tr]
       /\ jmWrite' = IF c.snoop THEN Step(jmWrite, 1) ELSE jmWrite
       /\ jmErrors' = AddressErrors(port, a, t, type, line)
       /\ jmLast' = type
       /\ jmData' = [turn |-> "packs", left |-> DataCycles(type), ret |-> <<>>]
       /\ UNCHANGED <<jmRead, jmAokRetime, jmDokRetime, jmAokOff, jmDokOff, jmBell>>

(* The agents send a command: the id must be free, flow control on, and    *)
(* the source one of the driving port's.  An agent reuses the id of an OWN *)
(* in flight only when it holds the line itself: the monitor allows every  *)
(* such reuse, as it cannot know yet.                                      *)
Command ==
    /\ jmFault = {} /\ jmData.turn = "bus" /\ jmData.left = 0 /\ jmData.ret = <<>>
    /\ jbCount.cmds < MaxCommands[jbCount.focus] /\ Len(jbSnoops) < FifoDepth - 1
    /\ \E a \in MonAgents, t \in MonTids, type \in MonTypes[jbCount.focus], line \in MonLines, port \in MonPorts, self \in BOOLEAN :
        LET c == trans_types[type] IN
        /\ self => type = "OWN"
        /\ c.read \/ t = CHOOSE x \in MonTids : TRUE
        /\ port = PortOf(a) \/ (c.read /\ jbCount.focus = "reads")
        /\ c.read /\ jbOwed[a][t].type = "OWN" /\ jbOwed[a][t].st = "open" => Reusable(a, t)
        /\ type \in {"WRB", "WRBC"} => jbCount.prev \in CacheableReads
        /\ jmFault' = Fault("protocol", \/ c.read /\ ~Reusable(a, t) /\ jbOwed[a][t].line \notin TimedOutLines
                                        \/ port # PortOf(a))
                      \cup Fault("blocked", Blocked("aok") # {} \/ (c.write /\ PortOf(line) \in Blocked("dok")))
        /\ address_cycle(port, a, t, type, line)
        /\ jbOwed' = IF c.read
                     THEN [jbOwed EXCEPT ![a][t] = [st |-> IF c.snoop THEN "open" ELSE "owed", port |-> PortOf(line), type |-> type, line |-> line]]
                     ELSE jbOwed
        /\ jbSnoops' = LET stale == [i \in 1..Len(jbSnoops) |->
                                        IF c.read /\ jbSnoops[i].a = a /\ jbSnoops[i].t = t
                                        THEN [jbSnoops[i] EXCEPT !.live = FALSE] ELSE jbSnoops[i]]
                       IN IF c.snoop
                          THEN Append(stale, [a |-> a, t |-> t, type |-> type, line |-> line, acked |-> {}, dirty |-> FALSE,
                                              self |-> self, live |-> c.read, age |-> 0])
                          ELSE stale
        /\ jbCount' = [jbCount EXCEPT !.cmds = @ + 1, !.prev = type]
        /\ UNCHANGED jbHeld

(* An idle cycle, or a data cycle of a write. *)
IdleCycle ==
    /\ jmFault = {} /\ jmData.turn = "bus" /\ jmData.ret = <<>>
    /\ jmData' = [jmData EXCEPT !.turn = "packs", !.left = IF @ > 0 THEN @ - 1 ELSE 0]
    /\ jmLast' = IF jmData.left > 0 THEN jmLast ELSE "IDLE"
    /\ jbCount' = IF jmData.left > 0 THEN jbCount ELSE [jbCount EXCEPT !.prev = "IDLE"]
    /\ jmErrors' = {}
    /\ UNCHANGED <<jmTrans, jmFifo, jmRead, jmWrite, jmAokRetime, jmDokRetime, jmAokOff, jmDokOff, jmBell, jmFault,
                   jbOwed, jbSnoops, jbHeld>>

(***************************************************************************)
(* Read returns: one cycle (RET_16), an error (RET_ERR) or four (RET_64).  *)
(***************************************************************************)
ReturnMatches(kind, type) == IF kind = "RET_16" THEN type = "NCRD" ELSE trans_types[type].snoop \/ type = "NCBR"

InstallOk(type, state) ==
    CASE state = "I" -> type \in {"RD", "RDD", "NCBR"}
      [] state = "S" -> type \in {"RDS", "RDSA"}
      [] state = "E" -> type \in {"RDS", "RD"}
      [] state = "M" -> type \in {"RDO", "OWN"}

(* The states the agents install a line in. *)
Installs == [t \in {"RD"} |-> {"I", "E"}] @@ [t \in {"RDD", "NCBR", "NCRD"} |-> {"I"}] @@ [t \in {"RDS"} |-> {"S", "E"}]
         @@ [t \in {"RDSA"} |-> {"S"}] @@ [t \in {"RDO", "OWN"} |-> {"M"}]

(* The first cycle of a return by port to agent a. *)
return_cycle(kind, port, a, t, state) ==
    LET tr == jmTrans[a][t] IN
    /\ jmLast' = kind
    /\ jmErrors' = IF kind = "RET_ERR" THEN {"read error"}
                   ELSE IF ~tr.valid THEN {"unexpected"}
                   ELSE IF ReturnMatches(kind, tr.type) THEN {} ELSE {"wrong size"}
    /\ jmData' = [turn |-> "packs", left |-> 0, ret |-> IF kind = "RET_64" THEN <<port, a, t, state, 3>> ELSE <<>>]
    /\ jmTrans' = IF kind = "RET_64" THEN jmTrans ELSE [jmTrans EXCEPT ![a][t].valid = FALSE]
    /\ UNCHANGED <<jmFifo, jmRead, jmWrite, jmAokRetime, jmDokRetime, jmAokOff, jmDokOff, jmBell>>

(* Whom the agents let return the data of a read, and in how many cycles. *)
LegalReturn(kind, port, o) ==
    CASE kind = "RET_ERR" -> FALSE
      [] kind = "RET_16" -> o.st = "owed" /\ o.type = "NCRD"
      [] kind = "RET_64" -> o.type # "NCRD" /\ o.st \in {"owed", "none"}

Return ==
    /\ jmFault = {} /\ jmData.turn = "bus" /\ jmData.left = 0 /\ jmData.ret = <<>>
    /\ \E kind \in {"RET_16", "RET_64", "RET_ERR"}, port \in MonPorts, a \in MonAgents, t \in MonTids :
        LET o == jbOwed[a][t]
        IN
        /\ o.st # "open"
        /\ o.st = "none" => kind = "RET_64" /\ port = PortOf(a)
        /\ trans_types[o.type].snoop \/ port = o.port
        /\ \E state \in Installs[o.type] :
             /\ return_cycle(kind, port, a, t, state)
             /\ jmFault' = Fault("protocol", ~LegalReturn(kind, port, o))
        /\ jbOwed' = IF kind = "RET_64" THEN jbOwed ELSE [jbOwed EXCEPT ![a][t] = Idle]
        /\ jbCount' = [jbCount EXCEPT !.prev = kind]
        /\ UNCHANGED <<jbSnoops, jbHeld>>

(* The three further cycles of a four-cycle return; the last one closes    *)
(* the read and checks which port drove it.                                *)
MoreData ==
    /\ jmFault = {} /\ jmData.turn = "bus" /\ jmData.ret # <<>>
    /\ LET port == jmData.ret[1] a == jmData.ret[2] t == jmData.ret[3] n == jmData.ret[5]
           tr == jmTrans[a][t]
           snooped == trans_types[tr.type].snoop
           owner == agent_to_id(get_address_owner(tr.line))
           early == snooped /\ ~tr.known
       IN /\ jmData' = [jmData EXCEPT !.turn = "packs", !.ret = IF n = 1 THEN <<>> ELSE [@ EXCEPT ![5] = n - 1]]
          /\ jmFifo' = IF n = 1 /\ tr.valid /\ snooped THEN CloseEntry(jmFifo, tr, a, t) ELSE jmFifo
          /\ jmTrans' = IF n = 1 /\ tr.valid THEN [jmTrans EXCEPT ![a][t].valid = FALSE] ELSE jmTrans
          /\ jmErrors' = (IF n = 3 /\ ~InstallOk(tr.type, jmData.ret[4]) THEN {"install"} ELSE {})
                \cup (IF n # 1 \/ ~tr.valid \/ tr.cancelled THEN {}
                      ELSE IF tr.type = "RD" THEN IF owner # port THEN {"not memory"} ELSE {}
                      ELSE IF snooped /\ tr.ret # port /\ ~early THEN {"wrong master"} ELSE {})
          /\ jmFault' = Fault("protocol", n = 1 /\ jbOwed[a][t].st = "owed" /\ port # jbOwed[a][t].port
                                              /\ trans_types[jbOwed[a][t].type].snoop)
          /\ jbOwed' = IF n = 1 THEN [jbOwed EXCEPT ![a][t] = Idle] ELSE jbOwed
          /\ jbSnoops' = IF n = 1
                         THEN [i \in 1..Len(jbSnoops) |-> IF jbSnoops[i].a = a /\ jbSnoops[i].t = t
                                                          THEN [jbSnoops[i] EXCEPT !.live = FALSE] ELSE jbSnoops[i]]
                         ELSE jbSnoops
          /\ UNCHANGED <<jmRead, jmWrite, jmAokRetime, jmDokRetime, jmAokOff, jmDokOff, jmBell, jmLast, jbHeld, jbCount>>

(***************************************************************************)
(* A reset: the fifo and the flow control are cleared, the reads are made  *)
(* invalid; what else an entry or a read held stays.                       *)
(***************************************************************************)
Reset ==
    /\ jmFault = {} /\ jbCount.cmds > 0 /\ jbCount.cmds < MaxCommands[jbCount.focus]
    /\ jmTrans' = [a \in MonAgents |-> [t \in MonTids |-> [jmTrans[a][t] EXCEPT !.valid = FALSE]]]
    /\ jmFifo' = [i \in FifoSlots |-> [jmFifo[i] EXCEPT !.valid = FALSE, !.acked = {}]]
    /\ jmRead' = 0 /\ jmWrite' = 0
    /\ jmAokRetime' = Calm /\ jmDokRetime' = Calm /\ jmAokOff' = {} /\ jmDokOff' = {}
    /\ jmLast' = "IDLE" /\ jmData' = [turn |-> "packs", left |-> 0, ret |-> <<>>]
    /\ jmErrors' = {} /\ jmFault' = {} /\ UNCHANGED jmBell
    /\ jbOwed' = [a \in MonAgents |-> [t \in MonTids |-> Idle]]
    /\ jbSnoops' = <<>>
    /\ jbHeld' = [i \in 1..4 |-> [k \in {"aok", "dok"} |-> {}]]
    /\ jbCount' = [jbCount EXCEPT !.cmds = @ + 1, !.prev = "IDLE"]

MonInit ==
    /\ jmTrans = [a \in MonAgents |-> [t \in MonTids |-> NoTrans]]
    /\ jmFifo = [i \in FifoSlots |-> NoEntry]
    /\ jmRead = 0 /\ jmWrite = 0
    /\ jmAokRetime = Calm /\ jmDokRetime = Calm /\ jmAokOff = {} /\ jmDokOff = {}
    /\ jmLast = "IDLE" /\ jmData = [turn |-> "packs", left |-> 0, ret |-> <<>>]
    /\ jmErrors = {} /\ jmFault = {} /\ jmBell \in Bells
    /\ InitAgents

MonNext == Packs \/ Command \/ IdleCycle \/ Return \/ MoreData \/ Reset

(***************************************************************************)
(* Properties.                                                             *)
(***************************************************************************)
(* The monitor reports an error in a cycle exactly when the agents broke   *)
(* the protocol in it: no false alarm when data overtakes acknowledgements *)
(* or an id is reused after an OWN, no missed wrong master, reused id,     *)
(* surplus or second dirty acknowledgement or late snoop.  A command sent  *)
(* against flow control is reported in a system with a Bell chip, at the   *)
(* very cycle the off acts; without one it never is (update_flow_control   *)
(* enters the pack where flow_control_sample_and_delay does not look).     *)
(* Until a fault the monitor's books are those of the bus.  The reads it   *)
(* counts as outstanding (the signal uncompleted_accesses and the report   *)
(* at finish) are those that wait for data, also after ids were reused     *)
(* under late acknowledgements; the slots between read and write are the   *)
(* snoops in flight, in order, each with the acknowledgements given.       *)
MonitorExact ==
    /\ jmErrors # {} <=> (IF jmBell THEN jmFault ELSE jmFault \ {"blocked"}) # {}
    /\ jmFault = {} =>
       /\ \A a \in MonAgents, t \in MonTids :
            (jmTrans[a][t].valid /\ ~jmTrans[a][t].cancelled) <=> jbOwed[a][t].st \in {"open", "owed"}
       /\ \A i \in FifoSlots : jmFifo[i].valid <=> i \in Span(jmRead, jmWrite)
       /\ Cardinality(Span(jmRead, jmWrite)) = Len(jbSnoops)
       /\ \A n \in 1..Len(jbSnoops) :
            LET e == jmFifo[Step(jmRead, n - 1)] IN
            /\ e.req = jbSnoops[n].a /\ e.tid = jbSnoops[n].t /\ e.acked = jbSnoops[n].acked
            /\ (e.tr # <<>> /\ e.split /\ ~e.closed) => jmTrans[e.req][e.tid].ptr = Step(jmRead, n - 1)
=============================================================================
