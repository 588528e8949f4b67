------------------------------ MODULE IobModel ------------------------------
(***************************************************************************)
(* The I/O bridge of the test bench (tools/pli/iop: iob.cc, pcx.cc,        *)
(* cpx.cc, device.cc).  It takes PCX requests of the cores, answers from   *)
(* the boot ROM or from its own registers, passes accesses to the DRAM     *)
(* controllers and the JBus interface on as UCB packets, turns their       *)
(* replies into CPX packets, and raises interrupts: one to start the boot  *)
(* thread and one for every program-counter event of the diag.             *)
(*                                                                         *)
(* Packets are recycled: pcx_heap keeps the ones that were answered with   *)
(* the fields of their last use, and an interrupt packet takes the address *)
(* it is routed by from them.  So a packet is an identity in iobMem.       *)
(* Cycle is iob_cdrive_call (one core clock), JCycle iob_jdrive_call (one  *)
(* bus clock); the two interleave freely.                                  *)
(***************************************************************************)
EXTENDS Integers, Sequences, FiniteSets

CONSTANTS IobCpus,      \* cores
          IobMenu,      \* requests a core may make, without their tag
          IobEvents,    \* interrupts the diag's events raise: target cores
          IobRequests,  \* bound: requests of a behaviour
          ReqWaits,     \* the random delays of a CPX packet (0..7)
          UcbWords      \* words of a UCB packet on the wire (4)

ASSUME IobAssumption == /\ IobRequests \in Nat
                        /\ ReqWaits \subseteq Nat
                        /\ UcbWords \in Nat \ {0}

(* A request names a core, one of the four threads of the two-bit field    *)
(* that chop_pkt takes (pcx.cc:77), what it asks for and where.  Fetches   *)
(* do not go to the DRAM controllers or the JBus: the bridge would answer  *)
(* one at once and still ask the device.                                   *)
ASSUME IobMenuAssumption ==
    /\ IobCpus \subseteq Nat
    /\ IobMenu \subseteq
          [cpu : IobCpus, thr : 0..3, rq : {"imiss", "load", "store"},
           region : {"rom", "dram0", "dram1", "jbi", "iob", "avail", "intr", "none"},
           line : {m.line : m \in IobMenu}, target : IobCpus]
    /\ \A m \in IobMenu : m.rq = "imiss" => m.region \notin {"dram0", "dram1", "jbi"}
    /\ \A t \in IobEvents : t \subseteq IobCpus

VARIABLES iobMem,     \* every pcx object made so far
          pcx_heap, pcx_list, pcx_load, jpcx_load,   \* lists of objects
          cpx_list,   \* cpx objects, which are rewritten whole when reused
          Qsel,       \* per core: requests the crossbar has not granted
          reqline,    \* next_req, req: the CPX request being driven
          cpxline,    \* the packet driven on CPX, or none
          dev_list, dram_list,   \* UCB packets to send: JBus, DRAM by bank
          iobData,    \* "data": result of the last boot ROM lookup
          iobAsked,   \* ghost: requests and events accepted, in order
          iobTold,    \* ghost: packets driven on CPX, in order
          iobReplies, \* environment: UCB reads a device has to answer
          iobSpurious,\* ghost: an interrupt was sent to a device
          iobFault    \* an answer met an empty pcx_load list

iobPcx == <<iobMem, pcx_heap, pcx_list, pcx_load, jpcx_load>>
iobDev == <<dev_list, dram_list, iobReplies>>
iobCpx == <<cpx_list, Qsel, reqline, cpxline, iobTold>>
iobRest == <<iobData, iobAsked, iobSpurious, iobFault>>
iobVars == <<iobPcx, iobDev, iobCpx, iobRest>>

Nobody == [cpu |-> -1, thr |-> -1, rq |-> "none", tag |-> 0, line |-> "none"]

\* set_dev: which device an address belongs to
set_dev(region) ==
    CASE region = "rom" -> 0 [] region \in {"dram0", "dram1"} -> 1
      [] region = "jbi" -> 2 [] region \in {"iob", "avail"} -> 3
      [] region = "intr" -> 4 [] OTHER -> 10

\* chop_pkt: the fields of a request of a core
chop_pkt(m, tag) ==
    [cpu |-> m.cpu, thr |-> m.thr, rq |-> m.rq, region |-> m.region,
     line |-> m.line, target |-> m.target, tag |-> tag, wait |-> 3,
     io_wait |-> set_dev(m.region) \in {1, 2} /\ m.rq = "load"]

(* event::xlation: an interrupt for core c in object "old"; the address it *)
(* is routed by is the one the object last held.                           *)
IntPacket(c, old, wait) ==
    [cpu |-> c, thr |-> 0, rq |-> "int", region |-> old.region,
     line |-> old.line, target |-> c, tag |-> 0, wait |-> wait,
     io_wait |-> FALSE]

\* An object nothing was ever written to: "up" and "low" are whatever the
\* allocator left there.
Blank == {[region |-> r, line |-> "rom0"] :
            r \in {"rom", "dram0", "jbi", "intr", "none"}}

\* pcx_heap.empty() ? new pcx : pcx_heap.shift(), as <<object, old, heap>>
Allocate(mem, heap) ==
    IF heap = <<>> THEN {<<Len(mem) + 1, old, heap>> : old \in Blank}
    ELSE {<<Head(heap), mem[Head(heap)], Tail(heap)>>}
Stored(mem, id, p) ==
    IF id > Len(mem) THEN Append(mem, p) ELSE [mem EXCEPT ![id] = p]

-----------------------------------------------------------------------------
(* cpx::xlation (its three forms) and jxlation: the packet that answers p. *)
Answer(p, data, w) ==
    [cpu |-> p.cpu, thr |-> p.thr, tag |-> p.tag,
     rq |-> CASE p.rq = "imiss" -> "ifill_ret" [] p.rq = "load" -> "load_ret"
              [] p.rq = "int" -> "int_ret" [] OTHER -> "st_ack",
     line |-> CASE p.rq \notin {"imiss", "load"} -> "none"
                [] p.rq = "load" /\ p.region = "avail" -> "avail"
                [] OTHER -> data,
     req_wait |-> w, cpx_wait |-> w + 1, sent |-> 1]
Interrupt(p, w) ==
    [cpu |-> p.target, thr |-> p.target % 4, tag |-> p.tag, rq |-> "int_ret",
     line |-> "none", req_wait |-> w, cpx_wait |-> w + 1, sent |-> 1]

Dec(n) == IF n > 0 THEN n - 1 ELSE 0

\* device::xlation: the UCB packet of p.  The thread number is or-ed into
\* the type field instead of its own, which stays 0.
UcbType(p) == IF p.rq = "store" \/ p.thr = 1 THEN "write" ELSE "read"
xlation(p) == [type |-> UcbType(p), thr |-> 0, tag |-> p.tag,
               wait |-> 1, ready |-> FALSE, vld |-> FALSE, left |-> UcbWords]

-----------------------------------------------------------------------------
(* The parts of do_iob, from the state of the lists to the next: s is a    *)
(* record of the lists.                                                    *)
read_pcx(s, m, tag) ==
    IF m.rq = "nothing" THEN {s}
    ELSE {[s EXCEPT !.mem = Stored(s.mem, a[1], chop_pkt(m, tag)),
                    !.heap = a[3], !.pcx = Append(@, a[1])] :
            a \in Allocate(s.mem, s.heap)}

grant_check(q, grants) ==
    [c \in DOMAIN q |-> IF c \in grants THEN Dec(q[c]) ELSE q[c]]

gen_event(s, targets) ==
    IF targets = {} THEN {s}
    ELSE LET c == CHOOSE c \in targets : TRUE
         IN  {[s EXCEPT !.mem = Stored(s.mem, a[1], IntPacket(c, a[2], 3)),
                        !.heap = a[3], !.pcx = Append(@, a[1])] :
                a \in Allocate(s.mem, s.heap)}

\* Mutant: the object of a load a device has to answer is free at once.
Recycled_early(s, p, id) == Append(s.heap, id)
\* An object goes back to the heap when its packet was answered.
Recycled(s, p, id) == IF p.io_wait THEN s.heap ELSE Append(s.heap, id)

handle_pcx(s, w, v) ==
    LET id   == Head(s.pcx)
        p    == s.mem[id]
        dev  == set_dev(p.region)
        data == IF dev = 0 THEN p.line ELSE s.data
    IN  IF p.wait > 1 THEN [s EXCEPT !.mem[id].wait = @ - 1]
        ELSE [s EXCEPT
            !.mem[id].wait = 0,
            !.pcx   = Tail(@),
            !.data  = data,
            !.dram0 = IF p.region = "dram0" THEN Append(@, xlation(p)) ELSE @,
            !.dram1 = IF p.region = "dram1" THEN Append(@, xlation(p)) ELSE @,
            !.dev   = IF dev = 2 THEN Append(@, xlation(p)) ELSE @,
            !.cpx   = IF p.io_wait THEN @
                      ELSE @ \o <<Answer(p, data, w)>>
                             \o (IF dev = 4 THEN <<Interrupt(p, v)>> ELSE <<>>),
            !.heap  = Recycled(s, p, id),
            !.load  = IF p.io_wait /\ dev = 1
                      THEN [s.load EXCEPT ![p.thr] = Append(@, id)] ELSE @,
            !.jload = IF p.io_wait /\ dev = 2
                      THEN [s.jload EXCEPT ![p.thr] = Append(@, id)] ELSE @,
            !.spurious = @ \/ (p.rq = "int" /\ dev \in {1, 2})]

\* get_req: the packet follows its request by a cycle at least.
get_req(wait) == IF wait = 0 THEN 1 ELSE wait

(* handle_cpx: the packet at the head of cpx_list asks for the crossbar,   *)
(* unless two earlier ones to its core wait there, and is ready the cycle  *)
(* after.                                                                  *)
handle_cpx(s) ==
    LET f    == Head(s.cpx)
        c    == [f EXCEPT !.req_wait = Dec(@), !.cpx_wait = Dec(@)]
        asks == c.req_wait = 0 /\ c.sent = 1 /\ s.q[c.cpu] # 2
        d    == IF asks THEN [c EXCEPT !.sent = 2,
                                !.cpx_wait = get_req(c.cpx_wait)] ELSE c
    IN  [s EXCEPT !.cpx = <<d>> \o Tail(@),
                  !.q[c.cpu] = IF asks THEN @ + 1 ELSE @,
                  !.req = IF asks THEN {c.cpu} ELSE {},
                  !.vld = d.cpx_wait = 0 /\ d.sent = 2]

(* drive_cpx and drive_req: a packet that is valid leaves the list and is  *)
(* on the wires for one cycle, and so is a request.                        *)
Drive(s) ==
    /\ cpx_list' = IF s.vld THEN Tail(s.cpx) ELSE s.cpx
    /\ cpxline'  = IF s.vld THEN Head(s.cpx) ELSE Nobody
    /\ iobTold'  = IF s.vld THEN Append(iobTold, Head(s.cpx)) ELSE iobTold
    /\ reqline'  = s.req
    /\ Qsel'     = s.q

Lists == [mem |-> iobMem, heap |-> pcx_heap, pcx |-> pcx_list,
          load |-> pcx_load, jload |-> jpcx_load, cpx |-> cpx_list,
          dev |-> dev_list, dram0 |-> dram_list[0], dram1 |-> dram_list[1],
          data |-> iobData, q |-> Qsel, req |-> {}, vld |-> FALSE,
          spurious |-> iobSpurious]

None  == [rq |-> "nothing"]
Event == [rq |-> "event", region |-> "none"]

(* iob_cdrive_call: one cycle of the core clock.                           *)
Cycle(m, grants, targets, w, v) ==
    \E s1 \in read_pcx([Lists EXCEPT !.q = grant_check(Qsel, grants)], m,
                       Len(iobAsked) + 1) :
    \E s2 \in gen_event(s1, targets) :
        LET s3 == IF s2.pcx = <<>> THEN s2 ELSE handle_pcx(s2, w, v)
            s4 == IF s3.cpx = <<>> THEN s3 ELSE handle_cpx(s3)
        IN  /\ Drive(s4)
            /\ iobMem' = s4.mem /\ pcx_heap' = s4.heap /\ pcx_list' = s4.pcx
            /\ pcx_load' = s4.load /\ jpcx_load' = s4.jload
            /\ dev_list' = s4.dev
            /\ dram_list' = [b \in 0..1 |-> IF b = 0 THEN s4.dram0 ELSE s4.dram1]
            /\ iobData' = s4.data
            /\ iobSpurious' = s4.spurious
            /\ iobAsked' = iobAsked
                  \o (IF m.rq = "nothing" THEN <<>> ELSE <<m>>)
                  \o (IF targets = {} THEN <<>> ELSE <<Event>>)
            /\ UNCHANGED <<iobReplies, iobFault>>

-----------------------------------------------------------------------------
(* dec_wait, then jbi_driver or dram_driver: the head of a device list     *)
(* becomes valid, sends its words one by one unless the receiver stalls,   *)
(* drops valid, and is removed the call after.                             *)
Sent(list, stall) ==
    IF list = <<>> THEN list
    ELSE LET h == Head(list)
             d == IF h.wait = 1
                  THEN [h EXCEPT !.wait = 0, !.ready = TRUE, !.vld = TRUE]
                  ELSE h
         IN  IF stall THEN <<d>> \o Tail(list)
             ELSE IF ~d.vld THEN Tail(list)
             ELSE <<[d EXCEPT !.left = @ - 1, !.vld = d.left > 1]>> \o Tail(list)

\* the read whose last word this call sends
Finished(list, stall, where) ==
    IF list # <<>> /\ ~stall /\ Head(list).left = 1 /\ Head(list).type = "read"
    THEN {[where |-> where, thr |-> Head(list).thr, tag |-> Head(list).tag]}
    ELSE {}

JSend == \E stalls \in SUBSET {0, 1} :
    /\ <<dev_list, dram_list>> # << <<>>, [b \in 0..1 |-> <<>>] >>
    /\ dev_list' = Sent(dev_list, FALSE)
    /\ dram_list' = [b \in 0..1 |-> Sent(dram_list[b], b \in stalls)]
    /\ iobReplies' = iobReplies \cup Finished(dev_list, FALSE, 2)
          \cup Finished(dram_list[0], 0 \in stalls, 0)
          \cup Finished(dram_list[1], 1 \in stalls, 1)
    /\ UNCHANGED <<iobPcx, iobCpx, iobRest>>

(* read_dram, read_pio: the last nibble of a reply has arrived; it answers *)
(* the packet at the head of the thread's list, which stays there although *)
(* the object goes back to the heap.                                       *)
Reply == \E r \in iobReplies, w \in ReqWaits :
    LET list == IF r.where = 2 THEN jpcx_load[r.thr] ELSE pcx_load[r.thr]
    IN  /\ iobReplies' = iobReplies \ {r}
        /\ IF list = <<>>
           THEN iobFault' = TRUE /\ UNCHANGED <<cpx_list, pcx_heap>>
           ELSE /\ cpx_list' = Append(cpx_list,
                      [Answer(iobMem[Head(list)], "io", w) EXCEPT
                         !.rq = IF r.where = 2 THEN "load_ret" ELSE @])
                /\ pcx_heap' = Append(pcx_heap, Head(list))
                /\ UNCHANGED iobFault
        /\ UNCHANGED <<iobMem, pcx_list, pcx_load, jpcx_load, Qsel, reqline,
                       cpxline, iobTold, dev_list, dram_list, iobData,
                       iobAsked, iobSpurious>>

-----------------------------------------------------------------------------
\* manual_init: the boot interrupt is the only packet.
IobInit ==
    /\ \E c \in IobCpus :
          iobMem = <<[cpu |-> c, thr |-> 0, rq |-> "int", region |-> "rom",
                      line |-> "rom0", target |-> c, tag |-> 0, wait |-> 1,
                      io_wait |-> FALSE]>>
    /\ pcx_list = <<1>> /\ pcx_heap = <<>>
    /\ pcx_load = [t \in 0..1 |-> <<>>] /\ jpcx_load = [t \in 0..1 |-> <<>>]
    /\ cpx_list = <<>> /\ Qsel = [c \in IobCpus |-> 0]
    /\ reqline = {} /\ cpxline = Nobody /\ iobTold = <<>>
    /\ dev_list = <<>> /\ dram_list = [b \in 0..1 |-> <<>>]
    /\ iobReplies = {} /\ iobData = "none" /\ iobAsked = <<>>
    /\ iobSpurious = FALSE /\ iobFault = FALSE

\* An interrupt routed to a device leaves what follows undefined.
Core == /\ ~iobSpurious
        /\ \E m \in IobMenu \cup {None}, g \in SUBSET IobCpus,
              t \in IobEvents, w \in ReqWaits, v \in ReqWaits :
              /\ m = None \/ Len(iobAsked) < IobRequests
              /\ g \subseteq {c \in IobCpus : Qsel[c] > 0}
              /\ t = {} \/ Len(iobAsked) + (IF m = None THEN 0 ELSE 1) < IobRequests
              /\ pcx_list # <<>> \/ w = 0
              /\ pcx_list # <<>> \/ v = 0
              /\ Cycle(m, g, t, w, v)

IobNext == Core \/ JSend \/ Reply

-----------------------------------------------------------------------------
IoLoad(m) == set_dev(m.region) \in {1, 2} /\ m.rq = "load"

(* What the bridge can serve: I/O loads of thread 0, and one of them on    *)
(* each interface, as the answered packet is never taken off pcx_load and  *)
(* jpcx_load and would be the one a second reply is read into.             *)
Served ==
    \A i \in 1..Len(iobAsked) : IoLoad(iobAsked[i]) =>
        /\ iobAsked[i].thr = 0
        /\ \A j \in 1..(i - 1) : IoLoad(iobAsked[j]) =>
              set_dev(iobAsked[j].region) # set_dev(iobAsked[i].region)

Told(i) == {k \in 1..Len(iobTold) : iobTold[k].tag = i}
Acks(i) == {k \in Told(i) : iobTold[k].rq # "int_ret"}

Pending == \/ pcx_list # <<>> \/ cpx_list # <<>> \/ dev_list # <<>>
           \/ iobReplies # {} \/ dram_list # [b \in 0..1 |-> <<>>]

(* However packets are recycled and in whatever order devices reply, a     *)
(* core hears about each of its requests at most once, with its own core,  *)
(* thread and kind and the boot ROM line it asked for, and exactly once    *)
(* when the bridge is idle; an interrupt write also interrupts its target. *)
IobAnswers ==
    ~iobSpurious /\ Served =>
    \A i \in 1..Len(iobAsked) : iobAsked[i] # Event =>
        LET m == iobAsked[i]
        IN  /\ Cardinality(Acks(i)) <= 1
            /\ ~Pending => Cardinality(Acks(i)) = 1
            /\ ~Pending /\ m.region = "intr" =>
                  \E k \in Told(i) : /\ iobTold[k].rq = "int_ret"
                                     /\ iobTold[k].cpu = m.target
            /\ \A k \in Acks(i) :
                  LET a == iobTold[k]
                  IN  /\ a.cpu = m.cpu /\ a.thr = m.thr
                      /\ a.rq = CASE m.rq = "imiss" -> "ifill_ret"
                                  [] m.rq = "load" -> "load_ret"
                                  [] OTHER -> "st_ack"
                      /\ m.region = "rom" /\ m.rq # "store" => a.line = m.line
                      /\ IoLoad(m) => a.line = "io"
=============================================================================
