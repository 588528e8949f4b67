------------------------------- MODULE SjmFlow --------------------------------
(***************************************************************************)
(* The flow control of an SJM port (MemoryControl.cc, SnoopControl.cc).    *)
(* Addresses fill the snoop queue, the results queue and the two memory    *)
(* request queues, write data fills the data queue; before one is full the *)
(* port tells the others with a j_pack to send no address (AOK_OFF) or no  *)
(* data to it (DOK_OFF), and later to go on.  The packs of all the queues  *)
(* and the snoop answers share out_packq, one leaves each cycle, and the   *)
(* others act on it two cycles later (SnoopControl::UpdatePacks).          *)
(*                                                                         *)
(* A step is a bus cycle.  The environment chooses what a sender drives    *)
(* when its flow control lets it, whether the other ports' packs are in,   *)
(* whether the port's own outstanding read blocks its snoops, and whether  *)
(* the memory delays have run out.  Addresses are left out: the memory     *)
(* requests of this port meet their results in order.                      *)
(***************************************************************************)
EXTENDS Integers, Sequences, SequencesExt

CONSTANTS Traffics,        \* the sets of transactions a sender may choose from
          AddrLimit,       \* G_ADDR_OVERFLOW_LIMIT
          DataLimit,       \* G_DATA_OVERFLOW_LIMIT
          MemSize,         \* size of memq and of iomemq
          DataSize,        \* dataq_size
          SnoopSize,       \* size of snoopq
          ResultSize,      \* size of resultsq
          PackSize         \* G_PACKOUTQ_DEPTH

ASSUME SjmFlowAssumption ==
    /\ Traffics \subseteq SUBSET {"ncrd", "ncwr", "ncwrc", "ncbwr", "rd", "snp"}
    /\ {AddrLimit, DataLimit, MemSize, DataSize, SnoopSize, ResultSize, PackSize} \subseteq Nat \ {0}

VARIABLES fl

\* NCRD; NCWR, NCWRC and NCBWR; a read of this port's memory; one of another's.
FlowKinds == {"ncrd", "ncwr", "ncwrc", "ncbwr", "rd", "snp"}
Beats(k) == CASE k \in {"ncwr", "ncwrc"} -> 1 [] k = "ncbwr" -> 4 [] OTHER -> 0

\* The state SnoopControl::Reset and MemoryControl::Reset leave; err is the
\* set of overflows reported.
FlowReset(traffic) ==
    [traffic |-> traffic, memq |-> 0, iomemq |-> <<>>, dataq |-> 0, snoopq |-> 0,
     resultsq |-> <<>>, out_packq |-> <<>>, aok_on |-> TRUE, dok_on |-> TRUE,
     memq_off |-> FALSE, snpq_off |-> FALSE, resq_off |-> FALSE, compress |-> FALSE,
     acked |-> 0, pin |-> "IDLE", bus |-> "idle", beats |-> 0, err |-> {},
     s |-> [halt |-> FALSE, aok_next |-> TRUE, aok_prev |-> TRUE,
            dok_next |-> TRUE, dok_prev |-> TRUE]]

FlowInit == fl \in {FlowReset(t) : t \in Traffics}

-----------------------------------------------------------------------------
(* SnoopControl                                                            *)

\* AddPack, for the memory controller: ahead of the queue, behind a pack of
\* higher priority at its head.  A pack that finds no room is lost.
Before(p) == CASE p = "DOK_OFF" -> {"AOK_OFF"}
               [] p = "AOK_ON" -> {"AOK_OFF", "DOK_OFF"}
               [] p = "DOK_ON" -> {"AOK_OFF", "DOK_OFF", "AOK_ON"}
               [] OTHER -> {}
AddPack(f, p) ==
    LET q == f.out_packq
        behind == q # <<>> /\ Head(q) \in Before(p)
    IN IF Len(q) < PackSize
       THEN [f EXCEPT !.out_packq = IF behind THEN <<Head(q), p>> \o Tail(q) ELSE <<p>> \o q]
       ELSE [f EXCEPT !.err = @ \union {"pack"},
                      !.out_packq = IF behind THEN <<p>> \o Tail(q) ELSE q]

\* A push at the end, for the snoop controller's own packs.
PushPack(f, p) == IF Len(f.out_packq) < PackSize THEN [f EXCEPT !.out_packq = Append(@, p)]
                  ELSE [f EXCEPT !.err = @ \union {"pack"}]

SnoopSpace(f) == SnoopSize - f.snoopq
ResultSpace(f) == ResultSize - Len(f.resultsq)

QueueSnoop(f) ==
    LET g == IF SnoopSpace(f) = 0 THEN [f EXCEPT !.err = @ \union {"snoop"}]
             ELSE [f EXCEPT !.snoopq = @ + 1]
    IN IF SnoopSpace(g) <= AddrLimit /\ ~g.resq_off /\ ~g.memq_off
       THEN [PushPack(g, "AOK_OFF") EXCEPT !.snpq_off = TRUE]
       ELSE g

QueueResult(f, hold) ==
    LET g == IF ResultSpace(f) = 0 THEN [f EXCEPT !.err = @ \union {"result"}]
             ELSE [f EXCEPT !.resultsq = Append(@, [hold |-> hold, done |-> FALSE])]
    IN IF ResultSpace(g) = AddrLimit /\ ~g.snpq_off /\ ~g.memq_off
       THEN [PushPack(g, "AOK_OFF") EXCEPT !.resq_off = TRUE]
       ELSE g

NewSnoop(f, hold) == QueueResult(QueueSnoop(f), hold)

\* The packs go on although the memory controller may want them off.
ClearResults(f) ==
    LET g == [f EXCEPT !.resultsq = Tail(@)]
    IN IF g.resq_off /\ ResultSpace(g) > AddrLimit + 1
       THEN [PushPack(g, "AOK_ON") EXCEPT !.resq_off = FALSE]
       ELSE g

\* Cycle, its first half: the packs of every port, its own one too, are in.
ResultCycleFl(f, in) ==
    LET ready == in /\ f.acked > 0 /\ f.resultsq # <<>> /\ ~Head(f.resultsq).done
        g == IF ready THEN [f EXCEPT !.resultsq[1].done = TRUE, !.acked = @ - 1] ELSE f
    IN IF g.resultsq # <<>> /\ Head(g.resultsq).done /\ ~Head(g.resultsq).hold
       THEN ClearResults(g) ELSE g

\* Its second half: the snoop at the head is answered.
SnoopCycleFl(f, blocked) ==
    LET g == [PushPack(f, "COHACK") EXCEPT !.snoopq = @ - 1]
    IN IF f.snoopq = 0 \/ blocked THEN f
       ELSE IF g.snpq_off /\ SnoopSpace(g) > AddrLimit + 1 /\ ~g.memq_off
            THEN [PushPack(g, "AOK_ON") EXCEPT !.snpq_off = FALSE]
            ELSE g

\* UpdatePacks, at a sender: what it acts on is a cycle behind what it saw.
UpdatePacks(s, p) ==
    LET halt == CASE p = "AOK_ON" -> FALSE [] p = "AOK_OFF" -> TRUE [] OTHER -> s.halt
    IN [halt |-> halt, aok_prev |-> s.aok_next, aok_next |-> ~halt, dok_prev |-> s.dok_next,
        dok_next |-> CASE p = "DOK_ON" -> TRUE [] p = "DOK_OFF" -> FALSE [] OTHER -> s.dok_next]

-----------------------------------------------------------------------------
(* MemoryControl                                                           *)

MemSpace(f) == MemSize - f.memq
IoSpace(f) == MemSize - Len(f.iomemq)

\* addRequest.
addRequest(f, k) ==
    LET g == [f EXCEPT !.compress = (k = "ncwrc")]
        h == IF k = "rd"
             THEN IF MemSpace(g) = 0 THEN [g EXCEPT !.err = @ \union {"mem"}]
                  ELSE [g EXCEPT !.memq = @ + 1]
             ELSE IF IoSpace(g) = 0 THEN [g EXCEPT !.err = @ \union {"io"}]
                  ELSE [g EXCEPT !.iomemq = Append(@, [n |-> Beats(k), in |-> 0,
                                                       comp |-> (k = "ncwrc")])]
    IN IF h.aok_on /\ (MemSpace(h) = AddrLimit \/ IoSpace(h) = AddrLimit)
       THEN [AddPack(h, "AOK_OFF") EXCEPT !.memq_off = TRUE, !.aok_on = FALSE]
       ELSE h

\* AddData: a quadword of the latest write.
AddData(f) ==
    LET g == [f EXCEPT !.dataq = @ + 1]
        h == [g EXCEPT !.iomemq[Len(g.iomemq)].in = @ + 1]
    IN IF g.dataq > DataSize THEN [g EXCEPT !.err = @ \union {"data"}]
       ELSE IF DataSize - h.dataq = DataLimit
            THEN [AddPack(h, "DOK_OFF") EXCEPT !.dok_on = FALSE]
            ELSE h

\* Mutant: data is turned on at the limit only, as it is turned off.
RemoveData_at(f, n) ==
    LET g == [f EXCEPT !.dataq = @ - n]
    IN IF n > 0 /\ ~g.dok_on /\ DataSize - g.dataq = DataLimit
       THEN [AddPack(g, "DOK_ON") EXCEPT !.dok_on = TRUE]
       ELSE g

\* processWrite, of n quadwords: the first that makes room turns data on.
RemoveData(f, n) ==
    LET g == [f EXCEPT !.dataq = @ - n]
    IN IF n > 0 /\ ~g.dok_on /\ DataSize - g.dataq > DataLimit
       THEN [AddPack(g, "DOK_ON") EXCEPT !.dok_on = TRUE]
       ELSE g

\* The coherent half of Cycle: a request waits for its packs.
MemHalf(f, ready) ==
    IF ready /\ f.memq > 0 /\ f.resultsq # <<>> /\ Head(f.resultsq).hold /\ Head(f.resultsq).done
    THEN [ClearResults(f) EXCEPT !.memq = @ - 1]
    ELSE f

\* The requests of iomemq done in this cycle: the one at the head, once its
\* data is in and its delay over, or as many compressible writes, which are
\* not delayed, as stand at the head.
Ready(f, ready) ==
    LET q == f.iomemq
        whole(i) == q[i].in = q[i].n
    IN IF q = <<>> THEN 0
       ELSE IF ~q[1].comp THEN IF ready /\ whole(1) THEN 1 ELSE 0
       ELSE CHOOSE m \in 0..Len(q) : /\ \A i \in 1..m : q[i].comp /\ whole(i)
                                     /\ m < Len(q) => ~(q[m + 1].comp /\ whole(m + 1))

\* The noncacheable half: while compressible writes come in, those at the
\* head wait for one that is not.
IoHalf(f, ready) ==
    LET q == f.iomemq
        m == Ready(f, ready)
        g == [f EXCEPT !.compress = @ /\ (q = <<>> \/ q[1].comp)]
    IN IF g.compress \/ m = 0 THEN g
       ELSE [RemoveData(g, IF q[1].comp THEN m ELSE q[1].n)
               EXCEPT !.iomemq = SubSeq(@, m + 1, Len(@))]

\* Mutant: one queue with room is enough.
FlowOn_either(f) ==
    IF ~f.aok_on /\ (MemSpace(f) > AddrLimit + 1 \/ IoSpace(f) > AddrLimit + 1)
    THEN [AddPack(f, "AOK_ON") EXCEPT !.memq_off = FALSE, !.aok_on = TRUE]
    ELSE f
FlowOn(f) ==
    IF ~f.aok_on /\ MemSpace(f) > AddrLimit + 1 /\ IoSpace(f) > AddrLimit + 1
    THEN [AddPack(f, "AOK_ON") EXCEPT !.memq_off = FALSE, !.aok_on = TRUE]
    ELSE f

MemCycleFl(f, e) == FlowOn(IoHalf(MemHalf(f, e.mem), e.io))

-----------------------------------------------------------------------------
(* A bus cycle                                                             *)

\* SJM::sjmProcessInSigs: the address or the data on the bus.
TakeBus(f) ==
    CASE f.bus = "idle" -> f
      [] f.bus = "data" -> AddData(f)
      [] f.bus = "snp" -> NewSnoop(f, FALSE)
      [] f.bus = "rd" -> NewSnoop(addRequest(f, "rd"), TRUE)
      [] OTHER -> addRequest(f, f.bus)

\* What a sender may drive next: its data, or an address its flow control
\* lets it send.
Drives(f, s, k) ==
    IF f.beats > 0 THEN k = "data"
    ELSE k = "idle" \/ (k \in f.traffic /\ s.aok_prev /\ (Beats(k) > 0 => s.dok_prev))

FlowCycle(k, e) ==
    /\ fl.err = {}
    /\ \E s \in {UpdatePacks(fl.s, fl.pin)} :
       /\ Drives(fl, s, k)
       /\ \E taken \in {TakeBus(fl)} :
          \E cleared \in {ResultCycleFl(taken, e.packs)} :
          \E snooped \in {SnoopCycleFl(cleared, e.blocked)} :
          \E f \in {MemCycleFl(snooped, e)} :
            fl' = [f EXCEPT !.s = s, !.bus = k,
                            !.beats = IF k = "data" THEN @ - 1 ELSE Beats(k),
                            !.pin = IF f.out_packq = <<>> THEN "IDLE" ELSE Head(f.out_packq),
                            !.out_packq = IF @ = <<>> THEN @ ELSE Tail(@),
                            !.acked = @ + (IF fl.pin = "COHACK" THEN 1 ELSE 0)]

FlowEnv == [packs : BOOLEAN, blocked : BOOLEAN, mem : BOOLEAN, io : BOOLEAN]
Helpful == [packs |-> TRUE, blocked |-> FALSE, mem |-> TRUE, io |-> TRUE]

\* The cycles in which nothing new is sent and nothing holds the port up.
FlowDrain == \E k \in {"idle", "data"} : FlowCycle(k, Helpful)

FlowNext == \E k \in FlowKinds \union {"idle", "data"}, e \in FlowEnv : FlowCycle(k, e)

\* Delays are finite, reads return and senders have gaps.
FlowFair == WF_fl(FlowDrain)

FlowSpec == FlowInit /\ [][FlowNext]_fl /\ FlowFair

-----------------------------------------------------------------------------
(* Properties                                                              *)

\* No queue overflows: an address or a quadword that was on its way when the
\* pack left finds room, and a pack turning the flow on is never the last
\* word while a queue is at its limit.
NoOverflow == fl.err = {}

\* A port has at most G_PACKOUTQ_DEPTH packs to send, which the queue's
\* declaration takes for granted ("Doesn't ever stall, so doesn't have to be
\* big", JBus.h): each cycle sends one of them.
PacksFit == "pack" \notin fl.err

\* A sender told to hold its addresses or its data is let go on.
FlowResumes == /\ []<>(fl.s.aok_prev)
               /\ []<>(fl.s.dok_prev)

=============================================================================
