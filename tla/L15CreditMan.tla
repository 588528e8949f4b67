---------------------------- MODULE L15CreditMan ----------------------------
(***************************************************************************)
(* NoC1 credit management of the L1.5 cache pipeline (l15_pipeline.v.pyv). *)
(*                                                                         *)
(* Every step that is not PcxPresent is one clock cycle.  In a cycle the   *)
(* instruction in S3 issues its NoC1 request into noc1buffer, noc1encoder  *)
(* may take the head of the buffer (sent), S3 may be stalled (stall), and  *)
(* S1 either fetches one instruction or none.  Credits are taken in S1,    *)
(* before the tag check of S2 can tell whether a NoC1 request is needed;   *)
(* the misprediction is corrected in S3.  A cacheable miss also reserves   *)
(* one credit for the eviction that its NoC2 response will cause, because  *)
(* a NoC2 message never waits for a credit.                                *)
(*                                                                         *)
(* Abstracted: addresses, data and MESI states.  Whether a tag check hits  *)
(* or finds a dirty line is chosen when the instruction is fetched; an     *)
(* index conflict or an MSHR address match is a cycle in which S1 idles.   *)
(***************************************************************************)
EXTENDS Naturals, Sequences, FiniteSets

CONSTANTS
    NumSlots,       \* NOC1_BUFFER_NUM_SLOTS
    NumDataSlots,   \* NOC1_BUFFER_NUM_DATA_SLOTS
    Threads,        \* hardware threads of the core
    PcxOps,         \* request types the core may present
    NoMshr,         \* "no MSHR"
    FlushNeedsSpareCredit
    (* TRUE: the core presents a line flush only while a credit beyond the *)
    (* reserve is free.  FALSE: at any time, as the pipeline accepts it.   *)

TwoPhaseOps == {"LOAD_NC", "WRITETHROUGH", "CAS", "SWP_LOADSTUB"}
AllPcxOps == TwoPhaseOps \cup
             {"LOAD", "STORE", "IFILL", "INTERRUPT", "LINE_FLUSH", "OTHER"}

MshrIds == Threads \X {"LD", "ST", "IFILL"}

ASSUME SlotsAssumption == NumSlots \in 1..15 /\ NumDataSlots \in 0..15
ASSUME ThreadsAssumption == IsFiniteSet(MshrIds) /\ Cardinality(MshrIds) <= 15
ASSUME NoMshrAssumption == NoMshr \notin MshrIds
ASSUME PcxOpsAssumption == PcxOps \subseteq AllPcxOps
ASSUME FlushAssumption == FlushNeedsSpareCredit \in BOOLEAN

VARIABLES
    avail, data_avail, reserve,   \* the three 4-bit credit counters
    fetch_state,                  \* fetch_state_s1
    pcx,                          \* the request pcxdecoder presents
    noc2,                         \* MSHR whose fill is between its two phases
    s2, s3,                       \* instructions in the two later stages
    staled,                       \* noc1encoder_req_staled_s3
    noc1buffer,                   \* commands waiting for noc1encoder
    mshr,                         \* MSHR valid bits, with the request's class
    pend                          \* where the request of an MSHR is

vars == <<avail, data_avail, reserve, fetch_state, pcx, noc2, s2, s3, staled,
          noc1buffer, mshr, pend>>

NoReq == [op |-> "NONE", thread |-> NoMshr]

-----------------------------------------------------------------------------
(* What the decoder says of a request type. *)

\* decoder_creditman_noc1_needed while fetch_state_s1 is NORMAL
noc1_needed(op) ==
    IF op \in TwoPhaseOps THEN 2
    ELSE IF op \in {"LOAD", "STORE", "IFILL", "INTERRUPT"} THEN 1 ELSE 0

\* decoder_creditman_req_16B_s1 / decoder_creditman_req_8B_s1, in data slots
data_needed(op) ==
    IF op = "CAS" THEN 2
    ELSE IF op \in {"WRITETHROUGH", "SWP_LOADSTUB", "INTERRUPT"} THEN 1 ELSE 0

\* the MSHR that decoder_mshr_allocation_type_s1 and the thread select
mshr_of(req) ==
    <<req.thread, IF req.op \in {"STORE", "WRITETHROUGH"} THEN "ST"
                  ELSE IF req.op = "IFILL" THEN "IFILL" ELSE "LD">>

(* An instruction in S2 or S3: its NoC1 operation, noc1_req_val_s3, the    *)
(* data slots of the request, the MSHR it allocated or releases, and what  *)
(* can stall it in S3 (the NoC3 buffer, or a second CPX beat).             *)
Instr(noc1, req, bytes, id, dealloc, wait) ==
    [noc1 |-> noc1, req |-> req, bytes |-> bytes, id |-> id,
     dealloc |-> dealloc, wait |-> wait]

Instructions ==
    [noc1 : {"BUBBLE", "NONE", "WB_GUARD", "IF_MISS", "ALWAYS"}, req : BOOLEAN,
     bytes : 0..2, id : MshrIds \cup {NoMshr}, dealloc : BOOLEAN,
     wait : {"NONE", "NOC3", "BEAT2"}]

Bubble == Instr("BUBBLE", FALSE, 0, NoMshr, FALSE, "NONE")

\* L15_NOC1_GEN_WRITEBACK_GUARD_IF_*_M with the matching NoC3 write-back
WbGuard(dirty) ==
    Instr("WB_GUARD", dirty, 0, NoMshr, FALSE, IF dirty THEN "NOC3" ELSE "NONE")

-----------------------------------------------------------------------------
(* The stall conditions of S1 that are about credits. *)

stall_tmp_result == ((16 + avail) + 32 - reserve) % 32

\* Mutant: the check forgets the credits reserved for NoC2.
command_buffer_1_unavail_no_reserve == avail = 0

command_buffer_1_unavail ==
    stall_tmp_result % 16 = 0 \/ stall_tmp_result < 16

command_buffer_2_unavail ==
    command_buffer_1_unavail \/ stall_tmp_result % 16 = 1

stall_pcx_noc1_buffer(op) ==
    \/ noc1_needed(op) = 1 /\ command_buffer_1_unavail
    \/ noc1_needed(op) = 2 /\ command_buffer_2_unavail
    \/ data_avail < data_needed(op)

-----------------------------------------------------------------------------
(* The counters' next values.  sent: noc1encoder_l15_req_sent.             *)

mispredicted_s3 == s3.noc1 \in {"WB_GUARD", "IF_MISS"} /\ ~s3.req

\* Mutant: the credit of a mispredicted request is not given back.
avail_next_leak(sent, needed) ==
    (avail + (IF sent THEN 1 ELSE 0) + 16 - needed) % 16

avail_next(sent, needed) ==
    LET up1 == ~(sent <=> mispredicted_s3)
        up2 == sent /\ mispredicted_s3
        upX == sent \/ mispredicted_s3
        add2 == up2 /\ needed = 0
        add1 == (up2 /\ needed = 1) \/ (up1 /\ needed = 0)
        minus1 == (needed = 2 /\ up1) \/ (needed = 1 /\ ~upX)
        minus2 == needed = 2 /\ ~upX
    IN  IF add2 THEN (avail + 2) % 16
        ELSE IF add1 THEN (avail + 1) % 16
        ELSE IF minus1 THEN (avail + 15) % 16
        ELSE IF minus2 THEN (avail + 14) % 16
        ELSE avail

\* Mutant: noc1encoder's 16-byte acknowledgement returns one slot only.
data_avail_next_8B(up, down) ==
    (data_avail + (IF up > 0 THEN 1 ELSE 0) + 16 - down) % 16

data_avail_next(up, down) ==
    LET add1 == (up = 1 /\ down = 0) \/ (up = 2 /\ down = 1)
        add2 == up = 2 /\ down = 0
        minus1 == (down = 1 /\ up = 0) \/ (down = 2 /\ up = 1)
        minus2 == down = 2 /\ up = 0
    IN  IF add1 THEN (data_avail + 1) % 16
        ELSE IF add2 THEN (data_avail + 2) % 16
        ELSE IF minus1 THEN (data_avail + 15) % 16
        ELSE IF minus2 THEN (data_avail + 14) % 16
        ELSE data_avail

\* creditman_noc1_reserve_s3
reserve_s3 == s3.noc1 = "IF_MISS" /\ s3.req

reserve_next(stall, unreserve) ==
    LET up == reserve_s3 /\ ~stall
    IN  IF up /\ ~unreserve THEN (reserve + 1) % 16
        ELSE IF ~up /\ unreserve THEN (reserve + 15) % 16
        ELSE reserve

-----------------------------------------------------------------------------
(* One clock cycle.                                                        *)

(* stall_s3: NoC3 may refuse for any number of cycles; an IFILL or atomic  *)
(* return takes exactly two beats on CPX, so it stalls exactly once.       *)
StallPossible(stall) ==
    \/ s3.wait = "NONE" /\ ~stall
    \/ s3.wait = "NOC3"
    \/ s3.wait = "BEAT2" /\ stall = ~staled

stall_s2(stall) == s2 # Bubble /\ stall

\* l15_noc1buffer_req_val
noc1buffer_req_val == s3.req /\ ~staled

Command == [id |-> s3.id, bytes |-> s3.bytes]

(* i1: the instruction S1 hands to S2 (Bubble when S1 fetches none);       *)
(* needed, data: credits it takes; unreserve: it gives its reserve back;   *)
(* alloc, class: the MSHR it allocates; resp: the MSHR a NoC2 response     *)
(* answers.  An allocation wins over a release of the same MSHR, and the   *)
(* release is repeated in every cycle that S3 is stalled.                  *)
Cycle(stall, sent, i1, needed, data, unreserve, alloc, class, resp) ==
    /\ StallPossible(stall)
    /\ sent => noc1buffer # << >>
    /\ i1 # Bubble => ~stall_s2(stall)
    /\ avail' = avail_next(sent, needed)
    /\ data_avail' = data_avail_next(IF sent THEN Head(noc1buffer).bytes ELSE 0,
                                     data)
    /\ reserve' = reserve_next(stall, unreserve)
    /\ s2' = IF stall_s2(stall) THEN s2 ELSE i1
    /\ s3' = IF stall THEN s3 ELSE s2
    /\ staled' = stall
    /\ noc1buffer' =
          LET rest == IF sent THEN Tail(noc1buffer) ELSE noc1buffer
          IN  IF noc1buffer_req_val THEN Append(rest, Command) ELSE rest
    /\ mshr' = [id \in MshrIds |->
                   IF id = alloc THEN class
                   ELSE IF s3.dealloc /\ s3.id = id THEN "FREE"
                   ELSE mshr[id]]
    /\ pend' = [id \in MshrIds |->
                   IF noc1buffer_req_val /\ s3.id = id THEN "QUEUED"
                   ELSE IF sent /\ Head(noc1buffer).id = id THEN "SENT"
                   ELSE IF id = resp THEN "NONE"
                   ELSE pend[id]]

-----------------------------------------------------------------------------
(* S1 fetches nothing: no input, or a stall.  Between the two phases of an *)
(* instruction only stall_s2 can hold S1 back.                             *)
Idle(stall, sent) ==
    /\ fetch_state # "NORMAL" => stall_s2(stall)
    /\ Cycle(stall, sent, Bubble, 0, 0, FALSE, NoMshr, "FREE", NoMshr)
    /\ UNCHANGED <<fetch_state, pcx, noc2>>

\* The core's next request reaches pcxdecoder.
PcxPresent(op, t) ==
    /\ pcx = NoReq
    /\ pcx' = [op |-> op, thread |-> t]
    /\ UNCHANGED <<avail, data_avail, reserve, fetch_state, noc2, s2, s3,
                   staled, noc1buffer, mshr, pend>>

\* The guard common to the first phase of every PCX request.
PcxFetch(ops) ==
    /\ fetch_state = "NORMAL"
    /\ pcx.op \in ops
    /\ ~stall_pcx_noc1_buffer(pcx.op)

MshrFree == mshr[mshr_of(pcx)] = "FREE"

\* L15_REQTYPE_LOAD, L15_REQTYPE_STORE (not hitting the store buffer)
PcxCacheable(stall, sent, miss) ==
    /\ PcxFetch({"LOAD", "STORE"})
    /\ MshrFree
    /\ Cycle(stall, sent,
             Instr("IF_MISS", miss, 0, mshr_of(pcx), ~miss, "NONE"),
             1, 0, FALSE, mshr_of(pcx), "CACHEABLE", NoMshr)
    /\ pcx' = NoReq
    /\ UNCHANGED <<fetch_state, noc2>>

\* L15_REQTYPE_IFILL
PcxIfill(stall, sent) ==
    /\ PcxFetch({"IFILL"})
    /\ MshrFree
    /\ Cycle(stall, sent, Instr("ALWAYS", TRUE, 0, mshr_of(pcx), FALSE, "NONE"),
             1, 0, FALSE, mshr_of(pcx), "PLAIN", NoMshr)
    /\ pcx' = NoReq
    /\ UNCHANGED <<fetch_state, noc2>>

\* L15_REQTYPE_PCX_INTERRUPT, and the store to INT_VEC_DIS
PcxInterrupt(stall, sent) ==
    /\ PcxFetch({"INTERRUPT"})
    /\ Cycle(stall, sent, Instr("ALWAYS", TRUE, 1, NoMshr, FALSE, "NONE"),
             1, 1, FALSE, NoMshr, "FREE", NoMshr)
    /\ pcx' = NoReq
    /\ UNCHANGED <<fetch_state, noc2>>

(* First phase of LOAD_NC, WRITETHROUGH, CAS and SWP: write back and       *)
(* invalidate the line.  It takes the credits of both phases.              *)
PcxWriteback(stall, sent, dirty) ==
    /\ PcxFetch(TwoPhaseOps)
    /\ MshrFree
    /\ Cycle(stall, sent, WbGuard(dirty), 2, data_needed(pcx.op), FALSE,
             NoMshr, "FREE", NoMshr)
    /\ fetch_state' = "PCX_WRITEBACK_DONE"
    /\ UNCHANGED <<pcx, noc2>>

\* Second phase: the request itself, with the credits already held.
PcxWritebackDone(stall, sent) ==
    /\ fetch_state = "PCX_WRITEBACK_DONE"
    /\ pcx.op \in TwoPhaseOps
    /\ Cycle(stall, sent,
             Instr("ALWAYS", TRUE, data_needed(pcx.op), mshr_of(pcx), FALSE,
                   "NONE"),
             0, 0, FALSE, mshr_of(pcx), "PLAIN", NoMshr)
    /\ fetch_state' = "NORMAL"
    /\ pcx' = NoReq
    /\ UNCHANGED noc2

\* First phase of LINE_FLUSH: only the store acknowledgement; no credit.
PcxFlush(stall, sent) ==
    /\ PcxFetch({"LINE_FLUSH"})
    /\ FlushNeedsSpareCredit => ~command_buffer_1_unavail
    /\ Cycle(stall, sent, Instr("NONE", FALSE, 0, NoMshr, FALSE, "NONE"),
             0, 0, FALSE, NoMshr, "FREE", NoMshr)
    /\ fetch_state' = "PCX_WRITEBACK_DONE"
    /\ UNCHANGED <<pcx, noc2>>

(* Second phase: the flush.  It takes a credit, and no stall checks it:    *)
(* stall_pcx_noc1_buffer_s1 applies in fetch state NORMAL only.            *)
PcxFlushDone(stall, sent, dirty) ==
    /\ fetch_state = "PCX_WRITEBACK_DONE"
    /\ pcx.op = "LINE_FLUSH"
    /\ Cycle(stall, sent, WbGuard(dirty), 1, 0, FALSE, NoMshr, "FREE", NoMshr)
    /\ fetch_state' = "NORMAL"
    /\ pcx' = NoReq
    /\ UNCHANGED noc2

(* Every PCX request without NoC1 traffic: prefetch, diagnostic and        *)
(* configuration accesses, self-invalidations, stores that hit an MSHR.    *)
PcxOther(stall, sent) ==
    /\ PcxFetch({"OTHER"})
    /\ Cycle(stall, sent, Instr("NONE", FALSE, 0, NoMshr, FALSE, "NONE"),
             0, 0, FALSE, NoMshr, "FREE", NoMshr)
    /\ pcx' = NoReq
    /\ UNCHANGED <<fetch_state, noc2>>

-----------------------------------------------------------------------------
(* NoC2 messages.  The L2 answers a request once, after it was sent.       *)

\* First phase of ACKDT_LD and ACKDT_ST_IM: evict a line; never waits.
Noc2Evict(stall, sent, id, dirty) ==
    /\ fetch_state = "NORMAL"
    /\ pend[id] = "SENT" /\ mshr[id] = "CACHEABLE"
    /\ Cycle(stall, sent, WbGuard(dirty), 1, 0, TRUE, NoMshr, "FREE", id)
    /\ fetch_state' = "NOC2_WRITEBACK_DONE"
    /\ noc2' = id
    /\ UNCHANGED pcx

\* Second phase: the fill, which releases the MSHR.
Noc2Fill(stall, sent) ==
    /\ fetch_state = "NOC2_WRITEBACK_DONE"
    /\ Cycle(stall, sent, Instr("NONE", FALSE, 0, noc2, TRUE, "NONE"),
             0, 0, FALSE, NoMshr, "FREE", NoMshr)
    /\ fetch_state' = "NORMAL"
    /\ noc2' = NoMshr
    /\ UNCHANGED pcx

\* ACKDT_ST_SM: the upgrade of a line still held in S; nothing is evicted.
Noc2Upgrade(stall, sent, id) ==
    /\ fetch_state = "NORMAL"
    /\ pend[id] = "SENT" /\ mshr[id] = "CACHEABLE" /\ id[2] = "ST"
    /\ Cycle(stall, sent, Instr("NONE", FALSE, 0, id, TRUE, "NONE"),
             0, 0, TRUE, NoMshr, "FREE", id)
    /\ UNCHANGED <<fetch_state, pcx, noc2>>

\* ACKDT_LD_NC, ACK_WRITETHROUGH (one CPX beat), ACKDT_IFILL, ACK_ATOMIC (two)
Noc2Ack(stall, sent, id, beats) ==
    /\ fetch_state = "NORMAL"
    /\ pend[id] = "SENT" /\ mshr[id] = "PLAIN"
    /\ id[2] = "IFILL" => beats = "BEAT2"
    /\ id[2] = "ST" => beats = "NONE"
    /\ Cycle(stall, sent, Instr("NONE", FALSE, 0, id, TRUE, beats),
             0, 0, FALSE, NoMshr, "FREE", id)
    /\ UNCHANGED <<fetch_state, pcx, noc2>>

(* One subline of an invalidation or downgrade (with or without a NoC3     *)
(* answer), an L2 interrupt, a prefetch acknowledgement, an HMC fill.      *)
Noc2Forward(stall, sent, answer) ==
    /\ fetch_state = "NORMAL"
    /\ Cycle(stall, sent, Instr("NONE", FALSE, 0, NoMshr, FALSE, answer),
             0, 0, FALSE, NoMshr, "FREE", NoMshr)
    /\ UNCHANGED <<fetch_state, pcx, noc2>>

-----------------------------------------------------------------------------
Init ==
    /\ avail = NumSlots /\ data_avail = NumDataSlots /\ reserve = 0
    /\ fetch_state = "NORMAL" /\ pcx = NoReq /\ noc2 = NoMshr
    /\ s2 = Bubble /\ s3 = Bubble /\ staled = FALSE
    /\ noc1buffer = << >>
    /\ mshr = [id \in MshrIds |-> "FREE"]
    /\ pend = [id \in MshrIds |-> "NONE"]

PcxStep(stall, sent) ==
    \/ \E miss \in BOOLEAN : PcxCacheable(stall, sent, miss)
    \/ PcxIfill(stall, sent)
    \/ PcxInterrupt(stall, sent)
    \/ \E dirty \in BOOLEAN : PcxWriteback(stall, sent, dirty)
    \/ PcxWritebackDone(stall, sent)
    \/ PcxFlush(stall, sent)
    \/ \E dirty \in BOOLEAN : PcxFlushDone(stall, sent, dirty)
    \/ PcxOther(stall, sent)

Noc2Response(stall, sent, id) ==
    \/ \E dirty \in BOOLEAN : Noc2Evict(stall, sent, id, dirty)
    \/ Noc2Upgrade(stall, sent, id)
    \/ \E beats \in {"NONE", "BEAT2"} : Noc2Ack(stall, sent, id, beats)

Clock(stall, sent) ==
    \/ Idle(stall, sent)
    \/ PcxStep(stall, sent)
    \/ \E id \in MshrIds : Noc2Response(stall, sent, id)
    \/ Noc2Fill(stall, sent)
    \/ \E answer \in {"NONE", "NOC3"} : Noc2Forward(stall, sent, answer)

Next ==
    \/ \E op \in PcxOps, t \in Threads : PcxPresent(op, t)
    \/ \E stall, sent \in BOOLEAN : Clock(stall, sent)

Spec == Init /\ [][Next]_vars

(* The NoC drains (NoC1 and NoC3 accept what they are offered), the L2     *)
(* answers every request, and PCX gets S1 when it could infinitely often:  *)
(* NoC2 has priority, and the core shares S1 with finitely many answers.   *)
Fairness ==
    /\ WF_vars(\E stall \in BOOLEAN : Clock(stall, TRUE))
    /\ WF_vars(\E sent \in BOOLEAN : Clock(FALSE, sent))
    /\ WF_vars(\E stall, sent \in BOOLEAN : Clock(stall, sent))
    /\ SF_vars(\E stall, sent \in BOOLEAN : PcxStep(stall, sent))
    /\ \A id \in MshrIds :
          SF_vars(\E stall, sent \in BOOLEAN : Noc2Response(stall, sent, id))

FairSpec == Spec /\ Fairness

-----------------------------------------------------------------------------
(* Properties. *)

Classes == {"FREE", "CACHEABLE", "PLAIN"}
Commands == [id : MshrIds \cup {NoMshr}, bytes : 0..2]

\* The type invariant: registers keep their width, stages hold instructions.
TypeOK ==
    /\ avail \in 0..15 /\ data_avail \in 0..15 /\ reserve \in 0..15
    /\ fetch_state \in {"NORMAL", "PCX_WRITEBACK_DONE", "NOC2_WRITEBACK_DONE"}
    /\ pcx \in [op : AllPcxOps, thread : Threads] \cup {NoReq}
    /\ noc2 \in MshrIds \cup {NoMshr}
    /\ s2 \in Instructions /\ s3 \in Instructions
    /\ staled \in BOOLEAN
    /\ noc1buffer \in Seq(Commands)
    /\ mshr \in [MshrIds -> Classes]
    /\ pend \in [MshrIds -> {"NONE", "QUEUED", "SENT"}]

\* The credit an instruction took in S1 and has not used or returned yet.
HeldBy(i) == IF i.noc1 \in {"WB_GUARD", "IF_MISS", "ALWAYS"} THEN 1 ELSE 0

CreditsHeld ==
    HeldBy(s2) + (IF staled THEN 0 ELSE HeldBy(s3))
    + (IF fetch_state = "PCX_WRITEBACK_DONE" /\ pcx.op \in TwoPhaseOps
       THEN 1 ELSE 0)

(* No credit is lost, duplicated or invented: at every clock edge the free *)
(* credits, those held in the pipeline and the buffered commands add up to *)
(* the buffer's size, whatever is stalled, staled or mispredicted.         *)
CreditConservation == avail + CreditsHeld + Len(noc1buffer) = NumSlots

\* noc1buffer, which has no full signal, is never given a ninth command.
NoOverflow == Len(noc1buffer) <= NumSlots

DataHeld ==
    (IF s2.noc1 = "ALWAYS" THEN s2.bytes ELSE 0)
    + (IF s3.noc1 = "ALWAYS" /\ ~staled THEN s3.bytes ELSE 0)
    + (IF fetch_state = "PCX_WRITEBACK_DONE" THEN data_needed(pcx.op) ELSE 0)

DataBuffered ==
    LET Uses(n) == {k \in 1..Len(noc1buffer) : noc1buffer[k].bytes >= n}
    IN  Cardinality(Uses(1)) + Cardinality(Uses(2))

(* The same for the data slots: CAS takes two and the 8-byte requests one, *)
(* at their first phase, and noc1encoder returns exactly as many.          *)
DataConservation == data_avail + DataHeld + DataBuffered = NumDataSlots

\* Misses whose response may still evict a line, and those of them on the NoC.
Reserved == {id \in MshrIds : mshr[id] = "CACHEABLE" /\ pend[id] # "NONE"}
InFlight == {id \in MshrIds : mshr[id] = "CACHEABLE" /\ pend[id] = "SENT"}

(* The reserve counter equals the number of cacheable misses that are      *)
(* queued or in flight, although it is raised in S3 and lowered in S1.     *)
ReserveExact == reserve = Cardinality(Reserved)

(* What creditman is for: every response that can arrive finds a credit    *)
(* for its write-back guard, so NoC2 never waits for NoC1.                 *)
EvictionHasCredit == avail >= Cardinality(InFlight)

(* A request that is queued or in flight owns an allocated MSHR: the       *)
(* repeated release by a stalled S3 never frees a new allocation.          *)
RequestHasMshr == \A id \in MshrIds : pend[id] # "NONE" => mshr[id] # "FREE"

(* A request the core presents is accepted: the reserve, the mispredicted  *)
(* credits and the two-credit requests never starve PCX.                   *)
PcxServed == pcx # NoReq ~> pcx = NoReq

-----------------------------------------------------------------------------
(* The parts of the inductive invariant that the properties above need.    *)

\* The instructions a stage can hold.
StageOK(i) ==
    /\ i.noc1 = "BUBBLE" => i = Bubble
    /\ i.noc1 = "NONE" => ~i.req
    /\ i.noc1 = "WB_GUARD" => /\ i.id = NoMshr /\ ~i.dealloc
                              /\ i.req <=> i.wait = "NOC3"
    /\ i.noc1 = "IF_MISS" => /\ i.id \in MshrIds
                             /\ i.dealloc <=> ~i.req
    /\ i.noc1 = "ALWAYS" => i.req /\ ~i.dealloc
    /\ i.noc1 \in {"IF_MISS", "ALWAYS"} => i.wait = "NONE"
    /\ i.dealloc => i.id \in MshrIds
    /\ i.wait = "NOC3" => i.id = NoMshr
    /\ i.wait = "BEAT2" => i.noc1 = "NONE" /\ i.dealloc
    /\ i.noc1 = "NONE" /\ i.id \in MshrIds => i.dealloc

\* Only an instruction that can stall is ever stale.
StageInv == StageOK(s2) /\ StageOK(s3) /\ (staled => s3.wait # "NONE")

\* The class of the MSHR an instruction allocated or releases.
ClassOK(i) ==
    i.id \in MshrIds =>
        /\ pend[i.id] = "NONE"
        /\ i.noc1 = "IF_MISS" => mshr[i.id] = "CACHEABLE"
        /\ i.noc1 = "ALWAYS" => mshr[i.id] = "PLAIN"

(* An MSHR has one owner: an instruction, a fill between its two phases,   *)
(* or a request that is queued or sent.                                    *)
OwnerInv ==
    /\ ClassOK(s2) /\ ClassOK(s3)
    /\ s2.id \in MshrIds => mshr[s2.id] # "FREE" /\ s2.id \notin {s3.id, noc2}
    /\ s3.id \in MshrIds =>
          /\ s3.id # noc2
          /\ mshr[s3.id] = "FREE" <=> staled
    /\ noc2 \in MshrIds => pend[noc2] = "NONE" /\ mshr[noc2] = "CACHEABLE"

\* The fetch state agrees with what is being fetched.
FetchInv ==
    /\ fetch_state = "NOC2_WRITEBACK_DONE" <=> noc2 \in MshrIds
    /\ fetch_state = "PCX_WRITEBACK_DONE" =>
          /\ pcx.op \in TwoPhaseOps \cup {"LINE_FLUSH"}
          /\ pcx.op \in TwoPhaseOps => mshr[mshr_of(pcx)] = "FREE"

\* Every buffered request is the only one of its MSHR.
BufferInv ==
    /\ \A k \in 1..Len(noc1buffer) :
          noc1buffer[k].id \in MshrIds => pend[noc1buffer[k].id] = "QUEUED"
    /\ \A k, l \in 1..Len(noc1buffer) :
          noc1buffer[k].id \in MshrIds /\ noc1buffer[k].id = noc1buffer[l].id
              => k = l

\* A flush between its two phases still has the credit it was promised.
FlushInv ==
    fetch_state = "PCX_WRITEBACK_DONE" /\ pcx.op = "LINE_FLUSH"
        => avail >= Cardinality(InFlight) + 1

(* Together with the properties it strengthens, this is preserved by every *)
(* cycle: who owns each MSHR and each credit at every stage.               *)
IndInv == StageInv /\ OwnerInv /\ FetchInv /\ BufferInv /\ FlushInv

=============================================================================
