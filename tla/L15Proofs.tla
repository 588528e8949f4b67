------------------------------ MODULE L15Proofs ------------------------------
(***************************************************************************)
(* Theorems about three parts of the L1.5 pipeline: replacement (L15Lru),  *)
(* the output of stage S3 (L15Issue) and one set of the cache (L15Cache),  *)
(* for every number of ways, sets, threads and lines.                      *)
(***************************************************************************)
EXTENDS L15Cache, L15Lru, L15Issue, FiniteSetTheorems, TLAPS

-----------------------------------------------------------------------------
(* Numbers.                                                                *)

\* 0..w grows with w, and inclusion of finite sets is well-founded.
LEMMA SmallestOf ==
    ASSUME NEW S \in SUBSET Nat, S # {}
    PROVE  \E w \in S : \A v \in S : w <= v
  <1>1. PICK n \in Nat : n \in S
    OBVIOUS
  <1> DEFINE R == StrictSubsetOrdering(0..n)
             F == FiniteSubsetsOf(0..n)
             T == {0..w : w \in S \cap (0..n)}
  <1>2. \A w \in 0..n : 0..w \in F
    <2> SUFFICES ASSUME NEW w \in 0..n PROVE 0..w \in F
      OBVIOUS
    <2>1. IsFiniteSet(0..w) /\ 0..w \subseteq 0..n
      BY FS_Interval
    <2> QED BY <2>1 DEF FiniteSubsetsOf
  <1>3. T \subseteq F /\ T # {}
    BY <1>1, <1>2
  <1>4. IsWellFoundedOn(R, F)
    BY FS_StrictSubsetOrderingWellFounded
  <1>5. \E x \in T : \A y \in T : ~(<<y, x>> \in R)
    <2> HIDE DEF R, F, T
    <2> QED BY <1>3, <1>4, WFMin
  <1>6. PICK w \in S \cap (0..n) : \A v \in S \cap (0..n) : ~(<<0..v, 0..w>> \in R)
    BY <1>5
  <1>7. \A v \in S : w <= v
    <2> SUFFICES ASSUME NEW v \in S, ~(w <= v)
                 PROVE  FALSE
      OBVIOUS
    <2>1. v \in S \cap (0..n) /\ v < w /\ w \in 0..n
      OBVIOUS
    <2>2. /\ 0..v \subseteq 0..w /\ 0..v \subseteq 0..n /\ 0..w \subseteq 0..n
          /\ w \in 0..w /\ w \notin 0..v
      BY <2>1
    <2>3. 0..v # 0..w
      BY <2>2
    <2>4. <<0..v, 0..w>> \in R
      BY <2>2, <2>3 DEF StrictSubsetOrdering
    <2> QED BY <1>6, <2>1, <2>4
  <1> QED BY <1>6, <1>7

LEMMA ModBelow ==
    ASSUME NEW n \in Nat \ {0}, NEW x \in 0..n - 1
    PROVE  x % n = x /\ (x + n) % n = x
  OBVIOUS

-----------------------------------------------------------------------------
(* Replacement.                                                            *)

Turns == [used : SUBSET LruWays, turn : LruWays]

\* The rotated priority encoder: the way it names is unused, if there is one.
LEMMA LruWayFree ==
    ASSUME NEW l \in Turns
    PROVE  /\ LruWay(l) \in LruWays
           /\ l.used # LruWays => LruWay(l) \notin l.used
  <1>1. CASE l.used = LruWays
    BY <1>1 DEF LruWay, Turns
  <1>2. CASE l.used # LruWays
    <2> DEFINE S == {k \in LruWays : From(l.turn, k) \notin l.used}
    <2>1. PICK w \in LruWays : w \notin l.used
      BY <1>2 DEF Turns
    <2>2. \E k \in LruWays : From(l.turn, k) = w
      <3>1. l.turn \in LruWays /\ LruNumWays \in Nat \ {0}
        BY LruWaysAssumption DEF Turns
      <3>2. CASE l.turn <= w
        <4>1. w - l.turn \in LruWays /\ l.turn + (w - l.turn) = w
          BY <3>1, <3>2 DEF LruWays
        <4> QED BY <3>1, <4>1, ModBelow DEF LruWays, From
      <3>3. CASE w < l.turn
        <4>1. w - l.turn + LruNumWays \in LruWays
              /\ l.turn + (w - l.turn + LruNumWays) = w + LruNumWays
          BY <3>1, <3>3 DEF LruWays
        <4> QED BY <3>1, <4>1, ModBelow DEF LruWays, From
      <3> QED BY <3>1, <3>2, <3>3 DEF LruWays
    <2>3. S \in SUBSET Nat /\ S # {}
      BY <2>1, <2>2 DEF LruWays
    <2>4. PICK k \in S : \A v \in S : k <= v
      <3> HIDE DEF S
      <3> QED BY <2>3, SmallestOf
    <2>5. /\ k \in LruWays /\ From(l.turn, k) \notin l.used
          /\ \A m \in 0..k - 1 : From(l.turn, m) \in l.used
      BY <2>4, LruWaysAssumption DEF LruWays
    <2>6. \A k2 \in LruWays : From(l.turn, k2) \in LruWays
      BY LruWaysAssumption DEF LruWays, From, Turns
    <2> QED BY <1>2, <2>5, <2>6 DEF LruWay
  <1> QED BY <1>1, <1>2

LruInstrs == [op : Ops \cup {"NONE"}, idx : Sets, way : LruWays, lru_way : LruWays]

LruTypeOK ==
    /\ lru \in [Sets -> Turns] /\ lru_data \in Turns
    /\ read_index \in Sets /\ evicting \in BOOLEAN
    /\ lru_s2 \in LruInstrs /\ lru_s3 \in LruInstrs

(* An eviction waits in S2 until S1 fetches its fill; the LRU array is     *)
(* read at the set of the eviction and of the fill, and no older           *)
(* instruction still writes the set of the eviction.                       *)
EvictionHeld ==
    /\ evicting => lru_s2.op = "EVICT"
    /\ lru_s2.op \in {"EVICT", "FILL"} => read_index = lru_s2.idx
    /\ lru_s2.op = "EVICT" /\ LruWrites(lru_s3) => lru_s3.idx # lru_s2.idx

LruInv == LruTypeOK /\ EvictionHeld /\ FillWaysAgree

LEMMA LruWrittenType ==
    ASSUME lru_data \in Turns, NEW i \in LruInstrs, LruWrites(i)
    PROVE  LruWritten(i) \in Turns
  <1>1. TagcheckMask(i.way) \subseteq LruWays /\ i.way \in LruWays /\ i.lru_way \in LruWays
    BY LruWaysAssumption DEF TagcheckMask, LruInstrs, LruWays
  <1>2. From(lru_data.turn, 1) \in LruWays /\ {} \in SUBSET LruWays
    BY LruWaysAssumption DEF From, LruWays, Turns
  <1> QED BY <1>1, <1>2 DEF LruWritten, LruWrites, Turns

LEMMA LruCycleType ==
    ASSUME LruTypeOK, NEW stall \in BOOLEAN, NEW i1 \in LruInstrs,
           LruCycle(stall, i1), evicting' \in BOOLEAN
    PROVE  LruTypeOK'
  <1>1. lru' \in [Sets -> Turns]
    BY LruWrittenType DEF LruTypeOK, LruCycle
  <1>2. LruWay(lru[read_index]) \in LruWays
    BY LruWayFree DEF LruTypeOK
  <1>3. lru_s2' \in LruInstrs /\ lru_s3' \in LruInstrs
    BY <1>2 DEF LruTypeOK, LruCycle, LruInstrs
  <1> QED BY <1>1, <1>3 DEF LruTypeOK, LruCycle, LruInstrs

\* S3 is stalled and S2 has to wait: S1 hands on nothing.
LEMMA LruHeld ==
    ASSUME LruInv, NEW stall \in BOOLEAN, stall_s2(stall),
           LruCycle(stall, Bubble(read_index)), evicting' = evicting
    PROVE  EvictionHeld' /\ FillWaysAgree'
  <1>1. lru_s2' = lru_s2 /\ lru_s3' = lru_s3 /\ read_index' = read_index
    BY DEF LruCycle, stall_s2, Bubble, Instr
  <1>2. EvictionHeld'
    BY <1>1 DEF LruInv, EvictionHeld, LruWrites
  <1>3. lru_s2.op = "FILL" => lru' = lru
    BY DEF LruInv, FillWaysAgree, LruCycle, LruWrites
  <1> QED BY <1>1, <1>2, <1>3 DEF LruInv, FillWaysAgree

\* S2 takes what S1 hands on, and it is no eviction or fill.
LEMMA LruPassed ==
    ASSUME LruInv, NEW stall \in BOOLEAN, NEW i1 \in LruInstrs,
           i1.op \notin {"EVICT", "FILL"}, ~stall_s2(stall),
           LruCycle(stall, i1), ~evicting'
    PROVE  EvictionHeld' /\ FillWaysAgree'
  <1>1. lru_s2' = i1
    BY DEF LruCycle
  <1> QED BY <1>1 DEF EvictionHeld, FillWaysAgree

LEMMA LruEvict ==
    ASSUME LruInv, NEW stall \in BOOLEAN, NEW i \in Sets,
           FetchEvict(stall, i)
    PROVE  EvictionHeld' /\ FillWaysAgree'
  <1>1. /\ LruCycle(stall, Instr("EVICT", i, 0)) /\ ~IndexConflict(i)
        /\ evicting' = TRUE
    BY DEF FetchEvict
  <1>2. /\ lru_s2'.op = "EVICT" /\ lru_s2'.idx = i /\ read_index' = i
        /\ ~stall_s2(stall)
    BY <1>1 DEF LruCycle, Instr
  <1>3. LruWrites(lru_s3') => lru_s3'.idx # i
    <2>1. CASE stall
      BY <1>1, <2>1 DEF LruCycle, StallPossible, IndexConflict
    <2>2. CASE ~stall
      <3>1. lru_s3'.op = lru_s2.op /\ lru_s3'.idx = lru_s2.idx
        BY <1>1, <2>2 DEF LruCycle, LruInv, LruTypeOK, LruInstrs
      <3> QED BY <1>1, <3>1 DEF IndexConflict, LruWrites
    <2> QED BY <2>1, <2>2
  <1> QED BY <1>1, <1>2, <1>3 DEF EvictionHeld, FillWaysAgree

(* The tag is written in S1 with the LRU way of the eviction in S2, which  *)
(* S3 then carries; what the LRU array gives does not change in between.   *)
LEMMA LruFill ==
    ASSUME LruInv, NEW stall \in BOOLEAN, FetchFill(stall)
    PROVE  EvictionHeld' /\ FillWaysAgree'
  <1> DEFINE w == LruWay(lru[read_index])
  <1>1. /\ evicting /\ LruCycle(stall, Instr("FILL", lru_s2.idx, w))
        /\ evicting' = FALSE
    BY DEF FetchFill
  <1>2. lru_s2.op = "EVICT" /\ read_index = lru_s2.idx /\ read_index \in Sets
        /\ (LruWrites(lru_s3) => lru_s3.idx # lru_s2.idx)
        /\ lru_s2 \in LruInstrs /\ lru \in [Sets -> Turns]
    BY <1>1 DEF LruInv, EvictionHeld, LruTypeOK
  <1>3. ~stall
    BY <1>1, <1>2 DEF LruCycle, stall_s2, Instr
  <1>4. /\ lru_s2' = Instr("FILL", lru_s2.idx, w) /\ read_index' = read_index
        /\ lru_s3' = [lru_s2 EXCEPT !.lru_way = w]
    BY <1>1, <1>2, <1>3 DEF LruCycle, stall_s2, Instr
  <1>5. lru'[read_index'] = lru[read_index]
    BY <1>1, <1>2, <1>4 DEF LruCycle
  <1>6. lru_s3'.op = "EVICT" /\ lru_s3'.idx = lru_s2.idx /\ lru_s3'.lru_way = w
    BY <1>2, <1>4 DEF LruInstrs
  <1>7. lru_s2'.op = "FILL" /\ lru_s2'.idx = lru_s2.idx /\ lru_s2'.way = w
    BY <1>4 DEF Instr
  <1>8. LruWay(lru'[read_index']) = w
    BY <1>5
  <1> HIDE DEF w
  <1>9. EvictionHeld'
    BY <1>1, <1>2, <1>4, <1>7 DEF EvictionHeld
  <1> QED BY <1>6, <1>7, <1>8, <1>9 DEF FillWaysAgree

LEMMA InstrType ==
    ASSUME NEW op \in Ops \cup {"NONE"}, NEW i \in Sets, NEW w \in LruWays
    PROVE  /\ Instr(op, i, w) \in LruInstrs /\ Instr(op, i, w).op = op
           /\ 0 \in LruWays
  BY LruWaysAssumption DEF Instr, LruInstrs, LruWays

LEMMA LruInvNext ==
    ASSUME LruInv, [LruNext]_lruVars
    PROVE  LruInv'
  <1>0. 0 \in LruWays /\ read_index \in Sets /\ evicting \in BOOLEAN /\ LruTypeOK
    BY LruWaysAssumption DEF LruInv, LruTypeOK, LruWays
  <1>1. CASE UNCHANGED lruVars
    BY <1>1 DEF lruVars, LruInv, LruTypeOK, EvictionHeld, FillWaysAgree, LruWrites
  <1>2. ASSUME NEW stall \in BOOLEAN, Idle(stall)
        PROVE  LruInv'
    <2>1. Bubble(read_index) \in LruInstrs /\ Bubble(read_index).op = "NONE"
      BY <1>0, InstrType DEF Bubble
    <2>2. LruCycle(stall, Bubble(read_index)) /\ evicting' = evicting
          /\ (evicting => stall_s2(stall))
      BY <1>2 DEF Idle
    <2>3. LruTypeOK'
      BY <1>0, <2>1, <2>2, LruCycleType
    <2>4. EvictionHeld' /\ FillWaysAgree'
      BY <2>1, <2>2, LruHeld, LruPassed
    <2> QED BY <2>3, <2>4 DEF LruInv
  <1>3. ASSUME NEW stall \in BOOLEAN, NEW op \in {"HIT", "INVAL", "FLUSH", "OTHER"},
               NEW i \in Sets, NEW w \in LruWays, LruCycle(stall, Instr(op, i, w)),
               ~evicting, evicting' = evicting
        PROVE  LruInv'
    <2> DEFINE i1 == Instr(op, i, w)
    <2>1. i1 \in LruInstrs /\ i1.op = op
      BY InstrType DEF Ops
    <2> HIDE DEF i1
    <2>2. LruCycle(stall, i1) /\ ~stall_s2(stall)
      BY <1>3, <2>1 DEF LruCycle, i1
    <2>3. LruTypeOK'
      BY <1>0, <1>3, <2>1, <2>2, LruCycleType
    <2>4. EvictionHeld' /\ FillWaysAgree'
      BY <1>3, <2>1, <2>2, LruPassed
    <2> QED BY <2>3, <2>4 DEF LruInv
  <1>4. ASSUME NEW stall \in BOOLEAN, NEW i \in Sets, FetchEvict(stall, i)
        PROVE  LruInv'
    <2>1. LruTypeOK'
      BY <1>0, <1>4, InstrType, LruCycleType DEF FetchEvict, Ops
    <2> QED BY <1>4, <2>1, LruEvict DEF LruInv
  <1>5. ASSUME NEW stall \in BOOLEAN, FetchFill(stall)
        PROVE  LruInv'
    <2>1. LruWay(lru[read_index]) \in LruWays /\ lru_s2.idx \in Sets
      BY LruWayFree DEF LruInv, LruTypeOK, LruInstrs
    <2>2. LruTypeOK'
      BY <1>0, <1>5, <2>1, InstrType, LruCycleType DEF FetchFill, Ops
    <2> QED BY <1>5, <2>2, LruFill DEF LruInv
  <1> QED BY <1>0, <1>1, <1>2, <1>3, <1>4, <1>5 DEF LruNext, Fetch, FetchOther

THEOREM LruInvariance == LruSpec => []LruInv
  <1>1. LruInit => LruInv
    <2> SUFFICES ASSUME LruInit PROVE LruInv
      OBVIOUS
    <2>1. [used |-> {}, turn |-> 0] \in Turns /\ 0 \in LruWays
      BY LruWaysAssumption DEF Turns, LruWays
    <2>2. Bubble(read_index) \in LruInstrs /\ Bubble(read_index).op = "NONE"
      BY <2>1, InstrType DEF LruInit, Bubble
    <2> QED BY <2>1, <2>2 DEF LruInit, LruInv, LruTypeOK, EvictionHeld, FillWaysAgree
  <1>2. LruInv /\ [LruNext]_lruVars => LruInv'
    BY LruInvNext
  <1> QED BY <1>1, <1>2, PTL DEF LruSpec

(* The tag array, the MESI array and the data array agree on the way of    *)
(* every fill, although each takes it from another stage of the pipeline.  *)
THEOREM FillWays == LruSpec => []FillWaysAgree
  <1>1. LruInv => FillWaysAgree
    BY DEF LruInv
  <1> QED BY <1>1, LruInvariance, PTL

(* A fill displaces a way in use only if the LRU array says that all are   *)
(* (lru_way_s2), also when the write-back of the eviction stalls.          *)
FillTakesUnused ==
    lru_s2.op = "FILL" =>
        (lru[read_index].used # LruWays => lru_s2.way \notin lru[read_index].used)

THEOREM FillUnused == LruSpec => []FillTakesUnused
  <1>1. LruInv => FillTakesUnused
    BY LruWayFree DEF LruInv, LruTypeOK, FillWaysAgree, FillTakesUnused
  <1> QED BY <1>1, LruInvariance, PTL

-----------------------------------------------------------------------------
(* The output of S3.                                                       *)

IssueTypeOK ==
    /\ s3.req \in Requests
    /\ cpx_staled \in BOOLEAN /\ noc1_staled \in BOOLEAN /\ noc3_staled \in BOOLEAN
    /\ cpx_state \in {"NORMAL", "SECONDHALF"}
    /\ got \in [cpx : 0..2, noc1 : 0..1, noc3 : 0..1]

(* What the flags say of what the instruction in S3 has sent: a stale flag *)
(* is raised only when everything of its kind is out, and only the first   *)
(* beat of two goes without it.  What S3 sent to NoC3 is all that keeps    *)
(* an instruction there, so nothing of it is out yet.                      *)
SentSoFar ==
    /\ cpx_staled => got.cpx = s3.req.cpx /\ cpx_state = "NORMAL"
    /\ ~cpx_staled => got.cpx = (IF cpx_state = "SECONDHALF" THEN 1 ELSE 0)
    /\ cpx_state = "SECONDHALF" => s3.req.cpx = 2
    /\ got.noc1 = (IF s3.req.noc1 /\ noc1_staled THEN 1 ELSE 0)
    /\ got.noc3 = 0 /\ (noc3_staled => s3.req.noc3 = "NONE")

IssueInv == IssueTypeOK /\ SentSoFar /\ ExactlyOnce

LEMMA RequestIs ==
    ASSUME NEW r \in Requests
    PROVE  /\ r.cpx \in 0..2 /\ r.noc1 \in BOOLEAN /\ r.noc3 \in Msgs \cup {"NONE"}
           /\ r.cpx = 2 => ~r.noc1 /\ r.noc3 = "NONE"
  BY DEF Requests

\* The instruction stays: the flags cover what it has sent in this cycle.
LEMMA IssueStays ==
    ASSUME IssueInv, NEW ready \in BOOLEAN, NEW r \in Requests,
           IssueCycle(ready, r), stall_s3(ready)
    PROVE  IssueTypeOK' /\ SentSoFar'
  <1>1. /\ s3' = s3 /\ got' = GotNow(ready) /\ cpx_state' = cpx_next_state
        /\ cpx_staled' = cpx_staled_next(ready)
        /\ noc1_staled' = noc1_staled_next(ready)
        /\ noc3_staled' = noc3_staled_next(ready)
    BY DEF IssueCycle
  <1>2. /\ s3.req.cpx \in 0..2 /\ s3.req.noc1 \in BOOLEAN
        /\ s3.req.noc3 \in Msgs \cup {"NONE"}
        /\ s3.req.cpx = 2 => ~s3.req.noc1 /\ s3.req.noc3 = "NONE"
        /\ got.cpx \in 0..2 /\ got.noc1 \in 0..1 /\ got.noc3 \in 0..1
        /\ s3.req \in Requests
    BY RequestIs DEF IssueInv, IssueTypeOK
  <1>3. /\ got'.cpx = got.cpx + (IF cpx_val THEN 1 ELSE 0)
        /\ got'.noc1 = got.noc1 + (IF noc1_val THEN 1 ELSE 0)
        /\ got'.noc3 = got.noc3 + (IF noc3_ack(ready) THEN 1 ELSE 0)
        /\ got' = [cpx |-> got'.cpx, noc1 |-> got'.noc1, noc3 |-> got'.noc3]
    BY <1>1 DEF GotNow
  <1>4. noc3_ack(ready) => FALSE
    <2> SUFFICES ASSUME noc3_ack(ready) PROVE FALSE
      OBVIOUS
    <2>1. s3.req.noc3 # "NONE" /\ ~stall_for_noc3(ready)
      BY DEF noc3_ack, noc3_val, stall_for_noc3
    <2> QED BY <1>2, <2>1 DEF stall_s3, stall_for_cpx, cpx_next_state
  <1>5. /\ got'.cpx \in 0..2
        /\ cpx_staled' => got'.cpx = s3.req.cpx /\ cpx_state' = "NORMAL"
        /\ ~cpx_staled' => got'.cpx = (IF cpx_state' = "SECONDHALF" THEN 1 ELSE 0)
        /\ cpx_state' = "SECONDHALF" => s3.req.cpx = 2
        /\ cpx_staled' \in BOOLEAN /\ cpx_state' \in {"NORMAL", "SECONDHALF"}
    <2>0. /\ stall_for_cpx \/ stall_for_noc3(ready)
          /\ s3.req.cpx = 2 => ~stall_for_noc3(ready)
      BY <1>2 DEF stall_s3, stall_for_noc3, noc3_val
    <2>1. CASE cpx_staled
      <3>1. ~cpx_val /\ cpx_next_state = "NORMAL"
        BY <2>1 DEF cpx_val, cpx_next_state
      <3>2. cpx_staled' = TRUE
        BY <1>1, <2>1 DEF cpx_staled_next, stall_s3, stall_for_cpx, stall_for_noc3
      <3> QED BY <1>1, <1>2, <1>3, <2>1, <3>1, <3>2 DEF IssueInv, SentSoFar
    <2>2. CASE ~cpx_staled /\ s3.req.cpx = 2
      <3>1. cpx_state = "NORMAL" /\ cpx_next_state = "SECONDHALF" /\ cpx_val
            /\ stall_for_cpx
        BY <2>0, <2>2 DEF IssueInv, IssueTypeOK, cpx_next_state, cpx_val,
                          stall_for_cpx
      <3>2. cpx_staled' = FALSE
        BY <1>1, <2>2, <3>1 DEF cpx_staled_next
      <3>3. got.cpx = 0
        BY <2>2, <3>1 DEF IssueInv, SentSoFar
      <3>4. got'.cpx = 1 /\ cpx_state' = "SECONDHALF"
        BY <1>1, <1>3, <3>1, <3>3
      <3>5. ~cpx_staled' /\ cpx_staled' \in BOOLEAN /\ s3.req.cpx = 2
        BY <2>2, <3>2
      <3> QED BY <3>4, <3>5
    <2>3. CASE ~cpx_staled /\ s3.req.cpx # 2
      <3>1. cpx_state = "NORMAL" /\ cpx_next_state = "NORMAL" /\ ~stall_for_cpx
            /\ (cpx_val <=> s3.req.cpx > 0)
        BY <2>3 DEF IssueInv, IssueTypeOK, SentSoFar, cpx_next_state, cpx_val,
                    stall_for_cpx
      <3>2. cpx_staled' = TRUE
        BY <1>1, <2>0, <2>3, <3>1 DEF cpx_staled_next, stall_for_noc3
      <3> QED BY <1>1, <1>2, <1>3, <2>3, <3>1, <3>2 DEF IssueInv, SentSoFar
    <2> QED BY <2>1, <2>2, <2>3
  <1>6. /\ got'.noc1 \in 0..1 /\ noc1_staled' \in BOOLEAN
        /\ got'.noc1 = (IF s3.req.noc1 /\ noc1_staled' THEN 1 ELSE 0)
    BY <1>1, <1>2, <1>3
       DEF IssueInv, IssueTypeOK, SentSoFar, noc1_staled_next, noc1_val, stall_s3,
           stall_for_cpx, stall_for_noc3
  <1>7. /\ got'.noc3 = 0 /\ noc3_staled' \in BOOLEAN
        /\ noc3_staled' => s3.req.noc3 = "NONE"
    <2>1. stall_for_cpx => s3.req.noc3 = "NONE"
      BY <1>2 DEF stall_for_cpx, cpx_next_state
    <2>2. noc3_staled' \in BOOLEAN /\ (noc3_staled' => noc3_staled \/ stall_for_cpx)
      BY <1>1 DEF noc3_staled_next, stall_s3, stall_for_cpx, stall_for_noc3
    <2>3. got.noc3 = 0 /\ (noc3_staled => s3.req.noc3 = "NONE")
      BY DEF IssueInv, SentSoFar
    <2> QED BY <1>3, <1>4, <2>1, <2>2, <2>3
  <1>8. got' \in [cpx : 0..2, noc1 : 0..1, noc3 : 0..1]
    BY <1>3, <1>5, <1>6, <1>7
  <1> QED BY <1>1, <1>2, <1>5, <1>6, <1>7, <1>8 DEF IssueTypeOK, SentSoFar

\* The instruction leaves: everything it had to send is out.
LEMMA IssueLeaves ==
    ASSUME IssueInv, NEW ready \in BOOLEAN, NEW r \in Requests,
           IssueCycle(ready, r), ~stall_s3(ready)
    PROVE  /\ IssueTypeOK' /\ SentSoFar'
           /\ left'.got.cpx = left'.req.cpx
           /\ left'.got.noc1 = (IF left'.req.noc1 THEN 1 ELSE 0)
           /\ left'.got.noc3 = (IF left'.req.noc3 # "NONE" THEN 1 ELSE 0)
  <1>1. /\ s3'.req = r /\ got' = NoCount /\ cpx_state' = cpx_next_state
        /\ cpx_staled' = cpx_staled_next(ready)
        /\ noc1_staled' = noc1_staled_next(ready)
        /\ noc3_staled' = noc3_staled_next(ready)
        /\ left' = [req |-> s3.req, got |-> GotNow(ready)]
    BY DEF IssueCycle
  <1>2. /\ s3.req.cpx \in 0..2 /\ s3.req.noc1 \in BOOLEAN
        /\ s3.req.noc3 \in Msgs \cup {"NONE"}
        /\ s3.req.cpx = 2 => ~s3.req.noc1 /\ s3.req.noc3 = "NONE"
        /\ got.cpx \in 0..2 /\ got.noc1 \in 0..1 /\ got.noc3 \in 0..1
    BY RequestIs DEF IssueInv, IssueTypeOK
  <1>3. ~stall_for_cpx /\ ~stall_for_noc3(ready)
    BY DEF stall_s3
  <1>4. /\ cpx_state' = "NORMAL" /\ cpx_staled' = FALSE /\ noc1_staled' = FALSE
        /\ noc3_staled' = FALSE
    BY <1>1, <1>3
       DEF stall_for_cpx, cpx_next_state, cpx_val, cpx_staled_next,
           noc1_staled_next, noc3_staled_next, stall_s3, IssueInv, IssueTypeOK
  <1>5. /\ IssueTypeOK' /\ SentSoFar'
    <2>1. got' \in [cpx : 0..2, noc1 : 0..1, noc3 : 0..1]
          /\ got'.cpx = 0 /\ got'.noc1 = 0 /\ got'.noc3 = 0
      BY <1>1 DEF NoCount
    <2> QED BY <1>1, <1>4, <2>1 DEF IssueTypeOK, SentSoFar
  <1>6. /\ left'.req = s3.req
        /\ left'.got.cpx = got.cpx + (IF cpx_val THEN 1 ELSE 0)
        /\ left'.got.noc1 = got.noc1 + (IF noc1_val THEN 1 ELSE 0)
        /\ left'.got.noc3 = got.noc3 + (IF noc3_ack(ready) THEN 1 ELSE 0)
    BY <1>1 DEF GotNow
  <1>7. got.cpx + (IF cpx_val THEN 1 ELSE 0) = s3.req.cpx
    BY <1>2, <1>3
       DEF IssueInv, IssueTypeOK, SentSoFar, cpx_val, stall_for_cpx, cpx_next_state
  <1>8. got.noc1 + (IF noc1_val THEN 1 ELSE 0) = (IF s3.req.noc1 THEN 1 ELSE 0)
    BY <1>2 DEF IssueInv, IssueTypeOK, SentSoFar, noc1_val
  <1>9. got.noc3 + (IF noc3_ack(ready) THEN 1 ELSE 0)
            = (IF s3.req.noc3 # "NONE" THEN 1 ELSE 0)
    BY <1>2, <1>3 DEF IssueInv, SentSoFar, stall_for_noc3, noc3_ack, noc3_val
  <1> QED BY <1>5, <1>6, <1>7, <1>8, <1>9

\* The buffer holds what was accepted and has not left the encoder.
LEMMA OwedIsBuffer ==
    ASSUME IssueInv, NEW ready \in BOOLEAN, NEW r \in Requests,
           IssueCycle(ready, r)
    PROVE  owed' = (IF buffer' = NoMsg THEN << >> ELSE <<buffer'>>)
  <1> DEFINE m == [msg |-> s3.req.noc3, id |-> s3.id]
  <1>1. owed = (IF buffer = NoMsg THEN << >> ELSE <<buffer>>)
    BY DEF IssueInv, ExactlyOnce
  <1>2. /\ buffer' = (IF noc3_ack(ready) THEN m
                      ELSE IF encoder_ack(ready) THEN NoMsg ELSE buffer)
        /\ owed' = LET rest == IF encoder_ack(ready) THEN Tail(owed) ELSE owed
                   IN  IF noc3_ack(ready) THEN Append(rest, m) ELSE rest
    BY DEF IssueCycle
  <1>3. encoder_ack(ready) => buffer # NoMsg /\ Tail(owed) = << >>
    BY <1>1 DEF encoder_ack
  <1>4. CASE noc3_ack(ready)
    <2>1. m.msg # "NONE"
      BY <1>4 DEF noc3_ack, noc3_val
    <2>2. m # NoMsg
      BY <2>1 DEF NoMsg
    <2>3. buffer = NoMsg \/ encoder_ack(ready)
      BY <1>4 DEF noc3_ack
    <2>4. ~encoder_ack(ready) => owed = << >>
      BY <1>1, <2>3
    <2> HIDE DEF m
    <2>5. owed' = Append(<< >>, m) /\ buffer' = m
      BY <1>2, <1>3, <1>4, <2>4
    <2> QED BY <2>2, <2>5
  <1>5. CASE ~noc3_ack(ready)
    BY <1>1, <1>2, <1>3, <1>5
  <1> QED BY <1>4, <1>5

(* What the stale flags promise holds in every reachable state.            *)
THEOREM IssueInvariance == IssueSpec => []IssueInv
  <1>1. IssueInit => IssueInv
    <2> SUFFICES ASSUME IssueInit PROVE IssueInv
      OBVIOUS
    <2>1. Nothing \in Requests /\ NoCount \in [cpx : 0..2, noc1 : 0..1, noc3 : 0..1]
      BY DEF Nothing, Requests, NoCount
    <2>2. IssueTypeOK
      BY <2>1 DEF IssueInit, IssueTypeOK
    <2>3. SentSoFar /\ ExactlyOnce
      BY DEF IssueInit, SentSoFar, ExactlyOnce, Nothing, NoCount
    <2> QED BY <2>2, <2>3 DEF IssueInv
  <1>2. IssueInv /\ [IssueNext]_issueVars => IssueInv'
    <2> SUFFICES ASSUME IssueInv, [IssueNext]_issueVars PROVE IssueInv'
      OBVIOUS
    <2>1. CASE UNCHANGED issueVars
      BY <2>1 DEF issueVars, IssueInv, IssueTypeOK, SentSoFar, ExactlyOnce
    <2>2. ASSUME NEW ready \in BOOLEAN, NEW r \in Requests, IssueCycle(ready, r)
          PROVE  IssueInv'
      <3>1. owed' = (IF buffer' = NoMsg THEN << >> ELSE <<buffer'>>)
        BY <2>2, OwedIsBuffer
      <3>2. CASE stall_s3(ready)
        <4>1. left' = left
          BY <2>2, <3>2 DEF IssueCycle
        <4> QED BY <2>2, <3>1, <3>2, <4>1, IssueStays DEF IssueInv, ExactlyOnce
      <3>3. CASE ~stall_s3(ready)
        BY <2>2, <3>1, <3>3, IssueLeaves DEF IssueInv, ExactlyOnce
      <3> QED BY <3>2, <3>3
    <2> QED BY <2>1, <2>2 DEF IssueNext
  <1> QED BY <1>1, <1>2, PTL DEF IssueSpec

(* Every instruction leaves S3 with each of its messages sent once, and    *)
(* noc3buffer loses and repeats none.                                      *)
THEOREM SentOnce == IssueSpec => []ExactlyOnce
  <1>1. IssueInv => ExactlyOnce
    BY DEF IssueInv
  <1> QED BY <1>1, IssueInvariance, PTL

-----------------------------------------------------------------------------
(* One set of the cache.                                                   *)

LoadMshrs == [kind : {"FREE", "LD", "NC"}, addr : Tags \cup {NoTag}, l1way : L1Ways]
StoreMshrs == [state : {"FREE", "IM", "SM", "WAIT_ACK"}, addr : Tags \cup {NoTag},
               way : Ways, merged : BOOLEAN]

CacheTypeOK ==
    /\ tag \in [Ways -> Tags \cup {NoTag}]
    /\ mesi \in [Ways -> {"I", "S", "E", "M"}]
    /\ wmt \in [L1Ways -> Ways \cup {NoWay}]
    /\ l1 \in [L1Ways -> Tags \cup {NoTag}]
    /\ bad \in SUBSET L1Ways
    /\ ld \in [Threads -> LoadMshrs] /\ st \in [Threads -> StoreMshrs]

\* No two L1 ways are filled from the same way: CPX can only name one.
WmtOnce == \A x, y \in L1Ways : wmt[x] = wmt[y] /\ wmt[x] # NoWay => x = y

MapInv == CacheTypeOK /\ WmtOnce /\ Inclusion

\* The MSHR file keeps its type whatever becomes of one of its entries.
LEMMA MshrTypes ==
    ASSUME CacheTypeOK, NEW a, NEW w
    PROVE  /\ StAfterEvict(a, w) \in [Threads -> StoreMshrs]
           /\ StAfterInval(a) \in [Threads -> StoreMshrs]
           /\ NoSt \in StoreMshrs /\ NoLd \in LoadMshrs
  <1>1. 0 \in Ways /\ 0 \in L1Ways
    BY WaysAssumption DEF Ways, L1Ways
  <1>2. ASSUME NEW u \in Threads
        PROVE  [st[u] EXCEPT !.state = "IM", !.way = 0] \in StoreMshrs
    <2>1. st[u] \in StoreMshrs
      BY <1>2 DEF CacheTypeOK
    <2> QED BY <1>1, <2>1 DEF StoreMshrs
  <1>3. \A u \in Threads : st[u] \in StoreMshrs
    BY DEF CacheTypeOK
  <1> QED BY <1>1, <1>2, <1>3 DEF StAfterEvict, StAfterInval, NoSt, NoLd,
                                 StoreMshrs, LoadMshrs

LEMMA FirstIn ==
    ASSUME NEW S \in SUBSET Nat, S # {}
    PROVE  First(S) \in S
  BY SmallestOf DEF First

LEMMA TagCheckFacts ==
    ASSUME CacheTypeOK, NEW a
    PROVE  /\ TagCheck(a) = NoWay => TagMatches(a) = {}
           /\ TagCheck(a) # NoWay => TagCheck(a) \in TagMatches(a)
           /\ TagMatches(a) \subseteq Ways /\ Ways \subseteq Nat /\ NoWay \notin Ways
  <1>1. TagMatches(a) \subseteq Ways /\ Ways \subseteq Nat /\ NoWay \notin Ways
    BY WaysAssumption, NoneAssumption DEF TagMatches, Ways
  <1>2. CASE TagMatches(a) = {}
    BY <1>1, <1>2 DEF TagCheck
  <1>3. CASE TagMatches(a) # {}
    <2>1. First(TagMatches(a)) \in TagMatches(a)
      BY <1>1, <1>3, FirstIn
    <2> QED BY <1>1, <1>3, <2>1 DEF TagCheck
  <1> QED BY <1>2, <1>3, <1>1

\* The one L1 way a CPX packet names is every way the map gives.
LEMMA CpxWaysFacts ==
    ASSUME CacheTypeOK, WmtOnce, NEW w \in Ways
    PROVE  CpxWays(w) = Mapped(w)
  <1>1. CASE Mapped(w) = {}
    BY <1>1 DEF CpxWays
  <1>2. CASE Mapped(w) # {}
    <2>1. Mapped(w) \in SUBSET Nat
      BY WaysAssumption DEF Mapped, L1Ways
    <2>2. First(Mapped(w)) \in Mapped(w)
      BY <1>2, <2>1, FirstIn
    <2>3. \A x, y \in Mapped(w) : x = y
      BY TagCheckFacts DEF Mapped, WmtOnce
    <2> QED BY <1>2, <2>2, <2>3 DEF CpxWays
  <1> QED BY <1>1, <1>2

-----------------------------------------------------------------------------
(* The way map.  Nothing is assumed of pending upgrades here.              *)

LEMMA MapLoad ==
    ASSUME MapInv, NEW t \in Threads, NEW a \in Tags, NEW x \in L1Ways, Load(t, a, x)
    PROVE  MapInv'
  <1> DEFINE w == TagCheck(a)
  <1>0. CacheTypeOK /\ WmtOnce /\ Inclusion /\ a # NoTag
    BY NoneAssumption DEF MapInv
  <1>1. CASE w # NoWay /\ wmt' = [Demapped(w) EXCEPT ![x] = w]
             /\ l1' = [l1 EXCEPT ![x] = a] /\ bad' = bad \ {x}
             /\ UNCHANGED <<tag, mesi, ld, st>>
    <2>1. w \in Ways /\ tag[w] = a /\ mesi[w] # "I" /\ w # NoWay
      BY <1>0, <1>1, TagCheckFacts DEF TagMatches
    <2> HIDE DEF w
    <2>2. wmt' \in [L1Ways -> Ways \cup {NoWay}] /\ l1' \in [L1Ways -> Tags \cup {NoTag}]
          /\ bad' \in SUBSET L1Ways
      BY <1>0, <1>1, <2>1 DEF CacheTypeOK, Demapped
    <2>3. CacheTypeOK'
      BY <1>0, <1>1, <2>2 DEF CacheTypeOK
    <2>4. \A y \in L1Ways : wmt'[y] = IF y = x THEN w ELSE IF wmt[y] = w THEN NoWay
                                      ELSE wmt[y]
      BY <1>1 DEF Demapped
    <2>5. \A y \in L1Ways : l1'[y] = IF y = x THEN a ELSE l1[y]
      BY <1>0, <1>1 DEF CacheTypeOK
    <2>6. WmtOnce'
      BY <1>0, <2>1, <2>4 DEF WmtOnce
    <2>7. \A y \in L1Ways : l1[y] # a
      BY DEF Load
    <2>8. Inclusion'
      BY <1>0, <1>1, <2>1, <2>4, <2>5, <2>7 DEF Inclusion
    <2> QED BY <2>3, <2>6, <2>8 DEF MapInv
  <1>2. CASE ld' = [ld EXCEPT ![t] = [kind |-> "LD", addr |-> a, l1way |-> x]]
             /\ UNCHANGED <<tag, mesi, wmt, l1, bad, st>>
    <2>1. ld' \in [Threads -> LoadMshrs]
      BY <1>0, <1>2 DEF CacheTypeOK, LoadMshrs
    <2> QED BY <1>0, <1>2, <2>1 DEF MapInv, CacheTypeOK, WmtOnce, Inclusion
  <1> QED BY <1>1, <1>2 DEF Load

\* A line leaves a way: its only L1 copy goes with it.
LEMMA MapInvalidate ==
    ASSUME MapInv, NEW w \in Ways \cup {NoWay}, Invalidate(w), tag' = tag
    PROVE  /\ WmtOnce' /\ Inclusion'
           /\ mesi' \in [Ways -> {"I", "S", "E", "M"}]
           /\ wmt' \in [L1Ways -> Ways \cup {NoWay}]
           /\ l1' \in [L1Ways -> Tags \cup {NoTag}] /\ bad' \in SUBSET L1Ways
  <1>0. CacheTypeOK /\ WmtOnce /\ Inclusion
    BY DEF MapInv
  <1>1. CASE UNCHANGED <<mesi, wmt, l1, bad>>
    BY <1>0, <1>1 DEF CacheTypeOK, WmtOnce, Inclusion
  <1>2. CASE /\ w \in Ways
             /\ mesi' = [mesi EXCEPT ![w] = "I"] /\ wmt' = Demapped(w)
             /\ l1' = L1Without(CpxWays(w)) /\ bad' = bad \ CpxWays(w)
    <2>1. CpxWays(w) = Mapped(w)
      BY <1>0, <1>2, CpxWaysFacts
    <2>2. /\ mesi' \in [Ways -> {"I", "S", "E", "M"}]
          /\ wmt' \in [L1Ways -> Ways \cup {NoWay}]
          /\ l1' \in [L1Ways -> Tags \cup {NoTag}] /\ bad' \in SUBSET L1Ways
      BY <1>0, <1>2 DEF CacheTypeOK, Demapped, L1Without
    <2>3. \A y \in L1Ways : /\ wmt'[y] = (IF wmt[y] = w THEN NoWay ELSE wmt[y])
                            /\ l1'[y] = (IF wmt[y] = w THEN NoTag ELSE l1[y])
      BY <1>2, <2>1 DEF Demapped, L1Without, Mapped
    <2>4. \A v \in Ways : v # w => mesi'[v] = mesi[v]
      BY <1>0, <1>2 DEF CacheTypeOK
    <2>5. WmtOnce'
      BY <1>0, <2>3 DEF WmtOnce
    <2>6. Inclusion'
      BY <1>0, <2>3, <2>4 DEF Inclusion, CacheTypeOK
    <2> QED BY <2>2, <2>5, <2>6
  <1> QED BY <1>1, <1>2 DEF Invalidate

LEMMA MapSelfInvalidate ==
    ASSUME MapInv, NEW a \in Tags, SelfInvalidate(a)
    PROVE  MapInv'
  <1>0. CacheTypeOK /\ WmtOnce /\ Inclusion
    BY DEF MapInv
  <1>1. PICK w \in {v \in Ways : tag[v] = a} \cup {NoWay} :
          LET X == CpxWays(IF w = NoWay THEN 0 ELSE w)
              dropped == IF X = {} THEN {0} ELSE X
          IN  /\ wmt' = IF w = NoWay THEN wmt ELSE Demapped(w)
              /\ l1' = L1Without(dropped)
              /\ bad' = bad \ dropped
    BY DEF SelfInvalidate
  <1>2. UNCHANGED <<tag, mesi, ld, st>>
    BY DEF SelfInvalidate
  <1> DEFINE X == CpxWays(IF w = NoWay THEN 0 ELSE w)
             dropped == IF X = {} THEN {0} ELSE X
  <1>3. /\ wmt' = (IF w = NoWay THEN wmt ELSE Demapped(w))
        /\ l1' = L1Without(dropped) /\ bad' = bad \ dropped
    BY <1>1
  <1>4. w \in Ways => Mapped(w) \subseteq dropped
    <2>1. ASSUME w \in Ways
          PROVE  X = Mapped(w)
      BY <1>0, <2>1, CpxWaysFacts, NoneAssumption, WaysAssumption DEF Ways
    <2> HIDE DEF X
    <2> QED BY <2>1
  <1> HIDE DEF dropped
  <1>5. CacheTypeOK'
    BY <1>0, <1>2, <1>3 DEF CacheTypeOK, Demapped, L1Without
  <1>6. \A y \in L1Ways :
          /\ wmt'[y] = (IF w # NoWay /\ wmt[y] = w THEN NoWay ELSE wmt[y])
          /\ l1'[y] = (IF y \in dropped THEN NoTag ELSE l1[y])
    BY <1>0, <1>3 DEF Demapped, L1Without, CacheTypeOK
  <1>7. WmtOnce'
    BY <1>0, <1>6 DEF WmtOnce
  <1>8. \A y \in L1Ways : w # NoWay /\ wmt[y] = w => y \in dropped
    BY <1>4 DEF Mapped
  <1>9. Inclusion'
    BY <1>0, <1>2, <1>6, <1>8 DEF Inclusion
  <1> QED BY <1>5, <1>7, <1>9 DEF MapInv

\* What the eviction of way w drops from the L1.
LEMMA EvictedFacts ==
    ASSUME MapInv, NEW w \in Ways
    PROVE  /\ Evicted(w) \subseteq Mapped(w)
           /\ \A y \in L1Ways : l1[y] # NoTag /\ wmt[y] = w => y \in Evicted(w)
  BY CpxWaysFacts DEF MapInv, Evicted, Inclusion, Mapped

\* The eviction's and the fill's own changes to the map and the L1.
LEMMA MapFillLoad ==
    ASSUME MapInv, NEW t \in Threads, NEW s \in {"S", "E"}, NEW w \in Ways,
           FillLoad(t, s, w)
    PROVE  MapInv'
  <1> DEFINE a == ld[t].addr
             x == ld[t].l1way
  <1>0. CacheTypeOK /\ WmtOnce /\ Inclusion /\ a \in Tags \cup {NoTag} /\ x \in L1Ways
        /\ w # NoWay
    BY TagCheckFacts DEF MapInv, CacheTypeOK, LoadMshrs
  <1>1. /\ tag' = [tag EXCEPT ![w] = a] /\ mesi' = [mesi EXCEPT ![w] = s]
        /\ wmt' = WmtAfterFill(x, w)
        /\ l1' = [L1Without(Evicted(w)) EXCEPT ![x] = a]
        /\ bad' = bad \ (Evicted(w) \cup {x})
        /\ st' = StAfterEvict(a, w) /\ ld' = [ld EXCEPT ![t] = NoLd]
    BY DEF FillLoad
  <1> HIDE DEF a, x
  <1>2. CacheTypeOK'
    <2>1. tag' \in [Ways -> Tags \cup {NoTag}] /\ mesi' \in [Ways -> {"I", "S", "E", "M"}]
      BY <1>0, <1>1 DEF CacheTypeOK
    <2>2. wmt' \in [L1Ways -> Ways \cup {NoWay}]
      BY <1>0, <1>1 DEF CacheTypeOK, WmtAfterFill, WmtAfterEvict, Demapped
    <2>3. l1' \in [L1Ways -> Tags \cup {NoTag}] /\ bad' \in SUBSET L1Ways
      BY <1>0, <1>1 DEF CacheTypeOK, L1Without
    <2>4. st' \in [Threads -> StoreMshrs]
      BY <1>0, <1>1, MshrTypes
    <2>5. ld' \in [Threads -> LoadMshrs]
      BY <1>0, <1>1, MshrTypes DEF CacheTypeOK
    <2> QED BY <2>1, <2>2, <2>3, <2>4, <2>5 DEF CacheTypeOK
  <1>3. \A y \in L1Ways :
          /\ y = x => wmt'[y] = w /\ l1'[y] = a
          /\ y # x /\ wmt[y] = w => wmt'[y] = NoWay
          /\ y # x /\ wmt[y] # w => wmt'[y] = wmt[y]
          /\ y # x => l1'[y] = (IF y \in Evicted(w) THEN NoTag ELSE l1[y])
    BY <1>0, <1>1 DEF WmtAfterFill, WmtAfterEvict, Demapped, L1Without
  <1>4. WmtOnce'
    BY <1>0, <1>3 DEF WmtOnce
  <1>5. \A v \in Ways : /\ v = w => tag'[v] = a /\ mesi'[v] = s
                        /\ v # w => tag'[v] = tag[v] /\ mesi'[v] = mesi[v]
    BY <1>0, <1>1 DEF CacheTypeOK
  <1>6. Inclusion'
    <2> SUFFICES ASSUME NEW y \in L1Ways, l1'[y] # NoTag
                 PROVE  /\ wmt'[y] # NoWay
                        /\ mesi'[wmt'[y]] # "I" /\ tag'[wmt'[y]] = l1'[y]
      BY DEF Inclusion
    <2>1. CASE y = x
      BY <1>0, <1>3, <1>5, <2>1
    <2>2. CASE y # x
      <3>1. l1[y] # NoTag /\ l1'[y] = l1[y] /\ y \notin Evicted(w)
        BY <1>3, <2>2
      <3>2. wmt[y] # w
        BY <3>1, EvictedFacts
      <3>3. wmt[y] \in Ways /\ mesi[wmt[y]] # "I" /\ tag[wmt[y]] = l1[y]
        BY <1>0, <3>1 DEF Inclusion, CacheTypeOK
      <3> QED BY <1>0, <1>3, <1>5, <2>2, <3>1, <3>2, <3>3, TagCheckFacts
    <2> QED BY <2>1, <2>2
  <1> QED BY <1>2, <1>4, <1>6 DEF MapInv

LEMMA MapFillStore ==
    ASSUME MapInv, NEW t \in Threads, NEW w \in Ways, FillStore(t, w)
    PROVE  MapInv'
  <1> DEFINE a == st[t].addr
  <1>0. CacheTypeOK /\ WmtOnce /\ Inclusion /\ a \in Tags \cup {NoTag} /\ w # NoWay
    BY TagCheckFacts DEF MapInv, CacheTypeOK, StoreMshrs
  <1>1. /\ tag' = [tag EXCEPT ![w] = a] /\ mesi' = [mesi EXCEPT ![w] = "M"]
        /\ wmt' = WmtAfterEvict(w) /\ l1' = L1Without(Evicted(w))
        /\ bad' = BadAfterAck(a, {}) \ Evicted(w)
        /\ st' = [StAfterEvict(a, w) EXCEPT ![t] = NoSt] /\ ld' = ld
    BY DEF FillStore
  <1> HIDE DEF a
  <1>2. CacheTypeOK'
    <2>1. tag' \in [Ways -> Tags \cup {NoTag}] /\ mesi' \in [Ways -> {"I", "S", "E", "M"}]
      BY <1>0, <1>1 DEF CacheTypeOK
    <2>2. wmt' \in [L1Ways -> Ways \cup {NoWay}]
      BY <1>0, <1>1 DEF CacheTypeOK, WmtAfterEvict, Demapped
    <2>3. l1' \in [L1Ways -> Tags \cup {NoTag}] /\ bad' \in SUBSET L1Ways
      BY <1>0, <1>1 DEF CacheTypeOK, L1Without, BadAfterAck
    <2>4. st' \in [Threads -> StoreMshrs]
      BY <1>0, <1>1, MshrTypes
    <2> QED BY <1>0, <1>1, <2>1, <2>2, <2>3, <2>4 DEF CacheTypeOK
  <1>3. \A y \in L1Ways :
          /\ wmt'[y] = wmt[y] \/ (wmt[y] = w /\ wmt'[y] = NoWay)
          /\ l1'[y] = (IF y \in Evicted(w) THEN NoTag ELSE l1[y])
    BY <1>0, <1>1 DEF WmtAfterEvict, Demapped, L1Without
  <1>4. WmtOnce'
    BY <1>0, <1>3 DEF WmtOnce
  <1>5. \A v \in Ways : v # w => tag'[v] = tag[v] /\ mesi'[v] = mesi[v]
    BY <1>0, <1>1 DEF CacheTypeOK
  <1>6. Inclusion'
    <2> SUFFICES ASSUME NEW y \in L1Ways, l1'[y] # NoTag
                 PROVE  /\ wmt'[y] # NoWay
                        /\ mesi'[wmt'[y]] # "I" /\ tag'[wmt'[y]] = l1'[y]
      BY DEF Inclusion
    <2>1. l1[y] # NoTag /\ l1'[y] = l1[y] /\ y \notin Evicted(w)
      BY <1>3
    <2>2. wmt[y] # w
      BY <2>1, EvictedFacts
    <2>3. wmt[y] \in Ways /\ mesi[wmt[y]] # "I" /\ tag[wmt[y]] = l1[y]
      BY <1>0, <2>1 DEF Inclusion, CacheTypeOK
    <2> QED BY <1>3, <1>5, <2>1, <2>2, <2>3, TagCheckFacts, <1>0
  <1> QED BY <1>2, <1>4, <1>6 DEF MapInv

\* Steps that make no line invalid and touch neither map nor L1.
LEMMA MapMesi ==
    ASSUME MapInv, UNCHANGED <<tag, wmt, l1>>, NEW w, NEW s \in {"S", "E", "M"},
           mesi' = mesi \/ mesi' = [mesi EXCEPT ![w] = s],
           bad' \in SUBSET L1Ways, ld' \in [Threads -> LoadMshrs],
           st' \in [Threads -> StoreMshrs]
    PROVE  MapInv'
  <1>0. CacheTypeOK /\ WmtOnce /\ Inclusion
    BY DEF MapInv
  <1>1. /\ mesi' \in [Ways -> {"I", "S", "E", "M"}]
        /\ \A v \in Ways : mesi[v] # "I" => mesi'[v] # "I"
    BY <1>0 DEF CacheTypeOK
  <1> QED BY <1>0, <1>1 DEF MapInv, CacheTypeOK, WmtOnce, Inclusion

LEMMA BadType ==
    ASSUME CacheTypeOK, NEW a, NEW w
    PROVE  /\ BadAfterAck(a, CpxWays(w)) \in SUBSET L1Ways
           /\ BadAfterAck(a, {}) \in SUBSET L1Ways
  <1>1. Mapped(w) \subseteq L1Ways /\ Mapped(w) \in SUBSET Nat
    BY WaysAssumption DEF Mapped, L1Ways
  <1>2. CpxWays(w) \subseteq L1Ways
    BY <1>1, FirstIn DEF CpxWays
  <1> QED BY <1>2 DEF CacheTypeOK, BadAfterAck

\* Stores leave tags, map and L1 alone.
LEMMA MapStores ==
    ASSUME MapInv, NEW t \in Threads, NEW a \in Tags,
           StoreHitsMshr(t, a) \/ Store(t, a)
    PROVE  MapInv'
  <1>0. CacheTypeOK
    BY DEF MapInv
  <1>1. CASE StoreHitsMshr(t, a)
    <2>1. ASSUME NEW u \in Threads
          PROVE  [st[u] EXCEPT !.merged = TRUE] \in StoreMshrs
      BY <1>0 DEF CacheTypeOK, StoreMshrs
    <2>2. st' \in [Threads -> StoreMshrs]
      BY <1>0, <1>1, <2>1 DEF StoreHitsMshr, CacheTypeOK, StMatches
    <2>3. bad' \in SUBSET L1Ways
      <3>1. PICK u \in StMatches(a) :
              bad' = BadAfterAck(a, IF StBufMatch(u, a) THEN CpxWays(StWay(u)) ELSE {})
        BY <1>1 DEF StoreHitsMshr
      <3>2. CASE StBufMatch(u, a)
        BY <1>0, <3>1, <3>2, BadType
      <3>3. CASE ~StBufMatch(u, a)
        BY <1>0, <3>1, <3>3, BadType
      <3> QED BY <3>2, <3>3
    <2> QED BY <1>0, <1>1, <2>2, <2>3, MapMesi DEF StoreHitsMshr, CacheTypeOK
  <1>2. CASE Store(t, a)
    <2>1. ASSUME NEW w \in Ways \cup {NoWay}
          PROVE  PendingStore(a, w) \in StoreMshrs
      BY WaysAssumption DEF PendingStore, StoreMshrs, Ways
    <2>2. PendingStore(a, TagCheck(a)) \in StoreMshrs
      BY <1>0, <2>1, TagCheckFacts
    <2>3. st' \in [Threads -> StoreMshrs]
      BY <1>0, <1>2, <2>2 DEF Store, CacheTypeOK
    <2>4. bad' \in SUBSET L1Ways
      BY <1>0, <1>2, BadType DEF Store, CacheTypeOK
    <2>5. mesi' = mesi \/ mesi' = [mesi EXCEPT ![TagCheck(a)] = "M"]
      BY <1>2 DEF Store
    <2> QED BY <1>0, <1>2, <2>3, <2>4, <2>5, MapMesi DEF Store, CacheTypeOK
  <1> QED BY <1>1, <1>2

\* So do the answers that carry no line.
LEMMA MapAcks ==
    ASSUME MapInv, NEW t \in Threads,
           UpgradeAck(t) \/ AckNc(t) \/ AckWritethrough(t)
    PROVE  MapInv'
  <1>0. CacheTypeOK
    BY DEF MapInv
  <1>1. CASE UpgradeAck(t)
    <2>1. st' \in [Threads -> StoreMshrs]
      BY <1>0, <1>1, MshrTypes DEF UpgradeAck, CacheTypeOK
    <2>2. bad' \in SUBSET L1Ways
      BY <1>0, <1>1, BadType DEF UpgradeAck
    <2> QED BY <1>0, <1>1, <2>1, <2>2, MapMesi DEF UpgradeAck, CacheTypeOK
  <1>2. CASE AckNc(t)
    <2>1. ld' \in [Threads -> LoadMshrs]
      BY <1>0, <1>2, MshrTypes DEF AckNc, CacheTypeOK
    <2> QED BY <1>0, <1>2, <2>1, MapMesi DEF AckNc, CacheTypeOK
  <1>3. CASE AckWritethrough(t)
    <2>1. st' \in [Threads -> StoreMshrs]
      BY <1>0, <1>3, MshrTypes DEF AckWritethrough, CacheTypeOK
    <2> QED BY <1>0, <1>3, <2>1, MapMesi DEF AckWritethrough, CacheTypeOK
  <1> QED BY <1>1, <1>2, <1>3

\* The requests that invalidate their line first.
LEMMA MapDrop ==
    ASSUME MapInv, NEW t \in Threads, NEW a \in Tags,
           LoadNc(t, a) \/ Writethrough(t, a)
    PROVE  MapInv'
  <1>1. CacheTypeOK /\ TagCheck(a) \in Ways \cup {NoWay}
    BY TagCheckFacts DEF MapInv
  <1>2. /\ [kind |-> "NC", addr |-> a, l1way |-> 0] \in LoadMshrs
        /\ [state |-> "WAIT_ACK", addr |-> a, way |-> 0, merged |-> FALSE]
              \in StoreMshrs
    BY WaysAssumption DEF LoadMshrs, StoreMshrs, Ways, L1Ways
  <1>3. ld' \in [Threads -> LoadMshrs] /\ st' \in [Threads -> StoreMshrs]
    BY <1>1, <1>2 DEF LoadNc, Writethrough, CacheTypeOK
  <1>4. tag' = tag /\ Invalidate(TagCheck(a))
    BY DEF LoadNc, Writethrough
  <1> QED BY <1>1, <1>3, <1>4, MapInvalidate DEF MapInv, CacheTypeOK

LEMMA MapNext ==
    ASSUME MapInv, [Next]_vars
    PROVE  MapInv'
  <1>1. CASE UNCHANGED vars
    BY <1>1 DEF vars, MapInv, CacheTypeOK, WmtOnce, Inclusion
  <1>2. ASSUME NEW t \in Threads, NEW a \in Tags, CoreRequest(t, a)
        PROVE  MapInv'
    BY <1>2, MapLoad, MapStores, MapDrop DEF CoreRequest
  <1>3. ASSUME NEW w \in Ways, LineFlush(w)
        PROVE  MapInv'
    <2>1. Invalidate(IF mesi[w] = "I" THEN NoWay ELSE w) /\ UNCHANGED <<tag, ld, st>>
      BY <1>3 DEF LineFlush
    <2> QED BY <2>1, MapInvalidate DEF MapInv, CacheTypeOK
  <1>4. ASSUME NEW a \in Tags, SelfInvalidate(a) \/ Invalidation(a) \/ Downgrade(a)
        PROVE  MapInv'
    <2>1. CASE SelfInvalidate(a)
      BY <2>1, MapSelfInvalidate
    <2>2. CASE Invalidation(a)
      <3>1. st' \in [Threads -> StoreMshrs]
        BY <2>2, MshrTypes DEF Invalidation, MapInv
      <3> QED BY <2>2, <3>1, MapInvalidate, TagCheckFacts
              DEF Invalidation, MapInv, CacheTypeOK
    <2>3. CASE Downgrade(a)
      <3>1. mesi' = mesi \/ mesi' = [mesi EXCEPT ![TagCheck(a)] = "S"]
        BY <2>3 DEF Downgrade
      <3> QED BY <2>3, <3>1, MapMesi DEF Downgrade, MapInv, CacheTypeOK
    <2> QED BY <1>4, <2>1, <2>2, <2>3
  <1>5. ASSUME NEW t \in Threads, L2Answer(t)
        PROVE  MapInv'
    <2>1. CASE \E s \in {"S", "E"}, w \in Ways : FillLoad(t, s, w)
      BY <2>1, MapFillLoad
    <2>2. CASE \E w \in Ways : FillStore(t, w)
      BY <2>2, MapFillStore
    <2>3. CASE UpgradeAck(t) \/ AckNc(t) \/ AckWritethrough(t)
      BY <2>3, MapAcks
    <2> QED BY <1>5, <2>1, <2>2, <2>3 DEF L2Answer
  <1> QED BY <1>1, <1>2, <1>3, <1>4, <1>5 DEF Next

LEMMA MapInitial == Init => MapInv
  <1> SUFFICES ASSUME Init PROVE MapInv
    OBVIOUS
  <1>1. 0 \in Ways /\ 0 \in L1Ways
    BY WaysAssumption DEF Ways, L1Ways
  <1>2. NoSt \in StoreMshrs /\ NoLd \in LoadMshrs
    BY <1>1 DEF NoSt, NoLd, StoreMshrs, LoadMshrs
  <1>3. CacheTypeOK
    BY <1>2 DEF Init, CacheTypeOK
  <1>4. WmtOnce /\ Inclusion
    BY DEF Init, WmtOnce, Inclusion
  <1> QED BY <1>3, <1>4 DEF MapInv

(* The way map knows every L1 copy, pending upgrades and flushes included. *)
THEOREM MapInvariance == Spec => []MapInv
  BY MapInitial, MapNext, PTL DEF Spec

(* An L1 way that holds a line is mapped to the valid L1.5 way with that   *)
(* line: no invalidation, eviction or flush misses the L1's copy, whether  *)
(* or not the ways of pending upgrades are kept.                           *)
THEOREM L1Included == Spec => []Inclusion
  <1>1. MapInv => Inclusion
    BY DEF MapInv
  <1> QED BY <1>1, MapInvariance, PTL

-----------------------------------------------------------------------------
(* Lines and pending upgrades.  UpgradeHeld is what the pipeline relies on *)
(* and does not enforce; from it follow the single copy of a line and the  *)
(* freshness of the L1.                                                    *)

\* A line has one MSHR, load or store, and an MSHR in use has a line.
OneMshr ==
    /\ \A t \in Threads : /\ ld[t].kind # "FREE" => ld[t].addr \in Tags
                          /\ st[t].state # "FREE" => st[t].addr \in Tags
    /\ \A t, u \in Threads :
          /\ ld[t].kind # "FREE" /\ st[u].state # "FREE" => ld[t].addr # st[u].addr
          /\ t # u /\ ld[t].kind # "FREE" /\ ld[u].kind # "FREE"
                => ld[t].addr # ld[u].addr
          /\ t # u /\ st[t].state # "FREE" /\ st[u].state # "FREE"
                => st[t].addr # st[u].addr

WayOnce ==
    \A v, w \in Ways : v # w /\ tag[v] = tag[w] => mesi[v] = "I" \/ mesi[w] = "I"

\* No way holds line a.
Absent(a) == \A w \in Ways : tag[w] = a => mesi[w] = "I"

AskedAbsent ==
    \A t \in Threads : /\ ld[t].kind # "FREE" => Absent(ld[t].addr)
                       /\ st[t].state \in {"IM", "WAIT_ACK"} => Absent(st[t].addr)

\* The way of a pending upgrade still holds its line.
UpgradeHeld ==
    \A t \in Threads : st[t].state = "SM" => /\ StWay(t) \in Ways
                                             /\ tag[StWay(t)] = st[t].addr
                                             /\ mesi[StWay(t)] # "I"

\* The two halves of L1Fresh.
CopiesFresh == bad = {}
StoresKept == lost \subseteq {"WAIT_ACK"}

CacheInv == MapInv /\ OneMshr /\ WayOnce /\ AskedAbsent /\ CopiesFresh /\ StoresKept

LEMMA LineOnceParts == WayOnce /\ AskedAbsent => LineOnce
  BY DEF WayOnce, AskedAbsent, Absent, LineOnce, TagMatches

\* A line without an MSHR: each MSHR in use has another one.
LEMMA NoMatch ==
    ASSUME NEW a, ~MshrMatch(a), NEW u \in Threads
    PROVE  /\ ld[u].kind # "FREE" => ld[u].addr # a
           /\ st[u].state # "FREE" => st[u].addr # a
  BY DEF MshrMatch, StMatches, LdMatches

(* An acknowledged store reaches the only L1 copy of its line.             *)
LEMMA AckFresh ==
    ASSUME MapInv, WayOnce, CopiesFresh, NEW a \in Tags, NEW w \in Ways,
           tag[w] = a, mesi[w] # "I"
    PROVE  BadAfterAck(a, CpxWays(w)) = {}
  <1>1. CpxWays(w) = Mapped(w) /\ a # NoTag
    BY CpxWaysFacts, NoneAssumption DEF MapInv
  <1>2. \A x \in L1Ways : l1[x] = a => x \in Mapped(w)
    BY <1>1 DEF MapInv, CacheTypeOK, Inclusion, WayOnce, Mapped
  <1>3. \A x \in Mapped(w) : l1[x] \in {a, NoTag}
    BY DEF MapInv, Inclusion, Mapped
  <1> QED BY <1>1, <1>2, <1>3 DEF BadAfterAck, CopiesFresh

LEMMA AckAbsent ==
    ASSUME MapInv, CopiesFresh, NEW a \in Tags, Absent(a)
    PROVE  BadAfterAck(a, {}) = {}
  <1>1. \A x \in L1Ways : l1[x] # a
    BY NoneAssumption DEF MapInv, CacheTypeOK, Inclusion, Absent
  <1> QED BY <1>1 DEF BadAfterAck, CopiesFresh

\* Lines that only lose ways stay in at most one, and stay absent.
LEMMA WaysLost ==
    ASSUME CacheTypeOK, tag' = tag,
           \A w \in Ways : mesi'[w] = "I" \/ mesi[w] # "I"
    PROVE  /\ WayOnce => WayOnce'
           /\ \A a : Absent(a) => Absent(a)'
  BY DEF WayOnce, Absent

(* Invalidation leaves no way with the line, and no stale L1 way.          *)
LEMMA Dropped ==
    ASSUME MapInv, WayOnce, CopiesFresh, NEW a \in Tags, Invalidate(TagCheck(a)),
           tag' = tag
    PROVE  /\ CopiesFresh' /\ Absent(a)'
           /\ \A w \in Ways : mesi'[w] = "I" \/ mesi[w] # "I"
           /\ \A w \in Ways : tag[w] # a => mesi'[w] = mesi[w]
  <1>0. CacheTypeOK
    BY DEF MapInv
  <1>1. CASE TagCheck(a) = NoWay
    <2>1. Absent(a)
      BY <1>0, <1>1, TagCheckFacts DEF Absent, TagMatches
    <2> QED BY <1>1, <2>1 DEF Invalidate, CopiesFresh, Absent
  <1>2. CASE TagCheck(a) # NoWay
    <2>1. PICK w \in Ways : w = TagCheck(a) /\ tag[w] = a /\ mesi[w] # "I"
      BY <1>0, <1>2, TagCheckFacts DEF TagMatches
    <2>2. mesi' = [mesi EXCEPT ![w] = "I"] /\ bad' = bad \ CpxWays(w)
      BY <1>2, <2>1 DEF Invalidate
    <2>3. \A v \in Ways : mesi'[v] = IF v = w THEN "I" ELSE mesi[v]
      BY <1>0, <2>2 DEF CacheTypeOK
    <2> QED BY <2>1, <2>2, <2>3 DEF CopiesFresh, WayOnce, Absent
  <1> QED BY <1>1, <1>2

\* A new MSHR is for a line that has none.
LEMMA AskLoad ==
    ASSUME CacheInv, NEW t \in Threads, NEW a \in Tags, NEW r \in LoadMshrs,
           ~MshrMatch(a), r.kind # "FREE", r.addr = a, ld' = [ld EXCEPT ![t] = r],
           UNCHANGED <<tag, st>>, Absent(a)',
           \A w \in Ways : mesi'[w] = "I" \/ mesi[w] # "I"
    PROVE  OneMshr' /\ AskedAbsent' /\ WayOnce'
  <1>0. CacheTypeOK /\ OneMshr /\ AskedAbsent /\ WayOnce
    BY DEF CacheInv, MapInv
  <1>1. \A u \in Threads : ld'[u] = IF u = t THEN r ELSE ld[u]
    BY <1>0 DEF CacheTypeOK
  <1>2. \A u \in Threads : /\ ld[u].kind # "FREE" => ld[u].addr # a
                           /\ st[u].state # "FREE" => st[u].addr # a
    BY NoMatch
  <1>3. OneMshr'
    BY <1>0, <1>1, <1>2 DEF OneMshr
  <1>4. WayOnce' /\ \A b : Absent(b) => Absent(b)'
    BY <1>0, WaysLost
  <1>5. AskedAbsent'
    BY <1>0, <1>1, <1>4 DEF AskedAbsent, Absent
  <1> QED BY <1>3, <1>4, <1>5

LEMMA AskStore ==
    ASSUME CacheInv, NEW t \in Threads, NEW a \in Tags, NEW r \in StoreMshrs,
           ~MshrMatch(a), r.state # "FREE", r.addr = a, st' = [st EXCEPT ![t] = r],
           UNCHANGED <<tag, ld>>, r.state # "SM" => Absent(a)',
           \A w \in Ways : mesi'[w] = "I" \/ mesi[w] # "I"
    PROVE  OneMshr' /\ AskedAbsent' /\ WayOnce'
  <1>0. CacheTypeOK /\ OneMshr /\ AskedAbsent /\ WayOnce
    BY DEF CacheInv, MapInv
  <1>1. \A u \in Threads : st'[u] = IF u = t THEN r ELSE st[u]
    BY <1>0 DEF CacheTypeOK
  <1>2. \A u \in Threads : /\ ld[u].kind # "FREE" => ld[u].addr # a
                           /\ st[u].state # "FREE" => st[u].addr # a
    BY NoMatch
  <1>3. OneMshr'
    BY <1>0, <1>1, <1>2 DEF OneMshr
  <1>4. WayOnce' /\ \A b : Absent(b) => Absent(b)'
    BY <1>0, WaysLost
  <1>5. AskedAbsent'
    BY <1>0, <1>1, <1>4 DEF AskedAbsent, Absent
  <1> QED BY <1>3, <1>4, <1>5

\* Other steps free MSHRs or change their state, never their line.
LEMMA Released ==
    ASSUME OneMshr,
           \A u \in Threads :
              /\ ld'[u] = ld[u] \/ ld'[u].kind = "FREE"
              /\ \/ st'[u].state = "FREE"
                 \/ st[u].state # "FREE" /\ st'[u].addr = st[u].addr
    PROVE  OneMshr'
  BY DEF OneMshr

LEMMA CacheLoad ==
    ASSUME CacheInv, NEW t \in Threads, NEW a \in Tags, NEW x \in L1Ways, Load(t, a, x)
    PROVE  OneMshr' /\ WayOnce' /\ AskedAbsent' /\ CopiesFresh'
  <1>0. CacheTypeOK /\ CopiesFresh /\ ~MshrMatch(a)
    BY DEF CacheInv, MapInv, Load
  <1>1. CASE bad' = bad \ {x} /\ UNCHANGED <<tag, mesi, ld, st>>
    BY <1>1 DEF CacheInv, OneMshr, WayOnce, AskedAbsent, Absent, CopiesFresh
  <1>2. CASE /\ TagCheck(a) = NoWay
             /\ ld' = [ld EXCEPT ![t] = [kind |-> "LD", addr |-> a, l1way |-> x]]
             /\ UNCHANGED <<tag, mesi, bad, st>>
    <2>1. Absent(a)'
      BY <1>0, <1>2, TagCheckFacts DEF Absent, TagMatches
    <2>2. [kind |-> "LD", addr |-> a, l1way |-> x] \in LoadMshrs
      BY DEF LoadMshrs
    <2>3. OneMshr' /\ AskedAbsent' /\ WayOnce'
      BY <1>0, <1>2, <2>1, <2>2, AskLoad
    <2> QED BY <1>0, <1>2, <2>3 DEF CopiesFresh
  <1> QED BY <1>1, <1>2 DEF Load

LEMMA CacheStoreHitsMshr ==
    ASSUME CacheInv, UpgradeHeld, NEW t \in Threads, NEW a \in Tags,
           StoreHitsMshr(t, a)
    PROVE  OneMshr' /\ WayOnce' /\ AskedAbsent' /\ CopiesFresh'
  <1>0. /\ MapInv /\ CacheTypeOK /\ OneMshr /\ WayOnce /\ AskedAbsent /\ CopiesFresh
        /\ UNCHANGED <<tag, mesi, ld>>
    BY DEF CacheInv, MapInv, StoreHitsMshr
  <1>1. PICK u \in StMatches(a) :
          /\ st' = [st EXCEPT ![u].merged = TRUE]
          /\ bad' = BadAfterAck(a, IF StBufMatch(u, a) THEN CpxWays(StWay(u)) ELSE {})
    BY DEF StoreHitsMshr
  <1>2. u \in Threads /\ st[u].state # "FREE" /\ st[u].addr = a
    BY DEF StMatches
  <1>3. \A v \in Threads : st'[v].state = st[v].state /\ st'[v].addr = st[v].addr
    BY <1>0, <1>1, <1>2 DEF CacheTypeOK, StoreMshrs
  <1>4. OneMshr' /\ WayOnce' /\ AskedAbsent'
    BY <1>0, <1>3 DEF OneMshr, WayOnce, AskedAbsent, Absent
  <1>5. CASE StBufMatch(u, a)
    <2>1. StWay(u) \in Ways /\ tag[StWay(u)] = a /\ mesi[StWay(u)] # "I"
      BY <1>2, <1>5 DEF StBufMatch, UpgradeHeld
    <2>2. BadAfterAck(a, CpxWays(StWay(u))) = {}
      BY <1>0, <2>1, AckFresh
    <2> QED BY <1>1, <1>4, <1>5, <2>2 DEF CopiesFresh
  <1>6. CASE ~StBufMatch(u, a)
    <2>1. st[u].state \in {"IM", "WAIT_ACK"}
      BY <1>0, <1>2, <1>6 DEF StBufMatch, CacheTypeOK, StoreMshrs
    <2>2. BadAfterAck(a, {}) = {}
      BY <1>0, <1>2, <2>1, AckAbsent DEF AskedAbsent
    <2> QED BY <1>1, <1>4, <1>6, <2>2 DEF CopiesFresh
  <1> QED BY <1>5, <1>6

LEMMA CacheStore ==
    ASSUME CacheInv, NEW t \in Threads, NEW a \in Tags, Store(t, a)
    PROVE  OneMshr' /\ WayOnce' /\ AskedAbsent' /\ CopiesFresh'
  <1>0. /\ MapInv /\ CacheTypeOK /\ OneMshr /\ WayOnce /\ AskedAbsent /\ CopiesFresh
        /\ ~MshrMatch(a) /\ UNCHANGED <<tag, wmt, l1, ld>>
    BY DEF CacheInv, MapInv, Store
  <1>1. PICK w \in Ways \cup {NoWay} :
           /\ w = TagCheck(a)
           /\ w = NoWay => Absent(a)
           /\ w # NoWay => tag[w] = a /\ mesi[w] # "I"
    BY <1>0, TagCheckFacts DEF Absent, TagMatches
  <1>2. CASE /\ StoreHit(w) /\ mesi' = [mesi EXCEPT ![w] = "M"]
             /\ bad' = BadAfterAck(a, CpxWays(w)) /\ st' = st
    <2>1. w \in Ways /\ tag[w] = a /\ mesi[w] # "I"
      BY <1>1, <1>2 DEF StoreHit
    <2>2. bad' = {}
      BY <1>0, <1>2, <2>1, AckFresh
    <2>3. \A v \in Ways : mesi'[v] = "I" <=> mesi[v] = "I"
      BY <1>0, <1>2, <2>1 DEF CacheTypeOK
    <2> QED BY <1>0, <1>2, <2>2, <2>3
            DEF OneMshr, WayOnce, AskedAbsent, Absent, CopiesFresh
  <1>3. CASE /\ st' = [st EXCEPT ![t] = PendingStore(a, w)]
             /\ UNCHANGED <<mesi, bad>>
    <2>1. /\ PendingStore(a, w) \in StoreMshrs
          /\ PendingStore(a, w).addr = a
          /\ PendingStore(a, w).state = IF w = NoWay THEN "IM" ELSE "SM"
      BY WaysAssumption DEF PendingStore, StoreMshrs, Ways
    <2>2. w = NoWay => Absent(a)'
      BY <1>0, <1>1, <1>3 DEF Absent
    <2>3. OneMshr' /\ AskedAbsent' /\ WayOnce'
      BY <1>0, <1>3, <2>1, <2>2, AskStore
    <2> QED BY <1>0, <1>3, <2>3 DEF CopiesFresh
  <1> QED BY <1>1, <1>2, <1>3 DEF Store

LEMMA CacheDrop ==
    ASSUME CacheInv, NEW t \in Threads, NEW a \in Tags,
           LoadNc(t, a) \/ Writethrough(t, a)
    PROVE  OneMshr' /\ WayOnce' /\ AskedAbsent' /\ CopiesFresh'
  <1>1. /\ CopiesFresh' /\ Absent(a)'
        /\ \A w \in Ways : mesi'[w] = "I" \/ mesi[w] # "I"
    BY Dropped DEF CacheInv, LoadNc, Writethrough
  <1>2. /\ [kind |-> "NC", addr |-> a, l1way |-> 0] \in LoadMshrs
        /\ [state |-> "WAIT_ACK", addr |-> a, way |-> 0, merged |-> FALSE]
              \in StoreMshrs
    BY WaysAssumption DEF LoadMshrs, StoreMshrs, Ways, L1Ways
  <1>3. CASE LoadNc(t, a)
    BY <1>1, <1>2, <1>3, AskLoad DEF LoadNc
  <1>4. CASE Writethrough(t, a)
    BY <1>1, <1>2, <1>4, AskStore DEF Writethrough
  <1> QED BY <1>3, <1>4

LEMMA CacheInvalidation ==
    ASSUME CacheInv, NEW a \in Tags, Invalidation(a)
    PROVE  OneMshr' /\ WayOnce' /\ AskedAbsent' /\ CopiesFresh'
  <1>0. /\ CacheTypeOK /\ OneMshr /\ WayOnce /\ AskedAbsent
        /\ st' = StAfterInval(a) /\ UNCHANGED <<tag, ld>>
    BY DEF CacheInv, MapInv, Invalidation
  <1>1. /\ CopiesFresh' /\ Absent(a)'
        /\ \A w \in Ways : mesi'[w] = "I" \/ mesi[w] # "I"
    BY Dropped DEF CacheInv, Invalidation
  <1>2. ASSUME NEW u \in Threads
        PROVE  \/ st'[u] = st[u]
               \/ /\ st[u].state = "SM" /\ st[u].addr = a
                  /\ st'[u].state = "IM" /\ st'[u].addr = a
    <2>1. st[u] \in StoreMshrs
      BY <1>0 DEF CacheTypeOK
    <2> QED BY <1>0, <2>1 DEF StAfterInval, StBufMatch, StoreMshrs
  <1>3. OneMshr'
    BY <1>0, <1>2, Released
  <1>4. WayOnce' /\ \A b : Absent(b) => Absent(b)'
    BY <1>0, <1>1, WaysLost
  <1>5. AskedAbsent'
    BY <1>0, <1>1, <1>2, <1>4 DEF AskedAbsent, Absent
  <1> QED BY <1>1, <1>3, <1>4, <1>5

LEMMA CacheLineFlush ==
    ASSUME CacheInv, NEW w \in Ways, LineFlush(w)
    PROVE  OneMshr' /\ WayOnce' /\ AskedAbsent' /\ CopiesFresh'
  <1>0. /\ CacheTypeOK /\ OneMshr /\ WayOnce /\ AskedAbsent /\ CopiesFresh
        /\ UNCHANGED <<tag, ld, st>>
    BY DEF CacheInv, MapInv, LineFlush
  <1>1. /\ bad' = bad \/ bad' = bad \ CpxWays(w)
        /\ mesi' = mesi \/ mesi' = [mesi EXCEPT ![w] = "I"]
    BY TagCheckFacts, <1>0 DEF LineFlush, Invalidate
  <1>2. \A v \in Ways : mesi'[v] = "I" \/ mesi[v] # "I"
    BY <1>0, <1>1 DEF CacheTypeOK
  <1>3. WayOnce' /\ \A b : Absent(b) => Absent(b)'
    BY <1>0, <1>2, WaysLost
  <1> QED BY <1>0, <1>1, <1>3 DEF OneMshr, AskedAbsent, Absent, CopiesFresh

LEMMA CacheSelfInvalidate ==
    ASSUME CacheInv, NEW a \in Tags, SelfInvalidate(a)
    PROVE  OneMshr' /\ WayOnce' /\ AskedAbsent' /\ CopiesFresh'
  <1>1. UNCHANGED <<tag, mesi, ld, st>> /\ (\E X : bad' = bad \ X)
    BY DEF SelfInvalidate
  <1> QED BY <1>1 DEF CacheInv, OneMshr, WayOnce, AskedAbsent, Absent, CopiesFresh

LEMMA CacheDowngrade ==
    ASSUME CacheInv, NEW a \in Tags, Downgrade(a)
    PROVE  OneMshr' /\ WayOnce' /\ AskedAbsent' /\ CopiesFresh'
  <1>0. CacheTypeOK /\ UNCHANGED <<tag, bad, ld, st>>
    BY DEF CacheInv, MapInv, Downgrade
  <1>1. \/ mesi' = mesi
        \/ \E w \in Ways : mesi[w] # "I" /\ mesi' = [mesi EXCEPT ![w] = "S"]
    BY <1>0, TagCheckFacts DEF Downgrade, StoreHit, TagMatches
  <1>2. \A v \in Ways : mesi'[v] = "I" <=> mesi[v] = "I"
    BY <1>0, <1>1 DEF CacheTypeOK
  <1> QED BY <1>0, <1>2 DEF CacheInv, OneMshr, WayOnce, AskedAbsent, Absent, CopiesFresh

\* The line of an answer has no other MSHR, so its fill changes none.
LEMMA EvictKeeps ==
    ASSUME CacheInv, NEW a, NEW w, Absent(a),
           \A u \in Threads : st[u].state = "SM" => st[u].addr # a
    PROVE  StAfterEvict(a, w) = st
  BY DEF CacheInv, MapInv, CacheTypeOK, StAfterEvict, StBufMatch

\* A line that was absent is filled into one way.
LEMMA Filled ==
    ASSUME CacheInv, NEW a \in Tags, NEW w \in Ways, NEW s, Absent(a),
           tag' = [tag EXCEPT ![w] = a], mesi' = [mesi EXCEPT ![w] = s]
    PROVE  WayOnce' /\ \A b : b # a /\ Absent(b) => Absent(b)'
  <1>1. \A v \in Ways : /\ tag'[v] = IF v = w THEN a ELSE tag[v]
                        /\ mesi'[v] = IF v = w THEN s ELSE mesi[v]
    BY DEF CacheInv, MapInv, CacheTypeOK
  <1> QED BY <1>1 DEF CacheInv, WayOnce, Absent

LEMMA CacheFillLoad ==
    ASSUME CacheInv, NEW t \in Threads, NEW s \in {"S", "E"}, NEW w \in Ways,
           FillLoad(t, s, w)
    PROVE  OneMshr' /\ WayOnce' /\ AskedAbsent' /\ CopiesFresh'
  <1>0. CacheTypeOK /\ OneMshr /\ AskedAbsent /\ CopiesFresh
    BY DEF CacheInv, MapInv
  <1>1. PICK a \in Tags : a = ld[t].addr
    BY <1>0 DEF FillLoad, OneMshr
  <1>2. /\ ld[t].kind = "LD" /\ ld' = [ld EXCEPT ![t] = NoLd]
        /\ tag' = [tag EXCEPT ![w] = a] /\ mesi' = [mesi EXCEPT ![w] = s]
        /\ st' = StAfterEvict(a, w)
        /\ bad' = bad \ (Evicted(w) \cup {ld[t].l1way})
    BY <1>1 DEF FillLoad
  <1>3. /\ Absent(a)
        /\ \A u \in Threads : /\ st[u].state # "FREE" => st[u].addr # a
                              /\ u # t /\ ld[u].kind # "FREE" => ld[u].addr # a
    BY <1>0, <1>1, <1>2 DEF AskedAbsent, OneMshr
  <1>4. st' = st
    BY <1>2, <1>3, EvictKeeps
  <1>5. WayOnce' /\ \A b : b # a /\ Absent(b) => Absent(b)'
    BY <1>2, <1>3, Filled
  <1>6. \A u \in Threads : IF u = t THEN ld'[u].kind = "FREE" ELSE ld'[u] = ld[u]
    BY <1>0, <1>2 DEF CacheTypeOK, NoLd
  <1>7. OneMshr'
    <2>1. \A u \in Threads : st[u].state # "FREE" \/ st'[u].state = "FREE"
      BY <1>4
    <2> QED BY <1>0, <1>4, <1>6, <2>1, Released
  <1>8. AskedAbsent'
    BY <1>0, <1>3, <1>4, <1>5, <1>6 DEF AskedAbsent, Absent
  <1>9. CopiesFresh'
    BY <1>0, <1>2 DEF CopiesFresh
  <1> QED BY <1>5, <1>7, <1>8, <1>9

LEMMA CacheFillStore ==
    ASSUME CacheInv, NEW t \in Threads, NEW w \in Ways, FillStore(t, w)
    PROVE  OneMshr' /\ WayOnce' /\ AskedAbsent' /\ CopiesFresh'
  <1>0. MapInv /\ CacheTypeOK /\ OneMshr /\ AskedAbsent /\ CopiesFresh
    BY DEF CacheInv, MapInv
  <1>1. PICK a \in Tags : a = st[t].addr
    BY <1>0 DEF FillStore, OneMshr
  <1>2. /\ st[t].state = "IM" /\ ld' = ld
        /\ tag' = [tag EXCEPT ![w] = a] /\ mesi' = [mesi EXCEPT ![w] = "M"]
        /\ st' = [StAfterEvict(a, w) EXCEPT ![t] = NoSt]
        /\ bad' = BadAfterAck(a, {}) \ Evicted(w)
    BY <1>1 DEF FillStore
  <1>3. /\ Absent(a)
        /\ \A u \in Threads : /\ ld[u].kind # "FREE" => ld[u].addr # a
                              /\ u # t /\ st[u].state # "FREE" => st[u].addr # a
    BY <1>0, <1>1, <1>2 DEF AskedAbsent, OneMshr
  <1>4. StAfterEvict(a, w) = st
    BY <1>2, <1>3, EvictKeeps
  <1>5. WayOnce' /\ \A b : b # a /\ Absent(b) => Absent(b)'
    BY <1>2, <1>3, Filled
  <1>6. \A u \in Threads : IF u = t THEN st'[u].state = "FREE" ELSE st'[u] = st[u]
    BY <1>0, <1>2, <1>4 DEF CacheTypeOK, NoSt
  <1>7. OneMshr'
    BY <1>0, <1>2, <1>6 DEF OneMshr
  <1>8. AskedAbsent'
    BY <1>0, <1>2, <1>3, <1>5, <1>6 DEF AskedAbsent, Absent
  <1>9. CopiesFresh'
    <2>1. BadAfterAck(a, {}) = {}
      BY <1>0, <1>3, AckAbsent
    <2> QED BY <1>2, <2>1 DEF CopiesFresh
  <1> QED BY <1>5, <1>7, <1>8, <1>9

LEMMA CacheAcks ==
    ASSUME CacheInv, UpgradeHeld, NEW t \in Threads,
           UpgradeAck(t) \/ AckNc(t) \/ AckWritethrough(t)
    PROVE  OneMshr' /\ WayOnce' /\ AskedAbsent' /\ CopiesFresh'
  <1>0. /\ MapInv /\ CacheTypeOK /\ OneMshr /\ WayOnce /\ AskedAbsent /\ CopiesFresh
        /\ tag' = tag
    BY DEF CacheInv, MapInv, UpgradeAck, AckNc, AckWritethrough
  <1>1. \A u \in Threads : /\ ld'[u] = ld[u] \/ ld'[u].kind = "FREE"
                           /\ st'[u] = st[u] \/ st'[u].state = "FREE"
    BY <1>0 DEF UpgradeAck, AckNc, AckWritethrough, CacheTypeOK, NoLd, NoSt
  <1>2. OneMshr'
    BY <1>0, <1>1 DEF OneMshr
  <1>3. \A v \in Ways : mesi'[v] = "I" <=> mesi[v] = "I"
    BY <1>0 DEF UpgradeAck, AckNc, AckWritethrough, CacheTypeOK, UpgradeHeld
  <1>4. WayOnce' /\ AskedAbsent'
    BY <1>0, <1>1, <1>3 DEF WayOnce, AskedAbsent, Absent
  <1>5. CopiesFresh'
    <2>1. CASE UpgradeAck(t)
      <3>1. PICK w \in Ways : w = StWay(t) /\ tag[w] = st[t].addr /\ mesi[w] # "I"
        BY <2>1 DEF UpgradeAck, UpgradeHeld
      <3>2. st[t].addr \in Tags
        BY <1>0, <2>1 DEF UpgradeAck, OneMshr
      <3> QED BY <1>0, <2>1, <3>1, <3>2, AckFresh DEF UpgradeAck, CopiesFresh
    <2>2. CASE AckNc(t) \/ AckWritethrough(t)
      BY <1>0, <2>2 DEF AckNc, AckWritethrough, CopiesFresh
    <2> QED BY <2>1, <2>2
  <1> QED BY <1>2, <1>4, <1>5

(* The buffer of an upgrade is written to its line, that of a fill with    *)
(* the line; only a write-through's is dropped.                            *)
LEMMA KeepNext ==
    ASSUME StoresKept, UpgradeHeld, [Next]_vars
    PROVE  StoresKept'
  <1>1. ASSUME NEW t \in Threads, UpgradeAck(t)
        PROVE  UNCHANGED lost
    <2>1. StWay(t) \in TagMatches(st[t].addr)
      BY <1>1 DEF UpgradeAck, UpgradeHeld, TagMatches
    <2> QED BY <1>1, <2>1 DEF UpgradeAck, LostByUpgrade
  <1>2. ASSUME NEW t \in Threads, AckWritethrough(t)
        PROVE  lost' \subseteq lost \cup {"WAIT_ACK"}
    BY <1>2 DEF AckWritethrough
  <1>3. ASSUME NEW t \in Threads, L2Answer(t)
        PROVE  lost' \subseteq lost \cup {"WAIT_ACK"}
    BY <1>1, <1>2, <1>3 DEF L2Answer, FillLoad, FillStore, AckNc
  <1>4. ASSUME NEW t \in Threads, NEW a \in Tags, CoreRequest(t, a)
        PROVE  UNCHANGED lost
    BY <1>4 DEF CoreRequest, Load, StoreHitsMshr, Store, LoadNc, Writethrough
  <1>5. ASSUME NEW a \in Tags, SelfInvalidate(a) \/ Invalidation(a) \/ Downgrade(a)
        PROVE  UNCHANGED lost
    BY <1>5 DEF SelfInvalidate, Invalidation, Downgrade
  <1>6. ASSUME NEW w \in Ways, LineFlush(w)
        PROVE  UNCHANGED lost
    BY <1>6 DEF LineFlush
  <1>7. CASE UNCHANGED vars
    BY <1>7 DEF vars, StoresKept
  <1> QED BY <1>3, <1>4, <1>5, <1>6, <1>7 DEF Next, StoresKept

LEMMA CacheNext ==
    ASSUME CacheInv, UpgradeHeld, [Next]_vars
    PROVE  CacheInv'
  <1>1. MapInv'
    BY MapNext DEF CacheInv
  <1>2. CASE UNCHANGED vars
    BY <1>1, <1>2 DEF vars, CacheInv, OneMshr, WayOnce, AskedAbsent, Absent, CopiesFresh, StoresKept
  <1>3. ASSUME NEW t \in Threads, NEW a \in Tags, CoreRequest(t, a)
        PROVE  OneMshr' /\ WayOnce' /\ AskedAbsent' /\ CopiesFresh'
    BY <1>3, CacheLoad, CacheStoreHitsMshr, CacheStore, CacheDrop DEF CoreRequest
  <1>4. ASSUME NEW t \in Threads, L2Answer(t)
        PROVE  OneMshr' /\ WayOnce' /\ AskedAbsent' /\ CopiesFresh'
    BY <1>4, CacheFillLoad, CacheFillStore, CacheAcks DEF L2Answer
  <1>5. StoresKept'
    BY KeepNext DEF CacheInv
  <1> QED BY <1>1, <1>2, <1>3, <1>4, <1>5, CacheLineFlush, CacheSelfInvalidate,
             CacheInvalidation, CacheDowngrade DEF Next, CacheInv

LEMMA CacheInit == Init => CacheInv /\ UpgradeHeld
  <1> SUFFICES ASSUME Init PROVE CacheInv /\ UpgradeHeld
    OBVIOUS
  <1>1. MapInv
    BY MapInitial
  <1>2. \A t \in Threads : ld[t].kind = "FREE" /\ st[t].state = "FREE"
    BY DEF Init, NoLd, NoSt
  <1>3. OneMshr /\ AskedAbsent /\ UpgradeHeld
    BY <1>2 DEF OneMshr, AskedAbsent, UpgradeHeld
  <1>4. WayOnce /\ CopiesFresh /\ StoresKept
    BY DEF Init, WayOnce, CopiesFresh, StoresKept
  <1> QED BY <1>1, <1>3, <1>4 DEF CacheInv

(* As long as the way of each pending upgrade holds its line, a line is in *)
(* at most one way, in none while it is asked for, and every acknowledged  *)
(* store reaches the cache and the L1 copies, except those merged into the *)
(* MSHR of a write-through.                                                *)
THEOREM OnceWhileHeld == Spec /\ []UpgradeHeld => [](LineOnce /\ L1Fresh)
  <1>1. CacheInv => LineOnce /\ L1Fresh
    BY LineOnceParts DEF CacheInv, CopiesFresh, StoresKept, L1Fresh
  <1> QED BY <1>1, CacheInit, CacheNext, PTL DEF Spec

\* A way becomes writable for a line: the step changes an MSHR of that line.
LEMMA GrantStep ==
    ASSUME CacheTypeOK, UpgradeHeld, [Next]_vars, NEW a \in Tags, NEW w \in Ways,
           tag'[w] = a, mesi'[w] \in {"M", "E"},
           ~(tag[w] = a /\ mesi[w] \in {"M", "E"})
    PROVE  \E t \in Threads : \/ ld'[t] # ld[t] /\ a = ld[t].addr
                              \/ st'[t] # st[t] /\ a = st[t].addr
  <1>1. CASE UNCHANGED <<tag, mesi>>
    BY <1>1
  <1>2. ASSUME NEW v \in Ways, NEW s \in {"I", "S"}, tag' = tag,
               mesi' = [mesi EXCEPT ![v] = s]
        PROVE  FALSE
    BY <1>2 DEF CacheTypeOK
  <1>3. ASSUME NEW v \in Ways \cup {NoWay}, Invalidate(v), tag' = tag
        PROVE  UNCHANGED <<tag, mesi>>
    BY <1>2, <1>3 DEF Invalidate
  <1>4. ASSUME NEW t \in Threads, NEW b \in Tags, CoreRequest(t, b)
        PROVE  UNCHANGED <<tag, mesi>>
    <2>1. TagCheck(b) \in Ways \cup {NoWay}
      BY TagCheckFacts
    <2>2. CASE Store(t, b)
      <3>1. CASE StoreHit(TagCheck(b)) /\ mesi' = [mesi EXCEPT ![TagCheck(b)] = "M"]
        BY <2>2, <3>1 DEF Store, StoreHit, CacheTypeOK
      <3> QED BY <2>2, <3>1 DEF Store
    <2>3. CASE LoadNc(t, b) \/ Writethrough(t, b)
      BY <1>3, <2>1, <2>3 DEF LoadNc, Writethrough
    <2> QED BY <1>4, <2>2, <2>3 DEF CoreRequest, Load, StoreHitsMshr
  <1>5. ASSUME NEW v \in Ways, LineFlush(v)
        PROVE  UNCHANGED <<tag, mesi>>
    BY <1>3, <1>5 DEF LineFlush
  <1>6. ASSUME NEW b \in Tags, SelfInvalidate(b) \/ Invalidation(b) \/ Downgrade(b)
        PROVE  UNCHANGED <<tag, mesi>>
    <2>1. TagCheck(b) \in Ways \cup {NoWay}
      BY TagCheckFacts
    <2>2. CASE Downgrade(b)
      BY <1>2, <2>1, <2>2 DEF Downgrade, StoreHit
    <2>3. CASE Invalidation(b)
      BY <1>3, <2>1, <2>3 DEF Invalidation
    <2> QED BY <1>6, <2>2, <2>3 DEF SelfInvalidate
  <1>7. ASSUME NEW t \in Threads, L2Answer(t)
        PROVE  \E u \in Threads : \/ ld'[u] # ld[u] /\ a = ld[u].addr
                                  \/ st'[u] # st[u] /\ a = st[u].addr
    <2>1. CASE \E s \in {"S", "E"}, v \in Ways : FillLoad(t, s, v)
      <3>1. a = ld[t].addr
        BY <2>1 DEF FillLoad, CacheTypeOK
      <3>2. ld'[t].kind # ld[t].kind
        BY <2>1 DEF FillLoad, CacheTypeOK, NoLd
      <3> QED BY <3>1, <3>2
    <2>2. CASE \E v \in Ways : FillStore(t, v)
      <3>1. a = st[t].addr
        BY <2>2 DEF FillStore, CacheTypeOK
      <3>2. PICK v \in Ways : st' = [StAfterEvict(st[t].addr, v) EXCEPT ![t] = NoSt]
        BY <2>2 DEF FillStore
      <3>3. st'[t].state # st[t].state
        BY <2>2, <3>2, MshrTypes DEF FillStore, NoSt
      <3> QED BY <3>1, <3>3
    <2>3. CASE UpgradeAck(t)
      <3>1. a = st[t].addr
        BY <2>3 DEF UpgradeAck, UpgradeHeld, CacheTypeOK
      <3>2. st'[t].state # st[t].state
        BY <2>3 DEF UpgradeAck, CacheTypeOK, NoSt
      <3> QED BY <3>1, <3>2
    <2>4. CASE AckNc(t) \/ AckWritethrough(t)
      BY <1>1, <2>4 DEF AckNc, AckWritethrough
    <2> QED BY <1>7, <2>1, <2>2, <2>3, <2>4 DEF L2Answer
  <1> QED BY <1>1, <1>4, <1>5, <1>6, <1>7 DEF Next, vars

(* As long as the way of each pending upgrade holds its line, a line       *)
(* becomes writable only by the L2's answer to an MSHR of that line.       *)
THEOREM GrantWhileHeld == Spec /\ []UpgradeHeld => WritableNeedsGrant
  <1>1. MapInv /\ UpgradeHeld /\ [Next]_vars
          => [\A a \in Writable' \ Writable :
                 \/ a \in {ld[t].addr : t \in {u \in Threads : ld'[u] # ld[u]}}
                 \/ a \in {st[t].addr : t \in {u \in Threads : st'[u] # st[u]}}]_vars
    <2> SUFFICES ASSUME MapInv, UpgradeHeld, [Next]_vars, NEW a \in Writable' \ Writable
                 PROVE  \/ a \in {ld[t].addr : t \in {u \in Threads : ld'[u] # ld[u]}}
                        \/ a \in {st[t].addr : t \in {u \in Threads : st'[u] # st[u]}}
      OBVIOUS
    <2>1. PICK w \in Ways : tag'[w] = a /\ mesi'[w] \in {"M", "E"} /\ a \in Tags
      BY DEF Writable, TagMatches
    <2>2. ~(tag[w] = a /\ mesi[w] \in {"M", "E"})
      BY <2>1 DEF Writable, TagMatches
    <2>3. PICK t \in Threads : \/ ld'[t] # ld[t] /\ a = ld[t].addr
                               \/ st'[t] # st[t] /\ a = st[t].addr
      BY <2>1, <2>2, GrantStep DEF MapInv
    <2> QED BY <2>3
  <1> QED BY <1>1, MapInvariance, PTL DEF Spec, WritableNeedsGrant

-----------------------------------------------------------------------------
(* What makes UpgradeHeld true: no pending upgrade loses its way to a fill *)
(* or a flush, and the pipeline's copy of st_way can name every way.       *)

Pinned == UpgradePinsWay /\ NumWays <= StWayCount

\* The pipeline's st_way is the MSHR's.
LEMMA StWayIs ==
    ASSUME Pinned, NEW w \in Ways
    PROVE  w % StWayCount = w
  <1>1. StWayCount \in Nat \ {0} /\ w \in 0..StWayCount - 1
    BY WaysAssumption, StWayAssumption DEF Pinned, Ways
  <1> QED BY <1>1, ModBelow

LEMMA StWayHere ==
    ASSUME Pinned, CacheTypeOK, NEW t \in Threads
    PROVE  StWay(t) = st[t].way /\ st[t].way \in Ways
  BY StWayIs DEF StWay, CacheTypeOK, StoreMshrs

\* The ways of the upgrades still pending keep their tag and a valid state.
LEMMA HeldStays ==
    ASSUME Pinned, CacheTypeOK, CacheTypeOK', UpgradeHeld,
           \A t \in Threads :
              st'[t].state = "SM" =>
                 /\ st[t].state = "SM" /\ st'[t].way = st[t].way
                 /\ st'[t].addr = st[t].addr
                 /\ tag'[st[t].way] = tag[st[t].way] /\ mesi'[st[t].way] # "I"
    PROVE  UpgradeHeld'
  <1> SUFFICES ASSUME NEW t \in Threads, st'[t].state = "SM"
               PROVE  /\ StWay(t)' \in Ways /\ tag'[StWay(t)'] = st'[t].addr
                      /\ mesi'[StWay(t)'] # "I"
    BY DEF UpgradeHeld
  <1>1. StWay(t) = st[t].way /\ st[t].way \in Ways
    BY StWayHere
  <1>2. StWay(t)' = st[t].way
    BY <1>1 DEF StWay
  <1> QED BY <1>1, <1>2 DEF UpgradeHeld

LEMMA HeldStore ==
    ASSUME Pinned, CacheInv, CacheInv', UpgradeHeld, NEW t \in Threads,
           NEW a \in Tags, StoreHitsMshr(t, a) \/ Store(t, a)
    PROVE  UpgradeHeld'
  <1>0. CacheTypeOK /\ CacheTypeOK' /\ tag' = tag
    BY DEF CacheInv, MapInv, StoreHitsMshr, Store
  <1>1. \A u \in Threads : StWay(u) = st[u].way /\ st[u].way \in Ways
    BY <1>0, StWayHere
  <1>2. CASE StoreHitsMshr(t, a)
    <2>1. \A u \in Threads : /\ st'[u].state = st[u].state /\ st'[u].way = st[u].way
                             /\ st'[u].addr = st[u].addr
      <3>1. PICK v \in Threads : st' = [st EXCEPT ![v].merged = TRUE]
        BY <1>2 DEF StoreHitsMshr, StMatches
      <3> QED BY <1>0, <3>1 DEF CacheTypeOK, StoreMshrs
    <2>2. mesi' = mesi
      BY <1>2 DEF StoreHitsMshr
    <2> QED BY <1>0, <1>1, <2>1, <2>2, HeldStays DEF UpgradeHeld
  <1>3. CASE Store(t, a)
    <2>1. PICK w \in Ways \cup {NoWay} :
             w = TagCheck(a) /\ (w # NoWay => tag[w] = a /\ mesi[w] # "I")
      BY <1>0, TagCheckFacts DEF TagMatches
    <2>2. CASE StoreHit(w) /\ mesi' = [mesi EXCEPT ![w] = "M"] /\ st' = st
      <3>1. \A v \in Ways : mesi[v] # "I" => mesi'[v] # "I"
        BY <1>0, <2>2 DEF CacheTypeOK
      <3> QED BY <1>0, <1>1, <2>2, <3>1, HeldStays DEF UpgradeHeld
    <2>3. CASE st' = [st EXCEPT ![t] = PendingStore(a, w)] /\ mesi' = mesi
      <3> SUFFICES ASSUME NEW u \in Threads, st'[u].state = "SM"
                   PROVE  /\ StWay(u)' \in Ways /\ tag'[StWay(u)'] = st'[u].addr
                          /\ mesi'[StWay(u)'] # "I"
        BY DEF UpgradeHeld
      <3>1. CASE u # t
        <4>1. st'[u] = st[u]
          BY <1>0, <2>3, <3>1 DEF CacheTypeOK
        <4> QED BY <1>0, <1>1, <2>3, <4>1 DEF UpgradeHeld, StWay
      <3>2. CASE u = t
        <4>1. st'[u] = PendingStore(a, w)
          BY <1>0, <2>3, <3>2 DEF CacheTypeOK
        <4>2. w \in Ways /\ st'[u].way = w /\ st'[u].addr = a
          BY <4>1 DEF PendingStore
        <4>3. StWay(u)' = w
          BY <4>2, StWayIs DEF StWay
        <4>4. w # NoWay
          BY <1>0, <4>2, TagCheckFacts
        <4> QED BY <1>0, <2>1, <2>3, <4>2, <4>3, <4>4
      <3> QED BY <3>1, <3>2
    <2> QED BY <1>3, <2>1, <2>2, <2>3 DEF Store
  <1> QED BY <1>2, <1>3

LEMMA HeldNext ==
    ASSUME Pinned, CacheInv, CacheInv', UpgradeHeld, [Next]_vars
    PROVE  UpgradeHeld'
  <1>0. CacheTypeOK /\ CacheTypeOK' /\ OneMshr
    BY DEF CacheInv, MapInv
  <1>1. \A u \in Threads :
           /\ st[u].way \in Ways
           /\ st[u].state = "SM" => /\ mesi[st[u].way] # "I"
                                    /\ tag[st[u].way] = st[u].addr
    BY <1>0, StWayHere DEF UpgradeHeld
  <1>2. CASE UNCHANGED vars \/ \E a \in Tags : SelfInvalidate(a)
    <2>1. UNCHANGED <<tag, mesi, st>>
      BY <1>2 DEF vars, SelfInvalidate
    <2> QED BY <1>0, <1>1, <2>1, HeldStays
  <1>3. ASSUME NEW t \in Threads, NEW a \in Tags, CoreRequest(t, a)
        PROVE  UpgradeHeld'
    <2>1. CASE \E x \in L1Ways : Load(t, a, x)
      <3>1. UNCHANGED <<tag, mesi, st>>
        BY <2>1 DEF Load
      <3> QED BY <1>0, <1>1, <3>1, HeldStays
    <2>2. CASE LoadNc(t, a) \/ Writethrough(t, a)
      <3>1. /\ tag' = tag /\ ~MshrMatch(a)
            /\ \A w \in Ways : tag[w] # a => mesi'[w] = mesi[w]
        BY <2>2, Dropped DEF LoadNc, Writethrough, CacheInv
      <3>2. \A u \in Threads : st'[u].state = "SM" => st'[u] = st[u]
        BY <1>0, <2>2 DEF LoadNc, Writethrough, CacheTypeOK
      <3>3. \A u \in Threads : st[u].state # "FREE" => st[u].addr # a
        BY <3>1, NoMatch
      <3> QED BY <1>0, <1>1, <3>1, <3>2, <3>3, HeldStays
    <2>3. CASE StoreHitsMshr(t, a) \/ Store(t, a)
      BY <2>3, HeldStore
    <2> QED BY <1>3, <2>1, <2>2, <2>3 DEF CoreRequest
  <1>4. ASSUME NEW w \in Ways, LineFlush(w)
        PROVE  UpgradeHeld'
    <2>1. /\ tag' = tag /\ st' = st
          /\ mesi' = mesi \/ mesi' = [mesi EXCEPT ![w] = "I"]
          /\ \A u \in Threads : st[u].state = "SM" => st[u].way # w
      BY <1>4 DEF LineFlush, Invalidate, MayDisplace, Pinned
    <2>2. \A v \in Ways : v # w => mesi'[v] = mesi[v]
      BY <1>0, <2>1 DEF CacheTypeOK
    <2> QED BY <1>0, <1>1, <2>1, <2>2, HeldStays
  <1>5. ASSUME NEW a \in Tags, Invalidation(a)
        PROVE  UpgradeHeld'
    <2>1. tag' = tag /\ \A w \in Ways : tag[w] # a => mesi'[w] = mesi[w]
      BY <1>5, Dropped DEF Invalidation, CacheInv
    <2>2. ASSUME NEW u \in Threads, st'[u].state = "SM"
          PROVE  st'[u] = st[u] /\ st[u].addr # a
      <3>1. st[u] \in StoreMshrs /\ st' = StAfterInval(a)
        BY <1>0, <1>5 DEF CacheTypeOK, Invalidation
      <3> QED BY <2>2, <3>1 DEF StAfterInval, StBufMatch, StoreMshrs
    <2> QED BY <1>0, <1>1, <2>1, <2>2, HeldStays
  <1>6. ASSUME NEW a \in Tags, Downgrade(a)
        PROVE  UpgradeHeld'
    <2>1. /\ tag' = tag /\ st' = st
          /\ mesi' = mesi \/ \E w : mesi' = [mesi EXCEPT ![w] = "S"]
      BY <1>6 DEF Downgrade
    <2>2. \A v \in Ways : mesi[v] # "I" => mesi'[v] # "I"
      BY <1>0, <2>1 DEF CacheTypeOK
    <2> QED BY <1>0, <1>1, <2>1, <2>2, HeldStays
  <1>7. ASSUME NEW t \in Threads, NEW w \in Ways,
               FillStore(t, w) \/ \E s \in {"S", "E"} : FillLoad(t, s, w)
        PROVE  UpgradeHeld'
    <2>1. \A u \in Threads : st[u].state = "SM" => st[u].way # w
      BY <1>7 DEF FillStore, FillLoad, MayDisplace, Pinned
    <2>2. \A v \in Ways : v # w => tag'[v] = tag[v] /\ mesi'[v] = mesi[v]
      BY <1>0, <1>7 DEF FillStore, FillLoad, CacheTypeOK
    <2>3. ASSUME NEW u \in Threads, st'[u].state = "SM"
          PROVE  st'[u] = st[u]
      <3>1. ASSUME NEW a
            PROVE  StAfterEvict(a, w)[u] = st[u] \/ StAfterEvict(a, w)[u].state = "IM"
        <4>1. st[u] \in StoreMshrs
          BY <1>0 DEF CacheTypeOK
        <4> QED BY <4>1 DEF StAfterEvict, StoreMshrs
      <3>2. \E a : st' = StAfterEvict(a, w) \/ st' = [StAfterEvict(a, w) EXCEPT ![t] = NoSt]
        BY <1>7 DEF FillStore, FillLoad
      <3>3. PICK a : st' = StAfterEvict(a, w)
                       \/ st' = [StAfterEvict(a, w) EXCEPT ![t] = NoSt]
        BY <3>2
      <3>4. StAfterEvict(a, w) \in [Threads -> StoreMshrs]
        BY <1>0, MshrTypes
      <3>5. st'[u] = NoSt \/ st'[u] = StAfterEvict(a, w)[u]
        BY <3>3, <3>4
      <3> QED BY <2>3, <3>1, <3>5 DEF NoSt
    <2> QED BY <1>0, <1>1, <2>1, <2>2, <2>3, HeldStays
  <1>8. ASSUME NEW t \in Threads, UpgradeAck(t) \/ AckNc(t) \/ AckWritethrough(t)
        PROVE  UpgradeHeld'
    <2>1. /\ tag' = tag
          /\ mesi' = mesi \/ \E w : mesi' = [mesi EXCEPT ![w] = "M"]
          /\ st' = st \/ st' = [st EXCEPT ![t] = NoSt]
      BY <1>8 DEF UpgradeAck, AckNc, AckWritethrough
    <2>2. \A v \in Ways : mesi[v] # "I" => mesi'[v] # "I"
      BY <1>0, <2>1 DEF CacheTypeOK
    <2>3. \A u \in Threads : st'[u].state = "SM" => st'[u] = st[u]
      BY <1>0, <2>1 DEF CacheTypeOK, NoSt
    <2> QED BY <1>0, <1>1, <2>1, <2>2, <2>3, HeldStays
  <1> QED BY <1>2, <1>3, <1>4, <1>5, <1>6, <1>7, <1>8 DEF Next, L2Answer

(* With the ways of pending upgrades kept and named in full, each of them  *)
(* still holds its line when the L2's answer arrives.                      *)
THEOREM UpgradesHeld ==
    ASSUME Pinned
    PROVE  Spec => [](CacheInv /\ UpgradeHeld)
  <1>1. CacheInv /\ UpgradeHeld /\ [Next]_vars => (CacheInv /\ UpgradeHeld)'
    BY CacheNext, HeldNext
  <1> QED BY <1>1, CacheInit, PTL DEF Spec

(* So a line is in at most one way, and in none while it is asked for.     *)
THEOREM LinesOnce ==
    ASSUME Pinned
    PROVE  Spec => []LineOnce
  <1>1. CacheInv => LineOnce
    BY LineOnceParts DEF CacheInv
  <1> QED BY <1>1, UpgradesHeld, PTL

(* So every L1 copy has seen every store its line takes and no other, and  *)
(* only a store merged into a write-through's MSHR is lost.                *)
THEOREM L1CopiesFresh ==
    ASSUME Pinned
    PROVE  Spec => []L1Fresh
  <1>1. CacheInv => L1Fresh
    BY DEF CacheInv, CopiesFresh, StoresKept, L1Fresh
  <1> QED BY <1>1, UpgradesHeld, PTL

(* So the answer to an upgrade writes the line that asked for it.          *)
THEOREM UpgradeWritesItsLine ==
    ASSUME Pinned
    PROVE  Spec => []UpgradeHitsItsLine
  <1>1. UpgradeHeld => UpgradeHitsItsLine
    BY DEF UpgradeHeld, UpgradeHitsItsLine
  <1> QED BY <1>1, UpgradesHeld, PTL

(* So write permission is never invented.                                  *)
THEOREM GrantNeeded ==
    ASSUME Pinned
    PROVE  Spec => WritableNeedsGrant
  BY UpgradesHeld, GrantWhileHeld, PTL
=============================================================================
