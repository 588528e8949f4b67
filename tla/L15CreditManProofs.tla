------------------------- MODULE L15CreditManProofs -------------------------
(***************************************************************************)
(* Proofs about L15CreditMan for every number of slots, threads and PCX    *)
(* request types.                                                          *)
(***************************************************************************)
EXTENDS L15CreditMan, TLAPS, FiniteSetTheorems, FunctionTheorems

-----------------------------------------------------------------------------
(* Arithmetic of the credit counters. *)

(* The 5-bit subtraction of the S1 stall logic decides what its comment    *)
(* says it decides: creditman_noc1_avail <= creditman_noc1_reserve.        *)
LEMMA CreditCheck ==
    ASSUME avail \in 0..15, reserve \in 0..15
    PROVE  /\ command_buffer_1_unavail <=> avail <= reserve
           /\ command_buffer_2_unavail <=> avail <= reserve + 1
  <1>1. CASE avail >= reserve
    <2>1. stall_tmp_result = 16 + avail - reserve
      BY <1>1 DEF stall_tmp_result
    <2>2. stall_tmp_result % 16 = avail - reserve
      BY <2>1, <1>1
    <2> QED BY <1>1, <2>1, <2>2
            DEF command_buffer_1_unavail, command_buffer_2_unavail
  <1>2. CASE avail < reserve
    <2>1. stall_tmp_result = 16 + avail - reserve
      BY <1>2 DEF stall_tmp_result
    <2> QED BY <1>2, <2>1
            DEF command_buffer_1_unavail, command_buffer_2_unavail
  <1> QED BY <1>1, <1>2

Bit(b) == IF b THEN 1 ELSE 0

(* The add/minus signals of creditman implement the sum of what comes back *)
(* and what is taken, as long as the sum fits the register.                *)
LEMMA AvailNext ==
    ASSUME avail \in 0..15, NEW sent \in BOOLEAN, NEW needed \in 0..2,
           avail + Bit(sent) + Bit(mispredicted_s3) <= 15 + needed,
           needed <= avail + Bit(sent) + Bit(mispredicted_s3)
    PROVE  avail_next(sent, needed)
               = avail + Bit(sent) + Bit(mispredicted_s3) - needed
  <1>1. CASE sent /\ mispredicted_s3
    BY <1>1 DEF avail_next, Bit
  <1>2. CASE sent /\ ~mispredicted_s3
    <2>1. CASE needed = 0 BY <1>2, <2>1 DEF avail_next, Bit
    <2>2. CASE needed = 1 BY <1>2, <2>2 DEF avail_next, Bit
    <2>3. CASE needed = 2 BY <1>2, <2>3 DEF avail_next, Bit
    <2> QED BY <2>1, <2>2, <2>3
  <1>3. CASE ~sent /\ mispredicted_s3
    <2>1. CASE needed = 0 BY <1>3, <2>1 DEF avail_next, Bit
    <2>2. CASE needed = 1 BY <1>3, <2>2 DEF avail_next, Bit
    <2>3. CASE needed = 2 BY <1>3, <2>3 DEF avail_next, Bit
    <2> QED BY <2>1, <2>2, <2>3
  <1>4. CASE ~sent /\ ~mispredicted_s3
    <2>1. CASE needed = 0 BY <1>4, <2>1 DEF avail_next, Bit
    <2>2. CASE needed = 1 BY <1>4, <2>2 DEF avail_next, Bit
    <2>3. CASE needed = 2 BY <1>4, <2>3 DEF avail_next, Bit
    <2> QED BY <2>1, <2>2, <2>3
  <1> QED BY <1>1, <1>2, <1>3, <1>4

-----------------------------------------------------------------------------
(* One clock cycle, whatever S1 fetches. *)

(* What every fetch guarantees of the arguments it passes to Cycle.        *)
Fetched(i1, needed, data, unreserve, alloc, class, resp) ==
    /\ i1 \in Instructions /\ StageOK(i1)
    /\ needed \in 0..2 /\ data \in 0..2 /\ unreserve \in BOOLEAN
    /\ class \in Classes
    /\ alloc \in MshrIds \cup {NoMshr}
    /\ alloc \in MshrIds =>
          /\ mshr[alloc] = "FREE" /\ i1.id = alloc
          /\ \/ i1.noc1 = "IF_MISS" /\ class = "CACHEABLE"
             \/ i1.noc1 = "ALWAYS" /\ class = "PLAIN"
    /\ resp \in MshrIds \cup {NoMshr}
    /\ resp \in MshrIds => pend[resp] = "SENT"
    /\ unreserve <=> resp \in MshrIds /\ mshr[resp] = "CACHEABLE"
    /\ i1.id \in MshrIds /\ alloc = NoMshr =>
          i1.noc1 = "NONE" /\ i1.id \in {resp, noc2}
    /\ avail >= needed + Cardinality(InFlight \ {resp})

Inv ==
    /\ TypeOK /\ CreditConservation /\ ReserveExact /\ EvictionHasCredit
    /\ RequestHasMshr /\ IndInv

(* A stalled or staled S3 neither mispredicts nor reserves.                *)
LEMMA StallFacts ==
    ASSUME TypeOK, StageInv, NEW stall \in BOOLEAN, StallPossible(stall)
    PROVE  /\ stall => s3.wait # "NONE"
           /\ mispredicted_s3 => ~staled /\ ~stall
           /\ reserve_s3 => ~staled /\ ~stall
           /\ stall /\ staled => s3.id = NoMshr
  BY DEF TypeOK, StageInv, StageOK, StallPossible, mispredicted_s3, reserve_s3,
         Instructions

LEMMA CycleStage ==
    ASSUME StageInv, NEW stall \in BOOLEAN, NEW sent \in BOOLEAN,
           NEW i1, NEW needed, NEW data, NEW unreserve, NEW alloc, NEW class,
           NEW resp, StageOK(i1),
           Cycle(stall, sent, i1, needed, data, unreserve, alloc, class, resp)
    PROVE  StageInv'
  <1>1. s2' \in {s2, i1} /\ s3' \in {s2, s3}
    BY DEF Cycle
  <1>3. StageOK(s2)
    BY DEF StageInv
  <1>4. StageOK(s2')
    BY <1>1, <1>3
  <1>5. StageOK(s3')
    BY <1>1, <1>3 DEF StageInv
  <1>2. staled' => s3'.wait # "NONE"
    BY DEF StageInv, Cycle, StallPossible
  <1> QED BY <1>2, <1>4, <1>5 DEF StageInv

LEMMA CycleType ==
    ASSUME TypeOK, NEW stall \in BOOLEAN, NEW sent \in BOOLEAN,
           NEW i1 \in Instructions, NEW needed \in 0..2, NEW data \in 0..2,
           NEW unreserve \in BOOLEAN, NEW alloc, NEW class \in Classes,
           NEW resp,
           Cycle(stall, sent, i1, needed, data, unreserve, alloc, class, resp)
    PROVE  /\ avail' \in 0..15 /\ data_avail' \in 0..15 /\ reserve' \in 0..15
           /\ s2' \in Instructions /\ s3' \in Instructions /\ staled' \in BOOLEAN
           /\ noc1buffer' \in Seq(Commands)
           /\ mshr' \in [MshrIds -> Classes]
           /\ pend' \in [MshrIds -> {"NONE", "QUEUED", "SENT"}]
  <1> USE DEF TypeOK
  <1>1. avail' \in 0..15
    BY DEF Cycle, avail_next
  <1>2. data_avail' \in 0..15
    <2>1. \A up : data_avail_next(up, data) \in 0..15
      BY DEF data_avail_next
    <2> QED BY <2>1 DEF Cycle
  <1>3. reserve' \in 0..15
    BY DEF Cycle, reserve_next
  <1>4. s2' \in Instructions /\ s3' \in Instructions /\ staled' \in BOOLEAN
    BY DEF Cycle
  <1>5. noc1buffer' \in Seq(Commands)
    <2>1. Command \in Commands
      BY DEF Command, Commands, Instructions
    <2> QED BY <2>1 DEF Cycle
  <1>6. mshr' \in [MshrIds -> Classes]
    BY DEF Cycle, Classes
  <1>7. pend' \in [MshrIds -> {"NONE", "QUEUED", "SENT"}]
    BY DEF Cycle
  <1> QED BY <1>1, <1>2, <1>3, <1>4, <1>5, <1>6, <1>7

(* How a cycle changes the owner of each MSHR.                             *)
LEMMA CycleIds ==
    ASSUME Inv, NEW stall \in BOOLEAN, NEW sent \in BOOLEAN,
           NEW i1, NEW needed, NEW data, NEW unreserve, NEW alloc, NEW class,
           NEW resp,
           Fetched(i1, needed, data, unreserve, alloc, class, resp),
           Cycle(stall, sent, i1, needed, data, unreserve, alloc, class, resp),
           NEW id \in MshrIds
    PROVE  /\ sent /\ Head(noc1buffer).id = id => pend[id] = "QUEUED"
           /\ noc1buffer_req_val /\ s3.id = id =>
                 pend[id] = "NONE" /\ mshr[id] # "FREE" /\ ~s3.dealloc
           /\ alloc = id => pend[id] = "NONE"
           /\ pend'[id] = IF noc1buffer_req_val /\ s3.id = id THEN "QUEUED"
                          ELSE IF sent /\ Head(noc1buffer).id = id THEN "SENT"
                          ELSE IF id = resp THEN "NONE"
                          ELSE pend[id]
           /\ mshr'[id] = IF id = alloc THEN class
                          ELSE IF s3.dealloc /\ s3.id = id THEN "FREE"
                          ELSE mshr[id]
  <1>1. sent /\ Head(noc1buffer).id = id => pend[id] = "QUEUED"
    <2> SUFFICES ASSUME sent, Head(noc1buffer).id = id
                 PROVE  pend[id] = "QUEUED"
      OBVIOUS
    <2>1. noc1buffer \in Seq(Commands) /\ noc1buffer # << >>
      BY DEF Cycle, Inv, TypeOK
    <2>2. Head(noc1buffer) = noc1buffer[1] /\ 1 \in 1..Len(noc1buffer)
      BY <2>1
    <2> QED BY <2>2 DEF Inv, IndInv, BufferInv
  <1>2. noc1buffer_req_val /\ s3.id = id =>
           pend[id] = "NONE" /\ mshr[id] # "FREE" /\ ~s3.dealloc
    BY NoMshrAssumption
       DEF noc1buffer_req_val, Inv, TypeOK, Instructions, IndInv, StageInv,
           StageOK, OwnerInv, ClassOK, Bubble, Instr
  <1>3. alloc = id => pend[id] = "NONE"
    BY DEF Fetched, Inv, RequestHasMshr
  <1> QED BY <1>1, <1>2, <1>3 DEF Cycle

LEMMA CycleRequestHasMshr ==
    ASSUME Inv, NEW stall \in BOOLEAN, NEW sent \in BOOLEAN,
           NEW i1, NEW needed, NEW data, NEW unreserve, NEW alloc, NEW class,
           NEW resp,
           Fetched(i1, needed, data, unreserve, alloc, class, resp),
           Cycle(stall, sent, i1, needed, data, unreserve, alloc, class, resp)
    PROVE  RequestHasMshr'
  <1> SUFFICES ASSUME NEW id \in MshrIds, pend'[id] # "NONE"
               PROVE  mshr'[id] # "FREE"
    BY DEF RequestHasMshr
  <1>1. id = alloc => class # "FREE"
    BY DEF Fetched
  <1>2. s3.id = id => pend[id] = "NONE"
    BY DEF Inv, IndInv, OwnerInv, ClassOK
  <1>3. pend[id] # "NONE" => mshr[id] # "FREE"
    BY DEF Inv, RequestHasMshr
  <1> QED BY <1>1, <1>2, <1>3, CycleIds

LEMMA CycleOwner ==
    ASSUME Inv, NEW stall \in BOOLEAN, NEW sent \in BOOLEAN,
           NEW i1, NEW needed, NEW data, NEW unreserve, NEW alloc, NEW class,
           NEW resp,
           Fetched(i1, needed, data, unreserve, alloc, class, resp),
           Cycle(stall, sent, i1, needed, data, unreserve, alloc, class, resp),
           noc2' \in {NoMshr, noc2, resp},
           i1.id \in MshrIds => i1.id # noc2',
           noc2' \in MshrIds /\ noc2' = resp => mshr[resp] = "CACHEABLE"
    PROVE  OwnerInv'
  <1>0. /\ s2 \in Instructions /\ s3 \in Instructions /\ staled \in BOOLEAN
        /\ StageOK(s2) /\ StageOK(s3) /\ i1 \in Instructions /\ StageOK(i1)
    BY DEF Inv, TypeOK, IndInv, StageInv, Fetched
  <1>1. ASSUME NEW id \in MshrIds, id # s3.id, pend[id] = "NONE"
        PROVE  pend'[id] = "NONE"
    BY <1>1, CycleIds
  <1>2. ASSUME NEW id \in MshrIds, id # s3.id, id # alloc
        PROVE  mshr'[id] = mshr[id]
    BY <1>2, CycleIds
  <1>3. ASSUME s2.id \in MshrIds
        PROVE  /\ pend'[s2.id] = "NONE" /\ mshr'[s2.id] = mshr[s2.id]
               /\ mshr[s2.id] # "FREE" /\ s2.id # noc2' /\ s2.id # i1.id
    <2>1. /\ pend[s2.id] = "NONE" /\ mshr[s2.id] # "FREE"
          /\ s2.id # s3.id /\ s2.id # noc2
      BY <1>3 DEF Inv, IndInv, OwnerInv, ClassOK
    <2>2. s2.id # alloc /\ s2.id # resp
      BY <1>3, <2>1 DEF Fetched
    <2>3. s2.id # noc2' /\ s2.id # i1.id
      BY <1>3, <2>1, <2>2, NoMshrAssumption DEF Fetched
    <2> QED BY <1>1, <1>2, <1>3, <2>1, <2>2, <2>3
  <1>4. ASSUME i1.id \in MshrIds
        PROVE  /\ pend'[i1.id] = "NONE" /\ mshr'[i1.id] # "FREE"
               /\ i1.noc1 = "IF_MISS" => mshr'[i1.id] = "CACHEABLE"
               /\ i1.noc1 = "ALWAYS" => mshr'[i1.id] = "PLAIN"
               /\ i1.id # s3'.id
    <2>1. CASE alloc = i1.id
      <3>1. mshr[i1.id] = "FREE" /\ pend[i1.id] = "NONE"
        BY <1>4, <2>1, CycleIds DEF Fetched
      <3>2. mshr'[i1.id] = class
        BY <1>4, <2>1, CycleIds
      <3>3. pend'[i1.id] = "NONE"
        BY <1>4, <2>1, <3>1, CycleIds
      <3>4. s3.id = i1.id => staled /\ s3.wait = "BEAT2"
        BY <1>4, <3>1, <1>0, NoMshrAssumption
           DEF Inv, IndInv, OwnerInv, StageInv, StageOK, Instructions
      <3>5. s3.id = i1.id => ~stall
        BY <3>4 DEF Cycle, StallPossible
      <3> QED BY <1>3, <1>4, <2>1, <3>1, <3>2, <3>3, <3>5 DEF Cycle, Fetched
    <2>2. CASE alloc # i1.id
      <3>1. i1.noc1 = "NONE" /\ i1.id \in {resp, noc2} /\ alloc = NoMshr
        BY <1>4, <2>2 DEF Fetched
      <3>2. i1.id # s3.id /\ mshr[i1.id] # "FREE"
        BY <1>4, <3>1
           DEF Fetched, Inv, IndInv, OwnerInv, ClassOK, RequestHasMshr
      <3>3. pend'[i1.id] = "NONE"
        <4>1. CASE i1.id = resp
          BY <1>4, <3>2, <4>1, CycleIds DEF Fetched
        <4>2. CASE i1.id = noc2
          BY <1>4, <3>2, <4>2, <1>1 DEF Inv, IndInv, OwnerInv
        <4> QED BY <3>1, <4>1, <4>2
      <3>4. mshr'[i1.id] = mshr[i1.id]
        BY <1>2, <1>4, <3>2, <2>2
      <3>5. i1.id # s3'.id
        BY <1>3, <1>4, <3>2 DEF Cycle
      <3> QED BY <3>1, <3>2, <3>3, <3>4, <3>5
    <2> QED BY <2>1, <2>2
  <1>5. ASSUME s3.id \in MshrIds, stall
        PROVE  /\ pend'[s3.id] = "NONE" /\ mshr'[s3.id] = "FREE"
               /\ s3.noc1 = "NONE" /\ s3.id # noc2'
    <2>1. s3.wait = "BEAT2" /\ s3.noc1 = "NONE" /\ s3.dealloc /\ ~s3.req
      BY <1>0, <1>5, NoMshrAssumption
         DEF Cycle, StallPossible, StageOK, Instructions
    <2>2. ~staled
      BY <2>1, <1>5 DEF Cycle, StallPossible
    <2>3. pend[s3.id] = "NONE" /\ mshr[s3.id] # "FREE" /\ s3.id # noc2
      BY <2>2, <1>5 DEF Inv, IndInv, OwnerInv, ClassOK
    <2>4. s3.id # alloc /\ s3.id # resp
      BY <1>5, <2>3 DEF Fetched
    <2>7. /\ sent /\ Head(noc1buffer).id = s3.id => pend[s3.id] = "QUEUED"
          /\ pend'[s3.id] = IF noc1buffer_req_val THEN "QUEUED"
                            ELSE IF sent /\ Head(noc1buffer).id = s3.id THEN "SENT"
                            ELSE IF s3.id = resp THEN "NONE"
                            ELSE pend[s3.id]
          /\ mshr'[s3.id] = IF s3.id = alloc THEN class
                            ELSE IF s3.dealloc THEN "FREE"
                            ELSE mshr[s3.id]
      <3> DEFINE x == s3.id
      <3>1. x \in MshrIds
        BY <1>5
      <3> HIDE DEF x
      <3>2. /\ sent /\ Head(noc1buffer).id = x => pend[x] = "QUEUED"
            /\ pend'[x] = IF noc1buffer_req_val /\ s3.id = x THEN "QUEUED"
                            ELSE IF sent /\ Head(noc1buffer).id = x THEN "SENT"
                            ELSE IF x = resp THEN "NONE"
                            ELSE pend[x]
            /\ mshr'[x] = IF x = alloc THEN class
                            ELSE IF s3.dealloc /\ s3.id = x THEN "FREE"
                            ELSE mshr[x]
        BY <3>1, CycleIds
      <3> QED BY <3>2 DEF x
    <2>5. pend'[s3.id] = "NONE"
      BY <2>1, <2>3, <2>4, <2>7 DEF noc1buffer_req_val
    <2>6. mshr'[s3.id] = "FREE"
      BY <2>1, <2>4, <2>7
    <2> QED BY <1>5, <2>1, <2>3, <2>4, <2>5, <2>6, NoMshrAssumption
  <1>6. ASSUME noc2' \in MshrIds
        PROVE  pend'[noc2'] = "NONE" /\ mshr'[noc2'] = "CACHEABLE"
    <2>1. CASE noc2' = resp
      <3>1. noc2' # s3.id /\ noc2' # alloc
        BY <1>6, <2>1, CycleIds DEF Fetched, Inv, IndInv, OwnerInv, ClassOK
      <3>2. mshr'[noc2'] = mshr[resp]
        BY <1>2, <1>6, <2>1, <3>1
      <3>3. pend'[noc2'] = "NONE"
        BY <1>6, <2>1, <3>1, CycleIds DEF Fetched
      <3> QED BY <1>6, <2>1, <3>2, <3>3
    <2>2. CASE noc2' = noc2
      <3>1. noc2 # s3.id /\ pend[noc2] = "NONE" /\ mshr[noc2] = "CACHEABLE"
        BY <1>6, <2>2 DEF Inv, IndInv, OwnerInv
      <3>2. noc2 # alloc
        BY <1>6, <2>2, <3>1 DEF Fetched
      <3> QED BY <1>1, <1>2, <1>6, <2>2, <3>1, <3>2
    <2> QED BY <1>6, <2>1, <2>2, NoMshrAssumption
  <1>7. s2' \in {s2, i1} /\ (s2' = s2 /\ s2' # i1 => stall /\ s3' = s3)
    BY DEF Cycle, stall_s2
  <1>8. IF stall THEN s3' = s3 /\ staled' ELSE s3' = s2 /\ ~staled'
    BY DEF Cycle
  <1>9. ClassOK(s2)'
    BY <1>3, <1>4, <1>7 DEF ClassOK, Inv, IndInv, OwnerInv
  <1>10. ClassOK(s3)'
    BY <1>3, <1>5, <1>8 DEF ClassOK, Inv, IndInv, OwnerInv
  <1>11. s2'.id \in MshrIds => mshr'[s2'.id] # "FREE" /\ s2'.id \notin {s3'.id, noc2'}
    BY <1>3, <1>4, <1>7 DEF Inv, IndInv, OwnerInv
  <1>12. s3'.id \in MshrIds =>
            /\ s3'.id # noc2'
            /\ mshr'[s3'.id] = "FREE" <=> staled'
    BY <1>3, <1>5, <1>8
  <1> QED BY <1>6, <1>9, <1>10, <1>11, <1>12 DEF OwnerInv

(* noc1buffer stays a queue of requests with one command per MSHR.         *)
LEMMA CycleBuffer ==
    ASSUME Inv, NEW stall \in BOOLEAN, NEW sent \in BOOLEAN,
           NEW i1, NEW needed, NEW data, NEW unreserve, NEW alloc, NEW class,
           NEW resp,
           Fetched(i1, needed, data, unreserve, alloc, class, resp),
           Cycle(stall, sent, i1, needed, data, unreserve, alloc, class, resp)
    PROVE  /\ BufferInv'
           /\ Len(noc1buffer') = Len(noc1buffer) - Bit(sent)
                                 + Bit(noc1buffer_req_val)
           /\ Len(noc1buffer) \in Nat /\ Bit(sent) <= Len(noc1buffer)
  <1> DEFINE off == Bit(sent)
             rest == IF sent THEN Tail(noc1buffer) ELSE noc1buffer
             n == Len(noc1buffer) - off
  <1>0. noc1buffer \in Seq(Commands) /\ Command \in Commands
    BY DEF Inv, TypeOK, Command, Commands, Instructions
  <1>1. off \in {0, 1} /\ n \in Nat /\ Len(noc1buffer) = n + off
    BY <1>0 DEF Bit, Cycle
  <1>2. /\ rest \in Seq(Commands) /\ Len(rest) = n
        /\ \A k \in 1..n : rest[k] = noc1buffer[k + off]
    BY <1>0, <1>1 DEF Bit, Cycle
  <1>3. noc1buffer' = IF noc1buffer_req_val THEN Append(rest, Command) ELSE rest
    BY DEF Cycle
  <1> HIDE DEF rest, off, n
  <1>4. Len(noc1buffer') = n + Bit(noc1buffer_req_val)
    BY <1>0, <1>1, <1>2, <1>3 DEF Bit
  <1>5. ASSUME NEW k \in 1..Len(noc1buffer')
        PROVE  \/ k \in 1..n /\ noc1buffer'[k] = noc1buffer[k + off]
               \/ k = n + 1 /\ noc1buffer_req_val /\ noc1buffer'[k] = Command
    BY <1>0, <1>1, <1>2, <1>3, <1>4 DEF Bit
  <1>6. ASSUME NEW k \in 1..n, noc1buffer[k + off].id \in MshrIds
        PROVE  /\ pend'[noc1buffer[k + off].id] = "QUEUED"
               /\ noc1buffer_req_val => noc1buffer[k + off].id # s3.id
    <2> DEFINE x == noc1buffer[k + off].id
    <2>1. k + off \in 1..Len(noc1buffer)
      BY <1>1
    <2>2. x \in MshrIds /\ pend[x] = "QUEUED"
      BY <2>1, <1>6 DEF Inv, IndInv, BufferInv
    <2>3. sent => Head(noc1buffer).id # x
      <3> SUFFICES ASSUME sent, Head(noc1buffer).id = x PROVE FALSE
        OBVIOUS
      <3>1. off = 1 /\ Head(noc1buffer) = noc1buffer[1]
            /\ 1 \in 1..Len(noc1buffer)
        BY <1>0, <1>1 DEF off, Bit
      <3>2. noc1buffer[1].id = noc1buffer[k + off].id
            /\ noc1buffer[1].id \in MshrIds
        BY <3>1, <2>2
      <3>3. 1 = k + off
        BY <3>1, <3>2, <2>1 DEF Inv, IndInv, BufferInv
      <3> QED BY <3>1, <3>3
    <2>4. s3.id # x
      BY <2>2 DEF Inv, IndInv, OwnerInv, ClassOK
    <2>5. x # resp
      BY <2>2 DEF Fetched
    <2> HIDE DEF x
    <2>6. pend'[x] = "QUEUED"
      BY <2>2, <2>3, <2>4, <2>5, CycleIds
    <2> QED BY <2>4, <2>6 DEF x
  <1>7. noc1buffer_req_val /\ s3.id \in MshrIds => pend'[s3.id] = "QUEUED"
    BY DEF Cycle
  <1>8. \A k \in 1..Len(noc1buffer') :
           noc1buffer'[k].id \in MshrIds => pend'[noc1buffer'[k].id] = "QUEUED"
    BY <1>5, <1>6, <1>7 DEF Command
  <1>9. ASSUME NEW k \in 1..Len(noc1buffer'), NEW l \in 1..Len(noc1buffer'),
               noc1buffer'[k].id \in MshrIds,
               noc1buffer'[k].id = noc1buffer'[l].id
        PROVE  k = l
    <2>0. Command.id = s3.id
      BY DEF Command
    <2>1. CASE k \in 1..n /\ l \in 1..n
      <3>1. noc1buffer[k + off].id \in MshrIds
            /\ noc1buffer[k + off].id = noc1buffer[l + off].id
        BY <1>1, <1>5, <1>9, <2>1
      <3>2. k + off \in 1..Len(noc1buffer) /\ l + off \in 1..Len(noc1buffer)
        BY <1>1, <2>1
      <3>3. k + off = l + off
        BY <3>1, <3>2 DEF Inv, IndInv, BufferInv
      <3> QED BY <1>1, <2>1, <3>3
    <2>2. CASE k = n + 1 /\ l \in 1..n
      <3>1. noc1buffer_req_val /\ noc1buffer'[k] = Command
            /\ noc1buffer'[l] = noc1buffer[l + off]
        BY <1>1, <1>5, <2>2
      <3> QED BY <1>6, <1>9, <2>0, <2>2, <3>1
    <2>3. CASE l = n + 1 /\ k \in 1..n
      <3>1. noc1buffer_req_val /\ noc1buffer'[l] = Command
            /\ noc1buffer'[k] = noc1buffer[k + off]
        BY <1>1, <1>5, <2>3
      <3> QED BY <1>6, <1>9, <2>0, <2>3, <3>1
    <2>4. CASE k = n + 1 /\ l = n + 1
      BY <2>4
    <2>5. (k \in 1..n \/ k = n + 1) /\ (l \in 1..n \/ l = n + 1)
      BY <1>5
    <2> QED BY <2>1, <2>2, <2>3, <2>4, <2>5
  <1>10. BufferInv'
    BY <1>8, <1>9 DEF BufferInv
  <1> QED BY <1>0, <1>1, <1>4, <1>10 DEF n, off

-----------------------------------------------------------------------------
(* The set of misses that hold a reserve, and of those in flight.          *)

LEMMA SetFacts ==
    /\ IsFiniteSet(Reserved) /\ IsFiniteSet(InFlight)
    /\ Cardinality(Reserved) \in 0..15
    /\ Cardinality(InFlight) <= Cardinality(Reserved)
    /\ Cardinality(InFlight) \in Nat
  <1>1. Reserved \subseteq MshrIds /\ InFlight \subseteq Reserved
    BY DEF Reserved, InFlight
  <1>2. IsFiniteSet(Reserved) /\ Cardinality(Reserved) <= Cardinality(MshrIds)
    BY <1>1, FS_Subset, ThreadsAssumption
  <1>3. IsFiniteSet(InFlight) /\ Cardinality(InFlight) <= Cardinality(Reserved)
    BY <1>1, <1>2, FS_Subset
  <1>4. Cardinality(Reserved) \in Nat /\ Cardinality(InFlight) \in Nat
        /\ Cardinality(MshrIds) \in Nat
    BY <1>2, <1>3, FS_CardinalityType, ThreadsAssumption
  <1> QED BY <1>2, <1>3, <1>4, ThreadsAssumption

(* Removing an element changes the cardinality by the bit that says        *)
(* whether it was there.                                                   *)
LEMMA CardRemove ==
    ASSUME NEW S, IsFiniteSet(S), NEW x
    PROVE  /\ IsFiniteSet(S \ {x})
           /\ Cardinality(S \ {x}) = Cardinality(S) - Bit(x \in S)
           /\ Cardinality(S \ {x}) \in Nat
  BY FS_RemoveElement, FS_CardinalityType DEF Bit

LEMMA CardAdd ==
    ASSUME NEW S, IsFiniteSet(S), NEW x
    PROVE  /\ IsFiniteSet(S \cup {x})
           /\ Cardinality(S \cup {x}) = Cardinality(S) + 1 - Bit(x \in S)
  BY FS_AddElement, FS_CardinalityType DEF Bit

(* The reserve counter follows the set it counts.                          *)
LEMMA CycleReserve ==
    ASSUME Inv, NEW stall \in BOOLEAN, NEW sent \in BOOLEAN,
           NEW i1, NEW needed, NEW data, NEW unreserve, NEW alloc, NEW class,
           NEW resp,
           Fetched(i1, needed, data, unreserve, alloc, class, resp),
           Cycle(stall, sent, i1, needed, data, unreserve, alloc, class, resp)
    PROVE  ReserveExact'
  <1>0. s3 \in Instructions /\ staled \in BOOLEAN /\ reserve \in 0..15
        /\ StageOK(s3) /\ unreserve \in BOOLEAN /\ reserve_s3 \in BOOLEAN
    BY DEF Inv, TypeOK, IndInv, StageInv, Fetched, reserve_s3
  <1>1. reserve_s3 => ~staled /\ ~stall /\ noc1buffer_req_val
                      /\ s3.id \in MshrIds /\ mshr[s3.id] = "CACHEABLE"
                      /\ pend[s3.id] = "NONE"
    BY <1>0, StallFacts
       DEF Inv, IndInv, Cycle, reserve_s3, noc1buffer_req_val, StageOK,
           OwnerInv, ClassOK
  <1>2. noc1buffer_req_val /\ s3.id \in MshrIds /\ mshr[s3.id] = "CACHEABLE"
           => reserve_s3
    BY <1>0, NoMshrAssumption
       DEF noc1buffer_req_val, reserve_s3, StageOK, Instructions, Inv, IndInv,
           OwnerInv, ClassOK, Bubble, Instr
  <1>3. unreserve <=> resp \in Reserved
    BY DEF Fetched, Reserved
  <1>4. ASSUME NEW id \in MshrIds
        PROVE  id \in Reserved' <=> \/ id \in Reserved /\ id # resp
                                    \/ reserve_s3 /\ id = s3.id
    <2>1. id \in Reserved' <=> mshr'[id] = "CACHEABLE" /\ pend'[id] # "NONE"
      BY <1>4 DEF Reserved
    <2>2. id \in Reserved <=> mshr[id] = "CACHEABLE" /\ pend[id] # "NONE"
      BY <1>4 DEF Reserved
    <2>3. id = s3.id => pend[id] = "NONE"
      BY <1>4 DEF Inv, IndInv, OwnerInv, ClassOK
    <2>4. id = resp => pend[id] = "SENT"
      BY <1>4 DEF Fetched
    <2>5. CASE id = s3.id
      <3>1. CASE reserve_s3
        <4>1. mshr'[id] = "CACHEABLE" /\ pend'[id] = "QUEUED"
          BY <1>1, <1>4, <2>5, <3>1, CycleIds DEF Fetched
        <4> QED BY <2>1, <2>5, <3>1, <4>1
      <3>2. CASE ~reserve_s3
        <4>1. mshr'[id] # "CACHEABLE" \/ pend'[id] = "NONE"
          <5>1. CASE noc1buffer_req_val
            BY <1>2, <1>4, <2>5, <3>2, <5>1, CycleIds DEF Fetched
          <5>2. CASE ~noc1buffer_req_val
            BY <1>4, <2>3, <2>5, <5>2, CycleIds
          <5> QED BY <5>1, <5>2
        <4> QED BY <2>1, <2>2, <2>3, <2>5, <3>2, <4>1
      <3> QED BY <3>1, <3>2
    <2>6. CASE id # s3.id
      <3>1. CASE id = resp
        <4>1. pend'[id] = "NONE"
          BY <1>4, <2>4, <2>6, <3>1, CycleIds
        <4> QED BY <2>1, <2>6, <3>1, <4>1
      <3>2. CASE id # resp
        <4>1. (pend'[id] = "NONE") <=> (pend[id] = "NONE")
          BY <1>4, <2>6, <3>2, CycleIds
        <4>2. pend[id] # "NONE" => mshr'[id] = mshr[id]
          BY <1>4, <2>6, CycleIds
        <4> QED BY <2>1, <2>2, <2>6, <3>2, <4>1, <4>2
      <3> QED BY <3>1, <3>2
    <2> QED BY <2>5, <2>6
  <1>5. Reserved' = IF reserve_s3 THEN (Reserved \ {resp}) \cup {s3.id}
                    ELSE Reserved \ {resp}
    <2>1. Reserved' \subseteq MshrIds /\ Reserved \subseteq MshrIds
      BY DEF Reserved
    <2> QED BY <1>1, <1>4, <2>1
  <1>6. reserve_s3 => s3.id \notin Reserved
    BY <1>1 DEF Reserved
  <1>7. /\ IsFiniteSet(Reserved \ {resp})
        /\ Cardinality(Reserved \ {resp}) = reserve - Bit(unreserve)
    BY <1>3, CardRemove, SetFacts DEF Inv, ReserveExact, Bit
  <1>8. Cardinality(Reserved') = reserve - Bit(unreserve) + Bit(reserve_s3)
    <2>1. CASE reserve_s3
      <3>1. s3.id \notin Reserved \ {resp}
        BY <1>6, <2>1
      <3>2. Cardinality((Reserved \ {resp}) \cup {s3.id})
               = Cardinality(Reserved \ {resp}) + 1
        BY <1>7, <3>1, FS_AddElement
      <3> QED BY <1>0, <1>5, <1>7, <2>1, <3>2 DEF Bit
    <2>2. CASE ~reserve_s3
      BY <1>0, <1>5, <1>7, <2>2 DEF Bit
    <2> QED BY <1>0, <2>1, <2>2
  <1>9. Cardinality(Reserved') \in 0..15
    <2>1. Reserved' \subseteq MshrIds
      BY DEF Reserved
    <2>2. IsFiniteSet(Reserved') /\ Cardinality(Reserved') <= Cardinality(MshrIds)
      BY <2>1, FS_Subset, ThreadsAssumption
    <2> QED BY <2>2, FS_CardinalityType, ThreadsAssumption
  <1>10. reserve' = Cardinality(Reserved')
    <2>1. reserve' = reserve_next(stall, unreserve)
      BY DEF Cycle
    <2>2. CASE reserve_s3 /\ unreserve
      BY <1>0, <1>1, <1>8, <2>1, <2>2 DEF reserve_next, Bit
    <2>3. CASE reserve_s3 /\ ~unreserve
      BY <1>0, <1>1, <1>8, <1>9, <2>1, <2>3 DEF reserve_next, Bit
    <2>4. CASE ~reserve_s3 /\ unreserve
      BY <1>0, <1>8, <1>9, <2>1, <2>4 DEF reserve_next, Bit
    <2>5. CASE ~reserve_s3 /\ ~unreserve
      BY <1>0, <1>8, <2>1, <2>5 DEF reserve_next, Bit
    <2> QED BY <1>0, <2>2, <2>3, <2>4, <2>5
  <1> QED BY <1>10 DEF ReserveExact

(* The set in flight loses the response and gains at most the command that *)
(* noc1encoder takes.                                                      *)
LEMMA CycleInFlight ==
    ASSUME Inv, NEW stall \in BOOLEAN, NEW sent \in BOOLEAN,
           NEW i1, NEW needed, NEW data, NEW unreserve, NEW alloc, NEW class,
           NEW resp,
           Fetched(i1, needed, data, unreserve, alloc, class, resp),
           Cycle(stall, sent, i1, needed, data, unreserve, alloc, class, resp)
    PROVE  /\ Cardinality(InFlight') \in Nat
           /\ Cardinality(InFlight') <= Cardinality(InFlight \ {resp}) + Bit(sent)
           /\ Cardinality(InFlight \ {resp}) \in Nat
  <1> DEFINE T == InFlight \ {resp}
             x == Head(noc1buffer).id
             U == IF sent THEN T \cup {x} ELSE T
  <1>1. IsFiniteSet(T) /\ Cardinality(T) \in Nat
    BY SetFacts, CardRemove
  <1>2. IsFiniteSet(U) /\ Cardinality(U) <= Cardinality(T) + Bit(sent)
    BY <1>1, CardAdd DEF Bit
  <1>3. ASSUME NEW id \in InFlight'
        PROVE  id \in U
    <2>1. id \in MshrIds /\ mshr'[id] = "CACHEABLE" /\ pend'[id] = "SENT"
      BY <1>3 DEF InFlight
    <2>2. \/ sent /\ x = id
          \/ pend[id] = "SENT" /\ id # resp
      BY <2>1, CycleIds
    <2>3. CASE sent /\ x = id
      BY <2>3
    <2>4. CASE pend[id] = "SENT" /\ id # resp
      <3>1. mshr[id] = "CACHEABLE"
        BY <2>1, <2>4, CycleIds
      <3> QED BY <2>1, <2>4, <3>1 DEF InFlight
    <2> QED BY <2>2, <2>3, <2>4
  <1>4. Cardinality(InFlight') <= Cardinality(U) /\ IsFiniteSet(InFlight')
    <2>1. InFlight' \subseteq U
      BY <1>3
    <2> QED BY <1>2, <2>1, FS_Subset
  <1>5. Cardinality(InFlight') \in Nat /\ Cardinality(U) \in Nat
    BY <1>2, <1>4, FS_CardinalityType
  <1> QED BY <1>1, <1>2, <1>4, <1>5 DEF Bit

(* The available counter: what comes back minus what S1 takes; the credits *)
(* that remain cover the responses in flight; nothing is lost.             *)
LEMMA CycleCredit ==
    ASSUME Inv, NEW stall \in BOOLEAN, NEW sent \in BOOLEAN,
           NEW i1, NEW needed, NEW data, NEW unreserve, NEW alloc, NEW class,
           NEW resp,
           Fetched(i1, needed, data, unreserve, alloc, class, resp),
           Cycle(stall, sent, i1, needed, data, unreserve, alloc, class, resp)
    PROVE  /\ EvictionHasCredit'
           /\ avail' - Cardinality(InFlight')
                 >= avail - needed - Cardinality(InFlight \ {resp})
           /\ avail' + HeldBy(s2') + (IF staled' THEN 0 ELSE HeldBy(s3'))
                 + Len(noc1buffer')
              = avail + HeldBy(s2) + (IF staled THEN 0 ELSE HeldBy(s3))
                 + Len(noc1buffer) + HeldBy(i1) - needed
  <1> DEFINE m == Bit(mispredicted_s3)
             h3 == IF staled THEN 0 ELSE HeldBy(s3)
             q == Bit(noc1buffer_req_val)
  <1>0. /\ s2 \in Instructions /\ s3 \in Instructions /\ staled \in BOOLEAN
        /\ avail \in 0..15 /\ StageOK(s2) /\ StageOK(s3) /\ needed \in 0..2
        /\ avail >= needed + Cardinality(InFlight \ {resp})
    BY DEF Inv, TypeOK, IndInv, StageInv, Fetched
  <1>1. /\ mispredicted_s3 => ~staled /\ ~stall
        /\ stall => s3.wait # "NONE"
        /\ staled => s3.wait # "NONE"
    BY StallFacts DEF Inv, IndInv, Cycle, StageInv
  <1>2. m \in 0..1 /\ Bit(sent) \in 0..1 /\ q \in 0..1
        /\ HeldBy(s2) \in 0..1 /\ HeldBy(s3) \in 0..1 /\ HeldBy(i1) \in 0..1
        /\ h3 \in 0..1
    BY DEF Bit, HeldBy
  <1>3. h3 = m + q
    BY <1>0, <1>1
       DEF Bit, HeldBy, mispredicted_s3, noc1buffer_req_val, StageOK,
           Instructions, Bubble, Instr
  <1>4. Len(noc1buffer) \in Nat /\ Bit(sent) <= Len(noc1buffer)
        /\ Len(noc1buffer') = Len(noc1buffer) - Bit(sent) + q
    BY CycleBuffer
  <1>5. avail + m + Bit(sent) <= NumSlots
    <2>1. avail + CreditsHeld + Len(noc1buffer) = NumSlots
      BY DEF Inv, CreditConservation
    <2>2. CreditsHeld >= h3 /\ CreditsHeld \in Nat
      BY <1>2 DEF CreditsHeld
    <2> QED BY <1>0, <1>2, <1>3, <1>4, <2>1, <2>2, SlotsAssumption
  <1>6. Cardinality(InFlight') \in Nat /\ Cardinality(InFlight \ {resp}) \in Nat
        /\ Cardinality(InFlight') <= Cardinality(InFlight \ {resp}) + Bit(sent)
    BY CycleInFlight
  <1>7. avail' = avail + Bit(sent) + m - needed
    <2>1. avail' = avail_next(sent, needed)
      BY DEF Cycle
    <2>2. avail + Bit(sent) + m <= 15 + needed
      BY <1>0, <1>2, <1>5, SlotsAssumption
    <2>3. needed <= avail + Bit(sent) + m
      BY <1>0, <1>2, <1>6
    <2> QED BY <1>0, <2>1, <2>2, <2>3, AvailNext
  <1>8. avail' - Cardinality(InFlight')
           >= avail - needed - Cardinality(InFlight \ {resp})
    BY <1>0, <1>2, <1>6, <1>7
  <1>9. EvictionHasCredit'
    BY <1>0, <1>2, <1>6, <1>7 DEF EvictionHasCredit
  <1>10. HeldBy(s2') + (IF staled' THEN 0 ELSE HeldBy(s3')) = HeldBy(s2) + HeldBy(i1)
    <2>1. CASE stall
      <3>1. s3' = s3 /\ staled'
        BY <2>1 DEF Cycle
      <3>2. CASE s2 = Bubble
        <4>1. s2' = i1 /\ HeldBy(s2) = 0
          BY <3>2 DEF Cycle, stall_s2, HeldBy, Bubble, Instr
        <4> QED BY <1>2, <3>1, <4>1
      <3>3. CASE s2 # Bubble
        <4>1. s2' = s2 /\ i1 = Bubble
          BY <2>1, <3>3 DEF Cycle, stall_s2
        <4>2. HeldBy(i1) = 0
          BY <4>1 DEF HeldBy, Bubble, Instr
        <4> QED BY <1>2, <3>1, <4>1, <4>2
      <3> QED BY <3>2, <3>3
    <2>2. CASE ~stall
      <3>1. s3' = s2 /\ ~staled' /\ s2' = i1
        BY <2>2 DEF Cycle, stall_s2
      <3> QED BY <1>2, <3>1
    <2> QED BY <2>1, <2>2
  <1> DEFINE h2n == HeldBy(s2')
             h3n == IF staled' THEN 0 ELSE HeldBy(s3')
  <1>11. h2n \in 0..1 /\ h3n \in 0..1 /\ h2n + h3n = HeldBy(s2) + HeldBy(i1)
    BY <1>10 DEF HeldBy
  <1> HIDE DEF m, q, h3, h2n, h3n
  <1>12. avail' + h2n + h3n + Len(noc1buffer')
         = avail + HeldBy(s2) + h3 + Len(noc1buffer) + HeldBy(i1) - needed
    <2>1. avail' = avail + Bit(sent) + m - needed
      BY <1>7
    <2>2. Len(noc1buffer') = Len(noc1buffer) - Bit(sent) + q
      BY <1>4
    <2>3. /\ avail \in Int /\ needed \in Int /\ m \in Int /\ q \in Int
          /\ Bit(sent) \in Int /\ HeldBy(s2) \in Int /\ HeldBy(i1) \in Int
          /\ Len(noc1buffer) \in Int /\ h3 \in Int /\ h2n \in Int /\ h3n \in Int
      BY <1>0, <1>2, <1>4, <1>11
    <2>4. h2n + h3n = HeldBy(s2) + HeldBy(i1)
      BY <1>11
    <2>5. avail' + Len(noc1buffer') = avail + (m + q) + Len(noc1buffer) - needed
      BY <2>1, <2>2, <2>3
    <2>6. avail' + Len(noc1buffer') = avail + h3 + Len(noc1buffer) - needed
      BY <1>3, <2>5
    <2>7. avail' \in Int /\ Len(noc1buffer') \in Int
      BY <2>1, <2>2, <2>3
    <2>8. avail' + h2n + h3n + Len(noc1buffer')
          = (avail' + Len(noc1buffer')) + (h2n + h3n)
      BY <2>3, <2>7
    <2>9. avail + HeldBy(s2) + h3 + Len(noc1buffer) + HeldBy(i1) - needed
          = (avail + h3 + Len(noc1buffer) - needed) + (HeldBy(s2) + HeldBy(i1))
      BY <2>3
    <2> QED BY <2>4, <2>6, <2>8, <2>9
  <1> QED BY <1>8, <1>9, <1>12 DEF h3, h2n, h3n

-----------------------------------------------------------------------------
(* A cycle preserves Inv when the fetch agrees with the fetch state.       *)

\* The credit that the first phase of a two-phase request took for the second.
Second(fs, p) == IF fs = "PCX_WRITEBACK_DONE" /\ p.op \in TwoPhaseOps THEN 1 ELSE 0

FetchType(fs, p, n) ==
    /\ fs \in {"NORMAL", "PCX_WRITEBACK_DONE", "NOC2_WRITEBACK_DONE"}
    /\ p \in [op : AllPcxOps, thread : Threads] \cup {NoReq}
    /\ n \in MshrIds \cup {NoMshr}

LEMMA CycleInv ==
    ASSUME Inv, NEW stall \in BOOLEAN, NEW sent \in BOOLEAN,
           NEW i1, NEW needed, NEW data, NEW unreserve, NEW alloc, NEW class,
           NEW resp,
           Fetched(i1, needed, data, unreserve, alloc, class, resp),
           Cycle(stall, sent, i1, needed, data, unreserve, alloc, class, resp),
           FetchType(fetch_state', pcx', noc2'),
           noc2' \in {NoMshr, noc2, resp},
           i1.id \in MshrIds => i1.id # noc2',
           noc2' \in MshrIds /\ noc2' = resp => mshr[resp] = "CACHEABLE",
           FetchInv',
           needed + Second(fetch_state, pcx)
               = HeldBy(i1) + Second(fetch_state', pcx'),
           fetch_state' = "PCX_WRITEBACK_DONE" /\ pcx'.op = "LINE_FLUSH" =>
               avail - needed - Cardinality(InFlight \ {resp}) >= 1
    PROVE  Inv'
  <1>1. TypeOK'
    <2>1. i1 \in Instructions /\ needed \in 0..2 /\ data \in 0..2
          /\ unreserve \in BOOLEAN /\ class \in Classes
      BY DEF Fetched
    <2>2. /\ avail' \in 0..15 /\ data_avail' \in 0..15 /\ reserve' \in 0..15
          /\ s2' \in Instructions /\ s3' \in Instructions /\ staled' \in BOOLEAN
          /\ noc1buffer' \in Seq(Commands)
          /\ mshr' \in [MshrIds -> Classes]
          /\ pend' \in [MshrIds -> {"NONE", "QUEUED", "SENT"}]
      BY <2>1, CycleType DEF Inv
    <2> QED BY <2>2 DEF TypeOK, FetchType
  <1>2. StageInv'
    <2>1. StageInv /\ StageOK(i1)
      BY DEF Inv, IndInv, Fetched
    <2> QED BY <2>1, CycleStage
  <1>3. OwnerInv'
    BY CycleOwner
  <1>4. BufferInv'
    BY CycleBuffer
  <1>5. RequestHasMshr'
    BY CycleRequestHasMshr
  <1>6. ReserveExact'
    BY CycleReserve
  <1>7. /\ EvictionHasCredit'
        /\ avail' - Cardinality(InFlight')
              >= avail - needed - Cardinality(InFlight \ {resp})
        /\ avail' + HeldBy(s2') + (IF staled' THEN 0 ELSE HeldBy(s3'))
              + Len(noc1buffer')
           = avail + HeldBy(s2) + (IF staled THEN 0 ELSE HeldBy(s3))
              + Len(noc1buffer) + HeldBy(i1) - needed
    BY CycleCredit
  <1>8. FlushInv'
    <2> SUFFICES ASSUME fetch_state' = "PCX_WRITEBACK_DONE",
                        pcx'.op = "LINE_FLUSH"
                 PROVE  avail' >= Cardinality(InFlight') + 1
      BY DEF FlushInv
    <2>1. avail' \in Int /\ Cardinality(InFlight') \in Int /\ avail \in Int
          /\ needed \in Int /\ Cardinality(InFlight \ {resp}) \in Int
      BY <1>1, CycleInFlight DEF TypeOK, Fetched, Inv
    <2> QED BY <1>7, <2>1
  <1>9. CreditConservation'
    <2> DEFINE h2 == HeldBy(s2)
               h3 == IF staled THEN 0 ELSE HeldBy(s3)
               h2n == HeldBy(s2')
               h3n == IF staled' THEN 0 ELSE HeldBy(s3')
               e == Second(fetch_state, pcx)
               en == Second(fetch_state', pcx')
               hi == HeldBy(i1)
               n == Len(noc1buffer)
               nn == Len(noc1buffer')
    <2>1. avail + (h2 + h3 + e) + n = NumSlots
      BY DEF Inv, CreditConservation, CreditsHeld, Second
    <2>2. /\ h2 \in Int /\ h3 \in Int /\ h2n \in Int /\ h3n \in Int
          /\ e \in Int /\ en \in Int /\ hi \in Int
      BY DEF HeldBy, Second
    <2>3. n \in Int /\ nn \in Int /\ avail \in Int /\ avail' \in Int
          /\ needed \in Int
      BY <1>1 DEF TypeOK, Inv, Fetched
    <2>4. needed + e = hi + en
      OBVIOUS
    <2>5. avail' + h2n + h3n + nn = avail + h2 + h3 + n + hi - needed
      BY <1>7
    <2>6. CreditConservation' <=> avail' + (h2n + h3n + en) + nn = NumSlots
      BY DEF CreditConservation, CreditsHeld, Second
    <2> HIDE DEF h2, h3, h2n, h3n, e, en, hi, n, nn
    <2>7. avail' + (h2n + h3n + en) + nn = (avail' + h2n + h3n + nn) + en
      BY <2>2, <2>3
    <2>8. avail + h2 + h3 + n + hi - needed + en = avail + h2 + h3 + n + e
      BY <2>2, <2>3, <2>4
    <2>9. avail + (h2 + h3 + e) + n = avail + h2 + h3 + n + e
      BY <2>2, <2>3
    <2> QED BY <2>1, <2>5, <2>6, <2>7, <2>8, <2>9
  <1> QED BY <1>1, <1>2, <1>3, <1>4, <1>5, <1>6, <1>7, <1>8, <1>9
          DEF Inv, IndInv

(* What S1 may take.                                                       *)
LEMMA Slack ==
    ASSUME Inv
    PROVE  /\ Cardinality(InFlight \ {NoMshr}) = Cardinality(InFlight)
           /\ Cardinality(InFlight) \in Nat /\ Cardinality(InFlight) <= avail
           /\ Cardinality(InFlight) <= reserve
           /\ \A id : Cardinality(InFlight \ {id}) \in Nat
                      /\ Cardinality(InFlight \ {id}) <= avail
           /\ \A id \in InFlight : Cardinality(InFlight \ {id}) + 1 <= avail
           /\ command_buffer_1_unavail <=> avail <= reserve
           /\ command_buffer_2_unavail <=> avail <= reserve + 1
  <1>1. avail \in 0..15 /\ reserve \in 0..15
    BY DEF Inv, TypeOK
  <1>2. /\ IsFiniteSet(InFlight) /\ Cardinality(InFlight) \in Nat
        /\ Cardinality(InFlight) <= reserve /\ Cardinality(InFlight) <= avail
    BY SetFacts DEF Inv, ReserveExact, EvictionHasCredit
  <1>3. InFlight \ {NoMshr} = InFlight
    BY NoMshrAssumption DEF InFlight
  <1>4. \A id : Cardinality(InFlight \ {id}) \in Nat
                /\ Cardinality(InFlight \ {id}) <= avail
    BY <1>1, <1>2, CardRemove DEF Bit
  <1>5. \A id \in InFlight : Cardinality(InFlight \ {id}) + 1 <= avail
    BY <1>1, <1>2, CardRemove DEF Bit
  <1> QED BY <1>1, <1>2, <1>3, <1>4, <1>5, CreditCheck

-----------------------------------------------------------------------------
(* One lemma per kind of fetch. *)

LEMMA NoneFacts ==
    ASSUME NEW id \in MshrIds \cup {NoMshr}, NEW dealloc \in BOOLEAN,
           NEW wait \in {"NONE", "NOC3", "BEAT2"},
           dealloc <=> id \in MshrIds, wait = "NOC3" => id = NoMshr,
           wait = "BEAT2" => id \in MshrIds
    PROVE  LET i == Instr("NONE", FALSE, 0, id, dealloc, wait)
           IN  /\ i \in Instructions /\ StageOK(i) /\ HeldBy(i) = 0
               /\ i.id = id /\ i.noc1 = "NONE"
  BY NoMshrAssumption DEF Instr, Instructions, StageOK, HeldBy

LEMMA BubbleFacts ==
    /\ Bubble \in Instructions /\ StageOK(Bubble) /\ HeldBy(Bubble) = 0
    /\ Bubble.id = NoMshr /\ Bubble.noc1 = "BUBBLE"
  BY NoMshrAssumption DEF Bubble, Instr, Instructions, StageOK, HeldBy

LEMMA GuardFacts ==
    ASSUME NEW dirty \in BOOLEAN
    PROVE  /\ WbGuard(dirty) \in Instructions /\ StageOK(WbGuard(dirty))
           /\ HeldBy(WbGuard(dirty)) = 1
           /\ WbGuard(dirty).id = NoMshr /\ WbGuard(dirty).noc1 = "WB_GUARD"
  BY NoMshrAssumption DEF WbGuard, Instr, Instructions, StageOK, HeldBy

LEMMA RequestFacts ==
    ASSUME NEW id \in MshrIds \cup {NoMshr}, NEW bytes \in 0..2
    PROVE  LET i == Instr("ALWAYS", TRUE, bytes, id, FALSE, "NONE")
           IN  /\ i \in Instructions /\ StageOK(i) /\ HeldBy(i) = 1
               /\ i.id = id /\ i.noc1 = "ALWAYS"
  BY NoMshrAssumption DEF Instr, Instructions, StageOK, HeldBy

LEMMA MissFacts ==
    ASSUME NEW id \in MshrIds, NEW miss \in BOOLEAN
    PROVE  LET i == Instr("IF_MISS", miss, 0, id, ~miss, "NONE")
           IN  /\ i \in Instructions /\ StageOK(i) /\ HeldBy(i) = 1
               /\ i.id = id /\ i.noc1 = "IF_MISS"
  <1>1. ASSUME NEW a \in BOOLEAN, NEW b \in BOOLEAN, b <=> ~a
        PROVE  LET i == Instr("IF_MISS", a, 0, id, b, "NONE")
               IN  /\ i \in Instructions /\ StageOK(i) /\ HeldBy(i) = 1
                   /\ i.id = id /\ i.noc1 = "IF_MISS"
    BY <1>1, NoMshrAssumption DEF Instr, Instructions, StageOK, HeldBy
  <1>2. (~miss) \in BOOLEAN
    OBVIOUS
  <1> QED BY <1>1, <1>2

LEMMA PcxFacts ==
    ASSUME Inv, pcx.op \in AllPcxOps
    PROVE  /\ pcx \in [op : AllPcxOps, thread : Threads]
           /\ mshr_of(pcx) \in MshrIds
           /\ data_needed(pcx.op) \in 0..2
  <1>1. pcx \in [op : AllPcxOps, thread : Threads]
    BY DEF Inv, TypeOK, NoReq, AllPcxOps, TwoPhaseOps
  <1> QED BY <1>1 DEF mshr_of, MshrIds, data_needed

LEMMA NormalFacts ==
    ASSUME Inv, fetch_state = "NORMAL"
    PROVE  /\ noc2 = NoMshr /\ Second(fetch_state, pcx) = 0
           /\ FetchType(fetch_state, pcx, noc2)
  BY DEF Inv, TypeOK, IndInv, FetchInv, Second, FetchType

LEMMA InvIdle ==
    ASSUME Inv, NEW stall \in BOOLEAN, NEW sent \in BOOLEAN, Idle(stall, sent)
    PROVE  Inv'
  <1>1. Cycle(stall, sent, Bubble, 0, 0, FALSE, NoMshr, "FREE", NoMshr)
        /\ UNCHANGED <<fetch_state, pcx, noc2>>
    BY DEF Idle
  <1>2. Fetched(Bubble, 0, 0, FALSE, NoMshr, "FREE", NoMshr)
    BY BubbleFacts, NoMshrAssumption, Slack DEF Fetched, Classes
  <1>3. FetchType(fetch_state', pcx', noc2')
    BY <1>1 DEF Inv, TypeOK, FetchType
  <1>4. FetchInv'
    <2>1. ASSUME NEW id \in MshrIds, mshr[id] = "FREE"
          PROVE  mshr'[id] = "FREE"
      BY <1>1, <2>1, NoMshrAssumption DEF Cycle
    <2>2. pcx.op \in TwoPhaseOps => mshr_of(pcx) \in MshrIds
      BY PcxFacts DEF AllPcxOps
    <2> QED BY <1>1, <2>1, <2>2 DEF Inv, IndInv, FetchInv
  <1>5. fetch_state' = "PCX_WRITEBACK_DONE" /\ pcx'.op = "LINE_FLUSH" =>
           avail - 0 - Cardinality(InFlight \ {NoMshr}) >= 1
    BY <1>1, Slack DEF Inv, IndInv, FlushInv, TypeOK
  <1>6. 0 + Second(fetch_state, pcx) = HeldBy(Bubble) + Second(fetch_state', pcx')
    BY <1>1, BubbleFacts DEF Second
  <1> QED BY <1>1, <1>2, <1>3, <1>4, <1>5, <1>6, CycleInv, BubbleFacts,
             NoMshrAssumption

LEMMA InvPcxCacheable ==
    ASSUME Inv, NEW stall \in BOOLEAN, NEW sent \in BOOLEAN,
           NEW miss \in BOOLEAN, PcxCacheable(stall, sent, miss)
    PROVE  Inv'
  <1> DEFINE id == mshr_of(pcx)
             i1 == Instr("IF_MISS", miss, 0, id, ~miss, "NONE")
  <1>1. /\ Cycle(stall, sent, i1, 1, 0, FALSE, id, "CACHEABLE", NoMshr)
        /\ fetch_state = "NORMAL" /\ pcx.op \in {"LOAD", "STORE"}
        /\ mshr[id] = "FREE" /\ ~command_buffer_1_unavail
        /\ pcx' = NoReq /\ fetch_state' = fetch_state /\ noc2' = noc2
    BY DEF PcxCacheable, PcxFetch, MshrFree, stall_pcx_noc1_buffer, noc1_needed,
           TwoPhaseOps
  <1>2. id \in MshrIds
    BY <1>1, PcxFacts DEF AllPcxOps
  <1>3. i1 \in Instructions /\ StageOK(i1) /\ HeldBy(i1) = 1 /\ i1.id = id
        /\ i1.noc1 = "IF_MISS"
    BY <1>2, MissFacts
  <1>4. noc2 = NoMshr /\ Second(fetch_state, pcx) = 0
    BY <1>1, NormalFacts
  <1> HIDE DEF id, i1
  <1>5. avail >= 1 + Cardinality(InFlight \ {NoMshr})
    BY <1>1, Slack DEF Inv, TypeOK
  <1>6. Fetched(i1, 1, 0, FALSE, id, "CACHEABLE", NoMshr)
    BY <1>1, <1>2, <1>3, <1>5, NoMshrAssumption DEF Fetched, Classes
  <1>7. FetchType(fetch_state', pcx', noc2') /\ FetchInv'
        /\ Second(fetch_state', pcx') = 0
    BY <1>1, <1>4, NoMshrAssumption DEF FetchType, FetchInv, Second
  <1> QED BY <1>1, <1>2, <1>3, <1>4, <1>6, <1>7, CycleInv, NoMshrAssumption

LEMMA InvPcxIfill ==
    ASSUME Inv, NEW stall \in BOOLEAN, NEW sent \in BOOLEAN,
           PcxIfill(stall, sent)
    PROVE  Inv'
  <1> DEFINE id == mshr_of(pcx)
             i1 == Instr("ALWAYS", TRUE, 0, id, FALSE, "NONE")
  <1>1. /\ Cycle(stall, sent, i1, 1, 0, FALSE, id, "PLAIN", NoMshr)
        /\ fetch_state = "NORMAL" /\ pcx.op = "IFILL"
        /\ mshr[id] = "FREE" /\ ~command_buffer_1_unavail
        /\ pcx' = NoReq /\ fetch_state' = fetch_state /\ noc2' = noc2
    BY DEF PcxIfill, PcxFetch, MshrFree, stall_pcx_noc1_buffer, noc1_needed,
           TwoPhaseOps
  <1>2. id \in MshrIds
    BY <1>1, PcxFacts DEF AllPcxOps
  <1>3. i1 \in Instructions /\ StageOK(i1) /\ HeldBy(i1) = 1 /\ i1.id = id
        /\ i1.noc1 = "ALWAYS"
    BY <1>2, NoMshrAssumption DEF Instr, Instructions, StageOK, HeldBy
  <1>4. noc2 = NoMshr /\ Second(fetch_state, pcx) = 0
    BY <1>1, NormalFacts
  <1> HIDE DEF id, i1
  <1>5. avail >= 1 + Cardinality(InFlight \ {NoMshr})
    BY <1>1, Slack DEF Inv, TypeOK
  <1>6. Fetched(i1, 1, 0, FALSE, id, "PLAIN", NoMshr)
    BY <1>1, <1>2, <1>3, <1>5, NoMshrAssumption DEF Fetched, Classes
  <1>7. FetchType(fetch_state', pcx', noc2') /\ FetchInv'
        /\ Second(fetch_state', pcx') = 0
    BY <1>1, <1>4, NoMshrAssumption DEF FetchType, FetchInv, Second
  <1> QED BY <1>1, <1>2, <1>3, <1>4, <1>6, <1>7, CycleInv, NoMshrAssumption

LEMMA InvPcxInterrupt ==
    ASSUME Inv, NEW stall \in BOOLEAN, NEW sent \in BOOLEAN,
           PcxInterrupt(stall, sent)
    PROVE  Inv'
  <1> DEFINE i1 == Instr("ALWAYS", TRUE, 1, NoMshr, FALSE, "NONE")
  <1>1. /\ Cycle(stall, sent, i1, 1, 1, FALSE, NoMshr, "FREE", NoMshr)
        /\ fetch_state = "NORMAL" /\ ~command_buffer_1_unavail
        /\ pcx' = NoReq /\ fetch_state' = fetch_state /\ noc2' = noc2
    BY DEF PcxInterrupt, PcxFetch, stall_pcx_noc1_buffer, noc1_needed,
           TwoPhaseOps
  <1>3. i1 \in Instructions /\ StageOK(i1) /\ HeldBy(i1) = 1 /\ i1.id = NoMshr
        /\ i1.noc1 = "ALWAYS"
    BY NoMshrAssumption DEF Instr, Instructions, StageOK, HeldBy
  <1>4. noc2 = NoMshr /\ Second(fetch_state, pcx) = 0
    BY <1>1, NormalFacts
  <1> HIDE DEF i1
  <1>5. avail >= 1 + Cardinality(InFlight \ {NoMshr})
    BY <1>1, Slack DEF Inv, TypeOK
  <1>6. Fetched(i1, 1, 1, FALSE, NoMshr, "FREE", NoMshr)
    BY <1>1, <1>3, <1>5, NoMshrAssumption DEF Fetched, Classes
  <1>7. FetchType(fetch_state', pcx', noc2') /\ FetchInv'
        /\ Second(fetch_state', pcx') = 0
    BY <1>1, <1>4, NoMshrAssumption DEF FetchType, FetchInv, Second
  <1> QED BY <1>1, <1>3, <1>4, <1>6, <1>7, CycleInv, NoMshrAssumption

LEMMA InvPcxWriteback ==
    ASSUME Inv, NEW stall \in BOOLEAN, NEW sent \in BOOLEAN,
           NEW dirty \in BOOLEAN, PcxWriteback(stall, sent, dirty)
    PROVE  Inv'
  <1> DEFINE id == mshr_of(pcx)
             i1 == WbGuard(dirty)
             bytes == data_needed(pcx.op)
  <1>1. /\ Cycle(stall, sent, i1, 2, bytes, FALSE, NoMshr, "FREE", NoMshr)
        /\ fetch_state = "NORMAL" /\ pcx.op \in TwoPhaseOps
        /\ mshr[id] = "FREE" /\ ~command_buffer_2_unavail
        /\ pcx' = pcx /\ fetch_state' = "PCX_WRITEBACK_DONE" /\ noc2' = noc2
    BY DEF PcxWriteback, PcxFetch, MshrFree, stall_pcx_noc1_buffer, noc1_needed
  <1>2. id \in MshrIds /\ bytes \in 0..2 /\ pcx.op # "LINE_FLUSH"
        /\ pcx \in [op : AllPcxOps, thread : Threads]
    BY <1>1, PcxFacts DEF AllPcxOps, TwoPhaseOps
  <1>3. i1 \in Instructions /\ StageOK(i1) /\ HeldBy(i1) = 1 /\ i1.id = NoMshr
        /\ i1.noc1 = "WB_GUARD"
    BY GuardFacts
  <1>4. noc2 = NoMshr /\ Second(fetch_state, pcx) = 0
    BY <1>1, NormalFacts
  <1>5. avail >= 2 + Cardinality(InFlight \ {NoMshr})
    BY <1>1, Slack DEF Inv, TypeOK
  <1> HIDE DEF i1, bytes
  <1>6. Fetched(i1, 2, bytes, FALSE, NoMshr, "FREE", NoMshr)
    BY <1>1, <1>2, <1>3, <1>5, NoMshrAssumption DEF Fetched, Classes
  <1>7. mshr'[id] = "FREE"
    BY <1>1, <1>2, NoMshrAssumption DEF Cycle
  <1>8. FetchType(fetch_state', pcx', noc2') /\ FetchInv'
        /\ Second(fetch_state', pcx') = 1
    BY <1>1, <1>2, <1>4, <1>7, NoMshrAssumption DEF FetchType, FetchInv, Second
  <1>9. 2 + Second(fetch_state, pcx) = HeldBy(i1) + Second(fetch_state', pcx')
    BY <1>3, <1>4, <1>8
  <1>10. /\ noc2' \in {NoMshr, noc2, NoMshr} /\ ~(i1.id \in MshrIds)
         /\ ~(noc2' \in MshrIds) /\ pcx'.op # "LINE_FLUSH"
    BY <1>1, <1>2, <1>3, <1>4, NoMshrAssumption
  <1> HIDE DEF id
  <1> QED BY <1>1, <1>6, <1>8, <1>9, <1>10, CycleInv

LEMMA InvPcxWritebackDone ==
    ASSUME Inv, NEW stall \in BOOLEAN, NEW sent \in BOOLEAN,
           PcxWritebackDone(stall, sent)
    PROVE  Inv'
  <1> DEFINE id == mshr_of(pcx)
             i1 == Instr("ALWAYS", TRUE, data_needed(pcx.op), id, FALSE, "NONE")
  <1>1. /\ Cycle(stall, sent, i1, 0, 0, FALSE, id, "PLAIN", NoMshr)
        /\ fetch_state = "PCX_WRITEBACK_DONE" /\ pcx.op \in TwoPhaseOps
        /\ pcx' = NoReq /\ fetch_state' = "NORMAL" /\ noc2' = noc2
    BY DEF PcxWritebackDone
  <1>2. id \in MshrIds /\ data_needed(pcx.op) \in 0..2
    BY <1>1, PcxFacts DEF AllPcxOps
  <1>3. i1 \in Instructions /\ StageOK(i1) /\ HeldBy(i1) = 1 /\ i1.id = id
        /\ i1.noc1 = "ALWAYS"
    BY <1>2, RequestFacts
  <1>4. noc2 = NoMshr /\ Second(fetch_state, pcx) = 1 /\ mshr[id] = "FREE"
    BY <1>1 DEF Inv, TypeOK, IndInv, FetchInv, Second
  <1> HIDE DEF id, i1
  <1>6. Fetched(i1, 0, 0, FALSE, id, "PLAIN", NoMshr)
    BY <1>2, <1>3, <1>4, Slack, NoMshrAssumption DEF Fetched, Classes
  <1>7. FetchType(fetch_state', pcx', noc2') /\ FetchInv'
        /\ Second(fetch_state', pcx') = 0
    BY <1>1, <1>4, NoMshrAssumption DEF FetchType, FetchInv, Second
  <1>8. 0 + Second(fetch_state, pcx) = HeldBy(i1) + Second(fetch_state', pcx')
    BY <1>3, <1>4, <1>7
  <1>9. /\ noc2' \in {NoMshr, noc2, NoMshr} /\ i1.id # noc2'
        /\ ~(noc2' \in MshrIds) /\ fetch_state' # "PCX_WRITEBACK_DONE"
    BY <1>1, <1>2, <1>3, <1>4, NoMshrAssumption
  <1> QED BY <1>1, <1>6, <1>7, <1>8, <1>9, CycleInv

LEMMA InvPcxFlush ==
    ASSUME Inv, FlushNeedsSpareCredit, NEW stall \in BOOLEAN,
           NEW sent \in BOOLEAN, PcxFlush(stall, sent)
    PROVE  Inv'
  <1> DEFINE i1 == Instr("NONE", FALSE, 0, NoMshr, FALSE, "NONE")
  <1>1. /\ Cycle(stall, sent, i1, 0, 0, FALSE, NoMshr, "FREE", NoMshr)
        /\ fetch_state = "NORMAL" /\ ~command_buffer_1_unavail
        /\ pcx.op = "LINE_FLUSH"
        /\ pcx' = pcx /\ fetch_state' = "PCX_WRITEBACK_DONE" /\ noc2' = noc2
    BY DEF PcxFlush, PcxFetch
  <1>3. i1 \in Instructions /\ StageOK(i1) /\ HeldBy(i1) = 0 /\ i1.id = NoMshr
    BY NoneFacts, NoMshrAssumption
  <1>4. noc2 = NoMshr /\ Second(fetch_state, pcx) = 0
        /\ pcx.op \notin TwoPhaseOps
        /\ pcx \in [op : AllPcxOps, thread : Threads]
    BY <1>1, NormalFacts, PcxFacts DEF TwoPhaseOps, AllPcxOps
  <1> HIDE DEF i1
  <1>5. avail - 0 - Cardinality(InFlight \ {NoMshr}) >= 1
    BY <1>1, Slack DEF Inv, TypeOK
  <1>6. Fetched(i1, 0, 0, FALSE, NoMshr, "FREE", NoMshr)
    BY <1>3, Slack, NoMshrAssumption DEF Fetched, Classes
  <1>7. FetchType(fetch_state', pcx', noc2') /\ FetchInv'
        /\ Second(fetch_state', pcx') = 0
    BY <1>1, <1>4, NoMshrAssumption DEF FetchType, FetchInv, Second
  <1> QED BY <1>1, <1>3, <1>4, <1>5, <1>6, <1>7, CycleInv, NoMshrAssumption

LEMMA InvPcxFlushDone ==
    ASSUME Inv, NEW stall \in BOOLEAN, NEW sent \in BOOLEAN,
           NEW dirty \in BOOLEAN, PcxFlushDone(stall, sent, dirty)
    PROVE  Inv'
  <1> DEFINE i1 == WbGuard(dirty)
  <1>1. /\ Cycle(stall, sent, i1, 1, 0, FALSE, NoMshr, "FREE", NoMshr)
        /\ fetch_state = "PCX_WRITEBACK_DONE" /\ pcx.op = "LINE_FLUSH"
        /\ pcx' = NoReq /\ fetch_state' = "NORMAL" /\ noc2' = noc2
    BY DEF PcxFlushDone
  <1>3. i1 \in Instructions /\ StageOK(i1) /\ HeldBy(i1) = 1 /\ i1.id = NoMshr
    BY GuardFacts
  <1>4. noc2 = NoMshr /\ Second(fetch_state, pcx) = 0
    BY <1>1 DEF Inv, TypeOK, IndInv, FetchInv, Second, TwoPhaseOps
  <1> HIDE DEF i1
  <1>5. avail >= 1 + Cardinality(InFlight \ {NoMshr})
    BY <1>1, Slack DEF Inv, TypeOK, IndInv, FlushInv
  <1>6. Fetched(i1, 1, 0, FALSE, NoMshr, "FREE", NoMshr)
    BY <1>3, <1>5, NoMshrAssumption DEF Fetched, Classes
  <1>7. FetchType(fetch_state', pcx', noc2') /\ FetchInv'
        /\ Second(fetch_state', pcx') = 0
    BY <1>1, <1>4, NoMshrAssumption DEF FetchType, FetchInv, Second
  <1> QED BY <1>1, <1>3, <1>4, <1>6, <1>7, CycleInv, NoMshrAssumption

LEMMA InvNoCredit ==
    ASSUME Inv, NEW stall \in BOOLEAN, NEW sent \in BOOLEAN,
           \/ PcxOther(stall, sent)
           \/ \E answer \in {"NONE", "NOC3"} : Noc2Forward(stall, sent, answer)
    PROVE  Inv'
  <1>0. PICK wait \in {"NONE", "NOC3"} :
          /\ Cycle(stall, sent, Instr("NONE", FALSE, 0, NoMshr, FALSE, wait),
                   0, 0, FALSE, NoMshr, "FREE", NoMshr)
          /\ fetch_state = "NORMAL"
          /\ pcx' \in {pcx, NoReq} /\ fetch_state' = fetch_state /\ noc2' = noc2
    BY DEF PcxOther, Noc2Forward, PcxFetch
  <1> DEFINE i1 == Instr("NONE", FALSE, 0, NoMshr, FALSE, wait)
  <1>3. i1 \in Instructions /\ StageOK(i1) /\ HeldBy(i1) = 0 /\ i1.id = NoMshr
    BY NoMshrAssumption DEF Instr, Instructions, StageOK, HeldBy
  <1>4. noc2 = NoMshr /\ Second(fetch_state, pcx) = 0
        /\ FetchType(fetch_state, pcx, noc2)
    BY <1>0, NormalFacts
  <1>5. Cycle(stall, sent, i1, 0, 0, FALSE, NoMshr, "FREE", NoMshr)
    BY <1>0
  <1> HIDE DEF i1
  <1>6. Fetched(i1, 0, 0, FALSE, NoMshr, "FREE", NoMshr)
    BY <1>3, Slack, NoMshrAssumption DEF Fetched, Classes
  <1>7. FetchType(fetch_state', pcx', noc2') /\ FetchInv'
        /\ Second(fetch_state', pcx') = 0
    BY <1>0, <1>4, NoMshrAssumption DEF FetchType, FetchInv, Second
  <1> QED BY <1>0, <1>3, <1>4, <1>5, <1>6, <1>7, CycleInv, NoMshrAssumption

LEMMA InvNoc2Evict ==
    ASSUME Inv, NEW stall \in BOOLEAN, NEW sent \in BOOLEAN,
           NEW id \in MshrIds, NEW dirty \in BOOLEAN,
           Noc2Evict(stall, sent, id, dirty)
    PROVE  Inv'
  <1> DEFINE i1 == WbGuard(dirty)
  <1>1. /\ Cycle(stall, sent, i1, 1, 0, TRUE, NoMshr, "FREE", id)
        /\ fetch_state = "NORMAL" /\ pend[id] = "SENT" /\ mshr[id] = "CACHEABLE"
        /\ pcx' = pcx /\ fetch_state' = "NOC2_WRITEBACK_DONE" /\ noc2' = id
    BY DEF Noc2Evict
  <1>3. i1 \in Instructions /\ StageOK(i1) /\ HeldBy(i1) = 1 /\ i1.id = NoMshr
    BY GuardFacts
  <1>4. noc2 = NoMshr /\ Second(fetch_state, pcx) = 0
        /\ FetchType(fetch_state, pcx, noc2)
    BY <1>1, NormalFacts
  <1> HIDE DEF i1
  <1>5. avail >= 1 + Cardinality(InFlight \ {id})
    <2>1. id \in InFlight
      BY <1>1 DEF InFlight
    <2>2. Cardinality(InFlight \ {id}) \in Nat
          /\ Cardinality(InFlight \ {id}) + 1 <= avail
      BY <2>1, Slack
    <2>3. avail \in Nat
      BY DEF Inv, TypeOK
    <2> QED BY <2>2, <2>3
  <1>6. Fetched(i1, 1, 0, TRUE, NoMshr, "FREE", id)
    BY <1>1, <1>3, <1>5, NoMshrAssumption DEF Fetched, Classes
  <1>7. FetchType(fetch_state', pcx', noc2') /\ FetchInv'
        /\ Second(fetch_state', pcx') = 0
    BY <1>1, <1>4, NoMshrAssumption DEF FetchType, FetchInv, Second
  <1> QED BY <1>1, <1>3, <1>4, <1>6, <1>7, CycleInv, NoMshrAssumption

LEMMA InvNoc2Fill ==
    ASSUME Inv, NEW stall \in BOOLEAN, NEW sent \in BOOLEAN,
           Noc2Fill(stall, sent)
    PROVE  Inv'
  <1> DEFINE i1 == Instr("NONE", FALSE, 0, noc2, TRUE, "NONE")
  <1>1. /\ Cycle(stall, sent, i1, 0, 0, FALSE, NoMshr, "FREE", NoMshr)
        /\ fetch_state = "NOC2_WRITEBACK_DONE"
        /\ pcx' = pcx /\ fetch_state' = "NORMAL" /\ noc2' = NoMshr
    BY DEF Noc2Fill
  <1>2. noc2 \in MshrIds /\ Second(fetch_state, pcx) = 0
        /\ FetchType(fetch_state, pcx, noc2)
    BY <1>1 DEF Inv, TypeOK, IndInv, FetchInv, FetchType, Second
  <1>3. i1 \in Instructions /\ StageOK(i1) /\ HeldBy(i1) = 0 /\ i1.id = noc2
        /\ i1.noc1 = "NONE"
    BY <1>2, NoneFacts, NoMshrAssumption
  <1> HIDE DEF i1
  <1>6. Fetched(i1, 0, 0, FALSE, NoMshr, "FREE", NoMshr)
    BY <1>2, <1>3, Slack, NoMshrAssumption DEF Fetched, Classes
  <1>7. FetchType(fetch_state', pcx', noc2') /\ FetchInv'
        /\ Second(fetch_state', pcx') = 0
    BY <1>1, <1>2, NoMshrAssumption DEF FetchType, FetchInv, Second
  <1> QED BY <1>1, <1>2, <1>3, <1>6, <1>7, CycleInv, NoMshrAssumption

LEMMA InvNoc2Release ==
    ASSUME Inv, NEW stall \in BOOLEAN, NEW sent \in BOOLEAN,
           NEW id \in MshrIds, NEW wait \in {"NONE", "BEAT2"},
           NEW unreserve \in BOOLEAN,
           unreserve <=> mshr[id] = "CACHEABLE",
           Cycle(stall, sent, Instr("NONE", FALSE, 0, id, TRUE, wait),
                 0, 0, unreserve, NoMshr, "FREE", id),
           fetch_state = "NORMAL", pend[id] = "SENT",
           UNCHANGED <<fetch_state, pcx, noc2>>
    PROVE  Inv'
  <1> DEFINE i1 == Instr("NONE", FALSE, 0, id, TRUE, wait)
  <1>3. i1 \in Instructions /\ StageOK(i1) /\ HeldBy(i1) = 0 /\ i1.id = id
        /\ i1.noc1 = "NONE"
    BY NoMshrAssumption DEF Instr, Instructions, StageOK, HeldBy
  <1>4. noc2 = NoMshr /\ Second(fetch_state, pcx) = 0
        /\ FetchType(fetch_state, pcx, noc2)
    BY NormalFacts
  <1>5. Cycle(stall, sent, i1, 0, 0, unreserve, NoMshr, "FREE", id)
    OBVIOUS
  <1> HIDE DEF i1
  <1>6. Fetched(i1, 0, 0, unreserve, NoMshr, "FREE", id)
    BY <1>3, Slack, NoMshrAssumption DEF Fetched, Classes
  <1>7. FetchType(fetch_state', pcx', noc2') /\ FetchInv'
        /\ Second(fetch_state', pcx') = 0
    BY <1>4, NoMshrAssumption DEF FetchType, FetchInv, Second
  <1> QED BY <1>3, <1>4, <1>5, <1>6, <1>7, CycleInv, NoMshrAssumption

LEMMA InvPcxPresent ==
    ASSUME Inv, NEW op \in PcxOps, NEW t \in Threads, PcxPresent(op, t)
    PROVE  Inv'
  <1>0. op \in AllPcxOps
    BY PcxOpsAssumption
  <1>1. /\ pcx = NoReq /\ pcx' = [op |-> op, thread |-> t]
        /\ UNCHANGED <<avail, data_avail, reserve, fetch_state, noc2, s2, s3,
                       staled, noc1buffer, mshr, pend>>
    BY DEF PcxPresent
  <1>2. fetch_state # "PCX_WRITEBACK_DONE"
    BY <1>1 DEF Inv, IndInv, FetchInv, NoReq, TwoPhaseOps
  <1>3. TypeOK'
    BY <1>0, <1>1 DEF Inv, TypeOK
  <1>4. Reserved' = Reserved /\ InFlight' = InFlight
    BY <1>1 DEF Reserved, InFlight
  <1>5. CreditConservation' /\ ReserveExact' /\ EvictionHasCredit'
    BY <1>1, <1>2, <1>4 DEF Inv, CreditConservation, CreditsHeld, ReserveExact,
                            EvictionHasCredit
  <1>6. RequestHasMshr' /\ StageInv' /\ OwnerInv' /\ BufferInv'
    BY <1>1 DEF Inv, IndInv, RequestHasMshr, StageInv, OwnerInv, ClassOK,
                BufferInv
  <1>7. FetchInv' /\ FlushInv'
    BY <1>1, <1>2 DEF Inv, IndInv, FetchInv, FlushInv
  <1> QED BY <1>3, <1>5, <1>6, <1>7 DEF Inv, IndInv

LEMMA InvStutter ==
    ASSUME Inv, UNCHANGED vars
    PROVE  Inv'
  <1>1. Reserved' = Reserved /\ InFlight' = InFlight
    BY DEF vars, Reserved, InFlight
  <1> QED BY <1>1 DEF vars, Inv, IndInv, TypeOK, CreditConservation,
             CreditsHeld, ReserveExact, EvictionHasCredit, RequestHasMshr,
             StageInv, OwnerInv, ClassOK, BufferInv, FetchInv, FlushInv

LEMMA InvInit ==
    ASSUME Init
    PROVE  Inv
  <1>1. TypeOK
    <2>1. avail \in 0..15 /\ data_avail \in 0..15 /\ reserve \in 0..15
      BY SlotsAssumption DEF Init
    <2>2. noc1buffer \in Seq(Commands)
      BY DEF Init
    <2>3. s2 \in Instructions /\ s3 \in Instructions
      BY BubbleFacts DEF Init
    <2>4. mshr \in [MshrIds -> Classes]
      BY DEF Init, Classes
    <2>5. pend \in [MshrIds -> {"NONE", "QUEUED", "SENT"}]
      BY DEF Init
    <2> QED BY <2>1, <2>2, <2>3, <2>4, <2>5 DEF Init, TypeOK
  <1>2. Reserved = {} /\ InFlight = {}
    BY DEF Init, Reserved, InFlight
  <1>3. CreditConservation /\ ReserveExact /\ EvictionHasCredit
    BY <1>2, BubbleFacts, FS_EmptySet, SlotsAssumption
       DEF Init, CreditConservation, CreditsHeld, ReserveExact, EvictionHasCredit
  <1>4. RequestHasMshr
    BY DEF Init, RequestHasMshr
  <1>5. IndInv
    BY BubbleFacts, NoMshrAssumption
       DEF Init, IndInv, StageInv, OwnerInv, ClassOK, FetchInv, BufferInv,
           FlushInv
  <1> QED BY <1>1, <1>3, <1>4, <1>5 DEF Inv

LEMMA InvNext ==
    ASSUME Inv, FlushNeedsSpareCredit, Next
    PROVE  Inv'
  <1>1. CASE \E op \in PcxOps, t \in Threads : PcxPresent(op, t)
    BY <1>1, InvPcxPresent
  <1>2. ASSUME NEW stall \in BOOLEAN, NEW sent \in BOOLEAN, Clock(stall, sent)
        PROVE  Inv'
    <2>1. CASE Idle(stall, sent)
      BY <2>1, InvIdle
    <2>2. CASE PcxStep(stall, sent)
      BY <2>2, InvPcxCacheable, InvPcxIfill, InvPcxInterrupt, InvPcxWriteback,
         InvPcxWritebackDone, InvPcxFlush, InvPcxFlushDone, InvNoCredit
         DEF PcxStep
    <2>3. ASSUME NEW id \in MshrIds, Noc2Response(stall, sent, id)
          PROVE  Inv'
      <3>1. CASE \E dirty \in BOOLEAN : Noc2Evict(stall, sent, id, dirty)
        BY <3>1, InvNoc2Evict
      <3>2. CASE Noc2Upgrade(stall, sent, id)
        <4>1. /\ Cycle(stall, sent, Instr("NONE", FALSE, 0, id, TRUE, "NONE"),
                       0, 0, TRUE, NoMshr, "FREE", id)
              /\ fetch_state = "NORMAL" /\ pend[id] = "SENT"
              /\ mshr[id] = "CACHEABLE" /\ UNCHANGED <<fetch_state, pcx, noc2>>
          BY <3>2 DEF Noc2Upgrade
        <4> QED BY <4>1, InvNoc2Release
      <3>3. ASSUME NEW beats \in {"NONE", "BEAT2"},
                   Noc2Ack(stall, sent, id, beats)
            PROVE  Inv'
        <4>1. /\ Cycle(stall, sent, Instr("NONE", FALSE, 0, id, TRUE, beats),
                       0, 0, FALSE, NoMshr, "FREE", id)
              /\ fetch_state = "NORMAL" /\ pend[id] = "SENT"
              /\ mshr[id] # "CACHEABLE" /\ UNCHANGED <<fetch_state, pcx, noc2>>
          BY <3>3 DEF Noc2Ack
        <4> QED BY <4>1, InvNoc2Release
      <3> QED BY <2>3, <3>1, <3>2, <3>3 DEF Noc2Response
    <2>4. CASE Noc2Fill(stall, sent)
      BY <2>4, InvNoc2Fill
    <2>5. CASE \E answer \in {"NONE", "NOC3"} : Noc2Forward(stall, sent, answer)
      BY <2>5, InvNoCredit
    <2> QED BY <1>2, <2>1, <2>2, <2>3, <2>4, <2>5 DEF Clock
  <1> QED BY <1>1, <1>2 DEF Next

-----------------------------------------------------------------------------
(* The data slots.  This part stands alone: it needs neither the credits   *)
(* nor anything of how the core presents its flushes.                      *)

\* The commands of a buffer that take at least n data slots.
Uses(b, n) == {k \in 1..Len(b) : b[k].bytes >= n}

LEMMA UsesFinite ==
    ASSUME NEW b \in Seq(Commands), NEW n \in Nat
    PROVE  IsFiniteSet(Uses(b, n)) /\ Cardinality(Uses(b, n)) \in Nat
  <1>1. IsFiniteSet(1..Len(b))
    BY FS_Interval
  <1>2. Uses(b, n) \in SUBSET (1..Len(b))
    BY DEF Uses
  <1>3. IsFiniteSet(Uses(b, n))
    BY <1>1, <1>2, FS_Subset
  <1> QED BY <1>3, FS_CardinalityType

LEMMA UsesAppend ==
    ASSUME NEW b \in Seq(Commands), NEW c \in Commands, NEW n \in Nat
    PROVE  Cardinality(Uses(Append(b, c), n)) = Cardinality(Uses(b, n)) + Bit(c.bytes >= n)
  <1> DEFINE last == Len(b) + 1
  <1>1. /\ Len(Append(b, c)) = last /\ Append(b, c)[last] = c
        /\ \A k \in 1..Len(b) : Append(b, c)[k] = b[k]
    OBVIOUS
  <1>2. last \notin Uses(b, n)
    BY DEF Uses
  <1>3. CASE c.bytes >= n
    <2>1. Uses(Append(b, c), n) = Uses(b, n) \cup {last}
      BY <1>1, <1>3 DEF Uses
    <2> QED BY <1>2, <1>3, <2>1, UsesFinite, FS_AddElement DEF Bit
  <1>4. CASE ~(c.bytes >= n)
    <2>1. Uses(Append(b, c), n) = Uses(b, n)
      BY <1>1, <1>4 DEF Uses
    <2> QED BY <1>4, <2>1, UsesFinite DEF Bit
  <1> QED BY <1>3, <1>4

(* Taking the head moves every other command one place down.               *)
LEMMA UsesTail ==
    ASSUME NEW b \in Seq(Commands), b # << >>, NEW n \in Nat
    PROVE  Cardinality(Uses(b, n)) = Cardinality(Uses(Tail(b), n)) + Bit(Head(b).bytes >= n)
  <1> DEFINE T == Uses(Tail(b), n)
             U == Uses(b, n) \ {1}
             f == [k \in T |-> k + 1]
  <1>1. /\ Tail(b) \in Seq(Commands) /\ Len(Tail(b)) = Len(b) - 1 /\ Len(b) >= 1
        /\ \A k \in 1..Len(b) - 1 : Tail(b)[k] = b[k + 1]
        /\ Head(b) = b[1]
    OBVIOUS
  <1>2. f \in Bijection(T, U)
    <2>1. \A k \in T : k \in Nat /\ k + 1 \in U
      BY <1>1 DEF Uses
    <2>2. \A u \in U : u - 1 \in T /\ (u - 1) + 1 = u
      BY <1>1 DEF Uses
    <2> HIDE DEF T, U
    <2>3. f \in [T -> U] /\ \A a, c \in T : f[a] = f[c] => a = c
      BY <2>1
    <2>4. \A u \in U : f[u - 1] = u
      BY <2>2
    <2> HIDE DEF f
    <2>5. \A u \in U : \E k \in T : f[k] = u
      BY <2>2, <2>4
    <2> QED BY <2>3, <2>5, Fun_IsBij
  <1>3. IsFiniteSet(T) /\ IsFiniteSet(Uses(b, n))
    BY <1>1, UsesFinite
  <1>4. Cardinality(U) = Cardinality(T)
    BY <1>2, <1>3, FS_Bijection DEF ExistsBijection
  <1>5. Cardinality(U) = IF 1 \in Uses(b, n) THEN Cardinality(Uses(b, n)) - 1
                         ELSE Cardinality(Uses(b, n))
    BY <1>3, FS_RemoveElement
  <1>6. 1 \in Uses(b, n) <=> Head(b).bytes >= n
    BY <1>1 DEF Uses
  <1>7. Cardinality(Uses(b, n)) \in Nat
    BY UsesFinite
  <1> HIDE DEF T, U
  <1> QED BY <1>4, <1>5, <1>6, <1>7 DEF Bit, T, U

\* The data slots that an instruction in S2 or S3 holds, and those that the
\* first phase of a request took for the second.
BytesOf(i) == IF i.noc1 = "ALWAYS" THEN i.bytes ELSE 0
BytesOfS3 == IF staled THEN 0 ELSE BytesOf(s3)
BytesPending(fs, p) == IF fs = "PCX_WRITEBACK_DONE" THEN data_needed(p.op) ELSE 0

\* Only a request that needs no tag check has data, and it never stalls.
DataStage(i) ==
    /\ i \in Instructions
    /\ i.noc1 = "ALWAYS" => i.req /\ i.wait = "NONE"
    /\ i.noc1 # "ALWAYS" => i.bytes = 0

DataFetch(fs, p, n) ==
    /\ FetchType(fs, p, n)
    /\ fs = "PCX_WRITEBACK_DONE" => p.op \in TwoPhaseOps \cup {"LINE_FLUSH"}

DataInv ==
    /\ data_avail \in 0..15
    /\ DataStage(s2) /\ DataStage(s3)
    /\ staled \in BOOLEAN /\ (staled => s3.wait # "NONE")
    /\ noc1buffer \in Seq(Commands)
    /\ DataFetch(fetch_state, pcx, noc2)
    /\ DataConservation

LEMMA DataTerms ==
    ASSUME s2.bytes \in Nat, s3.bytes \in Nat, staled \in BOOLEAN
    PROVE  /\ DataHeld = BytesOf(s2) + BytesOfS3 + BytesPending(fetch_state, pcx)
           /\ DataBuffered = Cardinality(Uses(noc1buffer, 1)) + Cardinality(Uses(noc1buffer, 2))
  BY DEF DataHeld, DataBuffered, BytesOf, BytesOfS3, BytesPending, Uses

(* The add/minus signals of the data counter, like those of the credits.   *)
LEMMA DataAvailNext ==
    ASSUME data_avail \in 0..15, NEW up \in 0..2, NEW down \in 0..2,
           data_avail + up <= 15, down <= data_avail
    PROVE  data_avail_next(up, down) = data_avail + up - down
  <1>1. CASE up = 0
    BY <1>1 DEF data_avail_next
  <1>2. CASE up = 1
    BY <1>2 DEF data_avail_next
  <1>3. CASE up = 2
    BY <1>3 DEF data_avail_next
  <1> QED BY <1>1, <1>2, <1>3

(* A cycle whose fetch takes the slots that its request will need.         *)
LEMMA DataCycle ==
    ASSUME DataInv, NEW stall \in BOOLEAN, NEW sent \in BOOLEAN,
           NEW i1, DataStage(i1), NEW data \in 0..2, data <= data_avail,
           data + BytesPending(fetch_state, pcx)
               = BytesOf(i1) + BytesPending(fetch_state', pcx'),
           DataFetch(fetch_state', pcx', noc2'),
           NEW needed, NEW unreserve, NEW alloc, NEW class, NEW resp,
           Cycle(stall, sent, i1, needed, data, unreserve, alloc, class, resp)
    PROVE  DataInv'
  <1> DEFINE up == IF sent THEN Head(noc1buffer).bytes ELSE 0
             rest == IF sent THEN Tail(noc1buffer) ELSE noc1buffer
             in == IF noc1buffer_req_val THEN s3.bytes ELSE 0
             C(b) == Cardinality(Uses(b, 1)) + Cardinality(Uses(b, 2))
  <1>0. /\ data_avail \in 0..15 /\ staled \in BOOLEAN /\ noc1buffer \in Seq(Commands)
        /\ s2 \in Instructions /\ s3 \in Instructions
        /\ (staled => s3.wait # "NONE") /\ (stall => s3.wait # "NONE")
        /\ (sent => noc1buffer # << >>) /\ (i1 # Bubble => ~stall_s2(stall))
    BY StallFacts DEF DataInv, DataStage, Cycle, StallPossible
  <1>1. s2.bytes \in 0..2 /\ s3.bytes \in 0..2 /\ i1.bytes \in 0..2 /\ s3.req \in BOOLEAN
    BY <1>0 DEF Instructions, DataStage
  <1>2. Command \in Commands /\ Command.bytes = s3.bytes
    BY <1>0 DEF Command, Commands, Instructions
  <1>3. /\ up \in 0..2 /\ rest \in Seq(Commands)
        /\ C(rest) \in Nat /\ C(noc1buffer) = C(rest) + up
    <2>1. CASE sent
      <3>1. noc1buffer # << >> /\ Head(noc1buffer) \in Commands /\ rest = Tail(noc1buffer)
            /\ Tail(noc1buffer) \in Seq(Commands)
        BY <1>0, <2>1
      <3>2. Head(noc1buffer).bytes \in 0..2
        BY <3>1 DEF Commands
      <3>3. /\ Cardinality(Uses(Tail(noc1buffer), 1)) \in Nat
            /\ Cardinality(Uses(Tail(noc1buffer), 2)) \in Nat
        BY <3>1, UsesFinite
      <3>4. /\ Cardinality(Uses(noc1buffer, 1))
                 = Cardinality(Uses(Tail(noc1buffer), 1)) + Bit(Head(noc1buffer).bytes >= 1)
            /\ Cardinality(Uses(noc1buffer, 2))
                 = Cardinality(Uses(Tail(noc1buffer), 2)) + Bit(Head(noc1buffer).bytes >= 2)
        BY <1>0, <3>1, UsesTail
      <3> QED BY <2>1, <3>1, <3>2, <3>3, <3>4 DEF Bit
    <2>2. CASE ~sent
      <3>1. Cardinality(Uses(noc1buffer, 1)) \in Nat /\ Cardinality(Uses(noc1buffer, 2)) \in Nat
        BY <1>0, UsesFinite
      <3> QED BY <1>0, <2>2, <3>1
    <2> QED BY <2>1, <2>2
  <1>4. noc1buffer' = IF noc1buffer_req_val THEN Append(rest, Command) ELSE rest
    BY DEF Cycle
  <1>5. data_avail' = data_avail_next(up, data)
    BY DEF Cycle
  <1> HIDE DEF up, rest
  <1>6. noc1buffer' \in Seq(Commands) /\ in \in 0..2 /\ C(noc1buffer') = C(rest) + in
    <2>1. CASE noc1buffer_req_val
      <3>1. /\ Cardinality(Uses(noc1buffer', 1))
                 = Cardinality(Uses(rest, 1)) + Bit(s3.bytes >= 1)
            /\ Cardinality(Uses(noc1buffer', 2))
                 = Cardinality(Uses(rest, 2)) + Bit(s3.bytes >= 2)
        BY <1>2, <1>3, <1>4, <2>1, UsesAppend
      <3>2. Cardinality(Uses(rest, 1)) \in Nat /\ Cardinality(Uses(rest, 2)) \in Nat
        BY <1>3, UsesFinite
      <3>3. noc1buffer' \in Seq(Commands)
        BY <1>2, <1>3, <1>4, <2>1
      <3> QED BY <1>1, <2>1, <3>1, <3>2, <3>3 DEF Bit
    <2>2. CASE ~noc1buffer_req_val
      BY <1>3, <1>4, <2>2
    <2> QED BY <2>1, <2>2
  <1>7. BytesOfS3 = in
    BY <1>0, <1>1 DEF BytesOfS3, BytesOf, DataInv, DataStage, noc1buffer_req_val
  <1> HIDE DEF in
  <1>8. /\ BytesOf(s2') + BytesOfS3' = BytesOf(s2) + BytesOf(i1)
        /\ DataStage(s2') /\ DataStage(s3') /\ staled' = stall
        /\ (staled' => s3'.wait # "NONE")
    <2>0. DataStage(s2) /\ DataStage(s3) /\ staled' = stall /\ BytesOf(Bubble) = 0
      BY DEF DataInv, Cycle, BytesOf, Bubble, Instr
    <2>1. CASE stall
      <3>1. s3' = s3 /\ BytesOfS3' = 0
        BY <2>0, <2>1 DEF Cycle, BytesOfS3
      <3>2. CASE s2 = Bubble
        <4>1. s2' = i1
          BY <3>2 DEF Cycle, stall_s2
        <4> QED BY <1>0, <1>1, <2>0, <2>1, <3>1, <3>2, <4>1 DEF BytesOf
      <3>3. CASE s2 # Bubble
        <4>1. s2' = s2 /\ i1 = Bubble
          BY <1>0, <2>1, <3>3 DEF Cycle, stall_s2
        <4> QED BY <1>0, <1>1, <2>0, <2>1, <3>1, <4>1 DEF BytesOf
      <3> QED BY <3>2, <3>3
    <2>2. CASE ~stall
      <3>1. s3' = s2 /\ s2' = i1 /\ ~staled'
        BY <2>0, <2>2 DEF Cycle, stall_s2
      <3>2. BytesOfS3' = BytesOf(s2)
        BY <3>1 DEF BytesOfS3, BytesOf
      <3> QED BY <1>1, <2>0, <3>1, <3>2 DEF BytesOf
    <2> QED BY <2>1, <2>2
  <1>9. /\ BytesOf(s2) \in Nat /\ BytesOf(i1) \in Nat /\ BytesOf(s2') \in Nat
        /\ BytesOfS3' \in Nat
        /\ BytesPending(fetch_state, pcx) \in Nat /\ BytesPending(fetch_state', pcx') \in Nat
    <2>1. s2'.bytes \in 0..2 /\ s3'.bytes \in 0..2
      BY <1>8 DEF DataStage, Instructions
    <2> QED BY <1>1, <1>8, <2>1 DEF BytesOf, BytesOfS3, BytesPending, data_needed
  <1>10. /\ DataHeld = BytesOf(s2) + in + BytesPending(fetch_state, pcx)
         /\ DataBuffered = C(noc1buffer)
    BY <1>0, <1>1, <1>7, DataTerms
  <1>11. /\ DataHeld' = BytesOf(s2') + BytesOfS3' + BytesPending(fetch_state', pcx')
         /\ DataBuffered' = C(noc1buffer')
    <2>1. s2'.bytes \in Nat /\ s3'.bytes \in Nat /\ staled' \in BOOLEAN
      BY <1>8 DEF DataStage, Instructions
    <2> QED BY <2>1
           DEF DataHeld, DataBuffered, BytesOf, BytesOfS3, BytesPending, Uses
  <1>12. data_avail + DataHeld + DataBuffered = NumDataSlots
    BY DEF DataInv, DataConservation
  <1> DEFINE c0 == C(noc1buffer)
             c1 == C(rest)
             c2 == C(noc1buffer')
             h2 == BytesOf(s2)
             h1 == BytesOf(i1)
             n2 == BytesOf(s2')
             n3 == BytesOfS3'
             p0 == BytesPending(fetch_state, pcx)
             p1 == BytesPending(fetch_state', pcx')
  <1>13. /\ c1 \in Nat /\ c0 = c1 + up /\ c2 = c1 + in /\ up \in 0..2 /\ in \in 0..2
         /\ h1 \in Nat /\ h2 \in Nat /\ n2 \in Nat /\ n3 \in Nat /\ p0 \in Nat /\ p1 \in Nat
         /\ n2 + n3 = h2 + h1 /\ data + p0 = h1 + p1
         /\ DataHeld = h2 + in + p0 /\ DataBuffered = c0
         /\ DataHeld' = n2 + n3 + p1 /\ DataBuffered' = c2
    BY <1>3, <1>6, <1>8, <1>9, <1>10, <1>11
  <1> HIDE DEF c0, c1, c2, h1, h2, n2, n3, p0, p1
  <1>14. data_avail + up <= 15
    BY <1>0, <1>12, <1>13, SlotsAssumption
  <1>15. data_avail' = data_avail + up - data
    BY <1>0, <1>5, <1>13, <1>14, DataAvailNext
  <1>16. data_avail' + DataHeld' + DataBuffered' = NumDataSlots
    <2>1. /\ data_avail \in Int /\ data \in Int /\ NumDataSlots \in Int
          /\ data_avail + (h2 + in + p0) + (c1 + up) = NumDataSlots
      BY <1>0, <1>12, <1>13, SlotsAssumption
    <2>2. data_avail' + DataHeld' + DataBuffered'
             = (data_avail + up - data) + (h2 + h1 + p1) + (c1 + in)
      BY <1>13, <1>15
    <2> QED BY <1>13, <2>1, <2>2
  <1>17. DataConservation' /\ data_avail' \in 0..15
    BY <1>0, <1>13, <1>14, <1>15, <1>16 DEF DataConservation
  <1> QED BY <1>6, <1>8, <1>17 DEF DataInv

-----------------------------------------------------------------------------
(* One lemma per kind of fetch: the slots it takes are those its request   *)
(* holds.                                                                  *)

LEMMA StageFacts ==
    /\ DataStage(Bubble) /\ BytesOf(Bubble) = 0
    /\ \A dirty \in BOOLEAN :
          DataStage(WbGuard(dirty)) /\ BytesOf(WbGuard(dirty)) = 0
  BY BubbleFacts, GuardFacts
     DEF DataStage, BytesOf, Bubble, WbGuard, Instr, Instructions

LEMMA NoneBytes ==
    ASSUME NEW id \in MshrIds \cup {NoMshr}, NEW dealloc \in BOOLEAN,
           NEW wait \in {"NONE", "NOC3", "BEAT2"}
    PROVE  LET i == Instr("NONE", FALSE, 0, id, dealloc, wait)
           IN  DataStage(i) /\ BytesOf(i) = 0
  BY DEF DataStage, BytesOf, Instr, Instructions

LEMMA RequestBytes ==
    ASSUME NEW id \in MshrIds \cup {NoMshr}, NEW bytes \in 0..2
    PROVE  LET i == Instr("ALWAYS", TRUE, bytes, id, FALSE, "NONE")
           IN  DataStage(i) /\ BytesOf(i) = bytes
  BY DEF DataStage, BytesOf, Instr, Instructions

LEMMA MissBytes ==
    ASSUME NEW id \in MshrIds, NEW miss \in BOOLEAN
    PROVE  LET i == Instr("IF_MISS", miss, 0, id, ~miss, "NONE")
           IN  DataStage(i) /\ BytesOf(i) = 0
  BY MissFacts DEF DataStage, BytesOf, Instr

\* The request at S1, and the fetch states it allows.
LEMMA RequestAtS1 ==
    ASSUME DataInv
    PROVE  /\ data_needed(pcx.op) \in 0..2
           /\ pcx.op \in AllPcxOps => mshr_of(pcx) \in MshrIds
           /\ fetch_state = "NORMAL" => BytesPending(fetch_state, pcx) = 0
           /\ noc2 \in MshrIds \cup {NoMshr}
           /\ data_avail \in Nat
  BY NoMshrAssumption
     DEF DataInv, DataFetch, FetchType, data_needed, BytesPending, mshr_of,
         MshrIds, NoReq, AllPcxOps, TwoPhaseOps

\* A fetch that neither is nor completes the first phase of a request.
LEMMA DataNoSlots ==
    ASSUME DataInv, NEW stall \in BOOLEAN, NEW sent \in BOOLEAN,
           NEW i1, DataStage(i1), BytesOf(i1) = 0,
           BytesPending(fetch_state, pcx) = BytesPending(fetch_state', pcx'),
           DataFetch(fetch_state', pcx', noc2'),
           NEW needed, NEW unreserve, NEW alloc, NEW class, NEW resp,
           Cycle(stall, sent, i1, needed, 0, unreserve, alloc, class, resp)
    PROVE  DataInv'
  <1>1. /\ 0 \in 0..2 /\ 0 <= data_avail
        /\ BytesPending(fetch_state, pcx) \in Nat
    BY RequestAtS1 DEF BytesPending
  <1>2. 0 + BytesPending(fetch_state, pcx)
            = BytesOf(i1) + BytesPending(fetch_state', pcx')
    BY <1>1
  <1> QED BY <1>1, <1>2, DataCycle

LEMMA DataPcxStep ==
    ASSUME DataInv, NEW stall \in BOOLEAN, NEW sent \in BOOLEAN,
           PcxStep(stall, sent)
    PROVE  DataInv'
  <1> DEFINE id == mshr_of(pcx)
  <1>0. /\ data_needed(pcx.op) \in 0..2 /\ data_avail \in Nat
        /\ pcx.op \in AllPcxOps => id \in MshrIds
        /\ noc2 \in MshrIds \cup {NoMshr}
        /\ fetch_state = "NORMAL" => BytesPending(fetch_state, pcx) = 0
    BY RequestAtS1
  <1>1. ASSUME pcx' = NoReq, fetch_state' = "NORMAL", noc2' = noc2,
               fetch_state # "NOC2_WRITEBACK_DONE"
        PROVE  /\ DataFetch(fetch_state', pcx', noc2')
               /\ BytesPending(fetch_state', pcx') = 0
    BY <1>0, <1>1 DEF DataInv, DataFetch, FetchType, BytesPending
  <1>2. ASSUME NEW miss \in BOOLEAN, PcxCacheable(stall, sent, miss)
        PROVE  DataInv'
    <2> DEFINE i1 == Instr("IF_MISS", miss, 0, id, ~miss, "NONE")
    <2>1. /\ Cycle(stall, sent, i1, 1, 0, FALSE, id, "CACHEABLE", NoMshr)
          /\ fetch_state = "NORMAL" /\ pcx.op \in {"LOAD", "STORE"}
          /\ pcx' = NoReq /\ fetch_state' = fetch_state /\ noc2' = noc2
      BY <1>2 DEF PcxCacheable, PcxFetch
    <2>2. DataStage(i1) /\ BytesOf(i1) = 0
      BY <1>0, <2>1, MissBytes DEF AllPcxOps
    <2> HIDE DEF i1, id
    <2> QED BY <1>0, <1>1, <2>1, <2>2, DataNoSlots
  <1>3. ASSUME PcxIfill(stall, sent)
        PROVE  DataInv'
    <2> DEFINE i1 == Instr("ALWAYS", TRUE, 0, id, FALSE, "NONE")
    <2>1. /\ Cycle(stall, sent, i1, 1, 0, FALSE, id, "PLAIN", NoMshr)
          /\ fetch_state = "NORMAL" /\ pcx.op = "IFILL"
          /\ pcx' = NoReq /\ fetch_state' = fetch_state /\ noc2' = noc2
      BY <1>3 DEF PcxIfill, PcxFetch
    <2>2. 0 \in 0..2 /\ id \in MshrIds \cup {NoMshr}
      BY <1>0, <2>1 DEF AllPcxOps
    <2>3. DataStage(i1) /\ BytesOf(i1) = 0
      BY <2>2, RequestBytes
    <2> HIDE DEF i1, id
    <2> QED BY <1>0, <1>1, <2>1, <2>3, DataNoSlots
  <1>4. ASSUME PcxInterrupt(stall, sent)
        PROVE  DataInv'
    <2> DEFINE i1 == Instr("ALWAYS", TRUE, 1, NoMshr, FALSE, "NONE")
    <2>1. /\ Cycle(stall, sent, i1, 1, 1, FALSE, NoMshr, "FREE", NoMshr)
          /\ fetch_state = "NORMAL" /\ pcx.op = "INTERRUPT"
          /\ ~(data_avail < data_needed(pcx.op))
          /\ pcx' = NoReq /\ fetch_state' = fetch_state /\ noc2' = noc2
      BY <1>4 DEF PcxInterrupt, PcxFetch, stall_pcx_noc1_buffer
    <2>2. 1 \in 0..2 /\ 1 <= data_avail
      BY <1>0, <2>1 DEF data_needed, TwoPhaseOps
    <2>3. DataStage(i1) /\ BytesOf(i1) = 1
      BY <2>2, RequestBytes
    <2> HIDE DEF i1
    <2> QED BY <1>0, <1>1, <2>1, <2>2, <2>3, DataCycle
  <1>5. ASSUME NEW dirty \in BOOLEAN, PcxWriteback(stall, sent, dirty)
        PROVE  DataInv'
    <2> DEFINE data == data_needed(pcx.op)
    <2>1. /\ Cycle(stall, sent, WbGuard(dirty), 2, data, FALSE, NoMshr, "FREE",
                   NoMshr)
          /\ fetch_state = "NORMAL" /\ pcx.op \in TwoPhaseOps
          /\ ~(data_avail < data)
          /\ pcx' = pcx /\ fetch_state' = "PCX_WRITEBACK_DONE" /\ noc2' = noc2
      BY <1>5 DEF PcxWriteback, PcxFetch, stall_pcx_noc1_buffer
    <2>2. /\ DataFetch(fetch_state', pcx', noc2')
          /\ BytesPending(fetch_state', pcx') = data
      BY <2>1 DEF DataInv, DataFetch, FetchType, BytesPending
    <2>3. data \in 0..2 /\ data <= data_avail
      BY <1>0, <2>1
    <2>4. DataStage(WbGuard(dirty)) /\ BytesOf(WbGuard(dirty)) = 0
      BY StageFacts
    <2>5. BytesPending(fetch_state, pcx) = 0
      BY <1>0, <2>1
    <2> HIDE DEF data
    <2>6. data + BytesPending(fetch_state, pcx)
             = BytesOf(WbGuard(dirty)) + BytesPending(fetch_state', pcx')
      BY <2>2, <2>3, <2>4, <2>5
    <2> QED BY <2>1, <2>2, <2>3, <2>4, <2>6, DataCycle
  <1>6. ASSUME PcxWritebackDone(stall, sent)
        PROVE  DataInv'
    <2> DEFINE data == data_needed(pcx.op)
               i1 == Instr("ALWAYS", TRUE, data, id, FALSE, "NONE")
    <2>1. /\ Cycle(stall, sent, i1, 0, 0, FALSE, id, "PLAIN", NoMshr)
          /\ fetch_state = "PCX_WRITEBACK_DONE" /\ pcx.op \in TwoPhaseOps
          /\ pcx' = NoReq /\ fetch_state' = "NORMAL" /\ noc2' = noc2
      BY <1>6 DEF PcxWritebackDone
    <2>2. DataStage(i1) /\ BytesOf(i1) = data
      BY <1>0, <2>1, RequestBytes DEF AllPcxOps
    <2>3. BytesPending(fetch_state, pcx) = data
      BY <2>1 DEF BytesPending
    <2>4. data \in 0..2 /\ 0 \in 0..2 /\ 0 <= data_avail
      BY <1>0
    <2> HIDE DEF i1, id, data
    <2>5. 0 + data = data + 0
      BY <2>4
    <2> QED BY <1>1, <2>1, <2>2, <2>3, <2>4, <2>5, DataCycle
  <1>7. ASSUME PcxFlush(stall, sent)
        PROVE  DataInv'
    <2> DEFINE i1 == Instr("NONE", FALSE, 0, NoMshr, FALSE, "NONE")
    <2>1. /\ Cycle(stall, sent, i1, 0, 0, FALSE, NoMshr, "FREE", NoMshr)
          /\ fetch_state = "NORMAL" /\ pcx.op = "LINE_FLUSH"
          /\ pcx' = pcx /\ fetch_state' = "PCX_WRITEBACK_DONE" /\ noc2' = noc2
      BY <1>7 DEF PcxFlush, PcxFetch
    <2>2. /\ DataFetch(fetch_state', pcx', noc2')
          /\ BytesPending(fetch_state', pcx') = 0
      BY <2>1 DEF DataInv, DataFetch, FetchType, BytesPending, data_needed
    <2>3. DataStage(i1) /\ BytesOf(i1) = 0
      BY NoneBytes
    <2> HIDE DEF i1
    <2> QED BY <1>0, <2>1, <2>2, <2>3, DataNoSlots
  <1>8. ASSUME NEW dirty \in BOOLEAN, PcxFlushDone(stall, sent, dirty)
        PROVE  DataInv'
    <2>1. /\ Cycle(stall, sent, WbGuard(dirty), 1, 0, FALSE, NoMshr, "FREE",
                   NoMshr)
          /\ fetch_state = "PCX_WRITEBACK_DONE" /\ pcx.op = "LINE_FLUSH"
          /\ pcx' = NoReq /\ fetch_state' = "NORMAL" /\ noc2' = noc2
      BY <1>8 DEF PcxFlushDone
    <2>2. BytesPending(fetch_state, pcx) = 0
      BY <2>1 DEF BytesPending, data_needed
    <2> QED BY <1>1, <2>1, <2>2, StageFacts, DataNoSlots
  <1>9. ASSUME PcxOther(stall, sent)
        PROVE  DataInv'
    <2> DEFINE i1 == Instr("NONE", FALSE, 0, NoMshr, FALSE, "NONE")
    <2>1. /\ Cycle(stall, sent, i1, 0, 0, FALSE, NoMshr, "FREE", NoMshr)
          /\ fetch_state = "NORMAL"
          /\ pcx' = NoReq /\ fetch_state' = fetch_state /\ noc2' = noc2
      BY <1>9 DEF PcxOther, PcxFetch
    <2>2. DataStage(i1) /\ BytesOf(i1) = 0
      BY NoneBytes
    <2> HIDE DEF i1
    <2> QED BY <1>0, <1>1, <2>1, <2>2, DataNoSlots
  <1> QED BY <1>2, <1>3, <1>4, <1>5, <1>6, <1>7, <1>8, <1>9 DEF PcxStep

\* NoC2 messages and idle cycles take no data slot.
LEMMA DataNoc2Step ==
    ASSUME DataInv, NEW stall \in BOOLEAN, NEW sent \in BOOLEAN,
           NEW i1, DataStage(i1), BytesOf(i1) = 0,
           NEW needed, NEW unreserve, NEW alloc, NEW class, NEW resp,
           Cycle(stall, sent, i1, needed, 0, unreserve, alloc, class, resp),
           pcx' = pcx,
           \/ fetch_state' = fetch_state
           \/ /\ fetch_state # "PCX_WRITEBACK_DONE"
              /\ fetch_state' \in {"NORMAL", "NOC2_WRITEBACK_DONE"},
           noc2' \in MshrIds \cup {NoMshr}
    PROVE  DataInv'
  <1>1. /\ DataFetch(fetch_state', pcx', noc2')
        /\ BytesPending(fetch_state', pcx') = BytesPending(fetch_state, pcx)
    BY DEF DataInv, DataFetch, FetchType, BytesPending
  <1> QED BY <1>1, DataNoSlots

LEMMA DataNext ==
    ASSUME DataInv, Next
    PROVE  DataInv'
  <1>0. noc2 \in MshrIds \cup {NoMshr} /\ NoMshr \in MshrIds \cup {NoMshr}
    BY RequestAtS1
  <1>1. ASSUME NEW op \in PcxOps, NEW t \in Threads, PcxPresent(op, t)
        PROVE  DataInv'
    <2>1. /\ pcx = NoReq /\ pcx' = [op |-> op, thread |-> t]
          /\ UNCHANGED <<data_avail, fetch_state, noc2, s2, s3, staled,
                         noc1buffer>>
      BY <1>1 DEF PcxPresent
    <2>2. fetch_state # "PCX_WRITEBACK_DONE"
      BY <2>1 DEF DataInv, DataFetch, NoReq, TwoPhaseOps
    <2>3. DataFetch(fetch_state', pcx', noc2')
      BY <2>1, <2>2, PcxOpsAssumption DEF DataInv, DataFetch, FetchType
    <2>4. DataConservation'
      BY <2>1, <2>2 DEF DataInv, DataConservation, DataHeld, DataBuffered
    <2> QED BY <2>1, <2>3, <2>4 DEF DataInv
  <1>2. ASSUME NEW stall \in BOOLEAN, NEW sent \in BOOLEAN, Clock(stall, sent)
        PROVE  DataInv'
    <2>1. CASE Idle(stall, sent)
      BY <1>0, <2>1, StageFacts, DataNoc2Step DEF Idle
    <2>2. CASE PcxStep(stall, sent)
      BY <2>2, DataPcxStep
    <2>3. ASSUME NEW id \in MshrIds, Noc2Response(stall, sent, id)
          PROVE  DataInv'
      <3>1. ASSUME NEW dirty \in BOOLEAN, Noc2Evict(stall, sent, id, dirty)
            PROVE  DataInv'
        <4>1. /\ Cycle(stall, sent, WbGuard(dirty), 1, 0, TRUE, NoMshr, "FREE",
                       id)
              /\ fetch_state = "NORMAL" /\ pcx' = pcx
              /\ fetch_state' = "NOC2_WRITEBACK_DONE" /\ noc2' = id
          BY <3>1 DEF Noc2Evict
        <4> QED BY <4>1, StageFacts, DataNoc2Step
      <3>2. CASE Noc2Upgrade(stall, sent, id)
        <4> DEFINE i1 == Instr("NONE", FALSE, 0, id, TRUE, "NONE")
        <4>1. /\ Cycle(stall, sent, i1, 0, 0, TRUE, NoMshr, "FREE", id)
              /\ UNCHANGED <<fetch_state, pcx, noc2>>
          BY <3>2 DEF Noc2Upgrade
        <4>2. DataStage(i1) /\ BytesOf(i1) = 0
          BY NoneBytes
        <4> HIDE DEF i1
        <4> QED BY <1>0, <4>1, <4>2, DataNoc2Step
      <3>3. ASSUME NEW beats \in {"NONE", "BEAT2"},
                   Noc2Ack(stall, sent, id, beats)
            PROVE  DataInv'
        <4> DEFINE i1 == Instr("NONE", FALSE, 0, id, TRUE, beats)
        <4>1. /\ Cycle(stall, sent, i1, 0, 0, FALSE, NoMshr, "FREE", id)
              /\ UNCHANGED <<fetch_state, pcx, noc2>>
          BY <3>3 DEF Noc2Ack
        <4>2. DataStage(i1) /\ BytesOf(i1) = 0
          BY NoneBytes
        <4> HIDE DEF i1
        <4> QED BY <1>0, <4>1, <4>2, DataNoc2Step
      <3> QED BY <2>3, <3>1, <3>2, <3>3 DEF Noc2Response
    <2>4. CASE Noc2Fill(stall, sent)
      <3> DEFINE i1 == Instr("NONE", FALSE, 0, noc2, TRUE, "NONE")
      <3>1. /\ Cycle(stall, sent, i1, 0, 0, FALSE, NoMshr, "FREE", NoMshr)
            /\ fetch_state = "NOC2_WRITEBACK_DONE" /\ fetch_state' = "NORMAL"
            /\ pcx' = pcx /\ noc2' = NoMshr
        BY <2>4 DEF Noc2Fill
      <3>2. DataStage(i1) /\ BytesOf(i1) = 0
        BY <1>0, NoneBytes
      <3> HIDE DEF i1
      <3> QED BY <1>0, <3>1, <3>2, DataNoc2Step
    <2>5. ASSUME NEW answer \in {"NONE", "NOC3"},
                 Noc2Forward(stall, sent, answer)
          PROVE  DataInv'
      <3> DEFINE i1 == Instr("NONE", FALSE, 0, NoMshr, FALSE, answer)
      <3>1. /\ Cycle(stall, sent, i1, 0, 0, FALSE, NoMshr, "FREE", NoMshr)
            /\ UNCHANGED <<fetch_state, pcx, noc2>>
        BY <2>5 DEF Noc2Forward
      <3>2. DataStage(i1) /\ BytesOf(i1) = 0
        BY NoneBytes
      <3> HIDE DEF i1
      <3> QED BY <1>0, <3>1, <3>2, DataNoc2Step
    <2> QED BY <1>2, <2>1, <2>2, <2>3, <2>4, <2>5 DEF Clock
  <1> QED BY <1>1, <1>2 DEF Next

LEMMA DataInit ==
    ASSUME Init
    PROVE  DataInv
  <1>1. /\ noc1buffer = << >> /\ fetch_state = "NORMAL" /\ pcx = NoReq
        /\ noc2 = NoMshr /\ s2 = Bubble /\ s3 = Bubble /\ staled = FALSE
        /\ data_avail = NumDataSlots
    BY DEF Init
  <1>2. Uses(noc1buffer, 1) = {} /\ Uses(noc1buffer, 2) = {}
    BY <1>1 DEF Uses
  <1>3. DataHeld = 0 /\ DataBuffered = 0
    <2>1. s2.bytes \in Nat /\ s3.bytes \in Nat
      BY <1>1, BubbleFacts DEF Instructions
    <2>2. BytesOf(s2) = 0 /\ BytesOfS3 = 0 /\ BytesPending(fetch_state, pcx) = 0
      BY <1>1, StageFacts DEF BytesOfS3, BytesPending
    <2>3. staled \in BOOLEAN
      BY <1>1
    <2>4. /\ DataHeld = 0 + 0 + 0
          /\ DataBuffered = Cardinality({}) + Cardinality({})
      BY <1>2, <2>1, <2>2, <2>3, DataTerms
    <2>5. Cardinality({}) = 0
      BY FS_EmptySet
    <2> QED BY <2>4, <2>5
  <1>4. DataFetch(fetch_state, pcx, noc2) /\ noc1buffer \in Seq(Commands)
    BY <1>1 DEF DataFetch, FetchType
  <1>5. data_avail \in 0..15 /\ DataConservation
    BY <1>1, <1>3, SlotsAssumption DEF DataConservation
  <1>6. staled \in BOOLEAN /\ ~staled /\ DataStage(s2) /\ DataStage(s3)
    BY <1>1, StageFacts
  <1> QED BY <1>4, <1>5, <1>6 DEF DataInv

(* No data slot of noc1buffer is lost, duplicated or invented, however the *)
(* core presents its requests: creditman_noc1_data_avail counts exactly    *)
(* the slots that no request holds.                                        *)
THEOREM DataConserved == Spec => []DataConservation
  <1>1. Init => DataInv
    BY DataInit
  <1>2. DataInv /\ [Next]_vars => DataInv'
    <2>1. ASSUME DataInv, UNCHANGED vars
          PROVE  DataInv'
      BY <2>1
         DEF vars, DataInv, DataStage, DataFetch, FetchType, DataConservation,
             DataHeld, DataBuffered
    <2> QED BY <2>1, DataNext
  <1>3. DataInv => DataConservation
    BY DEF DataInv
  <1> QED BY <1>1, <1>2, <1>3, PTL DEF Spec

-----------------------------------------------------------------------------
(* The theorems, under the assumption on line flushes.                     *)

(* The inductive invariant holds in every reachable state.                 *)
THEOREM Invariance ==
    ASSUME FlushNeedsSpareCredit
    PROVE  Spec => []Inv
  <1>1. Init => Inv
    BY InvInit
  <1>2. Inv /\ [Next]_vars => Inv'
    BY InvNext, InvStutter
  <1> QED BY <1>1, <1>2, PTL DEF Spec

(* creditman_noc1_avail, _data_avail and _reserve keep their width and the *)
(* pipeline registers hold well-formed instructions.                       *)
THEOREM TypeCorrect ==
    ASSUME FlushNeedsSpareCredit
    PROVE  Spec => []TypeOK
  <1>1. Inv => TypeOK
    BY DEF Inv
  <1> QED BY <1>1, Invariance, PTL

(* Credits are conserved, so noc1buffer never overflows.                   *)
THEOREM Conservation ==
    ASSUME FlushNeedsSpareCredit
    PROVE  Spec => [](CreditConservation /\ NoOverflow)
  <1>1. Inv => CreditConservation /\ NoOverflow
    <2> SUFFICES ASSUME Inv PROVE NoOverflow
      BY DEF Inv
    <2>1. avail \in Nat /\ CreditsHeld \in Nat /\ Len(noc1buffer) \in Nat
      BY DEF Inv, TypeOK, CreditsHeld, HeldBy
    <2> QED BY <2>1, SlotsAssumption DEF Inv, CreditConservation, NoOverflow
  <1> QED BY <1>1, Invariance, PTL

(* creditman_noc1_reserve counts the cacheable misses exactly.             *)
THEOREM ReserveCounts ==
    ASSUME FlushNeedsSpareCredit
    PROVE  Spec => []ReserveExact
  <1>1. Inv => ReserveExact
    BY DEF Inv
  <1> QED BY <1>1, Invariance, PTL

(* A NoC2 response always finds the credit its eviction needs: the NoC1    *)
(* interface cannot block NoC2.                                            *)
THEOREM Noc2NeverWaits ==
    ASSUME FlushNeedsSpareCredit
    PROVE  Spec => []EvictionHasCredit
  <1>1. Inv => EvictionHasCredit
    BY DEF Inv
  <1> QED BY <1>1, Invariance, PTL

(* No request in flight loses its MSHR to a repeated release.              *)
THEOREM MshrKept ==
    ASSUME FlushNeedsSpareCredit
    PROVE  Spec => []RequestHasMshr
  <1>1. Inv => RequestHasMshr
    BY DEF Inv
  <1> QED BY <1>1, Invariance, PTL

=============================================================================
