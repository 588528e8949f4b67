------------------------------- MODULE L15Lru -------------------------------
(***************************************************************************)
(* Replacement in the L1.5 pipeline (l15_pipeline.v.pyv, rf_l15_lruarray): *)
(* the used bits and the round-robin turn of each set, read in S2 and      *)
(* written in S3, and the way of a fill, which three arrays take from      *)
(* three different places: the tag array in S1 from the eviction in S2,    *)
(* the MESI array in S2 from the LRU array, the data array from the        *)
(* eviction in S3.                                                         *)
(*                                                                         *)
(* Every step is one clock cycle; stall is stall_s3.  Tags and MESI states *)
(* are left out: the way of a tag check or a flush is any way.             *)
(***************************************************************************)
EXTENDS Naturals, FiniteSets

CONSTANTS
    LruNumWays,    \* ways of a set (4)
    Sets        \* cache indices

LruWays == 0..LruNumWays - 1

ASSUME LruWaysAssumption == LruNumWays \in Nat \ {0, 1}

VARIABLES
    lru,        \* regfile: used bits and round-robin turn of each set
    read_index, \* read_index_f
    lru_data,   \* lru_data_s3
    evicting,   \* fetch_state_s1 = NOC2_WRITEBACK_DONE: the fill comes next
    lru_s2, lru_s3  \* the instructions in the later stages

lruVars == <<lru, read_index, lru_data, evicting, lru_s2, lru_s3>>

(* HIT: a load or store that hits.  INVAL: an invalidation or the first    *)
(* phase of a non-cacheable request that hits.  FLUSH: a line flush of a   *)
(* valid way.  EVICT and FILL: the two phases of a fill.  OTHER: all else. *)
Ops == {"HIT", "INVAL", "FLUSH", "EVICT", "FILL", "OTHER"}

\* way: the tag check's, the flush's or, for a FILL, the tag array's way
Instr(op, i, w) == [op |-> op, idx |-> i, way |-> w, lru_way |-> 0]
Bubble(i) == Instr("NONE", i, 0)

-----------------------------------------------------------------------------
\* The k-th way from the turn, cyclically.
From(turn, k) == (turn + k) % LruNumWays

\* lru_way_s2: the first unused way from the turn on, the turn if none.
LruWay(l) ==
    IF l.used = LruWays THEN l.turn
    ELSE From(l.turn, CHOOSE k \in LruWays :
                          /\ From(l.turn, k) \notin l.used
                          /\ \A m \in 0..k - 1 : From(l.turn, m) \in l.used)

(* tagcheck_way_mask_s3.  The nested conditional tests constants: any way  *)
(* but way 0 selects the bit of way 1.                                     *)
TagcheckMask(w) == IF w = 0 THEN {0} ELSE {1}

\* Mutant: the eviction's commented-out update of the LRU array is enabled.
LruWrites_evict(i) == i.op \in {"HIT", "EVICT", "FILL", "INVAL", "FLUSH"}

\* lruarray_write_val_s3
LruWrites(i) == i.op \in {"HIT", "FILL", "INVAL", "FLUSH"}

\* lruarray_write_data_s3, from lru_data_s3 and not from the array
LruWritten(i) ==
    LET used == lru_data.used
        turn == lru_data.turn
        hit == used \cup TagcheckMask(i.way)
    IN  CASE i.op = "HIT" -> [used |-> IF hit = LruWays THEN {} ELSE hit,
                              turn |-> turn]
          [] i.op \in {"FILL", "EVICT"} -> [used |-> used \cup {i.lru_way},
                                            turn |-> From(turn, 1)]
          [] i.op = "INVAL" -> [used |-> used \ TagcheckMask(i.way),
                                turn |-> turn]
          [] OTHER -> [used |-> used \ {i.way}, turn |-> turn]

-----------------------------------------------------------------------------
(* One clock cycle.  Only what may wait for NoC3 stalls S3; the LRU array  *)
(* is written in every cycle that S3 is valid, and lru_data_s3 follows the *)
(* array's output even while S3 is stalled.                                *)

StallPossible(stall) == stall => lru_s3.op \in {"INVAL", "FLUSH", "EVICT", "OTHER"}

stall_s2(stall) == lru_s2.op # "NONE" /\ stall

LruCycle(stall, i1) ==
    /\ StallPossible(stall)
    /\ i1.op # "NONE" => ~stall_s2(stall)
    /\ lru' = IF LruWrites(lru_s3) THEN [lru EXCEPT ![lru_s3.idx] = LruWritten(lru_s3)]
              ELSE lru
    /\ lru_data' = lru[read_index]
    /\ read_index' = i1.idx
    /\ lru_s2' = IF stall_s2(stall) THEN lru_s2 ELSE i1
    /\ lru_s3' = IF stall THEN lru_s3
             ELSE [lru_s2 EXCEPT !.lru_way = LruWay(lru[read_index])]

\* stall_index_bypass_match_s1
IndexConflict(i) ==
    \/ lru_s2.op # "NONE" /\ lru_s2.idx = i
    \/ lru_s3.op # "NONE" /\ lru_s3.idx = i

\* S1 hands nothing to S2.
Idle(stall) ==
    /\ evicting => stall_s2(stall)
    /\ LruCycle(stall, Bubble(read_index))
    /\ UNCHANGED evicting

\* An instruction that waits for the index.
Fetch(stall, op, i, w) ==
    /\ ~evicting
    /\ ~IndexConflict(i)
    /\ LruCycle(stall, Instr(op, i, w))
    /\ UNCHANGED evicting

\* Interrupts, instruction fills and acknowledgements do not wait.
FetchOther(stall, i) ==
    /\ ~evicting
    /\ LruCycle(stall, Instr("OTHER", i, 0))
    /\ UNCHANGED evicting

\* First phase of ACKDT_LD and ACKDT_ST_IM.
FetchEvict(stall, i) ==
    /\ ~evicting
    /\ ~IndexConflict(i)
    /\ LruCycle(stall, Instr("EVICT", i, 0))
    /\ evicting' = TRUE

\* Second phase: the tag is written now, to the eviction's LRU way.
FetchFill(stall) ==
    /\ evicting
    /\ LruCycle(stall, Instr("FILL", lru_s2.idx, LruWay(lru[read_index])))
    /\ evicting' = FALSE

LruInit ==
    /\ lru = [i \in Sets |-> [used |-> {}, turn |-> 0]]
    /\ lru_data = [used |-> {}, turn |-> 0]
    /\ read_index \in Sets
    /\ evicting = FALSE
    /\ lru_s2 = Bubble(read_index) /\ lru_s3 = Bubble(read_index)

LruNext ==
    \E stall \in BOOLEAN :
        \/ Idle(stall)
        \/ \E op \in {"HIT", "INVAL", "FLUSH"}, i \in Sets, w \in LruWays :
              Fetch(stall, op, i, w)
        \/ \E i \in Sets : FetchOther(stall, i) \/ FetchEvict(stall, i)
        \/ FetchFill(stall)

LruSpec == LruInit /\ [][LruNext]_lruVars

-----------------------------------------------------------------------------
(* Properties. *)

(* The three arrays agree on the way of a fill: when the fill is in S2 the *)
(* way the tag was written to in S1, the LRU way MESI is written to now    *)
(* and the LRU way the eviction carries in S3 are the same, however long   *)
(* the write-back of the evicted line stalls.                              *)
FillWaysAgree ==
    lru_s2.op = "FILL" => /\ lru_s3.op = "EVICT" /\ lru_s3.idx = lru_s2.idx
                      /\ lru_s2.way = lru_s3.lru_way
                      /\ lru_s2.way = LruWay(lru[read_index])
=============================================================================
