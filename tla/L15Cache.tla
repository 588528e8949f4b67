------------------------------ MODULE L15Cache ------------------------------
(***************************************************************************)
(* One set of the L1.5 cache (l15_pipeline.v.pyv, l15_mshr.v.pyv, and the  *)
(* tag, MESI and way-map arrays), instruction by instruction.              *)
(*                                                                         *)
(* The pipeline overlaps instructions, but two instructions of the same    *)
(* set never overlap: S1 waits while S2 or S3 holds the index it wants     *)
(* (stall_index_conflict_stall_s1), and the two phases of a fill, a flush  *)
(* or a non-cacheable request follow each other directly.  A step of this  *)
(* module is one such request with everything it does in S1, S2 and S3.    *)
(*                                                                         *)
(* The tag stands for the line.  Data, LRU bits, prefetches, diagnostic    *)
(* accesses and CSM are left out; the LRU way is any way.  The build is    *)
(* the default one (PITON_ASIC_RTL undefined).  The L1 data cache is       *)
(* external: l1 is what CPX has told it to hold.                           *)
(***************************************************************************)
EXTENDS Naturals, FiniteSets

CONSTANTS
    NumWays,        \* ways of a set (4)
    StWayCount,     \* ways the pipeline's copy of st_way can name (2)
    NumL1Ways,      \* ways of an L1 data cache set (4)
    Tags,           \* the lines that map to this set
    Threads,        \* hardware threads of the core (2)
    NoTag, NoWay,   \* no line, no way
    UpgradePinsWay
    (* TRUE: a line with a pending upgrade is neither chosen as a victim   *)
    (* nor flushed.  FALSE: it may be, as nothing in the pipeline forbids. *)

Ways == 0..NumWays - 1
L1Ways == 0..NumL1Ways - 1

ASSUME WaysAssumption == NumWays \in Nat \ {0} /\ NumL1Ways \in Nat \ {0}
ASSUME StWayAssumption == StWayCount \in Nat \ {0}
ASSUME NoneAssumption == NoTag \notin Tags /\ NoWay \notin Nat
ASSUME PinAssumption == UpgradePinsWay \in BOOLEAN

VARIABLES
    tag, mesi,      \* the tag and MESI state of each way
    wmt,            \* way map table: the L1.5 way each L1 way is filled from
    l1,             \* external: the line each L1 way holds
    bad,            \* external: L1 ways that missed a store to their line (see lost
                    \* for stores nobody writes) or got one of another line
    lost,           \* history: the states of store MSHRs that were released with an
                    \* acknowledged store in their buffer that no way took
    ld, st          \* each thread's load MSHR and store MSHR

vars == <<tag, mesi, wmt, l1, bad, lost, ld, st>>

NoLd == [kind |-> "FREE", addr |-> NoTag, l1way |-> 0]
NoSt == [state |-> "FREE", addr |-> NoTag, way |-> 0, merged |-> FALSE]

-----------------------------------------------------------------------------
(* Tag check, way map and MSHR match. *)

\* The first element of a non-empty set of ways, as a priority encoder gives.
First(S) == CHOOSE w \in S : \A v \in S : w <= v

\* tagcheck_way*_equals of the ways that are not in state I
TagMatches(a) == {w \in Ways : tag[w] = a /\ mesi[w] # "I"}

\* tagcheck_way_s2; NoWay when tagcheck_val_s2 is 0
TagCheck(a) == IF TagMatches(a) = {} THEN NoWay ELSE First(TagMatches(a))

\* wmt_compare_mask_s3
Mapped(w) == {x \in L1Ways : wmt[x] = w}

\* The way map with every entry for w invalid.
Demapped(w) == [x \in L1Ways |-> IF wmt[x] = w THEN NoWay ELSE wmt[x]]

\* The L1 ways one CPX packet names: wmt_compare_match_way_s3, if any matches.
CpxWays(w) == IF Mapped(w) = {} THEN {} ELSE {First(Mapped(w))}

\* The L1 contents after CPX invalidates the ways of X.
L1Without(X) == [x \in L1Ways |-> IF x \in X THEN NoTag ELSE l1[x]]

\* The pipeline's view of st_way (mshr_st_way_array).
StWay(t) == st[t].way % StWayCount

\* predecode_hit_stbuf_s1, and the thread whose MSHR it hits
StMatches(a) == {u \in Threads : st[u].state # "FREE" /\ st[u].addr = a}

LdMatches(a) == {u \in Threads : ld[u].kind # "FREE" /\ ld[u].addr = a}

\* Mutant: loads and stores of a line are checked against its stores only.
MshrMatch_stores_only(a) == StMatches(a) # {}

\* predecode_tagcheck_matched_s1
MshrMatch(a) == StMatches(a) \cup LdMatches(a) # {}

\* stbuf_compare_match_s3
StBufMatch(u, a) == st[u].state = "SM" /\ st[u].addr = a

(* The L1 ways that are wrong once a store to a is acknowledged to the     *)
(* core with the ways of X: CPX tells the L1 to write the store's data     *)
(* into the ways of X, and into no other.                                  *)
BadAfterAck(a, X) ==
    bad \cup {x \in L1Ways \ X : l1[x] = a}
        \cup {x \in X : l1[x] \notin {a, NoTag}}

-----------------------------------------------------------------------------
(* Requests of the core.                                                   *)

\* L15_REQTYPE_LOAD.  The L1 asks only for lines it does not hold.
Load(t, a, x) ==
    /\ \A y \in L1Ways : l1[y] # a
    /\ ~MshrMatch(a) /\ ld[t] = NoLd
    /\ LET w == TagCheck(a)
       IN  \/ /\ w # NoWay
              /\ wmt' = [Demapped(w) EXCEPT ![x] = w]
              /\ l1' = [l1 EXCEPT ![x] = a]
              /\ bad' = bad \ {x}
              /\ UNCHANGED ld
           \/ /\ w = NoWay
              /\ ld' = [ld EXCEPT ![t] = [kind |-> "LD", addr |-> a,
                                          l1way |-> x]]
              /\ UNCHANGED <<wmt, l1, bad>>
    /\ UNCHANGED <<tag, mesi, lost, st>>

(* L15_REQTYPE_STORE that hits a store MSHR: its bytes join the write      *)
(* buffer of that MSHR and the store is acknowledged at once.              *)
StoreHitsMshr(t, a) ==
    /\ StMatches(a) # {} /\ st[t] = NoSt
    /\ \E u \in StMatches(a) :
          /\ st' = [st EXCEPT ![u].merged = TRUE]
          /\ bad' = BadAfterAck(a, IF StBufMatch(u, a) THEN CpxWays(StWay(u))
                                   ELSE {})
    /\ UNCHANGED <<tag, mesi, wmt, l1, lost, ld>>

\* Mutant: a store that hits a shared line writes it without an upgrade.
StoreHit_shared(w) == w # NoWay /\ mesi[w] \in {"M", "E", "S"}

\* tagcheck_state_me_s3
StoreHit(w) == w # NoWay /\ mesi[w] \in {"M", "E"}

\* The MSHR state of a store that cannot write yet.
PendingStore(a, w) ==
    [state |-> IF w = NoWay THEN "IM" ELSE "SM", addr |-> a,
     way |-> IF w = NoWay THEN 0 ELSE w, merged |-> FALSE]

\* L15_REQTYPE_STORE, regular: write in M or E, else ask for S->M or I->M.
Store(t, a) ==
    /\ ~MshrMatch(a) /\ st[t] = NoSt
    /\ LET w == TagCheck(a)
       IN  \/ /\ StoreHit(w)
              /\ mesi' = [mesi EXCEPT ![w] = "M"]
              /\ bad' = BadAfterAck(a, CpxWays(w))
              /\ UNCHANGED st
           \/ /\ ~StoreHit(w)
              /\ st' = [st EXCEPT ![t] = PendingStore(a, w)]
              /\ UNCHANGED <<mesi, bad>>
    /\ UNCHANGED <<tag, wmt, l1, lost, ld>>

\* Mutant: an invalidated line keeps its way-map entry and its L1 copy.
Invalidate_l15_only(w) ==
    /\ mesi' = IF w = NoWay THEN mesi ELSE [mesi EXCEPT ![w] = "I"]
    /\ UNCHANGED <<wmt, l1, bad>>

(* Invalidate way w (NoWay: no line to invalidate): MESI, way map and, if  *)
(* the way map knows a copy, the L1.                                       *)
Invalidate(w) ==
    \/ w = NoWay /\ UNCHANGED <<mesi, wmt, l1, bad>>
    \/ /\ w # NoWay
       /\ mesi' = [mesi EXCEPT ![w] = "I"]
       /\ wmt' = Demapped(w)
       /\ l1' = L1Without(CpxWays(w))
       /\ bad' = bad \ CpxWays(w)

(* LOAD_NC, CAS, SWP_LOADSTUB: invalidate the line, then send the request  *)
(* with a load MSHR.                                                       *)
LoadNc(t, a) ==
    /\ ~MshrMatch(a) /\ ld[t] = NoLd
    /\ Invalidate(TagCheck(a))
    /\ ld' = [ld EXCEPT ![t] = [kind |-> "NC", addr |-> a, l1way |-> 0]]
    /\ UNCHANGED <<tag, lost, st>>

\* WRITETHROUGH: the same with a store MSHR, in state WAIT_ACK.
Writethrough(t, a) ==
    /\ ~MshrMatch(a) /\ st[t] = NoSt
    /\ Invalidate(TagCheck(a))
    /\ st' = [st EXCEPT ![t] = [state |-> "WAIT_ACK", addr |-> a, way |-> 0,
                                merged |-> FALSE]]
    /\ UNCHANGED <<tag, lost, ld>>

\* May way w be taken from the line it holds?
MayDisplace(w) ==
    UpgradePinsWay => \A t \in Threads : st[t].state = "SM" => st[t].way # w

\* LINE_FLUSH names a way; no MSHR is looked at.
LineFlush(w) ==
    /\ MayDisplace(w)
    /\ Invalidate(IF mesi[w] = "I" THEN NoWay ELSE w)
    /\ UNCHANGED <<tag, lost, ld, st>>

(* DCACHE_SELF_INVALIDATION reads the tags but not the MESI array: the tag *)
(* check sees the states of an earlier request, so a way that matches may  *)
(* or may not be found.  CPX always invalidates one L1 way, way 0 when the *)
(* way map has no match.                                                   *)
SelfInvalidate(a) ==
    /\ \E w \in {v \in Ways : tag[v] = a} \cup {NoWay} :
          LET X == CpxWays(IF w = NoWay THEN 0 ELSE w)
              dropped == IF X = {} THEN {0} ELSE X
          IN  /\ wmt' = IF w = NoWay THEN wmt ELSE Demapped(w)
              /\ l1' = L1Without(dropped)
              /\ bad' = bad \ dropped
    /\ UNCHANGED <<tag, mesi, lost, ld, st>>

-----------------------------------------------------------------------------
(* Messages of the L2.  It answers each MSHR's request once, and may       *)
(* invalidate or downgrade any line at any time.                           *)

\* S->M becomes I->M when the line is invalidated; st_way is overwritten.
StAfterInval(a) ==
    [u \in Threads |-> IF StBufMatch(u, a)
                       THEN [st[u] EXCEPT !.state = "IM", !.way = 0]
                       ELSE st[u]]

\* L15_REQTYPE_INVALIDATION, the subline that falls in this set
Invalidation(a) ==
    /\ Invalidate(TagCheck(a))
    /\ st' = StAfterInval(a)
    /\ UNCHANGED <<tag, lost, ld>>

\* L15_REQTYPE_DOWNGRADE
Downgrade(a) ==
    /\ LET w == TagCheck(a)
       IN  mesi' = IF StoreHit(w) THEN [mesi EXCEPT ![w] = "S"]
                   ELSE mesi
    /\ UNCHANGED <<tag, wmt, l1, bad, lost, ld, st>>

(* The eviction that precedes the fill of line a in way w compares the     *)
(* store MSHRs with the line that arrives (stbuf_compare_lru_match_s3).    *)
StAfterEvict(a, w) ==
    [u \in Threads |-> IF StBufMatch(u, a) /\ StWay(u) = w
                       THEN [st[u] EXCEPT !.state = "IM", !.way = 0]
                       ELSE st[u]]

\* The L1 ways the eviction of way w drops.
Evicted(w) == IF mesi[w] = "I" THEN {} ELSE CpxWays(w)

\* The way map after the eviction.
WmtAfterEvict(w) == IF mesi[w] = "I" THEN wmt ELSE Demapped(w)

\* The way map after the fill of way w and of the L1 way x.
WmtAfterFill(x, w) ==
    [y \in L1Ways |-> IF y = x THEN w ELSE IF wmt[y] = w THEN NoWay
                      ELSE WmtAfterEvict(w)[y]]

\* L15_REQTYPE_ACKDT_LD: evict way w, fill it with the line and the L1 too.
FillLoad(t, s, w) ==
    /\ ld[t].kind = "LD" /\ MayDisplace(w)
    /\ LET a == ld[t].addr
           x == ld[t].l1way
       IN  /\ tag' = [tag EXCEPT ![w] = a]
           /\ mesi' = [mesi EXCEPT ![w] = s]
           /\ wmt' = WmtAfterFill(x, w)
           /\ l1' = [L1Without(Evicted(w)) EXCEPT ![x] = a]
           /\ bad' = bad \ (Evicted(w) \cup {x})
           /\ st' = StAfterEvict(a, w)
    /\ ld' = [ld EXCEPT ![t] = NoLd]
    /\ UNCHANGED lost

\* L15_REQTYPE_ACKDT_ST_IM: evict way w and fill it with the line and the store.
FillStore(t, w) ==
    /\ st[t].state = "IM" /\ MayDisplace(w)
    /\ LET a == st[t].addr
       IN  /\ tag' = [tag EXCEPT ![w] = a]
           /\ mesi' = [mesi EXCEPT ![w] = "M"]
           /\ wmt' = WmtAfterEvict(w)
           /\ l1' = L1Without(Evicted(w))
           /\ bad' = BadAfterAck(a, {}) \ Evicted(w)
           /\ st' = [StAfterEvict(a, w) EXCEPT ![t] = NoSt]
    /\ UNCHANGED <<lost, ld>>

\* lost once the buffer of t's upgrade is written to the way it names.
LostByUpgrade(t) == IF StWay(t) \in TagMatches(st[t].addr) THEN lost ELSE lost \cup {"SM"}

\* Mutant: the upgrade is acknowledged like a fill, without an L1 way.
UpgradeAck_plain(t) ==
    /\ st[t].state = "SM"
    /\ mesi' = [mesi EXCEPT ![StWay(t)] = "M"]
    /\ bad' = BadAfterAck(st[t].addr, {}) /\ lost' = LostByUpgrade(t)
    /\ st' = [st EXCEPT ![t] = NoSt]
    /\ UNCHANGED <<tag, wmt, l1, ld>>

(* L15_REQTYPE_ACKDT_ST_SM: the line in the MSHR's way becomes M, takes    *)
(* the store, and the L1 copy, if any, is told to take it too.             *)
UpgradeAck(t) ==
    /\ st[t].state = "SM"
    /\ mesi' = [mesi EXCEPT ![StWay(t)] = "M"]
    /\ bad' = BadAfterAck(st[t].addr, CpxWays(StWay(t))) /\ lost' = LostByUpgrade(t)
    /\ st' = [st EXCEPT ![t] = NoSt]
    /\ UNCHANGED <<tag, wmt, l1, ld>>

\* L15_REQTYPE_ACKDT_LD_NC, L15_REQTYPE_ACK_ATOMIC
AckNc(t) ==
    /\ ld[t].kind = "NC"
    /\ ld' = [ld EXCEPT ![t] = NoLd]
    /\ UNCHANGED <<tag, mesi, wmt, l1, bad, lost, st>>

(* L15_REQTYPE_ACK_WRITETHROUGH: the MSHR is released and its buffer is not *)
(* read; the write-through's own data went out with the request.           *)
AckWritethrough(t) ==
    /\ st[t].state = "WAIT_ACK"
    /\ st' = [st EXCEPT ![t] = NoSt]
    /\ lost' = IF st[t].merged THEN lost \cup {"WAIT_ACK"} ELSE lost
    /\ UNCHANGED <<tag, mesi, wmt, l1, bad, ld>>

-----------------------------------------------------------------------------
\* Reset: the arrays are invalid; the tag array's contents do not matter.
Init ==
    /\ tag = [w \in Ways |-> NoTag] /\ mesi = [w \in Ways |-> "I"]
    /\ wmt = [x \in L1Ways |-> NoWay]
    /\ l1 = [x \in L1Ways |-> NoTag] /\ bad = {} /\ lost = {}
    /\ ld = [t \in Threads |-> NoLd] /\ st = [t \in Threads |-> NoSt]

CoreRequest(t, a) ==
    \/ \E x \in L1Ways : Load(t, a, x)
    \/ StoreHitsMshr(t, a)
    \/ Store(t, a)
    \/ LoadNc(t, a)
    \/ Writethrough(t, a)

L2Answer(t) ==
    \/ \E s \in {"S", "E"}, w \in Ways : FillLoad(t, s, w)
    \/ \E w \in Ways : FillStore(t, w)
    \/ UpgradeAck(t)
    \/ AckNc(t)
    \/ AckWritethrough(t)

Next ==
    \/ \E t \in Threads, a \in Tags : CoreRequest(t, a)
    \/ \E w \in Ways : LineFlush(w)
    \/ \E a \in Tags : SelfInvalidate(a) \/ Invalidation(a) \/ Downgrade(a)
    \/ \E t \in Threads : L2Answer(t)

Spec == Init /\ [][Next]_vars

-----------------------------------------------------------------------------
(* Properties. *)

(* A line is in at most one way of its set, and in none while a request   *)
(* for it other than an upgrade is outstanding, whatever fills, upgrades   *)
(* and invalidations cross: no answer fills a line twice, and the tag      *)
(* check, which takes the first match, is never asked to choose.           *)
LineOnce ==
    /\ \A v, w \in Ways :
          v # w /\ tag[v] = tag[w] => mesi[v] = "I" \/ mesi[w] = "I"
    /\ \A t \in Threads :
          /\ ld[t].kind # "FREE" => TagMatches(ld[t].addr) = {}
          /\ st[t].state \in {"IM", "WAIT_ACK"} => TagMatches(st[t].addr) = {}

(* The way map always knows the L1's copies: an L1 way that holds a line   *)
(* is mapped to the valid L1.5 way with that line, so no invalidation,     *)
(* eviction or flush of the line can miss the copy.                        *)
Inclusion ==
    \A x \in L1Ways :
        l1[x] # NoTag => /\ wmt[x] # NoWay
                         /\ mesi[wmt[x]] # "I" /\ tag[wmt[x]] = l1[x]

(* Every L1 copy has seen every store to its line that the L1.5 writes, or *)
(* will write once its MSHR is answered, however stores merge into another *)
(* thread's MSHR; no store was written into the L1 copy of another line;   *)
(* and an acknowledged store in an MSHR's buffer reaches its line in the   *)
(* cache whatever happens to the line meanwhile.  The one exception is the *)
(* code's: a store that hits the MSHR of a write-through is acknowledged   *)
(* and merged (the comment says "IM or SM state", the condition does not   *)
(* look), and nobody writes it.                                            *)
L1Fresh == bad = {} /\ lost \subseteq {"WAIT_ACK"}

(* The way a pending upgrade will write holds its line.                    *)
UpgradeHitsItsLine ==
    \A t \in Threads : st[t].state = "SM" => tag[StWay(t)] = st[t].addr

\* The lines the L1.5 may write without asking.
Writable == {a \in Tags : \E w \in TagMatches(a) : mesi[w] \in {"M", "E"}}

(* Write permission is never invented: a line becomes writable only by the *)
(* step that releases an MSHR of that line, that is, by the L2's answer.   *)
WritableNeedsGrant ==
    [][\A a \in Writable' \ Writable :
          \/ a \in {ld[t].addr : t \in {u \in Threads : ld'[u] # ld[u]}}
          \/ a \in {st[t].addr : t \in {u \in Threads : st'[u] # st[u]}}]_vars
=============================================================================
