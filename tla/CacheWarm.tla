----------------------------- MODULE CacheWarm -----------------------------
(***************************************************************************)
(* Cache warming (tools/pli/iop/l2warm.cc, l1warm.cc and their callers in  *)
(* iob_main.cc): before the simulated chip leaves reset, lines of the      *)
(* memory image are slammed straight into the arrays of its L2 cache, its  *)
(* L1 caches and the L2's directory of the L1 caches, so that a test       *)
(* starts with full caches.  At run time the same code flips bits of       *)
(* entries the chip has just written, and an event of the diag empties the *)
(* caches again.                                                           *)
(*                                                                         *)
(* Addresses and words are bit sets (BitSets).  The contents of a stored   *)
(* word are what it was made from and the bits of it that were flipped:    *)
(* EccCodes has the codes.  The arrays are those of the chip; writes the   *)
(* chip itself makes are the inputs of l2_error_call.                      *)
(***************************************************************************)
EXTENDS Sequences, BitSets

CONSTANTS WmModes,    \* plusargs: see WmInit
          WmMemory,   \* the lines of the image: sysMem
          WmLists,    \* orders in which addr_list may hold addresses
          WmRows,     \* the indexes of the L2 cache that are modelled (1024)
          L2Ways,     \* 12
          WmFlips,    \* positions of a word where a bit may be flipped
          WmCycles    \* bound: cycles of l2_error_call and of invalidation

VARIABLES wmMode, wmPhase,
          wmTodo, wmNext,       \* addr_list and l2_list
          wmTags, wmVd, wmData, \* the arrays of the L2 cache
          wmPick,               \* round_robin, blackboard, last_addr, tag
          wmL1, wmVld,          \* the L1 arrays and their valid registers
          wmDirTag, wmDirVld, wmDirPar, \* directory, dir_xvalid, dir_xparity
          wmPub,                \* the valid and parity registers of the chip
          wmQuota,              \* idone, ddone
          wmPend,               \* tag_pend, data_pend with index and pos
          wmHit,                \* history: the writes and injections of a call
          wmInval,              \* vld_counter, cpu_invalid, l2_bank, started
          wmDram,               \* calls of write_dram_call
          wmCount

wmL2Vars == <<wmTags, wmVd, wmData, wmPick>>
wmL1Vars == <<wmL1, wmVld, wmDirTag, wmDirVld, wmDirPar, wmPub, wmQuota>>
wmRunVars == <<wmPend, wmHit, wmInval, wmDram, wmCount>>
wmVars == <<wmMode, wmPhase, wmTodo, wmNext, wmL2Vars, wmL1Vars, wmRunVars>>

Banks4 == 0..3
Put(f, k, v) == [x \in DOMAIN f \cup {k} |-> IF x = k THEN v ELSE f[x]]
Get(f, k, default) == IF k \in DOMAIN f THEN f[k] ELSE default

\* addr & 0xffffffffc0
LineAddr(a) == {i \in a : i >= 6}
InMemory(a) == LineAddr(a) \in WmMemory
BankOf(a) == Number(Bits(a, 6, 2))
IndexOf(a) == Bits(a, 8, 10)
TagOf(a) == Bits(a, 18, 22)

\* The 16 bytes number i of a line; random bytes belong to no line.
Piece(a, i) == [line |-> LineAddr(a), i |-> i, real |-> TRUE]
Random16(i) == [line |-> {}, i |-> i, real |-> FALSE]

-----------------------------------------------------------------------------
(* l2warm: tag, valid and dirty bits, data.                                *)

\* error_enject: one bit of a word, none unless errors are asked for.  The
\* parity bit is left alone: bit 0 is flipped for it.
Flips(on) == IF on THEN {{p} : p \in WmFlips} ELSE {{}}

\* slam_tag: the tag and its ECC
slam_tag(tags, b, w, ix, tag, flip) == Put(tags, <<b, w, ix>>, [tag |-> tag, flips |-> flip])

(* A row of a VUAD array holds the bits of four indexes interleaved: bit   *)
(* 4w + v is dirty of way w of index v, valid follows after the parity.    *)
DirtyAt(w, v) == 4 * w + v
ValidAt(w, v) == 4 * (L2Ways + 1) + 4 * w + v
VdRow(b, ix) == <<b, Bits(ix, 7, 3), Bits(ix, 2, 5)>>
VdWord(ix) == Number(Bits(ix, 0, 2))
\* extract_vuad
DirtyWays(row, v) == {w \in 0..(L2Ways - 1) : DirtyAt(w, v) \in row}
ValidWays(row, v) == {w \in 0..(L2Ways - 1) : ValidAt(w, v) \in row}
\* integrate_vuad: the bits of one index, each field with its even parity
WithFields(row, v, valid, dirty) ==
    {p \in row : p % 4 # v}
    \cup {DirtyAt(w, v) : w \in dirty \cup (IF Parity(dirty) = 1 THEN {L2Ways} ELSE {})}
    \cup {ValidAt(w, v) : w \in valid \cup (IF Parity(valid) = 1 THEN {L2Ways} ELSE {})}

\* slam_vuad, updated_vd: turn_on_valid and turn_off_dirty are both set by
\* the constructor and no plusarg clears them.
slam_vuad(vd, b, w, ix) ==
    LET row == Get(vd, VdRow(b, ix), {})
        v   == VdWord(ix)
    IN  Put(vd, VdRow(b, ix), WithFields(row, v, ValidWays(row, v) \cup {w}, DirtyWays(row, v)))

\* slam_real_data, adjust_data: piece i goes to sub-bank 3 - i.  An error
\* is a bit in each of the four words; an uncorrectable one flips another
\* bit of one of them, which may be the same bit.
slam_real_data(data, b, w, ix, pieces, flip, more) ==
    [k \in DOMAIN data \cup {<<b, s, w, ix>> : s \in 0..3} |->
        IF k[1] = b /\ k[3] = w /\ k[4] = ix
        THEN [from |-> pieces[3 - k[2]], flips |-> XorBits(flip, more)] ELSE data[k]]

\* The ways slam may choose: in turn, or at random.
Ways12 == 0..(L2Ways - 1)
Turn(b) == IF wmPick.rr[b] > L2Ways - 1 THEN 0 ELSE wmPick.rr[b]
ChosenWays(b) == IF wmMode.replace THEN {Turn(b)} ELSE Ways12

InRange(a) == ~wmMode.range \/ (Below(a, wmMode.up) /\ ~Below(a, wmMode.low))

Slam(a, w, flip, more) ==
    LET b == BankOf(a) ix == IndexOf(a) IN
    /\ w \in ChosenWays(b)
    /\ wmTags' = slam_tag(wmTags, b, w, ix, TagOf(a), flip)
    /\ wmVd' = slam_vuad(wmVd, b, w, ix)
    /\ wmData' = slam_real_data(wmData, b, w, ix, [i \in 0..3 |-> Piece(a, i)], flip, more)
    /\ wmPick' = [wmPick EXCEPT
          !.rr[b] = IF ~wmMode.replace THEN @ ELSE IF @ > L2Ways - 1 THEN 0 ELSE @ + 1,
          !.board = @ \cup {<<b, w, ix>>}, !.last[b] = LineAddr(a), !.tag = TagOf(a)]

\* l2_warm_call: the next address of addr_list
WarmL2 ==
    /\ wmPhase = "l2" /\ wmMode.l2warm /\ wmTodo # <<>>
    /\ wmTodo' = Tail(wmTodo)
    /\ LET a == Head(wmTodo) IN
       /\ wmNext' = IF InMemory(a) /\ wmMode.l1warm THEN Append(wmNext, a) ELSE wmNext
       /\ IF InMemory(a) /\ InRange(a)
          THEN \E w \in Ways12, flip \in Flips(wmMode.error), more \in Flips(wmMode.uncorrect) :
                  Slam(a, w, flip, more)
          ELSE UNCHANGED wmL2Vars
    /\ UNCHANGED <<wmMode, wmPhase, wmL1Vars, wmRunVars>>

\* warm_all_cache: a tag above the last line of the bank that memory does
\* not have at that line's index
RECURSIVE FreeLine(_)
FreeLine(a) == LET n == Mask(Plus(a, 18), 40) IN IF n \in WmMemory THEN FreeLine(n) ELSE n

\* all ways that were not slammed, of all indexes; one choice of flipped
\* bits stands for the choices of the slams
WarmAll(flip) ==
    LET free == [b \in Banks4 |-> FreeLine(wmPick.last[b])]
        keys == {<<b, o[1], o[2]>> : b \in Banks4, o \in Ways12 \X WmRows} \ wmPick.board
        row(r) == {k \in keys : VdRow(k[1], k[3]) = r}
        rows == {VdRow(k[1], k[3]) : k \in keys}
        ways(r, v) == {k[2] : k \in {j \in row(r) : VdWord(j[3]) = v}}
    IN  /\ wmTags' = [k \in DOMAIN wmTags \cup keys |->
              IF k \in keys THEN [tag |-> TagOf(free[k[1]]), flips |-> flip] ELSE wmTags[k]]
        /\ wmVd' = [r \in DOMAIN wmVd \cup rows |->
              LET old == Get(wmVd, r, {})
                  one(v, acc) == WithFields(acc, v, ValidWays(acc, v) \cup ways(r, v), DirtyWays(acc, v))
              IN  one(3, one(2, one(1, one(0, old))))]
        /\ wmData' = [d \in DOMAIN wmData \cup {<<k[1], s, k[2], k[3]>> : k \in keys, s \in 0..3} |->
              IF <<d[1], d[3], d[4]>> \in keys THEN [from |-> Random16(3 - d[2]), flips |-> flip]
              ELSE wmData[d]]
        /\ wmPick' = [wmPick EXCEPT !.last = free, !.tag = TagOf(free[3])]

\* the end of l2_warm_call
L2Done ==
    /\ wmPhase = "l2" /\ (wmTodo = <<>> \/ ~wmMode.l2warm)
    /\ wmPhase' = "l1"
    /\ IF wmMode.l2warm /\ wmMode.all THEN \E flip \in Flips(wmMode.error) : WarmAll(flip)
       ELSE UNCHANGED wmL2Vars
    /\ wmTodo' = IF ~wmMode.l2warm /\ ~wmMode.l1warm THEN <<>> ELSE wmTodo
    /\ UNCHANGED <<wmMode, wmNext, wmL1Vars, wmRunVars>>

-----------------------------------------------------------------------------
(* l1warm.  set_cpu is given argument 1 of $l1_warm, the selector, which   *)
(* is 1: core 0 is the only one that is ever slammed.                      *)

\* The address of the 16 bytes number n of a line
Sub(a, n) == LineAddr(a) \cup Shl({i \in 0..1 : (n \div 2^i) % 2 = 1}, 4)
Bit(a, i) == IF i \in a THEN 1 ELSE 0

ITag(s) == Bits(s, 12, 28)
\* itag with its parity, as the array holds it
WithParity(t, n) == t \cup (IF Parity(t) = 1 THEN {n} ELSE {})
ISlot(s, w) == <<"i", w, Bits(s, 5, 7)>>
DSlot(s, w) == <<"d", w, Bits(s, 4, 7)>>

\* which_way: the way of the instruction cache whose tag, without its
\* lowest bit, is the tag of the address; any way if none is
Matching(a) == {w \in 0..3 : /\ ISlot(a, w) \in wmVld
                             /\ Bits(wmL1[ISlot(a, w)].tag, 1, 28) = ITag(a)}
which_way(a) == IF Matching(a) # {} THEN {Min(Matching(a))} ELSE 0..3

\* slam_icache: 32 bytes; slam_dcache: 16 bytes
IData(s, n) == <<Piece(s, n), Piece(s, n + 1)>>
DData(s, n) == <<Piece(s, n)>>
ILine(s, n) == [tag |-> WithParity(ITag(s), 28), data |-> IData(s, n)]
DLine(s, n) == [tag |-> WithParity(Bits(s, 11, 29), 29), data |-> DData(s, n)]

\* slam_idirectory, slam_ddirectory: panel <bank, row, column> and entry
Entry(s, w) == 2 * w + Bit(s, 8)
IPanel(s) == <<"i", BankOf(s), Bit(s, 11) + 2 * Bit(s, 5), Number(Bits(s, 9, 2))>>
DPanel(s) == <<"d", BankOf(s), Number(Bits(s, 4, 2)), Number(Bits(s, 9, 2))>>
DirTag(s) == Bits(s, 10, 30)

\* Mutant: both halves go to the directory under the first one's address.
IHalves_same(a, w) ==
    {[slot |-> ISlot(Sub(a, n), w), line |-> ILine(Sub(a, n), n), panel |-> IPanel(LineAddr(a)),
      entry |-> Entry(a, w), tag |-> DirTag(a)] : n \in {0, 2}}

\* What a line becomes in each cache: the two slots and entries of slam_ionly
\* and the four of slam_donly.
IHalves(a, w) ==
    {[slot |-> ISlot(Sub(a, n), w), line |-> ILine(Sub(a, n), n), panel |-> IPanel(Sub(a, n)),
      entry |-> Entry(Sub(a, n), w), tag |-> DirTag(Sub(a, n))] : n \in {0, 2}}
DQuarters(a, w) ==
    {[slot |-> DSlot(Sub(a, n), w), line |-> DLine(Sub(a, n), n), panel |-> DPanel(Sub(a, n)),
      entry |-> Entry(Sub(a, n), w), tag |-> DirTag(Sub(a, n))] : n \in 0..3}

\* Valid and parity bits are only ever turned on.
SlamL1(parts) ==
    LET slots  == {p.slot : p \in parts}
        keys   == {<<p.panel, p.entry>> : p \in parts}
        panels == {p.panel : p \in parts}
        on(f, q, add(_)) == Get(f, q, {}) \cup {p.entry : p \in {r \in parts : r.panel = q /\ add(r)}}
    IN  /\ wmL1' = [k \in DOMAIN wmL1 \cup slots |->
              IF k \in slots THEN (CHOOSE p \in parts : p.slot = k).line ELSE wmL1[k]]
        /\ wmVld' = wmVld \cup slots
        /\ wmDirTag' = [k \in DOMAIN wmDirTag \cup keys |->
              IF k \in keys THEN (CHOOSE p \in parts : <<p.panel, p.entry>> = k).tag ELSE wmDirTag[k]]
        /\ wmDirVld' = [q \in DOMAIN wmDirVld \cup panels |-> on(wmDirVld, q, LAMBDA r : TRUE)]
        /\ wmDirPar' = [q \in DOMAIN wmDirPar \cup panels |-> on(wmDirPar, q, LAMBDA r : Parity(r.tag) = 1)]

InBounds(a, b) == Below(a, b.up) /\ ~Below(a, b.low)

\* which_cache: random() & 1 + 1 is 0 or 2, so that the data cache is only
\* chosen when the instruction cache has had its share, and every other
\* draw for the instruction cache slams nothing.
Draws == {0, 2}
which_cache(draw) ==
    LET full == wmQuota.i = wmMode.icache
        q    == IF full THEN [wmQuota EXCEPT !.d = @ + 1] ELSE [wmQuota EXCEPT !.i = @ + 1]
    IN  [cache |-> IF full THEN 1 ELSE draw,
         quota |-> IF q.i = wmMode.icache /\ q.d = wmMode.dcache THEN [i |-> 0, d |-> 0] ELSE q]

Nothing1 == UNCHANGED <<wmL1, wmVld, wmDirTag, wmDirVld, wmDirPar>>
slam(a, w, draw) ==
    LET i == wmMode.irange # <<>> /\ InBounds(LineAddr(a), wmMode.irange[1])
        d == wmMode.drange # <<>> /\ InBounds(LineAddr(a), wmMode.drange[1])
        c == which_cache(draw)
    IN  CASE i -> SlamL1(IHalves(a, w)) /\ UNCHANGED wmQuota
          [] ~i /\ d -> SlamL1(DQuarters(a, w)) /\ UNCHANGED wmQuota
          [] ~i /\ ~d /\ (wmMode.irange # <<>> \/ wmMode.drange # <<>>) -> Nothing1 /\ UNCHANGED wmQuota
          [] wmMode.irange = <<>> /\ wmMode.drange = <<>> ->
                /\ wmQuota' = c.quota
                /\ CASE c.cache = 1 -> SlamL1(DQuarters(a, w))
                     [] c.cache = 2 -> SlamL1(IHalves(a, w))
                     [] c.cache = 0 -> Nothing1

\* l1_warm_call with selector 3: the next address of the list
L1List == IF wmMode.l2warm THEN wmNext ELSE wmTodo
WarmL1 ==
    /\ wmPhase = "l1" /\ wmMode.l1warm /\ L1List # <<>>
    /\ LET a == Head(L1List) IN
       IF InMemory(a)
       THEN \E w \in which_way(LineAddr(a)), draw \in Draws : slam(a, w, draw)
       ELSE Nothing1 /\ UNCHANGED wmQuota
    /\ wmNext' = IF wmMode.l2warm THEN Tail(wmNext) ELSE wmNext
    /\ wmTodo' = IF wmMode.l2warm THEN wmTodo ELSE Tail(wmTodo)
    /\ UNCHANGED <<wmMode, wmPhase, wmL2Vars, wmPub, wmRunVars>>

\* store_parity starts one argument too far: the parity registers are given
\* the valid bits, the valid registers nothing.
StoreParity ==
    /\ wmPhase = "l1" /\ (L1List = <<>> \/ ~wmMode.l1warm)
    /\ wmPhase' = "reset" /\ wmNext' = <<>>
    /\ wmPub' = IF wmMode.l1warm THEN [wmPub EXCEPT !.par = wmDirVld] ELSE wmPub
    /\ UNCHANGED <<wmMode, wmTodo, wmL2Vars, wmL1, wmVld, wmDirTag, wmDirVld, wmDirPar, wmQuota, wmRunVars>>

\* l1_warm_call with selector 2, at the end of reset: store_valid
StoreValid ==
    /\ wmPhase = "reset" /\ wmPhase' = "run"
    /\ wmPub' = IF wmMode.l1warm THEN [wmPub EXCEPT !.vld = wmDirVld] ELSE wmPub
    /\ UNCHANGED <<wmMode, wmTodo, wmNext, wmL2Vars, wmL1, wmVld, wmDirTag, wmDirVld, wmDirPar, wmQuota, wmRunVars>>

-----------------------------------------------------------------------------
(* l2_error_call, every cycle: a write that one call sees is damaged by    *)
(* the next one, unless the entry is written again.  The chip writes at    *)
(* most one tag and some data words of bank w.bank; pos is the way as the  *)
(* argument list gives it, 12 when enable and way do not agree.            *)

\* l2_tag_update and l2_data_update record a write if percent() lets them.
Taken(writes) == IF wmMode.percent THEN SUBSET DOMAIN writes ELSE {DOMAIN writes}
TagSeen(w) == [i \in DOMAIN w.tag |-> [pos |-> w.tag[i].way, index |-> w.tag[i].index]]
\* the memory of the even way, whichever of the pair was written
DataSeen(d) == [sub |-> d.sub, pos |-> 2 * (d.way \div 2), index |-> d.index]
\* An odd way moves tag_pos instead of data_pos.
Bump(seen, w, taken) == [i \in DOMAIN seen |->
    [seen[i] EXCEPT !.pos = @ + Cardinality({j \in taken : w.data[j].way % 2 = 1})]]

Tagged(b, seen) == {<<b, seen[i].pos, seen[i].index>> : i \in {j \in DOMAIN seen : seen[j].pos < L2Ways}}

\* Mutant: a write of this call does not take back the one before.
Unless_never(pend, seen) == pend

\* *_pend_now ^= 1 << bank when the same entry is written again
Unless(pend, seen) == IF pend = seen THEN <<>> ELSE pend

\* slam_tag_error: only a word without an error is damaged.
Damageable(tags, k) == k \in DOMAIN tags /\ Parity(tags[k].flips) = 0

\* slam_data_error: the first word of an entry, if the draw and the parity
\* of what the buffer happens to hold let it; the other three words are
\* changed in the buffer but not written back.
slam_data_error(pend) ==
    {<<c, pend[c][1].sub, pend[c][1].pos, pend[c][1].index>> : c \in {b \in Banks4 : pend[b] # <<>>}}

l2_error(w) ==
    \E takeT \in Taken(w.tag), takeD \in Taken(w.data), fT, fD \in WmFlips, hitD \in BOOLEAN :
        LET b     == w.bank
            tagN  == IF takeT # {} THEN TagSeen(w) ELSE <<>>
            dataN == IF takeD # {} THEN <<DataSeen(w.data[Max(takeD)])>> ELSE <<>>
            tagP  == [c \in Banks4 |-> IF c = b /\ tagN # <<>> THEN Unless(wmPend.tag[c], tagN) ELSE wmPend.tag[c]]
            again == {<<DataSeen(w.data[j])>> : j \in takeD}
            dataP == [c \in Banks4 |-> IF c = b /\ wmPend.data[c] \in again THEN <<>> ELSE wmPend.data[c]]
            hitT  == {k \in UNION {Tagged(c, tagP[c]) : c \in Banks4} : Damageable(wmTags, k)}
            dHit  == IF hitD THEN slam_data_error(dataP) ELSE {}
            wrT   == {<<b, w.tag[i].way, w.tag[i].index>> : i \in {j \in DOMAIN w.tag : w.tag[j].way < L2Ways}}
            wrD   == {<<b, d.sub, d.way, d.index>> : d \in {w.data[j] : j \in DOMAIN w.data}}
        IN  /\ wmTags' = [k \in DOMAIN wmTags \cup wrT |->
                  IF k \in wrT THEN [tag |-> {}, flips |-> {}]
                  ELSE IF k \in hitT THEN [wmTags[k] EXCEPT !.flips = XorBits(@, {fT})] ELSE wmTags[k]]
            /\ wmData' = [k \in DOMAIN wmData \cup wrD |->
                  IF k \in wrD THEN [from |-> Random16(3 - k[2]), flips |-> {}]
                  ELSE IF k \in dHit THEN [wmData[k] EXCEPT !.flips = XorBits(@, {fD})] ELSE wmData[k]]
            /\ wmPend' = [tag  |-> [c \in Banks4 |-> IF c = b THEN Bump(tagN, w, takeD) ELSE <<>>],
                          data |-> [c \in Banks4 |-> IF c = b THEN dataN ELSE <<>>]]
            /\ wmHit' = [before |-> wmHit.now, now |-> [tag |-> wrT, data |-> wrD],
                         tag |-> hitT, data |-> dHit]
ErrorCall ==
    /\ wmPhase = "run" /\ wmMode.run /\ wmCount < WmCycles
    /\ \E w \in wmMode.writes : l2_error(w)
    /\ wmCount' = wmCount + 1
    /\ UNCHANGED <<wmMode, wmPhase, wmTodo, wmNext, wmVd, wmPick, wmL1Vars, wmInval, wmDram>>

-----------------------------------------------------------------------------
(* The event invalid_cache (pc_trigger_call).                              *)

\* The chip stores to a line that is in the L2 cache (once).
ChipStore ==
    /\ wmPhase = "run" /\ wmMode.event /\ wmInval.wait = 0 /\ wmDram = {}
    /\ \A r \in DOMAIN wmVd : \A v \in 0..3 : DirtyWays(wmVd[r], v) = {}
    /\ \E k \in DOMAIN wmTags :
          LET row == wmVd[VdRow(k[1], k[3])] v == VdWord(k[3]) IN
          /\ k[2] \in ValidWays(row, v)
          /\ wmVd' = [wmVd EXCEPT ![VdRow(k[1], k[3])] = WithFields(row, v, ValidWays(row, v), {k[2]})]
    /\ UNCHANGED <<wmMode, wmPhase, wmTodo, wmNext, wmTags, wmData, wmPick, wmL1Vars, wmRunVars>>

Trigger ==
    /\ wmPhase = "run" /\ wmMode.event /\ ~wmInval.on /\ wmCount = 0
    /\ wmInval' = [wait |-> wmMode.wait, cpus |-> {0}, banks |-> Banks4, on |-> TRUE]
    /\ UNCHANGED <<wmMode, wmPhase, wmTodo, wmNext, wmL2Vars, wmL1Vars, wmPend, wmHit, wmDram, wmCount>>

CountDown ==
    /\ wmInval.on /\ wmInval.wait > 0
    /\ wmInval' = [wmInval EXCEPT !.wait = @ - 1]
    /\ UNCHANGED <<wmMode, wmPhase, wmTodo, wmNext, wmL2Vars, wmL1Vars, wmPend, wmHit, wmDram, wmCount>>

\* A value of type int as a long long
Int32(s) == Mask(s, 32) \cup (IF 31 \in s THEN 32..63 ELSE {})

\* get_tag reads the tag and shifts the member "tag" instead; gen_addr makes
\* the address to write back to from it.
get_tag == Mask(Shr(wmPick.tag, 6), 18)
gen_addr(b, ix) == Int32(Shl(get_tag, 18)) \cup Shl(ix, 8) \cup Shl({i \in 0..1 : (b \div 2^i) % 2 = 1}, 6)
\* l2_invalidate writes back the dirty lines of the banks and clears the bits.
DirtyLines(idle) ==
    {k \in DOMAIN wmTags : k[1] \in idle /\ VdRow(k[1], k[3]) \in DOMAIN wmVd
        /\ k[2] \in DirtyWays(wmVd[VdRow(k[1], k[3])], VdWord(k[3]))
                       \cap ValidWays(wmVd[VdRow(k[1], k[3])], VdWord(k[3]))}
WriteBack(idle) ==
    LET lines == DirtyLines(idle) IN
    /\ wmDram' = wmDram \cup {[addr |-> gen_addr(k[1], k[3]), of |-> k] : k \in lines}
    /\ wmPick' = IF lines # {} THEN [wmPick EXCEPT !.tag = get_tag] ELSE wmPick
    /\ wmVd' = [r \in DOMAIN wmVd |-> IF r[1] \in idle THEN {} ELSE wmVd[r]]

\* pc_trigger_call with type 2; stb: the store buffer of core 0 holds
\* something; idle: the banks whose miss buffers are empty.  A bank that is
\* idle in two calls is turned on again by the second one.
Invalidate(stb, idle) ==
    LET cpus  == IF stb THEN wmInval.cpus ELSE {}
        first == wmInval.cpus # {}
        banks == IF first THEN wmInval.banks ELSE XorBits(wmInval.banks, idle)
    IN  /\ wmInval.on /\ wmInval.wait = 0 /\ wmCount < WmCycles
        /\ wmVld' = IF first /\ ~stb THEN {} ELSE wmVld
        /\ IF ~first /\ wmInval.banks # {} THEN WriteBack(idle) ELSE UNCHANGED <<wmVd, wmPick, wmDram>>
        /\ wmInval' = [wmInval EXCEPT !.cpus = cpus, !.banks = banks, !.on = (banks # {} \/ cpus # {})]
        /\ wmCount' = wmCount + 1
        /\ UNCHANGED <<wmMode, wmPhase, wmTodo, wmNext, wmTags, wmData, wmPend, wmHit,
                       wmL1, wmDirTag, wmDirVld, wmDirPar, wmPub, wmQuota>>
InvalidateCall == \E stb \in BOOLEAN, idle \in SUBSET Banks4 : Invalidate(stb, idle)

-----------------------------------------------------------------------------
\* option: the plusargs of both caches
WmOptions == wmMode \in WmModes
\* l2warm::l2warm
L2Start ==
    /\ wmPick = [rr |-> [b \in Banks4 |-> 0], board |-> {}, last |-> [b \in Banks4 |-> {}], tag |-> {}]
    /\ wmPend = [tag |-> [b \in Banks4 |-> <<>>], data |-> [b \in Banks4 |-> <<>>]]
    /\ wmInval = [wait |-> 0, cpus |-> {}, banks |-> {}, on |-> FALSE]
\* l2_clear_vuad
L2Empty == wmTags = <<>> /\ wmVd = <<>> /\ wmData = <<>>
\* l1warm::l1warm
L1Start ==
    /\ wmQuota = [i |-> 0, d |-> 0]
    /\ wmDirTag = <<>> /\ wmDirVld = <<>> /\ wmDirPar = <<>> /\ wmPub = [vld |-> <<>>, par |-> <<>>]
\* l1warm::set clears the valid registers
L1Set == wmL1 = <<>> /\ wmVld = {}
WmInit ==
    /\ WmOptions /\ wmTodo \in WmLists /\ wmPhase = "l2" /\ wmNext = <<>>
    /\ L2Start /\ L2Empty /\ L1Start /\ L1Set
    /\ wmHit = [before |-> [tag |-> {}, data |-> {}], now |-> [tag |-> {}, data |-> {}], tag |-> {}, data |-> {}]
    /\ wmDram = {} /\ wmCount = 0

WmNext == WarmL2 \/ L2Done \/ WarmL1 \/ StoreParity \/ StoreValid
          \/ ErrorCall \/ ChipStore \/ Trigger \/ CountDown \/ InvalidateCall

-----------------------------------------------------------------------------
(* Until the chip runs, a valid way of the L2 cache that was slammed from  *)
(* the image holds the four pieces of one line of memory under that line's *)
(* tag and index, every row's valid and dirty fields have even parity, and *)
(* nothing is dirty.  Rows are shared by four indexes, and a later line    *)
(* may take any way.                                                       *)
FieldsEven(row, v) ==
    /\ Parity({w \in 0..L2Ways : ValidAt(w, v) \in row}) = 0
    /\ Parity({w \in 0..L2Ways : DirtyAt(w, v) \in row}) = 0
Holds(k, a) ==
    /\ k[1] = BankOf(a) /\ k[3] = IndexOf(a) /\ wmTags[k].tag = TagOf(a)
    /\ \A s \in 0..3 : wmData[<<k[1], s, k[2], k[3]>>].from = Piece(a, 3 - s)
L2Warmed ==
    wmPhase \in {"l1", "reset"} =>
        /\ \A r \in DOMAIN wmVd : \A v \in 0..3 : FieldsEven(wmVd[r], v) /\ DirtyWays(wmVd[r], v) = {}
        /\ \A k \in wmPick.board :
              /\ k[2] \in ValidWays(wmVd[VdRow(k[1], k[3])], VdWord(k[3]))
              /\ \E a \in WmMemory : Holds(k, a)
        /\ \A k \in DOMAIN wmTags : k \notin wmPick.board => \A a \in WmMemory : BankOf(a) = k[1] =>
              (IndexOf(wmPick.last[k[1]]) = IndexOf(a) => wmTags[k].tag # TagOf(a))

(* When the chip leaves reset, every valid line of an L1 cache is a line   *)
(* of memory with that line's data, and the directory of the L2 cache has  *)
(* a valid entry at the place the chip looks it up under, with its tag:    *)
(* also when a later line took its slot.                                   *)
Named(k, p) ==
    LET e == <<p.panel, p.entry>> IN
    k = p.slot => /\ e \in DOMAIN wmDirTag /\ p.entry \in Get(wmPub.vld, p.panel, {})
                  /\ (wmL1[k] = p.line => wmDirTag[e] = p.tag)
Places(a, w) == UNION {LET s == Sub(a, n) IN
    {[slot |-> DSlot(s, w), line |-> DLine(s, n), panel |-> <<"d", BankOf(s), Number(Bits(s, 4, 2)), Number(Bits(s, 9, 2))>>,
      entry |-> 2 * w + Bit(s, 8), tag |-> Bits(s, 10, 30)]}
    \cup (IF n % 2 = 1 THEN {} ELSE
    {[slot |-> ISlot(s, w), line |-> ILine(s, n), panel |-> <<"i", BankOf(s), 2 * Bit(s, 5) + Bit(s, 11), Number(Bits(s, 9, 2))>>,
      entry |-> 2 * w + Bit(s, 8), tag |-> Bits(s, 10, 30)]}) : n \in 0..3}
DirectoryExact ==
    wmPhase = "run" => \A k \in wmVld :
        \E a \in WmMemory : \E p \in Places(a, k[2]) : k = p.slot /\ wmL1[k] = p.line /\ Named(k, p)

(* Warming leaves caches and directories the running chip can rely on.     *)
WarmedExact == L2Warmed /\ DirectoryExact

(* A tag is never damaged twice without being written in between: every    *)
(* error injected into a tag is one a single error correcting code can     *)
(* repair, whether warming or the running chip put the tag there.          *)
TagErrorsSingle == \A k \in DOMAIN wmTags : Cardinality(wmTags[k].flips) <= 1

(* With every write considered (no l2run_percent), a tag or a pair of data *)
(* words that is damaged was written by the call before and not again by   *)
(* this one.  (A data write of an odd way moves the position of the tag    *)
(* recorded with it: those calls are left out.)                            *)
InjectsWritten ==
    (wmMode.run /\ ~wmMode.percent) =>
        /\ (\A d \in wmHit.before.data : d[3] % 2 = 0) =>
               wmHit.tag \subseteq wmHit.before.tag \ wmHit.now.tag
        /\ \A h \in wmHit.data :
              /\ \E d \in wmHit.before.data : d = [h EXCEPT ![3] = d[3]] /\ d[3] \div 2 = h[3] \div 2
              /\ h \notin wmHit.now.data

(* Injected errors are correctable and hit what was written.               *)
ErrorsCorrectable == TagErrorsSingle /\ InjectsWritten
=============================================================================
