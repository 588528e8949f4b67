------------------------------ MODULE DramMem ------------------------------
(***************************************************************************)
(* The DRAM model of the test bench (tools/pli/mem/mem.c): a sparse memory *)
(* of the DIMMs, loaded from the image file that goldfinger writes, read   *)
(* and written nibble by nibble by the simulated chips, and filled in with *)
(* random data and matching ECC when a place is read that nothing was      *)
(* loaded into.                                                            *)
(*                                                                         *)
(* An address is the set of its bits that are 1, so that the bank hashing, *)
(* the shifts and the masks are those of the code on 40-bit addresses.  A  *)
(* node of the memory has four channels of 16 bytes: two words and an ECC. *)
(* ECC is abstracted to what it covers: both words and the parity of the   *)
(* physical address (module EccCodes has the codes themselves).            *)
(*                                                                         *)
(* With spill_dram= nothing is kept: the image is converted to a file for  *)
(* another memory model, which writes every line in order.                 *)
(***************************************************************************)
EXTENDS Sequences, SequencesExt, BitSets

CONSTANTS DmCases,    \* pairs of a configuration and an image to load
          DmProbes,   \* physical addresses the chips access
          DmWords,    \* the values a word written by the chips has
          Hundred,    \* the draws of a window of percent() (100)
          DmAccesses  \* bound: accesses of the chips after loading

VARIABLES dmMode,     \* dram_type and the plusargs
          dmImage,    \* the lines of the image not read yet
          dmAddr, dmNew, dmBeg,   \* addr, new_addr, beg of build_rdram
          dmMem,      \* dram_tree->data: node |-> channel |-> line
          dmZero,     \* dram_tree->obj: the zero_bytes ranges
          dmPrev,     \* prev_addr, prev_ptr: the node read last
          dmDraws,    \* taken and not_taken of percent
          dmHit,      \* dram_error_counter
          dmFile, dmRecent, dmLo, \* spilled lines; alist and cptr; ecc[0..7]
          dmWant,     \* ghost: words the image and the chips stored
          dmCount

dmLoad == <<dmImage, dmAddr, dmNew, dmBeg, dmZero, dmFile, dmRecent, dmLo>>
dmVars == <<dmMode, dmLoad, dmMem, dmPrev, dmDraws, dmHit, dmWant, dmCount>>

Zero == "zero"
Random == "random"
Unset == "unset"

-----------------------------------------------------------------------------
\* (d & mask of k bits) | ((d >> (k + n)) << k)
Drop(d, k, n) == Mask(d, k) \cup Shl(Shr(d, k + n), k)

-----------------------------------------------------------------------------
(* cal_4channel and cal_2channel: the node of a physical address.          *)
Banks(m) == IF m.banks3 THEN 3 ELSE 2

\* The bank bits from bit "base" on, xored with two fields of the row.
Hashed(s, base, f1, f2, n) ==
    (s \ (base..(base + n - 1))) \cup
    Shl(XorBits(Bits(s, base, n), XorBits(Bits(s, f1, n), Bits(s, f2, n))), base)

Base(m) == IF m.two THEN 7 ELSE 8
\* the first address bit above the row
Top(m) == (IF m.two THEN 31 ELSE 32) + m.size
\* the bit of a node's number where stack and rank were; bit 1 of the size
\* is taken for "3 bank bits"
Low(m) == IF m.size \in {2, 3} THEN 5 ELSE 4

\* The node from the address x whose bank bits are hashed.
NodeOf(m, x) ==
    LET d  == Shl(Shr(IF m.old THEN x ELSE Mask(x, Top(m)), Base(m)), 2)
                \cup Bits(x, 4, 2)
        at == Low(m) - 2 + Base(m)
        cs == CASE m.old /\ ~m.stack /\ ~m.rank -> {}
                [] m.old /\ m.stack /\ ~m.rank  -> Bits(x, at, 1)
                [] m.old /\ ~m.stack /\ m.rank  -> Shl(Bits(x, at, 1), 1)
                [] m.old /\ m.stack /\ m.rank   -> Bits(x, at, 2)
                [] ~m.old /\ m.stack            -> Bits(x, Top(m), 2)
                [] ~m.old /\ ~m.stack           -> Shl(Bits(x, Top(m), 1), 1)
        e  == CASE ~m.old \/ (~m.stack /\ ~m.rank) -> d
                [] m.old /\ m.stack # m.rank       -> Drop(d, Low(m), 1)
                [] m.old /\ m.stack /\ m.rank /\ ~m.two -> Drop(d, Low(m), 2)
                [] m.old /\ m.stack /\ m.rank /\ m.two ->
                      Mask(d, Low(m) + 1) \cup Shl(Shr(d, Low(m) + 2), Low(m))
    IN  e \cup Shl(cs, 29)

way(m, a) == NodeOf(m, Hashed(a, Base(m), 18, 28, Banks(m)))

bank(m, a) ==
    IF ~m.two THEN Number(Bits(a, 6, 2))
    ELSE LET s == Number(Bits(a, 6, 1))
         IN  CASE m.pair = "01" -> s [] m.pair = "23" -> 2 + s
               [] m.pair = "03" -> 3 * s [] m.pair = "21" -> 2 - s

\* addr_parity as the loader and the controller use it
addr_parity(m, a) == Parity(Shr(a, Base(m)))

-----------------------------------------------------------------------------
(* store_into_rdram: a word of the image.                                  *)
NoLine == [lo |-> Unset, hi |-> Unset, ecc |-> <<>>]
NoNode == [c \in 0..3 |-> NoLine]
Node(mem, k) == IF k \in DOMAIN mem THEN mem[k] ELSE NoNode
With(mem, k, c, line) ==
    [x \in DOMAIN mem \cup {k} |-> [Node(mem, x) EXCEPT
        ![c] = IF x = k THEN line ELSE @]]

\* The word goes into its half of the line; the second one completes the
\* ECC, from both halves as they are stored.
store_into_rdram(m, s, v) ==
    LET k == way(m, s.addr)
        c == bank(m, s.addr)
        l == Node(s.mem, k)[c]
        n == IF 3 \in s.addr
             THEN [l EXCEPT !.hi = v,
                            !.ecc = <<l.lo, v, addr_parity(m, s.addr)>>]
             ELSE [l EXCEPT !.lo = v]
    IN  [s EXCEPT !.mem = With(s.mem, k, c, n), !.addr = Plus(s.addr, 3)]

\* check_alist: the last four addresses written to the file
check_alist(recent, a) ==
    IF \E i \in 1..Len(recent) : recent[i] = a THEN recent
    ELSE LET r == Append(recent, a) IN IF Len(r) > 4 THEN Tail(r) ELSE r

SpillLine(a) == Shr(Hashed(a, 8, 18, 28, 3), 4)

\* The same for the file: a line is written when its second word is there,
\* unless one of the last four has its address and it is all zero.
Spilled(s, v) ==
    LET a == SpillLine(s.addr)
        fresh == ~\E i \in 1..Len(s.recent) : s.recent[i] = a
        data  == <<s.lo, v>>
    IN  IF 3 \notin s.addr
        THEN [s EXCEPT !.lo = v, !.addr = Plus(s.addr, 3)]
        ELSE [s EXCEPT
                !.file = IF (fresh \/ data # <<Zero, Zero>>) /\ Mask(s.addr, 37) = s.addr
                         THEN Append(@, <<a, data>>) ELSE @,
                !.recent = IF Mask(s.addr, 37) = s.addr
                           THEN check_alist(@, a) ELSE @,
                !.addr = Plus(s.addr, 3)]

Store(m, s, v) == IF m.spill THEN Spilled(s, v) ELSE store_into_rdram(m, s, v)
StoreAll(m, s, words) == FoldLeft(LAMBDA t, v : Store(m, t, v), s, words)

Zeros(n) == [i \in 1..n |-> Zero]
Offset(a) == Number(Bits(a, 3, 3))       \* word of a 64-byte line
LineOf(a) == a \ (0..5)

\* padding: a line is filled up to four words
Padded(w) == w \o Zeros(4 - Len(w))
\* padding_zero: the first line of a section starts at its 64-byte line
padding_zero(a, w) == Zeros(Offset(a)) \o w

State == [mem |-> dmMem, addr |-> dmAddr, file |-> dmFile,
          recent |-> dmRecent, lo |-> dmLo]
Become(s) == /\ dmMem' = s.mem /\ dmFile' = s.file
             /\ dmRecent' = s.recent /\ dmLo' = s.lo
Advance == dmImage' = Tail(dmImage)

(* build_rdram, one line of the image.  A section that ended in the middle *)
(* of a 64-byte line is filled up when the next one starts.                *)
Section(m, a) ==
    LET s1 == IF Offset(dmAddr) # 0 THEN StoreAll(m, State, Zeros(4)) ELSE State
        s2 == IF Offset(a) # 0 /\ m.spill
              THEN StoreAll(m, [s1 EXCEPT !.addr = LineOf(a)], Zeros(4)) ELSE s1
    IN  Become(s2) /\ dmAddr' = a /\ dmNew' = TRUE

ReadAddress ==
    /\ dmImage # <<>> /\ Head(dmImage).k = "at"
    /\ Section(dmMode, Head(dmImage).a)
    /\ Advance
    /\ UNCHANGED <<dmMode, dmBeg, dmZero, dmPrev, dmDraws, dmHit, dmWant,
                   dmCount>>

ReadData ==
    /\ dmImage # <<>> /\ Head(dmImage).k = "data"
    /\ LET w  == Head(dmImage).w
           up == ~dmMode.spill /\ (dmNew \/ dmBeg)
           s  == IF up THEN StoreAll(dmMode, [State EXCEPT !.addr = LineOf(dmAddr)],
                                     padding_zero(dmAddr, Padded(w)))
                 ELSE StoreAll(dmMode, State, Padded(w))
           at == [i \in 1..Len(w) |-> IF i = 1 THEN dmAddr ELSE
                    FoldLeft(LAMBDA a, x : Plus(a, 3), dmAddr, Zeros(i - 1))]
       IN  /\ Become(s) /\ dmAddr' = s.addr
           /\ dmWant' = [a \in DOMAIN dmWant \cup Range(at) |->
                IF \E i \in 1..Len(w) : at[i] = a
                THEN w[CHOOSE i \in 1..Len(w) : at[i] = a] ELSE dmWant[a]]
    /\ dmNew' = FALSE /\ dmBeg' = FALSE
    /\ Advance
    /\ UNCHANGED <<dmMode, dmZero, dmPrev, dmDraws, dmHit, dmCount>>

\* denali_data: the zero lines of a range go into the file.
RECURSIVE denali_data(_, _)
denali_data(s, n) ==
    IF n = 0 THEN s
    ELSE LET a == SpillLine(s.addr)
             low == Mask(s.addr, 37) = s.addr
         IN  denali_data([s EXCEPT
                !.file = IF low /\ ~\E i \in 1..Len(s.recent) : s.recent[i] = a
                         THEN Append(@, <<a, <<Zero, Zero>> >>) ELSE @,
                !.recent = IF low THEN check_alist(@, a) ELSE @,
                !.addr = Plus(s.addr, 4)], n - 1)

(* check_single_comment: zero_bytes advances the address and leaves the    *)
(* range, in node numbers, to check_zero_byte.                             *)
ReadZeroBytes ==
    /\ dmImage # <<>> /\ Head(dmImage).k = "zero"
    /\ LET n   == Head(dmImage).n          \* lines of 16 bytes
           end == FoldLeft(LAMBDA a, x : Plus(a, 4), dmAddr, Zeros(n))
       IN  /\ dmZero' = Append(dmZero, <<way(dmMode, dmAddr), way(dmMode, end)>>)
           /\ dmAddr' = end
           /\ Become(IF dmMode.spill THEN denali_data(State, n) ELSE State)
    /\ Advance
    /\ UNCHANGED <<dmMode, dmNew, dmBeg, dmPrev, dmDraws, dmHit, dmWant, dmCount>>

\* The end of the file fills up the last line.
EndOfImage ==
    /\ dmImage # <<>> /\ Head(dmImage).k = "end"
    /\ Become(IF Offset(dmAddr) # 0 THEN StoreAll(dmMode, State, Zeros(4)) ELSE State)
    /\ Advance
    /\ UNCHANGED <<dmMode, dmAddr, dmNew, dmBeg, dmZero, dmPrev, dmDraws, dmHit,
                   dmWant, dmCount>>

-----------------------------------------------------------------------------
(* read_mem_call and write_mem_call, for the 36 nibbles of a channel.      *)
check_zero_byte(k) == \E i \in 1..Len(dmZero) :
    ~Below(k, dmZero[i][1]) /\ Below(k, dmZero[i][2])

\* What store_op and store_no_search take the address parity from: the
\* node's number with the hash undone.  For two channels and two bank bits
\* store_no_search undoes it one bit too low.
dexor_addr(m, k, cached) ==
    LET n == Banks(m)
    IN  IF ~m.two THEN Hashed(k, 2, 12, 22, n)
        ELSE IF cached /\ n = 2 THEN Hashed(k, 1, 11, 21, n)
        ELSE Hashed(k, 2, 13, 23, n)

\* Mutant: the parity is taken from the hashed number.
node_parity_hashed(m, k, cached) == Parity(Shr(k, 2))
node_parity(m, k, cached) == Parity(Shr(dexor_addr(m, k, cached), 2))

\* store_op searches; store_no_search takes the node read last, and decides
\* zero or random from an uninitialised flag.
Filled(m, k, c) ==
    LET line   == Node(dmMem, k)[c]
        cached == dmPrev = {k}
        zeros  == IF cached THEN {TRUE, FALSE} ELSE {check_zero_byte(k)}
    IN  IF line.lo # Unset THEN {line}
        ELSE {[lo |-> v, hi |-> v, ecc |-> <<v, v, node_parity(m, k, cached)>>] :
                v \in {IF z THEN Zero ELSE Random : z \in zeros}}

(* percent: dram_error_percent of every hundred draws are taken.           *)
Window(d) == IF d[1] + d[2] = Hundred THEN <<0, 0>> ELSE d
percent(p, d) ==
    IF p = 0 THEN {<<FALSE, d>>}
    ELSE {IF d[2] = Hundred - p THEN <<TRUE, Window(<<d[1] + 1, d[2]>>)>>
          ELSE <<FALSE, Window(<<d[1], d[2] + 1>>)>> : x \in {p < Hundred - 1} \cap {TRUE}}
         \cup
         {IF d[1] = p THEN <<FALSE, Window(<<d[1], d[2] + 1>>)>>
          ELSE <<TRUE, Window(<<d[1] + 1, d[2]>>)>>}

\* Whether an error may be injected, by the mode and the errors since the
\* address changed.
MayInject(hit) == CASE dmMode.error = 0 -> FALSE
                    [] dmMode.error = 1 -> hit = 0
                    [] dmMode.error = 2 -> hit < 2
                    [] dmMode.error = 3 -> TRUE

\* A read of a nibble; the flipped value is put back after it was passed on.
ReadNibble == \E a \in DmProbes :
    /\ dmImage = <<>> /\ ~dmMode.spill
    /\ dmCount < DmAccesses
    /\ LET k   == way(dmMode, a)
           hit == IF dmPrev = {k} THEN dmHit ELSE 0
       IN  \E l \in Filled(dmMode, k, bank(dmMode, a)) :
           \E d \in IF MayInject(hit) THEN percent(dmMode.percent, dmDraws)
                    ELSE {<<FALSE, dmDraws>>} :
              /\ dmMem' = With(dmMem, k, bank(dmMode, a), l)
              /\ dmPrev' = {k}
              /\ dmDraws' = d[2]
              /\ dmHit' = IF d[1] /\ dmMode.error # 3 THEN hit + 1 ELSE hit
              /\ dmCount' = dmCount + 1
    /\ UNCHANGED <<dmMode, dmLoad, dmWant>>

\* The controller writes both words and their ECC.
WriteLine == \E a \in DmProbes, v \in DmWords :
    /\ dmImage = <<>> /\ ~dmMode.spill
    /\ dmCount < DmAccesses
    /\ dmMem' = With(dmMem, way(dmMode, a), bank(dmMode, a),
                     [lo |-> v, hi |-> v, ecc |-> <<v, v, addr_parity(dmMode, a)>>])
    /\ dmWant' = [x \in DOMAIN dmWant \cup {a, a \cup {3}} |->
                    IF x \in {a, a \cup {3}} THEN v ELSE dmWant[x]]
    /\ dmCount' = dmCount + 1
    /\ UNCHANGED <<dmMode, dmLoad, dmPrev, dmDraws, dmHit>>

(* access_dram_call with four channels: the same lookup for the test       *)
(* bench, but without the hash.                                            *)
access_dram(m, a) ==
    LET k == NodeOf(m, a)
        l == dmMem[k][bank(m, a)]
    IN  IF k \notin DOMAIN dmMem THEN Zero ELSE IF 3 \in a THEN l.hi ELSE l.lo

-----------------------------------------------------------------------------
DmInit ==
    /\ \E c \in DmCases : dmMode = c[1] /\ dmImage = c[2]
    /\ dmAddr = {} /\ dmNew = FALSE /\ dmBeg = TRUE
    /\ dmMem = <<>> /\ dmZero = <<>> /\ dmPrev = {} /\ dmDraws = <<0, 0>>
    /\ dmHit = 0 /\ dmFile = <<>> /\ dmRecent = <<>> /\ dmLo = Unset
    /\ dmWant = <<>> /\ dmCount = 0

DmNext == \/ ReadAddress \/ ReadData \/ ReadZeroBytes \/ EndOfImage
          \/ ReadNibble \/ WriteLine

-----------------------------------------------------------------------------
Line(a) == Node(dmMem, way(dmMode, a))[bank(dmMode, a)]
\* cal_2channel keeps a bit of the rank and drops one of the row when both
\* stack and rank bits are low: rows share nodes.
Exact(m) == ~(m.old /\ m.two /\ m.stack /\ m.rank)
\* bits of the row that the hash takes are all zero
Neutral(a) == a \cap ((18..20) \cup (28..30)) = {}
Entries(a) == {i \in 1..Len(dmFile) : dmFile[i][1] = SpillLine(a)}

(* Distinct addresses never share storage: whatever the DIMM geometry, the *)
(* sections of the image and the padding around them, every word that the  *)
(* image or the controller stored is found again under its own address, by *)
(* the chips, by access_dram_call (where the bank hash does not matter)    *)
(* and in the spilled file.                                                *)
WordsKept ==
    dmImage = <<>> /\ Exact(dmMode) => \A a \in DOMAIN dmWant :
        IF dmMode.spill
        THEN dmFile[Max(Entries(a))][2][IF 3 \in a THEN 2 ELSE 1] = dmWant[a]
        ELSE /\ dmWant[a] = IF 3 \in a THEN Line(a).hi ELSE Line(a).lo
             /\ ~dmMode.two /\ Neutral(a) =>
                   access_dram(dmMode, a) = dmWant[a]

(* The ECC that is stored with a line covers both its words as they are    *)
(* and the parity of its physical address, for lines that were loaded or   *)
(* written, and for lines that were made up when they were first read      *)
(* (there only with high stack and rank bits, and not for two channels     *)
(* with two bank bits, where dexor_addr undoes another hash).              *)
EccStored ==
    dmImage = <<>> /\ ~dmMode.spill /\ Exact(dmMode) =>
        \A a \in DmProbes \cup DOMAIN dmWant :
            LET l == Line(a)
                stored == a \ {3} \in DOMAIN dmWant
            IN  /\ l.ecc # <<>>
                /\ stored \/ (~dmMode.old /\ (dmMode.two => dmMode.banks3))
                => l.ecc = <<l.lo, l.hi, addr_parity(dmMode, a)>>

(* The memory keeps what was stored, and its ECC.                          *)
DramKeeps == WordsKept /\ EccStored
=============================================================================
