------------------------------- MODULE SysMem -------------------------------
(***************************************************************************)
(* The system memory of the test bench (tools/pli/iop: b_ary.c, bw_lib.c,  *)
(* bw_sys.cc and the memory calls of iob_main.cc): 64-byte lines found     *)
(* through a B-tree, loaded from the image file, read and written by the   *)
(* chipset model (read_64b, write_64b), looked up by the socket's compare  *)
(* (access_sys, with the line each thread used last), and served as boot   *)
(* ROM over the serial SSI link.                                           *)
(*                                                                         *)
(* A node of the tree is the sequence of its keys and of its subtrees (no  *)
(* subtree in a leaf); the bytes of a line are kept by key.                *)
(***************************************************************************)
EXTENDS Integers, Sequences, FiniteSets, SequencesExt

CONSTANTS SmImages,    \* images to load: lines of words
          SmKeys,      \* lines accessed after loading
          SmThreads,   \* threads of access_sys (the chipset is thread 0)
          SmValues,    \* bytes that are written
          SmWrites,    \* bound: writes of a behaviour
          WordBytes, LineWords,   \* 8 and 8
          SsiRequests, \* SSI requests of a behaviour, in order
          SsiErrors,   \* addresses with an ssi_error event
          FrameBits,   \* bits of an SSI request (95)
          SsiWaits     \* delays of a reply

VARIABLES smTree,      \* sysMem
          smLine,      \* the atoms: key |-> bytes
          last_addr, smData,      \* per thread: the line used last
          smImage, smAddr, smBuf, \* read_mem: rest of the file, addr, cbuf
          smWant,      \* ghost: <<key, byte>> |-> value stored last
          smCount,
          start_bit, ssi_idx, rcv,   \* the request being received
          sso_Q, sso_r, sso_ready,   \* replies to send, the one being sent
          miso,        \* the wire to the chip
          smAsked,     \* ghost: what each received request must get
          smTodo,      \* environment: requests the chip has still to make
          smHear,      \* environment: reply the chip is receiving
          smHeard      \* ghost: replies the chip received

smLoad == <<smImage, smAddr, smBuf>>
smMem  == <<smTree, smLine, last_addr, smData, smWant, smCount>>
smSsi  == <<start_bit, ssi_idx, rcv, sso_Q, sso_r, sso_ready, miso, smAsked,
            smTodo, smHear, smHeard>>
smVars == <<smLoad, smMem, smSsi>>

ORDER == 2
LineBytes == WordBytes * LineWords
Junk == -9           \* a byte that was never set
\* what is on the SSI wire besides bytes: a 1, the parity bit, a wrong one
ONE == -1
PARITY == -2
WRONG == -3

-----------------------------------------------------------------------------
(* b_ary.c.                                                                *)
Leaf(n) == n.c = <<>>
b_create == [k |-> <<>>, c |-> <<>>]

\* b_scanNode: the number of keys up to "key", by halving
RECURSIVE Halve(_, _, _, _)
Halve(k, key, low, high) ==
    IF low >= high THEN low
    ELSE LET middle == (low + high + 1) \div 2
         IN  IF key < k[middle] THEN Halve(k, key, low, middle - 1)
             ELSE Halve(k, key, middle, high)
b_scanNode(n, key) == Halve(n.k, key, 0, Len(n.k))
Here(n, key) == LET i == b_scanNode(n, key) IN i > 0 /\ n.k[i] = key

\* keys lo..hi of n and the subtrees right of them
Keys(n, lo, hi) == SubSeq(n.k, lo, hi)
Kids(n, lo, hi) == IF Leaf(n) THEN <<>> ELSE SubSeq(n.c, lo + 1, hi + 1)

Whole(n) == [node |-> n, up |-> <<>>]
Split(l, key, r) == [node |-> l, up |-> <<key, r>>]

\* Mutant: the split in the right half keeps the key it promotes.
b_addData_kept(n, i, key, rp) ==
    IF Len(n.k) < 2 * ORDER
    THEN Whole([k |-> Keys(n, 1, i) \o <<key>> \o Keys(n, i + 1, Len(n.k)),
                c |-> Kids(n, 0, i) \o rp \o Kids(n, i + 1, Len(n.k))])
    ELSE Split([k |-> Keys(n, 1, ORDER), c |-> Kids(n, 0, ORDER)],
               n.k[ORDER + 1],
               [k |-> Keys(n, ORDER + 1, ORDER + 2), c |-> Kids(n, ORDER, ORDER + 2)])

\* b_addData: key and the subtree right of it (rp) go after key i of n; a
\* full node is split and the middle key promoted.
b_addData(n, i, key, rp) ==
    CASE Len(n.k) < 2 * ORDER ->
            Whole([k |-> Keys(n, 1, i) \o <<key>> \o Keys(n, i + 1, Len(n.k)),
                   c |-> Kids(n, 0, i) \o rp \o Kids(n, i + 1, Len(n.k))])
      [] Len(n.k) = 2 * ORDER /\ i = ORDER ->
            Split([k |-> Keys(n, 1, ORDER), c |-> Kids(n, 0, ORDER)], key,
                  [k |-> Keys(n, ORDER + 1, 2 * ORDER),
                   c |-> rp \o Kids(n, ORDER + 1, 2 * ORDER)])
      [] Len(n.k) = 2 * ORDER /\ i < ORDER ->
            Split([k |-> Keys(n, 1, i) \o <<key>> \o Keys(n, i + 1, ORDER - 1),
                   c |-> Kids(n, 0, i) \o rp \o Kids(n, i + 1, ORDER - 1)],
                  n.k[ORDER],
                  [k |-> Keys(n, ORDER + 1, 2 * ORDER), c |-> Kids(n, ORDER, 2 * ORDER)])
      [] Len(n.k) = 2 * ORDER /\ i > ORDER ->
            Split([k |-> Keys(n, 1, ORDER), c |-> Kids(n, 0, ORDER)],
                  n.k[ORDER + 1],
                  [k |-> Keys(n, ORDER + 2, i) \o <<key>> \o Keys(n, i + 1, 2 * ORDER),
                   c |-> Kids(n, ORDER + 1, i) \o rp \o Kids(n, i + 1, 2 * ORDER)])

RECURSIVE b_recursiveInsert(_, _)
b_recursiveInsert(n, key) ==
    LET i == b_scanNode(n, key)
    IN  IF Here(n, key) THEN Whole(n)
        ELSE IF Leaf(n) THEN b_addData(n, i, key, <<>>)
        ELSE LET r == b_recursiveInsert(n.c[i + 1], key)
                 m == [n EXCEPT !.c[i + 1] = r.node]
             IN  IF r.up = <<>> THEN Whole(m)
                 ELSE b_addData(m, b_scanNode(m, r.up[1]), r.up[1], <<r.up[2]>>)

b_insert(root, key) ==
    LET r == b_recursiveInsert(root, key)
    IN  IF r.up = <<>> THEN r.node
        ELSE [k |-> <<r.up[1]>>, c |-> <<r.node, r.up[2]>>]

RECURSIVE b_Find(_, _)
b_Find(n, key) == IF Here(n, key) THEN TRUE
                  ELSE IF Leaf(n) THEN FALSE
                  ELSE b_Find(n.c[b_scanNode(n, key) + 1], key)

-----------------------------------------------------------------------------
(* read_mem: lines of the image are collected up to a line of the memory.  *)
(* An atom whose key is there already is not inserted.                     *)
InsertLine(key, bytes) ==
    /\ smTree' = b_insert(smTree, key)
    /\ smLine' = IF b_Find(smTree, key) THEN smLine
                 ELSE [k \in DOMAIN smLine \cup {key} |->
                         IF k = key THEN bytes ELSE smLine[k]]

Full(buf) == [b \in 0..(LineBytes - 1) |->
                IF b < Len(buf) THEN buf[b + 1] ELSE Junk]

\* "@": the line so far is stored, and the new one starts inside its line
ReadAt ==
    /\ smImage # <<>> /\ Head(smImage).k = "at"
    /\ IF smBuf # <<>> THEN InsertLine(smAddr, Full(smBuf)) ELSE UNCHANGED <<smTree, smLine>>
    /\ smAddr' = Head(smImage).key
    /\ smBuf' = [i \in 1..Head(smImage).off |-> Junk]
    /\ smImage' = Tail(smImage)
    /\ UNCHANGED <<last_addr, smData, smWant, smCount, smSsi>>

\* a line of data; what is left of a longer one starts the next line
ReadLine ==
    /\ smImage # <<>> /\ Head(smImage).k = "data"
    /\ LET buf == smBuf \o Head(smImage).w
           n   == Len(smBuf)
       IN  /\ IF Len(buf) >= LineBytes
              THEN /\ InsertLine(smAddr, Full(SubSeq(buf, 1, LineBytes)))
                   /\ smBuf' = SubSeq(buf, LineBytes + 1, Len(buf))
                   /\ smAddr' = smAddr + 1
              ELSE smBuf' = buf /\ UNCHANGED <<smTree, smLine, smAddr>>
           /\ smWant' = [p \in DOMAIN smWant \cup {<<smAddr, b>> : b \in n..(Len(buf) - 1)} |->
                           IF p[1] = smAddr /\ p[2] \in n..(Len(buf) - 1)
                           THEN buf[p[2] + 1] ELSE smWant[p]]
    /\ smImage' = Tail(smImage)
    /\ UNCHANGED <<last_addr, smData, smCount, smSsi>>

Loaded == smImage = <<>>

-----------------------------------------------------------------------------
(* The calls of iob_main.cc.  last_addr starts as 0, so line 0 is not      *)
(* looked up but taken from a pointer that was never set: see SmKeys.      *)
access_sys(t, key) ==
    IF last_addr[t] = key THEN smLine[smData[t]]
    ELSE IF b_Find(smTree, key) THEN smLine[key]
    ELSE [b \in 0..(LineBytes - 1) |-> 0]

\* A read remembers a line that is there.
Read == \E t \in SmThreads, key \in SmKeys :
    /\ Loaded /\ b_Find(smTree, key) /\ last_addr[t] # key
    /\ last_addr' = [last_addr EXCEPT ![t] = key]
    /\ smData' = [smData EXCEPT ![t] = key]
    /\ UNCHANGED <<smLoad, smTree, smLine, smWant, smCount, smSsi>>

WithBytes(line, from, n, v) ==
    [b \in 0..(LineBytes - 1) |-> IF b \in from..(from + n - 1) THEN v ELSE line[b]]
ZeroLine == [b \in 0..(LineBytes - 1) |-> 0]

\* write_64b_call and bw_sys::write: n bytes from byte "from" of a line; a
\* line that is not there is made, all zero.
StoreBytes(key, from, n, v) ==
    /\ IF b_Find(smTree, key)
       THEN smLine' = [smLine EXCEPT ![key] = WithBytes(@, from, n, v)] /\ UNCHANGED smTree
       ELSE InsertLine(key, WithBytes(ZeroLine, from, n, v))
    /\ smWant' = [p \in DOMAIN smWant \cup {<<key, b>> : b \in
                      IF b_Find(smTree, key) THEN from..(from + n - 1)
                      ELSE 0..(LineBytes - 1)} |->
                    IF p[1] = key /\ p[2] \in from..(from + n - 1) THEN v
                    ELSE IF p \in DOMAIN smWant THEN smWant[p] ELSE 0]

write_64b == \E key \in SmKeys, w \in 0..(LineWords - 1), v \in SmValues :
    /\ Loaded /\ smCount < SmWrites
    /\ StoreBytes(key, w * WordBytes, WordBytes, v)
    /\ last_addr' = IF b_Find(smTree, key) THEN [last_addr EXCEPT ![0] = key] ELSE last_addr
    /\ smData' = IF b_Find(smTree, key) THEN [smData EXCEPT ![0] = key] ELSE smData
    /\ smCount' = smCount + 1
    /\ UNCHANGED <<smLoad, smSsi>>

-----------------------------------------------------------------------------
(* bw_sys.cc: the SSI link.  A clock moves a bit each way.                 *)
Size(r) == 2 ^ r.sz
\* get_data: the word of the address, shifted to its first byte
Bytes(r) == [i \in 1..Size(r) |-> smLine[r.key][r.off + i - 1]]
\* xlation: the reply to r, its parity bit flipped by an ssi_error event
ReplyTo(r, w) ==
    IF r.rd THEN [bits |-> Append(Bytes(r), IF <<r.key, r.off>> \in SsiErrors
                                            THEN WRONG ELSE PARITY),
                  idx |-> 1, wait |-> w]
    ELSE [bits |-> <<ONE, PARITY, 0>>, idx |-> 1, wait |-> w]

\* sso: the start bit is sent when the reply is taken off the queue; that of
\* a write has the start bit itself as its first one.
FirstBit(s) == IF Len(s.bits) = 3 /\ s.bits[1] = ONE THEN 2 ELSE 1

sso(queue) ==
    IF sso_ready
    THEN /\ miso' = sso_r.bits[sso_r.idx]
         /\ sso_r' = [sso_r EXCEPT !.idx = @ + 1]
         /\ sso_ready' = (sso_r.idx < Len(sso_r.bits))
         /\ sso_Q' = queue
    ELSE IF queue # <<>>
    THEN LET s == Head(queue)
             w == IF s.wait > 0 THEN s.wait - 1 ELSE 0
         IN  IF w = 0
             THEN /\ miso' = ONE /\ sso_ready' = TRUE /\ sso_Q' = Tail(queue)
                  /\ sso_r' = [s EXCEPT !.wait = 0, !.idx = FirstBit(s)]
             ELSE /\ miso' = 0 /\ sso_Q' = <<[s EXCEPT !.wait = w]>> \o Tail(queue)
                  /\ UNCHANGED <<sso_r, sso_ready>>
    ELSE miso' = 0 /\ sso_Q' = queue /\ UNCHANGED <<sso_r, sso_ready>>

\* The chip: it starts to receive on a 1 while it waits, and then takes as
\* many items as the reply to its oldest request has.
Due == smAsked[Len(smHeard) + 1]
Hears ==
    IF smHear = <<>>
    THEN /\ smHear' = IF miso = ONE THEN <<ONE>> ELSE <<>>
         /\ UNCHANGED smHeard
    ELSE LET h == Append(smHear, miso)
         IN  IF Len(smHeard) < Len(smAsked) /\ Len(h) = Len(Due) + 1
             THEN smHeard' = Append(smHeard, Tail(h)) /\ smHear' = <<>>
             ELSE smHear' = h /\ UNCHANGED smHeard

\* What the chip must get for r, from the bytes that were stored.
Owed(r) ==
    IF r.rd THEN [i \in 1..(Size(r) + 1) |->
                    IF i > Size(r)
                    THEN IF <<r.key, r.off>> \in SsiErrors THEN WRONG ELSE PARITY
                    ELSE smWant[<<r.key, r.off + i - 1>>]]
    ELSE <<PARITY>>

(* ssi: a start bit, the bits of the request and its parity bit, on which  *)
(* xlation answers.  A read of a line that is not there ends the run.      *)
Quiet == /\ ~start_bit /\ sso(sso_Q)
         /\ UNCHANGED <<start_bit, ssi_idx, rcv, smTodo, smAsked, smTree, smLine, smWant>>
StartBit == /\ ~start_bit /\ smTodo # <<>> /\ sso(sso_Q)
            /\ start_bit' = TRUE /\ ssi_idx' = FrameBits
            /\ rcv' = Head(smTodo) /\ smTodo' = Tail(smTodo)
            /\ UNCHANGED <<smAsked, smTree, smLine, smWant>>
NextBit == /\ start_bit /\ ssi_idx > 0 /\ sso(sso_Q)
           /\ ssi_idx' = ssi_idx - 1
           /\ UNCHANGED <<start_bit, rcv, smTodo, smAsked, smTree, smLine, smWant>>
LastBit == /\ start_bit /\ ssi_idx = 0
           /\ start_bit' = FALSE
           /\ rcv.rd => b_Find(smTree, rcv.key)
           /\ \E w \in SsiWaits : sso(Append(sso_Q, ReplyTo(rcv, w)))
           /\ smAsked' = Append(smAsked, Owed(rcv))
           /\ IF rcv.rd THEN UNCHANGED <<smTree, smLine, smWant>>
              ELSE StoreBytes(rcv.key, rcv.off, Size(rcv), rcv.v)
           /\ UNCHANGED <<ssi_idx, rcv, smTodo>>

Clock == /\ Loaded /\ Hears
         /\ Quiet \/ StartBit \/ NextBit \/ LastBit
         /\ UNCHANGED <<smLoad, last_addr, smData, smCount>>

-----------------------------------------------------------------------------
SmInit ==
    /\ smTree = b_create /\ smLine = <<>> /\ smWant = <<>> /\ smCount = 0
    /\ last_addr = [t \in SmThreads |-> 0] /\ smData = [t \in SmThreads |-> 0]
    /\ smImage \in SmImages /\ smAddr = 0 /\ smBuf = <<>>
    /\ start_bit = FALSE /\ ssi_idx = 0 /\ rcv = <<>>
    /\ sso_Q = <<>> /\ sso_r = <<>> /\ sso_ready = FALSE /\ miso = 0
    /\ smAsked = <<>> /\ smHear = <<>> /\ smHeard = <<>>
    /\ smTodo \in SsiRequests

SmNext == ReadAt \/ ReadLine \/ Read \/ write_64b \/ Clock

-----------------------------------------------------------------------------
RECURSIVE Depths(_)
Depths(n) == IF Leaf(n) THEN {0}
             ELSE {1 + d : d \in UNION {Depths(n.c[i]) : i \in 1..Len(n.c)}}

(* Whatever was inserted in whatever order, every byte that the image or a *)
(* write stored last is what every thread reads there, also through the    *)
(* line it remembers, every leaf of the tree is at one depth, and bytes    *)
(* nothing was stored into read as zero.                                   *)
BytesKept ==
    Loaded =>
        /\ Cardinality(Depths(smTree)) = 1
        /\ \A p \in DOMAIN smWant, t \in SmThreads :
              access_sys(t, p[1])[p[2]] = smWant[p]
        /\ \A key \in SmKeys \ {p[1] : p \in DOMAIN smWant}, t \in SmThreads :
              access_sys(t, key) = ZeroLine

(* The chip hears, for each of its requests and in their order, exactly    *)
(* the bytes that were stored when it was made and their parity, or the    *)
(* acknowledgement of a write, and nothing in between.                     *)
ReadsAnswered ==
    /\ smHeard = SubSeq(smAsked, 1, Len(smHeard))
    /\ smHear # <<>> => Len(smHeard) < Len(smAsked)

(* What is stored is what every thread and the chip's SSI reads hear.      *)
SysMemExact == BytesKept /\ ReadsAnswered
=============================================================================
