--------------------------- MODULE SjmFlowProofs ---------------------------
(***************************************************************************)
(* The flow control of a port for queues of any size.  Noncacheable reads, *)
(* writes and block writes, in any mixture, never overflow the request     *)
(* queue if AOK_OFF leaves room for two addresses: the one on the bus when *)
(* the pack is driven and the one its senders may still drive before they  *)
(* act on it.                                                              *)
(***************************************************************************)
EXTENDS SjmFlow, SequenceTheorems, TLAPS

\* The noncacheable transactions; compressible writes, of which several leave
\* the queue in one cycle, are not among them.
Noncacheable == {"ncrd", "ncwr", "ncbwr"}

\* The room the packs leave, and the traffic of the theorems.
RoomForTwo == AddrLimit >= 2 /\ MemSize > AddrLimit
NoncacheableOnly == Traffics \subseteq SUBSET Noncacheable
ReadsOnly == Traffics \subseteq SUBSET {"ncrd"}

\* The state of a port under such traffic: no snoops, no coherent requests.
Packs == {"AOK_ON", "AOK_OFF", "DOK_ON", "DOK_OFF"}
Request == [n : Nat, in : Nat, comp : {FALSE}]
Sender == [halt : BOOLEAN, aok_next : BOOLEAN, aok_prev : BOOLEAN, dok_next : BOOLEAN, dok_prev : BOOLEAN]
FlowRecord ==
    [traffic : Traffics, memq : {0}, iomemq : Seq(Request), dataq : Int, snoopq : {0},
     resultsq : {<<>>}, out_packq : Seq(Packs), aok_on : BOOLEAN, dok_on : BOOLEAN,
     memq_off : BOOLEAN, snpq_off : {FALSE}, resq_off : {FALSE}, compress : {FALSE},
     acked : {0}, pin : Packs \union {"IDLE"}, bus : Noncacheable \union {"idle", "data"},
     beats : Int, err : SUBSET {"pack", "data", "io"}, s : Sender]

-----------------------------------------------------------------------------
(* The queue of packs                                                      *)

\* A pack is not in the queue; it is there once at most.
NoIn(q, x) == \A i \in DOMAIN q : q[i] # x
OneIn(q, x) == \A i, j \in DOMAIN q : q[i] = x /\ q[j] = x => i = j

\* Where AddPack puts a pack that finds room.
Inserted(q, p, r) ==
    \/ q # <<>> /\ Head(q) \in Before(p) /\ r = <<Head(q), p>> \o Tail(q)
    \/ (q = <<>> \/ Head(q) \notin Before(p)) /\ r = <<p>> \o q

\* The packs of the queue keep their order; the new one is first or second.
LEMMA InsertedFacts ==
    ASSUME NEW q \in Seq(Packs), NEW p \in Packs, NEW r, Inserted(q, p, r)
    PROVE  /\ r \in Seq(Packs) /\ r # <<>> /\ Len(r) = Len(q) + 1
           /\ Head(r) = IF q # <<>> /\ Head(q) \in Before(p) THEN Head(q) ELSE p
           /\ \A x \in Packs : NoIn(q, x) => OneIn(r, x)
           /\ \A x \in Packs \ {p} : /\ NoIn(q, x) => NoIn(r, x)
                                     /\ OneIn(q, x) => OneIn(r, x)
                                     /\ NoIn(r, x) => NoIn(q, x)
<1> DEFINE k == IF q # <<>> /\ Head(q) \in Before(p) THEN 2 ELSE 1
<1>1. /\ r \in Seq(Packs) /\ Len(r) = Len(q) + 1 /\ Len(q) \in Nat /\ k <= Len(r)
      /\ r[k] = p
      /\ \A i \in 1..Len(q) : i < k => r[i] = q[i]
      /\ \A i \in 1..Len(q) : i >= k => r[i + 1] = q[i]
  <2>1. CASE q # <<>> /\ Head(q) \in Before(p)
    <3> DEFINE a == <<Head(q), p>> b == Tail(q)
    <3>1. /\ a \in Seq(Packs) /\ Len(a) = 2 /\ a[1] = q[1] /\ a[2] = p
          /\ b \in Seq(Packs) /\ Len(b) = Len(q) - 1 /\ Len(q) \in Nat \ {0}
          /\ \A i \in 1..(Len(q) - 1) : b[i] = q[i + 1]
      <4>1. Len(q) \in Nat \ {0} /\ Head(q) = q[1] /\ q[1] \in Packs
        BY <2>1
      <4>2. a \in Seq(Packs) /\ Len(a) = 2 /\ a[1] = q[1] /\ a[2] = p
        BY <4>1
      <4>3. /\ b \in Seq(Packs) /\ Len(b) = Len(q) - 1
            /\ \A i \in 1..(Len(q) - 1) : b[i] = q[i + 1]
        BY <2>1
      <4> QED
        BY <4>1, <4>2, <4>3
    <3>2. r = a \o b /\ k = 2
      BY <2>1 DEF Inserted
    <3> HIDE DEF a, b, k
    <3>3. /\ r \in Seq(Packs) /\ Len(r) = Len(q) + 1
          /\ \A i \in 1..(Len(a) + Len(b)) : r[i] = IF i <= Len(a) THEN a[i] ELSE b[i - Len(a)]
      <4>1. a \in Seq(Packs) /\ b \in Seq(Packs)
        BY <3>1
      <4>2. /\ r \in Seq(Packs) /\ Len(r) = Len(a) + Len(b)
            /\ \A i \in 1..(Len(a) + Len(b)) : r[i] = IF i <= Len(a) THEN a[i] ELSE b[i - Len(a)]
        BY <3>2, <4>1, ConcatProperties
      <4> QED
        BY <3>1, <4>2
    <3>4. \A i \in 1..Len(q) : i >= 2 => r[i + 1] = q[i]
      <4>1. SUFFICES ASSUME NEW i \in 1..Len(q), i >= 2 PROVE r[i + 1] = q[i]
        OBVIOUS
      <4>2. i + 1 \in 1..(Len(a) + Len(b)) /\ ~(i + 1 <= Len(a)) /\ (i + 1) - Len(a) = i - 1
            /\ i - 1 \in 1..(Len(q) - 1) /\ (i - 1) + 1 = i
        BY <3>1, <4>1
      <4>3. r[i + 1] = b[i - 1]
        BY <3>3, <4>2
      <4> QED
        BY <3>1, <4>2, <4>3
    <3>5. r[1] = q[1] /\ r[2] = p
      BY <3>1, <3>3
    <3> QED
      BY <3>1, <3>2, <3>3, <3>4, <3>5
  <2>2. CASE ~(q # <<>> /\ Head(q) \in Before(p))
    <3> DEFINE a == <<p>>
    <3>1. a \in Seq(Packs) /\ Len(a) = 1 /\ a[1] = p /\ Len(q) \in Nat
      OBVIOUS
    <3>2. r = a \o q /\ k = 1
      BY <2>2 DEF Inserted
    <3> HIDE DEF a, k
    <3>3. /\ r \in Seq(Packs) /\ Len(r) = 1 + Len(q)
          /\ \A i \in 1..(Len(a) + Len(q)) : r[i] = IF i <= Len(a) THEN a[i] ELSE q[i - Len(a)]
      BY <3>1, <3>2, ConcatProperties
    <3>4. \A i \in 1..Len(q) : r[i + 1] = q[i]
      <4>1. SUFFICES ASSUME NEW i \in 1..Len(q) PROVE r[i + 1] = q[i]
        OBVIOUS
      <4>2. i + 1 \in 1..(Len(a) + Len(q)) /\ ~(i + 1 <= Len(a)) /\ (i + 1) - Len(a) = i
        BY <3>1, <4>1
      <4> QED
        BY <3>3, <4>2
    <3>5. r[1] = p
      BY <3>1, <3>3
    <3> QED
      BY <3>1, <3>2, <3>3, <3>4, <3>5
  <2> QED
    BY <2>1, <2>2
<1>2. k \in {1, 2} /\ (k = 2 => q # <<>> /\ Len(q) >= 1)
  OBVIOUS
<1>3. r # <<>> /\ Head(r) = IF q # <<>> /\ Head(q) \in Before(p) THEN Head(q) ELSE p
  <2>1. r # <<>> /\ Head(r) = r[1]
    BY <1>1
  <2>2. CASE q # <<>> /\ Head(q) \in Before(p)
    <3>1. k = 2 /\ 1 \in 1..Len(q) /\ Head(q) = q[1]
      BY <2>2
    <3> QED
      BY <1>1, <2>1, <2>2, <3>1
  <2>3. CASE ~(q # <<>> /\ Head(q) \in Before(p))
    BY <1>1, <2>1, <2>3
  <2> QED
    BY <2>2, <2>3
<1> HIDE DEF k
\* old(i) is the place in q of what stands at i in r.
<1> DEFINE old(i) == IF i < k THEN i ELSE i - 1
<1>4. /\ DOMAIN q = 1..Len(q) /\ DOMAIN r = 1..(Len(q) + 1)
      /\ \A i \in 1..(Len(q) + 1) : i # k => old(i) \in 1..Len(q) /\ r[i] = q[old(i)]
  <2>1. DOMAIN q = 1..Len(q) /\ DOMAIN r = 1..(Len(q) + 1)
    BY <1>1
  <2>2. ASSUME NEW i \in 1..(Len(q) + 1), i # k PROVE old(i) \in 1..Len(q) /\ r[i] = q[old(i)]
    <3>1. CASE i < k
      BY <1>1, <1>2, <2>2, <3>1
    <3>2. CASE i > k
      <4>1. i - 1 \in 1..Len(q) /\ i - 1 >= k /\ (i - 1) + 1 = i /\ old(i) = i - 1
        BY <1>1, <1>2, <3>2
      <4> QED
        BY <1>1, <4>1
    <3> QED
      BY <1>1, <1>2, <2>2, <3>1, <3>2
  <2> QED
    BY <2>1, <2>2
<1>5. \A i, j \in 1..(Len(q) + 1) : i # k /\ j # k /\ old(i) = old(j) => i = j
  BY <1>1, <1>2
<1> HIDE DEF old
<1>6. ASSUME NEW x \in Packs, NoIn(q, x) PROVE OneIn(r, x)
  BY <1>4, <1>6 DEF NoIn, OneIn
<1>7. ASSUME NEW x \in Packs \ {p}, NoIn(q, x) PROVE NoIn(r, x)
  BY <1>1, <1>4, <1>7 DEF NoIn
<1>8. ASSUME NEW x \in Packs \ {p}, OneIn(q, x) PROVE OneIn(r, x)
  BY <1>1, <1>4, <1>5, <1>8 DEF OneIn
<1>9. ASSUME NEW x \in Packs \ {p}, NoIn(r, x) PROVE NoIn(q, x)
  <2>1. SUFFICES ASSUME NEW i \in 1..Len(q) PROVE q[i] # x
    BY <1>4 DEF NoIn
  <2>2. CASE i < k
    <3>1. r[i] = q[i] /\ i \in DOMAIN r
      BY <1>1, <1>4, <2>2
    <3> QED
      BY <1>9, <3>1 DEF NoIn
  <2>3. CASE i >= k
    <3>1. r[i + 1] = q[i] /\ i + 1 \in DOMAIN r
      BY <1>1, <1>4, <2>3
    <3> QED
      BY <1>9, <3>1 DEF NoIn
  <2> QED
    BY <1>2, <2>2, <2>3
<1> QED
  BY <1>1, <1>3, <1>6, <1>7, <1>8, <1>9

\* The pack at the head leaves.
LEMMA SentFacts ==
    ASSUME NEW q \in Seq(Packs), q # <<>>
    PROVE  /\ Tail(q) \in Seq(Packs) /\ Head(q) \in Packs
           /\ \A x \in Packs : /\ NoIn(q, x) => NoIn(Tail(q), x) /\ Head(q) # x
                               /\ OneIn(q, x) => OneIn(Tail(q), x)
                               /\ OneIn(q, x) /\ Head(q) = x => NoIn(Tail(q), x)
                               /\ Head(q) # x /\ NoIn(Tail(q), x) => NoIn(q, x)
<1> DEFINE t == Tail(q)
<1>1. /\ t \in Seq(Packs) /\ Head(q) = q[1] /\ Head(q) \in Packs /\ Len(q) \in Nat \ {0}
      /\ DOMAIN q = 1..Len(q) /\ DOMAIN t = 1..(Len(q) - 1)
      /\ \A i \in 1..(Len(q) - 1) : t[i] = q[i + 1]
  OBVIOUS
<1> HIDE DEF t
<1>2. /\ \A i \in DOMAIN t : i \in Int /\ i + 1 \in DOMAIN q /\ i + 1 # 1 /\ t[i] = q[i + 1]
      /\ \A i \in DOMAIN q : i # 1 => i - 1 \in DOMAIN t /\ t[i - 1] = q[i]
      /\ 1 \in DOMAIN q
  <2>1. \A i \in DOMAIN t : i \in Int /\ i + 1 \in DOMAIN q /\ i + 1 # 1 /\ t[i] = q[i + 1]
    BY <1>1
  <2>2. ASSUME NEW i \in DOMAIN q, i # 1 PROVE i - 1 \in DOMAIN t /\ t[i - 1] = q[i]
    <3>1. i - 1 \in 1..(Len(q) - 1) /\ (i - 1) + 1 = i
      BY <1>1, <2>2
    <3> QED
      BY <1>1, <3>1
  <2> QED
    BY <1>1, <2>1, <2>2
<1>3. ASSUME NEW x \in Packs, NoIn(q, x) PROVE NoIn(t, x) /\ Head(q) # x
  BY <1>1, <1>2, <1>3 DEF NoIn
<1>4. ASSUME NEW x \in Packs, OneIn(q, x) PROVE OneIn(t, x)
  <2>1. SUFFICES ASSUME NEW i \in DOMAIN t, NEW j \in DOMAIN t, t[i] = x, t[j] = x PROVE i = j
    BY DEF OneIn
  <2>2. i \in Int /\ j \in Int /\ i + 1 = j + 1
    BY <1>2, <1>4, <2>1 DEF OneIn
  <2> QED
    BY <2>2
<1>5. ASSUME NEW x \in Packs, OneIn(q, x), Head(q) = x PROVE NoIn(t, x)
  BY <1>1, <1>2, <1>5 DEF NoIn, OneIn
<1>6. ASSUME NEW x \in Packs, Head(q) # x, NoIn(t, x) PROVE NoIn(q, x)
  BY <1>1, <1>2, <1>6 DEF NoIn
<1> QED
  BY <1>1, <1>3, <1>4, <1>5, <1>6 DEF t

-----------------------------------------------------------------------------
(* The steps of a cycle                                                    *)

\* What the later steps of a cycle and the next cycle keep of a step: the
\* requests and the packs may change, errors are only added.
Later(f, g) == g \in FlowRecord /\ f.err \subseteq g.err /\ ("io" \in g.err => "io" \in f.err)

LEMMA LaterIsTransitive ==
    ASSUME NEW f, NEW g, NEW h, Later(f, g), Later(g, h)
    PROVE  Later(f, h)
BY DEF Later

\* AddPack puts the pack where Inserted says, or reports that it is lost.
LEMMA AddPackFacts ==
    ASSUME NEW f \in FlowRecord, NEW p \in Packs
    PROVE  LET g == AddPack(f, p)
           IN  /\ Later(f, g) /\ g.iomemq = f.iomemq /\ g.aok_on = f.aok_on
               /\ g.err = {} => Inserted(f.out_packq, p, g.out_packq)
               /\ Len(f.out_packq) < PackSize => g.err = f.err
<1> DEFINE q == f.out_packq
           g == AddPack(f, p)
           behind == q # <<>> /\ Head(q) \in Before(p)
           put == IF behind THEN <<Head(q), p>> \o Tail(q) ELSE <<p>> \o q
           lost == IF behind THEN <<p>> \o Tail(q) ELSE q
<1>1. q \in Seq(Packs) /\ f.err \in SUBSET {"pack", "data", "io"}
  BY DEF FlowRecord
<1>2. Inserted(q, p, put)
  BY DEF Inserted
<1>3. put \in Seq(Packs)
  BY <1>1, <1>2, InsertedFacts
<1>4. lost \in Seq(Packs)
  <2>1. CASE behind
    <3>1. <<p>> \in Seq(Packs) /\ Tail(q) \in Seq(Packs)
      BY <1>1, <2>1
    <3>2. <<p>> \o Tail(q) \in Seq(Packs)
      BY <3>1, ConcatProperties
    <3> QED
      BY <2>1, <3>2
  <2> QED
    BY <1>1, <2>1
<1>5. CASE Len(q) < PackSize
  <2>1. g = [f EXCEPT !.out_packq = put]
    BY <1>5 DEF AddPack
  <2> HIDE DEF put, g, q
  <2>2. g \in FlowRecord
    BY <1>3, <2>1 DEF FlowRecord
  <2>3. /\ g.out_packq = put /\ g.iomemq = f.iomemq /\ g.aok_on = f.aok_on /\ g.err = f.err
    BY <2>1 DEF FlowRecord
  <2> QED
    BY <1>2, <2>2, <2>3 DEF Later, g, q
<1>6. CASE ~(Len(q) < PackSize)
  <2> DEFINE e == f.err \union {"pack"}
  <2>1. g = [f EXCEPT !.err = e, !.out_packq = lost]
    BY <1>6 DEF AddPack
  <2>2. e \in SUBSET {"pack", "data", "io"} /\ e # {} /\ f.err \subseteq e /\ ("io" \in e => "io" \in f.err)
    BY <1>1
  <2> HIDE DEF lost, g, q, e
  <2>3. g \in FlowRecord
    BY <1>4, <2>1, <2>2 DEF FlowRecord
  <2>4. /\ g.iomemq = f.iomemq /\ g.aok_on = f.aok_on /\ g.err = e
    BY <2>1 DEF FlowRecord
  <2> QED
    BY <1>6, <2>2, <2>3, <2>4 DEF Later, g, q
<1> QED
  BY <1>5, <1>6

\* AddData: the requests stay, data may be turned off.
LEMMA AddDataFacts ==
    ASSUME NEW f \in FlowRecord
    PROVE  LET g == AddData(f)
           IN  /\ Later(f, g) /\ Len(g.iomemq) = Len(f.iomemq) /\ g.aok_on = f.aok_on
               /\ g.err = {} => \/ g.out_packq = f.out_packq
                                \/ Inserted(f.out_packq, "DOK_OFF", g.out_packq)
<1> DEFINE k == f.dataq + 1
           g == [f EXCEPT !.dataq = k]
           n == Len(g.iomemq)
           h == [g EXCEPT !.iomemq[n].in = @ + 1]
           u == [g EXCEPT !.err = @ \union {"data"}]
           v == [AddPack(h, "DOK_OFF") EXCEPT !.dok_on = FALSE]
<1>1. AddData(f) = IF g.dataq > DataSize THEN u
                   ELSE IF DataSize - h.dataq = DataLimit THEN v ELSE h
  BY DEF AddData
<1>2. g \in FlowRecord /\ g.iomemq = f.iomemq /\ g.out_packq = f.out_packq /\ g.aok_on = f.aok_on
      /\ g.err = f.err
  <2>1. k \in Int
    BY DEF FlowRecord
  <2> HIDE DEF k
  <2> QED
    BY <2>1 DEF FlowRecord
<1> HIDE DEF g
<1>3. u \in FlowRecord /\ u.err = f.err \union {"data"} /\ u.iomemq = f.iomemq /\ u.aok_on = f.aok_on
  BY <1>2 DEF FlowRecord
<1>4. h \in FlowRecord /\ Len(h.iomemq) = Len(f.iomemq) /\ h.out_packq = f.out_packq
      /\ h.aok_on = f.aok_on /\ h.err = f.err
  <2> DEFINE m == [g.iomemq EXCEPT ![n].in = @ + 1]
  <2>1. h = [g EXCEPT !.iomemq = m]
    OBVIOUS
  <2>2. g.iomemq \in Seq(Request)
    BY <1>2 DEF FlowRecord
  <2>3. m \in Seq(Request) /\ Len(m) = Len(g.iomemq)
    <3> DEFINE w == g.iomemq
    <3>1. w \in Seq(Request) /\ Len(w) = n /\ n \in Nat
      BY <2>2
    <3> HIDE DEF w
    <3>2. CASE n = 0
      <4>1. m = w
        BY <3>1, <3>2 DEF w
      <4> QED
        BY <3>1, <4>1 DEF w
    <3>3. CASE n # 0
      <4>1. [w[n] EXCEPT !.in = @ + 1] \in Request
        <5> DEFINE x == w[n] y == x.in + 1
        <5>1. x \in Request
          BY <3>1, <3>3
        <5> HIDE DEF x
        <5>2. y \in Nat
          BY <5>1 DEF Request
        <5> HIDE DEF y
        <5>3. [x EXCEPT !.in = y] \in Request
          BY <5>1, <5>2 DEF Request
        <5> QED
          BY <5>3 DEF x, y
      <4> QED
        BY <3>1, <3>3, <4>1, ExceptSeq DEF w
    <3> QED
      BY <3>2, <3>3
  <2> HIDE DEF m, h
  <2>4. h \in FlowRecord
    BY <1>2, <2>1, <2>3 DEF FlowRecord
  <2> QED
    BY <1>2, <2>1, <2>3, <2>4 DEF FlowRecord
<1> HIDE DEF h
<1>5. /\ Later(f, v) /\ Len(v.iomemq) = Len(f.iomemq) /\ v.aok_on = f.aok_on
      /\ v.err = {} => Inserted(f.out_packq, "DOK_OFF", v.out_packq)
  <2> DEFINE a == AddPack(h, "DOK_OFF")
  <2>1. /\ Later(h, a) /\ a.iomemq = h.iomemq /\ a.aok_on = h.aok_on
        /\ a.err = {} => Inserted(h.out_packq, "DOK_OFF", a.out_packq)
    BY <1>4, AddPackFacts DEF Packs
  <2> HIDE DEF a
  <2>2. v = [a EXCEPT !.dok_on = FALSE] /\ a \in FlowRecord
    BY <2>1 DEF a, Later
  <2> HIDE DEF v
  <2>3. /\ v \in FlowRecord /\ v.iomemq = a.iomemq /\ v.aok_on = a.aok_on /\ v.err = a.err
        /\ v.out_packq = a.out_packq
    BY <2>2 DEF FlowRecord
  <2> QED
    BY <1>4, <2>1, <2>3 DEF Later
<1> HIDE DEF u, v
<1> DEFINE d == AddData(f)
           Goal(x) == /\ Later(f, x) /\ Len(x.iomemq) = Len(f.iomemq) /\ x.aok_on = f.aok_on
                      /\ x.err = {} => \/ x.out_packq = f.out_packq
                                       \/ Inserted(f.out_packq, "DOK_OFF", x.out_packq)
<1>6. d = u \/ d = v \/ d = h
  BY <1>1
<1>7. Goal(u)
  BY <1>3 DEF Later
<1>8. Goal(v)
  BY <1>5
<1>9. Goal(h)
  BY <1>4 DEF Later
<1> HIDE DEF Goal
<1>10. Goal(d)
  BY <1>6, <1>7, <1>8, <1>9
<1> QED
  BY <1>10 DEF Goal

\* addRequest, when there is room: one more request, and the addresses are
\* turned off when the limit is reached.
LEMMA addRequestFacts ==
    ASSUME RoomForTwo, NEW f \in FlowRecord, NEW k \in Noncacheable, IoSpace(f) > 0
    PROVE  LET g == addRequest(f, k)
           IN  /\ Later(f, g) /\ IoSpace(g) = IoSpace(f) - 1
               /\ g.iomemq = Append(f.iomemq, [n |-> Beats(k), in |-> 0, comp |-> FALSE])
               /\ Len(f.out_packq) < PackSize => g.err = f.err
               /\ IF f.aok_on /\ IoSpace(f) - 1 = AddrLimit
                  THEN /\ ~g.aok_on
                       /\ g.err = {} => Inserted(f.out_packq, "AOK_OFF", g.out_packq)
                  ELSE g.aok_on = f.aok_on /\ g.out_packq = f.out_packq
<1> DEFINE b == Beats(k)
           x == [n |-> b, in |-> 0, comp |-> FALSE]
           m == Append(f.iomemq, x)
           g == [f EXCEPT !.compress = FALSE]
           h == [g EXCEPT !.iomemq = m]
           a == AddPack(h, "AOK_OFF")
           v == [a EXCEPT !.memq_off = TRUE, !.aok_on = FALSE]
<1>1. MemSize \in Nat /\ AddrLimit \in Nat
  BY SjmFlowAssumption
<1>2. b \in Nat /\ k # "ncwrc" /\ k # "rd"
  BY DEF Beats, Noncacheable
<1> HIDE DEF b
<1>3. f.iomemq \in Seq(Request) /\ x \in Request
  BY <1>2 DEF FlowRecord, Request
<1> HIDE DEF x
<1>4. m \in Seq(Request) /\ Len(m) = Len(f.iomemq) + 1 /\ Len(f.iomemq) \in Nat
  BY <1>3
<1> HIDE DEF m
<1>5. g \in FlowRecord /\ g = f
  BY DEF FlowRecord
<1>6. /\ h \in FlowRecord /\ h.iomemq = m /\ h.aok_on = f.aok_on /\ h.out_packq = f.out_packq
      /\ h.err = f.err /\ h.memq = 0
  BY <1>4, <1>5 DEF FlowRecord
<1>7. MemSpace(h) # AddrLimit /\ IoSpace(h) = IoSpace(f) - 1
  BY <1>1, <1>4, <1>6 DEF MemSpace, IoSpace, RoomForTwo
<1>8. addRequest(f, k) = IF f.aok_on /\ IoSpace(f) - 1 = AddrLimit THEN v ELSE h
  <2> DEFINE c == (k = "ncwrc")
             g0 == [f EXCEPT !.compress = c]
             y == [n |-> Beats(k), in |-> 0, comp |-> c]
             q0 == [g0 EXCEPT !.iomemq = Append(@, y)]
             h0 == IF k = "rd"
                   THEN IF MemSpace(g0) = 0 THEN [g0 EXCEPT !.err = @ \union {"mem"}]
                        ELSE [g0 EXCEPT !.memq = @ + 1]
                   ELSE IF IoSpace(g0) = 0 THEN [g0 EXCEPT !.err = @ \union {"io"}]
                        ELSE q0
             v0 == [AddPack(h0, "AOK_OFF") EXCEPT !.memq_off = TRUE, !.aok_on = FALSE]
  <2>1. addRequest(f, k) = IF h0.aok_on /\ (MemSpace(h0) = AddrLimit \/ IoSpace(h0) = AddrLimit)
                           THEN v0 ELSE h0
    BY Zenon DEF addRequest
  <2>2. c = FALSE
    BY <1>2
  <2>3. g0 = g /\ y = x
    BY <2>2, Zenon DEF x, b
  <2>4. IoSpace(g0) # 0
    <3> HIDE DEF g, g0
    <3>1. IoSpace(g0) = IoSpace(f)
      BY <1>5, <2>3
    <3>2. IoSpace(f) \in Int
      BY <1>1, <1>4 DEF IoSpace
    <3> QED
      BY <3>1, <3>2
  <2>5. h0 = q0
    <3> HIDE DEF q0, g0
    <3> QED
      BY <1>2, <2>4, Zenon
  <2>6. q0 = h
    <3>1. q0 = [g0 EXCEPT !.iomemq = Append(g0.iomemq, y)]
      OBVIOUS
    <3>2. g0.iomemq = f.iomemq
      BY <1>5, <2>3
    <3> HIDE DEF q0, g0, y
    <3> QED
      BY <2>3, <3>1, <3>2, Zenon DEF m
  <2>7. h0 = h
    BY <2>5, <2>6, Zenon
  <2> HIDE DEF h0, h
  <2>8. v0 = v
    BY <2>7, Zenon
  <2> HIDE DEF v0, v
  <2> QED
    BY <1>6, <1>7, <2>1, <2>7, <2>8
<1> HIDE DEF h, g
<1>9. /\ Later(f, v) /\ IoSpace(v) = IoSpace(f) - 1 /\ ~v.aok_on /\ v.iomemq = m
      /\ v.err = {} => Inserted(f.out_packq, "AOK_OFF", v.out_packq)
      /\ Len(f.out_packq) < PackSize => v.err = f.err
  <2>1. /\ Later(h, a) /\ a.iomemq = h.iomemq
        /\ Len(h.out_packq) < PackSize => a.err = h.err
        /\ a.err = {} => Inserted(h.out_packq, "AOK_OFF", a.out_packq)
    BY <1>6, AddPackFacts DEF Packs
  <2> HIDE DEF a
  <2>2. a \in FlowRecord
    BY <2>1 DEF Later
  <2>3. /\ v \in FlowRecord /\ v.iomemq = a.iomemq /\ ~v.aok_on /\ v.err = a.err
        /\ v.out_packq = a.out_packq
    BY <2>2 DEF FlowRecord
  <2> HIDE DEF v
  <2>4. IoSpace(v) = IoSpace(h)
    BY <2>1, <2>3 DEF IoSpace
  <2> QED
    BY <1>6, <1>7, <2>1, <2>3, <2>4 DEF Later
<1>10. Later(f, h)
  BY <1>6 DEF Later
<1> HIDE DEF v, a
<1> DEFINE d == addRequest(f, k)
           Goal(y) == /\ Later(f, y) /\ IoSpace(y) = IoSpace(f) - 1 /\ y.iomemq = m
                      /\ Len(f.out_packq) < PackSize => y.err = f.err
                      /\ IF f.aok_on /\ IoSpace(f) - 1 = AddrLimit
                         THEN /\ ~y.aok_on
                              /\ y.err = {} => Inserted(f.out_packq, "AOK_OFF", y.out_packq)
                         ELSE y.aok_on = f.aok_on /\ y.out_packq = f.out_packq
<1>11. Goal(d)
  BY <1>6, <1>7, <1>8, <1>9, <1>10
<1> QED
  BY <1>11 DEF m, x, b

\* No request waits for data or frees any.
NoWrites(f) == \A j \in DOMAIN f.iomemq : f.iomemq[j].n = 0

\* One request leaves the queue of noncacheable requests at most, and data may
\* be turned on.
LEMMA IoHalfFacts ==
    ASSUME NEW f \in FlowRecord, NEW ready \in BOOLEAN
    PROVE  LET g == IoHalf(f, ready)
           IN  /\ Later(f, g) /\ IoSpace(f) <= IoSpace(g) /\ IoSpace(g) <= IoSpace(f) + 1
               /\ g.aok_on = f.aok_on
               /\ g.err = {} => \/ g.out_packq = f.out_packq
                                \/ Inserted(f.out_packq, "DOK_ON", g.out_packq)
               /\ NoWrites(f) => NoWrites(g) /\ g.err = f.err /\ g.out_packq = f.out_packq
<1> DEFINE q == f.iomemq
           m == Ready(f, ready)
           d == IoHalf(f, ready)
           n == q[1].n
           k == f.dataq - n
           r == [f EXCEPT !.dataq = k]
           a == AddPack(r, "DOK_ON")
           w == [a EXCEPT !.dok_on = TRUE]
           z == RemoveData(f, n)
           rest == SubSeq(q, 2, Len(q))
           v == [z EXCEPT !.iomemq = rest]
           Goal(y) == /\ Later(f, y) /\ IoSpace(f) <= IoSpace(y) /\ IoSpace(y) <= IoSpace(f) + 1
                      /\ y.aok_on = f.aok_on
                      /\ y.err = {} => \/ y.out_packq = f.out_packq
                                       \/ Inserted(f.out_packq, "DOK_ON", y.out_packq)
                      /\ NoWrites(f) => NoWrites(y) /\ y.err = f.err /\ y.out_packq = f.out_packq
<1>1. q \in Seq(Request) /\ Len(q) \in Nat /\ MemSize \in Nat /\ f.compress = FALSE
      /\ IoSpace(f) = MemSize - Len(q)
  <2>1. q \in Seq(Request) /\ f.compress = FALSE
    BY DEF FlowRecord
  <2>2. Len(q) \in Nat
    BY <2>1
  <2>3. MemSize \in Nat
    BY SjmFlowAssumption
  <2> QED
    BY <2>1, <2>2, <2>3 DEF IoSpace
<1>2. q # <<>> => q[1] \in Request /\ q[1].comp = FALSE /\ n \in Nat
  <2>1. q # <<>> => q[1] \in Request
    BY <1>1
  <2>2. \A x \in Request : x.comp = FALSE /\ x.n \in Nat
    BY DEF Request
  <2> QED
    BY <2>1, <2>2
<1>3. m \in {0, 1} /\ (m = 1 => q # <<>>)
  BY <1>1, <1>2 DEF Ready
<1>4. [f EXCEPT !.compress = @ /\ (q = <<>> \/ q[1].comp)] = f
  <2> DEFINE c == f.compress /\ (q = <<>> \/ q[1].comp)
  <2>1. c = FALSE
    BY <1>1
  <2>2. [f EXCEPT !.compress = FALSE] = f
    BY DEF FlowRecord
  <2> QED
    BY <2>1, <2>2, Zenon
<1>5. d = IF m = 0 THEN f
          ELSE [RemoveData(f, IF q[1].comp THEN m ELSE q[1].n) EXCEPT !.iomemq = SubSeq(@, m + 1, Len(@))]
  <2> DEFINE g == [f EXCEPT !.compress = @ /\ (q = <<>> \/ q[1].comp)]
             R(y) == [RemoveData(y, IF q[1].comp THEN m ELSE q[1].n)
                        EXCEPT !.iomemq = SubSeq(@, m + 1, Len(@))]
  <2>1. d = IF g.compress \/ m = 0 THEN g ELSE R(g)
    BY Zenon DEF IoHalf
  <2>2. g = f
    BY <1>4
  <2> HIDE DEF g
  <2>3. R(g) = R(f)
    BY <2>2, Zenon
  <2> HIDE DEF R, m, d
  <2>4. d = IF m = 0 THEN f ELSE R(f)
    BY <1>1, <2>1, <2>2, <2>3
  <2> QED
    BY <2>4 DEF R
<1>6. CASE m = 0
  <2>1. d = f
    BY <1>5, <1>6
  <2>2. Goal(f)
    BY <1>1 DEF Later
  <2> QED
    BY <2>1, <2>2
<1>7. CASE m = 1
  <2>1. q[1] \in Request /\ q[1].comp = FALSE /\ n \in Nat /\ q # <<>>
    BY <1>2, <1>3, <1>7
  <2>2. k \in Int
    BY <2>1 DEF FlowRecord
  <2> HIDE DEF k
  <2>3. r \in FlowRecord /\ r.iomemq = q /\ r.aok_on = f.aok_on /\ r.err = f.err
        /\ r.out_packq = f.out_packq
    BY <2>2 DEF FlowRecord
  <2>4. z = w \/ z = r
    BY DEF RemoveData, k
  <2> HIDE DEF r, z
  <2>5. /\ z \in FlowRecord /\ Later(f, z) /\ z.iomemq = q /\ z.aok_on = f.aok_on
        /\ z.err = {} => \/ z.out_packq = f.out_packq
                         \/ Inserted(f.out_packq, "DOK_ON", z.out_packq)
    <3>1. CASE z = r
      BY <2>3, <3>1 DEF Later
    <3>2. CASE z = w
      <4>1. /\ Later(r, a) /\ a.iomemq = r.iomemq /\ a.aok_on = r.aok_on
            /\ a.err = {} => Inserted(r.out_packq, "DOK_ON", a.out_packq)
        BY <2>3, AddPackFacts DEF Packs
      <4> HIDE DEF a
      <4>2. a \in FlowRecord
        BY <4>1 DEF Later
      <4>3. /\ w \in FlowRecord /\ w.iomemq = a.iomemq /\ w.aok_on = a.aok_on /\ w.err = a.err
            /\ w.out_packq = a.out_packq
        BY <4>2 DEF FlowRecord
      <4> HIDE DEF w
      <4> QED
        BY <2>3, <3>2, <4>1, <4>3 DEF Later
    <3> QED
      BY <2>4, <3>1, <3>2
  <2>6. d = v
    <3>1. (IF q[1].comp THEN m ELSE q[1].n) = n /\ m # 0 /\ m + 1 = 2
      BY <1>7, <2>1
    <3>2. d = [z EXCEPT !.iomemq = SubSeq(@, 2, Len(@))]
      BY <1>5, <3>1, Zenon DEF z
    <3>3. d = [z EXCEPT !.iomemq = SubSeq(z.iomemq, 2, Len(z.iomemq))]
      BY <3>2
    <3> QED
      BY <2>5, <3>3, Zenon
  <2>7. rest \in Seq(Request) /\ Len(rest) = Len(q) - 1
    BY <1>1, <2>1
  <2>12. NoWrites(f) => z = r /\ \A j \in DOMAIN rest : rest[j].n = 0
    <3>1. SUFFICES ASSUME NoWrites(f) PROVE z = r /\ \A j \in DOMAIN rest : rest[j].n = 0
      OBVIOUS
    <3>2. \A j \in 1..Len(q) : q[j].n = 0
      BY <1>1, <3>1 DEF NoWrites
    <3>3. n = 0
      BY <1>1, <2>1, <3>2
    <3>4. z = r
      <4>1. ~(n > 0)
        BY <3>3
      <4> HIDE DEF n
      <4> QED
        BY <4>1, Zenon DEF z, r, k, RemoveData
    <3>5. ASSUME NEW j \in DOMAIN rest PROVE rest[j].n = 0
      <4>1. j \in 1..(Len(q) - 1) /\ j + 1 \in 1..Len(q)
        BY <1>1, <2>7
      <4>2. rest[j] = q[j + 1]
        BY <1>1, <2>1, <4>1
      <4> QED
        BY <3>2, <4>1, <4>2
    <3> QED
      BY <3>4, <3>5
  <2> HIDE DEF rest, q
  <2>8. /\ v \in FlowRecord /\ v.iomemq = rest /\ v.aok_on = z.aok_on /\ v.err = z.err
        /\ v.out_packq = z.out_packq
    BY <2>5, <2>7 DEF FlowRecord
  <2> HIDE DEF v
  <2>9. IoSpace(v) = IoSpace(f) + 1
    BY <1>1, <2>7, <2>8 DEF IoSpace
  <2>10. Later(f, v)
    BY <2>5, <2>8 DEF Later
  <2>11. IoSpace(f) \in Int
    BY <1>1
  <2>13. NoWrites(f) => NoWrites(v) /\ v.err = f.err /\ v.out_packq = f.out_packq
    BY <2>3, <2>8, <2>12 DEF NoWrites
  <2> QED
    BY <2>5, <2>6, <2>8, <2>9, <2>10, <2>11, <2>13
<1> QED
  BY <1>3, <1>6, <1>7

\* The addresses are turned on when the queue has two more places than the limit.
LEMMA FlowOnFacts ==
    ASSUME RoomForTwo, NEW f \in FlowRecord
    PROVE  LET g == FlowOn(f)
           IN  /\ Later(f, g) /\ IoSpace(g) = IoSpace(f) /\ g.iomemq = f.iomemq
               /\ Len(f.out_packq) < PackSize => g.err = f.err
               /\ \/ g = f /\ (f.aok_on \/ IoSpace(f) <= AddrLimit + 1)
                  \/ /\ ~f.aok_on /\ g.aok_on /\ IoSpace(f) > AddrLimit + 1
                     /\ g.err = {} => Inserted(f.out_packq, "AOK_ON", g.out_packq)
<1> DEFINE d == FlowOn(f)
           a == AddPack(f, "AOK_ON")
           v == [a EXCEPT !.memq_off = FALSE, !.aok_on = TRUE]
           Goal(y) ==
               /\ Later(f, y) /\ IoSpace(y) = IoSpace(f) /\ y.iomemq = f.iomemq
               /\ Len(f.out_packq) < PackSize => y.err = f.err
               /\ \/ y = f /\ (f.aok_on \/ IoSpace(f) <= AddrLimit + 1)
                  \/ /\ ~f.aok_on /\ y.aok_on /\ IoSpace(f) > AddrLimit + 1
                     /\ y.err = {} => Inserted(f.out_packq, "AOK_ON", y.out_packq)
<1>1. MemSize \in Nat /\ AddrLimit \in Nat /\ Len(f.iomemq) \in Nat /\ f.memq = 0
      /\ f.aok_on \in BOOLEAN /\ IoSpace(f) = MemSize - Len(f.iomemq) /\ MemSpace(f) = MemSize
  BY SjmFlowAssumption DEF FlowRecord, IoSpace, MemSpace
<1>2. CASE ~f.aok_on /\ MemSpace(f) > AddrLimit + 1 /\ IoSpace(f) > AddrLimit + 1
  <2>1. d = v
    BY <1>2 DEF FlowOn
  <2>2. /\ Later(f, a) /\ a.iomemq = f.iomemq
        /\ Len(f.out_packq) < PackSize => a.err = f.err
        /\ a.err = {} => Inserted(f.out_packq, "AOK_ON", a.out_packq)
    BY AddPackFacts DEF Packs
  <2> HIDE DEF a
  <2>3. a \in FlowRecord
    BY <2>2 DEF Later
  <2>4. /\ v \in FlowRecord /\ v.iomemq = a.iomemq /\ v.aok_on /\ v.err = a.err
        /\ v.out_packq = a.out_packq
    BY <2>3 DEF FlowRecord
  <2> HIDE DEF v
  <2>5. Later(f, v) /\ IoSpace(v) = IoSpace(f)
    BY <2>2, <2>4 DEF Later, IoSpace
  <2>6. Goal(v)
    BY <1>2, <2>2, <2>4, <2>5
  <2> HIDE DEF Goal
  <2>7. Goal(d)
    BY <2>1, <2>6
  <2> QED
    BY <2>7 DEF Goal
<1>3. CASE ~(~f.aok_on /\ MemSpace(f) > AddrLimit + 1 /\ IoSpace(f) > AddrLimit + 1)
  <2>1. d = f
    BY <1>3 DEF FlowOn
  <2>2. f.aok_on \/ IoSpace(f) <= AddrLimit + 1
    <3>1. IoSpace(f) \in Int /\ MemSpace(f) \in Int /\ IoSpace(f) <= MemSpace(f)
      BY <1>1
    <3>2. f.aok_on \/ ~(MemSpace(f) > AddrLimit + 1) \/ ~(IoSpace(f) > AddrLimit + 1)
      BY <1>3
    <3>3. AddrLimit \in Nat
      BY <1>1
    <3> HIDE DEF d, a, v, Goal
    <3>4. MemSpace(f) > AddrLimit + 1 \/ IoSpace(f) <= AddrLimit + 1
      <4>1. SUFFICES ASSUME ~(MemSpace(f) > AddrLimit + 1) PROVE IoSpace(f) <= AddrLimit + 1
        OBVIOUS
      <4>2. MemSpace(f) <= AddrLimit + 1
        BY <3>1, <3>3, <4>1
      <4> QED
        BY <3>1, <3>3, <4>2
    <3>5. IoSpace(f) > AddrLimit + 1 \/ IoSpace(f) <= AddrLimit + 1
      BY <3>1, <3>3
    <3> QED
      BY <3>2, <3>4, <3>5
  <2>3. Goal(f)
    BY <2>2 DEF Later
  <2> HIDE DEF Goal
  <2>4. Goal(d)
    BY <2>1, <2>3
  <2> QED
    BY <2>4 DEF Goal
<1> QED
  BY <1>2, <1>3

-----------------------------------------------------------------------------
(* The inductive invariant                                                 *)

OnBus(f) == IF f.bus \in Noncacheable THEN 1 ELSE 0

\* Between two cycles AOK_OFF never waits in the queue and AOK_ON waits once
\* at most.  While the flow is on the queue is short of its limit.  While it
\* is off AOK_OFF is being driven, or its senders have seen it and the one
\* address they had let go is on the bus or queued.  While AOK_ON waits the
\* senders still hold.
Steady(f) ==
    /\ NoIn(f.out_packq, "AOK_OFF")
    /\ OneIn(f.out_packq, "AOK_ON")
    /\ f.s.aok_next = ~f.s.halt
    /\ f.aok_on => IoSpace(f) > AddrLimit
    /\ ~f.aok_on => /\ NoIn(f.out_packq, "AOK_ON") /\ f.pin # "AOK_ON"
                    /\ IF f.pin = "AOK_OFF" THEN IoSpace(f) >= AddrLimit
                       ELSE f.s.halt /\ IoSpace(f) >= AddrLimit - 2 + OnBus(f)
    /\ ~NoIn(f.out_packq, "AOK_ON") => /\ f.pin # "AOK_ON" /\ f.s.halt
                                       /\ IoSpace(f) >= AddrLimit + 1 + OnBus(f)

FlowInv == /\ fl \in FlowRecord
           /\ "io" \notin fl.err
           /\ fl.err = {} => Steady(fl)

\* No pack about addresses came or went.
Kept(q, r) == /\ r \in Seq(Packs)
              /\ \A x \in {"AOK_ON", "AOK_OFF"} : /\ NoIn(q, x) <=> NoIn(r, x)
                                                  /\ OneIn(q, x) => OneIn(r, x)

LEMMA KeptFacts ==
    ASSUME NEW q, NEW r, Kept(q, r)
    PROVE  /\ NoIn(q, "AOK_ON") <=> NoIn(r, "AOK_ON")
           /\ NoIn(q, "AOK_OFF") <=> NoIn(r, "AOK_OFF")
           /\ OneIn(q, "AOK_ON") => OneIn(r, "AOK_ON")
           /\ OneIn(q, "AOK_OFF") => OneIn(r, "AOK_OFF")
<1> DEFINE both(x) == (NoIn(q, x) <=> NoIn(r, x)) /\ (OneIn(q, x) => OneIn(r, x))
<1>1. \A x \in {"AOK_ON", "AOK_OFF"} : both(x)
  BY DEF Kept
<1> HIDE DEF both
<1>2. both("AOK_ON") /\ both("AOK_OFF")
  BY <1>1
<1> QED
  BY <1>2 DEF both

LEMMA DataPackKept ==
    ASSUME NEW q \in Seq(Packs), NEW r, NEW p \in {"DOK_ON", "DOK_OFF"}, r = q \/ Inserted(q, p, r)
    PROVE  Kept(q, r)
<1>1. CASE r = q
  BY <1>1 DEF Kept
<1>2. CASE Inserted(q, p, r)
  <2>1. p \in Packs /\ {"AOK_ON", "AOK_OFF"} \subseteq Packs \ {p}
    BY DEF Packs
  <2>2. /\ r \in Seq(Packs)
        /\ \A x \in Packs \ {p} : /\ NoIn(q, x) => NoIn(r, x)
                                  /\ OneIn(q, x) => OneIn(r, x)
                                  /\ NoIn(r, x) => NoIn(q, x)
    BY <1>2, <2>1, InsertedFacts
  <2> QED
    BY <2>1, <2>2 DEF Kept
<1> QED
  BY <1>1, <1>2

LEMMA SpaceType ==
    ASSUME NEW f \in FlowRecord
    PROVE  IoSpace(f) \in Int /\ OnBus(f) \in {0, 1} /\ f.out_packq \in Seq(Packs)
<1>1. f.iomemq \in Seq(Request) /\ f.out_packq \in Seq(Packs)
  BY DEF FlowRecord
<1>2. Len(f.iomemq) \in Nat
  BY <1>1
<1>3. MemSize \in Nat
  BY SjmFlowAssumption
<1> QED
  BY <1>1, <1>2, <1>3 DEF IoSpace, OnBus

\* What the bus brings: an address takes a place, which there is.
LEMMA TakeBusFacts ==
    ASSUME RoomForTwo, NEW f \in FlowRecord, Steady(f)
    PROVE  LET t == TakeBus(f)
           IN  /\ Later(f, t) /\ IoSpace(t) = IoSpace(f) - OnBus(f)
               /\ IF OnBus(f) = 1 /\ f.aok_on /\ IoSpace(f) - 1 = AddrLimit
                  THEN /\ ~t.aok_on
                       /\ t.err = {} => Inserted(f.out_packq, "AOK_OFF", t.out_packq)
                  ELSE /\ t.aok_on = f.aok_on
                       /\ t.err = {} => Kept(f.out_packq, t.out_packq)
<1> DEFINE t == TakeBus(f)
           Goal(y) ==
               /\ Later(f, y) /\ IoSpace(y) = IoSpace(f) - OnBus(f)
               /\ IF OnBus(f) = 1 /\ f.aok_on /\ IoSpace(f) - 1 = AddrLimit
                  THEN /\ ~y.aok_on
                       /\ y.err = {} => Inserted(f.out_packq, "AOK_OFF", y.out_packq)
                  ELSE /\ y.aok_on = f.aok_on
                       /\ y.err = {} => Kept(f.out_packq, y.out_packq)
<1>1. IoSpace(f) \in Int /\ f.out_packq \in Seq(Packs) /\ f.aok_on \in BOOLEAN
  BY SpaceType DEF FlowRecord
<1>2. AddrLimit \in Nat /\ AddrLimit >= 2
  BY SjmFlowAssumption DEF RoomForTwo
<1>3. f.bus \in Noncacheable \union {"idle", "data"}
  BY DEF FlowRecord
<1>4. CASE f.bus = "idle"
  <2>1. t = f /\ OnBus(f) = 0
    BY <1>4 DEF TakeBus, OnBus, Noncacheable
  <2>2. Kept(f.out_packq, f.out_packq)
    BY <1>1, DataPackKept
  <2>3. Goal(f)
    BY <1>1, <2>1, <2>2 DEF Later
  <2> HIDE DEF Goal, t
  <2>4. Goal(t)
    BY <2>1, <2>3
  <2> QED
    BY <2>4 DEF Goal, t
<1>5. CASE f.bus = "data"
  <2> DEFINE d == AddData(f)
  <2>1. t = d /\ OnBus(f) = 0
    BY <1>5 DEF TakeBus, OnBus, Noncacheable
  <2>2. /\ Later(f, d) /\ Len(d.iomemq) = Len(f.iomemq) /\ d.aok_on = f.aok_on
        /\ d.err = {} => \/ d.out_packq = f.out_packq
                         \/ Inserted(f.out_packq, "DOK_OFF", d.out_packq)
    BY AddDataFacts
  <2> HIDE DEF d
  <2>3. d.err = {} => Kept(f.out_packq, d.out_packq)
    BY <1>1, <2>2, DataPackKept
  <2>4. IoSpace(d) = IoSpace(f)
    BY <2>2 DEF IoSpace
  <2>5. Goal(d)
    BY <1>1, <2>1, <2>2, <2>3, <2>4
  <2> HIDE DEF Goal, t
  <2>6. Goal(t)
    BY <2>1, <2>5
  <2> QED
    BY <2>6 DEF Goal, t
<1>6. CASE f.bus \in Noncacheable
  <2> DEFINE d == addRequest(f, f.bus)
  <2>1. t = d /\ OnBus(f) = 1
    BY <1>6 DEF TakeBus, OnBus, Noncacheable
  <2>2. IoSpace(f) > 0
    <3>1. f.aok_on => IoSpace(f) > AddrLimit
      BY DEF Steady
    <3>2. ~f.aok_on => IoSpace(f) >= AddrLimit \/ IoSpace(f) >= AddrLimit - 2 + 1
      BY <2>1 DEF Steady
    <3> QED
      BY <1>1, <1>2, <3>1, <3>2
  <2>3. /\ Later(f, d) /\ IoSpace(d) = IoSpace(f) - 1
        /\ IF f.aok_on /\ IoSpace(f) - 1 = AddrLimit
           THEN /\ ~d.aok_on
                /\ d.err = {} => Inserted(f.out_packq, "AOK_OFF", d.out_packq)
           ELSE d.aok_on = f.aok_on /\ d.out_packq = f.out_packq
    BY <1>6, <2>2, addRequestFacts
  <2> HIDE DEF d
  <2>4. Kept(f.out_packq, f.out_packq)
    BY <1>1, DataPackKept
  <2>5. Goal(d)
    BY <2>1, <2>3, <2>4
  <2> HIDE DEF Goal, t
  <2>6. Goal(t)
    BY <2>1, <2>5
  <2> QED
    BY <2>6 DEF Goal, t
<1> QED
  BY <1>3, <1>4, <1>5, <1>6

\* Without snoops and coherent requests the other steps change nothing.
LEMMA NothingCoherent ==
    ASSUME NEW f \in FlowRecord, NEW b
    PROVE  ResultCycleFl(f, b) = f /\ SnoopCycleFl(f, b) = f /\ MemHalf(f, b) = f
<1>1. f.resultsq = <<>> /\ f.snoopq = 0 /\ f.memq = 0
  BY DEF FlowRecord
<1>2. ResultCycleFl(f, b) = f
  <2> DEFINE ready == b /\ f.acked > 0 /\ f.resultsq # <<>> /\ ~Head(f.resultsq).done
             g == IF ready THEN [f EXCEPT !.resultsq[1].done = TRUE, !.acked = @ - 1] ELSE f
  <2>1. ResultCycleFl(f, b) =
          IF g.resultsq # <<>> /\ Head(g.resultsq).done /\ ~Head(g.resultsq).hold
          THEN ClearResults(g) ELSE g
    BY Zenon DEF ResultCycleFl
  <2>2. ~ready
    BY <1>1
  <2>3. g = f
    BY <2>2, Zenon
  <2> HIDE DEF g
  <2> QED
    BY <1>1, <2>1, <2>3
<1>3. SnoopCycleFl(f, b) = f
  BY <1>1, Zenon DEF SnoopCycleFl
<1>4. MemHalf(f, b) = f
  <2>1. ~(b /\ f.memq > 0 /\ f.resultsq # <<>> /\ Head(f.resultsq).hold /\ Head(f.resultsq).done)
    BY <1>1
  <2> QED
    BY <2>1, Zenon DEF MemHalf
<1> QED
  BY <1>2, <1>3, <1>4

\* A sender goes by the packs up to the last cycle's; what it hears in this
\* one binds it in the next.
LEMMA UpdatePacksFacts ==
    ASSUME NEW s \in Sender, NEW p \in Packs \union {"IDLE"}
    PROVE  LET u == UpdatePacks(s, p)
           IN  /\ u \in Sender /\ u.aok_prev = s.aok_next /\ u.aok_next = ~u.halt
               /\ p = "AOK_OFF" => u.halt
               /\ p # "AOK_ON" /\ s.halt => u.halt
<1> DEFINE halt == CASE p = "AOK_ON" -> FALSE [] p = "AOK_OFF" -> TRUE [] OTHER -> s.halt
           dok == CASE p = "DOK_ON" -> TRUE [] p = "DOK_OFF" -> FALSE [] OTHER -> s.dok_next
           u == [halt |-> halt, aok_prev |-> s.aok_next, aok_next |-> ~halt, dok_prev |-> s.dok_next,
                 dok_next |-> dok]
<1>1. UpdatePacks(s, p) = u
  BY Zenon DEF UpdatePacks
<1>2. /\ s.halt \in BOOLEAN /\ s.aok_next \in BOOLEAN /\ s.dok_next \in BOOLEAN
  BY DEF Sender
<1>3. halt \in BOOLEAN /\ (p = "AOK_OFF" => halt) /\ (p # "AOK_ON" /\ s.halt => halt)
  BY <1>2
<1>4. dok \in BOOLEAN
  BY <1>2
<1> HIDE DEF halt, dok
<1>5. u \in Sender /\ u.halt = halt /\ u.aok_prev = s.aok_next /\ u.aok_next = ~halt
  BY <1>2, <1>3, <1>4 DEF Sender
<1> QED
  BY <1>1, <1>3, <1>5

\* The pack a cycle sends, and what is left of the queue.
LEMMA DrivenFacts ==
    ASSUME NEW q \in Seq(Packs), NEW p, NEW r,
           p = IF q = <<>> THEN "IDLE" ELSE Head(q),
           r = IF q = <<>> THEN q ELSE Tail(q)
    PROVE  /\ r \in Seq(Packs) /\ p \in Packs \union {"IDLE"}
           /\ \A x \in Packs : /\ NoIn(q, x) => NoIn(r, x) /\ p # x
                               /\ OneIn(q, x) => OneIn(r, x)
                               /\ OneIn(q, x) /\ p = x => NoIn(r, x)
                               /\ p # x /\ NoIn(r, x) => NoIn(q, x)
<1>1. CASE q = <<>>
  <2>1. \A x \in Packs : "IDLE" # x
    BY DEF Packs
  <2>2. p = "IDLE" /\ r = q
    BY <1>1
  <2> QED
    BY <2>1, <2>2
<1>2. CASE q # <<>>
  <2>1. p = Head(q) /\ r = Tail(q)
    BY <1>2
  <2> QED
    BY <1>2, <2>1, SentFacts
<1> QED
  BY <1>1, <1>2

\* One cycle: f before it, t after the bus, i after the requests, o after the
\* flow control and g at its end.
LEMMA CycleSteady ==
    ASSUME RoomForTwo, NEW f \in FlowRecord, Steady(f), NEW e \in FlowEnv,
           NEW t, t = TakeBus(f), NEW i, i = IoHalf(t, e.io), NEW o, o = FlowOn(i),
           NEW s, s = UpdatePacks(f.s, f.pin),
           NEW g \in FlowRecord, g.s = s, g.err = o.err, g.err = {}, IoSpace(g) = IoSpace(o),
           g.aok_on = o.aok_on,
           g.pin = IF o.out_packq = <<>> THEN "IDLE" ELSE Head(o.out_packq),
           g.out_packq = IF o.out_packq = <<>> THEN o.out_packq ELSE Tail(o.out_packq),
           OnBus(g) = 1 => s.aok_prev
    PROVE  Steady(g)
<1> DEFINE q == f.out_packq
           r == o.out_packq
<1>1. AddrLimit \in Nat /\ AddrLimit >= 2 /\ IoSpace(f) \in Int /\ OnBus(f) \in {0, 1}
      /\ OnBus(g) \in {0, 1} /\ q \in Seq(Packs)
  BY SjmFlowAssumption, SpaceType DEF RoomForTwo
<1>2. f.s \in Sender /\ f.pin \in Packs \union {"IDLE"} /\ f.aok_on \in BOOLEAN
      /\ {"AOK_ON", "AOK_OFF", "DOK_ON", "DOK_OFF"} = Packs
  BY DEF FlowRecord, Packs
<1>3. /\ s.aok_prev = f.s.aok_next /\ s.aok_next = ~s.halt
      /\ f.pin = "AOK_OFF" => s.halt
      /\ f.pin # "AOK_ON" /\ f.s.halt => s.halt
  BY <1>2, UpdatePacksFacts
<1>4. f.s.halt => OnBus(g) = 0
  <2>1. f.s.aok_next = ~f.s.halt
    BY DEF Steady
  <2> QED
    BY <1>1, <1>3, <2>1
<1>5. /\ Later(f, t) /\ IoSpace(t) = IoSpace(f) - OnBus(f)
      /\ IF OnBus(f) = 1 /\ f.aok_on /\ IoSpace(f) - 1 = AddrLimit
         THEN ~t.aok_on /\ (t.err = {} => Inserted(q, "AOK_OFF", t.out_packq))
         ELSE t.aok_on = f.aok_on /\ (t.err = {} => Kept(q, t.out_packq))
  BY TakeBusFacts
<1>6. t \in FlowRecord /\ IoSpace(t) \in Int /\ t.out_packq \in Seq(Packs)
  BY <1>5, SpaceType DEF Later
<1>7. /\ Later(t, i) /\ IoSpace(t) <= IoSpace(i) /\ IoSpace(i) <= IoSpace(t) + 1
      /\ i.aok_on = t.aok_on
      /\ i.err = {} => i.out_packq = t.out_packq \/ Inserted(t.out_packq, "DOK_ON", i.out_packq)
  <2>1. e.io \in BOOLEAN
    BY DEF FlowEnv
  <2> QED
    BY <1>6, <2>1, IoHalfFacts
<1>8. i \in FlowRecord /\ IoSpace(i) \in Int /\ i.out_packq \in Seq(Packs)
  BY <1>7, SpaceType DEF Later
<1>9. /\ Later(i, o) /\ IoSpace(o) = IoSpace(i)
      /\ \/ o = i /\ (i.aok_on \/ IoSpace(i) <= AddrLimit + 1)
         \/ /\ ~i.aok_on /\ o.aok_on /\ IoSpace(i) > AddrLimit + 1
            /\ o.err = {} => Inserted(i.out_packq, "AOK_ON", r)
  BY <1>8, FlowOnFacts
<1>10. t.err = {} /\ i.err = {} /\ o.err = {}
  BY <1>7, <1>9 DEF Later
<1>11. r \in Seq(Packs)
  BY <1>9, SpaceType DEF Later
<1>12. /\ \A x \in Packs : /\ NoIn(r, x) => NoIn(g.out_packq, x) /\ g.pin # x
                           /\ OneIn(r, x) => OneIn(g.out_packq, x)
                           /\ OneIn(r, x) /\ g.pin = x => NoIn(g.out_packq, x)
                           /\ g.pin # x /\ NoIn(g.out_packq, x) => NoIn(r, x)
  <2> DEFINE p == g.pin w == g.out_packq
  <2>1. p = (IF r = <<>> THEN "IDLE" ELSE Head(r)) /\ w = (IF r = <<>> THEN r ELSE Tail(r))
    OBVIOUS
  <2> HIDE DEF r, p, w
  <2>2. \A x \in Packs : /\ NoIn(r, x) => NoIn(w, x) /\ p # x
                         /\ OneIn(r, x) => OneIn(w, x)
                         /\ OneIn(r, x) /\ p = x => NoIn(w, x)
                         /\ p # x /\ NoIn(w, x) => NoIn(r, x)
    BY <1>11, <2>1, DrivenFacts
  <2> QED
    BY <2>2, Zenon DEF p, w, r
<1>13. NoIn(q, "AOK_OFF") /\ OneIn(q, "AOK_ON")
  BY DEF Steady
<1>14. Kept(t.out_packq, i.out_packq)
  BY <1>6, <1>7, <1>10, DataPackKept
<1>15. g.s.aok_next = ~g.s.halt
  BY <1>3
<1> HIDE DEF q, r
\* The address that reaches the limit turns the flow off.
<1>16. CASE OnBus(f) = 1 /\ f.aok_on /\ IoSpace(f) - 1 = AddrLimit
  <2>1. ~t.aok_on /\ Inserted(q, "AOK_OFF", t.out_packq) /\ IoSpace(t) = AddrLimit
    BY <1>5, <1>10, <1>16
  <2>2. NoIn(q, "AOK_ON")
    <3>1. ~NoIn(q, "AOK_ON") => IoSpace(f) >= AddrLimit + 1 + OnBus(f)
      BY DEF Steady, q
    <3> QED
      BY <1>1, <1>16, <3>1
  <2>3. "AOK_OFF" \in Packs /\ "AOK_ON" \in Packs \ {"AOK_OFF"}
    BY <1>2
  <2>4. OneIn(t.out_packq, "AOK_OFF") /\ NoIn(t.out_packq, "AOK_ON") /\ t.out_packq # <<>>
        /\ Head(t.out_packq) = "AOK_OFF"
    <3>1. \A x : x \notin Before("AOK_OFF")
      BY DEF Before
    <3> DEFINE w == t.out_packq
    <3>2. Inserted(q, "AOK_OFF", w) /\ q \in Seq(Packs)
      BY <1>1, <2>1 DEF q
    <3> HIDE DEF w
    <3>3. /\ w # <<>>
          /\ Head(w) = IF q # <<>> /\ Head(q) \in Before("AOK_OFF") THEN Head(q) ELSE "AOK_OFF"
          /\ NoIn(q, "AOK_OFF") => OneIn(w, "AOK_OFF")
          /\ NoIn(q, "AOK_ON") => NoIn(w, "AOK_ON")
      BY <2>3, <3>2, InsertedFacts
    <3> QED
      BY <1>13, <2>2, <3>1, <3>3 DEF w
  <2>5. o = i
    BY <1>1, <1>6, <1>7, <1>8, <1>9, <2>1
  <2>6. OneIn(r, "AOK_OFF") /\ NoIn(r, "AOK_ON")
    BY <1>14, <2>4, <2>5, KeptFacts DEF r
  <2>7. r # <<>> /\ Head(r) = "AOK_OFF"
    <3>1. CASE i.out_packq = t.out_packq
      BY <2>4, <2>5, <3>1 DEF r
    <3>2. CASE Inserted(t.out_packq, "DOK_ON", i.out_packq)
      <4>1. Head(t.out_packq) \in Before("DOK_ON")
        BY <2>4 DEF Before
      <4>2. "DOK_ON" \in Packs
        BY <1>2
      <4>3. i.out_packq # <<>> /\ Head(i.out_packq) = Head(t.out_packq)
        BY <1>6, <2>4, <3>2, <4>1, <4>2, InsertedFacts
      <4> QED
        BY <2>4, <2>5, <4>3 DEF r
    <3> QED
      BY <1>7, <1>10, <3>1, <3>2
  <2>8. g.pin = "AOK_OFF"
    BY <2>7 DEF r
  <2>9. NoIn(g.out_packq, "AOK_OFF") /\ NoIn(g.out_packq, "AOK_ON")
    BY <1>2, <1>12, <2>6, <2>8
  <2>10. OneIn(g.out_packq, "AOK_ON")
    BY <2>9 DEF NoIn, OneIn
  <2>11. ~g.aok_on /\ IoSpace(g) >= AddrLimit
    BY <1>1, <1>6, <1>7, <1>8, <2>1, <2>5
  <2> QED
    BY <1>15, <2>8, <2>9, <2>10, <2>11 DEF Steady
<1>17. CASE ~(OnBus(f) = 1 /\ f.aok_on /\ IoSpace(f) - 1 = AddrLimit)
  <2>1. t.aok_on = f.aok_on /\ Kept(q, t.out_packq)
    <3>1. t.aok_on = f.aok_on /\ (t.err = {} => Kept(q, t.out_packq))
      BY <1>5, <1>17
    <3> QED
      BY <1>10, <3>1
  <2>2. /\ NoIn(i.out_packq, "AOK_OFF") /\ OneIn(i.out_packq, "AOK_ON")
        /\ NoIn(q, "AOK_ON") <=> NoIn(i.out_packq, "AOK_ON")
    BY <1>13, <1>14, <2>1, KeptFacts
  <2>3. IoSpace(g) \in Int /\ IoSpace(g) >= IoSpace(f) - OnBus(f)
    BY <1>1, <1>5, <1>6, <1>7, <1>8, <1>9
  <2>4. CASE ~f.aok_on
    <3>1. /\ NoIn(q, "AOK_ON") /\ f.pin # "AOK_ON"
          /\ f.pin = "AOK_OFF" => IoSpace(f) >= AddrLimit
          /\ f.pin # "AOK_OFF" => f.s.halt /\ IoSpace(f) >= AddrLimit - 2 + OnBus(f)
      BY <2>4 DEF Steady, q
    <3>2. s.halt
      BY <1>3, <3>1
    <3>3. IoSpace(g) >= AddrLimit - 2 + OnBus(g)
      BY <1>1, <1>4, <2>3, <3>1
    \* The flow stays off.
    <3>4. CASE o = i /\ (i.aok_on \/ IoSpace(i) <= AddrLimit + 1)
      <4>1. NoIn(r, "AOK_OFF") /\ NoIn(r, "AOK_ON")
        BY <2>2, <3>1, <3>4 DEF r
      <4>2. /\ NoIn(g.out_packq, "AOK_OFF") /\ NoIn(g.out_packq, "AOK_ON")
            /\ g.pin # "AOK_OFF" /\ g.pin # "AOK_ON"
        BY <1>2, <1>12, <4>1
      <4>3. OneIn(g.out_packq, "AOK_ON")
        BY <4>2 DEF NoIn, OneIn
      <4>4. ~g.aok_on /\ g.s.halt
        BY <1>7, <2>1, <2>4, <3>2, <3>4
      <4> QED
        BY <1>15, <3>3, <4>2, <4>3, <4>4 DEF Steady
    \* There is room again, and AOK_ON joins the queue.
    <3>5. CASE /\ ~i.aok_on /\ o.aok_on /\ IoSpace(i) > AddrLimit + 1
               /\ o.err = {} => Inserted(i.out_packq, "AOK_ON", r)
      <4>1. "AOK_ON" \in Packs /\ "AOK_OFF" \in Packs \ {"AOK_ON"}
        BY <1>2
      <4>2. NoIn(r, "AOK_OFF") /\ OneIn(r, "AOK_ON")
        BY <1>8, <1>10, <2>2, <3>1, <3>5, <4>1, InsertedFacts
      <4>3. /\ NoIn(g.out_packq, "AOK_OFF") /\ OneIn(g.out_packq, "AOK_ON")
            /\ g.pin = "AOK_ON" => NoIn(g.out_packq, "AOK_ON")
        BY <1>2, <1>12, <4>2
      <4>4. g.aok_on /\ g.s.halt /\ IoSpace(g) > AddrLimit + 1
        BY <1>9, <3>2, <3>5
      <4>5. IoSpace(g) >= AddrLimit + 1 + OnBus(g) /\ IoSpace(g) > AddrLimit
        BY <1>1, <2>3, <4>4
      <4> QED
        BY <1>15, <4>3, <4>4, <4>5 DEF Steady
    <3> QED
      BY <1>9, <3>4, <3>5
  \* The flow stays on: there is room for the address that came.
  <2>5. CASE f.aok_on
    <3>1. o = i /\ g.aok_on
      BY <1>7, <1>9, <2>1, <2>5
    <3>2. IoSpace(g) > AddrLimit
      <4>1. IoSpace(f) > AddrLimit
        BY <2>5 DEF Steady
      <4>2. IoSpace(f) - OnBus(f) > AddrLimit
        BY <1>1, <1>17, <2>5, <4>1
      <4> QED
        BY <1>1, <2>3, <4>2
    <3>3. NoIn(g.out_packq, "AOK_OFF") /\ OneIn(g.out_packq, "AOK_ON")
      BY <1>2, <1>12, <2>2, <3>1 DEF r
    <3>4. ASSUME ~NoIn(g.out_packq, "AOK_ON")
          PROVE  g.pin # "AOK_ON" /\ g.s.halt /\ IoSpace(g) >= AddrLimit + 1 + OnBus(g)
      <4>1. ~NoIn(r, "AOK_ON") /\ OneIn(r, "AOK_ON")
        BY <1>2, <1>12, <2>2, <3>1, <3>4 DEF r
      <4>2. g.pin # "AOK_ON"
        BY <1>2, <1>12, <3>4, <4>1
      <4>3. ~NoIn(q, "AOK_ON")
        BY <2>2, <3>1, <4>1 DEF r
      <4>4. f.pin # "AOK_ON" /\ f.s.halt /\ IoSpace(f) >= AddrLimit + 1 + OnBus(f)
        BY <4>3 DEF Steady, q
      <4>5. g.s.halt /\ OnBus(g) = 0
        BY <1>3, <1>4, <4>4
      <4> QED
        BY <1>1, <2>3, <4>2, <4>4, <4>5
    <3> QED
      BY <1>15, <3>1, <3>2, <3>3, <3>4 DEF Steady
  <2> QED
    BY <2>4, <2>5
<1> QED
  BY <1>16, <1>17

-----------------------------------------------------------------------------
(* The cycles of the specification                                         *)

\* What FlowCycle assigns, under the traffic of the theorems.
LEMMA CycleFacts ==
    ASSUME RoomForTwo, NoncacheableOnly, FlowInv, NEW k, NEW e \in FlowEnv, FlowCycle(k, e)
    PROVE  LET t == TakeBus(fl)
               i == IoHalf(t, e.io)
               o == FlowOn(i)
               s == UpdatePacks(fl.s, fl.pin)
               q == o.out_packq
           IN  /\ fl.err = {} /\ Steady(fl) /\ Later(fl, o) /\ Drives(fl, s, k)
               /\ k \in fl.traffic \union {"idle", "data"}
               /\ fl' \in FlowRecord /\ fl'.s = s /\ fl'.bus = k /\ fl'.err = o.err
               /\ fl'.iomemq = o.iomemq /\ fl'.aok_on = o.aok_on
               /\ fl'.pin = (IF q = <<>> THEN "IDLE" ELSE Head(q))
               /\ fl'.out_packq = (IF q = <<>> THEN q ELSE Tail(q))
               /\ k # "data" => fl'.beats = Beats(k)
<1> DEFINE t == TakeBus(fl)
           c == ResultCycleFl(t, e.packs)
           n == SnoopCycleFl(c, e.blocked)
           m == MemHalf(n, e.mem)
           i == IoHalf(t, e.io)
           o == FlowOn(i)
           s == UpdatePacks(fl.s, fl.pin)
           q == o.out_packq
           p == IF q = <<>> THEN "IDLE" ELSE Head(q)
           r == IF q = <<>> THEN q ELSE Tail(q)
           b == IF k = "data" THEN o.beats - 1 ELSE Beats(k)
           a == o.acked + (IF fl.pin = "COHACK" THEN 1 ELSE 0)
<1>1. fl \in FlowRecord /\ fl.err = {} /\ Steady(fl)
  BY DEF FlowCycle, FlowInv
<1>2. Later(fl, t) /\ t \in FlowRecord
  BY <1>1, TakeBusFacts DEF Later
<1>3. c = t /\ n = t /\ m = t
  <2> HIDE DEF t
  <2>1. c = t
    BY <1>2, NothingCoherent
  <2>2. n = t
    BY <1>2, <2>1, NothingCoherent
  <2>3. m = t
    BY <1>2, <2>2, NothingCoherent
  <2> QED
    BY <2>1, <2>2, <2>3
<1>4. MemCycleFl(n, e) = o
  <2> HIDE DEF n, t
  <2>1. MemCycleFl(n, e) = FlowOn(IoHalf(m, e.io))
    BY Zenon DEF MemCycleFl
  <2> HIDE DEF m
  <2> QED
    BY <1>3, <2>1, Zenon
<1>5. /\ Drives(fl, s, k)
      /\ fl' = [MemCycleFl(n, e) EXCEPT
                  !.s = s, !.bus = k,
                  !.beats = IF k = "data" THEN @ - 1 ELSE Beats(k),
                  !.pin = IF MemCycleFl(n, e).out_packq = <<>> THEN "IDLE"
                          ELSE Head(MemCycleFl(n, e).out_packq),
                  !.out_packq = IF @ = <<>> THEN @ ELSE Tail(@),
                  !.acked = @ + (IF fl.pin = "COHACK" THEN 1 ELSE 0)]
  BY Zenon DEF FlowCycle
<1>6. fl' = [o EXCEPT !.s = s, !.bus = k, !.beats = b, !.pin = p, !.out_packq = r, !.acked = a]
  <2> DEFINE M == MemCycleFl(n, e)
  <2>1. fl' = [M EXCEPT !.s = s, !.bus = k,
                  !.beats = IF k = "data" THEN M.beats - 1 ELSE Beats(k),
                  !.pin = IF M.out_packq = <<>> THEN "IDLE" ELSE Head(M.out_packq),
                  !.out_packq = IF M.out_packq = <<>> THEN M.out_packq ELSE Tail(M.out_packq),
                  !.acked = M.acked + (IF fl.pin = "COHACK" THEN 1 ELSE 0)]
    BY <1>5, Zenon
  <2>2. M = o
    BY <1>4
  <2> HIDE DEF M, o
  <2> QED
    BY <2>1, <2>2, Zenon
<1>7. Later(fl, o) /\ o \in FlowRecord
  <2>1. Later(t, i)
    <3>1. e.io \in BOOLEAN
      BY DEF FlowEnv
    <3> QED
      BY <1>2, <3>1, IoHalfFacts
  <2>2. i \in FlowRecord
    BY <2>1 DEF Later
  <2>3. Later(i, o)
    BY <2>2, FlowOnFacts
  <2> HIDE DEF t, i, o
  <2>4. Later(fl, o)
    BY <1>2, <2>1, <2>3, LaterIsTransitive
  <2> QED
    BY <2>4 DEF Later
<1>8. k \in fl.traffic \union {"idle", "data"}
  BY <1>5 DEF Drives
<1>9. k \in Noncacheable \union {"idle", "data"}
  <2>1. fl.traffic \in Traffics
    BY <1>1 DEF FlowRecord
  <2>2. fl.traffic \subseteq Noncacheable
    BY <2>1 DEF NoncacheableOnly
  <2> QED
    BY <1>8, <2>2
<1>10. s \in Sender
  <2>1. fl.s \in Sender /\ fl.pin \in Packs \union {"IDLE"}
    BY <1>1 DEF FlowRecord
  <2> QED
    BY <2>1, UpdatePacksFacts
<1> HIDE DEF t, i, o, s
<1>11. q \in Seq(Packs) /\ o.beats \in Int /\ o.acked = 0
  BY <1>7 DEF FlowRecord
<1>12. p \in Packs \union {"IDLE"} /\ r \in Seq(Packs)
  BY <1>11, DrivenFacts
<1>13. b \in Int /\ (k # "data" => b = Beats(k))
  <2>1. Beats(k) \in Int
    BY <1>9 DEF Beats, Noncacheable
  <2> QED
    BY <1>11, <2>1
<1>14. a = 0
  <2>1. fl.pin # "COHACK"
    BY <1>1 DEF FlowRecord, Packs
  <2> QED
    BY <1>11, <2>1
<1> HIDE DEF q, p, r, b, a
<1>15. /\ fl' \in FlowRecord
  BY <1>6, <1>7, <1>9, <1>10, <1>12, <1>13, <1>14 DEF FlowRecord
<1>16. /\ fl'.s = s /\ fl'.bus = k /\ fl'.err = o.err /\ fl'.iomemq = o.iomemq
       /\ fl'.aok_on = o.aok_on /\ fl'.pin = p /\ fl'.out_packq = r /\ fl'.beats = b
  BY <1>6, <1>7 DEF FlowRecord
<1> QED
  BY <1>1, <1>5, <1>7, <1>8, <1>13, <1>15, <1>16 DEF t, i, o, s, q, p, r

LEMMA FlowInvInit ==
    ASSUME RoomForTwo, NoncacheableOnly, FlowInit
    PROVE  FlowInv
<1>1. PICK c \in Traffics : fl = FlowReset(c)
  BY DEF FlowInit
<1>2. fl \in FlowRecord
  <2>1. <<>> \in Seq(Request) /\ <<>> \in Seq(Packs)
    OBVIOUS
  <2>2. [halt |-> FALSE, aok_next |-> TRUE, aok_prev |-> TRUE, dok_next |-> TRUE, dok_prev |-> TRUE] \in Sender
    BY DEF Sender
  <2> QED
    BY <1>1, <2>1, <2>2 DEF FlowReset, FlowRecord
<1>3. /\ fl.err = {} /\ fl.out_packq = <<>> /\ fl.iomemq = <<>> /\ fl.aok_on
      /\ fl.s.aok_next = TRUE /\ fl.s.halt = FALSE
  BY <1>1 DEF FlowReset
<1>4. IoSpace(fl) > AddrLimit
  <2>1. MemSize \in Nat /\ Len(fl.iomemq) = 0
    BY <1>3, SjmFlowAssumption
  <2> QED
    BY <2>1 DEF IoSpace, RoomForTwo
<1>5. \A x : NoIn(fl.out_packq, x) /\ OneIn(fl.out_packq, x)
  BY <1>3 DEF NoIn, OneIn
<1>6. Steady(fl)
  BY <1>3, <1>4, <1>5 DEF Steady
<1> QED
  BY <1>2, <1>3, <1>6 DEF FlowInv

LEMMA FlowInvNext ==
    ASSUME RoomForTwo, NoncacheableOnly, FlowInv, [FlowNext]_fl
    PROVE  FlowInv'
<1>1. CASE UNCHANGED fl
  BY <1>1 DEF FlowInv, FlowRecord, Steady, IoSpace, OnBus
<1>2. CASE FlowNext
  <2>1. PICK k \in FlowKinds \union {"idle", "data"}, e \in FlowEnv : FlowCycle(k, e)
    BY <1>2 DEF FlowNext
  <2> DEFINE t == TakeBus(fl)
             i == IoHalf(t, e.io)
             o == FlowOn(i)
             s == UpdatePacks(fl.s, fl.pin)
             g == fl'
  <2>2. /\ fl.err = {} /\ Steady(fl) /\ Later(fl, o) /\ Drives(fl, s, k)
        /\ g \in FlowRecord /\ g.s = s /\ g.bus = k /\ g.err = o.err
        /\ g.iomemq = o.iomemq /\ g.aok_on = o.aok_on
        /\ g.pin = (IF o.out_packq = <<>> THEN "IDLE" ELSE Head(o.out_packq))
        /\ g.out_packq = (IF o.out_packq = <<>> THEN o.out_packq ELSE Tail(o.out_packq))
    BY <2>1, CycleFacts
  <2>3. IoSpace(g) = IoSpace(o)
    BY <2>2 DEF IoSpace
  <2>4. OnBus(g) = 1 => s.aok_prev
    BY <2>2 DEF OnBus, Drives, Noncacheable
  <2>5. fl \in FlowRecord
    BY DEF FlowInv
  <2>6. g.err = {} => Steady(g)
    <3>1. SUFFICES ASSUME g.err = {} PROVE Steady(g)
      OBVIOUS
    <3> HIDE DEF g
    <3> QED
      BY <2>2, <2>3, <2>4, <2>5, <3>1, CycleSteady
  <2>7. "io" \notin g.err
    BY <2>2 DEF Later
  <2> QED
    BY <2>2, <2>6, <2>7 DEF FlowInv, FlowRecord, Steady, IoSpace, OnBus
<1> QED
  BY <1>1, <1>2

\* Noncacheable traffic of any mixture, over queues and limits of any size that
\* leave room for two, never overflows the request queue: only packs or data
\* can be lost.  addRequest never reports "CODE ERROR: iomemq overflow".
THEOREM AddressesFit ==
    ASSUME RoomForTwo, NoncacheableOnly
    PROVE  FlowSpec => [](fl.err \subseteq {"pack", "data"})
<1>1. FlowInit => FlowInv
  BY FlowInvInit
<1>2. FlowInv /\ [FlowNext]_fl => FlowInv'
  BY FlowInvNext
<1>3. FlowInv => fl.err \subseteq {"pack", "data"}
  BY DEF FlowInv, FlowRecord
<1> QED
  BY <1>1, <1>2, <1>3, PTL DEF FlowSpec

\* Reads bring no data, so each cycle has one pack to send at most and the
\* queue of packs is empty between cycles.
ReadInv == /\ FlowInv
           /\ fl.err = {} /\ fl.out_packq = <<>> /\ NoWrites(fl)
           /\ fl.bus \in {"idle", "ncrd"} /\ fl.beats = 0

LEMMA ReadCycle ==
    ASSUME RoomForTwo, ReadsOnly, NoncacheableOnly, ReadInv, NEW k, NEW e \in FlowEnv, FlowCycle(k, e)
    PROVE  ReadInv'
<1> DEFINE t == TakeBus(fl)
           i == IoHalf(t, e.io)
           o == FlowOn(i)
           s == UpdatePacks(fl.s, fl.pin)
           q == fl.out_packq
<1>1. FlowInv /\ FlowInv'
  <2>1. k \in FlowKinds \union {"idle", "data"}
    <3>1. k \in fl.traffic \union {"idle", "data"} /\ fl.traffic \in Traffics
      BY CycleFacts DEF ReadInv, FlowInv, FlowRecord
    <3> QED
      BY <3>1, SjmFlowAssumption DEF FlowKinds
  <2>2. FlowNext
    BY <2>1 DEF FlowNext
  <2> QED
    BY <2>2, FlowInvNext DEF ReadInv
<1>2. /\ Steady(fl) /\ Drives(fl, s, k) /\ k \in fl.traffic \union {"idle", "data"}
      /\ fl'.bus = k /\ fl'.err = o.err /\ fl'.iomemq = o.iomemq
      /\ fl'.out_packq = (IF o.out_packq = <<>> THEN o.out_packq ELSE Tail(o.out_packq))
      /\ k # "data" => fl'.beats = Beats(k)
  BY <1>1, CycleFacts
<1>3. /\ fl \in FlowRecord /\ fl.err = {} /\ q = <<>> /\ NoWrites(fl)
      /\ fl.bus \in {"idle", "ncrd"} /\ fl.beats = 0
  BY DEF ReadInv, FlowInv
<1>4. PackSize \in Nat \ {0} /\ AddrLimit \in Nat /\ Len(q) < PackSize
  BY <1>3, SjmFlowAssumption
<1>5. k \in {"idle", "ncrd"} /\ fl'.beats = 0
  <2>1. fl.traffic \in Traffics
    BY <1>3 DEF FlowRecord
  <2>2. k # "data"
    BY <1>2, <1>3, <2>1 DEF Drives, ReadsOnly
  <2>3. k \in {"idle", "ncrd"}
    BY <1>2, <2>1, <2>2 DEF ReadsOnly
  <2> QED
    BY <1>2, <2>2, <2>3 DEF Beats
\* The address on the bus, if there is one.
<1>6. /\ t \in FlowRecord /\ t.err = {} /\ NoWrites(t)
      /\ \/ t.out_packq = q
         \/ Inserted(q, "AOK_OFF", t.out_packq) /\ IoSpace(t) = AddrLimit
  <2>1. CASE fl.bus = "idle"
    <3>1. t = fl
      BY <2>1 DEF TakeBus
    <3> HIDE DEF t
    <3> QED
      BY <1>3, <3>1
  <2>2. CASE fl.bus = "ncrd"
    <3> DEFINE x == [n |-> Beats("ncrd"), in |-> 0, comp |-> FALSE]
    <3>1. t = addRequest(fl, "ncrd")
      BY <2>2 DEF TakeBus
    <3>2. IoSpace(fl) > 0 /\ IoSpace(fl) \in Int
      <4>1. IoSpace(fl) \in Int
        BY <1>3, SpaceType
      <4>2. OnBus(fl) = 1
        BY <2>2 DEF OnBus, Noncacheable
      <4>3. fl.aok_on => IoSpace(fl) > AddrLimit
        BY <1>2 DEF Steady
      <4>4. ~fl.aok_on => IoSpace(fl) >= AddrLimit \/ IoSpace(fl) >= AddrLimit - 2 + 1
        BY <1>2, <4>2 DEF Steady
      <4> QED
        BY <1>4, <4>1, <4>3, <4>4 DEF RoomForTwo
    <3>3. /\ Later(fl, t) /\ IoSpace(t) = IoSpace(fl) - 1
          /\ t.iomemq = Append(fl.iomemq, x)
          /\ Len(q) < PackSize => t.err = fl.err
          /\ IF fl.aok_on /\ IoSpace(fl) - 1 = AddrLimit
             THEN t.err = {} => Inserted(q, "AOK_OFF", t.out_packq)
             ELSE t.out_packq = q
      BY <1>3, <3>1, <3>2, addRequestFacts DEF Noncacheable
    <3> HIDE DEF t, q
    <3>4. t.err = {} /\ t \in FlowRecord
      BY <1>3, <1>4, <3>3 DEF Later
    <3>5. NoWrites(t)
      <4> DEFINE w == fl.iomemq
      <4>1. w \in Seq(Request) /\ x \in Request /\ x.n = 0
        <5>1. Beats("ncrd") = 0
          BY DEF Beats
        <5> QED
          BY <1>3, <5>1 DEF FlowRecord, Request
      <4>2. \A j \in DOMAIN w : w[j].n = 0
        BY <1>3 DEF NoWrites
      <4>3. t.iomemq = Append(w, x)
        BY <3>3
      <4> HIDE DEF w, x
      <4>4. \A j \in DOMAIN Append(w, x) : Append(w, x)[j].n = 0
        BY <4>1, <4>2
      <4> QED
        BY <4>3, <4>4 DEF NoWrites
    <3> QED
      BY <3>3, <3>4, <3>5
  <2> QED
    BY <1>3, <2>1, <2>2
<1> HIDE DEF t, q
\* The request at the head, if it is done, frees no data.
<1>7. /\ i \in FlowRecord /\ i.err = {} /\ NoWrites(i) /\ i.out_packq = t.out_packq
      /\ IoSpace(i) <= IoSpace(t) + 1
  <2>1. e.io \in BOOLEAN
    BY DEF FlowEnv
  <2> QED
    BY <1>6, <2>1, IoHalfFacts DEF Later
<1> HIDE DEF i
<1>8. IoSpace(i) \in Int /\ IoSpace(t) \in Int
  BY <1>6, <1>7, SpaceType
<1>9. /\ o.iomemq = i.iomemq
      /\ Len(i.out_packq) < PackSize => o.err = i.err
      /\ \/ o = i
         \/ /\ IoSpace(i) > AddrLimit + 1
            /\ o.err = {} => Inserted(i.out_packq, "AOK_ON", o.out_packq)
  BY <1>7, FlowOnFacts
<1> HIDE DEF o
<1>10. NoWrites(o)
  BY <1>7, <1>9 DEF NoWrites
\* A queue of one pack at most is left, and sent.
<1>11. o.err = {} /\ (o.out_packq = <<>> \/ \E p : o.out_packq = <<p>>)
  <2>1. \A p, r : Inserted(q, p, r) => r = <<p>>
    <3>1. SUFFICES ASSUME NEW p, NEW r, Inserted(q, p, r) PROVE r = <<p>>
      OBVIOUS
    <3>2. r = <<p>> \o <<>>
      BY <1>3, <3>1 DEF Inserted
    <3> QED
      BY <3>2
  <2>2. CASE o = i
    BY <1>3, <1>6, <1>7, <2>1, <2>2
  <2>3. CASE o # i
    <3>1. t.out_packq = q
      BY <1>4, <1>6, <1>7, <1>8, <1>9, <2>3
    <3>2. o.err = {}
      BY <1>4, <1>7, <1>9, <3>1
    <3> QED
      BY <1>7, <1>9, <2>1, <2>3, <3>1, <3>2
  <2> QED
    BY <2>2, <2>3
<1>12. fl'.out_packq = <<>>
  <2>1. CASE o.out_packq = <<>>
    BY <1>2, <2>1
  <2>2. CASE o.out_packq # <<>>
    <3>1. PICK p : o.out_packq = <<p>>
      BY <1>11, <2>2
    <3>2. Tail(<<p>>) = <<>>
      OBVIOUS
    <3> QED
      BY <1>2, <2>2, <3>1, <3>2
  <2> QED
    BY <2>1, <2>2
<1>13. fl'.err = {} /\ fl'.bus \in {"idle", "ncrd"} /\ NoWrites(fl')
  BY <1>2, <1>5, <1>10, <1>11 DEF NoWrites
<1> QED
  BY <1>1, <1>5, <1>12, <1>13 DEF ReadInv, NoWrites

\* Reads alone overflow nothing at all, however the port's delays and its
\* senders' cycles fall together: the limit need only leave room for two.
THEOREM ReadsNeverOverflow ==
    ASSUME RoomForTwo, ReadsOnly
    PROVE  FlowSpec => []NoOverflow
<1>1. NoncacheableOnly
  <2>1. SUBSET {"ncrd"} \subseteq SUBSET Noncacheable
    BY DEF Noncacheable
  <2> QED
    BY <2>1 DEF ReadsOnly, NoncacheableOnly
<1>2. FlowInit => ReadInv
  <2>1. SUFFICES ASSUME FlowInit PROVE ReadInv
    OBVIOUS
  <2>2. FlowInv
    BY <1>1, <2>1, FlowInvInit
  <2>3. PICK c \in Traffics : fl = FlowReset(c)
    BY <2>1 DEF FlowInit
  <2>4. fl.err = {} /\ fl.out_packq = <<>> /\ fl.iomemq = <<>> /\ fl.bus = "idle" /\ fl.beats = 0
    BY <2>3 DEF FlowReset
  <2> QED
    BY <2>2, <2>4 DEF ReadInv, NoWrites
<1>3. ReadInv /\ [FlowNext]_fl => ReadInv'
  <2>1. SUFFICES ASSUME ReadInv, [FlowNext]_fl PROVE ReadInv'
    OBVIOUS
  <2>2. CASE UNCHANGED fl
    BY <2>1, <2>2 DEF ReadInv, FlowInv, FlowRecord, Steady, IoSpace, OnBus, NoWrites
  <2>3. CASE FlowNext
    <3>1. PICK k \in FlowKinds \union {"idle", "data"}, e \in FlowEnv : FlowCycle(k, e)
      BY <2>3 DEF FlowNext
    <3> QED
      BY <1>1, <2>1, <3>1, ReadCycle
  <2> QED
    BY <2>1, <2>2, <2>3
<1>4. ReadInv => NoOverflow
  BY DEF ReadInv, NoOverflow
<1> QED
  BY <1>2, <1>3, <1>4, PTL DEF FlowSpec

=============================================================================
