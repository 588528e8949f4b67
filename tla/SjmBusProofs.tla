---------------------------- MODULE SjmBusProofs ----------------------------
(***************************************************************************)
(* Proofs about SjmBus for every number of ports, every mix of             *)
(* transactions and every queue bound, with and without the dead cycle and *)
(* flow control.                                                           *)
(***************************************************************************)
EXTENDS SjmBus, TLAPS, FiniteSetTheorems, WellFoundedInduction

-----------------------------------------------------------------------------
(* Indices modulo the number of ports *)

(* The sum of a port and an index is reduced by at most one subtraction.   *)
LEMMA ModOnce ==
  ASSUME NEW x \in 0 .. 2 * NPorts - 1
  PROVE  x % NPorts = IF x < NPorts THEN x ELSE x - NPorts
  <1>1. CASE x < NPorts
    BY <1>1, SjmBusAssumption, Z3
  <1>2. CASE ~(x < NPorts)
    BY <1>2, SjmBusAssumption, Z3
  <1> QED BY <1>1, <1>2

(* The index by which port p knows port r, and that there is one only.     *)
IndexOf(p, r) == IF r >= p THEN r - p ELSE r + NPorts - p

LEMMA IndexIs ==
  ASSUME NEW p \in Ports, NEW i \in Ports
  PROVE  /\ (p + i) % NPorts \in Ports
         /\ \A r \in Ports : (p + i) % NPorts = r <=> i = IndexOf(p, r)
         /\ \A r \in Ports : IndexOf(p, r) \in Ports
  <1>1. (p + i) % NPorts = IF p + i < NPorts THEN p + i ELSE p + i - NPorts
    BY ModOnce, SjmBusAssumption DEF Ports
  <1> QED BY <1>1, SjmBusAssumption DEF Ports, IndexOf

(* Port 0's index, as Arbiter::Reset computes it.                          *)
LEMMA ResetGrant ==
  ASSUME NEW p \in Ports
  PROVE  (NPorts - p) % NPorts = IndexOf(p, 0)
  <1>1. (NPorts - p) % NPorts = IF NPorts - p < NPorts THEN NPorts - p ELSE 0
    BY ModOnce, SjmBusAssumption DEF Ports
  <1> QED BY <1>1, SjmBusAssumption DEF Ports, IndexOf

(* Counting down from index IndexOf(p, h), port p comes to the index of    *)
(* the same port as every other port does.                                 *)
LEMMA CountDown ==
  ASSUME NEW p \in Ports, NEW h \in Ports, NEW d \in Ports
  PROVE  (IndexOf(p, h) - d + NPorts) % NPorts
            = IndexOf(p, IF h >= d THEN h - d ELSE h - d + NPorts)
  <1>1. (IndexOf(p, h) - d + NPorts) % NPorts
           = IF IndexOf(p, h) < d THEN IndexOf(p, h) - d + NPorts ELSE IndexOf(p, h) - d
    BY ModOnce, SjmBusAssumption DEF Ports, IndexOf
  <1> QED BY <1>1, SjmBusAssumption DEF Ports, IndexOf

-----------------------------------------------------------------------------
(* The arbiter's choice *)

(* The port that is d places below the holder h.                           *)
Below(h, d) == IF h >= d THEN h - d ELSE h - d + NPorts

(* The holder after h when the ports of W request.                         *)
Holder(W, h) ==
  LET D == {d \in Ports : Below(h, d) \in W}
  IN  IF D = {} THEN h ELSE Below(h, CHOOSE d \in D : \A e \in D : d <= e)

LEMMA BelowIs ==
  ASSUME NEW h \in Ports, NEW d \in Ports
  PROVE  Below(h, d) \in Ports /\ Below(h, 0) = h
  BY SjmBusAssumption DEF Below, Ports

(* The nearest of the ports that request exists.                           *)
LEMMA Nearest ==
  ASSUME NEW D \in SUBSET Ports, D # {}
  PROVE  LET m == CHOOSE d \in D : \A e \in D : d <= e
         IN  m \in D /\ \A e \in D : m <= e
  <1>1. D \subseteq Nat
    BY SjmBusAssumption DEF Ports
  <1>2. PICK m \in D : \A e \in D : <<e, m>> \notin OpToRel(<, Nat)
    BY <1>1, WFMin, NatLessThanWellFounded, Zenon
  <1>3. \A e \in D : ~(e < m)
    BY <1>1, <1>2, Zenon DEF OpToRel
  <1>4. \A e \in D : m <= e
    BY <1>1, <1>3
  <1> QED BY <1>4

(* NextGrant, computed by port p from indices, comes to the same port      *)
(* whatever p is.                                                          *)
LEMMA NextGrantAgrees ==
  ASSUME NEW p \in Ports, NEW h \in Ports, NEW W, NEW curr,
         \A r \in Ports : IndexOf(p, r) \in curr <=> r \in W
  PROVE  NextGrant(curr, IndexOf(p, h)) = IndexOf(p, Holder(W, h))
  <1> DEFINE at(d) == (IndexOf(p, h) - d + NPorts) % NPorts
             D == {d \in Ports : at(d) \in curr}
             E == {d \in Ports : Below(h, d) \in W}
             m == CHOOSE d \in E : \A e \in E : d <= e
  <1>1. \A d \in Ports : at(d) = IndexOf(p, Below(h, d)) /\ Below(h, d) \in Ports
    BY CountDown, BelowIs DEF Below
  <1>2. D = E
    BY <1>1
  <1>3. NextGrant(curr, IndexOf(p, h))
           = IF D = {} THEN IndexOf(p, h) ELSE at(CHOOSE d \in D : \A e \in D : d <= e)
    BY DEF NextGrant
  <1>4. Holder(W, h) = IF E = {} THEN h ELSE Below(h, m)
    BY DEF Holder
  <1>5. CASE E = {}
    BY <1>2, <1>3, <1>4, <1>5
  <1>6. CASE E # {}
    <2>1. m \in Ports
      <3>1. E \in SUBSET Ports
        OBVIOUS
      <3> HIDE DEF E
      <3> QED BY <3>1, <1>6, Nearest
    <2>2. NextGrant(curr, IndexOf(p, h)) = at(m) /\ Holder(W, h) = Below(h, m)
      BY <1>2, <1>3, <1>4, <1>6
    <2> HIDE DEF m, at
    <2> QED BY <2>1, <2>2, <1>1
  <1> QED BY <1>5, <1>6

(* A holder that requests keeps the grant.                                 *)
LEMMA HolderKept ==
  ASSUME NEW h \in Ports, NEW W, h \in W
  PROVE  Holder(W, h) = h
  <1> DEFINE E == {d \in Ports : Below(h, d) \in W}
             m == CHOOSE d \in E : \A e \in E : d <= e
  <1>1. 0 \in E /\ E \in SUBSET Ports
    BY BelowIs, SjmBusAssumption DEF Ports
  <1>2. Holder(W, h) = IF E = {} THEN h ELSE Below(h, m)
    BY DEF Holder
  <1> HIDE DEF E
  <1>3. m \in E /\ m <= 0
    BY <1>1, Nearest
  <1> HIDE DEF m
  <1>4. m = 0
    BY <1>1, <1>3, SjmBusAssumption DEF Ports
  <1> QED BY <1>1, <1>2, <1>4, BelowIs

LEMMA HolderIsPort ==
  ASSUME NEW h \in Ports, NEW W
  PROVE  Holder(W, h) \in Ports
  <1> DEFINE E == {d \in Ports : Below(h, d) \in W}
             m == CHOOSE d \in E : \A e \in E : d <= e
  <1>1. E \in SUBSET Ports
    OBVIOUS
  <1>2. Holder(W, h) = IF E = {} THEN h ELSE Below(h, m)
    BY DEF Holder
  <1> HIDE DEF E
  <1>3. E # {} => m \in Ports
    BY <1>1, Nearest
  <1> HIDE DEF m
  <1> QED BY <1>2, <1>3, BelowIs

-----------------------------------------------------------------------------
(* The output state machine *)

PortState ==
  [next : SUBSET Ports, curr : SUBSET Ports, gnext : Ports, gcurr : Ports \cup {NPorts},
   req : BOOLEAN, arst : Nat, outq : Seq(AllKinds), rdq : Seq(AllKinds),
   q : {"outq", "rdq"}, st : OutStates, cnt : 0 .. 3,
   trans : AllKinds \cup {"none"}, drv : BOOLEAN, last : BOOLEAN]

(* What the output machine leaves to the arbiter.                          *)
SameArbiter(s, t) ==
  /\ t.next = s.next /\ t.curr = s.curr /\ t.gnext = s.gnext
  /\ t.gcurr = s.gcurr /\ t.arst = s.arst

(* A port that will drive more data after this cycle requests the bus,     *)
(* except for the last data cycle.                                         *)
KeepsRequest(s) ==
  /\ s.st = "DATA64" /\ s.cnt < 3 => s.req
  /\ s.st = "RET64" /\ s.cnt < 2 => s.req

NoWork(s) == s.outq = << >> /\ s.rdq = << >> /\ s.st = "IDLE"

(* The head of a non-empty queue is popped into the address cycle.         *)
LEMMA Popped ==
  ASSUME NEW s \in PortState, s[s.q] # << >>
  PROVE  LET k == Head(s[s.q])
             t == [s EXCEPT ![s.q] = Tail(@), !.st = "ADDR", !.trans = k]
         IN  /\ k \in AllKinds
             /\ t \in PortState
             /\ t.st = "ADDR" /\ t.trans = k /\ t.req = s.req
             /\ SameArbiter(s, t)
  <1> DEFINE k == Head(s[s.q])
             t == [s EXCEPT ![s.q] = Tail(@), !.st = "ADDR", !.trans = k]
  <1>1. CASE s.q = "outq"
    <2>1. s.outq \in Seq(AllKinds) /\ s.outq # << >>
      BY <1>1 DEF PortState
    <2>2. k \in AllKinds /\ Tail(s.outq) \in Seq(AllKinds) /\ k = Head(s.outq)
      BY <2>1, <1>1
    <2>3. t = [s EXCEPT !.outq = Tail(@), !.st = "ADDR", !.trans = k]
      BY <1>1
    <2> HIDE DEF k
    <2>4. [s EXCEPT !.outq = Tail(@), !.st = "ADDR", !.trans = k] \in PortState
      BY <2>1, <2>2 DEF PortState, OutStates
    <2> QED BY <2>2, <2>3, <2>4 DEF PortState, SameArbiter, k
  <1>2. CASE s.q = "rdq"
    <2>1. s.rdq \in Seq(AllKinds) /\ s.rdq # << >>
      BY <1>2 DEF PortState
    <2>2. k \in AllKinds /\ Tail(s.rdq) \in Seq(AllKinds) /\ k = Head(s.rdq)
      BY <2>1, <1>2
    <2>3. t = [s EXCEPT !.rdq = Tail(@), !.st = "ADDR", !.trans = k]
      BY <1>2
    <2> HIDE DEF k
    <2>4. [s EXCEPT !.rdq = Tail(@), !.st = "ADDR", !.trans = k] \in PortState
      BY <2>1, <2>2 DEF PortState, OutStates
    <2> QED BY <2>2, <2>3, <2>4 DEF PortState, SameArbiter, k
  <1> QED BY <1>1, <1>2 DEF PortState

(* The request and the choice of queue are the only things the other       *)
(* helpers change.                                                         *)
LEMMA Helpers ==
  ASSUME NEW s \in PortState
  PROVE  /\ \A t \in {RequestBus(s), ReleaseBus(s), RequestToHoldBus(s),
                      HoldOrRelease(s), outSwitchQueues(s)} :
              /\ t \in PortState /\ SameArbiter(s, t)
              /\ t.st = s.st /\ t.cnt = s.cnt /\ t.trans = s.trans
              /\ t.outq = s.outq /\ t.rdq = s.rdq
         /\ outSwitchQueues(s).req = s.req
         /\ outSwitchQueues(s).q # s.q
  <1>1. /\ RequestBus(s) \in PortState /\ ReleaseBus(s) \in PortState
        /\ outSwitchQueues(s) \in PortState
    BY DEF RequestBus, ReleaseBus, outSwitchQueues, PortState
  <1>2. \A t \in {RequestBus(s), ReleaseBus(s), outSwitchQueues(s)} :
          /\ SameArbiter(s, t) /\ t.st = s.st /\ t.cnt = s.cnt /\ t.trans = s.trans
          /\ t.outq = s.outq /\ t.rdq = s.rdq
    BY DEF RequestBus, ReleaseBus, outSwitchQueues, PortState, SameArbiter
  <1>3. SameArbiter(s, s)
    BY DEF SameArbiter
  <1>4. /\ RequestToHoldBus(s) \in {s, ReleaseBus(s)}
        /\ HoldOrRelease(s) \in {s, ReleaseBus(s)}
    BY DEF RequestToHoldBus, HoldOrRelease
  <1>5. outSwitchQueues(s).req = s.req /\ outSwitchQueues(s).q # s.q
    BY DEF outSwitchQueues, PortState
  <1> QED BY <1>1, <1>2, <1>3, <1>4, <1>5

(* What one round, or the whole selection, does to an idle machine: it     *)
(* stays idle, or it pops a transaction, with the grant and, if the        *)
(* transaction takes more than one cycle, with the request.                *)
Selected(s, t) ==
  /\ t \in PortState /\ SameArbiter(s, t) /\ t.cnt = s.cnt
  /\ t.st \in {"IDLE", "ADDR"}
  /\ t.st = "ADDR" => /\ HasGrant(s)
                      /\ t.req = s.req
                      /\ Multi(t.trans) \/ Atomic(t.trans) => s.req
  /\ NoWork(s) => NoWork(t)

LEMMA TryQueueSelects ==
  ASSUME NEW s \in PortState, NEW aok, NEW dok, s.st = "IDLE"
  PROVE  LET r == TryQueue(s, aok, dok)
         IN  /\ Selected(s, r.s)
             /\ r.stop \in BOOLEAN
             /\ ~r.stop => r.s.st = "IDLE" /\ r.s.req = s.req
  <1> DEFINE k == Head(s[s.q])
             popped == [s EXCEPT ![s.q] = Tail(@), !.st = "ADDR", !.trans = k]
             starts == HasGrant(s) /\ (s.req \/ ~(Multi(k) \/ Atomic(k)))
             r == TryQueue(s, aok, dok)
  <1>1. \A t \in {RequestBus(s), ReleaseBus(s), outSwitchQueues(s)} : Selected(s, t) /\ t.st = "IDLE"
    BY Helpers DEF Selected, NoWork
  <1>2. CASE s[s.q] = << >>
    <2>1. r = [s |-> outSwitchQueues(s), stop |-> FALSE]
      BY <1>2 DEF TryQueue
    <2> QED BY <2>1, <1>1, Helpers
  <1>3. CASE s[s.q] # << >> /\ FlowBlocked(k, aok, dok)
    <2>1. \/ r = [s |-> ReleaseBus(s), stop |-> TRUE]
          \/ r = [s |-> outSwitchQueues(s), stop |-> FALSE]
      BY <1>3 DEF TryQueue
    <2>2. CASE r = [s |-> ReleaseBus(s), stop |-> TRUE]
      BY <2>2, <1>1
    <2>3. CASE r = [s |-> outSwitchQueues(s), stop |-> FALSE]
      BY <2>3, <1>1, Helpers
    <2> QED BY <2>1, <2>2, <2>3
  <1>4. CASE s[s.q] # << >> /\ ~FlowBlocked(k, aok, dok) /\ ~starts
    <2>1. r = [s |-> RequestBus(s), stop |-> TRUE]
      BY <1>4 DEF TryQueue
    <2> QED BY <2>1, <1>1
  <1>5. CASE s[s.q] # << >> /\ ~FlowBlocked(k, aok, dok) /\ starts
    <2>1. \/ r = [s |-> popped, stop |-> TRUE]
          \/ r = [s |-> outSwitchQueues(popped), stop |-> TRUE]
      BY <1>5 DEF TryQueue
    <2>2. /\ k \in AllKinds /\ popped \in PortState
          /\ popped.st = "ADDR" /\ popped.trans = k /\ popped.req = s.req
          /\ SameArbiter(s, popped) /\ popped.cnt = s.cnt
      <3>1. popped.cnt = s.cnt
        BY DEF PortState
      <3> QED BY <3>1, <1>5, Popped
    <2>3. ~NoWork(s)
      BY <1>5 DEF NoWork, PortState
    <2>4. HasGrant(s) /\ (Multi(k) \/ Atomic(k) => s.req)
      BY <1>5
    <2> HIDE DEF popped, k
    <2>5. Selected(s, popped)
      BY <2>2, <2>3, <2>4 DEF Selected
    <2>6. Selected(s, outSwitchQueues(popped))
      <3> DEFINE t == outSwitchQueues(popped)
      <3>1. /\ t \in PortState /\ SameArbiter(popped, t) /\ t.st = "ADDR"
            /\ t.cnt = popped.cnt /\ t.trans = k /\ t.req = popped.req
        BY <2>2, Helpers
      <3> HIDE DEF t
      <3>2. SameArbiter(s, t)
        BY <2>2, <3>1 DEF SameArbiter
      <3> QED BY <3>1, <3>2, <2>2, <2>3, <2>4 DEF Selected, t
    <2>7. CASE r = [s |-> popped, stop |-> TRUE]
      BY <2>5, <2>7
    <2>8. CASE r = [s |-> outSwitchQueues(popped), stop |-> TRUE]
      BY <2>6, <2>8
    <2> QED BY <2>1, <2>7, <2>8
  <1> QED BY <1>2, <1>3, <1>4, <1>5

LEMMA SelectSelects ==
  ASSUME NEW s \in PortState, NEW aok, NEW dok
  PROVE  /\ s.st = "IDLE" => Selected(s, Select(s, aok, dok))
         /\ s.st # "IDLE" => Select(s, aok, dok) = s
  <1>1. CASE s.st # "IDLE"
    BY <1>1 DEF Select
  <1>2. CASE s.st = "IDLE"
    <2> DEFINE r == TryQueue(s, aok, dok)
    <2>1. Selected(s, r.s) /\ r.stop \in BOOLEAN /\ (~r.stop => r.s.st = "IDLE" /\ r.s.req = s.req)
      BY <1>2, TryQueueSelects
    <2>2. CASE r.stop
      BY <1>2, <2>1, <2>2 DEF Select
    <2>3. CASE ~r.stop
      <3> DEFINE u == TryQueue(r.s, aok, dok).s
      <3>1. Selected(r.s, u)
        BY <2>1, <2>3, TryQueueSelects DEF Selected
      <3>2. Select(s, aok, dok) = u
        BY <1>2, <2>3 DEF Select
      <3> HIDE DEF u
      <3>3. Selected(s, u)
        BY <2>1, <2>3, <3>1 DEF Selected, SameArbiter, HasGrant
      <3> QED BY <1>2, <3>2, <3>3
    <2> QED BY <2>1, <2>2, <2>3
  <1> QED BY <1>1, <1>2

(* What one driven cycle does: if the transaction goes on, the port was    *)
(* requesting, and still is unless a single data cycle is left.            *)
Driven(s, t) ==
  /\ t \in PortState /\ SameArbiter(s, t)
  /\ t.st # "ADDR"
  /\ KeepsRequest(t)
  /\ t.st # "IDLE" => s.req
  /\ t.outq = s.outq /\ t.rdq = s.rdq

(* A state that differs in the queue choice and the request only.          *)
Like(s, h) ==
  /\ h \in PortState /\ SameArbiter(s, h) /\ h.st = s.st /\ h.cnt = s.cnt
  /\ h.outq = s.outq /\ h.rdq = s.rdq

WithState(h, x) == [h EXCEPT !.st = x]
WithCount(h, c) == [h EXCEPT !.cnt = c]
WithBoth(h, x, c) == [h EXCEPT !.st = x, !.cnt = c]

(* Setting the state, or the count, or both, after the request is decided. *)
LEMMA SetState ==
  ASSUME NEW s \in PortState, NEW h, Like(s, h), NEW x \in {"IDLE", "DATA16"},
         x # "IDLE" => s.req
  PROVE  Driven(s, WithState(h, x))
  BY DEF WithState, Like, Driven, KeepsRequest, PortState, SameArbiter, OutStates

LEMMA SetCount ==
  ASSUME NEW s \in PortState, NEW h, Like(s, h), NEW c \in 0 .. 3,
         s.st \in {"DATA64", "RET64"}, s.req \/ h.req,
         h.req => s.req, s.st = "DATA64" /\ c < 3 => h.req, s.st = "RET64" /\ c < 2 => h.req
  PROVE  Driven(s, WithCount(h, c))
  BY DEF WithCount, Like, Driven, KeepsRequest, PortState, SameArbiter, OutStates

LEMMA SetBoth ==
  ASSUME NEW s \in PortState, NEW h, Like(s, h), NEW c \in 0 .. 3,
         NEW x \in {"IDLE", "DATA64", "RET64"}, x # "IDLE" => s.req /\ h.req
  PROVE  Driven(s, WithBoth(h, x, c))
  BY DEF WithBoth, Like, Driven, KeepsRequest, PortState, SameArbiter, OutStates

LEMMA HelpersReq ==
  ASSUME NEW s \in PortState
  PROVE  HoldOrRelease(s).req => s.req
  BY DEF HoldOrRelease, RequestToHoldBus, ReleaseBus, PortState

LEMMA HelpersLike ==
  ASSUME NEW s \in PortState
  PROVE  Like(s, s) /\ Like(s, HoldOrRelease(s)) /\ Like(s, outSwitchQueues(s))
  BY Helpers DEF Like, SameArbiter

LEMMA AddrCycleDrives ==
  ASSUME NEW s \in PortState, s.st = "ADDR", Multi(s.trans) \/ Atomic(s.trans) => s.req
  PROVE  Driven(s, AddrCycle(s))
  <1> DEFINE h == HoldOrRelease(s)
             t == AddrCycle(s)
  <1> Like(s, s) /\ Like(s, h)
    BY HelpersLike
  <1> HIDE DEF h
  <1>1. Driven(s, WithState(h, "IDLE"))
    BY SetState
  <1>2. Driven(s, WithState(s, "IDLE"))
    BY SetState
  <1>3. s.req => Driven(s, WithState(h, "DATA16"))
    BY SetState
  <1>4. s.req => Driven(s, WithBoth(s, "RET64", 0))
    BY SetBoth
  <1>5. s.req => Driven(s, WithBoth(s, "DATA64", 0))
    BY SetBoth
  <1>6. CASE s.trans = "READERR"
    BY <1>6, <1>1 DEF AddrCycle, ReadErrCycle, WithState, h
  <1>7. CASE s.trans = "RET16"
    <2>1. t = DataRetCycle(s)
      BY <1>7 DEF AddrCycle
    <2>2. t = WithState(h, "IDLE")
      BY <2>1, <1>7 DEF DataRetCycle, WithState, h
    <2> QED BY <2>2, <1>1
  <1>8. CASE s.trans = "RET64"
    <2>1. t = DataRetCycle(s)
      BY <1>8 DEF AddrCycle
    <2>2. t = WithBoth(s, "RET64", 0)
      BY <2>1, <1>8 DEF DataRetCycle, WithBoth
    <2> QED BY <2>2, <1>8, <1>4 DEF Multi
  <1>9. CASE s.trans = "INT"
    <2>1. t = InterruptCycle(s)
      BY <1>9 DEF AddrCycle
    <2>2. t = WithBoth(s, "DATA64", 0)
      BY <2>1, <1>9 DEF InterruptCycle, WithBoth
    <2> QED BY <2>2, <1>9, <1>5 DEF Multi
  <1>10. CASE s.trans = "INTACK"
    <2>1. t = InterruptCycle(s)
      BY <1>10 DEF AddrCycle
    <2>2. t = WithState(h, "IDLE")
      BY <2>1, <1>10 DEF InterruptCycle, WithState, h
    <2> QED BY <2>2, <1>1
  <1>11. CASE s.trans = "WR16"
    <2>1. t = AddressCycle(s)
      BY <1>11 DEF AddrCycle
    <2>2. t = WithState(h, "DATA16")
      BY <2>1, <1>11 DEF AddressCycle, WithState, h
    <2> QED BY <2>2, <1>11, <1>3 DEF Multi
  <1>12. CASE s.trans \in {"WR64", "WRB"}
    <2>1. t = AddressCycle(s)
      BY <1>12 DEF AddrCycle
    <2>2. t = WithBoth(s, "DATA64", 0)
      BY <2>1, <1>12 DEF AddressCycle, WithBoth
    <2> QED BY <2>2, <1>12, <1>5 DEF Multi
  <1>13. CASE s.trans \in {"RD", "RDWB", "none"}
    <2>1. t = AddressCycle(s)
      BY <1>13 DEF AddrCycle
    <2>2. t \in {WithState(h, "IDLE"), WithState(s, "IDLE")}
      BY <2>1, <1>13 DEF AddressCycle, WithState, h
    <2> QED BY <2>2, <1>1, <1>2
  <1> QED
    BY <1>6, <1>7, <1>8, <1>9, <1>10, <1>11, <1>12, <1>13 DEF PortState, AllKinds

LEMMA Data64CycleDrives ==
  ASSUME NEW s \in PortState, s.st = "DATA64", KeepsRequest(s)
  PROVE  Driven(s, Data64Cycle(s))
  <1> DEFINE h == HoldOrRelease(s)
             n == s.cnt + 1
             e == IF Atomic(s.trans) THEN outSwitchQueues(s) ELSE s
  <1>1. s.cnt \in 0 .. 3 /\ Like(s, e) /\ Like(s, s) /\ Like(s, h)
    BY HelpersLike DEF PortState
  <1>2. CASE s.cnt = 2
    <2>1. Data64Cycle(s) = WithCount(h, 3)
      BY <1>2 DEF Data64Cycle, WithCount
    <2>2. Driven(s, WithCount(h, 3))
      BY <1>1, <1>2, SetCount, HelpersReq DEF KeepsRequest
    <2> QED BY <2>1, <2>2
  <1>3. CASE s.cnt = 3
    <2>1. Data64Cycle(s) = [e EXCEPT !.cnt = 0, !.st = "IDLE"]
      BY <1>3 DEF Data64Cycle
    <2>2. [e EXCEPT !.cnt = 0, !.st = "IDLE"] = WithBoth(e, "IDLE", 0)
      BY <1>1 DEF Like, PortState, WithBoth
    <2>3. Driven(s, WithBoth(e, "IDLE", 0))
      BY <1>1, SetBoth
    <2> QED BY <2>1, <2>2, <2>3
  <1>4. CASE s.cnt \in {0, 1}
    <2>1. Data64Cycle(s) = WithCount(s, n)
      BY <1>4 DEF Data64Cycle, WithCount
    <2>2. Driven(s, WithCount(s, n))
      BY <1>1, <1>4, SetCount, HelpersReq DEF KeepsRequest
    <2> QED BY <2>1, <2>2
  <1> QED BY <1>1, <1>2, <1>3, <1>4

LEMMA Ret64CycleDrives ==
  ASSUME NEW s \in PortState, s.st = "RET64", KeepsRequest(s)
  PROVE  Driven(s, Ret64Cycle(s))
  <1> DEFINE h == HoldOrRelease(s)
  <1>1. s.cnt \in 0 .. 3 /\ Like(s, s) /\ Like(s, h)
    BY HelpersLike DEF PortState
  <1>2. CASE s.cnt = 0
    <2>1. Ret64Cycle(s) = WithCount(s, 1)
      BY <1>2 DEF Ret64Cycle, WithCount
    <2>2. Driven(s, WithCount(s, 1))
      BY <1>1, <1>2, SetCount, HelpersReq DEF KeepsRequest
    <2> QED BY <2>1, <2>2
  <1>3. CASE s.cnt = 1
    <2>1. Ret64Cycle(s) = WithCount(h, 2)
      BY <1>3 DEF Ret64Cycle, WithCount
    <2>2. Driven(s, WithCount(h, 2))
      BY <1>1, <1>3, SetCount, HelpersReq DEF KeepsRequest
    <2> QED BY <2>1, <2>2
  <1>4. CASE s.cnt \in {2, 3}
    <2>1. Ret64Cycle(s) = [s EXCEPT !.cnt = 0, !.st = "IDLE"]
      BY <1>4 DEF Ret64Cycle
    <2>2. [s EXCEPT !.cnt = 0, !.st = "IDLE"] = WithBoth(s, "IDLE", 0)
      BY DEF PortState, WithBoth
    <2>3. Driven(s, WithBoth(s, "IDLE", 0))
      BY <1>1, SetBoth
    <2> QED BY <2>1, <2>2, <2>3
  <1> QED BY <1>1, <1>2, <1>3, <1>4

(* What is noted of a cycle that was driven.                               *)
Show(t, drv, last) ==
  [t EXCEPT !.drv = drv, !.last = last, !.trans = IF t.st = "IDLE" THEN "none" ELSE @]

LEMMA Shown ==
  ASSUME NEW t \in PortState, NEW drv \in BOOLEAN, NEW last \in BOOLEAN
  PROVE  LET r == Show(t, drv, last)
         IN  /\ r \in PortState
             /\ SameArbiter(t, r) /\ r.st = t.st /\ r.drv = drv /\ r.last = last
             /\ r.req = t.req /\ r.cnt = t.cnt /\ r.outq = t.outq /\ r.rdq = t.rdq
  BY DEF Show, PortState, SameArbiter

(* A call of sjmProcessOutSigs: the port drives only with the grant or in  *)
(* the middle of a transaction, and it is left in the middle of one only   *)
(* if it was requesting.                                                   *)
OutSigs(s, r) ==
  /\ r \in PortState /\ SameArbiter(s, r)
  /\ r.st # "ADDR"
  /\ KeepsRequest(r)
  /\ r.drv => HasGrant(s) \/ s.st # "IDLE"
  /\ r.last => s.st = "RET64" /\ r.st = "IDLE"
  /\ r.st # "IDLE" => s.req /\ (s.gnext = 0 \/ s.st # "IDLE")
  /\ NoWork(s) => NoWork(r)

LEMMA ProcessOutSigsDrives ==
  ASSUME NEW s0 \in PortState, s0.st # "ADDR", KeepsRequest(s0), NEW aok, NEW dok
  PROVE  OutSigs(s0, ProcessOutSigs(s0, aok, dok))
  <1> DEFINE s == Select(s0, aok, dok)
             t == CASE s.st = "ADDR"   -> AddrCycle(s)
                    [] s.st = "DATA16" -> [s EXCEPT !.st = "IDLE"]
                    [] s.st = "DATA64" -> Data64Cycle(s)
                    [] s.st = "RET64"  -> Ret64Cycle(s)
                    [] OTHER           -> s
             drv == HasGrant(s) \/ s.st # "IDLE"
             last == s.st = "RET64" /\ t.st = "IDLE"
             r == Show(t, drv, last)
  <1>1. ProcessOutSigs(s0, aok, dok) = r
    BY DEF ProcessOutSigs, Show
  <1>2. /\ s0.st = "IDLE" => Selected(s0, s)
        /\ s0.st # "IDLE" => s = s0
    BY SelectSelects
  <1>3. /\ s \in PortState /\ SameArbiter(s0, s) /\ KeepsRequest(s)
        /\ s.st = "ADDR" => s0.st = "IDLE" /\ s.req = s0.req /\ HasGrant(s0)
                            /\ (Multi(s.trans) \/ Atomic(s.trans) => s.req)
        /\ s.st \notin {"IDLE", "ADDR"} => s = s0
        /\ NoWork(s0) => NoWork(s)
        /\ s.gnext = s0.gnext
    BY <1>2 DEF Selected, SameArbiter, KeepsRequest
  <1> HIDE DEF s
  <1>4. /\ t \in PortState /\ SameArbiter(s, t) /\ t.st # "ADDR" /\ KeepsRequest(t)
        /\ t.st # "IDLE" => s.req /\ s.st # "IDLE"
        /\ NoWork(s) => NoWork(t)
    <2>1. CASE s.st = "ADDR"
      <3>1. t = AddrCycle(s)
        BY <2>1
      <3>2. Driven(s, AddrCycle(s))
        BY <1>3, <2>1, AddrCycleDrives
      <3> QED BY <2>1, <3>1, <3>2 DEF Driven, NoWork
    <2>2. CASE s.st = "DATA64"
      <3>1. t = Data64Cycle(s)
        BY <2>2
      <3>2. Driven(s, Data64Cycle(s))
        BY <1>3, <2>2, Data64CycleDrives
      <3> QED BY <2>2, <3>1, <3>2 DEF Driven, NoWork
    <2>3. CASE s.st = "RET64"
      <3>1. t = Ret64Cycle(s)
        BY <2>3
      <3>2. Driven(s, Ret64Cycle(s))
        BY <1>3, <2>3, Ret64CycleDrives
      <3> QED BY <2>3, <3>1, <3>2 DEF Driven, NoWork
    <2>4. CASE s.st = "DATA16"
      <3>1. t = WithState(s, "IDLE")
        BY <2>4 DEF WithState
      <3>2. Driven(s, WithState(s, "IDLE"))
        BY <1>3, HelpersLike, SetState
      <3> QED BY <2>4, <3>1, <3>2 DEF Driven, NoWork
    <2>5. CASE s.st = "IDLE"
      <3>1. t = s
        BY <2>5
      <3> QED BY <2>5, <3>1, <1>3 DEF SameArbiter
    <2> QED BY <1>3, <2>1, <2>2, <2>3, <2>4, <2>5 DEF PortState, OutStates
  <1> HIDE DEF t
  <1>5. drv \in BOOLEAN /\ last \in BOOLEAN
    OBVIOUS
  <1>6. drv => HasGrant(s0) \/ s0.st # "IDLE"
    BY <1>3 DEF HasGrant, SameArbiter
  <1> HIDE DEF drv
  <1>7. last => s0.st = "RET64" /\ t.st = "IDLE"
    BY <1>3
  <1> HIDE DEF last
  <1>8. /\ r \in PortState /\ SameArbiter(t, r) /\ r.st = t.st /\ KeepsRequest(r)
        /\ r.drv = drv /\ r.last = last /\ (NoWork(t) => NoWork(r))
    BY <1>4, <1>5, Shown DEF KeepsRequest, NoWork
  <1> HIDE DEF r
  <1>9. t.st # "IDLE" => s0.req /\ (s0.gnext = 0 \/ s0.st # "IDLE")
    BY <1>3, <1>4 DEF PortState, OutStates, HasGrant
  <1>10. SameArbiter(s0, r)
    BY <1>3, <1>4, <1>8 DEF SameArbiter
  <1> QED BY <1>1, <1>3, <1>4, <1>6, <1>7, <1>8, <1>9, <1>10 DEF OutSigs

-----------------------------------------------------------------------------
(* The inductive invariant *)

(* Every port numbers the same holder and the same requests, each from     *)
(* itself; until the bus is looked at again after a reset, port 0 holds    *)
(* the grant and nobody else requests.                                     *)
Agreed(f) ==
  /\ \A p \in Ports :
       /\ f[p].arst = f[0].arst
       /\ f[p].gnext = IndexOf(p, f[0].gnext)
       /\ \A r \in Ports : IndexOf(p, r) \in f[p].next <=> r \in f[0].next
  /\ f[0].arst # 0 => f[0].gnext = 0 /\ f[0].next \subseteq {0}

(* The grant stays with a port that has it and still requests, and with    *)
(* one that nobody else wants it from.                                     *)
Secure(s) == s.gnext = 0 /\ (0 \in s.next \/ \A i \in s.next : i = 0)

PortInv(s) ==
  /\ s.st # "ADDR"
  /\ KeepsRequest(s)
  /\ s.drv => s.gnext = 0
  /\ s.last => s.gnext = 0 /\ s.st = "IDLE"
  /\ s.st # "IDLE" => Secure(s)

IndInv ==
  /\ rst \in BOOLEAN
  /\ port \in [Ports -> PortState]
  /\ Agreed(port)
  /\ rst => \A p \in Ports : NoWork(port[p])
  /\ \A p \in Ports : PortInv(port[p])
-----------------------------------------------------------------------------
(* A cycle of the arbiter *)

LEMMA IndexZero ==
  ASSUME NEW r \in Ports
  PROVE  0 \in Ports /\ IndexOf(0, r) = r /\ IndexOf(r, r) = 0
  BY SjmBusAssumption DEF Ports, IndexOf

(* Two ports that have different numbers have different indices.           *)
LEMMA IndexOnce ==
  ASSUME NEW p \in Ports, NEW r \in Ports, NEW x \in Ports, IndexOf(p, r) = IndexOf(p, x)
  PROVE  r = x
  BY SjmBusAssumption DEF Ports, IndexOf

(* What a cycle of the arbiter leaves to the output machine.               *)
SameOutput(s, t) ==
  /\ t.st = s.st /\ t.cnt = s.cnt /\ t.req = s.req /\ t.q = s.q /\ t.trans = s.trans
  /\ t.outq = s.outq /\ t.rdq = s.rdq /\ t.drv = s.drv /\ t.last = s.last

(* The requests registered by a cycle.                                     *)
Registered(p, s, lines) ==
  IF s.arst = 0
  THEN {i \in Ports \ {0} : (p + i) % NPorts \in lines} \cup (IF s.req THEN {0} ELSE {})
  ELSE IF s.arst = 3 THEN s.next \cup {(NPorts - p) % NPorts} ELSE s.next

(* The grant registered by a cycle.                                        *)
Granted(s) ==
  IF \E i \in s.next : i # s.gnext THEN NextGrant(s.next, s.gnext) ELSE s.gnext

(* The fields of a port after a cycle of its arbiter.                      *)
LEMMA ArbitrateIs ==
  ASSUME NEW p \in Ports, NEW s \in PortState, NEW lines, Granted(s) \in Ports
  PROVE  LET u == Arbitrate(p, s, lines)
         IN  /\ u \in PortState
             /\ SameOutput(s, u)
             /\ u.next = Registered(p, s, lines)
             /\ u.gnext = Granted(s) /\ u.gcurr = s.gnext
             /\ u.arst = IF s.arst = 0 \/ s.arst + 1 > 4 THEN 0 ELSE s.arst + 1
  <1> DEFINE n == Registered(p, s, lines)
             a == IF s.arst = 0 \/ s.arst + 1 > 4 THEN 0 ELSE s.arst + 1
             g == Granted(s)
             u == [s EXCEPT !.curr = s.next, !.gcurr = s.gnext, !.next = n,
                            !.arst = a, !.gnext = g]
  <1>1. Arbitrate(p, s, lines) = u
    BY Zenon DEF Arbitrate, Registered, Granted
  <1>2. n \in SUBSET Ports
    <2>1. 0 \in Ports
      BY SjmBusAssumption DEF Ports
    <2>2. (NPorts - p) % NPorts \in Ports
      BY <2>1, ResetGrant, IndexIs
    <2>3. s.next \in SUBSET Ports /\ s.req \in BOOLEAN
      BY DEF PortState
    <2> QED BY <2>1, <2>2, <2>3 DEF Registered
  <1>3. a \in Nat
    BY DEF PortState
  <1>4. g \in Ports
    OBVIOUS
  <1> HIDE DEF n, a, g
  <1>5. u \in PortState
    BY <1>2, <1>3, <1>4 DEF PortState
  <1>6. SameOutput(s, u) /\ u.next = n /\ u.gnext = g /\ u.gcurr = s.gnext /\ u.arst = a
    BY DEF PortState, SameOutput
  <1> HIDE DEF u
  <1> QED BY <1>1, <1>5, <1>6 DEF n, a, g

(* The grants of all ports stay those of one holder.                       *)
LEMMA GrantedAgrees ==
  ASSUME NEW f \in [Ports -> PortState], Agreed(f)
  PROVE  \E h \in Ports :
           /\ \A p \in Ports : Granted(f[p]) = IndexOf(p, h)
           /\ f[0].arst # 0 => h = 0
           /\ \A p \in Ports : Secure(f[p]) => h = p
  <1> DEFINE h0 == f[0].gnext
             W == f[0].next
             moves == \E r \in W : r # h0
             h == IF moves THEN Holder(W, h0) ELSE h0
  <1>1. h0 \in Ports /\ W \in SUBSET Ports
    <2>1. 0 \in Ports
      BY SjmBusAssumption DEF Ports
    <2>2. f[0] \in PortState
      BY <2>1
    <2> QED BY <2>2 DEF PortState
  <1>2. \A p \in Ports : f[p].gnext = IndexOf(p, h0) /\ f[p].next \in SUBSET Ports
    BY DEF Agreed, PortState
  <1>3. \A p \in Ports : \A r \in Ports : IndexOf(p, r) \in f[p].next <=> r \in W
    BY DEF Agreed
  <1>4. f[0].arst # 0 => h0 = 0 /\ W \subseteq {0}
    BY DEF Agreed
  <1> HIDE DEF h0, W
  <1>5. h \in Ports
    BY <1>1, HolderIsPort
  <1>6. ASSUME NEW p \in Ports
        PROVE  (\E i \in f[p].next : i # f[p].gnext) <=> moves
    <2>1. ASSUME NEW i \in f[p].next, i # f[p].gnext
          PROVE  \E r \in W : r # h0
      <3> DEFINE r == (p + i) % NPorts
      <3>1. r \in Ports /\ i = IndexOf(p, r)
        BY <1>2, IndexIs
      <3> HIDE DEF r
      <3> QED BY <3>1, <2>1, <1>2, <1>3
    <2>2. ASSUME NEW r \in W, r # h0
          PROVE  \E i \in f[p].next : i # f[p].gnext
      <3>1. IndexOf(p, r) \in f[p].next /\ IndexOf(p, r) # f[p].gnext
        BY <2>2, <1>1, <1>2, <1>3, IndexOnce
      <3> QED BY <3>1
    <2> QED BY <2>1, <2>2
  <1>7. ASSUME NEW p \in Ports
        PROVE  Granted(f[p]) = IndexOf(p, h)
    <2>1. NextGrant(f[p].next, f[p].gnext) = IndexOf(p, Holder(W, h0))
      BY <1>1, <1>2, <1>3, NextGrantAgrees
    <2> QED BY <1>2, <1>6, <2>1 DEF Granted
  <1>8. f[0].arst # 0 => h = 0
    BY <1>4
  <1>9. ASSUME NEW p \in Ports, Secure(f[p])
        PROVE  h = p
    <2>1. IndexOf(p, h0) = 0
      BY <1>2, <1>9 DEF Secure
    <2>2. h0 = p
      BY <2>1, <1>1, IndexZero, IndexOnce
    <2>3. CASE 0 \in f[p].next
      <3>1. p \in W
        BY <2>3, <1>3, IndexZero
      <3> QED BY <3>1, <2>2, HolderKept
    <2>4. CASE \A i \in f[p].next : i = 0
      <3>1. \A r \in W : r = p
        BY <2>4, <1>1, <1>3, IndexZero, IndexOnce
      <3> QED BY <3>1, <2>2
    <2> QED BY <2>3, <2>4, <1>9 DEF Secure
  <1> HIDE DEF h
  <1> QED BY <1>5, <1>7, <1>8, <1>9
(* After a cycle the ports agree again on the grant, on the requests and   *)
(* on how far the reset is behind.                                         *)
LEMMA ArbitrateAgrees ==
  ASSUME NEW f \in [Ports -> PortState], Agreed(f), NEW lines,
         f[0].arst = 0 => \A p \in Ports : f[p].req <=> p \in lines
  PROVE  LET u == [p \in Ports |-> Arbitrate(p, f[p], lines)]
         IN  /\ u \in [Ports -> PortState]
             /\ Agreed(u)
             /\ \A p \in Ports :
                  /\ SameOutput(f[p], u[p])
                  /\ u[p].gcurr = f[p].gnext
                  /\ Secure(f[p]) => u[p].gnext = 0
                  /\ u[p].req /\ u[p].gnext = 0 => Secure(u[p])
  <1> DEFINE u == [p \in Ports |-> Arbitrate(p, f[p], lines)]
             A == IF f[0].arst = 0 \/ f[0].arst + 1 > 4 THEN 0 ELSE f[0].arst + 1
             N == IF f[0].arst = 0 THEN lines
                  ELSE IF f[0].arst = 3 THEN f[0].next \cup {0} ELSE f[0].next
  <1>1. PICK h \in Ports :
           /\ \A p \in Ports : Granted(f[p]) = IndexOf(p, h)
           /\ f[0].arst # 0 => h = 0
           /\ \A p \in Ports : Secure(f[p]) => h = p
    BY GrantedAgrees
  <1>2. 0 \in Ports
    BY SjmBusAssumption DEF Ports
  <1>3. \A p \in Ports : f[p] \in PortState /\ f[p].arst = f[0].arst
    BY DEF Agreed
  <1>4. ASSUME NEW p \in Ports
        PROVE  /\ u[p] \in PortState
               /\ SameOutput(f[p], u[p])
               /\ u[p].next = Registered(p, f[p], lines)
               /\ u[p].gnext = IndexOf(p, h) /\ u[p].gcurr = f[p].gnext
               /\ u[p].arst = A
    <2>1. Granted(f[p]) = IndexOf(p, h) /\ IndexOf(p, h) \in Ports
      BY <1>1, IndexIs
    <2>2. u[p] = Arbitrate(p, f[p], lines)
      OBVIOUS
    <2> HIDE DEF u
    <2> QED BY <2>1, <2>2, <1>3, ArbitrateIs
  <1>5. ASSUME NEW p \in Ports, NEW r \in Ports
        PROVE  IndexOf(p, r) \in u[p].next <=> r \in N
    <2> HIDE DEF u
    <2>1. u[p].next = Registered(p, f[p], lines) /\ f[p].arst = f[0].arst
      BY <1>3, <1>4
    <2>2. CASE f[0].arst = 0
      <3>1. u[p].next = {i \in Ports \ {0} : (p + i) % NPorts \in lines}
                          \cup (IF f[p].req THEN {0} ELSE {})
        BY <2>1, <2>2 DEF Registered
      <3>2. CASE r = p
        BY <3>1, <3>2, <2>2, IndexZero
      <3>3. CASE r # p
        <4>1. IndexOf(p, r) \in Ports
          BY IndexIs
        <4>2. IndexOf(p, p) = 0
          BY IndexZero
        <4>3. IndexOf(p, r) # 0
          BY <3>3, <4>2, IndexOnce
        <4>4. (p + IndexOf(p, r)) % NPorts = r
          BY <4>1, IndexIs
        <4> QED BY <3>1, <4>1, <4>3, <4>4, <2>2
      <3> QED BY <3>2, <3>3
    <2>3. CASE f[0].arst = 3
      <3>1. u[p].next = f[p].next \cup {IndexOf(p, 0)}
        BY <2>1, <2>3, ResetGrant DEF Registered
      <3>2. IndexOf(p, r) = IndexOf(p, 0) <=> r = 0
        BY <1>2, IndexOnce
      <3>3. IndexOf(p, r) \in f[p].next <=> r \in f[0].next
        BY DEF Agreed
      <3> QED BY <3>1, <3>2, <3>3, <2>3
    <2>4. CASE f[0].arst \notin {0, 3}
      <3>1. u[p].next = f[p].next
        BY <2>1, <2>4 DEF Registered
      <3> QED BY <3>1, <2>4 DEF Agreed
    <2> QED BY <2>2, <2>3, <2>4
  <1>6. u \in [Ports -> PortState]
    <2>1. \A p \in Ports : u[p] \in PortState
      BY <1>4
    <2> QED BY <2>1
  <1>7. u[0].gnext = h /\ u[0].arst = A
    BY <1>2, <1>4, IndexZero
  <1>8. \A r \in Ports : r \in u[0].next <=> r \in N
    BY <1>2, <1>5, IndexZero
  <1>9. A # 0 => h = 0 /\ N \subseteq {0}
    BY <1>1 DEF Agreed
  <1>10. u[0].next \subseteq Ports
    BY <1>2, <1>4 DEF PortState
  <1> HIDE DEF u, A
  <1>11. Agreed(u)
    BY <1>2, <1>4, <1>5, <1>7, <1>8, <1>9, <1>10 DEF Agreed
  <1>12. ASSUME NEW p \in Ports, Secure(f[p])
         PROVE  u[p].gnext = 0
    BY <1>1, <1>4, <1>12, IndexZero
  <1>13. ASSUME NEW p \in Ports, u[p].req, u[p].gnext = 0
         PROVE  Secure(u[p])
    <2>1. h = p
      BY <1>4, <1>13, IndexZero, IndexOnce
    <2>2. f[p].req
      BY <1>4, <1>13 DEF SameOutput
    <2>3. CASE f[0].arst = 0
      <3>1. p \in N
        BY <2>2, <2>3
      <3>2. 0 \in u[p].next
        BY <3>1, <1>5, IndexZero
      <3> QED BY <3>2, <1>13 DEF Secure
    <2>4. CASE f[0].arst # 0
      <3>1. p = 0 /\ N \subseteq {0}
        BY <2>1, <2>4, <1>1 DEF Agreed
      <3>2. \A i \in u[p].next : i = 0
        BY <3>1, <1>8, <1>10
      <3> QED BY <3>2, <1>13 DEF Secure
    <2> QED BY <2>3, <2>4
  <1> QED BY <1>4, <1>6, <1>11, <1>12, <1>13 DEF u
-----------------------------------------------------------------------------
(* A clock *)

(* What the output machines find when the arbiters are done.               *)
Ready(s) ==
  /\ s \in PortState
  /\ s.st # "ADDR"
  /\ KeepsRequest(s)
  /\ s.st # "IDLE" => s.gnext = 0
  /\ s.req /\ s.gnext = 0 => Secure(s)

(* A call of sjmProcessOutSigs in every port, and what it keeps.           *)
Drives(f, g, aok, dok) == g = [p \in Ports |-> ProcessOutSigs(f[p], aok, dok)]

Kept(f, g) ==
  /\ g \in [Ports -> PortState]
  /\ Agreed(g)
  /\ \A p \in Ports :
       /\ PortInv(g[p])
       /\ NoWork(f[p]) => NoWork(g[p])
       /\ g[p].drv => HasGrant(f[p]) \/ f[p].st # "IDLE"

LEMMA DriveKeeps ==
  ASSUME NEW f \in [Ports -> PortState], Agreed(f), \A p \in Ports : Ready(f[p]),
         NEW g, NEW aok, NEW dok, Drives(f, g, aok, dok)
  PROVE  Kept(f, g)
  <1>1. \A p \in Ports : OutSigs(f[p], g[p])
    BY ProcessOutSigsDrives DEF Ready, Drives
  <1>2. \A p \in Ports : g[p] \in PortState /\ SameArbiter(f[p], g[p])
    BY <1>1 DEF OutSigs
  <1>3. g \in [Ports -> PortState]
    BY <1>2 DEF Drives
  <1>4. 0 \in Ports
    BY SjmBusAssumption DEF Ports
  <1>5. \A p \in Ports : g[p].arst = f[p].arst /\ g[p].gnext = f[p].gnext /\ g[p].next = f[p].next
    BY <1>2 DEF SameArbiter
  <1>6. Agreed(g)
    BY <1>4, <1>5 DEF Agreed
  <1>7. ASSUME NEW p \in Ports
        PROVE  PortInv(g[p])
    <2>1. OutSigs(f[p], g[p]) /\ Ready(f[p]) /\ SameArbiter(f[p], g[p])
      BY <1>1, <1>2
    <2>2. g[p].drv => g[p].gnext = 0
      BY <2>1 DEF OutSigs, Ready, HasGrant, SameArbiter
    <2>3. g[p].last => g[p].gnext = 0 /\ g[p].st = "IDLE"
      BY <2>1 DEF OutSigs, Ready, SameArbiter
    <2>4. g[p].st # "IDLE" => Secure(g[p])
      BY <2>1 DEF OutSigs, Ready, SameArbiter, Secure
    <2> QED BY <2>1, <2>2, <2>3, <2>4 DEF OutSigs, PortInv
  <1> QED BY <1>1, <1>3, <1>6, <1>7 DEF OutSigs, Kept

(* A reset of the arbiters gives every port's grant to port 0 and keeps    *)
(* the bus from being looked at.                                           *)
LEMMA ArbResetIs ==
  ASSUME NEW p \in Ports, NEW s \in PortState
  PROVE  LET t == ArbReset(p, s)
         IN  /\ t \in PortState
             /\ t.next = {} /\ t.gnext = IndexOf(p, 0) /\ t.arst = s.arst + 1 /\ t.req = FALSE
             /\ t.st = s.st /\ t.cnt = s.cnt /\ t.outq = s.outq /\ t.rdq = s.rdq
  <1>1. 0 \in Ports /\ IndexOf(p, 0) \in Ports
    BY IndexZero, IndexIs
  <1> DEFINE g == IndexOf(p, 0)
             c == IF p = 0 THEN 0 ELSE s.gcurr
             n == s.arst + 1
             t == [s EXCEPT !.req = FALSE, !.next = {}, !.gnext = g, !.gcurr = c, !.arst = n]
  <1>2. ArbReset(p, s) = t
    BY ResetGrant DEF ArbReset
  <1>3. /\ g \in Ports /\ g = IndexOf(p, 0) /\ c \in Ports \cup {NPorts}
        /\ n \in Nat /\ n = s.arst + 1
    BY <1>1 DEF PortState
  <1> HIDE DEF g, c, n
  <1>4. t \in PortState
    <2>1. {} \in SUBSET Ports
      OBVIOUS
    <2> QED BY <1>3, <2>1 DEF PortState
  <1>5. /\ t.next = {} /\ t.gnext = g /\ t.arst = n /\ t.req = FALSE
        /\ t.st = s.st /\ t.cnt = s.cnt /\ t.outq = s.outq /\ t.rdq = s.rdq
    BY DEF PortState
  <1> HIDE DEF t
  <1> QED BY <1>2, <1>3, <1>4, <1>5

LEMMA ResetAgrees ==
  ASSUME NEW f \in [Ports -> PortState], Agreed(f), NEW g \in [Ports -> PortState],
         \A p \in Ports : /\ g[p].next = {} /\ g[p].gnext = IndexOf(p, 0)
                          /\ g[p].arst = f[p].arst + 1
  PROVE  Agreed(g) /\ g[0].arst # 0
  <1>1. 0 \in Ports /\ IndexOf(0, 0) = 0
    BY IndexZero, SjmBusAssumption DEF Ports
  <1>2. \A p \in Ports : f[p].arst = f[0].arst /\ f[p].arst \in Nat
    BY DEF Agreed, PortState
  <1> QED BY <1>1, <1>2 DEF Agreed

(* What AssertReset and the start of the simulation do to a port.          *)
LEMMA PortResetIs ==
  ASSUME NEW p \in Ports, NEW s \in PortState
  PROVE  LET t == PortReset(p, s)
         IN  /\ t \in PortState
             /\ t.next = {} /\ t.gnext = IndexOf(p, 0) /\ t.arst = s.arst + 1 /\ t.req = FALSE
             /\ NoWork(t) /\ t.drv = ArbReset(p, s).drv /\ t.last = ArbReset(p, s).last
  <1> DEFINE a == ArbReset(p, s)
             t == [a EXCEPT !.outq = << >>, !.rdq = << >>, !.st = "IDLE", !.trans = "none"]
  <1>1. /\ a \in PortState
        /\ a.next = {} /\ a.gnext = IndexOf(p, 0) /\ a.arst = s.arst + 1 /\ a.req = FALSE
    BY ArbResetIs
  <1>2. PortReset(p, s) = t
    BY DEF PortReset
  <1> HIDE DEF a
  <1>3. t \in PortState
    <2>1. << >> \in Seq(AllKinds) /\ "IDLE" \in OutStates
      BY DEF OutStates
    <2> QED BY <1>1, <2>1 DEF PortState
  <1>4. /\ t.next = a.next /\ t.gnext = a.gnext /\ t.arst = a.arst /\ t.req = a.req
        /\ NoWork(t) /\ t.drv = a.drv /\ t.last = a.last
    BY <1>1 DEF PortState, NoWork
  <1> HIDE DEF t
  <1> QED BY <1>1, <1>2, <1>3, <1>4 DEF a

(* The initial state: every port has reset once.                           *)
LEMMA InitInv == Init => IndInv
  <1> SUFFICES ASSUME Init PROVE IndInv
    OBVIOUS
  <1> DEFINE s0 == [next |-> {}, curr |-> {}, gnext |-> 0, gcurr |-> NPorts,
                    req |-> FALSE, arst |-> 0, outq |-> << >>, rdq |-> << >>,
                    q |-> "outq", st |-> "IDLE", cnt |-> 0, trans |-> "none",
                    drv |-> FALSE, last |-> FALSE]
             f == [p \in Ports |-> s0]
  <1>1. 0 \in Ports
    BY SjmBusAssumption DEF Ports
  <1>2. s0 \in PortState
    BY <1>1 DEF PortState, OutStates
  <1>3. s0.next = {} /\ s0.gnext = 0 /\ s0.drv = FALSE /\ s0.last = FALSE /\ s0.arst = 0
    OBVIOUS
  <1>4. port = [p \in Ports |-> PortReset(p, s0)] /\ rst \in BOOLEAN
    BY DEF Init
  <1> HIDE DEF s0
  <1>5. ASSUME NEW p \in Ports
        PROVE  /\ port[p] \in PortState
               /\ port[p].next = {} /\ port[p].gnext = IndexOf(p, 0)
               /\ port[p].arst = 1 /\ port[p].req = FALSE
               /\ NoWork(port[p]) /\ port[p].drv = FALSE /\ port[p].last = FALSE
    <2>1. ArbReset(p, s0).drv = FALSE /\ ArbReset(p, s0).last = FALSE
      BY <1>2, <1>3 DEF ArbReset, PortState
    <2>2. port[p] = PortReset(p, s0)
      BY <1>4
    <2> DEFINE t == PortReset(p, s0)
    <2>3. /\ t \in PortState
          /\ t.next = {} /\ t.gnext = IndexOf(p, 0) /\ t.arst = s0.arst + 1 /\ t.req = FALSE
          /\ NoWork(t) /\ t.drv = ArbReset(p, s0).drv /\ t.last = ArbReset(p, s0).last
      BY <1>2, PortResetIs
    <2> HIDE DEF t
    <2>4. t.arst = 1
      BY <1>3, <2>3
    <2> QED BY <2>1, <2>2, <2>3, <2>4 DEF t
  <1>6. port \in [Ports -> PortState]
    BY <1>4, <1>5
  <1>7. Agreed(port)
    BY <1>1, <1>5, IndexZero DEF Agreed
  <1>8. \A p \in Ports : PortInv(port[p])
    BY <1>5 DEF PortInv, KeepsRequest, NoWork
  <1> QED BY <1>4, <1>5, <1>6, <1>7, <1>8 DEF IndInv

(* The fall of j_rst.                                                      *)
LEMMA AssertResetInv == IndInv /\ AssertReset => IndInv'
  <1> SUFFICES ASSUME IndInv, AssertReset PROVE IndInv'
    OBVIOUS
  <1> DEFINE f == [p \in Ports |-> PortReset(p, port[p])]
  <1>1. \A p \in Ports : port[p] \in PortState
    BY DEF IndInv
  <1>2. \A p \in Ports : /\ f[p] \in PortState /\ f[p].next = {} /\ f[p].req = FALSE
                         /\ f[p].gnext = IndexOf(p, 0) /\ f[p].arst = port[p].arst + 1
                         /\ NoWork(f[p])
    BY <1>1, PortResetIs
  <1>3. f \in [Ports -> PortState]
    BY <1>2
  <1>4. /\ rst' \in BOOLEAN
        /\ port' = [p \in Ports |-> ProcessOutSigs(f[p], TRUE, TRUE)]
    BY DEF AssertReset
  <1> HIDE DEF f
  <1>5. Agreed(f)
    BY <1>2, <1>3, ResetAgrees DEF IndInv
  <1>6. \A p \in Ports : Ready(f[p])
    BY <1>2 DEF Ready, KeepsRequest, NoWork
  <1>7. /\ port' \in [Ports -> PortState] /\ Agreed(port')
        /\ \A p \in Ports : PortInv(port'[p]) /\ NoWork(port'[p])
    <2>1. Drives(f, port', TRUE, TRUE)
      BY <1>4 DEF Drives
    <2>2. Kept(f, port')
      BY <2>1, <1>2, <1>3, <1>5, <1>6, DriveKeeps
    <2> QED BY <1>2, <2>2 DEF Kept
  <1> QED BY <1>4, <1>7 DEF IndInv

(* A cycle of reset.                                                       *)
LEMMA ResetCycleInv == IndInv /\ ResetCycle => IndInv'
  <1> SUFFICES ASSUME IndInv, ResetCycle PROVE IndInv'
    OBVIOUS
  <1> DEFINE a == [p \in Ports |-> ArbReset(p, port[p])]
             f == [p \in Ports |-> Arbitrate(p, a[p], RequestLines)]
  <1>1. \A p \in Ports : port[p] \in PortState /\ NoWork(port[p])
    BY DEF IndInv, ResetCycle
  <1>2. \A p \in Ports : /\ a[p] \in PortState /\ a[p].next = {} /\ a[p].req = FALSE
                         /\ a[p].gnext = IndexOf(p, 0) /\ a[p].arst = port[p].arst + 1
                         /\ NoWork(a[p])
    <2> TAKE p \in Ports
    <2> DEFINE t == ArbReset(p, port[p])
    <2>1. /\ t \in PortState
          /\ t.next = {} /\ t.gnext = IndexOf(p, 0) /\ t.arst = port[p].arst + 1 /\ t.req = FALSE
          /\ t.st = port[p].st /\ t.outq = port[p].outq /\ t.rdq = port[p].rdq
      BY <1>1, ArbResetIs
    <2>2. a[p] = t
      OBVIOUS
    <2> HIDE DEF t, a
    <2> QED BY <1>1, <2>1, <2>2 DEF NoWork
  <1>3. a \in [Ports -> PortState]
    BY <1>2
  <1>4. /\ rst' \in BOOLEAN
        /\ port' = [p \in Ports |-> ProcessOutSigs(f[p], TRUE, TRUE)]
    BY DEF ResetCycle
  <1> HIDE DEF a
  <1>5. Agreed(a) /\ a[0].arst # 0
    BY <1>2, <1>3, ResetAgrees DEF IndInv
  <1>6. /\ f \in [Ports -> PortState] /\ Agreed(f)
        /\ \A p \in Ports : SameOutput(a[p], f[p])
    BY <1>3, <1>5, ArbitrateAgrees
  <1> HIDE DEF f
  <1>7. \A p \in Ports : Ready(f[p]) /\ NoWork(f[p])
    BY <1>2, <1>6 DEF Ready, KeepsRequest, NoWork, SameOutput
  <1>8. /\ port' \in [Ports -> PortState] /\ Agreed(port')
        /\ \A p \in Ports : PortInv(port'[p]) /\ NoWork(port'[p])
    <2>1. Drives(f, port', TRUE, TRUE)
      BY <1>4 DEF Drives
    <2>2. Kept(f, port')
      BY <2>1, <1>6, <1>7, DriveKeeps
    <2> QED BY <1>7, <2>2 DEF Kept
  <1> QED BY <1>4, <1>8 DEF IndInv

(* Queueing a transaction and the loss of the request with the last        *)
(* quadword, before a cycle is driven.                                     *)
LEMMA EnqueueIs ==
  ASSUME NEW s \in PortState, NEW a, a = << >> \/ \E k \in AllKinds : a = <<k>>
  PROVE  LET t == Enqueue(s, a)
         IN  /\ t \in PortState /\ SameArbiter(s, t)
             /\ t.st = s.st /\ t.cnt = s.cnt /\ t.req = s.req
  <1>1. CASE a = << >>
    BY <1>1 DEF Enqueue, SameArbiter
  <1>2. ASSUME NEW k \in AllKinds, a = <<k>>
        PROVE  /\ Enqueue(s, a) \in PortState /\ SameArbiter(s, Enqueue(s, a))
               /\ Enqueue(s, a).st = s.st /\ Enqueue(s, a).cnt = s.cnt
               /\ Enqueue(s, a).req = s.req
    <2> DEFINE o == s.outq \o a
               w == s.outq \o <<"RDWB", "WRB">>
               d == s.rdq \o a
               t(x) == [s EXCEPT !.outq = x]
               u == [s EXCEPT !.rdq = d]
    <2>1. Enqueue(s, a) = u \/ Enqueue(s, a) = t(w) \/ Enqueue(s, a) = t(o)
      BY <1>2 DEF Enqueue
    <2>2. a \in Seq(AllKinds) /\ <<"RDWB", "WRB">> \in Seq(AllKinds)
      BY <1>2 DEF AllKinds
    <2>3. o \in Seq(AllKinds) /\ w \in Seq(AllKinds) /\ d \in Seq(AllKinds)
      BY <2>2 DEF PortState
    <2> HIDE DEF o, w, d
    <2>4. ASSUME NEW x \in Seq(AllKinds)
          PROVE  /\ t(x) \in PortState /\ SameArbiter(s, t(x))
                 /\ t(x).st = s.st /\ t(x).cnt = s.cnt /\ t(x).req = s.req
      BY DEF PortState, SameArbiter
    <2>5. /\ u \in PortState /\ SameArbiter(s, u)
          /\ u.st = s.st /\ u.cnt = s.cnt /\ u.req = s.req
      BY <2>3 DEF PortState, SameArbiter
    <2> HIDE DEF t, u
    <2> QED BY <2>1, <2>3, <2>4, <2>5
  <1> QED BY <1>1, <1>2
(* A cycle out of reset.                                                   *)
LEMMA RunCycleInv ==
  ASSUME IndInv, RunCycle
  PROVE  /\ IndInv'
         /\ \A p, r \in Ports : DeadCycle /\ p # r /\ port[p].drv => ~port'[r].drv
  <1>1. PICK a \in [Ports -> {<< >>} \cup {<<k>> : k \in Kinds}],
             aok \in (IF FlowControl THEN BOOLEAN ELSE {TRUE}),
             dok \in (IF FlowControl THEN BOOLEAN ELSE {TRUE}),
             dest \in (IF \E p \in Ports : port[p].last THEN Ports ELSE {NPorts}) :
               /\ \A p \in Ports : a[p] \in Arrivals(port[p])
               /\ port' = [p \in Ports |->
                 ProcessOutSigs(Enqueue(Receive(Arbitrate(p, port[p], RequestLines), p = dest),
                                        a[p]), aok, dok)]
    BY DEF RunCycle
  <1> DEFINE u == [p \in Ports |-> Arbitrate(p, port[p], RequestLines)]
             v == [p \in Ports |-> Receive(u[p], p = dest)]
             f == [p \in Ports |-> Enqueue(v[p], a[p])]
  <1>2. port' = [p \in Ports |-> ProcessOutSigs(f[p], aok, dok)]
    BY <1>1
  <1>3. port \in [Ports -> PortState] /\ Agreed(port) /\ 0 \in Ports
    BY SjmBusAssumption DEF IndInv, Ports
  <1>4. \A p \in Ports : port[p] \in PortState /\ PortInv(port[p])
    BY <1>3 DEF IndInv
  <1>5. \A p \in Ports : port[p].req <=> p \in RequestLines
    BY DEF RequestLines
  <1>6. /\ u \in [Ports -> PortState]
        /\ Agreed(u)
        /\ \A p \in Ports :
             /\ SameOutput(port[p], u[p])
             /\ u[p].gcurr = port[p].gnext
             /\ Secure(port[p]) => u[p].gnext = 0
             /\ u[p].req /\ u[p].gnext = 0 => Secure(u[p])
    BY <1>3, <1>5, ArbitrateAgrees
  <1>7. ASSUME NEW p \in Ports, NEW r \in Ports, port[p].gnext = 0, port[r].gnext = 0
        PROVE  p = r
    <2>1. IndexOf(p, port[0].gnext) = 0 /\ IndexOf(r, port[0].gnext) = 0 /\ port[0].gnext \in Ports
      BY <1>3, <1>4, <1>7 DEF Agreed, PortState
    <2> QED BY <2>1, IndexZero, IndexOnce
  <1> HIDE DEF u
  <1>8. \A p \in Ports : Ready(u[p])
    BY <1>4, <1>6 DEF Ready, PortInv, KeepsRequest, SameOutput
  <1>9. ASSUME NEW p \in Ports, p = dest
        PROVE  u[p].st = "IDLE"
    <2>1. PICK l \in Ports : port[l].last
      BY <1>1, <1>9, SjmBusAssumption DEF Ports
    <2>2. port[l].gnext = 0 /\ port[l].st = "IDLE"
      BY <1>4, <2>1 DEF PortInv
    <2>3. port[p].st # "IDLE" => port[p].gnext = 0
      BY <1>4 DEF PortInv, Secure
    <2>4. port[p].st = "IDLE"
      BY <2>2, <2>3, <1>7
    <2> QED BY <2>4, <1>6 DEF SameOutput
  <1>10. ASSUME NEW p \in Ports
         PROVE  Ready(v[p]) /\ SameArbiter(u[p], v[p]) /\ v[p].st = u[p].st
    <2>1. CASE p # dest
      <3>1. v[p] = u[p]
        BY <2>1 DEF Receive
      <3> QED BY <3>1, <1>8 DEF SameArbiter
    <2>2. CASE p = dest
      <3>1. v[p] = ReleaseBus(u[p])
        BY <2>2 DEF Receive
      <3>2. /\ ReleaseBus(u[p]) \in PortState /\ SameArbiter(u[p], ReleaseBus(u[p]))
            /\ ReleaseBus(u[p]).st = u[p].st
        BY <1>8, Helpers DEF Ready
      <3>3. ReleaseBus(u[p]).req = FALSE
        BY <1>8 DEF Ready, ReleaseBus, PortState
      <3>4. u[p].st = "IDLE"
        BY <2>2, <1>9
      <3> QED BY <3>1, <3>2, <3>3, <3>4 DEF Ready, KeepsRequest
    <2> QED BY <2>1, <2>2
  <1> HIDE DEF v
  <1>11. ASSUME NEW p \in Ports
         PROVE  Ready(f[p]) /\ SameArbiter(u[p], f[p]) /\ f[p].st = u[p].st
    <2>1. a[p] = << >> \/ \E k \in AllKinds : a[p] = <<k>>
      BY SjmBusAssumption
    <2>2. v[p] \in PortState
      BY <1>10 DEF Ready
    <2> DEFINE t == Enqueue(v[p], a[p])
    <2>3. /\ t \in PortState /\ SameArbiter(v[p], t)
          /\ t.st = v[p].st /\ t.cnt = v[p].cnt /\ t.req = v[p].req
      BY <2>1, <2>2, EnqueueIs
    <2>4. f[p] = t
      OBVIOUS
    <2> HIDE DEF t, f
    <2>5. Ready(t)
      BY <1>10, <2>3 DEF Ready, KeepsRequest, SameArbiter, Secure
    <2> QED BY <1>10, <2>3, <2>4, <2>5 DEF SameArbiter
  <1>12. f \in [Ports -> PortState]
    BY <1>11 DEF Ready
  <1> HIDE DEF f
  <1>13. Agreed(f)
    BY <1>3, <1>6, <1>11 DEF Agreed, SameArbiter
  <1>14. /\ port' \in [Ports -> PortState] /\ Agreed(port')
         /\ \A p \in Ports : PortInv(port'[p])
         /\ \A p \in Ports : port'[p].drv => HasGrant(f[p]) \/ f[p].st # "IDLE"
    <2>1. \A p \in Ports : Ready(f[p])
      BY <1>11
    <2>2. Drives(f, port', aok, dok)
      BY <1>2 DEF Drives
    <2>3. Kept(f, port')
      BY <2>1, <2>2, <1>12, <1>13, DriveKeeps
    <2> QED BY <2>3 DEF Kept
  <1>15. IndInv'
    BY <1>14 DEF IndInv, RunCycle
  <1>16. ASSUME NEW p \in Ports, NEW r \in Ports, DeadCycle, p # r, port[p].drv
         PROVE  ~port'[r].drv
    <2>1. port[r].gnext # 0
      BY <1>4, <1>7, <1>16 DEF PortInv
    <2>2. port[r].st = "IDLE"
      BY <1>4, <2>1 DEF PortInv, Secure
    <2>3. f[r].gcurr # 0 /\ f[r].st = "IDLE"
      BY <1>6, <1>11, <2>1, <2>2 DEF SameArbiter, SameOutput
    <2> QED BY <1>14, <1>16, <2>3 DEF HasGrant
  <1> QED BY <1>15, <1>16

LEMMA StutterInv == IndInv /\ UNCHANGED vars => IndInv'
  BY DEF IndInv, vars

-----------------------------------------------------------------------------
(* The theorems *)

(* However many ports share the bus, whatever they send and whenever j_rst *)
(* falls: all ports compute the same holder and the same requests, a port  *)
(* keeps its request up while it has more than one quadword to drive, and  *)
(* one that is between the address and the last quadword has the grant.    *)
THEOREM Invariance == Spec => []IndInv
  <1>1. IndInv /\ [Next]_vars => IndInv'
    BY AssertResetInv, ResetCycleInv, RunCycleInv, StutterInv DEF Next
  <1> QED BY <1>1, InitInv, PTL DEF Spec

(* The grant that each port computes for itself (Arbiter::Arbitrate) is    *)
(* everywhere the same.                                                    *)
THEOREM OneGrant == Spec => []GrantAgreement
  <1>1. IndInv => GrantAgreement
    <2> SUFFICES ASSUME IndInv, NEW p \in Ports, NEW r \in Ports
                 PROVE  GrantSeenBy(p) = GrantSeenBy(r)
      BY DEF GrantAgreement
    <2>1. 0 \in Ports
      BY SjmBusAssumption DEF Ports
    <2>2. port[0].gnext \in Ports
      BY <2>1 DEF IndInv, PortState
    <2>3. \A q \in Ports : GrantSeenBy(q) = port[0].gnext
      <3> TAKE q \in Ports
      <3>1. port[q].gnext = IndexOf(q, port[0].gnext)
        BY DEF IndInv, Agreed
      <3>2. IndexOf(q, port[0].gnext) \in Ports
        BY <2>2, IndexIs
      <3> QED BY <2>2, <3>1, <3>2, IndexIs DEF GrantSeenBy
    <2> QED BY <2>3
  <1> QED BY <1>1, Invariance, PTL

(* At most one port drives j_ad (SJM::sjmProcessOutSigs).                  *)
THEOREM SingleDriver == Spec => []OneDriver
  <1>1. IndInv => OneDriver
    <2> SUFFICES ASSUME IndInv PROVE OneDriver
      OBVIOUS
    <2> DEFINE D == {p \in Ports : port[p].drv}
    <2>1. \A p, r \in Ports : port[p].gnext = 0 /\ port[r].gnext = 0 => p = r
      <3> SUFFICES ASSUME NEW p \in Ports, NEW r \in Ports, port[p].gnext = 0, port[r].gnext = 0
                   PROVE  p = r
        OBVIOUS
      <3>1. 0 \in Ports
        BY SjmBusAssumption DEF Ports
      <3>2. IndexOf(p, port[0].gnext) = 0 /\ IndexOf(r, port[0].gnext) = 0
        BY DEF IndInv, Agreed
      <3>3. port[0].gnext \in Ports
        BY <3>1 DEF IndInv, PortState
      <3> QED BY <3>2, <3>3, IndexZero, IndexOnce
    <2>2. \A p, r \in D : p = r
      BY <2>1 DEF IndInv, PortInv
    <2>3. D = {} \/ \E p \in Ports : D = {p}
      BY <2>2
    <2>4. Cardinality(D) <= 1
      BY <2>3, FS_EmptySet, FS_Singleton
    <2> QED BY <2>4 DEF OneDriver
  <1> QED BY <1>1, Invariance, PTL

(* No request takes the grant from a port in the middle of a transaction.  *)
THEOREM TransactionKeepsGrant == Spec => []GrantCoversTransaction
  <1>1. IndInv => GrantCoversTransaction
    <2> SUFFICES ASSUME IndInv, NEW p \in Ports, port[p].st # "IDLE"
                 PROVE  GrantSeenBy(p) = p
      BY DEF GrantCoversTransaction
    <2>1. port[p].gnext = IndexOf(p, p)
      BY IndexZero DEF IndInv, PortInv, Secure
    <2>2. IndexOf(p, p) \in Ports
      BY IndexIs
    <2> QED BY <2>1, <2>2, IndexIs DEF GrantSeenBy
  <1> QED BY <1>1, Invariance, PTL

(* With the dead cycle the bus is idle between two drivers.                *)
THEOREM IdleBetweenDrivers == Spec => Turnaround
  <1>1. IndInv /\ [Next]_vars
          => [\A p, r \in Ports : DeadCycle /\ p # r /\ port[p].drv /\ ~rst /\ ~rst'
                                   => ~port'[r].drv]_vars
    <2>1. ~rst' => ~AssertReset
      BY DEF AssertReset
    <2>2. ~rst => ~ResetCycle
      BY DEF ResetCycle
    <2> QED BY <2>1, <2>2, RunCycleInv DEF Next
  <1> QED BY <1>1, Invariance, PTL DEF Spec, Turnaround
=============================================================================
