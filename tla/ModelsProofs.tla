---------------------------- MODULE ModelsProofs ----------------------------
(***************************************************************************)
(* Proofs about what the test bench links in: the events of a diag, the    *)
(* message monitor and the sending side of the simulator's socket.         *)
(***************************************************************************)
EXTENDS IopEvents, Dispmon, SasSend, FiniteSetTheorems, SequenceTheorems, WellFoundedInduction, TLAPS

-----------------------------------------------------------------------------
(* Every non-empty set of naturals has a smallest element.                 *)
LEMMA SmallestOf ==
    ASSUME NEW S \in SUBSET Nat, S # {}
    PROVE  \E w \in S : \A v \in S : w <= v
  <1>1. PICK n \in Nat : n \in S
    OBVIOUS
  <1> DEFINE R == StrictSubsetOrdering(0..n)
             F == FiniteSubsetsOf(0..n)
             T == {0..w : w \in S \cap (0..n)}
  <1>2. \A w \in 0..n : 0..w \in F
    <2> SUFFICES ASSUME NEW w \in 0..n PROVE 0..w \in F
      OBVIOUS
    <2>1. IsFiniteSet(0..w) /\ 0..w \subseteq 0..n
      BY FS_Interval
    <2> QED BY <2>1 DEF FiniteSubsetsOf
  <1>3. T \subseteq F /\ T # {}
    BY <1>1, <1>2
  <1>4. IsWellFoundedOn(R, F)
    BY FS_StrictSubsetOrderingWellFounded
  <1>5. \E x \in T : \A y \in T : ~(<<y, x>> \in R)
    <2> HIDE DEF R, F, T
    <2> QED BY <1>3, <1>4, WFMin
  <1>6. PICK w \in S \cap (0..n) : \A v \in S \cap (0..n) : ~(<<0..v, 0..w>> \in R)
    BY <1>5
  <1>7. \A v \in S : w <= v
    <2> SUFFICES ASSUME NEW v \in S, ~(w <= v)
                 PROVE  FALSE
      OBVIOUS
    <2>1. v \in S \cap (0..n) /\ v < w /\ w \in 0..n
      OBVIOUS
    <2>2. /\ 0..v \subseteq 0..w /\ 0..v \subseteq 0..n /\ 0..w \subseteq 0..n
          /\ w \in 0..w /\ w \notin 0..v
      BY <2>1
    <2>3. 0..v # 0..w
      BY <2>2
    <2>4. <<0..v, 0..w>> \in R
      BY <2>2, <2>3 DEF StrictSubsetOrdering
    <2> QED BY <1>6, <2>1, <2>4
  <1> QED BY <1>6, <1>7

(* What is reached by steps from a set of states stays in the set.         *)
LEMMA StepsStay ==
    ASSUME NEW L \in Nat, NEW S, NEW f, f[0] \in S,
           \A n \in 1..L : f[n-1] \in S => f[n] \in S
    PROVE  \A n \in 0..L : f[n] \in S
  <1> DEFINE B == {n \in 0..L : f[n] \notin S}
  <1>1. SUFFICES ASSUME B # {} PROVE FALSE  OBVIOUS
  <1>2. PICK n \in B : \A k \in B : n <= k
    <2>1. B \in SUBSET Nat  OBVIOUS
    <2> HIDE DEF B
    <2> QED  BY <1>1, <2>1, SmallestOf
  <1>3. n \in 1..L /\ n - 1 \in 0..L /\ n - 1 \notin B  BY <1>2
  <1> QED  BY <1>2, <1>3

(* A recursive function on an initial segment of the naturals exists.      *)
Run(f, L, S, start, F) ==
    f \in [0..L -> S] /\ f[0] = start /\ \A n \in 1..L : f[n] = F[n][f[n-1]]
Steps(L, S) == [1..L -> [S -> S]]

LEMMA StepsExist ==
    ASSUME NEW L \in Nat, NEW S, NEW start \in S, NEW F \in Steps(L, S)
    PROVE  \E f : Run(f, L, S, start, F)
  <1> USE DEF Run, Steps
  <1> DEFINE G(m) == \E f : Run(f, m, S, start, F)
             B == {m \in 0..L : ~G(m)}
  <1>1. CASE B = {}
    <2>1. \A m \in 0..L : G(m)  BY <1>1
    <2>2. G(L)  BY <2>1
    <2> QED  BY <2>2
  <1>2. CASE B # {}
    <2>1. PICK m \in B : \A k \in B : m <= k
      <3>1. B \in SUBSET Nat  OBVIOUS
      <3> HIDE DEF B
      <3> QED  BY <1>2, <3>1, SmallestOf
    <2>2. m # 0
      <3> DEFINE f == [n \in 0..0 |-> start]
      <3>1. f \in [0..0 -> S] /\ f[0] = start /\ \A n \in 1..0 : f[n] = F[n][f[n-1]]  OBVIOUS
      <3>2. Run(f, 0, S, start, F)  BY <3>1
      <3> QED  BY <2>1, <3>2
    <2>3. m \in 1..L /\ m - 1 \in 0..L /\ G(m-1)
      <3>1. m \in 1..L /\ m - 1 \in 0..L  BY <2>1, <2>2
      <3>2. m - 1 \notin B
        <4> HIDE DEF B
        <4> QED  BY <2>1, <3>1
      <3> HIDE DEF G
      <3> QED  BY <3>1, <3>2
    <2>4. PICK f \in [0..(m-1) -> S] : f[0] = start /\ \A n \in 1..(m-1) : f[n] = F[n][f[n-1]]
      BY <2>3
    <2> DEFINE g == [n \in 0..m |-> IF n = m THEN F[m][f[m-1]] ELSE f[n]]
    <2>5. f[m-1] \in S /\ F[m][f[m-1]] \in S  BY <2>3, <2>4
    <2>6. g \in [0..m -> S] /\ g[0] = start  BY <2>3, <2>4, <2>5
    <2>7. \A n \in 1..m : g[n] = F[n][g[n-1]]
      <3> SUFFICES ASSUME NEW n \in 1..m PROVE g[n] = F[n][g[n-1]]  OBVIOUS
      <3>1. CASE n = m  BY <2>3, <3>1
      <3>2. CASE n # m
        <4>1. n \in 1..(m-1) /\ n \in 0..m /\ n - 1 \in 0..m /\ n - 1 # m  BY <2>3, <3>2
        <4>2. g[n] = f[n] /\ g[n-1] = f[n-1]  BY <3>2, <4>1
        <4> QED  BY <2>4, <4>1, <4>2
      <3> QED  BY <3>1, <3>2
    <2> HIDE DEF g
    <2>8. G(m)  BY <2>6, <2>7
    <2> QED  BY <2>1, <2>8
  <1> QED  BY <1>1, <1>2

-----------------------------------------------------------------------------
(***************************************************************************)
(* The events of a diag (IopEvents).                                       *)
(***************************************************************************)
PinStates == [set : BOOLEAN, ready : BOOLEAN, delay : Nat, on : BOOLEAN]
StallStates == [stall : SUBSET EvPorts, ready : SUBSET EvPorts, delay : [EvPorts -> Nat],
                done : BOOLEAN, on : SUBSET EvPorts, free : SUBSET EvPorts]
Wants == [ask : Seq(Nat), left : Nat]
WantStates == [pin : [Pins -> Wants], stall : [Ways2 -> [EvPorts -> Wants]]]

(* What is left of an event for a pin: not driven yet, being driven for as *)
(* long as its delay, or over.                                             *)
PinOK(n, p, w) ==
    /\ w.ask # <<>> => p.set /\ ~p.ready /\ w.ask[1] = IF n = "warmrst" THEN 0 ELSE p.delay
    /\ w.ask = <<>> => ~p.set
    /\ w.ask = <<>> /\ p.ready => w.left = IF n = "warmrst" THEN 1 ELSE p.delay + 1
    /\ w.ask = <<>> /\ ~p.ready => w.left = 0
    /\ p.on = (w.left > 0)

(* The same for one destination of a stall, and its latch h.               *)
PortOK(s, i, w, h) ==
    /\ w.ask # <<>> => i \in s.stall /\ i \notin s.ready /\ w.ask[1] = s.delay[i]
    /\ w.ask = <<>> => i \notin s.stall
    /\ w.ask = <<>> /\ i \in s.ready => w.left = s.delay[i] + 1
    /\ w.ask = <<>> /\ i \notin s.ready => w.left = 0
    /\ h = (w.left > 0)

Stalled(s, want, held) ==
    /\ \A i \in EvPorts : PortOK(s, i, want[i], i \in held)
    /\ s.stall \cup s.ready = {} => s.on = {}

Matched(pins, stalls, want, held) ==
    /\ \A n \in Pins : PinOK(n, pins[n], want.pin[n])
    /\ \A k \in Ways2 : Stalled(stalls[k], want.stall[k], held[k])

EventStates(held) ==
    {t \in [Pins -> PinStates] \X [Ways2 -> StallStates] \X WantStates : Matched(t[1], t[2], t[3], held)}

EventInv ==
    /\ evLists \in [DOMAIN evLists -> Seq(EvEvents)]
    /\ evHeld \in [Ways2 -> SUBSET EvPorts]
    /\ <<evPin, evStall, evWant>> \in EventStates(evHeld)

(* The values the handlers write, field by field.                          *)
LEMMA WantAsked ==
    ASSUME NEW w \in Wants, NEW x \in Nat
    PROVE  LET v == [w EXCEPT !.ask = <<x>>]
           IN  v \in Wants /\ v.ask # <<>> /\ v.ask[1] = x /\ v.left = w.left
  <1> DEFINE v == [w EXCEPT !.ask = <<x>>]
  <1>1. v = [ask |-> <<x>>, left |-> w.left]  BY DEF Wants
  <1>2. <<x>> \in Seq(Nat) /\ <<x>> # <<>> /\ <<x>>[1] = x /\ w.left \in Nat  BY DEF Wants
  <1> QED  BY <1>1, <1>2 DEF Wants

LEMMA PinSet ==
    ASSUME NEW p \in PinStates, NEW x \in Nat
    PROVE  LET q == SetPin(p, x)
           IN  q \in PinStates /\ q.set /\ ~q.ready /\ q.delay = x /\ q.on = p.on
  BY Zenon DEF SetPin, PinStates

LEMMA PinFired ==
    ASSUME NEW n \in Pins, NEW p \in PinStates, NEW w \in Wants, PinOK(n, p, w), NEW x \in Nat
    PROVE  LET q == SetPin(p, x)
               v == [w EXCEPT !.ask = <<IF n = "warmrst" THEN 0 ELSE x>>]
           IN  q \in PinStates /\ v \in Wants /\ PinOK(n, q, v)
  <1> DEFINE q == SetPin(p, x)
             y == IF n = "warmrst" THEN 0 ELSE x
             v == [w EXCEPT !.ask = <<y>>]
  <1>1. q \in PinStates /\ q.set /\ ~q.ready /\ q.delay = x /\ q.on = p.on  BY PinSet
  <1>2. y \in Nat  OBVIOUS
  <1>3. v \in Wants /\ v.ask # <<>> /\ v.ask[1] = y /\ v.left = w.left  BY <1>2, WantAsked
  <1> HIDE DEF q, v
  <1>4. p.on \in BOOLEAN /\ q.on \in BOOLEAN  BY <1>1 DEF PinStates
  <1>5. PinOK(n, q, v)  BY <1>1, <1>3, <1>4 DEF PinOK
  <1> QED  BY <1>1, <1>3, <1>5 DEF q, v

LEMMA StallSet ==
    ASSUME NEW s \in StallStates, NEW b \in EvPorts, NEW x \in Nat
    PROVE  LET q == set_stall(s, b, x)
           IN  /\ q \in StallStates
               /\ q.stall = s.stall \cup {b} /\ q.ready = s.ready \ {b} /\ q.on = s.on
               /\ q.delay = [i \in EvPorts |-> IF i = b THEN x ELSE s.delay[i]]
  <1> DEFINE q == set_stall(s, b, x)
             d == [s.delay EXCEPT ![b] = x]
  <1>1. s.delay \in [EvPorts -> Nat]  BY DEF StallStates
  <1>2. d = [i \in EvPorts |-> IF i = b THEN x ELSE s.delay[i]] /\ d \in [EvPorts -> Nat]  BY <1>1
  <1>3. s.stall \cup {b} \in SUBSET EvPorts /\ s.ready \ {b} \in SUBSET EvPorts  BY DEF StallStates
  <1>4. q.stall = s.stall \cup {b} /\ q.ready = s.ready \ {b} /\ q.on = s.on /\ q.delay = d
    BY Zenon DEF set_stall, StallStates
  <1> HIDE DEF d
  <1>5. q = [s EXCEPT !.stall = s.stall \cup {b}, !.ready = s.ready \ {b}, !.delay = d]
    BY Zenon DEF set_stall, StallStates, d
  <1> HIDE DEF q
  <1>6. q \in StallStates  BY Zenon, <1>2, <1>3, <1>5 DEF StallStates
  <1> QED  BY <1>2, <1>4, <1>6 DEF q

LEMMA StallFired ==
    ASSUME NEW s \in StallStates, NEW want \in [EvPorts -> Wants], NEW held \in SUBSET EvPorts,
           Stalled(s, want, held), NEW b \in EvPorts, NEW x \in Nat
    PROVE  LET q == set_stall(s, b, x)
               v == [want EXCEPT ![b].ask = <<x>>]
           IN  q \in StallStates /\ v \in [EvPorts -> Wants] /\ Stalled(q, v, held)
  <1> DEFINE q == set_stall(s, b, x)
             u == [want[b] EXCEPT !.ask = <<x>>]
             v == [want EXCEPT ![b].ask = <<x>>]
  <1>1. /\ q \in StallStates
        /\ q.stall = s.stall \cup {b} /\ q.ready = s.ready \ {b} /\ q.on = s.on
        /\ q.delay = [i \in EvPorts |-> IF i = b THEN x ELSE s.delay[i]]
    BY StallSet
  <1>2. u \in Wants /\ u.ask # <<>> /\ u.ask[1] = x /\ u.left = want[b].left  BY WantAsked
  <1>3. v = [want EXCEPT ![b] = u]  BY Zenon
  <1> HIDE DEF q, u, v
  <1>4. v \in [EvPorts -> Wants] /\ v[b] = u /\ \A i \in EvPorts \ {b} : v[i] = want[i]
    BY <1>2, <1>3
  <1>5. ASSUME NEW i \in EvPorts PROVE PortOK(q, i, v[i], i \in held)
    <2>1. PortOK(s, i, want[i], i \in held)  BY DEF Stalled
    <2>2. CASE i = b
      <3>1. q.delay[i] = x /\ i \in q.stall /\ i \notin q.ready  BY <1>1, <2>2
      <3> QED  BY <1>2, <1>4, <2>1, <2>2, <3>1 DEF PortOK
    <2>3. CASE i # b
      <3>1. /\ q.delay[i] = s.delay[i] /\ (i \in q.stall <=> i \in s.stall)
            /\ (i \in q.ready <=> i \in s.ready) /\ v[i] = want[i]
        BY <1>1, <1>4, <2>3
      <3> QED  BY <2>1, <3>1 DEF PortOK
    <2> QED  BY <2>2, <2>3
  <1>6. q.stall \cup q.ready # {}  BY <1>1
  <1>7. Stalled(q, v, held)  BY <1>5, <1>6 DEF Stalled
  <1> QED  BY <1>1, <1>4, <1>7 DEF q, v

(* One event leaves what was matched matched.                              *)
LEMMA FireKeeps ==
    ASSUME NEW held \in [Ways2 -> SUBSET EvPorts], NEW t \in EventStates(held), NEW e \in EvEvents
    PROVE  <<FirePin(t[1], e), FireStall(t[2], e), Asked(t[3], e)>> \in EventStates(held)
  <1> DEFINE pins == t[1] stalls == t[2] want == t[3]
  <1>1. /\ pins \in [Pins -> PinStates] /\ stalls \in [Ways2 -> StallStates] /\ want \in WantStates
        /\ Matched(pins, stalls, want, held)
    BY Zenon DEF EventStates
  <1> HIDE DEF pins, stalls, want
  <1>2. want.pin \in [Pins -> Wants] /\ want.stall \in [Ways2 -> [EvPorts -> Wants]]
    BY <1>1 DEF WantStates
  <1>3. \A a, b, c : /\ a \in [Pins -> PinStates] /\ b \in [Ways2 -> StallStates] /\ c \in WantStates
                     /\ Matched(a, b, c, held)
                     => <<a, b, c>> \in EventStates(held)
    BY Zenon DEF EventStates
  <1>4. CASE e.type \in Pins
    <2> DEFINE n == e.type
               x == IF n = "warmrst" THEN 0 ELSE e.wait
               p == SetPin(pins[n], e.wait)
               v == [want.pin[n] EXCEPT !.ask = <<x>>]
               a == [pins EXCEPT ![n] = p]
               u == [want.pin EXCEPT ![n] = v]
               c == [want EXCEPT !.pin = u]
    <2>1. e.wait \in Nat /\ n \notin Ways2  BY <1>4, EvAssumption DEF Pins, Ways2
    <2>2. PinOK(n, pins[n], want.pin[n]) /\ pins[n] \in PinStates /\ want.pin[n] \in Wants
      BY <1>1, <1>2, <1>4 DEF Matched
    <2>3. p \in PinStates /\ v \in Wants /\ PinOK(n, p, v)  BY <1>4, <2>1, <2>2, PinFired
    <2>4. FirePin(pins, e) = a /\ FireStall(stalls, e) = stalls
      BY Zenon, <1>4, <2>1 DEF FirePin, FireStall
    <2>5. Asked(want, e) = c  BY Zenon, <1>4, <2>1 DEF Asked
    <2> HIDE DEF p, v
    <2>6. a \in [Pins -> PinStates] /\ a[n] = p /\ \A m \in Pins \ {n} : a[m] = pins[m]
      BY <1>1, <1>4, <2>3
    <2>7. u \in [Pins -> Wants] /\ u[n] = v /\ \A m \in Pins \ {n} : u[m] = want.pin[m]
      BY <1>2, <1>4, <2>3
    <2> HIDE DEF a, u
    <2>8. c \in WantStates /\ c.pin = u /\ c.stall = want.stall
      BY Zenon, <1>1, <2>7 DEF WantStates
    <2> HIDE DEF c
    <2>9. Matched(a, stalls, c, held)
      <3>1. ASSUME NEW m \in Pins PROVE PinOK(m, a[m], c.pin[m])
        <4>1. CASE m = n  BY <2>3, <2>6, <2>7, <2>8, <4>1
        <4>2. CASE m # n
          <5>1. a[m] = pins[m] /\ c.pin[m] = want.pin[m]  BY <2>6, <2>7, <2>8, <4>2
          <5> QED  BY <1>1, <5>1 DEF Matched
        <4> QED  BY <4>1, <4>2
      <3> QED  BY <1>1, <2>8, <3>1 DEF Matched
    <2> QED  BY <1>1, <1>3, <2>4, <2>5, <2>6, <2>8, <2>9 DEF pins, stalls, want
  <1>5. CASE e.type \in Ways2
    <2> DEFINE k == e.type
               q == set_stall(stalls[k], e.bank, e.num)
               v == [want.stall[k] EXCEPT ![e.bank].ask = <<e.num>>]
               b == [stalls EXCEPT ![k] = q]
               u == [want.stall EXCEPT ![k] = v]
               c == [want EXCEPT !.stall = u]
    <2>1. e.bank \in EvPorts /\ e.num \in Nat /\ k \notin Pins  BY <1>5, EvAssumption DEF Pins, Ways2
    <2>2. /\ Stalled(stalls[k], want.stall[k], held[k]) /\ stalls[k] \in StallStates
          /\ want.stall[k] \in [EvPorts -> Wants] /\ held[k] \in SUBSET EvPorts
      BY <1>1, <1>2, <1>5 DEF Matched
    <2>3. q \in StallStates /\ v \in [EvPorts -> Wants] /\ Stalled(q, v, held[k])
      BY <2>1, <2>2, StallFired
    <2>4. FirePin(pins, e) = pins /\ FireStall(stalls, e) = b
      BY Zenon, <1>5, <2>1 DEF FirePin, FireStall
    <2>5. Asked(want, e) = c  BY Zenon, <1>5, <2>1 DEF Asked
    <2> HIDE DEF q, v
    <2>6. b \in [Ways2 -> StallStates] /\ b[k] = q /\ \A m \in Ways2 \ {k} : b[m] = stalls[m]
      BY <1>1, <1>5, <2>3
    <2>7. u \in [Ways2 -> [EvPorts -> Wants]] /\ u[k] = v /\ \A m \in Ways2 \ {k} : u[m] = want.stall[m]
      BY <1>2, <1>5, <2>3
    <2> HIDE DEF b, u
    <2>8. c \in WantStates /\ c.stall = u /\ c.pin = want.pin
      BY Zenon, <1>1, <2>7 DEF WantStates
    <2> HIDE DEF c
    <2>9. Matched(pins, b, c, held)
      <3>1. ASSUME NEW m \in Ways2 PROVE Stalled(b[m], c.stall[m], held[m])
        <4>1. CASE m = k  BY <2>3, <2>6, <2>7, <2>8, <4>1
        <4>2. CASE m # k
          <5>1. b[m] = stalls[m] /\ c.stall[m] = want.stall[m]  BY <2>6, <2>7, <2>8, <4>2
          <5> QED  BY <1>1, <5>1 DEF Matched
        <4> QED  BY <4>1, <4>2
      <3> QED  BY <1>1, <2>8, <3>1 DEF Matched
    <2> QED  BY <1>1, <1>3, <2>4, <2>5, <2>6, <2>8, <2>9 DEF pins, stalls, want
  <1>6. CASE e.type \notin Pins \cup Ways2
    <2>1. FirePin(pins, e) = pins /\ FireStall(stalls, e) = stalls  BY Zenon, <1>6 DEF FirePin, FireStall
    <2>2. Asked(want, e) = want  BY <1>6 DEF Asked
    <2> QED  BY <1>1, <1>3, <2>1, <2>2 DEF pins, stalls, want
  <1> QED  BY <1>4, <1>5, <1>6

(* And so do all the events of a program counter.                          *)
LEMMA FireAllKeeps ==
    ASSUME NEW held \in [Ways2 -> SUBSET EvPorts], NEW pins, NEW stalls, NEW want,
           <<pins, stalls, want>> \in EventStates(held), NEW list \in Seq(EvEvents)
    PROVE  FireAll(list, pins, stalls, want) \in EventStates(held)
  <1> DEFINE S == EventStates(held)
             start == <<pins, stalls, want>>
             L == Len(list)
             Step(t, n) == <<FirePin(t[1], list[n]), FireStall(t[2], list[n]), Asked(t[3], list[n])>>
             F == [n \in 1..L |-> [t \in S |-> Step(t, n)]]
             Eq(f) == f = [n \in 0..L |-> IF n = 0 THEN start ELSE Step(f[n-1], n)]
             fired == CHOOSE f : Eq(f)
  <1>1. L \in Nat /\ \A n \in 1..L : list[n] \in EvEvents  OBVIOUS
  <1>2. \A n \in 1..L, t \in S : Step(t, n) \in S  BY <1>1, FireKeeps
  <1>3. FireAll(list, pins, stalls, want) = fired[L]  BY Zenon DEF FireAll
  <1> HIDE DEF S, start, L, Step
  <1>4. F \in Steps(L, S) /\ \A n \in 1..L, t \in S : F[n][t] = Step(t, n)  BY <1>2 DEF Steps
  <1>5. start \in S  BY DEF start, S
  <1> HIDE DEF F
  <1>6. PICK f : Run(f, L, S, start, F)  BY Zenon, <1>1, <1>4, <1>5, StepsExist
  <1>7. Eq(f)
    <2>1. ASSUME NEW n \in 0..L PROVE f[n] = IF n = 0 THEN start ELSE Step(f[n-1], n)
      <3>1. CASE n = 0  BY <1>6, <3>1 DEF Run
      <3>2. CASE n # 0
        <4>1. n \in 1..L /\ n - 1 \in 0..L  BY <1>1, <3>2
        <4>2. f[n-1] \in S /\ f[n] = F[n][f[n-1]]  BY <1>6, <4>1 DEF Run
        <4> QED  BY <1>4, <3>2, <4>1, <4>2
      <3> QED  BY <3>1, <3>2
    <2> QED  BY <1>6, <2>1 DEF Run
  <1>8. Eq(fired)  BY Zenon, <1>7
  <1> HIDE DEF fired
  <1>9. fired[0] \in S  BY <1>1, <1>5, <1>8
  <1>10. ASSUME NEW n \in 1..L, fired[n-1] \in S PROVE fired[n] \in S
    <2>1. n \in 0..L /\ n # 0  BY <1>1
    <2>2. fired[n] = Step(fired[n-1], n)  BY <1>8, <2>1
    <2> QED  BY <1>2, <1>10, <2>2
  <1>11. \A n \in 0..L : fired[n] \in S  BY <1>1, <1>9, <1>10, StepsStay
  <1>12. L \in 0..L  BY <1>1
  <1> QED  BY <1>3, <1>11, <1>12 DEF S

-----------------------------------------------------------------------------
(* One call of the driver, for one pin and for one direction of stalls.    *)
LEMMA LaterLeft ==
    ASSUME NEW w \in Wants
    PROVE  /\ Later(w) \in Wants /\ Later(w).ask = <<>>
           /\ w.ask # <<>> => Later(w).left = w.ask[1] + 1
           /\ w.ask = <<>> => Later(w).left = IF w.left > 0 THEN w.left - 1 ELSE 0
  <1>1. CASE w.ask # <<>>
    <2>1. Later(w) = [ask |-> <<>>, left |-> w.ask[1] + 1]  BY <1>1 DEF Later
    <2>2. w.ask \in Seq(Nat)  BY DEF Wants
    <2>3. w.ask[1] \in Nat /\ <<>> \in Seq(Nat)  BY <1>1, <2>2
    <2> QED  BY <1>1, <2>1, <2>3 DEF Wants
  <1>2. CASE w.ask = <<>>
    <2> DEFINE y == IF w.left > 0 THEN w.left - 1 ELSE 0
    <2>1. Later(w) = [w EXCEPT !.left = y]  BY Zenon, <1>2 DEF Later
    <2>2. y \in Nat  BY DEF Wants
    <2> HIDE DEF y
    <2>3. [w EXCEPT !.left = y] \in Wants /\ [w EXCEPT !.left = y].left = y
          /\ [w EXCEPT !.left = y].ask = w.ask
      BY Zenon, <2>2 DEF Wants
    <2> QED  BY <1>2, <2>1, <2>3 DEF y
  <1> QED  BY <1>1, <1>2

LEMMA PinDriven ==
    ASSUME NEW n \in Pins, NEW p \in PinStates, NEW w \in Wants, PinOK(n, p, w)
    PROVE  DrivePin(n, p) \in PinStates /\ PinOK(n, DrivePin(n, p), Later(w))
  <1>1. /\ p.set \in BOOLEAN /\ p.ready \in BOOLEAN /\ p.delay \in Nat /\ p.on \in BOOLEAN
        /\ w.left \in Nat
    BY DEF PinStates, Wants
  <1>2. /\ Later(w) \in Wants /\ Later(w).ask = <<>>
        /\ w.ask # <<>> => Later(w).left = w.ask[1] + 1
        /\ w.ask = <<>> => Later(w).left = IF w.left > 0 THEN w.left - 1 ELSE 0
    BY LaterLeft
  <1>3. CASE p.set
    <2> DEFINE q == [p EXCEPT !.set = FALSE, !.ready = TRUE, !.on = TRUE]
    <2>1. DrivePin(n, p) = q  BY Zenon, <1>3 DEF DrivePin
    <2>2. q \in PinStates /\ ~q.set /\ q.ready /\ q.on = TRUE /\ q.delay = p.delay
      BY Zenon DEF PinStates
    <2> HIDE DEF q
    <2>3. w.ask # <<>> /\ w.ask[1] = IF n = "warmrst" THEN 0 ELSE p.delay  BY <1>3 DEF PinOK
    <2>4. w.ask[1] \in Nat /\ Later(w).left = w.ask[1] + 1  BY <1>1, <1>2, <2>3
    <2>5. q.on = (Later(w).left > 0)
      <3>1. (Later(w).left > 0) = TRUE  BY <2>4
      <3> QED  BY Zenon, <2>2, <3>1
    <2>6. PinOK(n, q, Later(w))  BY <1>1, <1>2, <2>2, <2>3, <2>4, <2>5 DEF PinOK
    <2> QED  BY <2>1, <2>2, <2>6
  <1>4. CASE ~p.set /\ p.ready /\ (p.delay = 0 \/ n = "warmrst")
    <2> DEFINE q == [p EXCEPT !.ready = FALSE, !.on = FALSE]
    <2>1. DrivePin(n, p) = q
      <3>1. ~(p.delay > 0 /\ n # "warmrst")  BY <1>1, <1>4
      <3> QED  BY Zenon, <1>4, <3>1 DEF DrivePin
    <2>2. q \in PinStates /\ q.set = p.set /\ ~q.ready /\ q.on = FALSE
      BY Zenon DEF PinStates
    <2> HIDE DEF q
    <2>3. w.ask = <<>> /\ w.left = 1  BY <1>4 DEF PinOK
    <2>4. Later(w).left = 0  BY <1>2, <2>3
    <2>5. q.on = (Later(w).left > 0)
      <3>1. (Later(w).left > 0) = FALSE  BY <2>4
      <3> QED  BY Zenon, <2>2, <3>1
    <2>6. PinOK(n, q, Later(w))  BY <1>1, <1>2, <1>4, <2>2, <2>4, <2>5 DEF PinOK
    <2> QED  BY <2>1, <2>2, <2>6
  <1>5. CASE ~p.set /\ p.ready /\ p.delay > 0 /\ n # "warmrst"
    <2> DEFINE q == [p EXCEPT !.delay = p.delay - 1]
    <2>1. DrivePin(n, p) = q
      <3>1. ~(p.delay = 0 \/ n = "warmrst")  BY <1>5
      <3> QED  BY Zenon, <1>1, <1>5, <3>1 DEF DrivePin
    <2>2. p.delay - 1 \in Nat  BY <1>1, <1>5
    <2>3. q \in PinStates /\ q.set = p.set /\ q.ready = p.ready /\ q.on = p.on /\ q.delay = p.delay - 1
      BY Zenon, <2>2 DEF PinStates
    <2> HIDE DEF q
    <2>4. w.ask = <<>> /\ w.left = p.delay + 1  BY <1>5 DEF PinOK
    <2>5. p.on = (w.left > 0)  BY DEF PinOK
    <2>6. PinOK(n, q, Later(w))  BY <1>1, <1>2, <1>5, <2>3, <2>4, <2>5 DEF PinOK
    <2> QED  BY <2>1, <2>3, <2>6
  <1>6. CASE ~p.set /\ ~p.ready
    <2>1. DrivePin(n, p) = p  BY Zenon, <1>6 DEF DrivePin
    <2>2. PinOK(n, p, Later(w))  BY <1>1, <1>2, <1>6 DEF PinOK
    <2> QED  BY <2>1, <2>2
  <1> QED  BY <1>1, <1>3, <1>4, <1>5, <1>6

\* What is driven on one direction by the call that finds s.
Driven(s) == IF s.stall \cup s.ready # {} THEN DriveStall(s)
             ELSE IF s.done THEN [s EXCEPT !.done = FALSE, !.free = {}] ELSE s

LEMMA StallDriven ==
    ASSUME NEW s \in StallStates, NEW want \in [EvPorts -> Wants], NEW held \in SUBSET EvPorts,
           Stalled(s, want, held)
    PROVE  /\ Driven(s) \in StallStates
           /\ Stalled(Driven(s), [i \in EvPorts |-> Later(want[i])], (Driven(s).on \cup held) \ Driven(s).free)
  <1> DEFINE q == Driven(s)
             later == [i \in EvPorts |-> Later(want[i])]
             now == (q.on \cup held) \ q.free
  <1>1. /\ s.stall \in SUBSET EvPorts /\ s.ready \in SUBSET EvPorts /\ s.delay \in [EvPorts -> Nat]
        /\ s.done \in BOOLEAN /\ s.on \in SUBSET EvPorts /\ s.free \in SUBSET EvPorts
    BY DEF StallStates
  <1>2. ASSUME NEW i \in EvPorts
        PROVE  /\ PortOK(s, i, want[i], i \in held) /\ want[i].left \in Nat
               /\ later[i].ask = <<>>
               /\ want[i].ask # <<>> => later[i].left = want[i].ask[1] + 1
               /\ want[i].ask = <<>> => later[i].left = IF want[i].left > 0 THEN want[i].left - 1 ELSE 0
    <2>1. want[i] \in Wants /\ later[i] = Later(want[i])  OBVIOUS
    <2>2. want[i].left \in Nat  BY <2>1 DEF Wants
    <2>3. PortOK(s, i, want[i], i \in held)  BY DEF Stalled
    <2> QED  BY <2>1, <2>2, <2>3, LaterLeft
  <1>3. CASE s.stall \cup s.ready # {}
    <2> DEFINE rel == Releases(s)
               d == [i \in EvPorts |-> IF i \in (s.ready \ s.stall) \ rel THEN s.delay[i] - 1 ELSE s.delay[i]]
               last == {i \in rel : \A j \in s.stall : j < i}
               dn == IF s.stall = {} /\ rel = {} THEN s.done ELSE last # {}
               rd == (s.ready \cup s.stall) \ rel
    <2>1. q = DriveStall(s)  BY <1>3 DEF Driven
    <2>2. rel = {i \in s.ready \ s.stall : s.delay[i] = 0}  BY DEF Releases
    <2>3. d \in [EvPorts -> Nat]
      <3>1. ASSUME NEW i \in EvPorts PROVE d[i] \in Nat  BY <1>1, <2>2
      <3>2. DOMAIN d = EvPorts  OBVIOUS
      <3> HIDE DEF d
      <3>3. d = [i \in EvPorts |-> d[i]]  BY Zenon DEF d
      <3> QED  BY <3>1, <3>3
    <2>4. dn \in BOOLEAN  BY <1>1
    <2>5. q = [s EXCEPT !.stall = {}, !.ready = rd, !.delay = d, !.done = dn, !.on = s.stall, !.free = rel]
      BY Zenon, <2>1 DEF DriveStall
    <2>6. rel \in SUBSET EvPorts /\ rd \in SUBSET EvPorts /\ {} \in SUBSET EvPorts  BY <1>1, <2>2
    <2>7. \A i \in EvPorts : d[i] = IF i \in (s.ready \ s.stall) \ rel THEN s.delay[i] - 1 ELSE s.delay[i]
      OBVIOUS
    <2>8. \A i \in EvPorts : i \in rd <=> (i \in s.ready \/ i \in s.stall) /\ i \notin rel  OBVIOUS
    <2> HIDE DEF rel, d, last, dn, rd, q
    <2>9. q \in StallStates  BY Zenon, <1>1, <2>3, <2>4, <2>5, <2>6 DEF StallStates
    <2>10. q.stall = {} /\ q.ready = rd /\ q.delay = d /\ q.on = s.stall /\ q.free = rel
      BY Zenon, <2>5 DEF StallStates
    <2> HIDE DEF later
    <2>11. ASSUME NEW i \in EvPorts PROVE PortOK(q, i, later[i], i \in now)
      <3>1. /\ PortOK(s, i, want[i], i \in held) /\ want[i].left \in Nat
            /\ later[i].ask = <<>>
            /\ want[i].ask # <<>> => later[i].left = want[i].ask[1] + 1
            /\ want[i].ask = <<>> => later[i].left = IF want[i].left > 0 THEN want[i].left - 1 ELSE 0
        BY <1>2
      <3>2. s.delay[i] \in Nat  BY <1>1
      <3>3. i \in now <=> (i \in s.stall \/ i \in held) /\ i \notin rel  BY <2>10
      <3>4. /\ i \notin q.stall /\ q.delay[i] = d[i]
            /\ i \in q.ready <=> (i \in s.ready \/ i \in s.stall) /\ i \notin rel
        BY <2>8, <2>10
      <3>5. i \in rel <=> i \in s.ready /\ i \notin s.stall /\ s.delay[i] = 0  BY <2>2
      <3> HIDE DEF now
      <3>6. CASE i \in s.stall
        <4>1. want[i].ask # <<>> /\ want[i].ask[1] = s.delay[i]  BY <3>1, <3>6 DEF PortOK
        <4>2. d[i] = s.delay[i] /\ i \notin rel  BY <2>7, <3>5, <3>6
        <4> QED  BY <3>1, <3>2, <3>3, <3>4, <3>6, <4>1, <4>2 DEF PortOK
      <3>7. CASE i \notin s.stall
        <4>1. want[i].ask = <<>>  BY <3>1, <3>7 DEF PortOK
        <4>2. CASE i \in s.ready
          <5>1. want[i].left = s.delay[i] + 1 /\ i \in held  BY <3>1, <3>2, <3>7, <4>1, <4>2 DEF PortOK
          <5>2. d[i] = IF i \in rel THEN s.delay[i] ELSE s.delay[i] - 1  BY <2>7, <3>7, <4>2
          <5>3. later[i].left = s.delay[i]  BY <3>1, <3>2, <4>1, <5>1
          <5> QED  BY <3>1, <3>2, <3>3, <3>4, <3>5, <3>7, <4>2, <5>1, <5>2, <5>3 DEF PortOK
        <4>3. CASE i \notin s.ready
          <5>1. want[i].left = 0 /\ i \notin held  BY <3>1, <4>1, <4>3 DEF PortOK
          <5>2. later[i].left = 0  BY <3>1, <4>1, <5>1
          <5> QED  BY <3>1, <3>3, <3>4, <3>7, <4>3, <5>1, <5>2 DEF PortOK
        <4> QED  BY <4>2, <4>3
      <3> QED  BY <3>6, <3>7
    <2>12. q.stall \cup q.ready = {} => q.on = {}
      <3>1. s.stall \cap rel = {}  BY <2>2
      <3> QED  BY <2>10, <3>1 DEF rd
    <2> HIDE DEF now
    <2>13. Stalled(q, later, now)  BY <2>11, <2>12 DEF Stalled
    <2> QED  BY <2>9, <2>13 DEF q, later, now
  <1>4. CASE s.stall \cup s.ready = {}
    <2>1. q \in StallStates /\ q.stall = s.stall /\ q.ready = s.ready /\ q.on = s.on
      <3>1. CASE s.done
        <4> DEFINE f == [s EXCEPT !.done = FALSE, !.free = {}]
        <4>1. q = f  BY <1>4, <3>1 DEF Driven
        <4>2. {} \in SUBSET EvPorts  OBVIOUS
        <4>3. f \in StallStates /\ f.stall = s.stall /\ f.ready = s.ready /\ f.on = s.on
          BY Zenon, <4>2 DEF StallStates
        <4> QED  BY <4>1, <4>3
      <3>2. CASE ~s.done  BY <1>4, <3>2 DEF Driven
      <3> QED  BY <3>1, <3>2
    <2> HIDE DEF q
    <2>2. s.on = {}  BY <1>4 DEF Stalled
    <2> HIDE DEF later
    <2>3. ASSUME NEW i \in EvPorts PROVE PortOK(q, i, later[i], i \in now)
      <3>1. i \notin s.stall /\ i \notin s.ready  BY <1>4
      <3>2. want[i].ask = <<>> /\ want[i].left = 0 /\ i \notin held  BY <1>2, <3>1 DEF PortOK
      <3>3. i \notin now  BY <2>1, <2>2, <3>2
      <3>4. later[i].ask = <<>> /\ later[i].left = 0  BY <1>2, <3>2
      <3> HIDE DEF now
      <3> QED  BY <2>1, <3>1, <3>3, <3>4 DEF PortOK
    <2> HIDE DEF now
    <2>4. Stalled(q, later, now)  BY <2>1, <2>2, <2>3 DEF Stalled
    <2> QED  BY <2>1, <2>4 DEF q, later, now
  <1> QED  BY <1>3, <1>4

-----------------------------------------------------------------------------
(* The three steps of the events.                                          *)
LEMMA EventParts ==
    /\ EventInv => /\ evPin \in [Pins -> PinStates] /\ evStall \in [Ways2 -> StallStates]
                   /\ evWant \in WantStates /\ evHeld \in [Ways2 -> SUBSET EvPorts]
                   /\ Matched(evPin, evStall, evWant, evHeld)
    /\ /\ evLists \in [DOMAIN evLists -> Seq(EvEvents)]
       /\ evPin \in [Pins -> PinStates] /\ evStall \in [Ways2 -> StallStates]
       /\ evWant \in WantStates /\ evHeld \in [Ways2 -> SUBSET EvPorts]
       /\ Matched(evPin, evStall, evWant, evHeld)
       => EventInv
  BY Zenon DEF EventInv, EventStates

LEMMA ReachKeeps ==
    ASSUME EventInv, NEW pc \in DOMAIN evLists, Reach(pc)
    PROVE  EventInv'
  <1>1. evLists \in [DOMAIN evLists -> Seq(EvEvents)] /\ evLists[pc] \in Seq(EvEvents)
    BY DEF EventInv
  <1>2. evHeld' = evHeld /\ evHeld \in [Ways2 -> SUBSET EvPorts]  BY DEF EventInv, Reach
  <1>3. evLists[pc] # <<>>  BY DEF Reach
  <1>4. CASE evReturns
    <2> DEFINE f == FireAll(evLists[pc], evPin, evStall, evWant)
    <2>1. /\ evLists' = [evLists EXCEPT ![pc] = <<>>]
          /\ evPin' = f[1] /\ evStall' = f[2] /\ evWant' = f[3]
      BY <1>4 DEF Reach
    <2>2. f \in EventStates(evHeld)  BY <1>1, <1>2, FireAllKeeps DEF EventInv
    <2> HIDE DEF f
    <2>3. f = <<f[1], f[2], f[3]>>  BY <2>2 DEF EventStates
    <2>4. evLists' \in [DOMAIN evLists' -> Seq(EvEvents)]
      <3>1. <<>> \in Seq(EvEvents)  OBVIOUS
      <3> QED  BY <1>1, <2>1, <3>1
    <2> QED  BY <1>2, <2>1, <2>2, <2>3, <2>4 DEF EventInv
  <1>5. CASE ~evReturns
    <2>1. /\ evLists' = [evLists EXCEPT ![pc] = Tail(evLists[pc])]
          /\ evPin' = evPin /\ evStall' = evStall /\ evWant' = evWant
      BY <1>5 DEF Reach
    <2>2. Tail(evLists[pc]) \in Seq(EvEvents)  BY <1>1, <1>3
    <2>3. evLists' \in [DOMAIN evLists' -> Seq(EvEvents)]  BY <1>1, <2>1, <2>2
    <2> QED  BY <1>2, <2>1, <2>3 DEF EventInv
  <1> QED  BY <1>4, <1>5

LEMMA CheckerKeeps ==
    ASSUME EventInv, Checker
    PROVE  EventInv'
  <1> DEFINE a == [n \in Pins |-> DrivePin(n, evPin[n])]
             u == [n \in Pins |-> Later(evWant.pin[n])]
             c == [evWant EXCEPT !.pin = u]
  <1>1. /\ evPin \in [Pins -> PinStates] /\ evStall \in [Ways2 -> StallStates]
        /\ evWant \in WantStates /\ evHeld \in [Ways2 -> SUBSET EvPorts]
        /\ Matched(evPin, evStall, evWant, evHeld)
    BY EventParts
  <1>2. evPin' = a /\ evWant' = c /\ evLists' = evLists /\ evStall' = evStall /\ evHeld' = evHeld
    BY DEF Checker
  <1>3. evWant.pin \in [Pins -> Wants]  BY <1>1 DEF WantStates
  <1>4. ASSUME NEW n \in Pins
        PROVE  a[n] \in PinStates /\ u[n] \in Wants /\ PinOK(n, a[n], u[n])
    <2>1. evPin[n] \in PinStates /\ evWant.pin[n] \in Wants  BY <1>1, <1>3
    <2>2. PinOK(n, evPin[n], evWant.pin[n])  BY <1>1 DEF Matched
    <2>3. a[n] = DrivePin(n, evPin[n]) /\ u[n] = Later(evWant.pin[n])  OBVIOUS
    <2> QED  BY <2>1, <2>2, <2>3, PinDriven, LaterLeft
  <1>5. a \in [Pins -> PinStates] /\ u \in [Pins -> Wants]
    <2>1. \A n \in Pins : DrivePin(n, evPin[n]) \in PinStates /\ Later(evWant.pin[n]) \in Wants
      BY <1>4
    <2> QED  BY <2>1
  <1> HIDE DEF a, u
  <1>6. c \in WantStates /\ c.pin = u /\ c.stall = evWant.stall  BY Zenon, <1>1, <1>5 DEF WantStates
  <1> HIDE DEF c
  <1>7. Matched(a, evStall, c, evHeld)  BY <1>1, <1>4, <1>6 DEF Matched
  <1>8. evLists' \in [DOMAIN evLists' -> Seq(EvEvents)]  BY <1>2 DEF EventInv
  <1> QED  BY Zenon, <1>1, <1>2, <1>5, <1>6, <1>7, <1>8 DEF EventInv, EventStates

LEMMA StallCheckerKeeps ==
    ASSUME EventInv, NEW k \in Ways2, StallChecker(k)
    PROVE  EventInv'
  <1> DEFINE s == evStall[k]
             v == [i \in EvPorts |-> Later(evWant.stall[k][i])]
             q == Driven(s)
             h == (q.on \cup evHeld[k]) \ q.free
             b == [evStall EXCEPT ![k] = q]
             d == [evHeld EXCEPT ![k] = h]
             u == [evWant.stall EXCEPT ![k] = v]
             c == [evWant EXCEPT !.stall = u]
  <1>1. /\ evPin \in [Pins -> PinStates] /\ evStall \in [Ways2 -> StallStates]
        /\ evWant \in WantStates /\ evHeld \in [Ways2 -> SUBSET EvPorts]
        /\ Matched(evPin, evStall, evWant, evHeld)
    BY EventParts
  <1>2. evWant.stall \in [Ways2 -> [EvPorts -> Wants]]  BY <1>1 DEF WantStates
  <1>3. /\ s \in StallStates /\ evWant.stall[k] \in [EvPorts -> Wants] /\ evHeld[k] \in SUBSET EvPorts
        /\ Stalled(s, evWant.stall[k], evHeld[k])
    BY <1>1, <1>2 DEF Matched
  <1>4. q \in StallStates /\ Stalled(q, v, h)  BY <1>3, StallDriven
  <1>5. evStall' = b /\ evPin' = evPin /\ evLists' = evLists
    BY DEF StallChecker, Driven
  <1>6. evStall'[k] = q  BY <1>1, <1>5
  <1>7. evHeld' = d  BY Zenon, <1>6 DEF StallChecker
  <1>8. evWant' = c  BY Zenon DEF StallChecker
  <1>9. v \in [EvPorts -> Wants]
    <2>1. \A i \in EvPorts : Later(evWant.stall[k][i]) \in Wants  BY <1>3, LaterLeft
    <2> QED  BY <2>1
  <1>10. h \in SUBSET EvPorts  BY <1>3, <1>4 DEF StallStates
  <1> HIDE DEF v, q, h
  <1>11. b \in [Ways2 -> StallStates] /\ b[k] = q /\ \A m \in Ways2 \ {k} : b[m] = evStall[m]
    BY <1>1, <1>4
  <1>12. u \in [Ways2 -> [EvPorts -> Wants]] /\ u[k] = v /\ \A m \in Ways2 \ {k} : u[m] = evWant.stall[m]
    BY <1>2, <1>9
  <1>13. d \in [Ways2 -> SUBSET EvPorts] /\ d[k] = h /\ \A m \in Ways2 \ {k} : d[m] = evHeld[m]
    BY <1>1, <1>10
  <1> HIDE DEF b, u, d
  <1>14. c \in WantStates /\ c.stall = u /\ c.pin = evWant.pin  BY Zenon, <1>1, <1>12 DEF WantStates
  <1> HIDE DEF c
  <1>15. Matched(evPin, b, c, d)
    <2>1. ASSUME NEW m \in Ways2 PROVE Stalled(b[m], c.stall[m], d[m])
      <3>1. CASE m = k  BY <1>4, <1>11, <1>12, <1>13, <1>14, <3>1
      <3>2. CASE m # k
        <4>1. b[m] = evStall[m] /\ c.stall[m] = evWant.stall[m] /\ d[m] = evHeld[m]
          BY <1>11, <1>12, <1>13, <1>14, <3>2
        <4> QED  BY <1>1, <4>1 DEF Matched
      <3> QED  BY <3>1, <3>2
    <2> QED  BY <1>1, <1>14, <2>1 DEF Matched
  <1>16. evLists' \in [DOMAIN evLists' -> Seq(EvEvents)]  BY <1>5 DEF EventInv
  <1> QED  BY Zenon, <1>1, <1>5, <1>7, <1>8, <1>11, <1>13, <1>14, <1>15, <1>16 DEF EventInv, EventStates

(* Every pin and every stalled destination is where the last event for it  *)
(* and the calls since then put it, whatever the event files ask for.      *)
THEOREM EventInvariance == EvSpec => []EventInv
  <1>1. EvInit => EventInv
    <2> SUFFICES ASSUME EvInit PROVE EventInv  OBVIOUS
    <2>1. evLists \in [DOMAIN evLists -> Seq(EvEvents)]  BY EvAssumption DEF EvInit
    <2> DEFINE p == [set |-> FALSE, ready |-> FALSE, delay |-> 0, on |-> FALSE]
               s == [stall |-> {}, ready |-> {}, delay |-> [i \in EvPorts |-> 0],
                     done |-> FALSE, on |-> {}, free |-> {}]
               w == [ask |-> <<>>, left |-> 0]
    <2>2. /\ evPin = [n \in Pins |-> p] /\ evStall = [k \in Ways2 |-> s] /\ evHeld = [k \in Ways2 |-> {}]
          /\ evWant = [pin |-> [n \in Pins |-> w], stall |-> [k \in Ways2 |-> [i \in EvPorts |-> w]]]
      BY DEF EvInit
    <2>3. w \in Wants /\ w.ask = <<>> /\ w.left = 0
      <3>1. <<>> \in Seq(Nat)  OBVIOUS
      <3> QED  BY <3>1 DEF Wants
    <2>4. p \in PinStates /\ ~p.set /\ ~p.ready /\ p.on = FALSE  BY DEF PinStates
    <2>5. s \in StallStates /\ s.stall = {} /\ s.ready = {} /\ s.on = {}  BY DEF StallStates
    <2> HIDE DEF p, s, w
    <2>6. evPin \in [Pins -> PinStates] /\ evStall \in [Ways2 -> StallStates] /\ evHeld \in [Ways2 -> SUBSET EvPorts]
      BY <2>2, <2>4, <2>5
    <2>7. /\ evWant.pin = [n \in Pins |-> w] /\ evWant.stall = [k \in Ways2 |-> [i \in EvPorts |-> w]]
      BY <2>2
    <2>8. evWant \in WantStates  BY <2>2, <2>3 DEF WantStates
    <2>9. Matched(evPin, evStall, evWant, evHeld)
      <3>1. \A n \in Pins : PinOK(n, evPin[n], evWant.pin[n])
        <4>1. (w.left > 0) = FALSE  BY <2>3
        <4>2. p.on = (w.left > 0)  BY Zenon, <2>4, <4>1
        <4>3. \A n \in Pins : PinOK(n, p, w)  BY <2>3, <2>4, <4>2 DEF PinOK
        <4> QED  BY <2>2, <2>7, <4>3
      <3>2. ASSUME NEW k \in Ways2 PROVE Stalled(evStall[k], evWant.stall[k], evHeld[k])
        <4>1. evStall[k] = s /\ evWant.stall[k] = [i \in EvPorts |-> w] /\ evHeld[k] = {}  BY <2>2, <2>7
        <4>2. ASSUME NEW i \in EvPorts PROVE PortOK(s, i, w, i \in {})  BY <2>3, <2>5 DEF PortOK
        <4> QED  BY <2>5, <4>1, <4>2 DEF Stalled
      <3> QED  BY <3>1, <3>2 DEF Matched
    <2> QED  BY <2>1, <2>6, <2>8, <2>9, EventParts
  <1>2. EventInv /\ [EvNext]_evVars => EventInv'
    <2> SUFFICES ASSUME EventInv, [EvNext]_evVars PROVE EventInv'  OBVIOUS
    <2>1. ASSUME NEW pc \in DOMAIN evLists, Reach(pc) PROVE EventInv'  BY <2>1, ReachKeeps
    <2>2. CASE Checker  BY <2>2, CheckerKeeps
    <2>3. ASSUME NEW k \in Ways2, StallChecker(k) PROVE EventInv'  BY <2>3, StallCheckerKeeps
    <2>4. CASE UNCHANGED evVars  BY <2>4 DEF EventInv, evVars
    <2> QED  BY <2>1, <2>2, <2>3, <2>4 DEF EvNext
  <1> QED  BY <1>1, <1>2, PTL DEF EvSpec

(* A pin is asserted, and a destination stalled, for exactly the calls the *)
(* last event for it asked for.                                            *)
THEOREM EventsHeld == EvSpec => []HeldAsAsked
  <1>1. EventInv => HeldAsAsked
    <2> SUFFICES ASSUME EventInv PROVE HeldAsAsked  OBVIOUS
    <2>1. Matched(evPin, evStall, evWant, evHeld) /\ evHeld \in [Ways2 -> SUBSET EvPorts]  BY EventParts
    <2>2. \A n \in Pins : evPin[n].on = (evWant.pin[n].left > 0)  BY Zenon, <2>1 DEF Matched, PinOK
    <2>3. ASSUME NEW k \in Ways2 PROVE evHeld[k] = {i \in EvPorts : evWant.stall[k][i].left > 0}
      <3>1. \A i \in EvPorts : (i \in evHeld[k]) = (evWant.stall[k][i].left > 0)
        BY Zenon, <2>1 DEF Matched, Stalled, PortOK
      <3> QED  BY <2>1, <3>1
    <2> QED  BY <2>2, <2>3 DEF HeldAsAsked
  <1> QED  BY <1>1, EventInvariance, PTL

-----------------------------------------------------------------------------
(***************************************************************************)
(* The message monitor (Dispmon).                                          *)
(***************************************************************************)
\* Options that name a unit and no instance, and limits that let a first message through.
PlainOptions ==
    /\ \A o \in DmOptions : o.unit # NoUnit /\ o.inst = NoInst
    /\ \A p \in DmPolicies : p.limit["err"] > 0 /\ p.limit["warn"] > 0

DmTypes == {"GENERAL", "DEBUG", "MONITOR2", "none", "WARNING", "ERROR"}
Units == {"default", NoUnit} \cup {o.unit : o \in DmOptions}
DmEntries == [unit : Units, inst : {NoInst}, type : [DmTags -> DmTypes], enable : [DmTags -> BOOLEAN]]
Tables == [Entries -> DmEntries]
DmStates == [table : Tables, failed : BOOLEAN]

\* The unit whose options an entry shows: the default entry and the free ones show those for all.
Owner(T, j) == IF j = 0 THEN NoUnit ELSE T[j].unit

\* k is the last of the options H among the first n, or 0.
Latest(H, n, k) == k \in 0..n /\ (k = 0 \/ k \in H) /\ \A m \in H : m <= n => m <= k

EnableIs(n, u, t, v) ==
    \E k \in 0..n : Latest(Hits(u, t), n, k) /\ v = (IF k = 0 THEN DefaultEnable(t) ELSE dmOptions[k].enable)
TypeIs(n, u, t, v) ==
    \E k \in 0..n : Latest(Retypes(u, t), n, k) /\ v = (IF k = 0 THEN DefaultType(t) ELSE dmOptions[k].type)
Fields(e, u, n) == \A t \in DmTags : EnableIs(n, u, t, e.enable[t]) /\ TypeIs(n, u, t, e.type[t])

(* After n options: the named entries come first, each for a unit of its   *)
(* own, every unit named so far has one, and each shows its last options.  *)
Compact(T) ==
    \A i, j \in Entries \ {0} :
        i < j /\ T[j].unit # NoUnit => T[i].unit # NoUnit /\ T[i].unit # T[j].unit
Listed(T, n) ==
    \A k \in 1..n : dmOptions[k].unit = "all" \/ \E j \in Entries \ {0} : T[j].unit = dmOptions[k].unit
Shown(T, n) == \A j \in Entries : Fields(T[j], Owner(T, j), n)
TableOK(T, n) == Compact(T) /\ Listed(T, n) /\ Shown(T, n)

Plain == PlainOptions /\ dmOptions \in Seq(DmOptions)

LEMMA LatestNext ==
    ASSUME NEW n \in Nat, NEW H \in SUBSET Nat, NEW k, Latest(H, n, k)
    PROVE  /\ n + 1 \in H => Latest(H, n + 1, n + 1)
           /\ n + 1 \notin H => Latest(H, n + 1, k)
  BY DEF Latest

LEMMA OptionParts ==
    ASSUME Plain, NEW n \in 1..Len(dmOptions)
    PROVE  /\ dmOptions[n] \in DmOptions /\ dmOptions[n].unit \in Units
           /\ dmOptions[n].unit # NoUnit /\ dmOptions[n].inst = NoInst
           /\ dmOptions[n].tags \in Int /\ dmOptions[n].tage \in Int /\ dmOptions[n].enable \in BOOLEAN
           /\ dmOptions[n].type \in {"-", "GENERAL", "DEBUG", "WARNING", "ERROR"}
  <1>1. dmOptions[n] \in DmOptions  BY DEF Plain
  <1> QED  BY <1>1, DmAssumption DEF Plain, PlainOptions, Units

\* What an option says of the entry it names, and of another.
LEMMA RetagFields ==
    ASSUME Plain, NEW n \in 1..Len(dmOptions), NEW e \in DmEntries, NEW u,
           Names(dmOptions[n], u), Fields(e, u, n - 1)
    PROVE  /\ Retag(e, dmOptions[n]) \in DmEntries /\ Retag(e, dmOptions[n]).unit = e.unit
           /\ Fields(Retag(e, dmOptions[n]), u, n)
  <1> DEFINE o == dmOptions[n]
             ty == [t \in DmTags |-> IF t \in o.tags..o.tage /\ o.type # "-" THEN o.type ELSE e.type[t]]
             en == [t \in DmTags |-> IF t \in o.tags..o.tage THEN o.enable ELSE e.enable[t]]
             q == [e EXCEPT !.type = ty, !.enable = en]
  <1>1. Retag(e, o) = q  BY Zenon DEF Retag
  <1>2. o.enable \in BOOLEAN /\ o.type \in {"-", "GENERAL", "DEBUG", "WARNING", "ERROR"}  BY OptionParts
  <1>3. e.type \in [DmTags -> DmTypes] /\ e.enable \in [DmTags -> BOOLEAN]  BY DEF DmEntries
  <1>4. ty \in [DmTags -> DmTypes]  BY <1>2, <1>3 DEF DmTypes
  <1>5. en \in [DmTags -> BOOLEAN]  BY <1>2, <1>3
  <1>6. \A t \in DmTags : en[t] = (IF t \in o.tags..o.tage THEN o.enable ELSE e.enable[t])  BY Zenon
  <1>7. \A t \in DmTags : ty[t] = (IF t \in o.tags..o.tage /\ o.type # "-" THEN o.type ELSE e.type[t])  BY Zenon
  <1> HIDE DEF ty, en
  <1>8. q \in DmEntries /\ q.unit = e.unit /\ q.type = ty /\ q.enable = en  BY Zenon, <1>4, <1>5 DEF DmEntries
  <1> HIDE DEF q
  <1>9. n \in Nat /\ n - 1 \in Nat /\ (n - 1) + 1 = n /\ n \in 0..n /\ 0..(n-1) \subseteq 0..n /\ n # 0
    BY DEF Plain
  <1>10. ASSUME NEW t \in DmTags PROVE EnableIs(n, u, t, en[t])
    <2>1. PICK k \in 0..(n-1) : Latest(Hits(u, t), n - 1, k)
                                /\ e.enable[t] = (IF k = 0 THEN DefaultEnable(t) ELSE dmOptions[k].enable)
      BY Zenon DEF Fields, EnableIs
    <2>2. Hits(u, t) \in SUBSET Nat  BY DEF Hits
    <2>3. (n \in Hits(u, t)) = (t \in o.tags..o.tage)  BY DEF Hits
    <2>4. CASE t \in o.tags..o.tage
      <3>1. Latest(Hits(u, t), n, n)  BY <1>9, <2>1, <2>2, <2>3, <2>4, LatestNext
      <3>2. en[t] = (IF n = 0 THEN DefaultEnable(t) ELSE dmOptions[n].enable)  BY Zenon, <1>6, <1>9, <2>4
      <3> QED  BY Zenon, <1>9, <3>1, <3>2 DEF EnableIs
    <2>5. CASE t \notin o.tags..o.tage
      <3>1. Latest(Hits(u, t), n, k)  BY <1>9, <2>1, <2>2, <2>3, <2>5, LatestNext
      <3>2. en[t] = e.enable[t] /\ k \in 0..n  BY <1>6, <1>9, <2>5
      <3> QED  BY Zenon, <2>1, <3>1, <3>2 DEF EnableIs
    <2> QED  BY <2>4, <2>5
  <1>11. ASSUME NEW t \in DmTags PROVE TypeIs(n, u, t, ty[t])
    <2>1. PICK k \in 0..(n-1) : Latest(Retypes(u, t), n - 1, k)
                                /\ e.type[t] = (IF k = 0 THEN DefaultType(t) ELSE dmOptions[k].type)
      BY Zenon DEF Fields, TypeIs
    <2>2. Retypes(u, t) \in SUBSET Nat  BY DEF Hits, Retypes
    <2>3. (n \in Retypes(u, t)) = (t \in o.tags..o.tage /\ o.type # "-")  BY DEF Hits, Retypes
    <2>4. CASE t \in o.tags..o.tage /\ o.type # "-"
      <3>1. Latest(Retypes(u, t), n, n)  BY <1>9, <2>1, <2>2, <2>3, <2>4, LatestNext
      <3>2. ty[t] = (IF n = 0 THEN DefaultType(t) ELSE dmOptions[n].type)  BY Zenon, <1>7, <1>9, <2>4
      <3> QED  BY Zenon, <1>9, <3>1, <3>2 DEF TypeIs
    <2>5. CASE ~(t \in o.tags..o.tage /\ o.type # "-")
      <3>1. Latest(Retypes(u, t), n, k)  BY <1>9, <2>1, <2>2, <2>3, <2>5, LatestNext
      <3>2. ty[t] = e.type[t]  BY Zenon, <1>7, <2>5
      <3>3. k \in 0..n  BY <1>9
      <3> QED  BY Zenon, <2>1, <3>1, <3>2, <3>3 DEF TypeIs
    <2> QED  BY <2>4, <2>5
  <1>12. Fields(q, u, n)  BY Zenon, <1>8, <1>10, <1>11 DEF Fields
  <1> QED  BY Zenon, <1>1, <1>8, <1>12

LEMMA SkipFields ==
    ASSUME Plain, NEW n \in 1..Len(dmOptions), NEW e, NEW u, ~Names(dmOptions[n], u), Fields(e, u, n - 1)
    PROVE  Fields(e, u, n)
  <1>1. n \in Nat /\ n - 1 \in Nat /\ (n - 1) + 1 = n /\ 0..(n-1) \subseteq 0..n  BY DEF Plain
  <1>2. ASSUME NEW t \in DmTags PROVE EnableIs(n, u, t, e.enable[t])
    <2>1. PICK k \in 0..(n-1) : Latest(Hits(u, t), n - 1, k)
                                /\ e.enable[t] = (IF k = 0 THEN DefaultEnable(t) ELSE dmOptions[k].enable)
      BY Zenon DEF Fields, EnableIs
    <2>2. Hits(u, t) \in SUBSET Nat /\ n \notin Hits(u, t) /\ k \in 0..n  BY <1>1 DEF Hits
    <2>3. Latest(Hits(u, t), n, k)  BY <1>1, <2>1, <2>2, LatestNext
    <2> QED  BY Zenon, <2>1, <2>2, <2>3 DEF EnableIs
  <1>3. ASSUME NEW t \in DmTags PROVE TypeIs(n, u, t, e.type[t])
    <2>1. PICK k \in 0..(n-1) : Latest(Retypes(u, t), n - 1, k)
                                /\ e.type[t] = (IF k = 0 THEN DefaultType(t) ELSE dmOptions[k].type)
      BY Zenon DEF Fields, TypeIs
    <2>2. Retypes(u, t) \in SUBSET Nat /\ n \notin Retypes(u, t) /\ k \in 0..n  BY <1>1 DEF Hits, Retypes
    <2>3. Latest(Retypes(u, t), n, k)  BY <1>1, <2>1, <2>2, LatestNext
    <2> QED  BY Zenon, <2>1, <2>2, <2>3 DEF TypeIs
  <1> QED  BY Zenon, <1>2, <1>3 DEF Fields

\* A unit no option has named so far is shown as the units without a name are.
LEMMA UnnamedFields ==
    ASSUME Plain, NEW n \in 0..Len(dmOptions), NEW e, NEW u, Fields(e, NoUnit, n),
           \A k \in 1..n : dmOptions[k].unit # u
    PROVE  Fields(e, u, n)
  <1>1. \A k \in 1..n : Names(dmOptions[k], u) = Names(dmOptions[k], NoUnit)
    BY OptionParts DEF Names, Plain
  <1>2. \A t \in DmTags, k \in 1..n : (k \in Hits(u, t)) = (k \in Hits(NoUnit, t))  BY <1>1 DEF Hits
  <1>3. \A t \in DmTags, k \in 1..n : (k \in Retypes(u, t)) = (k \in Retypes(NoUnit, t))  BY <1>2 DEF Retypes
  <1>4. \A t \in DmTags : Hits(u, t) \subseteq Nat \ {0} /\ Retypes(u, t) \subseteq Nat \ {0}
    BY DEF Hits, Retypes
  <1>5. \A H, G : /\ H \subseteq Nat \ {0}
                  /\ \A k \in 1..n : (k \in H) = (k \in G)
                  => \A k : Latest(G, n, k) => Latest(H, n, k)
    <2>1. n \in Nat  BY DEF Plain
    <2> QED  BY <2>1 DEF Latest
  <1>6. \A t \in DmTags : \A k : Latest(Hits(NoUnit, t), n, k) => Latest(Hits(u, t), n, k)
    BY Zenon, <1>2, <1>4, <1>5
  <1>7. \A t \in DmTags : \A k : Latest(Retypes(NoUnit, t), n, k) => Latest(Retypes(u, t), n, k)
    BY Zenon, <1>3, <1>4, <1>5
  <1> QED  BY Zenon, <1>6, <1>7 DEF Fields, EnableIs, TypeIs

\* The entry of an option: its unit's, or the first free one, with no entry of the unit before.
LEMMA FindFirst ==
    ASSUME Plain, NEW T \in Tables, NEW n \in 1..Len(dmOptions)
    PROVE  LET o == dmOptions[n]
               j == FindEntry(T, o)
           IN  \/ j = MAXUNITS
               \/ /\ j \in Entries \ {0} /\ T[j].unit \in {o.unit, NoUnit}
                  /\ \A i \in 1..j-1 : T[i].unit \notin {o.unit, NoUnit}
  <1> DEFINE o == dmOptions[n]
             Fits(j) == SameUnit(T[j], o) \/ T[j].unit = NoUnit
             Least(j) == Fits(j) /\ \A i \in 1..j-1 : ~Fits(i)
             j == FindEntry(T, o)
             B == {k \in Entries \ {0} : Fits(k)}
  <1>1. \A k \in Entries : T[k].inst = NoInst  BY DEF Tables, DmEntries
  <1>2. \A k \in Entries : Fits(k) = (T[k].unit \in {o.unit, NoUnit})
    BY <1>1, OptionParts DEF SameUnit
  <1>3. CASE B = {}
    <2>1. ~\E k \in Entries \ {0} : Fits(k)  BY <1>3
    <2> HIDE DEF B
    <2>2. j = MAXUNITS  BY Zenon, <2>1 DEF FindEntry
    <2> QED  BY <2>2
  <1>4. CASE B # {}
    <2>1. \E k \in Entries \ {0} : Fits(k)  BY <1>4
    <2>2. PICK k \in B : \A i \in B : k <= i
      <3>1. B \in SUBSET Nat  BY DEF Entries
      <3> HIDE DEF B
      <3> QED  BY <1>4, <3>1, SmallestOf
    <2>3. \A i \in 1..k-1 : i \in Entries \ {0} /\ ~(k <= i)  BY DmAssumption DEF Entries
    <2>4. k \in Entries \ {0} /\ Least(k)  BY <2>2, <2>3
    <2>5. j = CHOOSE i \in Entries \ {0} : Least(i)  BY Zenon, <2>1 DEF FindEntry
    <2> HIDE DEF j, Least
    <2>6. j \in Entries \ {0} /\ Least(j)  BY Zenon, <2>4, <2>5
    <2> HIDE DEF Fits
    <2>7. \A i \in 1..j-1 : i \in Entries  BY <2>6, DmAssumption DEF Entries
    <2>8. /\ j \in Entries \ {0} /\ T[j].unit \in {o.unit, NoUnit}
          /\ \A i \in 1..j-1 : T[i].unit \notin {o.unit, NoUnit}
      BY <1>2, <2>6, <2>7 DEF Least
    <2> QED  BY Zenon, <2>8 DEF j
  <1> QED  BY <1>3, <1>4

LEMMA AllKeeps ==
    ASSUME Plain, NEW T \in Tables, NEW n \in 1..Len(dmOptions), TableOK(T, n - 1), dmOptions[n].unit = "all"
    PROVE  LET X == [i \in Entries |-> Retag(T[i], dmOptions[n])] IN X \in Tables /\ TableOK(X, n)
  <1> DEFINE o == dmOptions[n]
             X == [i \in Entries |-> Retag(T[i], o)]
  <1>1. \A i \in Entries : X[i] = Retag(T[i], o)  BY Zenon
  <1>2. \A i \in Entries : T[i] \in DmEntries /\ Fields(T[i], Owner(T, i), n - 1)
    BY DEF Tables, TableOK, Shown
  <1>3. \A u : Names(o, u)  BY DEF Names
  <1>4. \A i \in Entries : /\ Retag(T[i], o) \in DmEntries /\ Retag(T[i], o).unit = T[i].unit
                           /\ Fields(Retag(T[i], o), Owner(T, i), n)
    BY Zenon, <1>2, <1>3, RetagFields
  <1>5. X \in Tables  BY <1>4 DEF Tables
  <1> HIDE DEF X
  <1>6. \A i \in Entries : X[i].unit = T[i].unit /\ Fields(X[i], Owner(T, i), n)  BY Zenon, <1>1, <1>4
  <1>7. \A i \in Entries : Owner(X, i) = Owner(T, i)  BY Zenon, <1>6 DEF Owner
  <1>8. Compact(X)  BY <1>6 DEF TableOK, Compact
  <1>9. \A k \in 1..n : k = n \/ k \in 1..(n-1)  BY DEF Plain
  <1>10. Listed(X, n)  BY <1>6, <1>9 DEF TableOK, Listed
  <1>11. Shown(X, n)  BY Zenon, <1>6, <1>7 DEF Shown
  <1> QED  BY Zenon, <1>5, <1>8, <1>10, <1>11 DEF TableOK, X

LEMMA OneKeeps ==
    ASSUME Plain, NEW T \in Tables, NEW n \in 1..Len(dmOptions), TableOK(T, n - 1), dmOptions[n].unit # "all",
           NEW j \in Entries \ {0}, T[j].unit \in {dmOptions[n].unit, NoUnit},
           \A i \in 1..j-1 : T[i].unit \notin {dmOptions[n].unit, NoUnit}, NEW e \in DmEntries,
           e.unit = dmOptions[n].unit, e.type = T[j].type, e.enable = T[j].enable
    PROVE  LET X == [T EXCEPT ![j] = Retag(e, dmOptions[n])] IN X \in Tables /\ TableOK(X, n)
  <1> DEFINE o == dmOptions[n]
             q == Retag(e, o)
             X == [T EXCEPT ![j] = q]
  <1>1. n \in Nat /\ n - 1 \in Nat /\ n - 1 \in 0..Len(dmOptions)  BY DEF Plain
  <1>2. o.unit # NoUnit /\ Names(o, o.unit)  BY OptionParts DEF Names
  <1>3. Entries \subseteq Nat /\ \A i \in Entries : i < j /\ i # 0 => i \in 1..j-1
    BY DmAssumption DEF Entries
  <1>4. Compact(T) /\ Listed(T, n - 1) /\ \A i \in Entries : Fields(T[i], Owner(T, i), n - 1)
    BY DEF TableOK, Shown
  <1>5. \A i \in Entries \ {0} : i # j => T[i].unit # o.unit
    <2> SUFFICES ASSUME NEW i \in Entries \ {0}, i # j, T[i].unit = o.unit PROVE FALSE  OBVIOUS
    <2>1. ~(i < j)  BY <1>3
    <2>2. j < i  BY <1>3, <2>1
    <2>3. T[j].unit # NoUnit /\ T[j].unit # T[i].unit  BY <1>2, <1>4, <2>2 DEF Compact
    <2> QED  BY <2>3
  <1>6. Fields(e, o.unit, n - 1)
    <2>1. CASE T[j].unit = o.unit
      <3>1. Fields(T[j], o.unit, n - 1)  BY Zenon, <1>4, <2>1 DEF Owner
      <3> QED  BY Zenon, <3>1 DEF Fields
    <2>2. CASE T[j].unit = NoUnit
      <3>1. \A k \in 1..(n-1) : dmOptions[k].unit # o.unit
        <4> SUFFICES ASSUME NEW k \in 1..(n-1), dmOptions[k].unit = o.unit PROVE FALSE  OBVIOUS
        <4>1. PICK i \in Entries \ {0} : T[i].unit = o.unit  BY <1>4 DEF Listed
        <4> QED  BY <1>2, <1>5, <2>2, <4>1
      <3>2. Fields(T[j], NoUnit, n - 1)  BY Zenon, <1>4, <2>2 DEF Owner
      <3>3. Fields(T[j], o.unit, n - 1)  BY Zenon, <1>1, <3>1, <3>2, UnnamedFields
      <3> QED  BY Zenon, <3>3 DEF Fields
    <2> QED  BY <2>1, <2>2
  <1>7. q \in DmEntries /\ q.unit = o.unit /\ Fields(q, o.unit, n)  BY Zenon, <1>2, <1>6, RetagFields
  <1> HIDE DEF q
  <1>8. X \in Tables  BY <1>7 DEF Tables
  <1>9. X[j] = q /\ \A i \in Entries : i # j => X[i] = T[i]  BY DEF Tables
  <1> HIDE DEF X
  <1>10. Owner(X, j) = o.unit /\ \A i \in Entries : i # j => Owner(X, i) = Owner(T, i)
    BY Zenon, <1>7, <1>9 DEF Owner
  <1>11. \A i \in Entries : i # j => ~Names(o, Owner(T, i))
    BY <1>2, <1>5 DEF Names, Owner
  <1>12. Shown(X, n)
    <2> SUFFICES ASSUME NEW i \in Entries PROVE Fields(X[i], Owner(X, i), n)  BY DEF Shown
    <2>1. CASE i = j  BY Zenon, <1>7, <1>9, <1>10, <2>1
    <2>2. CASE i # j
      <3>1. Fields(T[i], Owner(T, i), n)  BY Zenon, <1>4, <1>11, <2>2, SkipFields
      <3> QED  BY Zenon, <1>9, <1>10, <2>2, <3>1
    <2> QED  BY <2>1, <2>2
  <1>13. Compact(X)
    <2> SUFFICES ASSUME NEW i \in Entries \ {0}, NEW k \in Entries \ {0}, i < k, X[k].unit # NoUnit
                 PROVE  X[i].unit # NoUnit /\ X[i].unit # X[k].unit
      BY DEF Compact
    <2>1. CASE k = j
      <3>1. i # j /\ i \in 1..j-1 /\ X[i] = T[i] /\ X[k].unit = o.unit  BY <1>3, <1>7, <1>9, <2>1
      <3> QED  BY <3>1
    <2>2. CASE i = j
      <3>1. X[i].unit = o.unit /\ k # j  BY <1>3, <1>7, <1>9, <2>2
      <3>2. X[k] = T[k] /\ T[k].unit # o.unit  BY <1>5, <1>9, <3>1
      <3> QED  BY <1>2, <3>1, <3>2
    <2>3. CASE i # j /\ k # j
      <3>1. X[i] = T[i] /\ X[k] = T[k]  BY <1>9, <2>3
      <3> QED  BY <1>4, <3>1 DEF Compact
    <2> QED  BY <2>1, <2>2, <2>3
  <1>14. Listed(X, n)
    <2> SUFFICES ASSUME NEW k \in 1..n, dmOptions[k].unit # "all"
                 PROVE  \E i \in Entries \ {0} : X[i].unit = dmOptions[k].unit
      BY DEF Listed
    <2>1. CASE k = n \/ dmOptions[k].unit = o.unit  BY <1>7, <1>9, <2>1
    <2>2. CASE k # n /\ dmOptions[k].unit # o.unit
      <3>1. k \in 1..(n-1) /\ dmOptions[k].unit # NoUnit  BY <1>1, <2>2, OptionParts
      <3>2. PICK i \in Entries \ {0} : T[i].unit = dmOptions[k].unit  BY <1>4, <3>1 DEF Listed
      <3>3. i # j  BY <2>2, <3>1, <3>2
      <3> QED  BY <1>9, <3>2, <3>3
    <2> QED  BY <2>1, <2>2
  <1> QED  BY Zenon, <1>8, <1>12, <1>13, <1>14 DEF TableOK, X, q

\* The table and the count of options a round of the loop leaves.
Good(n, s) == s.failed \/ TableOK(s.table, n)

LEMMA ApplyKeeps ==
    ASSUME Plain, NEW n \in 1..Len(dmOptions), NEW s \in DmStates, Good(n - 1, s)
    PROVE  ApplyOption(s, dmOptions[n]) \in DmStates /\ Good(n, ApplyOption(s, dmOptions[n]))
  <1> DEFINE o == dmOptions[n]
             T == s.table
             r == ApplyOption(s, o)
             j == FindEntry(T, o)
             named == IF T[j].unit = NoUnit THEN [T[j] EXCEPT !.unit = o.unit, !.inst = o.inst] ELSE T[j]
             f == [s EXCEPT !.failed = TRUE]
  <1>1. T \in Tables /\ s.failed \in BOOLEAN  BY DEF DmStates
  <1>2. f \in DmStates /\ Good(n, f)
    <2>1. f \in DmStates /\ f.failed = TRUE  BY Zenon DEF DmStates
    <2> QED  BY Zenon, <2>1 DEF Good
  <1>3. CASE s.failed
    <2>1. r = s  BY Zenon, <1>3 DEF ApplyOption
    <2> QED  BY Zenon, <1>3, <2>1 DEF Good
  <1> DEFINE bad == (o.unit # "all" /\ j = MAXUNITS) \/ o.tage < o.tags
  <1>5. CASE ~s.failed /\ bad
    <2>1. r = f  BY Zenon, <1>5 DEF ApplyOption
    <2> QED  BY Zenon, <1>2, <2>1
  <1>6. CASE ~s.failed /\ o.unit = "all" /\ ~(o.tage < o.tags)
    <2> DEFINE X == [i \in Entries |-> Retag(T[i], o)]
    <2>1. r = [s EXCEPT !.table = X]  BY Zenon, <1>6 DEF ApplyOption
    <2>2. X \in Tables /\ TableOK(X, n)  BY Zenon, <1>1, <1>6, AllKeeps DEF Good
    <2> HIDE DEF X
    <2>3. r \in DmStates /\ r.table = X  BY Zenon, <2>1, <2>2 DEF DmStates
    <2> QED  BY Zenon, <2>2, <2>3 DEF Good
  <1>7. CASE ~s.failed /\ o.unit # "all" /\ j # MAXUNITS /\ ~(o.tage < o.tags)
    <2> DEFINE X == [T EXCEPT ![j] = Retag(named, o)]
    <2>1. r = [s EXCEPT !.table = X]  BY Zenon, <1>7 DEF ApplyOption
    <2>2. /\ j \in Entries \ {0} /\ T[j].unit \in {o.unit, NoUnit}
          /\ \A i \in 1..j-1 : T[i].unit \notin {o.unit, NoUnit}
      BY Zenon, <1>1, <1>7, FindFirst
    <2> HIDE DEF j
    <2>3. T[j] \in DmEntries  BY <1>1, <2>2 DEF Tables
    <2>4. named \in DmEntries /\ named.unit = o.unit /\ named.type = T[j].type /\ named.enable = T[j].enable
      <3>1. CASE T[j].unit = NoUnit
        <4> DEFINE q == [T[j] EXCEPT !.unit = o.unit, !.inst = o.inst]
        <4>1. named = q  BY Zenon, <3>1
        <4>2. o.unit \in Units /\ o.inst \in {NoInst}  BY OptionParts
        <4>3. q \in DmEntries /\ q.unit = o.unit /\ q.type = T[j].type /\ q.enable = T[j].enable
          BY Zenon, <2>3, <4>2 DEF DmEntries
        <4> QED  BY Zenon, <4>1, <4>3
      <3>2. CASE T[j].unit # NoUnit
        <4>1. T[j].unit = o.unit /\ named = T[j]  BY Zenon, <2>2, <3>2
        <4> QED  BY Zenon, <2>3, <4>1
      <3> QED  BY <3>1, <3>2
    <2>5. TableOK(T, n - 1)  BY Zenon, <1>7 DEF Good
    <2> HIDE DEF named
    <2>6. X \in Tables /\ TableOK(X, n)  BY Zenon, <1>1, <1>7, <2>2, <2>4, <2>5, OneKeeps
    <2> HIDE DEF X
    <2>7. r \in DmStates /\ r.table = X  BY Zenon, <2>1, <2>6 DEF DmStates
    <2> QED  BY Zenon, <2>6, <2>7 DEF Good
  <1> QED  BY <1>3, <1>5, <1>6, <1>7

\* do_init leaves a table that shows every unit its last options, or fails.
LEMMA InitTable ==
    ASSUME Plain
    PROVE  do_init(dmOptions) \in DmStates /\ Good(Len(dmOptions), do_init(dmOptions))
  <1> DEFINE L == Len(dmOptions)
             S == {p \in (0..L) \X DmStates : Good(p[1], p[2])}
             start == [table |-> FreshTable, failed |-> FALSE]
             Step(s, n) == ApplyOption(s, dmOptions[n])
             F == [n \in 1..L |-> [s \in DmStates |-> IF Good(n - 1, s) THEN Step(s, n) ELSE start]]
             Eq(f) == f = [n \in 0..L |-> IF n = 0 THEN start ELSE Step(f[n-1], n)]
             done == CHOOSE f : Eq(f)
  <1>1. L \in Nat  BY DEF Plain
  <1>2. \A n \in 1..L, s \in DmStates : Good(n-1, s) => Step(s, n) \in DmStates /\ Good(n, Step(s, n))
    BY Zenon, ApplyKeeps
  <1>3. do_init(dmOptions) = done[L]  BY Zenon DEF do_init
  <1>4. start \in DmStates /\ Good(0, start)
    <2>1. ASSUME NEW u \in {"default", NoUnit} PROVE FreshEntry(u) \in DmEntries /\ FreshEntry(u).unit = u
      <3>1. u \in Units /\ NoInst \in {NoInst}  BY DEF Units
      <3>2. [t \in DmTags |-> DefaultType(t)] \in [DmTags -> DmTypes]
        BY DmAssumption DEF DefaultType, DmTypes
      <3>3. [t \in DmTags |-> DefaultEnable(t)] \in [DmTags -> BOOLEAN]  BY DEF DefaultEnable
      <3> QED  BY <3>1, <3>2, <3>3 DEF FreshEntry, DmEntries
    <2>2. FreshTable \in Tables  BY <2>1 DEF FreshTable, Tables
    <2>3. ASSUME NEW j \in Entries PROVE Owner(FreshTable, j) = NoUnit /\ Fields(FreshTable[j], NoUnit, 0)
      <3> DEFINE e == FreshEntry(IF j = 0 THEN "default" ELSE NoUnit)
      <3>1. FreshTable[j] = e  BY DEF FreshTable
      <3>2. j # 0 => e.unit = NoUnit  BY <2>1
      <3>3. \A t \in DmTags : e.type[t] = DefaultType(t) /\ e.enable[t] = DefaultEnable(t)
        BY Zenon DEF FreshEntry
      <3>4. 0 \in 0..0 /\ \A t \in DmTags : Latest(Hits(NoUnit, t), 0, 0) /\ Latest(Retypes(NoUnit, t), 0, 0)
        BY DEF Latest, Hits, Retypes
      <3> HIDE DEF e
      <3>5. Fields(e, NoUnit, 0)  BY Zenon, <3>3, <3>4 DEF Fields, EnableIs, TypeIs
      <3> QED  BY Zenon, <3>1, <3>2, <3>5 DEF Owner
    <2>4. Shown(FreshTable, 0)  BY Zenon, <2>3 DEF Shown
    <2>5. Compact(FreshTable)  BY <2>3 DEF Compact, Owner
    <2>6. Listed(FreshTable, 0)  BY DEF Listed
    <2>7. start.table = FreshTable /\ start \in DmStates  BY <2>2 DEF DmStates
    <2> QED  BY Zenon, <2>4, <2>5, <2>6, <2>7 DEF Good, TableOK
  <1> HIDE DEF start, L, Step
  <1>5. F \in Steps(L, DmStates)  BY <1>2, <1>4 DEF Steps
  <1>6. \A n \in 1..L, s \in DmStates : Good(n-1, s) => F[n][s] = Step(s, n)  OBVIOUS
  <1> HIDE DEF F
  <1>7. PICK f : Run(f, L, DmStates, start, F)  BY Zenon, <1>1, <1>4, <1>5, StepsExist
  <1>8. \A n \in 0..L : Good(n, f[n])
    <2> DEFINE g == [n \in 0..L |-> <<n, f[n]>>]
    <2>1. g[0] \in S  BY <1>1, <1>4, <1>7 DEF Run
    <2>2. ASSUME NEW n \in 1..L, g[n-1] \in S PROVE g[n] \in S
      <3>1. n \in 0..L /\ n - 1 \in 0..L /\ n \in 1..L  BY <1>1
      <3>2. g[n-1] = <<n-1, f[n-1]>> /\ g[n] = <<n, f[n]>>  BY <3>1
      <3>3. Good(n-1, f[n-1]) /\ f[n-1] \in DmStates  BY <1>7, <2>2, <3>1, <3>2 DEF Run
      <3>4. f[n] = Step(f[n-1], n)  BY <1>6, <1>7, <3>1, <3>3 DEF Run
      <3>5. Good(n, f[n]) /\ f[n] \in DmStates  BY <1>2, <3>3, <3>4
      <3> QED  BY <3>1, <3>2, <3>5
    <2> HIDE DEF S
    <2>3. \A n \in 0..L : g[n] \in S  BY <1>1, <2>1, <2>2, StepsStay
    <2> QED  BY <2>3 DEF S
  <1>9. Eq(f)
    <2>1. ASSUME NEW n \in 0..L PROVE f[n] = IF n = 0 THEN start ELSE Step(f[n-1], n)
      <3>1. CASE n = 0  BY <1>7, <3>1 DEF Run
      <3>2. CASE n # 0
        <4>1. n \in 1..L /\ n - 1 \in 0..L  BY <1>1, <3>2
        <4>2. f[n-1] \in DmStates /\ f[n] = F[n][f[n-1]] /\ Good(n-1, f[n-1])  BY <1>7, <1>8, <4>1 DEF Run
        <4> QED  BY <1>6, <3>2, <4>1, <4>2
      <3> QED  BY <3>1, <3>2
    <2> QED  BY <1>7, <2>1 DEF Run
  <1>10. Eq(done)  BY Zenon, <1>9
  <1> HIDE DEF done
  <1>11. done[0] = start /\ \A n \in 1..L : done[n] = Step(done[n-1], n)
    <2>1. \A n \in 1..L : n \in 0..L /\ n # 0  BY <1>1
    <2>2. 0 \in 0..L  BY <1>1
    <2> QED  BY <1>10, <2>1, <2>2
  <1>12. \A n \in 0..L : done[n] \in DmStates /\ Good(n, done[n])
    <2> DEFINE g == [n \in 0..L |-> <<n, done[n]>>]
    <2>1. g[0] \in S  BY <1>1, <1>4, <1>11
    <2>2. ASSUME NEW n \in 1..L, g[n-1] \in S PROVE g[n] \in S
      <3>1. n \in 0..L /\ n - 1 \in 0..L /\ n \in 1..L  BY <1>1
      <3>2. g[n-1] = <<n-1, done[n-1]>> /\ g[n] = <<n, done[n]>>  BY <3>1
      <3>3. Good(n-1, done[n-1]) /\ done[n-1] \in DmStates  BY <2>2, <3>2
      <3>4. Good(n, done[n]) /\ done[n] \in DmStates  BY <1>2, <1>11, <3>3
      <3> QED  BY <3>1, <3>2, <3>4
    <2> HIDE DEF S
    <2>3. \A n \in 0..L : g[n] \in S  BY <1>1, <2>1, <2>2, StepsStay
    <2> QED  BY <2>3 DEF S
  <1>13. L \in 0..L  BY <1>1
  <1> QED  BY Zenon, <1>3, <1>12, <1>13 DEF L

\* A finish left pending silences the tags of errors and warnings, and nothing else.
Mutes(D, T) ==
    \A j \in Entries : /\ D[j] \in DmEntries /\ D[j].unit = T[j].unit /\ D[j].type = T[j].type
                       /\ \A t \in DmTags : D[j].enable[t] = (T[j].enable[t] /\ ~Quieted(t))
TableKept ==
    \E T \in Tables, n \in Nat : n = Len(dmOptions) /\ TableOK(T, n) /\ Mutes(dmTable, T)

LEMMA LastIs ==
    ASSUME NEW L \in Nat, NEW H \in SUBSET (1..L), NEW k, Latest(H, L, k)
    PROVE  k = LastOf(H)
  <1>1. CASE H = {}  BY <1>1 DEF Latest, LastOf
  <1>2. CASE H # {}
    <2>1. k \in H /\ \A m \in H : m <= k
      <3>1. \A m \in H : m \in 1..L /\ m <= L  OBVIOUS
      <3>2. k \in 0..L /\ (k = 0 \/ k \in H) /\ \A m \in H : m <= k  BY <3>1 DEF Latest
      <3>3. PICK m \in H : TRUE  BY <1>2
      <3>4. m \in 1..L /\ m <= k  BY <3>1, <3>2
      <3>5. k # 0  BY <3>4
      <3> QED  BY <3>2, <3>5
    <2>2. \A i \in H : (\A m \in H : m <= i) => i = k
      <3> SUFFICES ASSUME NEW i \in H, \A m \in H : m <= i PROVE i = k  OBVIOUS
      <3>1. i <= k /\ k <= i  BY <2>1
      <3> QED  BY <2>1, <3>1
    <2>3. (CHOOSE n \in H : \A m \in H : m <= n) = k  BY Zenon, <2>1, <2>2
    <2>4. LastOf(H) = CHOOSE n \in H : \A m \in H : m <= n  BY <1>2 DEF LastOf
    <2> QED  BY Zenon, <2>3, <2>4
  <1> QED  BY <1>1, <1>2

LEMMA FieldsAsked ==
    ASSUME Plain, NEW e, NEW u, NEW t \in DmTags, Fields(e, u, Len(dmOptions))
    PROVE  e.enable[t] = AskedOf(u, t).enable /\ e.type[t] = AskedOf(u, t).type
  <1> DEFINE a == LastOf(Hits(u, t))
             b == LastOf(Retypes(u, t))
  <1>0. Len(dmOptions) \in Nat /\ Hits(u, t) \in SUBSET (1..Len(dmOptions))
        /\ Retypes(u, t) \in SUBSET (1..Len(dmOptions))
    BY DEF Plain, Hits, Retypes
  <1>1. e.enable[t] = (IF a = 0 THEN DefaultEnable(t) ELSE dmOptions[a].enable)
    BY Zenon, <1>0, LastIs DEF Fields, EnableIs
  <1>2. e.type[t] = (IF b = 0 THEN DefaultType(t) ELSE dmOptions[b].type)
    BY Zenon, <1>0, LastIs DEF Fields, TypeIs
  <1> HIDE DEF a, b
  <1>3. AskedOf(u, t) = [enable |-> IF a = 0 THEN DefaultEnable(t) ELSE dmOptions[a].enable,
                         type |-> IF b = 0 THEN DefaultType(t) ELSE dmOptions[b].type]
    BY Zenon DEF AskedOf, a, b
  <1> QED  BY <1>1, <1>2, <1>3

LEMMA LookupExact ==
    ASSUME Plain, TableKept, NEW unit, unit # NoUnit, unit # "all", NEW inst, NEW tag \in DmTags
    PROVE  LET at == Lookup(unit, inst)
               asked == AskedOf(unit, tag)
           IN  /\ dmTable[at.index].type[tag] = asked.type /\ asked.type \in DmTypes
               /\ Enabled(at, tag) = (asked.enable /\ ~Quieted(tag)) /\ asked.enable \in BOOLEAN
  <1> DEFINE at == Lookup(unit, inst)
             asked == AskedOf(unit, tag)
             Hit(j) == dmTable[j].unit = unit /\ Occurs(dmTable[j].inst, inst)
             Stop(j) == Hit(j) \/ dmTable[j].unit = NoUnit
             Least(j) == Stop(j) /\ \A i \in 1..j-1 : ~Stop(i)
             first == IF \E k \in Entries \ {0} : Stop(k) THEN CHOOSE k \in Entries \ {0} : Least(k) ELSE 0
             L == Len(dmOptions)
  <1>1. PICK T \in Tables : TableOK(T, L) /\ Mutes(dmTable, T)  BY Zenon DEF TableKept
  <1>2. at.index = first /\ (at.listed <=> first # 0 /\ Hit(first))
    <2>1. at = [index |-> first, listed |-> first # 0 /\ Hit(first)]  BY Zenon DEF Lookup
    <2> HIDE DEF at, first, Hit
    <2> QED  BY Zenon, <2>1
  <1>3. L \in Nat /\ L \in 0..L  BY DEF Plain
  <1>0. \A j \in Entries : dmTable[j].inst = NoInst  BY <1>1 DEF Mutes, DmEntries
  <1>4. \A j \in Entries : (Hit(j) <=> T[j].unit = unit) /\ (Stop(j) <=> T[j].unit \in {unit, NoUnit})
    BY <1>1, <1>0 DEF Mutes, Occurs
  <1>5. \A j \in Entries : dmTable[j].type = T[j].type
                           /\ dmTable[j].enable[tag] = (T[j].enable[tag] /\ ~Quieted(tag))
    BY <1>1 DEF Mutes
  <1>6. \A j \in Entries : \A u : Fields(T[j], u, L) =>
            T[j].enable[tag] = AskedOf(u, tag).enable /\ T[j].type[tag] = AskedOf(u, tag).type
    BY Zenon, FieldsAsked
  <1>7. \A j \in Entries : Fields(T[j], Owner(T, j), L)  BY <1>1 DEF TableOK, Shown
  <1>8. 0 \in Entries /\ Entries \subseteq Nat  BY DmAssumption DEF Entries
  <1>9. \A j \in Entries : T[j].type \in [DmTags -> DmTypes] /\ T[j].enable \in [DmTags -> BOOLEAN]
    BY <1>1 DEF Tables, DmEntries
  \* The default entry, and every free one, shows what is asked for a unit without options.
  <1>10. ASSUME \A k \in 1..L : dmOptions[k].unit # unit, NEW j \in Entries, j = 0 \/ T[j].unit = NoUnit
         PROVE  T[j].enable[tag] = asked.enable /\ T[j].type[tag] = asked.type
    <2>1. Fields(T[j], NoUnit, L)  BY Zenon, <1>7, <1>10 DEF Owner
    <2>2. Fields(T[j], unit, L)  BY Zenon, <1>3, <1>10, <2>1, UnnamedFields
    <2> QED  BY Zenon, <1>6, <2>2
  <1>11. ASSUME \A j \in Entries \ {0} : T[j].unit # unit PROVE \A k \in 1..L : dmOptions[k].unit # unit
    BY <1>1, <1>11 DEF TableOK, Listed
  <1>12. asked.type \in DmTypes /\ asked.enable \in BOOLEAN
    <2>1. CASE \A k \in 1..L : dmOptions[k].unit # unit
      <3>1. T[0].enable[tag] = asked.enable /\ T[0].type[tag] = asked.type  BY Zenon, <1>8, <1>10, <2>1
      <3> HIDE DEF asked
      <3> QED  BY <1>8, <1>9, <3>1
    <2>2. CASE ~\A k \in 1..L : dmOptions[k].unit # unit
      <3>1. PICK j \in Entries \ {0} : T[j].unit = unit  BY Zenon, <1>11, <2>2
      <3>2. Owner(T, j) = unit  BY <3>1 DEF Owner
      <3>3. T[j].enable[tag] = asked.enable /\ T[j].type[tag] = asked.type  BY Zenon, <1>6, <1>7, <3>2
      <3> HIDE DEF asked
      <3> QED  BY <1>9, <3>3
    <2> QED  BY <2>1, <2>2
  <1>13. SUFFICES /\ dmTable[at.index].type[tag] = asked.type
                  /\ Enabled(at, tag) = (asked.enable /\ ~Quieted(tag))
    BY Zenon, <1>12
  <1> HIDE DEF asked, L, Hit, Stop
  <1>14. CASE ~\E k \in Entries \ {0} : Stop(k)
    <2>1. first = 0  BY Zenon, <1>14
    <2>2. \A j \in Entries \ {0} : T[j].unit # unit  BY <1>4, <1>14
    <2>3. T[0].enable[tag] = asked.enable /\ T[0].type[tag] = asked.type  BY Zenon, <1>8, <1>10, <1>11, <2>2
    <2> HIDE DEF first
    <2>4. at.index = 0 /\ ~at.listed  BY Zenon, <1>2, <2>1
    <2> HIDE DEF at
    <2>5. Enabled(at, tag) = dmTable[0].enable[tag]  BY Zenon, <2>4 DEF Enabled
    <2> QED  BY Zenon, <1>5, <1>8, <2>3, <2>4, <2>5
  <1>15. CASE \E k \in Entries \ {0} : Stop(k)
    <2> DEFINE B == {k \in Entries \ {0} : Stop(k)}
    <2>1. PICK k \in B : \A i \in B : k <= i
      <3>1. B \in SUBSET Nat /\ B # {}  BY <1>8, <1>15
      <3> HIDE DEF B
      <3> QED  BY <3>1, SmallestOf
    <2>2. \A j \in Entries \ {0} : \A i \in 1..j-1 : i \in Entries \ {0} /\ i < j
      BY DmAssumption DEF Entries
    <2>3. k \in Entries \ {0} /\ Least(k)
      <3>1. \A i \in 1..k-1 : i \in Entries \ {0} /\ ~(k <= i)  BY <1>8, <2>1, <2>2
      <3> QED  BY <2>1, <3>1
    <2>4. first = CHOOSE i \in Entries \ {0} : Least(i)  BY Zenon, <1>15
    <2> HIDE DEF first, Least
    <2>5. first \in Entries \ {0} /\ Least(first)  BY Zenon, <2>3, <2>4
    <2>6. T[first].unit \in {unit, NoUnit} /\ \A i \in 1..first-1 : T[i].unit # unit
      <3>1. Stop(first) /\ \A i \in 1..first-1 : ~Stop(i)  BY Zenon, <2>5 DEF Least
      <3> QED  BY <1>4, <2>2, <2>5, <3>1
    <2>7. at.index = first /\ (at.listed <=> Hit(first))
      <3>1. first # 0  BY <2>5
      <3> QED  BY Zenon, <1>2, <3>1
    <2> HIDE DEF at
    <2>8. CASE T[first].unit = unit
      <3>1. Hit(first)  BY <1>4, <2>5, <2>8
      <3>2. Enabled(at, tag) = dmTable[first].enable[tag]  BY Zenon, <2>7, <3>1 DEF Enabled
      <3>3. Owner(T, first) = unit  BY <2>5, <2>8 DEF Owner
      <3>4. T[first].enable[tag] = asked.enable /\ T[first].type[tag] = asked.type
        BY Zenon, <1>6, <1>7, <2>5, <3>3 DEF asked
      <3> QED  BY Zenon, <1>5, <2>5, <2>7, <3>2, <3>4
    <2>9. CASE T[first].unit = NoUnit
      <3>1. ~Hit(first)  BY <1>4, <2>5, <2>9
      <3>2. Enabled(at, tag) = dmTable[0].enable[tag]  BY Zenon, <2>7, <3>1 DEF Enabled
      <3>3. ASSUME NEW j \in Entries \ {0} PROVE T[j].unit # unit
        <4>1. CASE j < first
          <5>1. j \in 1..first-1  BY <1>8, <2>5, <4>1
          <5> QED  BY <2>6, <5>1
        <4>2. CASE j = first  BY <2>9, <4>2
        <4>3. CASE first < j  BY <1>1, <2>5, <2>9, <4>3 DEF TableOK, Compact
        <4>4. first \in Int /\ j \in Int  BY <1>8, <2>5
        <4>5. j < first \/ j = first \/ first < j  BY <4>4
        <4> QED  BY Zenon, <4>1, <4>2, <4>3, <4>5
      <3>4. /\ T[0].enable[tag] = asked.enable /\ T[0].type[tag] = asked.type
            /\ T[first].enable[tag] = asked.enable /\ T[first].type[tag] = asked.type
        BY Zenon, <1>8, <1>10, <1>11, <2>5, <2>9, <3>3
      <3> QED  BY Zenon, <1>5, <1>8, <2>5, <2>7, <3>2, <3>4
    <2> QED  BY <2>6, <2>8, <2>9
  <1> QED  BY <1>14, <1>15

(* The inductive invariant: the table the options left, silenced while a   *)
(* finish is pending, and nothing counted before there was one.            *)
Kinds2 == {"err", "warn"}
DmTypeOK ==
    /\ dmOptions \in Seq(DmOptions) /\ dmLimit \in [Kinds2 -> Nat \ {0}]
    /\ dmSeen \in [Kinds2 -> Nat] /\ dmPending \in BOOLEAN
Idle == ~dmPending /\ dmSeen["err"] = 0 /\ dmSeen["warn"] = 0 /\ dmLast.shown = FALSE /\ dmLast.asked.shown = FALSE
DmInv ==
    /\ DmTypeOK
    /\ IF dmInit = "yes" THEN TableKept ELSE Idle
    /\ ShownAsAsked

LEMMA TableSame ==
    ASSUME NEW T, NEW n, dmOptions' = dmOptions
    PROVE  TableOK(T, n)' = TableOK(T, n)
  <1>1. \A u, t : Hits(u, t)' = Hits(u, t)  BY DEF Hits, Names
  <1>2. \A u, t : Retypes(u, t)' = Retypes(u, t)  BY <1>1 DEF Retypes
  <1>3. \A u, t, v : EnableIs(n, u, t, v)' <=> EnableIs(n, u, t, v)  BY Zenon, <1>1 DEF EnableIs
  <1>4. \A u, t, v : TypeIs(n, u, t, v)' <=> TypeIs(n, u, t, v)  BY Zenon, <1>2 DEF TypeIs
  <1>5. \A e, u : Fields(e, u, n)' <=> Fields(e, u, n)  BY Zenon, <1>3, <1>4 DEF Fields
  <1>6. Listed(T, n)' <=> Listed(T, n)  BY DEF Listed
  <1> QED  BY Zenon, <1>5, <1>6 DEF TableOK, Shown, Owner, Compact

LEMMA TableStays ==
    ASSUME TableKept, dmOptions' = dmOptions, dmPending \in BOOLEAN,
           \/ dmTable' = dmTable /\ dmPending' = dmPending
           \/ dmTable' = Silenced /\ dmPending' = TRUE
    PROVE  TableKept'
  <1>1. PICK T \in Tables, n \in Nat : n = Len(dmOptions) /\ TableOK(T, n) /\ Mutes(dmTable, T)
    BY Zenon DEF TableKept
  <1>2. TableOK(T, n)' /\ n = Len(dmOptions)'  BY Zenon, <1>1, TableSame
  <1>3. \A j \in Entries :
            /\ dmTable'[j] \in DmEntries /\ dmTable'[j].unit = T[j].unit /\ dmTable'[j].type = T[j].type
            /\ \A t \in DmTags : dmTable'[j].enable[t] = (T[j].enable[t] /\ ~Quieted(t)')
    <2>1. CASE dmTable' = dmTable /\ dmPending' = dmPending
      <3>1. \A t : Quieted(t)' <=> Quieted(t)  BY Zenon, <2>1 DEF Quieted
      <3>2. \A t : (~Quieted(t)') = (~Quieted(t))  BY <3>1
      <3> QED  BY <1>1, <2>1, <3>1 DEF Mutes
    <2>2. CASE dmTable' = Silenced /\ dmPending' = TRUE
      <3> SUFFICES ASSUME NEW j \in Entries
                   PROVE  /\ dmTable'[j] \in DmEntries /\ dmTable'[j].unit = T[j].unit /\ dmTable'[j].type = T[j].type
                          /\ \A t \in DmTags : dmTable'[j].enable[t] = (T[j].enable[t] /\ ~Quieted(t)')
        OBVIOUS
      <3> DEFINE en == [t \in DmTags |-> t \notin {48, 49} /\ dmTable[j].enable[t]]
                 q == [dmTable[j] EXCEPT !.enable = en]
      <3>1. dmTable'[j] = q  BY Zenon, <2>2 DEF Silenced
      <3>2. /\ dmTable[j] \in DmEntries /\ dmTable[j].unit = T[j].unit /\ dmTable[j].type = T[j].type
            /\ \A t \in DmTags : dmTable[j].enable[t] = (T[j].enable[t] /\ ~Quieted(t))
        BY Zenon, <1>1 DEF Mutes
      <3>3. \A t \in DmTags : en[t] = (t \notin {48, 49} /\ dmTable[j].enable[t])  BY Zenon
      <3>4. en \in [DmTags -> BOOLEAN]  OBVIOUS
      <3> HIDE DEF en
      <3>5. q \in DmEntries /\ q.unit = dmTable[j].unit /\ q.type = dmTable[j].type /\ q.enable = en
        BY Zenon, <3>2, <3>4 DEF DmEntries
      <3> HIDE DEF q
      <3>6. \A t : Quieted(t)' <=> t \in {48, 49}  BY <2>2 DEF Quieted
      <3>7. \A t : Quieted(t) => t \in {48, 49}  BY DEF Quieted
      <3>8. \A t \in DmTags : en[t] = (T[j].enable[t] /\ ~Quieted(t)')  BY <3>2, <3>3, <3>6, <3>7
      <3> QED  BY Zenon, <3>1, <3>2, <3>5, <3>8
    <2> QED  BY <2>1, <2>2
  <1>4. Mutes(dmTable, T)'  BY <1>3 DEF Mutes
  <1> QED  BY Zenon, <1>1, <1>2, <1>4 DEF TableKept

\* What a limit does to the table and to the end of the simulation.
LEMMA LimitKeeps ==
    ASSUME NEW finish \in BOOLEAN, dmPending \in BOOLEAN, LimitReached(finish)
    PROVE  /\ \/ dmTable' = dmTable /\ dmPending' = dmPending
              \/ dmTable' = Silenced /\ dmPending' = TRUE
           /\ dmPending => dmPending'
           /\ dmPending' /\ ~dmPending => finish
           /\ finish => dmEnded' = "finish" \/ dmPending'
  <1>1. dmPending' = (dmPending \/ (finish /\ dmExternal))  BY DEF LimitReached
  <1>2. CASE finish /\ dmExternal
    <2>1. dmTable' = Silenced  BY <1>2 DEF LimitReached
    <2>2. dmPending' = TRUE  BY <1>1, <1>2
    <2> QED  BY <1>2, <2>1, <2>2
  <1>3. CASE ~(finish /\ dmExternal)
    <2>1. dmTable' = dmTable  BY <1>3 DEF LimitReached
    <2>2. dmPending' = dmPending  BY <1>1, <1>3
    <2>3. finish => dmEnded' = "finish"  BY <1>3 DEF LimitReached
    <2> QED  BY <1>3, <2>1, <2>2, <2>3
  <1> QED  BY <1>2, <1>3

Over(k) == dmStop[k] = "finish" /\ dmSeen[k] >= dmLimit[k]

\* An error or warning that is shown, and counted unless it is blocked.
LEMMA CountKeeps ==
    ASSUME DmTypeOK, dmCount = dmSeen, NEW k \in Kinds2, NEW blocked \in BOOLEAN, Counted(k, blocked),
           dmSeen' = (IF ~blocked THEN [dmSeen EXCEPT ![k] = @ + 1] ELSE dmSeen),
           dmLimit' = dmLimit, dmStop' = dmStop, dmEnded # "finish",
           dmPending => Over("err") \/ Over("warn"),
           Over("err") \/ Over("warn") => dmPending
    PROVE  /\ dmCount' = dmSeen' /\ dmSeen' \in [Kinds2 -> Nat] /\ dmPending' \in BOOLEAN
           /\ \/ dmTable' = dmTable /\ dmPending' = dmPending
              \/ dmTable' = Silenced /\ dmPending' = TRUE
           /\ dmPending' => Over("err")' \/ Over("warn")'
           /\ Over("err")' \/ Over("warn")' => dmEnded' = "finish" \/ dmPending'
  <1> DEFINE n == IF blocked THEN dmCount[k] ELSE dmCount[k] + 1
             fin == dmStop[k] = "finish"
  <1>1. dmSeen[k] \in Nat /\ dmLimit \in [Kinds2 -> Nat] /\ n \in Nat  BY DEF DmTypeOK
  <1>2. dmCount' = [dmSeen EXCEPT ![k] = n]  BY Zenon DEF Counted
  <1>3. dmSeen' = [dmSeen EXCEPT ![k] = n]
    <2>1. CASE blocked  BY <2>1 DEF DmTypeOK
    <2>2. CASE ~blocked  BY <2>2 DEF DmTypeOK
    <2> QED  BY <2>1, <2>2
  <1>4. n >= dmSeen[k]  BY <1>1
  <1>5. IF n >= dmLimit[k] THEN LimitReached(fin) ELSE UNCHANGED <<dmEnded, dmPending, dmTable>>
    BY Zenon DEF Counted
  <1> HIDE DEF n
  <1>6. dmSeen' \in [Kinds2 -> Nat] /\ dmSeen'[k] = n /\ \A x \in Kinds2 : x # k => dmSeen'[x] = dmSeen[x]
    BY <1>1, <1>3 DEF DmTypeOK
  <1>7. \A x \in Kinds2 : Over(x) => Over(x)'
    <2> SUFFICES ASSUME NEW x \in Kinds2, Over(x) PROVE dmSeen'[x] >= dmLimit[x]  BY DEF Over
    <2>1. dmSeen[x] \in Nat /\ dmLimit[x] \in Nat /\ dmSeen[x] >= dmLimit[x]  BY DEF Over, DmTypeOK
    <2> QED  BY <1>1, <1>4, <1>6, <2>1
  <1>8. \A x \in Kinds2 : x # k /\ Over(x)' => Over(x)  BY <1>6 DEF Over
  <1>9. Over(k)' <=> fin /\ n >= dmLimit[k]  BY <1>6 DEF Over
  <1>10. dmPending \in BOOLEAN /\ fin \in BOOLEAN  BY DEF DmTypeOK
  <1>11. \A x : x \in Kinds2 <=> x = "err" \/ x = "warn"  BY DEF Kinds2
  <1>12. CASE n >= dmLimit[k]
    <2>1. LimitReached(fin)  BY Zenon, <1>5, <1>12
    <2> HIDE DEF fin
    <2>2. /\ \/ dmTable' = dmTable /\ dmPending' = dmPending
             \/ dmTable' = Silenced /\ dmPending' = TRUE
          /\ dmPending => dmPending'
          /\ dmPending' /\ ~dmPending => fin
          /\ fin => dmEnded' = "finish" \/ dmPending'
      BY <1>10, <2>1, LimitKeeps
    <2>3. dmPending' \in BOOLEAN  BY Zenon, <1>10, <2>2
    <2>4. dmPending' => Over("err")' \/ Over("warn")'
      <3>1. CASE dmPending  BY Zenon, <1>7, <1>11, <3>1
      <3>2. CASE ~dmPending
        <4>1. dmPending' => Over(k)'  BY Zenon, <1>9, <1>12, <2>2, <3>2
        <4>2. CASE k = "err"  BY Zenon, <4>1, <4>2
        <4>3. CASE k = "warn"  BY Zenon, <4>1, <4>3
        <4> QED  BY Zenon, <1>11, <4>2, <4>3
      <3> QED  BY <3>1, <3>2
    <2>5. Over("err")' \/ Over("warn")' => dmEnded' = "finish" \/ dmPending'
      BY Zenon, <1>8, <1>9, <1>11, <2>2
    <2> QED  BY Zenon, <1>2, <1>3, <1>6, <2>2, <2>3, <2>4, <2>5
  <1>13. CASE ~(n >= dmLimit[k])
    <2>1. dmEnded' = dmEnded /\ dmPending' = dmPending /\ dmTable' = dmTable  BY Zenon, <1>5, <1>13
    <2>2. dmPending' => Over("err")' \/ Over("warn")'  BY Zenon, <1>7, <1>11, <2>1
    <2>3. Over("err")' \/ Over("warn")' => dmPending'  BY Zenon, <1>8, <1>9, <1>11, <1>13, <2>1
    <2>4. dmPending' \in BOOLEAN  BY Zenon, <1>10, <2>1
    <2> QED  BY Zenon, <1>2, <1>3, <1>6, <2>1, <2>2, <2>3, <2>4
  <1> QED  BY <1>12, <1>13

LEMMA MessageKeeps ==
    ASSUME PlainOptions, DmInv, dmInit = "yes", dmEnded # "finish", NEW unit, ValidName(unit), NEW inst,
           NEW tag \in DmTags, NEW prefix, NEW flags, NEW nl, Message(unit, inst, tag, prefix, flags, nl),
           UNCHANGED <<dmOptions, dmLimit, dmStop, dmInit, dmEnable, dmExternal>>
    PROVE  DmInv'
  <1> DEFINE at == Lookup(unit, inst)
             type == dmTable[at.index].type[tag]
             asked == AskedOf(unit, tag)
             blocked == prefix \in {"-", "%"} \/ "BLOCK_COUNT" \in flags
             loud == type \in {"GENERAL", "DEBUG", "MONITOR1", "MONITOR2"} \/ dmEnable \/ "FORCE" \in flags
             shown == Enabled(at, tag) /\ loud /\ type # "none"
             k == IF type = "ERROR" THEN "err" ELSE "warn"
             due == asked.enable /\ ~Quieted(tag) /\ asked.type # "none"
                    /\ (asked.type \notin {"ERROR", "WARNING"} \/ dmEnable \/ "FORCE" \in flags)
             counts == shown /\ type \in {"ERROR", "WARNING"}
  <1>1. Plain /\ TableKept  BY DEF Plain, DmInv, DmTypeOK
  <1>2. unit # NoUnit /\ unit # "all"  BY DEF ValidName
  <1>3. /\ type = asked.type /\ asked.type \in DmTypes
        /\ Enabled(at, tag) = (asked.enable /\ ~Quieted(tag)) /\ asked.enable \in BOOLEAN
    BY Zenon, <1>1, <1>2, LookupExact
  <1>4. /\ IF counts THEN Counted(k, blocked) ELSE NotCounted
        /\ dmLast' = [shown |-> shown, type |-> type, asked |-> [type |-> asked.type, shown |-> due]]
        /\ dmSeen' = IF ~blocked /\ dmLast'.asked.shown /\ asked.type \in {"ERROR", "WARNING"}
                     THEN [dmSeen EXCEPT ![IF asked.type = "ERROR" THEN "err" ELSE "warn"] = @ + 1] ELSE dmSeen
    BY Zenon DEF Message
  <1> HIDE DEF at, asked
  <1>5. shown <=> due
    <2>1. Enabled(at, tag) <=> asked.enable /\ ~Quieted(tag)  BY Zenon, <1>3
    <2>2. asked.type \in {"GENERAL", "DEBUG", "MONITOR2", "none", "WARNING", "ERROR"}  BY <1>3 DEF DmTypes
    <2> HIDE DEF type
    <2> QED  BY Zenon, <1>3, <2>1, <2>2
  <1> HIDE DEF shown, due, type
  <1>6. dmLast'.asked.shown <=> due
    <2>1. dmLast'.asked.shown = due  BY <1>4
    <2> QED  BY Zenon, <2>1
  <1>7. dmLast'.shown = dmLast'.asked.shown /\ dmLast'.type = dmLast'.asked.type
    <2>1. shown = due  BY <1>5
    <2> QED  BY <1>3, <1>4, <2>1
  <1>8. dmSeen' = (IF counts /\ ~blocked THEN [dmSeen EXCEPT ![k] = @ + 1] ELSE dmSeen)
    <2>1. CASE counts /\ ~blocked  BY Zenon, <1>3, <1>4, <1>5, <1>6, <2>1
    <2>2. CASE ~(counts /\ ~blocked)  BY Zenon, <1>3, <1>4, <1>5, <1>6, <2>2
    <2> QED  BY <2>1, <2>2
  <1> HIDE DEF blocked
  <1>9. DmTypeOK /\ dmCount = dmSeen /\ (dmPending => Over("err") \/ Over("warn"))
        /\ (Over("err") \/ Over("warn") => dmPending)
    BY Zenon DEF DmInv, ShownAsAsked, Over
  <1>10. /\ dmCount' = dmSeen' /\ dmSeen' \in [Kinds2 -> Nat] /\ dmPending' \in BOOLEAN
         /\ \/ dmTable' = dmTable /\ dmPending' = dmPending
            \/ dmTable' = Silenced /\ dmPending' = TRUE
         /\ dmPending' => Over("err")' \/ Over("warn")'
         /\ Over("err")' \/ Over("warn")' => dmEnded' = "finish" \/ dmPending'
    <2>1. CASE counts
      <3>1. k \in Kinds2 /\ blocked \in BOOLEAN  BY DEF Kinds2, blocked
      <3>2. dmSeen' = (IF ~blocked THEN [dmSeen EXCEPT ![k] = @ + 1] ELSE dmSeen)  BY Zenon, <1>8, <2>1
      <3>3. Counted(k, blocked)  BY Zenon, <1>4, <2>1
      <3> HIDE DEF k
      <3> QED  BY Zenon, <1>9, <3>1, <3>2, <3>3, CountKeeps
    <2>2. CASE ~counts
      <3>1. dmSeen' = dmSeen  BY Zenon, <1>8, <2>2
      <3>2. dmCount' = dmCount /\ dmEnded' = dmEnded /\ dmPending' = dmPending /\ dmTable' = dmTable
        BY Zenon, <1>4, <2>2 DEF NotCounted
      <3>3. (Over("err")' <=> Over("err")) /\ (Over("warn")' <=> Over("warn"))  BY <3>1 DEF Over
      <3> QED  BY Zenon, <1>9, <3>1, <3>2, <3>3 DEF DmTypeOK
    <2> QED  BY <2>1, <2>2
  <1>11. TableKept'
    <2>1. dmPending \in BOOLEAN  BY DEF DmInv, DmTypeOK
    <2> QED  BY Zenon, <1>1, <1>10, <2>1, TableStays
  <1>12. DmTypeOK'  BY <1>10 DEF DmInv, DmTypeOK
  <1>13. ShownAsAsked'  BY Zenon, <1>7, <1>10 DEF ShownAsAsked, Over
  <1> QED  BY Zenon, <1>11, <1>12, <1>13 DEF DmInv

\* Steps that change neither the options nor what is counted.
LEMMA QuietKeeps ==
    ASSUME DmInv, UNCHANGED dmOther, dmEnded' = dmEnded \/ dmEnded' = "finish"
    PROVE  DmInv'
  <1>1. /\ dmOptions' = dmOptions /\ dmLimit' = dmLimit /\ dmStop' = dmStop /\ dmTable' = dmTable /\ dmInit' = dmInit
        /\ dmCount' = dmCount /\ dmPending' = dmPending /\ dmLast' = dmLast /\ dmSeen' = dmSeen
    BY DEF dmOther
  <1>2. dmInit = "yes" => TableKept'
    <2> SUFFICES ASSUME dmInit = "yes" PROVE TableKept'  OBVIOUS
    <2>1. TableKept /\ dmPending \in BOOLEAN  BY DEF DmInv, DmTypeOK
    <2> QED  BY Zenon, <1>1, <2>1, TableStays
  <1>3. dmInit # "yes" => Idle'  BY Zenon, <1>1 DEF DmInv, Idle
  <1>4. DmTypeOK'  BY <1>1 DEF DmInv, DmTypeOK
  <1>5. (Over("err")' <=> Over("err")) /\ (Over("warn")' <=> Over("warn"))  BY <1>1 DEF Over
  <1>6. ShownAsAsked'  BY Zenon, <1>1, <1>5 DEF DmInv, ShownAsAsked, Over
  <1> QED  BY Zenon, <1>1, <1>2, <1>3, <1>4, <1>6 DEF DmInv

LEMMA InitKeeps ==
    ASSUME PlainOptions, DmInv, AutoInit
    PROVE  DmInv'
  <1> DEFINE s == do_init(dmOptions)
             n == Len(dmOptions)
  <1>1. Plain /\ n \in Nat  BY DEF Plain, DmInv, DmTypeOK
  <1>2. /\ dmInit = "no" /\ dmTable' = s.table /\ dmInit' = (IF s.failed THEN "failed" ELSE "yes")
        /\ dmOptions' = dmOptions /\ dmLimit' = dmLimit /\ dmStop' = dmStop /\ dmCount' = dmCount
        /\ dmPending' = dmPending /\ dmLast' = dmLast /\ dmSeen' = dmSeen
    BY Zenon DEF AutoInit
  <1>3. s \in DmStates /\ Good(n, s)  BY Zenon, <1>1, InitTable
  <1> HIDE DEF s, n
  <1>4. Idle /\ DmTypeOK  BY <1>2 DEF DmInv
  <1>5. Idle' /\ DmTypeOK'  BY <1>2, <1>4 DEF Idle, DmTypeOK
  <1>6. ~Over("err") /\ ~Over("warn") /\ ~Over("err")' /\ ~Over("warn")'
    <2>1. dmLimit["err"] \in Nat \ {0} /\ dmLimit["warn"] \in Nat \ {0}  BY <1>4 DEF DmTypeOK, Kinds2
    <2> QED  BY <1>2, <1>4, <2>1 DEF Over, Idle
  <1>7. ShownAsAsked'
    <2>1. dmLast'.shown = FALSE /\ dmLast'.asked.shown = FALSE /\ ~dmPending'  BY <1>5 DEF Idle
    <2>2. dmCount' = dmSeen'  BY <1>2 DEF DmInv, ShownAsAsked
    <2> QED  BY Zenon, <1>6, <2>1, <2>2 DEF ShownAsAsked, Over
  <1>8. CASE s.failed
    <2>1. dmInit' # "yes"  BY <1>2, <1>8
    <2> QED  BY Zenon, <1>5, <1>7, <2>1 DEF DmInv
  <1>9. CASE ~s.failed
    <2>1. PICK T \in Tables, m \in Nat : T = s.table /\ m = n /\ TableOK(T, m)
      BY Zenon, <1>1, <1>3, <1>9 DEF DmStates, Good
    <2>2. TableOK(T, m)'  BY Zenon, <1>2, <2>1, TableSame
    <2>3. m = Len(dmOptions)'  BY Zenon, <1>2, <2>1 DEF n
    <2>4. Mutes(dmTable, T)'
      <3>1. \A t : ~Quieted(t)'  BY <1>5 DEF Quieted, Idle
      <3>2. \A j \in Entries : T[j] \in DmEntries /\ T[j].enable \in [DmTags -> BOOLEAN]
        BY DEF Tables, DmEntries
      <3>3. dmTable' = T  BY <1>2, <2>1
      <3> QED  BY <3>1, <3>2, <3>3 DEF Mutes
    <2>5. TableKept'  BY Zenon, <2>2, <2>3, <2>4 DEF TableKept
    <2>6. dmInit' = "yes"  BY Zenon, <1>2, <1>9
    <2> QED  BY Zenon, <1>5, <1>7, <2>5, <2>6 DEF DmInv
  <1> QED  BY <1>8, <1>9

\* The monitor's inductive invariant (do_init, dprintf, $check_mon and the calls of the modules).
THEOREM MessageInvariance == ASSUME PlainOptions PROVE DmSpec => []DmInv
  <1>1. DmInit => DmInv
    <2> SUFFICES ASSUME DmInit PROVE DmInv  OBVIOUS
    <2>1. dmOptions \in Seq(DmOptions)
      <3>1. PICK n \in 0..MaxOptions : dmOptions \in [1..n -> DmOptions]  BY DEF DmInit
      <3> QED  BY <3>1
    <2>2. PICK p \in DmPolicies : dmLimit = p.limit /\ dmStop = p.stop  BY DEF DmInit
    <2>3. dmLimit \in [Kinds2 -> Nat \ {0}]
      <3>1. p.limit \in [{"err", "warn"} -> Int]  BY DmAssumption
      <3> QED  BY <2>2, <3>1 DEF PlainOptions, Kinds2
    <2>4. dmSeen \in [Kinds2 -> Nat] /\ dmSeen["err"] = 0 /\ dmSeen["warn"] = 0 /\ dmCount = dmSeen
      BY DEF DmInit, Kinds2
    <2>5. Idle /\ DmTypeOK /\ dmInit # "yes"  BY <2>1, <2>3, <2>4 DEF DmInit, Idle, DmTypeOK
    <2>6. ShownAsAsked  BY Zenon, <2>4, <2>5 DEF ShownAsAsked, Idle
    <2> QED  BY Zenon, <2>5, <2>6 DEF DmInv
  <1>2. DmInv /\ [DmNext]_dmVars => DmInv'
    <2> SUFFICES ASSUME DmInv, [DmNext]_dmVars PROVE DmInv'  OBVIOUS
    <2>1. CASE AutoInit  BY <2>1, InitKeeps
    <2>2. CASE dprintf
      <3>1. PICK unit \in DmUnits, inst \in DOMAIN Instances, tag \in DmTags, prefix \in {"", "-"},
                 flags \in SUBSET {"FORCE", "BLOCK_COUNT", "WRITEMON"}, nl \in BOOLEAN :
                 ValidName(unit) /\ Message(unit, inst, tag, prefix, flags, nl)
        BY Zenon, <2>2 DEF dprintf
      <3>2. /\ dmInit = "yes" /\ dmEnded # "finish"
            /\ UNCHANGED <<dmOptions, dmLimit, dmStop, dmInit, dmEnable, dmExternal>>
        BY <2>2 DEF dprintf
      <3> QED  BY Zenon, <3>1, <3>2, MessageKeeps
    <2>3. CASE enable_errwarnmon \/ disable_errwarnmon
      <3>1. UNCHANGED dmOther /\ dmEnded' = dmEnded
        BY <2>3 DEF enable_errwarnmon, disable_errwarnmon, errwarnmon
      <3> QED  BY <3>1, QuietKeeps
    <2>4. CASE check_mon \/ writemon_reset \/ module_start
      <3>1. UNCHANGED dmOther /\ dmEnded' = dmEnded  BY <2>4 DEF check_mon, writemon_reset, module_start
      <3> QED  BY <3>1, QuietKeeps
    <2>5. CASE module_end
      <3>1. UNCHANGED dmOther /\ (dmEnded' = dmEnded \/ dmEnded' = "finish")  BY <2>5 DEF module_end
      <3> QED  BY <3>1, QuietKeeps
    <2>6. CASE UNCHANGED dmVars
      <3>1. UNCHANGED dmOther /\ dmEnded' = dmEnded  BY <2>6 DEF dmVars, dmOther
      <3> QED  BY <3>1, QuietKeeps
    <2> QED  BY <2>1, <2>2, <2>3, <2>4, <2>5, <2>6 DEF DmNext
  <1> QED  BY <1>1, <1>2, PTL DEF DmSpec

(* Whatever the options, as long as they name units, a message is shown,   *)
(* typed and counted as the last of them for its unit and tag asks, and    *)
(* the simulation ends, or its finish is pending, exactly at the limit.    *)
THEOREM MessagesAsAsked == ASSUME PlainOptions PROVE DmSpec => []ShownAsAsked
  <1>1. DmInv => ShownAsAsked  BY DEF DmInv
  <1> QED  BY <1>1, MessageInvariance, PTL

-----------------------------------------------------------------------------
(***************************************************************************)
(* The sender of the socket (SasSend).                                     *)
(***************************************************************************)
\* Induction on an initial segment of the naturals, for a set of its members.
LEMMA AllReached ==
    ASSUME NEW L \in Nat, NEW B, 0 \in B, \A n \in 1..L : n - 1 \in B => n \in B
    PROVE  0..L \subseteq B
  <1> DEFINE f == [n \in 0..L |-> n]
  <1>1. f[0] \in B  OBVIOUS
  <1>2. \A n \in 1..L : f[n-1] \in B => f[n] \in B  OBVIOUS
  <1>3. \A n \in 0..L : f[n] \in B
    <2> HIDE DEF f
    <2> QED  BY <1>1, <1>2, StepsStay
  <1> QED  BY <1>3

Bytestrings == Seq(Nat)

LEMMA ByteFacts ==
    ASSUME NEW s \in Bytestrings
    PROVE  Len(s) \in Nat /\ (\A i \in 1..Len(s) : s[i] \in Nat) /\ (s = <<>> <=> Len(s) = 0)
           /\ SubSeq(s, 1, Len(s)) = s
  <1>1. s \in Seq(Nat)  BY DEF Bytestrings
  <1>2. SubSeq(s, 1, Len(s)) = s  BY <1>1, SubSeqFull
  <1> QED  BY <1>1, <1>2

LEMMA Concat ==
    ASSUME NEW s \in Bytestrings, NEW t \in Bytestrings
    PROVE  /\ s \o t \in Bytestrings /\ Len(s \o t) = Len(s) + Len(t)
           /\ \A i \in 1 .. Len(s) + Len(t) : (s \o t)[i] = IF i <= Len(s) THEN s[i] ELSE t[i - Len(s)]
           /\ s \o <<>> = s /\ <<>> \o s = s
  <1>1. s \in Seq(Nat) /\ t \in Seq(Nat)  BY DEF Bytestrings
  <1>2. s \o t \in Seq(Nat) /\ Len(s \o t) = Len(s) + Len(t)
        /\ \A i \in 1 .. Len(s) + Len(t) : (s \o t)[i] = IF i <= Len(s) THEN s[i] ELSE t[i - Len(s)]
    BY <1>1, ConcatProperties
  <1>3. s \o <<>> = s /\ <<>> \o s = s  BY <1>1, ConcatEmptySeq
  <1> QED  BY <1>2, <1>3 DEF Bytestrings

LEMMA Empty == <<>> \in Bytestrings /\ Len(<<>>) = 0 /\ <<>> \o <<>> = <<>>
  <1>1. <<>> \in Bytestrings  BY DEF Bytestrings
  <1> QED  BY <1>1, Concat

LEMMA Assoc ==
    ASSUME NEW s \in Bytestrings, NEW t \in Bytestrings, NEW u \in Bytestrings
    PROVE  (s \o t) \o u = s \o (t \o u)
  <1>1. s \in Seq(Nat) /\ t \in Seq(Nat) /\ u \in Seq(Nat)  BY DEF Bytestrings
  <1> QED  BY <1>1, ConcatAssociative

LEMMA Slice ==
    ASSUME NEW s \in Bytestrings, NEW m \in 1 .. Len(s) + 1, NEW n \in m - 1 .. Len(s)
    PROVE  /\ SubSeq(s, m, n) \in Bytestrings /\ Len(SubSeq(s, m, n)) = n - m + 1
           /\ \A i \in 1 .. n - m + 1 : SubSeq(s, m, n)[i] = s[m + i - 1]
  <1>1. \A i \in m .. n : s[i] \in Nat  BY ByteFacts
  <1>2. Len(s) \in Nat /\ m \in Int /\ n \in Int  BY ByteFacts
  <1>3. SubSeq(s, m, n) \in Seq(Nat) /\ Len(SubSeq(s, m, n)) = (IF m <= n THEN n - m + 1 ELSE 0)
        /\ \A i \in 1 .. n - m + 1 : SubSeq(s, m, n)[i] = s[m + i - 1]
    BY <1>1, <1>2, SubSeqProperties
  <1>4. (IF m <= n THEN n - m + 1 ELSE 0) = n - m + 1  BY <1>2
  <1> QED  BY <1>3, <1>4 DEF Bytestrings

\* A string cut in two.
LEMMA Parted ==
    ASSUME NEW s \in Bytestrings, NEW k \in 0..Len(s)
    PROVE  /\ SubSeq(s, 1, k) \in Bytestrings /\ Len(SubSeq(s, 1, k)) = k
           /\ SubSeq(s, k + 1, Len(s)) \in Bytestrings /\ Len(SubSeq(s, k + 1, Len(s))) = Len(s) - k
           /\ SubSeq(s, 1, k) \o SubSeq(s, k + 1, Len(s)) = s
           /\ k = 0 => SubSeq(s, k + 1, Len(s)) = s
  <1>1. Len(s) \in Nat /\ SubSeq(s, 1, Len(s)) = s  BY ByteFacts
  <1>2. 1 \in 1 .. Len(s) + 1 /\ k \in 1 - 1 .. Len(s) /\ k - 1 + 1 = k  BY <1>1
  <1>3. SubSeq(s, 1, k) \in Bytestrings /\ Len(SubSeq(s, 1, k)) = k  BY <1>2, Slice
  <1>4. k + 1 \in 1 .. Len(s) + 1 /\ Len(s) \in (k + 1) - 1 .. Len(s) /\ Len(s) - (k + 1) + 1 = Len(s) - k  BY <1>1
  <1>5. SubSeq(s, k + 1, Len(s)) \in Bytestrings /\ Len(SubSeq(s, k + 1, Len(s))) = Len(s) - k  BY <1>4, Slice
  <1>6. Len(s) \in k .. Len(s) /\ s \in Seq(Nat)  BY <1>1 DEF Bytestrings
  <1>7. SubSeq(s, 1, k) \o SubSeq(s, k + 1, Len(s)) = SubSeq(s, 1, Len(s))  BY <1>2, <1>6, ConcatAdjacentSubSeq
  <1>8. k = 0 => SubSeq(s, k + 1, Len(s)) = s  BY <1>1
  <1> QED  BY <1>1, <1>3, <1>5, <1>7, <1>8

LEMMA Adjacent ==
    ASSUME NEW s \in Bytestrings, NEW k \in 0..Len(s), NEW n \in k..Len(s)
    PROVE  SubSeq(s, 1, k) \o SubSeq(s, k + 1, n) = SubSeq(s, 1, n)
  <1>1. s \in Seq(Nat) /\ Len(s) \in Nat  BY DEF Bytestrings
  <1>2. 1 \in 1 .. Len(s) + 1 /\ k \in 1 - 1 .. Len(s)  BY <1>1
  <1> QED  BY <1>1, <1>2, ConcatAdjacentSubSeq

\* Two strings of the same length that agree everywhere.
LEMMA Agree ==
    ASSUME NEW s \in Bytestrings, NEW t \in Bytestrings, Len(s) = Len(t), \A i \in 1..Len(s) : s[i] = t[i]
    PROVE  s = t
  <1>1. s \in Seq(Nat) /\ t \in Seq(Nat)  BY DEF Bytestrings
  <1> QED  BY <1>1, SeqEqual

Nodes ==
    {x \in [data : Bytestrings, start : Nat, count : Nat \ {0}] :
        x.start + x.count = Len(x.data) /\ Len(x.data) <= NODE_SIZE}
Senders == [rerv : Bytestrings, active : Seq(Nodes), heap : Nat]

LEMMA NodeFacts ==
    ASSUME NEW x \in Nodes
    PROVE  /\ x.data \in Bytestrings /\ x.start \in Nat /\ x.count \in Nat \ {0}
           /\ x.start + x.count = Len(x.data) /\ Len(x.data) <= NODE_SIZE /\ Len(x.data) \in Nat
           /\ Bytes(x) \in Bytestrings /\ Len(Bytes(x)) = x.count
           /\ \A i \in 1..x.count : Bytes(x)[i] = x.data[x.start + i]
  <1>1. /\ x.data \in Bytestrings /\ x.start \in Nat /\ x.count \in Nat \ {0}
        /\ x.start + x.count = Len(x.data) /\ Len(x.data) <= NODE_SIZE /\ Len(x.data) \in Nat
    <2>1. /\ x.data \in Bytestrings /\ x.start \in Nat /\ x.count \in Nat \ {0}
          /\ x.start + x.count = Len(x.data) /\ Len(x.data) <= NODE_SIZE
      BY DEF Nodes
    <2> QED  BY <2>1, ByteFacts
  <1> DEFINE m == x.start + 1
             n == x.start + x.count
  <1>2. m \in 1 .. Len(x.data) + 1 /\ n \in m - 1 .. Len(x.data) /\ n - m + 1 = x.count /\ m - 1 = x.start
    BY <1>1
  <1>3. Bytes(x) = SubSeq(x.data, m, n)  BY DEF Bytes
  <1>4. \A i \in Int : m + i - 1 = x.start + i  BY <1>1
  <1> HIDE DEF m, n
  <1>5. Bytes(x) \in Bytestrings /\ Len(Bytes(x)) = n - m + 1 /\ \A i \in 1..(n - m + 1) : Bytes(x)[i] = x.data[m + i - 1]
    BY <1>1, <1>2, <1>3, Slice
  <1>6. ASSUME NEW i \in 1..x.count PROVE Bytes(x)[i] = x.data[x.start + i]
    <2>0. i \in Int  BY <1>1
    <2>3. i \in 1..(n - m + 1)  BY <1>2
    <2>4. m + i - 1 = x.start + i  BY <1>4, <2>0
    <2>1. i \in 1..(n - m + 1) /\ m + i - 1 = x.start + i  BY <2>3, <2>4
    <2>2. Bytes(x)[i] = x.data[m + i - 1]  BY <1>5, <2>1
    <2> QED  BY <2>1, <2>2
  <1>7. Bytes(x) \in Bytestrings /\ Len(Bytes(x)) = x.count  BY <1>2, <1>5
  <1> QED  BY <1>1, <1>6, <1>7

\* What the list holds is computed node by node.
Holds(nodes, b) ==
    /\ b \in [0..Len(nodes) -> Bytestrings] /\ b[0] = <<>> /\ b[Len(nodes)] = Waiting(nodes)
    /\ \A n \in 1..Len(nodes) : b[n] = b[n-1] \o Bytes(nodes[n])

LEMMA WaitingByNode ==
    ASSUME NEW nodes \in Seq(Nodes)
    PROVE  \E b : Holds(nodes, b)
  <1> DEFINE L == Len(nodes)
             S == Bytestrings
             F == [n \in 1..L |-> [s \in S |-> s \o Bytes(nodes[n])]]
             Eq(f) == f = [n \in 0..L |-> IF n = 0 THEN <<>> ELSE f[n-1] \o Bytes(nodes[n])]
             b == CHOOSE f : Eq(f)
  <1>1. L \in Nat /\ \A n \in 1..L : nodes[n] \in Nodes  OBVIOUS
  <1>2. \A n \in 1..L : \A s \in S : s \o Bytes(nodes[n]) \in S
    BY <1>1, NodeFacts, Concat
  <1>3. Waiting(nodes) = b[L]  BY Zenon DEF Waiting
  <1>4. <<>> \in S  BY Empty
  <1> HIDE DEF L, S
  <1>5. F \in Steps(L, S) /\ \A n \in 1..L : \A s \in S : F[n][s] = s \o Bytes(nodes[n])
    BY <1>2 DEF Steps
  <1> HIDE DEF F
  <1>6. PICK f : Run(f, L, S, <<>>, F)  BY Zenon, <1>1, <1>4, <1>5, StepsExist
  <1>7. Eq(f)
    <2>1. ASSUME NEW n \in 0..L PROVE f[n] = IF n = 0 THEN <<>> ELSE f[n-1] \o Bytes(nodes[n])
      <3>1. CASE n = 0  BY <1>6, <3>1 DEF Run
      <3>2. CASE n # 0
        <4>1. n \in 1..L /\ n - 1 \in 0..L  BY <1>1, <3>2
        <4>2. f[n-1] \in S /\ f[n] = F[n][f[n-1]]  BY <1>6, <4>1 DEF Run
        <4> QED  BY <1>5, <3>2, <4>1, <4>2
      <3> QED  BY <3>1, <3>2
    <2> QED  BY <1>6, <2>1 DEF Run
  <1>8. Eq(b)  BY Zenon, <1>7
  <1> HIDE DEF b
  <1>9. b[0] = <<>>  BY <1>1, <1>8
  <1>10. \A n \in 1..L : b[n] = b[n-1] \o Bytes(nodes[n])
    <2> SUFFICES ASSUME NEW n \in 1..L PROVE b[n] = b[n-1] \o Bytes(nodes[n])  OBVIOUS
    <2>1. n \in 0..L /\ n # 0  BY <1>1
    <2> QED  BY <1>8, <2>1
  <1>11. \A n \in 1..L : b[n-1] \in S => b[n] \in S  BY <1>2, <1>10
  <1>12. \A n \in 0..L : b[n] \in S  BY <1>1, <1>4, <1>9, <1>11, StepsStay
  <1>13. b \in [0..L -> S]  BY <1>8, <1>12
  <1>14. Holds(nodes, b)  BY Zenon, <1>3, <1>9, <1>10, <1>13 DEF Holds, L, S
  <1> QED  BY <1>14

LEMMA WaitingIs ==
    ASSUME NEW nodes \in Seq(Nodes)
    PROVE  Waiting(nodes) \in Bytestrings
  <1>1. PICK b : Holds(nodes, b)  BY WaitingByNode
  <1> QED  BY <1>1 DEF Holds

LEMMA WaitingNone == Waiting(<<>>) = <<>>
  <1>1. <<>> \in Seq(Nodes) /\ Len(<<>>) = 0  OBVIOUS
  <1>2. PICK b : Holds(<<>>, b)  BY <1>1, WaitingByNode
  <1> QED  BY <1>1, <1>2 DEF Holds

\* A chain determined by its first member and its steps.
LEMMA WaitingUnique ==
    ASSUME NEW nodes \in Seq(Nodes), NEW b, b[0] = <<>>,
           \A n \in 1..Len(nodes) : b[n] = b[n-1] \o Bytes(nodes[n])
    PROVE  Waiting(nodes) = b[Len(nodes)]
  <1>1. PICK c : Holds(nodes, c)  BY WaitingByNode
  <1> DEFINE B == {n \in 0..Len(nodes) : b[n] = c[n]}
  <1>2. 0 \in B  BY <1>1 DEF Holds
  <1>3. \A n \in 1..Len(nodes) : n - 1 \in B => n \in B  BY <1>1 DEF Holds
  <1>4. 0..Len(nodes) \subseteq B
    <2> HIDE DEF B
    <2>1. Len(nodes) \in Nat  OBVIOUS
    <2> QED  BY <1>2, <1>3, <2>1, AllReached
  <1> QED  BY <1>1, <1>4 DEF Holds

LEMMA WaitingOne ==
    ASSUME NEW x \in Nodes
    PROVE  Waiting(<<x>>) = Bytes(x)
  <1> DEFINE b == [n \in 0..1 |-> IF n = 0 THEN <<>> ELSE Bytes(x)]
  <1>1. <<x>> \in Seq(Nodes) /\ Len(<<x>>) = 1 /\ <<x>>[1] = x  OBVIOUS
  <1>2. <<>> \o Bytes(x) = Bytes(x)  BY NodeFacts, Concat
  <1>3. b[0] = <<>> /\ b[1] = Bytes(x)  OBVIOUS
  <1> HIDE DEF b
  <1>4. ASSUME NEW n \in 1..1 PROVE b[n] = b[n-1] \o Bytes(<<x>>[n])
    <2>1. n = 1 /\ n - 1 = 0  OBVIOUS
    <2> QED  BY <1>2, <1>3, <2>1
  <1> QED  BY <1>1, <1>3, <1>4, WaitingUnique

LEMMA WaitingConcat ==
    ASSUME NEW a \in Seq(Nodes), NEW c \in Seq(Nodes)
    PROVE  a \o c \in Seq(Nodes) /\ Waiting(a \o c) = Waiting(a) \o Waiting(c)
  <1>1. PICK p : Holds(a, p)  BY WaitingByNode
  <1>2. PICK q : Holds(c, q)  BY WaitingByNode
  <1> DEFINE A == Len(a)
             N == A + Len(c)
             b == [n \in 0..N |-> IF n <= A THEN p[n] ELSE p[A] \o q[n - A]]
  <1>3. /\ A \in Nat /\ Len(c) \in Nat /\ a \o c \in Seq(Nodes) /\ Len(a \o c) = N
        /\ \A n \in 1..A : (a \o c)[n] = a[n]
        /\ \A n \in A+1..N : (a \o c)[n] = c[n - A]
    BY Concat
  <1>4. p[A] \in Bytestrings /\ p[A] \o q[0] = p[A]
    <2>1. p[A] \in Bytestrings /\ q[0] = <<>>  BY <1>1, <1>2, <1>3 DEF Holds
    <2> QED  BY <2>1, Concat
  <1>5. ASSUME NEW n \in 1..N PROVE b[n] = b[n-1] \o Bytes((a \o c)[n])
    <2>1. CASE n <= A
      <3>1. n \in 1..A /\ b[n] = p[n] /\ b[n-1] = p[n-1]  BY <1>3, <2>1
      <3> QED  BY <1>1, <1>3, <3>1 DEF Holds
    <2>2. CASE n > A
      <3>1. n - A \in 1..Len(c) /\ n - A - 1 = n - 1 - A /\ n - 1 - A \in 0..Len(c)  BY <1>3, <2>2
      <3>0. n \in 0..N /\ ~(n <= A)  BY <1>3, <2>2
      <3>2. b[n] = p[A] \o q[n - A]  BY <3>0
      <3>3. b[n-1] = p[A] \o q[n - 1 - A]
        <4>1. CASE n - 1 = A
          <5>1. n - 1 - A = 0  BY <1>3, <4>1
          <5>2. b[n-1] = p[A]  BY <1>3, <4>1
          <5> QED  BY <1>4, <5>1, <5>2
        <4>2. CASE n - 1 # A
          <5>1. n - 1 \in 0..N /\ ~(n - 1 <= A)  BY <1>3, <2>2, <4>2
          <5> QED  BY <5>1
        <4> QED  BY <4>1, <4>2
      <3>4. q[n - A] = q[n - 1 - A] \o Bytes(c[n - A])  BY <1>2, <3>1 DEF Holds
      <3>5. q[n - 1 - A] \in Bytestrings /\ c[n - A] \in Nodes  BY <1>2, <3>1 DEF Holds
      <3>6. Bytes(c[n - A]) \in Bytestrings  BY <3>5, NodeFacts
      <3>7. p[A] \o (q[n - 1 - A] \o Bytes(c[n - A])) = (p[A] \o q[n - 1 - A]) \o Bytes(c[n - A])
        BY <1>4, <3>5, <3>6, Assoc
      <3>8. (a \o c)[n] = c[n - A]  BY <1>3, <2>2
      <3> QED  BY <3>2, <3>3, <3>4, <3>7, <3>8
    <2>3. n <= A \/ n > A  BY <1>3
    <2> QED  BY <2>1, <2>2, <2>3
  <1>6. b[0] = <<>>  BY <1>1, <1>3 DEF Holds
  <1>7. b[N] = Waiting(a) \o Waiting(c)
    <2>1. CASE N = A
      <3>1. Len(c) = 0 /\ b[N] = p[A]  BY <1>3, <2>1
      <3> QED  BY <1>1, <1>2, <1>4, <3>1 DEF Holds
    <2>2. CASE N # A
      <3>0. N - A = Len(c) /\ N \in 0..N /\ ~(N <= A)  BY <1>3, <2>2
      <3>1. N - A = Len(c) /\ b[N] = p[A] \o q[N - A]  BY <3>0
      <3> QED  BY <1>1, <1>2, <3>1 DEF Holds
    <2> QED  BY <2>1, <2>2
  <1> HIDE DEF b
  <1>8. Waiting(a \o c) = b[N]  BY <1>3, <1>5, <1>6, WaitingUnique
  <1> QED  BY <1>3, <1>7, <1>8


LEMMA Divided ==
    ASSUME NEW a \in Int, NEW d \in Nat \ {0}
    PROVE  a \div d \in Int /\ (a \div d) * d <= a /\ a < (a \div d + 1) * d
  OBVIOUS


\* add_node cuts what is left of a command into nodes.
LEMMA ChunksHold ==
    ASSUME NEW buf \in Bytestrings
    PROVE  /\ Chunks(buf) \in Seq(Nodes) /\ Waiting(Chunks(buf)) = buf
           /\ buf # <<>> => Chunks(buf) # <<>>
  <1> DEFINE L == Len(buf)
             N == (L + NODE_SIZE - 1) \div NODE_SIZE
             Cut(n) == IF n * NODE_SIZE < L THEN n * NODE_SIZE ELSE L
             c == Chunks(buf)
             b == [n \in 0..N |-> SubSeq(buf, 1, Cut(n))]
  <1>1. L \in Nat /\ NODE_SIZE \in Nat \ {0} /\ buf \in Bytestrings  BY SsAssumption
  <1>2. N \in Nat /\ L <= N * NODE_SIZE /\ (L > 0 => N > 0 /\ (N - 1) * NODE_SIZE < L) /\ (L = 0 => N = 0)
    <2> HIDE DEF L
    <2>1. /\ N \in Int /\ N * NODE_SIZE <= L + NODE_SIZE - 1
          /\ L + NODE_SIZE - 1 < (N + 1) * NODE_SIZE
      BY <1>1, Divided
    <2>2. (N + 1) * NODE_SIZE = N * NODE_SIZE + NODE_SIZE /\ (N - 1) * NODE_SIZE = N * NODE_SIZE - NODE_SIZE
      BY <1>1, <2>1
    <2> HIDE DEF N
    <2>3. N * NODE_SIZE \in Int  BY <1>1, <2>1
    <2>4. L <= N * NODE_SIZE /\ (N - 1) * NODE_SIZE < L  BY <1>1, <2>1, <2>2, <2>3
    <2>5. N >= 0
      <3> SUFFICES ASSUME N <= -1 PROVE FALSE  BY <2>1
      <3>1. (N + 1) * NODE_SIZE <= 0  BY <1>1, <2>1
      <3> QED  BY <1>1, <2>1, <3>1
    <2>6. L > 0 => N # 0  BY <1>1, <2>4
    <2>7. L = 0 => N = 0
      <3> SUFFICES ASSUME L = 0, N >= 1 PROVE FALSE  BY <2>1, <2>5
      <3>1. N * NODE_SIZE >= NODE_SIZE  BY <1>1, <2>1
      <3> QED  BY <1>1, <2>1, <2>3, <3>1
    <2> QED  BY <2>1, <2>4, <2>5, <2>6, <2>7
  <1> HIDE DEF L, N
  <1>3. /\ Cut(0) = 0 /\ Cut(N) = L
        /\ \A n \in 1..N : Cut(n-1) = (n-1) * NODE_SIZE /\ Cut(n-1) \in Nat /\ Cut(n) \in Nat
                           /\ Cut(n-1) < Cut(n) /\ Cut(n) <= L /\ Cut(n) - Cut(n-1) <= NODE_SIZE
    <2>1. Cut(0) = 0  BY <1>1
    <2>2. Cut(N) = L  BY <1>1, <1>2
    <2>3. ASSUME NEW n \in 1..N
          PROVE  Cut(n-1) = (n-1) * NODE_SIZE /\ Cut(n-1) \in Nat /\ Cut(n) \in Nat
                 /\ Cut(n-1) < Cut(n) /\ Cut(n) <= L /\ Cut(n) - Cut(n-1) <= NODE_SIZE
      <3>1. n \in Nat /\ n - 1 \in Nat /\ L > 0  BY <1>1, <1>2
      <3>2. (n-1) * NODE_SIZE \in Nat /\ n * NODE_SIZE = (n-1) * NODE_SIZE + NODE_SIZE  BY <1>1, <3>1
      <3>3. (n-1) * NODE_SIZE <= (N-1) * NODE_SIZE
        <4>1. PICK d \in Nat : N - 1 = n - 1 + d
          <5>1. N - n \in Nat /\ N - 1 = n - 1 + (N - n)  BY <1>2
          <5> QED  BY <5>1
        <4>2. (N - 1) * NODE_SIZE = (n - 1) * NODE_SIZE + d * NODE_SIZE  BY <1>1, <3>1, <4>1
        <4>3. d * NODE_SIZE \in Nat  BY <1>1, <4>1
        <4> QED  BY <3>2, <4>2, <4>3
      <3>4. (N-1) * NODE_SIZE \in Int  BY <1>1, <1>2
      <3>5. (n-1) * NODE_SIZE < L  BY <1>1, <1>2, <3>1, <3>2, <3>3, <3>4
      <3> DEFINE x == (n-1) * NODE_SIZE
                 y == n * NODE_SIZE
      <3> HIDE DEF x, y
      <3>6. x \in Nat /\ y = x + NODE_SIZE /\ x < L  BY <3>2, <3>5 DEF x, y
      <3>7. Cut(n-1) = x /\ Cut(n) = IF y < L THEN y ELSE L  BY <3>5 DEF x, y
      <3> HIDE DEF Cut
      <3>8. Cut(n-1) = (n-1) * NODE_SIZE  BY <3>7 DEF x
      <3> QED  BY <1>1, <3>6, <3>7, <3>8
    <2> HIDE DEF Cut
    <2> QED  BY <2>1, <2>2, <2>3
  <1> DEFINE Node(n) == [data |-> SubSeq(buf, (n-1) * NODE_SIZE + 1, Cut(n)), start |-> 0,
                         count |-> Len(SubSeq(buf, (n-1) * NODE_SIZE + 1, Cut(n)))]
  <1>4. c = [n \in 1..N |-> Node(n)]  BY Zenon DEF Chunks, L, N
  <1> HIDE DEF c, Cut
  <1>5. ASSUME NEW n \in 1..N
        PROVE  /\ c[n] \in Nodes /\ Bytes(c[n]) = SubSeq(buf, Cut(n-1) + 1, Cut(n))
               /\ b[n-1] \o Bytes(c[n]) = b[n]
    <2> DEFINE d == SubSeq(buf, Cut(n-1) + 1, Cut(n))
    <2>1. Cut(n-1) \in Nat /\ Cut(n) \in Nat /\ Cut(n-1) < Cut(n) /\ Cut(n) <= L /\ Cut(n) - Cut(n-1) <= NODE_SIZE
      BY <1>3
    <2>2. c[n] = [data |-> d, start |-> 0, count |-> Len(d)]
      <3>1. c[n] = Node(n)  BY <1>4
      <3>2. Cut(n-1) = (n-1) * NODE_SIZE  BY <1>3
      <3> QED  BY Zenon, <3>1, <3>2
    <2>3. d \in Bytestrings /\ Len(d) = Cut(n) - Cut(n-1)
      <3>1. /\ Cut(n-1) + 1 \in 1 .. Len(buf) + 1 /\ Cut(n) \in (Cut(n-1) + 1) - 1 .. Len(buf)
            /\ Cut(n) - (Cut(n-1) + 1) + 1 = Cut(n) - Cut(n-1)
        BY <1>1, <2>1 DEF L
      <3> QED  BY <3>1, Slice
    <2> HIDE DEF d
    <2>4. SubSeq(d, 0 + 1, 0 + Len(d)) = d
      <3>1. Len(d) \in Nat /\ SubSeq(d, 1, Len(d)) = d  BY <2>3, ByteFacts
      <3>2. 0 + 1 = 1 /\ 0 + Len(d) = Len(d)  BY <3>1
      <3> QED  BY <3>1, <3>2
    <2>5. c[n] \in Nodes  BY <1>1, <2>1, <2>2, <2>3 DEF Nodes
    <2>6. Bytes(c[n]) = d  BY <2>2, <2>4 DEF Bytes
    <2>7. SubSeq(buf, 1, Cut(n-1)) \o SubSeq(buf, Cut(n-1) + 1, Cut(n)) = SubSeq(buf, 1, Cut(n))
      <3>1. Cut(n-1) \in 0..Len(buf) /\ Cut(n) \in Cut(n-1)..Len(buf)  BY <1>1, <2>1 DEF L
      <3> QED  BY <3>1, Adjacent
    <2>8. n \in 0..N /\ n - 1 \in 0..N  BY <1>2
    <2> QED  BY <2>5, <2>6, <2>7, <2>8 DEF d
  <1>6. c \in Seq(Nodes) /\ Len(c) = N
    <2>1. c \in [1..N -> Nodes]
      <3> HIDE DEF Node
      <3> QED  BY <1>4, <1>5
    <2> QED  BY <1>2, <2>1
  <1>7. b[0] = <<>>
    <2>1. b[0] = SubSeq(buf, 1, 0)  BY <1>2, <1>3
    <2>2. 0 \in 0..Len(buf)  BY <1>1 DEF L
    <2>3. SubSeq(buf, 1, 0) \in Bytestrings /\ Len(SubSeq(buf, 1, 0)) = 0  BY <2>2, Parted
    <2>4. SubSeq(buf, 1, 0) = <<>>  BY <2>3, ByteFacts
    <2> QED  BY <2>1, <2>4
  <1>8. b[N] = buf
    <2>1. b[N] = SubSeq(buf, 1, Len(buf))  BY <1>2, <1>3 DEF L
    <2> QED  BY <2>1, ByteFacts
  <1> HIDE DEF b
  <1>9. \A n \in 1..Len(c) : b[n] = b[n-1] \o Bytes(c[n])  BY <1>5, <1>6
  <1>10. Waiting(c) = buf  BY <1>6, <1>7, <1>8, <1>9, WaitingUnique
  <1>11. buf # <<>> => c # <<>>  BY <1>1, <1>2, <1>6, ByteFacts DEF L
  <1> QED  BY <1>6, <1>10, <1>11 DEF c

\* One pass of packed moves bytes from the list to the buffer, in their order.
InBuffer(st) == Len(st.rerv) <= CMD_BUFSIZE
Stream(st) == st.rerv \o Waiting(st.active)

LEMMA SenderFacts ==
    ASSUME NEW st \in Senders
    PROVE  /\ st.rerv \in Bytestrings /\ Len(st.rerv) \in Nat /\ st.active \in Seq(Nodes) /\ st.heap \in Nat
           /\ Waiting(st.active) \in Bytestrings /\ Stream(st) \in Bytestrings
  <1>1. st.rerv \in Bytestrings /\ st.active \in Seq(Nodes) /\ st.heap \in Nat  BY DEF Senders
  <1>2. Waiting(st.active) \in Bytestrings  BY <1>1, WaitingIs
  <1> QED  BY <1>1, <1>2, Concat DEF Stream

LEMMA FirstNode ==
    ASSUME NEW nodes \in Seq(Nodes), nodes # <<>>
    PROVE  /\ Head(nodes) \in Nodes /\ Tail(nodes) \in Seq(Nodes) /\ Len(Tail(nodes)) = Len(nodes) - 1
           /\ nodes = <<Head(nodes)>> \o Tail(nodes)
           /\ Waiting(nodes) = Bytes(Head(nodes)) \o Waiting(Tail(nodes))
  <1>1. Head(nodes) \in Nodes /\ Tail(nodes) \in Seq(Nodes) /\ Len(Tail(nodes)) = Len(nodes) - 1
    BY HeadTailProperties
  <1> DEFINE h == Head(nodes)
             t == Tail(nodes)
  <1>2. <<h>> \in Seq(Nodes)  BY <1>1
  <1>3. nodes = <<h>> \o t
    <2>1. SubSeq(nodes, 1, Len(nodes)) = nodes  BY SubSeqFull
    <2>2. SubSeq(nodes, 1, Len(nodes)) = <<nodes[1]>> \o SubSeq(nodes, 2, Len(nodes))
      <3>1. 1 \in 1..Len(nodes) /\ Len(nodes) \in 1..Len(nodes) /\ 1 + 1 = 2  OBVIOUS
      <3> QED  BY <3>1, SubSeqRecursiveFirst
    <2>3. t = SubSeq(nodes, 2, Len(nodes)) /\ h = nodes[1]  BY TailIsSubSeq
    <2> QED  BY <2>1, <2>2, <2>3
  <1>4. Waiting(<<h>> \o t) = Waiting(<<h>>) \o Waiting(t)  BY <1>1, <1>2, WaitingConcat
  <1>5. Waiting(<<h>>) = Bytes(h)  BY <1>1, WaitingOne
  <1> QED  BY <1>1, <1>3, <1>4, <1>5

LEMMA MovedKeeps ==
    ASSUME NEW st \in Senders, InBuffer(st)
    PROVE  /\ Moved(st) \in Senders /\ InBuffer(Moved(st)) /\ Stream(Moved(st)) = Stream(st)
           /\ Len(st.rerv) = CMD_BUFSIZE => Moved(st) = st
           /\ \/ Len(Moved(st).rerv) = CMD_BUFSIZE
              \/ Moved(st).active = <<>> /\ st.active = <<>>
              \/ Len(Moved(st).active) = Len(st.active) - 1
  <1> DEFINE node == Head(st.active)
             room == CMD_BUFSIZE - Len(st.rerv)
             rest == [data |-> node.data, start |-> node.start + room, count |-> node.count - room]
             tail == Tail(st.active)
  <1>1. /\ st.rerv \in Bytestrings /\ Len(st.rerv) \in Nat /\ st.active \in Seq(Nodes) /\ st.heap \in Nat
        /\ room \in Nat
    BY SenderFacts, SsAssumption DEF InBuffer
  <1>2. CASE st.active = <<>> \/ room = 0
    <2>1. Moved(st) = st  BY <1>2 DEF Moved
    <2> QED  BY <1>1, <1>2, <2>1, SsAssumption DEF InBuffer
  <1>3. CASE st.active # <<>> /\ room # 0 /\ node.count <= room
    <2> DEFINE m == [rerv |-> st.rerv \o Bytes(node), active |-> tail, heap |-> st.heap + 1]
    <2>1. Moved(st) = m  BY Zenon, <1>3 DEF Moved
    <2>2. /\ node \in Nodes /\ tail \in Seq(Nodes) /\ Len(tail) = Len(st.active) - 1
          /\ Waiting(st.active) = Bytes(node) \o Waiting(tail)
      BY <1>1, <1>3, FirstNode
    <2>3. Bytes(node) \in Bytestrings /\ Len(Bytes(node)) = node.count /\ node.count \in Nat
      BY <2>2, NodeFacts
    <2>4. Waiting(tail) \in Bytestrings  BY <2>2, WaitingIs
    <2> HIDE DEF node, tail
    <2>5. st.rerv \o Bytes(node) \in Bytestrings /\ Len(st.rerv \o Bytes(node)) = Len(st.rerv) + node.count
      BY <1>1, <2>3, Concat
    <2>6. m \in Senders  BY <1>1, <2>2, <2>5 DEF Senders
    <2>7. InBuffer(m)  BY <1>1, <1>3, <2>3, <2>5, SsAssumption DEF InBuffer
    <2>8. Stream(m) = Stream(st)
      <3>1. (st.rerv \o Bytes(node)) \o Waiting(tail) = st.rerv \o (Bytes(node) \o Waiting(tail))
        BY Zenon, <1>1, <2>3, <2>4, Assoc
      <3> QED  BY Zenon, <2>2, <3>1 DEF Stream
    <2>9. room # 0 => Len(st.rerv) # CMD_BUFSIZE  BY <1>1, SsAssumption
    <2>10. m.active = tail  OBVIOUS
    <2> QED  BY <1>3, <2>1, <2>2, <2>6, <2>7, <2>8, <2>9, <2>10
  <1>4. CASE st.active # <<>> /\ room # 0 /\ ~(node.count <= room)
    <2> DEFINE part == SubSeq(Bytes(node), 1, room)
               m == [rerv |-> st.rerv \o part, active |-> <<rest>> \o tail, heap |-> st.heap]
    <2>1. Moved(st) = m  BY Zenon, <1>4 DEF Moved
    <2>2. /\ node \in Nodes /\ tail \in Seq(Nodes) /\ Len(tail) = Len(st.active) - 1
          /\ Waiting(st.active) = Bytes(node) \o Waiting(tail)
      BY <1>1, <1>4, FirstNode
    <2>3. /\ Bytes(node) \in Bytestrings /\ Len(Bytes(node)) = node.count /\ node.count \in Nat \ {0}
          /\ node.data \in Bytestrings /\ node.start \in Nat /\ node.start + node.count = Len(node.data)
          /\ Len(node.data) <= NODE_SIZE /\ \A i \in 1..node.count : Bytes(node)[i] = node.data[node.start + i]
      BY <2>2, NodeFacts
    <2>4. Waiting(tail) \in Bytestrings  BY <2>2, WaitingIs
    <2>5. rest \in Nodes /\ room < node.count
      <3> DEFINE c == node.count
                 b == node.start
                 l == Len(node.data)
      <3>2. c \in Nat \ {0} /\ b \in Nat /\ b + c = l  BY <2>3
      <3>3. room \in Nat /\ ~(c <= room)  BY <1>1, <1>4
      <3>4. room < c /\ b + room \in Nat /\ c - room \in Nat \ {0} /\ (b + room) + (c - room) = l
        <4> HIDE DEF room, c, b, l
        <4> QED  BY <3>2, <3>3
      <3>1. /\ room < node.count /\ node.start + room \in Nat /\ node.count - room \in Nat \ {0}
            /\ (node.start + room) + (node.count - room) = Len(node.data)
        BY Zenon, <3>4
      <3> HIDE DEF room, node
      <3> QED  BY <2>3, <3>1 DEF Nodes
    <2>6. Bytes(rest) = SubSeq(Bytes(node), room + 1, node.count)
      <3>1. Bytes(rest) \in Bytestrings /\ Len(Bytes(rest)) = node.count - room
            /\ \A i \in 1..(node.count - room) : Bytes(rest)[i] = node.data[node.start + room + i]
        BY <2>5, NodeFacts
      <3> DEFINE m1 == room + 1
                 w == Bytes(node)
                 n1 == node.count
                 u == SubSeq(w, m1, n1)
      <3>2. /\ m1 \in 1 .. Len(w) + 1 /\ n1 \in m1 - 1 .. Len(w)
            /\ n1 - m1 + 1 = node.count - room /\ \A i \in Int : m1 + i - 1 = room + i
        BY <1>1, <2>3, <2>5
      <3>3. u \in Bytestrings /\ Len(u) = node.count - room
            /\ \A i \in 1..(node.count - room) : u[i] = w[room + i]
        <4>1. w \in Bytestrings  BY <2>3
        <4> HIDE DEF m1, n1, w
        <4>2. u \in Bytestrings /\ Len(u) = n1 - m1 + 1 /\ \A i \in 1..(n1 - m1 + 1) : u[i] = w[m1 + i - 1]
          BY <3>2, <4>1, Slice
        <4> HIDE DEF u
        <4>3. \A i \in 1..(node.count - room) : u[i] = w[room + i]
          <5> SUFFICES ASSUME NEW i \in 1..(node.count - room) PROVE u[i] = w[room + i]  OBVIOUS
          <5>1. i \in 1..(n1 - m1 + 1) /\ m1 + i - 1 = room + i  BY <3>2
          <5>2. u[i] = w[m1 + i - 1]  BY <4>2, <5>1
          <5> QED  BY <5>1, <5>2
        <4> QED  BY <3>2, <4>2, <4>3
      <3>4. \A i \in 1..(node.count - room) : Bytes(rest)[i] = u[i]
        <4> SUFFICES ASSUME NEW i \in 1..(node.count - room) PROVE Bytes(rest)[i] = u[i]  OBVIOUS
        <4>1. room + i \in 1..node.count /\ node.start + (room + i) = node.start + room + i  BY <1>1, <2>3
        <4> HIDE DEF u, rest
        <4> QED  BY <2>3, <3>1, <3>3, <4>1
      <3> HIDE DEF u, rest
      <3>5. Bytes(rest) = u  BY <3>1, <3>3, <3>4, Agree
      <3> QED  BY <3>5 DEF u
    <2>7. part \o Bytes(rest) = Bytes(node)
      <3>1. room \in 0 .. Len(Bytes(node)) /\ Bytes(node) \in Bytestrings  BY <1>1, <2>3, <2>5
      <3>2. part \o SubSeq(Bytes(node), room + 1, Len(Bytes(node))) = Bytes(node)  BY <3>1, Parted
      <3> QED  BY <2>3, <2>6, <3>2
    <2>8. part \in Bytestrings /\ Len(part) = room
      <3>1. room \in 0 .. Len(Bytes(node))  BY <1>1, <2>3, <2>5
      <3> QED  BY <2>3, <3>1, Parted
    <2>9. /\ <<rest>> \in Seq(Nodes) /\ <<rest>> \o tail \in Seq(Nodes)
          /\ Waiting(<<rest>> \o tail) = Bytes(rest) \o Waiting(tail)
      <3>1. <<rest>> \in Seq(Nodes)  BY <2>5
      <3>2. Waiting(<<rest>>) = Bytes(rest)  BY <2>5, WaitingOne
      <3> HIDE DEF rest
      <3> QED  BY <2>2, <3>1, <3>2, WaitingConcat
    <2>10. Bytes(rest) \in Bytestrings  BY <2>5, NodeFacts
    <2> HIDE DEF node, tail, part, rest
    <2>11. st.rerv \o part \in Bytestrings /\ Len(st.rerv \o part) = CMD_BUFSIZE
      BY <1>1, <2>8, Concat, SsAssumption
    <2>12. m \in Senders  BY <1>1, <2>9, <2>11 DEF Senders
    <2>13. InBuffer(m) /\ Len(m.rerv) = CMD_BUFSIZE  BY <2>11, SsAssumption DEF InBuffer
    <2>14. Stream(m) = Stream(st)
      <3>1. Stream(m) = (st.rerv \o part) \o (Bytes(rest) \o Waiting(tail))  BY <2>9 DEF Stream
      <3>2. (st.rerv \o part) \o (Bytes(rest) \o Waiting(tail)) = st.rerv \o (part \o (Bytes(rest) \o Waiting(tail)))
        <4>1. Bytes(rest) \o Waiting(tail) \in Bytestrings  BY <2>4, <2>10, Concat
        <4> QED  BY Zenon, <1>1, <2>8, <4>1, Assoc
      <3>3. part \o (Bytes(rest) \o Waiting(tail)) = (part \o Bytes(rest)) \o Waiting(tail)
        BY Zenon, <2>4, <2>8, <2>10, Assoc
      <3> QED  BY <2>2, <2>7, <3>1, <3>2, <3>3 DEF Stream
    <2>15. Len(st.rerv) # CMD_BUFSIZE  BY <1>1, <1>4, SsAssumption
    <2> QED  BY <2>1, <2>12, <2>13, <2>14, <2>15
  <1> QED  BY <1>2, <1>3, <1>4


\* packed refills the buffer until it is full or the list is empty.
LEMMA PackedKeeps ==
    ASSUME NEW st \in Senders, InBuffer(st)
    PROVE  /\ packed(st) \in Senders /\ InBuffer(packed(st)) /\ Stream(packed(st)) = Stream(st)
           /\ packed(st).active # <<>> => Len(packed(st).rerv) = CMD_BUFSIZE
  <1> DEFINE L == Len(st.active)
             S == {s \in Senders : InBuffer(s) /\ Stream(s) = Stream(st)}
             F == [n \in 1..L |-> [s \in S |-> Moved(s)]]
             Eq(f) == f = [n \in 0..L |-> IF n = 0 THEN st ELSE Moved(f[n-1])]
             pass == CHOOSE f : Eq(f)
             Done(n) == Len(pass[n].rerv) = CMD_BUFSIZE \/ Len(pass[n].active) <= L - n
  <1>1. L \in Nat  BY SenderFacts
  <1>2. st \in S  OBVIOUS
  <1>3. \A s \in S : Moved(s) \in S  BY MovedKeeps
  <1>4. packed(st) = pass[L]  BY Zenon DEF packed
  <1>5. \A s \in S : s \in Senders /\ InBuffer(s) /\ Stream(s) = Stream(st)  OBVIOUS
  <1> HIDE DEF L, S
  <1>6. F \in Steps(L, S) /\ \A n \in 1..L : \A s \in S : F[n][s] = Moved(s)  BY <1>3 DEF Steps
  <1> HIDE DEF F
  <1>7. PICK f : Run(f, L, S, st, F)  BY Zenon, <1>1, <1>2, <1>6, StepsExist
  <1>8. Eq(f)
    <2>1. ASSUME NEW n \in 0..L PROVE f[n] = IF n = 0 THEN st ELSE Moved(f[n-1])
      <3>1. CASE n = 0  BY <1>7, <3>1 DEF Run
      <3>2. CASE n # 0
        <4>1. n \in 1..L /\ n - 1 \in 0..L  BY <1>1, <3>2
        <4>2. f[n-1] \in S /\ f[n] = F[n][f[n-1]]  BY <1>7, <4>1 DEF Run
        <4> QED  BY <1>6, <3>2, <4>1, <4>2
      <3> QED  BY <3>1, <3>2
    <2> QED  BY <1>7, <2>1 DEF Run
  <1>9. Eq(pass)  BY Zenon, <1>8
  <1> HIDE DEF pass
  <1>10. pass[0] = st  BY <1>1, <1>9
  <1>11. \A n \in 1..L : pass[n] = Moved(pass[n-1])
    <2> SUFFICES ASSUME NEW n \in 1..L PROVE pass[n] = Moved(pass[n-1])  OBVIOUS
    <2>1. n \in 0..L /\ n # 0  BY <1>1
    <2> QED  BY <1>9, <2>1
  <1>12. \A n \in 0..L : pass[n] \in S
    <2>1. \A n \in 1..L : pass[n-1] \in S => pass[n] \in S  BY <1>3, <1>11
    <2> QED  BY <1>1, <1>2, <1>10, <2>1, StepsStay
  <1> DEFINE B == {n \in 0..L : Done(n)}
  <1>13. 0 \in B  BY <1>1, <1>10 DEF L
  <1>14. ASSUME NEW n \in 1..L, n - 1 \in B PROVE n \in B
    <2> DEFINE s == pass[n-1]
    <2>1. n - 1 \in 0..L /\ n \in 0..L /\ Done(n-1)  BY <1>1, <1>14
    <2>2. s \in Senders /\ InBuffer(s) /\ pass[n] = Moved(s)  BY <1>5, <1>11, <1>12, <2>1
    <2> HIDE DEF s
    <2>3. CASE Len(s.rerv) = CMD_BUFSIZE
      <3>1. pass[n] = s  BY <2>2, <2>3, MovedKeeps
      <3> QED  BY <2>1, <2>3, <3>1
    <2>4. CASE Len(s.active) <= L - (n - 1)
      <3>1. Len(s.active) \in Nat  BY <2>2, SenderFacts
      <3>2. \/ Len(pass[n].rerv) = CMD_BUFSIZE
            \/ pass[n].active = <<>>
            \/ Len(pass[n].active) = Len(s.active) - 1
        BY <2>2, MovedKeeps
      <3>3. Len(<<>>) = 0  OBVIOUS
      <3> QED  BY <1>1, <2>1, <2>4, <3>1, <3>2, <3>3
    <2> QED  BY <2>1, <2>3, <2>4 DEF s
  <1>15. 0..L \subseteq B
    <2> HIDE DEF B
    <2> QED  BY <1>1, <1>13, <1>14, AllReached
  <1>16. pass[L] \in S /\ Done(L)  BY <1>1, <1>12, <1>15
  <1>17. pass[L].active # <<>> => Len(pass[L].rerv) = CMD_BUFSIZE
    <2>1. pass[L].active \in Seq(Nodes)  BY <1>5, <1>16, SenderFacts
    <2> QED  BY <1>1, <1>16, <2>1
  <1> QED  BY <1>4, <1>5, <1>16, <1>17

\* A node that is filled up holds what it held, followed by the new bytes.
LEMMA ToppedUpHolds ==
    ASSUME NEW x \in Nodes, NEW bytes \in Bytestrings, x.start + x.count + Len(bytes) <= NODE_SIZE
    PROVE  ToppedUp(x, bytes) \in Nodes /\ Bytes(ToppedUp(x, bytes)) = Bytes(x) \o bytes
  <1> DEFINE old == SubSeq(x.data, 1, x.start + x.count)
             y == ToppedUp(x, bytes)
  <1>1. /\ x.data \in Bytestrings /\ x.start \in Nat /\ x.count \in Nat \ {0} /\ bytes \in Bytestrings /\ Len(bytes) \in Nat
        /\ x.start + x.count = Len(x.data) /\ Bytes(x) \in Bytestrings /\ Len(Bytes(x)) = x.count
        /\ \A i \in 1..x.count : Bytes(x)[i] = x.data[x.start + i]
    BY NodeFacts
  <1>2. old = x.data  BY <1>1, ByteFacts
  <1>3. y = [data |-> x.data \o bytes, start |-> x.start, count |-> x.count + Len(bytes)]
    BY <1>2 DEF ToppedUp
  <1> HIDE DEF y
  <1>10. x.data \in Bytestrings /\ bytes \in Bytestrings /\ Bytes(x) \in Bytestrings  BY Zenon, <1>1
  <1>4. /\ x.data \o bytes \in Bytestrings /\ Len(x.data \o bytes) = Len(x.data) + Len(bytes)
        /\ \A i \in 1 .. Len(x.data) + Len(bytes) :
              (x.data \o bytes)[i] = IF i <= Len(x.data) THEN x.data[i] ELSE bytes[i - Len(x.data)]
    BY Zenon, <1>10, Concat
  <1>5. y \in Nodes  BY <1>1, <1>3, <1>4 DEF Nodes
  <1> DEFINE v == Bytes(x) \o bytes
  <1>6. /\ v \in Bytestrings /\ Len(v) = x.count + Len(bytes)
        /\ \A i \in 1 .. x.count + Len(bytes) : v[i] = IF i <= x.count THEN Bytes(x)[i] ELSE bytes[i - x.count]
    <2>1. Len(Bytes(x)) = x.count  BY <1>1
    <2>2. /\ v \in Bytestrings /\ Len(v) = Len(Bytes(x)) + Len(bytes)
          /\ \A i \in 1 .. Len(Bytes(x)) + Len(bytes) :
                v[i] = IF i <= Len(Bytes(x)) THEN Bytes(x)[i] ELSE bytes[i - Len(Bytes(x))]
      BY Zenon, <1>10, Concat
    <2> HIDE DEF v
    <2> QED  BY Zenon, <2>1, <2>2
  <1> HIDE DEF v
  <1>7. /\ Bytes(y) \in Bytestrings /\ Len(Bytes(y)) = x.count + Len(bytes)
        /\ \A i \in 1 .. x.count + Len(bytes) : Bytes(y)[i] = (x.data \o bytes)[x.start + i]
    BY <1>3, <1>5, NodeFacts
  <1>8. ASSUME NEW i \in 1 .. x.count + Len(bytes) PROVE Bytes(y)[i] = v[i]
    <2> DEFINE e == x.data
               n == x.count
    <2>1. PICK j : j = x.start + i  OBVIOUS
    <2>2. x.start \in Nat /\ Len(e) = x.start + n /\ Len(bytes) \in Nat /\ n \in Nat  BY <1>1
    <2>3. j \in 1 .. Len(e) + Len(bytes)  BY <2>1, <2>2
    <2>4. Bytes(y)[i] = (e \o bytes)[j]  BY Zenon, <1>7, <2>1
    <2>5. (e \o bytes)[j] = IF j <= Len(e) THEN e[j] ELSE bytes[j - Len(e)]  BY Zenon, <1>4, <2>3
    <2>6. v[i] = IF i <= n THEN Bytes(x)[i] ELSE bytes[i - n]  BY Zenon, <1>6
    <2>7. CASE i <= n
      <3>1. j <= Len(e) /\ i \in 1..n  BY <2>1, <2>2, <2>7
      <3>2. Bytes(x)[i] = e[j]  BY Zenon, <1>1, <2>1, <3>1
      <3> HIDE DEF e, n
      <3> QED  BY <2>4, <2>5, <2>6, <2>7, <3>1, <3>2
    <2>8. CASE ~(i <= n)
      <3>1. ~(j <= Len(e)) /\ j - Len(e) = i - n  BY <2>1, <2>2, <2>8
      <3> HIDE DEF e, n
      <3> QED  BY <2>4, <2>5, <2>6, <2>8, <3>1
    <2> QED  BY <2>7, <2>8
  <1>9. Bytes(y) = v  BY <1>1, <1>6, <1>7, <1>8, Agree
  <1> QED  BY <1>5, <1>9 DEF y, v

\* add_node puts all it is given behind what the list holds.
LEMMA NodesAdded ==
    ASSUME NEW st \in Senders, NEW buf \in Bytestrings
    PROVE  /\ add_node(st, buf) \in Senders /\ add_node(st, buf).rerv = st.rerv
           /\ Waiting(add_node(st, buf).active) = Waiting(st.active) \o buf
  <1> DEFINE n == Len(st.active)
             last == st.active[n]
             room == NODE_SIZE - (last.start + last.count)
             k == IF n = 0 THEN 0 ELSE IF room > Len(buf) THEN Len(buf) ELSE room
             head == SubSeq(buf, 1, k)
             rest == SubSeq(buf, k + 1, Len(buf))
             filled == IF k = 0 THEN st.active ELSE SubSeq(st.active, 1, n - 1) \o <<ToppedUp(last, head)>>
             more == Chunks(rest)
             a == [rerv |-> st.rerv, active |-> filled \o more,
                   heap |-> IF st.heap > Len(more) THEN st.heap - Len(more) ELSE 0]
  <1>1. add_node(st, buf) = a  BY Zenon DEF add_node
  <1>2. /\ st.rerv \in Bytestrings /\ st.active \in Seq(Nodes) /\ st.heap \in Nat /\ n \in Nat
        /\ Waiting(st.active) \in Bytestrings /\ buf \in Bytestrings /\ Len(buf) \in Nat
    BY SenderFacts
  <1>3. n # 0 => last \in Nodes /\ room \in Nat
    <2> SUFFICES ASSUME n # 0 PROVE last \in Nodes /\ room \in Nat  OBVIOUS
    <2>1. last \in Nodes  BY <1>2
    <2> HIDE DEF last
    <2> QED  BY <2>1, NodeFacts, SsAssumption
  <1>4. k \in 0..Len(buf) /\ (k # 0 => n # 0 /\ k <= room)
    <2> HIDE DEF room
    <2> QED  BY <1>2, <1>3
  <1> HIDE DEF k
  <1>5. head \in Bytestrings /\ Len(head) = k /\ rest \in Bytestrings /\ head \o rest = buf  BY <1>2, <1>4, Parted
  <1>6. k = 0 => rest = buf  BY <1>2, <1>4, Parted
  <1> HIDE DEF head, rest
  <1>7. more \in Seq(Nodes) /\ Waiting(more) = rest  BY <1>5, ChunksHold
  <1>8. filled \in Seq(Nodes) /\ Waiting(filled) \o rest = Waiting(st.active) \o buf
    <2>1. CASE k = 0  BY <1>2, <1>6, <2>1
    <2>2. CASE k # 0
      <3> DEFINE front == SubSeq(st.active, 1, n - 1)
                 y == ToppedUp(last, head)
      <3>1. n \in 1..n /\ last \in Nodes /\ k <= room /\ n \in Nat \ {0}  BY <1>2, <1>3, <1>4, <2>2
      <3>2. front \in Seq(Nodes)
        <4>1. \A i \in 1..n-1 : st.active[i] \in Nodes  BY <1>2
        <4> QED  BY <1>2, <4>1, SubSeqProperties
      <3>3. st.active = front \o <<last>>
        <4>1. SubSeq(st.active, 1, n) = SubSeq(st.active, 1, n - 1) \o <<st.active[n]>>
          <5>1. 1 \in 1..Len(st.active) /\ n \in 1..Len(st.active)  BY <3>1
          <5> QED  BY <1>2, <5>1, SubSeqRecursiveSecond
        <4>2. SubSeq(st.active, 1, n) = st.active  BY <1>2, SubSeqFull
        <4> QED  BY <4>1, <4>2
      <3>4. filled = front \o <<y>>  BY <2>2
      <3> HIDE DEF front
      <3>5. last.start + last.count + Len(head) <= NODE_SIZE
        <4>1. last.start \in Nat /\ last.count \in Nat  BY <3>1, NodeFacts
        <4> QED  BY <1>4, <1>5, <3>1, <4>1, SsAssumption
      <3>6. y \in Nodes /\ Bytes(y) = Bytes(last) \o head  BY <1>5, <3>1, <3>5, ToppedUpHolds
      <3> HIDE DEF y, last
      <3>7. Bytes(last) \in Bytestrings  BY <3>1, NodeFacts
      <3>8. Waiting(front) \in Bytestrings  BY <3>2, WaitingIs
      <3>9. Waiting(st.active) = Waiting(front) \o Bytes(last)
        <4>1. <<last>> \in Seq(Nodes) /\ Waiting(<<last>>) = Bytes(last)  BY <3>1, WaitingOne
        <4> QED  BY <3>2, <3>3, <4>1, WaitingConcat
      <3>10. filled \in Seq(Nodes) /\ Waiting(filled) = Waiting(front) \o Bytes(y)
        <4>1. <<y>> \in Seq(Nodes) /\ Waiting(<<y>>) = Bytes(y)  BY <3>6, WaitingOne
        <4> QED  BY <3>2, <3>4, <4>1, WaitingConcat
      <3>11. Waiting(filled) = Waiting(st.active) \o head
        <4>1. head \in Bytestrings  BY <1>5
        <4>2. (Waiting(front) \o Bytes(last)) \o head = Waiting(front) \o (Bytes(last) \o head)
          BY Zenon, <3>7, <3>8, <4>1, Assoc
        <4> QED  BY Zenon, <3>6, <3>9, <3>10, <4>2
      <3>12. (Waiting(st.active) \o head) \o rest = Waiting(st.active) \o (head \o rest)
        BY Zenon, <1>2, <1>5, Assoc
      <3> QED  BY <1>5, <3>10, <3>11, <3>12
    <2> QED  BY <2>1, <2>2
  <1> HIDE DEF filled, more
  <1>9. filled \o more \in Seq(Nodes) /\ Waiting(filled \o more) = Waiting(filled) \o Waiting(more)
    BY <1>7, <1>8, WaitingConcat
  <1>10. Len(more) \in Nat  BY <1>7
  <1>11. a \in Senders  BY <1>2, <1>9, <1>10 DEF Senders
  <1> QED  BY <1>1, <1>7, <1>8, <1>9, <1>11


LEMMA NewBuffer ==
    ASSUME NEW st \in Senders, NEW r \in Bytestrings
    PROVE  /\ [st EXCEPT !.rerv = r] \in Senders
           /\ [st EXCEPT !.rerv = r].rerv = r /\ [st EXCEPT !.rerv = r].active = st.active
  BY DEF Senders

\* A byte waits in the list only behind a full buffer.
Ordered(st) == InBuffer(st) /\ (st.active # <<>> => Len(st.rerv) = CMD_BUFSIZE)

\* Whatever the kernel takes, handle_buf loses, repeats and reorders nothing.
LEMMA HandledInOrder ==
    ASSUME NEW wire \in Bytestrings, NEW st \in Senders, Ordered(st), NEW cmd \in Bytestrings,
           NEW k \in 0 .. Len(Handed(st, cmd))
    PROVE  /\ handle_buf(st, cmd, k) \in Senders /\ Ordered(handle_buf(st, cmd, k))
           /\ wire \o SubSeq(Handed(st, cmd), 1, k) \in Bytestrings
           /\ (wire \o SubSeq(Handed(st, cmd), 1, k)) \o Stream(handle_buf(st, cmd, k)) = (wire \o Stream(st)) \o cmd
  <1> DEFINE fit == IF CMD_BUFSIZE - Len(st.rerv) > Len(cmd) THEN Len(cmd) ELSE CMD_BUFSIZE - Len(st.rerv)
             first == SubSeq(cmd, 1, fit)
             rest == SubSeq(cmd, fit + 1, Len(cmd))
             handed == st.rerv \o first
             unsent == SubSeq(handed, k + 1, Len(handed))
             taken == SubSeq(handed, 1, k)
             begun == [st EXCEPT !.rerv = unsent]
             sent == packed(begun)
             room == CMD_BUFSIZE - Len(sent.rerv)
             put == IF sent.active # <<>> THEN 0 ELSE IF room > Len(rest) THEN Len(rest) ELSE room
             next == SubSeq(rest, 1, put)
             left == SubSeq(rest, put + 1, Len(rest))
             kept == [sent EXCEPT !.rerv = sent.rerv \o next]
             h == IF left = <<>> THEN kept ELSE add_node(kept, left)
  <1>1. handle_buf(st, cmd, k) = h /\ Handed(st, cmd) = handed
    BY Zenon DEF handle_buf, send_socket_nfd, Handed
  <1>2. /\ st.rerv \in Bytestrings /\ Len(st.rerv) \in Nat /\ Waiting(st.active) \in Bytestrings /\ Stream(st) \in Bytestrings
        /\ wire \in Bytestrings /\ cmd \in Bytestrings /\ Len(cmd) \in Nat /\ CMD_BUFSIZE \in Nat /\ Len(st.rerv) <= CMD_BUFSIZE
    BY SenderFacts, SsAssumption DEF Ordered, InBuffer
  <1>3. /\ fit \in 0..Len(cmd) /\ Len(st.rerv) + fit <= CMD_BUFSIZE
        /\ fit # 0 => st.active = <<>>
    <2>1. Len(st.rerv) \in Nat /\ Len(cmd) \in Nat /\ CMD_BUFSIZE \in Nat /\ Len(st.rerv) <= CMD_BUFSIZE  BY <1>2
    <2>2. fit \in 0..Len(cmd) /\ Len(st.rerv) + fit <= CMD_BUFSIZE /\ (fit # 0 => Len(st.rerv) # CMD_BUFSIZE)
      <3> DEFINE r == Len(st.rerv)
                 l == Len(cmd)
                 f == IF CMD_BUFSIZE - r > l THEN l ELSE CMD_BUFSIZE - r
      <3>1. r \in Nat /\ l \in Nat /\ CMD_BUFSIZE \in Nat /\ r <= CMD_BUFSIZE  BY <2>1
      <3> HIDE DEF r, l
      <3>2. f \in 0..l /\ r + f <= CMD_BUFSIZE /\ (f # 0 => r # CMD_BUFSIZE)  BY <3>1
      <3> QED  BY <3>2 DEF r, l
    <2> QED  BY <2>2 DEF Ordered
  <1> HIDE DEF fit
  <1>4. first \in Bytestrings /\ Len(first) = fit /\ rest \in Bytestrings /\ first \o rest = cmd
    BY <1>2, <1>3, Parted
  <1>5. handed \in Bytestrings /\ Len(handed) = Len(st.rerv) + fit
    <2>1. st.rerv \in Bytestrings /\ first \in Bytestrings /\ Len(first) = fit  BY <1>2, <1>4
    <2> HIDE DEF first
    <2>2. handed \in Bytestrings /\ Len(handed) = Len(st.rerv) + Len(first)  BY Zenon, <2>1, Concat
    <2> QED  BY Zenon, <2>1, <2>2
  <1> HIDE DEF first, rest, handed
  <1>6. k \in 0..Len(handed) /\ taken \in Bytestrings /\ unsent \in Bytestrings /\ taken \o unsent = handed
        /\ Len(unsent) = Len(handed) - k
    <2>1. k \in 0..Len(handed)  BY <1>1
    <2> QED  BY <1>5, <2>1, Parted
  <1> HIDE DEF taken, unsent
  <1>7. begun \in Senders /\ begun.rerv = unsent /\ begun.active = st.active
    BY <1>6, NewBuffer
  <1> HIDE DEF begun
  <1>8. InBuffer(begun)  BY <1>2, <1>3, <1>5, <1>6, <1>7 DEF InBuffer
  <1>9. /\ sent \in Senders /\ InBuffer(sent) /\ Stream(sent) = Stream(begun)
        /\ sent.active # <<>> => Len(sent.rerv) = CMD_BUFSIZE
    BY <1>7, <1>8, PackedKeeps
  <1> HIDE DEF sent
  <1>10. (wire \o taken) \o Stream(sent) = (wire \o Stream(st)) \o first
    <2>1. Stream(sent) = unsent \o Waiting(st.active)  BY <1>7, <1>9 DEF Stream
    <2>2. taken \o (unsent \o Waiting(st.active)) = handed \o Waiting(st.active)
      <3>1. taken \in Bytestrings /\ unsent \in Bytestrings /\ Waiting(st.active) \in Bytestrings  BY <1>2, <1>6
      <3>2. (taken \o unsent) \o Waiting(st.active) = taken \o (unsent \o Waiting(st.active))
        BY Zenon, <3>1, Assoc
      <3> QED  BY Zenon, <1>6, <3>2
    <2>3. handed \o Waiting(st.active) = Stream(st) \o first
      <3>1. CASE fit = 0
        <4>1. first = <<>>  BY <1>4, <3>1
        <4> QED  BY <1>2, <4>1, Concat DEF handed, Stream
      <3>2. CASE fit # 0
        <4>1. Waiting(st.active) = <<>>  BY <1>3, <3>2, WaitingNone
        <4> QED  BY <1>2, <1>5, <4>1, Concat DEF handed, Stream
      <3> QED  BY <3>1, <3>2
    <2>4. unsent \o Waiting(st.active) \in Bytestrings  BY <1>2, <1>6, Concat
    <2>7. wire \in Bytestrings /\ taken \in Bytestrings /\ Stream(st) \in Bytestrings /\ first \in Bytestrings
      BY <1>2, <1>4, <1>6
    <2>5. (wire \o taken) \o (unsent \o Waiting(st.active)) = wire \o (taken \o (unsent \o Waiting(st.active)))
      BY Zenon, <2>4, <2>7, Assoc
    <2>6. wire \o (Stream(st) \o first) = (wire \o Stream(st)) \o first  BY Zenon, <2>7, Assoc
    <2> QED  BY <2>1, <2>2, <2>3, <2>5, <2>6
  <1>11. /\ sent.rerv \in Bytestrings /\ Len(sent.rerv) \in Nat /\ Len(sent.rerv) <= CMD_BUFSIZE
         /\ Waiting(sent.active) \in Bytestrings /\ Stream(sent) \in Bytestrings /\ Len(rest) \in Nat
    BY <1>4, <1>9, SenderFacts DEF InBuffer
  <1>12. /\ put \in 0..Len(rest) /\ Len(sent.rerv) + put <= CMD_BUFSIZE
         /\ put # 0 => sent.active = <<>>
         /\ put # Len(rest) /\ sent.active = <<>> => Len(sent.rerv) + put = CMD_BUFSIZE
    <2>1. Len(sent.rerv) \in Nat /\ Len(rest) \in Nat /\ CMD_BUFSIZE \in Nat /\ Len(sent.rerv) <= CMD_BUFSIZE
      BY <1>2, <1>11
    <2>2. CASE sent.active # <<>>
      <3>1. put = 0  BY <2>2
      <3> HIDE DEF put
      <3> QED  BY <2>1, <2>2, <3>1
    <2>3. CASE sent.active = <<>>
      <3> DEFINE r == Len(sent.rerv)
                 l == Len(rest)
                 f == IF CMD_BUFSIZE - r > l THEN l ELSE CMD_BUFSIZE - r
      <3>1. put = f  BY <2>3
      <3>2. r \in Nat /\ l \in Nat /\ CMD_BUFSIZE \in Nat /\ r <= CMD_BUFSIZE  BY <2>1
      <3> HIDE DEF r, l, put
      <3>3. f \in 0..l /\ r + f <= CMD_BUFSIZE /\ (f # l => r + f = CMD_BUFSIZE)  BY <3>2
      <3> HIDE DEF f
      <3>4. put \in 0..l /\ r + put <= CMD_BUFSIZE /\ (put # l => r + put = CMD_BUFSIZE)  BY <3>1, <3>3
      <3> QED  BY <2>3, <3>4 DEF r, l
    <2> QED  BY Zenon, <2>2, <2>3
  <1> HIDE DEF put
  <1>13. next \in Bytestrings /\ Len(next) = put /\ left \in Bytestrings /\ Len(left) = Len(rest) - put /\ next \o left = rest
    BY <1>4, <1>12, Parted
  <1> HIDE DEF next, left
  <1>14. sent.rerv \o next \in Bytestrings /\ Len(sent.rerv \o next) = Len(sent.rerv) + put
    BY <1>11, <1>13, Concat
  <1>15. kept \in Senders /\ kept.rerv = sent.rerv \o next /\ kept.active = sent.active
    BY <1>9, <1>14, NewBuffer
  <1> HIDE DEF kept
  <1>16. Stream(kept) = Stream(sent) \o next
    <2>1. CASE put = 0
      <3>1. next = <<>>  BY <1>13, <2>1
      <3>2. sent.rerv \o next = sent.rerv /\ Stream(sent) \o next = Stream(sent)  BY <1>11, <3>1, Concat
      <3> QED  BY <1>15, <3>2 DEF Stream
    <2>2. CASE put # 0
      <3>1. Waiting(sent.active) = <<>>  BY <1>12, <2>2, WaitingNone
      <3>2. Stream(kept) = sent.rerv \o next /\ Stream(sent) = sent.rerv
        BY <1>11, <1>14, <1>15, <3>1, Concat DEF Stream
      <3> QED  BY <3>2
    <2> QED  BY <2>1, <2>2
  <1>17. h \in Senders /\ h.rerv = kept.rerv /\ Waiting(h.active) = Waiting(kept.active) \o left
         /\ (left = <<>> => h.active = kept.active)
    <2>1. CASE left = <<>>
      <3>1. Waiting(kept.active) \o left = Waiting(kept.active)  BY <1>11, <1>15, <2>1, Concat
      <3> QED  BY <1>15, <2>1, <3>1
    <2>2. CASE left # <<>>  BY <1>13, <1>15, <2>2, NodesAdded
    <2> QED  BY <2>1, <2>2
  <1> HIDE DEF h
  <1>18. Stream(h) = (Stream(sent) \o next) \o left
    <2>1. Stream(h) = kept.rerv \o (Waiting(kept.active) \o left)  BY <1>17 DEF Stream
    <2>2. kept.rerv \in Bytestrings /\ Waiting(kept.active) \in Bytestrings  BY <1>11, <1>14, <1>15
    <2>4. left \in Bytestrings  BY <1>13
    <2>5. (kept.rerv \o Waiting(kept.active)) \o left = kept.rerv \o (Waiting(kept.active) \o left)
      BY Zenon, <2>2, <2>4, Assoc
    <2>3. kept.rerv \o (Waiting(kept.active) \o left) = Stream(kept) \o left
      BY Zenon, <2>5 DEF Stream
    <2> QED  BY <1>16, <2>1, <2>3
  <1>19. wire \o taken \in Bytestrings  BY <1>2, <1>6, Concat
  <1>20. (wire \o taken) \o Stream(h) = (wire \o Stream(st)) \o cmd
    <2>4. /\ Stream(sent) \in Bytestrings /\ next \in Bytestrings /\ left \in Bytestrings
          /\ first \in Bytestrings /\ rest \in Bytestrings
      BY <1>4, <1>11, <1>13
    <2> DEFINE before == wire \o taken
               offered == wire \o Stream(st)
    <2>5. before \in Bytestrings  BY <1>19
    <2>6. offered \in Bytestrings
      <3>1. wire \in Bytestrings /\ Stream(st) \in Bytestrings  BY <1>2
      <3> QED  BY Zenon, <3>1, Concat
    <2>1. (Stream(sent) \o next) \o left = Stream(sent) \o rest
      <3>2. Stream(sent) \in Bytestrings /\ next \in Bytestrings /\ left \in Bytestrings  BY <2>4
      <3>1. (Stream(sent) \o next) \o left = Stream(sent) \o (next \o left)  BY Zenon, <3>2, Assoc
      <3> QED  BY Zenon, <1>13, <3>1
    <2> HIDE DEF before, offered
    <2>2. before \o (Stream(sent) \o rest) = (before \o Stream(sent)) \o rest  BY Zenon, <2>4, <2>5, Assoc
    <2>3. (offered \o first) \o rest = offered \o cmd
      <3>1. (offered \o first) \o rest = offered \o (first \o rest)  BY Zenon, <2>4, <2>6, Assoc
      <3> QED  BY Zenon, <1>4, <3>1
    <2>7. before \o Stream(sent) = offered \o first  BY <1>10 DEF before, offered
    <2>8. Stream(h) = Stream(sent) \o rest  BY Zenon, <1>18, <2>1
    <2>9. before \o Stream(h) = offered \o cmd  BY Zenon, <2>2, <2>3, <2>7, <2>8
    <2> QED  BY Zenon, <2>9 DEF before, offered
  <1>21. Ordered(h)
    <2>1. h.rerv = sent.rerv \o next /\ Len(h.rerv) = Len(sent.rerv) + put  BY <1>14, <1>15, <1>17
    <2>2. InBuffer(h)  BY <1>12, <2>1 DEF InBuffer
    <2>3. ASSUME h.active # <<>> PROVE Len(h.rerv) = CMD_BUFSIZE
      <3>1. CASE sent.active # <<>>
        <4>1. put = 0 /\ Len(sent.rerv) = CMD_BUFSIZE  BY <1>9, <1>12, <3>1
        <4> QED  BY <1>2, <2>1, <4>1
      <3>2. CASE sent.active = <<>>
        <4>1. left # <<>>  BY <1>15, <1>17, <2>3, <3>2
        <4>2. Len(left) # 0  BY <1>13, <4>1
        <4> QED  BY <1>12, <1>13, <2>1, <3>2, <4>2
      <3> QED  BY <3>1, <3>2
    <2> QED  BY <2>2, <2>3 DEF Ordered
  <1>22. SubSeq(Handed(st, cmd), 1, k) = taken  BY <1>1 DEF taken
  <1> QED  BY <1>1, <1>17, <1>19, <1>20, <1>21, <1>22

-----------------------------------------------------------------------------
SenderInv ==
    /\ ssOffered \in Nat /\ ssDue \in Bytestrings /\ ssWire \in Bytestrings
    /\ Now \in Senders /\ Ordered(Now)
    /\ ssWire \o Stream(Now) = ssDue

\* One call: a command is packed, or what is buffered is handed to the kernel.
LEMMA CallInOrder ==
    ASSUME ssOffered' \in Nat, ssWire \in Bytestrings, NEW st \in Senders, Ordered(st), NEW cmd \in Bytestrings, NEW force,
           Handle(st, cmd, force), ssDue' = (ssWire \o Stream(st)) \o cmd
    PROVE  SenderInv'
  <1>1. /\ st.rerv \in Bytestrings /\ Len(st.rerv) \in Nat /\ Waiting(st.active) \in Bytestrings /\ Stream(st) \in Bytestrings
        /\ ssWire \in Bytestrings /\ cmd \in Bytestrings /\ Len(cmd) \in Nat /\ CMD_BUFSIZE \in Nat
        /\ ssWire \o Stream(st) \in Bytestrings /\ ssDue' \in Bytestrings
    <2>1. st.rerv \in Bytestrings /\ Len(st.rerv) \in Nat /\ Waiting(st.active) \in Bytestrings /\ Stream(st) \in Bytestrings
      BY SenderFacts
    <2>2. ssWire \o Stream(st) \in Bytestrings  BY <2>1, Concat
    <2> QED  BY <2>1, <2>2, Concat, SsAssumption
  <1>2. ASSUME NEW h \in Senders, Ordered(h), Become(h), ssWire' \in Bytestrings, ssWire' \o Stream(h) = ssDue'
        PROVE  SenderInv'
    <2>1. h = [rerv |-> h.rerv, active |-> h.active, heap |-> h.heap]  BY DEF Senders
    <2>2. Now' = h  BY <1>2, <2>1 DEF Now, Become
    <2>3. Now' \in Senders /\ Ordered(Now)' /\ Stream(Now)' = Stream(h)
      BY <1>2, <2>2 DEF Ordered, InBuffer, Stream
    <2> QED  BY <1>1, <1>2, <2>3 DEF SenderInv
  <1>3. CASE Packs(st, cmd, force) /\ Become([st EXCEPT !.rerv = st.rerv \o cmd]) /\ UNCHANGED ssWire
    <2> DEFINE h == [st EXCEPT !.rerv = st.rerv \o cmd]
    <2>1. st.rerv \o cmd \in Bytestrings /\ Len(st.rerv \o cmd) = Len(st.rerv) + Len(cmd)  BY <1>1, Concat
    <2>2. h \in Senders /\ h.rerv = st.rerv \o cmd /\ h.active = st.active  BY <2>1, NewBuffer
    <2> HIDE DEF h
    <2>3. Len(st.rerv) + Len(cmd) < CMD_BUFSIZE  BY <1>1, <1>3, SsAssumption DEF Packs
    <2>4. st.active = <<>>  BY <1>1, <2>3 DEF Ordered
    <2>5. Ordered(h)  BY <1>1, <2>1, <2>2, <2>3, <2>4 DEF Ordered, InBuffer
    <2>6. Waiting(st.active) = <<>>  BY <2>4, WaitingNone
    <2>7. Stream(st) = st.rerv /\ Stream(h) = st.rerv \o cmd
      BY <1>1, <2>1, <2>2, <2>6, Concat DEF Stream
    <2>10. ssWire \in Bytestrings /\ st.rerv \in Bytestrings /\ cmd \in Bytestrings  BY <1>1
    <2>8. ssWire \o (st.rerv \o cmd) = (ssWire \o st.rerv) \o cmd  BY Zenon, <2>10, Assoc
    <2>9. ssWire' \o Stream(h) = ssDue'  BY <1>3, <2>7, <2>8
    <2> QED  BY <1>2, <1>3, <2>2, <2>5, <2>9 DEF h
  <1>4. ASSUME NEW k \in 0 .. Len(Handed(st, cmd)),
               ssWire' = ssWire \o SubSeq(Handed(st, cmd), 1, k), Become(handle_buf(st, cmd, k))
        PROVE  SenderInv'
    <2>1. /\ handle_buf(st, cmd, k) \in Senders /\ Ordered(handle_buf(st, cmd, k)) /\ ssWire' \in Bytestrings
          /\ ssWire' \o Stream(handle_buf(st, cmd, k)) = ssDue'
      BY Zenon, <1>4, HandledInOrder
    <2> QED  BY Zenon, <1>2, <1>4, <2>1
  <1> QED  BY Zenon, <1>3, <1>4 DEF Handle

LEMMA NewBytes ==
    ASSUME ssOffered \in Nat, NEW n \in Nat
    PROVE  New(n) \in Bytestrings
  <1>1. New(n) \in [1..n -> Nat]  BY DEF New
  <1> QED  BY <1>1 DEF Bytestrings

(* The socket's sender keeps the order of its bytes (handle_buf, packed,   *)
(* add_node), whatever prefix of the buffer each send takes.               *)
THEOREM SenderInvariance == SsSpec => []SenderInv
  <1>1. SsInit => SenderInv
    <2> SUFFICES ASSUME SsInit PROVE SenderInv  OBVIOUS
    <2>1. ssOffered = 0 /\ ssDue = <<>> /\ ssWire = <<>> /\ Now = [rerv |-> <<>>, active |-> <<>>, heap |-> 0]
      BY DEF SsInit, Now
    <2>4. <<>> \in Bytestrings /\ <<>> \in Seq(Nodes) /\ Len(<<>>) = 0  BY Empty
    <2>2. Now \in Senders /\ Ordered(Now)  BY <2>1, <2>4, SsAssumption DEF Senders, Ordered, InBuffer
    <2>3. Stream(Now) = <<>> /\ <<>> \o <<>> = <<>>
      <3>1. Stream(Now) = <<>> \o Waiting(<<>>)  BY <2>1 DEF Stream
      <3> QED  BY <3>1, WaitingNone, Empty
    <2>5. ssWire \o Stream(Now) = ssDue  BY Zenon, <2>1, <2>3
    <2>6. ssOffered \in Nat /\ ssDue \in Bytestrings /\ ssWire \in Bytestrings  BY <2>1, <2>4
    <2> QED  BY Zenon, <2>2, <2>5, <2>6 DEF SenderInv
  <1>2. SenderInv /\ [SsNext]_ssVars => SenderInv'
    <2> SUFFICES ASSUME SenderInv, [SsNext]_ssVars PROVE SenderInv'  OBVIOUS
    <2>1. ASSUME NEW n \in SsLengths, Handle(Now, New(n), FALSE), ssOffered' = ssOffered + n, ssDue' = ssDue \o New(n)
          PROVE  SenderInv'
      <3>1. New(n) \in Bytestrings /\ ssOffered' \in Nat  BY <2>1, SsAssumption, NewBytes DEF SenderInv
      <3>2. ssDue' = (ssWire \o Stream(Now)) \o New(n)  BY <2>1 DEF SenderInv
      <3> QED  BY Zenon, <2>1, <3>1, <3>2, CallInOrder DEF SenderInv
    <2>2. CASE SendRetry
      <3>1. <<>> \in Bytestrings /\ ssDue \o <<>> = ssDue
        <4>1. ssDue \in Bytestrings  BY DEF SenderInv
        <4> QED  BY Zenon, <4>1, Empty, Concat
      <3>2. Handle(Now, <<>>, TRUE) /\ ssOffered' \in Nat /\ ssDue' = (ssWire \o Stream(Now)) \o <<>>
        BY <2>2, <3>1 DEF SendRetry, SenderInv
      <3> QED  BY Zenon, <3>1, <3>2, CallInOrder DEF SenderInv
    <2>3. CASE SendQuit
      <3> DEFINE st == [rerv |-> <<>>, active |-> <<>>, heap |-> bufHeap]
      <3>5. <<>> \in Bytestrings /\ <<>> \in Seq(Nodes) /\ Len(<<>>) = 0 /\ bufHeap \in Nat
        BY Empty DEF SenderInv, Now, Senders
      <3>1. st \in Senders /\ Ordered(st)
        BY <3>5, SsAssumption DEF Senders, Ordered, InBuffer
      <3>2. Stream(st) = <<>>
        <4>1. Stream(st) = <<>> \o Waiting(<<>>)  BY DEF Stream
        <4> QED  BY <4>1, WaitingNone, Empty
      <3>6. ssOffered' \in Nat /\ ssDue' = ssWire \o New(1)  BY <2>3 DEF SendQuit, SenderInv
      <3>7. Handle(st, New(1), TRUE)  BY Zenon, <2>3 DEF SendQuit
      <3>8. New(1) \in Bytestrings
        <4>1. ssOffered \in Nat /\ 1 \in Nat  BY DEF SenderInv
        <4> QED  BY Zenon, <4>1, NewBytes
      <3>3. Handle(st, New(1), TRUE) /\ ssOffered' \in Nat /\ ssDue' = ssWire \o New(1) /\ New(1) \in Bytestrings
        BY Zenon, <3>6, <3>7, <3>8
      <3>4. ssWire \o Stream(st) = ssWire
        <4>1. ssWire \in Bytestrings  BY DEF SenderInv
        <4>2. ssWire \o <<>> = ssWire  BY Zenon, <4>1, Concat
        <4> QED  BY Zenon, <3>2, <4>2
      <3> HIDE DEF st
      <3> QED  BY Zenon, <3>1, <3>3, <3>4, CallInOrder DEF SenderInv
    <2>4. CASE UNCHANGED ssVars
      <3>1. UNCHANGED <<ssOffered, ssDue, ssWire, Now>>  BY <2>4 DEF ssVars, Now
      <3> QED  BY <3>1 DEF SenderInv, Ordered, InBuffer, Stream
    <2> QED  BY <2>1, <2>2, <2>3, <2>4 DEF SsNext, SendCommand
  <1> QED  BY <1>1, <1>2, PTL DEF SsSpec

(* No byte of a command is lost, repeated or overtaken on its way to the   *)
(* simulator, and one waits in the list only while the buffer is full.     *)
THEOREM SentInOrder == SsSpec => []WireInOrder
  <1>1. SenderInv => WireInOrder
    <2> SUFFICES ASSUME SenderInv PROVE WireInOrder  OBVIOUS
    <2>1. Now.rerv = rerv /\ Now.active = active  BY DEF Now
    <2>2. ssWire \in Bytestrings /\ rerv \in Bytestrings /\ Waiting(active) \in Bytestrings
      BY <2>1, SenderFacts DEF SenderInv
    <2>3. ssWire \o (rerv \o Waiting(active)) = (ssWire \o rerv) \o Waiting(active)  BY Zenon, <2>2, Assoc
    <2>4. ssWire \o (rerv \o Waiting(active)) = ssDue  BY <2>1 DEF SenderInv, Stream
    <2> QED  BY <2>1, <2>3, <2>4 DEF SenderInv, Ordered, InBuffer, WireInOrder
  <1> QED  BY <1>1, SenderInvariance, PTL
=============================================================================
