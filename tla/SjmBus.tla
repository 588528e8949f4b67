------------------------------- MODULE SjmBus -------------------------------
(***************************************************************************)
(* The JBus as its simulated masters (sjm/c) share it: in every port an    *)
(* Arbiter that recomputes the grant from the registered request lines of  *)
(* all ports, and the output state machine of SJM::sjmProcessOutSigs that  *)
(* drives whole transactions from two queues.  All ports run on one clock: *)
(* a step is one call of SJM::InputValues in every port.                   *)
(*                                                                         *)
(* A port numbers the requests from itself: index i of port p is port      *)
(* (p + i) % NPorts, and index 0 its own.  Addresses, data, parity and ECC *)
(* are left out; a transaction is its kind.                                *)
(***************************************************************************)
EXTENDS Integers, Sequences, FiniteSets

CONSTANTS NPorts,       \* G_MAXPORTS
          Kinds,        \* the kinds of transaction the ports send
          QueueBound,   \* a queue this long gets no new transaction (bound)
          DeadCycle,    \* arb_deadcycle
          FlowControl   \* whether AOK and DOK are ever off

AllKinds == {"RD", "RDWB", "WRB", "WR16", "WR64", "INT", "INTACK",
             "READERR", "RET16", "RET64"}

ASSUME SjmBusAssumption ==
  /\ NPorts \in Nat \ {0, 1}
  /\ Kinds \subseteq AllKinds \ {"WRB"}
  /\ QueueBound \in Nat \ {0}
  /\ DeadCycle \in BOOLEAN
  /\ FlowControl \in BOOLEAN

Ports == 0 .. NPorts - 1
OutStates == {"IDLE", "ADDR", "DATA16", "DATA64", "RET64"}

VARIABLES port,    \* the state of every port
          rst,     \* j_rst is asserted
          clk      \* toggles with the clock

vars == <<port, rst, clk>>

---------------------------------------------------------------------------
(* Transactions *)

\* RDWB is a read whose victim goes out right behind it as a WRB.
Atomic(k) == k \in {"RDWB", "WRB"}
Multi(k)  == k \in {"WRB", "WR16", "WR64", "INT", "INTACK", "RET64"}
ReturnKind(k) == k \in {"READERR", "RET16", "RET64"}

\* Flow control: a read needs AOK, a write AOK and its target's DOK; the
\* write-back behind a read, interrupts and read data are exempt.
FlowBlocked(k, aok, dok) ==
  \/ k = "RD" /\ ~aok
  \/ k \in {"WR16", "WR64", "RDWB"} /\ ~(aok /\ dok)

---------------------------------------------------------------------------
(* Arbiter *)

\* Arbiter::Reset: grant to port 0.  Only port 0 resets the current grant.
ArbReset(p, s) ==
  [s EXCEPT !.req = FALSE, !.next = {},
            !.gnext = (NPorts - p) % NPorts,
            !.gcurr = IF p = 0 THEN 0 ELSE @,
            !.arst = @ + 1]

\* From the holder downwards, the first index that requests; the holder itself
\* when none does.
NextGrant(curr, g) ==
  LET at(d) == (g - d + NPorts) % NPorts
      D == {d \in Ports : at(d) \in curr}
  IN  IF D = {} THEN g ELSE at(CHOOSE d \in D : \A e \in D : d <= e)

\* Arbiter::Arbitrate: register requests and grant; for some cycles after a
\* reset the bus is not looked at and port 0 is made to request.
Arbitrate(p, s, lines) ==
  LET others == {i \in Ports \ {0} : (p + i) % NPorts \in lines}
      bus    == others \cup (IF s.req THEN {0} ELSE {})
      next   == IF s.arst = 0 THEN bus
                ELSE IF s.arst = 3 THEN s.next \cup {(NPorts - p) % NPorts}
                ELSE s.next
      arst   == IF s.arst = 0 \/ s.arst + 1 > 4 THEN 0 ELSE s.arst + 1
  IN  [s EXCEPT !.curr = s.next, !.gcurr = s.gnext, !.next = next, !.arst = arst,
                !.gnext = IF \E i \in s.next : i # s.gnext
                          THEN NextGrant(s.next, s.gnext) ELSE @]

HasGrant(s) == s.gnext = 0 /\ (DeadCycle => s.gcurr = 0)

RequestBus(s) == [s EXCEPT !.req = TRUE]
ReleaseBus(s) == [s EXCEPT !.req = FALSE]

\* Keeps the request as it is unless some other port asks.
RequestToHoldBus(s) ==
  IF HasGrant(s) /\ s.curr \ {0} # {} THEN ReleaseBus(s) ELSE s

---------------------------------------------------------------------------
(* The output state machine *)

outHoldForNextTrans(s) ==
  \/ s.outq # << >> /\ Multi(Head(s.outq))
  \/ s.rdq # << >>

HoldOrRelease(s) ==
  IF outHoldForNextTrans(s) THEN RequestToHoldBus(s) ELSE ReleaseBus(s)

\* Mutant: the queues never take turns.
outSwitchQueues_stuck(s) == [s EXCEPT !.q = "outq"]

outSwitchQueues(s) == [s EXCEPT !.q = IF @ = "outq" THEN "rdq" ELSE "outq"]

\* One round of the selection loop: the new state, and whether the loop ends.
TryQueue(s, aok, dok) ==
  LET k == Head(s[s.q])
      starts == HasGrant(s) /\ (s.req \/ ~(Multi(k) \/ Atomic(k)))
      popped == [s EXCEPT ![s.q] = Tail(@), !.st = "ADDR", !.trans = k]
  IN  IF s[s.q] = << >> THEN [s |-> outSwitchQueues(s), stop |-> FALSE]
      ELSE IF FlowBlocked(k, aok, dok)
      THEN IF s.rdq = << >> THEN [s |-> ReleaseBus(s), stop |-> TRUE]
           ELSE [s |-> outSwitchQueues(s), stop |-> FALSE]
      ELSE IF starts
      THEN [s |-> IF Atomic(k) THEN popped ELSE outSwitchQueues(popped), stop |-> TRUE]
      ELSE [s |-> RequestBus(s), stop |-> TRUE]

Select(s, aok, dok) ==
  LET r == TryQueue(s, aok, dok)
  IN  IF s.st # "IDLE" THEN s
      ELSE IF r.stop THEN r.s ELSE TryQueue(r.s, aok, dok).s

\* A read error packet takes one cycle.
ReadErrCycle(s) == [HoldOrRelease(s) EXCEPT !.st = "IDLE"]

\* The first quadword of read data, the only one of a 16 byte return.
DataRetCycle(s) ==
  IF s.trans = "RET64" THEN [s EXCEPT !.st = "RET64", !.cnt = 0]
  ELSE [HoldOrRelease(s) EXCEPT !.st = "IDLE"]

\* An interrupt has four quadwords of data, its acknowledgements none.
InterruptCycle(s) ==
  IF s.trans = "INT" THEN [s EXCEPT !.st = "DATA64", !.cnt = 0]
  ELSE [HoldOrRelease(s) EXCEPT !.st = "IDLE"]

\* A read or write: an atomic read keeps the bus for its write-back.
AddressCycle(s) ==
  CASE s.trans = "WR16" -> [HoldOrRelease(s) EXCEPT !.st = "DATA16"]
    [] s.trans \in {"WR64", "WRB"} -> [s EXCEPT !.st = "DATA64", !.cnt = 0]
    [] OTHER -> [(IF Atomic(s.trans) THEN s ELSE HoldOrRelease(s)) EXCEPT !.st = "IDLE"]

\* The first cycle of a transaction, by its type.
AddrCycle(s) ==
  CASE s.trans = "READERR"             -> ReadErrCycle(s)
    [] s.trans \in {"RET16", "RET64"}  -> DataRetCycle(s)
    [] s.trans \in {"INT", "INTACK"}   -> InterruptCycle(s)
    [] OTHER                           -> AddressCycle(s)

\* Mutant: the request falls two quadwords early.
Data64Cycle_early(s) ==
  LET n == s.cnt + 1 IN
  CASE n = 1 -> [HoldOrRelease(s) EXCEPT !.cnt = n]
    [] n = 4 -> [(IF Atomic(s.trans) THEN outSwitchQueues(s) ELSE s)
                   EXCEPT !.cnt = 0, !.st = "IDLE"]
    [] OTHER -> [s EXCEPT !.cnt = n]

\* A cycle of write data: the request falls with the third quadword.
Data64Cycle(s) ==
  LET n == s.cnt + 1 IN
  CASE n = 3 -> [HoldOrRelease(s) EXCEPT !.cnt = n]
    [] n = 4 -> [(IF Atomic(s.trans) THEN outSwitchQueues(s) ELSE s)
                   EXCEPT !.cnt = 0, !.st = "IDLE"]
    [] OTHER -> [s EXCEPT !.cnt = n]

\* A cycle of read data: the address cycle was the first quadword.
Ret64Cycle(s) ==
  LET n == s.cnt + 1 IN
  CASE n = 1 -> [s EXCEPT !.cnt = n]
    [] n = 2 -> [HoldOrRelease(s) EXCEPT !.cnt = n]
    [] OTHER -> [s EXCEPT !.cnt = 0, !.st = "IDLE"]

\* SJM::sjmProcessOutSigs: drv tells whether j_ad is driven, with a
\* transaction or, while the port has the grant, with an idle packet.
ProcessOutSigs(s0, aok, dok) ==
  LET s == Select(s0, aok, dok)
      t == CASE s.st = "ADDR"   -> AddrCycle(s)
             [] s.st = "DATA16" -> [s EXCEPT !.st = "IDLE"]
             [] s.st = "DATA64" -> Data64Cycle(s)
             [] s.st = "RET64"  -> Ret64Cycle(s)
             [] OTHER           -> s
  IN  [t EXCEPT !.drv = HasGrant(s) \/ s.st # "IDLE",
                !.last = s.st = "RET64" /\ t.st = "IDLE",
                !.trans = IF t.st = "IDLE" THEN "none" ELSE @]

---------------------------------------------------------------------------
(* One clock *)

RequestLines == {p \in Ports : port[p].req}

\* What SJM::Reset does to the port's queues and state machine.
PortReset(p, s) ==
  [ArbReset(p, s) EXCEPT !.outq = << >>, !.rdq = << >>, !.st = "IDLE",
                         !.trans = "none"]

Init ==
  /\ rst = TRUE /\ clk = 0
  /\ port = [p \in Ports |->
               PortReset(p, [next |-> {}, curr |-> {}, gnext |-> 0, gcurr |-> NPorts,
                             req |-> FALSE, arst |-> 0, outq |-> << >>, rdq |-> << >>,
                             q |-> "outq", st |-> "IDLE", cnt |-> 0, trans |-> "none",
                             drv |-> FALSE, last |-> FALSE])]

\* j_rst falls: every port resets, and drives what the bus needs.
AssertReset ==
  /\ ~rst
  /\ rst' = TRUE /\ clk' = 1 - clk
  /\ port' = [p \in Ports |-> ProcessOutSigs(PortReset(p, port[p]), TRUE, TRUE)]

\* A cycle of reset: the arbiter is reset again and arbitrates; j_rst may rise.
ResetCycle ==
  /\ rst
  /\ rst' \in BOOLEAN /\ clk' = 1 - clk
  /\ port' = [p \in Ports |->
       ProcessOutSigs(Arbitrate(p, ArbReset(p, port[p]), RequestLines), TRUE, TRUE)]

\* What the rest of the master may queue for its port before this cycle.
Arrivals(s) ==
  {<< >>} \cup
  {<<k>> : k \in {j \in Kinds : Len(s[IF ReturnKind(j) THEN "rdq" ELSE "outq"])
                                  < QueueBound}}

Enqueue(s, a) ==
  IF a = << >> THEN s
  ELSE IF ReturnKind(a[1]) THEN [s EXCEPT !.rdq = @ \o a]
  ELSE IF a[1] = "RDWB" THEN [s EXCEPT !.outq = @ \o <<"RDWB", "WRB">>]
  ELSE [s EXCEPT !.outq = @ \o a]

\* The port that the read data was for drops its request when it samples the last
\* quadword, a cycle after that was driven (sjmProcessInSigs).
Receive(s, sampled) == IF sampled THEN ReleaseBus(s) ELSE s

\* SJM::InputValues out of reset: arbitrate, sample, queue (sjmProcessInSigs, sjmCycle), drive.
RunCycle ==
  /\ ~rst
  /\ UNCHANGED rst /\ clk' = 1 - clk
  /\ \E a \in [Ports -> {<< >>} \cup {<<k>> : k \in Kinds}],
        aok \in (IF FlowControl THEN BOOLEAN ELSE {TRUE}),
        dok \in (IF FlowControl THEN BOOLEAN ELSE {TRUE}),
        dest \in (IF \E p \in Ports : port[p].last THEN Ports ELSE {NPorts}) :
       /\ \A p \in Ports : a[p] \in Arrivals(port[p])
       /\ port' = [p \in Ports |->
            ProcessOutSigs(Enqueue(Receive(Arbitrate(p, port[p], RequestLines), p = dest),
                                   a[p]), aok, dok)]

Next == AssertReset \/ ResetCycle \/ RunCycle

Spec == Init /\ [][Next]_vars

\* The clock does not stop.
FairSpec == Spec /\ []<><<clk' # clk>>_vars

---------------------------------------------------------------------------
(* Properties *)

TypeOK ==
  /\ rst \in BOOLEAN /\ clk \in 0 .. 1
  /\ \A p \in Ports :
       /\ port[p].next \subseteq Ports /\ port[p].curr \subseteq Ports
       /\ port[p].gnext \in Ports /\ port[p].gcurr \in Ports \cup {NPorts}
       /\ port[p].req \in BOOLEAN /\ port[p].drv \in BOOLEAN /\ port[p].last \in BOOLEAN
       /\ port[p].arst \in 0 .. 5 /\ port[p].cnt \in 0 .. 4
       /\ port[p].st \in OutStates \ {"ADDR"}
       /\ port[p].q \in {"outq", "rdq"}

\* The port that port p believes will have the grant next.
GrantSeenBy(p) == (p + port[p].gnext) % NPorts

\* Every port computes the grant alone, from its own registers: all of them
\* must come to the same port (Arbiter::Arbitrate).
GrantAgreement == \A p, r \in Ports : GrantSeenBy(p) = GrantSeenBy(r)

\* Two ports never drive j_ad in the same cycle, although data cycles are
\* driven without asking the arbiter again.
OneDriver == Cardinality({p \in Ports : port[p].drv}) <= 1

\* In dead-cycle mode the bus is idle for a cycle between two drivers.
Turnaround ==
  [][\A p, r \in Ports : DeadCycle /\ p # r /\ port[p].drv /\ ~rst /\ ~rst'
                          => ~port'[r].drv]_vars

\* A port in the middle of a transaction still has the grant: nobody's request
\* takes the bus between the address and the last quadword.
GrantCoversTransaction ==
  \A p \in Ports : port[p].st # "IDLE" => GrantSeenBy(p) = p

\* Read data and read errors leave the port however long AOK and DOK are off and
\* whatever else it has to send: the other end waits for them, and so may the
\* agent that turned AOK off.
ReturnsDrain == \A p \in Ports : []<>(port[p].rdq = << >>)
=============================================================================
