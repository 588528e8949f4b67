----------------------------- MODULE JbusChecker -----------------------------
(***************************************************************************)
(* The arbitration thread of the JBUS protocol checker                     *)
(* (pli/jbus_mon/c/jbus_checker.cc, check_reqs and next_req_cycle): it     *)
(* follows who drives each cycle and whether a master keeps its request up *)
(* to the last cycle but one.                                              *)
(*                                                                         *)
(* A step is one bus cycle: the agents (external) choose what the bus      *)
(* carries, then the thread runs until its next wait.  Every port is on    *)
(* the local segment: the thread's alignment of commands with requests     *)
(* assumes it (see the README).                                            *)
(***************************************************************************)
EXTENDS Integers, Sequences, FiniteSets

CONSTANTS
    ChPorts,       \* ports that request the bus
    ChLocal,       \* valid_ports: ports whose requests are seen without the repeater's delay
    ChModes,       \* bus modes: "nodead", "dead", "arthur"
    ChLengths,     \* cycles of the transactions used
    MaxCycles      \* bound on the cycles of a behaviour

\* The bus has seven ports, all of them here without the repeater's delay.
ASSUME ChAssumption == /\ ChPorts \subseteq 0..6 /\ ChLocal = ChPorts
                       /\ ChLengths \subseteq Nat \ {0}

VARIABLES
    \* check_reqs
    rqMode,
    rqNew, rqNewArb, rqReqs, rqArb, rqDouble,    \* new_reqs, new_arb_reqs, reqs, arb_reqs, reqs_double_delay
    rqDrv, rqDead,                               \* <<drv, drv_d, drv_d2>>, dead_cycle
    rqPc, rqCount, rqCurr,                       \* where check_reqs waits, data_cycle_count, curr_driver
    rqError,
    bsRaw,      \* external: the requests of this and the last two cycles
    bsOwner,    \* external: the master of this cycle and of the last
    bsLeft,     \* external: cycles the transaction in progress needs, this one included
    bsShow,     \* external: the length of the command the bus seems to carry
    bsTenure,   \* external: this is the first transaction of a master that requested up to its grant
    bsEarly, bsCollide,   \* external: a master broke the rules; two masters drive
    bsCycles

rqVars == <<rqMode, rqNew, rqNewArb, rqReqs, rqArb, rqDouble, rqDrv, rqDead, rqPc, rqCount, rqCurr, rqError,
            bsRaw, bsOwner, bsLeft, bsShow, bsTenure, bsEarly, bsCollide, bsCycles>>

(* current_driver: a driver keeps the bus while it requests or nobody does, *)
(* else the next lower requester has it.                                    *)
Lower(p, i) == (p - i + 7) % 7
Driver(reqs, last) ==
    IF last \in reqs \/ reqs = {} THEN last
    ELSE Lower(last, CHOOSE i \in 1..6 : Lower(last, i) \in reqs /\ \A j \in 1..i-1 : Lower(last, j) \notin reqs)

(***************************************************************************)
(* check_reqs                                                              *)
(***************************************************************************)
arthur == rqMode = "arthur"
dead_cycles == rqMode \in {"dead", "arthur"}

(* The master of this cycle and the one before, as next_req_cycle returns  *)
(* them: one cycle later still when the receivers sample dead cycles.      *)
New(drv) == IF arthur THEN drv[2] ELSE drv[1]
Old(drv) == IF arthur THEN drv[3] ELSE drv[2]

(* next_req_cycle up to its wait: arbitration for the next cycle. *)
Arbitrate ==
    LET drv == <<Driver(rqArb', rqDrv[1]), rqDrv[1], rqDrv[2]>>
    IN /\ rqDrv' = drv
       /\ rqDead' = (New(drv) # Old(drv) /\ dead_cycles /\ ~arthur)

(* next_req_cycle after its wait: the requests seen in the last cycle are  *)
(* current, those of ports behind the repeater a cycle later.              *)
Sample(raw) ==
    /\ rqReqs' = rqNew /\ rqArb' = rqNewArb /\ rqNewArb' = raw
    /\ rqNew' = {p \in ChPorts : IF p \in ChLocal THEN p \in raw ELSE p \in rqDouble}
    /\ rqDouble' = raw \ ChLocal

(* A transaction's cycles, read from the bus when the last one is over. *)
Fetched(count) == IF count = 0 THEN bsShow' ELSE count
Wait(pc, count, curr, err) == [pc |-> pc, count |-> count, curr |-> curr, error |-> err]

(* The top of the loop, at a cycle whose master may differ from the last   *)
(* one.  Without a change a master that does not request may only send     *)
(* single cycles, and one that does may send anything.                     *)
Top(count, err) ==
    IF New(rqDrv) # Old(rqDrv)
    THEN IF dead_cycles THEN Wait("dead", IF arthur THEN bsShow' ELSE 1, 0, err)
         ELSE Wait("changed", Fetched(count), 0, err)
    ELSE IF Old(rqDrv) \in rqReqs' THEN Wait("hold", count, 0, err)
    ELSE IF count = 0 THEN Wait("single", bsShow', 0, err)
    ELSE Wait("skip", 0, 0, err)

(* The loop while the new master requests; it must not lower its request   *)
(* before the last cycle but one.                                          *)
Tenure_last(count, curr) ==
    IF curr \in rqReqs' THEN Wait("tenure", count, curr, FALSE) ELSE Top(count, count > 0)
Tenure(count, curr) ==
    IF curr \in rqReqs' THEN Wait("tenure", count, curr, FALSE) ELSE Top(count, count > 1)
InTenure == Tenure(Fetched(IF rqCount > 0 THEN rqCount - 1 ELSE 0), rqCurr)

(* After the first wait of a change of master, while dead cycles last and  *)
(* after them.                                                             *)
AfterDead(count) == IF rqDead THEN Wait("dead", 1, 0, FALSE) ELSE Tenure(Fetched(count), New(rqDrv))
InDead == AfterDead(rqCount - 1)
InChanged == Tenure(Fetched(rqCount - 1), New(rqDrv))

InSingle == Top(0, rqCount # 1 /\ Old(rqDrv) \notin rqReqs')
InHold == IF Old(rqDrv) \in rqReqs' THEN Wait("hold", rqCount, 0, FALSE) ELSE Top(1, FALSE)

check_reqs ==
    LET w == CASE rqPc = "tenure" -> InTenure [] rqPc = "dead" -> InDead [] rqPc = "changed" -> InChanged
               [] rqPc = "single" -> InSingle [] rqPc = "hold" -> InHold [] rqPc = "skip" -> Top(0, FALSE)
    IN rqPc' = w.pc /\ rqCount' = w.count /\ rqCurr' = w.curr /\ rqError' = (rqError \/ w.error)

(***************************************************************************)
(* external: the bus.  The master of a cycle follows from the requests two *)
(* cycles before, or three in arthur mode; in "dead" mode the first cycle  *)
(* of a new master is dead.                                                *)
(***************************************************************************)
Master == Driver(IF arthur THEN bsRaw[3] ELSE bsRaw[2], bsOwner[1])
Cycle ==
    /\ ~rqError /\ bsCollide = "no" /\ bsCycles < MaxCycles
    /\ LET master == Master
           changed == master # bsOwner[1]
           dead == changed /\ rqMode = "dead"
           left == IF bsLeft > 0 THEN bsLeft - 1 ELSE 0
       IN \E raw \in SUBSET ChPorts, n \in ChLengths, show \in ChLengths :
          /\ bsRaw[1] \ raw \subseteq {master}
          /\ bsRaw' = <<raw, bsRaw[1], bsRaw[2]>>
          /\ bsOwner' = <<master, bsOwner[1]>>
          /\ bsCollide' = IF ~changed \/ left = 0 THEN "no" ELSE IF bsTenure THEN "granted" ELSE "kept"
          /\ bsLeft' = IF left > 0 THEN left ELSE IF dead THEN 0 ELSE n
          /\ left > 0 \/ dead => n = 1
          /\ left = 0 /\ ~dead => show = n
          /\ bsShow' = show
          /\ bsEarly' = (bsEarly \/ (bsLeft' > 1 /\ master \notin bsRaw[1]))
          /\ bsTenure' = IF changed THEN \A i \in 1..(IF arthur THEN 3 ELSE 2) : master \in bsRaw[i]
                         ELSE bsTenure /\ (left > 0 \/ bsLeft = 0)
          /\ Sample(raw) /\ check_reqs /\ Arbitrate
    /\ bsCycles' = bsCycles + 1
    /\ UNCHANGED rqMode

RqInit ==
    /\ rqMode \in ChModes
    /\ rqNew = {} /\ rqNewArb = {} /\ rqReqs = {} /\ rqArb = {} /\ rqDouble = {}
    /\ rqDrv = <<0, 0, 0>> /\ rqDead = FALSE
    /\ rqPc = "skip" /\ rqCount = 0 /\ rqCurr = 0 /\ rqError = FALSE
    /\ bsRaw = <<{}, {}, {}>> /\ bsOwner = <<0, 0>> /\ bsLeft = 0 /\ bsShow = 1
    /\ bsTenure = FALSE /\ bsEarly = FALSE /\ bsCollide = "no" /\ bsCycles = 0
RqNext == Cycle
RqSpec == RqInit /\ [][RqNext]_rqVars

(* check_reqs reports an arbitration error only when a master lowered its  *)
(* request, or never raised it, with more than one cycle to go, in every   *)
(* bus mode; and except in arthur mode two masters never drive together    *)
(* unseen: when the first transaction of a master runs into the next       *)
(* master's, an error has been reported by the time the second drives.     *)
ArbitrationExact ==
    /\ rqError => bsEarly
    /\ bsCollide = "granted" /\ ~arthur => rqError
=============================================================================
