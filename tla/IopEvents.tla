----------------------------- MODULE IopEvents -----------------------------
(***************************************************************************)
(* Events of a diag that fire when a thread reaches a program counter      *)
(* (tools/pli/iop/event.cc, pc_trigger_call of iob_main.cc): warm reset,   *)
(* external interrupt, temperature trigger, clock stretch, and stalls of   *)
(* the crossbar towards (CPX) or from (PCX) one destination.               *)
(*                                                                         *)
(* The threads call with type 1, the chip's pins are driven by calls with  *)
(* type 3 and the stalls by calls with type 4, all from clocked blocks of  *)
(* the test bench that are not ordered.  The latch behind a stall is that  *)
(* of cpx_stall.v and pcx_stall.v: (on | held) & ~free, every cycle.       *)
(***************************************************************************)
EXTENDS Integers, Sequences, FiniteSets

CONSTANTS EvFiles,    \* event files: program counter |-> the events of it
          EvPorts,    \* destinations of a stall (0..7)
          EvCalls     \* bound: calls of the driving kinds

VARIABLES evReturns,  \* what which_event returns after an event: see below
          evLists,    \* pc_event: the events left at each program counter
          evPin,      \* per pin: set, ready, delay and what is driven
          evStall,    \* per direction: stall, ready, delay, done, on and free
          evHeld,     \* the latches of the stalls
          evWant,     \* history: what was asked for and for how long
          evCount

evVars == <<evReturns, evLists, evPin, evStall, evHeld, evWant, evCount>>

Pins == {"warmrst", "extint", "temptrig", "clk_stretch"}
Ways2 == {"cpx_stall", "pcx_stall"}

\* The events of all files.  What fires a pin has a delay; what stalls a
\* destination has the destination and for how long.
EvEvents == UNION {UNION {{f[pc][n] : n \in DOMAIN f[pc]} : pc \in DOMAIN f} : f \in EvFiles}
ASSUME EvAssumption ==
    /\ \A f \in EvFiles : f \in [DOMAIN f -> Seq(EvEvents)]
    /\ \A e \in EvEvents : /\ e.type \in Pins => e.wait \in Nat
                           /\ e.type \in Ways2 => e.bank \in EvPorts /\ e.num \in Nat

-----------------------------------------------------------------------------
(* set_warm, set_extint, set_temptrig, set_clkstretch                      *)
SetPin(pin, wait) == [pin EXCEPT !.set = TRUE, !.ready = FALSE, !.delay = wait]

\* Mutant: a stall that is on is released when the old delay is over.
set_stall_kept(s, port, num) == [s EXCEPT !.stall = @ \cup {port}]

\* set_cpxstall, set_pcxstall
set_stall(s, port, num) ==
    [s EXCEPT !.stall = @ \cup {port}, !.ready = @ \ {port}, !.delay[port] = num]

\* One event as pc_trigger_call carries it out; what prints and what empties
\* the caches leave the pins alone.
FirePin(pins, e) ==
    IF e.type \in Pins THEN [pins EXCEPT ![e.type] = SetPin(@, e.wait)] ELSE pins
FireStall(stalls, e) ==
    IF e.type \in Ways2 THEN [stalls EXCEPT ![e.type] = set_stall(@, e.bank, e.num)] ELSE stalls
Asked(want, e) ==
    CASE e.type \in Pins  -> [want EXCEPT !.pin[e.type].ask = <<IF e.type = "warmrst" THEN 0 ELSE e.wait>>]
      [] e.type \in Ways2 -> [want EXCEPT !.stall[e.type][e.bank].ask = <<e.num>>]
      [] OTHER            -> want

\* The events of a program counter, each taken off the list.  which_event
\* has no return statement after an event: a build either goes on, or drops
\* the event it took and stops.
FireAll(list, pins, stalls, want) ==
    LET fired[n \in 0..Len(list)] ==
          IF n = 0 THEN <<pins, stalls, want>>
          ELSE <<FirePin(fired[n-1][1], list[n]), FireStall(fired[n-1][2], list[n]),
                 Asked(fired[n-1][3], list[n])>>
    IN  fired[Len(list)]

Reach(pc) ==
    /\ evLists[pc] # <<>>
    /\ IF evReturns
       THEN LET f == FireAll(evLists[pc], evPin, evStall, evWant) IN
            /\ evLists' = [evLists EXCEPT ![pc] = <<>>]
            /\ evPin' = f[1] /\ evStall' = f[2] /\ evWant' = f[3]
       ELSE /\ evLists' = [evLists EXCEPT ![pc] = Tail(@)]
            /\ UNCHANGED <<evPin, evStall, evWant>>
    /\ UNCHANGED <<evReturns, evHeld, evCount>>

-----------------------------------------------------------------------------
(* checker: drive_warmrst lasts one cycle; the others wait out the delay.  *)
DrivePin(name, p) ==
    CASE p.set -> [p EXCEPT !.set = FALSE, !.ready = TRUE, !.on = TRUE]
      [] ~p.set /\ p.ready /\ (p.delay = 0 \/ name = "warmrst") -> [p EXCEPT !.ready = FALSE, !.on = FALSE]
      [] ~p.set /\ p.ready /\ p.delay > 0 /\ name # "warmrst" -> [p EXCEPT !.delay = @ - 1]
      [] ~p.set /\ ~p.ready -> p

\* history: how many more calls it should be on
Later(w) == IF w.ask # <<>> THEN [ask |-> <<>>, left |-> w.ask[1] + 1]
            ELSE [w EXCEPT !.left = IF @ > 0 THEN @ - 1 ELSE 0]

Checker ==
    /\ evCount < EvCalls /\ evCount' = evCount + 1
    /\ evPin' = [n \in Pins |-> DrivePin(n, evPin[n])]
    /\ evWant' = [evWant EXCEPT !.pin = [n \in Pins |-> Later(evWant.pin[n])]]
    /\ UNCHANGED <<evReturns, evLists, evStall, evHeld>>

-----------------------------------------------------------------------------
(* drive_cpxstall, drive_pcxstall: every port in turn.                     *)
Releases(s) == {i \in s.ready \ s.stall : s.delay[i] = 0}
DriveStall(s) ==
    LET rel == Releases(s)
        last == {i \in rel : \A j \in s.stall : j < i}
    IN  [s EXCEPT !.stall = {}, !.ready = (@ \cup s.stall) \ rel,
                  !.delay = [i \in EvPorts |-> IF i \in (s.ready \ s.stall) \ rel THEN @[i] - 1 ELSE @[i]],
                  !.done = IF s.stall = {} /\ rel = {} THEN @ ELSE last # {},
                  !.on = s.stall, !.free = rel]

\* cpx_checker: when nothing is pending the last release is taken back.
StallChecker(k) ==
    LET s == evStall[k] IN
    /\ evCount < EvCalls /\ evCount' = evCount + 1
    /\ evStall' = [evStall EXCEPT ![k] =
          IF s.stall \cup s.ready # {} THEN DriveStall(s)
          ELSE IF s.done THEN [s EXCEPT !.done = FALSE, !.free = {}] ELSE s]
    /\ evHeld' = [evHeld EXCEPT ![k] = (evStall'[k].on \cup @) \ evStall'[k].free]
    /\ evWant' = [evWant EXCEPT !.stall[k] = [i \in EvPorts |-> Later(evWant.stall[k][i])]]
    /\ UNCHANGED <<evReturns, evLists, evPin>>

-----------------------------------------------------------------------------
\* clear, read_evfile
EvInit ==
    /\ evReturns \in BOOLEAN /\ evLists \in EvFiles
    /\ evPin = [n \in Pins |-> [set |-> FALSE, ready |-> FALSE, delay |-> 0, on |-> FALSE]]
    /\ evStall = [k \in Ways2 |-> [stall |-> {}, ready |-> {}, delay |-> [i \in EvPorts |-> 0],
                                    done |-> FALSE, on |-> {}, free |-> {}]]
    /\ evHeld = [k \in Ways2 |-> {}]
    /\ evWant = [pin   |-> [n \in Pins |-> [ask |-> <<>>, left |-> 0]],
                 stall |-> [k \in Ways2 |-> [i \in EvPorts |-> [ask |-> <<>>, left |-> 0]]]]
    /\ evCount = 0

EvNext == \/ \E pc \in DOMAIN evLists : Reach(pc)
          \/ Checker
          \/ \E k \in Ways2 : StallChecker(k)

EvSpec == EvInit /\ [][EvNext]_evVars

-----------------------------------------------------------------------------
(* A pin is asserted and a destination stalled for exactly the calls the   *)
(* last event for it asked for, counted from the first call after it: an   *)
(* event that comes while one is on starts the time again, events for      *)
(* other destinations do not disturb it, and no release is left over to    *)
(* undo a later stall.                                                     *)
HeldAsAsked ==
    /\ \A n \in Pins : evPin[n].on = (evWant.pin[n].left > 0)
    /\ \A k \in Ways2 : evHeld[k] = {i \in EvPorts : evWant.stall[k][i].left > 0}
=============================================================================
