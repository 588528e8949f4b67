----------------------------- MODULE JbusThreads -----------------------------
(***************************************************************************)
(* The threads of the JBUS monitor and checker                             *)
(* (pli/jbus_mon/c/threaded_pli.cc, jbus.cc, jbus_interface.cc).  The      *)
(* simulator calls InputValues at every clock: it samples the signals,     *)
(* releases each thread through its semaphore sem and waits for each on    *)
(* sem_ack.  A thread runs between two waits; the checker's main thread    *)
(* forks check_reqs in the middle of a cycle, while the simulator may      *)
(* still be releasing threads.                                             *)
(***************************************************************************)
EXTENDS Naturals, Sequences

CONSTANTS
    Main, Forked,    \* the thread made by jbus_check_init and those it forks
    EventTimeout,    \* the timeout of wait_for_event
    MaxClocks        \* bound on simulator clocks

Threads == {Main} \union Forked

VARIABLES
    thList,          \* the list of thread_state, from the first
    thSem, thAck,    \* sem, sem_ack
    thNew, thFirst,  \* new_thread, first_cycle
    thPc,            \* "none", "run" or "wait" (in sem_wait)
    thEvent,         \* cycles left of wait_for_event
    thRan, thDue,    \* history: cycles run, cycles released
    simPc, simAt,    \* "idle", "post", "next" or "ack": where new_cycle is, and its th
    simClock         \* clocks so far; the value of the signals

thVars == <<thList, thSem, thAck, thNew, thFirst, thPc, thEvent, thRan, thDue, simPc, simAt, simClock>>
simVars == <<simPc, simAt, simClock>>

ThInit ==
    /\ thList = <<>>
    /\ thSem = [t \in Threads |-> 0] /\ thAck = [t \in Threads |-> 0]
    /\ thNew = [t \in Threads |-> TRUE] /\ thFirst = [t \in Threads |-> TRUE]
    /\ thPc = [t \in Threads |-> "none"] /\ thEvent = [t \in Threads |-> 0]
    /\ thRan = [t \in Threads |-> 0] /\ thDue = [t \in Threads |-> 0]
    /\ simPc = "idle" /\ simAt = 0 /\ simClock = 0

(* jbus_check_init: the thread is made suspended, then the bus, then the   *)
(* thread goes; once only.                                                 *)
jbus_check_init ==
    /\ thList = <<>>
    /\ thList' = <<Main>> /\ thPc' = [thPc EXCEPT ![Main] = "run"]
    /\ UNCHANGED <<thSem, thAck, thNew, thFirst, thEvent, thRan, thDue, simVars>>

(* thread_state::fork: the new state is linked at the end of the list      *)
(* before the thread is let go.                                            *)
fork(u) ==
    /\ thPc[Main] = "run" /\ ~thFirst[Main] /\ thEvent[Main] = 0 /\ thPc[u] = "none"
    /\ thList' = Append(thList, u) /\ thPc' = [thPc EXCEPT ![u] = "run"]
    /\ UNCHANGED <<thSem, thAck, thNew, thFirst, thEvent, thRan, thDue, simVars>>

(* wait_next_cycle up to sem_wait: the cycle is acknowledged, except the   *)
(* part before the first wait.                                             *)
AckedBy_always(t) == [thAck EXCEPT ![t] = @ + 1]
AckedBy(t) == [thAck EXCEPT ![t] = IF thFirst[t] THEN @ ELSE @ + 1]
\* Mutant: the first wait is not told from the later ones, so no cycle is acknowledged.
Suspend_first(t, n) ==
    /\ thPc[t] = "run" /\ thAck' = AckedBy(t)
    /\ thPc' = [thPc EXCEPT ![t] = "wait"] /\ thEvent' = [thEvent EXCEPT ![t] = n]
    /\ UNCHANGED <<thList, thSem, thNew, thFirst, thRan, thDue, simVars>>
Suspend(t, n) ==
    /\ thPc[t] = "run"
    /\ thAck' = AckedBy(t) /\ thFirst' = [thFirst EXCEPT ![t] = FALSE]
    /\ thPc' = [thPc EXCEPT ![t] = "wait"] /\ thEvent' = [thEvent EXCEPT ![t] = n]
    /\ UNCHANGED <<thList, thSem, thNew, thRan, thDue, simVars>>
wait_next_cycle(t) == thEvent[t] = 0 /\ Suspend(t, 0)

(* wait_for_event: one clock before looking, then up to timeout more while *)
(* the signal (external) differs.                                          *)
wait_for_event(t) == thEvent[t] = 0 /\ Suspend(t, EventTimeout + 1)
NoEvent(t) == thEvent[t] > 1 /\ Suspend(t, thEvent[t] - 1)
Event(t) ==
    /\ thPc[t] = "run" /\ thEvent[t] > 0 /\ thEvent' = [thEvent EXCEPT ![t] = 0]
    /\ UNCHANGED <<thList, thSem, thAck, thNew, thFirst, thPc, thRan, thDue, simVars>>

(* sem_wait returns. *)
Resume(t) ==
    /\ thPc[t] = "wait" /\ thSem[t] > 0
    /\ thSem' = [thSem EXCEPT ![t] = @ - 1] /\ thPc' = [thPc EXCEPT ![t] = "run"]
    /\ thRan' = [thRan EXCEPT ![t] = @ + 1]
    /\ UNCHANGED <<thList, thAck, thNew, thFirst, thEvent, thDue, simVars>>

(* InputValues: the signals are sampled, then new_cycle starts. *)
InputValues ==
    /\ simPc = "idle" /\ thList # <<>> /\ simClock < MaxClocks
    /\ simPc' = "post" /\ simAt' = 1 /\ simClock' = simClock + 1
    /\ UNCHANGED <<thList, thSem, thAck, thNew, thFirst, thPc, thEvent, thRan, thDue>>

(* new_cycle, first loop: release the thread (new_thread is the            *)
(* simulator's own), and only then read its next, which a fork of the      *)
(* thread just released may have set meanwhile.                            *)
Post ==
    /\ simPc = "post" /\ simPc' = "next"
    /\ LET t == thList[simAt] IN
       /\ thSem' = [thSem EXCEPT ![t] = @ + 1] /\ thNew' = [thNew EXCEPT ![t] = FALSE]
       /\ thDue' = [thDue EXCEPT ![t] = @ + 1]
    /\ UNCHANGED <<thList, thAck, thFirst, thPc, thEvent, thRan, simAt, simClock>>
NextThread ==
    /\ simPc = "next"
    /\ \/ simAt < Len(thList) /\ simPc' = "post" /\ simAt' = simAt + 1
       \/ simAt = Len(thList) /\ simPc' = "ack" /\ simAt' = 1
    /\ UNCHANGED <<thList, thSem, thAck, thNew, thFirst, thPc, thEvent, thRan, thDue, simClock>>

(* Second loop: wait for those that were released.  Main forks only in a   *)
(* cycle it has not acknowledged, and is first in the list: the list does  *)
(* not grow between its sem_wait and the read of its next.                 *)
Awaited(t) == ~thNew[t]
WaitAck ==
    /\ simPc = "ack"
    /\ LET t == thList[simAt]
           last == simAt = Len(thList)
       IN /\ Awaited(t) => thAck[t] > 0
          /\ thAck' = [thAck EXCEPT ![t] = IF Awaited(t) THEN @ - 1 ELSE @]
          /\ simPc' = (IF last THEN "idle" ELSE "ack")
          /\ simAt' = IF last THEN 0 ELSE simAt + 1
    /\ UNCHANGED <<thList, thSem, thNew, thFirst, thPc, thEvent, thRan, thDue, simClock>>

Thread(t) == wait_next_cycle(t) \/ wait_for_event(t) \/ NoEvent(t) \/ Event(t) \/ Resume(t)
ThNext ==
    \/ jbus_check_init
    \/ \E u \in Forked : fork(u)
    \/ \E t \in Threads : Thread(t)
    \/ InputValues \/ Post \/ NextThread \/ WaitAck

ThSpec == ThInit /\ [][ThNext]_thVars

(* The simulator runs, a thread that may run does, and its code between    *)
(* two waits is finite (it has no loop without a wait).                    *)
ThFairness ==
    /\ WF_thVars(Post \/ NextThread \/ WaitAck)
    /\ \A t \in Threads : WF_thVars(Thread(t))

(* Lock step: whenever the simulator is between two cycles, and may change *)
(* the signals, every thread that was ever released sits in sem_wait with  *)
(* no credit left on either semaphore, having run once for each cycle it   *)
(* was released for; a thread forked too late to be released has not got   *)
(* past its first wait.                                                    *)
AtBarrier ==
    simPc = "idle" => \A t \in Threads :
        /\ thSem[t] = 0 /\ thAck[t] = 0 /\ thRan[t] = thDue[t]
        /\ ~thNew[t] => thPc[t] = "wait"
        /\ thNew[t] => thFirst[t] \/ thPc[t] = "wait"

(* Every clock ends: new_cycle is not left waiting for a thread that was   *)
(* never released, nor a thread for a clock that was handed to nobody.     *)
ClocksEnd == simPc # "idle" ~> simPc = "idle"
=============================================================================
