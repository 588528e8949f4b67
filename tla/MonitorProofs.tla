---------------------------- MODULE MonitorProofs ----------------------------
(***************************************************************************)
(* Proofs about the JBUS monitor's threads and its arbitration checker.    *)
(*                                                                         *)
(* The lock step of the simulator and the threads, for any set of forked   *)
(* threads and any number of clocks: a thread is owed from the moment      *)
(* new_cycle posts its semaphore until new_cycle has taken its             *)
(* acknowledgement; while it is owed it is in one of three places, and     *)
(* while it is not both its semaphores are zero.                           *)
(***************************************************************************)
EXTENDS JbusThreads, JbusChecker, TLAPS

\* thList[k] was released in this clock and has not been waited for yet.
Pending(k) == \/ simPc = "post" /\ k < simAt
              \/ simPc = "next" /\ k <= simAt
              \/ simPc = "ack" /\ k >= simAt

Owed(t) == ~thNew[t] /\ \E k \in 1..Len(thList) : thList[k] = t /\ Pending(k)

(* Where an owed thread is: not yet resumed, running its cycle, or back in *)
(* sem_wait with its acknowledgement given.                                *)
OwedState(first, pc, sem, ack, ran, due) ==
    \/ sem = 1 /\ ack = 0 /\ due = ran + 1 /\ (pc = "run" => first)
    \/ sem = 0 /\ ack = 0 /\ due = ran /\ pc = "run" /\ ~first
    \/ sem = 0 /\ ack = 1 /\ due = ran /\ pc = "wait"

QuietState(new, first, pc, sem, ack, ran, due) ==
    /\ sem = 0 /\ ack = 0 /\ due = ran
    /\ ~new => pc = "wait"
    /\ pc = "run" => first

\* A thread is past its first wait exactly when it has waited.
PcState(new, first, pc) ==
    /\ pc = "none" => new /\ first
    /\ pc = "wait" => ~first

ThreadOK(t) ==
    /\ PcState(thNew[t], thFirst[t], thPc[t])
    /\ Owed(t) => OwedState(thFirst[t], thPc[t], thSem[t], thAck[t], thRan[t], thDue[t])
    /\ ~Owed(t) => QuietState(thNew[t], thFirst[t], thPc[t], thSem[t], thAck[t],
                              thRan[t], thDue[t])

ThTypeOK ==
    /\ thList \in Seq(Threads)
    /\ thSem \in [Threads -> Nat] /\ thAck \in [Threads -> Nat]
    /\ thNew \in [Threads -> BOOLEAN] /\ thFirst \in [Threads -> BOOLEAN]
    /\ thPc \in [Threads -> {"none", "run", "wait"}]
    /\ thRan \in [Threads -> Nat] /\ thDue \in [Threads -> Nat]
    /\ simPc \in {"idle", "post", "next", "ack"}

\* The list holds every thread that was made, once, and new_cycle is in it.
ListOK ==
    /\ \A k, l \in 1..Len(thList) : thList[k] = thList[l] => k = l
    /\ \A t \in Threads : thPc[t] # "none" <=> \E k \in 1..Len(thList) : thList[k] = t
    /\ simPc # "idle" => simAt \in 1..Len(thList)

ThInv == ThTypeOK /\ ListOK /\ \A t \in Threads : ThreadOK(t)

-----------------------------------------------------------------------------
(* Steps of one thread: it is owed after the step as it was before.        *)

LEMMA OwedSame ==
    ASSUME thList' = thList, simPc' = simPc, simAt' = simAt,
           NEW t, thNew'[t] = thNew[t]
    PROVE  Owed(t)' <=> Owed(t)
  BY DEF Owed, Pending

\* A thread that the step does not touch.
LEMMA Untouched ==
    ASSUME NEW t, ThreadOK(t), Owed(t)' <=> Owed(t),
           thNew'[t] = thNew[t], thFirst'[t] = thFirst[t], thPc'[t] = thPc[t],
           thSem'[t] = thSem[t], thAck'[t] = thAck[t],
           thRan'[t] = thRan[t], thDue'[t] = thDue[t]
    PROVE  ThreadOK(t)'
  BY DEF ThreadOK

LEMMA SuspendInv ==
    ASSUME ThInv, NEW t \in Threads, NEW n, Suspend(t, n)
    PROVE  ThInv'
  <1>1. /\ thPc[t] = "run" /\ thPc' = [thPc EXCEPT ![t] = "wait"]
        /\ thAck' = [thAck EXCEPT ![t] = IF thFirst[t] THEN @ ELSE @ + 1]
        /\ thFirst' = [thFirst EXCEPT ![t] = FALSE]
        /\ UNCHANGED <<thList, thSem, thNew, thRan, thDue, simVars>>
    BY DEF Suspend, AckedBy
  <1>2. ThTypeOK'
    BY <1>1 DEF ThInv, ThTypeOK, simVars
  <1>3. ListOK'
    BY <1>1 DEF ThInv, ThTypeOK, ListOK, simVars
  <1>4. \A s \in Threads : Owed(s)' <=> Owed(s)
    BY <1>1, OwedSame DEF simVars
  <1>5. ASSUME NEW s \in Threads PROVE ThreadOK(s)'
    <2>0. ThreadOK(s)
      BY DEF ThInv
    <2>1. CASE s # t
      <3>1. /\ thNew'[s] = thNew[s] /\ thFirst'[s] = thFirst[s] /\ thPc'[s] = thPc[s]
            /\ thSem'[s] = thSem[s] /\ thAck'[s] = thAck[s]
            /\ thRan'[s] = thRan[s] /\ thDue'[s] = thDue[s]
        BY <1>1, <2>1 DEF ThInv, ThTypeOK
      <3> QED BY <1>4, <2>0, <3>1, Untouched
    <2>2. CASE s = t
      <3>1. /\ ~thFirst'[t] /\ thPc'[t] = "wait" /\ thNew'[t] = thNew[t]
            /\ thSem'[t] = thSem[t] /\ thRan'[t] = thRan[t] /\ thDue'[t] = thDue[t]
            /\ thAck'[t] = IF thFirst[t] THEN thAck[t] ELSE thAck[t] + 1
        BY <1>1 DEF ThInv, ThTypeOK
      <3>2. PcState(thNew'[t], thFirst'[t], thPc'[t])
        BY <3>1 DEF PcState
      <3>3. CASE Owed(t)
        <4>1. OwedState(thFirst[t], thPc[t], thSem[t], thAck[t], thRan[t], thDue[t])
          BY <2>0, <2>2, <3>3 DEF ThreadOK
        <4>2. OwedState(thFirst'[t], thPc'[t], thSem'[t], thAck'[t], thRan'[t], thDue'[t])
          BY <1>1, <3>1, <4>1 DEF OwedState
        <4> QED BY <1>4, <2>2, <3>2, <3>3, <4>2 DEF ThreadOK
      <3>4. CASE ~Owed(t)
        <4>1. QuietState(thNew[t], thFirst[t], thPc[t], thSem[t], thAck[t], thRan[t],
                         thDue[t])
          BY <2>0, <2>2, <3>4 DEF ThreadOK
        <4>2. QuietState(thNew'[t], thFirst'[t], thPc'[t], thSem'[t], thAck'[t],
                         thRan'[t], thDue'[t])
          BY <1>1, <3>1, <4>1 DEF QuietState
        <4> QED BY <1>4, <2>2, <3>2, <3>4, <4>2 DEF ThreadOK
      <3> QED BY <3>3, <3>4
    <2> QED BY <2>1, <2>2
  <1> QED BY <1>2, <1>3, <1>5 DEF ThInv

LEMMA ResumeInv ==
    ASSUME ThInv, NEW t \in Threads, Resume(t)
    PROVE  ThInv'
  <1>1. /\ thPc[t] = "wait" /\ thSem[t] > 0
        /\ thPc' = [thPc EXCEPT ![t] = "run"]
        /\ thSem' = [thSem EXCEPT ![t] = thSem[t] - 1]
        /\ thRan' = [thRan EXCEPT ![t] = thRan[t] + 1]
        /\ UNCHANGED <<thList, thAck, thNew, thFirst, thDue, simVars>>
    BY DEF Resume
  <1>2. thSem[t] \in Nat /\ thRan[t] \in Nat /\ thDue[t] \in Nat
    BY DEF ThInv, ThTypeOK
  <1>3. ThTypeOK'
    BY <1>1, <1>2 DEF ThInv, ThTypeOK, simVars
  <1>4. ListOK'
    BY <1>1 DEF ThInv, ThTypeOK, ListOK, simVars
  <1>5. \A s \in Threads : Owed(s)' <=> Owed(s)
    BY <1>1, OwedSame DEF simVars
  <1>6. ASSUME NEW s \in Threads PROVE ThreadOK(s)'
    <2>0. ThreadOK(s)
      BY DEF ThInv
    <2>1. CASE s # t
      <3>1. /\ thNew'[s] = thNew[s] /\ thFirst'[s] = thFirst[s] /\ thPc'[s] = thPc[s]
            /\ thSem'[s] = thSem[s] /\ thAck'[s] = thAck[s]
            /\ thRan'[s] = thRan[s] /\ thDue'[s] = thDue[s]
        BY <1>1, <2>1 DEF ThInv, ThTypeOK
      <3> QED BY <1>5, <2>0, <3>1, Untouched
    <2>2. CASE s = t
      <3>1. /\ thFirst'[t] = thFirst[t] /\ thPc'[t] = "run" /\ thNew'[t] = thNew[t]
            /\ thSem'[t] = thSem[t] - 1 /\ thRan'[t] = thRan[t] + 1
            /\ thDue'[t] = thDue[t] /\ thAck'[t] = thAck[t]
        BY <1>1 DEF ThInv, ThTypeOK
      <3>2. ~thFirst[t]
        BY <1>1, <2>0, <2>2 DEF ThreadOK, PcState
      <3>3. PcState(thNew'[t], thFirst'[t], thPc'[t])
        BY <3>1 DEF PcState
      <3>4. Owed(t)
        BY <1>1, <2>0, <2>2 DEF ThreadOK, QuietState
      <3>5. OwedState(thFirst[t], thPc[t], thSem[t], thAck[t], thRan[t], thDue[t])
        BY <2>0, <2>2, <3>4 DEF ThreadOK
      <3>6. OwedState(thFirst'[t], thPc'[t], thSem'[t], thAck'[t], thRan'[t], thDue'[t])
        BY <1>1, <1>2, <3>1, <3>2, <3>5 DEF OwedState
      <3> QED BY <1>5, <2>2, <3>3, <3>4, <3>6 DEF ThreadOK
    <2> QED BY <2>1, <2>2
  <1> QED BY <1>3, <1>4, <1>6 DEF ThInv

-----------------------------------------------------------------------------
(* A thread is made: it runs, and is owed nothing until it is released.    *)
LEMMA MadeInv ==
    ASSUME ThInv, NEW u \in Threads, thPc[u] = "none",
           thList' = Append(thList, u), thPc' = [thPc EXCEPT ![u] = "run"],
           UNCHANGED <<thSem, thAck, thNew, thFirst, thRan, thDue, simVars>>
    PROVE  ThInv'
  <1>1. /\ Len(thList') = Len(thList) + 1 /\ thList'[Len(thList) + 1] = u
        /\ \A k \in 1..Len(thList) : thList'[k] = thList[k]
        /\ Len(thList) \in Nat
    BY DEF ThInv, ThTypeOK
  <1>2. ThTypeOK'
    BY DEF ThInv, ThTypeOK, simVars
  <1>3. \A k \in 1..Len(thList) : thList[k] # u
    BY DEF ThInv, ListOK
  <1>4. ListOK'
    <2>1. \A k, l \in 1..Len(thList') : thList'[k] = thList'[l] => k = l
      BY <1>1, <1>3 DEF ThInv, ListOK
    <2>2. \A t \in Threads :
             thPc'[t] # "none" <=> \E k \in 1..Len(thList') : thList'[k] = t
      <3> SUFFICES ASSUME NEW t \in Threads
                   PROVE  thPc'[t] # "none" <=> \E k \in 1..Len(thList') : thList'[k] = t
        OBVIOUS
      <3>1. CASE t = u
        <4>1. thPc'[u] = "run"
          BY DEF ThInv, ThTypeOK
        <4>2. Len(thList) + 1 \in 1..Len(thList') /\ thList'[Len(thList) + 1] = u
          BY <1>1
        <4> QED BY <3>1, <4>1, <4>2
      <3>2. CASE t # u
        BY <1>1, <3>2 DEF ThInv, ThTypeOK, ListOK
      <3> QED BY <3>1, <3>2
    <2>3. simPc' # "idle" => simAt' \in 1..Len(thList')
      BY <1>1 DEF ThInv, ListOK, simVars
    <2> QED BY <2>1, <2>2, <2>3 DEF ListOK
  <1>5. ASSUME NEW s \in Threads PROVE ThreadOK(s)'
    <2>0. ThreadOK(s)
      BY DEF ThInv
    <2>1. CASE s # u
      <3>1. Owed(s)' <=> Owed(s)
        BY <1>1, <2>1 DEF Owed, Pending, simVars
      <3>2. /\ thNew'[s] = thNew[s] /\ thFirst'[s] = thFirst[s] /\ thPc'[s] = thPc[s]
            /\ thSem'[s] = thSem[s] /\ thAck'[s] = thAck[s]
            /\ thRan'[s] = thRan[s] /\ thDue'[s] = thDue[s]
        BY <2>1 DEF ThInv, ThTypeOK
      <3> QED BY <2>0, <3>1, <3>2, Untouched
    <2>2. CASE s = u
      <3>1. thNew[u] /\ thFirst[u] /\ thPc'[u] = "run"
        BY <2>0, <2>2 DEF ThreadOK, PcState, ThInv, ThTypeOK
      <3>2. ~Owed(u) /\ ~Owed(u)'
        BY <3>1 DEF Owed
      <3>3. QuietState(thNew[u], thFirst[u], thPc[u], thSem[u], thAck[u], thRan[u],
                       thDue[u])
        BY <2>0, <2>2, <3>2 DEF ThreadOK
      <3>4. QuietState(thNew'[u], thFirst'[u], thPc'[u], thSem'[u], thAck'[u],
                       thRan'[u], thDue'[u])
        BY <3>1, <3>3 DEF QuietState
      <3>5. PcState(thNew'[u], thFirst'[u], thPc'[u])
        BY <3>1 DEF PcState
      <3> QED BY <2>2, <3>2, <3>4, <3>5 DEF ThreadOK
    <2> QED BY <2>1, <2>2
  <1> QED BY <1>2, <1>4, <1>5 DEF ThInv

LEMMA CheckInitInv ==
    ASSUME ThInv, jbus_check_init
    PROVE  ThInv'
  <1>1. /\ thList = << >> /\ thList' = <<Main>> /\ Main \in Threads
        /\ thPc' = [thPc EXCEPT ![Main] = "run"]
        /\ UNCHANGED <<thSem, thAck, thNew, thFirst, thRan, thDue, simVars>>
    BY DEF jbus_check_init, Threads
  <1>2. thPc[Main] = "none"
    BY <1>1 DEF ThInv, ListOK
  <1>3. thList' = Append(thList, Main)
    BY <1>1
  <1> QED BY <1>1, <1>2, <1>3, MadeInv

-----------------------------------------------------------------------------
(* new_cycle.                                                              *)

LEMMA InputValuesInv ==
    ASSUME ThInv, InputValues
    PROVE  ThInv'
  <1>1. /\ simPc = "idle" /\ thList # << >> /\ simPc' = "post" /\ simAt' = 1
        /\ UNCHANGED <<thList, thSem, thAck, thNew, thFirst, thPc, thRan, thDue>>
    BY DEF InputValues
  <1>2. ThTypeOK'
    BY <1>1 DEF ThInv, ThTypeOK
  <1>3. ListOK'
    <2>1. 1 \in 1..Len(thList)
      BY <1>1 DEF ThInv, ThTypeOK
    <2> QED BY <1>1, <2>1 DEF ThInv, ListOK
  <1>4. \A s \in Threads : ~Owed(s) /\ ~Owed(s)'
    BY <1>1 DEF Owed, Pending
  <1>5. \A s \in Threads : ThreadOK(s)'
    BY <1>1, <1>4, Untouched DEF ThInv
  <1> QED BY <1>2, <1>3, <1>5 DEF ThInv

\* The step of new_cycle from one thread of its list to the next.
LEMMA OthersSame ==
    ASSUME ThInv, NEW s \in Threads, s # thList[simAt], simPc # "idle",
           thList' = thList, thNew'[s] = thNew[s],
           \/ simPc = "post" /\ simPc' = "next" /\ simAt' = simAt
           \/ simPc = "ack" /\ simPc' = "ack" /\ simAt' = simAt + 1
           \/ simPc = "ack" /\ simPc' = "idle" /\ simAt = Len(thList)
    PROVE  Owed(s)' <=> Owed(s)
  <1>1. simAt \in 1..Len(thList) /\ Len(thList) \in Nat
    BY DEF ThInv, ThTypeOK, ListOK
  <1>2. simPc \in {"post", "next", "ack"}
    BY DEF ThInv, ThTypeOK
  <1>3. ASSUME NEW k \in 1..Len(thList), thList[k] = s
        PROVE  Pending(k)' <=> Pending(k)
    <2>1. k # simAt
      BY <1>3
    <2> QED BY <1>1, <1>2, <2>1 DEF Pending
  <1> QED BY <1>3 DEF Owed

LEMMA PostInv ==
    ASSUME ThInv, Post
    PROVE  ThInv'
  <1>0. simPc = "post" /\ simAt \in 1..Len(thList) /\ Len(thList) \in Nat
    <2>1. simPc = "post"
      BY DEF Post
    <2> QED BY <2>1 DEF ThInv, ThTypeOK, ListOK
  <1>01. thList[simAt] \in Threads
    BY <1>0 DEF ThInv, ThTypeOK
  <1>2. PICK i \in 1..Len(thList), t \in Threads : i = simAt /\ t = thList[i]
    BY <1>0, <1>01
  <1>1. /\ thSem' = [thSem EXCEPT ![t] = thSem[t] + 1]
        /\ thNew' = [thNew EXCEPT ![t] = FALSE]
        /\ thDue' = [thDue EXCEPT ![t] = thDue[t] + 1]
        /\ simPc' = "next" /\ simAt' = simAt
        /\ UNCHANGED <<thList, thAck, thFirst, thPc, thRan>>
    BY <1>0, <1>2 DEF Post
  <1>3. thSem[t] \in Nat /\ thDue[t] \in Nat /\ thRan[t] \in Nat
    BY <1>0, <1>2 DEF ThInv, ThTypeOK
  <1>4. ThTypeOK'
    <2>1. simPc' \in {"idle", "post", "next", "ack"}
      BY <1>1
    <2>2. thSem' \in [Threads -> Nat] /\ thDue' \in [Threads -> Nat]
      <3>1. thSem[t] + 1 \in Nat /\ thDue[t] + 1 \in Nat
        BY <1>3
      <3>2. thSem \in [Threads -> Nat] /\ thDue \in [Threads -> Nat]
        BY DEF ThInv, ThTypeOK
      <3> QED BY <1>1, <3>1, <3>2
    <2>3. thNew' \in [Threads -> BOOLEAN]
      BY <1>1 DEF ThInv, ThTypeOK
    <2> QED BY <1>1, <2>1, <2>2, <2>3 DEF ThInv, ThTypeOK
  <1>5. ListOK'
    <2>1. simAt' \in 1..Len(thList)
      BY <1>0, <1>1, <1>2
    <2> QED BY <1>1, <2>1 DEF ThInv, ListOK
  <1>6. ASSUME NEW s \in Threads PROVE ThreadOK(s)'
    <2>0. ThreadOK(s)
      BY DEF ThInv
    <2>1. CASE s # t
      <3>1. /\ thNew'[s] = thNew[s] /\ thFirst'[s] = thFirst[s] /\ thPc'[s] = thPc[s]
            /\ thSem'[s] = thSem[s] /\ thAck'[s] = thAck[s]
            /\ thRan'[s] = thRan[s] /\ thDue'[s] = thDue[s]
        BY <1>1, <2>1 DEF ThInv, ThTypeOK
      <3>2. Owed(s)' <=> Owed(s)
        BY <1>0, <1>1, <1>2, <2>1, <3>1, OthersSame
      <3> QED BY <2>0, <3>1, <3>2, Untouched
    <2>2. CASE s = t
      <3>1. /\ ~thNew'[t] /\ thFirst'[t] = thFirst[t] /\ thPc'[t] = thPc[t]
            /\ thSem'[t] = thSem[t] + 1 /\ thDue'[t] = thDue[t] + 1
            /\ thRan'[t] = thRan[t] /\ thAck'[t] = thAck[t]
        BY <1>0, <1>1, <1>2 DEF ThInv, ThTypeOK
      <3>2. ~Owed(t)
        <4>1. \A k \in 1..Len(thList) : thList[k] = t => k = i
          BY <1>0, <1>2 DEF ThInv, ListOK
        <4> QED BY <1>0, <1>1, <1>2, <4>1 DEF Owed, Pending
      <3>3. Owed(t)'
        <4>1. i \in 1..Len(thList') /\ thList'[i] = t /\ Pending(i)'
          BY <1>0, <1>1, <1>2 DEF Pending
        <4> QED BY <3>1, <4>1 DEF Owed
      <3>4. QuietState(thNew[t], thFirst[t], thPc[t], thSem[t], thAck[t], thRan[t],
                       thDue[t])
        BY <2>0, <2>2, <3>2 DEF ThreadOK
      <3>5. thPc[t] # "none"
        BY <1>0, <1>2 DEF ThInv, ListOK
      <3>6. OwedState(thFirst'[t], thPc'[t], thSem'[t], thAck'[t], thRan'[t], thDue'[t])
        BY <1>3, <3>1, <3>4 DEF OwedState, QuietState
      <3>7. PcState(thNew'[t], thFirst'[t], thPc'[t])
        BY <2>0, <2>2, <3>1, <3>5 DEF ThreadOK, PcState
      <3> QED BY <2>2, <3>3, <3>6, <3>7 DEF ThreadOK
    <2> QED BY <2>1, <2>2
  <1> QED BY <1>4, <1>5, <1>6 DEF ThInv

\* Reading next owes nobody anything new: what was released stays owed.
LEMMA NextThreadInv ==
    ASSUME ThInv, NextThread
    PROVE  ThInv'
  <1>1. /\ simPc = "next" /\ simAt \in 1..Len(thList) /\ Len(thList) \in Nat
        /\ UNCHANGED <<thList, thSem, thAck, thNew, thFirst, thPc, thRan, thDue>>
    <2>1. simPc = "next" /\ UNCHANGED <<thList, thSem, thAck, thNew, thFirst, thPc, thRan, thDue>>
      BY DEF NextThread
    <2> QED BY <2>1 DEF ThInv, ThTypeOK, ListOK
  <1>2. \/ simAt < Len(thList) /\ simPc' = "post" /\ simAt' = simAt + 1
        \/ simAt = Len(thList) /\ simPc' = "ack" /\ simAt' = 1
    BY DEF NextThread
  <1>3. ThTypeOK'
    BY <1>1, <1>2 DEF ThInv, ThTypeOK
  <1>4. ListOK'
    <2>1. simAt' \in 1..Len(thList)
      BY <1>1, <1>2
    <2> QED BY <1>1, <2>1 DEF ThInv, ListOK
  <1>5. \A k \in 1..Len(thList) : Pending(k)' <=> Pending(k)
    BY <1>1, <1>2 DEF Pending
  <1>6. \A s \in Threads : Owed(s)' <=> Owed(s)
    BY <1>1, <1>5 DEF Owed
  <1>7. \A s \in Threads : ThreadOK(s)'
    BY <1>1, <1>6, Untouched DEF ThInv
  <1> QED BY <1>3, <1>4, <1>7 DEF ThInv

LEMMA WaitAckInv ==
    ASSUME ThInv, WaitAck
    PROVE  ThInv'
  <1>0. simPc = "ack" /\ simAt \in 1..Len(thList) /\ Len(thList) \in Nat
    <2>1. simPc = "ack"
      BY DEF WaitAck
    <2> QED BY <2>1 DEF ThInv, ThTypeOK, ListOK
  <1>01. thList[simAt] \in Threads
    BY <1>0 DEF ThInv, ThTypeOK
  <1>2. PICK i \in 1..Len(thList), t \in Threads : i = simAt /\ t = thList[i]
    BY <1>0, <1>01
  <1> DEFINE last == i = Len(thList)
  <1>1. /\ ~thNew[t] => thAck[t] > 0
        /\ thAck' = [thAck EXCEPT ![t] = IF ~thNew[t] THEN thAck[t] - 1 ELSE thAck[t]]
        /\ simPc' = (IF last THEN "idle" ELSE "ack")
        /\ simAt' = (IF last THEN 0 ELSE i + 1)
        /\ UNCHANGED <<thList, thSem, thNew, thFirst, thPc, thRan, thDue>>
    BY <1>0, <1>2 DEF WaitAck, Awaited
  <1>3. thAck[t] \in Nat
    BY <1>0, <1>2 DEF ThInv, ThTypeOK
  <1>4. ThTypeOK'
    <2>1. simPc' \in {"idle", "post", "next", "ack"}
      BY <1>1
    <2>2. thAck' \in [Threads -> Nat]
      <3> DEFINE rest == IF ~thNew[t] THEN thAck[t] - 1 ELSE thAck[t]
      <3>1. rest \in Nat
        BY <1>1, <1>3
      <3>2. thAck \in [Threads -> Nat] /\ thAck' = [thAck EXCEPT ![t] = rest]
        BY <1>1 DEF ThInv, ThTypeOK
      <3> HIDE DEF rest
      <3> QED BY <3>1, <3>2
    <2> QED BY <1>1, <2>1, <2>2 DEF ThInv, ThTypeOK
  <1>5. ListOK'
    <2>1. simPc' # "idle" => simAt' \in 1..Len(thList)
      BY <1>0, <1>1, <1>2
    <2> QED BY <1>1, <2>1 DEF ThInv, ListOK
  <1>6. ASSUME NEW s \in Threads PROVE ThreadOK(s)'
    <2>0. ThreadOK(s)
      BY DEF ThInv
    <2>1. CASE s # t
      <3>1. /\ thNew'[s] = thNew[s] /\ thFirst'[s] = thFirst[s] /\ thPc'[s] = thPc[s]
            /\ thSem'[s] = thSem[s] /\ thAck'[s] = thAck[s]
            /\ thRan'[s] = thRan[s] /\ thDue'[s] = thDue[s]
        BY <1>1, <2>1 DEF ThInv, ThTypeOK
      <3>2. Owed(s)' <=> Owed(s)
        BY <1>0, <1>1, <1>2, <2>1, <3>1, OthersSame
      <3> QED BY <2>0, <3>1, <3>2, Untouched
    <2>2. CASE s = t
      <3>1. /\ thNew'[t] = thNew[t] /\ thFirst'[t] = thFirst[t] /\ thPc'[t] = thPc[t]
            /\ thSem'[t] = thSem[t] /\ thDue'[t] = thDue[t] /\ thRan'[t] = thRan[t]
            /\ thAck'[t] = IF ~thNew[t] THEN thAck[t] - 1 ELSE thAck[t]
        BY <1>0, <1>1, <1>2 DEF ThInv, ThTypeOK
      <3>2. Owed(t) <=> ~thNew[t]
        <4>1. i \in 1..Len(thList) /\ thList[i] = t /\ Pending(i)
          BY <1>0, <1>1, <1>2 DEF Pending
        <4> QED BY <4>1 DEF Owed
      <3>3. ~Owed(t)'
        <4>1. \A k \in 1..Len(thList) : thList[k] = t => k = i
          BY <1>0, <1>2 DEF ThInv, ListOK
        <4>2. ~Pending(i)'
          BY <1>0, <1>1, <1>2 DEF Pending
        <4> QED BY <1>1, <4>1, <4>2 DEF Owed
      <3>4. PcState(thNew'[t], thFirst'[t], thPc'[t])
        BY <2>0, <2>2, <3>1 DEF ThreadOK
      <3>5. QuietState(thNew'[t], thFirst'[t], thPc'[t], thSem'[t], thAck'[t],
                       thRan'[t], thDue'[t])
        <4>1. CASE ~thNew[t]
          <5>1. OwedState(thFirst[t], thPc[t], thSem[t], thAck[t], thRan[t], thDue[t])
            BY <2>0, <2>2, <3>2, <4>1 DEF ThreadOK
          <5> QED BY <1>1, <3>1, <4>1, <5>1 DEF OwedState, QuietState
        <4>2. CASE thNew[t]
          <5>1. QuietState(thNew[t], thFirst[t], thPc[t], thSem[t], thAck[t], thRan[t],
                           thDue[t])
            BY <2>0, <2>2, <3>2, <4>2 DEF ThreadOK
          <5> QED BY <3>1, <4>2, <5>1 DEF QuietState
        <4> QED BY <4>1, <4>2
      <3> QED BY <2>2, <3>3, <3>4, <3>5 DEF ThreadOK
    <2> QED BY <2>1, <2>2
  <1> QED BY <1>4, <1>5, <1>6 DEF ThInv

-----------------------------------------------------------------------------
\* Steps that leave everything but the event counters alone.
LEMMA SameInv ==
    ASSUME ThInv, UNCHANGED <<thList, thSem, thAck, thNew, thFirst, thPc, thRan,
                              thDue, simPc, simAt>>
    PROVE  ThInv'
  BY DEF ThInv, ThTypeOK, ListOK, ThreadOK, Owed, Pending

(* The inductive invariant: what each thread has been given and has given  *)
(* back is decided by whether new_cycle still waits for it.                *)
THEOREM ThInvariance == ThSpec => []ThInv
  <1>1. ThInit => ThInv
    <2> SUFFICES ASSUME ThInit PROVE ThInv
      OBVIOUS
    <2>1. ThTypeOK /\ ListOK
      BY DEF ThInit, ThTypeOK, ListOK
    <2>2. \A t \in Threads : ThreadOK(t)
      BY DEF ThInit, ThreadOK, Owed, PcState, QuietState
    <2> QED BY <2>1, <2>2 DEF ThInv
  <1>2. ThInv /\ [ThNext]_thVars => ThInv'
    <2> SUFFICES ASSUME ThInv, [ThNext]_thVars PROVE ThInv'
      OBVIOUS
    <2>1. CASE jbus_check_init
      BY <2>1, CheckInitInv
    <2>2. ASSUME NEW u \in Forked, fork(u) PROVE ThInv'
      BY <2>2, MadeInv DEF fork, Threads
    <2>3. ASSUME NEW t \in Threads, Thread(t) PROVE ThInv'
      <3>1. CASE wait_next_cycle(t) \/ wait_for_event(t) \/ NoEvent(t)
        BY <3>1, SuspendInv DEF wait_next_cycle, wait_for_event, NoEvent
      <3>2. CASE Event(t)
        BY <3>2, SameInv DEF Event, simVars
      <3>3. CASE Resume(t)
        BY <3>3, ResumeInv
      <3> QED BY <2>3, <3>1, <3>2, <3>3 DEF Thread
    <2>4. CASE InputValues
      BY <2>4, InputValuesInv
    <2>5. CASE Post
      BY <2>5, PostInv
    <2>6. CASE NextThread
      BY <2>6, NextThreadInv
    <2>7. CASE WaitAck
      BY <2>7, WaitAckInv
    <2>8. CASE UNCHANGED thVars
      BY <2>8, SameInv DEF thVars
    <2> QED BY <2>1, <2>2, <2>3, <2>4, <2>5, <2>6, <2>7, <2>8 DEF ThNext
  <1> QED BY <1>1, <1>2, PTL DEF ThSpec

(* Between two clocks every thread of the monitor that was ever released   *)
(* sits in sem_wait with both semaphores at zero, having run once for each *)
(* cycle (new_cycle, wait_next_cycle).                                     *)
THEOREM LockStep == ThSpec => []AtBarrier
  <1>1. ThInv => AtBarrier
    <2> SUFFICES ASSUME ThInv, simPc = "idle", NEW t \in Threads
                 PROVE  /\ thSem[t] = 0 /\ thAck[t] = 0 /\ thRan[t] = thDue[t]
                        /\ ~thNew[t] => thPc[t] = "wait"
                        /\ thNew[t] => thFirst[t] \/ thPc[t] = "wait"
      BY DEF AtBarrier
    <2>1. ~Owed(t) /\ ThreadOK(t) /\ thPc[t] \in {"none", "run", "wait"}
      BY DEF Owed, Pending, ThInv, ThTypeOK
    <2> QED BY <2>1 DEF ThreadOK, QuietState, PcState
  <1> QED BY <1>1, ThInvariance, PTL

(* No semaphore is ever posted twice before it is taken, and a thread is   *)
(* at most one cycle behind the simulator: signals are never sampled while *)
(* a thread still has an earlier cycle to look at.                         *)
OneCycleBehind ==
    \A t \in Threads : /\ thSem[t] <= 1 /\ thAck[t] <= 1
                       /\ thRan[t] <= thDue[t] /\ thDue[t] <= thRan[t] + 1

THEOREM Bounded == ThSpec => []OneCycleBehind
  <1>1. ThInv => OneCycleBehind
    <2> SUFFICES ASSUME ThInv, NEW t \in Threads
                 PROVE  /\ thSem[t] <= 1 /\ thAck[t] <= 1
                        /\ thRan[t] <= thDue[t] /\ thDue[t] <= thRan[t] + 1
      BY DEF OneCycleBehind
    <2>1. ThreadOK(t) /\ thRan[t] \in Nat /\ thDue[t] \in Nat
      BY DEF ThInv, ThTypeOK
    <2> QED BY <2>1 DEF ThreadOK, OwedState, QuietState
  <1> QED BY <1>1, ThInvariance, PTL

-----------------------------------------------------------------------------
(***************************************************************************)
(* The arbitration checker, for any ports, transaction lengths and number  *)
(* of cycles, in all three bus modes.                                      *)
(***************************************************************************)
own == bsOwner[1]
Left == IF bsLeft > 0 THEN bsLeft - 1 ELSE 0

(* What the bus owes its masters: a request is only lowered by the master  *)
(* of the cycle, so that a new master requests in the two cycles before.   *)
BusOK ==
    /\ bsRaw[1] \subseteq ChPorts /\ bsRaw[2] \subseteq ChPorts /\ bsRaw[3] \subseteq ChPorts
    /\ bsOwner[1] \in 0..6 /\ bsOwner[2] \in 0..6
    /\ bsLeft \in Nat /\ bsTenure \in BOOLEAN /\ bsEarly \in BOOLEAN
    /\ bsRaw[2] \ bsRaw[1] \subseteq {own} /\ bsRaw[3] \ bsRaw[2] \subseteq {bsOwner[2]}
    /\ own # bsOwner[2] => own \in bsRaw[2] /\ own \in bsRaw[3]

(* What the thread has sampled: its drivers run ahead of the bus by the    *)
(* cycles the mode takes to arbitrate.                                     *)
Wired ==
    /\ rqNew = bsRaw[1] /\ rqNewArb = bsRaw[1] /\ rqReqs = bsRaw[2] /\ rqArb = bsRaw[2]
    /\ arthur => /\ rqDrv[3] = own /\ rqDrv[2] = Driver(bsRaw[3], own)
                 /\ rqDrv[1] = Driver(bsRaw[2], rqDrv[2])
    /\ ~arthur => rqDrv[2] = own /\ rqDrv[1] = Driver(bsRaw[2], own)
    /\ rqDead = (Master # own /\ rqMode = "dead")

(* While the thread follows a new master, that master goes on requesting.  *)
Follows ==
    /\ rqPc \in {"tenure", "dead", "changed", "single", "hold", "skip"}
    /\ rqPc = "dead" => dead_cycles
    /\ rqPc = "changed" => ~dead_cycles
    /\ rqPc \in {"changed", "dead", "tenure"} => own \in bsRaw[2] /\ own \in bsRaw[3]
    /\ rqPc = "tenure" => rqCurr = own
    /\ ~arthur /\ rqPc = "hold" => own \in bsRaw[2]

(* The thread's count is that of the bus as long as no master has broken   *)
(* the rules, and outside arthur mode in the first transaction of a master *)
(* whatever went before.                                                   *)
Granted == ~arthur /\ bsTenure
Counts ==
    ~rqError /\ bsCollide = "no" /\ (~bsEarly \/ Granted) =>
       /\ rqPc \in {"changed", "tenure"} => rqCount = bsLeft /\ bsLeft > 0
       /\ rqPc = "dead" => IF arthur THEN rqCount = bsLeft /\ bsLeft > 0 ELSE rqCount = 1 /\ bsLeft = 0
       /\ rqPc = "single" => rqCount = 1 /\ bsLeft <= 1
       /\ rqPc = "skip" => bsLeft <= 1
       /\ Granted => /\ rqPc \notin {"hold", "single"}
                     /\ rqPc = "skip" => bsLeft = 1

CheckerInv == BusOK /\ Wired /\ Follows /\ Counts /\ ArbitrationExact

-----------------------------------------------------------------------------
LEMMA Requester ==
    ASSUME NEW last \in 0..6, NEW q \in 0..6, q # last
    PROVE  \E i \in 1..6 : Lower(last, i) = q
  <1> DEFINE i == (last - q + 7) % 7
  <1>1. i \in 1..6 /\ (last - i + 7) % 7 = q  OBVIOUS
  <1> QED  BY <1>1 DEF Lower

LEMMA NextDriver ==
    ASSUME NEW reqs \in SUBSET (0..6), NEW last \in 0..6
    PROVE  /\ last \in reqs => Driver(reqs, last) = last
           /\ Driver(reqs, last) # last => Driver(reqs, last) \in reqs
           /\ Driver(reqs, last) \in 0..6
  <1>1. CASE last \in reqs \/ reqs = {}  BY <1>1 DEF Driver
  <1>2. CASE last \notin reqs /\ reqs # {}
    <2> DEFINE P(i) == Lower(last, i) \in reqs
               W(i) == P(i) /\ \A j \in 1..i-1 : ~P(j)
    <2>1. PICK i \in 1..6 : P(i)
      <3>1. PICK q : q \in reqs  BY <1>2
      <3>2. q \in 0..6 /\ q # last  BY <1>2, <3>1
      <3> QED  BY <3>1, <3>2, Requester
    <2>2. \E k \in 1..6 : W(k)
      <3> HIDE DEF P
      <3>1. i = 1 \/ i = 2 \/ i = 3 \/ i = 4 \/ i = 5 \/ i = 6  OBVIOUS
      <3>2. P(1) \/ P(2) \/ P(3) \/ P(4) \/ P(5) \/ P(6)  BY <2>1, <3>1
      <3> QED  BY <3>2
    <2>3. (CHOOSE k \in 1..6 : W(k)) \in 1..6 /\ W(CHOOSE k \in 1..6 : W(k))  BY <2>2
    <2>4. Driver(reqs, last) = Lower(last, CHOOSE k \in 1..6 : W(k))  BY <1>2 DEF Driver
    <2>5. Driver(reqs, last) \in reqs  BY <2>3, <2>4
    <2> QED  BY <2>5, <1>2
  <1> QED  BY <1>1, <1>2

-----------------------------------------------------------------------------
(* A cycle in the thread's terms: who drives it, what was requested a      *)
(* cycle before, how long the transaction in progress still takes.         *)
Ticked ==
    /\ ~rqError /\ bsCollide = "no" /\ rqMode' = rqMode
    /\ New(rqDrv) = own' /\ Old(rqDrv) = own /\ rqReqs' = bsRaw[1]
    /\ rqDead = (own' # own /\ rqMode = "dead")
    /\ bsRaw'[2] = bsRaw[1] /\ bsRaw'[3] = bsRaw[2] /\ bsOwner'[2] = own
    /\ bsCollide' = IF own' = own \/ Left = 0 THEN "no" ELSE IF bsTenure THEN "granted" ELSE "kept"
    /\ bsShow' \in Nat \ {0} /\ bsLeft' \in Nat
    /\ bsLeft' = IF Left > 0 THEN Left ELSE IF own' # own /\ rqMode = "dead" THEN 0 ELSE bsShow'
    /\ bsEarly' = (bsEarly \/ (bsLeft' > 1 /\ own' \notin bsRaw[1]))
    /\ bsTenure' => own' # own \/ (bsTenure /\ (Left > 0 \/ bsLeft = 0))
    /\ own' # own => own \notin (IF arthur THEN bsRaw[3] ELSE bsRaw[2])

LEMMA BusStep ==
    ASSUME BusOK, Wired, Cycle
    PROVE  Ticked /\ BusOK' /\ Wired' /\ check_reqs
  <1> USE ChAssumption
  <1> DEFINE master == Master
  <1>1. PICK raw \in SUBSET ChPorts, n \in ChLengths, show \in ChLengths :
          /\ bsRaw[1] \ raw \subseteq {master}
          /\ bsRaw' = <<raw, bsRaw[1], bsRaw[2]>>
          /\ bsOwner' = <<master, bsOwner[1]>>
          /\ bsCollide' = IF ~(master # own) \/ Left = 0 THEN "no" ELSE IF bsTenure THEN "granted" ELSE "kept"
          /\ bsLeft' = IF Left > 0 THEN Left ELSE IF master # own /\ rqMode = "dead" THEN 0 ELSE n
          /\ Left > 0 \/ (master # own /\ rqMode = "dead") => n = 1
          /\ Left = 0 /\ ~(master # own /\ rqMode = "dead") => show = n
          /\ bsShow' = show
          /\ bsEarly' = (bsEarly \/ (bsLeft' > 1 /\ master \notin bsRaw[1]))
          /\ bsTenure' = IF master # own THEN \A i \in 1..(IF arthur THEN 3 ELSE 2) : master \in bsRaw[i]
                         ELSE bsTenure /\ (Left > 0 \/ bsLeft = 0)
          /\ Sample(raw) /\ check_reqs /\ Arbitrate
    BY Zenon DEF Cycle, own, Left
  <1>2. ~rqError /\ bsCollide = "no" /\ rqMode' = rqMode  BY DEF Cycle
  <1>3. /\ (arthur' <=> arthur) /\ (dead_cycles' <=> dead_cycles)
        /\ rqDead' = (New(rqDrv') # Old(rqDrv') /\ rqMode = "dead")
    BY <1>1, <1>2 DEF arthur, dead_cycles, Arbitrate, New, Old
  <1>4. /\ master \in 0..6
        /\ master # own => own \notin (IF arthur THEN bsRaw[3] ELSE bsRaw[2])
        /\ master # own => master \in (IF arthur THEN bsRaw[3] ELSE bsRaw[2])
    <2>1. CASE arthur
      <3>1. bsRaw[3] \in SUBSET (0..6) /\ own \in 0..6 /\ master = Driver(bsRaw[3], own)
        BY <2>1 DEF BusOK, Master, own
      <3> QED  BY <2>1, <3>1, NextDriver
    <2>2. CASE ~arthur
      <3>1. bsRaw[2] \in SUBSET (0..6) /\ own \in 0..6 /\ master = Driver(bsRaw[2], own)
        BY <2>2 DEF BusOK, Master, own
      <3> QED  BY <2>2, <3>1, NextDriver
    <2> QED  BY <2>1, <2>2
  <1>5. own' = master /\ bsOwner'[2] = own /\ bsOwner'[1] = master  BY <1>1 DEF own
  <1>6. bsRaw'[1] = raw /\ bsRaw'[2] = bsRaw[1] /\ bsRaw'[3] = bsRaw[2]  BY <1>1
  <1>7. New(rqDrv) = master /\ Old(rqDrv) = own
    BY DEF Wired, New, Old, Master, own
  <1>8. rqDead = (master # own /\ rqMode = "dead")  BY DEF Wired
  <1>9. rqReqs' = bsRaw[1] /\ rqNewArb' = raw /\ rqArb' = bsRaw[1] /\ rqNew' = raw
    <2>1. rqReqs' = bsRaw[1] /\ rqNewArb' = raw /\ rqArb' = bsRaw[1]  BY <1>1 DEF Sample, Wired
    <2>2. rqNew' = {p \in ChPorts : p \in raw}  BY <1>1 DEF Sample
    <2> QED  BY <2>1, <2>2
  <1> HIDE DEF master
  <1>10. Ticked
    <2>1. Left \in Nat  BY DEF Left, BusOK
    <2>2. bsShow' \in Nat \ {0} /\ bsLeft' \in Nat
          /\ bsLeft' = IF Left > 0 THEN Left ELSE IF master # own /\ rqMode = "dead" THEN 0 ELSE bsShow'
      <3>1. n \in Nat \ {0} /\ show \in Nat \ {0} /\ bsShow' = show  BY <1>1
      <3>2. bsLeft' = IF Left > 0 THEN Left ELSE IF master # own /\ rqMode = "dead" THEN 0 ELSE n
        BY Zenon, <1>1
      <3>3. Left = 0 /\ ~(master # own /\ rqMode = "dead") => show = n  BY Zenon, <1>1
      <3>4. CASE Left > 0  BY <2>1, <3>1, <3>2, <3>4
      <3>5. CASE Left = 0 /\ master # own /\ rqMode = "dead"  BY <3>1, <3>2, <3>5
      <3>6. CASE Left = 0 /\ ~(master # own /\ rqMode = "dead")  BY <3>1, <3>2, <3>3, <3>6
      <3> QED  BY <2>1, <3>4, <3>5, <3>6
    <2>3. bsTenure' => master # own \/ (bsTenure /\ (Left > 0 \/ bsLeft = 0))  BY <1>1
    <2>4. bsCollide' = IF master = own \/ Left = 0 THEN "no" ELSE IF bsTenure THEN "granted" ELSE "kept"
      BY <1>1
    <2> QED  BY <1>1, <1>2, <1>4, <1>5, <1>6, <1>7, <1>8, <1>9, <2>2, <2>3, <2>4 DEF Ticked
  <1>11. BusOK'
    <2>1. master # own => master \in bsRaw[1] /\ master \in bsRaw[2]
      BY <1>4 DEF BusOK
    <2>2. bsLeft' \in Nat /\ bsTenure' \in BOOLEAN /\ bsEarly' \in BOOLEAN
      BY <1>1, <1>10 DEF BusOK, Ticked
    <2> QED  BY <1>1, <1>4, <1>5, <1>6, <2>1, <2>2 DEF BusOK
  <1>12. Wired'
    <2>1. rqDrv' = <<Driver(bsRaw[1], rqDrv[1]), rqDrv[1], rqDrv[2]>>  BY <1>1, <1>9 DEF Arbitrate
    <2>2. rqDrv'[1] = Driver(bsRaw[1], rqDrv[1]) /\ rqDrv'[2] = rqDrv[1] /\ rqDrv'[3] = rqDrv[2]
      BY <2>1
    <2>3. arthur => rqDrv[2] = master /\ rqDrv[1] = Driver(bsRaw[2], master)
      BY DEF Wired, Master, own, master
    <2>4. ~arthur => rqDrv[1] = master  BY DEF Wired, Master, own, master
    <2>5. arthur => /\ rqDrv'[3] = own' /\ rqDrv'[2] = Driver(bsRaw'[3], own')
                    /\ rqDrv'[1] = Driver(bsRaw'[2], rqDrv'[2])
      BY <1>5, <1>6, <2>2, <2>3
    <2>6. ~arthur => rqDrv'[2] = own' /\ rqDrv'[1] = Driver(bsRaw'[2], own')
      BY <1>5, <1>6, <2>2, <2>4
    <2>7. Master' = Driver(IF arthur' THEN bsRaw'[3] ELSE bsRaw'[2], bsOwner'[1])  BY DEF Master
    <2>8. New(rqDrv') = Master' /\ Old(rqDrv') = own'
      BY <1>3, <1>5, <2>5, <2>6, <2>7 DEF New, Old
    <2> QED  BY <1>2, <1>3, <1>6, <1>9, <2>5, <2>6, <2>8 DEF Wired
  <1> QED  BY <1>1, <1>10, <1>11, <1>12

-----------------------------------------------------------------------------
Counted == ~bsEarly \/ Granted
Kept == Follows' /\ Counts' /\ ArbitrationExact'
Outcome(w) == /\ rqPc' = w.pc /\ rqCount' = w.count /\ rqCurr' = w.curr
              /\ (rqError' <=> w.error)

(* A change of master lands in "dead" or "changed" with the cycles of the  *)
(* new master's transaction, once the old master's is over.                *)
LEMMA Changed ==
    ASSUME Ticked, BusOK, BusOK', own' # own, NEW c, NEW err \in BOOLEAN, c = 0 \/ arthur,
           Outcome(Top(c, err)), err => bsEarly',
           Granted => Left = 0
    PROVE  Kept
  <1>1. rqMode' = rqMode /\ (arthur' <=> arthur) /\ (dead_cycles' <=> dead_cycles)
    BY DEF Ticked, arthur, dead_cycles
  <1>2. own' \in bsRaw'[2] /\ own' \in bsRaw'[3]  BY DEF Ticked, BusOK
  <1>3. bsShow' \in Nat \ {0} /\ bsLeft' \in Nat /\ bsShow' # 0  BY DEF Ticked
  <1>4. Top(c, err) = IF dead_cycles THEN Wait("dead", IF arthur THEN bsShow' ELSE 1, 0, err)
                      ELSE Wait("changed", Fetched(c), 0, err)
    BY DEF Top, Ticked
  <1>5. /\ rqPc' = IF dead_cycles THEN "dead" ELSE "changed"
        /\ rqCount' = IF arthur THEN bsShow' ELSE IF dead_cycles THEN 1 ELSE bsShow'
        /\ (rqError' <=> err)
    <2>1. arthur => dead_cycles  BY DEF arthur, dead_cycles
    <2>2. CASE dead_cycles  BY <1>4, <2>2 DEF Outcome, Wait
    <2>3. CASE ~dead_cycles  BY <1>4, <2>1, <2>3 DEF Outcome, Wait, Fetched
    <2> QED  BY <2>2, <2>3, <2>1
  <1>6. Follows'  BY <1>1, <1>2, <1>5 DEF Follows
  <1>7. bsCollide' = "no" => Left = 0  BY DEF Ticked
  <1>8. ~arthur => (dead_cycles <=> rqMode = "dead")  BY DEF arthur, dead_cycles
  <1>9. Counts'
    <2>1. Left = 0 => bsLeft' = IF rqMode = "dead" THEN 0 ELSE bsShow'  BY DEF Ticked
    <2>2. arthur => rqMode # "dead"  BY DEF arthur
    <2> QED  BY <1>1, <1>3, <1>5, <1>7, <1>8, <2>1, <2>2 DEF Counts
  <1>10. bsCollide' = "granted" => arthur  BY DEF Ticked, Granted
  <1> QED  BY <1>1, <1>5, <1>6, <1>9, <1>10 DEF Kept, ArbitrationExact

(* The master goes on: nothing new collides, and what is counted now was   *)
(* counted before.                                                         *)
LEMMA GoesOn ==
    ASSUME Ticked, own' = own
    PROVE  /\ rqMode' = rqMode /\ (arthur' <=> arthur) /\ (dead_cycles' <=> dead_cycles)
           /\ bsCollide = "no" /\ bsCollide' = "no" /\ ~rqError
           /\ bsEarly => bsEarly'
           /\ Counted' => Counted
           /\ Granted' => Granted /\ (Left > 0 \/ bsLeft = 0)
           /\ ~bsEarly' => bsLeft' <= 1 \/ own \in bsRaw[1]
           /\ bsShow' \in Nat \ {0} /\ bsLeft' \in Nat
           /\ bsLeft' = IF Left > 0 THEN Left ELSE bsShow'
  <1>1. (arthur' <=> arthur) /\ (dead_cycles' <=> dead_cycles)  BY DEF Ticked, arthur, dead_cycles
  <1>2. bsEarly => bsEarly'  BY DEF Ticked
  <1>3. Granted' => Granted /\ (Left > 0 \/ bsLeft = 0)  BY <1>1 DEF Ticked, Granted
  <1>4. rqMode' = rqMode /\ bsCollide = "no" /\ bsCollide' = "no" /\ ~rqError  BY DEF Ticked
  <1>5. ~bsEarly' => bsLeft' <= 1 \/ own \in bsRaw[1]
    <2>1. bsLeft' > 1 /\ own' \notin bsRaw[1] => bsEarly'  BY Zenon DEF Ticked
    <2>2. bsLeft' \in Nat  BY DEF Ticked
    <2> QED  BY <2>1, <2>2
  <1>6. bsShow' \in Nat \ {0} /\ bsLeft' \in Nat /\ bsLeft' = IF Left > 0 THEN Left ELSE bsShow'
    <2>1. bsShow' \in Nat \ {0} /\ bsLeft' \in Nat  BY DEF Ticked
    <2>2. bsLeft' = IF Left > 0 THEN Left ELSE IF own' # own /\ rqMode = "dead" THEN 0 ELSE bsShow'
      BY Zenon DEF Ticked
    <2>3. bsLeft' = IF Left > 0 THEN Left ELSE bsShow'
      <3>1. CASE Left > 0  BY <2>2, <3>1
      <3>2. CASE ~(Left > 0)
        <4>1. bsLeft' = IF own' # own /\ rqMode = "dead" THEN 0 ELSE bsShow'  BY Zenon, <2>2, <3>2
        <4>2. bsLeft' = bsShow'  BY Zenon, <4>1
        <4> QED  BY Zenon, <3>2, <4>2
      <3> QED  BY <3>1, <3>2
    <2> QED  BY <2>1, <2>3
  <1>7. Counted' => Counted  BY <1>2, <1>3 DEF Counted
  <1> QED  BY <1>1, <1>2, <1>3, <1>4, <1>5, <1>6, <1>7

(* The loop at a cycle of the same master, after a transaction whose count *)
(* was the bus's, or in the middle of one the thread follows no more.      *)
LEMMA TopGoesOn ==
    ASSUME Ticked, BusOK, own' = own, NEW c, NEW err \in BOOLEAN,
           Outcome(Top(c, err)), err => bsEarly',
           own \in bsRaw[1] => ~Granted',
           Counted' /\ c = 0 => Left = 0 /\ ~Granted',
           Granted' /\ ~err /\ own \notin bsRaw[1] => bsLeft' = 1
    PROVE  Kept
  <1>1. Top(c, err) = IF own \in bsRaw[1] THEN Wait("hold", c, 0, err)
                      ELSE IF c = 0 THEN Wait("single", bsShow', 0, err)
                      ELSE Wait("skip", 0, 0, err)
    BY DEF Top, Ticked
  <1>2. own \in bsRaw[1] => own' \in bsRaw'[2]  BY DEF Ticked
  <1>3. Granted' => Granted  BY GoesOn
  <1>4. CASE own \in bsRaw[1]
    <2>1. rqPc' = "hold" /\ (rqError' <=> err)  BY <1>1, <1>4 DEF Outcome, Wait
    <2>2. Follows'  BY <1>2, <1>4, <2>1 DEF Follows
    <2>3. Counts'  BY <1>3, <1>4, <2>1 DEF Counts
    <2> QED  BY <2>1, <2>2, <2>3, GoesOn DEF Kept, ArbitrationExact
  <1>5. CASE own \notin bsRaw[1] /\ c = 0
    <2>1. rqPc' = "single" /\ (rqError' <=> err) /\ rqCount' = bsShow'  BY <1>1, <1>5 DEF Outcome, Wait
    <2>2. Follows'  BY <2>1 DEF Follows
    <2>3. Counts'
      <3>1. SUFFICES ASSUME Counted' PROVE rqCount' = 1 /\ bsLeft' <= 1 /\ ~Granted'
        BY <2>1 DEF Counts, Counted
      <3>2. Left = 0 /\ ~Granted'  BY <1>5, <3>1
      <3>3. ~bsEarly'  BY <3>1, <3>2 DEF Counted
      <3> QED  BY <1>5, <2>1, <3>2, <3>3, GoesOn
    <2> QED  BY <2>1, <2>2, <2>3, GoesOn DEF Kept, ArbitrationExact
  <1>6. CASE own \notin bsRaw[1] /\ c # 0
    <2>1. rqPc' = "skip" /\ (rqError' <=> err)  BY <1>1, <1>6 DEF Outcome, Wait
    <2>2. Follows'  BY <2>1 DEF Follows
    <2>3. Counts'  BY <1>6, <2>1, GoesOn DEF Counts
    <2> QED  BY <2>1, <2>2, <2>3, GoesOn DEF Kept, ArbitrationExact
  <1> QED  BY <1>4, <1>5, <1>6

(* The loop while the master it follows goes on.                           *)
LEMMA TenureGoesOn ==
    ASSUME Ticked, BusOK, own' = own, own \in bsRaw[2], NEW c,
           Outcome(Tenure(c, own)),
           Counted => c = bsLeft' /\ bsLeft' > 0
    PROVE  Kept
  <1>1. CASE own \in bsRaw[1]
    <2>1. Tenure(c, own) = Wait("tenure", c, own, FALSE)  BY <1>1 DEF Tenure, Ticked
    <2>2. rqPc' = "tenure" /\ ~rqError' /\ rqCount' = c /\ rqCurr' = own
      BY <2>1 DEF Outcome, Wait
    <2>3. own' \in bsRaw'[2] /\ own' \in bsRaw'[3]  BY <1>1 DEF Ticked
    <2>4. Follows'  BY <2>2, <2>3 DEF Follows
    <2>5. Counts'
      <3>1. SUFFICES ASSUME Counted' PROVE rqCount' = bsLeft' /\ bsLeft' > 0
        BY <2>2 DEF Counts, Counted
      <3> QED  BY <2>2, <3>1, GoesOn
    <2> QED  BY <2>2, <2>4, <2>5, GoesOn DEF Kept, ArbitrationExact
  <1>2. CASE own \notin bsRaw[1]
    <2>1. Tenure(c, own) = Top(c, c > 1)  BY <1>2 DEF Tenure, Ticked
    <2>2. c > 1 => bsEarly'
      <3>1. CASE Counted  BY <1>2, <3>1, GoesOn
      <3>2. CASE ~Counted  BY <3>2, GoesOn DEF Counted
      <3> QED  BY <3>1, <3>2
    <2>3. Counted' => c # 0  BY GoesOn
    <2>4. Granted' /\ ~(c > 1) => bsLeft' = 1
      <3>1. SUFFICES ASSUME Granted', ~(c > 1) PROVE bsLeft' = 1  OBVIOUS
      <3>2. Counted'  BY <3>1 DEF Counted
      <3> QED  BY <3>1, <3>2, GoesOn
    <2>5. (c > 1) \in BOOLEAN  OBVIOUS
    <2> QED  BY <1>2, <2>1, <2>2, <2>3, <2>4, <2>5, TopGoesOn
  <1> QED  BY <1>1, <1>2

LEMMA StepKeeps ==
    ASSUME Ticked, BusOK, BusOK', Wired, Follows, Counts, check_reqs
    PROVE  Kept
  <1>1. ~rqError /\ bsCollide = "no" /\ New(rqDrv) = own' /\ Old(rqDrv) = own /\ rqReqs' = bsRaw[1]
        /\ (rqDead <=> own' # own /\ rqMode = "dead") /\ Left = IF bsLeft > 0 THEN bsLeft - 1 ELSE 0
    BY DEF Ticked, Left
  <1>2. bsLeft \in Nat /\ Left \in Nat /\ own \in Int
    <2>1. bsLeft \in Nat /\ own \in 0..6  BY DEF BusOK, own
    <2> QED  BY <2>1 DEF Left
  <1>3. own' # own => rqPc \notin {"changed", "dead", "tenure"} /\ (rqPc = "hold" => arthur)
    BY DEF Ticked, Follows
  <1>4. /\ rqPc \in {"changed", "tenure"} /\ Counted => rqCount = bsLeft /\ bsLeft > 0
        /\ rqPc = "dead" /\ Counted => IF arthur THEN rqCount = bsLeft /\ bsLeft > 0
                                        ELSE rqCount = 1 /\ bsLeft = 0
        /\ rqPc = "single" /\ Counted => rqCount = 1 /\ bsLeft <= 1
        /\ rqPc = "skip" /\ Counted => bsLeft <= 1
        /\ rqPc \in {"hold", "single"} => ~Granted
        /\ rqPc = "skip" /\ Granted => bsLeft = 1
    BY <1>1 DEF Counts, Counted
  <1>5. CASE rqPc = "tenure"
    <2> DEFINE c == Fetched(IF rqCount > 0 THEN rqCount - 1 ELSE 0)
    <2>1. own' = own /\ own \in bsRaw[2] /\ rqCurr = own  BY <1>3, <1>5 DEF Follows
    <2>2. Counted => c = bsLeft' /\ bsLeft' > 0
      BY <1>1, <1>2, <1>4, <1>5, <2>1, GoesOn DEF Fetched
    <2> HIDE DEF c
    <2>3. Outcome(Tenure(c, own))  BY <1>1, <1>5, <2>1 DEF check_reqs, Outcome, InTenure, c
    <2> QED  BY <2>1, <2>2, <2>3, TenureGoesOn
  <1>6. CASE rqPc = "changed"
    <2> DEFINE c == Fetched(rqCount - 1)
    <2>1. own' = own /\ own \in bsRaw[2]  BY <1>3, <1>6 DEF Follows
    <2>2. Counted => c = bsLeft' /\ bsLeft' > 0
      BY <1>1, <1>2, <1>4, <1>6, <2>1, GoesOn DEF Fetched
    <2> HIDE DEF c
    <2>3. Outcome(Tenure(c, own))  BY <1>1, <1>6, <2>1 DEF check_reqs, Outcome, InChanged, c
    <2> QED  BY <2>1, <2>2, <2>3, TenureGoesOn
  <1>7. CASE rqPc = "dead"
    <2> DEFINE c == Fetched(rqCount - 1)
    <2>1. own' = own /\ own \in bsRaw[2]  BY <1>3, <1>7 DEF Follows
    <2>2. Counted => c = bsLeft' /\ bsLeft' > 0
      <3>1. Counted /\ arthur => rqCount = bsLeft /\ bsLeft > 0  BY <1>4, <1>7
      <3>2. Counted /\ ~arthur => rqCount = 1 /\ bsLeft = 0  BY <1>4, <1>7
      <3> QED  BY <1>1, <1>2, <2>1, <3>1, <3>2, GoesOn DEF Fetched
    <2> HIDE DEF c
    <2>3. Outcome(Tenure(c, own))  BY <1>1, <1>7, <2>1 DEF check_reqs, Outcome, InDead, AfterDead, c
    <2> QED  BY <2>1, <2>2, <2>3, TenureGoesOn
  <1>8. CASE rqPc \in {"single", "skip"}
    <2> DEFINE err == rqPc = "single" /\ rqCount # 1 /\ own \notin bsRaw[1]
    <2>1. Outcome(Top(0, err))
      BY <1>1, <1>8 DEF check_reqs, Outcome, InSingle
    <2>2. err \in BOOLEAN /\ (err => bsEarly')
      BY <1>4, <1>8 DEF Ticked, Counted
    <2> HIDE DEF err
    <2>3. Counted => Left = 0  BY <1>1, <1>2, <1>4, <1>8
    <2>4. CASE own' # own  BY <2>1, <2>2, <2>3, <2>4, Changed DEF Counted
    <2>5. CASE own' = own
      <3>1. ~Granted'  BY <1>2, <1>4, <1>8, <2>3, <2>5, GoesOn DEF Counted
      <3>2. Counted' => Left = 0  BY <2>3, <2>5, GoesOn
      <3> QED  BY <2>1, <2>2, <2>5, <3>1, <3>2, TopGoesOn
    <2> QED  BY <2>4, <2>5
  <1>9. CASE rqPc = "hold"
    <2>1. CASE own \in bsRaw[1]
      <3>1. rqPc' = "hold" /\ ~rqError'
        <4>1. InHold = Wait("hold", rqCount, 0, FALSE)  BY <1>1, <2>1 DEF InHold
        <4>2. Outcome(InHold)  BY <1>1, <1>9 DEF check_reqs, Outcome
        <4> QED  BY <4>1, <4>2 DEF Outcome, Wait
      <3>2. rqMode' = rqMode /\ (arthur' <=> arthur) /\ bsRaw'[2] = bsRaw[1]  BY DEF Ticked, arthur
      <3>3. ~arthur => own' = own /\ ~Granted /\ bsCollide' # "granted"
        BY <1>3, <1>4, <1>9 DEF Ticked
      <3>4. ~Granted'  BY <3>2, <3>3, GoesOn DEF Granted
      <3>5. Follows'  BY <2>1, <3>1, <3>2, <3>3 DEF Follows
      <3>6. Counts'  BY <3>1, <3>4 DEF Counts
      <3> QED  BY <3>1, <3>2, <3>3, <3>5, <3>6 DEF Kept, ArbitrationExact
    <2>2. CASE own \notin bsRaw[1]
      <3>1. Outcome(Top(1, FALSE))  BY <1>1, <1>9, <2>2 DEF check_reqs, Outcome, InHold
      <3>2. CASE own' # own  BY <1>3, <1>9, <3>1, <3>2, Changed DEF Granted
      <3>3. CASE own' = own
        <4>1. ~Granted'  BY <1>4, <1>9, <3>3, GoesOn
        <4>2. 1 # 0 /\ FALSE \in BOOLEAN  OBVIOUS
        <4> QED  BY Zenon, <2>2, <3>1, <3>3, <4>1, <4>2, TopGoesOn
      <3> QED  BY <3>2, <3>3
    <2> QED  BY <2>1, <2>2
  <1> QED  BY <1>5, <1>6, <1>7, <1>8, <1>9 DEF Follows

(* The arbitration thread keeps its count of the transaction in progress   *)
(* in step with the bus in every mode, for any ports, lengths and number   *)
(* of cycles.                                                              *)
THEOREM CheckerInvariance == RqSpec => []CheckerInv
  <1>1. RqInit => CheckerInv
    <2> SUFFICES ASSUME RqInit PROVE CheckerInv  OBVIOUS
    <2>1. bsRaw[1] = {} /\ bsRaw[2] = {} /\ bsRaw[3] = {} /\ own = 0 /\ bsOwner[2] = 0 /\ 0 \in 0..6
          /\ bsOwner[1] = 0
      BY DEF RqInit, own
    <2>2. rqDrv[1] = 0 /\ rqDrv[2] = 0 /\ rqDrv[3] = 0  BY DEF RqInit
    <2>3. Driver({}, 0) = 0  BY DEF Driver
    <2>4. BusOK  BY <2>1 DEF RqInit, BusOK
    <2>5. Wired
      <3>1. Master = own  BY <2>1, <2>3 DEF Master
      <3> QED  BY <2>1, <2>2, <2>3, <3>1 DEF RqInit, Wired
    <2>6. Follows  BY DEF RqInit, Follows
    <2>7. Counts  BY DEF RqInit, Counts, Granted
    <2>8. ArbitrationExact  BY DEF RqInit, ArbitrationExact
    <2> QED  BY <2>4, <2>5, <2>6, <2>7, <2>8 DEF CheckerInv
  <1>2. CheckerInv /\ [RqNext]_rqVars => CheckerInv'
    <2> SUFFICES ASSUME CheckerInv, [RqNext]_rqVars PROVE CheckerInv'  OBVIOUS
    <2>1. CASE Cycle
      <3>1. BusOK /\ Wired /\ Follows /\ Counts  BY DEF CheckerInv
      <3>2. Ticked /\ BusOK' /\ Wired' /\ check_reqs  BY <2>1, <3>1, BusStep
      <3> QED  BY <3>1, <3>2, StepKeeps DEF Kept, CheckerInv
    <2>2. CASE UNCHANGED rqVars
      <3>1. BusOK'  BY <2>2 DEF CheckerInv, BusOK, own, rqVars
      <3>2. Wired'  BY <2>2 DEF CheckerInv, Wired, Master, arthur, own, rqVars
      <3>3. Follows'  BY <2>2 DEF CheckerInv, Follows, arthur, dead_cycles, own, rqVars
      <3>4. Counts'  BY <2>2 DEF CheckerInv, Counts, Granted, arthur, rqVars
      <3>5. ArbitrationExact'  BY <2>2 DEF CheckerInv, ArbitrationExact, arthur, rqVars
      <3> QED  BY <3>1, <3>2, <3>3, <3>4, <3>5 DEF CheckerInv
    <2> QED  BY <2>1, <2>2 DEF RqNext
  <1> QED  BY <1>1, <1>2, PTL DEF RqSpec

(* An arbitration error is reported only when a master broke the rules,    *)
(* and outside arthur mode a granted master's transaction never runs into  *)
(* the next master's unreported.                                           *)
THEOREM ArbitrationIsExact == RqSpec => []ArbitrationExact
  <1>1. CheckerInv => ArbitrationExact  BY DEF CheckerInv
  <1> QED  BY <1>1, CheckerInvariance, PTL
=============================================================================
