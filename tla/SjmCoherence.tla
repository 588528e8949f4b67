---------------------------- MODULE SjmCoherence ----------------------------
(***************************************************************************)
(* Cache coherence between the simulated JBus masters (sjm/c).  A port has *)
(* a command reader (SJM::sjmCycle), a direct-mapped cache, the buffer of  *)
(* its outstanding reads, a snoop controller and, for the addresses it is  *)
(* home to, a memory controller.                                           *)
(*                                                                         *)
(* A transaction is on the bus for one step, in which every port decodes   *)
(* it (sjmProcessInSigs); j_packs and read data are steps of their own.    *)
(* The steps of one port happen in any order, because each controller has  *)
(* a delay of its own that may be random; out_packq is part of that delay. *)
(*                                                                         *)
(* The contents of a line are its version: the number of writes that made  *)
(* it, counted in the order of the bus.  A transaction in wrbq is the      *)
(* object that is in outq, so wrbq is the WRB and WRBC of outq.            *)
(***************************************************************************)
EXTENDS Naturals, Sequences, FiniteSets

CONSTANTS CohPorts, Addrs,
          Home,        \* the port whose memory has the address
          Index,       \* the cache line of an address
          Cmds,        \* the commands of every port's program
          CohOrbSize,     \* entries of the read buffer
          MaxCmds      \* commands a port runs (bound)

ASSUME SjmCoherenceAssumption ==
  /\ CohPorts \subseteq Nat \ {0} /\ Addrs \subseteq Nat \ {0}
  /\ Home \in [Addrs -> CohPorts]
  /\ CohOrbSize \in Nat \ {0} /\ MaxCmds \in Nat
  /\ Cmds \in [CohPorts -> SUBSET {"READ", "IFETCH", "OWN", "WRITE", "READBLK", "WRITEBLK"}]

VARIABLES cache, orb, outq, rdq, snoopq, resultsq,
          in_packq,  \* per port, the j_packs it has received from each port
          memq, mem,
          bus,       \* the port that keeps the bus for its write-back, or none
          latest,    \* the newest version of every address
          ncmd,      \* commands run
          err        \* what a message of error severity has said

cohVars == <<cache, orb, outq, rdq, snoopq, resultsq, in_packq, memq, mem, bus, latest, ncmd, err>>

Slots == 1 .. CohOrbSize
Lines == {Index[a] : a \in Addrs}
Free == 0
Reads == {"RDS", "RDSA", "RDO", "OWN", "RDD"}
Writes == {"WRI", "WRIS", "INV", "WRB", "WRBC"}
Invalidating == {"RDO", "OWN", "WRI", "WRIS", "INV"}
NoEntry == [valid |-> FALSE, type |-> "RDS", addr |-> 0, modify |-> FALSE, dataret |-> FALSE,
            blocking |-> FALSE, st |-> "I", val |-> 0, exp |-> 0]

---------------------------------------------------------------------------
(* Cache *)

GetState(p, a) == cache[p][Index[a]].st
CacheContains(p, a) == cache[p][Index[a]].addr = a
State(p, a) == IF CacheContains(p, a) THEN GetState(p, a) ELSE "I"

\* CacheLine::ChangeState refuses these.
Forbidden == {<<"M", "E">>, <<"M", "S">>, <<"O", "E">>, <<"O", "S">>, <<"E", "O">>,
              <<"S", "O">>, <<"S", "E">>, <<"I", "O">>}

ChangeState(line, n) == IF <<line.st, n>> \in Forbidden THEN line ELSE [line EXCEPT !.st = n]

WriteLine(line, a, v, n) == ChangeState([line EXCEPT !.addr = a, !.val = v], n)

---------------------------------------------------------------------------
(* Read buffer and queues *)

\* A command waits for a read of its address or of its cache line.
BlockOn(p, a) == \E i \in Slots : orb[p][i].valid /\ Index[orb[p][i].addr] = Index[a]

\* BlockOn leaves one entry at most for an address.
IsBlocking(p, a) == \E i \in Slots : orb[p][i].valid /\ orb[p][i].addr = a /\ orb[p][i].blocking

Full(p) == \A i \in Slots : orb[p][i].valid
FreeSlot(p) == CHOOSE i \in Slots : ~orb[p][i].valid /\ \A j \in 1 .. i - 1 : orb[p][j].valid

SnoopPending(p, a) == \E i \in DOMAIN snoopq[p] : snoopq[p][i].addr = a

InvalidatingPending(p, a) ==
  \E i \in DOMAIN snoopq[p] : snoopq[p][i].addr = a /\ snoopq[p][i].type \in Invalidating

OwnPending(p, i) == \E k \in DOMAIN snoopq[p] : snoopq[p][k].own /\ snoopq[p][k].orb = i

CohWritePending(p, a) ==
  \E i \in DOMAIN outq[p] : outq[p][i].type \in Writes /\ outq[p][i].addr = a
rdrAnyWritePending(p) ==
  \E i \in DOMAIN outq[p] : outq[p][i].type \in {"RDO", "OWN"} \cup Writes

\* Write-backs of the address become WRBC.
CancelWrb(q, a) ==
  [i \in DOMAIN q |-> IF q[i].type = "WRB" /\ q[i].addr = a THEN [q[i] EXCEPT !.type = "WRBC"]
                      ELSE q[i]]

Trans(t, a, i, v, at) == [type |-> t, addr |-> a, orb |-> i, val |-> v, atomic |-> at]

---------------------------------------------------------------------------
(* The command reader *)

\* A command that misses: an entry of the read buffer, the read, and behind it the
\* write-back of a modified victim, which stays in the cache as owned.
GenRead(p, t, a, modify) ==
  LET line == cache[p][Index[a]]
      wb   == line.st \in {"M", "O"} /\ t \notin {"OWN", "RDD"}
      i    == FreeSlot(p)
  IN  /\ ~Full(p)
      /\ orb' = [orb EXCEPT ![p][i] =
                   [NoEntry EXCEPT !.valid = TRUE, !.type = t, !.addr = a, !.modify = modify]]
      /\ outq' = [outq EXCEPT ![p] = @ \o <<Trans(t, a, i, 0, wb)>> \o
                   (IF wb THEN <<Trans("WRB", line.addr, 0, line.val, TRUE)>> ELSE << >>)]
      /\ cache' = IF wb /\ line.st = "M"
                  THEN [cache EXCEPT ![p][Index[a]] = ChangeState(@, "O")] ELSE cache
      /\ UNCHANGED <<latest, err>>

Stale(p, a) == IF cache[p][Index[a]].val = latest[a] THEN {} ELSE {"stale hit"}

\* rdrCheckCache compares the line with what the program expects.
Hit(p, a) ==
  /\ err' = err \cup Stale(p, a)
  /\ UNCHANGED <<cache, orb, outq, latest>>

\* READ and IFETCH
ReadCmd(p, c, a) ==
  /\ ~CohWritePending(p, a)
  /\ IF State(p, a) # "I" THEN Hit(p, a)
     ELSE GenRead(p, IF c = "IFETCH" THEN "RDSA" ELSE "RDS", a, FALSE)

\* A write to a line in the cache waits for the writes in the queue.
WriteHit(p, a) ==
  /\ ~rdrAnyWritePending(p)
  /\ cache' = [cache EXCEPT ![p][Index[a]] = WriteLine(@, a, latest[a] + 1, "M")]
  /\ latest' = [latest EXCEPT ![a] = @ + 1]
  /\ err' = err \cup Stale(p, a)
  /\ UNCHANGED <<orb, outq>>

\* OWN of a line the cache has to itself.
OwnHit(p, a) ==
  /\ cache' = [cache EXCEPT ![p][Index[a]] = ChangeState(@, "M")]
  /\ err' = err \cup Stale(p, a)
  /\ UNCHANGED <<orb, outq, latest>>

\* OWN, WRITE and LOCK: the owner of a shared line asks the others to drop it.
OwnCmd(p, c, a) ==
  /\ ~CohWritePending(p, a)
  /\ IF State(p, a) \in {"M", "E"} THEN IF c = "WRITE" THEN WriteHit(p, a) ELSE OwnHit(p, a)
     ELSE GenRead(p, IF State(p, a) = "O" THEN "OWN" ELSE "RDO", a, c = "WRITE")

\* READBLK leaves nothing in the cache.
ReadBlkCmd(p, a) ==
  /\ ~CohWritePending(p, a)
  /\ IF State(p, a) # "I" THEN Hit(p, a) ELSE GenRead(p, "RDD", a, FALSE)

\* WRITEBLK writes the whole line to memory.
WriteBlkCmd(p, a) ==
  LET t == IF Home[a] = p THEN "INV" ELSE IF State(p, a) = "I" THEN "WRI" ELSE "WRIS"
  IN  /\ outq' = [outq EXCEPT ![p] = Append(@, Trans(t, a, 0, 0, FALSE))]
      /\ UNCHANGED <<cache, orb, latest, err>>

\* SJM::sjmCycle, the commands that may make a transaction.
CohCycle(p) ==
  /\ ncmd[p] < MaxCmds
  /\ ncmd' = [ncmd EXCEPT ![p] = @ + 1]
  /\ UNCHANGED <<rdq, snoopq, resultsq, in_packq, memq, mem, bus>>
  /\ \E c \in Cmds[p], a \in Addrs :
       /\ ~BlockOn(p, a) /\ ~SnoopPending(p, a)
       /\ CASE c \in {"READ", "IFETCH"} -> ReadCmd(p, c, a)
            [] c \in {"OWN", "WRITE"}   -> OwnCmd(p, c, a)
            [] c = "READBLK"            -> ReadBlkCmd(p, a)
            [] OTHER                    -> WriteBlkCmd(p, a)

---------------------------------------------------------------------------
(* The bus *)

\* What the reads of a type install; RDS is decided by the j_packs.
ReadState(t) ==
  CASE t = "RDSA" -> "S" [] t \in {"RDO", "OWN"} -> "M" [] t = "RDD" -> "I" [] OTHER -> "?"

\* The transaction at the head of outq goes on the bus and every port decodes it.
\* A read that will modify its line takes its version here, as a block write does.
BusTrans(p) ==
  LET t0 == Head(outq[p])
      t  == IF t0.type = "WRB" /\ InvalidatingPending(p, t0.addr)
            THEN [t0 EXCEPT !.type = "WRBC"] ELSE t0
      a  == t.addr
      h  == Home[a]
      modify == t.type \in Reads /\ orb[p][t.orb].modify
      bumps  == modify \/ t.type \in {"WRI", "WRIS", "INV"}
      v  == IF t.type \in {"WRI", "WRIS", "INV"} THEN latest[a] + 1 ELSE t.val
      held   == t.type \notin {"INV", "WRBC"}
      rest   == [outq EXCEPT ![p] = Tail(@)]
  IN  /\ outq[p] # << >> /\ bus \in {p, Free}
      /\ bus' = IF t.atomic /\ t.type \in Reads THEN p ELSE Free
      /\ latest' = IF bumps THEN [latest EXCEPT ![a] = @ + 1] ELSE latest
      /\ orb' = IF t.type \in Reads THEN [orb EXCEPT ![p][t.orb].exp = latest[a]] ELSE orb
      /\ memq' = IF t.type = "WRBC" THEN memq
                 ELSE [memq EXCEPT ![h] = Append(@,
                         [read |-> t.type \in Reads, src |-> p, addr |-> a, orb |-> t.orb,
                          st |-> ReadState(t.type), val |-> v])]
      /\ snoopq' = [q \in CohPorts |->
                      IF t.type \in {"WRB", "WRBC"} THEN snoopq[q]
                      ELSE Append(snoopq[q], [type |-> t.type, src |-> p, addr |-> a,
                                              orb |-> t.orb, own |-> q = p])]
      /\ resultsq' = [q \in CohPorts |->
           LET res == [addr |-> a, must |-> t.type \notin {"WRB", "WRBC"},
                       cancel |-> t.type = "WRBC", hold |-> held /\ q = h]
               inv == [addr |-> a, must |-> FALSE, cancel |-> FALSE, hold |-> TRUE]
           IN  resultsq[q] \o (IF t.type = "INV" /\ q = p THEN <<inv, res>> ELSE <<res>>)]
      /\ outq' = IF t.type \in Invalidating THEN [q \in CohPorts |-> CancelWrb(rest[q], a)] ELSE rest
      /\ UNCHANGED <<cache, rdq, in_packq, mem, ncmd, err>>

---------------------------------------------------------------------------
(* SnoopControl *)

\* The answer of a port to the snoop of another port: the j_pack, the next state, and
\* the state in which it returns its data, if it does.
Answer(pk, n, ret) == [pack |-> pk, next |-> n, ret |-> ret]

SnoopOther(t, st) ==
  CASE t = "RDS" /\ st \in {"S", "E"}  -> Answer("COHACKS", "S", "none")
    [] t = "RDS" /\ st \in {"O", "M"}  -> Answer("COHACKD", "O", "S")
    [] t = "RDSA" /\ st = "E"          -> Answer("COHACK", "S", "none")
    [] t = "RDSA" /\ st \in {"O", "M"} -> Answer("COHACKD", "O", "S")
    [] t \in {"RDO", "OWN"} /\ st \in {"O", "M"} -> Answer("COHACKD", "I", "M")
    [] t = "RDD" /\ st \in {"O", "M"}  -> Answer("COHACKD", st, "I")
    [] t \in Invalidating              -> Answer("COHACK", "I", "none")
    [] OTHER                           -> Answer("COHACK", st, "none")

\* The states in which a port may see its own transaction.
OwnStates(t) ==
  CASE t \in {"RDS", "RDSA", "RDD", "WRI"} -> {"I"}
    [] t = "RDO" -> {"I", "S"} [] t = "OWN" -> {"I", "O"}
    [] OTHER -> {"I", "S", "E", "O", "M"}

SnoopOwn(t, st) ==
  CASE t = "OWN" /\ st = "O" -> Answer("COHACKD", "M", "none")
    [] t \in {"WRIS", "INV"} -> Answer("COHACK", "I", "none")
    [] OTHER                 -> Answer("COHACK", st, "none")

\* SnoopControl::Cycle, the snoop at the head of the queue.
SnoopCycle(p) ==
  LET s  == Head(snoopq[p])
      a  == s.addr
      st == State(p, a)
      r  == IF s.own THEN SnoopOwn(s.type, st) ELSE SnoopOther(s.type, st)
      line == cache[p][Index[a]]
      local == s.own /\ s.type = "OWN" /\ st = "O"
  IN  /\ snoopq[p] # << >>
      /\ ~IsBlocking(p, a)
      /\ snoopq' = [snoopq EXCEPT ![p] = Tail(@)]
      /\ cache' = IF r.next = st THEN cache
                  ELSE [cache EXCEPT ![p][Index[a]] = ChangeState(@, r.next)]
      /\ outq' = IF st \in {"M", "O"} /\ r.next = "I" THEN [outq EXCEPT ![p] = CancelWrb(@, a)]
                 ELSE outq
      /\ orb' = IF ~s.own \/ s.type \notin Reads THEN orb
                ELSE [orb EXCEPT ![p][s.orb] =
                        IF local THEN [@ EXCEPT !.blocking = TRUE, !.st = "M", !.val = line.val,
                                                !.dataret = TRUE]
                        ELSE [@ EXCEPT !.blocking = TRUE]]
      /\ rdq' = IF r.ret = "none" THEN rdq
                ELSE [rdq EXCEPT ![p] = Append(@, [dst |-> s.src, orb |-> s.orb, st |-> r.ret,
                                                   val |-> line.val])]
      /\ in_packq' = [q \in CohPorts |-> [in_packq[q] EXCEPT ![p] = Append(@, r.pack)]]
      /\ err' = err \cup (IF s.own /\ st \notin OwnStates(s.type) THEN {"own state"} ELSE {})
                    \cup (IF r.next # st /\ <<st, r.next>> \in Forbidden THEN {"transition"} ELSE {})
      /\ UNCHANGED <<resultsq, memq, mem, bus, latest, ncmd>>

\* UpdatePacks: the j_packs of all ports are in for the head of resultsq.
PacksIn(p) == Head(resultsq[p]).must => \A q \in CohPorts : in_packq[p][q] # << >>

PackResult(p) ==
  LET got == {Head(in_packq[p][q]) : q \in CohPorts}
  IN  IF "COHACKD" \in got THEN "COHACKD" ELSE IF "COHACKS" \in got THEN "COHACKS" ELSE "COHACK"

ClearPackResults(p) ==
  /\ resultsq' = [resultsq EXCEPT ![p] = Tail(@)]
  /\ in_packq' = IF Head(resultsq[p]).must
                 THEN [in_packq EXCEPT ![p] = [q \in CohPorts |-> Tail(@[q])]] ELSE in_packq

\* A result nobody waits for.
ResultCycle(p) ==
  /\ resultsq[p] # << >>
  /\ ~Head(resultsq[p]).hold
  /\ PacksIn(p)
  /\ ClearPackResults(p)
  /\ UNCHANGED <<cache, orb, outq, rdq, snoopq, memq, mem, bus, latest, ncmd, err>>

---------------------------------------------------------------------------
(* MemoryControl *)

\* Mutant: memory answers although an owner does.
Supplied_never(p) == FALSE

\* An owner returns the data.
Supplied(p) == Head(resultsq[p]).must /\ PackResult(p) = "COHACKD"

InstallState(p, m) ==
  IF m.st # "?" THEN m.st ELSE IF PackResult(p) = "COHACKS" THEN "S" ELSE "E"

\* processRead: the data comes from memory as it is now.
processRead(p, m) == [dst |-> m.src, orb |-> m.orb, st |-> InstallState(p, m), val |-> mem[m.addr]]

\* MemoryControl::Cycle: the oldest request, when its j_packs are in.
MemCycle(p) ==
  LET m == Head(memq[p])
  IN  /\ memq[p] # << >> /\ resultsq[p] # << >>
      /\ Head(resultsq[p]).addr = m.addr /\ Head(resultsq[p]).hold /\ ~Head(resultsq[p]).cancel
      /\ PacksIn(p)
      /\ memq' = [memq EXCEPT ![p] = Tail(@)]
      /\ mem' = IF m.read THEN mem ELSE [mem EXCEPT ![m.addr] = m.val]
      /\ rdq' = IF ~m.read \/ Supplied(p) THEN rdq
                ELSE [rdq EXCEPT ![p] = Append(@, processRead(p, m))]
      /\ ClearPackResults(p)
      /\ UNCHANGED <<cache, orb, outq, snoopq, bus, latest, ncmd, err>>

---------------------------------------------------------------------------
(* Read data *)

\* Read data on the bus goes to the entry it names.
DataReturn(p) ==
  LET r == Head(rdq[p])
  IN  /\ rdq[p] # << >> /\ bus \in {p, Free}
      /\ rdq' = [rdq EXCEPT ![p] = Tail(@)]
      /\ IF orb[r.dst][r.orb].valid
         THEN /\ orb' = [orb EXCEPT ![r.dst][r.orb] =
                           [@ EXCEPT !.dataret = TRUE, !.st = r.st, !.val = r.val]]
              /\ UNCHANGED err
         ELSE /\ err' = err \cup {"invalid entry"}
              /\ UNCHANGED orb
      /\ UNCHANGED <<cache, outq, snoopq, resultsq, in_packq, memq, mem, bus, latest, ncmd>>

\* ReadOutBuffer::Cycle: data that has come, once the port has snooped its own read.
BufferCycle(p, i) ==
  LET e == orb[p][i]
      v == IF e.modify THEN e.val + 1 ELSE e.val
  IN  /\ e.valid /\ e.dataret /\ ~OwnPending(p, i)
      /\ cache' = IF e.type = "RDD" THEN cache
                  ELSE [cache EXCEPT ![p][Index[e.addr]] =
                          WriteLine(ChangeState(@, "I"), e.addr, v, e.st)]
      /\ orb' = [orb EXCEPT ![p][i] = NoEntry]
      /\ err' = err \cup (IF e.val = e.exp THEN {} ELSE {"stale data"})
      /\ UNCHANGED <<outq, rdq, snoopq, resultsq, in_packq, memq, mem, bus, latest, ncmd>>

---------------------------------------------------------------------------
CohInit ==
  /\ cache = [p \in CohPorts |-> [l \in Lines |-> [addr |-> 0, st |-> "I", val |-> 0]]]
  /\ orb = [p \in CohPorts |-> [i \in Slots |-> NoEntry]]
  /\ outq = [p \in CohPorts |-> << >>] /\ rdq = [p \in CohPorts |-> << >>]
  /\ snoopq = [p \in CohPorts |-> << >>] /\ resultsq = [p \in CohPorts |-> << >>]
  /\ in_packq = [p \in CohPorts |-> [q \in CohPorts |-> << >>]]
  /\ memq = [p \in CohPorts |-> << >>] /\ mem = [a \in Addrs |-> 0]
  /\ bus = Free /\ latest = [a \in Addrs |-> 0]
  /\ ncmd = [p \in CohPorts |-> 0] /\ err = {}

\* Nothing is under way.
Quiet ==
  \A p \in CohPorts : /\ outq[p] = << >> /\ rdq[p] = << >> /\ snoopq[p] = << >>
                   /\ resultsq[p] = << >> /\ memq[p] = << >>
                   /\ \A i \in Slots : ~orb[p][i].valid

\* The programs have ended.
CohDone == Quiet /\ (\A p \in CohPorts : ncmd[p] = MaxCmds) /\ UNCHANGED cohVars

CohNext ==
  \/ \E p \in CohPorts : \/ CohCycle(p) \/ BusTrans(p) \/ SnoopCycle(p) \/ ResultCycle(p)
                      \/ MemCycle(p) \/ DataReturn(p) \/ \E i \in Slots : BufferCycle(p, i)
  \/ CohDone

CohSpec == CohInit /\ [][CohNext]_cohVars

---------------------------------------------------------------------------
(* Properties *)

\* No message of error severity: a port never sees its own transaction in a state its
\* snoop table rejects, never makes an illegal transition, never receives data for an
\* entry it has freed (SnoopControl::Cycle, sjmProcessInSigs), and every read, hit or
\* miss, returns the newest version of its line in the order of the bus.
NoError == err = {}

\* A port that may write its line silently (E, M) is the only one with a copy, but for
\* copies whose invalidation waits in the snoop queue of the port that has them.
SingleWriter ==
  \A a \in Addrs, p, q \in CohPorts :
    p # q /\ State(p, a) \in {"M", "E"} /\ State(q, a) # "I" => InvalidatingPending(q, a)

\* When nothing is under way the newest version of every line is with its owner, or in
\* memory if there is none, and every copy is that version.
QuietCoherent ==
  Quiet => \A a \in Addrs :
    /\ \A p \in CohPorts : State(p, a) # "I" => cache[p][Index[a]].val = latest[a]
    /\ (\A p \in CohPorts : State(p, a) \notin {"M", "O"}) => mem[a] = latest[a]
    /\ \A p, q \in CohPorts : {State(p, a), State(q, a)} \subseteq {"M", "O", "E"} => p = q

\* The caches of the ports are coherent, on the bus and at rest.
Coherent == NoError /\ SingleWriter /\ QuietCoherent
=============================================================================
