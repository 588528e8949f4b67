------------------------------- MODULE SjmFront -------------------------------
(***************************************************************************)
(* Bringing the SJM ports up: front_init (main.cc) turns the simulator's   *)
(* plusargs into a list, makes a master for every port that has a command  *)
(* file, a command program or a plusarg of its own, and shares the memory  *)
(* image out among the masters, each of which reads its part back when     *)
(* power-on reset is asserted (SJM::SetPor).  The constructors of SJM and  *)
(* of its controllers take their settings from the plusarg list.           *)
(*                                                                         *)
(* A plusarg is [n, v, o]: its name, its number (-1: none) and the port it *)
(* is for (-1: all).  An address is [r, id, hi, w]: the range its bits     *)
(* 42..41 name, the four bits that name an agent, whether a bit between    *)
(* them is set, and the word in the agent's space.                         *)
(***************************************************************************)
EXTENDS Integers, Sequences, SequencesExt, FiniteSets

CONSTANTS FrSetups,       \* what a simulation may be started with
          OutqMax,        \* G_OUTQ_DEPTH
          QueueMax,       \* G_MEMQ_DEPTH, G_SNOOPQ_DEPTH and G_PACKQ_DEPTH
          AddrOverflow,   \* G_ADDR_OVERFLOW_LIMIT
          DataOverflow    \* G_DATA_OVERFLOW_LIMIT

VARIABLES fr

FrPorts == 0..6           \* G_MAX_MASTERS

NoMaster == [aid |-> -1]          \* a NULL pointer to an SJM
Exists(m) == m.aid >= 0
NoFile == -3                      \* a command file or program that is not there
CannotStart == -2                 \* a program whose process cannot be started

\* The globals of main.cc, the files sjm_<i>.memdat, and each port's memory.
FrStart(setup) ==
    [pc |-> "args", i |-> 0, setup |-> setup, args |-> <<>>,
     masters |-> [i \in FrPorts |-> NoMaster], ids |-> <<>>, twice |-> {},
     files |-> [i \in FrPorts |-> setup.left], line |-> 1, mem |-> [i \in FrPorts |-> <<>>],
     por |-> {}]

FrInit == fr \in {FrStart(s) : s \in FrSetups}

-----------------------------------------------------------------------------
(* Agents, ports and ranges                                                *)

AgentTom0 == 12
AgentTom1 == 14
AgentZulu == 8

find_agent_id(a) == CASE a.id < 6 -> a.id
                      [] a.id \in {12, 13} -> AgentTom0
                      [] a.id \in {14, 15} -> AgentTom1
                      [] a.id \in 8..11 -> AgentZulu
                      [] OTHER -> -1

find_port_id(id) == CASE id < 5 -> id
                      [] id = 5 -> 6
                      [] id \in {12, 13} -> 4
                      [] id \in {14, 15} -> 5
                      [] id \in 8..11 -> 6
                      [] OTHER -> -1

\* The three ranges a memory controller makes for its agent cover two ids.
NewRanges(aid) == [r : {"CCHE", "NONC", "CONF"}, id : {aid, aid + 1}]
FrInRange(m, a) == ~a.hi /\ [r |-> a.r, id |-> a.id] \in NewRanges(m.aid)

-----------------------------------------------------------------------------
(* The plusargs                                                            *)

Given(args, n, o) == {a \in args : a.n = n /\ a.o = o}
Number(a) == IF a.v < 0 THEN 0 ELSE a.v        \* atoi of an empty string

\* The maximum of a random delay is passed as the owner, not as the value.
MkArg(a) ==
    CASE a.n \in {"mem_delay_rand", "snp_delay_rand"} -> [n |-> a.n, v |-> -1, o |-> a.v]
      [] a.n = "int_delay_rand" -> IF a.v >= 0 THEN [n |-> a.n, v |-> -1, o |-> a.v]
                                   ELSE [n |-> a.n, v |-> 0, o |-> -1]
      [] a.n = "no_start_flag" -> [a EXCEPT !.v = -1]
      [] OTHER -> [a EXCEPT !.v = Number(a)]

\* A scan for sjm_snoop_delay also finds sjm_snoop_delay_random.
Scanned(args, n, o) ==
    LET found == {a \in Given(args, n, o) : n = "snp_delay" /\ o = -1 => a.v >= 0}
    IN IF found = {} THEN <<>> ELSE <<MkArg(CHOOSE a \in found : TRUE)>>

AllPortArgs == <<"no_start_flag", "outq_size", "rd_delay", "wr_delay", "mem_delay_rand",
                 "memq_size", "iomemq_size", "dataq_size", "snp_delay", "snp_delay_rand",
                 "snoopq_size", "in_jpackq_size", "int_ack_delay", "int_retry_delay",
                 "int_delay_rand", "timeout_scale">>
OnePortArgs == <<"rd_delay", "wr_delay", "snp_delay", "int_ack_delay", "int_retry_delay",
                 "timeout_scale", "sjm_multiple_ids", "sjm_no_idle_after_inv", "SJMARG",
                 "SJMAID">>

ScanAll(args, names, o) == FlattenSeq([k \in DOMAIN names |-> Scanned(args, names[k], o)])

\* default_nodead holds unless dead, nosample_dead or nodead is given; the
\* default_ plusargs and SJMDEADCYCLE= are scanned to no effect.
system_mode(args) ==
    CASE Given(args, "nodead", -1) # {} -> 6
      [] Given(args, "nosample_dead", -1) # {} -> 5
      [] Given(args, "dead", -1) # {} -> 4
      [] OTHER -> 3

ModeArgs(args) ==
    LET estar == Given(args, "estar", -1)
    IN (IF estar = {} THEN <<>> ELSE <<MkArg(CHOOSE a \in estar : TRUE)>>)
       \o <<[n |-> "deadcycle", v |-> IF system_mode(args) \in {4, 5} THEN 1 ELSE 0, o |-> -1]>>

arglist(args) ==
    ScanAll(args, AllPortArgs, -1)
    \o FlattenSeq([i \in 1..7 |-> ScanAll(args, OnePortArgs, i - 1)])
    \o ModeArgs(args)

-----------------------------------------------------------------------------
(* The constructors                                                        *)

RandomDelay == 99            \* a delay drawn by rand

NewMaster(i, type) ==
    [id |-> i, type |-> type, aid |-> -1, wait |-> TRUE, dead |-> -1, estar |-> -1, scale |-> 1,
     multi |-> FALSE, idle |-> TRUE, prog |-> <<>>, bad |-> FALSE,
     rd_delay |-> 0, wr_delay |-> 0, snp_delay |-> 0, int_ack_delay |-> 0, int_retry_delay |-> 0,
     random |-> {}, memq |-> QueueMax, iomemq |-> QueueMax, dataq |-> 63,
     snoopq |-> QueueMax, packq |-> QueueMax]

\* A controller's loop: an argument for all ports gives way to a delay that
\* is set, one for this port does not.
TakeDelay(m, a) == IF a.o >= 0 \/ m[a.n] = 0 THEN [m EXCEPT ![a.n] = a.v] ELSE m

\* MemoryControl's constructor.
MemArg(m, a) ==
    CASE a.n \in {"rd_delay", "wr_delay"} -> TakeDelay(m, a)
      [] a.n = "mem_delay_rand" ->
            IF m.rd_delay # 0 \/ m.wr_delay # 0 THEN m
            ELSE [m EXCEPT !.rd_delay = RandomDelay, !.wr_delay = RandomDelay,
                           !.random = @ \union {"mem"}]
      [] a.v > QueueMax -> [m EXCEPT !.bad = TRUE]
      [] a.n = "memq_size" -> [m EXCEPT !.memq = a.v + AddrOverflow]
      [] a.n = "iomemq_size" -> [m EXCEPT !.iomemq = a.v + AddrOverflow]
      [] OTHER -> [m EXCEPT !.dataq = a.v + DataOverflow]

\* SnoopControl's constructor; the queues are made larger by the overflow.
SnoopArg(m, a) ==
    CASE a.n = "snp_delay" -> TakeDelay(m, a)
      [] a.n = "snp_delay_rand" -> IF m.snp_delay # 0 THEN m
                                   ELSE [m EXCEPT !.snp_delay = RandomDelay,
                                                  !.random = @ \union {"snp"}]
      [] a.v > QueueMax -> [m EXCEPT !.bad = TRUE]
      [] a.n = "snoopq_size" -> [m EXCEPT !.snoopq = a.v]
      [] OTHER -> [m EXCEPT !.packq = a.v]

\* InterruptControl's constructor.
IntArg(m, a) ==
    IF a.n # "int_delay_rand" THEN TakeDelay(m, a)
    ELSE IF m.int_ack_delay # 0 \/ m.int_retry_delay # 0 THEN [m EXCEPT !.bad = TRUE]
    ELSE [m EXCEPT !.random = @ \union {"int"}]

MemArgs == {"rd_delay", "wr_delay", "mem_delay_rand", "memq_size", "iomemq_size", "dataq_size"}
SnoopArgs == {"snp_delay", "snp_delay_rand", "snoopq_size", "in_jpackq_size"}
IntArgs == {"int_ack_delay", "int_retry_delay", "int_delay_rand"}
ForAll == {"mem_delay_rand", "memq_size", "iomemq_size", "dataq_size", "snp_delay_rand",
           "snoopq_size", "in_jpackq_size", "int_delay_rand"}

\* One argument of the loop of SJM's constructor.
SjmArg(m, a) ==
    LET mine == a.o = m.id \/ a.o < 0 IN
    CASE a.n = "no_start_flag" -> [m EXCEPT !.wait = FALSE]
      [] a.n = "deadcycle" -> [m EXCEPT !.dead = a.v]
      [] a.n = "estar" -> IF a.v \in {1, 2, 32} THEN [m EXCEPT !.estar = a.v] ELSE m
      [] a.n = "outq_size" -> IF a.v > OutqMax THEN [m EXCEPT !.bad = TRUE] ELSE m
      [] ~(mine \/ a.n \in ForAll) -> m
      [] a.n \in MemArgs -> MemArg(m, a)
      [] a.n \in SnoopArgs -> SnoopArg(m, a)
      [] a.n \in IntArgs -> IntArg(m, a)
      [] a.n = "sjm_multiple_ids" -> [m EXCEPT !.multi = TRUE]
      [] a.n = "sjm_no_idle_after_inv" -> [m EXCEPT !.idle = FALSE]
      [] a.n = "timeout_scale" -> IF a.o # 0 \/ m.scale = 1 THEN [m EXCEPT !.scale = a.v] ELSE m
      [] a.n = "SJMARG" -> IF m.type = "exe" THEN [m EXCEPT !.prog = Append(@, a.v)] ELSE m
      [] OTHER -> IF m.type = "arg" THEN [m EXCEPT !.aid = a.v] ELSE m

\* SJM's constructor: NoMaster when it throws BadInitialization or BadPlusArg.
\* A file's number is the agent id it configures, below 0 when it is bad.
NewSJM(i, type, file, args) ==
    LET m == FoldLeft(SjmArg, NewMaster(i, type), args)
        n == IF type = "arg" THEN m ELSE [m EXCEPT !.aid = file]
    IN IF n.bad \/ n.aid < 0 \/ find_port_id(n.aid) # i THEN NoMaster ELSE n

-----------------------------------------------------------------------------
(* front_init                                                              *)

\* One name: [m, stop], where stop is "both" for a command file and a command
\* program (the loop goes on with the next port) and "fatal" for a program
\* that could not be started (front_init returns).
Try(st, i, base) ==
    LET file(t) == fr.setup.files[i][base][t]
        cmd == IF file("cmd") = NoFile THEN st.m
               ELSE NewSJM(i, "cmd", file("cmd"), fr.args)
    IN IF file("exe") = NoFile THEN [st EXCEPT !.m = cmd]
       ELSE IF Exists(cmd) THEN [m |-> cmd, stop |-> "both"]
       ELSE IF file("exe") = CannotStart THEN [m |-> NoMaster, stop |-> "fatal"]
       ELSE [st EXCEPT !.m = NewSJM(i, "exe", file("exe"), fr.args)]

MakeMaster(i) ==
    LET alias == IF fr.setup.diag THEN Try([m |-> NoMaster, stop |-> "no"], i, "alias")
                 ELSE [m |-> NoMaster, stop |-> "no"]
        named == IF Exists(alias.m) \/ alias.stop # "no" THEN alias ELSE Try(alias, i, "sjm")
    IN IF Exists(named.m) \/ named.stop # "no" \/ Given(fr.setup.args, "SJM[]AID", i) = {}
       THEN named
       ELSE [named EXCEPT !.m = NewSJM(i, "arg", -1, fr.args)]

ReadArgs ==
    /\ fr.pc = "args"
    /\ fr' = [fr EXCEPT !.pc = "ports", !.args = arglist(fr.setup.args)]

\* The port's turn in the loop; the memory image a simulation before left
\* behind is removed unless the loop is cut short.
Loop(i, p) ==
    LET f == [fr EXCEPT !.masters[i] = p.m, !.i = @ + 1, !.pc = IF i = 6 THEN "sync" ELSE "ports"]
    IN CASE p.stop = "fatal" -> [fr EXCEPT !.pc = "fatal"]
         [] p.stop = "both" -> [f EXCEPT !.twice = @ \union {i}]
         [] OTHER -> [f EXCEPT !.ids = IF Exists(p.m) THEN Append(@, i) ELSE @,
                               !.files[i] = <<>>]
InitPort == fr.pc = "ports" /\ fr' = Loop(fr.i, MakeMaster(fr.i))

\* sync_register; without a registered master nothing more is done.
Register ==
    /\ fr.pc = "sync"
    /\ fr' = [fr EXCEPT !.pc = IF fr.ids = <<>> \/ fr.setup.memdat = <<>> THEN "ready"
                               ELSE "memdat"]

MemLine(k) == fr.setup.memdat[k]
MemLines == Len(fr.setup.memdat)
NextMemLine(f) == [f EXCEPT !.line = @ + 1, !.pc = IF fr.line = MemLines THEN "ready" ELSE @]

\* The lines of the section that begins at k, up to the next address.
SectionEnd(k) == CHOOSE e \in k..MemLines : /\ \A j \in (k + 1)..e : MemLine(j).k # "at"
                                         /\ (e = MemLines \/ MemLine(e + 1).k = "at")
SectionData(k) == FlattenSeq([j \in 1..(SectionEnd(k) - k) |->
                                IF MemLine(k + j).k = "data" THEN MemLine(k + j).d ELSE <<>>])

\* A mutant of ReadSection: the file is written anew for every section.
ReadSection_anew ==
    LET a == MemLine(fr.line).a
        id == find_port_id(find_agent_id(a))
    IN /\ fr.pc = "memdat" /\ MemLine(fr.line).k = "at" /\ id >= 0
       /\ Exists(fr.masters[id]) /\ FrInRange(fr.masters[id], a)
       /\ fr' = [fr EXCEPT !.files[id] = <<[a |-> a, d |-> SectionData(fr.line)]>>,
                           !.line = SectionEnd(fr.line) + 1,
                           !.pc = IF SectionEnd(fr.line) = MemLines THEN "ready" ELSE @]

\* An address of a master: the section goes to the end of that port's file.
ReadSection ==
    LET a == MemLine(fr.line).a
        id == find_port_id(find_agent_id(a))
    IN /\ fr.pc = "memdat" /\ MemLine(fr.line).k = "at" /\ id >= 0
       /\ Exists(fr.masters[id]) /\ FrInRange(fr.masters[id], a)
       /\ fr' = [fr EXCEPT !.files[id] = Append(@, [a |-> a, d |-> SectionData(fr.line)]),
                           !.line = SectionEnd(fr.line) + 1,
                           !.pc = IF SectionEnd(fr.line) = MemLines THEN "ready" ELSE @]

\* Any other line is passed over.
SkipLine ==
    /\ fr.pc = "memdat"
    /\ MemLine(fr.line).k = "at" =>
         LET id == find_port_id(find_agent_id(MemLine(fr.line).a))
         IN id >= 0 => ~(Exists(fr.masters[id]) /\ FrInRange(fr.masters[id], MemLine(fr.line).a))
    /\ fr' = NextMemLine(fr)

\* The check lets port -1 through to g_masters[-1]: what lies there may be
\* taken for no master, as in SkipLine, or for one.
WildMaster ==
    /\ fr.pc = "memdat" /\ MemLine(fr.line).k = "at"
    /\ find_port_id(find_agent_id(MemLine(fr.line).a)) = -1
    /\ fr' = [fr EXCEPT !.pc = "crash"]

\* SJM::SetPor, asserted: the port's sections are written to its memory.
SetMemdat(mem, s) == [k \in 1..Len(s.d) |-> [a |-> [s.a EXCEPT !.w = @ + k - 1], d |-> s.d[k]]] \o mem
AssertPorFr(i) ==
    /\ fr.pc = "ready" /\ Exists(fr.masters[i]) /\ i \notin fr.por
    /\ fr' = [fr EXCEPT !.por = @ \union {i}, !.mem[i] = FoldLeft(SetMemdat, @, fr.files[i])]

FrDone == fr.pc \in {"fatal", "crash", "ready"} /\ UNCHANGED fr

FrNext == \/ ReadArgs \/ InitPort \/ Register \/ ReadSection \/ SkipLine \/ WildMaster
          \/ \E i \in FrPorts : AssertPorFr(i)
          \/ FrDone

-----------------------------------------------------------------------------
(* Properties                                                              *)

\* The word a port's memory holds at a, the latest written.
Held(i, a) == LET ks == {k \in DOMAIN fr.mem[i] : fr.mem[i][k].a = a}
              IN fr.mem[i][CHOOSE k \in ks : \A j \in ks : k <= j].d

\* The words of the image: the k-th word of the section at line s.
WordAt(p) == [MemLine(p[1]).a EXCEPT !.w = @ + p[2] - 1]
Image == UNION {{<<s, k>> : k \in 1..Len(SectionData(s))}
                : s \in {l \in 1..MemLines : MemLine(l).k = "at"}}

\* After power-on reset a port's memory holds the words of the image whose
\* section begins in its ranges, at an address its agent is found by, the
\* last in the file where several name an address, and no other word: not
\* one of another port and not one an earlier simulation left behind.  Only
\* a port with both a command file and a program, which is reported, may
\* keep an old image.
MemdatExact ==
    fr.pc = "ready" =>
      \A i \in fr.por \ fr.twice :
        LET mine == {p \in Image : LET a == MemLine(p[1]).a IN
                       find_port_id(a.id) = i /\ FrInRange(fr.masters[i], a)}
            last(a) == CHOOSE p \in mine : WordAt(p) = a /\ \A q \in mine : WordAt(q) = a => q[1] <= p[1]
        IN /\ {fr.mem[i][k].a : k \in DOMAIN fr.mem[i]} = {WordAt(p) : p \in mine}
           /\ \A p \in mine : LET q == last(WordAt(p))
                              IN Held(i, WordAt(p)) = SectionData(q[1])[q[2]]

Delays == {"rd_delay", "wr_delay", "snp_delay", "int_ack_delay", "int_retry_delay"}
Own(n, i) == Given(fr.setup.args, n, i)
For(n) == Given(fr.setup.args, n, -1)

\* A setting given for a port is the one its master runs with, whatever is
\* given for all ports, a random delay included, and in whatever order; a
\* setting given for all ports only reaches every master.  The timeout scale
\* of port 0 is left out: owner 0 is taken for no owner there.
OwnWins ==
    \A i \in FrPorts : Exists(fr.masters[i]) =>
      LET m == fr.masters[i] IN
      /\ \A n \in Delays :
           IF Own(n, i) # {} THEN \A a \in Own(n, i) : m[n] = Number(a)
           ELSE \A a \in For(n) : a.v > 0 => m[n] = a.v
      /\ i # 0 => IF Own("timeout_scale", i) # {}
                  THEN \A a \in Own("timeout_scale", i) : m.scale = Number(a)
                  ELSE \A a \in For("timeout_scale") : m.scale = Number(a)
      /\ find_port_id(m.aid) = i

\* Start-up gives every port the image and the settings it was asked to have.
StartedAsAsked == MemdatExact /\ OwnWins
=============================================================================
