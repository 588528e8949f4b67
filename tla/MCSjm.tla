------------------------------- MODULE MCSjm -------------------------------
(***************************************************************************)
(* The simulated JBus master, one part at a time, chosen by focus: the     *)
(* start of a simulation from each of Setups; the command-file compiler on *)
(* every file made of LineSet; two ports running each pair of Programs;    *)
(* two ports keeping two addresses of one cache line coherent, each home   *)
(* to one.                                                                 *)
(***************************************************************************)
EXTENDS SjmProgram, SjmCoherence, SjmFront

VARIABLE focus             \* "front", "parser", "program" or "coherence"

\* What a simulation is started with.
Neither == [cmd |-> NoFile, exe |-> NoFile]
NoNames == [alias |-> Neither, sjm |-> Neither]
CmdFile(aid) == [NoNames EXCEPT !.sjm.cmd = aid]
NoPorts == [i \in FrPorts |-> NoNames]
SecAt(r, id, w) == [k |-> "at", a |-> [r |-> r, id |-> id, hi |-> FALSE, w |-> w], d |-> <<>>]
SecData(d) == [k |-> "data", a |-> [r |-> "CCHE", id |-> 0, hi |-> FALSE, w |-> 0], d |-> d]
OldImage == <<[a |-> SecAt("CCHE", 12, 3).a, d |-> <<6>>]>>
NoSetup == [diag |-> TRUE, files |-> NoPorts, args |-> {}, left |-> <<>>, memdat |-> <<>>]

MemLineSet == {SecAt("CCHE", 12, 0), SecAt("CCHE", 12, 1), SecAt("NONC", 13, 0), SecAt("CCHE", 14, 0),
               SecAt("CCHE", 6, 0), SecAt("CCHE", 0, 0),
               SecData(<<7>>), SecData(<<8, 9>>), [SecData(<<>>) EXCEPT !.k = "blank"]}
MemImages == {<<SecAt("CCHE", 12, 0)>> \o s : s \in [1..3 -> MemLineSet]}
ImageSetups == {[NoSetup EXCEPT !.files[4] = CmdFile(12), !.files[5] = CmdFile(14), !.left = OldImage,
                              !.memdat = m] : m \in MemImages}

TwoFiles == [cmd : {NoFile, -1, 12}, exe : {NoFile, CannotStart, 12}]
PortSetups == {[NoSetup EXCEPT !.diag = d, !.files[4] = [alias |-> x, sjm |-> y],
                             !.files[6] = CmdFile(5), !.files[3] = CmdFile(2),
                             !.args = {[n |-> "SJM[]AID", v |-> 13, o |-> 4],
                                       [n |-> "SJMAID", v |-> 13, o |-> 4]},
                             !.left = OldImage, !.memdat = <<SecAt("CCHE", 12, 0), SecData(<<7>>)>>]
               : d \in BOOLEAN, x \in TwoFiles, y \in TwoFiles}

ArgSets(n, vs, o) == {{}} \union {{[n |-> n, v |-> v, o |-> o]} : v \in vs}
ArgSetups == {[NoSetup EXCEPT !.files[4] = CmdFile(12), !.files[0] = CmdFile(0), !.args = UNION {a, b, c, d, e, f}]
              : a \in ArgSets("rd_delay", {0, 3}, -1), b \in ArgSets("rd_delay", {0, 5}, 4),
                c \in ArgSets("mem_delay_rand", {-1, 4}, -1), d \in ArgSets("timeout_scale", {2}, -1),
                e \in ArgSets("timeout_scale", {3}, 4), f \in ArgSets("memq_size", {4, 99}, -1)}
             \union
             {[NoSetup EXCEPT !.files[5] = CmdFile(14), !.args = UNION {a, b, c, d, e}]
              : a \in ArgSets("snp_delay", {-1, 2}, -1), b \in ArgSets("snp_delay", {1}, 5),
                c \in ArgSets("snp_delay_rand", {4}, -1), d \in ArgSets("int_delay_rand", {-1, 4}, -1),
                e \in ArgSets("int_ack_delay", {3}, 5)}
Setups == ImageSetups \union PortSetups \union ArgSetups

\* The lines a file is made of, for the compiler.
Line(kind, op, parms, toks, label) ==
    [kind |-> kind, op |-> op, parms |-> parms, toks |-> toks, label |-> label, to |-> label]
LineSet ==
    {Line("config", "CONFIG", parms, <<>>, "") : parms \in {"ok", "bad"}} \union
    {Line("address", "ADDRESS", "few", <<>>, ""), Line("skip", "", "ok", <<>>, "")} \union
    {Line("label", "", "ok", <<>>, l) : l \in {"A", "B"}} \union
    {Line("cmd", op, "ok", <<>>, "A") : op \in {"BA", "BD", "ECCERROR", "LPA", "DONE"}} \union
    {Line("cmd", "BNE", "few", <<>>, "A"), Line("cmd", "WAIT", "extra", <<>>, "A"),
     Line("cmd", "TIMEOUT", "badopt", <<>>, "A"), Line("cmd", "CMP", "bad", <<>>, "A"),
     Line("cmd", "APADDRESS", "bad", <<>>, "A"),
     Line("cmd", "WRITEMSK", "ok", <<"x", "x", "x">>, "A"),
     Line("cmd", "READ", "ok", <<"x", "opt", "x", "x">>, "A"),
     Line("cmd", "WRITE", "ok", <<"x", "x">>, "A")}

\* The programs.
C(op) == [kind |-> "cmd", op |-> op, parms |-> "ok", toks |-> <<"x", "x", "x">>, label |-> "",
          to |-> "A", n |-> 1, ids |-> {}, queue |-> FALSE, cc |-> FALSE]
Config == [C("") EXCEPT !.kind = "config"]
Label == [C("") EXCEPT !.kind = "label", !.label = "A"]
P(cmds) == <<Config, Label>> \o cmds
Idle == P(<<C("DONE")>>)
Sync(i) == [C("SYNC") EXCEPT !.ids = {i}]
Intr(n) == [C("INT") EXCEPT !.ids = {1}, !.n = n]

SyncFiles == <<P(<<Sync(2), Sync(2), C("DONE")>>), P(<<C("WAIT"), Sync(1), Sync(1), C("DONE")>>)>>
ReadFiles == <<P(<<[C("READIO") EXCEPT !.cc = TRUE], C("WRITEIO"), C("READIO"), C("FLUSH"), C("BNE"),
                   C("INV"), C("DONE")>>), Idle>>
IntFiles == <<P(<<Intr(0), C("BI"), C("BNIA"), C("DONE")>>), Idle>>
WriteFiles == <<P(<<C("WRITEIO"), C("WRITEBLKIO"), C("WRITEMSK"), C("DONE")>>), Idle>>
IosyncFiles == <<P(<<C("IOSYNC"), C("IOSYNC"), C("DONE")>>), Idle>>
XirFiles == <<P(<<Sync(2), C("XIR"), C("DONE")>>), P(<<Sync(1), C("PRINT"), C("BD"), C("BA")>>)>>
BusFiles == <<P(<<[C("BUSWAIT") EXCEPT !.queue = TRUE], C("BUSCHECK"), C("ARBWAIT"), C("BUSWAIT"),
                  C("BND"), C("DONE")>>), Idle>>
Programs == {SyncFiles, ReadFiles, IntFiles, WriteFiles, IosyncFiles, XirFiles, BusFiles}

\* The coherent ports.
MCHome == [a \in Addrs |-> a]
MCIndex == [a \in Addrs |-> 0]
MCCmds == [p \in CohPorts |-> IF p = 1 THEN {"IFETCH", "WRITE"}
                             ELSE {"READBLK", "OWN", "WRITEBLK"}]

MCInit == /\ focus \in {"front", "parser", "program", "coherence"}
          /\ IF focus = "front" THEN FrInit ELSE fr = FrStart([left |-> << >>])
          /\ ParserInit
          /\ ProgramInit
          /\ CohInit
          /\ focus # "parser" => prs = NewParser(0)
          /\ focus # "program" => prog = [i \in Ports |-> Compile(IosyncFiles[i])]

\* Only the coherent ports are known never to stop short of the end.
Rest == /\ focus # "coherence"
        /\ UNCHANGED <<focus, fr, parserVars, progVars, cohVars>>

MCNext == \/ focus = "front" /\ FrNext /\ UNCHANGED <<focus, parserVars, progVars, cohVars>>
          \/ focus = "parser" /\ ParserNext(LineSet) /\ UNCHANGED <<focus, fr, progVars, cohVars>>
          \/ focus = "program" /\ ProgramNext /\ UNCHANGED <<focus, fr, parserVars, cohVars>>
          \/ focus = "coherence" /\ CohNext /\ UNCHANGED <<focus, fr, parserVars, progVars>>
          \/ Rest
=============================================================================
