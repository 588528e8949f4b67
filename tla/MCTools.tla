------------------------------- MODULE MCTools -------------------------------
(***************************************************************************)
(* The image tools (goldfinger, splitsec), the socket to the simulator     *)
(* (its comparator, its lists and its sender) and the PLI library (a       *)
(* command program of three calls against a port that is reset once and     *)
(* sees two transactions, and the containers), each on a small instance.   *)
(* A behaviour exercises one of them.                                      *)
(***************************************************************************)
EXTENDS Goldfinger, Splitsec, SasCompare, SasSend, SasList, PliApi, PliContainers

VARIABLE part

-----------------------------------------------------------------------------
(* goldfinger.                                                             *)
GfArgs(im, ts, co, ez, cf) == [genimage |-> im, gentsbs |-> ts, gensymtab |-> TRUE, compress |-> co, envZero |-> ez, conflicts |-> cf]
GfBlock(n, sec, pa) ==
    [kind |-> "block", name |-> n, link_section |-> sec, va |-> NoAddr, start_label |-> "", end_va |-> NoAddr, end_label |-> "",
     no_end_range_check |-> FALSE, pa |-> pa, pa_eq_va |-> FALSE, ra |-> NoAddr, ra_eq_va |-> FALSE, in_image |-> TRUE,
     compress |-> TRUE, tsbs |-> <<>>, tsbcsms |-> <<>>, length |-> 0, offset |-> 0]
GfSection(n, va, data, syms) == [name |-> n, va |-> va, data |-> data, syms |-> syms, nobits |-> FALSE]
\* Images: every content of a five-word section, cut in different places, beside a second block.
GfImages ==
    {[args |-> GfArgs(TRUE, FALSE, co, ez, FALSE),
      decls |-> <<[GfBlock("a", "text", 4) EXCEPT !.end_label = end, !.end_va = IF end = "" THEN ev ELSE NoAddr],
                  [GfBlock("b", "data", pa) EXCEPT !.in_image = im]>>,
      elf |-> <<GfSection("text", 16, d, [mid |-> 19, end |-> 21]), [GfSection("data", 32, <<7, 0, 0, 8>>, <<>>) EXCEPT !.nobits = nb]>>]
     : d \in [1..5 -> {0, 5}], co \in BOOLEAN, ez \in BOOLEAN, end \in {"", "mid"}, ev \in {NoAddr, 20, 22},
       pa \in {1, 6, 9, NoAddr}, nb \in BOOLEAN, im \in {TRUE}}
\* Tables: blocks whose pages collide or coincide, with and without a link area and a TSBCSM.
GfTsb(k, n, a, num, l) == [kind |-> k, name |-> n, start_addr |-> a, num_entries |-> num, size_bits |-> 0, link_area |-> l]
GfMapped(n, sec, pa, ra, csm) ==
    [GfBlock(n, sec, pa) EXCEPT !.ra = ra, !.tsbs = <<[name |-> "t", page_size |-> 2]>>,
                                !.tsbcsms = IF csm = 0 THEN <<>> ELSE <<[name |-> "c", clump_num |-> csm]>>]
GfTables ==
    {[args |-> GfArgs(TRUE, TRUE, co, ez, cf),
      decls |-> <<GfTsb("tsb", "t", 20, n, l), GfTsb("tsb_link", "l", la, 0, ""), GfTsb("csm", "c", 80, 4, "cl"), GfTsb("csm_link", "cl", 88, 0, ""),
                  GfMapped("a", "text", 0, ra, 3), GfMapped("b", "data", 4, 8, csm), GfMapped("d", "text", 8, 12, 0)>>,
      elf |-> <<GfSection("text", va, <<1, 2, 3, 4>>, [mid |-> va + 1]), GfSection("data", 4, <<0, 6, 6>>, <<>>)>>]
     : co \in BOOLEAN, ez \in BOOLEAN, cf \in BOOLEAN, n \in {2, 4}, l \in {"", "l", "x"}, la \in {27, 32}, va \in {0, 12}, ra \in {16, 17}, csm \in {0, 5}}
\* Descriptions that must be refused: a repeated name, a block without a section, bad labels, no address.
GfRefused ==
    {[args |-> GfArgs(TRUE, TRUE, TRUE, TRUE, TRUE), decls |-> ds, elf |-> <<GfSection("text", 4, <<1>>, <<>>)>>]
     : ds \in {<<GfTsb("tsb", "t", 20, 2, ""), GfTsb("tsb", "t", 30, 2, "")>>, <<GfTsb("tsb", "t", 20, 0, "")>>,
               <<GfBlock("a", "none", 4)>>, <<[GfBlock("a", "text", 4) EXCEPT !.start_label = "none"]>>,
               <<[GfBlock("a", "text", 4) EXCEPT !.va = 3]>>, <<GfMapped("a", "text", 4, 8, 0)>>}}
GfIdle == [args |-> GfArgs(FALSE, FALSE, FALSE, FALSE, FALSE), decls |-> <<>>, elf |-> <<>>]
MCGfPrograms == GfImages \union GfTables \union GfRefused \union {GfIdle}

-----------------------------------------------------------------------------
(* splitsec.                                                               *)
SpLine(k, n, b, m) == [kind |-> k, name |-> n, brace |-> b, more |-> m]
MCSpLines ==
    {SpLine("text", "", b, FALSE) : b \in BOOLEAN} \union {SpLine("attr", "", b, FALSE) : b \in BOOLEAN}
    \union {SpLine("blank", "", FALSE, FALSE), SpLine("section", "s", FALSE, FALSE), SpLine("section", "t", FALSE, TRUE),
            SpLine("application", "p", FALSE, FALSE), SpLine("midas", "", FALSE, TRUE)}

-----------------------------------------------------------------------------
(* The comparator: register writes of both machines, the value, the window *)
(* or the reporting of which differs.                                      *)
Wr(which, r, w, v, k) == [which |-> which, r |-> r, w |-> w, v |-> v, sv |-> v, k |-> k, sr |-> r, sw |-> w, force |-> FALSE]
Gl(v) == Wr(152, 1, 0, v, "G")
Ou(w, v) == Wr(152, 8, w, v, "W")
In(w, v) == Wr(152, 24, w, v, "W")
Loc(w, v) == Wr(152, 16, w, v, "W")
Sp(r, v) == Wr(r, r, 0, v, "C")
Fl(r, v) == Wr(153, r, 0, <<v>>, "F")
Fx(a, b) == Wr(154, 0, 0, <<a, b>>, "F")
\* The simulator names the out registers of a window as the in registers of the next one.
Other(x) == IF x.r = 8 THEN [x EXCEPT !.sr = 24, !.sw = x.w + 1] ELSE [x EXCEPT !.sr = 8, !.sw = x.w - 1]
Forced(x) == [x EXCEPT !.force = TRUE]
Wrong(x, v) == [x EXCEPT !.v = v]
Menu == {<<Gl(5)>>, <<Gl(6)>>, <<Forced(Gl(5))>>, <<Ou(0, 5)>>, <<Other(Ou(0, 5))>>, <<Other(In(1, 6))>>,
         <<Forced(Other(In(1, 6)))>>, <<Loc(0, 5)>>, <<Sp(40, 5), Gl(5)>>, <<Forced(Sp(40, 6))>>, <<Sp(108, 3)>>,
         <<Sp(35, 1), Gl(6)>>, <<Fl(0, 5)>>, <<Forced(Fl(1, 6))>>, <<Fx(5, 6)>>, <<Forced(Fx(6, 6))>>,
         <<Ou(0, 5), Ou(1, 6)>>, <<Sp(89, 1), Loc(1, 5)>>, <<Loc(0, 5), Loc(1, 6)>>, <<Sp(89, 1), Ou(1, 5)>>}
Bad == {<<Wrong(Gl(5), 7)>>, <<Wrong(Gl(5), 0)>>, <<Wrong(Ou(0, 5), 7)>>, <<Wrong(Loc(0, 5), 0)>>,
        <<Wrong(Sp(40, 5), 7)>>, <<Wrong(Fl(0, 5), <<7>>)>>}
Pc(i, s) == <<Sp(32, i)>> \o s
Both(p, q) == [t \in {0, 1} |-> IF t = 0 THEN p ELSE q]
MCScPrograms ==
    {Both(<<Pc(1, a), Pc(2, b)>>, <<>>) : a \in Menu \union Bad, b \in Menu}
    \union {Both(<<Pc(1, a)>>, <<Pc(1, b)>>) : a \in {<<Gl(5)>>, <<Forced(Gl(5))>>, <<Fl(0, 5)>>, <<Wrong(Ou(0, 5), 7)>>},
                                              b \in {<<Gl(5)>>, <<Fl(0, 6)>>}}
    \union {Both(<<Pc(1, a), Pc(2, b), Pc(3, c)>>, <<>>) : a, b, c \in {<<Gl(5)>>, <<Forced(Gl(5))>>, <<Ou(0, 5)>>}}
    \union {Both(<<>>, <<>>)}

-----------------------------------------------------------------------------
(* The lists: a HINTP write and one that waits for an answer of one thread,  *)
(* a multi-step one of another.  Every operation on up to three items; four  *)
(* items where all are in the compare list or free, so that they are         *)
(* inserted, removed and reordered in the middle of it.                      *)
SlItem(t, w, r, k) == [thread |-> t, which |-> w, reg |-> r, win |-> 0, wait |-> k]
MCSlWrites == {SlItem(0, HINTP, 0, 0), SlItem(0, REG_WRITE_BACK, 1, 1), SlItem(1, REG_WRITE_BACK, 1, 2)}
MCSlCommands == {SlItem(0, 1, 0, 0)}
AnyList == slPushed' <= 3
CompareList == \A l \in Lists \ {Cmp, Free} : slWant'[l] = <<>>

-----------------------------------------------------------------------------
(* The library: one call of each kind of packet and answer; every line of  *)
(* up to four characters.                                                  *)
MCCalls == {CONFIG, ADDRESS("ADDRESS"), SEED, Control("DONE"), Report("PRINT"), Report("SSPINFO"),
            READ(8, TRUE, "NOARBWAIT"), READBLK(FALSE, "NOARBWAIT")}
MCLines == UNION {[1..n -> {0, 1, 2}] : n \in 0..4}

-----------------------------------------------------------------------------
\* The two image tools: a split source has every line of the source in its own
\* section's file (splitsec), and the image holds each word of each block and each
\* translation where the description puts it (goldfinger).
SourceToImage == LinesKept /\ ImageExact

toolVars == <<gfVars, spVars, scVars, ssVars, slVars>>
libraryVars == <<apiVars, contVars>>

Init == /\ part \in {"goldfinger", "splitsec", "compare", "send", "lists", "compare list", "library"}
        /\ SpInit /\ SsInit /\ SlInit /\ ApiInit /\ ContInit
        /\ part # "library" => kind = "array"
        /\ part # "goldfinger" => gfProg = GfIdle
        /\ GfInit
        /\ part # "compare" => scProg = Both(<<>>, <<>>)
        /\ ScInit
ToolStep ==
    \/ part = "goldfinger" /\ GfNext /\ UNCHANGED <<spVars, scVars, ssVars, slVars>>
    \/ part = "splitsec" /\ SpNext /\ UNCHANGED <<gfVars, scVars, ssVars, slVars>>
    \/ part = "compare" /\ ScNext /\ UNCHANGED <<gfVars, spVars, ssVars, slVars>>
    \/ part = "send" /\ SsNext /\ UNCHANGED <<gfVars, spVars, scVars, slVars>>
    \/ /\ part \in {"lists", "compare list"} /\ SlNext
       /\ IF part = "lists" THEN AnyList ELSE CompareList
       /\ UNCHANGED <<gfVars, spVars, scVars, ssVars>>
LibraryStep ==
    /\ part = "library"
    /\ \/ kind = "api" /\ ApiNext /\ UNCHANGED contVars
       \/ ContNext /\ UNCHANGED apiVars
Next == /\ \/ ToolStep /\ UNCHANGED libraryVars
           \/ LibraryStep /\ UNCHANGED toolVars
        /\ UNCHANGED part

\* The library's fairness; a behaviour that makes no call owes nothing.
Spec == Init /\ [][Next]_<<part, toolVars, libraryVars>> /\ ([]<>(kind # "api") \/ ApiFairness)
=============================================================================
