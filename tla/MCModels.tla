------------------------------ MODULE MCModels ------------------------------
(***************************************************************************)
(* The models around the chip under simulation: the i/o bridge, the DRAM,  *)
(* the system memory with its SSI link, the codes that protect stored      *)
(* words and the tree that memory and events are kept in, each on a small  *)
(* instance.  A behaviour exercises one of them.                           *)
(***************************************************************************)
EXTENDS IobModel, DramMem, SysMem, EccCodes, AvlTree, CacheWarm, IopEvents

VARIABLE part

-----------------------------------------------------------------------------
(* The i/o bridge: a request of every kind, one of them met by an event.   *)
IobReq(c, t, rq, region, line, target) ==
    [cpu |-> c, thr |-> t, rq |-> rq, region |-> region, line |-> line, target |-> target]
MCIobMenu ==
    {IobReq(0, 0, "imiss", "rom", "rom0", 0), IobReq(0, 0, "load", "dram1", "none", 0),
     IobReq(1, 0, "load", "jbi", "none", 0), IobReq(1, 1, "store", "jbi", "none", 0),
     IobReq(0, 1, "store", "intr", "none", 1)}
MCIobEvents == {{}, {1}}

-----------------------------------------------------------------------------
(* DRAM: two sections at addresses that differ in bits the channel, bank,  *)
(* rank and hash take, in every geometry; ranges of zeros; damaged nibbles. *)
DmCase(p, old, stack, rank, size, spill, error) ==
    [two |-> p # "4", pair |-> p, banks3 |-> size \in {2, 3, 5}, old |-> old,
     stack |-> stack, rank |-> rank, size |-> size, spill |-> spill,
     error |-> error, percent |-> IF error = 0 THEN 0 ELSE 1]
DmSec(a, w) == <<[k |-> "at", a |-> a], [k |-> "data", w |-> w]>>
DmEnd == <<[k |-> "end"]>>
DmBits == {6, 7, 8, 9, 12, 18, 28, 31}
DmPairs == {<<{}, b>> : b \in UNION {kSubset(i, DmBits) : i \in 1..2}}
           \cup {<<{6}, {7}>>, <<{8}, {18}>>, <<{10}, {12}>>, <<{5, 7}, {8}>>, <<{18}, {28}>>, <<{31}, {32}>>}
DmModes == {DmCase(p, old, stack, rank, size, FALSE, 0) :
                p \in {"4", "01", "21"}, old, stack, rank \in BOOLEAN, size \in {1, 2}}
MCDmCases ==
    {<<m, DmSec(p[1], <<"a", "b", "c", "d">>) \o DmSec(p[2], <<"e", "f">>) \o DmEnd>> : m \in DmModes, p \in DmPairs}
    \cup {<<DmCase("23", FALSE, FALSE, TRUE, 3, FALSE, e),
            DmSec({8}, <<"a", "b">>) \o <<[k |-> "zero", n |-> 16]>> \o DmEnd>> : e \in 0..3}
    \cup {<<DmCase("4", FALSE, FALSE, TRUE, 3, TRUE, 0),
            DmSec({8}, <<"a", "b", "c", "d">>) \o DmSec({5, 7}, <<"e", "f">>) \o <<[k |-> "zero", n |-> 4]>>
                \o DmSec({3, 9}, <<"g">>) \o DmEnd>>}
    \cup {<<DmCase("4", FALSE, FALSE, FALSE, 1, FALSE, 0), <<>>>>}
MCDmProbes == {{}, {6}, {9, 28}}

-----------------------------------------------------------------------------
(* System memory: images inserted up, down and across, enough to split the *)
(* root twice, and one of partial lines; SSI reads and writes behind it.   *)
SmAt(key) == [k |-> "at", key |-> key, off |-> 0]
SmFill(v) == [k |-> "data", w |-> [i \in 1..LineBytes |-> v]]
SmHalf(v) == [k |-> "data", w |-> [i \in 1..WordBytes |-> v]]
SmRows(keys) == FlattenSeq([i \in 1..Len(keys) |-> <<SmAt(keys[i]), SmFill(keys[i])>>])
SmPartial == <<SmAt(2), SmHalf(7), SmAt(9), SmHalf(8), SmHalf(6), SmFill(5)>>
MCSmImages == {SmRows([i \in 1..17 |-> 2 * i]), SmRows([i \in 1..17 |-> 2 * (18 - i)]),
               SmRows([i \in 1..14 |-> 2 * (((5 * i) % 17) + 1)]), SmPartial}
MCSsiRequests ==
    {<<>>,
     <<[rd |-> FALSE, key |-> 2, off |-> 1, sz |-> 0, v |-> 90], [rd |-> TRUE, key |-> 2, off |-> 0, sz |-> 1]>>,
     <<[rd |-> TRUE, key |-> 9, off |-> 1, sz |-> 0], [rd |-> FALSE, key |-> 3, off |-> 2, sz |-> 1, v |-> 91],
       [rd |-> TRUE, key |-> 3, off |-> 2, sz |-> 0]>>}
MCSsiErrors == {<<9, 1>>}

-----------------------------------------------------------------------------
(* Cache warming: lines of one index and of its neighbour in the same VUAD *)
(* row, with the same and with different tags; then the chip writes.       *)
WmCase(l1, replace, all, error) ==
    [l2warm |-> TRUE, l1warm |-> l1, replace |-> replace, all |-> all, error |-> error, uncorrect |-> FALSE,
     range |-> FALSE, up |-> {}, low |-> {}, irange |-> <<>>, drange |-> <<>>, icache |-> 1, dcache |-> 1,
     run |-> FALSE, event |-> FALSE, percent |-> FALSE, writes |-> {}, wait |-> 1]
WmBounds(up, low) == <<[up |-> up, low |-> low]>>
WmWrite(t, d) == [bank |-> 0, tag |-> t, data |-> d]
WmT(w) == <<[way |-> w, index |-> {}]>>
WmD(s, w) == [sub |-> s, way |-> w, index |-> {}]
MCWmMemory == {{}, {8}, {18}, {19, 8}, {6, 20, 12}}
WmFirst == <<{}>>
MCWmLists == {WmFirst, <<{}, {18}, {8}>>, <<{8}, {19, 8}, {5, 18}>>, <<{6, 20, 12}, {21}, {}, {18}>>}
WmRun == [WmCase(FALSE, TRUE, TRUE, TRUE) EXCEPT !.run = TRUE,
    !.writes = {WmWrite(<<>>, <<>>), WmWrite(WmT(0), <<>>), WmWrite(WmT(1), <<WmD(0, 0)>>), WmWrite(WmT(2), <<>>),
                WmWrite(WmT(0), <<WmD(0, 1), WmD(2, 0)>>)}]
MCWmModes ==
    {WmCase(TRUE, FALSE, FALSE, FALSE), WmCase(TRUE, TRUE, TRUE, FALSE), WmRun, [WmRun EXCEPT !.percent = TRUE],
     [WmCase(TRUE, TRUE, TRUE, FALSE) EXCEPT !.event = TRUE, !.icache = 0],
     [WmCase(TRUE, TRUE, FALSE, TRUE) EXCEPT !.uncorrect = TRUE, !.range = TRUE, !.up = {18}, !.low = {8}],
     [WmCase(TRUE, TRUE, FALSE, FALSE) EXCEPT !.l2warm = FALSE, !.irange = WmBounds({18}, {}), !.drange = WmBounds({19}, {18})],
     [WmCase(FALSE, TRUE, FALSE, FALSE) EXCEPT !.l2warm = FALSE]}
MCWmRows == {{}, {0}}

-----------------------------------------------------------------------------
(* Events: pulses and stalls that overlap with later ones of their kind.   *)
EvPulse(t, w) == [type |-> t, wait |-> w]
EvHold(t, b, n) == [type |-> t, bank |-> b, num |-> n, wait |-> 1]
MCEvFiles == {
    [pc \in 1..3 |-> CASE pc = 1 -> <<EvPulse("extint", 1), EvPulse("warmrst", 2), EvPulse("printhex", 0)>>
                       [] pc = 2 -> <<EvPulse("extint", 0), EvPulse("temptrig", 1), EvPulse("extint", 2)>>
                       [] pc = 3 -> <<EvPulse("clk_stretch", 1), EvPulse("warmrst", 0)>>],
    [pc \in 1..4 |-> CASE pc = 1 -> <<EvHold("cpx_stall", 0, 1), EvHold("pcx_stall", 1, 0)>>
                       [] pc = 2 -> <<EvHold("cpx_stall", 1, 0)>>
                       [] pc = 3 -> <<EvHold("cpx_stall", 0, 0), EvHold("cpx_stall", 1, 1)>>
                       [] pc = 4 -> <<EvHold("cpx_stall", 1, 2)>>]}

-----------------------------------------------------------------------------
Parts == {"iob", "dram", "memory", "codes", "tree", "warm", "events"}
Init == /\ part \in Parts
        /\ IobInit /\ (part # "iob" => iobMem[1].cpu = 0)
        /\ AvInit /\ (part # "tree" => avKeeps)
        /\ EcInit /\ (part # "codes" => ecCode = "hamming" /\ ecWord = Deposit(ecCode, 0..(DataBits(ecCode) - 1)))
        /\ SmInit /\ ((smTodo # <<>> \/ part # "memory") => smImage = SmPartial)
        /\ part # "memory" => smTodo = <<>>
        /\ WmInit /\ (part # "warm" => wmMode = WmRun)
        /\ (part # "warm" \/ wmMode.run \/ wmMode.event => wmTodo = WmFirst)
        /\ EvInit /\ (part # "events" => evReturns /\ DOMAIN evLists = 1..3)
        /\ DmInit /\ (part # "dram" => dmImage = <<>>)
Next == /\ \/ part = "iob" /\ IobNext /\ UNCHANGED <<dmVars, smVars, ecVars, avVars, wmVars, evVars>>
           \/ part = "dram" /\ DmNext /\ UNCHANGED <<iobVars, smVars, ecVars, avVars, wmVars, evVars>>
           \/ part = "memory" /\ SmNext /\ UNCHANGED <<iobVars, dmVars, ecVars, avVars, wmVars, evVars>>
           \/ part = "codes" /\ EcNext /\ UNCHANGED <<iobVars, dmVars, smVars, avVars, wmVars, evVars>>
           \/ part = "tree" /\ AvNext /\ UNCHANGED <<iobVars, dmVars, smVars, ecVars, wmVars, evVars>>
           \/ part = "warm" /\ WmNext /\ UNCHANGED <<iobVars, dmVars, smVars, ecVars, avVars, evVars>>
           \/ part = "events" /\ EvNext /\ UNCHANGED <<iobVars, dmVars, smVars, ecVars, avVars, wmVars>>
        /\ UNCHANGED part
Spec == Init /\ [][Next]_<<part, iobVars, dmVars, smVars, ecVars, avVars, wmVars, evVars>>
=============================================================================
