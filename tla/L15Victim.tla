----------------------------- MODULE L15Victim ------------------------------
(***************************************************************************)
(* The tag and data arrays with the victim cache added to them             *)
(* (sram_l15_utag, sram_l15_udata), driven by the L1.5 pipeline: one set.  *)
(*                                                                         *)
(* The arrays are told the cache miss state CMST: HX, a hit; MM, a miss in *)
(* both; MH, a miss that hits the victim cache.  Only HX accesses the      *)
(* primary data the way the dcache operation asks.  The victim's valid     *)
(* bits are never read and its index is never driven, so on a miss CMST is *)
(* MM, MH or unknown, and the victim entry is any entry.                   *)
(*                                                                         *)
(* A tag stands for its line, and a datum for the line whose bytes it is.  *)
(* The victim tags are left out: they matter through CMST and, in a swap,  *)
(* as the tag that arrives, and both are arbitrary.                        *)
(***************************************************************************)
EXTENDS Naturals

CONSTANTS
    NumWays,    \* ways of the set (4)
    Victims,    \* entries of the victim cache (4)
    Tags,       \* the lines that map to this set
    NoLine      \* what the arrays are initialised to

Ways == 0..NumWays - 1
Lines == Tags \cup {NoLine}

VARIABLES
    tag, mesi,      \* ptags and the MESI array
    pdata, vdata,   \* sram_l15_udata: primary and victim data
    dout,           \* sram_l15_udata: dout_f
    filling         \* the fill whose eviction has gone ahead, or none

vars == <<tag, mesi, pdata, vdata, dout, filling>>

NoFill == [line |-> NoLine, way |-> 0]

-----------------------------------------------------------------------------
\* tagcheck_val_s2 with way w
TagHit(a, w) == tag[w] = a /\ mesi[w] # "I"

\* l15_cmst_s2 when the tag check misses; X when vi_l15_vout_s2 is unknown
MissStates == {"MM", "MH", "X"}

\* An enabled access to the data of way w in state cm, victim entry v, on a miss.
DataMiss(cm, w, v) ==
    /\ vdata' = IF cm = "X" THEN vdata ELSE [vdata EXCEPT ![v] = pdata[w]]
    /\ pdata' = IF cm = "MH" THEN [pdata EXCEPT ![w] = vdata[v]] ELSE pdata
    /\ dout' = IF cm = "MH" THEN vdata[v] ELSE dout

(* The tags after a swap of way w with a victim whose tag is b.  dway is   *)
(* declared one bit wide: the tag goes to way 0 or 1.                      *)
TagSwap(w, b) == [tag EXCEPT ![w % 2] = b]

\* A load that hits reads the way; a store that hits writes bytes of its line.
Hit(a, w, store) ==
    /\ filling = NoFill /\ TagHit(a, w)
    /\ store => mesi[w] \in {"M", "E"}
    /\ mesi' = IF store THEN [mesi EXCEPT ![w] = "M"] ELSE mesi
    /\ dout' = IF store THEN dout ELSE pdata[w]
    /\ UNCHANGED <<tag, pdata, vdata, filling>>

\* An invalidation that hits reads the way if it is modified.
Invalidation(a, w) ==
    /\ filling = NoFill /\ TagHit(a, w)
    /\ mesi' = [mesi EXCEPT ![w] = "I"]
    /\ dout' = IF mesi[w] = "M" THEN pdata[w] ELSE dout
    /\ UNCHANGED <<tag, pdata, vdata, filling>>

(* The eviction before a fill: the data array is enabled if the way is     *)
(* modified, with the miss state of the line that arrives.  The fill       *)
(* follows one stage behind and writes its tag in the same cycle; of that  *)
(* write and a swap's, which both write the whole row, either comes last.  *)
Evict(a, w) ==
    /\ filling = NoFill /\ \A v \in Ways : ~TagHit(a, v)
    /\ \/ mesi[w] # "M" /\ UNCHANGED <<pdata, vdata, dout>>
          /\ tag' = [tag EXCEPT ![w] = a]
       \/ /\ mesi[w] = "M"
          /\ \E cm \in MissStates, v \in Victims :
                /\ DataMiss(cm, w, v)
                /\ \/ tag' = [tag EXCEPT ![w] = a]
                   \/ cm = "MH" /\ \E b \in Lines : tag' = TagSwap(w, b)
    /\ filling' = [line |-> a, way |-> w]
    /\ UNCHANGED mesi

(* The fill's data write, L15_DCACHE_WRITE_LRU_WAY_FROM_NOC2.  Its tag     *)
(* check still sees the tags the eviction read, and misses.                *)
Fill(s) ==
    /\ filling # NoFill
    /\ LET w == filling.way
       IN  /\ \E cm \in MissStates, v \in Victims :
                 /\ DataMiss(cm, w, v)
                 /\ \/ cm # "MH" /\ UNCHANGED tag
                    \/ cm = "MH" /\ \E b \in Lines : tag' = TagSwap(w, b)
           /\ mesi' = [mesi EXCEPT ![w] = s]
    /\ filling' = NoFill

Init ==
    /\ tag = [w \in Ways |-> NoLine] /\ mesi = [w \in Ways |-> "I"]
    /\ pdata = [w \in Ways |-> NoLine] /\ vdata = [v \in Victims |-> NoLine]
    /\ dout = NoLine
    /\ filling = NoFill

Next ==
    \/ \E a \in Tags, w \in Ways :
          \/ \E store \in BOOLEAN : Hit(a, w, store)
          \/ Invalidation(a, w)
          \/ Evict(a, w)
    \/ \E s \in {"S", "E", "M"} : Fill(s)

Spec == Init /\ [][Next]_vars

-----------------------------------------------------------------------------
(* A way that holds a line holds that line's data: what a fill, a swap or  *)
(* an eviction does to the tag it does to the data.                        *)
DataMatchesTag ==
    \A w \in Ways :
        mesi[w] # "I" /\ filling = NoFill => pdata[w] = tag[w]
=============================================================================
