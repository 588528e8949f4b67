------------------------------ MODULE MCSjmBus ------------------------------
(***************************************************************************)
(* Two ports sharing the bus, and a port's flow control under one kind of  *)
(* traffic at a time (noncacheable reads, writes and block writes; reads   *)
(* of its memory beside noncacheable ones, or snoops of another's memory   *)
(* and nothing else).  part chooses between the two.                       *)
(***************************************************************************)
EXTENDS SjmBus, SjmFlow

VARIABLE part              \* "bus" or "flow"

MemoryTraffic == {{"ncrd"}, {"ncwr"}, {"ncbwr"}, {"rd", "ncrd"}}
SnoopsOnly == {{"snp"}}

MCInit == /\ part \in {"bus", "flow"}
          /\ Init /\ FlowInit
          /\ part = "bus" => fl = FlowReset({"ncrd"})

BusStep == part = "bus" /\ Next /\ UNCHANGED <<part, fl>>
FlowStep == part = "flow" /\ FlowNext /\ UNCHANGED <<part, vars>>

\* The fairness of FairSpec and of FlowFair, for the part that runs.
MCSpec == /\ MCInit
          /\ [][BusStep \/ FlowStep]_<<part, fl, vars>>
          /\ []<>(part = "flow") \/ []<><<clk' # clk>>_vars
          /\ WF_fl(part = "flow" /\ FlowDrain)
=============================================================================
