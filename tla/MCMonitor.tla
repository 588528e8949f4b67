------------------------------ MODULE MCMonitor ------------------------------
(***************************************************************************)
(* The JBUS monitor, the arbitration thread of the checker, the threads    *)
(* they run in and the message monitor they report through, each on a      *)
(* small instance.  A behaviour exercises one of them.                     *)
(***************************************************************************)
EXTENDS JbusMonitor, Dispmon, JbusChecker, JbusThreads

VARIABLE part

\* The monitor's commands: reads and ownership, then flow control.
MCTypes == [reads |-> {"RDS", "OWN", "INV", "NCRD"}, flow |-> {"RD", "WRB"}]
MCCommands == [reads |-> 2, flow |-> 2]

\* Options that enable, disable and retype tags, for one unit and for all; one with its range reversed.
Option(u, a, b, ty, en) == [unit |-> u, inst |-> "", tags |-> a, tage |-> b, type |-> ty, enable |-> en]
MCOptions ==
    {Option("u", 5, 15, "-", en) : en \in BOOLEAN}
    \union {Option("all", 15, 15, "ERROR", TRUE), Option("all", 5, 49, "-", FALSE)}
    \union {Option("u", 9, 5, "-", TRUE)}
Policy(e, w, de, dw) == [limit |-> [err |-> e, warn |-> w], stop |-> [err |-> de, warn |-> dw]]
MCPolicies == {Policy(2, 2, "finish", "stop"), Policy(1, 2, "finish", "finish")}
MCInstances == [t |-> {}]

Init == /\ part \in {"monitor", "messages", "arbitration", "threads"}
        /\ MonInit /\ DmInit /\ RqInit /\ ThInit
        /\ part # "monitor" => jbCount.focus = "reads"
        /\ jbCount.focus = "reads" => jmBell   \* without flow control both systems are alike
        /\ part # "messages" => dmOptions = <<>> /\ dmLimit.err = 1
        /\ part # "arbitration" => rqMode = "dead"
\* One command is enough to send one against flow control where that is not checked.
OneWithoutBell == jmBell \/ jbCount'.cmds <= 1
Next == /\ \/ part = "monitor" /\ MonNext /\ OneWithoutBell /\ UNCHANGED <<dmVars, rqVars, thVars>>
           \/ part = "messages" /\ DmNext /\ UNCHANGED <<monVars, rqVars, thVars>>
           \/ part = "arbitration" /\ RqNext /\ UNCHANGED <<monVars, dmVars, thVars>>
           \/ part = "threads" /\ ThNext /\ UNCHANGED <<monVars, dmVars, rqVars>>
        /\ UNCHANGED part
Spec == Init /\ [][Next]_<<part, monVars, dmVars, rqVars, thVars>> /\ ThFairness
=============================================================================
