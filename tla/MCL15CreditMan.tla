--------------------------- MODULE MCL15CreditMan ---------------------------
(* Small instances of L15CreditMan for TLC.                                *)
EXTENDS L15CreditMan

CONSTANTS t0

OneThread == {t0}

\* Bound: these come only when no request is outstanding.
QuietOps == {"IFILL", "OTHER"}
Quiet == \A id \in MshrIds : mshr[id] = "FREE"

\* Requests that compete for the last credits: one, two, with and without MSHR.
LiveOps == {"STORE", "CAS", "INTERRUPT", "LINE_FLUSH"} \cup QuietOps

MCNext ==
    \/ \E op \in PcxOps, t \in Threads : PcxPresent(op, t) /\ (op \in QuietOps => Quiet)
    \/ \E stall, sent \in BOOLEAN : Clock(stall, sent)

MCSpec == Init /\ [][MCNext]_vars /\ Fairness
=============================================================================
