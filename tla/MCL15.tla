------------------------------- MODULE MCL15 -------------------------------
(***************************************************************************)
(* Three views of the L1.5 pipeline, one at a time, chosen by part: a set  *)
(* of the cache with two threads and three lines, replacement in two sets, *)
(* and the output of stage S3, which has no parameters.                    *)
(***************************************************************************)
EXTENDS L15Cache, L15Lru, L15Issue

CONSTANTS t0, t1, line_a, line_b, line_c

VARIABLE part              \* "cache", "lru" or "issue"

TwoThreads == {t0, t1}
ThreeTags == {line_a, line_b, line_c}
TwoSets == {0, 1}

MCInit == /\ part \in {"cache", "lru", "issue"}
          /\ Init /\ LruInit /\ IssueInit
          /\ part # "lru" => read_index = 0

CacheStep == part = "cache" /\ Next /\ UNCHANGED <<part, lruVars, issueVars>>
LruStep == part = "lru" /\ LruNext /\ UNCHANGED <<part, vars, issueVars>>
IssueStep == part = "issue" /\ IssueNext /\ UNCHANGED <<part, vars, lruVars>>

\* The fairness of IssueFairSpec, for the part that needs it.
MCSpec == /\ MCInit
          /\ [][CacheStep \/ LruStep \/ IssueStep]_<<part, vars, lruVars, issueVars>>
          /\ WF_issueVars(part = "issue" /\ \E r \in Requests : IssueCycle(TRUE, r))
=============================================================================
