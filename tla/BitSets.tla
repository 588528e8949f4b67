------------------------------ MODULE BitSets ------------------------------
(***************************************************************************)
(* Words as the sets of their bits that are 1.  An address of 40 bits does *)
(* not fit an integer of the checker, and shifts, masks and exclusive ors  *)
(* of the code read the same on sets of positions.                         *)
(***************************************************************************)
EXTENDS Integers, FiniteSets, FiniteSetsExt

Shr(s, k) == {i - k : i \in {j \in s : j >= k}}
Shl(s, k) == {i + k : i \in s}
Mask(s, n) == {i \in s : i < n}
Bits(s, lo, n) == Mask(Shr(s, lo), n)
XorBits(s, t) == (s \ t) \cup (t \ s)
Parity(s) == Cardinality(s) % 2
Number(s) == SumSet({2^i : i \in s})
\* s < t
Below(s, t) == s # t /\ Max(XorBits(s, t)) \in t
\* s + 2^k
RECURSIVE Plus(_, _)
Plus(s, k) == IF k \in s THEN Plus(s \ {k}, k + 1) ELSE s \cup {k}
=============================================================================
