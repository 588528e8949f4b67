------------------------------ MODULE EccCodes ------------------------------
(***************************************************************************)
(* The error-correcting codes the PLI libraries compute when they deposit  *)
(* data in an array of the RTL behind the design's back:                   *)
(*   decc     7 check bits for 32 bits of L2 data     (l2warm.cc)          *)
(*   tecc     6 check bits for a 22-bit L2 tag        (l2warm.cc)          *)
(*   syndrome 7 or 8 check bits for a 32- or 64-bit register (mem.c);      *)
(*            its 32-bit equations are those of decc                       *)
(*   hamming  4 check nibbles for 32 nibbles of DRAM, over GF(16) (mem.c)  *)
(* A word is the set of its one bits, numbered with the data first and the *)
(* checks after it; a symbol is a bit, or a nibble of a DRAM word.         *)
(***************************************************************************)
EXTENDS Integers, Sequences, FiniteSets

CONSTANTS EcErrors     \* the sets of bits an error flips in a nibble

ASSUME EcAssumption == \A v \in EcErrors : v # {} /\ v \subseteq 0..3

VARIABLES ecCode,      \* the code in use
          ecWord,      \* the stored word
          ecHit        \* ghost: the symbols damaged, with the error value
ecVars == <<ecCode, ecWord, ecHit>>

\* The data bits each check bit of a code is the parity of, check by check.
\* Mutant: bit 25 left out of the last-but-one check of the data code.
decc_short ==
    << {0,1,3,4,6,8,10,11,13,15,17,19,21,23,25,26,28,30},
       {0,2,3,5,6,9,10,12,13,16,17,20,21,24,25,27,28,31},
       {1,2,3,7,8,9,10,14,15,16,17,22,23,24,25,29,30,31},
       (4..10) \cup (18..25), 11..24, 26..31,
       {0,1,2,4,5,7,10,11,12,14,17,18,21,23,24,26,27,29} >>

decc ==
    << {0,1,3,4,6,8,10,11,13,15,17,19,21,23,25,26,28,30},
       {0,2,3,5,6,9,10,12,13,16,17,20,21,24,25,27,28,31},
       {1,2,3,7,8,9,10,14,15,16,17,22,23,24,25,29,30,31},
       (4..10) \cup (18..25), 11..25, 26..31,
       {0,1,2,4,5,7,10,11,12,14,17,18,21,23,24,26,27,29} >>

tecc ==
    << {0,1,2,4,5,7,10,11,12,14,17,18,21},
       {0,1,3,4,6,8,10,11,13,15,17,19,21},
       {0,2,3,5,6,9,10,12,13,16,17,20,21},
       (1..3) \cup (7..10) \cup (14..17),
       (4..10) \cup (18..21), 11..21 >>

\* the branch of syndrome for an integer register (the other one is decc)
syndrome ==
    << {0,1,3,4,6,8,10,11,13,15,17,19,21,23,25,26,28,30,32,34,36,38,40,42,
        44,46,48,50,52,54,56,57,59,61,63},
       {0,2,3,5,6,9,10,12,13,16,17,20,21,24,25,27,28,31,32,35,36,39,40,43,
        44,47,48,51,52,55,56,58,59,62,63},
       {1,2,3,7,8,9,10,14,15,16,17,22,23,24,25,29,30,31,32,37,38,39,40,45,
        46,47,48,53,54,55,56,60,61,62,63},
       (4..10) \cup (18..25) \cup (33..40) \cup (49..56),
       (11..25) \cup (41..56), 26..56, 57..63,
       {0,1,2,4,5,7,10,11,12,14,17,18,21,23,24,26,27,29,32,33,36,38,39,41,
        44,46,47,50,51,53,56,57,58,60,63} >>

\* hamming: the product of two nibbles (sets of bits) in GF(16) with the
\* primitive polynomial 0x13, as the loops over multc and divc form it.
Xor(a, b) == (a \ b) \cup (b \ a)
Times(a, b) ==
    LET Shifted(i) == IF i \in b THEN {j + i : j \in a} ELSE {}
        Reduced(d, n) == IF n \in d THEN Xor(d, {n, n - 3, n - 4}) ELSE d
        product == Xor(Xor(Shifted(0), Shifted(1)), Xor(Shifted(2), Shifted(3)))
    IN  Reduced(Reduced(Reduced(Reduced(product, 7), 6), 5), 4)

\* the multiplier table of the fourth parity, for count 0..14 and 15..29
ParityMultiplier == <<0, 8, 13, 12, 10, 6, 5, 14, 1, 11, 4, 9, 3, 2, 7>>

\* what nibble c is multiplied by in parity1 .. parity4
Multiplier(c) ==
    << CASE c = 30 -> 0 [] c = 31 -> 1 [] c \in 15..29 -> c - 14
         [] OTHER -> c + 1,
       IF c < 15 \/ c \in {30, 31} THEN 1 ELSE 0,
       IF c >= 15 THEN 1 ELSE 0,
       CASE c = 31 -> 0 [] c = 30 -> 1
         [] OTHER -> ParityMultiplier[(c % 15) + 1] + 1 >>

\* Bit j of parity k (number 4 * (k - 1) + j) is the parity of these bits of
\* the data, bit i of nibble c being number 4 * c + i.
HammingEquation(n) ==
    LET k == (n \div 4) + 1
        Bits(x) == {j \in 0..3 : (x \div 2^j) % 2 = 1}
    IN  UNION {{4 * c + i : i \in {i \in 0..3 :
                  (n % 4) \in Times(Bits(Multiplier(c)[k]), {i})}} :
               c \in 0..31}

RECURSIVE HammingUpTo(_)
HammingUpTo(n) ==
    IF n = 0 THEN <<>> ELSE Append(HammingUpTo(n - 1), HammingEquation(n - 1))
hamming == HammingUpTo(16)

-----------------------------------------------------------------------------
Codes == {"decc", "tecc", "syndrome", "hamming"}
Equations(code) == CASE code = "decc" -> decc [] code = "tecc" -> tecc
                     [] code = "syndrome" -> syndrome [] OTHER -> hamming
Width(code) == IF code = "hamming" THEN 4 ELSE 1
DataBits(code) == CASE code = "decc" -> 32 [] code = "tecc" -> 22
                    [] code = "syndrome" -> 64 [] OTHER -> 128
Symbols(code) ==
    0..(((DataBits(code) + Len(Equations(code))) \div Width(code)) - 1)

Odd(S) == Cardinality(S) % 2 = 1

\* the word deposited for data d, the set of its one bits
Deposit(code, d) ==
    d \cup {DataBits(code) + k - 1 : k \in {k \in 1..Len(Equations(code)) :
                                              Odd(d \cap Equations(code)[k])}}

\* the checks of a stored word that do not agree with its data
Discrepancy(code, w) ==
    {k \in 1..Len(Equations(code)) :
        Odd(w \cap Equations(code)[k]) # (DataBits(code) + k - 1 \in w)}

\* error value v (a set of bits) in symbol p
ErrorBits(code, p, v) == {Width(code) * p + i : i \in v}

\* every single error with the discrepancy it causes
Signatures(code) ==
    {<<p, v, Discrepancy(code, ErrorBits(code, p, v))>> :
        p \in Symbols(code), v \in (SUBSET (0..(Width(code) - 1))) \ {{}}}
DeccSignatures == Signatures("decc")
TeccSignatures == Signatures("tecc")
SyndromeSignatures == Signatures("syndrome")
HammingSignatures == Signatures("hamming")

\* the single errors that explain discrepancy s
Explains(code, s) ==
    {<<e[1], e[2]>> : e \in
        {e \in CASE code = "decc" -> DeccSignatures
                 [] code = "tecc" -> TeccSignatures
                 [] code = "syndrome" -> SyndromeSignatures
                 [] OTHER -> HammingSignatures : e[3] = s}}

-----------------------------------------------------------------------------
\* Sample data: every bit set, and a pattern.
EcData(code) ==
    LET D == 0..(DataBits(code) - 1)
    IN  {D, {i \in D : (i * i) % 5 = 1}}

EcInit == /\ ecCode \in Codes
          /\ \E d \in EcData(ecCode) : ecWord = Deposit(ecCode, d)
          /\ ecHit = {}

\* A fault of the memory, or the error injection of l2warm.cc and mem.c.
Damage ==
    \E p \in Symbols(ecCode), v \in IF ecCode = "hamming" THEN EcErrors
                                    ELSE {{0}} :
        /\ Cardinality(ecHit) < 2
        /\ \A e \in ecHit : p > e[1]
        /\ ecWord' = Xor(ecWord, ErrorBits(ecCode, p, v))
        /\ ecHit' = ecHit \cup {<<p, v>>}
        /\ UNCHANGED ecCode

EcNext == Damage

(* Every array the tools fill can be read by a decoder that corrects one   *)
(* symbol and detects two: an undamaged word shows no discrepancy, one     *)
(* damaged symbol (a bit; a nibble of DRAM) shows a discrepancy that names *)
(* that symbol and error and no other, and two damaged symbols one that no *)
(* single error explains and that is not empty.                            *)
EccCorrects ==
    LET s == Discrepancy(ecCode, ecWord)
    IN  CASE Cardinality(ecHit) = 0 -> s = {}
          [] Cardinality(ecHit) = 1 -> Explains(ecCode, s) = ecHit
          [] OTHER -> s # {} /\ Explains(ecCode, s) = {}
=============================================================================
