----------------------------- MODULE PliCollections -----------------------------
(***************************************************************************)
(* What the containers of the PLI library promise their users: a set of    *)
(* keys enumerated in order, a bounded queue with a priority entry and     *)
(* removal from the middle, a memory of ranges, a ring of slots and a      *)
(* stream of tokens.  ret is the answer of the last operation.             *)
(***************************************************************************)
EXTENDS Integers, Sequences, SequencesExt, FiniteSets

CONSTANTS TreeKeys, Items, Addrs, Data, Slots, QueueSize, Lo, Hi

VARIABLES set,      \* keys in the tree
          queue,    \* items in order
          mem,      \* word at an address, 0 where nothing was written
          ring,     \* [slots, at]: the slots and the current one
          toks,     \* [all, next]: tokens of the line and the next one
          ret

Ascending(S) == [i \in 1..Cardinality(S) |-> CHOOSE x \in S : Cardinality({y \in S : y < x}) = i - 1]

Init ==
    /\ set = {} /\ queue = <<>> /\ mem = [a \in Addrs |-> 0] /\ ret = <<0>>
    /\ ring = [slots |-> [i \in 1..Slots |-> 0], at |-> 1]
    /\ toks \in [all : Seq(Seq(Int)), next : {1}]

Set == /\ \E k \in TreeKeys :
            \/ set' = set \cup {k} /\ ret' = <<(IF k \in set THEN 0 ELSE 1)>>
            \/ set' = set \ {k} /\ ret' = <<(IF k \in set THEN k ELSE 0)>>
            \/ UNCHANGED set /\ ret' = <<(IF k \in set THEN k ELSE 0)>>
       /\ UNCHANGED <<queue, mem, ring, toks>>

Enumerate == /\ ret' = Ascending(set)
             /\ UNCHANGED <<set, queue, mem, ring, toks>>

Push(x, q) == queue' = (IF Len(queue) = QueueSize THEN queue ELSE q)
              /\ ret' = <<(IF Len(queue) = QueueSize THEN 0 ELSE 1)>>

\* A burst leaves from the entry of x on; what the tail cuts off comes from the head.
Burst(x, n) ==
    LET i == CHOOSE j \in DOMAIN queue : queue[j] = x
        tail == Len(queue) - i + 1
        cut == IF n <= tail THEN 0 ELSE n - tail
    IN /\ queue' = SubSeq(queue, cut + 1, i - 1)
                   \o SubSeq(queue, i + (IF n <= tail THEN n ELSE tail), Len(queue))
       /\ ret' = <<x>>

Queue == /\ \/ \E x \in Items : Push(x, Append(queue, x)) \/ Push(x, <<x>> \o queue)
            \/ IF queue = <<>> THEN UNCHANGED queue /\ ret' = <<0>>
               ELSE queue' = Tail(queue) /\ ret' = <<Head(queue)>>
            \/ UNCHANGED queue /\ ret' = <<(IF queue = <<>> THEN 0 ELSE Head(queue))>>
            \/ UNCHANGED queue /\ ret' = queue
            \/ \E i \in DOMAIN queue, n \in 1..Len(queue) : Burst(queue[i], n)
         /\ UNCHANGED <<set, mem, ring, toks>>

Mem == /\ \E a \in Addrs :
             \/ \E w \in Data : IF a \in Lo..Hi THEN mem' = [mem EXCEPT ![a] = w] /\ ret' = <<1>>
                                 ELSE UNCHANGED mem /\ ret' = <<0>>
             \/ UNCHANGED mem /\ ret' = <<mem[a]>>
       /\ UNCHANGED <<set, queue, ring, toks>>

Ring == /\ \/ \E i \in 1..Slots, w \in Data :
                ring' = [slots |-> [ring.slots EXCEPT ![i] = w], at |-> i] /\ ret' = <<0>>
           \/ \E i \in 1..Slots : ring' = [ring EXCEPT !.at = i] /\ ret' = <<ring.slots[i]>>
           \/ \E d \in {1, Slots - 1} :
                LET i == ((ring.at - 1 + d) % Slots) + 1
                IN ring' = [ring EXCEPT !.at = i] /\ ret' = <<ring.slots[i]>>
           \/ UNCHANGED ring /\ ret' = <<ring.at - 1>>
        /\ UNCHANGED <<set, queue, mem, toks>>

Toks == /\ IF toks.next > Len(toks.all) THEN UNCHANGED toks /\ ret' = <<>>
           ELSE toks' = [toks EXCEPT !.next = @ + 1] /\ ret' = toks.all[toks.next]
        /\ UNCHANGED <<set, queue, mem, ring>>

Next == Set \/ Enumerate \/ Queue \/ Mem \/ Ring \/ Toks

Spec == Init /\ [][Next]_<<set, queue, mem, ring, toks, ret>>
=============================================================================
