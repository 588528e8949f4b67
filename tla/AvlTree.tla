------------------------------ MODULE AvlTree ------------------------------
(***************************************************************************)
(* The balanced tree of the PLI libraries: utility.h of tools/pli/mem      *)
(* keeps the simulated DRAM in one, keyed by row address, and avl.cc of    *)
(* tools/pli/iop the event lists, keyed by program counter.  Both files    *)
(* hold the same algorithm; they differ in what an insertion does with a   *)
(* key that is present (the memory keeps its node, the event tree          *)
(* replaces the data) and avl.cc alone removes.                            *)
(*                                                                         *)
(* A node is <<key, data, balance, left, right>>: the code never shares a  *)
(* subtree, so a pointer is the subtree it points to.  "balance" is the    *)
(* height the code keeps in the node and adjusts by hand when it rotates.  *)
(* A step that dereferences a null pointer sets avFault.                   *)
(***************************************************************************)
EXTENDS Integers, Sequences, FiniteSets

CONSTANTS AvKeys,     \* keys the callers use
          AvData,     \* data items stored under a key
          AvSteps     \* number of operations of a behaviour

ASSUME AvAssumption == /\ AvKeys \subseteq Nat
                       /\ AvSteps \in Nat

VARIABLES avTree,     \* the root
          avMap,      \* ghost: the data stored under every key present
          avLost,     \* ghost: the keys present whose data remove_min lost
          avKeeps,    \* TRUE: utility.h (keeps), FALSE: avl.cc (replaces)
          avFault,    \* a null pointer was dereferenced
          avCount     \* operations so far

avVars == <<avTree, avMap, avLost, avKeeps, avFault, avCount>>

Null == <<>>
NKey(t) == t[1]
NData(t) == t[2]
Bal(t) == t[3]
LeftOf(t) == t[4]
RightOf(t) == t[5]

\* create_avl_node, create_event_node, and the empty case of avl.cc's insert
create_avl_node(k, d) == <<k, d, 0, Null, Null>>

\* A missing child counts as balance -1.
Height(t) == IF t = Null THEN -1 ELSE Bal(t)

difference(t) ==
    IF t = Null THEN 0 ELSE Height(LeftOf(t)) - Height(RightOf(t))

fixFB(t) ==
    [t EXCEPT ![3] = (IF Height(LeftOf(t)) > Height(RightOf(t))
                      THEN Height(LeftOf(t)) ELSE Height(RightOf(t))) + 1]

rotate_right(t) ==
    IF t = Null \/ LeftOf(t) = Null THEN t
    ELSE [LeftOf(t) EXCEPT ![5] = [t EXCEPT ![4] = RightOf(LeftOf(t))]]

rotate_left(t) ==
    IF t = Null \/ RightOf(t) = Null THEN t
    ELSE [RightOf(t) EXCEPT ![4] = [t EXCEPT ![5] = LeftOf(RightOf(t))]]

(* t with the balance of its root, left and right child changed by b, l    *)
(* and r; "fault" when a changed child does not exist.                     *)
Adjust(t, b, l, r) ==
    LET root == [t EXCEPT ![3] = @ + b]
        left == IF l = 0 \/ LeftOf(t) = Null THEN root
                ELSE [root EXCEPT ![4][3] = @ + l]
    IN  [tree  |-> IF r = 0 \/ RightOf(t) = Null THEN left
                   ELSE [left EXCEPT ![5][3] = @ + r],
         fault |-> \/ l # 0 /\ LeftOf(t) = Null
                   \/ r # 0 /\ RightOf(t) = Null]

balance_right(t) ==
    LET d == difference(RightOf(t))
    IN  IF d = 0 THEN Adjust(rotate_left(t), -1, 1, 0)
        ELSE IF d < 0 THEN Adjust(rotate_left(t), 0, -2, 0)
        ELSE Adjust(rotate_left([t EXCEPT ![5] = rotate_right(@)]), 1, -2, -1)

\* Mutant: the inner rotation of the double case drops the wrong subtree.
balance_left_lossy(t) ==
    IF difference(LeftOf(t)) > 0
    THEN Adjust(rotate_right([t EXCEPT ![4] = [@ EXCEPT ![5] = Null]]),
                1, 0, -2)
    ELSE Adjust(rotate_right(t), 0, 0, -2)

(* The mirror image of balance_right with the two signs left as they are.  *)
balance_left(t) ==
    LET d == difference(LeftOf(t))
    IN  IF d = 0 THEN Adjust(rotate_right(t), -1, 0, 1)
        ELSE IF d < 0 THEN Adjust(rotate_right(t), 0, 0, -2)
        ELSE Adjust(rotate_right([t EXCEPT ![4] = rotate_left(@)]), 1, -1, -2)

\* fixFB and the two tests that follow it in insert and remove_node
Rebalance(t, faulty) ==
    LET u == fixFB(t)
        b == IF difference(u) > 1 THEN balance_left(u)
             ELSE IF difference(u) < -1 THEN balance_right(u)
             ELSE [tree |-> u, fault |-> FALSE]
    IN  [b EXCEPT !.fault = @ \/ faulty]

RECURSIVE insert_avl_node(_, _, _, _)
insert_avl_node(t, k, d, keeps) ==
    IF t = Null THEN [tree |-> create_avl_node(k, d), fault |-> FALSE]
    ELSE IF k = NKey(t)
    THEN [tree |-> IF keeps THEN t ELSE [t EXCEPT ![2] = d], fault |-> FALSE]
    ELSE LET side == IF k < NKey(t) THEN 4 ELSE 5
             sub  == insert_avl_node(t[side], k, d, keeps)
         IN  Rebalance([t EXCEPT ![side] = sub.tree], sub.fault)

(* The tree without its least node.  Only the call that finds that node    *)
(* returns its data: a recursive one falls off the end of the function, so *)
(* "data" is any value when the least node is not the root.                *)
RECURSIVE remove_min(_)
remove_min(t) ==
    IF LeftOf(t) # Null
    THEN LET sub == remove_min(LeftOf(t))
         IN  [tree |-> [t EXCEPT ![4] = sub.tree], key |-> sub.key,
              data |-> AvData]
    ELSE [tree |-> RightOf(t), key |-> NKey(t), data |-> {NData(t)}]

(* The set of trees remove_node may leave, with the faults met.            *)
RECURSIVE remove_node(_, _)
remove_node(t, k) ==
    IF t = Null THEN {[tree |-> Null, fault |-> FALSE]}
    ELSE IF k # NKey(t)
    THEN LET side == IF k < NKey(t) THEN 4 ELSE 5
         IN  {Rebalance([t EXCEPT ![side] = sub.tree], sub.fault) :
                sub \in remove_node(t[side], k)}
    ELSE IF LeftOf(t) # Null /\ RightOf(t) # Null
    THEN LET m == remove_min(RightOf(t))
         IN  {Rebalance([t EXCEPT ![1] = m.key, ![2] = d, ![5] = m.tree],
                        FALSE) : d \in m.data}
    ELSE LET u == IF LeftOf(t) = Null THEN RightOf(t) ELSE LeftOf(t)
         IN  {IF u = Null THEN [tree |-> Null, fault |-> FALSE]
              ELSE Rebalance(u, FALSE)}

(* Walks down from the root; Null stands for "not found".  utility.h       *)
(* reads the root without a test, which its callers make (mon_event_call   *)
(* and the loader) or leave out (the memory's read and write tasks, which  *)
(* run after the loader).                                                  *)
RECURSIVE search_node(_, _)
search_node(t, k) ==
    IF t = Null \/ NKey(t) = k THEN t
    ELSE IF NKey(t) > k THEN search_node(LeftOf(t), k)
    ELSE search_node(RightOf(t), k)

RECURSIVE in_order(_)
in_order(t) ==
    IF t = Null THEN <<>>
    ELSE in_order(LeftOf(t)) \o <<NKey(t)>> \o in_order(RightOf(t))

-----------------------------------------------------------------------------
AvInit == /\ avTree = Null
          /\ avMap = <<>>
          /\ avLost = {}
          /\ avKeeps \in BOOLEAN
          /\ avFault = FALSE
          /\ avCount = 0

AvStep == /\ avCount < AvSteps
          /\ avCount' = avCount + 1
          /\ UNCHANGED avKeeps

(* insert_event_node, insert_avl_node of the memory and avl<T>::insert     *)
Insert == \E k \in AvKeys, d \in AvData :
    LET r == insert_avl_node(avTree, k, d, avKeeps)
    IN  /\ AvStep
        /\ avTree' = r.tree
        /\ avFault' = (avFault \/ r.fault)
        /\ avMap' = IF k \in DOMAIN avMap
                    THEN IF avKeeps THEN avMap ELSE [avMap EXCEPT ![k] = d]
                    ELSE [x \in DOMAIN avMap \cup {k} |->
                            IF x = k THEN d ELSE avMap[x]]
        /\ avLost' = avLost \ {k}

(* The key whose data is lost when node n is removed: with two children,   *)
(* the least key right of n takes its place, and only a remove_min that    *)
(* finds it at once returns its data.                                      *)
LosesDataOf(n) ==
    IF n # Null /\ LeftOf(n) # Null /\ RightOf(n) # Null /\ LeftOf(RightOf(n)) # Null
    THEN {remove_min(RightOf(n)).key} ELSE {}

(* avl<T>::remove, which nothing in the repository calls yet               *)
RemoveKey == \E k \in AvKeys :
    /\ AvStep
    /\ ~avKeeps
    /\ \E r \in remove_node(avTree, k) :
          /\ avTree' = r.tree
          /\ avFault' = (avFault \/ r.fault)
    /\ avMap' = [x \in DOMAIN avMap \ {k} |-> avMap[x]]
    /\ avLost' = (avLost \ {k}) \cup LosesDataOf(search_node(avTree, k))

AvNext == Insert \/ RemoveKey
AvSpec == AvInit /\ [][AvNext]_avVars

-----------------------------------------------------------------------------
(* A search finds every key that was inserted and not removed, and no      *)
(* other, with the data it was last stored under, except the keys whose    *)
(* data a removal lost and no insertion stored again: remove_min (avl.cc   *)
(* 199-210) does not return what its recursive call returns, so a removed  *)
(* node is given undefined data when it has two children and the least key *)
(* right of it is not its right child.  The in-order walk that dumps the   *)
(* memory lists every key once and in increasing order, whatever rotations *)
(* the insertions and removals made and although the heights kept in the   *)
(* nodes drift.  No rotation follows a null pointer.                       *)
AvlFinds ==
    /\ ~avFault
    /\ \A k \in AvKeys :
          LET n == search_node(avTree, k)
          IN  IF k \in DOMAIN avMap
              THEN n # Null /\ (k \in avLost \/ NData(n) = avMap[k])
              ELSE n = Null
    /\ LET s == in_order(avTree)
       IN  /\ Len(s) = Cardinality(DOMAIN avMap)
           /\ \A i \in 1..(Len(s) - 1) : s[i] < s[i + 1]

RECURSIVE Depth(_)
Depth(t) ==
    IF t = Null THEN -1
    ELSE 1 + (IF Depth(LeftOf(t)) > Depth(RightOf(t))
              THEN Depth(LeftOf(t)) ELSE Depth(RightOf(t)))

RECURSIVE Balanced(_)
Balanced(t) ==
    \/ t = Null
    \/ /\ Depth(LeftOf(t)) - Depth(RightOf(t)) \in -1..1
       /\ Balanced(LeftOf(t))
       /\ Balanced(RightOf(t))

(* The tree is an AVL tree: the two subtrees of every node differ in       *)
(* height by at most one.                                                  *)
AvlBalanced == avTree # Null => Balanced(avTree)
=============================================================================
