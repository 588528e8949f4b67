----------------------------- MODULE PliContainers -----------------------------
(***************************************************************************)
(* The containers of the PLI library as the simulation models use them:    *)
(* BinaryTree (error lists, the synchronisation directory), LinkedList     *)
(* under Queue and under the memory controller's data queue,               *)
(* DoubleLinkedList under ListTree under Memory, CircularArray (the        *)
(* arbiter) and StringTokenizer (the command parser).                      *)
(*                                                                         *)
(* A node is named by the key or item it carries, 0 is NULL.  One          *)
(* behaviour exercises one kind of container.                              *)
(***************************************************************************)
EXTENDS Integers, Sequences, SequencesExt, FiniteSets

CONSTANTS TreeKeys, Items,      \* positive numbers
          Addrs, Data,     \* addresses (two digits of Radix), positive data words
          Lo, Hi,           \* the range of the memory
          Radix, Slots, QueueSize,
          Lines             \* command lines: sequences over 0 (a delimiter) and letters

ASSUME PliContainersAssumption ==
    /\ TreeKeys \subseteq Nat \ {0} /\ IsFiniteSet(TreeKeys)
    /\ Items \subseteq Nat \ {0} /\ Data \subseteq Nat \ {0}
    /\ Slots \in Nat \ {0} /\ QueueSize \in Nat \ {0} /\ Radix \in Nat \ {0}

VARIABLES kind, tree, list, store, carr, tok, ret

contVars == <<kind, tree, list, store, carr, tok, ret>>

NULL == 0
\* Follow a link until it is NULL.
End(link, n) == LET f[x \in DOMAIN link] == IF link[x] = NULL THEN x ELSE f[link[x]] IN f[n]
\* Apply a step at most n times, while test holds.
While(n, s, test(_), step(_)) ==
    LET f[i \in 0..n] == IF i = 0 THEN s
                         ELSE LET p == f[i - 1] IN IF test(p) THEN step(p) ELSE p
    IN f[n]

-----------------------------------------------------------------------------
(* BinaryTree: a search tree whose top is kept near the median by counting *)
(* the keys up to the top (leftcount) and those after it (rightcount).     *)

NewTree == [top |-> NULL, left |-> [k \in TreeKeys |-> NULL], right |-> [k \in TreeKeys |-> NULL],
            up |-> [k \in TreeKeys |-> NULL], leftcount |-> 0, rightcount |-> 0]

\* The rightmost node of the left side becomes the top.
promoteLeft(t) ==
    LET first == t.left[t.top]
        newtop == End(t.right, first)
        n == End(t.left, newtop)
        u == IF newtop = first THEN t
             ELSE [t EXCEPT !.right[t.up[newtop]] = NULL, !.left[n] = first, !.up[first] = n]
    IN [u EXCEPT !.up[newtop] = NULL, !.left[t.top] = NULL, !.right[newtop] = t.top,
                 !.up[t.top] = newtop, !.top = newtop, !.leftcount = @ - 1, !.rightcount = @ + 1]

promoteRight(t) ==
    LET first == t.right[t.top]
        newtop == End(t.left, first)
        n == End(t.right, newtop)
        u == IF newtop = first THEN t
             ELSE [t EXCEPT !.left[t.up[newtop]] = NULL, !.right[n] = first, !.up[first] = n]
    IN [u EXCEPT !.up[newtop] = NULL, !.right[t.top] = NULL, !.left[newtop] = t.top,
                 !.up[t.top] = newtop, !.top = newtop, !.leftcount = @ + 1, !.rightcount = @ - 1]

LeftHeavy(t) == t.leftcount - t.rightcount > 2
RightHeavy(t) == t.rightcount - t.leftcount >= 0

\* Where a search for k ends: its node, or the node it would hang under.
Descend(t, k) ==
    LET f[x \in TreeKeys] == IF k < x /\ t.left[x] # NULL THEN f[t.left[x]]
                         ELSE IF k > x /\ t.right[x] # NULL THEN f[t.right[x]] ELSE x
    IN f[t.top]

doFind(t, k) == IF t.top # NULL /\ Descend(t, k) = k THEN k ELSE NULL

doInsertion(t, k) ==
    LET p == Descend(t, k)
    IN IF k < p THEN [t EXCEPT !.left[p] = k, !.up[k] = p]
       ELSE [t EXCEPT !.right[p] = k, !.up[k] = p]

TreeAdd(t, k) ==
    LET u == IF t.top = NULL THEN [t EXCEPT !.top = k, !.leftcount = @ + 1]
             ELSE LET v == doInsertion(t, k)
                  IN IF k > t.top THEN [v EXCEPT !.rightcount = @ + 1] ELSE [v EXCEPT !.leftcount = @ + 1]
    IN IF LeftHeavy(u) THEN promoteLeft(u) ELSE IF RightHeavy(u) THEN promoteRight(u) ELSE u

\* Hang node c (or nothing) where node k was.
Relink(t, k, c) ==
    LET p == t.up[k]
        u == IF c = NULL THEN t ELSE [t EXCEPT !.up[c] = p]
    IN IF p = NULL THEN [u EXCEPT !.top = c]
       ELSE IF k = t.left[p] THEN [u EXCEPT !.left[p] = c] ELSE [u EXCEPT !.right[p] = c]

\* The right side is promoted, the left side goes under its leftmost node.
doRemoval(t, k) ==
    LET l == t.left[k]
        r == t.right[k]
        n == End(t.left, r)
        u == IF r # NULL /\ l # NULL THEN [t EXCEPT !.left[n] = l, !.up[l] = n] ELSE t
    IN [Relink(u, k, IF r # NULL THEN r ELSE l) EXCEPT
            !.left[k] = NULL, !.right[k] = NULL, !.up[k] = NULL]

\* resetLeftCount and resetRightCount: the nodes under a link.
Below(t, n) ==
    LET f[x \in TreeKeys \cup {NULL}] == IF x = NULL THEN 0 ELSE 1 + f[t.left[x]] + f[t.right[x]] IN f[n]

Recount(t, k, old) ==
    IF k < old THEN [t EXCEPT !.leftcount = @ - 1]
    ELSE IF k > old THEN [t EXCEPT !.rightcount = @ - 1]
    ELSE IF t.top = NULL THEN [t EXCEPT !.leftcount = 0, !.rightcount = 0]
    ELSE [t EXCEPT !.leftcount = 1 + Below(t, t.left[t.top]), !.rightcount = Below(t, t.right[t.top])]

TreeDelete(t, k) ==
    LET u == Recount(doRemoval(t, k), k, t.top)
        n == Cardinality(TreeKeys)
    IN IF u.leftcount = 0 /\ u.rightcount = 0 THEN u
       ELSE While(n, While(n, u, LeftHeavy, promoteLeft), RightHeavy, promoteRight)

\* BinaryTreeEnum: from the leftmost node, the successor of each node.
NextElement(t, n) ==
    LET climb[x \in TreeKeys] == IF t.up[x] = NULL THEN NULL
                             ELSE IF x = t.right[t.up[x]] THEN climb[t.up[x]] ELSE t.up[x]
    IN IF t.right[n] # NULL THEN End(t.left, t.right[n]) ELSE climb[n]

Elements(t) ==
    LET start == [ptr |-> IF t.top = NULL THEN NULL ELSE End(t.left, t.top), out |-> <<>>]
        Step(e) == [ptr |-> NextElement(t, e.ptr), out |-> Append(e.out, e.ptr)]
    IN While(Cardinality(TreeKeys) + 1, start, LAMBDA e : e.ptr # NULL, Step).out

\* BinaryKeyValueTree: KVInsert, KVRemove (after a KVFind), KVFind.
TreeInsert(k) == LET there == doFind(tree, k) # NULL
                 IN /\ tree' = (IF there THEN tree ELSE TreeAdd(tree, k))
                    /\ ret' = <<(IF there THEN 0 ELSE 1)>>
TreeRemove(k) == /\ tree' = (IF doFind(tree, k) = NULL THEN tree ELSE TreeDelete(tree, k))
                 /\ ret' = <<doFind(tree, k)>>
TreeFind(k) == UNCHANGED tree /\ ret' = <<doFind(tree, k)>>
\* An enumeration; the constructor reads through a NULL top.
TreeElements == tree.top # NULL /\ UNCHANGED tree /\ ret' = Elements(tree)

TreeStep == (\E k \in TreeKeys : TreeInsert(k) \/ TreeRemove(k) \/ TreeFind(k)) \/ TreeElements

-----------------------------------------------------------------------------
(* LinkedList and Queue                                                    *)

NewList == [head |-> NULL, tail |-> NULL, loc |-> NULL, pre |-> NULL, size |-> 0,
            next |-> [x \in Items |-> NULL]]

ListAppend(l, x) ==
    IF l.head = NULL THEN [l EXCEPT !.head = x, !.tail = x, !.loc = x, !.next[x] = NULL, !.size = @ + 1]
    ELSE [l EXCEPT !.next[l.tail] = x, !.tail = x, !.size = @ + 1]

\* pre is set to the old head, whatever the comment says.
ListPrepend(l, x) ==
    IF l.head = NULL THEN ListAppend(l, x)
    ELSE [l EXCEPT !.next[x] = l.head, !.pre = IF l.loc = l.head THEN l.head ELSE @,
                   !.head = x, !.size = @ + 1]

\* Remove the node at loc; removing the tail moves loc to the head.
ListRemove_stay(l) ==
    LET n == l.next[l.loc]
        u == [l EXCEPT !.next[l.loc] = NULL, !.size = @ - 1]
    IN IF l.loc = l.head
       THEN IF n = NULL THEN [u EXCEPT !.head = NULL, !.tail = NULL, !.loc = NULL, !.pre = NULL]
            ELSE [u EXCEPT !.loc = n, !.head = n]
       ELSE IF l.loc = l.tail THEN [u EXCEPT !.next[l.pre] = NULL, !.pre = NULL, !.loc = l.head]
       ELSE [u EXCEPT !.loc = n, !.next[l.pre] = n]
ListRemove(l) ==
    LET n == l.next[l.loc]
        u == [l EXCEPT !.next[l.loc] = NULL, !.size = @ - 1]
    IN IF l.loc = l.head
       THEN IF n = NULL THEN [u EXCEPT !.head = NULL, !.tail = NULL, !.loc = NULL, !.pre = NULL]
            ELSE [u EXCEPT !.loc = n, !.head = n]
       ELSE IF l.loc = l.tail THEN [u EXCEPT !.tail = l.pre, !.next[l.pre] = NULL, !.pre = NULL, !.loc = l.head]
       ELSE [u EXCEPT !.loc = n, !.next[l.pre] = n]

GoToHead(l) == [l EXCEPT !.loc = l.head, !.pre = NULL]

ListFind(l, x) ==
    While(Cardinality(Items), [l EXCEPT !.loc = l.head], LAMBDA m : m.loc # m.tail /\ m.loc # x,
          LAMBDA m : [m EXCEPT !.pre = m.loc, !.loc = m.next[m.loc]])

\* LinkedListEnum from the head.
ListWalk(l) ==
    While(Cardinality(Items), [p |-> l.head, out |-> <<>>], LAMBDA w : w.p # NULL,
          LAMBDA w : [p |-> l.next[w.p], out |-> Append(w.out, w.p)]).out

ListFull(l) == l.size = QueueSize
\* Push on a FIFO queue.
QueuePush(x) == /\ list' = (IF ListFull(list) THEN list ELSE ListAppend(list, x))
                /\ ret' = <<(IF ListFull(list) THEN 0 ELSE 1)>>
PriorityPush(x) == /\ list' = (IF ListFull(list) THEN list ELSE ListPrepend(list, x))
                   /\ ret' = <<(IF ListFull(list) THEN 0 ELSE 1)>>
Pop == /\ list' = (IF list.head = NULL THEN list ELSE ListRemove(GoToHead(list)))
       /\ ret' = <<list.head>>
Peek == list' = (IF list.head = NULL THEN list ELSE GoToHead(list)) /\ ret' = <<list.head>>
QueueElements == UNCHANGED list /\ ret' = ListWalk(list)
\* MemoryControl::processWrite: the data of a write leaves the data queue,
\* n entries from the one the request points at.
TakeBurst(x, n) ==
    /\ list' = While(n, ListFind(list, x), LAMBDA l : TRUE, ListRemove)
    /\ ret' = <<ListFind(list, x).loc>>

\* An item is in a queue at most once.
Absent == {x \in Items : \A i \in DOMAIN ListWalk(list) : ListWalk(list)[i] # x}

ListStep == \/ \E x \in Absent : QueuePush(x) \/ PriorityPush(x)
            \/ Pop \/ Peek \/ QueueElements
            \/ \E x \in Items \ Absent, n \in 1..list.size : TakeBurst(x, n)

-----------------------------------------------------------------------------
(* DoubleLinkedList, ListTree, Memory                                      *)

NewDll == [head |-> -1, tail |-> -1, loc |-> -1, prev |-> <<>>, next |-> <<>>, ptr |-> <<>>]

\* FindPtr: from loc, step towards the key until it, or the gap it would be in.
Seek(d, k) ==
    While(Radix, d, LAMBDA e : \/ e.loc < k /\ e.next[e.loc] # -1 /\ e.next[e.loc] <= k
                               \/ e.loc > k /\ e.prev[e.loc] # -1 /\ e.prev[e.loc] >= k,
          LAMBDA e : [e EXCEPT !.loc = IF e.loc < k THEN e.next[e.loc] ELSE e.prev[e.loc]])

FindPtr(d, k) == IF d.head # -1 /\ Seek(d, k).loc = k THEN d.ptr[k] ELSE NULL
Sought(d, k) == IF d.head = -1 THEN d ELSE Seek(d, k)

ListLink(f, k, v) == [x \in DOMAIN f \cup {k} |-> IF x = k THEN v ELSE f[x]]

DllInsert(d0, k, p) ==
    LET d == Sought(d0, k)
        b == IF d.loc > k THEN d.prev[d.loc] ELSE d.loc
        a == IF d.loc > k THEN d.loc ELSE d.next[d.loc]
        pv == ListLink(d.prev, k, b)
        nx == ListLink(d.next, k, a)
    IN IF d.head = -1 THEN [d EXCEPT !.head = k, !.tail = k, !.loc = k,
                                     !.prev = ListLink(@, k, -1), !.next = ListLink(@, k, -1), !.ptr = ListLink(@, k, p)]
       ELSE IF d.loc = k THEN [d EXCEPT !.ptr[k] = p]
       ELSE [d EXCEPT !.loc = k, !.ptr = ListLink(@, k, p), !.head = IF b = -1 THEN k ELSE @,
                      !.tail = IF a = -1 THEN k ELSE @,
                      !.prev = IF a = -1 THEN pv ELSE ListLink(pv, a, k),
                      !.next = IF b = -1 THEN nx ELSE ListLink(nx, b, k)]

\* translateAddr: the digits of an address, most significant first.
translateAddr(a) == <<a \div Radix, a % Radix>>

\* A ListTree of depth two: the top list points at the lists of the second digit.
Sub(i) == i + 1                      \* the pointer to the list of digit i
NewStore == [top |-> NewDll, sub |-> [i \in 0..Radix - 1 |-> NewDll]]

treeInsert(s, ix, w) ==
    LET found == FindPtr(s.top, ix[1]) # NULL
    IN [top |-> IF found THEN Sought(s.top, ix[1]) ELSE DllInsert(s.top, ix[1], Sub(ix[1])),
        sub |-> [s.sub EXCEPT ![ix[1]] = DllInsert(@, ix[2], w)]]

treeFind(s, ix) ==
    LET p == FindPtr(s.top, ix[1]) IN IF p = NULL THEN NULL ELSE FindPtr(s.sub[p - 1], ix[2])

InRange(a) == a \in Lo..Hi

MemWrite(a, w) == /\ store' = (IF InRange(a) THEN treeInsert(store, translateAddr(a), w) ELSE store)
                  /\ ret' = <<(IF InRange(a) THEN 1 ELSE 0)>>
\* A read moves the cursors of the lists it passes.
MemRead(a) ==
    LET ix == translateAddr(a)
    IN /\ ret' = <<(IF InRange(a) THEN treeFind(store, ix) ELSE 0)>>
       /\ store' = (IF ~InRange(a) THEN store
                    ELSE [top |-> Sought(store.top, ix[1]),
                          sub |-> IF FindPtr(store.top, ix[1]) = NULL THEN store.sub
                                  ELSE [store.sub EXCEPT ![ix[1]] = Sought(@, ix[2])]])

MemStep == \E a \in Addrs : MemRead(a) \/ \E w \in Data : MemWrite(a, w)

-----------------------------------------------------------------------------
(* CircularArray over CircularDoubleLinkedList: nodes 1..Slots             *)

\* CircularDoubleLinkedList::Append
CdllAppend(c, x) ==
    IF c.head = NULL THEN [c EXCEPT !.head = x, !.tail = x, !.loc = x, !.prev[x] = x, !.next[x] = x]
    ELSE [c EXCEPT !.next = [@ EXCEPT ![x] = c.head, ![c.tail] = x],
                   !.prev = [@ EXCEPT ![c.head] = x, ![x] = c.tail], !.tail = x]

NewArray ==
    LET none == [i \in 1..Slots |-> NULL]
    IN FoldLeft(CdllAppend, [head |-> NULL, tail |-> NULL, loc |-> NULL,
                             prev |-> none, next |-> none, data |-> none], [i \in 1..Slots |-> i])

\* find: forward from the current node.
arrayFind(c, i) == While(Slots, c, LAMBDA d : d.loc # i, LAMBDA d : [d EXCEPT !.loc = d.next[d.loc]])

ArrayStep ==
    \/ \E i \in 1..Slots : \/ \E w \in Data : carr' = [arrayFind(carr, i) EXCEPT !.data[i] = w] /\ ret' = <<0>>
                           \/ carr' = arrayFind(carr, i) /\ ret' = <<carr.data[i]>>
    \/ carr' = [carr EXCEPT !.loc = carr.next[@]] /\ ret' = <<carr.data[carr.next[carr.loc]]>>
    \/ carr' = [carr EXCEPT !.loc = carr.prev[@]] /\ ret' = <<carr.data[carr.prev[carr.loc]]>>
    \/ UNCHANGED carr /\ ret' = <<carr.loc - 1>>

-----------------------------------------------------------------------------
(* StringTokenizer: line is a C string, a delimiter is 0, positions from 1 *)

Delim(s, i) == i <= Len(s) /\ s[i] = 0
\* The first position from i on that is (not) a delimiter, or the end.
ScanTo(s, i) == CHOOSE j \in i..Len(s) + 1 : (j = Len(s) + 1 \/ Delim(s, j)) /\ \A m \in i..j - 1 : ~Delim(s, m)
SkipFrom(s, i) == CHOOSE j \in i..Len(s) + 1 : ~Delim(s, j) /\ \A m \in i..j - 1 : Delim(s, m)

\* GetToken: leading delimiters are stepped over one at a time, those after
\* the token in one go.
GetToken(t) ==
    LET from == SkipFrom(t.line, t.curr)
        end == ScanTo(t.line, from)
    IN IF from > Len(t.line) THEN [t |-> [t EXCEPT !.curr = from], tok |-> <<>>]
       ELSE [t |-> [t EXCEPT !.curr = SkipFrom(t.line, end)],
             tok |-> SubSeq(t.line, from, end - 1)]

TokStep == tok' = GetToken(tok).t /\ ret' = GetToken(tok).tok

-----------------------------------------------------------------------------
ContKinds == {"api", "tree", "list", "store", "array", "tok"}

ContInit ==
    /\ kind \in ContKinds
    /\ tree = NewTree /\ list = NewList /\ store = NewStore /\ carr = NewArray /\ ret = <<0>>
    /\ tok \in {[line |-> s, curr |-> 1] : s \in IF kind = "tok" THEN Lines ELSE {<<>>}}

ContNext ==
    /\ UNCHANGED kind
    /\ \/ kind = "tree" /\ TreeStep /\ UNCHANGED <<list, store, carr, tok>>
       \/ kind = "list" /\ ListStep /\ UNCHANGED <<tree, store, carr, tok>>
       \/ kind = "store" /\ MemStep /\ UNCHANGED <<tree, list, carr, tok>>
       \/ kind = "array" /\ ArrayStep /\ UNCHANGED <<tree, list, store, tok>>
       \/ kind = "tok" /\ TokStep /\ UNCHANGED <<tree, list, store, carr>>

-----------------------------------------------------------------------------
(* Properties                                                              *)

InTree == {k \in TreeKeys : doFind(tree, k) = k}

\* The tree is what its users and its own balancing rely on: the counters of
\* the top are exact and differ by one or two, so that no promotion reads
\* through a missing side, and an enumeration meets every key once, in order
\* (BinaryTree.cc, Insert and Remove).
TreeBalanced ==
    /\ \A i, j \in 1..Len(Elements(tree)) : i < j => Elements(tree)[i] < Elements(tree)[j]
    /\ ToSet(Elements(tree)) = InTree
    /\ tree.leftcount = Cardinality({k \in InTree : k <= tree.top})
    /\ tree.rightcount = Cardinality({k \in InTree : k > tree.top})
    /\ InTree # {} => tree.leftcount - tree.rightcount \in {1, 2}

\* The tokens of a line: its maximal runs of letters, in order.
TokensOf(s) ==
    LET starts == {i \in DOMAIN s : s[i] # 0 /\ (i = 1 \/ s[i - 1] = 0)}
        Nth(n) == CHOOSE i \in starts : Cardinality({j \in starts : j <= i}) = n
        Run(i) == CHOOSE j \in i..Len(s) : (j = Len(s) \/ s[j + 1] = 0) /\ \A m \in i..j : s[m] # 0
    IN [n \in 1..Cardinality(starts) |-> SubSeq(s, Nth(n), Run(Nth(n)))]

HeldAt(ptr, k) == IF k \in DOMAIN ptr THEN ptr[k] ELSE 0

Abstract == INSTANCE PliCollections WITH
    set <- IF kind = "tree" THEN InTree ELSE {},
    queue <- IF kind = "list" THEN ListWalk(list) ELSE <<>>,
    mem <- [a \in Addrs |-> HeldAt(store.sub[translateAddr(a)[1]].ptr, translateAddr(a)[2])],
    ring <- [slots |-> carr.data, at |-> carr.loc],
    toks <- IF kind # "tok" THEN [all |-> <<>>, next |-> 1]
            ELSE [all |-> TokensOf(tok.line),
                  next |-> 1 + Len(TokensOf(SubSeq(tok.line, 1, tok.curr - 1)))]

\* The containers implement the collections their users think in: every
\* operation's answer and effect, whatever the cursors, counters and links
\* left by the operations before it (LinkedList.cc, DoubleLinkedList.cc,
\* ListTree.cc, CircularArray.cc, StringTokenizer.cc, BinaryTree.cc);
\* and the tree stays balanced enough for its own code.
Collections == Abstract!Spec /\ []TreeBalanced
=============================================================================
