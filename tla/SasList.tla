------------------------------ MODULE SasList ------------------------------
(***************************************************************************)
(* The linked lists of tools/pli/socket/list.c and decoder.c.  A register  *)
(* write or a simulator command first waits in the pending list of its     *)
(* thread (push_data, push_send).  dec_data moves the writes to the compare *)
(* list and hands out the commands, in the order of the thread.  The       *)
(* monitor takes the head of the compare list, or reorders it (shiftList,  *)
(* frontRegVal, find_next, shiftright, swap).  Nodes taken from a list are *)
(* kept in free lists and reused, so that a stale tail pointer or a missed *)
(* link shows only when a later push goes through it.                      *)
(* Memory is a function from node numbers; 0 is the null pointer.          *)
(***************************************************************************)
EXTENDS Integers, Sequences, FiniteSets, SequencesExt

CONSTANTS
    SlThreads,   \* threads (32 in the code)
    SlWrites,    \* register writes: records of thread, which, reg, win, wait
    SlCommands,  \* simulator commands: the same records, which is the command
    SlNodes,     \* bound: nodes the program allocates
    SlPushes     \* bound: items pushed

ASSUME SlAssumption ==
    /\ SlNodes \in Nat /\ SlPushes \in Nat
    /\ IsFiniteSet(SlThreads) /\ SlThreads = 0 .. (Cardinality(SlThreads) - 1)
    /\ SlWrites \cup SlCommands \subseteq
          [thread : SlThreads, which : Nat, reg : Nat, win : Nat, wait : Nat]

INTR_RECEIVE == 106
HINTP == 120
REG_WRITE_BACK == 152

\* The lists of the program: the compare list with its free and instruction lists,
\* the decoder's free list, and the pending and TLB error lists of a thread.
Cmp == <<"cmp", 0>>
Inst == <<"inst", 0>>
Free == <<"free", 0>>
DecHeap == <<"decoder", 0>>
Pending(t) == <<"pending", t>>
Tlb(d, t) == <<d, t>>
Lists == {Cmp, Inst, Free, DecHeap} \cup {Pending(t) : t \in SlThreads}
                                    \cup {Tlb(d, t) : d \in {"dtlb", "itlb"}, t \in SlThreads}

VARIABLES
    slMem,       \* the nodes: next and the item they hold
    slPtr,       \* head and tail pointer of each list
    slPrev,      \* htail_prev of the compare list
    slUsed,      \* nodes allocated so far
    slPushed,    \* items pushed so far
    slWant       \* what each list should hold, as a sequence of items
slVars == <<slMem, slPtr, slPrev, slUsed, slPushed, slWant>>

NoItem == [id |-> 0, thread |-> 0, which |-> 0, reg |-> 0, win |-> 0, wait |-> 0, send |-> FALSE]

\* case 0 of bw_list_call, case 1 of bw_instruction_decoder_call and bw_tlb_reset_vld_call.
\* The code clears the head pointers of the compare list (and of its free and instruction
\* lists) and of the pending lists.  It never sets those of the decoder's free list
\* (decoder.c:40) and of the TLB error lists (357-358): they start as what malloc returns.
\* Here that memory is zero, as it is on pages fresh from the kernel; with any other
\* content the first push or test of such a list goes through a stray pointer.
SlInit ==
    /\ slMem = [n \in 1 .. SlNodes |-> [next |-> 0, item |-> NoItem]]
    /\ slPtr = [l \in Lists |-> [head |-> 0, tail |-> 0]]
    /\ slPrev = 0 /\ slUsed = 0 /\ slPushed = 0
    /\ slWant = [l \in Lists |-> <<>>]

\* The machine an operation works on.
St == [mem |-> slMem, ptr |-> slPtr, prev |-> slPrev]
Put(s) == slMem' = s.mem /\ slPtr' = s.ptr /\ slPrev' = s.prev

Head_(s, l) == s.ptr[l].head
Next_(s, n) == s.mem[n].next
Item(s, n) == s.mem[n].item
Link(s, n, m) == [s EXCEPT !.mem[n].next = m]

\* The nodes of a list from its head pointer on; 0 appended if the list does not end.
Chain(s, l) ==
    LET f[k \in 0 .. SlNodes] ==
            IF k = 0 THEN (IF Head_(s, l) = 0 THEN <<>> ELSE <<Head_(s, l)>>)
            ELSE LET p == f[k - 1]
                 IN IF p = <<>> \/ Next_(s, p[Len(p)]) = 0 THEN p ELSE Append(p, Next_(s, p[Len(p)]))
    IN f[SlNodes]

(***************************************************************************)
(* The primitive operations.                                               *)
(***************************************************************************)
\* pop (dpop, hpop): only the head pointer moves, the tail pointer stays behind.
pop(s, l) == [s EXCEPT !.ptr[l].head = Next_(s, @)]

\* Mutant: an empty list is told by its tail pointer.
push_tail(s, l, n) ==
    LET e == Link(s, n, 0)
        a == IF s.ptr[l].tail = 0 THEN [e EXCEPT !.ptr[l].head = n] ELSE Link(e, s.ptr[l].tail, n)
    IN [a EXCEPT !.ptr[l].tail = n]

\* push (dpush): append behind the tail, or start the list.
push(s, l, n) ==
    LET e == Link(s, n, 0)
        a == IF Head_(s, l) = 0 THEN [e EXCEPT !.ptr[l].head = n] ELSE Link(e, s.ptr[l].tail, n)
    IN [a EXCEPT !.ptr[l].tail = n]

\* hpush: push on the free list, which remembers the tail before.
hpush(s, n) == [push(s, Free, n) EXCEPT !.prev = s.ptr[Free].tail]

\* hfront: take the node freed last back; the free list must have another one.
hfront(s) == Link([s EXCEPT !.ptr[Free].tail = s.prev], s.prev, 0)

\* front: put a node before the head.
front(s, l, n) ==
    LET e == IF Head_(s, l) = 0 THEN [Link(s, n, 0) EXCEPT !.ptr[l].tail = n] ELSE Link(s, n, Head_(s, l))
    IN [e EXCEPT !.ptr[l].head = n]

\* A node is popped from one list and pushed on another.
Move(s, from, to) == push(pop(s, from), to, Head_(s, from))

\* Inserting node n behind node p, with the tail pointer (shiftList, frontRegVal, shiftright).
Behind(s, l, p, n) ==
    LET e == Link(Link(s, n, Next_(s, p)), p, n)
    IN IF s.ptr[l].tail = p THEN [e EXCEPT !.ptr[l].tail = n] ELSE e

\* A node for a new item: the head of the compare list's free list, or a new one.
Alloc == IF Head_(St, Free) # 0 THEN Head_(St, Free) ELSE slUsed + 1
Filled(it) == LET s == IF Head_(St, Free) # 0 THEN pop(St, Free) ELSE St
              IN [s EXCEPT !.mem[Alloc].item = it]
CanPush == slPushed < SlPushes /\ (Head_(St, Free) # 0 \/ slUsed < SlNodes)
Pushed == /\ slPushed' = slPushed + 1
          /\ slUsed' = IF Head_(St, Free) # 0 THEN slUsed ELSE slUsed + 1
Made(x, snd) == [id |-> slPushed + 1, thread |-> x.thread, which |-> x.which, reg |-> x.reg,
                 win |-> x.win, wait |-> x.wait, send |-> snd]

(***************************************************************************)
(* The calls.                                                              *)
(***************************************************************************)
Add(l, it) == /\ CanPush /\ Pushed
              /\ Put(push(Filled(it), l, Alloc))
              /\ slWant' = [slWant EXCEPT ![l] = Append(@, it),
                                          ![Free] = IF @ = <<>> THEN @ ELSE Tail(@)]

\* push_data and push_send: a write or a command of a thread waits in its pending list.
push_data == \E x \in SlWrites : Add(Pending(x.thread), Made(x, FALSE))
push_send == \E x \in SlCommands : Add(Pending(x.thread), Made(x, TRUE))

\* case 3 and case 20 of bw_list_call, tlb_error.
PushCmp == \E x \in SlWrites : Add(Cmp, Made(x, FALSE))
Bare(t) == [thread |-> t, which |-> 0, reg |-> 0, win |-> 0, wait |-> 0]
PushInst == \E t \in SlThreads : Add(Inst, Made(Bare(t), FALSE))
tlb_error == \E t \in SlThreads, d \in {"dtlb", "itlb"} : Add(Tlb(d, t), Made(Bare(t), FALSE))

\* dec_data: writes go to the compare list until a command is met, which is handed out.
dec_data(t) ==
    LET P == Pending(t)
        q == slWant[P]
        cmds == {i \in 1 .. Len(q) : q[i].send}
        k == IF cmds = {} THEN Len(q) ELSE CHOOSE i \in cmds : \A j \in cmds : i <= j
        n == IF cmds = {} THEN k ELSE k - 1
        one(s) == IF Head_(s, P) = 0 THEN s
                  ELSE Move(s, P, IF Item(s, Head_(s, P)).send THEN DecHeap ELSE Cmp)
        z[i \in 0 .. k] == IF i = 0 THEN St ELSE one(z[i - 1])
    IN /\ Head_(St, P) # 0
       /\ Put(z[k])
       /\ slWant' = [slWant EXCEPT ![P] = SubSeq(@, k + 1, Len(q)),
                                   ![Cmp] = @ \o SubSeq(q, 1, n),
                                   ![DecHeap] = @ \o SubSeq(q, n + 1, k)]
       /\ UNCHANGED <<slUsed, slPushed>>

\* Moving nodes from one list to another until it is empty (or just one).
Drain(s, from, to) ==
    LET one(x) == IF Head_(x, from) = 0 THEN x ELSE Move(x, from, to)
        z[i \in 0 .. SlNodes] == IF i = 0 THEN s ELSE one(z[i - 1])
    IN z[SlNodes]
Emptied(w, from, to) == [w EXCEPT ![from] = <<>>, ![to] = @ \o w[from]]
Taken(w, from, to) == [w EXCEPT ![from] = Tail(@), ![to] = Append(@, Head(w[from]))]

\* tlb_pop: one data TLB error, all of them, or all instruction TLB errors.
tlb_pop(t, d, all) ==
    LET l == Tlb(d, t)
    IN /\ Head_(St, l) # 0
       /\ d = "itlb" => all
       /\ IF all THEN Put(Drain(St, l, DecHeap)) /\ slWant' = Emptied(slWant, l, DecHeap)
          ELSE Put(Move(St, l, DecHeap)) /\ slWant' = Taken(slWant, l, DecHeap)
       /\ UNCHANGED <<slUsed, slPushed>>

\* tlb_check: the error at the head is aged; it is due when it was seen WAIT_CYCLE times.
tlb_check(t, d) ==
    LET l == Tlb(d, t)
        n == Head_(St, l)
        old == [slWant[l][1] EXCEPT !.wait = @ + 1]
    IN /\ n # 0 /\ slWant[l][1].wait < 2
       /\ slMem' = [slMem EXCEPT ![n].item.wait = @ + 1]
       /\ slWant' = [slWant EXCEPT ![l][1] = old]
       /\ UNCHANGED <<slPtr, slPrev, slUsed, slPushed>>

\* reset of the decoder, thread by thread, and RESET_COMMAND of bw_list_call.
OfThread(t) == <<Tlb("dtlb", t), Tlb("itlb", t), Pending(t)>>
reset ==
    LET last == Cardinality(SlThreads)
        each(f, l) == Drain(Drain(Drain(f, l[1], DecHeap), l[2], DecHeap), l[3], DecHeap)
        all(w, l) == Emptied(Emptied(Emptied(w, l[1], DecHeap), l[2], DecHeap), l[3], DecHeap)
        z[k \in 0 .. last] == IF k = 0 THEN St ELSE each(z[k - 1], OfThread(k - 1))
        w[k \in 0 .. last] == IF k = 0 THEN slWant ELSE all(w[k - 1], OfThread(k - 1))
    IN /\ \E t \in SlThreads : \E i \in 1 .. 3 : Head_(St, OfThread(t)[i]) # 0
       /\ Put(z[last])
       /\ slWant' = w[last]
       /\ UNCHANGED <<slUsed, slPushed>>

\* The same on the free list, which remembers the tail before.
Recycle(s, from) ==
    LET one(x) == IF Head_(x, from) = 0 THEN x ELSE hpush(pop(x, from), Head_(x, from))
        z[i \in 0 .. SlNodes] == IF i = 0 THEN s ELSE one(z[i - 1])
    IN z[SlNodes]
ResetLists ==
    /\ Head_(St, Cmp) # 0 \/ Head_(St, Inst) # 0
    /\ Put(Recycle(Recycle(St, Cmp), Inst))
    /\ slWant' = Emptied(Emptied(slWant, Cmp, Free), Inst, Free)
    /\ UNCHANGED <<slUsed, slPushed>>

\* case 2 and case 21 of bw_list_call: take the head.
PopHead(l) == /\ Head_(St, l) # 0
              /\ Put(hpush(pop(St, l), Head_(St, l)))
              /\ slWant' = Taken(slWant, l, Free)
              /\ UNCHANGED <<slUsed, slPushed>>

\* case 7: the write just taken goes back; needs an older node in the free list.
PushBack ==
    LET n == slPtr[Free].tail
    IN /\ Len(slWant[Free]) >= 2
       /\ slPrev = Chain(St, Free)[Len(slWant[Free]) - 1]
       /\ Put(front(hfront(St), Cmp, n))
       /\ slWant' = [slWant EXCEPT ![Free] = Front(@), ![Cmp] = <<Item(St, n)>> \o @]
       /\ UNCHANGED <<slUsed, slPushed>>

(***************************************************************************)
(* Reordering the compare list.                                            *)
(***************************************************************************)
\* find_next: bring the first write of this kind, of the same thread, to the front.
\* All writes of the instance have one time; the search ends at another thread, or
\* at a second write that waits for an answer.
find_next(which) ==
    LET c == Chain(St, Cmp)
        it(i) == Item(St, c[i])
        open(i) == /\ \A j \in 2 .. i : it(j).thread = it(1).thread
                   /\ ~\E j \in 2 .. i : it(j).wait = 1 /\ \E k \in 1 .. j - 1 : it(k).wait = 1
        hit == {i \in 2 .. Len(c) : open(i) /\ it(i).which = which}
        i == CHOOSE x \in hit : \A y \in hit : x <= y
        cut == Link(St, c[i - 1], Next_(St, c[i]))
        tailed == IF slPtr[Cmp].tail = c[i] THEN [cut EXCEPT !.ptr[Cmp].tail = c[i - 1]] ELSE cut
    IN /\ Len(c) >= 2 /\ hit # {}
       /\ Put([Link(tailed, c[i], c[1]) EXCEPT !.ptr[Cmp].head = c[i]])
       /\ slWant' = [slWant EXCEPT ![Cmp] = <<@[i]>> \o RemoveAt(@, i)]
       /\ UNCHANGED <<slUsed, slPushed>>

\* shiftList is called for a head that is an interrupt write or one part of a
\* multi-step write, never for one that waits for an answer (bw_sas_recv_call).
Shiftable(it) == it.wait # 1 /\ (it.which \in {INTR_RECEIVE, HINTP} \/ it.wait \in 2 .. 4)

\* The head and a later write are the same write: the head is dropped.
Same(f, s) == \/ f.reg = s.reg /\ f.wait >= 2 /\ f.win = s.win
              \/ f.which = HINTP /\ s.which = HINTP
              \/ f.which = INTR_RECEIVE /\ s.which \in {INTR_RECEIVE, HINTP}

\* The nodes the search looks at: behind a write that waits for an answer, other
\* such writes are passed over.
Looked(c, i) == Item(St, c[i]).wait # 1 \/ ~\E j \in 3 .. i - 1 : Item(St, c[j]).wait = 1

\* shiftList: the head goes behind the next write of its thread, or is dropped as the
\* same write; with no other write of the thread it goes to the end, except a HINTP,
\* which is no longer in any list.
shiftList ==
    LET c == Chain(St, Cmp)
        f == Item(St, c[1])
        mine == {i \in 2 .. Len(c) : Looked(c, i) /\ Item(St, c[i]).thread = f.thread}
        i == IF mine = {} THEN Len(c) ELSE CHOOSE x \in mine : \A y \in mine : x <= y
        s == Item(St, c[i])
        again == mine # {} \/ (f.which = REG_WRITE_BACK /\ s.thread = f.thread)
        up == IF f.wait >= 2 /\ again THEN [f EXCEPT !.wait = @ + 1] ELSE f
        off == pop(St, Cmp)
        aged == [off EXCEPT !.mem[c[1]].item = up]
        want == slWant[Cmp]
    IN /\ Len(c) >= 2 /\ Shiftable(f)
       /\ \/ /\ Same(f, s)
             /\ Put(hpush(off, c[1]))
             /\ slWant' = Taken(slWant, Cmp, Free)
          \/ /\ ~Same(f, s) /\ (mine # {} \/ f.which # HINTP)
             /\ Put(Behind(aged, Cmp, c[i], c[1]))
             /\ slWant' = [slWant EXCEPT ![Cmp] = SubSeq(want, 2, i) \o <<up>> \o SubSeq(want, i + 1, Len(want))]
          \/ /\ ~Same(f, s) /\ mine = {} /\ f.which = HINTP
             /\ Put(off)
             /\ slWant' = [slWant EXCEPT ![Cmp] = Tail(@)]
       /\ UNCHANGED <<slUsed, slPushed>>

\* frontRegVal: the head goes behind the first write that waits for an answer, or to the end.
frontRegVal ==
    LET c == Chain(St, Cmp)
        w == {i \in 2 .. Len(c) : Item(St, c[i]).wait = 1 /\ Item(St, c[1]).wait # 1}
        i == IF w = {} THEN Len(c) ELSE CHOOSE x \in w : \A y \in w : x <= y
        want == slWant[Cmp]
    IN /\ Len(c) >= 2
       /\ Put(Behind(pop(St, Cmp), Cmp, c[i], c[1]))
       /\ slWant' = [slWant EXCEPT ![Cmp] = SubSeq(want, 2, i) \o <<want[1]>> \o SubSeq(want, i + 1, Len(want))]
       /\ UNCHANGED <<slUsed, slPushed>>

\* shiftright: a part of a multi-step write changes places with the next write.
shiftright ==
    LET c == Chain(St, Cmp)
        want == slWant[Cmp]
    IN /\ Len(c) >= 2 /\ Item(St, c[1]).wait >= 2
       /\ Put(Behind(pop(St, Cmp), Cmp, c[2], c[1]))
       /\ slWant' = [slWant EXCEPT ![Cmp] = <<want[2], want[1]>> \o SubSeq(want, 3, Len(want))]
       /\ UNCHANGED <<slUsed, slPushed>>

\* swap: the first two change places.
swap ==
    LET c == Chain(St, Cmp)
        tailed == IF slPtr[Cmp].tail = c[2] THEN [St EXCEPT !.ptr[Cmp].tail = c[1]] ELSE St
        want == slWant[Cmp]
    IN /\ Len(c) >= 2
       /\ Put([Link(Link(tailed, c[1], Next_(St, c[2])), c[2], c[1]) EXCEPT !.ptr[Cmp].head = c[2]])
       /\ slWant' = [slWant EXCEPT ![Cmp] = <<want[2], want[1]>> \o SubSeq(want, 3, Len(want))]
       /\ UNCHANGED <<slUsed, slPushed>>

SlNext ==
    \/ push_data \/ push_send \/ PushCmp \/ PushInst \/ tlb_error
    \/ \E t \in SlThreads : \/ dec_data(t)
                            \/ \E d \in {"dtlb", "itlb"} : tlb_check(t, d)
                                                          \/ \E all \in BOOLEAN : tlb_pop(t, d, all)
    \/ reset \/ ResetLists \/ PopHead(Cmp) \/ PopHead(Inst) \/ PushBack
    \/ \E w \in {x.which : x \in SlWrites} : find_next(w)
    \/ shiftList \/ frontRegVal \/ shiftright \/ swap

-----------------------------------------------------------------------------
\* Every list of pointers is the sequence of items it stands for, its tail pointer
\* is its last node, and no node is in two lists, whatever was popped, pushed,
\* dropped and reordered before (list.c, decoder.c).
ListsExact ==
    LET live == {l \in Lists : slPtr[l].head # 0}
        nodes(l) == Range(Chain(St, l))
    IN /\ \A l \in Lists \ live : slWant[l] = <<>>
       /\ \A l \in live : LET c == Chain(St, l)
                           IN /\ [i \in DOMAIN c |-> Item(St, c[i])] = slWant[l]
                              /\ slPtr[l].tail = Last(c)
                              /\ \A k \in live \ {l} : nodes(k) \cap nodes(l) = {}
=============================================================================
