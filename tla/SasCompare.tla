----------------------------- MODULE SasCompare -----------------------------
(***************************************************************************)
(* The co-simulation comparator of tools/pli/socket/bw_socket.c.  The RTL  *)
(* steps a reference simulator (Simics) over a socket.  For every step the *)
(* simulator answers with a "STEP:" line listing the registers the         *)
(* instruction CHANGED; a register the RTL wrote without changing it, or   *)
(* one it is not sure of, is asked for with a read command and answered    *)
(* with a "regval" line.  The RTL queues its register writes in a list and *)
(* the monitor (task rdAndcmp of sas_tasks.v) calls $bw_sas_recv for the   *)
(* head of the list until the comparator hands it the value to compare.    *)
(*                                                                         *)
(* The comparator keeps, per thread, the registers of the step being       *)
(* compared (context), of the next one (context_sec), and what was answered*)
(* by a read (extra_reg), because the same write may be reported by both.  *)
(* Registers keep their numbers: 1..7 global, 8..15 out, 16..23 local,     *)
(* 24..31 in, from 32 special; an in register of window w is the out       *)
(* register of window w-1.  Floating point registers are numbered apart.   *)
(***************************************************************************)
EXTENDS Integers, Sequences, FiniteSets, SequencesExt, TLC

CONSTANTS
    Threads,      \* hardware threads (32 in the code)
    Regs,         \* the integer and special registers of the instance
    Floats,       \* the 32 bit floating point registers of the instance
    Windows,      \* register windows (0..7 in the code)
    ScPrograms    \* the instruction streams, one per thread

\* The numbers the comparator treats apart (bw_socket.c).
CCR == 35
FPRS == 36
TPC == 52
TNPC == 62
CWP == 89
HPSTATE == 108
WRITE_REG == 152
FLOAT_I == 153
FLOAT_X == 154

\* Registers a STEP line may list and what_trigger does not keep.
Ignored == {CCR, FPRS, 39, 88, 106, 120, 122, 130} \cup 143 .. 149

VARIABLES
    scProg,     \* the chosen instruction streams
    scStep,     \* next instruction to step, per thread
    scWrite,    \* next instruction to write back in the RTL, per thread
    scRtl,      \* register values of the RTL, per thread
    scSim,      \* register values of the reference simulator, per thread
    scCmds,     \* commands sent, not yet executed by the simulator
    scNet,      \* lines of the simulator on the socket
    scSock,     \* the comparator: see Sock0
    scList,     \* the list of RTL writes to compare
    scAlarm     \* what the monitor reported
scVars == <<scProg, scStep, scWrite, scRtl, scSim, scCmds, scNet, scSock, scList, scAlarm>>

(***************************************************************************)
(* State of a thread (struct committed, list.h) and of the socket.         *)
(***************************************************************************)
Committed == [vld |-> {}, val |-> [r \in Regs |-> 0], win |-> [r \in Regs \cup Floats |-> 0],
              local_vld |-> {}, local_val |-> [r \in Regs |-> 0], local_win |-> [r \in Regs |-> 0],
              third_vld |-> {}, third_val |-> [r \in Regs |-> 0],
              fvld |-> {}, fp |-> [f \in Floats |-> 0],
              num |-> 0, more |-> 0, win_switch |-> FALSE]

\* One thread of the comparator: the two steps, the answers, what was cleaned.
Thread0 == [ctx |-> Committed, sec |-> Committed, ext |-> Committed, back |-> {},
            flag |-> FALSE, find_loop |-> 0,
            cwp |-> <<>>, flt |-> <<>>]

\* bw_socket_init_call: data lines read, lines kept for other threads, answers kept.
Sock0 == [data |-> <<>>, str_active |-> <<>>, regval_list |-> <<>>, th |-> [t \in Threads |-> Thread0]]

Next8(w) == IF w = 7 THEN 0 ELSE w + 1
Prev8(w) == IF w = 0 THEN 7 ELSE w - 1
IsOut(r) == r \in 8 .. 15
IsLocal(r) == r \in 16 .. 23
IsIn(r) == r \in 24 .. 31

\* Mutant: the ins are those of the same window.
AsIn_same(r, w) == <<r + 16, w>>
\* The other name of an in register, and of an out (or global) register.
AsOut(r, w) == <<r - 16, Prev8(w)>>
AsIn(r, w) == <<r + 16, Next8(w)>>

\* mask_for_spc: the bits of a special register both sides implement.
mask_for_spc(r, v) == IF r = HPSTATE THEN v % 2 ELSE v

Held(c, r, w) == r \in c.vld /\ c.win[r] = w
Drop(c, r) == [c EXCEPT !.vld = @ \ {r}, !.num = @ - 1]
DropF(c, f) == [c EXCEPT !.fvld = @ \ {f}, !.num = @ - 1]
Forget(e, r) == [e EXCEPT !.vld = @ \ {r}]
ForgetF(e, f) == [e EXCEPT !.fvld = @ \ {f}]
Save(e, r, w, v) == [e EXCEPT !.vld = @ \cup {r}, !.val[r] = v, !.win[r] = w]
SaveF(e, f, v) == [e EXCEPT !.fvld = @ \cup {f}, !.fp[f] = v]
Full(th) == th.ctx.num # 0 /\ th.sec.num # 0
Least(S) == CHOOSE x \in S : \A y \in S : x <= y

(***************************************************************************)
(* A STEP line (what_trigger).                                             *)
(***************************************************************************)
\* moveContent: the second step becomes the first; its old leftovers stay.
moveContent(th) ==
    LET f == th.ctx
        s == th.sec
        reg(a, b, V) == [r \in DOMAIN a |-> IF r \in V THEN b[r] ELSE a[r]]
        c == [f EXCEPT !.vld = @ \cup s.vld, !.val = reg(@, s.val, s.vld),
                       !.win = reg(@, s.win, s.vld \cup s.fvld),
                       !.local_vld = @ \cup s.local_vld, !.local_val = reg(@, s.local_val, s.local_vld),
                       !.local_win = reg(@, s.local_win, s.local_vld),
                       !.third_vld = s.third_vld, !.third_val = s.third_val,
                       !.fvld = @ \cup s.fvld, !.fp = reg(@, s.fp, s.fvld),
                       !.num = s.num, !.win_switch = s.win_switch]
    IN [th EXCEPT !.ctx = c, !.back = {},
                  !.sec = [s EXCEPT !.vld = {}, !.local_vld = {}, !.third_vld = {}, !.fvld = {}, !.num = 0]]

\* A later W entry of a line renames an out register written before in an older window.
Rename(c, r, w) ==
    IF IsOut(r) /\ r \in c.vld /\ w > c.win[r] /\ r + 16 \in Regs
    THEN [c EXCEPT !.third_vld = IF r + 16 \in c.vld THEN @ \cup {r} ELSE @,
                   !.third_val = IF r + 16 \in c.vld THEN [@ EXCEPT ![r] = c.val[r + 16]] ELSE @,
                   !.vld = (@ \ {r}) \cup {r + 16},
                   !.win[r + 16] = Next8(c.win[r]), !.val[r + 16] = c.val[r]]
    ELSE c

\* Entering a general or special register of the line in a step.
Enter(c, r, w, v) ==
    LET twice == r \in c.vld /\ IsOut(r) /\ w > c.win[r] /\ w - c.win[r] # 1
                 /\ r + 16 \in Regs /\ r + 16 \notin c.vld
        d == IF twice THEN Save(c, r + 16, w + 1, v)
             ELSE IF r \in c.vld /\ IsLocal(r)
             THEN [c EXCEPT !.local_vld = @ \cup {r}, !.local_val[r] = v, !.local_win[r] = w]
             ELSE Save(c, r, w, v)
    IN [d EXCEPT !.num = @ + 1, !.win_switch = @ \/ r = CWP]

\* Entering a floating point register: an answered read of the same value cancels it.
EnterF(th, first, f, w, v) ==
    IF first /\ f \in th.ext.fvld /\ th.ext.fp[f] = v
    THEN [th EXCEPT !.ext = ForgetF(@, f), !.back = @ \cup {f}]
    ELSE LET put(c) == [SaveF(c, f, v) EXCEPT !.win[f] = w, !.num = @ + 1]
         IN IF first THEN [th EXCEPT !.ctx = put(@), !.back = @ \ {f}] ELSE [th EXCEPT !.sec = put(@)]

\* One entry of the line; acc.win is the window of the last entry that named one.
Entry(acc, e, first) ==
    LET th == acc.th
        w == IF e.k \in {"G", "W"} THEN e.w ELSE acc.win
        upd(o, Op(_)) == IF first THEN [o EXCEPT !.ctx = Op(@)] ELSE [o EXCEPT !.sec = Op(@)]
        ren == IF e.k = "W" /\ th.ctx.more # 0
               THEN upd(th, LAMBDA c : Rename(c, e.r, w)) ELSE th
        one == IF e.k = "W" THEN [ren EXCEPT !.ctx.more = 1] ELSE ren
    IN [win |-> w,
        th  |-> IF e.k = "F" THEN EnterF(one, first, e.r, w, e.v)
                ELSE IF e.r \in Ignored THEN one
                ELSE upd(one, LAMBDA c : Enter(c, e.r, w, e.v))]

\* The line goes to the first step if that one is empty, else to the second; a
\* third step while two are waiting is a missed trigger (flag).
what_trigger(th, ents, w0) ==
    LET none == th.ctx.num = 0 /\ th.sec.num = 0
        moved == IF Full(th) \/ (th.ctx.num = 0 /\ th.sec.num # 0) THEN moveContent(th) ELSE th
        clr == IF none THEN [moved EXCEPT !.ctx.more = 0, !.ctx.win_switch = FALSE]
               ELSE [moved EXCEPT !.ctx.more = 0, !.sec.win_switch = FALSE]
    IN IF Full(th) THEN [moved EXCEPT !.flag = TRUE]
       ELSE FoldLeft(LAMBDA acc, e : Entry(acc, e, none), [win |-> w0, th |-> clr], ents).th

(***************************************************************************)
(* The answer of a read (process_request, cleanup).  a.v is the value; a    *)
(* floating point answer is a pair <<upper, lower>> when it is 64 bits wide.*)
(***************************************************************************)
\* cleanup on the second step: its entry goes only if it has the value read.
CleanSec(th, r, w, which, v) ==
    LET s == th.sec
        in == AsOut(r, w)
        out == AsIn(r, w)
        gone(x) == IF v = x[3] THEN [th EXCEPT !.sec = Drop(@, x[1])] ELSE th
    IN IF s.num = 0 THEN th
       ELSE IF \/ Held(s, r, w) /\ r \in 1 .. 31 /\ which = WRITE_REG
               \/ r \in s.vld /\ (r < 8 \/ r > 31) /\ which < FLOAT_I
       THEN gone(<<r, w, mask_for_spc(r, s.val[r])>>)
       ELSE IF which = WRITE_REG /\ IsIn(r)
       THEN IF Held(s, in[1], in[2]) THEN gone(<<in[1], in[2], s.val[in[1]]>>) ELSE th
       ELSE IF which = WRITE_REG /\ IsOut(r) /\ out[1] \in s.vld /\ out[2] = th.ctx.win[out[1]]
       THEN gone(<<out[1], out[2], s.val[out[1]]>>) ELSE th

\* cleanup: the step already lists the register that was read, so its entry is not needed.
cleanup(th, r, w, which, v) ==
    LET c == th.ctx
        in == AsOut(r, w)
        out == AsIn(r, w)
    IN IF which \in {32, 33} THEN th
       ELSE IF \/ Held(c, r, w) /\ r \in 1 .. 31 /\ which = WRITE_REG
               \/ r \in c.vld /\ (r < 8 \/ r > 31) /\ which < FLOAT_I
       THEN IF \/ r = HPSTATE /\ mask_for_spc(r, v) # mask_for_spc(r, c.val[r])
               \/ which = WRITE_REG /\ c.val[r] # th.ext.val[r]
            THEN th ELSE [th EXCEPT !.ctx = Drop(@, r)]
       ELSE IF which = WRITE_REG /\ IsIn(r) /\ Held(c, in[1], in[2])
       THEN [th EXCEPT !.ctx = Drop(@, in[1])]
       ELSE IF which = WRITE_REG /\ r < 16 /\ Held(c, out[1], out[2])
       THEN [th EXCEPT !.ctx = Drop(@, out[1])]
       ELSE CleanSec(th, r, w, which, IF which = WRITE_REG THEN v ELSE mask_for_spc(r, v))

\* process_request, floating point: each half cancels its entry or is saved.
Wide(v) == Len(v) = 2
Upper(v) == v[1]
Lower(v) == v[Len(v)]
RequestF(th, f, which, v) ==
    LET even == f % 2 = 0
        odd == IF even THEN f + 1 ELSE f
        up == IF Wide(v) THEN Upper(v) ELSE Lower(v)
        sav == IF Wide(v) /\ even THEN Upper(v) ELSE Lower(v)
        first == f \in th.ctx.fvld /\ th.ctx.fp[f] = up
        second == ~first /\ f \in th.sec.fvld /\ even /\ th.sec.fp[f] = up
        a == IF first THEN [th EXCEPT !.ctx = DropF(@, f), !.ext = ForgetF(@, f), !.flt = <<f, up>>]
             ELSE IF second THEN [th EXCEPT !.sec = DropF(@, f), !.ext = ForgetF(@, f), !.flt = <<f, up>>]
             ELSE IF which # FLOAT_X \/ even THEN [th EXCEPT !.ext = SaveF(@, f, sav)]
             ELSE th
    IN IF odd \notin Floats THEN a
       ELSE IF odd \in a.ctx.fvld /\ ~second /\ a.ctx.fp[odd] = Lower(v)
       THEN [a EXCEPT !.ctx = DropF(@, odd), !.ext = ForgetF(@, odd), !.flt = <<f, Lower(v)>>]
       ELSE IF odd \in a.sec.fvld /\ a.sec.fp[odd] = Lower(v) /\ even /\ which = FLOAT_X
       THEN [a EXCEPT !.sec = DropF(@, odd), !.ext = ForgetF(@, odd), !.flt = <<odd, Lower(v)>>]
       ELSE IF which = FLOAT_X THEN [a EXCEPT !.ext = SaveF(@, odd, Lower(v))] ELSE a

process_request(th, r, w, which, v) ==
    IF which > WRITE_REG THEN RequestF(th, r, which, v)
    ELSE IF which = WRITE_REG
    THEN LET kept == cleanup([th EXCEPT !.ext = Save(@, r, w, v)], r, w, which, v)
         IN [kept EXCEPT !.ext = Save(@, r, w, v)]
    ELSE [cleanup(th, r, w, which, v) EXCEPT !.ext = Save(@, r, w, mask_for_spc(r, v))]

(***************************************************************************)
(* Reading the socket (which_data): lines of other threads and answers     *)
(* nobody waits for yet are put aside, until the line that is wanted.       *)
(* result.ret is 1 when the wanted line was found, result.v its value.      *)
(***************************************************************************)
HasLine(s, t) == \E i \in 1 .. Len(s.str_active) : s.str_active[i].t = t

data_in_list(s, t, w0) ==
    LET i == Least({j \in 1 .. Len(s.str_active) : s.str_active[j].t = t})
    IN [s EXCEPT !.th[t] = what_trigger(@, s.str_active[i].ents, w0), !.str_active = RemoveAt(@, i)]

\* thread_match: the line is for the waiting thread, and it has room for it.
thread_match(s, l, t) == l.t = t /\ ~Full(s.th[t])

which_data(s, t, wantStep, w0) ==
    LET wanted(l) == IF l.k = "step" THEN thread_match(s, l, t) ELSE ~wantStep
        at == {i \in 1 .. Len(s.data) : wanted(s.data[i])}
        n == IF at = {} THEN Len(s.data) ELSE Least(at) - 1
        skipped == SubSeq(s.data, 1, n)
        aside == [s EXCEPT
                    !.str_active = @ \o SelectSeq(skipped, LAMBDA l : l.k = "step"),
                    !.regval_list = @ \o SelectSeq(skipped, LAMBDA l : l.k = "regval"),
                    !.data = SubSeq(s.data, n + 1 + (IF at = {} THEN 0 ELSE 1), Len(s.data))]
    IN IF ~wantStep /\ s.regval_list # <<>>
       THEN [s |-> [s EXCEPT !.regval_list = Tail(@)], ret |-> 1, v |-> Head(s.regval_list).v]
       ELSE IF HasLine(s, t) /\ ~Full(s.th[t])
       THEN [s |-> data_in_list(s, t, w0), ret |-> 0, v |-> <<>>]
       ELSE IF at = {} THEN [s |-> aside, ret |-> 0, v |-> <<>>]
       ELSE LET l == s.data[n + 1]
            IN IF l.k = "regval" THEN [s |-> aside, ret |-> 1, v |-> l.v]
               ELSE [s |-> [aside EXCEPT !.th[t] = what_trigger(@, l.ents, w0)], ret |-> 0, v |-> <<>>]

\* request_value: the register is not in the step, its answer is awaited.
request_value(s, n, w0) ==
    LET g == which_data(s, n.t, FALSE, w0)
    IN IF g.ret = 0 THEN g
       ELSE [g EXCEPT !.s.th[n.t] = process_request(@, n.r, n.w, n.which, g.v)]

(***************************************************************************)
(* Leftovers: an answered read and an entry of the step that are the same   *)
(* write.  Each removes the entry and lets the monitor try again (0).       *)
(***************************************************************************)
\* is_it_leftover: a general register, by the name of the read or by its other name.
is_it_leftover(th, r, w) ==
    LET c == th.ctx
        e == th.ext
        other == IF r < 16 THEN AsIn(r, w) ELSE AsOut(r, w)
        cut(x, ww) == [th EXCEPT !.ctx = Drop(@, x), !.ext = Forget(@, r), !.cwp = <<x, ww, c.val[x]>>]
    IN IF w # e.win[r] \/ r \notin e.vld THEN th
       ELSE IF Held(c, r, w) /\ r \in 1 .. 31 /\ (IsLocal(r) \/ ~c.win_switch) /\ e.val[r] = c.val[r]
       THEN cut(r, w)
       ELSE IF (r < 16 \/ IsIn(r)) /\ Held(c, other[1], other[2]) /\ e.val[r] = c.val[other[1]]
       THEN cut(other[1], other[2])
       ELSE th

\* is_it_leftover_spc: a special register.
is_it_leftover_spc(th, r) ==
    IF /\ r \notin 109 .. 118 /\ r > 33 /\ r < WRITE_REG
       /\ r \in th.ctx.vld /\ r \in th.ext.vld
       /\ th.ext.val[r] = mask_for_spc(r, th.ctx.val[r])
    THEN [th EXCEPT !.ctx = Drop(@, r), !.ext = Forget(@, r)] ELSE th

\* find_wrong: any general register whose last answer, used or not, has the entry's value.
find_wrong(th) ==
    LET S == {r \in th.ctx.vld : r \in 1 .. 31 /\ th.ext.win[r] = th.ctx.win[r] /\ th.ext.val[r] = th.ctx.val[r]}
    IN IF S = {} THEN th
       ELSE [th EXCEPT !.ctx = Drop(@, Least(S)), !.ext = Forget(@, Least(S))]

\* is_it_leftspc
is_it_leftspc(th, r) ==
    IF r \in th.ext.vld /\ th.ext.val[r] = mask_for_spc(r, th.ctx.val[r])
    THEN [th EXCEPT !.ctx = Drop(@, r), !.ext = Forget(@, r)] ELSE th

\* check_float
check_float(th) ==
    LET S == {f \in th.ext.fvld \cap th.ctx.fvld : th.ext.fp[f] = th.ctx.fp[f]}
    IN IF S = {} THEN th
       ELSE [th EXCEPT !.ctx = DropF(@, Least(S)), !.ext = ForgetF(@, Least(S))]

\* clean_reg: the entry of any answered register, under either name; an entry under
\* the register's own name is compared with the value of the register asked for.
clean_reg(th, r0) ==
    LET c == th.ctx
        e == th.ext
        cval == IF r0 \in Regs THEN mask_for_spc(r0, c.val[r0]) ELSE 0
        name(r) == IF Held(c, r, e.win[r]) /\ e.val[r] = cval THEN r
                   ELSE LET o == IF IsIn(r) THEN AsOut(r, e.win[r]) ELSE AsIn(r, e.win[r])
                        IN IF (IsIn(r) \/ r < 16) /\ Held(c, o[1], o[2]) /\ e.val[r] = c.val[o[1]]
                           THEN o[1] ELSE 0
        S == {r \in e.vld : r \in 1 .. 31 /\ name(r) # 0}
    IN IF S = {} THEN th
       ELSE [th EXCEPT !.ctx = Drop(@, name(Least(S))), !.ext = Forget(@, Least(S))]

\* clean_spc
clean_spc(th) ==
    LET S == {r \in th.ext.vld \cap th.ctx.vld : r >= 32 /\ th.ext.val[r] = th.ctx.val[r]}
    IN IF S = {} THEN th
       ELSE [th EXCEPT !.ctx = Drop(@, Least(S)), !.ext = Forget(@, Least(S))]

(***************************************************************************)
(* check_wrong: the step has entries, none is the register asked for.       *)
(* ret 0 try again, 1 a value, 3 wrong trigger, 9 look for register next.   *)
(***************************************************************************)
Again(th) == [th |-> th, ret |-> 0, v |-> 0, next |-> 0]
Value(th, v) == [th |-> th, ret |-> 1, v |-> v, next |-> 0]

\* The entries given up before the wrong trigger is reported: trap program
\* counters, second local values, special registers whose value is 1 (the
\* code compares it with the valid flag) and special registers that are zero
\* (drop_val before any drop).
Spare(c) ==
    LET a == [c EXCEPT !.vld = @ \ {TPC, TNPC}, !.num = @ - Cardinality(c.vld \cap {TPC, TNPC})]
    IN [a EXCEPT !.num = @ - Cardinality(a.local_vld), !.local_vld = {}]

LastResort(th, r) ==
    LET a == Spare(th.ctx)
        ext == IF a.local_vld = th.ctx.local_vld THEN th.ext
               ELSE [th.ext EXCEPT !.val = [x \in Regs |-> IF x \in th.ctx.local_vld
                                                           THEN th.ctx.local_val[x] ELSE @[x]]]
        ones == {x \in a.vld : x >= 32 /\ x \in th.ext.vld /\ a.val[x] = 1}
        b == [a EXCEPT !.vld = @ \ ones, !.num = @ - Cardinality(ones)]
        zeros == {x \in b.vld : x >= 32 /\ b.val[x] = 0}
        d == [b EXCEPT !.vld = @ \ zeros, !.num = @ - Cardinality(zeros)]
        with(c) == [th EXCEPT !.ctx = c, !.ext = ext]
        third(x) == Value(with([d EXCEPT !.third_vld = @ \ {x}, !.num = @ - 1]), d.third_val[x])
    IN IF a.num = 0 THEN Again(with(a))
       ELSE IF b.num = 0 THEN Again(with(b))
       ELSE IF b.vld \ {0} = {} THEN Again(with([b EXCEPT !.num = 0]))
       ELSE IF d.num = 0 THEN Again(with(d))
       ELSE IF r \in d.third_vld THEN third(r)
       ELSE IF r + 16 \in d.third_vld THEN third(r + 16)
       ELSE [th |-> with(d), ret |-> 3, v |-> 0, next |-> 0]

check_wrong(th, r, w, which) ==
    LET cand == {x \in th.ctx.vld : x >= 32 /\ x < WRITE_REG}
        len == Least(cand)
        fw == find_wrong(th)
        cf == check_float(th)
        cr == clean_reg(th, r)
        cs == clean_spc(cr)
        seen(x, ww) == th.cwp # <<>> /\ th.cwp[1] = x /\ th.cwp[2] = ww
    IN IF fw # th THEN Again(fw)
       ELSE IF cand # {} /\ th.find_loop # len
       THEN IF is_it_leftspc(th, len) # th THEN Again(is_it_leftspc(th, len))
            ELSE [th |-> [th EXCEPT !.find_loop = len], ret |-> 9, v |-> 0, next |-> len]
       ELSE IF cf # th THEN Again(cf)
       ELSE IF which < FLOAT_I /\ cr # th THEN Again(cr)
       ELSE IF which < FLOAT_I /\ cs # th THEN Again(cs)
       ELSE LET now == IF cr # th THEN cr ELSE cs
            IN IF which = WRITE_REG
                  /\ \/ seen(r, w)
                     \/ IsOut(r) /\ seen(r + 16, (w + 1) % 8)
                     \/ r \in 24 .. 30 /\ seen(r - 16, Prev8(w))
               THEN Value([now EXCEPT !.cwp = <<>>], th.cwp[3])
               ELSE IF which >= FLOAT_I /\ th.flt # <<>> /\ th.flt[1] = r
               THEN Value([now EXCEPT !.flt = <<>>],
                          IF which = FLOAT_X THEN <<th.flt[2], th.flt[2]>> ELSE <<th.flt[2]>>)
               ELSE LastResort(now, r)

(***************************************************************************)
(* $bw_sas_recv for the head of the list (bw_sas_recv_call).                *)
(***************************************************************************)
\* The step holds the register under the name the RTL uses.
InStep(c, n) == \/ Held(c, n.r, n.w) /\ n.r \in 8 .. 31 /\ n.which = WRITE_REG
                \/ n.r \in c.vld /\ ((n.r < 8 /\ n.w = c.win[n.r]) \/ n.r > 31) /\ n.which < FLOAT_I

\* The value is handed over; the answers about the register, under both names, are void.
Slam(th, n, r, found) ==
    LET both == {n.r, r} \cup (IF n.which = WRITE_REG /\ IsIn(n.r) THEN {n.r - 16} ELSE {})
                         \cup (IF n.which = WRITE_REG /\ IsOut(n.r) THEN {n.r + 16} ELSE {})
    IN Value([th EXCEPT !.ctx = Drop(@, r), !.ext.vld = @ \ both, !.find_loop = IF found THEN 0 ELSE @], th.ctx.val[r])

\* A second value of a local register in the same step.
SlamLocal(th, n) ==
    LET c == [th.ctx EXCEPT !.local_vld = @ \ {n.r}, !.num = @ - 1]
        same == n.r \in c.vld /\ c.val[n.r] = c.local_val[n.r]
        d == IF same THEN [c EXCEPT !.vld = @ \ {n.r}, !.num = IF @ # 0 THEN @ - 1 ELSE @] ELSE c
    IN Value([th EXCEPT !.ctx = d, !.ext.val[n.r] = c.val[n.r]], c.local_val[n.r])

SlamFloat(th, n) ==
    IF n.which = FLOAT_X
    THEN Value([th EXCEPT !.ctx = [@ EXCEPT !.fvld = @ \ {n.r, n.r + 1}, !.num = @ - 2],
                          !.ext.fvld = @ \ {n.r, n.r + 1}],
               <<th.ctx.fp[n.r], th.ctx.fp[n.r + 1]>>)
    ELSE Value([th EXCEPT !.ctx = DropF(@, n.r), !.ext = ForgetF(@, n.r)], <<th.ctx.fp[n.r]>>)

\* The three ways a step answers a register by its own name.
Answers(c, n) == \/ InStep(c, n)
                 \/ n.which = WRITE_REG /\ n.r \in c.local_vld /\ c.local_win[n.r] = n.w
                 \/ n.which > WRITE_REG /\ n.r \in c.fvld
Answer(th, n, found) == IF InStep(th.ctx, n) THEN Slam(th, n, n.r, found)
                 ELSE IF n.which = WRITE_REG THEN SlamLocal(th, n) ELSE SlamFloat(th, n)

\* The step has entries.
Compare(th, n) ==
    LET in == AsOut(n.r, n.w)
        out == AsIn(n.r, n.w)
    IN IF Answers(th.ctx, n) THEN Answer(th, n, TRUE)
       ELSE IF n.which = WRITE_REG /\ IsIn(n.r) /\ Held(th.ctx, in[1], in[2]) THEN Slam(th, n, in[1], FALSE)
       ELSE IF n.which = WRITE_REG /\ IsOut(n.r) /\ Held(th.ctx, out[1], out[2]) THEN Slam(th, n, out[1], FALSE)
       ELSE IF n.which = WRITE_REG /\ IsOut(n.r) THEN check_wrong(th, out[1], out[2], n.which)
       ELSE check_wrong(th, n.r, n.w, n.which)

\* The step has no entries: read the socket for the next one.
Fetch(s, n, w0) ==
    LET t == n.t
        g == which_data(s, t, TRUE, w0).s
        th == IF g.th[t].ctx.num = 0 /\ g.th[t].sec.num # 0 THEN moveContent(g.th[t]) ELSE g.th[t]
        o == IF Answers(th.ctx, n) THEN Answer(th, n, t = 0 /\ n.which = WRITE_REG) ELSE Again(th)
    IN [s |-> [g EXCEPT !.th[t] = o.th], ret |-> o.ret, v |-> o.v, next |-> 0]

recv(s, n, w0) ==
    LET t == n.t
        th == s.th[t]
        left == IF n.which = WRITE_REG /\ is_it_leftover(th, n.r, n.w) # th
                THEN is_it_leftover(th, n.r, n.w) ELSE is_it_leftover_spc(th, n.r)
        put(o) == [s |-> [s EXCEPT !.th[t] = o.th], ret |-> o.ret, v |-> o.v, next |-> o.next]
    IN IF s.th[t].flag THEN [s |-> s, ret |-> 2, v |-> 0, next |-> 0]
       ELSE IF n.wait = 1
       THEN LET g == request_value(s, n, w0)
            IN [s |-> g.s, ret |-> g.ret, v |-> g.v, next |-> 0]
       ELSE IF left # th THEN put(Again(left))
       ELSE IF th.ctx.num # 0 THEN put(Compare(th, n))
       ELSE Fetch(s, n, w0)
(***************************************************************************)
(* The two machines and the monitor.  A write of an instruction names the   *)
(* register as the RTL does (r, w) and as the simulator does (k, sr, sw),   *)
(* and has the value of each; they differ only in a faulty RTL.             *)
(***************************************************************************)
\* The physical register behind a name.
Key(which, r, w) == IF which > WRITE_REG THEN <<-1, r>>
                    ELSE IF IsIn(r) THEN <<r - 16, Prev8(w)>>
                    ELSE IF r > 31 THEN <<r, 0>> ELSE <<r, w>>
Keys == {Key(WRITE_REG, r, w) : r \in Regs, w \in 0 .. 7} \cup {Key(FLOAT_I, f, 0) : f \in Floats}

\* The 32 bit or whole registers a write sets, with their values.
Sets(x, v) == IF x.which = FLOAT_X THEN (Key(FLOAT_I, x.r, 0) :> v[1]) @@ (Key(FLOAT_I, x.r + 1, 0) :> v[2])
              ELSE IF x.which = FLOAT_I THEN Key(FLOAT_I, x.r, 0) :> v[1]
              ELSE Key(x.which, x.r, x.w) :> v
Write(rf, x, v) == Sets(x, v) @@ rf

ScInit ==
    /\ scProg \in ScPrograms
    /\ scStep = [t \in Threads |-> 1] /\ scWrite = [t \in Threads |-> 1]
    /\ scRtl = [t \in Threads |-> [k \in Keys |-> 0]] /\ scSim = scRtl
    /\ scCmds = <<>> /\ scNet = <<>> /\ scSock = Sock0 /\ scList = <<>> /\ scAlarm = "none"

\* The RTL finishes an instruction and sends the step; the writes of an instruction
\* are queued before the step of the next one is sent.
SendStep(t) ==
    /\ scStep[t] <= Len(scProg[t]) /\ scStep[t] = scWrite[t]
    /\ scCmds' = Append(scCmds, [k |-> "step", t |-> t, i |-> scStep[t], which |-> 0, r |-> 0, w |-> 0])
    /\ scStep' = [scStep EXCEPT ![t] = @ + 1]
    /\ UNCHANGED <<scProg, scWrite, scRtl, scSim, scNet, scSock, scList, scAlarm>>

\* The RTL writes the registers of an instruction: each is queued; one that did not
\* change, or is forced, is asked for (task push, updated_reg_list of sas_task.v).
WriteBack(t) ==
    LET i == scWrite[t]
        X == scProg[t][i]
        same(x) == \E k \in DOMAIN Sets(x, x.v) : scRtl[t][k] = Sets(x, x.v)[k]
        asked(x) == x.force \/ same(x) \/ x.which \in {CCR, FPRS}
        node(x) == [t |-> t, which |-> x.which, r |-> x.r, w |-> x.w, v |-> x.v, i |-> i,
                    wait |-> IF asked(x) THEN 1 ELSE 0]
        reads == SelectSeq(X, asked)
    IN /\ i < scStep[t]
       /\ scList' = scList \o [j \in 1 .. Len(X) |-> node(X[j])]
       /\ scCmds' = scCmds \o [j \in 1 .. Len(reads) |->
                      [k |-> "read", t |-> t, i |-> i, which |-> reads[j].which, r |-> reads[j].r, w |-> reads[j].w]]
       /\ scRtl' = [scRtl EXCEPT ![t] = FoldLeft(LAMBDA rf, x : Write(rf, x, x.v), @, X)]
       /\ scWrite' = [scWrite EXCEPT ![t] = i + 1]
       /\ UNCHANGED <<scProg, scStep, scSim, scNet, scSock, scAlarm>>

\* The simulator steps an instruction and lists what changed.
Entries(x) ==
    IF x.which = FLOAT_X
    THEN [j \in 1 .. 2 |-> [k |-> "F", r |-> x.r + j - 1, w |-> 0, v |-> x.sv[j], key |-> Key(FLOAT_I, x.r + j - 1, 0)]]
    ELSE <<[k |-> x.k, r |-> x.sr, w |-> x.sw, v |-> IF x.which = FLOAT_I THEN x.sv[1] ELSE x.sv,
            key |-> Key(x.which, x.r, x.w)]>>
SimStep ==
    LET c == Head(scCmds)
        X == scProg[c.t][c.i]
        all == FoldLeft(LAMBDA s, x : s \o Entries(x), <<>>, X)
        changed == SelectSeq(all, LAMBDA e : scSim[c.t][e.key] # e.v)
    IN /\ scCmds # <<>> /\ c.k = "step"
       /\ scNet' = Append(scNet, [k |-> "step", t |-> c.t, ents |-> changed, v |-> 0])
       /\ scSim' = [scSim EXCEPT ![c.t] = FoldLeft(LAMBDA rf, x : Write(rf, x, x.sv), @, X)]
       /\ scCmds' = Tail(scCmds)
       /\ UNCHANGED <<scProg, scStep, scWrite, scRtl, scSock, scList, scAlarm>>

\* The simulator answers a read with the value the register has now.
SimRead ==
    LET c == Head(scCmds)
        f(j) == scSim[c.t][Key(FLOAT_I, c.r + j, 0)]
        v == IF c.which = FLOAT_X THEN <<f(0), f(1)>> ELSE IF c.which = FLOAT_I THEN <<f(0)>>
             ELSE scSim[c.t][Key(c.which, c.r, c.w)]
    IN /\ scCmds # <<>> /\ c.k = "read"
       /\ scNet' = Append(scNet, [k |-> "regval", t |-> c.t, ents |-> <<>>, v |-> v])
       /\ scCmds' = Tail(scCmds)
       /\ UNCHANGED <<scProg, scStep, scWrite, scRtl, scSim, scSock, scList, scAlarm>>

\* read_socket_nfd: a whole line has arrived.
Arrive == /\ scNet # <<>>
          /\ scSock' = [scSock EXCEPT !.data = Append(@, Head(scNet))]
          /\ scNet' = Tail(scNet)
          /\ UNCHANGED <<scProg, scStep, scWrite, scRtl, scSim, scCmds, scList, scAlarm>>

\* find_next of list.c: bring the write of register len of the same cycle to the front.
NextWrite(l, len) ==
    LET h == Head(l)
        run == {j \in 2 .. Len(l) : \A i \in 2 .. j : l[i].t = h.t /\ l[i].i = h.i}
        hit == {j \in run : l[j].which = len}
        stop == {j \in run : l[j].wait = 1 /\ \E i \in 1 .. j - 1 : l[i].wait = 1}
        first == IF hit = {} THEN Len(l) + 1 ELSE Least(hit)
        halt == IF stop = {} THEN Len(l) + 1 ELSE Least(stop)
    IN IF halt < first \/ (halt = first /\ hit # {}) THEN [l |-> l, miss |-> FALSE]
       ELSE IF hit = {} THEN [l |-> l, miss |-> TRUE]
       ELSE [l |-> <<l[first]>> \o RemoveAt(l, first), miss |-> FALSE]

\* The monitor asks for the head of the list and acts on the answer (rdAndcmp).
RdAndCmp(w0) ==
    /\ scList # <<>> /\ scAlarm = "none"
    /\ LET n == Head(scList)
           bits(v) == IF n.which < FLOAT_I THEN mask_for_spc(n.r, v) ELSE v
       IN \E o \in {recv(scSock, n, w0)} : \E f \in {NextWrite(scList, o.next)} :
          /\ scSock' = o.s
          /\ scList' = IF o.ret \in {1, 3} THEN Tail(scList)
                        ELSE IF o.ret = 9 THEN (IF f.miss THEN Tail(f.l) ELSE f.l) ELSE scList
          /\ scAlarm' = IF o.ret = 1 /\ bits(o.v) # bits(n.v) THEN "mismatch"
                         ELSE IF o.ret = 2 THEN "missed"
                         ELSE IF o.ret = 3 \/ (o.ret = 9 /\ f.miss) THEN "wrong trigger"
                         ELSE scAlarm
    /\ UNCHANGED <<scProg, scStep, scWrite, scRtl, scSim, scCmds, scNet>>

ScNext == \/ \E t \in Threads : SendStep(t) \/ WriteBack(t)
          \/ SimStep \/ SimRead \/ Arrive
          \/ \E w0 \in Windows : RdAndCmp(w0)

-----------------------------------------------------------------------------
\* The two machines of a program do the same.
Faithful == \A t \in Threads : \A i \in 1 .. Len(scProg[t]) : \A j \in 1 .. Len(scProg[t][i]) :
                scProg[t][i][j].v = scProg[t][i][j].sv

Quiet == /\ \A t \in Threads : scWrite[t] > Len(scProg[t])
         /\ scCmds = <<>> /\ scNet = <<>>

\* Two machines that do the same never raise an alarm, however the steps, the
\* answers and the writes interleave; a write of a wrong value is reported before
\* the comparison is over (bw_sas_recv_call, check_wrong).
VerdictExact == /\ Faithful => scAlarm = "none"
                /\ Quiet /\ scList = <<>> /\ ~Faithful => scAlarm # "none"
=============================================================================
