------------------------------ MODULE SjmProofs ------------------------------
(***************************************************************************)
(* The compiler of command files accepts only what the ports can run, and  *)
(* while they run it a port's counters cover what it has outstanding and   *)
(* SYNC and IOSYNC meet.                                                   *)
(***************************************************************************)
EXTENDS SjmProgram, SequenceTheorems, FiniteSetTheorems, TLAPS

-----------------------------------------------------------------------------
(* Numbers.                                                                *)

\* 0..w grows with w, and inclusion of finite sets is well-founded.
LEMMA SmallestOf ==
    ASSUME NEW S \in SUBSET Nat, S # {}
    PROVE  \E w \in S : \A v \in S : w <= v
  <1>1. PICK n \in Nat : n \in S
    OBVIOUS
  <1> DEFINE R == StrictSubsetOrdering(0..n)
             F == FiniteSubsetsOf(0..n)
             T == {0..w : w \in S \cap (0..n)}
  <1>2. \A w \in 0..n : 0..w \in F
    <2> SUFFICES ASSUME NEW w \in 0..n PROVE 0..w \in F
      OBVIOUS
    <2>1. IsFiniteSet(0..w) /\ 0..w \subseteq 0..n
      BY FS_Interval
    <2> QED BY <2>1 DEF FiniteSubsetsOf
  <1>3. T \subseteq F /\ T # {}
    BY <1>1, <1>2
  <1>4. IsWellFoundedOn(R, F)
    BY FS_StrictSubsetOrderingWellFounded
  <1>5. \E x \in T : \A y \in T : ~(<<y, x>> \in R)
    <2> HIDE DEF R, F, T
    <2> QED BY <1>3, <1>4, WFMin
  <1>6. PICK w \in S \cap (0..n) : \A v \in S \cap (0..n) : ~(<<0..v, 0..w>> \in R)
    BY <1>5
  <1>7. \A v \in S : w <= v
    <2> SUFFICES ASSUME NEW v \in S, ~(w <= v)
                 PROVE  FALSE
      OBVIOUS
    <2>1. v \in S \cap (0..n) /\ v < w /\ w \in 0..n
      OBVIOUS
    <2>2. /\ 0..v \subseteq 0..w /\ 0..v \subseteq 0..n /\ 0..w \subseteq 0..n
          /\ w \in 0..w /\ w \notin 0..v
      BY <2>1
    <2>3. 0..v # 0..w
      BY <2>2
    <2>4. <<0..v, 0..w>> \in R
      BY <2>2, <2>3 DEF StrictSubsetOrdering
    <2> QED BY <1>6, <2>1, <2>4
  <1> QED BY <1>6, <1>7

-----------------------------------------------------------------------------
(* The compiler: its lists while a file is read.                           *)

CONSTANT FileLines         \* the lines a file may be made of

LabelNames == {NoLabel} \cup {ln.label : ln \in FileLines}
Labels == [label : LabelNames, cmd : Nat]

\* The states of the compiler.
ParserStates ==
    [id : BOOLEAN, errorcnt : Nat, errorchk : Nat, lastlabel : LabelNames,
     labellist : Seq(Labels), list : Seq(Nat), branch : Seq(Nat),
     state : {"reading", "linking", "accepted", "rejected"}]

CompilerTypeOK ==
    /\ file \in Seq(FileLines)
    /\ prs \in ParserStates

\* While the file is read, every command in the list is a line of the file, a DONE among
\* them is the last and ends the reading, and unless an error was counted, the command a
\* label was given to is in the list: it may have been dropped since.
ListSound(p, lines) ==
    /\ \A i \in 1..Len(p.list) : p.list[i] \in 1..Len(lines)
    /\ \A i \in 1..Len(p.list) :
          lines[p.list[i]].op = "DONE" <=> p.state = "linking" /\ i = Len(p.list)
    /\ p.state = "linking" => p.list # <<>>
LabelsSound(p) ==
    p.errorcnt = 0 =>
        \A j \in 1..Len(p.labellist) : \E i \in 1..Len(p.list) : p.list[i] = p.labellist[j].cmd

CompilerInv ==
    /\ CompilerTypeOK
    /\ prs.state \in {"reading", "linking"} => ListSound(prs, file) /\ LabelsSound(prs)
    /\ AcceptedIsExecutable

\* A dropped command counts an error.
LEMMA ParmsFacts ==
    ASSUME NEW p, p.errorcnt \in Nat, p.errorchk \in Nat, NEW ln
    PROVE  /\ ParseParms(p, ln).err \in Nat /\ ParseParms(p, ln).chk \in Nat
           /\ ParseParms(p, ln).add \in BOOLEAN
           /\ ~ParseParms(p, ln).add => ParseParms(p, ln).err > 0
  <1> DEFINE op == ln.op
             n == ParseReadWrite(op, ln.toks)
             chk == IF op \in CheckedOps THEN (IF ln.parms = "few" THEN 1 ELSE 0)
                    ELSE IF op \in StaleChkOps THEN p.errorchk + n
                    ELSE IF op \in TransOps THEN n
                    ELSE IF op = "FLIPBITS" THEN p.errorcnt
                    ELSE p.errorchk
  <1>1. \A toks, opts : DataTokens(toks, opts) \in {0, 1}
    BY DEF DataTokens
  <1>2. n \in Nat
    BY <1>1 DEF ParseReadWrite
  <1>3. chk \in Nat
    <2> HIDE DEF n
    <2> QED BY <1>2
  <1> DEFINE stale == IF op = "ECCERROR" THEN p.errorchk ELSE 0
             keep(e) == [err |-> e, add |-> TRUE, chk |-> chk]
             drop(e, c) == [err |-> e, add |-> FALSE, chk |-> c]
             few == CASE op \in CheckedOps -> drop(CountsDropped, chk)
                      [] op \in CountedOps -> drop(CountsDropped, p.errorchk)
                      [] op \in EnableOps  -> keep(1)
                      [] OTHER -> keep(0)
             bad == CASE op \in DropOnBad -> drop(1, IF op \in CheckedOps THEN 0 ELSE p.errorchk)
                      [] op \in KeepOnBad -> keep(1 + stale)
                      [] OTHER -> keep(0)
             all == CASE op \in TransOps -> IF chk = 0 THEN keep(0) ELSE drop(chk, chk)
                      [] op \notin TransOps /\ ln.parms = "few" -> few
                      [] op \notin TransOps /\ ln.parms = "bad" -> bad
                      [] op \notin TransOps /\ ln.parms = "badopt" ->
                            keep(IF op \in CountsBadOpt THEN 1 ELSE 0)
                      [] op \notin TransOps /\ ln.parms = "extra" ->
                            keep(IF op \in IgnoresExtra THEN stale ELSE 1)
                      [] OTHER -> keep(stale)
             Sound(o) == /\ o.err \in Nat /\ o.chk \in Nat /\ o.add \in BOOLEAN
                         /\ ~o.add => o.err > 0
  <1>4. ParseParms(p, ln) = all
    BY Zenon DEF ParseParms
  <1>5. stale \in Nat
    OBVIOUS
  <1> HIDE DEF chk, stale, op
  <1>6. /\ \A e \in Nat : Sound(keep(e))
        /\ \A e \in Nat \ {0}, c \in Nat : Sound(drop(e, c))
    BY <1>3
  <1> HIDE DEF keep, drop, Sound
  <1>7. Sound(few)
    BY <1>3, <1>6 DEF CountsDropped
  <1>8. Sound(bad)
    BY <1>3, <1>5, <1>6
  <1> HIDE DEF few, bad
  <1>9. Sound(all)
    BY <1>3, <1>5, <1>6, <1>7, <1>8
  <1> QED BY <1>4, <1>9 DEF Sound

LEMMA AppendFacts ==
    ASSUME NEW S, NEW s \in Seq(S), NEW e \in S
    PROVE  /\ Append(s, e) \in Seq(S) /\ Len(Append(s, e)) = Len(s) + 1 /\ Len(s) \in Nat
           /\ Append(s, e)[Len(s) + 1] = e
           /\ \A i \in 1..Len(s) : Append(s, e)[i] = s[i] /\ s[i] \in S
  OBVIOUS

\* Reading on changes no line that was read.
LEMMA Extended ==
    ASSUME CompilerTypeOK, ListSound(prs, file), NEW ln \in FileLines
    PROVE  ListSound(prs, Append(file, ln))
  <1>1. /\ Len(Append(file, ln)) = Len(file) + 1 /\ Len(file) \in Nat
        /\ \A i \in 1..Len(file) : Append(file, ln)[i] = file[i]
    BY AppendFacts DEF CompilerTypeOK
  <1>2. Len(prs.list) \in Nat
    BY DEF CompilerTypeOK, ParserStates
  <1> DEFINE lines == Append(file, ln)
  <1> HIDE DEF lines
  <1>3. \A i \in 1..Len(prs.list) : prs.list[i] \in 1..Len(lines) /\ lines[prs.list[i]] = file[prs.list[i]]
    <2>1. \A i \in 1..Len(prs.list) : prs.list[i] \in 1..Len(file)
      BY Zenon DEF ListSound
    <2>2. 1..Len(file) \subseteq 1..Len(lines) /\ \A i \in 1..Len(file) : lines[i] = file[i]
      BY <1>1 DEF lines
    <2> QED BY <2>1, <2>2
  <1>4. ListSound(prs, lines)
    BY <1>3 DEF ListSound
  <1> QED BY <1>4 DEF lines

LEMMA CommandKept ==
    ASSUME NEW p \in ParserStates, p.state = "reading", LabelsSound(p),
           NEW k \in Nat, NEW ln \in FileLines, NEW lines \in Seq(FileLines), Len(lines) = k,
           lines[k] = ln, k > 0, ListSound(p, lines)
    PROVE  /\ CommandLine(p, k, ln) \in ParserStates
           /\ CommandLine(p, k, ln).state \in {"reading", "linking"}
           /\ ListSound(CommandLine(p, k, ln), lines)
           /\ LabelsSound(CommandLine(p, k, ln))
  <1> DEFINE new == CommandLine(p, k, ln)
             Goal(n) == /\ n \in ParserStates /\ n.state \in {"reading", "linking"}
                        /\ ListSound(n, lines) /\ LabelsSound(n)
  <1>1. CASE ln.op \notin KnownOps
    <2> DEFINE more == p.errorcnt + 1
    <2>1. new = [p EXCEPT !.errorcnt = more]
      BY <1>1, Zenon DEF CommandLine
    <2>2. more \in Nat /\ more > 0
      BY DEF ParserStates
    <2> HIDE DEF new, more
    <2>3. /\ new \in ParserStates /\ new.errorcnt > 0 /\ new.state = p.state
          /\ new.list = p.list
      BY <2>1, <2>2 DEF ParserStates
    <2> QED BY <2>3 DEF ListSound, LabelsSound, new
  <1>2. CASE ln.op \in KnownOps
    <2> DEFINE q == IF p.lastlabel = NoLabel THEN p
                    ELSE [p EXCEPT !.labellist = Append(@, [label |-> p.lastlabel, cmd |-> k]),
                                   !.lastlabel = NoLabel]
               o == ParseParms(q, ln)
               r == [q EXCEPT !.errorcnt = @ + o.err, !.errorchk = o.chk]
               s == AddCmd(r, k)
    <2>1. new = IF ~o.add THEN r
                ELSE [s EXCEPT !.state = IF ln.op = "DONE" THEN "linking" ELSE @]
      BY <1>2, Zenon DEF CommandLine
    <2>2. /\ q \in ParserStates /\ q.list = p.list /\ q.state = "reading" /\ q.errorcnt = p.errorcnt
          /\ q.errorchk = p.errorchk
          /\ \/ q.labellist = p.labellist
             \/ q.labellist = Append(p.labellist, [label |-> p.lastlabel, cmd |-> k])
      <3> DEFINE lab == [label |-> p.lastlabel, cmd |-> k]
                 ls == Append(p.labellist, lab)
      <3>1. lab \in Labels /\ NoLabel \in LabelNames
        BY DEF Labels, LabelNames, ParserStates
      <3>2. ls \in Seq(Labels)
        <4> HIDE DEF lab
        <4> QED BY <3>1, AppendFacts DEF ParserStates
      <3>3. q = IF p.lastlabel = NoLabel THEN p ELSE [p EXCEPT !.labellist = ls, !.lastlabel = NoLabel]
        BY Zenon
      <3> HIDE DEF q, ls, lab
      <3>4. CASE p.lastlabel = NoLabel
        <4>1. q = p
          BY <3>3, <3>4
        <4> QED BY <4>1
      <3>5. CASE p.lastlabel # NoLabel
        <4>1. q = [p EXCEPT !.labellist = ls, !.lastlabel = NoLabel]
          BY <3>3, <3>5
        <4>2. q \in ParserStates /\ q.list = p.list /\ q.state = p.state /\ q.errorcnt = p.errorcnt
              /\ q.errorchk = p.errorchk /\ q.labellist = ls
          BY <4>1, <3>1, <3>2 DEF ParserStates
        <4> QED BY <4>2 DEF ls, lab
      <3> QED BY <3>4, <3>5 DEF lab
    <2> HIDE DEF q
    <2>3. /\ o.err \in Nat /\ o.chk \in Nat /\ o.add \in BOOLEAN /\ (~o.add => o.err > 0)
      BY <2>2, ParmsFacts DEF ParserStates
    <2> HIDE DEF o
    <2>4. /\ r \in ParserStates /\ r.list = p.list /\ r.state = "reading"
          /\ r.errorcnt = p.errorcnt + o.err /\ r.labellist = q.labellist
      <3> DEFINE more == q.errorcnt + o.err
                 chk == o.chk
      <3>1. r = [q EXCEPT !.errorcnt = more, !.errorchk = chk]
        BY Zenon
      <3>2. more \in Nat /\ chk \in Nat /\ more = p.errorcnt + o.err
        BY <2>2, <2>3 DEF ParserStates
      <3> HIDE DEF more, chk, r
      <3> QED BY <2>2, <3>1, <3>2 DEF ParserStates
    <2> HIDE DEF r
    <2>5. CASE ~o.add
      <3>1. new = r /\ r.errorcnt # 0
        BY <2>1, <2>3, <2>4, <2>5 DEF ParserStates
      <3> QED BY <3>1, <2>4 DEF ListSound, LabelsSound
    <2>6. CASE o.add
      <3> DEFINE nl == Append(p.list, k)
      <3>1. s = [r EXCEPT !.list = nl]
        BY <2>4, Zenon DEF AddCmd
      <3>2. nl \in Seq(Nat) /\ Len(nl) = Len(p.list) + 1 /\ Len(p.list) \in Nat
            /\ nl[Len(p.list) + 1] = k /\ \A i \in 1..Len(p.list) : nl[i] = p.list[i]
        BY AppendFacts DEF ParserStates
      <3> HIDE DEF nl
      <3> DEFINE st == IF ln.op = "DONE" THEN "linking" ELSE s.state
      <3>3. new = [s EXCEPT !.state = st]
        BY <2>1, <2>6, Zenon
      <3>4. s \in ParserStates /\ s.list = nl /\ s.state = "reading" /\ s.errorcnt = r.errorcnt
            /\ s.labellist = q.labellist
        BY <2>4, <3>1, <3>2 DEF ParserStates
      <3> HIDE DEF s
      <3>5. new \in ParserStates /\ new.list = nl /\ new.errorcnt = r.errorcnt
            /\ new.labellist = q.labellist
            /\ new.state = IF ln.op = "DONE" THEN "linking" ELSE "reading"
        <4>1. st = IF ln.op = "DONE" THEN "linking" ELSE "reading"
          BY <3>4
        <4> HIDE DEF new, st
        <4> QED BY <3>3, <3>4, <4>1 DEF ParserStates
      <3> HIDE DEF new
      <3>6. ListSound(new, lines)
        <4>1. \A i \in 1..Len(nl) : i = Len(p.list) + 1 \/ i \in 1..Len(p.list)
          BY <3>2
        <4>2. \A i \in 1..Len(nl) : nl[i] \in 1..Len(lines)
          <5>1. \A i \in 1..Len(p.list) : p.list[i] \in 1..Len(lines)
            BY Zenon DEF ListSound
          <5>2. k \in 1..Len(lines)
            OBVIOUS
          <5> QED BY <4>1, <5>1, <5>2, <3>2
        <4>3. \A i \in 1..Len(p.list) : lines[nl[i]].op # "DONE" /\ i # Len(nl)
          BY <3>2 DEF ListSound
        <4>4. lines[nl[Len(nl)]].op = ln.op /\ Len(nl) # 0
          BY <3>2
        <4>5. \A i \in 1..Len(nl) : lines[nl[i]].op = "DONE" <=> new.state = "linking" /\ i = Len(nl)
          BY <4>1, <4>3, <4>4, <3>2, <3>5
        <4>6. nl # <<>>
          BY <3>2
        <4> QED BY <4>2, <4>5, <4>6, <3>5 DEF ListSound
      <3>7. LabelsSound(new)
        <4> SUFFICES ASSUME new.errorcnt = 0, NEW j \in 1..Len(new.labellist)
                     PROVE  \E i \in 1..Len(new.list) : new.list[i] = new.labellist[j].cmd
          BY DEF LabelsSound
        <4>1. p.errorcnt = 0
          BY <3>5, <2>4, <2>3 DEF ParserStates
        <4>2. \A l \in 1..Len(p.labellist) : \E i \in 1..Len(nl) : nl[i] = p.labellist[l].cmd
          <5>1. \A l \in 1..Len(p.labellist) : \E i \in 1..Len(p.list) : p.list[i] = p.labellist[l].cmd
            BY <4>1, Zenon DEF LabelsSound
          <5>2. 1..Len(p.list) \subseteq 1..Len(nl)
            BY <3>2
          <5> QED BY <5>1, <5>2, <3>2, Zenon
        <4>3. CASE new.labellist = p.labellist
          BY <4>2, <4>3, <3>5
        <4>4. CASE new.labellist = Append(p.labellist, [label |-> p.lastlabel, cmd |-> k])
          <5> DEFINE lab == [label |-> p.lastlabel, cmd |-> k]
          <5>1. lab \in Labels /\ lab.cmd = k
            BY DEF Labels, LabelNames, ParserStates
          <5> HIDE DEF lab
          <5>2. new.labellist = Append(p.labellist, lab)
            BY <4>4 DEF lab
          <5>3. p.labellist \in Seq(Labels)
            BY DEF ParserStates
          <5>4. /\ Len(new.labellist) = Len(p.labellist) + 1 /\ Len(p.labellist) \in Nat
                /\ new.labellist[Len(p.labellist) + 1] = lab
                /\ \A i \in 1..Len(p.labellist) : new.labellist[i] = p.labellist[i]
            BY <5>1, <5>2, <5>3, AppendFacts
          <5>5. CASE j = Len(p.labellist) + 1
            <6>1. new.labellist[j].cmd = k
              BY <5>1, <5>4, <5>5
            <6>2. Len(p.list) + 1 \in 1..Len(nl) /\ nl[Len(p.list) + 1] = k
              BY <3>2
            <6> QED BY <6>1, <6>2, <3>5, Zenon
          <5>6. CASE j \in 1..Len(p.labellist)
            BY <5>4, <5>6, <4>2, <3>5, Zenon
          <5>7. j = Len(p.labellist) + 1 \/ j \in 1..Len(p.labellist)
            BY <5>4
          <5> QED BY <5>5, <5>6, <5>7, Zenon
        <4> QED BY <4>3, <4>4, <2>2, <3>5
      <3> QED BY <3>5, <3>6, <3>7 DEF new
    <2> QED BY <2>3, <2>5, <2>6
  <1> QED BY <1>1, <1>2

\* The other lines touch neither list and take no error back.
LEMMA SameLists ==
    ASSUME NEW p \in ParserStates, NEW n \in ParserStates, NEW lines, ListSound(p, lines), LabelsSound(p),
           n.state = p.state, n.list = p.list, n.labellist = p.labellist, n.errorcnt >= p.errorcnt
    PROVE  ListSound(n, lines) /\ LabelsSound(n)
  <1>1. ListSound(n, lines)
    BY Zenon DEF ListSound
  <1>2. n.errorcnt = 0 => p.errorcnt = 0
    BY DEF ParserStates
  <1>3. LabelsSound(n)
    BY <1>2, Zenon DEF LabelsSound
  <1> QED BY <1>1, <1>3

LEMMA LineKept ==
    ASSUME NEW p \in ParserStates, p.state = "reading", LabelsSound(p),
           NEW k \in Nat, NEW ln \in FileLines, NEW lines \in Seq(FileLines), Len(lines) = k,
           lines[k] = ln, k > 0, ListSound(p, lines)
    PROVE  /\ ReadLine(p, k, ln) \in ParserStates
           /\ \/ ReadLine(p, k, ln).state = "rejected"
              \/ /\ ReadLine(p, k, ln).state \in {"reading", "linking"}
                 /\ ListSound(ReadLine(p, k, ln), lines)
                 /\ LabelsSound(ReadLine(p, k, ln))
  <1> DEFINE Goal(n) == /\ n \in ParserStates
                        /\ \/ n.state = "rejected"
                           \/ /\ n.state \in {"reading", "linking"}
                              /\ ListSound(n, lines) /\ LabelsSound(n)
  <1>1. Goal(p)
    OBVIOUS
  <1>2. Goal(ConfigLine(p, ln))
    <2>1. CASE ln.kind # "config"
      <3>1. ConfigLine(p, ln) = [p EXCEPT !.state = "rejected"]
        BY <2>1, Zenon DEF ConfigLine
      <3> QED BY <3>1 DEF ParserStates
    <2>2. CASE ln.kind = "config"
      <3> DEFINE b == (ln.parms # "bad")
                 e == p.errorcnt + (IF ln.parms \in {"bad", "badopt"} THEN 1 ELSE 0)
                 n == ConfigLine(p, ln)
      <3>1. n = [p EXCEPT !.id = b, !.errorcnt = e]
        BY <2>2, Zenon DEF ConfigLine
      <3>2. b \in BOOLEAN /\ e \in Nat /\ e >= p.errorcnt
        BY DEF ParserStates
      <3> HIDE DEF b, e, n
      <3>3. n \in ParserStates /\ n.state = p.state /\ n.list = p.list /\ n.labellist = p.labellist
            /\ n.errorcnt = e
        BY <3>1, <3>2 DEF ParserStates
      <3>4. ListSound(n, lines) /\ LabelsSound(n)
        BY <3>2, <3>3, SameLists
      <3> QED BY <3>3, <3>4 DEF n
    <2> QED BY <2>1, <2>2
  <1>3. Goal(ParseAddress(p, ln))
    <2> DEFINE e == p.errorcnt + (IF ln.parms = "ok" THEN 0 ELSE 1)
               n == ParseAddress(p, ln)
    <2>1. n = [p EXCEPT !.errorcnt = e]
      BY Zenon DEF ParseAddress
    <2>2. e \in Nat /\ e >= p.errorcnt
      BY DEF ParserStates
    <2> HIDE DEF e, n
    <2>3. n \in ParserStates /\ n.state = p.state /\ n.list = p.list /\ n.labellist = p.labellist
          /\ n.errorcnt = e
      BY <2>1, <2>2 DEF ParserStates
    <2>4. ListSound(n, lines) /\ LabelsSound(n)
      BY <2>2, <2>3, SameLists
    <2> QED BY <2>3, <2>4 DEF n
  <1>4. Goal(LabelLine(p, ln))
    <2> DEFINE dup == \E i \in DOMAIN p.labellist : p.labellist[i].label = ln.label
               c == p.errorcnt
               l == IF dup THEN NoLabel ELSE ln.label
               e == p.errorcnt + (IF dup THEN 1 ELSE 0) + (IF ln.parms = "extra" THEN 1 ELSE 0)
               n == LabelLine(p, ln)
    <2>1. n = [p EXCEPT !.errorchk = c, !.lastlabel = l, !.errorcnt = e]
      BY Zenon DEF LabelLine
    <2>2. c \in Nat
      BY DEF ParserStates
    <2>3. l \in LabelNames
      BY DEF LabelNames
    <2>4. e \in Nat /\ e >= p.errorcnt
      <3> HIDE DEF dup
      <3> QED BY DEF ParserStates
    <2> HIDE DEF c, l, e, n
    <2>5. n \in ParserStates /\ n.state = p.state /\ n.list = p.list /\ n.labellist = p.labellist
          /\ n.errorcnt = e
      BY <2>1, <2>2, <2>3, <2>4 DEF ParserStates
    <2>6. ListSound(n, lines) /\ LabelsSound(n)
      BY <2>4, <2>5, SameLists
    <2> QED BY <2>5, <2>6 DEF n
  <1>5. Goal(CommandLine(p, k, ln))
    BY CommandKept
  <1> HIDE DEF Goal
  <1>6. Goal(ReadLine(p, k, ln))
    BY <1>1, <1>2, <1>3, <1>4, <1>5 DEF ReadLine
  <1> QED BY <1>6 DEF Goal

\* What the second pass accepts.
Executable(p, lines) ==
    p.state = "accepted" =>
        LET op(i) == IF p.list[i] = 0 THEN "DONE" ELSE lines[p.list[i]].op
            n == Len(p.list)
        IN /\ \A i \in 1..n : op(i) = "DONE" <=> i = n
           /\ \A i \in DOMAIN p.branch : op(i) \in LinkedOps => p.branch[i] \in Range(p.list)

LEMMA Linked ==
    ASSUME NEW p \in ParserStates, p.state \in {"reading", "linking"}, LabelsSound(p),
           NEW lines \in Seq(FileLines), ListSound(p, lines)
    PROVE  /\ LinkPass(p, lines) \in ParserStates
           /\ LinkPass(p, lines).state \in {"accepted", "rejected"}
           /\ Executable(LinkPass(p, lines), lines)
  <1> DEFINE hits(k) == {i \in DOMAIN p.labellist : p.labellist[i].label = lines[k].to}
             target(k) == IF lines[k].op \in LinkedOps /\ hits(k) # {}
                          THEN p.labellist[CHOOSE i \in hits(k) : \A j \in hits(k) : i <= j].cmd ELSE 0
             branch == [i \in DOMAIN p.list |-> target(p.list[i])]
             lost == {i \in DOMAIN p.list : lines[p.list[i]].op \in LinkedOps /\ branch[i] = 0}
             errs == p.errorcnt + Cardinality(lost)
             needs == p.list = <<>> \/ lines[p.list[Len(p.list)]].op # "DONE"
             st == IF errs > 0 THEN "rejected" ELSE "accepted"
             list == IF errs = 0 /\ needs THEN Append(p.list, 0) ELSE p.list
             n == LinkPass(p, lines)
  <1>1. n = [p EXCEPT !.errorcnt = errs, !.branch = branch, !.state = st, !.list = list]
    BY Zenon DEF LinkPass
  <1>2. DOMAIN p.list = 1..Len(p.list) /\ Len(p.list) \in Nat
        /\ DOMAIN p.labellist = 1..Len(p.labellist) /\ Len(p.labellist) \in Nat
    BY DEF ParserStates
  <1>3. \A k : hits(k) # {} => (CHOOSE i \in hits(k) : \A j \in hits(k) : i <= j) \in hits(k)
    <2> SUFFICES ASSUME NEW k, hits(k) # {}
                 PROVE  (CHOOSE i \in hits(k) : \A j \in hits(k) : i <= j) \in hits(k)
      OBVIOUS
    <2>1. hits(k) \in SUBSET Nat
      BY <1>2
    <2> HIDE DEF hits
    <2>2. \E i \in hits(k) : \A j \in hits(k) : i <= j
      BY <2>1, SmallestOf
    <2> QED BY <2>2
  <1>4. \A i \in 1..Len(p.labellist) : p.labellist[i].cmd \in Nat
    <2>1. p.labellist \in Seq(Labels)
      BY DEF ParserStates
    <2>2. \A i \in 1..Len(p.labellist) : p.labellist[i] \in Labels
      BY <2>1, ElementOfSeq
    <2> QED BY <2>2 DEF Labels
  <1>5. \A k : target(k) = 0 \/ \E i \in 1..Len(p.labellist) : target(k) = p.labellist[i].cmd
    <2> SUFFICES ASSUME NEW k, target(k) # 0
                 PROVE  \E i \in 1..Len(p.labellist) : target(k) = p.labellist[i].cmd
      OBVIOUS
    <2> DEFINE c == CHOOSE i \in hits(k) : \A j \in hits(k) : i <= j
    <2>1. hits(k) # {} /\ target(k) = p.labellist[c].cmd
      <3> HIDE DEF hits
      <3> QED OBVIOUS
    <2>2. c \in hits(k)
      <3> HIDE DEF hits
      <3> QED BY <1>3, <2>1
    <2>3. c \in 1..Len(p.labellist)
      <3> HIDE DEF c
      <3> QED BY <2>2, <1>2
    <2> HIDE DEF c
    <2> QED BY <2>1, <2>3
  <1>6. branch \in Seq(Nat) /\ DOMAIN branch = 1..Len(p.list)
    <2>1. \A k : target(k) \in Nat
      <3> HIDE DEF target
      <3> QED BY <1>4, <1>5
    <2> DEFINE m == Len(p.list)
    <2>2. m \in Nat /\ branch = [i \in 1..m |-> target(p.list[i])]
      <3> HIDE DEF target
      <3> QED BY <1>2
    <2> HIDE DEF target, m
    <2>3. [i \in 1..m |-> target(p.list[i])] \in Seq(Nat)
      BY <2>1, <2>2
    <2> HIDE DEF branch
    <2>4. DOMAIN branch = 1..m
      BY <2>2, Zenon
    <2> QED BY <2>2, <2>3, <2>4 DEF m
  <1>7. IsFiniteSet(lost) /\ Cardinality(lost) \in Nat /\ (Cardinality(lost) = 0 => lost = {})
    <2>1. lost \subseteq 1..Len(p.list)
      <3> HIDE DEF branch
      <3> QED BY <1>2
    <2> HIDE DEF lost
    <2>2. IsFiniteSet(1..Len(p.list))
      <3> DEFINE m == Len(p.list)
      <3>1. m \in Int
        BY <1>2
      <3> HIDE DEF m
      <3>2. IsFiniteSet(1..m)
        BY <3>1, FS_Interval
      <3> QED BY <3>2 DEF m
    <2>3. IsFiniteSet(lost)
      BY <2>1, <2>2, FS_Subset
    <2>4. Cardinality(lost) \in Nat
      BY <2>3, FS_CardinalityType
    <2>5. Cardinality(lost) = 0 => lost = {}
      BY <2>3, FS_EmptySet
    <2> QED BY <2>3, <2>4, <2>5
  <1> HIDE DEF lost
  <1>8. errs \in Nat /\ (errs = 0 => p.errorcnt = 0 /\ lost = {})
    BY <1>7 DEF ParserStates
  <1> HIDE DEF errs
  <1>9. list \in Seq(Nat) /\ st \in {"accepted", "rejected"}
    <2>1. p.list \in Seq(Nat)
      BY DEF ParserStates
    <2> QED BY <2>1, AppendFacts
  <1> HIDE DEF branch
  <1>10. /\ n \in ParserStates /\ n.state = st /\ n.branch = branch /\ n.list = list
    <2> HIDE DEF n, st, list
    <2> QED BY <1>1, <1>6, <1>8, <1>9 DEF ParserStates
  <1>11. ASSUME st = "accepted" PROVE Executable(n, lines)
    <2> DEFINE m == Len(p.list)
               op(i) == IF list[i] = 0 THEN "DONE" ELSE lines[list[i]].op
    <2>1. errs = 0 /\ p.errorcnt = 0 /\ lost = {}
      BY <1>8, <1>11
    <2>2. \A i \in 1..m : p.list[i] # 0
      <3>1. \A i \in 1..m : p.list[i] \in 1..Len(lines)
        BY Zenon DEF ListSound
      <3>2. 0 \notin 1..Len(lines)
        BY LenProperties
      <3> QED BY <3>1, <3>2
    <2>3. \A i \in 1..m : lines[p.list[i]].op = "DONE" <=> p.state = "linking" /\ i = m
      BY Zenon DEF ListSound
    <2>4. p.state = "linking" => m > 0
      BY <1>2 DEF ListSound, ParserStates
    <2>5. m \in Nat
      BY <1>2
    <2>6. p.list \in Seq(Nat)
      BY DEF ParserStates
    <2>7. \/ /\ list = p.list /\ ~needs
          \/ /\ list = Append(p.list, 0) /\ needs
      BY <2>1
    <2>8. needs <=> p.state # "linking"
      <3>1. p.list = <<>> <=> m = 0
        BY <2>6
      <3>2. m # 0 => (lines[p.list[m]].op = "DONE" <=> p.state = "linking")
        BY <2>3, <2>5
      <3> QED BY <3>1, <3>2, <2>4
    <2> HIDE DEF needs, list
    <2>9. /\ m <= Len(list) /\ Len(list) \in Nat /\ \A i \in 1..m : list[i] = p.list[i] /\ op(i) = lines[p.list[i]].op
          /\ \A i \in 1..Len(list) : i \in 1..m \/ (i = m + 1 /\ list[i] = 0)
          /\ Len(list) = IF p.state = "linking" THEN m ELSE m + 1
      <3>1. CASE list = p.list /\ ~needs
        BY <2>2, <2>5, <2>8, <3>1
      <3>2. CASE list = Append(p.list, 0) /\ needs
        <4>1. /\ Len(list) = m + 1 /\ list[m + 1] = 0
              /\ \A i \in 1..m : list[i] = p.list[i]
          BY <2>6, <3>2, AppendFacts
        <4>2. p.state # "linking"
          BY <2>8, <3>2
        <4> QED BY <4>1, <4>2, <2>2, <2>5
      <3> QED BY <2>7, <3>1, <3>2
    <2>10. \A i \in 1..Len(list) : op(i) = "DONE" <=> i = Len(list)
      <3> SUFFICES ASSUME NEW i \in 1..Len(list) PROVE op(i) = "DONE" <=> i = Len(list)
        OBVIOUS
      <3>1. CASE i \in 1..m
        <4>1. op(i) = "DONE" <=> p.state = "linking" /\ i = m
          BY <2>3, <2>9, <3>1
        <4> HIDE DEF op
        <4> QED BY <4>1, <2>5, <2>9, <3>1
      <3>2. CASE i = m + 1 /\ list[i] = 0
        BY <2>5, <2>9, <3>2
      <3> QED BY <2>9, <3>1, <3>2
    <2>11. ASSUME NEW i \in 1..m, op(i) \in LinkedOps
           PROVE  branch[i] \in Range(list)
      <3>1. lines[p.list[i]].op \in LinkedOps
        BY <2>9, <2>11
      <3>2. branch[i] # 0
        BY <1>2, <2>1, <3>1 DEF lost
      <3>3. PICK j \in 1..Len(p.labellist) : branch[i] = p.labellist[j].cmd
        <4>1. branch[i] = target(p.list[i])
          BY <1>2 DEF branch
        <4> HIDE DEF target
        <4> QED BY <1>5, <3>2, <4>1
      <3>4. PICK l \in 1..m : p.list[l] = p.labellist[j].cmd
        BY <2>1 DEF LabelsSound
      <3>5. l \in 1..Len(list) /\ list[l] = branch[i]
        BY <2>9, <2>5, <3>3, <3>4
      <3>6. DOMAIN list = 1..Len(list)
        BY <1>9
      <3> QED BY <3>5, <3>6 DEF Range
    <2> HIDE DEF op
    <2>12. /\ n.list = list /\ n.branch = branch /\ DOMAIN branch = 1..m
      BY <1>6, <1>10
    <2>13. /\ \A i \in 1..Len(list) : op(i) = "DONE" <=> i = Len(list)
           /\ \A i \in 1..m : op(i) \in LinkedOps => branch[i] \in Range(list)
      BY <2>10, <2>11
    <2> QED BY <2>12, <2>13, Zenon DEF Executable, op
  <1>12. st # "accepted" => Executable(n, lines)
    BY <1>10 DEF Executable
  <1> QED BY <1>9, <1>10, <1>11, <1>12

LEMMA CompilerStarts == ParserInit => CompilerInv
  <1> SUFFICES ASSUME ParserInit PROVE CompilerInv
    OBVIOUS
  <1>1. PICK garbage \in 0..1 : prs = NewParser(garbage)
    BY DEF ParserInit
  <1>2. NoLabel \in LabelNames
    BY DEF LabelNames
  <1>3. prs \in ParserStates /\ prs.state = "reading" /\ prs.list = <<>> /\ prs.labellist = <<>>
    BY <1>1, <1>2 DEF NewParser, ParserStates
  <1>4. file \in Seq(FileLines)
    BY DEF ParserInit
  <1>5. ListSound(prs, file)
    BY <1>3 DEF ListSound
  <1>6. LabelsSound(prs)
    BY <1>3 DEF LabelsSound
  <1>7. AcceptedIsExecutable
    BY <1>3 DEF AcceptedIsExecutable
  <1> QED BY <1>3, <1>4, <1>5, <1>6, <1>7 DEF CompilerInv, CompilerTypeOK

LEMMA CompilerStep ==
    ASSUME CompilerInv, [ParserNext(FileLines)]_parserVars
    PROVE  CompilerInv'
  <1>1. Executable(prs, file)' => AcceptedIsExecutable'
    BY Zenon DEF Executable, AcceptedIsExecutable
  <1>2. CASE EndOfFile
    <2>1. /\ prs \in ParserStates /\ prs.state \in {"reading", "linking"} /\ LabelsSound(prs)
          /\ file \in Seq(FileLines) /\ ListSound(prs, file)
      BY <1>2 DEF EndOfFile, CompilerInv, CompilerTypeOK
    <2>2. prs' = LinkPass(prs, file) /\ file' = file
      BY <1>2 DEF EndOfFile
    <2>3. prs' \in ParserStates /\ prs'.state \in {"accepted", "rejected"} /\ Executable(prs', file')
      BY <2>1, <2>2, Linked
    <2>4. AcceptedIsExecutable'
      BY <2>3, <1>1
    <2> QED BY <2>1, <2>2, <2>3, <2>4 DEF CompilerInv, CompilerTypeOK
  <1>3. ASSUME NEW ln \in FileLines, NextLine(ln)
        PROVE  CompilerInv'
    <2> DEFINE k == Len(file) + 1
               lines == Append(file, ln)
    <2>1. /\ prs \in ParserStates /\ prs.state = "reading" /\ LabelsSound(prs)
          /\ file \in Seq(FileLines) /\ ListSound(prs, file)
      BY <1>3 DEF NextLine, CompilerInv, CompilerTypeOK
    <2>2. prs' = ReadLine(prs, k, ln) /\ file' = lines
      BY <1>3 DEF NextLine
    <2>3. ListSound(prs, lines)
      BY <2>1, Extended DEF CompilerInv
    <2>4. lines \in Seq(FileLines) /\ Len(lines) = k /\ lines[k] = ln /\ k \in Nat /\ k > 0
      BY <2>1, AppendFacts
    <2> HIDE DEF k, lines
    <2>5. /\ prs' \in ParserStates
          /\ \/ prs'.state = "rejected"
             \/ prs'.state \in {"reading", "linking"} /\ ListSound(prs', file') /\ LabelsSound(prs')
      BY <2>1, <2>2, <2>3, <2>4, LineKept
    <2>6. AcceptedIsExecutable'
      BY <2>5, <1>1 DEF Executable
    <2> QED BY <2>2, <2>4, <2>5, <2>6 DEF CompilerInv, CompilerTypeOK
  <1>4. CASE UNCHANGED parserVars
    BY <1>4 DEF parserVars, CompilerInv, CompilerTypeOK, AcceptedIsExecutable
  <1> QED BY <1>2, <1>3, <1>4 DEF ParserNext

\* The invariant of the compiler, for files of any lines and any length.
THEOREM CompilerInvariance == ParserSpec(FileLines) => []CompilerInv
  <1>1. ParserInit => CompilerInv
    BY CompilerStarts
  <1>2. CompilerInv /\ [ParserNext(FileLines)]_parserVars => CompilerInv'
    BY CompilerStep
  <1> QED BY <1>1, <1>2, PTL DEF ParserSpec

\* A command file that is accepted ends with its only DONE and every branch that is linked
\* goes to a command of the list, whatever lines the file has: each path of
\* Parser::ReadFile that drops a command a label was given to counts an error.
THEOREM AcceptedRuns == ParserSpec(FileLines) => []AcceptedIsExecutable
  <1>1. CompilerInv => AcceptedIsExecutable
    BY DEF CompilerInv
  <1> QED BY <1>1, CompilerInvariance, PTL

-----------------------------------------------------------------------------
(* A port: what the counters and IOSYNC rest on.                           *)

Fields == {"pc", "orb", "num", "owedr", "int", "inum", "io", "iomem", "iop", "iow", "nsync", "st"}

(* The claims on numvalid: <<k, 0>> for a read that is queued or whose     *)
(* data is in, <<k, n>> for the n-th answer the bus still owes entry k.    *)
Claims(p) ==
    {t \in (1..OrbSize) \X Nat :
        IF t[2] = 0 THEN p.orb[t[1]].st \in {"queued", "data"} ELSE t[2] <= p.owedr[t[1]]}

EntriesOK(p) ==
    /\ DOMAIN p.orb = 1..OrbSize
    /\ \A k \in 1..OrbSize : /\ "st" \in DOMAIN p.orb[k]
                             /\ p.orb[k].st \in {"free", "queued", "bus", "data"}
                             /\ p.orb[k].st = "bus" => p.owedr[k] >= 1
    /\ p.owedr \in [1..OrbSize -> Nat]
    /\ p.num \in 0..OrbSize
ClaimsOK(p) == IsFiniteSet(Claims(p)) /\ Cardinality(Claims(p)) <= p.num
OrbOK(p) == EntriesOK(p) /\ ClaimsOK(p)

IntFields == {"on", "issued", "resp", "done", "rep", "delay", "t", "acks"}
Issued(p) == {t \in Targets : IntBusy(p, t) /\ p.int[t].issued}
IntOK(p) ==
    /\ DOMAIN p.int = Targets
    /\ \A t \in Targets : IntFields \subseteq DOMAIN p.int[t]
    /\ p.inum \in Nat
    /\ Cardinality(Issued(p)) <= p.inum

\* A write to the iosync word that no IOSYNC used up yet lets one pass.
IoOK(p) == /\ p.iop \in Nat /\ p.iow \in Nat
           /\ p.iop <= p.iow
           /\ IosyncPasses(p) => p.iop < p.iow

PortOK(p) == Fields \subseteq DOMAIN p /\ OrbOK(p) /\ IntOK(p) /\ IoOK(p)

SameOrb(p, q) == q.orb = p.orb /\ q.num = p.num /\ q.owedr = p.owedr
SameInt(p, q) == q.int = p.int /\ q.inum = p.inum
SameIo(p, q) == q.io = p.io /\ q.iomem = p.iomem /\ q.iop = p.iop /\ q.iow = p.iow
Same(p, q) == Fields \subseteq DOMAIN q /\ SameOrb(p, q) /\ SameInt(p, q) /\ SameIo(p, q)

LEMMA OrbKept == ASSUME NEW p, NEW q, OrbOK(p), SameOrb(p, q) PROVE OrbOK(q)
  <1>1. Claims(q) = Claims(p)  BY DEF SameOrb, Claims
  <1> QED  BY <1>1 DEF OrbOK, EntriesOK, ClaimsOK, SameOrb
LEMMA IntKept == ASSUME NEW p, NEW q, IntOK(p), SameInt(p, q) PROVE IntOK(q)
  <1>1. Issued(q) = Issued(p)  BY DEF SameInt, Issued, IntBusy
  <1> QED  BY <1>1 DEF IntOK, SameInt
LEMMA IoKept == ASSUME NEW p, NEW q, IoOK(p), SameIo(p, q) PROVE IoOK(q)
  BY DEF IoOK, SameIo, IosyncPasses
LEMMA PortKept == ASSUME NEW p, NEW q, PortOK(p), Same(p, q) PROVE PortOK(q)
  BY OrbKept, IntKept, IoKept DEF PortOK, Same

-----------------------------------------------------------------------------
(* The outstanding read buffer.                                            *)

(* A claim that goes is counted down; one may take the place of another.   *)
LEMMA ClaimsFewer ==
    ASSUME NEW p, NEW q, ClaimsOK(p), p.num \in Nat,
           Claims(q) \subseteq Claims(p), q.num = p.num
    PROVE  ClaimsOK(q)
  <1>1. IsFiniteSet(Claims(q)) /\ Cardinality(Claims(q)) <= Cardinality(Claims(p))
    BY FS_Subset DEF ClaimsOK
  <1>2. Cardinality(Claims(p)) \in Nat /\ Cardinality(Claims(q)) \in Nat
    BY <1>1, FS_CardinalityType DEF ClaimsOK
  <1> QED  BY <1>1, <1>2 DEF ClaimsOK

LEMMA ClaimGone ==
    ASSUME NEW p, NEW q, ClaimsOK(p), p.num \in Nat, NEW x \in Claims(p),
           Claims(q) \subseteq Claims(p) \ {x}, q.num = p.num - 1
    PROVE  ClaimsOK(q) /\ q.num \in Nat
  <1> DEFINE C == Claims(p) \ {x}
  <1>1. IsFiniteSet(C) /\ Cardinality(C) = Cardinality(Claims(p)) - 1
    BY FS_RemoveElement DEF ClaimsOK
  <1>2. Claims(q) \subseteq C  OBVIOUS
  <1> HIDE DEF C
  <1>4. IsFiniteSet(Claims(q)) /\ Cardinality(Claims(q)) <= Cardinality(C)
    BY <1>1, <1>2, FS_Subset
  <1>3. /\ Cardinality(Claims(p)) \in Nat /\ Cardinality(Claims(q)) \in Nat
        /\ Cardinality(C) \in Nat
    BY <1>1, <1>4, FS_CardinalityType DEF ClaimsOK
  <1> QED  BY <1>1, <1>3, <1>4 DEF ClaimsOK

LEMMA ClaimAdded ==
    ASSUME NEW p, NEW q, ClaimsOK(p), p.num \in Nat, NEW y,
           Claims(q) \subseteq Claims(p) \cup {y}, q.num = p.num + 1
    PROVE  ClaimsOK(q)
  <1> DEFINE C == Claims(p) \cup {y}
  <1>1. IsFiniteSet(C) /\ Cardinality(C) <= Cardinality(Claims(p)) + 1
    <2>1. Cardinality(Claims(p)) \in Nat  BY FS_CardinalityType DEF ClaimsOK
    <2>2. IsFiniteSet(C) /\ Cardinality(C) = IF y \in Claims(p) THEN Cardinality(Claims(p))
                                             ELSE Cardinality(Claims(p)) + 1
      BY FS_AddElement, Zenon DEF ClaimsOK
    <2> HIDE DEF C
    <2> QED  BY <2>1, <2>2
  <1>2. Claims(q) \subseteq C  OBVIOUS
  <1> HIDE DEF C
  <1>4. IsFiniteSet(Claims(q)) /\ Cardinality(Claims(q)) <= Cardinality(C)
    BY <1>1, <1>2, FS_Subset
  <1>3. /\ Cardinality(Claims(p)) \in Nat /\ Cardinality(Claims(q)) \in Nat
        /\ Cardinality(C) \in Nat
    BY <1>1, <1>4, FS_CardinalityType DEF ClaimsOK
  <1> QED  BY <1>1, <1>3, <1>4 DEF ClaimsOK

LEMMA ClaimMoved ==
    ASSUME NEW p, NEW q, ClaimsOK(p), p.num \in Nat, NEW x \in Claims(p), NEW y,
           Claims(q) \subseteq (Claims(p) \ {x}) \cup {y}, q.num = p.num
    PROVE  ClaimsOK(q)
  <1> DEFINE C == Claims(p) \ {x}
             D == C \cup {y}
  <1>0. Cardinality(Claims(p)) \in Nat  BY FS_CardinalityType DEF ClaimsOK
  <1>1. IsFiniteSet(C) /\ Cardinality(C) = Cardinality(Claims(p)) - 1
    BY FS_RemoveElement DEF ClaimsOK
  <1> HIDE DEF C
  <1>2. IsFiniteSet(D) /\ Cardinality(D) <= Cardinality(C) + 1
    <2>1. Cardinality(C) \in Nat  BY <1>1, FS_CardinalityType
    <2> QED  BY <1>1, <2>1, FS_AddElement
  <1>3. Claims(q) \subseteq D  BY DEF C
  <1> HIDE DEF D
  <1>4. IsFiniteSet(Claims(q)) /\ Cardinality(Claims(q)) <= Cardinality(D)
    BY <1>2, <1>3, FS_Subset
  <1>5. Cardinality(Claims(q)) \in Nat /\ Cardinality(C) \in Nat /\ Cardinality(D) \in Nat
    BY <1>1, <1>2, <1>4, FS_CardinalityType
  <1> QED  BY <1>0, <1>1, <1>2, <1>4, <1>5 DEF ClaimsOK

(* The entries are covered by the claims on them.                          *)
LEMMA ValidCovered == ASSUME NEW p, OrbOK(p) PROVE Cardinality(Valid(p)) <= p.num
  <1> DEFINE f == [k \in Valid(p) |-> <<k, IF p.orb[k].st = "bus" THEN 1 ELSE 0>>]
  <1>1. \A k \in Valid(p) : f[k] \in Claims(p)
    BY DEF OrbOK, EntriesOK, Valid, Claims
  <1>2. f \in Injection(Valid(p), Claims(p))
    BY <1>1 DEF Injection, IsInjective
  <1>3. Cardinality(Valid(p)) <= Cardinality(Claims(p)) /\ IsFiniteSet(Valid(p))
    <2> HIDE DEF f
    <2> QED  BY <1>2, FS_Injection DEF OrbOK, ClaimsOK
  <1>4. Cardinality(Valid(p)) \in Nat /\ Cardinality(Claims(p)) \in Nat
    BY <1>3, FS_CardinalityType DEF OrbOK, ClaimsOK
  <1> QED  BY <1>3, <1>4 DEF OrbOK, ClaimsOK, EntriesOK

(* A command adds a read where an entry is free.                           *)
LEMMA AddOK ==
    ASSUME NEW p, PortOK(p), ~OrbFull(p), NEW cc
    PROVE  PortOK(OrbAdd(p, cc)) /\ OrbAdd(p, cc).pc = p.pc /\ OrbAdd(p, cc).nsync = p.nsync
           /\ OrbAdd(p, cc).st = p.st
  <1> DEFINE Free == {k \in 1..OrbSize : k \notin Valid(p)}
             First(k) == k \notin Valid(p) /\ \A j \in 1..(k - 1) : j \in Valid(p)
  <1>1. p.num < OrbSize /\ p.num \in Nat
    BY ProgramAssumption DEF PortOK, OrbOK, EntriesOK, OrbFull
  <1>2. Free # {}
    <2> SUFFICES ASSUME Free = {} PROVE FALSE  OBVIOUS
    <2>1. Valid(p) = 1..OrbSize  BY DEF Valid
    <2>2. Cardinality(1..OrbSize) = OrbSize  BY ProgramAssumption, FS_Interval
    <2>3. Cardinality(Valid(p)) <= p.num  BY ValidCovered DEF PortOK
    <2> QED  BY <1>1, <2>1, <2>2, <2>3, ProgramAssumption
  <1>3. PICK k \in 1..OrbSize : First(k)
    <2>1. Free \in SUBSET Nat  OBVIOUS
    <2>2. PICK k \in Free : \A v \in Free : k <= v
      <3> HIDE DEF Free
      <3> QED  BY <1>2, <2>1, SmallestOf
    <2>3. \A j \in 1..(k-1) : j \in Valid(p)
      <3> SUFFICES ASSUME NEW j \in 1..(k-1), j \notin Valid(p) PROVE FALSE  OBVIOUS
      <3>1. k \in Nat /\ k \in 1..OrbSize  BY <2>2, ProgramAssumption
      <3>2. j \in 1..OrbSize /\ j < k  BY <3>1, ProgramAssumption
      <3>3. j \in Free  BY <3>2
      <3> QED  BY <2>2, <3>1, <3>2, <3>3
    <2> QED  BY <2>2, <2>3
  <1>4. PICK n \in 1..OrbSize : First(n) /\ n = CHOOSE j \in 1..OrbSize : First(j)
    <2> HIDE DEF First
    <2> QED  BY <1>3
  <1> DEFINE q == [p EXCEPT !.orb[n] = [st |-> "queued", t |-> 0, cc |-> cc], !.num = @ + 1,
                            !.tr = [t |-> "NCRD", k |-> n]]
  <1>5. OrbAdd(p, cc) = q  BY <1>4 DEF OrbAdd
  <1>6. /\ q.orb = [p.orb EXCEPT ![n] = [st |-> "queued", t |-> 0, cc |-> cc]]
        /\ q.num = p.num + 1 /\ q.owedr = p.owedr /\ SameInt(p, q) /\ SameIo(p, q)
        /\ Fields \subseteq DOMAIN q /\ q.pc = p.pc /\ q.nsync = p.nsync /\ q.st = p.st
    BY DEF PortOK, Fields, SameInt, SameIo
  <1> HIDE DEF q
  <1>7. EntriesOK(q)
    <2>1. q.num \in 0..OrbSize /\ q.owedr \in [1..OrbSize -> Nat] /\ DOMAIN q.orb = 1..OrbSize
      BY <1>1, <1>6, ProgramAssumption DEF PortOK, OrbOK, EntriesOK
    <2>2. \A m \in 1..OrbSize : q.orb[m] = IF m = n THEN [st |-> "queued", t |-> 0, cc |-> cc] ELSE p.orb[m]
      BY <1>6 DEF PortOK, OrbOK, EntriesOK
    <2> QED  BY <1>6, <2>1, <2>2 DEF PortOK, OrbOK, EntriesOK
  <1>8. Claims(q) \subseteq Claims(p) \cup {<<n, 0>>}
    <2> SUFFICES ASSUME NEW m \in 1..OrbSize, NEW c \in Nat, <<m, c>> \in Claims(q)
                 PROVE  <<m, c>> \in Claims(p) \/ (m = n /\ c = 0)
      BY DEF Claims
    <2>1. CASE m = n /\ c = 0  BY <2>1
    <2>2. CASE c # 0  BY <1>6, <2>2 DEF Claims
    <2>3. CASE c = 0 /\ m # n
      <3>1. q.orb[m] = p.orb[m]  BY <1>6, <2>3 DEF PortOK, OrbOK, EntriesOK
      <3> QED  BY <2>3, <3>1 DEF Claims
    <2> QED  BY <2>1, <2>2, <2>3
  <1>9. ClaimsOK(q)  BY <1>1, <1>6, <1>8, ClaimAdded DEF PortOK, OrbOK
  <1> QED  BY <1>5, <1>6, <1>7, <1>9, IntKept, IoKept DEF PortOK, OrbOK

(* ReadOutBuffer::Cycle counts down what came back, and what timed out it  *)
(* leaves counted.                                                         *)
LEMMA AgedFacts ==
    ASSUME NEW p, EntriesOK(p), NEW k \in 1..OrbSize
    PROVE  LET e == AgedEntry(p, k, Returned(p) \union TimedOut(p))
           IN /\ "st" \in DOMAIN e
              /\ e.st = "free" \/ (e.st = p.orb[k].st /\ e.st \in {"queued", "bus", "free"})
  <1> DEFINE gone == Returned(p) \union TimedOut(p)
  <1>1. CASE k \in gone
    BY <1>1 DEF AgedEntry, FreeEntry
  <1>2. CASE k \notin gone
    <2>1. p.orb[k].st \in {"queued", "bus", "free"} /\ "st" \in DOMAIN p.orb[k]
      BY <1>2 DEF Returned, EntriesOK
    <2>2. CASE p.orb[k].st = "bus"
      <3>1. AgedEntry(p, k, gone) = [p.orb[k] EXCEPT !.t = @ + 1]
        BY <1>2, <2>2 DEF AgedEntry
      <3> QED  BY <2>1, <3>1
    <2>3. CASE p.orb[k].st # "bus"
      <3>1. AgedEntry(p, k, gone) = p.orb[k]
        BY <1>2, <2>3 DEF AgedEntry
      <3> QED  BY <2>1, <3>1
    <2> QED  BY <2>2, <2>3
  <1> QED  BY <1>1, <1>2

LEMMA CycleOK ==
    ASSUME NEW p, PortOK(p), NEW cc
    PROVE  LET q == OrbCycle(p, cc)
           IN PortOK(q) /\ q.pc = p.pc /\ q.nsync = p.nsync /\ q.st = p.st
  <1> DEFINE q == OrbCycle(p, cc)
             R == Returned(p)
             G == {t \in Claims(p) : t[1] \in R /\ t[2] = 0}
             C == Claims(p) \ G
  <1>1. /\ q.orb = [k \in 1..OrbSize |-> AgedEntry(p, k, Returned(p) \union TimedOut(p))]
        /\ q.num = p.num - Cardinality(R) /\ q.owedr = p.owedr
        /\ SameInt(p, q) /\ SameIo(p, q)
        /\ Fields \subseteq DOMAIN q /\ q.pc = p.pc /\ q.nsync = p.nsync /\ q.st = p.st
    BY DEF PortOK, Fields, SameInt, SameIo, OrbCycle
  <1>2. EntriesOK(p) /\ ClaimsOK(p) /\ p.num \in 0..OrbSize
    BY DEF PortOK, OrbOK, EntriesOK
  <1>3. IsFiniteSet(G) /\ IsFiniteSet(C) /\ Cardinality(G) \in Nat /\ Cardinality(C) \in Nat
        /\ Cardinality(C) = Cardinality(Claims(p)) - Cardinality(G)
    <2>1. IsFiniteSet(Claims(p)) /\ G \subseteq Claims(p)  BY <1>2 DEF ClaimsOK
    <2>2. IsFiniteSet(G)  BY <2>1, FS_Subset
    <2>3. Claims(p) \cap G = G  BY <2>1
    <2> HIDE DEF G
    <2>4. IsFiniteSet(C) /\ Cardinality(C) = Cardinality(Claims(p)) - Cardinality(G)
      BY <2>1, <2>3, FS_Difference
    <2> QED  BY <2>2, <2>4, FS_CardinalityType
  <1>4. Cardinality(R) <= Cardinality(G) /\ Cardinality(R) \in Nat
    <2> DEFINE f == [k \in R |-> <<k, 0>>]
    <2>1. \A k \in R : <<k, 0>> \in G  BY DEF Returned, Claims
    <2>2. f \in Injection(R, G)  BY <2>1 DEF Injection, IsInjective
    <2> HIDE DEF f, R, G
    <2>3. IsFiniteSet(R) /\ Cardinality(R) <= Cardinality(G)
      BY <1>3, <2>2, FS_Injection
    <2> QED  BY <2>3, FS_CardinalityType
  <1>5. \A k \in 1..OrbSize : /\ "st" \in DOMAIN q.orb[k]
                              /\ \/ q.orb[k].st = "free"
                                 \/ q.orb[k].st = p.orb[k].st /\ q.orb[k].st \in {"queued", "bus", "free"}
    <2> SUFFICES ASSUME NEW k \in 1..OrbSize
                 PROVE  /\ "st" \in DOMAIN q.orb[k]
                        /\ \/ q.orb[k].st = "free"
                           \/ q.orb[k].st = p.orb[k].st /\ q.orb[k].st \in {"queued", "bus", "free"}
      OBVIOUS
    <2> DEFINE e == AgedEntry(p, k, Returned(p) \union TimedOut(p))
    <2>1. q.orb[k] = e  BY <1>1
    <2>2. "st" \in DOMAIN e /\ (e.st = "free" \/ (e.st = p.orb[k].st /\ e.st \in {"queued", "bus", "free"}))
      BY <1>2, AgedFacts
    <2> HIDE DEF e, q
    <2> QED  BY <2>1, <2>2
  <1>6. Claims(q) \subseteq C
    <2> HIDE DEF q
    <2> SUFFICES ASSUME NEW t \in Claims(q) PROVE t \in C  OBVIOUS
    <2>1. t \in (1..OrbSize) \X Nat /\ t[1] \in 1..OrbSize  BY DEF Claims
    <2>2. CASE t[2] = 0
      <3>1. q.orb[t[1]].st \in {"queued", "data"}  BY <2>2 DEF Claims
      <3>2. p.orb[t[1]].st = "queued"  BY <1>5, <2>1, <3>1
      <3> QED  BY <2>1, <2>2, <3>2 DEF Claims, Returned
    <2>3. CASE t[2] # 0
      <3>1. t[2] <= p.owedr[t[1]]  BY <1>1, <2>3 DEF Claims
      <3> QED  BY <2>1, <2>3, <3>1 DEF Claims
    <2> QED  BY <2>2, <2>3
  <1> HIDE DEF q, G, C, R
  <1>7. IsFiniteSet(Claims(q)) /\ Cardinality(Claims(q)) <= Cardinality(C) /\ Cardinality(Claims(q)) \in Nat
    BY <1>3, <1>6, FS_Subset, FS_CardinalityType
  <1>8. Cardinality(Claims(p)) <= p.num /\ Cardinality(Claims(p)) \in Nat
    BY <1>2, FS_CardinalityType DEF ClaimsOK
  <1>9. q.num \in 0..OrbSize /\ Cardinality(Claims(q)) <= q.num
    BY <1>1, <1>2, <1>3, <1>4, <1>7, <1>8, ProgramAssumption
  <1>10. EntriesOK(q)
    <2>1. DOMAIN q.orb = 1..OrbSize  BY <1>1
    <2>2. \A k \in 1..OrbSize : /\ "st" \in DOMAIN q.orb[k]
                                /\ q.orb[k].st \in {"free", "queued", "bus", "data"}
                                /\ q.orb[k].st = "bus" => q.owedr[k] >= 1
      BY <1>1, <1>2, <1>5 DEF EntriesOK
    <2> QED  BY <1>1, <1>2, <1>9, <2>1, <2>2 DEF EntriesOK
  <1>11. OrbOK(q)  BY <1>7, <1>9, <1>10 DEF OrbOK, ClaimsOK
  <1>12. PortOK(q)  BY <1>1, <1>11, IntKept, IoKept DEF PortOK
  <1> QED  BY <1>1, <1>12 DEF q

(* What the bus may bring: an answer that is owed, an acknowledgement of a *)
(* target, or a write to the iosync word.                                  *)
Offered(p, in) ==
    /\ in[1] \in {"data", "rderr"} => in[2] \in 1..OrbSize /\ p.owedr[in[2]] > 0
    /\ in[1] \in {"ACK", "NACK"} => in[2] \in Targets

LEMMA DataOK ==
    ASSUME NEW p, PortOK(p), NEW k \in 1..OrbSize, p.owedr[k] > 0
    PROVE  LET q == TakeData([p EXCEPT !.owedr[k] = @ - 1], k)
           IN PortOK(q) /\ q.pc = p.pc /\ q.nsync = p.nsync /\ q.st = p.st
  <1> DEFINE a == [p EXCEPT !.owedr[k] = @ - 1]
             q == TakeData(a, k)
             Others == /\ SameInt(p, q) /\ SameIo(p, q) /\ Fields \subseteq DOMAIN q
                       /\ q.pc = p.pc /\ q.nsync = p.nsync /\ q.st = p.st /\ q.num = p.num
                       /\ q.owedr = [p.owedr EXCEPT ![k] = @ - 1]
  <1>1. /\ EntriesOK(p) /\ ClaimsOK(p) /\ p.num \in Nat /\ p.owedr \in [1..OrbSize -> Nat]
        /\ OrbSize \in Nat
    BY ProgramAssumption DEF PortOK, OrbOK, EntriesOK
  <1>0. p.owedr[k] \in Nat /\ p.owedr[k] - 1 \in Nat
    <2>1. p.owedr[k] \in Nat  BY <1>1
    <2> QED  BY <2>1
  <1>2. /\ a.orb = p.orb /\ a.num = p.num /\ a.owedr = [p.owedr EXCEPT ![k] = @ - 1]
        /\ SameInt(p, a) /\ SameIo(p, a) /\ Fields \subseteq DOMAIN a
        /\ a.pc = p.pc /\ a.nsync = p.nsync /\ a.st = p.st
    BY DEF PortOK, Fields, SameInt, SameIo
  <1>3. Valid(a) = Valid(p)  BY <1>2 DEF Valid
  <1> HIDE DEF a
  <1>4. [p.owedr EXCEPT ![k] = @ - 1] \in [1..OrbSize -> Nat]  BY <1>0, <1>1
  <1>5. CASE k \in Valid(p)
    <2>1. q = [a EXCEPT !.orb[k].st = "data"]  BY <1>3, <1>5 DEF TakeData
    <2>2. q.orb = [p.orb EXCEPT ![k].st = "data"] /\ Others
      BY <1>2, <2>1 DEF Fields, SameInt, SameIo
    <2> HIDE DEF q
    <2>3. \A j \in 1..OrbSize : /\ "st" \in DOMAIN q.orb[j]
                                /\ q.orb[j].st = IF j = k THEN "data" ELSE p.orb[j].st
      BY <1>1, <2>2 DEF EntriesOK
    <2>4. EntriesOK(q)
      <3>1. DOMAIN q.orb = 1..OrbSize  BY <1>1, <2>2 DEF EntriesOK
      <3> QED  BY <1>1, <1>4, <2>2, <2>3, <3>1 DEF EntriesOK
    <2>5. <<k, p.owedr[k]>> \in Claims(p)  BY <1>0, <1>1 DEF Claims
    <2>6. Claims(q) \subseteq (Claims(p) \ {<<k, p.owedr[k]>>}) \cup {<<k, 0>>}
      <3> SUFFICES ASSUME NEW t \in Claims(q), t # <<k, 0>>
                   PROVE  t \in Claims(p) /\ t # <<k, p.owedr[k]>>
        OBVIOUS
      <3>1. t \in (1..OrbSize) \X Nat /\ t = <<t[1], t[2]>> /\ t[1] \in 1..OrbSize /\ t[2] \in Nat
        BY DEF Claims
      <3>2. CASE t[2] = 0  BY <1>1, <2>3, <3>1, <3>2 DEF Claims
      <3>3. CASE t[2] # 0
        <4>1. t[2] <= q.owedr[t[1]]  BY <3>3 DEF Claims
        <4>2. CASE t[1] = k
          <5>1. q.owedr[k] = p.owedr[k] - 1  BY <1>1, <2>2
          <5>2. t[2] < p.owedr[t[1]]  BY <1>0, <3>1, <4>1, <4>2, <5>1
          <5> QED  BY <1>0, <3>1, <3>3, <4>2, <5>2 DEF Claims
        <4>3. CASE t[1] # k
          <5>1. q.owedr[t[1]] = p.owedr[t[1]]  BY <1>1, <2>2, <3>1, <4>3
          <5> QED  BY <3>1, <3>3, <4>1, <4>3, <5>1 DEF Claims
        <4> QED  BY <4>2, <4>3
      <3> QED  BY <3>2, <3>3
    <2>7. ClaimsOK(q)  BY <1>1, <2>2, <2>5, <2>6, ClaimMoved
    <2>8. PortOK(q)
      <3>1. IntOK(q)  BY <2>2, IntKept DEF PortOK
      <3>2. IoOK(q)  BY <2>2, IoKept DEF PortOK
      <3> QED  BY <2>2, <2>4, <2>7, <3>1, <3>2 DEF PortOK, OrbOK
    <2> QED  BY <2>2, <2>8 DEF q, a
  <1>6. CASE k \notin Valid(p)
    <2>1. q = a  BY <1>3, <1>6 DEF TakeData
    <2>2. q.orb = p.orb /\ Others  BY <1>2, <2>1
    <2> HIDE DEF q
    <2>3. EntriesOK(q)
      <3>1. \A j \in 1..OrbSize : q.orb[j].st = "bus" => q.owedr[j] >= 1
        <4> SUFFICES ASSUME NEW j \in 1..OrbSize, q.orb[j].st = "bus" PROVE q.owedr[j] >= 1
          OBVIOUS
        <4>1. j # k  BY <1>6, <2>2 DEF Valid
        <4> QED  BY <1>1, <2>2, <4>1 DEF EntriesOK
      <3> QED  BY <1>1, <1>4, <2>2, <3>1 DEF EntriesOK
    <2>4. Claims(q) \subseteq Claims(p)
      <3> SUFFICES ASSUME NEW t \in Claims(q) PROVE t \in Claims(p)  OBVIOUS
      <3>1. t \in (1..OrbSize) \X Nat /\ t[1] \in 1..OrbSize /\ t[2] \in Nat  BY DEF Claims
      <3>2. q.owedr[t[1]] <= p.owedr[t[1]] /\ q.owedr[t[1]] \in Nat /\ p.owedr[t[1]] \in Nat
        <4>1. CASE t[1] = k  BY <1>0, <1>1, <2>2, <4>1
        <4>2. CASE t[1] # k
          <5>1. q.owedr[t[1]] = p.owedr[t[1]] /\ p.owedr[t[1]] \in Nat  BY <1>1, <2>2, <3>1, <4>2
          <5> QED  BY <5>1
        <4> QED  BY <4>1, <4>2
      <3> QED  BY <2>2, <3>1, <3>2 DEF Claims
    <2>5. ClaimsOK(q)  BY <1>1, <2>2, <2>4, ClaimsFewer
    <2>6. PortOK(q)
      <3>1. IntOK(q)  BY <2>2, IntKept DEF PortOK
      <3>2. IoOK(q)  BY <2>2, IoKept DEF PortOK
      <3> QED  BY <2>2, <2>3, <2>5, <3>1, <3>2 DEF PortOK, OrbOK
    <2> QED  BY <2>2, <2>6 DEF q, a
  <1> QED  BY <1>5, <1>6 DEF a

LEMMA ErrorOK ==
    ASSUME NEW p, PortOK(p), NEW k \in 1..OrbSize, p.owedr[k] > 0
    PROVE  LET q == ReportError([p EXCEPT !.owedr[k] = @ - 1], k)
           IN PortOK(q) /\ q.pc = p.pc /\ q.nsync = p.nsync /\ q.st = p.st
  <1> DEFINE q == ReportError([p EXCEPT !.owedr[k] = @ - 1], k)
  <1>1. /\ EntriesOK(p) /\ ClaimsOK(p) /\ p.num \in 0..OrbSize /\ p.owedr \in [1..OrbSize -> Nat]
        /\ OrbSize \in Nat
    BY ProgramAssumption DEF PortOK, OrbOK, EntriesOK
  <1>0. p.owedr[k] \in Nat /\ p.owedr[k] - 1 \in Nat
    <2>1. p.owedr[k] \in Nat  BY <1>1
    <2> QED  BY <2>1
  <1>2. /\ q.orb = [p.orb EXCEPT ![k] = FreeEntry] /\ q.num = p.num - 1
        /\ q.owedr = [p.owedr EXCEPT ![k] = @ - 1]
        /\ SameInt(p, q) /\ SameIo(p, q) /\ Fields \subseteq DOMAIN q
        /\ q.pc = p.pc /\ q.nsync = p.nsync /\ q.st = p.st
    BY DEF PortOK, Fields, SameInt, SameIo, ReportError, OrbRemove
  <1> HIDE DEF q
  <1>3. <<k, p.owedr[k]>> \in Claims(p)  BY <1>0, <1>1 DEF Claims
  <1>4. q.owedr \in [1..OrbSize -> Nat]  BY <1>0, <1>1, <1>2
  <1>5. \A j \in 1..OrbSize : q.orb[j] = IF j = k THEN FreeEntry ELSE p.orb[j]
    BY <1>1, <1>2 DEF EntriesOK
  <1>6. Claims(q) \subseteq Claims(p) \ {<<k, p.owedr[k]>>}
    <2> SUFFICES ASSUME NEW t \in Claims(q) PROVE t \in Claims(p) /\ t # <<k, p.owedr[k]>>
      OBVIOUS
    <2>1. t \in (1..OrbSize) \X Nat /\ t[1] \in 1..OrbSize /\ t[2] \in Nat  BY DEF Claims
    <2>2. CASE t[2] = 0
      <3>1. t[1] # k /\ p.orb[t[1]].st \in {"queued", "data"}
        BY <1>5, <2>1, <2>2 DEF Claims, FreeEntry
      <3> QED  BY <2>1, <2>2, <3>1 DEF Claims
    <2>3. CASE t[2] # 0
      <3>1. t[2] <= q.owedr[t[1]]  BY <2>3 DEF Claims
      <3>2. q.owedr[t[1]] = IF t[1] = k THEN p.owedr[k] - 1 ELSE p.owedr[t[1]]  BY <1>1, <1>2, <2>1
      <3>3. p.owedr[k] \in Nat /\ p.owedr[t[1]] \in Nat  BY <1>1, <2>1
      <3>4. t[2] <= p.owedr[t[1]] /\ (t[1] = k => t[2] < p.owedr[k])  BY <2>1, <3>1, <3>2, <3>3
      <3> QED  BY <2>1, <2>3, <3>3, <3>4 DEF Claims
    <2> QED  BY <2>2, <2>3
  <1>7. ClaimsOK(q) /\ q.num \in Nat  BY <1>1, <1>2, <1>3, <1>6, ClaimGone
  <1>8. EntriesOK(q)
    <2>1. \A j \in 1..OrbSize : /\ "st" \in DOMAIN q.orb[j]
                                /\ q.orb[j].st \in {"free", "queued", "bus", "data"}
                                /\ q.orb[j].st = "bus" => q.owedr[j] >= 1
      <3> SUFFICES ASSUME NEW j \in 1..OrbSize
                   PROVE  /\ "st" \in DOMAIN q.orb[j]
                          /\ q.orb[j].st \in {"free", "queued", "bus", "data"}
                          /\ q.orb[j].st = "bus" => q.owedr[j] >= 1
        OBVIOUS
      <3>1. CASE j = k  BY <1>5, <3>1 DEF FreeEntry
      <3>2. CASE j # k
        <4>1. q.orb[j] = p.orb[j] /\ q.owedr[j] = p.owedr[j]  BY <1>1, <1>2, <1>5, <3>2
        <4> QED  BY <1>1, <4>1 DEF EntriesOK
      <3> QED  BY <3>1, <3>2
    <2>2. DOMAIN q.orb = 1..OrbSize  BY <1>1, <1>2 DEF EntriesOK
    <2>3. q.num \in 0..OrbSize  BY <1>1, <1>2, <1>7, ProgramAssumption
    <2> QED  BY <1>4, <2>1, <2>2, <2>3 DEF EntriesOK
  <1> QED  BY <1>2, <1>7, <1>8, IntKept, IoKept DEF PortOK, OrbOK, q

(* A read that reaches the bus: its claim becomes that of an owed answer.  *)
LEMMA OnTheBusOK ==
    ASSUME NEW p, PortOK(p), NEW tr
    PROVE  LET q == OnTheBus(p, tr)
           IN PortOK(q) /\ q.pc = p.pc /\ q.nsync = p.nsync /\ q.st = p.st
  <1> DEFINE k == tr.k
             q == OnTheBus(p, tr)
             Read == tr.t = "NCRD" /\ p.orb[k].st = "queued"
  <1>1. CASE Read
    <2> DEFINE r == [p EXCEPT !.orb[k].st = "bus", !.orb[k].t = 1, !.owedr[k] = @ + 1]
    <2>1. q = r  BY <1>1 DEF OnTheBus
    <2>2. EntriesOK(p) /\ ClaimsOK(p) /\ p.num \in Nat /\ p.owedr \in [1..OrbSize -> Nat]
      BY ProgramAssumption DEF PortOK, OrbOK, EntriesOK
    <2>3. /\ r.orb = [p.orb EXCEPT ![k] = [[p.orb[k] EXCEPT !.st = "bus"] EXCEPT !.t = 1]]
          /\ r.num = p.num /\ r.owedr = [p.owedr EXCEPT ![k] = @ + 1]
          /\ SameInt(p, r) /\ SameIo(p, r) /\ Fields \subseteq DOMAIN r
          /\ r.pc = p.pc /\ r.nsync = p.nsync /\ r.st = p.st
      BY <2>2 DEF PortOK, Fields, SameInt, SameIo, EntriesOK
    <2> HIDE DEF r
    <2>4. CASE k \in 1..OrbSize
      <3>1. \A j \in 1..OrbSize : /\ "st" \in DOMAIN r.orb[j]
                                  /\ r.orb[j].st = IF j = k THEN "bus" ELSE p.orb[j].st
        BY <2>2, <2>3 DEF EntriesOK
      <3>0. p.owedr[k] \in Nat /\ p.owedr[k] + 1 \in Nat
        <4>1. p.owedr[k] \in Nat  BY <2>2, <2>4
        <4> QED  BY <4>1
      <3>2. r.owedr \in [1..OrbSize -> Nat]
            /\ \A j \in 1..OrbSize : r.owedr[j] = IF j = k THEN p.owedr[k] + 1 ELSE p.owedr[j]
        BY <2>2, <2>3, <3>0
      <3>3. EntriesOK(r)
        <4>1. DOMAIN r.orb = 1..OrbSize  BY <2>2, <2>3 DEF EntriesOK
        <4>2. \A j \in 1..OrbSize : r.owedr[j] >= p.owedr[j] /\ r.owedr[k] >= 1
          <5>1. \A j \in 1..OrbSize : p.owedr[j] \in Nat  BY <2>2
          <5> QED  BY <2>4, <3>0, <3>2, <5>1
        <4> QED  BY <2>2, <2>3, <3>1, <3>2, <4>1, <4>2 DEF EntriesOK
      <3>4. <<k, 0>> \in Claims(p)  BY <1>1, <2>4 DEF Claims
      <3>5. Claims(r) \subseteq (Claims(p) \ {<<k, 0>>}) \cup {<<k, p.owedr[k] + 1>>}
        <4> SUFFICES ASSUME NEW t \in Claims(r), t # <<k, p.owedr[k] + 1>>
                     PROVE  t \in Claims(p) /\ t # <<k, 0>>
          OBVIOUS
        <4>1. t \in (1..OrbSize) \X Nat /\ t = <<t[1], t[2]>> /\ t[1] \in 1..OrbSize /\ t[2] \in Nat
          BY DEF Claims
        <4>2. CASE t[2] = 0
          <5>1. r.orb[t[1]].st \in {"queued", "data"}  BY <4>2 DEF Claims
          <5>2. t[1] # k /\ p.orb[t[1]].st \in {"queued", "data"}  BY <3>1, <4>1, <5>1
          <5> QED  BY <4>1, <4>2, <5>2 DEF Claims
        <4>3. CASE t[2] # 0
          <5>1. t[2] <= r.owedr[t[1]]  BY <4>3 DEF Claims
          <5>2. p.owedr[t[1]] \in Nat /\ p.owedr[k] \in Nat  BY <2>2, <2>4, <4>1
          <5>3. t[2] <= p.owedr[t[1]]
            <6>1. CASE t[1] = k
              <7>1. t[2] # p.owedr[k] + 1  BY <4>1, <6>1
              <7> QED  BY <3>2, <4>1, <5>1, <5>2, <6>1, <7>1
            <6>2. CASE t[1] # k  BY <3>2, <4>1, <5>1, <6>2
            <6> QED  BY <6>1, <6>2
          <5> QED  BY <4>1, <4>3, <5>3 DEF Claims
        <4> QED  BY <4>2, <4>3
      <3>6. ClaimsOK(r)  BY <2>2, <2>3, <3>4, <3>5, ClaimMoved
      <3>7. PortOK(r)
        <4>1. IntOK(r)  BY <2>3, IntKept DEF PortOK
        <4>2. IoOK(r)  BY <2>3, IoKept DEF PortOK
        <4> QED  BY <2>3, <3>3, <3>6, <4>1, <4>2 DEF PortOK, OrbOK
      <3> QED  BY <2>1, <2>3, <3>7
    <2>5. CASE k \notin 1..OrbSize
      <3>1. /\ DOMAIN r.orb = 1..OrbSize
            /\ \A j \in 1..OrbSize : r.orb[j] = p.orb[j] /\ r.owedr[j] = p.owedr[j]
        BY <2>2, <2>3, <2>5 DEF EntriesOK
      <3>0. r.owedr \in [1..OrbSize -> Nat]  BY <2>2, <2>3, <2>5
      <3>2. EntriesOK(r)  BY <2>2, <2>3, <3>0, <3>1 DEF EntriesOK
      <3>3. Claims(r) \subseteq Claims(p)  BY <3>1 DEF Claims
      <3>4. ClaimsOK(r)  BY <2>2, <2>3, <3>3, ClaimsFewer
      <3>5. PortOK(r)
        <4>1. IntOK(r)  BY <2>3, IntKept DEF PortOK
        <4>2. IoOK(r)  BY <2>3, IoKept DEF PortOK
        <4> QED  BY <2>3, <3>2, <3>4, <4>1, <4>2 DEF PortOK, OrbOK
      <3> QED  BY <2>1, <2>3, <3>5
    <2> QED  BY <2>1, <2>3, <2>4, <2>5
  <1>2. CASE ~Read
    <2>1. q = p \/ q = [p EXCEPT !.owedi[tr.k] = @ + 1]  BY <1>2 DEF OnTheBus
    <2>2. Same(p, q) /\ q.pc = p.pc /\ q.nsync = p.nsync /\ q.st = p.st
      BY <2>1 DEF PortOK, Fields, Same, SameOrb, SameInt, SameIo
    <2> QED  BY <2>2, PortKept
  <1> QED  BY <1>1, <1>2

-----------------------------------------------------------------------------
(* The interrupts.                                                         *)

Held(p, q) == q.pc = p.pc /\ q.nsync = p.nsync /\ q.st = p.st
Beside(p, q) == Fields \subseteq DOMAIN q /\ SameOrb(p, q) /\ SameIo(p, q) /\ Held(p, q)
Live(e) == e.on /\ ~e.done /\ e.issued

(* An interrupt that becomes one issued and not over is counted up, one    *)
(* counted down was one.                                                   *)
LEMMA EntryOK ==
    ASSUME NEW p, PortOK(p), NEW t, NEW e, IntFields \subseteq DOMAIN e,
           NEW q, Beside(p, q), q.int = [p.int EXCEPT ![t] = e],
           \/ q.inum = p.inum /\ (Live(e) => t \in Issued(p))
           \/ q.inum = p.inum - 1 /\ ~Live(e) /\ t \in Issued(p)
           \/ q.inum = p.inum + 1
    PROVE  PortOK(q)
  <1>1. /\ DOMAIN p.int = Targets /\ p.inum \in Nat /\ Cardinality(Issued(p)) <= p.inum
        /\ \A u \in Targets : IntFields \subseteq DOMAIN p.int[u]
    BY DEF PortOK, IntOK
  <1>2. \A S \in SUBSET Targets : IsFiniteSet(S) /\ Cardinality(S) \in Nat
    <2>0. IsFiniteSet(1..LastTarget) /\ Targets \in SUBSET (1..LastTarget)
      BY ProgramAssumption, FS_Interval
    <2>1. IsFiniteSet(Targets)  BY <2>0, FS_Subset
    <2> QED  BY <2>1, FS_Subset, FS_CardinalityType
  <1>3. Issued(p) \in SUBSET Targets /\ Issued(q) \in SUBSET Targets
    BY DEF Issued
  <1>4. \A u \in Targets : q.int[u] = IF u = t THEN e ELSE p.int[u]
    BY <1>1
  <1>5. \A u \in Targets : u \in Issued(q) <=> Live(q.int[u])
    BY DEF Issued, IntBusy, Live
  <1>6. \A u \in Targets : u \in Issued(p) <=> Live(p.int[u])
    BY DEF Issued, IntBusy, Live
  <1>7. \A u \in Targets \ {t} : u \in Issued(q) <=> u \in Issued(p)
    BY <1>4, <1>5, <1>6
  <1>8. t \in Issued(q) => Live(e)
    BY <1>3, <1>4, <1>5
  <1>9. q.inum \in Nat /\ Cardinality(Issued(q)) <= q.inum
    <2>1. CASE q.inum = p.inum /\ (Live(e) => t \in Issued(p))
      <3>1. Issued(q) \subseteq Issued(p)  BY <1>3, <1>7, <1>8, <2>1
      <3>2. Cardinality(Issued(q)) <= Cardinality(Issued(p))  BY <1>2, <1>3, <3>1, FS_Subset
      <3> QED  BY <1>1, <1>2, <1>3, <2>1, <3>2
    <2>2. CASE q.inum = p.inum - 1 /\ ~Live(e) /\ t \in Issued(p)
      <3> DEFINE I == Issued(p) \ {t}
      <3>1. Issued(q) \subseteq I  BY <1>3, <1>7, <1>8, <2>2
      <3>2. Cardinality(I) = Cardinality(Issued(p)) - 1  BY <1>2, <1>3, <2>2, FS_RemoveElement
      <3>3. I \in SUBSET Targets  BY <1>3
      <3> HIDE DEF I
      <3>4. Cardinality(Issued(q)) <= Cardinality(I)  BY <1>2, <3>1, <3>3, FS_Subset
      <3> QED  BY <1>1, <1>2, <1>3, <2>2, <3>2, <3>3, <3>4
    <2>3. CASE q.inum = p.inum + 1
      <3> DEFINE I == Issued(p) \cup {t}
      <3>1. Issued(q) \subseteq I  BY <1>3, <1>7
      <3>2. IsFiniteSet(I) /\ Cardinality(I) = IF t \in Issued(p) THEN Cardinality(Issued(p))
                                               ELSE Cardinality(Issued(p)) + 1
        BY <1>2, <1>3, FS_AddElement, Zenon
      <3> HIDE DEF I
      <3>3. Cardinality(Issued(q)) <= Cardinality(I)  BY <3>1, <3>2, FS_Subset
      <3>4. Cardinality(Issued(p)) \in Nat /\ Cardinality(Issued(q)) \in Nat  BY <1>2, <1>3
      <3>5. Cardinality(I) <= Cardinality(Issued(p)) + 1 /\ Cardinality(I) \in Nat
        BY <3>2, <3>4
      <3> QED  BY <1>1, <2>3, <3>3, <3>4, <3>5
    <2> QED  BY <2>1, <2>2, <2>3
  <1>10. IntOK(q)
    <2>1. DOMAIN q.int = Targets  BY <1>1
    <2>2. \A u \in Targets : IntFields \subseteq DOMAIN q.int[u]  BY <1>1, <1>4
    <2> QED  BY <1>9, <2>1, <2>2 DEF IntOK
  <1> QED  BY <1>10, OrbKept, IoKept DEF PortOK, Beside

LEMMA PushIntOK ==
    ASSUME NEW p, PortOK(p)
    PROVE  PortOK(PushInt(p)) /\ Held(p, PushInt(p))
  <1>1. Same(p, PushInt(p)) /\ Held(p, PushInt(p))
    BY DEF PushInt, PortOK, Fields, Same, SameOrb, SameInt, SameIo, Held
  <1> QED  BY <1>1, PortKept

LEMMA IssueOK ==
    ASSUME NEW p, PortOK(p), NEW t \in Targets
    PROVE  PortOK(IssueInt(p, t)) /\ Held(p, IssueInt(p, t))
  <1> DEFINE e == [[[p.int[t] EXCEPT !.issued = TRUE] EXCEPT !.resp = "none"] EXCEPT !.delay = 0]
             q == [p EXCEPT !.int[t].issued = TRUE, !.int[t].resp = "none", !.int[t].delay = 0,
                            !.itr = t, !.inum = @ + 1]
  <1>1. IntFields \subseteq DOMAIN e  BY DEF PortOK, IntOK
  <1>2. q.int = [p.int EXCEPT ![t] = e] /\ q.inum = p.inum + 1
    BY DEF PortOK, IntOK, Fields
  <1>3. Beside(p, q) /\ Held(p, q)
    BY DEF PortOK, Fields, Beside, SameOrb, SameIo, Held
  <1> HIDE DEF e, q
  <1>4. PortOK(q)  BY <1>1, <1>2, <1>3, EntryOK
  <1>5. PortOK(PushInt(q)) /\ Held(q, PushInt(q))  BY <1>4, PushIntOK
  <1>6. IssueInt(p, t) = PushInt(q)  BY DEF IssueInt, q
  <1> QED  BY <1>3, <1>5, <1>6 DEF Held

LEMMA TargetOK ==
    ASSUME NEW p, PortOK(p), NEW t \in Targets
    PROVE  PortOK(IntTarget(p, t)) /\ Held(p, IntTarget(p, t))
  <1> DEFINE e == p.int[t]
             wait == [p EXCEPT !.int[t].delay = @ + 1]
             again == [p EXCEPT !.int[t].issued = FALSE, !.int[t].delay = 0, !.inum = @ - 1]
             once == [p EXCEPT !.int[t].rep = 0]
             more == [again EXCEPT !.int[t].resp = "none", !.int[t].acks = @ + 1]
             done == [p EXCEPT !.int[t].done = TRUE, !.inum = @ - 1]
             lost == [p EXCEPT !.int[t] = NoInt]
             tick == [p EXCEPT !.int[t].t = @ + 1]
             Good(q) == PortOK(q) /\ Held(p, q)
  <1>0. IntFields \subseteq DOMAIN p.int[t] /\ DOMAIN p.int = Targets /\ Fields \subseteq DOMAIN p
    BY DEF PortOK, IntOK
  <1>1. t \in Issued(p) <=> Live(e)  BY DEF Issued, IntBusy, Live
  <1>2. Good(p)  BY DEF Held
  <1>3. Good(wait)
    <2> DEFINE d == [e EXCEPT !.delay = @ + 1]
    <2>1. IntFields \subseteq DOMAIN d /\ (Live(d) => t \in Issued(p))  BY <1>0, <1>1 DEF Live, IntFields
    <2>2. wait.int = [p.int EXCEPT ![t] = d] /\ wait.inum = p.inum  BY <1>0 DEF Fields
    <2>3. Beside(p, wait)  BY <1>0 DEF Fields, Beside, SameOrb, SameIo, Held
    <2> HIDE DEF d, wait
    <2> QED  BY <2>1, <2>2, <2>3, EntryOK DEF Beside
  <1>4. Good(once)
    <2> DEFINE d == [e EXCEPT !.rep = 0]
    <2>1. IntFields \subseteq DOMAIN d /\ (Live(d) => t \in Issued(p))  BY <1>0, <1>1 DEF Live, IntFields
    <2>2. once.int = [p.int EXCEPT ![t] = d] /\ once.inum = p.inum  BY <1>0 DEF Fields
    <2>3. Beside(p, once)  BY <1>0 DEF Fields, Beside, SameOrb, SameIo, Held
    <2> HIDE DEF d, once
    <2> QED  BY <2>1, <2>2, <2>3, EntryOK DEF Beside
  <1>5. t \in Issued(p) => Good(again)
    <2> DEFINE d == [[e EXCEPT !.issued = FALSE] EXCEPT !.delay = 0]
    <2>1. IntFields \subseteq DOMAIN d /\ ~Live(d)  BY <1>0 DEF Live, IntFields
    <2>2. again.int = [p.int EXCEPT ![t] = d] /\ again.inum = p.inum - 1  BY <1>0 DEF Fields
    <2>3. Beside(p, again)  BY <1>0 DEF Fields, Beside, SameOrb, SameIo, Held
    <2> HIDE DEF d, again
    <2> QED  BY <2>1, <2>2, <2>3, EntryOK DEF Beside
  <1>6. t \in Issued(p) => Good(more)
    <2> SUFFICES ASSUME t \in Issued(p) PROVE Good(more)  OBVIOUS
    <2> DEFINE c == again.int[t]
               d == [[c EXCEPT !.resp = "none"] EXCEPT !.acks = @ + 1]
    <2>1. /\ IntFields \subseteq DOMAIN c /\ c.issued = FALSE /\ DOMAIN again.int = Targets
          /\ Fields \subseteq DOMAIN again
      BY <1>0 DEF IntFields, Fields
    <2>2. PortOK(again) /\ Held(p, again)  BY <1>5
    <2> HIDE DEF again
    <2>3. IntFields \subseteq DOMAIN d /\ ~Live(d)  BY <2>1 DEF Live, IntFields
    <2>4. more.int = [again.int EXCEPT ![t] = d] /\ more.inum = again.inum  BY <2>1 DEF Fields
    <2>5. Beside(again, more)  BY <2>1 DEF Fields, Beside, SameOrb, SameIo, Held
    <2> HIDE DEF c, d, more
    <2>6. PortOK(more)  BY <2>2, <2>3, <2>4, <2>5, EntryOK
    <2> QED  BY <2>2, <2>5, <2>6 DEF Beside, Held
  <1>7. t \in Issued(p) => Good(done)
    <2> DEFINE d == [e EXCEPT !.done = TRUE]
    <2>1. IntFields \subseteq DOMAIN d /\ ~Live(d)  BY <1>0 DEF Live, IntFields
    <2>2. done.int = [p.int EXCEPT ![t] = d] /\ done.inum = p.inum - 1  BY <1>0 DEF Fields
    <2>3. Beside(p, done)  BY <1>0 DEF Fields, Beside, SameOrb, SameIo, Held
    <2> HIDE DEF d, done
    <2> QED  BY <2>1, <2>2, <2>3, EntryOK DEF Beside
  <1>8. Good(lost)
    <2>1. IntFields \subseteq DOMAIN NoInt /\ ~Live(NoInt)  BY DEF Live, IntFields, NoInt
    <2>2. lost.int = [p.int EXCEPT ![t] = NoInt] /\ lost.inum = p.inum  BY <1>0 DEF Fields
    <2>3. Beside(p, lost)  BY <1>0 DEF Fields, Beside, SameOrb, SameIo, Held
    <2> HIDE DEF lost
    <2> QED  BY <2>1, <2>2, <2>3, EntryOK DEF Beside
  <1>9. Good(tick)
    <2> DEFINE d == [e EXCEPT !.t = @ + 1]
    <2>1. IntFields \subseteq DOMAIN d /\ (Live(d) => t \in Issued(p))  BY <1>0, <1>1 DEF Live, IntFields
    <2>2. tick.int = [p.int EXCEPT ![t] = d] /\ tick.inum = p.inum  BY <1>0 DEF Fields
    <2>3. Beside(p, tick)  BY <1>0 DEF Fields, Beside, SameOrb, SameIo, Held
    <2> HIDE DEF d, tick
    <2> QED  BY <2>1, <2>2, <2>3, EntryOK DEF Beside
  <1>10. Good(IssueInt(p, t))  BY IssueOK
  <1>11. Good(IssueInt(once, t))
    <2> HIDE DEF once
    <2> QED  BY <1>4, IssueOK DEF Held
  <1> DEFINE Free == CASE e.resp = "ACK" -> IF e.delay < e.rep THEN wait ELSE IssueInt(once, t)
                       [] e.resp = "NACK" -> IF e.delay < RetryDelay THEN wait ELSE IssueInt(p, t)
                       [] OTHER -> IssueInt(p, t)
             Out == CASE e.resp = "ACK" -> IF e.rep = 0 THEN done ELSE more
                      [] e.resp = "NACK" -> again
                      [] OTHER -> IF e.t + 1 >= IntTimeout THEN lost ELSE tick
  <1>12. IntTarget(p, t) = IF ~IntBusy(p, t) THEN p ELSE IF ~e.issued THEN Free ELSE Out
    BY DEF IntTarget
  <1>13. IntBusy(p, t) /\ e.issued => t \in Issued(p)  BY DEF Issued
  <1> HIDE DEF wait, again, once, more, done, lost, tick, Good, e
  <1>14. Good(Free)
    BY <1>3, <1>10, <1>11
  <1>15. t \in Issued(p) => Good(Out)
    BY <1>5, <1>6, <1>7, <1>8, <1>9
  <1> HIDE DEF Free, Out
  <1>16. Good(IntTarget(p, t))
    BY <1>2, <1>12, <1>13, <1>14, <1>15
  <1> QED  BY <1>16 DEF Good

(* The loop over the targets.                                              *)
LEMMA IntTurns ==
    ASSUME NEW p
    PROVE  \E f : /\ f = [t \in 0..LastTarget |-> IF t = 0 THEN p ELSE IntTurn(f[t-1], t)]
                  /\ IntCycle(p) = IF p.itr # 0 THEN PushInt(p) ELSE f[LastTarget]
  <1> DEFINE Made(f, n) == f = [t \in 0..n |-> IF t = 0 THEN p ELSE IntTurn(f[t-1], t)]
             G(n) == \E f : Made(f, n)
             B == {n \in 0..LastTarget : ~G(n)}
  <1>1. G(LastTarget)
    <2> SUFFICES ASSUME ~G(LastTarget) PROVE FALSE  OBVIOUS
    <2>1. LastTarget \in B  BY ProgramAssumption
    <2>2. PICK n \in B : \A k \in B : n <= k
      <3>1. B \in SUBSET Nat  OBVIOUS
      <3> HIDE DEF B
      <3> QED  BY <2>1, <3>1, SmallestOf
    <2>3. n # 0
      <3> DEFINE f == [t \in 0..0 |-> p]
      <3>1. Made(f, 0)  OBVIOUS
      <3> HIDE DEF f, Made
      <3> QED  BY <2>2, <3>1
    <2>4. n \in 1..LastTarget /\ n - 1 \in 0..LastTarget  BY <2>2, <2>3, ProgramAssumption
    <2>5. n - 1 \notin B
      <3> HIDE DEF B
      <3> QED  BY <2>2, <2>4
    <2>6. PICK f : Made(f, n - 1)  BY <2>4, <2>5
    <2> DEFINE g == [t \in 0..n |-> IF t = n THEN IntTurn(f[n-1], n) ELSE f[t]]
    <2>7. Made(g, n)
      <3>1. \A t \in 0..n : g[t] = IF t = 0 THEN p ELSE IntTurn(g[t-1], t)
        <4> SUFFICES ASSUME NEW t \in 0..n PROVE g[t] = IF t = 0 THEN p ELSE IntTurn(g[t-1], t)
          OBVIOUS
        <4>1. CASE t = n
          <5>1. g[t] = IntTurn(f[n-1], n) /\ g[n-1] = f[n-1] /\ t # 0  BY <2>4, <4>1
          <5> QED  BY <4>1, <5>1
        <4>2. CASE t # n
          <5>1. t \in 0..(n-1) /\ g[t] = f[t]  BY <2>4, <4>2
          <5>2. f[t] = IF t = 0 THEN p ELSE IntTurn(f[t-1], t)  BY <2>6, <5>1
          <5>3. t # 0 => g[t-1] = f[t-1]  BY <2>4, <5>1
          <5> QED  BY <5>1, <5>2, <5>3
        <4> QED  BY <4>1, <4>2
      <3> DEFINE h == [t \in 0..n |-> IF t = 0 THEN p ELSE IntTurn(g[t-1], t)]
      <3>2. \A t \in 0..n : g[t] = h[t]  BY <3>1
      <3>3. g = [t \in 0..n |-> g[t]] /\ h = [t \in 0..n |-> h[t]]  OBVIOUS
      <3> QED  BY <3>2
    <2> HIDE DEF g, Made
    <2> QED  BY <2>2, <2>7
  <1> DEFINE pass == CHOOSE f : Made(f, LastTarget)
  <1>2. Made(pass, LastTarget)
    <2> HIDE DEF Made
    <2> QED  BY <1>1
  <1>3. IntCycle(p) = IF p.itr # 0 THEN PushInt(p) ELSE pass[LastTarget]
    BY DEF IntCycle
  <1> HIDE DEF pass
  <1> QED  BY <1>2, <1>3

LEMMA IntCycleOK ==
    ASSUME NEW p, PortOK(p)
    PROVE  PortOK(IntCycle(p)) /\ Held(p, IntCycle(p))
  <1>1. PICK f : /\ f = [t \in 0..LastTarget |-> IF t = 0 THEN p ELSE IntTurn(f[t-1], t)]
                 /\ IntCycle(p) = IF p.itr # 0 THEN PushInt(p) ELSE f[LastTarget]
    BY IntTurns
  <1> DEFINE Good(n) == PortOK(f[n]) /\ Held(p, f[n])
             B == {n \in 0..LastTarget : ~Good(n)}
  <1>2. \A t \in 0..LastTarget : f[t] = IF t = 0 THEN p ELSE IntTurn(f[t-1], t)
    BY <1>1
  <1>3. Good(LastTarget)
    <2> SUFFICES ASSUME ~Good(LastTarget) PROVE FALSE  OBVIOUS
    <2>1. LastTarget \in B  BY ProgramAssumption
    <2>2. PICK n \in B : \A k \in B : n <= k
      <3>1. B \in SUBSET Nat  OBVIOUS
      <3> HIDE DEF B
      <3> QED  BY <2>1, <3>1, SmallestOf
    <2>3. n # 0
      <3>1. f[0] = p  BY <1>2, ProgramAssumption
      <3>2. Good(0)  BY <3>1 DEF Held
      <3> QED  BY <2>2, <3>2
    <2>4. n \in 1..LastTarget /\ n - 1 \in 0..LastTarget  BY <2>2, <2>3, ProgramAssumption
    <2>5. Good(n - 1)
      <3>1. n - 1 \notin B
        <4> HIDE DEF B
        <4> QED  BY <2>2, <2>4
      <3> HIDE DEF Good
      <3> QED  BY <2>4, <3>1
    <2>6. f[n] = IntTurn(f[n-1], n)  BY <1>2, <2>4
    <2>7. f[n] = f[n-1] \/ (n \in Targets /\ f[n] = IntTarget(f[n-1], n))
      <3>1. CASE f[n-1].itr # 0 \/ n \notin Targets
        <4>1. IntTurn(f[n-1], n) = f[n-1]  BY <3>1 DEF IntTurn
        <4> QED  BY <2>6, <4>1
      <3>2. CASE ~(f[n-1].itr # 0 \/ n \notin Targets)
        <4>1. IntTurn(f[n-1], n) = IntTarget(f[n-1], n)  BY <3>2 DEF IntTurn
        <4> QED  BY <2>6, <3>2, <4>1
      <3> QED  BY <3>1, <3>2
    <2>8. Good(n)
      <3>1. CASE f[n] = f[n-1]  BY <2>5, <3>1
      <3>2. CASE n \in Targets /\ f[n] = IntTarget(f[n-1], n)
        BY <2>5, <3>2, TargetOK DEF Held
      <3> QED  BY <2>7, <3>1, <3>2
    <2> QED  BY <2>2, <2>8
  <1>4. PortOK(PushInt(p)) /\ Held(p, PushInt(p))  BY PushIntOK
  <1> QED  BY <1>1, <1>3, <1>4

(* INT, and the acknowledgements.                                          *)
LEMMA NewOutgoingOK ==
    ASSUME NEW p, PortOK(p), NEW t, ~IntBusy(p, t), NEW rep
    PROVE  LET q == NewOutgoing(p, t, rep) IN PortOK(q) /\ Held(p, q)
  <1> DEFINE q == NewOutgoing(p, t, rep)
             e == [[NoInt EXCEPT !.on = TRUE] EXCEPT !.rep = rep]
  <1>1. IntFields \subseteq DOMAIN e /\ ~Live(e)  BY DEF IntFields, NoInt, Live
  <1>2. q.int = [p.int EXCEPT ![t] = e] /\ q.inum = p.inum  BY DEF PortOK, Fields, NewOutgoing
  <1>3. Beside(p, q)
    BY DEF PortOK, Fields, NewOutgoing, Beside, SameOrb, SameIo, Held
  <1> HIDE DEF q, e
  <1>4. PortOK(q)  BY <1>1, <1>2, <1>3, EntryOK
  <1> QED  BY <1>3, <1>4 DEF Beside, q

LEMMA AnswerOK ==
    ASSUME NEW p, PortOK(p), NEW t \in Targets, NEW r
    PROVE  LET q == NewIncoming([p EXCEPT !.owedi[t] = @ - 1], t, r) IN PortOK(q) /\ Held(p, q)
  <1> DEFINE a == [p EXCEPT !.owedi[t] = @ - 1]
             b == [a EXCEPT !.int[t].resp = r]
             q == NewIncoming(a, t, r)
             e == [p.int[t] EXCEPT !.resp = r]
  <1>1. Same(p, a) /\ Held(p, a)
    BY DEF PortOK, Fields, Same, SameOrb, SameInt, SameIo, Held
  <1>2. PortOK(a)  BY <1>1, PortKept
  <1>3. PortOK(b) /\ Held(p, b)
    <2>1. IntFields \subseteq DOMAIN e /\ DOMAIN p.int = Targets  BY DEF PortOK, IntOK
    <2>2. Live(e) => t \in Issued(p)
      <3>1. e.on = p.int[t].on /\ e.done = p.int[t].done /\ e.issued = p.int[t].issued
        BY DEF PortOK, IntOK, IntFields
      <3> HIDE DEF e
      <3> QED  BY <3>1 DEF Live, Issued, IntBusy
    <2>3. a.int = p.int /\ a.inum = p.inum /\ Fields \subseteq DOMAIN a
      BY <1>1 DEF Same, SameInt
    <2> HIDE DEF a
    <2>4. b.int = [p.int EXCEPT ![t] = e] /\ b.inum = p.inum
      BY <2>3 DEF Fields
    <2>5. Beside(a, b)  BY <2>3 DEF Fields, Beside, SameOrb, SameIo, Held
    <2>6. Beside(p, b)  BY <1>1, <2>5 DEF Beside, Same, SameOrb, SameIo, Held
    <2> HIDE DEF b, e
    <2>7. PortOK(b)  BY <2>1, <2>2, <2>4, <2>6, EntryOK
    <2> QED  BY <2>6, <2>7 DEF Beside
  <1>4. q = a \/ q = b  BY DEF NewIncoming
  <1> HIDE DEF a, b
  <1> QED  BY <1>1, <1>2, <1>3, <1>4 DEF a

LEMMA ClearOK ==
    ASSUME NEW p, PortOK(p)
    PROVE  PortOK(ClearACKed(p)) /\ Held(p, ClearACKed(p))
  <1> DEFINE q == ClearACKed(p)
  <1>1. /\ q.int = [t \in Targets |-> IF p.int[t].on /\ p.int[t].resp = "ACK" /\ p.int[t].done
                                      THEN NoInt ELSE p.int[t]]
        /\ q.inum = p.inum /\ Beside(p, q)
    BY DEF PortOK, Fields, ClearACKed, Beside, SameOrb, SameIo, Held
  <1> HIDE DEF q
  <1>2. Issued(q) = Issued(p)
    BY <1>1 DEF Issued, IntBusy, NoInt
  <1>3. \A t \in Targets : IntFields \subseteq DOMAIN q.int[t]
    BY <1>1 DEF PortOK, IntOK, NoInt, IntFields
  <1>4. IntOK(q)  BY <1>1, <1>2, <1>3 DEF IntOK, PortOK
  <1>5. PortOK(q)  BY <1>1, <1>4, OrbKept, IoKept DEF PortOK, Beside
  <1> QED  BY <1>1, <1>5 DEF Beside, q

-----------------------------------------------------------------------------
(* IOSYNC, and the rest of what a cycle does to a port.                    *)

LEMMA IosyncOK ==
    ASSUME NEW p, PortOK(p)
    PROVE  LET q == GetSyncState(p)
               v == IF IosyncPasses(p) THEN [q EXCEPT !.iop = @ + 1] ELSE q
           IN PortOK(v) /\ Held(p, v)
  <1> DEFINE q == GetSyncState(p)
             v == IF IosyncPasses(p) THEN [q EXCEPT !.iop = @ + 1] ELSE q
  <1>1. IoOK(p) /\ Fields \subseteq DOMAIN p  BY DEF PortOK
  <1>2. CASE IosyncPasses(p)
    <2>1. /\ q.io = "NONE" /\ q.iomem = FALSE /\ q.iop = p.iop /\ q.iow = p.iow
          /\ Fields \subseteq DOMAIN q /\ SameOrb(p, q) /\ SameInt(p, q) /\ Held(p, q)
      <3>1. CASE p.io = "DONE"
        <4>1. q = [p EXCEPT !.io = "NONE", !.iomem = FALSE]  BY <3>1 DEF GetSyncState
        <4> QED  BY <1>1, <4>1 DEF Fields, SameOrb, SameInt, Held
      <3>2. CASE p.io = "NONE" /\ p.iomem
        <4>1. q = [p EXCEPT !.iomem = FALSE]  BY <3>2 DEF GetSyncState
        <4> QED  BY <1>1, <3>2, <4>1 DEF Fields, SameOrb, SameInt, Held
      <3> QED  BY <1>2, <3>1, <3>2 DEF IosyncPasses
    <2>2. v = [q EXCEPT !.iop = @ + 1]  BY <1>2
    <2> HIDE DEF q
    <2>3. /\ v.io = "NONE" /\ v.iomem = FALSE /\ v.iop = p.iop + 1 /\ v.iow = p.iow
          /\ Fields \subseteq DOMAIN v /\ SameOrb(p, v) /\ SameInt(p, v) /\ Held(p, v)
      BY <2>1, <2>2 DEF Fields, SameOrb, SameInt, Held
    <2> HIDE DEF v
    <2>4. IoOK(v)
      <3>1. ~IosyncPasses(v)  BY <2>3 DEF IosyncPasses
      <3>2. p.iop \in Nat /\ p.iow \in Nat /\ p.iop < p.iow  BY <1>1, <1>2 DEF IoOK
      <3> QED  BY <2>3, <3>1, <3>2 DEF IoOK
    <2>5. PortOK(v)  BY <2>3, <2>4, OrbKept, IntKept DEF PortOK
    <2> QED  BY <2>3, <2>5 DEF v, q
  <1>3. CASE ~IosyncPasses(p)
    <2>1. v = q  BY <1>3
    <2>2. /\ q.io # "DONE" /\ (q.io = "NONE" => ~q.iomem) /\ q.iop = p.iop /\ q.iow = p.iow
          /\ Fields \subseteq DOMAIN q /\ SameOrb(p, q) /\ SameInt(p, q) /\ Held(p, q)
      <3>1. CASE p.io = "NONE" /\ ~p.iomem
        <4>1. q = [p EXCEPT !.io = "WAIT", !.iomem = TRUE]  BY <3>1 DEF GetSyncState
        <4> QED  BY <1>1, <4>1 DEF Fields, SameOrb, SameInt, Held
      <3>2. CASE p.io # "NONE"
        <4>1. q = p  BY <1>3, <3>2 DEF GetSyncState, IosyncPasses
        <4> QED  BY <1>1, <1>3, <3>2, <4>1 DEF IosyncPasses, SameOrb, SameInt, Held
      <3> QED  BY <1>3, <3>1, <3>2 DEF IosyncPasses
    <2> HIDE DEF q
    <2>3. IoOK(q)
      <3>1. ~IosyncPasses(q)  BY <2>2 DEF IosyncPasses
      <3> QED  BY <1>1, <2>2, <3>1 DEF IoOK
    <2>4. PortOK(q)  BY <2>2, <2>3, OrbKept, IntKept DEF PortOK
    <2> HIDE DEF v
    <2> QED  BY <2>1, <2>2, <2>4 DEF v, q
  <1> QED  BY <1>2, <1>3

LEMMA WriteOK ==
    ASSUME NEW p, PortOK(p), NEW x
    PROVE  PortOK(IosyncWrite(p, x)) /\ Held(p, IosyncWrite(p, x))
  <1> DEFINE q == IosyncWrite(p, x)
  <1>1. /\ q.iop = p.iop /\ q.iow = p.iow + 1
        /\ Fields \subseteq DOMAIN q /\ SameOrb(p, q) /\ SameInt(p, q) /\ Held(p, q)
    BY DEF PortOK, Fields, IosyncWrite, SameOrb, SameInt, Held
  <1>2. p.iop \in Nat /\ p.iow \in Nat /\ p.iop <= p.iow  BY DEF PortOK, IoOK
  <1> HIDE DEF q
  <1>3. IoOK(q)  BY <1>1, <1>2 DEF IoOK
  <1>4. PortOK(q)  BY <1>1, <1>3, OrbKept, IntKept DEF PortOK
  <1> QED  BY <1>1, <1>4 DEF q

LEMMA IncomingOK ==
    ASSUME NEW p, PortOK(p), NEW in, Offered(p, in)
    PROVE  PortOK(Incoming(p, in)) /\ Held(p, Incoming(p, in))
  <1> DEFINE q == Incoming(p, in)
             k == in[2]
             d == TakeData([p EXCEPT !.owedr[k] = @ - 1], k)
             r == ReportError([p EXCEPT !.owedr[k] = @ - 1], k)
             a == NewIncoming([p EXCEPT !.owedi[k] = @ - 1], k, in[1])
             Good(v) == PortOK(v) /\ Held(p, v)
  <1>1. q = CASE in[1] = "data" -> d [] in[1] = "rderr" -> r [] in[1] \in {"ACK", "NACK"} -> a
              [] in[1] = "iow" -> IosyncWrite(p, k) [] OTHER -> p
    BY DEF Incoming
  <1>2. in[1] = "data" => Good(d)  BY DataOK DEF Offered, Held
  <1>3. in[1] = "rderr" => Good(r)  BY ErrorOK DEF Offered, Held
  <1>4. in[1] \in {"ACK", "NACK"} => Good(a)  BY AnswerOK DEF Offered
  <1>5. Good(IosyncWrite(p, k))  BY WriteOK
  <1>6. Good(p)  BY DEF Held
  <1> HIDE DEF q, d, r, a, Good, k
  <1>7. Good(q)
    <2>1. CASE in[1] = "data"  BY <1>1, <1>2, <2>1
    <2>2. CASE in[1] = "rderr"  BY <1>1, <1>3, <2>2
    <2>3. CASE in[1] \in {"ACK", "NACK"}  BY <1>1, <1>4, <2>3
    <2>4. CASE in[1] = "iow"  BY <1>1, <1>5, <2>4
    <2>5. CASE in[1] \notin {"data", "rderr", "ACK", "NACK", "iow"}  BY <1>1, <1>6, <2>5
    <2> QED  BY <2>1, <2>2, <2>3, <2>4, <2>5
  <1> QED  BY <1>7 DEF Good, q

LEMMA OutSigsOK ==
    ASSUME NEW p0, PortOK(p0), NEW g
    PROVE  PortOK(ProcessOutSigs(p0, g)) /\ Held(p0, ProcessOutSigs(p0, g))
  <1> DEFINE p == [p0 EXCEPT !.put = "none"]
             h == Head(p.outq)
             busy == [p EXCEPT !.busy = @ - 1, !.ot = IF p.busy = 1 THEN NoTrans ELSE @]
             none == [p EXCEPT !.ot = NoTrans]
             wait == [p EXCEPT !.ot = h]
             sent == [p EXCEPT !.outq = Tail(@), !.busy = DataCycles(h.t), !.put = h.t,
                               !.ot = IF DataCycles(h.t) = 0 THEN NoTrans ELSE h]
             Good(q) == PortOK(q) /\ Held(p0, q)
             Near(q) == Same(p0, q) /\ Held(p0, q)
  <1>1. Near(p)  BY DEF PortOK, Fields, Same, SameOrb, SameInt, SameIo, Held
  <1>2. Near(busy)  BY DEF PortOK, Fields, Same, SameOrb, SameInt, SameIo, Held
  <1>3. Near(none)  BY DEF PortOK, Fields, Same, SameOrb, SameInt, SameIo, Held
  <1>4. Near(wait)  BY DEF PortOK, Fields, Same, SameOrb, SameInt, SameIo, Held
  <1>5. Near(sent)  BY DEF PortOK, Fields, Same, SameOrb, SameInt, SameIo, Held
  <1>6. ProcessOutSigs(p0, g) = IF p.busy > 0 THEN busy ELSE IF p.st = "CHANGE" THEN p
                                ELSE IF p.outq = <<>> THEN none
                                ELSE IF ~g THEN wait ELSE OnTheBus(sent, h)
    BY DEF ProcessOutSigs
  <1> HIDE DEF busy, none, wait, sent, p
  <1>7. Good(p) /\ Good(busy) /\ Good(none) /\ Good(wait) /\ Good(sent)
    BY <1>1, <1>2, <1>3, <1>4, <1>5, PortKept
  <1>8. Good(OnTheBus(sent, h))
    <2> HIDE DEF h
    <2>1. PortOK(OnTheBus(sent, h)) /\ Held(sent, OnTheBus(sent, h))
      BY <1>7, OnTheBusOK DEF Held
    <2> QED  BY <1>7, <2>1 DEF Held
  <1> HIDE DEF Good, h
  <1>9. Good(ProcessOutSigs(p0, g))  BY <1>6, <1>7, <1>8
  <1> QED  BY <1>9 DEF Good

(* SJM::Reset keeps int_num_outgoing and the iosync state.                 *)
LEMMA ResetOK ==
    ASSUME NEW p, PortOK(p)
    PROVE  /\ PortOK(Reset(p)) /\ Reset(p).nsync = 0 /\ Reset(p).st = p.st /\ Reset(p).pc = 1
  <1> DEFINE q == Reset(p)
  <1>1. /\ q.orb = [k \in 1..OrbSize |-> FreeEntry] /\ q.num = 0
        /\ q.owedr = [k \in 1..OrbSize |-> 0]
        /\ q.int = [t \in Targets |-> NoInt] /\ q.inum = p.inum
        /\ SameIo(p, q) /\ Fields \subseteq DOMAIN q
        /\ q.nsync = 0 /\ q.st = p.st /\ q.pc = 1
    BY DEF PortOK, Fields, Reset, SameIo
  <1> HIDE DEF q
  <1>2. EntriesOK(q)  BY <1>1, ProgramAssumption DEF EntriesOK, FreeEntry
  <1>3. Claims(q) = {}  BY <1>1 DEF Claims, FreeEntry
  <1>4. ClaimsOK(q)  BY <1>1, <1>3, FS_EmptySet DEF ClaimsOK
  <1>5. Issued(q) = {}  BY <1>1 DEF Issued, IntBusy, NoInt
  <1>6. Cardinality(Issued(q)) = 0  BY <1>5, FS_EmptySet
  <1>7. IntOK(q)
    <2>1. p.inum \in Nat  BY DEF PortOK, IntOK
    <2>2. \A t \in Targets : IntFields \subseteq DOMAIN q.int[t]  BY <1>1 DEF NoInt, IntFields
    <2> QED  BY <1>1, <1>6, <2>1, <2>2 DEF IntOK
  <1>8. PortOK(q)  BY <1>1, <1>2, <1>4, <1>7, IoKept DEF PortOK, OrbOK
  <1> QED  BY <1>1, <1>8 DEF q

-----------------------------------------------------------------------------
(* The commands.                                                           *)

(* What sjmCycle works on, for port i; a command other than SYNC leaves    *)
(* the sync devices and the count of SYNCs alone.                          *)
WorkOK(i, w) ==
    /\ {"p", "sy", "ok"} \subseteq DOMAIN w
    /\ PortOK(w.p)
    /\ w.p.pc \in 0..Len(prog[i])
Quiet(w, v) == v.sy = w.sy /\ v.p.nsync = w.p.nsync
Near(w, v) == {"p", "sy", "ok"} \subseteq DOMAIN v /\ v.sy = w.sy /\ Same(w.p, v.p) /\ Held(w.p, v.p)

LEMMA NearOK ==
    ASSUME NEW i, NEW w, WorkOK(i, w), NEW v, Near(w, v)
    PROVE  WorkOK(i, v) /\ Quiet(w, v)
  <1>1. PortOK(v.p)  BY PortKept DEF WorkOK, Near
  <1> QED  BY <1>1 DEF WorkOK, Near, Quiet, Held

LEMMA NextOK ==
    ASSUME NEW i, Runnable(prog[i]), NEW p, PortOK(p), p.pc \in 0..Len(prog[i])
    PROVE  LET q == NextCmd(i, p)
           IN PortOK(q) /\ q.pc \in 0..Len(prog[i]) /\ q.nsync = p.nsync /\ q.st = p.st
  <1> DEFINE q == NextCmd(i, p)
  <1>1. /\ Same(p, q) /\ q.nsync = p.nsync /\ q.st = p.st
        /\ q.pc = IF p.pc = 0 \/ p.pc = Len(prog[i]) THEN 0 ELSE p.pc + 1
    BY DEF NextCmd, PortOK, Fields, Same, SameOrb, SameInt, SameIo
  <1> HIDE DEF q
  <1>2. PortOK(q)  BY <1>1, PortKept
  <1>3. q.pc \in 0..Len(prog[i])  BY <1>1 DEF Runnable
  <1> QED  BY <1>1, <1>2, <1>3 DEF q

LEMMA BranchOK ==
    ASSUME NEW i, Runnable(prog[i]), NEW w, WorkOK(i, w), w.p.pc # 0
    PROVE  WorkOK(i, Branch(i, w)) /\ Quiet(w, Branch(i, w))
  <1> DEFINE q == BranchCmd(i, w.p)
  <1>1. Same(w.p, q) /\ q.nsync = w.p.nsync /\ q.st = w.p.st /\ q.pc = prog[i][w.p.pc].branch
    BY DEF WorkOK, BranchCmd, Cmd, PortOK, Fields, Same, SameOrb, SameInt, SameIo
  <1>2. w.p.pc \in DOMAIN prog[i]  BY DEF WorkOK, Runnable
  <1> HIDE DEF q
  <1>3. PortOK(q)  BY <1>1, PortKept DEF WorkOK
  <1>4. q.pc \in 0..Len(prog[i])  BY <1>1, <1>2 DEF Runnable
  <1>5. Branch(i, w) = [w EXCEPT !.p = q]  BY DEF Branch, q
  <1> QED  BY <1>1, <1>3, <1>4, <1>5 DEF WorkOK, Quiet

LEMMA PushOK ==
    ASSUME NEW i, Runnable(prog[i]), NEW w, WorkOK(i, w)
    PROVE  WorkOK(i, PushTrans(i, w)) /\ Quiet(w, PushTrans(i, w))
  <1> DEFINE r == [w.p EXCEPT !.outq = Append(@, w.p.tr), !.tr = [t |-> "none", k |-> 0]]
             Good(v) == WorkOK(i, v) /\ Quiet(w, v)
             full == [w EXCEPT !.ok = FALSE]
             none == [w EXCEPT !.p = NextCmd(i, w.p)]
             sent == [w EXCEPT !.p = NextCmd(i, r)]
  <1>1. Same(w.p, r) /\ Held(w.p, r)
    BY DEF WorkOK, PortOK, Fields, Same, SameOrb, SameInt, SameIo, Held
  <1> HIDE DEF r
  <1>2. Good(full)  BY DEF WorkOK, Quiet
  <1>3. Good(none)
    <2>1. /\ PortOK(NextCmd(i, w.p)) /\ NextCmd(i, w.p).pc \in 0..Len(prog[i])
          /\ NextCmd(i, w.p).nsync = w.p.nsync /\ NextCmd(i, w.p).st = w.p.st
      BY NextOK DEF WorkOK
    <2> QED  BY <2>1 DEF WorkOK, Quiet
  <1>4. Good(sent)
    <2>1. PortOK(r) /\ r.pc \in 0..Len(prog[i])  BY <1>1, PortKept DEF WorkOK, Held
    <2>2. /\ PortOK(NextCmd(i, r)) /\ NextCmd(i, r).pc \in 0..Len(prog[i])
          /\ NextCmd(i, r).nsync = r.nsync /\ NextCmd(i, r).st = r.st
      BY <2>1, NextOK
    <2> QED  BY <1>1, <2>2 DEF WorkOK, Quiet, Held
  <1>5. PushTrans(i, w) = IF w.p.tr.t = "none" THEN none
                          ELSE IF Len(w.p.outq) = OutqDepth THEN full ELSE sent
    BY DEF PushTrans, r
  <1> HIDE DEF Good, full, none, sent
  <1>6. Good(PushTrans(i, w))  BY <1>2, <1>3, <1>4, <1>5
  <1> QED  BY <1>6 DEF Good

(* A command that hands the port over to PushTrans with nothing changed    *)
(* that counts.                                                            *)
LEMMA NearPush ==
    ASSUME NEW i, Runnable(prog[i]), NEW w, WorkOK(i, w), NEW v, Near(w, v)
    PROVE  WorkOK(i, PushTrans(i, v)) /\ Quiet(w, PushTrans(i, v))
  <1>1. WorkOK(i, v) /\ Quiet(w, v)  BY NearOK
  <1>2. WorkOK(i, PushTrans(i, v)) /\ Quiet(v, PushTrans(i, v))  BY <1>1, PushOK
  <1> QED  BY <1>1, <1>2 DEF Quiet

LEMMA PortPush ==
    ASSUME NEW i, Runnable(prog[i]), NEW w, WorkOK(i, w), NEW q, PortOK(q), Held(w.p, q)
    PROVE  LET v == [w EXCEPT !.p = q]
           IN /\ WorkOK(i, v) /\ Quiet(w, v)
              /\ WorkOK(i, PushTrans(i, v)) /\ Quiet(w, PushTrans(i, v))
              /\ w.p.pc # 0 => WorkOK(i, Branch(i, v)) /\ Quiet(w, Branch(i, v))
  <1> DEFINE v == [w EXCEPT !.p = q]
  <1>1. WorkOK(i, v) /\ Quiet(w, v) /\ v.p.pc = w.p.pc  BY DEF WorkOK, Quiet, Held
  <1> HIDE DEF v
  <1>2. WorkOK(i, PushTrans(i, v)) /\ Quiet(v, PushTrans(i, v))  BY <1>1, PushOK
  <1>3. w.p.pc # 0 => WorkOK(i, Branch(i, v)) /\ Quiet(v, Branch(i, v))  BY <1>1, BranchOK
  <1> QED  BY <1>1, <1>2, <1>3 DEF Quiet, v

LEMMA WaitOK ==
    ASSUME NEW i, Runnable(prog[i]), NEW w, WorkOK(i, w)
    PROVE  WorkOK(i, WaitCmd(i, w)) /\ Quiet(w, WaitCmd(i, w))
  <1>1. Near(w, [w EXCEPT !.p.wait = @ + 1]) /\ Near(w, [w EXCEPT !.p.wait = 0])
    BY DEF WorkOK, PortOK, Near, Fields, Same, SameOrb, SameInt, SameIo, Held
  <1> DEFINE more == [w EXCEPT !.p.wait = @ + 1]
             over == [w EXCEPT !.p.wait = 0]
  <1>2. WaitCmd(i, w) = IF w.p.wait # w.p.cycles[w.p.pc] THEN more ELSE PushTrans(i, over)
    BY DEF WaitCmd
  <1> HIDE DEF more, over
  <1>3. WorkOK(i, more) /\ Quiet(w, more)  BY <1>1, NearOK DEF more
  <1>4. WorkOK(i, PushTrans(i, over)) /\ Quiet(w, PushTrans(i, over))  BY <1>1, NearPush DEF over
  <1> QED  BY <1>2, <1>3, <1>4

LEMMA BusOK ==
    ASSUME NEW i, Runnable(prog[i]), NEW w, WorkOK(i, w), NEW b
    PROVE  /\ WorkOK(i, BusCheckCmd(i, w, b)) /\ Quiet(w, BusCheckCmd(i, w, b))
           /\ WorkOK(i, BusWaitCmd(i, w, b)) /\ Quiet(w, BusWaitCmd(i, w, b))
  <1> DEFINE over == [w EXCEPT !.p.wait = 0]
             more == [w EXCEPT !.p.wait = @ + 1]
             left == [w EXCEPT !.p.bw = w.p.pc, !.p.cycles[w.p.pc] = @ + cyc, !.p.wait = 0]
             Good(v) == WorkOK(i, v) /\ Quiet(w, v)
  <1>1. Near(w, over) /\ Near(w, more)
    BY DEF WorkOK, PortOK, Near, Fields, Same, SameOrb, SameInt, SameIo, Held
  <1>2. Near(w, left)
    BY DEF WorkOK, PortOK, Near, Fields, Same, SameOrb, SameInt, SameIo, Held
  <1>3. BusCheckCmd(i, w, b) = CASE b = "match" -> PushTrans(i, over) [] b = "type" -> w
                                 [] OTHER -> WaitCmd(i, w)
    BY DEF BusCheckCmd, Stay
  <1>4. BusWaitCmd(i, w, b) = IF b = "match" THEN PushTrans(i, over)
                              ELSE IF w.p.wait = w.p.cycles[w.p.pc] THEN w
                              ELSE IF Cmd(i, w.p).queue /\ w.p.bw = 0 THEN PushTrans(i, left)
                              ELSE more
    BY DEF BusWaitCmd, Stay
  <1> HIDE DEF over, more, left
  <1>5. Good(PushTrans(i, over)) /\ Good(PushTrans(i, left)) /\ Good(more)
    BY <1>1, <1>2, NearPush, NearOK
  <1>6. Good(w)  BY DEF Quiet
  <1>7. Good(WaitCmd(i, w))  BY WaitOK
  <1> HIDE DEF Good
  <1>8. Good(BusCheckCmd(i, w, b))
    <2>1. CASE b = "match"  BY <1>3, <1>5, <2>1
    <2>2. CASE b = "type"  BY <1>3, <1>6, <2>2
    <2>3. CASE b # "match" /\ b # "type"  BY <1>3, <1>7, <2>3
    <2> QED  BY <2>1, <2>2, <2>3
  <1>9. Good(BusWaitCmd(i, w, b))  BY <1>4, <1>5, <1>6
  <1> QED  BY <1>8, <1>9 DEF Good

(* SYNC.                                                                   *)
SyncStep(i, sy, n, ids, sy2, n2) ==
    LET polled == [sy EXCEPT ![i] = Polled(sy[i])]
        begun == sync_initiate(polled, i, ids)
    IN \/ sy[i].state = "FINISHED" /\ sy2 = polled /\ n2 = n + 1
       \/ /\ sy[i].state \notin {"FINISHED", "WAITING", "FOUNDDEV"}
          /\ sy2 = begun
          /\ n2 = IF begun[i].waiting THEN n ELSE n + 1
Synced(i, w, v) ==
    \E k \in DOMAIN prog[i] :
        /\ prog[i][k].op = "SYNC"
        /\ SyncStep(i, w.sy, w.p.nsync, prog[i][k].ids, v.sy, v.p.nsync)
Turned(i, w, v) == Quiet(w, v) \/ Synced(i, w, v)

LEMMA SyncOK ==
    ASSUME NEW i, Runnable(prog[i]), NEW w, WorkOK(i, w), Op(i, w.p) = "SYNC"
    PROVE  WorkOK(i, SyncCmd(i, w)) /\ Turned(i, w, SyncCmd(i, w))
  <1> DEFINE s == w.sy[i]
             polled == [w.sy EXCEPT ![i] = Polled(s)]
             ids == Cmd(i, w.p).ids
             begun == sync_initiate(polled, i, ids)
             Next(sy) == [w EXCEPT !.sy = sy, !.p.nsync = @ + 1]
             Wait(sy) == [w EXCEPT !.sy = sy]
             Step(v) == SyncStep(i, w.sy, w.p.nsync, ids, v.sy, v.p.nsync)
  <1>1. w.p.pc \in DOMAIN prog[i] /\ ids = prog[i][w.p.pc].ids /\ prog[i][w.p.pc].op = "SYNC"
    BY DEF Op, Cmd, WorkOK, Runnable
  <1>2. \A v : Step(v) => Synced(i, w, v)
    BY <1>1 DEF Synced
  <1>3. \A sy : /\ WorkOK(i, Next(sy)) /\ Next(sy).sy = sy /\ Next(sy).p.nsync = w.p.nsync + 1
    <2> SUFFICES ASSUME NEW sy
                 PROVE  /\ WorkOK(i, Next(sy)) /\ Next(sy).sy = sy /\ Next(sy).p.nsync = w.p.nsync + 1
      OBVIOUS
    <2>1. /\ {"p", "sy", "ok"} \subseteq DOMAIN Next(sy) /\ Next(sy).sy = sy
          /\ Next(sy).p = [w.p EXCEPT !.nsync = @ + 1]
      BY DEF WorkOK
    <2>2. /\ Same(w.p, Next(sy).p) /\ Next(sy).p.pc = w.p.pc
          /\ Next(sy).p.nsync = w.p.nsync + 1
      BY <2>1 DEF WorkOK, PortOK, Fields, Same, SameOrb, SameInt, SameIo
    <2> HIDE DEF Next
    <2>3. PortOK(Next(sy).p)  BY <2>2, PortKept DEF WorkOK
    <2> QED  BY <2>1, <2>2, <2>3 DEF WorkOK
  <1>4. \A sy : WorkOK(i, Wait(sy)) /\ Wait(sy).sy = sy /\ Wait(sy).p = w.p
    BY DEF WorkOK
  <1>5. SyncCmd(i, w) = CASE s.state = "FINISHED" -> PushTrans(i, Next(polled))
                          [] s.state \in {"WAITING", "FOUNDDEV"} -> w
                          [] OTHER -> IF begun[i].waiting THEN Wait(begun) ELSE PushTrans(i, Next(begun))
    BY Zenon DEF SyncCmd, Stay
  <1>6. \A v : WorkOK(i, v) => WorkOK(i, PushTrans(i, v)) /\ Quiet(v, PushTrans(i, v))
    BY PushOK
  <1>7. CASE s.state = "FINISHED"
    <2> DEFINE v == PushTrans(i, Next(polled))
    <2>1. SyncCmd(i, w) = v  BY <1>5, <1>7
    <2>2. WorkOK(i, v) /\ v.sy = polled /\ v.p.nsync = w.p.nsync + 1
      <3> HIDE DEF Next, polled
      <3> QED  BY <1>3, <1>6 DEF Quiet
    <2> HIDE DEF v, Next
    <2>3. Step(v)  BY <1>7, <2>2 DEF SyncStep
    <2> QED  BY <1>2, <2>1, <2>2, <2>3 DEF Turned
  <1>8. CASE s.state \in {"WAITING", "FOUNDDEV"}
    <2>1. SyncCmd(i, w) = w  BY <1>5, <1>8
    <2> QED  BY <2>1 DEF Turned, Quiet
  <1>9. CASE s.state \notin {"FINISHED", "WAITING", "FOUNDDEV"}
    <2>1. CASE begun[i].waiting
      <3>1. SyncCmd(i, w) = Wait(begun)  BY <1>5, <1>9, <2>1
      <3>2. WorkOK(i, Wait(begun)) /\ Wait(begun).sy = begun /\ Wait(begun).p = w.p
        <4> HIDE DEF Wait, begun
        <4> QED  BY <1>4
      <3> HIDE DEF Wait
      <3>3. Step(Wait(begun))  BY <1>9, <2>1, <3>2 DEF SyncStep
      <3> QED  BY <1>2, <3>1, <3>2, <3>3 DEF Turned
    <2>2. CASE ~begun[i].waiting
      <3> DEFINE v == PushTrans(i, Next(begun))
      <3>1. SyncCmd(i, w) = v  BY <1>5, <1>9, <2>2
      <3>2. WorkOK(i, v) /\ v.sy = begun /\ v.p.nsync = w.p.nsync + 1
        <4> HIDE DEF Next, begun
        <4> QED  BY <1>3, <1>6 DEF Quiet
      <3> HIDE DEF v, Next
      <3>3. Step(v)  BY <1>9, <2>2, <3>2 DEF SyncStep
      <3> QED  BY <1>2, <3>1, <3>2, <3>3 DEF Turned
    <2> QED  BY <2>1, <2>2
  <1> QED  BY <1>7, <1>8, <1>9

LEMMA OtherCmds ==
    ASSUME NEW i, Runnable(prog[i]), NEW w, WorkOK(i, w)
    PROVE  /\ WorkOK(i, IosyncCmd(i, w)) /\ Quiet(w, IosyncCmd(i, w))
           /\ WorkOK(i, IntCmd(i, w)) /\ Quiet(w, IntCmd(i, w))
           /\ WorkOK(i, ReadIoCmd(i, w)) /\ Quiet(w, ReadIoCmd(i, w))
           /\ \A op : w.p.pc # 0 => /\ WorkOK(i, IntBranchCmd(i, w, op))
                                    /\ Quiet(w, IntBranchCmd(i, w, op))
  <1> DEFINE Good(v) == WorkOK(i, v) /\ Quiet(w, v)
  <1>1. Good(w)  BY DEF Quiet
  <1>2. PortOK(w.p)  BY DEF WorkOK
  <1>3. Good(PushTrans(i, w))  BY PushOK
  <1>4. w.p.pc # 0 => Good(Branch(i, w))  BY BranchOK
  <1>5. Good(IosyncCmd(i, w))
    <2> DEFINE p == w.p
               q == GetSyncState(p)
               v == IF IosyncPasses(p) THEN [q EXCEPT !.iop = @ + 1] ELSE q
    <2>1. PortOK(v) /\ Held(w.p, v)  BY <1>2, IosyncOK
    <2>2. IosyncCmd(i, w) = IF IosyncPasses(p) THEN PushTrans(i, [w EXCEPT !.p = v])
                            ELSE [w EXCEPT !.p = v]
      BY DEF IosyncCmd
    <2> HIDE DEF v
    <2>3. Good([w EXCEPT !.p = v]) /\ Good(PushTrans(i, [w EXCEPT !.p = v]))
      BY <2>1, PortPush
    <2> HIDE DEF Good
    <2> QED  BY <2>2, <2>3
  <1>6. Good(IntCmd(i, w))
    <2> DEFINE Target == CHOOSE t \in Cmd(i, w.p).ids : TRUE
               q == NewOutgoing(w.p, Target, Cmd(i, w.p).n)
    <2>1. IntCmd(i, w) = IF IntBusy(w.p, Target) THEN w ELSE PushTrans(i, [w EXCEPT !.p = q])
      BY DEF IntCmd, Stay
    <2>2. ~IntBusy(w.p, Target) => PortOK(q) /\ Held(w.p, q)
      <3> HIDE DEF Target
      <3> QED  BY <1>2, NewOutgoingOK
    <2> HIDE DEF q, Target
    <2>3. ~IntBusy(w.p, Target) => Good(PushTrans(i, [w EXCEPT !.p = q]))
      BY <2>2, PortPush
    <2> HIDE DEF Good
    <2> QED  BY <1>1, <2>1, <2>3
  <1>7. Good(ReadIoCmd(i, w))
    <2> DEFINE q == OrbAdd(w.p, Cmd(i, w.p).cc)
    <2>1. ReadIoCmd(i, w) = IF rdrWritePending(w.p) \/ OrbFull(w.p) THEN w
                            ELSE PushTrans(i, [w EXCEPT !.p = q])
      BY DEF ReadIoCmd, Stay
    <2>2. ~OrbFull(w.p) => PortOK(q) /\ Held(w.p, q)
      BY <1>2, AddOK DEF Held
    <2> HIDE DEF q
    <2>3. ~OrbFull(w.p) => Good(PushTrans(i, [w EXCEPT !.p = q]))
      BY <2>2, PortPush
    <2> HIDE DEF Good
    <2> QED  BY <1>1, <2>1, <2>3
  <1>8. ASSUME NEW op, w.p.pc # 0
        PROVE  Good(IntBranchCmd(i, w, op))
    <2> DEFINE q == ClearACKed(w.p)
    <2>1. PortOK(q) /\ Held(w.p, q)  BY <1>2, ClearOK
    <2>2. IntBranchCmd(i, w, op) =
              IF w.p.inum > 0 THEN w
              ELSE IF op = "BI"
                   THEN IF CheckForACK(w.p) THEN Branch(i, [w EXCEPT !.p = q]) ELSE PushTrans(i, w)
                   ELSE IF CheckForNACK(w.p) THEN Branch(i, w) ELSE PushTrans(i, w)
      BY DEF IntBranchCmd, Stay
    <2> HIDE DEF q
    <2>3. Good(Branch(i, [w EXCEPT !.p = q]))  BY <1>8, <2>1, PortPush
    <2> HIDE DEF Good
    <2> QED  BY <1>1, <1>3, <1>4, <1>8, <2>2, <2>3
  <1> HIDE DEF Good
  <1>9. \A op : w.p.pc # 0 => Good(IntBranchCmd(i, w, op))  BY <1>8
  <1> QED  BY <1>5, <1>6, <1>7, <1>9 DEF Good

LEMMA DispatchOK ==
    ASSUME NEW i, Runnable(prog[i]), NEW w, WorkOK(i, w), NEW e
    PROVE  WorkOK(i, Dispatch(i, w, e)) /\ Turned(i, w, Dispatch(i, w, e))
  <1> DEFINE op == Op(i, w.p)
             Good(v) == WorkOK(i, v) /\ Turned(i, w, v)
             Sent == [w EXCEPT !.p.tr = [t |-> TransOf(op), k |-> 0]]
             held == op = "WRITEMSK" /\ Valid(w.p) # {}
  <1>1. Good(w)  BY DEF Turned, Quiet
  <1>2. Good(PushTrans(i, w))  BY PushOK DEF Turned
  <1>3. w.p.pc # 0 => Good(Branch(i, w))  BY BranchOK DEF Turned
  <1>4. op # "NULL" => w.p.pc # 0  BY DEF Op
  <1>5. Good(WaitCmd(i, w))  BY WaitOK DEF Turned
  <1>6. Good(BusCheckCmd(i, w, e.b)) /\ Good(BusWaitCmd(i, w, e.b))  BY BusOK DEF Turned
  <1>7. op = "SYNC" => Good(SyncCmd(i, w))  BY SyncOK
  <1>8. Good(IosyncCmd(i, w)) /\ Good(IntCmd(i, w)) /\ Good(ReadIoCmd(i, w))
    BY OtherCmds DEF Turned
  <1>9. w.p.pc # 0 => Good(IntBranchCmd(i, w, op))
    <2> HIDE DEF op
    <2> QED  BY OtherCmds DEF Turned
  <1>10. Good(PushTrans(i, Sent))
    <2>1. Near(w, Sent)
      BY DEF WorkOK, PortOK, Near, Fields, Same, SameOrb, SameInt, SameIo, Held
    <2> HIDE DEF Sent
    <2> QED  BY <2>1, NearPush DEF Turned
  <1> DEFINE all ==
        CASE op = "DONE" -> w
          [] op = "WAIT" -> WaitCmd(i, w)
          [] op = "ARBWAIT" -> IF e.r THEN PushTrans(i, w) ELSE w
          [] op = "BUSCHECK" -> BusCheckCmd(i, w, e.b)
          [] op = "BUSWAIT" -> BusWaitCmd(i, w, e.b)
          [] op = "SYNC" -> SyncCmd(i, w)
          [] op = "IOSYNC" -> IosyncCmd(i, w)
          [] op \in {"FLUSH", "CMP"} -> IF OrbEmpty(w.p) THEN PushTrans(i, w) ELSE w
          [] op \in {"BNE", "BE"} ->
                IF ~OrbEmpty(w.p) THEN w
                ELSE IF w.p.ccr = (op = "BNE") THEN Branch(i, w) ELSE PushTrans(i, w)
          [] op \in {"BA", "BNIA"} -> Branch(i, w)
          [] op \in {"BI", "BNI"} -> IntBranchCmd(i, w, op)
          [] op \in {"BD", "BND"} -> IF e.pd = (op = "BD") THEN Branch(i, w) ELSE PushTrans(i, w)
          [] op = "INT" -> IntCmd(i, w)
          [] op \in ReadOps -> ReadIoCmd(i, w)
          [] op = "INV" \/ held -> w
          [] op \in WriteOps \union {"XIR", "BUSERROR"} /\ ~held -> PushTrans(i, Sent)
          [] OTHER -> PushTrans(i, w)
  <1>11. Dispatch(i, w, e) = all
    BY Zenon DEF Dispatch, Stay
  <1> HIDE DEF op, Sent, Good, held
  <1>12. Good(all)
    BY <1>1, <1>2, <1>3, <1>4, <1>5, <1>6, <1>7, <1>8, <1>9, <1>10
  <1> QED  BY <1>11, <1>12 DEF Good

(* The immediate commands, and the one the reader stops at.                *)
LEMMA FetchOK ==
    ASSUME NEW i, Runnable(prog[i]), NEW w, WorkOK(i, w), NEW b, NEW p, p = Fetched(i, w.p)
    PROVE  /\ PortOK(p) /\ p.pc \in 0..Len(prog[i]) /\ p.nsync = w.p.nsync
           /\ Same(p, Begun(p, b)) /\ Held(p, Begun(p, b))
           /\ PortOK(Begun(p, b)) /\ Begun(p, b).pc \in 0..Len(prog[i])
           /\ Begun(p, b).nsync = w.p.nsync
  <1>1. PortOK(p) /\ p.pc \in 0..Len(prog[i]) /\ p.nsync = w.p.nsync
    <2>1. CASE w.p.pc = 0
      <3>1. p = NextCmd(i, w.p)  BY <2>1 DEF Fetched
      <3> QED  BY <3>1, NextOK DEF WorkOK
    <2>2. CASE w.p.pc # 0  BY <2>2 DEF Fetched, WorkOK
    <2> QED  BY <2>1, <2>2
  <1>2. Same(p, Begun(p, b)) /\ Held(p, Begun(p, b))
    BY <1>1 DEF Begun, PortOK, Fields, Same, SameOrb, SameInt, SameIo, Held
  <1> QED  BY <1>1, <1>2, PortKept DEF Held

LEMMA PassOK ==
    ASSUME NEW i, Runnable(prog[i]), NEW w, WorkOK(i, w), NEW e
    PROVE  WorkOK(i, Pass(i, w, e)) /\ Quiet(w, Pass(i, w, e))
  <1> DEFINE p == Fetched(i, w.p)
             q == Begun(p, e.b)
             r == [q EXCEPT !.tmo = Cmd(i, p).n]
             t == IF Op(i, p) = "TIMEOUT" THEN r ELSE q
             n == NextCmd(i, t)
  <1>1. PortOK(t) /\ t.pc \in 0..Len(prog[i]) /\ t.nsync = w.p.nsync
    <2>1. PortOK(q) /\ q.pc \in 0..Len(prog[i]) /\ q.nsync = w.p.nsync
      <3> HIDE DEF p
      <3> QED  BY FetchOK DEF p
    <2> HIDE DEF q
    <2>2. Same(q, r) /\ Held(q, r)
      BY <2>1 DEF PortOK, Fields, Same, SameOrb, SameInt, SameIo, Held
    <2> HIDE DEF r
    <2>3. PortOK(r) /\ r.pc \in 0..Len(prog[i]) /\ r.nsync = w.p.nsync
      BY <2>1, <2>2, PortKept DEF Held
    <2> QED  BY <2>1, <2>3
  <1> HIDE DEF t
  <1>2. PortOK(n) /\ n.pc \in 0..Len(prog[i]) /\ n.nsync = w.p.nsync
    BY <1>1, NextOK
  <1>3. Pass(i, w, e) = IF Immediate(i, p, e.b) THEN [w EXCEPT !.p = n] ELSE w
    BY DEF Pass, t
  <1> HIDE DEF n, p
  <1>4. WorkOK(i, [w EXCEPT !.p = n]) /\ Quiet(w, [w EXCEPT !.p = n])
    BY <1>2 DEF WorkOK, Quiet
  <1> QED  BY <1>3, <1>4 DEF Quiet

LEMMA StopOK ==
    ASSUME NEW i, Runnable(prog[i]), NEW w, WorkOK(i, w), NEW e
    PROVE  WorkOK(i, Stop(i, w, e)) /\ Turned(i, w, Stop(i, w, e))
  <1> DEFINE p == Fetched(i, w.p)
             u == [w EXCEPT !.p = p]
             v == [w EXCEPT !.p = Begun(p, e.b)]
             Good(x) == WorkOK(i, x) /\ Turned(i, w, x)
  <1>1. /\ PortOK(p) /\ p.pc \in 0..Len(prog[i]) /\ p.nsync = w.p.nsync
        /\ PortOK(Begun(p, e.b)) /\ Begun(p, e.b).pc \in 0..Len(prog[i])
        /\ Begun(p, e.b).nsync = w.p.nsync
    <2> HIDE DEF p
    <2> QED  BY FetchOK DEF p
  <1>2. Stop(i, w, e) = CASE Stuck(i, p) -> u
                          [] ~Stuck(i, p) /\ BusWaitExpired(p, e.b) -> v
                          [] ~Stuck(i, p) /\ ~BusWaitExpired(p, e.b) /\ p.tr.t # "none" -> PushTrans(i, v)
                          [] OTHER -> Dispatch(i, v, e)
    BY Zenon DEF Stop
  <1> HIDE DEF p
  <1>3. WorkOK(i, u) /\ Quiet(w, u)  BY <1>1 DEF WorkOK, Quiet
  <1>4. WorkOK(i, v) /\ Quiet(w, v)  BY <1>1 DEF WorkOK, Quiet
  <1> HIDE DEF u, v
  <1>5. WorkOK(i, PushTrans(i, v)) /\ Quiet(v, PushTrans(i, v))  BY <1>4, PushOK
  <1>6. WorkOK(i, Dispatch(i, v, e)) /\ Turned(i, v, Dispatch(i, v, e))  BY <1>4, DispatchOK
  <1>7. \A x : Turned(i, v, x) => Turned(i, w, x)
    BY <1>4 DEF Turned, Quiet, Synced
  <1>8. Good(u) /\ Good(v) /\ Good(PushTrans(i, v)) /\ Good(Dispatch(i, v, e))
    BY <1>3, <1>4, <1>5, <1>6, <1>7 DEF Turned, Quiet
  <1> HIDE DEF Good
  <1>9. Good(Stop(i, w, e))  BY <1>2, <1>8
  <1> QED  BY <1>9 DEF Good

LEMMA Passes ==
    ASSUME NEW i, Runnable(prog[i]), NEW w, NEW e
    PROVE  \E f : /\ f = [n \in 0..Len(prog[i]) |-> IF n = 0 THEN w ELSE Pass(i, f[n-1], e)]
                  /\ sjmCycle(i, w, e) = Stop(i, f[Len(prog[i])], e)
  <1> DEFINE L == Len(prog[i])
             Made(f, m) == f = [n \in 0..m |-> IF n = 0 THEN w ELSE Pass(i, f[n-1], e)]
             G(m) == \E f : Made(f, m)
             B == {m \in 0..L : ~G(m)}
  <1>0. L \in Nat  BY DEF Runnable
  <1>1. G(L)
    <2> SUFFICES ASSUME ~G(L) PROVE FALSE  OBVIOUS
    <2>1. L \in B  BY <1>0
    <2>2. PICK m \in B : \A k \in B : m <= k
      <3>1. B \in SUBSET Nat  OBVIOUS
      <3> HIDE DEF B
      <3> QED  BY <2>1, <3>1, SmallestOf
    <2>3. m # 0
      <3> DEFINE f == [n \in 0..0 |-> w]
      <3>1. Made(f, 0)  OBVIOUS
      <3> HIDE DEF f, Made
      <3> QED  BY <2>2, <3>1
    <2>4. m \in 1..L /\ m - 1 \in 0..L  BY <1>0, <2>2, <2>3
    <2>5. m - 1 \notin B
      <3> HIDE DEF B
      <3> QED  BY <2>2, <2>4
    <2>6. PICK f : Made(f, m - 1)  BY <2>4, <2>5
    <2> DEFINE g == [n \in 0..m |-> IF n = m THEN Pass(i, f[m-1], e) ELSE f[n]]
    <2>7. Made(g, m)
      <3> HIDE DEF L
      <3>1. \A n \in 0..m : g[n] = IF n = 0 THEN w ELSE Pass(i, g[n-1], e)
        <4> SUFFICES ASSUME NEW n \in 0..m PROVE g[n] = IF n = 0 THEN w ELSE Pass(i, g[n-1], e)
          OBVIOUS
        <4>1. CASE n = m
          <5>1. g[n] = Pass(i, f[m-1], e) /\ g[m-1] = f[m-1] /\ n # 0  BY <2>4, <4>1
          <5> QED  BY <4>1, <5>1
        <4>2. CASE n # m
          <5>1. n \in 0..(m-1) /\ g[n] = f[n]  BY <2>4, <4>2
          <5>2. f[n] = IF n = 0 THEN w ELSE Pass(i, f[n-1], e)  BY <2>6, <5>1
          <5>3. n # 0 => g[n-1] = f[n-1]  BY <2>4, <5>1
          <5> QED  BY <5>1, <5>2, <5>3
        <4> QED  BY <4>1, <4>2
      <3> DEFINE h == [n \in 0..m |-> IF n = 0 THEN w ELSE Pass(i, g[n-1], e)]
      <3>2. \A n \in 0..m : g[n] = h[n]  BY <3>1
      <3>3. g = [n \in 0..m |-> g[n]] /\ h = [n \in 0..m |-> h[n]]  OBVIOUS
      <3> QED  BY <3>2
    <2> HIDE DEF g, Made
    <2> QED  BY <2>2, <2>7
  <1> DEFINE pass == CHOOSE f : Made(f, L)
  <1>2. Made(pass, L)
    <2> HIDE DEF Made
    <2> QED  BY <1>1
  <1>3. sjmCycle(i, w, e) = Stop(i, pass[L], e)
    BY DEF sjmCycle
  <1> HIDE DEF pass
  <1> QED  BY <1>2, <1>3

LEMMA sjmCycleOK ==
    ASSUME NEW i, Runnable(prog[i]), NEW w, WorkOK(i, w), NEW e
    PROVE  WorkOK(i, sjmCycle(i, w, e)) /\ Turned(i, w, sjmCycle(i, w, e))
  <1> DEFINE L == Len(prog[i])
  <1>0. L \in Nat  BY DEF Runnable
  <1>1. PICK f : /\ f = [n \in 0..L |-> IF n = 0 THEN w ELSE Pass(i, f[n-1], e)]
                 /\ sjmCycle(i, w, e) = Stop(i, f[L], e)
    BY Passes
  <1> HIDE DEF L
  <1> DEFINE Good(m) == WorkOK(i, f[m]) /\ Quiet(w, f[m])
             B == {m \in 0..L : ~Good(m)}
  <1>2. \A n \in 0..L : f[n] = IF n = 0 THEN w ELSE Pass(i, f[n-1], e)
    BY <1>1
  <1>3. Good(L)
    <2> SUFFICES ASSUME ~Good(L) PROVE FALSE  OBVIOUS
    <2>1. L \in B  BY <1>0
    <2>2. PICK m \in B : \A k \in B : m <= k
      <3>1. B \in SUBSET Nat  OBVIOUS
      <3> HIDE DEF B
      <3> QED  BY <2>1, <3>1, SmallestOf
    <2>3. m # 0
      <3>1. f[0] = w  BY <1>0, <1>2
      <3>2. Good(0)  BY <3>1 DEF Quiet
      <3> QED  BY <2>2, <3>2
    <2>4. m \in 1..L /\ m - 1 \in 0..L  BY <1>0, <2>2, <2>3
    <2>5. Good(m - 1)
      <3>1. m - 1 \notin B
        <4> HIDE DEF B
        <4> QED  BY <2>2, <2>4
      <3> HIDE DEF Good
      <3> QED  BY <2>4, <3>1
    <2>6. f[m] = Pass(i, f[m-1], e)  BY <1>2, <2>4
    <2>7. Good(m)  BY <2>5, <2>6, PassOK DEF Quiet
    <2> QED  BY <2>2, <2>7
  <1>4. WorkOK(i, Stop(i, f[L], e)) /\ Turned(i, f[L], Stop(i, f[L], e))
    BY <1>3, StopOK
  <1>5. Turned(i, w, Stop(i, f[L], e))
    BY <1>3, <1>4 DEF Turned, Quiet, Synced
  <1> QED  BY <1>1, <1>4, <1>5

LEMMA GeneratorsOK ==
    ASSUME NEW i, Runnable(prog[i]), NEW w, WorkOK(i, w), NEW e
    PROVE  WorkOK(i, Generators(i, w, e)) /\ Turned(i, w, Generators(i, w, e))
  <1> DEFINE Good(v) == WorkOK(i, v) /\ Turned(i, w, v)
  <1>1. ASSUME NEW v, WorkOK(i, v)
        PROVE  /\ WorkOK(i, IntGen(v)) /\ Quiet(v, IntGen(v))
               /\ WorkOK(i, CmdGen(i, v, e)) /\ Turned(i, v, CmdGen(i, v, e))
               /\ \A g : Near(v, [v EXCEPT !.p.gen = g])
    <2>1. WorkOK(i, IntGen(v)) /\ Quiet(v, IntGen(v))
      <3>1. PortOK(IntCycle(v.p)) /\ Held(v.p, IntCycle(v.p))
        BY <1>1, IntCycleOK DEF WorkOK
      <3>2. /\ {"p", "sy", "ok"} \subseteq DOMAIN IntGen(v) /\ IntGen(v).p = IntCycle(v.p)
            /\ IntGen(v).sy = v.sy
        BY <1>1 DEF IntGen, WorkOK
      <3> QED  BY <1>1, <3>1, <3>2 DEF WorkOK, Quiet, Held
    <2>2. WorkOK(i, CmdGen(i, v, e)) /\ Turned(i, v, CmdGen(i, v, e))
      BY <1>1, sjmCycleOK DEF CmdGen, Turned, Quiet
    <2>3. \A g : Near(v, [v EXCEPT !.p.gen = g])
      BY <1>1 DEF WorkOK, PortOK, Near, Fields, Same, SameOrb, SameInt, SameIo, Held
    <2> QED  BY <2>1, <2>2, <2>3
  <1>2. ASSUME NEW v, Good(v), NEW g
        PROVE  Good([v EXCEPT !.p.gen = g])
    <2> DEFINE x == [v EXCEPT !.p.gen = g]
    <2>1. Near(v, x)  BY <1>1, <1>2
    <2> HIDE DEF x
    <2>2. WorkOK(i, x) /\ Quiet(v, x)  BY <1>2, <2>1, NearOK
    <2>3. Good(x)  BY <1>2, <2>2 DEF Turned, Quiet, Synced
    <2> QED  BY <2>3 DEF x
  <1>3. CASE w.p.gen = "cmd"
    <2> DEFINE c == CmdGen(i, w, e)
               n == IntGen(c)
    <2>1. Generators(i, w, e) = IF ~c.ok THEN [c EXCEPT !.p.gen = "snp"]
                                ELSE [n EXCEPT !.p.gen = IF n.ok THEN "cmd" ELSE "int"]
      BY <1>3 DEF Generators
    <2>2. Good(c)  BY <1>1
    <2> HIDE DEF c
    <2>3. WorkOK(i, n) /\ Quiet(c, n)  BY <1>1, <2>2
    <2>4. Good(n)  BY <2>2, <2>3 DEF Turned, Quiet, Synced
    <2> HIDE DEF n, Good
    <2>5. Good([c EXCEPT !.p.gen = "snp"]) /\ \A g : Good([n EXCEPT !.p.gen = g])
      BY <1>2, <2>2, <2>4
    <2>6. Good(Generators(i, w, e))  BY <2>1, <2>5
    <2> QED  BY <2>6 DEF Good
  <1>4. CASE w.p.gen # "cmd"
    <2> DEFINE n == IntGen(w)
               c == CmdGen(i, n, e)
    <2>1. Generators(i, w, e) = IF ~n.ok THEN [n EXCEPT !.p.gen = "int"]
                                ELSE [c EXCEPT !.p.gen = IF c.ok THEN @ ELSE "snp"]
      BY <1>4 DEF Generators
    <2>2. WorkOK(i, n) /\ Quiet(w, n)  BY <1>1
    <2> HIDE DEF n
    <2>3. WorkOK(i, c) /\ Turned(i, n, c)  BY <1>1, <2>2
    <2>4. Good(n) /\ Good(c)  BY <2>2, <2>3 DEF Turned, Quiet, Synced
    <2> HIDE DEF c, Good
    <2>5. Good([n EXCEPT !.p.gen = "int"]) /\ \A g : Good([c EXCEPT !.p.gen = g])
      BY <1>2, <2>4
    <2>6. Good(Generators(i, w, e))  BY <2>1, <2>5
    <2> QED  BY <2>6 DEF Good
  <1> QED  BY <1>3, <1>4

-----------------------------------------------------------------------------
(* A port's cycle.                                                         *)

LEMMA InSigsOK ==
    ASSUME NEW i, Runnable(prog[i]), NEW w, WorkOK(i, w), NEW e, Offered(w.p, e.in)
    PROVE  LET v == ProcessInSigs(i, w, e) IN WorkOK(i, v) /\ Turned(i, w, v)
  <1> DEFINE a == IF xir.in THEN XirRestart(w.p) ELSE w.p
             b == Incoming(a, e.in)
             c == OrbCycle(b, e.cc)
             x == [w EXCEPT !.p = c, !.ok = TRUE]
  <1>1. Same(w.p, a) /\ a.nsync = w.p.nsync /\ a.pc \in 0..Len(prog[i])
    <2>1. CASE xir.in
      <3>1. a = XirRestart(w.p)  BY <2>1
      <3>2. /\ Same(w.p, XirRestart(w.p)) /\ XirRestart(w.p).nsync = w.p.nsync
            /\ XirRestart(w.p).pc = 1
        BY DEF WorkOK, PortOK, Fields, XirRestart, Same, SameOrb, SameInt, SameIo
      <3>3. 1 \in 0..Len(prog[i])  BY DEF Runnable
      <3> QED  BY <3>1, <3>2, <3>3
    <2>2. CASE ~xir.in
      <3>1. a = w.p  BY <2>2
      <3> QED  BY <3>1 DEF WorkOK, PortOK, Same, SameOrb, SameInt, SameIo
    <2> QED  BY <2>1, <2>2
  <1> HIDE DEF a
  <1>2. PortOK(a) /\ Offered(a, e.in)
    BY <1>1, PortKept DEF WorkOK, Offered, Same, SameOrb
  <1>3. PortOK(b) /\ b.nsync = w.p.nsync /\ b.pc \in 0..Len(prog[i])
    BY <1>1, <1>2, IncomingOK DEF Held
  <1> HIDE DEF b
  <1>4. PortOK(c) /\ c.nsync = w.p.nsync /\ c.pc \in 0..Len(prog[i])
    BY <1>3, CycleOK
  <1> HIDE DEF c
  <1>5. WorkOK(i, x) /\ Quiet(w, x)  BY <1>4 DEF WorkOK, Quiet
  <1>6. ProcessInSigs(i, w, e) = Generators(i, x, e)
    BY DEF ProcessInSigs, x, c, b, a
  <1> HIDE DEF x
  <1>7. WorkOK(i, Generators(i, x, e)) /\ Turned(i, x, Generators(i, x, e))
    BY <1>5, GeneratorsOK
  <1> QED  BY <1>5, <1>6, <1>7 DEF Turned, Quiet, Synced

\* What a reset leaves of a port, and what SYNC has counted.
Cleared(i, w, v) == v.p.nsync = 0 /\ v.sy = [w.sy EXCEPT ![i] = NoSync] /\ v.p.st \in {"RST", "PORRST"}

LEMMA ResetPortOK ==
    ASSUME NEW i, Runnable(prog[i]), NEW w, WorkOK(i, w), NEW st \in {"RST", "PORRST"}
    PROVE  LET v == ResetPort(w, i, st) IN WorkOK(i, v) /\ Cleared(i, w, v)
  <1> DEFINE r == Reset(w.p)
             q == [r EXCEPT !.st = st, !.rstcnt = -1]
             v == ResetPort(w, i, st)
  <1>1. PortOK(r) /\ r.nsync = 0 /\ r.pc = 1  BY ResetOK DEF WorkOK
  <1>2. /\ {"p", "sy", "ok"} \subseteq DOMAIN v /\ v.p = q /\ v.sy = [w.sy EXCEPT ![i] = NoSync]
    BY DEF ResetPort, WorkOK
  <1> HIDE DEF r
  <1>3. Same(r, q) /\ q.nsync = 0 /\ q.pc = 1 /\ q.st = st
    BY <1>1 DEF PortOK, Fields, Same, SameOrb, SameInt, SameIo
  <1> HIDE DEF q
  <1>4. PortOK(q)  BY <1>1, <1>3, PortKept
  <1>5. 1 \in 0..Len(prog[i])  BY DEF Runnable
  <1> QED  BY <1>2, <1>3, <1>4, <1>5 DEF WorkOK, Cleared

(* The port's fields outside Fields \ {"st"} may change beforehand.        *)
LEMMA ReadyOK ==
    ASSUME NEW i, Runnable(prog[i]), NEW w, WorkOK(i, w), NEW e, Offered(w.p, e.in)
    PROVE  LET v == ReadyCycle(i, w, e)
           IN /\ WorkOK(i, v)
              /\ IF pins.rst THEN Cleared(i, w, v) ELSE Turned(i, w, v)
  <1> DEFINE start == w.p.st = "READY" /\ cyc = w.p.rstcnt + PostRst
             p == [w.p EXCEPT !.st = IF start THEN "EXEC" ELSE @]
             into == p.chg > 0 /\ p.chg >= ChangeInitiate
             count == (IF p.chg > 0 /\ ~into THEN 1 ELSE 0) + (IF pins.change THEN 1 ELSE 0)
             q == [p EXCEPT !.st = IF into THEN "CHANGE" ELSE @, !.chg = @ + count]
             x == [w EXCEPT !.p = p]
             y == [w EXCEPT !.p = q]
  <1>1. ReadyCycle(i, w, e) = IF pins.rst THEN ResetPort(x, i, "RST") ELSE ProcessInSigs(i, y, e)
    BY DEF ReadyCycle
  <1>2. Same(w.p, p) /\ p.nsync = w.p.nsync /\ p.pc = w.p.pc
    BY DEF WorkOK, PortOK, Fields, Same, SameOrb, SameInt, SameIo
  <1>3. Same(w.p, q) /\ q.nsync = w.p.nsync /\ q.pc = w.p.pc
    BY DEF WorkOK, PortOK, Fields, Same, SameOrb, SameInt, SameIo
  <1> HIDE DEF p, q
  <1>4. WorkOK(i, x) /\ x.sy = w.sy
    <2>1. PortOK(p)  BY <1>2, PortKept DEF WorkOK
    <2> QED  BY <1>2, <2>1 DEF WorkOK
  <1>5. WorkOK(i, y) /\ Quiet(w, y) /\ Offered(y.p, e.in)
    <2>1. PortOK(q)  BY <1>3, PortKept DEF WorkOK
    <2>2. y.p = q  BY DEF WorkOK
    <2>3. Offered(q, e.in)  BY <1>3 DEF Offered, Same, SameOrb
    <2> QED  BY <1>3, <2>1, <2>2, <2>3 DEF WorkOK, Quiet
  <1> HIDE DEF x, y
  <1>6. CASE pins.rst
    <2>1. WorkOK(i, ResetPort(x, i, "RST")) /\ Cleared(i, x, ResetPort(x, i, "RST"))
      BY <1>4, ResetPortOK
    <2> QED  BY <1>1, <1>4, <1>6, <2>1 DEF Cleared
  <1>7. CASE ~pins.rst
    <2>1. WorkOK(i, ProcessInSigs(i, y, e)) /\ Turned(i, y, ProcessInSigs(i, y, e))
      BY <1>5, InSigsOK
    <2> QED  BY <1>1, <1>5, <1>7, <2>1 DEF Turned, Quiet, Synced
  <1> QED  BY <1>6, <1>7

LEMMA InputsOK ==
    ASSUME NEW i, Runnable(prog[i]), NEW w, WorkOK(i, w), NEW e, Offered(w.p, e.in)
    PROVE  LET v == InputValues(i, w, e)
           IN /\ WorkOK(i, v)
              /\ ~pins.rst => Turned(i, w, v)
              /\ pins.rst /\ w.p.st # "UNKNOWN" =>
                    IF w.p.st \in {"RST", "PORRST"} THEN Quiet(w, v) /\ v.p.st = w.p.st
                    ELSE Cleared(i, w, v)
  <1> DEFINE p == w.p
             idle == [w EXCEPT !.p.chg = 0]
             ready == [w EXCEPT !.p.st = "READY", !.p.rstcnt = cyc]
             more == [w EXCEPT !.p.chg = @ + 1]
             over == [w EXCEPT !.p.chg = 0, !.p.st = "EXEC"]
             por == IF pins.rst THEN ResetPort(w, i, "PORRST") ELSE w
             rst == IF p.rstcnt < 0 /\ ~pins.rst THEN ready ELSE w
             chg == IF pins.rst THEN ResetPort(idle, i, "RST")
                    ELSE IF p.chg + 1 < ChangeWait THEN more ELSE over
             v == CASE p.st = "POR" -> por
                    [] p.st \in {"RST", "PORRST"} -> rst
                    [] p.st = "CHANGE" -> chg
                    [] OTHER -> ReadyCycle(i, w, e)
             Good(x) == /\ WorkOK(i, x)
                        /\ ~pins.rst => Turned(i, w, x)
                        /\ pins.rst /\ w.p.st # "UNKNOWN" =>
                              IF w.p.st \in {"RST", "PORRST"} THEN Quiet(w, x) /\ x.p.st = w.p.st
                              ELSE Cleared(i, w, x)
             All(x) == WorkOK(i, x) /\ x.sy = w.sy /\ x.p.nsync = w.p.nsync
  <1>1. InputValues(i, w, e) = IF p.st = "UNKNOWN" THEN w
                               ELSE [v EXCEPT !.p = ProcessOutSigs(v.p, e.g)]
    BY Zenon DEF InputValues
  <1>2. All(idle) /\ All(ready) /\ All(more) /\ All(over)
    <2>1. All(idle)
      <3>1. Near(w, idle)
        BY DEF WorkOK, PortOK, Near, Fields, Same, SameOrb, SameInt, SameIo, Held
      <3> HIDE DEF idle
      <3> QED  BY <3>1, NearOK DEF Quiet
    <2>2. All(more)
      <3>1. Near(w, more)
        BY DEF WorkOK, PortOK, Near, Fields, Same, SameOrb, SameInt, SameIo, Held
      <3> HIDE DEF more
      <3> QED  BY <3>1, NearOK DEF Quiet
    <2>3. All(ready)
      <3>1. /\ {"p", "sy", "ok"} \subseteq DOMAIN ready /\ ready.sy = w.sy /\ Same(w.p, ready.p)
            /\ ready.p.nsync = w.p.nsync /\ ready.p.pc = w.p.pc
        BY DEF WorkOK, PortOK, Fields, Same, SameOrb, SameInt, SameIo
      <3> HIDE DEF ready
      <3>2. PortOK(ready.p)  BY <3>1, PortKept DEF WorkOK
      <3> QED  BY <3>1, <3>2 DEF WorkOK
    <2>4. All(over)
      <3>1. /\ {"p", "sy", "ok"} \subseteq DOMAIN over /\ over.sy = w.sy /\ Same(w.p, over.p)
            /\ over.p.nsync = w.p.nsync /\ over.p.pc = w.p.pc
        BY DEF WorkOK, PortOK, Fields, Same, SameOrb, SameInt, SameIo
      <3> HIDE DEF over
      <3>2. PortOK(over.p)  BY <3>1, PortKept DEF WorkOK
      <3> QED  BY <3>1, <3>2 DEF WorkOK
    <2> QED  BY <2>1, <2>2, <2>3, <2>4
  <1> HIDE DEF idle, ready, more, over
  <1>3. p.st = "POR" => Good(por)
    <2>1. /\ WorkOK(i, ResetPort(w, i, "PORRST"))
          /\ Cleared(i, w, ResetPort(w, i, "PORRST"))
      BY ResetPortOK
    <2> QED  BY <2>1 DEF Turned, Quiet
  <1>4. p.st \in {"RST", "PORRST"} => Good(rst)
    BY <1>2 DEF Turned, Quiet
  <1>5. p.st = "CHANGE" => Good(chg)
    <2>1. WorkOK(i, ResetPort(idle, i, "RST")) /\ Cleared(i, idle, ResetPort(idle, i, "RST"))
      BY <1>2, ResetPortOK
    <2> QED  BY <1>2, <2>1 DEF Turned, Quiet, Cleared
  <1>6. p.st \notin {"RST", "PORRST"} => Good(ReadyCycle(i, w, e))
    BY ReadyOK
  <1>7. Good(v)
    <2> HIDE DEF Good, por, rst, chg
    <2>1. CASE p.st = "POR"  BY <1>3, <2>1
    <2>2. CASE p.st \in {"RST", "PORRST"}  BY <1>4, <2>2
    <2>3. CASE p.st = "CHANGE"  BY <1>5, <2>3
    <2>4. CASE p.st \notin {"POR", "RST", "PORRST", "CHANGE"}  BY <1>6, <2>4
    <2> QED  BY <2>1, <2>2, <2>3, <2>4
  <1> HIDE DEF v
  <1>8. Good([v EXCEPT !.p = ProcessOutSigs(v.p, e.g)])
    <2> DEFINE q == ProcessOutSigs(v.p, e.g)
               x == [v EXCEPT !.p = q]
    <2>1. PortOK(q) /\ Held(v.p, q)  BY <1>7, OutSigsOK DEF WorkOK
    <2> HIDE DEF q
    <2>2. WorkOK(i, x) /\ x.sy = v.sy /\ x.p.nsync = v.p.nsync /\ x.p.st = v.p.st
      BY <1>7, <2>1 DEF WorkOK, Held
    <2> HIDE DEF x
    <2>3. Good(x)
      BY <1>7, <2>2 DEF Turned, Quiet, Synced, Cleared
    <2> QED  BY <2>3 DEF x, q
  <1>9. p.st = "UNKNOWN" => Good(w)  BY DEF Turned, Quiet
  <1>10. Good(InputValues(i, w, e))
    <2> HIDE DEF Good
    <2> QED  BY <1>1, <1>8, <1>9
  <1> QED  BY <1>10

-----------------------------------------------------------------------------
(* Two ports that name each other: at most one of them waits, and the one  *)
(* that was found waiting has a SYNC to come that the other has behind it. *)

SyncOver == [waiting |-> FALSE, list |-> {}, state |-> "FINISHED"]
SyncWait(j) == [waiting |-> TRUE, list |-> {j}, state |-> "WAITING"]
ToCome(s) == IF s = SyncOver THEN 1 ELSE 0

PairOK(sy, i, j, n, m) ==
    /\ sy[i] \in {NoSync, SyncOver, SyncWait(j)}
    /\ sy[j] \in {NoSync, SyncOver, SyncWait(i)}
    /\ ~(sy[i] = SyncWait(j) /\ sy[j] = SyncWait(i))
    /\ n \in Nat /\ m \in Nat
    /\ n + ToCome(sy[i]) = m + ToCome(sy[j])

LEMMA SyncFacts ==
    ASSUME NEW j
    PROVE  /\ NoSync # SyncOver /\ NoSync # SyncWait(j) /\ SyncOver # SyncWait(j)
           /\ NoSync.state = "NOTWAITING" /\ SyncOver.state = "FINISHED"
           /\ SyncWait(j).state = "WAITING"
           /\ ~NoSync.waiting /\ ~SyncOver.waiting /\ SyncWait(j).waiting
           /\ SyncWait(j).list = {j}
           /\ Polled(NoSync) = NoSync /\ Polled(SyncOver) = NoSync
           /\ SyncTo(NoSync, j) = NoSync /\ SyncTo(SyncOver, j) = SyncOver
           /\ SyncTo(SyncWait(j), j) = SyncOver
           /\ \A c : c # j => SyncTo(SyncWait(j), c) = SyncWait(j)
  <1>1. /\ NoSync.state = "NOTWAITING" /\ SyncOver.state = "FINISHED"
        /\ SyncWait(j).state = "WAITING"
        /\ ~NoSync.waiting /\ ~SyncOver.waiting /\ SyncWait(j).waiting
        /\ SyncWait(j).list = {j}
    BY DEF NoSync, SyncOver, SyncWait
  <1>2. Polled(NoSync) = NoSync /\ Polled(SyncOver) = NoSync
    BY DEF Polled, NoSync, SyncOver
  <1>3. /\ SyncTo(NoSync, j) = NoSync /\ SyncTo(SyncOver, j) = SyncOver
        /\ SyncTo(SyncWait(j), j) = SyncOver
    BY <1>1 DEF SyncTo, SyncOver
  <1>4. \A c : c # j => SyncTo(SyncWait(j), c) = SyncWait(j)
    BY DEF SyncTo, SyncWait
  <1> QED  BY <1>1, <1>2, <1>3, <1>4

(* A SYNC of port c leaves the device of another port alone that waits for *)
(* somebody else.                                                          *)
LEMMA SyncElsewhere ==
    ASSUME NEW c \in Ports, NEW sy, DOMAIN sy = Ports, NEW n, NEW ids, NEW sy2, NEW n2,
           SyncStep(c, sy, n, ids, sy2, n2),
           NEW i \in Ports, i # c, NEW j, j # c, sy[i] \in {NoSync, SyncOver, SyncWait(j)}
    PROVE  sy2[i] = sy[i]
  <1> DEFINE polled == [sy EXCEPT ![c] = Polled(sy[c])]
             begun == sync_initiate(polled, c, ids)
             left == {d \in ids : ~WaitsFor(polled[d], c)}
             told == [d \in Ports |-> IF d \in ids THEN SyncTo(polled[d], c) ELSE polled[d]]
  <1>1. polled[i] = sy[i]  OBVIOUS
  <1>2. SyncTo(sy[i], c) = sy[i]
    <2>1. SyncTo(NoSync, c) = NoSync /\ SyncTo(SyncOver, c) = SyncOver  BY SyncFacts
    <2>2. SyncTo(SyncWait(j), c) = SyncWait(j)  BY SyncFacts
    <2> QED  BY <2>1, <2>2
  <1>3. told[i] = sy[i]
    <2> HIDE DEF polled
    <2> QED  BY <1>1, <1>2
  <1>4. begun = IF left = {} THEN told
                ELSE [told EXCEPT ![c] = [waiting |-> TRUE, list |-> left, state |-> "WAITING"]]
    BY DEF sync_initiate
  <1> HIDE DEF left, told
  <1>5. begun[i] = sy[i]
    <2>1. DOMAIN told = Ports  BY DEF told
    <2> HIDE DEF begun, polled
    <2> QED  BY <1>3, <1>4, <2>1
  <1>6. sy2 = polled \/ sy2 = begun  BY DEF SyncStep
  <1> HIDE DEF begun, polled
  <1> QED  BY <1>1, <1>5, <1>6

LEMMA SyncPorts ==
    ASSUME NEW c, NEW sy, DOMAIN sy = Ports, NEW n, NEW ids, NEW sy2, NEW n2,
           SyncStep(c, sy, n, ids, sy2, n2)
    PROVE  DOMAIN sy2 = Ports
  <1> DEFINE polled == [sy EXCEPT ![c] = Polled(sy[c])]
  <1>1. DOMAIN polled = Ports  OBVIOUS
  <1>2. DOMAIN sync_initiate(polled, c, ids) = Ports  BY DEF sync_initiate
  <1>3. sy2 = polled \/ sy2 = sync_initiate(polled, c, ids)  BY DEF SyncStep
  <1> HIDE DEF polled
  <1> QED  BY <1>1, <1>2, <1>3

LEMMA SyncTogether ==
    ASSUME NEW i \in Ports, NEW j \in Ports, i # j, NEW sy, DOMAIN sy = Ports, NEW n, NEW m,
           PairOK(sy, i, j, n, m), NEW sy2, NEW n2, SyncStep(i, sy, n, {j}, sy2, n2)
    PROVE  PairOK(sy2, i, j, n2, m)
  <1> DEFINE polled == [sy EXCEPT ![i] = Polled(sy[i])]
             left == {d \in {j} : ~WaitsFor(polled[d], i)}
             told == [d \in Ports |-> IF d \in {j} THEN SyncTo(polled[d], i) ELSE polled[d]]
             begun == sync_initiate(polled, i, {j})
             Goal == PairOK(sy2, i, j, n2, m)
  <1>0. SyncStep(i, sy, n, {j}, sy2, n2) /\ n \in Nat /\ m \in Nat
        /\ n + ToCome(sy[i]) = m + ToCome(sy[j])
        /\ sy[i] \in {NoSync, SyncOver, SyncWait(j)}
        /\ sy[j] \in {NoSync, SyncOver, SyncWait(i)}
    BY DEF PairOK
  <1>1. polled[i] = Polled(sy[i]) /\ polled[j] = sy[j] /\ DOMAIN polled = Ports  OBVIOUS
  <1>2. CASE sy[i] = SyncOver
    <2>1. sy2 = polled /\ n2 = n + 1
      <3>1. sy[i].state = "FINISHED"  BY <1>2, SyncFacts
      <3> HIDE DEF polled
      <3> QED  BY <3>1 DEF SyncStep, polled
    <2>2. sy2[i] = NoSync /\ sy2[j] = sy[j]
      <3>1. Polled(SyncOver) = NoSync  BY SyncFacts
      <3> HIDE DEF polled
      <3> QED  BY <1>1, <1>2, <2>1, <3>1
    <2>3. ToCome(sy[i]) = 1 /\ ToCome(sy2[i]) = 0 /\ ToCome(sy2[j]) = ToCome(sy[j])
      BY <1>2, <2>2, SyncFacts DEF ToCome
    <2>4. NoSync # SyncWait(j)  BY SyncFacts
    <2>5. ToCome(sy[j]) \in Nat  BY DEF ToCome
    <2>6. n2 + ToCome(sy2[i]) = m + ToCome(sy2[j]) /\ n2 \in Nat
      BY <1>0, <2>1, <2>3, <2>5
    <2> HIDE DEF polled
    <2> QED  BY <1>0, <2>2, <2>4, <2>6 DEF PairOK
  <1>3. CASE sy[i] = SyncWait(j)
    <2>1. sy[i].state = "WAITING"  BY <1>3, SyncFacts
    <2> QED  BY <2>1 DEF SyncStep
  <1>4. CASE sy[i] = NoSync
    <2>1. /\ sy[i].state \notin {"FINISHED", "WAITING", "FOUNDDEV"}
          /\ Polled(sy[i]) = NoSync /\ ~NoSync.waiting /\ ToCome(NoSync) = 0
      <3>1. NoSync.state = "NOTWAITING" /\ Polled(NoSync) = NoSync /\ ~NoSync.waiting
        BY SyncFacts
      <3>2. NoSync # SyncOver  BY SyncFacts
      <3> QED  BY <1>4, <3>1, <3>2 DEF ToCome
    <2>2. sy2 = begun /\ n2 = IF begun[i].waiting THEN n ELSE n + 1
      <3> HIDE DEF begun, polled
      <3> QED  BY <2>1 DEF SyncStep, begun, polled
    <2>3. begun = IF left = {} THEN told
                  ELSE [told EXCEPT ![i] = [waiting |-> TRUE, list |-> left, state |-> "WAITING"]]
      BY DEF sync_initiate
    <2>4. told[i] = NoSync /\ told[j] = SyncTo(sy[j], i) /\ DOMAIN told = Ports
      <3> HIDE DEF polled
      <3> QED  BY <1>1, <2>1
    <2>5. left = IF WaitsFor(sy[j], i) THEN {} ELSE {j}
      <3> HIDE DEF polled
      <3> QED  BY <1>1
    <2> HIDE DEF begun, told, left, polled
    <2>6. CASE sy[j] = SyncWait(i)
      <3>1. WaitsFor(sy[j], i) /\ SyncTo(sy[j], i) = SyncOver
        BY <2>6, SyncFacts DEF WaitsFor
      <3>2. sy2[i] = NoSync /\ sy2[j] = SyncOver /\ n2 = n + 1
        BY <2>1, <2>2, <2>3, <2>4, <2>5, <3>1
      <3>3. SyncOver # SyncWait(i) /\ NoSync # SyncWait(j) /\ SyncWait(i) # SyncOver
        BY SyncFacts
      <3>4. ToCome(sy[i]) = 0 /\ ToCome(sy[j]) = 0 /\ ToCome(sy2[i]) = 0 /\ ToCome(sy2[j]) = 1
        BY <1>4, <2>1, <2>6, <3>2, <3>3 DEF ToCome
      <3>5. n2 + ToCome(sy2[i]) = m + ToCome(sy2[j]) /\ n2 \in Nat
        BY <1>0, <3>2, <3>4
      <3> QED  BY <1>0, <3>2, <3>3, <3>5 DEF PairOK
    <2>7. CASE sy[j] \in {NoSync, SyncOver}
      <3>1. ~WaitsFor(sy[j], i) /\ SyncTo(sy[j], i) = sy[j]
        <4>1. /\ ~NoSync.waiting /\ ~SyncOver.waiting
              /\ SyncTo(NoSync, i) = NoSync /\ SyncTo(SyncOver, i) = SyncOver
          BY SyncFacts
        <4> QED  BY <2>7, <4>1 DEF WaitsFor
      <3>2. begun = [told EXCEPT ![i] = SyncWait(j)]
        BY <2>3, <2>5, <3>1 DEF SyncWait
      <3>3. sy2[i] = SyncWait(j) /\ sy2[j] = sy[j]
        BY <2>2, <2>4, <3>1, <3>2
      <3>4. n2 = n
        <4>1. SyncWait(j).waiting  BY SyncFacts
        <4> QED  BY <2>2, <3>3, <4>1
      <3>5. SyncWait(j) # SyncOver /\ NoSync # SyncWait(i) /\ SyncOver # SyncWait(i)
        BY SyncFacts
      <3>6. ToCome(sy[i]) = 0 /\ ToCome(sy2[i]) = 0 /\ ToCome(sy2[j]) = ToCome(sy[j])
        BY <1>4, <2>1, <3>3, <3>5 DEF ToCome
      <3>7. n2 + ToCome(sy2[i]) = m + ToCome(sy2[j]) /\ n2 \in Nat
        BY <1>0, <3>4, <3>6
      <3> QED  BY <1>0, <2>7, <3>3, <3>5, <3>7 DEF PairOK
    <2> QED  BY <1>0, <2>6, <2>7
  <1> QED  BY <1>0, <1>2, <1>3, <1>4

-----------------------------------------------------------------------------
(* The ports together.                                                     *)

Partners(i, j) == i # j /\ OnlySyncsWith(i, j) /\ OnlySyncsWith(j, i)

ProgramTypeOK ==
    /\ DOMAIN prog = Ports /\ \A i \in Ports : Runnable(prog[i])
    /\ DOMAIN port = Ports /\ \A i \in Ports : port[i].pc \in 0..Len(prog[i])
    /\ DOMAIN sync = Ports
    /\ pins \in [por : BOOLEAN, rst : BOOLEAN, change : BOOLEAN, pulses : Nat]
    /\ xir \in [in : BOOLEAN, out : BOOLEAN, ever : BOOLEAN]
    /\ todo \subseteq Ports

\* While the reset pin is up, a port has been reset or is yet to be clocked.
Resetting ==
    pins.rst =>
        \A k \in Ports : IF port[k].st \in {"RST", "PORRST"}
                         THEN port[k].nsync = 0 /\ sync[k] = NoSync
                         ELSE k \in todo /\ port[k].st \in {"EXEC", "POR"}
\* In the cycle of a reset some ports count from 0 again before the others do.
Together ==
    (~pins.rst \/ todo = Ports) /\ ~xir.ever =>
        \A i, j \in Ports : Partners(i, j) => PairOK(sync, i, j, port[i].nsync, port[j].nsync)

ProgramInv ==
    /\ ProgramTypeOK
    /\ \A i \in Ports : PortOK(port[i])
    /\ xir.in => xir.ever
    /\ Resetting
    /\ Together

LEMMA NewPortOK ==
    ASSUME NEW cmds
    PROVE  /\ PortOK(NewPort(cmds)) /\ NewPort(cmds).pc = 1 /\ NewPort(cmds).nsync = 0
           /\ NewPort(cmds).st = "UNKNOWN"
  <1> DEFINE q == NewPort(cmds)
  <1>1. /\ q.orb = [k \in 1..OrbSize |-> FreeEntry] /\ q.num = 0
        /\ q.owedr = [k \in 1..OrbSize |-> 0]
        /\ q.int = [t \in Targets |-> NoInt] /\ q.inum = 0
        /\ q.io = "NONE" /\ q.iomem = FALSE /\ q.iow = 0 /\ q.iop = 0
        /\ Fields \subseteq DOMAIN q
        /\ q.nsync = 0 /\ q.st = "UNKNOWN" /\ q.pc = 1
    BY DEF NewPort, Fields
  <1> HIDE DEF q
  <1>2. EntriesOK(q)  BY <1>1, ProgramAssumption DEF EntriesOK, FreeEntry
  <1>3. Claims(q) = {}  BY <1>1 DEF Claims, FreeEntry
  <1>4. ClaimsOK(q)  BY <1>1, <1>3, FS_EmptySet DEF ClaimsOK
  <1>5. Issued(q) = {}  BY <1>1 DEF Issued, IntBusy, NoInt
  <1>6. Cardinality(Issued(q)) = 0  BY <1>5, FS_EmptySet
  <1>7. IntOK(q)
    <2>1. \A t \in Targets : IntFields \subseteq DOMAIN q.int[t]  BY <1>1 DEF NoInt, IntFields
    <2> QED  BY <1>1, <1>6, <2>1 DEF IntOK
  <1>8. IoOK(q)  BY <1>1 DEF IoOK, IosyncPasses
  <1>9. PortOK(q)  BY <1>1, <1>2, <1>4, <1>7, <1>8 DEF PortOK, OrbOK
  <1> QED  BY <1>1, <1>9 DEF q

LEMMA PairFresh ==
    ASSUME NEW sy, NEW i, NEW j, sy[i] = NoSync, sy[j] = NoSync
    PROVE  PairOK(sy, i, j, 0, 0)
  <1>1. NoSync # SyncWait(j)  BY SyncFacts
  <1>2. NoSync # SyncOver  BY SyncFacts
  <1> QED  BY <1>1, <1>2 DEF PairOK, ToCome

LEMMA PairSwap ==
    ASSUME NEW sy, NEW i, NEW j, NEW n, NEW m, PairOK(sy, i, j, n, m)
    PROVE  PairOK(sy, j, i, m, n)
  BY DEF PairOK

LEMMA ProgramStarts == ProgramInit => ProgramInv
  <1> SUFFICES ASSUME ProgramInit PROVE ProgramInv
    OBVIOUS
  <1>1. PICK f \in Files : prog = [i \in Ports |-> Compile(f[i])]
    BY DEF ProgramInit
  <1>2. /\ port = [i \in Ports |-> NewPort(prog[i])]
        /\ sync = [i \in Ports |-> NoSync]
        /\ pins = [por |-> FALSE, rst |-> FALSE, change |-> FALSE, pulses |-> 0]
        /\ xir = [in |-> FALSE, out |-> FALSE, ever |-> FALSE]
        /\ todo = Ports
    BY DEF ProgramInit
  <1>3. DOMAIN prog = Ports /\ \A i \in Ports : Runnable(prog[i])
    BY <1>1, FilesAssumption
  <1>4. \A i \in Ports : /\ PortOK(port[i]) /\ port[i].pc = 1 /\ port[i].nsync = 0
                         /\ port[i].st = "UNKNOWN"
    BY <1>2, NewPortOK
  <1>5. \A i \in Ports : 1 \in 0..Len(prog[i])
    BY <1>3 DEF Runnable
  <1>6. ProgramTypeOK
    BY <1>2, <1>3, <1>4, <1>5 DEF ProgramTypeOK
  <1>7. Resetting  BY <1>2 DEF Resetting
  <1>8. Together
    <2>1. \A i, j \in Ports : PairOK(sync, i, j, 0, 0)  BY <1>2, PairFresh
    <2> QED  BY <1>4, <2>1 DEF Together
  <1>9. ~xir.in  BY <1>2
  <1> QED  BY <1>4, <1>6, <1>7, <1>8, <1>9 DEF ProgramInv

(* What a cycle of port c does to what two partners share.                 *)
LEMMA TogetherKept ==
    ASSUME ProgramTypeOK, ~pins.rst, NEW c \in Ports, NEW w, NEW v,
           w.sy = sync, w.p = port[c], Turned(c, w, v),
           NEW i \in Ports, NEW j \in Ports, Partners(i, j),
           PairOK(sync, i, j, port[i].nsync, port[j].nsync)
    PROVE  PairOK(v.sy, i, j, IF i = c THEN v.p.nsync ELSE port[i].nsync,
                              IF j = c THEN v.p.nsync ELSE port[j].nsync)
  <1>0. i # j /\ DOMAIN sync = Ports  BY DEF Partners, ProgramTypeOK
  <1>1. CASE Quiet(w, v)
    BY <1>1 DEF Quiet
  <1>2. CASE Synced(c, w, v)
    <2>1. PICK k \in DOMAIN prog[c] :
              /\ prog[c][k].op = "SYNC"
              /\ SyncStep(c, sync, port[c].nsync, prog[c][k].ids, v.sy, v.p.nsync)
      BY <1>2 DEF Synced
    <2>2. CASE i = c
      <3>1. prog[c][k].ids = {j}  BY <2>1, <2>2 DEF Partners, OnlySyncsWith
      <3>2. SyncStep(i, sync, port[i].nsync, {j}, v.sy, v.p.nsync)
        BY <2>1, <2>2, <3>1
      <3>3. PairOK(v.sy, i, j, v.p.nsync, port[j].nsync)
        BY <1>0, <3>2, SyncTogether
      <3> QED  BY <1>0, <2>2, <3>3
    <2>3. CASE j = c
      <3>1. prog[c][k].ids = {i}  BY <2>1, <2>3 DEF Partners, OnlySyncsWith
      <3>2. SyncStep(j, sync, port[j].nsync, {i}, v.sy, v.p.nsync)
        BY <2>1, <2>3, <3>1
      <3>3. PairOK(sync, j, i, port[j].nsync, port[i].nsync)  BY PairSwap
      <3>4. PairOK(v.sy, j, i, v.p.nsync, port[i].nsync)
        BY <1>0, <3>2, <3>3, SyncTogether
      <3>5. PairOK(v.sy, i, j, port[i].nsync, v.p.nsync)  BY <3>4, PairSwap
      <3> QED  BY <1>0, <2>3, <3>5
    <2>4. CASE i # c /\ j # c
      <3>1. /\ sync[i] \in {NoSync, SyncOver, SyncWait(j)}
            /\ sync[j] \in {NoSync, SyncOver, SyncWait(i)}
        BY DEF PairOK
      <3>2. v.sy[i] = sync[i]  BY <1>0, <2>1, <2>4, <3>1, SyncElsewhere
      <3>3. v.sy[j] = sync[j]  BY <1>0, <2>1, <2>4, <3>1, SyncElsewhere
      <3> QED  BY <2>4, <3>2, <3>3 DEF PairOK
    <2> QED  BY <2>2, <2>3, <2>4
  <1> QED  BY <1>1, <1>2 DEF Turned

LEMMA ClockStep ==
    ASSUME ProgramInv, NEW c \in Ports, ClockPort(c)
    PROVE  ProgramInv'
  <1>1. c \in todo /\ todo' = todo \ {c} /\ prog' = prog /\ pins' = pins /\ cyc' = cyc
    BY DEF ClockPort
  <1>2. PICK b \in BusViews(c), in \in Answers(c), g \in BOOLEAN,
             r \in Flags("ARBWAIT" \in Ops(c)), pd \in Flags(Ops(c) \cap {"BD", "BND"} # {}),
             cc \in Flags(\E k \in 1..OrbSize : port[c].orb[k].cc) :
          LET w == InputValues(c, [p |-> port[c], sy |-> sync, ok |-> TRUE],
                               [b |-> b, in |-> in, g |-> g, r |-> r, pd |-> pd, cc |-> cc])
          IN /\ port' = [port EXCEPT ![c] = w.p]
             /\ sync' = w.sy
             /\ xir' = [xir EXCEPT !.out = @ \/ w.p.put = "XIR"]
    BY DEF ClockPort
  <1> DEFINE w == [p |-> port[c], sy |-> sync, ok |-> TRUE]
             e == [b |-> b, in |-> in, g |-> g, r |-> r, pd |-> pd, cc |-> cc]
             v == InputValues(c, w, e)
  <1>3. /\ port' = [port EXCEPT ![c] = v.p] /\ sync' = v.sy
        /\ xir' = [xir EXCEPT !.out = @ \/ v.p.put = "XIR"]
    BY <1>2
  <1>4. /\ Runnable(prog[c]) /\ PortOK(port[c]) /\ port[c].pc \in 0..Len(prog[c])
        /\ DOMAIN port = Ports /\ DOMAIN sync = Ports
    BY DEF ProgramInv, ProgramTypeOK
  <1>5. WorkOK(c, w) /\ w.p = port[c] /\ w.sy = sync
    BY <1>4 DEF WorkOK
  <1>6. Offered(w.p, e.in)
    <2>1. in \in Answers(c) /\ e.in = in  OBVIOUS
    <2>2. Offered(port[c], in)
      BY <2>1 DEF Answers, Offered
    <2> QED  BY <1>5, <2>1, <2>2
  <1> HIDE DEF w, e
  <1>7. /\ WorkOK(c, v)
        /\ ~pins.rst => Turned(c, w, v)
        /\ pins.rst /\ port[c].st # "UNKNOWN" =>
              IF port[c].st \in {"RST", "PORRST"} THEN Quiet(w, v) /\ v.p.st = port[c].st
              ELSE Cleared(c, w, v)
    BY <1>4, <1>5, <1>6, InputsOK
  <1> HIDE DEF v
  <1>8. \A i \in Ports : port'[i] = IF i = c THEN v.p ELSE port[i]
    BY <1>3, <1>4
  <1>9. DOMAIN sync' = Ports
    <2>1. CASE ~pins.rst
      <3>1. Quiet(w, v) => DOMAIN v.sy = Ports  BY <1>4, <1>5 DEF Quiet
      <3>2. Synced(c, w, v) => DOMAIN v.sy = Ports
        BY <1>4, <1>5, SyncPorts DEF Synced
      <3> QED  BY <1>3, <1>7, <2>1, <3>1, <3>2 DEF Turned
    <2>2. CASE pins.rst
      <3>1. port[c].st \in {"RST", "PORRST", "EXEC", "POR"}
        BY <2>2 DEF ProgramInv, Resetting
      <3>2. Quiet(w, v) \/ Cleared(c, w, v)  BY <1>7, <2>2, <3>1
      <3> QED  BY <1>3, <1>4, <1>5, <3>2 DEF Quiet, Cleared
    <2> QED  BY <2>1, <2>2
  <1>10. xir' \in [in : BOOLEAN, out : BOOLEAN, ever : BOOLEAN] /\ xir'.in = xir.in /\ xir'.ever = xir.ever
    <2>1. xir \in [in : BOOLEAN, out : BOOLEAN, ever : BOOLEAN]  BY DEF ProgramInv, ProgramTypeOK
    <2>2. (xir.out \/ v.p.put = "XIR") \in BOOLEAN  OBVIOUS
    <2> QED  BY <1>3, <2>1, <2>2
  <1>11. ProgramTypeOK'
    <2>1. \A i \in Ports : port'[i].pc \in 0..Len(prog[i])
      BY <1>7, <1>8 DEF WorkOK, ProgramInv, ProgramTypeOK
    <2>2. DOMAIN port' = Ports  BY <1>3, <1>4
    <2>3. todo' \subseteq Ports  BY <1>1 DEF ProgramInv, ProgramTypeOK
    <2> QED  BY <1>1, <1>9, <1>10, <2>1, <2>2, <2>3 DEF ProgramInv, ProgramTypeOK, Runnable
  <1>12. \A i \in Ports : PortOK(port'[i])
    BY <1>7, <1>8 DEF WorkOK, ProgramInv
  <1>13. Resetting'
    <2> SUFFICES ASSUME pins.rst, NEW k \in Ports
                 PROVE  IF port'[k].st \in {"RST", "PORRST"}
                        THEN port'[k].nsync = 0 /\ sync'[k] = NoSync
                        ELSE k \in todo' /\ port'[k].st \in {"EXEC", "POR"}
      BY <1>1 DEF Resetting
    <2>1. /\ IF port[k].st \in {"RST", "PORRST"} THEN port[k].nsync = 0 /\ sync[k] = NoSync
             ELSE k \in todo /\ port[k].st \in {"EXEC", "POR"}
          /\ IF port[c].st \in {"RST", "PORRST"} THEN port[c].nsync = 0 /\ sync[c] = NoSync
             ELSE c \in todo /\ port[c].st \in {"EXEC", "POR"}
      BY DEF ProgramInv, Resetting
    <2>2. \/ port[c].st \in {"RST", "PORRST"} /\ Quiet(w, v) /\ v.p.st = port[c].st
          \/ port[c].st \notin {"RST", "PORRST"} /\ Cleared(c, w, v)
      BY <1>7, <2>1
    <2>3. CASE k = c
      <3>1. port'[k] = v.p  BY <1>8, <2>3
      <3>2. CASE port[c].st \in {"RST", "PORRST"} /\ Quiet(w, v) /\ v.p.st = port[c].st
        BY <1>3, <1>5, <2>1, <2>3, <3>1, <3>2 DEF Quiet
      <3>3. CASE port[c].st \notin {"RST", "PORRST"} /\ Cleared(c, w, v)
        BY <1>3, <1>4, <1>5, <2>3, <3>1, <3>3 DEF Cleared
      <3> QED  BY <2>2, <3>2, <3>3
    <2>4. CASE k # c
      <3>1. port'[k] = port[k] /\ (k \in todo => k \in todo')  BY <1>1, <1>8, <2>4
      <3>2. sync'[k] = sync[k]
        BY <1>3, <1>4, <1>5, <2>2, <2>4 DEF Quiet, Cleared
      <3> QED  BY <2>1, <3>1, <3>2
    <2> QED  BY <2>3, <2>4
  <1>14. Together'
    <2> SUFFICES ASSUME (~pins.rst \/ todo' = Ports) /\ ~xir'.ever, NEW i \in Ports, NEW j \in Ports,
                        Partners(i, j)
                 PROVE  PairOK(sync', i, j, port'[i].nsync, port'[j].nsync)
      BY <1>1 DEF Together, Partners, OnlySyncsWith
    <2>1. todo' # Ports  BY <1>1
    <2>2. ~pins.rst /\ ~xir.ever  BY <1>10, <2>1
    <2>3. PairOK(sync, i, j, port[i].nsync, port[j].nsync)
      BY <2>2 DEF ProgramInv, Together
    <2>4. PairOK(v.sy, i, j, IF i = c THEN v.p.nsync ELSE port[i].nsync,
                             IF j = c THEN v.p.nsync ELSE port[j].nsync)
      BY <1>5, <1>7, <2>2, <2>3, TogetherKept DEF ProgramInv
    <2>5. /\ port'[i].nsync = IF i = c THEN v.p.nsync ELSE port[i].nsync
          /\ port'[j].nsync = IF j = c THEN v.p.nsync ELSE port[j].nsync
      BY <1>8
    <2> QED  BY <1>3, <2>4, <2>5
  <1>15. (xir.in => xir.ever)'  BY <1>10 DEF ProgramInv
  <1> QED  BY <1>11, <1>12, <1>13, <1>14, <1>15 DEF ProgramInv

LEMMA ProgramStep ==
    ASSUME ProgramInv, [ProgramNext]_progVars
    PROVE  ProgramInv'
  <1>0. ProgramTypeOK /\ Resetting /\ Together /\ (xir.in => xir.ever)
        /\ \A i \in Ports : PortOK(port[i])
    BY DEF ProgramInv
  <1>1. CASE EndCycle
    <2>1. /\ prog' = prog /\ port' = port /\ sync' = sync /\ todo = {} /\ todo' = Ports
          /\ pins' = [pins EXCEPT !.change = FALSE]
          /\ xir' = [in |-> xir.out, out |-> FALSE, ever |-> xir.ever \/ xir.out]
      BY <1>1 DEF EndCycle
    <2>2. pins' \in [por : BOOLEAN, rst : BOOLEAN, change : BOOLEAN, pulses : Nat] /\ pins'.rst = pins.rst
      BY <1>0, <2>1 DEF ProgramTypeOK
    <2>3. xir' \in [in : BOOLEAN, out : BOOLEAN, ever : BOOLEAN] /\ (xir'.in => xir'.ever)
          /\ (xir.ever => xir'.ever)
      <3>1. xir.out \in BOOLEAN /\ xir.ever \in BOOLEAN  BY <1>0 DEF ProgramTypeOK
      <3> QED  BY <2>1, <3>1
    <2>4. ProgramTypeOK'  BY <1>0, <2>1, <2>2, <2>3 DEF ProgramTypeOK, Runnable
    <2>5. pins.rst => \A k \in Ports : port[k].nsync = 0 /\ sync[k] = NoSync
                                       /\ port[k].st \in {"RST", "PORRST"}
      BY <1>0, <2>1 DEF Resetting
    <2>6. Resetting'  BY <2>1, <2>2, <2>5 DEF Resetting
    <2>7. Together'
      <3> SUFFICES ASSUME ~xir.ever, NEW i \in Ports, NEW j \in Ports, Partners(i, j)
                   PROVE  PairOK(sync, i, j, port[i].nsync, port[j].nsync)
        BY <2>1, <2>3 DEF Together, Partners, OnlySyncsWith
      <3>1. CASE pins.rst  BY <2>5, <3>1, PairFresh
      <3>2. CASE ~pins.rst  BY <1>0, <3>2 DEF Together
      <3> QED  BY <3>1, <3>2
    <2> QED  BY <1>0, <2>1, <2>3, <2>4, <2>6, <2>7 DEF ProgramInv
  <1>2. CASE AssertPor
    <2>1. /\ prog' = prog /\ sync' = sync /\ xir' = xir /\ todo' = todo /\ todo = Ports
          /\ pins' = [pins EXCEPT !.por = TRUE, !.rst = TRUE]
          /\ port' = [i \in Ports |-> [port[i] EXCEPT !.st = "POR"]]
      BY <1>2 DEF AssertPor
    <2>2. pins' \in [por : BOOLEAN, rst : BOOLEAN, change : BOOLEAN, pulses : Nat]
      BY <1>0, <2>1 DEF ProgramTypeOK
    <2>3. \A i \in Ports : /\ Same(port[i], port'[i]) /\ port'[i].pc = port[i].pc
                           /\ port'[i].nsync = port[i].nsync /\ port'[i].st = "POR"
      BY <1>0, <2>1 DEF PortOK, Fields, Same, SameOrb, SameInt, SameIo
    <2>4. \A i \in Ports : PortOK(port'[i])  BY <1>0, <2>3, PortKept
    <2>5. ProgramTypeOK'
      <3>1. DOMAIN port' = Ports  BY <2>1
      <3> QED  BY <1>0, <2>1, <2>2, <2>3, <3>1 DEF ProgramTypeOK, Runnable
    <2>6. Resetting'  BY <2>1, <2>3 DEF Resetting
    <2>7. Together'
      BY <1>0, <2>1, <2>3 DEF Together, Partners, OnlySyncsWith
    <2> QED  BY <1>0, <2>1, <2>4, <2>5, <2>6, <2>7 DEF ProgramInv
  <1>3. CASE ReleasePor
    <2>1. /\ prog' = prog /\ sync' = sync /\ xir' = xir /\ todo' = todo /\ todo = Ports
          /\ pins' = [pins EXCEPT !.por = FALSE]
          /\ port' = [i \in Ports |-> [port[i] EXCEPT !.st = "RST"]]
          /\ \A i \in Ports : port[i].st = "PORRST"
      BY <1>3 DEF ReleasePor
    <2>2. pins' \in [por : BOOLEAN, rst : BOOLEAN, change : BOOLEAN, pulses : Nat] /\ pins'.rst = pins.rst
      BY <1>0, <2>1 DEF ProgramTypeOK
    <2>3. \A i \in Ports : /\ Same(port[i], port'[i]) /\ port'[i].pc = port[i].pc
                           /\ port'[i].nsync = port[i].nsync /\ port'[i].st = "RST"
      BY <1>0, <2>1 DEF PortOK, Fields, Same, SameOrb, SameInt, SameIo
    <2>4. \A i \in Ports : PortOK(port'[i])  BY <1>0, <2>3, PortKept
    <2>5. ProgramTypeOK'
      <3>1. DOMAIN port' = Ports  BY <2>1
      <3> QED  BY <1>0, <2>1, <2>2, <2>3, <3>1 DEF ProgramTypeOK, Runnable
    <2>6. Resetting'  BY <1>0, <2>1, <2>2, <2>3 DEF Resetting
    <2>7. Together'
      BY <1>0, <2>1, <2>2, <2>3 DEF Together, Partners, OnlySyncsWith
    <2> QED  BY <1>0, <2>1, <2>4, <2>5, <2>6, <2>7 DEF ProgramInv
  <1>4. CASE ReleaseRst
    <2>1. /\ prog' = prog /\ sync' = sync /\ xir' = xir /\ todo' = todo /\ port' = port
          /\ pins' = [pins EXCEPT !.rst = FALSE] /\ todo = Ports
      BY <1>4 DEF ReleaseRst
    <2>2. pins' \in [por : BOOLEAN, rst : BOOLEAN, change : BOOLEAN, pulses : Nat] /\ ~pins'.rst
      BY <1>0, <2>1 DEF ProgramTypeOK
    <2>3. ProgramTypeOK'  BY <1>0, <2>1, <2>2 DEF ProgramTypeOK, Runnable
    <2>4. Resetting'  BY <2>2 DEF Resetting
    <2>5. Together'  BY <1>0, <2>1 DEF Together, Partners, OnlySyncsWith
    <2> QED  BY <1>0, <2>1, <2>3, <2>4, <2>5 DEF ProgramInv
  <1>5. CASE Pulse
    <2>1. /\ prog' = prog /\ sync' = sync /\ xir' = xir /\ todo' = todo /\ port' = port
          /\ todo = Ports /\ \A i \in Ports : port[i].st = "EXEC"
          /\ \/ pins' = [pins EXCEPT !.rst = TRUE, !.pulses = @ + 1]
             \/ pins' = [pins EXCEPT !.change = TRUE, !.pulses = @ + 1]
      BY <1>5 DEF Pulse
    <2>2. pins' \in [por : BOOLEAN, rst : BOOLEAN, change : BOOLEAN, pulses : Nat]
      <3>1. pins \in [por : BOOLEAN, rst : BOOLEAN, change : BOOLEAN, pulses : Nat]
        BY <1>0 DEF ProgramTypeOK
      <3>2. pins.pulses + 1 \in Nat  BY <3>1
      <3>3. CASE pins' = [pins EXCEPT !.rst = TRUE, !.pulses = @ + 1]
        <4>1. pins' = [pins EXCEPT !.rst = TRUE, !.pulses = pins.pulses + 1]  BY <3>3
        <4> QED  BY <3>1, <3>2, <4>1
      <3>4. CASE pins' = [pins EXCEPT !.change = TRUE, !.pulses = @ + 1]
        <4>1. pins' = [pins EXCEPT !.change = TRUE, !.pulses = pins.pulses + 1]  BY <3>4
        <4> QED  BY <3>1, <3>2, <4>1
      <3> QED  BY <2>1, <3>3, <3>4
    <2>3. ProgramTypeOK'  BY <1>0, <2>1, <2>2 DEF ProgramTypeOK, Runnable
    <2>4. Resetting'  BY <2>1 DEF Resetting
    <2>5. Together'  BY <1>0, <2>1 DEF Together, Partners, OnlySyncsWith
    <2> QED  BY <1>0, <2>1, <2>3, <2>4, <2>5 DEF ProgramInv
  <1>6. CASE \E i \in Ports : ClockPort(i)
    BY <1>6, ClockStep
  <1>7. CASE UNCHANGED progVars
    <2>1. /\ prog' = prog /\ port' = port /\ sync' = sync /\ pins' = pins /\ xir' = xir
          /\ todo' = todo
      BY <1>7 DEF progVars
    <2> QED
      BY <1>0, <2>1 DEF ProgramInv, ProgramTypeOK, Runnable, Resetting, Together, Partners, OnlySyncsWith
  <1> QED
    BY <1>1, <1>2, <1>3, <1>4, <1>5, <1>6, <1>7 DEF ProgramNext

\* The ports while they run their files (SJM.cc, ReadOutBuffer.cc, InterruptControl.cc,
\* sync_int.cc): the buffers and counters agree as described above, for any files that
\* can be run, any number of ports, entries and targets, and any answers of the bus.
THEOREM ProgramInvariance == ProgramSpec => []ProgramInv
  <1>1. ProgramInit => ProgramInv  BY ProgramStarts
  <1>2. ProgramInv /\ [ProgramNext]_progVars => ProgramInv'  BY ProgramStep
  <1> QED  BY <1>1, <1>2, PTL DEF ProgramSpec

\* The counters FLUSH, CMP, the branches, BI and BNI wait for (numvalid,
\* int_num_outgoing) are never below what is outstanding.
THEOREM CountersHold == ProgramSpec => []CountersCover
  <1>1. ProgramInv => CountersCover
    <2> SUFFICES ASSUME ProgramInv, NEW i \in Ports
                 PROVE  /\ Cardinality(Valid(port[i])) <= port[i].num
                        /\ Cardinality({t \in Targets : IntBusy(port[i], t) /\ port[i].int[t].issued})
                             <= port[i].inum
      BY DEF CountersCover
    <2>1. PortOK(port[i])  BY DEF ProgramInv
    <2> QED  BY <2>1, ValidCovered DEF PortOK, IntOK, Issued
  <1> QED  BY <1>1, ProgramInvariance, PTL

\* SYNC keeps two ports that name each other within one SYNC of each other until the
\* first XIR, resets included, and no IOSYNC passes without a write of its own.
THEOREM SyncsMeet == ProgramSpec => []SyncRendezvous
  <1>1. ProgramInv => SyncRendezvous
    <2> SUFFICES ASSUME ProgramInv PROVE SyncRendezvous  OBVIOUS
    <2>1. ASSUME todo = Ports, ~xir.ever, NEW i \in Ports, NEW j \in Ports,
                 i # j, OnlySyncsWith(i, j), OnlySyncsWith(j, i)
          PROVE  port[i].nsync <= port[j].nsync + 1
      <3>1. PairOK(sync, i, j, port[i].nsync, port[j].nsync)
        BY <2>1 DEF ProgramInv, Together, Partners
      <3>2. ToCome(sync[i]) \in {0, 1} /\ ToCome(sync[j]) \in {0, 1}  BY DEF ToCome
      <3> QED  BY <3>1, <3>2 DEF PairOK
    <2>2. \A i \in Ports : port[i].iop <= port[i].iow
      BY DEF ProgramInv, PortOK, IoOK
    <2> QED  BY <2>1, <2>2 DEF SyncRendezvous
  <1> QED  BY <1>1, ProgramInvariance, PTL

=============================================================================
