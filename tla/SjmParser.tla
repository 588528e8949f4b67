------------------------------ MODULE SjmParser ------------------------------
(***************************************************************************)
(* The command-file compiler of the SJM JBus models: Parser and Command    *)
(* (verif/env/iss/pli/sjm/c).  One step reads one line of the file, as one *)
(* turn of the loop of Parser::ReadFile does; LinkPass is the second pass. *)
(*                                                                         *)
(* A line is a record                                                      *)
(*   kind   "skip", "config", "address", "label" or "cmd";                 *)
(*   op     the command name; label, the label a "label" line declares;    *)
(*   to     the label a branch names;                                      *)
(*   parms  the shape of the parameters: "ok", "few" (one is missing),     *)
(*          "bad" (a required one is illegal), "badopt" (an optional one   *)
(*          is illegal), "extra" (tokens are left over);                   *)
(*   toks   for the transaction commands, the classes of their tokens.     *)
(* A command object is named by the line that created it.  Other fields a  *)
(* line carries (cycles, address, register) are used by SjmProgram.        *)
(***************************************************************************)
EXTENDS Integers, Sequences, SequencesExt, FiniteSets

CONSTANT MaxLines          \* bound on the length of a file

VARIABLES file,            \* the lines read so far
          prs              \* the compiler's state (see NewParser)

ASSUME MaxLinesAssumption == MaxLines \in Nat

NoLabel == "none"

(***************************************************************************)
(* Parser::Parser, and the locals of ReadFile.  errorchk is not            *)
(* initialised by the code: garbage is whatever the stack held.            *)
(***************************************************************************)
NewParser(garbage) ==
    [id |-> FALSE, errorcnt |-> 0, errorchk |-> garbage, lastlabel |-> NoLabel,
     labellist |-> <<>>, list |-> <<>>, branch |-> <<>>, state |-> "reading"]

-----------------------------------------------------------------------------
(* The commands, grouped by how their branch of ReadFile treats parameters *)

MessageOps  == {"PRINT", "ERROR"}
BareOps     == {"IOSYNC", "FLUSH", "DONE", "XIR"}
BranchOps   == {"BNE", "BE", "BA", "BI", "BNI", "BIA", "BNIA", "BD", "BND"}
EnableOps   == {"TOADDRESS", "BEADDRESS", "SEADDRESS", "APADDRESS"}
CountedOps  == {"APERROR", "ECCERROR", "FLIPBITS", "BUSCHECK", "BUSWAIT", "CMP",
                "BUSERROR", "CACHESTATE"}
CheckedOps  == {"TIMEOUT", "WAIT", "ARBWAIT", "APCHECK", "SYNC", "SEED", "INTACK",
                "INTMODE", "INTACCEPT", "DISPLAY_ECTAG", "INV", "AOK", "DOK"}
               \union BranchOps
SizeOptOps  == {"IFETCH", "READ", "OWN", "READIO"}
SizeReqOps  == {"WRITE", "WRITEIO", "LOCK"}
DataOptOps  == {"READBLK", "READBLKIO"}
DataReqOps  == {"WRITEBLK", "WRITEBLKIO", "INT", "READINT"}
MaskOps     == {"READMSKIO", "WRITEMSKIO", "WRITEMSK"}
StaleChkOps == {"WRITEMSKIO", "WRITEMSK"}
TransOps    == SizeOptOps \union SizeReqOps \union DataOptOps \union DataReqOps
               \union MaskOps

\* Command::SetCommand knows these and no others.
KnownOps == MessageOps \union BareOps \union EnableOps \union CountedOps
            \union CheckedOps \union TransOps

\* A mutant of CountsDropped: a command with too few parameters is dropped
\* and not counted.
CountsDropped_not == 0
\* A command line that is dropped counts one error.
CountsDropped == 1

\* An illegal parameter makes ReadFile drop the command ...
DropOnBad == {"ARBWAIT", "FLIPBITS", "BUSCHECK", "BUSWAIT", "CMP", "INTMODE", "INV"}
\* ... or count an error and keep it; every other illegal parameter passes.
KeepOnBad == EnableOps \union {"APERROR", "APCHECK", "ECCERROR", "CACHESTATE"}
\* An illegal optional parameter is counted here; TIMEOUT only prints it.
CountsBadOpt == {"BUSWAIT", "CMP"}
\* These never look for left-over tokens.
IgnoresExtra == MessageOps \union {"SYNC", "INTMODE", "ECCERROR", "FLIPBITS", "CACHESTATE"}

-----------------------------------------------------------------------------
(***************************************************************************)
(* Parser::ParseReadWrite: the error count for the tokens of a transaction *)
(* command.  After an optional argument nothing else may follow; the code  *)
(* then complains only if yet another token is left.                       *)
(***************************************************************************)
NeedsMore(op) == op \in SizeReqOps \union DataReqOps \union MaskOps
NeedsData(op) == op \in SizeReqOps \union DataReqOps \union StaleChkOps
HasAddress(op) == op # "READINT"

\* The loop over the data tokens: it stops at the first token that is no option and
\* either follows an option or is no data.  Only what comes after the former is an error.
DataTokens(toks, opts0) ==
    LET opts(i) == opts0 \/ \E j \in 1..(i - 1) : toks[j] = "opt"
        stop == {i \in 1..Len(toks) : toks[i] # "opt" /\ (opts(i) \/ toks[i] = "bad")}
        first == CHOOSE i \in stop : \A j \in stop : i <= j
    IN IF stop = {} \/ (opts(first) /\ first = Len(toks)) THEN 0 ELSE 1

\* The address, then a mask or a size (an option may stand in for an optional
\* size), then data: which of them must be there depends on the command.
ParseReadWrite(op, toks) ==
    LET rest == IF HasAddress(op) /\ toks # <<>> THEN Tail(toks) ELSE toks
        sized == op \in SizeOptOps \union SizeReqOps
        plain == op \in DataOptOps \union DataReqOps
        first == IF sized /\ Head(rest) = "bad" THEN 1 ELSE 0
        data == IF plain THEN rest ELSE Tail(rest)
    IN CASE toks = <<>> -> 1
         [] toks # <<>> /\ rest = <<>> -> IF NeedsMore(op) THEN 1 ELSE 0
         [] toks # <<>> /\ rest # <<>> /\ data = <<>> /\ NeedsData(op) -> first + 1
         [] OTHER -> first + DataTokens(data, op \in SizeOptOps /\ Head(rest) = "opt")

(***************************************************************************)
(* What one command line does to errorcnt (err), to errorchk (chk), and    *)
(* whether AddCmd is reached (add).                                        *)
(***************************************************************************)
ParseParms(p, ln) ==
    LET op == ln.op
        n == ParseReadWrite(op, ln.toks)
        chk == IF op \in CheckedOps THEN (IF ln.parms = "few" THEN 1 ELSE 0)
               ELSE IF op \in StaleChkOps THEN p.errorchk + n
               ELSE IF op \in TransOps THEN n
               ELSE IF op = "FLIPBITS" THEN p.errorcnt
               ELSE p.errorchk
        stale == IF op = "ECCERROR" THEN p.errorchk ELSE 0
        keep(e) == [err |-> e, add |-> TRUE, chk |-> chk]
        drop(e, c) == [err |-> e, add |-> FALSE, chk |-> c]
    IN CASE op \in TransOps ->
              IF chk = 0 THEN keep(0) ELSE drop(chk, chk)
         [] op \notin TransOps /\ ln.parms = "few" ->
              CASE op \in CheckedOps -> drop(CountsDropped, chk)
                [] op \in CountedOps -> drop(CountsDropped, p.errorchk)
                [] op \in EnableOps  -> keep(1)
                [] OTHER -> keep(0)
         [] op \notin TransOps /\ ln.parms = "bad" ->
              CASE op \in DropOnBad -> drop(1, IF op \in CheckedOps THEN 0 ELSE p.errorchk)
                [] op \in KeepOnBad -> keep(1 + stale)
                [] OTHER -> keep(0)
         [] op \notin TransOps /\ ln.parms = "badopt" ->
              keep(IF op \in CountsBadOpt THEN 1 ELSE 0)
         [] op \notin TransOps /\ ln.parms = "extra" ->
              keep(IF op \in IgnoresExtra THEN stale ELSE 1)
         [] OTHER -> keep(stale)

-----------------------------------------------------------------------------
(* One turn of the loop of ReadFile, for line number k.                    *)

\* The first line that counts must be CONFIG; a bad id is counted and the
\* next line must be CONFIG again.
ConfigLine(p, ln) ==
    IF ln.kind # "config" THEN [p EXCEPT !.state = "rejected"]
    ELSE [p EXCEPT !.id = (ln.parms # "bad"),
                   !.errorcnt = @ + (IF ln.parms \in {"bad", "badopt"} THEN 1 ELSE 0)]

\* A label waits for the command that follows it; a duplicate of a label that
\* a command already carries is an error and is forgotten.
LabelLine(p, ln) ==
    LET dup == \E i \in DOMAIN p.labellist : p.labellist[i].label = ln.label
    IN [p EXCEPT !.errorchk = p.errorcnt,
                 !.lastlabel = IF dup THEN NoLabel ELSE ln.label,
                 !.errorcnt = @ + (IF dup THEN 1 ELSE 0)
                                + (IF ln.parms = "extra" THEN 1 ELSE 0)]

\* Parser::AddCmd.
AddCmd(p, k) == [p EXCEPT !.list = Append(@, k)]

\* The label goes to the new command before its parameters are looked at.
CommandLine(p, k, ln) ==
    IF ln.op \notin KnownOps THEN [p EXCEPT !.errorcnt = @ + 1]
    ELSE LET q == IF p.lastlabel = NoLabel THEN p
                  ELSE [p EXCEPT !.labellist = Append(@, [label |-> p.lastlabel, cmd |-> k]),
                                 !.lastlabel = NoLabel]
             o == ParseParms(q, ln)
             r == [q EXCEPT !.errorcnt = @ + o.err, !.errorchk = o.chk]
         IN IF ~o.add THEN r
            ELSE [AddCmd(r, k) EXCEPT !.state = IF ln.op = "DONE" THEN "linking" ELSE @]

ParseAddress(p, ln) == [p EXCEPT !.errorcnt = @ + (IF ln.parms = "ok" THEN 0 ELSE 1)]

ReadLine(p, k, ln) ==
    CASE ln.kind = "skip" -> p
      [] ln.kind # "skip" /\ ~p.id -> ConfigLine(p, ln)
      [] ln.kind = "address" /\ p.id -> ParseAddress(p, ln)
      [] ln.kind = "label" /\ p.id -> LabelLine(p, ln)
      [] OTHER -> CommandLine(p, k, ln)

(***************************************************************************)
(* The second pass gives branches their target; BD and BND are left out of *)
(* its condition and keep branchCmd NULL (0).  A file with errors is       *)
(* rejected; otherwise a DONE (command 0) is put at the end if there is    *)
(* none.                                                                   *)
(***************************************************************************)
LinkedOps == BranchOps \ {"BD", "BND"}

LinkPass(p, lines) ==
    LET target(k) ==
            LET hits == {i \in DOMAIN p.labellist : p.labellist[i].label = lines[k].to}
            IN IF lines[k].op \in LinkedOps /\ hits # {}
               THEN p.labellist[CHOOSE i \in hits : \A j \in hits : i <= j].cmd ELSE 0
        branch == [i \in DOMAIN p.list |-> target(p.list[i])]
        lost == {i \in DOMAIN p.list : lines[p.list[i]].op \in LinkedOps /\ branch[i] = 0}
        errs == p.errorcnt + Cardinality(lost)
        needs == p.list = <<>> \/ lines[p.list[Len(p.list)]].op # "DONE"
    IN [p EXCEPT !.errorcnt = errs, !.branch = branch,
                 !.state = IF errs > 0 THEN "rejected" ELSE "accepted",
                 !.list = IF errs = 0 /\ needs THEN Append(@, 0) ELSE @]

\* The whole of ReadFile on a file already written.
Finished(p, lines) == IF p.state = "rejected" THEN p ELSE LinkPass(p, lines)
ReadFile(lines, garbage) ==
    LET Step(p, k) == IF p.state = "reading" THEN ReadLine(p, k, lines[k]) ELSE p
    IN Finished(FoldLeft(Step, NewParser(garbage), [k \in 1..Len(lines) |-> k]), lines)

-----------------------------------------------------------------------------
(* The compiler as a state machine: the file is any sequence of Lines.     *)

ParserInit == /\ file = <<>>
              /\ \E garbage \in 0..1 : prs = NewParser(garbage)

NextLine(ln) == /\ prs.state = "reading"
                /\ Len(file) < MaxLines
                /\ file' = Append(file, ln)
                /\ prs' = ReadLine(prs, Len(file) + 1, ln)

EndOfFile == /\ prs.state \in {"reading", "linking"}
             /\ prs' = LinkPass(prs, file)
             /\ UNCHANGED file

ParserNext(Lines) == EndOfFile \/ \E ln \in Lines : NextLine(ln)

parserVars == <<file, prs>>
ParserSpec(Lines) == ParserInit /\ [][ParserNext(Lines)]_parserVars

-----------------------------------------------------------------------------
(* Properties of an accepted file                                          *)

(***************************************************************************)
(* What the reader relies on: an accepted command list ends with the only  *)
(* DONE, and each branch the second pass links goes to a command that is   *)
(* itself in the list.  A label is attached before the parameters are      *)
(* checked, so this holds only if every path that drops a command counts   *)
(* an error.                                                               *)
(***************************************************************************)
AcceptedIsExecutable ==
    prs.state = "accepted" =>
        LET op(i) == IF prs.list[i] = 0 THEN "DONE" ELSE file[prs.list[i]].op
            n == Len(prs.list)
        IN /\ \A i \in 1..n : op(i) = "DONE" <=> i = n
           /\ \A i \in DOMAIN prs.branch :
                op(i) \in LinkedOps => prs.branch[i] \in Range(prs.list)
=============================================================================
