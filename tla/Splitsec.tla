------------------------------- MODULE Splitsec -------------------------------
(***************************************************************************)
(* goldfinger -splitsec: an assembly source is cut into one file per       *)
(* section, reopened to append when a section comes back, and the          *)
(* directives go to the midas file.  Text before the first SECTION is in a *)
(* temporary file that the first section takes over.                       *)
(*                                                                         *)
(* A line is a kind, a name (of a section or application), whether it      *)
(* holds a closing brace and whether it ends in a backslash.               *)
(***************************************************************************)
EXTENDS Integers, Sequences, SequencesExt, FiniteSets, TLC

CONSTANTS SpLines, SpLength   \* the lines a source is made of, and how many it has at most

VARIABLES
    spRead,    \* the source read so far
    spTable,   \* Section_table: the sections seen, as <<application, section>>, in order
    spFile,    \* file number (0: the temporary file) -> line numbers it holds
    spMidas,   \* line numbers in the midas file
    spSrc,     \* the open section file
    spLast,    \* last_fh: "midas" or "src"
    spApp,     \* the current application
    spBlock,   \* in_block
    spMulti    \* in_multi_line_dir

spVars == <<spRead, spTable, spFile, spMidas, spSrc, spLast, spApp, spBlock, spMulti>>

No == Len(spRead) + 1    \* the number of the line being read

ToMidas == spMidas' = Append(spMidas, No) /\ UNCHANGED spFile
ToSource == spFile' = [spFile EXCEPT ![spSrc] = Append(@, No)] /\ UNCHANGED spMidas

\* section_lookup's search in the table.
Known(app, sec) == {i \in DOMAIN spTable : spTable[i] = <<app, sec>>}

\* The lines file n starts with: the first section's file is the temporary file under a new name,
\* a section seen before is opened to append, a new one is created empty.
Opened(n, known) == IF known THEN spFile[n] ELSE IF n = 1 THEN spFile[0] ELSE <<>>


section_lookup(app, sec) ==
    LET seen == Known(app, sec)
        n == IF seen # {} THEN CHOOSE i \in seen : TRUE ELSE Len(spTable) + 1
    IN  /\ spTable' = IF seen # {} THEN spTable ELSE Append(spTable, <<app, sec>>)
        /\ spFile' = [f \in (DOMAIN spFile \union {n}) \ {0} |-> IF f = n THEN Opened(n, seen # {}) ELSE spFile[f]]
        /\ spSrc' = n

Blank(l) ==
    /\ l.kind = "blank"
    /\ IF spLast = "midas" THEN ToMidas ELSE ToSource
    /\ UNCHANGED <<spTable, spSrc, spLast, spApp, spBlock, spMulti>>

Continued(l) ==
    /\ l.kind # "blank" /\ spMulti
    /\ ToMidas
    /\ spMulti' = l.more
    /\ UNCHANGED <<spTable, spSrc, spLast, spApp, spBlock>>

\* attr_ and goldfinger_ lines open a block that lasts to a line with a closing brace.
Attr(l) ==
    /\ l.kind = "attr" /\ ~spMulti
    /\ ToMidas
    /\ spBlock' = (spBlock \/ ~l.brace)
    /\ spLast' = "midas"
    /\ UNCHANGED <<spTable, spSrc, spApp, spMulti>>

InBlock(l) ==
    /\ l.kind \notin {"blank", "attr"} /\ ~spMulti /\ spBlock
    /\ ToMidas
    /\ spBlock' = ~l.brace
    /\ UNCHANGED <<spTable, spSrc, spLast, spApp, spMulti>>

Section(l) ==
    /\ l.kind = "section" /\ ~spMulti /\ ~spBlock
    /\ spMidas' = Append(spMidas, No)
    /\ section_lookup(spApp, l.name)
    /\ spLast' = "midas"
    /\ spMulti' = l.more
    /\ UNCHANGED <<spApp, spBlock>>

\* MIDAS_ and APPLICATION lines.
Directive(l) ==
    /\ l.kind \in {"midas", "application"} /\ ~spMulti /\ ~spBlock
    /\ ToMidas
    /\ spApp' = IF l.kind = "application" THEN l.name ELSE spApp
    /\ spLast' = "midas"
    /\ spMulti' = l.more
    /\ UNCHANGED <<spTable, spSrc, spBlock>>

Text(l) ==
    /\ l.kind = "text" /\ ~spMulti /\ ~spBlock
    /\ ToSource
    /\ spLast' = "src"
    /\ UNCHANGED <<spTable, spSrc, spApp, spBlock, spMulti>>

splitsec(l) ==
    /\ \/ Blank(l) \/ Continued(l) \/ Attr(l) \/ InBlock(l) \/ Section(l) \/ Directive(l) \/ Text(l)
    /\ spRead' = Append(spRead, l)

SpInit ==
    /\ spRead = <<>> /\ spTable = <<>> /\ spFile = (0 :> <<>>) /\ spMidas = <<>>
    /\ spSrc = 0 /\ spLast = "src" /\ spApp = "default" /\ spBlock = FALSE /\ spMulti = FALSE

SpNext == Len(spRead) < SpLength /\ \E l \in SpLines : splitsec(l)

\* LinesKept: whatever the order of sections, applications, blocks and continued directives, every
\* line of the source is in exactly one file, once, and every file keeps the order of the source:
\* reopening a section loses nothing it held, and the first section takes over what came before it.
LinesKept ==
    LET held == [f \in {-1} \union DOMAIN spFile |-> IF f = -1 THEN spMidas ELSE spFile[f]]
    IN  /\ \A i \in DOMAIN spRead : Cardinality({f \in DOMAIN held : i \in Range(held[f])}) = 1
        /\ \A f \in DOMAIN held : \A i, j \in DOMAIN held[f] : i < j => held[f][i] < held[f][j]
=============================================================================
