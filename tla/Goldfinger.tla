------------------------------ MODULE Goldfinger ------------------------------
(***************************************************************************)
(* Goldfinger turns a linked program and a description of its blocks and   *)
(* translation tables into a memory image and a symbol table: it reads the *)
(* description, sizes each block from its ELF section, writes the blocks'  *)
(* words (runs of zero lines compressed), enters every page of every block *)
(* in the TSBs and TSBCSMs it names (colliding entries move to a chain in  *)
(* a link area), writes the tables, and prints the symbols.  A gf_error    *)
(* ends the program.                                                       *)
(*                                                                         *)
(* Addresses and lengths count double words (8 bytes).  The bit ranges a   *)
(* table entry is made from are abstracted to tag, index and data units.   *)
(***************************************************************************)
EXTENDS Integers, Sequences, SequencesExt, FiniteSets, TLC

CONSTANTS
    GfPrograms,    \* the inputs: [args, decls, elf]
    LineWords,     \* double words on an image line (4: WORDS_PER_LINE is 8 words)
    PaSpan,        \* the size of the physical address space
    IndexUnit,     \* 2^va_index_bits.lo
    IndexSpan,     \* 2^(width of va_index_bits), before the TSB's size bits
    TagUnit,       \* 2^tte_tag_addr_bits.lo
    DataBase       \* data_base: the bits every table entry's data carries

VARIABLES
    gfProg,      \* the program being run
    gfPc,        \* the phase of process_goldfinger_file
    gfAt,        \* the next object of that phase
    gfObj,       \* declared objects: blocks, TSBs, TSBCSMs and their link areas
    gfPhysmap,   \* physical ranges in use
    gfEntries,   \* table name -> its entries, for "tsb" and for "csm"
    gfLinks,     \* link area name -> its entries, for "tsb" and for "csm"
    gfImage,     \* the image file
    gfSymtab     \* the symbol table file

gfVars == <<gfProg, gfPc, gfAt, gfObj, gfPhysmap, gfEntries, gfLinks, gfImage, gfSymtab>>

NoAddr == -1      \* NO_ADDR
LinkTag == -1     \* TSB_LINK_TAG and EOL are both (uint64_t)-1
Kinds == {"tsb", "csm"}
LinkKind == [tsb |-> "tsb_link", csm |-> "csm_link"]

NoEntry2 == [tag |-> 0, data |-> 0, clump |-> 0]
Named(objs, n) == {i \in DOMAIN objs : objs[i].name = n}
\* get_..._ptr_by_name: the first object of that name.
TheOne(objs, n) == objs[CHOOSE i \in Named(objs, n) : \A j \in Named(objs, n) : i <= j]
Fail == gfPc' = "error"
Aligned(a, p) == a = NoAddr \/ a % p = 0

-----------------------------------------------------------------------------
(* Reading the description.                                                *)

sanity_check_block_tsb(b) ==
    \A i \in DOMAIN b.tsbs :
        /\ b.ra # NoAddr \/ b.ra_eq_va
        /\ b.tsbs[i].page_size \in {2^k : k \in 0..6}
        /\ \A a \in {b.ra, b.va, b.pa} : Aligned(a, b.tsbs[i].page_size)

sanity_check_block(b) ==
    /\ sanity_check_block_tsb(b)
    /\ b.va = NoAddr \/ b.start_label = ""
    /\ b.end_va = NoAddr \/ b.end_label = ""
    /\ b.in_image => b.pa # NoAddr \/ b.pa_eq_va
    /\ b.pa = NoAddr \/ ~b.pa_eq_va
    /\ b.ra = NoAddr \/ ~b.ra_eq_va

sanity_check_tsb(t) == t.num_entries # 0 /\ t.start_addr # NoAddr

\* open_new_X, the setters and close_X of one object.  Only blocks may share a name.
Declare ==
    /\ gfPc = "parse"
    /\ gfAt <= Len(gfProg.decls)
    /\ LET d == gfProg.decls[gfAt]
           k == d.kind
       IN  IF \/ k # "block" /\ Named(gfObj[k], d.name) # {}
              \/ k = "block" /\ ~sanity_check_block(d)
              \/ k \in Kinds /\ ~sanity_check_tsb(d)
           THEN Fail /\ UNCHANGED <<gfAt, gfObj>>
           ELSE /\ gfObj' = [gfObj EXCEPT ![k] = Append(@, d)]
                /\ gfAt' = gfAt + 1
                /\ UNCHANGED gfPc
    /\ UNCHANGED <<gfProg, gfPhysmap, gfEntries, gfLinks, gfImage, gfSymtab>>

\* finish_single_X_init: the names a table or a block refers to must exist.
Resolved ==
    /\ \A k \in Kinds : \A i \in DOMAIN gfObj[k] :
          LET l == gfObj[k][i].link_area IN l = "" \/ Named(gfObj[LinkKind[k]], l) # {}
    /\ \A b \in Range(gfObj.block) :
          /\ \A i \in DOMAIN b.tsbs : Named(gfObj.tsb, b.tsbs[i].name) # {}
          /\ \A i \in DOMAIN b.tsbcsms : Named(gfObj.csm, b.tsbcsms[i].name) # {}

\* Every table starts with empty entries, every link area with none.
finish_image_file_init ==
    /\ gfPc = "parse"
    /\ gfAt > Len(gfProg.decls)
    /\ IF ~Resolved THEN Fail /\ UNCHANGED <<gfEntries, gfLinks>>
       ELSE /\ gfPc' = "elf"
            /\ gfEntries' = [k \in Kinds |-> [n \in {gfObj[k][i].name : i \in DOMAIN gfObj[k]} |->
                                 [i \in 0..(TheOne(gfObj[k], n).num_entries - 1) |-> NoEntry2]]]
            /\ gfLinks' = [k \in Kinds |->
                 [n \in {gfObj[LinkKind[k]][i].name : i \in DOMAIN gfObj[LinkKind[k]]} |-> <<>>]]
    /\ gfAt' = 1
    /\ UNCHANGED <<gfProg, gfObj, gfPhysmap, gfImage, gfSymtab>>

-----------------------------------------------------------------------------
(* Sizing the blocks of a section and writing their words.                 *)

\* block_calculate_size: [ok, block], with the block's va, offset, length, ra and pa settled.
\* Lengths are unsigned: an end label before the start leaves no usable length.
block_calculate_size(b, sec) ==
    LET seg_end == sec.va + Len(sec.data)
        known(l) == l = "" \/ l \in DOMAIN sec.syms
        va == CASE b.start_label # "" /\ known(b.start_label) -> sec.syms[b.start_label]
                [] b.va # NoAddr -> b.va
                [] OTHER -> sec.va
        stop == CASE b.end_label # "" /\ known(b.end_label) -> sec.syms[b.end_label]
                  [] b.end_va # NoAddr -> b.end_va
                  [] OTHER -> seg_end
        sized == [b EXCEPT !.va = va, !.length = stop - va, !.offset = va - sec.va,
                           !.ra = IF b.ra_eq_va THEN va % PaSpan ELSE @,
                           !.pa = IF b.pa_eq_va THEN va % PaSpan ELSE @]
    IN  [ok |-> /\ known(b.start_label) /\ known(b.end_label)
                /\ sec.va <= va /\ va <= seg_end
                /\ b.end_va # NoAddr => /\ sec.va <= b.end_va /\ va <= b.end_va
                                        /\ b.no_end_range_check \/ b.end_va <= seg_end
                /\ sanity_check_block_tsb(sized),
         block |-> sized]

At(a) == [op |-> "at", n |-> a]
Words(ws) == [i \in DOMAIN ws |-> [op |-> "word", n |-> ws[i]]]
ZeroBytes(n) == [op |-> "zero", n |-> n]
AllZero(ws) == \A i \in DOMAIN ws : ws[i] = 0

\* Leaving a compressed run: what was skipped, then the address of the line that follows.
Resume(w, envZero) ==
    (IF envZero THEN (IF w.printed THEN <<At(w.last)>> ELSE <<>>) \o <<ZeroBytes(w.pa - w.last)>> ELSE <<>>)
    \o <<At(w.pa)>>

\* One line of block_generate_image's loop.  zero_line is only computed for a full line: a partial
\* last line keeps the value of the line before it.
BlockLine(w, ws, compress, envZero) ==
    LET full == Len(ws) = LineWords
        zero == IF full THEN AllZero(ws) ELSE w.zero
        out == w.out \o (IF w.doing /\ ~zero THEN Resume(w, envZero) ELSE <<>>)
        doing == w.doing /\ zero
    IN  IF compress /\ full /\ zero
        THEN [w EXCEPT !.out = out, !.zero = zero, !.doing = TRUE, !.pa = @ + LineWords,
                       !.last = IF doing THEN @ ELSE w.pa]
        ELSE [w EXCEPT !.out = out \o Words(ws), !.zero = zero, !.doing = doing, !.printed = TRUE,
                       !.pa = IF full THEN @ + LineWords ELSE @]

Fresh(pa) == [out |-> <<>>, pa |-> pa, last |-> pa, doing |-> FALSE, zero |-> FALSE, printed |-> FALSE]

\* The words a block takes from its section; a NOBITS section is as long as the block asks.
BlockWords(b, sec) ==
    [i \in 1..b.length |-> IF sec.nobits THEN 0 ELSE sec.data[b.offset + i]]

block_generate_image(b, sec, args) ==
    LET ws == BlockWords(b, sec)
        lines == (Len(ws) + LineWords - 1) \div LineWords
        Line(i) == SubSeq(ws, (i - 1) * LineWords + 1, IF i * LineWords < Len(ws) THEN i * LineWords ELSE Len(ws))
        done == FoldLeft(LAMBDA w, i : BlockLine(w, Line(i), b.compress /\ args.compress, args.envZero),
                         Fresh(b.pa), [i \in 1..lines |-> i])
    IN  <<At(b.pa % PaSpan)>> \o done.out
        \o (IF done.doing /\ args.envZero THEN <<ZeroBytes(done.pa - done.last)>> ELSE <<>>)

\* check_entry_vs_vector against the ranges in use.
\* Mutant: ranges may overlap by a word.
Unmapped_touch(map, start, stop) ==
    start <= stop /\ \A i \in DOMAIN map : stop <= map[i].start + 1 \/ start >= map[i].stop
Unmapped(map, start, stop) ==
    start <= stop /\ \A i \in DOMAIN map : stop <= map[i].start \/ start >= map[i].stop


\* blk_gen_image_if_match for the blocks of the section, in order.
GenBlock(s, b, sec, args) ==
    IF ~s.ok \/ ~b.in_image THEN s
    ELSE IF ~Unmapped(s.map, b.pa, b.pa + b.length) THEN [s EXCEPT !.ok = FALSE]
    ELSE [s EXCEPT !.map = Append(@, [start |-> b.pa, stop |-> b.pa + b.length]),
                   !.image = @ \o block_generate_image(b, sec, args)]

\* block_check_link_section_exists: every block's section is one of the program's.
AllLinked == \A b \in Range(gfObj.block) : \E i \in DOMAIN gfProg.elf : gfProg.elf[i].name = b.link_section

\* One PROGBITS or NOBITS section in the second pass of process_elf_file: the sizes of all its
\* blocks, then, with -genimage, their words.
process_section ==
    /\ gfPc = "elf"
    /\ gfAt <= Len(gfProg.elf) /\ AllLinked
    /\ LET sec == gfProg.elf[gfAt]
           mine(b) == b.link_section = sec.name
           sized == [i \in DOMAIN gfObj.block |->
                        IF mine(gfObj.block[i]) THEN block_calculate_size(gfObj.block[i], sec)
                        ELSE [ok |-> TRUE, block |-> gfObj.block[i]]]
           blocks == [i \in DOMAIN sized |-> sized[i].block]
           s0 == [ok |-> TRUE, map |-> gfPhysmap, image |-> gfImage]
           s == IF gfProg.args.genimage
                THEN FoldLeft(LAMBDA t, b : GenBlock(t, b, sec, gfProg.args), s0, SelectSeq(blocks, mine)) ELSE s0
       IN  IF (\E i \in DOMAIN sized : ~sized[i].ok) \/ ~s.ok
           THEN Fail /\ UNCHANGED <<gfAt, gfObj, gfPhysmap, gfImage>>
           ELSE /\ gfObj' = [gfObj EXCEPT !.block = blocks]
                /\ gfPhysmap' = s.map
                /\ gfImage' = s.image
                /\ gfAt' = gfAt + 1
                /\ UNCHANGED gfPc
    /\ UNCHANGED <<gfProg, gfEntries, gfLinks, gfSymtab>>

\* A block without a section is an error before any section is processed; after the last one the
\* tables are filled (-gentsbs) or the symbols printed.
process_app_elf_files ==
    /\ gfPc = "elf"
    /\ \/ ~AllLinked /\ Fail
       \/ /\ AllLinked /\ gfAt > Len(gfProg.elf)
          /\ gfPc' = IF gfProg.args.gentsbs THEN "fill_tsb" ELSE "symbols"
    /\ gfAt' = 1
    /\ UNCHANGED <<gfProg, gfObj, gfPhysmap, gfEntries, gfLinks, gfImage, gfSymtab>>

-----------------------------------------------------------------------------
(* Filling the translation tables.                                         *)

Resolve(k, e) == IF k = "csm" THEN e.clump ELSE e.data
MyLink(area, i) == area.start_addr + 4 * (i - 1)

\* add_to_chain and start_new_chain append a node; the node before it, if any, points at it.
start_new_chain(chain, tag, val) == Append(chain, [tag |-> tag, val |-> val, link |-> LinkTag])
add_to_chain(chain, area, last, tag, val) ==
    Append([chain EXCEPT ![last].link = MyLink(area, Len(chain) + 1)], [tag |-> tag, val |-> val, link |-> LinkTag])

\* The end of the chain that starts at node i.
LastOf(chain, area, i) ==
    LET f[n \in 0..Len(chain)] == IF n = 0 THEN i
                                  ELSE LET p == f[n - 1] IN
                                       IF chain[p].link = LinkTag THEN p
                                       ELSE (chain[p].link - area.start_addr) \div 4 + 1
    IN  f[Len(chain)]

\* A page that collides: [entry, chain].
LinkEntry(k, area, e, chain, tag, val) ==
    IF e.tag = LinkTag
    THEN [entry |-> e, chain |-> add_to_chain(chain, area, LastOf(chain, area, (e.data - area.start_addr) \div 4 + 1), tag, val)]
    ELSE LET first == start_new_chain(chain, e.tag, Resolve(k, e))
         IN  [entry |-> [e EXCEPT !.tag = LinkTag, !.data = MyLink(area, Len(first))],
              chain |-> add_to_chain(first, area, Len(first), tag, val)]

tsb_link_add_entry(area, e, chain, tag, data) == LinkEntry("tsb", area, e, chain, tag, data)
tsbcsm_link_add_entry(area, e, chain, tag, clump) == LinkEntry("csm", area, e, chain, tag, clump)

\* A page goes to its entry of the table, or to the table's link area.
AddEntry(s, k, t, index, tag, data, clump) ==
    LET e == s.entries[index]
        area == TheOne(gfObj[LinkKind[k]], t.link_area)
        linked == IF k = "csm" THEN tsbcsm_link_add_entry(area, e, s.chain, tag, clump)
                  ELSE tsb_link_add_entry(area, e, s.chain, tag, data)
    IN  IF ~s.ok \/ index >= t.num_entries THEN [s EXCEPT !.ok = FALSE]
        ELSE IF e.tag = 0 /\ e.data = 0
        THEN [s EXCEPT !.entries[index] = [tag |-> tag, data |-> data, clump |-> clump]]
        ELSE IF ~gfProg.args.conflicts \/ t.link_area = "" THEN [s EXCEPT !.ok = FALSE]
        ELSE [s EXCEPT !.entries[index] = linked.entry, !.chain = linked.chain]

add_entry(s, t, index, tag, data) == AddEntry(s, "tsb", t, index, tag, data, 0)
add_entry_csm(s, t, index, tag, data, clump) == AddEntry(s, "csm", t, index, tag, data, clump)

\* What page p of a block becomes in a table whose TSB is tsb.
PageVa(b, bt, p) == (b.va - (b.va % bt.page_size)) + p * bt.page_size
PageRa(b, bt, p) == (b.ra - (b.ra % bt.page_size)) + p * bt.page_size
NumPages(b, bt) == IF b.length = 0 THEN 0 ELSE (b.length - 1) \div bt.page_size + 1
IndexOf(tsb, va) == (va \div IndexUnit) % (IndexSpan * 2^tsb.size_bits)
TagOf(va) == va \div TagUnit
DataOf(ra) == DataBase + ra

\* add_block_tsb_to_tsb and add_block_tsbcsm_to_tsbcsm for entry i of the block's list; a TSBCSM
\* takes its page layout and index bits from the TSB at the same place in the list.
AddBlock(s, k, b, i) ==
    LET bt == b.tsbs[i]
        tsb == TheOne(gfObj.tsb, bt.name)
        t == IF k = "csm" THEN TheOne(gfObj.csm, b.tsbcsms[i].name) ELSE tsb
        clump == IF k = "csm" THEN b.tsbcsms[i].clump_num ELSE 0
        index(p) == IndexOf(tsb, PageVa(b, bt, p))
        tag(p) == TagOf(PageVa(b, bt, p))
        data(p) == DataOf(PageRa(b, bt, p))
        pages == FoldLeft(LAMBDA w, p : IF k = "csm" THEN add_entry_csm(w, t, index(p - 1), tag(p - 1), data(p - 1), clump)
                                        ELSE add_entry(w, t, index(p - 1), tag(p - 1), data(p - 1)),
                          [ok |-> TRUE, entries |-> s.entries[t.name], chain |-> IF t.link_area = "" THEN <<>> ELSE s.links[t.link_area]],
                          [p \in 1..NumPages(b, bt) |-> p])
    IN  IF ~s.ok THEN s
        ELSE [ok |-> pages.ok, entries |-> [s.entries EXCEPT ![t.name] = pages.entries],
              links |-> IF t.link_area = "" THEN s.links ELSE [s.links EXCEPT ![t.link_area] = pages.chain]]

\* block_add_to_tsbs or block_add_to_tsbcsms (iterate_vector2 stops at the shorter list).
Fill(k, pc, next) ==
    /\ gfPc = pc
    /\ IF gfAt > Len(gfObj.block)
       THEN gfPc' = next /\ gfAt' = 1 /\ UNCHANGED <<gfEntries, gfLinks>>
       ELSE LET b == gfObj.block[gfAt]
                n == IF k = "csm" /\ Len(b.tsbcsms) < Len(b.tsbs) THEN Len(b.tsbcsms) ELSE Len(b.tsbs)
                s == FoldLeft(LAMBDA w, i : AddBlock(w, k, b, i),
                              [ok |-> TRUE, entries |-> gfEntries[k], links |-> gfLinks[k]], [i \in 1..n |-> i])
            IN  IF ~s.ok THEN Fail /\ UNCHANGED <<gfAt, gfEntries, gfLinks>>
                ELSE /\ gfEntries' = [gfEntries EXCEPT ![k] = s.entries]
                     /\ gfLinks' = [gfLinks EXCEPT ![k] = s.links]
                     /\ gfAt' = gfAt + 1
                     /\ UNCHANGED gfPc
    /\ UNCHANGED <<gfProg, gfObj, gfPhysmap, gfImage, gfSymtab>>

add_apps_to_tsbs == Fill("tsb", "fill_tsb", "fill_csm")
add_apps_to_tsbcsms == Fill("csm", "fill_csm", "write_tsb")

-----------------------------------------------------------------------------
(* Writing the tables and the symbols.                                     *)

\* One pair of entries of write_tsb or write_tsbcsm (a line is two entries).
PairLine(w, k, e, f, args) ==
    IF args.compress /\ e.tag = 0 /\ e.data = 0 /\ f.tag = 0 /\ f.data = 0
    THEN [w EXCEPT !.doing = TRUE, !.last = IF w.doing THEN @ ELSE w.pa, !.pa = @ + 4]
    ELSE [w EXCEPT !.out = @ \o (IF w.doing THEN Resume(w, args.envZero) ELSE <<>>)
                             \o Words(<<e.tag, Resolve(k, e), f.tag, Resolve(k, f)>>),
                   !.doing = FALSE, !.printed = TRUE, !.pa = @ + 4]

write_tsb(k, t, args) ==
    LET es == gfEntries[k][t.name]
        done == FoldLeft(LAMBDA w, i : PairLine(w, k, es[2 * i - 2], es[2 * i - 1], args),
                         Fresh(t.start_addr), [i \in 1..(t.num_entries \div 2) |-> i])
    IN  <<At(t.start_addr)>> \o done.out
        \o (IF done.doing /\ args.envZero
            THEN (IF done.printed THEN <<At(done.last)>> ELSE <<>>) \o <<ZeroBytes(done.pa - done.last)>> ELSE <<>>)

write_tsb_link(k, area, args) ==
    LET nodes == gfLinks[k][area.name]
    IN  <<At(area.start_addr)>> \o FlattenSeq([i \in DOMAIN nodes |->
            Words(<<nodes[i].tag, nodes[i].val, nodes[i].link, nodes[i].link>>)])

\* The range of an object that collides with nothing joins the physical map.
add_object_to_physmap(map, start, stop) == Append(map, [start |-> start, stop |-> stop])

\* Writing the objects of one kind: the range is checked against the physical map, then written.
WriteObjects(pc, objs, Size(_), Text(_), next) ==
    /\ gfPc = pc
    /\ IF gfAt > Len(objs)
       THEN gfPc' = next /\ gfAt' = 1 /\ UNCHANGED <<gfPhysmap, gfImage>>
       ELSE LET o == objs[gfAt] IN
            IF ~Unmapped(gfPhysmap, o.start_addr, o.start_addr + Size(o))
            THEN Fail /\ UNCHANGED <<gfAt, gfPhysmap, gfImage>>
            ELSE /\ gfPhysmap' = add_object_to_physmap(gfPhysmap, o.start_addr, o.start_addr + Size(o))
                 /\ gfImage' = gfImage \o Text(o)
                 /\ gfAt' = gfAt + 1
                 /\ UNCHANGED gfPc
    /\ UNCHANGED <<gfProg, gfObj, gfEntries, gfLinks, gfSymtab>>

TableSize(t) == 2 * t.num_entries
write_tsbs == WriteObjects("write_tsb", gfObj.tsb, TableSize, LAMBDA t : write_tsb("tsb", t, gfProg.args), "write_tsb_link")
write_tsb_links == WriteObjects("write_tsb_link", gfObj.tsb_link, LAMBDA a : 4 * Len(gfLinks.tsb[a.name]),
                                LAMBDA a : write_tsb_link("tsb", a, gfProg.args), "write_csm")
write_tsbcsms == WriteObjects("write_csm", gfObj.csm, TableSize, LAMBDA t : write_tsb("csm", t, gfProg.args), "write_csm_link")
write_tsbcsm_links == WriteObjects("write_csm_link", gfObj.csm_link, LAMBDA a : 4 * Len(gfLinks.csm[a.name]),
                                   LAMBDA a : write_tsb_link("csm", a, gfProg.args), "symbols")

\* print_symtab: the symbols of the block's section within its range (the end included).
print_symtab ==
    /\ gfPc = "symbols"
    /\ gfPc' = "done"
    /\ gfSymtab' = IF ~gfProg.args.gensymtab THEN {} ELSE
         UNION {{[block |-> i, label |-> l, va |-> sec.syms[l],
                  pa |-> LET b == gfObj.block[i]
                             pa == IF b.pa = NoAddr /\ b.in_image THEN b.va ELSE b.pa
                         IN  IF pa = NoAddr THEN NoAddr ELSE (pa + sec.syms[l] - b.va) % PaSpan]
                 : l \in {m \in DOMAIN sec.syms :
                            gfObj.block[i].va <= sec.syms[m] /\ sec.syms[m] <= gfObj.block[i].va + gfObj.block[i].length}}
                : <<i, sec>> \in {<<i, s>> \in (DOMAIN gfObj.block) \X Range(gfProg.elf) : s.name = gfObj.block[i].link_section}}
    /\ UNCHANGED <<gfProg, gfAt, gfObj, gfPhysmap, gfEntries, gfLinks, gfImage>>

GfInit ==
    /\ gfProg \in GfPrograms
    /\ gfPc = "parse"
    /\ gfAt = 1
    /\ gfObj = [k \in {"block", "tsb", "csm", "tsb_link", "csm_link"} |-> <<>>]
    /\ gfPhysmap = <<>>
    /\ gfEntries = [k \in Kinds |-> <<>>]
    /\ gfLinks = [k \in Kinds |-> <<>>]
    /\ gfImage = <<>>
    /\ gfSymtab = {}

GfNext ==
    \/ Declare \/ finish_image_file_init \/ process_app_elf_files \/ process_section
    \/ add_apps_to_tsbs \/ add_apps_to_tsbcsms
    \/ write_tsbs \/ write_tsb_links \/ write_tsbcsms \/ write_tsbcsm_links
    \/ print_symtab

-----------------------------------------------------------------------------
(* What the written files mean.                                            *)

\* Memory after the image is loaded: "@" moves the cursor, a word is stored at it, zero_bytes
\* stores zeros at it.  What is never stored is not in the domain.
Load(image) ==
    FoldLeft(LAMBDA s, x :
                CASE x.op = "at" -> [s EXCEPT !.at = x.n]
                  [] x.op = "word" -> [at |-> s.at + 1, mem |-> (s.at :> x.n) @@ s.mem]
                  [] OTHER -> [at |-> s.at + x.n, mem |-> [a \in s.at..(s.at + x.n - 1) |-> 0] @@ s.mem],
             [at |-> 0, mem |-> <<>>], image).mem
\* Memory the loader did not write reads as zero only when the image does not rely on it.
Holds(mem, a, v) == IF a \in DOMAIN mem THEN mem[a] = v ELSE v = 0 /\ ~gfProg.args.envZero

\* A partial last line after a compressed zero line is printed without an address.
Misplaced(b, ws) ==
    LET n == Len(ws) IN
    /\ b.compress /\ gfProg.args.compress
    /\ n % LineWords # 0 /\ n > LineWords
    /\ AllZero(SubSeq(ws, (n - (n % LineWords)) - LineWords + 1, n - (n % LineWords)))

SectionOf(b) == CHOOSE s \in Range(gfProg.elf) : s.name = b.link_section

\* WordsPlaced: when goldfinger ends without an error, loading the image it wrote puts every word of
\* every block in the image at its physical address - whatever was compressed, and whatever else
\* was written around it - and every symbol inside such a block is printed with the physical
\* address of the word it names.  A block whose last line is partial and follows a zero line is
\* excepted: the code prints that line without its address.
WordsPlaced ==
    gfPc = "done" /\ gfProg.args.genimage =>
        LET mem == Load(gfImage) IN
        \A i \in DOMAIN gfObj.block :
            LET b == gfObj.block[i]
                ws == BlockWords(b, SectionOf(b))
            IN  b.in_image /\ ~Misplaced(b, ws) =>
                   /\ \A j \in DOMAIN ws : Holds(mem, b.pa + j - 1, ws[j])
                   /\ \A y \in gfSymtab : y.block = i /\ y.va < b.va + b.length =>
                         Holds(mem, y.pa, ws[y.va - b.va + 1])

\* A walk of a table in loaded memory: the entry's value, or the value on the chain it points at.
Walk(mem, t, va) ==
    LET e == t.start_addr + 2 * IndexOf(TheOne(gfObj.tsb, t.name), va)
        next[a \in DOMAIN mem] ==
            IF mem[a] = TagOf(va) THEN mem[a + 1]
            ELSE IF mem[a + 2] = LinkTag THEN NoAddr ELSE next[mem[a + 2]]
    IN  IF e \notin DOMAIN mem THEN NoAddr
        ELSE IF mem[e] = LinkTag THEN next[mem[e + 1]]
        ELSE IF mem[e] = TagOf(va) THEN mem[e + 1] ELSE NoAddr

\* TsbFinds: when goldfinger ends without an error, a miss handler that walks a TSB as it lies in
\* the loaded image - the entry at the page's index, and the chain it links to on a collision -
\* finds, for every page of every block entered in that TSB, the translation of the first block
\* that maps the page there.
TsbFinds ==
    gfPc = "done" /\ gfProg.args.gentsbs =>
        LET mem == Load(gfImage)
            Users(n) == {u \in (DOMAIN gfObj.block) \X (1..2) :
                            u[2] \in DOMAIN gfObj.block[u[1]].tsbs /\ gfObj.block[u[1]].tsbs[u[2]].name = n}
            Pages(u) == 0..(NumPages(gfObj.block[u[1]], gfObj.block[u[1]].tsbs[u[2]]) - 1)
            Maps(n) == {<<u[1], u[2], p>> : <<u, p>> \in UNION {{<<u, p>> : p \in Pages(u)} : u \in Users(n)}}
            VaOf(m) == PageVa(gfObj.block[m[1]], gfObj.block[m[1]].tsbs[m[2]], m[3])
            RaOf(m) == PageRa(gfObj.block[m[1]], gfObj.block[m[1]].tsbs[m[2]], m[3])
            Before(m, o) == m[1] < o[1] \/ (m[1] = o[1] /\ (m[2] < o[2] \/ (m[2] = o[2] /\ m[3] <= o[3])))
            Same(t, m, o) == TagOf(VaOf(m)) = TagOf(VaOf(o)) /\ IndexOf(t, VaOf(m)) = IndexOf(t, VaOf(o))
        IN  \A t \in Range(gfObj.tsb) : \A m \in Maps(t.name) :
                (\A o \in Maps(t.name) : Same(t, m, o) => Before(m, o))
                    => Walk(mem, t, VaOf(m)) = DataOf(RaOf(m))

\* The loaded image holds the blocks and the translation tables the description asks for.
ImageExact == WordsPlaced /\ TsbFinds
=============================================================================
