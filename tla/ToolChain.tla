----------------------------- MODULE ToolChain -----------------------------
(***************************************************************************)
(* From object files to a running program: the linker, then the program    *)
(* loader or one of the converters on what it made.  The properties follow *)
(* the words of the modules by their marks through every tool.             *)
(***************************************************************************)
EXTENDS Linker, Loader, Coff

\* The linker exits.
Exit ==
  /\ phase \in {"failed", "phase_error"} \/ (phase = "done" /\ Tail(job) = <<>>)
  /\ UNCHANGED lvars

ToolNext == LinkerNext \/ Exit
ToolSpec == LinkerInit /\ [][ToolNext]_lvars

-----------------------------------------------------------------------------
(* Modules and what their words refer to.  A module of the library carries *)
(* its name, which the marks of its words begin with.                      *)

Modules == UNION {ModulesOf(Library[n]) : n \in DOMAIN Library}

\* Bytes of the module in front of a word of segment k, and its number in the file.
WordNo(f, k, loc) == (InitBefore(f.segs, k + 1) + loc) \div 2 + 1

\* The references of a module: where, by what item, with what addend.
Refs(f) == {[mark |-> <<f.name, r.sgn, r.loc>>, item |-> r,
             addend |-> f.init[WordNo(f, r.sgn, r.loc + (IF r.target = "LSG" THEN 2 ELSE 0))].val] : r \in ToSet(f.rels)}

Present(f) == {g \in Modules : \E i \in DOMAIN f.init : f.init[i].mark # <<>> /\ f.init[i].mark[1] = g.name}

Defines(g, name) == {s \in ToSet(g.syms) : s.fl = "GLB" /\ s.name = name}

\* The place a reference of module g means, among the modules of a program: a segment of a
\* module and an offset; a common symbol is a segment of its own.
Meant(g, ref, all) ==
  LET name == g.syms[ref.item.bas + 1].name
      defs == {h \in all : Defines(h, name) # {}}
      def  == CHOOSE h \in defs : TRUE
      s    == CHOOSE x \in Defines(def, name) : TRUE
  IN  IF ~ ref.item.ext THEN [seg |-> <<g.name, ref.item.bas>>, off |-> ref.addend]
      ELSE IF defs # {} THEN [seg |-> <<def.name, s.sg>>, off |-> s.val + ref.addend]
      ELSE [seg |-> <<"common", name>>, off |-> ref.addend]

SizeOf(seg, all) ==
  IF seg[1] = "common"
  THEN LET sizes == {s.val : s \in {x \in UNION {ToSet(h.syms) : h \in all} : x.fl = "UNX" /\ x.name = seg[2]}}
       IN Max(sizes)
  ELSE (CHOOSE h \in all : h.name = seg[1]).segs[seg[2] + 1].len

HasWords(seg, all) ==
  seg[1] # "common" /\ (CHOOSE h \in all : h.name = seg[1]).segs[seg[2] + 1].typ \in idata

-----------------------------------------------------------------------------
(* What the linker made, in memory.                                        *)

Made     == phase = "done"
Linked   == Made /\ made.exec /\ ~ cmd.r          \* a program, not a relocatable file
Program  == Linked /\ made.magic # "seg"
Image    == bdos_pgmld("z8002", made)

\* A place is an area, or the number of a segment, and an offset.  Where a word is:
Where(mem, mark) ==
  {a \in (DOMAIN mem) \X (0..SegLimit) : a[2] \in DOMAIN mem[a[1]] /\ mem[a[1]][a[2]].mark = mark}

\* The memory of a segmented program, by segment.
SegMem == [k \in DOMAIN made.segs |->
             LET ws == WordsOf(made, k)
             IN  [p \in {2 * (n - 1) : n \in DOMAIN ws} |-> ws[(p \div 2) + 1]]]

\* What a reference holds at its place: an offset, in a segmented program with a segment.
Holds(mem, at, ref) ==
  CASE ref.item.target = "LSG" -> <<mem[at[1]][at[2]].seg, mem[at[1]][at[2] + 2].val>>
    [] ref.item.target = "SSG" -> <<mem[at[1]][at[2]].seg, mem[at[1]][at[2]].val>>
    [] ref.item.target = "OFF" -> <<mem[at[1]][at[2]].val>>

\* The references of a program: where they are, what they hold and what they mean.
Links(mem) ==
  LET all == Present(made)
  IN  UNION {UNION {{[at |-> a, holds |-> Holds(mem, a, ref), meant |-> Meant(g, ref, all)]
                       : a \in Where(mem, ref.mark)} : ref \in Refs(g)} : g \in all}

\* A word that a program refers to is where the reference says, and nowhere else; the
\* references of every module are there.
Reach(mem, address(_)) ==
  LET all == Present(made)
  IN  /\ \A g \in all : \A ref \in Refs(g) : Cardinality(Where(mem, ref.mark)) = 1
      /\ \A l \in Links(mem) :
           HasWords(l.meant.seg, all) =>
             LET there == Where(mem, <<l.meant.seg[1], l.meant.seg[2], l.meant.off>>)
             IN  \E a \in there : there = {a} /\ address(a)[Len(address(a))] = l.holds[Len(l.holds)]
                                  /\ (Len(l.holds) = 2 => address(a)[1] = l.holds[1])

-----------------------------------------------------------------------------
(* Properties.                                                             *)

\* Every table entry leads somewhere: the segments of every module to one of the output,
\* its symbols to an entry of the symbol table (one not yet made, for a local symbol that
\* -x leaves out), and the sizes stay in a segment unless an error has been counted.
LinkerTypeOK ==
  /\ phase \in {"start", "pass1", "pass2", "done", "failed", "phase_error"}
  /\ udefcnt = Cardinality({i \in DOMAIN symtab : symtab[i].fl = "UNX"})
  /\ ToSet(map) \subseteq Segments
  /\ ToSet(symap) \subseteq 1..(Len(symtab) + 1)
  /\ Len(modtab) = Len(loaded)
  /\ \A i \in Segments : segtab[i].siz \in Nat /\ (errcnt = 0 => segtab[i].siz <= SegLimit)
  /\ buf.dirty => buf.pos # NoPage
  /\ modno <= Len(modtab)

\* "it behooves us to process the modules in exactly the same order during both passes"
\* (ld8k.c:62): pass 2 reads what pass 1 loaded, in its order, and never anything else.
PassesAgree ==
  /\ phase # "phase_error"
  /\ IsPrefix(read2, loaded)
  /\ Made => read2 = loaded

\* The module that one of the histories names, and its symbols that lie in its segments.
ModuleAt(who) ==
  LET f == FileOf(cmd.files[who[1]]) IN IF who[2] = 0 THEN f ELSE f.members[who[2]]
InSegment(f, s) == s.fl = "GLB" /\ s.sg \in Segments /\ s.sg < Len(f.segs) /\ s.val \in Nat

\* A common symbol of the same name may come behind the definition, and leave its size there.
IsCommon(name) == \E who \in ToSet(loaded) : \E s \in ToSet(ModuleAt(who).syms) :
                    s.fl = "UNX" /\ s.name = name /\ s.val > 0

\* The places that pass 1 gave are those pass 2 uses: when pass 2 has put the segments of a
\* module where they go, each global symbol that the module defines has the address that its
\* place there has, though pass 1 and interlude computed it without the file being written
\* (p1doseg, p1dosym, interpos and p2load add up segment sizes of their own).
PlacesAgree ==
  phase = "pass2" /\ read2 # <<>> =>
    LET f == ModuleAt(Last(read2))
        m == modtab[modno]
    IN  \A i \in DOMAIN f.syms :
          LET s == f.syms[i]
              d == symtab[symap[m.syms + i]]
          IN  InSegment(f, s) /\ ~ IsCommon(s.name) =>
                d.sg = MapAt(map, m.maps + s.sg) /\ d.val = Wrap(s.val + mod.rel[s.sg])

\* A word refers, after linking and loading, to the word that its module referred to, by
\* whichever of the two passes, the buffer's pages and the program areas it went (ld8k's
\* reloc, p2load and interpos, bdos_pgmld).  Of a program linked from a relocatable file
\* this holds when the file has the segments of the linker's table and no fewer: finout
\* leaves empty ones out, and the relocations keep their numbers in the table.
ReferencesReach ==
  /\ Program => \A image \in {Image} : image.code = 0 => Reach(image.mem, LAMBDA a : <<a[2]>>)
  /\ Linked /\ made.magic = "seg" =>
       Reach(SegMem, LAMBDA a : <<made.segs[a[1]].no, a[2]>>)

\* Where uninitialized objects are, by what refers to them.
Objects(mem) ==
  LET all == Present(made)
  IN  {[seg |-> l.meant.seg, base |-> l.holds[1] - l.meant.off, size |-> SizeOf(l.meant.seg, all)]
         : l \in {x \in Links(mem) : ~ HasWords(x.meant.seg, all)}}

DataArea == IF made.magic = "split" THEN "data" ELSE "code"

\* Uninitialized data: all references to an object agree on where it is, two objects do not
\* overlap, none lies over words of the program, and all are in the memory that the loader
\* has cleared (interlude's commons, p1doseg's rounding, PGMLD's BSS).
ObjectsDisjoint ==
  Program => \A image \in {Image} : image.code = 0 =>
    \A mem \in {image.mem[DataArea]} : \A objs \in {Objects(image.mem)} :
      LET bytes(o) == o.base..(o.base + o.size - 1)
      IN  /\ \A o \in objs, p \in objs : o # p => o.seg # p.seg /\ bytes(o) \cap bytes(p) = {}
          /\ \A o \in objs : \A b \in bytes(o) : b - (b % 2) \in DOMAIN mem /\ mem[b - (b % 2)] = Unwritten

\* The base page tells the truth of a program linked in the standard order (-w): its text,
\* data and uninitialized data lie in the parts the base page names, and the stack pointer
\* is above everything.
BasePageIsTrue ==
  Program /\ cmd.w => \A image \in {Image} : image.code = 0 =>
    LET in(part, p) == p \in part.loc..(part.loc + part.size - 1)
        typ(w) == LET g == CHOOSE x \in Modules : x.name = w.mark[1] IN g.segs[w.mark[2] + 1].typ
        base == image.base
    IN  /\ \A a \in Areas : \A p \in DOMAIN image.mem[a] :
             LET w == image.mem[a][p]
             IN  w.mark # <<>> => in(IF typ(w) = COD THEN base.text ELSE base.data, p)
        /\ \A o \in Objects(image.mem) : in(base.bss, o.base) /\ in(base.bss, o.base + o.size - 1)
        /\ \A p \in DOMAIN image.mem[DataArea] : p < base.sp
        /\ base.sp + (IF made.magic = "seg" THEN 8 ELSE 4) + BPLEN <= SegLimit

\* Segments without words come last, as the converters expect.
BssLast(f) == \A j \in DOMAIN f.segs, k \in DOMAIN f.segs :
                f.segs[j].typ \notin idata /\ f.segs[k].typ \in idata /\ f.segs[k].len > 0 => k < j

\* A boot image and the program loader agree: the image that xout2flat writes is, byte for
\* byte, the memory of the program PGMLD loads, up to a whole number of sectors.
FlatImageIsTheProgram ==
  Program /\ made.magic = "nonseg" /\ BssLast(made) => \A image \in {Image} : image.code = 0 =>
    LET flat == xout2flat(made)
        mem  == image.mem["code"]
    IN  /\ (2 * Len(flat)) % SECTOR = 0
        /\ \A p \in DOMAIN mem : p \div 2 < Len(flat) /\ flat[(p \div 2) + 1] = mem[p]

\* The symbol number of relocation c of the COFF file is that of a symbol that lies where
\* the one of item r of the x.out file does.
NamesTheSame(g, coff, r, c) ==
  /\ c.symb + 1 \in DOMAIN coff.syms
  /\ LET e == coff.syms[c.symb + 1] IN
     IF ~ r.ext THEN e.sect = r.bas + 1 /\ e.val = 0
     ELSE LET s == g.syms[r.bas + 1]
          IN  e.name = s.name /\ e.sect = (IF s.fl = "UNX" THEN 0 ELSE s.sg + 1)
              /\ e.val = (IF s.fl = "UNX" THEN 0 ELSE s.val)

\* xout2coff keeps the place and the contents of every relocation, and for an offset (OFF,
\* XOFF) the addend and the symbol as well, as the number of one that lies where the
\* original's does.  Long and short segmented items get no symbol from conv_reloc_tbl.
CoffKeepsReferences ==
  Made /\ made.rels # <<>> /\ BssLast(made) =>
    \A g \in {Prepare(made)} : \A coff \in {xout2coff(made)} :
      LET start(k) == (coff.sects[k].fpos - HDR - SECTHDR * Len(g.segs)) \div 2
          at(item) == coff.code[start(item.sect) + (item.vaddr \div 2) + 1]
      IN  /\ Len(coff.rels) = Len(made.rels)
          /\ \A r \in ToSet(made.rels) : \E c \in ToSet(coff.rels) :
               /\ c.sect = r.sgn + 1 /\ c.vaddr = r.loc
               /\ at(c) = made.init[WordNo(made, r.sgn, r.loc)]
               /\ r.target = "OFF" => c.offset = at(c).val /\ NamesTheSame(g, coff, r, c)
=============================================================================
