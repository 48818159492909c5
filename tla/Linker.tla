------------------------------- MODULE Linker -------------------------------
(***************************************************************************)
(* The linker LD8K (src/linker/ld8k.c).  Pass 1 reads the files of the     *)
(* command, puts their segments into the output's and collects symbols;    *)
(* pass 2 reads the same modules again, copies them to their places and    *)
(* relocates them through a buffer of one page of the output file.         *)
(* A job is a sequence of commands; what one command writes the next can   *)
(* take as its file "made" (ld8k -r, then the final link).                 *)
(***************************************************************************)
EXTENDS XOut

CONSTANTS Library,     \* the files by name: modules, or archives of modules
          Jobs,        \* sequences of commands
          SEGNO,       \* segments of the output
          PAGE,        \* bytes of the relocation buffer, 512
          ShortLimit   \* the offset of a short segmented address is below it, 256

ASSUME LinkerAssumption ==
  /\ SEGNO \in 1..NoSeg
  /\ PAGE \in Nat \ {0} /\ PAGE % 2 = 0
  /\ ShortLimit \in Nat

Segments == 0..(SEGNO - 1)

VARIABLES
  job,       \* commands to be done, the current one first
  phase,     \* start, pass1, pass2, done, failed (an error ends the linker), phase_error
  file,      \* the file being read
  member,    \* of an archive: the member to be looked at; in pass 2 the index in postab
  kind,      \* the loads met so far: "seg", "nonseg" or "any"
  symtab,    \* symbols
  segtab,    \* the output's segments
  prelist,   \* preassigned segments
  map,       \* input to output segments, of all modules in the order of loading
  symap,     \* likewise of symbols
  modtab,    \* for each module loaded, its first entries in map and symap
  postab,    \* modules to load from archives, ended by Stop
  posndx,    \* for each file, its first entry in postab; OneModule or NoModule
  udefcnt,   \* undefined symbols
  errcnt,
  mod,       \* of the current module's segments: their biases, positions and sizes;
             \* what the module before left where it has fewer
  modno,     \* modules read in pass 2
  hdr,       \* what interlude finds out for the header
  obj,       \* the words of the output file, from its beginning; what has not been written is blank
  buf,       \* the relocation buffer: its position (NoPage: none), content, dirty
  relfile,   \* relocation items kept (-r)
  made,      \* the last file made
  loaded,    \* history: the modules pass 1 loaded
  read2      \* history: the modules pass 2 read

tables  == <<kind, symtab, segtab, prelist, map, symap, modtab, postab, posndx, udefcnt, errcnt>>
output  == <<mod, modno, hdr, obj, buf, relfile>>
history == <<loaded, read2>>
lvars   == <<job, phase, file, member, tables, output, made, history>>

OneModule == -1
NoModule  == 0
NoPage    == 1
Stop      == <<>>

cmd == Head(job)
FileOf(name) == IF name = "made" THEN made ELSE Library[name]
thefile == FileOf(cmd.files[file])
IsArchive(f) == "members" \in DOMAIN f

IsSeq(s) == s \in Seq(ToSet(s))
ModulesOf(f) == IF IsArchive(f) THEN ToSet(f.members) ELSE {f}

\* A segment asks for one of the output's or for any, and an undefined symbol has a size.
IsSegment(s) == s.len \in Nat /\ s.no % 128 \in Segments \cup {NoSeg}
IsSymbol(s) == {"name", "fl", "sg", "val"} \subseteq DOMAIN s /\ (s.fl = "UNX" => s.val \in Nat)
IsModule(f) == /\ ~ IsArchive(f) /\ IsSeq(f.segs) /\ IsSeq(f.syms)
               /\ \A s \in ToSet(f.segs) : IsSegment(s)
               /\ \A s \in ToSet(f.syms) : IsSymbol(s)

ASSUME LibraryAssumption ==
  \A n \in DOMAIN Library :
    /\ IsArchive(Library[n]) => IsSeq(Library[n].members)
    /\ \A f \in ModulesOf(Library[n]) : IsModule(f)

Commands == UNION {ToSet(j) : j \in Jobs}

ASSUME JobsAssumption ==
  /\ \A j \in Jobs : IsSeq(j)
  /\ \A c \in Commands :
       /\ IsSeq(c.files) /\ ToSet(c.files) \subseteq DOMAIN Library \cup {"made"}
       /\ IsSeq(c.d) /\ IsSeq(c.u) /\ \A d \in ToSet(c.d) : d.seg \in Segments /\ IsSeq(d.names)
       /\ c.t \in Nat

-----------------------------------------------------------------------------
(* Symbols and segments.                                                   *)

\* A symbol is found by its name among the segment names or among the externals.
lookup(table, names, name) ==
  LET at == {i \in 1..Len(table) : table[i].name = name /\ table[i].fl \in names}
  IN  IF at = {} THEN 0 ELSE Min(at)
External  == {"UNX", "GLB"}
SegmentNm == {"SEG"}

\* Types that share a segment, and the type of what they make.
oktyp == ({UND, MXU} \X (UND..MXP))
     \cup {<<BSS, UND>>, <<BSS, BSS>>, <<BSS, MXU>>, <<STK, UND>>, <<STK, STK>>, <<STK, MXU>>,
           <<COD, UND>>, <<COD, COD>>, <<COD, MXP>>, <<CON, UND>>, <<CON, CON>>, <<CON, MXU>>,
           <<CON, MXP>>, <<DAT, UND>>, <<DAT, DAT>>, <<DAT, MXU>>, <<MXP, UND>>, <<MXP, COD>>,
           <<MXP, CON>>, <<MXP, MXP>>}

newtypTable ==
  << <<UND, BSS, STK, COD, CON, DAT, MXU, MXP>>, <<BSS, BSS, BSS, MXU, DAT, DAT, MXU, MXU>>,
     <<STK, BSS, STK, MXU, MXU, DAT, MXU, MXU>>, <<COD, MXU, MXU, COD, MXP, MXU, MXU, MXP>>,
     <<CON, DAT, DAT, MXP, CON, DAT, MXU, MXP>>, <<DAT, DAT, DAT, MXU, DAT, DAT, MXU, MXU>>,
     <<MXU, MXU, MXU, MXU, MXU, MXU, MXU, MXU>>, <<MXP, MXU, MXU, MXP, MXP, MXU, MXU, MXP>> >>
newtyp(old, new) == newtypTable[old + 1][new + 1]

\* The first segment that takes n more bytes of a type: a preassigned one, else one
\* that is not.  NoSeg: "segment overflow", a fatal error.
findseg(t, pre, typ, n) ==
  LET fits(i) == <<t[i].typ, typ>> \in oktyp /\ t[i].siz + Wrap(n) < SegLimit
      wanted  == {k \in DOMAIN pre : fits(pre[k])}
      others  == {i \in Segments : fits(i) /\ i \notin ToSet(pre)}
  IN  IF wanted # {} THEN pre[Min(wanted)]
      ELSE IF others # {} THEN Min(others) ELSE NoSeg

\* segtab with n bytes of a type put into segment j.
Put(t, j, typ, n) == [t EXCEPT ![j].typ = newtyp(@, typ), ![j].siz = @ + n]
RoundSeg(t, j)    == [t EXCEPT ![j].siz = round(@)]

-----------------------------------------------------------------------------
(* Pass 0: the flags.                                                      *)

EmptySeg == [typ |-> UND, siz |-> 0, hiwat |-> 0, rel |-> 0, pos |-> 0]

\* -w names the types of the first four segments.
MinusW == <<COD, CON, DAT, BSS>>

\* -d lines: a segment, its type (UND: none) and the names of input segments for it.
dodset(t, d) == [t EXCEPT ![d.seg].typ = newtyp(@, d.typ)]

dodline(table, d) ==
  LET at(tab, n) == lookup(tab, SegmentNm, n)
      name(tab, n) == IF at(tab, n) = 0
                      THEN Append(tab, [name |-> n, fl |-> "SEG", sg |-> d.seg, val |-> 0])
                      ELSE [tab EXCEPT ![at(tab, n)].sg = d.seg]
  IN  FoldLeft(name, table, d.names)

\* -u: symbols to be defined, before any file.
Wanted(names) == [i \in DOMAIN names |-> [name |-> names[i], fl |-> "UNX", sg |-> 255, val |-> 0]]

Pass0 ==
  /\ job # <<>> /\ phase = "start"
  /\ phase' = "pass1" /\ file' = 1 /\ member' = 1
  /\ kind' = "any"
  /\ segtab' = FoldLeft(dodset,
                 [i \in Segments |-> IF cmd.w /\ i < 4 THEN [EmptySeg EXCEPT !.typ = MinusW[i + 1]]
                                     ELSE EmptySeg], cmd.d)
  /\ prelist' = FoldLeft(LAMBDA p, d : IF Contains(p, d.seg) THEN p ELSE Append(p, d.seg), <<>>, cmd.d)
  /\ symtab' = FoldLeft(dodline, Wanted(cmd.u), cmd.d)
  /\ udefcnt' = Len(cmd.u)
  /\ map' = <<>> /\ symap' = <<>> /\ modtab' = <<>>
  /\ postab' = <<>> /\ posndx' = [i \in DOMAIN cmd.files |-> NoModule]
  /\ errcnt' = 0 /\ modno' = 0
  /\ LET none == [i \in Segments |-> 0] IN mod' = [rel |-> none, pos |-> none, siz |-> none]
  /\ hdr' = [order |-> <<>>, relpos |-> 0, split |-> FALSE, start |-> 0]
  /\ obj' = <<>>
  /\ buf' = [pos |-> NoPage, words |-> <<>>, dirty |-> FALSE]
  /\ relfile' = <<>>
  /\ loaded' = <<>> /\ read2' = <<>>
  /\ UNCHANGED <<job, made>>

-----------------------------------------------------------------------------
(* Pass 1.                                                                 *)

\* An entry of map, counted from 0; 255 where nothing has been entered.
MapAt(m, i) == IF i < Len(m) THEN m[i + 1] ELSE 255

\* p1doseg: every segment goes behind what its output segment holds.
PlaceSeg(acc, s) ==
  LET j   == IF s.no % 128 = NoSeg THEN findseg(acc.t, prelist, s.typ, s.len) ELSE s.no % 128
      new == Put(acc.t, j, s.typ, s.len)
  IN  IF acc.full \/ j = NoSeg THEN [acc EXCEPT !.full = TRUE]
      ELSE [acc EXCEPT !.t = RoundSeg(new, j),
                       !.m = Append(@, j),
                       !.rel[Len(acc.m)] = acc.t[j].siz,
                       !.err = IF new[j].siz >= SegLimit THEN @ + 1 ELSE @]

p1doseg(f) ==
  FoldLeft(PlaceSeg, [t |-> segtab, m |-> <<>>, rel |-> mod.rel, err |-> 0, full |-> FALSE], f.segs)

\* What is kept of the sizes that two modules give a common symbol.
CommonSize_First(old, new) == old
CommonSize(old, new) == IF old < new THEN new ELSE old

\* p1dosym: a symbol of the module that rel and m describe enters the table, or is
\* identified with one that is there.
EnterSym(rel, m, acc, s) ==
  LET inSegment == s.fl = "GLB" \/ (s.fl = "LOC" /\ ~ cmd.r /\ s.sg # 255)
      moved == IF inSegment
               THEN [s EXCEPT !.val = Wrap(@ + rel[s.sg]), !.sg = MapAt(m, s.sg)]
               ELSE s
      k     == CASE s.fl = "SEG" -> lookup(acc.tab, SegmentNm, s.name)
                 [] s.fl \in External -> lookup(acc.tab, External, s.name)
                 [] OTHER -> 0
      new   == [acc EXCEPT !.tab = Append(@, moved), !.sy = Append(@, Len(acc.tab) + 1)]
      old   == [acc EXCEPT !.sy = Append(@, k)]
  IN  CASE s.fl = "LOC" /\ cmd.x -> [acc EXCEPT !.sy = Append(@, Len(acc.tab) + 1)]
        [] s.fl = "UNX" /\ k = 0 -> [new EXCEPT !.und = @ + 1]
        [] s.fl = "UNX" /\ k # 0 -> [old EXCEPT !.tab[k].val = CommonSize(@, s.val)]
        [] s.fl = "GLB" /\ k # 0 -> IF acc.tab[k].fl = "UNX"
                                    THEN [old EXCEPT !.und = @ - 1, !.tab[k] = moved]
                                    ELSE [old EXCEPT !.err = @ + 1]
        [] s.fl = "SEG" /\ k # 0 -> old
        [] OTHER -> new

p1dosym(f, rel, m) ==
  LET enter(acc, s) == EnterSym(rel, m, acc, s)
  IN  FoldLeft(enter, [tab |-> symtab, sy |-> <<>>, und |-> udefcnt, err |-> 0], f.syms)

KindOf(f) == IF f.magic = "seg" THEN "seg" ELSE "nonseg"

\* p1load of a module: refused if it is of the other kind than those before.
EnterModule(f, who, segs, syms) ==
  /\ phase' = IF segs.full THEN "failed" ELSE phase
  /\ kind' = KindOf(f)
  /\ segtab' = segs.t
  /\ mod' = [mod EXCEPT !.rel = segs.rel]
  /\ modtab' = Append(modtab, [maps |-> Len(map), syms |-> Len(symap)])
  /\ map' = map \o segs.m
  /\ symap' = symap \o syms.sy
  /\ symtab' = syms.tab
  /\ udefcnt' = syms.und
  /\ errcnt' = errcnt + segs.err + syms.err
  /\ loaded' = Append(loaded, who)

p1load(f, who) ==
  IF kind \notin {"any", KindOf(f)}
  THEN /\ errcnt' = errcnt + 1
       /\ UNCHANGED <<phase, kind, segtab, mod, map, symap, modtab, symtab, udefcnt, loaded>>
  ELSE \E segs \in {p1doseg(f)} : EnterModule(f, who, segs, p1dosym(f, segs.rel, segs.m))

InPass1 == job # <<>> /\ phase = "pass1" /\ file <= Len(cmd.files)

Pass1Object ==
  /\ InPass1 /\ ~ IsArchive(thefile)
  /\ posndx' = [posndx EXCEPT ![file] = OneModule]
  /\ p1load(thefile, <<file, 0>>)
  /\ file' = file + 1
  /\ UNCHANGED <<job, member, prelist, postab, modno, hdr, obj, buf, relfile, made, read2>>

\* trysim: does a member define what is undefined so far?
trysim(f) ==
  /\ kind \in {"any", KindOf(f)}
  /\ \E s \in ToSet(f.syms) :
       /\ s.fl = "GLB"
       /\ LET k == lookup(symtab, External, s.name) IN k # 0 /\ symtab[k].fl = "UNX"

\* The next member of an archive.  The list of the file's members in postab is ended when
\* the archive has been read, not when the last undefined symbol has been found.
Pass1Member ==
  /\ InPass1 /\ IsArchive(thefile)
  /\ udefcnt > 0 /\ member <= Len(thefile.members)
  /\ member' = member + 1
  /\ LET f == thefile.members[member] IN
     IF trysim(f)
     THEN /\ posndx' = [posndx EXCEPT ![file] = IF @ <= 0 THEN Len(postab) + 1 ELSE @]
          /\ postab' = Append(postab, <<file, member>>)
          /\ p1load(f, <<file, member>>)
     ELSE UNCHANGED <<phase, posndx, postab, kind, segtab, mod, map, symap, modtab, symtab,
                      udefcnt, errcnt, loaded>>
  /\ UNCHANGED <<job, file, prelist, modno, hdr, obj, buf, relfile, made, read2>>

EndOfArchive_None == postab
EndOfArchive == IF posndx[file] > 0 /\ member > Len(thefile.members) /\ udefcnt > 0
                THEN Append(postab, Stop) ELSE postab

Pass1EndArchive ==
  /\ InPass1 /\ IsArchive(thefile)
  /\ udefcnt = 0 \/ member > Len(thefile.members)
  /\ postab' = EndOfArchive
  /\ file' = file + 1 /\ member' = 1
  /\ UNCHANGED <<job, phase, kind, symtab, segtab, prelist, map, symap, modtab, posndx, udefcnt,
                 errcnt, output, made, history>>

-----------------------------------------------------------------------------
(* Between the passes: commons and the stack get their places, then every  *)
(* segment its base and its position in the file.                          *)

\* A common symbol becomes a global one in a BSS segment, at an even offset unless it is
\* a single byte.
AllocateCommon(acc, i) ==
  LET s == acc.tab[i]
      j == findseg(acc.t, prelist, BSS, s.val)
      t == IF s.val > 1 THEN RoundSeg(acc.t, j) ELSE acc.t
  IN  IF s.fl # "UNX" \/ s.val = 0 THEN acc
      ELSE IF j = NoSeg THEN [acc EXCEPT !.full = TRUE]
      ELSE [acc EXCEPT !.t = Put(t, j, BSS, s.val),
                       !.tab[i] = [@ EXCEPT !.fl = "GLB", !.sg = j, !.val = t[j].siz],
                       !.und = @ - 1]

\* The stack asked for goes to a segment too; whole words for everyone first.
WithStack(all) ==
  LET even == [i \in Segments |-> [all.t[i] EXCEPT !.siz = round(@)]]
      j    == findseg(even, prelist, STK, cmd.t)
  IN  IF cmd.t = 0 THEN [all EXCEPT !.t = even]
      ELSE IF j = NoSeg THEN [all EXCEPT !.full = TRUE]
      ELSE [all EXCEPT !.t = Put(even, j, STK, cmd.t)]

Allocated ==
  LET start == [t |-> segtab, tab |-> symtab, und |-> udefcnt, full |-> FALSE]
  IN  WithStack(IF cmd.r \/ udefcnt = 0 THEN start
                ELSE FoldLeft(AllocateCommon, start, [i \in DOMAIN symtab |-> i]))

\* The elements of a sequence that are in S.
Among(seq, S) == FoldLeft(LAMBDA acc, x : IF x \in S THEN Append(acc, x) ELSE acc, <<>>, seq)

\* The segments in the order of the file and of memory: preassigned ones first.
SegOrder(t) ==
  LET used == {i \in Segments : t[i].siz > 0}
  IN  Among(prelist, used) \o Among([i \in 1..SEGNO |-> i - 1], used \ ToSet(prelist))

splitid == cmd.i /\ kind = "nonseg" /\ ~ cmd.r
Bound   == kind = "nonseg" /\ ~ cmd.r       \* addresses are final

interpos(acc, i) ==
  LET s == acc.t[i]
      code == splitid /\ s.typ = COD
  IN  [t |-> [acc.t EXCEPT ![i].pos = IF s.typ \in idata THEN acc.relpos ELSE @,
                           ![i].rel = Wrap(IF code THEN acc.relvalc ELSE acc.relval),
                           ![i].hiwat = Wrap(s.siz), ![i].siz = 0],
       relpos  |-> IF s.typ \in idata THEN acc.relpos + s.siz ELSE acc.relpos,
       relvalc |-> IF code THEN acc.relvalc + s.siz ELSE acc.relvalc,
       relval  |-> IF Bound /\ ~ code THEN acc.relval + s.siz ELSE acc.relval]

\* A file is the sequence of its words; they lie at even positions.
Nth(p) == (p \div 2) + 1
Write(o, p, words) == SubSeq(o, 1, Nth(p) - 1) \o words \o SubSeq(o, Nth(p) + Len(words), Len(o))
Blank(n) == [i \in 1..n |-> Unwritten]

\* The end of pass 1 and interlude, and main's decision to go on.
Interlude ==
  /\ job # <<>> /\ phase = "pass1" /\ file > Len(cmd.files)
  /\ \E all \in {Allocated} : \E order \in {SegOrder(all.t)} :
     LET start == XHSIZ + SGSIZ * Len(order)
     IN  \E laid \in {FoldLeft(interpos, [t |-> all.t, relpos |-> start, relvalc |-> 0, relval |-> 0], order)} :
           LET based(s) == IF Bound /\ s.fl \in {"GLB", "LOC"} /\ s.sg # 255
                           THEN [s EXCEPT !.val = Wrap(@ + laid.t[s.sg].rel)] ELSE s
           IN  /\ segtab' = laid.t
               /\ symtab' = [i \in DOMAIN all.tab |-> based(all.tab[i])]
               /\ udefcnt' = all.und
               /\ hdr' = [order |-> order, relpos |-> laid.relpos, split |-> splitid, start |-> start]
               /\ obj' = Blank(laid.relpos \div 2)
               /\ phase' = IF \/ errcnt > 0 \/ all.full
                              \/ laid.relvalc >= SegLimit \/ laid.relval >= SegLimit
                              \/ all.und > 0 /\ ~ cmd.r
                           THEN "failed" ELSE "pass2"
  /\ file' = 1 /\ member' = 0
  /\ UNCHANGED <<job, kind, prelist, map, symap, modtab, postab, posndx, errcnt, mod, modno,
                 buf, relfile, made, history>>

-----------------------------------------------------------------------------
(* Pass 2.                                                                 *)

\* Where the next part of an output segment goes in memory.
Behind_Size(s) == Wrap(s.siz)
Behind(s) == Wrap(s.rel + s.siz)

\* p2load, first part: the words of a module go to their places in the file.
CopySeg(f, maps, acc, k) ==
  LET j     == MapAt(map, maps + k - 1)
      s     == acc.t[j]
      words == WordsOf(f, k)
  IN  [t |-> [acc.t EXCEPT ![j].siz = round(@ + f.segs[k].len),
                           ![j].pos = IF f.segs[k].typ \in idata THEN @ + round(f.segs[k].len) ELSE @],
       mod |-> [siz |-> [acc.mod.siz EXCEPT ![k - 1] = s.siz],
                rel |-> [acc.mod.rel EXCEPT ![k - 1] = Behind(s)],
                pos |-> [acc.mod.pos EXCEPT ![k - 1] = s.pos]],
       obj |-> Write(acc.obj, s.pos, words)]

\* The relocation buffer over an output file o.
Page(p) == p - (p % PAGE)
InPage(b, p) == Nth(p - b.pos)
WordAt(b, p) == b.words[InPage(b, p)]
PutWord(b, p, w) == [b EXCEPT !.dirty = TRUE, !.words[InPage(b, p)] = w]

flshbuf(acc) ==
  IF ~ acc.b.dirty THEN acc
  ELSE [acc EXCEPT !.o = Write(@, acc.b.pos, acc.b.words),
                   !.b = [@ EXCEPT !.dirty = FALSE, !.pos = NoPage]]

getbuf_NoFlush(acc, p) ==
  IF acc.b.pos = Page(p) THEN acc
  ELSE [acc EXCEPT !.b = [pos |-> Page(p), dirty |-> FALSE,
          words |-> SubSeq(acc.o, Nth(Page(p)), Min({Nth(Page(p) + PAGE - 2), Len(acc.o)}))]]

getbuf(acc, p) ==
  IF acc.b.pos = Page(p) THEN acc
  ELSE LET clean == flshbuf(acc)
           last  == Min({Nth(Page(p) + PAGE - 2), Len(clean.o)})
       IN  [clean EXCEPT !.b = [pos |-> Page(p), words |-> SubSeq(clean.o, Nth(Page(p)), last), dirty |-> FALSE]]

\* What an item is relocated by: the segment and the offset.
Target(m, rel, r) ==
  LET k == symap[m.syms + r.bas + 1]
      j == symtab[k].sg % 128
  IN  IF ~ r.ext
      THEN [seg |-> MapAt(map, m.maps + r.bas), val |-> rel[r.bas], bas |-> MapAt(map, m.maps + r.bas)]
      ELSE IF cmd.r THEN [seg |-> NoSeg, val |-> 0, bas |-> k - 1]
      ELSE [seg |-> IF j = NoSeg THEN NoSeg ELSE MapAt(map, m.maps + j),
            val |-> symtab[k].val, bas |-> r.bas]

LongSecond(pos) == pos + 2

\* The first word of an item is in the buffer, and for a long one then the second.
LongOffset(acc, pos, val) ==
  [acc EXCEPT !.b = PutWord(@, pos, [WordAt(@, pos) EXCEPT !.val = Wrap(@ + val)])]

Relocated(acc, pos, r, t) ==
  LET w == WordAt(acc.b, pos)
      seg == [acc EXCEPT !.b = PutWord(@, pos, [w EXCEPT !.seg = t.seg, !.val = 0])]
  IN  CASE r.target = "OFF" ->
             [acc EXCEPT !.b = PutWord(@, pos, [w EXCEPT !.val = Wrap(@ + t.val)])]
        [] r.target = "SSG" ->
             [acc EXCEPT !.b = PutWord(@, pos, [w EXCEPT !.seg = t.seg, !.val = @ + t.val]),
                         !.err = IF w.val + t.val >= ShortLimit THEN @ + 1 ELSE @]
        [] r.target = "LSG" -> LongOffset(getbuf(seg, LongSecond(pos)), LongSecond(pos), t.val)

\* reloc() of an item of the module that m and places describe.
Kept(m, places, r, t) ==
  [r EXCEPT !.sgn = MapAt(map, m.maps + @), !.loc = @ + places.siz[r.sgn], !.bas = t.bas]
reloc(m, places, acc, r) ==
  LET t   == Target(m, places.rel, r)
      pos == places.pos[r.sgn] + r.loc
  IN  Relocated([getbuf(acc, pos) EXCEPT !.rels = IF cmd.r THEN Append(@, Kept(m, places, r, t)) ELSE @],
                pos, r, t)

CopySegs(f, m) ==
  FoldLeft(LAMBDA acc, k : CopySeg(f, m.maps, acc, k), [t |-> segtab, mod |-> mod, obj |-> obj],
           [k \in DOMAIN f.segs |-> k])
RelocItems(f, m, done) ==
  flshbuf(FoldLeft(LAMBDA acc, r : reloc(m, done.mod, acc, r),
                   [o |-> done.obj, b |-> [buf EXCEPT !.pos = NoPage], rels |-> relfile, err |-> 0], f.rels))

p2load(f, who) ==
  \E done \in {CopySegs(f, modtab[modno + 1])} :
  \E all \in {RelocItems(f, modtab[modno + 1], done)} :
    /\ segtab' = done.t
    /\ mod' = done.mod
    /\ modno' = modno + 1
    /\ obj' = all.o /\ buf' = all.b
    /\ relfile' = all.rels
    /\ errcnt' = errcnt + all.err
    /\ read2' = Append(read2, who)

InPass2 == job # <<>> /\ phase = "pass2" /\ file <= Len(cmd.files)

Pass2Object ==
  /\ InPass2 /\ posndx[file] = OneModule
  /\ p2load(thefile, <<file, 0>>)
  /\ file' = file + 1
  /\ UNCHANGED <<job, phase, member, kind, symtab, prelist, map, symap, modtab, postab, posndx,
                 udefcnt, hdr, made, loaded>>

\* The next entry of postab.  One that was made for another archive is a position in the
\* wrong file: what is read there is no module.
Listed(n) == IF n <= Len(postab) THEN postab[n] ELSE Stop      \* 0 in a table of zeros
Next2 == IF member = 0 THEN posndx[file] ELSE member

Pass2Member ==
  /\ InPass2 /\ posndx[file] > 0
  /\ Listed(Next2) # Stop
  /\ LET e == Listed(Next2) IN
     IF e[1] = file
     THEN p2load(thefile.members[e[2]], e) /\ phase' = phase
     ELSE /\ phase' = "phase_error" /\ read2' = Append(read2, <<file, e[2]>>)
          /\ UNCHANGED <<segtab, mod, modno, obj, buf, relfile, errcnt>>
  /\ member' = Next2 + 1
  /\ UNCHANGED <<job, file, kind, symtab, prelist, map, symap, modtab, postab, posndx, udefcnt,
                 hdr, made, loaded>>

Pass2NextFile ==
  /\ InPass2
  /\ \/ posndx[file] = NoModule
     \/ posndx[file] > 0 /\ Listed(Next2) = Stop
  /\ file' = file + 1 /\ member' = 0
  /\ UNCHANGED <<job, phase, tables, output, made, history>>

-----------------------------------------------------------------------------
(* The rest of the file.                                                   *)

\* finout: descriptors of the segments that are not empty.
Descriptors ==
  LET one(i) == [no |-> IF cmd.r THEN 255 ELSE i, typ |-> segtab[i].typ, len |-> segtab[i].hiwat]
      order == Among(hdr.order, {i \in Segments : segtab[i].hiwat > 0})
  IN  [k \in DOMAIN order |-> one(order[k])]

Finale ==
  /\ job # <<>> /\ phase = "pass2" /\ file > Len(cmd.files)
  /\ phase' = IF errcnt > 0 THEN "failed" ELSE "done"
  /\ made' = IF errcnt > 0 THEN made
             ELSE [magic |-> IF kind = "nonseg" THEN IF hdr.split THEN "split" ELSE "nonseg" ELSE "seg",
                   exec |-> udefcnt = 0,
                   segs |-> Descriptors,
                   init |-> SubSeq(obj, Nth(hdr.start), Len(obj)),
                   rels |-> relfile,
                   syms |-> IF cmd.s /\ ~ cmd.r THEN <<>> ELSE symtab]
  /\ UNCHANGED <<job, file, member, tables, output, history>>

\* The next command of the job, if this one succeeded.
NextCommand ==
  /\ job # <<>> /\ phase = "done" /\ Tail(job) # <<>>
  /\ job' = Tail(job)
  /\ phase' = "start"
  /\ UNCHANGED <<file, member, tables, output, made, history>>

NothingMade == [magic |-> "nonseg", exec |-> FALSE, segs |-> <<>>, init |-> <<>>, rels |-> <<>>, syms |-> <<>>]

LinkerInit ==
  /\ job \in Jobs /\ phase = "start"
  /\ file = 1 /\ member = 1
  /\ kind = "any" /\ symtab = <<>> /\ segtab = [i \in Segments |-> EmptySeg] /\ prelist = <<>>
  /\ map = <<>> /\ symap = <<>> /\ modtab = <<>> /\ postab = <<>> /\ posndx = <<>>
  /\ udefcnt = 0 /\ errcnt = 0 /\ modno = 0
  /\ LET none == [i \in Segments |-> 0] IN mod = [rel |-> none, pos |-> none, siz |-> none]
  /\ hdr = [order |-> <<>>, relpos |-> 0, split |-> FALSE, start |-> 0]
  /\ obj = <<>>
  /\ buf = [pos |-> NoPage, words |-> <<>>, dirty |-> FALSE]
  /\ relfile = <<>> /\ made = NothingMade
  /\ loaded = <<>> /\ read2 = <<>>

LinkerNext ==
  \/ Pass0
  \/ Pass1Object \/ Pass1Member \/ Pass1EndArchive
  \/ Interlude
  \/ Pass2Object \/ Pass2Member \/ Pass2NextFile
  \/ Finale \/ NextCommand
=============================================================================
