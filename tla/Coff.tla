-------------------------------- MODULE Coff --------------------------------
(***************************************************************************)
(* The utilities that convert x.out files: xout2coff, which makes a COFF   *)
(* object of a relocatable file, and xout2flat, which makes a boot image   *)
(* of an executable one.                                                   *)
(***************************************************************************)
EXTENDS XOut

CONSTANT SECTOR      \* 512

ASSUME CoffAssumption == SECTOR \in Nat \ {0}

-----------------------------------------------------------------------------
(* xout2coff: preparation of the x.out file.                               *)

\* assign_bss: common symbols go behind one another into the (perhaps new) BSS segment.
WithBss(f) ==
  IF \E k \in DOMAIN f.segs : f.segs[k].typ = BSS THEN f
  ELSE [f EXCEPT !.segs = Append(@, [no |-> 255, typ |-> BSS, len |-> 0])]

PlaceCommons(f) ==
  LET bss == SelectInSeq(f.segs, LAMBDA s : s.typ = BSS)
      common(s) == s.sg = 255 /\ s.fl = "UNX" /\ s.val # 0
      place(g, k) ==
        LET s == f.syms[k]
        IN  IF common(s)
            THEN [g EXCEPT !.segs[bss].len = Wrap(@ + s.val),
                           !.syms[k] = [s EXCEPT !.fl = "GLB", !.sg = bss - 1, !.val = g.segs[bss].len]]
            ELSE g
  IN  FoldLeft(place, f, [k \in DOMAIN f.syms |-> k])

assign_bss(f) == PlaceCommons(WithBss(f))

conv_seg_name(typ) ==
  CASE typ = COD -> ".text" [] typ = DAT -> ".data" [] typ = CON -> ".rdata" [] typ = BSS -> ".bss"
    [] OTHER -> ""

\* add_seg_symb: every segment has a symbol, named as COFF names the section.
AddSegSymb(syms, seg, typ) ==
  LET has(s) == s.fl = "SEG" /\ s.sg = seg
      name   == conv_seg_name(typ)
  IN  IF \E s \in ToSet(syms) : has(s)
      THEN [syms EXCEPT ![SelectInSeq(syms, has)].name = name]
      ELSE Append(syms, [name |-> name, fl |-> "SEG", sg |-> seg, val |-> 0])

\* add_seg_top_symb: and one for its beginning (SEGn0000).
TopName(seg) == "SEG" \o ToString(seg)

WithSegSymbs(g) ==
  LET syms == FoldLeft(LAMBDA t, k : AddSegSymb(t, k - 1, g.segs[k].typ), g.syms, [k \in DOMAIN g.segs |-> k])
      tops == [k \in DOMAIN g.segs |-> [name |-> TopName(k - 1), fl |-> "LOC", sg |-> k - 1, val |-> 0]]
  IN  [g EXCEPT !.syms = syms \o tops]
Prepare(f) == WithSegSymbs(assign_bss(f))

-----------------------------------------------------------------------------
(* xout2coff: the COFF file.                                               *)

\* conv_symb_tbl.  Section numbers begin with 1; 0 is external, -1 absolute, -2 the file's.
Entry(name, val, sect, class) == [name |-> name, val |-> val, sect |-> sect, class |-> class]
Aux == Entry("aux", 0, 0, "aux")

conv_symb_tbl(g) ==
  LET local(s)   == s.fl = "LOC" /\ s.sg # 255
      section(s) == s.fl = "SEG"
      global(k)  == LET of(s) == s.fl = "GLB" /\ s.sg = k IN SelectSeq(g.syms, of)
      beyond(s)  == s.sg = 255 /\ s.fl \in {"UNX", "LOC"}
      static(s)  == <<Entry(s.name, s.val, s.sg + 1, "static")>>
      sect(s)    == <<Entry(s.name, 0, s.sg + 1, "static"), Aux>>
      glob(s)    == <<Entry(s.name, s.val, s.sg + 1, "global")>>
      extern(s)  == IF s.fl = "UNX" THEN <<Entry(s.name, 0, 0, "global")>>
                    ELSE <<Entry(s.name, s.val, -1, "global")>>
      each(op(_), syms) == FlattenSeq([i \in DOMAIN syms |-> op(syms[i])])
  IN  <<Entry(".file", 0, -2, "file"), Aux>>
      \o each(static, SelectSeq(g.syms, local))
      \o each(sect, SelectSeq(g.syms, section))
      \o FlattenSeq([k \in DOMAIN g.segs |-> each(glob, global(k - 1))])
      \o each(extern, SelectSeq(g.syms, beyond))

\* conv_symb_idx and conv_seg_top_symb_idx: the first entry of the name, counted from 0.
symb_idx_NoAux(table, name) ==
  SelectInSeq(SelectSeq(table, LAMBDA e : e.class # "aux"), LAMBDA e : e.name = name) - 1
symb_idx(table, name) == SelectInSeq(table, LAMBDA e : e.class # "aux" /\ e.name = name) - 1

\* calc_addr: all segments before a segment count, those without words in the file too.
calc_addr(g, r) == Wrap(SumLen(SubSeq(g.segs, 1, r.sgn)) + r.loc)

reloc_type_map(target) == CASE target = "OFF" -> 1 [] target = "LSG" -> 17 [] OTHER -> 65535

Coded(g, r) ==
  LET n == (calc_addr(g, r) \div 2) + 1
  IN  IF n \in DOMAIN g.init THEN g.init[n].val ELSE 0

\* conv_reloc_tbl: by section, in the order of location.
conv_reloc_tbl(g, table) ==
  LET of(k)  == LET in(r) == r.sgn = k IN SelectSeq(g.rels, in)
      before(r, q) == r.loc < q.loc
      item(r) == [sect |-> r.sgn + 1, vaddr |-> r.loc, type |-> reloc_type_map(r.target),
                  offset |-> Coded(g, r),
                  symb |-> IF r.target # "OFF" THEN 0
                           ELSE symb_idx(table, IF r.ext THEN g.syms[r.bas + 1].name ELSE TopName(r.bas))]
      each(rels) == [i \in DOMAIN rels |-> item(rels[i])]
  IN  FlattenSeq([k \in DOMAIN g.segs |-> each(SortSeq(of(k - 1), before))])

\* conv_sect_hdrs and finalize: where sections and their relocations lie in the file.
HDR == 20
SECTHDR == 40
ITEM == 16

conv_sect_hdrs(g) ==
  [k \in DOMAIN g.segs |->
     LET count(j) == Cardinality({i \in DOMAIN g.rels : g.rels[i].sgn = j - 1})
         base == HDR + SECTHDR * Len(g.segs)
         earlier == MapThenSumSet(count, 1..(k - 1))
     IN  [name |-> conv_seg_name(g.segs[k].typ), len |-> g.segs[k].len,
          fpos |-> IF g.segs[k].typ = BSS THEN 0
                   ELSE base + SumLen(SelectSeq(SubSeq(g.segs, 1, k - 1), LAMBDA s : s.typ # BSS)),
          rels |-> IF count(k) = 0 THEN 0 ELSE base + 2 * Len(g.init) + ITEM * earlier,
          nrel |-> count(k)]]

CoffFile(g, table) ==
  [sects |-> conv_sect_hdrs(g), code |-> g.init, syms |-> table, rels |-> conv_reloc_tbl(g, table),
   symfpos |-> HDR + SECTHDR * Len(g.segs) + 2 * Len(g.init) + ITEM * Len(g.rels)]
Converted(g) == CoffFile(g, conv_symb_tbl(g))
xout2coff(f) == Converted(Prepare(f))

-----------------------------------------------------------------------------
(* xout2flat: the initialized part, then zeros for what has no words in    *)
(* the file, up to a whole number of sectors.                              *)

memsz_Init(f) == 2 * Len(f.init)
memsz(f) == 2 * Len(f.init) + SumLen(SelectSeq(f.segs, LAMBDA s : s.typ \in {BSS, STK}))

xout2flat(f) ==
  LET size   == memsz(f)
      padded == ((size + SECTOR - 1) \div SECTOR) * SECTOR
  IN  [n \in 1..(padded \div 2) |-> IF n \in DOMAIN f.init THEN f.init[n] ELSE Unwritten]
=============================================================================
