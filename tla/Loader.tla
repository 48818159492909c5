------------------------------- MODULE Loader -------------------------------
(***************************************************************************)
(* The program loader of the hosted BDOS (PGMLD, bdos_pgmld in             *)
(* cpm8k_bdos.cpp) as a function of an x.out file: what it leaves in the   *)
(* code and the data area, and the base page.  A merged program has one    *)
(* area, "code".  The program area begins at offset 0 of its segment.      *)
(***************************************************************************)
EXTENDS XOut

CONSTANTS BPLEN,       \* the base page, 256 bytes
          DEFSTACK,    \* the stack of a program that does not ask for more, 256 bytes
          SEGS         \* segment headers read, 16

ASSUME LoaderAssumption ==
  /\ BPLEN \in Nat /\ DEFSTACK \in Nat /\ SEGS \in Nat
  /\ BPLEN + DEFSTACK < SegLimit

Areas == {"code", "data"}

\* Z8001LoaderAddressing takes every kind of program, Z8002LoaderAddressing no segmented one.
accepts(target, f) == f.magic # "seg" \/ target = "z8001"

InData(f, typ) == f.magic = "split" /\ typ \in {CON, DAT, BSS, STK}

\* Words laid over an area from an offset on.
Over(area, at, words) ==
  LET new == {at + 2 * (n - 1) : n \in DOMAIN words}
  IN  [p \in DOMAIN area \cup new |-> IF p \in new THEN words[((p - at) \div 2) + 1] ELSE area[p]]

Zeros(n) == [i \in 1..(n \div 2) |-> Unwritten]

\* One segment.  Its place is the end of what its area holds so far; only the first of each
\* sort gives the base page an address.
Extent_Last(x, at, n) == [loc |-> at, size |-> n]
Extent(x, at, n) == [loc |-> IF x.size = 0 THEN at ELSE x.loc, size |-> x.size + n]

LoadSeg(f, acc, k) ==
  LET s    == f.segs[k]
      area == IF InData(f, s.typ) THEN "data" ELSE "code"
      at   == acc.off[area]
      sort == CASE s.typ \in {COD, MXU, MXP} -> "text" [] s.typ \in {CON, DAT} -> "data"
                [] OTHER -> "bss"
      words == IF s.typ = BSS THEN Zeros(s.len)
               ELSE SubSeq(f.init, (acc.taken \div 2) + 1, (acc.taken + s.len) \div 2)
  IN  CASE s.typ = STK -> [acc EXCEPT !.stack = @ + s.len]
        [] s.typ \in idata \cup {BSS} ->
             [acc EXCEPT !.mem[area] = Over(@, at, words),
                         !.off[area] = @ + s.len,
                         !.taken = IF s.typ = BSS THEN @ ELSE @ + s.len,
                         !.ext[sort] = Extent(@, at, s.len)]
        [] OTHER -> acc

Nowhere == [a \in Areas |-> [p \in {} |-> Unwritten]]

\* The headers beyond the first SEGS are not read: they come in front of the words, as words.
HeaderWords(s) == << [Unwritten EXCEPT !.val = 256 * s.no + s.typ], [Unwritten EXCEPT !.val = s.len] >>
Clipped(f) ==
  LET words(acc, s) == acc \o HeaderWords(s)
  IN  [f EXCEPT !.segs = SubSeq(@, 1, SEGS),
                !.init = FoldLeft(words, <<>>, SubSeq(f.segs, SEGS + 1, Len(f.segs))) \o @]

LoadAll(f) ==
  LET file == IF Len(f.segs) > SEGS THEN Clipped(f) ELSE f
      seg(acc, k) == LoadSeg(file, acc, k)
  IN  FoldLeft(seg, [mem |-> Nowhere, off |-> [a \in Areas |-> 0], taken |-> 0, stack |-> DEFSTACK,
                     ext |-> [x \in {"text", "data", "bss"} |-> [loc |-> 0, size |-> 0]]],
               [k \in DOMAIN file.segs |-> k])

\* The check that everything fits, and the base page.
BasePage(f, img) ==
  LET used  == img.off[IF f.magic = "split" THEN "data" ELSE "code"]
      limit == SegLimit - BPLEN - img.stack     \* unsigned: below 0 it is no limit
      bss   == IF img.ext["bss"].size > 0 THEN img.ext["bss"]
               ELSE [loc |-> img.ext["data"].loc + img.ext["data"].size, size |-> 0]
  IN  IF limit >= 0 /\ used > limit THEN [code |-> 2, mem |-> img.mem]
      ELSE [code |-> 0, mem |-> img.mem,
            base |-> [text |-> img.ext["text"], data |-> img.ext["data"], bss |-> bss,
                      free |-> limit - used,
                      at |-> limit,
                      sp |-> limit - (IF f.magic = "seg" THEN 8 ELSE 4)]]

bdos_pgmld(target, f) ==
  IF accepts(target, f) THEN BasePage(f, LoadAll(f)) ELSE [code |-> 1, mem |-> Nowhere]
=============================================================================
