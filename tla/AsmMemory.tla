----------------------------- MODULE AsmMemory -----------------------------
(***************************************************************************)
(* The virtual memory of the assembler (asm8k/avm.c) and what lives in it: *)
(* the symbol table with its lookaside list (alook.c), the cross-reference *)
(* lists (axref.c) and the text of macros and repeats (aascom.c).          *)
(*                                                                         *)
(* C pointers into a buffer are kept as such, pairs of a buffer and an     *)
(* offset: vmgetbuf() may give the buffer to another block while a caller    *)
(* still holds one.  An entry is stored whole at its first address.        *)
(***************************************************************************)
EXTENDS Naturals, SequencesExt, FiniteSets

CONSTANTS
  BLK,       \* size of a block
  NBUF,      \* buffers in vmpool
  NASIDE,    \* entries of the lookaside list, aspool
  SYTAB, XREF,   \* sizes of a symbol and of a cross reference, even
  NHASH,     \* hash chains
  Names,     \* symbols, numbered in alphabetical order from 1
  MaxLine,   \* bound: lines of source
  MaxText    \* bound: characters of a repeat

ASSUME AsmMemoryAssumption ==
  /\ {BLK, NBUF, NASIDE, SYTAB, XREF, NHASH, MaxLine, MaxText} \subseteq Nat \ {0}
  /\ SYTAB % 2 = 0 /\ XREF % 2 = 0 /\ BLK % 2 = 0 /\ SYTAB <= BLK /\ XREF <= BLK
  /\ Names \subseteq Nat \ {0}

VARIABLES
  m,       \* virtual memory and the tables that lead into it
  line,    \* lines read; a line is also the page and line number of its references
  sorted,  \* the cross-reference listing has been made
  seen     \* what the source said so far: for every symbol its value and its lines

mvars == <<m, line, sorted, seen>>

NoBlock == 1000000
Garbage == [str |-> 0, val |-> 0, xlk |-> 0, lnk |-> 0, pl |-> 0, chr |-> 0]
BlankBlock   == [o \in 0..(BLK - 1) |-> Garbage]
LastBlk == (2 + SYTAB * Cardinality(Names) + MaxLine * (3 * XREF + MaxText)) \div BLK + MaxLine + 1

-----------------------------------------------------------------------------
(* The buffers.                                                            *)

\* The file's high water mark, with the block that goes out.
HighWater_Blk(s, blk) == IF blk >= s.limblk THEN blk ELSE s.limblk
HighWater(s, blk) == IF blk >= s.limblk THEN blk + 1 ELSE s.limblk

ToFront(s, i) == [s EXCEPT !.lru = <<s.lru[i]>> \o RemoveAt(s.lru, i)]
WriteOut(s, cb) == [s EXCEPT !.file[cb.blk] = cb.mem, !.limblk = HighWater(s, cb.blk)]
Fill(s, vbn) ==
  [s EXCEPT !.pool[Head(s.lru)] = [blk |-> vbn, dirty |-> FALSE, mem |-> IF vbn < s.limblk THEN s.file[vbn] ELSE @.mem]]

\* getbuf(): the buffer of the block, or the last of the LRU chain, now first in it.
vmgetbuf(s, adr) ==
  LET vbn  == adr \div BLK
      hits == {i \in DOMAIN s.lru : s.pool[s.lru[i]].blk = vbn}
      old  == s.pool[Last(s.lru)]
  IN  IF hits # {} THEN ToFront(s, CHOOSE i \in hits : TRUE)
      ELSE Fill(ToFront(IF old.dirty THEN WriteOut(s, old) ELSE s, Len(s.lru)), vbn)

rfetch(s, adr) == vmgetbuf(s, adr)
Dirtied(s) == [s EXCEPT !.pool[Head(s.lru)].dirty = TRUE]
wfetch(s, adr) == Dirtied(vmgetbuf(s, adr))

\* The pointer that rfetch() and wfetch() return, and its use.
Ptr(s, adr)    == <<Head(s.lru), adr % BLK>>
Load(s, p)     == s.pool[p[1]].mem[p[2]]
Store(s, p, v) == [s EXCEPT !.pool[p[1]].mem[p[2]] = v]
SetLink(s, p, r) == Store(s, p, [Load(s, p) EXCEPT !.lnk = r])

\* valloc(): a region that lies in one block; callers read the base from Base.
Base(s, size)   == LET lim == (s.virtop \div BLK + 1) * BLK IN IF s.virtop + size > lim THEN lim ELSE s.virtop
valloc(s, size) == [s EXCEPT !.virtop = Base(s, size) + size]
Evened(s)        == [s EXCEPT !.virtop = s.virtop + (s.virtop % 2)]

-----------------------------------------------------------------------------
(* The symbol table.                                                       *)

hash(n) == n % NHASH

\* Follow a hash chain to the place of n: q is the first entry not before n.
RECURSIVE Chain(_, _, _, _)
Chain(s, n, p, q) ==
  LET t == rfetch(s, q)
      e == Load(t, Ptr(t, q))
  IN  IF q = 0 THEN [s |-> s, p |-> p, q |-> 0, found |-> FALSE]
      ELSE IF n > e.str THEN Chain(t, n, q, e.lnk)
      ELSE [s |-> t, p |-> p, q |-> q, found |-> n = e.str]

\* A new entry, linked between p and q.
LinkIn(s, n, p, r) == IF p = 0 THEN [s EXCEPT !.syhtab[hash(n)] = r] ELSE SetLink(wfetch(s, p), Ptr(wfetch(s, p), p), r)
Enter(s, n, p, q) ==
  LET a == Evened(s)
      r == Base(a, SYTAB)
      b == wfetch(valloc(a, SYTAB), r)
  IN  [s |-> LinkIn(Store(b, Ptr(b, r), [Garbage EXCEPT !.str = n, !.lnk = q]), n, p, r), sym |-> r]

\* The lookaside list with n in front, its i-th entry dropped.
Aside(w, n, i) == [w EXCEPT !.s.aside = <<[str |-> n, sym |-> w.sym]>> \o RemoveAt(@, i)]
FoundOrNew(w, n) == IF w.found THEN [s |-> w.s, sym |-> w.q] ELSE Enter(w.s, n, w.p, w.q)

\* sylook(): the lookaside list, then the chain, then a new entry.
sylook(s, n) ==
  LET hits == {i \in DOMAIN s.aside : s.aside[i].str = n}
      i    == CHOOSE h \in hits : TRUE
  IN  IF hits # {} THEN Aside([s |-> s, sym |-> s.aside[i].sym], n, i)
      ELSE Aside(FoundOrNew(Chain(s, n, 0, s.syhtab[hash(n)]), n), n, Len(s.aside))

\* xref(): a new entry at the rear of the symbol's circular list.  syp, oxp and nxp are
\* pointers into buffers, held over the fetches behind them.
SetRear(s, syp, nxr) == Store(s, syp, [Load(s, syp) EXCEPT !.xlk = nxr])
FirstXref(d, syp, nxr, pl) ==
  SetRear(Store(d, Ptr(d, nxr), [Garbage EXCEPT !.lnk = nxr, !.pl = pl]), syp, nxr)
NextXref(d, syp, oxp, nxr, pl) ==
  SetRear(SetLink(Store(d, Ptr(d, nxr), [Garbage EXCEPT !.lnk = Load(d, oxp).lnk, !.pl = pl]), oxp, nxr), syp, nxr)
XrefSpace(c)  == Base(Evened(c), XREF)
NewXref(c)    == wfetch(valloc(Evened(c), XREF), XrefSpace(c))
XrefAfter(b, syp, oxp, pl) ==
  IF Load(b, oxp).pl = pl THEN b ELSE NextXref(NewXref(b), syp, oxp, XrefSpace(b), pl)
XrefOf(a, syp, pl) ==
  LET rear == Load(a, syp).xlk
      b    == wfetch(a, rear)
  IN  IF rear = 0 THEN FirstXref(NewXref(a), syp, XrefSpace(a), pl) ELSE XrefAfter(b, syp, Ptr(b, rear), pl)
xref(s, sym, pl) == XrefOf(wfetch(s, sym), Ptr(wfetch(s, sym), sym), pl)

-----------------------------------------------------------------------------
(* Sorting the table for the listing.                                      *)

\* The inner loop of symerge(): along chain a while it is the smaller; ap and bp are kept
\* as pointers.
RECURSIVE Along(_, _, _, _, _)
Along(s, a, ap, b, bp) ==
  LET next == Load(s, ap).lnk
      t    == rfetch(s, next)
      np   == Ptr(t, next)
      u    == rfetch(t, b)
  IN  IF next = 0 THEN [s |-> s, pa |-> a, a |-> 0, ap |-> ap, bp |-> bp]
      ELSE IF Load(u, np).str <= Load(u, Ptr(u, b)).str THEN Along(u, next, np, b, Ptr(u, b))
      ELSE [s |-> u, pa |-> a, a |-> next, ap |-> np, bp |-> Ptr(u, b)]

LinkTail(s, pa, b) == SetLink(s, Ptr(s, pa), b)
RECURSIVE Merge(_, _, _, _, _)
AndOn(w, s, b) == IF w.a = 0 THEN s ELSE Merge(s, b, w.bp, w.a, w.bp)
Swapped(w, b)  == AndOn(w, LinkTail(wfetch(w.s, w.pa), w.pa, b), b)
Merge(s, a, ap, b, bp) == Swapped(Along(s, a, ap, b, bp), b)

Heads(u, a, ap, b, bp) ==
  IF Load(u, ap).str > Load(u, bp).str
  THEN [s |-> Merge(u, b, bp, a, ap), head |-> b]
  ELSE [s |-> Merge(u, a, ap, b, bp), head |-> a]
symerge(s, a, b) ==
  LET t == rfetch(s, a)
      u == rfetch(t, b)
  IN  IF a = 0 THEN [s |-> s, head |-> b]
      ELSE IF b = 0 THEN [s |-> s, head |-> a]
      ELSE Heads(u, a, Ptr(t, a), b, Ptr(u, b))

\* sysort(): one chain, for any number of chains that is a power of 2.
Rehead(w, j) == [w.s EXCEPT !.syhtab[j] = w.head]
RECURSIVE sysort(_, _)
sysort(s, i) ==
  LET half == i \div 2
      fold(t, j) == Rehead(symerge(t, t.syhtab[j], t.syhtab[j + half]), j)
  IN  IF i <= 1 THEN s ELSE sysort(FoldLeft(fold, s, [j \in 1..half |-> j - 1]), half)

-----------------------------------------------------------------------------
(* Steps: the lines of a source and the listing.                           *)

AsmMemoryInit ==
  /\ m = [pool |-> [i \in 1..NBUF |-> [blk |-> NoBlock, dirty |-> FALSE, mem |-> BlankBlock]],
          lru |-> [i \in 1..NBUF |-> i], file |-> [b \in 0..LastBlk |-> BlankBlock], limblk |-> 0,
          virtop |-> 2, syhtab |-> [h \in 0..(NHASH - 1) |-> 0],
          aside |-> [i \in 1..NASIDE |-> [str |-> 0, sym |-> 0]]]
  /\ line = 0 /\ sorted = FALSE
  /\ seen = [n \in {} |-> 0]

Said(n) == IF n \in DOMAIN seen THEN seen[n] ELSE [val |-> 0, lines |-> <<>>]

\* curxpl, with the flag XRDEF on a definition.
RefPlace(def) == 2 * (line + 1) + (IF def THEN 1 ELSE 0)

\* assign() of a label: its definition and its value.
SetValue(s, p) == Store(s, p, [Load(s, p) EXCEPT !.val = line + 1])
Defined(l) == SetValue(wfetch(xref(l.s, l.sym, RefPlace(TRUE)), l.sym),
                       Ptr(wfetch(xref(l.s, l.sym, RefPlace(TRUE)), l.sym), l.sym))
DefineSymbol(s, n) == Defined(sylook(s, n))

\* A symbol in an expression.
Referred(l) == rfetch(xref(l.s, l.sym, RefPlace(FALSE)), l.sym)
Refer(s, n) == Referred(sylook(s, n))

\* A line with a label, a symbol in an operand, or both; "twice" has the symbol twice, and a
\* line is listed once.
SourceLine(labels, refs, twice) ==
  /\ ~ sorted /\ line < MaxLine
  /\ labels \cup refs # {}
  /\ line' = line + 1
  /\ \E s \in IF labels = {} THEN {m} ELSE {DefineSymbol(m, n) : n \in labels} :
     \E t \in IF refs = {} THEN {s} ELSE {Refer(s, n) : n \in refs} :
       m' \in IF refs # {} /\ twice THEN {Refer(t, n) : n \in refs} ELSE {t}
  /\ seen' = [n \in DOMAIN seen \cup labels \cup refs |->
                [val |-> IF n \in labels THEN line + 1 ELSE Said(n).val,
                 lines |-> Said(n).lines \o (IF n \in labels THEN <<RefPlace(TRUE)>> ELSE <<>>)
                                        \o (IF n \in refs THEN <<RefPlace(FALSE)>> ELSE <<>>)]]
  /\ UNCHANGED sorted

\* The characters of a text, one valloc(1) each.
WriteText(s, k) ==
  FoldLeft(LAMBDA t, i : LET a == wfetch(valloc(t, 1), Base(t, 1))
                         IN  Store(a, Ptr(a, Base(t, 1)), [Garbage EXCEPT !.chr = i]),
           s, [i \in 1..k |-> i])

\* A macro keeps its text (def1); a repeat reads it back and frees it (rpt1).
KeepText(k) ==
  /\ ~ sorted /\ line < MaxLine
  /\ m' = WriteText(m, k) /\ line' = line + 1
  /\ UNCHANGED <<sorted, seen>>

ReplayText(k) ==
  /\ ~ sorted /\ line < MaxLine
  /\ m' = [FoldLeft(LAMBDA t, i : rfetch(t, m.virtop + i - 1), WriteText(m, k), [i \in 1..k |-> i])
             EXCEPT !.virtop = m.virtop]
  /\ line' = line + 1
  /\ UNCHANGED <<sorted, seen>>

putxref ==
  /\ ~ sorted /\ sorted' = TRUE
  /\ m' = sysort(m, NHASH)
  /\ UNCHANGED <<line, seen>>

AsmMemoryNext ==
  \/ \E labels \in {{}} \cup {{n} : n \in Names} : \E refs \in {{}} \cup {{n} : n \in Names} :
       \E twice \in BOOLEAN : SourceLine(labels, refs, twice)
  \/ \E k \in {1, MaxText} : KeepText(k) \/ ReplayText(k)
  \/ putxref

-----------------------------------------------------------------------------
(* Properties.                                                             *)

\* What a fetch of the address would find.
View(adr) ==
  LET b == {i \in 1..NBUF : m.pool[i].blk = adr \div BLK}
  IN  IF b # {} THEN m.pool[CHOOSE i \in b : TRUE].mem[adr % BLK]
      ELSE m.file[adr \div BLK][adr % BLK]

\* A chain, of as many entries as there can be.
RECURSIVE From(_, _)
From(adr, most) == IF adr = 0 \/ most = 0 THEN <<>> ELSE <<View(adr)>> \o From(View(adr).lnk, most - 1)

\* The lines of a symbol, from the front of its circular list.
RECURSIVE Round(_, _, _)
Round(adr, rear, most) ==
  IF most = 0 THEN <<>>
  ELSE <<View(adr).pl>> \o (IF adr = rear THEN <<>> ELSE Round(View(adr).lnk, rear, most - 1))
Lines(e) == IF e.xlk = 0 THEN <<>> ELSE Round(View(e.xlk).lnk, e.xlk, 2 * MaxLine + 1)

Chains == {h \in DOMAIN m.syhtab : ~ sorted \/ h = 0}

\* However the buffers were paged: every symbol of the source is in its chain once and in
\* order, with the value of its last definition and all its lines, also after the listing
\* has merged the chains; and the lookaside list leads to the entries of its names.  avm.c
\* getbuf() reuses buffers that callers of sylook(), xref() and symerge() have pointers to
\* ("CAUTION -- This code requires an lru virtual memory buffer pool of at least 3 blocks").
SymbolTableIsWhole ==
  /\ \A h \in Chains :
       LET c == From(m.syhtab[h], Cardinality(Names) + 1)
       IN  /\ \A i \in 1..(Len(c) - 1) : c[i].str < c[i + 1].str
           /\ {c[i].str : i \in DOMAIN c} = {n \in DOMAIN seen : sorted \/ hash(n) = h}
           /\ \A i \in DOMAIN c : c[i].str \in DOMAIN seen /\ [val |-> c[i].val, lines |-> Lines(c[i])] = seen[c[i].str]
  /\ \A i \in DOMAIN m.aside : m.aside[i].str # 0 => View(m.aside[i].sym).str = m.aside[i].str
=============================================================================
