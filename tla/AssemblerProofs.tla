--------------------------- MODULE AssemblerProofs --------------------------
(***************************************************************************)
(* Proofs about the assembler, for any source text.  The addresses that    *)
(* the second pass gives to labels are those of the first, and so are      *)
(* those in the symbol table and the relocation records of the object      *)
(* file; and the text blocks of the object file are what pass 2 emitted.   *)
(* What a statement does it folds over its operands, its items and the     *)
(* symbol table: see FoldFacts.                                            *)
(***************************************************************************)
EXTENDS Assembler, FiniteSetTheorems, TLAPS

-----------------------------------------------------------------------------
(* Sequences.                                                              *)

\* A sequence, of whatever its elements are.
IsSeq(s) == s \in Seq(ToSet(s))

LEMMA SeqIsSeq ==
  ASSUME NEW T, NEW s \in Seq(T)
  PROVE  IsSeq(s) /\ Len(s) \in Nat /\ DOMAIN s = 1..Len(s) /\ \A i \in 1..Len(s) : s[i] \in T
<1>1. Len(s) \in Nat /\ DOMAIN s = 1..Len(s) /\ s = [i \in 1..Len(s) |-> s[i]]
  OBVIOUS
<1>2. \A i \in 1..Len(s) : s[i] \in ToSet(s)
  BY <1>1 DEF ToSet
<1>3. s \in Seq(ToSet(s))
  BY <1>1, <1>2
<1> QED
  BY <1>1, <1>3 DEF IsSeq

LEMMA SeqLength ==
  ASSUME NEW s, IsSeq(s)
  PROVE  Len(s) \in Nat /\ DOMAIN s = 1..Len(s) /\ s \in Seq(ToSet(s)) /\ \A i \in 1..Len(s) : s[i] \in ToSet(s)
BY SeqIsSeq DEF IsSeq

LEMMA Appended ==
  ASSUME NEW T, NEW s \in Seq(T), NEW x \in T
  PROVE  /\ Append(s, x) \in Seq(T) /\ Len(Append(s, x)) = Len(s) + 1
         /\ Append(s, x)[Len(s) + 1] = x /\ \A i \in 1..Len(s) : Append(s, x)[i] = s[i]
OBVIOUS

LEMMA AppendIsSeq ==
  ASSUME NEW s, IsSeq(s), NEW x
  PROVE  IsSeq(Append(s, x))
<1> DEFINE T == ToSet(s) \cup {x}
<1>1. s \in Seq(T)
  BY SeqLength
<1>2. Append(s, x) \in Seq(T)
  BY <1>1, Appended, x \in T
<1> QED
  BY <1>2, SeqIsSeq

LEMMA FunctionIsSeq ==
  ASSUME NEW n \in Nat, NEW f, f = [i \in 1..n |-> f[i]]
  PROVE  IsSeq(f) /\ Len(f) = n
<1> DEFINE T == {f[i] : i \in 1..n}
<1>1. f \in Seq(T) /\ Len(f) = n
  OBVIOUS
<1> QED
  BY <1>1, SeqIsSeq

LEMMA ExceptIsSeq ==
  ASSUME NEW s, IsSeq(s), NEW k, NEW x
  PROVE  IsSeq([s EXCEPT ![k] = x]) /\ Len([s EXCEPT ![k] = x]) = Len(s)
<1> DEFINE t == [s EXCEPT ![k] = x]
<1>1. Len(s) \in Nat /\ DOMAIN s = 1..Len(s)
  BY SeqLength
<1>2. t = [i \in 1..Len(s) |-> t[i]]
  BY <1>1
<1> HIDE DEF t
<1>3. IsSeq(t) /\ Len(t) = Len(s)
  BY <1>1, <1>2, FunctionIsSeq
<1> QED
  BY <1>3 DEF t

-----------------------------------------------------------------------------
(* The assembler.                                                          *)

SymTypes == {"und", "lab", "var", "sec"}

\* The fields that the proof reads.
Shape(s) ==
  /\ {"cur", "secct", "sectab", "sym", "errs", "obj", "placed", "used"} \subseteq DOMAIN s
  /\ "sec" \in DOMAIN s.cur /\ s.cur.sec # RBUND
  /\ {"out", "typ", "text"} \subseteq DOMAIN s.obj /\ IsSeq(s.obj.out) /\ IsSeq(s.obj.text)
  /\ s.secct \in Nat

SymTable(s) ==
  /\ IsFiniteSet(DOMAIN s.sym)
  /\ \A n \in DOMAIN s.sym : /\ {"typ", "val", "rel"} \subseteq DOMAIN s.sym[n]
                             /\ s.sym[n].typ \in SymTypes
                             /\ s.sym[n].typ = "sec" => s.sym[n].rel # RBUND

Names(s) == DOMAIN s.sym
Known(s, n) == n = 0 \/ n \in Names(s)

\* A symbol is a label at the place that a record names.
IsAt(s, u) ==
  /\ u.name \in DOMAIN s.sym
  /\ s.sym[u.name].typ = "lab" /\ s.sym[u.name].rel # RBUND
  /\ s.sym[u.name].val = u.val /\ s.sym[u.name].rel = u.rel

\* The rows of the symbols blocks of an object file, the block in memory included.
SymbolBlocks == {"glo", "loc"}
IsRow(o, r) ==
  \/ \E i \in DOMAIN o.out : o.out[i].typ \in SymbolBlocks /\ r \in ToSet(o.out[i].text)
  \/ o.typ \in SymbolBlocks /\ r \in ToSet(o.text)
RowHolds(s, r) == r.rel # RBUND => r.name \in DOMAIN s.sym /\ (s.sym[r.name].typ = "var" \/ IsAt(s, r))

PlacedHold(s) == \A u \in s.placed : s.errs # {} \/ IsAt(s, u)
UsedHold(s) == \A u \in s.used : IsAt(s, u)
RowsHold(s) == \A r : IsRow(s.obj, r) => RowHolds(s, r)

\* What every operator of the two passes keeps.
Good(s) == Shape(s) /\ SymTable(s) /\ PlacedHold(s) /\ UsedHold(s) /\ RowsHold(s)

\* Symbols are never removed; a label that has a place keeps it, and a variable stays one.
Keeps(s, t) ==
  /\ DOMAIN s.sym \subseteq DOMAIN t.sym
  /\ \A n \in DOMAIN s.sym :
       /\ s.sym[n].typ = "var" => t.sym[n].typ = "var"
       /\ s.sym[n].typ = "lab" /\ s.sym[n].rel # RBUND =>
            t.sym[n].typ = "lab" /\ t.sym[n].rel = s.sym[n].rel /\ t.sym[n].val = s.sym[n].val

LEMMA PlaceKept ==
  ASSUME NEW s, NEW t, Keeps(s, t), NEW u
  PROVE  (IsAt(s, u) => IsAt(t, u)) /\ (RowHolds(s, u) => RowHolds(t, u))
BY DEF Keeps, IsAt, RowHolds

\* A step that adds to what is known keeps the invariant if what it adds holds.
LEMMA Grows ==
  ASSUME NEW s, NEW t, Good(s), Shape(t), SymTable(t), Keeps(s, t), s.errs \subseteq t.errs,
         \A u \in t.placed : u \in s.placed \/ t.errs # {} \/ IsAt(t, u),
         \A u \in t.used : u \in s.used \/ IsAt(t, u),
         \A r : IsRow(t.obj, r) => IsRow(s.obj, r) \/ RowHolds(t, r)
  PROVE  Good(t)
<1>1. PlacedHold(t)
  BY PlaceKept DEF Good, PlacedHold
<1>2. UsedHold(t)
  BY PlaceKept DEF Good, UsedHold
<1>3. RowsHold(t)
  BY PlaceKept DEF Good, RowsHold
<1> QED
  BY <1>1, <1>2, <1>3 DEF Good

LEMMA SameSymbols ==
  ASSUME NEW s, NEW t, Good(s), Shape(t), t.sym = s.sym, s.errs \subseteq t.errs,
         t.placed = s.placed, t.used = s.used,
         \A r : IsRow(t.obj, r) => IsRow(s.obj, r) \/ RowHolds(t, r)
  PROVE  Good(t)
<1>1. SymTable(t) /\ Keeps(s, t)
  BY DEF Good, SymTable, Keeps
<1> QED
  BY <1>1, Grows

LEMMA SameRows ==
  ASSUME NEW s, NEW t, Good(s), Shape(t), t.sym = s.sym, s.errs \subseteq t.errs,
         t.placed = s.placed, t.used = s.used, t.obj = s.obj
  PROVE  Good(t)
BY SameSymbols

LEMMA ErrsKeep ==
  ASSUME NEW s, Good(s), NEW p, NEW cs
  PROVE  /\ Good(ErrsIn(p, s, cs)) /\ ErrsIn(p, s, cs).sym = s.sym
         /\ ErrsIn(p, s, cs).cur = s.cur /\ ErrsIn(p, s, cs).secct = s.secct
<1> DEFINE t == ErrsIn(p, s, cs)
<1>1. /\ t.sym = s.sym /\ s.errs \subseteq t.errs /\ t.placed = s.placed /\ t.used = s.used /\ t.obj = s.obj
      /\ t.cur = s.cur /\ t.secct = s.secct /\ DOMAIN t = DOMAIN s
  BY DEF ErrsIn, Good, Shape
<1> HIDE DEF t
<1>2. Shape(t)
  BY <1>1 DEF Good, Shape
<1> QED
  BY <1>1, <1>2, SameRows DEF t

-----------------------------------------------------------------------------
(* Symbols and sections.                                                   *)

LEMMA EnteredKeeps ==
  ASSUME NEW s, Good(s), NEW ns, IsFiniteSet(ns)
  PROVE  /\ Good(Entered(s, ns)) /\ Names(Entered(s, ns)) = Names(s) \cup ns
         /\ Entered(s, ns).cur = s.cur
<1> DEFINE t == Entered(s, ns)
<1>1. /\ t.sym = [n \in DOMAIN s.sym \cup ns |-> IF n \in DOMAIN s.sym THEN s.sym[n] ELSE Fresh]
      /\ DOMAIN t = DOMAIN s /\ t.cur = s.cur /\ t.secct = s.secct
      /\ t.errs = s.errs /\ t.placed = s.placed /\ t.used = s.used /\ t.obj = s.obj
  BY DEF Entered, Good, Shape
<1> HIDE DEF t
<1>2. Shape(t)
  BY <1>1 DEF Good, Shape
<1>3. IsFiniteSet(DOMAIN t.sym)
  <2>1. IsFiniteSet(DOMAIN s.sym \cup ns)
    BY FS_Union DEF Good, SymTable
  <2> QED
    BY <1>1, <2>1
<1>4. SymTable(t)
  BY <1>1, <1>3 DEF Good, SymTable, Fresh, SymTypes
<1>5. Keeps(s, t)
  BY <1>1 DEF Keeps
<1>6. Good(t)
  BY <1>1, <1>2, <1>4, <1>5, Grows
<1> QED
  BY <1>1, <1>6 DEF t, Names

LEMMA RefusedKeeps ==
  ASSUME NEW s, Good(s), NEW a, Shape(a), SymTable(a), Keeps(s, a), a.obj = s.obj, a.errs = s.errs, a.used = s.used,
         NEW p, \A u \in a.placed : u \in s.placed \/ p = 2, NEW cs, cs # {}
  PROVE  /\ Good(ErrsIn(p, a, cs)) /\ ErrsIn(p, a, cs).sym = a.sym
         /\ ErrsIn(p, a, cs).cur = a.cur /\ ErrsIn(p, a, cs).secct = a.secct
<1> DEFINE b == ErrsIn(p, a, cs)
<1>1. /\ DOMAIN b = DOMAIN a /\ b.cur = a.cur /\ b.secct = a.secct /\ b.obj = a.obj
      /\ b.used = s.used /\ b.placed = a.placed /\ b.sym = a.sym /\ b.errs = IF p = 2 THEN s.errs \cup cs ELSE s.errs
  BY DEF ErrsIn, Good, Shape
<1> HIDE DEF b
<1>2. Shape(b)
  BY <1>1 DEF Shape
<1>3. SymTable(b) /\ Keeps(s, b)
  BY <1>1 DEF SymTable, Keeps
<1>4. \A u \in b.placed : u \in s.placed \/ b.errs # {}
  BY <1>1
<1>5. Good(b)
  BY <1>1, <1>2, <1>3, <1>4, Grows
<1> QED
  BY <1>1, <1>5 DEF b

\* assign(): what it puts in the table is what it notes, or an error counts.
LEMMA assignKeeps ==
  ASSUME NEW s, Good(s), NEW p, NEW n, Known(s, n),
         NEW typ \in {"lab", "var", "sec"}, NEW val, NEW rel, rel # RBUND
  PROVE  /\ Good(assignIn(p, s, n, typ, val, rel))
         /\ Names(assignIn(p, s, n, typ, val, rel)) = Names(s)
         /\ assignIn(p, s, n, typ, val, rel).cur = s.cur
         /\ assignIn(p, s, n, typ, val, rel).secct = s.secct
<1> DEFINE r    == assignIn(p, s, n, typ, val, rel)
           new  == [name |-> n, val |-> val, rel |-> rel]
           noted == p = 2 /\ typ = "lab"
           t    == [s EXCEPT !.placed = IF noted THEN @ \cup {new} ELSE @]
           e    == s.sym[n]
<1>0. CASE n = 0
  BY <1>0 DEF assignIn
<1>1. CASE n # 0
  <2>0. n \in DOMAIN s.sym
    BY <1>1 DEF Names, Known
  <2>1. /\ DOMAIN t = DOMAIN s /\ t.sym = s.sym /\ t.cur = s.cur /\ t.secct = s.secct /\ t.obj = s.obj
        /\ t.errs = s.errs /\ t.used = s.used /\ t.placed = IF noted THEN s.placed \cup {new} ELSE s.placed
    BY DEF Good, Shape
  <2>2. {"typ", "val", "rel"} \subseteq DOMAIN e /\ e.typ \in SymTypes /\ (e.typ = "sec" => e.rel # RBUND)
    BY <2>0 DEF Good, SymTable
  <2> DEFINE again == e.typ # "var" /\ (IF p = 2 THEN e.p2 ELSE e.typ # "und")
             und  == IF e.typ = "und" THEN [e EXCEPT !.typ = typ, !.rel = RBUND] ELSE e
             open == und.rel = RBUND \/ und.typ = "var"
             set  == IF open THEN [und EXCEPT !.val = val, !.rel = rel] ELSE und
             put  == [set EXCEPT !.p2 = @ \/ p = 2]
             two  == [t EXCEPT !.sym[n].mud = TRUE]
             done == [t EXCEPT !.sym[n] = put]
  <2>3. r = IF again THEN ErrsIn(p, two, {"M"})
            ELSE IF und.typ # typ \/ (~ open /\ Moved(und, val, rel)) THEN ErrsIn(p, t, {"P"}) ELSE done
    BY <1>1 DEF assignIn
  <2> HIDE DEF t, r
  <2>5. CASE again
    <3>1. /\ DOMAIN two = DOMAIN s /\ two.cur = s.cur /\ two.secct = s.secct /\ two.obj = s.obj /\ two.errs = s.errs
          /\ two.used = s.used /\ two.placed = t.placed /\ two.sym = [s.sym EXCEPT ![n] = [s.sym[n] EXCEPT !.mud = TRUE]]
      BY <2>1 DEF Good, Shape
    <3> HIDE DEF two
    <3>2. \A m \in DOMAIN s.sym : /\ DOMAIN two.sym[m] = DOMAIN s.sym[m] /\ two.sym[m].typ = s.sym[m].typ
                                  /\ two.sym[m].rel = s.sym[m].rel /\ two.sym[m].val = s.sym[m].val
      BY <3>1 DEF Good, SymTable
    <3>3. DOMAIN two.sym = DOMAIN s.sym
      BY <3>1
    <3>4. Shape(two)
      BY <3>1 DEF Good, Shape
    <3>5. SymTable(two) /\ Keeps(s, two)
      BY <3>2, <3>3 DEF Good, SymTable, Keeps
    <3>6. \A u \in two.placed : u \in s.placed \/ p = 2
      BY <2>1, <3>1
    <3>7. r = ErrsIn(p, two, {"M"}) /\ {"M"} # {}
      BY <2>3, <2>5
    <3>8. Good(r) /\ r.sym = two.sym /\ r.cur = two.cur /\ r.secct = two.secct
      BY <3>1, <3>4, <3>5, <3>6, <3>7, RefusedKeeps
    <3> QED
      BY <3>1, <3>3, <3>8 DEF r, Names
  <2>6. CASE ~ again /\ (und.typ # typ \/ (~ open /\ Moved(und, val, rel)))
    <3>1. r = ErrsIn(p, t, {"P"}) /\ {"P"} # {}
      BY <2>3, <2>6
    <3>2. Shape(t) /\ SymTable(t) /\ Keeps(s, t)
      BY <2>1 DEF Good, Shape, SymTable, Keeps
    <3>3. \A u \in t.placed : u \in s.placed \/ p = 2
      BY <2>1
    <3>4. Good(r) /\ r.sym = t.sym /\ r.cur = t.cur /\ r.secct = t.secct
      BY <2>1, <3>1, <3>2, <3>3, RefusedKeeps
    <3> QED
      BY <2>1, <3>4 DEF r, Names
  <2>7. CASE ~ again /\ und.typ = typ /\ (open \/ ~ Moved(und, val, rel))
    <3>1. r = done
      BY <2>3, <2>7
    <3>2. {"typ", "val", "rel"} \subseteq DOMAIN und /\ und.typ = typ
      BY <2>2, <2>7
    <3>3. {"typ", "val", "rel"} \subseteq DOMAIN put /\ put.typ = typ /\ put.val = val /\ put.rel = rel
      BY <2>7, <3>2 DEF Moved
    <3>4. (e.typ = "var" => typ = "var") /\ (e.typ = "lab" /\ e.rel # RBUND => typ = "lab" /\ e.rel = rel /\ e.val = val)
      BY <2>7 DEF Moved
    <3> HIDE DEF put
    <3>5. /\ DOMAIN done = DOMAIN s /\ done.cur = s.cur /\ done.secct = s.secct /\ done.obj = s.obj /\ done.errs = s.errs
          /\ done.used = s.used /\ done.placed = t.placed /\ done.sym = [s.sym EXCEPT ![n] = put]
      BY <2>1 DEF Good, Shape
    <3> HIDE DEF done
    <3>6. Shape(done)
      BY <3>5 DEF Good, Shape
    <3>7. SymTable(done)
      BY <3>3, <3>5 DEF Good, SymTable, SymTypes
    <3>8. Keeps(s, done)
      BY <3>3, <3>4, <3>5 DEF Keeps
    <3>9. \A u \in done.placed : u \in s.placed \/ IsAt(done, u)
      BY <2>0, <2>1, <3>3, <3>5 DEF IsAt
    <3>10. Good(done)
      BY <3>5, <3>6, <3>7, <3>8, <3>9, Grows
    <3> QED
      BY <3>1, <3>5, <3>10 DEF r, Names
  <2> QED
    BY <2>5, <2>6, <2>7
<1> QED
  BY <1>0, <1>1

LEMMA LabelHereKeeps ==
  ASSUME NEW s, Good(s), NEW n, Known(s, n)
  PROVE  Good(LabelHere(s, n)) /\ Names(LabelHere(s, n)) = Names(s)
<1>1. s.cur.sec # RBUND
  BY DEF Good, Shape
<1>2. LabelHere(s, n) = assignIn(pass, s, n, "lab", s.cur.loc, s.cur.sec)
  BY DEF LabelHere, assign
<1> DEFINE t == assignIn(pass, s, n, "lab", s.cur.loc, s.cur.sec)
<1>3. "lab" \in {"lab", "var", "sec"}
  OBVIOUS
<1>4. Good(t)
  BY <1>1, <1>3, assignKeeps
<1>5. Names(t) = Names(s)
  BY <1>1, <1>3, assignKeeps
<1> QED
  BY <1>2, <1>4, <1>5

\* An expression has a relocation unless it is not one.
LEMMA PrimaryPlaced ==
  ASSUME NEW s, s.cur.sec # RBUND, NEW p, p.k # "bad"
  PROVE  Primary(s, p).rel # RBUND
BY DEF Primary, Value, NoValue, Unvalued, RBUND

LEMMA ApplyPlaced ==
  ASSUME NEW op, op # "id", NEW a, NEW b, a.rel # RBUND, b.rel # RBUND
  PROVE  Apply(op, a, b).rel # RBUND /\ "rel" \in DOMAIN Apply(op, a, b)
BY DEF Apply, Value, NoValue, SumRel, RBUND

LEMMA EvalPlaced ==
  ASSUME NEW s, s.cur.sec # RBUND, NEW x, ~ Syntax(x)
  PROVE  Eval(s, x).rel # RBUND
<1> DEFINE a == Primary(s, x.l)
           b == Primary(s, x.r)
           r == Apply(x.op, a, b)
           e == a.errs \cup b.errs \cup r.errs
<1>1. a.rel # RBUND /\ b.rel # RBUND
  BY PrimaryPlaced DEF Syntax
<1>2. "rel" \in DOMAIN a
  BY DEF Primary, Value, NoValue
<1>3. r.rel # RBUND /\ "rel" \in DOMAIN r
  <2>1. CASE x.op = "id"
    BY <1>1, <1>2, <2>1 DEF Apply
  <2>2. CASE x.op # "id"
    BY <1>1, <2>2, ApplyPlaced
  <2> QED
    BY <2>1, <2>2
<1>4. Eval(s, x) = IF "E" \in e THEN [val |-> 0, rel |-> 0, errs |-> e] ELSE [r EXCEPT !.errs = e]
  BY DEF Eval
<1> HIDE DEF r, e
<1>5. [r EXCEPT !.errs = e].rel = r.rel
  BY <1>3
<1> QED
  BY <1>3, <1>4, <1>5 DEF RBUND

LEMMA SymbolsFinite ==
  ASSUME NEW x
  PROVE  IsFiniteSet(Symbols(x))
<1>1. IsFiniteSet({x.l.n} \cup {x.r.n})
  BY FS_Singleton, FS_AddElement
<1>2. Symbols(x) \subseteq {x.l.n} \cup {x.r.n}
  BY DEF Symbols
<1> QED
  BY <1>1, <1>2, FS_Subset

\* The symbols that an expression reads are where it reads them.
LEMMA MentionKeeps ==
  ASSUME NEW s, Good(s), NEW x
  PROVE  /\ Good(Mention(s, x)) /\ Names(Mention(s, x)) = Names(s) \cup Symbols(x)
         /\ Mention(s, x).cur = s.cur
<1> DEFINE m == Mention(s, x)
<1>1. PICK t : t = Entered(s, Symbols(x))
  OBVIOUS
<1>2. Good(t) /\ Names(t) = Names(s) \cup Symbols(x) /\ t.cur = s.cur
  BY <1>1, EnteredKeeps, SymbolsFinite
<1> DEFINE read == {[name |-> n, val |-> t.sym[n].val, rel |-> t.sym[n].rel]
                       : n \in {y \in Symbols(x) : t.sym[y].typ = "lab" /\ ~ Unvalued(t.sym[y])}}
<1>3. m = [t EXCEPT !.used = IF pass # 2 THEN @ ELSE @ \cup read]
  BY <1>1 DEF Mention
<1>4. \A u \in read : IsAt(t, u)
  <2> SUFFICES ASSUME NEW n \in Symbols(x), t.sym[n].typ = "lab", ~ Unvalued(t.sym[n])
               PROVE  IsAt(t, [name |-> n, val |-> t.sym[n].val, rel |-> t.sym[n].rel])
    OBVIOUS
  <2>1. n \in DOMAIN t.sym /\ t.sym[n].rel # RBUND
    BY <1>2 DEF Names, Unvalued
  <2> QED
    BY <2>1 DEF IsAt
<1> HIDE DEF read
<1>5. /\ m.sym = t.sym /\ m.errs = t.errs /\ m.placed = t.placed /\ m.obj = t.obj /\ m.cur = t.cur /\ m.secct = t.secct
      /\ DOMAIN m = DOMAIN t /\ m.used \subseteq t.used \cup read
  BY <1>2, <1>3 DEF Good, Shape
<1> HIDE DEF m
<1>6. Shape(m)
  BY <1>2, <1>5 DEF Good, Shape
<1>7. SymTable(m) /\ Keeps(t, m)
  BY <1>2, <1>5 DEF Good, SymTable, Keeps
<1>8. \A u \in m.used : u \in t.used \/ IsAt(m, u)
  BY <1>4, <1>5 DEF IsAt
<1>9. Good(m)
  BY <1>2, <1>5, <1>6, <1>7, <1>8, Grows
<1> QED
  BY <1>2, <1>5, <1>9 DEF m, Names

LEMMA setsecKeeps ==
  ASSUME NEW s, Good(s), NEW n, n # RBUND
  PROVE  Good(setsec(s, n)) /\ Names(setsec(s, n)) = Names(s)
<1> DEFINE t == setsec(s, n)
<1>1. /\ t.sym = s.sym /\ t.errs = s.errs /\ t.placed = s.placed /\ t.used = s.used /\ t.obj = s.obj
      /\ t.secct = s.secct /\ DOMAIN t = DOMAIN s /\ "sec" \in DOMAIN t.cur /\ t.cur.sec = n
  BY DEF setsec, Good, Shape
<1> HIDE DEF t
<1>2. Shape(t)
  BY <1>1 DEF Good, Shape
<1> QED
  BY <1>1, <1>2, SameRows DEF t, Names

LEMMA newsecKeeps ==
  ASSUME NEW s, Good(s), NEW p, NEW n, Known(s, n)
  PROVE  Good(newsecIn(p, s, n)) /\ Names(newsecIn(p, s, n)) = Names(s)
<1> DEFINE r == newsecIn(p, s, n)
<1>0. s.secct \in Nat
  BY DEF Good, Shape
<1>1. CASE s.secct >= SECSIZ
  <2>1. r = [s EXCEPT !.fatal = TRUE]
    BY <1>1 DEF newsecIn
  <2>2. /\ r.sym = s.sym /\ r.errs = s.errs /\ r.placed = s.placed /\ r.used = s.used /\ r.obj = s.obj
        /\ r.secct = s.secct /\ DOMAIN r = DOMAIN s /\ r.cur = s.cur
    BY <2>1 DEF Good, Shape
  <2> HIDE DEF r
  <2>3. Shape(r)
    BY <2>2 DEF Good, Shape
  <2> QED
    BY <2>2, <2>3, SameRows DEF r, Names
<1>2. CASE ~ (s.secct >= SECSIZ)
  <2>0. s.secct # RBUND
    BY <1>0, <1>2, AssemblerAssumption DEF RBUND
  <2>1. PICK a : a = assignIn(p, s, n, "sec", 0, s.secct)
    OBVIOUS
  <2>2. Good(a) /\ Names(a) = Names(s) /\ a.secct = s.secct
    <3>1. "sec" \in {"lab", "var", "sec"}
      OBVIOUS
    <3> QED
      BY <2>0, <2>1, <3>1, assignKeeps
  <2>3. PICK c : c = [a EXCEPT !.sectab[s.secct].sym = n, !.secct = @ + 1]
    OBVIOUS
  <2>4. /\ c.sym = a.sym /\ c.errs = a.errs /\ c.placed = a.placed /\ c.used = a.used /\ c.obj = a.obj
        /\ c.secct = s.secct + 1 /\ DOMAIN c = DOMAIN a /\ c.cur = a.cur
    BY <2>2, <2>3 DEF Good, Shape
  <2>5. Good(c)
    <3>1. Shape(c)
      BY <1>0, <2>2, <2>4 DEF Good, Shape
    <3> QED
      BY <2>2, <2>4, <3>1, SameRows
  <2>6. PICK b : b = setsec(c, s.secct)
    OBVIOUS
  <2>7. Good(b) /\ Names(b) = Names(c)
    BY <2>0, <2>5, <2>6, setsecKeeps
  <2>8. r = [b EXCEPT !.cur = NewCur(s.secct)]
    BY <1>2, <2>1, <2>3, <2>6 DEF newsecIn
  <2>9. /\ r.sym = b.sym /\ r.errs = b.errs /\ r.placed = b.placed /\ r.used = b.used /\ r.obj = b.obj
        /\ r.secct = b.secct /\ DOMAIN r = DOMAIN b /\ "sec" \in DOMAIN r.cur /\ r.cur.sec = s.secct
    BY <2>7, <2>8 DEF Good, Shape, NewCur
  <2> HIDE DEF r
  <2>10. Shape(r)
    BY <2>0, <2>7, <2>9 DEF Good, Shape
  <2>11. Good(r)
    BY <2>7, <2>9, <2>10, SameRows
  <2> QED
    BY <2>2, <2>4, <2>7, <2>9, <2>11 DEF r, Names
<1> QED
  BY <1>1, <1>2

LEMMA SectionKeeps ==
  ASSUME NEW s, Good(s), NEW n, n \in Names(s)
  PROVE  Good(Section(s, n))
<1>1. CASE s.sym[n].typ = "sec" /\ (pass = 1 \/ s.sym[n].p2)
  <2>1. s.sym[n].rel # RBUND
    BY <1>1 DEF Good, SymTable, Names
  <2> QED
    BY <1>1, <2>1, setsecKeeps DEF Section
<1>2. CASE ~ (s.sym[n].typ = "sec" /\ (pass = 1 \/ s.sym[n].p2))
  <2>1. Section(s, n) = newsecIn(pass, s, n)
    BY <1>2 DEF Section, newsec
  <2>2. Known(s, n)
    BY DEF Known
  <2> QED
    BY <2>1, <2>2, newsecKeeps
<1> QED
  BY <1>1, <1>2

LEMMA BeginKeeps ==
  ASSUME NEW s, Good(s), NEW p
  PROVE  Good(Begin(p, s))
<1>1. PICK a : a = [s EXCEPT !.cur = NewCur(0), !.sectab[0].loc = 0, !.secct = 1]
  OBVIOUS
<1>2. /\ a.sym = s.sym /\ a.errs = s.errs /\ a.placed = s.placed /\ a.used = s.used /\ a.obj = s.obj
      /\ a.secct = 1 /\ DOMAIN a = DOMAIN s /\ "sec" \in DOMAIN a.cur /\ a.cur.sec = 0
  BY <1>1 DEF Good, Shape, NewCur
<1>3. Shape(a)
  BY <1>2 DEF Good, Shape, RBUND
<1>4. Good(a)
  BY <1>2, <1>3, SameRows
<1>5. PICK t : t = Entered(a, {TEXT})
  OBVIOUS
<1>6. Good(t) /\ TEXT \in Names(t)
  <2>1. IsFiniteSet({TEXT})
    BY FS_Singleton
  <2> QED
    BY <1>4, <1>5, <2>1, EnteredKeeps
<1>7. Begin(p, s) = newsecIn(p, t, TEXT)
  BY <1>1, <1>5 DEF Begin
<1> QED
  BY <1>6, <1>7, newsecKeeps DEF Known

-----------------------------------------------------------------------------
(* The object file.                                                        *)

LEMMA AppendedRange ==
  ASSUME NEW s, IsSeq(s), NEW x
  PROVE  IsSeq(Append(s, x)) /\ \A r : r \in ToSet(Append(s, x)) => r \in ToSet(s) \/ r = x
<1>1. IsSeq(Append(s, x))
  BY AppendIsSeq
<1>2. PICK n \in Nat : n = Len(s)
  BY SeqLength
<1>3. DOMAIN s = 1..n /\ DOMAIN Append(s, x) = 1..(n + 1) /\ Append(s, x)[n + 1] = x
      /\ \A i \in 1..n : Append(s, x)[i] = s[i]
  BY <1>2, SeqLength
<1>4. ASSUME NEW r \in ToSet(Append(s, x)) PROVE r \in ToSet(s) \/ r = x
  <2>1. PICK i \in 1..(n + 1) : Append(s, x)[i] = r
    BY <1>3, <1>4 DEF ToSet
  <2>2. CASE i = n + 1
    BY <1>3, <2>1, <2>2
  <2>3. CASE i # n + 1
    <3>1. i \in 1..n
      BY <2>3
    <3> QED
      BY <1>3, <2>1, <3>1 DEF ToSet
  <2> QED
    BY <2>2, <2>3
<1> QED
  BY <1>1, <1>4

\* What of a state the object file does not touch.
SameTables(s, t) ==
  /\ t.sym = s.sym /\ t.errs = s.errs /\ t.placed = s.placed /\ t.used = s.used
  /\ t.secct = s.secct /\ DOMAIN t = DOMAIN s /\ "sec" \in DOMAIN t.cur /\ t.cur.sec = s.cur.sec

\* What an operator of the object file keeps.
Carries(s, t) == Good(t) /\ SameTables(s, t)

LEMMA SameTablesGood ==
  ASSUME NEW s, NEW t, Good(s), SameTables(s, t),
         {"out", "typ", "text"} \subseteq DOMAIN t.obj, IsSeq(t.obj.out), IsSeq(t.obj.text),
         \A r : IsRow(t.obj, r) => IsRow(s.obj, r) \/ RowHolds(s, r)
  PROVE  Carries(s, t)
<1>1. Shape(t)
  BY DEF SameTables, Good, Shape
<1>2. \A r : RowHolds(s, r) => RowHolds(t, r)
  BY DEF SameTables, RowHolds, IsAt
<1>3. Good(t)
  BY <1>1, <1>2, SameSymbols DEF SameTables
<1> QED
  BY <1>3 DEF Carries

LEMMA oflushCarries ==
  ASSUME NEW s, Good(s)
  PROVE  Carries(s, oflush(s)) /\ oflush(s).obj.typ = "none" /\ oflush(s).obj.text = <<>>
<1> DEFINE t == oflush(s)
           o == s.obj
           b == [typ |-> o.typ, sec |-> o.sec, loc |-> o.loc, text |-> o.text, rels |-> o.rels]
<1>1. /\ SameTables(s, t) /\ DOMAIN t.obj = DOMAIN s.obj
      /\ t.obj.out = (IF o.typ = "none" THEN o.out ELSE Append(o.out, b))
      /\ t.obj.typ = "none" /\ t.obj.text = <<>>
  BY DEF oflush, SameTables, Good, Shape
<1>2. b.typ = o.typ /\ b.text = o.text
  OBVIOUS
<1>3. IsSeq(o.out)
  BY DEF Good, Shape
<1> HIDE DEF t, b
<1>4. IsSeq(t.obj.out) /\ IsSeq(t.obj.text)
  <2>1. IsSeq(<<>>)
    BY <<>> \in Seq({}), SeqIsSeq
  <2> QED
    BY <1>1, <1>3, <2>1, AppendIsSeq
<1>5. ASSUME NEW r, IsRow(t.obj, r) PROVE IsRow(s.obj, r)
  <2>1. "none" \notin SymbolBlocks
    BY DEF SymbolBlocks
  <2>2. PICK i \in DOMAIN t.obj.out : t.obj.out[i].typ \in SymbolBlocks /\ r \in ToSet(t.obj.out[i].text)
    BY <1>1, <1>5, <2>1 DEF IsRow
  <2>3. CASE o.typ = "none"
    BY <1>1, <2>2, <2>3 DEF IsRow
  <2>4. CASE o.typ # "none"
    <3>1. t.obj.out = Append(o.out, b)
      BY <1>1, <2>4
    <3>2. t.obj.out[i] \in ToSet(Append(o.out, b))
      BY <3>1 DEF ToSet
    <3>3. t.obj.out[i] \in ToSet(o.out) \/ t.obj.out[i] = b
      BY <1>3, <3>2, AppendedRange
    <3>4. CASE t.obj.out[i] = b
      BY <1>2, <2>2, <3>4 DEF IsRow
    <3>5. CASE t.obj.out[i] \in ToSet(o.out)
      BY <2>2, <3>5 DEF IsRow, ToSet
    <3> QED
      BY <3>3, <3>4, <3>5
  <2> QED
    BY <2>3, <2>4
<1>6. Carries(s, t)
  <2>1. {"out", "typ", "text"} \subseteq DOMAIN t.obj
    BY <1>1 DEF Good, Shape
  <2> QED
    BY <1>1, <1>4, <1>5, <2>1, SameTablesGood
<1> QED
  BY <1>1, <1>6 DEF t

LEMMA CarriesThrough ==
  ASSUME NEW s, NEW t, NEW u, Carries(s, t), Carries(t, u)
  PROVE  Carries(s, u)
BY DEF Carries, SameTables

LEMMA CarriesItself ==
  ASSUME NEW s, Good(s)
  PROVE  Carries(s, s)
BY DEF Carries, SameTables, Good, Shape

\* A text block holds no symbols.
LEMMA NoRows ==
  ASSUME NEW o, NEW p, o.out = p.out, o.typ \notin SymbolBlocks
  PROVE  \A r : IsRow(o, r) => IsRow(p, r)
BY DEF IsRow

LEMMA SetOrgCarries ==
  ASSUME NEW s, Good(s), NEW sec, NEW loc
  PROVE  Carries(s, SetOrg(s, sec, loc)) /\ SetOrg(s, sec, loc).obj.typ = "text"
<1>1. CASE s.obj.typ = "text" /\ s.obj.nxtloc = loc /\ s.obj.nxtsec = sec
  BY <1>1, CarriesItself DEF SetOrg
<1>2. CASE ~ (s.obj.typ = "text" /\ s.obj.nxtloc = loc /\ s.obj.nxtsec = sec)
  <2>1. PICK n : n = oflush(s)
    OBVIOUS
  <2>2. PICK t : t = SetOrg(s, sec, loc)
    OBVIOUS
  <2>3. t = [n EXCEPT !.obj.typ = "text", !.obj.bytes = 6, !.obj.sec = sec, !.obj.loc = loc,
                      !.obj.nxtloc = loc, !.obj.nxtsec = sec]
    BY <1>2, <2>1, <2>2 DEF SetOrg
  <2>4. Carries(s, n) /\ n.obj.text = <<>>
    BY <2>1, oflushCarries
  <2>5. /\ SameTables(n, t) /\ {"out", "typ", "text"} \subseteq DOMAIN t.obj
        /\ t.obj.typ = "text" /\ t.obj.out = n.obj.out /\ t.obj.text = n.obj.text
    BY <2>3, <2>4 DEF Carries, SameTables, Good, Shape
  <2>6. \A r : IsRow(t.obj, r) => IsRow(n.obj, r)
    BY <2>5, NoRows DEF SymbolBlocks
  <2>7. Carries(n, t)
    BY <2>4, <2>5, <2>6, SameTablesGood DEF Carries, Good, Shape
  <2> QED
    BY <2>2, <2>4, <2>5, <2>7, CarriesThrough
<1> QED
  BY <1>1, <1>2

LEMMA setorgCarries ==
  ASSUME NEW s, Good(s)
  PROVE  Carries(s, setorg(s)) /\ (pass = 2 => setorg(s).obj.typ = "text")
BY SetOrgCarries, CarriesItself DEF setorg

LEMMA emitbCarries ==
  ASSUME NEW s, Good(s), NEW byte, NEW rl
  PROVE  Carries(s, emitb(s, byte, rl))
<1>1. PICK f : f = (IF Free(s.obj) < Room(rl) THEN oflush(s) ELSE s)
  OBVIOUS
<1>2. PICK a : a = setorg(f)
  OBVIOUS
<1>3. Carries(s, a) /\ (pass = 2 => a.obj.typ = "text")
  <2>1. Carries(s, f)
    BY <1>1, oflushCarries, CarriesItself
  <2>2. Good(f)
    BY <2>1 DEF Carries
  <2> QED
    BY <1>2, <2>1, <2>2, setorgCarries, CarriesThrough
<1> DEFINE at == [off |-> a.obj.bytes, rl |-> rl]
           place == <<s.cur.sec, s.cur.loc>>
           b == [a EXCEPT !.obj.text = Append(@, byte), !.obj.bytes = @ + 1,
                          !.obj.rels = IF rl = NoReloc THEN @ ELSE Append(@, at),
                          !.image = [p \in DOMAIN @ \cup {place} |-> IF p = place THEN <<byte, rl>> ELSE @[p]]]
           t == IF pass = 2 THEN b ELSE s
           u == [t EXCEPT !.cur.loc = s.cur.loc + 1, !.obj.nxtloc = s.cur.loc + 1]
<1>4. emitb(s, byte, rl) = u
  BY <1>1, <1>2 DEF emitb
<1>5. CASE pass = 2
  <2>1. /\ SameTables(a, u) /\ {"out", "typ", "text"} \subseteq DOMAIN u.obj
        /\ u.obj.out = a.obj.out /\ u.obj.typ = "text" /\ u.obj.text = Append(a.obj.text, byte)
    BY <1>3, <1>5 DEF Carries, SameTables, Good, Shape
  <2> HIDE DEF u
  <2>2. IsSeq(u.obj.text) /\ IsSeq(u.obj.out)
    BY <1>3, <2>1, AppendIsSeq DEF Carries, Good, Shape
  <2>3. \A r : IsRow(u.obj, r) => IsRow(a.obj, r)
    BY <2>1, NoRows DEF SymbolBlocks
  <2>4. Carries(a, u)
    BY <1>3, <2>1, <2>2, <2>3, SameTablesGood DEF Carries
  <2> QED
    BY <1>3, <1>4, <2>4, CarriesThrough
<1>6. CASE pass # 2
  <2>1. /\ SameTables(s, u) /\ {"out", "typ", "text"} \subseteq DOMAIN u.obj
        /\ u.obj.out = s.obj.out /\ u.obj.typ = s.obj.typ /\ u.obj.text = s.obj.text
    BY <1>6 DEF SameTables, Good, Shape
  <2> HIDE DEF u
  <2>2. \A r : IsRow(u.obj, r) => IsRow(s.obj, r)
    BY <2>1 DEF IsRow
  <2>3. Carries(s, u)
    BY <2>1, <2>2, SameTablesGood DEF Good, Shape
  <2> QED
    BY <1>4, <2>3
<1> QED
  BY <1>5, <1>6

\* Emit(): p is the item.
Emitting(p, q, acc, i) == emitb(acc, <<p.val, i>>, IF i = 1 THEN p.rl ELSE NoReloc)
EmittingKeeps(p, q, i, acc) == Carries(q, acc)
Emitted == INSTANCE FoldFacts WITH op <- Emitting, P <- EmittingKeeps

LEMMA EmitCarries ==
  ASSUME NEW s, Good(s), NEW item, item.len \in Nat
  PROVE  Carries(s, Emit(s, item))
<1>1. PICK bytes : bytes = [i \in 1..item.len |-> i]
  OBVIOUS
<1>2. EmittingKeeps(item, s, 0, s)
  BY CarriesItself DEF EmittingKeeps
<1>3. \A acc : \A i \in 0..(item.len - 1) :
        EmittingKeeps(item, s, i, acc) => EmittingKeeps(item, s, i + 1, Emitting(item, s, acc, bytes[i + 1]))
  <2> SUFFICES ASSUME NEW acc, Carries(s, acc), NEW x PROVE Carries(s, Emitting(item, s, acc, x))
    BY DEF EmittingKeeps
  <2>1. Carries(acc, Emitting(item, s, acc, x))
    BY emitbCarries DEF Carries, Emitting
  <2> QED
    BY <2>1, CarriesThrough
<1>4. EmittingKeeps(item, s, item.len, Emitted!Folded(item, s, s, bytes))
  BY <1>1, <1>2, <1>3, Emitted!FoldInvariant
<1>5. Emit(s, item) = Emitted!Folded(item, s, s, bytes)
  BY <1>1 DEF Emit, Emitted!Folded, Emitting, FoldLeft, MapThenFoldSet, Emitted!MapThenFoldSet,
              Max, Emitted!Greatest
<1> QED
  BY <1>4, <1>5 DEF EmittingKeeps

LEMMA PutEntryCarries ==
  ASSUME NEW s, Good(s), NEW typ, NEW size, NEW entry, typ \in SymbolBlocks => RowHolds(s, entry)
  PROVE  Carries(s, PutEntry(s, typ, size, entry))
<1>1. PICK f : f = (IF s.obj.typ # typ \/ Free(s.obj) < SYMSIZ + 7 THEN [oflush(s) EXCEPT !.obj.typ = typ] ELSE s)
  OBVIOUS
<1>2. Carries(s, f) /\ f.obj.typ = typ
  <2>1. CASE s.obj.typ # typ \/ Free(s.obj) < SYMSIZ + 7
    <3>1. PICK n : n = oflush(s)
      OBVIOUS
    <3>2. Carries(s, n) /\ n.obj.text = <<>>
      BY <3>1, oflushCarries
    <3>3. f = [n EXCEPT !.obj.typ = typ]
      BY <1>1, <2>1, <3>1
    <3>4. /\ SameTables(n, f) /\ {"out", "typ", "text"} \subseteq DOMAIN f.obj
          /\ f.obj.typ = typ /\ f.obj.out = n.obj.out /\ f.obj.text = <<>>
      BY <3>2, <3>3 DEF Carries, SameTables, Good, Shape
    <3>5. \A r : IsRow(f.obj, r) => IsRow(n.obj, r)
      <4>1. \A r : r \notin ToSet(<<>>)
        BY DEF ToSet
      <4> QED
        BY <3>4, <4>1 DEF IsRow
    <3>6. Carries(n, f)
      <4>1. Good(n) /\ IsSeq(f.obj.out) /\ IsSeq(f.obj.text)
        BY <3>2, <3>4 DEF Carries, Good, Shape
      <4> QED
        BY <3>4, <3>5, <4>1, SameTablesGood
    <3> QED
      BY <3>2, <3>4, <3>6, CarriesThrough
  <2>2. CASE ~ (s.obj.typ # typ \/ Free(s.obj) < SYMSIZ + 7)
    BY <1>1, <2>2, CarriesItself
  <2> QED
    BY <2>1, <2>2
<1>3. PICK t : t = PutEntry(s, typ, size, entry)
  OBVIOUS
<1>4. t = [f EXCEPT !.obj.bytes = @ + size, !.obj.text = Append(@, entry)]
  BY <1>1, <1>3 DEF PutEntry
<1>5. /\ SameTables(f, t) /\ {"out", "typ", "text"} \subseteq DOMAIN t.obj
      /\ t.obj.typ = typ /\ t.obj.out = f.obj.out /\ t.obj.text = Append(f.obj.text, entry)
  BY <1>2, <1>4 DEF Carries, SameTables, Good, Shape
<1>6. IsSeq(f.obj.text) /\ IsSeq(f.obj.out)
  BY <1>2 DEF Carries, Good, Shape
<1>7. IsSeq(t.obj.text) /\ \A r : r \in ToSet(t.obj.text) => r \in ToSet(f.obj.text) \/ r = entry
  BY <1>5, <1>6, AppendedRange
<1>8. typ \in SymbolBlocks => RowHolds(f, entry)
  BY <1>2 DEF Carries, SameTables, RowHolds, IsAt
<1>9. \A r : IsRow(t.obj, r) => IsRow(f.obj, r) \/ RowHolds(f, r)
  BY <1>2, <1>5, <1>7, <1>8 DEF IsRow
<1>10. Carries(f, t)
  BY <1>2, <1>5, <1>6, <1>7, <1>9, SameTablesGood DEF Carries
<1> QED
  BY <1>2, <1>3, <1>10, CarriesThrough

-----------------------------------------------------------------------------
(* Between the passes: the sections and symbols blocks.                    *)

LEMMA PutSymbolKeeps ==
  ASSUME NEW s, Good(s), NEW n \in Names(s)
  PROVE  Good(PutSymbol(s, n)) /\ Names(PutSymbol(s, n)) = Names(s)
<1> DEFINE r   == PutSymbol(s, n)
           e   == s.sym[n]
           glo == e.glo \/ (asm.uext /\ e.typ = "und")
           typ == IF glo THEN "glo" ELSE "loc"
           row == [name |-> n, val |-> IF e.typ = "und" THEN 0 ELSE e.val, rel |-> IF e.typ = "und" THEN RBUND ELSE e.rel]
           new == [e EXCEPT !.typ = "lab", !.glo = TRUE, !.val = 0, !.rel = s.nextext]
<1>0. n \in DOMAIN s.sym /\ {"typ", "val", "rel"} \subseteq DOMAIN e /\ e.typ \in SymTypes
  BY DEF Good, SymTable, Names
<1>1. PICK p : p = PutEntry(s, typ, 5 + SYMSIZ + 1, row)
  OBVIOUS
<1>2. PICK x : x = [p EXCEPT !.sym[n] = new, !.nextext = @ + 1]
  OBVIOUS
<1>3. r \in {s, [s EXCEPT !.fatal = TRUE]} \/ (e.typ = "und" /\ r = x) \/ (e.typ # "sec" /\ r = p)
  BY <1>1, <1>2 DEF PutSymbol
<1>4. e.typ # "sec" => Carries(s, p)
  <2> SUFFICES ASSUME e.typ # "sec" PROVE Carries(s, p)
    OBVIOUS
  <2>1. row.name = n /\ row.val = (IF e.typ = "und" THEN 0 ELSE e.val) /\ row.rel = (IF e.typ = "und" THEN RBUND ELSE e.rel)
    OBVIOUS
  <2> HIDE DEF row
  <2>2. RowHolds(s, row)
    BY <1>0, <2>1 DEF RowHolds, IsAt, SymTypes
  <2> QED
    BY <1>1, <2>2, PutEntryCarries
<1>5. ASSUME r = s PROVE Good(r) /\ Names(r) = Names(s)
  BY <1>5
<1>6. ASSUME r = [s EXCEPT !.fatal = TRUE] PROVE Good(r) /\ Names(r) = Names(s)
  <2>1. /\ r.sym = s.sym /\ r.errs = s.errs /\ r.placed = s.placed /\ r.used = s.used /\ r.obj = s.obj
        /\ r.secct = s.secct /\ DOMAIN r = DOMAIN s /\ r.cur = s.cur
    BY <1>6 DEF Good, Shape
  <2> HIDE DEF r
  <2>2. Shape(r)
    BY <2>1 DEF Good, Shape
  <2> QED
    BY <2>1, <2>2, SameRows DEF Names
<1>7. ASSUME e.typ # "sec", r = p PROVE Good(r) /\ Names(r) = Names(s)
  BY <1>4, <1>7 DEF Carries, SameTables, Names
<1>8. ASSUME e.typ = "und", r = x PROVE Good(r) /\ Names(r) = Names(s)
  <2>1. Carries(s, p)
    BY <1>4, <1>8
  <2> HIDE DEF r
  <2>2. {"typ", "val", "rel"} \subseteq DOMAIN new /\ new.typ = "lab"
    BY <1>0
  <2> HIDE DEF new
  <2>3. /\ r.sym = [s.sym EXCEPT ![n] = new] /\ r.errs = p.errs /\ r.placed = p.placed /\ r.used = p.used
        /\ r.obj = p.obj /\ r.secct = p.secct /\ DOMAIN r = DOMAIN p /\ r.cur = p.cur
    BY <1>2, <1>8, <2>1 DEF Carries, SameTables, Good, Shape
  <2>4. p.sym = s.sym /\ Good(p)
    BY <2>1 DEF Carries, SameTables
  <2>5. Shape(r)
    BY <2>3, <2>4 DEF Good, Shape
  <2>6. SymTable(r)
    BY <2>2, <2>3 DEF Good, SymTable, SymTypes
  <2>7. Keeps(p, r)
    BY <1>8, <2>3, <2>4 DEF Keeps
  <2>8. Good(r)
    BY <2>3, <2>4, <2>5, <2>6, <2>7, Grows
  <2> QED
    BY <2>3, <2>8 DEF Names
<1> QED
  BY <1>3, <1>5, <1>6, <1>7, <1>8

PuttingSection(p, q, acc, n) == PutEntry(acc, "sec", 3 + SYMSIZ + 1, acc.sectab[n])
PuttingKeeps(p, q, i, acc) == Good(acc) /\ Names(acc) = q
SectionsPut == INSTANCE FoldFacts WITH op <- PuttingSection, P <- PuttingKeeps

PuttingSymbol(p, q, acc, n) == PutSymbol(acc, n)
SymbolsPut == INSTANCE FoldFacts WITH op <- PuttingSymbol, P <- PuttingKeeps

LEMMA InterludeBlocksKeep ==
  ASSUME NEW s, Good(s)
  PROVE  Good(InterludeBlocks(s))
<1>1. PICK b : b = [typ |-> "start", sec |-> 0, loc |-> 0, text |-> <<>>, rels |-> <<>>]
  OBVIOUS
<1>2. PICK t : t = [s EXCEPT !.obj.out = Append(@, b)]
  OBVIOUS
<1>3. Good(t) /\ Names(t) = Names(s) /\ t.secct = s.secct
  <2>1. /\ SameTables(s, t) /\ {"out", "typ", "text"} \subseteq DOMAIN t.obj
        /\ t.obj.out = Append(s.obj.out, b) /\ t.obj.typ = s.obj.typ /\ t.obj.text = s.obj.text
    BY <1>2 DEF SameTables, Good, Shape
  <2>2. IsSeq(s.obj.out) /\ IsSeq(s.obj.text)
    BY DEF Good, Shape
  <2>3. IsSeq(t.obj.out) /\ \A c : c \in ToSet(t.obj.out) => c \in ToSet(s.obj.out) \/ c = b
    BY <2>1, <2>2, AppendedRange
  <2>4. b.typ \notin SymbolBlocks
    BY <1>1 DEF SymbolBlocks
  <2>5. \A r : IsRow(t.obj, r) => IsRow(s.obj, r)
    BY <2>1, <2>3, <2>4 DEF IsRow, ToSet
  <2>6. Carries(s, t)
    BY <2>1, <2>2, <2>3, <2>5, SameTablesGood
  <2> QED
    BY <2>6 DEF Carries, SameTables, Names
<1>4. PICK n \in Nat : 1..n = 1..(s.secct - 1)
  <2>1. s.secct \in Nat
    BY DEF Good, Shape
  <2>2. CASE s.secct = 0
    <3>1. 1..0 = 1..(s.secct - 1)
      BY <2>2
    <3> QED
      BY <3>1
  <2>3. CASE s.secct # 0
    <3>1. s.secct - 1 \in Nat
      BY <2>1, <2>3
    <3> QED
      BY <3>1
  <2> QED
    BY <2>2, <2>3
<1>5. PICK numbers : numbers = [i \in 1..n |-> i]
  OBVIOUS
<1>6. PICK secs : secs = SectionsPut!Folded(0, Names(s), t, numbers)
  OBVIOUS
<1>7. Good(secs) /\ Names(secs) = Names(s)
  <2>1. PuttingKeeps(0, Names(s), 0, t)
    BY <1>3 DEF PuttingKeeps
  <2>2. \A acc : \A i \in 0..(n - 1) :
          PuttingKeeps(0, Names(s), i, acc) =>
            PuttingKeeps(0, Names(s), i + 1, PuttingSection(0, Names(s), acc, numbers[i + 1]))
    <3> SUFFICES ASSUME NEW acc, Good(acc), Names(acc) = Names(s), NEW x
                 PROVE  Good(PuttingSection(0, Names(s), acc, x)) /\ Names(PuttingSection(0, Names(s), acc, x)) = Names(s)
      BY DEF PuttingKeeps
    <3>1. "sec" \notin SymbolBlocks
      BY DEF SymbolBlocks
    <3>2. Carries(acc, PuttingSection(0, Names(s), acc, x))
      BY <3>1, PutEntryCarries DEF PuttingSection
    <3> QED
      BY <3>2 DEF Carries, SameTables, Names
  <2>3. PuttingKeeps(0, Names(s), n, secs)
    BY <1>5, <1>6, <2>1, <2>2, SectionsPut!FoldInvariant
  <2> QED
    BY <2>3 DEF PuttingKeeps
<1>8. InterludeBlocks(s) = SymbolsPut!FoldedSet(s, Names(s), secs, Names(s))
  <2>1. t.secct = s.secct /\ numbers = [i \in 1..(s.secct - 1) |-> i]
    BY <1>3, <1>4, <1>5
  <2>2. secs = FoldLeft(LAMBDA acc, k : PutEntry(acc, "sec", 3 + SYMSIZ + 1, acc.sectab[k]), t,
                        [i \in 1..(s.secct - 1) |-> i])
    BY <1>6, <2>1 DEF SectionsPut!Folded, PuttingSection, FoldLeft, MapThenFoldSet,
                      SectionsPut!MapThenFoldSet, Max, SectionsPut!Greatest
  <2>3. SymbolsPut!FoldedSet(s, Names(s), secs, Names(s))
          = FoldSet(LAMBDA k, acc : PutSymbol(acc, k), secs, DOMAIN s.sym)
    BY DEF SymbolsPut!FoldedSet, SymbolsPut!Chosen, PuttingSymbol, FoldSet, MapThenFoldSet, SymbolsPut!MapThenFoldSet, Names
  <2> QED
    BY <1>1, <1>2, <2>2, <2>3 DEF InterludeBlocks
<1>9. PuttingKeeps(s, Names(s), 0, SymbolsPut!FoldedSet(s, Names(s), secs, Names(s)))
  <2>1. PuttingKeeps(s, Names(s), 0, secs)
    BY <1>7 DEF PuttingKeeps
  <2>2. \A acc : \A k \in Names(s) :
          PuttingKeeps(s, Names(s), 0, acc) => PuttingKeeps(s, Names(s), 0, PuttingSymbol(s, Names(s), acc, k))
    BY PutSymbolKeeps DEF PuttingKeeps, PuttingSymbol
  <2>3. IsFiniteSet(Names(s))
    BY DEF Good, SymTable, Names
  <2>4. SymbolsPut!IsFiniteSet(Names(s))
    BY <2>3 DEF IsFiniteSet, SymbolsPut!IsFiniteSet
  <2> QED
    BY <2>1, <2>2, <2>4, SymbolsPut!SetFoldInvariant
<1> QED
  BY <1>8, <1>9 DEF PuttingKeeps

-----------------------------------------------------------------------------
(* The input stack.                                                        *)

IsFrame(f) == {"text", "pos"} \subseteq DOMAIN f /\ IsTextOf(f.text) /\ f.pos \in Nat \ {0}
IsStatement(st) ==
  /\ {"op", "args"} \subseteq DOMAIN st
  /\ IsSeq(st.args) /\ \A x \in ToSet(st.args) : IsArgument(x)
  /\ st.op \in WithOperand => st.args # <<>>
StackOK(stack) == IsSeq(stack) /\ \A f \in ToSet(stack) : IsFrame(f)

\* All texts are sequences of statements, what macros and repeats have kept included.
InputOK ==
  /\ {"stack", "macros", "rpttext"} \subseteq DOMAIN inp
  /\ StackOK(inp.stack)
  /\ IsTextOf(inp.rpttext)
  /\ \A n \in DOMAIN inp.macros : IsTextOf(inp.macros[n])

LEMMA TextIsSeq ==
  ASSUME NEW text
  PROVE  IsTextOf(text) <=> IsSeq(text) /\ \A st \in ToSet(text) : IsStatement(st)
BY DEF IsTextOf, IsSeq, IsStatement

LEMMA EmptyText == IsTextOf(<<>>) /\ IsSeq(<<>>) /\ \A x : x \notin ToSet(<<>>)
<1>1. IsSeq(<<>>)
  BY <<>> \in Seq({}), SeqIsSeq
<1>2. \A x : x \notin ToSet(<<>>)
  BY DEF ToSet
<1> QED
  BY <1>1, <1>2, TextIsSeq

LEMMA AppendText ==
  ASSUME NEW text, IsTextOf(text), NEW st, IsStatement(st)
  PROVE  IsTextOf(Append(text, st))
BY TextIsSeq, AppendedRange

LEMMA AppendFrame ==
  ASSUME NEW stack, StackOK(stack), NEW f, IsFrame(f)
  PROVE  StackOK(Append(stack, f)) /\ StackOK(Push(stack, f))
BY AppendedRange DEF StackOK, Push

LEMMA FrontAndLast ==
  ASSUME NEW s, IsSeq(s), s # <<>>
  PROVE  /\ IsSeq(Front(s)) /\ Last(s) \in ToSet(s)
         /\ \A x : x \in ToSet(Front(s)) => x \in ToSet(s)
<1>1. PICK n \in Nat : n = Len(s)
  BY SeqLength
<1>2. DOMAIN s = 1..n /\ s \in Seq(ToSet(s)) /\ n # 0
  BY <1>1, SeqLength
<1>3. Last(s) = s[n] /\ n \in 1..n
  BY <1>1, <1>2 DEF Last
<1>4. Front(s) = [i \in 1..(n - 1) |-> s[i]] /\ n - 1 \in Nat
  BY <1>1, <1>2 DEF Front
<1>5. \A x : x \in ToSet(Front(s)) => x \in ToSet(s)
  <2> SUFFICES ASSUME NEW i \in 1..(n - 1) PROVE s[i] \in ToSet(s)
    BY <1>4 DEF ToSet
  <2>1. i \in 1..n
    BY <1>4
  <2> QED
    BY <1>2, <2>1 DEF ToSet
<1>6. IsSeq(Front(s))
  <2>1. Front(s) = [i \in 1..(n - 1) |-> Front(s)[i]]
    BY <1>4
  <2> QED
    BY <1>4, <2>1, FunctionIsSeq
<1>7. Last(s) \in ToSet(s)
  BY <1>2, <1>3 DEF ToSet
<1> QED
  BY <1>5, <1>6, <1>7

LEMMA NamedArgument ==
  ASSUME NEW x, IsArgument(x)
  PROVE  IsArgument(NamedArg(x))
<1>1. ASSUME NEW p, IsPrimary(p) PROVE IsPrimary(NamedP(p))
  BY <1>1 DEF IsPrimary, NamedP
<1>2. /\ DOMAIN NamedArg(x) = DOMAIN x /\ NamedArg(x).l = NamedP(x.l) /\ NamedArg(x).r = NamedP(x.r)
  BY DEF NamedArg, IsArgument
<1> QED
  BY <1>1, <1>2 DEF IsArgument

\* The line that is read, and the stack behind it.
LEMMA TopFacts ==
  ASSUME InputOK, Reading
  PROVE  IsFrame(Top) /\ StackOK(Under)
<1>1. StackOK(inp.stack) /\ inp.stack # <<>>
  BY DEF InputOK, Reading
<1>2. IsSeq(Under) /\ Top \in ToSet(inp.stack) /\ \A x : x \in ToSet(Under) => x \in ToSet(inp.stack)
  BY <1>1, FrontAndLast DEF StackOK, Under, Top
<1> QED
  BY <1>1, <1>2 DEF StackOK

LEMMA LineFacts ==
  ASSUME InputOK, HasStatement
  PROVE  IsStatement(Line) /\ StackOK(Advance) /\ StackOK(Under) /\ IsFrame(Top)
<1>1. IsFrame(Top) /\ StackOK(Under)
  BY TopFacts DEF HasStatement
<1>2. PICK t : t = Top
  OBVIOUS
<1>3. IsFrame([t EXCEPT !.pos = @ + 1])
  BY <1>1, <1>2 DEF IsFrame
<1>4. StackOK(Advance)
  BY <1>1, <1>2, <1>3, AppendFrame DEF Advance
<1>5. PICK n \in Nat : n = Len(t.text) /\ IsSeq(t.text) /\ DOMAIN t.text = 1..n
  BY <1>1, <1>2, TextIsSeq, SeqLength DEF IsFrame
<1>6. t.pos \in 1..n
  BY <1>1, <1>2, <1>5 DEF HasStatement, AtEnd, IsFrame
<1>7. PICK st : st = t.text[t.pos]
  OBVIOUS
<1>8. IsStatement(st)
  BY <1>1, <1>2, <1>5, <1>6, <1>7, TextIsSeq DEF IsFrame, ToSet
<1>9. PICK n2 \in Nat : n2 = Len(st.args) /\ DOMAIN st.args = 1..n2
  BY <1>8, SeqLength DEF IsStatement
<1>10. /\ {"op", "args"} \subseteq DOMAIN Line /\ Line.op = st.op
       /\ Line.args = [i \in 1..n2 |-> NamedArg(st.args[i])]
  BY <1>2, <1>7, <1>8, <1>9 DEF Line, IsStatement
<1>11. IsSeq(Line.args) /\ Len(Line.args) = n2
  <2>1. Line.args = [i \in 1..n2 |-> Line.args[i]]
    BY <1>10
  <2> QED
    BY <2>1, FunctionIsSeq
<1>12. \A x \in ToSet(Line.args) : IsArgument(x)
  <2> SUFFICES ASSUME NEW i \in 1..n2 PROVE IsArgument(NamedArg(st.args[i]))
    BY <1>10 DEF ToSet
  <2>1. st.args[i] \in ToSet(st.args)
    BY <1>9 DEF ToSet
  <2> QED
    BY <1>8, <2>1, NamedArgument DEF IsStatement
<1>13. Line.op \in WithOperand => Line.args # <<>>
  <2> SUFFICES ASSUME st.op \in WithOperand PROVE Line.args # <<>>
    BY <1>10
  <2>1. 1 \in DOMAIN st.args
    <3>1. IsSeq(st.args) /\ st.args # <<>>
      BY <1>8 DEF IsStatement
    <3>2. st.args \in Seq(ToSet(st.args))
      BY <3>1 DEF IsSeq
    <3> QED
      BY <1>9, <3>1, <3>2
  <2>2. DOMAIN Line.args = DOMAIN st.args
    BY <1>9, <1>10
  <2>3. DOMAIN <<>> = {}
    OBVIOUS
  <2> QED
    BY <2>1, <2>2, <2>3
<1> QED
  BY <1>1, <1>4, <1>10, <1>11, <1>12, <1>13 DEF IsStatement

-----------------------------------------------------------------------------
(* What a statement does to the tables and the object file.                *)

\* A state in which the label of the line that is read is in the table, or there is none.
Ready(s) == Good(s) /\ Known(s, Line.lab)

LEMMA LabelledReady ==
  ASSUME Good(z)
  PROVE  Ready(Labelled)
<1>1. IsFiniteSet({Line.lab} \ {0})
  BY FS_Singleton, FS_Subset
<1>2. Good(Labelled) /\ Names(Labelled) = Names(z) \cup ({Line.lab} \ {0})
  BY <1>1, EnteredKeeps DEF Labelled
<1> QED
  BY <1>2 DEF Ready, Known

LEMMA ErrsReady ==
  ASSUME NEW s, Ready(s), NEW cs
  PROVE  Ready(Errs(s, cs)) /\ Errs(s, cs).cur = s.cur /\ Names(Errs(s, cs)) = Names(s)
BY ErrsKeep DEF Ready, Errs, Known, Names

LEMMA errGood ==
  ASSUME NEW s, Good(s), NEW c
  PROVE  Good(err(s, c))
BY ErrsKeep DEF err, Errs

LEMMA ErrsGood ==
  ASSUME NEW s, Good(s), NEW cs
  PROVE  Good(Errs(s, cs))
BY ErrsKeep DEF Errs

LEMMA MentionReady ==
  ASSUME NEW s, Ready(s), NEW x
  PROVE  Ready(Mention(s, x))
BY MentionKeeps DEF Ready, Known

LEMMA LabelReady ==
  ASSUME NEW s, Ready(s)
  PROVE  Ready(LabelHere(s, Line.lab))
BY LabelHereKeeps DEF Ready, Known

LEMMA CarriesReady ==
  ASSUME NEW s, Ready(s), NEW t, Carries(s, t)
  PROVE  Ready(t)
BY DEF Ready, Carries, SameTables, Known, Names

\* Only the location, its alignment, extent or attributes change.
LEMMA CurCarries ==
  ASSUME NEW s, Good(s), NEW t, SameTables(s, t), t.obj = s.obj
  PROVE  Carries(s, t)
BY SameTablesGood DEF Good, Shape

LEMMA EvenReady ==
  ASSUME NEW s, Ready(s)
  PROVE  Ready(Even(s))
<1>1. Good(s)
  BY DEF Ready
<1>2. SameTables(s, Even(s)) /\ Even(s).obj = s.obj
  BY <1>1 DEF Even, SameTables, Good, Shape
<1> QED
  BY <1>1, <1>2, CurCarries, CarriesReady

\* An item is as long as its relocation is wide.
IsItem(x) == x.len \in 1..4 /\ (x.rl # NoReloc => Width(x.rl.act) = x.len)

LEMMA ItemIsItem ==
  ASSUME NEW len \in 1..4, NEW v, NEW act, act \in {"A8", "A16M", "A32M", "ZOF", "ZSS", "ZLS"} => Width(act) = len,
         act \in {"A8", "A16M", "A32M", "ZOF", "ZSS", "ZLS"}, NEW base
  PROVE  IsItem(Item(len, v, Reloc(act, base)))
<1>1. PICK rl : rl = Reloc(act, base)
  OBVIOUS
<1>2. rl # NoReloc => rl.act = act
  BY <1>1 DEF Reloc
<1>3. Item(len, v, rl).len = len /\ Item(len, v, rl).rl = rl
  BY DEF Item
<1> QED
  BY <1>1, <1>2, <1>3 DEF IsItem

LEMMA Widths ==
  /\ Width("A8") = 1 /\ Width("A16M") = 2 /\ Width("ZOF") = 2 /\ Width("ZSS") = 2
  /\ Width("A32M") = 4 /\ Width("ZLS") = 4
BY DEF Width

LEMMA PlainItem ==
  ASSUME NEW len \in 1..4, NEW v
  PROVE  IsItem(Item(len, v, NoReloc))
BY DEF IsItem, Item

LEMMA ItemsAreItems ==
  ASSUME NEW r, NEW short
  PROVE  IsItem(Word(r)) /\ IsItem(Long(r)) /\ IsItem(Byte(r)) /\ IsItem(Address(r, short))
<1>1. \A v : \A b : /\ IsItem(Item(1, v, Reloc("A8", b))) /\ IsItem(Item(2, v, Reloc("A16M", b)))
                     /\ IsItem(Item(2, v, Reloc("ZOF", b))) /\ IsItem(Item(2, v, Reloc("ZSS", b)))
                     /\ IsItem(Item(4, v, Reloc("A32M", b))) /\ IsItem(Item(4, v, Reloc("ZLS", b)))
  BY Widths, ItemIsItem
<1> QED
  BY <1>1 DEF Word, Long, Byte, Address

\* .byte, .word and .long: p is the directive.
PutOperand(p, q, acc, x) ==
  LET t == Mention(acc, x)
      r == Eval(t, x)
  IN  Emit(Errs(t, r.errs), CASE p = "byte" -> Byte(r) [] p = "word" -> Word(r) [] p = "long" -> Long(r))
GoodSoFar(p, q, i, acc) == Good(acc)
Operands == INSTANCE FoldFacts WITH op <- PutOperand, P <- GoodSoFar

LEMMA PutOperandKeeps ==
  ASSUME NEW p \in {"byte", "word", "long"}, NEW q, NEW s, Good(s), NEW x
  PROVE  Good(PutOperand(p, q, s, x))
<1>1. PICK t : t = Mention(s, x)
  OBVIOUS
<1>2. PICK r : r = Eval(t, x)
  OBVIOUS
<1>3. PICK item : item = (CASE p = "byte" -> Byte(r) [] p = "word" -> Word(r) [] p = "long" -> Long(r))
  OBVIOUS
<1>4. item \in {Byte(r), Word(r), Long(r)}
  BY <1>3
<1>5. item.len \in Nat
  BY <1>4, ItemsAreItems DEF IsItem
<1>6. Good(Errs(t, r.errs))
  BY <1>1, MentionKeeps, ErrsGood
<1>7. PutOperand(p, q, s, x) = Emit(Errs(t, r.errs), item)
  BY <1>1, <1>2, <1>3 DEF PutOperand
<1> QED
  BY <1>5, <1>6, <1>7, EmitCarries DEF Carries

LEMMA DataKeeps ==
  ASSUME InputOK, Good(z), Data
  PROVE  Good(z')
<1>1. PICK s0 : s0 = (IF Line.op = "byte" THEN Labelled ELSE Even(Labelled))
  OBVIOUS
<1>2. PICK p : p = Line.op
  OBVIOUS
<1>3. PICK s : s = LabelHere(s0, Line.lab)
  OBVIOUS
<1>4. Good(s)
  BY <1>1, <1>3, LabelledReady, EvenReady, LabelReady DEF Ready
<1>5. HasStatement /\ p \in {"byte", "word", "long"}
  BY <1>2 DEF Data, Assemble
<1>6. IsSeq(Line.args)
  BY <1>5, LineFacts DEF IsStatement
<1>7. PICK n \in Nat : DOMAIN Line.args = 1..n
  BY <1>6, SeqLength
<1>8. GoodSoFar(p, 0, n, Operands!Folded(p, 0, s, Line.args))
  <2>1. GoodSoFar(p, 0, 0, s)
    BY <1>4 DEF GoodSoFar
  <2>2. \A acc : \A i \in 0..(n - 1) :
          GoodSoFar(p, 0, i, acc) => GoodSoFar(p, 0, i + 1, PutOperand(p, 0, acc, Line.args[i + 1]))
    BY <1>5, PutOperandKeeps DEF GoodSoFar
  <2> QED
    BY <1>7, <2>1, <2>2, Operands!FoldInvariant
<1>9. z' = Operands!Folded(p, 0, s, Line.args)
  BY <1>1, <1>2, <1>3 DEF Data, Operands!Folded, PutOperand, FoldLeft, MapThenFoldSet,
                          Operands!MapThenFoldSet, Max, Operands!Greatest
<1> QED
  BY <1>8, <1>9 DEF GoodSoFar

\* Instructions: the items of their words are emitted one after the other.
EmitNext(p, q, acc, item) == Emit(acc, item)
Items == INSTANCE FoldFacts WITH op <- EmitNext, P <- GoodSoFar

ItemsOK(seq) == IsSeq(seq) /\ \A x \in ToSet(seq) : IsItem(x)

LEMMA EmitAllKeeps ==
  ASSUME NEW s, Good(s), NEW seq, ItemsOK(seq)
  PROVE  Good(FoldLeft(Emit, s, seq))
<1>1. PICK n \in Nat : DOMAIN seq = 1..n /\ \A i \in 1..n : seq[i] \in ToSet(seq)
  BY SeqLength DEF ItemsOK
<1>2. GoodSoFar(0, 0, n, Items!Folded(0, 0, s, seq))
  <2>1. GoodSoFar(0, 0, 0, s)
    BY DEF GoodSoFar
  <2>2. \A acc : \A i \in 0..(n - 1) :
          GoodSoFar(0, 0, i, acc) => GoodSoFar(0, 0, i + 1, EmitNext(0, 0, acc, seq[i + 1]))
    <3> SUFFICES ASSUME NEW acc, NEW i \in 0..(n - 1), Good(acc) PROVE Good(Emit(acc, seq[i + 1]))
      BY DEF GoodSoFar, EmitNext
    <3>1. i + 1 \in 1..n
      OBVIOUS
    <3>2. seq[i + 1].len \in Nat
      BY <1>1, <3>1 DEF ItemsOK, IsItem
    <3> QED
      BY <3>2, EmitCarries DEF Carries
  <2> QED
    BY <1>1, <2>1, <2>2, Items!FoldInvariant
<1>3. FoldLeft(Emit, s, seq) = Items!Folded(0, 0, s, seq)
  BY DEF Items!Folded, EmitNext, FoldLeft, MapThenFoldSet, Items!MapThenFoldSet, Max, Items!Greatest
<1> QED
  BY <1>2, <1>3 DEF GoodSoFar

LEMMA ShortSequences ==
  ASSUME NEW a, NEW b
  PROVE  /\ IsSeq(<<a, b>>) /\ ToSet(<<a, b>>) = {a, b}
         /\ IsSeq(<<a>>) /\ ToSet(<<a>>) = {a}
<1>1. <<a, b>> \in Seq({a, b}) /\ <<a>> \in Seq({a})
  OBVIOUS
<1>2. ToSet(<<a, b>>) = {a, b}
  <2>1. DOMAIN <<a, b>> = 1..2 /\ <<a, b>>[1] = a /\ <<a, b>>[2] = b
    OBVIOUS
  <2> QED
    BY <2>1 DEF ToSet
<1>3. ToSet(<<a>>) = {a}
  <2>1. DOMAIN <<a>> = 1..1 /\ <<a>>[1] = a
    OBVIOUS
  <2> QED
    BY <2>1 DEF ToSet
<1> QED
  BY <1>1, <1>2, <1>3, SeqIsSeq

LEMMA Concatenated ==
  ASSUME NEW a, ItemsOK(a), NEW b, ItemsOK(b)
  PROVE  ItemsOK(a \o b)
<1> DEFINE T == {x \in ToSet(a) \cup ToSet(b) : IsItem(x)}
<1>1. a \in Seq(ToSet(a)) /\ b \in Seq(ToSet(b)) /\ ToSet(a) \subseteq T /\ ToSet(b) \subseteq T
  BY SeqLength DEF ItemsOK
<1>2. a \in Seq(T) /\ b \in Seq(T)
  BY <1>1
<1> HIDE DEF T
<1>3. a \o b \in Seq(T)
  BY <1>2
<1>4. PICK c : c = a \o b
  OBVIOUS
<1>5. IsSeq(c) /\ DOMAIN c = 1..Len(c) /\ \A i \in 1..Len(c) : c[i] \in T
  BY <1>3, <1>4, SeqIsSeq
<1>6. \A x \in ToSet(c) : x \in T
  BY <1>5 DEF ToSet
<1> QED
  BY <1>4, <1>5, <1>6 DEF ItemsOK, T

LEMMA ShortItems ==
  ASSUME NEW a, NEW b, IsItem(a), IsItem(b)
  PROVE  ItemsOK(<<a>>) /\ ItemsOK(<<a, b>>)
BY ShortSequences DEF ItemsOK

LEMMA OperandItems ==
  ASSUME NEW form, NEW r, NEW short
  PROVE  ItemsOK(Operand(form, r, short))
<1>1. Operand(form, r, short) \in {<<Address(r, short)>>, <<Address(r, TRUE)>>, <<Byte(r), Byte(r)>>, <<Word(r)>>,
                                   <<Long(r)>>, <<Item(2, r.val, NoReloc)>>, <<>>}
  BY DEF Operand
<1>3. ItemsOK(<<>>)
  BY EmptyText DEF ItemsOK
<1>4. IsItem(Item(2, r.val, NoReloc))
  BY PlainItem
<1>5. ItemsOK(<<Address(r, short)>>) /\ ItemsOK(<<Address(r, TRUE)>>) /\ ItemsOK(<<Byte(r), Byte(r)>>)
  BY ShortItems, ItemsAreItems
<1>6. ItemsOK(<<Word(r)>>) /\ ItemsOK(<<Long(r)>>) /\ ItemsOK(<<Item(2, r.val, NoReloc)>>)
  BY <1>4, ShortItems, ItemsAreItems
<1> QED
  BY <1>1, <1>3, <1>5, <1>6

LEMMA instrKeeps ==
  ASSUME InputOK, Good(z), instr
  PROVE  Good(z')
<1>1. PICK s : s = LabelHere(Even(Labelled), Line.lab)
  OBVIOUS
<1>2. PICK t : t = Mention(s, Arg)
  OBVIOUS
<1>3. PICK r : r = Eval(t, Arg)
  OBVIOUS
<1>4. PICK f : f = Line.form
  OBVIOUS
<1>5. PICK cs : cs = r.errs \cup (IF f \in Relative /\ (r.rel # t.cur.sec \/ ~ Near(f, r.val, t.cur.loc)) THEN {"E"} ELSE {})
  OBVIOUS
<1>6. PICK u : u = Errs(t, cs)
  OBVIOUS
<1>7. PICK first : first = <<Item(1, f, NoReloc), IF f = "byt1" THEN Byte(r) ELSE Item(1, f, NoReloc)>>
  OBVIOUS
<1>8. z' = (IF f = "nomatch" \/ Syntax(Arg) THEN Errs(u, {"O"}) ELSE FoldLeft(Emit, u, first \o Operand(f, r, Line.short)))
  BY <1>1, <1>2, <1>3, <1>4, <1>5, <1>6, <1>7 DEF instr
<1>9. Good(u)
  BY <1>1, <1>2, <1>6, LabelledReady, EvenReady, LabelReady, MentionReady, ErrsReady DEF Ready
<1>10. ItemsOK(first)
  <2>1. PICK b : b = (IF f = "byt1" THEN Byte(r) ELSE Item(1, f, NoReloc))
    OBVIOUS
  <2>2. PICK a : a = Item(1, f, NoReloc)
    OBVIOUS
  <2>3. IsItem(a)
    BY <2>2, PlainItem
  <2>4. IsItem(b)
    BY <2>1, <2>2, <2>3, ItemsAreItems
  <2>5. first = <<a, b>>
    BY <1>7, <2>1, <2>2
  <2> QED
    BY <2>3, <2>4, <2>5, ShortItems
<1>11. Good(FoldLeft(Emit, u, first \o Operand(f, r, Line.short)))
  BY <1>9, <1>10, OperandItems, Concatenated, EmitAllKeeps
<1>12. Good(Errs(u, {"O"}))
  BY <1>9, ErrsGood
<1> QED
  BY <1>8, <1>11, <1>12

LEMMA LoneLabelKeeps ==
  ASSUME Good(z), LoneLabel
  PROVE  Good(z')
BY LabelledReady, LabelReady DEF LoneLabel, Ready

LEMMA UnknownKeeps ==
  ASSUME Good(z), Unknown
  PROVE  Good(z')
<1>1. Good(err(z, "O")) /\ Good(err(Labelled, "O"))
  BY LabelledReady, errGood DEF Ready
<1> QED
  BY <1>1 DEF Unknown

LEMMA equKeeps ==
  ASSUME Good(z), equ
  PROVE  Good(z')
<1>1. PICK t : t = Mention(Labelled, Arg)
  OBVIOUS
<1>2. PICK r : r = Eval(t, Arg)
  OBVIOUS
<1>3. PICK typ : typ = (IF Line.op = "equ" THEN "lab" ELSE "var")
  OBVIOUS
<1>4. PICK u : u = Errs(t, r.errs \cup (IF Line.lab = 0 THEN {"L"} ELSE {}))
  OBVIOUS
<1>5. z' = IF Syntax(Arg) \/ (pass = 1 /\ r.errs # {}) THEN u ELSE assign(u, Line.lab, typ, r.val, r.rel)
  BY <1>1, <1>2, <1>3, <1>4 DEF equ
<1>6. Ready(t) /\ Ready(u)
  BY <1>1, <1>4, LabelledReady, MentionReady, ErrsReady
<1>7. CASE Syntax(Arg)
  BY <1>5, <1>6, <1>7 DEF Ready
<1>8. CASE ~ Syntax(Arg)
  <2>1. r.rel # RBUND
    BY <1>2, <1>6, <1>8, EvalPlaced DEF Ready, Good, Shape
  <2>2. typ \in {"lab", "var", "sec"}
    BY <1>3
  <2>3. Good(assignIn(pass, u, Line.lab, typ, r.val, r.rel))
    BY <1>6, <2>1, <2>2, assignKeeps DEF Ready
  <2> QED
    BY <1>5, <1>6, <2>3 DEF assign, Ready
<1> QED
  BY <1>7, <1>8

LEMMA ADALIGNKeeps ==
  ASSUME Good(z), ADALIGN
  PROVE  Good(z')
<1>1. PICK t : t = Mention(Labelled, Arg)
  OBVIOUS
<1>2. PICK r : r = Eval(t, Arg)
  OBVIOUS
<1>3. PICK u : u = Errs(t, r.errs)
  OBVIOUS
<1>4. PICK a : a = [u EXCEPT !.cur.aln = IF r.val > @ THEN r.val ELSE @, !.cur.loc = Aligned(@, r.val)]
  OBVIOUS
<1>5. z' = LabelHere(IF Absolute(r, 0, 32) THEN setorg(a) ELSE err(u, "E"), Line.lab)
  BY <1>1, <1>2, <1>3, <1>4 DEF ADALIGN
<1>6. Ready(u) /\ Ready(err(u, "E"))
  BY <1>1, <1>3, LabelledReady, MentionReady, ErrsReady DEF err
<1>7. Ready(setorg(a))
  <2>1. SameTables(u, a) /\ a.obj = u.obj
    BY <1>4, <1>6 DEF SameTables, Ready, Good, Shape
  <2>2. Ready(a)
    BY <1>6, <2>1, CurCarries, CarriesReady DEF Ready
  <2> QED
    BY <2>2, setorgCarries, CarriesReady DEF Ready
<1> QED
  BY <1>5, <1>6, <1>7, LabelReady DEF Ready

LEMMA ADWITHNKeeps ==
  ASSUME Good(z), ADWITHN
  PROVE  Good(z')
<1>1. PICK t : t = Mention(Labelled, Arg)
  OBVIOUS
<1>2. PICK r : r = Eval(t, Arg)
  OBVIOUS
<1>3. PICK u : u = Errs(t, r.errs)
  OBVIOUS
<1>4. PICK a : a = [u EXCEPT !.cur.ext = IF r.val < @ THEN r.val ELSE @]
  OBVIOUS
<1>5. z' = LabelHere(IF Absolute(r, 0, 32) THEN a ELSE err(u, "E"), Line.lab)
  BY <1>1, <1>2, <1>3, <1>4 DEF ADWITHN
<1>6. Ready(u) /\ Ready(err(u, "E"))
  BY <1>1, <1>3, LabelledReady, MentionReady, ErrsReady DEF err
<1>7. SameTables(u, a) /\ a.obj = u.obj
  BY <1>4, <1>6 DEF SameTables, Ready, Good, Shape
<1>8. Ready(a)
  BY <1>6, <1>7, CurCarries, CarriesReady DEF Ready
<1> QED
  BY <1>5, <1>6, <1>8, LabelReady DEF Ready

LEMMA ADBLOCKKeeps ==
  ASSUME Good(z), ADBLOCK
  PROVE  Good(z')
<1>1. PICK t : t = Mention(LabelHere(Labelled, Line.lab), Arg)
  OBVIOUS
<1>2. PICK r : r = Eval(t, Arg)
  OBVIOUS
<1>3. PICK u : u = Errs(t, r.errs)
  OBVIOUS
<1>4. PICK a : a = [u EXCEPT !.cur.loc = @ + r.val]
  OBVIOUS
<1>5. z' = IF r.rel = RBABS THEN setorg(a) ELSE err(u, "E")
  BY <1>1, <1>2, <1>3, <1>4 DEF ADBLOCK
<1>6. Good(u) /\ Good(err(u, "E"))
  BY <1>1, <1>3, LabelledReady, LabelReady, MentionReady, ErrsReady, errGood DEF Ready
<1>7. SameTables(u, a) /\ a.obj = u.obj
  BY <1>4, <1>6 DEF SameTables, Good, Shape
<1>8. Good(setorg(a))
  BY <1>6, <1>7, CurCarries, setorgCarries DEF Carries
<1> QED
  BY <1>5, <1>6, <1>8

LEMMA ADORGKeeps ==
  ASSUME Good(z), ADORG
  PROVE  Good(z')
<1>1. PICK t : t = Mention(Labelled, Arg)
  OBVIOUS
<1>2. PICK r : r = Eval(t, Arg)
  OBVIOUS
<1>3. PICK u : u = Errs(t, r.errs)
  OBVIOUS
<1>4. PICK a : a = [u EXCEPT !.cur.loc = r.val]
  OBVIOUS
<1>5. z' = IF r.rel = u.cur.sec THEN setorg(assign(a, Line.lab, "lab", r.val, r.rel)) ELSE err(u, "E")
  BY <1>1, <1>2, <1>3, <1>4 DEF ADORG
<1>6. Ready(u) /\ Good(err(u, "E"))
  BY <1>1, <1>3, LabelledReady, MentionReady, ErrsReady, errGood DEF Ready
<1>7. SameTables(u, a) /\ a.obj = u.obj
  BY <1>4, <1>6 DEF SameTables, Ready, Good, Shape
<1>8. Ready(a)
  BY <1>6, <1>7, CurCarries, CarriesReady DEF Ready
<1>9. ASSUME r.rel = u.cur.sec PROVE Good(setorg(assign(a, Line.lab, "lab", r.val, r.rel)))
  <2>1. r.rel # RBUND /\ "lab" \in {"lab", "var", "sec"}
    BY <1>6, <1>9 DEF Ready, Good, Shape
  <2>2. Good(assignIn(pass, a, Line.lab, "lab", r.val, r.rel))
    BY <1>8, <2>1, assignKeeps DEF Ready
  <2> QED
    BY <2>2, setorgCarries DEF assign, Carries
<1> QED
  BY <1>5, <1>6, <1>9

LEMMA ADABSKeeps ==
  ASSUME Good(z), ADABS
  PROVE  Good(z')
<1>1. 0 # RBUND
  BY DEF RBUND
<1>2. Good(setsec(Labelled, 0)) /\ Names(setsec(Labelled, 0)) = Names(Labelled)
  BY <1>1, LabelledReady, setsecKeeps DEF Ready
<1>3. Ready(setsec(Labelled, 0))
  BY <1>2, LabelledReady DEF Ready, Known
<1> QED
  BY <1>3, LabelReady DEF ADABS, Ready

LEMMA ADSECTKeeps ==
  ASSUME Good(z), ADSECT
  PROVE  Good(z')
<1>1. PICK s : s = Section(Labelled, Line.lab)
  OBVIOUS
<1>2. PICK c : c = [s EXCEPT !.cur.atr = @ \cup {"com"}]
  OBVIOUS
<1>3. z' = IF Line.lab = 0 THEN err(z, "L") ELSE IF Line.op = "common" THEN c ELSE s
  BY <1>1, <1>2 DEF ADSECT
<1>4. Good(err(z, "L"))
  BY errGood
<1>5. ASSUME Line.lab # 0 PROVE Good(s) /\ Good(c)
  <2>1. Line.lab \in Names(Labelled)
    BY <1>5, LabelledReady DEF Ready, Known
  <2>2. Good(s)
    BY <1>1, <2>1, LabelledReady, SectionKeeps DEF Ready
  <2>3. SameTables(s, c) /\ c.obj = s.obj
    BY <1>2, <2>2 DEF SameTables, Good, Shape
  <2> QED
    BY <2>2, <2>3, CurCarries DEF Carries
<1> QED
  BY <1>3, <1>4, <1>5

LEMMA ADGLOBKeeps ==
  ASSUME Good(z), ADGLOB
  PROVE  Good(z')
<1>1. PICK n : n = Arg.l.n
  OBVIOUS
<1>2. PICK s : s = Entered(Labelled, {n})
  OBVIOUS
<1>3. PICK t : t = [s EXCEPT !.sym[n].glo = TRUE]
  OBVIOUS
<1>4. z' = t
  BY <1>1, <1>2, <1>3 DEF ADGLOB
<1>5. Good(s)
  <2>1. IsFiniteSet({n})
    BY FS_Singleton
  <2> QED
    BY <1>2, <2>1, LabelledReady, EnteredKeeps DEF Ready
<1>6. /\ t.sym = [s.sym EXCEPT ![n] = [s.sym[n] EXCEPT !.glo = TRUE]] /\ t.errs = s.errs /\ t.placed = s.placed
      /\ t.used = s.used /\ t.obj = s.obj /\ t.secct = s.secct /\ DOMAIN t = DOMAIN s /\ t.cur = s.cur
  BY <1>3, <1>5 DEF Good, Shape
<1>7. Shape(t)
  BY <1>5, <1>6 DEF Good, Shape
<1>8. DOMAIN t.sym = DOMAIN s.sym
  BY <1>6
<1>9. \A m \in DOMAIN s.sym : /\ DOMAIN t.sym[m] = DOMAIN s.sym[m] /\ t.sym[m].typ = s.sym[m].typ
                              /\ t.sym[m].rel = s.sym[m].rel /\ t.sym[m].val = s.sym[m].val
  BY <1>5, <1>6 DEF Good, SymTable
<1>10. SymTable(t) /\ Keeps(s, t)
  BY <1>5, <1>8, <1>9 DEF Good, SymTable, Keeps
<1>11. Good(t)
  BY <1>5, <1>6, <1>7, <1>10, Grows
<1> QED
  BY <1>4, <1>11

\* .end: the transfer address is no symbol.
LEMMA ADENDKeeps ==
  ASSUME Good(z), ADEND
  PROVE  Good(z')
<1>1. PICK t : t = IF Line.args = <<>> THEN Labelled ELSE Mention(Labelled, Arg)
  OBVIOUS
<1>2. PICK r : r = Eval(t, Arg)
  OBVIOUS
<1>3. PICK f : f = oflush(Errs(t, r.errs))
  OBVIOUS
<1>4. PICK e : e = [f EXCEPT !.obj.typ = "tra", !.obj.bytes = 6, !.obj.text = <<r.val, r.rel>>]
  OBVIOUS
<1>w. PICK w : w = <<r.val, r.rel>> /\ IsSeq(w)
  BY ShortSequences
<1>5. z' = IF pass = 1 \/ Line.args = <<>> THEN t ELSE e
  BY <1>1, <1>2, <1>3, <1>4 DEF ADEND
<1>6. Good(t)
  BY <1>1, LabelledReady, MentionReady DEF Ready
<1>7. Good(f)
  BY <1>3, <1>6, ErrsGood, oflushCarries DEF Carries
<1>8. Good(e)
  <2>1. /\ SameTables(f, e) /\ {"out", "typ", "text"} \subseteq DOMAIN e.obj
        /\ e.obj.out = f.obj.out /\ e.obj.typ = "tra" /\ e.obj.text = w
    BY <1>4, <1>7, <1>w DEF SameTables, Good, Shape
  <2>2. IsSeq(e.obj.text) /\ IsSeq(e.obj.out)
    BY <1>7, <1>w, <2>1 DEF Good, Shape
  <2>3. \A row : IsRow(e.obj, row) => IsRow(f.obj, row)
    BY <2>1, NoRows DEF SymbolBlocks
  <2> QED
    BY <1>7, <2>1, <2>2, <2>3, SameTablesGood DEF Carries
<1> QED
  BY <1>5, <1>6, <1>8

LEMMA ADIFKeeps ==
  ASSUME Good(z), ADIF
  PROVE  Good(z')
<1>1. PICK t : t = Mention(Labelled, Arg)
  OBVIOUS
<1>2. PICK r : r = Eval(t, Arg)
  OBVIOUS
<1>3. z' = Errs(t, r.errs \cup (IF r.rel # 0 THEN {"E"} ELSE {}))
  BY <1>1, <1>2 DEF ADIF
<1>4. Good(t)
  BY <1>1, LabelledReady, MentionReady DEF Ready
<1> QED
  BY <1>3, <1>4, ErrsGood

LEMMA ADREPTKeeps ==
  ASSUME Good(z), ADREPT
  PROVE  Good(z')
<1>1. PICK t : t = Mention(Labelled, Arg)
  OBVIOUS
<1>2. PICK r : r = Eval(t, Arg)
  OBVIOUS
<1>3. z' = Errs(t, r.errs \cup (IF r.rel = RBABS /\ r.val <= 255 THEN {} ELSE {"E"}))
  BY <1>1, <1>2 DEF ADREPT
<1>4. Good(t)
  BY <1>1, LabelledReady, MentionReady DEF Ready
<1> QED
  BY <1>3, <1>4, ErrsGood

LEMMA FatalGood ==
  ASSUME NEW s, Good(s), NEW b
  PROVE  Good([s EXCEPT !.fatal = b])
<1>1. PICK t : t = [s EXCEPT !.fatal = b]
  OBVIOUS
<1>2. /\ t.sym = s.sym /\ t.errs = s.errs /\ t.placed = s.placed /\ t.used = s.used /\ t.obj = s.obj
      /\ t.secct = s.secct /\ DOMAIN t = DOMAIN s /\ t.cur = s.cur
  BY <1>1 DEF Good, Shape
<1>3. Shape(t)
  BY <1>2 DEF Good, Shape
<1> QED
  BY <1>1, <1>2, <1>3, SameRows

\* Conditionals, macros, repeats and .input: the label and an error letter at most.
LEMMA OtherKeeps ==
  ASSUME Good(z), ADELSE \/ ADENDIF \/ ADMAC \/ macro \/ ADEXIT \/ ADINPUT
  PROVE  Good(z')
<1>1. Good(Labelled)
  BY LabelledReady DEF Ready
<1>2. \A c : Good(err(Labelled, c)) /\ Good(err(z, c))
  BY <1>1, errGood
<1>3. Good(Full) /\ Good([Labelled EXCEPT !.fatal = Len(inp.stack) >= INSIZ])
  BY <1>1, FatalGood DEF Full
<1>4. CASE ADELSE
  BY <1>1, <1>2, <1>4 DEF ADELSE
<1>5. CASE ADENDIF
  BY <1>1, <1>2, <1>5 DEF ADENDIF
<1>6. CASE ADMAC
  BY <1>2, <1>6 DEF ADMAC
<1>7. CASE macro
  BY <1>2, <1>3, <1>7 DEF macro
<1>8. CASE ADEXIT
  BY <1>1, <1>2, <1>8 DEF ADEXIT
<1>9. CASE ADINPUT
  BY <1>2, <1>3, <1>9 DEF ADINPUT
<1> QED
  BY <1>4, <1>5, <1>6, <1>7, <1>8, <1>9

LEMMA interludeKeeps ==
  ASSUME Good(z), interlude
  PROVE  Good(z')
<1>1. PICK s : s = InterludeBlocks(setsec(z, 0))
  OBVIOUS
<1>2. Good(s)
  BY <1>1, setsecKeeps, InterludeBlocksKeep DEF RBUND
<1>3. z' = s \/ z' = Begin(2, s)
  BY <1>1 DEF interlude
<1> QED
  BY <1>2, <1>3, BeginKeeps

LEMMA finishKeeps ==
  ASSUME Good(z), finish
  PROVE  Good(z')
<1>1. PICK f : f = oflush(setsec(z, 0))
  OBVIOUS
<1>2. PICK b : b = [typ |-> "end", sec |-> 0, loc |-> 0, text |-> <<>>, rels |-> <<>>]
  OBVIOUS
<1>3. PICK e : e = [f EXCEPT !.obj.out = Append(@, b)]
  OBVIOUS
<1>4. z' = e
  BY <1>1, <1>2, <1>3 DEF finish
<1>5. Good(f)
  BY <1>1, setsecKeeps, oflushCarries DEF RBUND, Carries
<1>6. /\ SameTables(f, e) /\ {"out", "typ", "text"} \subseteq DOMAIN e.obj
      /\ e.obj.out = Append(f.obj.out, b) /\ e.obj.typ = f.obj.typ /\ e.obj.text = f.obj.text
  BY <1>3, <1>5 DEF SameTables, Good, Shape
<1>7. IsSeq(f.obj.out) /\ IsSeq(f.obj.text)
  BY <1>5 DEF Good, Shape
<1>8. IsSeq(e.obj.out) /\ \A c : c \in ToSet(e.obj.out) => c \in ToSet(f.obj.out) \/ c = b
  BY <1>6, <1>7, AppendedRange
<1>9. b.typ \notin SymbolBlocks
  BY <1>2 DEF SymbolBlocks
<1>10. \A r : IsRow(e.obj, r) => IsRow(f.obj, r)
  BY <1>6, <1>8, <1>9 DEF IsRow, ToSet
<1>11. Good(e)
  BY <1>5, <1>6, <1>7, <1>8, <1>10, SameTablesGood DEF Carries
<1> QED
  BY <1>4, <1>11

LEMMA rpt1Keeps ==
  ASSUME Good(z), rpt1
  PROVE  Good(z')
BY FatalGood DEF rpt1, Full

-----------------------------------------------------------------------------
(* Every step keeps the texts whole.                                       *)

LEMMA MoreInput ==
  ASSUME InputOK, NEW i, DOMAIN i = DOMAIN inp, StackOK(i.stack), i.macros = inp.macros, i.rpttext = inp.rpttext, inp' = i
  PROVE  InputOK'
BY DEF InputOK

LEMMA fillinInput ==
  ASSUME InputOK, fillin
  PROVE  InputOK'
<1>1. IsFrame(Top) /\ StackOK(Under)
  BY TopFacts DEF fillin
<1>2. PICK t : t = Top
  OBVIOUS
<1>3. PICK f : f = [t EXCEPT !.pos = 1, !.rpt = @ - 1]
  OBVIOUS
<1>4. IsFrame(f)
  BY <1>1, <1>2, <1>3 DEF IsFrame
<1>5. PICK stack : stack = IF t.typ = "rpt" /\ t.rpt # 0 THEN Append(Under, f) ELSE Under
  OBVIOUS
<1>6. StackOK(stack)
  BY <1>1, <1>4, <1>5, AppendFrame
<1>7. PICK i : i = [inp EXCEPT !.stack = stack]
  OBVIOUS
<1>8. inp' = i
  BY <1>2, <1>3, <1>5, <1>7 DEF fillin
<1>9. DOMAIN i = DOMAIN inp /\ i.stack = stack /\ i.macros = inp.macros /\ i.rpttext = inp.rpttext
  BY <1>7 DEF InputOK
<1> QED
  BY <1>6, <1>8, <1>9, MoreInput

\* Most statements only read on; those that change more are the next lemmas.
LEMMA ReadInput ==
  ASSUME InputOK, HasStatement, Read \/ ADEND \/ ADIF \/ ADELSE \/ ADENDIF \/ ADEXIT \/ skip1
  PROVE  InputOK'
<1>1. StackOK(Advance) /\ StackOK(Under)
  BY LineFacts
<1>2. /\ DOMAIN inp' = DOMAIN inp /\ inp'.stack \in {Advance, Under}
      /\ inp'.macros = inp.macros /\ inp'.rpttext = inp.rpttext
  <2>1. CASE Read
    BY <2>1 DEF Read, InputOK
  <2>2. CASE ADEND
    BY <2>2 DEF ADEND, InputOK
  <2>3. CASE ADIF
    BY <2>3 DEF ADIF, InputOK
  <2>4. CASE ADELSE
    BY <2>4 DEF ADELSE, InputOK
  <2>5. CASE ADENDIF
    BY <2>5 DEF ADENDIF, InputOK
  <2>6. CASE ADEXIT
    BY <2>6 DEF ADEXIT, InputOK
  <2>7. CASE skip1
    <3>1. PICK i : i = [inp EXCEPT !.stack = Advance]
      OBVIOUS
    <3>2. inp' \in {[i EXCEPT !.cond = @ + 1], SkipElse(i), [i EXCEPT !.cond = @ - 1], i}
      BY <2>7, <3>1 DEF skip1
    <3>3. DOMAIN i = DOMAIN inp /\ i.stack = Advance /\ i.macros = inp.macros /\ i.rpttext = inp.rpttext
      BY <3>1 DEF InputOK
    <3>4. SkipElse(i) \in {[i EXCEPT !.true = @ + 1], i}
      BY DEF SkipElse
    <3> QED
      BY <3>2, <3>3, <3>4 DEF InputOK
  <2> QED
    BY <2>1, <2>2, <2>3, <2>4, <2>5, <2>6, <2>7
<1>3. PICK i : i = inp'
  OBVIOUS
<1>4. StackOK(i.stack)
  BY <1>1, <1>2, <1>3
<1> QED
  BY <1>2, <1>3, <1>4, MoreInput

LEMMA def1Input ==
  ASSUME InputOK, def1
  PROVE  InputOK'
<1>1. IsStatement(Line) /\ StackOK(Advance)
  BY LineFacts DEF def1
<1>2. PICK lev : lev = inp.def + Deeper(Line, "macro", "endm")
  OBVIOUS
<1>3. PICK n : n = inp.curdef
  OBVIOUS
<1>4. PICK text : text = IF lev > 0 THEN Append(inp.macros[n], Line) ELSE inp.macros[n]
  OBVIOUS
<1>5. inp' = [inp EXCEPT !.stack = Advance, !.def = lev, !.macros[n] = text]
  BY <1>2, <1>3, <1>4 DEF def1
<1>6. n \in DOMAIN inp.macros => IsTextOf(text)
  BY <1>1, <1>4, AppendText DEF InputOK
<1>7. /\ DOMAIN inp' = DOMAIN inp /\ inp'.stack = Advance /\ inp'.rpttext = inp.rpttext
      /\ inp'.macros = [inp.macros EXCEPT ![n] = text]
  BY <1>5 DEF InputOK
<1> QED
  BY <1>1, <1>6, <1>7 DEF InputOK

LEMMA rpt1Input ==
  ASSUME InputOK, rpt1
  PROVE  InputOK'
<1>1. IsStatement(Line) /\ StackOK(Advance)
  BY LineFacts DEF rpt1
<1>2. PICK t : t = inp.rpttext
  OBVIOUS
<1>3. PICK more : more = Append(t, Line)
  OBVIOUS
<1>4. IsTextOf(t) /\ IsTextOf(more)
  BY <1>1, <1>2, <1>3, AppendText DEF InputOK
<1>5. PICK f : f = Frame("rpt", t, Len(t) + 1, inp.rptct, Top.ct)
  OBVIOUS
<1>6. IsFrame(f)
  <2>1. PICK n \in Nat : n = Len(t)
    BY <1>4, TextIsSeq, SeqLength
  <2>2. "text" \in DOMAIN f /\ "pos" \in DOMAIN f /\ f.text = t /\ f.pos = n + 1
    BY <1>5, <2>1 DEF Frame
  <2> QED
    BY <1>4, <2>1, <2>2 DEF IsFrame
<1>7. StackOK(Push(Advance, f))
  BY <1>1, <1>6, AppendFrame
<1>8. \/ \E lev : inp' = [inp EXCEPT !.stack = Advance, !.rpt = lev, !.rpttext = more]
      \/ inp' = [inp EXCEPT !.stack = Push(Advance, f), !.rpt = 0]
  BY <1>2, <1>3, <1>5 DEF rpt1
<1>9. /\ DOMAIN inp' = DOMAIN inp /\ inp'.stack \in {Advance, Push(Advance, f)}
      /\ inp'.rpttext \in {t, more} /\ inp'.macros = inp.macros
  BY <1>2, <1>8 DEF InputOK
<1> QED
  BY <1>1, <1>4, <1>7, <1>9 DEF InputOK

LEMMA macroInput ==
  ASSUME InputOK, ADMAC \/ macro \/ ADREPT \/ ADINPUT
  PROVE  InputOK'
<1>1. StackOK(Advance)
  <2>1. HasStatement
    BY DEF ADMAC, macro, ADREPT, ADINPUT, Assemble
  <2> QED
    BY <2>1, LineFacts
<1>2. CASE ADMAC
  <2>1. PICK n : n = Line.lab
    OBVIOUS
  <2>2. PICK new : new = [m \in DOMAIN inp.macros \cup {n} |-> IF m = n THEN <<>> ELSE inp.macros[m]]
    OBVIOUS
  <2>3. \/ inp' = [inp EXCEPT !.stack = Advance]
        \/ inp' = [inp EXCEPT !.stack = Advance, !.def = 1, !.curdef = n, !.macros = new]
    BY <1>2, <2>1, <2>2 DEF ADMAC
  <2>4. /\ DOMAIN inp' = DOMAIN inp /\ inp'.stack = Advance /\ inp'.rpttext = inp.rpttext
        /\ inp'.macros \in {inp.macros, new}
    BY <2>3 DEF InputOK
  <2>5. \A m \in DOMAIN new : IsTextOf(new[m])
    BY <2>2, EmptyText DEF InputOK
  <2> QED
    BY <1>1, <2>4, <2>5 DEF InputOK
<1>3. CASE macro
  <2>1. PICK f : f = Frame("mac", inp.macros[Line.name], 1, 0, inp.mexct + 1)
    OBVIOUS
  <2>2. Line.name \in DOMAIN inp.macros => IsFrame(f)
    BY <2>1 DEF InputOK, Frame, IsFrame
  <2>3. PICK deep : deep = Push(Advance, f)
    OBVIOUS
  <2>4. Line.name \in DOMAIN inp.macros => StackOK(deep)
    BY <1>1, <2>2, <2>3, AppendFrame
  <2>5. \/ inp' = [inp EXCEPT !.stack = Advance]
        \/ Line.name \in DOMAIN inp.macros /\ inp' = [inp EXCEPT !.stack = deep, !.mexct = @ + 1]
    BY <1>3, <2>1, <2>3 DEF macro, Read
  <2>6. /\ DOMAIN inp' = DOMAIN inp /\ inp'.rpttext = inp.rpttext /\ inp'.macros = inp.macros
        /\ inp'.stack = Advance \/ (Line.name \in DOMAIN inp.macros /\ inp'.stack = deep)
    BY <2>5 DEF InputOK
  <2>7. StackOK(inp'.stack)
    BY <1>1, <2>4, <2>6
  <2> QED
    BY <2>6, <2>7 DEF InputOK
<1>4. CASE ADREPT
  <2>1. /\ DOMAIN inp' = DOMAIN inp /\ inp'.stack = Advance /\ inp'.macros = inp.macros /\ inp'.rpttext = <<>>
    BY <1>4 DEF ADREPT, InputOK
  <2> QED
    BY <1>1, <2>1, EmptyText DEF InputOK
<1>5. CASE ADINPUT
  <2>1. PICK f : f = Frame("file", Files[Line.name], 1, 0, 0)
    OBVIOUS
  <2>2. Line.name \in DOMAIN Files => IsFrame(f)
    BY <2>1, SourcesAssumption DEF Frame, IsFrame
  <2>3. inp' = [inp EXCEPT !.stack = IF Line.name \in DOMAIN Files THEN Push(Advance, f) ELSE Advance]
    BY <1>5, <2>1 DEF ADINPUT
  <2>4. StackOK(inp'.stack)
    BY <1>1, <2>2, <2>3, AppendFrame DEF InputOK
  <2>5. DOMAIN inp' = DOMAIN inp /\ inp'.rpttext = inp.rpttext /\ inp'.macros = inp.macros
    BY <2>3 DEF InputOK
  <2> QED
    BY <2>4, <2>5 DEF InputOK
<1> QED
  BY <1>2, <1>3, <1>4, <1>5

LEMMA dopassInput ==
  ASSUME NEW macros, \A n \in DOMAIN macros : IsTextOf(macros[n]), NEW text, IsTextOf(text),
         inp' = dopass(macros, text)
  PROVE  InputOK'
<1>1. PICK f : f = Frame("file", text, 1, 0, 0)
  OBVIOUS
<1>2. IsFrame(f)
  BY <1>1 DEF Frame, IsFrame
<1>3. PICK stack : stack = <<f>> /\ IsSeq(stack) /\ ToSet(stack) = {f}
  BY ShortSequences
<1>4. StackOK(stack)
  BY <1>2, <1>3 DEF StackOK
<1>5. {"stack", "macros", "rpttext"} \subseteq DOMAIN inp' /\ inp'.stack = stack /\ inp'.macros = macros /\ inp'.rpttext = <<>>
  BY <1>1, <1>3 DEF dopass
<1> QED
  BY <1>4, <1>5, EmptyText DEF InputOK

-----------------------------------------------------------------------------
(* Labels agree.                                                           *)

AsmInv == InputOK /\ Good(z) /\ asm.src \in Sources

LEMMA StartGood == Good(Start)
<1>1. IsSeq(<<>>) /\ \A x : x \notin ToSet(<<>>)
  BY EmptyText
<1>2. Shape(Start)
  BY <1>1 DEF Start, Shape, NewCur, NoObject, RBUND
<1>3. DOMAIN Start.sym = {} /\ Start.placed = {} /\ Start.used = {} /\ Start.obj = NoObject
  BY DEF Start
<1>4. SymTable(Start)
  BY <1>3, FS_EmptySet DEF SymTable
<1>5. \A r : ~ IsRow(NoObject, r)
  <2>1. NoObject.out = <<>> /\ NoObject.typ = "none"
    BY DEF NoObject
  <2> QED
    BY <2>1 DEF IsRow, SymbolBlocks
<1> QED
  BY <1>2, <1>3, <1>4, <1>5 DEF Good, PlacedHold, UsedHold, RowsHold

LEMMA AsmInit == AssemblerInit => AsmInv
<1> SUFFICES ASSUME AssemblerInit PROVE AsmInv
  OBVIOUS
<1>1. asm.src \in Sources
  BY DEF AssemblerInit
<1>2. Good(z)
  BY StartGood, BeginKeeps DEF AssemblerInit
<1>3. InputOK
  <2>1. PICK f : f = Frame("file", asm.src, 1, 0, 0)
    OBVIOUS
  <2>2. IsFrame(f)
    BY <1>1, <2>1, SourcesAssumption DEF Frame, IsFrame
  <2>3. PICK stack : stack = <<f>> /\ IsSeq(stack) /\ ToSet(stack) = {f}
    BY ShortSequences
  <2>4. /\ {"stack", "macros", "rpttext"} \subseteq DOMAIN inp /\ inp.stack = stack /\ DOMAIN inp.macros = {}
        /\ inp.rpttext = <<>>
    BY <2>1, <2>3 DEF AssemblerInit, dopass
  <2> QED
    BY <2>2, <2>3, <2>4, EmptyText DEF InputOK, StackOK
<1> QED
  BY <1>1, <1>2, <1>3 DEF AsmInv

LEMMA AsmStep == AsmInv /\ [AssemblerNext]_avars => AsmInv'
<1> SUFFICES ASSUME AsmInv, [AssemblerNext]_avars PROVE AsmInv'
  OBVIOUS
<1>1. InputOK /\ Good(z) /\ asm.src \in Sources
  BY DEF AsmInv
<1>2. ASSUME UNCHANGED <<asm, inp, z>> PROVE AsmInv'
  BY <1>1, <1>2 DEF AsmInv, InputOK
<1>3. CASE UNCHANGED avars
  BY <1>2, <1>3 DEF avars
<1>4. CASE fillin
  BY <1>1, <1>4, fillinInput DEF AsmInv, fillin
<1>5. CASE def1
  BY <1>1, <1>5, def1Input DEF AsmInv, def1
<1>6. CASE rpt1
  BY <1>1, <1>6, rpt1Input, rpt1Keeps DEF AsmInv, rpt1
<1>7. CASE skip1
  BY <1>1, <1>7, ReadInput DEF AsmInv, skip1
<1>8. ASSUME HasStatement, Read, Good(z'), asm' = asm PROVE AsmInv'
  BY <1>1, <1>8, ReadInput DEF AsmInv
<1>9. CASE LoneLabel
  BY <1>1, <1>8, <1>9, LoneLabelKeeps DEF LoneLabel, Assemble, Same
<1>10. CASE Data
  BY <1>1, <1>8, <1>10, DataKeeps DEF Data, Assemble, Same
<1>11. CASE instr
  BY <1>1, <1>8, <1>11, instrKeeps DEF instr, Assemble, Same
<1>12. CASE Unknown
  BY <1>1, <1>8, <1>12, UnknownKeeps DEF Unknown, Assemble, Same
<1>13. CASE equ
  BY <1>1, <1>8, <1>13, equKeeps DEF equ, Assemble, Same
<1>14. CASE ADALIGN
  BY <1>1, <1>8, <1>14, ADALIGNKeeps DEF ADALIGN, Assemble, Same
<1>15. CASE ADWITHN
  BY <1>1, <1>8, <1>15, ADWITHNKeeps DEF ADWITHN, Assemble, Same
<1>16. CASE ADBLOCK
  BY <1>1, <1>8, <1>16, ADBLOCKKeeps DEF ADBLOCK, Assemble, Same
<1>17. CASE ADORG
  BY <1>1, <1>8, <1>17, ADORGKeeps DEF ADORG, Assemble, Same
<1>18. CASE ADABS
  BY <1>1, <1>8, <1>18, ADABSKeeps DEF ADABS, Assemble, Same
<1>19. CASE ADSECT
  BY <1>1, <1>8, <1>19, ADSECTKeeps DEF ADSECT, Assemble, Same
<1>20. CASE ADGLOB
  BY <1>1, <1>8, <1>20, ADGLOBKeeps DEF ADGLOB, Assemble, Same
<1>21. CASE ADEND
  <2>1. HasStatement /\ asm' = asm
    BY <1>21 DEF ADEND, Assemble, Same
  <2> QED
    BY <1>1, <1>21, <2>1, ReadInput, ADENDKeeps DEF AsmInv
<1>22. CASE ADIF
  <2>1. HasStatement /\ asm' = asm
    BY <1>22 DEF ADIF, Assemble, Same
  <2> QED
    BY <1>1, <1>22, <2>1, ReadInput, ADIFKeeps DEF AsmInv
<1>23. CASE ADELSE \/ ADENDIF \/ ADEXIT
  <2>1. HasStatement /\ asm' = asm
    BY <1>23 DEF ADELSE, ADENDIF, ADEXIT, Assemble, Same
  <2> QED
    BY <1>1, <1>23, <2>1, ReadInput, OtherKeeps DEF AsmInv
<1>24. CASE ADMAC \/ macro \/ ADINPUT
  <2>1. asm' = asm
    BY <1>24 DEF ADMAC, macro, ADINPUT, Same
  <2> QED
    BY <1>1, <1>24, <2>1, macroInput, OtherKeeps DEF AsmInv
<1>25. CASE ADREPT
  <2>1. asm' = asm
    BY <1>25 DEF ADREPT, Same
  <2> QED
    BY <1>1, <1>25, <2>1, macroInput, ADREPTKeeps DEF AsmInv
<1>26. CASE interlude
  <2>1. asm' = asm /\ Good(z')
    BY <1>1, <1>26, interludeKeeps DEF interlude
  <2>2. UNCHANGED inp \/ inp' = dopass(inp.macros, asm.src)
    BY <1>26 DEF interlude
  <2>3. CASE UNCHANGED inp
    BY <1>1, <2>1, <2>3 DEF AsmInv, InputOK
  <2>4. CASE inp' = dopass(inp.macros, asm.src)
    <3>1. IsTextOf(asm.src) /\ \A n \in DOMAIN inp.macros : IsTextOf(inp.macros[n])
      BY <1>1, SourcesAssumption DEF InputOK
    <3>2. InputOK'
      BY <2>4, <3>1, dopassInput
    <3> QED
      BY <1>1, <2>1, <3>2 DEF AsmInv
  <2> QED
    BY <2>2, <2>3, <2>4
<1>27. CASE finish
  <2>1. Good(z') /\ UNCHANGED <<asm, inp>>
    BY <1>1, <1>27, finishKeeps DEF finish
  <2> QED
    BY <1>1, <2>1 DEF AsmInv, InputOK
<1> QED
  BY <1>3, <1>4, <1>5, <1>6, <1>7, <1>9, <1>10, <1>11, <1>12, <1>13, <1>14, <1>15, <1>16, <1>17, <1>18, <1>19,
     <1>20, <1>21, <1>22, <1>23, <1>24, <1>25, <1>26, <1>27 DEF AssemblerNext

LEMMA GoodAgrees == Good(z) => AddressesAgree
<1> SUFFICES ASSUME Good(z), z.errs = {}, NEW p \in z.placed, NEW u \in z.used \cup {e \in Exported : e.rel # RBUND},
                    u.name = p.name, z.sym[p.name].typ = "lab"
             PROVE  u.val = p.val /\ u.rel = p.rel
  BY DEF AddressesAgree
<1>1. IsAt(z, p)
  BY DEF Good, PlacedHold
<1>2. IsAt(z, u)
  <2>1. CASE u \in z.used
    BY <2>1 DEF Good, UsedHold
  <2>2. CASE u \in Exported /\ u.rel # RBUND
    <3>1. PICK i \in DOMAIN z.obj.out : z.obj.out[i].typ \in SymbolBlocks /\ u \in ToSet(z.obj.out[i].text)
      BY <2>2 DEF Exported, SymbolBlocks
    <3>2. IsRow(z.obj, u)
      BY <3>1 DEF IsRow
    <3>3. RowHolds(z, u)
      BY <3>2 DEF Good, RowsHold
    <3> QED
      BY <2>2, <3>3 DEF RowHolds
  <2> QED
    BY <2>1, <2>2
<1> QED
  BY <1>1, <1>2 DEF IsAt

AssemblerSpec == AssemblerInit /\ [][AssemblerNext]_avars

\* For every source text, every file that .input names and every setting of the limits: when
\* asz8k ends without an error, where pass 2 put a label is what pass 1 exported for the
\* linker and what pass 2 read wherever the label is used.
THEOREM AddressesAgreeTheorem == AssemblerSpec => []AddressesAgree
<1>1. AsmInv => AddressesAgree
  BY GoodAgrees DEF AsmInv
<1> HIDE DEF AsmInv
<1> QED
  BY <1>1, AsmInit, AsmStep, PTL DEF AssemblerSpec

-----------------------------------------------------------------------------
(* What pass 2 has emitted.                                                *)

\* The fields that the proof reads, and the types of places.
IsCur(c) == {"sec", "loc"} \subseteq DOMAIN c /\ c.loc \in Int
IsSymbol(e) == {"typ", "val", "rel"} \subseteq DOMAIN e /\ e.val \in Int /\ (e.typ = "sec" => e.rel \in 0..SECSIZ)
Typed(s) ==
  /\ {"cur", "secct", "sectab", "sym", "obj", "image"} \subseteq DOMAIN s
  /\ IsCur(s.cur) /\ s.secct \in Nat
  /\ DOMAIN s.sectab = 0..SECSIZ /\ \A n \in 0..SECSIZ : "loc" \in DOMAIN s.sectab[n] /\ s.sectab[n].loc \in Int
  /\ \A n \in DOMAIN s.sym : IsSymbol(s.sym[n])

\* A text block in which the last item lacks k bytes, for which there is room.
RelocOK(r, k, n) == r.off \in 6..(5 + n) /\ Width(r.rl.act) \in 1..4 /\ r.off + Width(r.rl.act) <= 6 + n + k
BlockOK(b, k) ==
  /\ b.loc \in Int /\ IsSeq(b.text) /\ IsSeq(b.rels)
  /\ \A r \in ToSet(b.rels) : RelocOK(r, k, Len(b.text))
  /\ 6 + Len(b.text) + 3 * Len(b.rels) + k <= OBJSIZ

\* The block in memory: where its text ends, the next byte belongs.
OpenOK(o, k) == o.typ = "text" =>
  BlockOK(o, k) /\ o.bytes = 6 + Len(o.text) /\ o.nxtloc = o.loc + Len(o.text) /\ o.nxtsec = o.sec

OutOK(out) == IsSeq(out) /\ \A b \in ToSet(out) : b.typ = "text" => BlockOK(b, 0)

\* The image that a file's blocks make.
ImageOf(out) == FoldLeft(Laid, [p \in {} |-> 0], out)
IsImage(img) == img = [p \in DOMAIN img |-> img[p]]

ObjectFields == {"typ", "sec", "loc", "bytes", "text", "rels", "out", "nxtloc", "nxtsec"}
Built(s, k) ==
  /\ ObjectFields \subseteq DOMAIN s.obj
  /\ OutOK(s.obj.out) /\ IsImage(ImageOf(s.obj.out))
  /\ s.image = Laid(ImageOf(s.obj.out), s.obj)
  /\ OpenOK(s.obj, k)

\* Behind the bytes of an item that are there, the others go.
Awaits(s, k) == k > 0 => s.obj.typ = "text" /\ s.obj.nxtloc = s.cur.loc /\ s.obj.nxtsec = s.cur.sec

\* In pass 1, and at the end, there is no text in memory.
Partial(s, k) == Typed(s) /\ Built(s, k) /\ Awaits(s, k) /\ (pass # 2 => s.obj.typ # "text")
Whole(s) == Partial(s, 0)

-----------------------------------------------------------------------------
(* What leaves the object file as it is.                                   *)

\* The types of places are kept, and the object file is not touched.
Beside(s, t) == Typed(t) /\ t.obj = s.obj /\ t.image = s.image

LEMMA BesideThrough ==
  ASSUME NEW s, NEW t, NEW u, Beside(s, t), Beside(t, u)
  PROVE  Beside(s, u)
BY DEF Beside

LEMMA BesideItself ==
  ASSUME NEW s, Typed(s)
  PROVE  Beside(s, s)
BY DEF Beside

LEMMA BesideWhole ==
  ASSUME NEW s, Whole(s), NEW t, Beside(s, t)
  PROVE  Whole(t)
BY DEF Whole, Partial, Beside, Built, Awaits

LEMMA ErrsBeside ==
  ASSUME NEW s, Typed(s), NEW p, NEW cs
  PROVE  Beside(s, ErrsIn(p, s, cs)) /\ ErrsIn(p, s, cs).sym = s.sym /\ ErrsIn(p, s, cs).cur = s.cur
<1> DEFINE t == ErrsIn(p, s, cs)
<1>1. /\ DOMAIN t = DOMAIN s /\ t.cur = s.cur /\ t.secct = s.secct /\ t.sectab = s.sectab /\ t.sym = s.sym
      /\ t.obj = s.obj /\ t.image = s.image
  BY DEF ErrsIn, Typed
<1> HIDE DEF t
<1>2. Beside(s, t)
  BY <1>1 DEF Beside, Typed
<1> QED
  BY <1>1, <1>2 DEF t

LEMMA EnteredBeside ==
  ASSUME NEW s, Typed(s), NEW ns
  PROVE  Beside(s, Entered(s, ns)) /\ Names(Entered(s, ns)) = Names(s) \cup ns
<1> DEFINE t == Entered(s, ns)
<1>1. /\ DOMAIN t = DOMAIN s /\ t.cur = s.cur /\ t.secct = s.secct /\ t.sectab = s.sectab
      /\ t.obj = s.obj /\ t.image = s.image
      /\ t.sym = [n \in DOMAIN s.sym \cup ns |-> IF n \in DOMAIN s.sym THEN s.sym[n] ELSE Fresh]
  BY DEF Entered, Typed
<1> HIDE DEF t
<1>2. IsSymbol(Fresh)
  BY DEF IsSymbol, Fresh
<1>3. Beside(s, t)
  BY <1>1, <1>2 DEF Beside, Typed
<1> QED
  BY <1>1, <1>3 DEF t, Names

\* A section has a number, and every symbol a value.
LEMMA assignBeside ==
  ASSUME NEW s, Typed(s), NEW p, NEW n, NEW typ, NEW val \in Int, NEW rel, typ = "sec" => rel \in 0..SECSIZ
  PROVE  /\ Beside(s, assignIn(p, s, n, typ, val, rel))
         /\ assignIn(p, s, n, typ, val, rel).cur = s.cur
         /\ assignIn(p, s, n, typ, val, rel).secct = s.secct
<1> DEFINE r    == assignIn(p, s, n, typ, val, rel)
           t    == [s EXCEPT !.placed = IF p = 2 /\ typ = "lab" THEN @ \cup {[name |-> n, val |-> val, rel |-> rel]} ELSE @]
           e    == s.sym[n]
           again == e.typ # "var" /\ (IF p = 2 THEN e.p2 ELSE e.typ # "und")
           und  == IF e.typ = "und" THEN [e EXCEPT !.typ = typ, !.rel = RBUND] ELSE e
           open == und.rel = RBUND \/ und.typ = "var"
           set  == IF open THEN [und EXCEPT !.val = val, !.rel = rel] ELSE und
           put  == [set EXCEPT !.p2 = @ \/ p = 2]
           two  == [e EXCEPT !.mud = TRUE]
           SameRest(u) == /\ DOMAIN u = DOMAIN s /\ u.cur = s.cur /\ u.secct = s.secct /\ u.sectab = s.sectab
                      /\ u.obj = s.obj /\ u.image = s.image
<1>1. SameRest(s) /\ SameRest(t) /\ t.sym = s.sym
  BY DEF Typed
<1>2. PICK u : u = [t EXCEPT !.sym[n].mud = TRUE]
  OBVIOUS
<1>3. PICK d : d = [t EXCEPT !.sym[n] = put]
  OBVIOUS
<1>4. r \in {s, ErrsIn(p, u, {"M"}), ErrsIn(p, t, {"P"})} \/ (und.typ = typ /\ r = d)
  BY <1>2, <1>3 DEF assignIn
<1>5. SameRest(u) /\ u.sym = [s.sym EXCEPT ![n] = two]
  BY <1>1, <1>2 DEF Typed
<1>6. SameRest(d) /\ d.sym = [s.sym EXCEPT ![n] = put]
  BY <1>1, <1>3 DEF Typed
<1>7. n \in DOMAIN s.sym => IsSymbol(e)
  BY DEF Typed
<1>8. IsSymbol(e) => IsSymbol(two)
  BY DEF IsSymbol
<1>9. IsSymbol(e) /\ und.typ = typ => IsSymbol(put)
  <2> SUFFICES ASSUME IsSymbol(e), und.typ = typ PROVE IsSymbol(put)
    OBVIOUS
  <2>1. {"typ", "val", "rel"} \subseteq DOMAIN und /\ und.val \in Int
    BY DEF IsSymbol
  <2>2. ~ open /\ und.typ = "sec" => und.rel \in 0..SECSIZ
    BY DEF IsSymbol
  <2> HIDE DEF und
  <2>3. {"typ", "val", "rel"} \subseteq DOMAIN set /\ set.val \in Int /\ set.typ = typ
    BY <2>1
  <2>4. typ = "sec" => set.rel \in 0..SECSIZ
    BY <2>1, <2>2
  <2> HIDE DEF set
  <2> QED
    BY <2>3, <2>4 DEF IsSymbol
<1> HIDE DEF r, t, two, put
<1>10. Beside(s, t) /\ Typed(t) /\ t.cur = s.cur /\ t.secct = s.secct
  BY <1>1 DEF Beside, Typed
<1>11. Beside(s, u) /\ u.cur = s.cur /\ u.secct = s.secct
  BY <1>1, <1>5, <1>7, <1>8 DEF Beside, Typed
<1>12. und.typ = typ => Beside(s, d) /\ d.cur = s.cur /\ d.secct = s.secct
  BY <1>1, <1>6, <1>7, <1>9 DEF Beside, Typed
<1>13. ASSUME NEW v, Beside(s, v), v.cur = s.cur, v.secct = s.secct, NEW cs, r = ErrsIn(p, v, cs)
       PROVE  Beside(s, r) /\ r.cur = s.cur /\ r.secct = s.secct
  <2>1. Typed(v) /\ r.secct = v.secct
    BY <1>13 DEF Beside, ErrsIn, Typed
  <2>2. Beside(v, r) /\ r.cur = v.cur
    BY <1>13, <2>1, ErrsBeside
  <2> QED
    BY <1>13, <2>1, <2>2, BesideThrough
<1>14. Beside(s, r) /\ r.cur = s.cur /\ r.secct = s.secct
  BY <1>4, <1>10, <1>11, <1>12, <1>13, BesideItself
<1> QED
  BY <1>14 DEF r

LEMMA LabelHereBeside ==
  ASSUME NEW s, Typed(s), NEW n
  PROVE  Beside(s, LabelHere(s, n)) /\ LabelHere(s, n).cur = s.cur
<1>1. s.cur.loc \in Int /\ "lab" # "sec"
  BY DEF Typed, IsCur
<1> QED
  BY <1>1, assignBeside DEF LabelHere, assign

LEMMA MentionBeside ==
  ASSUME NEW s, Typed(s), NEW x
  PROVE  /\ Beside(s, Mention(s, x)) /\ Symbols(x) \subseteq Names(Mention(s, x))
<1> DEFINE m == Mention(s, x)
<1>1. PICK t : t = Entered(s, Symbols(x))
  OBVIOUS
<1>2. Beside(s, t) /\ Symbols(x) \subseteq Names(t)
  BY <1>1, EnteredBeside
<1>3. \E read : m = [t EXCEPT !.used = read]
  BY <1>1 DEF Mention
<1>4. /\ m.sym = t.sym /\ m.obj = t.obj /\ m.cur = t.cur /\ m.secct = t.secct
      /\ m.sectab = t.sectab /\ m.image = t.image /\ DOMAIN m = DOMAIN t
  BY <1>2, <1>3 DEF Beside, Typed
<1> HIDE DEF m
<1>5. Beside(t, m)
  BY <1>2, <1>4 DEF Beside, Typed
<1> QED
  BY <1>2, <1>4, <1>5, BesideThrough DEF m, Names

\* An expression has a value: its symbols are in the table.
LEMMA PrimaryValue ==
  ASSUME NEW s, Typed(s), NEW p, IsPrimary(p), p.k = "sym" => p.n \in Names(s)
  PROVE  "val" \in DOMAIN Primary(s, p) /\ Primary(s, p).val \in Int
<1>1. p.k = "sym" => s.sym[p.n].val \in Int
  BY DEF Names, Typed, IsSymbol
<1>2. s.cur.loc \in Int
  BY DEF Typed, IsCur
<1> QED
  BY <1>1, <1>2 DEF IsPrimary, Primary, Value, NoValue

LEMMA ApplyValue ==
  ASSUME NEW op, NEW a, "val" \in DOMAIN a, a.val \in Int, NEW b, b.val \in Int
  PROVE  "val" \in DOMAIN Apply(op, a, b) /\ Apply(op, a, b).val \in Int
<1>1. PICK v \in Int : v = a.val
  OBVIOUS
<1>2. PICK w \in Int : w = b.val
  OBVIOUS
<1> DEFINE Valued(r) == "val" \in DOMAIN r /\ r.val \in Int
<1>3. ASSUME NEW u \in Int PROVE \A r : Valued(Value(u, r))
  BY DEF Value
<1>4. \A c : Valued(NoValue(c))
  BY DEF NoValue
<1>5. Valued(a)
  OBVIOUS
<1>6. \A r : /\ Valued(Value(- v, r)) /\ Valued(Value(- v - 1, r)) /\ Valued(Value(v + w, r)) /\ Valued(Value(v - w, r))
            /\ Valued(Value(v * w, r)) /\ Valued(Value(0, r)) /\ Valued(Value(-1, r))
  <2>1. - v \in Int /\ - v - 1 \in Int /\ v + w \in Int /\ v - w \in Int /\ v * w \in Int /\ 0 \in Int /\ -1 \in Int
    OBVIOUS
  <2> QED
    BY <1>3, <2>1
<1> HIDE DEF Valued
<1>7. Valued(Apply(op, a, b))
  BY <1>1, <1>2, <1>4, <1>5, <1>6 DEF Apply
<1> QED
  BY <1>7 DEF Valued

LEMMA EvalValue ==
  ASSUME NEW s, Typed(s), NEW x, IsArgument(x), Symbols(x) \subseteq Names(s)
  PROVE  Eval(s, x).val \in Int
<1>1. PICK a : a = Primary(s, x.l)
  OBVIOUS
<1>2. PICK b : b = Primary(s, x.r)
  OBVIOUS
<1>3. PICK r : r = Apply(x.op, a, b)
  OBVIOUS
<1>4. PICK e : e = a.errs \cup b.errs \cup r.errs
  OBVIOUS
<1>5. "val" \in DOMAIN a /\ a.val \in Int /\ b.val \in Int
  <2>1. \A p \in {x.l, x.r} : IsPrimary(p) /\ (p.k = "sym" => p.n \in Names(s))
    BY DEF IsArgument, Symbols
  <2> QED
    BY <1>1, <1>2, <2>1, PrimaryValue
<1>6. "val" \in DOMAIN r /\ r.val \in Int
  BY <1>3, <1>5, ApplyValue
<1>7. Eval(s, x) = IF Syntax(x) THEN [val |-> 0, rel |-> RBUND, errs |-> {"S"}]
                   ELSE IF "E" \in e THEN [val |-> 0, rel |-> 0, errs |-> e] ELSE [r EXCEPT !.errs = e]
  BY <1>1, <1>2, <1>3, <1>4 DEF Eval
<1>8. [r EXCEPT !.errs = e].val = r.val
  BY <1>6
<1> QED
  BY <1>6, <1>7, <1>8

LEMMA setsecBeside ==
  ASSUME NEW s, Typed(s), NEW n \in 0..SECSIZ
  PROVE  Beside(s, setsec(s, n)) /\ setsec(s, n).secct = s.secct
<1>1. PICK c : c = s.cur
  OBVIOUS
<1>2. PICK row : row = [sym |-> s.sectab[c.sec].sym, loc |-> c.loc, aln |-> c.aln, ext |-> c.ext, atr |-> c.atr]
  OBVIOUS
<1>3. PICK tab : tab = [s.sectab EXCEPT ![c.sec] = row]
  OBVIOUS
<1>4. PICK cur : cur = [sec |-> n, loc |-> tab[n].loc, aln |-> tab[n].aln, ext |-> tab[n].ext, atr |-> tab[n].atr]
  OBVIOUS
<1>5. PICK t : t = [s EXCEPT !.sectab = tab, !.cur = cur]
  OBVIOUS
<1>6. setsec(s, n) = t
  BY <1>1, <1>2, <1>3, <1>4, <1>5 DEF setsec
<1>7. "loc" \in DOMAIN row /\ row.loc \in Int
  BY <1>1, <1>2 DEF Typed, IsCur
<1>8. DOMAIN tab = 0..SECSIZ /\ \A m \in 0..SECSIZ : "loc" \in DOMAIN tab[m] /\ tab[m].loc \in Int
  BY <1>3, <1>7 DEF Typed
<1>9. IsCur(cur)
  BY <1>4, <1>8 DEF IsCur
<1>10. /\ DOMAIN t = DOMAIN s /\ t.cur = cur /\ t.sectab = tab /\ t.sym = s.sym /\ t.secct = s.secct
       /\ t.obj = s.obj /\ t.image = s.image
  BY <1>5 DEF Typed
<1> QED
  BY <1>6, <1>8, <1>9, <1>10 DEF Beside, Typed

LEMMA newsecBeside ==
  ASSUME NEW s, Typed(s), NEW p, NEW n
  PROVE  Beside(s, newsecIn(p, s, n))
<1>0. s.secct \in Nat /\ SECSIZ \in Nat
  BY AssemblerAssumption DEF Typed
<1>1. CASE s.secct >= SECSIZ
  <2>1. PICK t : t = [s EXCEPT !.fatal = TRUE]
    OBVIOUS
  <2>2. /\ DOMAIN t = DOMAIN s /\ t.cur = s.cur /\ t.sectab = s.sectab /\ t.sym = s.sym /\ t.secct = s.secct
        /\ t.obj = s.obj /\ t.image = s.image
    BY <2>1 DEF Typed
  <2>3. newsecIn(p, s, n) = t
    BY <1>1, <2>1 DEF newsecIn
  <2> QED
    BY <2>2, <2>3 DEF Beside, Typed
<1>2. CASE ~ (s.secct >= SECSIZ)
  <2>1. PICK k \in 0..SECSIZ : k = s.secct
    BY <1>0, <1>2
  <2>2. PICK a : a = assignIn(p, s, n, "sec", 0, k)
    OBVIOUS
  <2>3. Beside(s, a) /\ a.secct = k
    BY <2>1, <2>2, assignBeside
  <2>4. PICK c : c = [a EXCEPT !.sectab[k].sym = n, !.secct = @ + 1]
    OBVIOUS
  <2>5. /\ DOMAIN c = DOMAIN a /\ c.cur = a.cur /\ c.sym = a.sym /\ c.secct = k + 1
        /\ c.obj = a.obj /\ c.image = a.image /\ c.sectab = [a.sectab EXCEPT ![k] = [a.sectab[k] EXCEPT !.sym = n]]
    BY <2>3, <2>4 DEF Beside, Typed
  <2>6. DOMAIN c.sectab = 0..SECSIZ /\ \A m \in 0..SECSIZ : "loc" \in DOMAIN c.sectab[m] /\ c.sectab[m].loc \in Int
    BY <2>3, <2>5 DEF Beside, Typed
  <2>7. Beside(a, c)
    BY <2>1, <2>3, <2>5, <2>6 DEF Beside, Typed
  <2>8. PICK b : b = setsec(c, k)
    OBVIOUS
  <2>9. Beside(c, b)
    BY <2>7, <2>8, setsecBeside DEF Beside
  <2>10. PICK t : t = [b EXCEPT !.cur = NewCur(k)]
    OBVIOUS
  <2>11. IsCur(NewCur(k))
    BY DEF IsCur, NewCur
  <2>12. /\ DOMAIN t = DOMAIN b /\ t.cur = NewCur(k) /\ t.sectab = b.sectab /\ t.sym = b.sym /\ t.secct = b.secct
         /\ t.obj = b.obj /\ t.image = b.image
    BY <2>9, <2>10 DEF Beside, Typed
  <2>13. Beside(b, t)
    BY <2>9, <2>11, <2>12 DEF Beside, Typed
  <2>14. newsecIn(p, s, n) = t
    BY <1>2, <2>1, <2>2, <2>4, <2>8, <2>10 DEF newsecIn
  <2> QED
    BY <2>3, <2>7, <2>9, <2>13, <2>14, BesideThrough
<1> QED
  BY <1>1, <1>2

LEMMA SectionBeside ==
  ASSUME NEW s, Typed(s), NEW n \in Names(s)
  PROVE  Beside(s, Section(s, n))
<1>1. s.sym[n].typ = "sec" => s.sym[n].rel \in 0..SECSIZ
  BY DEF Names, Typed, IsSymbol
<1> QED
  BY <1>1, setsecBeside, newsecBeside DEF Section, newsec

LEMMA BeginBeside ==
  ASSUME NEW s, Typed(s), NEW p
  PROVE  Beside(s, Begin(p, s))
<1>1. PICK a : a = [s EXCEPT !.cur = NewCur(0), !.sectab[0].loc = 0, !.secct = 1]
  OBVIOUS
<1>2. /\ DOMAIN a = DOMAIN s /\ a.cur = NewCur(0) /\ a.sym = s.sym /\ a.secct = 1
      /\ a.obj = s.obj /\ a.image = s.image /\ a.sectab = [s.sectab EXCEPT ![0] = [s.sectab[0] EXCEPT !.loc = 0]]
  BY <1>1 DEF Typed
<1>3. DOMAIN a.sectab = 0..SECSIZ /\ \A m \in 0..SECSIZ : "loc" \in DOMAIN a.sectab[m] /\ a.sectab[m].loc \in Int
  BY <1>2 DEF Typed
<1>4. IsCur(NewCur(0))
  BY DEF IsCur, NewCur
<1>5. Beside(s, a)
  BY <1>2, <1>3, <1>4 DEF Beside, Typed
<1>6. PICK t : t = Entered(a, {TEXT})
  OBVIOUS
<1>7. Beside(a, t)
  BY <1>5, <1>6, EnteredBeside DEF Beside
<1>8. Begin(p, s) = newsecIn(p, t, TEXT)
  BY <1>1, <1>6 DEF Begin
<1>9. Beside(t, newsecIn(p, t, TEXT))
  BY <1>7, newsecBeside DEF Beside
<1> QED
  BY <1>5, <1>7, <1>8, <1>9, BesideThrough

-----------------------------------------------------------------------------
(* Where .align goes on.                                                   *)

Doubling(p, q, acc, k) == 2 * acc
Positive(p, q, i, acc) == acc \in Nat \ {0}
Shifts == INSTANCE FoldFacts WITH op <- Doubling, P <- Positive

LEMMA ShiftedPositive ==
  ASSUME NEW i \in Nat
  PROVE  Shifted(i) \in Nat \ {0}
<1>1. PICK bits : bits = [k \in 1..i |-> k]
  OBVIOUS
<1>2. Positive(0, 0, i, Shifts!Folded(0, 0, 1, bits))
  <2>1. Positive(0, 0, 0, 1)
    BY DEF Positive
  <2>2. \A acc : \A k \in 0..(i - 1) : Positive(0, 0, k, acc) => Positive(0, 0, k + 1, Doubling(0, 0, acc, bits[k + 1]))
    BY DEF Positive, Doubling
  <2> QED
    BY <1>1, <2>1, <2>2, Shifts!FoldInvariant
<1>3. Shifted(i) = Shifts!Folded(0, 0, 1, bits)
  BY <1>1 DEF Shifted, Shifts!Folded, Doubling, FoldLeft, MapThenFoldSet, Shifts!MapThenFoldSet,
              Max, Shifts!Greatest
<1> QED
  BY <1>2, <1>3 DEF Positive

LEMMA AlignedPlace ==
  ASSUME NEW loc \in Int, NEW i \in Nat
  PROVE  Aligned(loc, i) \in Int
<1>1. PICK m \in Int : m = Shifted(i) /\ m > 0
  BY ShiftedPositive
<1>2. PICK a \in Int : a = loc + m - 1
  OBVIOUS
<1>3. (a \div m) * m \in Int
  BY <1>1
<1> QED
  BY <1>1, <1>2, <1>3 DEF Aligned

-----------------------------------------------------------------------------
(* The bytes of a block.                                                   *)

\* What a text block lays over an image.
IsText(b) == b.typ = "text" /\ b.loc \in Int /\ IsSeq(b.text)
IsLaid(f, img, b) ==
  /\ DOMAIN f = Places(b) \cup DOMAIN img /\ IsImage(f)
  /\ \A i \in 1..Len(b.text) : f[<<b.sec, b.loc + i - 1>>] = ByteOf(b, i)
  /\ \A p \in DOMAIN img \ Places(b) : f[p] = img[p]

LEMMA LaidBytes ==
  ASSUME NEW b, IsText(b), NEW img
  PROVE  IsLaid(Laid(img, b), img, b)
<1>0. b.typ = "text" /\ b.loc \in Int /\ IsSeq(b.text)
  BY DEF IsText
<1>1. PICK n \in Nat : n = Len(b.text) /\ DOMAIN b.text = 1..n
  BY <1>0, SeqLength
<1>2. PICK f : f = Laid(img, b)
  OBVIOUS
<1>3. f = [p \in Places(b) \cup DOMAIN img |-> IF p \in Places(b) THEN ByteOf(b, p[2] - b.loc + 1) ELSE img[p]]
  BY <1>0, <1>2 DEF Laid
<1>4. ASSUME NEW i \in 1..n PROVE f[<<b.sec, b.loc + i - 1>>] = ByteOf(b, i)
  <2>1. PICK p : p = <<b.sec, b.loc + i - 1>>
    OBVIOUS
  <2>2. p \in Places(b) /\ p[2] - b.loc + 1 = i
    BY <1>0, <1>1, <2>1 DEF Places
  <2>3. f[p] = ByteOf(b, p[2] - b.loc + 1)
    BY <1>3, <2>2
  <2> QED
    BY <2>1, <2>2, <2>3
<1>5. DOMAIN f = Places(b) \cup DOMAIN img /\ IsImage(f) /\ \A p \in DOMAIN img \ Places(b) : f[p] = img[p]
  BY <1>3 DEF IsImage
<1> QED
  BY <1>1, <1>2, <1>4, <1>5 DEF IsLaid

\* The block c is the block b with a byte more, and its relocation if it has one.
OneMore(b, c, byte, rl) ==
  /\ c.typ = b.typ /\ c.sec = b.sec /\ c.loc = b.loc /\ c.text = Append(b.text, byte)
  /\ c.rels = IF rl = NoReloc THEN b.rels ELSE Append(b.rels, [off |-> 6 + Len(b.text), rl |-> rl])

LEMMA AppendedSet ==
  ASSUME NEW s, IsSeq(s), NEW x
  PROVE  ToSet(Append(s, x)) = ToSet(s) \cup {x}
<1>1. PICK n \in Nat : n = Len(s) /\ DOMAIN s = 1..n
  BY SeqLength
<1>2. DOMAIN Append(s, x) = 1..(n + 1) /\ Append(s, x)[n + 1] = x /\ \A i \in 1..n : Append(s, x)[i] = s[i]
  BY <1>1, SeqLength
<1>3. \A y \in ToSet(s) \cup {x} : y \in ToSet(Append(s, x))
  BY <1>1, <1>2 DEF ToSet
<1> QED
  BY <1>3, AppendedRange

LEMMA OneMoreBytes ==
  ASSUME NEW b, NEW k, BlockOK(b, k), NEW byte, NEW rl, NEW c, OneMore(b, c, byte, rl)
  PROVE  /\ IsSeq(c.text) /\ Len(c.text) = Len(b.text) + 1
         /\ \A i \in 1..Len(b.text) : ByteOf(c, i) = ByteOf(b, i)
         /\ ByteOf(c, Len(b.text) + 1) = <<byte, rl>>
<1>1. PICK n \in Nat : n = Len(b.text) /\ DOMAIN b.text = 1..n
  BY SeqLength DEF BlockOK
<1>2. /\ IsSeq(c.text) /\ Len(c.text) = n + 1 /\ c.text[n + 1] = byte
      /\ \A i \in 1..n : c.text[i] = b.text[i]
  BY <1>1, SeqLength, AppendIsSeq DEF BlockOK, OneMore
<1>3. PICK at : at = [off |-> 6 + n, rl |-> rl]
  OBVIOUS
<1>4. ToSet(c.rels) = IF rl = NoReloc THEN ToSet(b.rels) ELSE ToSet(b.rels) \cup {at}
  BY <1>1, <1>3, AppendedSet DEF OneMore, BlockOK
<1>5. \A r \in ToSet(b.rels) : r.off \in 6..(5 + n)
  BY <1>1 DEF BlockOK, RelocOK
<1>6. at.off = 6 + n /\ at.rl = rl
  BY <1>3
<1>7. ASSUME NEW i \in 1..n PROVE ByteOf(c, i) = ByteOf(b, i)
  <2>1. at.off # 6 + i - 1
    BY <1>6
  <2>2. RelocsAt(c, i) = RelocsAt(b, i)
    BY <1>4, <2>1 DEF RelocsAt
  <2> QED
    BY <1>2, <2>2 DEF ByteOf
<1>8. ByteOf(c, n + 1) = <<byte, rl>>
  <2>1. \A r \in ToSet(b.rels) : r.off # 6 + (n + 1) - 1
    BY <1>5
  <2>2. RelocsAt(c, n + 1) = IF rl = NoReloc THEN {} ELSE {at}
    BY <1>4, <1>6, <2>1 DEF RelocsAt
  <2>3. CASE rl = NoReloc
    BY <1>2, <2>2, <2>3 DEF ByteOf
  <2>4. CASE rl # NoReloc
    <3>1. RelocsAt(c, n + 1) # {} /\ (CHOOSE r \in RelocsAt(c, n + 1) : TRUE) = at
      BY <2>2, <2>4
    <3> QED
      BY <1>2, <1>6, <3>1 DEF ByteOf
  <2> QED
    BY <2>3, <2>4
<1> QED
  BY <1>1, <1>2, <1>7, <1>8

\* A byte more in the block is a byte more in the image.
NextPlace(b) == <<b.sec, b.loc + Len(b.text)>>
WithByte(f, place, x) == [p \in DOMAIN f \cup {place} |-> IF p = place THEN x ELSE f[p]]

LEMMA OneMoreLaid ==
  ASSUME NEW b, IsText(b), NEW k, BlockOK(b, k), NEW byte, NEW rl, NEW c, OneMore(b, c, byte, rl), NEW img
  PROVE  Laid(img, c) = WithByte(Laid(img, b), NextPlace(b), <<byte, rl>>)
<1>0. PICK place : place = NextPlace(b)
  OBVIOUS
<1>1. PICK n \in Nat : n = Len(b.text) /\ DOMAIN b.text = 1..n
  BY SeqLength DEF BlockOK
<1>2. /\ IsSeq(c.text) /\ Len(c.text) = n + 1 /\ DOMAIN c.text = 1..(n + 1)
      /\ \A i \in 1..n : ByteOf(c, i) = ByteOf(b, i)
      /\ ByteOf(c, n + 1) = <<byte, rl>>
  BY <1>1, OneMoreBytes, SeqLength
<1>3. /\ b.loc \in Int /\ IsSeq(b.text) /\ c.loc = b.loc /\ c.sec = b.sec /\ c.typ = "text"
  BY DEF BlockOK, OneMore, IsText
<1>4. PICK f : f = Laid(img, b)
  OBVIOUS
<1>5. PICK g : g = Laid(img, c)
  OBVIOUS
<1>6. /\ DOMAIN f = Places(b) \cup DOMAIN img
      /\ \A i \in 1..n : f[<<b.sec, b.loc + i - 1>>] = ByteOf(b, i)
      /\ \A p \in DOMAIN img \ Places(b) : f[p] = img[p]
  <2>1. IsLaid(f, img, b)
    BY <1>3, <1>4, LaidBytes DEF IsText
  <2> QED
    BY <1>1, <2>1 DEF IsLaid
<1>7. /\ DOMAIN g = Places(c) \cup DOMAIN img /\ IsImage(g)
      /\ \A i \in 1..(n + 1) : g[<<b.sec, b.loc + i - 1>>] = ByteOf(c, i)
      /\ \A p \in DOMAIN img \ Places(c) : g[p] = img[p]
  <2>1. IsLaid(g, img, c)
    BY <1>2, <1>3, <1>5, LaidBytes DEF IsText
  <2> QED
    BY <1>2, <1>3, <2>1 DEF IsLaid
<1>8. place = <<b.sec, b.loc + (n + 1) - 1>>
  BY <1>0, <1>1, <1>3 DEF NextPlace
<1>9. Places(c) = Places(b) \cup {place}
  <2>1. Places(b) = {<<b.sec, b.loc + i - 1>> : i \in 1..n}
    BY <1>1 DEF Places
  <2>2. Places(c) = {<<b.sec, b.loc + i - 1>> : i \in 1..(n + 1)}
    BY <1>2, <1>3 DEF Places
  <2>3. 1..(n + 1) = (1..n) \cup {n + 1}
    OBVIOUS
  <2> QED
    BY <1>8, <2>1, <2>2, <2>3
<1>10. DOMAIN g = DOMAIN f \cup {place}
  BY <1>6, <1>7, <1>9
<1>11. ASSUME NEW p \in DOMAIN g PROVE g[p] = IF p = place THEN <<byte, rl>> ELSE f[p]
  <2>1. CASE p = place
    <3>1. n + 1 \in 1..(n + 1)
      OBVIOUS
    <3> QED
      BY <1>2, <1>7, <1>8, <2>1, <3>1
  <2>2. CASE p # place /\ p \in Places(b)
    <3>1. PICK i \in 1..n : p = <<b.sec, b.loc + i - 1>>
      BY <1>1, <2>2 DEF Places
    <3>2. i \in 1..(n + 1)
      OBVIOUS
    <3>3. g[p] = ByteOf(c, i) /\ f[p] = ByteOf(b, i)
      BY <1>6, <1>7, <3>1, <3>2
    <3> QED
      BY <1>2, <2>2, <3>3
  <2>3. CASE p # place /\ p \notin Places(b)
    <3>1. p \in DOMAIN img \ Places(b) /\ p \in DOMAIN img \ Places(c)
      BY <1>7, <1>9, <2>3
    <3> QED
      BY <1>6, <1>7, <2>3, <3>1
  <2> QED
    BY <2>1, <2>2, <2>3
<1> QED
  BY <1>0, <1>4, <1>5, <1>7, <1>10, <1>11 DEF IsImage, WithByte

-----------------------------------------------------------------------------
(* Blocks go to the file.                                                  *)

Laying(p, q, acc, b) == Laid(acc, b)
Blocks == INSTANCE FoldFacts WITH op <- Laying, P <- GoodSoFar

LEMMA ImageOfAppended ==
  ASSUME NEW out, IsSeq(out), NEW b
  PROVE  ImageOf(Append(out, b)) = Laid(ImageOf(out), b)
<1>1. PICK n \in Nat : n = Len(out) /\ DOMAIN out = 1..n
  BY SeqLength
<1>2. PICK more : more = Append(out, b)
  OBVIOUS
<1>3. DOMAIN more = 1..(n + 1) /\ more[n + 1] = b /\ \A i \in 1..n : more[i] = out[i]
  BY <1>1, <1>2, SeqLength
<1>4. PICK empty : empty = [p \in {} |-> 0]
  OBVIOUS
<1>5. Blocks!Folded(0, 0, empty, more) = Laying(0, 0, Blocks!Folded(0, 0, empty, out), more[n + 1])
  BY <1>1, <1>3, Blocks!FoldOfAppended
<1>6. \A seq : ImageOf(seq) = Blocks!Folded(0, 0, empty, seq)
  BY <1>4 DEF ImageOf, Blocks!Folded, Laying, FoldLeft, MapThenFoldSet, Blocks!MapThenFoldSet,
              Max, Blocks!Greatest
<1> QED
  BY <1>2, <1>3, <1>5, <1>6 DEF Laying

\* Two records of one block.
SameBlock(b, c) == c.typ = b.typ /\ c.sec = b.sec /\ c.loc = b.loc /\ c.text = b.text /\ c.rels = b.rels

LEMMA SameBlockFacts ==
  ASSUME NEW b, NEW c, SameBlock(b, c)
  PROVE  /\ \A img : Laid(img, c) = Laid(img, b)
         /\ \A k : BlockOK(c, k) <=> BlockOK(b, k)
<1>1. ASSUME NEW k PROVE BlockOK(c, k) <=> BlockOK(b, k)
  BY DEF SameBlock, BlockOK
<1>2. ASSUME NEW img PROVE Laid(img, c) = Laid(img, b)
  <2>1. Places(c) = Places(b)
    BY DEF SameBlock, Places
  <2>2. \A i : ByteOf(c, i) = ByteOf(b, i)
    BY DEF SameBlock, ByteOf, RelocsAt
  <2> QED
    BY <2>1, <2>2 DEF SameBlock, Laid
<1> QED
  BY <1>1, <1>2

LEMMA OutAppended ==
  ASSUME NEW out, OutOK(out), NEW b, b.typ = "text" => BlockOK(b, 0)
  PROVE  OutOK(Append(out, b))
<1>1. IsSeq(out) /\ IsSeq(Append(out, b)) /\ \A c : c \in ToSet(Append(out, b)) => c \in ToSet(out) \/ c = b
  BY AppendedRange DEF OutOK
<1> QED
  BY <1>1 DEF OutOK

\* An image stays one.
LEMMA LaidIsImage ==
  ASSUME NEW img, IsImage(img), NEW b, b.typ = "text" => BlockOK(b, 0)
  PROVE  IsImage(Laid(img, b))
<1>1. CASE b.typ = "text"
  BY <1>1, LaidBytes DEF IsText, BlockOK, IsLaid
<1>2. CASE b.typ # "text"
  BY <1>2 DEF Laid
<1> QED
  BY <1>1, <1>2

\* What of a state the object file does not touch, symbols and sections.
Kept(s, t) ==
  DOMAIN t = DOMAIN s /\ t.cur = s.cur /\ t.secct = s.secct /\ t.sectab = s.sectab /\ t.sym = s.sym

LEMMA KeptTyped ==
  ASSUME NEW s, NEW t, Kept(s, t), Typed(s)
  PROVE  Typed(t)
BY DEF Kept, Typed

\* What the object file has when the block in memory has gone to it.
Flushed(s, t) ==
  /\ Kept(s, t) /\ Typed(t) /\ Built(t, 0)
  /\ t.obj.typ = "none" /\ t.obj.bytes = 0 /\ t.obj.text = <<>> /\ t.obj.rels = <<>> /\ t.image = s.image

LEMMA oflushBuilt ==
  ASSUME NEW s, Typed(s), Built(s, 0)
  PROVE  Flushed(s, oflush(s))
<1>1. PICK o : o = s.obj
  OBVIOUS
<1>2. PICK b : b = [typ |-> o.typ, sec |-> o.sec, loc |-> o.loc, text |-> o.text, rels |-> o.rels]
  OBVIOUS
<1>3. PICK out : out = IF o.typ = "none" THEN o.out ELSE Append(o.out, b)
  OBVIOUS
<1>4. PICK n : n = [o EXCEPT !.out = out, !.typ = "none", !.bytes = 0, !.text = <<>>, !.rels = <<>>]
  OBVIOUS
<1>5. PICK t : t = [s EXCEPT !.obj = n]
  OBVIOUS
<1>6. oflush(s) = t
  BY <1>1, <1>2, <1>3, <1>4, <1>5 DEF oflush
<1>7. /\ ObjectFields \subseteq DOMAIN n
      /\ n.out = out /\ n.typ = "none" /\ n.bytes = 0 /\ n.text = <<>> /\ n.rels = <<>>
  BY <1>1, <1>4 DEF Built, ObjectFields
<1>8. Kept(s, t) /\ t.obj = n /\ t.image = s.image
  BY <1>5 DEF Kept, Typed
<1>9. SameBlock(o, b)
  BY <1>2 DEF SameBlock
<1>10. o.typ = "text" => BlockOK(o, 0)
  BY <1>1 DEF Built, OpenOK
<1>11. b.typ = "text" => BlockOK(b, 0)
  BY <1>9, <1>10, SameBlockFacts DEF SameBlock
<1>12. OutOK(o.out) /\ IsImage(ImageOf(o.out)) /\ s.image = Laid(ImageOf(o.out), o)
  BY <1>1 DEF Built
<1>13. OutOK(out) /\ IsImage(ImageOf(out)) /\ ImageOf(out) = s.image
  <2>1. CASE o.typ = "none"
    BY <1>3, <1>12, <2>1 DEF Laid
  <2>2. CASE o.typ # "none"
    <3>1. out = Append(o.out, b)
      BY <1>3, <2>2
    <3>2. ImageOf(out) = Laid(ImageOf(o.out), b)
      BY <1>12, <3>1, ImageOfAppended DEF OutOK
    <3> QED
      BY <1>9, <1>11, <1>12, <3>1, <3>2, SameBlockFacts, OutAppended, LaidIsImage
  <2> QED
    BY <2>1, <2>2
<1>14. Laid(ImageOf(out), n) = ImageOf(out) /\ OpenOK(n, 0)
  BY <1>7 DEF Laid, OpenOK
<1>15. Built(t, 0)
  BY <1>7, <1>8, <1>13, <1>14 DEF Built
<1> QED
  BY <1>6, <1>7, <1>8, <1>15, KeptTyped DEF Flushed

LEMMA EmptyBlockLaid ==
  ASSUME NEW b, b.text = <<>>, NEW img, IsImage(img)
  PROVE  Laid(img, b) = img
<1>1. Places(b) = {}
  BY DEF Places
<1> QED
  BY <1>1 DEF Laid, IsImage

\* The block in memory goes on where the location counter is.
Opened(s, t, k) ==
  /\ Kept(s, t) /\ Typed(t) /\ Built(t, k) /\ t.image = s.image
  /\ t.obj.typ = "text" /\ t.obj.nxtloc = s.cur.loc /\ t.obj.nxtsec = s.cur.sec

NewBlock(o) == o.bytes = 6 /\ o.rels = <<>>

LEMMA SetOrgBuilt ==
  ASSUME NEW s, Typed(s), Built(s, 0)
  PROVE  /\ Opened(s, SetOrg(s, s.cur.sec, s.cur.loc), 0)
         /\ SetOrg(s, s.cur.sec, s.cur.loc) = s \/ NewBlock(SetOrg(s, s.cur.sec, s.cur.loc).obj)
<1>1. CASE s.obj.typ = "text" /\ s.obj.nxtloc = s.cur.loc /\ s.obj.nxtsec = s.cur.sec
  BY <1>1 DEF SetOrg, Opened, Kept
<1>2. CASE ~ (s.obj.typ = "text" /\ s.obj.nxtloc = s.cur.loc /\ s.obj.nxtsec = s.cur.sec)
  <2>1. PICK n : n = oflush(s)
    OBVIOUS
  <2>2. PICK loc \in Int : loc = s.cur.loc
    BY DEF Typed, IsCur
  <2>3. PICK sec : sec = s.cur.sec
    OBVIOUS
  <2>4. PICK o : o = [n.obj EXCEPT !.typ = "text", !.bytes = 6, !.sec = sec, !.loc = loc, !.nxtloc = loc, !.nxtsec = sec]
    OBVIOUS
  <2>5. Flushed(s, n)
    BY <2>1, oflushBuilt
  <2>6. PICK t : t = [n EXCEPT !.obj = o]
    OBVIOUS
  <2>7. SetOrg(s, s.cur.sec, s.cur.loc)
          = [n EXCEPT !.obj.typ = "text", !.obj.bytes = 6, !.obj.sec = sec, !.obj.loc = loc,
                      !.obj.nxtloc = loc, !.obj.nxtsec = sec]
    BY <1>2, <2>1, <2>2, <2>3 DEF SetOrg
  <2>8. SetOrg(s, s.cur.sec, s.cur.loc) = t
    BY <2>4, <2>5, <2>6, <2>7 DEF Flushed, Typed
  <2>9. /\ ObjectFields \subseteq DOMAIN o /\ o.typ = "text" /\ o.bytes = 6 /\ o.sec = sec /\ o.loc = loc
        /\ o.nxtloc = loc /\ o.nxtsec = sec /\ o.text = <<>> /\ o.rels = <<>> /\ o.out = n.obj.out
    BY <2>4, <2>5 DEF Flushed, Built, ObjectFields
  <2>10. Kept(s, t) /\ t.obj = o /\ t.image = s.image
    BY <2>5, <2>6 DEF Flushed, Kept, Typed
  <2>11. OutOK(o.out) /\ IsImage(ImageOf(o.out)) /\ s.image = ImageOf(o.out)
    BY <2>5, <2>9 DEF Flushed, Built, Laid
  <2>12. Laid(ImageOf(o.out), o) = ImageOf(o.out)
    BY <2>9, <2>11, EmptyBlockLaid
  <2>13. BlockOK(o, 0) /\ OpenOK(o, 0)
    <3>1. IsSeq(<<>>) /\ (\A x : x \notin ToSet(<<>>)) /\ Len(<<>>) = 0
      BY EmptyText
    <3>2. OBJSIZ \in Nat /\ OBJSIZ > 6
      BY AssemblerAssumption
    <3> QED
      BY <2>9, <3>1, <3>2 DEF BlockOK, OpenOK
  <2>14. Built(t, 0)
    BY <2>9, <2>10, <2>11, <2>12, <2>13 DEF Built
  <2> QED
    BY <2>2, <2>3, <2>8, <2>9, <2>10, <2>14, KeptTyped DEF Opened, NewBlock
<1> QED
  BY <1>1, <1>2

LEMMA OpenedWhole ==
  ASSUME NEW s, NEW t, Opened(s, t, 0), pass = 2
  PROVE  Whole(t)
BY DEF Opened, Whole, Partial, Awaits

LEMMA setorgWhole ==
  ASSUME NEW s, Whole(s)
  PROVE  Whole(setorg(s)) /\ setorg(s).cur = s.cur
<1>1. CASE pass = 2
  BY <1>1, SetOrgBuilt, OpenedWhole DEF setorg, Whole, Partial, Opened, Kept
<1>2. CASE pass # 2
  BY <1>2 DEF setorg
<1> QED
  BY <1>1, <1>2

\* The block in memory has room for what comes next, and no part of an item is cut off.
LEMMA RoomMade ==
  ASSUME pass = 2, NEW k \in 0..3, NEW s, Partial(s, k), NEW rl, k > 0 => rl = NoReloc,
         NEW f, f = IF Free(s.obj) < Room(rl) THEN oflush(s) ELSE s
  PROVE  Opened(s, setorg(f), k) /\ Free(setorg(f).obj) >= Room(rl)
<1>0. /\ Typed(s) /\ Built(s, k) /\ Room(rl) \in 1..7 /\ OBJSIZ \in Nat /\ OBJSIZ > 13
      /\ (rl = NoReloc => Room(rl) = 1)
  BY AssemblerAssumption DEF Partial, Room
<1>1. s.obj.typ = "text" => /\ BlockOK(s.obj, k) /\ s.obj.bytes = 6 + Len(s.obj.text)
                            /\ Len(s.obj.text) \in Nat /\ Len(s.obj.rels) \in Nat
  BY <1>0, SeqLength DEF Built, OpenOK, BlockOK
<1>2. CASE k > 0
  <2>1. s.obj.typ = "text" /\ s.obj.nxtloc = s.cur.loc /\ s.obj.nxtsec = s.cur.sec
    BY <1>2 DEF Partial, Awaits
  <2>2. Free(s.obj) \in Int /\ Free(s.obj) >= k
    <3>1. PICK n \in Nat : n = Len(s.obj.text)
      BY <1>1, <2>1
    <3>2. PICK m \in Nat : m = Len(s.obj.rels)
      BY <1>1, <2>1
    <3>3. 6 + n + 3 * m + k <= OBJSIZ
      BY <1>1, <2>1, <3>1, <3>2 DEF BlockOK
    <3>4. Free(s.obj) = OBJSIZ - ((6 + n) + 3 * m)
      BY <1>1, <2>1, <3>1, <3>2 DEF Free
    <3> QED
      BY <1>0, <3>3, <3>4
  <2>3. f = s
    BY <1>0, <1>2, <2>2
  <2>4. setorg(f) = s
    BY <2>1, <2>3 DEF setorg, SetOrg
  <2> QED
    BY <1>0, <1>2, <2>1, <2>2, <2>4 DEF Opened, Kept
<1>3. CASE k = 0
  <2>1. Typed(f) /\ Built(f, 0) /\ Kept(s, f) /\ f.image = s.image
    BY <1>0, <1>3, oflushBuilt DEF Flushed, Kept
  <2>2. PICK a : a = SetOrg(f, f.cur.sec, f.cur.loc)
    OBVIOUS
  <2>3. setorg(f) = a
    BY <2>2 DEF setorg
  <2>4. Opened(f, a, 0) /\ (a = f \/ NewBlock(a.obj))
    BY <2>1, <2>2, SetOrgBuilt
  <2>5. Opened(s, a, 0)
    BY <2>1, <2>4 DEF Opened, Kept
  <2>6. CASE NewBlock(a.obj)
    <3>1. Free(a.obj) = OBJSIZ - 6
      BY <1>0, <2>6 DEF Free, NewBlock
    <3> QED
      BY <1>0, <1>3, <2>3, <2>5, <3>1
  <2>7. CASE a = f
    <3>1. f.obj.typ = "text"
      BY <2>4, <2>7 DEF Opened
    <3>2. f = s
      BY <1>0, <1>3, <3>1, oflushBuilt DEF Flushed
    <3>3. ~ (Free(s.obj) < Room(rl)) \/ oflush(s) = s
      BY <3>2
    <3>4. ~ (Free(s.obj) < Room(rl))
      BY <1>0, <1>3, <3>1, <3>2, <3>3, oflushBuilt DEF Flushed
    <3>5. Free(s.obj) \in Int
      BY <1>0, <1>1, <3>1, <3>2 DEF Free
    <3> QED
      BY <1>0, <1>3, <2>3, <2>5, <2>7, <3>2, <3>4, <3>5
  <2> QED
    BY <2>4, <2>6, <2>7
<1> QED
  BY <1>2, <1>3

\* k bytes of an item were to come, and j are when the next is there; a relocation is of an item.
NextByte(k, rl, j) ==
  /\ k \in 0..3 /\ j \in 0..3 /\ k <= j + 1
  /\ rl = NoReloc => k = j + 1 \/ (k = 0 /\ j = 0)
  /\ rl # NoReloc => k = 0 /\ Width(rl.act) = j + 1

LEMMA OneMoreBlock ==
  ASSUME NEW k, NEW rl, NEW j, NextByte(k, rl, j), NEW b, BlockOK(b, k), b.bytes = 6 + Len(b.text), Free(b) >= Room(rl),
         NEW byte, NEW c, OneMore(b, c, byte, rl)
  PROVE  BlockOK(c, j)
<1>1. PICK n \in Nat : n = Len(b.text)
  BY SeqLength DEF BlockOK
<1>2. PICK m \in Nat : m = Len(b.rels)
  BY SeqLength DEF BlockOK
<1>3. IsSeq(c.text) /\ Len(c.text) = n + 1 /\ c.loc = b.loc /\ c.loc \in Int
  BY <1>1, OneMoreBytes DEF OneMore, BlockOK
<1>4. PICK at : at = [off |-> 6 + n, rl |-> rl]
  OBVIOUS
<1>5. k \in 0..3 /\ j \in 0..3 /\ k <= j + 1 /\ OBJSIZ \in Nat
  BY AssemblerAssumption DEF NextByte
<1>6. \A r \in ToSet(b.rels) : RelocOK(r, j, n + 1)
  <2> SUFFICES ASSUME NEW r, RelocOK(r, k, n) PROVE RelocOK(r, j, n + 1)
    BY <1>1 DEF BlockOK
  <2>1. PICK off \in 6..(5 + n) : off = r.off
    BY DEF RelocOK
  <2>2. PICK w \in 1..4 : w = Width(r.rl.act)
    BY DEF RelocOK
  <2>3. off + w <= 6 + n + k
    BY <2>1, <2>2 DEF RelocOK
  <2>4. off \in 6..(5 + (n + 1)) /\ off + w <= 6 + (n + 1) + j
    BY <1>5, <2>3
  <2> QED
    BY <2>1, <2>2, <2>4 DEF RelocOK
<1>7. 6 + n + 3 * m + k <= OBJSIZ /\ Free(b) = OBJSIZ - ((6 + n) + 3 * m)
  BY <1>1, <1>2 DEF BlockOK, Free
<1>8. CASE rl = NoReloc
  <2>1. c.rels = b.rels /\ IsSeq(b.rels)
    BY <1>8 DEF OneMore, BlockOK
  <2>2. Free(b) >= 1 /\ (k = j + 1 \/ (k = 0 /\ j = 0))
    BY <1>8 DEF Room, NextByte
  <2>3. 6 + (n + 1) + 3 * m + j <= OBJSIZ
    BY <1>5, <1>7, <2>2
  <2> QED
    BY <1>2, <1>3, <1>6, <2>1, <2>3 DEF BlockOK
<1>9. CASE rl # NoReloc
  <2>1. c.rels = Append(b.rels, at) /\ IsSeq(b.rels)
    BY <1>1, <1>4, <1>9 DEF OneMore, BlockOK
  <2>2. IsSeq(c.rels) /\ Len(c.rels) = m + 1 /\ \A r : r \in ToSet(c.rels) => r \in ToSet(b.rels) \/ r = at
    BY <1>2, <2>1, SeqLength, AppendedRange
  <2>3. Free(b) >= 7 /\ Width(rl.act) = j + 1
    BY <1>9 DEF Room, NextByte
  <2>4. 6 + (n + 1) + 3 * (m + 1) + j <= OBJSIZ
    BY <1>5, <1>7, <2>3
  <2>5. at.off = 6 + n /\ at.rl = rl
    BY <1>4
  <2>6. RelocOK(at, j, n + 1)
    BY <1>5, <2>3, <2>5 DEF RelocOK
  <2> QED
    BY <1>3, <1>6, <2>2, <2>4, <2>6 DEF BlockOK
<1> QED
  BY <1>8, <1>9

LEMMA emitbPartial ==
  ASSUME pass = 2, NEW k, NEW s, Partial(s, k), NEW byte, NEW rl, NEW j, NextByte(k, rl, j)
  PROVE  Partial(emitb(s, byte, rl), j)
<1>1. PICK f : f = (IF Free(s.obj) < Room(rl) THEN oflush(s) ELSE s)
  OBVIOUS
<1>2. PICK a : a = setorg(f)
  OBVIOUS
<1>3. k \in 0..3 /\ (k > 0 => rl = NoReloc)
  BY DEF NextByte
<1>4. Opened(s, a, k) /\ Free(a.obj) >= Room(rl)
  BY <1>1, <1>2, <1>3, RoomMade
<1>5. PICK o : o = a.obj
  OBVIOUS
<1>6. PICK loc \in Int : loc = s.cur.loc
  BY DEF Partial, Typed, IsCur
<1>7. PICK place : place = <<s.cur.sec, loc>>
  OBVIOUS
<1>8. PICK at : at = [off |-> o.bytes, rl |-> rl]
  OBVIOUS
<1>9. PICK text : text = Append(o.text, byte)
  OBVIOUS
<1>10. PICK rels : rels = (IF rl = NoReloc THEN o.rels ELSE Append(o.rels, at))
  OBVIOUS
<1>11. PICK img : img = [p \in DOMAIN a.image \cup {place} |-> IF p = place THEN <<byte, rl>> ELSE a.image[p]]
  OBVIOUS
<1>12. PICK c : c = [o EXCEPT !.text = text, !.bytes = o.bytes + 1, !.rels = rels, !.nxtloc = loc + 1]
  OBVIOUS
<1>13. PICK cur : cur = [a.cur EXCEPT !.loc = loc + 1]
  OBVIOUS
<1>14. PICK u : u = [a EXCEPT !.obj = c, !.image = img, !.cur = cur]
  OBVIOUS
<1>15. {"cur", "secct", "sectab", "sym", "obj", "image"} \subseteq DOMAIN a /\ ObjectFields \subseteq DOMAIN o
  BY <1>4, <1>5 DEF Opened, Typed, Built
<1>16. emitb(s, byte, rl) = u
  <2>1. PICK b : b = [a EXCEPT !.obj.text = Append(@, byte), !.obj.bytes = @ + 1,
                               !.obj.rels = IF rl = NoReloc THEN @ ELSE Append(@, at),
                               !.image = [p \in DOMAIN @ \cup {place} |-> IF p = place THEN <<byte, rl>> ELSE @[p]]]
    OBVIOUS
  <2>2. emitb(s, byte, rl) = [b EXCEPT !.cur.loc = loc + 1, !.obj.nxtloc = loc + 1]
    BY <1>1, <1>2, <1>5, <1>6, <1>7, <1>8, <2>1 DEF emitb
  <2>3. PICK d : d = [o EXCEPT !.text = text, !.bytes = o.bytes + 1, !.rels = rels]
    OBVIOUS
  <2>4. b = [a EXCEPT !.obj = d, !.image = img]
    BY <1>5, <1>9, <1>10, <1>11, <1>15, <2>1, <2>3 DEF ObjectFields
  <2>5. c = [d EXCEPT !.nxtloc = loc + 1]
    BY <1>12, <2>3
  <2> QED
    BY <1>13, <1>14, <1>15, <2>2, <2>4, <2>5
<1>17. /\ o.typ = "text" /\ BlockOK(o, k) /\ o.bytes = 6 + Len(o.text) /\ o.nxtloc = o.loc + Len(o.text)
       /\ o.nxtsec = o.sec /\ o.nxtloc = loc /\ o.nxtsec = s.cur.sec
       /\ OutOK(o.out) /\ IsImage(ImageOf(o.out)) /\ a.image = Laid(ImageOf(o.out), o)
  BY <1>4, <1>5, <1>6 DEF Opened, Built, OpenOK
<1>18. /\ ObjectFields \subseteq DOMAIN c /\ c.typ = o.typ /\ c.sec = o.sec /\ c.loc = o.loc /\ c.text = text
       /\ c.rels = rels /\ c.bytes = o.bytes + 1 /\ c.nxtloc = loc + 1 /\ c.nxtsec = o.nxtsec /\ c.out = o.out
  BY <1>12, <1>15 DEF ObjectFields
<1>19. OneMore(o, c, byte, rl)
  BY <1>8, <1>9, <1>10, <1>17, <1>18 DEF OneMore
<1>20. BlockOK(c, j)
  BY <1>4, <1>5, <1>17, <1>19, OneMoreBlock
<1>21. img = Laid(ImageOf(o.out), c)
  <2>1. place = NextPlace(o)
    BY <1>7, <1>17 DEF NextPlace
  <2>2. IsText(o)
    BY <1>17 DEF IsText, BlockOK
  <2>3. BlockOK(o, k)
    BY <1>17
  <2>4. \A i : Laid(i, c) = WithByte(Laid(i, o), NextPlace(o), <<byte, rl>>)
    BY <1>19, <2>2, <2>3, OneMoreLaid
  <2>5. Laid(ImageOf(o.out), c) = WithByte(a.image, place, <<byte, rl>>)
    BY <1>17, <2>1, <2>4
  <2> QED
    BY <1>11, <2>5 DEF WithByte
<1>22. OpenOK(c, j)
  <2>1. PICK n \in Nat : n = Len(o.text)
    BY <1>17, SeqLength DEF BlockOK
  <2>2. Len(c.text) = n + 1
    BY <1>17, <1>19, <2>1, OneMoreBytes
  <2>3. o.loc \in Int
    BY <1>17 DEF BlockOK
  <2>4. c.bytes = 6 + Len(c.text)
    BY <1>17, <1>18, <2>1, <2>2
  <2>5. c.nxtloc = c.loc + Len(c.text)
    BY <1>6, <1>17, <1>18, <2>1, <2>2, <2>3
  <2> QED
    BY <1>17, <1>18, <1>20, <2>4, <2>5 DEF OpenOK
<1>23. /\ DOMAIN u = DOMAIN a /\ u.obj = c /\ u.image = img /\ u.cur = cur /\ u.secct = a.secct
       /\ u.sectab = a.sectab /\ u.sym = a.sym
  BY <1>14, <1>15
<1>24. IsCur(cur) /\ cur.loc = loc + 1 /\ cur.sec = s.cur.sec
  BY <1>4, <1>6, <1>13 DEF Opened, Kept, Typed, IsCur
<1>25. Typed(u)
  BY <1>4, <1>23, <1>24 DEF Opened, Typed
<1>26. Built(u, j)
  BY <1>17, <1>18, <1>21, <1>22, <1>23 DEF Built
<1>27. Awaits(u, j)
  BY <1>17, <1>18, <1>23, <1>24 DEF Awaits
<1> QED
  BY <1>16, <1>25, <1>26, <1>27 DEF Partial

\* In pass 1 the location counter moves, and nothing is emitted.
LEMMA emitbCounts ==
  ASSUME pass # 2, NEW s, Whole(s), NEW byte, NEW rl
  PROVE  Whole(emitb(s, byte, rl))
<1>1. PICK loc \in Int : loc = s.cur.loc
  BY DEF Whole, Partial, Typed, IsCur
<1>2. PICK c : c = [s.obj EXCEPT !.nxtloc = loc + 1]
  OBVIOUS
<1>3. PICK cur : cur = [s.cur EXCEPT !.loc = loc + 1]
  OBVIOUS
<1>4. PICK u : u = [s EXCEPT !.cur = cur, !.obj = c]
  OBVIOUS
<1>5. emitb(s, byte, rl) = [s EXCEPT !.cur.loc = loc + 1, !.obj.nxtloc = loc + 1]
  BY <1>1 DEF emitb
<1>6. emitb(s, byte, rl) = u
  BY <1>2, <1>3, <1>4, <1>5 DEF Whole, Partial, Typed
<1>7. /\ DOMAIN u = DOMAIN s /\ u.obj = c /\ u.image = s.image /\ u.cur = cur /\ u.secct = s.secct
      /\ u.sectab = s.sectab /\ u.sym = s.sym
  BY <1>4 DEF Whole, Partial, Typed
<1>8. IsCur(cur)
  BY <1>1, <1>3 DEF Whole, Partial, Typed, IsCur
<1>9. Typed(u)
  BY <1>7, <1>8 DEF Whole, Partial, Typed
<1>10. ObjectFields \subseteq DOMAIN c /\ c.typ = s.obj.typ /\ c.typ # "text" /\ c.out = s.obj.out
  BY <1>2 DEF Whole, Partial, Built, ObjectFields
<1>11. Built(u, 0)
  BY <1>7, <1>10 DEF Whole, Partial, Built, OpenOK, Laid
<1> QED
  BY <1>6, <1>7, <1>9, <1>10, <1>11 DEF Whole, Partial, Awaits

\* An item is emitted byte by byte; i of them are there.
Lacks(item, i) == IF pass # 2 \/ item.rl = NoReloc \/ i = 0 THEN 0 ELSE item.len - i
EmittingPart(p, q, i, acc) == Partial(acc, Lacks(p, i))
EmittedWhole == INSTANCE FoldFacts WITH op <- Emitting, P <- EmittingPart

LEMMA EmitWhole ==
  ASSUME NEW s, Whole(s), NEW item, IsItem(item)
  PROVE  Whole(Emit(s, item))
<1>1. PICK n \in 1..4 : n = item.len
  BY DEF IsItem
<1>2. PICK bytes : bytes = [i \in 1..n |-> i]
  OBVIOUS
<1>3. EmittingPart(item, 0, 0, s)
  BY DEF EmittingPart, Lacks, Whole
<1>4. ASSUME NEW acc, NEW i \in 0..(n - 1), EmittingPart(item, 0, i, acc)
      PROVE  EmittingPart(item, 0, i + 1, Emitting(item, 0, acc, bytes[i + 1]))
  <2>1. bytes[i + 1] = i + 1
    BY <1>2
  <2>2. PICK rl : rl = IF i + 1 = 1 THEN item.rl ELSE NoReloc
    OBVIOUS
  <2>3. PICK byte : byte = <<item.val, i + 1>>
    OBVIOUS
  <2>4. Emitting(item, 0, acc, bytes[i + 1]) = emitb(acc, byte, rl)
    BY <2>1, <2>2, <2>3 DEF Emitting
  <2>5. CASE pass # 2
    <3>1. Whole(acc)
      BY <1>4, <2>5 DEF EmittingPart, Lacks, Whole
    <3>2. Whole(emitb(acc, byte, rl))
      BY <2>5, <3>1, emitbCounts
    <3> QED
      BY <2>4, <2>5, <3>2 DEF EmittingPart, Lacks, Whole
  <2>6. CASE pass = 2
    <3>1. PICK k : k = Lacks(item, i)
      OBVIOUS
    <3>2. PICK j : j = Lacks(item, i + 1)
      OBVIOUS
    <3>3. k = (IF item.rl = NoReloc \/ i = 0 THEN 0 ELSE n - i) /\ j = (IF item.rl = NoReloc THEN 0 ELSE n - (i + 1))
      BY <1>1, <2>6, <3>1, <3>2 DEF Lacks
    <3>4. item.rl # NoReloc => Width(item.rl.act) = n
      BY <1>1 DEF IsItem
    <3>5. NextByte(k, rl, j)
      <4>1. CASE item.rl = NoReloc
        BY <2>2, <3>3, <4>1 DEF NextByte
      <4>2. CASE item.rl # NoReloc /\ i = 0
        <5>1. rl = item.rl /\ k = 0 /\ j = n - 1
          BY <2>2, <3>3, <4>2
        <5> QED
          BY <3>4, <4>2, <5>1 DEF NextByte
      <4>3. CASE item.rl # NoReloc /\ i # 0
        <5>1. rl = NoReloc /\ k = n - i /\ j = n - (i + 1)
          BY <2>2, <3>3, <4>3
        <5>2. n - i \in 0..3 /\ n - (i + 1) \in 0..3
          BY <4>3
        <5> QED
          BY <5>1, <5>2 DEF NextByte
      <4> QED
        BY <4>1, <4>2, <4>3
    <3>6. Partial(emitb(acc, byte, rl), j)
      BY <1>4, <2>6, <3>1, <3>5, emitbPartial DEF EmittingPart
    <3> QED
      BY <2>4, <3>2, <3>6 DEF EmittingPart
  <2> QED
    BY <2>5, <2>6
<1>5. EmittingPart(item, 0, n, EmittedWhole!Folded(item, 0, s, bytes))
  BY <1>2, <1>3, <1>4, EmittedWhole!FoldInvariant
<1>6. Emit(s, item) = EmittedWhole!Folded(item, 0, s, bytes)
  BY <1>1, <1>2 DEF Emit, EmittedWhole!Folded, Emitting, FoldLeft, MapThenFoldSet,
                    EmittedWhole!MapThenFoldSet, Max, EmittedWhole!Greatest
<1>7. Lacks(item, n) = 0
  BY <1>1 DEF Lacks
<1> QED
  BY <1>5, <1>6, <1>7 DEF EmittingPart, Whole

WholeSoFar(p, q, i, acc) == Whole(acc)
ItemsWhole == INSTANCE FoldFacts WITH op <- EmitNext, P <- WholeSoFar

LEMMA EmitAllWhole ==
  ASSUME NEW s, Whole(s), NEW seq, ItemsOK(seq)
  PROVE  Whole(FoldLeft(Emit, s, seq))
<1>1. PICK n \in Nat : DOMAIN seq = 1..n /\ \A i \in 1..n : seq[i] \in ToSet(seq)
  BY SeqLength DEF ItemsOK
<1>2. WholeSoFar(0, 0, n, ItemsWhole!Folded(0, 0, s, seq))
  <2>1. WholeSoFar(0, 0, 0, s)
    BY DEF WholeSoFar
  <2>2. \A acc : \A i \in 0..(n - 1) :
          WholeSoFar(0, 0, i, acc) => WholeSoFar(0, 0, i + 1, EmitNext(0, 0, acc, seq[i + 1]))
    <3> SUFFICES ASSUME NEW acc, NEW i \in 0..(n - 1), Whole(acc) PROVE Whole(Emit(acc, seq[i + 1]))
      BY DEF WholeSoFar, EmitNext
    <3>1. i + 1 \in 1..n
      OBVIOUS
    <3>2. IsItem(seq[i + 1])
      BY <1>1, <3>1 DEF ItemsOK
    <3> QED
      BY <3>2, EmitWhole
  <2> QED
    BY <1>1, <2>1, <2>2, ItemsWhole!FoldInvariant
<1>3. FoldLeft(Emit, s, seq) = ItemsWhole!Folded(0, 0, s, seq)
  BY DEF ItemsWhole!Folded, EmitNext, FoldLeft, MapThenFoldSet, ItemsWhole!MapThenFoldSet,
         Max, ItemsWhole!Greatest
<1> QED
  BY <1>2, <1>3 DEF WholeSoFar

-----------------------------------------------------------------------------
(* What a statement emits.                                                 *)

\* The location counter moves, or its alignment, extent or attributes change.
AtPlace(s, t) ==
  /\ DOMAIN t = DOMAIN s /\ t.secct = s.secct /\ t.sectab = s.sectab /\ t.sym = s.sym
  /\ t.obj = s.obj /\ t.image = s.image /\ IsCur(t.cur)

LEMMA PlaceBeside ==
  ASSUME NEW s, Typed(s), NEW t, AtPlace(s, t)
  PROVE  Beside(s, t)
BY DEF AtPlace, Typed, Beside

LEMMA CurBeside ==
  ASSUME NEW s, Typed(s), NEW cur, IsCur(cur)
  PROVE  Beside(s, [s EXCEPT !.cur = cur]) /\ [s EXCEPT !.cur = cur].cur = cur
<1>1. PICK t : t = [s EXCEPT !.cur = cur]
  OBVIOUS
<1>2. AtPlace(s, t) /\ t.cur = cur
  BY <1>1 DEF Typed, AtPlace
<1> QED
  BY <1>1, <1>2, PlaceBeside

LEMMA EvenBeside ==
  ASSUME NEW s, Typed(s)
  PROVE  Beside(s, Even(s))
<1>1. PICK loc \in Int : loc = s.cur.loc
  BY DEF Typed, IsCur
<1>2. loc + (loc % 2) \in Int
  BY <1>1
<1>3. PICK cur : cur = [s.cur EXCEPT !.loc = loc + (loc % 2)]
  OBVIOUS
<1>4. IsCur(cur)
  BY <1>2, <1>3 DEF Typed, IsCur
<1>5. Even(s) = [s EXCEPT !.cur = cur]
  BY <1>1, <1>3 DEF Even, Typed
<1> QED
  BY <1>4, <1>5, CurBeside

LEMMA FatalBeside ==
  ASSUME NEW s, Typed(s), NEW b
  PROVE  Beside(s, [s EXCEPT !.fatal = b])
<1>1. PICK t : t = [s EXCEPT !.fatal = b]
  OBVIOUS
<1>2. AtPlace(s, t)
  BY <1>1 DEF Typed, AtPlace
<1> QED
  BY <1>1, <1>2, PlaceBeside

LEMMA WholeTyped ==
  ASSUME NEW s, Whole(s)
  PROVE  Typed(s)
BY DEF Whole, Partial

LEMMA LabelledWhole ==
  ASSUME Whole(z)
  PROVE  Whole(Labelled) /\ Typed(Labelled) /\ (Line.lab # 0 => Line.lab \in Names(Labelled))
<1>1. Beside(z, Labelled) /\ Names(Labelled) = Names(z) \cup ({Line.lab} \ {0})
  BY WholeTyped, EnteredBeside DEF Labelled
<1> QED
  BY <1>1, BesideWhole, WholeTyped

LEMMA ErrsWhole ==
  ASSUME NEW s, Whole(s), NEW cs
  PROVE  Whole(Errs(s, cs)) /\ Errs(s, cs).cur = s.cur
BY WholeTyped, ErrsBeside, BesideWhole DEF Errs

LEMMA errWhole ==
  ASSUME NEW s, Whole(s), NEW c
  PROVE  Whole(err(s, c))
BY ErrsWhole DEF err

LEMMA LabelHereWhole ==
  ASSUME NEW s, Whole(s), NEW n
  PROVE  Whole(LabelHere(s, n))
BY WholeTyped, LabelHereBeside, BesideWhole

\* The first operand, and one that is read.
LEMMA ArgIsArgument ==
  ASSUME InputOK, HasStatement, Line.op \in WithOperand
  PROVE  IsArgument(Arg)
<1>1. IsSeq(Line.args) /\ Line.args # <<>> /\ \A x \in ToSet(Line.args) : IsArgument(x)
  BY LineFacts DEF IsStatement
<1>2. PICK n \in Nat : n = Len(Line.args) /\ \A i \in 1..n : Line.args[i] \in ToSet(Line.args)
  BY <1>1, SeqLength
<1>3. 1 \in 1..n
  <2>1. Line.args \in Seq(ToSet(Line.args))
    BY <1>1 DEF IsSeq
  <2> QED
    BY <1>1, <1>2, <2>1
<1> QED
  BY <1>1, <1>2, <1>3 DEF Arg

LEMMA MentionWhole ==
  ASSUME NEW s, Whole(s), NEW x
  PROVE  Whole(Mention(s, x)) /\ (IsArgument(x) => Eval(Mention(s, x), x).val \in Int)
<1>1. PICK t : t = Mention(s, x)
  OBVIOUS
<1>2. Beside(s, t) /\ Symbols(x) \subseteq Names(t)
  BY <1>1, WholeTyped, MentionBeside
<1>3. Whole(t)
  BY <1>2, BesideWhole
<1>4. IsArgument(x) => Eval(t, x).val \in Int
  BY <1>2, <1>3, WholeTyped, EvalValue
<1> QED
  BY <1>1, <1>3, <1>4

LEMMA LoneLabelWhole ==
  ASSUME Whole(z), LoneLabel
  PROVE  Whole(z')
BY LabelledWhole, LabelHereWhole DEF LoneLabel

OperandsWhole == INSTANCE FoldFacts WITH op <- PutOperand, P <- WholeSoFar

LEMMA PutOperandWhole ==
  ASSUME NEW p \in {"byte", "word", "long"}, NEW q, NEW s, Whole(s), NEW x
  PROVE  Whole(PutOperand(p, q, s, x))
<1>1. PICK t : t = Mention(s, x)
  OBVIOUS
<1>2. PICK r : r = Eval(t, x)
  OBVIOUS
<1>3. PICK item : item = (CASE p = "byte" -> Byte(r) [] p = "word" -> Word(r) [] p = "long" -> Long(r))
  OBVIOUS
<1>4. item \in {Byte(r), Word(r), Long(r)}
  BY <1>3
<1>5. IsItem(item)
  BY <1>4, ItemsAreItems
<1>6. Whole(Errs(t, r.errs))
  BY <1>1, MentionWhole, ErrsWhole
<1>7. PutOperand(p, q, s, x) = Emit(Errs(t, r.errs), item)
  BY <1>1, <1>2, <1>3 DEF PutOperand
<1> QED
  BY <1>5, <1>6, <1>7, EmitWhole

LEMMA DataWhole ==
  ASSUME InputOK, Whole(z), Data
  PROVE  Whole(z')
<1>1. PICK s0 : s0 = (IF Line.op = "byte" THEN Labelled ELSE Even(Labelled))
  OBVIOUS
<1>2. PICK p : p = Line.op
  OBVIOUS
<1>3. PICK s : s = LabelHere(s0, Line.lab)
  OBVIOUS
<1>4. Whole(s)
  BY <1>1, <1>3, LabelledWhole, EvenBeside, BesideWhole, LabelHereWhole
<1>5. HasStatement /\ p \in {"byte", "word", "long"}
  BY <1>2 DEF Data, Assemble
<1>6. IsSeq(Line.args)
  BY <1>5, LineFacts DEF IsStatement
<1>7. PICK n \in Nat : DOMAIN Line.args = 1..n
  BY <1>6, SeqLength
<1>8. WholeSoFar(p, 0, n, OperandsWhole!Folded(p, 0, s, Line.args))
  <2>1. WholeSoFar(p, 0, 0, s)
    BY <1>4 DEF WholeSoFar
  <2>2. \A acc : \A i \in 0..(n - 1) :
          WholeSoFar(p, 0, i, acc) => WholeSoFar(p, 0, i + 1, PutOperand(p, 0, acc, Line.args[i + 1]))
    BY <1>5, PutOperandWhole DEF WholeSoFar
  <2> QED
    BY <1>7, <2>1, <2>2, OperandsWhole!FoldInvariant
<1>9. z' = OperandsWhole!Folded(p, 0, s, Line.args)
  BY <1>1, <1>2, <1>3 DEF Data, OperandsWhole!Folded, PutOperand, FoldLeft, MapThenFoldSet,
                          OperandsWhole!MapThenFoldSet, Max, OperandsWhole!Greatest
<1> QED
  BY <1>8, <1>9 DEF WholeSoFar

LEMMA instrWhole ==
  ASSUME InputOK, Whole(z), instr
  PROVE  Whole(z')
<1>1. PICK s : s = LabelHere(Even(Labelled), Line.lab)
  OBVIOUS
<1>2. PICK t : t = Mention(s, Arg)
  OBVIOUS
<1>3. PICK r : r = Eval(t, Arg)
  OBVIOUS
<1>4. PICK f : f = Line.form
  OBVIOUS
<1>5. PICK cs : cs = r.errs \cup (IF f \in Relative /\ (r.rel # t.cur.sec \/ ~ Near(f, r.val, t.cur.loc)) THEN {"E"} ELSE {})
  OBVIOUS
<1>6. PICK u : u = Errs(t, cs)
  OBVIOUS
<1>7. PICK first : first = <<Item(1, f, NoReloc), IF f = "byt1" THEN Byte(r) ELSE Item(1, f, NoReloc)>>
  OBVIOUS
<1>8. z' = (IF f = "nomatch" \/ Syntax(Arg) THEN Errs(u, {"O"}) ELSE FoldLeft(Emit, u, first \o Operand(f, r, Line.short)))
  BY <1>1, <1>2, <1>3, <1>4, <1>5, <1>6, <1>7 DEF instr
<1>9. Whole(u)
  BY <1>1, <1>2, <1>6, LabelledWhole, EvenBeside, BesideWhole, LabelHereWhole, MentionWhole, ErrsWhole
<1>10. ItemsOK(first)
  <2>1. PICK b : b = (IF f = "byt1" THEN Byte(r) ELSE Item(1, f, NoReloc))
    OBVIOUS
  <2>2. PICK a : a = Item(1, f, NoReloc)
    OBVIOUS
  <2>3. IsItem(a)
    BY <2>2, PlainItem
  <2>4. IsItem(b)
    BY <2>1, <2>2, <2>3, ItemsAreItems
  <2>5. first = <<a, b>>
    BY <1>7, <2>1, <2>2
  <2> QED
    BY <2>3, <2>4, <2>5, ShortItems
<1>11. Whole(FoldLeft(Emit, u, first \o Operand(f, r, Line.short)))
  BY <1>9, <1>10, OperandItems, Concatenated, EmitAllWhole
<1>12. Whole(Errs(u, {"O"}))
  BY <1>9, ErrsWhole
<1> QED
  BY <1>8, <1>11, <1>12

LEMMA UnknownWhole ==
  ASSUME Whole(z), Unknown
  PROVE  Whole(z')
<1>1. Whole(err(z, "O")) /\ Whole(err(Labelled, "O"))
  BY LabelledWhole, errWhole
<1> QED
  BY <1>1 DEF Unknown

LEMMA equWhole ==
  ASSUME InputOK, Whole(z), equ
  PROVE  Whole(z')
<1>1. PICK t : t = Mention(Labelled, Arg)
  OBVIOUS
<1>2. PICK r : r = Eval(t, Arg)
  OBVIOUS
<1>3. PICK typ : typ = (IF Line.op = "equ" THEN "lab" ELSE "var")
  OBVIOUS
<1>4. PICK u : u = Errs(t, r.errs \cup (IF Line.lab = 0 THEN {"L"} ELSE {}))
  OBVIOUS
<1>5. z' = IF Syntax(Arg) \/ (pass = 1 /\ r.errs # {}) THEN u ELSE assign(u, Line.lab, typ, r.val, r.rel)
  BY <1>1, <1>2, <1>3, <1>4 DEF equ
<1>6. IsArgument(Arg)
  BY ArgIsArgument DEF equ, Assemble, WithOperand
<1>7. Whole(u) /\ r.val \in Int
  BY <1>1, <1>2, <1>4, <1>6, LabelledWhole, MentionWhole, ErrsWhole
<1>8. Beside(u, assignIn(pass, u, Line.lab, typ, r.val, r.rel))
  <2>1. typ # "sec"
    BY <1>3
  <2> QED
    BY <1>7, <2>1, WholeTyped, assignBeside
<1> QED
  BY <1>5, <1>7, <1>8, BesideWhole DEF assign

LEMMA ADALIGNWhole ==
  ASSUME InputOK, Whole(z), ADALIGN
  PROVE  Whole(z')
<1>1. PICK t : t = Mention(Labelled, Arg)
  OBVIOUS
<1>2. PICK r : r = Eval(t, Arg)
  OBVIOUS
<1>3. PICK u : u = Errs(t, r.errs)
  OBVIOUS
<1>4. PICK a : a = [u EXCEPT !.cur.aln = IF r.val > @ THEN r.val ELSE @, !.cur.loc = Aligned(@, r.val)]
  OBVIOUS
<1>5. z' = LabelHere(IF Absolute(r, 0, 32) THEN setorg(a) ELSE err(u, "E"), Line.lab)
  BY <1>1, <1>2, <1>3, <1>4 DEF ADALIGN
<1>6. IsArgument(Arg)
  BY ArgIsArgument DEF ADALIGN, Assemble, WithOperand
<1>7. Whole(u) /\ Whole(err(u, "E")) /\ r.val \in Int
  BY <1>1, <1>2, <1>3, <1>6, LabelledWhole, MentionWhole, ErrsWhole, errWhole
<1>8. ASSUME Absolute(r, 0, 32) PROVE Whole(setorg(a))
  <2>1. PICK i \in Nat : i = r.val
    BY <1>7, <1>8 DEF Absolute
  <2>2. PICK loc \in Int : loc = u.cur.loc
    BY <1>7, WholeTyped DEF Typed, IsCur
  <2>3. PICK cur : cur = [u.cur EXCEPT !.aln = IF i > @ THEN i ELSE @, !.loc = Aligned(loc, i)]
    OBVIOUS
  <2>4. Aligned(loc, i) \in Int
    BY AlignedPlace
  <2>5. IsCur(cur)
    BY <1>7, <2>3, <2>4, WholeTyped DEF Typed, IsCur
  <2>6. "cur" \in DOMAIN u /\ "loc" \in DOMAIN u.cur
    BY <1>7, WholeTyped DEF Typed, IsCur
  <2>7. a = [u EXCEPT !.cur = cur]
    BY <1>4, <2>1, <2>2, <2>3, <2>6
  <2>8. Beside(u, a)
    BY <1>7, <2>5, <2>7, WholeTyped, CurBeside
  <2> QED
    BY <1>7, <2>8, BesideWhole, setorgWhole
<1>9. Whole(IF Absolute(r, 0, 32) THEN setorg(a) ELSE err(u, "E"))
  BY <1>7, <1>8
<1> QED
  BY <1>5, <1>9, LabelHereWhole

LEMMA ADWITHNWhole ==
  ASSUME Whole(z), ADWITHN
  PROVE  Whole(z')
<1>1. PICK t : t = Mention(Labelled, Arg)
  OBVIOUS
<1>2. PICK r : r = Eval(t, Arg)
  OBVIOUS
<1>3. PICK u : u = Errs(t, r.errs)
  OBVIOUS
<1>4. PICK a : a = [u EXCEPT !.cur.ext = IF r.val < @ THEN r.val ELSE @]
  OBVIOUS
<1>5. z' = LabelHere(IF Absolute(r, 0, 32) THEN a ELSE err(u, "E"), Line.lab)
  BY <1>1, <1>2, <1>3, <1>4 DEF ADWITHN
<1>6. Whole(u) /\ Whole(err(u, "E"))
  BY <1>1, <1>3, LabelledWhole, MentionWhole, ErrsWhole, errWhole
<1>7. Whole(a)
  <2>1. PICK cur : cur = [u.cur EXCEPT !.ext = IF r.val < @ THEN r.val ELSE @]
    OBVIOUS
  <2>2. IsCur(cur)
    BY <1>6, <2>1, WholeTyped DEF Typed, IsCur
  <2>3. a = [u EXCEPT !.cur = cur]
    BY <1>4, <2>1
  <2> QED
    BY <1>6, <2>2, <2>3, WholeTyped, CurBeside, BesideWhole
<1>8. Whole(IF Absolute(r, 0, 32) THEN a ELSE err(u, "E"))
  BY <1>6, <1>7
<1> QED
  BY <1>5, <1>8, LabelHereWhole

\* The location counter is set.
LEMMA LocBeside ==
  ASSUME NEW s, Typed(s), NEW loc \in Int
  PROVE  Beside(s, [s EXCEPT !.cur.loc = loc])
<1>1. PICK cur : cur = [s.cur EXCEPT !.loc = loc]
  OBVIOUS
<1>2. IsCur(cur)
  BY <1>1 DEF Typed, IsCur
<1>3. [s EXCEPT !.cur.loc = loc] = [s EXCEPT !.cur = cur]
  BY <1>1
<1> QED
  BY <1>2, <1>3, CurBeside

LEMMA ADBLOCKWhole ==
  ASSUME InputOK, Whole(z), ADBLOCK
  PROVE  Whole(z')
<1>1. PICK t : t = Mention(LabelHere(Labelled, Line.lab), Arg)
  OBVIOUS
<1>2. PICK r : r = Eval(t, Arg)
  OBVIOUS
<1>3. PICK u : u = Errs(t, r.errs)
  OBVIOUS
<1>4. PICK a : a = [u EXCEPT !.cur.loc = u.cur.loc + r.val]
  OBVIOUS
<1>5. z' = IF r.rel = RBABS THEN setorg(a) ELSE err(u, "E")
  <2>1. z' = IF r.rel = RBABS THEN setorg([u EXCEPT !.cur.loc = @ + r.val]) ELSE err(u, "E")
    BY <1>1, <1>2, <1>3 DEF ADBLOCK
  <2> QED
    BY <1>4, <2>1
<1>6. IsArgument(Arg)
  BY ArgIsArgument DEF ADBLOCK, Assemble, WithOperand
<1>7. Whole(u) /\ Whole(err(u, "E")) /\ r.val \in Int
  BY <1>1, <1>2, <1>3, <1>6, LabelledWhole, LabelHereWhole, MentionWhole, ErrsWhole, errWhole
<1>8. u.cur.loc + r.val \in Int
  <2>1. u.cur.loc \in Int
    BY <1>7, WholeTyped DEF Typed, IsCur
  <2> QED
    BY <1>7, <2>1
<1>9. Whole(setorg(a))
  BY <1>4, <1>7, <1>8, WholeTyped, LocBeside, BesideWhole, setorgWhole
<1> QED
  BY <1>5, <1>7, <1>9

LEMMA ADORGWhole ==
  ASSUME InputOK, Whole(z), ADORG
  PROVE  Whole(z')
<1>1. PICK t : t = Mention(Labelled, Arg)
  OBVIOUS
<1>2. PICK r : r = Eval(t, Arg)
  OBVIOUS
<1>3. PICK u : u = Errs(t, r.errs)
  OBVIOUS
<1>4. PICK a : a = [u EXCEPT !.cur.loc = r.val]
  OBVIOUS
<1>5. z' = IF r.rel = u.cur.sec THEN setorg(assign(a, Line.lab, "lab", r.val, r.rel)) ELSE err(u, "E")
  BY <1>1, <1>2, <1>3, <1>4 DEF ADORG
<1>6. IsArgument(Arg)
  BY ArgIsArgument DEF ADORG, Assemble, WithOperand
<1>7. Whole(u) /\ Whole(err(u, "E")) /\ r.val \in Int
  BY <1>1, <1>2, <1>3, <1>6, LabelledWhole, MentionWhole, ErrsWhole, errWhole
<1>8. Whole(a)
  BY <1>4, <1>7, WholeTyped, LocBeside, BesideWhole
<1>9. Beside(a, assignIn(pass, a, Line.lab, "lab", r.val, r.rel))
  <2>1. "lab" # "sec"
    OBVIOUS
  <2> QED
    BY <1>7, <1>8, <2>1, WholeTyped, assignBeside
<1>10. Whole(setorg(assign(a, Line.lab, "lab", r.val, r.rel)))
  BY <1>8, <1>9, BesideWhole, setorgWhole DEF assign
<1> QED
  BY <1>5, <1>7, <1>10

LEMMA ADABSWhole ==
  ASSUME Whole(z), ADABS
  PROVE  Whole(z')
<1>1. 0 \in 0..SECSIZ
  BY AssemblerAssumption
<1>2. Whole(setsec(Labelled, 0))
  BY <1>1, LabelledWhole, setsecBeside, BesideWhole
<1> QED
  BY <1>2, LabelHereWhole DEF ADABS

LEMMA ADSECTWhole ==
  ASSUME Whole(z), ADSECT
  PROVE  Whole(z')
<1>1. PICK s : s = Section(Labelled, Line.lab)
  OBVIOUS
<1>2. PICK c : c = [s EXCEPT !.cur.atr = @ \cup {"com"}]
  OBVIOUS
<1>3. z' = IF Line.lab = 0 THEN err(z, "L") ELSE IF Line.op = "common" THEN c ELSE s
  BY <1>1, <1>2 DEF ADSECT
<1>4. Whole(err(z, "L"))
  BY errWhole
<1>5. ASSUME Line.lab # 0 PROVE Whole(s) /\ Whole(c)
  <2>1. Whole(s)
    BY <1>1, <1>5, LabelledWhole, SectionBeside, BesideWhole
  <2>2. PICK cur : cur = [s.cur EXCEPT !.atr = @ \cup {"com"}]
    OBVIOUS
  <2>3. IsCur(cur)
    BY <2>1, <2>2, WholeTyped DEF Typed, IsCur
  <2>4. c = [s EXCEPT !.cur = cur]
    BY <1>2, <2>2
  <2> QED
    BY <2>1, <2>3, <2>4, WholeTyped, CurBeside, BesideWhole
<1> QED
  BY <1>3, <1>4, <1>5

LEMMA ADGLOBWhole ==
  ASSUME Whole(z), ADGLOB
  PROVE  Whole(z')
<1>1. PICK n : n = Arg.l.n
  OBVIOUS
<1>2. PICK s : s = Entered(Labelled, {n})
  OBVIOUS
<1>3. PICK t : t = [s EXCEPT !.sym[n].glo = TRUE]
  OBVIOUS
<1>4. z' = t
  BY <1>1, <1>2, <1>3 DEF ADGLOB
<1>5. Whole(s)
  BY <1>2, LabelledWhole, EnteredBeside, BesideWhole
<1>6. PICK e : e = [s.sym[n] EXCEPT !.glo = TRUE]
  OBVIOUS
<1>7. /\ DOMAIN t = DOMAIN s /\ t.cur = s.cur /\ t.secct = s.secct /\ t.sectab = s.sectab
      /\ t.obj = s.obj /\ t.image = s.image /\ t.sym = [s.sym EXCEPT ![n] = e]
  BY <1>3, <1>5, <1>6, WholeTyped DEF Typed
<1>8. IsSymbol(s.sym[n]) => IsSymbol(e)
  BY <1>6 DEF IsSymbol
<1>9. Beside(s, t)
  BY <1>5, <1>7, <1>8, WholeTyped DEF Typed, Beside
<1> QED
  BY <1>4, <1>5, <1>9, BesideWhole

-----------------------------------------------------------------------------
(* Blocks that are no text.                                                *)

\* A state whose block in memory is no text, with that block another of the kind.
LEMMA OtherBlock ==
  ASSUME NEW s, Typed(s), Built(s, 0), s.obj.typ # "text",
         NEW o, ObjectFields \subseteq DOMAIN o, o.typ # "text", OutOK(o.out), ImageOf(o.out) = ImageOf(s.obj.out)
  PROVE  Kept(s, [s EXCEPT !.obj = o]) /\ [s EXCEPT !.obj = o].obj = o /\ Whole([s EXCEPT !.obj = o])
<1>1. PICK t : t = [s EXCEPT !.obj = o]
  OBVIOUS
<1>2. Kept(s, t) /\ t.obj = o /\ t.image = s.image
  BY <1>1 DEF Typed, Kept
<1>3. \A img : Laid(img, o) = img /\ Laid(img, s.obj) = img
  BY DEF Laid
<1>4. Built(t, 0)
  BY <1>2, <1>3 DEF Built, OpenOK
<1>5. Whole(t)
  BY <1>2, <1>4, KeptTyped DEF Whole, Partial, Awaits
<1> QED
  BY <1>1, <1>2, <1>5

LEMMA FlushedOther ==
  ASSUME NEW s, NEW f, Flushed(s, f), NEW o, ObjectFields \subseteq DOMAIN o, o.typ # "text", o.out = f.obj.out
  PROVE  Whole([f EXCEPT !.obj = o])
BY OtherBlock DEF Flushed, Built

\* The transfer address is no text.
LEMMA ADENDWhole ==
  ASSUME Whole(z), ADEND
  PROVE  Whole(z')
<1>1. PICK t : t = IF Line.args = <<>> THEN Labelled ELSE Mention(Labelled, Arg)
  OBVIOUS
<1>2. PICK r : r = Eval(t, Arg)
  OBVIOUS
<1>3. PICK u : u = Errs(t, r.errs)
  OBVIOUS
<1>4. PICK f : f = oflush(u)
  OBVIOUS
<1>5. PICK w : w = <<r.val, r.rel>>
  OBVIOUS
<1>6. PICK e : e = [f EXCEPT !.obj.typ = "tra", !.obj.bytes = 6, !.obj.text = w]
  OBVIOUS
<1>7. z' = IF pass = 1 \/ Line.args = <<>> THEN t ELSE e
  BY <1>1, <1>2, <1>3, <1>4, <1>5, <1>6 DEF ADEND
<1>8. Whole(t) /\ Whole(u)
  BY <1>1, <1>3, LabelledWhole, MentionWhole, ErrsWhole
<1>9. Flushed(u, f)
  BY <1>4, <1>8, oflushBuilt DEF Whole, Partial
<1>10. PICK o : o = [f.obj EXCEPT !.typ = "tra", !.bytes = 6, !.text = w]
  OBVIOUS
<1>11. e = [f EXCEPT !.obj = o]
  BY <1>6, <1>9, <1>10 DEF Flushed, Typed
<1>12. ObjectFields \subseteq DOMAIN o /\ o.typ = "tra" /\ o.out = f.obj.out
  BY <1>9, <1>10 DEF Flushed, Built, ObjectFields
<1>13. Whole(e)
  BY <1>9, <1>11, <1>12, FlushedOther
<1> QED
  BY <1>7, <1>8, <1>13

LEMMA ADIFWhole ==
  ASSUME Whole(z), ADIF
  PROVE  Whole(z')
<1>1. PICK t : t = Mention(Labelled, Arg)
  OBVIOUS
<1>2. PICK r : r = Eval(t, Arg)
  OBVIOUS
<1>3. z' = Errs(t, r.errs \cup (IF r.rel # 0 THEN {"E"} ELSE {}))
  BY <1>1, <1>2 DEF ADIF
<1>4. Whole(t)
  BY <1>1, LabelledWhole, MentionWhole
<1> QED
  BY <1>3, <1>4, ErrsWhole

LEMMA ADREPTWhole ==
  ASSUME Whole(z), ADREPT
  PROVE  Whole(z')
<1>1. PICK t : t = Mention(Labelled, Arg)
  OBVIOUS
<1>2. PICK r : r = Eval(t, Arg)
  OBVIOUS
<1>3. z' = Errs(t, r.errs \cup (IF r.rel = RBABS /\ r.val <= 255 THEN {} ELSE {"E"}))
  BY <1>1, <1>2 DEF ADREPT
<1>4. Whole(t)
  BY <1>1, LabelledWhole, MentionWhole
<1> QED
  BY <1>3, <1>4, ErrsWhole

LEMMA FatalWhole ==
  ASSUME NEW s, Whole(s), NEW b
  PROVE  Whole([s EXCEPT !.fatal = b])
BY WholeTyped, FatalBeside, BesideWhole

LEMMA OtherWhole ==
  ASSUME Whole(z), ADELSE \/ ADENDIF \/ ADMAC \/ macro \/ ADEXIT \/ ADINPUT
  PROVE  Whole(z')
<1>1. Whole(Labelled)
  BY LabelledWhole
<1>2. \A c : Whole(err(Labelled, c)) /\ Whole(err(z, c))
  BY <1>1, errWhole
<1>3. Whole(Full) /\ Whole([Labelled EXCEPT !.fatal = Len(inp.stack) >= INSIZ])
  BY <1>1, FatalWhole DEF Full
<1>4. CASE ADELSE
  BY <1>1, <1>2, <1>4 DEF ADELSE
<1>5. CASE ADENDIF
  BY <1>1, <1>2, <1>5 DEF ADENDIF
<1>6. CASE ADMAC
  BY <1>2, <1>6 DEF ADMAC
<1>7. CASE macro
  BY <1>2, <1>3, <1>7 DEF macro
<1>8. CASE ADEXIT
  BY <1>1, <1>2, <1>8 DEF ADEXIT
<1>9. CASE ADINPUT
  BY <1>2, <1>3, <1>9 DEF ADINPUT
<1> QED
  BY <1>4, <1>5, <1>6, <1>7, <1>8, <1>9

LEMMA rpt1Whole ==
  ASSUME Whole(z), rpt1
  PROVE  Whole(z')
BY FatalWhole DEF rpt1, Full

-----------------------------------------------------------------------------
(* The blocks between the passes, and the last one.                        *)

\* A state between the passes: the symbols are those that it had.
Between(s, names) == Typed(s) /\ Built(s, 0) /\ s.obj.typ # "text" /\ Names(s) = names

LEMMA PutEntryBetween ==
  ASSUME NEW s, NEW names, Between(s, names), NEW typ, typ # "text", NEW size, NEW entry
  PROVE  Between(PutEntry(s, typ, size, entry), names) /\ PutEntry(s, typ, size, entry).sym = s.sym
<1>1. PICK f : f = (IF s.obj.typ # typ \/ Free(s.obj) < SYMSIZ + 7 THEN [oflush(s) EXCEPT !.obj.typ = typ] ELSE s)
  OBVIOUS
<1>2. Typed(f) /\ Built(f, 0) /\ f.obj.typ # "text" /\ f.sym = s.sym
  <2>1. PICK n : n = oflush(s)
    OBVIOUS
  <2>2. Flushed(s, n)
    BY <2>1, oflushBuilt DEF Between
  <2>3. PICK o : o = [n.obj EXCEPT !.typ = typ]
    OBVIOUS
  <2>4. ObjectFields \subseteq DOMAIN o /\ o.typ = typ /\ o.out = n.obj.out
    BY <2>2, <2>3 DEF Flushed, Built, ObjectFields
  <2>5. [n EXCEPT !.obj.typ = typ] = [n EXCEPT !.obj = o]
    BY <2>3
  <2>6. Kept(n, [n EXCEPT !.obj = o]) /\ [n EXCEPT !.obj = o].obj = o /\ Whole([n EXCEPT !.obj = o])
    BY <2>2, <2>4, OtherBlock DEF Flushed, Built
  <2>7. f = s \/ f = [n EXCEPT !.obj = o]
    BY <1>1, <2>1, <2>5
  <2> QED
    BY <2>2, <2>4, <2>6, <2>7 DEF Between, Flushed, Kept, Whole, Partial
<1>3. PICK t : t = PutEntry(s, typ, size, entry)
  OBVIOUS
<1>4. PICK o : o = [f.obj EXCEPT !.bytes = @ + size, !.text = Append(@, entry)]
  OBVIOUS
<1>5. t = [f EXCEPT !.obj = o]
  <2>1. t = [f EXCEPT !.obj.bytes = @ + size, !.obj.text = Append(@, entry)]
    BY <1>1, <1>3 DEF PutEntry
  <2> QED
    BY <1>2, <1>4, <2>1 DEF Typed
<1>6. ObjectFields \subseteq DOMAIN o /\ o.typ = f.obj.typ /\ o.out = f.obj.out
  BY <1>2, <1>4 DEF Built, ObjectFields
<1>7. Kept(f, t) /\ t.obj = o /\ Whole(t)
  BY <1>2, <1>5, <1>6, OtherBlock DEF Built
<1> QED
  BY <1>2, <1>3, <1>6, <1>7 DEF Between, Kept, Whole, Partial, Names

LEMMA PutSymbolBetween ==
  ASSUME NEW s, NEW names, Between(s, names), NEW n
  PROVE  Between(PutSymbol(s, n), names)
<1> DEFINE r   == PutSymbol(s, n)
           e   == s.sym[n]
           glo == e.glo \/ (asm.uext /\ e.typ = "und")
           typ == IF glo THEN "glo" ELSE "loc"
           row == [name |-> n, val |-> IF e.typ = "und" THEN 0 ELSE e.val, rel |-> IF e.typ = "und" THEN RBUND ELSE e.rel]
           new == [e EXCEPT !.typ = "lab", !.glo = TRUE, !.val = 0, !.rel = s.nextext]
<1>1. PICK p : p = PutEntry(s, typ, 5 + SYMSIZ + 1, row)
  OBVIOUS
<1>2. PICK x : x = [p EXCEPT !.sym[n] = new, !.nextext = @ + 1]
  OBVIOUS
<1>3. r \in {s, [s EXCEPT !.fatal = TRUE], x, p}
  BY <1>1, <1>2 DEF PutSymbol
<1>4. typ # "text"
  OBVIOUS
<1>5. Between(p, names) /\ p.sym = s.sym
  BY <1>1, <1>4, PutEntryBetween
<1>6. Between([s EXCEPT !.fatal = TRUE], names)
  <2>1. PICK t : t = [s EXCEPT !.fatal = TRUE]
    OBVIOUS
  <2>2. t.sym = s.sym /\ Beside(s, t)
    BY <2>1, FatalBeside DEF Between, Typed
  <2> QED
    BY <2>1, <2>2 DEF Between, Beside, Built, Names
<1>7. Between(x, names)
  <2>1. IsSymbol(e) => IsSymbol(new)
    <3>1. IsSymbol(e) => {"typ", "val", "rel"} \subseteq DOMAIN new /\ new.val = 0 /\ new.typ = "lab"
      BY DEF IsSymbol
    <3> QED
      BY <3>1 DEF IsSymbol
  <2> HIDE DEF new
  <2>2. /\ DOMAIN x = DOMAIN p /\ x.cur = p.cur /\ x.secct = p.secct /\ x.sectab = p.sectab
        /\ x.obj = p.obj /\ x.image = p.image /\ x.sym = [p.sym EXCEPT ![n] = new]
    BY <1>2, <1>5 DEF Between, Typed
  <2>3. Typed(x) /\ DOMAIN x.sym = DOMAIN p.sym
    BY <1>5, <2>1, <2>2 DEF Between, Typed
  <2> QED
    BY <1>5, <2>2, <2>3 DEF Between, Built, Names
<1> QED
  BY <1>3, <1>5, <1>6, <1>7

BetweenSoFar(p, q, i, acc) == Between(acc, q)
SectionsBetween == INSTANCE FoldFacts WITH op <- PuttingSection, P <- BetweenSoFar
SymbolsBetween == INSTANCE FoldFacts WITH op <- PuttingSymbol, P <- BetweenSoFar

\* A block that is no text goes to the file by itself.
LEMMA PlainBlock ==
  ASSUME NEW s, Typed(s), Built(s, 0), s.obj.typ # "text", NEW b, b.typ # "text"
  PROVE  /\ Kept(s, [s EXCEPT !.obj.out = Append(@, b)]) /\ Whole([s EXCEPT !.obj.out = Append(@, b)])
         /\ [s EXCEPT !.obj.out = Append(@, b)].obj.typ = s.obj.typ
<1>1. PICK out : out = Append(s.obj.out, b)
  OBVIOUS
<1>2. PICK o : o = [s.obj EXCEPT !.out = out]
  OBVIOUS
<1>3. PICK t : t = [s EXCEPT !.obj.out = Append(@, b)] /\ t = [s EXCEPT !.obj = o]
  BY <1>1, <1>2
<1>4. OutOK(out) /\ ImageOf(out) = ImageOf(s.obj.out)
  <2>1. ImageOf(out) = Laid(ImageOf(s.obj.out), b)
    BY <1>1, ImageOfAppended DEF Built, OutOK
  <2> QED
    BY <1>1, <2>1, OutAppended DEF Laid, Built
<1>5. ObjectFields \subseteq DOMAIN o /\ o.typ = s.obj.typ /\ o.out = out
  BY <1>2 DEF Built, ObjectFields
<1>6. Kept(s, t) /\ t.obj = o /\ Whole(t)
  BY <1>3, <1>4, <1>5, OtherBlock
<1> QED
  BY <1>3, <1>5, <1>6

LEMMA InterludeBlocksBetween ==
  ASSUME NEW s, Typed(s), Built(s, 0), s.obj.typ # "text", IsFiniteSet(Names(s))
  PROVE  Between(InterludeBlocks(s), Names(s))
<1>1. PICK b : b = [typ |-> "start", sec |-> 0, loc |-> 0, text |-> <<>>, rels |-> <<>>]
  OBVIOUS
<1>2. PICK t : t = [s EXCEPT !.obj.out = Append(@, b)]
  OBVIOUS
<1>3. Between(t, Names(s)) /\ t.secct = s.secct
  <2>1. b.typ # "text"
    BY <1>1
  <2>2. Kept(s, t) /\ Whole(t) /\ t.obj.typ = s.obj.typ
    BY <1>2, <2>1, PlainBlock
  <2> QED
    BY <2>2 DEF Between, Kept, Whole, Partial, Names
<1>4. PICK n \in Nat : 1..n = 1..(s.secct - 1)
  <2>1. s.secct \in Nat
    BY DEF Typed
  <2>2. CASE s.secct = 0
    <3>1. 1..0 = 1..(s.secct - 1)
      BY <2>2
    <3> QED
      BY <3>1
  <2>3. CASE s.secct # 0
    <3>1. s.secct - 1 \in Nat
      BY <2>1, <2>3
    <3> QED
      BY <3>1
  <2> QED
    BY <2>2, <2>3
<1>5. PICK numbers : numbers = [i \in 1..n |-> i]
  OBVIOUS
<1>6. PICK secs : secs = SectionsBetween!Folded(0, Names(s), t, numbers)
  OBVIOUS
<1>7. Between(secs, Names(s))
  <2>1. BetweenSoFar(0, Names(s), 0, t)
    BY <1>3 DEF BetweenSoFar
  <2>2. \A acc : \A i \in 0..(n - 1) :
          BetweenSoFar(0, Names(s), i, acc) =>
            BetweenSoFar(0, Names(s), i + 1, PuttingSection(0, Names(s), acc, numbers[i + 1]))
    <3> SUFFICES ASSUME NEW acc, Between(acc, Names(s)), NEW x
                 PROVE  Between(PuttingSection(0, Names(s), acc, x), Names(s))
      BY DEF BetweenSoFar
    <3>1. "sec" # "text"
      OBVIOUS
    <3> QED
      BY <3>1, PutEntryBetween DEF PuttingSection
  <2>3. BetweenSoFar(0, Names(s), n, secs)
    BY <1>5, <1>6, <2>1, <2>2, SectionsBetween!FoldInvariant
  <2> QED
    BY <2>3 DEF BetweenSoFar
<1>8. InterludeBlocks(s) = SymbolsBetween!FoldedSet(s, Names(s), secs, Names(s))
  <2>1. t.secct = s.secct /\ numbers = [i \in 1..(s.secct - 1) |-> i]
    BY <1>3, <1>4, <1>5
  <2>2. secs = FoldLeft(LAMBDA acc, k : PutEntry(acc, "sec", 3 + SYMSIZ + 1, acc.sectab[k]), t,
                        [i \in 1..(s.secct - 1) |-> i])
    BY <1>6, <2>1 DEF SectionsBetween!Folded, PuttingSection, FoldLeft, MapThenFoldSet,
                      SectionsBetween!MapThenFoldSet, Max, SectionsBetween!Greatest
  <2>3. SymbolsBetween!FoldedSet(s, Names(s), secs, Names(s))
          = FoldSet(LAMBDA k, acc : PutSymbol(acc, k), secs, DOMAIN s.sym)
    BY DEF SymbolsBetween!FoldedSet, SymbolsBetween!Chosen, PuttingSymbol, FoldSet, MapThenFoldSet,
           SymbolsBetween!MapThenFoldSet, Names
  <2> QED
    BY <1>1, <1>2, <2>2, <2>3 DEF InterludeBlocks
<1>9. BetweenSoFar(s, Names(s), 0, SymbolsBetween!FoldedSet(s, Names(s), secs, Names(s)))
  <2>1. BetweenSoFar(s, Names(s), 0, secs)
    BY <1>7 DEF BetweenSoFar
  <2>2. \A acc : \A k \in Names(s) :
          BetweenSoFar(s, Names(s), 0, acc) => BetweenSoFar(s, Names(s), 0, PuttingSymbol(s, Names(s), acc, k))
    BY PutSymbolBetween DEF BetweenSoFar, PuttingSymbol
  <2>3. SymbolsBetween!IsFiniteSet(Names(s))
    BY DEF IsFiniteSet, SymbolsBetween!IsFiniteSet
  <2> QED
    BY <2>1, <2>2, <2>3, SymbolsBetween!SetFoldInvariant
<1> QED
  BY <1>8, <1>9 DEF BetweenSoFar

LEMMA interludeWhole ==
  ASSUME Whole(z), IsFiniteSet(Names(z)), interlude
  PROVE  Whole(z)'
<1>0. 0 \in 0..SECSIZ /\ pass # 2
  BY AssemblerAssumption DEF interlude
<1>1. PICK t : t = setsec(z, 0)
  OBVIOUS
<1>2. Beside(z, t) /\ Names(t) = Names(z)
  <2>1. Names(t) = Names(z)
    BY <1>1, WholeTyped DEF setsec, Names, Typed
  <2> QED
    BY <1>0, <1>1, <2>1, WholeTyped, setsecBeside
<1>3. PICK s : s = InterludeBlocks(t)
  OBVIOUS
<1>4. Between(s, Names(t))
  <2>1. Whole(t)
    BY <1>2, BesideWhole
  <2> QED
    BY <1>0, <1>2, <1>3, <2>1, InterludeBlocksBetween DEF Whole, Partial
<1>5. Beside(s, Begin(2, s))
  BY <1>4, BeginBeside DEF Between
<1>6. z' = s \/ z' = Begin(2, s)
  BY <1>1, <1>3 DEF interlude
<1>7. Typed(z') /\ Built(z', 0) /\ z'.obj.typ # "text"
  BY <1>4, <1>5, <1>6 DEF Between, Beside, Built
<1> QED
  BY <1>7 DEF Whole, Partial, Awaits

LEMMA finishWhole ==
  ASSUME Whole(z), finish
  PROVE  Whole(z)'
<1>0. 0 \in 0..SECSIZ /\ pass' = 3
  BY AssemblerAssumption DEF finish
<1>1. PICK t : t = setsec(z, 0)
  OBVIOUS
<1>2. Whole(t)
  BY <1>0, <1>1, WholeTyped, setsecBeside, BesideWhole
<1>3. PICK f : f = oflush(t)
  OBVIOUS
<1>4. Flushed(t, f)
  BY <1>2, <1>3, oflushBuilt DEF Whole, Partial
<1>5. PICK b : b = [typ |-> "end", sec |-> 0, loc |-> 0, text |-> <<>>, rels |-> <<>>]
  OBVIOUS
<1>6. z' = [f EXCEPT !.obj.out = Append(@, b)]
  BY <1>1, <1>3, <1>5 DEF finish
<1>7. Whole(z') /\ z'.obj.typ = "none"
  <2>1. b.typ # "text"
    BY <1>5
  <2> QED
    BY <1>4, <1>6, <2>1, PlainBlock DEF Flushed
<1> QED
  BY <1>7 DEF Whole, Partial, Awaits

-----------------------------------------------------------------------------
(* The object file is the image.                                           *)

LEMMA StartWhole == Typed(Start) /\ Built(Start, 0) /\ Start.obj.typ # "text"
<1>1. PICK out : out = <<>>
  OBVIOUS
<1>2. OutOK(out)
  BY <1>1, EmptyText DEF OutOK
<1>3. PICK empty : empty = [p \in {} |-> 0]
  OBVIOUS
<1>4. ImageOf(out) = empty
  <2>1. Blocks!Folded(0, 0, empty, out) = empty
    <3>1. DOMAIN out = 1..0
      BY <1>1
    <3>2. PICK part : Blocks!IsPart(0, 0, empty, out, 0, part)
      BY <3>1, Blocks!FoldInParts
    <3> QED
      BY <3>2 DEF Blocks!IsPart
  <2> QED
    BY <1>3, <2>1 DEF ImageOf, Blocks!Folded, Laying, FoldLeft, MapThenFoldSet, Blocks!MapThenFoldSet,
                      Max, Blocks!Greatest
<1>5. IsImage(empty)
  BY <1>3 DEF IsImage
<1>6. PICK o : o = NoObject
  OBVIOUS
<1>7. o.typ = "none" /\ o.out = out /\ ObjectFields \subseteq DOMAIN o
  BY <1>1, <1>6 DEF NoObject, ObjectFields
<1>8. Start.obj = o /\ Start.image = empty
  BY <1>3, <1>6 DEF Start
<1>9. Built(Start, 0)
  BY <1>2, <1>4, <1>5, <1>7, <1>8 DEF Built, OpenOK, Laid
<1>10. IsCur(NewCur(0))
  BY DEF IsCur, NewCur
<1>11. /\ {"cur", "secct", "sectab", "sym", "obj", "image"} \subseteq DOMAIN Start /\ Start.cur = NewCur(0)
       /\ Start.secct = 1 /\ DOMAIN Start.sym = {}
       /\ Start.sectab = [n \in 0..SECSIZ |-> [sym |-> 0, loc |-> 0, aln |-> 0, ext |-> 0, atr |-> {}]]
  BY DEF Start
<1>12. Typed(Start)
  BY <1>10, <1>11 DEF Typed
<1> QED
  BY <1>7, <1>8, <1>9, <1>12

\* The texts are statements, the tables have their types, and the blocks are the image.
ImageInv == AsmInv /\ Whole(z)

LEMMA ImageInit == AssemblerInit => ImageInv
<1> SUFFICES ASSUME AssemblerInit PROVE Whole(z)
  BY AsmInit DEF ImageInv
<1>1. z = Begin(1, Start) /\ pass # 2
  BY DEF AssemblerInit
<1>2. Beside(Start, z)
  BY <1>1, StartWhole, BeginBeside
<1> QED
  BY <1>1, <1>2, StartWhole DEF Beside, Whole, Partial, Awaits, Built

LEMMA WholeInPass ==
  ASSUME Whole(z'), pass' = pass
  PROVE  Whole(z)'
BY DEF Whole, Partial, Awaits

LEMMA ImageStep == ImageInv /\ [AssemblerNext]_avars => ImageInv'
<1> SUFFICES ASSUME ImageInv, [AssemblerNext]_avars PROVE Whole(z)'
  BY AsmStep DEF ImageInv
<1>1. InputOK /\ Whole(z) /\ IsFiniteSet(Names(z))
  BY DEF ImageInv, AsmInv, Good, SymTable, Names
<1>2. ASSUME z' = z, pass' = pass PROVE Whole(z)'
  BY <1>1, <1>2, WholeInPass
<1>3. CASE UNCHANGED avars
  BY <1>2, <1>3 DEF avars
<1>4. CASE fillin \/ def1 \/ skip1
  BY <1>2, <1>4 DEF fillin, def1, skip1
<1>5. CASE rpt1
  BY <1>1, <1>5, rpt1Whole, WholeInPass DEF rpt1
<1>6. CASE LoneLabel
  BY <1>1, <1>6, LoneLabelWhole, WholeInPass DEF LoneLabel, Same
<1>7. CASE Data
  BY <1>1, <1>7, DataWhole, WholeInPass DEF Data, Same
<1>8. CASE instr
  BY <1>1, <1>8, instrWhole, WholeInPass DEF instr, Same
<1>9. CASE Unknown
  BY <1>1, <1>9, UnknownWhole, WholeInPass DEF Unknown, Same
<1>10. CASE equ
  BY <1>1, <1>10, equWhole, WholeInPass DEF equ, Same
<1>11. CASE ADALIGN
  BY <1>1, <1>11, ADALIGNWhole, WholeInPass DEF ADALIGN, Same
<1>12. CASE ADWITHN
  BY <1>1, <1>12, ADWITHNWhole, WholeInPass DEF ADWITHN, Same
<1>13. CASE ADBLOCK
  BY <1>1, <1>13, ADBLOCKWhole, WholeInPass DEF ADBLOCK, Same
<1>14. CASE ADORG
  BY <1>1, <1>14, ADORGWhole, WholeInPass DEF ADORG, Same
<1>15. CASE ADABS
  BY <1>1, <1>15, ADABSWhole, WholeInPass DEF ADABS, Same
<1>16. CASE ADSECT
  BY <1>1, <1>16, ADSECTWhole, WholeInPass DEF ADSECT, Same
<1>17. CASE ADGLOB
  BY <1>1, <1>17, ADGLOBWhole, WholeInPass DEF ADGLOB, Same
<1>18. CASE ADEND
  BY <1>1, <1>18, ADENDWhole, WholeInPass DEF ADEND, Same
<1>19. CASE ADIF
  BY <1>1, <1>19, ADIFWhole, WholeInPass DEF ADIF, Same
<1>20. CASE ADELSE \/ ADENDIF \/ ADMAC \/ macro \/ ADEXIT \/ ADINPUT
  <2>1. pass' = pass
    BY <1>20 DEF ADELSE, ADENDIF, ADMAC, macro, ADEXIT, ADINPUT, Same
  <2> QED
    BY <1>1, <1>20, <2>1, OtherWhole, WholeInPass
<1>21. CASE ADREPT
  BY <1>1, <1>21, ADREPTWhole, WholeInPass DEF ADREPT, Same
<1>22. CASE interlude
  BY <1>1, <1>22, interludeWhole
<1>23. CASE finish
  BY <1>1, <1>23, finishWhole
<1> QED
  BY <1>3, <1>4, <1>5, <1>6, <1>7, <1>8, <1>9, <1>10, <1>11, <1>12, <1>13, <1>14, <1>15, <1>16, <1>17, <1>18, <1>19,
     <1>20, <1>21, <1>22, <1>23 DEF AssemblerNext

LEMMA WholeIsImage == Whole(z) => ObjectIsTheImage
<1> SUFFICES ASSUME Whole(z), pass = 3
             PROVE  /\ ImageOf(z.obj.out) = z.image
                    /\ \A b \in ToSet(z.obj.out) : b.typ = "text" =>
                         /\ \A r \in ToSet(b.rels) : r.off + Width(r.rl.act) <= 6 + Len(b.text)
                         /\ 6 + Len(b.text) + 3 * Len(b.rels) <= OBJSIZ
  BY DEF ObjectIsTheImage, ImageOf
<1>1. Built(z, 0) /\ z.obj.typ # "text"
  BY DEF Whole, Partial
<1>2. ImageOf(z.obj.out) = z.image
  BY <1>1 DEF Built, Laid
<1>3. ASSUME NEW b \in ToSet(z.obj.out), b.typ = "text"
      PROVE  /\ \A r \in ToSet(b.rels) : r.off + Width(r.rl.act) <= 6 + Len(b.text)
             /\ 6 + Len(b.text) + 3 * Len(b.rels) <= OBJSIZ
  <2>1. BlockOK(b, 0)
    BY <1>1, <1>3 DEF Built, OutOK
  <2>2. PICK n \in Nat : n = Len(b.text)
    BY <2>1, SeqLength DEF BlockOK
  <2>3. PICK m \in Nat : m = Len(b.rels)
    BY <2>1, SeqLength DEF BlockOK
  <2>4. \A r \in ToSet(b.rels) : RelocOK(r, 0, n)
    BY <2>1, <2>2 DEF BlockOK
  <2>5. 6 + n + 3 * m + 0 <= OBJSIZ /\ OBJSIZ \in Nat
    BY <2>1, <2>2, <2>3, AssemblerAssumption DEF BlockOK
  <2>6. ASSUME NEW r, RelocOK(r, 0, n) PROVE r.off + Width(r.rl.act) <= 6 + n
    <3>1. PICK off \in 6..(5 + n) : off = r.off
      BY <2>6 DEF RelocOK
    <3>2. PICK w \in 1..4 : w = Width(r.rl.act)
      BY <2>6 DEF RelocOK
    <3> QED
      BY <2>6, <3>1, <3>2 DEF RelocOK
  <2>7. \A r \in ToSet(b.rels) : r.off + Width(r.rl.act) <= 6 + n
    BY <2>4, <2>6
  <2>8. 6 + n + 3 * m <= OBJSIZ
    BY <2>5
  <2> QED
    BY <2>2, <2>3, <2>7, <2>8
<1> QED
  BY <1>2, <1>3

\* For every source text and every setting of the limits: the text blocks of the object file
\* are what pass 2 emitted.  Every byte is in its section at the place where the location
\* counter was, its relocation with it; no block is larger than the buffer; and no relocatable
\* item is broken up (emitb).
THEOREM ObjectIsTheImageTheorem == AssemblerSpec => []ObjectIsTheImage
<1>1. ImageInv => ObjectIsTheImage
  BY WholeIsImage DEF ImageInv
<1> HIDE DEF ImageInv
<1> QED
  BY <1>1, ImageInit, ImageStep, PTL DEF AssemblerSpec
=============================================================================
