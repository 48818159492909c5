---------------------------- MODULE LinkerProofs ---------------------------
(***************************************************************************)
(* Proofs about the linker: whether its two passes read the same modules,  *)
(* and put them in the same places, for any library and any commands.      *)
(* What a pass does for a module it folds over the symbols and sections of *)
(* the module, sequences of any length: see FoldFacts.                     *)
(***************************************************************************)
EXTENDS ToolChain, TLAPS

-----------------------------------------------------------------------------
(* Sequences.                                                              *)

LEMMA SeqIsSeq ==
  ASSUME NEW T, NEW s \in Seq(T)
  PROVE  IsSeq(s) /\ Len(s) \in Nat /\ DOMAIN s = 1..Len(s) /\ \A i \in 1..Len(s) : s[i] \in T
<1>1. Len(s) \in Nat /\ DOMAIN s = 1..Len(s) /\ s = [i \in 1..Len(s) |-> s[i]]
  OBVIOUS
<1>2. \A i \in 1..Len(s) : s[i] \in ToSet(s)
  BY <1>1 DEF ToSet
<1>3. s \in Seq(ToSet(s))
  BY <1>1, <1>2
<1> QED
  BY <1>1, <1>3 DEF IsSeq

LEMMA SeqLength ==
  ASSUME NEW s, IsSeq(s)
  PROVE  Len(s) \in Nat /\ DOMAIN s = 1..Len(s) /\ s \in Seq(ToSet(s)) /\ \A i \in 1..Len(s) : s[i] \in ToSet(s)
BY SeqIsSeq DEF IsSeq

LEMMA Appended ==
  ASSUME NEW T, NEW s \in Seq(T), NEW x \in T
  PROVE  /\ Append(s, x) \in Seq(T) /\ Len(Append(s, x)) = Len(s) + 1
         /\ Append(s, x)[Len(s) + 1] = x /\ \A i \in 1..Len(s) : Append(s, x)[i] = s[i]
OBVIOUS

LEMMA AppendIsSeq ==
  ASSUME NEW s, IsSeq(s), NEW x
  PROVE  IsSeq(Append(s, x))
<1> DEFINE T == ToSet(s) \cup {x}
<1>1. s \in Seq(T)
  BY SeqLength
<1>2. Append(s, x) \in Seq(T)
  BY <1>1, Appended, x \in T
<1> QED
  BY <1>2, SeqIsSeq

LEMMA FunctionIsSeq ==
  ASSUME NEW n \in Nat, NEW f, f = [i \in 1..n |-> f[i]]
  PROVE  IsSeq(f) /\ Len(f) = n
<1> DEFINE T == {f[i] : i \in 1..n}
<1>1. f \in Seq(T) /\ Len(f) = n
  OBVIOUS
<1> QED
  BY <1>1, SeqIsSeq

LEMMA ExceptIsSeq ==
  ASSUME NEW s, IsSeq(s), NEW k, NEW x
  PROVE  IsSeq([s EXCEPT ![k] = x]) /\ Len([s EXCEPT ![k] = x]) = Len(s)
<1> DEFINE t == [s EXCEPT ![k] = x]
<1>1. Len(s) \in Nat /\ DOMAIN s = 1..Len(s)
  BY SeqLength
<1>2. t = [i \in 1..Len(s) |-> t[i]]
  BY <1>1
<1> HIDE DEF t
<1>3. IsSeq(t) /\ Len(t) = Len(s)
  BY <1>1, <1>2, FunctionIsSeq
<1> QED
  BY <1>3 DEF t

-----------------------------------------------------------------------------
(* What the folds of pass 1 keep: errors are counted upwards, and the      *)
(* symbol table stays a sequence.                                          *)

HasErr(acc) == "err" \in DOMAIN acc /\ acc.err \in Nat

Placing(p, q, acc, s) == PlaceSeg(acc, s)
PlacingKeeps(p, q, i, acc) == HasErr(acc)
Place == INSTANCE FoldFacts WITH op <- Placing, P <- PlacingKeeps

LEMMA PlaceSegCounts ==
  ASSUME NEW acc, HasErr(acc), NEW s
  PROVE  HasErr(PlaceSeg(acc, s))
BY DEF PlaceSeg, HasErr

LEMMA p1dosegCounts ==
  ASSUME NEW f, IsSeq(f.segs)
  PROVE  p1doseg(f).err \in Nat
<1> DEFINE base == [t |-> segtab, m |-> <<>>, rel |-> mod.rel, err |-> 0, full |-> FALSE]
<1>1. PlacingKeeps(0, 0, 0, base)
  BY DEF PlacingKeeps, HasErr
<1>2. \A acc : \A i \in 0..(Len(f.segs) - 1) :
         PlacingKeeps(0, 0, i, acc) => PlacingKeeps(0, 0, i + 1, Placing(0, 0, acc, f.segs[i + 1]))
  BY PlaceSegCounts DEF PlacingKeeps, Placing
<1>3. PlacingKeeps(0, 0, Len(f.segs), Place!Folded(0, 0, base, f.segs))
  BY <1>1, <1>2, SeqLength, Place!FoldInvariant
<1>4. p1doseg(f) = Place!Folded(0, 0, base, f.segs)
  BY DEF p1doseg, Place!Folded, Placing, FoldLeft, MapThenFoldSet, Place!MapThenFoldSet, Max, Place!Greatest
<1> QED
  BY <1>3, <1>4 DEF PlacingKeeps, HasErr

\* The symbol table under construction, and the errors.
HasTable(acc) == HasErr(acc) /\ {"tab", "sy", "und"} \subseteq DOMAIN acc /\ IsSeq(acc.tab)

Entering(p, q, acc, s) == EnterSym(p, q, acc, s)
EnteringKeeps(p, q, i, acc) == HasTable(acc)
Enter1 == INSTANCE FoldFacts WITH op <- Entering, P <- EnteringKeeps

LEMMA EnterSymKeeps ==
  ASSUME NEW rel, NEW m, NEW acc, HasTable(acc), NEW s
  PROVE  HasTable(EnterSym(rel, m, acc, s))
<1> DEFINE inSegment == s.fl = "GLB" \/ (s.fl = "LOC" /\ ~ cmd.r /\ s.sg # 255)
           moved == IF inSegment
                    THEN [s EXCEPT !.val = Wrap(@ + rel[s.sg]), !.sg = MapAt(m, s.sg)]
                    ELSE s
           k     == CASE s.fl = "SEG" -> lookup(acc.tab, SegmentNm, s.name)
                      [] s.fl \in External -> lookup(acc.tab, External, s.name)
                      [] OTHER -> 0
           new   == [acc EXCEPT !.tab = Append(@, moved), !.sy = Append(@, Len(acc.tab) + 1)]
           old   == [acc EXCEPT !.sy = Append(@, k)]
           sized == [acc.tab[k] EXCEPT !.val = CommonSize(@, s.val)]
<1> HIDE DEF moved, k, sized
<1>1. IsSeq(Append(acc.tab, moved)) /\ IsSeq([acc.tab EXCEPT ![k] = moved]) /\ IsSeq([acc.tab EXCEPT ![k] = sized])
  BY AppendIsSeq, ExceptIsSeq DEF HasTable
<1>2. HasTable(new) /\ HasTable(old) /\ old.tab = acc.tab
  BY <1>1 DEF HasTable, HasErr
<1> HIDE DEF new, old
<1>3. HasTable([acc EXCEPT !.sy = Append(@, Len(acc.tab) + 1)])
  BY DEF HasTable, HasErr
<1>4. HasTable([new EXCEPT !.und = @ + 1])
  BY <1>2 DEF HasTable, HasErr
<1>5. HasTable([old EXCEPT !.tab[k].val = CommonSize(@, s.val)])
  <2>1. [old EXCEPT !.tab[k].val = CommonSize(@, s.val)] = [old EXCEPT !.tab = [acc.tab EXCEPT ![k] = sized]]
    BY <1>2 DEF sized
  <2> QED
    BY <1>1, <1>2, <2>1 DEF HasTable, HasErr
<1>6. HasTable([old EXCEPT !.und = @ - 1, !.tab[k] = moved])
  <2>1. [old EXCEPT !.und = @ - 1, !.tab[k] = moved]
          = [[old EXCEPT !.und = @ - 1] EXCEPT !.tab = [acc.tab EXCEPT ![k] = moved]]
    BY <1>2 DEF HasTable, HasErr
  <2> QED
    BY <1>1, <1>2, <2>1 DEF HasTable, HasErr
<1>7. HasTable([old EXCEPT !.err = @ + 1])
  BY <1>2 DEF HasTable, HasErr
<1>8. EnterSym(rel, m, acc, s) \in
        {[acc EXCEPT !.sy = Append(@, Len(acc.tab) + 1)], [new EXCEPT !.und = @ + 1],
         [old EXCEPT !.tab[k].val = CommonSize(@, s.val)], [old EXCEPT !.und = @ - 1, !.tab[k] = moved],
         [old EXCEPT !.err = @ + 1], old, new}
  BY DEF EnterSym, new, old, k, moved
<1> QED
  BY <1>2, <1>3, <1>4, <1>5, <1>6, <1>7, <1>8

LEMMA p1dosymKeeps ==
  ASSUME NEW f, IsSeq(f.syms), NEW rel, NEW m, IsSeq(symtab)
  PROVE  HasTable(p1dosym(f, rel, m))
<1> DEFINE base == [tab |-> symtab, sy |-> <<>>, und |-> udefcnt, err |-> 0]
<1>1. EnteringKeeps(rel, m, 0, base)
  BY DEF EnteringKeeps, HasErr, HasTable
<1>2. \A acc : \A i \in 0..(Len(f.syms) - 1) :
         EnteringKeeps(rel, m, i, acc) => EnteringKeeps(rel, m, i + 1, Entering(rel, m, acc, f.syms[i + 1]))
  BY EnterSymKeeps DEF EnteringKeeps, Entering
<1>3. EnteringKeeps(rel, m, Len(f.syms), Enter1!Folded(rel, m, base, f.syms))
  BY <1>1, <1>2, SeqLength, Enter1!FoldInvariant
<1>4. p1dosym(f, rel, m) = Enter1!Folded(rel, m, base, f.syms)
  BY DEF p1dosym, Enter1!Folded, Entering, FoldLeft, MapThenFoldSet, Enter1!MapThenFoldSet, Max, Enter1!Greatest
<1> QED
  BY <1>3, <1>4 DEF EnteringKeeps

-----------------------------------------------------------------------------
(* The other folds that make sequences.                                    *)

\* -d: the names of a line enter the table.
Naming(p, q, tab, n) ==
  LET at == lookup(tab, SegmentNm, n)
  IN  IF at = 0 THEN Append(tab, [name |-> n, fl |-> "SEG", sg |-> p.seg, val |-> 0])
      ELSE [tab EXCEPT ![at].sg = p.seg]
SeqKeeps(p, q, i, tab) == IsSeq(tab)
Name == INSTANCE FoldFacts WITH op <- Naming, P <- SeqKeeps

LEMMA NamingKeeps ==
  ASSUME NEW d, NEW tab, IsSeq(tab), NEW n
  PROVE  IsSeq(Naming(d, 0, tab, n))
<1> DEFINE at == lookup(tab, SegmentNm, n)
<1> HIDE DEF at
<1>1. IsSeq([tab EXCEPT ![at] = [tab[at] EXCEPT !.sg = d.seg]])
  BY ExceptIsSeq
<1>2. IsSeq(Append(tab, [name |-> n, fl |-> "SEG", sg |-> d.seg, val |-> 0]))
  BY AppendIsSeq
<1>3. Naming(d, 0, tab, n) \in {Append(tab, [name |-> n, fl |-> "SEG", sg |-> d.seg, val |-> 0]),
                                [tab EXCEPT ![at] = [tab[at] EXCEPT !.sg = d.seg]]}
  BY DEF Naming, at
<1> QED
  BY <1>1, <1>2, <1>3

LEMMA dodlineKeeps ==
  ASSUME NEW table, IsSeq(table), NEW d, IsSeq(d.names)
  PROVE  IsSeq(dodline(table, d))
<1>1. \A tab : \A i \in 0..(Len(d.names) - 1) :
         SeqKeeps(d, 0, i, tab) => SeqKeeps(d, 0, i + 1, Naming(d, 0, tab, d.names[i + 1]))
  BY NamingKeeps DEF SeqKeeps
<1>2. SeqKeeps(d, 0, Len(d.names), Name!Folded(d, 0, table, d.names))
  BY <1>1, SeqLength, Name!FoldInvariant DEF SeqKeeps
<1>3. dodline(table, d) = Name!Folded(d, 0, table, d.names)
  BY DEF dodline, Name!Folded, Naming, FoldLeft, MapThenFoldSet, Name!MapThenFoldSet, Max, Name!Greatest
<1> QED
  BY <1>2, <1>3 DEF SeqKeeps

Lining(p, q, table, d) == dodline(table, d)
Lines == INSTANCE FoldFacts WITH op <- Lining, P <- SeqKeeps

LEMMA dodlinesKeep ==
  ASSUME NEW table, IsSeq(table), NEW ds, IsSeq(ds), \A d \in ToSet(ds) : IsSeq(d.names)
  PROVE  IsSeq(FoldLeft(dodline, table, ds))
<1>1. \A tab : \A i \in 0..(Len(ds) - 1) :
         SeqKeeps(0, 0, i, tab) => SeqKeeps(0, 0, i + 1, Lining(0, 0, tab, ds[i + 1]))
  <2> SUFFICES ASSUME NEW tab, NEW i \in 0..(Len(ds) - 1), IsSeq(tab) PROVE IsSeq(dodline(tab, ds[i + 1]))
    BY DEF SeqKeeps, Lining
  <2>1. ds[i + 1] \in ToSet(ds)
    BY SeqLength
  <2> QED
    BY <2>1, dodlineKeeps
<1>2. SeqKeeps(0, 0, Len(ds), Lines!Folded(0, 0, table, ds))
  BY <1>1, SeqLength, Lines!FoldInvariant DEF SeqKeeps
<1>3. FoldLeft(dodline, table, ds) = Lines!Folded(0, 0, table, ds)
  BY DEF Lines!Folded, Lining, FoldLeft, MapThenFoldSet, Lines!MapThenFoldSet, Max, Lines!Greatest
<1> QED
  BY <1>2, <1>3 DEF SeqKeeps

\* The elements of a sequence that are in a set.
Choosing(p, q, acc, x) == IF x \in p THEN Append(acc, x) ELSE acc
ChoosingKeeps(p, q, i, acc) == acc \in Seq(p)
Choose == INSTANCE FoldFacts WITH op <- Choosing, P <- ChoosingKeeps

LEMMA AmongIsSeq ==
  ASSUME NEW seq, IsSeq(seq), NEW S
  PROVE  Among(seq, S) \in Seq(S)
<1>1. \A acc : \A i \in 0..(Len(seq) - 1) :
         ChoosingKeeps(S, 0, i, acc) => ChoosingKeeps(S, 0, i + 1, Choosing(S, 0, acc, seq[i + 1]))
  BY DEF ChoosingKeeps, Choosing
<1>2. ChoosingKeeps(S, 0, 0, <<>>)
  BY DEF ChoosingKeeps
<1>3. ChoosingKeeps(S, 0, Len(seq), Choose!Folded(S, 0, <<>>, seq))
  BY <1>1, <1>2, SeqLength, Choose!FoldInvariant
<1>4. Among(seq, S) = Choose!Folded(S, 0, <<>>, seq)
  BY DEF Among, Choose!Folded, Choosing, FoldLeft, MapThenFoldSet, Choose!MapThenFoldSet, Max, Choose!Greatest
<1> QED
  BY <1>3, <1>4 DEF ChoosingKeeps

\* The commons get their places.
HasTab(acc) == "tab" \in DOMAIN acc /\ IsSeq(acc.tab)
Allocating(p, q, acc, i) == AllocateCommon(acc, i)
AllocatingKeeps(p, q, i, acc) == HasTab(acc)
Allocate == INSTANCE FoldFacts WITH op <- Allocating, P <- AllocatingKeeps

LEMMA AllocateCommonKeeps ==
  ASSUME NEW acc, HasTab(acc), NEW i
  PROVE  HasTab(AllocateCommon(acc, i))
<1> DEFINE s == acc.tab[i]
           j == findseg(acc.t, prelist, BSS, s.val)
           t == IF s.val > 1 THEN RoundSeg(acc.t, j) ELSE acc.t
           entry == [s EXCEPT !.fl = "GLB", !.sg = j, !.val = t[j].siz]
           put == Put(t, j, BSS, s.val)
           new == [acc EXCEPT !.t = put,
                       !.tab[i] = [@ EXCEPT !.fl = "GLB", !.sg = j, !.val = t[j].siz],
                       !.und = @ - 1]
<1>1. AllocateCommon(acc, i) \in {acc, [acc EXCEPT !.full = TRUE], new}
  BY DEF AllocateCommon
<1> HIDE DEF j, t, put
<1>2. IsSeq([acc.tab EXCEPT ![i] = entry])
  BY ExceptIsSeq DEF HasTab
<1>3. "tab" \in DOMAIN new /\ new.tab = [acc.tab EXCEPT ![i] = entry]
  BY DEF HasTab
<1> QED
  BY <1>1, <1>2, <1>3 DEF HasTab

LEMMA AllocatedIsSeq ==
  ASSUME IsSeq(symtab)
  PROVE  IsSeq(Allocated.tab)
<1> DEFINE start == [t |-> segtab, tab |-> symtab, und |-> udefcnt, full |-> FALSE]
           seq == [i \in DOMAIN symtab |-> i]
           commons == FoldLeft(AllocateCommon, start, seq)
<1>1. HasTab(start)
  BY DEF HasTab
<1>2. Len(symtab) \in Nat /\ DOMAIN symtab = 1..Len(symtab)
  BY SeqLength
<1>3. DOMAIN seq = 1..Len(symtab)
  BY <1>2
<1>4. \A acc : \A i \in 0..(Len(symtab) - 1) :
         AllocatingKeeps(0, 0, i, acc) => AllocatingKeeps(0, 0, i + 1, Allocating(0, 0, acc, seq[i + 1]))
  BY AllocateCommonKeeps DEF AllocatingKeeps, Allocating
<1>5. commons = Allocate!Folded(0, 0, start, seq)
  BY DEF Allocate!Folded, Allocating, FoldLeft, MapThenFoldSet, Allocate!MapThenFoldSet, Max, Allocate!Greatest
<1> HIDE DEF seq, start
<1>6. AllocatingKeeps(0, 0, Len(symtab), Allocate!Folded(0, 0, start, seq))
  BY <1>1, <1>2, <1>3, <1>4, Allocate!FoldInvariant DEF AllocatingKeeps
<1>7. HasTab(commons)
  BY <1>5, <1>6 DEF AllocatingKeeps
<1> HIDE DEF commons
<1>8. \A all : HasTab(all) => HasTab(WithStack(all))
  BY DEF WithStack, HasTab
<1>9. Allocated = WithStack(IF cmd.r \/ udefcnt = 0 THEN start ELSE commons)
  BY DEF Allocated, start, seq, commons
<1> QED
  BY <1>1, <1>7, <1>8, <1>9 DEF HasTab

\* -d: the preassigned segments.
Preferring(p, q, acc, d) == IF Contains(acc, d.seg) THEN acc ELSE Append(acc, d.seg)
Prefer == INSTANCE FoldFacts WITH op <- Preferring, P <- SeqKeeps

LEMMA PrelistIsSeq ==
  ASSUME NEW ds, IsSeq(ds)
  PROVE  IsSeq(FoldLeft(LAMBDA p, d : IF Contains(p, d.seg) THEN p ELSE Append(p, d.seg), <<>>, ds))
<1> DEFINE f == FoldLeft(LAMBDA p, d : IF Contains(p, d.seg) THEN p ELSE Append(p, d.seg), <<>>, ds)
<1>1. \A tab : \A i \in 0..(Len(ds) - 1) :
         SeqKeeps(0, 0, i, tab) => SeqKeeps(0, 0, i + 1, Preferring(0, 0, tab, ds[i + 1]))
  BY AppendIsSeq DEF SeqKeeps, Preferring
<1>2. SeqKeeps(0, 0, 0, <<>>)
  BY SeqIsSeq, <<>> \in Seq({}) DEF SeqKeeps
<1>3. SeqKeeps(0, 0, Len(ds), Prefer!Folded(0, 0, <<>>, ds))
  BY <1>1, <1>2, SeqLength, Prefer!FoldInvariant
<1>4. f = Prefer!Folded(0, 0, <<>>, ds)
  BY DEF Prefer!Folded, Preferring, FoldLeft, MapThenFoldSet, Prefer!MapThenFoldSet, Max, Prefer!Greatest
<1> QED
  BY <1>3, <1>4 DEF SeqKeeps

-----------------------------------------------------------------------------
(* The two passes of the linker.                                           *)

Who == Nat \X Nat
PosEntry == Who \cup {Stop}

\* In front of the list of an archive, the list of the archive before has been ended: no
\* archive is left, with something to be loaded, because nothing is undefined any more, when
\* a later one has something to be loaded too.
ListsEnded ==
  \A i, j \in DOMAIN posndx : i < j /\ posndx[i] > 0 /\ posndx[j] > 0 => postab[posndx[j] - 1] = Stop

PassType ==
  /\ job \in Seq(Commands)
  /\ phase \in {"start", "pass1", "pass2", "done", "failed", "phase_error"}
  /\ file \in Nat \ {0} /\ member \in Nat
  /\ ~ IsArchive(made) /\ IsSeq(made.segs) /\ IsSeq(made.syms)
  /\ IsSeq(symtab) /\ IsSeq(prelist) /\ IsSeq(hdr.order)
  /\ postab \in Seq(PosEntry) /\ loaded \in Seq(Who) /\ read2 \in Seq(Who)
  /\ phase # "start" => /\ job # <<>> /\ file <= Len(cmd.files) + 1
                        /\ posndx \in [1..Len(cmd.files) -> Int]
  /\ phase = "pass1" => errcnt \in Nat /\ member > 0

\* The modules that pass 1 loaded from file i are those from start[i] to start[i + 1]; those
\* of an archive are listed in postab, and their list ends there.
ListOf(start, i, last) ==
  /\ posndx[i] + last - start[i] - 1 <= Len(postab)
  /\ \A m \in Nat : start[i] < m /\ m <= last =>
       postab[posndx[i] + m - start[i] - 1] = loaded[m] /\ loaded[m][1] = i

ListEnd(start, i) == posndx[i] + start[i + 1] - start[i]
Ends(start, i) ==
  LET e == ListEnd(start, i)
  IN  e > Len(postab) \/ postab[e] = Stop \/ \E j \in DOMAIN posndx : j > i /\ posndx[j] = e

FileDone(start, i) ==
  /\ start[i] \in Nat /\ start[i + 1] \in Nat /\ start[i + 1] <= Len(loaded)
  /\ \/ posndx[i] = OneModule /\ start[i + 1] = start[i] + 1 /\ loaded[start[i] + 1] = <<i, 0>>
     \/ posndx[i] = NoModule /\ start[i + 1] = start[i]
     \/ posndx[i] > 0 /\ start[i + 1] > start[i] /\ ListOf(start, i, start[i + 1]) /\ Ends(start, i)

\* In pass 1, as long as there is no error.
ArchiveSoFar(start) ==
  \/ posndx[file] = NoModule /\ start[file] = Len(loaded)
  \/ /\ IsArchive(thefile)
     /\ posndx[file] > 0 /\ start[file] < Len(loaded) /\ ListOf(start, file, Len(loaded))
     /\ posndx[file] + Len(loaded) - start[file] = Len(postab) + 1
     /\ \A i \in Nat : 0 < i /\ i < file /\ posndx[i] > 0 => ListEnd(start, i) <= posndx[file]

Pass1At(start) ==
  /\ start[1] = 0 /\ start[file] \in Nat
  /\ \A i \in Nat : 0 < i /\ i < file => FileDone(start, i) /\ (posndx[i] > 0 => ListEnd(start, i) <= Len(postab) + 1)
  /\ \A i \in Nat : file < i /\ i <= Len(cmd.files) => posndx[i] = NoModule
  /\ IF file <= Len(cmd.files) THEN ArchiveSoFar(start) ELSE start[file] = Len(loaded)

\* In pass 2: what has been read is the first part of what was loaded.
ReadSoFar == Len(read2) <= Len(loaded) /\ \A m \in Nat : 0 < m /\ m <= Len(read2) => read2[m] = loaded[m]

Pass2At(start) ==
  /\ start[1] = 0 /\ start[file] \in Nat
  /\ \A i \in Nat : 0 < i /\ i <= Len(cmd.files) => FileDone(start, i)
  /\ start[Len(cmd.files) + 1] = Len(loaded)
  /\ ReadSoFar
  /\ IF member = 0 THEN Len(read2) = start[file]
     ELSE /\ file <= Len(cmd.files) /\ posndx[file] > 0
          /\ member = posndx[file] + Len(read2) - start[file]
          /\ start[file] < Len(read2) /\ Len(read2) <= start[file + 1]

PassInv ==
  /\ PassType
  /\ phase \in {"start", "failed"} /\ ListsEnded => ReadSoFar
  /\ phase = "phase_error" => ~ ListsEnded
  /\ phase = "pass1" => read2 = <<>> /\ (errcnt = 0 => \E start : Pass1At(start))
  /\ phase \in {"pass2", "done"} /\ ListsEnded => \E start : Pass2At(start)
  /\ phase = "done" => file > Len(cmd.files)

\* What the assumptions say of the command and of the file that is read.
LEMMA CommandFacts ==
  ASSUME PassType, job # <<>>
  PROVE  /\ IsSeq(cmd.files) /\ IsSeq(cmd.d) /\ IsSeq(cmd.u) /\ \A d \in ToSet(cmd.d) : IsSeq(d.names)
         /\ ToSet(cmd.files) \subseteq DOMAIN Library \cup {"made"}
<1>1. cmd \in Commands
  BY DEF PassType, cmd
<1> QED
  BY <1>1, JobsAssumption

LEMMA FileFacts ==
  ASSUME PassType, job # <<>>, file <= Len(cmd.files)
  PROVE  /\ ~ IsArchive(thefile) => IsSeq(thefile.segs) /\ IsSeq(thefile.syms)
         /\ IsArchive(thefile) =>
              /\ IsSeq(thefile.members)
              /\ \A k \in 1..Len(thefile.members) : IsSeq(thefile.members[k].segs) /\ IsSeq(thefile.members[k].syms)
<1>1. cmd.files[file] \in DOMAIN Library \cup {"made"}
  <2>1. file \in 1..Len(cmd.files)
    BY CommandFacts, SeqLength DEF PassType
  <2> QED
    BY <2>1, CommandFacts, SeqLength
<1>2. CASE cmd.files[file] = "made"
  BY <1>2 DEF thefile, FileOf, PassType
<1>3. CASE cmd.files[file] # "made"
  <2>1. thefile = Library[cmd.files[file]] /\ cmd.files[file] \in DOMAIN Library
    BY <1>1, <1>3 DEF thefile, FileOf
  <2>2. /\ IsArchive(thefile) => IsSeq(thefile.members)
        /\ \A f \in ModulesOf(thefile) : IsSeq(f.segs) /\ IsSeq(f.syms)
    BY <2>1, LibraryAssumption DEF IsModule
  <2>3. CASE IsArchive(thefile)
    <3>1. \A k \in 1..Len(thefile.members) : thefile.members[k] \in ModulesOf(thefile)
      BY <2>2, <2>3, SeqLength DEF ModulesOf
    <3> QED
      BY <2>2, <2>3, <3>1
  <2>4. CASE ~ IsArchive(thefile)
    BY <2>2, <2>4 DEF ModulesOf
  <2> QED
    BY <2>3, <2>4
<1> QED
  BY <1>2, <1>3

\* What pass 1 does with a module: it is loaded, or an error is counted.
LEMMA p1loadKeeps ==
  ASSUME NEW f, IsSeq(f.segs), IsSeq(f.syms), NEW who \in Who, p1load(f, who),
         IsSeq(symtab), errcnt \in Nat, loaded \in Seq(Who), phase = "pass1"
  PROVE  /\ errcnt' \in Nat /\ IsSeq(symtab') /\ loaded' \in Seq(Who) /\ phase' \in {"pass1", "failed"}
         /\ errcnt' = 0 => errcnt = 0 /\ loaded' = Append(loaded, who)
<1>1. CASE kind \notin {"any", KindOf(f)}
  <2>1. errcnt' = errcnt + 1 /\ UNCHANGED <<phase, symtab, loaded>>
    BY <1>1 DEF p1load
  <2> QED
    BY <2>1
<1>2. CASE kind \in {"any", KindOf(f)}
  <2> DEFINE segs == p1doseg(f)
             syms == p1dosym(f, segs.rel, segs.m)
  <2>1. EnterModule(f, who, segs, syms)
    BY <1>2 DEF p1load
  <2>2. segs.err \in Nat /\ HasTable(syms)
    BY p1dosegCounts, p1dosymKeeps
  <2> HIDE DEF segs, syms
  <2>3. /\ errcnt' = errcnt + segs.err + syms.err /\ symtab' = syms.tab /\ loaded' = Append(loaded, who)
        /\ phase' = IF segs.full THEN "failed" ELSE phase
    BY <2>1 DEF EnterModule
  <2>4. syms.err \in Nat /\ IsSeq(syms.tab)
    BY <2>2 DEF HasTable, HasErr
  <2>5. phase' \in {"pass1", "failed"}
    BY <2>3
  <2> QED
    BY <2>2, <2>3, <2>4, <2>5
<1> QED
  BY <1>1, <1>2

\* Pass 0 and the initial state.
LEMMA EmptyIsSeq == IsSeq(<<>>) /\ <<>> \in Seq(PosEntry) /\ <<>> \in Seq(Who) /\ Len(<<>>) = 0
<1>1. <<>> \in Seq({})
  OBVIOUS
<1>2. IsSeq(<<>>)
  BY <1>1, SeqIsSeq
<1> QED
  BY <1>2

LEMMA InitPassInv == LinkerInit => PassInv
<1> SUFFICES ASSUME LinkerInit PROVE PassInv
  OBVIOUS
<1>1. job \in Seq(Commands)
  <2>1. IsSeq(job) /\ ToSet(job) \subseteq Commands
    BY JobsAssumption DEF LinkerInit, Commands
  <2> QED
    BY <2>1, SeqLength
<1>2. ~ IsArchive(made) /\ made.segs = <<>> /\ made.syms = <<>> /\ hdr.order = <<>>
  BY DEF LinkerInit, NothingMade, IsArchive
<1>3. /\ phase = "start" /\ file = 1 /\ member = 1 /\ symtab = <<>> /\ prelist = <<>>
      /\ postab = <<>> /\ loaded = <<>> /\ read2 = <<>>
  BY DEF LinkerInit
<1>4. PassType
  BY <1>1, <1>2, <1>3, EmptyIsSeq DEF PassType
<1>5. ReadSoFar
  BY <1>3 DEF ReadSoFar
<1> QED
  BY <1>3, <1>4, <1>5 DEF PassInv

LEMMA Pass0Keeps ==
  ASSUME PassInv, Pass0
  PROVE  PassInv'
<1>1. PassType /\ job # <<>> /\ phase' = "pass1" /\ file' = 1 /\ member' = 1 /\ UNCHANGED <<job, made>>
  BY DEF Pass0, PassInv
<1>2. IsSeq(cmd.files) /\ IsSeq(cmd.d) /\ IsSeq(cmd.u) /\ \A d \in ToSet(cmd.d) : IsSeq(d.names)
  BY <1>1, CommandFacts
<1>3. postab' = <<>> /\ posndx' = [i \in DOMAIN cmd.files |-> NoModule] /\ errcnt' = 0
      /\ loaded' = <<>> /\ read2' = <<>> /\ hdr'.order = <<>>
  BY DEF Pass0
<1>4. DOMAIN cmd.files = 1..Len(cmd.files) /\ Len(cmd.files) \in Nat
  BY <1>2, SeqLength
<1>5. IsSeq(symtab')
  <2>1. IsSeq(Wanted(cmd.u))
    <3>1. Len(cmd.u) \in Nat /\ DOMAIN cmd.u = 1..Len(cmd.u)
      BY <1>2, SeqLength
    <3>2. Wanted(cmd.u) = [i \in 1..Len(cmd.u) |-> Wanted(cmd.u)[i]]
      BY <3>1 DEF Wanted
    <3> QED
      BY <3>1, <3>2, FunctionIsSeq
  <2>2. symtab' = FoldLeft(dodline, Wanted(cmd.u), cmd.d)
    BY DEF Pass0
  <2> QED
    BY <1>2, <2>1, <2>2, dodlinesKeep
<1>6. IsSeq(prelist')
  BY <1>2, PrelistIsSeq DEF Pass0
<1>7. cmd' = cmd
  BY <1>1 DEF cmd
<1>8. PassType'
  <2>1. /\ IsSeq(hdr'.order) /\ postab' \in Seq(PosEntry) /\ loaded' \in Seq(Who) /\ read2' \in Seq(Who)
    BY <1>3, EmptyIsSeq
  <2>2. (~ IsArchive(made) /\ IsSeq(made.segs) /\ IsSeq(made.syms))'
    BY <1>1 DEF PassType
  <2>3. posndx' \in [1..Len(cmd'.files) -> Int] /\ file' <= Len(cmd'.files) + 1
    BY <1>1, <1>3, <1>4, <1>7 DEF NoModule
  <2>4. job' \in Seq(Commands) /\ job' # <<>>
    BY <1>1 DEF PassType
  <2> QED
    BY <1>1, <1>3, <1>5, <1>6, <2>1, <2>2, <2>3, <2>4 DEF PassType
<1>9. \E start : Pass1At(start)'
  <2> DEFINE start == [i \in {1} |-> 0]
  <2>1. start[1] = 0
    OBVIOUS
  <2> HIDE DEF start
  <2>2. Len(loaded') = 0
    BY <1>3, EmptyIsSeq
  <2>3. \A i \in Nat : 1 <= i /\ i <= Len(cmd'.files) => posndx'[i] = NoModule
    BY <1>3, <1>4, <1>7
  <2>4. Pass1At(start)'
    BY <1>1, <1>4, <1>7, <2>1, <2>2, <2>3 DEF Pass1At, ArchiveSoFar
  <2> QED
    BY <2>4
<1> QED
  BY <1>1, <1>3, <1>8, <1>9 DEF PassInv

\* A file that has been read stays as it was, whatever is loaded after it.
LEMMA DoneStays ==
  ASSUME NEW start, NEW new, NEW i \in Nat, 0 < i, i < file, file \in Nat,
         new[i] = start[i], new[i + 1] = start[i + 1], FileDone(start, i),
         loaded \in Seq(Who), loaded' \in Seq(Who), Len(loaded) <= Len(loaded'),
         \A m \in 1..Len(loaded) : loaded'[m] = loaded[m],
         postab \in Seq(PosEntry), postab' \in Seq(PosEntry), Len(postab) <= Len(postab'),
         \A m \in 1..Len(postab) : postab'[m] = postab[m],
         DOMAIN posndx' = DOMAIN posndx, i \in DOMAIN posndx, file \in DOMAIN posndx,
         \A j \in DOMAIN posndx : posndx[j] \in Int /\ (posndx[j] > 0 \/ j # file => posndx'[j] = posndx[j]),
         posndx[i] > 0 /\ ListEnd(start, i) > Len(postab) =>
           \/ ListEnd(start, i) > Len(postab') \/ postab'[ListEnd(start, i)] = Stop
           \/ posndx'[file] = ListEnd(start, i)
  PROVE  FileDone(new, i)'
<1>1. Len(loaded) \in Nat /\ Len(loaded') \in Nat /\ Len(postab) \in Nat /\ Len(postab') \in Nat
  OBVIOUS
<1>2. posndx'[i] = posndx[i] /\ posndx[i] \in Int
  OBVIOUS
<1>3. start[i] \in Nat /\ start[i + 1] \in Nat /\ start[i + 1] <= Len(loaded) /\ start[i + 1] <= Len(loaded')
  BY <1>1 DEF FileDone
<1>4. CASE posndx[i] = OneModule /\ start[i + 1] = start[i] + 1 /\ loaded[start[i] + 1] = <<i, 0>>
  <2>1. loaded'[start[i] + 1] = <<i, 0>>
    BY <1>1, <1>3, <1>4
  <2> QED
    BY <1>2, <1>3, <1>4, <2>1 DEF FileDone
<1>5. CASE posndx[i] = NoModule /\ start[i + 1] = start[i]
  BY <1>2, <1>3, <1>5 DEF FileDone
<1>6. CASE posndx[i] > 0 /\ start[i + 1] > start[i] /\ ListOf(start, i, start[i + 1]) /\ Ends(start, i)
  <2> DEFINE e == ListEnd(start, i)
  <2>1. e \in Int /\ e > 0
    BY <1>2, <1>3, <1>6 DEF ListEnd
  <2>2. ListEnd(new, i)' = e
    BY <1>2 DEF ListEnd
  <2>3. ListOf(new, i, new[i + 1])'
    <3>1. posndx[i] + start[i + 1] - start[i] - 1 <= Len(postab')
      BY <1>1, <1>2, <1>3, <1>6 DEF ListOf
    <3>2. ASSUME NEW m \in Nat, start[i] < m, m <= start[i + 1]
          PROVE  postab'[posndx[i] + m - start[i] - 1] = loaded'[m] /\ loaded'[m][1] = i
      <4>1. postab[posndx[i] + m - start[i] - 1] = loaded[m] /\ loaded[m][1] = i
        BY <1>6, <3>2 DEF ListOf
      <4>2. m \in 1..Len(loaded) /\ posndx[i] + m - start[i] - 1 \in 1..Len(postab)
        <5> DEFINE a == start[i]
                   b == start[i + 1]
                   p == posndx[i]
                   l == Len(postab)
                   k == Len(loaded)
        <5>1. /\ a \in Nat /\ b \in Nat /\ b <= k /\ p \in Int /\ p > 0 /\ p + b - a - 1 <= l
              /\ a < m /\ m <= b /\ l \in Nat /\ k \in Nat
          BY <1>1, <1>2, <1>3, <1>6, <3>2 DEF ListOf
        <5> HIDE DEF a, b, p, l, k
        <5>2. m \in 1..k /\ p + m - a - 1 \in 1..l
          BY <5>1
        <5> QED
          BY <5>2 DEF a, p, l, k
      <4> QED
        BY <4>1, <4>2
    <3> QED
      BY <1>2, <3>1, <3>2 DEF ListOf
  <2>4. Ends(new, i)'
    <3>1. CASE e > Len(postab)
      <4>1. e > Len(postab') \/ postab'[e] = Stop \/ posndx'[file] = e
        BY <1>6, <3>1
      <4> QED
        BY <2>2, <4>1 DEF Ends
    <3>2. CASE e <= Len(postab) /\ postab[e] = Stop
      <4>1. postab'[e] = Stop
        BY <2>1, <3>2
      <4> QED
        BY <2>2, <4>1 DEF Ends
    <3>3. CASE \E j \in DOMAIN posndx : j > i /\ posndx[j] = e
      <4>1. PICK j \in DOMAIN posndx : j > i /\ posndx[j] = e
        BY <3>3
      <4>2. posndx'[j] = e
        BY <2>1, <4>1
      <4> QED
        BY <2>2, <4>1, <4>2 DEF Ends
    <3> QED
      BY <1>1, <1>6, <2>1, <3>1, <3>2, <3>3 DEF Ends
  <2> QED
    BY <1>2, <1>3, <1>6, <2>3, <2>4 DEF FileDone
<1> QED
  BY <1>4, <1>5, <1>6 DEF FileDone

\* The frame of the steps of pass 1.
LEMMA Pass1Type ==
  ASSUME PassInv, InPass1, UNCHANGED <<job, made, prelist, hdr, read2>>,
         phase' \in {"pass1", "failed"}, errcnt' \in Nat, IsSeq(symtab'), loaded' \in Seq(Who),
         file' \in {file, file + 1}, member' \in Nat \ {0}, postab' \in Seq(PosEntry),
         posndx' \in [1..Len(cmd.files) -> Int],
         phase' = "pass1" /\ errcnt' = 0 => \E start : Pass1At(start)'
  PROVE  PassInv'
<1>1. PassType /\ phase = "pass1" /\ job # <<>> /\ file <= Len(cmd.files) /\ read2 = <<>>
  BY DEF PassInv, InPass1
<1>2. cmd' = cmd /\ Len(cmd.files) \in Nat
  BY <1>1, CommandFacts, SeqLength DEF cmd
<1>3. file \in Nat /\ file' \in Nat \ {0} /\ file' <= Len(cmd'.files) + 1
  BY <1>1, <1>2 DEF PassType
<1>4. (~ IsArchive(made) /\ IsSeq(made.segs) /\ IsSeq(made.syms))' /\ IsSeq(hdr'.order) /\ IsSeq(prelist')
  BY <1>1 DEF PassType
<1>5. PassType'
  BY <1>1, <1>2, <1>3, <1>4 DEF PassType
<1>6. ReadSoFar'
  <2>1. read2' = <<>> /\ Len(read2') = 0 /\ Len(loaded') \in Nat
    BY <1>1, EmptyIsSeq
  <2> QED
    BY <2>1 DEF ReadSoFar
<1> QED
  BY <1>1, <1>5, <1>6 DEF PassInv

\* The next file: what was done stays, the file is done, and the others have not been read.
LEMMA NextFile1 ==
  ASSUME NEW start, NEW new, Pass1At(start), NEW f \in Nat \ {0}, f = file, f <= Len(cmd.files), Len(cmd.files) \in Nat,
         file' = file + 1, UNCHANGED cmd,
         \A i \in Nat : 0 < i /\ i <= file => new[i] = start[i],
         new[file + 1] = Len(loaded'),
         loaded \in Seq(Who), loaded' \in Seq(Who), Len(loaded) <= Len(loaded'),
         \A m \in 1..Len(loaded) : loaded'[m] = loaded[m],
         postab \in Seq(PosEntry), postab' \in Seq(PosEntry), Len(postab) <= Len(postab'),
         \A m \in 1..Len(postab) : postab'[m] = postab[m],
         posndx \in [1..Len(cmd.files) -> Int], posndx' \in [1..Len(cmd.files) -> Int],
         \A j \in DOMAIN posndx : posndx[j] > 0 \/ j # file => posndx'[j] = posndx[j],
         postab' = postab \/ postab' = Append(postab, Stop),
         FileDone(new, f)', posndx'[f] > 0 => ListEnd(new, f)' <= Len(postab') + 1
  PROVE  Pass1At(new)'
<1>1. ASSUME NEW i \in Nat, 0 < i, i < file
      PROVE  FileDone(new, i)' /\ (posndx'[i] > 0 => ListEnd(new, i)' <= Len(postab') + 1)
  <2>1. FileDone(start, i) /\ (posndx[i] > 0 => ListEnd(start, i) <= Len(postab) + 1)
    BY <1>1 DEF Pass1At
  <2>2. i \in DOMAIN posndx /\ file \in DOMAIN posndx /\ posndx'[i] = posndx[i] /\ posndx[i] \in Int
    <3>1. i \in 1..Len(cmd.files) /\ file \in 1..Len(cmd.files) /\ i # file
      BY <1>1
    <3>2. DOMAIN posndx = 1..Len(cmd.files) /\ \A j \in 1..Len(cmd.files) : posndx[j] \in Int
      OBVIOUS
    <3> QED
      BY <3>1, <3>2
  <2>3. new[i] = start[i] /\ new[i + 1] = start[i + 1]
    BY <1>1
  <2>4. Len(postab) \in Nat /\ Len(postab') \in Nat /\ ListEnd(new, i)' = ListEnd(start, i)
    BY <2>2, <2>3 DEF ListEnd
  <2>5. ASSUME posndx[i] > 0 PROVE ListEnd(start, i) \in Int
    BY <2>1, <2>2 DEF FileDone, ListEnd
  <2>6. ASSUME posndx[i] > 0, ListEnd(start, i) > Len(postab)
        PROVE  ListEnd(start, i) > Len(postab') \/ postab'[ListEnd(start, i)] = Stop
    <3>1. ListEnd(start, i) = Len(postab) + 1
      BY <2>1, <2>4, <2>5, <2>6
    <3> QED
      BY <3>1, <2>4, Stop \in PosEntry, Appended DEF PosEntry
  <2>7. FileDone(new, i)'
    BY <1>1, <2>1, <2>2, <2>3, <2>6, DoneStays
  <2> QED
    BY <2>1, <2>2, <2>4, <2>5, <2>7
<1>2. \A i \in Nat : 0 < i /\ i < file' =>
        FileDone(new, i)' /\ (posndx'[i] > 0 => ListEnd(new, i)' <= Len(postab') + 1)
  <2> SUFFICES ASSUME NEW i \in Nat, 0 < i, i < file'
               PROVE  FileDone(new, i)' /\ (posndx'[i] > 0 => ListEnd(new, i)' <= Len(postab') + 1)
    OBVIOUS
  <2>1. CASE i < file
    BY <1>1, <2>1
  <2>2. CASE i = f
    BY <2>2
  <2>3. i < file \/ i = f
    OBVIOUS
  <2> QED
    BY <2>1, <2>2, <2>3
<1>3. new[1] = 0 /\ new[file'] = Len(loaded') /\ Len(loaded') \in Nat
  BY DEF Pass1At
<1>4. \A i \in Nat : file' < i /\ i <= Len(cmd'.files) => posndx'[i] = NoModule
  BY DEF Pass1At
<1>5. file' <= Len(cmd'.files) => ArchiveSoFar(new)'
  <2> SUFFICES ASSUME file' <= Len(cmd.files) PROVE ArchiveSoFar(new)'
    OBVIOUS
  <2>1. posndx[file + 1] = NoModule
    BY DEF Pass1At
  <2>2. posndx'[file + 1] = NoModule
    BY <2>1
  <2> QED
    BY <1>3, <2>2 DEF ArchiveSoFar
<1> QED
  BY <1>2, <1>3, <1>4, <1>5 DEF Pass1At

Extension(start, n, x) == [i \in 1..(n + 1) |-> IF i <= n THEN start[i] ELSE x]

LEMMA Extended ==
  ASSUME NEW start, NEW n \in Nat, NEW x
  PROVE  /\ \A i \in Nat : 0 < i /\ i <= n => Extension(start, n, x)[i] = start[i]
         /\ Extension(start, n, x)[n + 1] = x
BY DEF Extension

LEMMA Pass1ObjectKeeps ==
  ASSUME PassInv, Pass1Object
  PROVE  PassInv'
<1>1. InPass1 /\ ~ IsArchive(thefile) /\ posndx' = [posndx EXCEPT ![file] = OneModule]
      /\ p1load(thefile, <<file, 0>>) /\ file' = file + 1
      /\ UNCHANGED <<job, member, prelist, postab, hdr, made, read2>>
  BY DEF Pass1Object
<1>2. PassType /\ phase = "pass1" /\ job # <<>> /\ file <= Len(cmd.files) /\ errcnt \in Nat
  BY <1>1 DEF PassInv, PassType, InPass1
<1>3. cmd' = cmd /\ Len(cmd.files) \in Nat /\ file \in Nat \ {0}
  BY <1>1, <1>2, CommandFacts, SeqLength DEF cmd, PassType
<1>4. <<file, 0>> \in Who
  BY <1>3 DEF Who
<1>5. IsSeq(symtab) /\ loaded \in Seq(Who) /\ postab \in Seq(PosEntry) /\ posndx \in [1..Len(cmd.files) -> Int] /\ member \in Nat \ {0}
  BY <1>2 DEF PassType
<1>6. /\ errcnt' \in Nat /\ IsSeq(symtab') /\ loaded' \in Seq(Who) /\ phase' \in {"pass1", "failed"}
      /\ errcnt' = 0 => errcnt = 0 /\ loaded' = Append(loaded, <<file, 0>>)
  BY <1>1, <1>2, <1>4, <1>5, FileFacts, p1loadKeeps
<1>7. posndx' \in [1..Len(cmd.files) -> Int] /\ posndx'[file] = OneModule
      /\ \A j \in DOMAIN posndx : j # file => posndx'[j] = posndx[j]
  BY <1>1, <1>2, <1>3, <1>5 DEF OneModule
<1>8. ASSUME errcnt' = 0 PROVE \E start : Pass1At(start)'
  <2>1. PICK start : Pass1At(start)
    BY <1>2, <1>6, <1>8 DEF PassInv
  <2>2. loaded' = Append(loaded, <<file, 0>>)
    BY <1>6, <1>8
  <2>3. posndx[file] = NoModule /\ start[file] = Len(loaded)
    BY <1>1, <1>2, <2>1 DEF Pass1At, ArchiveSoFar
  <2>4. Len(loaded) \in Nat /\ Len(loaded') = Len(loaded) + 1 /\ loaded'[Len(loaded) + 1] = <<file, 0>>
        /\ \A m \in 1..Len(loaded) : loaded'[m] = loaded[m]
    BY <1>4, <1>5, <2>2, Appended
  <2>0. PICK new : new = Extension(start, file, Len(loaded'))
    OBVIOUS
  <2>5. (\A i \in Nat : 0 < i /\ i <= file => new[i] = start[i]) /\ new[file + 1] = Len(loaded')
    <3>1. file \in Nat
      BY <1>3
    <3>2. /\ \A i \in Nat : 0 < i /\ i <= file => Extension(start, file, Len(loaded'))[i] = start[i]
          /\ Extension(start, file, Len(loaded'))[file + 1] = Len(loaded')
      BY <3>1, Extended
    <3> QED
      BY <2>0, <3>2
  <2>6. ASSUME NEW g \in Nat, g = file PROVE FileDone(new, g)'
    <3>1. new[g] = Len(loaded) /\ new[g + 1] = Len(loaded) + 1 /\ posndx'[g] = OneModule
      BY <1>3, <1>7, <2>3, <2>4, <2>5, <2>6
    <3>2. loaded'[new[g] + 1] = <<g, 0>>
      BY <2>4, <2>6, <3>1
    <3>3. Len(loaded') = Len(loaded) + 1 /\ Len(loaded) \in Nat
      BY <2>4
    <3> QED
      BY <3>1, <3>2, <3>3 DEF FileDone
  <2>7. \A j \in DOMAIN posndx : posndx[j] > 0 \/ j # file => posndx'[j] = posndx[j]
    BY <1>7, <2>3 DEF NoModule
  <2>8. ~ (posndx'[file] > 0)
    BY <1>7 DEF OneModule
  <2>9. Len(postab) \in Nat /\ postab' = postab
    BY <1>1, <1>5
  <2>10. PICK g \in Nat \ {0} : g = file
    BY <1>3
  <2>11. FileDone(new, g)' /\ ~ (posndx'[g] > 0) /\ g <= Len(cmd.files)
    BY <1>2, <2>6, <2>8, <2>10
  <2>12. Len(loaded) <= Len(loaded') /\ Len(postab) <= Len(postab') /\ \A m \in 1..Len(postab) : postab'[m] = postab[m]
    BY <2>4, <2>9
  <2>13. Pass1At(new)'
    BY <1>1, <1>2, <1>3, <1>5, <1>6, <1>7, <2>1, <2>4, <2>5, <2>7, <2>9, <2>10, <2>11, <2>12, NextFile1
  <2> QED
    BY <2>13
<1> QED
  BY <1>1, <1>2, <1>3, <1>5, <1>6, <1>7, <1>8, Pass1Type

\* A member more of the archive that is read.
LEMMA MemberMore ==
  ASSUME NEW start, Pass1At(start), PassType, phase = "pass1", job # <<>>,
         NEW f \in Nat, f = file, 0 < f, f <= Len(cmd.files), Len(cmd.files) \in Nat, NEW w \in Who, w[1] = f,
         IsArchive(thefile), UNCHANGED <<file, cmd, thefile>>,
         loaded' = Append(loaded, w), postab' = Append(postab, w),
         posndx' = [posndx EXCEPT ![file] = IF @ <= 0 THEN Len(postab) + 1 ELSE @]
  PROVE  Pass1At(start)'
<1>1. /\ posndx \in [1..Len(cmd.files) -> Int] /\ f \in DOMAIN posndx /\ DOMAIN posndx' = DOMAIN posndx
      /\ DOMAIN posndx = 1..Len(cmd.files) /\ \A j \in DOMAIN posndx : posndx[j] \in Int
  <2>1. posndx \in [1..Len(cmd.files) -> Int]
    BY DEF PassType
  <2>2. f \in 1..Len(cmd.files)
    OBVIOUS
  <2> QED
    BY <2>1, <2>2
<1>2. /\ Len(loaded) \in Nat /\ Len(loaded') = Len(loaded) + 1 /\ loaded' \in Seq(Who) /\ loaded \in Seq(Who)
      /\ loaded'[Len(loaded) + 1] = w /\ \A m \in 1..Len(loaded) : loaded'[m] = loaded[m]
  BY Appended DEF PassType
<1>3. /\ Len(postab) \in Nat /\ Len(postab') = Len(postab) + 1 /\ postab' \in Seq(PosEntry) /\ postab \in Seq(PosEntry)
      /\ postab'[Len(postab) + 1] = w /\ \A m \in 1..Len(postab) : postab'[m] = postab[m]
  BY Appended, w \in PosEntry DEF PassType, PosEntry
<1>4. \A j \in DOMAIN posndx : j # f => posndx'[j] = posndx[j]
  BY <1>1
<1>5. start[f] \in Nat /\ start[1] = 0 /\ ArchiveSoFar(start)
  BY DEF Pass1At
<1>6. posndx[f] > 0 => posndx'[f] = posndx[f]
  BY <1>1
<1>7. ArchiveSoFar(start)'
  <2>p. PICK p \in Int : p = posndx[f]
    BY <1>1
  <2>a. PICK a \in Nat : a = start[f]
    BY <1>5
  <2>l. PICK l \in Nat : l = Len(loaded)
    BY <1>2
  <2>k. PICK k \in Nat : k = Len(postab)
    BY <1>3
  <2>L. Len(loaded') = l + 1 /\ loaded'[l + 1] = w /\ \A m \in 1..l : loaded'[m] = loaded[m]
    BY <1>2, <2>l
  <2>K. Len(postab') = k + 1 /\ postab'[k + 1] = w /\ \A m \in 1..k : postab'[m] = postab[m]
    BY <1>3, <2>k
  <2>0. IsArchive(thefile)' /\ file' = f
    BY DEF IsArchive
  <2>1. ASSUME p = NoModule, a = l PROVE ArchiveSoFar(start)'
    <3>1. posndx'[f] = k + 1
      BY <1>1, <2>1, <2>p, <2>k DEF NoModule
    <3>2. ASSUME NEW m \in Nat, a < m, m <= l + 1
          PROVE  postab'[k + 1 + m - a - 1] = loaded'[m] /\ loaded'[m][1] = f
      <4>1. m = l + 1 /\ k + 1 + m - a - 1 = k + 1
        BY <2>1, <3>2
      <4> QED
        BY <4>1, <2>L, <2>K
    <3>3. ListOf(start, f, l + 1)'
      <4>1. k + 1 + (l + 1) - a - 1 <= Len(postab')
        BY <2>1, <2>K
      <4> QED
        BY <2>a, <3>1, <3>2, <4>1 DEF ListOf
    <3>4. ASSUME NEW i \in Nat, 0 < i, i < f, posndx'[i] > 0 PROVE ListEnd(start, i)' <= posndx'[f]
      <4>1. posndx'[i] = posndx[i] /\ i # f
        BY <1>1, <1>4, <3>4
      <4>2. ListEnd(start, i) <= k + 1
        BY <3>4, <4>1, <2>k DEF Pass1At
      <4> QED
        BY <3>1, <4>1, <4>2 DEF ListEnd
    <3>5. posndx'[f] > 0 /\ start[f] < Len(loaded') /\ posndx'[f] + Len(loaded') - start[f] = Len(postab') + 1
      <4>1. k + 1 > 0 /\ a < l + 1 /\ (k + 1) + (l + 1) - a = (k + 1) + 1
        BY <2>1
      <4> QED
        BY <3>1, <4>1, <2>a, <2>L, <2>K
    <3>6. ListOf(start, f, Len(loaded))'
      BY <3>3, <2>L DEF ListOf
    <3> QED
      BY <2>0, <3>4, <3>5, <3>6 DEF ArchiveSoFar
  <2>2. ASSUME p > 0, a < l, ListOf(start, f, l), p + l - a = k + 1,
               \A i \in Nat : 0 < i /\ i < f /\ posndx[i] > 0 => ListEnd(start, i) <= p
        PROVE  ArchiveSoFar(start)'
    <3>1. posndx'[f] = p
      BY <1>6, <2>2, <2>p
    <3>2. ASSUME NEW m \in Nat, a < m, m <= l + 1
          PROVE  postab'[p + m - a - 1] = loaded'[m] /\ loaded'[m][1] = f
      <4>1. CASE m = l + 1
        <5>1. p + m - a - 1 = k + 1
          BY <2>2, <4>1
        <5>2. postab'[p + m - a - 1] = w /\ loaded'[m] = w
          BY <4>1, <5>1, <2>L, <2>K
        <5> QED
          BY <5>2
      <4>2. CASE m <= l
        <5>1. m \in 1..l /\ p + m - a - 1 \in 1..k
          BY <2>2, <3>2, <4>2
        <5>2. postab[p + m - a - 1] = loaded[m] /\ loaded[m][1] = f
          BY <2>2, <3>2, <4>2, <2>p, <2>a DEF ListOf
        <5> DEFINE x == p + m - a - 1
        <5> HIDE DEF x
        <5>3. loaded'[m] = loaded[m] /\ postab'[x] = postab[x]
          BY <5>1, <2>L, <2>K DEF x
        <5>4. postab[x] = loaded[m] /\ loaded[m][1] = f
          BY <5>2 DEF x
        <5>5. postab'[x] = loaded'[m] /\ loaded'[m][1] = f
          BY <5>3, <5>4
        <5> QED
          BY <5>5 DEF x
      <4>3. m = l + 1 \/ m <= l
        BY <3>2
      <4> QED
        BY <4>1, <4>2, <4>3
    <3>3. p + (l + 1) - a - 1 <= Len(postab')
      BY <2>2, <2>K
    <3>4. ASSUME NEW i \in Nat, 0 < i, i < f, posndx'[i] > 0 PROVE ListEnd(start, i)' <= posndx'[f]
      <4>1. posndx'[i] = posndx[i] /\ i # f
        BY <1>1, <1>4, <3>4
      <4>2. ListEnd(start, i) <= p
        BY <2>2, <3>4, <4>1
      <4> QED
        BY <3>1, <4>1, <4>2 DEF ListEnd
    <3>5. p > 0 /\ a < l + 1 /\ p + (l + 1) - a = Len(postab') + 1
      BY <2>2, <2>K
    <3>6. ListOf(start, f, l + 1)'
      BY <2>a, <3>1, <3>2, <3>3 DEF ListOf
    <3>7. posndx'[f] > 0 /\ start[f] < Len(loaded') /\ posndx'[f] + Len(loaded') - start[f] = Len(postab') + 1
      BY <3>1, <3>5, <2>a, <2>L
    <3>8. ListOf(start, f, Len(loaded))'
      BY <3>6, <2>L DEF ListOf
    <3> QED
      BY <2>0, <3>4, <3>7, <3>8 DEF ArchiveSoFar
  <2>3. \/ posndx[f] = NoModule /\ start[f] = Len(loaded)
        \/ /\ posndx[f] > 0 /\ start[f] < Len(loaded) /\ ListOf(start, f, Len(loaded))
           /\ posndx[f] + Len(loaded) - start[f] = Len(postab) + 1
           /\ \A i \in Nat : 0 < i /\ i < f /\ posndx[i] > 0 => ListEnd(start, i) <= posndx[f]
    BY <1>5 DEF ArchiveSoFar
  <2> QED
    BY <2>1, <2>2, <2>3, <2>p, <2>a, <2>l, <2>k
<1>8. ASSUME NEW i \in Nat, 0 < i, i < file
      PROVE  FileDone(start, i)' /\ (posndx'[i] > 0 => ListEnd(start, i)' <= Len(postab') + 1)
  <2>1. FileDone(start, i) /\ (posndx[i] > 0 => ListEnd(start, i) <= Len(postab) + 1)
    BY <1>8 DEF Pass1At
  <2>2. i \in DOMAIN posndx /\ posndx'[i] = posndx[i] /\ posndx[i] \in Int /\ i # f
    <3>1. i \in 1..Len(cmd.files) /\ i # f
      BY <1>8
    <3> QED
      BY <1>1, <1>4, <3>1
  <2>3. ListEnd(start, i)' = ListEnd(start, i)
    BY <2>2 DEF ListEnd
  <2>4. ASSUME posndx[i] > 0 PROVE ListEnd(start, i) \in Int
    BY <2>1, <2>2, <2>4 DEF FileDone, ListEnd
  <2>5. ASSUME posndx[i] > 0, ListEnd(start, i) > Len(postab) PROVE posndx'[file] = ListEnd(start, i)
    <3>1. ListEnd(start, i) = Len(postab) + 1
      BY <1>3, <2>1, <2>4, <2>5
    <3>2. CASE posndx[f] = NoModule
      BY <1>1, <3>1, <3>2 DEF NoModule
    <3>3. CASE /\ posndx[f] > 0 /\ start[f] < Len(loaded)
               /\ posndx[f] + Len(loaded) - start[f] = Len(postab) + 1
               /\ ListEnd(start, i) <= posndx[f]
      BY <1>1, <1>2, <1>3, <1>5, <3>1, <3>3
    <3> QED
      BY <1>5, <1>8, <2>5, <3>2, <3>3 DEF ArchiveSoFar
  <2>6. Len(loaded) <= Len(loaded') /\ Len(postab) <= Len(postab')
    BY <1>2, <1>3
  <2>7. \A j \in DOMAIN posndx : posndx[j] \in Int /\ (posndx[j] > 0 \/ j # file => posndx'[j] = posndx[j])
    BY <1>1, <1>4, <1>6
  <2>8. FileDone(start, i)'
    BY <1>1, <1>2, <1>3, <1>8, <2>1, <2>2, <2>5, <2>6, <2>7, DoneStays
  <2> QED
    BY <1>3, <2>1, <2>2, <2>3, <2>4, <2>8
<1>9. \A i \in Nat : file < i /\ i <= Len(cmd.files) => posndx'[i] = NoModule
  <2> SUFFICES ASSUME NEW i \in Nat, file < i, i <= Len(cmd.files) PROVE posndx'[i] = NoModule
    OBVIOUS
  <2>1. i \in 1..Len(cmd.files) /\ i # f
    OBVIOUS
  <2>2. posndx[i] = NoModule
    BY DEF Pass1At
  <2> QED
    BY <1>1, <1>4, <2>1, <2>2
<1> QED
  BY <1>5, <1>7, <1>8, <1>9 DEF Pass1At

LEMMA Pass1MemberKeeps ==
  ASSUME PassInv, Pass1Member
  PROVE  PassInv'
<1> DEFINE f == thefile.members[member]
<1>1. InPass1 /\ IsArchive(thefile) /\ udefcnt > 0 /\ member <= Len(thefile.members) /\ member' = member + 1
      /\ UNCHANGED <<job, file, prelist, hdr, made, read2>>
  BY DEF Pass1Member
<1>2. PassType /\ phase = "pass1" /\ job # <<>> /\ file <= Len(cmd.files) /\ errcnt \in Nat
  BY <1>1 DEF PassInv, PassType, InPass1
<1>3. cmd' = cmd /\ Len(cmd.files) \in Nat /\ file \in Nat \ {0} /\ member \in Nat \ {0} /\ thefile' = thefile
  <2>1. Len(cmd.files) \in Nat
    BY <1>2, CommandFacts, SeqLength
  <2> QED
    BY <1>1, <1>2, <2>1 DEF cmd, PassType, thefile, FileOf
<1>4. IsSeq(f.segs) /\ IsSeq(f.syms)
  <2>1. IsSeq(thefile.members) /\ \A k \in 1..Len(thefile.members) : IsSeq(thefile.members[k].segs) /\ IsSeq(thefile.members[k].syms)
    BY <1>1, <1>2, FileFacts
  <2>2. member \in 1..Len(thefile.members)
    BY <1>1, <1>3, <2>1, SeqLength
  <2> QED
    BY <2>1, <2>2
<1>5. IsSeq(symtab) /\ loaded \in Seq(Who) /\ postab \in Seq(PosEntry) /\ posndx \in [1..Len(cmd.files) -> Int]
  BY <1>2 DEF PassType
<1>6. <<file, member>> \in Who /\ <<file, member>> \in PosEntry
  BY <1>3 DEF Who, PosEntry
<1> HIDE DEF f
<1>7. CASE trysim(f)
  <2>1. /\ posndx' = [posndx EXCEPT ![file] = IF @ <= 0 THEN Len(postab) + 1 ELSE @]
        /\ postab' = Append(postab, <<file, member>>) /\ p1load(f, <<file, member>>)
    BY <1>7 DEF Pass1Member, f
  <2>2. /\ errcnt' \in Nat /\ IsSeq(symtab') /\ loaded' \in Seq(Who) /\ phase' \in {"pass1", "failed"}
        /\ errcnt' = 0 => errcnt = 0 /\ loaded' = Append(loaded, <<file, member>>)
    BY <1>2, <1>4, <1>5, <1>6, <2>1, p1loadKeeps
  <2>3. posndx' \in [1..Len(cmd.files) -> Int] /\ postab' \in Seq(PosEntry)
    <3>1. Len(postab) + 1 \in Int
      BY <1>5
    <3> QED
      BY <1>5, <1>6, <2>1, <3>1, Appended
  <2>4. ASSUME errcnt' = 0 PROVE \E start : Pass1At(start)'
    <3>1. PICK start : Pass1At(start)
      BY <1>2, <2>2, <2>4 DEF PassInv
    <3>2. PICK g \in Nat : g = file
      BY <1>3
    <3>3. PICK w \in Who : w = <<file, member>>
      BY <1>6
    <3>4. w[1] = g /\ 0 < g /\ g <= Len(cmd.files)
      BY <1>2, <1>3, <3>2, <3>3
    <3>5. loaded' = Append(loaded, w) /\ postab' = Append(postab, w)
      BY <2>1, <2>2, <2>4, <3>3
    <3>6. Pass1At(start)'
      BY <1>1, <1>2, <1>3, <2>1, <3>1, <3>2, <3>4, <3>5, MemberMore
    <3> QED
      BY <3>6
  <2> QED
    BY <1>1, <1>2, <1>3, <2>2, <2>3, <2>4, Pass1Type
<1>8. CASE ~ trysim(f)
  <2>1. UNCHANGED <<phase, posndx, postab, symtab, errcnt, loaded>>
    BY <1>8 DEF Pass1Member, f
  <2>2. ASSUME NEW start, Pass1At(start) PROVE Pass1At(start)'
    <3>1. UNCHANGED <<file, cmd, thefile, posndx, postab, loaded>>
      BY <1>1, <1>3, <2>1
    <3>2. \A i : FileDone(start, i) => FileDone(start, i)'
      BY <3>1 DEF FileDone, ListOf, Ends, ListEnd
    <3>3. \A i : (posndx[i] > 0 => ListEnd(start, i) <= Len(postab) + 1) =>
                 (posndx[i] > 0 => ListEnd(start, i) <= Len(postab) + 1)'
      BY <3>1 DEF ListEnd
    <3>4. ArchiveSoFar(start) => ArchiveSoFar(start)'
      BY <3>1 DEF ArchiveSoFar, ListOf, ListEnd, IsArchive
    <3> QED
      BY <2>2, <3>1, <3>2, <3>3, <3>4 DEF Pass1At
  <2>3. errcnt' = 0 => \E start : Pass1At(start)'
    BY <1>2, <2>1, <2>2 DEF PassInv
  <2> QED
    BY <1>1, <1>2, <1>3, <1>5, <2>1, <2>3, Pass1Type
<1> QED
  BY <1>7, <1>8

LEMMA Pass1EndArchiveKeeps ==
  ASSUME PassInv, Pass1EndArchive
  PROVE  PassInv'
<1>1. /\ InPass1 /\ IsArchive(thefile) /\ postab' = EndOfArchive /\ file' = file + 1 /\ member' = 1
      /\ UNCHANGED <<job, phase, symtab, prelist, posndx, errcnt, hdr, made, loaded, read2>>
  BY DEF Pass1EndArchive, output, history
<1>2. PassType /\ phase = "pass1" /\ job # <<>> /\ file <= Len(cmd.files) /\ errcnt \in Nat
  BY <1>1 DEF PassInv, PassType, InPass1
<1>3. cmd' = cmd /\ Len(cmd.files) \in Nat /\ file \in Nat \ {0}
  BY <1>1, <1>2, CommandFacts, SeqLength DEF cmd, PassType
<1>4. IsSeq(symtab) /\ loaded \in Seq(Who) /\ postab \in Seq(PosEntry) /\ posndx \in [1..Len(cmd.files) -> Int]
  BY <1>2 DEF PassType
<1>5. /\ postab' = postab \/ postab' = Append(postab, Stop)
      /\ postab' \in Seq(PosEntry) /\ Len(postab) \in Nat /\ Len(postab') \in Nat /\ Len(postab) <= Len(postab')
      /\ \A m \in 1..Len(postab) : postab'[m] = postab[m]
      /\ postab'[Len(postab) + 1] = Stop \/ Len(postab') = Len(postab)
  <2>1. postab' = postab \/ postab' = Append(postab, Stop)
    BY <1>1 DEF EndOfArchive
  <2>2. Stop \in PosEntry
    BY DEF PosEntry
  <2>3. CASE postab' = postab
    BY <1>4, <2>3
  <2>4. CASE postab' = Append(postab, Stop)
    <3>1. Append(postab, Stop) \in Seq(PosEntry) /\ Len(Append(postab, Stop)) = Len(postab) + 1
          /\ Append(postab, Stop)[Len(postab) + 1] = Stop
          /\ \A i \in 1..Len(postab) : Append(postab, Stop)[i] = postab[i]
      BY <1>4, <2>2, Appended
    <3>2. Len(postab) \in Nat
      BY <1>4
    <3> QED
      BY <2>4, <3>1, <3>2
  <2> QED
    BY <2>1, <2>3, <2>4
<1>6. ASSUME errcnt' = 0 PROVE \E start : Pass1At(start)'
  <2>1. PICK start : Pass1At(start)
    BY <1>1, <1>2, <1>6 DEF PassInv
  <2>l. PICK l \in Nat : l = Len(loaded)
    BY <1>4
  <2>2. PICK new : new = Extension(start, file, l)
    OBVIOUS
  <2>3. (\A i \in Nat : 0 < i /\ i <= file => new[i] = start[i]) /\ new[file + 1] = Len(loaded')
    <3>1. file \in Nat
      BY <1>3
    <3>2. /\ \A i \in Nat : 0 < i /\ i <= file => Extension(start, file, l)[i] = start[i]
          /\ Extension(start, file, l)[file + 1] = l
      BY <3>1, Extended
    <3> QED
      BY <1>1, <2>2, <2>l, <3>2
  <2>4. PICK g \in Nat \ {0} : g = file
    BY <1>3
  <2>5. new[g] = start[g] /\ new[g + 1] = Len(loaded) /\ Len(loaded) \in Nat /\ start[g] \in Nat
        /\ posndx[g] \in Int
    <3>1. new[g] = start[g] /\ new[g + 1] = Len(loaded) /\ Len(loaded) \in Nat
      BY <1>1, <1>4, <2>3, <2>4
    <3>2. start[g] \in Nat
      BY <2>1, <2>4 DEF Pass1At
    <3>3. g \in 1..Len(cmd.files)
      BY <1>2, <1>3, <2>4
    <3> QED
      BY <1>4, <3>1, <3>2, <3>3
  <2>6. FileDone(new, g)' /\ (posndx'[g] > 0 => ListEnd(new, g)' <= Len(postab') + 1)
    <3>1. CASE posndx[g] = NoModule /\ start[g] = Len(loaded)
      BY <1>1, <2>5, <3>1 DEF FileDone, NoModule
    <3>2. CASE /\ posndx[g] > 0 /\ start[g] < Len(loaded) /\ ListOf(start, g, Len(loaded))
               /\ posndx[g] + Len(loaded) - start[g] = Len(postab) + 1
      <4>1. ListEnd(new, g)' = Len(postab) + 1
        BY <1>1, <2>5, <3>2 DEF ListEnd
      <4>2. Ends(new, g)'
        <5>1. Len(postab) + 1 > Len(postab') \/ postab'[Len(postab) + 1] = Stop
          BY <1>5
        <5> QED
          BY <4>1, <5>1 DEF Ends
      <4>3. ListOf(new, g, Len(loaded))'
        <5>1. posndx[g] + Len(loaded) - start[g] - 1 <= Len(postab')
          BY <1>5, <2>5, <3>2
        <5>2. ASSUME NEW m \in Nat, start[g] < m, m <= Len(loaded)
              PROVE  postab'[posndx[g] + m - start[g] - 1] = loaded[m] /\ loaded[m][1] = g
          <6>p. PICK p \in Int : p = posndx[g]
            BY <2>5
          <6>a. PICK a \in Nat : a = start[g]
            BY <2>5
          <6>k. PICK k \in Nat : k = Len(postab)
            BY <1>5
          <6>x. PICK x \in Int : x = p + m - a - 1
            OBVIOUS
          <6>1. postab[x] = loaded[m] /\ loaded[m][1] = g
            BY <3>2, <5>2, <6>p, <6>a, <6>x DEF ListOf
          <6>2. p > 0 /\ a < m /\ m <= l /\ p + l - a = k + 1
            BY <3>2, <5>2, <6>p, <6>a, <2>l, <6>k
          <6>3. x \in 1..k
            BY <6>2, <6>x
          <6>4. postab'[x] = postab[x]
            BY <1>5, <6>3, <6>k
          <6> QED
            BY <6>1, <6>4, <6>x, <6>p, <6>a
        <5> QED
          BY <1>1, <2>5, <5>1, <5>2 DEF ListOf
      <4> QED
        BY <1>1, <1>5, <2>5, <3>2, <4>1, <4>2, <4>3 DEF FileDone
    <3> QED
      BY <1>2, <2>1, <2>4, <3>1, <3>2 DEF Pass1At, ArchiveSoFar
  <2>7. g <= Len(cmd.files) /\ Len(loaded) <= Len(loaded') /\ \A m \in 1..Len(loaded) : loaded'[m] = loaded[m]
    BY <1>1, <1>2, <2>4, <2>5
  <2>8. \A j \in DOMAIN posndx : posndx[j] > 0 \/ j # file => posndx'[j] = posndx[j]
    BY <1>1
  <2>9. loaded' \in Seq(Who) /\ posndx' \in [1..Len(cmd.files) -> Int]
    BY <1>1, <1>4
  <2>10. Pass1At(new)'
    BY <1>1, <1>3, <1>4, <1>5, <2>1, <2>3, <2>4, <2>6, <2>7, <2>8, <2>9, NextFile1
  <2> QED
    BY <2>10
<1> QED
  BY <1>1, <1>2, <1>3, <1>4, <1>5, <1>6, Pass1Type

LEMMA SegOrderIsSeq ==
  ASSUME IsSeq(prelist), NEW t
  PROVE  IsSeq(SegOrder(t))
<1> DEFINE used == {i \in Segments : t[i].siz > 0}
           numbers == [i \in 1..SEGNO |-> i - 1]
           rest == used \ ToSet(prelist)
<1>1. SEGNO \in Nat
  BY LinkerAssumption
<1>2. IsSeq(numbers)
  BY <1>1, FunctionIsSeq
<1> HIDE DEF numbers, used, rest
<1>3. Among(prelist, used) \in Seq(used) /\ Among(numbers, rest) \in Seq(rest)
  BY <1>2, AmongIsSeq
<1> DEFINE T == used \cup rest
<1>4. Among(prelist, used) \in Seq(T) /\ Among(numbers, rest) \in Seq(T)
  BY <1>3
<1> HIDE DEF T
<1>5. Among(prelist, used) \o Among(numbers, rest) \in Seq(T)
  BY <1>4
<1>6. SegOrder(t) = Among(prelist, used) \o Among(numbers, rest)
  BY DEF SegOrder, used, numbers, rest
<1> QED
  BY <1>5, <1>6, SeqIsSeq

LEMMA InterludeKeeps ==
  ASSUME PassInv, Interlude
  PROVE  PassInv'
<1>1. /\ job # <<>> /\ phase = "pass1" /\ file > Len(cmd.files) /\ file' = 1 /\ member' = 0
      /\ UNCHANGED <<job, prelist, posndx, postab, errcnt, made, loaded, read2>>
  BY DEF Interlude, history
<1>2. PassType /\ errcnt \in Nat /\ read2 = <<>>
  BY <1>1 DEF PassInv, PassType
<1>3. cmd' = cmd /\ Len(cmd.files) \in Nat /\ file = Len(cmd.files) + 1
  <2>1. Len(cmd.files) \in Nat
    BY <1>1, <1>2, CommandFacts, SeqLength
  <2> QED
    BY <1>1, <1>2, <2>1 DEF cmd, PassType
<1>4. PICK all \in {Allocated} : \E order \in {SegOrder(all.t)} :
        /\ hdr'.order = order
        /\ phase' \in {"failed", "pass2"} /\ (phase' = "pass2" => ~ (errcnt > 0))
        /\ symtab' = [i \in DOMAIN all.tab |-> symtab'[i]]
  BY DEF Interlude
<1>5. PICK order \in {SegOrder(all.t)} :
        /\ hdr'.order = order
        /\ phase' \in {"failed", "pass2"} /\ (phase' = "pass2" => ~ (errcnt > 0))
        /\ symtab' = [i \in DOMAIN all.tab |-> symtab'[i]]
  BY <1>4
<1>6. IsSeq(all.tab) /\ IsSeq(order)
  BY <1>2, AllocatedIsSeq, SegOrderIsSeq DEF PassType
<1>7. IsSeq(symtab')
  <2>1. Len(all.tab) \in Nat /\ DOMAIN all.tab = 1..Len(all.tab)
    BY <1>6, SeqLength
  <2> QED
    BY <1>5, <2>1, FunctionIsSeq
<1>8. PassType'
  <2>1. (~ IsArchive(made) /\ IsSeq(made.segs) /\ IsSeq(made.syms))' /\ IsSeq(prelist')
    BY <1>1, <1>2 DEF PassType
  <2>2. IsSeq(hdr'.order)
    BY <1>5, <1>6
  <2>3. posndx' \in [1..Len(cmd'.files) -> Int] /\ postab' \in Seq(PosEntry) /\ loaded' \in Seq(Who) /\ read2' \in Seq(Who)
        /\ job' \in Seq(Commands)
    BY <1>1, <1>2, <1>3 DEF PassType
  <2> QED
    BY <1>1, <1>3, <1>5, <1>7, <2>1, <2>2, <2>3 DEF PassType
<1>9. ReadSoFar' /\ Len(read2') = 0
  <2>1. Len(read2) = 0 /\ Len(loaded) \in Nat
    BY <1>2, EmptyIsSeq DEF PassType
  <2> QED
    BY <1>1, <2>1 DEF ReadSoFar
<1>10. ASSUME phase' = "pass2" PROVE \E start : Pass2At(start)'
  <2>1. errcnt = 0
    BY <1>2, <1>5, <1>10
  <2>2. PICK start : Pass1At(start)
    BY <1>1, <2>1 DEF PassInv
  <2>3. UNCHANGED <<cmd, posndx, postab, loaded>>
    BY <1>1, <1>3
  <2>4. \A i : FileDone(start, i) => FileDone(start, i)'
    BY <2>3 DEF FileDone, ListOf, Ends, ListEnd
  <2>5. ASSUME NEW i \in Nat, 0 < i, i <= Len(cmd.files) PROVE FileDone(start, i)'
    <3>1. i < file
      BY <1>3, <2>5
    <3> QED
      BY <2>2, <2>4, <2>5, <3>1 DEF Pass1At
  <2>6. start[1] = 0 /\ start[Len(cmd.files) + 1] = Len(loaded)
    <3>1. ~ (file <= Len(cmd.files))
      BY <1>3
    <3> QED
      BY <1>3, <2>2, <3>1 DEF Pass1At
  <2>7. Pass2At(start)'
    BY <1>1, <1>9, <2>3, <2>5, <2>6 DEF Pass2At
  <2> QED
    BY <2>7
<1> QED
  BY <1>5, <1>8, <1>9, <1>10 DEF PassInv

LEMMA StopIsNoModule == \A w \in Who : w # Stop
BY DEF Who, Stop

\* Going through the list of an archive: every entry is what pass 1 loaded, and then it ends.
LEMMA ListRead ==
  ASSUME NEW start, NEW i \in DOMAIN posndx, posndx[i] \in Int, posndx[i] > 0, FileDone(start, i), ListsEnded,
         \A j \in DOMAIN posndx : j \in Int,
         postab \in Seq(PosEntry), loaded \in Seq(Who),
         NEW n \in Nat, start[i] <= n, n <= start[i + 1],
         NEW x, x = posndx[i] + n - start[i]
  PROVE  /\ x \in Nat /\ x > 0
         /\ n < start[i + 1] =>
              /\ n + 1 <= Len(loaded) /\ x <= Len(postab)
              /\ postab[x] = loaded[n + 1] /\ loaded[n + 1] \in Who /\ loaded[n + 1][1] = i
         /\ n = start[i + 1] => Listed(x) = Stop
<1>1. /\ start[i] \in Nat /\ start[i + 1] \in Nat /\ start[i + 1] <= Len(loaded) /\ start[i + 1] > start[i]
      /\ ListOf(start, i, start[i + 1]) /\ Ends(start, i)
  BY DEF FileDone, OneModule, NoModule
<1>p. PICK p \in Int : p = posndx[i]
  OBVIOUS
<1>a. PICK a \in Nat : a = start[i]
  BY <1>1
<1>b. PICK b \in Nat : b = start[i + 1]
  BY <1>1
<1>k. PICK k \in Nat : k = Len(postab)
  OBVIOUS
<1>l. PICK l \in Nat : l = Len(loaded)
  OBVIOUS
<1>2. x = p + n - a /\ p > 0 /\ a <= n /\ n <= b /\ a < b /\ b <= l /\ p + b - a - 1 <= k
  BY <1>1, <1>p, <1>a, <1>b, <1>k, <1>l DEF ListOf
<1>3. x \in Nat /\ x > 0
  BY <1>2
<1>4. \A m \in Nat : a < m /\ m <= b => postab[p + m - a - 1] = loaded[m] /\ loaded[m][1] = i
  BY <1>1, <1>p, <1>a, <1>b DEF ListOf
<1>5. ASSUME n < b
      PROVE  n + 1 <= l /\ x <= k /\ postab[x] = loaded[n + 1] /\ loaded[n + 1] \in Who /\ loaded[n + 1][1] = i
  <2>1. n + 1 <= l /\ x <= k /\ a < n + 1 /\ n + 1 <= b /\ p + (n + 1) - a - 1 = x
    BY <1>2, <1>5
  <2>2. postab[x] = loaded[n + 1] /\ loaded[n + 1][1] = i
    BY <1>4, <2>1
  <2>3. loaded[n + 1] \in Who
    BY <1>l, <2>1
  <2> QED
    BY <2>1, <2>2, <2>3
<1>6. ASSUME n = b PROVE Listed(x) = Stop
  <2>1. ListEnd(start, i) = x
    BY <1>2, <1>6, <1>p, <1>a, <1>b DEF ListEnd
  <2>2. ASSUME NEW j \in DOMAIN posndx, j > i, posndx[j] = x PROVE FALSE
    <3>1. postab[x - 1] = Stop
      BY <1>3, <2>2 DEF ListsEnded
    <3>2. a < b /\ p + b - a - 1 = x - 1
      BY <1>2, <1>6
    <3>3. postab[x - 1] = loaded[b]
      BY <1>4, <3>2
    <3>4. loaded[b] \in Who
      BY <1>2, <1>l
    <3> QED
      BY <3>1, <3>3, <3>4, StopIsNoModule
  <2> QED
    BY <1>1, <1>3, <1>k, <2>1, <2>2 DEF Ends, Listed
<1> QED
  BY <1>3, <1>5, <1>6, <1>b, <1>k, <1>l

\* The frame of the steps of pass 2.
LEMMA Pass2Type ==
  ASSUME PassInv, phase = "pass2", job # <<>>,
         UNCHANGED <<job, made, prelist, hdr, symtab, posndx, postab, loaded>>,
         file' \in Nat \ {0}, file' <= Len(cmd.files) + 1, member' \in Nat, read2' \in Seq(Who),
         phase' \in {"pass2", "phase_error", "done", "failed"},
         phase' = "phase_error" => ~ ListsEnded,
         phase' \in {"pass2", "done"} /\ ListsEnded => \E start : Pass2At(start)',
         phase' = "failed" /\ ListsEnded => ReadSoFar',
         phase' = "done" => file' > Len(cmd.files)
  PROVE  PassInv'
<1>1. PassType /\ cmd' = cmd
  BY DEF PassInv, cmd
<1>2. (~ IsArchive(made) /\ IsSeq(made.segs) /\ IsSeq(made.syms))' /\ IsSeq(prelist') /\ IsSeq(symtab') /\ IsSeq(hdr'.order)
  BY <1>1 DEF PassType
<1>3. posndx' \in [1..Len(cmd'.files) -> Int] /\ postab' \in Seq(PosEntry) /\ loaded' \in Seq(Who) /\ job' \in Seq(Commands)
  BY <1>1 DEF PassType
<1>4. PassType'
  BY <1>1, <1>2, <1>3 DEF PassType
<1>5. ListsEnded' = ListsEnded
  BY DEF ListsEnded
<1> QED
  BY <1>1, <1>4, <1>5 DEF PassInv

\* What a step that reads nothing or one module more keeps.
LEMMA Done2Stays ==
  ASSUME UNCHANGED <<posndx, postab, loaded>>, NEW start, NEW i, FileDone(start, i)
  PROVE  FileDone(start, i)'
BY DEF FileDone, ListOf, Ends, ListEnd

\* A module more has been read, and it is the one that pass 1 loaded.
LEMMA ReadOne ==
  ASSUME ReadSoFar, read2 \in Seq(Who), loaded \in Seq(Who), NEW w \in Who,
         Len(read2) + 1 <= Len(loaded), loaded[Len(read2) + 1] = w,
         read2' = Append(read2, w), loaded' = loaded
  PROVE  ReadSoFar' /\ Len(read2') = Len(read2) + 1 /\ read2' \in Seq(Who)
<1>n. PICK n \in Nat : n = Len(read2)
  OBVIOUS
<1>1. Len(read2') = n + 1 /\ read2'[n + 1] = w /\ read2' \in Seq(Who) /\ \A m \in 1..n : read2'[m] = read2[m]
  BY <1>n, Appended
<1>2. ASSUME NEW m \in Nat, 0 < m, m <= n + 1 PROVE read2'[m] = loaded[m]
  <2>1. CASE m = n + 1
    BY <1>1, <1>n, <2>1
  <2>2. CASE m <= n
    <3>1. m \in 1..n
      BY <1>2, <2>2
    <3>2. read2'[m] = read2[m]
      BY <1>1, <3>1
    <3>3. read2[m] = loaded[m]
      BY <1>2, <1>n, <2>2 DEF ReadSoFar
    <3> QED
      BY <3>2, <3>3
  <2>3. m = n + 1 \/ m <= n
    BY <1>2
  <2> QED
    BY <2>1, <2>2, <2>3
<1> QED
  BY <1>1, <1>2, <1>n DEF ReadSoFar

LEMMA Pass2ObjectKeeps ==
  ASSUME PassInv, Pass2Object
  PROVE  PassInv'
<1>1. /\ InPass2 /\ posndx[file] = OneModule /\ file' = file + 1 /\ read2' = Append(read2, <<file, 0>>)
      /\ UNCHANGED <<job, phase, member, symtab, prelist, posndx, postab, hdr, made, loaded>>
  BY DEF Pass2Object, p2load
<1>2. PassType /\ phase = "pass2" /\ job # <<>> /\ file <= Len(cmd.files)
  BY <1>1 DEF PassInv, InPass2
<1>3. cmd' = cmd /\ Len(cmd.files) \in Nat /\ file \in Nat \ {0}
  BY <1>1, <1>2, CommandFacts, SeqLength DEF cmd, PassType
<1>4. read2 \in Seq(Who) /\ loaded \in Seq(Who) /\ member \in Nat /\ <<file, 0>> \in Who
  BY <1>2, <1>3 DEF PassType, Who
<1>5. read2' \in Seq(Who)
  BY <1>1, <1>4
<1>6. ASSUME ListsEnded PROVE \E start : Pass2At(start)'
  <2>1. PICK start : Pass2At(start)
    BY <1>2, <1>6 DEF PassInv
  <2>2. member = 0 /\ Len(read2) = start[file]
    BY <1>1, <2>1 DEF Pass2At, OneModule
  <2>3. FileDone(start, file)
    BY <1>2, <1>3, <2>1 DEF Pass2At
  <2>4. start[file + 1] = start[file] + 1 /\ loaded[start[file] + 1] = <<file, 0>> /\ start[file + 1] <= Len(loaded)
        /\ start[file + 1] \in Nat
    BY <1>1, <2>3 DEF FileDone, OneModule, NoModule
  <2>5. ReadSoFar' /\ Len(read2') = start[file + 1]
    BY <1>1, <1>4, <2>1, <2>2, <2>4, ReadOne DEF Pass2At
  <2>6. Pass2At(start)'
    BY <1>1, <1>3, <2>1, <2>2, <2>4, <2>5, Done2Stays DEF Pass2At
  <2> QED
    BY <2>6
<1>7. file' \in Nat \ {0} /\ file' <= Len(cmd.files) + 1
  BY <1>1, <1>2, <1>3
<1> QED
  BY <1>1, <1>2, <1>4, <1>5, <1>6, <1>7, Pass2Type

LEMMA Pass2NextFileKeeps ==
  ASSUME PassInv, Pass2NextFile
  PROVE  PassInv'
<1>1. /\ InPass2
      /\ posndx[file] = NoModule \/ (posndx[file] > 0 /\ Listed(Next2) = Stop)
      /\ file' = file + 1 /\ member' = 0
      /\ UNCHANGED <<job, phase, symtab, prelist, posndx, postab, hdr, made, loaded, read2>>
  BY DEF Pass2NextFile, tables, output, history
<1>2. PassType /\ phase = "pass2" /\ job # <<>> /\ file <= Len(cmd.files)
  BY <1>1 DEF PassInv, InPass2
<1>3. cmd' = cmd /\ Len(cmd.files) \in Nat /\ file \in Nat \ {0}
  BY <1>1, <1>2, CommandFacts, SeqLength DEF cmd, PassType
<1>4. read2 \in Seq(Who) /\ loaded \in Seq(Who) /\ member \in Nat /\ posndx \in [1..Len(cmd.files) -> Int] /\ postab \in Seq(PosEntry)
  BY <1>2, <1>3 DEF PassType
<1>5. file \in DOMAIN posndx /\ posndx[file] \in Int /\ \A j \in DOMAIN posndx : j \in Int
  BY <1>2, <1>3, <1>4
<1>6. ASSUME ListsEnded PROVE \E start : Pass2At(start)'
  <2>1. PICK start : Pass2At(start)
    BY <1>2, <1>6 DEF PassInv
  <2>2. FileDone(start, file)
    BY <1>2, <1>3, <2>1 DEF Pass2At
  <2>3. start[file] \in Nat /\ start[file + 1] \in Nat /\ Len(read2) \in Nat
    BY <1>4, <2>2 DEF FileDone
  <2>4. Len(read2) = start[file + 1]
    <3>1. CASE posndx[file] = NoModule
      BY <2>1, <2>2, <3>1 DEF Pass2At, FileDone, NoModule, OneModule
    <3>2. CASE posndx[file] > 0 /\ Listed(Next2) = Stop
      <4>1. start[file + 1] > start[file]
        BY <2>2, <3>2 DEF FileDone, NoModule, OneModule
      <4>2. Next2 = posndx[file] + Len(read2) - start[file] /\ start[file] <= Len(read2) /\ Len(read2) <= start[file + 1]
        BY <1>4, <1>5, <2>1, <2>3, <4>1 DEF Pass2At, Next2
      <4>3. Len(read2) < start[file + 1] =>
              Next2 <= Len(postab) /\ postab[Next2] = loaded[Len(read2) + 1] /\ loaded[Len(read2) + 1] \in Who
        BY <1>4, <1>5, <1>6, <2>2, <2>3, <3>2, <4>2, ListRead
      <4> QED
        BY <2>3, <3>2, <4>2, <4>3, StopIsNoModule DEF Listed
    <3> QED
      BY <1>1, <3>1, <3>2
  <2>5. ReadSoFar'
    BY <1>1, <2>1 DEF Pass2At, ReadSoFar
  <2>6. Pass2At(start)'
    BY <1>1, <1>3, <2>1, <2>3, <2>4, <2>5, Done2Stays DEF Pass2At
  <2> QED
    BY <2>6
<1>7. file' \in Nat \ {0} /\ file' <= Len(cmd.files) + 1 /\ read2' \in Seq(Who)
  BY <1>1, <1>2, <1>3, <1>4
<1> QED
  BY <1>1, <1>2, <1>6, <1>7, Pass2Type

LEMMA Pass2MemberKeeps ==
  ASSUME PassInv, Pass2Member
  PROVE  PassInv'
<1> DEFINE e == Listed(Next2)
<1>1. /\ InPass2 /\ posndx[file] > 0 /\ e # Stop /\ member' = Next2 + 1
      /\ UNCHANGED <<job, file, symtab, prelist, posndx, postab, hdr, made, loaded>>
      /\ IF e[1] = file THEN read2' = Append(read2, e) /\ phase' = phase
         ELSE phase' = "phase_error" /\ read2' = Append(read2, <<file, e[2]>>)
  BY DEF Pass2Member, p2load
<1>2. PassType /\ phase = "pass2" /\ job # <<>> /\ file <= Len(cmd.files)
  BY <1>1 DEF PassInv, InPass2
<1>3. cmd' = cmd /\ Len(cmd.files) \in Nat /\ file \in Nat \ {0}
  BY <1>1, <1>2, CommandFacts, SeqLength DEF cmd, PassType
<1>4. read2 \in Seq(Who) /\ loaded \in Seq(Who) /\ member \in Nat /\ posndx \in [1..Len(cmd.files) -> Int] /\ postab \in Seq(PosEntry)
  BY <1>2, <1>3 DEF PassType
<1>5. file \in DOMAIN posndx /\ posndx[file] \in Int /\ \A j \in DOMAIN posndx : j \in Int
  BY <1>2, <1>3, <1>4
<1>6. Next2 \in Nat /\ Next2 > 0
  BY <1>1, <1>4, <1>5 DEF Next2
<1>7. e = postab[Next2] /\ e \in Who
  <2>1. Next2 <= Len(postab) /\ e = postab[Next2]
    BY <1>1 DEF Listed
  <2>2. Next2 \in 1..Len(postab)
    BY <1>4, <1>6, <2>1
  <2> QED
    BY <1>1, <1>4, <2>1, <2>2 DEF PosEntry
<1> HIDE DEF e
<1>8. read2' \in Seq(Who)
  <2>1. <<file, e[2]>> \in Who
    BY <1>3, <1>7 DEF Who
  <2>2. PICK w \in Who : read2' = Append(read2, w)
    <3>1. read2' = Append(read2, e) \/ read2' = Append(read2, <<file, e[2]>>)
      BY <1>1
    <3> QED BY <1>7, <2>1, <3>1
  <2>3. read2 \in Seq(Who)
    BY <1>4
  <2> QED
    BY <2>2, <2>3, Appended
<1>9. ASSUME ListsEnded PROVE phase' = "pass2" /\ \E start : Pass2At(start)'
  <2>1. PICK start : Pass2At(start)
    BY <1>2, <1>9 DEF PassInv
  <2>2. FileDone(start, file)
    BY <1>2, <1>3, <2>1 DEF Pass2At
  <2>3. start[file] \in Nat /\ start[file + 1] \in Nat /\ Len(read2) \in Nat /\ start[file + 1] > start[file]
    BY <1>1, <1>4, <2>2 DEF FileDone, NoModule, OneModule
  <2>4. Next2 = posndx[file] + Len(read2) - start[file] /\ start[file] <= Len(read2) /\ Len(read2) <= start[file + 1]
    BY <1>4, <1>5, <2>1, <2>3 DEF Pass2At, Next2
  <2>5. /\ Len(read2) < start[file + 1] =>
             /\ Len(read2) + 1 <= Len(loaded) /\ Next2 <= Len(postab)
             /\ postab[Next2] = loaded[Len(read2) + 1] /\ loaded[Len(read2) + 1][1] = file
        /\ Len(read2) = start[file + 1] => Listed(Next2) = Stop
    <3>n. PICK n \in Nat : n = Len(read2)
      BY <2>3
    <3>x. PICK x \in Nat : x = Next2
      BY <1>6
    <3>1. x = posndx[file] + n - start[file] /\ start[file] <= n /\ n <= start[file + 1]
      BY <2>4, <3>n, <3>x
    <3>2. /\ n < start[file + 1] =>
               /\ n + 1 <= Len(loaded) /\ x <= Len(postab)
               /\ postab[x] = loaded[n + 1] /\ loaded[n + 1][1] = file
          /\ n = start[file + 1] => Listed(x) = Stop
      BY <1>1, <1>4, <1>5, <1>9, <2>2, <3>1, ListRead
    <3> QED
      BY <3>2, <3>n, <3>x
  <2>6. Len(read2) < start[file + 1]
    BY <1>1, <2>3, <2>4, <2>5 DEF e
  <2>7. e = loaded[Len(read2) + 1] /\ e[1] = file /\ Len(read2) + 1 <= Len(loaded)
    BY <1>7, <2>5, <2>6
  <2>8. read2' = Append(read2, e) /\ phase' = "pass2"
    BY <1>1, <1>2, <2>7
  <2>9. ReadSoFar' /\ Len(read2') = Len(read2) + 1
    <3>1. ReadSoFar
      BY <2>1 DEF Pass2At
    <3> QED
      BY <1>1, <1>4, <1>7, <2>7, <2>8, <3>1, ReadOne
  <2>10. /\ member' # 0 /\ member' = posndx'[file] + Len(read2') - start[file]
         /\ start[file] < Len(read2') /\ Len(read2') <= start[file + 1] /\ posndx'[file] > 0
    <3>1. member' = Next2 + 1 /\ posndx' = posndx
      BY <1>1
    <3>n. PICK n \in Nat : n = Len(read2)
      BY <2>3
    <3>x. PICK x \in Nat : x = Next2
      BY <1>6
    <3>p. PICK p \in Int : p = posndx[file]
      BY <1>5
    <3>a. PICK a \in Nat : a = start[file]
      BY <2>3
    <3>b. PICK b \in Nat : b = start[file + 1]
      BY <2>3
    <3>2. x = p + n - a /\ a <= n /\ n < b /\ p > 0 /\ x > 0
      BY <1>1, <1>6, <2>4, <2>6, <3>n, <3>x, <3>p, <3>a, <3>b
    <3>3. x + 1 = p + (n + 1) - a /\ a < n + 1 /\ n + 1 <= b /\ x + 1 # 0
      BY <3>2
    <3>4. posndx'[file] = p /\ member' = x + 1 /\ Len(read2') = n + 1
      BY <2>9, <3>1, <3>n, <3>x, <3>p
    <3> QED
      BY <3>2, <3>3, <3>4, <3>a, <3>b
  <2>11. Pass2At(start)'
    BY <1>1, <1>2, <1>3, <2>1, <2>9, <2>10, Done2Stays DEF Pass2At
  <2> QED
    BY <2>8, <2>11
<1>10. file' \in Nat \ {0} /\ file' <= Len(cmd.files) + 1 /\ member' \in Nat /\ phase' \in {"pass2", "phase_error"}
  BY <1>1, <1>2, <1>3, <1>6
<1> QED
  BY <1>1, <1>2, <1>8, <1>9, <1>10, Pass2Type

LEMMA FinaleKeeps ==
  ASSUME PassInv, Finale
  PROVE  PassInv'
<1>1. /\ job # <<>> /\ phase = "pass2" /\ file > Len(cmd.files) /\ phase' \in {"failed", "done"}
      /\ UNCHANGED <<job, file, member, symtab, prelist, posndx, postab, hdr, loaded, read2>>
  BY DEF Finale, tables, output, history
<1>2. PassType
  BY DEF PassInv
<1>3. cmd' = cmd /\ Len(cmd.files) \in Nat /\ file \in Nat \ {0}
  BY <1>1, <1>2, CommandFacts, SeqLength DEF cmd, PassType
<1>4. (~ IsArchive(made) /\ IsSeq(made.segs) /\ IsSeq(made.syms))'
  <2>1. IsSeq(Descriptors)
    <3> DEFINE order == Among(hdr.order, {i \in Segments : segtab[i].hiwat > 0})
    <3>1. IsSeq(order)
      BY <1>2, AmongIsSeq, SeqIsSeq DEF PassType
    <3>2. Len(order) \in Nat /\ DOMAIN order = 1..Len(order)
      BY <3>1, SeqLength
    <3> HIDE DEF order
    <3>3. Descriptors = [k \in 1..Len(order) |-> Descriptors[k]]
      BY <3>2 DEF Descriptors, order
    <3> QED
      BY <3>2, <3>3, FunctionIsSeq
  <2>2. IsSeq(IF cmd.s /\ ~ cmd.r THEN <<>> ELSE symtab)
    BY <1>2, EmptyIsSeq DEF PassType
  <2>3. \/ made' = made
        \/ /\ ~ ("members" \in DOMAIN made')
           /\ made'.segs = Descriptors /\ made'.syms = (IF cmd.s /\ ~ cmd.r THEN <<>> ELSE symtab)
    BY DEF Finale
  <2>4. CASE made' = made
    BY <1>2, <2>4 DEF PassType
  <2>5. CASE /\ ~ ("members" \in DOMAIN made')
             /\ made'.segs = Descriptors /\ made'.syms = (IF cmd.s /\ ~ cmd.r THEN <<>> ELSE symtab)
    BY <2>1, <2>2, <2>5 DEF IsArchive
  <2> QED
    BY <2>3, <2>4, <2>5
<1>5. PassType'
  <2>1. posndx' \in [1..Len(cmd'.files) -> Int] /\ IsSeq(prelist') /\ IsSeq(symtab') /\ IsSeq(hdr'.order)
        /\ postab' \in Seq(PosEntry) /\ loaded' \in Seq(Who) /\ read2' \in Seq(Who) /\ job' \in Seq(Commands)
    BY <1>1, <1>2, <1>3 DEF PassType
  <2>2. file' \in Nat \ {0} /\ member' \in Nat /\ file' <= Len(cmd'.files) + 1
    BY <1>1, <1>2, <1>3 DEF PassType
  <2> QED
    BY <1>1, <1>4, <2>1, <2>2 DEF PassType
<1>6. ListsEnded' = ListsEnded
  BY <1>1 DEF ListsEnded
<1>7. ASSUME ListsEnded PROVE (\E start : Pass2At(start)') /\ ReadSoFar' /\ member = 0
  <2>1. PICK start : Pass2At(start)
    BY <1>1, <1>7 DEF PassInv
  <2>2. ReadSoFar'
    BY <1>1, <2>1 DEF Pass2At, ReadSoFar
  <2>3. Pass2At(start)' /\ member = 0
    BY <1>1, <1>3, <2>1, <2>2, Done2Stays DEF Pass2At
  <2> QED
    BY <2>2, <2>3
<1>8. phase' = "done" => file' > Len(cmd'.files)
  BY <1>1, <1>3
<1> QED
  BY <1>1, <1>5, <1>6, <1>7, <1>8 DEF PassInv

LEMMA NextCommandKeeps ==
  ASSUME PassInv, NextCommand
  PROVE  PassInv'
<1>1. /\ job # <<>> /\ phase = "done" /\ job' = Tail(job) /\ phase' = "start"
      /\ UNCHANGED <<file, member, symtab, prelist, posndx, postab, hdr, made, loaded, read2>>
  BY DEF NextCommand, tables, output, history
<1>2. PassType
  BY DEF PassInv
<1>3. Tail(job) \in Seq(Commands)
  BY <1>1, <1>2 DEF PassType
<1>4. (~ IsArchive(made) /\ IsSeq(made.segs) /\ IsSeq(made.syms))' /\ IsSeq(prelist') /\ IsSeq(symtab') /\ IsSeq(hdr'.order)
  BY <1>1, <1>2 DEF PassType
<1>5. postab' \in Seq(PosEntry) /\ loaded' \in Seq(Who) /\ read2' \in Seq(Who) /\ file' \in Nat \ {0} /\ member' \in Nat
  BY <1>1, <1>2 DEF PassType
<1>6. PassType'
  BY <1>1, <1>3, <1>4, <1>5 DEF PassType
<1>7. ListsEnded' = ListsEnded
  BY <1>1 DEF ListsEnded
<1>8. ListsEnded => ReadSoFar'
  BY <1>1 DEF PassInv, Pass2At, ReadSoFar
<1> QED
  BY <1>1, <1>6, <1>7, <1>8 DEF PassInv

LEMMA PassStutter ==
  ASSUME PassInv, UNCHANGED lvars
  PROVE  PassInv'
<1>1. /\ UNCHANGED <<job, phase, file, member, symtab, prelist, posndx, postab, errcnt, hdr, made, loaded, read2>>
  BY DEF lvars, tables, output, history
<1>2. cmd' = cmd /\ thefile' = thefile
  BY <1>1 DEF cmd, thefile, FileOf
<1>3. PassType'
  BY <1>1, <1>2 DEF PassInv, PassType, IsArchive
<1>4. ListsEnded' = ListsEnded /\ ReadSoFar' = ReadSoFar
  BY <1>1 DEF ListsEnded, ReadSoFar
<1>5. ASSUME NEW start, Pass1At(start) PROVE Pass1At(start)'
  <2>1. \A i : FileDone(start, i) => FileDone(start, i)'
    BY <1>1, Done2Stays
  <2>2. \A i : (posndx[i] > 0 => ListEnd(start, i) <= Len(postab) + 1) =>
               (posndx[i] > 0 => ListEnd(start, i) <= Len(postab) + 1)'
    BY <1>1 DEF ListEnd
  <2>3. ArchiveSoFar(start) => ArchiveSoFar(start)'
    BY <1>1, <1>2 DEF ArchiveSoFar, ListOf, ListEnd, IsArchive
  <2> QED
    BY <1>1, <1>2, <1>5, <2>1, <2>2, <2>3 DEF Pass1At
<1>6. ASSUME NEW start, Pass2At(start) PROVE Pass2At(start)'
  BY <1>1, <1>2, <1>4, <1>6, Done2Stays DEF Pass2At
<1>7. phase' = "pass1" => read2' = <<>> /\ (errcnt' = 0 => \E start : Pass1At(start)')
  BY <1>1, <1>5 DEF PassInv
<1>8. phase' \in {"pass2", "done"} /\ ListsEnded' => \E start : Pass2At(start)'
  BY <1>1, <1>4, <1>6 DEF PassInv
<1>9. (phase' \in {"start", "failed"} /\ ListsEnded' => ReadSoFar') /\ (phase' = "phase_error" => ~ ListsEnded')
      /\ (phase' = "done" => file' > Len(cmd'.files))
  BY <1>1, <1>2, <1>4 DEF PassInv
<1> QED
  BY <1>3, <1>7, <1>8, <1>9 DEF PassInv

LEMMA PassStep ==
  ASSUME PassInv, [ToolNext]_lvars
  PROVE  PassInv'
BY Pass0Keeps, Pass1ObjectKeeps, Pass1MemberKeeps, Pass1EndArchiveKeeps, InterludeKeeps, Pass2ObjectKeeps,
   Pass2MemberKeeps, Pass2NextFileKeeps, FinaleKeeps, NextCommandKeeps, PassStutter
   DEF ToolNext, LinkerNext, Exit

LEMMA PrefixByElements ==
  ASSUME NEW T, NEW s \in Seq(T), NEW t \in Seq(T), Len(s) <= Len(t), \A m \in 1..Len(s) : s[m] = t[m]
  PROVE  IsPrefix(s, t)
<1>1. SubSeq(s, 1, Len(s)) = SubSeq(t, 1, Len(s))
  OBVIOUS
<1> QED
  BY <1>1 DEF IsPrefix

\* What the invariant says of the two passes.
LEMMA AgreeWhenEnded ==
  ASSUME PassInv, ListsEnded
  PROVE  PassesAgree
<1>1. PassType /\ read2 \in Seq(Who) /\ loaded \in Seq(Who) /\ phase # "phase_error"
  BY DEF PassInv, PassType
<1>2. ReadSoFar
  <2>1. read2 = <<>> => ReadSoFar
    BY <1>1, EmptyIsSeq DEF ReadSoFar
  <2>2. (\E start : Pass2At(start)) => ReadSoFar
    BY DEF Pass2At
  <2>3. phase \in {"start", "failed"} \/ phase = "pass1" \/ phase \in {"pass2", "done"}
    BY <1>1 DEF PassType
  <2> QED
    BY <2>1, <2>2, <2>3 DEF PassInv
<1>3. Len(read2) <= Len(loaded) /\ \A m \in 1..Len(read2) : read2[m] = loaded[m]
  BY <1>1, <1>2 DEF ReadSoFar
<1>4. IsPrefix(read2, loaded)
  BY <1>1, <1>3, PrefixByElements
<1>5. ASSUME Made PROVE read2 = loaded
  <2>1. phase = "done" /\ file > Len(cmd.files) /\ job # <<>>
    BY <1>5 DEF Made, PassInv, PassType
  <2>2. file = Len(cmd.files) + 1
    <3>1. Len(cmd.files) \in Nat
      BY <1>1, <2>1, CommandFacts, SeqLength
    <3> QED
      BY <1>1, <2>1, <3>1 DEF PassType
  <2>3. PICK start : Pass2At(start)
    BY <2>1 DEF PassInv
  <2>4. Len(read2) = Len(loaded)
    <3>1. ~ (file <= Len(cmd.files))
      BY <1>1, <2>1, CommandFacts, SeqLength DEF PassType
    <3> QED
      BY <2>2, <2>3, <3>1 DEF Pass2At
  <2> QED
    BY <1>1, <1>3, <2>4
<1> QED
  BY <1>1, <1>4, <1>5 DEF PassesAgree

\* For every library, every command line and every sequence of links: pass 2 reads the
\* modules that pass 1 loaded, in its order, unless an archive was left with nothing
\* undefined and a later one was needed all the same (ld8k.c's postab, of which only an
\* archive read to its end ends its part).
THEOREM PassesAgreeTheorem == ToolSpec => [](ListsEnded => PassesAgree)
<1>1. LinkerInit => PassInv
  BY InitPassInv
<1>2. PassInv /\ [ToolNext]_lvars => PassInv'
  BY PassStep
<1>3. PassInv => (ListsEnded => PassesAgree)
  BY AgreeWhenEnded
<1> HIDE DEF PassInv
<1> QED
  BY <1>1, <1>2, <1>3, PTL DEF ToolSpec

-----------------------------------------------------------------------------
(* Commands with one archive, the common case: its list need not be ended. *)

ArchiveName(name) == name # "made" /\ IsArchive(Library[name])
OneArchive ==
  \A c \in Commands : \A i, j \in DOMAIN c.files :
    ArchiveName(c.files[i]) /\ ArchiveName(c.files[j]) => i = j

\* Only archives have a list, and there is one at most.
OneList ==
  /\ phase # "start" => \A i \in DOMAIN posndx : posndx[i] > 0 => ArchiveName(cmd.files[i])
  /\ \A i, j \in DOMAIN posndx : posndx[i] > 0 /\ posndx[j] > 0 => i = j
  /\ \A i \in DOMAIN posndx : i \in Int

LEMMA ListsOfArchives ==
  ASSUME PassInv, OneArchive, job # <<>>, posndx' \in [1..Len(cmd.files) -> Int], cmd' = cmd,
         \A i \in DOMAIN posndx' : posndx'[i] > 0 => ArchiveName(cmd.files[i])
  PROVE  OneList'
<1>1. cmd \in Commands
  BY DEF PassInv, PassType, cmd
<1>2. IsSeq(cmd.files)
  BY CommandFacts DEF PassInv
<1>3. DOMAIN cmd.files = 1..Len(cmd.files) /\ DOMAIN posndx' = 1..Len(cmd.files)
  BY <1>2, SeqLength
<1>4. \A i, j \in DOMAIN posndx' : posndx'[i] > 0 /\ posndx'[j] > 0 => i = j
  BY <1>1, <1>3 DEF OneArchive
<1>5. \A i \in DOMAIN posndx' : i \in Int
  BY <1>2, <1>3, SeqLength
<1> QED
  BY <1>4, <1>5 DEF OneList, ArchiveName

LEMMA OneListStep ==
  ASSUME PassInv, OneArchive, OneList, [ToolNext]_lvars
  PROVE  OneList'
<1>1. PassType
  BY DEF PassInv
<1>2. CASE Pass0
  <2>1. job # <<>> /\ job' = job /\ posndx' = [i \in DOMAIN cmd.files |-> NoModule]
    BY <1>2 DEF Pass0
  <2>2. DOMAIN cmd.files = 1..Len(cmd.files)
    BY <1>1, <2>1, CommandFacts, SeqLength
  <2>3. posndx' \in [1..Len(cmd.files) -> Int] /\ \A i \in DOMAIN posndx' : ~ (posndx'[i] > 0)
    BY <2>1, <2>2 DEF NoModule
  <2>4. cmd' = cmd
    BY <2>1 DEF cmd
  <2> QED
    BY <2>1, <2>3, <2>4, ListsOfArchives
<1>3. CASE Pass1Object
  <2>1. job # <<>> /\ phase # "start" /\ job' = job /\ posndx' = [posndx EXCEPT ![file] = OneModule]
    BY <1>3 DEF Pass1Object, InPass1
  <2>2. posndx \in [1..Len(cmd.files) -> Int]
    BY <1>1, <2>1 DEF PassType
  <2>3. posndx' \in [1..Len(cmd.files) -> Int] /\ \A i \in DOMAIN posndx' : posndx'[i] > 0 => posndx[i] > 0
    <3>1. OneModule \in Int /\ ~ (OneModule > 0)
      BY DEF OneModule
    <3>2. posndx' \in [1..Len(cmd.files) -> Int] /\ \A i \in 1..Len(cmd.files) : posndx'[i] \in {posndx[i], OneModule}
      BY <2>1, <2>2, <3>1
    <3> QED
      BY <3>1, <3>2
  <2>4. cmd' = cmd
    BY <2>1 DEF cmd
  <2>5. \A i \in DOMAIN posndx' : posndx'[i] > 0 => ArchiveName(cmd.files[i])
    BY <2>1, <2>2, <2>3 DEF OneList
  <2> QED
    BY <2>1, <2>3, <2>4, <2>5, ListsOfArchives
<1>4. CASE Pass1Member
  <2>1. job # <<>> /\ phase # "start" /\ job' = job /\ IsArchive(thefile) /\ file <= Len(cmd.files)
        /\ (posndx' = posndx \/ posndx' = [posndx EXCEPT ![file] = IF @ <= 0 THEN Len(postab) + 1 ELSE @])
    BY <1>4 DEF Pass1Member, InPass1
  <2>2. posndx \in [1..Len(cmd.files) -> Int] /\ Len(postab) + 1 \in Int
    BY <1>1, <2>1 DEF PassType
  <2>3. posndx' \in [1..Len(cmd.files) -> Int] /\ \A i \in DOMAIN posndx' : i # file => posndx'[i] = posndx[i]
    BY <2>1, <2>2
  <2>4. cmd' = cmd
    BY <2>1 DEF cmd
  <2>5. ArchiveName(cmd.files[file])
    BY <1>1, <2>1 DEF PassType, thefile, FileOf, ArchiveName
  <2>6. \A i \in DOMAIN posndx' : posndx'[i] > 0 => ArchiveName(cmd.files[i])
    BY <2>1, <2>2, <2>3, <2>5 DEF OneList
  <2> QED
    BY <2>1, <2>3, <2>4, <2>6, ListsOfArchives
<1>5. CASE NextCommand
  BY <1>5 DEF NextCommand, OneList, tables
<1>6. CASE ~ Pass0 /\ ~ Pass1Object /\ ~ Pass1Member /\ ~ NextCommand
  <2>1. UNCHANGED <<job, posndx>> /\ (phase = "start" => phase' = "start")
    BY <1>6 DEF ToolNext, LinkerNext, Exit, Pass1EndArchive, Interlude, Pass2Object, Pass2Member, Pass2NextFile,
                Finale, InPass1, InPass2, lvars, tables
  <2> QED
    BY <2>1 DEF OneList, cmd, ArchiveName
<1> QED
  BY <1>2, <1>3, <1>4, <1>5, <1>6

\* With one archive in each command the two passes always agree.
THEOREM OneArchiveTheorem ==
  ASSUME OneArchive
  PROVE  ToolSpec => []PassesAgree
<1>1. LinkerInit => PassInv /\ OneList
  BY InitPassInv DEF LinkerInit, OneList
<1>2. PassInv /\ OneList /\ [ToolNext]_lvars => PassInv' /\ OneList'
  BY PassStep, OneListStep
<1>3. PassInv /\ OneList => PassesAgree
  <2> SUFFICES ASSUME PassInv, OneList PROVE PassesAgree
    OBVIOUS
  <2>1. ListsEnded
    <3> SUFFICES ASSUME NEW i \in DOMAIN posndx, NEW j \in DOMAIN posndx, i < j, posndx[i] > 0, posndx[j] > 0 PROVE FALSE
      BY DEF ListsEnded
    <3>1. i = j /\ i \in Int
      BY DEF OneList
    <3> QED
      BY <3>1
  <2> QED
    BY <2>1, AgreeWhenEnded
<1> HIDE DEF PassInv, OneList
<1> QED
  BY <1>1, <1>2, <1>3, PTL DEF ToolSpec

-----------------------------------------------------------------------------
(* The places: pass 1 and interlude on one side, pass 2 on the other.      *)

\* Addresses: a number is a multiple of SegLimit and what Wrap leaves.
LEMMA WrapOf ==
  ASSUME NEW q \in Int, NEW r \in 0..(SegLimit - 1)
  PROVE  Wrap(SegLimit * q + r) = r
BY XOutAssumption DEF Wrap

LEMMA Multiple ==
  ASSUME NEW a \in Nat
  PROVE  \E q \in Int : \E r \in 0..(SegLimit - 1) : a = SegLimit * q + r
<1> DEFINE S == {n \in Nat : \E q \in Int : \E r \in 0..(SegLimit - 1) : n = SegLimit * q + r}
<1>1. 0 \in S
  <2>1. 0 = SegLimit * 0 + 0 /\ 0 \in 0..(SegLimit - 1)
    BY XOutAssumption
  <2> QED
    BY <2>1
<1>2. ASSUME NEW n \in Nat, n \in S PROVE n + 1 \in S
  <2>1. PICK q \in Int, r \in 0..(SegLimit - 1) : n = SegLimit * q + r
    BY <1>2
  <2>2. CASE r < SegLimit - 1
    <3>1. n + 1 = SegLimit * q + (r + 1) /\ r + 1 \in 0..(SegLimit - 1)
      BY <2>1, <2>2, XOutAssumption
    <3> QED
      BY <3>1
  <2>3. CASE r = SegLimit - 1
    <3>1. SegLimit * (q + 1) = SegLimit * q + SegLimit
      BY XOutAssumption
    <3>2. n + 1 = SegLimit * (q + 1) + 0 /\ 0 \in 0..(SegLimit - 1) /\ q + 1 \in Int
      BY <2>1, <2>3, <3>1, XOutAssumption
    <3> QED
      BY <3>2
  <2> QED
    BY <2>2, <2>3, XOutAssumption
<1> HIDE DEF S
<1>3. a \in S
  BY <1>1, <1>2, Place!Induction
<1> QED
  BY <1>3 DEF S

LEMMA Commute == \A x, y \in Int : x + y = y + x
OBVIOUS

LEMMA WrapSum ==
  ASSUME NEW a \in Nat, NEW b \in Nat
  PROVE  Wrap(a) \in Nat /\ Wrap(Wrap(a) + b) = Wrap(a + b) /\ Wrap(a + Wrap(b)) = Wrap(a + b)
<1> SUFFICES ASSUME NEW x \in Nat, NEW y \in Nat
             PROVE  Wrap(x) \in Nat /\ Wrap(Wrap(x) + y) = Wrap(x + y)
  <2>1. Wrap(a) \in Nat /\ Wrap(b) \in Nat
    OBVIOUS
  <2>2. Wrap(a) + b = b + Wrap(a) /\ a + Wrap(b) = Wrap(b) + a /\ a + b = b + a
    BY <2>1, Commute, a \in Int, b \in Int, Wrap(a) \in Int, Wrap(b) \in Int, Zenon
  <2>3. Wrap(Wrap(b) + a) = Wrap(b + a)
    OBVIOUS
  <2>4. Wrap(a + Wrap(b)) = Wrap(a + b)
    BY <2>2, <2>3
  <2> QED
    BY <2>1, <2>4
<1>1. PICK q \in Int, r \in 0..(SegLimit - 1) : x = SegLimit * q + r
  BY Multiple
<1>2. r + y \in Nat /\ SegLimit \in Int
  BY XOutAssumption
<1>3. PICK p \in Int, t \in 0..(SegLimit - 1) : r + y = SegLimit * p + t
  BY <1>2, Multiple
<1>4. SegLimit * (q + p) = SegLimit * q + SegLimit * p
  BY <1>2
<1>5. x + y = SegLimit * (q + p) + t /\ q + p \in Int
  BY <1>1, <1>2, <1>3, <1>4
<1>6. Wrap(x) = r /\ Wrap(x + y) = t /\ Wrap(r + y) = t
  BY <1>1, <1>3, <1>5, WrapOf
<1> QED
  BY <1>6

LEMMA LeastIsIn ==
  ASSUME NEW S \in SUBSET Nat, S # {}
  PROVE  Min(S) \in S
<1> SUFFICES \E x \in S : \A y \in S : x <= y
  BY DEF Min
<1> SUFFICES ASSUME \A x \in S : \E y \in S : y < x PROVE FALSE
  OBVIOUS
<1> DEFINE T == {n \in Nat : \A m \in 0..n : m \notin S}
<1>1. 0 \in T
  <2>1. \A m \in 0..0 : m = 0
    OBVIOUS
  <2>2. 0 \notin S
    OBVIOUS
  <2> QED
    BY <2>1, <2>2
<1>2. ASSUME NEW n \in Nat, n \in T PROVE n + 1 \in T
  <2>1. n + 1 \notin S
    <3> SUFFICES ASSUME n + 1 \in S PROVE FALSE
      OBVIOUS
    <3>1. PICK y \in S : y < n + 1
      OBVIOUS
    <3> QED
      BY <1>2, <3>1
  <2> QED
    BY <1>2, <2>1
<1> HIDE DEF T
<1>3. \A n \in Nat : n \in T
  BY <1>1, <1>2, Place!Induction
<1>4. \A n \in Nat : n \in 0..n
  OBVIOUS
<1>5. S = {}
  BY <1>3, <1>4 DEF T
<1> QED
  BY <1>5

LEMMA LookupFinds ==
  ASSUME NEW table, IsSeq(table), NEW names, NEW name
  PROVE  \/ lookup(table, names, name) = 0
         \/ /\ lookup(table, names, name) \in 1..Len(table)
            /\ table[lookup(table, names, name)].name = name /\ table[lookup(table, names, name)].fl \in names
<1> DEFINE at == {i \in 1..Len(table) : table[i].name = name /\ table[i].fl \in names}
<1>1. Len(table) \in Nat
  BY SeqLength
<1>2. CASE at = {}
  BY <1>2 DEF lookup
<1>3. CASE at # {}
  <2>1. Min(at) \in at
    BY <1>1, <1>3, LeastIsIn
  <2>2. lookup(table, names, name) = Min(at)
    BY <1>3 DEF lookup
  <2> QED
    BY <2>1, <2>2
<1> QED
  BY <1>2, <1>3

\* The output's segments.
LEMMA SegmentNumbers == Segments \subseteq Nat /\ NoSeg \in Nat /\ 255 \notin Segments
                        /\ \A j \in Segments : j < NoSeg /\ j # NoSeg /\ j % 128 = j
BY LinkerAssumption DEF Segments, NoSeg

LEMMA SegmentFound ==
  ASSUME NEW t, NEW pre, IsSeq(pre), ToSet(pre) \subseteq Segments, NEW typ, NEW n
  PROVE  findseg(t, pre, typ, n) \in Segments \cup {NoSeg}
<1> DEFINE fits(i) == <<t[i].typ, typ>> \in oktyp /\ t[i].siz + Wrap(n) < SegLimit
           wanted  == {k \in DOMAIN pre : fits(pre[k])}
           others  == {i \in Segments : fits(i) /\ i \notin ToSet(pre)}
<1>1. findseg(t, pre, typ, n) = IF wanted # {} THEN pre[Min(wanted)] ELSE IF others # {} THEN Min(others) ELSE NoSeg
  BY DEF findseg
<1>2. wanted \subseteq 1..Len(pre) /\ Len(pre) \in Nat /\ others \subseteq Segments
  BY SeqLength
<1> HIDE DEF wanted, others
<1>3. wanted # {} => pre[Min(wanted)] \in Segments
  BY <1>2, LeastIsIn, SeqLength, wanted \in SUBSET Nat
<1>4. others # {} => Min(others) \in Segments
  BY <1>2, LeastIsIn, SegmentNumbers, others \in SUBSET Nat
<1> QED
  BY <1>1, <1>3, <1>4

-----------------------------------------------------------------------------
(* Segments that grow.                                                     *)

SegEntry(e) == {"typ", "siz", "hiwat", "rel", "pos"} \subseteq DOMAIN e /\ e.siz \in Nat /\ e.hiwat \in Nat /\ e.rel \in Nat
SegTable(t) == DOMAIN t = Segments /\ \A j \in Segments : SegEntry(t[j])
Sizes(t) == [j \in Segments |-> t[j].siz]

\* The sizes when a part has come to segment j.
Grown(sizes, j, len) == [sizes EXCEPT ![j] = round(@ + len)]

LEMMA RoundIsNat == ASSUME NEW n \in Nat PROVE round(n) \in Nat
BY DEF round

LEMMA PutKeeps ==
  ASSUME NEW t, SegTable(t), NEW j \in Segments, NEW typ, NEW n \in Nat
  PROVE  /\ SegTable(Put(t, j, typ, n)) /\ SegTable(RoundSeg(t, j))
         /\ \A i \in Segments : Put(t, j, typ, n)[i].rel = t[i].rel /\ RoundSeg(t, j)[i].rel = t[i].rel
         /\ Put(t, j, typ, n)[j].siz = t[j].siz + n /\ RoundSeg(t, j)[j].siz = round(t[j].siz)
         /\ \A i \in Segments : i # j => Put(t, j, typ, n)[i].siz = t[i].siz /\ RoundSeg(t, j)[i].siz = t[i].siz
<1>1. PICK e : e = [t[j] EXCEPT !.typ = newtyp(@, typ), !.siz = @ + n]
  OBVIOUS
<1>2. PICK r : r = [t[j] EXCEPT !.siz = round(@)]
  OBVIOUS
<1>3. SegEntry(t[j])
  BY DEF SegTable
<1>4. t[j].siz \in Nat /\ {"typ", "siz", "hiwat", "rel", "pos"} \subseteq DOMAIN t[j]
  BY <1>3 DEF SegEntry
<1>5. SegEntry(e) /\ e.rel = t[j].rel /\ e.siz = t[j].siz + n
  BY <1>1, <1>3, <1>4 DEF SegEntry
<1>6. round(t[j].siz) \in Nat
  BY <1>4, RoundIsNat
<1>7. SegEntry(r) /\ r.rel = t[j].rel /\ r.siz = round(t[j].siz)
  BY <1>2, <1>3, <1>4, <1>6 DEF SegEntry
<1>8. Put(t, j, typ, n) = [t EXCEPT ![j] = e]
  BY <1>1 DEF Put, SegTable
<1>9. RoundSeg(t, j) = [t EXCEPT ![j] = r]
  BY <1>2 DEF RoundSeg, SegTable
<1> QED
  BY <1>5, <1>7, <1>8, <1>9 DEF SegTable

LEMMA GrownSegment ==
  ASSUME NEW t, SegTable(t), NEW j \in Segments, NEW typ, NEW n \in Nat
  PROVE  LET u == RoundSeg(Put(t, j, typ, n), j)
         IN  SegTable(u) /\ Sizes(u) = Grown(Sizes(t), j, n) /\ \A i \in Segments : u[i].rel = t[i].rel
<1>1. PICK p : p = Put(t, j, typ, n)
  OBVIOUS
<1>2. PICK u : u = RoundSeg(p, j)
  OBVIOUS
<1>3. SegTable(p) /\ p[j].siz = t[j].siz + n /\ \A i \in Segments : p[i].rel = t[i].rel /\ (i # j => p[i].siz = t[i].siz)
  BY <1>1, PutKeeps
<1>4. SegTable(u) /\ u[j].siz = round(t[j].siz + n)
      /\ \A i \in Segments : u[i].rel = t[i].rel /\ (i # j => u[i].siz = t[i].siz)
  BY <1>2, <1>3, PutKeeps
<1>5. Sizes(u) = Grown(Sizes(t), j, n)
  BY <1>4 DEF Sizes, Grown
<1> QED
  BY <1>1, <1>2, <1>4, <1>5

LEMMA SizesAreNat ==
  ASSUME NEW t, SegTable(t)
  PROVE  Sizes(t) \in [Segments -> Nat] /\ \A j \in Segments : Sizes(t)[j] = t[j].siz
BY DEF Sizes, SegTable, SegEntry

-----------------------------------------------------------------------------
(* Pass 1: where the segments of a module go.                              *)

\* The sizes before each of the module's segments.
Part(at, f, m, rel, k) ==
  /\ m[k] \in Segments /\ at[k] = Grown(at[k - 1], m[k], f.segs[k].len)
  /\ k - 1 \in Segments => rel[k - 1] = at[k - 1][m[k]]
Parts(at, t, f, m, rel, n, u) ==
  /\ at[0] = Sizes(t) /\ at[n] = Sizes(u)
  /\ \A k \in 0..n : at[k] \in [Segments -> Nat]
  /\ \A k \in 1..n : Part(at, f, m, rel, k)

Placement(f, n, acc) ==
  /\ {"t", "m", "rel", "err", "full"} \subseteq DOMAIN acc
  /\ SegTable(acc.t) /\ acc.m \in Seq(Segments) /\ DOMAIN acc.rel = Segments /\ acc.err \in Nat /\ acc.full \in BOOLEAN
  /\ \A j \in Segments : acc.t[j].rel = segtab[j].rel
  /\ ~ acc.full => Len(acc.m) = n /\ \E at : Parts(at, segtab, f, acc.m, acc.rel, n, acc.t)

LEMMA PlaceSegPlaces ==
  ASSUME NEW f, NEW n \in Nat, NEW acc, Placement(f, n, acc), IsSegment(f.segs[n + 1]),
         IsSeq(prelist), ToSet(prelist) \subseteq Segments
  PROVE  Placement(f, n + 1, PlaceSeg(acc, f.segs[n + 1]))
<1> DEFINE s   == f.segs[n + 1]
           j   == IF s.no % 128 = NoSeg THEN findseg(acc.t, prelist, s.typ, s.len) ELSE s.no % 128
           new == Put(acc.t, j, s.typ, s.len)
           u   == RoundSeg(new, j)
           r   == [acc EXCEPT !.t = u, !.m = Append(@, j), !.rel[Len(acc.m)] = acc.t[j].siz,
                              !.err = IF new[j].siz >= SegLimit THEN @ + 1 ELSE @]
<1>1. j \in Segments \cup {NoSeg} /\ s.len \in Nat
  BY SegmentFound DEF IsSegment
<1>2. PlaceSeg(acc, s) = IF acc.full \/ j = NoSeg THEN [acc EXCEPT !.full = TRUE] ELSE r
  BY DEF PlaceSeg
<1> HIDE DEF j
<1>3. CASE acc.full \/ j = NoSeg
  <2>1. PICK x : x = [acc EXCEPT !.full = TRUE]
    OBVIOUS
  <2>2. Placement(f, n + 1, x)
    BY <2>1 DEF Placement
  <2> QED
    BY <1>2, <1>3, <2>1, <2>2
<1>4. CASE ~ (acc.full \/ j = NoSeg)
  <2>1. j \in Segments /\ ~ acc.full /\ Len(acc.m) = n
    BY <1>1, <1>4 DEF Placement
  <2>2. SegTable(u) /\ Sizes(u) = Grown(Sizes(acc.t), j, s.len) /\ \A i \in Segments : u[i].rel = acc.t[i].rel
    BY <1>1, <2>1, GrownSegment DEF Placement
  <2> HIDE DEF u
  <2>3. PICK m : m = Append(acc.m, j)
    OBVIOUS
  <2>4. PICK rel : rel = [acc.rel EXCEPT ![n] = acc.t[j].siz]
    OBVIOUS
  <2>5. PICK err : err = IF new[j].siz >= SegLimit THEN acc.err + 1 ELSE acc.err
    OBVIOUS
  <2>6. err \in Nat
    BY <2>5 DEF Placement
  <2>7. PICK x : x = [acc EXCEPT !.t = u, !.m = m, !.rel = rel, !.err = err]
    OBVIOUS
  <2>8. PlaceSeg(acc, s) = x
    BY <1>2, <1>4, <2>1, <2>3, <2>4, <2>5, <2>7 DEF Placement
  <2>9. /\ {"t", "m", "rel", "err", "full"} \subseteq DOMAIN x /\ ~ x.full /\ x.full \in BOOLEAN
        /\ x.t = u /\ x.m = m /\ x.rel = rel /\ x.err = err
    BY <2>1, <2>7 DEF Placement
  <2>10. m \in Seq(Segments) /\ Len(m) = n + 1 /\ m[n + 1] = j /\ \A k \in 1..n : m[k] = acc.m[k]
    BY <2>1, <2>3, Appended DEF Placement
  <2>11. PICK at : Parts(at, segtab, f, acc.m, acc.rel, n, acc.t)
    BY <2>1 DEF Placement
  <2>12. PICK to : to = [k \in 0..(n + 1) |-> IF k <= n THEN at[k] ELSE Sizes(u)]
    OBVIOUS
  <2>13. to[n + 1] = Sizes(u) /\ \A k \in 0..n : to[k] = at[k]
    BY <2>12
  <2>14. to[n] = Sizes(acc.t) /\ to[0] = Sizes(segtab)
    BY <2>11, <2>13 DEF Parts
  <2>15. Part(to, f, m, rel, n + 1)
    <3>1. n + 1 - 1 = n
      OBVIOUS
    <3>2. n \in Segments => rel[n] = to[n][j]
      BY <2>1, <2>4, <2>14, SizesAreNat DEF Placement
    <3> QED
      BY <2>1, <2>2, <2>10, <2>13, <2>14, <3>1, <3>2 DEF Part
  <2>16. ASSUME NEW k \in 1..n PROVE Part(to, f, m, rel, k)
    <3>1. Part(at, f, acc.m, acc.rel, k)
      BY <2>11 DEF Parts
    <3>2. to[k] = at[k] /\ to[k - 1] = at[k - 1] /\ m[k] = acc.m[k] /\ k - 1 # n
      BY <2>10, <2>13
    <3>3. rel[k - 1] = acc.rel[k - 1]
      BY <2>4, <3>2
    <3> QED
      BY <3>1, <3>2, <3>3 DEF Part
  <2>17. Parts(to, segtab, f, m, rel, n + 1, u)
    <3>1. \A k \in 0..(n + 1) : to[k] \in [Segments -> Nat]
      BY <2>2, <2>11, <2>13, SizesAreNat DEF Parts
    <3>2. \A k \in 1..(n + 1) : Part(to, f, m, rel, k)
      BY <2>15, <2>16
    <3> QED
      BY <2>13, <2>14, <3>1, <3>2 DEF Parts
  <2>18. Placement(f, n + 1, x)
    BY <2>2, <2>4, <2>6, <2>9, <2>10, <2>17 DEF Placement
  <2> QED
    BY <2>8, <2>18
<1> QED
  BY <1>3, <1>4

Placing2(p, q, acc, s) == PlaceSeg(acc, s)
PlacementSoFar(p, q, i, acc) == Placement(p, i, acc)
Place2 == INSTANCE FoldFacts WITH op <- Placing2, P <- PlacementSoFar

LEMMA p1dosegPlaces ==
  ASSUME NEW f, IsModule(f), SegTable(segtab), DOMAIN mod.rel = Segments, IsSeq(prelist), ToSet(prelist) \subseteq Segments
  PROVE  Placement(f, Len(f.segs), p1doseg(f))
<1> DEFINE base == [t |-> segtab, m |-> <<>>, rel |-> mod.rel, err |-> 0, full |-> FALSE]
<1>1. IsSeq(f.segs) /\ \A s \in ToSet(f.segs) : IsSegment(s)
  BY DEF IsModule
<1>2. Len(f.segs) \in Nat /\ DOMAIN f.segs = 1..Len(f.segs) /\ \A i \in 1..Len(f.segs) : IsSegment(f.segs[i])
  BY <1>1, SeqLength
<1>3. PlacementSoFar(f, 0, 0, base)
  <2>1. PICK at : at = [k \in 0..0 |-> Sizes(segtab)]
    OBVIOUS
  <2>2. Parts(at, segtab, f, <<>>, mod.rel, 0, segtab)
    BY <2>1, SizesAreNat DEF Parts
  <2>3. <<>> \in Seq(Segments) /\ Len(<<>>) = 0
    OBVIOUS
  <2> QED
    BY <2>2, <2>3 DEF PlacementSoFar, Placement
<1>4. \A acc : \A i \in 0..(Len(f.segs) - 1) :
         PlacementSoFar(f, 0, i, acc) => PlacementSoFar(f, 0, i + 1, Placing2(f, 0, acc, f.segs[i + 1]))
  <2> SUFFICES ASSUME NEW acc, NEW i \in 0..(Len(f.segs) - 1), Placement(f, i, acc)
               PROVE  Placement(f, i + 1, PlaceSeg(acc, f.segs[i + 1]))
    BY DEF PlacementSoFar, Placing2
  <2>1. i \in Nat /\ i + 1 \in 1..Len(f.segs)
    BY <1>2
  <2> QED
    BY <1>2, <2>1, PlaceSegPlaces
<1> HIDE DEF base
<1>5. PlacementSoFar(f, 0, Len(f.segs), Place2!Folded(f, 0, base, f.segs))
  BY <1>2, <1>3, <1>4, Place2!FoldInvariant
<1>6. p1doseg(f) = Place2!Folded(f, 0, base, f.segs)
  BY DEF base, p1doseg, Place2!Folded, Placing2, FoldLeft, MapThenFoldSet, Place2!MapThenFoldSet, Max, Place2!Greatest
<1> QED
  BY <1>5, <1>6 DEF PlacementSoFar

-----------------------------------------------------------------------------
(* Pass 1: what happens to symbols.                                        *)

CommonIn(f, name) == \E s \in ToSet(f.syms) : s.fl = "UNX" /\ s.name = name /\ s.val > 0

\* A definition stays, and its address if no common follows.
Stays(f, d, e) ==
  /\ e.fl = "GLB" /\ e.name = d.name /\ e.sg = d.sg
  /\ d.val \in Nat /\ ~ CommonIn(f, d.name) => e.val = d.val
AllStay(f, tab, new) ==
  Len(tab) <= Len(new) /\ \A k \in 1..Len(tab) : tab[k].fl = "GLB" => Stays(f, tab[k], new[k])

IsTable(tab) == IsSeq(tab) /\ \A k \in 1..Len(tab) : IsSymbol(tab[k])

LEMMA TableAppend ==
  ASSUME NEW tab, IsTable(tab), NEW s, IsSymbol(s), NEW f
  PROVE  /\ IsTable(Append(tab, s)) /\ AllStay(f, tab, Append(tab, s)) /\ Len(Append(tab, s)) = Len(tab) + 1
         /\ Append(tab, s)[Len(tab) + 1] = s
<1>1. PICK new : new = Append(tab, s)
  OBVIOUS
<1>2. Len(tab) \in Nat /\ IsSeq(tab) /\ tab \in Seq(ToSet(tab) \cup {s})
  BY SeqLength DEF IsTable
<1>3. IsSeq(new) /\ Len(new) = Len(tab) + 1 /\ new[Len(tab) + 1] = s /\ \A i \in 1..Len(tab) : new[i] = tab[i]
  BY <1>1, <1>2, AppendIsSeq, Appended
<1>4. IsTable(new)
  BY <1>2, <1>3 DEF IsTable
<1>5. AllStay(f, tab, new)
  BY <1>2, <1>3 DEF AllStay, Stays
<1> QED
  BY <1>1, <1>3, <1>4, <1>5

LEMMA TableExcept ==
  ASSUME NEW tab, IsTable(tab), NEW k \in 1..Len(tab), NEW s, IsSymbol(s), NEW f,
         tab[k].fl = "GLB" => Stays(f, tab[k], s)
  PROVE  /\ IsTable([tab EXCEPT ![k] = s]) /\ AllStay(f, tab, [tab EXCEPT ![k] = s])
         /\ Len([tab EXCEPT ![k] = s]) = Len(tab) /\ [tab EXCEPT ![k] = s][k] = s
<1>1. PICK new : new = [tab EXCEPT ![k] = s]
  OBVIOUS
<1>2. Len(tab) \in Nat /\ DOMAIN tab = 1..Len(tab)
  BY SeqLength DEF IsTable
<1>3. IsSeq(new) /\ Len(new) = Len(tab)
  BY <1>1, ExceptIsSeq DEF IsTable
<1>4. new[k] = s /\ \A i \in 1..Len(tab) : i # k => new[i] = tab[i]
  BY <1>1, <1>2
<1>5. IsTable(new)
  BY <1>2, <1>3, <1>4 DEF IsTable
<1>6. AllStay(f, tab, new)
  BY <1>2, <1>3, <1>4 DEF AllStay, Stays
<1> QED
  BY <1>1, <1>3, <1>4, <1>5, <1>6

LEMMA StayThrough ==
  ASSUME NEW f, NEW tab, NEW mid, NEW new, Len(tab) \in Nat, Len(mid) \in Nat, Len(new) \in Nat,
         AllStay(f, tab, mid), AllStay(f, mid, new)
  PROVE  AllStay(f, tab, new)
<1>1. Len(tab) <= Len(new)
  BY DEF AllStay
<1>2. ASSUME NEW k \in 1..Len(tab), tab[k].fl = "GLB" PROVE Stays(f, tab[k], new[k])
  <2>1. Stays(f, tab[k], mid[k]) /\ k \in 1..Len(mid)
    BY <1>2 DEF AllStay
  <2>2. Stays(f, mid[k], new[k])
    BY <2>1 DEF AllStay, Stays
  <2> QED
    BY <2>1, <2>2 DEF Stays
<1> QED
  BY <1>1, <1>2 DEF AllStay

LEMMA CommonSizeFacts ==
  ASSUME NEW old, NEW new \in Nat
  PROVE  /\ old \in Nat => CommonSize(old, new) \in Nat
         /\ old \in Nat /\ new = 0 => CommonSize(old, new) = old
BY DEF CommonSize

\* The symbol of a definition has the address of the definition's place.
Known(f, rel, m, s, k, tab) ==
  InSegment(f, s) /\ ~ CommonIn(f, s.name) =>
    /\ k \in 1..Len(tab) /\ tab[k].fl = "GLB" /\ tab[k].name = s.name
    /\ tab[k].sg = MapAt(m, s.sg) /\ tab[k].val = Wrap(s.val + rel[s.sg])

IsEntering(acc) == HasTable(acc) /\ IsTable(acc.tab) /\ acc.sy \in Seq(Nat)
Entered(f, rel, m, acc, s, r) ==
  /\ IsEntering(r) /\ Len(r.sy) = Len(acc.sy) + 1 /\ \A i \in 1..Len(acc.sy) : r.sy[i] = acc.sy[i]
  /\ r.err >= acc.err
  /\ r.err = acc.err => AllStay(f, acc.tab, r.tab) /\ Known(f, rel, m, s, r.sy[Len(r.sy)], r.tab)

LEMMA EnteredNew ==
  ASSUME NEW f, NEW rel, NEW m, NEW acc, IsEntering(acc), NEW s, NEW r, NEW moved, IsSymbol(moved),
         HasTable(r), r.tab = Append(acc.tab, moved), r.sy = Append(acc.sy, Len(acc.tab) + 1), r.err = acc.err,
         s.fl = "GLB" => moved.fl = "GLB" /\ moved.name = s.name /\ moved.sg = MapAt(m, s.sg) /\ moved.val = Wrap(s.val + rel[s.sg])
  PROVE  Entered(f, rel, m, acc, s, r)
<1>1. /\ IsTable(r.tab) /\ AllStay(f, acc.tab, r.tab) /\ Len(r.tab) = Len(acc.tab) + 1
      /\ r.tab[Len(acc.tab) + 1] = moved
  BY TableAppend DEF IsEntering
<1>2. Len(acc.tab) \in Nat /\ Len(acc.sy) \in Nat
  BY SeqLength DEF IsEntering, IsTable
<1>3. /\ r.sy \in Seq(Nat) /\ Len(r.sy) = Len(acc.sy) + 1 /\ r.sy[Len(r.sy)] = Len(acc.tab) + 1
      /\ \A i \in 1..Len(acc.sy) : r.sy[i] = acc.sy[i]
  BY <1>2, Appended DEF IsEntering
<1>4. Known(f, rel, m, s, r.sy[Len(r.sy)], r.tab)
  BY <1>1, <1>2, <1>3 DEF Known, InSegment
<1>5. r.err >= acc.err
  BY DEF HasTable, HasErr
<1> QED
  BY <1>1, <1>3, <1>4, <1>5 DEF Entered, IsEntering

\* No definition.
LEMMA EnteredOther ==
  ASSUME NEW f, NEW rel, NEW m, NEW acc, IsEntering(acc), NEW s, s.fl # "GLB", NEW r, NEW k \in Nat,
         HasTable(r), IsTable(r.tab), AllStay(f, acc.tab, r.tab), r.sy = Append(acc.sy, k), r.err = acc.err
  PROVE  Entered(f, rel, m, acc, s, r)
<1>1. Len(acc.sy) \in Nat
  BY DEF IsEntering
<1>2. r.sy \in Seq(Nat) /\ Len(r.sy) = Len(acc.sy) + 1 /\ \A i \in 1..Len(acc.sy) : r.sy[i] = acc.sy[i]
  BY <1>1, Appended DEF IsEntering
<1>3. Known(f, rel, m, s, r.sy[Len(r.sy)], r.tab)
  BY DEF Known, InSegment
<1>4. r.err >= acc.err
  BY DEF HasTable, HasErr
<1> QED
  BY <1>2, <1>3, <1>4 DEF Entered, IsEntering

LEMMA AllStayHere ==
  ASSUME NEW f, NEW tab, IsTable(tab)
  PROVE  AllStay(f, tab, tab)
<1>1. Len(tab) \in Nat
  BY SeqLength DEF IsTable
<1> QED
  BY <1>1 DEF AllStay, Stays

LEMMA EnterSymEnters ==
  ASSUME NEW f, NEW rel, NEW m, NEW acc, IsEntering(acc), NEW s \in ToSet(f.syms), IsSymbol(s)
  PROVE  Entered(f, rel, m, acc, s, EnterSym(rel, m, acc, s))
<1> DEFINE inSegment == s.fl = "GLB" \/ (s.fl = "LOC" /\ ~ cmd.r /\ s.sg # 255)
           moved == IF inSegment
                    THEN [s EXCEPT !.val = Wrap(@ + rel[s.sg]), !.sg = MapAt(m, s.sg)]
                    ELSE s
           k     == CASE s.fl = "SEG" -> lookup(acc.tab, SegmentNm, s.name)
                      [] s.fl \in External -> lookup(acc.tab, External, s.name)
                      [] OTHER -> 0
           new   == [acc EXCEPT !.tab = Append(@, moved), !.sy = Append(@, Len(acc.tab) + 1)]
           old   == [acc EXCEPT !.sy = Append(@, k)]
           sized == [acc.tab[k] EXCEPT !.val = CommonSize(@, s.val)]
<1>0. PICK r : r = EnterSym(rel, m, acc, s)
  OBVIOUS
<1> SUFFICES Entered(f, rel, m, acc, s, r)
  BY <1>0
<1>1. HasTable(r)
  BY <1>0, EnterSymKeeps DEF IsEntering
<1>2. IsSymbol(moved)
  BY DEF IsSymbol
<1>3. s.fl = "GLB" => moved.fl = "GLB" /\ moved.name = s.name /\ moved.sg = MapAt(m, s.sg) /\ moved.val = Wrap(s.val + rel[s.sg])
  BY DEF IsSymbol
<1>4. \/ k = 0
      \/ k \in 1..Len(acc.tab) /\ acc.tab[k].name = s.name /\ acc.tab[k].fl \in (IF s.fl = "SEG" THEN SegmentNm ELSE External)
  BY LookupFinds DEF IsEntering, IsTable, External
<1>5. Len(acc.tab) \in Nat /\ Len(acc.sy) \in Nat /\ k \in Nat
  BY <1>4, SeqLength DEF IsEntering, IsTable
<1>6. {"tab", "sy", "und", "err"} \subseteq DOMAIN acc /\ acc.err \in Nat
  BY DEF IsEntering, HasTable, HasErr
<1>7. k \in 1..Len(acc.tab) => IsSymbol(acc.tab[k])
  BY DEF IsEntering, IsTable
<1>8. \/ s.fl = "LOC" /\ cmd.x /\ r = [acc EXCEPT !.sy = Append(@, Len(acc.tab) + 1)]
      \/ s.fl = "UNX" /\ k = 0 /\ r = [new EXCEPT !.und = @ + 1]
      \/ s.fl = "UNX" /\ k # 0 /\ r = [old EXCEPT !.tab[k].val = CommonSize(@, s.val)]
      \/ s.fl = "GLB" /\ k # 0 /\ acc.tab[k].fl = "UNX" /\ r = [old EXCEPT !.und = @ - 1, !.tab[k] = moved]
      \/ s.fl = "GLB" /\ k # 0 /\ r = [old EXCEPT !.err = @ + 1]
      \/ s.fl = "SEG" /\ k # 0 /\ r = old
      \/ r = new
  BY <1>0 DEF EnterSym
<1> HIDE DEF moved, k, new, old
<1>N. /\ {"tab", "sy", "und", "err"} \subseteq DOMAIN new
      /\ new.tab = Append(acc.tab, moved) /\ new.sy = Append(acc.sy, Len(acc.tab) + 1) /\ new.err = acc.err
  BY <1>6 DEF new
<1>O. /\ {"tab", "sy", "und", "err"} \subseteq DOMAIN old
      /\ old.tab = acc.tab /\ old.sy = Append(acc.sy, k) /\ old.err = acc.err
  BY <1>6 DEF old
<1>9. CASE s.fl = "LOC" /\ cmd.x /\ r = [acc EXCEPT !.sy = Append(@, Len(acc.tab) + 1)]
  <2>1. r.tab = acc.tab /\ r.sy = Append(acc.sy, Len(acc.tab) + 1) /\ r.err = acc.err
    BY <1>6, <1>9
  <2>2. IsTable(acc.tab) /\ Len(acc.tab) + 1 \in Nat
    BY <1>5 DEF IsEntering
  <2> QED
    BY <1>1, <1>9, <2>1, <2>2, AllStayHere, EnteredOther
<1>10. CASE s.fl = "UNX" /\ k = 0 /\ r = [new EXCEPT !.und = @ + 1]
  <2>1. r.tab = Append(acc.tab, moved) /\ r.sy = Append(acc.sy, Len(acc.tab) + 1) /\ r.err = acc.err
    BY <1>N, <1>10
  <2> QED
    BY <1>1, <1>2, <1>3, <2>1, EnteredNew
<1>11. CASE s.fl = "UNX" /\ k # 0 /\ r = [old EXCEPT !.tab[k].val = CommonSize(@, s.val)]
  <2>1. k \in 1..Len(acc.tab) /\ acc.tab[k].name = s.name /\ acc.tab[k].fl \in External /\ IsSymbol(acc.tab[k])
    BY <1>4, <1>7, <1>11 DEF External
  <2>2. PICK tab : tab = [acc.tab EXCEPT ![k] = sized]
    OBVIOUS
  <2>3. r.tab = tab /\ r.sy = Append(acc.sy, k) /\ r.err = acc.err
    BY <1>O, <1>11, <2>2 DEF sized
  <2>4. IsSymbol(sized) /\ sized.fl = acc.tab[k].fl /\ sized.name = acc.tab[k].name /\ sized.sg = acc.tab[k].sg
        /\ sized.val = CommonSize(acc.tab[k].val, s.val) /\ s.val \in Nat
    BY <1>11, <2>1, CommonSizeFacts DEF IsSymbol
  <2>5. acc.tab[k].fl = "GLB" => Stays(f, acc.tab[k], sized)
    <3> SUFFICES ASSUME acc.tab[k].fl = "GLB", acc.tab[k].val \in Nat, ~ CommonIn(f, s.name)
                 PROVE  sized.val = acc.tab[k].val
      BY <2>1, <2>4 DEF Stays
    <3>1. s.val = 0
      BY <1>11, <2>4 DEF CommonIn
    <3> QED
      BY <2>4, <3>1, CommonSizeFacts
  <2> HIDE DEF sized
  <2>6. IsTable(tab) /\ AllStay(f, acc.tab, tab)
    BY <2>1, <2>2, <2>4, <2>5, TableExcept DEF IsEntering
  <2> QED
    BY <1>1, <1>5, <1>11, <2>3, <2>6, EnteredOther
<1>12. CASE s.fl = "GLB" /\ k # 0 /\ acc.tab[k].fl = "UNX" /\ r = [old EXCEPT !.und = @ - 1, !.tab[k] = moved]
  <2>1. k \in 1..Len(acc.tab)
    BY <1>4, <1>12
  <2>2. PICK tab : tab = [acc.tab EXCEPT ![k] = moved]
    OBVIOUS
  <2>3. r.tab = tab /\ r.sy = Append(acc.sy, k) /\ r.err = acc.err
    BY <1>O, <1>12, <2>2
  <2>4. IsTable(tab) /\ AllStay(f, acc.tab, tab) /\ Len(tab) = Len(acc.tab) /\ tab[k] = moved
    <3>1. IsTable(acc.tab) /\ (acc.tab[k].fl = "GLB" => Stays(f, acc.tab[k], moved))
      BY <1>12 DEF IsEntering
    <3> QED
      BY <1>2, <2>1, <2>2, <3>1, TableExcept
  <2>5. /\ r.sy \in Seq(Nat) /\ Len(r.sy) = Len(acc.sy) + 1 /\ r.sy[Len(r.sy)] = k
        /\ \A i \in 1..Len(acc.sy) : r.sy[i] = acc.sy[i]
    BY <1>5, <2>3, Appended DEF IsEntering
  <2>6. Known(f, rel, m, s, r.sy[Len(r.sy)], r.tab)
    BY <1>3, <1>12, <2>1, <2>3, <2>4, <2>5 DEF Known
  <2> QED
    BY <1>1, <1>6, <2>3, <2>4, <2>5, <2>6 DEF Entered, IsEntering
<1>13. CASE s.fl = "GLB" /\ k # 0 /\ r = [old EXCEPT !.err = @ + 1]
  <2>1. r.tab = acc.tab /\ r.sy = Append(acc.sy, k) /\ r.err = acc.err + 1
    BY <1>O, <1>13
  <2>2. r.sy \in Seq(Nat) /\ Len(r.sy) = Len(acc.sy) + 1 /\ \A i \in 1..Len(acc.sy) : r.sy[i] = acc.sy[i]
    BY <1>5, <2>1, Appended DEF IsEntering
  <2> QED
    BY <1>1, <1>6, <2>1, <2>2 DEF Entered, IsEntering
<1>14. CASE s.fl = "SEG" /\ k # 0 /\ r = old
  <2>1. r.tab = acc.tab /\ r.sy = Append(acc.sy, k) /\ r.err = acc.err
    BY <1>O, <1>14
  <2>2. IsTable(acc.tab)
    BY DEF IsEntering
  <2> QED
    BY <1>1, <1>5, <1>14, <2>1, <2>2, AllStayHere, EnteredOther
<1>15. CASE r = new
  <2>1. r.tab = Append(acc.tab, moved) /\ r.sy = Append(acc.sy, Len(acc.tab) + 1) /\ r.err = acc.err
    BY <1>N, <1>15
  <2> QED
    BY <1>1, <1>2, <1>3, <2>1, EnteredNew
<1>16. Entered(f, rel, m, acc, s, r)
  BY <1>8, <1>9, <1>10, <1>11, <1>12, <1>13, <1>14, <1>15
<1> QED
  BY <1>0, <1>16

PlacesNumbered(f, rel) == \A k \in Segments : k < Len(f.segs) => rel[k] \in Nat

LEMMA KnownStays ==
  ASSUME NEW f, NEW rel, PlacesNumbered(f, rel), NEW m, NEW s, NEW k, NEW tab, NEW new, Known(f, rel, m, s, k, tab),
         AllStay(f, tab, new), Len(tab) \in Nat, Len(new) \in Nat
  PROVE  Known(f, rel, m, s, k, new)
<1> SUFFICES ASSUME InSegment(f, s), ~ CommonIn(f, s.name)
             PROVE  /\ k \in 1..Len(new) /\ new[k].fl = "GLB" /\ new[k].name = s.name
                    /\ new[k].sg = MapAt(m, s.sg) /\ new[k].val = Wrap(s.val + rel[s.sg])
  BY DEF Known
<1>1. /\ k \in 1..Len(tab) /\ tab[k].fl = "GLB" /\ tab[k].name = s.name
      /\ tab[k].sg = MapAt(m, s.sg) /\ tab[k].val = Wrap(s.val + rel[s.sg])
  BY DEF Known
<1>2. Stays(f, tab[k], new[k]) /\ k \in 1..Len(new)
  BY <1>1 DEF AllStay
<1>3. s.val \in Nat /\ rel[s.sg] \in Nat
  BY DEF InSegment, PlacesNumbered
<1>4. s.val + rel[s.sg] \in Nat
  BY <1>3
<1>5. tab[k].val \in Nat
  BY <1>1, <1>4, WrapSum
<1> QED
  BY <1>1, <1>2, <1>5 DEF Stays

EnteringKnows(p, q, i, acc) ==
  /\ IsEntering(acc) /\ Len(acc.sy) = i
  /\ acc.err = 0 /\ PlacesNumbered(q[1], p[1]) =>
       /\ AllStay(q[1], q[2], acc.tab)
       /\ \A x \in 1..i : Known(q[1], p[1], p[2], q[1].syms[x], acc.sy[x], acc.tab)
Entering2(p, q, acc, s) == EnterSym(p[1], p[2], acc, s)
Enter2 == INSTANCE FoldFacts WITH op <- Entering2, P <- EnteringKnows

LEMMA EnteringStep ==
  ASSUME NEW f, IsModule(f), NEW rel, NEW m, NEW table, Len(table) \in Nat,
         NEW i \in 0..(Len(f.syms) - 1), NEW acc, EnteringKnows(<<rel, m>>, <<f, table>>, i, acc)
  PROVE  EnteringKnows(<<rel, m>>, <<f, table>>, i + 1, EnterSym(rel, m, acc, f.syms[i + 1]))
<1>1. PICK s : s = f.syms[i + 1]
  OBVIOUS
<1>2. IsSeq(f.syms) /\ Len(f.syms) \in Nat /\ i \in Nat /\ s \in ToSet(f.syms) /\ IsSymbol(s)
  BY <1>1, SeqLength DEF IsModule
<1>3. /\ IsEntering(acc) /\ Len(acc.sy) = i
      /\ acc.err = 0 /\ PlacesNumbered(f, rel) =>
           AllStay(f, table, acc.tab) /\ \A x \in 1..i : Known(f, rel, m, f.syms[x], acc.sy[x], acc.tab)
  BY DEF EnteringKnows
<1>4. PICK r : r = EnterSym(rel, m, acc, s)
  OBVIOUS
<1>5. Entered(f, rel, m, acc, s, r)
  BY <1>2, <1>3, <1>4, EnterSymEnters
<1>6. IsEntering(r) /\ Len(r.sy) = i + 1 /\ (\A x \in 1..i : r.sy[x] = acc.sy[x]) /\ r.err >= acc.err
  BY <1>3, <1>5 DEF Entered
<1>7. Len(acc.tab) \in Nat /\ Len(r.tab) \in Nat /\ acc.err \in Nat /\ r.err \in Nat
  BY <1>3, <1>6, SeqLength DEF IsEntering, IsTable, HasTable, HasErr
<1>8. ASSUME r.err = 0, PlacesNumbered(f, rel)
      PROVE  AllStay(f, table, r.tab) /\ \A x \in 1..(i + 1) : Known(f, rel, m, f.syms[x], r.sy[x], r.tab)
  <2>1. acc.err = 0
    BY <1>6, <1>7, <1>8
  <2>2. AllStay(f, acc.tab, r.tab) /\ Known(f, rel, m, s, r.sy[i + 1], r.tab)
    BY <1>5, <1>6, <1>8, <2>1 DEF Entered
  <2>3. AllStay(f, table, r.tab)
    BY <1>3, <1>7, <1>8, <2>1, <2>2, StayThrough
  <2>4. ASSUME NEW x \in 1..i PROVE Known(f, rel, m, f.syms[x], r.sy[x], r.tab)
    BY <1>3, <1>6, <1>7, <1>8, <2>1, <2>2, KnownStays
  <2>5. \A x \in 1..(i + 1) : x \in 1..i \/ x = i + 1
    BY <1>2
  <2> QED
    BY <1>1, <2>2, <2>3, <2>4, <2>5
<1> QED
  BY <1>1, <1>4, <1>6, <1>8 DEF EnteringKnows

LEMMA p1dosymKnows ==
  ASSUME NEW f, IsModule(f), NEW rel, NEW m, IsTable(symtab)
  PROVE  /\ IsEntering(p1dosym(f, rel, m)) /\ Len(p1dosym(f, rel, m).sy) = Len(f.syms)
         /\ p1dosym(f, rel, m).err = 0 /\ PlacesNumbered(f, rel) =>
              /\ AllStay(f, symtab, p1dosym(f, rel, m).tab)
              /\ \A x \in 1..Len(f.syms) : Known(f, rel, m, f.syms[x], p1dosym(f, rel, m).sy[x], p1dosym(f, rel, m).tab)
<1> DEFINE base == [tab |-> symtab, sy |-> <<>>, und |-> udefcnt, err |-> 0]
           p    == <<rel, m>>
           q    == <<f, symtab>>
<1>1. IsSeq(f.syms) /\ Len(f.syms) \in Nat /\ DOMAIN f.syms = 1..Len(f.syms) /\ Len(symtab) \in Nat /\ IsSeq(symtab)
  BY SeqLength DEF IsModule, IsTable
<1>2. EnteringKnows(p, q, 0, base)
  <2>1. HasTable(base)
    BY <1>1 DEF HasTable, HasErr
  <2>2. <<>> \in Seq(Nat) /\ Len(<<>>) = 0
    OBVIOUS
  <2>3. AllStay(f, symtab, symtab)
    BY AllStayHere
  <2> QED
    BY <2>1, <2>2, <2>3 DEF EnteringKnows, IsEntering
<1>3. \A acc : \A i \in 0..(Len(f.syms) - 1) :
         EnteringKnows(p, q, i, acc) => EnteringKnows(p, q, i + 1, Entering2(p, q, acc, f.syms[i + 1]))
  <2> SUFFICES ASSUME NEW acc, NEW i \in 0..(Len(f.syms) - 1), EnteringKnows(p, q, i, acc)
               PROVE  EnteringKnows(p, q, i + 1, EnterSym(rel, m, acc, f.syms[i + 1]))
    BY DEF Entering2
  <2> QED
    BY <1>1, EnteringStep
<1> HIDE DEF base
<1>4. EnteringKnows(p, q, Len(f.syms), Enter2!Folded(p, q, base, f.syms))
  BY <1>1, <1>2, <1>3, Enter2!FoldInvariant
<1>5. p1dosym(f, rel, m) = Enter2!Folded(p, q, base, f.syms)
  BY DEF base, p1dosym, Enter2!Folded, Entering2, FoldLeft, MapThenFoldSet, Enter2!MapThenFoldSet, Max, Enter2!Greatest
<1> QED
  BY <1>4, <1>5 DEF EnteringKnows

-----------------------------------------------------------------------------
(* Pass 2: the segments of a module go to their places.                    *)

Unmoved(t, u) == \A i \in Segments : u[i].rel = t[i].rel /\ u[i].hiwat = t[i].hiwat

LEMMA TwoFields ==
  ASSUME NEW a, NEW j \in DOMAIN a, NEW x, NEW y
  PROVE  [a EXCEPT ![j].siz = x, ![j].pos = y] = [a EXCEPT ![j] = [a[j] EXCEPT !.siz = x, !.pos = y]]
OBVIOUS

\* What one step of the copying does, for part k in output segment j.
Copied(len, acc, k, r, j) ==
  /\ SegTable(r.t) /\ Unmoved(acc.t, r.t) /\ DOMAIN r.mod.rel = Segments
  /\ \A x \in Segments : x # k - 1 => r.mod.rel[x] = acc.mod.rel[x]
  /\ j \in Segments => /\ Sizes(r.t) = Grown(Sizes(acc.t), j, len)
                       /\ k - 1 \in Segments => r.mod.rel[k - 1] = Behind(acc.t[j])

LEMMA CopySegKeeps ==
  ASSUME NEW f, NEW maps, NEW acc, SegTable(acc.t), DOMAIN acc.mod.rel = Segments, NEW k, f.segs[k].len \in Nat
  PROVE  Copied(f.segs[k].len, acc, k, CopySeg(f, maps, acc, k), MapAt(map, maps + k - 1))
<1> SUFFICES ASSUME NEW r, r = CopySeg(f, maps, acc, k), NEW j, j = MapAt(map, maps + k - 1)
             PROVE  Copied(f.segs[k].len, acc, k, r, j)
  OBVIOUS
<1> USE DEF Copied
<1> DEFINE s == acc.t[j]
<1>1. PICK e : e = [s EXCEPT !.siz = round(@ + f.segs[k].len),
                              !.pos = IF f.segs[k].typ \in idata THEN @ + round(f.segs[k].len) ELSE @]
  OBVIOUS
<1>2. PICK t : t = [acc.t EXCEPT ![j] = e]
  OBVIOUS
<1>3. PICK rel : rel = [acc.mod.rel EXCEPT ![k - 1] = Behind(s)]
  OBVIOUS
<1>4. r.t = t /\ r.mod.rel = rel
  <2>1. t = [acc.t EXCEPT ![j].siz = round(@ + f.segs[k].len),
                          ![j].pos = IF f.segs[k].typ \in idata THEN @ + round(f.segs[k].len) ELSE @]
    <3>1. CASE j \in Segments
      <4>1. PICK x : x = round(s.siz + f.segs[k].len)
        OBVIOUS
      <4>2. PICK y : y = IF f.segs[k].typ \in idata THEN s.pos + round(f.segs[k].len) ELSE s.pos
        OBVIOUS
      <4>3. e = [s EXCEPT !.siz = x, !.pos = y]
        BY <1>1, <4>1, <4>2
      <4>4. t = [acc.t EXCEPT ![j].siz = x, ![j].pos = y]
        <5>1. DOMAIN acc.t = Segments
          BY DEF SegTable
        <5>2. t = [acc.t EXCEPT ![j] = [acc.t[j] EXCEPT !.siz = x, !.pos = y]]
          BY <1>2, <4>3
        <5> QED
          BY <3>1, <5>1, <5>2, TwoFields
      <4> QED
        BY <4>1, <4>2, <4>4
    <3>2. CASE j \notin Segments
      BY <1>2, <3>2 DEF SegTable
    <3> QED
      BY <3>1, <3>2
  <2> QED
    BY <1>3, <2>1 DEF CopySeg
<1>5. DOMAIN rel = Segments /\ (\A x \in Segments : x # k - 1 => rel[x] = acc.mod.rel[x])
      /\ (k - 1 \in Segments => rel[k - 1] = Behind(s))
  BY <1>3
<1>6. CASE j \in Segments
  <2>1. SegEntry(s)
    BY <1>6 DEF SegTable
  <2>2. s.siz \in Nat /\ {"typ", "siz", "hiwat", "rel", "pos"} \subseteq DOMAIN s
    BY <2>1 DEF SegEntry
  <2>3. round(s.siz + f.segs[k].len) \in Nat
    BY <2>2, RoundIsNat
  <2>4. SegEntry(e) /\ e.rel = s.rel /\ e.hiwat = s.hiwat /\ e.siz = round(s.siz + f.segs[k].len)
    BY <1>1, <2>1, <2>2, <2>3 DEF SegEntry
  <2>5. SegTable(t) /\ Unmoved(acc.t, t)
    BY <1>2, <1>6, <2>4 DEF SegTable, Unmoved
  <2>6. Sizes(t) = Grown(Sizes(acc.t), j, f.segs[k].len)
    BY <1>2, <1>6, <2>4 DEF Sizes, Grown, SegTable
  <2> QED
    BY <1>4, <1>5, <2>5, <2>6
<1>7. CASE j \notin Segments
  <2>1. j \notin DOMAIN acc.t
    BY <1>7 DEF SegTable
  <2>2. DOMAIN t = DOMAIN acc.t /\ \A i \in Segments : t[i] = acc.t[i]
    BY <1>2, <2>1 DEF SegTable
  <2>3. SegTable(t) /\ Unmoved(acc.t, t)
    BY <2>2 DEF SegTable, Unmoved
  <2> QED
    BY <1>4, <1>5, <1>7, <2>3
<1> QED
  BY <1>6, <1>7

\* The chain of sizes over the entries of map that a module has.
Chain(at, f, maps) ==
  /\ map \in Seq(Segments) /\ maps \in Nat /\ maps + Len(f.segs) <= Len(map)
  /\ \A x \in 0..Len(map) : at[x] \in [Segments -> Nat]
  /\ \A k \in 1..Len(f.segs) : at[maps + k] = Grown(at[maps + k - 1], map[maps + k], f.segs[k].len)

Bias(at, maps, k) == LET j == MapAt(map, maps + k) IN Wrap(segtab[j].rel + at[maps + k][j])

CopyingTo(p, q, i, acc) ==
  /\ SegTable(acc.t) /\ Unmoved(segtab, acc.t) /\ DOMAIN acc.mod.rel = Segments
  /\ Chain(q, p[1], p[2]) /\ Sizes(segtab) = q[p[2]] =>
       /\ Sizes(acc.t) = q[p[2] + i]
       /\ \A k \in Segments : k < i => acc.mod.rel[k] = Bias(q, p[2], k)
Copying(p, q, acc, k) == CopySeg(p[1], p[2], acc, k)
Copy == INSTANCE FoldFacts WITH op <- Copying, P <- CopyingTo

LEMMA MapAtFacts ==
  ASSUME map \in Seq(Segments), NEW i \in Nat
  PROVE  MapAt(map, i) \in Segments \cup {255} /\ (i < Len(map) => MapAt(map, i) = map[i + 1] /\ map[i + 1] \in Segments)
<1>1. Len(map) \in Nat /\ \A k \in 1..Len(map) : map[k] \in Segments
  OBVIOUS
<1>2. i < Len(map) => i + 1 \in 1..Len(map)
  BY <1>1
<1> QED
  BY <1>1, <1>2 DEF MapAt

LEMMA CopySegStep ==
  ASSUME NEW f, IsModule(f), NEW maps, NEW at,
         NEW i \in 0..(Len(f.segs) - 1), NEW acc, CopyingTo(<<f, maps>>, at, i, acc)
  PROVE  CopyingTo(<<f, maps>>, at, i + 1, CopySeg(f, maps, acc, i + 1))
<1>1. PICK r : r = CopySeg(f, maps, acc, i + 1)
  OBVIOUS
<1>2. PICK j : j = MapAt(map, maps + (i + 1) - 1)
  OBVIOUS
<1>3. IsSeq(f.segs) /\ Len(f.segs) \in Nat /\ i \in Nat /\ i + 1 \in 1..Len(f.segs) /\ f.segs[i + 1].len \in Nat
  BY SeqLength DEF IsModule, IsSegment
<1>4. (i + 1) - 1 = i
  BY <1>3
<1>6. SegTable(acc.t) /\ Unmoved(segtab, acc.t) /\ DOMAIN acc.mod.rel = Segments
  BY DEF CopyingTo
<1>7. /\ SegTable(r.t) /\ Unmoved(acc.t, r.t) /\ DOMAIN r.mod.rel = Segments
      /\ \A x \in Segments : x # i => r.mod.rel[x] = acc.mod.rel[x]
      /\ j \in Segments => /\ Sizes(r.t) = Grown(Sizes(acc.t), j, f.segs[i + 1].len)
                           /\ i \in Segments => r.mod.rel[i] = Behind(acc.t[j])
  <2>1. /\ SegTable(r.t) /\ Unmoved(acc.t, r.t) /\ DOMAIN r.mod.rel = Segments
        /\ \A x \in Segments : x # (i + 1) - 1 => r.mod.rel[x] = acc.mod.rel[x]
        /\ j \in Segments => /\ Sizes(r.t) = Grown(Sizes(acc.t), j, f.segs[i + 1].len)
                             /\ (i + 1) - 1 \in Segments => r.mod.rel[(i + 1) - 1] = Behind(acc.t[j])
    <3>1. PICK k : k = i + 1
      OBVIOUS
    <3>2. r = CopySeg(f, maps, acc, k) /\ j = MapAt(map, maps + k - 1) /\ f.segs[k].len \in Nat
      BY <1>1, <1>2, <1>3, <3>1
    <3>3. SegTable(acc.t) /\ DOMAIN acc.mod.rel = Segments
      BY <1>6
    <3>4. Copied(f.segs[k].len, acc, k, CopySeg(f, maps, acc, k), MapAt(map, maps + k - 1))
      BY <3>2, <3>3, CopySegKeeps, Zenon
    <3>5. Copied(f.segs[k].len, acc, k, r, j)
      BY <3>2, <3>4
    <3> QED
      BY <3>1, <3>5 DEF Copied
  <2> QED
    BY <1>4, <2>1
<1>8. Unmoved(segtab, r.t)
  BY <1>6, <1>7 DEF Unmoved
<1>9. ASSUME Chain(at, f, maps), Sizes(segtab) = at[maps]
      PROVE  /\ Sizes(r.t) = at[maps + (i + 1)]
             /\ \A k \in Segments : k < i + 1 => r.mod.rel[k] = Bias(at, maps, k)
  <2>1. Sizes(acc.t) = at[maps + i] /\ \A k \in Segments : k < i => acc.mod.rel[k] = Bias(at, maps, k)
    BY <1>9 DEF CopyingTo
  <2>2. /\ maps \in Nat /\ map \in Seq(Segments) /\ maps + i \in Nat /\ maps + i < Len(map)
        /\ maps + i + 1 = maps + (i + 1) /\ maps + (i + 1) - 1 = maps + i
    <3>1. maps \in Nat /\ map \in Seq(Segments) /\ maps + Len(f.segs) <= Len(map)
      BY <1>9 DEF Chain
    <3>2. Len(map) \in Nat
      BY <3>1
    <3> QED
      BY <1>3, <3>1, <3>2
  <2>3. j = map[maps + (i + 1)] /\ j \in Segments
    BY <1>2, <2>2, MapAtFacts
  <2>4. at[maps + (i + 1)] = Grown(at[maps + i], j, f.segs[i + 1].len)
    BY <1>3, <1>9, <2>2, <2>3 DEF Chain
  <2>5. Sizes(r.t) = at[maps + (i + 1)]
    BY <1>7, <2>1, <2>3, <2>4
  <2>6. ASSUME i \in Segments PROVE r.mod.rel[i] = Bias(at, maps, i)
    <3>1. acc.t[j].siz = at[maps + i][j] /\ acc.t[j].rel = segtab[j].rel
      BY <1>6, <2>1, <2>3, SizesAreNat DEF Unmoved
    <3> QED
      BY <1>2, <1>7, <2>2, <2>3, <2>6, <3>1 DEF Bias, Behind
  <2>7. ASSUME NEW k \in Segments, k < i + 1 PROVE r.mod.rel[k] = Bias(at, maps, k)
    <3>1. k < i \/ k = i
      BY <1>3, <2>7, SegmentNumbers
    <3>2. k < i => k # i
      BY <1>3, SegmentNumbers
    <3> QED
      BY <1>7, <2>1, <2>6, <3>1, <3>2
  <2> QED
    BY <2>5, <2>7
<1>10. CopyingTo(<<f, maps>>, at, i + 1, r)
  BY <1>7, <1>8, <1>9 DEF CopyingTo
<1> QED
  BY <1>1, <1>10

LEMMA CopySegsPlaces ==
  ASSUME NEW f, IsModule(f), NEW m, NEW at, SegTable(segtab), DOMAIN mod.rel = Segments
  PROVE  CopyingTo(<<f, m.maps>>, at, Len(f.segs), CopySegs(f, m))
<1> DEFINE base == [t |-> segtab, mod |-> mod, obj |-> obj]
           seq  == [k \in DOMAIN f.segs |-> k]
           p    == <<f, m.maps>>
<1>1. Len(f.segs) \in Nat /\ DOMAIN f.segs = 1..Len(f.segs)
  BY SeqLength DEF IsModule
<1>2. DOMAIN seq = 1..Len(f.segs) /\ \A i \in 0..(Len(f.segs) - 1) : seq[i + 1] = i + 1
  BY <1>1
<1>3. CopyingTo(p, at, 0, base)
  <2>1. \A k \in Segments : ~ (k < 0)
    BY SegmentNumbers
  <2>2. Unmoved(segtab, segtab)
    BY DEF Unmoved
  <2>3. Chain(at, f, m.maps) => m.maps + 0 = m.maps
    BY DEF Chain
  <2> QED
    BY <2>1, <2>2, <2>3 DEF CopyingTo
<1>4. \A acc : \A i \in 0..(Len(f.segs) - 1) :
         CopyingTo(p, at, i, acc) => CopyingTo(p, at, i + 1, Copying(p, at, acc, seq[i + 1]))
  <2> SUFFICES ASSUME NEW acc, NEW i \in 0..(Len(f.segs) - 1), CopyingTo(p, at, i, acc)
               PROVE  CopyingTo(p, at, i + 1, CopySeg(f, m.maps, acc, i + 1))
    BY <1>2 DEF Copying
  <2> QED
    BY CopySegStep
<1>5. CopySegs(f, m) = Copy!Folded(p, at, base, seq)
  BY DEF CopySegs, Copy!Folded, Copying, FoldLeft, MapThenFoldSet, Copy!MapThenFoldSet, Max, Copy!Greatest
<1> HIDE DEF base, seq, p
<1>6. CopyingTo(p, at, Len(f.segs), Copy!Folded(p, at, base, seq))
  BY <1>1, <1>2, <1>3, <1>4, Copy!FoldInvariant
<1> QED
  BY <1>5, <1>6 DEF p

-----------------------------------------------------------------------------
(* Between the passes.                                                     *)

\* The order has every segment that is not empty.
ChoosingAll(p, q, i, acc) == acc \in Seq(p) /\ \A x \in 1..i : q[x] \in p => q[x] \in ToSet(acc)
ChooseAll == INSTANCE FoldFacts WITH op <- Choosing, P <- ChoosingAll

LEMMA AppendHas ==
  ASSUME NEW T, NEW s \in Seq(T), NEW x \in T
  PROVE  ToSet(Append(s, x)) = ToSet(s) \cup {x}
<1>1. PICK a : a = Append(s, x)
  OBVIOUS
<1>2. /\ Len(s) \in Nat /\ DOMAIN s = 1..Len(s) /\ DOMAIN a = 1..(Len(s) + 1)
      /\ a[Len(s) + 1] = x /\ \A i \in 1..Len(s) : a[i] = s[i]
  BY <1>1
<1>3. \A y \in ToSet(a) : y \in ToSet(s) \cup {x}
  BY <1>2 DEF ToSet
<1>4. x \in ToSet(a) /\ \A y \in ToSet(s) : y \in ToSet(a)
  BY <1>2 DEF ToSet
<1> QED
  BY <1>1, <1>3, <1>4

LEMMA AmongHasAll ==
  ASSUME NEW seq, IsSeq(seq), NEW S
  PROVE  \A x \in ToSet(seq) : x \in S => x \in ToSet(Among(seq, S))
<1>1. Len(seq) \in Nat /\ DOMAIN seq = 1..Len(seq)
  BY SeqLength
<1>2. \A acc : \A i \in 0..(Len(seq) - 1) :
         ChoosingAll(S, seq, i, acc) => ChoosingAll(S, seq, i + 1, Choosing(S, seq, acc, seq[i + 1]))
  <2> SUFFICES ASSUME NEW acc, NEW i \in 0..(Len(seq) - 1), ChoosingAll(S, seq, i, acc)
               PROVE  ChoosingAll(S, seq, i + 1, Choosing(S, seq, acc, seq[i + 1]))
    OBVIOUS
  <2>1. acc \in Seq(S) /\ \A x \in 1..i : seq[x] \in S => seq[x] \in ToSet(acc)
    BY DEF ChoosingAll
  <2>2. \A x \in 1..(i + 1) : x \in 1..i \/ x = i + 1
    OBVIOUS
  <2>3. CASE seq[i + 1] \in S
    <3>1. Append(acc, seq[i + 1]) \in Seq(S) /\ ToSet(Append(acc, seq[i + 1])) = ToSet(acc) \cup {seq[i + 1]}
      BY <2>1, <2>3, AppendHas, Appended
    <3> QED
      BY <2>1, <2>2, <2>3, <3>1 DEF ChoosingAll, Choosing
  <2>4. CASE seq[i + 1] \notin S
    BY <2>1, <2>2, <2>4 DEF ChoosingAll, Choosing
  <2> QED
    BY <2>3, <2>4
<1>3. ChoosingAll(S, seq, 0, <<>>)
  BY DEF ChoosingAll
<1>4. ChoosingAll(S, seq, Len(seq), ChooseAll!Folded(S, seq, <<>>, seq))
  BY <1>1, <1>2, <1>3, ChooseAll!FoldInvariant
<1>5. Among(seq, S) = ChooseAll!Folded(S, seq, <<>>, seq)
  BY DEF Among, ChooseAll!Folded, Choosing, FoldLeft, MapThenFoldSet, ChooseAll!MapThenFoldSet, Max, ChooseAll!Greatest
<1> QED
  BY <1>1, <1>4, <1>5 DEF ChoosingAll, ToSet

LEMMA SegOrderHasAll ==
  ASSUME IsSeq(prelist), NEW t
  PROVE  /\ SegOrder(t) \in Seq(Segments)
         /\ \A j \in Segments : t[j].siz > 0 => j \in ToSet(SegOrder(t))
<1> DEFINE used == {i \in Segments : t[i].siz > 0}
           numbers == [i \in 1..SEGNO |-> i - 1]
           rest == used \ ToSet(prelist)
           a == Among(prelist, used)
           b == Among(numbers, rest)
<1>1. SEGNO \in Nat
  BY LinkerAssumption
<1>2. IsSeq(numbers)
  BY <1>1, FunctionIsSeq
<1>3. \A j \in Segments : j \in ToSet(numbers)
  <2> SUFFICES ASSUME NEW j \in Segments PROVE j \in ToSet(numbers)
    OBVIOUS
  <2>1. j + 1 \in 1..SEGNO /\ numbers[j + 1] = j
    BY <1>1 DEF Segments
  <2> QED
    BY <2>1 DEF ToSet
<1>4. used \subseteq Segments /\ rest \subseteq Segments /\ rest = used \ ToSet(prelist)
  OBVIOUS
<1>5. SegOrder(t) = a \o b
  BY DEF SegOrder
<1> HIDE DEF numbers, rest, used
<1>6. a \in Seq(used) /\ b \in Seq(rest)
  BY <1>2, AmongIsSeq
<1>7. /\ \A x \in ToSet(prelist) : x \in used => x \in ToSet(a)
      /\ \A x \in ToSet(numbers) : x \in rest => x \in ToSet(b)
  BY <1>2, AmongHasAll
<1> HIDE DEF a, b
<1>8. a \in Seq(Segments) /\ b \in Seq(Segments)
  BY <1>4, <1>6
<1>9. PICK c : c = a \o b
  OBVIOUS
<1>10. /\ c \in Seq(Segments) /\ DOMAIN c = 1..(Len(a) + Len(b)) /\ Len(a) \in Nat /\ Len(b) \in Nat
       /\ DOMAIN a = 1..Len(a) /\ DOMAIN b = 1..Len(b)
       /\ (\A i \in 1..Len(a) : c[i] = a[i]) /\ \A i \in 1..Len(b) : c[Len(a) + i] = b[i]
  BY <1>8, <1>9
<1>11. \A x \in ToSet(a) : x \in ToSet(c)
  BY <1>10 DEF ToSet
<1>12. \A x \in ToSet(b) : x \in ToSet(c)
  <2> SUFFICES ASSUME NEW i \in 1..Len(b) PROVE b[i] \in ToSet(c)
    BY <1>10 DEF ToSet
  <2>1. Len(a) + i \in DOMAIN c /\ c[Len(a) + i] = b[i]
    BY <1>10
  <2> QED
    BY <2>1 DEF ToSet
<1>13. \A j \in Segments : j \in used => j \in ToSet(c)
  BY <1>3, <1>4, <1>7, <1>11, <1>12
<1> QED
  BY <1>5, <1>9, <1>10, <1>13 DEF used

\* Every segment in the order gets its base; its size counts from 0 again.
LaidTo(p, q, i, acc) ==
  /\ SegTable(acc.t) /\ acc.relval \in Nat /\ acc.relvalc \in Nat
  /\ \A j \in Segments : acc.t[j].siz \in {0, p[j].siz}
  /\ \A x \in 1..i : acc.t[q[x]].siz = 0
  /\ ~ Bound => acc.relval = 0 /\ \A j \in Segments : acc.t[j].rel = 0
Laying(p, q, acc, i) == interpos(acc, i)
Lay == INSTANCE FoldFacts WITH op <- Laying, P <- LaidTo

LEMMA FourFields ==
  ASSUME NEW a, NEW j \in DOMAIN a, NEW x, NEW y, NEW z
  PROVE  [a EXCEPT ![j].pos = x, ![j].rel = y, ![j].hiwat = z, ![j].siz = 0]
           = [a EXCEPT ![j] = [a[j] EXCEPT !.pos = x, !.rel = y, !.hiwat = z, !.siz = 0]]
OBVIOUS

LEMMA interposLays ==
  ASSUME NEW t, NEW order \in Seq(Segments), NEW i \in 0..(Len(order) - 1), NEW acc, LaidTo(t, order, i, acc)
  PROVE  LaidTo(t, order, i + 1, interpos(acc, order[i + 1]))
<1> DEFINE j == order[i + 1]
           s == acc.t[j]
           code == splitid /\ s.typ = COD
           x == IF s.typ \in idata THEN acc.relpos ELSE s.pos
           y == Wrap(IF code THEN acc.relvalc ELSE acc.relval)
           r == interpos(acc, j)
<1>1. j \in Segments /\ Len(order) \in Nat
  OBVIOUS
<1>2. /\ SegTable(acc.t) /\ acc.relval \in Nat /\ acc.relvalc \in Nat
      /\ (\A k \in Segments : acc.t[k].siz \in {0, t[k].siz}) /\ (\A k \in 1..i : acc.t[order[k]].siz = 0)
      /\ (~ Bound => acc.relval = 0 /\ \A k \in Segments : acc.t[k].rel = 0)
  BY DEF LaidTo
<1> HIDE DEF j
<1>3. SegEntry(s) /\ s.siz \in Nat /\ {"typ", "siz", "hiwat", "rel", "pos"} \subseteq DOMAIN s
  BY <1>1, <1>2 DEF SegTable, SegEntry
<1>4. PICK e : e = [s EXCEPT !.pos = x, !.rel = y, !.hiwat = Wrap(s.siz), !.siz = 0]
  OBVIOUS
<1>5. PICK u : u = [acc.t EXCEPT ![j] = e]
  OBVIOUS
<1>6. r.t = u
  <2>1. r.t = [acc.t EXCEPT ![j].pos = x, ![j].rel = y, ![j].hiwat = Wrap(s.siz), ![j].siz = 0]
    BY DEF interpos
  <2>2. DOMAIN acc.t = Segments
    BY <1>2 DEF SegTable
  <2> HIDE DEF x, y
  <2>3. [acc.t EXCEPT ![j].pos = x, ![j].rel = y, ![j].hiwat = Wrap(s.siz), ![j].siz = 0]
          = [acc.t EXCEPT ![j] = [acc.t[j] EXCEPT !.pos = x, !.rel = y, !.hiwat = Wrap(s.siz), !.siz = 0]]
    BY <1>1, <2>2, FourFields
  <2> QED
    BY <1>4, <1>5, <2>1, <2>3
<1>7. y \in Nat /\ Wrap(s.siz) \in Nat
  BY <1>2, <1>3, WrapSum
<1>8. e.siz = 0 /\ e.rel = y /\ SegEntry(e)
  <2> HIDE DEF x, y
  <2> QED
    BY <1>3, <1>4, <1>7 DEF SegEntry
<1>9. /\ SegTable(u) /\ u[j].siz = 0 /\ u[j].rel = y
      /\ \A k \in Segments : k # j => u[k] = acc.t[k]
  BY <1>1, <1>2, <1>5, <1>8 DEF SegTable
<1>10. /\ r.relvalc = IF code THEN acc.relvalc + s.siz ELSE acc.relvalc
       /\ r.relval = IF Bound /\ ~ code THEN acc.relval + s.siz ELSE acc.relval
  BY DEF interpos
<1>11. r.relval \in Nat /\ r.relvalc \in Nat
  BY <1>2, <1>3, <1>10
<1>12. ASSUME ~ Bound PROVE r.relval = 0 /\ \A k \in Segments : u[k].rel = 0
  <2>1. ~ code
    BY <1>12 DEF Bound, splitid
  <2>2. Wrap(0) = 0
    <3>1. 0 = SegLimit * 0 + 0 /\ 0 \in 0..(SegLimit - 1)
      BY XOutAssumption
    <3> QED
      BY <3>1, WrapOf
  <2>3. acc.relval = 0 /\ \A k \in Segments : acc.t[k].rel = 0
    BY <1>2, <1>12
  <2>4. y = 0
    BY <2>1, <2>2, <2>3
  <2> QED
    BY <1>9, <1>10, <1>12, <2>3, <2>4
<1>13. \A k \in 1..(i + 1) : u[order[k]].siz = 0
  <2> SUFFICES ASSUME NEW k \in 1..(i + 1), order[k] # j PROVE u[order[k]].siz = 0
    BY <1>9
  <2>1. k \in 1..i
    BY DEF j
  <2>2. order[k] \in Segments
    BY <1>1, <2>1
  <2> QED
    BY <1>2, <1>9, <2>1, <2>2
<1>14. \A k \in Segments : u[k].siz \in {0, t[k].siz}
  BY <1>2, <1>9
<1> HIDE DEF r
<1>15. LaidTo(t, order, i + 1, r)
  BY <1>6, <1>9, <1>11, <1>12, <1>13, <1>14 DEF LaidTo
<1> QED
  BY <1>15 DEF r, j

LEMMA InterposLays ==
  ASSUME IsSeq(prelist), NEW t, SegTable(t), \A j \in Segments : t[j].rel = 0, NEW start, NEW laid,
         laid = FoldLeft(interpos, [t |-> t, relpos |-> start, relvalc |-> 0, relval |-> 0], SegOrder(t))
  PROVE  /\ SegTable(laid.t) /\ \A j \in Segments : laid.t[j].siz = 0
         /\ ~ Bound => \A j \in Segments : laid.t[j].rel = 0
<1> DEFINE base == [t |-> t, relpos |-> start, relvalc |-> 0, relval |-> 0]
<1>1. PICK order : order = SegOrder(t)
  OBVIOUS
<1>2. order \in Seq(Segments) /\ \A j \in Segments : t[j].siz > 0 => j \in ToSet(order)
  BY <1>1, SegOrderHasAll
<1>3. Len(order) \in Nat /\ DOMAIN order = 1..Len(order)
  BY <1>2
<1>4. LaidTo(t, order, 0, base)
  BY DEF LaidTo
<1>5. \A acc : \A i \in 0..(Len(order) - 1) :
         LaidTo(t, order, i, acc) => LaidTo(t, order, i + 1, Laying(t, order, acc, order[i + 1]))
  BY <1>2, interposLays DEF Laying
<1>6. LaidTo(t, order, Len(order), Lay!Folded(t, order, base, order))
  <2> HIDE DEF base
  <2> QED
    BY <1>3, <1>4, <1>5, Lay!FoldInvariant
<1>7. laid = Lay!Folded(t, order, base, order)
  BY <1>1 DEF Lay!Folded, Laying, FoldLeft, MapThenFoldSet, Lay!MapThenFoldSet, Max, Lay!Greatest
<1> HIDE DEF base
<1>8. LaidTo(t, order, Len(order), laid)
  BY <1>6, <1>7
<1>9. ASSUME NEW j \in Segments PROVE laid.t[j].siz = 0
  <2>1. laid.t[j].siz \in {0, t[j].siz}
    BY <1>8 DEF LaidTo
  <2>2. CASE t[j].siz > 0
    <3>1. PICK x \in 1..Len(order) : order[x] = j
      BY <1>2, <1>3, <2>2 DEF ToSet
    <3> QED
      BY <1>8, <3>1 DEF LaidTo
  <2>3. t[j].siz \in Nat
    BY DEF SegTable, SegEntry
  <2> QED
    BY <2>1, <2>2, <2>3
<1> QED
  BY <1>8, <1>9 DEF LaidTo

\* Commons get places and the definitions keep theirs.
AllocatedTo(p, q, i, acc) ==
  /\ {"t", "tab", "und", "full"} \subseteq DOMAIN acc /\ SegTable(acc.t) /\ IsTable(acc.tab) /\ Len(acc.tab) = Len(p)
  /\ \A j \in Segments : acc.t[j].rel = q[j].rel
  /\ \A k \in 1..Len(p) : p[k].fl = "GLB" => acc.tab[k] = p[k]
AllocateAll == INSTANCE FoldFacts WITH op <- Allocating, P <- AllocatedTo

LEMMA AllocateCommonAllocates ==
  ASSUME NEW p, IsSeq(p), NEW q, NEW acc, NEW n, AllocatedTo(p, q, n, acc), NEW i \in 1..Len(p),
         IsSeq(prelist), ToSet(prelist) \subseteq Segments
  PROVE  AllocatedTo(p, q, n + 1, AllocateCommon(acc, i))
<1> DEFINE s == acc.tab[i]
           j == findseg(acc.t, prelist, BSS, s.val)
           t == IF s.val > 1 THEN RoundSeg(acc.t, j) ELSE acc.t
           u == Put(t, j, BSS, s.val)
           entry == [s EXCEPT !.fl = "GLB", !.sg = j, !.val = t[j].siz]
           r == AllocateCommon(acc, i)
<1>1. /\ {"t", "tab", "und", "full"} \subseteq DOMAIN acc /\ SegTable(acc.t) /\ IsTable(acc.tab) /\ Len(acc.tab) = Len(p)
      /\ (\A k \in Segments : acc.t[k].rel = q[k].rel) /\ \A k \in 1..Len(p) : p[k].fl = "GLB" => acc.tab[k] = p[k]
  BY DEF AllocatedTo
<1>2. j \in Segments \cup {NoSeg}
  BY SegmentFound
<1>3. IsSymbol(s) /\ i \in 1..Len(acc.tab) /\ Len(p) \in Nat
  BY <1>1, SeqLength DEF IsTable
<1>4. CASE s.fl # "UNX" \/ s.val = 0
  <2>1. r = acc
    BY <1>4 DEF AllocateCommon
  <2> QED
    BY <1>1, <2>1 DEF AllocatedTo
<1>5. CASE ~ (s.fl # "UNX" \/ s.val = 0) /\ j = NoSeg
  <2>1. r = [acc EXCEPT !.full = TRUE]
    BY <1>5 DEF AllocateCommon
  <2>2. PICK x : x = [acc EXCEPT !.full = TRUE]
    OBVIOUS
  <2>3. /\ {"t", "tab", "und", "full"} \subseteq DOMAIN x /\ x.t = acc.t /\ x.tab = acc.tab
    BY <1>1, <2>2
  <2> QED
    BY <1>1, <2>1, <2>2, <2>3 DEF AllocatedTo
<1>6. CASE s.fl = "UNX" /\ s.val # 0 /\ j \in Segments
  <2>1. j # NoSeg /\ s.val \in Nat
    BY <1>3, <1>6, SegmentNumbers DEF IsSymbol
  <2>2. r = [acc EXCEPT !.t = u, !.tab[i] = [@ EXCEPT !.fl = "GLB", !.sg = j, !.val = t[j].siz], !.und = @ - 1]
    BY <1>6, <2>1 DEF AllocateCommon
  <2> HIDE DEF j
  <2>3. SegTable(t) /\ \A k \in Segments : t[k].rel = acc.t[k].rel
    BY <1>1, <1>6, <2>1, PutKeeps
  <2> HIDE DEF t
  <2>4. SegTable(u) /\ \A k \in Segments : u[k].rel = t[k].rel
    BY <1>6, <2>1, <2>3, PutKeeps
  <2> HIDE DEF u
  <2>5. PICK tab : tab = [acc.tab EXCEPT ![i] = entry]
    OBVIOUS
  <2>6. {"t", "tab", "und", "full"} \subseteq DOMAIN r /\ r.t = u /\ r.tab = tab
    <3>1. PICK x : x = [acc EXCEPT !.t = u, !.tab = tab, !.und = @ - 1]
      OBVIOUS
    <3>2. r = x
      BY <1>1, <2>2, <2>5, <3>1
    <3> QED
      BY <1>1, <3>1, <3>2
  <2>7. IsSymbol(entry)
    BY <1>3 DEF IsSymbol
  <2>8. /\ IsTable(tab) /\ Len(tab) = Len(p) /\ tab[i] = entry /\ \A k \in 1..Len(p) : k # i => tab[k] = acc.tab[k]
    <3>1. IsSeq(acc.tab) /\ DOMAIN acc.tab = 1..Len(acc.tab)
      BY <1>1, SeqLength DEF IsTable
    <3>2. IsSeq(tab) /\ Len(tab) = Len(acc.tab)
      BY <2>5, <3>1, ExceptIsSeq
    <3>3. tab[i] = entry /\ \A k \in 1..Len(acc.tab) : k # i => tab[k] = acc.tab[k]
      BY <1>3, <2>5, <3>1
    <3> HIDE DEF entry
    <3> QED
      BY <1>1, <2>7, <3>2, <3>3 DEF IsTable
  <2>9. \A k \in 1..Len(p) : p[k].fl = "GLB" => tab[k] = p[k]
    BY <1>1, <1>6, <2>8
  <2> QED
    BY <1>1, <2>3, <2>4, <2>6, <2>8, <2>9 DEF AllocatedTo
<1> QED
  BY <1>2, <1>4, <1>5, <1>6

LEMMA CommonsAllocate ==
  ASSUME IsTable(symtab), SegTable(segtab), IsSeq(prelist), ToSet(prelist) \subseteq Segments
  PROVE  AllocatedTo(symtab, segtab, Len(symtab),
           FoldLeft(AllocateCommon, [t |-> segtab, tab |-> symtab, und |-> udefcnt, full |-> FALSE], [i \in DOMAIN symtab |-> i]))
<1> DEFINE start == [t |-> segtab, tab |-> symtab, und |-> udefcnt, full |-> FALSE]
           seq == [i \in DOMAIN symtab |-> i]
<1>1. AllocatedTo(symtab, segtab, 0, start)
  BY DEF AllocatedTo
<1>2. IsSeq(symtab) /\ Len(symtab) \in Nat /\ DOMAIN symtab = 1..Len(symtab)
  BY SeqLength DEF IsTable
<1>3. DOMAIN seq = 1..Len(symtab) /\ \A i \in 0..(Len(symtab) - 1) : seq[i + 1] \in 1..Len(symtab)
  BY <1>2
<1>4. \A acc : \A i \in 0..(Len(symtab) - 1) :
         AllocatedTo(symtab, segtab, i, acc) => AllocatedTo(symtab, segtab, i + 1, Allocating(symtab, segtab, acc, seq[i + 1]))
  <2> HIDE DEF seq
  <2> QED
    BY <1>2, <1>3, AllocateCommonAllocates DEF Allocating
<1>5. FoldLeft(AllocateCommon, start, seq) = AllocateAll!Folded(symtab, segtab, start, seq)
  BY DEF AllocateAll!Folded, Allocating, FoldLeft, MapThenFoldSet, AllocateAll!MapThenFoldSet, Max, AllocateAll!Greatest
<1> HIDE DEF seq, start
<1>6. AllocatedTo(symtab, segtab, Len(symtab), AllocateAll!Folded(symtab, segtab, start, seq))
  BY <1>1, <1>2, <1>3, <1>4, AllocateAll!FoldInvariant
<1>7. AllocatedTo(symtab, segtab, Len(symtab), FoldLeft(AllocateCommon, start, seq))
  BY <1>5, <1>6
<1> QED
  BY <1>7 DEF start, seq

LEMMA WithStackKeeps ==
  ASSUME NEW p, NEW q, NEW n, NEW all, AllocatedTo(p, q, n, all), cmd.t \in Nat, IsSeq(prelist), ToSet(prelist) \subseteq Segments
  PROVE  AllocatedTo(p, q, n, WithStack(all))
<1> DEFINE even == [i \in Segments |-> [all.t[i] EXCEPT !.siz = round(@)]]
           j    == findseg(even, prelist, STK, cmd.t)
<1>1. /\ {"t", "tab", "und", "full"} \subseteq DOMAIN all /\ SegTable(all.t) /\ IsTable(all.tab) /\ Len(all.tab) = Len(p)
      /\ (\A k \in Segments : all.t[k].rel = q[k].rel) /\ \A k \in 1..Len(p) : p[k].fl = "GLB" => all.tab[k] = p[k]
  BY DEF AllocatedTo
<1>2. ASSUME NEW k \in Segments PROVE SegEntry(even[k]) /\ even[k].rel = q[k].rel
  <2>1. SegEntry(all.t[k])
    BY <1>1 DEF SegTable
  <2>2. all.t[k].siz \in Nat /\ {"typ", "siz", "hiwat", "rel", "pos"} \subseteq DOMAIN all.t[k]
    BY <2>1 DEF SegEntry
  <2>3. round(all.t[k].siz) \in Nat
    BY <2>2, RoundIsNat
  <2>4. PICK e : e = [all.t[k] EXCEPT !.siz = round(@)]
    OBVIOUS
  <2>5. SegEntry(e) /\ e.rel = all.t[k].rel
    BY <2>1, <2>2, <2>3, <2>4 DEF SegEntry
  <2> QED
    BY <1>1, <2>4, <2>5
<1>3. DOMAIN even = Segments
  OBVIOUS
<1> HIDE DEF even
<1>4. SegTable(even) /\ j \in Segments \cup {NoSeg}
  BY <1>2, <1>3, SegmentFound DEF SegTable
<1>5. WithStack(all) = IF cmd.t = 0 THEN [all EXCEPT !.t = even]
                       ELSE IF j = NoSeg THEN [all EXCEPT !.full = TRUE] ELSE [all EXCEPT !.t = Put(even, j, STK, cmd.t)]
  BY DEF WithStack, even
<1> HIDE DEF j
<1>6. ASSUME NEW t, SegTable(t), \A k \in Segments : t[k].rel = q[k].rel
      PROVE  AllocatedTo(p, q, n, [all EXCEPT !.t = t])
  <2>1. PICK x : x = [all EXCEPT !.t = t]
    OBVIOUS
  <2>2. {"t", "tab", "und", "full"} \subseteq DOMAIN x /\ x.t = t /\ x.tab = all.tab
    BY <1>1, <2>1
  <2>3. AllocatedTo(p, q, n, x)
    BY <1>1, <1>6, <2>2 DEF AllocatedTo
  <2> QED
    BY <2>1, <2>3
<1>7. AllocatedTo(p, q, n, [all EXCEPT !.full = TRUE])
  <2>1. PICK x : x = [all EXCEPT !.full = TRUE]
    OBVIOUS
  <2>2. {"t", "tab", "und", "full"} \subseteq DOMAIN x /\ x.t = all.t /\ x.tab = all.tab
    BY <1>1, <2>1
  <2>3. AllocatedTo(p, q, n, x)
    BY <1>1, <2>2 DEF AllocatedTo
  <2> QED
    BY <2>1, <2>3
<1>8. CASE cmd.t = 0
  BY <1>2, <1>4, <1>5, <1>6, <1>8
<1>9. CASE cmd.t # 0 /\ j = NoSeg
  BY <1>5, <1>7, <1>9
<1>10. CASE cmd.t # 0 /\ j # NoSeg
  <2>1. j \in Segments
    BY <1>4, <1>10
  <2>2. PICK t : t = Put(even, j, STK, cmd.t)
    OBVIOUS
  <2>3. SegTable(t) /\ \A k \in Segments : t[k].rel = even[k].rel
    BY <1>4, <2>1, <2>2, PutKeeps
  <2>4. \A k \in Segments : t[k].rel = q[k].rel
    BY <1>2, <2>3
  <2> QED
    BY <1>5, <1>6, <1>10, <2>2, <2>3, <2>4
<1> QED
  BY <1>8, <1>9, <1>10

LEMMA AllocatedKeeps ==
  ASSUME IsTable(symtab), SegTable(segtab), IsSeq(prelist), ToSet(prelist) \subseteq Segments, cmd.t \in Nat
  PROVE  \E n : AllocatedTo(symtab, segtab, n, Allocated)
<1> DEFINE start == [t |-> segtab, tab |-> symtab, und |-> udefcnt, full |-> FALSE]
           commons == FoldLeft(AllocateCommon, start, [i \in DOMAIN symtab |-> i])
           n == Len(symtab)
<1>1. AllocatedTo(symtab, segtab, n, start)
  BY DEF AllocatedTo
<1>2. AllocatedTo(symtab, segtab, n, commons)
  BY CommonsAllocate
<1>3. Allocated = WithStack(IF cmd.r \/ udefcnt = 0 THEN start ELSE commons)
  BY DEF Allocated
<1> HIDE DEF start, commons, n
<1>4. AllocatedTo(symtab, segtab, n, Allocated)
  BY <1>1, <1>2, <1>3, WithStackKeeps
<1> QED
  BY <1>4

\* What interlude does to the definitions.
Rebased(d, e) ==
  /\ e.fl = "GLB" /\ e.name = d.name /\ e.sg = d.sg
  /\ IF Bound THEN e.val = Wrap(d.val + segtab'[d.sg].rel) ELSE e.val = d.val /\ segtab'[d.sg].rel = 0

LEMMA InterludePlaces ==
  ASSUME Interlude, IsTable(symtab), SegTable(segtab), \A j \in Segments : segtab[j].rel = 0,
         IsSeq(prelist), ToSet(prelist) \subseteq Segments, cmd.t \in Nat
  PROVE  /\ SegTable(segtab)' /\ IsTable(symtab)' /\ Len(symtab') = Len(symtab)
         /\ \A j \in Segments : segtab'[j].siz = 0
         /\ \A k \in 1..Len(symtab) : symtab[k].fl = "GLB" /\ symtab[k].sg \in Segments => Rebased(symtab[k], symtab'[k])
<1>1. PICK all : all = Allocated
  OBVIOUS
<1>2. PICK n : AllocatedTo(symtab, segtab, n, all)
  BY <1>1, AllocatedKeeps
<1>3. PICK laid : /\ laid = FoldLeft(interpos, [t |-> all.t, relpos |-> XHSIZ + SGSIZ * Len(SegOrder(all.t)), relvalc |-> 0, relval |-> 0], SegOrder(all.t))
                  /\ segtab' = laid.t
                  /\ symtab' = [i \in DOMAIN all.tab |->
                       IF Bound /\ all.tab[i].fl \in {"GLB", "LOC"} /\ all.tab[i].sg # 255
                       THEN [all.tab[i] EXCEPT !.val = Wrap(@ + laid.t[all.tab[i].sg].rel)] ELSE all.tab[i]]
  BY <1>1 DEF Interlude
<1>4. /\ SegTable(all.t) /\ IsTable(all.tab) /\ Len(all.tab) = Len(symtab)
      /\ (\A j \in Segments : all.t[j].rel = 0) /\ \A k \in 1..Len(symtab) : symtab[k].fl = "GLB" => all.tab[k] = symtab[k]
  BY <1>2 DEF AllocatedTo
<1>5. /\ SegTable(laid.t) /\ \A j \in Segments : laid.t[j].siz = 0
      /\ ~ Bound => \A j \in Segments : laid.t[j].rel = 0
  BY <1>3, <1>4, InterposLays
<1>6. Len(all.tab) \in Nat /\ DOMAIN all.tab = 1..Len(all.tab)
  BY <1>4, SeqLength DEF IsTable
<1>7. IsSeq(symtab') /\ Len(symtab') = Len(symtab)
  <2>1. symtab' = [i \in 1..Len(all.tab) |-> symtab'[i]]
    BY <1>3, <1>6
  <2> QED
    BY <1>4, <1>6, <2>1, FunctionIsSeq
<1>8. ASSUME NEW k \in 1..Len(all.tab) PROVE IsSymbol(symtab'[k])
  <2>1. IsSymbol(all.tab[k])
    BY <1>4 DEF IsTable
  <2>2. PICK e : e = [all.tab[k] EXCEPT !.val = Wrap(@ + laid.t[all.tab[k].sg].rel)]
    OBVIOUS
  <2>3. symtab'[k] = IF Bound /\ all.tab[k].fl \in {"GLB", "LOC"} /\ all.tab[k].sg # 255 THEN e ELSE all.tab[k]
    BY <1>3, <1>6, <2>2
  <2>4. all.tab[k].fl \in {"GLB", "LOC"} => IsSymbol(e)
    BY <2>1, <2>2 DEF IsSymbol
  <2> QED
    BY <2>1, <2>3, <2>4
<1>9. IsTable(symtab')
  BY <1>4, <1>7, <1>8 DEF IsTable
<1>10. ASSUME NEW k \in 1..Len(symtab), symtab[k].fl = "GLB", symtab[k].sg \in Segments
       PROVE  Rebased(symtab[k], symtab'[k])
  <2>1. all.tab[k] = symtab[k] /\ k \in DOMAIN all.tab /\ IsSymbol(symtab[k])
    BY <1>4, <1>6, <1>10 DEF IsTable
  <2>2. PICK e : e = [symtab[k] EXCEPT !.val = Wrap(@ + laid.t[symtab[k].sg].rel)]
    OBVIOUS
  <2>3. symtab[k].sg # 255
    BY <1>10, SegmentNumbers
  <2>4. symtab'[k] = IF Bound THEN e ELSE symtab[k]
    BY <1>3, <1>10, <2>1, <2>2, <2>3
  <2>5. {"name", "fl", "sg", "val"} \subseteq DOMAIN symtab[k]
    BY <2>1 DEF IsSymbol
  <2>6. e.fl = "GLB" /\ e.name = symtab[k].name /\ e.sg = symtab[k].sg /\ e.val = Wrap(symtab[k].val + laid.t[symtab[k].sg].rel)
    BY <1>10, <2>2, <2>5
  <2> QED
    BY <1>3, <1>5, <1>10, <2>4, <2>6 DEF Rebased
<1> QED
  BY <1>3, <1>5, <1>7, <1>9, <1>10

-----------------------------------------------------------------------------
(* Pass 0.                                                                 *)

EmptyTable(t) == SegTable(t) /\ \A j \in Segments : t[j].siz = 0 /\ t[j].rel = 0
Typed(p, q, i, t) == EmptyTable(t)
Typing(p, q, t, d) == dodset(t, d)
Type0 == INSTANCE FoldFacts WITH op <- Typing, P <- Typed

LEMMA dodsetKeeps ==
  ASSUME NEW t, EmptyTable(t), NEW d, d.seg \in Segments
  PROVE  EmptyTable(dodset(t, d))
<1>1. PICK e : e = [t[d.seg] EXCEPT !.typ = newtyp(@, d.typ)]
  OBVIOUS
<1>2. SegEntry(t[d.seg]) /\ DOMAIN t = Segments
  BY DEF EmptyTable, SegTable
<1>3. SegEntry(e) /\ e.siz = t[d.seg].siz /\ e.rel = t[d.seg].rel
  BY <1>1, <1>2 DEF SegEntry
<1>4. dodset(t, d) = [t EXCEPT ![d.seg] = e]
  BY <1>1, <1>2 DEF dodset
<1> QED
  BY <1>2, <1>3, <1>4 DEF EmptyTable, SegTable

LEMMA Pass0Segments ==
  ASSUME Pass0, IsSeq(cmd.d), \A d \in ToSet(cmd.d) : d.seg \in Segments
  PROVE  EmptyTable(segtab')
<1> DEFINE base == [i \in Segments |-> IF cmd.w /\ i < 4 THEN [EmptySeg EXCEPT !.typ = MinusW[i + 1]] ELSE EmptySeg]
<1>1. Len(cmd.d) \in Nat /\ DOMAIN cmd.d = 1..Len(cmd.d) /\ \A i \in 0..(Len(cmd.d) - 1) : cmd.d[i + 1].seg \in Segments
  BY SeqLength
<1>2. Typed(0, 0, 0, base)
  <2>1. ASSUME NEW i \in Segments PROVE SegEntry(base[i]) /\ base[i].siz = 0 /\ base[i].rel = 0
    <3>1. SegEntry(EmptySeg) /\ EmptySeg.siz = 0 /\ EmptySeg.rel = 0
      BY DEF SegEntry, EmptySeg
    <3>2. PICK e : e = [EmptySeg EXCEPT !.typ = MinusW[i + 1]]
      OBVIOUS
    <3>3. SegEntry(e) /\ e.siz = 0 /\ e.rel = 0
      BY <3>2 DEF SegEntry, EmptySeg
    <3> QED
      BY <3>1, <3>2, <3>3
  <2>2. DOMAIN base = Segments
    OBVIOUS
  <2> HIDE DEF base
  <2> QED
    BY <2>1, <2>2 DEF Typed, EmptyTable, SegTable
<1>3. \A t : \A i \in 0..(Len(cmd.d) - 1) : Typed(0, 0, i, t) => Typed(0, 0, i + 1, Typing(0, 0, t, cmd.d[i + 1]))
  BY <1>1, dodsetKeeps DEF Typed, Typing
<1>4. segtab' = Type0!Folded(0, 0, base, cmd.d)
  BY DEF Pass0, Type0!Folded, Typing, FoldLeft, MapThenFoldSet, Type0!MapThenFoldSet, Max, Type0!Greatest
<1> HIDE DEF base
<1>5. Typed(0, 0, Len(cmd.d), Type0!Folded(0, 0, base, cmd.d))
  BY <1>1, <1>2, <1>3, Type0!FoldInvariant
<1> QED
  BY <1>4, <1>5 DEF Typed

\* The preassigned segments are segments.
PreferringKeeps(p, q, i, acc) == acc \in Seq(Segments)
Prefer2 == INSTANCE FoldFacts WITH op <- Preferring, P <- PreferringKeeps

LEMMA Pass0Prelist ==
  ASSUME Pass0, IsSeq(cmd.d), \A d \in ToSet(cmd.d) : d.seg \in Segments
  PROVE  IsSeq(prelist') /\ ToSet(prelist') \subseteq Segments
<1>1. Len(cmd.d) \in Nat /\ DOMAIN cmd.d = 1..Len(cmd.d) /\ \A i \in 0..(Len(cmd.d) - 1) : cmd.d[i + 1].seg \in Segments
  BY SeqLength
<1>2. \A acc : \A i \in 0..(Len(cmd.d) - 1) :
         PreferringKeeps(0, 0, i, acc) => PreferringKeeps(0, 0, i + 1, Preferring(0, 0, acc, cmd.d[i + 1]))
  BY <1>1 DEF PreferringKeeps, Preferring
<1>3. PreferringKeeps(0, 0, 0, <<>>)
  BY DEF PreferringKeeps
<1>4. PreferringKeeps(0, 0, Len(cmd.d), Prefer2!Folded(0, 0, <<>>, cmd.d))
  BY <1>1, <1>2, <1>3, Prefer2!FoldInvariant
<1>5. prelist' = Prefer2!Folded(0, 0, <<>>, cmd.d)
  BY DEF Pass0, Prefer2!Folded, Preferring, FoldLeft, MapThenFoldSet, Prefer2!MapThenFoldSet, Max, Prefer2!Greatest
<1>6. prelist' \in Seq(Segments)
  BY <1>4, <1>5 DEF PreferringKeeps
<1> QED
  BY <1>6, SeqIsSeq DEF ToSet

\* The table of -u and -d.
TableKeeps(p, q, i, tab) == IsTable(tab)
Name2 == INSTANCE FoldFacts WITH op <- Naming, P <- TableKeeps
Lines2 == INSTANCE FoldFacts WITH op <- Lining, P <- TableKeeps

LEMMA NamingTable ==
  ASSUME NEW d, NEW tab, IsTable(tab), NEW n
  PROVE  IsTable(Naming(d, 0, tab, n))
<1> DEFINE at == lookup(tab, SegmentNm, n)
<1>1. PICK new : new = [name |-> n, fl |-> "SEG", sg |-> d.seg, val |-> 0]
  OBVIOUS
<1>2. IsTable(Append(tab, new))
  BY <1>1, TableAppend DEF IsSymbol
<1>3. PICK old : old = [tab[at] EXCEPT !.sg = d.seg]
  OBVIOUS
<1>4. at # 0 => at \in 1..Len(tab)
  BY LookupFinds DEF IsTable
<1> HIDE DEF at
<1>5. ASSUME at # 0 PROVE IsTable([tab EXCEPT ![at] = old])
  <2>1. IsSymbol(tab[at])
    BY <1>4, <1>5 DEF IsTable
  <2>2. IsSymbol(old)
    BY <1>3, <2>1 DEF IsSymbol
  <2>3. Len(tab) \in Nat /\ IsSeq([tab EXCEPT ![at] = old]) /\ Len([tab EXCEPT ![at] = old]) = Len(tab) /\ DOMAIN tab = 1..Len(tab)
    BY SeqLength, ExceptIsSeq DEF IsTable
  <2> QED
    BY <2>2, <2>3 DEF IsTable
<1>6. Naming(d, 0, tab, n) = IF at = 0 THEN Append(tab, new) ELSE [tab EXCEPT ![at] = old]
  BY <1>1, <1>3 DEF Naming, at
<1> QED
  BY <1>2, <1>5, <1>6

LEMMA dodlineTable ==
  ASSUME NEW table, IsTable(table), NEW d, IsSeq(d.names)
  PROVE  IsTable(dodline(table, d))
<1>1. \A tab : \A i \in 0..(Len(d.names) - 1) :
         TableKeeps(d, 0, i, tab) => TableKeeps(d, 0, i + 1, Naming(d, 0, tab, d.names[i + 1]))
  BY NamingTable DEF TableKeeps
<1>2. TableKeeps(d, 0, Len(d.names), Name2!Folded(d, 0, table, d.names))
  BY <1>1, SeqLength, Name2!FoldInvariant DEF TableKeeps
<1>3. dodline(table, d) = Name2!Folded(d, 0, table, d.names)
  BY DEF dodline, Name2!Folded, Naming, FoldLeft, MapThenFoldSet, Name2!MapThenFoldSet, Max, Name2!Greatest
<1> QED
  BY <1>2, <1>3 DEF TableKeeps

LEMMA Pass0Table ==
  ASSUME Pass0, IsSeq(cmd.u), IsSeq(cmd.d), \A d \in ToSet(cmd.d) : IsSeq(d.names)
  PROVE  IsTable(symtab')
<1>1. IsTable(Wanted(cmd.u))
  <2>1. Len(cmd.u) \in Nat /\ DOMAIN cmd.u = 1..Len(cmd.u)
    BY SeqLength
  <2>2. PICK w : w = Wanted(cmd.u)
    OBVIOUS
  <2>3. w = [i \in 1..Len(cmd.u) |-> w[i]] /\ \A i \in 1..Len(cmd.u) : w[i] = [name |-> cmd.u[i], fl |-> "UNX", sg |-> 255, val |-> 0]
    BY <2>1, <2>2 DEF Wanted
  <2>4. \A i \in 1..Len(cmd.u) : IsSymbol(w[i])
    <3> SUFFICES ASSUME NEW i \in 1..Len(cmd.u) PROVE IsSymbol(w[i])
      OBVIOUS
    <3>1. PICK e : e = [name |-> cmd.u[i], fl |-> "UNX", sg |-> 255, val |-> 0]
      OBVIOUS
    <3>2. w[i] = e
      BY <2>3, <3>1
    <3>3. IsSymbol(e)
      BY <3>1 DEF IsSymbol
    <3> QED
      BY <3>2, <3>3
  <2>5. IsSeq(w) /\ Len(w) = Len(cmd.u)
    BY <2>1, <2>3, FunctionIsSeq
  <2> QED
    BY <2>2, <2>4, <2>5 DEF IsTable
<1>2. \A tab : \A i \in 0..(Len(cmd.d) - 1) :
         TableKeeps(0, 0, i, tab) => TableKeeps(0, 0, i + 1, Lining(0, 0, tab, cmd.d[i + 1]))
  <2> SUFFICES ASSUME NEW tab, NEW i \in 0..(Len(cmd.d) - 1), IsTable(tab) PROVE IsTable(dodline(tab, cmd.d[i + 1]))
    BY DEF TableKeeps, Lining
  <2>1. cmd.d[i + 1] \in ToSet(cmd.d)
    BY SeqLength
  <2> QED
    BY <2>1, dodlineTable
<1>3. TableKeeps(0, 0, Len(cmd.d), Lines2!Folded(0, 0, Wanted(cmd.u), cmd.d))
  BY <1>1, <1>2, SeqLength, Lines2!FoldInvariant DEF TableKeeps
<1>4. symtab' = Lines2!Folded(0, 0, Wanted(cmd.u), cmd.d)
  BY DEF Pass0, Lines2!Folded, Lining, FoldLeft, MapThenFoldSet, Lines2!MapThenFoldSet, Max, Lines2!Greatest
<1> QED
  BY <1>3, <1>4 DEF TableKeeps

-----------------------------------------------------------------------------
(* The places of all modules, and the invariant.                           *)

PlaceOf(n) == IF n < Len(modtab) THEN modtab[n + 1].maps ELSE Len(map)

\* at[x]: the sizes of the output's segments before the part that entry x of map is about.
SymbolLaid(at, f, m, i) ==
  LET s == f.syms[i]
      k == symap[m.syms + i]
      j == MapAt(map, m.maps + s.sg)
  IN  InSegment(f, s) /\ ~ IsCommon(s.name) =>
        /\ k \in 1..Len(symtab) /\ symtab[k].fl = "GLB" /\ symtab[k].name = s.name
        /\ symtab[k].sg = j /\ symtab[k].val = Wrap(s.val + at[m.maps + s.sg][j] + segtab[j].rel)

ModuleLaid(at, f, m) ==
  /\ m.maps + Len(f.segs) <= Len(map) /\ m.syms + Len(f.syms) <= Len(symap)
  /\ \A k \in 1..Len(f.segs) : at[m.maps + k] = Grown(at[m.maps + k - 1], map[m.maps + k], f.segs[k].len)
  /\ \A i \in 1..Len(f.syms) : SymbolLaid(at, f, m, i)

Laid(at) ==
  /\ Len(modtab) = Len(loaded)
  /\ \A x \in 0..Len(map) : at[x] \in [Segments -> Nat]
  /\ \A j \in Segments : at[0][j] = 0
  /\ PlaceOf(0) = 0
  /\ \A n \in 1..Len(loaded) : \A f, m :
       f = ModuleAt(loaded[n]) /\ m = modtab[n] =>
         IsModule(f) /\ m.maps + Len(f.segs) = PlaceOf(n) /\ ModuleLaid(at, f, m)

Laying1(at) == Laid(at) /\ Sizes(segtab) = at[Len(map)]
Reading(at) ==
  /\ Laid(at) /\ modno = Len(read2) /\ modno <= Len(modtab)
  /\ Sizes(segtab) = at[PlaceOf(modno)]
  /\ modno > 0 => \A k \in Segments : k < Len(ModuleAt(loaded[modno]).segs) => mod.rel[k] = Bias(at, modtab[modno].maps, k)

PlaceTypes ==
  /\ IsTable(symtab) /\ SegTable(segtab) /\ DOMAIN mod.rel = Segments
  /\ IsSeq(prelist) /\ ToSet(prelist) \subseteq Segments
  /\ map \in Seq(Segments) /\ symap \in Seq(Nat) /\ modtab \in Seq([maps : Nat, syms : Nat])
Level == "rel" \in DOMAIN mod /\ \A j \in Segments : segtab[j].rel = 0

Entries ==
  /\ \A i \in DOMAIN posndx : posndx[i] = OneModule => ~ IsArchive(FileOf(cmd.files[i]))
  /\ \A i \in 1..Len(postab) : postab[i] # Stop =>
       LET a == FileOf(cmd.files[postab[i][1]])
       IN  IsArchive(a) /\ postab[i][2] \in 1..Len(a.members)

PlaceInv ==
  /\ IsModule(made)
  /\ phase \in {"pass1", "pass2"} => PlaceTypes /\ Entries
  /\ phase = "pass1" => Level /\ modno = 0 /\ (errcnt = 0 => \E at : Laying1(at))
  /\ phase = "pass2" /\ ListsEnded => \E at : Reading(at)

-----------------------------------------------------------------------------
(* Pass 1 loads a module.                                                  *)

LEMMA Joined ==
  ASSUME NEW T, NEW s \in Seq(T), NEW t \in Seq(T)
  PROVE  /\ s \o t \in Seq(T) /\ Len(s \o t) = Len(s) + Len(t)
         /\ \A i \in 1..Len(s) : (s \o t)[i] = s[i]
         /\ \A i \in 1..Len(t) : (s \o t)[Len(s) + i] = t[i]
OBVIOUS

\* What a loaded module does to the tables.
Entering3(f, who, segs, syms) ==
  /\ segtab' = segs.t /\ mod'.rel = segs.rel /\ DOMAIN mod' = DOMAIN mod
  /\ map' = map \o segs.m /\ symap' = symap \o syms.sy /\ symtab' = syms.tab
  /\ modtab' = Append(modtab, [maps |-> Len(map), syms |-> Len(symap)])
  /\ loaded' = Append(loaded, who)
  /\ errcnt' = errcnt + segs.err + syms.err
  /\ UNCHANGED <<job, made, prelist>>

LEMMA ModuleAtStays == ASSUME UNCHANGED <<job, made>>, NEW who PROVE ModuleAt(who)' = ModuleAt(who)
BY DEF ModuleAt, FileOf, cmd

LEMMA ModuleAtLoaded == ASSUME UNCHANGED <<job, made>>, NEW n PROVE ModuleAt(loaded[n])' = ModuleAt(loaded'[n])
BY DEF ModuleAt, FileOf, cmd

LEMMA CommonsGrow ==
  ASSUME UNCHANGED <<job, made>>, NEW T, loaded \in Seq(T), NEW who \in T, loaded' = Append(loaded, who), NEW name
  PROVE  /\ IsCommon(name) => IsCommon(name)'
         /\ CommonIn(ModuleAt(who), name) => IsCommon(name)'
<1>1. ToSet(loaded') = ToSet(loaded) \cup {who}
  BY AppendHas
<1>2. \A w : ModuleAt(w)' = ModuleAt(w)
  BY ModuleAtStays
<1> QED
  BY <1>1, <1>2 DEF IsCommon, CommonIn

LEMMA MapAtJoined ==
  ASSUME map \in Seq(Segments), NEW t \in Seq(Segments), map' = map \o t, NEW i \in Nat
  PROVE  /\ i < Len(map) => MapAt(map', i) = MapAt(map, i)
         /\ i < Len(t) => MapAt(map', Len(map) + i) = MapAt(t, i)
<1>1. /\ Len(map) \in Nat /\ Len(t) \in Nat /\ Len(map') = Len(map) + Len(t)
      /\ (\A x \in 1..Len(map) : map'[x] = map[x]) /\ \A x \in 1..Len(t) : map'[Len(map) + x] = t[x]
  BY Joined
<1>2. ASSUME i < Len(map) PROVE MapAt(map', i) = MapAt(map, i)
  <2>1. i + 1 \in 1..Len(map) /\ i < Len(map')
    BY <1>1, <1>2
  <2> QED
    BY <1>1, <1>2, <2>1 DEF MapAt
<1>3. ASSUME i < Len(t) PROVE MapAt(map', Len(map) + i) = MapAt(t, i)
  <2>1. i + 1 \in 1..Len(t) /\ Len(map) + i < Len(map') /\ Len(map) + i + 1 = Len(map) + (i + 1)
    BY <1>1, <1>3
  <2> QED
    BY <1>1, <1>3, <2>1 DEF MapAt
<1> QED
  BY <1>2, <1>3

LEMMA Within ==
  ASSUME NEW a \in Nat, NEW n \in Nat, NEW l \in Nat, a + n <= l
  PROVE  /\ \A k \in 1..n : a + k \in 0..l /\ a + k - 1 \in 0..l /\ a + k \in 1..l
         /\ \A k \in Nat : k < n => a + k \in Nat /\ a + k < l /\ a + k \in 0..l
OBVIOUS

\* Chains of sizes that are the same as far as map goes.
SameSoFar(at, to) == \A x \in 0..Len(map) : to[x] = at[x] /\ at[x] \in [Segments -> Nat]

\* The modules loaded before keep their places.
LEMMA OldModuleStays ==
  ASSUME NEW f, NEW who \in Who, NEW segs, NEW syms, Entering3(f, who, segs, syms), ModuleAt(who) = f,
         map \in Seq(Segments), segs.m \in Seq(Segments), symap \in Seq(Nat), syms.sy \in Seq(Nat), loaded \in Seq(Who),
         Level, \A j \in Segments : segtab'[j].rel = 0, AllStay(f, symtab, syms.tab), IsTable(symtab), IsTable(syms.tab),
         NEW at, NEW to, SameSoFar(at, to),
         NEW g, IsModule(g), NEW m, m.maps \in Nat, m.syms \in Nat, ModuleLaid(at, g, m)
  PROVE  ModuleLaid(to, g, m)'
<1>1. /\ map' = map \o segs.m /\ symap' = symap \o syms.sy /\ symtab' = syms.tab
      /\ loaded' = Append(loaded, who) /\ UNCHANGED <<job, made>>
  BY DEF Entering3
<1>2. /\ Len(map) \in Nat /\ Len(segs.m) \in Nat /\ Len(map') = Len(map) + Len(segs.m)
      /\ \A x \in 1..Len(map) : map'[x] = map[x]
  BY <1>1, Joined
<1>3. /\ Len(symap) \in Nat /\ Len(syms.sy) \in Nat /\ Len(symap') = Len(symap) + Len(syms.sy)
      /\ \A x \in 1..Len(symap) : symap'[x] = symap[x]
  BY <1>1, Joined
<1>4. m.maps \in Nat /\ m.syms \in Nat /\ Len(g.segs) \in Nat /\ Len(g.syms) \in Nat
  BY SeqLength DEF IsModule
<1>5. m.maps + Len(g.segs) <= Len(map) /\ m.syms + Len(g.syms) <= Len(symap)
  BY DEF ModuleLaid
<1>6. m.maps + Len(g.segs) <= Len(map') /\ m.syms + Len(g.syms) <= Len(symap')
  <2>1. \A a, b, c \in Nat : a <= b => a <= b + c
    OBVIOUS
  <2>2. m.maps + Len(g.segs) \in Nat /\ m.syms + Len(g.syms) \in Nat
    BY <1>4
  <2> QED
    BY <1>2, <1>3, <1>5, <2>1, <2>2
<1>N. /\ \A k \in 1..Len(g.segs) : m.maps + k \in 0..Len(map) /\ m.maps + k - 1 \in 0..Len(map) /\ m.maps + k \in 1..Len(map)
      /\ \A k \in Nat : k < Len(g.segs) => m.maps + k \in Nat /\ m.maps + k < Len(map) /\ m.maps + k \in 0..Len(map)
      /\ \A k \in 1..Len(g.syms) : m.syms + k \in 1..Len(symap)
  BY <1>2, <1>3, <1>4, <1>5, Within
<1>7. ASSUME NEW k \in 1..Len(g.segs)
      PROVE  to[m.maps + k] = Grown(to[m.maps + k - 1], map'[m.maps + k], g.segs[k].len)
  <2>1. m.maps + k \in 0..Len(map) /\ m.maps + k - 1 \in 0..Len(map) /\ m.maps + k \in 1..Len(map)
    BY <1>N
  <2>2. at[m.maps + k] = Grown(at[m.maps + k - 1], map[m.maps + k], g.segs[k].len)
    BY DEF ModuleLaid
  <2> QED
    BY <1>2, <2>1, <2>2 DEF SameSoFar
<1>8. ASSUME NEW i \in 1..Len(g.syms) PROVE SymbolLaid(to, g, m, i)'
  <2>1. PICK s : s = g.syms[i]
    OBVIOUS
  <2>2. PICK k : k = symap[m.syms + i]
    OBVIOUS
  <2>3. PICK j : j = MapAt(map, m.maps + s.sg)
    OBVIOUS
  <2>4. SUFFICES ASSUME InSegment(g, s), ~ IsCommon(s.name)'
                 PROVE  /\ k \in 1..Len(symtab') /\ symtab'[k].fl = "GLB" /\ symtab'[k].name = s.name
                        /\ symtab'[k].sg = j /\ symtab'[k].val = Wrap(s.val + to[m.maps + s.sg][j] + segtab'[j].rel)
    <3>1. m.syms + i \in 1..Len(symap)
      BY <1>N
    <3>2. symap'[m.syms + i] = k
      BY <1>3, <2>2, <3>1
    <3>3. InSegment(g, s) => MapAt(map', m.maps + s.sg) = j
      <4> SUFFICES ASSUME InSegment(g, s) PROVE MapAt(map', m.maps + s.sg) = j
        OBVIOUS
      <4>1. s.sg \in Nat /\ s.sg < Len(g.segs)
        BY SegmentNumbers DEF InSegment
      <4>2. m.maps + s.sg \in Nat /\ m.maps + s.sg < Len(map)
        BY <1>N, <4>1
      <4> QED
        BY <1>1, <2>3, <4>2, MapAtJoined
    <3> QED
      BY <2>1, <3>2, <3>3 DEF SymbolLaid
  <2>5. ~ IsCommon(s.name) /\ ~ CommonIn(f, s.name)
    BY <1>1, <2>4, CommonsGrow
  <2>6. /\ k \in 1..Len(symtab) /\ symtab[k].fl = "GLB" /\ symtab[k].name = s.name
        /\ symtab[k].sg = j /\ symtab[k].val = Wrap(s.val + at[m.maps + s.sg][j] + segtab[j].rel)
    BY <2>1, <2>2, <2>3, <2>4, <2>5 DEF ModuleLaid, SymbolLaid
  <2>7. /\ s.val \in Nat /\ j \in Segments /\ m.maps + s.sg \in 0..Len(map)
    <3>1. s.val \in Nat /\ s.sg \in Nat /\ s.sg < Len(g.segs)
      BY <2>4, SegmentNumbers DEF InSegment
    <3>2. m.maps + s.sg \in Nat /\ m.maps + s.sg < Len(map)
      BY <1>N, <3>1
    <3>3. j \in Segments
      BY <2>3, <3>2, MapAtFacts
    <3> QED
      BY <1>N, <3>1, <3>3
  <2>8. /\ at[m.maps + s.sg][j] \in Nat /\ to[m.maps + s.sg] = at[m.maps + s.sg]
        /\ segtab[j].rel = 0 /\ segtab'[j].rel = 0
    BY <2>7 DEF Level, SameSoFar
  <2>9. s.val + at[m.maps + s.sg][j] + 0 \in Nat
    BY <2>7, <2>8
  <2>10. symtab[k].val \in Nat
    <3>1. PICK v : v = s.val + at[m.maps + s.sg][j] + 0
      OBVIOUS
    <3>2. v \in Nat /\ symtab[k].val = Wrap(v)
      BY <2>6, <2>8, <2>9, <3>1
    <3> QED
      BY <3>2, WrapSum
  <2>11. Stays(f, symtab[k], symtab'[k]) /\ k \in 1..Len(symtab')
    <3>1. Len(symtab) \in Nat /\ Len(symtab') \in Nat /\ Len(symtab) <= Len(symtab')
      BY <1>1, SeqLength DEF IsTable, AllStay
    <3>2. k \in 1..Len(symtab')
      BY <2>6, <3>1
    <3>3. Stays(f, symtab[k], syms.tab[k])
      BY <2>6, Zenon DEF AllStay
    <3> QED
      BY <1>1, <3>2, <3>3
  <2> QED
    BY <2>5, <2>6, <2>8, <2>10, <2>11 DEF Stays
<1> QED
  BY <1>6, <1>7, <1>8 DEF ModuleLaid

\* The chain goes on with the parts of the new module.
Follows(to, pt, n) == \A k \in 0..n : to[Len(map) + k] = pt[k]

Abut(old, part, new) ==
  /\ Len(new) = Len(old) + Len(part) /\ Len(old) \in Nat /\ Len(part) \in Nat
  /\ \A x \in 1..Len(part) : new[Len(old) + x] = part[x]

LEMMA JoinedTo ==
  \A T, old, part, new :
    old \in Seq(T) /\ part \in Seq(T) /\ new = old \o part => Abut(old, part, new) /\ new \in Seq(T)
<1> SUFFICES ASSUME NEW T, NEW old \in Seq(T), NEW part \in Seq(T), NEW new, new = old \o part
             PROVE  Abut(old, part, new) /\ new \in Seq(T)
  OBVIOUS
<1> QED
  BY Joined DEF Abut

LEMMA TablesJoined ==
  ASSUME NEW f, NEW who, NEW segs, NEW syms, Entering3(f, who, segs, syms),
         map \in Seq(Segments), segs.m \in Seq(Segments), symap \in Seq(Nat), syms.sy \in Seq(Nat)
  PROVE  /\ Len(map') = Len(map) + Len(segs.m) /\ Len(map) \in Nat /\ Len(segs.m) \in Nat
         /\ Len(symap') = Len(symap) + Len(syms.sy) /\ Len(symap) \in Nat /\ Len(syms.sy) \in Nat
         /\ \A x \in 1..Len(segs.m) : map'[Len(map) + x] = segs.m[x]
         /\ \A x \in 1..Len(syms.sy) : symap'[Len(symap) + x] = syms.sy[x]
         /\ map' \in Seq(Segments) /\ symap' \in Seq(Nat)
<1>1. map' = map \o segs.m /\ symap' = symap \o syms.sy
  BY DEF Entering3
<1>2. Abut(map, segs.m, map') /\ map' \in Seq(Segments)
  BY <1>1, JoinedTo, Zenon
<1>3. Abut(symap, syms.sy, symap') /\ symap' \in Seq(Nat)
  BY <1>1, JoinedTo, Zenon
<1> QED
  BY <1>2, <1>3 DEF Abut

AllKnown(f, rel, m, sy, tab) == \A x \in 1..Len(f.syms) : Known(f, rel, m, f.syms[x], sy[x], tab)

\* The new module has its places.
LEMMA NewModuleLaid ==
  ASSUME NEW f, IsModule(f), NEW who \in Who, NEW segs, NEW syms, Entering3(f, who, segs, syms), ModuleAt(who) = f,
         map \in Seq(Segments), segs.m \in Seq(Segments), Len(segs.m) = Len(f.segs), loaded \in Seq(Who),
         symap \in Seq(Nat), syms.sy \in Seq(Nat), Len(syms.sy) = Len(f.syms), Level',
         NEW pt, Parts(pt, segtab, f, segs.m, segs.rel, Len(f.segs), segs.t),
         AllKnown(f, segs.rel, segs.m, syms.sy, syms.tab),
         NEW to, Follows(to, pt, Len(f.segs)), NEW m, m.maps = Len(map), m.syms = Len(symap)
  PROVE  ModuleLaid(to, f, m)'
<1>1. /\ map' = map \o segs.m /\ symap' = symap \o syms.sy /\ symtab' = syms.tab
      /\ loaded' = Append(loaded, who) /\ UNCHANGED <<job, made>>
  BY DEF Entering3
<1>J. Abut(map, segs.m, map')
  <2>1. PICK old, part, new : old = map /\ part = segs.m /\ new = map'
    BY Zenon
  <2>2. old \in Seq(Segments) /\ part \in Seq(Segments) /\ new = old \o part
    BY <1>1, <2>1, Zenon
  <2>3. Abut(old, part, new)
    BY <2>2, JoinedTo, Zenon
  <2> QED
    BY <2>1, <2>3, Zenon
<1>K. Abut(symap, syms.sy, symap')
  <2>1. PICK old, part, new : old = symap /\ part = syms.sy /\ new = symap'
    BY Zenon
  <2>2. old \in Seq(Nat) /\ part \in Seq(Nat) /\ new = old \o part
    BY <1>1, <2>1, Zenon
  <2>3. Abut(old, part, new)
    BY <2>2, JoinedTo, Zenon
  <2> QED
    BY <2>1, <2>3, Zenon
<1>2. /\ Len(map) \in Nat /\ Len(f.segs) \in Nat /\ Len(map') = Len(map) + Len(f.segs)
      /\ \A x \in 1..Len(f.segs) : map'[Len(map) + x] = segs.m[x]
  BY <1>J DEF Abut
<1>3. /\ Len(symap) \in Nat /\ Len(f.syms) \in Nat /\ Len(symap') = Len(symap) + Len(f.syms)
      /\ \A x \in 1..Len(f.syms) : symap'[Len(symap) + x] = syms.sy[x]
  BY <1>K DEF Abut
<1>4. m.maps + Len(f.segs) <= Len(map') /\ m.syms + Len(f.syms) <= Len(symap')
  BY <1>2, <1>3
<1>5. \A k \in 1..Len(f.segs) : k \in 0..Len(f.segs) /\ k - 1 \in 0..Len(f.segs) /\ m.maps + k - 1 = Len(map) + (k - 1)
  BY <1>2
<1>6. \A k \in Nat : k < Len(f.segs) => k \in 0..Len(f.segs) /\ k + 1 \in 1..Len(f.segs) /\ (k + 1) - 1 = k
  BY <1>2
<1>7. ASSUME NEW k \in 1..Len(f.segs)
      PROVE  to[m.maps + k] = Grown(to[m.maps + k - 1], map'[m.maps + k], f.segs[k].len)
  <2>1. pt[k] = Grown(pt[k - 1], segs.m[k], f.segs[k].len)
    BY DEF Parts, Part
  <2>2. to[m.maps + k] = pt[k] /\ to[m.maps + k - 1] = pt[k - 1] /\ map'[m.maps + k] = segs.m[k]
    BY <1>2, <1>5 DEF Follows
  <2> QED
    BY <2>1, <2>2
<1>8. ASSUME NEW i \in 1..Len(f.syms) PROVE SymbolLaid(to, f, m, i)'
  <2>1. PICK s : s = f.syms[i]
    OBVIOUS
  <2>2. PICK k : k = syms.sy[i]
    OBVIOUS
  <2>3. PICK j : j = MapAt(segs.m, s.sg)
    OBVIOUS
  <2>4. SUFFICES ASSUME InSegment(f, s), ~ IsCommon(s.name)'
                 PROVE  /\ k \in 1..Len(symtab') /\ symtab'[k].fl = "GLB" /\ symtab'[k].name = s.name
                        /\ symtab'[k].sg = j /\ symtab'[k].val = Wrap(s.val + to[m.maps + s.sg][j] + segtab'[j].rel)
    <3>1. symap'[m.syms + i] = k
      BY <1>3, <2>2
    <3>2. InSegment(f, s) => MapAt(map', m.maps + s.sg) = j
      <4> SUFFICES ASSUME InSegment(f, s) PROVE MapAt(map', m.maps + s.sg) = j
        OBVIOUS
      <4>1. s.sg \in Nat /\ s.sg < Len(segs.m)
        BY SegmentNumbers DEF InSegment
      <4> QED
        BY <1>1, <2>3, <4>1, MapAtJoined
    <3> QED
      BY <2>1, <3>1, <3>2 DEF SymbolLaid
  <2>5. ~ CommonIn(f, s.name)
    BY <1>1, <2>4, CommonsGrow
  <2>6. /\ k \in 1..Len(symtab') /\ symtab'[k].fl = "GLB" /\ symtab'[k].name = s.name
        /\ symtab'[k].sg = j /\ symtab'[k].val = Wrap(s.val + segs.rel[s.sg])
    BY <1>1, <2>1, <2>2, <2>3, <2>4, <2>5 DEF Known, AllKnown
  <2>7. s.val \in Nat /\ s.sg \in Segments /\ s.sg \in Nat /\ s.sg < Len(f.segs)
    BY <2>4, SegmentNumbers DEF InSegment
  <2>8. j = segs.m[s.sg + 1]
    BY <2>3, <2>7 DEF MapAt
  <2>9. Part(pt, f, segs.m, segs.rel, s.sg + 1)
    BY <1>6, <2>7 DEF Parts
  <2>10. j \in Segments /\ segs.rel[s.sg] = pt[s.sg][j] /\ pt[s.sg] \in [Segments -> Nat]
    <3>1. (s.sg + 1) - 1 = s.sg /\ s.sg \in 0..Len(f.segs)
      BY <1>6, <2>7
    <3>2. pt[s.sg] \in [Segments -> Nat]
      BY <3>1 DEF Parts
    <3> QED
      BY <2>7, <2>8, <2>9, <3>1, <3>2 DEF Part
  <2>11. to[m.maps + s.sg] = pt[s.sg]
    BY <1>6, <2>7 DEF Follows
  <2>12. s.val + pt[s.sg][j] + 0 = s.val + pt[s.sg][j]
    BY <2>7, <2>10
  <2> QED
    BY <2>6, <2>10, <2>11, <2>12 DEF Level
<1> QED
  BY <1>4, <1>7, <1>8 DEF ModuleLaid

LEMMA PartsNumbered ==
  ASSUME NEW f, Len(f.segs) \in Nat, NEW pt, NEW t, NEW m, NEW rel, NEW u, Parts(pt, t, f, m, rel, Len(f.segs), u)
  PROVE  PlacesNumbered(f, rel)
<1> SUFFICES ASSUME NEW k \in Segments, k < Len(f.segs) PROVE rel[k] \in Nat
  BY DEF PlacesNumbered
<1>1. k \in Nat
  BY SegmentNumbers
<1>2. k + 1 \in 1..Len(f.segs) /\ (k + 1) - 1 = k /\ k \in 0..Len(f.segs)
  BY <1>1
<1>3. Part(pt, f, m, rel, k + 1) /\ pt[k] \in [Segments -> Nat]
  BY <1>2 DEF Parts
<1> QED
  BY <1>2, <1>3 DEF Part

LEMMA PlaceOfStays ==
  ASSUME NEW T, modtab \in Seq(T), NEW m \in T, m.maps = Len(map), modtab' = Append(modtab, m)
  PROVE  /\ \A n \in 0..Len(modtab) : PlaceOf(n)' = PlaceOf(n)
         /\ \A n : n = Len(modtab) + 1 => PlaceOf(n)' = Len(map')
         /\ Len(modtab) \in Nat /\ Len(modtab') = Len(modtab) + 1 /\ modtab'[Len(modtab) + 1] = m /\ modtab' \in Seq(T)
         /\ \A n \in 1..Len(modtab) : modtab'[n] = modtab[n] /\ modtab[n] \in T
<1>1. /\ Len(modtab) \in Nat /\ Len(modtab') = Len(modtab) + 1 /\ modtab'[Len(modtab) + 1] = m
      /\ modtab' \in Seq(T) /\ \A n \in 1..Len(modtab) : modtab'[n] = modtab[n] /\ modtab[n] \in T
  BY Appended
<1>2. ASSUME NEW n \in 0..Len(modtab) PROVE PlaceOf(n)' = PlaceOf(n)
  <2>1. CASE n < Len(modtab)
    <3>1. n + 1 \in 1..Len(modtab) /\ n < Len(modtab')
      BY <1>1, <2>1
    <3> QED
      BY <1>1, <2>1, <3>1 DEF PlaceOf
  <2>2. CASE n = Len(modtab)
    BY <1>1, <2>2 DEF PlaceOf
  <2> QED
    BY <1>1, <2>1, <2>2
<1>3. \A n : n = Len(modtab) + 1 => PlaceOf(n)' = Len(map')
  BY <1>1 DEF PlaceOf
<1> QED
  BY <1>1, <1>2, <1>3

LEMMA LoadedPlaces ==
  ASSUME NEW f, IsModule(f), NEW who \in Who, NEW segs, NEW syms, Entering3(f, who, segs, syms), ModuleAt(who) = f,
         PlaceTypes, Level, Level', loaded \in Seq(Who), Placement(f, Len(f.segs), segs), ~ segs.full,
         IsEntering(syms), Len(syms.sy) = Len(f.syms), AllStay(f, symtab, syms.tab),
         AllKnown(f, segs.rel, segs.m, syms.sy, syms.tab), NEW at, Laying1(at)
  PROVE  \E to : Laying1(to)'
<1>1. /\ segtab' = segs.t /\ loaded' = Append(loaded, who) /\ UNCHANGED <<job, made>>
      /\ modtab' = Append(modtab, [maps |-> Len(map), syms |-> Len(symap)])
  BY DEF Entering3
<1>2. /\ map \in Seq(Segments) /\ symap \in Seq(Nat) /\ modtab \in Seq([maps : Nat, syms : Nat]) /\ IsTable(symtab)
      /\ segs.m \in Seq(Segments) /\ syms.sy \in Seq(Nat) /\ IsTable(syms.tab) /\ SegTable(segs.t)
      /\ Len(segs.m) = Len(f.segs)
  BY DEF PlaceTypes, Placement, IsEntering
<1>3. PICK pt : Parts(pt, segtab, f, segs.m, segs.rel, Len(f.segs), segs.t)
  BY DEF Placement
<1>4. /\ Len(map) \in Nat /\ Len(f.segs) \in Nat /\ Len(map') = Len(map) + Len(f.segs) /\ Len(symap) \in Nat
  <2>1. Len(map) \in Nat /\ Len(segs.m) \in Nat /\ Len(map') = Len(map) + Len(segs.m) /\ Len(symap) \in Nat
    BY <1>2, TablesJoined
  <2> QED
    BY <1>2, <2>1
<1>5. PICK m : m = [maps |-> Len(map), syms |-> Len(symap)]
  OBVIOUS
<1>6. m \in [maps : Nat, syms : Nat] /\ m.maps = Len(map) /\ m.syms = Len(symap) /\ modtab' = Append(modtab, m)
  BY <1>1, <1>4, <1>5
<1>7. PICK to : to = [x \in 0..(Len(map) + Len(f.segs)) |-> IF x <= Len(map) THEN at[x] ELSE pt[x - Len(map)]]
  OBVIOUS
<1>8. Len(modtab) = Len(loaded) /\ (\A x \in 0..Len(map) : at[x] \in [Segments -> Nat]) /\ at[Len(map)] = Sizes(segtab)
  BY DEF Laying1, Laid
<1>9. SameSoFar(at, to)
  BY <1>4, <1>7, <1>8 DEF SameSoFar
<1>10. /\ pt[0] = Sizes(segtab) /\ pt[Len(f.segs)] = Sizes(segs.t) /\ \A k \in 0..Len(f.segs) : pt[k] \in [Segments -> Nat]
  BY <1>3 DEF Parts
<1>11. Follows(to, pt, Len(f.segs))
  <2> SUFFICES ASSUME NEW k \in 0..Len(f.segs) PROVE to[Len(map) + k] = pt[k]
    BY DEF Follows
  <2>1. CASE k = 0
    <3>1. Len(map) + k = Len(map) /\ Len(map) \in 0..Len(map)
      BY <1>4, <2>1
    <3> QED
      BY <1>8, <1>9, <1>10, <2>1, <3>1 DEF SameSoFar
  <2>2. CASE k # 0
    <3>1. Len(map) + k \in 0..(Len(map) + Len(f.segs)) /\ ~ (Len(map) + k <= Len(map)) /\ Len(map) + k - Len(map) = k
      BY <1>4, <2>2
    <3> QED
      BY <1>7, <3>1
  <2> QED
    BY <2>1, <2>2
<1>12. \A x \in 0..Len(map') : to[x] \in [Segments -> Nat]
  <2> SUFFICES ASSUME NEW x \in 0..Len(map') PROVE to[x] \in [Segments -> Nat]
    OBVIOUS
  <2>1. CASE x <= Len(map)
    <3>1. x \in 0..Len(map)
      BY <1>4, <2>1
    <3> QED
      BY <1>9, <3>1 DEF SameSoFar
  <2>2. CASE ~ (x <= Len(map))
    <3>1. x - Len(map) \in 0..Len(f.segs) /\ Len(map) + (x - Len(map)) = x
      BY <1>4, <2>2
    <3> QED
      BY <1>10, <1>11, <3>1 DEF Follows
  <2> QED
    BY <2>1, <2>2
<1>13. /\ Len(modtab) \in Nat /\ Len(modtab') = Len(modtab) + 1 /\ modtab'[Len(modtab) + 1] = m
       /\ \A n \in 1..Len(modtab) : modtab'[n] = modtab[n] /\ modtab[n] \in [maps : Nat, syms : Nat]
  BY <1>2, <1>6, PlaceOfStays
<1>14. /\ Len(loaded) \in Nat /\ Len(loaded') = Len(loaded) + 1 /\ loaded'[Len(loaded) + 1] = who
       /\ \A n \in 1..Len(loaded) : loaded'[n] = loaded[n]
  BY <1>1, Appended
<1>15. /\ \A n \in 0..Len(modtab) : PlaceOf(n)' = PlaceOf(n)
       /\ \A n : n = Len(modtab) + 1 => PlaceOf(n)' = Len(map')
  BY <1>2, <1>6, PlaceOfStays
<1>16. \A n : ModuleAt(loaded[n])' = ModuleAt(loaded'[n])
  BY <1>1, ModuleAtLoaded
<1>17. PlaceOf(0)' = 0 /\ (\A j \in Segments : to[0][j] = 0)
  <2>1. PlaceOf(0) = 0 /\ (\A j \in Segments : at[0][j] = 0) /\ 0 \in 0..Len(modtab) /\ 0 \in 0..Len(map)
    BY <1>4, <1>13 DEF Laying1, Laid
  <2> QED
    BY <1>9, <1>15, <2>1 DEF SameSoFar
<1>18. ASSUME NEW n \in 1..Len(loaded'), NEW g, g = ModuleAt(loaded'[n]), NEW e, e = modtab'[n]
       PROVE  IsModule(g) /\ e.maps + Len(g.segs) = PlaceOf(n)' /\ ModuleLaid(to, g, e)'
  <2>1. CASE n \in 1..Len(loaded)
    <3>2. loaded'[n] = loaded[n] /\ modtab[n] = e /\ PlaceOf(n)' = PlaceOf(n) /\ e.maps \in Nat /\ e.syms \in Nat
      <4>1. n \in 1..Len(modtab) /\ n \in 0..Len(modtab)
        BY <1>8, <1>13, <2>1
      <4> QED
        BY <1>13, <1>14, <1>15, <1>18, <2>1, <4>1
    <3>3. IsModule(g) /\ e.maps + Len(g.segs) = PlaceOf(n) /\ ModuleLaid(at, g, e)
      BY <1>18, <2>1, <3>2 DEF Laying1, Laid
    <3>4. \A j \in Segments : segtab'[j].rel = 0
      BY DEF Level
    <3>5. ModuleLaid(to, g, e)'
      BY <1>2, <1>9, <3>2, <3>3, <3>4, OldModuleStays
    <3> QED
      BY <3>2, <3>3, <3>5
  <2>2. CASE n = Len(loaded) + 1
    <3>1. g = f /\ e = m /\ PlaceOf(n)' = Len(map')
      BY <1>8, <1>13, <1>14, <1>15, <1>18, <2>2
    <3>2. ModuleLaid(to, f, m)'
      BY <1>2, <1>3, <1>6, <1>11, NewModuleLaid
    <3> QED
      <4>1. e.maps + Len(g.segs) = Len(map')
        BY <1>4, <1>6, <3>1
      <4> QED
        BY <3>1, <3>2, <4>1
  <2> QED
    BY <1>14, <2>1, <2>2
<1>19. Laid(to)'
  <2>1. Len(modtab') = Len(loaded')
    BY <1>8, <1>13, <1>14
  <2>2. \A n \in 1..Len(loaded') : \A g, e : g = ModuleAt(loaded'[n]) /\ e = modtab'[n] =>
          IsModule(g) /\ e.maps + Len(g.segs) = PlaceOf(n)' /\ ModuleLaid(to, g, e)'
    BY <1>18
  <2> QED
    BY <1>12, <1>16, <1>17, <2>1, <2>2 DEF Laid
<1>20. Sizes(segtab)' = to[Len(map')]
  <2>1. Len(f.segs) \in 0..Len(f.segs)
    BY <1>4
  <2>2. to[Len(map')] = pt[Len(f.segs)]
    BY <1>4, <1>11, <2>1 DEF Follows
  <2> QED
    BY <1>1, <1>10, <2>2 DEF Sizes
<1> QED
  BY <1>19, <1>20 DEF Laying1

LEMMA TypesJoined ==
  ASSUME NEW f, NEW who, NEW segs, NEW syms, Entering3(f, who, segs, syms), PlaceTypes, Level,
         Placement(f, Len(f.segs), segs), IsEntering(syms)
  PROVE  PlaceTypes' /\ Level'
<1>1. /\ segtab' = segs.t /\ mod'.rel = segs.rel /\ DOMAIN mod' = DOMAIN mod /\ symtab' = syms.tab /\ prelist' = prelist
      /\ modtab' = Append(modtab, [maps |-> Len(map), syms |-> Len(symap)])
  BY DEF Entering3
<1>2. /\ SegTable(segs.t) /\ segs.m \in Seq(Segments) /\ DOMAIN segs.rel = Segments
      /\ \A j \in Segments : segs.t[j].rel = segtab[j].rel
  BY DEF Placement
<1>3. IsTable(syms.tab) /\ syms.sy \in Seq(Nat)
  BY DEF IsEntering
<1>4. map \in Seq(Segments) /\ symap \in Seq(Nat) /\ modtab \in Seq([maps : Nat, syms : Nat])
  BY DEF PlaceTypes
<1>5. map' \in Seq(Segments) /\ symap' \in Seq(Nat)
  BY <1>2, <1>3, <1>4, TablesJoined
<1>6. PICK m : m = [maps |-> Len(map), syms |-> Len(symap)]
  OBVIOUS
<1>7. m \in [maps : Nat, syms : Nat] /\ m.maps = Len(map)
  BY <1>4, <1>6
<1>8. modtab' \in Seq([maps : Nat, syms : Nat])
  BY <1>1, <1>4, <1>6, <1>7, PlaceOfStays
<1>9. Level'
  BY <1>1, <1>2 DEF Level
<1> QED
  BY <1>1, <1>2, <1>3, <1>5, <1>8, <1>9 DEF PlaceTypes

LEMMA p1loadPlaces ==
  ASSUME NEW f, IsModule(f), NEW who \in Who, p1load(f, who), ModuleAt(who) = f, PlaceTypes, Level, errcnt \in Nat,
         loaded \in Seq(Who), phase = "pass1", phase' = "pass1", UNCHANGED <<job, made, prelist>>,
         errcnt = 0 => \E at : Laying1(at)
  PROVE  PlaceTypes' /\ Level' /\ (errcnt' = 0 => \E at : Laying1(at)')
<1>1. CASE kind \notin {"any", KindOf(f)}
  <2>1. errcnt' = errcnt + 1 /\ UNCHANGED <<segtab, mod, map, symap, modtab, symtab>>
    BY <1>1 DEF p1load
  <2>2. PlaceTypes'
    BY <2>1 DEF PlaceTypes
  <2>3. Level'
    BY <2>1 DEF Level
  <2> QED
    BY <2>1, <2>2, <2>3
<1>2. CASE kind \in {"any", KindOf(f)}
  <2>1. PICK segs : segs = p1doseg(f)
    OBVIOUS
  <2>2. PICK syms : syms = p1dosym(f, segs.rel, segs.m)
    OBVIOUS
  <2>3. EnterModule(f, who, segs, syms)
    BY <1>2, <2>1, <2>2 DEF p1load
  <2>4. ~ segs.full
    BY <2>3 DEF EnterModule
  <2>5. Placement(f, Len(f.segs), segs)
    BY <2>1, p1dosegPlaces DEF PlaceTypes
  <2>6. Entering3(f, who, segs, syms)
    BY <2>3 DEF EnterModule, Entering3, Level
  <2>7. /\ IsEntering(syms) /\ Len(syms.sy) = Len(f.syms)
        /\ syms.err = 0 /\ PlacesNumbered(f, segs.rel) => AllStay(f, symtab, syms.tab) /\ AllKnown(f, segs.rel, segs.m, syms.sy, syms.tab)
    BY <2>2, p1dosymKnows DEF PlaceTypes, AllKnown
  <2>8. PlaceTypes' /\ Level'
    BY <2>5, <2>6, <2>7, TypesJoined
  <2>9. ASSUME errcnt' = 0 PROVE \E at : Laying1(at)'
    <3>1. errcnt' = errcnt + segs.err + syms.err /\ segs.err \in Nat /\ syms.err \in Nat
      BY <2>5, <2>6, <2>7 DEF Entering3, Placement, IsEntering, HasTable, HasErr
    <3>2. errcnt = 0 /\ syms.err = 0
      BY <2>9, <3>1
    <3>3. PICK at : Laying1(at)
      BY <3>2
    <3>4. Len(f.segs) \in Nat
      BY SeqLength DEF IsModule
    <3>5. PlacesNumbered(f, segs.rel)
      <4>1. PICK pt : Parts(pt, segtab, f, segs.m, segs.rel, Len(f.segs), segs.t)
        BY <2>4, <2>5 DEF Placement
      <4> QED
        BY <3>4, <4>1, PartsNumbered
    <3>6. AllStay(f, symtab, syms.tab) /\ AllKnown(f, segs.rel, segs.m, syms.sy, syms.tab)
      BY <2>7, <3>2, <3>5
    <3> QED
      BY <2>4, <2>5, <2>6, <2>7, <2>8, <3>3, <3>6, LoadedPlaces
  <2> QED
    BY <2>8, <2>9
<1> QED
  BY <1>1, <1>2

-----------------------------------------------------------------------------
(* The steps.                                                              *)

LEMMA FilesAreModules ==
  ASSUME PassType, job # <<>>, file <= Len(cmd.files), IsModule(made)
  PROVE  /\ ~ IsArchive(thefile) => IsModule(thefile)
         /\ IsArchive(thefile) => IsSeq(thefile.members) /\ \A k \in 1..Len(thefile.members) : IsModule(thefile.members[k])
<1>1. cmd.files[file] \in DOMAIN Library \cup {"made"}
  <2>1. file \in 1..Len(cmd.files)
    BY CommandFacts, SeqLength DEF PassType
  <2> QED
    BY <2>1, CommandFacts, SeqLength
<1>2. CASE cmd.files[file] = "made"
  BY <1>2 DEF thefile, FileOf, IsModule
<1>3. CASE cmd.files[file] # "made"
  <2>1. thefile = Library[cmd.files[file]] /\ cmd.files[file] \in DOMAIN Library
    BY <1>1, <1>3 DEF thefile, FileOf
  <2>2. (IsArchive(thefile) => IsSeq(thefile.members)) /\ \A f \in ModulesOf(thefile) : IsModule(f)
    BY <2>1, LibraryAssumption
  <2>3. CASE IsArchive(thefile)
    <3>1. \A k \in 1..Len(thefile.members) : thefile.members[k] \in ModulesOf(thefile)
      BY <2>2, <2>3, SeqLength DEF ModulesOf
    <3> QED
      BY <2>2, <2>3, <3>1
  <2>4. CASE ~ IsArchive(thefile)
    BY <2>2, <2>4 DEF ModulesOf
  <2> QED
    BY <2>3, <2>4
<1> QED
  BY <1>2, <1>3

LEMMA InitPlaces == LinkerInit => PlaceInv
<1> SUFFICES ASSUME LinkerInit PROVE PlaceInv
  OBVIOUS
<1>1. phase = "start" /\ made = NothingMade
  BY DEF LinkerInit
<1>2. made.segs = <<>> /\ made.syms = <<>> /\ ~ IsArchive(made)
  BY <1>1 DEF NothingMade, IsArchive
<1>3. ToSet(<<>>) = {}
  BY DEF ToSet
<1>4. IsModule(made)
  BY <1>2, <1>3, EmptyIsSeq DEF IsModule
<1> QED
  BY <1>1, <1>4 DEF PlaceInv

LEMMA Pass0Places ==
  ASSUME PassInv, PlaceInv, Pass0
  PROVE  PlaceInv'
<1>1. /\ job # <<>> /\ phase' = "pass1" /\ map' = <<>> /\ symap' = <<>> /\ modtab' = <<>> /\ loaded' = <<>>
      /\ postab' = <<>> /\ posndx' = [i \in DOMAIN cmd.files |-> NoModule]
      /\ (LET none == [i \in Segments |-> 0] IN mod' = [rel |-> none, pos |-> none, siz |-> none])
      /\ made' = made /\ modno' = 0
  BY DEF Pass0
<1>2. /\ IsSeq(cmd.u) /\ IsSeq(cmd.d) /\ \A d \in ToSet(cmd.d) : d.seg \in Segments /\ IsSeq(d.names)
  <2>1. cmd \in Commands
    BY <1>1 DEF PassInv, PassType, cmd
  <2> QED
    BY <2>1, JobsAssumption
<1>3. EmptyTable(segtab')
  BY <1>2, Pass0Segments
<1>4. IsSeq(prelist') /\ ToSet(prelist') \subseteq Segments
  BY <1>2, Pass0Prelist
<1>5. IsTable(symtab')
  BY <1>2, Pass0Table
<1>6. "rel" \in DOMAIN mod' /\ DOMAIN mod'.rel = Segments
  BY <1>1
<1>7. <<>> \in Seq(Segments) /\ <<>> \in Seq(Nat) /\ <<>> \in Seq([maps : Nat, syms : Nat]) /\ Len(<<>>) = 0
  OBVIOUS
<1>8. PlaceTypes'
  BY <1>1, <1>3, <1>4, <1>5, <1>6, <1>7 DEF PlaceTypes, EmptyTable
<1>9. Level'
  BY <1>3, <1>6 DEF Level, EmptyTable
<1>10. Entries'
  <2>1. \A i \in DOMAIN posndx' : posndx'[i] # OneModule
    BY <1>1 DEF OneModule, NoModule
  <2>2. 1..Len(postab') = {}
    BY <1>1
  <2> QED
    BY <2>1, <2>2 DEF Entries
<1>11. PICK none : none = [j \in Segments |-> 0]
  OBVIOUS
<1>12. PICK at : at = [x \in 0..0 |-> none]
  OBVIOUS
<1>13. Sizes(segtab') = none /\ none \in [Segments -> Nat] /\ \A j \in Segments : none[j] = 0
  BY <1>3, <1>11 DEF Sizes, EmptyTable
<1>14. Len(map') = 0 /\ Len(modtab') = 0 /\ Len(loaded') = 0 /\ 0..0 = {0} /\ 1..0 = {} /\ at[0] = none
  BY <1>1, <1>12
<1>15. PlaceOf(0)' = 0
  BY <1>14 DEF PlaceOf
<1>16. Laid(at)'
  BY <1>13, <1>14, <1>15 DEF Laid
<1>17. Laying1(at)'
  BY <1>13, <1>14, <1>16 DEF Laying1, Sizes
<1>18. IsModule(made)'
  BY <1>1 DEF PlaceInv, IsModule, IsArchive
<1> QED
  BY <1>1, <1>8, <1>9, <1>10, <1>17, <1>18 DEF PlaceInv

LEMMA Pass1Places ==
  ASSUME PlaceInv, UNCHANGED <<job, made, modno>>, phase = "pass1", phase' \in {"pass1", "failed"},
         phase' = "pass1" => PlaceTypes' /\ Level' /\ Entries' /\ (errcnt' = 0 => \E at : Laying1(at)')
  PROVE  PlaceInv'
<1>1. IsModule(made)'
  BY DEF PlaceInv
<1>2. phase' # "pass2"
  OBVIOUS
<1> QED
  BY <1>1, <1>2 DEF PlaceInv

LEMMA NothingMoves ==
  ASSUME UNCHANGED <<job, made, kind, segtab, mod, map, symap, modtab, symtab, prelist, loaded>>, PlaceTypes, Level
  PROVE  /\ PlaceTypes' /\ Level'
         /\ \A at : Laying1(at) => Laying1(at)'
<1>1. PlaceTypes'
  BY DEF PlaceTypes
<1>2. Level'
  BY DEF Level
<1>3. ASSUME NEW at, Laying1(at) PROVE Laying1(at)'
  <2>1. \A n : ModuleAt(loaded[n])' = ModuleAt(loaded[n])
    BY DEF ModuleAt, FileOf, cmd
  <2>2. \A n : PlaceOf(n)' = PlaceOf(n)
    BY DEF PlaceOf
  <2>3. \A name : IsCommon(name)' = IsCommon(name)
    BY DEF IsCommon, ModuleAt, FileOf, cmd
  <2>4. ASSUME NEW f, NEW m, ModuleLaid(at, f, m) PROVE ModuleLaid(at, f, m)'
    BY <2>3, <2>4 DEF ModuleLaid, SymbolLaid
  <2>5. PlaceOf(0)' = 0
    BY <1>3, <2>2 DEF Laying1, Laid
  <2>6. Laid(at)'
    BY <1>3, <2>1, <2>2, <2>4, <2>5 DEF Laying1, Laid
  <2> QED
    BY <1>3, <2>6 DEF Laying1
<1> QED
  BY <1>1, <1>2, <1>3

LEMMA ArchiveStays ==
  ASSUME UNCHANGED <<job, made>>
  PROVE  /\ \A n : FileOf(n)' = FileOf(n)
         /\ cmd' = cmd
BY DEF FileOf, cmd

LEMMA Pass1ObjectPlaces ==
  ASSUME PassInv, PlaceInv, Pass1Object
  PROVE  PlaceInv'
<1>1. /\ job # <<>> /\ phase = "pass1" /\ file <= Len(cmd.files) /\ ~ IsArchive(thefile)
      /\ posndx' = [posndx EXCEPT ![file] = OneModule] /\ p1load(thefile, <<file, 0>>)
      /\ UNCHANGED <<job, made, modno, prelist, postab>>
  BY DEF Pass1Object, InPass1
<1>2. /\ PassType /\ file \in Nat /\ errcnt \in Nat /\ loaded \in Seq(Who) /\ IsSeq(symtab)
      /\ IsModule(made) /\ PlaceTypes /\ Entries /\ Level /\ (errcnt = 0 => \E at : Laying1(at))
  BY <1>1 DEF PassInv, PassType, PlaceInv
<1>3. PICK f : f = thefile
  OBVIOUS
<1>4. PICK who : who = <<file, 0>>
  OBVIOUS
<1>5. IsModule(f) /\ p1load(f, who)
  BY <1>1, <1>2, <1>3, <1>4, FilesAreModules
<1>6. who \in Who
  BY <1>2, <1>4 DEF Who
<1>7. ModuleAt(who) = f
  BY <1>3, <1>4 DEF ModuleAt, thefile
<1>8. phase' \in {"pass1", "failed"}
  BY <1>1, <1>2, <1>5, <1>6, p1loadKeeps DEF IsModule
<1>9. Entries'
  <2>1. \A i \in DOMAIN posndx' : posndx'[i] = OneModule => ~ IsArchive(FileOf(cmd.files[i]))
    BY <1>1, <1>2 DEF Entries, thefile
  <2>2. cmd' = cmd /\ \A n : FileOf(n)' = FileOf(n)
    BY <1>1, ArchiveStays
  <2>3. \A n : FileOf(n)' = IF n = "made" THEN made ELSE Library[n]
    BY <1>1 DEF FileOf
  <2> QED
    BY <1>1, <1>2, <2>1, <2>2 DEF Entries, FileOf
<1>10. phase' = "pass1" => PlaceTypes' /\ Level' /\ (errcnt' = 0 => \E at : Laying1(at)')
  BY <1>1, <1>2, <1>5, <1>6, <1>7, p1loadPlaces
<1> QED
  BY <1>1, <1>8, <1>9, <1>10, Pass1Places

\* A new entry of postab is the end of a list or a member of an archive.
LEMMA EntryAppended ==
  ASSUME Entries, UNCHANGED <<job, made>>, postab \in Seq(PosEntry), NEW e \in PosEntry, postab' \in {postab, Append(postab, e)},
         e # Stop => LET a == FileOf(cmd.files[e[1]]) IN IsArchive(a) /\ e[2] \in 1..Len(a.members),
         \A i \in DOMAIN posndx' : posndx'[i] = OneModule => i \in DOMAIN posndx /\ posndx[i] = OneModule
  PROVE  Entries'
<1>1. ASSUME NEW i \in 1..Len(postab') PROVE postab'[i] = e \/ (i \in 1..Len(postab) /\ postab'[i] = postab[i])
  <2>1. CASE postab' = postab
    BY <2>1
  <2>2. CASE postab' = Append(postab, e)
    BY <2>2, Appended
  <2> QED
    BY <2>1, <2>2
<1>2. ASSUME NEW i \in 1..Len(postab'), postab'[i] # Stop
      PROVE  LET a == FileOf(cmd.files[postab'[i][1]]) IN IsArchive(a) /\ postab'[i][2] \in 1..Len(a.members)
  <2>1. PICK d : d = postab'[i]
    OBVIOUS
  <2>2. LET a == FileOf(cmd.files[d[1]]) IN IsArchive(a) /\ d[2] \in 1..Len(a.members)
    BY <1>1, <1>2, <2>1 DEF Entries
  <2> QED
    BY <2>1, <2>2
<1>3. \A i \in DOMAIN posndx' : posndx'[i] = OneModule => ~ IsArchive(FileOf(cmd.files[i]))
  BY DEF Entries
<1> QED
  BY <1>2, <1>3 DEF Entries, FileOf, cmd

LEMMA Pass1MemberPlaces ==
  ASSUME PassInv, PlaceInv, Pass1Member
  PROVE  PlaceInv'
<1>1. PICK f : f = thefile.members[member]
  OBVIOUS
<1>2. PICK who : who = <<file, member>>
  OBVIOUS
<1>3. /\ job # <<>> /\ phase = "pass1" /\ file <= Len(cmd.files) /\ IsArchive(thefile) /\ member <= Len(thefile.members)
      /\ UNCHANGED <<job, made, modno, prelist>>
      /\ \/ /\ posndx' = [posndx EXCEPT ![file] = IF @ <= 0 THEN Len(postab) + 1 ELSE @]
            /\ postab' = Append(postab, who) /\ p1load(f, who)
         \/ UNCHANGED <<phase, posndx, postab, kind, segtab, mod, map, symap, modtab, symtab, udefcnt, errcnt, loaded>>
  BY <1>1, <1>2 DEF Pass1Member, InPass1
<1>4. /\ PassType /\ file \in Nat /\ errcnt \in Nat /\ loaded \in Seq(Who) /\ IsSeq(symtab) /\ postab \in Seq(PosEntry)
      /\ member \in Nat /\ member > 0 /\ posndx \in [1..Len(cmd.files) -> Int]
      /\ IsModule(made) /\ PlaceTypes /\ Entries /\ Level /\ (errcnt = 0 => \E at : Laying1(at))
  BY <1>3 DEF PassInv, PassType, PlaceInv
<1>5. Len(thefile.members) \in Nat /\ member \in 1..Len(thefile.members) /\ IsModule(f)
  <2>1. IsSeq(thefile.members) /\ \A k \in 1..Len(thefile.members) : IsModule(thefile.members[k])
    BY <1>3, <1>4, FilesAreModules
  <2>2. Len(thefile.members) \in Nat
    BY <2>1, SeqLength
  <2>3. member \in 1..Len(thefile.members)
    BY <1>3, <1>4, <2>2
  <2> QED
    BY <1>1, <2>1, <2>2, <2>3
<1>6. who \in Who /\ who \in PosEntry
  BY <1>2, <1>4 DEF Who, PosEntry
<1>7. ModuleAt(who) = f
  BY <1>1, <1>2, <1>4 DEF ModuleAt, thefile
<1>8. CASE /\ posndx' = [posndx EXCEPT ![file] = IF @ <= 0 THEN Len(postab) + 1 ELSE @]
           /\ postab' = Append(postab, who) /\ p1load(f, who)
  <2>1. phase' \in {"pass1", "failed"}
    BY <1>3, <1>4, <1>5, <1>6, <1>8, p1loadKeeps DEF IsModule
  <2>2. phase' = "pass1" => PlaceTypes' /\ Level' /\ (errcnt' = 0 => \E at : Laying1(at)')
    BY <1>3, <1>4, <1>5, <1>6, <1>7, <1>8, p1loadPlaces
  <2>3. Len(postab) \in Nat
    BY <1>4
  <2>4. ASSUME NEW i \in DOMAIN posndx', posndx'[i] = OneModule PROVE i \in DOMAIN posndx /\ posndx[i] = OneModule
    <3>1. i \in DOMAIN posndx /\ posndx[i] \in Int
      BY <1>4, <1>8
    <3>2. CASE i = file
      <4>1. posndx'[i] = IF posndx[i] <= 0 THEN Len(postab) + 1 ELSE posndx[i]
        BY <1>8, <3>1, <3>2
      <4> QED
        BY <2>3, <2>4, <3>1, <4>1 DEF OneModule
    <3>3. CASE i # file
      BY <1>8, <2>4, <3>1, <3>3
    <3> QED
      BY <3>2, <3>3
  <2>5. who[1] = file /\ who[2] = member /\ thefile = FileOf(cmd.files[who[1]])
    BY <1>2 DEF thefile
  <2>6. IsArchive(FileOf(cmd.files[who[1]])) /\ who[2] \in 1..Len(FileOf(cmd.files[who[1]]).members)
    BY <1>3, <1>5, <2>5
  <2>7. Entries'
    BY <1>3, <1>4, <1>6, <1>8, <2>4, <2>6, EntryAppended
  <2> QED
    BY <1>3, <2>1, <2>2, <2>7, Pass1Places
<1>9. CASE UNCHANGED <<phase, posndx, postab, kind, segtab, mod, map, symap, modtab, symtab, udefcnt, errcnt, loaded>>
  <2>1. PlaceTypes' /\ Level' /\ \A at : Laying1(at) => Laying1(at)'
    BY <1>3, <1>4, <1>9, NothingMoves
  <2>2. Entries'
    BY <1>3, <1>4, <1>9 DEF Entries, FileOf, cmd
  <2>3. errcnt' = 0 => \E at : Laying1(at)'
    BY <1>4, <1>9, <2>1
  <2> QED
    BY <1>3, <1>9, <2>1, <2>2, <2>3, Pass1Places
<1> QED
  BY <1>3, <1>8, <1>9

LEMMA Pass1EndArchivePlaces ==
  ASSUME PassInv, PlaceInv, Pass1EndArchive
  PROVE  PlaceInv'
<1>1. /\ phase = "pass1" /\ postab' = EndOfArchive
      /\ UNCHANGED <<job, phase, kind, symtab, segtab, prelist, map, symap, modtab, posndx, udefcnt, errcnt, mod, made, modno, loaded>>
  BY DEF Pass1EndArchive, InPass1, output, history
<1>2. postab \in Seq(PosEntry) /\ PlaceTypes /\ Entries /\ Level /\ (errcnt = 0 => \E at : Laying1(at))
  BY <1>1 DEF PassInv, PassType, PlaceInv
<1>3. PlaceTypes' /\ Level' /\ \A at : Laying1(at) => Laying1(at)'
  BY <1>1, <1>2, NothingMoves
<1>4. postab' \in {postab, Append(postab, Stop)} /\ Stop \in PosEntry
  BY <1>1 DEF EndOfArchive, PosEntry
<1>5. Entries'
  BY <1>1, <1>2, <1>4, EntryAppended
<1>6. errcnt' = 0 => \E at : Laying1(at)'
  BY <1>1, <1>2, <1>3
<1> QED
  BY <1>1, <1>3, <1>5, <1>6, Pass1Places

LEMMA ModtabEntry ==
  ASSUME modtab \in Seq([maps : Nat, syms : Nat]), NEW n \in 1..Len(modtab)
  PROVE  modtab[n].maps \in Nat /\ modtab[n].syms \in Nat
<1>1. modtab[n] \in [maps : Nat, syms : Nat]
  BY SeqIsSeq
<1> QED
  BY <1>1

LEMMA InterludeLaid ==
  ASSUME PlaceTypes, Level, NEW at, Laid(at), SegTable(segtab)', IsTable(symtab)', Len(symtab') = Len(symtab),
         UNCHANGED <<job, made, map, symap, modtab, loaded>>,
         \A k \in 1..Len(symtab) : symtab[k].fl = "GLB" /\ symtab[k].sg \in Segments => Rebased(symtab[k], symtab'[k])
  PROVE  Laid(at)'
<1>1. \A n : ModuleAt(loaded[n])' = ModuleAt(loaded[n])
  BY DEF ModuleAt, FileOf, cmd
<1>2. \A n : PlaceOf(n)' = PlaceOf(n)
  BY DEF PlaceOf
<1>3. \A name : IsCommon(name)' = IsCommon(name)
  BY DEF IsCommon, ModuleAt, FileOf, cmd
<1>4. map \in Seq(Segments) /\ Len(map) \in Nat /\ \A x \in 0..Len(map) : at[x] \in [Segments -> Nat]
  BY DEF PlaceTypes, Laid
<1>5. ASSUME NEW f, IsModule(f), NEW m, m.maps \in Nat, ModuleLaid(at, f, m) PROVE ModuleLaid(at, f, m)'
  <2>1. ASSUME NEW i \in 1..Len(f.syms) PROVE SymbolLaid(at, f, m, i)'
    <3>1. PICK s : s = f.syms[i]
      OBVIOUS
    <3>2. PICK k : k = symap[m.syms + i]
      OBVIOUS
    <3>3. PICK j : j = MapAt(map, m.maps + s.sg)
      OBVIOUS
    <3>4. SUFFICES ASSUME InSegment(f, s), ~ IsCommon(s.name)
                   PROVE  /\ k \in 1..Len(symtab) /\ symtab'[k].fl = "GLB" /\ symtab'[k].name = s.name
                          /\ symtab'[k].sg = j /\ symtab'[k].val = Wrap(s.val + at[m.maps + s.sg][j] + segtab'[j].rel)
      BY <1>3, <3>1, <3>2, <3>3 DEF SymbolLaid
    <3>5. /\ k \in 1..Len(symtab) /\ symtab[k].fl = "GLB" /\ symtab[k].name = s.name
          /\ symtab[k].sg = j /\ symtab[k].val = Wrap(s.val + at[m.maps + s.sg][j] + segtab[j].rel)
      BY <1>5, <3>1, <3>2, <3>3, <3>4 DEF ModuleLaid, SymbolLaid
    <3>6. s.val \in Nat /\ s.sg \in Nat /\ s.sg < Len(f.segs)
      BY <3>4, SegmentNumbers DEF InSegment
    <3>7. Len(f.segs) \in Nat /\ m.maps + Len(f.segs) <= Len(map)
      BY <1>5, SeqLength DEF IsModule, ModuleLaid
    <3>8. m.maps + s.sg \in Nat /\ m.maps + s.sg < Len(map) /\ m.maps + s.sg \in 0..Len(map)
      BY <1>4, <1>5, <3>6, <3>7, Within
    <3>9. j \in Segments
      BY <1>4, <3>3, <3>8, MapAtFacts
    <3>10. at[m.maps + s.sg][j] \in Nat /\ segtab[j].rel = 0 /\ segtab'[j].rel \in Nat
      BY <1>4, <3>8, <3>9 DEF Level, SegTable, SegEntry
    <3>11. PICK v : v = s.val + at[m.maps + s.sg][j]
      OBVIOUS
    <3>12. v \in Nat /\ symtab[k].val = Wrap(v)
      <4>1. v \in Nat /\ s.val + at[m.maps + s.sg][j] + segtab[j].rel = v
        BY <3>6, <3>10, <3>11
      <4> QED
        BY <3>5, <4>1
    <3>13. Wrap(Wrap(v) + segtab'[j].rel) = Wrap(v + segtab'[j].rel)
      BY <3>10, <3>12, WrapSum
    <3>14. Rebased(symtab[k], symtab'[k])
      BY <3>5, <3>9
    <3>15. symtab'[k].val = Wrap(v + segtab'[j].rel)
      <4>1. CASE Bound
        BY <3>5, <3>12, <3>13, <3>14, <4>1 DEF Rebased
      <4>2. CASE ~ Bound
        <5>1. symtab'[k].val = Wrap(v) /\ segtab'[j].rel = 0
          BY <3>5, <3>12, <3>14, <4>2 DEF Rebased
        <5>2. v + segtab'[j].rel = v
          BY <3>12, <5>1
        <5> QED
          BY <5>1, <5>2
      <4> QED
        BY <4>1, <4>2
    <3> QED
      BY <3>5, <3>11, <3>14, <3>15 DEF Rebased
  <2> QED
    BY <1>5, <2>1 DEF ModuleLaid
<1>6. ASSUME NEW n \in 1..Len(loaded), NEW f, NEW m, f = ModuleAt(loaded[n]), m = modtab[n]
      PROVE  IsModule(f) /\ m.maps + Len(f.segs) = PlaceOf(n) /\ ModuleLaid(at, f, m)'
  <2>1. IsModule(f) /\ m.maps + Len(f.segs) = PlaceOf(n) /\ ModuleLaid(at, f, m)
    BY <1>6 DEF Laid
  <2>2. m.maps \in Nat
    <3>1. Len(modtab) = Len(loaded) /\ modtab \in Seq([maps : Nat, syms : Nat])
      BY DEF Laid, PlaceTypes
    <3>2. n \in 1..Len(modtab)
      BY <3>1
    <3> QED
      BY <1>6, <3>1, <3>2, ModtabEntry
  <2> QED
    BY <1>5, <2>1, <2>2
<1>7. PlaceOf(0)' = 0
  BY <1>2 DEF Laid
<1> QED
  BY <1>1, <1>2, <1>6, <1>7 DEF Laid

LEMMA InterludeReads ==
  ASSUME PassInv, PlaceInv, Interlude
  PROVE  PlaceInv'
<1>1. /\ job # <<>> /\ phase = "pass1" /\ phase' \in {"pass2", "failed"} /\ (phase' = "pass2" => errcnt = 0)
      /\ UNCHANGED <<job, made, prelist, map, symap, modtab, postab, posndx, mod, modno, loaded, read2>>
  <2>1. /\ job # <<>> /\ phase = "pass1"
        /\ UNCHANGED <<job, made, prelist, map, symap, modtab, postab, posndx, mod, modno, loaded, read2>>
    BY DEF Interlude, history
  <2>2. phase' \in {"pass2", "failed"}
    BY DEF Interlude
  <2>3. errcnt > 0 => phase' = "failed"
    BY DEF Interlude
  <2>4. errcnt \in Nat
    BY <2>1 DEF PassInv, PassType
  <2> QED
    BY <2>1, <2>2, <2>3, <2>4
<1>2. /\ PassType /\ errcnt \in Nat /\ read2 = <<>> /\ modno = 0 /\ IsModule(made)
      /\ PlaceTypes /\ Entries /\ Level /\ (errcnt = 0 => \E at : Laying1(at))
  BY <1>1 DEF PassInv, PassType, PlaceInv
<1>3. cmd.t \in Nat
  <2>1. cmd \in Commands
    BY <1>1, <1>2 DEF PassType, cmd
  <2> QED
    BY <2>1, JobsAssumption
<1>4. /\ SegTable(segtab)' /\ IsTable(symtab)' /\ Len(symtab') = Len(symtab)
      /\ \A j \in Segments : segtab'[j].siz = 0
      /\ \A k \in 1..Len(symtab) : symtab[k].fl = "GLB" /\ symtab[k].sg \in Segments => Rebased(symtab[k], symtab'[k])
  BY <1>2, <1>3, InterludePlaces DEF PlaceTypes, Level
<1>5. PlaceTypes'
  BY <1>1, <1>2, <1>4 DEF PlaceTypes
<1>6. Entries'
  BY <1>1, <1>2 DEF Entries, FileOf, cmd
<1>7. IsModule(made)'
  BY <1>1, <1>2
<1>8. ASSUME phase' = "pass2" PROVE \E at : Reading(at)'
  <2>1. PICK at : Laying1(at)
    BY <1>1, <1>2, <1>8
  <2>2. Laid(at)'
    BY <1>1, <1>2, <1>4, <2>1, InterludeLaid DEF Laying1
  <2>3. modno' = 0 /\ Len(read2') = 0 /\ Len(modtab') \in Nat
    BY <1>1, <1>2, <1>5, EmptyIsSeq DEF PlaceTypes
  <2>4. PlaceOf(0)' = 0 /\ at[0] \in [Segments -> Nat] /\ \A j \in Segments : at[0][j] = 0
    <3>1. Len(map') \in Nat
      BY <1>5 DEF PlaceTypes
    <3>2. 0 \in 0..Len(map')
      BY <3>1
    <3> QED
      BY <2>2, <3>2 DEF Laid
  <2>5. Sizes(segtab)' = at[0]
    BY <1>4, <2>4 DEF Sizes
  <2>6. PlaceOf(modno)' = 0
    BY <2>3, <2>4 DEF PlaceOf
  <2>7. Reading(at)'
    BY <2>2, <2>3, <2>5, <2>6 DEF Reading, Sizes
  <2> QED
    BY <2>7
<1>9. phase' # "pass1"
  BY <1>1
<1> QED
  BY <1>1, <1>5, <1>6, <1>7, <1>8, <1>9 DEF PlaceInv

LEMMA LaidStays ==
  ASSUME UNCHANGED <<job, made, symtab, map, symap, modtab, loaded>>, PlaceTypes, Unmoved(segtab, segtab'),
         NEW at, Laid(at)
  PROVE  Laid(at)'
<1>1. \A n : ModuleAt(loaded[n])' = ModuleAt(loaded[n])
  BY DEF ModuleAt, FileOf, cmd
<1>2. \A n : PlaceOf(n)' = PlaceOf(n)
  BY DEF PlaceOf
<1>3. \A name : IsCommon(name)' = IsCommon(name)
  BY DEF IsCommon, ModuleAt, FileOf, cmd
<1>4. map \in Seq(Segments) /\ Len(map) \in Nat
  BY DEF PlaceTypes
<1>5. ASSUME NEW f, IsModule(f), NEW m, m.maps \in Nat, ModuleLaid(at, f, m) PROVE ModuleLaid(at, f, m)'
  <2>1. ASSUME NEW i \in 1..Len(f.syms) PROVE SymbolLaid(at, f, m, i)'
    <3>1. PICK s : s = f.syms[i]
      OBVIOUS
    <3>2. PICK j : j = MapAt(map, m.maps + s.sg)
      OBVIOUS
    <3>3. SymbolLaid(at, f, m, i)
      BY <1>5 DEF ModuleLaid
    <3>4. InSegment(f, s) => j \in Segments
      <4> SUFFICES ASSUME InSegment(f, s) PROVE j \in Segments
        OBVIOUS
      <4>1. s.sg \in Nat /\ s.sg < Len(f.segs) /\ Len(f.segs) \in Nat /\ m.maps + Len(f.segs) <= Len(map)
        BY <1>5, SegmentNumbers, SeqLength DEF InSegment, IsModule, ModuleLaid
      <4>2. m.maps + s.sg \in Nat /\ m.maps + s.sg < Len(map)
        BY <1>4, <1>5, <4>1, Within
      <4> QED
        BY <1>4, <3>2, <4>2, MapAtFacts
    <3>5. j \in Segments => segtab'[j].rel = segtab[j].rel
      BY DEF Unmoved
    <3> QED
      BY <1>3, <3>1, <3>2, <3>3, <3>4, <3>5 DEF SymbolLaid
  <2> QED
    BY <1>5, <2>1 DEF ModuleLaid
<1>6. ASSUME NEW n \in 1..Len(loaded), NEW f, NEW m, f = ModuleAt(loaded[n]), m = modtab[n]
      PROVE  IsModule(f) /\ m.maps + Len(f.segs) = PlaceOf(n) /\ ModuleLaid(at, f, m)'
  <2>1. IsModule(f) /\ m.maps + Len(f.segs) = PlaceOf(n) /\ ModuleLaid(at, f, m)
    BY <1>6 DEF Laid
  <2>2. Len(modtab) = Len(loaded) /\ modtab \in Seq([maps : Nat, syms : Nat])
    BY DEF Laid, PlaceTypes
  <2>3. m.maps \in Nat
    BY <1>6, <2>2, ModtabEntry
  <2> QED
    BY <1>5, <2>1, <2>3
<1>7. PlaceOf(0)' = 0
  BY <1>2 DEF Laid
<1> QED
  BY <1>1, <1>2, <1>6, <1>7 DEF Laid

\* What p2load does to the tables that give the places.
Loading2(f, m, who) ==
  /\ \E done : done = CopySegs(f, m) /\ segtab' = done.t /\ mod' = done.mod
  /\ modno' = modno + 1 /\ read2' = Append(read2, who)
  /\ UNCHANGED <<job, made, symtab, prelist, map, symap, modtab, loaded>>

LEMMA Pass2Types ==
  ASSUME PlaceTypes, NEW f, IsModule(f), NEW m, NEW who, Loading2(f, m, who)
  PROVE  PlaceTypes' /\ Unmoved(segtab, segtab')
<1>1. PICK done : done = CopySegs(f, m) /\ segtab' = done.t /\ mod' = done.mod
  BY DEF Loading2
<1>2. UNCHANGED <<symtab, prelist, map, symap, modtab>>
  BY DEF Loading2
<1>3. SegTable(done.t) /\ Unmoved(segtab, done.t) /\ DOMAIN done.mod.rel = Segments
  <2>1. \A at : CopyingTo(<<f, m.maps>>, at, Len(f.segs), done)
    BY <1>1, CopySegsPlaces DEF PlaceTypes
  <2> QED
    BY <2>1 DEF CopyingTo
<1> QED
  BY <1>1, <1>2, <1>3 DEF PlaceTypes

LEMMA Pass2Reads ==
  ASSUME PlaceTypes, NEW f, NEW m, m = modtab[modno + 1], NEW who \in Who, Loading2(f, m, who), ModuleAt(who) = f,
         read2 \in Seq(Who), loaded \in Seq(Who), ReadSoFar', NEW at, Reading(at)
  PROVE  IsModule(f) /\ Reading(at)'
<1>1. UNCHANGED <<job, made, symtab, prelist, map, symap, modtab, loaded>> /\ modno' = modno + 1 /\ read2' = Append(read2, who)
  BY DEF Loading2
<1>2. /\ Laid(at) /\ modno = Len(read2) /\ Sizes(segtab) = at[PlaceOf(modno)] /\ Len(modtab) = Len(loaded)
      /\ modtab \in Seq([maps : Nat, syms : Nat]) /\ map \in Seq(Segments)
  BY DEF Reading, Laid, PlaceTypes
<1>3. PICK n : n = modno + 1
  OBVIOUS
<1>4. /\ Len(read2) \in Nat /\ Len(read2') = n /\ read2'[n] = who /\ n \in Nat /\ n > 0 /\ n - 1 = modno
  BY <1>1, <1>2, <1>3, Appended
<1>5. n <= Len(loaded) /\ loaded[n] = who /\ Len(loaded) \in Nat /\ n \in 1..Len(loaded)
  <2>1. n <= Len(loaded) /\ read2'[n] = loaded[n]
    BY <1>1, <1>4 DEF ReadSoFar
  <2>2. Len(loaded) \in Nat
    OBVIOUS
  <2> QED
    BY <1>4, <2>1, <2>2
<1>6. IsModule(f) /\ m.maps + Len(f.segs) = PlaceOf(n) /\ ModuleLaid(at, f, m)
  BY <1>2, <1>3, <1>5 DEF Laid
<1>7. m.maps \in Nat /\ Len(f.segs) \in Nat
  BY <1>2, <1>3, <1>5, <1>6, ModtabEntry, SeqLength DEF IsModule
<1>8. PlaceOf(modno) = m.maps
  <2>1. modno < Len(modtab)
    BY <1>2, <1>4, <1>5
  <2> QED
    BY <2>1 DEF PlaceOf
<1>9. Chain(at, f, m.maps)
  BY <1>2, <1>6, <1>7 DEF Chain, ModuleLaid, Laid
<1>10. PICK done : done = CopySegs(f, m) /\ segtab' = done.t /\ mod' = done.mod
  BY DEF Loading2
<1>11. /\ Unmoved(segtab, done.t) /\ Sizes(done.t) = at[m.maps + Len(f.segs)]
       /\ \A k \in Segments : k < Len(f.segs) => done.mod.rel[k] = Bias(at, m.maps, k)
  <2>1. CopyingTo(<<f, m.maps>>, at, Len(f.segs), done)
    BY <1>6, <1>10, CopySegsPlaces DEF PlaceTypes
  <2> QED
    BY <1>2, <1>8, <1>9, <2>1 DEF CopyingTo
<1>12. Laid(at)'
  BY <1>1, <1>2, <1>10, <1>11, LaidStays
<1>13. PlaceOf(modno)' = PlaceOf(n)
  BY <1>1, <1>3 DEF PlaceOf
<1>14. Sizes(segtab)' = at[PlaceOf(n)]
  BY <1>6, <1>10, <1>11 DEF Sizes
<1>15. ModuleAt(loaded[modno])' = f
  BY <1>1, <1>3, <1>5 DEF ModuleAt, FileOf, cmd
<1>16. ASSUME NEW k \in Segments, k < Len(f.segs) PROVE mod'.rel[k] = Bias(at, m.maps, k)'
  <2>1. k \in Nat /\ m.maps + k \in Nat /\ m.maps + k < Len(map)
    <3>1. k \in Nat /\ Len(map) \in Nat /\ m.maps + Len(f.segs) <= Len(map)
      BY <1>2, <1>6, SegmentNumbers DEF ModuleLaid
    <3> QED
      BY <1>7, <1>16, <3>1, Within
  <2>2. PICK j : j = MapAt(map, m.maps + k)
    OBVIOUS
  <2>3. j \in Segments
    <3>1. PICK i : i = m.maps + k
      OBVIOUS
    <3>2. i \in Nat /\ i < Len(map) /\ j = MapAt(map, i) /\ map \in Seq(Segments)
      BY <1>2, <2>1, <2>2, <3>1
    <3> QED
      BY <3>2, MapAtFacts
  <2>4. segtab'[j].rel = segtab[j].rel
    BY <1>10, <1>11, <2>3 DEF Unmoved
  <2>5. mod'.rel[k] = Bias(at, m.maps, k)
    BY <1>10, <1>11, <1>16
  <2> QED
    BY <1>1, <2>2, <2>4, <2>5 DEF Bias
<1>17. m = modtab[modno]'
  BY <1>1, <1>3
<1>18. modno' = Len(read2') /\ modno' <= Len(modtab')
  BY <1>1, <1>2, <1>3, <1>4, <1>5
<1>19. \A k \in Segments : k < Len(ModuleAt(loaded[modno])'.segs) => mod'.rel[k] = Bias(at, modtab[modno].maps, k)'
  <2> SUFFICES ASSUME NEW k \in Segments, k < Len(f.segs) PROVE mod'.rel[k] = Bias(at, modtab[modno].maps, k)'
    BY <1>15
  <2>1. mod'.rel[k] = Bias(at, m.maps, k)'
    BY <1>16
  <2> QED
    BY <1>17, <2>1 DEF Bias
<1> QED
  BY <1>6, <1>12, <1>13, <1>14, <1>18, <1>19 DEF Reading

LEMMA EntriesStay ==
  ASSUME Entries, UNCHANGED <<job, made, posndx, postab>>
  PROVE  Entries'
BY DEF Entries, FileOf, cmd

LEMMA Pass2Places ==
  ASSUME PassInv, PlaceInv, PassInv', phase = "pass2", phase' = "pass2", NEW f, IsModule(f), NEW who \in Who,
         p2load(f, who), ModuleAt(who) = f, UNCHANGED <<job, made, symtab, prelist, map, symap, modtab, loaded, posndx, postab>>
  PROVE  PlaceInv'
<1>1. PICK m : m = modtab[modno + 1]
  OBVIOUS
<1>2. Loading2(f, m, who)
  BY <1>1 DEF p2load, Loading2
<1>3. PlaceTypes /\ Entries /\ IsModule(made) /\ read2 \in Seq(Who) /\ loaded \in Seq(Who)
  BY DEF PlaceInv, PassInv, PassType
<1>4. PlaceTypes'
  BY <1>2, <1>3, Pass2Types
<1>5. Entries'
  BY <1>3, EntriesStay
<1>6. ASSUME ListsEnded' PROVE \E at : Reading(at)'
  <2>1. ListsEnded
    BY <1>6 DEF ListsEnded
  <2>2. PICK at : Reading(at)
    BY <2>1 DEF PlaceInv
  <2>3. ReadSoFar'
    <3>1. \E start : Pass2At(start)'
      BY <1>6 DEF PassInv
    <3> QED
      BY <3>1 DEF Pass2At
  <2> QED
    BY <1>1, <1>2, <1>3, <2>2, <2>3, Pass2Reads
<1>7. IsModule(made)' /\ phase' # "pass1"
  BY <1>3
<1> QED
  BY <1>4, <1>5, <1>6, <1>7 DEF PlaceInv

LEMMA Pass2ObjectPlaces ==
  ASSUME PassInv, PlaceInv, PassInv', Pass2Object
  PROVE  PlaceInv'
<1>1. /\ job # <<>> /\ phase = "pass2" /\ file <= Len(cmd.files) /\ posndx[file] = OneModule /\ p2load(thefile, <<file, 0>>)
      /\ UNCHANGED <<job, made, phase, symtab, prelist, map, symap, modtab, loaded, posndx, postab>>
  BY DEF Pass2Object, InPass2
<1>2. /\ PassType /\ file \in Nat /\ file > 0 /\ posndx \in [1..Len(cmd.files) -> Int] /\ IsModule(made) /\ Entries
  BY <1>1 DEF PassInv, PassType, PlaceInv
<1>3. Len(cmd.files) \in Nat
  BY <1>1, <1>2, CommandFacts, SeqLength
<1>4. ~ IsArchive(thefile)
  <2>1. file \in DOMAIN posndx
    BY <1>1, <1>2, <1>3
  <2> QED
    BY <1>1, <1>2, <2>1 DEF Entries, thefile
<1>5. PICK f : f = thefile
  OBVIOUS
<1>6. PICK who : who = <<file, 0>>
  OBVIOUS
<1>7. IsModule(f) /\ p2load(f, who)
  BY <1>1, <1>2, <1>4, <1>5, <1>6, FilesAreModules
<1>8. who \in Who /\ ModuleAt(who) = f
  BY <1>2, <1>5, <1>6 DEF Who, ModuleAt, thefile
<1> QED
  BY <1>1, <1>7, <1>8, Pass2Places

LEMMA Pass2MemberPlaces ==
  ASSUME PassInv, PlaceInv, PassInv', Pass2Member
  PROVE  PlaceInv'
<1>1. PICK e : e = Listed(Next2)
  OBVIOUS
<1>2. /\ job # <<>> /\ phase = "pass2" /\ file <= Len(cmd.files) /\ posndx[file] > 0 /\ e # Stop
      /\ UNCHANGED <<job, made, symtab, prelist, map, symap, modtab, loaded, posndx, postab>>
      /\ IF e[1] = file THEN p2load(thefile.members[e[2]], e) /\ phase' = phase ELSE phase' = "phase_error"
  BY <1>1 DEF Pass2Member, InPass2
<1>3. /\ PassType /\ file \in Nat /\ member \in Nat /\ posndx \in [1..Len(cmd.files) -> Int] /\ IsModule(made) /\ Entries
      /\ postab \in Seq(PosEntry) /\ file > 0
  BY <1>2 DEF PassInv, PassType, PlaceInv
<1>4. CASE e[1] # file
  <2>1. phase' = "phase_error" /\ IsModule(made)'
    BY <1>2, <1>3, <1>4
  <2> QED
    BY <2>1 DEF PlaceInv
<1>5. CASE e[1] = file
  <2>1. PICK i : i = Next2
    OBVIOUS
  <2>2. i \in 1..Len(postab) /\ e = postab[i]
    <3>1. Len(cmd.files) \in Nat
      BY <1>2, <1>3, CommandFacts, SeqLength
    <3>2. posndx[file] \in Int
      BY <1>2, <1>3, <3>1
    <3>3. i \in Int /\ i > 0
      BY <1>2, <1>3, <2>1, <3>2 DEF Next2
    <3>4. i <= Len(postab) /\ e = postab[i]
      BY <1>1, <1>2, <2>1 DEF Listed
    <3>5. Len(postab) \in Nat
      BY <1>3
    <3> QED
      BY <3>3, <3>4, <3>5
  <2>3. e \in Who
    <3>1. postab[i] \in PosEntry
      BY <1>3, <2>2
    <3> QED
      BY <1>2, <2>2, <3>1 DEF PosEntry
  <2>4. IsArchive(thefile) /\ e[2] \in 1..Len(thefile.members)
    BY <1>2, <1>3, <1>5, <2>2 DEF Entries, thefile
  <2>5. PICK f : f = thefile.members[e[2]]
    OBVIOUS
  <2>6. IsModule(f) /\ p2load(f, e)
    BY <1>2, <1>3, <1>5, <2>4, <2>5, FilesAreModules
  <2>7. ModuleAt(e) = f
    <3>1. e[2] # 0
      BY <2>4
    <3> QED
      BY <1>5, <2>5, <3>1 DEF ModuleAt, thefile
  <2>8. phase' = "pass2"
    BY <1>2, <1>5
  <2> QED
    BY <1>2, <2>3, <2>6, <2>7, <2>8, Pass2Places
<1> QED
  BY <1>4, <1>5

\* What stays when nothing of it moves: the next file of pass 2, and no step.
LEMMA PlacesStay ==
  ASSUME PlaceInv,
         UNCHANGED <<job, made, phase, symtab, segtab, prelist, map, symap, modtab, postab, posndx, errcnt, mod, modno, loaded, read2>>
  PROVE  PlaceInv'
<1>1. IsModule(made)'
  BY DEF PlaceInv
<1>2. ASSUME phase \in {"pass1", "pass2"} PROVE PlaceTypes' /\ Entries'
  <2>1. PlaceTypes /\ Entries
    BY <1>2 DEF PlaceInv
  <2>2. PlaceTypes'
    BY <2>1 DEF PlaceTypes
  <2> QED
    BY <2>1, <2>2, EntriesStay
<1>3. \A at : PlaceTypes /\ Laid(at) => Laid(at)'
  <2>1. Unmoved(segtab, segtab')
    BY DEF Unmoved
  <2> QED
    BY <2>1, LaidStays
<1>4. ASSUME phase = "pass1" PROVE Level' /\ modno' = 0 /\ (errcnt' = 0 => \E at : Laying1(at)')
  <2>1. PlaceTypes /\ Level /\ modno = 0 /\ (errcnt = 0 => \E at : Laying1(at))
    BY <1>4 DEF PlaceInv
  <2>2. Level'
    BY <2>1 DEF Level
  <2>3. \A at : Laying1(at) => Laying1(at)'
    BY <1>3, <2>1 DEF Laying1
  <2> QED
    BY <2>1, <2>2, <2>3
<1>5. ASSUME phase = "pass2", ListsEnded' PROVE \E at : Reading(at)'
  <2>1. ListsEnded
    BY <1>5 DEF ListsEnded
  <2>2. PICK at : Reading(at)
    BY <1>5, <2>1 DEF PlaceInv
  <2>3. PlaceTypes
    BY <1>5 DEF PlaceInv
  <2>4. Laid(at)'
    BY <1>3, <2>2, <2>3 DEF Reading
  <2>5. PlaceOf(modno)' = PlaceOf(modno)
    BY DEF PlaceOf
  <2>6. ModuleAt(loaded[modno])' = ModuleAt(loaded[modno])
    BY DEF ModuleAt, FileOf, cmd
  <2>7. \A k : Bias(at, modtab[modno].maps, k)' = Bias(at, modtab[modno].maps, k)
    BY DEF Bias
  <2>8. Reading(at)'
    BY <2>2, <2>4, <2>5, <2>6, <2>7 DEF Reading
  <2> QED
    BY <2>8
<1> QED
  BY <1>1, <1>2, <1>4, <1>5 DEF PlaceInv

LEMMA FinalePlaces ==
  ASSUME PassInv, PlaceInv, PassInv', Finale
  PROVE  PlaceInv'
<1>1. phase = "pass2" /\ phase' \in {"failed", "done"}
  BY DEF Finale
<1>2. IsSeq(hdr.order) /\ SegTable(segtab) /\ IsTable(symtab) /\ IsModule(made)
  BY <1>1 DEF PassInv, PassType, PlaceInv, PlaceTypes
<1>3. (~ IsArchive(made) /\ IsSeq(made.segs) /\ IsSeq(made.syms))'
  BY DEF PassInv, PassType
<1>4. \/ made' = made
      \/ made'.segs = Descriptors /\ made'.syms = IF cmd.s /\ ~ cmd.r THEN <<>> ELSE symtab
  BY DEF Finale
<1>5. CASE made' = made
  BY <1>1, <1>2, <1>5 DEF PlaceInv
<1>6. CASE made'.segs = Descriptors /\ made'.syms = IF cmd.s /\ ~ cmd.r THEN <<>> ELSE symtab
  <2>1. PICK S : S = {i \in Segments : segtab[i].hiwat > 0}
    OBVIOUS
  <2>2. PICK order : order = Among(hdr.order, S)
    OBVIOUS
  <2>3. order \in Seq(S) /\ S \subseteq Segments
    BY <1>2, <2>1, <2>2, AmongIsSeq
  <2>4. DOMAIN order = 1..Len(order) /\ \A k \in 1..Len(order) : order[k] \in Segments
    BY <2>3, SeqIsSeq
  <2>5. Descriptors = [k \in DOMAIN order |-> [no |-> IF cmd.r THEN 255 ELSE order[k], typ |-> segtab[order[k]].typ,
                                               len |-> segtab[order[k]].hiwat]]
    BY <2>1, <2>2 DEF Descriptors
  <2>6. ASSUME NEW k \in DOMAIN order PROVE IsSegment(Descriptors[k])
    <3>1. PICK i : i = order[k]
      OBVIOUS
    <3>2. i \in Segments /\ segtab[i].hiwat \in Nat
      BY <1>2, <2>4, <3>1 DEF SegTable, SegEntry
    <3>3. Descriptors[k].len = segtab[i].hiwat /\ Descriptors[k].no = IF cmd.r THEN 255 ELSE i
      BY <2>5, <3>1
    <3>4. i % 128 \in Segments /\ 255 % 128 = NoSeg
      BY <3>2, SegmentNumbers DEF NoSeg
    <3>5. Descriptors[k].no % 128 \in Segments \cup {NoSeg}
      BY <3>3, <3>4
    <3> QED
      BY <3>2, <3>3, <3>5 DEF IsSegment
  <2>7. \A s \in ToSet(made'.segs) : IsSegment(s)
    BY <1>6, <2>5, <2>6 DEF ToSet
  <2>8. \A s \in ToSet(made'.syms) : IsSymbol(s)
    <3>1. ToSet(<<>>) = {}
      BY DEF ToSet
    <3>2. \A s \in ToSet(symtab) : IsSymbol(s)
      <4>1. DOMAIN symtab = 1..Len(symtab)
        BY <1>2, SeqLength DEF IsTable
      <4> QED
        BY <1>2, <4>1 DEF IsTable, ToSet
    <3> QED
      BY <1>6, <3>1, <3>2
  <2>9. IsModule(made)'
    BY <1>3, <2>7, <2>8 DEF IsModule
  <2> QED
    BY <1>1, <2>9 DEF PlaceInv
<1> QED
  BY <1>4, <1>5, <1>6

LEMMA PlaceStep ==
  ASSUME PassInv, PlaceInv, PassInv', [ToolNext]_lvars
  PROVE  PlaceInv'
<1>1. CASE Pass2NextFile
  BY <1>1, PlacesStay DEF Pass2NextFile, tables, output, history
<1>2. CASE NextCommand
  <2>1. phase' = "start" /\ made' = made
    BY <1>2 DEF NextCommand
  <2> QED
    BY <2>1 DEF PlaceInv
<1>3. CASE UNCHANGED lvars
  BY <1>3, PlacesStay DEF lvars, tables, output, history
<1> QED
  BY <1>1, <1>2, <1>3, Pass0Places, Pass1ObjectPlaces, Pass1MemberPlaces, Pass1EndArchivePlaces, InterludeReads,
     Pass2ObjectPlaces, Pass2MemberPlaces, FinalePlaces
     DEF ToolNext, LinkerNext, Exit

\* What the invariant says of the places.
LEMMA PlacesAgreeWhenEnded ==
  ASSUME PassInv, PlaceInv, ListsEnded
  PROVE  PlacesAgree
<1> SUFFICES ASSUME phase = "pass2", read2 # <<>> PROVE PlacesAgree
  BY DEF PlacesAgree
<1>1. PICK at : Reading(at)
  BY DEF PlaceInv
<1>2. /\ Laid(at) /\ modno = Len(read2) /\ PlaceTypes /\ read2 \in Seq(Who) /\ loaded \in Seq(Who)
      /\ (modno > 0 => \A k \in Segments : k < Len(ModuleAt(loaded[modno]).segs) => mod.rel[k] = Bias(at, modtab[modno].maps, k))
  BY <1>1 DEF Reading, PlaceInv, PassInv, PassType
<1>3. ReadSoFar
  BY DEF PassInv, Pass2At
<1>4. /\ modno \in Nat /\ modno > 0 /\ modno \in 1..Len(loaded) /\ Last(read2) = loaded[modno]
  <2>1. modno \in Nat /\ modno > 0 /\ Len(loaded) \in Nat
    BY <1>2
  <2>2. modno <= Len(loaded) /\ read2[modno] = loaded[modno]
    BY <1>2, <1>3, <2>1 DEF ReadSoFar
  <2> QED
    BY <1>2, <2>1, <2>2 DEF Last
<1>5. PICK f : f = ModuleAt(loaded[modno])
  OBVIOUS
<1>6. PICK m : m = modtab[modno]
  OBVIOUS
<1>7. IsModule(f) /\ ModuleLaid(at, f, m) /\ Len(modtab) = Len(loaded)
  BY <1>2, <1>4, <1>5, <1>6 DEF Laid
<1>8. /\ m.maps \in Nat /\ Len(f.segs) \in Nat /\ DOMAIN f.syms = 1..Len(f.syms) /\ m.maps + Len(f.segs) <= Len(map)
      /\ map \in Seq(Segments) /\ Len(map) \in Nat
  <2>1. modtab \in Seq([maps : Nat, syms : Nat]) /\ modno \in 1..Len(modtab) /\ map \in Seq(Segments)
    BY <1>2, <1>4, <1>7 DEF PlaceTypes
  <2>2. m.maps \in Nat
    BY <1>6, <2>1, ModtabEntry
  <2> QED
    BY <1>7, <2>1, <2>2, SeqLength DEF IsModule, ModuleLaid
<1>9. ASSUME NEW i \in 1..Len(f.syms), NEW s, s = f.syms[i], NEW d, d = symtab[symap[m.syms + i]],
             InSegment(f, s), ~ IsCommon(s.name)
      PROVE  d.sg = MapAt(map, m.maps + s.sg) /\ d.val = Wrap(s.val + mod.rel[s.sg])
  <2>1. PICK x : x = m.maps + s.sg
    OBVIOUS
  <2>2. PICK j : j = MapAt(map, x)
    OBVIOUS
  <2>3. d.sg = j /\ d.val = Wrap(s.val + at[x][j] + segtab[j].rel)
    BY <1>7, <1>9, <2>1, <2>2 DEF ModuleLaid, SymbolLaid
  <2>4. s.val \in Nat /\ s.sg \in Segments /\ s.sg \in Nat /\ s.sg < Len(f.segs)
    BY <1>9, SegmentNumbers DEF InSegment
  <2>5. x \in Nat /\ x < Len(map) /\ x \in 0..Len(map)
    BY <1>8, <2>1, <2>4, Within
  <2>6. j \in Segments
    BY <1>8, <2>2, <2>5, MapAtFacts
  <2>7. at[x][j] \in Nat /\ segtab[j].rel \in Nat
    BY <1>2, <2>5, <2>6 DEF Laid, PlaceTypes, SegTable, SegEntry
  <2>8. mod.rel[s.sg] = Wrap(segtab[j].rel + at[x][j])
    BY <1>2, <1>4, <1>5, <1>6, <2>1, <2>2, <2>4 DEF Bias
  <2>9. PICK b : b = segtab[j].rel + at[x][j]
    OBVIOUS
  <2>10. b \in Nat /\ s.val + at[x][j] + segtab[j].rel = s.val + b
    BY <2>4, <2>7, <2>9
  <2>11. Wrap(s.val + Wrap(b)) = Wrap(s.val + b)
    BY <2>4, <2>10, WrapSum
  <2> QED
    BY <2>1, <2>2, <2>3, <2>8, <2>9, <2>10, <2>11
<1> QED
  BY <1>4, <1>5, <1>6, <1>8, <1>9 DEF PlacesAgree

\* For every library, every command line and every sequence of links: where pass 1 and
\* interlude put a global symbol of a module, pass 2 puts the place that the symbol stands
\* for, under the condition of PassesAgreeTheorem (ld8k.c's p1doseg, p1dosym, interpos and
\* p2load, each of which adds up the sizes of the segments anew).
THEOREM PlacesAgreeTheorem == ToolSpec => [](ListsEnded => PlacesAgree)
<1>1. LinkerInit => PassInv /\ PlaceInv
  BY InitPassInv, InitPlaces
<1>2. PassInv /\ PlaceInv /\ [ToolNext]_lvars => PassInv' /\ PlaceInv'
  BY PassStep, PlaceStep
<1>3. PassInv /\ PlaceInv => (ListsEnded => PlacesAgree)
  BY PlacesAgreeWhenEnded
<1> HIDE DEF PassInv, PlaceInv
<1> QED
  BY <1>1, <1>2, <1>3, PTL DEF ToolSpec

\* With one archive in each command the places always agree.
THEOREM OneArchivePlacesTheorem ==
  ASSUME OneArchive
  PROVE  ToolSpec => []PlacesAgree
<1>1. LinkerInit => PassInv /\ PlaceInv /\ OneList
  BY InitPassInv, InitPlaces DEF LinkerInit, OneList
<1>2. PassInv /\ PlaceInv /\ OneList /\ [ToolNext]_lvars => PassInv' /\ PlaceInv' /\ OneList'
  BY PassStep, PlaceStep, OneListStep
<1>3. PassInv /\ PlaceInv /\ OneList => PlacesAgree
  <2> SUFFICES ASSUME PassInv, PlaceInv, OneList PROVE PlacesAgree
    OBVIOUS
  <2>1. ListsEnded
    <3> SUFFICES ASSUME NEW i \in DOMAIN posndx, NEW j \in DOMAIN posndx, i < j, posndx[i] > 0, posndx[j] > 0 PROVE FALSE
      BY DEF ListsEnded
    <3>1. i = j /\ i \in Int
      BY DEF OneList
    <3> QED
      BY <3>1
  <2> QED
    BY <2>1, PlacesAgreeWhenEnded
<1> HIDE DEF PassInv, PlaceInv, OneList
<1> QED
  BY <1>1, <1>2, <1>3, PTL DEF ToolSpec
=============================================================================
