----------------------------- MODULE FilesProofs -----------------------------
(***************************************************************************)
(* Proofs about HostFiles, for any FCBs, names, host files, contents and   *)
(* size of the table; and, for programs that keep to one FCB per open      *)
(* file, that it implements FcbFiles.                                      *)
(***************************************************************************)
EXTENDS HostFilesFcb, SequenceTheorems, WellFoundedInduction, TLAPS

-----------------------------------------------------------------------------
(* Least and greatest numbers.                                             *)

LEMMA HasLeast ==
  ASSUME NEW S \in SUBSET Nat, S # {}
  PROVE  \E s \in S : \A t \in S : s <= t
<1>1. PICK s \in S : \A t \in S : ~ (<<t, s>> \in OpToRel(<, Nat))
  BY WFMin, NatLessThanWellFounded, Zenon
<1>2. \A t \in S : ~ (t < s)
  BY <1>1, Zenon DEF OpToRel
<1> QED BY <1>2

LEMMA LeastOf ==
  ASSUME NEW S \in SUBSET Nat, S # {}
  PROVE  Least(S) \in S
BY HasLeast DEF Least

LEMMA GreatestOf ==
  ASSUME NEW n \in Nat, NEW S \in SUBSET (0 .. n), S # {}
  PROVE  Greatest(S) \in S /\ \A t \in S : t <= Greatest(S)
<1> DEFINE below == {n - s : s \in S}
<1>1. below \in SUBSET Nat
  OBVIOUS
<1>2. PICK s0 : s0 \in S
  OBVIOUS
<1>3. n - s0 \in below
  BY <1>2
<1>4. PICK m \in below : \A t \in below : m <= t
  BY <1>1, <1>3, HasLeast
<1>5. PICK s \in S : m = n - s
  OBVIOUS
<1>6. ASSUME NEW t \in S PROVE t <= s
  <2>1. n - t \in below
    OBVIOUS
  <2>2. m <= n - t
    BY <1>4, <2>1
  <2> QED BY <1>5, <2>2
<1> QED BY <1>6 DEF Greatest

-----------------------------------------------------------------------------
(* Functions and contents.                                                 *)

LEMMA WithFacts ==
  ASSUME NEW fn, NEW x, NEW y
  PROVE  /\ DOMAIN With(fn, x, y) = DOMAIN fn \cup {x}
         /\ With(fn, x, y)[x] = y
         /\ \A z \in DOMAIN fn : z # x => With(fn, x, y)[z] = fn[z]
BY DEF With

LEMMA WithoutFacts ==
  ASSUME NEW fn, NEW S
  PROVE  /\ DOMAIN Without(fn, S) = DOMAIN fn \ S
         /\ \A z \in DOMAIN fn \ S : Without(fn, S)[z] = fn[z]
BY DEF Without

LEMMA WithType ==
  ASSUME NEW T, NEW fn, fn \in [DOMAIN fn -> T], NEW x, NEW y \in T
  PROVE  With(fn, x, y) \in [DOMAIN With(fn, x, y) -> T]
BY DEF With

LEMMA WithoutType ==
  ASSUME NEW T, NEW fn, fn \in [DOMAIN fn -> T], NEW S
  PROVE  Without(fn, S) \in [DOMAIN Without(fn, S) -> T]
BY DEF Without

\* The contents of a file: at most MaxRec + 1 values.
LEMMA ContentsFacts ==
  ASSUME NEW c \in Contents
  PROVE  /\ c \in Seq(Val) /\ Len(c) \in 0 .. MaxRec + 1
         /\ DOMAIN c = 1 .. Len(c) /\ \A k \in 1 .. Len(c) : c[k] \in Val
         /\ c = [k \in 1 .. Len(c) |-> c[k]]
<1>1. PICK n \in 0 .. MaxRec + 1 : c \in [1 .. n -> Val]
  BY DEF Contents
<1>2. n \in Nat
  BY <1>1, TableAssumption
<1>3. c \in Seq(Val)
  BY <1>1, <1>2, SeqDef
<1>4. Len(c) = n
  BY <1>1, <1>2, <1>3, LenProperties
<1> QED BY <1>1, <1>3, <1>4

LEMMA ContentsIntro ==
  ASSUME NEW n \in 0 .. MaxRec + 1, NEW c \in [1 .. n -> Val]
  PROVE  c \in Contents /\ Len(c) = n
<1>1. n \in Nat
  BY TableAssumption
<1>2. c \in Seq(Val)
  BY <1>1, SeqDef
<1> QED BY <1>1, <1>2, LenProperties DEF Contents

LEMMA EmptyContents == <<>> \in Contents /\ Len(<<>>) = 0
<1>1. <<>> \in [1 .. 0 -> Val]
  OBVIOUS
<1>2. 0 \in 0 .. MaxRec + 1
  BY TableAssumption
<1> QED BY <1>1, <1>2, ContentsIntro

-----------------------------------------------------------------------------
(* The host and the table.                                                 *)

TableType(fs) == DOMAIN fs \subseteq Slots /\ fs \in [DOMAIN fs -> OpenFile]
DirType(d)    == DOMAIN d \subseteq Names /\ d \in [DOMAIN d -> Inodes]

\* What the buffers of some FILEs leave when they are written out is a file, no shorter.
LEMMA SettledFacts ==
  ASSUME TypeOK, NEW C \in SUBSET Open, NEW i \in Inodes
  PROVE  Settled(C)[i] \in Contents /\ Len(data[i]) <= Len(Settled(C)[i])
<1> DEFINE ends == {Len(data[i])} \cup {r + 1 : r \in {x \in Recs : Holding(C, i, x) # {}}}
           top  == Greatest(ends)
           at(k) == IF Holding(C, i, k - 1) # {}
                    THEN (CHOOSE p \in m_files[Greatest(Holding(C, i, k - 1))].pend : TRUE).val
                    ELSE IF k <= Len(data[i]) THEN data[i][k] ELSE Zero
<1>1. data[i] \in Contents
  BY DEF TypeOK
<1>2. ends \in SUBSET (0 .. MaxRec + 1) /\ Len(data[i]) \in ends /\ MaxRec + 1 \in Nat
  BY <1>1, ContentsFacts, TableAssumption DEF Recs
<1> HIDE DEF ends
<1>3. top \in 0 .. MaxRec + 1 /\ Len(data[i]) <= top
  BY <1>2, GreatestOf
<1> HIDE DEF top
<1>4. ASSUME NEW k \in 1 .. top PROVE at(k) \in Val
  <2> DEFINE H == Holding(C, i, k - 1)
  <2>1. CASE H # {}
    <3>1. H \in SUBSET Open /\ H \in SUBSET (0 .. MAX_OPEN_FILES) /\ MAX_OPEN_FILES \in Nat
      BY TableAssumption DEF Holding, TypeOK, Slots
    <3>2. Greatest(H) \in H
      BY <2>1, <3>1, GreatestOf
    <3>3. m_files[Greatest(H)].pend # {}
      BY <3>2 DEF Holding
    <3>4. m_files[Greatest(H)].pend \in SUBSET [rec : Recs, val : Val]
      BY <3>1, <3>2 DEF TypeOK, OpenFile
    <3> QED BY <2>1, <3>3, <3>4
  <2>2. CASE H = {}
    BY <1>1, <1>3, <2>2, ContentsFacts, ContentsAssumption
  <2> QED BY <2>1, <2>2
<1>5. Settled(C)[i] = [k \in 1 .. top |-> at(k)]
  BY DEF Settled, top, ends
<1> HIDE DEF at
<1>6. [k \in 1 .. top |-> at(k)] \in [1 .. top -> Val]
  BY <1>4
<1> QED BY <1>3, <1>5, <1>6, ContentsIntro

LEMMA SettledType ==
  ASSUME TypeOK, NEW C \in SUBSET Open
  PROVE  Settled(C) \in [Inodes -> Contents]
<1>1. \A i \in Inodes : Settled(C)[i] \in Contents
  BY SettledFacts
<1>2. Settled(C) = [i \in Inodes |-> Settled(C)[i]]
  BY DEF Settled
<1> QED BY <1>1, <1>2

\* What Host makes of a directory, a table and contents of the right types.
LEMMA HostTypes ==
  ASSUME NEW d, NEW fs, NEW dt, DirType(d), TableType(fs), dt \in [Inodes -> Contents],
         Host(d, fs, dt)
  PROVE  /\ DirType(dir') /\ TableType(m_files') /\ data' \in [Inodes -> Contents]
         /\ dir' = d /\ m_files' = fs
BY EmptyContents DEF Host

\* An answer, with the rest of the state typed.
LEMMA AnswerTypes ==
  ASSUME NEW op \in Calls, NEW f \in Fcb, NEW arg \in Names \cup Recs, NEW ret \in {0, 1, 255},
         NEW val \in Val \cup (0 .. MaxRec + 1), AnswerTo(op, f, arg, ret, val),
         fcb' \in [Fcb -> [name : Names, handle : {None} \cup Slots]],
         DirType(dir'), TableType(m_files'), data' \in [Inodes -> Contents]
  PROVE  TypeOK' /\ res'.op = op /\ res'.fcb = f /\ res'.ret = ret
BY DEF AnswerTo, TypeOK, Open, DirType, TableType

LEMMA Zeros == 0 \in Names \cup Recs /\ Zero \in Val \cup (0 .. MaxRec + 1)
BY TableAssumption, ContentsAssumption DEF Recs

LEMMA TypeParts ==
  ASSUME TypeOK
  PROVE  /\ fcb \in [Fcb -> [name : Names, handle : {None} \cup Slots]]
         /\ DirType(dir) /\ TableType(m_files) /\ data \in [Inodes -> Contents]
BY DEF TypeOK, DirType, TableType, Open

LEMMA SetHandleType ==
  ASSUME TypeOK, NEW f \in Fcb, NEW s \in {None} \cup Slots, SetHandle(f, s)
  PROVE  /\ fcb' \in [Fcb -> [name : Names, handle : {None} \cup Slots]]
         /\ fcb'[f].handle = s
         /\ \A g \in Fcb : fcb'[g].name = fcb[g].name
BY DEF TypeOK, SetHandle

\* Closing slots, and opening one.
LEMMA CloseTypes ==
  ASSUME NEW fs, TableType(fs), NEW C
  PROVE  TableType(Without(fs, C)) /\ DOMAIN Without(fs, C) = DOMAIN fs \ C
BY WithoutType, WithoutFacts DEF TableType

LEMMA OpenTypes ==
  ASSUME NEW fs, TableType(fs), NEW s \in Slots, NEW file \in OpenFile
  PROVE  TableType(With(fs, s, file)) /\ DOMAIN With(fs, s, file) = DOMAIN fs \cup {s}
<1>1. fs \in [DOMAIN fs -> OpenFile] /\ DOMAIN fs \subseteq Slots
  BY DEF TableType
<1>2. With(fs, s, file) \in [DOMAIN With(fs, s, file) -> OpenFile]
  BY <1>1, WithType
<1>3. DOMAIN With(fs, s, file) = DOMAIN fs \cup {s}
  BY WithFacts
<1> QED BY <1>1, <1>2, <1>3 DEF TableType

LEMMA NewFileType ==
  ASSUME TypeOK, NEW f \in Fcb, NEW i \in Inodes
  PROVE  NewFile(f, i) \in OpenFile
BY EmptyContents DEF NewFile, OpenFile, TypeOK

\* find_open_slot finds a free slot unless the table is full.
LEMMA FreeSlot ==
  ASSUME NEW fs, DOMAIN fs \subseteq Slots
  PROVE  \/ DOMAIN fs = Slots /\ find_open_slot(fs) = None
         \/ DOMAIN fs # Slots /\ find_open_slot(fs) \in Slots \ DOMAIN fs /\ find_open_slot(fs) # None
<1>1. Slots \ DOMAIN fs \in SUBSET Nat /\ 0 \notin Slots
  BY TableAssumption DEF Slots
<1>2. DOMAIN fs # Slots => Least(Slots \ DOMAIN fs) \in Slots \ DOMAIN fs
  BY <1>1, LeastOf
<1> QED BY <1>1, <1>2 DEF find_open_slot, None

-----------------------------------------------------------------------------
(***************************************************************************)
(* Whatever the programs do with their FCBs.  Each property is about one   *)
(* step; all they need of the state before it is its type.                 *)
(***************************************************************************)
OneSlot ==
  res'.op \in {"OPEN", "MAKE"} /\ res'.ret = 0 =>
    {s \in Open' : m_files'[s].owner = res'.fcb} = {fcb'[res'.fcb].handle}

Refused ==
  /\ res'.op \in {"OPEN", "READ", "WRITE"} /\ res'.ret = 255
       => fcb[res'.fcb].name \notin DOMAIN dir \/ Open' = Slots
  /\ res'.op = "MAKE" /\ res'.ret = 255 => Open' = Slots

ByName ==
  res'.op \in {"READ", "WRITE"} /\ res'.ret = 0 =>
    LET s == fcb'[res'.fcb].handle IN
    s \in Open' /\ m_files'[s].host_path = fcb[res'.fcb].name

FilesStep == TypeOK' /\ OneSlot /\ Refused /\ ByName

\* Calls that neither open a file nor transfer a record.
LEMMA QuietStep ==
  ASSUME TypeOK', res'.op \notin {"OPEN", "MAKE", "READ", "WRITE"}
  PROVE  FilesStep
BY DEF FilesStep, OneSlot, Refused, ByName

LEMMA GuestStep ==
  ASSUME TypeOK, NEW f \in Fcb, NEW n \in Names, NEW g \in Fcb, NewFcb(f, n) \/ CopyFcb(f, g)
  PROVE  FilesStep
<1>1. fcb' \in [Fcb -> [name : Names, handle : {None} \cup Slots]]
  BY TypeParts DEF NewFcb, CopyFcb
<1>2. DirType(dir') /\ TableType(m_files') /\ data' \in [Inodes -> Contents]
  BY TypeParts DEF NewFcb, CopyFcb, DirType, TableType
<1>3. AnswerTo("guest", f, 0, 0, Zero)
  BY DEF NewFcb, CopyFcb, Answer
<1>4. TypeOK' /\ res'.op = "guest"
  BY <1>1, <1>2, <1>3, Zeros, AnswerTypes DEF Calls
<1> QED BY <1>4, QuietStep

LEMMA WarmBootStep ==
  ASSUME TypeOK, WarmBoot
  PROVE  FilesStep
<1>1. PICK f \in Fcb : AnswerTo("WBOOT", f, 0, 0, Zero)
  BY DEF WarmBoot, Answer
<1>2. /\ fcb' \in [Fcb -> [name : Names, handle : {None} \cup Slots]]
      /\ DirType(dir') /\ TableType(m_files') /\ data' \in [Inodes -> Contents]
  BY TypeParts DEF WarmBoot, DirType, TableType
<1>3. TypeOK' /\ res'.op = "WBOOT"
  BY <1>1, <1>2, Zeros, AnswerTypes DEF Calls
<1> QED BY <1>3, QuietStep

LEMMA SizeStep ==
  ASSUME TypeOK, NEW f \in Fcb, Size(f)
  PROVE  FilesStep
<1>1. /\ fcb' \in [Fcb -> [name : Names, handle : {None} \cup Slots]]
      /\ DirType(dir') /\ TableType(m_files') /\ data' \in [Inodes -> Contents]
  BY TypeParts DEF Size, DirType, TableType
<1>2. PICK ret \in {0, 255}, val \in Val \cup (0 .. MaxRec + 1) : AnswerTo("SIZE", f, 0, ret, val)
  <2>1. CASE fcb[f].name \in DOMAIN dir
    <3>1. data[dir[fcb[f].name]] \in Contents
      BY <2>1 DEF TypeOK
    <3>2. Len(data[dir[fcb[f].name]]) \in 0 .. MaxRec + 1
      BY <3>1, ContentsFacts
    <3> QED BY <2>1, <3>2 DEF Size, Answer
  <2>2. CASE fcb[f].name \notin DOMAIN dir
    BY <2>2, Zeros DEF Size, Answer
  <2> QED BY <2>1, <2>2
<1>3. TypeOK' /\ res'.op = "SIZE"
  BY <1>1, <1>2, Zeros, AnswerTypes DEF Calls
<1> QED BY <1>3, QuietStep

LEMMA OpenMissingStep ==
  ASSUME TypeOK, NEW f \in Fcb, OpenMissing(f)
  PROVE  FilesStep
<1>1. /\ fcb' \in [Fcb -> [name : Names, handle : {None} \cup Slots]]
      /\ DirType(dir') /\ TableType(m_files') /\ data' \in [Inodes -> Contents]
  BY TypeParts DEF OpenMissing, DirType, TableType
<1>2. AnswerTo("OPEN", f, 0, 255, Zero) /\ fcb[f].name \notin DOMAIN dir
  BY DEF OpenMissing, Answer
<1>3. TypeOK' /\ res'.op = "OPEN" /\ res'.fcb = f /\ res'.ret = 255
  BY <1>1, <1>2, Zeros, AnswerTypes DEF Calls
<1> QED BY <1>2, <1>3 DEF FilesStep, OneSlot, Refused, ByName

\* What opening f's path in slot s leaves in the table.
LEMMA OwnsNewSlot ==
  ASSUME TypeOK, NEW f \in Fcb, NEW i \in Inodes,
         NEW s \in Slots, s \notin Open \ close_stale(f)
  PROVE  LET fs == With(Without(m_files, close_stale(f)), s, NewFile(f, i)) IN
         TableType(fs) /\ {t \in DOMAIN fs : fs[t].owner = f} = {s}
<1> DEFINE kept == Without(m_files, close_stale(f))
           fs   == With(kept, s, NewFile(f, i))
<1>1. TableType(kept) /\ DOMAIN kept = Open \ close_stale(f)
  BY TypeParts, CloseTypes DEF Open
<1>2. TableType(fs) /\ DOMAIN fs = DOMAIN kept \cup {s}
  BY <1>1, NewFileType, OpenTypes
<1>3. fs[s] = NewFile(f, i) /\ NewFile(f, i).owner = f
  BY DEF With, NewFile
<1>4. ASSUME NEW t \in DOMAIN fs, t # s PROVE fs[t].owner # f
  <2>1. t \in Open \ close_stale(f) /\ fs[t] = kept[t]
    <3>1. t \in DOMAIN kept
      BY <1>2, <1>4
    <3>2. fs[t] = kept[t]
      BY <1>4, <3>1 DEF With
    <3> QED BY <1>1, <3>1, <3>2
  <2>2. kept[t] = m_files[t]
    BY <2>1, WithoutFacts DEF Open
  <2> QED BY <2>1, <2>2 DEF close_stale
<1> HIDE DEF fs
<1>5. {t \in DOMAIN fs : fs[t].owner = f} = {s}
  BY <1>2, <1>3, <1>4
<1> QED BY <1>2, <1>5 DEF fs, kept

\* The slots close_stale() closes, and the slot found afterwards.
LEMMA StaleFacts ==
  ASSUME TypeOK, NEW f \in Fcb
  PROVE  LET kept == Without(m_files, close_stale(f))
             s    == find_open_slot(kept)
         IN
         /\ TableType(kept) /\ DOMAIN kept = Open \ close_stale(f)
         /\ Settled(close_stale(f)) \in [Inodes -> Contents]
         /\ s = None => DOMAIN kept = Slots
         /\ s # None => s \in Slots /\ s \notin Open \ close_stale(f)
<1> DEFINE kept == Without(m_files, close_stale(f))
<1>1. TableType(kept) /\ DOMAIN kept = Open \ close_stale(f)
  BY TypeParts, CloseTypes DEF Open
<1>2. close_stale(f) \in SUBSET Open
  BY DEF close_stale
<1>3. Settled(close_stale(f)) \in [Inodes -> Contents]
  BY <1>2, SettledType
<1>4. DOMAIN kept \subseteq Slots
  BY <1>1 DEF TableType
<1> HIDE DEF kept
<1>5. \/ DOMAIN kept = Slots /\ find_open_slot(kept) = None
      \/ find_open_slot(kept) \in Slots \ DOMAIN kept /\ find_open_slot(kept) # None
  BY <1>4, FreeSlot
<1> QED BY <1>1, <1>3, <1>5 DEF kept

LEMMA OpenFoundStep ==
  ASSUME TypeOK, NEW f \in Fcb, OpenFound(f)
  PROVE  FilesStep
<1> DEFINE kept == Without(m_files, close_stale(f))
           s    == find_open_slot(kept)
           i    == dir[fcb[f].name]
<1>1. /\ TableType(kept) /\ DOMAIN kept = Open \ close_stale(f)
      /\ Settled(close_stale(f)) \in [Inodes -> Contents]
      /\ s = None => DOMAIN kept = Slots
      /\ s # None => s \in Slots /\ s \notin Open \ close_stale(f)
  BY StaleFacts
<1>2. DirType(dir) /\ i \in Inodes
  BY TypeParts DEF OpenFound, DirType
<1>3. CASE s = None
  <2>1. Host(dir, kept, Settled(close_stale(f))) /\ AnswerTo("OPEN", f, 0, 255, Zero) /\ fcb' = fcb
    BY <1>3 DEF OpenFound, Answer
  <2>2. /\ DirType(dir') /\ TableType(m_files') /\ data' \in [Inodes -> Contents]
        /\ m_files' = kept
    BY <1>1, <1>2, <2>1, HostTypes
  <2>3. TypeOK' /\ res'.op = "OPEN" /\ res'.fcb = f /\ res'.ret = 255
    BY <2>1, <2>2, TypeParts, Zeros, AnswerTypes DEF Calls
  <2>4. Open' = Slots
    BY <1>1, <1>3, <2>2 DEF Open
  <2> QED BY <2>3, <2>4 DEF FilesStep, OneSlot, Refused, ByName
<1>4. CASE s # None
  <2> DEFINE fs == With(kept, s, NewFile(f, i))
  <2>1. /\ Host(dir, fs, Settled(close_stale(f))) /\ AnswerTo("OPEN", f, 0, 0, Zero)
        /\ SetHandle(f, s)
    BY <1>4 DEF OpenFound, Answer
  <2>2. TableType(fs) /\ {t \in DOMAIN fs : fs[t].owner = f} = {s}
    BY <1>1, <1>2, <1>4, OwnsNewSlot
  <2> HIDE DEF fs
  <2>3. /\ DirType(dir') /\ TableType(m_files') /\ data' \in [Inodes -> Contents]
        /\ m_files' = fs
    BY <1>1, <1>2, <2>1, <2>2, HostTypes
  <2>4. /\ fcb' \in [Fcb -> [name : Names, handle : {None} \cup Slots]]
        /\ fcb'[f].handle = s
    BY <1>1, <1>4, <2>1, SetHandleType
  <2>5. TypeOK' /\ res'.op = "OPEN" /\ res'.fcb = f /\ res'.ret = 0
    BY <2>1, <2>3, <2>4, Zeros, AnswerTypes DEF Calls
  <2>6. {t \in Open' : m_files'[t].owner = f} = {s}
    BY <2>2, <2>3 DEF Open
  <2> QED BY <2>4, <2>5, <2>6 DEF FilesStep, OneSlot, Refused, ByName
<1> QED BY <1>3, <1>4

LEMMA MakeStep ==
  ASSUME TypeOK, NEW f \in Fcb, Make(f)
  PROVE  FilesStep
<1> DEFINE kept == Without(m_files, close_stale(f))
           s    == find_open_slot(kept)
           n    == fcb[f].name
<1>1. /\ TableType(kept) /\ DOMAIN kept = Open \ close_stale(f)
      /\ Settled(close_stale(f)) \in [Inodes -> Contents]
      /\ s = None => DOMAIN kept = Slots
      /\ s # None => s \in Slots /\ s \notin Open \ close_stale(f)
  BY StaleFacts
<1>2. DirType(dir) /\ n \in Names
  BY TypeParts DEF DirType
<1>3. CASE s = None
  <2>1. Host(dir, kept, Settled(close_stale(f))) /\ AnswerTo("MAKE", f, 0, 255, Zero) /\ fcb' = fcb
    BY <1>3 DEF Make, Answer
  <2>2. /\ DirType(dir') /\ TableType(m_files') /\ data' \in [Inodes -> Contents]
        /\ m_files' = kept
    BY <1>1, <1>2, <2>1, HostTypes
  <2>3. TypeOK' /\ res'.op = "MAKE" /\ res'.fcb = f /\ res'.ret = 255
    BY <2>1, <2>2, TypeParts, Zeros, AnswerTypes DEF Calls
  <2>4. Open' = Slots
    BY <1>1, <1>3, <2>2 DEF Open
  <2> QED BY <2>3, <2>4 DEF FilesStep, OneSlot, Refused, ByName
<1>4. CASE s # None
  <2>1. PICK i \in Inodes : Host(With(dir, n, i), With(kept, s, NewFile(f, i)),
                                 [Settled(close_stale(f)) EXCEPT ![i] = <<>>])
    BY <1>4 DEF Make
  <2> DEFINE fs == With(kept, s, NewFile(f, i))
             d  == With(dir, n, i)
             dt == [Settled(close_stale(f)) EXCEPT ![i] = <<>>]
  <2>2. AnswerTo("MAKE", f, 0, 0, Zero) /\ SetHandle(f, s)
    BY <1>4 DEF Make, Answer
  <2>3. TableType(fs) /\ {t \in DOMAIN fs : fs[t].owner = f} = {s}
    BY <1>1, <1>4, OwnsNewSlot
  <2>4. DirType(d)
    <3>1. d \in [DOMAIN d -> Inodes]
      BY <1>2, WithType DEF DirType
    <3>2. DOMAIN d = DOMAIN dir \cup {n}
      BY DEF With
    <3> QED BY <1>2, <3>1, <3>2 DEF DirType
  <2>5. dt \in [Inodes -> Contents]
    BY <1>1, EmptyContents
  <2>h. Host(d, fs, dt)
    BY <2>1
  <2> HIDE DEF fs, d, dt
  <2>6. /\ DirType(dir') /\ TableType(m_files') /\ data' \in [Inodes -> Contents]
        /\ m_files' = fs
    BY <2>h, <2>3, <2>4, <2>5, HostTypes
  <2>7. /\ fcb' \in [Fcb -> [name : Names, handle : {None} \cup Slots]]
        /\ fcb'[f].handle = s
    BY <1>1, <1>4, <2>2, SetHandleType
  <2>8. TypeOK' /\ res'.op = "MAKE" /\ res'.fcb = f /\ res'.ret = 0
    BY <2>2, <2>6, <2>7, Zeros, AnswerTypes DEF Calls
  <2>9. {t \in Open' : m_files'[t].owner = f} = {s}
    BY <2>3, <2>6 DEF Open
  <2> QED BY <2>7, <2>8, <2>9 DEF FilesStep, OneSlot, Refused, ByName
<1> QED BY <1>3, <1>4

\* A slot a handle names is open.
LEMMA FindFacts ==
  ASSUME TypeOK, NEW f \in Fcb
  PROVE  /\ find_file_by_fcb(f) # None => find_file_by_fcb(f) \in Open
         /\ {find_file_by_fcb(f)} \ {None} \in SUBSET Open
BY DEF find_file_by_fcb

LEMMA CloseStep ==
  ASSUME TypeOK, NEW f \in Fcb, Close(f)
  PROVE  FilesStep
<1> DEFINE s == find_file_by_fcb(f)
<1>1. CASE s = None
  <2>1. AnswerTo("CLOSE", f, 0, 255, Zero) /\ UNCHANGED <<fcb, m_files, dir, data>>
    BY <1>1 DEF Close, Answer
  <2>2. /\ fcb' \in [Fcb -> [name : Names, handle : {None} \cup Slots]]
        /\ DirType(dir') /\ TableType(m_files') /\ data' \in [Inodes -> Contents]
    BY <2>1, TypeParts DEF DirType, TableType
  <2>3. TypeOK' /\ res'.op = "CLOSE"
    BY <2>1, <2>2, Zeros, AnswerTypes DEF Calls
  <2> QED BY <2>3, QuietStep
<1>2. CASE s # None
  <2>1. /\ Host(dir, Without(m_files, {s}), Settled({s})) /\ SetHandle(f, None)
        /\ AnswerTo("CLOSE", f, 0, 0, Zero)
    BY <1>2 DEF Close, Answer
  <2>2. {s} \in SUBSET Open
    BY <1>2, FindFacts
  <2>3. Settled({s}) \in [Inodes -> Contents]
    BY <2>2, SettledType
  <2>4. TableType(Without(m_files, {s}))
    BY TypeParts, CloseTypes
  <2>5. DirType(dir') /\ TableType(m_files') /\ data' \in [Inodes -> Contents]
    BY <2>1, <2>3, <2>4, TypeParts, HostTypes
  <2>6. fcb' \in [Fcb -> [name : Names, handle : {None} \cup Slots]]
    BY <2>1, SetHandleType
  <2>7. TypeOK' /\ res'.op = "CLOSE"
    BY <2>1, <2>5, <2>6, Zeros, AnswerTypes DEF Calls
  <2> QED BY <2>7, QuietStep
<1> QED BY <1>1, <1>2

LEMMA DeleteStep ==
  ASSUME TypeOK, NEW f \in Fcb, Delete(f)
  PROVE  FilesStep
<1> DEFINE mine == {find_file_by_fcb(f)} \ {None}
           d    == Without(dir, {fcb[f].name})
<1>1. Host(d, Without(m_files, mine), Settled(mine)) /\ fcb' = fcb
  BY DEF Delete
<1>2. PICK ret \in {0, 255} : AnswerTo("DELETE", f, 0, ret, Zero)
  BY DEF Delete, Answer
<1>3. Settled(mine) \in [Inodes -> Contents]
  BY FindFacts, SettledType
<1>4. TableType(Without(m_files, mine))
  BY TypeParts, CloseTypes
<1>5. DirType(d)
  <2>1. d \in [DOMAIN d -> Inodes]
    BY TypeParts, WithoutType DEF DirType
  <2>2. DOMAIN d \subseteq Names
    BY TypeParts DEF DirType, Without
  <2> QED BY <2>1, <2>2 DEF DirType
<1> HIDE DEF mine, d
<1>6. DirType(dir') /\ TableType(m_files') /\ data' \in [Inodes -> Contents]
  BY <1>1, <1>3, <1>4, <1>5, HostTypes
<1>7. TypeOK' /\ res'.op = "DELETE"
  <2>1. fcb' \in [Fcb -> [name : Names, handle : {None} \cup Slots]]
    BY <1>1, TypeParts
  <2> QED BY <1>2, <1>6, <2>1, Zeros, AnswerTypes DEF Calls
<1> QED BY <1>7, QuietStep

LEMMA RenameStep ==
  ASSUME TypeOK, NEW f \in Fcb, NEW new \in Names, Rename(f, new)
  PROVE  FilesStep
<1> DEFINE old == fcb[f].name
           d   == With(Without(dir, {old}), new, dir[old])
<1>1. fcb' \in [Fcb -> [name : Names, handle : {None} \cup Slots]]
  BY SetHandleType DEF Rename
<1>2. PICK ret \in {0, 255} : AnswerTo("RENAME", f, new, ret, Zero)
  BY DEF Rename
<1>3. DirType(dir') /\ TableType(m_files') /\ data' \in [Inodes -> Contents]
  <2>1. CASE old \in DOMAIN dir
    <3>1. Host(d, m_files, data)
      BY <2>1 DEF Rename
    <3>2. dir[old] \in Inodes /\ DirType(dir)
      BY <2>1, TypeParts DEF DirType
    <3>3. Without(dir, {old}) \in [DOMAIN Without(dir, {old}) -> Inodes]
      BY <3>2, WithoutType DEF DirType
    <3>4. d \in [DOMAIN d -> Inodes]
      <4> DEFINE w == Without(dir, {old})
                 i == dir[old]
      <4>1. w \in [DOMAIN w -> Inodes] /\ i \in Inodes
        BY <3>2, <3>3
      <4> HIDE DEF w, i
      <4>2. With(w, new, i) \in [DOMAIN With(w, new, i) -> Inodes]
        BY <4>1, WithType
      <4> QED BY <4>2 DEF w, i
    <3>5. DOMAIN d \subseteq Names
      BY <3>2 DEF DirType, With, Without
    <3>6. DirType(d)
      BY <3>4, <3>5 DEF DirType
    <3> HIDE DEF d
    <3> QED BY <3>1, <3>6, TypeParts, HostTypes
  <2>2. CASE old \notin DOMAIN dir
    BY <2>2, TypeParts DEF Rename, DirType, TableType
  <2> QED BY <2>1, <2>2
<1>4. TypeOK' /\ res'.op = "RENAME"
  BY <1>1, <1>2, <1>3, Zeros, AnswerTypes DEF Calls
<1> QED BY <1>4, QuietStep

\* What ensure_open() finds, what it closes and what it opens.
LEMMA EnsureFacts ==
  ASSUME TypeOK, NEW f \in Fcb
  PROVE  /\ Displaced(f) \in SUBSET Open
         /\ TableType(Without(m_files, Displaced(f)))
         /\ DOMAIN Without(m_files, Displaced(f)) = Open \ Displaced(f)
         /\ Matching(f) => /\ ensure_open(f) = find_file_by_fcb(f)
                           /\ ensure_open(f) \in Open /\ Displaced(f) = {}
         /\ ensure_open(f) = None =>
              ~ Matching(f) /\ (fcb[f].name \notin DOMAIN dir \/ Open \ Displaced(f) = Slots)
         /\ ensure_open(f) # None =>
              /\ ensure_open(f) \in Slots
              /\ Opened(f) \in OpenFile /\ Opened(f).host_path = fcb[f].name
              /\ ~ Matching(f) => /\ fcb[f].name \in DOMAIN dir
                                  /\ ensure_open(f) \notin Open \ Displaced(f)
<1> DEFINE kept == Without(m_files, Displaced(f))
<1>1. Displaced(f) \in SUBSET Open
  BY FindFacts DEF Displaced
<1>2. TableType(kept) /\ DOMAIN kept = Open \ Displaced(f)
  BY TypeParts, CloseTypes DEF Open
<1>3. CASE Matching(f)
  <2>1. ensure_open(f) = find_file_by_fcb(f) /\ Displaced(f) = {}
    BY <1>3 DEF ensure_open, Displaced
  <2>2. find_file_by_fcb(f) \in Open /\ find_file_by_fcb(f) # None
    BY <1>3, FindFacts DEF Matching
  <2>3. Opened(f) = m_files[find_file_by_fcb(f)] /\ Opened(f).host_path = fcb[f].name
    BY <1>3 DEF Opened, Matching
  <2>4. Opened(f) \in OpenFile /\ find_file_by_fcb(f) \in Slots
    BY <2>2, <2>3 DEF TypeOK
  <2> QED BY <1>1, <1>2, <1>3, <2>1, <2>2, <2>3, <2>4
<1>4. CASE ~ Matching(f) /\ fcb[f].name \notin DOMAIN dir
  BY <1>1, <1>2, <1>4 DEF ensure_open
<1>5. CASE ~ Matching(f) /\ fcb[f].name \in DOMAIN dir
  <2>1. ensure_open(f) = find_open_slot(kept)
    BY <1>5 DEF ensure_open
  <2>2. Opened(f) = NewFile(f, dir[fcb[f].name])
    BY <1>5 DEF Opened
  <2>3. dir[fcb[f].name] \in Inodes
    BY <1>5 DEF TypeOK
  <2>4. Opened(f) \in OpenFile /\ Opened(f).host_path = fcb[f].name
    BY <2>2, <2>3, NewFileType DEF NewFile
  <2>5. DOMAIN kept \subseteq Slots
    BY <1>2 DEF TableType
  <2> HIDE DEF kept
  <2>6. \/ DOMAIN kept = Slots /\ find_open_slot(kept) = None
        \/ find_open_slot(kept) \in Slots \ DOMAIN kept /\ find_open_slot(kept) # None
    BY <2>5, FreeSlot
  <2>7. \/ Open \ Displaced(f) = Slots /\ ensure_open(f) = None
        \/ ensure_open(f) \in Slots \ (Open \ Displaced(f)) /\ ensure_open(f) # None
    BY <1>2, <2>1, <2>6
  <2> QED BY <1>1, <1>2, <1>5, <2>4, <2>7 DEF kept
<1> QED BY <1>3, <1>4, <1>5

\* A call ensure_open() fails.
LEMMA NotOpenedStep ==
  ASSUME TypeOK, NEW f \in Fcb, NEW op \in {"READ", "WRITE"}, NEW r \in Recs, NotOpened(f, op, r)
  PROVE  FilesStep
<1> DEFINE kept == Without(m_files, Displaced(f))
<1>1. /\ Host(dir, kept, Settled(Displaced(f))) /\ AnswerTo(op, f, r, 255, Zero) /\ fcb' = fcb
      /\ ensure_open(f) = None
  BY DEF NotOpened
<1>2. /\ Displaced(f) \in SUBSET Open /\ TableType(kept) /\ DOMAIN kept = Open \ Displaced(f)
      /\ fcb[f].name \notin DOMAIN dir \/ Open \ Displaced(f) = Slots
  BY <1>1, EnsureFacts
<1>3. Settled(Displaced(f)) \in [Inodes -> Contents]
  BY <1>2, SettledType
<1> HIDE DEF kept
<1>4. /\ DirType(dir') /\ TableType(m_files') /\ data' \in [Inodes -> Contents]
      /\ m_files' = kept
  BY <1>1, <1>2, <1>3, TypeParts, HostTypes
<1>5. TypeOK' /\ res'.op = op /\ res'.fcb = f /\ res'.ret = 255
  <2>1. op \in Calls /\ r \in Names \cup Recs /\ Zero \in Val \cup (0 .. MaxRec + 1)
    BY Zeros DEF Calls
  <2> QED BY <1>1, <1>4, <2>1, TypeParts, AnswerTypes
<1>6. fcb[f].name \notin DOMAIN dir \/ Open' = Slots
  BY <1>2, <1>4 DEF Open
<1> QED BY <1>5, <1>6 DEF FilesStep, OneSlot, Refused, ByName

\* A transfer through slot s, and the FILE it leaves there.
LEMMA TransferStep ==
  ASSUME TypeOK, NEW f \in Fcb, NEW op \in {"READ", "WRITE"}, NEW r \in Recs,
         ensure_open(f) # None,
         NEW file \in OpenFile, file.host_path = fcb[f].name,
         NEW C \in SUBSET Open,
         Host(dir, With(Without(m_files, Displaced(f)), ensure_open(f), file), Settled(C)),
         SetHandle(f, ensure_open(f)),
         NEW ret \in {0, 1}, NEW val \in Val, AnswerTo(op, f, r, ret, val)
  PROVE  FilesStep
<1> DEFINE kept == Without(m_files, Displaced(f))
           s    == ensure_open(f)
           fs   == With(kept, s, file)
<1>1. TableType(kept) /\ s \in Slots
  BY EnsureFacts
<1> HIDE DEF kept, s
<1>2. TableType(fs) /\ s \in DOMAIN fs /\ fs[s] = file
  <2>1. TableType(fs) /\ DOMAIN fs = DOMAIN kept \cup {s}
    BY <1>1, OpenTypes
  <2>2. fs[s] = file
    BY DEF With
  <2> QED BY <2>1, <2>2
<1>3. Settled(C) \in [Inodes -> Contents]
  BY SettledType
<1>4. Host(dir, fs, Settled(C))
  BY DEF kept, s
<1> HIDE DEF fs
<1>5. /\ DirType(dir') /\ TableType(m_files') /\ data' \in [Inodes -> Contents]
      /\ m_files' = fs
  BY <1>2, <1>3, <1>4, TypeParts, HostTypes
<1>6. /\ fcb' \in [Fcb -> [name : Names, handle : {None} \cup Slots]]
      /\ fcb'[f].handle = s
  BY <1>1, SetHandleType DEF s
<1>7. TypeOK' /\ res'.op = op /\ res'.fcb = f /\ res'.ret = ret
  <2>1. op \in Calls /\ r \in Names \cup Recs /\ val \in Val \cup (0 .. MaxRec + 1)
    BY DEF Calls
  <2>2. ret \in {0, 1, 255}
    OBVIOUS
  <2> QED BY <1>5, <1>6, <2>1, <2>2, AnswerTypes
<1>8. s \in Open' /\ m_files'[s].host_path = fcb[f].name
  BY <1>2, <1>5 DEF Open
<1> QED BY <1>6, <1>7, <1>8 DEF FilesStep, OneSlot, Refused, ByName

LEMMA ReadStep ==
  ASSUME TypeOK, NEW f \in Fcb, NEW r \in Recs, Read(f, r)
  PROVE  FilesStep
<1>1. CASE NotOpened(f, "READ", r)
  BY <1>1, NotOpenedStep
<1>2. CASE ~ NotOpened(f, "READ", r)
  <2> DEFINE s     == ensure_open(f)
             file  == Opened(f)
             C     == IF Matching(f) THEN {s} ELSE Displaced(f)
             after == Settled(C)
  <2>1. ensure_open(f) # None
    BY <1>2 DEF Read
  <2>2. PICK from \in {after[file.file]} \cup (IF r < Len(file.seen) THEN {file.seen} ELSE {}) :
          /\ Host(dir, With(Without(m_files, Displaced(f)), s,
                            [file EXCEPT !.pend = {}, !.seen = from]), after)
          /\ SetHandle(f, s)
          /\ IF r < Len(from) THEN AnswerTo("READ", f, r, 0, from[r + 1])
                              ELSE AnswerTo("READ", f, r, 1, Zero)
    BY <1>2 DEF Read
  <2>3. C \in SUBSET Open /\ file \in OpenFile /\ file.host_path = fcb[f].name
    BY <2>1, EnsureFacts
  <2>4. after[file.file] \in Contents
    BY <2>3, SettledFacts DEF OpenFile
  <2>5. from \in Contents
    BY <2>2, <2>3, <2>4 DEF OpenFile
  <2> DEFINE left == [file EXCEPT !.pend = {}, !.seen = from]
  <2> HIDE DEF file
  <2>6. left \in OpenFile /\ left.host_path = fcb[f].name
    BY <2>3, <2>5 DEF OpenFile
  <2>7. PICK ret \in {0, 1}, val \in Val : AnswerTo("READ", f, r, ret, val)
    <3>1. CASE r < Len(from)
      <4>1. r + 1 \in 1 .. Len(from)
        BY <2>5, <3>1, ContentsFacts, TableAssumption DEF Recs
      <4>2. from[r + 1] \in Val
        BY <2>5, <4>1, ContentsFacts
      <4> QED BY <2>2, <3>1, <4>2
    <3>2. CASE ~ (r < Len(from))
      BY <2>2, <3>2, ContentsAssumption
    <3> QED BY <3>1, <3>2
  <2>8. /\ Host(dir, With(Without(m_files, Displaced(f)), ensure_open(f), left), Settled(C))
        /\ SetHandle(f, ensure_open(f))
    BY <2>2
  <2> HIDE DEF left, C
  <2> QED BY <2>1, <2>3, <2>6, <2>7, <2>8, TransferStep
<1> QED BY <1>1, <1>2

LEMMA WriteStep ==
  ASSUME TypeOK, NEW f \in Fcb, NEW r \in Recs, NEW v \in Val, Write(f, r, v)
  PROVE  FilesStep
<1>1. CASE NotOpened(f, "WRITE", r)
  BY <1>1, NotOpenedStep
<1>2. CASE ~ NotOpened(f, "WRITE", r)
  <2> DEFINE file == Opened(f)
             C    == IF Matching(f) THEN {ensure_open(f)} ELSE Displaced(f)
             left == [file EXCEPT !.pend = {[rec |-> r, val |-> v]}, !.seen = <<>>]
  <2>1. ensure_open(f) # None
    BY <1>2 DEF Write
  <2>2. /\ Host(dir, With(Without(m_files, Displaced(f)), ensure_open(f), left), Settled(C))
        /\ SetHandle(f, ensure_open(f)) /\ AnswerTo("WRITE", f, r, 0, v)
    BY <1>2 DEF Write
  <2>3. C \in SUBSET Open /\ file \in OpenFile /\ file.host_path = fcb[f].name
    BY <2>1, EnsureFacts
  <2> HIDE DEF file
  <2>4. {[rec |-> r, val |-> v]} \in SUBSET [rec : Recs, val : Val]
    OBVIOUS
  <2>5. left \in OpenFile /\ left.host_path = fcb[f].name
    BY <2>3, <2>4, EmptyContents DEF OpenFile
  <2> HIDE DEF left, C
  <2> QED BY <2>1, <2>2, <2>3, <2>5, TransferStep
<1> QED BY <1>1, <1>2

LEMMA NextStep ==
  ASSUME TypeOK, Next
  PROVE  FilesStep
<1>1. CASE \E f \in Fcb, n \in Names : NewFcb(f, n) \/ Rename(f, n)
  BY <1>1, GuestStep, RenameStep
<1>2. CASE \E f, g \in Fcb : CopyFcb(f, g)
  <2>1. PICK f \in Fcb, g \in Fcb : CopyFcb(f, g)
    BY <1>2
  <2>2. fcb[f].name \in Names
    BY DEF TypeOK
  <2> QED BY <2>1, <2>2, GuestStep
<1>3. CASE \E f \in Fcb : OpenMissing(f) \/ OpenFound(f) \/ Close(f) \/ Delete(f) \/ Make(f) \/ Size(f)
  BY <1>3, OpenMissingStep, OpenFoundStep, CloseStep, DeleteStep, MakeStep, SizeStep
<1>4. CASE \E f \in Fcb, r \in Recs : Read(f, r) \/ \E v \in Val : Write(f, r, v)
  BY <1>4, ReadStep, WriteStep
<1>5. CASE WarmBoot
  BY <1>5, WarmBootStep
<1> QED BY <1>1, <1>2, <1>3, <1>4, <1>5 DEF Next

\* Every state has its type.
THEOREM FilesTypes == Spec => []TypeOK
<1>1. Init => TypeOK
  <2> SUFFICES ASSUME Init PROVE TypeOK
    OBVIOUS
  <2>1. fcb \in [Fcb -> [name : Names, handle : {None} \cup Slots]]
    BY DEF Init
  <2>2. data \in [Inodes -> Contents]
    BY EmptyContents DEF Init
  <2>3. res \in [op : Calls, fcb : Fcb, arg : Names \cup Recs, ret : {0, 1, 255},
                 val : Val \cup (0 .. MaxRec + 1)]
    BY Zeros DEF Init, Calls
  <2>4. m_files = <<>> /\ dir = <<>> /\ DOMAIN m_files = {} /\ DOMAIN dir = {}
    BY DEF Init
  <2> QED BY <2>1, <2>2, <2>3, <2>4 DEF TypeOK, Open
<1>2. TypeOK /\ [Next]_vars => TypeOK'
  <2> SUFFICES ASSUME TypeOK, [Next]_vars PROVE TypeOK'
    OBVIOUS
  <2>1. CASE Next
    BY <2>1, NextStep DEF FilesStep
  <2>2. CASE UNCHANGED vars
    BY <2>2 DEF vars, TypeOK, Open
  <2> QED BY <2>1, <2>2
<1> QED BY <1>1, <1>2, PTL DEF Spec

\* An FCB that opened a file, or made one, owns one slot of the table, the one its
\* handle names, however its handles were copied, rebuilt or forgotten before.
THEOREM OneSlotEach == Spec => OpenOwnsOneSlot
<1>1. TypeOK /\ [Next]_vars => [OneSlot]_vars
  BY NextStep DEF FilesStep
<1> QED BY <1>1, FilesTypes, PTL DEF Spec, OpenOwnsOneSlot, OneSlot

\* A call on a file that exists is refused only when every slot is in use.
THEOREM RefusalsAreFair == Spec => RefusedOnlyWhenFull
<1>1. TypeOK /\ [Next]_vars => [Refused]_vars
  BY NextStep DEF FilesStep
<1> QED BY <1>1, FilesTypes, PTL DEF Spec, RefusedOnlyWhenFull, Refused

\* A transfer goes through a slot opened under the path the FCB names.
THEOREM TransfersByName == Spec => TransfersGoByName
<1>1. TypeOK /\ [Next]_vars => [ByName]_vars
  BY NextStep DEF FilesStep
<1> QED BY <1>1, FilesTypes, PTL DEF Spec, TransfersGoByName, ByName

-----------------------------------------------------------------------------
(***************************************************************************)
(* Programs that keep to one FCB per open file.  Then a path is open in    *)
(* one slot at most, the slot's FILE is the one the directory has under    *)
(* that path, and its buffer is the truth about the file: what it read is  *)
(* what the host has, and what it wrote lies over that.                    *)
(***************************************************************************)
Aligned(d, fs, dt) ==
  /\ DirType(d) /\ TableType(fs) /\ dt \in [Inodes -> Contents]
  /\ \A s, t \in DOMAIN fs : fs[s].host_path = fs[t].host_path => s = t
  /\ \A s \in DOMAIN fs : fs[s].host_path \in DOMAIN d /\ d[fs[s].host_path] = fs[s].file
  /\ \A m, n \in DOMAIN d : d[m] = d[n] => m = n
  /\ \A s \in DOMAIN fs : fs[s].pend = {} \/ \E p \in fs[s].pend : fs[s].pend = {p}
  /\ \A s \in DOMAIN fs :
       fs[s].seen = <<>> \/ (fs[s].pend = {} /\ fs[s].seen = dt[fs[s].file])

\* The records of a file c under what a buffer holds, and the records of every path.
Overlay(c, pend) == IF pend = {} THEN c
                    ELSE LET p == CHOOSE p \in pend : TRUE IN Table!Written(c, p.rec, p.val)
PendOf(fs, n) == UNION {fs[s].pend : s \in {t \in DOMAIN fs : fs[t].host_path = n}}
Files(d, fs, dt) == [n \in DOMAIN d |-> Overlay(dt[d[n]], PendOf(fs, n))]

\* Settled of any table and contents, not of the current ones only.
Holds(fs, C, i, r) == {s \in C : fs[s].file = i /\ \E p \in fs[s].pend : p.rec = r}
Laid(fs, dt, C) ==
  [i \in Inodes |->
     [k \in 1 .. Greatest({Len(dt[i])} \cup {r + 1 : r \in {x \in Recs : Holds(fs, C, i, x) # {}}}) |->
        IF Holds(fs, C, i, k - 1) # {}
        THEN (CHOOSE p \in fs[Greatest(Holds(fs, C, i, k - 1))].pend : TRUE).val
        ELSE IF k <= Len(dt[i]) THEN dt[i][k] ELSE Zero]]

LEMMA SettledIsLaid ==
  /\ \A C : Settled(C) = Laid(m_files, data, C)
  /\ Settled(Open)' = Laid(m_files', data', DOMAIN m_files')
BY DEF Settled, Laid, Holding, Holds, Open

\* A file no slot holds a record of is on the host as it is.
LEMMA LaidQuiet ==
  ASSUME NEW fs, NEW dt, NEW C, NEW i \in Inodes, dt[i] \in Contents,
         \A x : Holds(fs, C, i, x) = {}
  PROVE  Laid(fs, dt, C)[i] = dt[i]
<1> DEFINE c    == dt[i]
           ends == {Len(c)} \cup {r + 1 : r \in {x \in Recs : Holds(fs, C, i, x) # {}}}
<1>1. Len(c) \in 0 .. MaxRec + 1 /\ c = [k \in 1 .. Len(c) |-> c[k]] /\ MaxRec + 1 \in Nat
  <2>1. c \in Contents /\ MaxRec + 1 \in Nat
    BY TableAssumption
  <2> HIDE DEF c
  <2> QED BY <2>1, ContentsFacts
<1>2. ends = {Len(c)}
  OBVIOUS
<1>3. Greatest({Len(c)}) = Len(c)
  <2>1. {Len(c)} \in SUBSET (0 .. MaxRec + 1) /\ {Len(c)} # {}
    BY <1>1
  <2> QED BY <1>1, <2>1, GreatestOf
<1>4. Greatest(ends) = Len(c)
  BY <1>2, <1>3
<1>5. Laid(fs, dt, C)[i] = [k \in 1 .. Greatest(ends) |-> IF k <= Len(c) THEN c[k] ELSE Zero]
  BY DEF Laid
<1> HIDE DEF ends, c
<1>6. [k \in 1 .. Len(c) |-> IF k <= Len(c) THEN c[k] ELSE Zero] = [k \in 1 .. Len(c) |-> c[k]]
  BY <1>1
<1> QED BY <1>1, <1>4, <1>5, <1>6 DEF c

\* A file one slot holds one record of.
LEMMA LaidOne ==
  ASSUME NEW fs, NEW dt, NEW C, NEW i \in Inodes, dt[i] \in Contents,
         NEW s \in Slots, NEW p \in [rec : Recs, val : Val], fs[s].pend = {p},
         \A x : Holds(fs, C, i, x) = IF x = p.rec THEN {s} ELSE {}
  PROVE  Laid(fs, dt, C)[i] = Table!Written(dt[i], p.rec, p.val)
<1> DEFINE c    == dt[i]
           r0   == p.rec
           ends == {Len(c)} \cup {r + 1 : r \in {x \in Recs : Holds(fs, C, i, x) # {}}}
           top  == IF r0 < Len(c) THEN Len(c) ELSE r0 + 1
<1>1. Len(c) \in 0 .. MaxRec + 1 /\ MaxRec + 1 \in Nat /\ r0 \in 0 .. MaxRec /\ MaxRec \in Nat
  BY ContentsFacts, TableAssumption DEF Recs
<1>2. ends = {Len(c), r0 + 1}
  <2>1. {x \in Recs : Holds(fs, C, i, x) # {}} = {r0}
    OBVIOUS
  <2> QED BY <2>1
<1>3. Greatest({Len(c), r0 + 1}) = top
  <2>1. {Len(c), r0 + 1} \in SUBSET (0 .. MaxRec + 1) /\ {Len(c), r0 + 1} # {}
    BY <1>1
  <2>2. /\ Greatest({Len(c), r0 + 1}) \in {Len(c), r0 + 1}
        /\ \A t \in {Len(c), r0 + 1} : t <= Greatest({Len(c), r0 + 1})
    BY <1>1, <2>1, GreatestOf
  <2> HIDE DEF c, r0
  <2> QED BY <1>1, <2>2
<1>4. Greatest({s}) = s
  <2>1. {s} \in SUBSET (0 .. MAX_OPEN_FILES) /\ {s} # {} /\ MAX_OPEN_FILES \in Nat
    BY TableAssumption DEF Slots
  <2> QED BY <2>1, GreatestOf
<1>5. (CHOOSE q \in fs[Greatest({s})].pend : TRUE) = p
  BY <1>4
<1> DEFINE at(k) == IF Holds(fs, C, i, k - 1) # {}
                    THEN (CHOOSE q \in fs[Greatest(Holds(fs, C, i, k - 1))].pend : TRUE).val
                    ELSE IF k <= Len(c) THEN c[k] ELSE Zero
<1>6. Laid(fs, dt, C)[i] = [k \in 1 .. Greatest(ends) |-> at(k)]
  BY DEF Laid
<1>7. Greatest(ends) = top
  BY <1>2, <1>3
<1>8. \A k \in 1 .. top : at(k) = IF k = r0 + 1 THEN p.val ELSE IF k <= Len(c) THEN c[k] ELSE Zero
  <2> TAKE k \in 1 .. top
  <2>1. k \in Int /\ r0 \in Int
    BY <1>1
  <2>2. CASE k = r0 + 1
    <3>1. k - 1 = p.rec
      BY <2>1, <2>2
    <3> DEFINE H == Holds(fs, C, i, k - 1)
    <3>2. H = {s}
      BY <3>1
    <3> HIDE DEF H
    <3>3. fs[Greatest(H)].pend = {p}
      BY <1>4, <3>2
    <3>4. (CHOOSE q \in fs[Greatest(H)].pend : TRUE) = p
      BY <3>3
    <3>5. at(k) = p.val
      BY <3>2, <3>4 DEF H
    <3> QED BY <2>2, <3>5
  <2>3. CASE k # r0 + 1
    <3>1. k - 1 # p.rec
      BY <2>1, <2>3
    <3>2. Holds(fs, C, i, k - 1) = {}
      BY <3>1
    <3> QED BY <2>3, <3>2
  <2> QED BY <2>2, <2>3
<1> HIDE DEF ends, at
<1>9. [k \in 1 .. top |-> at(k)]
        = [k \in 1 .. top |-> IF k = r0 + 1 THEN p.val ELSE IF k <= Len(c) THEN c[k] ELSE Zero]
  BY <1>8
<1>10. Table!Written(c, r0, p.val)
         = [k \in 1 .. top |-> IF k = r0 + 1 THEN p.val ELSE IF k <= Len(c) THEN c[k] ELSE Zero]
  BY DEF Table!Written
<1> QED BY <1>6, <1>7, <1>9, <1>10

LEMMA OverlayOf ==
  ASSUME NEW c
  PROVE  /\ Overlay(c, {}) = c
         /\ \A p : Overlay(c, {p}) = Table!Written(c, p.rec, p.val)
BY DEF Overlay

\* What slots C leave when they write their buffers out, path by path.
LEMMA LaidAt ==
  ASSUME NEW d, NEW fs, NEW dt, Aligned(d, fs, dt), NEW C \in SUBSET DOMAIN fs, NEW n \in DOMAIN d
  PROVE  /\ (\A s \in C : fs[s].host_path # n) => Laid(fs, dt, C)[d[n]] = dt[d[n]]
         /\ \A s \in C : fs[s].host_path = n =>
              Laid(fs, dt, C)[d[n]] = Overlay(dt[d[n]], fs[s].pend)
<1> DEFINE i == d[n]
<1>1. i \in Inodes /\ dt[i] \in Contents
  BY DEF Aligned, DirType
<1>2. \A t \in C : fs[t].file = i => fs[t].host_path = n
  BY DEF Aligned
<1>3. ASSUME \A t \in C : fs[t].host_path # n PROVE Laid(fs, dt, C)[i] = dt[i]
  <2>1. \A x : Holds(fs, C, i, x) = {}
    BY <1>2, <1>3 DEF Holds
  <2> HIDE DEF i
  <2> QED BY <1>1, <2>1, LaidQuiet
<1>4. ASSUME NEW s \in C, fs[s].host_path = n
      PROVE  Laid(fs, dt, C)[i] = Overlay(dt[i], fs[s].pend)
  <2>1. \A t \in C : fs[t].file = i => t = s
    BY <1>2, <1>4 DEF Aligned
  <2>2. fs[s].file = i /\ s \in Slots
    BY <1>4 DEF Aligned, TableType
  <2>3. fs[s].pend = {} \/ \E p \in fs[s].pend : fs[s].pend = {p}
    BY <1>4 DEF Aligned
  <2>4. CASE fs[s].pend = {}
    <3>1. \A x : Holds(fs, C, i, x) = {}
      BY <2>1, <2>4 DEF Holds
    <3>2. Overlay(dt[i], fs[s].pend) = dt[i]
      BY <2>4, OverlayOf
    <3> HIDE DEF i
    <3> QED BY <1>1, <3>1, <3>2, LaidQuiet
  <2>5. CASE \E p \in fs[s].pend : fs[s].pend = {p}
    <3>1. PICK p \in fs[s].pend : fs[s].pend = {p}
      BY <2>5
    <3>2. fs[s].pend \in SUBSET [rec : Recs, val : Val]
      BY <1>4 DEF Aligned, TableType, OpenFile
    <3>3. p \in [rec : Recs, val : Val]
      BY <3>1, <3>2
    <3>4. \A x : Holds(fs, C, i, x) = IF x = p.rec THEN {s} ELSE {}
      BY <1>4, <2>1, <2>2, <3>1 DEF Holds
    <3>5. Overlay(dt[i], fs[s].pend) = Table!Written(dt[i], p.rec, p.val)
      BY <3>1, OverlayOf
    <3> HIDE DEF i
    <3> QED BY <1>1, <2>2, <3>1, <3>3, <3>4, <3>5, LaidOne
  <2> QED BY <2>3, <2>4, <2>5
<1> QED BY <1>3, <1>4

LEMMA PendAt ==
  ASSUME NEW fs, NEW n
  PROVE  /\ (\A s \in DOMAIN fs : fs[s].host_path # n) => PendOf(fs, n) = {}
         /\ \A s \in DOMAIN fs :
              fs[s].host_path = n /\ (\A t \in DOMAIN fs : fs[t].host_path = n => t = s)
                => PendOf(fs, n) = fs[s].pend
<1>1. ASSUME \A s \in DOMAIN fs : fs[s].host_path # n PROVE PendOf(fs, n) = {}
  <2>1. {t \in DOMAIN fs : fs[t].host_path = n} = {}
    BY <1>1
  <2> QED BY <2>1 DEF PendOf
<1>2. ASSUME NEW s \in DOMAIN fs, fs[s].host_path = n, \A t \in DOMAIN fs : fs[t].host_path = n => t = s
      PROVE  PendOf(fs, n) = fs[s].pend
  <2>1. {t \in DOMAIN fs : fs[t].host_path = n} = {s}
    BY <1>2
  <2> QED BY <2>1 DEF PendOf
<1> QED BY <1>1, <1>2

\* The records the paths lead to: those on the host, under the buffer of the slot
\* that has the path open.
LEMMA FilesAt ==
  ASSUME NEW d, NEW fs, NEW dt, Aligned(d, fs, dt), NEW n \in DOMAIN d
  PROVE  /\ (\A s \in DOMAIN fs : fs[s].host_path # n) => Files(d, fs, dt)[n] = dt[d[n]]
         /\ \A s \in DOMAIN fs : fs[s].host_path = n =>
              Files(d, fs, dt)[n] = Overlay(dt[d[n]], fs[s].pend)
<1>1. Files(d, fs, dt)[n] = Overlay(dt[d[n]], PendOf(fs, n))
  BY DEF Files
<1>2. ASSUME \A s \in DOMAIN fs : fs[s].host_path # n PROVE Files(d, fs, dt)[n] = dt[d[n]]
  <2>1. PendOf(fs, n) = {}
    BY <1>2, PendAt
  <2> QED BY <1>1, <2>1, OverlayOf
<1>3. ASSUME NEW s \in DOMAIN fs, fs[s].host_path = n
      PROVE  Files(d, fs, dt)[n] = Overlay(dt[d[n]], fs[s].pend)
  <2>1. \A t \in DOMAIN fs : fs[t].host_path = n => t = s
    BY <1>3 DEF Aligned
  <2>2. PendOf(fs, n) = fs[s].pend
    BY <1>3, <2>1, PendAt
  <2> QED BY <1>1, <2>2
<1> QED BY <1>2, <1>3

\* They are what FcbFiles calls content.
LEMMA FilesAreLaid ==
  ASSUME NEW d, NEW fs, NEW dt, Aligned(d, fs, dt)
  PROVE  [n \in DOMAIN d |-> Laid(fs, dt, DOMAIN fs)[d[n]]] = Files(d, fs, dt)
<1>1. ASSUME NEW n \in DOMAIN d PROVE Laid(fs, dt, DOMAIN fs)[d[n]] = Files(d, fs, dt)[n]
  <2>1. DOMAIN fs \in SUBSET DOMAIN fs
    OBVIOUS
  <2>2. CASE \A s \in DOMAIN fs : fs[s].host_path # n
    BY <2>1, <2>2, LaidAt, FilesAt
  <2>3. CASE \E s \in DOMAIN fs : fs[s].host_path = n
    BY <2>1, <2>3, LaidAt, FilesAt
  <2> QED BY <2>2, <2>3
<1>2. Files(d, fs, dt) = [n \in DOMAIN d |-> Files(d, fs, dt)[n]]
  BY DEF Files
<1> QED BY <1>1, <1>2

-----------------------------------------------------------------------------
(***************************************************************************)
(* The moves the calls are made of, and what each does to the paths'       *)
(* records: closing slots and letting go of files nothing leads to leave   *)
(* them alone; the others change one path.                                 *)
(***************************************************************************)
LEMMA CloseKeeps ==
  ASSUME TypeOK, Aligned(dir, m_files, data), NEW C \in SUBSET Open
  PROVE  /\ Aligned(dir, Without(m_files, C), Settled(C))
         /\ Files(dir, Without(m_files, C), Settled(C)) = Files(dir, m_files, data)
<1> DEFINE kept == Without(m_files, C)
           dt   == Settled(C)
<1>1. /\ TableType(kept) /\ DOMAIN kept = Open \ C /\ dt \in [Inodes -> Contents]
      /\ \A s \in Open \ C : kept[s] = m_files[s]
  BY TypeParts, CloseTypes, SettledType, WithoutFacts DEF Open
<1>2. ASSUME NEW n \in DOMAIN dir
      PROVE  /\ (\A s \in C : m_files[s].host_path # n) => dt[dir[n]] = data[dir[n]]
             /\ \A s \in C : m_files[s].host_path = n =>
                  dt[dir[n]] = Overlay(data[dir[n]], m_files[s].pend)
  BY SettledIsLaid, LaidAt DEF Open
<1> HIDE DEF kept, dt
<1>3. ASSUME NEW s \in Open \ C PROVE dt[m_files[s].file] = data[m_files[s].file]
  <2>1. /\ m_files[s].host_path \in DOMAIN dir
        /\ dir[m_files[s].host_path] = m_files[s].file
        /\ \A t \in C : m_files[t].host_path # m_files[s].host_path
    BY DEF Aligned, Open
  <2> QED BY <1>2, <2>1
<1>4. Aligned(dir, kept, dt)
  <2>1. DirType(dir)
    BY DEF Aligned
  <2>2. \A s, t \in DOMAIN kept : kept[s].host_path = kept[t].host_path => s = t
    BY <1>1 DEF Aligned, Open
  <2>3. \A s \in DOMAIN kept : kept[s].host_path \in DOMAIN dir /\ dir[kept[s].host_path] = kept[s].file
    BY <1>1 DEF Aligned, Open
  <2>4. \A m, n \in DOMAIN dir : dir[m] = dir[n] => m = n
    BY DEF Aligned
  <2>5. \A s \in DOMAIN kept : kept[s].pend = {} \/ \E p \in kept[s].pend : kept[s].pend = {p}
    BY <1>1 DEF Aligned, Open
  <2>6. \A s \in DOMAIN kept :
          kept[s].seen = <<>> \/ (kept[s].pend = {} /\ kept[s].seen = dt[kept[s].file])
    BY <1>1, <1>3 DEF Aligned, Open
  <2> QED BY <1>1, <2>1, <2>2, <2>3, <2>4, <2>5, <2>6 DEF Aligned
<1>5. ASSUME NEW n \in DOMAIN dir PROVE Files(dir, kept, dt)[n] = Files(dir, m_files, data)[n]
  <2>1. CASE \A s \in Open : m_files[s].host_path # n
    <3>1. \A s \in DOMAIN kept : kept[s].host_path # n
      BY <1>1, <2>1
    <3>2. dt[dir[n]] = data[dir[n]]
      BY <1>2, <2>1
    <3> QED BY <1>4, <2>1, <3>1, <3>2, FilesAt DEF Open
  <2>2. ASSUME NEW s \in C, m_files[s].host_path = n
        PROVE  Files(dir, kept, dt)[n] = Files(dir, m_files, data)[n]
    <3>1. \A t \in DOMAIN kept : kept[t].host_path # n
      BY <1>1, <2>2 DEF Aligned, Open
    <3>2. Files(dir, kept, dt)[n] = dt[dir[n]]
      BY <1>4, <3>1, FilesAt
    <3>3. Files(dir, m_files, data)[n] = Overlay(data[dir[n]], m_files[s].pend)
      BY <2>2, FilesAt DEF Open
    <3> QED BY <1>2, <2>2, <3>2, <3>3
  <2>3. ASSUME NEW s \in Open \ C, m_files[s].host_path = n
        PROVE  Files(dir, kept, dt)[n] = Files(dir, m_files, data)[n]
    <3>1. \A t \in C : m_files[t].host_path # n
      BY <2>3 DEF Aligned, Open
    <3>2. dt[dir[n]] = data[dir[n]]
      BY <1>2, <3>1
    <3>3. Files(dir, kept, dt)[n] = Overlay(dt[dir[n]], kept[s].pend)
      BY <1>1, <1>4, <2>3, FilesAt
    <3>4. Files(dir, m_files, data)[n] = Overlay(data[dir[n]], m_files[s].pend)
      BY <2>3, FilesAt DEF Open
    <3> QED BY <1>1, <3>2, <3>3, <3>4
  <2> QED BY <2>1, <2>2, <2>3
<1>6. Files(dir, kept, dt) = Files(dir, m_files, data)
  BY <1>5 DEF Files
<1> QED BY <1>4, <1>6 DEF kept, dt

\* The host keeps the files something leads to.
LEMMA HostKeeps ==
  ASSUME NEW d, NEW fs, NEW dt, Aligned(d, fs, dt), Host(d, fs, dt)
  PROVE  /\ Aligned(dir', m_files', data')
         /\ Files(dir', m_files', data') = Files(d, fs, dt)
<1>1. dir' = d /\ m_files' = fs /\ data' = [i \in Inodes |-> IF i \in Held(d, fs) THEN dt[i] ELSE <<>>]
  BY DEF Host
<1> DEFINE new == [i \in Inodes |-> IF i \in Held(d, fs) THEN dt[i] ELSE <<>>]
<1>2. new \in [Inodes -> Contents]
  BY EmptyContents DEF Aligned
<1>3. \A n \in DOMAIN d : new[d[n]] = dt[d[n]]
  BY DEF Held, Aligned, DirType
<1>4. \A s \in DOMAIN fs : new[fs[s].file] = dt[fs[s].file]
  BY DEF Held, Aligned, TableType, OpenFile
<1> HIDE DEF new
<1>5. Aligned(d, fs, new)
  BY <1>2, <1>4 DEF Aligned
<1>6. Files(d, fs, new) = Files(d, fs, dt)
  BY <1>3 DEF Files
<1> QED BY <1>1, <1>5, <1>6 DEF new

\* What the buffer of a FILE may hold.
Buffered(file, dt) ==
  /\ file.pend = {} \/ \E p \in file.pend : file.pend = {p}
  /\ file.seen = <<>> \/ (file.pend = {} /\ file.seen = dt[file.file])

NotOpen(fs, n) == \A t \in DOMAIN fs : fs[t].host_path # n

\* Path n leads to records c now, the others of d to what they led to.
Moved(d, old, new, n, c) == \A m \in DOMAIN d : new[m] = IF m = n THEN c ELSE old[m]

\* A path no slot has open is opened in a free slot, with a record written or not.
LEMMA OpenKeeps ==
  ASSUME NEW d, NEW fs, NEW dt, Aligned(d, fs, dt), NEW n \in DOMAIN d,
         NotOpen(fs, n),
         NEW s \in Slots, s \notin DOMAIN fs,
         NEW file \in OpenFile, file.host_path = n, file.file = d[n], Buffered(file, dt)
  PROVE  /\ Aligned(d, With(fs, s, file), dt)
         /\ Moved(d, Files(d, fs, dt), Files(d, With(fs, s, file), dt), n, Overlay(dt[d[n]], file.pend))
<1> DEFINE new == With(fs, s, file)
<1>0. \A t \in DOMAIN fs : fs[t].host_path # n
  BY DEF NotOpen
<1>1. TableType(new) /\ DOMAIN new = DOMAIN fs \cup {s}
  <2>1. TableType(fs)
    BY DEF Aligned
  <2> QED BY <2>1, OpenTypes
<1>2. new[s] = file
  BY DEF With
<1>3. \A t \in DOMAIN fs : new[t] = fs[t]
  BY DEF With
<1> HIDE DEF new
<1>4. Aligned(d, new, dt)
  <2>1. DirType(d) /\ dt \in [Inodes -> Contents] /\ \A m, k \in DOMAIN d : d[m] = d[k] => m = k
    BY DEF Aligned
  <2>2. \A t, u \in DOMAIN new : new[t].host_path = new[u].host_path => t = u
    BY <1>0, <1>1, <1>2, <1>3 DEF Aligned
  <2>3. \A t \in DOMAIN new : new[t].host_path \in DOMAIN d /\ d[new[t].host_path] = new[t].file
    BY <1>1, <1>2, <1>3 DEF Aligned
  <2>4. \A t \in DOMAIN new : new[t].pend = {} \/ \E p \in new[t].pend : new[t].pend = {p}
    BY <1>1, <1>2, <1>3 DEF Aligned, Buffered
  <2>5. \A t \in DOMAIN new :
          new[t].seen = <<>> \/ (new[t].pend = {} /\ new[t].seen = dt[new[t].file])
    BY <1>1, <1>2, <1>3 DEF Aligned, Buffered
  <2> QED BY <1>1, <2>1, <2>2, <2>3, <2>4, <2>5 DEF Aligned
<1>5. Files(d, new, dt)[n] = Overlay(dt[d[n]], file.pend)
  BY <1>1, <1>2, <1>4, FilesAt
<1>6. ASSUME NEW m \in DOMAIN d, m # n PROVE Files(d, new, dt)[m] = Files(d, fs, dt)[m]
  <2>1. CASE \A t \in DOMAIN fs : fs[t].host_path # m
    <3>1. \A t \in DOMAIN new : new[t].host_path # m
      BY <1>1, <1>2, <1>3, <1>6, <2>1
    <3> QED BY <1>4, <2>1, <3>1, FilesAt
  <2>2. ASSUME NEW t \in DOMAIN fs, fs[t].host_path = m
        PROVE  Files(d, new, dt)[m] = Files(d, fs, dt)[m]
    <3>1. Files(d, new, dt)[m] = Overlay(dt[d[m]], new[t].pend)
      BY <1>1, <1>3, <1>4, <2>2, FilesAt
    <3>2. Files(d, fs, dt)[m] = Overlay(dt[d[m]], fs[t].pend)
      BY <2>2, FilesAt
    <3> QED BY <1>3, <3>1, <3>2
  <2> QED BY <2>1, <2>2
<1>7. Moved(d, Files(d, fs, dt), Files(d, new, dt), n, Overlay(dt[d[n]], file.pend))
  BY <1>5, <1>6 DEF Moved
<1> QED BY <1>4, <1>7 DEF new

\* A path no slot has open comes to lead to a file no other path leads to.
LEMMA LinkKeeps ==
  ASSUME NEW d, NEW fs, NEW dt, Aligned(d, fs, dt), NEW n \in Names, NEW i \in Inodes,
         NotOpen(fs, n),
         \A m \in DOMAIN d : m # n => d[m] # i,
         NEW new \in [Inodes -> Contents], \A j \in Inodes : j # i => new[j] = dt[j]
  PROVE  /\ Aligned(With(d, n, i), fs, new)
         /\ Files(With(d, n, i), fs, new) = Table!Put(Files(d, fs, dt), n, new[i])
<1> DEFINE e == With(d, n, i)
<1>0. \A t \in DOMAIN fs : fs[t].host_path # n
  BY DEF NotOpen
<1>1. DOMAIN e = DOMAIN d \cup {n} /\ e[n] = i /\ \A m \in DOMAIN d : m # n => e[m] = d[m]
  BY DEF With
<1>2. DirType(e)
  <2>1. DirType(d)
    BY DEF Aligned
  <2>2. e \in [DOMAIN e -> Inodes]
    BY <2>1, WithType DEF DirType
  <2> HIDE DEF e
  <2> QED BY <1>1, <2>1, <2>2 DEF DirType
<1> HIDE DEF e
<1>3. \A m \in DOMAIN d : m # n => new[e[m]] = dt[d[m]]
  BY <1>1 DEF Aligned, DirType
<1>4. Aligned(e, fs, new)
  <2>1. TableType(fs) /\ \A s, t \in DOMAIN fs : fs[s].host_path = fs[t].host_path => s = t
    BY DEF Aligned
  <2>2. \A s \in DOMAIN fs : fs[s].host_path \in DOMAIN d /\ d[fs[s].host_path] = fs[s].file
    BY DEF Aligned
  <2>3. \A s \in DOMAIN fs : fs[s].host_path \in DOMAIN e /\ e[fs[s].host_path] = fs[s].file
    BY <1>0, <1>1, <2>2
  <2>4. \A m, k \in DOMAIN e : e[m] = e[k] => m = k
    BY <1>1 DEF Aligned
  <2>5. \A s \in DOMAIN fs : fs[s].pend = {} \/ \E p \in fs[s].pend : fs[s].pend = {p}
    BY DEF Aligned
  <2>6. \A s \in DOMAIN fs : new[fs[s].file] = dt[fs[s].file]
    BY <1>0, <1>1, <1>3, <2>2
  <2>7. \A s \in DOMAIN fs :
          fs[s].seen = <<>> \/ (fs[s].pend = {} /\ fs[s].seen = new[fs[s].file])
    BY <2>6 DEF Aligned
  <2> QED BY <1>2, <2>1, <2>3, <2>4, <2>5, <2>7 DEF Aligned
<1>5. Files(e, fs, new)[n] = new[i]
  BY <1>0, <1>1, <1>4, FilesAt
<1>6. \A m \in DOMAIN d : m # n => Files(e, fs, new)[m] = Files(d, fs, dt)[m]
  BY <1>1, <1>3 DEF Files
<1>7. DOMAIN Files(d, fs, dt) = DOMAIN d /\ DOMAIN Files(e, fs, new) = DOMAIN e
  BY DEF Files
<1>8. Files(e, fs, new) = [m \in DOMAIN e |-> Files(e, fs, new)[m]]
  BY DEF Files
<1>9. Files(e, fs, new) = Table!Put(Files(d, fs, dt), n, new[i])
  BY <1>1, <1>5, <1>6, <1>7, <1>8 DEF Table!Put
<1> QED BY <1>4, <1>9 DEF e

\* A path no slot has open comes to lead nowhere.
LEMMA UnlinkKeeps ==
  ASSUME NEW d, NEW fs, NEW dt, Aligned(d, fs, dt), NEW n,
         NotOpen(fs, n)
  PROVE  /\ Aligned(Without(d, {n}), fs, dt)
         /\ Files(Without(d, {n}), fs, dt) = Table!Drop(Files(d, fs, dt), n)
<1> DEFINE e == Without(d, {n})
<1>1. DOMAIN e = DOMAIN d \ {n} /\ \A m \in DOMAIN d \ {n} : e[m] = d[m]
  BY DEF Without
<1>2. DirType(e)
  <2>1. DirType(d)
    BY DEF Aligned
  <2>2. e \in [DOMAIN e -> Inodes]
    BY <2>1, WithoutType DEF DirType
  <2> HIDE DEF e
  <2> QED BY <1>1, <2>1, <2>2 DEF DirType
<1> HIDE DEF e
<1>3. Aligned(e, fs, dt)
  BY <1>1, <1>2 DEF Aligned, NotOpen
<1>4. \A m \in DOMAIN d \ {n} : Files(e, fs, dt)[m] = Files(d, fs, dt)[m]
  BY <1>1 DEF Files
<1>5. DOMAIN Files(d, fs, dt) = DOMAIN d /\ Files(e, fs, dt) = [m \in DOMAIN e |-> Files(e, fs, dt)[m]]
  BY DEF Files
<1>6. Files(e, fs, dt) = Table!Drop(Files(d, fs, dt), n)
  BY <1>1, <1>4, <1>5 DEF Table!Drop
<1> QED BY <1>3, <1>6 DEF e

\* A path opened with nothing written leads to what it led to.
LEMMA OpenEmptyKeeps ==
  ASSUME NEW d, NEW fs, NEW dt, Aligned(d, fs, dt), NEW n \in DOMAIN d,
         NotOpen(fs, n),
         NEW s \in Slots, s \notin DOMAIN fs,
         NEW file \in OpenFile, file.host_path = n, file.file = d[n],
         file.pend = {}, file.seen = <<>> \/ file.seen = dt[d[n]]
  PROVE  /\ Aligned(d, With(fs, s, file), dt)
         /\ Files(d, With(fs, s, file), dt) = Files(d, fs, dt)
<1>1. /\ Aligned(d, With(fs, s, file), dt)
      /\ Moved(d, Files(d, fs, dt), Files(d, With(fs, s, file), dt), n, Overlay(dt[d[n]], file.pend))
  <2>1. Buffered(file, dt)
    BY DEF Buffered
  <2> QED BY <2>1, OpenKeeps
<1>2. Overlay(dt[d[n]], file.pend) = dt[d[n]] /\ Files(d, fs, dt)[n] = dt[d[n]]
  BY OverlayOf, FilesAt DEF NotOpen
<1>3. \A m \in DOMAIN d : Files(d, With(fs, s, file), dt)[m] = Files(d, fs, dt)[m]
  BY <1>1, <1>2 DEF Moved
<1>4. Files(d, With(fs, s, file), dt) = Files(d, fs, dt)
  BY <1>3 DEF Files
<1> QED BY <1>1, <1>4

LEMMA KeptAlone ==
  ASSUME Exclusive, NEW n, NEW mine, Alone(n, mine)
  PROVE  NotOpen(Without(m_files, mine), n)
BY DEF NotOpen, Alone, Without, Open

-----------------------------------------------------------------------------
(***************************************************************************)
(* Each call is a call of FcbFiles.                                        *)
(***************************************************************************)
Good == TypeOK /\ Aligned(dir, m_files, data)

\* The variables of FcbFiles.
Paths   == [f \in Fcb |-> fcb[f].name]
Records == [n \in DOMAIN dir |-> Settled(Open)[dir[n]]]

GoodStep == Aligned(dir', m_files', data') /\ Table!FNext

LEMMA RecordsAre ==
  /\ Aligned(dir, m_files, data) => Records = Files(dir, m_files, data)
  /\ Aligned(dir', m_files', data') => Records' = Files(dir', m_files', data')
<1>1. Records = [n \in DOMAIN dir |-> Laid(m_files, data, DOMAIN m_files)[dir[n]]]
  BY SettledIsLaid DEF Records, Open
<1>2. Records' = [n \in DOMAIN dir' |-> Laid(m_files', data', DOMAIN m_files')[dir'[n]]]
  BY SettledIsLaid DEF Records
<1> QED BY <1>1, <1>2, FilesAreLaid

\* A step that leaves the paths' records alone.
LEMMA Unmoved ==
  ASSUME Good, Aligned(dir', m_files', data'),
         Files(dir', m_files', data') = Files(dir, m_files, data)
  PROVE  Records' = Records
BY RecordsAre DEF Good

LEMMA StillPaths ==
  ASSUME Good, NEW f \in Fcb, fcb' = fcb \/ \E s \in {None} \cup Slots : SetHandle(f, s)
  PROVE  Paths' = Paths
<1>1. CASE fcb' = fcb
  BY <1>1 DEF Paths
<1>2. CASE \E s \in {None} \cup Slots : SetHandle(f, s)
  <2>1. \A g \in Fcb : fcb'[g].name = fcb[g].name
    BY <1>2, SetHandleType DEF Good
  <2> QED BY <2>1 DEF Paths
<1> QED BY <1>1, <1>2

LEMMA Existing ==
  ASSUME NEW f \in Fcb
  PROVE  /\ Table!Exists(f) <=> fcb[f].name \in DOMAIN dir
         /\ Paths[f] = fcb[f].name /\ DOMAIN Records = DOMAIN dir
BY DEF Table!Exists, Paths, Records

\* A call that is refused, or answers something a caller expects, and changes nothing.
LEMMA SameStep ==
  ASSUME Good, Aligned(dir', m_files', data'), Records' = Records, Paths' = Paths,
         NEW f \in Fcb, NEW op, NEW arg, NEW ret, NEW val, AnswerTo(op, f, arg, ret, val),
         \/ op \in {"OPEN", "MAKE"} /\ arg = 0 /\ ret = 255 /\ val = Zero
         \/ op \in {"READ", "WRITE"} /\ arg \in Recs /\ ret = 255 /\ val = Zero
         \/ op = "SIZE" /\ arg = 0 /\ ret = 255 /\ val = Zero /\ fcb[f].name \notin DOMAIN dir
         \/ op = "RENAME" /\ arg \in Names /\ ret = 255 /\ val = Zero /\ fcb[f].name \notin DOMAIN dir
         \/ op = "CLOSE" /\ arg = 0 /\ ret \in {0, 255} /\ val = Zero
         \/ op = "OPEN" /\ arg = 0 /\ ret = 0 /\ val = Zero /\ fcb[f].name \in DOMAIN dir
         \/ op = "WBOOT" /\ arg = 0 /\ ret = 0 /\ val = Zero
  PROVE  GoodStep
<1>1. Table!Same
  BY DEF Table!Same, Paths, Records
<1>2. res' = Table!ReplyTo(op, f, arg, ret, val)
  BY DEF AnswerTo, Table!ReplyTo
<1>3. CASE ret = 255 /\ val = Zero
  <2>1. Table!FRefuse(f, op, arg)
    BY <1>1, <1>2, <1>3 DEF Table!FRefuse
  <2>2. CASE op \in {"OPEN", "MAKE"} /\ arg = 0
    BY <2>1, <2>2 DEF GoodStep, Table!FNext
  <2>3. CASE op \in {"READ", "WRITE"} /\ arg \in Recs
    BY <2>1, <2>3 DEF GoodStep, Table!FNext, Recs
  <2>4. CASE op = "SIZE" /\ arg = 0 /\ fcb[f].name \notin DOMAIN dir
    BY <2>1, <2>4, Existing DEF GoodStep, Table!FNext
  <2>5. CASE op = "RENAME" /\ arg \in Names /\ fcb[f].name \notin DOMAIN dir
    BY <2>1, <2>5, Existing DEF GoodStep, Table!FNext
  <2>6. CASE op = "CLOSE" /\ arg = 0
    <3>1. Table!FClose(f, 255)
      BY <1>1, <1>2, <1>3, <2>6 DEF Table!FClose, Table!Reply
    <3> QED BY <3>1 DEF GoodStep, Table!FNext
  <2> QED BY <1>3, <2>2, <2>3, <2>4, <2>5, <2>6
<1>4. CASE ret = 0 /\ val = Zero /\ arg = 0
  <2>1. res' = Table!Reply(op, f, 0, Zero)
    BY <1>2, <1>4 DEF Table!Reply
  <2>2. CASE op = "CLOSE"
    <3>1. Table!FClose(f, 0)
      BY <1>1, <2>1, <2>2 DEF Table!FClose
    <3> QED BY <3>1 DEF GoodStep, Table!FNext
  <2>3. CASE op = "OPEN" /\ fcb[f].name \in DOMAIN dir
    <3>1. Table!FOpen(f)
      BY <1>1, <2>1, <2>3, Existing DEF Table!FOpen
    <3> QED BY <3>1 DEF GoodStep, Table!FNext
  <2>4. CASE op = "WBOOT"
    <3>1. Table!FWarmBoot(f)
      BY <1>1, <2>1, <2>4 DEF Table!FWarmBoot
    <3> QED BY <3>1 DEF GoodStep, Table!FNext
  <2> QED BY <1>4, <2>2, <2>3, <2>4
<1> QED BY <1>3, <1>4

\* Nothing but guest memory and the answer changed.
LEMMA StillGood ==
  ASSUME Good, UNCHANGED <<m_files, dir, data>>
  PROVE  Aligned(dir', m_files', data') /\ Records' = Records
<1>1. Aligned(dir', m_files', data') /\ Files(dir', m_files', data') = Files(dir, m_files, data)
  BY DEF Good
<1> QED BY <1>1, Unmoved

\* Slots were closed and nothing else.
LEMMA ClosedGood ==
  ASSUME Good, NEW C \in SUBSET Open, Host(dir, Without(m_files, C), Settled(C))
  PROVE  Aligned(dir', m_files', data') /\ Records' = Records
<1> DEFINE kept == Without(m_files, C)
           dt   == Settled(C)
<1>1. Aligned(dir, kept, dt) /\ Files(dir, kept, dt) = Files(dir, m_files, data)
  BY CloseKeeps DEF Good
<1>2. Host(dir, kept, dt)
  OBVIOUS
<1> HIDE DEF kept, dt
<1>3. Aligned(dir', m_files', data') /\ Files(dir', m_files', data') = Files(dir, m_files, data)
  BY <1>1, <1>2, HostKeeps
<1> QED BY <1>3, Unmoved

LEMMA GuestRefines ==
  ASSUME Good, NEW f \in Fcb, NEW n \in Names, NEW g \in Fcb, NewFcb(f, n) \/ CopyFcb(f, g)
  PROVE  GoodStep
<1>1. Aligned(dir', m_files', data') /\ Records' = Records
  BY StillGood DEF NewFcb, CopyFcb
<1>2. res' = Table!Reply("guest", f, 0, Zero)
  BY DEF NewFcb, CopyFcb, Answer, AnswerTo, Table!Reply, Table!ReplyTo
<1>3. CASE NewFcb(f, n)
  <2>1. Paths' = [Paths EXCEPT ![f] = n]
    BY <1>3 DEF NewFcb, Paths, Good, TypeOK
  <2>2. Table!FName(f, n)
    BY <1>1, <1>2, <2>1 DEF Table!FName, Paths, Records
  <2> QED BY <1>1, <2>2 DEF GoodStep, Table!FNext
<1>4. CASE CopyFcb(f, g)
  <2>1. Paths' = [Paths EXCEPT ![g] = Paths[f]]
    BY <1>4 DEF CopyFcb, Paths, Good, TypeOK
  <2>2. Table!FCopy(f, g)
    BY <1>1, <1>2, <2>1 DEF Table!FCopy, Table!FName, Paths, Records
  <2> QED BY <1>1, <2>2 DEF GoodStep, Table!FNext
<1> QED BY <1>3, <1>4

LEMMA WarmBootRefines ==
  ASSUME Good, WarmBoot
  PROVE  GoodStep
<1>1. PICK f \in Fcb : AnswerTo("WBOOT", f, 0, 0, Zero)
  BY DEF WarmBoot, Answer
<1>2. Aligned(dir', m_files', data') /\ Records' = Records
  BY StillGood DEF WarmBoot
<1>3. Paths' = Paths
  BY <1>1, StillPaths DEF WarmBoot
<1> QED BY <1>1, <1>2, <1>3, SameStep

LEMMA OpenMissingRefines ==
  ASSUME Good, NEW f \in Fcb, OpenMissing(f)
  PROVE  GoodStep
<1>1. AnswerTo("OPEN", f, 0, 255, Zero)
  BY DEF OpenMissing, Answer
<1>2. Aligned(dir', m_files', data') /\ Records' = Records
  BY StillGood DEF OpenMissing
<1>3. Paths' = Paths
  BY StillPaths DEF OpenMissing
<1> QED BY <1>1, <1>2, <1>3, SameStep

\* F_SIZE sees the file on the host, which is no longer than the file.
LEMMA SizeRefines ==
  ASSUME Good, NEW f \in Fcb, Size(f)
  PROVE  GoodStep
<1> DEFINE n == fcb[f].name
<1>1. Aligned(dir', m_files', data') /\ Records' = Records
  BY StillGood DEF Size
<1>2. Paths' = Paths
  BY StillPaths DEF Size
<1>3. CASE n \notin DOMAIN dir
  <2>1. AnswerTo("SIZE", f, 0, 255, Zero)
    BY <1>3 DEF Size, Answer
  <2> QED BY <1>1, <1>2, <1>3, <2>1, SameStep
<1>4. CASE n \in DOMAIN dir
  <2>1. res' = Table!Reply("SIZE", f, 0, Len(data[dir[n]]))
    BY <1>4 DEF Size, Answer, AnswerTo, Table!Reply, Table!ReplyTo
  <2>2. dir[n] \in Inodes
    BY <1>4 DEF Good, TypeOK
  <2>3. Open \in SUBSET Open
    OBVIOUS
  <2>4. Settled(Open)[dir[n]] \in Contents /\ Len(data[dir[n]]) <= Len(Settled(Open)[dir[n]])
    BY <2>2, <2>3, SettledFacts DEF Good
  <2>5. Records[n] = Settled(Open)[dir[n]]
    BY <1>4 DEF Records
  <2>6. data[dir[n]] \in Contents
    BY <2>2 DEF Good, TypeOK
  <2>7. Len(data[dir[n]]) \in Nat /\ Len(Records[n]) \in Nat
    BY <2>4, <2>5, <2>6, ContentsFacts, TableAssumption
  <2>8. Len(data[dir[n]]) \in 0 .. Len(Records[n])
    BY <2>4, <2>5, <2>7
  <2>9. Table!FSize(f)
    <3>1. \E k \in 0 .. Len(Records[Paths[f]]) : res' = Table!Reply("SIZE", f, 0, k)
      BY <2>1, <2>8, Existing
    <3>2. Table!Exists(f) /\ Table!Same
      BY <1>1, <1>2, <1>4, Existing DEF Table!Same, Paths, Records
    <3> QED BY <3>1, <3>2 DEF Table!FSize, Paths, Records
  <2> QED BY <1>1, <2>9 DEF GoodStep, Table!FNext
<1> QED BY <1>3, <1>4

LEMMA CloseRefines ==
  ASSUME Good, NEW f \in Fcb, Close(f)
  PROVE  GoodStep
<1> DEFINE s == find_file_by_fcb(f)
<1>1. CASE s = None
  <2>1. AnswerTo("CLOSE", f, 0, 255, Zero) /\ UNCHANGED <<fcb, m_files, dir, data>>
    BY <1>1 DEF Close, Answer
  <2>2. Aligned(dir', m_files', data') /\ Records' = Records /\ Paths' = Paths
    BY <2>1, StillGood, StillPaths
  <2> QED BY <2>1, <2>2, SameStep
<1>2. CASE s # None
  <2>1. /\ Host(dir, Without(m_files, {s}), Settled({s})) /\ SetHandle(f, None)
        /\ AnswerTo("CLOSE", f, 0, 0, Zero)
    BY <1>2 DEF Close, Answer
  <2>2. {s} \in SUBSET Open
    BY <1>2, FindFacts DEF Good
  <2>3. Aligned(dir', m_files', data') /\ Records' = Records
    BY <2>1, <2>2, ClosedGood
  <2>4. Paths' = Paths
    BY <2>1, StillPaths
  <2> QED BY <2>1, <2>3, <2>4, SameStep
<1> QED BY <1>1, <1>2

LEMMA OpenFoundRefines ==
  ASSUME Good, Exclusive, NEW f \in Fcb, OpenFound(f)
  PROVE  GoodStep
<1> DEFINE C    == close_stale(f)
           kept == Without(m_files, C)
           dt   == Settled(C)
           s    == find_open_slot(kept)
           n    == fcb[f].name
           file == NewFile(f, dir[n])
<1>1. C \in SUBSET Open /\ n \in DOMAIN dir /\ Alone(n, C)
  BY DEF close_stale, OpenFound
<1>2. CASE s = None
  <2>1. Host(dir, kept, dt) /\ AnswerTo("OPEN", f, 0, 255, Zero) /\ fcb' = fcb
    BY <1>2 DEF OpenFound, Answer
  <2>2. Aligned(dir', m_files', data') /\ Records' = Records
    BY <1>1, <2>1, ClosedGood
  <2>3. Paths' = Paths
    BY <2>1, StillPaths
  <2> QED BY <2>1, <2>2, <2>3, SameStep
<1>3. CASE s # None
  <2>1. /\ Host(dir, With(kept, s, file), dt) /\ AnswerTo("OPEN", f, 0, 0, Zero)
        /\ SetHandle(f, s)
    BY <1>3 DEF OpenFound, Answer
  <2>2. DOMAIN kept = Open \ C /\ s \in Slots /\ s \notin Open \ C
    BY <1>3, StaleFacts DEF Good
  <2>3. Aligned(dir, kept, dt) /\ Files(dir, kept, dt) = Files(dir, m_files, data)
    BY <1>1, CloseKeeps DEF Good
  <2>4. NotOpen(kept, n)
    BY <1>1, KeptAlone
  <2>5. dir[n] \in Inodes
    BY <1>1 DEF Good, TypeOK
  <2>6. /\ file \in OpenFile /\ file.host_path = n /\ file.file = dir[n]
        /\ file.pend = {} /\ file.seen = <<>>
    BY <2>5, NewFileType DEF Good, NewFile
  <2> HIDE DEF kept, dt, s, file
  <2>7. /\ Aligned(dir, With(kept, s, file), dt)
        /\ Files(dir, With(kept, s, file), dt) = Files(dir, kept, dt)
    BY <1>1, <2>2, <2>3, <2>4, <2>6, OpenEmptyKeeps
  <2>8. /\ Aligned(dir', m_files', data')
        /\ Files(dir', m_files', data') = Files(dir, m_files, data)
    BY <2>1, <2>3, <2>7, HostKeeps
  <2>9. Records' = Records /\ Paths' = Paths
    BY <2>1, <2>2, <2>8, Unmoved, StillPaths
  <2> QED BY <1>1, <2>1, <2>8, <2>9, SameStep
<1> QED BY <1>2, <1>3

\* F_MAKE closes, links an empty file to the path and opens it.
LEMMA MakeRefines ==
  ASSUME Good, Exclusive, NEW f \in Fcb, Make(f)
  PROVE  GoodStep
<1> DEFINE C    == close_stale(f)
           kept == Without(m_files, C)
           dt   == Settled(C)
           s    == find_open_slot(kept)
           n    == fcb[f].name
<1>1. C \in SUBSET Open /\ n \in Names /\ Alone(n, C)
  BY DEF close_stale, Make, Good, TypeOK
<1>2. CASE s = None
  <2>1. Host(dir, kept, dt) /\ AnswerTo("MAKE", f, 0, 255, Zero) /\ fcb' = fcb
    BY <1>2 DEF Make, Answer
  <2>2. Aligned(dir', m_files', data') /\ Records' = Records
    BY <1>1, <2>1, ClosedGood
  <2>3. Paths' = Paths
    BY <2>1, StillPaths
  <2> QED BY <2>1, <2>2, <2>3, SameStep
<1>3. CASE s # None
  <2>1. PICK i \in Inodes :
          /\ IF n \in DOMAIN dir THEN i = dir[n] ELSE i \notin Held(dir, m_files)
          /\ Host(With(dir, n, i), With(kept, s, NewFile(f, i)), [dt EXCEPT ![i] = <<>>])
    BY <1>3 DEF Make
  <2> DEFINE d    == With(dir, n, i)
             new  == [dt EXCEPT ![i] = <<>>]
             file == NewFile(f, i)
  <2>2. AnswerTo("MAKE", f, 0, 0, Zero) /\ SetHandle(f, s)
    BY <1>3 DEF Make, Answer
  <2>3. DOMAIN kept = Open \ C /\ s \in Slots /\ s \notin Open \ C
    BY <1>3, StaleFacts DEF Good
  <2>4. Aligned(dir, kept, dt) /\ Files(dir, kept, dt) = Files(dir, m_files, data)
    BY <1>1, CloseKeeps DEF Good
  <2>5. NotOpen(kept, n)
    BY <1>1, KeptAlone
  <2>6. \A m \in DOMAIN dir : m # n => dir[m] # i
    BY <2>1, <2>4 DEF Aligned, Held
  <2>7. /\ new \in [Inodes -> Contents] /\ new[i] = <<>>
        /\ \A j \in Inodes : j # i => new[j] = dt[j]
    BY <2>4, EmptyContents DEF Aligned
  <2>8. /\ file \in OpenFile /\ file.host_path = n /\ file.file = i
        /\ file.pend = {} /\ file.seen = <<>>
    BY NewFileType DEF Good, NewFile
  <2>9. Host(d, With(kept, s, file), new)
    BY <2>1
  <2>10. n \in DOMAIN d /\ d[n] = i
    BY DEF With
  <2> HIDE DEF kept, dt, new, file, s
  <2>11. Aligned(d, kept, new) /\ Files(d, kept, new) = Table!Put(Files(dir, kept, dt), n, new[i])
    BY <1>1, <2>4, <2>5, <2>6, <2>7, LinkKeeps
  <2> HIDE DEF d
  <2>12. /\ Aligned(d, With(kept, s, file), new)
         /\ Files(d, With(kept, s, file), new) = Files(d, kept, new)
    BY <2>3, <2>5, <2>8, <2>10, <2>11, OpenEmptyKeeps
  <2>13. /\ Aligned(dir', m_files', data')
         /\ Files(dir', m_files', data') = Table!Put(Files(dir, m_files, data), n, <<>>)
    BY <2>4, <2>7, <2>9, <2>11, <2>12, HostKeeps
  <2>14. Records' = Table!Put(Records, Paths[f], <<>>)
    BY <2>13, RecordsAre, Existing DEF Good
  <2>15. Paths' = Paths
    BY <2>2, <2>3, StillPaths
  <2>16. res' = Table!Reply("MAKE", f, 0, Zero)
    BY <2>2 DEF AnswerTo, Table!Reply, Table!ReplyTo
  <2>17. Table!FMake(f)
    BY <2>14, <2>15, <2>16 DEF Table!FMake, Paths, Records
  <2> QED BY <2>13, <2>17 DEF GoodStep, Table!FNext
<1> QED BY <1>2, <1>3

LEMMA DeleteRefines ==
  ASSUME Good, Exclusive, NEW f \in Fcb, Delete(f)
  PROVE  GoodStep
<1> DEFINE mine == {find_file_by_fcb(f)} \ {None}
           kept == Without(m_files, mine)
           dt   == Settled(mine)
           n    == fcb[f].name
           d    == Without(dir, {n})
<1>1. mine \in SUBSET Open /\ Alone(n, mine)
  BY FindFacts DEF Delete, Good
<1>2. /\ Host(d, kept, dt) /\ fcb' = fcb
      /\ res' = Table!Reply("DELETE", f, IF n \in DOMAIN dir THEN 0 ELSE 255, Zero)
  BY DEF Delete, Answer, AnswerTo, Table!Reply, Table!ReplyTo
<1>3. Aligned(dir, kept, dt) /\ Files(dir, kept, dt) = Files(dir, m_files, data)
  BY <1>1, CloseKeeps DEF Good
<1>4. NotOpen(kept, n)
  BY <1>1, KeptAlone
<1> HIDE DEF kept, dt
<1>5. Aligned(d, kept, dt) /\ Files(d, kept, dt) = Table!Drop(Files(dir, kept, dt), n)
  BY <1>3, <1>4, UnlinkKeeps
<1> HIDE DEF d
<1>6. /\ Aligned(dir', m_files', data')
      /\ Files(dir', m_files', data') = Table!Drop(Files(dir, m_files, data), n)
  BY <1>2, <1>3, <1>5, HostKeeps
<1>7. Records' = Table!Drop(Records, Paths[f]) /\ Paths' = Paths
  BY <1>2, <1>6, RecordsAre, Existing, StillPaths DEF Good
<1>8. res' = Table!Reply("DELETE", f, IF Table!Exists(f) THEN 0 ELSE 255, Zero)
  BY <1>2, Existing
<1>9. Table!FDelete(f)
  BY <1>7, <1>8 DEF Table!FDelete, Paths, Records
<1> QED BY <1>6, <1>9 DEF GoodStep, Table!FNext

\* F_RENAME unlinks the old path and links the new one.
LEMMA RenameRefines ==
  ASSUME Good, Exclusive, NEW f \in Fcb, NEW new \in Names, Rename(f, new)
  PROVE  GoodStep
<1> DEFINE old == fcb[f].name
           w   == Without(dir, {old})
           i   == dir[old]
           d   == With(w, new, i)
<1>1. SetHandle(f, None) /\ Alone(old, {}) /\ Alone(new, {})
  BY DEF Rename
<1>2. Paths' = Paths
  BY <1>1, StillPaths
<1>3. CASE old \notin DOMAIN dir
  <2>1. AnswerTo("RENAME", f, new, 255, Zero)
    BY <1>3 DEF Rename
  <2>2. Aligned(dir', m_files', data') /\ Records' = Records
    BY <1>3, StillGood DEF Rename
  <2> QED BY <1>2, <1>3, <2>1, <2>2, SameStep
<1>4. CASE old \in DOMAIN dir
  <2>1. Host(d, m_files, data) /\ AnswerTo("RENAME", f, new, 0, Zero)
    BY <1>4 DEF Rename
  <2>2. NotOpen(m_files, old) /\ NotOpen(m_files, new)
    BY <1>1 DEF Alone, NotOpen, Open
  <2>3. Aligned(dir, m_files, data)
    BY DEF Good
  <2>4. i \in Inodes /\ data \in [Inodes -> Contents]
    BY <1>4 DEF Good, TypeOK
  <2>5. \A m \in DOMAIN w : m # new => w[m] # i
    BY <1>4, <2>3 DEF Aligned, Without
  <2>6. Aligned(w, m_files, data) /\ Files(w, m_files, data) = Table!Drop(Files(dir, m_files, data), old)
    BY <2>2, <2>3, UnlinkKeeps
  <2>7. Files(dir, m_files, data)[old] = data[i]
    BY <1>4, <2>2, <2>3, FilesAt DEF NotOpen
  <2> HIDE DEF w, i
  <2>8. Aligned(d, m_files, data) /\ Files(d, m_files, data) = Table!Put(Files(w, m_files, data), new, data[i])
    BY <2>2, <2>4, <2>5, <2>6, LinkKeeps
  <2> HIDE DEF d
  <2>9. /\ Aligned(dir', m_files', data')
        /\ Files(dir', m_files', data') = Files(d, m_files, data)
    BY <2>1, <2>8, HostKeeps
  <2>10. Records' = Table!Put(Table!Drop(Records, Paths[f]), new, Records[Paths[f]])
    BY <2>3, <2>6, <2>7, <2>8, <2>9, RecordsAre, Existing
  <2>11. res' = Table!ReplyTo("RENAME", f, new, 0, Zero)
    BY <2>1 DEF AnswerTo, Table!ReplyTo
  <2>12. Table!Exists(f)
    BY <1>4, Existing
  <2>13. Table!FRename(f, new)
    BY <1>2, <2>10, <2>11, <2>12 DEF Table!FRename, Paths, Records
  <2> QED BY <2>9, <2>13 DEF GoodStep, Table!FNext
<1> QED BY <1>3, <1>4

LEMMA NotOpenedRefines ==
  ASSUME Good, NEW f \in Fcb, NEW op \in {"READ", "WRITE"}, NEW r \in Recs, NotOpened(f, op, r)
  PROVE  GoodStep
<1>1. /\ Host(dir, Without(m_files, Displaced(f)), Settled(Displaced(f)))
      /\ AnswerTo(op, f, r, 255, Zero) /\ fcb' = fcb
  BY DEF NotOpened
<1>2. Displaced(f) \in SUBSET Open
  BY EnsureFacts DEF Good
<1>3. Aligned(dir', m_files', data') /\ Records' = Records
  BY <1>1, <1>2, ClosedGood
<1>4. Paths' = Paths
  BY <1>1, StillPaths
<1> QED BY <1>1, <1>3, <1>4, SameStep

\* The slots a transfer closes or flushes before the record moves.
Flushed(f) == IF Matching(f) THEN {ensure_open(f)} ELSE Displaced(f)

\* What a transfer finds when they have written out: a free slot, the path open
\* nowhere else, and a FILE whose buffer holds the records of the path or nothing.
LEMMA TransferFacts ==
  ASSUME Good, Exclusive, NEW f \in Fcb, AloneToUse(f), ensure_open(f) # None
  PROVE  LET n    == fcb[f].name
             s    == ensure_open(f)
             kept == Without(m_files, Flushed(f))
             dt   == Settled(Flushed(f))
         IN
         /\ Aligned(dir, kept, dt) /\ Files(dir, kept, dt) = Files(dir, m_files, data)
         /\ n \in DOMAIN dir /\ NotOpen(kept, n) /\ Records[n] = dt[dir[n]]
         /\ s \in Slots /\ s \notin DOMAIN kept
         /\ Opened(f) \in OpenFile /\ Opened(f).host_path = n /\ Opened(f).file = dir[n]
         /\ Opened(f).seen = <<>> \/ Opened(f).seen = dt[dir[n]]
         /\ \A x : With(Without(m_files, Displaced(f)), s, x) = With(kept, s, x)
<1> DEFINE n    == fcb[f].name
           s    == ensure_open(f)
           C    == Flushed(f)
           kept == Without(m_files, C)
           dt   == Settled(C)
<1>1. Aligned(dir, m_files, data) /\ TypeOK
  BY DEF Good
<1>2. C \in SUBSET Open /\ s \in Slots /\ Opened(f) \in OpenFile /\ Opened(f).host_path = n
  BY <1>1, EnsureFacts DEF Flushed
<1>3. Aligned(dir, kept, dt) /\ Files(dir, kept, dt) = Files(dir, m_files, data)
  BY <1>1, <1>2, CloseKeeps
<1>4. CASE Matching(f)
  <2>1. C = {s} /\ s \in Open /\ Displaced(f) = {} /\ Opened(f) = m_files[s]
    BY <1>1, <1>4, EnsureFacts DEF Flushed, Opened
  <2>2. n \in DOMAIN dir /\ Opened(f).file = dir[n]
    BY <1>1, <1>2, <2>1 DEF Aligned, Open
  <2>3. NotOpen(kept, n)
    BY <1>1, <1>2, <2>1 DEF NotOpen, Without, Aligned, Open
  <2>4. s \notin DOMAIN kept
    BY <2>1 DEF Without
  <2>5. Opened(f).seen = <<>> \/ Opened(f).seen = dt[dir[n]]
    <3>1. SUFFICES ASSUME Opened(f).seen # <<>> PROVE Opened(f).seen = dt[dir[n]]
      OBVIOUS
    <3>2. m_files[s].pend = {} /\ m_files[s].seen = data[dir[n]]
      BY <1>1, <2>1, <2>2, <3>1 DEF Aligned, Open
    <3>3. dt[dir[n]] = Overlay(data[dir[n]], m_files[s].pend)
      <4>1. dt = Laid(m_files, data, C) /\ C \in SUBSET DOMAIN m_files
        BY <1>2, SettledIsLaid DEF Open
      <4>2. s \in C /\ m_files[s].host_path = n
        BY <1>2, <2>1
      <4> HIDE DEF dt, C
      <4> QED BY <1>1, <2>2, <4>1, <4>2, LaidAt
    <3> QED BY <2>1, <3>2, <3>3, OverlayOf
  <2>6. ASSUME NEW x PROVE With(Without(m_files, Displaced(f)), s, x) = With(kept, s, x)
    <3>1. (Open \ {}) \cup {s} = (Open \ {s}) \cup {s}
      OBVIOUS
    <3> QED BY <2>1, <3>1 DEF With, Without, Open
  <2>7. Records[n] = dt[dir[n]]
    <3>1. Records[n] = Files(dir, kept, dt)[n]
      BY <1>1, <1>3, RecordsAre
    <3> QED BY <1>3, <2>2, <2>3, <3>1, FilesAt DEF NotOpen
  <2> QED BY <1>2, <1>3, <2>2, <2>3, <2>4, <2>5, <2>6, <2>7
<1>5. CASE ~ Matching(f)
  <2>1. C = Displaced(f) /\ Opened(f) = NewFile(f, dir[n]) /\ Alone(n, {})
    BY <1>5 DEF Flushed, Opened, AloneToUse
  <2>2. n \in DOMAIN dir /\ s \notin Open \ Displaced(f) /\ DOMAIN Without(m_files, Displaced(f)) = Open \ Displaced(f)
    BY <1>1, <1>5, EnsureFacts
  <2>3. Opened(f).file = dir[n] /\ Opened(f).seen = <<>>
    BY <2>1 DEF NewFile
  <2>4. NotOpen(kept, n)
    BY <2>1 DEF Alone, NotOpen, Without, Open
  <2>5. s \notin DOMAIN kept
    BY <2>1, <2>2
  <2>6. \A x : With(Without(m_files, Displaced(f)), s, x) = With(kept, s, x)
    BY <2>1
  <2>7. Records[n] = dt[dir[n]]
    <3>1. Records[n] = Files(dir, kept, dt)[n]
      BY <1>1, <1>3, RecordsAre
    <3> QED BY <1>3, <2>2, <2>4, <3>1, FilesAt DEF NotOpen
  <2> QED BY <1>2, <1>3, <2>2, <2>3, <2>4, <2>5, <2>6, <2>7
<1> QED BY <1>4, <1>5

\* What a read left in the buffer is what the file has.
LEMMA ReadRefines ==
  ASSUME Good, Exclusive, NEW f \in Fcb, NEW r \in Recs, Read(f, r)
  PROVE  GoodStep
<1>1. CASE NotOpened(f, "READ", r)
  BY <1>1, NotOpenedRefines
<1>2. CASE ~ NotOpened(f, "READ", r)
  <2> DEFINE n    == fcb[f].name
             s    == ensure_open(f)
             kept == Without(m_files, Flushed(f))
             dt   == Settled(Flushed(f))
             file == Opened(f)
  <2>1. s # None /\ AloneToUse(f)
    BY <1>2 DEF Read
  <2>2. PICK from \in {dt[file.file]} \cup (IF r < Len(file.seen) THEN {file.seen} ELSE {}) :
          /\ Host(dir, With(Without(m_files, Displaced(f)), s,
                            [file EXCEPT !.pend = {}, !.seen = from]), dt)
          /\ SetHandle(f, s)
          /\ IF r < Len(from) THEN AnswerTo("READ", f, r, 0, from[r + 1])
                              ELSE AnswerTo("READ", f, r, 1, Zero)
    BY <1>2 DEF Read, Flushed
  <2>3. /\ Aligned(dir, kept, dt) /\ Files(dir, kept, dt) = Files(dir, m_files, data)
        /\ n \in DOMAIN dir /\ NotOpen(kept, n) /\ Records[n] = dt[dir[n]]
        /\ s \in Slots /\ s \notin DOMAIN kept
        /\ file \in OpenFile /\ file.host_path = n /\ file.file = dir[n]
        /\ file.seen = <<>> \/ file.seen = dt[dir[n]]
        /\ \A x : With(Without(m_files, Displaced(f)), s, x) = With(kept, s, x)
    BY <2>1, TransferFacts
  <2>4. from = dt[dir[n]]
    <3>1. CASE from = file.seen /\ r < Len(file.seen)
      <4>1. file.seen # <<>>
        <5>1. r \in Nat /\ Len(<<>>) = 0
          BY EmptyContents, TableAssumption DEF Recs
        <5> QED BY <3>1, <5>1
      <4> QED BY <2>3, <3>1, <4>1
    <3>2. CASE from = dt[file.file]
      BY <2>3, <3>2
    <3> QED BY <2>2, <3>1, <3>2
  <2> DEFINE left == [file EXCEPT !.pend = {}, !.seen = from]
  <2>5. Host(dir, With(kept, s, left), dt)
    BY <2>2, <2>3
  <2>6. dt[dir[n]] \in Contents
    BY <2>3 DEF Aligned, DirType
  <2>h. file \in OpenFile /\ file.host_path = n /\ file.file = dir[n]
    BY <2>3
  <2> HIDE DEF file
  <2>7. /\ left \in OpenFile /\ left.host_path = n /\ left.file = dir[n]
        /\ left.pend = {} /\ left.seen = dt[dir[n]]
    BY <2>h, <2>4, <2>6 DEF OpenFile
  <2> HIDE DEF left, kept, dt, s
  <2>8. /\ Aligned(dir, With(kept, s, left), dt)
        /\ Files(dir, With(kept, s, left), dt) = Files(dir, kept, dt)
    BY <2>3, <2>7, OpenEmptyKeeps
  <2>9. /\ Aligned(dir', m_files', data')
        /\ Files(dir', m_files', data') = Files(dir, m_files, data)
    BY <2>3, <2>5, <2>8, HostKeeps
  <2>10. Records' = Records /\ Paths' = Paths
    BY <2>2, <2>3, <2>9, Unmoved, StillPaths
  <2>11. res' = IF r < Len(Records[n]) THEN Table!ReplyTo("READ", f, r, 0, Records[n][r + 1])
                                       ELSE Table!ReplyTo("READ", f, r, 1, Zero)
    BY <2>2, <2>3, <2>4 DEF AnswerTo, Table!ReplyTo
  <2>12. Table!Exists(f) /\ Table!Same /\ Paths[f] = n
    BY <2>3, <2>10, Existing DEF Table!Same, Paths, Records
  <2>13. Table!FRead(f, r)
    BY <2>11, <2>12 DEF Table!FRead, Paths, Records
  <2> QED BY <2>9, <2>13 DEF GoodStep, Table!FNext, Recs
<1> QED BY <1>1, <1>2

\* What a write leaves in the buffer lies over what the file has.
LEMMA WriteRefines ==
  ASSUME Good, Exclusive, NEW f \in Fcb, NEW r \in Recs, NEW v \in Val, Write(f, r, v)
  PROVE  GoodStep
<1>1. CASE NotOpened(f, "WRITE", r)
  BY <1>1, NotOpenedRefines
<1>2. CASE ~ NotOpened(f, "WRITE", r)
  <2> DEFINE n    == fcb[f].name
             s    == ensure_open(f)
             kept == Without(m_files, Flushed(f))
             dt   == Settled(Flushed(f))
             file == Opened(f)
             p    == [rec |-> r, val |-> v]
             left == [file EXCEPT !.pend = {p}, !.seen = <<>>]
             c    == Table!Written(dt[dir[n]], r, v)
  <2>1. s # None /\ AloneToUse(f)
    BY <1>2 DEF Write
  <2>2. /\ Host(dir, With(Without(m_files, Displaced(f)), s, left), dt)
        /\ SetHandle(f, s) /\ AnswerTo("WRITE", f, r, 0, v)
    BY <1>2 DEF Write, Flushed
  <2>3. /\ Aligned(dir, kept, dt) /\ Files(dir, kept, dt) = Files(dir, m_files, data)
        /\ n \in DOMAIN dir /\ NotOpen(kept, n) /\ Records[n] = dt[dir[n]]
        /\ s \in Slots /\ s \notin DOMAIN kept
        /\ file \in OpenFile /\ file.host_path = n /\ file.file = dir[n]
        /\ \A x : With(Without(m_files, Displaced(f)), s, x) = With(kept, s, x)
    BY <2>1, TransferFacts
  <2>4. Host(dir, With(kept, s, left), dt)
    BY <2>2, <2>3
  <2>5. {p} \in SUBSET [rec : Recs, val : Val]
    OBVIOUS
  <2> HIDE DEF p, file
  <2>6. /\ left \in OpenFile /\ left.host_path = n /\ left.file = dir[n]
        /\ left.pend = {p} /\ left.seen = <<>>
    BY <2>3, <2>5, EmptyContents DEF OpenFile
  <2>7. Overlay(dt[dir[n]], {p}) = c
    <3>1. p.rec = r /\ p.val = v
      BY DEF p
    <3> HIDE DEF dt
    <3> QED BY <3>1, OverlayOf
  <2> HIDE DEF left, kept, dt, s, c
  <2>b. Buffered(left, dt)
    BY <2>6 DEF Buffered
  <2>8. /\ Aligned(dir, With(kept, s, left), dt)
        /\ Moved(dir, Files(dir, kept, dt), Files(dir, With(kept, s, left), dt), n, c)
    BY <2>3, <2>6, <2>7, <2>b, OpenKeeps
  <2>9. /\ Aligned(dir', m_files', data')
        /\ Files(dir', m_files', data') = Files(dir, With(kept, s, left), dt)
    BY <2>4, <2>8, HostKeeps
  <2>10. dir' = dir
    BY <2>4 DEF Host
  <2>11. /\ Records' = Files(dir, With(kept, s, left), dt)
         /\ Records = Files(dir, kept, dt)
    BY <2>3, <2>9, RecordsAre DEF Good
  <2>12. Records' = Table!Put(Records, n, c)
    <3>1. \A m \in DOMAIN dir : Records'[m] = IF m = n THEN c ELSE Records[m]
      BY <2>8, <2>11 DEF Moved
    <3>2. Records' = [m \in DOMAIN dir |-> Records'[m]]
      BY <2>11 DEF Files
    <3>3. DOMAIN Records = DOMAIN dir /\ DOMAIN dir \cup {n} = DOMAIN dir
      BY <2>3 DEF Records
    <3> HIDE DEF n
    <3> QED BY <3>1, <3>2, <3>3 DEF Table!Put
  <2>13. Paths' = Paths /\ Table!Exists(f) /\ Paths[f] = n
    BY <2>2, <2>3, StillPaths, Existing
  <2>14. c = Table!Written(Records[n], r, v)
    BY <2>3 DEF c
  <2>15. res' = Table!ReplyTo("WRITE", f, r, 0, v)
    BY <2>2 DEF AnswerTo, Table!ReplyTo
  <2>16. Table!FWrite(f, r, v)
    BY <2>12, <2>13, <2>14, <2>15 DEF Table!FWrite, Paths, Records
  <2> QED BY <2>9, <2>16 DEF GoodStep, Table!FNext, Recs
<1> QED BY <1>1, <1>2

LEMMA NextRefines ==
  ASSUME Good, Exclusive, Next
  PROVE  GoodStep
<1>1. CASE \E f \in Fcb, n \in Names : NewFcb(f, n) \/ Rename(f, n)
  BY <1>1, GuestRefines, RenameRefines
<1>2. CASE \E f, g \in Fcb : CopyFcb(f, g)
  <2>1. PICK f \in Fcb, g \in Fcb : CopyFcb(f, g)
    BY <1>2
  <2>2. fcb[f].name \in Names
    BY DEF Good, TypeOK
  <2> QED BY <2>1, <2>2, GuestRefines
<1>3. CASE \E f \in Fcb : OpenMissing(f) \/ OpenFound(f) \/ Close(f) \/ Delete(f) \/ Make(f) \/ Size(f)
  BY <1>3, OpenMissingRefines, OpenFoundRefines, CloseRefines, DeleteRefines, MakeRefines, SizeRefines
<1>4. CASE \E f \in Fcb, r \in Recs : Read(f, r) \/ \E v \in Val : Write(f, r, v)
  BY <1>4, ReadRefines, WriteRefines
<1>5. CASE WarmBoot
  BY <1>5, WarmBootRefines
<1> QED BY <1>1, <1>2, <1>3, <1>4, <1>5 DEF Next

\* For programs that keep to one FCB per open file, each call does to the paths'
\* records what it does in FcbFiles: slots that are closed, reopened or reused, with
\* their buffers, never show.
THEOREM TableIsInvisible ==
  ASSUME Exclusive
  PROVE  Spec => ImplementsFcbFiles
<1>1. Init => Aligned(dir, m_files, data)
  <2> SUFFICES ASSUME Init PROVE Aligned(dir, m_files, data)
    OBVIOUS
  <2>1. DOMAIN m_files = {} /\ DOMAIN dir = {} /\ m_files = <<>> /\ dir = <<>>
    BY DEF Init
  <2>2. data \in [Inodes -> Contents]
    BY EmptyContents DEF Init
  <2>3. DirType(dir) /\ TableType(m_files)
    BY <2>1 DEF DirType, TableType
  <2> QED BY <2>1, <2>2, <2>3 DEF Aligned
<1>2. Init => Table!FInit
  <2> SUFFICES ASSUME Init PROVE Table!FInit
    OBVIOUS
  <2>1. Paths \in [Fcb -> Names]
    BY DEF Init, Paths
  <2>2. Records = <<>>
    <3>1. DOMAIN dir = {}
      BY DEF Init
    <3> QED BY <3>1 DEF Records
  <2>3. \E f \in Fcb : res = Table!Reply("guest", f, 0, Zero)
    BY DEF Init, Table!Reply, Table!ReplyTo
  <2> QED BY <2>1, <2>2, <2>3 DEF Table!FInit, Paths, Records
<1>3. TypeOK /\ Aligned(dir, m_files, data) /\ [Next]_vars
        => Aligned(dir, m_files, data)' /\ [Table!FNext]_Table!fvars
  <2> SUFFICES ASSUME Good, [Next]_vars
               PROVE  Aligned(dir', m_files', data') /\ [Table!FNext]_Table!fvars
    BY DEF Good
  <2>1. CASE Next
    BY <2>1, NextRefines DEF GoodStep
  <2>2. CASE UNCHANGED vars
    <3>1. Aligned(dir', m_files', data') /\ Records' = Records
      BY <2>2, StillGood DEF vars
    <3>2. Paths' = Paths /\ res' = res
      BY <2>2 DEF vars, Paths
    <3> QED BY <3>1, <3>2 DEF Table!fvars, Paths, Records
  <2> QED BY <2>1, <2>2
<1> QED BY <1>1, <1>2, <1>3, FilesTypes, PTL DEF Spec, ImplementsFcbFiles, Table!FcbSpec
=============================================================================
