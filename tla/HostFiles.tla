------------------------------ MODULE HostFiles ------------------------------
(***************************************************************************)
(* Files on a host-directory drive of the emulator: CpmFileSystem, whose   *)
(* open-file table m_files stands between the FCBs of the guest programs   *)
(* and the files of the host.  An FCB names a file and carries, in byte    *)
(* AL[1] of its allocation map, the number of the slot it was opened in.   *)
(* It lives in guest memory: programs copy it, rebuild it and forget it as *)
(* they like, and the table never hears of it.                             *)
(*                                                                         *)
(* One BDOS call is one step: the emulator runs it to its end before the   *)
(* guest goes on.  The record a call transfers is a parameter (sequential  *)
(* and random calls differ only in where they take it from).               *)
(***************************************************************************)
EXTENDS Naturals, Sequences

CONSTANTS
  Fcb,             \* the FCBs: pairs of caller's segment and address
  Names,           \* host paths
  MAX_OPEN_FILES,  \* slots of the table
  Inodes,          \* files of the host, linked or not
  Val, Zero,       \* contents of a record; that of a gap
  MaxRec,          \* bound: records 0 .. MaxRec are used
  Exclusive        \* TRUE: programs keep to one open FCB per file (see Alone)

Slots == 1 .. MAX_OPEN_FILES
Recs  == 0 .. MaxRec
None  == 0         \* "no handle", "no slot"

ASSUME TableAssumption == MAX_OPEN_FILES \in Nat \ {0} /\ MaxRec \in Nat
ASSUME ContentsAssumption == Zero \in Val /\ Exclusive \in BOOLEAN

VARIABLES
  fcb,      \* guest memory: the name and the handle (AL[1]) in each FCB
  m_files,  \* the table: a function on the active slots
  dir,      \* the host directory: a function from the paths that exist to files
  data,     \* the contents of the host's files
  res       \* the last call and its answer: [op, fcb, arg, ret, val]

vars == <<fcb, m_files, dir, data, res>>

Contents == UNION {[1 .. n -> Val] : n \in 0 .. MaxRec + 1}

\* An open FILE of the host C library keeps the record written last in its buffer
\* (pend, at most one) and, after a read, what it read from the file (seen).
OpenFile == [owner: Fcb, host_path: Names, file: Inodes,
             pend: SUBSET [rec: Recs, val: Val], seen: Contents]

Calls == {"guest", "OPEN", "CLOSE", "DELETE", "MAKE", "RENAME", "READ", "WRITE",
          "SIZE", "WBOOT"}

Open == DOMAIN m_files

TypeOK ==
  /\ fcb \in [Fcb -> [name: Names, handle: {None} \cup Slots]]
  /\ Open \subseteq Slots /\ m_files \in [Open -> OpenFile]
  /\ DOMAIN dir \subseteq Names /\ dir \in [DOMAIN dir -> Inodes]
  /\ data \in [Inodes -> Contents]
  /\ res \in [op: Calls, fcb: Fcb, arg: Names \cup Recs, ret: {0, 1, 255},
              val: Val \cup (0 .. MaxRec + 1)]

\* "arg" is the record of a transfer, the new name of a rename, and 0 otherwise.
AnswerTo(op, f, arg, ret, val) ==
  res' = [op |-> op, fcb |-> f, arg |-> arg, ret |-> ret, val |-> val]
Answer(op, f, ret, val) == AnswerTo(op, f, 0, ret, val)

Init ==
  /\ fcb \in [Fcb -> [name: Names, handle: {None}]]
  /\ m_files = <<>> /\ dir = <<>>
  /\ data = [i \in Inodes |-> <<>>]
  /\ \E f \in Fcb : res = [op |-> "guest", fcb |-> f, arg |-> 0, ret |-> 0, val |-> Zero]

-----------------------------------------------------------------------------
(***************************************************************************)
(* The host.  A file lives as long as a path or an open FILE leads to it.  *)
(***************************************************************************)
With(fn, x, y)  == [z \in DOMAIN fn \cup {x} |-> IF z = x THEN y ELSE fn[z]]
Without(fn, S)  == [z \in DOMAIN fn \ S |-> fn[z]]

Held(d, fs) == {d[n] : n \in DOMAIN d} \cup {fs[s].file : s \in DOMAIN fs}

\* The host after a call; a file nothing leads to any more is gone.
Host(d, fs, dt) ==
  /\ dir' = d
  /\ m_files' = fs
  /\ data' = [i \in Inodes |-> IF i \in Held(d, fs) THEN dt[i] ELSE <<>>]

Least(S)    == CHOOSE s \in S : \A t \in S : s <= t
Greatest(S) == CHOOSE s \in S : \A t \in S : t <= s

\* The FILEs among slots C that hold record r of file i in their buffer.
Holding(C, i, r) ==
  {s \in C : m_files[s].file = i /\ \E p \in m_files[s].pend : p.rec = r}

\* data once the FILEs in slots C wrote their buffers out, in the order of the
\* table; a gap before a record reads as zeros.
Settled(C) ==
  [i \in Inodes |->
     [k \in 1 .. Greatest({Len(data[i])} \cup {r + 1 : r \in {x \in Recs : Holding(C, i, x) # {}}}) |->
        IF Holding(C, i, k - 1) # {}
        THEN (CHOOSE p \in m_files[Greatest(Holding(C, i, k - 1))].pend : TRUE).val
        ELSE IF k <= Len(data[i]) THEN data[i][k] ELSE Zero]]

NewFile(f, i) == [owner |-> f, host_path |-> fcb[f].name, file |-> i,
                  pend |-> {}, seen |-> <<>>]

-----------------------------------------------------------------------------
(***************************************************************************)
(* The helpers of CpmFileSystem.                                           *)
(***************************************************************************)
\* Operators with an underscore and a capital in their name, like the next, are
\* not part of the model: each is the definition after it with a plausible bug, and
\* some property of this module tells the two apart.
find_open_slot_Short(fs) ==
  LET free == (Slots \ {MAX_OPEN_FILES}) \ DOMAIN fs IN
  IF free = {} THEN None ELSE Least(free)

\* find_open_slot(): the lowest free slot, if there is one.
find_open_slot(fs) ==
  IF DOMAIN fs = Slots THEN None ELSE Least(Slots \ DOMAIN fs)

\* find_file_by_fcb(): whatever is open in the slot the handle names.
find_file_by_fcb(f) == IF fcb[f].handle \in Open THEN fcb[f].handle ELSE None

close_stale_Nothing(f) == {}

\* close_stale(): the slots opened through an FCB at the same address.
close_stale(f) == {s \in Open : m_files[s].owner = f}

SetHandle_Forgotten(f, s) == UNCHANGED fcb
SetHandle(f, s) == fcb' = [fcb EXCEPT ![f].handle = s]

Matching_AnyPath(f) == find_file_by_fcb(f) # None

\* ensure_open(): the slot the handle names, if it has the FCB's path; otherwise
\* that slot is closed (Displaced) and the path opened anew in a free one.
Matching(f) == /\ find_file_by_fcb(f) # None
               /\ m_files[find_file_by_fcb(f)].host_path = fcb[f].name
Displaced(f) == IF Matching(f) THEN {} ELSE {find_file_by_fcb(f)} \ {None}
ensure_open(f) ==
  IF Matching(f) THEN find_file_by_fcb(f)
  ELSE IF fcb[f].name \notin DOMAIN dir THEN None
  ELSE find_open_slot(Without(m_files, Displaced(f)))

\* Programs that keep to one FCB per open file and neither delete nor rename an
\* open one: nobody but the slots in "mine" has path n open.
Alone(n, mine) == Exclusive => \A s \in Open \ mine : m_files[s].host_path # n
AloneToUse(f)  == Matching(f) \/ Alone(fcb[f].name, {})

-----------------------------------------------------------------------------
(***************************************************************************)
(* The guest: it prepares an FCB, or copies one, handle included.          *)
(***************************************************************************)
NewFcb(f, n) ==
  /\ fcb' = [fcb EXCEPT ![f] = [name |-> n, handle |-> None]]
  /\ Answer("guest", f, 0, Zero)
  /\ UNCHANGED <<m_files, dir, data>>

CopyFcb(f, g) ==
  /\ fcb' = [fcb EXCEPT ![g] = fcb[f]]
  /\ Answer("guest", f, 0, Zero)
  /\ UNCHANGED <<m_files, dir, data>>

(***************************************************************************)
(* The BDOS functions.                                                     *)
(***************************************************************************)
OpenMissing(f) ==
  /\ fcb[f].name \notin DOMAIN dir
  /\ Answer("OPEN", f, 255, Zero)
  /\ UNCHANGED <<fcb, m_files, dir, data>>

OpenFound(f) ==
  LET stale == close_stale(f)
      kept  == Without(m_files, stale)
      s     == find_open_slot(kept)
  IN
  /\ fcb[f].name \in DOMAIN dir
  /\ Alone(fcb[f].name, stale)
  /\ IF s = None
     THEN /\ Host(dir, kept, Settled(stale))
          /\ Answer("OPEN", f, 255, Zero)
          /\ UNCHANGED fcb
     ELSE /\ Host(dir, With(kept, s, NewFile(f, dir[fcb[f].name])), Settled(stale))
          /\ SetHandle(f, s)
          /\ Answer("OPEN", f, 0, Zero)

\* file_close() asks the handle only: the slot may be another FCB's by now.
Close(f) ==
  LET s == find_file_by_fcb(f) IN
  /\ IF s = None
     THEN Answer("CLOSE", f, 255, Zero) /\ UNCHANGED <<fcb, m_files, dir, data>>
     ELSE /\ Host(dir, Without(m_files, {s}), Settled({s}))
          /\ SetHandle(f, None)
          /\ Answer("CLOSE", f, 0, Zero)

\* file_delete() closes by the handle and unlinks by the name.
Delete(f) ==
  LET mine == {find_file_by_fcb(f)} \ {None} IN
  /\ Alone(fcb[f].name, mine)
  /\ Host(Without(dir, {fcb[f].name}), Without(m_files, mine), Settled(mine))
  /\ Answer("DELETE", f, IF fcb[f].name \in DOMAIN dir THEN 0 ELSE 255, Zero)
  /\ UNCHANGED fcb

\* file_make(): fopen "w+b" empties a file that exists, for whoever has it open.
Make(f) ==
  LET stale == close_stale(f)
      kept  == Without(m_files, stale)
      s     == find_open_slot(kept)
      n     == fcb[f].name
  IN
  /\ Alone(n, stale)
  /\ IF s = None
     THEN Host(dir, kept, Settled(stale)) /\ Answer("MAKE", f, 255, Zero) /\ UNCHANGED fcb
     ELSE /\ \E i \in Inodes :
               /\ IF n \in DOMAIN dir THEN i = dir[n] ELSE i \notin Held(dir, m_files)
               /\ Host(With(dir, n, i), With(kept, s, NewFile(f, i)),
                       [Settled(stale) EXCEPT ![i] = <<>>])
          /\ SetHandle(f, s)
          /\ Answer("MAKE", f, 0, Zero)

\* file_rename(): the new name, in bytes 16 to 27, lies over the handle.
Rename(f, new) ==
  LET old == fcb[f].name IN
  /\ Alone(old, {}) /\ Alone(new, {})
  /\ SetHandle(f, None)
  /\ IF old \in DOMAIN dir
     THEN /\ Host(With(Without(dir, {old}), new, dir[old]), m_files, data)
          /\ AnswerTo("RENAME", f, new, 0, Zero)
     ELSE AnswerTo("RENAME", f, new, 255, Zero) /\ UNCHANGED <<m_files, dir, data>>

\* What ensure_open() leaves when it finds no file or no slot.
NotOpened(f, op, r) ==
  /\ ensure_open(f) = None
  /\ Host(dir, Without(m_files, Displaced(f)), Settled(Displaced(f)))
  /\ AnswerTo(op, f, r, 255, Zero)
  /\ UNCHANGED fcb

Opened(f) == IF Matching(f) THEN m_files[find_file_by_fcb(f)]
             ELSE NewFile(f, dir[fcb[f].name])

\* fseek writes the FILE's buffer out, and may leave in it what was read before:
\* fread takes the record from there or from the file.
Read(f, r) ==
  /\ AloneToUse(f)
  /\ \/ NotOpened(f, "READ", r)
     \/ /\ ensure_open(f) # None
        /\ LET s     == ensure_open(f)
               file  == Opened(f)
               after == Settled(IF Matching(f) THEN {s} ELSE Displaced(f))
           IN \E from \in {after[file.file]} \cup (IF r < Len(file.seen) THEN {file.seen} ELSE {}) :
                /\ Host(dir, With(Without(m_files, Displaced(f)), s,
                                  [file EXCEPT !.pend = {}, !.seen = from]), after)
                /\ SetHandle(f, s)
                /\ IF r < Len(from) THEN AnswerTo("READ", f, r, 0, from[r + 1])
                                    ELSE AnswerTo("READ", f, r, 1, Zero)

Write(f, r, v) ==
  /\ AloneToUse(f)
  /\ \/ NotOpened(f, "WRITE", r)
     \/ /\ ensure_open(f) # None
        /\ LET s     == ensure_open(f)
               after == Settled(IF Matching(f) THEN {s} ELSE Displaced(f))
           IN Host(dir, With(Without(m_files, Displaced(f)), s,
                             [Opened(f) EXCEPT !.pend = {[rec |-> r, val |-> v]}, !.seen = <<>>]),
                   after)
        /\ SetHandle(f, ensure_open(f))
        /\ AnswerTo("WRITE", f, r, 0, v)

\* file_size() asks the host, which has not seen what is still in a buffer.
Size(f) ==
  /\ IF fcb[f].name \in DOMAIN dir
     THEN Answer("SIZE", f, 0, Len(data[dir[fcb[f].name]]))
     ELSE Answer("SIZE", f, 255, Zero)
  /\ UNCHANGED <<fcb, m_files, dir, data>>

\* A warm boot: close_user_files() is never called.
WarmBoot ==
  /\ \E f \in Fcb : Answer("WBOOT", f, 0, Zero)
  /\ UNCHANGED <<fcb, m_files, dir, data>>

Next ==
  \/ \E f \in Fcb :
       \/ \E n \in Names : NewFcb(f, n) \/ Rename(f, n)
       \/ \E g \in Fcb : CopyFcb(f, g)
       \/ OpenMissing(f) \/ OpenFound(f) \/ Close(f) \/ Delete(f) \/ Make(f) \/ Size(f)
       \/ \E r \in Recs : Read(f, r) \/ \E v \in Val : Write(f, r, v)
  \/ WarmBoot

Spec == Init /\ [][Next]_vars

-----------------------------------------------------------------------------
(***************************************************************************)
(* Properties, whatever the programs do with their FCBs.                   *)
(***************************************************************************)

\* After F_OPEN or F_MAKE the FCB has one slot, the one its handle names: what an
\* earlier program left open through an FCB at the same address does not pile up
\* (close_stale).
OpenOwnsOneSlot ==
  [][ res'.op \in {"OPEN", "MAKE"} /\ res'.ret = 0 =>
        {s \in Open' : m_files'[s].owner = res'.fcb} = {fcb'[res'.fcb].handle} ]_vars

\* A call is refused only for a path that does not exist or a table with all its
\* slots in use (find_open_slot, ensure_open).
RefusedOnlyWhenFull ==
  [][ /\ res'.op \in {"OPEN", "READ", "WRITE"} /\ res'.ret = 255
           => fcb[res'.fcb].name \notin DOMAIN dir \/ Open' = Slots
      /\ res'.op = "MAKE" /\ res'.ret = 255 => Open' = Slots ]_vars

\* A transfer that succeeds went through a slot opened under the path of its FCB,
\* and the FCB knows that slot afterwards, whatever became of the slot its handle
\* named before (ensure_open).
TransfersGoByName ==
  [][ res'.op \in {"READ", "WRITE"} /\ res'.ret = 0 =>
        LET s == fcb'[res'.fcb].handle IN
        s \in Open' /\ m_files'[s].host_path = fcb[res'.fcb].name ]_vars

(***************************************************************************)
(* A claim of a comment that the code does not keep.  Another one, about   *)
(* copies of a closed FCB, needs history: it is in HostFilesCopies.        *)
(***************************************************************************)

\* ensure_open(): "Verify the slot still refers to the same file": a transfer goes
\* to the file that has the FCB's name.
SlotRefersToTheFile ==
  [][ res'.op \in {"READ", "WRITE"} /\ res'.ret = 0 =>
        /\ fcb[res'.fcb].name \in DOMAIN dir
        /\ m_files'[fcb'[res'.fcb].handle].file = dir[fcb[res'.fcb].name] ]_vars
=============================================================================
