------------------------------ MODULE BiosDisk ------------------------------
(***************************************************************************)
(* The disk half of the resident C BIOS: logical 128-byte sectors are read *)
(* and written through one track buffer (trkbuf) that is filled on demand  *)
(* and written back lazily.  The same code, but for the constants, is in   *)
(* the four BIOS packages (src/cpm8k, src/bios/m20-serial, plasmo and      *)
(* z8002-demo).                                                            *)
(*                                                                         *)
(* A BIOS call runs to completion before the next one (system calls are    *)
(* not re-entered), so a call is one step.  What is not atomic is the disk *)
(* transfer inside it: disk_io moves the physical sectors of a track one   *)
(* by one and gives up at the first error, and the machine can lose power  *)
(* between two of them.                                                    *)
(***************************************************************************)
EXTENDS Naturals

CONSTANTS
  MAXDSK,   \* bios.c: "max. number of disks"
  Tracks,   \* the track numbers in use
  TRKSZ,    \* logical (128-byte) sectors in a track
  PTRKSZ,   \* physical sectors in a track
  Val,      \* contents of a logical sector
  Blank,    \* contents of every sector of the disks at the start
  Unknown,  \* "no promise": the caller was told that the write failed
  Faulty    \* TRUE iff a physical transfer may fail

Disks   == 0 .. MAXDSK - 1
Track   == Disks \X Tracks
Sectors == 1 .. TRKSZ

\* Logical sectors in a physical one: 2 on the M20, 4 on the ATA boards.
Ratio == TRKSZ \div PTRKSZ

ASSUME GeometryAssumption ==
  /\ MAXDSK \in Nat \ {0}
  /\ TRKSZ \in Nat \ {0} /\ PTRKSZ \in Nat \ {0}
  /\ Ratio \in Nat \ {0} /\ TRKSZ = PTRKSZ * Ratio
ASSUME ContentsAssumption ==
  0 \in Tracks /\ Blank \in Val /\ Unknown \notin Val /\ Faulty \in BOOLEAN

VARIABLES
  setdsk, settrk, setsec,   \* what the next READ or WRITE will address
  tbvalid, tbdirty,         \* flags of the track buffer
  tbat,     \* <<tbdsk, tbtrk>>, the track it holds
  trkbuf,   \* its contents
  dskerr,   \* status of the last physical transfer
  disk,     \* the media: a function from tracks to their sectors
  res,      \* what the last call handed to its caller: [op, ret, val]
  \* History variables, not in the code:
  promised, \* what the callers may expect in each sector
  faulted   \* the tracks some transfer failed on, since the last cold boot

vars == <<setdsk, settrk, setsec, tbvalid, tbdirty, tbat, trkbuf, dskerr, disk,
          res, promised, faulted>>

TrackData == [Sectors -> Val]

\* The calls with a result, or a consequence, that the properties speak of.
Calls == {"other", "READ", "WRITE", "DIRWRITE", "FLUSH", "WBOOT", "POWER"}

TypeOK ==
  /\ setdsk \in 0 .. MAXDSK
  /\ settrk \in Tracks
  /\ setsec \in 0 .. TRKSZ
  /\ tbvalid \in BOOLEAN /\ tbdirty \in BOOLEAN
  /\ tbat \in Track /\ trkbuf \in TrackData
  /\ dskerr \in {0, 1}
  /\ disk \in [Track -> TrackData]
  /\ res \in [op: Calls, ret: {0, 1}, val: Val]
  /\ promised \in [Track -> [Sectors -> Val \cup {Unknown}]]
  /\ faulted \in SUBSET Track

NoResult(op) == [op |-> op, ret |-> 0, val |-> Blank]
BlankTrack == [s \in Sectors |-> Blank]

Init ==
  /\ setdsk = 0 /\ settrk = 0 /\ setsec = 0
  /\ tbvalid = FALSE /\ tbdirty = FALSE
  /\ tbat = <<0, 0>> /\ trkbuf = BlankTrack
  /\ dskerr = 0
  /\ disk = [t \in Track |-> BlankTrack]
  /\ res = NoResult("other")
  /\ promised = disk
  /\ faulted = {}

-----------------------------------------------------------------------------
(***************************************************************************)
(* The helpers, on the part of the state they share.  Each takes, for a    *)
(* transfer it may make, the number n of physical sectors moved before it  *)
(* stops; PTRKSZ is success.                                               *)
(***************************************************************************)
Here == <<setdsk, settrk>>
Now  == [valid |-> tbvalid, dirty |-> tbdirty, at |-> tbat, buf |-> trkbuf,
         disk |-> disk, err |-> dskerr, faulted |-> faulted]

\* Where a transfer may stop, when there is one.
Moves(transfer) == IF Faulty /\ transfer THEN 0 .. PTRKSZ ELSE {PTRKSZ}

\* disk_io: the first n physical sectors of track "from" replace those of "to".
Overlay(to, from, n) == [s \in Sectors |-> IF s <= n * Ratio THEN from[s] ELSE to[s]]

\* Operators with an underscore in their name, here and below, are not part of
\* the model: each is the definition after it with a plausible bug, and some
\* property of this module tells the two apart.
Status_Ignored(n) == 0

\* dskxfer sets dskerr anew on every transfer; a failure marks the track.
Status(n) == IF n = PTRKSZ THEN 0 ELSE 1
Marked(old, t, n) == IF n = PTRKSZ THEN old ELSE old \cup {t}

\* flush() cleans the buffer whether or not the transfer succeeded.
flush(st, n) ==
  IF st.dirty /\ st.valid
  THEN [valid   |-> TRUE, dirty |-> FALSE, at |-> st.at, buf |-> st.buf,
        disk    |-> [st.disk EXCEPT ![st.at] = Overlay(st.disk[st.at], st.buf, n)],
        err     |-> Status(n),
        faulted |-> Marked(st.faulted, st.at, n)]
  ELSE [st EXCEPT !.dirty = FALSE]

filltb_NoEviction(st, t, n, m) ==
  [valid   |-> TRUE, dirty |-> FALSE, at |-> t,
   buf     |-> Overlay(st.buf, st.disk[t], m),
   disk    |-> st.disk,
   err     |-> Status(m),
   faulted |-> Marked(st.faulted, t, m)]

filltb_KeepsOldError(st, t, n, m) ==
  LET out == flush(st, n) IN
  [valid   |-> TRUE, dirty |-> FALSE, at |-> t,
   buf     |-> Overlay(out.buf, out.disk[t], m),
   disk    |-> out.disk,
   err     |-> IF out.err = 1 THEN 1 ELSE Status(m),
   faulted |-> Marked(out.faulted, t, m)]

filltb_RelabelsFirst(st, t, n, m) ==
  LET out == flush([st EXCEPT !.at = t], n) IN
  [valid   |-> TRUE, dirty |-> FALSE, at |-> t,
   buf     |-> Overlay(out.buf, out.disk[t], m),
   disk    |-> out.disk,
   err     |-> Status(m),
   faulted |-> Marked(out.faulted, t, m)]

\* filltb() evicts (n), reads the wanted track (m) and declares it valid.
filltb(st, t, n, m) ==
  LET out == flush(st, n) IN
  [valid   |-> TRUE, dirty |-> FALSE, at |-> t,
   buf     |-> Overlay(out.buf, out.disk[t], m),
   disk    |-> out.disk,
   err     |-> Status(m),
   faulted |-> Marked(out.faulted, t, m)]

wrongtk_ValidOnly(st, t) == ~st.valid
wrongtk_AnyDrive(st, t)  == ~st.valid \/ st.at[2] # t[2]

wrongtk(st, t) == ~st.valid \/ st.at # t

gettrk(st, t, n, m) == IF wrongtk(st, t) THEN filltb(st, t, n, m) ELSE st

\* A sector is copied from the caller into the buffer.
stored(st, s, v) == [st EXCEPT !.buf = [st.buf EXCEPT ![s] = v], !.dirty = TRUE]

\* biosinit(): the track buffer is forgotten, dirty or not.
biosinit(st) == [st EXCEPT !.valid = FALSE, !.dirty = FALSE]

Become(st) ==
  /\ tbvalid' = st.valid /\ tbdirty' = st.dirty
  /\ tbat' = st.at /\ trkbuf' = st.buf
  /\ disk' = st.disk
  /\ dskerr' = st.err
  /\ faulted' = st.faulted

-----------------------------------------------------------------------------
(***************************************************************************)
(* The BIOS functions.                                                     *)
(***************************************************************************)
Addressing == <<setdsk, settrk, setsec>>
Storage    == <<tbvalid, tbdirty, tbat, trkbuf, disk, dskerr, faulted, promised>>

SetTrk(t) ==
  /\ settrk' = t
  /\ res' = NoResult("other")
  /\ UNCHANGED <<setdsk, setsec>> /\ UNCHANGED Storage

Home == SetTrk(0)

sectran_OffByOne(s) == s + 2

\* sectran() looks the 0-based sector up in xlt16, whose entries count from 1.
sectran(s) == s + 1

\* The caller passes SECTRAN's answer on to SETSEC.
SetSec(s) ==
  /\ setsec' = sectran(s)
  /\ res' = NoResult("other")
  /\ UNCHANGED <<setdsk, settrk>> /\ UNCHANGED Storage

\* seldisk() turns a drive above MAXDSK away before it touches setdsk, and
\* drive MAXDSK, which has no DPH either, after.
SelDsk(d) ==
  /\ setdsk' = IF d > MAXDSK THEN setdsk ELSE d
  /\ res' = NoResult("other")
  /\ UNCHANGED <<settrk, setsec>> /\ UNCHANGED Storage

\* A caller transfers only after SELDSK gave it a DPH and SETSEC a sector.
Addressed == setdsk \in Disks /\ setsec \in Sectors

Fills     == wrongtk(Now, Here)
Unsaved   == tbvalid /\ tbdirty

Read ==
  /\ Addressed
  /\ \E n \in Moves(Fills /\ Unsaved), m \in Moves(Fills) :
       LET st == gettrk(Now, Here, n, m) IN
       /\ Become(st)
       /\ res' = [op |-> "READ", ret |-> st.err, val |-> st.buf[setsec]]
  /\ UNCHANGED promised /\ UNCHANGED Addressing

\* mode 1 is a directory write, flushed at once; 0 and 2 stay in the buffer.
Write(v, mode) ==
  /\ Addressed
  /\ \E n \in Moves(Fills /\ Unsaved), m \in Moves(Fills), k \in Moves(mode = 1) :
       LET got == gettrk(Now, Here, n, m)
           put == stored(got, setsec, v)
           st  == IF mode = 1 THEN flush(put, k) ELSE put
       IN  /\ Become(st)
           /\ res' = [op  |-> IF mode = 1 THEN "DIRWRITE" ELSE "WRITE",
                       ret |-> st.err, val |-> v]
           /\ promised' = [promised EXCEPT ![Here][setsec] =
                             IF st.err = 0 THEN v ELSE Unknown]
  /\ UNCHANGED Addressing

Flush ==
  /\ \E n \in Moves(Unsaved) :
       LET st == flush(Now, n) IN
       /\ Become(st)
       /\ res' = [op |-> "FLUSH", ret |-> st.err, val |-> Blank]
  /\ UNCHANGED promised /\ UNCHANGED Addressing

WBoot_InitFirst ==
  /\ \E n \in Moves(Unsaved) : Become(flush(biosinit(Now), n))
  /\ res' = NoResult("WBOOT")
  /\ UNCHANGED promised /\ UNCHANGED Addressing

\* _wboot: flush, whose status nobody looks at, then biosinit.
WBoot ==
  /\ \E n \in Moves(Unsaved) : Become(biosinit(flush(Now, n)))
  /\ res' = NoResult("WBOOT")
  /\ UNCHANGED promised /\ UNCHANGED Addressing

\* INIT (function 0) as a call: documented for the cold boot only, it drops what
\* the buffer holds, so only the media counts from here on.
BiosInit ==
  /\ Become(biosinit(Now))
  /\ res' = NoResult("other")
  /\ promised' = disk'
  /\ UNCHANGED Addressing

(***************************************************************************)
(* Power fails, possibly in the middle of a write-back (n sectors reached  *)
(* the media, 0 if no write-back was under way), and the system cold boots *)
(* with fresh static storage.  From here on the media is what the callers  *)
(* can expect to see.                                                      *)
(***************************************************************************)
PowerCycle ==
  /\ \E n \in 0 .. PTRKSZ : disk' = flush(Now, n).disk
  /\ setdsk' = 0 /\ settrk' = 0 /\ setsec' = 0
  /\ tbvalid' = FALSE /\ tbdirty' = FALSE
  /\ tbat' = <<0, 0>> /\ trkbuf' = BlankTrack
  /\ dskerr' = 0
  /\ res' = NoResult("POWER")
  /\ promised' = disk'
  /\ faulted' = {}

Next ==
  \/ \E t \in Tracks : SetTrk(t)
  \/ Home
  \/ \E s \in 0 .. TRKSZ - 1 : SetSec(s)
  \/ \E d \in 0 .. MAXDSK + 1 : SelDsk(d)
  \/ Read
  \/ \E v \in Val, mode \in {0, 1, 2} : Write(v, mode)
  \/ Flush
  \/ WBoot
  \/ BiosInit
  \/ PowerCycle

Spec == Init /\ [][Next]_vars

-----------------------------------------------------------------------------
(***************************************************************************)
(* Properties.                                                             *)
(***************************************************************************)

\* What a READ of track t would be served from.
Contents(t) == IF tbvalid /\ tbat = t THEN trkbuf ELSE disk[t]

\* A failed transfer damages no track but the one it addressed: every other
\* track still reads back, through buffer and media, as its callers were promised
\* (gettrk, filltb and flush keep the buffer's label and contents together).
Intact == \A t \in Track \ faulted : Contents(t) = promised[t]

\* A clean buffer whose last transfer went well is a copy of its track, however
\* many transfers failed before (dskwrite, flush, filltb, dskxfer).
CleanBufferIsTheTrack ==
  tbvalid /\ ~tbdirty /\ dskerr = 0 => trkbuf = disk[tbat]

\* dskerr is never the status of a transfer of some other track: the error of a
\* failed eviction is not pinned on the track that was read after it.
ErrorsBelongToTheTrack == dskerr = 1 => tbat \in faulted

\* READ of a track that never failed succeeds and returns what was written last,
\* wherever the track has been meanwhile (dskread).
ReadReturnsLastWrite ==
  [][ res'.op = "READ" /\ Here \notin faulted'
        => res'.ret = 0 /\ res'.val = promised[Here][setsec] ]_vars

\* FLUSH, a warm boot and a successful directory write are barriers: all that was
\* promised on tracks that never failed is on the media after them, not only the
\* sector that was written (dskwrite with mode 1, flush, _wboot).
BarriersSettle ==
  [][ /\ res'.op \in {"FLUSH", "WBOOT"} =>
           \A t \in Track \ faulted' : disk'[t] = promised'[t]
      /\ res'.op = "DIRWRITE" /\ res'.ret = 0 =>
           /\ \A t \in Track \ faulted' : disk'[t] = promised'[t]
           /\ disk'[Here][setsec] = res'.val ]_vars

\* A power failure costs at most writes to the one buffered track, and nothing
\* when the buffer was clean (filltb evicts before it reuses the buffer).
PowerCutCostsOneTrack ==
  [][ res'.op = "POWER" =>
        \A t \in Track \ faulted :
          t # tbat \/ ~tbdirty => disk'[t] = promised[t] ]_vars

(***************************************************************************)
(* Claims of the documents that the code does not keep.                    *)
(***************************************************************************)

\* doc/system_guide.md, function 21: after FLUSH "all disk writes have been
\* physically completed", and 0 is returned only then.
FlushZeroIsDurable ==
  [][ res'.op = "FLUSH" /\ res'.ret = 0 =>
        \A t \in Track : \A s \in Sectors :
          promised[t][s] \in {disk'[t][s], Unknown} ]_vars

=============================================================================
