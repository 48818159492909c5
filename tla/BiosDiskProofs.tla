--------------------------- MODULE BiosDiskProofs ---------------------------
(***************************************************************************)
(* Proofs about the track buffer, for every geometry, every number of      *)
(* drives and tracks, and every pattern of transfer errors.                *)
(*                                                                         *)
(* The argument is about the part of the state the helpers share, the      *)
(* records [valid, dirty, at, buf, disk, err, faulted]; Sound(st, p) says  *)
(* of them what the three invariants say of the state; each helper         *)
(* preserves it, and the actions are compositions of helpers.              *)
(***************************************************************************)
EXTENDS BiosDiskStore, TLAPS

USE GeometryAssumption, ContentsAssumption

State == [valid: BOOLEAN, dirty: BOOLEAN, at: Track, buf: TrackData,
          disk: [Track -> TrackData], err: {0, 1}, faulted: SUBSET Track]
Promise == [Track -> [Sectors -> Val \cup {Unknown}]]

ContentsOf(st, t) == IF st.valid /\ st.at = t THEN st.buf ELSE st.disk[t]

Intactness(st, p) == \A t \in Track \ st.faulted : ContentsOf(st, t) = p[t]
Cleanness(st)     == st.valid /\ ~st.dirty /\ st.err = 0 => st.buf = st.disk[st.at]
Attribution(st)   == st.err = 1 => st.at \in st.faulted
Sound(st, p)      == Intactness(st, p) /\ Cleanness(st) /\ Attribution(st)

\* A transfer that is not cut short moves the whole track.
LEMMA OverlayType ==
  ASSUME NEW a \in TrackData, NEW b \in TrackData, NEW n \in 0 .. PTRKSZ
  PROVE  /\ Overlay(a, b, n) \in TrackData
         /\ n = PTRKSZ => Overlay(a, b, n) = b
<1>1. Overlay(a, b, n) \in TrackData
  BY DEF Overlay, TrackData
<1>2. ASSUME n = PTRKSZ PROVE Overlay(a, b, n) = b
  <2>1. \A s \in Sectors : s <= n * Ratio
    BY <1>2 DEF Sectors
  <2>2. QED
    BY <2>1 DEF Overlay, TrackData
<1>3. QED
  BY <1>1, <1>2

LEMMA MovesRange ==
  ASSUME NEW b \in BOOLEAN
  PROVE  Moves(b) \subseteq 0 .. PTRKSZ
BY DEF Moves

\* flush() keeps the record well formed and sound, and leaves it clean.
LEMMA FlushType ==
  ASSUME NEW st \in State, NEW n \in 0 .. PTRKSZ
  PROVE  /\ flush(st, n) \in State
         /\ ~flush(st, n).dirty
         /\ flush(st, n).valid = st.valid
         /\ flush(st, n).at = st.at
         /\ flush(st, n).buf = st.buf
<1>1. /\ st.disk[st.at] \in TrackData /\ st.buf \in TrackData
  BY DEF State
<1>2. Overlay(st.disk[st.at], st.buf, n) \in TrackData
  BY <1>1, OverlayType
<1>3. Status(n) \in {0, 1} /\ Marked(st.faulted, st.at, n) \in SUBSET Track
  BY DEF Status, Marked, State
<1>4. CASE st.dirty /\ st.valid
  BY <1>2, <1>3, <1>4 DEF flush, State
<1>5. CASE ~(st.dirty /\ st.valid)
  BY <1>5 DEF flush, State
<1>6. QED
  BY <1>4, <1>5

\* A failed write-back costs only the track it was meant for.
LEMMA FlushSound ==
  ASSUME NEW st \in State, NEW n \in 0 .. PTRKSZ, NEW p \in Promise,
         Sound(st, p)
  PROVE  Sound(flush(st, n), p)
<1> DEFINE f == flush(st, n)
<1>1. /\ st.disk[st.at] \in TrackData /\ st.buf \in TrackData
      /\ st.disk \in [Track -> TrackData] /\ st.at \in Track
      /\ st.faulted \in SUBSET Track
  BY DEF State
<1>2. CASE st.dirty /\ st.valid
  <2> DEFINE o == Overlay(st.disk[st.at], st.buf, n)
  <2>1. /\ f.valid /\ f.at = st.at /\ f.buf = st.buf
        /\ f.disk = [st.disk EXCEPT ![st.at] = o]
        /\ f.err = Status(n) /\ f.faulted = Marked(st.faulted, st.at, n)
    BY <1>2 DEF flush
  <2>2. \A t \in Track : ContentsOf(f, t) = ContentsOf(st, t)
    BY <1>1, <1>2, <2>1 DEF ContentsOf
  <2>3. st.faulted \subseteq f.faulted
    BY <2>1 DEF Marked
  <2>4. Intactness(f, p)
    BY <2>2, <2>3 DEF Sound, Intactness
  <2>5. CASE n = PTRKSZ
    <3>1. f.buf = f.disk[f.at] /\ f.err = 0
      BY <1>1, <2>1, <2>5, OverlayType DEF Status
    <3>2. QED
      BY <2>4, <3>1 DEF Sound, Cleanness, Attribution
  <2>6. CASE n # PTRKSZ
    <3>1. f.err = 1 /\ f.at \in f.faulted
      BY <2>1, <2>6 DEF Status, Marked
    <3>2. QED
      BY <2>4, <3>1 DEF Sound, Cleanness, Attribution
  <2>7. QED BY <2>5, <2>6
<1>3. CASE ~(st.dirty /\ st.valid)
  <2>1. /\ f.valid = st.valid /\ f.at = st.at /\ f.buf = st.buf
        /\ f.disk = st.disk /\ f.err = st.err /\ f.faulted = st.faulted
    BY <1>3 DEF flush, State
  <2>2. Intactness(f, p)
    BY <2>1 DEF Sound, Intactness, ContentsOf
  <2>3. Cleanness(f) /\ Attribution(f)
    BY <1>3, <2>1 DEF Sound, Cleanness, Attribution
  <2>4. QED BY <2>2, <2>3 DEF Sound
<1>4. QED BY <1>2, <1>3

\* In a sound, clean state a track that never failed is as promised on the media.
LEMMA CleanIsDurable ==
  ASSUME NEW st \in State, NEW p \in Promise, Sound(st, p), ~st.dirty
  PROVE  \A t \in Track \ st.faulted : st.disk[t] = p[t]
<1> SUFFICES ASSUME NEW t \in Track \ st.faulted PROVE st.disk[t] = p[t]
  OBVIOUS
<1>1. ContentsOf(st, t) = p[t]
  BY DEF Sound, Intactness
<1>2. CASE st.valid /\ st.at = t
  <2>1. st.err = 0
    BY <1>2 DEF Sound, Attribution, State
  <2>2. st.buf = st.disk[t]
    BY <1>2, <2>1 DEF Sound, Cleanness
  <2>3. QED BY <1>1, <1>2, <2>2 DEF ContentsOf
<1>3. CASE ~(st.valid /\ st.at = t)
  BY <1>1, <1>3 DEF ContentsOf
<1>4. QED BY <1>2, <1>3

\* gettrk() leaves the wanted track in the buffer, in a sound state.
LEMMA GetTrkSound ==
  ASSUME NEW st \in State, NEW t \in Track, NEW p \in Promise,
         NEW n \in 0 .. PTRKSZ, NEW m \in 0 .. PTRKSZ
  PROVE  LET g == gettrk(st, t, n, m) IN
         /\ g \in State /\ g.valid /\ g.at = t
         /\ Sound(st, p) => Sound(g, p)
<1> DEFINE g == gettrk(st, t, n, m)
           f == flush(st, n)
<1>1. CASE ~wrongtk(st, t)
  BY <1>1 DEF gettrk, wrongtk
<1>2. CASE wrongtk(st, t)
  <2>1. f \in State /\ ~f.dirty
    BY FlushType
  <2>2. /\ f.disk[t] \in TrackData /\ f.buf \in TrackData
        /\ f.disk \in [Track -> TrackData] /\ f.faulted \in SUBSET Track
    BY <2>1 DEF State
  <2>3. /\ Overlay(f.buf, f.disk[t], m) \in TrackData
        /\ m = PTRKSZ => Overlay(f.buf, f.disk[t], m) = f.disk[t]
    BY <2>2, OverlayType
  <2>4. /\ g.valid /\ ~g.dirty /\ g.at = t
        /\ g.buf = Overlay(f.buf, f.disk[t], m) /\ g.disk = f.disk
        /\ g.err = Status(m) /\ g.faulted = Marked(f.faulted, t, m)
    BY <1>2 DEF gettrk, filltb
  <2>5. Status(m) \in {0, 1} /\ Marked(f.faulted, t, m) \in SUBSET Track
    BY <2>2 DEF Status, Marked
  <2>6. g \in State
    BY <1>2, <2>2, <2>3, <2>5 DEF gettrk, filltb, State
  <2>7. ASSUME Sound(st, p) PROVE Sound(g, p)
    <3>1. \A u \in Track \ f.faulted : g.disk[u] = p[u]
      BY <2>1, <2>4, <2>7, FlushSound, CleanIsDurable
    <3>2. CASE m = PTRKSZ
      <4>1. g.buf = g.disk[t] /\ g.err = 0 /\ g.faulted = f.faulted
        BY <2>3, <2>4, <3>2 DEF Status, Marked
      <4>2. QED
        BY <2>4, <3>1, <4>1
           DEF Sound, Intactness, Cleanness, Attribution, ContentsOf
    <3>3. CASE m # PTRKSZ
      <4>1. g.err = 1 /\ g.faulted = f.faulted \cup {t}
        BY <2>4, <3>3 DEF Status, Marked
      <4>2. QED
        BY <2>4, <3>1, <4>1
           DEF Sound, Intactness, Cleanness, Attribution, ContentsOf
    <3>4. QED BY <3>2, <3>3
  <2>8. QED BY <2>4, <2>6, <2>7
<1>3. QED BY <1>1, <1>2

\* Putting a sector into the buffer of its track keeps the record sound, against
\* the promise that says so.
LEMMA StoredSound ==
  ASSUME NEW st \in State, NEW p \in Promise, st.valid, Sound(st, p),
         NEW s \in Sectors, NEW v \in Val
  PROVE  /\ stored(st, s, v) \in State
         /\ [p EXCEPT ![st.at][s] = v] \in Promise
         /\ Sound(stored(st, s, v), [p EXCEPT ![st.at][s] = v])
<1> DEFINE w == stored(st, s, v)
           q == [p EXCEPT ![st.at][s] = v]
<1>1. /\ w.valid /\ w.dirty /\ w.at = st.at /\ w.buf = [st.buf EXCEPT ![s] = v]
      /\ w.disk = st.disk /\ w.err = st.err /\ w.faulted = st.faulted
      /\ st.at \in Track
  BY DEF stored, State
<1>2. w \in State
  BY DEF stored, State, TrackData
<1>3. q \in Promise
  BY <1>1 DEF Promise
<1>4. ASSUME NEW t \in Track \ w.faulted PROVE ContentsOf(w, t) = q[t]
  <2>1. ContentsOf(st, t) = p[t]
    BY <1>1, <1>4 DEF Sound, Intactness
  <2>2. CASE t = st.at
    <3>1. st.buf = p[t]
      BY <2>1, <2>2 DEF ContentsOf
    <3>2. q[t] = [p[t] EXCEPT ![s] = v]
      BY <1>1, <2>2 DEF Promise
    <3>3. QED BY <1>1, <2>2, <3>1, <3>2 DEF ContentsOf
  <2>3. CASE t # st.at
    BY <1>1, <2>1, <2>3 DEF ContentsOf, Promise
  <2>4. QED BY <2>2, <2>3
<1>5. Sound(w, q)
  BY <1>1, <1>4 DEF Sound, Intactness, Cleanness, Attribution
<1>6. QED BY <1>2, <1>3, <1>5

\* Soundness does not look at what is promised about failed tracks.
LEMMA SoundElsewhere ==
  ASSUME NEW st \in State, NEW p \in Promise, NEW q \in Promise, Sound(st, p),
         \A t \in Track \ st.faulted : q[t] = p[t]
  PROVE  Sound(st, q)
BY DEF Sound, Intactness

-----------------------------------------------------------------------------
(***************************************************************************)
(* The invariant, and the steps of the specification.                      *)
(***************************************************************************)
Inv == TypeOK /\ Intact /\ CleanBufferIsTheTrack /\ ErrorsBelongToTheTrack

LEMMA InvSound ==
  ASSUME TypeOK
  PROVE  /\ Now \in State /\ promised \in Promise
         /\ Intact /\ CleanBufferIsTheTrack /\ ErrorsBelongToTheTrack
              <=> Sound(Now, promised)
<1>1. Now \in State /\ promised \in Promise
  BY DEF TypeOK, Now, State, Promise
<1>2. /\ Intact <=> Intactness(Now, promised)
      /\ CleanBufferIsTheTrack <=> Cleanness(Now)
      /\ ErrorsBelongToTheTrack <=> Attribution(Now)
  BY DEF Intact, Contents, CleanBufferIsTheTrack, ErrorsBelongToTheTrack,
         Now, Intactness, ContentsOf, Cleanness, Attribution
<1>3. QED BY <1>1, <1>2 DEF Sound

LEMMA BecomeNow ==
  ASSUME NEW st \in State, Become(st)
  PROVE  Now' = st
BY DEF Become, Now, State

\* A step that gives the shared state a sound value keeps the invariant.
LEMMA SoundStep ==
  ASSUME NEW st \in State, Become(st), NEW p \in Promise, promised' = p,
         Sound(st, p),
         setdsk' \in 0 .. MAXDSK, settrk' \in Tracks, setsec' \in 0 .. TRKSZ,
         res' \in [op: Calls, ret: {0, 1}, val: Val]
  PROVE  Inv'
<1>1. TypeOK'
  BY DEF TypeOK, Become, State, Promise
<1>2. Now' = st
  BY BecomeNow
<1>3. Sound(Now, promised)'
  BY <1>2
<1>4. (TypeOK => (Intact /\ CleanBufferIsTheTrack /\ ErrorsBelongToTheTrack
                    <=> Sound(Now, promised)))'
  BY InvSound, PTL
<1>5. QED BY <1>1, <1>3, <1>4 DEF Inv

LEMMA HereIsATrack ==
  ASSUME TypeOK, Addressed
  PROVE  Here \in Track /\ setsec \in Sectors
BY DEF TypeOK, Addressed, Here, Track

\* SETTRK, HOME, SETSEC and SELDSK leave the buffer and the media alone.
LEMMA AddressStep ==
  ASSUME Inv, UNCHANGED Storage, res' = NoResult("other"),
         setdsk' \in 0 .. MAXDSK, settrk' \in Tracks, setsec' \in 0 .. TRKSZ
  PROVE  Inv'
<1>1. TypeOK' /\ res'.op = "other"
  BY DEF Inv, TypeOK, Storage, NoResult, Calls
<1>2. QED
  BY <1>1 DEF Inv, Storage, Intact, Contents, CleanBufferIsTheTrack,
              ErrorsBelongToTheTrack

LEMMA ReadStep ==
  ASSUME Inv, Read
  PROVE  /\ Inv' /\ res'.op = "READ"
         /\ Here \notin faulted'
              => res'.ret = 0 /\ res'.val = promised[Here][setsec]
<1>1. Here \in Track /\ setsec \in Sectors /\ TypeOK
  BY HereIsATrack DEF Inv, Read
<1>2. PICK n \in 0 .. PTRKSZ, m \in 0 .. PTRKSZ :
        LET st == gettrk(Now, Here, n, m) IN
        /\ Become(st)
        /\ res' = [op |-> "READ", ret |-> st.err, val |-> st.buf[setsec]]
  <2>1. Fills \in BOOLEAN /\ (Fills /\ Unsaved) \in BOOLEAN
    BY DEF Fills, wrongtk
  <2>2. QED BY <2>1, MovesRange DEF Read
<1> DEFINE st == gettrk(Now, Here, n, m)
<1>3. Now \in State /\ promised \in Promise /\ Sound(Now, promised)
  BY <1>1, InvSound DEF Inv
<1>4. st \in State /\ st.valid /\ st.at = Here /\ Sound(st, promised)
  BY <1>1, <1>3, GetTrkSound
<1>5. res' \in [op: Calls, ret: {0, 1}, val: Val] /\ res'.op = "READ"
  <2>1. st.err \in {0, 1} /\ st.buf[setsec] \in Val
    BY <1>1, <1>4 DEF State, TrackData
  <2>2. QED BY <1>2, <2>1 DEF Calls
<1>6. Inv'
  <2>1. promised' = promised /\ UNCHANGED Addressing
    BY DEF Read
  <2>2. QED
    BY <1>1, <1>2, <1>3, <1>4, <1>5, <2>1, SoundStep DEF TypeOK, Addressing
<1>7. ASSUME Here \notin faulted'
      PROVE  res'.ret = 0 /\ res'.val = promised[Here][setsec]
  <2>1. Here \notin st.faulted
    BY <1>2, <1>7 DEF Become
  <2>2. st.buf = promised[Here]
    BY <1>1, <1>4, <2>1 DEF Sound, Intactness, ContentsOf
  <2>3. st.err = 0
    BY <1>4, <2>1 DEF Sound, Attribution, State
  <2>4. QED BY <1>2, <2>2, <2>3
<1>8. QED BY <1>5, <1>6, <1>7

\* A sector stored in the buffer, and written through or not.
Final(got, s, v, mode, k) ==
  IF mode = 1 THEN flush(stored(got, s, v), k) ELSE stored(got, s, v)
PromisedAfter(p, t, s, v, err) == [p EXCEPT ![t][s] = IF err = 0 THEN v ELSE Unknown]

\* What is promised after a write, and what the record is worth against it.
LEMMA WriteSound ==
  ASSUME NEW got \in State, NEW p \in Promise, got.valid, Sound(got, p),
         NEW s \in Sectors, NEW v \in Val, NEW k \in 0 .. PTRKSZ,
         NEW mode \in {0, 1, 2}
  PROVE  /\ Final(got, s, v, mode, k) \in State
         /\ PromisedAfter(p, got.at, s, v, Final(got, s, v, mode, k).err) \in Promise
         /\ Sound(Final(got, s, v, mode, k),
                  PromisedAfter(p, got.at, s, v, Final(got, s, v, mode, k).err))
         /\ mode = 1 => ~Final(got, s, v, mode, k).dirty
         /\ mode = 1 /\ Final(got, s, v, mode, k).err = 0
              => Final(got, s, v, mode, k).disk[got.at][s] = v
<1> DEFINE w == stored(got, s, v)
           st == Final(got, s, v, mode, k)
           r == [p EXCEPT ![got.at][s] = v]
           q == PromisedAfter(p, got.at, s, v, st.err)
<1>1. w \in State /\ r \in Promise /\ Sound(w, r)
  BY StoredSound
<1>2. w.at = got.at /\ w.valid /\ w.dirty /\ w.buf[s] = v /\ got.at \in Track
  BY DEF stored, State, TrackData
<1>3. /\ st \in State /\ st.at = got.at /\ st.valid /\ st.buf = w.buf
      /\ mode = 1 => ~st.dirty
      /\ Sound(st, r)
  BY <1>1, <1>2, FlushType, FlushSound DEF Final
<1>4. q \in Promise
  BY <1>2 DEF Promise, PromisedAfter
<1>5. Sound(st, q)
  <2>1. CASE st.err = 0
    BY <1>3, <2>1 DEF PromisedAfter
  <2>2. CASE st.err # 0
    <3>1. got.at \in st.faulted
      BY <1>3, <2>2 DEF Sound, Attribution, State
    <3>2. \A t \in Track \ st.faulted : q[t] = r[t]
      BY <1>2, <3>1 DEF Promise, PromisedAfter
    <3>3. QED BY <1>1, <1>3, <1>4, <3>2, SoundElsewhere
  <2>3. QED BY <2>1, <2>2
<1>6. ASSUME mode = 1, st.err = 0 PROVE st.disk[got.at][s] = v
  <2>1. st.buf = st.disk[st.at]
    BY <1>3, <1>6 DEF Sound, Cleanness
  <2>2. QED BY <1>2, <1>3, <2>1
<1>7. QED BY <1>3, <1>4, <1>5, <1>6

\* The state Write leaves, by where its transfers stop.
Written(v, mode, n, m, k) ==
  Final(gettrk(Now, Here, n, m), setsec, v, mode, k)

LEMMA WriteStep ==
  ASSUME Inv, NEW v \in Val, NEW mode \in {0, 1, 2}, Write(v, mode)
  PROVE  /\ Inv'
         /\ res'.op = IF mode = 1 THEN "DIRWRITE" ELSE "WRITE"
         /\ mode = 1 /\ res'.ret = 0 => disk'[Here][setsec] = res'.val
         /\ mode = 1 => \A t \in Track \ faulted' : disk'[t] = promised'[t]
<1>1. Here \in Track /\ setsec \in Sectors /\ TypeOK
  BY HereIsATrack DEF Inv, Write
<1>2. PICK n \in Moves(Fills /\ Unsaved), m \in Moves(Fills), k \in Moves(mode = 1) :
        /\ Become(Written(v, mode, n, m, k))
        /\ res' = [op  |-> IF mode = 1 THEN "DIRWRITE" ELSE "WRITE",
                   ret |-> Written(v, mode, n, m, k).err, val |-> v]
        /\ promised' = PromisedAfter(promised, Here, setsec, v,
                                     Written(v, mode, n, m, k).err)
  BY DEF Write, Written, Final, PromisedAfter
<1> DEFINE g  == gettrk(Now, Here, n, m)
           st == Written(v, mode, n, m, k)
           q  == PromisedAfter(promised, Here, setsec, v, st.err)
<1>2a. n \in 0 .. PTRKSZ /\ m \in 0 .. PTRKSZ /\ k \in 0 .. PTRKSZ
  BY DEF Moves
<1>3. Now \in State /\ promised \in Promise /\ Sound(Now, promised)
  BY <1>1, InvSound DEF Inv
<1>4. g \in State /\ g.valid /\ g.at = Here /\ Sound(g, promised)
  BY <1>1, <1>3, <1>2a, GetTrkSound
<1>5. /\ st \in State /\ q \in Promise /\ Sound(st, q)
      /\ mode = 1 => ~st.dirty
      /\ mode = 1 /\ st.err = 0 => st.disk[Here][setsec] = v
  <2>1. st = Final(g, setsec, v, mode, k)
    BY DEF Written
  <2> HIDE DEF g, st
  <2>2. QED BY <1>1, <1>3, <1>4, <1>2a, <2>1, WriteSound
<1>6. res' \in [op: Calls, ret: {0, 1}, val: Val]
  BY <1>2, <1>5 DEF Calls, State
<1>7. Inv'
  <2>1. UNCHANGED Addressing
    BY DEF Write
  <2> HIDE DEF st, q
  <2>2. Become(st) /\ promised' = q
    BY <1>2 DEF st, q
  <2>3. QED BY <1>1, <1>5, <1>6, <2>1, <2>2, SoundStep DEF TypeOK, Addressing
<1>8. ASSUME mode = 1 PROVE \A t \in Track \ faulted' : disk'[t] = promised'[t]
  <2> HIDE DEF st, q
  <2>1. Become(st) /\ promised' = q
    BY <1>2 DEF st, q
  <2>2. QED BY <1>5, <1>8, <2>1, CleanIsDurable DEF Become
<1>9. ASSUME mode = 1, res'.ret = 0 PROVE disk'[Here][setsec] = res'.val
  BY <1>2, <1>5, <1>9 DEF Become
<1>10. QED BY <1>2, <1>7, <1>8, <1>9

\* FLUSH and a warm boot: the state after flush(), whose buffer a warm boot then
\* invalidates.
LEMMA FlushedStep ==
  ASSUME Inv, NEW n \in 0 .. PTRKSZ, NEW st \in {flush(Now, n), biosinit(flush(Now, n))},
         Become(st), UNCHANGED promised, UNCHANGED Addressing,
         res' \in [op: Calls, ret: {0, 1}, val: Val]
  PROVE  Inv' /\ \A t \in Track \ faulted' : disk'[t] = promised'[t]
<1> DEFINE f == flush(Now, n)
<1>1. Now \in State /\ promised \in Promise /\ Sound(Now, promised)
  BY InvSound DEF Inv
<1>2. f \in State /\ ~f.dirty /\ Sound(f, promised)
  BY <1>1, FlushType, FlushSound
<1>3. \A t \in Track \ f.faulted : f.disk[t] = promised[t]
  BY <1>1, <1>2, CleanIsDurable
<1> HIDE DEF f
<1>4. /\ biosinit(f) \in State
      /\ biosinit(f).disk = f.disk /\ biosinit(f).faulted = f.faulted
      /\ biosinit(f).err = f.err /\ biosinit(f).at = f.at
      /\ ~biosinit(f).valid /\ ~biosinit(f).dirty
  BY <1>2 DEF biosinit, State
<1>5. Sound(biosinit(f), promised)
  BY <1>2, <1>3, <1>4 DEF Sound, Intactness, Cleanness, Attribution, ContentsOf
<1>6. st = f \/ st = biosinit(f)
  BY DEF f
<1>7. st \in State /\ Sound(st, promised) /\ st.disk = f.disk /\ st.faulted = f.faulted
  BY <1>2, <1>4, <1>5, <1>6
<1>8. Inv'
  <2>1. TypeOK BY DEF Inv
  <2>2. QED BY <1>1, <1>7, <2>1, SoundStep DEF TypeOK, Addressing
<1>9. QED BY <1>3, <1>7, <1>8 DEF Become

LEMMA FlushStep ==
  ASSUME Inv, Flush
  PROVE  Inv' /\ res'.op = "FLUSH" /\ \A t \in Track \ faulted' : disk'[t] = promised'[t]
<1>1. PICK n \in 0 .. PTRKSZ :
        LET st == flush(Now, n) IN
        /\ Become(st)
        /\ res' = [op |-> "FLUSH", ret |-> st.err, val |-> Blank]
  <2>1. Unsaved \in BOOLEAN
    BY DEF Inv, TypeOK, Unsaved
  <2>2. QED BY <2>1, MovesRange DEF Flush
<1>2. flush(Now, n) \in State
  BY InvSound, FlushType DEF Inv
<1>3. res' \in [op: Calls, ret: {0, 1}, val: Val]
  BY <1>1, <1>2 DEF Calls, State
<1>4. UNCHANGED promised /\ UNCHANGED Addressing
  BY DEF Flush
<1>5. QED BY <1>1, <1>3, <1>4, FlushedStep

LEMMA WBootStep ==
  ASSUME Inv, WBoot
  PROVE  Inv' /\ res'.op = "WBOOT" /\ \A t \in Track \ faulted' : disk'[t] = promised'[t]
<1>1. PICK n \in 0 .. PTRKSZ : Become(biosinit(flush(Now, n)))
  <2>1. Unsaved \in BOOLEAN
    BY DEF Inv, TypeOK, Unsaved
  <2>2. QED BY <2>1, MovesRange DEF WBoot
<1>2. res' = NoResult("WBOOT") /\ UNCHANGED promised /\ UNCHANGED Addressing
  BY DEF WBoot
<1>3. res' \in [op: Calls, ret: {0, 1}, val: Val] /\ res'.op = "WBOOT"
  BY <1>2 DEF NoResult, Calls
<1>4. QED BY <1>1, <1>2, <1>3, FlushedStep

LEMMA BiosInitStep ==
  ASSUME Inv, BiosInit
  PROVE  Inv' /\ res'.op = "other"
<1> DEFINE st == biosinit(Now)
<1>1. Now \in State /\ TypeOK
  BY InvSound DEF Inv
<1>2. /\ st \in State /\ ~st.valid /\ st.disk = disk
      /\ st.err = dskerr /\ st.at = tbat /\ st.faulted = faulted
  BY <1>1 DEF biosinit, State, Now
<1>3. disk \in Promise /\ Sound(st, disk)
  <2>1. disk \in Promise
    BY <1>1 DEF TypeOK, Promise, TrackData
  <2>2. Attribution(st)
    BY <1>2 DEF Inv, ErrorsBelongToTheTrack, Attribution
  <2>3. QED BY <1>2, <2>1, <2>2 DEF Sound, Intactness, Cleanness, ContentsOf
<1>4. /\ Become(st) /\ promised' = disk /\ UNCHANGED Addressing
      /\ res' \in [op: Calls, ret: {0, 1}, val: Val] /\ res'.op = "other"
  BY <1>2 DEF BiosInit, Become, NoResult, Calls
<1> HIDE DEF st
<1>5. QED BY <1>1, <1>2, <1>3, <1>4, SoundStep DEF TypeOK, Addressing

LEMMA PowerCycleStep ==
  ASSUME Inv, PowerCycle
  PROVE  /\ Inv' /\ res'.op = "POWER"
         /\ \A t \in Track \ faulted :
              t # tbat \/ ~tbdirty => disk'[t] = promised[t]
<1>1. PICK n \in 0 .. PTRKSZ : disk' = flush(Now, n).disk
  BY DEF PowerCycle
<1>2. /\ Now \in State /\ promised \in Promise /\ Sound(Now, promised)
      /\ flush(Now, n) \in State /\ TypeOK
  BY InvSound, FlushType DEF Inv
<1>3. disk' \in [Track -> TrackData] /\ disk' \in Promise
  BY <1>1, <1>2 DEF State, TrackData, Promise
<1>4. TypeOK'
  <2>1. BlankTrack \in TrackData /\ <<0, 0>> \in Track /\ {} \in SUBSET Track
    BY DEF BlankTrack, TrackData, Track, Disks
  <2>2. res' \in [op: Calls, ret: {0, 1}, val: Val]
    BY DEF PowerCycle, NoResult, Calls
  <2>3. promised' \in Promise
    BY <1>3 DEF PowerCycle
  <2>4. /\ setdsk' \in 0 .. MAXDSK /\ settrk' \in Tracks /\ setsec' \in 0 .. TRKSZ
        /\ dskerr' \in {0, 1}
    BY DEF PowerCycle
  <2>5. tbvalid' \in BOOLEAN /\ tbdirty' \in BOOLEAN
    BY DEF PowerCycle
  <2>6. tbat' \in Track /\ trkbuf' \in TrackData /\ faulted' \in SUBSET Track
    BY <2>1 DEF PowerCycle
  <2>7. QED
    BY <1>3, <2>2, <2>3, <2>4, <2>5, <2>6 DEF TypeOK, Promise
<1>5. Inv'
  BY <1>4 DEF PowerCycle, Inv, Intact, Contents, CleanBufferIsTheTrack,
              ErrorsBelongToTheTrack
<1>6. ASSUME NEW t \in Track \ faulted, t # tbat \/ ~tbdirty
      PROVE  disk'[t] = promised[t]
  <2>1. CASE ~tbdirty
    <3>1. disk' = disk
      BY <1>1, <2>1 DEF flush, Now
    <3>2. disk[t] = promised[t]
      BY <1>2, <1>6, <2>1, CleanIsDurable DEF Now
    <3>3. QED BY <3>1, <3>2
  <2>2. CASE t # tbat
    <3>1. disk[t] = promised[t]
      BY <1>6, <2>2 DEF Inv, Intact, Contents
    <3>2. disk'[t] = disk[t]
      BY <1>1, <1>2, <1>6, <2>2 DEF flush, Now, TypeOK
    <3>3. QED BY <3>1, <3>2
  <2>3. QED BY <1>6, <2>1, <2>2
<1>7. res'.op = "POWER"
  BY DEF PowerCycle, NoResult
<1>8. QED BY <1>5, <1>6, <1>7

LEMMA InitInv == Init => Inv
<1> SUFFICES ASSUME Init PROVE Inv
  OBVIOUS
<1>1. BlankTrack \in TrackData /\ <<0, 0>> \in Track /\ {} \in SUBSET Track
  BY DEF BlankTrack, TrackData, Track, Disks
<1>2. TypeOK
  <2>1. disk \in [Track -> TrackData] /\ promised \in Promise
    BY <1>1 DEF Init, Promise, TrackData
  <2>2. res \in [op: Calls, ret: {0, 1}, val: Val]
    BY DEF Init, NoResult, Calls
  <2>3. setdsk \in 0 .. MAXDSK /\ settrk \in Tracks /\ setsec \in 0 .. TRKSZ
    BY DEF Init
  <2>4. tbvalid \in BOOLEAN /\ tbdirty \in BOOLEAN /\ dskerr \in {0, 1}
    BY DEF Init
  <2>5. tbat \in Track /\ trkbuf \in TrackData /\ faulted \in SUBSET Track
    BY <1>1 DEF Init
  <2>6. QED
    BY <2>1, <2>2, <2>3, <2>4, <2>5 DEF TypeOK, Promise
<1>3. QED
  BY <1>2 DEF Init, Inv, Intact, Contents, CleanBufferIsTheTrack,
              ErrorsBelongToTheTrack

\* What a step does, by the name of the call it leaves in res.
StepFacts ==
  /\ Inv'
  /\ res'.op = "READ" /\ Here \notin faulted'
       => res'.ret = 0 /\ res'.val = promised[Here][setsec]
  /\ res'.op \in {"FLUSH", "WBOOT"} =>
       \A t \in Track \ faulted' : disk'[t] = promised'[t]
  /\ res'.op = "DIRWRITE" /\ res'.ret = 0 =>
       /\ \A t \in Track \ faulted' : disk'[t] = promised'[t]
       /\ disk'[Here][setsec] = res'.val
  /\ res'.op = "POWER" =>
       \A t \in Track \ faulted :
         t # tbat \/ ~tbdirty => disk'[t] = promised[t]

LEMMA NextFacts == Inv /\ Next => StepFacts
<1> SUFFICES ASSUME Inv, Next PROVE StepFacts
  OBVIOUS
<1>0. TypeOK
  BY DEF Inv
<1>1. ASSUME NEW t \in Tracks, SetTrk(t) PROVE StepFacts
  <2>1. Inv' BY <1>0, <1>1, AddressStep DEF SetTrk, TypeOK
  <2>2. QED BY <1>1, <2>1 DEF SetTrk, NoResult, StepFacts
<1>2. CASE Home
  BY <1>1, <1>2 DEF Home
<1>3. ASSUME NEW s \in 0 .. TRKSZ - 1, SetSec(s) PROVE StepFacts
  <2>1. sectran(s) \in 0 .. TRKSZ
    BY DEF sectran
  <2>2. Inv' BY <1>0, <1>3, <2>1, AddressStep DEF SetSec, TypeOK
  <2>3. QED BY <1>3, <2>2 DEF SetSec, NoResult, StepFacts
<1>4. ASSUME NEW d \in 0 .. MAXDSK + 1, SelDsk(d) PROVE StepFacts
  <2>1. setdsk' \in 0 .. MAXDSK
    BY <1>0, <1>4 DEF SelDsk, TypeOK
  <2>2. Inv' BY <1>0, <1>4, <2>1, AddressStep DEF SelDsk, TypeOK
  <2>3. QED BY <1>4, <2>2 DEF SelDsk, NoResult, StepFacts
<1>5. CASE Read
  BY <1>5, ReadStep DEF StepFacts
<1>6. ASSUME NEW v \in Val, NEW mode \in {0, 1, 2}, Write(v, mode) PROVE StepFacts
  BY <1>6, WriteStep DEF StepFacts
<1>7. CASE Flush
  BY <1>7, FlushStep DEF StepFacts
<1>8. CASE WBoot
  BY <1>8, WBootStep DEF StepFacts
<1>9. CASE BiosInit
  BY <1>9, BiosInitStep DEF StepFacts
<1>10. CASE PowerCycle
  BY <1>10, PowerCycleStep DEF StepFacts
<1>11. QED
  BY <1>1, <1>2, <1>3, <1>4, <1>5, <1>6, <1>7, <1>8, <1>9, <1>10 DEF Next

LEMMA InvPreserved == Inv /\ [Next]_vars => Inv'
<1>1. Inv /\ Next => Inv'
  BY NextFacts DEF StepFacts
<1>2. ASSUME Inv, UNCHANGED vars PROVE Inv'
  BY <1>2 DEF Inv, vars, TypeOK, Intact, Contents, CleanBufferIsTheTrack,
              ErrorsBelongToTheTrack
<1>3. QED BY <1>1, <1>2

-----------------------------------------------------------------------------
(***************************************************************************)
(* The theorems.                                                           *)
(***************************************************************************)

LEMMA Invariance == Spec => []Inv
BY InitInv, InvPreserved, PTL DEF Spec

\* Every variable keeps its type through every BIOS call, error and power cycle.
THEOREM TypeCorrect == Spec => []TypeOK
<1>1. Inv => TypeOK
  BY DEF Inv
<1>2. QED BY <1>1, Invariance, PTL

\* A failed transfer damages no track but the one it addressed.
THEOREM Containment == Spec => []Intact
<1>1. Inv => Intact
  BY DEF Inv
<1>2. QED BY <1>1, Invariance, PTL

\* A clean buffer whose last transfer went well is a copy of its track.
THEOREM Coherence == Spec => []CleanBufferIsTheTrack
<1>1. Inv => CleanBufferIsTheTrack
  BY DEF Inv
<1>2. QED BY <1>1, Invariance, PTL

\* dskerr is never the status of a transfer of some other track.
THEOREM ErrorAttribution == Spec => []ErrorsBelongToTheTrack
<1>1. Inv => ErrorsBelongToTheTrack
  BY DEF Inv
<1>2. QED BY <1>1, Invariance, PTL

\* READ of a track that never failed returns what was written last.
THEOREM ReadYourWrites == Spec => ReadReturnsLastWrite
<1>1. Inv /\ [Next]_vars =>
        [ res'.op = "READ" /\ Here \notin faulted'
            => res'.ret = 0 /\ res'.val = promised[Here][setsec] ]_vars
  BY NextFacts DEF StepFacts
<1>2. QED BY <1>1, Invariance, PTL DEF Spec, ReadReturnsLastWrite

\* FLUSH, a warm boot and a directory write that succeeds are barriers.
THEOREM Barriers == Spec => BarriersSettle
<1>1. Inv /\ [Next]_vars =>
        [ /\ res'.op \in {"FLUSH", "WBOOT"} =>
               \A t \in Track \ faulted' : disk'[t] = promised'[t]
          /\ res'.op = "DIRWRITE" /\ res'.ret = 0 =>
               /\ \A t \in Track \ faulted' : disk'[t] = promised'[t]
               /\ disk'[Here][setsec] = res'.val ]_vars
  BY NextFacts DEF StepFacts
<1>2. QED BY <1>1, Invariance, PTL DEF Spec, BarriersSettle

\* A power failure costs at most the writes to the one buffered track.
THEOREM PowerCut == Spec => PowerCutCostsOneTrack
<1>1. Inv /\ [Next]_vars =>
        [ res'.op = "POWER" =>
            \A t \in Track \ faulted :
              t # tbat \/ ~tbdirty => disk'[t] = promised[t] ]_vars
  BY NextFacts DEF StepFacts
<1>2. QED BY <1>1, Invariance, PTL DEF Spec, PowerCutCostsOneTrack

-----------------------------------------------------------------------------
(***************************************************************************)
(* Refinement, on hardware that does not fail.  Then no track is ever      *)
(* marked, so by Intact the logical contents are what is promised, and a   *)
(* transfer moves sectors towards what is promised.                        *)
(***************************************************************************)
Logical == [t \in Track |-> Contents(t)]

\* Sectors of "new" differ from "old" only in being as promised.
Towards(old, p, new) ==
  /\ new \in [Track -> TrackData]
  /\ \A t \in Track : \A s \in Sectors : new[t][s] \in {old[t][s], p[t][s]}

LEMMA FlushTowards ==
  ASSUME NEW st \in State, NEW p \in Promise, Sound(st, p), st.faulted = {},
         NEW n \in 0 .. PTRKSZ
  PROVE  /\ Towards(st.disk, p, flush(st, n).disk)
         /\ n = PTRKSZ => flush(st, n).faulted = {}
<1> DEFINE f == flush(st, n)
           o == Overlay(st.disk[st.at], st.buf, n)
<1>1. f \in State
  BY FlushType
<1>2. CASE st.dirty /\ st.valid
  <2>1. f.disk = [st.disk EXCEPT ![st.at] = o] /\ f.faulted = Marked({}, st.at, n)
    BY <1>2 DEF flush
  <2>2. st.buf = p[st.at] /\ st.at \in Track /\ st.disk \in [Track -> TrackData]
    BY <1>2 DEF Sound, Intactness, ContentsOf, State
  <2>3. \A s \in Sectors : o[s] \in {st.disk[st.at][s], p[st.at][s]}
    BY <2>2 DEF Overlay
  <2>4. QED
    BY <1>1, <2>1, <2>2, <2>3 DEF Towards, State, Marked
<1>3. CASE ~(st.dirty /\ st.valid)
  BY <1>1, <1>3 DEF flush, Towards, State
<1>4. QED BY <1>2, <1>3

LEMMA GetTrkTowards ==
  ASSUME NEW st \in State, NEW p \in Promise, Sound(st, p), st.faulted = {},
         NEW t \in Track
  PROVE  LET g == gettrk(st, t, PTRKSZ, PTRKSZ) IN
         Towards(st.disk, p, g.disk) /\ g.faulted = {}
<1>0. PTRKSZ \in 0 .. PTRKSZ
  OBVIOUS
<1>1. CASE wrongtk(st, t)
  BY <1>0, <1>1, FlushTowards DEF gettrk, filltb, Marked
<1>2. CASE ~wrongtk(st, t)
  BY <1>2 DEF gettrk, Towards, State
<1>3. QED BY <1>1, <1>2

NoFaultInv == Inv /\ faulted = {}

LEMMA NoFaultLogical ==
  ASSUME NoFaultInv
  PROVE  Logical = promised /\ dskerr = 0
<1>1. \A t \in Track : Contents(t) = promised[t]
  BY DEF NoFaultInv, Inv, Intact
<1>2. promised \in [Track -> [Sectors -> Val \cup {Unknown}]]
  BY DEF NoFaultInv, Inv, TypeOK
<1>3. dskerr = 0
  BY DEF NoFaultInv, Inv, ErrorsBelongToTheTrack, TypeOK
<1>4. QED BY <1>1, <1>2, <1>3 DEF Logical

LEMMA NoFaultMoves ==
  ASSUME ~Faulty, NEW b \in BOOLEAN
  PROVE  Moves(b) = {PTRKSZ}
BY DEF Moves

LEMMA NoFaultNow ==
  ASSUME NoFaultInv
  PROVE  /\ Now \in State /\ promised \in Promise /\ Sound(Now, promised)
         /\ Now.faulted = {} /\ Now.disk = disk /\ TypeOK
<1>1. TypeOK /\ Now.faulted = {} /\ Now.disk = disk
  BY DEF NoFaultInv, Inv, Now
<1>2. QED
  BY <1>1, InvSound DEF NoFaultInv, Inv

\* What a step that is not a power cycle does to the media.
MediaStep == faulted' = {} /\ Towards(disk, promised, disk')

LEMMA NoFaultRead ==
  ASSUME ~Faulty, NoFaultInv, Read
  PROVE  MediaStep /\ promised' = promised
<1>1. Here \in Track
  BY NoFaultNow, HereIsATrack DEF Read
<1>2. Become(gettrk(Now, Here, PTRKSZ, PTRKSZ))
  BY NoFaultMoves DEF Read, Fills, Unsaved, wrongtk, Moves
<1>3. QED
  BY <1>1, <1>2, NoFaultNow, GetTrkTowards DEF Read, Become, MediaStep

LEMMA NoFaultFlush ==
  ASSUME ~Faulty, NoFaultInv, Flush \/ WBoot
  PROVE  MediaStep /\ promised' = promised
<1>1. Become(flush(Now, PTRKSZ)) \/ Become(biosinit(flush(Now, PTRKSZ)))
  BY DEF Flush, WBoot, Moves
<1>2. flush(Now, PTRKSZ) \in State
  BY NoFaultNow, FlushType
<1>3. disk' = flush(Now, PTRKSZ).disk /\ faulted' = flush(Now, PTRKSZ).faulted
  BY <1>1, <1>2 DEF Become, biosinit, State
<1>4. QED
  BY <1>3, NoFaultNow, FlushTowards DEF MediaStep, Flush, WBoot

LEMMA NoFaultWrite ==
  ASSUME ~Faulty, NoFaultInv, NEW v \in Val, NEW mode \in {0, 1, 2}, Write(v, mode)
  PROVE  /\ faulted' = {}
         /\ mode # 1 => Towards(disk, promised, disk')
<1> DEFINE g == gettrk(Now, Here, PTRKSZ, PTRKSZ)
           w == stored(g, setsec, v)
<1>1. Here \in Track /\ setsec \in Sectors
  BY NoFaultNow, HereIsATrack DEF Write
<1>2. Become(Final(g, setsec, v, mode, PTRKSZ))
  BY DEF Write, Final, Moves
<1>3. /\ g \in State /\ g.valid /\ Sound(g, promised) /\ g.faulted = {}
      /\ Towards(disk, promised, g.disk)
  BY <1>1, NoFaultNow, GetTrkSound, GetTrkTowards
<1>4. w \in State /\ w.faulted = {} /\ w.disk = g.disk
  <2>1. w \in State
    BY <1>1, <1>3, NoFaultNow, StoredSound
  <2> HIDE DEF g
  <2>2. w.faulted = g.faulted /\ w.disk = g.disk
    BY <1>3 DEF stored, State
  <2>3. QED BY <1>3, <2>1, <2>2
<1>5. flush(w, PTRKSZ).faulted = {}
  BY <1>4 DEF flush, Marked, State
<1>6. QED
  BY <1>2, <1>3, <1>4, <1>5 DEF Final, Become

LEMMA NoFaultPreserved ==
  ASSUME ~Faulty
  PROVE  NoFaultInv /\ [Next]_vars => NoFaultInv'
<1> SUFFICES ASSUME NoFaultInv, [Next]_vars PROVE NoFaultInv'
  OBVIOUS
<1>1. Inv'
  BY InvPreserved DEF NoFaultInv
<1>2. faulted' = {}
  <2>1. CASE Read
    BY <2>1, NoFaultRead DEF MediaStep
  <2>2. CASE Flush \/ WBoot
    BY <2>2, NoFaultFlush DEF MediaStep
  <2>3. ASSUME NEW v \in Val, NEW mode \in {0, 1, 2}, Write(v, mode)
        PROVE  faulted' = {}
    BY <2>3, NoFaultWrite
  <2>4. CASE BiosInit
    BY <2>4, NoFaultNow DEF BiosInit, Become, biosinit, State
  <2>5. CASE PowerCycle
    BY <2>5 DEF PowerCycle
  <2>6. ASSUME UNCHANGED Storage \/ UNCHANGED vars PROVE faulted' = {}
    BY <2>6 DEF Storage, vars, NoFaultInv
  <2>7. QED
    BY <2>1, <2>2, <2>3, <2>4, <2>5, <2>6 DEF Next, SetTrk, Home, SetSec, SelDsk
<1>3. QED BY <1>1, <1>2 DEF NoFaultInv

LEMMA Media ==
  ASSUME TypeOK', NEW p, NEW q, Towards(disk, p, disk'), p = q
  PROVE  Store!WriteBack(q)
BY DEF Towards, Store!WriteBack, TrackData

\* What the caller addressed is in the range the store knows, also after a step.
LEMMA AddressTyped ==
  ASSUME TypeOK
  PROVE  Here \in (0 .. MAXDSK) \X Tracks /\ setsec \in 0 .. TRKSZ
BY DEF TypeOK, Here

LEMMA AddressKept ==
  ASSUME UNCHANGED Addressing
  PROVE  Store!SameAddress
BY DEF Addressing, Here, Store!SameAddress

\* Every step of BiosDisk is a step of SectorStore, or changes nothing there.
LEMMA StepRefines ==
  ASSUME ~Faulty, NoFaultInv, [Next]_vars, NoFaultInv'
  PROVE  [Store!StoreNext]_Store!svars
<1>1. Logical = promised /\ dskerr = 0
  BY NoFaultLogical
<1>2. Logical' = promised' /\ dskerr' = 0
  <2>1. (NoFaultInv => Logical = promised /\ dskerr = 0)'
    BY NoFaultLogical, PTL
  <2>2. QED BY <2>1
<1>3. Inv /\ TypeOK /\ TypeOK' /\ Now \in State
  BY NoFaultNow DEF NoFaultInv, Inv
<1>12. Store!NewAddress
  <2>1. (TypeOK => Here \in (0 .. MAXDSK) \X Tracks /\ setsec \in 0 .. TRKSZ)'
    BY AddressTyped, PTL
  <2>2. QED BY <1>3, <2>1 DEF Store!NewAddress
<1>4. CASE Read
  <2>1. Here \in Track /\ setsec \in Sectors
    BY <1>3, <1>4, HereIsATrack DEF Read
  <2>2. MediaStep /\ promised' = promised
    BY <1>4, NoFaultRead
  <2>3. res' = [op |-> "READ", ret |-> 0, val |-> promised[Here][setsec]]
    <3>1. res'.val = promised[Here][setsec]
      BY <1>3, <1>4, <2>1, <2>2, ReadStep DEF MediaStep
    <3>2. PICK n \in Moves(Fills /\ Unsaved), m \in Moves(Fills) :
            /\ dskerr' = gettrk(Now, Here, n, m).err
            /\ res' = [op  |-> "READ", ret |-> gettrk(Now, Here, n, m).err,
                       val |-> gettrk(Now, Here, n, m).buf[setsec]]
      BY <1>4 DEF Read, Become
    <3>3. QED BY <1>2, <3>1, <3>2
  <2>9. Store!Exists /\ Store!SameAddress
    BY <1>4, <2>1, AddressKept DEF Read, Store!Exists
  <2>4. Store!ReadSector
    BY <1>1, <1>2, <1>3, <2>9, <2>2, <2>3, Media
       DEF Store!ReadSector, Store!Answer, Logical, MediaStep
  <2>5. QED BY <2>1, <2>4 DEF Store!StoreNext
<1>5. ASSUME NEW v \in Val, NEW mode \in {0, 1, 2}, Write(v, mode)
      PROVE  Store!StoreNext
  <2>1. Here \in Track /\ setsec \in Sectors
    BY <1>3, <1>5, HereIsATrack DEF Write
  <2>2. PICK n \in Moves(Fills /\ Unsaved), m \in Moves(Fills), k \in Moves(mode = 1) :
        /\ Become(Written(v, mode, n, m, k))
        /\ res' = [op  |-> IF mode = 1 THEN "DIRWRITE" ELSE "WRITE",
                   ret |-> Written(v, mode, n, m, k).err, val |-> v]
        /\ promised' = PromisedAfter(promised, Here, setsec, v,
                                     Written(v, mode, n, m, k).err)
    BY <1>5 DEF Write, Written, Final, PromisedAfter
  <2>3. Written(v, mode, n, m, k).err = 0
    BY <1>2, <2>2 DEF Become
  <2>4. /\ promised' = [promised EXCEPT ![Here][setsec] = v]
        /\ res' = [op  |-> IF mode = 1 THEN "DIRWRITE" ELSE "WRITE",
                   ret |-> 0, val |-> v]
    BY <2>2, <2>3 DEF PromisedAfter
  <2>9. Store!Exists /\ Store!SameAddress
    BY <1>5, <2>1, AddressKept DEF Write, Store!Exists
  <2>5. CASE mode = 1
    <3>1. \A t \in Track : disk'[t] = promised'[t]
      BY <1>3, <1>5, <2>5, WriteStep, NoFaultWrite
    <3>2. disk' = promised'
      BY <1>3, <3>1 DEF TypeOK
    <3>3. Store!WriteDirectory(v)
      BY <1>1, <1>2, <2>9, <2>4, <2>5, <3>2
         DEF Store!WriteDirectory, Store!Answer, Store!Settle, Logical
    <3>4. QED BY <2>1, <3>3 DEF Store!StoreNext
  <2>6. CASE mode # 1
    <3>1. Towards(disk, promised, disk')
      BY <1>5, <2>6, NoFaultWrite
    <3>2. Store!WriteBack(Logical)
      BY <1>1, <1>3, <3>1, Media
    <3>3. Store!WriteSector(v)
      BY <1>1, <1>2, <2>9, <2>4, <2>6, <3>2 DEF Store!WriteSector, Store!Answer, Logical
    <3>4. QED BY <2>1, <3>3 DEF Store!StoreNext
  <2>7. QED BY <2>5, <2>6
<1>6. CASE Flush \/ WBoot
  <2>1. promised' = promised /\ faulted' = {}
    BY <1>6, NoFaultFlush DEF MediaStep
  <2>2. \A t \in Track : disk'[t] = promised'[t]
    BY <1>3, <1>6, <2>1, FlushStep, WBootStep
  <2>3. disk' = promised'
    BY <1>3, <2>2 DEF TypeOK
  <2>4. PICK op \in {"FLUSH", "WBOOT"} : res' = [op |-> op, ret |-> 0, val |-> Blank]
    BY <1>2, <1>6 DEF Flush, WBoot, Become, NoResult
  <2>9. Store!SameAddress
    BY <1>6, AddressKept DEF Flush, WBoot
  <2>5. Store!Synchronise(op)
    BY <2>9, <1>1, <1>2, <2>1, <2>3, <2>4
       DEF Store!Synchronise, Store!Answer, Store!Settle, Logical
  <2>6. QED BY <2>5 DEF Store!StoreNext
<1>7. CASE BiosInit
  <2>1. disk' = disk /\ promised' = disk
    BY <1>3, <1>7 DEF BiosInit, Become, biosinit, State, Now
  <2>9. Store!SameAddress
    BY <1>7, AddressKept DEF BiosInit
  <2>2. Store!Forget
    BY <2>9, <1>2, <1>7, <2>1 DEF BiosInit, NoResult, Store!Forget, Store!Answer, Logical
  <2>3. QED BY <2>2 DEF Store!StoreNext
<1>8. CASE PowerCycle
  <2>1. PICK n \in 0 .. PTRKSZ : disk' = flush(Now, n).disk
    BY <1>8 DEF PowerCycle
  <2>2. Towards(disk, promised, disk')
    BY <2>1, NoFaultNow, FlushTowards
  <2>3. Store!WriteBack(Logical)
    BY <1>1, <1>3, <2>2, Media
  <2>4. Store!PowerFailure
    BY <1>12, <1>2, <1>8, <2>3 DEF PowerCycle, NoResult, Store!PowerFailure, Store!Answer, Logical
  <2>5. QED BY <2>4 DEF Store!StoreNext
<1>9. ASSUME UNCHANGED Storage, res' = NoResult("other") PROVE Store!StoreNext
  <2>1. disk' = disk /\ promised' = promised
    BY <1>9 DEF Storage
  <2>2. Store!Address
    BY <1>12, <1>1, <1>2, <1>9, <2>1 DEF NoResult, Store!Address, Store!Answer, Logical
  <2>3. QED BY <2>2 DEF Store!StoreNext
<1>10. ASSUME UNCHANGED vars PROVE UNCHANGED Store!svars
  <2>1. promised' = promised /\ disk' = disk /\ res' = res /\ Here' = Here /\ setsec' = setsec
    BY <1>10 DEF vars, Here
  <2>2. QED BY <1>1, <1>2, <2>1 DEF Store!svars, Logical
<1>11. QED
  BY <1>4, <1>5, <1>6, <1>7, <1>8, <1>9, <1>10
     DEF Next, SetTrk, Home, SetSec, SelDsk

\* On hardware that does not fail the track buffer cannot be told from an array of
\* sectors with write-back semantics.
THEOREM Refinement ==
  ASSUME ~Faulty
  PROVE  Spec => ImplementsStore
<1>1. Init => NoFaultInv
  BY InitInv DEF NoFaultInv, Init
<1>2. Init => Store!StoreInit
  <2> SUFFICES ASSUME Init PROVE Store!StoreInit
    OBVIOUS
  <2>1. Logical = promised
    BY <1>1, NoFaultLogical
  <2>2. Here \in (0 .. MAXDSK) \X Tracks /\ setsec \in 0 .. TRKSZ
    BY <1>1, AddressTyped DEF NoFaultInv, Inv
  <2>3. QED
    BY <2>1, <2>2 DEF Init, NoResult, BlankTrack, Logical, Store!StoreInit, Store!BlankStore
<1>3. NoFaultInv /\ [Next]_vars => NoFaultInv'
  BY NoFaultPreserved
<1>4. NoFaultInv /\ [Next]_vars /\ NoFaultInv' => [Store!StoreNext]_Store!svars
  BY StepRefines
<1>5. QED
  BY <1>1, <1>2, <1>3, <1>4, PTL DEF Spec, ImplementsStore, Store!StoreSpec
=============================================================================
