---------------------------- MODULE BiosDiskStore ----------------------------
(***************************************************************************)
(* On hardware that does not fail, the track buffer is invisible: BiosDisk *)
(* implements SectorStore.  A sector's logical contents are in the buffer  *)
(* if its track is, and on the media otherwise.                            *)
(***************************************************************************)
EXTENDS BiosDisk

Store == INSTANCE SectorStore
           WITH here <- Here, sec <- setsec,
                logical <- [t \in Track |-> Contents(t)], media <- disk,
                Places <- (0 .. MAXDSK) \X Tracks, Numbers <- 0 .. TRKSZ

\* BiosDisk implements the write-back store: a read sees the last write to the
\* sector that was addressed, barriers settle, and a power failure or INIT costs
\* only what was not on the media yet (gettrk, filltb, flush, dskread, dskwrite,
\* biosinit).
ImplementsStore == Store!StoreSpec
=============================================================================
