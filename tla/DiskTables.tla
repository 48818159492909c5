----------------------------- MODULE DiskTables ----------------------------
(***************************************************************************)
(* The disk parameter block of CP/M-8000 (struct dpb, struct dph of        *)
(* src/cpm8k/bios.c) and what the BDOS makes of it.  A record is 128       *)
(* bytes; dsm is the highest block number and drm the highest directory    *)
(* entry; al counts the blocks reserved for the directory.                 *)
(***************************************************************************)
EXTENDS Integers

Dpb(spt, bsh, exm, dsm, drm, al, cks, off) ==
  [spt |-> spt, bsh |-> bsh, exm |-> exm, dsm |-> dsm, drm |-> drm, al |-> al, cks |-> cks, off |-> off]

BlockRecords(d) == 2 ^ d.bsh
\* The record that the BDOS asks the BIOS for: track and sector of record r of block b.
TrackOf(d, b, r) == d.off + (b * BlockRecords(d) + r) \div d.spt
SectorOf(d, b, r) == (b * BlockRecords(d) + r) % d.spt

\* The directory is in reserved blocks, at four entries to the record.
DirectoryFits(d) == d.drm + 1 <= 4 * d.al * BlockRecords(d) /\ d.al <= d.dsm + 1 /\ d.al <= 16

\* The block numbers of an entry, one byte each or two, name its exm + 1 extents of 128 records.
ExtentsFit(d) == (IF d.dsm < 256 THEN 16 ELSE 8) * BlockRecords(d) = (d.exm + 1) * 128

\* The check vector has one byte for every directory record, or the disk is fixed; csv and
\* alv are the sizes of the two vectors.
VectorsFit(d, csv, alv) == d.cks \in {0, (d.drm + 1) \div 4} /\ csv >= d.cks /\ alv >= d.dsm \div 8 + 1
=============================================================================
