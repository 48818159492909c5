----------------------------- MODULE DiskLayout ----------------------------
(***************************************************************************)
(* Where the blocks of a CP/M disk lie: the parameter blocks that the four *)
(* BIOS packages give their disks, the way of a record through sectran,    *)
(* the track buffer and disk_io, and the boot tracks that PUTBOOT writes   *)
(* (src/cpm8k/bios.c, src/bios and src/cpm8k/putboot.c).                   *)
(***************************************************************************)
EXTENDS DiskTables, FiniteSets

CONSTANTS Disks,       \* the disks looked at, by name
          BootSizes    \* of bootstrap files given to PUTBOOT, in bytes

ASSUME LayoutAssumption ==
  /\ Disks \subseteq {"m20-floppy", "m20-hard-disk", "m20-serial-floppy", "plasmo", "z8002-demo"}
  /\ BootSizes \subseteq Nat

VARIABLES disk,
          record,    \* [block, rec]: the record the BDOS is at
          boot,      \* bytes of the bootstrap file that PUTBOOT is writing, or -1
          put        \* records written by PUTBOOT so far
lvars == <<disk, record, boot, put>>

\* The tables.  size: of the medium, in records; ptrksz and psecsz: a track for disk_io.
dpb1 == Dpb(32, 4, 1, 134, 63, 2, 16, 3)
dpb3_M20 == Dpb(32, 5, 1, 2154, 511, 4, 0, 3)
dpb3_Plasmo == Dpb(32, 5, 1, 2031, 511, 4, 0, 16)
dpb3_Z8002Demo == Dpb(32, 5, 1, 2031, 511, 4, 0, 16)
dpb1_Serial == Dpb(32, 4, 1, 134, 63, 2, 16, 3)

KB(n) == 8 * n
Table ==
  [name \in {"m20-floppy", "m20-hard-disk", "m20-serial-floppy", "plasmo", "z8002-demo"} |->
    CASE name = "m20-floppy" -> [dpb |-> dpb1, csv |-> 16, alv |-> 32, size |-> KB(280), ptrksz |-> 16, psecsz |-> 256]
      [] name = "m20-hard-disk" -> [dpb |-> dpb3_M20, csv |-> 32, alv |-> 2002, size |-> KB(8640), ptrksz |-> 16, psecsz |-> 256]
      [] name = "m20-serial-floppy" -> [dpb |-> dpb1_Serial, csv |-> 16, alv |-> 32, size |-> KB(280), ptrksz |-> 16, psecsz |-> 256]
      [] name = "plasmo" -> [dpb |-> dpb3_Plasmo, csv |-> 16, alv |-> 254, size |-> KB(8192), ptrksz |-> 8, psecsz |-> 512]
      [] name = "z8002-demo" -> [dpb |-> dpb3_Z8002Demo, csv |-> 16, alv |-> 254, size |-> KB(8192), ptrksz |-> 8, psecsz |-> 512]]
Of == Table[disk]

\* xlt16, which numbers sectors from 1, and dskread's and dskwrite's index into trkbuf.
xlt16 == [s \in 0..31 |-> s + 1]
InTrkbuf_FromZero(setsec) == setsec
InTrkbuf(setsec) == setsec - 1

\* dskxfer: the blocks of disk_io are 16-bit numbers.  The record of the medium that sector
\* setsec of track settrk is.
dskxfer(settrk) == (settrk * Of.ptrksz) % 2 ^ 16
OnDisk(settrk, setsec) == (dskxfer(settrk) * Of.psecsz) \div 128 + InTrkbuf(setsec)

Place(at) == OnDisk(TrackOf(Of.dpb, at.block, at.rec), xlt16[SectorOf(Of.dpb, at.block, at.rec)])

LayoutInit ==
  /\ disk \in Disks
  /\ record = [block |-> 0, rec |-> 0]
  /\ boot = -1 /\ put = {}

\* The BDOS goes on to the last record of a block, and to the first of the next.
Advance ==
  /\ boot = -1
  /\ record' = IF record.rec = 0 THEN [record EXCEPT !.rec = BlockRecords(Of.dpb) - 1]
               ELSE [block |-> record.block + 1, rec |-> 0]
  /\ record'.block <= Of.dpb.dsm
  /\ UNCHANGED <<disk, boot, put>>

-----------------------------------------------------------------------------
(* PUTBOOT.                                                                *)

SYSTRKS == 2
LSPT == 32
STARTRK == 1
SYSSIZE == 16 * 256 * SYSTRKS

\* What precedes the program in syscode: a sector and a header that the PROM expects.
Preamble == 256 + 24

\* The size is checked without the preamble.  A file that is larger than syscode with it
\* overwrites what follows, the drive number perhaps: then another disk is written, or none.
PutBoot ==
  /\ boot = -1 /\ record = [block |-> 0, rec |-> 0] /\ disk \in {"m20-floppy", "m20-hard-disk"}
  /\ boot' \in {n \in BootSizes : n <= SYSSIZE}
  /\ \/ put' = {OnDisk(0, 1)}
     \/ boot' + Preamble > SYSSIZE /\ put' = put
  /\ UNCHANGED <<disk, record>>

\* putblk: logical sectors are written in turn; sector numbers start at 1.
putblk_FromZero(i) == OnDisk(STARTRK + i \div LSPT, i % LSPT)
putblk(i) == OnDisk(STARTRK + i \div LSPT, (i % LSPT) + 1)

PutBlk ==
  /\ put # {} /\ Cardinality(put) <= SYSTRKS * LSPT
  /\ put' = put \cup {putblk(Cardinality(put) - 1)}
  /\ UNCHANGED <<disk, record, boot>>

LayoutNext == Advance \/ PutBoot \/ PutBlk
LayoutSpec == LayoutInit /\ [][LayoutNext]_lvars

-----------------------------------------------------------------------------
(* Properties.                                                             *)

\* The records that the BDOS can ask for follow each other on the medium, behind the
\* reserved tracks and up to its end at most, and the directory, the extents and the two
\* vectors are as large as the parameter block asks (dpb, xlt16, dskread and dskxfer).
BlocksLieOnTheDisk ==
  /\ Place(record) = Of.dpb.off * Of.dpb.spt + record.block * BlockRecords(Of.dpb) + record.rec
  /\ Place(record) < Of.size
  /\ DirectoryFits(Of.dpb) /\ ExtentsFit(Of.dpb) /\ VectorsFit(Of.dpb, Of.csv, Of.alv)

\* Once PUTBOOT is done, the records that a bootstrap of n bytes needs, with the preamble, are
\* on the disk from the first sector of STARTRK on.
RecordsNeeded(n) == 0..(n + Preamble - 1) \div 128
InPlace(records) ==
  Cardinality(put) = SYSTRKS * LSPT + 1 => \A i \in records : OnDisk(STARTRK, 1) + i \in put

\* PUTBOOT writes nothing but the reserved tracks, and there the bootstrap as far as syscode
\* holds it: the whole of a file that fits with the preamble (putboot, putblk).
BootIsInPlace ==
  /\ put \subseteq {0} \cup (Of.dpb.spt .. Of.dpb.off * Of.dpb.spt - 1)
  /\ InPlace(RecordsNeeded(boot) \cap 0..SYSTRKS * LSPT - 1)
=============================================================================
