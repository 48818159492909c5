----------------------------- MODULE HostDisks -----------------------------
(***************************************************************************)
(* Disk tables of the hosted emulator: the geometry derived from the size  *)
(* of an image file and the tables built in the system segment, drive      *)
(* after drive (derive_dpb and bios_init_disks of                          *)
(* src/cpm8kemu/cpm8k_bios.cpp), and the positions that BIOS_READ and      *)
(* BIOS_WRITE make of tracks and sectors.                                  *)
(***************************************************************************)
EXTENDS DiskTables, Sequences

CONSTANTS ImageSizes,   \* of the image files given with -d, in bytes
          BASE,         \* offset of the tables in the system segment
          NUM_DRIVES    \* 16 in the code

ASSUME HostDisksAssumption ==
  ImageSizes \subseteq Nat /\ BASE \in 0..2 ^ 16 - 1 /\ NUM_DRIVES \in Nat

VARIABLES drives,    \* the drives configured so far: [size, dpb, tables]; size -1 for a directory
          off,       \* the next free offset
          at         \* [drive, block, rec]: the record the native BDOS is at
hvars == <<drives, off, at>>

Greater(a, b) == IF a > b THEN a ELSE b
Smaller(a, b) == IF a < b THEN a ELSE b
Even(n) == n + (n % 2)
W16(n) == n % 2 ^ 16

M20_FLOPPY == Dpb(32, 4, 1, 134, 63, 2, 16, 3)

\* derive_dpb.  Blocks grow from 2 KB to 16 KB as long as there are more than 8192.
BlockShift(data) ==
  LET few == {b \in 4..7 : data \div 2 ^ (b + 7) <= 8192}
  IN IF few = {} THEN 7 ELSE CHOOSE b \in few : \A c \in few : b <= c
TwoByteMask_OfOne(bsh, dsm) == 2 ^ (bsh - 3) - 1
TwoByteMask(bsh, dsm) == IF dsm < 256 THEN 2 ^ (bsh - 3) - 1 ELSE 2 ^ (bsh - 4) - 1
DirBlocks(entries, block) == Smaller(16, (entries * 32 + block - 1) \div block)
NBlocks_Upward(data, block) == Smaller(2 ^ 16, (data + block - 1) \div block)
NBlocks(data, block) == Smaller(2 ^ 16, data \div block)
derive_dpb(size) ==
  IF size <= 512 * 1024 THEN M20_FLOPPY
  ELSE LET data  == Greater(4096, size - 3 * 4096)
           bsh   == BlockShift(data)
           block == 2 ^ (bsh + 7)
           dsm   == NBlocks(data, block) - 1
           al    == DirBlocks(Greater(128, data \div 4096), block)
       IN Dpb(32, bsh, TwoByteMask(bsh, dsm), dsm, W16(al * (block \div 32) - 1), al, 0, 3)

-----------------------------------------------------------------------------

\* The buffer of the directory comes first.
HostDisksInit_NoBuffer == drives = <<>> /\ off = W16(Even(BASE)) /\ at = [drive |-> 0, block |-> 0, rec |-> 0]
HostDisksInit == drives = <<>> /\ off = W16(Even(BASE) + 128) /\ at = [drive |-> 0, block |-> 0, rec |-> 0]

\* bios_init_disks: the next configured drive gets its parameter block, header and vectors.
AlvSize(d) == Even(d.dsm \div 8 + 1)
InitDisk(size) ==
  /\ at.drive = 0 /\ Len(drives) < NUM_DRIVES
  /\ LET d == IF size = -1 THEN M20_FLOPPY ELSE derive_dpb(size)
         lengths == <<18, 16, Even(d.cks), AlvSize(d)>>
         From[i \in 1..5] == IF i = 1 THEN off ELSE W16(From[i - 1] + lengths[i - 1])
     IN /\ drives' = Append(drives, [size |-> size, dpb |-> d,
                       tables |-> [i \in 1..4 |-> [from |-> From[i], length |-> lengths[i]]]])
        /\ off' = From[5]
  /\ UNCHANGED at

\* The native BDOS selects an image drive and goes through its blocks.
SelectDrive(n) ==
  /\ at.drive = 0 /\ drives[n].size # -1
  /\ \E b \in {0, drives[n].dpb.dsm \div 2, drives[n].dpb.dsm} :
       at' = [drive |-> n, block |-> b, rec |-> 0]
  /\ UNCHANGED <<drives, off>>
LastRecord ==
  /\ at.drive # 0
  /\ at' = [at EXCEPT !.rec = BlockRecords(drives[at.drive].dpb) - 1]
  /\ UNCHANGED <<drives, off>>

\* BIOS_SETTRK, BIOS_READ and BIOS_WRITE: the place in the image, in records.
Seek(d, b, r) == W16(TrackOf(d, b, r)) * 32 + W16(SectorOf(d, b, r))

HostDisksNext ==
  \/ \E size \in ImageSizes \cup {-1} : InitDisk(size)
  \/ \E n \in 1..Len(drives) : SelectDrive(n)
  \/ LastRecord
HostDisksSpec == HostDisksInit /\ [][HostDisksNext]_hvars

-----------------------------------------------------------------------------
(* Properties.                                                             *)

\* The tables follow each other behind the directory buffer and end within the segment.
TablesInTurn ==
  \A n, m \in 1..Len(drives), i, j \in 1..4 :
    LET s == drives[n].tables[i]
        t == drives[m].tables[j]
    IN /\ s.from >= Even(BASE) + 128 /\ s.from + s.length <= 2 ^ 16
       /\ n < m \/ (n = m /\ i < j) => s.from + s.length <= t.from

\* A bounds the allocation vectors, and that many drives with such vectors have room.
HaveRoom(A) ==
  /\ \A n \in 1..Len(drives) : drives[n].tables[4].length <= A
  /\ BASE + 129 + Len(drives) * (50 + A) < 2 ^ 16

\* As long as the segment has room for as many drives with the longest of their allocation
\* vectors, no table overlaps another or the directory buffer (bios_init_disks, which adds up
\* offsets of 16 bits and does not check them).
TablesApart ==
  (\E n \in 1..Len(drives) : HaveRoom(drives[n].tables[4].length)) => TablesInTurn

\* A derived geometry is one the BDOS can use: directory in whole reserved blocks, entries
\* that name whole extents, vectors long enough (derive_dpb).
GeometryIsUsable ==
  \A n \in 1..Len(drives) : LET d == drives[n].dpb IN
    /\ DirectoryFits(d) /\ ExtentsFit(d)
    /\ VectorsFit(d, drives[n].tables[3].length, drives[n].tables[4].length)

\* Every record of a block lies in the image file, behind the reserved tracks (derive_dpb,
\* BIOS_READ).  The floppies' last block, which does not, is the M20's: see DiskLayout.
RecordsLieInTheImage ==
  at.drive # 0 =>
    LET d == drives[at.drive].dpb IN
      d # M20_FLOPPY =>
        /\ Seek(d, at.block, at.rec) = 3 * 32 + at.block * BlockRecords(d) + at.rec
        /\ Seek(d, at.block, at.rec) < drives[at.drive].size \div 128
=============================================================================
