---------------------------- MODULE LayoutProofs ----------------------------
(***************************************************************************)
(* Proofs about DiskLayout and HostDisks: where the records of a disk and  *)
(* of an image lie, what PUTBOOT writes, and what the derived disk tables  *)
(* promise, for images of any size that the track numbers and the system   *)
(* segment have room for.                                                  *)
(***************************************************************************)
EXTENDS DiskLayout, HostDisks, FiniteSetTheorems, TLAPS

-----------------------------------------------------------------------------
(* The disks of the packages.                                              *)

LEMMA Powers ==
  /\ 2 ^ 0 = 1 /\ 2 ^ 1 = 2 /\ 2 ^ 2 = 4 /\ 2 ^ 3 = 8 /\ 2 ^ 4 = 16 /\ 2 ^ 5 = 32 /\ 2 ^ 6 = 64
  /\ 2 ^ 7 = 128 /\ 2 ^ 11 = 2048 /\ 2 ^ 12 = 4096 /\ 2 ^ 13 = 8192 /\ 2 ^ 14 = 16384
  /\ 2 ^ 16 = 65536
OBVIOUS

LEMMA M20Floppy ==
  ASSUME disk = "m20-floppy"
  PROVE  /\ Of.csv = 16 /\ Of.alv = 32 /\ Of.size = 2240 /\ Of.ptrksz = 16 /\ Of.psecsz = 256
         /\ Of.dpb.spt = 32 /\ Of.dpb.exm = 1 /\ Of.dpb.dsm = 134 /\ Of.dpb.drm = 63
         /\ Of.dpb.al = 2 /\ Of.dpb.cks = 16 /\ Of.dpb.off = 3 /\ BlockRecords(Of.dpb) = 16
<1>1. Table[disk] = [dpb |-> dpb1, csv |-> 16, alv |-> 32, size |-> KB(280), ptrksz |-> 16, psecsz |-> 256]
  BY SMT DEF Table
<1>2. BlockRecords(dpb1) = 16
  BY DEF BlockRecords, dpb1, Dpb
<1>3. Of.dpb = dpb1 /\ Of.csv = 16 /\ Of.alv = 32 /\ Of.size = 2240 /\ Of.ptrksz = 16 /\ Of.psecsz = 256
  BY <1>1 DEF Of, KB
<1> QED BY <1>2, <1>3 DEF dpb1, Dpb

LEMMA M20HardDisk ==
  ASSUME disk = "m20-hard-disk"
  PROVE  /\ Of.csv = 32 /\ Of.alv = 2002 /\ Of.size = 69120 /\ Of.ptrksz = 16 /\ Of.psecsz = 256
         /\ Of.dpb.spt = 32 /\ Of.dpb.exm = 1 /\ Of.dpb.dsm = 2154 /\ Of.dpb.drm = 511
         /\ Of.dpb.al = 4 /\ Of.dpb.cks = 0 /\ Of.dpb.off = 3 /\ BlockRecords(Of.dpb) = 32
<1>1. Table[disk] = [dpb |-> dpb3_M20, csv |-> 32, alv |-> 2002, size |-> KB(8640), ptrksz |-> 16, psecsz |-> 256]
  BY SMT DEF Table
<1>2. BlockRecords(dpb3_M20) = 32
  BY DEF BlockRecords, dpb3_M20, Dpb
<1>3. Of.dpb = dpb3_M20 /\ Of.csv = 32 /\ Of.alv = 2002 /\ Of.size = 69120 /\ Of.ptrksz = 16 /\ Of.psecsz = 256
  BY <1>1 DEF Of, KB
<1> QED BY <1>2, <1>3 DEF dpb3_M20, Dpb

LEMMA M20SerialFloppy ==
  ASSUME disk = "m20-serial-floppy"
  PROVE  /\ Of.csv = 16 /\ Of.alv = 32 /\ Of.size = 2240 /\ Of.ptrksz = 16 /\ Of.psecsz = 256
         /\ Of.dpb.spt = 32 /\ Of.dpb.exm = 1 /\ Of.dpb.dsm = 134 /\ Of.dpb.drm = 63
         /\ Of.dpb.al = 2 /\ Of.dpb.cks = 16 /\ Of.dpb.off = 3 /\ BlockRecords(Of.dpb) = 16
<1>1. Table[disk] = [dpb |-> dpb1_Serial, csv |-> 16, alv |-> 32, size |-> KB(280), ptrksz |-> 16, psecsz |-> 256]
  BY SMT DEF Table
<1>2. BlockRecords(dpb1_Serial) = 16
  BY DEF BlockRecords, dpb1_Serial, Dpb
<1>3. Of.dpb = dpb1_Serial /\ Of.csv = 16 /\ Of.alv = 32 /\ Of.size = 2240 /\ Of.ptrksz = 16 /\ Of.psecsz = 256
  BY <1>1 DEF Of, KB
<1> QED BY <1>2, <1>3 DEF dpb1_Serial, Dpb

LEMMA PlasmoDisk ==
  ASSUME disk = "plasmo"
  PROVE  /\ Of.csv = 16 /\ Of.alv = 254 /\ Of.size = 65536 /\ Of.ptrksz = 8 /\ Of.psecsz = 512
         /\ Of.dpb.spt = 32 /\ Of.dpb.exm = 1 /\ Of.dpb.dsm = 2031 /\ Of.dpb.drm = 511
         /\ Of.dpb.al = 4 /\ Of.dpb.cks = 0 /\ Of.dpb.off = 16 /\ BlockRecords(Of.dpb) = 32
<1>1. Table[disk] = [dpb |-> dpb3_Plasmo, csv |-> 16, alv |-> 254, size |-> KB(8192), ptrksz |-> 8, psecsz |-> 512]
  BY SMT DEF Table
<1>2. BlockRecords(dpb3_Plasmo) = 32
  BY DEF BlockRecords, dpb3_Plasmo, Dpb
<1>3. Of.dpb = dpb3_Plasmo /\ Of.csv = 16 /\ Of.alv = 254 /\ Of.size = 65536 /\ Of.ptrksz = 8 /\ Of.psecsz = 512
  BY <1>1 DEF Of, KB
<1> QED BY <1>2, <1>3 DEF dpb3_Plasmo, Dpb

LEMMA Z8002DemoDisk ==
  ASSUME disk = "z8002-demo"
  PROVE  /\ Of.csv = 16 /\ Of.alv = 254 /\ Of.size = 65536 /\ Of.ptrksz = 8 /\ Of.psecsz = 512
         /\ Of.dpb.spt = 32 /\ Of.dpb.exm = 1 /\ Of.dpb.dsm = 2031 /\ Of.dpb.drm = 511
         /\ Of.dpb.al = 4 /\ Of.dpb.cks = 0 /\ Of.dpb.off = 16 /\ BlockRecords(Of.dpb) = 32
<1>1. Table[disk] = [dpb |-> dpb3_Z8002Demo, csv |-> 16, alv |-> 254, size |-> KB(8192), ptrksz |-> 8, psecsz |-> 512]
  BY SMT DEF Table
<1>2. BlockRecords(dpb3_Z8002Demo) = 32
  BY DEF BlockRecords, dpb3_Z8002Demo, Dpb
<1>3. Of.dpb = dpb3_Z8002Demo /\ Of.csv = 16 /\ Of.alv = 254 /\ Of.size = 65536 /\ Of.ptrksz = 8 /\ Of.psecsz = 512
  BY <1>1 DEF Of, KB
<1> QED BY <1>2, <1>3 DEF dpb3_Z8002Demo, Dpb

\* What the disks have in common, and what those that are not floppies do.
LEMMA EveryDisk ==
  ASSUME disk \in Disks
  PROVE  /\ Of.dpb.spt = 32 /\ Of.dpb.off \in {3, 16} /\ Of.dpb.dsm \in Nat /\ Of.dpb.dsm <= 2154
         /\ (Of.ptrksz = 16 /\ Of.psecsz = 256) \/ (Of.ptrksz = 8 /\ Of.psecsz = 512)
         /\ BlockRecords(Of.dpb) \in {16, 32}
         /\ DirectoryFits(Of.dpb) /\ ExtentsFit(Of.dpb) /\ VectorsFit(Of.dpb, Of.csv, Of.alv)
<1>1. disk \in {"m20-floppy", "m20-hard-disk", "m20-serial-floppy", "plasmo", "z8002-demo"}
  BY LayoutAssumption
<1>2. CASE disk = "m20-floppy"
  BY <1>2, M20Floppy DEF DirectoryFits, ExtentsFit, VectorsFit
<1>3. CASE disk = "m20-hard-disk"
  BY <1>3, M20HardDisk DEF DirectoryFits, ExtentsFit, VectorsFit
<1>4. CASE disk = "m20-serial-floppy"
  BY <1>4, M20SerialFloppy DEF DirectoryFits, ExtentsFit, VectorsFit
<1>5. CASE disk = "plasmo"
  BY <1>5, PlasmoDisk DEF DirectoryFits, ExtentsFit, VectorsFit
<1>6. CASE disk = "z8002-demo"
  BY <1>6, Z8002DemoDisk DEF DirectoryFits, ExtentsFit, VectorsFit
<1> QED BY <1>1, <1>2, <1>3, <1>4, <1>5, <1>6

Floppies == {"m20-floppy", "m20-serial-floppy"}

LEMMA BlocksOnMedium ==
  ASSUME disk \in Disks \ Floppies
  PROVE  Of.dpb.off * 32 + (Of.dpb.dsm + 1) * BlockRecords(Of.dpb) <= Of.size
<1>1. disk \in {"m20-hard-disk", "plasmo", "z8002-demo"}
  BY LayoutAssumption DEF Floppies
<1>2. CASE disk = "m20-hard-disk"
  BY <1>2, M20HardDisk
<1>3. CASE disk = "plasmo"
  BY <1>3, PlasmoDisk
<1>4. CASE disk = "z8002-demo"
  BY <1>4, Z8002DemoDisk
<1> QED BY <1>1, <1>2, <1>3, <1>4

\* The sector that disk_io and the track buffer make of a track and a sector.
LEMMA SectorOnDisk ==
  ASSUME disk \in Disks, NEW t \in Nat, t <= 4000, NEW s \in Int
  PROVE  OnDisk(t, s) = 32 * t + s - 1
<1>1. CASE Of.ptrksz = 16 /\ Of.psecsz = 256
  <2>1. dskxfer(t) = t * 16
    BY <1>1, Powers DEF dskxfer
  <2>2. ((t * 16) * 256) \div 128 = 32 * t
    OBVIOUS
  <2> QED BY <1>1, <2>1, <2>2 DEF OnDisk, InTrkbuf
<1>2. CASE Of.ptrksz = 8 /\ Of.psecsz = 512
  <2>1. dskxfer(t) = t * 8
    BY <1>2, Powers DEF dskxfer
  <2>2. ((t * 8) * 512) \div 128 = 32 * t
    OBVIOUS
  <2> QED BY <1>2, <2>1, <2>2 DEF OnDisk, InTrkbuf
<1> QED BY <1>1, <1>2, EveryDisk

LEMMA RecordNumber ==
  ASSUME NEW R \in {16, 32}, NEW b \in Nat, b <= 2154, NEW r \in 0..R - 1
  PROVE  b * R + r \in Nat /\ b * R + r <= 70000
<1>1. CASE R = 16
  <2>1. b * 16 + r \in Nat /\ b * 16 + r <= 70000
    BY <1>1
  <2> QED BY <1>1, <2>1
<1>2. CASE R = 32
  <2>1. b * 32 + r \in Nat /\ b * 32 + r <= 70000
    BY <1>2
  <2> QED BY <1>2, <2>1
<1> QED BY <1>1, <1>2

LEMMA InTracks ==
  ASSUME NEW x \in Nat, x <= 70000
  PROVE  x \div 32 \in Nat /\ x \div 32 <= 2500 /\ x % 32 \in 0..31 /\ x = 32 * (x \div 32) + (x % 32)
OBVIOUS

LEMMA PlaceIsInOrder ==
  ASSUME disk \in Disks, NEW at_ \in [block : 0..Of.dpb.dsm, rec : 0..BlockRecords(Of.dpb) - 1]
  PROVE  Place(at_) = Of.dpb.off * Of.dpb.spt + at_.block * BlockRecords(Of.dpb) + at_.rec
<1> DEFINE R == BlockRecords(Of.dpb)
           o == Of.dpb.off
           x == at_.block * R + at_.rec
           t == o + x \div 32
<1>1. /\ Of.dpb.spt = 32 /\ o \in {3, 16} /\ R \in {16, 32}
      /\ at_.block \in Nat /\ at_.block <= 2154 /\ at_.rec \in 0..R - 1
  BY EveryDisk
<1> HIDE DEF R, o
<1>2. x \in Nat /\ x <= 70000
  BY <1>1, RecordNumber
<1> HIDE DEF x
<1>3. x \div 32 \in Nat /\ x \div 32 <= 2500 /\ x % 32 \in 0..31 /\ x = 32 * (x \div 32) + (x % 32)
  BY <1>2, InTracks
<1>4. t \in Nat /\ t <= 4000
  BY <1>1, <1>3
<1> HIDE DEF t
<1>5. xlt16[x % 32] = (x % 32) + 1
  BY <1>3 DEF xlt16
<1>6. TrackOf(Of.dpb, at_.block, at_.rec) = t /\ SectorOf(Of.dpb, at_.block, at_.rec) = x % 32
  BY <1>1 DEF TrackOf, SectorOf, t, x, o, R
<1>7. OnDisk(t, (x % 32) + 1) = 32 * t + ((x % 32) + 1) - 1
  <2>1. (x % 32) + 1 \in Int
    BY <1>3
  <2> QED BY <1>4, <2>1, SectorOnDisk
<1>8. Place(at_) = 32 * t + ((x % 32) + 1) - 1
  BY <1>5, <1>6, <1>7 DEF Place
<1>9. 32 * t + ((x % 32) + 1) - 1 = 32 * o + x
  BY <1>1, <1>2, <1>3 DEF t
<1>10. 32 * o + x = o * 32 + at_.block * R + at_.rec
  <2>1. at_.block * R \in Int
    BY <1>1
  <2> QED BY <1>1, <2>1 DEF x
<1> QED BY <1>1, <1>8, <1>9, <1>10 DEF o, R

-----------------------------------------------------------------------------
(* The record that the BDOS is at, and what PUTBOOT has written.           *)

BootTracks(n) == {0} \cup (32 .. 31 + n)

LayoutInv ==
  /\ disk \in Disks
  /\ record \in [block : 0..Of.dpb.dsm, rec : 0..BlockRecords(Of.dpb) - 1]
  /\ \/ boot = -1 /\ put = {}
     \/ /\ boot \in Nat
        /\ put = {} \/ \E n \in Nat : n <= SYSTRKS * LSPT /\ put = BootTracks(n)

LEMMA BootTracksCount ==
  ASSUME NEW n \in Nat
  PROVE  Cardinality(BootTracks(n)) = n + 1 /\ BootTracks(n + 1) = BootTracks(n) \cup {32 + n}
<1>1. IsFiniteSet(32 .. 31 + n) /\ Cardinality(32 .. 31 + n) = n
  BY FS_Interval
<1>2. 0 \notin 32 .. 31 + n
  OBVIOUS
<1>3. Cardinality((32 .. 31 + n) \cup {0}) = n + 1
  BY <1>1, <1>2, FS_AddElement
<1>4. (32 .. 31 + n) \cup {0} = BootTracks(n)
  BY DEF BootTracks
<1>5. BootTracks(n + 1) = BootTracks(n) \cup {32 + n}
  BY DEF BootTracks
<1> QED BY <1>3, <1>4, <1>5

LEMMA EndOfBlock ==
  ASSUME NEW R \in Nat, NEW D \in Nat, NEW b \in Nat, b <= D, NEW r \in 0..R - 1
  PROVE  b * R + r < (D + 1) * R
<1>1. b * R <= D * R /\ b * R \in Int /\ D * R \in Int
  OBVIOUS
<1>2. (D + 1) * R = D * R + R
  OBVIOUS
<1> QED BY <1>1, <1>2

LEMMA LayoutInitial == LayoutInit => LayoutInv
<1> SUFFICES ASSUME LayoutInit PROVE LayoutInv
  OBVIOUS
<1>1. disk \in Disks /\ record = [block |-> 0, rec |-> 0] /\ boot = -1 /\ put = {}
  BY DEF LayoutInit
<1>2. 0 \in 0..Of.dpb.dsm /\ 0 \in 0..BlockRecords(Of.dpb) - 1
  BY <1>1, EveryDisk
<1> QED BY <1>1, <1>2 DEF LayoutInv

LEMMA PutBlkWrites ==
  ASSUME disk \in Disks, NEW n \in Nat, n <= 64
  PROVE  putblk(n) = 32 + n
<1>1. 1 + n \div 32 \in Nat /\ 1 + n \div 32 <= 4000 /\ n % 32 \in 0..31 /\ n = 32 * (n \div 32) + (n % 32)
  BY InTracks
<1> DEFINE t == 1 + n \div 32
           s == (n % 32) + 1
<1>2. t \in Nat /\ t <= 4000 /\ s \in Int /\ 32 * t + s - 1 = 32 + n
  BY <1>1
<1>3. putblk(n) = OnDisk(t, s)
  BY DEF putblk, STARTRK, LSPT
<1> HIDE DEF t, s
<1> QED BY <1>2, <1>3, SectorOnDisk

LEMMA RecordSets ==
  ASSUME NEW B, NEW C, NEW r \in [block : B, rec : C]
  PROVE  /\ \A c \in C : [r EXCEPT !.rec = c] \in [block : B, rec : C]
         /\ \A b \in B, c \in C : [block |-> b, rec |-> c] \in [block : B, rec : C]
OBVIOUS

LEMMA LayoutStep ==
  ASSUME LayoutInv, [LayoutNext]_lvars
  PROVE  LayoutInv'
<1>1. CASE UNCHANGED lvars
  BY <1>1 DEF lvars, LayoutInv, Of
<1>2. CASE Advance
  <2>1. disk' = disk /\ boot' = boot /\ put' = put /\ Of' = Of
    BY <1>2 DEF Advance, Of
  <2>2. record' \in [block : 0..Of.dpb.dsm, rec : 0..BlockRecords(Of.dpb) - 1]
    <3> DEFINE R == BlockRecords(Of.dpb)
               D == Of.dpb.dsm
    <3>1. R \in {16, 32} /\ D \in Nat
      BY EveryDisk DEF LayoutInv
    <3>2. record \in [block : 0..D, rec : 0..R - 1]
      BY DEF LayoutInv
    <3>3. /\ record' = IF record.rec = 0 THEN [record EXCEPT !.rec = R - 1]
                       ELSE [block |-> record.block + 1, rec |-> 0]
          /\ record'.block <= D
      BY <1>2 DEF Advance
    <3> HIDE DEF R, D
    <3>4. ASSUME record.rec = 0 PROVE record' \in [block : 0..D, rec : 0..R - 1]
      <4>1. R - 1 \in 0..R - 1
        BY <3>1
      <4>2. record' = [record EXCEPT !.rec = R - 1]
        BY <3>3, <3>4
      <4> QED BY <3>2, <4>1, <4>2, RecordSets
    <3>5. ASSUME record.rec # 0 PROVE record' \in [block : 0..D, rec : 0..R - 1]
      <4>1. record' = [block |-> record.block + 1, rec |-> 0]
        BY <3>3, <3>5
      <4>2. record.block + 1 <= D
        BY <3>3, <4>1
      <4>3. record.block + 1 \in 0..D /\ 0 \in 0..R - 1
        BY <3>1, <3>2, <4>2
      <4> QED BY <3>2, <4>1, <4>3, RecordSets
    <3> QED BY <3>4, <3>5 DEF R, D
  <2> QED BY <2>1, <2>2 DEF LayoutInv
<1>3. CASE PutBoot
  <2>1. /\ disk' = disk /\ record' = record /\ Of' = Of /\ boot' \in Nat
        /\ put' = {OnDisk(0, 1)} \/ (put' = put /\ boot = -1)
    BY <1>3, LayoutAssumption DEF PutBoot, Of
  <2>2. OnDisk(0, 1) = 0
    BY SectorOnDisk DEF LayoutInv
  <2>3. CASE put' = {OnDisk(0, 1)}
    <3>1. put' = BootTracks(0) /\ 0 <= SYSTRKS * LSPT
      BY <2>2, <2>3 DEF BootTracks, SYSTRKS, LSPT
    <3> QED BY <2>1, <3>1 DEF LayoutInv
  <2>4. CASE put' = put /\ boot = -1
    <3>1. put' = {}
      BY <2>4 DEF LayoutInv
    <3> QED BY <2>1, <3>1 DEF LayoutInv
  <2> QED BY <2>1, <2>3, <2>4
<1>4. CASE PutBlk
  <2>1. /\ disk' = disk /\ record' = record /\ boot' = boot /\ Of' = Of
        /\ put # {} /\ Cardinality(put) <= 64 /\ put' = put \cup {putblk(Cardinality(put) - 1)}
    BY <1>4 DEF PutBlk, Of, SYSTRKS, LSPT
  <2>2. PICK n \in Nat : put = BootTracks(n)
    BY <2>1 DEF LayoutInv
  <2>3. Cardinality(put) - 1 = n /\ n <= 64 /\ n + 1 <= SYSTRKS * LSPT /\ n + 1 \in Nat
    BY <2>1, <2>2, BootTracksCount DEF SYSTRKS, LSPT
  <2>4. put' = BootTracks(n + 1)
    BY <2>1, <2>2, <2>3, BootTracksCount, PutBlkWrites DEF LayoutInv
  <2> QED BY <2>1, <2>3, <2>4 DEF LayoutInv
<1> QED BY <1>1, <1>2, <1>3, <1>4 DEF LayoutNext

\* On the disks that are not floppies the records of the blocks follow each other on the
\* medium and end on it; the last block of the floppies does not (dpb, xlt16, dskxfer).
THEOREM BlocksInPlace ==
  ASSUME Disks \cap Floppies = {}
  PROVE  LayoutSpec => []BlocksLieOnTheDisk
<1>1. LayoutInv /\ [LayoutNext]_lvars => LayoutInv'
  BY LayoutStep
<1>2. LayoutInv => BlocksLieOnTheDisk
  <2> SUFFICES ASSUME LayoutInv PROVE BlocksLieOnTheDisk
    OBVIOUS
  <2> DEFINE R == BlockRecords(Of.dpb)
             P == Of.dpb.off * Of.dpb.spt
  <2>1. /\ disk \in Disks /\ disk \in Disks \ Floppies
        /\ record \in [block : 0..Of.dpb.dsm, rec : 0..R - 1]
    BY DEF LayoutInv
  <2>2. Place(record) = P + record.block * R + record.rec
    BY <2>1, PlaceIsInOrder
  <2>3. Place(record) < Of.size
    <3> DEFINE b == record.block
               r == record.rec
               D == Of.dpb.dsm
               o == Of.dpb.off
    <3>1. o * 32 + (D + 1) * R <= Of.size /\ P = o * 32
      BY <2>1, BlocksOnMedium, EveryDisk
    <3>2. b \in 0..D /\ r \in 0..R - 1 /\ D \in Nat /\ R \in {16, 32} /\ o \in {3, 16}
      BY <2>1, EveryDisk
    <3>3. Of.size \in Int
      BY LayoutAssumption, M20HardDisk, PlasmoDisk, Z8002DemoDisk, <2>1 DEF Floppies
    <3> HIDE DEF b, r, D, R, o, P
    <3>4. b * R + r < (D + 1) * R
      <4>1. R \in Nat /\ b \in Nat /\ b <= D
        BY <3>2
      <4> QED BY <3>2, <4>1, EndOfBlock
    <3>5. b * R \in Int /\ (D + 1) * R \in Int
      BY <3>2
    <3>6. P + b * R + r < Of.size
      BY <3>1, <3>2, <3>3, <3>4, <3>5
    <3> QED BY <2>2, <3>6 DEF b, r
  <2>4. DirectoryFits(Of.dpb) /\ ExtentsFit(Of.dpb) /\ VectorsFit(Of.dpb, Of.csv, Of.alv)
    BY <2>1, EveryDisk
  <2> QED BY <2>2, <2>3, <2>4 DEF BlocksLieOnTheDisk
<1> QED BY LayoutInitial, <1>1, <1>2, PTL DEF LayoutSpec

\* PUTBOOT writes the boot record and reserved tracks only, in order, and there all that
\* syscode holds of a file of any size: the whole of one that fits with the preamble (putboot,
\* putblk).
THEOREM BootWritten == LayoutSpec => []BootIsInPlace
<1>1. LayoutInv /\ [LayoutNext]_lvars => LayoutInv'
  BY LayoutStep
<1>2. LayoutInv => BootIsInPlace
  <2> SUFFICES ASSUME LayoutInv PROVE BootIsInPlace
    OBVIOUS
  <2>1. CASE put = {}
    <3>1. Cardinality(put) # SYSTRKS * LSPT + 1
      BY <2>1, FS_EmptySet DEF SYSTRKS, LSPT
    <3> QED BY <2>1, <3>1 DEF BootIsInPlace, InPlace
  <2>2. CASE \E n \in Nat : n <= SYSTRKS * LSPT /\ put = BootTracks(n)
    <3>1. PICK n \in Nat : n <= SYSTRKS * LSPT /\ put = BootTracks(n)
      BY <2>2
    <3>2. n <= 64 /\ Cardinality(put) = n + 1
      BY <3>1, BootTracksCount DEF SYSTRKS, LSPT
    <3>3. disk \in Disks /\ Of.dpb.spt = 32 /\ Of.dpb.off \in {3, 16}
      BY EveryDisk DEF LayoutInv
    <3>4. put \subseteq {0} \cup (Of.dpb.spt .. Of.dpb.off * Of.dpb.spt - 1)
      BY <3>1, <3>2, <3>3 DEF BootTracks
    <3>5. ASSUME n = 64, NEW i \in 0..SYSTRKS * LSPT - 1 PROVE OnDisk(STARTRK, 1) + i \in put
      <4>1. i \in 0..63
        BY <3>5 DEF SYSTRKS, LSPT
      <4>2. OnDisk(STARTRK, 1) = 32
        BY <3>3, SectorOnDisk DEF STARTRK
      <4> QED BY <3>1, <3>5, <4>1, <4>2 DEF BootTracks
    <3> QED BY <3>2, <3>4, <3>5 DEF BootIsInPlace, InPlace, SYSTRKS, LSPT
  <2> QED BY <2>1, <2>2 DEF LayoutInv
<1> QED BY LayoutInitial, <1>1, <1>2, PTL DEF LayoutSpec

-----------------------------------------------------------------------------
(* The geometry derived from the size of an image.                         *)

\* Block sizes by their shift; every image has at least sixteen blocks of its size.
LEMMA BlockShiftIs ==
  ASSUME NEW data \in Nat, data >= 500000
  PROVE  \/ BlockShift(data) = 4 /\ data \div 2048 >= 16
         \/ BlockShift(data) = 5 /\ data \div 4096 >= 16
         \/ BlockShift(data) = 6 /\ data \div 8192 >= 16
         \/ BlockShift(data) = 7 /\ data \div 16384 >= 16
<1> DEFINE few == {b \in 4..7 : data \div 2 ^ (b + 7) <= 8192}
           k   == BlockShift(data)
<1>1. k = IF few = {} THEN 7 ELSE CHOOSE b \in few : \A c \in few : b <= c
  BY DEF BlockShift
<1>2. few \subseteq {4, 5, 6, 7}
  OBVIOUS
<1>3. 4 \in few <=> data \div 2048 <= 8192
  <2>1. 2 ^ (4 + 7) = 2048 /\ 4 \in 4..7
    OBVIOUS
  <2> QED BY <2>1
<1> HIDE DEF few, k
<1>4. ASSUME NEW x \in few PROVE \E b \in few : \A c \in few : b <= c
  <2>1. 4 \in few \/ 5 \in few \/ 6 \in few \/ 7 \in few
    BY <1>2
  <2>2. CASE 4 \in few
    BY <1>2, <2>2
  <2>3. CASE 4 \notin few /\ 5 \in few
    BY <1>2, <2>3
  <2>4. CASE 4 \notin few /\ 5 \notin few /\ 6 \in few
    BY <1>2, <2>4
  <2>5. CASE 4 \notin few /\ 5 \notin few /\ 6 \notin few /\ 7 \in few
    BY <1>2, <2>5
  <2> QED BY <2>1, <2>2, <2>3, <2>4, <2>5
<1>5. k \in {4, 5, 6, 7} /\ (k # 4 => 4 \notin few)
  <2>1. CASE few = {}
    BY <1>1, <2>1
  <2>2. CASE few # {}
    <3>1. \E b \in few : \A c \in few : b <= c
      BY <1>4, <2>2
    <3>2. k \in few /\ \A c \in few : k <= c
      BY <1>1, <2>2, <3>1
    <3> QED BY <1>2, <3>2
  <2> QED BY <2>1, <2>2
<1>6. data \div 2048 >= 16
  OBVIOUS
<1>7. k # 4 => data \div 4096 >= 16 /\ data \div 8192 >= 16 /\ data \div 16384 >= 16
  <2> SUFFICES ASSUME data \div 2048 > 8192
               PROVE  data \div 4096 >= 16 /\ data \div 8192 >= 16 /\ data \div 16384 >= 16
    BY <1>3, <1>5
  <2> QED OBVIOUS
<1> QED BY <1>5, <1>6, <1>7 DEF k

\* What the geometry of an image promises, R being the records of a block.
Sound(d, size, R) ==
  /\ R \in {16, 32, 64, 128} /\ BlockRecords(d) = R
  /\ d.spt = 32 /\ d.off = 3 /\ d.cks = 0
  /\ d.dsm \in Nat /\ d.dsm <= 65535 /\ d.dsm + 1 >= 16
  /\ (d.dsm + 1) * (128 * R) <= size - 12288
  /\ d.al \in 1..16 /\ d.drm + 1 = 4 * d.al * R
  /\ (IF d.dsm < 256 THEN 16 ELSE 8) * R = (d.exm + 1) * 128

\* Floppies and directories have the tables of the M20's floppy.
LEMMA FloppyTables ==
  /\ M20_FLOPPY.spt = 32 /\ M20_FLOPPY.dsm = 134 /\ M20_FLOPPY.drm = 63 /\ M20_FLOPPY.al = 2
  /\ M20_FLOPPY.exm = 1 /\ M20_FLOPPY.cks = 16 /\ M20_FLOPPY.off = 3 /\ BlockRecords(M20_FLOPPY) = 16
<1>1. BlockRecords(M20_FLOPPY) = 16
  BY DEF M20_FLOPPY, BlockRecords, Dpb
<1> QED BY <1>1 DEF M20_FLOPPY, Dpb

\* The shift, the records and the bytes of a block.
BlockSizes == {<<4, 16, 2048>>, <<5, 32, 4096>>, <<6, 64, 8192>>, <<7, 128, 16384>>}

LEMMA BlockSizeFacts ==
  ASSUME NEW s, NEW R, NEW block, <<s, R, block>> \in BlockSizes
  PROVE  /\ 2 ^ s = R /\ 2 ^ (s + 7) = block /\ block = 128 * R /\ block \div 32 = 4 * R
         /\ R \in {16, 32, 64, 128} /\ s \in {4, 5, 6, 7}
<1>1. CASE s = 4 /\ R = 16 /\ block = 2048
  <2>1. 2 ^ 4 = 16 /\ 2 ^ (4 + 7) = 2048 /\ 2048 \div 32 = 64
    OBVIOUS
  <2> QED BY <1>1, <2>1
<1>2. CASE s = 5 /\ R = 32 /\ block = 4096
  <2>1. 2 ^ 5 = 32 /\ 2 ^ (5 + 7) = 4096 /\ 4096 \div 32 = 128
    OBVIOUS
  <2> QED BY <1>2, <2>1
<1>3. CASE s = 6 /\ R = 64 /\ block = 8192
  <2>1. 2 ^ 6 = 64 /\ 2 ^ (6 + 7) = 8192 /\ 8192 \div 32 = 256
    OBVIOUS
  <2> QED BY <1>3, <2>1
<1>4. CASE s = 7 /\ R = 128 /\ block = 16384
  <2>1. 2 ^ 7 = 128 /\ 2 ^ (7 + 7) = 16384 /\ 16384 \div 32 = 512
    OBVIOUS
  <2> QED BY <1>4, <2>1
<1> QED BY <1>1, <1>2, <1>3, <1>4 DEF BlockSizes

\* Blocks are counted downwards, so that they fit.
LEMMA BlockCount ==
  ASSUME NEW data \in Nat, NEW block \in Nat, block > 0, data \div block >= 16
  PROVE  LET n == NBlocks(data, block) IN
         n \in Nat /\ n >= 16 /\ n <= 65536 /\ n * block <= data
<1> DEFINE q == data \div block
           n == NBlocks(data, block)
<1>1. q \in Nat /\ q >= 16 /\ data % block \in 0..block - 1 /\ data = block * q + (data % block)
  OBVIOUS
<1>2. n = IF 65536 < q THEN 65536 ELSE q
  BY DEF NBlocks, Smaller
<1> HIDE DEF q, n
<1>3. n \in Nat /\ n >= 16 /\ n <= 65536 /\ n <= q
  BY <1>1, <1>2
<1>4. n * block <= q * block /\ q * block = block * q /\ n * block \in Int /\ block * q \in Int
  BY <1>1, <1>3
<1>5. n * block <= data
  BY <1>1, <1>4
<1> QED BY <1>3, <1>5 DEF n

LEMMA DirectoryBlocks ==
  ASSUME NEW entries \in Nat, entries >= 128, NEW s, NEW R, NEW block, <<s, R, block>> \in BlockSizes
  PROVE  DirBlocks(entries, block) \in 1..16
<1> DEFINE q == (entries * 32 + block - 1) \div block
<1>1. q \in Nat /\ q >= 1
  <2>1. CASE block = 2048
    BY <2>1
  <2>2. CASE block = 4096
    BY <2>2
  <2>3. CASE block = 8192
    BY <2>3
  <2>4. CASE block = 16384
    BY <2>4
  <2> QED BY <2>1, <2>2, <2>3, <2>4 DEF BlockSizes
<1> HIDE DEF q
<1>2. DirBlocks(entries, block) = IF 16 < q THEN 16 ELSE q
  BY DEF DirBlocks, Smaller, q
<1> QED BY <1>1, <1>2

LEMMA ExtentMask ==
  ASSUME NEW dsm \in Nat, NEW s, NEW R, NEW block, <<s, R, block>> \in BlockSizes
  PROVE  (IF dsm < 256 THEN 16 ELSE 8) * R = (TwoByteMask(s, dsm) + 1) * 128
<1>1. TwoByteMask(s, dsm) = IF dsm < 256 THEN 2 ^ (s - 3) - 1 ELSE 2 ^ (s - 4) - 1
  BY DEF TwoByteMask
<1>2. CASE s = 4 /\ R = 16
  <2>1. 2 ^ (4 - 3) = 2 /\ 2 ^ (4 - 4) = 1
    OBVIOUS
  <2> QED BY <1>1, <1>2, <2>1
<1>3. CASE s = 5 /\ R = 32
  <2>1. 2 ^ (5 - 3) = 4 /\ 2 ^ (5 - 4) = 2
    OBVIOUS
  <2> QED BY <1>1, <1>3, <2>1
<1>4. CASE s = 6 /\ R = 64
  <2>1. 2 ^ (6 - 3) = 8 /\ 2 ^ (6 - 4) = 4
    OBVIOUS
  <2> QED BY <1>1, <1>4, <2>1
<1>5. CASE s = 7 /\ R = 128
  <2>1. 2 ^ (7 - 3) = 16 /\ 2 ^ (7 - 4) = 8
    OBVIOUS
  <2> QED BY <1>1, <1>5, <2>1
<1> QED BY <1>2, <1>3, <1>4, <1>5 DEF BlockSizes

LEMMA DerivedWithShift ==
  ASSUME NEW size \in Nat, size > 524288, NEW s, NEW R, NEW block, <<s, R, block>> \in BlockSizes,
         BlockShift(size - 12288) = s, (size - 12288) \div block >= 16
  PROVE  Sound(derive_dpb(size), size, R)
<1> DEFINE data == size - 12288
           n    == NBlocks(data, block)
           al   == DirBlocks(Greater(128, data \div 4096), block)
           drm  == W16(al * (block \div 32) - 1)
           m    == TwoByteMask(s, n - 1)
           d    == derive_dpb(size)
<1>1. data \in Nat /\ data >= 500000 /\ Greater(4096, size - 3 * 4096) = data
  BY DEF Greater
<1>2. /\ 2 ^ s = R /\ 2 ^ (s + 7) = block /\ block = 128 * R /\ block \div 32 = 4 * R
      /\ R \in {16, 32, 64, 128} /\ s \in {4, 5, 6, 7}
  BY BlockSizeFacts
<1>3. n \in Nat /\ n >= 16 /\ n <= 65536 /\ n * block <= data
  <2> HIDE DEF data
  <2>1. block \in Nat /\ block > 0
    BY <1>2
  <2> QED BY <1>1, <2>1, BlockCount DEF data
<1>4. al \in 1..16
  <2> DEFINE entries == Greater(128, data \div 4096)
  <2>1. entries \in Nat /\ entries >= 128
    BY <1>1 DEF Greater
  <2> HIDE DEF entries
  <2> QED BY <2>1, DirectoryBlocks DEF entries
<1>5. ~ (size <= 512 * 1024)
  OBVIOUS
<1>6. d = Dpb(32, s, m, n - 1, drm, al, 0, 3)
  <2>1. d = LET bsh == BlockShift(data)
                b   == 2 ^ (bsh + 7)
                dsm == NBlocks(data, b) - 1
                a   == DirBlocks(Greater(128, data \div 4096), b)
            IN Dpb(32, bsh, TwoByteMask(bsh, dsm), dsm, W16(a * (b \div 32) - 1), a, 0, 3)
    <3> HIDE DEF data, n, al, drm, m
    <3> QED BY <1>1, <1>5 DEF derive_dpb
  <2>2. BlockShift(data) = s
    OBVIOUS
  <2> HIDE DEF data
  <2> QED BY <2>1, <2>2, <1>2
<1> HIDE DEF d, m, n, drm, al, data
<1>7. /\ d.spt = 32 /\ d.off = 3 /\ d.cks = 0 /\ d.bsh = s /\ d.exm = m
      /\ d.dsm = n - 1 /\ d.drm = drm /\ d.al = al
  BY <1>6 DEF Dpb
<1>8. BlockRecords(d) = R
  BY <1>7, <1>2 DEF BlockRecords
<1>9. drm + 1 = 4 * al * R
  <2>1. drm = (al * (4 * R) - 1) % 65536
    BY <1>2, Powers DEF drm, W16
  <2>2. /\ al * (4 * R) = 4 * al * R /\ 4 * al * R \in Int
        /\ 4 * al * R >= 1 /\ 4 * al * R <= 16384
    <3>1. CASE R = 16
      BY <1>4, <3>1
    <3>2. CASE R = 32
      BY <1>4, <3>2
    <3>3. CASE R = 64
      BY <1>4, <3>3
    <3>4. CASE R = 128
      BY <1>4, <3>4
    <3> QED BY <1>2, <3>1, <3>2, <3>3, <3>4
  <2> DEFINE a == 4 * al * R
  <2>3. drm = (a - 1) % 65536 /\ a \in Int /\ a >= 1 /\ a <= 16384
    BY <2>1, <2>2
  <2> HIDE DEF a
  <2>4. drm + 1 = a
    BY <2>3
  <2> QED BY <2>4 DEF a
<1>10. (IF n - 1 < 256 THEN 16 ELSE 8) * R = (m + 1) * 128
  <2> DEFINE D == n - 1
  <2>1. D \in Nat
    BY <1>3
  <2> HIDE DEF D
  <2>2. (IF D < 256 THEN 16 ELSE 8) * R = (TwoByteMask(s, D) + 1) * 128
    BY <2>1, ExtentMask
  <2> QED BY <2>2 DEF m, D
<1>11. ((n - 1) + 1) * (128 * R) <= size - 12288
  <2>1. (n - 1) + 1 = n
    BY <1>3
  <2> QED BY <2>1, <1>2, <1>3 DEF data
<1>12. n - 1 \in Nat /\ n - 1 <= 65535 /\ (n - 1) + 1 >= 16
  BY <1>3
<1> QED BY <1>2, <1>4, <1>7, <1>8, <1>9, <1>10, <1>11, <1>12 DEF Sound, d

\* Every image larger than a floppy has such a geometry.
LEMMA Derived ==
  ASSUME NEW size \in Nat, size > 524288
  PROVE  \E R : Sound(derive_dpb(size), size, R)
<1> DEFINE data == size - 12288
<1>1. data \in Nat /\ data >= 500000
  OBVIOUS
<1>2. /\ <<4, 16, 2048>> \in BlockSizes /\ <<5, 32, 4096>> \in BlockSizes
      /\ <<6, 64, 8192>> \in BlockSizes /\ <<7, 128, 16384>> \in BlockSizes
  BY DEF BlockSizes
<1>3. CASE BlockShift(data) = 4 /\ data \div 2048 >= 16
  BY <1>2, <1>3, DerivedWithShift
<1>4. CASE BlockShift(data) = 5 /\ data \div 4096 >= 16
  BY <1>2, <1>4, DerivedWithShift
<1>5. CASE BlockShift(data) = 6 /\ data \div 8192 >= 16
  BY <1>2, <1>5, DerivedWithShift
<1>6. CASE BlockShift(data) = 7 /\ data \div 16384 >= 16
  BY <1>2, <1>6, DerivedWithShift
<1> HIDE DEF data
<1> QED BY <1>1, <1>3, <1>4, <1>5, <1>6, BlockShiftIs

-----------------------------------------------------------------------------
(* The drives of the emulator.                                             *)

Geometry(size) == IF size = -1 THEN M20_FLOPPY ELSE derive_dpb(size)
Sizes == ImageSizes \cup {-1}

\* A floppy's geometry or a derived one, of an image of that size.
Fits(d, size) == d = M20_FLOPPY \/ (size \in ImageSizes /\ \E R : Sound(d, size, R))

LEMMA GeometryFits ==
  ASSUME NEW size \in Sizes
  PROVE  Fits(Geometry(size), size)
<1>1. CASE size = -1
  BY <1>1 DEF Geometry, Fits
<1>2. CASE size \in ImageSizes /\ size > 524288
  <2>1. size \in Nat
    BY <1>2, HostDisksAssumption
  <2>2. \E R : Sound(derive_dpb(size), size, R)
    BY <1>2, <2>1, Derived
  <2> QED BY <1>2, <2>1, <2>2 DEF Geometry, Fits
<1>3. CASE size \in ImageSizes /\ size <= 524288
  <2>1. size \in Nat /\ size <= 512 * 1024
    BY <1>3, HostDisksAssumption
  <2> QED BY <2>1 DEF Geometry, Fits, derive_dpb
<1> QED BY <1>1, <1>2, <1>3, HostDisksAssumption DEF Sizes

\* What any of these geometries promises.
LEMMA GeometryFacts ==
  ASSUME NEW d, NEW size, Fits(d, size)
  PROVE  /\ d.dsm \in Nat /\ d.dsm <= 65535 /\ d.cks \in {0, 16} /\ d.spt = 32 /\ d.off = 3
         /\ BlockRecords(d) \in {16, 32, 64, 128}
         /\ Even(d.cks) = d.cks
         /\ AlvSize(d) \in Nat /\ AlvSize(d) >= d.dsm \div 8 + 1
         /\ DirectoryFits(d) /\ ExtentsFit(d) /\ d.cks \in {0, (d.drm + 1) \div 4}
<1>1. /\ d.dsm \in Nat /\ d.dsm <= 65535 /\ d.cks \in {0, 16} /\ d.spt = 32 /\ d.off = 3
      /\ BlockRecords(d) \in {16, 32, 64, 128}
      /\ DirectoryFits(d) /\ ExtentsFit(d) /\ d.cks \in {0, (d.drm + 1) \div 4}
  <2>1. CASE d = M20_FLOPPY
    BY <2>1, FloppyTables DEF DirectoryFits, ExtentsFit
  <2>2. CASE \E R : Sound(d, size, R)
    <3> PICK R : Sound(d, size, R)
      BY <2>2
    <3>1. /\ R \in {16, 32, 64, 128} /\ BlockRecords(d) = R /\ d.spt = 32 /\ d.off = 3 /\ d.cks = 0
          /\ d.dsm \in Nat /\ d.dsm <= 65535 /\ d.dsm + 1 >= 16
          /\ d.al \in 1..16 /\ d.drm + 1 = 4 * d.al * R
          /\ (IF d.dsm < 256 THEN 16 ELSE 8) * R = (d.exm + 1) * 128
      BY DEF Sound
    <3>2. ExtentsFit(d)
      BY <3>1 DEF ExtentsFit
    <3>3. DirectoryFits(d)
      <4>1. 4 * d.al * R \in Int
        BY <3>1
      <4>2. d.al <= d.dsm + 1 /\ d.al <= 16
        BY <3>1
      <4> QED BY <3>1, <4>1, <4>2 DEF DirectoryFits
    <3> QED BY <3>1, <3>2, <3>3
  <2> QED BY <2>1, <2>2 DEF Fits
<1>2. Even(d.cks) = d.cks
  BY <1>1 DEF Even
<1>3. AlvSize(d) \in Nat /\ AlvSize(d) >= d.dsm \div 8 + 1
  <2> DEFINE q == d.dsm \div 8 + 1
  <2>1. q \in Nat
    BY <1>1
  <2> HIDE DEF q
  <2>2. Even(q) \in Nat /\ Even(q) >= q
    BY <2>1 DEF Even
  <2> QED BY <2>2 DEF AlvSize, q
<1> QED BY <1>1, <1>2, <1>3

LengthsOf(d) == <<18, 16, Even(d.cks), AlvSize(d)>>
Tables(f, d) == [i \in 1..4 |-> [from |-> f[i], length |-> LengthsOf(d)[i]]]
FollowsFrom(f, o, L) ==
  /\ f[1] = o /\ f[2] = W16(o + L[1]) /\ f[3] = W16(f[2] + L[2])
  /\ f[4] = W16(f[3] + L[3]) /\ f[5] = W16(f[4] + L[4])

\* bios_init_disks places the four tables of a drive one after the other.
LEMMA InitDiskPlaces ==
  ASSUME NEW size \in Sizes, InitDisk(size)
  PROVE  /\ at.drive = 0 /\ Len(drives) < NUM_DRIVES /\ at' = at
         /\ \E f : /\ FollowsFrom(f, off, LengthsOf(Geometry(size))) /\ off' = f[5]
                   /\ drives' = Append(drives, [size |-> size, dpb |-> Geometry(size),
                                                tables |-> Tables(f, Geometry(size))])
<1> DEFINE d == Geometry(size)
           L == LengthsOf(d)
           Placed(f) == [i \in 1..5 |-> IF i = 1 THEN off ELSE W16(f[i - 1] + L[i - 1])]
           F == CHOOSE f : f = Placed(f)
<1>1. /\ at.drive = 0 /\ Len(drives) < NUM_DRIVES /\ at' = at /\ off' = F[5]
      /\ drives' = Append(drives, [size |-> size, dpb |-> d, tables |-> Tables(F, d)])
  BY DEF InitDisk, Geometry, LengthsOf, Tables
<1> HIDE DEF d, L
<1>2. \E f : f = Placed(f)
  <2> DEFINE o2 == W16(off + L[1])
             o3 == W16(o2 + L[2])
             o4 == W16(o3 + L[3])
             o5 == W16(o4 + L[4])
             g  == [i \in 1..5 |-> IF i = 1 THEN off ELSE IF i = 2 THEN o2 ELSE IF i = 3 THEN o3
                                   ELSE IF i = 4 THEN o4 ELSE o5]
  <2>1. g[1] = off /\ g[2] = o2 /\ g[3] = o3 /\ g[4] = o4 /\ g[5] = o5
    BY DEF g
  <2> HIDE DEF o2, o3, o4, o5
  <2>2. ASSUME NEW i \in 1..5 PROVE g[i] = IF i = 1 THEN off ELSE W16(g[i - 1] + L[i - 1])
    <3>1. CASE i = 1
      BY <2>1, <3>1
    <3>2. CASE i = 2
      BY <2>1, <3>2 DEF o2
    <3>3. CASE i = 3
      BY <2>1, <3>3 DEF o3
    <3>4. CASE i = 4
      BY <2>1, <3>4 DEF o4
    <3>5. CASE i = 5
      BY <2>1, <3>5 DEF o5
    <3> QED BY <3>1, <3>2, <3>3, <3>4, <3>5
  <2>3. g = [i \in 1..5 |-> g[i]]
    OBVIOUS
  <2> HIDE DEF g
  <2>4. g = Placed(g)
    BY <2>2, <2>3
  <2> QED BY <2>4
<1>3. F = Placed(F)
  BY <1>2
<1> HIDE DEF F
<1>4. FollowsFrom(F, off, L)
  <2>1. F[1] = off
    BY <1>3
  <2>2. F[2] = W16(F[1] + L[1])
    BY <1>3
  <2>3. F[3] = W16(F[2] + L[2])
    BY <1>3
  <2>4. F[4] = W16(F[3] + L[3])
    BY <1>3
  <2>5. F[5] = W16(F[4] + L[4])
    BY <1>3
  <2> QED BY <2>1, <2>2, <2>3, <2>4, <2>5 DEF FollowsFrom
<1> QED BY <1>1, <1>4 DEF d, L

Geometries == {Geometry(size) : size \in Sizes}
FourTables == [1..4 -> [from : Nat, length : Nat]]
Configured ==
  [size : Sizes, dpb : Geometries, tables : FourTables]
Equipped(x) ==
  x.dpb = Geometry(x.size) /\ \A i \in 1..4 : x.tables[i].length = LengthsOf(x.dpb)[i]
WithinDrive(place) ==
  /\ place.drive \in 0..Len(drives) /\ place.block \in Nat /\ place.rec \in Nat
  /\ place.drive # 0 =>
       LET x == drives[place.drive] IN
       x.size # -1 /\ place.block <= x.dpb.dsm /\ place.rec < BlockRecords(x.dpb)

DisksInv ==
  /\ drives \in Seq(Configured) /\ off \in Nat
  /\ \A n \in 1..Len(drives) : Equipped(drives[n])
  /\ at \in [drive : Nat, block : Nat, rec : Nat] /\ WithinDrive(at)

LEMMA ConfiguredDrive ==
  ASSUME DisksInv, NEW n \in 1..Len(drives)
  PROVE  /\ drives[n] \in Configured /\ drives[n].size \in Sizes /\ Equipped(drives[n])
         /\ drives[n].dpb = Geometry(drives[n].size) /\ drives[n].tables \in FourTables
<1>1. drives[n] \in Configured /\ Equipped(drives[n])
  BY DEF DisksInv
<1>2. drives[n].size \in Sizes /\ drives[n].tables \in FourTables
  BY <1>1 DEF Configured
<1> QED BY <1>1, <1>2 DEF Equipped

LEMMA Appended ==
  ASSUME NEW S, NEW s \in Seq(S), NEW e \in S
  PROVE  /\ Append(s, e) \in Seq(S) /\ Len(Append(s, e)) = Len(s) + 1 /\ Len(s) \in Nat
         /\ \A n \in 1..Len(s) : Append(s, e)[n] = s[n]
         /\ Append(s, e)[Len(s) + 1] = e
OBVIOUS

LEMMA LengthsAreNat ==
  ASSUME NEW size \in Sizes
  PROVE  LET L == LengthsOf(Geometry(size)) IN
         L[1] = 18 /\ L[2] = 16 /\ L[3] \in {0, 16} /\ L[4] = AlvSize(Geometry(size)) /\ L[4] \in Nat
<1> DEFINE d == Geometry(size)
<1>1. Even(d.cks) \in {0, 16} /\ AlvSize(d) \in Nat
  BY GeometryFits, GeometryFacts
<1> HIDE DEF d
<1> QED BY <1>1 DEF LengthsOf, d

LEMMA FollowersAreNat ==
  ASSUME NEW f, NEW o \in Nat, NEW L, FollowsFrom(f, o, L),
         L[1] \in Nat, L[2] \in Nat, L[3] \in Nat, L[4] \in Nat
  PROVE  \A i \in 1..5 : f[i] \in Nat
<1>1. \A n \in Nat : W16(n) \in Nat
  BY Powers DEF W16
<1>2. f[1] \in Nat /\ f[2] \in Nat
  BY <1>1 DEF FollowsFrom
<1>3. f[3] \in Nat
  BY <1>1, <1>2 DEF FollowsFrom
<1>4. f[4] \in Nat
  BY <1>1, <1>3 DEF FollowsFrom
<1>5. f[5] \in Nat
  BY <1>1, <1>4 DEF FollowsFrom
<1> QED BY <1>2, <1>3, <1>4, <1>5

\* A configured drive is well-formed.
LEMMA NewDrive ==
  ASSUME off \in Nat, NEW size \in Sizes, NEW f,
         FollowsFrom(f, off, LengthsOf(Geometry(size)))
  PROVE  LET x == [size |-> size, dpb |-> Geometry(size), tables |-> Tables(f, Geometry(size))] IN
         /\ x \in Configured /\ Equipped(x) /\ f[5] \in Nat
<1> DEFINE d == Geometry(size)
           L == LengthsOf(d)
           t == Tables(f, d)
           x == [size |-> size, dpb |-> d, tables |-> t]
<1>1. L[1] \in Nat /\ L[2] \in Nat /\ L[3] \in Nat /\ L[4] \in Nat
  BY LengthsAreNat
<1>2. \A i \in 1..5 : f[i] \in Nat
  <2> HIDE DEF L
  <2> QED BY <1>1, FollowersAreNat DEF L
<1>3. \A i \in 1..4 : L[i] \in Nat
  <2> HIDE DEF L
  <2> QED BY <1>1
<1>4. t = [i \in 1..4 |-> [from |-> f[i], length |-> L[i]]]
  BY DEF Tables
<1> HIDE DEF L, t
<1>5. t \in FourTables /\ \A i \in 1..4 : t[i].length = L[i]
  BY <1>2, <1>3, <1>4 DEF FourTables
<1>6. d \in Geometries
  BY DEF Geometries
<1> HIDE DEF d
<1>7. x \in Configured
  BY <1>5, <1>6 DEF Configured
<1>8. Equipped(x)
  BY <1>5 DEF Equipped, L, d
<1> QED BY <1>2, <1>7, <1>8 DEF t, d

LEMMA DisksInitial == HostDisksInit => DisksInv
<1> SUFFICES ASSUME HostDisksInit PROVE DisksInv
  OBVIOUS
<1>1. drives = <<>> /\ off = W16(Even(BASE) + 128) /\ at = [drive |-> 0, block |-> 0, rec |-> 0]
  BY DEF HostDisksInit
<1>2. drives \in Seq(Configured) /\ Len(drives) = 0
  BY <1>1
<1>3. off \in Nat
  BY <1>1, Powers, HostDisksAssumption DEF W16, Even
<1>4. at \in [drive : Nat, block : Nat, rec : Nat] /\ WithinDrive(at)
  BY <1>1, <1>2 DEF WithinDrive
<1> QED BY <1>2, <1>3, <1>4 DEF DisksInv

\* A drive is appended behind the others, which stay as they are.
LEMMA DriveAdded ==
  ASSUME DisksInv, NEW size \in Sizes, NEW f, FollowsFrom(f, off, LengthsOf(Geometry(size))),
         drives' = Append(drives, [size |-> size, dpb |-> Geometry(size),
                                   tables |-> Tables(f, Geometry(size))])
  PROVE  /\ drives' \in Seq(Configured) /\ Len(drives') = Len(drives) + 1 /\ Len(drives) \in Nat
         /\ \A n \in 1..Len(drives) : drives'[n] = drives[n]
         /\ drives'[Len(drives) + 1].size = size
         /\ drives'[Len(drives) + 1].dpb = Geometry(size)
         /\ drives'[Len(drives) + 1].tables = Tables(f, Geometry(size))
         /\ Equipped(drives'[Len(drives) + 1])
         /\ f[5] \in Nat
<1> DEFINE x == [size |-> size, dpb |-> Geometry(size), tables |-> Tables(f, Geometry(size))]
<1>1. x \in Configured /\ Equipped(x) /\ f[5] \in Nat
  BY NewDrive DEF DisksInv
<1>2. x.size = size /\ x.dpb = Geometry(size) /\ x.tables = Tables(f, Geometry(size))
  OBVIOUS
<1>3. drives' = Append(drives, x) /\ drives \in Seq(Configured)
  BY DEF DisksInv
<1> HIDE DEF x
<1>4. /\ drives' \in Seq(Configured) /\ Len(drives') = Len(drives) + 1 /\ Len(drives) \in Nat
      /\ \A n \in 1..Len(drives) : drives'[n] = drives[n]
      /\ drives'[Len(drives) + 1] = x
  BY <1>1, <1>3, Appended
<1> QED BY <1>1, <1>2, <1>4

LEMMA DisksStep ==
  ASSUME DisksInv, [HostDisksNext]_hvars
  PROVE  DisksInv'
<1>1. CASE UNCHANGED hvars
  BY <1>1 DEF hvars, DisksInv, WithinDrive
<1>2. ASSUME NEW size \in Sizes, InitDisk(size) PROVE DisksInv'
  <2>1. PICK f : /\ FollowsFrom(f, off, LengthsOf(Geometry(size))) /\ off' = f[5]
                 /\ drives' = Append(drives, [size |-> size, dpb |-> Geometry(size),
                                              tables |-> Tables(f, Geometry(size))])
    BY <1>2, InitDiskPlaces
  <2>2. at.drive = 0 /\ at' = at
    BY <1>2, InitDiskPlaces
  <2>3. /\ drives' \in Seq(Configured) /\ Len(drives') = Len(drives) + 1 /\ Len(drives) \in Nat
        /\ \A n \in 1..Len(drives) : drives'[n] = drives[n]
        /\ Equipped(drives'[Len(drives) + 1]) /\ f[5] \in Nat
    BY <2>1, DriveAdded
  <2>4. \A n \in 1..Len(drives') : Equipped(drives'[n])
    BY <2>3 DEF DisksInv
  <2>5. at' \in [drive : Nat, block : Nat, rec : Nat] /\ WithinDrive(at)'
    BY <2>2, <2>3 DEF DisksInv, WithinDrive
  <2> QED BY <2>1, <2>3, <2>4, <2>5 DEF DisksInv
<1>3. ASSUME NEW n \in 1..Len(drives), SelectDrive(n) PROVE DisksInv'
  <2>1. /\ drives' = drives /\ off' = off /\ drives[n].size # -1
    BY <1>3 DEF SelectDrive
  <2> DEFINE d == drives[n].dpb
  <2>2. PICK b \in {0, d.dsm \div 2, d.dsm} : at' = [drive |-> n, block |-> b, rec |-> 0]
    BY <1>3 DEF SelectDrive
  <2>3. d.dsm \in Nat /\ BlockRecords(d) \in {16, 32, 64, 128}
    <3>1. drives[n].size \in Sizes /\ d = Geometry(drives[n].size)
      BY <1>3, ConfiguredDrive
    <3> QED BY <3>1, GeometryFits, GeometryFacts
  <2> HIDE DEF d
  <2>4. b \in Nat /\ b <= d.dsm /\ 0 < BlockRecords(d)
    BY <2>3
  <2>5. at' \in [drive : Nat, block : Nat, rec : Nat]
    BY <1>3, <2>2, <2>4
  <2>6. at'.drive = n /\ at'.block = b /\ at'.rec = 0
    BY <2>2
  <2>7. WithinDrive(at)'
    BY <1>3, <2>1, <2>4, <2>6 DEF WithinDrive, d
  <2> QED BY <2>1, <2>5, <2>7 DEF DisksInv
<1>4. CASE LastRecord
  <2> DEFINE d == drives[at.drive].dpb
             R == BlockRecords(d)
  <2>1. drives' = drives /\ off' = off /\ at.drive # 0 /\ at' = [at EXCEPT !.rec = R - 1]
    BY <1>4 DEF LastRecord
  <2>2. /\ at \in [drive : Nat, block : Nat, rec : Nat]
        /\ at.drive \in 0..Len(drives) /\ Len(drives) \in Nat
        /\ drives[at.drive].size # -1 /\ at.block <= d.dsm
    BY <2>1 DEF DisksInv, WithinDrive
  <2>3. R \in {16, 32, 64, 128}
    <3>1. at.drive \in 1..Len(drives)
      BY <2>1, <2>2
    <3>2. drives[at.drive].size \in Sizes /\ d = Geometry(drives[at.drive].size)
      BY <3>1, ConfiguredDrive
    <3> QED BY <3>2, GeometryFits, GeometryFacts
  <2>4. at' \in [drive : Nat, block : Nat, rec : Nat]
        /\ at'.drive = at.drive /\ at'.block = at.block /\ at'.rec = R - 1
    <3> HIDE DEF R
    <3> QED BY <2>1, <2>2, <2>3
  <2>5. WithinDrive(at)'
    <3>1. R - 1 \in Nat /\ R - 1 < R
      BY <2>3
    <3> QED BY <2>1, <2>2, <2>4, <3>1 DEF WithinDrive
  <2> QED BY <2>1, <2>4, <2>5 DEF DisksInv
<1> QED BY <1>1, <1>2, <1>3, <1>4 DEF HostDisksNext, Sizes

\* The geometry of every image, of any size, is one that the BDOS can use (derive_dpb).
THEOREM DerivedGeometries == HostDisksSpec => []GeometryIsUsable
<1>1. DisksInv /\ [HostDisksNext]_hvars => DisksInv'
  BY DisksStep
<1>2. DisksInv => GeometryIsUsable
  <2> SUFFICES ASSUME DisksInv, NEW n \in 1..Len(drives)
               PROVE  LET d == drives[n].dpb IN
                      /\ DirectoryFits(d) /\ ExtentsFit(d)
                      /\ VectorsFit(d, drives[n].tables[3].length, drives[n].tables[4].length)
    BY DEF GeometryIsUsable
  <2> DEFINE d == drives[n].dpb
  <2>1. Equipped(drives[n]) /\ drives[n].size \in Sizes
    BY ConfiguredDrive
  <2>2. d = Geometry(drives[n].size)
    BY ConfiguredDrive
  <2>3. drives[n].tables[3].length = Even(d.cks) /\ drives[n].tables[4].length = AlvSize(d)
    <3>1. 3 \in 1..4 /\ 4 \in 1..4
      OBVIOUS
    <3>2. drives[n].tables[3].length = LengthsOf(d)[3] /\ drives[n].tables[4].length = LengthsOf(d)[4]
      BY <2>1, <3>1 DEF Equipped
    <3> QED BY <3>2 DEF LengthsOf
  <2>4. Fits(d, drives[n].size)
    BY <2>1, <2>2, GeometryFits
  <2> HIDE DEF d
  <2>5. /\ d.cks \in {0, 16} /\ Even(d.cks) = d.cks /\ AlvSize(d) >= d.dsm \div 8 + 1
        /\ DirectoryFits(d) /\ ExtentsFit(d) /\ d.cks \in {0, (d.drm + 1) \div 4}
    BY <2>4, GeometryFacts
  <2>6. VectorsFit(d, drives[n].tables[3].length, drives[n].tables[4].length)
    BY <2>3, <2>5 DEF VectorsFit
  <2> QED BY <2>5, <2>6 DEF d
<1> QED BY DisksInitial, <1>1, <1>2, PTL DEF HostDisksSpec

\* Tracks and sectors of 32 records, as long as the track fits in 16 bits.
FarRecord == 2097055
LEMMA SeekIs ==
  ASSUME NEW d, NEW b, NEW r, d.spt = 32, d.off = 3,
         b * BlockRecords(d) + r \in Nat, b * BlockRecords(d) + r <= FarRecord
  PROVE  Seek(d, b, r) = 96 + (b * BlockRecords(d) + r)
<1> DEFINE x == b * BlockRecords(d) + r
<1>1. x \in Nat /\ x <= FarRecord
  OBVIOUS
<1>2. TrackOf(d, b, r) = 3 + x \div 32 /\ SectorOf(d, b, r) = x % 32
  BY DEF TrackOf, SectorOf
<1> HIDE DEF x
<1>3. /\ 3 + x \div 32 \in Nat /\ 3 + x \div 32 < 65536
      /\ x % 32 \in Nat /\ x % 32 < 65536 /\ x = 32 * (x \div 32) + (x % 32)
  BY <1>1, SMT DEF FarRecord
<1>4. \A n \in Nat : n < 65536 => W16(n) = n
  BY Powers DEF W16
<1>5. Seek(d, b, r) = (3 + x \div 32) * 32 + (x % 32)
  <2> DEFINE t == 3 + x \div 32
             s == x % 32
  <2>1. TrackOf(d, b, r) = t /\ SectorOf(d, b, r) = s
    BY <1>2
  <2>2. t \in Nat /\ t < 65536 /\ s \in Nat /\ s < 65536
    BY <1>3
  <2> HIDE DEF t, s
  <2>3. W16(t) = t /\ W16(s) = s
    BY <1>4, <2>2
  <2>4. Seek(d, b, r) = t * 32 + s
    BY <2>1, <2>3 DEF Seek
  <2> QED BY <2>4 DEF t, s
<1> QED BY <1>1, <1>3, <1>5 DEF x

\* The records of a block end where the next block begins.
LEMMA RecordsInBlocks ==
  ASSUME NEW R \in {16, 32, 64, 128}, NEW D \in Nat, NEW b \in Nat, b <= D, NEW r \in Nat, r < R,
         NEW size \in Nat, (D + 1) * (128 * R) <= size - 12288
  PROVE  b * R + r \in Nat /\ 96 + (b * R + r) < size \div 128
<1>1. b * R + r < (D + 1) * R /\ b * R \in Nat /\ (D + 1) * R \in Nat
  <2>1. R \in Nat /\ r \in 0..R - 1
    OBVIOUS
  <2>2. b * R \in Nat /\ (D + 1) * R \in Nat
    OBVIOUS
  <2> QED BY <2>1, <2>2, EndOfBlock
<1>2. (D + 1) * (128 * R) = 128 * ((D + 1) * R)
  OBVIOUS
<1> DEFINE x == b * R + r
           y == (D + 1) * R
<1>3. x \in Nat /\ y \in Nat /\ x < y /\ 128 * y <= size - 12288
  BY <1>1, <1>2
<1> HIDE DEF x, y
<1>4. 128 * (97 + x) <= size
  BY <1>3
<1>5. 97 + x <= size \div 128
  BY <1>3, <1>4
<1> QED BY <1>3, <1>5 DEF x

\* The records of the derived geometries lie in the image, in order, for images up to 256 MB;
\* beyond, the track number no longer fits the 16 bits of BIOS_SETTRK.
THEOREM RecordsInImage ==
  ASSUME \A size \in ImageSizes : size <= 2 ^ 28
  PROVE  HostDisksSpec => []RecordsLieInTheImage
<1>1. DisksInv /\ [HostDisksNext]_hvars => DisksInv'
  BY DisksStep
<1>2. DisksInv => RecordsLieInTheImage
  <2> DEFINE x == drives[at.drive]
             d == x.dpb
  <2> SUFFICES ASSUME DisksInv, at.drive # 0, d # M20_FLOPPY
               PROVE  /\ Seek(d, at.block, at.rec) = 3 * 32 + at.block * BlockRecords(d) + at.rec
                      /\ Seek(d, at.block, at.rec) < x.size \div 128
    BY DEF RecordsLieInTheImage
  <2>1. /\ at \in [drive : Nat, block : Nat, rec : Nat] /\ at.drive \in 1..Len(drives)
        /\ x.size # -1 /\ at.block <= d.dsm /\ at.rec < BlockRecords(d)
    BY DEF DisksInv, WithinDrive
  <2>2. x.size \in Sizes
    BY <2>1, ConfiguredDrive
  <2>3. d = Geometry(x.size)
    BY <2>1, ConfiguredDrive
  <2>4. x.size \in ImageSizes /\ x.size \in Nat
    BY <2>1, <2>2, HostDisksAssumption DEF Sizes
  <2>5. Fits(d, x.size)
    BY <2>2, <2>3, GeometryFits
  <2> DEFINE size == x.size
             b == at.block
             r == at.rec
  <2>6. b \in Nat /\ r \in Nat /\ b <= d.dsm /\ r < BlockRecords(d)
    BY <2>1
  <2> HIDE DEF d, size, b, r
  <2>7. PICK R : Sound(d, size, R)
    BY <2>5 DEF Fits, size
  <2>8. /\ R \in {16, 32, 64, 128} /\ BlockRecords(d) = R /\ d.spt = 32 /\ d.off = 3
        /\ d.dsm \in Nat /\ (d.dsm + 1) * (128 * R) <= size - 12288
    BY <2>7 DEF Sound
  <2>9. b * R + r \in Nat /\ 96 + (b * R + r) < size \div 128
    BY <2>4, <2>6, <2>8, RecordsInBlocks DEF size
  <2>10. b * R + r <= FarRecord
    <3>1. size \in Nat /\ size <= 268435456
      <4>1. 2 ^ 28 = 268435456
        BY SMT
      <4> QED BY <2>4, <4>1, SMT DEF size
    <3> DEFINE y == b * R + r
    <3>2. y \in Nat /\ 96 + y < size \div 128
      BY <2>9
    <3> HIDE DEF y
    <3>3. y <= FarRecord
      BY <3>1, <3>2, SMT DEF FarRecord
    <3> QED BY <3>3 DEF y
  <2>11. Seek(d, b, r) = 96 + (b * R + r)
    BY <2>8, <2>9, <2>10, SeekIs
  <2>12. 96 + (b * R + r) = 3 * 32 + b * R + r
    <3>1. b * R \in Int
      BY <2>6, <2>8
    <3> QED BY <2>6, <3>1
  <2> QED BY <2>8, <2>9, <2>11, <2>12 DEF size, b, r
<1> QED BY DisksInitial, <1>1, <1>2, PTL DEF HostDisksSpec

-----------------------------------------------------------------------------
(* The tables of the drives, one after the other in the system segment.    *)

InOrder(t, lo, hi) ==
  /\ lo <= t[1].from /\ t[1].from + t[1].length <= t[2].from
  /\ t[2].from + t[2].length <= t[3].from /\ t[3].from + t[3].length <= t[4].from
  /\ t[4].from + t[4].length <= hi
Before(t, u) == t[4].from + t[4].length <= u[1].from

\* The first offset behind the directory buffer; a drive takes at most 50 + A bytes, A
\* bounding the allocation vectors.
FirstTable == Even(BASE) + 128
Packed(A) ==
  /\ FirstTable <= off /\ off <= BASE + 129 + Len(drives) * (50 + A)
  /\ \A n \in 1..Len(drives) : InOrder(drives[n].tables, FirstTable, off)
  /\ \A n, m \in 1..Len(drives) : n < m => Before(drives[n].tables, drives[m].tables)

\* So they are packed as long as there is room.
PackedInv == \A A \in Nat : HaveRoom(A) => Packed(A)

LEMMA FirstTableIs == FirstTable \in Nat /\ BASE \in Nat /\ BASE <= FirstTable /\ FirstTable <= BASE + 129
<1>1. BASE \in Nat
  BY HostDisksAssumption, Powers
<1> QED BY <1>1 DEF FirstTable, Even

LEMMA TablesInOrder ==
  ASSUME NEW t \in FourTables, NEW lo \in Nat, NEW hi \in Nat, InOrder(t, lo, hi), NEW i \in 1..4
  PROVE  /\ t[i].from \in Nat /\ t[i].length \in Nat
         /\ t[1].from <= t[i].from /\ lo <= t[i].from
         /\ t[i].from + t[i].length <= t[4].from + t[4].length /\ t[i].from + t[i].length <= hi
         /\ \A j \in 1..4 : i < j => t[i].from + t[i].length <= t[j].from
<1>1. /\ t[1].from \in Nat /\ t[1].length \in Nat /\ t[2].from \in Nat /\ t[2].length \in Nat
      /\ t[3].from \in Nat /\ t[3].length \in Nat /\ t[4].from \in Nat /\ t[4].length \in Nat
  BY DEF FourTables
<1>2. i = 1 \/ i = 2 \/ i = 3 \/ i = 4
  OBVIOUS
<1>3. CASE i = 1
  BY <1>1, <1>3 DEF InOrder
<1>4. CASE i = 2
  BY <1>1, <1>4 DEF InOrder
<1>5. CASE i = 3
  BY <1>1, <1>5 DEF InOrder
<1>6. CASE i = 4
  BY <1>1, <1>6 DEF InOrder
<1> QED BY <1>2, <1>3, <1>4, <1>5, <1>6

LEMMA ApartByOrder ==
  ASSUME NEW t \in FourTables, NEW v \in FourTables, NEW lo \in Nat, NEW hi \in Nat,
         InOrder(t, lo, hi), InOrder(v, lo, hi), Before(t, v), NEW i \in 1..4, NEW j \in 1..4
  PROVE  t[i].from + t[i].length <= v[j].from
<1> DEFINE a == t[i].from + t[i].length
           b == t[4].from + t[4].length
           c == v[1].from
           e == v[j].from
<1>1. a \in Nat /\ b \in Nat /\ c \in Nat /\ e \in Nat
  <2>1. \A k \in 1..4 : t[k] \in [from : Nat, length : Nat] /\ v[k] \in [from : Nat, length : Nat]
    BY DEF FourTables
  <2>2. t[i] \in [from : Nat, length : Nat] /\ t[4] \in [from : Nat, length : Nat]
    BY <2>1
  <2>3. v[1] \in [from : Nat, length : Nat] /\ v[j] \in [from : Nat, length : Nat]
    BY <2>1
  <2> QED BY <2>2, <2>3
<1>2. a <= b
  BY TablesInOrder
<1>3. b <= c
  BY DEF Before
<1>4. c <= e
  BY TablesInOrder
<1> HIDE DEF a, b, c, e
<1>5. a <= e
  BY <1>1, <1>2, <1>3, <1>4
<1> QED BY <1>5 DEF a, e

LEMMA PackedIsInTurn ==
  ASSUME NEW A \in Nat, DisksInv, HaveRoom(A), Packed(A)
  PROVE  TablesInTurn
<1>1. off \in Nat /\ Len(drives) \in Nat /\ FirstTable \in Nat
  BY FirstTableIs DEF DisksInv
<1>2. off <= 65536
  <2>1. Len(drives) * (50 + A) \in Int
    BY <1>1
  <2> QED BY <1>1, <2>1, FirstTableIs, Powers DEF Packed, HaveRoom
<1>3. ASSUME NEW n \in 1..Len(drives)
      PROVE  drives[n].tables \in FourTables /\ InOrder(drives[n].tables, FirstTable, off)
  BY <1>3, ConfiguredDrive DEF Packed
<1>4. ASSUME NEW n \in 1..Len(drives), NEW i \in 1..4
      PROVE  /\ drives[n].tables[i].from >= FirstTable
             /\ drives[n].tables[i].from + drives[n].tables[i].length <= 65536
  <2> DEFINE t == drives[n].tables
  <2>1. t \in FourTables /\ InOrder(t, FirstTable, off)
    BY <1>3
  <2> HIDE DEF t
  <2>2. /\ FirstTable <= t[i].from /\ t[i].from + t[i].length <= off
        /\ t[i].from \in Nat /\ t[i].length \in Nat
    BY <1>1, <2>1, TablesInOrder
  <2>3. t[i].from >= FirstTable /\ t[i].from + t[i].length <= 65536
    BY <1>1, <1>2, <2>2
  <2> QED BY <2>3 DEF t
<1>5. ASSUME NEW n \in 1..Len(drives), NEW m \in 1..Len(drives), NEW i \in 1..4, NEW j \in 1..4,
             n < m \/ (n = m /\ i < j)
      PROVE  drives[n].tables[i].from + drives[n].tables[i].length <= drives[m].tables[j].from
  <2> DEFINE t == drives[n].tables
             v == drives[m].tables
  <2>1. t \in FourTables /\ InOrder(t, FirstTable, off) /\ v \in FourTables /\ InOrder(v, FirstTable, off)
    BY <1>3
  <2>2. (n < m => Before(t, v)) /\ (n = m => t = v)
    BY DEF Packed
  <2> HIDE DEF t, v
  <2>3. CASE n < m
    <3>1. t[i].from + t[i].length <= v[j].from
      BY <1>1, <2>1, <2>2, <2>3, ApartByOrder
    <3> QED BY <3>1 DEF t, v
  <2>4. CASE n = m /\ i < j
    <3>1. t[i].from + t[i].length <= t[j].from
      BY <1>1, <2>1, <2>4, TablesInOrder
    <3> QED BY <2>2, <2>4, <3>1 DEF t, v
  <2> QED BY <1>5, <2>3, <2>4
<1>6. SUFFICES ASSUME NEW n \in 1..Len(drives), NEW m \in 1..Len(drives), NEW i \in 1..4, NEW j \in 1..4
               PROVE  LET s == drives[n].tables[i]
                          t == drives[m].tables[j]
                      IN /\ s.from >= Even(BASE) + 128 /\ s.from + s.length <= 2 ^ 16
                         /\ n < m \/ (n = m /\ i < j) => s.from + s.length <= t.from
  BY DEF TablesInTurn
<1>7. drives[n].tables[i].from >= Even(BASE) + 128
  BY <1>4 DEF FirstTable
<1>8. drives[n].tables[i].from + drives[n].tables[i].length <= 2 ^ 16
  BY <1>4, Powers
<1>9. n < m \/ (n = m /\ i < j)
        => drives[n].tables[i].from + drives[n].tables[i].length <= drives[m].tables[j].from
  BY <1>5
<1> QED BY <1>7, <1>8, <1>9

LEMMA PackedInitial == HostDisksInit => PackedInv
<1> SUFFICES ASSUME HostDisksInit, NEW A \in Nat, HaveRoom(A) PROVE Packed(A)
  BY DEF PackedInv
<1>1. Len(drives) = 0 /\ off = W16(FirstTable)
  BY DEF HostDisksInit, FirstTable
<1>2. Len(drives) * (50 + A) = 0
  BY <1>1
<1>3. BASE + 129 < 65536
  BY <1>2, FirstTableIs, Powers DEF HaveRoom
<1>4. off = FirstTable
  <2> DEFINE e == FirstTable
  <2>1. e \in Nat /\ e < 65536 /\ off = W16(e)
    BY <1>1, <1>3, FirstTableIs
  <2> HIDE DEF e
  <2>2. off = e
    BY <2>1, Powers DEF W16
  <2> QED BY <2>2 DEF e
<1> QED BY <1>1, <1>2, <1>4, FirstTableIs DEF Packed

LEMMA WordsStay ==
  ASSUME NEW f, NEW o \in Nat, NEW L, FollowsFrom(f, o, L),
         L[1] \in Nat, L[2] \in Nat, L[3] \in Nat, L[4] \in Nat,
         o + L[1] + L[2] + L[3] + L[4] < 65536
  PROVE  /\ f[1] = o /\ f[2] = o + L[1] /\ f[3] = o + L[1] + L[2] /\ f[4] = o + L[1] + L[2] + L[3]
         /\ f[5] = o + L[1] + L[2] + L[3] + L[4]
<1>1. \A n \in Nat : n < 65536 => W16(n) = n
  BY Powers DEF W16
<1>2. f[1] = o /\ f[2] = o + L[1]
  <2>1. o + L[1] \in Nat /\ o + L[1] < 65536
    OBVIOUS
  <2> QED BY <1>1, <2>1 DEF FollowsFrom
<1>3. f[3] = o + L[1] + L[2]
  <2>1. o + L[1] + L[2] \in Nat /\ o + L[1] + L[2] < 65536
    OBVIOUS
  <2>2. f[3] = W16(o + L[1] + L[2])
    BY <1>2 DEF FollowsFrom
  <2> QED BY <1>1, <2>1, <2>2
<1>4. f[4] = o + L[1] + L[2] + L[3]
  <2>1. o + L[1] + L[2] + L[3] \in Nat /\ o + L[1] + L[2] + L[3] < 65536
    OBVIOUS
  <2>2. f[4] = W16(o + L[1] + L[2] + L[3])
    BY <1>3 DEF FollowsFrom
  <2> QED BY <1>1, <2>1, <2>2
<1>5. f[5] = o + L[1] + L[2] + L[3] + L[4]
  <2>1. o + L[1] + L[2] + L[3] + L[4] \in Nat
    OBVIOUS
  <2>2. f[5] = W16(o + L[1] + L[2] + L[3] + L[4])
    BY <1>4 DEF FollowsFrom
  <2> QED BY <1>1, <2>1, <2>2
<1> QED BY <1>2, <1>3, <1>4, <1>5

LEMMA PackedStep ==
  ASSUME DisksInv, PackedInv, [HostDisksNext]_hvars
  PROVE  PackedInv'
<1>1. CASE drives' = drives /\ off' = off
  BY <1>1 DEF PackedInv, HaveRoom, Packed
<1>2. ASSUME NEW size \in Sizes, InitDisk(size) PROVE PackedInv'
  <2> SUFFICES ASSUME NEW A \in Nat, HaveRoom(A)' PROVE Packed(A)'
    BY DEF PackedInv
  <2> DEFINE d == Geometry(size)
             L == LengthsOf(d)
             N == Len(drives)
  <2>1. PICK f : /\ FollowsFrom(f, off, L) /\ off' = f[5]
                 /\ drives' = Append(drives, [size |-> size, dpb |-> d, tables |-> Tables(f, d)])
    BY <1>2, InitDiskPlaces
  <2>2. /\ Len(drives') = N + 1 /\ N \in Nat /\ \A n \in 1..N : drives'[n] = drives[n]
        /\ drives'[N + 1].tables = Tables(f, d)
    BY <2>1, DriveAdded
  <2>3. BASE \in Nat /\ off \in Nat /\ FirstTable \in Nat /\ BASE <= FirstTable
    BY FirstTableIs DEF DisksInv
  <2>4. /\ \A n \in 1..N + 1 : drives'[n].tables[4].length <= A
        /\ BASE + 129 + (N + 1) * (50 + A) < 65536
    BY <2>2, Powers DEF HaveRoom
  <2>5. L[1] = 18 /\ L[2] = 16 /\ L[3] \in {0, 16} /\ L[4] \in Nat /\ L[4] <= A
    <3>1. L[4] \in Nat /\ L[1] = 18 /\ L[2] = 16 /\ L[3] \in {0, 16}
      BY LengthsAreNat
    <3>2. drives'[N + 1].tables[4].length = L[4]
      BY <2>2 DEF Tables
    <3>3. N + 1 \in 1..N + 1
      BY <2>2
    <3> QED BY <2>4, <3>1, <3>2, <3>3
  <2> HIDE DEF d, L, N
  <2>6. /\ (N + 1) * (50 + A) = N * (50 + A) + (50 + A)
        /\ N * (50 + A) \in Nat /\ (N + 1) * (50 + A) \in Nat
    BY <2>2
  <2>7. Packed(A)
    <3>1. BASE + 129 + N * (50 + A) < 65536
      <4> DEFINE P == N * (50 + A)
                 Q == (N + 1) * (50 + A)
      <4>1. P \in Nat /\ Q = P + (50 + A) /\ BASE + 129 + Q < 65536
        BY <2>4, <2>6
      <4> HIDE DEF P, Q
      <4>2. BASE + 129 + P < 65536
        BY <2>3, <4>1
      <4> QED BY <4>2 DEF P
    <3>2. \A n \in 1..N : drives[n].tables[4].length <= A
      BY <2>4, <2>2
    <3>3. HaveRoom(A)
      BY <3>1, <3>2, Powers DEF HaveRoom, N
    <3> QED BY <3>3 DEF PackedInv
  <2>8. off <= BASE + 129 + N * (50 + A) /\ FirstTable <= off
    BY <2>7 DEF Packed, N
  <2>9. off + L[1] + L[2] + L[3] + L[4] < 65536
    <3> DEFINE P == N * (50 + A)
               Q == (N + 1) * (50 + A)
    <3>1. /\ P \in Nat /\ Q = P + (50 + A) /\ BASE + 129 + Q < 65536
          /\ off <= BASE + 129 + P
      BY <2>4, <2>6, <2>8
    <3> HIDE DEF P, Q
    <3> QED BY <2>3, <2>5, <3>1
  <2>10. /\ f[1] = off /\ f[2] = off + 18 /\ f[3] = off + 34 /\ f[4] = off + 34 + L[3]
        /\ f[5] = off + 34 + L[3] + L[4]
    <3>1. FollowsFrom(f, off, L)
      BY <2>1
    <3>2. L[1] \in Nat /\ L[2] \in Nat /\ L[3] \in Nat /\ L[4] \in Nat
      BY <2>5
    <3>3. /\ f[1] = off /\ f[2] = off + L[1] /\ f[3] = off + L[1] + L[2]
          /\ f[4] = off + L[1] + L[2] + L[3] /\ f[5] = off + L[1] + L[2] + L[3] + L[4]
      BY <2>3, <2>9, <3>1, <3>2, WordsStay
    <3> QED BY <2>3, <2>5, <3>2, <3>3
  <2> DEFINE t == Tables(f, d)
  <2>11. /\ t[1].from = f[1] /\ t[2].from = f[2] /\ t[3].from = f[3] /\ t[4].from = f[4]
         /\ t[1].length = L[1] /\ t[2].length = L[2] /\ t[3].length = L[3] /\ t[4].length = L[4]
    BY DEF Tables, L
  <2> HIDE DEF t
  <2>12. InOrder(t, FirstTable, f[5]) /\ t[1].from = off
    BY <2>3, <2>5, <2>8, <2>10, <2>11 DEF InOrder
  <2>13. FirstTable <= off' /\ off' <= BASE + 129 + Len(drives') * (50 + A) /\ off <= off' /\ off' \in Nat
    <3> DEFINE P  == N * (50 + A)
               Q  == Len(drives') * (50 + A)
               l3 == L[3]
               l4 == L[4]
    <3>1. off' = off + 34 + l3 + l4
      BY <2>1, <2>10
    <3>2. Q = P + (50 + A) /\ P \in Nat
      BY <2>2, <2>6
    <3>3. off <= BASE + 129 + P /\ FirstTable <= off
      BY <2>8
    <3>4. l3 \in Nat /\ l3 <= 16 /\ l4 \in Nat /\ l4 <= A
      BY <2>5
    <3> HIDE DEF P, Q, l3, l4
    <3>5. FirstTable <= off' /\ off <= off' /\ off' \in Nat
      BY <2>3, <3>1, <3>3, <3>4
    <3>6. off' <= BASE + 129 + Q
      BY <2>3, <3>1, <3>2, <3>3, <3>4
    <3> QED BY <3>5, <3>6 DEF Q
  <2>14. ASSUME NEW n \in 1..N
         PROVE  /\ drives'[n] = drives[n] /\ InOrder(drives[n].tables, FirstTable, off)
                /\ drives[n].tables \in FourTables
    <3>1. drives[n].tables \in FourTables
      BY <2>14, ConfiguredDrive DEF N
    <3> QED BY <2>7, <2>2, <2>14, <3>1 DEF Packed, N
  <2>15. ASSUME NEW n \in 1..N + 1
         PROVE  InOrder(drives'[n].tables, FirstTable, off')
    <3>1. CASE n = N + 1
      BY <2>1, <2>2, <2>12, <3>1 DEF t
    <3>2. CASE n \in 1..N
      <4> DEFINE u == drives[n].tables
      <4>1. InOrder(u, FirstTable, off) /\ drives'[n].tables = u /\ u \in FourTables
        BY <2>14, <3>2
      <4> HIDE DEF u
      <4>2. u[4].from + u[4].length <= off /\ u[4].from + u[4].length \in Nat
        <5>1. 4 \in 1..4
          OBVIOUS
        <5> QED BY <4>1, <5>1 DEF InOrder, FourTables
      <4>3. u[4].from + u[4].length <= off'
        BY <2>3, <2>13, <4>2
      <4>4. InOrder(u, FirstTable, off')
        BY <4>1, <4>3 DEF InOrder
      <4> QED BY <4>1, <4>4
    <3> QED BY <2>2, <3>1, <3>2
  <2>16. ASSUME NEW n \in 1..N + 1, NEW m \in 1..N + 1, n < m
         PROVE  Before(drives'[n].tables, drives'[m].tables)
    <3>1. n \in 1..N /\ (m \in 1..N \/ m = N + 1)
      BY <2>2, <2>16
    <3>2. CASE m = N + 1
      <4>1. InOrder(drives[n].tables, FirstTable, off)
        BY <2>14, <3>1
      <4>2. drives[n].tables[4].from + drives[n].tables[4].length <= t[1].from
        BY <2>12, <4>1 DEF InOrder
      <4>3. drives'[n].tables = drives[n].tables /\ drives'[m].tables = t
        BY <2>2, <2>14, <3>1, <3>2 DEF t
      <4> QED BY <4>2, <4>3 DEF Before
    <3>3. CASE m \in 1..N
      <4>1. Before(drives[n].tables, drives[m].tables)
        BY <2>7, <2>16, <3>1, <3>3 DEF Packed, N
      <4> QED BY <4>1, <2>14, <3>1, <3>3
    <3> QED BY <3>1, <3>2, <3>3
  <2> QED BY <2>2, <2>13, <2>15, <2>16 DEF Packed
<1>3. ASSUME NEW n \in 1..Len(drives), SelectDrive(n) PROVE PackedInv'
  BY <1>1, <1>3 DEF SelectDrive
<1>4. CASE LastRecord
  BY <1>1, <1>4 DEF LastRecord
<1>5. CASE UNCHANGED hvars
  BY <1>1, <1>5 DEF hvars
<1> QED BY <1>2, <1>3, <1>4, <1>5 DEF HostDisksNext, Sizes

\* Wherever they have room the tables of the drives lie apart, behind the directory buffer and
\* within the segment, for any number of drives and images of any size (bios_init_disks).
THEOREM DrivesApart == HostDisksSpec => []TablesApart
<1> DEFINE Inv == DisksInv /\ PackedInv
<1>1. HostDisksInit => Inv
  BY DisksInitial, PackedInitial
<1>2. Inv /\ [HostDisksNext]_hvars => Inv'
  BY DisksStep, PackedStep
<1>3. Inv => TablesApart
  <2> SUFFICES ASSUME Inv, NEW n \in 1..Len(drives), HaveRoom(drives[n].tables[4].length)
               PROVE  TablesInTurn
    BY DEF TablesApart
  <2>1. drives[n].tables[4].length \in Nat
    BY ConfiguredDrive DEF FourTables
  <2> QED BY <2>1, PackedIsInTurn DEF PackedInv
<1> HIDE DEF Inv
<1> QED BY <1>1, <1>2, <1>3, PTL DEF HostDisksSpec
=============================================================================
