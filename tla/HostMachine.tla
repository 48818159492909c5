---------------------------- MODULE HostMachine -----------------------------
(***************************************************************************)
(* The machine of the hosted emulator around the BDOS: cold and warm boot, *)
(* the map of the user's memory and the chaining of programs               *)
(* (cpm8k_target.h, main.cpp, P_CHAIN in cpm8k_bdos.cpp), and the BIOS     *)
(* backend that serves sectors of disk images (cpm8k_bios.cpp).            *)
(*                                                                         *)
(* A program is merged (instructions and data in one area) or split.  The  *)
(* areas are "tpa" (0x10000, bank 1) and "data" (0x20000, bank 2).  The    *)
(* CCP and the native BDOS are object code; of them the model has what the *)
(* emulator's comments rely on: P_CHAIN leaves the command in the caller's *)
(* data, warm boots, and the CCP then reads it through the user's map.     *)
(***************************************************************************)
EXTENDS Integers

CONSTANTS ImageDrives,     \* drives backed by an image that could be opened
          HostDirs,        \* drives backed by a host directory
          UnopenedDrives,  \* image drives whose file could not be opened
          SPT, Tracks,     \* sectors per track and tracks of the images
          Values,          \* contents of a sector
          NoValue          \* of an answer without one

DriveSet == ImageDrives \cup HostDirs \cup UnopenedDrives
Sectors  == 0..(SPT * Tracks - 1)
Addresses == (0..(Tracks - 1)) \X (0..(SPT - 1))

ASSUME MachineAssumption ==
  /\ DriveSet \subseteq Nat
  /\ SPT \in Nat \ {0} /\ Tracks \in Nat \ {0}

VARIABLES
  target,             \* SegmentedTarget or NonSegmentedTarget
  running,            \* the CCP, or the kind of the program
  umap,               \* the user's map: areas of instructions and data
  g_last_prog_split,
  m_chain_pending,
  command,            \* the area where a chained command lies, or "none"
  s_drive, s_track, s_sector,
  disk,               \* the image files
  pend,               \* what the C library has not written of each, by sector
  res,                \* the answer of the last sector call
  granted,            \* history: the drive the last successful SELDSK asked for
  promise             \* history: what the callers' writes make of every sector

boot  == <<target, running, umap, g_last_prog_split, m_chain_pending, command>>
bios  == <<s_drive, s_track, s_sector, disk, pend, res, granted, promise>>
mvars == <<boot, bios>>

Merged == [code |-> "tpa", data |-> "tpa"]
Split  == [code |-> "tpa", data |-> "data"]
MapOf(kind) == IF kind = "split" THEN Split ELSE Merged

Nothing == [s \in {} |-> 0]

\* An answer: the call, its code (0 is success) and the sector read.
Ans(fn, code, v) == [fn |-> fn, code |-> code, value |-> v]

\* configure() maps the user's segment merged; bios_init_disks opens the images.
MachineInit ==
  /\ target \in {"z8001", "z8002"}
  /\ running = "ccp"
  /\ umap = Merged
  /\ g_last_prog_split = FALSE
  /\ m_chain_pending = FALSE
  /\ command = "none"
  /\ s_drive = 0 /\ s_track = 0 /\ s_sector = 0
  /\ disk \in {[d \in ImageDrives |-> [s \in Sectors |-> v]] : v \in Values}
  /\ pend = [d \in ImageDrives |-> Nothing]
  /\ res = Ans("none", 0, NoValue)
  /\ granted = 0
  /\ promise = [d \in ImageDrives |-> [a \in Addresses |-> disk[d][0]]]

-----------------------------------------------------------------------------
(* Programs.                                                               *)

\* map_address, space 5 of a true program on the Z8001; PGMLD's configure_program on
\* the Z8002.  Only the former remembers the kind of the program.
map_address(kind) ==
  /\ umap' = MapOf(kind)
  /\ g_last_prog_split' = IF target = "z8001" THEN kind = "split" ELSE g_last_prog_split

\* The CCP takes the pending command, if any, from the user's data and starts a program.
StartProgram(kind) ==
  /\ running = "ccp"
  /\ running' = kind
  /\ command' = "none"
  /\ map_address(kind)
  /\ UNCHANGED <<target, m_chain_pending, bios>>

\* A program that cannot be loaded: on the Z8002 the map is set by then.
StartRefused(kind) ==
  /\ running = "ccp"
  /\ command' = "none"
  /\ umap' = IF target = "z8002" THEN MapOf(kind) ELSE umap
  /\ UNCHANGED <<target, running, g_last_prog_split, m_chain_pending, bios>>

\* bios_prepare_warm_boot writes every image out; it is called by the Z8002's warm boot
\* only.
Written(d) == [s \in Sectors |-> IF s \in DOMAIN pend[d] THEN pend[d][s] ELSE disk[d][s]]
Flushed(ds) ==
  /\ disk' = [d \in ImageDrives |-> IF d \in ds THEN Written(d) ELSE disk[d]]
  /\ pend' = [d \in ImageDrives |-> IF d \in ds THEN Nothing ELSE pend[d]]

bios_prepare_warm_boot_Selected == Flushed(ImageDrives \cap {s_drive})
bios_prepare_warm_boot == Flushed(ImageDrives)

prepare_boot_KeepsFlag(pending) ==
  /\ umap' = IF g_last_prog_split /\ pending THEN Split ELSE Merged
  /\ m_chain_pending' = pending

prepare_boot_Unified(pending) ==
  /\ umap' = Merged
  /\ m_chain_pending' = FALSE

\* A warm boot.  The Z8001's halts the CPU; the run loop prepares the boot: the split
\* map stays for a chained command of a split program.  The Z8002 keeps its map.
prepare_boot(pending) ==
  /\ umap' = IF g_last_prog_split /\ pending THEN Split ELSE Merged
  /\ m_chain_pending' = FALSE

WBoot(pending) ==
  /\ IF target = "z8001"
     THEN prepare_boot(pending) /\ UNCHANGED <<disk, pend>>
     ELSE /\ umap' = umap /\ m_chain_pending' = pending
          /\ bios_prepare_warm_boot
  /\ running' = "ccp"
  /\ UNCHANGED <<target, g_last_prog_split, s_drive, s_track, s_sector, granted, promise>>
  /\ res' = Ans("WBOOT", 0, NoValue)

WarmBoot ==
  /\ WBoot(m_chain_pending)
  /\ command' = "none"

\* P_CHAIN: the router sets the flag, the native BDOS warm boots.  The command is where
\* the program's data is.
Chain ==
  /\ running # "ccp"
  /\ command' = umap.data
  /\ WBoot(TRUE)

-----------------------------------------------------------------------------
(* The BIOS backend.                                                       *)

\* A drive has a DPH unless its image could not be opened.
s_dph(d) == d \in ImageDrives \cup HostDirs

\* SELDSK: the selection is kept when the drive has no DPH.
SelDsk(d) ==
  /\ s_drive' = IF s_dph(d) THEN d ELSE s_drive
  /\ granted' = IF s_dph(d) THEN d ELSE granted
  /\ res' = Ans("SELDSK", IF s_dph(d) THEN 0 ELSE 1, NoValue)
  /\ UNCHANGED <<boot, s_track, s_sector, disk, pend, promise>>

\* SETTRK and SETSEC (HOME is SETTRK of 0).
SetTrk(t) ==
  /\ s_track' = t
  /\ res' = Ans("SETTRK", 0, NoValue)
  /\ UNCHANGED <<boot, s_drive, s_sector, disk, pend, granted, promise>>

SetSec(s) ==
  /\ s_sector' = s
  /\ res' = Ans("SETSEC", 0, NoValue)
  /\ UNCHANGED <<boot, s_drive, s_track, disk, pend, granted, promise>>

offset_TracksOfOne == s_track + s_sector

\* The place in the image: track * 4096 + sector * 128, in sectors.
offset == s_track * SPT + s_sector

\* READ and WRITE: fseek writes out what is pending, fread sees the file, and what
\* fwrite takes may stay in the C library.
Read ==
  /\ IF s_drive \in ImageDrives
     THEN Flushed({s_drive}) /\ res' = Ans("READ", 0, Written(s_drive)[offset])
     ELSE res' = Ans("READ", 1, NoValue) /\ UNCHANGED <<disk, pend>>
  /\ UNCHANGED <<boot, s_drive, s_track, s_sector, granted, promise>>

Write(v) ==
  /\ IF s_drive \in ImageDrives
     THEN /\ disk' = [disk EXCEPT ![s_drive] = Written(s_drive)]
          /\ pend' = [pend EXCEPT ![s_drive] = [s \in {offset} |-> v]]
          /\ promise' = [promise EXCEPT ![granted][<<s_track, s_sector>>] = v]
          /\ res' = Ans("WRITE", 0, v)
     ELSE res' = Ans("WRITE", 1, v) /\ UNCHANGED <<disk, pend, promise>>
  /\ UNCHANGED <<boot, s_drive, s_track, s_sector, granted>>

\* FLUSH: of the selected drive.
Flush ==
  /\ Flushed(ImageDrives \cap {s_drive})
  /\ res' = Ans("FLUSH", 0, NoValue)
  /\ UNCHANGED <<boot, s_drive, s_track, s_sector, granted, promise>>

-----------------------------------------------------------------------------
(* The emulator ends and is started again: in order (bios_cleanup_disks    *)
(* closes the images) or killed.                                           *)

ColdStart ==
  /\ running' = "ccp" /\ umap' = Merged
  /\ g_last_prog_split' = FALSE /\ m_chain_pending' = FALSE
  /\ command' = "none"
  /\ s_drive' = 0 /\ s_track' = 0 /\ s_sector' = 0 /\ granted' = 0
  /\ UNCHANGED target

Exit ==
  /\ ColdStart
  /\ Flushed(ImageDrives)
  /\ promise' = promise
  /\ res' = Ans("exit", 0, NoValue)

Killed ==
  /\ ColdStart
  /\ disk' = disk
  /\ pend' = [d \in ImageDrives |-> Nothing]
  /\ promise' = [d \in ImageDrives |-> [a \in Addresses |-> disk[d][a[1] * SPT + a[2]]]]
  /\ res' = Ans("killed", 0, NoValue)

MachineNext ==
  \/ \E kind \in {"merged", "split"} : StartProgram(kind) \/ StartRefused(kind)
  \/ WarmBoot \/ Chain
  \/ \E d \in DriveSet : SelDsk(d)
  \/ \E t \in 0..(Tracks - 1) : SetTrk(t)
  \/ \E s \in 0..(SPT - 1) : SetSec(s)
  \/ Read \/ Flush
  \/ \E v \in Values : Write(v)
  \/ Exit \/ Killed

MachineSpec == MachineInit /\ [][MachineNext]_mvars

-----------------------------------------------------------------------------
(* Properties.                                                             *)

\* Types: the drive the BIOS has selected always has a DPH, or is drive A of a boot;
\* only an opened image has something pending (s_drive, s_dph_offset, s_disk_fp).
MachineTypeOK ==
  /\ target \in {"z8001", "z8002"}
  /\ running \in {"ccp", "merged", "split"}
  /\ umap \in {Merged, Split}
  /\ g_last_prog_split \in BOOLEAN /\ m_chain_pending \in BOOLEAN
  /\ command \in {"none", "tpa", "data"}
  /\ s_drive = 0 \/ s_dph(s_drive)
  /\ s_track \in 0..(Tracks - 1) /\ s_sector \in 0..(SPT - 1)
  /\ disk \in [ImageDrives -> [Sectors -> Values]]
  /\ \A d \in ImageDrives : \A s \in DOMAIN pend[d] :
       s \in Sectors /\ pend[d][s] \in Values

\* Whatever programs ran before and however they ended, the CCP that is to load a
\* chained program sees the data its predecessor left the command in (prepare_boot,
\* map_address, main.cpp:46-52).
ChainedCommandIsSeen == running = "ccp" /\ command # "none" => umap.data = command

\* The split map outlives a warm boot of the Z8001 only for a chained command: a spent
\* P_CHAIN does not show in a later boot (clear_chain_pending).
OrdinaryBootIsMerged ==
  [][WarmBoot /\ target = "z8001" => umap' = Merged]_mvars

\* A sector read is the last one written for the drive SELDSK granted last, the track
\* and the sector, across boots, refused selections and the other images.
SectorReadIsLastWritten ==
  [][res'.fn = "READ" /\ res'.code = 0
       => res'.value = promise'[granted][<<s_track, s_sector>>]]_mvars

Differs(d) == {a \in Addresses : disk[d][a[1] * SPT + a[2]] # promise[d][a]}

\* However the emulator ends, an image lacks at most the last sector written to it
\* (every transfer seeks, and a seek writes out what is pending).
OneSectorAtRisk ==
  \A d \in ImageDrives : \A a, b \in Differs(d) : a = b

\* FLUSH settles the selected drive, and so does the warm boot of the Z8002 for every
\* drive (bios_prepare_warm_boot), and the end of the emulator (bios_cleanup_disks).
BarriersReachTheImage ==
  [][\A d \in ImageDrives :
       \/ res'.fn = "FLUSH" /\ d = granted
       \/ res'.fn = "WBOOT" /\ target = "z8002"
       \/ res'.fn = "exit"
       => Differs(d)' = {}]_mvars

=============================================================================
