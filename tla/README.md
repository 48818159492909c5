# CP/M-8000: a verification development

CPM8000 is Digital Research's CP/M-8000 for the Zilog Z8000 brought back to life: C BIOSes
for three machines, the C tool chain (linker, assembler, object utilities), the BDOS and CCP
as an object library, and a hosted emulator that runs it all over directories and disk images
of the host. This directory holds TLA+ models of its stateful parts, TLC configurations that
check them on small instances, and TLAPS proofs for instances of any size.

    tlc -config BiosDisk_faults.cfg BiosDisk      # model-check one configuration
    tlapm BiosDiskProofs.tla                      # check the proofs

`PROJECT.json` is the index: components, runs, the source lines every definition stands for,
findings, hazards, theorems.

## 1. The system

    guest program --SC #2--> BDOS ----SC #3----> BIOS ----> disk_io ----> drive
         |                    ^ native (cpmsys.rel)  C BIOS + assembly
         v
    emulator: every SC #2 passes CpmBdos::route
         |-- FCB on a host-directory drive --> CpmFileSystem (m_files) --> files of the host
         '-- otherwise, native BDOS --> BIOS backend of the emulator --> disk images

| component | state | operations | hard part |
|---|---|---|---|
| Disk driver of the C BIOS (`src/bios/*/bios.c`, `biosif.8kn`, `biosio.8kn`) | current drive, track, sector; the track buffer with its label and flags; last status; the media | READ, WRITE (3 modes), FLUSH, SELDSK, SETTRK, SETSEC, SECTRAN, HOME, INIT, warm boot | deferred writes, transfers that fail half way, power failure, one status variable for all transfers |
| Host files (`cpm8kemu/cpm8k_file.cpp`) | the table of open files, handles in the guests' FCBs, directory and contents of the host, C-library buffers; the search; drive vectors | open, close, make, delete, rename, read, write, size; search first/next; drive functions | handles travel with copies of FCBs and outlive their slots; slots are never freed by a warm boot; 16 slots |
| BDOS router (`cpm8k_bdos.cpp`, `cpm8k_file.cpp`) | default and current drive, the native BDOS's own current drive, the one directory search, backend of the last search | route, search first/next, drive functions | one call served by two systems that both keep a current drive; files that come and go in a search |
| Program loader (`cpm8k_bdos.cpp`) | memory of the program, base page | PGMLD | segments in any order, merged and split areas |
| Disk tables (`cpm8k_bios.cpp`, `cpm8k_drives.cpp`) | drive table, DPHs and DPBs in guest memory | `bios_init_disks`, `derive_dpb` | geometry arithmetic, 16-bit offsets |
| Machine (`cpm8k_target.h`, `cpm8k_mem.h`, `main.cpp`) | memory map with split instruction/data regions, boot and chain flags, images and their buffers | cold and warm boot, P_CHAIN, sector transfers, exits | chaining while a split map is in force; what is lost when the emulator ends |
| Memory management (`bios.c`, `biosmem.8kn` of the Z8002 packages) | the window, the banks of code and data | `mem_bcp`, `map_adr`, `set_usr` | copies through a window that hides part of the OS; the data bank as a side effect |
| Character devices (`bios.c`, `biosio.8kn`) | I/O byte, receive and transmit registers | CONST, CONIN, CONOUT, LIST, PUNCH, READER, SETIOB | polling loops that must return and must not eat a key |
| Disk layout (`bios.c`, `putboot.c`) | DPBs, DPHs, translate table | SELDSK, SECTRAN, transfers, PUTBOOT | four sector numberings on the way to the medium |
| BDOS and CCP (`cpmsys.rel`) | - | - | object code only |
| Linker (`src/linker/ld8k.c`) | symbol table, segment sizes, module list, relocation buffer | pass 0, pass 1, interlude, pass 2, finale | the two passes must agree |
| Assembler (`src/asm8k`) | symbols, sections, input stack, object blocks, virtual memory | two passes over statements | labels that move between the passes; pointers into virtual memory |
| Object utilities (`src/xoututils`) | - | `xout2coff`, `xout2flat` | renumbered symbols, padding |
| FPE (`src/fpe`), samples, scripts | - | - | - |

A BIOS or BDOS call runs to its end before the guest goes on: the trap handlers do not re-enter,
and the emulator handles a system call inside one instruction. What interleaves are the *calls*:
of programs, of the CCP, of FCBs that name the same file, and of everything that fails between
or inside them.

What makes each part correct:

* **Disk driver**: a read returns the last write, through any number of evictions; FLUSH, warm boot
  and directory writes reach the media; a failed transfer costs one track and is reported for that
  track; a power failure costs what was in the one buffer.
* **Host files**: the table behind the FCBs does not show (no record lost, none from another file,
  no call refused that CP/M would grant).
* **Router**: both BDOSes agree on the current drive; a search answers every file once and goes on where it began.
* **Machine**: a chained command is found under the map in force; images lack one sector at most.
* **Memory copies**: exactly the requested bytes move, whatever windows they cross.
* **Devices**: what is reported ready does not wait (a CRT that is a UART excepted), keys are not lost, output returns.
* **Disk tables**: every block lies on the medium, vectors are long enough, and apart while there is room.
* **Tools**: what a word of a source or object file refers to is what it refers to in the running program.

## 2. Modules

| module | what it is |
|---|---|
| `BiosDisk` | the disk driver: state, every BIOS function of the disk, failures, power cycle, properties |
| `SectorStore` | abstract: a write-back store of sectors |
| `BiosDiskStore` | `BiosDisk` implements `SectorStore` (refinement mapping, property) |
| `BiosDiskProofs` | the proofs about the three |
| `HostFiles` | the open-file table of the emulator with the guest's FCBs and the host |
| `HostFilesCopies` | `HostFiles` with a memory of the copies that a close leaves behind |
| `FcbFiles` | abstract: the FCB is the file state, there is no table |
| `HostFilesFcb` | `HostFiles` implements `FcbFiles` (refinement mapping, property) |
| `FilesProofs` | the proofs about the three |
| `MCHostFiles` | symmetry for the runs |
| `BdosRouter` | the router with the drives and the directory search |
| `HostMachine` | boot, chaining, the memory map, image transfers |
| `HostedProofs` | the proofs about `BdosRouter` and `HostMachine` |
| `MCHosted` | router and machine for TLC |
| `DiskTables` | the disk parameter block and what the BDOS makes of it |
| `HostDisks` | the emulator's geometry and tables |
| `DiskLayout` | the BIOS packages' tables, sector numbering, PUTBOOT |
| `LayoutProofs` | the proofs about `HostDisks` and `DiskLayout` |
| `BiosDevices` | character devices of the BIOS packages |
| `BiosBanks` | memory management of the two Z8002 packages |
| `ServicesProofs` | the proofs about `BiosDevices` and `BiosBanks` |
| `MCServices` | disks, devices and banks for TLC |
| `XOut` | the x.out file as linker, loader and utilities see it |
| `Linker` | LD8K |
| `Loader` | PGMLD, a function of the file |
| `Coff` | xout2coff and xout2flat, functions of the file |
| `ToolChain` | linker and then loader or converter, with the properties that span them |
| `Assembler` | asz8k: both passes |
| `LinkerProofs` | the proofs about the two passes of `Linker`, over the runs of `ToolChain` |
| `AssemblerProofs` | the proofs about `Assembler` |
| `FoldFacts` | lemmas: what folds over sequences and finite sets of any size keep; used by the two before |
| `AsmMemory` | the assembler's virtual memory, symbol table and cross references |
| `MCTools`, `MCSources`, `MCBuild` | the object modules, the source texts, and the tools for TLC |

Operators with an underscore and a capital (`flush_...`, `filltb_NoEviction`) are not part of a
model. They restate the definition that follows them with a plausible bug; some property tells
the two apart.

### 2.1 BiosDisk

Variables have the names of `bios.c`; `tbat` is the pair (`tbdsk`, `tbtrk`) and `disk` the media.
`promised` (what each sector's writers may expect) and `faulted` (tracks a transfer failed on) are
history variables. A helper is an operator on the part of the state the helpers share (`Now`), so
that an action is the composition the code makes: `dskwrite` is
`flush(stored(gettrk(...), ...), ...)`. `n`, `m`, `k` are the numbers of physical sectors a transfer
moves before it fails; `PTRKSZ` is success. `Overlay` gives the half-moved track: `disk_io`
reads into `trkbuf` and writes from it in place, sector by sector.

Not modelled: the drive number mapped by `dskxfer` (it is a bijection on the drives in use), the
DMA address and the copy to the caller (the value is the answer), and the drive's own cache. Callers
address a sector only after SELDSK gave them a DPH (`Addressed`), as the BDOS does. Sectors are
never failed on a cold boot, so `faulted` is emptied there.

### 2.2 HostFiles

One FCB is a pair of caller's segment and address; `fcb[f]` is the path its name bytes make and the
handle in AL[1]. `NewFcb` and `CopyFcb` are the guest: programs construct FCBs and copy them, the
handle with them, and the table does not hear of it. `dir` and `data` are the host: paths lead to files,
and a file lives while a path or an open FILE leads to it, as on a POSIX host. The C library is
modelled as far as it can be seen: a record written stays in the FILE (`pend`) until the next `fseek`
or `fclose` of the same FILE, and a read may be served from what an earlier read buffered (`seen`).

Abstracted: a transfer's record number is a parameter (the arithmetic on EX, S2 and CR, and that of
R0-R2, only chooses it), so sequential and random transfers are one action; files that cannot be
written to, write errors of the host, and attributes are left out. A program can read the file behind an
FCB without a BDOS read only through PGMLD, which uses the same `ensure_open`.

`Exclusive` selects the programs. FALSE: anything goes. TRUE: programs keep to one open FCB per
file, and do not delete, rename or re-create what another FCB has open, which CP/M asks of them.

### 2.3 BdosRouter and HostMachine

A BDOS call is one step. `native` is the current drive of the native BDOS, which is object code:
what it gets (DRV_SET, DRV_ALLRESET) moves it as the manual says, and of its searches the model has only
that it was called. `m_search` holds the names a directory stream will still give (`firm`) and those
that came or went since the directory was opened and that the host may or may not give (`may`).
`owed` and `given` are history. File calls are those of `HostFiles` reduced to what a directory shows.
Of the drives only one must be configured (`DrivesAssumption`), which `main` asks for. DRV_SET takes any drive, as the router does. SELDSK
refuses the native BDOS a drive that is not configured, and the model leaves open whether the native BDOS is then on that drive or on the one before. So the two may differ
while the router's current drive is one that is not there; and from the start until a drive is selected when A is not there, because the native BDOS starts
on A and the router on the first configured drive (`StartedApart`). `CurrentDriveAgrees` says that there is no other case. The run has A configured;
the theorem is about all tables.

`HostMachine` has both targets (`target`), the program's map (`umap`), and the flags that P_CHAIN and the
loader leave (`g_last_prog_split`, `m_chain_pending`). The CCP appears as a reader of the command
through the map in force. A sector written waits in `pend`, the buffer of the image's FILE, until a seek
or a flush of the same image; the emulator may be killed at any step. The two share no state, and
`MCHosted` moves one of them in a behaviour.

### 2.4 HostDisks, DiskLayout

Both compute with the tables of the code. `HostDisks` configures drives one after the other with images of
chosen sizes and then walks through the first, last and neighbouring blocks of each; `DiskLayout`
walks through every block of a disk, from the BDOS's record to the record of the medium, and writes boot
tracks. `PutBoot` compares sizes as PUTBOOT does, without the preamble; a file that overruns `syscode` overwrites variables, and then PUTBOOT
goes on or writes nothing. `bios_init_disks` does not check its offsets either, and the model wraps them at 16 bits;
`HaveRoom` says when they do not wrap. What the BDOS needs of a parameter block is in `DiskTables`.

### 2.5 BiosDevices, BiosBanks

A BIOS call that polls stays in `call` until the port answers, and the typist, the line and the
printer move in between; everything else of a call is one step. `iobyte` selects a routine through the
tables as the code does, the batch device through another column.

In `BiosBanks` a byte is its own origin: memory maps places to the place a byte came from when the copy
began. A bank is four chunks, and the OS bank is seen through the window while it is open. `mem_bcp` runs one
window or bounce at a time; `work` holds the calls under way, since the z8002-demo package's
copies between two banks call `mem_bcp` again.

### 2.6 XOut, Linker, Loader, Coff, ToolChain

A word of a file carries a mark, module, segment and offset, that no tool can see; the properties follow
marks to say what a word refers to before and after. Segments, symbols and relocations are records.
The linker reads one module, or looks at one member of an archive, in a step; a page of the output is `PAGE` bytes. A job is a
sequence of commands, the second of which can link what the first made with `-r`. The loader reads
`SEGS` segment headers, 16 in the code and in the runs, whatever number the file's header has. The loader and the
converters are functions of the finished file, and `ToolChain` states what they make of it.

### 2.7 Assembler, AsmMemory

A statement is a record and an operand an expression of at most one operator: what is left is which
statements are assembled, by which pass, at which location, with which relocation, and how bytes and
relocations fill object blocks. Symbol, section and macro tables are as in the code; the input stack
has frames for files, macros and repeats. `AsmMemory` models blocks, buffers and C pointers into buffers: an
operation that holds a pointer across another access reads and writes where the pointer leads, not where
the block went.

## 3. Runs

| run | module / cfg | shows |
|---|---|---|
| `faults` | `BiosDisk` / `BiosDisk_faults.cfg` | with transfers failing anywhere and power failing at any time: other tracks intact, clean buffers are copies, errors belong to their track, reads return last writes, barriers settle, a power cut costs one track |
| `two_drives` | `BiosDiskStore` / `BiosDiskStore_two_drives.cfg` | without failures, the buffered driver implements the sector store, also for two drives with the same track numbers |
| `lost_write` | `BiosDisk` | finding 1 |
| `any_programs` | `MCHostFiles` / `HostFiles_any.cfg` | whatever programs do: one slot per open, refusals only when full, transfers by name |
| `fcb_files` | `MCHostFiles` / `HostFiles_fcb.cfg` | for well-behaved programs the table implements "the FCB is the file", on two paths of two records: gaps, overwriting, reads at the end, slots closed by old handles |
| `stale_copy` | `HostFilesCopies` / `HostFilesCopies_stale_copy.cfg` | finding 2 |
| `same_file` | `HostFiles` / `HostFiles_same_file.cfg` | finding 3 |
| `hosted` | `MCHosted` / `MCHosted_runs.cfg` | both BDOSes agree on the drive, as far as it is there; searches answer every file, once, whatever happens between two calls; chained commands are seen and ordinary boots are merged; image sectors read back, at most one is at risk, barriers reach the image |
| `last_search` | `MCHosted` / `MCHosted_last_search.cfg` | finding 4 |
| `services` | `MCServices` / `MCServices_services.cfg` | devices (ready means no wait but for a UART as CRT, no key lost, output returns), copies (exact, the right data bank), layout (blocks and boot tracks), emulator tables (apart while there is room, usable, inside the image) |
| `links` | `MCBuild` / `MCBuild_links.cfg` | assembler (labels agree, object blocks are the image), its memory (symbol table whole), linker (passes agree on modules and places), loader and converters (references reach, objects disjoint, base page true, boot image and COFF true) |
| `pass_order` | `MCTools` / `MCTools_pass_order.cfg` | finding 5 |

**Bounds.** *Disk*: two tracks make every eviction (one buffer: a third track would only be another
"other track"); two physical sectors are the fewest that can be half moved; two values tell an old
record from a new one; two drives with equal track numbers are needed to confuse them. The proofs
remove these bounds. *Host files*: two FCBs and two slots exhibit reuse of a slot by another FCB, a copied handle,
and a full table; two files of the host give a deleted file that is still open and its successor; two records and two values give gaps, overwriting and reads at the end of a file.
The record number (`MaxRec`) is the only bounded counter.

*Hosted*: a host drive, an image and a missing drive are the three backends; three names with a blank and a common extension
make every kind of pattern ambiguous; two tracks of two sectors tell track from sector. *Devices*: one ordinary character and XOFF; `POLLS`
is 2 for 65535. *Banks*: chunks of three bytes, bounces of two, copies of 1, 4 and 7 bytes at every place: shorter than
a bounce, across one window, across two. *Layout and tables*: the code's numbers; image sizes on both sides of every step of
`derive_dpb`, bootstraps on both sides of what `syscode` holds with the preamble. `services` has three drives, and a `BASE` so high that the room
runs out at the third large image. *Linker*: pages of 8 bytes make references cross pages, `ShortLimit` and `SegLimit` are small so that limits are met, and
the modules of `MCTools` have every segment type, commons of different sizes, objects in every order with archives
behind them (an object behind an archive is what `pass_order` is about), and both kinds of code. `links` leaves out a second
link of a relocatable file in which a segment is empty (section 5). Long segmented items are in it, but nothing is asked of the symbols that the converter gives them. *Assembler*: texts of four statements from a set that has every statement next to every
other, and longer ones for macros, repeats and includes; object blocks of 17 bytes are filled by one statement. *Its memory*: three buffers, the
fewest the code claims to work with, of blocks that hold two symbols.

**Fairness.** `DevicesFairness` only, weak fairness on the call in progress and on the transmitter (`Shift`):
the processor goes on with a call and a UART shifts out what it holds. Nothing is assumed of the printer
or the typist. The other components only react to calls, and what must happen (a write-back, a release of a slot)
happens within a call or not at all. `MCServices` has deadlock checking off because the boot and table
walks end.

## 4. What is proved

`BiosDiskProofs` proves, for every number of drives, tracks, sectors and values (assumptions
`GeometryAssumption` and `ContentsAssumption`: the logical sectors of a track are a whole multiple of its physical
ones, track 0 exists, the initial contents are a value):

| theorem | property |
|---|---|
| `TypeCorrect` | `TypeOK` |
| `Containment` | `Intact`: tracks no transfer failed on are as promised |
| `Coherence` | `CleanBufferIsTheTrack` |
| `ErrorAttribution` | `ErrorsBelongToTheTrack` |
| `ReadYourWrites` | `ReadReturnsLastWrite` |
| `Barriers` | `BarriersSettle` |
| `PowerCut` | `PowerCutCostsOneTrack` |
| `Refinement` | `ImplementsStore`, when no transfer fails |

The argument: `Sound(st, p)` says of the record the helpers work on what `Intact`,
`CleanBufferIsTheTrack` and `ErrorsBelongToTheTrack` say of the state. No one of them is inductive
by itself: that a clean buffer may be dropped without damage needs that it is a copy of its track, and that is
known of a buffer whose last transfer succeeded only; a buffer whose transfer failed belongs to a track
in `faulted`, which is the attribution of errors. Each helper preserves `Sound` (`FlushSound`,
`FilltbSound`, ...), each action is a composition of helpers, and the action properties follow from
the invariant and the action. The refinement is a step simulation: each action maps to one of the store
or to a stutter, with the invariant (without failures `faulted` is empty) giving the abstract values.

`HostedProofs` proves of `BdosRouter`, for every number of drives, every assignment of them to directories, images or nothing with
one drive at least (`DrivesAssumption`), and every set of names:

| theorem | property |
|---|---|
| `RouterTypes` | `RouterTypeOK` |
| `DrivesAgree` | `CurrentDriveAgrees`: on an image drive the native BDOS is where the router is, but for `StartedApart` |
| `CompleteSearches` | `SearchIsComplete` |
| `NoRepeats` | `SearchDoesNotRepeat` |

The inductive invariant `RouterInv` adds `SearchAccounts` to the type and to the agreement of the drives:
what a search still owes the caller is among the entries `readdir` surely still has, and
what it has answered is not among those it has or may have. `SearchStep` is what any call may do to the
search; each call is shown to be one, and the two action properties are read off it.

`HostedProofs` proves of `HostMachine`, for every set of drives, every size of the images in tracks and sectors and every contents
(`MachineAssumption`: drive numbers are naturals, an image has at least one track of at least one sector):

| theorem | property |
|---|---|
| `MachineTypes` | `MachineTypeOK` |
| `ChainsArrive` | `ChainedCommandIsSeen` |
| `OrdinaryBoots` | `OrdinaryBootIsMerged` |
| `SectorReads` | `SectorReadIsLastWritten` |
| `KillCostsOneSector` | `OneSectorAtRisk` |
| `BarriersSettleImages` | `BarriersReachTheImage` |

`MachineInv` has a part for each half of the module. `MapsAgree`: while a program runs on the Z8001, the map is that of its kind,
`g_last_prog_split` remembers that kind and no chain is pending; the three are what `prepare_boot` decides from, and without the flag the
map of the next CCP is not determined. `BuffersKeepPromises`: an image with the buffer of its FILE laid over it is what the callers
have written. With the type of `pend`, one sector at most, `OneSectorAtRisk` follows; reads and barriers follow from
it and from the seek that empties the buffer before each transfer. It also has to say that the drive the callers were granted is
`s_drive`, refused selections included, or a write after a refusal would go to another drive than its promise.

`FilesProofs` proves, for every number of slots (`TableAssumption`), every set of FCBs, paths, files and values:

| theorem | property |
|---|---|
| `FilesTypes` | `TypeOK` |
| `OneSlotEach` | `OpenOwnsOneSlot` |
| `RefusalsAreFair` | `RefusedOnlyWhenFull` |
| `TransfersByName` | `TransfersGoByName` |
| `TableIsInvisible` | `ImplementsFcbFiles`, for programs that keep to one FCB per open file (`Exclusive`) |

The first four hold whatever programs do with their FCBs: the type is inductive, `FilesStep` is what every call does to the table, and each
action is shown to be one. The refinement needs more, and needs `Exclusive`: the run
`stale_copy` shows what happens without it. `Aligned` is the invariant: a path is open in one slot at most, the slot's FILE
is the file the directory has under that path, no two paths lead to one file, the FILE holds one written record at most, and what it has read ahead is
what the host has, or it has read nothing ahead. Then a path's records in `FcbFiles` are the host's with the slot's record over them, and
each action maps to one of `FcbFiles` or to a stutter. Closing, reusing and reopening slots are the stutters.

`ServicesProofs` proves of `BiosDevices`, for every subset of the packages, all characters and every patience of `parout` (`DevicesAssumption`):

| theorem | property |
|---|---|
| `DevicesTypes` | `DevicesTypeOK` |
| `ReadyIsReady` | `ReadyMeansNoWait` |
| `InputSurvives` | `InputIsNotLost`, when `Packages` leaves out m20-serial |

`ReadyMeansNoWait` excepts one call: output to a CRT that is a UART, whose status routine always answers ready (section 5). It
speaks of the call after the poll; `FoundReady` carries it over the steps between: the port of the routine
that will be called is ready, whichever the iobyte selects, and nothing but that routine empties or fills it. This compares
the rows of `sttbl` with those of `rdtbl` and `wrtbl`, package by package. The m20-serial package is excluded from the last theorem for a reason: it reads a character
away when it polls for output (section 5).

`ServicesProofs` proves of `BiosBanks`, for every chunk, bounce buffer and set of lengths (`BanksAssumption`: the buffer is no larger than a chunk, and a
copy is shorter than a bank):

| theorem | property |
|---|---|
| `DataBank` | `CallerDataIsTheProgramsData` |
| `ExactCopies` | `CopyIsExact` |

`CopyInv` is the loop invariant of `mem_bcp`. Between two copies the window is closed. In a copy, `k` bytes
are done: every place is what it was, except those of the first `k` of the destination (`Done`) and the bounce buffer. A copy between two banks on
the z8002-demo board is in one of two phases inside a round of `n` bytes, of which `j` have been collected into the buffer
(`Held`) or delivered from it; `work`, the calls under way, is determined by `k`, `n` and `j`. That source and destination lie apart, and neither in the
buffer, comes from the request (`Asked`). `MapInv` lists which banks are the program's at each stage of
loading, calls of the floating-point emulator and the warm boot.

`LayoutProofs` proves:

| theorem | property | for |
|---|---|---|
| `BlocksInPlace` | `BlocksLieOnTheDisk` | the disks that are not floppies |
| `BootWritten` | `BootIsInPlace` | every disk; of a file of any size what `syscode` has of it, all of it if it fits with the preamble |
| `DerivedGeometries` | `GeometryIsUsable` | images of every size |
| `RecordsInImage` | `RecordsLieInTheImage` | images up to 2^28 bytes |
| `DrivesApart` | `TablesApart` | any number of drives, images of every size, every `BASE`; the property itself is about drives that have room |

The hypotheses are the code's limits. The last block of a floppy lies beyond the medium (section 5). `SETTRK` takes a track of 16 bits, so that
an image of more than 256 MB wraps. `HaveRoom(A)` says that the allocation vectors have at most `A` bytes and that `BASE + 129` and `50 + A` for each drive
are within the segment: offsets are 16 bits wide, and `bios_init_disks` does not check them. Sixteen images of 128 MB, 8192 blocks and a vector of 1024 bytes each, have room up to
`BASE` = 48222; sixteen of 256 MB, with vectors of 2048, up to 31838; sixteen of 512 MB nowhere (section 5). `Sound` is what `derive_dpb` computes for
each of the four block sizes (blocks, mask, directory and its entries), `Fits` adds the M20's floppy, and the
invariants are then that each drive has such a geometry with its vectors (`DisksInv`) and that the tables follow each other (`PackedInv`). `PUTBOOT` has written, after `n`
records, the boot record and the first `n` records of the reserved tracks (`BootTracks`).

`LinkerProofs` proves, for every library, every sequence of commands, and every page size and limit
(`LibraryAssumption` and `JobsAssumption`: an archive is a sequence of objects, an object has sequences of segments and of symbols, with
lengths and sizes that are numbers, a command names files that are there and segments of the output):

| theorem | property |
|---|---|
| `PassesAgreeTheorem` | `PassesAgree`, where `ListsEnded` holds |
| `OneArchiveTheorem` | `PassesAgree`, when each command names one archive at most (`OneArchive`) |
| `PlacesAgreeTheorem` | `PlacesAgree`, where `ListsEnded` holds |
| `OneArchivePlacesTheorem` | `PlacesAgree`, when each command names one archive at most |

Pass 1 leaves for pass 2 two tables: `posndx`, where the list of each archive begins in `postab`, and `postab`, the members it loaded from
all archives, one list behind the other. `start`, in the proof, divides `loaded`, what pass 1 has loaded, into the parts of the files. `FileDone` says
that the list of a finished file is its part of `loaded` and that pass 2 will see its end (`Ends`): an end mark, the end of `postab`, or
the list of a later archive. `Pass1At` keeps that through pass 1, and `Pass2At` that `member` and `read2` are at
the same place of it. With `Ends` alone `PassesAgree` is not provable, and not true: when nothing is undefined any more
pass 1 leaves an archive without an end mark, and if a later archive is needed all the same pass 2 runs on into its list. That is
finding 5. `ListsEnded` excludes it, state by state; with one archive there is nothing to run on into (`OneList`), and
the theorem has no condition on the states.

That the same modules are read does not put them in the same places. Segment sizes are added up three times: by `p1doseg` for the
symbols of each module, by `interpos` for the start of each output segment, and by `p2load` for where the module is
copied. `PlacesAgree` compares the first two with the third. `PlaceInv` relates them through `at`, a function from
entries of `map` to the sizes of all output segments before the part that the entry is about. `Laid(at)`: each module of `loaded` adds its own segments to `at`
(`Grown`, with `round`), and each of its global symbols has the value `val + at + rel` of its segment. In pass 1
the sizes in `segtab` are the end of `at` and all `rel` are 0 (`Laying1`, `Level`); pass 2 starts over and is at the entry of
the module it has read (`Reading`). `interpos` moves `rel` and the symbols by the same amount, and empties the sizes. Addresses wrap at `SegLimit`, `at` does
not: `WrapSum` lets sums be wrapped at any time. The symbol of a segment that is given again by a later common symbol of its name
(`IsCommon`) is excepted by the property: its address has been overwritten with a size (section 5).

`AssemblerProofs` proves, for every source text, every set of files for `.input`, both segmentations and every size of object blocks, sections,
relocation base and input stack (`AssemblerAssumption`, `SourcesAssumption`: texts are sequences of statements whose arguments are expressions, and what takes an operand
has one, `bad` in the place of a missing one; a block holds one item with its relocation and one symbol, there are at most 255 sections, which is `SECSIZ`):

| theorem | property |
|---|---|
| `AddressesAgreeTheorem` | `AddressesAgree` |
| `ObjectIsTheImageTheorem` | `ObjectIsTheImage` |

The invariant of the first, `AsmInv`, has four parts. `SymTable`: the table is finite, and no symbol of a section has the relocation base of undefined ones, which needs the
limit on sections. `PlacedHold`: as long as there is no error, a label put somewhere by pass 2 is in the table with that place. `UsedHold`: so is every
label that pass 2 used. `RowsHold`: so is every row of a symbols block that is written, or still in memory. The work is that no later statement moves a label. `assign` can change an
entry that has a value in two ways only, a phase error or a second definition, and both are errors, kept until the end; what is written in
pass 1 is changed in pass 2 only with one of them. Every statement, macro expansion, repeat and included file is a
composition of operators that keep `Good`, with folds over operands, items and the symbol table.

The second theorem looks at the bytes. Its invariant is `ImageInv`, which is `AsmInv` and `Whole(z)`. `Built` says that the blocks of
the file, laid one over the other, with the block still in memory over them, are the image; that every block has room for its text and relocations; and
that a relocation lies in the text. `Typed` gives location counters and values their types: without it the place where
the text of the open block ends says nothing. Between two bytes of one item `Built` does not hold as it stands: the relocation of a `.long` is in the block before its four bytes are, and
lies outside the text. `Partial(s, k)` is what holds then: `k` bytes of the item are still to come, the open block has room for
them, and the location counter is where its text ends (`Awaits`). So `emitb` cannot begin a new block in the middle of an item.
Everything that does not emit leaves the object file alone (`Beside`), except `setorg`, `.end` and the entries of the symbols block, which write the open block
out; `oflush` turns the block in memory into the last of the file and keeps the image.

The lemmas of `FoldFacts` are induction over data in a form that the provers take. The library's induction theorems have an operator for a parameter, which none of the installed
provers can instantiate. `FoldFacts` has as constants the operator `op` that is folded and the predicate `P` that it keeps, and a proof instantiates
the *module* with both. They say nothing about the program: that `P` holds of a fold over a sequence when every step keeps it (`FoldInvariant`), the same of a
fold over a finite set, where the order is any (`SetFoldInvariant`), and that a sequence with an element appended takes one step more (`FoldOfAppended`). All are proved from the
well-foundedness of the natural numbers, with induction over the *set* of numbers for which something holds.

Only model-checked:

- `OutputReturns`: liveness under fairness, and ENABLED, are out of the prover's reach.
- What the tools compute in the end: `ReferencesReach`, `ObjectsDisjoint`, `BasePageIsTrue`, `FlatImageIsTheProgram` and
  `CoffKeepsReferences`. They follow words through several folds at once, over modules, segments and relocations. `FoldFacts` would
  serve for each; the invariants that connect the tools are not written. `BasePageIsTrue` is about links with `-w`, the standard order, only: in other orders
  the segments of a kind need not lie together, and `PGMLD` takes the place of the first and the sum of the sizes.
- `SymbolTableIsWhole` and the other properties of `AsmMemory`: the module has RECURSIVE operators (chains of blocks), with which
  the prover has no SMT backend.
- The runs that expect a violation, naturally.

`BanksTypeOK` and `LinkerTypeOK` are stated and hold in the runs' instances; the proofs above do not need them. `TypeOK` of
`HostFiles` is proved (`FilesTypes`) and is in no run: what the runs ask of the table is what it is for.

## 5. What the code does otherwise than its documents say

1. `lost_write`: `filltb` (bios.c:1049) forgets the status of a failed eviction, `flush` clears the dirty flag
   anyway, and a later FLUSH returns 0 for a write that is lost.
2. `stale_copy`: `file_close` clears the handle in the FCB it is given, "so stale copies don't match". A copy made before keeps its handle,
and is taken for the FCB of another file when that is opened in the same slot: make, copy, close of the original, make of the other file.
3. `same_file`: `ensure_open` compares paths; the slot may be a file deleted or renamed since.
4. `last_search`: `m_last_search_host` is never cleared. After one search of a host directory, the second call of
   a search of an image goes to the host's search, and a directory listing of the image ends after one entry.
5. `pass_order`: when an archive member resolves the last open symbol, `p1entry` returns without the end mark of the
   member list. If a later file opens a symbol again and a second archive resolves it, pass 2 seeks with the second archive's
   positions in the first.

Met while modelling, without a run of their own:

* SELDSK of drive MAXDSK is refused after `setdsk` was set to it (bios.c:1109).
* `full table`: an existing file is "not found" when programs left 16 files open, although closing
  a file that was only read is documented as unnecessary (programmers_guide.md:1397).
* Nothing calls `close_user_files` (cpm8k_file.h:107 says it serves the warm boot); F_DELETE takes question
  marks literally.
* The floppies' `dsm` (bios.c:820-822) is the number of blocks, not the last block: block 134 of the M20's lies beyond the medium.
  `derive_dpb` reproduces it for images of that size, as its comment says it must.
* An image of the M20 hard disk (8,839,168 bytes) gets blocks of 2 KB from `derive_dpb`; the BIOS formats that disk with 4 KB.
* ld8k `-r` keeps in the relocation file the numbers of the linker's segment table (ld8k.c:879), while `finout` (902) writes
descriptors of the segments that are not empty only. Linked again, a reference behind an empty segment is relocated by another segment than its own: TLC finds
`ReferencesReach` violated as soon as a module without constants is linked with `-r` and the result linked. No relocatable file of the run has such a gap.
* `conv_reloc_tbl` (xout2coff.c:519-523) sets `symb_idx` for OFF and XOFF only. A long segmented item comes out with the right place and
contents, but names symbol 0. `CoffKeepsReferences` asks for the symbols of OFF items only.
* On the plasmo and z8002-demo boards `crtws` always answers ready (bios.c:590-593), and `crt_put` waits until the UART's transmitter is
empty: with LIST=CRT a list device that is reported ready is not, which system_guide.md:931-933 promises. `ReadyMeansNoWait` excepts it (`OnTheUart`).
* The m20-serial package is built with BAUD (bios.c:34), and its `serout` reads the data port to look for
XOFF: a key typed while the console prints is lost. The warm boot's `serinit` drops one as well. `InputIsNotLost` is about the other three.
* PUTBOOT compares the file's size with SYSSIZE and then puts 280 bytes in front of it (putboot.c:105); of a file of 7913 to 8192 bytes
the end is not written, and it overwrites what follows `syscode`. `BootIsInPlace` asks for what `syscode` holds.
* `bios_init_disks` does not look for a wrap of `off` (cpm8k_bios.cpp:242). Sixteen images of 512 MB need more than 64 KB of tables, and of 256 MB
more than 32 KB, which the segment with the system in it may not have. Then tables overlap, which `TablesApart` does not exclude.
* `parout` drops the character it times out on; the comment in plasmo/bios.c that its printer code is unreachable does not
  hold for SETIOB with LIST=2.
* A track number has 16 bits, so that images above 256 MB alias.
* Without a drive A the native BDOS starts, and is reset to, a drive that is not configured, while the router takes the first one that is: until a drive is selected
calls with drive code 0 go to different drives (`StartedApart`). DRV_SET of a drive that is not configured is accepted by the router and handed to the native BDOS.
* `file_delete` (cpm8k_file.cpp:469-483) closes the slot and leaves the handle in the FCB itself, where it can match the slot's next file as a copy's can.
* PGMLD reads 16 segment headers (cpm8k_bdos.cpp:193) and then takes the next bytes for code when there are more.
* Linker: a common symbol met after the definition of its name overwrites the address if it is larger (ld8k.c:529); the
  module number of an external long-segment symbol is mapped twice (806-808); `setstack` starts from an uninitialised sum (1229).
* Assembler: a call of a macro before its definition expands in pass 2 only, `.if` on a forward symbol chooses differently in
  the two passes; both are reported as phase errors, which is what `AddressesAgree` asks. A based operand in
  segmented mode loses the high byte of its offset (asz8k.c:422). `.exit` inside `.if` leaves the conditional open.
* xout2coff sums the lengths of BSS segments in addresses (`calc_addr`), and looks symbols up by name: of two local symbols of
  one name the first is used.

## 6. Not modelled

The BDOS and CCP and xcon (object code and a program without source); the floating-point emulator (80-bit words);
trap stubs and register save areas; SCSI and floppy controllers below `disk_io`; scanning, parse tables, instruction skeletons and the
listing of the assembler; the console's line editor; xarch and xoutdump (they copy or print bytes); games and
scripts.

## 7. What is open

1. The output of the linker: `PlacesAgreeTheorem` has the addresses of symbols and of the segments they are in. What is left is that parts of
   one segment do not overlap (`ObjectsDisjoint`) and that fix-ups reach the words (`ReferencesReach`).
2. `AsmMemory` without RECURSIVE operators, so that its invariants can be proved.
3. The position arithmetic of `CpmFileSystem`, a parameter of `HostFiles` so far.
