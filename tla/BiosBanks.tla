----------------------------- MODULE BiosBanks -----------------------------
(***************************************************************************)
(* Banked memory of the two Z8002 packages (src/bios/z8002-demo and        *)
(* src/bios/plasmo): the memory manager's copy, mem_bcp, which reaches the *)
(* TPA through a window that hides part of the OS while it is open, and    *)
(* the mapping of a program's addresses, map_adr.                          *)
(*                                                                         *)
(* The scale is smaller: a bank is four chunks of CHUNK bytes (16 KB in    *)
(* the code).  Of a byte only its origin matters: where it was when the    *)
(* copy in progress began.                                                 *)
(***************************************************************************)
EXTENDS Integers, Sequences

CONSTANTS Boards,   \* the packages looked at
          CHUNK,    \* ACHUNK
          BOUNCE,   \* bytes of bounce and of wbounce
          Lengths   \* of the copies asked for

ASSUME BanksAssumption ==
  /\ Boards \subseteq {"plasmo", "z8002-demo"}
  /\ CHUNK \in Nat \ {0} /\ BOUNCE \in 1..CHUNK
  /\ Lengths \subseteq 1..(4 * CHUNK - 1)

VARIABLES board,
          usrseg, usrdseg,   \* the banks of the TPA's code and data
          nbank,             \* NBANK_I and NBANK_D: the banks a program runs in
          stage,             \* what the CCP is doing
          req,               \* the copy asked for
          work,              \* calls of mem_bcp still to be made or finished
          window,            \* the chunk seen at AWIN, or -1
          origin
mapping == <<usrseg, usrdseg, nbank, stage>>
bvars == <<board, mapping, req, work, window, origin>>

BANK == 4 * CHUNK
AWIN == 3 * CHUNK
HALF == 2 * CHUNK

\* Places: <<bank, address>>.  Plasmo has one TPA bank; bank 3, of the debugger, is as bank 1.
Banks == IF board = "plasmo" THEN {0, 1} ELSE {0, 1, 2}
Places == Banks \X (0..BANK - 1)
Run(bank, a, n) == {<<bank, a + i>> : i \in 0..n - 1}

NoCopy == [sb |-> 0, source |-> 0, db |-> 0, dest |-> 0, length |-> 0]
Here == [p \in Places |-> p]

BanksInit ==
  /\ board \in Boards
  /\ usrseg = 0 /\ usrdseg = 0 /\ nbank = <<0, 0>> /\ stage = "ccp"
  /\ req = NoCopy /\ work = <<>> /\ window = -1
  /\ origin = Here

-----------------------------------------------------------------------------
(* Copies.                                                                 *)

\* The bytes of the places src go to the places dst (ldirb; source and destination do not
\* overlap, see MemCopy).
Moved(o, src, dst) ==
  [p \in Places |-> LET I == {i \in DOMAIN dst : dst[i] = p} IN
                    IF I = {} THEN o[p] ELSE o[src[CHOOSE i \in I : TRUE]]]

\* Where the processor finds an OS address: from AWIN on in the window, when it is open.
Seen(w, a) == LET b == a % BANK IN
              IF w # -1 /\ b >= AWIN THEN <<w \div 4, (w % 4) * CHUNK + b - AWIN>> ELSE <<0, b>>

SeenRun(w, a, n) == [i \in 0..n - 1 |-> Seen(w, a + i)]

\* OS buffers: bounce is at the bottom.  On z8002-demo the OS ends below the window, on
\* Plasmo it does not.
OSEnd == IF board = "plasmo" THEN BANK ELSE AWIN
Buffer(bank, a, n) == a + n <= BANK /\ (bank = 0 => a >= BOUNCE /\ a + n <= OSEnd)

\* mem_cpy: a copy between buffers of the OS and of the TPA is asked for.
MemCopy(c) ==
  /\ req = NoCopy
  /\ Buffer(c.sb, c.source, c.length) /\ Buffer(c.db, c.dest, c.length)
  /\ Run(c.sb, c.source, c.length) \cap Run(c.db, c.dest, c.length) = {}
  /\ req' = c /\ work' = <<c>>
  /\ UNCHANGED <<board, mapping, window, origin>>

\* mem_cpy returns; with the next copy begins a new history.
MemCopyReturns ==
  /\ req # NoCopy /\ work = <<>>
  /\ req' = NoCopy /\ origin' = Here
  /\ UNCHANGED <<board, mapping, work, window>>

Least(S) == CHOOSE x \in S : \A y \in S : x <= y
Rest(c, n) == [c EXCEPT !.source = @ + n, !.dest = @ + n, !.length = @ - n]

\* z8002-demo, mem_bcp: one round of the loop of the call at the head of work.
FlatCopy(c) ==
  /\ c.sb = 0 /\ c.db = 0
  /\ origin' = Moved(origin, SeenRun(window, c.source, c.length), SeenRun(window, c.dest, c.length))
  /\ work' = Tail(work) /\ window' = window

Bounced(c) ==
  /\ c.sb # 0 /\ c.db # 0
  /\ IF c.length = 0 THEN work' = Tail(work)
     ELSE LET n == Least({c.length, BOUNCE}) IN
          work' = << [c EXCEPT !.db = 0, !.dest = 0, !.length = n],
                     [c EXCEPT !.sb = 0, !.source = 0, !.length = n], Rest(c, n) >> \o Tail(work)
  /\ UNCHANGED <<window, origin>>

\* As much as the chunk that map_wdw opens for the TPA's side of a copy holds.
ClipToChunk_Unclipped(a, length) == length
ClipToChunk(a, length) == Least({length, CHUNK - (a % CHUNK)})
Windowed(c) ==
  /\ (c.sb = 0) # (c.db = 0)
  /\ IF c.length = 0 THEN work' = Tail(work) /\ window' = -1 /\ origin' = origin
     ELSE LET out == c.db # 0
              a   == IF out THEN c.dest ELSE c.source
              n   == ClipToChunk(a, c.length)
              w   == 4 * (IF out THEN c.db ELSE c.sb) + a \div CHUNK
              tpa == SeenRun(w, AWIN + (a % CHUNK), n)
          IN /\ window' = w
             /\ origin' = IF out THEN Moved(origin, SeenRun(w, c.source, n), tpa)
                                  ELSE Moved(origin, tpa, SeenRun(w, c.dest, n))
             /\ work' = <<Rest(c, n)>> \o Tail(work)

\* Plasmo, win_rd and win_wr: the upper half of the OS's addresses is a half of the TPA.
InHalf(half, off) == IF off < HALF THEN <<1, half * HALF + off>> ELSE <<0, off - HALF>>

\* Plasmo, mem_bcp: one round, through wbounce, which is at the bottom of the OS.
ClipToHalf(bank, a, n) == IF bank = 0 THEN n ELSE Least({n, HALF - (a % HALF)})
ThroughBounce(c) ==
  /\ window' = window
  /\ IF c.length = 0 THEN work' = Tail(work) /\ origin' = origin
     ELSE LET n == ClipToHalf(c.db, c.dest, ClipToHalf(c.sb, c.source, Least({c.length, BOUNCE})))
              At(bank, a) == [i \in 0..n - 1 |-> IF bank = 0 THEN <<0, a + i>>
                                                 ELSE InHalf(a \div HALF, (a % HALF) + i)]
              wbounce == At(0, 0)
          IN /\ origin' = Moved(Moved(origin, At(c.sb, c.source), wbounce), wbounce, At(c.db, c.dest))
             /\ work' = <<Rest(c, n)>> \o Tail(work)

MemBcp ==
  /\ work # <<>>
  /\ LET c == Head(work) IN
     IF board = "plasmo" /\ ~ (c.sb = 0 /\ c.db = 0) THEN ThroughBounce(c)
     ELSE FlatCopy(c) \/ Bounced(c) \/ Windowed(c)
  /\ UNCHANGED <<board, mapping, req>>

-----------------------------------------------------------------------------
(* Mapping.                                                                *)

\* set_usr.
set_usr_CodeOnly(bank) == usrseg' = bank /\ usrdseg' = usrdseg
set_usr(bank) == usrseg' = bank /\ usrdseg' = bank

\* usr_data: the request for address 0 is the loader's, and moves the data to the next bank.
usr_data(adr) == usrdseg' = (IF adr = 0 THEN usrseg + 1 ELSE usrdseg) /\ usrseg' = usrseg

\* The loader (the BDOS's pgmld): the code bank, and for a program with separate data the
\* data bank after it.  Plasmo's memory cannot hold such a program.
LoadProgram(kind) ==
  /\ stage = "ccp" /\ set_usr(1)
  /\ stage' = IF kind = "split" THEN "base" ELSE "merged"
  /\ kind = "split" => board # "plasmo"
  /\ UNCHANGED nbank
LoadData ==
  /\ stage = "base" /\ usr_data(0)
  /\ stage' = "split" /\ UNCHANGED nbank

\* xfersc: into the program, in Normal mode.
Transfer ==
  /\ stage \in {"merged", "split"} /\ nbank = <<0, 0>>
  /\ nbank' = <<usrseg, usrdseg>>
  /\ UNCHANGED <<usrseg, usrdseg, stage>>

\* The floating-point emulator asks where an operand, which is not at address 0, is.
FpeOperand(adr) ==
  /\ nbank # <<0, 0>> /\ usr_data(adr)
  /\ UNCHANGED <<nbank, stage>>

\* Back to the CCP, in System mode.
WarmBoot ==
  /\ nbank # <<0, 0>> /\ nbank' = <<0, 0>> /\ stage' = "ccp"
  /\ UNCHANGED <<usrseg, usrdseg>>

MapAdr ==
  /\ req = NoCopy
  /\ \/ \E kind \in {"merged", "split"} : LoadProgram(kind)
     \/ LoadData
     \/ Transfer
     \/ FpeOperand(1)
     \/ WarmBoot
  /\ UNCHANGED <<board, req, work, window, origin>>

\* Copies are between the OS and the program, or within the program's memory.
BanksNext ==
  \/ \E sb, db \in {0, usrseg, usrdseg}, source, dest \in 0..BANK - 1, length \in Lengths :
       MemCopy([sb |-> sb, source |-> source, db |-> db, dest |-> dest, length |-> length])
  \/ MemBcp
  \/ MemCopyReturns
  \/ MapAdr

BanksSpec == BanksInit /\ [][BanksNext]_bvars

-----------------------------------------------------------------------------
(* Properties.                                                             *)

\* Types: banks that exist, one copy asked for, its pieces within memory.
BanksTypeOK ==
  /\ board \in Boards
  /\ {usrseg, usrdseg, nbank[1], nbank[2]} \subseteq Banks
  /\ stage \in {"ccp", "base", "merged", "split"}
  /\ \A i \in 1..Len(work) : work[i].source \in 0..BANK /\ work[i].dest \in 0..BANK /\ work[i].length < BANK
  /\ Len(work) <= 3 /\ window \in -1..(4 * 3 - 1)
  /\ origin \in [Places -> Places]

\* A finished copy has moved the bytes asked for, in their order, and has touched nothing
\* else but the bounce buffers, however the window cuts it; and the OS has its own memory
\* again (mem_bcp, win_rd, win_wr, unwdw).
CopyIsExact ==
  work = <<>> =>
    /\ window = -1
    /\ req # NoCopy =>
         \A p \in Places \ Run(0, 0, BOUNCE) :
           origin[p] = IF p \in Run(req.db, req.dest, req.length)
                       THEN <<req.sb, req.source + p[2] - req.dest>> ELSE p

\* The data of a running program are where the loader has put them and where the processor
\* looks for them, and that is the bank the BIOS adds to its addresses in system calls,
\* whatever ran before and whatever the floating-point emulator has asked (usr_data).
CallerDataIsTheProgramsData ==
  nbank # <<0, 0>> => /\ nbank = <<1, IF stage = "split" THEN 2 ELSE 1>>
                      /\ usrdseg = nbank[2]
=============================================================================
