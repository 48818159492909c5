----------------------------- MODULE SectorStore -----------------------------
(***************************************************************************)
(* What the disk half of the BIOS promises the BDOS when the hardware does *)
(* not fail: an array of sectors with write-back semantics.  A read sees   *)
(* the last write; a write may reach the media at any later time, in any   *)
(* order; a directory write, FLUSH and a warm boot put everything on the   *)
(* media; a power failure keeps, of what had not reached the media, any    *)
(* part.                                                                   *)
(***************************************************************************)
CONSTANTS
  Track, Sectors,    \* the tracks that exist, and their sectors
  Places, Numbers,   \* what the caller may address, existing or not
  Val, Blank

VARIABLES here, sec, \* what the caller addressed last
          logical,   \* what reads return
          media,     \* what a power failure leaves
          res        \* the last result: [op, ret, val]

svars == <<here, sec, logical, media, res>>

BlankStore == [t \in Track |-> [s \in Sectors |-> Blank]]

StoreInit ==
  /\ here \in Places /\ sec \in Numbers
  /\ logical = BlankStore
  /\ media = BlankStore
  /\ res = [op |-> "other", ret |-> 0, val |-> Blank]

SameAddress == UNCHANGED <<here, sec>>
NewAddress  == here' \in Places /\ sec' \in Numbers
Exists      == here \in Track /\ sec \in Sectors

Answer(op, v) == res' = [op |-> op, ret |-> 0, val |-> v]

\* Any sectors may be brought up to date on the media.
WriteBack(from) ==
  /\ media' \in [Track -> [Sectors -> Val]]
  /\ \A t \in Track : \A s \in Sectors : media'[t][s] \in {media[t][s], from[t][s]}
Settle == media' = logical'

ReadSector ==
  /\ Exists
  /\ Answer("READ", logical[here][sec])
  /\ logical' = logical
  /\ WriteBack(logical)
  /\ SameAddress

WriteSector(v) ==
  /\ Exists
  /\ Answer("WRITE", v)
  /\ logical' = [logical EXCEPT ![here][sec] = v]
  /\ WriteBack(logical)
  /\ SameAddress

WriteDirectory(v) ==
  /\ Exists
  /\ Answer("DIRWRITE", v)
  /\ logical' = [logical EXCEPT ![here][sec] = v]
  /\ Settle
  /\ SameAddress

Synchronise(op) ==
  /\ Answer(op, Blank)
  /\ logical' = logical
  /\ Settle
  /\ SameAddress

\* INIT forgets what has not been written; a power failure may hit a write-back.
Forget ==
  /\ Answer("other", Blank)
  /\ media' = media
  /\ logical' = media
  /\ SameAddress

PowerFailure ==
  /\ Answer("POWER", Blank)
  /\ WriteBack(logical)
  /\ logical' = media'
  /\ NewAddress

Address ==
  /\ Answer("other", Blank)
  /\ UNCHANGED <<logical, media>>
  /\ NewAddress

StoreNext ==
  \/ ReadSector
  \/ \E v \in Val : WriteSector(v) \/ WriteDirectory(v)
  \/ \E op \in {"FLUSH", "WBOOT"} : Synchronise(op)
  \/ Forget
  \/ PowerFailure
  \/ Address

StoreSpec == StoreInit /\ [][StoreNext]_svars
=============================================================================
