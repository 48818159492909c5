---------------------------- MODULE HostedProofs ----------------------------
(***************************************************************************)
(* Proofs about what the emulator does on the host: BdosRouter, for any    *)
(* number of drives, any backends and any names; and HostMachine, for any  *)
(* drives, any geometry of the images and any contents.                    *)
(***************************************************************************)
EXTENDS BdosRouter, HostMachine, WellFoundedInduction, TLAPS

(***************************************************************************)
(* The inductive invariant.  What the search still owes is what readdir    *)
(* still has, and what it has answered readdir has no more.                *)
(***************************************************************************)
SearchAccounts ==
  /\ owed \subseteq m_search.firm
  /\ given \cap (m_search.firm \cup m_search.may) = {}

RouterInv ==
  /\ RouterTypeOK
  /\ CurrentDriveAgrees
  /\ SearchAccounts

-----------------------------------------------------------------------------
(* Operators.                                                              *)

\* A name that CP/M asks for is one the code answers: the code's patterns match more.
LEMMA MatchesMore ==
  ASSUME NEW pattern, NEW name, Ambiguous(pattern, name)
  PROVE  match_pattern(pattern, name)
BY DEF Ambiguous, match_pattern

\* Every drive code names a drive of the table, for the router.
LEMMA DecodedDrive ==
  ASSUME m_current_drive \in Drives, NEW code \in Codes \cup {QMark}
  PROVE  fcb_drive(code) \in Drives
BY DrivesAssumption DEF Drives, Codes, QMark, fcb_drive

LEMMA AnyNameIsAPattern == AnyName \in Patterns
<1> DEFINE A == {n[1] : n \in Names} \cup {"?"}
           B == {n[2] : n \in Names} \cup {"?", " "}
<1>1. "?" \in A /\ "?" \in B
  OBVIOUS
<1>2. Patterns = {<<b, e>> : b \in A, e \in B}
  BY DEF Patterns
<1> HIDE DEF A, B
<1>3. <<"?", "?">> \in {<<b, e>> : b \in A, e \in B}
  BY <1>1
<1> QED BY <1>2, <1>3 DEF AnyName

\* The state of a search, without the rest of the state.
SearchState == [active : BOOLEAN, drive : Drives, pattern : Patterns,
                firm : SUBSET Names, may : SUBSET Names]

\* One call of file_search_next, on a search whose accounts are right.
LEMMA NextKeepsAccounts ==
  ASSUME NEW fn, NEW s \in SearchState, NEW due \in SUBSET Names, NEW had \in SUBSET Names,
         due \subseteq s.firm, had \cap (s.firm \cup s.may) = {},
         file_search_next(fn, s, due, had)
  PROVE  /\ m_search' \in SearchState
         /\ owed' \in SUBSET Names /\ given' \in SUBSET Names
         /\ SearchAccounts'
         /\ call'.fn = fn /\ call'.on = "host"
         /\ call'.answer = {} => owed' = {}
         /\ call'.answer \cap had = {}
<1>1. CASE \E e \in s.firm \cup s.may :
             /\ m_search' = Met(s, e)
             /\ owed' = due \ {e}
             /\ given' = had \cup {e}
             /\ call' = Served(fn, "host", s.drive, {e})
  <2>1. PICK e \in s.firm \cup s.may :
             /\ m_search' = Met(s, e)
             /\ owed' = due \ {e}
             /\ given' = had \cup {e}
             /\ call' = Served(fn, "host", s.drive, {e})
    BY <1>1
  <2>2. /\ m_search' \in SearchState
        /\ m_search'.firm = s.firm \ {e} /\ m_search'.may = s.may \ {e}
    BY <2>1 DEF Met, SearchState
  <2>3. e \in Names /\ e \notin had
    BY DEF SearchState
  <2>4. call'.fn = fn /\ call'.on = "host" /\ call'.answer = {e}
    BY <2>1 DEF Served
  <2> QED BY <2>1, <2>2, <2>3, <2>4 DEF SearchAccounts
<1>2. CASE /\ s.firm = {}
           /\ m_search' = close_search(s)
           /\ owed' = due
           /\ given' = {}
           /\ call' = Served(fn, "host", s.drive, {})
  <2>1. /\ m_search' \in SearchState
        /\ m_search'.firm = {} /\ m_search'.may = {}
    BY <1>2 DEF close_search, SearchState
  <2>2. call'.fn = fn /\ call'.on = "host" /\ call'.answer = {}
    BY <1>2 DEF Served
  <2> QED BY <1>2, <2>1, <2>2 DEF SearchAccounts
<1> QED BY <1>1, <1>2 DEF file_search_next

-----------------------------------------------------------------------------
(* The initial states.                                                     *)

Less == {r \in Nat \X Nat : r[1] < r[2]}

\* Some drives have a smallest letter.
LEMMA LeastDrive ==
  ASSUME NEW S \in SUBSET Drives, S # {}
  PROVE  \E d \in S : \A e \in S : d <= e
<1>1. IsWellFoundedOn(Less, Nat)
  BY NatLessThanWellFounded DEF OpToRel, Less
<1>2. S \in SUBSET Nat
  BY DrivesAssumption DEF Drives
<1>3. PICK d \in S : \A e \in S : ~ (<<e, d>> \in Less)
  BY <1>1, <1>2, WFMin
<1>4. ASSUME NEW e \in S PROVE d <= e
  <2>1. ~ (e < d)
    BY <1>2, <1>3 DEF Less
  <2> QED BY <1>2, <2>1
<1> QED BY <1>4

\* The default drive is the smallest configured letter.
LEMMA DefaultIsConfigured ==
  RouterInit => m_default_drive \in Drives /\ drive_present(m_default_drive)
<1> SUFFICES ASSUME RouterInit
             PROVE  m_default_drive \in Drives /\ drive_present(m_default_drive)
  OBVIOUS
<1>1. drive_login_vector \subseteq Drives /\ drive_login_vector # {}
  BY DrivesAssumption DEF drive_login_vector
<1>2. \E d \in drive_login_vector : \A e \in drive_login_vector : d <= e
  BY <1>1, LeastDrive
<1>3. m_default_drive \in drive_login_vector
  BY <1>2 DEF RouterInit
<1> QED BY <1>3 DEF drive_login_vector

LEMMA RouterInitial == RouterInit => RouterInv
<1> SUFFICES ASSUME RouterInit PROVE RouterInv
  OBVIOUS
<1>1. m_default_drive \in Drives /\ drive_present(m_default_drive) /\ 0 \in Drives
  BY DefaultIsConfigured, DrivesAssumption DEF Drives
<1>2. m_search \in SearchState
  BY <1>1, AnyNameIsAPattern DEF RouterInit, SearchState
<1>3. RouterTypeOK
  BY <1>1, <1>2 DEF RouterInit, RouterTypeOK, SearchState
<1>4. SearchAccounts
  BY DEF RouterInit, SearchAccounts
<1>5. CurrentDriveAgrees
  BY DEF RouterInit, CurrentDriveAgrees, StartedApart
<1> QED BY <1>3, <1>4, <1>5 DEF RouterInv

-----------------------------------------------------------------------------
(* Steps.                                                                  *)

\* What a step may do to the search, whatever call it is.
SearchStep ==
  /\ m_search' \in SearchState
  /\ owed' \in SUBSET Names /\ given' \in SUBSET Names
  /\ SearchAccounts'
  /\ (HostSearchCall' /\ call'.answer = {}) => owed' = {}
  /\ (call'.fn = "F_SNEXT" /\ HostSearchCall') => call'.answer \cap given = {}

\* A call that is no search and leaves the search alone.
LEMMA NoSearch ==
  ASSUME RouterInv, UNCHANGED <<m_search, requests>>,
         call'.fn \notin {"F_SFIRST", "F_SNEXT"}
  PROVE  SearchStep
BY DEF RouterInv, RouterTypeOK, SearchStep, SearchState, SearchAccounts, HostSearchCall, requests

LEMMA SFirstSearches ==
  ASSUME RouterInv, NEW code \in Codes \cup {QMark}, NEW pattern \in Patterns, SFirst(code, pattern)
  PROVE  SearchStep /\ m_last_search_host' \in BOOLEAN
<1> DEFINE pat   == IF code = QMark THEN AnyName ELSE pattern
           drive == IF code = QMark THEN m_current_drive ELSE resolve_drive(code)
           s     == [active |-> TRUE, drive |-> drive, pattern |-> pat,
                     firm |-> {n \in files[drive] : match_pattern(pat, n)}, may |-> {}]
           due   == {n \in files[drive] : Ambiguous(pat, n)}
<1>1. CASE drive_is_host(fcb_drive(code))
  <2>1. drive = fcb_drive(code) /\ drive \in HostDrives /\ drive \in Drives
    BY <1>1, DecodedDrive DEF RouterInv, RouterTypeOK, fcb_drive, resolve_drive, HostDrives, QMark
  <2>2. files[drive] \subseteq Names
    BY <2>1 DEF RouterInv, RouterTypeOK
  <2>3. pat \in Patterns
    BY AnyNameIsAPattern
  <2>4. s \in SearchState /\ s.firm = {n \in files[drive] : match_pattern(pat, n)} /\ s.may = {}
    <3> HIDE DEF pat, drive
    <3> QED BY <2>1, <2>2, <2>3 DEF SearchState
  <2>5. due \subseteq s.firm /\ due \in SUBSET Names
    <3> HIDE DEF pat, drive
    <3> QED BY <2>2, <2>4, MatchesMore
  <2>6. m_last_search_host' = TRUE /\ file_search_next("F_SFIRST", s, due, {})
    BY <1>1 DEF SFirst
  <2> HIDE DEF s, due
  <2> QED BY <2>4, <2>5, <2>6, NextKeepsAccounts DEF SearchStep, HostSearchCall
<1>2. CASE ~ drive_is_host(fcb_drive(code))
  <2>1. /\ owed' = {} /\ given' = {}
        /\ call'.on = "native"
        /\ UNCHANGED <<m_last_search_host, m_search>>
    BY <1>2 DEF SFirst, Served
  <2> QED BY <2>1 DEF RouterInv, RouterTypeOK, SearchStep, SearchState, SearchAccounts, HostSearchCall
<1> QED BY <1>1, <1>2

LEMMA SNextSearches ==
  ASSUME RouterInv, SNext
  PROVE  SearchStep
<1>1. CASE m_last_search_host
  <2>1. file_search_next("F_SNEXT", m_search, owed, given)
    BY <1>1 DEF SNext
  <2> QED BY <2>1, NextKeepsAccounts
          DEF RouterInv, RouterTypeOK, SearchAccounts, SearchState, SearchStep, HostSearchCall
<1>2. CASE ~ m_last_search_host
  <2>1. call'.on = "native" /\ UNCHANGED <<m_search, owed, given>>
    BY <1>2 DEF SNext, Served
  <2> QED BY <2>1 DEF RouterInv, RouterTypeOK, SearchStep, SearchState, SearchAccounts, HostSearchCall
<1> QED BY <1>1, <1>2

\* A name that comes or goes leaves what readdir surely has, and what is owed.
LEMMA DisturbSearches ==
  ASSUME RouterInv, NEW d, NEW name \in Names, Disturb(d, name),
         call'.fn \notin {"F_SFIRST", "F_SNEXT"}
  PROVE  SearchStep
<1>1. CASE UNCHANGED <<m_search, owed, given>>
  BY <1>1, NoSearch DEF requests
<1>2. CASE /\ m_search' = [m_search EXCEPT !.firm = @ \ {name}, !.may = @ \cup {name}]
           /\ owed' = owed \ {name}
           /\ given' = given \ {name}
  <2>1. m_search \in SearchState
    BY DEF RouterInv, RouterTypeOK, SearchState
  <2>2. /\ m_search' \in SearchState
        /\ m_search'.firm = m_search.firm \ {name}
        /\ m_search'.may = m_search.may \cup {name}
    BY <1>2, <2>1 DEF SearchState
  <2> QED BY <1>2, <2>2 DEF RouterInv, RouterTypeOK, SearchStep, SearchAccounts, HostSearchCall
<1> QED BY <1>1, <1>2 DEF Disturb

LEMMA FileCallSearches ==
  ASSUME RouterInv, NEW fn \in {"F_OPEN", "F_MAKE", "F_DELETE"}, NEW code \in Codes,
         NEW name \in Names, NEW made \in SUBSET {name}, NEW deleted,
         FileCall(fn, code, name, made, deleted)
  PROVE  /\ SearchStep
         /\ files' \in [HostDrives -> SUBSET Names]
         /\ UNCHANGED <<selection, m_last_search_host>>
<1> DEFINE d == resolve_drive(code)
<1>1. UNCHANGED <<selection, m_last_search_host>>
  BY DEF FileCall
<1>2. CASE drive_is_host(fcb_drive(code))
  <2>1. /\ call' = Served(fn, "host", d, (files[d] \cup made) \cap {name})
        /\ files' = [files EXCEPT ![d] = (@ \cup made) \ deleted]
        /\ Disturb(d, name)
    BY <1>2 DEF FileCall
  <2>2. call'.fn \notin {"F_SFIRST", "F_SNEXT"}
    BY <2>1 DEF Served
  <2>3. files' \in [HostDrives -> SUBSET Names]
    BY <2>1 DEF RouterInv, RouterTypeOK
  <2> QED BY <1>1, <2>1, <2>2, <2>3, DisturbSearches
<1>3. CASE ~ drive_is_host(fcb_drive(code))
  <2>1. /\ call'.fn = fn
        /\ UNCHANGED <<files, m_search, owed, given>>
    BY <1>3 DEF FileCall, Served
  <2> QED BY <1>1, <2>1, NoSearch DEF RouterInv, RouterTypeOK, requests
<1> QED BY <1>2, <1>3

-----------------------------------------------------------------------------
(* The invariant and the theorems.                                         *)

LEMMA RouterStep ==
  ASSUME RouterInv, RouterNext
  PROVE  RouterInv' /\ SearchStep
<1> USE DEF RouterInv
<1>1. CASE reset_all_drives
  <2>1. SearchStep
    BY <1>1, NoSearch DEF reset_all_drives, Served
  <2>2. RouterTypeOK'
    BY <1>1, <2>1, DrivesAssumption
       DEF reset_all_drives, RouterTypeOK, SearchStep, SearchState, Drives, drive_present
  <2>3. CurrentDriveAgrees'
    BY <1>1 DEF reset_all_drives, CurrentDriveAgrees, StartedApart
  <2> QED BY <2>1, <2>2, <2>3 DEF SearchStep
<1>2. CASE \E d \in Drives : DrvSet(d)
  <2>1. PICK d \in Drives : DrvSet(d)
    BY <1>2
  <2>2. SearchStep
    BY <2>1, NoSearch DEF DrvSet, Served
  <2>3. RouterTypeOK'
    BY <2>1, <2>2 DEF DrvSet, RouterTypeOK, SearchStep, SearchState
  <2>4. CurrentDriveAgrees'
    BY <2>1 DEF DrvSet, CurrentDriveAgrees, drive_is_host, drive_present
  <2> QED BY <2>2, <2>3, <2>4 DEF SearchStep
<1>3. CASE DrvGet
  <2>1. SearchStep
    BY <1>3, NoSearch DEF DrvGet, Served
  <2>2. RouterTypeOK' /\ CurrentDriveAgrees'
    BY <1>3, <2>1 DEF DrvGet, RouterTypeOK, CurrentDriveAgrees, StartedApart, SearchStep, SearchState, selection
  <2> QED BY <2>1, <2>2 DEF SearchStep
<1>4. CASE DrvParameters
  <2>1. SearchStep
    BY <1>4, NoSearch DEF DrvParameters, Served
  <2>2. RouterTypeOK' /\ CurrentDriveAgrees'
    BY <1>4, <2>1 DEF DrvParameters, RouterTypeOK, CurrentDriveAgrees, StartedApart, SearchStep, SearchState, selection
  <2> QED BY <2>1, <2>2 DEF SearchStep
<1>5. CASE \E code \in Codes \cup {QMark}, pattern \in Patterns : SFirst(code, pattern)
  <2>1. PICK code \in Codes \cup {QMark}, pattern \in Patterns : SFirst(code, pattern)
    BY <1>5
  <2>2. SearchStep /\ m_last_search_host' \in BOOLEAN
    BY <2>1, SFirstSearches
  <2>3. UNCHANGED <<selection, files>>
    BY <2>1 DEF SFirst
  <2>4. RouterTypeOK' /\ CurrentDriveAgrees'
    BY <2>2, <2>3 DEF RouterTypeOK, CurrentDriveAgrees, StartedApart, SearchStep, SearchState, selection
  <2> QED BY <2>2, <2>4 DEF SearchStep
<1>6. CASE SNext
  <2>1. SearchStep
    BY <1>6, SNextSearches
  <2>2. UNCHANGED <<selection, m_last_search_host, files>>
    BY <1>6 DEF SNext
  <2>3. RouterTypeOK' /\ CurrentDriveAgrees'
    BY <2>1, <2>2 DEF RouterTypeOK, CurrentDriveAgrees, StartedApart, SearchStep, SearchState, selection
  <2> QED BY <2>1, <2>3 DEF SearchStep
<1>7. CASE \E code \in Codes, name \in Names :
             FileOpen(code, name) \/ FileMake(code, name) \/ FileDelete(code, name)
  <2>1. PICK code \in Codes, name \in Names :
             FileOpen(code, name) \/ FileMake(code, name) \/ FileDelete(code, name)
    BY <1>7
  <2>2. /\ SearchStep
        /\ files' \in [HostDrives -> SUBSET Names]
        /\ UNCHANGED <<selection, m_last_search_host>>
    <3>1. CASE FileOpen(code, name)
      BY <3>1, FileCallSearches DEF FileOpen
    <3>2. CASE FileMake(code, name)
      BY <3>2, FileCallSearches DEF FileMake
    <3>3. CASE FileDelete(code, name)
      BY <3>3, FileCallSearches DEF FileDelete
    <3> QED BY <2>1, <3>1, <3>2, <3>3
  <2>3. RouterTypeOK' /\ CurrentDriveAgrees'
    BY <2>2 DEF RouterTypeOK, CurrentDriveAgrees, StartedApart, SearchStep, SearchState, selection
  <2> QED BY <2>2, <2>3 DEF SearchStep
<1> QED BY <1>1, <1>2, <1>3, <1>4, <1>5, <1>6, <1>7 DEF RouterNext

LEMMA RouterStutter ==
  ASSUME RouterInv, UNCHANGED rvars
  PROVE  RouterInv'
BY DEF RouterInv, RouterTypeOK, CurrentDriveAgrees, StartedApart, SearchAccounts, rvars, selection, requests

LEMMA RouterInvariance == RouterSpec => []RouterInv
<1>1. RouterInv /\ [RouterNext]_rvars => RouterInv'
  BY RouterStep, RouterStutter
<1> QED BY RouterInitial, <1>1, PTL DEF RouterSpec

\* The router's state keeps its type: the default drive is a configured one, and the
\* search is one of names of the directories (route, set_default_drive).
THEOREM RouterTypes == RouterSpec => []RouterTypeOK
<1>1. RouterInv => RouterTypeOK
  BY DEF RouterInv
<1> QED BY RouterInvariance, <1>1, PTL

\* For every drive table and every selection, of unconfigured drives too: when the current
\* drive is an image, the native BDOS that serves it is on it, unless there is no drive A
\* and both are where they started (route, cases 13 and 14).
THEOREM DrivesAgree == RouterSpec => []CurrentDriveAgrees
<1>1. RouterInv => CurrentDriveAgrees
  BY DEF RouterInv
<1> QED BY RouterInvariance, <1>1, PTL

\* "No more" is answered only when every file asked for that was there all the time has
\* been answered (file_search_next).
THEOREM CompleteSearches == RouterSpec => SearchIsComplete
<1>1. RouterInv /\ [RouterNext]_rvars
      => [HostSearchCall' /\ call'.answer = {} => owed' = {}]_rvars
  BY RouterStep DEF SearchStep
<1> QED BY RouterInvariance, <1>1, PTL DEF RouterSpec, SearchIsComplete

\* No file that was there all the time is answered twice (file_search_next).
THEOREM NoRepeats == RouterSpec => SearchDoesNotRepeat
<1>1. RouterInv /\ [RouterNext]_rvars
      => [call'.fn = "F_SNEXT" /\ HostSearchCall' => call'.answer \cap given = {}]_rvars
  BY RouterStep DEF SearchStep
<1> QED BY RouterInvariance, <1>1, PTL DEF RouterSpec, SearchDoesNotRepeat

-----------------------------------------------------------------------------
(***************************************************************************)
(* HostMachine.                                                            *)
(***************************************************************************)
(***************************************************************************)
(* The inductive invariant.  A program that runs on the Z8001 has the map  *)
(* of its kind, and the flag that outlives it agrees; a chain that was     *)
(* announced is over when the next call comes.  On the BIOS's side the     *)
(* callers' drive is the selected one, refusals included, and what a FILE  *)
(* has in its buffer, one sector at most, makes the image what the callers *)
(* have written.                                                           *)
(***************************************************************************)
MapsAgree ==
  target = "z8001" =>
    /\ ~ m_chain_pending
    /\ running # "ccp" => umap = MapOf(running) /\ g_last_prog_split = (running = "split")

\* The sector of an address, as offset has it for the BIOS's registers.
SectorOf(a) == a[1] * SPT + a[2]

Image  == [Sectors -> Values]
Buffer == {Nothing} \cup {[s \in {o} |-> v] : o \in Sectors, v \in Values}

\* An image with a buffer laid over it (Written, of one drive).
Over(image, buffer) == [s \in Sectors |-> IF s \in DOMAIN buffer THEN buffer[s] ELSE image[s]]

ImagesTypeOK ==
  /\ disk \in [ImageDrives -> Image]
  /\ pend \in [ImageDrives -> Buffer]
  /\ promise \in [ImageDrives -> [Addresses -> Values]]

BuffersKeepPromises ==
  \A d \in ImageDrives : \A a \in Addresses : promise[d][a] = Written(d)[SectorOf(a)]

\* The last answer is true of the images, also while programs come and go.
AnswersHold ==
  /\ res.fn = "READ" /\ res.code = 0 => res.value = promise[granted][<<s_track, s_sector>>]
  /\ \A d \in ImageDrives :
       \/ res.fn = "FLUSH" /\ d = granted
       \/ res.fn = "WBOOT" /\ target = "z8002"
       \/ res.fn = "exit"
       => Differs(d) = {}

BootInv == MapsAgree /\ ChainedCommandIsSeen

ImagesInv ==
  /\ granted = s_drive
  /\ ImagesTypeOK
  /\ BuffersKeepPromises

MachineInv == MachineTypeOK /\ BootInv /\ ImagesInv /\ AnswersHold

-----------------------------------------------------------------------------
(* Addresses and buffers.                                                  *)

\* An address has a sector of its own, within the image.
LEMMA SectorInImage ==
  ASSUME NEW a \in Addresses
  PROVE  SectorOf(a) \in Sectors
<1> DEFINE t == a[1]  s == a[2]
<1>1. t \in 0..(Tracks - 1) /\ s \in 0..(SPT - 1) /\ SPT \in Nat /\ Tracks \in Nat
  BY MachineAssumption DEF Addresses
<1> HIDE DEF t, s
<1>2. t * SPT <= (Tracks - 1) * SPT /\ t * SPT \in Nat
  BY <1>1
<1>3. (Tracks - 1) * SPT = SPT * Tracks - SPT
  BY <1>1
<1> QED BY <1>1, <1>2, <1>3 DEF Sectors, SectorOf, t, s

LEMMA SectorsApart ==
  ASSUME NEW a \in Addresses, NEW b \in Addresses, SectorOf(a) = SectorOf(b)
  PROVE  a = b
<1>1. /\ a[1] \in 0..(Tracks - 1) /\ a[2] \in 0..(SPT - 1) /\ a = <<a[1], a[2]>>
      /\ b[1] \in 0..(Tracks - 1) /\ b[2] \in 0..(SPT - 1) /\ b = <<b[1], b[2]>>
      /\ SPT \in Nat /\ Tracks \in Nat
  BY MachineAssumption DEF Addresses
<1>2. ASSUME NEW t \in Nat, NEW u \in Nat, NEW r \in 0..(SPT - 1), NEW s \in 0..(SPT - 1), t < u
      PROVE  t * SPT + r < u * SPT + s
  <2>1. (t + 1) * SPT <= u * SPT /\ t * SPT \in Nat /\ u * SPT \in Nat
    BY <1>1, <1>2
  <2>2. (t + 1) * SPT = t * SPT + SPT
    BY <1>1
  <2> QED BY <1>1, <2>1, <2>2
<1>3. ~ (a[1] < b[1]) /\ ~ (b[1] < a[1])
  BY <1>1, <1>2 DEF SectorOf
<1>4. a[1] = b[1]
  BY <1>1, <1>3
<1>5. a[1] * SPT \in Nat
  BY <1>1
<1> QED BY <1>1, <1>4, <1>5 DEF SectorOf

LEMMA OffsetIsSectorOf ==
  ASSUME MachineTypeOK
  PROVE  /\ <<s_track, s_sector>> \in Addresses
         /\ offset = SectorOf(<<s_track, s_sector>>)
BY DEF MachineTypeOK, Addresses, offset, SectorOf

\* A buffer holds a value of one sector at most.
LEMMA BufferTypes ==
  ASSUME NEW buffer \in Buffer, NEW s \in DOMAIN buffer
  PROVE  s \in Sectors /\ buffer[s] \in Values /\ DOMAIN buffer = {s}
<1>1. DOMAIN Nothing = {}
  BY DEF Nothing
<1>2. buffer # Nothing
  BY <1>1
<1>3. PICK o \in Sectors, v \in Values : buffer = [r \in {o} |-> v]
  BY <1>2 DEF Buffer
<1> QED BY <1>3

\* Laying a buffer over an image gives an image, and with it nothing is laid over.
LEMMA OverIsImage ==
  ASSUME NEW image \in Image, NEW buffer \in Buffer
  PROVE  Over(image, buffer) \in Image /\ Over(image, Nothing) = image
<1>1. \A s \in Sectors : image[s] \in Values /\ image = [r \in Sectors |-> image[r]]
  BY DEF Image
<1>2. \A s \in DOMAIN buffer : buffer[s] \in Values
  BY BufferTypes
<1>3. Over(image, buffer) \in Image
  BY <1>1, <1>2 DEF Over, Image
<1>4. DOMAIN Nothing = {}
  BY DEF Nothing
<1>5. Over(image, Nothing) = [s \in Sectors |-> image[s]]
  BY <1>4 DEF Over
<1>6. image = [s \in Sectors |-> image[s]]
  BY DEF Image
<1> QED BY <1>3, <1>5, <1>6

LEMMA WrittenIsOver ==
  ASSUME NEW d \in ImageDrives
  PROVE  Written(d) = Over(disk[d], pend[d])
BY DEF Written, Over

LEMMA WrittenIsImage ==
  ASSUME ImagesTypeOK, NEW d \in ImageDrives
  PROVE  Written(d) \in Image
<1>1. disk[d] \in Image /\ pend[d] \in Buffer
  BY DEF ImagesTypeOK
<1> QED BY <1>1, OverIsImage, WrittenIsOver

-----------------------------------------------------------------------------
(* The initial states.                                                     *)

LEMMA MachineInitial == MachineInit => MachineInv
<1> SUFFICES ASSUME MachineInit PROVE MachineInv
  OBVIOUS
<1>1. PICK v \in Values : disk = [d \in ImageDrives |-> [s \in Sectors |-> v]]
  BY DEF MachineInit
<1>2. \A d \in ImageDrives : disk[d] \in Image /\ \A s \in Sectors : disk[d][s] = v
  BY <1>1 DEF Image
<1>4. 0 \in Sectors
  <2>1. SPT * Tracks \in Nat /\ SPT * Tracks >= 1
    BY MachineAssumption
  <2> QED BY <2>1 DEF Sectors
<1>5. /\ pend = [d \in ImageDrives |-> Nothing]
      /\ promise = [d \in ImageDrives |-> [a \in Addresses |-> v]]
  BY <1>2, <1>4 DEF MachineInit
<1>6. ImagesTypeOK
  BY <1>1, <1>2, <1>5 DEF ImagesTypeOK, Buffer
<1>7. BuffersKeepPromises
  <2> SUFFICES ASSUME NEW d \in ImageDrives, NEW a \in Addresses
               PROVE  promise[d][a] = Written(d)[SectorOf(a)]
    BY DEF BuffersKeepPromises
  <2>1. Written(d) = disk[d]
    BY <1>2, <1>5, OverIsImage, WrittenIsOver DEF Buffer
  <2> QED BY <1>2, <1>5, <2>1, SectorInImage
<1>8. MachineTypeOK
  <2>1. \A d \in ImageDrives : DOMAIN pend[d] = {}
    BY <1>5 DEF Nothing
  <2>2. s_track \in 0..(Tracks - 1) /\ s_sector \in 0..(SPT - 1)
    BY MachineAssumption DEF MachineInit
  <2> QED BY <1>6, <2>1, <2>2 DEF MachineInit, MachineTypeOK, ImagesTypeOK, Image
<1> QED BY <1>6, <1>7, <1>8
        DEF MachineInit, MachineInv, ImagesInv, BootInv, MapsAgree, ChainedCommandIsSeen,
            AnswersHold, Ans

-----------------------------------------------------------------------------
(* Steps of the images.                                                    *)

\* What a step may do to the images: they keep their types and the promises.
ImagesStep == ImagesTypeOK' /\ BuffersKeepPromises'

LEMMA ImagesAlone ==
  ASSUME ImagesInv, UNCHANGED <<disk, pend, promise>>
  PROVE  ImagesStep
<1>1. disk' = disk /\ pend' = pend /\ promise' = promise
  OBVIOUS
<1>2. \A d \in ImageDrives : Written(d)' = Written(d)
  BY <1>1 DEF Written
<1>3. ImagesTypeOK'
  BY <1>1 DEF ImagesInv, ImagesTypeOK
<1> QED BY <1>1, <1>2, <1>3 DEF ImagesInv, ImagesStep, BuffersKeepPromises

\* Writing buffers out changes where the bytes are and not what they are.
LEMMA FlushedKeepsWritten ==
  ASSUME ImagesTypeOK, NEW ds, Flushed(ds)
  PROVE  /\ disk' \in [ImageDrives -> Image] /\ pend' \in [ImageDrives -> Buffer]
         /\ \A d \in ImageDrives : Written(d)' = Written(d)
         /\ \A d \in ImageDrives \cap ds : disk'[d] = Written(d)
<1>1. \A d \in ImageDrives : Written(d) \in Image
  BY WrittenIsImage
<1>2. disk' \in [ImageDrives -> Image] /\ pend' \in [ImageDrives -> Buffer]
  <2>1. Nothing \in Buffer
    BY DEF Buffer
  <2>2. /\ \A d \in ImageDrives : (IF d \in ds THEN Written(d) ELSE disk[d]) \in Image
        /\ \A d \in ImageDrives : (IF d \in ds THEN Nothing ELSE pend[d]) \in Buffer
    BY <1>1, <2>1 DEF ImagesTypeOK
  <2> QED BY <2>2 DEF Flushed
<1>3. \A d \in ImageDrives \cap ds : disk'[d] = Written(d) /\ pend'[d] = Nothing
  BY DEF Flushed
<1>4. ASSUME NEW d \in ImageDrives PROVE Written(d)' = Written(d)
  <2>1. Written(d)' = Over(disk'[d], pend'[d])
    BY DEF Written, Over
  <2>2. CASE d \in ds
    BY <1>1, <1>3, <2>1, <2>2, OverIsImage DEF Buffer
  <2>3. CASE d \notin ds
    <3>1. disk'[d] = disk[d] /\ pend'[d] = pend[d]
      BY <2>3 DEF Flushed
    <3> QED BY <2>1, <3>1, WrittenIsOver
  <2> QED BY <2>2, <2>3
<1> QED BY <1>2, <1>3, <1>4

LEMMA FlushedImages ==
  ASSUME ImagesInv, NEW ds, Flushed(ds), UNCHANGED promise
  PROVE  /\ ImagesStep
         /\ \A d \in ImageDrives \cap ds : Differs(d)' = {}
<1>1. /\ disk' \in [ImageDrives -> Image] /\ pend' \in [ImageDrives -> Buffer]
      /\ \A d \in ImageDrives : Written(d)' = Written(d)
      /\ \A d \in ImageDrives \cap ds : disk'[d] = Written(d)
  BY FlushedKeepsWritten DEF ImagesInv
<1>2. ImagesStep
  BY <1>1 DEF ImagesStep, ImagesInv, ImagesTypeOK, BuffersKeepPromises
<1>3. ASSUME NEW d \in ImageDrives \cap ds, NEW a \in Addresses
      PROVE  disk'[d][SectorOf(a)] = promise'[d][a]
  BY <1>1, <1>3 DEF ImagesInv, BuffersKeepPromises
<1> QED BY <1>2, <1>3 DEF Differs, SectorOf

LEMMA ReadImages ==
  ASSUME MachineTypeOK, ImagesInv, Read
  PROVE  /\ ImagesStep
         /\ res'.fn = "READ" /\ res'.code = 0 => res'.value = promise'[granted][<<s_track, s_sector>>]
<1>1. CASE s_drive \in ImageDrives
  <2>1. Flushed({s_drive}) /\ UNCHANGED promise /\ res' = Ans("READ", 0, Written(s_drive)[offset])
    BY <1>1 DEF Read
  <2>2. promise[s_drive][<<s_track, s_sector>>] = Written(s_drive)[offset]
    BY <1>1, OffsetIsSectorOf DEF ImagesInv, BuffersKeepPromises
  <2> QED BY <2>1, <2>2, FlushedImages DEF ImagesInv, Ans
<1>2. CASE s_drive \notin ImageDrives
  BY <1>2, ImagesAlone DEF Read, Ans
<1> QED BY <1>1, <1>2

LEMMA WriteImages ==
  ASSUME MachineTypeOK, ImagesInv, NEW v \in Values, Write(v)
  PROVE  ImagesStep
<1> DEFINE here == <<s_track, s_sector>>
<1>1. CASE s_drive \notin ImageDrives
  BY <1>1, ImagesAlone DEF Write
<1>2. CASE s_drive \in ImageDrives
  <2>1. /\ disk' = [disk EXCEPT ![s_drive] = Written(s_drive)]
        /\ pend' = [pend EXCEPT ![s_drive] = [s \in {offset} |-> v]]
        /\ promise' = [promise EXCEPT ![s_drive][here] = v]
    BY <1>2 DEF Write, ImagesInv
  <2>2. here \in Addresses /\ offset = SectorOf(here) /\ offset \in Sectors
    BY OffsetIsSectorOf, SectorInImage
  <2>3. Written(s_drive) \in Image
    BY <1>2, WrittenIsImage DEF ImagesInv
  <2>4. ImagesTypeOK'
    <3>1. disk' \in [ImageDrives -> Image]
      BY <2>1, <2>3 DEF ImagesInv, ImagesTypeOK
    <3>2. [s \in {offset} |-> v] \in Buffer
      BY <2>2 DEF Buffer
    <3>3. pend' \in [ImageDrives -> Buffer]
      BY <2>1, <3>2 DEF ImagesInv, ImagesTypeOK
    <3>4. promise' \in [ImageDrives -> [Addresses -> Values]]
      BY <1>2, <2>1, <2>2 DEF ImagesInv, ImagesTypeOK
    <3> QED BY <3>1, <3>3, <3>4 DEF ImagesTypeOK
  <2>5. ASSUME NEW d \in ImageDrives, NEW a \in Addresses
        PROVE  promise'[d][a] = Written(d)'[SectorOf(a)]
    <3>1. SectorOf(a) \in Sectors /\ promise[d][a] = Written(d)[SectorOf(a)]
      BY SectorInImage DEF ImagesInv, BuffersKeepPromises
    <3>2. CASE d # s_drive
      <4>1. disk'[d] = disk[d] /\ pend'[d] = pend[d] /\ promise'[d] = promise[d]
        BY <2>1, <3>2 DEF ImagesInv, ImagesTypeOK
      <4> QED BY <3>1, <4>1 DEF Written
    <3>3. CASE d = s_drive
      <4>1. /\ disk'[d] = Written(d) /\ pend'[d] = [s \in {offset} |-> v]
            /\ promise'[d] = [promise[d] EXCEPT ![here] = v]
        BY <2>1, <3>3 DEF ImagesInv, ImagesTypeOK
      <4>2. Written(d)' = [s \in Sectors |-> IF s = offset THEN v ELSE Written(d)[s]]
        BY <4>1 DEF Written
      <4>3. SectorOf(a) = offset <=> a = here
        BY <2>2, SectorsApart
      <4>4. promise[d] \in [Addresses -> Values]
        BY DEF ImagesInv, ImagesTypeOK
      <4> HIDE DEF here
      <4> QED BY <2>2, <3>1, <4>1, <4>2, <4>3, <4>4
    <3> QED BY <3>2, <3>3
  <2> QED BY <2>4, <2>5 DEF ImagesStep, BuffersKeepPromises
<1> QED BY <1>1, <1>2

LEMMA KilledImages ==
  ASSUME MachineTypeOK, ImagesInv, Killed
  PROVE  ImagesStep
<1>1. /\ disk' = disk /\ pend' = [d \in ImageDrives |-> Nothing]
      /\ promise' = [d \in ImageDrives |-> [a \in Addresses |-> disk[d][SectorOf(a)]]]
  BY DEF Killed, SectorOf
<1>2. \A d \in ImageDrives : \A a \in Addresses : disk[d][SectorOf(a)] \in Values
  BY SectorInImage DEF ImagesInv, ImagesTypeOK, Image
<1>3. ImagesTypeOK'
  BY <1>1, <1>2 DEF ImagesInv, ImagesTypeOK, Buffer
<1>4. \A d \in ImageDrives : Written(d)' = disk[d]
  <2> SUFFICES ASSUME NEW d \in ImageDrives PROVE Written(d)' = disk[d]
    OBVIOUS
  <2>1. Written(d)' = Over(disk'[d], pend'[d])
    BY DEF Written, Over
  <2> QED BY <1>1, <2>1, OverIsImage DEF ImagesInv, ImagesTypeOK, Buffer
<1> QED BY <1>1, <1>3, <1>4 DEF ImagesStep, BuffersKeepPromises

-----------------------------------------------------------------------------
(* Steps of the machine.                                                   *)

\* A warm boot, and the chain that ends in one, of a program with its map.
LEMMA WarmBoots ==
  ASSUME MachineInv, NEW pending \in BOOLEAN, WBoot(pending)
  PROVE  /\ running' = "ccp" /\ MapsAgree'
         /\ umap' \in {Merged, Split} /\ m_chain_pending' \in BOOLEAN
         /\ UNCHANGED <<target, g_last_prog_split, s_drive, s_track, s_sector, granted>>
         /\ ImagesStep
         /\ target = "z8001" /\ ~ pending => umap' = Merged
         /\ running # "ccp" /\ pending => umap'.data = umap.data
         /\ target = "z8002" => \A d \in ImageDrives : Differs(d)' = {}
         /\ res'.fn = "WBOOT"
<1>1. /\ running' = "ccp" /\ res'.fn = "WBOOT"
      /\ UNCHANGED <<target, g_last_prog_split, s_drive, s_track, s_sector, granted, promise>>
  BY DEF WBoot, Ans
<1>2. CASE target = "z8001"
  <2>1. /\ umap' = (IF g_last_prog_split /\ pending THEN Split ELSE Merged)
        /\ m_chain_pending' = FALSE /\ UNCHANGED <<disk, pend>>
    BY <1>2 DEF WBoot, prepare_boot
  <2>2. running # "ccp" /\ pending => umap' = umap
    BY <1>2, <2>1 DEF MachineInv, BootInv, MapsAgree, MapOf
  <2>3. ImagesStep
    BY <1>1, <2>1, ImagesAlone DEF MachineInv
  <2> QED BY <1>1, <1>2, <2>1, <2>2, <2>3 DEF MapsAgree
<1>3. CASE target = "z8002"
  <2>1. umap' = umap /\ m_chain_pending' = pending /\ Flushed(ImageDrives)
    BY <1>3 DEF WBoot, bios_prepare_warm_boot
  <2>2. ImagesStep /\ \A d \in ImageDrives : Differs(d)' = {}
    BY <1>1, <2>1, FlushedImages DEF MachineInv
  <2> QED BY <1>1, <1>3, <2>1, <2>2 DEF MachineInv, MachineTypeOK, MapsAgree
<1> QED BY <1>2, <1>3 DEF MachineInv, MachineTypeOK

\* What any step may do.  The answers are about the registers of before.
MachineStep ==
  /\ MachineInv'
  /\ WarmBoot /\ target = "z8001" => umap' = Merged
  /\ res'.fn \in {"READ", "FLUSH"} => UNCHANGED <<granted, s_track, s_sector>>
  /\ UNCHANGED target

\* A call of the BIOS that keeps what the registers may hold.
LEMMA BiosCall ==
  ASSUME MachineInv, UNCHANGED boot, ImagesStep, AnswersHold',
         granted' = s_drive', s_drive' = 0 \/ s_dph(s_drive'),
         s_track' \in 0..(Tracks - 1), s_sector' \in 0..(SPT - 1)
  PROVE  MachineInv'
<1>1. MachineTypeOK'
  <2>1. /\ disk' \in [ImageDrives -> [Sectors -> Values]]
        /\ \A d \in ImageDrives : \A s \in DOMAIN pend'[d] : s \in Sectors /\ pend'[d][s] \in Values
    BY BufferTypes DEF ImagesStep, ImagesTypeOK, Image
  <2> QED BY <2>1 DEF MachineInv, MachineTypeOK, boot, s_dph
<1>2. BootInv'
  BY DEF MachineInv, BootInv, MapsAgree, ChainedCommandIsSeen, boot
<1> QED BY <1>1, <1>2 DEF MachineInv, ImagesInv, ImagesStep

\* A step of the programs: the images' registers are as they were.
LEMMA ProgramStep ==
  ASSUME MachineInv, ImagesStep, AnswersHold', BootInv',
         UNCHANGED <<target, s_drive, s_track, s_sector, granted>>,
         running' \in {"ccp", "merged", "split"}, umap' \in {Merged, Split},
         g_last_prog_split' \in BOOLEAN, m_chain_pending' \in BOOLEAN,
         command' \in {"none", "tpa", "data"}
  PROVE  MachineInv'
<1>1. /\ disk' \in [ImageDrives -> [Sectors -> Values]]
      /\ \A d \in ImageDrives : \A s \in DOMAIN pend'[d] : s \in Sectors /\ pend'[d][s] \in Values
  BY BufferTypes DEF ImagesStep, ImagesTypeOK, Image
<1>2. MachineTypeOK'
  BY <1>1 DEF MachineInv, MachineTypeOK, s_dph
<1> QED BY <1>2 DEF MachineInv, ImagesInv, ImagesStep

LEMMA StartProgramStep ==
  ASSUME MachineInv, NEW kind \in {"merged", "split"},
         StartProgram(kind) \/ StartRefused(kind)
  PROVE  MachineStep
<1>1. UNCHANGED <<target, m_chain_pending, bios>> /\ running = "ccp" /\ command' = "none"
  BY DEF StartProgram, StartRefused
<1>2. ImagesStep
  BY <1>1, ImagesAlone DEF bios, MachineInv
<1>3. AnswersHold'
  BY <1>1 DEF bios, MachineInv, AnswersHold, Differs
<1>4. /\ running' \in {"ccp", "merged", "split"} /\ umap' \in {Merged, Split}
      /\ g_last_prog_split' \in BOOLEAN
      /\ target = "z8001" /\ running' # "ccp"
           => umap' = MapOf(running') /\ g_last_prog_split' = (running' = "split")
  BY <1>1 DEF StartProgram, StartRefused, map_address, MapOf, MachineInv, MachineTypeOK
<1>5. BootInv'
  BY <1>1, <1>4 DEF BootInv, MapsAgree, ChainedCommandIsSeen, MachineInv
<1>6. MachineInv'
  BY <1>1, <1>2, <1>3, <1>4, <1>5, ProgramStep DEF MachineInv, MachineTypeOK, bios
<1>7. WarmBoot /\ target = "z8001" => umap' = Merged
  BY WarmBoots DEF WarmBoot, MachineInv, MachineTypeOK, BootInv, MapsAgree
<1> QED BY <1>1, <1>6, <1>7 DEF MachineStep, bios

LEMMA WarmBootStep ==
  ASSUME MachineInv, WarmBoot
  PROVE  MachineStep
<1>1. WBoot(m_chain_pending) /\ m_chain_pending \in BOOLEAN /\ command' = "none"
  BY DEF WarmBoot, MachineInv, MachineTypeOK
<1>2. BootInv' /\ AnswersHold'
  BY <1>1, WarmBoots DEF BootInv, ChainedCommandIsSeen, AnswersHold
<1>3. MachineInv'
  BY <1>1, <1>2, WarmBoots, ProgramStep DEF MachineInv, MachineTypeOK
<1> QED BY <1>1, <1>3, WarmBoots DEF MachineStep, MachineInv, BootInv, MapsAgree

LEMMA ChainStep ==
  ASSUME MachineInv, Chain
  PROVE  MachineStep
<1>1. WBoot(TRUE) /\ running # "ccp" /\ command' = umap.data
  BY DEF Chain
<1>2. umap'.data = umap.data /\ umap.data \in {"tpa", "data"}
  <2>1. umap'.data = umap.data
    BY <1>1, WarmBoots
  <2>2. umap \in {Merged, Split}
    BY DEF MachineInv, MachineTypeOK
  <2> QED BY <2>1, <2>2 DEF Merged, Split
<1>3. BootInv' /\ AnswersHold'
  BY <1>1, <1>2, WarmBoots DEF BootInv, ChainedCommandIsSeen, AnswersHold
<1>4. MachineInv'
  BY <1>1, <1>2, <1>3, WarmBoots, ProgramStep DEF MachineInv, MachineTypeOK
<1>5. WarmBoot /\ target = "z8001" => umap' = Merged
  BY WarmBoots DEF WarmBoot, MachineInv, MachineTypeOK, BootInv, MapsAgree
<1> QED BY <1>1, <1>4, <1>5, WarmBoots DEF MachineStep

\* No call of the BIOS, and no end of the emulator, is a warm boot.
LEMMA OtherAnswers ==
  ASSUME res'.fn # "WBOOT"
  PROVE  ~ WarmBoot
BY DEF WarmBoot, WBoot, Ans

LEMMA RegisterStep ==
  ASSUME MachineInv,
         \/ \E d \in DriveSet : SelDsk(d)
         \/ \E t \in 0..(Tracks - 1) : SetTrk(t)
         \/ \E s \in 0..(SPT - 1) : SetSec(s)
  PROVE  MachineStep
<1>1. UNCHANGED <<boot, disk, pend, promise>> /\ res'.fn \in {"SELDSK", "SETTRK", "SETSEC"}
  BY DEF SelDsk, SetTrk, SetSec, Ans
<1>2. ImagesStep
  BY <1>1, ImagesAlone DEF MachineInv
<1>3. /\ granted' = s_drive' /\ (s_drive' = 0 \/ s_dph(s_drive'))
      /\ s_track' \in 0..(Tracks - 1) /\ s_sector' \in 0..(SPT - 1)
  BY DEF SelDsk, SetTrk, SetSec, MachineInv, ImagesInv, MachineTypeOK
<1>4. MachineInv'
  BY <1>1, <1>2, <1>3, BiosCall DEF AnswersHold
<1> QED BY <1>1, <1>4, OtherAnswers DEF MachineStep, boot

LEMMA TransferStep ==
  ASSUME MachineInv, Read \/ \E v \in Values : Write(v)
  PROVE  MachineStep
<1>1. /\ UNCHANGED <<boot, s_drive, s_track, s_sector, granted>>
      /\ res'.fn \in {"READ", "WRITE"}
  BY DEF Read, Write, Ans
<1>2. ImagesStep
  BY ReadImages, WriteImages DEF MachineInv
<1>3. AnswersHold'
  <2>1. CASE Read
    BY <1>1, <2>1, ReadImages DEF AnswersHold, MachineInv, Read, Ans
  <2>2. CASE \E v \in Values : Write(v)
    BY <2>2 DEF AnswersHold, Write, Ans
  <2> QED BY <2>1, <2>2
<1>4. MachineInv'
  BY <1>1, <1>2, <1>3, BiosCall DEF MachineInv, ImagesInv, MachineTypeOK
<1> QED BY <1>1, <1>4, OtherAnswers DEF MachineStep, boot

LEMMA FlushStep ==
  ASSUME MachineInv, Flush
  PROVE  MachineStep
<1>1. /\ UNCHANGED <<boot, s_drive, s_track, s_sector, granted, promise>>
      /\ Flushed(ImageDrives \cap {s_drive}) /\ res'.fn = "FLUSH"
  BY DEF Flush, Ans
<1>2. ImagesStep /\ \A d \in ImageDrives \cap {s_drive} : Differs(d)' = {}
  BY <1>1, FlushedImages DEF MachineInv
<1>3. AnswersHold'
  BY <1>1, <1>2 DEF AnswersHold, MachineInv, ImagesInv
<1>4. MachineInv'
  BY <1>1, <1>2, <1>3, BiosCall DEF MachineInv, ImagesInv, MachineTypeOK
<1> QED BY <1>1, <1>4, OtherAnswers DEF MachineStep, boot

LEMMA EndStep ==
  ASSUME MachineInv, Exit \/ Killed
  PROVE  MachineStep
<1>1. ColdStart /\ res'.fn \in {"exit", "killed"}
  BY DEF Exit, Killed, Ans
<1>2. ImagesStep /\ AnswersHold'
  <2>1. CASE Exit
    <3>1. Flushed(ImageDrives) /\ UNCHANGED promise /\ res'.fn = "exit"
      BY <2>1 DEF Exit, Ans
    <3> QED BY <3>1, FlushedImages DEF AnswersHold, MachineInv
  <2>2. CASE Killed
    BY <2>2, KilledImages DEF AnswersHold, MachineInv, Killed, Ans
  <2> QED BY <2>1, <2>2
<1>3. MachineTypeOK'
  <2>1. /\ disk' \in [ImageDrives -> [Sectors -> Values]]
        /\ \A d \in ImageDrives : \A s \in DOMAIN pend'[d] : s \in Sectors /\ pend'[d][s] \in Values
    BY <1>2, BufferTypes DEF ImagesStep, ImagesTypeOK, Image
  <2>2. 0 \in 0..(Tracks - 1) /\ 0 \in 0..(SPT - 1)
    BY MachineAssumption
  <2> QED BY <1>1, <2>1, <2>2 DEF ColdStart, MachineInv, MachineTypeOK
<1>4. BootInv'
  BY <1>1 DEF ColdStart, BootInv, MapsAgree, ChainedCommandIsSeen
<1>5. MachineInv'
  BY <1>1, <1>2, <1>3, <1>4 DEF ColdStart, MachineInv, ImagesInv, ImagesStep
<1> QED BY <1>1, <1>5, OtherAnswers DEF MachineStep, ColdStart

LEMMA MachineSteps ==
  ASSUME MachineInv, MachineNext
  PROVE  MachineStep
<1>1. CASE \E kind \in {"merged", "split"} : StartProgram(kind) \/ StartRefused(kind)
  BY <1>1, StartProgramStep
<1>2. CASE WarmBoot \/ Chain
  BY <1>2, WarmBootStep, ChainStep
<1>3. CASE \/ \E d \in DriveSet : SelDsk(d)
           \/ \E t \in 0..(Tracks - 1) : SetTrk(t)
           \/ \E s \in 0..(SPT - 1) : SetSec(s)
  BY <1>3, RegisterStep
<1>4. CASE Read \/ \E v \in Values : Write(v)
  BY <1>4, TransferStep
<1>5. CASE Flush
  BY <1>5, FlushStep
<1>6. CASE Exit \/ Killed
  BY <1>6, EndStep
<1> QED BY <1>1, <1>2, <1>3, <1>4, <1>5, <1>6 DEF MachineNext

LEMMA MachineStutter ==
  ASSUME MachineInv, UNCHANGED mvars
  PROVE  MachineInv'
<1>1. UNCHANGED <<boot, bios>> /\ ImagesStep
  BY ImagesAlone DEF mvars, bios, MachineInv
<1>2. AnswersHold'
  BY <1>1 DEF boot, bios, MachineInv, AnswersHold, Differs
<1> QED BY <1>1, <1>2, BiosCall DEF bios, MachineInv, ImagesInv, MachineTypeOK

-----------------------------------------------------------------------------
(* Theorems.                                                               *)

LEMMA MachineInvariance == MachineSpec => []MachineInv
<1>1. MachineInv /\ [MachineNext]_mvars => MachineInv'
  BY MachineSteps, MachineStutter DEF MachineStep
<1> QED BY MachineInitial, <1>1, PTL DEF MachineSpec

\* The machine keeps its type: the BIOS's selected drive is one with a DPH or drive A, and
\* the C library holds back sectors of the images only (s_drive, s_dph_offset, s_disk_fp).
THEOREM MachineTypes == MachineSpec => []MachineTypeOK
<1>1. MachineInv => MachineTypeOK
  BY DEF MachineInv
<1> QED BY MachineInvariance, <1>1, PTL

\* The CCP sees the command its predecessor has chained to, whatever the maps of the two
\* (prepare_boot, map_address, main.cpp:46-52).
THEOREM ChainsArrive == MachineSpec => []ChainedCommandIsSeen
<1>1. MachineInv => ChainedCommandIsSeen
  BY DEF MachineInv, BootInv
<1> QED BY MachineInvariance, <1>1, PTL

\* A warm boot of the Z8001 without a chain is merged (clear_chain_pending).
THEOREM OrdinaryBoots == MachineSpec => OrdinaryBootIsMerged
<1>1. MachineInv /\ [MachineNext]_mvars
      => [WarmBoot /\ target = "z8001" => umap' = Merged]_mvars
  BY MachineSteps DEF MachineStep
<1> QED BY MachineInvariance, <1>1, PTL DEF MachineSpec, OrdinaryBootIsMerged

\* READ answers what was written last for the granted drive, track and sector, whatever the
\* C library holds back (BIOS_READ, BIOS_WRITE).
THEOREM SectorReads == MachineSpec => SectorReadIsLastWritten
<1>1. MachineInv /\ [MachineNext]_mvars
      => [res'.fn = "READ" /\ res'.code = 0
            => res'.value = promise'[granted][<<s_track, s_sector>>]]_mvars
  BY MachineSteps DEF MachineStep, MachineInv, AnswersHold
<1> QED BY MachineInvariance, <1>1, PTL DEF MachineSpec, SectorReadIsLastWritten

\* An image lacks one sector at most, whenever the emulator is killed (each transfer seeks,
\* and a seek writes out what is pending).
THEOREM KillCostsOneSector == MachineSpec => []OneSectorAtRisk
<1>1. MachineInv => OneSectorAtRisk
  <2> SUFFICES ASSUME MachineInv, NEW d \in ImageDrives, NEW a \in Differs(d), NEW b \in Differs(d)
               PROVE  a = b
    BY DEF OneSectorAtRisk
  <2>1. pend[d] \in Buffer
    BY DEF MachineInv, ImagesInv, ImagesTypeOK
  <2>2. ASSUME NEW c \in Differs(d)
        PROVE  c \in Addresses /\ SectorOf(c) \in DOMAIN pend[d]
    <3>1. c \in Addresses /\ disk[d][SectorOf(c)] # promise[d][c]
      BY DEF Differs, SectorOf
    <3>2. promise[d][c] = Written(d)[SectorOf(c)] /\ SectorOf(c) \in Sectors
      BY <3>1, SectorInImage DEF MachineInv, ImagesInv, BuffersKeepPromises
    <3> QED BY <3>1, <3>2 DEF Written
  <2>3. DOMAIN pend[d] = {SectorOf(a)}
    BY <2>1, <2>2, BufferTypes
  <2>4. SectorOf(a) = SectorOf(b) /\ a \in Addresses /\ b \in Addresses
    BY <2>2, <2>3
  <2> QED BY <2>4, SectorsApart
<1> QED BY MachineInvariance, <1>1, PTL

\* FLUSH, the Z8002's warm boot and an orderly end leave nothing with the C library
\* (BIOS_FLUSH, bios_prepare_warm_boot, bios_cleanup_disks).
THEOREM BarriersSettleImages == MachineSpec => BarriersReachTheImage
<1>1. MachineInv /\ [MachineNext]_mvars
      => [\A d \in ImageDrives :
            \/ res'.fn = "FLUSH" /\ d = granted
            \/ res'.fn = "WBOOT" /\ target = "z8002"
            \/ res'.fn = "exit"
            => Differs(d)' = {}]_mvars
  BY MachineSteps DEF MachineStep, MachineInv, AnswersHold
<1> QED BY MachineInvariance, <1>1, PTL DEF MachineSpec, BarriersReachTheImage
=============================================================================
