----------------------------- MODULE BdosRouter -----------------------------
(***************************************************************************)
(* The BDOS router of the hosted emulator (cpm8k_bdos.cpp, route) with the *)
(* directory search of CpmFileSystem.  Every BDOS call of the guest passes *)
(* the router: calls for a host-directory drive are served by              *)
(* CpmFileSystem, the others by the native BDOS, whose BIOS reads disk     *)
(* images.  Both keep a current drive and the state of a search.  The      *)
(* native BDOS is object code: its current drive (native) follows the      *)
(* manuals, and of its search only the calls it gets are modelled.         *)
(***************************************************************************)
EXTENDS Integers

CONSTANTS NUM_DRIVES,   \* drives 0 .. NUM_DRIVES-1, drive 0 is A
          Backend,      \* what is configured for a drive
          Names         \* of files: pairs of a name and an extension, perhaps the blank one, " "

Drives == 0..(NUM_DRIVES - 1)

drive_is_host(d) == Backend[d] = "host"
drive_present(d) == Backend[d] # "none"

\* Some drive is configured, or main() ends with an error.
ASSUME DrivesAssumption ==
  /\ NUM_DRIVES \in Nat \ {0}
  /\ Backend \in [Drives -> {"host", "image", "none"}]
  /\ \E d \in Drives : drive_present(d)

Patterns == {<<b, e>> : b \in {n[1] : n \in Names} \cup {"?"},
                         e \in {n[2] : n \in Names} \cup {"?", " "}}
AnyName  == <<"?", "?">>
Codes    == 0..NUM_DRIVES       \* drive codes of an FCB: 0 is the current drive
QMark    == 63                  \* and '?', in searches: every entry of the current drive

VARIABLES
  m_current_drive,     \* CpmFileSystem
  m_default_drive,
  native,              \* the native BDOS's current drive
  m_last_search_host,  \* BdosRouter
  m_search,            \* CpmFileSystem: the one directory search
  files,               \* the names in the directories of the host drives
  call,                \* the last call: function, system and drive that served it, names answered
  owed,                \* history: files it asks for, there ever since, not yet answered
  given                \* history: files answered and there ever since

selection == <<m_current_drive, m_default_drive, native>>
requests  == <<owed, given>>
rvars     == <<selection, m_last_search_host, m_search, files, call, requests>>

drive_login_vector == {d \in Drives : drive_present(d)}
HostDrives         == {d \in Drives : drive_is_host(d)}

\* An ambiguous file name, as the programmer's guide defines it.
Ambiguous(pattern, name) ==
  pattern[1] \in {"?", name[1]} /\ pattern[2] \in {"?", name[2]}

match_pattern_Literal(pattern, name) ==
  pattern[1] = name[1] /\ pattern[2] \in {"?", " ", name[2]}

\* The code takes a blank extension as a wildcard as well.
match_pattern(pattern, name) ==
  pattern[1] \in {"?", name[1]} /\ pattern[2] \in {"?", " ", name[2]}

\* The router's decoding of a drive code, that of CpmFileSystem, and the native BDOS's.
fcb_drive(code)     == IF code \in {0, QMark} THEN m_current_drive ELSE code - 1
resolve_drive(code) == IF code = 0 THEN m_current_drive ELSE code - 1
NativeDrive(code)   == IF code \in {0, QMark} THEN native ELSE code - 1

\* What served a call, and the names it answered.
Served(fn, on, d, ans) == [fn |-> fn, on |-> on, drive |-> d, answer |-> ans]

\* run() makes the first configured drive the default; the native BDOS starts on the
\* drive that BIOS INIT names, which is A.
RouterInit ==
  /\ m_default_drive = CHOOSE d \in drive_login_vector :
                         \A e \in drive_login_vector : d <= e
  /\ m_current_drive = m_default_drive
  /\ native = 0
  /\ m_last_search_host = FALSE
  /\ m_search = [active |-> FALSE, drive |-> 0, pattern |-> AnyName, firm |-> {}, may |-> {}]
  /\ files \in [HostDrives -> SUBSET Names]
  /\ call = Served("none", "none", 0, {})
  /\ owed = {}
  /\ given = {}

-----------------------------------------------------------------------------
(* Drive functions.                                                        *)

\* DRV_ALLRESET: both systems go back to their default drive.
reset_all_drives ==
  /\ m_current_drive' = m_default_drive
  /\ native' = 0
  /\ call' = Served("DRV_ALLRESET", "both", 0, {})
  /\ UNCHANGED <<m_default_drive, m_last_search_host, m_search, files, requests>>

DrvSet_HandledHere(drv) ==
  /\ m_current_drive' = drv
  /\ call' = Served("DRV_SET", "host", drv, {})
  /\ UNCHANGED <<m_default_drive, native, m_last_search_host, m_search, files, requests>>

\* DRV_SET, of any drive: the router keeps a host drive from the native BDOS and lets
\* it select the others.  SELDSK refuses it a drive that is not configured, and whether
\* that stays its current drive is the native BDOS's affair.
DrvSet(drv) ==
  /\ m_current_drive' = drv
  /\ call' = Served("DRV_SET", IF drive_is_host(drv) THEN "host" ELSE "both", drv, {})
  /\ \/ drive_is_host(drv) /\ native' = native
     \/ ~ drive_is_host(drv) /\ native' = drv
     \/ ~ drive_present(drv) /\ native' = native
  /\ UNCHANGED <<m_default_drive, m_last_search_host, m_search, files, requests>>

\* DRV_GET is answered for both systems.
DrvGet ==
  /\ call' = Served("DRV_GET", "host", m_current_drive, {})
  /\ UNCHANGED <<selection, m_last_search_host, m_search, files, requests>>

\* DRV_ALLOCVEC and DRV_DPB: of the current drive, from the system that has it.
DrvParameters ==
  /\ call' = IF drive_is_host(m_current_drive)
             THEN Served("DRV_DPB", "host", m_current_drive, {})
             ELSE Served("DRV_DPB", "native", native, {})
  /\ UNCHANGED <<selection, m_last_search_host, m_search, files, requests>>

-----------------------------------------------------------------------------
(* The directory search.  readdir meets an entry that was there from       *)
(* opendir on once (firm); one made or deleted meanwhile it meets or not   *)
(* (may).  Entries that do not match are passed over.                      *)

Met_Again(s, e) == [s EXCEPT !.may = @ \ {e}]
Met(s, e) == [s EXCEPT !.firm = @ \ {e}, !.may = @ \ {e}]

close_search(s) == [s EXCEPT !.active = FALSE, !.firm = {}, !.may = {}]

file_search_next(fn, s, due, had) ==
  \/ \E e \in s.firm \cup s.may :
       /\ m_search' = Met(s, e)
       /\ owed' = due \ {e}
       /\ given' = had \cup {e}
       /\ call' = Served(fn, "host", s.drive, {e})
  \/ /\ s.firm = {}
     /\ m_search' = close_search(s)
     /\ owed' = due
     /\ given' = {}
     /\ call' = Served(fn, "host", s.drive, {})

\* F_SFIRST.  Drive code '?' searches the current drive for every entry.
SFirst(code, pattern) ==
  LET pat   == IF code = QMark THEN AnyName ELSE pattern
      drive == IF code = QMark THEN m_current_drive ELSE resolve_drive(code)
  IN  /\ IF drive_is_host(fcb_drive(code))
         THEN /\ m_last_search_host' = TRUE
              /\ file_search_next("F_SFIRST",
                   [active |-> TRUE, drive |-> drive, pattern |-> pat,
                    firm |-> {n \in files[drive] : match_pattern(pat, n)}, may |-> {}],
                   {n \in files[drive] : Ambiguous(pat, n)}, {})
         ELSE /\ owed' = {}
              /\ given' = {}
              /\ call' = Served("F_SFIRST", "native", NativeDrive(code), {})
              /\ UNCHANGED <<m_last_search_host, m_search>>
      /\ UNCHANGED <<selection, files>>

\* F_SNEXT, on the system that m_last_search_host names.
SNext ==
  /\ IF m_last_search_host
     THEN file_search_next("F_SNEXT", m_search, owed, given)
     ELSE /\ call' = Served("F_SNEXT", "native", native, {})
          /\ UNCHANGED <<m_search, owed, given>>
  /\ UNCHANGED <<selection, m_last_search_host, files>>

-----------------------------------------------------------------------------
(* Calls on a file, as far as directories see them (HostFiles has the      *)
(* rest).  A search under way may meet a name that comes or goes.          *)

Disturb(d, name) ==
  IF /\ files'[d] # files[d]
     /\ m_search.active /\ m_search.drive = d /\ match_pattern(m_search.pattern, name)
  THEN /\ m_search' = [m_search EXCEPT !.firm = @ \ {name}, !.may = @ \cup {name}]
       /\ owed' = owed \ {name}
       /\ given' = given \ {name}
  ELSE UNCHANGED <<m_search, owed, given>>

FileCall(fn, code, name, made, deleted) ==
  LET d == resolve_drive(code) IN
  /\ IF drive_is_host(fcb_drive(code))
     THEN /\ call' = Served(fn, "host", d, (files[d] \cup made) \cap {name})
          /\ files' = [files EXCEPT ![d] = (@ \cup made) \ deleted]
          /\ Disturb(d, name)
     ELSE /\ call' = Served(fn, "native", NativeDrive(code), {})
          /\ UNCHANGED <<files, m_search, owed, given>>
  /\ UNCHANGED <<selection, m_last_search_host>>

FileOpen(code, name)   == FileCall("F_OPEN", code, name, {}, {})
FileMake(code, name)   == FileCall("F_MAKE", code, name, {name}, {})
FileDelete(code, name) == FileCall("F_DELETE", code, name, {}, {name})

RouterNext ==
  \/ reset_all_drives
  \/ \E d \in Drives : DrvSet(d)
  \/ DrvGet
  \/ DrvParameters
  \/ \E code \in Codes \cup {QMark}, pattern \in Patterns : SFirst(code, pattern)
  \/ SNext
  \/ \E code \in Codes, name \in Names :
       FileOpen(code, name) \/ FileMake(code, name) \/ FileDelete(code, name)

RouterSpec == RouterInit /\ [][RouterNext]_rvars

-----------------------------------------------------------------------------
(* Properties.                                                             *)

\* Types: DRV_SET may name any drive, but the default drive is a configured one
\* (run, set_default_drive); the search is over names of files (SearchState).
RouterTypeOK ==
  /\ m_current_drive \in Drives
  /\ m_default_drive \in Drives /\ drive_present(m_default_drive)
  /\ native \in Drives
  /\ m_last_search_host \in BOOLEAN
  /\ m_search \in [active : BOOLEAN, drive : Drives, pattern : Patterns,
                   firm : SUBSET Names, may : SUBSET Names]
  /\ files \in [HostDrives -> SUBSET Names]
  /\ owed \in SUBSET Names /\ given \in SUBSET Names

\* Without a drive A the two do not start, or restart, on one drive: the default of
\* run() is another drive than the A of BIOS INIT.
StartedApart ==
  m_default_drive # 0 /\ m_current_drive = m_default_drive /\ native = 0

\* Whenever the current drive is an image, so that a call with drive code 0 is served by
\* the native BDOS and on its own current drive, that is the drive DRV_GET names,
\* whatever drives were selected in between, host drives and unconfigured ones included
\* (route, cases 13, 14 and 25); except for StartedApart.
CurrentDriveAgrees ==
  Backend[m_current_drive] = "image" => native = m_current_drive \/ StartedApart

HostSearchCall == call.fn \in {"F_SFIRST", "F_SNEXT"} /\ call.on = "host"

\* A host search that answers "no more" has answered every file that was there from
\* F_SFIRST on and matches, whatever was opened, made or deleted in between and
\* whichever drives were selected (file_search_next, close_search).
SearchIsComplete ==
  [][HostSearchCall' /\ call'.answer = {} => owed' = {}]_rvars

\* F_SNEXT does not answer a file twice that was there all the time.
SearchDoesNotRepeat ==
  [][call'.fn = "F_SNEXT" /\ HostSearchCall'
       => call'.answer \cap given = {}]_rvars

\* "continue the most recent search on its backend" (cpm8k_bdos.cpp:628): an F_SNEXT is
\* served by the system that served the F_SFIRST before it.
SearchStaysOnItsBackend ==
  [][call.fn = "F_SFIRST" /\ call'.fn = "F_SNEXT" => call'.on = call.on]_rvars
=============================================================================
