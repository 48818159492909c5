--------------------------- MODULE HostFilesCopies ---------------------------
(***************************************************************************)
(* HostFiles with a memory of who was left behind: stale holds the FCBs    *)
(* that were copies of an open FCB when that was closed through            *)
(* file_close(), and that nobody has changed or opened since.              *)
(***************************************************************************)
EXTENDS HostFiles

VARIABLE stale     \* history: the copies of closed FCBs

Copies(f) == {g \in Fcb \ {f} : fcb[g] = fcb[f]}

\* An FCB stops being one by a change of its bytes, or by a call of its own that
\* gives it a slot.
Reopened(f) == /\ res'.op \in {"OPEN", "MAKE", "READ", "WRITE"} /\ res'.ret # 255
               /\ res'.fcb = f
Untouched   == {f \in stale : fcb'[f] = fcb[f] /\ ~ Reopened(f)}
LeftBehind  == IF res'.op = "CLOSE" /\ res'.ret = 0 THEN Copies(res'.fcb) ELSE {}

CopiesInit == Init /\ stale = {}
CopiesNext == Next /\ stale' = Untouched \cup LeftBehind
CopiesSpec == CopiesInit /\ [][CopiesNext]_<<vars, stale>>

(***************************************************************************)
(* A claim of a comment that the code does not keep.                       *)
(***************************************************************************)

\* file_close(): "Clear handle in FCB so stale copies don't match": the handle in a
\* copy of a closed FCB never names a slot that was opened for another path since.
StaleCopiesDoNotMatch ==
  \A f \in stale : find_file_by_fcb(f) # None => Matching(f)
=============================================================================
