---------------------------- MODULE HostFilesFcb ----------------------------
(***************************************************************************)
(* For programs that keep to one FCB per open file (Exclusive), the table  *)
(* of open files is invisible: HostFiles implements FcbFiles.  A file's    *)
(* records are those on the host with what open FILEs still have in their  *)
(* buffers laid over them.                                                 *)
(***************************************************************************)
EXTENDS HostFiles

Table == INSTANCE FcbFiles
           WITH name    <- [f \in Fcb |-> fcb[f].name],
                content <- [n \in DOMAIN dir |-> Settled(Open)[dir[n]]]

\* "Matching real CP/M where the FCB IS the file state" (ensure_open): slots that
\* stale handles close, that are reopened or reused, never lose a record, nor show
\* an old one, nor one of another file.
ImplementsFcbFiles == Table!FcbSpec
=============================================================================
