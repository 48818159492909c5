----------------------------- MODULE MCHostFiles -----------------------------
(***************************************************************************)
(* Instances of HostFiles: FCBs, paths and files of the host are           *)
(* interchangeable, and res is an answer no later call depends on: states  *)
(* that differ in res only have the same successors, so TLC may take them  *)
(* for one state; every step to an answer is still checked.                *)
(***************************************************************************)
EXTENDS HostFilesFcb, TLC

Symmetry == Permutations(Fcb) \cup Permutations(Names) \cup Permutations(Inodes)
View == <<fcb, m_files, dir, data>>
=============================================================================
