------------------------------ MODULE MCBuild ------------------------------
(***************************************************************************)
(* The tools that build programs, for TLC: the assembler, its virtual      *)
(* memory, and the linker with what reads its output.  They share no state *)
(* (files pass between them): a behaviour moves one of them (tool).        *)
(***************************************************************************)
EXTENDS MCTools, MCSources, AsmMemory

VARIABLE tool

vars == <<tool, lvars, avars, mvars>>

Idle(t) == tool # t

Init ==
  /\ tool \in {"assembler", "memory", "linker"}
  /\ Idle("linker") => job = CHOOSE j \in Jobs : TRUE
  /\ Idle("assembler") => asm = CHOOSE a \in [src : Sources, seg : SegFlags, uext : UFlags] : TRUE
  /\ LinkerInit /\ AssemblerInit /\ AsmMemoryInit

\* The assembler has ended, or stopped with a fatal error; the listing is the last thing
\* that reads the virtual memory.
Ended == (tool = "assembler" /\ (pass = 3 \/ z.fatal)) \/ (tool = "memory" /\ sorted)

Next ==
  \/ tool = "linker" /\ ToolNext /\ UNCHANGED <<tool, avars, mvars>>
  \/ tool = "assembler" /\ AssemblerNext /\ UNCHANGED <<tool, lvars, mvars>>
  \/ tool = "memory" /\ AsmMemoryNext /\ UNCHANGED <<tool, lvars, avars>>
  \/ Ended /\ UNCHANGED vars

Spec == Init /\ [][Next]_vars
=============================================================================
