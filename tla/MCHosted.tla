------------------------------ MODULE MCHosted ------------------------------
(***************************************************************************)
(* The BDOS router and the machine around it, for TLC.  The two share no   *)
(* state, so that the interleavings of their steps show nothing new: a     *)
(* behaviour moves one of them (focus).                                    *)
(***************************************************************************)
EXTENDS BdosRouter, HostMachine

VARIABLE focus

vars == <<focus, rvars, mvars>>

MCBackend == [d \in Drives |-> CASE d = 0 -> "host" [] d = 1 -> "image" [] OTHER -> "none"]
MCNames == {<<"a", " ">>, <<"a", "x">>, <<"b", "x">>}

Init ==
  /\ RouterInit /\ MachineInit
  /\ \/ focus = "router" /\ target = "z8001" /\ \A d \in ImageDrives : disk[d][0] = 0
     \/ focus = "machine" /\ \A d \in HostDrives : files[d] = {}

Next ==
  \/ focus = "router" /\ RouterNext /\ UNCHANGED <<focus, mvars>>
  \/ focus = "machine" /\ MachineNext /\ UNCHANGED <<focus, rvars>>

Spec == Init /\ [][Next]_vars
=============================================================================
