----------------------------- MODULE MCServices -----------------------------
(***************************************************************************)
(* Devices, memory and disk layout of the BIOS packages and the disk       *)
(* tables of the emulator, for TLC.  They share no state: a behaviour      *)
(* moves one of them (focus).                                              *)
(***************************************************************************)
EXTENDS BiosDevices, BiosBanks, DiskLayout, HostDisks

VARIABLE focus

vars == <<focus, dvars, bvars, lvars, hvars>>

Other(f) == focus # f

Init ==
  /\ focus \in {"devices", "banks", "layout", "tables"}
  /\ DevicesInit /\ BanksInit /\ LayoutInit /\ HostDisksInit
  /\ Other("devices") => pkg = (CHOOSE p \in Packages : TRUE) /\ printer = "off"
  /\ Other("banks") => board = CHOOSE b \in Boards : TRUE
  /\ Other("layout") => disk = CHOOSE d \in Disks : TRUE

Next ==
  \/ focus = "devices" /\ DevicesNext /\ UNCHANGED <<focus, bvars, lvars, hvars>>
  \/ focus = "banks" /\ BanksNext /\ UNCHANGED <<focus, dvars, lvars, hvars>>
  \/ focus = "layout" /\ LayoutNext /\ UNCHANGED <<focus, dvars, bvars, hvars>>
  \/ focus = "tables" /\ HostDisksNext /\ UNCHANGED <<focus, dvars, bvars, lvars>>

Spec == Init /\ [][Next]_vars /\ DevicesFairness
=============================================================================
