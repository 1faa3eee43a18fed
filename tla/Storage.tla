------------------------------ MODULE Storage ------------------------------
(***************************************************************************)
(* The machine's disks: the floppy controller with its DMA channel and the *)
(* IDE channel.  They share no state (a reset of the machine resets both), *)
(* so a behaviour uses one of them.                                        *)
(***************************************************************************)
EXTENDS Floppy, Ide

storageVars == <<fdVars, ideVars>>

StorageInit ==
  /\ fdGuest \in FdGuests /\ hdGuest \in HdGuests
  /\ fdGuest = {} \/ hdGuest = {}
  /\ FloppyInit /\ IdeInit

StorageNext ==
  \/ FloppyNext /\ UNCHANGED ideVars
  \/ IdeNext /\ UNCHANGED fdVars

StorageSpec == StorageInit /\ [][StorageNext]_storageVars

(* Registers, buffers and history have the values the models give them.     *)
StorageTypeOK == FloppyTypeOK /\ IdeTypeOK
=============================================================================
