---------------------------- MODULE MCSlotRoster ----------------------------
(***************************************************************************)
(* SlotRoster with three leaves for two slots.                             *)
(***************************************************************************)
EXTENDS SlotRoster, TLC

Plain == Permutations(Leaves \ Admins)
=============================================================================
