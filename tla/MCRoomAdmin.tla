---------------------------- MODULE MCRoomAdmin ----------------------------
(* Model values for RoomAdmin: admins and proofs are interchangeable;  *)
(* keys are not, as the unregistered record holds an arbitrary one of them. *)
EXTENDS RoomAdmin, TLC

Symmetry ==
    Permutations(Admins) \cup Permutations(Proofs)

=============================================================================
