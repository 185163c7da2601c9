---------------------------- MODULE MCNativeRoom ----------------------------
(***************************************************************************)
(* Instance of NativeRoom for TLC.                                         *)
(***************************************************************************)
EXTENDS NativeRoom, TLC

Symmetry == Permutations(Leaves)

=============================================================================
