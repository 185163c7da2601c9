--------------------------- MODULE MCAnchorWindow ---------------------------
(* Groups and seeds are interchangeable; roots are not, as Zero is special. *)
EXTENDS AnchorWindow, TLC

Symmetry == Permutations(Gids) \cup Permutations(Seeds)

=============================================================================
