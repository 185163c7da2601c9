-------------------------- MODULE MCServerJournal --------------------------
(* Three epochs, two broadcast keys, two payload cells per record, up to two *)
(* interrupted writes.                                                       *)
EXTENDS ServerJournal, TLC

Symmetry == Permutations(Epochs) \cup Permutations(Keys)
=============================================================================
