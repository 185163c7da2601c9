---------------------------- MODULE MCEpochGate -----------------------------
(* Two devices, few epochs: enough for a refresh by each of them, a device *)
(* that lags behind the other and a stale header of every kind.            *)
EXTENDS EpochGate, TLC

Symmetry == Permutations(Devices)
=============================================================================
