--------------------------- MODULE MCClientBarrier ---------------------------
(* Bounded instance of ClientBarrier for TLC.                               *)
EXTENDS ClientBarrier
=============================================================================
