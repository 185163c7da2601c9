--------------------------- MODULE MCRealtimeFeed ---------------------------
(* A replay window of two, so that a client one connection behind may or may not be within it. *)
EXTENDS RealtimeFeed
=============================================================================
