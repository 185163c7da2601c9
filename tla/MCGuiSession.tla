----------------------------- MODULE MCGuiSession -----------------------------
(* Bounded instance of GuiSession for TLC: two messages of other members,   *)
(* one of this device.                                                      *)
EXTENDS GuiSession
=============================================================================
