------------------------------ MODULE MCTimer ------------------------------
(* The timer for TLC, with a tick of 4 bits: it wraps in every way a tick  *)
(* of 16 bits does.                                                        *)
EXTENDS Timer
=============================================================================
