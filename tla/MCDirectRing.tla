---------------------------- MODULE MCDirectRing -----------------------------
(***************************************************************************)
(* A small instance of DirectRing for TLC: frames of two and three bytes in   *)
(* a ring of five start, wrap and end at every offset, two of them fill it to *)
(* the guard byte, and sequence numbers tell a frame from the one before it.  *)
(***************************************************************************)
EXTENDS DirectRing
=============================================================================
