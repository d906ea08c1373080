-------------------------- MODULE MCDirectTransport --------------------------
(***************************************************************************)
(* Small instances of DirectTransport for TLC.                              *)
(***************************************************************************)
EXTENDS DirectTransport, TLC

CONSTANTS k1, k2

KeySymmetry == Permutations({k1, k2})
=============================================================================
