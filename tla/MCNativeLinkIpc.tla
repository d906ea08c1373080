--------------------------- MODULE MCNativeLinkIpc --------------------------
(***************************************************************************)
(* Small instances of NativeLinkIpc for TLC.  Each runs alone with the        *)
(* constants of its configuration file, or two are joined, one of which is    *)
(* chosen at the start: that of the configuration file and Narrow, with one    *)
(* slot for the two clients and a second session.                              *)
(***************************************************************************)
EXTENDS NativeLinkIpc, TLC

CONSTANTS c1, c2

ClientSymmetry == Permutations(Clients)

Narrow == INSTANCE NativeLinkIpc WITH SlotCount <- 1, MaxSession <- 2

IsNarrow == DOMAIN slots = {1}

EitherInit == Init \/ Narrow!Init

EitherNext ==
    \/ ~IsNarrow /\ Next
    \/ IsNarrow /\ Narrow!Next

\* Fairness is asked of the narrow instance, which is the one ClientsConnect is about.
EitherSpec == EitherInit /\ [][EitherNext]_vars /\ Narrow!Fairness

-----------------------------------------------------------------------------
\* Clients that compete for the one slot connect, across a change of the session.
ClientsConnect == IsNarrow => Narrow!ClientConnects
=============================================================================
