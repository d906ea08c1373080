-------------------------- MODULE MCNativeLinkTcp ---------------------------
(***************************************************************************)
(* Small instances of NativeLinkTcp for TLC, one of which is chosen at the    *)
(* start: that of the configuration file, with one dashboard and its troubles,  *)
(* and Pair, untroubled, with a second dashboard, which may hold the lease when   *)
(* the first writes.  The properties are about the first.                       *)
(***************************************************************************)
EXTENDS NativeLinkTcp, TLC

CONSTANTS d1, d2

Pair == INSTANCE NativeLinkTcp WITH
    Dashboards <- {d1, d2}, Events <- {}, MaxEvents <- MaxWrites

IsPair == d2 \in DOMAIN client

EitherInit == Init \/ Pair!Init

EitherNext ==
    \/ ~IsPair /\ Next
    \/ IsPair /\ Pair!Next

EitherSpec == EitherInit /\ [][EitherNext]_vars /\ Fairness
=============================================================================
