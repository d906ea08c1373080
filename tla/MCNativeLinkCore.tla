-------------------------- MODULE MCNativeLinkCore --------------------------
(***************************************************************************)
(* Two small instances of NativeLinkCore for TLC, one of which is chosen at   *)
(* the start: a state topic the server writes, and a leased command topic.    *)
(***************************************************************************)
EXTENDS NativeLinkCore, TLC

CONSTANTS c1, c2, gain, reset, noPath, x, y, z

VARIABLE setting

Desc(kind, retain, replay, ttl, policy) ==
    [kind |-> kind, type |-> "Double", retain |-> retain, replay |-> replay,
     ttl |-> ttl, policy |-> policy]

\* A replayed state topic that ages, written by the server alone, and the
\* registration ValidateDescriptor must refuse for its empty path.
StateOffers ==
    { <<gain,   Desc("State", TRUE, TRUE, 1, "ServerOnly")>>,
      <<noPath, Desc("State", TRUE, TRUE, 0, "ServerOnly")>> }

\* A leased command topic, and the registrations of it that must be refused.
CommandOffers ==
    { <<reset, Desc("Command", FALSE, FALSE, 0, "LeaseSingleWriter")>>,
      <<reset, Desc("Command", FALSE, TRUE,  0, "LeaseSingleWriter")>>,
      <<reset, Desc("Command", TRUE,  FALSE, 0, "LeaseSingleWriter")>>,
      <<reset, Desc("Event",   FALSE, FALSE, 0, "LeaseSingleWriter")>> }

AllOffers == StateOffers \cup CommandOffers

MCClients == {c1, c2}
MCSymmetry == Permutations(MCClients) \cup Permutations({x, y})

State == INSTANCE NativeLinkCore WITH
    Paths <- {gain}, Payloads <- {x, y}, Offers <- StateOffers
Command == INSTANCE NativeLinkCore WITH
    Paths <- {reset}, Offers <- CommandOffers, Payloads <- {z},
    MaxSeq <- 2, MaxAge <- 0

EitherInit == setting \in {"state", "command"} /\ Init

EitherNext ==
    /\ \/ setting = "state" /\ State!Next
       \/ setting = "command" /\ Command!Next
    /\ UNCHANGED setting

EitherSpec == EitherInit /\ [][EitherNext]_<<vars, setting>>
=============================================================================
