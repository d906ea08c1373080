------------------------------- MODULE MCClient -------------------------------
(***************************************************************************)
(* For TLC: the two parts of the client library, one of which is chosen at    *)
(* the start: the client with its cache and callbacks, or the retained store. *)
(***************************************************************************)
EXTENDS SmartDashboardClient, RetainedStore

VARIABLE part

\* One key is longer than an entry holds.
MCCut == [k \in StoreKeys |-> IF k = "long" THEN "lon" ELSE k]

libraryVars == <<part, clientVars, storeVars>>

LibraryInit == part \in {"client", "store"} /\ clientInit /\ storeInit

LibraryNext ==
    \/ part = "client" /\ clientNext /\ UNCHANGED <<part, storeVars>>
    \/ part = "store" /\ storeNext /\ UNCHANGED <<part, clientVars>>

\* clientFairness asks nothing of the store: clientInit enables none of its actions.
LibrarySpec == LibraryInit /\ [][LibraryNext]_libraryVars /\ clientFairness
=============================================================================
