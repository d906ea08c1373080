------------------------------ MODULE LossyFifo ------------------------------
(***************************************************************************)
(* What the Direct transport's ring promises: messages arrive as they were   *)
(* sent, in order and once.  A message that does not fit is never sent, and   *)
(* a subscriber that attaches anew skips what was sent before it.             *)
(***************************************************************************)
EXTENDS Sequences

CONSTANTS Messages, NoMessage

VARIABLES
    queue,      \* sent and neither received nor skipped
    out         \* the message received last

vars == <<queue, out>>

Init == queue = <<>> /\ out = NoMessage

Send(m) == queue' = Append(queue, m) /\ UNCHANGED out

Receive ==
    /\ queue # <<>>
    /\ out' = Head(queue)
    /\ queue' = Tail(queue)

SkipAll == queue' = <<>> /\ UNCHANGED out

Next == (\E m \in Messages : Send(m)) \/ Receive \/ SkipAll

Spec == Init /\ [][Next]_vars
=============================================================================
