------------------------------ MODULE UrbQueue -------------------------------
(***************************************************************************)
(* What an endpoint promises to its client: the transfers that it accepts  *)
(* come back in the order in which they were submitted, each of them once, *)
(* whatever happens to the endpoint in the meantime.                       *)
(***************************************************************************)
EXTENDS Sequences

CONSTANTS Ep, Urb
VARIABLE queue      \* the transfers that an endpoint has accepted and not returned

Queued(u) == \E e \in Ep : \E i \in DOMAIN queue[e] : queue[e][i] = u

Init == queue = [e \in Ep |-> <<>>]

Accept(e, u) == ~Queued(u) /\ queue' = [queue EXCEPT ![e] = Append(@, u)]

Return(e) == queue[e] # <<>> /\ queue' = [queue EXCEPT ![e] = Tail(@)]

Next == \E e \in Ep : Return(e) \/ \E u \in Urb : Accept(e, u)

Spec == Init /\ [][Next]_queue
=============================================================================
