--------------------------------- MODULE Hcd ---------------------------------
(***************************************************************************)
(* Transfers, from who submits them down to the descriptors in memory.     *)
(***************************************************************************)
EXTENDS Endpoint, Buffers

ASSUME EpsAreFinite == IsFiniteSet(Ep) /\ IsFiniteSet(Urb)
ASSUME NumBuffersIsPos == NumBuffers \in Nat /\ NumBuffers >= 2
ASSUME NamesDiffer ==
    /\ {NoEp, "dma"} \cap Ep = {} /\ NoUrb \notin Urb /\ NoXfer \notin Xfer
    /\ Urb \cap Xfer = {}
ASSUME EnvironmentsAreTyped ==
    \A e \in Environments :
        /\ e.eps \subseteq Ep /\ e.urbs \subseteq Urb /\ e.ids \subseteq Xfer
        /\ e.pipes \subseteq [type : {"ctrl", "bulk", "intr", "isoc"}, in : BOOLEAN,
                               mps : Nat \ {0}, bInterval : Nat,
                               speed : {"low", "full", "high"}, port : {"low", "full", "high"}]

Init == env \in Environments /\ EpInit /\ DmaInit
Next == EpNext \/ DmaNext
Spec == Init /\ [][Next]_vars /\ EpFair

\* What the client sees of its endpoints: transfers come back in order, once.
Promise == INSTANCE UrbQueue WITH
    Ep <- Ep \cup {"dma"}, Urb <- Urb \cup Xfer,
    queue <- [e \in Ep \cup {"dma"} |-> IF e \in Ep THEN Queue(e) ELSE DmaQueue]
UrbQueueSpec == Promise!Spec

=============================================================================
