------------------------------- MODULE Device -------------------------------
(***************************************************************************)
(* A board with all its parts.                                             *)
(***************************************************************************)
EXTENDS TinyMsc, TinyCdc, TinyNet, Tcpm

ASSUME DeviceAssumption ==
    /\ NoStorage \notin Storage
    /\ \A n \in {MaxPlugs, MaxText, MaxWrites, MaxCalls, MaxPorts, MaxFails} : n \in Nat

Init == env \in Environments /\ MscInit /\ CdcInit /\ NetInit /\ TcInit
Next == MscNext \/ CdcNext \/ NetNext \/ TcNext
Spec == Init /\ [][Next]_vars /\ MscFair /\ CdcFair /\ NetFair /\ TcFair

\* Each part keeps what it promises.
Consistent == env \in Environments /\ MscConsistent /\ CdcConsistent /\ NetConsistent /\ TcConsistent

\* Again and again everything that was begun is done.
Served == []<>(MscDone /\ CdcDone /\ NetDone /\ TcDone)

=============================================================================
