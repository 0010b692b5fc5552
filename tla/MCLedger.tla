------------------------------ MODULE MCLedger ------------------------------
(***************************************************************************)
(* Small instances of the compensation ledger: a process that starts the     *)
(* run and cancels it, and one or two that bring results; one of them ends   *)
(* waits that have lasted too long.                                          *)
(***************************************************************************)
EXTENDS CompensationLedgerProperties

CONSTANTS p1, p2

PlaneAndConsumer == p1 :> {"drive", "cancel"} @@ p2 :> {"wake", "expire"}
TwoConsumers == p1 :> {"drive", "cancel", "wake"} @@ p2 :> {"wake", "expire"}
TwoProcesses == {p1, p2}

NoCalls == {}
OneCall == {1}
OneDelegation == {2}
=============================================================================
