----------------------------- MODULE MCAgentRun -----------------------------
(***************************************************************************)
(* Small instances of a run behind the control plane: plans over two nodes,  *)
(* where b depends on a.                                                     *)
(***************************************************************************)
EXTENDS AgentRunProperties, TLC

CONSTANTS r1, a, b

OneReplica == {r1}
TwoNodes == {a, b}
OnePlan == {<<a, b>>}
ThreePlans == {<<a, b>>, <<b>>, <<a>>}
ChainNeeds == a :> {} @@ b :> {a}
NoDefects == {}
OneDefect == {<<a>>}
=============================================================================
