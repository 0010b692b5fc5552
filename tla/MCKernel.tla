------------------------------ MODULE MCKernel ------------------------------
(* Small instances of ExecutionKernel for TLC. *)
EXTENDS ExecutionKernelProperties, TLC

CONSTANTS w1, w2, r1, r2, s1, k1, a1, a2   \* process names, as model values

NoProcs == {}
OneWorker == {w1}
TwoWorkers == {w1, w2}
OneRecoverer == {r1}
TwoRecoverers == {r1, r2}
OneSweeper == {s1}
OneWaker == {k1}
OneApi == {a1}
TwoApis == {a1, a2}
WorkerAndApi == {w1, a1}     \* a1 runs AgentLoop with a worker of its own

\* Workers run the same code on the same row, and so do API processes.
ProcessSymmetry == Permutations({w1, w2}) \cup Permutations({a1, a2})
=============================================================================
