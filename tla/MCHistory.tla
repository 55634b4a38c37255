----------------------------- MODULE MCHistory -----------------------------
(* The brains of MCBrainRuntime under the observation of RunHistory.       *)
EXTENDS MCBrainRuntime, RunHistory
=============================================================================
