----------------------------- MODULE MCAgentLoop -----------------------------
(* Instances of AgentLoop for TLC. *)
EXTENDS AgentLoop, TLC

CONSTANTS m1, m2, m3, par, seq

MCTools == {par, seq}
MCSequentialTools == {seq}
\* No call, or two calls that run in parallel.
MCParallelPair == {<<>>, <<par, par>>}
\* No call, or two calls of which the second makes the batch sequential.
MCSequentialPair == {<<>>, <<par, seq>>}
\* A parallel pair, then a sequential tool on its own.
MCPairThenSeq == {<<par, par>>, <<seq>>}
MCSymmetry == Permutations(UserMessages)
=============================================================================
