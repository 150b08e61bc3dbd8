--------------------------- MODULE MCAgentRegistry ---------------------------
EXTENDS AgentRegistry, TLC

\* Neither the agents nor the connections are told apart: sound for the safety
\* runs (not used where liveness is checked).
Symmetry == Permutations(Agents) \cup Permutations(Conns)
==============================================================================
