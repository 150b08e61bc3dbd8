---------------------------- MODULE MCAgentSession ----------------------------
EXTENDS AgentSession, TLC

\* Requests and configs are interchangeable (safety runs only).
Symmetry == Permutations(Senders) \cup Permutations(Configs)
===============================================================================
