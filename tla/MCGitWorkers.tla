----------------------------- MODULE MCGitWorkers -----------------------------
EXTENDS GitWorkers, TLC

\* Requests that are not used yet are interchangeable (safety runs only).
Symmetry == Permutations(Requests)
===============================================================================
