---------------------------- MODULE MCAuthClient ----------------------------
(* Instances of AuthClient for TLC.                                        *)
EXTENDS AuthClient, TLC

Symmetry == Permutations(Tabs) \cup Permutations(Requests)

=============================================================================
