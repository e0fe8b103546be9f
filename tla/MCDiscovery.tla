----------------------------- MODULE MCDiscovery -----------------------------
(* Small instances of Discovery for TLC.                                   *)
EXTENDS Discovery, TLC

CONSTANTS u1, u2, p1, p2, c1, c2

Symmetry == Permutations(Cycle) \cup Permutations(Posting)
=============================================================================
