------------------------------ MODULE MCMmTlb ------------------------------
(* Small instances of MmTlb for TLC. *)
EXTENDS MmTlb, TLC

CONSTANTS c0, c1, p0, p1, f0, f1

MCTwoCpus == {c0, c1}
MCPages == {p0, p1}
MCFrames == {f0, f1}
Symmetry == Permutations(MCTwoCpus) \cup Permutations(MCPages) \cup Permutations(MCFrames)
=============================================================================
