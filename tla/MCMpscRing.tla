----------------------------- MODULE MCMpscRing -----------------------------
(* Small instances of the ring.                                             *)
EXTENDS MpscRingInv, TLC

\* Producers with the same role are interchangeable (safety runs only).
Symmetry == Permutations(Producers)
=============================================================================
