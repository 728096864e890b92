----------------------------- MODULE MCMakeBucket -----------------------------
(* MakeBucket for TLC. *)
EXTENDS MakeBucket, TLC

\* The requests that make the bucket are interchangeable.
Symmetry == Permutations(Makers)
=============================================================================
