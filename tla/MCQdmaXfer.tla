----------------------------- MODULE MCQdmaXfer -----------------------------
(* Instances of QdmaXfer for TLC. *)
EXTENDS QdmaXfer, TLC

CONSTANTS r1, r2, r3

\* The calls are interchangeable: only for runs without a liveness property.
Symmetry == Permutations({r1, r2, r3})

=============================================================================
