------------------------------ MODULE MCZeroCopy ------------------------------
(***************************************************************************)
(* Instances of ZeroCopy for TLC: two files, three buffers, and a length   *)
(* on each side of the limit.                                              *)
(***************************************************************************)
EXTENDS ZeroCopy, TLC

CONSTANTS f1, f2, b1, b2, b3

\* Files and buffers are interchangeable.
Symmetry == Permutations({f1, f2}) \cup Permutations({b1, b2, b3})

==============================================================================
