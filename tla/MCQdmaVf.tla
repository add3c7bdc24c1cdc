------------------------------ MODULE MCQdmaVf ------------------------------
(* Instances of QdmaVf for TLC. *)
EXTENDS QdmaVf, TLC

CONSTANTS v1, v2

=============================================================================
