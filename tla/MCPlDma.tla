------------------------------- MODULE MCPlDma -------------------------------
(***************************************************************************)
(* Instances of PlDma for TLC: two threads, of one process or of two.      *)
(***************************************************************************)
EXTENDS PlDma, TLC

CONSTANTS c1, c2, p1, p2

OneProcess   == [c \in {c1, c2} |-> p1]
TwoProcesses == (c1 :> p1) @@ (c2 :> p2)

==============================================================================
