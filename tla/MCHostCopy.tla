------------------------------ MODULE MCHostCopy ------------------------------
(***************************************************************************)
(* Instance of HostCopy for TLC: two threads and two channels; a length of *)
(* three units is a full chunk and a partial one.                          *)
(***************************************************************************)
EXTENDS HostCopy

CONSTANTS c1, c2, ch1, ch2

==============================================================================
