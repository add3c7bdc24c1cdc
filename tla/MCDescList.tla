------------------------------ MODULE MCDescList ------------------------------
(***************************************************************************)
(* Instance of DescList for TLC.  The constants stand in the proportions   *)
(* of the code (NUM_BANKS, burst and channels alike, the register, the     *)
(* width and the step their square, a huge page several register tiles):   *)
(* 2 for 16.                                                               *)
(***************************************************************************)
EXTENDS DescList

\* Operands below, at and beyond a huge page; rows that fill tiles and that do not.
ScaledCalls == [op : Ops, P : {1, 3, 4, 8}, Q : {4, 6, 8}, R : {2, 4, 8, 16}]

==============================================================================
