------------------------------ MODULE MCMemPool ------------------------------
(***************************************************************************)
(* Instances of MemPool for TLC.  A byte of the models is half a page, so  *)
(* that sizes with and without a remainder both occur; the .cfg files give *)
(* the size of the device and the requests, and with them which of the two *)
(* halves of mpim_malloc a run exercises.                                  *)
(***************************************************************************)
EXTENDS MemPool

==============================================================================
