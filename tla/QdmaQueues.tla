------------------------------- MODULE QdmaQueues -------------------------------
(***************************************************************************)
(* The queues of a QDMA device, for the modules about them: QdmaResource,  *)
(* the books, and QdmaVf, the functions that use the books.                *)
(***************************************************************************)
EXTENDS Integers, FiniteSets

CONSTANTS
  TotalQ,  \* queues of the device; the first is number 0
  Sizes,   \* qmax of the requests
  CountMod \* where the count of queues in use wraps: 2^32

ASSUME TotalQAssumption == TotalQ \in Nat
ASSUME SizesAssumption == Sizes \in SUBSET Nat
ASSUME CountModAssumption == CountMod \in Nat /\ CountMod > TotalQ

================================================================================
