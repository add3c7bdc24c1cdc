------------------------------- MODULE PagePool -------------------------------
(***************************************************************************)
(* What the PIM allocator promises its callers, whatever the pools, bit    *)
(* vectors and chains behind it: an allocation is a set of pages of the    *)
(* device that nobody holds, it stays its holder's alone until it is freed *)
(* and a free gives back exactly the pages of that allocation.             *)
(***************************************************************************)
CONSTANTS
  Pages,      \* the pages of the device
  Extents     \* the allocations that can be handed out

VARIABLES
  inUse,      \* pages the allocator regards as taken
  held        \* the allocations callers hold

CONSTANT PagesOf(_)   \* the pages of an allocation

absVars == <<inUse, held>>

Init == inUse = {} /\ held = {}

Alloc(e) ==
  /\ e \in Extents
  /\ PagesOf(e) # {}
  /\ PagesOf(e) \subseteq Pages \ inUse
  /\ inUse' = inUse \cup PagesOf(e)
  /\ held'  = held \cup {e}

Free(e) ==
  /\ e \in held
  /\ inUse' = inUse \ PagesOf(e)
  /\ held'  = held \ {e}

\* The process exits: everything is given back.
Close == inUse' = {} /\ held' = {}

Next ==
  \/ \E e \in Extents : Alloc(e)
  \/ \E e \in held : Free(e)
  \/ Close

Spec == Init /\ [][Next]_absVars

==============================================================================
