------------------------------- MODULE ZeroCopy -------------------------------
(***************************************************************************)
(* The zero-copy buffers of the host DMA device, x86 build: open, release  *)
(* and mmap of src/drv_src/dma_fops_host_x86.c.                            *)
(*                                                                         *)
(* mmap allocates a DMA buffer and maps it into the caller: the first one  *)
(* since a release is slot 0, the second slot 1, a third is refused.  The  *)
(* slots belong to the device, not to the file.                            *)
(*                                                                         *)
(* A mapping holds its file: the kernel calls release when the file is     *)
(* closed and nothing of it is mapped any more.  Calls do not overlap: the *)
(* kernel sees to it for the mmaps of one process.                         *)
(***************************************************************************)
EXTENDS Integers, FiniteSets

CONSTANTS
  Files,     \* open files of the device, each of its own process
  Buffers,   \* bound: what dma_alloc_coherent can hand out
  NULL,
  Lengths,   \* lengths of the mappings asked for
  Limit      \* 0x400000, in the unit of lengths

ASSUME BuffersAssumption == IsFiniteSet(Buffers) /\ NULL \notin Buffers
ASSUME LengthsAssumption == Lengths \subseteq Nat \ {0}
ASSUME LimitAssumption   == Limit \in Nat

Slots == {0, 1}

VARIABLES
  open,      \* the files that are open
  cnt,       \* alloc_cnt
  ptr,       \* alloc_ptr0, alloc_ptr1
  len,       \* alloc_len0, alloc_len1
  handle,    \* dma_handle0, dma_handle1: never cleared
  memory,    \* the buffers allocated, with their lengths
  maps,      \* what is mapped: <<file, buffer>>
  shared,    \* two files have been open at once
  unmapped,  \* some buffer was allocated and could not be mapped
  badfree    \* a buffer was freed twice, or with another length

vars == <<open, cnt, ptr, len, handle, memory, maps, shared, unmapped, badfree>>

Allocated == DOMAIN memory

Mapped(f) == {m[2] : m \in {x \in maps : x[1] = f}}

Open(f) ==
  /\ f \notin open
  /\ open' = open \cup {f}
  /\ shared' = (shared \/ open # {})
  /\ UNCHANGED <<cnt, ptr, len, handle, memory, maps, unmapped, badfree>>

(***************************************************************************)
(* host_dma_mmap.                                                          *)
(***************************************************************************)
\* The length is recorded before it is checked, and that of slot 1 is not.
TooLong(f, n) ==
  /\ f \in open /\ cnt = 0 /\ n >= Limit
  /\ len' = [len EXCEPT ![0] = n]
  /\ UNCHANGED <<open, cnt, ptr, handle, memory, maps, shared, unmapped, badfree>>

\* Mutant: a third mapping is not refused.
Accepted_Third(f, n) == f \in open /\ cnt \in 0..2 /\ (cnt = 0 => n < Limit)

Accepted(f, n) == f \in open /\ cnt \in Slots /\ (cnt = 0 => n < Limit)

NoMemory(f, n) ==
  /\ Accepted(f, n)
  /\ len' = [len EXCEPT ![cnt] = n] /\ ptr' = [ptr EXCEPT ![cnt] = NULL]
  /\ UNCHANGED <<open, cnt, handle, memory, maps, shared, unmapped, badfree>>

Allocate(b, n) ==
  /\ b \notin Allocated
  /\ memory' = [x \in Allocated \cup {b} |-> IF x = b THEN n ELSE memory[x]]
  /\ len'    = [len EXCEPT ![cnt] = n]
  /\ ptr'    = [ptr EXCEPT ![cnt] = b]
  /\ handle' = [handle EXCEPT ![cnt] = b]

\* Mutant: a failure frees the buffer of slot 0, whichever it was for.
MapFails_FreesSlot0(f, n) ==
  /\ Accepted(f, n) /\ unmapped' = TRUE
  /\ \E b \in Buffers \ Allocated :
       memory' = [x \in (Allocated \cup {b}) \ {ptr[0]} |-> IF x = b THEN n ELSE memory[x]]
  /\ UNCHANGED <<open, cnt, len, ptr, handle, maps, shared, badfree>>

\* dma_mmap_coherent fails: the buffer stays in its slot, the count as it was.
MapFails(f, n) ==
  /\ Accepted(f, n) /\ unmapped' = TRUE
  /\ \E b \in Buffers : Allocate(b, n)
  /\ UNCHANGED <<open, cnt, maps, shared, badfree>>

\* Mutant: the count is not advanced.
Mmap_NoCount(f, n) ==
  /\ Accepted(f, n)
  /\ \E b \in Buffers : Allocate(b, n) /\ maps' = maps \cup {<<f, b>>}
  /\ UNCHANGED <<open, cnt, shared, unmapped, badfree>>

Mmap(f, n) ==
  /\ Accepted(f, n)
  /\ \E b \in Buffers : Allocate(b, n) /\ maps' = maps \cup {<<f, b>>}
  /\ cnt' = cnt + 1
  /\ UNCHANGED <<open, shared, unmapped, badfree>>

Munmap(f) ==
  /\ \E b \in Mapped(f) : maps' = maps \ {<<f, b>>}
  /\ UNCHANGED <<open, cnt, ptr, len, handle, memory, shared, unmapped, badfree>>

(***************************************************************************)
(* host_dma_release.                                                       *)
(***************************************************************************)
\* dma_free_coherent of a buffer that is not allocated, or was at another length.
BadFree(s) ==
  ptr[s] # NULL /\ (ptr[s] \in Allocated => memory[ptr[s]] # len[s])

\* Mutant: the pointers are not cleared.
Release_KeepsPointers(f) ==
  /\ f \in open /\ Mapped(f) = {}
  /\ open' = open \ {f} /\ cnt' = 0
  /\ memory' = [b \in Allocated \ {ptr[0], ptr[1]} |-> memory[b]]
  /\ badfree' = (badfree \/ \E s \in Slots : BadFree(s))
  /\ UNCHANGED <<ptr, len, handle, maps, shared, unmapped>>

Release(f) ==
  /\ f \in open /\ Mapped(f) = {}
  /\ open' = open \ {f} /\ cnt' = 0
  /\ memory' = [b \in Allocated \ {ptr[0], ptr[1]} |-> memory[b]]
  /\ ptr' = [s \in Slots |-> NULL]
  /\ badfree' = (badfree \/ \E s \in Slots : BadFree(s))
  /\ UNCHANGED <<len, handle, maps, shared, unmapped>>

Init ==
  /\ open = {} /\ cnt = 0
  /\ ptr    = [s \in Slots |-> NULL]
  /\ len    = [s \in Slots |-> 0]
  /\ handle = [s \in Slots |-> NULL]
  /\ memory = [b \in {} |-> 0]
  /\ maps = {} /\ shared = FALSE /\ unmapped = FALSE /\ badfree = FALSE

Next ==
  \E f \in Files :
    \/ Open(f) \/ Munmap(f) \/ Release(f)
    \/ \E n \in Lengths : TooLong(f, n) \/ NoMemory(f, n) \/ MapFails(f, n) \/ Mmap(f, n)

Spec == Init /\ [][Next]_vars

-----------------------------------------------------------------------------
(***************************************************************************)
(* Properties.                                                             *)
(***************************************************************************)
\* Type invariant.
TypeOK ==
  /\ open \subseteq Files
  /\ cnt  \in 0..2
  /\ ptr    \in [Slots -> Buffers \cup {NULL}]
  /\ handle \in [Slots -> Buffers \cup {NULL}]
  /\ len    \in [Slots -> Lengths \cup {0}]
  /\ Allocated \subseteq Buffers
  /\ maps \subseteq Files \X Buffers

\* With one user of the device at a time no mapping outlives its buffer: neither
\* release nor a failing mmap takes away what is still mapped.
MappingsBacked == ~shared => \A m \in maps : m[2] \in Allocated

\* With one user at a time, who has two mappings has the buffers that H2H_ZCPY
\* copies between (dma_handle0, dma_handle1), whatever failed before.
CopiesBetweenOwn ==
  ~shared => \A f \in Files :
    Cardinality(Mapped(f)) = 2 => Mapped(f) = {handle[0], handle[1]}

\* As long as every buffer could be mapped, whoever shares the device, each
\* buffer is freed once, at its own length, and none is left when all files
\* are closed.
NothingLost ==
  ~unmapped => ~badfree /\ (open = {} => Allocated = {})

==============================================================================
