---------------------------- MODULE ZeroCopy_proofs ----------------------------
(***************************************************************************)
(* Proofs about ZeroCopy, for every number of files and buffers, whatever  *)
(* the lengths and the limit are.                                          *)
(***************************************************************************)
EXTENDS ZeroCopy, FiniteSetTheorems, TLAPS

USE BuffersAssumption, LengthsAssumption, LimitAssumption DEF Slots

(***************************************************************************)
(* The inductive invariant.                                                *)
(***************************************************************************)
\* A mapping holds its file open.
HeldOpen == \A m \in maps : m[1] \in open

\* With one user at a time there is one file, and what it has mapped is
\* allocated and in a slot that is counted.
OneUser ==
  ~shared => /\ \A f, g \in open : f = g
             /\ \A m \in maps : /\ m[2] \in Allocated
                                /\ \E s \in Slots : s < cnt /\ m[2] = handle[s]

\* The slots that are counted hold the buffers that are allocated, each at the
\* length recorded; the others are empty.
SlotsTell ==
  ~unmapped =>
    /\ ~badfree
    /\ Allocated = {ptr[0], ptr[1]} \ {NULL}
    /\ \A s \in Slots : IF s < cnt THEN ptr[s] \in Allocated /\ memory[ptr[s]] = len[s]
                                   ELSE ptr[s] = NULL
    /\ ptr[0] = ptr[1] => ptr[0] = NULL
    /\ open = {} => cnt = 0

IInv == TypeOK /\ HeldOpen /\ OneUser /\ SlotsTell

(***************************************************************************)
(* Every call keeps it.                                                    *)
(***************************************************************************)
LEMMA InitIInv == Init => IInv
  BY DEF Init, IInv, TypeOK, HeldOpen, OneUser, SlotsTell, Allocated

LEMMA OpenKeeps ==
  ASSUME IInv, NEW f \in Files, Open(f)
  PROVE  IInv'
  <1>1. TypeOK'
    BY DEF IInv, TypeOK, Open, Allocated
  <1>2. HeldOpen' /\ OneUser'
    BY DEF IInv, HeldOpen, OneUser, Open, Allocated
  <1>3. SlotsTell'
    BY DEF IInv, SlotsTell, Open, Allocated
  <1> QED
    BY <1>1, <1>2, <1>3 DEF IInv

LEMMA TooLongKeeps ==
  ASSUME IInv, NEW f \in Files, NEW n \in Lengths, TooLong(f, n)
  PROVE  IInv'
  <1>1. TypeOK'
    BY DEF IInv, TypeOK, TooLong, Allocated
  <1>2. HeldOpen' /\ OneUser'
    BY DEF IInv, HeldOpen, OneUser, TooLong, Allocated
  <1>3. SlotsTell'
    BY DEF IInv, TypeOK, SlotsTell, TooLong, Allocated
  <1> QED
    BY <1>1, <1>2, <1>3 DEF IInv

LEMMA NoMemoryKeeps ==
  ASSUME IInv, NEW f \in Files, NEW n \in Lengths, NoMemory(f, n)
  PROVE  IInv'
  <1>1. TypeOK'
    BY DEF IInv, TypeOK, NoMemory, Accepted, Allocated
  <1>2. HeldOpen' /\ OneUser'
    BY DEF IInv, HeldOpen, OneUser, NoMemory, Allocated
  <1>3. SlotsTell'
    BY DEF IInv, TypeOK, SlotsTell, NoMemory, Accepted, Allocated
  <1> QED
    BY <1>1, <1>2, <1>3 DEF IInv

\* A new buffer in the next slot: what all other slots and buffers are stays.
LEMMA AllocateTypes ==
  ASSUME IInv, NEW f \in Files, NEW n \in Lengths, Accepted(f, n),
         NEW b \in Buffers, Allocate(b, n)
  PROVE  /\ b \notin Allocated
         /\ Allocated' = Allocated \cup {b}
         /\ memory'[b] = n /\ \A x \in Allocated : memory'[x] = memory[x]
         /\ \A s \in Slots : /\ s = cnt => ptr'[s] = b /\ handle'[s] = b /\ len'[s] = n
                             /\ s # cnt => ptr'[s] = ptr[s] /\ handle'[s] = handle[s]
                                             /\ len'[s] = len[s]
         /\ ptr'    \in [Slots -> Buffers \cup {NULL}]
         /\ handle' \in [Slots -> Buffers \cup {NULL}]
         /\ len'    \in [Slots -> Lengths \cup {0}]
         /\ Allocated' \subseteq Buffers
  BY DEF IInv, TypeOK, Allocate, Accepted, Allocated

LEMMA MapFailsKeeps ==
  ASSUME IInv, NEW f \in Files, NEW n \in Lengths, MapFails(f, n)
  PROVE  IInv'
  <1>1. PICK b \in Buffers : Allocate(b, n)
    BY DEF MapFails
  <1>2. Accepted(f, n) /\ cnt' = cnt /\ unmapped' /\ UNCHANGED <<open, maps, shared, badfree>>
    BY DEF MapFails
  <1>3. TypeOK'
    BY <1>1, <1>2, AllocateTypes DEF IInv, TypeOK
  <1>4. HeldOpen' /\ OneUser'
    BY <1>1, <1>2, AllocateTypes DEF IInv, HeldOpen, OneUser, TypeOK
  <1>5. SlotsTell'
    BY <1>2 DEF SlotsTell
  <1> QED
    BY <1>3, <1>4, <1>5 DEF IInv

LEMMA MmapKeeps ==
  ASSUME IInv, NEW f \in Files, NEW n \in Lengths, Mmap(f, n)
  PROVE  IInv'
  <1>1. PICK b \in Buffers : Allocate(b, n) /\ maps' = maps \cup {<<f, b>>}
    BY DEF Mmap
  <1>2. Accepted(f, n) /\ cnt' = cnt + 1 /\ UNCHANGED <<open, shared, unmapped, badfree>>
    BY DEF Mmap
  <1>3. f \in open /\ cnt \in Slots
    BY <1>2 DEF Accepted
  <1>4. TypeOK'
    <2>1. cnt' \in 0..2
      BY <1>2, <1>3
    <2>2. maps' \subseteq Files \X Buffers
      BY <1>1 DEF IInv, TypeOK
    <2> QED
      BY <1>1, <1>2, <2>1, <2>2, AllocateTypes DEF IInv, TypeOK
  <1>5. HeldOpen'
    BY <1>1, <1>2, <1>3 DEF IInv, HeldOpen
  <1>6. OneUser'
    <2>1. ASSUME ~shared, NEW m \in maps
          PROVE  m[2] \in Allocated' /\ \E s \in Slots : s < cnt' /\ m[2] = handle'[s]
      <3>1. PICK s \in Slots : s < cnt /\ m[2] = handle[s]
        BY <2>1 DEF IInv, OneUser
      <3>2. handle'[s] = handle[s] /\ s < cnt'
        BY <1>1, <1>2, <1>3, <3>1, AllocateTypes
      <3> QED
        BY <1>1, <1>2, <2>1, <3>1, <3>2, AllocateTypes DEF IInv, OneUser
    <2>2. b \in Allocated' /\ handle'[cnt] = b /\ cnt < cnt'
      BY <1>1, <1>2, <1>3, AllocateTypes
    <2> QED
      BY <1>1, <1>2, <1>3, <2>1, <2>2 DEF IInv, OneUser
  <1>7. SlotsTell'
    <2> SUFFICES ASSUME ~unmapped
                 PROVE  /\ ~badfree'
                        /\ Allocated' = {ptr'[0], ptr'[1]} \ {NULL}
                        /\ \A s \in Slots : IF s < cnt'
                                            THEN ptr'[s] \in Allocated' /\ memory'[ptr'[s]] = len'[s]
                                            ELSE ptr'[s] = NULL
                        /\ ptr'[0] = ptr'[1] => ptr'[0] = NULL
                        /\ open' = {} => cnt' = 0
      BY <1>2 DEF SlotsTell
    <2>1. CASE cnt = 0
      <3>1. ptr[1] = NULL /\ Allocated = {} /\ ~badfree
        BY <2>1 DEF IInv, SlotsTell
      <3>2. ptr'[0] = b /\ ptr'[1] = NULL /\ len'[0] = n /\ memory'[b] = n /\ Allocated' = {b}
        BY <1>1, <1>2, <2>1, <3>1, AllocateTypes
      <3> QED
        BY <1>2, <1>3, <2>1, <3>1, <3>2
    <2>2. CASE cnt = 1
      <3>1. /\ ~badfree /\ ptr[0] \in Allocated /\ memory[ptr[0]] = len[0]
            /\ ptr[1] = NULL
        BY <2>2 DEF IInv, SlotsTell, Slots
      <3>2. Allocated = {ptr[0]}
        BY <3>1, BuffersAssumption DEF IInv, SlotsTell, TypeOK
      <3>3. /\ ptr'[0] = ptr[0] /\ len'[0] = len[0]
            /\ ptr'[1] = b /\ len'[1] = n
        BY <1>1, <1>2, <2>2, AllocateTypes DEF Slots
      <3>4. /\ memory'[ptr[0]] = len[0] /\ memory'[b] = n
            /\ Allocated' = {ptr[0], b} /\ b # ptr[0]
        BY <1>1, <1>2, <3>1, <3>2, AllocateTypes
      <3>5. b # NULL /\ ptr[0] # NULL
        BY <3>1, BuffersAssumption DEF IInv, TypeOK
      <3> QED
        BY <1>2, <1>3, <2>2, <3>1, <3>3, <3>4, <3>5 DEF Slots
    <2> QED
      BY <1>3, <2>1, <2>2
  <1> QED
    BY <1>4, <1>5, <1>6, <1>7 DEF IInv

LEMMA MunmapKeeps ==
  ASSUME IInv, NEW f \in Files, Munmap(f)
  PROVE  IInv'
  <1>1. maps' \subseteq maps
    BY DEF Munmap
  <1>2. TypeOK'
    BY <1>1 DEF IInv, TypeOK, Munmap, Allocated
  <1>3. HeldOpen' /\ OneUser'
    BY <1>1 DEF IInv, HeldOpen, OneUser, Munmap, Allocated
  <1>4. SlotsTell'
    BY DEF IInv, SlotsTell, Munmap, Allocated
  <1> QED
    BY <1>2, <1>3, <1>4 DEF IInv

LEMMA ReleaseKeeps ==
  ASSUME IInv, NEW f \in Files, Release(f)
  PROVE  IInv'
  <1>1. \A m \in maps : m[1] \in open \ {f}
    BY DEF IInv, HeldOpen, Release, Mapped
  <1>2. TypeOK'
    BY DEF IInv, TypeOK, Release, Allocated
  <1>3. HeldOpen'
    BY <1>1 DEF HeldOpen, Release
  <1>4. OneUser'
    <2>1. ASSUME ~shared PROVE maps = {}
      BY <1>1, <2>1 DEF IInv, OneUser, Release
    <2> QED
      BY <2>1 DEF IInv, OneUser, Release
  <1>5. SlotsTell'
    <2> SUFFICES ASSUME ~unmapped
                 PROVE  /\ ~badfree' /\ Allocated' = {} /\ cnt' = 0
                        /\ \A s \in Slots : ptr'[s] = NULL
      BY DEF SlotsTell, Release
    <2>1. \A s \in Slots : ~BadFree(s)
      BY DEF IInv, TypeOK, SlotsTell, BadFree
    <2> QED
      BY <2>1 DEF IInv, SlotsTell, Release, Allocated
  <1> QED
    BY <1>2, <1>3, <1>4, <1>5 DEF IInv

LEMMA NextIInv == IInv /\ [Next]_vars => IInv'
  <1> SUFFICES ASSUME IInv, [Next]_vars PROVE IInv'
    OBVIOUS
  <1>1. CASE UNCHANGED vars
    BY <1>1 DEF vars, IInv, TypeOK, HeldOpen, OneUser, SlotsTell, Allocated
  <1>2. CASE Next
    BY <1>2, OpenKeeps, MunmapKeeps, ReleaseKeeps, TooLongKeeps, NoMemoryKeeps,
       MapFailsKeeps, MmapKeeps DEF Next
  <1> QED
    BY <1>1, <1>2

LEMMA Invariant == Spec => []IInv
  BY InitIInv, NextIInv, PTL DEF Spec

(***************************************************************************)
(* The theorems.                                                           *)
(***************************************************************************)
\* The state is what its declarations say; alloc_cnt never exceeds the two slots.
THEOREM TypeCorrect == Spec => []TypeOK
  <1>1. IInv => TypeOK
    BY DEF IInv
  <1> QED
    BY Invariant, <1>1, PTL

\* With one user at a time neither host_dma_release nor a failing host_dma_mmap
\* takes away what is still mapped, for any number of processes and buffers.
THEOREM MappingsAreBacked == Spec => []MappingsBacked
  <1>1. IInv => MappingsBacked
    BY DEF IInv, OneUser, MappingsBacked
  <1> QED
    BY Invariant, <1>1, PTL

\* With one user at a time a H2H_ZCPY copies between the two buffers of the
\* caller that has two mappings, whatever mmap calls have failed before.
THEOREM CopiesBetweenItsOwn == Spec => []CopiesBetweenOwn
  <1>1. IInv => CopiesBetweenOwn
    <2> SUFFICES ASSUME IInv, ~shared, NEW f \in Files, Cardinality(Mapped(f)) = 2
                 PROVE  Mapped(f) = {handle[0], handle[1]}
      BY DEF CopiesBetweenOwn
    <2> DEFINE H == {handle[0]} \cup {handle[1]}
    <2>1. Mapped(f) \subseteq H
      BY DEF IInv, OneUser, Mapped
    <2>2. IsFiniteSet({handle[0]}) /\ Cardinality({handle[0]}) = 1
      BY FS_Singleton
    <2>3. IsFiniteSet(H) /\ Cardinality(H) \in {1, 2}
      <3>1. /\ IsFiniteSet(H)
            /\ Cardinality(H) = IF handle[1] \in {handle[0]} THEN Cardinality({handle[0]})
                                                         ELSE Cardinality({handle[0]}) + 1
        BY <2>2, FS_AddElement, Zenon
      <3> QED
        BY <2>2, <3>1
    <2>4. Cardinality(Mapped(f)) <= Cardinality(H)
            /\ (Cardinality(H) = Cardinality(Mapped(f)) => H = Mapped(f))
      BY <2>1, <2>3, FS_Subset
    <2> QED
      BY <2>3, <2>4
  <1> QED
    BY Invariant, <1>1, PTL

\* As long as dma_mmap_coherent has not failed, each buffer is freed once and at
\* its own length, and none is left when all files are closed, whoever shares
\* the device.
THEOREM NothingIsLost == Spec => []NothingLost
  <1>1. IInv => NothingLost
    BY DEF IInv, SlotsTell, NothingLost
  <1> QED
    BY Invariant, <1>1, PTL

==============================================================================
