---------------------------- MODULE MemPool_proofs ----------------------------
(***************************************************************************)
(* Proofs about MemPool, for every size of huge page and of device.        *)
(***************************************************************************)
EXTENDS MemPool, FiniteSetTheorems, WellFoundedInduction, TLAPS

USE NumPagesAssumption, PageSizeAssumption, IntPoolsAssumption,
    DevPoolsAssumption, MaxPoolsAssumption, SizesAssumption

(***************************************************************************)
(* Extremal elements of sets of naturals.                                  *)
(***************************************************************************)
\* A non-empty set of naturals has the least element that Min names: the first
\* mem_pool or the first run that a search from the head or the left finds.
LEMMA MinOfNats ==
  ASSUME NEW S \in SUBSET Nat, S # {}
  PROVE  Min(S) \in S /\ \A y \in S : Min(S) <= y
  <1> DEFINE R == OpToRel(<, Nat)
  <1>1. PICK x \in S : \A y \in S : ~ (<<y, x>> \in R)
    BY NatLessThanWellFounded, WFMin, Zenon
  <1>2. \A y \in S : ~ (y < x)
    BY <1>1 DEF OpToRel
  <1>3. \A y \in S : x <= y
    BY <1>2
  <1> QED
    BY <1>3 DEF Min

\* A non-empty set of naturals with an upper bound has the greatest element
\* that Max names: what a search from the tail finds.
LEMMA MaxOfNats ==
  ASSUME NEW N \in Nat, NEW S \in SUBSET (0..N), S # {}
  PROVE  Max(S) \in S /\ \A y \in S : y <= Max(S)
  <1> DEFINE T == {x \in 0..N : N - x \in S}
  <1>1. T \in SUBSET Nat
    OBVIOUS
  <1>a. PICK z \in S : TRUE
    OBVIOUS
  <1>b. z \in 0..N /\ N - z \in 0..N /\ N - (N - z) = z
    OBVIOUS
  <1>c. N - z \in T
    BY <1>b
  <1>2. Min(T) \in T /\ \A y \in T : Min(T) <= y
    BY <1>1, <1>c, MinOfNats
  <1> DEFINE m == N - Min(T)
  <1>3. m \in S
    BY <1>2
  <1>4. ASSUME NEW y \in S PROVE y <= m
    <2>1. y \in 0..N /\ N - y \in 0..N /\ N - (N - y) = y
      OBVIOUS
    <2>2. N - y \in T
      BY <2>1
    <2> QED
      BY <1>2, <2>1, <2>2
  <1> HIDE DEF T
  <1> QED
    BY <1>3, <1>4 DEF Max

(***************************************************************************)
(* Request sizes.                                                          *)
(***************************************************************************)
\* A request of at most a huge page takes between 1 and NUM_PAGES pages.
LEMMA NAllocRange ==
  ASSUME NEW size \in Nat, size <= HugeSize
  PROVE  NAlloc(size) \in 1..NumPages
  <1> DEFINE q == size \div PageSize
             r == size % PageSize
  <1>1. q \in Nat /\ r \in 0..(PageSize - 1) /\ size = PageSize * q + r
    OBVIOUS
  <1>2. q <= NumPages
    BY <1>1 DEF HugeSize
  <1>3. q = NumPages => r = 0
    BY <1>1 DEF HugeSize
  <1> QED
    BY <1>1, <1>2, <1>3 DEF NAlloc

\* A larger request takes a chain of at least two mem_pools.
LEMMA NumHugeRange ==
  ASSUME NEW size \in Nat, size > HugeSize
  PROVE  NumHuge(size) \in Nat /\ NumHuge(size) >= 2
  <1> DEFINE q == size \div HugeSize
             r == size % HugeSize
  <1>0. HugeSize \in Nat \ {0}
    BY DEF HugeSize
  <1>1. q \in Nat /\ r \in 0..(HugeSize - 1) /\ size = HugeSize * q + r
    BY <1>0
  <1>2. q >= 1
    BY <1>0, <1>1
  <1>3. q = 1 => r # 0
    BY <1>0, <1>1
  <1> QED
    BY <1>1, <1>2, <1>3 DEF NumHuge

(***************************************************************************)
(* Type correctness.                                                       *)
(***************************************************************************)
\* The indices _set_bit_vector can return leave room for the run.
LEMMA FoundRange ==
  ASSUME NEW p, NEW n
  PROVE  \A i \in Found(p, n) : i \in Page /\ FreeRun(p, i, n)
  BY DEF Found, FirstRound, SecondRound

LEMMA EndsType ==
  ASSUME NEW how \in {"oom", "fault", "exited"}, Ends(how)
  PROVE  TypeOK'
  BY DEF Ends, TypeOK, Pool, Page, Pools, Uninit

\* Where a successful mpim_malloc of pages puts them.
LEMMA MallocPagesWhere ==
  ASSUME TypeOK, NEW size \in Sizes, MallocPages(size)
  PROVE  LET n == NAlloc(size)
             p == Min(Hits(n))
             i == Min(Found(p, n))
         IN  /\ p \in Pools /\ n <= nfree[p]
             /\ i \in Page /\ FreeRun(p, i, n)
             /\ TakePages(p, i, n)
  <1> DEFINE n == NAlloc(size)
             p == Min(Hits(n))
             i == Min(Found(p, n))
  <1>2. p \in Pools /\ n <= nfree[p] /\ Found(p, n) # {}
    <2>1. Hits(n) \in SUBSET Nat /\ Hits(n) # {}
      BY DEF MallocPages, Hits, Start, TypeOK, Pools
    <2>2. p \in Hits(n)
      BY <2>1, MinOfNats
    <2>3. Start(n) \in Nat \ {0} /\ npools \in Nat
      BY DEF Start, MallocPages, TypeOK, Pools
    <2> HIDE DEF n, p
    <2> QED
      BY <2>2, <2>3 DEF Hits, Pools
  <1>3. i \in Page /\ FreeRun(p, i, n)
    <2>1. Found(p, n) \in SUBSET Nat
      BY FoundRange DEF Page
    <2>2. i \in Found(p, n)
      BY <2>1, <1>2, MinOfNats
    <2> QED
      BY <2>2, FoundRange
  <1>4. TakePages(p, i, n)
    BY DEF MallocPages
  <1> QED
    BY <1>2, <1>3, <1>4

LEMMA MallocPagesType ==
  ASSUME TypeOK, NEW size \in Sizes, MallocPages(size)
  PROVE  TypeOK'
  <1> DEFINE n == NAlloc(size)
             p == Min(Hits(n))
             i == Min(Found(p, n))
  <1>1. n \in 1..NumPages
    BY NAllocRange DEF MallocPages
  <1>2. p \in Pools /\ n <= nfree[p] /\ i \in Page /\ FreeRun(p, i, n) /\ TakePages(p, i, n)
    BY MallocPagesWhere
  <1>3. i \in Page /\ FreeRun(p, i, n)
    BY <1>2
  <1>4. TakePages(p, i, n)
    BY <1>2
  <1> HIDE DEF n, p, i
  <1>5. p \in Pool
    BY <1>2 DEF TypeOK, Pools, Pool
  <1>6. i + n <= NumPages /\ i..(i + n - 1) \subseteq Page
    BY <1>1, <1>3 DEF FreeRun, Page
  <1>7. Small(base[p], i, n) \in [kind : {"small", "chain"}, hp : Int, pg : Page, n : Nat \ {0}]
    BY <1>1, <1>3, <1>5 DEF Small, TypeOK
  <1>8. asize' \in [Pool -> [Page -> 1..NumPages \cup {Uninit}]]
    BY <1>1, <1>3, <1>4, <1>5 DEF TakePages, TypeOK
  <1>9. used' \in [Pool -> SUBSET Page] /\ nfree' \in [Pool -> Int]
    BY <1>1, <1>4, <1>5, <1>6 DEF TakePages, TypeOK
  <1>10. cidx' \in [Pool -> 0..NumPages]
    BY <1>1, <1>3, <1>4, <1>5, <1>6 DEF TakePages, TypeOK, Page
  <1>11. curr' \in Pools' /\ curr' \in 0..MaxPools
    BY <1>2, <1>4 DEF TakePages, TypeOK, Pools
  <1>12. live' \subseteq [kind : {"small", "chain"}, hp : Int, pg : Page, n : Nat \ {0}]
    BY <1>4, <1>7 DEF TakePages, TypeOK
  <1> QED
    BY <1>4, <1>8, <1>9, <1>10, <1>11, <1>12 DEF TakePages, TypeOK

LEMMA MallocNewPoolType ==
  ASSUME TypeOK, NEW size \in Sizes, MallocNewPool(size)
  PROVE  TypeOK'
  <1> DEFINE n == NAlloc(size)
             q == npools + 1
  <1>1. n \in 1..NumPages
    BY NAllocRange DEF MallocNewPool
  <1>2. CASE MmapAborts(1)
    BY <1>2, EndsType DEF MmapAborts
  <1>3. CASE ~MmapAborts(1)
    <2>1. /\ Mmap(1)
          /\ used'  = [used  EXCEPT ![q] = 0..(n - 1)]
          /\ nfree' = [nfree EXCEPT ![q] = NumPages - n]
          /\ cidx'  = [cidx  EXCEPT ![q] = n]
          /\ large' = large \ {q}
          /\ asize' = [asize EXCEPT ![q][0] = n]
          /\ curr'  = q
          /\ live'  = live \cup {Small(total, 0, n)}
      BY <1>3 DEF MallocNewPool
    <2> HIDE DEF n
    <2>2. q \in Pool /\ 0 \in Page /\ 0..(n - 1) \subseteq Page
      BY <1>1, <2>1 DEF Mmap, TypeOK, Pool, Page
    <2>3. AsInt(1) \in Int
      BY DEF AsInt
    <2>4. base' \in [Pool -> Int] /\ total' \in Int
      BY <2>1, <2>3 DEF Mmap, NewBase, TypeOK, Pool
    <2>5. Small(total, 0, n) \in [kind : {"small", "chain"}, hp : Int, pg : Page, n : Nat \ {0}]
      BY <1>1, <2>2 DEF Small, TypeOK
    <2>6. asize' \in [Pool -> [Page -> 1..NumPages \cup {Uninit}]]
      BY <1>1, <2>1, <2>2 DEF TypeOK
    <2>7. used' \in [Pool -> SUBSET Page] /\ nfree' \in [Pool -> Int]
      BY <1>1, <2>1, <2>2 DEF TypeOK
    <2>8. cidx' \in [Pool -> 0..NumPages] /\ large' \subseteq Pool
      BY <1>1, <2>1, <2>2 DEF TypeOK
    <2>9. npools' \in 0..MaxPools /\ curr' \in 0..MaxPools /\ curr' \in Pools'
      BY <2>1 DEF Mmap, TypeOK, Pools
    <2>10. live' \subseteq [kind : {"small", "chain"}, hp : Int, pg : Page, n : Nat \ {0}]
      BY <2>1, <2>5 DEF TypeOK
    <2> QED
      BY <2>1, <2>4, <2>6, <2>7, <2>8, <2>9, <2>10 DEF Mmap, TypeOK
  <1> QED
    BY <1>2, <1>3

LEMMA MarkChainType ==
  ASSUME TypeOK, NEW s \in Int, NEW num \in Int, MarkChain(s, num),
         s..(s + num - 1) \subseteq Pool
  PROVE  nfree' \in [Pool -> Int] /\ large' \subseteq Pool
  BY DEF MarkChain, TypeOK

LEMMA ChainType ==
  ASSUME NEW h \in Int, NEW num \in Nat \ {0}
  PROVE  Chain(h, num) \in [kind : {"small", "chain"}, hp : Int, pg : Page, n : Nat \ {0}]
  BY DEF Chain, Page

LEMMA FreshPoolsType ==
  ASSUME TypeOK, NEW more \in Nat \ {0}, FreshPools(more), npools + more <= MaxPools
  PROVE  /\ used' \in [Pool -> SUBSET Page]
         /\ cidx' \in [Pool -> 0..NumPages]
         /\ asize' \in [Pool -> [Page -> 1..NumPages \cup {Uninit}]]
  <1>1. used' \in [Pool -> SUBSET Page] /\ cidx' \in [Pool -> 0..NumPages]
    BY DEF FreshPools, TypeOK
  <1>2. CASE more > 1
    <2>1. npools + 1 \in Pool /\ 0 \in Page
      BY DEF TypeOK, Pool, Page
    <2> QED
      BY <1>1, <1>2, <2>1 DEF FreshPools, TypeOK
  <1>3. CASE ~(more > 1)
    BY <1>1, <1>3 DEF FreshPools, TypeOK
  <1> QED
    BY <1>1, <1>2, <1>3

LEMMA MmapType ==
  ASSUME TypeOK, NEW more \in Nat, Mmap(more)
  PROVE  /\ base' \in [Pool -> Int] /\ total' \in Int
         /\ npools' \in 0..MaxPools /\ npools' = npools + more /\ status' = status
         /\ npools + more <= MaxPools
  <1>1. AsInt(more) \in Int
    BY DEF AsInt
  <1>2. total' \in Int /\ npools' \in 0..MaxPools
    BY <1>1 DEF Mmap, TypeOK
  <1>3. base' \in [Pool -> Int]
    BY DEF Mmap, NewBase, TypeOK, Pool
  <1> QED
    BY <1>2, <1>3 DEF Mmap

\* Where the searches for a chain may put it.
LEMMA FreeChainsMax ==
  ASSUME TypeOK, NEW num, FreeChains(num) # {}
  PROVE  Max(FreeChains(num)) \in FreeChains(num)
  <1>1. FreeChains(num) \in SUBSET (0..MaxPools) /\ MaxPools \in Nat
    BY DEF FreeChains, Pools, TypeOK
  <1> QED
    BY <1>1, MaxOfNats

LEMMA TailRunMin ==
  ASSUME TypeOK, TailRun # {}
  PROVE  Min(TailRun) \in TailRun
  <1>1. TailRun \in SUBSET Nat
    BY DEF TailRun, Pools, TypeOK
  <1> QED
    BY <1>1, MinOfNats

\* If no free chain of num exists the free end of the list is shorter than num.
LEMMA MoreNeeded ==
  ASSUME TypeOK, NEW num \in Nat, FreeChains(num) = {}, NEW s \in TailRun, num >= 1
  PROVE  s \in Pools /\ num - (npools - s + 1) \in Nat \ {0}
  <1>1. s \in Pools /\ npools \in Nat
    BY DEF TailRun, TypeOK
  <1>2. s + num - 1 <= npools => s \in FreeChains(num)
    BY <1>1 DEF TailRun, FreeChains, Pools
  <1> QED
    BY <1>1, <1>2 DEF Pools

LEMMA MallocChainType ==
  ASSUME TypeOK, NEW size \in Sizes, MallocChain(size)
  PROVE  TypeOK'
  <1> DEFINE num == NumHuge(size)
             s == Max(FreeChains(num))
  <1>1. num \in Nat \ {0}
    BY NumHugeRange DEF MallocChain
  <1>2. FreeChains(num) # {} /\ MarkChain(s, num) /\ live' = live \cup {Chain(base[s], num)}
        /\ UNCHANGED <<npools, base, used, cidx, asize, total, status>>
    BY DEF MallocChain
  <1> HIDE DEF num
  <1>3. s \in FreeChains(num)
    BY <1>2, FreeChainsMax
  <1> HIDE DEF s
  <1>4. s \in Pools /\ s \in Pool
    BY <1>3 DEF FreeChains, Pools, Pool, TypeOK
  <1>5. Chain(base[s], num) \in [kind : {"small", "chain"}, hp : Int, pg : Page, n : Nat \ {0}]
    BY <1>1, <1>4, ChainType DEF TypeOK
  <1>6. curr' = s /\ s..(s + num - 1) \subseteq Pool
    BY <1>1, <1>2, <1>3 DEF MarkChain, FreeChains, Pools, Pool, TypeOK
  <1>7. nfree' \in [Pool -> Int] /\ large' \subseteq Pool
    BY <1>1, <1>2, <1>4, <1>6, MarkChainType DEF Pool
  <1>8. curr' \in Pools' /\ curr' \in 0..MaxPools
    BY <1>2, <1>4, <1>6 DEF Pools, Pool
  <1>9. live' \subseteq [kind : {"small", "chain"}, hp : Int, pg : Page, n : Nat \ {0}]
    BY <1>2, <1>5 DEF TypeOK
  <1> QED
    BY <1>2, <1>7, <1>8, <1>9 DEF TypeOK

LEMMA MallocExtendType ==
  ASSUME TypeOK, NEW size \in Sizes, MallocExtend(size)
  PROVE  TypeOK'
  <1> DEFINE num == NumHuge(size)
             s == Min(TailRun)
             more == num - (npools - s + 1)
  <1>1. num \in Nat /\ num >= 1
    BY NumHugeRange DEF MallocExtend
  <1>2. FreeChains(num) = {} /\ TailRun # {} /\ status = "up"
    BY DEF MallocExtend
  <1>3. s \in TailRun
    BY <1>2, TailRunMin
  <1>4. \/ MmapAborts(more)
        \/ /\ Mmap(more)
           /\ FreshPools(more)
           /\ MarkChain(s, num)
           /\ live' = live \cup {Chain(base[s], num)}
    BY DEF MallocExtend
  <1>5. s \in Pools /\ more \in Nat \ {0}
    BY <1>1, <1>2, <1>3, MoreNeeded
  <1> HIDE DEF num, s, more
  <1>6. CASE MmapAborts(more)
    BY <1>6, EndsType DEF MmapAborts
  <1>7. CASE Mmap(more) /\ FreshPools(more) /\ MarkChain(s, num)
             /\ live' = live \cup {Chain(base[s], num)}
    <2>1. s \in Pool
      BY <1>5 DEF Pools, Pool, TypeOK
    <2>2. Chain(base[s], num) \in [kind : {"small", "chain"}, hp : Int, pg : Page, n : Nat \ {0}]
      BY <1>1, <2>1, ChainType DEF TypeOK
    <2>3. curr' = s
      BY <1>7 DEF MarkChain
    <2>4. s \in Pools'
      BY <1>5, <1>7, MmapType DEF Pools, TypeOK
    <2>5. live' \subseteq [kind : {"small", "chain"}, hp : Int, pg : Page, n : Nat \ {0}]
      BY <1>7, <2>2 DEF TypeOK
    <2>6. curr' \in 0..MaxPools
      BY <2>1, <2>3 DEF Pool
    <2>7. s..(s + num - 1) \subseteq Pool /\ npools + more <= MaxPools
      BY <1>1, <1>5, <1>7 DEF Mmap, Pools, Pool, TypeOK, more
    <2>8. nfree' \in [Pool -> Int] /\ large' \subseteq Pool
      BY <1>1, <1>7, <2>1, <2>7, MarkChainType DEF Pool
    <2> QED
      BY <1>5, <1>7, <2>3, <2>4, <2>5, <2>6, <2>7, <2>8, MmapType, FreshPoolsType DEF TypeOK
  <1> QED
    BY <1>4, <1>6, <1>7

LEMMA MallocFreshType ==
  ASSUME TypeOK, NEW size \in Sizes, MallocFresh(size)
  PROVE  TypeOK'
  <1> DEFINE num == NumHuge(size)
  <1>1. num \in Nat \ {0}
    BY NumHugeRange DEF MallocFresh
  <1>4. \/ MmapAborts(num)
        \/ /\ Mmap(num)
           /\ FreshPools(num)
           /\ MarkChain(npools + 1, num)
           /\ live' = live \cup {Chain(total, num)}
    BY DEF MallocFresh
  <1> HIDE DEF num
  <1>6. CASE MmapAborts(num)
    BY <1>6, EndsType DEF MmapAborts
  <1>7. CASE Mmap(num) /\ FreshPools(num) /\ MarkChain(npools + 1, num)
             /\ live' = live \cup {Chain(total, num)}
    <2>2. Chain(total, num) \in [kind : {"small", "chain"}, hp : Int, pg : Page, n : Nat \ {0}]
      BY <1>1, ChainType DEF TypeOK
    <2>3. curr' = npools + 1
      BY <1>7 DEF MarkChain
    <2>4. curr' \in Pools' /\ curr' \in 0..MaxPools
      BY <1>1, <1>7, <2>3, MmapType DEF Pools, TypeOK
    <2>5. live' \subseteq [kind : {"small", "chain"}, hp : Int, pg : Page, n : Nat \ {0}]
      BY <1>7, <2>2 DEF TypeOK
    <2>7. npools \in Nat /\ npools + num <= MaxPools
          /\ (npools + 1)..(npools + 1 + num - 1) \subseteq Pool
      BY <1>1, <1>7 DEF Mmap, Pool, TypeOK
    <2>8. nfree' \in [Pool -> Int] /\ large' \subseteq Pool
      BY <1>1, <1>7, <2>7, MarkChainType
    <2> QED
      BY <1>1, <1>7, <2>4, <2>5, <2>7, <2>8, MmapType, FreshPoolsType DEF TypeOK
  <1> QED
    BY <1>4, <1>6, <1>7

LEMMA FreeType ==
  ASSUME TypeOK, NEW e \in live, Free(e)
  PROVE  TypeOK'
  <1>1. CASE FreeFaults(e.hp, e.pg) /\ Ends("fault")
    BY <1>1, EndsType
  <1>2. CASE /\ ~FreeFaults(e.hp, e.pg)
             /\ LET p == Min(Holders(e.hp)) IN FreeChain(p) \/ FreePages(p, e.pg)
             /\ live' = live \ {e}
             /\ UNCHANGED <<npools, base, asize, curr, total, status>>
    <2> DEFINE p == Min(Holders(e.hp))
    <2>1. p \in Holders(e.hp)
      <3>1. Holders(e.hp) \in SUBSET Nat /\ Holders(e.hp) # {}
        BY <1>2 DEF Holders, Pools, TypeOK, FreeFaults
      <3> QED
        BY <3>1, MinOfNats
    <2>2. p \in Pool
      BY <2>1 DEF Holders, Pools, Pool, TypeOK
    <2>3. e.pg \in Page
      BY DEF TypeOK
    <2>4. ~(p \notin large /\ asize[p][e.pg] <= 0)
      BY <1>2 DEF FreeFaults
    <2>5. FreeChain(p) \/ FreePages(p, e.pg)
      BY <1>2
    <2> HIDE DEF p
    <2>6. CASE FreeChain(p)
      BY <1>2, <2>6 DEF FreeChain, TypeOK, Pools
    <2>7. CASE FreePages(p, e.pg)
      <3>1. asize[p][e.pg] \in 1..NumPages
        BY <2>2, <2>3, <2>4, <2>7 DEF FreePages, TypeOK, Uninit
      <3>2. used' \in [Pool -> SUBSET Page] /\ nfree' \in [Pool -> Int]
        BY <2>2, <2>3, <2>7, <3>1 DEF FreePages, TypeOK
      <3>3. cidx' \in [Pool -> 0..NumPages]
        BY <2>2, <2>3, <2>7 DEF FreePages, TypeOK, Page
      <3> QED
        BY <1>2, <2>7, <3>2, <3>3 DEF FreePages, TypeOK, Pools
    <2> QED
      BY <2>5, <2>6, <2>7
  <1> QED
    BY <1>1, <1>2 DEF Free

LEMMA InitType == Init => TypeOK
  BY DEF Init, TypeOK, Pool, Page, Pools, Uninit

LEMMA StepType == TypeOK /\ [Next]_vars => TypeOK'
  <1> SUFFICES ASSUME TypeOK, [Next]_vars PROVE TypeOK'
    OBVIOUS
  <1>1. ASSUME NEW size \in Sizes, Malloc(size) PROVE TypeOK'
    BY <1>1, MallocPagesType, MallocNewPoolType, MallocChainType, MallocExtendType,
       MallocFreshType DEF Malloc
  <1>2. ASSUME NEW e \in live, Free(e) PROVE TypeOK'
    BY <1>2, FreeType
  <1>3. CASE Exit
    BY <1>3, EndsType DEF Exit
  <1>4. CASE UNCHANGED vars
    BY <1>4 DEF vars, bookVars, TypeOK, Pools
  <1> QED
    BY <1>1, <1>2, <1>3, <1>4 DEF Next

\* Whatever the requests and frees, the allocator's state stays well-formed:
\* no index leaves a bit vector, no count leaves its range and curr_mem_pool is
\* a mem_pool of the list.
THEOREM TypeCorrect == Spec => []TypeOK
  <1>1. QED
    BY InitType, StepType, PTL DEF Spec

(***************************************************************************)
(* Counting pages.                                                         *)
(***************************************************************************)
LEMMA PageSets ==
  ASSUME NEW S \in SUBSET Page
  PROVE  /\ IsFiniteSet(S) /\ Cardinality(S) \in 0..NumPages
         /\ Cardinality(S) = 0 <=> S = {}
  <1>1. IsFiniteSet(Page) /\ Cardinality(Page) = NumPages
    BY FS_Interval DEF Page
  <1>2. IsFiniteSet(S) /\ Cardinality(S) <= NumPages
    BY <1>1, FS_Subset
  <1>3. Cardinality(S) \in Nat
    BY <1>2, FS_CardinalityType
  <1>4. Cardinality(S) = 0 <=> S = {}
    BY <1>2, FS_EmptySet
  <1> QED
    BY <1>2, <1>3, <1>4

LEMMA RunCard ==
  ASSUME NEW i \in Int, NEW n \in Nat
  PROVE  IsFiniteSet(i..(i + n - 1)) /\ Cardinality(i..(i + n - 1)) = n
  <1>1. IsFiniteSet(i..(i + n - 1))
        /\ Cardinality(i..(i + n - 1)) = IF i > i + n - 1 THEN 0 ELSE i + n - 1 - i + 1
    BY FS_Interval
  <1> QED
    BY <1>1

\* Setting the n bits of a free run raises the number of set bits by n.
LEMMA CardAdd ==
  ASSUME NEW S \in SUBSET Page, NEW i \in Int, NEW n \in Nat,
         S \cap i..(i + n - 1) = {}
  PROVE  Cardinality(S \cup i..(i + n - 1)) = Cardinality(S) + n
  <1>1. Cardinality(S \cap i..(i + n - 1)) = 0
    BY FS_EmptySet
  <1>2. Cardinality(S \cup i..(i + n - 1))
          = Cardinality(S) + Cardinality(i..(i + n - 1)) - Cardinality(S \cap i..(i + n - 1))
    BY PageSets, RunCard, FS_Union
  <1> QED
    BY <1>1, <1>2, PageSets, RunCard

\* Clearing a run that is set lowers it by n.
LEMMA CardCut ==
  ASSUME NEW S \in SUBSET Page, NEW i \in Int, NEW n \in Nat,
         i..(i + n - 1) \subseteq S
  PROVE  Cardinality(S \ i..(i + n - 1)) = Cardinality(S) - n
  <1>1. S \cap i..(i + n - 1) = i..(i + n - 1)
    OBVIOUS
  <1>2. IsFiniteSet(S) /\ Cardinality(S) \in Nat
    BY PageSets
  <1>3. Cardinality(S \ i..(i + n - 1)) = Cardinality(S) - Cardinality(S \cap i..(i + n - 1))
    BY <1>2, FS_Difference
  <1> QED
    BY <1>1, <1>2, <1>3, RunCard

(***************************************************************************)
(* The safety invariant, when no request wraps the driver's `int size'.    *)
(***************************************************************************)
LEMMA AsIntExact ==
  ASSUME NEW k \in Nat, k < IntPools \div 2
  PROVE  AsInt(k) = k
  <1>1. k % IntPools = k /\ IntPools \div 2 <= IntPools
    OBVIOUS
  <1> QED
    BY <1>1 DEF AsInt

\* A live chain and another allocation never meet in a mem_pool.
LEMMA OwnerAlone ==
  ASSUME TypeOK, AllApart, NEW e \in live, NEW f \in live, NEW p \in Int,
         Owns(e, p), f.hp < p, p <= f.hp + Span(f)
  PROVE  f = e
  <1>1. e \in [kind : {"small", "chain"}, hp : Int, pg : Page, n : Nat \ {0}]
        /\ f \in [kind : {"small", "chain"}, hp : Int, pg : Page, n : Nat \ {0}]
    BY DEF TypeOK
  <1>2. Span(e) = e.n /\ e.kind # "small" /\ Span(f) \in Nat
    BY <1>1 DEF Owns, Span
  <1>3. ~Apart(e, f)
    BY <1>1, <1>2 DEF Owns, Apart
  <1> QED
    BY <1>3 DEF AllApart

\* A mem_pool that reads NUM_PAGES free belongs to no chain and has clear bits;
\* one that reads any free page belongs to no chain.
LEMMA FreePool ==
  ASSUME TypeOK, UpInv, NEW p \in Pools
  PROVE  /\ nfree[p] > 0 => ~ \E e \in live : Owns(e, p)
         /\ AllFree(p) => used[p] = {}
  <1>1. used[p] \in SUBSET Page
    BY DEF TypeOK, Pools, Pool
  <1> QED
    BY <1>1, PageSets DEF UpInv, CountsExact, AllFree

HoldsSome(e, p) == e.kind = "small" /\ e.hp = p - 1

LEMMA MallocPagesInv ==
  ASSUME TypeOK, TypeOK', UpInv, NEW size \in Sizes, MallocPages(size)
  PROVE  UpInv'
  <1> DEFINE n == NAlloc(size)
             p == Min(Hits(n))
             i == Min(Found(p, n))
  <1>1. n \in 1..NumPages
    BY NAllocRange DEF MallocPages
  <1>2. p \in Pools /\ n <= nfree[p] /\ i \in Page /\ FreeRun(p, i, n) /\ TakePages(p, i, n)
    BY MallocPagesWhere
  <1> DEFINE new == Small(base[p], i, n)
  <1> HIDE DEF n, p, i
  <1>3. p \in Pool /\ p \in Int /\ base[p] = p - 1 /\ npools \in Nat /\ p <= npools /\ p >= 1
    BY <1>2 DEF Pools, Pool, TypeOK, UpInv, Linear
  <1>4. new = [kind |-> "small", hp |-> p - 1, pg |-> i, n |-> n]
    BY <1>3 DEF Small
  <1> HIDE DEF new
  <1>5. live' = live \cup {new} /\ UNCHANGED <<npools, base, large, total, status>>
    BY <1>2 DEF TakePages, new
  <1>6. i + n <= NumPages /\ \A k \in i..(i + n - 1) : k \in Page /\ k \notin used[p]
    BY <1>1, <1>2 DEF FreeRun, Page
  <1>7. \A e \in live : ~Owns(e, p)
    BY <1>1, <1>2, <1>3, FreePool DEF TypeOK
  <1>8. \A e \in live : e \in [kind : {"small", "chain"}, hp : Int, pg : Page, n : Nat \ {0}]
    BY DEF TypeOK
  <1>9. \A e \in live, k \in i..(i + n - 1) : ~HoldsPage(e, p, k)
    BY <1>2, <1>6 DEF UpInv, BitsExact
  <1>10. Linear'
    BY <1>5 DEF UpInv, Linear, Pools
  <1>11. LiveShape'
    <2>1. ASSUME NEW e \in live, e.kind = "small"
          PROVE  asize'[e.hp + 1][e.pg] = asize[e.hp + 1][e.pg]
      <3>1. e.hp + 1 = p => e.pg # i
        BY <1>1, <1>2, <1>3, <1>8, <1>9, <2>1 DEF HoldsPage, Page
      <3> QED
        BY <1>2, <1>3, <1>8, <3>1 DEF TakePages, TypeOK
    <2>2. asize'[p][i] = n
      BY <1>2, <1>3 DEF TakePages, TypeOK
    <2>3. Span(new) = 1 /\ new.hp = p - 1 /\ new.pg = i /\ new.n = n /\ new.kind = "small"
      BY <1>4 DEF Span
    <2>4. ASSUME NEW e \in live
          PROVE  /\ e.hp >= 0 /\ e.hp + Span(e) <= npools'
                 /\ e.kind = "small" => e.pg + e.n <= NumPages /\ asize'[e.hp + 1][e.pg] = e.n
                 /\ e.kind = "chain" => e.pg = 0 /\ e.n >= 2
      BY <1>5, <2>1 DEF UpInv, LiveShape
    <2>5. /\ new.hp >= 0 /\ new.hp + Span(new) <= npools'
          /\ new.pg + new.n <= NumPages /\ asize'[new.hp + 1][new.pg] = new.n
      BY <1>3, <1>5, <1>6, <2>2, <2>3
    <2> QED
      BY <1>5, <2>3, <2>4, <2>5 DEF LiveShape
  <1>12. AllApart'
    <2>1. ASSUME NEW e \in live, e # new PROVE Apart(e, new) /\ Apart(new, e)
      <3>1. CASE e.kind = "chain"
        BY <1>3, <1>4, <1>7, <1>8, <3>1 DEF Owns, Apart, Span
      <3>2. CASE e.kind = "small" /\ e.hp # p - 1
        BY <1>3, <1>4, <1>8, <3>2 DEF Apart, Span
      <3>3. CASE e.kind = "small" /\ e.hp = p - 1
        <4>1. e.pg \in i..(i + n - 1) => HoldsPage(e, p, e.pg)
          BY <1>8, <3>3 DEF HoldsPage, Page
        <4>2. (e.pg <= i /\ i < e.pg + e.n) => HoldsPage(e, p, i)
          BY <3>3 DEF HoldsPage
        <4>3. i \in i..(i + n - 1)
          BY <1>1, <1>2 DEF Page
        <4>4. e.pg + e.n <= i \/ i + n <= e.pg
          BY <1>1, <1>2, <1>8, <1>9, <4>1, <4>2, <4>3 DEF Page
        <4> QED
          BY <1>4, <3>3, <4>4 DEF Apart
      <3> QED
        BY <1>8, <3>1, <3>2, <3>3
    <2> QED
      BY <1>5, <2>1 DEF AllApart, UpInv
  <1>13. BitsExact'
    <2>1. \A k \in Page : HoldsPage(new, p, k) <=> k \in i..(i + n - 1)
      BY <1>1, <1>2, <1>4 DEF HoldsPage, Page
    <2>2. \A q \in Pools, k \in Page : q # p => ~HoldsPage(new, q, k)
      BY <1>3, <1>4 DEF HoldsPage, Pools
    <2>3. used'[p] = used[p] \cup i..(i + n - 1) /\ \A q \in Pools : q # p => used'[q] = used[q]
      BY <1>2, <1>3 DEF TakePages, TypeOK, Pools, Pool
    <2>4. Pools' = Pools
      BY <1>5 DEF Pools
    <2> QED
      BY <1>2, <1>5, <2>1, <2>2, <2>3, <2>4 DEF BitsExact, UpInv
  <1>14. \A q : (\E e \in live' : Owns(e, q)) <=> (\E e \in live : Owns(e, q))
    BY <1>4, <1>5 DEF Owns
  <1>15. CountsExact'
    <2>1. used[p] \cap i..(i + n - 1) = {} /\ used[p] \in SUBSET Page
      BY <1>3, <1>6 DEF TypeOK
    <2>a. used'[p] = used[p] \cup i..(i + n - 1) /\ nfree'[p] = nfree[p] - n
      BY <1>2, <1>3 DEF TakePages, TypeOK
    <2>b. n \in Nat /\ i \in Int
      BY <1>1, <1>2 DEF Page
    <2>2. Cardinality(used'[p]) = Cardinality(used[p]) + n
      <3>1. Cardinality(used[p] \cup i..(i + n - 1)) = Cardinality(used[p]) + n
        BY <2>1, <2>b, CardAdd, Zenon
      <3> QED
        BY <2>a, <3>1
    <2>3. nfree'[p] = NumPages - Cardinality(used'[p])
      BY <1>1, <1>2, <1>7, <2>1, <2>2, <2>a, PageSets DEF UpInv, CountsExact
    <2>4. \A q \in Pools : q # p => used'[q] = used[q] /\ nfree'[q] = nfree[q]
      BY <1>2, <1>3 DEF TakePages, TypeOK, Pools, Pool
    <2>5. Pools' = Pools
      BY <1>5 DEF Pools
    <2> QED
      BY <1>2, <1>7, <1>14, <2>3, <2>4, <2>5 DEF CountsExact, UpInv
  <1>16. MarksExact'
    BY <1>4, <1>5 DEF MarksExact, UpInv, Pools, Owns
  <1> QED
    BY <1>10, <1>11, <1>12, <1>13, <1>15, <1>16 DEF UpInv

LEMMA MallocNewPoolInv ==
  ASSUME TypeOK, TypeOK', UpInv, NEW size \in Sizes, MallocNewPool(size), status' = "up"
  PROVE  UpInv'
  <1> DEFINE n == NAlloc(size)
             q == npools + 1
             new == Small(total, 0, n)
  <1>1. n \in 1..NumPages
    BY NAllocRange DEF MallocNewPool
  <1>2. /\ Mmap(1)
        /\ used'  = [used  EXCEPT ![q] = 0..(n - 1)]
        /\ nfree' = [nfree EXCEPT ![q] = NumPages - n]
        /\ large' = large \ {q}
        /\ asize' = [asize EXCEPT ![q][0] = n]
        /\ live'  = live \cup {new}
    BY DEF MallocNewPool, MmapAborts, Ends
  <1> HIDE DEF n
  <1>3. npools \in Nat /\ npools' = q /\ q \in Pool /\ 0 \in Page /\ total = npools
    BY <1>2 DEF Mmap, TypeOK, Pool, Page, UpInv, Linear
  <1>4. new = [kind |-> "small", hp |-> npools, pg |-> 0, n |-> n] /\ Span(new) = 1
    BY <1>3 DEF Small, Span
  <1> HIDE DEF new
  <1>5. \A e \in live : /\ e \in [kind : {"small", "chain"}, hp : Int, pg : Page, n : Nat \ {0}]
                        /\ e.hp >= 0 /\ e.hp + Span(e) <= npools
    BY DEF TypeOK, UpInv, LiveShape
  <1>6. \A p \in Pools' : p \in Pools \/ p = q
    BY <1>3 DEF Pools
  <1>7. \A p \in Pools : /\ p \in Int /\ p # q /\ p <= npools /\ p >= 1 /\ used'[p] = used[p]
                         /\ nfree'[p] = nfree[p] /\ (p \in large' <=> p \in large)
                         /\ ~HoldsSome(new, p)
    BY <1>2, <1>3, <1>4 DEF Pools, TypeOK, HoldsSome
  <1>8. \A e \in live : ~HoldsSome(e, q)
    BY <1>3, <1>5 DEF HoldsSome, Span
  <1>9. q \in Pools'
    BY <1>3 DEF Pools
  <1>10. Linear'
    <2>1. AsInt(1) = 1
      BY AsIntExact
    <2>2. npools + 1 <= DevPools /\ total' = npools + 1
      BY <1>2, <1>3, <2>1 DEF Mmap, Oom, UpInv, Linear
    <2>3. \A p \in Pools' : base'[p] = p - 1
      <3>1. \A p \in Pool : base'[p] = IF p = q THEN npools ELSE base[p]
        BY <1>2, <1>3 DEF Mmap, NewBase, Pool
      <3>2. \A p \in Pools : p \in Pool
        BY DEF Pools, Pool, TypeOK
      <3>3. \A p \in Pools : base[p] = p - 1
        BY DEF UpInv, Linear
      <3>4. base'[q] = q - 1
        BY <1>3, <3>1
      <3> QED
        BY <1>6, <1>7, <3>1, <3>2, <3>3, <3>4, Zenon
    <2> QED
      BY <1>3, <2>2, <2>3 DEF Linear
  <1>11. LiveShape'
    <2>1. ASSUME NEW e \in live
          PROVE  /\ e.hp >= 0 /\ e.hp + Span(e) <= npools'
                 /\ e.kind = "small" => e.pg + e.n <= NumPages /\ asize'[e.hp + 1][e.pg] = e.n
                 /\ e.kind = "chain" => e.pg = 0 /\ e.n >= 2
      <3>1. e.kind = "small" => e.hp + 1 # q
        BY <1>3, <1>5 DEF Span
      <3>2. e.hp + Span(e) <= npools'
        BY <1>3, <1>5 DEF Span
      <3> QED
        BY <1>2, <1>3, <1>5, <3>1, <3>2 DEF UpInv, LiveShape, TypeOK
    <2>2. asize'[q][0] = n
      BY <1>2, <1>3 DEF TypeOK
    <2>3. /\ new.hp >= 0 /\ new.hp + Span(new) <= npools' /\ new.kind = "small"
          /\ new.pg + new.n <= NumPages /\ asize'[new.hp + 1][new.pg] = new.n
      BY <1>1, <1>3, <1>4, <2>2
    <2> QED
      BY <1>2, <2>1, <2>3 DEF LiveShape
  <1>12. AllApart'
    <2>1. \A e \in live : Apart(e, new) /\ Apart(new, e)
      BY <1>4, <1>5 DEF Apart
    <2> QED
      BY <1>2, <2>1 DEF AllApart, UpInv
  <1>13. BitsExact'
    <2>1. \A k \in Page : HoldsPage(new, q, k) <=> k \in 0..(n - 1)
      BY <1>1, <1>3, <1>4 DEF HoldsPage, Page
    <2>2. used'[q] = 0..(n - 1)
      BY <1>2, <1>3 DEF TypeOK
    <2>3. \A e, p, k : HoldsPage(e, p, k) => HoldsSome(e, p)
      BY DEF HoldsPage, HoldsSome
    <2>4. \A p \in Pools, k \in Page : k \in used'[p] <=> \E e \in live' : HoldsPage(e, p, k)
      BY <1>2, <1>7, <2>3 DEF BitsExact, UpInv
    <2>5. \A k \in Page : k \in used'[q] <=> \E e \in live' : HoldsPage(e, q, k)
      BY <1>2, <1>8, <2>1, <2>2, <2>3
    <2> QED
      BY <1>6, <2>4, <2>5 DEF BitsExact
  <1>14. \A p : ~Owns(new, p)
    BY <1>4 DEF Owns
  <1>15. \A e \in live : ~Owns(e, q)
    BY <1>3, <1>5 DEF Owns, Span
  <1>16. CountsExact'
    <2>1. used'[q] = 0..(n - 1) /\ nfree'[q] = NumPages - n
      BY <1>2, <1>3 DEF TypeOK
    <2>2. Cardinality(0..(n - 1)) = n
      BY <1>1, RunCard
    <2> QED
      BY <1>2, <1>6, <1>7, <1>14, <1>15, <2>1, <2>2 DEF CountsExact, UpInv
  <1>17. MarksExact'
    BY <1>2, <1>6, <1>7, <1>14, <1>15 DEF MarksExact, UpInv
  <1> QED
    BY <1>10, <1>11, <1>12, <1>13, <1>16, <1>17 DEF UpInv

\* Marking num neighbouring mem_pools that are free or new, when nothing else
\* about the others changes, hands out one more chain and keeps the books.
LEMMA ClaimInv ==
  ASSUME TypeOK, TypeOK', UpInv,
         NEW s \in Nat \ {0}, NEW num \in Nat, num >= 2,
         MarkChain(s, num), live' = live \cup {Chain(s - 1, num)},
         Linear', npools <= npools', s <= npools + 1, s + num - 1 <= npools',
         npools < npools' => s + num - 1 = npools',
         \A p \in Pools : s <= p /\ p <= s + num - 1 => AllFree(p),
         \A p \in Pools : used'[p] = used[p] /\ asize'[p] = asize[p],
         \A p \in Pools' : p > npools => used'[p] = {}
  PROVE  UpInv'
  <1> DEFINE new == Chain(s - 1, num)
             last == s + num - 1
             In(p) == s <= p /\ p <= last
  <1>1. npools \in Nat /\ npools' \in Nat /\ last \in Nat /\ s <= last
    BY DEF TypeOK
  <1>2. /\ new.kind = "chain" /\ new.hp = s - 1 /\ new.pg = 0 /\ new.n = num
        /\ Span(new) = num
    BY DEF Chain, Span
  <1>3. live' = live \cup {new}
    OBVIOUS
  <1> HIDE DEF new
  <1>4. \A e \in live : /\ e \in [kind : {"small", "chain"}, hp : Int, pg : Page, n : Nat \ {0}]
                        /\ e.hp >= 0 /\ e.hp + Span(e) <= npools
                        /\ Span(e) \in Nat /\ Span(e) >= 1
    <2>1. \A e \in live : e \in [kind : {"small", "chain"}, hp : Int, pg : Page, n : Nat \ {0}]
      BY DEF TypeOK
    <2>2. \A e \in live : e.hp >= 0 /\ e.hp + Span(e) <= npools
      BY DEF UpInv, LiveShape
    <2>3. \A e \in live : Span(e) \in Nat /\ Span(e) >= 1
      BY <2>1 DEF Span
    <2> QED
      BY <2>1, <2>2, <2>3
  <1>5. \A p \in Pools' : p \in Int /\ p >= 1 /\ p <= npools' /\ (p \in Pools \/ (p > npools /\ In(p)))
    BY <1>1 DEF Pools
  <1>6. \A p \in Pools : p \in Int /\ p >= 1 /\ p <= npools /\ p \in Pools' /\ p \in Pool
    <2>1. npools <= MaxPools
      BY DEF TypeOK
    <2>2. \A p \in Pools : p \in Int /\ p >= 1 /\ p <= npools
      BY <1>1 DEF Pools
    <2>3. \A p \in Pools : p \in Pools' /\ p \in Pool
      BY <1>1, <2>1, <2>2 DEF Pools, Pool
    <2> QED
      BY <2>2, <2>3, Zenon
  <1>7. \A p \in Pools' : In(p) => used'[p] = {}
    BY <1>5, FreePool
  \* No live allocation lies in a claimed mem_pool.
  <1>8. \A e \in live, p \in Pools' : In(p) => ~(e.hp < p /\ p <= e.hp + Span(e))
    <2> SUFFICES ASSUME NEW e \in live, NEW p \in Pools', In(p), e.hp < p, p <= e.hp + Span(e)
                 PROVE  FALSE
      OBVIOUS
    <2>1. p \in Pools /\ AllFree(p) /\ used[p] = {}
      BY <1>1, <1>4, <1>5, FreePool
    <2>2. e.kind # "chain"
      <3>1. nfree[p] > 0
        BY <2>1 DEF AllFree
      <3> QED
        BY <2>1, <3>1, FreePool DEF Owns, Span
    <2>3. e.kind = "small" /\ e.hp = p - 1
      BY <1>4, <1>5, <2>2 DEF Span
    <2>4. HoldsPage(e, p, e.pg) /\ e.pg \in Page
      BY <1>4, <2>3 DEF HoldsPage, Page
    <2> QED
      BY <2>1, <2>4 DEF UpInv, BitsExact
  <1>9. \A p \in Pools' : In(p) <=> Owns(new, p)
    BY <1>1, <1>2, <1>5 DEF Owns
  <1>10. \A e, p : Owns(e, p) => e.hp < p /\ p <= e.hp + Span(e)
    BY DEF Owns, Span
  <1>11. LiveShape'
    <2>1. ASSUME NEW e \in live
          PROVE  /\ e.hp >= 0 /\ e.hp + Span(e) <= npools'
                 /\ e.kind = "small" => e.pg + e.n <= NumPages /\ asize'[e.hp + 1][e.pg] = e.n
                 /\ e.kind = "chain" => e.pg = 0 /\ e.n >= 2
      <3>1. e.kind = "small" => e.hp + 1 \in Pools
        BY <1>1, <1>4 DEF Pools, Span
      <3>2. e.hp + Span(e) <= npools'
        BY <1>1, <1>4
      <3> QED
        BY <1>4, <3>1, <3>2 DEF UpInv, LiveShape
    <2> QED
      BY <1>1, <1>2, <1>3, <2>1 DEF LiveShape
  <1>12. AllApart'
    <2>1. ASSUME NEW e \in live PROVE Apart(e, new) /\ Apart(new, e)
      <3>1. e.hp + Span(e) <= s - 1 \/ last <= e.hp
        <4> SUFFICES ASSUME e.hp + Span(e) > s - 1, last > e.hp PROVE FALSE
          BY <1>1, <1>4
        <4> DEFINE p == IF e.hp + 1 >= s THEN e.hp + 1 ELSE s
        <4>1. p \in Pools' /\ In(p) /\ e.hp < p /\ p <= e.hp + Span(e)
          BY <1>1, <1>4 DEF Pools
        <4> QED
          BY <1>8, <4>1
      <3> QED
        BY <1>1, <1>2, <1>4, <3>1 DEF Apart
    <2> QED
      BY <1>3, <2>1 DEF AllApart, UpInv
  <1>13. BitsExact'
    <2>1. \A e, p, i : HoldsPage(e, p, i) => e.kind = "small" /\ e.hp = p - 1
      BY DEF HoldsPage
    <2>2. \A p \in Pools', i \in Page : ~HoldsPage(new, p, i)
      BY <1>2, <2>1
    <2>3. \A e \in live, p \in Pools', i \in Page : In(p) => ~HoldsPage(e, p, i)
      BY <1>4, <1>5, <1>8, <2>1 DEF Span
    <2>4. \A p \in Pools, i \in Page : i \in used'[p] <=> \E e \in live' : HoldsPage(e, p, i)
      BY <1>3, <1>6, <2>2 DEF BitsExact, UpInv
    <2>5. \A p \in Pools', i \in Page : In(p) => (i \in used'[p] <=> \E e \in live' : HoldsPage(e, p, i))
      BY <1>3, <1>7, <2>2, <2>3
    <2> QED
      BY <1>5, <2>4, <2>5 DEF BitsExact
  <1>14. \A p \in Pool : /\ nfree'[p] = IF In(p) THEN 0 ELSE nfree[p]
                         /\ p \in large' <=> (IF In(p) THEN p # last ELSE p \in large)
    BY <1>1 DEF MarkChain, Pool
  <1>15. \A p \in Pools' : p \in Pool
    BY DEF Pools, Pool, TypeOK
  <1>16. CountsExact'
    <2>1. ASSUME NEW p \in Pools', In(p)
          PROVE  nfree'[p] = 0 /\ \E e \in live' : Owns(e, p)
      BY <1>3, <1>9, <1>14, <1>15, <2>1
    <2>2. ASSUME NEW p \in Pools', ~In(p)
          PROVE  /\ p \in Pools /\ nfree'[p] = nfree[p] /\ used'[p] = used[p]
                 /\ (\E e \in live' : Owns(e, p)) <=> (\E e \in live : Owns(e, p))
      BY <1>3, <1>5, <1>9, <1>14, <1>15, <2>2
    <2> QED
      BY <2>1, <2>2 DEF CountsExact, UpInv
  <1>17. MarksExact'
    <2>1. ASSUME NEW p \in Pools', In(p)
          PROVE  p \in large' <=> \E e \in live' : Owns(e, p) /\ p # e.hp + e.n
      <3>1. \A e \in live : ~Owns(e, p)
        BY <1>8, <1>10, <2>1
      <3>2. p \in large' <=> p # last
        BY <1>14, <1>15, <2>1
      <3>3. Owns(new, p) /\ new.hp + new.n = last
        BY <1>1, <1>2, <1>9, <2>1
      <3> QED
        BY <1>3, <3>1, <3>2, <3>3
    <2>2. ASSUME NEW p \in Pools', ~In(p)
          PROVE  p \in large' <=> \E e \in live' : Owns(e, p) /\ p # e.hp + e.n
      <3>1. p \in Pools /\ (p \in large' <=> p \in large) /\ ~Owns(new, p)
        BY <1>5, <1>9, <1>14, <1>15, <2>2
      <3> QED
        BY <1>3, <3>1 DEF MarksExact, UpInv
    <2> QED
      BY <2>1, <2>2 DEF MarksExact
  <1> QED
    BY <1>11, <1>12, <1>13, <1>16, <1>17 DEF UpInv

\* The bump allocator stays ahead of the list by whole huge pages.
LEMMA MmapLinear ==
  ASSUME TypeOK, Linear, NEW more \in Nat \ {0}, more < IntPools \div 2, Mmap(more)
  PROVE  Linear' /\ npools' = npools + more
  <1>1. AsInt(more) = more
    BY AsIntExact
  <1>2. npools' = npools + more /\ total' = npools + more /\ npools + more <= DevPools
    BY <1>1 DEF Mmap, Oom, Linear
  <1>3. npools \in Nat /\ npools + more <= MaxPools
    BY DEF TypeOK, Mmap
  <1>4. ASSUME NEW p \in Pools' PROVE base'[p] = p - 1
    <2>1. p \in Pool /\ p \in Int /\ p >= 1 /\ p <= npools + more
      BY <1>2, <1>3 DEF Pools, Pool
    <2>2. base'[p] = IF p \in (npools + 1)..(npools + more) THEN total + (p - npools - 1)
                                                            ELSE base[p]
      BY <2>1 DEF Mmap, NewBase
    <2>3. CASE p \in (npools + 1)..(npools + more)
      BY <1>3, <2>1, <2>2, <2>3 DEF Linear
    <2>4. CASE p \notin (npools + 1)..(npools + more)
      BY <1>3, <2>1, <2>2, <2>4 DEF Linear, Pools
    <2> QED
      BY <2>3, <2>4
  <1> QED
    BY <1>2, <1>4 DEF Linear

LEMMA FreshPoolsKeep ==
  ASSUME TypeOK, NEW more \in Nat \ {0}, FreshPools(more), npools + more <= MaxPools,
         npools' = npools + more
  PROVE  /\ \A p \in Pools : used'[p] = used[p] /\ asize'[p] = asize[p]
         /\ \A p \in Pools' : p > npools => used'[p] = {}
  <1>1. npools \in Nat
    BY DEF TypeOK
  <1>2. \A p \in Pools : p \in Pool /\ p \notin (npools + 1)..(npools + more)
    BY <1>1 DEF Pools, Pool
  <1>3. \A p \in Pools' : p > npools => p \in Pool /\ p \in (npools + 1)..(npools + more)
    BY <1>1 DEF Pools, Pool
  <1>4. \A p \in Pools : used'[p] = used[p]
    BY <1>2 DEF FreshPools
  <1>5. \A p \in Pools : asize'[p] = asize[p]
    <2>1. \A p \in Pools : p # npools + 1
      BY <1>1 DEF Pools
    <2>2. CASE more > 1
      BY <1>2, <2>1, <2>2 DEF FreshPools, TypeOK
    <2>3. CASE ~(more > 1)
      BY <2>3 DEF FreshPools
    <2> QED
      BY <2>2, <2>3
  <1>6. \A p \in Pools' : p > npools => used'[p] = {}
    BY <1>3 DEF FreshPools
  <1> QED
    BY <1>4, <1>5, <1>6

LEMMA MallocChainInv ==
  ASSUME TypeOK, TypeOK', UpInv, NEW size \in Sizes, MallocChain(size)
  PROVE  UpInv'
  <1> DEFINE num == NumHuge(size)
             s == Max(FreeChains(num))
  <1>1. num \in Nat /\ num >= 2
    BY NumHugeRange DEF MallocChain
  <1>2. FreeChains(num) # {} /\ MarkChain(s, num) /\ live' = live \cup {Chain(base[s], num)}
        /\ UNCHANGED <<npools, base, used, cidx, asize, total, status>>
    BY DEF MallocChain
  <1> HIDE DEF num
  <1>3. s \in FreeChains(num)
    BY <1>2, FreeChainsMax
  <1> HIDE DEF s
  <1>4. s \in Pools /\ s + num - 1 <= npools /\ \A p \in s..(s + num - 1) : AllFree(p)
    BY <1>3 DEF FreeChains
  <1>5. s \in Nat \ {0} /\ npools \in Nat /\ s <= npools /\ base[s] = s - 1
    BY <1>4 DEF Pools, TypeOK, UpInv, Linear
  <1>6. Linear'
    BY <1>2 DEF UpInv, Linear, Pools
  <1>7. Pools' = Pools /\ \A p \in Pools : p \in Int /\ ~(p > npools)
    BY <1>2, <1>5 DEF Pools
  <1>8. \A p \in Pools : s <= p /\ p <= s + num - 1 => AllFree(p)
    BY <1>1, <1>4, <1>5, <1>7
  <1> QED
    BY <1>1, <1>2, <1>4, <1>5, <1>6, <1>7, <1>8, ClaimInv

LEMMA MallocExtendInv ==
  ASSUME TypeOK, TypeOK', UpInv, NoWrap, NEW size \in Sizes, MallocExtend(size), status' = "up"
  PROVE  UpInv'
  <1> DEFINE num == NumHuge(size)
             s == Min(TailRun)
             more == num - (npools - s + 1)
  <1>1. num \in Nat /\ num >= 2 /\ num < IntPools \div 2
    BY NumHugeRange DEF MallocExtend, NoWrap
  <1>2. FreeChains(num) = {} /\ TailRun # {} /\ status = "up"
    BY DEF MallocExtend
  <1>3. s \in TailRun
    BY <1>2, TailRunMin
  <1>4. Mmap(more) /\ FreshPools(more) /\ MarkChain(s, num) /\ live' = live \cup {Chain(base[s], num)}
    BY DEF MallocExtend, MmapAborts, Ends
  <1>5. s \in Pools /\ more \in Nat \ {0}
    BY <1>1, <1>2, <1>3, MoreNeeded
  <1> HIDE DEF num, s
  <1>6. s \in Nat \ {0} /\ npools \in Nat /\ s <= npools /\ base[s] = s - 1
    BY <1>5 DEF Pools, TypeOK, UpInv, Linear
  <1>7. more < IntPools \div 2 /\ s + num - 1 = npools + more
    BY <1>1, <1>5, <1>6
  <1> HIDE DEF more
  <1>8. Linear' /\ npools' = npools + more
    BY <1>4, <1>5, <1>7, MmapLinear DEF UpInv
  <1>9. npools + more <= MaxPools
    BY <1>4 DEF Mmap
  <1>10. /\ \A p \in Pools : used'[p] = used[p] /\ asize'[p] = asize[p]
         /\ \A p \in Pools' : p > npools => used'[p] = {}
    BY <1>4, <1>5, <1>8, <1>9, FreshPoolsKeep
  <1>11. \A p \in Pools : s <= p /\ p <= s + num - 1 => AllFree(p)
    BY <1>3, <1>6 DEF TailRun, Pools
  <1> QED
    BY <1>1, <1>4, <1>5, <1>6, <1>7, <1>8, <1>10, <1>11, ClaimInv

LEMMA MallocFreshInv ==
  ASSUME TypeOK, TypeOK', UpInv, NoWrap, NEW size \in Sizes, MallocFresh(size), status' = "up"
  PROVE  UpInv'
  <1> DEFINE num == NumHuge(size)
             s == npools + 1
  <1>1. num \in Nat /\ num >= 2 /\ num < IntPools \div 2
    BY NumHugeRange DEF MallocFresh, NoWrap
  <1>2. Mmap(num) /\ FreshPools(num) /\ MarkChain(s, num) /\ live' = live \cup {Chain(total, num)}
    BY DEF MallocFresh, MmapAborts, Ends
  <1> HIDE DEF num
  <1>3. npools \in Nat /\ s \in Nat \ {0} /\ total = s - 1
    BY DEF TypeOK, UpInv, Linear
  <1>4. Linear' /\ npools' = npools + num
    BY <1>1, <1>2, MmapLinear DEF UpInv
  <1>5. npools + num <= MaxPools
    BY <1>2 DEF Mmap
  <1>6. /\ \A p \in Pools : used'[p] = used[p] /\ asize'[p] = asize[p]
        /\ \A p \in Pools' : p > npools => used'[p] = {}
    BY <1>1, <1>2, <1>4, <1>5, FreshPoolsKeep
  <1>7. \A p \in Pools : ~(s <= p)
    BY <1>3 DEF Pools
  <1>8. s + num - 1 = npools' /\ s <= npools + 1 /\ npools <= npools'
    BY <1>1, <1>3, <1>4
  <1> HIDE DEF s
  <1> QED
    BY <1>1, <1>2, <1>3, <1>4, <1>6, <1>7, <1>8, ClaimInv

(***************************************************************************)
(* mpim_free.                                                              *)
(***************************************************************************)
\* The mem_pool that mpim_free finds from the head is the one the client's
\* address lies in.
LEMMA HolderIs ==
  ASSUME TypeOK, UpInv, NEW e \in live
  PROVE  /\ Holders(e.hp) # {} /\ Min(Holders(e.hp)) = e.hp + 1
         /\ e.hp + 1 \in Pools /\ e.hp \in Int
  <1>1. e.hp \in Int /\ e.hp >= 0 /\ e.hp + Span(e) <= npools /\ npools \in Nat
    BY DEF TypeOK, UpInv, LiveShape
  <1>2. Span(e) \in Nat /\ Span(e) >= 1
    BY DEF TypeOK, Span
  <1>3. e.hp + 1 \in Pools
    BY <1>1, <1>2 DEF Pools
  <1>4. Holders(e.hp) = {e.hp + 1}
    BY <1>1, <1>3 DEF Holders, UpInv, Linear, Pools
  <1>5. {e.hp + 1} \in SUBSET Nat /\ {e.hp + 1} # {}
    BY <1>1
  <1>6. Min({e.hp + 1}) \in {e.hp + 1}
    BY <1>5, MinOfNats
  <1> QED
    BY <1>1, <1>3, <1>4, <1>6

\* Neither assert of mpim_free fires and alloc_size was written.
LEMMA NoFault ==
  ASSUME TypeOK, UpInv, NEW e \in live
  PROVE  ~FreeFaults(e.hp, e.pg)
  <1> DEFINE p == e.hp + 1
  <1>1. Holders(e.hp) # {} /\ Min(Holders(e.hp)) = p /\ p \in Pools /\ e.hp \in Int
    BY HolderIs
  <1>2. e.kind \in {"small", "chain"} /\ e.n \in Nat \ {0}
    BY DEF TypeOK
  <1>3. CASE e.kind = "small"
    <2>1. asize[p][e.pg] = e.n
      BY <1>3 DEF UpInv, LiveShape
    <2> QED
      BY <1>1, <1>2, <2>1 DEF FreeFaults
  <1>4. CASE e.kind = "chain"
    <2>1. e.n >= 2
      BY <1>4 DEF UpInv, LiveShape
    <2>2. Owns(e, p) /\ p # e.hp + e.n
      BY <1>1, <1>2, <1>4, <2>1 DEF Owns
    <2>3. p \in large
      BY <1>1, <2>2 DEF UpInv, MarksExact
    <2> QED
      BY <1>1, <2>3 DEF FreeFaults
  <1> QED
    BY <1>2, <1>3, <1>4

\* The walk over large_mem_pool stops at the last member of the freed chain.
LEMMA ChainEndIs ==
  ASSUME TypeOK, UpInv, NEW e \in live, e.kind = "chain"
  PROVE  ChainEnd(e.hp + 1) = e.hp + e.n
  <1> DEFINE p == e.hp + 1
             z == e.hp + e.n
             S == (p..npools) \ large
  <1>1. e.hp \in Int /\ e.n \in Nat \ {0} /\ npools \in Nat
    BY DEF TypeOK
  <1>2. e.hp >= 0 /\ e.n >= 2 /\ z <= npools /\ Span(e) = e.n
    BY DEF UpInv, LiveShape, Span
  <1>3. \A q \in p..z : q \in Pools /\ Owns(e, q)
    BY <1>1, <1>2 DEF Pools, Owns
  <1>4. z \in p..z
    BY <1>1, <1>2
  <1>5. z \notin large
    <2> SUFFICES ASSUME z \in large PROVE FALSE
      OBVIOUS
    <2>1. PICK f \in live : Owns(f, z) /\ z # f.hp + f.n
      BY <1>3, <1>4 DEF UpInv, MarksExact
    <2>2. z \in Int /\ e.hp < z /\ z <= e.hp + Span(e)
      BY <1>1, <1>2
    <2>3. e = f
      BY <2>1, <2>2, OwnerAlone DEF UpInv
    <2> QED
      BY <2>1, <2>3
  <1>6. \A q \in p..z : q # z => q \in large
    BY <1>3 DEF UpInv, MarksExact
  <1>7. z \in S /\ S \in SUBSET Nat
    BY <1>1, <1>2, <1>4, <1>5
  <1>8. Min(S) \in S /\ Min(S) <= z
    BY <1>7, MinOfNats
  <1>9. Min(S) = z
    BY <1>1, <1>6, <1>8
  <1> QED
    BY <1>7, <1>9 DEF ChainEnd

LEMMA FreeChainInv ==
  ASSUME TypeOK, UpInv, NEW e \in live, e.kind = "chain", FreeChain(e.hp + 1),
         live' = live \ {e}, UNCHANGED <<npools, base, asize, curr, total, status>>
  PROVE  UpInv'
  <1> DEFINE z == e.hp + e.n
             In(q) == e.hp < q /\ q <= z
  <1>1. e.hp \in Int /\ e.n \in Nat \ {0} /\ npools \in Nat
    BY DEF TypeOK
  <1>2. Span(e) = e.n
    BY DEF Span
  <1>3. \A q \in Pools : q \in Int /\ q \in Pool
    BY DEF Pools, Pool, TypeOK
  <1>4. Pools' = Pools
    BY DEF Pools
  <1>5. \A q \in Pools : In(q) <=> Owns(e, q)
    BY DEF Owns
  <1>6. ChainEnd(e.hp + 1) = z
    BY ChainEndIs
  <1>7. \A q \in Pools : /\ nfree'[q] = IF In(q) THEN NumPages ELSE nfree[q]
                         /\ q \in large' <=> (q \in large /\ ~In(q))
    BY <1>1, <1>3, <1>6 DEF FreeChain
  <1>8. used' = used
    BY DEF FreeChain
  <1>9. \A f \in live, q \in Pools : In(q) /\ f.hp < q /\ q <= f.hp + Span(f) => f = e
    BY <1>3, <1>5, OwnerAlone DEF UpInv
  <1>10. \A f, q : Owns(f, q) => f.hp < q /\ q <= f.hp + Span(f)
    BY DEF Owns, Span
  <1>11. Linear' /\ LiveShape' /\ AllApart'
    BY <1>4 DEF UpInv, Linear, LiveShape, AllApart
  <1>12. BitsExact'
    BY <1>4, <1>8 DEF UpInv, BitsExact, HoldsPage
  <1>13. ASSUME NEW q \in Pools, In(q)
         PROVE  used[q] = {} /\ \A f \in live' : ~Owns(f, q)
    <2>1. \A f \in live' : ~Owns(f, q)
      BY <1>9, <1>10, <1>13
    <2>2. ASSUME NEW i \in Page, i \in used[q] PROVE FALSE
      <3>1. PICK f \in live : HoldsPage(f, q, i)
        BY <2>2 DEF UpInv, BitsExact
      <3>2. f.hp < q /\ q <= f.hp + Span(f)
        BY <1>3, <3>1 DEF HoldsPage, Span
      <3> QED
        BY <1>9, <1>13, <3>1, <3>2 DEF HoldsPage
    <2>3. used[q] \subseteq Page
      BY <1>3 DEF TypeOK
    <2> QED
      BY <2>1, <2>2, <2>3
  <1>14. \A q \in Pools : ~In(q) => ((\E f \in live' : Owns(f, q)) <=> (\E f \in live : Owns(f, q)))
    BY <1>5
  <1>15. CountsExact'
    <2>1. Cardinality({}) = 0
      BY FS_EmptySet
    <2>2. ASSUME NEW q \in Pools, In(q)
          PROVE  nfree'[q] = NumPages - Cardinality(used'[q]) /\ ~\E f \in live' : Owns(f, q)
      <3>1. used[q] = {} /\ \A f \in live' : ~Owns(f, q)
        BY <1>13, <2>2
      <3>2. used'[q] = {} /\ nfree'[q] = NumPages
        BY <1>7, <1>8, <2>2, <3>1
      <3> QED
        BY <2>1, <3>1, <3>2
    <2>3. ASSUME NEW q \in Pools, ~In(q)
          PROVE  /\ nfree'[q] = nfree[q] /\ used'[q] = used[q]
                 /\ (\E f \in live' : Owns(f, q)) <=> (\E f \in live : Owns(f, q))
      BY <1>7, <1>8, <1>14, <2>3
    <2> QED
      BY <1>4, <2>2, <2>3 DEF CountsExact, UpInv
  <1>16. MarksExact'
    <2>1. ASSUME NEW q \in Pools, In(q)
          PROVE  q \notin large' /\ ~\E f \in live' : Owns(f, q) /\ q # f.hp + f.n
      BY <1>7, <1>13, <2>1
    <2>2. ASSUME NEW q \in Pools, ~In(q)
          PROVE  q \in large' <=> \E f \in live' : Owns(f, q) /\ q # f.hp + f.n
      BY <1>5, <1>7, <2>2 DEF UpInv, MarksExact
    <2> QED
      BY <1>4, <2>1, <2>2 DEF MarksExact
  <1> QED
    BY <1>11, <1>12, <1>15, <1>16 DEF UpInv

LEMMA FreePagesInv ==
  ASSUME TypeOK, UpInv, NEW e \in live, e.kind = "small", FreePages(e.hp + 1, e.pg),
         live' = live \ {e}, UNCHANGED <<npools, base, asize, curr, total, status>>
  PROVE  UpInv'
  <1> DEFINE p == e.hp + 1
             Run == e.pg..(e.pg + e.n - 1)
  <1>1. e.hp \in Int /\ e.n \in Nat \ {0} /\ e.pg \in Page /\ e.pg \in Nat
    BY DEF TypeOK, Page
  <1>2. p \in Pools /\ p \in Pool /\ Pools' = Pools
    <2>1. npools <= MaxPools /\ npools \in Nat
      BY DEF TypeOK
    <2>2. p \in Pools
      BY HolderIs
    <2> QED
      BY <2>1, <2>2 DEF Pools, Pool
  <1>3. asize[p][e.pg] = e.n /\ e.pg + e.n <= NumPages
    BY DEF UpInv, LiveShape
  <1>4. used'[p] = used[p] \ Run /\ nfree'[p] = nfree[p] + e.n
    BY <1>2, <1>3 DEF FreePages, TypeOK
  <1>5. \A q \in Pools : q # p => used'[q] = used[q] /\ nfree'[q] = nfree[q]
    BY DEF FreePages, TypeOK, Pools, Pool
  <1>6. large' = large
    BY DEF FreePages
  <1>7. \A q, k : HoldsPage(e, q, k) <=> e.hp = q - 1 /\ e.pg <= k /\ k < e.pg + e.n
    BY DEF HoldsPage
  <1>8. \A k \in Page : HoldsPage(e, p, k) <=> k \in Run
    BY <1>1, <1>7 DEF Page
  <1>9. \A q : ~Owns(e, q)
    BY DEF Owns
  <1>10. \A q : (\E f \in live' : Owns(f, q)) <=> (\E f \in live : Owns(f, q))
    BY <1>9
  <1>11. Linear' /\ LiveShape' /\ AllApart'
    BY <1>2 DEF UpInv, Linear, LiveShape, AllApart
  \* Nobody else holds a page of the freed run.
  <1>12. \A f \in live', k \in Run : ~HoldsPage(f, p, k)
    <2> SUFFICES ASSUME NEW f \in live', NEW k \in Run, HoldsPage(f, p, k) PROVE FALSE
      OBVIOUS
    <2>1. Apart(e, f)
      BY DEF UpInv, AllApart
    <2>2. f.kind = "small" /\ f.hp = e.hp /\ f.pg <= k /\ k < f.pg + f.n
      <3>1. f.hp \in Int
        BY DEF TypeOK
      <3> QED
        BY <1>1, <3>1 DEF HoldsPage
    <2>3. Span(f) = 1 /\ Span(e) = 1
      BY <2>2 DEF Span
    <2>4. f.pg \in Int /\ f.n \in Int
      BY DEF TypeOK, Page
    <2> QED
      BY <1>1, <2>1, <2>2, <2>3, <2>4 DEF Apart
  <1>13. BitsExact'
    <2>1. ASSUME NEW q \in Pools, NEW k \in Page, q # p
          PROVE  k \in used'[q] <=> \E f \in live' : HoldsPage(f, q, k)
      <3>1. ~HoldsPage(e, q, k)
        BY <1>1, <1>7, <2>1 DEF Pools
      <3> QED
        BY <1>5, <2>1, <3>1 DEF UpInv, BitsExact
    <2>2. ASSUME NEW k \in Page
          PROVE  k \in used'[p] <=> \E f \in live' : HoldsPage(f, p, k)
      BY <1>2, <1>4, <1>8, <1>12 DEF UpInv, BitsExact
    <2> QED
      BY <1>2, <2>1, <2>2 DEF BitsExact
  <1>14. CountsExact'
    <2>1. \A f \in live : ~Owns(f, p)
      <3> SUFFICES ASSUME NEW f \in live, Owns(f, p) PROVE FALSE
        OBVIOUS
      <3>1. e.hp < p /\ p <= e.hp + Span(e) /\ p \in Int
        BY <1>1 DEF Span
      <3>2. e = f
        BY <3>1, OwnerAlone DEF UpInv
      <3> QED
        BY <1>9, <3>2
    <2>2. used[p] \in SUBSET Page
      BY <1>2 DEF TypeOK
    <2>3. Run \subseteq used[p]
      <3>1. \A k \in Run : k \in Page
        BY <1>1, <1>3 DEF Page
      <3> QED
        BY <1>2, <1>8, <3>1 DEF UpInv, BitsExact
    <2>4. Cardinality(used[p] \ Run) = Cardinality(used[p]) - e.n
      <3>1. e.pg \in Int /\ e.n \in Nat
        BY <1>1
      <3> QED
        BY <2>2, <2>3, <3>1, CardCut, Zenon
    <2>5. Cardinality(used[p]) \in Int
      BY <2>2, PageSets
    <2>6. nfree[p] = NumPages - Cardinality(used[p])
      BY <1>2, <2>1 DEF UpInv, CountsExact
    <2>7. nfree'[p] = NumPages - Cardinality(used'[p])
      BY <1>1, <1>4, <2>4, <2>5, <2>6
    <2> QED
      BY <1>2, <1>5, <1>10, <2>1, <2>7 DEF CountsExact, UpInv
  <1>15. MarksExact'
    BY <1>2, <1>6, <1>9 DEF MarksExact, UpInv
  <1> QED
    BY <1>11, <1>13, <1>14, <1>15 DEF UpInv

LEMMA FreeInv ==
  ASSUME TypeOK, UpInv, NEW e \in live, Free(e)
  PROVE  UpInv' /\ status' = status
  <1> DEFINE p == e.hp + 1
  <1>1. Min(Holders(e.hp)) = p /\ p \in Pools /\ e.hp \in Int
    BY HolderIs
  <1>2. /\ FreeChain(p) \/ FreePages(p, e.pg)
        /\ live' = live \ {e} /\ UNCHANGED <<npools, base, asize, curr, total, status>>
    BY <1>1, NoFault DEF Free
  <1>3. e.kind \in {"small", "chain"} /\ e.n \in Nat \ {0}
    BY DEF TypeOK
  <1>4. CASE e.kind = "chain"
    <2>1. p \in large
      <3>1. Owns(e, p) /\ p # e.hp + e.n
        BY <1>1, <1>3, <1>4 DEF UpInv, LiveShape, Owns
      <3> QED
        BY <1>1, <3>1 DEF UpInv, MarksExact
    <2>2. FreeChain(p)
      BY <1>2, <2>1 DEF FreePages
    <2> QED
      BY <1>2, <1>4, <2>2, FreeChainInv
  <1>5. CASE e.kind = "small"
    <2>1. p \notin large
      <3> SUFFICES ASSUME p \in large PROVE FALSE
        OBVIOUS
      <3>1. PICK f \in live : Owns(f, p)
        BY <1>1 DEF UpInv, MarksExact
      <3>2. e.hp < p /\ p <= e.hp + Span(e) /\ p \in Int
        BY <1>1, <1>5 DEF Span
      <3>3. e = f
        BY <3>1, <3>2, OwnerAlone DEF UpInv
      <3> QED
        BY <1>5, <3>1, <3>3 DEF Owns
    <2>2. FreePages(p, e.pg)
      BY <1>2, <2>1 DEF FreeChain
    <2> QED
      BY <1>2, <1>5, <2>2, FreePagesInv
  <1> QED
    BY <1>3, <1>4, <1>5

(***************************************************************************)
(* The invariant, and what follows from it.                                *)
(***************************************************************************)
LEMMA EndsInv ==
  ASSUME TypeOK', NEW how \in {"oom", "exited"}, Ends(how)
  PROVE  IInv'
  BY DEF IInv, Ends

LEMMA InitInv == Init => IInv
  <1> SUFFICES ASSUME Init PROVE IInv
    OBVIOUS
  <1>1. TypeOK
    BY InitType
  <1>2. npools = 1 /\ total = 1 /\ live = {} /\ status = "up" /\ large = {} /\ 1 \in Pool
    BY DEF Init, Pool
  <1>3. Pools = {1}
    BY <1>2 DEF Pools
  <1>4. base[1] = 0 /\ used[1] = {} /\ nfree[1] = NumPages
    BY <1>2 DEF Init
  <1>5. Cardinality({}) = 0
    BY FS_EmptySet
  <1>6. Linear
    BY <1>2, <1>3, <1>4 DEF Linear
  <1>7. LiveShape /\ AllApart
    BY <1>2 DEF LiveShape, AllApart
  <1>8. BitsExact /\ CountsExact /\ MarksExact
    <2>1. BitsExact /\ MarksExact
      BY <1>2, <1>3, <1>4 DEF BitsExact, MarksExact
    <2>2. CountsExact
      <3>1. ~\E e \in live : Owns(e, 1)
        BY <1>2
      <3>2. nfree[1] = NumPages - Cardinality(used[1])
        BY <1>4, <1>5
      <3> QED
        BY <1>3, <3>1, <3>2 DEF CountsExact
    <2> QED
      BY <2>1, <2>2
  <1> QED
    BY <1>1, <1>2, <1>6, <1>7, <1>8 DEF IInv, UpInv

LEMMA StepInv ==
  ASSUME NoWrap, IInv, [Next]_vars
  PROVE  IInv'
  <1>1. TypeOK /\ TypeOK' /\ status # "fault"
    BY StepType DEF IInv
  <1>2. ASSUME NEW size \in Sizes, Malloc(size) PROVE IInv'
    <2>1. status = "up" /\ UpInv
      BY <1>2 DEF Malloc, MallocPages, MallocNewPool, MallocChain, MallocExtend, MallocFresh, IInv
    <2>2. CASE \E num : MmapAborts(num)
      BY <1>1, <2>2, EndsInv DEF MmapAborts
    <2>3. CASE ~\E num : MmapAborts(num)
      <3>1. status' = "up"
        BY <1>2, <2>1, <2>3 DEF Malloc, MallocPages, MallocNewPool, MallocChain, MallocExtend,
             MallocFresh, TakePages, Mmap
      <3>2. UpInv'
        BY <1>1, <1>2, <2>1, <3>1, MallocPagesInv, MallocNewPoolInv, MallocChainInv,
           MallocExtendInv, MallocFreshInv DEF Malloc
      <3> QED
        BY <1>1, <3>1, <3>2 DEF IInv
    <2> QED
      BY <2>2, <2>3
  <1>3. ASSUME NEW e \in live, Free(e) PROVE IInv'
    <2>1. status = "up" /\ UpInv
      BY <1>3 DEF Free, IInv
    <2>2. UpInv' /\ status' = "up"
      BY <1>1, <1>3, <2>1, FreeInv
    <2> QED
      BY <1>1, <2>2 DEF IInv
  <1>4. CASE Exit
    BY <1>1, <1>4, EndsInv DEF Exit
  <1>5. CASE UNCHANGED vars
    BY <1>1, <1>5 DEF vars, bookVars, IInv, UpInv, Linear, LiveShape, AllApart, BitsExact,
       CountsExact, MarksExact, Pools, AllFree
  <1> QED
    BY <1>2, <1>3, <1>4, <1>5 DEF Next

\* As long as no request makes the driver's `int size' wrap, the mem_pools and
\* the clients agree page by page at every moment of any run: the invariant
\* from which the properties below follow.
THEOREM Safety == ASSUME NoWrap PROVE Spec => []IInv
  <1>1. Init => IInv
    BY InitInv
  <1>2. IInv /\ [Next]_vars => IInv'
    BY StepInv
  <1> QED
    BY <1>1, <1>2, PTL DEF Spec

(***************************************************************************)
(* Consequences.                                                           *)
(***************************************************************************)
LEMMA RecordType ==
  ASSUME TypeOK, NEW e \in live
  PROVE  /\ e.kind \in {"small", "chain"} /\ e.hp \in Int /\ e.pg \in Page /\ e.pg \in Int
         /\ e.n \in Nat \ {0} /\ Span(e) \in Nat \ {0}
  BY DEF TypeOK, Span, Page

\* Where the pages of an allocation lie.
LEMMA ExtentIn ==
  ASSUME TypeOK, NEW e \in live, NEW a \in Extent(e)
  PROVE  /\ a = <<a[1], a[2]>> /\ a[1] \in Int /\ a[2] \in Int
         /\ e.hp <= a[1] /\ a[1] < e.hp + Span(e)
         /\ e.kind = "small" => a[1] = e.hp /\ e.pg <= a[2] /\ a[2] < e.pg + e.n
  <1>1. e.kind \in {"small", "chain"} /\ e.hp \in Int /\ e.pg \in Int /\ e.n \in Nat
    BY RecordType
  <1>2. CASE e.kind = "small"
    <2>1. a \in {e.hp} \X (e.pg .. (e.pg + e.n - 1))
      BY <1>2 DEF Extent
    <2> QED
      BY <1>1, <1>2, <2>1 DEF Span
  <1>3. CASE e.kind = "chain"
    <2>1. a \in (e.hp .. (e.hp + e.n - 1)) \X Page
      BY <1>3 DEF Extent
    <2> QED
      BY <1>1, <1>3, <2>1 DEF Span, Page
  <1> QED
    BY <1>1, <1>2, <1>3

LEMMA InvDisjoint == IInv => Disjoint
  <1> SUFFICES ASSUME IInv, NEW e \in live, NEW f \in live, e # f,
                      NEW a \in Extent(e), a \in Extent(f)
               PROVE  FALSE
    BY DEF Disjoint
  <1>1. TypeOK /\ Apart(e, f)
    BY DEF IInv, UpInv, AllApart
  <1>2. /\ a[1] \in Int /\ a[2] \in Int
        /\ e.hp <= a[1] /\ a[1] < e.hp + Span(e)
        /\ e.kind = "small" => a[1] = e.hp /\ e.pg <= a[2] /\ a[2] < e.pg + e.n
    BY <1>1, ExtentIn
  <1>3. /\ f.hp <= a[1] /\ a[1] < f.hp + Span(f)
        /\ f.kind = "small" => a[1] = f.hp /\ f.pg <= a[2] /\ a[2] < f.pg + f.n
    BY <1>1, ExtentIn
  <1>4. /\ e.hp \in Int /\ e.pg \in Int /\ e.n \in Int /\ Span(e) \in Int
        /\ f.hp \in Int /\ f.pg \in Int /\ f.n \in Int /\ Span(f) \in Int
    BY <1>1, RecordType
  <1> QED
    BY <1>1, <1>2, <1>3, <1>4 DEF Apart

\* Two live allocations never share a page (mpim_malloc / mpim_free).
THEOREM NeverShared == ASSUME NoWrap PROVE Spec => []Disjoint
  <1> QED
    BY Safety, InvDisjoint, PTL

LEMMA InvInDevice == IInv => InDevice
  <1> SUFFICES ASSUME IInv, NEW e \in live, NEW a \in Extent(e)
               PROVE  a[1] \in 0..(DevPools - 1)
    BY DEF InDevice
  <1>1. TypeOK /\ Linear /\ LiveShape
    BY DEF IInv, UpInv
  <1>2. a[1] \in Int /\ e.hp <= a[1] /\ a[1] < e.hp + Span(e)
    BY <1>1, ExtentIn
  <1>3. e.hp >= 0 /\ e.hp + Span(e) <= npools /\ npools <= DevPools
    BY <1>1 DEF Linear, LiveShape
  <1>4. e.hp \in Int /\ Span(e) \in Int /\ npools \in Int
    BY <1>1, RecordType DEF TypeOK
  <1> QED
    BY <1>2, <1>3, <1>4

\* Every allocation lies in the mapped device memory (multi_mmap_drv).
THEOREM NeverOutside == ASSUME NoWrap PROVE Spec => []InDevice
  <1> QED
    BY Safety, InvInDevice, PTL

LEMMA OwnsIs ==
  ASSUME TypeOK, Linear, NEW p \in Pools, NEW e \in live
  PROVE  /\ Owns(e, p) <=> e \in ChainsOver(p)
         /\ Owns(e, p) => (p # e.hp + e.n <=> base[p] # e.hp + e.n - 1)
  <1>1. e.hp \in Int /\ e.n \in Int /\ p \in Int /\ base[p] = p - 1
    BY RecordType DEF Linear, Pools
  <1> QED
    BY <1>1 DEF Owns, ChainsOver

LEMMA InvBooks == IInv => BooksBalance
  <1> SUFFICES ASSUME IInv, status = "up", NEW p \in Pools
               PROVE  /\ used[p] = PagesLiveIn(p)
                      /\ nfree[p] = IF ChainsOver(p) # {} THEN 0
                                                      ELSE NumPages - Cardinality(used[p])
    BY DEF BooksBalance
  <1>1. TypeOK /\ UpInv /\ Linear
    BY DEF IInv, UpInv
  <1>2. used[p] \in SUBSET Page /\ p \in Int /\ base[p] = p - 1
    BY <1>1 DEF TypeOK, Linear, Pools, Pool
  <1>3. ASSUME NEW e \in live, NEW i \in Page
        PROVE  HoldsPage(e, p, i) <=> e.kind = "small" /\ <<base[p], i>> \in Extent(e)
    <2>1. e.hp \in Int /\ e.pg \in Int /\ e.n \in Int /\ i \in Int
      BY <1>1, RecordType DEF Page
    <2>2. e.kind = "small" => Extent(e) = {e.hp} \X (e.pg .. (e.pg + e.n - 1))
      BY DEF Extent
    <2> QED
      BY <1>2, <2>1, <2>2 DEF HoldsPage
  <1>4. used[p] = PagesLiveIn(p)
    <2>1. \A i \in Page : i \in used[p] <=> i \in PagesLiveIn(p)
      BY <1>1, <1>3 DEF UpInv, BitsExact, PagesLiveIn
    <2>2. PagesLiveIn(p) \subseteq Page
      BY DEF PagesLiveIn
    <2> QED
      BY <1>2, <2>1, <2>2
  <1>5. ChainsOver(p) # {} <=> \E e \in live : Owns(e, p)
    <2>1. \A e \in live : Owns(e, p) <=> e \in ChainsOver(p)
      BY <1>1, OwnsIs
    <2> QED
      BY <2>1 DEF ChainsOver
  <1> QED
    BY <1>1, <1>4, <1>5 DEF UpInv, CountsExact

\* Bit vectors and nfree_pages agree with what the clients hold at every step.
THEOREM BooksAlwaysBalance == ASSUME NoWrap PROVE Spec => []BooksBalance
  <1> QED
    BY Safety, InvBooks, PTL

LEMMA InvMarks == IInv => ChainMarks
  <1> SUFFICES ASSUME IInv, status = "up", NEW p \in Pools
               PROVE  p \in large <=> \E e \in ChainsOver(p) : base[p] # e.hp + e.n - 1
    BY DEF ChainMarks
  <1>1. TypeOK /\ UpInv /\ Linear
    BY DEF IInv, UpInv
  <1>2. p \in large <=> \E e \in live : Owns(e, p) /\ p # e.hp + e.n
    BY <1>1 DEF UpInv, MarksExact
  <1>3. ChainsOver(p) \subseteq live
    BY DEF ChainsOver
  <1>4. \A e \in live : /\ Owns(e, p) <=> e \in ChainsOver(p)
                        /\ Owns(e, p) => (p # e.hp + e.n <=> base[p] # e.hp + e.n - 1)
    BY <1>1, OwnsIs
  <1> QED
    BY <1>2, <1>3, <1>4

\* large_mem_pool is set on all members of a live chain but the last, and
\* nowhere else, so mpim_free of a chain stops exactly at its end.
THEOREM MarksAlwaysExact == ASSUME NoWrap PROVE Spec => []ChainMarks
  <1> QED
    BY Safety, InvMarks, PTL

\* Freeing what mpim_malloc returned never fails an assert of mpim_free and
\* never reads an alloc_size that nothing has written.
THEOREM FreeSucceeds == ASSUME NoWrap PROVE Spec => []FreeNeverFaults
  <1>1. IInv => FreeNeverFaults
    BY DEF IInv, FreeNeverFaults
  <1> QED
    BY <1>1, Safety, PTL

LEMMA InvContiguous == IInv => Contiguous
  <1> SUFFICES ASSUME IInv, NEW p \in Pools, p + 1 \in Pools
               PROVE  base[p + 1] = base[p] + 1
    BY DEF Contiguous
  <1>1. npools # 0 /\ p \in Int
    BY DEF Pools, IInv, TypeOK
  <1>2. Linear
    BY <1>1 DEF IInv, UpInv
  <1> QED
    BY <1>1, <1>2 DEF Linear

\* Neighbours in the list are neighbours in memory, as a chain needs.
THEOREM AlwaysContiguous == ASSUME NoWrap PROVE Spec => []Contiguous
  <1> QED
    BY Safety, InvContiguous, PTL

\* mpim_free changes no mem_pool outside the allocation it frees.
THEOREM FreesAreLocal == ASSUME NoWrap PROVE Spec => FreeIsLocal
  <1> DEFINE Local ==
        \A e \in live : e \notin live' /\ status' = "up" =>
          \A p \in Pools :
            base[p] \notin e.hp..(e.hp + Span(e) - 1) =>
              /\ used'[p] = used[p] /\ nfree'[p] = nfree[p]
              /\ (p \in large' <=> p \in large) /\ cidx'[p] = cidx[p]
  <1>1. ASSUME IInv, Next PROVE Local
    <2> SUFFICES ASSUME NEW e \in live, e \notin live', status' = "up", NEW p \in Pools,
                        base[p] \notin e.hp..(e.hp + Span(e) - 1)
                 PROVE  /\ used'[p] = used[p] /\ nfree'[p] = nfree[p]
                        /\ (p \in large' <=> p \in large) /\ cidx'[p] = cidx[p]
      OBVIOUS
    <2>1. ~ \E size \in Sizes : Malloc(size)
      BY DEF Malloc, MallocPages, MallocNewPool, MallocChain, MallocExtend, MallocFresh,
         MmapAborts, Ends, TakePages
    <2>2. PICK f \in live : Free(f)
      BY <1>1, <2>1 DEF Next, Exit, Ends
    <2>3. TypeOK /\ UpInv /\ Linear
      BY <1>1, <2>2 DEF Free, IInv, UpInv
    <2>4. /\ FreeChain(f.hp + 1) \/ FreePages(f.hp + 1, f.pg)
          /\ live' = live \ {f}
      BY <2>2, <2>3, NoFault, HolderIs DEF Free
    <2>5. f = e
      BY <2>4
    <2>6. e.hp \in Int /\ e.n \in Nat \ {0} /\ Span(e) \in Nat \ {0} /\ p \in Int /\ base[p] = p - 1
          /\ e.kind \in {"small", "chain"} /\ p \in Pool
      <3>1. npools \in Nat /\ npools <= MaxPools
        BY <2>3 DEF TypeOK
      <3>2. p \in Int /\ p \in Pool
        BY <3>1 DEF Pools, Pool
      <3>3. base[p] = p - 1
        BY <2>3 DEF Linear
      <3> QED
        BY <2>3, <3>2, <3>3, RecordType
    <2>7. ~(e.hp < p /\ p <= e.hp + Span(e)) /\ p # e.hp + 1
      BY <2>6
    <2>8. CASE FreeChain(e.hp + 1)
      <3>1. e.kind = "chain"
        <4> SUFFICES ASSUME e.kind = "small" PROVE FALSE
          BY <2>6
        <4>1. e.hp + 1 \in Pools /\ e.hp + 1 \in large
          BY <2>3, <2>8, HolderIs DEF FreeChain
        <4>2. PICK g \in live : Owns(g, e.hp + 1)
          BY <2>3, <4>1 DEF UpInv, MarksExact
        <4>3. e = g
          <5>1. e.hp < e.hp + 1 /\ e.hp + 1 <= e.hp + Span(e) /\ e.hp + 1 \in Int
            BY <2>6
          <5> QED
            BY <2>3, <4>2, <5>1, OwnerAlone DEF UpInv
        <4> QED
          BY <4>2, <4>3 DEF Owns
      <3>2. ChainEnd(e.hp + 1) = e.hp + e.n /\ Span(e) = e.n
        BY <2>3, <3>1, ChainEndIs DEF Span
      <3>3. p \notin (e.hp + 1)..ChainEnd(e.hp + 1)
        BY <2>6, <2>7, <3>2
      <3> QED
        BY <2>6, <2>8, <3>3 DEF FreeChain
    <2>9. CASE FreePages(e.hp + 1, e.pg)
      BY <2>3, <2>6, <2>7, <2>9 DEF FreePages, TypeOK
    <2> QED
      BY <2>4, <2>5, <2>8, <2>9
  <1>2. IInv /\ [Next]_vars => [Local]_vars
    BY <1>1
  <1> QED
    BY <1>2, Safety, PTL DEF Spec, FreeIsLocal

(***************************************************************************)
(* The allocator implements PagePool.                                      *)
(***************************************************************************)
\* Bit vectors and counters, read without the clients, name just the pages that
\* clients hold.
InUseExact == \A a : a \in InUse <=> \E e \in live : a \in Extent(e)

LEMMA InUseIs == IInv => InUseExact
  <1> SUFFICES ASSUME IInv
               PROVE  \A a : a \in InUse <=> \E e \in live : a \in Extent(e)
    BY DEF InUseExact
  <1>1. CASE status # "up"
    BY <1>1 DEF IInv, InUse, Pools
  <1>2. CASE status = "up"
    <2>1. TypeOK /\ UpInv /\ Linear
      BY <1>2 DEF IInv, UpInv
    <2>2. \A p \in Pools : /\ p \in Int /\ p >= 1 /\ p <= npools /\ p \in Pool
                           /\ base[p] = p - 1 /\ used[p] \in SUBSET Page
      BY <2>1 DEF TypeOK, Linear, Pools, Pool
    <2>3. ASSUME NEW a \in InUse
          PROVE  \E e \in live : a \in Extent(e)
      <3>1. PICK p \in Pools :
              a \in {base[p]} \X (IF nfree[p] = 0 /\ used[p] = {} THEN Page ELSE used[p])
        BY DEF InUse
      <3>2. PICK i \in Page : a = <<p - 1, i>> /\ (i \in used[p] \/ (nfree[p] = 0 /\ used[p] = {}))
        BY <2>2, <3>1
      <3>3. CASE i \in used[p]
        <4>1. PICK e \in live : HoldsPage(e, p, i)
          BY <2>1, <3>3 DEF UpInv, BitsExact
        <4>2. e.n \in Int /\ e.pg \in Int /\ i \in Int
          BY <2>1, RecordType DEF Page
        <4> QED
          BY <3>2, <4>1, <4>2 DEF HoldsPage, Extent
      <3>4. CASE nfree[p] = 0 /\ used[p] = {}
        <4>1. Cardinality(used[p]) = 0
          BY <2>2, <3>4, PageSets
        <4>a. nfree[p] = IF \E e \in live : Owns(e, p) THEN 0 ELSE NumPages - Cardinality(used[p])
          BY <2>1 DEF UpInv, CountsExact
        <4>2. PICK e \in live : Owns(e, p)
          BY <3>4, <4>1, <4>a
        <4>3. e.hp \in Int /\ e.n \in Int /\ p \in Int
          BY <2>1, <2>2, RecordType
        <4>4. p - 1 \in e.hp .. (e.hp + e.n - 1) /\ e.kind # "small"
          BY <4>2, <4>3 DEF Owns
        <4> QED
          BY <3>2, <4>4 DEF Extent
      <3> QED
        BY <3>2, <3>3, <3>4
    <2>4. ASSUME NEW e \in live, NEW a \in Extent(e)
          PROVE  a \in InUse
      <3> DEFINE p == a[1] + 1
      <3>1. /\ a = <<a[1], a[2]>> /\ a[1] \in Int /\ a[2] \in Int
            /\ e.hp <= a[1] /\ a[1] < e.hp + Span(e)
            /\ e.kind = "small" => a[1] = e.hp /\ e.pg <= a[2] /\ a[2] < e.pg + e.n
        BY <2>1, ExtentIn
      <3>2. /\ e.kind \in {"small", "chain"} /\ e.hp \in Int /\ e.pg \in Page /\ e.pg \in Int
            /\ e.n \in Nat \ {0} /\ Span(e) \in Nat \ {0} /\ npools \in Int
        BY <2>1, RecordType DEF TypeOK
      <3>3. e.hp >= 0 /\ e.hp + Span(e) <= npools
        BY <2>1 DEF UpInv, LiveShape
      <3>4. p \in Pools /\ p \in Int
        BY <3>1, <3>2, <3>3 DEF Pools
      <3>5. base[p] = a[1]
        BY <2>2, <3>1, <3>4
      <3>6. a[2] \in (IF nfree[p] = 0 /\ used[p] = {} THEN Page ELSE used[p])
        <4>1. CASE e.kind = "small"
          <5>1. e.pg + e.n <= NumPages
            BY <2>1, <4>1 DEF UpInv, LiveShape
          <5>2. a[2] \in Page /\ HoldsPage(e, p, a[2])
            BY <3>1, <3>2, <4>1, <5>1 DEF HoldsPage, Page
          <5>3. a[2] \in used[p]
            BY <2>1, <3>4, <5>2 DEF UpInv, BitsExact
          <5> QED
            BY <5>3
        <4>2. CASE e.kind = "chain"
          <5>1. Span(e) = e.n
            BY <4>2 DEF Span
          <5>2. Owns(e, p)
            BY <3>1, <3>2, <4>2, <5>1 DEF Owns
          <5>3. nfree[p] = 0
            BY <2>1, <3>4, <5>2 DEF UpInv, CountsExact
          <5>4. ASSUME NEW i \in used[p] PROVE FALSE
            <6>1. i \in Page
              BY <2>2, <3>4, <5>4
            <6>2. PICK f \in live : HoldsPage(f, p, i)
              BY <2>1, <3>4, <5>4, <6>1 DEF UpInv, BitsExact
            <6>3. f.hp < p /\ p <= f.hp + Span(f)
              BY <3>4, <6>2 DEF HoldsPage, Span
            <6>4. f = e
              BY <2>1, <3>4, <5>2, <6>3, OwnerAlone DEF UpInv
            <6> QED
              BY <4>2, <6>2, <6>4 DEF HoldsPage
          <5>5. a[2] \in Page
            <6>1. a \in (e.hp .. (e.hp + e.n - 1)) \X Page
              BY <4>2 DEF Extent
            <6> QED
              BY <6>1
          <5> QED
            BY <5>3, <5>4, <5>5
        <4> QED
          BY <3>2, <4>1, <4>2
      <3> HIDE DEF p
      <3>7. a \in {base[p]} \X (IF nfree[p] = 0 /\ used[p] = {} THEN Page ELSE used[p])
        BY <3>1, <3>5, <3>6
      <3> QED
        BY <3>4, <3>7 DEF InUse
    <2> QED
      BY <2>3, <2>4
  <1> QED
    BY <1>1, <1>2

LEMMA Times ==
  ASSUME NEW A, NEW B, NEW C, NEW D, NEW x \in A, NEW y \in B, A \subseteq C, B \subseteq D
  PROVE  A \X B # {} /\ A \X B \subseteq C \X D
  <1>1. <<x, y>> \in A \X B
    OBVIOUS
  <1> QED
    BY <1>1

\* What a client holds is one of the allocations of PagePool, and has a page.
HeldExtents ==
  \A e \in live :
    e \in Extents /\ Extent(e) # {} /\ Extent(e) \subseteq (0..(DevPools - 1)) \X Page

LEMMA LiveExtents == IInv => HeldExtents
  <1> SUFFICES ASSUME IInv, NEW e \in live
               PROVE  /\ e \in Extents /\ Extent(e) # {}
                      /\ Extent(e) \subseteq (0..(DevPools - 1)) \X Page
    BY DEF HeldExtents
  <1>1. TypeOK /\ Linear /\ LiveShape
    BY DEF IInv, UpInv
  <1>2. /\ e \in [kind : {"small", "chain"}, hp : Int, pg : Page, n : Nat \ {0}]
        /\ e.hp >= 0 /\ e.hp + Span(e) <= DevPools /\ e.pg \in Int
        /\ e.kind \in {"small", "chain"} /\ e.hp \in Int /\ e.pg \in Page /\ e.n \in Nat \ {0}
    <2>1. npools \in Int /\ npools <= DevPools /\ Span(e) \in Int
      BY <1>1, RecordType DEF TypeOK, Linear
    <2> QED
      BY <1>1, <2>1 DEF TypeOK, LiveShape, Page
  <1>3. CASE e.kind = "small"
    <2>1. e.pg + e.n <= NumPages /\ Span(e) = 1
      BY <1>1, <1>3 DEF LiveShape, Span
    <2>2. e = Small(e.hp, e.pg, e.n)
      BY <1>2, <1>3 DEF Small
    <2>3. e.hp \in 0..(DevPools - 1) /\ e.n \in 1..NumPages
      BY <1>2, <2>1 DEF Page
    <2>4. e \in Extents
      BY <1>2, <2>2, <2>3 DEF Extents
    <2>5. Extent(e) = {e.hp} \X (e.pg .. (e.pg + e.n - 1))
      BY <1>3 DEF Extent
    <2>6. e.pg \in e.pg .. (e.pg + e.n - 1) /\ e.pg .. (e.pg + e.n - 1) \subseteq Page
      BY <1>2, <2>1 DEF Page
    <2> QED
      <3> DEFINE A == {e.hp}
                 B == e.pg .. (e.pg + e.n - 1)
                 C == 0..(DevPools - 1)
      <3>1. A \subseteq C /\ e.hp \in A /\ e.pg \in B /\ B \subseteq Page /\ Extent(e) = A \X B
        BY <2>3, <2>5, <2>6
      <3> HIDE DEF A, B, C
      <3>2. A \X B # {} /\ A \X B \subseteq C \X Page
        BY <3>1, Times
      <3> QED
        BY <2>4, <3>1, <3>2 DEF C
  <1>4. CASE e.kind = "chain"
    <2>1. e.pg = 0 /\ e.n >= 2 /\ Span(e) = e.n
      BY <1>1, <1>4 DEF LiveShape, Span
    <2>2. e = Chain(e.hp, e.n)
      BY <1>2, <1>4, <2>1 DEF Chain
    <2>3. e.hp \in 0..(DevPools - 1) /\ e.n \in 2..DevPools
      BY <1>2, <2>1
    <2>4. e \in Extents
      BY <2>2, <2>3 DEF Extents
    <2>5. Extent(e) = (e.hp .. (e.hp + e.n - 1)) \X Page
      BY <1>4 DEF Extent
    <2>6. e.hp \in e.hp .. (e.hp + e.n - 1) /\ e.hp .. (e.hp + e.n - 1) \subseteq 0..(DevPools - 1)
          /\ 0 \in Page
      BY <1>2, <2>1 DEF Page
    <2> QED
      <3> DEFINE A == e.hp .. (e.hp + e.n - 1)
                 C == 0..(DevPools - 1)
      <3>1. A \subseteq C /\ e.hp \in A /\ 0 \in Page /\ Extent(e) = A \X Page
        BY <2>5, <2>6
      <3> HIDE DEF A, C
      <3>2. A \X Page # {} /\ A \X Page \subseteq C \X Page
        BY <3>1, Times
      <3> QED
        BY <2>4, <3>1, <3>2 DEF C
  <1> QED
    BY <1>2, <1>3, <1>4

\* Where nothing is found an allocation cannot be held already: its pages read
\* free, or lie beyond the list.
LEMMA FreshRun ==
  ASSUME TypeOK, UpInv, NEW p \in Pools, NEW i \in Page, NEW n \in Nat \ {0}, FreeRun(p, i, n)
  PROVE  Small(base[p], i, n) \notin live
  <1> DEFINE new == Small(base[p], i, n)
  <1> SUFFICES ASSUME new \in live PROVE FALSE
    OBVIOUS
  <1>1. p \in Int /\ base[p] = p - 1
    BY DEF UpInv, Linear, Pools
  <1>2. HoldsPage(new, p, i)
    BY <1>1 DEF HoldsPage, Small, Page
  <1> HIDE DEF new
  <1>3. i \in used[p]
    BY <1>2 DEF UpInv, BitsExact
  <1>4. i \in i..(i + n - 1)
    BY DEF Page
  <1> QED
    BY <1>3, <1>4 DEF FreeRun

LEMMA FreshChain ==
  ASSUME TypeOK, UpInv, NEW s \in Pools, NEW num \in Nat \ {0}, AllFree(s)
  PROVE  Chain(base[s], num) \notin live
  <1> SUFFICES ASSUME Chain(base[s], num) \in live PROVE FALSE
    OBVIOUS
  <1>1. s \in Int /\ base[s] = s - 1
    BY DEF UpInv, Linear, Pools
  <1>2. Owns(Chain(base[s], num), s)
    BY <1>1 DEF Owns, Chain
  <1>3. nfree[s] > 0
    BY DEF AllFree
  <1> QED
    BY <1>2, <1>3, FreePool

LEMMA FreshEnd ==
  ASSUME TypeOK, UpInv, NEW e \in live
  PROVE  e.hp # total
  <1>1. e.hp \in Int /\ Span(e) \in Nat \ {0} /\ npools \in Int
    BY RecordType DEF TypeOK
  <1>2. e.hp + Span(e) <= npools /\ total = npools
    BY DEF UpInv, LiveShape, Linear
  <1> QED
    BY <1>1, <1>2

\* Every malloc that returns hands out one allocation that nobody held.
LEMMA MallocAdds ==
  ASSUME IInv, NEW size \in Sizes, Malloc(size), status' = "up"
  PROVE  \E new : new \notin live /\ live' = live \cup {new}
  <1>1. TypeOK /\ UpInv
    BY DEF Malloc, MallocPages, MallocNewPool, MallocChain, MallocExtend, MallocFresh, IInv
  <1>2. CASE MallocPages(size)
    <2> DEFINE n == NAlloc(size)
               p == Min(Hits(n))
               i == Min(Found(p, n))
    <2>1. n \in 1..NumPages
      BY <1>2, NAllocRange DEF MallocPages
    <2>2. p \in Pools /\ i \in Page /\ FreeRun(p, i, n) /\ TakePages(p, i, n)
      BY <1>1, <1>2, MallocPagesWhere
    <2> HIDE DEF n, p, i
    <2>3. Small(base[p], i, n) \notin live
      BY <1>1, <2>1, <2>2, FreshRun
    <2> QED
      BY <2>2, <2>3 DEF TakePages
  <1>3. CASE MallocNewPool(size)
    <2>1. live' = live \cup {Small(total, 0, NAlloc(size))}
      BY <1>3 DEF MallocNewPool, MmapAborts, Ends
    <2>2. Small(total, 0, NAlloc(size)).hp = total
      BY DEF Small
    <2> QED
      BY <1>1, <2>1, <2>2, FreshEnd
  <1>4. CASE MallocChain(size)
    <2> DEFINE num == NumHuge(size)
               s == Max(FreeChains(num))
    <2>1. num \in Nat /\ num >= 2
      BY <1>4, NumHugeRange DEF MallocChain
    <2>2. FreeChains(num) # {} /\ live' = live \cup {Chain(base[s], num)}
      BY <1>4 DEF MallocChain
    <2> HIDE DEF num
    <2>3. s \in FreeChains(num)
      BY <1>1, <2>1, <2>2, FreeChainsMax
    <2> HIDE DEF s
    <2>4. s \in Pools /\ s \in Int
      BY <2>3 DEF FreeChains, Pools
    <2>5. s \in s..(s + num - 1)
      BY <2>1, <2>4
    <2>6. AllFree(s)
      BY <2>3, <2>5 DEF FreeChains
    <2>7. Chain(base[s], num) \notin live
      BY <1>1, <2>1, <2>4, <2>6, FreshChain
    <2> QED
      BY <2>2, <2>7
  <1>5. CASE MallocExtend(size)
    <2> DEFINE num == NumHuge(size)
               s == Min(TailRun)
    <2>1. num \in Nat /\ num >= 2
      BY <1>5, NumHugeRange DEF MallocExtend
    <2>2. TailRun # {} /\ live' = live \cup {Chain(base[s], num)}
      BY <1>5 DEF MallocExtend, MmapAborts, Ends
    <2> HIDE DEF num
    <2>3. s \in TailRun
      BY <1>1, <2>2, TailRunMin
    <2> HIDE DEF s
    <2>4. s \in Pools /\ s \in s..npools
      BY <1>1, <2>3 DEF TailRun, Pools, TypeOK
    <2>5. AllFree(s)
      BY <2>3, <2>4 DEF TailRun
    <2>6. Chain(base[s], num) \notin live
      BY <1>1, <2>1, <2>4, <2>5, FreshChain
    <2> QED
      BY <2>2, <2>6
  <1>6. CASE MallocFresh(size)
    <2>1. live' = live \cup {Chain(total, NumHuge(size))}
      BY <1>6 DEF MallocFresh, MmapAborts, Ends
    <2>2. Chain(total, NumHuge(size)).hp = total
      BY DEF Chain
    <2> QED
      BY <1>1, <2>1, <2>2, FreshEnd
  <1> QED
    BY <1>2, <1>3, <1>4, <1>5, <1>6 DEF Malloc

LEMMA PrimedInv ==
  IInv' => InUseExact' /\ HeldExtents' /\ Disjoint'
  BY InUseIs, LiveExtents, InvDisjoint, PTL

\* Every step is an allocation, a free or an end of PagePool, or a stutter.
LEMMA RefinesStep ==
  ASSUME NoWrap, IInv, IInv', [Next]_vars
  PROVE  [Abs!Next]_(Abs!absVars)
  <1>1. \A a : a \in InUse <=> \E e \in live : a \in Extent(e)
    BY InUseIs DEF InUseExact
  <1>2. \A a : a \in InUse' <=> \E e \in live' : a \in Extent(e)
    BY PrimedInv DEF InUseExact, Extent
  <1>3. ASSUME NEW how, Ends(how) PROVE Abs!Next
    <2>1. live' = {}
      BY <1>3 DEF Ends
    <2>2. InUse' = {}
      BY <1>2, <2>1
    <2> QED
      BY <2>1, <2>2 DEF Abs!Next, Abs!Close
  <1>4. ASSUME NEW size \in Sizes, Malloc(size) PROVE Abs!Next
    <2>1. CASE \E num : MmapAborts(num)
      BY <1>3, <2>1 DEF MmapAborts
    <2>2. CASE ~ \E num : MmapAborts(num)
      <3>1. status' = "up"
        BY <1>4, <2>2 DEF Malloc, MallocPages, MallocNewPool, MallocChain, MallocExtend,
             MallocFresh, TakePages, Mmap
      <3>2. PICK new : new \notin live /\ live' = live \cup {new}
        BY <1>4, <3>1, MallocAdds
      <3>3. /\ new \in Extents /\ Extent(new) # {}
            /\ Extent(new) \subseteq (0..(DevPools - 1)) \X Page
        BY <3>2, PrimedInv DEF HeldExtents, Extents, Extent
      <3>4. \A e \in live : Extent(e) \cap Extent(new) = {}
        BY <3>2, PrimedInv DEF Disjoint, Extent
      <3>5. Extent(new) \subseteq ((0..(DevPools - 1)) \X Page) \ InUse
        BY <1>1, <3>3, <3>4
      <3>6. InUse' = InUse \cup Extent(new)
        BY <1>1, <1>2, <3>2
      <3>7. Abs!Alloc(new)
        BY <3>2, <3>3, <3>5, <3>6 DEF Abs!Alloc
      <3> QED
        BY <3>3, <3>7 DEF Abs!Next
    <2> QED
      BY <2>1, <2>2
  <1>5. ASSUME NEW e \in live, Free(e) PROVE Abs!Next
    <2>1. CASE live' = live \ {e}
      <3>1. \A f \in live : f # e => Extent(f) \cap Extent(e) = {}
        BY InvDisjoint DEF Disjoint
      <3>2. InUse' = InUse \ Extent(e)
        BY <1>1, <1>2, <2>1, <3>1
      <3>3. Abs!Free(e)
        BY <2>1, <3>2 DEF Abs!Free
      <3> QED
        BY <3>3 DEF Abs!Next
    <2>2. CASE Ends("fault")
      BY <1>3, <2>2
    <2> QED
      BY <1>5, <2>1, <2>2 DEF Free
  <1>6. CASE Exit
    BY <1>3, <1>6 DEF Exit
  <1>7. CASE UNCHANGED vars
    BY <1>7 DEF vars, bookVars, Abs!absVars, InUse, Pools
  <1> QED
    BY <1>4, <1>5, <1>6, <1>7 DEF Next

LEMMA RefinesInit == Init => Abs!Init
  <1> SUFFICES ASSUME Init PROVE Abs!Init
    OBVIOUS
  <1>1. IInv /\ live = {}
    BY InitInv DEF Init
  <1>2. InUse = {}
    BY <1>1, InUseIs DEF InUseExact
  <1> QED
    BY <1>1, <1>2 DEF Abs!Init

\* The allocator implements PagePool: as long as no request makes `int size'
\* wrap, each mpim_malloc hands out pages of the device that bit vectors and
\* counters call unused, and each mpim_free gives back just those.
THEOREM Implements == ASSUME NoWrap PROVE Spec => Refines
  <1>1. Init => Abs!Init
    BY RefinesInit
  <1>2. IInv /\ IInv' /\ [Next]_vars => [Abs!Next]_(Abs!absVars)
    BY RefinesStep
  <1> QED
    BY <1>1, <1>2, Safety, PTL DEF Spec, Refines, Abs!Spec

==============================================================================
