------------------------------- MODULE MemPool -------------------------------
(***************************************************************************)
(* The PIM memory allocator of one FPGA device: mpim_malloc, mpim_free and *)
(* the atexit handler of src/mem_src/mpim_mem.c, over the bump allocator   *)
(* multi_mmap_drv of src/mem_src/mdrv_interface.c.                         *)
(*                                                                         *)
(* The device memory is cut into huge pages.  A mem_pool manages one huge  *)
(* page as NumPages pages; requests above a huge page take a chain of      *)
(* neighbouring mem_pools.  mem_pools are numbered 1..npools in the order  *)
(* of the doubly-linked list, head first; nothing ever unlinks one.        *)
(*                                                                         *)
(* An address is the pair (huge page of the device, page in it): mpim_free *)
(* compares addresses only with the bounds of a mem_pool and then shifts.  *)
(***************************************************************************)
EXTENDS Integers, FiniteSets, FiniteSetsExt

CONSTANTS
  NumPages,   \* NUM_PAGES: pages in a huge page (512)
  PageSize,   \* PAGE_SIZE, in the unit requests are expressed in
  IntPools,   \* 2^32 bytes in huge pages (2048): where `int size' wraps
  DevPools,   \* pim_mem_size of the device, in huge pages
  MaxPools,   \* bound of the model: mem_pool structs the process can make
  Sizes       \* the request sizes the clients use

ASSUME NumPagesAssumption == NumPages \in Nat /\ NumPages >= 2
ASSUME PageSizeAssumption == PageSize \in Nat \ {0}
ASSUME IntPoolsAssumption == IntPools \in Nat /\ IntPools >= 4 /\ IntPools % 2 = 0
ASSUME DevPoolsAssumption == DevPools \in Nat \ {0}
ASSUME MaxPoolsAssumption == MaxPools \in Nat \ {0}
ASSUME SizesAssumption    == Sizes \subseteq Nat

Pool == 1..MaxPools
Page == 0..(NumPages - 1)
Uninit == -1                  \* content of malloc'ed memory never written

VARIABLES
  npools,   \* length of the mem_pool list
  base,     \* start_va of each mem_pool
  used,     \* bit_vector: the pages whose character is '1'
  nfree,    \* nfree_pages
  cidx,     \* curr_idx
  large,    \* the mem_pools whose large_mem_pool is true
  asize,    \* head_page[i].alloc_size
  curr,     \* curr_mem_pool
  total,    \* total_size of the driver's bump allocator
  status,   \* "up", "oom" (assert(0) in mmap), "fault" (assert in free), "exited"
  live      \* the clients: what they were given and have not yet freed

bookVars == <<base, used, nfree, cidx, large, asize>>
vars == <<npools, bookVars, curr, total, status, live>>

Pools == 1..npools

(***************************************************************************)
(* What a client holds: n pages from <<hp, pg>>, or n whole huge pages.    *)
(***************************************************************************)
Small(h, i, n) == [kind |-> "small", hp |-> h, pg |-> i, n |-> n]
Chain(h, n)    == [kind |-> "chain", hp |-> h, pg |-> 0, n |-> n]

Extent(e) ==
  IF e.kind = "small" THEN {e.hp} \X (e.pg .. (e.pg + e.n - 1))
                      ELSE (e.hp .. (e.hp + e.n - 1)) \X Page

(***************************************************************************)
(* Size arithmetic of mpim_malloc.                                         *)
(***************************************************************************)
HugeSize == NumPages * PageSize

\* nalloc_pages: at least one page, and one more for any remainder.
NAlloc(size) ==
  (IF size \div PageSize # 0 THEN size \div PageSize ELSE 1)
    + (IF size % PageSize # 0 THEN 1 ELSE 0)

\* num_mem_pool of a large request.
NumHuge(size) ==
  size \div HugeSize + (IF size % HugeSize # 0 THEN 1 ELSE 0)

\* HUGE_PAGE_SIZE * num passed as `int size': the bytes, in huge pages, that
\* multi_mmap_drv adds to total_size.
AsInt(num) ==
  LET m == num % IntPools IN IF m >= IntPools \div 2 THEN m - IntPools ELSE m

\* Mutant: the limit is checked one huge page too late.
Oom_Late(num) == total + AsInt(num) \notin 0..(DevPools + 1)

\* multi_mmap_drv asserts after the addition; a negative sum is a huge uint64.
Oom(num) == total + AsInt(num) \notin 0..DevPools

(***************************************************************************)
(* _set_bit_vector: two rounds of substring search for n free pages.       *)
(***************************************************************************)
\* Mutant: a run may leave the bit vector.
FreeRun_NoEnd(p, i, n) == \A k \in i..(i + n - 1) : k \notin used[p]

FreeRun(p, i, n) ==
  i + n <= NumPages /\ \A k \in i..(i + n - 1) : k \notin used[p]

FirstRound(p, n) == {i \in Page : i >= cidx[p] /\ FreeRun(p, i, n)}

\* The limit is the uint32 curr_idx - 1, which wraps to "no limit" at 0.
SecondRound(p, n) ==
  {i \in Page : (cidx[p] = 0 \/ i + n <= cidx[p] - 1) /\ FreeRun(p, i, n)}

Found(p, n) == IF FirstRound(p, n) # {} THEN FirstRound(p, n) ELSE SecondRound(p, n)

\* Mutant: alloc_size is not recorded.
TakePages_NoSize(p, i, n) ==
  /\ used'  = [used  EXCEPT ![p] = @ \cup i..(i + n - 1)]
  /\ nfree' = [nfree EXCEPT ![p] = @ - n]
  /\ cidx'  = [cidx  EXCEPT ![p] = i + n]
  /\ curr'  = p
  /\ live'  = live \cup {Small(base[p], i, n)}
  /\ UNCHANGED <<npools, base, large, asize, total, status>>

\* What a successful search does to pool p, with the bookkeeping of mpim_malloc.
TakePages(p, i, n) ==
  /\ used'  = [used  EXCEPT ![p] = @ \cup i..(i + n - 1)]
  /\ nfree' = [nfree EXCEPT ![p] = @ - n]
  /\ cidx'  = [cidx  EXCEPT ![p] = i + n]
  /\ asize' = [asize EXCEPT ![p][i] = n]
  /\ curr'  = p
  /\ live'  = live \cup {Small(base[p], i, n)}
  /\ UNCHANGED <<npools, base, large, total, status>>

(***************************************************************************)
(* New mem_pools.  The driver's mmap and its assert come first.            *)
(***************************************************************************)
NewBase(num) ==
  [p \in Pool |-> IF p \in (npools + 1)..(npools + num)
                  THEN total + (p - npools - 1) ELSE base[p]]

\* The process ends, by exit() or by an assert: its memory is gone.
Ends(how) ==
  /\ status' = how
  /\ npools' = 0 /\ curr' = 0 /\ total' = 0 /\ live' = {}
  /\ base'  = [p \in Pool |-> 0]
  /\ used'  = [p \in Pool |-> {}]
  /\ nfree' = [p \in Pool |-> 0]
  /\ cidx'  = [p \in Pool |-> 0]
  /\ large' = {}
  /\ asize' = [p \in Pool |-> [i \in Page |-> Uninit]]

MmapAborts(num) == Oom(num) /\ Ends("oom")

Mmap(num) ==
  /\ ~Oom(num)
  /\ npools + num <= MaxPools
  /\ total'  = total + AsInt(num)
  /\ npools' = npools + num
  /\ base'   = NewBase(num)
  /\ status' = status

(***************************************************************************)
(* mpim_malloc, request of at most a huge page.                            *)
(***************************************************************************)
\* The search starts at curr_mem_pool, or at the head when curr_mem_pool has
\* too few free pages; a pool where _set_bit_vector fails is passed over.
Start(n) == IF n > nfree[curr] THEN 1 ELSE curr

Hits(n) == {p \in Start(n)..npools : n <= nfree[p] /\ Found(p, n) # {}}

MallocPages(size) ==
  /\ status = "up"
  /\ size <= HugeSize
  /\ LET n == NAlloc(size)
         p == Min(Hits(n))
     IN  Hits(n) # {} /\ TakePages(p, Min(Found(p, n)), n)

\* No pool fits: a new one is appended and serves the request from page 0.
MallocNewPool(size) ==
  /\ status = "up"
  /\ size <= HugeSize
  /\ LET n == NAlloc(size)
         q == npools + 1
     IN  /\ Hits(n) = {}
         /\ \/ MmapAborts(1)
            \/ /\ Mmap(1)
               /\ used'  = [used  EXCEPT ![q] = 0..(n - 1)]
               /\ nfree' = [nfree EXCEPT ![q] = NumPages - n]
               /\ cidx'  = [cidx  EXCEPT ![q] = n]
               /\ large' = large \ {q}
               /\ asize' = [asize EXCEPT ![q][0] = n]
               /\ curr'  = q
               /\ live'  = live \cup {Small(total, 0, n)}

(***************************************************************************)
(* mpim_malloc, request above a huge page: a chain of num mem_pools.       *)
(***************************************************************************)
\* Mutant: unused is read from the bit vector, which a chain leaves clear.
AllFree_ByBits(p) == used[p] = {}

AllFree(p) == nfree[p] = NumPages

\* Mutant: the lowest member of the chain is not looked at (cnt started at 1).
FreeChains_SkipLowest(num) ==
  {s \in Pools : s + num - 1 <= npools /\ \A p \in (s + 1)..(s + num - 1) : AllFree(p)}

\* Where the walk from the tail stops with cnt = num_mem_pool - 1.
FreeChains(num) ==
  {s \in Pools : s + num - 1 <= npools /\ \A p \in s..(s + num - 1) : AllFree(p)}

\* The free mem_pools that end the list; the lowest is need_more_mem_pool.
TailRun == {s \in Pools : \A p \in s..npools : AllFree(p)}

\* Mutant: no member is marked.
MarkChain_NoMark(s, num) ==
  /\ nfree' = [p \in Pool |-> IF p \in s..(s + num - 1) THEN 0 ELSE nfree[p]]
  /\ large' = large \ s..(s + num - 1)
  /\ curr'  = s

\* large_mem_pool marks every member of the chain but the last.
MarkChain(s, num) ==
  /\ nfree' = [p \in Pool |-> IF p \in s..(s + num - 1) THEN 0 ELSE nfree[p]]
  /\ large' = (large \cup s..(s + num - 1)) \ {s + num - 1}
  /\ curr'  = s

MallocChain(size) ==
  /\ status = "up"
  /\ size > HugeSize
  /\ LET num == NumHuge(size)
         s   == Max(FreeChains(num))
     IN  /\ FreeChains(num) # {}
         /\ MarkChain(s, num)
         /\ live' = live \cup {Chain(base[s], num)}
  /\ UNCHANGED <<npools, base, used, cidx, asize, total, status>>

\* Pages and search index of the `more' mem_pools made for a chain; with more
\* than one, _multi_large_mem_pool_allocation sets alloc_size of the first.
FreshPools(more) ==
  /\ used' = [p \in Pool |-> IF p \in (npools + 1)..(npools + more) THEN {} ELSE used[p]]
  /\ cidx' = [p \in Pool |-> IF p \in (npools + 1)..(npools + more) THEN 0 ELSE cidx[p]]
  /\ asize' = IF more > 1 THEN [asize EXCEPT ![npools + 1][0] = NumPages] ELSE asize

\* The free end of the list is completed with need_more new mem_pools.
MallocExtend(size) ==
  /\ status = "up"
  /\ size > HugeSize
  /\ LET num  == NumHuge(size)
         s    == Min(TailRun)
         more == num - (npools - s + 1)
     IN  /\ FreeChains(num) = {} /\ TailRun # {}
         /\ \/ MmapAborts(more)
            \/ /\ Mmap(more)
               /\ FreshPools(more)
               /\ MarkChain(s, num)
               /\ live' = live \cup {Chain(base[s], num)}

\* The last mem_pool is in use: the whole chain is new.
MallocFresh(size) ==
  /\ status = "up"
  /\ size > HugeSize
  /\ LET num == NumHuge(size)
     IN  /\ FreeChains(num) = {} /\ TailRun = {}
         /\ \/ MmapAborts(num)
            \/ /\ Mmap(num)
               /\ FreshPools(num)
               /\ MarkChain(npools + 1, num)
               /\ live' = live \cup {Chain(total, num)}

(***************************************************************************)
(* mpim_free: the first mem_pool from the head that contains the address.  *)
(***************************************************************************)
Holders(h) == {p \in Pools : base[p] = h}

\* Mutant: the walk stops one mem_pool after the unmarked one.
ChainEnd_OneMore(p) ==
  IF (p..(npools - 1)) \ large # {} THEN Min((p..npools) \ large) + 1 ELSE npools

\* large_mem_pool is cleared along the chain, up to the first one not marked.
ChainEnd(p) ==
  IF (p..npools) \ large # {} THEN Min((p..npools) \ large) ELSE npools

\* Mutant: the loop leaves before the count of the last member is restored.
FreeChain_NotLast(p) ==
  /\ p \in large
  /\ nfree' = [q \in Pool |-> IF q \in p..(ChainEnd(p) - 1) THEN NumPages ELSE nfree[q]]
  /\ large' = large \ p..ChainEnd(p)
  /\ UNCHANGED <<used, cidx>>

FreeChain(p) ==
  /\ p \in large
  /\ nfree' = [q \in Pool |-> IF q \in p..ChainEnd(p) THEN NumPages ELSE nfree[q]]
  /\ large' = large \ p..ChainEnd(p)
  /\ UNCHANGED <<used, cidx>>

\* Mutant: nfree_pages is not given back.
FreePages_NoCount(p, i) ==
  LET n == asize[p][i] IN
  /\ p \notin large
  /\ used'  = [used  EXCEPT ![p] = @ \ i..(i + n - 1)]
  /\ cidx'  = [cidx  EXCEPT ![p] = i]
  /\ UNCHANGED <<large, nfree>>

FreePages(p, i) ==
  LET n == asize[p][i] IN
  /\ p \notin large
  /\ used'  = [used  EXCEPT ![p] = @ \ i..(i + n - 1)]
  /\ cidx'  = [cidx  EXCEPT ![p] = i]
  /\ nfree' = [nfree EXCEPT ![p] = @ + n]
  /\ UNCHANGED large

\* "Free address not found", "Free size can never be zero" and a read of an
\* alloc_size nothing has written.
FreeFaults(h, i) ==
  \/ Holders(h) = {}
  \/ LET p == Min(Holders(h)) IN p \notin large /\ asize[p][i] <= 0

Free(e) ==
  /\ status = "up"
  /\ \/ /\ ~FreeFaults(e.hp, e.pg)
        /\ LET p == Min(Holders(e.hp)) IN FreeChain(p) \/ FreePages(p, e.pg)
        /\ live' = live \ {e}
        /\ UNCHANGED <<npools, base, asize, curr, total, status>>
     \/ /\ FreeFaults(e.hp, e.pg)
        /\ Ends("fault")

\* _multi_real_free, run by exit(): every mem_pool is released and the device
\* unmapped, whatever the clients still hold.
Exit == status = "up" /\ Ends("exited")

(***************************************************************************)
(* The state after the first mpim_malloc has initialised the device: one   *)
(* free mem_pool that is current, head and tail.                           *)
(***************************************************************************)
Init ==
  /\ npools = 1
  /\ base   = [p \in Pool |-> 0]
  /\ used   = [p \in Pool |-> {}]
  /\ nfree  = [p \in Pool |-> IF p = 1 THEN NumPages ELSE 0]
  /\ cidx   = [p \in Pool |-> 0]
  /\ large  = {}
  /\ asize  = [p \in Pool |-> [i \in Page |-> Uninit]]
  /\ curr   = 1
  /\ total  = 1
  /\ status = "up"
  /\ live   = {}

Malloc(size) ==
  \/ MallocPages(size) \/ MallocNewPool(size)
  \/ MallocChain(size) \/ MallocExtend(size) \/ MallocFresh(size)

Next ==
  \/ \E size \in Sizes : Malloc(size)
  \/ \E e \in live : Free(e)
  \/ Exit

Spec == Init /\ [][Next]_vars

-----------------------------------------------------------------------------
(***************************************************************************)
(* Properties.                                                             *)
(***************************************************************************)
Extents ==
  {Small(h, i, n) : h \in 0..(DevPools - 1), i \in Page, n \in 1..NumPages}
    \cup {Chain(h, n) : h \in 0..(DevPools - 1), n \in 2..DevPools}

\* Type invariant of the allocator's state.
TypeOK ==
  /\ npools \in 0..MaxPools
  /\ base   \in [Pool -> Int]
  /\ used   \in [Pool -> SUBSET Page]
  /\ nfree  \in [Pool -> Int]
  /\ cidx   \in [Pool -> 0..NumPages]
  /\ large  \subseteq Pool
  /\ asize  \in [Pool -> [Page -> 1..NumPages \cup {Uninit}]]
  /\ total  \in Int
  /\ status \in {"up", "oom", "fault", "exited"}
  /\ curr   \in 0..MaxPools
  /\ live   \subseteq [kind : {"small", "chain"}, hp : Int, pg : Page, n : Nat \ {0}]
  /\ status = "up" => curr \in Pools

\* Two live allocations never share a page, be they runs of pages or chains:
\* the promise of mpim_malloc that bit vectors, nfree_pages = NUM_PAGES as the
\* mark of an unused mem_pool, and chain marks must keep together.
Disjoint ==
  \A e, f \in live : e # f => Extent(e) \cap Extent(f) = {}

\* Every live allocation lies inside the device memory that the driver mapped
\* (multi_mmap_drv asserts when the bump pointer passes pim_mem_size).
InDevice ==
  \A e \in live : \A a \in Extent(e) : a[1] \in 0..(DevPools - 1)

PagesLiveIn(p) ==
  {i \in Page : \E e \in live : e.kind = "small" /\ <<base[p], i>> \in Extent(e)}

ChainsOver(p) ==
  {e \in live : e.kind = "chain" /\ base[p] \in e.hp..(e.hp + e.n - 1)}

\* The books balance: the bits set in a mem_pool are the pages of its live
\* allocations, nfree_pages counts the others, and a mem_pool reads 0 free
\* with clear bits exactly while a live chain owns it.  Nothing leaks over
\* any series of mpim_malloc and mpim_free, and nothing is counted twice.
BooksBalance ==
  status = "up" =>
    \A p \in Pools :
      /\ used[p] = PagesLiveIn(p)
      /\ nfree[p] = IF ChainsOver(p) # {} THEN 0 ELSE NumPages - Cardinality(used[p])

\* large_mem_pool is set on every mem_pool of a live chain but its last, and on
\* no other: mpim_free stops at the first mem_pool without the mark, so a stray
\* or a missing mark would free a neighbour or leak a tail.
ChainMarks ==
  status = "up" =>
    \A p \in Pools :
      p \in large <=> \E e \in ChainsOver(p) : base[p] # e.hp + e.n - 1

\* mpim_free of a pointer that mpim_malloc returned finds its mem_pool and an
\* alloc_size written by that malloc: neither assert of mpim_free fires and no
\* uninitialised alloc_size is read.
FreeNeverFaults == status # "fault"

\* The list keeps the order of the addresses, so neighbours in the list are
\* neighbours in memory ("must guarantee virtual address continuous").
Contiguous ==
  \A p \in Pools : p + 1 \in Pools => base[p + 1] = base[p] + 1

InUse ==
  UNION {{base[p]} \X (IF nfree[p] = 0 /\ used[p] = {} THEN Page ELSE used[p])
           : p \in Pools}

\* The allocator implements PagePool: read from the bit vectors and counters
\* alone, the pages in use change by exactly the pages handed out or returned.
Abs == INSTANCE PagePool WITH
  Pages   <- (0..(DevPools - 1)) \X Page,
  PagesOf <- Extent,
  Extents <- Extents,
  inUse   <- InUse,
  held    <- live
Refines == Abs!Spec

Span(e) == IF e.kind = "chain" THEN e.n ELSE 1   \* mem_pools it lies in

\* mpim_free touches no mem_pool outside the freed allocation: freeing one
\* client's memory never changes what mem_pools hold for the others.
FreeIsLocal ==
  [][\A e \in live : e \notin live' /\ status' = "up" =>
       \A p \in Pools :
         base[p] \notin e.hp..(e.hp + Span(e) - 1) =>
           /\ used'[p] = used[p] /\ nfree'[p] = nfree[p]
           /\ (p \in large' <=> p \in large) /\ cidx'[p] = cidx[p]]_vars

-----------------------------------------------------------------------------
(***************************************************************************)
(* The inductive invariant of MemPool_proofs: the invariants above mem_pool*)
(* by mem_pool and page by page, and what ties an address to its mem_pool. *)
(***************************************************************************)
Apart(e, f) ==
  \/ e.hp + Span(e) <= f.hp
  \/ f.hp + Span(f) <= e.hp
  \/ /\ e.kind = "small" /\ f.kind = "small"
     /\ e.pg + e.n <= f.pg \/ f.pg + f.n <= e.pg

Owns(e, p) == e.kind = "chain" /\ e.hp < p /\ p <= e.hp + e.n

HoldsPage(e, p, i) ==
  e.kind = "small" /\ e.hp = p - 1 /\ e.pg <= i /\ i < e.pg + e.n

\* Without wrap-around the bump pointer counts the mem_pools.
Linear ==
  /\ total = npools /\ npools <= DevPools
  /\ \A p \in Pools : base[p] = p - 1

\* What a client holds is where mpim_free will look for it.
LiveShape ==
  \A e \in live :
    /\ e.hp >= 0 /\ e.hp + Span(e) <= npools
    /\ e.kind = "small" => e.pg + e.n <= NumPages /\ asize[e.hp + 1][e.pg] = e.n
    /\ e.kind = "chain" => e.pg = 0 /\ e.n >= 2

AllApart == \A e, f \in live : e # f => Apart(e, f)

BitsExact ==
  \A p \in Pools, i \in Page :
    i \in used[p] <=> \E e \in live : HoldsPage(e, p, i)

CountsExact ==
  \A p \in Pools :
    nfree[p] = IF \E e \in live : Owns(e, p) THEN 0
                                            ELSE NumPages - Cardinality(used[p])

MarksExact ==
  \A p \in Pools : p \in large <=> \E e \in live : Owns(e, p) /\ p # e.hp + e.n

UpInv ==
  /\ Linear /\ LiveShape /\ AllApart /\ BitsExact /\ CountsExact /\ MarksExact

\* No request asks the driver for 2GB or more: `int size' never wraps.
NoWrap == \A size \in Sizes : size > HugeSize => NumHuge(size) < IntPools \div 2

\* While the process runs and nothing has wrapped: the list covers the device
\* up to the bump pointer, clients' allocations lie apart inside it, and every
\* bit, count and mark says exactly what the clients hold.
IInv ==
  /\ TypeOK
  /\ status # "fault"
  /\ IF status = "up" THEN UpInv ELSE live = {} /\ npools = 0

==============================================================================
