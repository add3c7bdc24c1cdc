------------------------------ MODULE QdmaResource ------------------------------
(***************************************************************************)
(* The queues of one QDMA device, shared by its functions                  *)
(* (libqdma/qdma_access/qdma_resource_mgmt.c): a list of free runs of      *)
(* queues, an entry with one run for each function, and counts of the      *)
(* queues in use.  Each operation holds the resource lock for its whole    *)
(* length and is one step; each may be refused memory for a list node.     *)
(*                                                                         *)
(* The free list is kept in the order of its bases, so it is a set here.   *)
(* One of the three queue types is counted.  Several functions of a device *)
(* call this module: QdmaVf composes it with them.                         *)
(***************************************************************************)
EXTENDS QdmaQueues

CONSTANT Funcs \* functions of the device

VARIABLES
  free,        \* free_list: runs of queues
  dev,         \* dev_list: each function's entry
  active_qcnt, \* queues in use on the device
  nomem        \* an allocation has failed

vars == <<free, dev, active_qcnt, nomem>>

Run == [qbase : -1..TotalQ, total_q : 0..TotalQ]
NoRun == [qbase |-> -1, total_q |-> 0]

End(r) == r.qbase + r.total_q
Queues(r) == r.qbase .. (End(r) - 1)
Covered(list) == UNION {Queues(r) : r \in list}

NoEntry == [there |-> FALSE, range |-> NoRun, active |-> 0]

\* qdma_master_resource_create: one run with everything.
Whole == {r \in {[qbase |-> 0, total_q |-> TotalQ]} : TotalQ > 0}

Init ==
  /\ free = Whole
  /\ dev = [f \in Funcs |-> NoEntry]
  /\ active_qcnt = 0
  /\ nomem = FALSE

----------------------------------------------------------------------------
\* The free list.

\* The merging walk of qdma_submit_to_free_list: neighbouring runs become one,
\* so that (runs being disjoint) what is left are the longest runs.
Merged(list) ==
  {r \in Run : /\ r.total_q > 0
               /\ Queues(r) \subseteq Covered(list)
               /\ r.qbase - 1 \notin Covered(list)
               /\ End(r) \notin Covered(list)}

\* qdma_submit_to_free_list: what becomes of the list and of an entry's range.
\* Without memory for a node both stay as they are.
Submit(list, range) ==
  IF range.total_q = 0
  THEN {[list |-> list, range |-> range, nomem |-> FALSE]}
  ELSE {[list |-> Merged(list \cup {range}), range |-> NoRun, nomem |-> FALSE],
        [list |-> list, range |-> range, nomem |-> TRUE]}

\* The runs that hold all of the queues that are asked for.
Around(list, qmax, qbase) ==
  {r \in list : r.qbase <= qbase /\ qbase + qmax <= End(r)}

\* The run qdma_get_resource_node takes queues from: the one around the base
\* that is asked for, or the best fit, and of those the last.
Fit(list, qmax, qbase) ==
  LET around == IF qbase >= 0 THEN Around(list, qmax, qbase) ELSE {}
      large  == {r \in list : r.total_q >= qmax}
  IN IF around # {}
     THEN {r \in around : \A s \in around : r.qbase <= s.qbase}
     ELSE {r \in large : \A s \in large : \/ r.total_q < s.total_q
                                          \/ r.total_q = s.total_q /\ r.qbase >= s.qbase}

\* Where in run r the queues are taken.
Place(list, qmax, qbase, r) ==
  IF qbase >= 0 /\ Around(list, qmax, qbase) # {} THEN qbase ELSE r.qbase

\* qdma_get_resource_node with the removal of the node it returns: the queues
\* got, and the list without them.  The pieces left and right of them need new
\* nodes; when the second of two cannot be had, the first is already split off.
GetNode(list, qmax, qbase) ==
  LET none(l, oom) == [list |-> l, got |-> NoRun, nomem |-> oom] IN
  IF Fit(list, qmax, qbase) = {} THEN {none(list, FALSE)}
  ELSE UNION {
    LET at    == Place(list, qmax, qbase, r)
        left  == [qbase |-> r.qbase, total_q |-> at - r.qbase]
        right == [qbase |-> at + qmax, total_q |-> End(r) - at - qmax]
        rest  == [qbase |-> at, total_q |-> End(r) - at]
        solid == {p \in {left, right} : p.total_q > 0}
    IN {[list |-> (list \ {r}) \cup solid,
         got  |-> [qbase |-> at, total_q |-> qmax], nomem |-> FALSE]}
       \cup (IF solid = {} THEN {} ELSE {none(list, TRUE)})
       \cup (IF solid = {left, right} THEN {none((list \ {r}) \cup {left, rest}, TRUE)} ELSE {})
    : r \in Fit(list, qmax, qbase)}

\* Mutant: a request that cannot be met leaves the function without its queues.
Restore_Nothing(list, range) == {[list |-> list, got |-> NoRun, nomem |-> FALSE]}

\* "request cannot be accommodated. Restore the dev_entry"
Restore(list, range) == GetNode(list, range.total_q, range.qbase)

\* qdma_request_q_resource: the function's queues go back, then it gets new
\* ones, or failing that the old ones.
Request(list, range, qmax, qbase) ==
  UNION {
    IF qmax = 0
    THEN {[list |-> s.list, range |-> s.range, nomem |-> s.nomem, rv |-> "ok"]}
    ELSE UNION {
      IF t.got # NoRun
      THEN {[list |-> t.list, range |-> t.got, nomem |-> s.nomem \/ t.nomem, rv |-> "ok"]}
      ELSE {[list |-> u.list, range |-> u.got, nomem |-> s.nomem \/ t.nomem \/ u.nomem,
             rv |-> "refused"] : u \in Restore(t.list, range)}
      : t \in GetNode(s.list, qmax, qbase)}
    : s \in Submit(list, range)}

----------------------------------------------------------------------------
\* The operations.

\* qdma_dev_entry_create.
DevCreate(f) ==
  /\ ~ dev[f].there
  /\ dev' = [dev EXCEPT ![f] = [NoEntry EXCEPT !.there = TRUE]]
  /\ UNCHANGED <<free, active_qcnt, nomem>>

\* qdma_dev_entry_destroy.  The entry goes, and with it a range that no node
\* could be had for; queues still counted in active_qcnt stay counted.
DevDestroy(f) ==
  /\ dev[f].there
  /\ \E s \in Submit(free, dev[f].range) :
       /\ free' = s.list
       /\ nomem' = (nomem \/ s.nomem)
  /\ dev' = [dev EXCEPT ![f] = NoEntry]
  /\ UNCHANGED active_qcnt

\* qdma_device_close of the last function: its entry goes, then
\* qdma_master_resource_destroy; the next probe creates a new resource.
Close(f) ==
  IF \E g \in Funcs \ {f} : dev[g].there
  THEN DevDestroy(f)
  ELSE /\ dev[f].there
       /\ free' = Whole
       /\ dev' = [dev EXCEPT ![f] = NoEntry]
       /\ active_qcnt' = 0
       /\ UNCHANGED nomem

\* Mutant: queues in use do not keep a function from a new range.
InUse_Not(f) == FALSE

\* "if any active queue on device, no more new qmax configuration allowed"
InUse(f) == dev[f].active > 0

\* qdma_dev_update, with its result.
DevUpdate(f, qmax, qbase, rv) ==
  \/ /\ ~ dev[f].there
     /\ rv = "no entry"
     /\ UNCHANGED vars
  \/ /\ dev[f].there /\ InUse(f)
     /\ rv = "rejected"
     /\ UNCHANGED vars
  \/ /\ dev[f].there /\ ~ InUse(f)
     /\ \E o \in Request(free, dev[f].range, qmax, qbase) :
          /\ rv = o.rv
          /\ free' = o.list
          /\ dev' = [dev EXCEPT ![f].range = o.range]
          /\ nomem' = (nomem \/ o.nomem)
     /\ UNCHANGED active_qcnt

Results == {"ok", "refused", "rejected", "no entry"}

\* qdma_dev_is_queue_in_range.
InRange(f, qid_hw) ==
  dev[f].there /\ dev[f].range.total_q > 0 /\ qid_hw \in Queues(dev[f].range)

\* The check of qdma_dev_increment_active_queue.
MayCount(f) == dev[f].there /\ dev[f].range.total_q >= dev[f].active + 1

\* qdma_dev_increment_active_queue.
Increment(f) ==
  /\ MayCount(f)
  /\ dev' = [dev EXCEPT ![f].active = @ + 1]
  /\ active_qcnt' = (active_qcnt + 1) % CountMod
  /\ UNCHANGED <<free, nomem>>

\* Mutant: a count of zero goes down too.
Fewer_Always(n) == n - 1

Fewer(n) == IF n > 0 THEN n - 1 ELSE n

\* qdma_dev_decrement_active_queue: the count of the device goes down even
\* when the function's is zero.
Decrement(f) ==
  /\ dev[f].there
  /\ dev' = [dev EXCEPT ![f].active = Fewer(@)]
  /\ active_qcnt' = (active_qcnt - 1) % CountMod
  /\ UNCHANGED <<free, nomem>>

Update(f) ==
  \E qmax \in Sizes, qbase \in -1..TotalQ, rv \in Results : DevUpdate(f, qmax, qbase, rv)

Next ==
  \E f \in Funcs :
    DevCreate(f) \/ DevDestroy(f) \/ Close(f) \/ Update(f) \/ Increment(f) \/ Decrement(f)

Spec == Init /\ [][Next]_vars

----------------------------------------------------------------------------
\* Properties.

\* The type of the books.
TypeOK ==
  /\ free \in SUBSET Run
  /\ dev \in [Funcs -> [there : BOOLEAN, range : Run, active : 0..TotalQ]]
  /\ active_qcnt \in 0..(CountMod - 1)
  /\ nomem \in BOOLEAN

\* No queue is in two hands: the ranges of the functions and the free runs
\* are pairwise disjoint, whatever allocation fails.
RangesApart ==
  /\ \A r, s \in free : r # s => Queues(r) \cap Queues(s) = {}
  /\ \A f \in Funcs, r \in free : Queues(dev[f].range) \cap Queues(r) = {}
  /\ \A f, g \in Funcs : f # g => Queues(dev[f].range) \cap Queues(dev[g].range) = {}

\* No queue is lost, as long as no allocation has failed.
NothingLost ==
  ~ nomem => Covered(free) \cup UNION {Queues(dev[f].range) : f \in Funcs} = 0..(TotalQ - 1)

\* A function has no more queues in use than it has queues.
ActiveFits == \A f \in Funcs : dev[f].active <= dev[f].range.total_q

\* The queues of the device are always split between its functions and the
\* free list.
Partition == RangesApart /\ NothingLost /\ ActiveFits

\* A function whose request is refused keeps the queues it had, as long as no
\* allocation fails on the way: they are found and taken out of the list again.
RefusedKeepsRange ==
  \A f \in Funcs, qmax \in Sizes, qbase \in -1..TotalQ :
    \A o \in Request(free, dev[f].range, qmax, qbase) :
      o.rv = "refused" /\ ~ o.nomem => Queues(o.range) = Queues(dev[f].range)

================================================================================
