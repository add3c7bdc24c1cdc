------------------------------- MODULE QdmaXfer -------------------------------
(***************************************************************************)
(* One memory-mapped queue of the QDMA driver, in the polled mode, from    *)
(* the read and write calls on its character device (cdev.c) to the        *)
(* engine: requests go from the work list to descriptors in the ring, to   *)
(* the pending list and back to the caller (libqdma/libqdma_export.c,      *)
(* libqdma/qdma_descq.c); a completion thread keeps polling while there    *)
(* is work (libqdma/qdma_thread.c, libqdma/thread.c); netlink starts and   *)
(* stops the queue.                                                        *)
(*                                                                         *)
(* The engine is not in the repository: it executes the descriptors up to  *)
(* the doorbell in order and writes its index back some time later.        *)
(*                                                                         *)
(* A critical section of the queue's lock is one step, but for the one     *)
(* that fills the ring: there the engine works on while the lock is held.  *)
(* A request is one call; a descriptor is the tag of its request, for one  *)
(* page.                                                                   *)
(***************************************************************************)
EXTENDS Integers, Sequences, FiniteSetsExt

CONSTANTS
  Reqs,       \* the calls made in the life of the model
  Thread,     \* the completion thread
  Nobody,     \* holder of a free lock, tag of a fresh ring slot
  PageCounts, \* numbers of pages a call may have
  RngSz,      \* conf.rngsz
  MaxStarts   \* bound: times the queue is started

ASSUME ActorsAssumption == Thread \notin Reqs /\ Nobody \notin Reqs \cup {Thread}
ASSUME PageCountsAssumption == PageCounts \in SUBSET (Nat \ {0})
ASSUME RngSzAssumption == RngSz \in Nat /\ RngSz > 1
ASSUME MaxStartsAssumption == MaxStarts \in Nat

VARIABLES
  pc,       \* where each call is: "idle", "proc", "fill", "wake", "wait", "returned", "failed"
  cb,       \* qdma_sgt_req_cb of each call, with its number of pages
  descq,    \* the queue as the driver sees it
  holder,   \* who fills the ring with the lock held
  wrote,    \*   and whether it has written descriptors (desc_written)
  thp,      \* the completion thread
  ctl,      \* the netlink side: "idle", "pending", "finish", "detach", "unlist", "clear"
  starts,   \* times the queue was started
  hw,       \* the engine: context set up, ring, doorbell, index, index written back
  executed, \* descriptors of each call the engine has executed
  expired   \* timers that ran out so far: "call", "stop"

vars == <<pc, cb, descq, holder, wrote, thp, ctl, starts, hw, executed, expired>>

Ended == {"returned", "failed"}
Index == 0..(RngSz - 1)

\* From one ring index forward to another.
Ahead(from, to) == IF to < from THEN (RngSz - from) + to ELSE to - from

\* Mutant: the wrap at the end of the ring comes one slot late.
Forward_LateWrap(i, n) == IF i + n > RngSz THEN i + n - RngSz ELSE i + n

\* A ring index n slots further.
Forward(i, n) == IF i + n >= RngSz THEN i + n - RngSz ELSE i + n

NewCb == [pages |-> 0, offset |-> 0, desc_nr |-> 0, done |-> FALSE, status |-> FALSE]

\* Mutant: the whole ring is used.
Usable_All == RngSz

\* Slots in use at most: "cidx would equal pidx and thus the ring would be
\* interpreted as empty".
Usable == RngSz - 1

\* qdma_descq_config_complete: what a start makes of the queue's counters.
Configured(d) ==
  [d EXCEPT !.avail = Usable, !.pend_list_empty = TRUE,
            !.pidx = 0, !.cidx = 0, !.credit = 0]

\* qdma_descq_alloc_resource and qdma_descq_prog_hw: a zeroed ring.
FreshEngine ==
  [on |-> TRUE, ring |-> [i \in Index |-> Nobody], pidx |-> 0, cidx |-> 0, status |-> 0]

Init ==
  /\ pc = [r \in Reqs |-> "idle"]
  /\ cb = [r \in Reqs |-> NewCb]
  /\ descq = [q_state |-> "enabled", q_stop_wait |-> FALSE, pend_list_empty |-> FALSE,
              avail |-> 0, credit |-> 0, pidx |-> 0, cidx |-> 0, cmplthp |-> FALSE,
              work_list |-> <<>>, pend_list |-> <<>>]
  /\ holder = Nobody
  /\ wrote = FALSE
  /\ thp = [pc |-> "look", schedule |-> FALSE, has_queue |-> FALSE]
  /\ ctl = "idle"
  /\ starts = 0
  /\ hw = [FreshEngine EXCEPT !.on = FALSE]
  /\ executed = [r \in Reqs |-> 0]
  /\ expired = {}

----------------------------------------------------------------------------
\* Completion: descq_mm_n_h2c_cmpl_status with qdma_sgt_req_done.

\* Mutant: a request that is done does not use up its credit.
Spend_Nothing(credit, desc_nr) == credit

Spend(credit, desc_nr) == credit - desc_nr

\* The slots that come back with the index written back, and the credit they make.
Completed(d) == Ahead(d.cidx, hw.status)
Credit(d)    == d.credit + Completed(d)

\* How many descriptors the first k requests of the pending list still miss.
Owed(d, c) ==
  LET owed[k \in 0..Len(d.pend_list)] ==
        IF k = 0 THEN 0 ELSE owed[k - 1] + c[d.pend_list[k]].desc_nr
  IN owed

\* Mutant: a request is taken for done as soon as some of its credit is there.
PaidFor_Part(d, c) ==
  Max({k \in 0..Len(d.pend_list) : k = 0 \/ Owed(d, c)[k - 1] < Credit(d)})

\* How many requests the credit pays for, in order.
PaidFor(d, c) == Max({k \in 0..Len(d.pend_list) : Owed(d, c)[k] <= Credit(d)})

\* The queue d and the requests c after n of them are done; what is left of the
\* credit is taken off the next one.
Pay(d, c, n, left) ==
  LET avail == d.avail + Completed(d)
      paid  == {d.pend_list[k] : k \in 1..n}
      next  == IF n < Len(d.pend_list) THEN {d.pend_list[n + 1]} ELSE {}
  IN [q |-> [d EXCEPT
               !.cidx = hw.status,
               !.avail = avail,
               !.credit = IF next = {} THEN left ELSE 0,
               !.pend_list = SubSeq(@, n + 1, Len(@)),
               !.pend_list_empty = IF n > 0 THEN avail = Usable ELSE @],
      c |-> [r \in Reqs |->
               IF r \in paid THEN [c[r] EXCEPT !.done = TRUE]
               ELSE IF r \in next THEN [c[r] EXCEPT !.desc_nr = @ - left]
               ELSE c[r]]]

\* The queue d and the requests c once the index written back is seen.  (The
\* doorbell it rings again carries the index the engine already has.)
CmplStatus(d, c) ==
  LET n == PaidFor(d, c) IN
  IF d.pidx = d.cidx \/ hw.status = d.cidx THEN [q |-> d, c |-> c]
  ELSE Pay(d, c, n, Spend(Credit(d), Owed(d, c)[n]))

----------------------------------------------------------------------------
\* descq_mm_proc_request, run by a call and by the completion thread.

\* Where actor a goes next.
Goto(a, s) ==
  IF a = Thread
  THEN thp' = [thp EXCEPT !.pc = s] /\ UNCHANGED pc
  ELSE pc' = [pc EXCEPT ![a] = s] /\ UNCHANGED thp

\* What follows the request processing: the call waits, the thread looks again.
After(a) == IF a = Thread THEN "look" ELSE "wait"

At(a) == IF a = Thread THEN thp.pc ELSE pc[a]

\* The lock is taken.  While the queue is being stopped only completions are
\* served; a queue that is not online is left alone; else the ring is filled.
ProcBegin(a) ==
  /\ At(a) = "proc"
  /\ a = Thread => thp.has_queue
  /\ holder = Nobody
  /\ LET u == CmplStatus(descq, cb) IN
       \/ /\ descq.q_stop_wait
          /\ descq' = u.q /\ cb' = u.c
          /\ Goto(a, After(a))
          /\ UNCHANGED <<holder, wrote>>
       \/ /\ ~descq.q_stop_wait /\ descq.q_state # "online"
          /\ Goto(a, After(a))
          /\ UNCHANGED <<descq, cb, holder, wrote>>
       \/ /\ ~descq.q_stop_wait /\ descq.q_state = "online"
          /\ descq' = u.q /\ cb' = u.c
          /\ holder' = a
          /\ wrote' = FALSE
          /\ Goto(a, "fill")
  /\ UNCHANGED <<ctl, starts, hw, executed, expired>>

\* A full ring is polled once more before it is given up.
Polled == IF descq.avail = 0 THEN CmplStatus(descq, cb) ELSE [q |-> descq, c |-> cb]

\* Descriptors for the first request of the work list, as many as fit; with its
\* last one (qdma_update_request) it moves to the pending list.
Fill(a) ==
  /\ At(a) = "fill"
  /\ descq.work_list # <<>>
  /\ Polled.q.avail > 0
  /\ LET d == Polled.q
         r == Head(d.work_list)
         n == Min({d.avail, cb[r].pages - cb[r].offset})
         last == cb[r].offset + n = cb[r].pages
         slots == {Forward(d.pidx, k) : k \in 0..(n - 1)}
     IN /\ descq' = [d EXCEPT
                       !.pidx = Forward(@, n),
                       !.avail = @ - n,
                       !.work_list = IF last THEN Tail(@) ELSE @,
                       !.pend_list = IF last THEN Append(@, r) ELSE @]
        /\ cb' = [Polled.c EXCEPT ![r].offset = @ + n, ![r].desc_nr = @ + n]
        /\ hw' = [hw EXCEPT !.ring = [i \in Index |-> IF i \in slots THEN r ELSE @[i]]]
  /\ wrote' = TRUE
  /\ UNCHANGED <<pc, thp, holder, ctl, starts, executed, expired>>

\* Mutant: pend_list_empty is not taken back.
Busy_Not(d) == d

\* There are descriptors for the engine again.
Busy(d) == [d EXCEPT !.pend_list_empty = FALSE]

\* No request or no slot is left: the doorbell, one more poll, the lock released.
Ring(a) ==
  /\ At(a) = "fill"
  /\ LET u == IF descq.work_list = <<>> THEN [q |-> descq, c |-> cb] ELSE Polled
         v == CmplStatus(Busy(u.q), u.c)
     IN /\ descq.work_list = <<>> \/ u.q.avail = 0
        /\ IF wrote
           THEN /\ descq' = v.q /\ cb' = v.c
                /\ hw' = [hw EXCEPT !.pidx = u.q.pidx]
                /\ Goto(a, "wake")
           ELSE /\ descq' = u.q /\ cb' = u.c
                /\ UNCHANGED hw
                /\ Goto(a, After(a))
  /\ holder' = Nobody
  /\ wrote' = FALSE
  /\ UNCHANGED <<ctl, starts, executed, expired>>

\* Mutant: the thread is not woken.
Scheduled_Not == thp.schedule

Scheduled == thp.schedule \/ descq.cmplthp

\* qdma_kthread_wakeup, if the queue has a completion thread by then.
Wake(a) ==
  /\ At(a) = "wake"
  /\ IF a = Thread
     THEN /\ thp' = [thp EXCEPT !.pc = "look", !.schedule = Scheduled]
          /\ UNCHANGED pc
     ELSE /\ thp' = [thp EXCEPT !.schedule = Scheduled]
          /\ pc' = [pc EXCEPT ![a] = "wait"]
  /\ UNCHANGED <<cb, descq, holder, wrote, ctl, starts, hw, executed, expired>>

ProcRequest(a) == ProcBegin(a) \/ Fill(a) \/ Ring(a) \/ Wake(a)

----------------------------------------------------------------------------
\* Calls: cdev_gen_read_write and qdma_request_submit.

\* The buffer is mapped; an online queue takes the request.
Submit(r) ==
  /\ pc[r] = "idle"
  /\ holder = Nobody
  /\ IF descq.q_state = "online"
     THEN /\ \E n \in PageCounts : cb' = [cb EXCEPT ![r] = [NewCb EXCEPT !.pages = n]]
          /\ descq' = [descq EXCEPT !.work_list = Append(@, r)]
          /\ pc' = [pc EXCEPT ![r] = "proc"]
     ELSE /\ pc' = [pc EXCEPT ![r] = "failed"]
          /\ UNCHANGED <<cb, descq>>
  /\ UNCHANGED <<holder, wrote, thp, ctl, starts, hw, executed, expired>>

\* qdma_request_wait_for_cmpl, woken: the answer is in the request.  The request
\* is on the stack of the call: a failed one leaves nothing behind.
WaitDone(r) ==
  /\ pc[r] = "wait"
  /\ holder = Nobody
  /\ cb[r].done
  /\ pc' = [pc EXCEPT ![r] = IF cb[r].status THEN "failed" ELSE "returned"]
  /\ cb' = IF cb[r].status THEN [cb EXCEPT ![r] = NewCb] ELSE cb
  /\ UNCHANGED <<descq, holder, wrote, thp, ctl, starts, hw, executed, expired>>

\* list_del: list s without r, which is in it once or not at all.
Without(s, r) ==
  IF \A k \in 1..Len(s) : s[k] # r THEN s
  ELSE LET i == CHOOSE k \in 1..Len(s) : s[k] = r
       IN [k \in 1..(Len(s) - 1) |-> IF k < i THEN s[k] ELSE s[k + 1]]

\* The same after ten seconds without an answer: the request leaves its list and
\* its buffer is unmapped; its descriptors stay in the ring.
WaitExpired(r) ==
  /\ pc[r] = "wait"
  /\ holder = Nobody
  /\ ~cb[r].done
  /\ descq' = [descq EXCEPT !.work_list = Without(@, r), !.pend_list = Without(@, r)]
  /\ pc' = [pc EXCEPT ![r] = "failed"]
  /\ expired' = expired \cup {"call"}
  /\ cb' = [cb EXCEPT ![r] = NewCb]
  /\ UNCHANGED <<holder, wrote, thp, ctl, starts, hw, executed>>

Call(r) == ProcRequest(r) \/ WaitDone(r)

----------------------------------------------------------------------------
\* The completion thread: xthread_main.  Its lock is held but in "look" and "sleep".

\* qdma_thread_cmpl_status_pend for its queue: serve it, or sleep until woken.
Look ==
  /\ thp.pc = "look"
  /\ holder = Nobody
  /\ IF thp.has_queue /\ (descq.work_list # <<>> \/ descq.pend_list # <<>>)
     THEN thp' = [thp EXCEPT !.pc = "proc", !.schedule = FALSE]
     ELSE thp' = [thp EXCEPT !.pc = "sleep"]
  /\ UNCHANGED <<pc, cb, descq, holder, wrote, ctl, starts, hw, executed, expired>>

Woken ==
  /\ thp.pc = "sleep"
  /\ thp.schedule
  /\ thp' = [thp EXCEPT !.pc = "proc", !.schedule = FALSE]
  /\ UNCHANGED <<pc, cb, descq, holder, wrote, ctl, starts, hw, executed, expired>>

\* A thread without a queue has nothing to serve.
Idle ==
  /\ thp.pc = "proc"
  /\ ~thp.has_queue
  /\ thp' = [thp EXCEPT !.pc = "look"]
  /\ UNCHANGED <<pc, cb, descq, holder, wrote, ctl, starts, hw, executed, expired>>

ThreadStep == Look \/ Woken \/ Idle \/ ProcRequest(Thread)

ThreadUnlocked == thp.pc \in {"look", "sleep"}

----------------------------------------------------------------------------
\* Netlink: one command at a time.

\* qdma_queue_start.  A list with a request left over from the last session leads
\* into the stack of a call that is gone: from there the program has no defined
\* behaviour, and the model does not go on.
Start ==
  /\ ctl = "idle"
  /\ starts < MaxStarts
  /\ descq.q_state = "enabled"
  /\ holder = Nobody
  /\ ThreadUnlocked
  /\ descq.work_list = <<>> /\ descq.pend_list = <<>>
  /\ descq' = [Configured(descq) EXCEPT !.q_state = "online", !.cmplthp = TRUE]
  /\ hw' = FreshEngine
  /\ thp' = [thp EXCEPT !.has_queue = TRUE]
  /\ starts' = starts + 1
  /\ UNCHANGED <<pc, cb, holder, wrote, ctl, executed, expired>>

\* qdma_queue_stop: no more descriptors from here on; it waits unless
\* pend_list_empty says that there is nothing to wait for.
Stop ==
  /\ ctl = "idle"
  /\ descq.q_state = "online"
  /\ holder = Nobody
  /\ descq' = [descq EXCEPT !.q_stop_wait = TRUE]
  /\ ctl' = IF descq.pend_list_empty THEN "finish" ELSE "pending"
  /\ UNCHANGED <<pc, cb, holder, wrote, thp, starts, hw, executed, expired>>

\* The wait ends with pend_list_empty, or after a second.
StopWaited ==
  /\ ctl = "pending"
  /\ ctl' = "finish"
  /\ expired' = IF descq.pend_list_empty THEN expired ELSE expired \cup {"stop"}
  /\ UNCHANGED <<pc, cb, descq, holder, wrote, thp, starts, hw, executed>>

\* Whoever is still in a list is sent away with an error, but stays in the list.
StopFinish ==
  /\ ctl = "finish"
  /\ holder = Nobody
  /\ LET Listed(s) == {s[k] : k \in 1..Len(s)}
         left == Listed(descq.pend_list) \cup Listed(descq.work_list)
     IN cb' = [r \in Reqs |-> IF r \in left
                              THEN [cb[r] EXCEPT !.done = TRUE, !.status = TRUE]
                              ELSE cb[r]]
  /\ descq' = [descq EXCEPT !.q_state = "enabled", !.q_stop_wait = FALSE]
  /\ ctl' = "detach"
  /\ UNCHANGED <<pc, holder, wrote, thp, starts, hw, executed, expired>>

\* qdma_thread_remove_work: the queue forgets its thread, then leaves its list.
StopDetach ==
  /\ ctl = "detach"
  /\ holder = Nobody
  /\ descq' = [descq EXCEPT !.cmplthp = FALSE]
  /\ ctl' = "unlist"
  /\ UNCHANGED <<pc, cb, holder, wrote, thp, starts, hw, executed, expired>>

StopUnlist ==
  /\ ctl = "unlist"
  /\ ThreadUnlocked
  /\ thp' = [thp EXCEPT !.has_queue = FALSE]
  /\ ctl' = "clear"
  /\ UNCHANGED <<pc, cb, descq, holder, wrote, starts, hw, executed, expired>>

\* qdma_descq_context_clear and qdma_descq_free_resource.
StopClear ==
  /\ ctl = "clear"
  /\ hw' = [FreshEngine EXCEPT !.on = FALSE]
  /\ ctl' = "idle"
  /\ UNCHANGED <<pc, cb, descq, holder, wrote, thp, starts, executed, expired>>

StopStep == StopWaited \/ StopFinish \/ StopDetach \/ StopUnlist \/ StopClear

----------------------------------------------------------------------------
\* The engine.

\* The next descriptor; its slot is not read again.
Execute ==
  /\ hw.on
  /\ hw.cidx # hw.pidx
  /\ hw' = [hw EXCEPT !.cidx = Forward(@, 1), !.ring[hw.cidx] = Nobody]
  /\ executed' = [executed EXCEPT ![hw.ring[hw.cidx]] = @ + 1]
  /\ UNCHANGED <<pc, cb, descq, holder, wrote, thp, ctl, starts, expired>>

WriteBack ==
  /\ hw.on
  /\ hw.status # hw.cidx
  /\ hw' = [hw EXCEPT !.status = hw.cidx]
  /\ UNCHANGED <<pc, cb, descq, holder, wrote, thp, ctl, starts, executed, expired>>

----------------------------------------------------------------------------
Next ==
  \/ \E r \in Reqs : Submit(r) \/ Call(r) \/ WaitExpired(r)
  \/ ThreadStep
  \/ Start \/ Stop \/ StopStep
  \/ Execute \/ WriteBack

\* Whoever has begun goes on: locks are handed out in turn (SF), the timer of a
\* stop runs out, and the engine goes on with what it was given.
Fairness ==
  /\ \A r \in Reqs : SF_vars(Call(r))
  /\ SF_vars(ThreadStep)
  /\ SF_vars(StopStep)
  /\ WF_vars(Execute)
  /\ WF_vars(WriteBack)

Spec == Init /\ [][Next]_vars /\ Fairness

----------------------------------------------------------------------------
(* Properties *)

\* Every variable has its type.
TypeOK ==
  /\ pc \in [Reqs -> {"idle", "proc", "fill", "wake", "wait"} \cup Ended]
  /\ cb \in [Reqs -> [pages : Nat, offset : Nat, desc_nr : Nat,
                      done : BOOLEAN, status : BOOLEAN]]
  /\ descq \in [q_state : {"enabled", "online"}, q_stop_wait : BOOLEAN,
                pend_list_empty : BOOLEAN, avail : 0..(RngSz - 1), credit : Nat,
                pidx : Index, cidx : Index, cmplthp : BOOLEAN,
                work_list : Seq(Reqs), pend_list : Seq(Reqs)]
  /\ holder \in Reqs \cup {Thread, Nobody}
  /\ wrote \in BOOLEAN
  /\ thp \in [pc : {"look", "sleep", "proc", "fill", "wake"}, schedule : BOOLEAN,
              has_queue : BOOLEAN]
  /\ ctl \in {"idle", "pending", "finish", "detach", "unlist", "clear"}
  /\ starts \in 0..MaxStarts
  /\ hw \in [on : BOOLEAN, ring : [Index -> Reqs \cup {Nobody}], pidx : Index,
             cidx : Index, status : Index]
  /\ executed \in [Reqs -> Nat]
  /\ expired \in SUBSET {"call", "stop"}

\* What a call is told is true: qdma_request_submit answers with the bytes only
\* when the engine has executed every descriptor of that call, whatever was
\* queued before it, however its descriptors were spread over several fillings
\* of the ring and the completions over several writebacks.  (As long as no call
\* has run out of time: the late completion of one that has is taken for the
\* next one's.)
DoneMeansExecuted ==
  "call" \notin expired =>
    \A r \in Reqs : cb[r].done /\ ~cb[r].status => executed[r] = cb[r].pages

\* The five indices of an online queue are in order around the ring, and avail is
\* what they leave: no slot is written again before the engine has executed it,
\* and a full ring is never taken for an empty one.  Requests that ran out of
\* time do not disturb this.
RingBooks ==
  descq.q_state = "online" =>
    LET used == Ahead(descq.cidx, descq.pidx) IN
      /\ descq.avail + used = RngSz - 1
      /\ Ahead(descq.cidx, hw.status) + Ahead(hw.status, hw.cidx)
           + Ahead(hw.cidx, hw.pidx) + Ahead(hw.pidx, descq.pidx) = used

\* The engine never reads or writes the pages of a call that has returned: they
\* are unpinned by then.  The timers are what can break this, so none has run out.
BuffersStayPinned ==
  expired = {} /\ hw.on =>
    \A i \in Index :
      Ahead(hw.cidx, i) < Ahead(hw.cidx, descq.pidx) => pc[hw.ring[i]] \notin Ended

\* The calls an online queue has not answered, in the order they came.
Waiting ==
  LET list == descq.pend_list \o descq.work_list
  IN IF descq.q_state = "online"
     THEN [k \in 1..Len(list) |-> [call |-> list[k], pages |-> cb[list[k]].pages]]
     ELSE <<>>

\* The calls told of success.
Successes == {r \in Reqs : cb[r].done /\ ~cb[r].status}

Promise == INSTANCE CallQueue WITH queue <- Waiting, moved <- executed, told <- Successes

\* Calls are served strictly in the order they came: with the work list, the ring
\* and the pending list between them, the driver and the engine do what a single
\* queue of calls does, and nobody overtakes.  The fillings of the ring, the
\* doorbells and the polls by whoever comes along are no steps of that queue, or
\* answer some calls at its head.  (As long as no timer runs out.)
ServedInOrder ==
  Promise!Init /\ [][Promise!Next \/ expired' # {}]_<<Waiting, executed, Successes>>

\* No call waits for ever: as long as none runs out of its ten seconds, somebody
\* polls for each until it is done, or the queue is stopped and it is sent away.
\* So the time-out is never what ends a call that the engine has answered.
EveryCallReturns ==
  <>("call" \in expired) \/ []<>(\A r \in Reqs : pc[r] \in {"idle"} \cup Ended)

===============================================================================
