--------------------------------- MODULE QdmaVf ---------------------------------
(***************************************************************************)
(* The physical function of a QDMA device and its virtual functions share  *)
(* the queues of QdmaResource.  The physical function works on the books   *)
(* itself; a virtual function asks it to, with messages through the        *)
(* mailbox (libqdma/qdma_mbox.c, qdma_access/qdma_mbox_protocol.c), and    *)
(* waits for the answer for so long.  Each function also keeps its own     *)
(* idea of its range (conf, init_qrange), and the hardware has a register  *)
(* for each, FMAP, through which the function reaches its queues.          *)
(*                                                                         *)
(* The mailbox's work queue is single-threaded, netlink gives each         *)
(* function one command at a time, and the entry and register of a         *)
(* function are touched by its commands and messages only: serving a       *)
(* message is one step, and so is a command of the physical function.      *)
(* Exchanges that only read (CSR, active counts) are left out.             *)
(***************************************************************************)
EXTENDS QdmaQueues, SequencesExt

CONSTANTS
  Pf,        \* the physical function
  Vfs,       \* the virtual functions
  MaxExpired \* bound: waits that end without an answer

ASSUME FunctionsAssumption == Pf \notin Vfs
ASSUME VfsAssumption == IsFiniteSet(Vfs)
ASSUME MaxExpiredAssumption == MaxExpired \in Nat

Funcs == {Pf} \cup Vfs

VARIABLES
  free, dev, active_qcnt, nomem, \* the books, see QdmaResource
  fmap,   \* FMAP register of each function
  drv,    \* each function's driver
  up,     \* messages of each virtual function on their way up
  down,   \* answers on their way down
  expired \* waits that ended without an answer so far

books == <<free, dev, active_qcnt, nomem>>
vars == <<books, fmap, drv, up, down, expired>>

RM == INSTANCE QdmaResource

\* A driver: where it is, its range (conf, qdev), whether FMAP was written,
\* its enabled queues, the queue at work (0 for none), and what a sweep of them leads to.
Closed == [pc |-> "closed", conf |-> RM!NoRun, init_qrange |-> FALSE, queues |-> {},
           q |-> 0, next |-> RM!NoRun, closing |-> FALSE]

\* A zeroed FMAP register.
NoFmap == [qbase |-> 0, total_q |-> 0]

Init ==
  /\ RM!Init
  /\ fmap = [f \in Funcs |-> NoFmap]
  /\ drv = [f \in Funcs |-> Closed]
  /\ up = [v \in Vfs |-> <<>>]
  /\ down = [v \in Vfs |-> <<>>]
  /\ expired = 0

Move(f, s) == drv' = [drv EXCEPT ![f].pc = s]

\* The request a driver waits for in each place.
Op == [hello |-> "HELLO", qreq |-> "QREQ", fmap |-> "FMAP",
       qadd |-> "QNOTIFY_ADD", qdel |-> "QNOTIFY_DEL", swept |-> "QNOTIFY_DEL"]

Waits(v) == drv[v].pc \in DOMAIN Op

\* The queues a new queue can be.
Unused(f) == (0 .. drv[f].conf.total_q - 1) \ drv[f].queues

\* "check if any free qidx available"
MayAdd(f) == dev[f].active < drv[f].conf.total_q

----------------------------------------------------------------------------
\* Both kinds of function: qdma_device_cleanup and what follows it.

\* Every enabled queue was removed.  qdma_device_init for the new range: the
\* register is not written before the first queue is added.
Reinit(f) ==
  /\ drv[f].pc = "sweep" /\ drv[f].queues = {} /\ ~ drv[f].closing
  /\ drv' = [drv EXCEPT ![f] = [Closed EXCEPT !.pc = "idle", !.conf = drv[f].next]]
  /\ UNCHANGED <<books, fmap, up, down, expired>>

----------------------------------------------------------------------------
\* The physical function.

\* qdma_device_open.  An entry that a failed probe left behind is found again
\* (it has no queues, so that the probe's update changes nothing); a probe
\* that fails later leaves the entry.
PfOpen ==
  /\ drv[Pf].pc = "closed"
  /\ \/ RM!DevCreate(Pf)
     \/ dev[Pf].there /\ UNCHANGED books
  /\ \/ drv' = [drv EXCEPT ![Pf].pc = "idle", ![Pf].conf = dev'[Pf].range]
     \/ UNCHANGED drv
  /\ UNCHANGED <<fmap, up, down, expired>>

\* qdma_set_qmax: a new range first, then the cleanup.
PfSetQmax ==
  /\ drv[Pf].pc = "idle"
  /\ \E qmax \in Sizes, rv \in RM!Results :
       /\ RM!DevUpdate(Pf, qmax, -1, rv)
       /\ IF rv = "ok"
          THEN drv' = [drv EXCEPT ![Pf].pc = "sweep", ![Pf].next = dev'[Pf].range]
          ELSE UNCHANGED drv
  /\ UNCHANGED <<fmap, up, down, expired>>

\* device_set_qrange: the register is written once for a range.
Mapped(f) == IF drv[f].init_qrange THEN fmap ELSE [fmap EXCEPT ![f] = drv[f].conf]

\* qdma_queue_add.  A queue that cannot be counted stays enabled.
PfAddQueue ==
  /\ drv[Pf].pc = "idle" /\ MayAdd(Pf)
  /\ \E i \in Unused(Pf) :
       drv' = [drv EXCEPT ![Pf].queues = @ \cup {i}, ![Pf].init_qrange = TRUE]
  /\ fmap' = Mapped(Pf)
  /\ IF RM!MayCount(Pf) THEN RM!Increment(Pf) ELSE UNCHANGED books
  /\ UNCHANGED <<up, down, expired>>

\* qdma_queue_remove, called by a user or by the cleanup.
PfRemoveQueue ==
  /\ drv[Pf].pc \in {"idle", "sweep"}
  /\ \E i \in drv[Pf].queues : drv' = [drv EXCEPT ![Pf].queues = @ \ {i}]
  /\ RM!Decrement(Pf)
  /\ UNCHANGED <<fmap, up, down, expired>>

\* qdma_device_close, once the virtual functions are gone.
PfClose ==
  /\ drv[Pf].pc = "idle"
  /\ \A v \in Vfs : drv[v].pc = "closed" /\ up[v] = <<>>
  /\ drv' = [drv EXCEPT ![Pf].pc = "sweep", ![Pf].closing = TRUE]
  /\ UNCHANGED <<books, fmap, up, down, expired>>

PfClosed ==
  /\ drv[Pf].pc = "sweep" /\ drv[Pf].queues = {} /\ drv[Pf].closing
  /\ RM!Close(Pf)
  /\ drv' = [drv EXCEPT ![Pf] = Closed]
  /\ UNCHANGED <<fmap, up, down, expired>>

----------------------------------------------------------------------------
\* Serving the messages: qdma_mbox_pf_rcv_msg_handler.

Serve(v, op) ==
  /\ up[v] # <<>> /\ Head(up[v]).op = op
  /\ drv[Pf].pc # "closed"
  /\ up' = [up EXCEPT ![v] = Tail(@)]
  /\ UNCHANGED <<drv, expired>>

\* Mutant: a request that fails is not answered.
Answer_OnlyOk(v, ok, range) ==
  down' = IF ok
          THEN [down EXCEPT ![v] = Append(@, [op |-> Head(up[v]).op, ok |-> ok, range |-> range])]
          ELSE down

\* The answer names the operation, not the one request.
Answer(v, ok, range) ==
  down' = [down EXCEPT ![v] = Append(@, [op |-> Head(up[v]).op, ok |-> ok, range |-> range])]

\* A new entry when there is none; it may be refused memory.
ServeHello(v) ==
  /\ Serve(v, "HELLO")
  /\ \/ dev[v].there /\ UNCHANGED books /\ Answer(v, TRUE, dev[v].range)
     \/ RM!DevCreate(v) /\ Answer(v, TRUE, RM!NoRun)
     \/ ~ dev[v].there /\ UNCHANGED books /\ Answer(v, FALSE, RM!NoRun)
  /\ fmap' = [fmap EXCEPT ![v] = NoFmap]

\* Mutant: the register keeps the range the function had before.
Unmapped_Not(v) == fmap

\* A new range is not reached before it is mapped.
Unmapped(v) == [fmap EXCEPT ![v] = NoFmap]

ServeQreq(v) ==
  /\ Serve(v, "QREQ")
  /\ \E rv \in RM!Results :
       /\ RM!DevUpdate(v, Head(up[v]).qmax, -1, rv)
       /\ Answer(v, rv = "ok", dev'[v].range)
       /\ fmap' = IF rv = "ok" THEN Unmapped(v) ELSE fmap

\* The register is written as the function asks.
ServeFmap(v) ==
  /\ Serve(v, "FMAP")
  /\ fmap' = [fmap EXCEPT ![v] = Head(up[v]).range]
  /\ Answer(v, TRUE, RM!NoRun)
  /\ UNCHANGED books

ServeAdd(v) ==
  /\ Serve(v, "QNOTIFY_ADD")
  /\ IF RM!InRange(v, Head(up[v]).qid_hw) /\ RM!MayCount(v)
     THEN RM!Increment(v) /\ Answer(v, TRUE, RM!NoRun)
     ELSE UNCHANGED books /\ Answer(v, FALSE, RM!NoRun)
  /\ UNCHANGED fmap

ServeDel(v) ==
  /\ Serve(v, "QNOTIFY_DEL")
  /\ IF RM!InRange(v, Head(up[v]).qid_hw)
     THEN RM!Decrement(v) /\ Answer(v, TRUE, RM!NoRun)
     ELSE UNCHANGED books /\ Answer(v, FALSE, RM!NoRun)
  /\ UNCHANGED fmap

\* No answer: the function does not wait.
ServeBye(v) ==
  /\ Serve(v, "VF_BYE")
  /\ fmap' = [fmap EXCEPT ![v] = NoFmap]
  /\ \/ RM!DevDestroy(v)
     \/ ~ dev[v].there /\ UNCHANGED books
  /\ UNCHANGED down

PfServe(v) ==
  \/ ServeHello(v) \/ ServeQreq(v) \/ ServeFmap(v)
  \/ ServeAdd(v) \/ ServeDel(v) \/ ServeBye(v)

----------------------------------------------------------------------------
\* A virtual function.

Send(v, m) == up' = [up EXCEPT ![v] = Append(@, m)]

Hw(v, i) == drv[v].conf.qbase + i
AddMsg(v, i) == [op |-> "QNOTIFY_ADD", qid_hw |-> Hw(v, i)]
DelMsg(v, i) == [op |-> "QNOTIFY_DEL", qid_hw |-> Hw(v, i)]

\* qdma_device_open, on a physical function that is there: xdev_sriov_vf_online.
VfOpen(v) ==
  /\ drv[v].pc = "closed" /\ drv[Pf].pc # "closed" /\ ~ drv[Pf].closing
  /\ Move(v, "hello")
  /\ Send(v, [op |-> "HELLO"])
  /\ UNCHANGED <<books, fmap, down, expired>>

\* qdma_vf_qconf.
VfSetQmax(v) ==
  /\ drv[v].pc = "idle"
  /\ \E qmax \in Sizes : Send(v, [op |-> "QREQ", qmax |-> qmax])
  /\ Move(v, "qreq")
  /\ UNCHANGED <<books, fmap, down, expired>>

\* qdma_queue_add: the queue is enabled, mapped if need be, and counted.
VfAddQueue(v) ==
  /\ drv[v].pc = "idle" /\ MayAdd(v)
  /\ \E i \in Unused(v) :
       /\ drv' = [drv EXCEPT ![v].queues = @ \cup {i}, ![v].q = i,
                             ![v].pc = IF drv[v].init_qrange THEN "qadd" ELSE "fmap"]
       /\ Send(v, IF drv[v].init_qrange
                  THEN AddMsg(v, i)
                  ELSE [op |-> "FMAP", range |-> drv[v].conf])
  /\ UNCHANGED <<books, fmap, down, expired>>

\* qdma_queue_remove.
VfRemoveQueue(v) ==
  /\ drv[v].pc = "idle"
  /\ \E i \in drv[v].queues :
       /\ drv' = [drv EXCEPT ![v].pc = "qdel", ![v].q = i]
       /\ Send(v, DelMsg(v, i))
  /\ UNCHANGED <<books, fmap, down, expired>>

\* qdma_device_close.
VfClose(v) ==
  /\ drv[v].pc = "idle"
  /\ drv' = [drv EXCEPT ![v].pc = "sweep", ![v].closing = TRUE]
  /\ UNCHANGED <<books, fmap, up, down, expired>>

\* The cleanup removes one queue after the other.
VfSweep(v) ==
  /\ drv[v].pc = "sweep" /\ drv[v].queues # {}
  /\ LET i == Min(drv[v].queues) IN
       /\ drv' = [drv EXCEPT ![v].pc = "swept", ![v].q = i]
       /\ Send(v, DelMsg(v, i))
  /\ UNCHANGED <<books, fmap, down, expired>>

\* The last thing: xdev_sriov_vf_offline.
VfClosed(v) ==
  /\ drv[v].pc = "sweep" /\ drv[v].queues = {} /\ drv[v].closing
  /\ drv' = [drv EXCEPT ![v] = Closed]
  /\ Send(v, [op |-> "VF_BYE"])
  /\ UNCHANGED <<books, fmap, down, expired>>

\* What a driver does with the answer to its request, or without one.
Done(v, ok, range) ==
  LET d == drv[v]
      go(e) == drv' = [drv EXCEPT ![v] = e]
  IN \/ /\ d.pc = "hello"
        /\ go([Closed EXCEPT !.pc = IF ok THEN "idle" ELSE "closed"])
     \/ /\ d.pc = "qreq"
        /\ go(IF ok THEN [d EXCEPT !.pc = "sweep", !.next = range]
                    ELSE [d EXCEPT !.pc = "idle"])
     \/ /\ d.pc = "fmap"
        /\ go(IF ok THEN [d EXCEPT !.pc = "qadd", !.init_qrange = TRUE]
                    ELSE [d EXCEPT !.pc = "idle", !.q = 0, !.queues = @ \ {d.q}])
     \/ /\ d.pc = "qadd"
        /\ go([d EXCEPT !.pc = "idle", !.q = 0])
     \/ /\ d.pc = "qdel"
        /\ go([d EXCEPT !.pc = "idle", !.q = 0, !.queues = IF ok THEN @ \ {d.q} ELSE @])
     \/ /\ d.pc = "swept"
        /\ go([d EXCEPT !.pc = "sweep", !.q = 0, !.queues = @ \ {d.q}])

\* What a driver that goes on sends next.
Follow(v, ok, queue) ==
  up' = [up EXCEPT ![v] = IF drv[v].pc = "fmap" /\ ok
                          THEN Append(queue, AddMsg(v, drv[v].q)) ELSE queue]

\* qdma_mbox_is_msg_response.
Matches(v, m) == Waits(v) /\ Op[drv[v].pc] = m.op

\* mbox_rcv_one_msg: an answer to the operation that is waited for ends the
\* wait, any other is dropped.
VfReceive(v) ==
  /\ drv[v].pc # "closed" /\ down[v] # <<>>
  /\ LET m == Head(down[v]) IN
       IF Matches(v, m)
       THEN Done(v, m.ok, m.range) /\ Follow(v, m.ok, up[v])
       ELSE UNCHANGED <<drv, up>>
  /\ down' = [down EXCEPT ![v] = Tail(@)]
  /\ UNCHANGED <<books, fmap, expired>>

\* qdma_mbox_msg_send: the wait ends without an answer.  The request is taken
\* back if it was not sent yet.
VfExpire(v) ==
  /\ Waits(v)
  /\ expired < MaxExpired
  /\ expired' = expired + 1
  /\ Done(v, FALSE, RM!NoRun)
  /\ Follow(v, FALSE, IF up[v] = <<>> THEN <<>> ELSE Front(up[v]))
  /\ UNCHANGED <<books, fmap, down>>

VfNext(v) ==
  \/ VfOpen(v) \/ VfSetQmax(v) \/ VfAddQueue(v) \/ VfRemoveQueue(v) \/ VfClose(v)
  \/ VfSweep(v) \/ VfClosed(v) \/ VfReceive(v) \/ VfExpire(v)

----------------------------------------------------------------------------
\* Bound: memory and time do not fail in one behaviour.
OneKind == nomem => expired = 0

Step ==
  \/ PfOpen \/ PfSetQmax \/ PfAddQueue \/ PfRemoveQueue \/ PfClose \/ PfClosed
  \/ \E f \in Funcs : Reinit(f)
  \/ \E v \in Vfs : PfServe(v) \/ VfNext(v)

Next == Step /\ OneKind'

Spec == Init /\ [][Next]_vars

\* The mailbox's work queues run, and a driver that is cleaning up goes on.
FairSpec ==
  /\ Spec
  /\ \A v \in Vfs :
       /\ WF_vars(PfServe(v)) /\ WF_vars(VfReceive(v))
       /\ WF_vars(VfSweep(v) \/ VfClosed(v) \/ Reinit(v))

----------------------------------------------------------------------------
\* Properties.

Messages ==
  {[op |-> "HELLO"], [op |-> "VF_BYE"]}
  \cup [op : {"QREQ"}, qmax : Sizes]
  \cup [op : {"FMAP"}, range : RM!Run]
  \cup [op : {"QNOTIFY_ADD", "QNOTIFY_DEL"}, qid_hw : Int]

\* The type of every variable.
TypeOK ==
  /\ RM!TypeOK
  /\ fmap \in [Funcs -> RM!Run]
  /\ drv \in [Funcs -> [pc : {"closed", "idle", "sweep"} \cup DOMAIN Op, conf : RM!Run,
                        init_qrange : BOOLEAN, queues : SUBSET (0..(TotalQ - 1)),
                        q : 0..TotalQ, next : RM!Run, closing : BOOLEAN]]
  /\ \A v \in Vfs : \A k \in DOMAIN up[v] : up[v][k] \in Messages
  /\ \A v \in Vfs : \A k \in DOMAIN down[v] :
       down[v][k] \in [op : {Op[w] : w \in DOMAIN Op}, ok : BOOLEAN, range : RM!Run]
  /\ expired \in 0..MaxExpired

\* Whatever messages are lost or late and whatever allocation fails, the queues
\* of the device are split between the functions and the free list.
Partition == RM!Partition

\* Nothing was lost: every request was answered in time and every node was had.
Undisturbed == expired = 0 /\ ~ nomem

\* A function that has queues in use reaches its own range through FMAP, and a
\* virtual function never reaches a queue that is not its own.  (The physical
\* function may, between a new range and the first queue of it.)
OwnQueuesMapped ==
  Undisturbed =>
    /\ \A f \in Funcs : dev[f].active > 0 => fmap[f] = dev[f].range
    /\ \A v \in Vfs : RM!Queues(fmap[v]) \subseteq RM!Queues(dev[v].range)

\* Between its commands, a function and the books agree on the size and place of
\* its range and on how many of its queues are in use.
Agrees(f) ==
  drv[f].pc = "idle" =>
    /\ dev[f].there
    /\ drv[f].conf.total_q = dev[f].range.total_q
    /\ drv[f].conf.total_q > 0 => drv[f].conf = dev[f].range
    /\ drv[f].init_qrange => fmap[f] = drv[f].conf
    /\ Cardinality(drv[f].queues) = dev[f].active

\* The drivers and the books agree, and the count of the device is the sum of
\* the counts of the functions.
BooksAgree ==
  Undisturbed =>
    /\ \A f \in Funcs : Agrees(f)
    /\ active_qcnt = MapThenSumSet(LAMBDA f : dev[f].active, Funcs)

\* Every command of a virtual function comes to an end: its requests are
\* answered, and an answer to an older request does no more than end the wait.
EveryCommandEnds ==
  \A v \in Vfs : drv[v].pc \notin {"closed", "idle"} ~> drv[v].pc \in {"closed", "idle"}

================================================================================
