---------------------------- MODULE QdmaXfer_proofs ----------------------------
(***************************************************************************)
(* Proofs about QdmaXfer, for every number of calls and pages, every size  *)
(* of the ring and every number of starts.  The indices of an online queue *)
(* stay in order around the ring, whatever is polled, late or timed out.   *)
(* As long as no call has run out of time, a ledger of the requests says   *)
(* whose each descriptor in the ring is, and how many of them the engine   *)
(* has executed: so whoever is told of success has had all of his, and the *)
(* engine has none before it for a call that has returned.                 *)
(***************************************************************************)
EXTENDS QdmaXfer, TLAPS, WellFoundedInduction

USE ActorsAssumption, PageCountsAssumption, RngSzAssumption, MaxStartsAssumption

(***************************************************************************)
(* Arithmetic on the ring.                                                 *)
(***************************************************************************)
\* The books of a queue with av slots free, driver indices c and p and the
\* engine's s (written back), h (executed) and b (doorbell).
Booked(av, c, s, h, b, p) ==
  /\ av \in Nat
  /\ {c, s, h, b, p} \subseteq Index
  /\ av + Ahead(c, p) = RngSz - 1
  /\ Ahead(c, s) + Ahead(s, h) + Ahead(h, b) + Ahead(b, p) = Ahead(c, p)

LEMMA BookedFresh == Booked(Usable, 0, 0, 0, 0, 0)
  BY DEF Booked, Usable, Index, Ahead

\* What is written back is given to the driver.
LEMMA BookedPoll ==
  ASSUME NEW av, NEW c, NEW s, NEW h, NEW b, NEW p, Booked(av, c, s, h, b, p)
  PROVE  Booked(av + Ahead(c, s), s, s, h, b, p)
  <1>1. /\ av \in Nat /\ c \in Int /\ s \in Int /\ h \in Int /\ b \in Int /\ p \in Int
        /\ 0 <= c /\ c < RngSz /\ 0 <= s /\ s < RngSz /\ 0 <= h /\ h < RngSz
        /\ 0 <= b /\ b < RngSz /\ 0 <= p /\ p < RngSz
    BY DEF Booked, Index
  <1> QED
    BY <1>1 DEF Booked, Ahead

\* n of the free slots are filled.
LEMMA BookedFill ==
  ASSUME NEW av, NEW c, NEW s, NEW h, NEW b, NEW p, Booked(av, c, s, h, b, p),
         NEW n \in 1..av
  PROVE  Booked(av - n, c, s, h, b, Forward(p, n))
  <1>1. /\ av \in Nat /\ c \in Int /\ s \in Int /\ h \in Int /\ b \in Int /\ p \in Int
        /\ 0 <= c /\ c < RngSz /\ 0 <= s /\ s < RngSz /\ 0 <= h /\ h < RngSz
        /\ 0 <= b /\ b < RngSz /\ 0 <= p /\ p < RngSz
    BY DEF Booked, Index
  <1>2. Forward(p, n) \in Index
    BY <1>1 DEF Booked, Ahead, Forward, Index
  <1>3. Ahead(c, Forward(p, n)) = Ahead(c, p) + n
    BY <1>1 DEF Booked, Ahead, Forward
  <1>4. Ahead(b, Forward(p, n)) = Ahead(b, p) + n
    BY <1>1 DEF Booked, Ahead, Forward
  <1>5. Ahead(c, p) \in Int /\ Ahead(b, p) \in Int
    BY <1>1 DEF Ahead
  <1>6. Ahead(c, s) \in Int /\ Ahead(s, h) \in Int /\ Ahead(h, b) \in Int
    BY <1>1 DEF Ahead
  <1> QED
    BY <1>1, <1>2, <1>3, <1>4, <1>5, <1>6 DEF Booked

\* The doorbell is rung.
LEMMA BookedRing ==
  ASSUME NEW av, NEW c, NEW s, NEW h, NEW b, NEW p, Booked(av, c, s, h, b, p)
  PROVE  Booked(av, c, s, h, p, p)
  <1>1. /\ av \in Nat /\ c \in Int /\ s \in Int /\ h \in Int /\ b \in Int /\ p \in Int
        /\ 0 <= c /\ c < RngSz /\ 0 <= s /\ s < RngSz /\ 0 <= h /\ h < RngSz
        /\ 0 <= b /\ b < RngSz /\ 0 <= p /\ p < RngSz
    BY DEF Booked, Index
  <1> QED
    BY <1>1 DEF Booked, Ahead

\* The engine executes a descriptor.
LEMMA BookedExecute ==
  ASSUME NEW av, NEW c, NEW s, NEW h, NEW b, NEW p, Booked(av, c, s, h, b, p), h # b
  PROVE  Booked(av, c, s, Forward(h, 1), b, p)
  <1>1. /\ av \in Nat /\ c \in Int /\ s \in Int /\ h \in Int /\ b \in Int /\ p \in Int
        /\ 0 <= c /\ c < RngSz /\ 0 <= s /\ s < RngSz /\ 0 <= h /\ h < RngSz
        /\ 0 <= b /\ b < RngSz /\ 0 <= p /\ p < RngSz
    BY DEF Booked, Index
  <1>2. Forward(h, 1) \in Index
    BY <1>1 DEF Forward, Index
  <1>3. Ahead(h, b) = Ahead(Forward(h, 1), b) + 1
    BY <1>1 DEF Ahead, Forward
  <1>4. Ahead(s, Forward(h, 1)) = Ahead(s, h) + 1
    BY <1>1 DEF Booked, Ahead, Forward
  <1>5. Ahead(c, p) \in Int /\ Ahead(b, p) \in Int /\ Ahead(c, s) \in Int
        /\ Ahead(s, h) \in Int /\ Ahead(Forward(h, 1), b) \in Int
    BY <1>1, <1>2 DEF Ahead, Index
  <1> QED
    BY <1>1, <1>2, <1>3, <1>4, <1>5 DEF Booked

\* The engine writes its index back.
LEMMA BookedWriteBack ==
  ASSUME NEW av, NEW c, NEW s, NEW h, NEW b, NEW p, Booked(av, c, s, h, b, p)
  PROVE  Booked(av, c, h, h, b, p)
  <1>1. /\ av \in Nat /\ c \in Int /\ s \in Int /\ h \in Int /\ b \in Int /\ p \in Int
        /\ 0 <= c /\ c < RngSz /\ 0 <= s /\ s < RngSz /\ 0 <= h /\ h < RngSz
        /\ 0 <= b /\ b < RngSz /\ 0 <= p /\ p < RngSz
    BY DEF Booked, Index
  <1> QED
    BY <1>1 DEF Booked, Ahead

\* Places on a line, and the same places counted from s.
LEMMA NotBetween ==
  ASSUME NEW i \in Int, NEW j \in Int, NEW s \in Int, NEW e \in Int, NEW t \in Nat,
         i <= j, j <= s, s <= e, e + t < i
  PROVE  FALSE
  OBVIOUS

LEMMA CountedFrom ==
  ASSUME NEW s \in Int, NEW e \in Int, NEW t \in Int, NEW o \in Int
  PROVE  /\ e + t < o => (e - s) + t < o - s
         /\ o <= e + t => o - s <= (e - s) + t
  OBVIOUS

LEMMA InLast ==
  ASSUME NEW o \in Int, NEW e \in Int, NEW u \in Int, NEW n \in Int, NEW t \in Int,
         o <= e + u, u <= t, t <= u + n - 1
  PROVE  o <= e + t /\ e + t < e + u + n
  OBVIOUS

LEMMA OneMore ==
  ASSUME NEW k \in Int, NEW n \in Int, NEW m, m = n \/ m = n + 1, k # n + 1
  PROVE  (k <= m <=> k <= n) /\ (k <= n \/ k > n + 1)
  OBVIOUS

(***************************************************************************)
(* The inductive invariant.                                                *)
(***************************************************************************)
Actors == Reqs \cup {Thread}
online == descq.q_state = "online"

DescqFields == {"q_state", "q_stop_wait", "pend_list_empty", "avail", "credit",
                "pidx", "cidx", "cmplthp", "work_list", "pend_list"}
CbFields == {"pages", "offset", "desc_nr", "done", "status"}

IsDescq(d) == DOMAIN d = DescqFields
IsCb(c) == DOMAIN c = Reqs /\ \A r \in Reqs : DOMAIN c[r] = CbFields

\* The variables are the records and functions they are meant to be.
Shape ==
  /\ IsDescq(descq)
  /\ IsCb(cb)
  /\ DOMAIN pc = Reqs
  /\ DOMAIN thp = {"pc", "schedule", "has_queue"}
  /\ DOMAIN hw = {"on", "ring", "pidx", "cidx", "status"}
  /\ hw.pidx \in Index /\ hw.cidx \in Index /\ hw.status \in Index

\* Only an online queue is filled, by one actor at a time; only an idle netlink
\* side starts a queue, and it stays online until the stop is carried out.
Held ==
  /\ \A a \in Actors : At(a) = "fill" => holder = a
  /\ holder # Nobody => online
  /\ online => ctl \in {"idle", "pending", "finish"}

\* The work list w of requests c, whose calls are at l: each is there once, under
\* way, and with pages left.
Listed(w, c, l) ==
  /\ w \in Seq(Reqs)
  /\ \A j, k \in 1..Len(w) : j # k => w[j] # w[k]
  /\ \A k \in 1..Len(w) :
       /\ l[w[k]] # "idle"
       /\ c[w[k]].pages \in Nat /\ c[w[k]].offset \in Nat
       /\ c[w[k]].offset < c[w[k]].pages
       /\ c[w[k]].status = FALSE

QBooked(d, h) == Booked(d.avail, d.cidx, h.status, h.cidx, h.pidx, d.pidx)

RInv ==
  /\ Shape
  /\ Held
  /\ online => Listed(descq.work_list, cb, pc) /\ QBooked(descq, hw)

LEMMA RInvBooks == RInv => RingBooks
  BY DEF RInv, RingBooks, QBooked, Booked, online

LEMMA InitRInv == Init => RInv
  <1> SUFFICES ASSUME Init PROVE RInv
    OBVIOUS
  <1>1. Shape
    BY DEF Init, Shape, IsDescq, IsCb, DescqFields, CbFields, NewCb, FreshEngine, Index
  <1>2. Held
    BY DEF Init, Held, At, Actors, online
  <1>3. ~online
    BY DEF Init, online
  <1> QED
    BY <1>1, <1>2, <1>3 DEF RInv

(***************************************************************************)
(* Polling.                                                                *)
(***************************************************************************)
\* What CmplStatus does to the queue d and the requests c, as far as the ring's
\* books and the work list are concerned.
PolledTo(d, c, u) ==
  /\ IsDescq(u.q) /\ IsCb(u.c)
  /\ u.q.work_list = d.work_list /\ u.q.pidx = d.pidx
  /\ u.q.q_state = d.q_state
  /\ \/ u.q.cidx = d.cidx /\ u.q.avail = d.avail
     \/ u.q.cidx = hw.status /\ u.q.avail = d.avail + Ahead(d.cidx, hw.status)
  /\ \A r \in Reqs : /\ u.c[r].pages = c[r].pages /\ u.c[r].offset = c[r].offset
                     /\ u.c[r].status = c[r].status

LEMMA PayTo ==
  ASSUME NEW d, NEW c, IsDescq(d), IsCb(c), NEW n, NEW left
  PROVE  PolledTo(d, c, Pay(d, c, n, left))
  <1> DEFINE paid == {d.pend_list[k] : k \in 1..n}
             next == IF n < Len(d.pend_list) THEN {d.pend_list[n + 1]} ELSE {}
             pend == SubSeq(d.pend_list, n + 1, Len(d.pend_list))
             mark == IF n > 0 THEN d.avail + Completed(d) = Usable ELSE d.pend_list_empty
             rest == IF next = {} THEN left ELSE 0
             e    == [d EXCEPT !.cidx = hw.status, !.avail = d.avail + Completed(d),
                               !.credit = rest, !.pend_list = pend, !.pend_list_empty = mark]
             f    == [r \in Reqs |->
                        IF r \in paid THEN [c[r] EXCEPT !.done = TRUE]
                        ELSE IF r \in next THEN [c[r] EXCEPT !.desc_nr = @ - left]
                        ELSE c[r]]
  <1>1. Pay(d, c, n, left) = [q |-> e, c |-> f]
    BY Zenon DEF Pay
  <1> HIDE DEF paid, next, pend, mark, rest
  <1>2. /\ IsDescq(e) /\ e.work_list = d.work_list /\ e.pidx = d.pidx
        /\ e.q_state = d.q_state /\ e.cidx = hw.status /\ e.avail = d.avail + Completed(d)
    BY DEF IsDescq, DescqFields
  <1>3. /\ IsCb(f)
        /\ \A r \in Reqs : /\ f[r].pages = c[r].pages /\ f[r].offset = c[r].offset
                           /\ f[r].status = c[r].status
    BY DEF IsCb, CbFields
  <1> HIDE DEF e, f
  <1> QED
    BY <1>1, <1>2, <1>3 DEF PolledTo, Completed

LEMMA PollTo ==
  ASSUME NEW d, NEW c, IsDescq(d), IsCb(c)
  PROVE  PolledTo(d, c, CmplStatus(d, c))
  <1>1. CASE d.pidx = d.cidx \/ hw.status = d.cidx
    <2>1. CmplStatus(d, c) = [q |-> d, c |-> c]
      BY <1>1, Zenon DEF CmplStatus
    <2> QED
      BY <2>1 DEF PolledTo
  <1>2. CASE ~(d.pidx = d.cidx \/ hw.status = d.cidx)
    <2>1. PICK n, left : CmplStatus(d, c) = Pay(d, c, n, left)
      BY <1>2, Zenon DEF CmplStatus
    <2> QED
      BY <2>1, PayTo
  <1> QED
    BY <1>1, <1>2

LEMMA PollBooks ==
  ASSUME NEW d, NEW c, NEW u, Shape, QBooked(d, hw), PolledTo(d, c, u)
  PROVE  QBooked(u.q, hw)
  BY BookedPoll DEF QBooked, PolledTo

LEMMA ListedStays ==
  ASSUME NEW w, NEW c, NEW l, NEW d, NEW m, Listed(w, c, l),
         \A r \in Reqs : l[r] # "idle" => m[r] # "idle",
         \A k \in 1..Len(w) : /\ d[w[k]].pages = c[w[k]].pages
                              /\ d[w[k]].offset = c[w[k]].offset
                              /\ d[w[k]].status = c[w[k]].status
  PROVE  Listed(w, d, m)
  <1>1. \A k \in 1..Len(w) : w[k] \in Reqs
    BY DEF Listed
  <1> QED
    BY <1>1 DEF Listed

LEMMA PollListed ==
  ASSUME NEW d, NEW c, NEW u, NEW m, PolledTo(d, c, u), Listed(d.work_list, c, pc),
         \A r \in Reqs : pc[r] # "idle" => m[r] # "idle"
  PROVE  Listed(u.q.work_list, u.c, m)
  <1>1. \A k \in 1..Len(d.work_list) : d.work_list[k] \in Reqs
    BY DEF Listed
  <1> QED
    BY <1>1, ListedStays DEF PolledTo

(***************************************************************************)
(* The steps.                                                              *)
(***************************************************************************)
LEMMA Going ==
  ASSUME Shape, NEW a \in Actors, NEW s, Goto(a, s), s # "idle"
  PROVE  /\ DOMAIN pc' = Reqs /\ DOMAIN thp' = {"pc", "schedule", "has_queue"}
         /\ At(a)' = s
         /\ \A b \in Actors : b # a => At(b)' = At(b)
         /\ \A r \in Reqs : pc[r] # "idle" => pc'[r] # "idle"
  BY DEF Shape, Goto, At, Actors

\* A step of actor a that goes on to s and leaves the lock to h.
LEMMA GoingHeld ==
  ASSUME Shape, Held, NEW a \in Actors, NEW s, NEW h, Goto(a, s), s # "idle",
         holder = Nobody \/ holder = a,
         s = "fill" => h = a /\ online, s # "fill" => h = Nobody, holder' = h,
         descq'.q_state = descq.q_state, ctl' = ctl
  PROVE  Held'
  <1>1. /\ At(a)' = s
        /\ \A b \in Actors : b # a => At(b)' = At(b)
    BY Going
  <1>2. \A b \in Actors : At(b)' = "fill" => b = a
    BY <1>1 DEF Held, Actors
  <1> QED
    BY <1>1, <1>2 DEF Held, online, Actors

LEMMA AfterNames ==
  ASSUME NEW a
  PROVE  After(a) # "idle" /\ After(a) # "fill"
  BY DEF After

LEMMA ProcBeginStep ==
  ASSUME RInv, NEW a \in Actors, ProcBegin(a)
  PROVE  RInv'
  <1> DEFINE u == CmplStatus(descq, cb)
  <1>0. Shape /\ Held
    BY DEF RInv
  <1>1. PolledTo(descq, cb, u)
    BY <1>0, PollTo DEF Shape
  <1>2. PICK s : /\ Goto(a, s) /\ s # "idle"
                 /\ s = "fill" => holder' = a /\ online
                 /\ s # "fill" => holder' = Nobody
    BY AfterNames DEF ProcBegin, online
  <1>3. holder = Nobody /\ UNCHANGED <<ctl, hw>>
    BY DEF ProcBegin
  <1>4. (descq' = u.q /\ cb' = u.c) \/ UNCHANGED <<descq, cb>>
    BY DEF ProcBegin
  <1> HIDE DEF u
  <1>5. Shape'
    BY <1>0, <1>1, <1>2, <1>3, <1>4, Going DEF Shape, PolledTo
  <1>6. descq'.q_state = descq.q_state
    BY <1>1, <1>4 DEF PolledTo
  <1>7. Held'
    BY <1>0, <1>2, <1>3, <1>6, GoingHeld
  <1>8. \A r \in Reqs : pc[r] # "idle" => pc'[r] # "idle"
    BY <1>0, <1>2, Going
  <1>9. CASE ~online
    BY <1>5, <1>6, <1>7, <1>9 DEF RInv, online
  <1>10. CASE online
    <2>1. Listed(descq.work_list, cb, pc) /\ QBooked(descq, hw)
      BY <1>10 DEF RInv
    <2>2. Listed(descq'.work_list, cb', pc')
      <3>1. CASE descq' = u.q /\ cb' = u.c
        BY <2>1, <3>1, <1>1, <1>8, PollListed
      <3>2. CASE UNCHANGED <<descq, cb>>
        BY <2>1, <3>2, <1>8, ListedStays
      <3> QED
        BY <1>4, <3>1, <3>2
    <2>3. QBooked(descq', hw')
      <3>1. CASE descq' = u.q
        BY <2>1, <3>1, <1>0, <1>1, <1>3, PollBooks
      <3>2. CASE UNCHANGED descq
        BY <2>1, <3>2, <1>3
      <3> QED
        BY <1>4, <3>1, <3>2
    <2> QED
      BY <1>5, <1>7, <2>2, <2>3 DEF RInv
  <1> QED
    BY <1>9, <1>10

LEMMA MinOfTwo ==
  ASSUME NEW m \in Int, NEW n \in Int
  PROVE  Min({m, n}) \in {m, n} /\ Min({m, n}) <= m /\ Min({m, n}) <= n
  <1>1. \E x \in {m, n} : \A y \in {m, n} : x <= y
    BY DEF Min
  <1> QED
    BY <1>1 DEF Min

LEMMA PolledBooks ==
  ASSUME RInv
  PROVE  /\ PolledTo(descq, cb, Polled)
         /\ online => QBooked(Polled.q, hw)
  <1>0. Shape /\ (online => QBooked(descq, hw))
    BY DEF RInv
  <1>1. CASE descq.avail = 0
    <2>1. Polled = CmplStatus(descq, cb)
      BY <1>1, Zenon DEF Polled
    <2> QED
      BY <2>1, <1>0, PollTo, PollBooks DEF Shape
  <1>2. CASE descq.avail # 0
    <2>1. Polled = [q |-> descq, c |-> cb]
      BY <1>2, Zenon DEF Polled
    <2> QED
      BY <2>1, <1>0 DEF PolledTo, Shape
  <1> QED
    BY <1>1, <1>2

\* n descriptors for the first request of the list; it leaves the list with its last.
LEMMA FillList ==
  ASSUME NEW w, NEW c, NEW l, NEW n, IsCb(c), Listed(w, c, l), w # <<>>,
         n \in 1..(c[Head(w)].pages - c[Head(w)].offset),
         NEW d, d = [c EXCEPT ![Head(w)].offset = @ + n, ![Head(w)].desc_nr = @ + n]
  PROVE  IF c[Head(w)].offset + n = c[Head(w)].pages THEN Listed(Tail(w), d, l)
         ELSE Listed(w, d, l)
  <1>1. w \in Seq(Reqs) /\ Len(w) \in Nat /\ Len(w) > 0 /\ Head(w) = w[1]
        /\ \A k \in 1..Len(w) : w[k] \in Reqs
    BY DEF Listed
  <1>2. \A k \in 1..Len(w) : k # 1 => d[w[k]] = c[w[k]]
    BY <1>1 DEF Listed, IsCb
  <1>3. /\ d[w[1]].pages = c[w[1]].pages /\ d[w[1]].status = c[w[1]].status
        /\ d[w[1]].offset = c[w[1]].offset + n
    BY <1>1 DEF IsCb, CbFields
  <1>4. CASE c[w[1]].offset + n = c[w[1]].pages
    <2>1. /\ Tail(w) \in Seq(Reqs) /\ Len(Tail(w)) = Len(w) - 1
          /\ \A k \in 1..Len(Tail(w)) : Tail(w)[k] = w[k + 1] /\ k + 1 \in 1..Len(w)
      BY <1>1
    <2> DEFINE t == Tail(w)
    <2> HIDE DEF t
    <2>2. \A k \in 1..Len(t) : t[k] = w[k + 1] /\ k + 1 \in 1..Len(w) /\ k + 1 # 1
      BY <2>1, <1>1 DEF t
    <2>3. \A j, k \in 1..Len(t) : j # k => t[j] # t[k]
      <3> SUFFICES ASSUME NEW j \in 1..Len(t), NEW k \in 1..Len(t), j # k
                   PROVE  t[j] # t[k]
        OBVIOUS
      <3>1. j + 1 # k + 1 /\ j + 1 \in 1..Len(w) /\ k + 1 \in 1..Len(w)
        BY <2>2
      <3> QED
        BY <3>1, <2>2 DEF Listed
    <2>4. \A k \in 1..Len(t) : t[k] = w[k + 1] /\ d[t[k]] = c[w[k + 1]]
      BY <2>2, <1>2
    <2>5. \A k \in 1..Len(t) :
            /\ l[t[k]] # "idle"
            /\ d[t[k]].pages \in Nat /\ d[t[k]].offset \in Nat
            /\ d[t[k]].offset < d[t[k]].pages
            /\ d[t[k]].status = FALSE
      <3> SUFFICES ASSUME NEW k \in 1..Len(t)
                   PROVE  /\ l[t[k]] # "idle"
                          /\ d[t[k]].pages \in Nat /\ d[t[k]].offset \in Nat
                          /\ d[t[k]].offset < d[t[k]].pages
                          /\ d[t[k]].status = FALSE
        OBVIOUS
      <3>1. t[k] = w[k + 1] /\ d[t[k]] = c[w[k + 1]] /\ k + 1 \in 1..Len(w)
        BY <2>2, <2>4
      <3> QED
        BY <3>1 DEF Listed
    <2>6. t \in Seq(Reqs)
      BY <2>1 DEF t
    <2>7. Listed(t, d, l)
      BY <2>3, <2>5, <2>6 DEF Listed
    <2> QED
      BY <2>7, <1>4, <1>1 DEF t
  <1>5. CASE c[w[1]].offset + n # c[w[1]].pages
    <2>1. d[w[1]].offset \in Nat /\ d[w[1]].offset < d[w[1]].pages
      <3>1. /\ c[w[1]].pages \in Nat /\ c[w[1]].offset \in Nat
            /\ n \in 1..(c[w[1]].pages - c[w[1]].offset)
        BY <1>1 DEF Listed
      <3> QED
        BY <3>1, <1>3, <1>5
    <2>2. Listed(w, d, l)
      BY <2>1, <1>1, <1>2, <1>3 DEF Listed
    <2> QED
      BY <2>2, <1>5, <1>1
  <1> QED
    BY <1>4, <1>5

\* What a filling step does: n descriptors for the first request r of the list.
Filled(a, n, d, c, r) ==
  /\ holder = a /\ online
  /\ d.work_list = descq.work_list /\ d.work_list # <<>> /\ r = Head(d.work_list) /\ r \in Reqs
  /\ IsDescq(d) /\ IsCb(c) /\ d.q_state = descq.q_state
  /\ n \in 1..d.avail /\ n \in 1..(c[r].pages - c[r].offset)
  /\ descq' = [d EXCEPT
                  !.pidx = Forward(@, n),
                  !.avail = @ - n,
                  !.work_list = IF c[r].offset + n = c[r].pages THEN Tail(@) ELSE @,
                  !.pend_list = IF c[r].offset + n = c[r].pages THEN Append(@, r) ELSE @]
  /\ cb' = [c EXCEPT ![r].offset = @ + n, ![r].desc_nr = @ + n]
  /\ hw' = [hw EXCEPT !.ring = [i \in Index |->
                IF i \in {Forward(d.pidx, k) : k \in 0..(n - 1)} THEN r ELSE hw.ring[i]]]
  /\ wrote' = TRUE
  /\ UNCHANGED <<pc, thp, holder, ctl, starts, executed, expired>>

LEMMA FillGuards ==
  ASSUME NEW a, Fill(a)
  PROVE  /\ At(a) = "fill" /\ descq.work_list # <<>> /\ Polled.q.avail > 0 /\ wrote' = TRUE
         /\ UNCHANGED <<pc, thp, holder, ctl, starts, executed, expired>>
  BY Zenon DEF Fill

LEMMA FillIs ==
  ASSUME RInv, NEW a \in Actors, Fill(a)
  PROVE  \E n : Filled(a, n, Polled.q, Polled.c, Head(Polled.q.work_list))
  <1> DEFINE d == Polled.q
             c == Polled.c
             r == Head(d.work_list)
             n == Min({d.avail, c[r].pages - c[r].offset})
  <1>0. Shape /\ Held
    BY DEF RInv
  <1>1. PolledTo(descq, cb, Polled)
    BY PolledBooks
  <1>2. holder = a /\ online
    BY <1>0, FillGuards DEF Held, Actors
  <1>3. QBooked(d, hw) /\ Listed(d.work_list, c, pc)
    BY <1>1, <1>2, PolledBooks, PollListed DEF RInv
  <1>4. /\ d.work_list = descq.work_list /\ d.work_list # <<>>
        /\ r \in Reqs
        /\ c[r].pages \in Nat /\ c[r].offset \in Nat /\ c[r].offset < c[r].pages
        /\ c[r].pages = cb[r].pages /\ c[r].offset = cb[r].offset
    <2>1. d.work_list = descq.work_list /\ d.work_list # <<>>
      BY <1>1 DEF PolledTo, Fill
    <2>2. r = d.work_list[1] /\ 1 \in 1..Len(d.work_list) /\ r \in Reqs
      BY <2>1, <1>3 DEF Listed
    <2> QED
      BY <2>1, <2>2, <1>1, <1>3 DEF Listed, PolledTo
  <1>5. d.avail \in Nat /\ d.avail > 0
    BY <1>3, FillGuards DEF QBooked, Booked
  <1>6. n \in 1..d.avail /\ n \in 1..(c[r].pages - c[r].offset)
    <2> DEFINE m == c[r].pages - c[r].offset
    <2>1. m \in Int /\ m > 0 /\ d.avail \in Int
      BY <1>4, <1>5
    <2> HIDE DEF m
    <2>2. Min({d.avail, m}) \in {d.avail, m} /\ Min({d.avail, m}) <= d.avail
          /\ Min({d.avail, m}) <= m
      BY <2>1, MinOfTwo
    <2>3. n = Min({d.avail, m})
      BY Zenon DEF m
    <2> HIDE DEF n, d
    <2>4. n \in 1..d.avail /\ n \in 1..m
      BY <2>1, <2>2, <2>3, <1>5
    <2> QED
      BY <2>4 DEF m
  <1>7. /\ descq' = [d EXCEPT
                  !.pidx = Forward(@, n),
                  !.avail = @ - n,
                  !.work_list = IF c[r].offset + n = c[r].pages THEN Tail(@) ELSE @,
                  !.pend_list = IF c[r].offset + n = c[r].pages THEN Append(@, r) ELSE @]
        /\ cb' = [c EXCEPT ![r].offset = @ + n, ![r].desc_nr = @ + n]
        /\ hw' = [hw EXCEPT !.ring = [i \in Index |->
                IF i \in {Forward(d.pidx, k) : k \in 0..(n - 1)} THEN r ELSE hw.ring[i]]]
    BY <1>4 DEF Fill
  <1>8. wrote' = TRUE /\ UNCHANGED <<pc, thp, holder, ctl, starts, executed, expired>>
    BY FillGuards
  <1>9. IsDescq(d) /\ IsCb(c) /\ d.q_state = descq.q_state
    BY <1>1 DEF PolledTo
  <1> HIDE DEF d, c, r, n
  <1>10. Filled(a, n, d, c, r)
    BY <1>2, <1>4, <1>6, <1>7, <1>8, <1>9, Zenon DEF Filled, r
  <1> QED
    BY <1>10 DEF d, c, r

LEMMA FillStep ==
  ASSUME RInv, NEW a \in Actors, Fill(a)
  PROVE  RInv'
  <1> DEFINE d == Polled.q
             c == Polled.c
             r == Head(d.work_list)
  <1>0. Shape /\ Held
    BY DEF RInv
  <1>1. PolledTo(descq, cb, Polled)
    BY PolledBooks
  <1>2. PICK n : Filled(a, n, d, c, r)
    BY FillIs
  <1>3. QBooked(d, hw) /\ Listed(d.work_list, c, pc)
    BY <1>1, <1>2, PolledBooks, PollListed DEF RInv, Filled
  <1> HIDE DEF d, c
  <1>4. /\ d.work_list = descq.work_list /\ d.work_list # <<>> /\ r \in Reqs
        /\ IsDescq(d) /\ IsCb(c) /\ d.q_state = descq.q_state
        /\ n \in 1..d.avail /\ n \in 1..(c[r].pages - c[r].offset)
        /\ cb' = [c EXCEPT ![r].offset = @ + n, ![r].desc_nr = @ + n]
        /\ holder = a /\ online /\ UNCHANGED <<pc, thp, holder, ctl>>
    BY <1>2, Zenon DEF Filled
  <1>5. PICK wl, pl :
          /\ descq' = [d EXCEPT !.pidx = Forward(@, n), !.avail = @ - n,
                                !.work_list = wl, !.pend_list = pl]
          /\ wl = IF c[r].offset + n = c[r].pages THEN Tail(d.work_list) ELSE d.work_list
    BY <1>2 DEF Filled
  <1>6. \E ring : hw' = [hw EXCEPT !.ring = ring]
    BY <1>2, Zenon DEF Filled
  <1> HIDE DEF r
  <1>7. /\ IsDescq(descq') /\ descq'.q_state = descq.q_state
        /\ descq'.work_list = wl /\ descq'.avail = d.avail - n
        /\ descq'.pidx = Forward(d.pidx, n) /\ descq'.cidx = d.cidx
    BY <1>4, <1>5 DEF IsDescq, DescqFields
  <1>8. IsCb(cb')
    BY <1>4 DEF IsCb
  <1>9. /\ hw'.pidx = hw.pidx /\ hw'.cidx = hw.cidx /\ hw'.status = hw.status
        /\ DOMAIN hw' = DOMAIN hw
    BY <1>0, <1>6 DEF Shape
  <1>10. Shape'
    BY <1>0, <1>4, <1>7, <1>8, <1>9 DEF Shape
  <1>11. Held'
    BY <1>0, <1>4, <1>7 DEF Held, At, online
  <1>12. QBooked(descq', hw')
    BY <1>3, <1>4, <1>7, <1>9, BookedFill DEF QBooked
  <1>13. Listed(wl, cb', pc)
    BY <1>3, <1>4, <1>5, FillList DEF r
  <1> QED
    BY <1>4, <1>7, <1>10, <1>11, <1>12, <1>13 DEF RInv

LEMMA RingStep ==
  ASSUME RInv, NEW a \in Actors, Ring(a)
  PROVE  RInv'
  <1> DEFINE u == IF descq.work_list = <<>> THEN [q |-> descq, c |-> cb] ELSE Polled
             b == Busy(u.q)
             v == CmplStatus(b, u.c)
  <1>0. Shape /\ Held
    BY DEF RInv
  <1>1. holder = a /\ online
    BY <1>0 DEF Ring, Held, Actors
  <1>2. PolledTo(descq, cb, u)
    <2>1. CASE descq.work_list = <<>>
      BY <2>1, <1>0 DEF PolledTo, Shape
    <2>2. CASE descq.work_list # <<>>
      BY <2>2, PolledBooks
    <2> QED
      BY <2>1, <2>2
  <1>3. QBooked(u.q, hw) /\ Listed(u.q.work_list, u.c, pc)
    BY <1>0, <1>1, <1>2, PollBooks, PollListed DEF RInv
  <1>4. \/ /\ descq' = v.q /\ cb' = v.c
           /\ hw' = [hw EXCEPT !.pidx = u.q.pidx]
           /\ Goto(a, "wake")
        \/ /\ descq' = u.q /\ cb' = u.c
           /\ UNCHANGED hw
           /\ Goto(a, After(a))
    BY Zenon DEF Ring
  <1>5. holder' = Nobody /\ ctl' = ctl
    BY DEF Ring
  <1> HIDE DEF u
  <1>6. /\ IsDescq(b) /\ b.work_list = u.q.work_list /\ b.q_state = u.q.q_state
        /\ b.avail = u.q.avail /\ b.pidx = u.q.pidx /\ b.cidx = u.q.cidx
    BY <1>2 DEF PolledTo, Busy, IsDescq, DescqFields
  <1> HIDE DEF b
  <1>7. PolledTo(b, u.c, v)
    BY <1>2, <1>6, PollTo DEF PolledTo
  <1>8. QBooked(v.q, hw)
    BY <1>0, <1>3, <1>6, <1>7, PollBooks DEF QBooked
  <1>9. /\ IsDescq(v.q) /\ IsCb(v.c) /\ v.q.q_state = descq.q_state
        /\ v.q.pidx = u.q.pidx
    BY <1>2, <1>6, <1>7 DEF PolledTo
  <1>10. Listed(b.work_list, u.c, pc)
    BY <1>3, <1>6
  <1> HIDE DEF v
  <1>11. PICK s : Goto(a, s) /\ s # "idle" /\ s # "fill"
    BY <1>4, AfterNames
  <1>12. Shape'
    BY <1>0, <1>2, <1>3, <1>4, <1>9, <1>11, Going DEF Shape, PolledTo, QBooked, Booked
  <1>13. descq'.q_state = descq.q_state
    BY <1>2, <1>4, <1>9 DEF PolledTo
  <1>14. Held'
    BY <1>0, <1>1, <1>5, <1>11, <1>13, GoingHeld
  <1>15. \A r \in Reqs : pc[r] # "idle" => pc'[r] # "idle"
    BY <1>0, <1>11, Going
  <1>16. Listed(descq'.work_list, cb', pc')
    <2>1. CASE descq' = v.q /\ cb' = v.c
      BY <2>1, <1>7, <1>10, <1>15, PollListed
    <2>2. CASE descq' = u.q /\ cb' = u.c
      BY <2>2, <1>3, <1>15, ListedStays
    <2> QED
      BY <1>4, <2>1, <2>2
  <1>17. QBooked(descq', hw')
    <2>1. CASE descq' = v.q /\ hw' = [hw EXCEPT !.pidx = u.q.pidx]
      <3>1. /\ hw'.pidx = v.q.pidx /\ hw'.cidx = hw.cidx /\ hw'.status = hw.status
        BY <2>1, <1>0, <1>9 DEF Shape
      <3> QED
        BY <2>1, <3>1, <1>8, BookedRing DEF QBooked
    <2>2. CASE descq' = u.q /\ UNCHANGED hw
      BY <2>2, <1>3
    <2> QED
      BY <1>4, <2>1, <2>2
  <1> QED
    BY <1>12, <1>14, <1>16, <1>17 DEF RInv

\* Steps that change neither the queue, nor the requests, nor the engine.
LEMMA QuietStep ==
  ASSUME RInv, UNCHANGED <<descq, cb, hw, holder>>,
         DOMAIN pc' = Reqs, DOMAIN thp' = {"pc", "schedule", "has_queue"},
         \A a \in Actors : At(a)' = "fill" => At(a) = "fill",
         \A r \in Reqs : pc[r] # "idle" => pc'[r] # "idle",
         ctl' = ctl \/ ctl' \in {"idle", "pending", "finish"} \/ ~online
  PROVE  RInv'
  <1>1. Shape' /\ Held'
    BY DEF RInv, Shape, Held, online
  <1>2. ASSUME online PROVE Listed(descq'.work_list, cb', pc')
    BY <1>2, ListedStays DEF RInv
  <1>3. ASSUME online PROVE QBooked(descq', hw')
    BY <1>3 DEF RInv
  <1> QED
    BY <1>1, <1>2, <1>3 DEF RInv, online

LEMMA WakeStep ==
  ASSUME RInv, NEW a \in Actors, Wake(a)
  PROVE  RInv'
  <1>1. /\ DOMAIN pc' = Reqs /\ DOMAIN thp' = {"pc", "schedule", "has_queue"}
        /\ \A b \in Actors : At(b)' = "fill" => At(b) = "fill"
        /\ \A r \in Reqs : pc[r] # "idle" => pc'[r] # "idle"
    BY DEF Wake, RInv, Shape, At, Actors
  <1>2. UNCHANGED <<descq, cb, hw, holder, ctl>>
    BY DEF Wake
  <1> QED
    BY <1>1, <1>2, QuietStep

LEMMA ProcStep ==
  ASSUME RInv, NEW a \in Actors, ProcRequest(a)
  PROVE  RInv'
  BY ProcBeginStep, FillStep, RingStep, WakeStep DEF ProcRequest

LEMMA ThreadQuiet ==
  ASSUME RInv, Look \/ Woken \/ Idle
  PROVE  RInv'
  <1>1. /\ DOMAIN pc' = Reqs /\ DOMAIN thp' = {"pc", "schedule", "has_queue"}
        /\ \A b \in Actors : At(b)' = "fill" => At(b) = "fill"
        /\ \A r \in Reqs : pc[r] # "idle" => pc'[r] # "idle"
    BY DEF Look, Woken, Idle, RInv, Shape, At, Actors
  <1>2. UNCHANGED <<descq, cb, hw, holder, ctl>>
    BY DEF Look, Woken, Idle
  <1> QED
    BY <1>1, <1>2, QuietStep

LEMMA StopQuiet ==
  ASSUME RInv, StopWaited \/ StopUnlist
  PROVE  RInv'
  <1>1. /\ DOMAIN pc' = Reqs /\ DOMAIN thp' = {"pc", "schedule", "has_queue"}
        /\ \A b \in Actors : At(b)' = "fill" => At(b) = "fill"
        /\ \A r \in Reqs : pc[r] # "idle" => pc'[r] # "idle"
    BY DEF StopWaited, StopUnlist, RInv, Shape, At, Actors
  <1>2. UNCHANGED <<descq, cb, hw, holder>>
    BY DEF StopWaited, StopUnlist
  <1>3. ctl' \in {"idle", "pending", "finish"} \/ ~online
    BY DEF StopWaited, StopUnlist, RInv, Held
  <1> QED
    BY <1>1, <1>2, <1>3, QuietStep

LEMMA SubmitStep ==
  ASSUME RInv, NEW r \in Reqs, Submit(r)
  PROVE  RInv'
  <1>0. Shape /\ Held /\ UNCHANGED <<holder, thp, ctl, hw>>
    BY DEF RInv, Submit
  <1>1. CASE ~online
    <2>1. /\ UNCHANGED <<descq, cb>>
          /\ pc' = [pc EXCEPT ![r] = "failed"]
      BY <1>1 DEF Submit, online
    <2> QED
      BY <2>1, <1>0, <1>1 DEF RInv, Shape, Held, online, At, Actors
  <1>2. CASE online
    <2> DEFINE w == descq.work_list
    <2>1. PICK n \in PageCounts : cb' = [cb EXCEPT ![r] = [NewCb EXCEPT !.pages = n]]
      BY <1>2 DEF Submit, online
    <2>2. /\ descq' = [descq EXCEPT !.work_list = Append(@, r)]
          /\ pc' = [pc EXCEPT ![r] = "proc"] /\ pc[r] = "idle"
      BY <1>2 DEF Submit, online
    <2>3. Listed(w, cb, pc)
      BY <1>2 DEF RInv
    <2>4. IsDescq(descq') /\ IsCb(cb') /\ descq'.work_list = Append(w, r)
          /\ descq'.q_state = descq.q_state
          /\ descq'.avail = descq.avail /\ descq'.pidx = descq.pidx /\ descq'.cidx = descq.cidx
      BY <2>1, <2>2, <1>0 DEF Shape, IsDescq, IsCb, DescqFields, CbFields, NewCb
    <2>5. Shape' /\ Held'
      BY <2>2, <2>4, <1>0 DEF Shape, Held, online, At, Actors
    <2>6. \A k \in 1..Len(w) : w[k] \in Reqs /\ w[k] # r
      BY <2>2, <2>3 DEF Listed
    <2>7. /\ cb'[r].pages = n /\ cb'[r].offset = 0 /\ cb'[r].status = FALSE
          /\ n \in Nat /\ n > 0 /\ pc'[r] = "proc"
      BY <2>1, <2>2, <1>0 DEF Shape, IsCb, NewCb
    <2>8. \A k \in 1..Len(w) : cb'[w[k]] = cb[w[k]] /\ pc'[w[k]] = pc[w[k]]
      BY <2>1, <2>2, <2>6, <1>0 DEF Shape, IsCb
    <2> DEFINE v == Append(w, r)
    <2>9. /\ w \in Seq(Reqs) /\ v \in Seq(Reqs) /\ Len(v) = Len(w) + 1 /\ Len(w) \in Nat
          /\ \A k \in 1..Len(w) : v[k] = w[k]
          /\ v[Len(w) + 1] = r
      BY <2>3 DEF Listed
    <2> HIDE DEF v, w
    <2>10. \A k \in 1..Len(v) : k = Len(w) + 1 \/ k \in 1..Len(w)
      BY <2>9
    <2>11. \A j, k \in 1..Len(v) : j # k => v[j] # v[k]
      BY <2>3, <2>6, <2>9, <2>10 DEF Listed
    <2>12. Listed(v, cb', pc')
      <3>1. ASSUME NEW k \in 1..Len(v)
            PROVE  /\ pc'[v[k]] # "idle" /\ cb'[v[k]].status = FALSE
                   /\ cb'[v[k]].pages \in Nat /\ cb'[v[k]].offset \in Nat
                   /\ cb'[v[k]].offset < cb'[v[k]].pages
        <4>1. CASE k = Len(w) + 1
          BY <2>7, <2>9, <4>1
        <4>2. CASE k \in 1..Len(w)
          <5>1. v[k] = w[k] /\ cb'[w[k]] = cb[w[k]] /\ pc'[w[k]] = pc[w[k]]
            BY <2>8, <2>9, <4>2
          <5>2. /\ pc[w[k]] # "idle" /\ cb[w[k]].status = FALSE
                /\ cb[w[k]].pages \in Nat /\ cb[w[k]].offset \in Nat
                /\ cb[w[k]].offset < cb[w[k]].pages
            BY <2>3, <4>2 DEF Listed
          <5> QED
            BY <5>1, <5>2
        <4> QED
          BY <2>10, <4>1, <4>2
      <3> QED
        BY <2>9, <2>11, <3>1 DEF Listed
    <2>13. QBooked(descq', hw')
      BY <1>0, <1>2, <2>4 DEF RInv, QBooked
    <2> QED
      BY <2>4, <2>5, <2>12, <2>13 DEF RInv, v, w
  <1> QED
    BY <1>1, <1>2

LEMMA WaitDoneStep ==
  ASSUME RInv, NEW r \in Reqs, WaitDone(r)
  PROVE  RInv'
  <1>1. /\ UNCHANGED <<holder, thp, ctl, hw, descq>>
        /\ pc' = [pc EXCEPT ![r] = IF cb[r].status THEN "failed" ELSE "returned"]
        /\ cb' = IF cb[r].status THEN [cb EXCEPT ![r] = NewCb] ELSE cb
    BY DEF WaitDone
  <1>2. Shape' /\ Held'
    BY <1>1 DEF RInv, Shape, IsCb, CbFields, NewCb, Held, online, At, Actors
  <1>3. ASSUME online PROVE Listed(descq'.work_list, cb', pc')
    <2> DEFINE w == descq.work_list
    <2>1. Listed(w, cb, pc)
      BY <1>3 DEF RInv
    <2>2. \A k \in 1..Len(w) : w[k] \in Reqs /\ cb'[w[k]] = cb[w[k]]
      <3>1. w \in Seq(Reqs) /\ \A k \in 1..Len(w) : cb[w[k]].status = FALSE
        BY <2>1 DEF Listed
      <3>2. DOMAIN cb = Reqs
        BY DEF RInv, Shape, IsCb
      <3> HIDE DEF w
      <3> QED
        BY <1>1, <3>1, <3>2
    <2>3. \A x \in Reqs : pc[x] # "idle" => pc'[x] # "idle"
      BY <1>1 DEF RInv, Shape
    <2>4. Listed(w, cb', pc')
      BY <2>1, <2>2, <2>3, ListedStays
    <2> QED
      BY <2>4, <1>1
  <1>4. ASSUME online PROVE QBooked(descq', hw')
    BY <1>1, <1>4 DEF RInv
  <1> QED
    BY <1>1, <1>2, <1>3, <1>4 DEF RInv, online

\* A request is taken off the list.
LEMMA WithoutListed ==
  ASSUME NEW w, NEW c, NEW l, NEW d, NEW m, NEW r, Listed(w, c, l),
         \A k \in 1..Len(w) : w[k] # r => d[w[k]] = c[w[k]] /\ m[w[k]] = l[w[k]]
  PROVE  Listed(Without(w, r), d, m)
  <1>0. w \in Seq(Reqs) /\ Len(w) \in Nat
    BY DEF Listed
  <1>1. CASE \A k \in 1..Len(w) : w[k] # r
    <2>1. Without(w, r) = w
      BY <1>1, Zenon DEF Without
    <2> QED
      BY <2>1, <1>1 DEF Listed
  <1>2. CASE \E k \in 1..Len(w) : w[k] = r
    <2> DEFINE i == CHOOSE k \in 1..Len(w) : w[k] = r
               v == [k \in 1..(Len(w) - 1) |-> IF k < i THEN w[k] ELSE w[k + 1]]
    <2>1. Without(w, r) = v
      BY <1>2, Zenon DEF Without
    <2>2. i \in 1..Len(w) /\ w[i] = r
      BY <1>2
    <2> HIDE DEF i
    <2>3. v \in Seq(Reqs) /\ Len(v) = Len(w) - 1
      BY <1>0, <2>2
    <2> DEFINE at(k) == IF k < i THEN k ELSE k + 1
    <2>4. \A k \in 1..Len(v) : v[k] = w[at(k)] /\ at(k) \in 1..Len(w) /\ at(k) # i
      BY <1>0, <2>2, <2>3
    <2>5. \A j, k \in 1..Len(v) : j # k => at(j) # at(k)
      BY <2>2, <2>3
    <2> HIDE DEF v, at
    <2>6. \A k \in 1..Len(v) : w[at(k)] # r
      BY <2>2, <2>4 DEF Listed
    <2>7. \A j, k \in 1..Len(v) : j # k => v[j] # v[k]
      BY <2>4, <2>5 DEF Listed
    <2>8. \A k \in 1..Len(v) : d[v[k]] = c[v[k]] /\ m[v[k]] = l[v[k]]
      BY <2>4, <2>6
    <2>9. \A k \in 1..Len(v) :
            /\ m[v[k]] # "idle"
            /\ d[v[k]].pages \in Nat /\ d[v[k]].offset \in Nat
            /\ d[v[k]].offset < d[v[k]].pages
            /\ d[v[k]].status = FALSE
      <3> SUFFICES ASSUME NEW k \in 1..Len(v)
                   PROVE  /\ m[v[k]] # "idle"
                          /\ d[v[k]].pages \in Nat /\ d[v[k]].offset \in Nat
                          /\ d[v[k]].offset < d[v[k]].pages
                          /\ d[v[k]].status = FALSE
        OBVIOUS
      <3>1. \E j \in 1..Len(w) : v[k] = w[j]
        BY <2>4
      <3>2. d[v[k]] = c[v[k]] /\ m[v[k]] = l[v[k]]
        BY <2>8
      <3> QED
        BY <3>1, <3>2 DEF Listed
    <2>10. Listed(v, d, m)
      BY <2>3, <2>7, <2>9 DEF Listed
    <2> QED
      BY <2>1, <2>10
  <1> QED
    BY <1>1, <1>2

LEMMA WaitExpiredStep ==
  ASSUME RInv, NEW r \in Reqs, WaitExpired(r)
  PROVE  RInv'
  <1>1. /\ UNCHANGED <<holder, thp, ctl, hw>>
        /\ pc' = [pc EXCEPT ![r] = "failed"]
        /\ cb' = [cb EXCEPT ![r] = NewCb]
        /\ descq' = [descq EXCEPT !.work_list = Without(@, r), !.pend_list = Without(@, r)]
    BY DEF WaitExpired
  <1>2. /\ IsDescq(descq') /\ descq'.work_list = Without(descq.work_list, r)
        /\ descq'.q_state = descq.q_state
        /\ descq'.avail = descq.avail /\ descq'.pidx = descq.pidx /\ descq'.cidx = descq.cidx
    BY <1>1 DEF RInv, Shape, IsDescq, DescqFields
  <1>3. Shape' /\ Held'
    BY <1>1, <1>2 DEF RInv, Shape, IsCb, CbFields, NewCb, Held, online, At, Actors
  <1>4. ASSUME online PROVE Listed(descq'.work_list, cb', pc')
    <2> DEFINE w == descq.work_list
    <2>1. Listed(w, cb, pc)
      BY <1>4 DEF RInv
    <2>2. \A k \in 1..Len(w) : w[k] # r => cb'[w[k]] = cb[w[k]] /\ pc'[w[k]] = pc[w[k]]
      <3>1. w \in Seq(Reqs)
        BY <2>1 DEF Listed
      <3>2. DOMAIN cb = Reqs /\ DOMAIN pc = Reqs
        BY DEF RInv, Shape, IsCb
      <3> HIDE DEF w
      <3> QED
        BY <1>1, <3>1, <3>2
    <2> QED
      BY <1>2, <2>1, <2>2, WithoutListed
  <1>5. ASSUME online PROVE QBooked(descq', hw')
    BY <1>1, <1>2, <1>5 DEF RInv, QBooked
  <1> QED
    BY <1>2, <1>3, <1>4, <1>5 DEF RInv, online

\* The queue's counters are set and the ring is zeroed.
LEMMA StartStep ==
  ASSUME RInv, Start
  PROVE  RInv'
  <1>1. /\ UNCHANGED <<pc, cb, holder, ctl>>
        /\ holder = Nobody /\ ctl = "idle"
        /\ descq.work_list = <<>>
        /\ descq' = [Configured(descq) EXCEPT !.q_state = "online", !.cmplthp = TRUE]
        /\ hw' = FreshEngine
        /\ thp' = [thp EXCEPT !.has_queue = TRUE]
    BY DEF Start
  <1>2. /\ IsDescq(descq') /\ descq'.work_list = <<>>
        /\ descq'.avail = Usable /\ descq'.pidx = 0 /\ descq'.cidx = 0
    BY <1>1 DEF RInv, Shape, IsDescq, DescqFields, Configured
  <1>3. Shape' /\ Held'
    BY <1>1, <1>2 DEF RInv, Shape, IsCb, FreshEngine, Index, Held, online, At, Actors
  <1>4. QBooked(descq', hw')
    BY <1>1, <1>2, BookedFresh DEF QBooked, FreshEngine
  <1>5. Listed(<<>>, cb', pc')
    BY DEF Listed
  <1> QED
    BY <1>2, <1>3, <1>4, <1>5 DEF RInv

LEMMA StopStepHolds ==
  ASSUME RInv, Stop \/ StopDetach
  PROVE  RInv'
  <1>1. /\ UNCHANGED <<pc, cb, holder, thp, hw>>
        /\ holder = Nobody
        /\ online => ctl' \in {"finish", "pending"}
        /\ \/ descq' = [descq EXCEPT !.q_stop_wait = TRUE]
           \/ descq' = [descq EXCEPT !.cmplthp = FALSE]
    BY DEF Stop, StopDetach, RInv, Held
  <1>2. /\ IsDescq(descq') /\ descq'.work_list = descq.work_list
        /\ descq'.q_state = descq.q_state
        /\ descq'.avail = descq.avail /\ descq'.pidx = descq.pidx /\ descq'.cidx = descq.cidx
    BY <1>1 DEF RInv, Shape, IsDescq, DescqFields
  <1>3. Shape' /\ Held'
    BY <1>1, <1>2 DEF RInv, Shape, Held, online, At, Actors
  <1>4. ASSUME online PROVE Listed(descq'.work_list, cb', pc') /\ QBooked(descq', hw')
    BY <1>1, <1>2, <1>4 DEF RInv, QBooked
  <1> QED
    BY <1>2, <1>3, <1>4 DEF RInv, online

LEMMA StopFinishStep ==
  ASSUME RInv, StopFinish
  PROVE  RInv'
  <1>1. PICK left :
          /\ UNCHANGED <<pc, holder, thp, hw>>
          /\ holder = Nobody
          /\ descq' = [descq EXCEPT !.q_state = "enabled", !.q_stop_wait = FALSE]
          /\ cb' = [r \in Reqs |-> IF r \in left
                                   THEN [cb[r] EXCEPT !.done = TRUE, !.status = TRUE]
                                   ELSE cb[r]]
    BY Zenon DEF StopFinish
  <1>2. IsDescq(descq') /\ IsCb(cb') /\ descq'.q_state = "enabled"
    BY <1>1 DEF RInv, Shape, IsDescq, IsCb, DescqFields
  <1>3. Shape' /\ Held'
    BY <1>1, <1>2 DEF RInv, Shape, Held, online, At, Actors
  <1> QED
    BY <1>2, <1>3 DEF RInv, online

LEMMA StopClearStep ==
  ASSUME RInv, StopClear
  PROVE  RInv'
  <1>1. /\ UNCHANGED <<pc, cb, descq, holder, thp>>
        /\ hw' = [FreshEngine EXCEPT !.on = FALSE]
        /\ ~online
    BY DEF StopClear, RInv, Held
  <1>2. Shape' /\ Held'
    BY <1>1 DEF RInv, Shape, IsDescq, IsCb, FreshEngine, Index, Held, online, At, Actors
  <1> QED
    BY <1>1, <1>2 DEF RInv, online

LEMMA EngineStep ==
  ASSUME RInv, Execute \/ WriteBack
  PROVE  RInv'
  <1>1. UNCHANGED <<pc, cb, descq, holder, thp, ctl>>
    BY DEF Execute, WriteBack
  <1>2. /\ DOMAIN hw' = DOMAIN hw
        /\ \/ /\ hw.cidx # hw.pidx /\ hw'.pidx = hw.pidx /\ hw'.status = hw.status
              /\ hw'.cidx = Forward(hw.cidx, 1)
           \/ hw'.pidx = hw.pidx /\ hw'.cidx = hw.cidx /\ hw'.status = hw.cidx
    BY DEF Execute, WriteBack, RInv, Shape
  <1>3. Forward(hw.cidx, 1) \in Index
    BY DEF RInv, Shape, Forward, Index
  <1>4. Shape' /\ Held'
    BY <1>1, <1>2, <1>3 DEF RInv, Shape, IsDescq, IsCb, Held, online, At, Actors
  <1>5. ASSUME online PROVE Listed(descq'.work_list, cb', pc')
    BY <1>1, <1>5 DEF RInv
  <1>6. ASSUME online PROVE QBooked(descq', hw')
    BY <1>1, <1>2, <1>6, BookedExecute, BookedWriteBack DEF RInv, QBooked
  <1> QED
    BY <1>1, <1>4, <1>5, <1>6 DEF RInv, online

LEMMA NextRInv ==
  ASSUME RInv, [Next]_vars
  PROVE  RInv'
  <1>1. CASE UNCHANGED vars
    BY <1>1 DEF vars, RInv, Shape, IsDescq, IsCb, Held, online, QBooked, At, Actors
  <1>2. CASE \E r \in Reqs : Submit(r) \/ Call(r) \/ WaitExpired(r)
    BY <1>2, SubmitStep, ProcStep, WaitDoneStep, WaitExpiredStep DEF Call, Actors
  <1>3. CASE ThreadStep
    BY <1>3, ThreadQuiet, ProcStep DEF ThreadStep, Actors
  <1>4. CASE Start \/ Stop \/ StopStep
    BY <1>4, StartStep, StopStepHolds, StopQuiet, StopFinishStep, StopClearStep DEF StopStep
  <1>5. CASE Execute \/ WriteBack
    BY <1>5, EngineStep
  <1> QED
    BY <1>1, <1>2, <1>3, <1>4, <1>5 DEF Next

(***************************************************************************)
(* The ring.                                                               *)
(***************************************************************************)
\* The indices of an online queue are in order around the ring and avail is what
\* they leave, for every number of calls, pages, slots and starts: a slot is never
\* written before the engine has executed it, and a full ring is never taken for
\* an empty one (descq_mm_proc_request, descq_mm_n_h2c_cmpl_status).
THEOREM RingAlwaysBooked == Spec => []RingBooks
  <1>1. Init => RInv
    BY InitRInv
  <1>2. RInv /\ [Next]_vars => RInv'
    BY NextRInv
  <1>3. RInv => RingBooks
    BY RInvBooks
  <1> QED
    BY <1>1, <1>2, <1>3, PTL DEF Spec

(***************************************************************************)
(* The ledger: which request each descriptor in the ring is for.           *)
(***************************************************************************)
\* How much of the stretch from lo to hi lies before x.
Reach(x, lo, hi) == IF x <= lo THEN 0 ELSE IF x >= hi THEN hi - lo ELSE x - lo

\* A listed request c whose call is at l, with x descriptors executed: it is not
\* answered yet; what the queue still owes it are the descriptors from lo to hi, of
\* which the engine has executed those before e; only with its last descriptor does
\* it go to the pending list.
Entry(c, l, x, pending, lo, hi, e) ==
  /\ c.done = FALSE /\ c.status = FALSE
  /\ l \notin Ended \cup {"idle"}
  /\ c.pages \in Nat /\ c.offset \in Nat /\ c.desc_nr \in Nat
  /\ c.desc_nr = hi - lo
  /\ pending => c.offset = c.pages
  /\ ~pending => c.offset < c.pages
  /\ x = c.offset - c.desc_nr + Reach(e, lo, hi)

\* O sums up something from 0 to n.
Sums(O, n) ==
  /\ O \in [0..n -> Nat] /\ O[0] = 0
  /\ \A j, k \in 0..n : j <= k => O[j] <= O[k]

\* The sums O of what is owed to the requests L, the first np of them pending: the
\* engine, at index h, has come to e, and the ring from h to p holds the rest, each
\* slot for the request whose stretch it falls in.
Ledger(O, L, np, c, l, x, e, h, p, ring) ==
  /\ L \in Seq(Reqs) /\ np \in 0..Len(L) /\ e \in Nat
  /\ \A j, k \in 1..Len(L) : j # k => L[j] # L[k]
  /\ Sums(O, Len(L))
  /\ O[Len(L)] = e + Ahead(h, p)
  /\ \A k \in (np + 1)..Len(L) : O[k] = O[Len(L)]
  /\ \A k \in 1..Len(L) : Entry(c[L[k]], l[L[k]], x[L[k]], k <= np, O[k - 1], O[k], e)
  /\ \A t \in 0..(Ahead(h, p) - 1) :
       \E k \in 1..Len(L) : /\ O[k - 1] <= e + t /\ e + t < O[k]
                            /\ ring[Forward(h, t)] = L[k]

LEMMA AheadType ==
  ASSUME NEW i \in Index, NEW j \in Index
  PROVE  Ahead(i, j) \in 0..(RngSz - 1) /\ (i # j <=> Ahead(i, j) > 0)
  BY DEF Ahead, Index

LEMMA ForwardType ==
  ASSUME NEW i \in Index, NEW n \in 0..(RngSz - 1)
  PROVE  Forward(i, n) \in Index /\ (\A m \in 0..(RngSz - 1) : Forward(i, m) = Forward(i, n) => m = n)
  BY DEF Forward, Index

\* n further.
LEMMA AheadForward ==
  ASSUME NEW h \in Index, NEW p \in Index, NEW n \in Nat, Ahead(h, p) + n < RngSz
  PROVE  /\ Forward(p, n) \in Index
         /\ Ahead(h, Forward(p, n)) = Ahead(h, p) + n
         /\ Forward(h, Ahead(h, p) + n) = Forward(p, n)
  <1>1. h \in Int /\ p \in Int /\ 0 <= h /\ h < RngSz /\ 0 <= p /\ p < RngSz /\ n \in Nat
    BY DEF Index
  <1>2. CASE p < h
    <2>1. Ahead(h, p) = RngSz - h + p
      BY <1>1, <1>2 DEF Ahead
    <2>2. p + n < h /\ Forward(p, n) = p + n
      BY <1>1, <2>1 DEF Forward
    <2> QED
      BY <1>1, <2>1, <2>2 DEF Ahead, Forward, Index
  <1>3. CASE ~(p < h)
    <2>1. Ahead(h, p) = p - h
      BY <1>1, <1>3 DEF Ahead
    <2>2. p + n < RngSz + h
      BY <1>1, <2>1
    <2> QED
      BY <1>1, <1>3, <2>1, <2>2 DEF Ahead, Forward, Index
  <1> QED
    BY <1>2, <1>3

LEMMA SumsAt ==
  ASSUME NEW n \in Nat, NEW O, Sums(O, n)
  PROVE  /\ O[0] = 0 /\ O[n] \in Nat
         /\ \A k \in 1..n : O[k - 1] \in Nat /\ O[k] \in Nat /\ O[k - 1] <= O[k]
         /\ \A j, k \in 1..n : j < k => O[j] <= O[k - 1]
  <1>1. \A k \in 1..n : k - 1 \in 0..n /\ k \in 0..n /\ k - 1 <= k
    OBVIOUS
  <1>2. \A j, k \in 1..n : j < k => j \in 0..n /\ k - 1 \in 0..n /\ j <= k - 1
    OBVIOUS
  <1>3. n \in 0..n
    OBVIOUS
  <1> QED
    BY <1>1, <1>2, <1>3 DEF Sums

LEMMA ReachNext ==
  ASSUME NEW e \in Nat, NEW lo \in Nat, NEW hi \in Nat, lo <= hi
  PROVE  /\ Reach(e, lo, hi) \in Int
         /\ lo <= e /\ e < hi => Reach(e + 1, lo, hi) = Reach(e, lo, hi) + 1
         /\ hi <= e \/ e < lo => Reach(e + 1, lo, hi) = Reach(e, lo, hi)
  BY DEF Reach

\* The engine executes the descriptor at h.
Executed(h, ring, x, tags, y) ==
  /\ ring \in [Index -> Reqs \cup {Nobody}] /\ x \in [Reqs -> Nat]
  /\ tags = [ring EXCEPT ![h] = Nobody]
  /\ y = [x EXCEPT ![ring[h]] = @ + 1]

LEMMA ForwardOne ==
  ASSUME NEW h \in Index, NEW p \in Index, h # p
  PROVE  /\ Ahead(h, p) \in Nat /\ Ahead(h, p) > 0 /\ Ahead(h, p) < RngSz
         /\ Forward(h, 1) \in Index /\ Ahead(Forward(h, 1), p) = Ahead(h, p) - 1
         /\ Forward(h, 0) = h
         /\ \A t \in 0..(Ahead(h, p) - 2) :
              /\ Forward(Forward(h, 1), t) = Forward(h, t + 1)
              /\ Forward(h, t + 1) # h /\ Forward(h, t + 1) \in Index
  <1> DEFINE u == Ahead(h, p)
  <1>1. u \in Nat /\ u > 0 /\ u < RngSz
    BY AheadType
  <1>2. Forward(h, 1) \in Index /\ Ahead(Forward(h, 1), p) = u - 1
    BY DEF Ahead, Forward, Index
  <1>3. Forward(h, 0) = h
    BY DEF Forward, Index
  <1>4. \A t \in 0..(u - 2) : /\ Forward(Forward(h, 1), t) = Forward(h, t + 1)
                              /\ Forward(h, t + 1) # h /\ Forward(h, t + 1) \in Index
    BY <1>1 DEF Forward, Index
  <1> QED
    BY <1>1, <1>2, <1>3, <1>4

LEMMA LedgerExecute ==
  ASSUME NEW O, NEW L, NEW np, NEW c, NEW l, NEW x, NEW e, NEW h \in Index, NEW p \in Index,
         NEW ring, Ledger(O, L, np, c, l, x, e, h, p, ring), h # p,
         NEW tags, NEW y, Executed(h, ring, x, tags, y)
  PROVE  /\ \E k \in 1..Len(L) : ring[h] = L[k]
         /\ Ledger(O, L, np, c, l, y, e + 1, Forward(h, 1), p, tags)
  <1> USE DEF Executed
  <1> DEFINE u == Ahead(h, p)
             g == Forward(h, 1)
  <1>1. u \in Nat /\ u > 0 /\ u < RngSz
    BY ForwardOne
  <1>2. g \in Index /\ Ahead(g, p) = u - 1
    BY ForwardOne
  <1>3. Forward(h, 0) = h
    BY ForwardOne
  <1>4. \A t \in 0..(u - 2) : Forward(g, t) = Forward(h, t + 1) /\ Forward(h, t + 1) # h
                              /\ Forward(h, t + 1) \in Index
    BY ForwardOne
  <1> HIDE DEF u, g
  <1>5. PICK i \in 1..Len(L) : O[i - 1] <= e + 0 /\ e + 0 < O[i] /\ ring[Forward(h, 0)] = L[i]
    <2>1. 0 \in 0..(Ahead(h, p) - 1)
      BY <1>1 DEF u
    <2> QED
      BY <2>1 DEF Ledger
  <1>6. /\ L \in Seq(Reqs) /\ np \in 0..Len(L) /\ e \in Nat /\ Len(L) \in Nat
        /\ Sums(O, Len(L))
        /\ \A k \in 1..Len(L) : L[k] \in Reqs
    BY DEF Ledger
  <1>s. /\ O[Len(L)] \in Nat
        /\ \A k \in 1..Len(L) : O[k - 1] \in Nat /\ O[k] \in Nat /\ O[k - 1] <= O[k]
        /\ \A j, k \in 1..Len(L) : j < k => O[j] <= O[k - 1]
    BY <1>6, SumsAt
  <1>7. O[i - 1] <= e /\ e < O[i] /\ ring[h] = L[i]
    BY <1>3, <1>5, <1>6
  <1>8. \A k \in 1..Len(L) : y[L[k]] = IF k = i THEN x[L[k]] + 1 ELSE x[L[k]]
    BY <1>6, <1>7 DEF Ledger
  <1>9. ASSUME NEW k \in 1..Len(L)
        PROVE  Entry(c[L[k]], l[L[k]], y[L[k]], k <= np, O[k - 1], O[k], e + 1)
    <2>1. Entry(c[L[k]], l[L[k]], x[L[k]], k <= np, O[k - 1], O[k], e)
      BY DEF Ledger
    <2>2. k # i => O[k] <= e \/ e < O[k - 1]
      <3>1. i \in Int /\ k \in Int /\ e \in Nat /\ O[k] \in Nat /\ O[k - 1] \in Nat
            /\ O[i] \in Nat /\ O[i - 1] \in Nat
        BY <1>6, <1>s
      <3>2. k < i => O[k] <= O[i - 1]
        BY <1>s
      <3>3. i < k => O[i] <= O[k - 1]
        BY <1>s
      <3>4. k < i => O[k] <= e
        BY <3>1, <3>2, <1>7
      <3>5. i < k => e < O[k - 1]
        BY <3>1, <3>3, <1>7
      <3> QED
        BY <3>1, <3>4, <3>5
    <2>3. /\ Reach(e, O[k - 1], O[k]) \in Int
          /\ Reach(e + 1, O[k - 1], O[k]) = Reach(e, O[k - 1], O[k]) + (IF k = i THEN 1 ELSE 0)
      <3>1. O[k - 1] \in Nat /\ O[k] \in Nat /\ O[k - 1] <= O[k] /\ e \in Nat
        BY <1>6, <1>s
      <3>2. /\ Reach(e, O[k - 1], O[k]) \in Int
            /\ O[k - 1] <= e /\ e < O[k] => Reach(e + 1, O[k - 1], O[k]) = Reach(e, O[k - 1], O[k]) + 1
            /\ O[k] <= e \/ e < O[k - 1] => Reach(e + 1, O[k - 1], O[k]) = Reach(e, O[k - 1], O[k])
        <4> DEFINE lo == O[k - 1]
                   hi == O[k]
        <4> HIDE DEF lo, hi
        <4>1. lo \in Nat /\ hi \in Nat /\ lo <= hi /\ e \in Nat
          BY <3>1 DEF lo, hi
        <4>2. /\ Reach(e, lo, hi) \in Int
              /\ lo <= e /\ e < hi => Reach(e + 1, lo, hi) = Reach(e, lo, hi) + 1
              /\ hi <= e \/ e < lo => Reach(e + 1, lo, hi) = Reach(e, lo, hi)
          BY <4>1, ReachNext
        <4> QED
          BY <4>2 DEF lo, hi
      <3> QED
        BY <1>7, <2>2, <3>2
    <2>4. y[L[k]] = c[L[k]].offset - c[L[k]].desc_nr + Reach(e + 1, O[k - 1], O[k])
      BY <1>8, <2>1, <2>3 DEF Entry
    <2> QED
      BY <2>1, <2>4 DEF Entry
  <1>10. ASSUME NEW t \in 0..(u - 2)
         PROVE  \E k \in 1..Len(L) : /\ O[k - 1] <= e + 1 + t /\ e + 1 + t < O[k]
                                     /\ tags[Forward(g, t)] = L[k]
    <2>1. t + 1 \in 0..(u - 1)
      BY <1>1
    <2>2. PICK k \in 1..Len(L) : /\ O[k - 1] <= e + (t + 1) /\ e + (t + 1) < O[k]
                                 /\ ring[Forward(h, t + 1)] = L[k]
      BY <2>1 DEF Ledger, u
    <2>3. tags[Forward(g, t)] = ring[Forward(h, t + 1)]
      BY <1>4
    <2>4. e + (t + 1) = e + 1 + t
      BY <1>6
    <2> QED
      BY <2>2, <2>3, <2>4
  <1>11. O[Len(L)] = e + 1 + (u - 1)
    BY <1>1, <1>6, <1>s DEF Ledger, u
  <1>12. (u - 1) - 1 = u - 2
    BY <1>1
  <1>13. Ledger(O, L, np, c, l, y, e + 1, g, p, tags)
    BY <1>2, <1>6, <1>9, <1>10, <1>11, <1>12 DEF Ledger
  <1> QED
    BY <1>7, <1>13 DEF g

LEMMA EntryFill ==
  ASSUME NEW v, NEW l, NEW x, NEW lo \in Nat, NEW hi \in Nat, NEW e \in Nat, lo <= hi, e <= hi,
         Entry(v, l, x, FALSE, lo, hi, e), DOMAIN v = CbFields,
         NEW n \in Nat, n <= v.pages - v.offset,
         NEW w, w = [v EXCEPT !.offset = @ + n, !.desc_nr = @ + n]
  PROVE  Entry(w, l, x, v.offset + n = v.pages, lo, hi + n, e)
  <1>1. /\ w.done = v.done /\ w.status = v.status /\ w.pages = v.pages
        /\ w.offset = v.offset + n /\ w.desc_nr = v.desc_nr + n
    BY DEF CbFields
  <1>2. Reach(e, lo, hi + n) = Reach(e, lo, hi) /\ Reach(e, lo, hi) \in Int
    BY DEF Reach
  <1> QED
    BY <1>1, <1>2 DEF Entry

\* A pending request whose stretch is behind the engine is moved.
LEMMA EntryMoved ==
  ASSUME NEW v, NEW l, NEW x, NEW lo \in Nat, NEW hi \in Nat, NEW e,
         Entry(v, l, x, TRUE, lo, hi, e), Reach(e, lo, hi) = hi - lo
  PROVE  x = v.pages
  BY DEF Entry

\* n descriptors for r, the first request of the work list; with its last one it
\* goes to the pending list.
Added(L, np, c, h, p, ring, r, n, d, tags, mp) ==
  /\ np < Len(L) /\ IsCb(c) /\ ring \in [Index -> Reqs \cup {Nobody}] /\ r = L[np + 1]
  /\ n \in Nat /\ n > 0 /\ n <= c[r].pages - c[r].offset /\ Ahead(h, p) + n < RngSz
  /\ d = [c EXCEPT ![r].offset = @ + n, ![r].desc_nr = @ + n]
  /\ tags = [i \in Index |-> IF i \in {Forward(p, k) : k \in 0..(n - 1)} THEN r ELSE ring[i]]
  /\ mp = IF c[r].offset + n = c[r].pages THEN np + 1 ELSE np

LEMMA LedgerFill ==
  ASSUME NEW O, NEW L, NEW np, NEW c, NEW l, NEW x, NEW e, NEW h \in Index, NEW p \in Index,
         NEW ring, Ledger(O, L, np, c, l, x, e, h, p, ring),
         NEW r, NEW n, NEW d, NEW tags, NEW mp,
         Added(L, np, c, h, p, ring, r, n, d, tags, mp)
  PROVE  \E U : Ledger(U, L, mp, d, l, x, e, h, Forward(p, n), tags)
  <1> USE DEF Added
  <1> DEFINE u == Ahead(h, p)
             q == Forward(p, n)
             U == [k \in 0..Len(L) |-> IF k <= np THEN O[k] ELSE O[k] + n]
  <1>1. u \in Nat /\ u < RngSz /\ u + n < RngSz
    BY AheadType
  <1>2. q \in Index /\ Ahead(h, q) = u + n
    BY <1>1, AheadForward
  <1>3. /\ \A t \in 0..(u + n - 1) : Forward(h, t) \in Index
        /\ \A t \in 0..(u - 1) : \A k \in 0..(n - 1) : Forward(h, t) # Forward(p, k)
        /\ \A t \in u..(u + n - 1) : t - u \in 0..(n - 1) /\ Forward(h, t) = Forward(p, t - u)
    <2>1. \A t \in 0..(u + n - 1) : Forward(h, t) \in Index
      BY <1>1, ForwardType
    <2>2. \A k \in 0..(n - 1) : Forward(h, u + k) = Forward(p, k)
      <3> SUFFICES ASSUME NEW k \in 0..(n - 1) PROVE Forward(h, u + k) = Forward(p, k)
        OBVIOUS
      <3>1. k \in Nat /\ Ahead(h, p) + k < RngSz
        BY <1>1
      <3> QED
        BY <3>1, AheadForward
    <2>3. \A t \in 0..(u - 1) : \A k \in 0..(n - 1) : Forward(h, t) # Forward(h, u + k)
      <3> HIDE DEF u
      <3> SUFFICES ASSUME NEW t \in 0..(u - 1), NEW k \in 0..(n - 1)
                   PROVE  Forward(h, t) # Forward(h, u + k)
        OBVIOUS
      <3>1. t \in 0..(RngSz - 1) /\ u + k \in 0..(RngSz - 1) /\ t # u + k
        BY <1>1
      <3> QED
        BY <3>1, ForwardType
    <2> HIDE DEF u
    <2>4. \A t \in u..(u + n - 1) : t - u \in 0..(n - 1) /\ u + (t - u) = t
      BY <1>1
    <2> QED
      BY <2>1, <2>2, <2>3, <2>4
  <1>4. /\ L \in Seq(Reqs) /\ np \in 0..Len(L) /\ e \in Nat /\ Len(L) \in Nat
        /\ Sums(O, Len(L))
        /\ \A k \in 1..Len(L) : L[k] \in Reqs
        /\ O[Len(L)] = e + u
        /\ \A k \in (np + 1)..Len(L) : O[k] = O[Len(L)]
    BY DEF Ledger
  <1>5. /\ O[Len(L)] \in Nat
        /\ \A k \in 1..Len(L) : O[k - 1] \in Nat /\ O[k] \in Nat /\ O[k - 1] <= O[k]
        /\ \A j, k \in 1..Len(L) : j < k => O[j] <= O[k - 1]
    BY <1>4, SumsAt
  <1> HIDE DEF u, q
  <1>6. Sums(U, Len(L))
    <2>1. \A k \in 0..Len(L) : O[k] \in Nat
      BY <1>4 DEF Sums
    <2>2. U \in [0..Len(L) -> Nat] /\ \A k \in 0..Len(L) : U[k] = IF k <= np THEN O[k] ELSE O[k] + n
      BY <2>1
    <2>3. U[0] = 0
      BY <1>4, <2>2 DEF Sums
    <2> HIDE DEF U
    <2>4. ASSUME NEW j \in 0..Len(L), NEW k \in 0..Len(L), j <= k
          PROVE  U[j] <= U[k]
      <3>1. O[j] <= O[k] /\ O[j] \in Nat /\ O[k] \in Nat
        BY <1>4, <2>1, <2>4 DEF Sums
      <3>2. k <= np => j <= np
        BY <1>4, <2>4
      <3> QED
        BY <2>2, <3>1, <3>2
    <2> QED
      BY <2>2, <2>3, <2>4 DEF Sums
  <1>u. \A k \in 0..Len(L) : U[k] = IF k <= np THEN O[k] ELSE O[k] + n
    OBVIOUS
  <1> HIDE DEF U
  <1>7. /\ U[Len(L)] = e + (u + n)
        /\ \A k \in (np + 1)..Len(L) : U[k] = U[Len(L)]
    <2>1. Len(L) \in 0..Len(L) /\ Len(L) > np /\ \A k \in (np + 1)..Len(L) : k \in 0..Len(L) /\ ~(k <= np)
      BY <1>4
    <2>2. U[Len(L)] = O[Len(L)] + n /\ \A k \in (np + 1)..Len(L) : U[k] = O[k] + n
      BY <1>u, <2>1, <1>4
    <2> QED
      BY <1>1, <1>4, <2>2
  <1>8. np + 1 \in 1..Len(L) /\ mp \in 0..Len(L) /\ np \in Nat /\ mp \in {np, np + 1}
        /\ (mp = np + 1 <=> c[r].offset + n = c[r].pages)
    BY <1>4
  <1>9. /\ \A k \in 1..Len(L) : k # np + 1 => d[L[k]] = c[L[k]]
        /\ DOMAIN c[r] = CbFields
        /\ d[r] = [c[r] EXCEPT !.offset = @ + n, !.desc_nr = @ + n]
    BY <1>4, <1>8 DEF Ledger, IsCb
  <1>10. ASSUME NEW k \in 1..Len(L)
         PROVE  Entry(d[L[k]], l[L[k]], x[L[k]], k <= mp, U[k - 1], U[k], e)
    <2>1. Entry(c[L[k]], l[L[k]], x[L[k]], k <= np, O[k - 1], O[k], e)
      BY DEF Ledger
    <2>2. k - 1 \in 0..Len(L) /\ k \in 0..Len(L)
      BY <1>4
    <2>3. CASE k = np + 1
      <3>1. U[k - 1] = O[k - 1] /\ U[k] = O[k] + n /\ O[k] = e + u
        <4>1. k - 1 <= np /\ ~(k <= np)
          BY <1>8, <2>3
        <4>2. O[k] = O[Len(L)]
          BY <1>4, <1>8, <2>3, SMTT(30)
        <4> QED
          BY <1>u, <1>4, <2>2, <4>1, <4>2
      <3>2. L[k] = r /\ ~(k <= np) /\ (k <= mp <=> c[r].offset + n = c[r].pages)
        BY <1>8, <2>3
      <3>3. O[k - 1] \in Nat /\ O[k] \in Nat /\ O[k - 1] <= O[k] /\ e \in Nat /\ e <= O[k]
        BY <1>1, <1>4, <1>5, <3>1
      <3>4. Entry(c[r], l[r], x[r], FALSE, O[k - 1], O[k], e)
        BY <2>1, <3>2 DEF Entry
      <3>5. Entry(d[r], l[r], x[r], c[r].offset + n = c[r].pages, O[k - 1], O[k] + n, e)
        <4>1. n \in Nat /\ n <= c[r].pages - c[r].offset /\ O[k] + n = O[k] + n
          OBVIOUS
        <4> QED
          BY <1>9, <3>3, <3>4, <4>1, EntryFill, Zenon
      <3>6. Entry(d[r], l[r], x[r], k <= mp, O[k - 1], O[k] + n, e)
        BY <3>2, <3>5 DEF Entry
      <3> QED
        BY <3>1, <3>2, <3>6
    <2>4. CASE k # np + 1
      <3>1. d[L[k]] = c[L[k]] /\ (k <= mp <=> k <= np)
        <4>1. d[L[k]] = c[L[k]]
          BY <1>9, <2>4
        <4>2. k \in Int /\ np \in Int /\ (mp = np \/ mp = np + 1)
          BY <1>8
        <4> QED
          BY <2>4, <4>1, <4>2, OneMore
      <3>2. CASE k <= np
        <4>1. U[k - 1] = O[k - 1] /\ U[k] = O[k]
          BY <1>u, <1>8, <2>2, <3>2
        <4>2. Entry(c[L[k]], l[L[k]], x[L[k]], k <= mp, O[k - 1], O[k], e)
          BY <2>1, <3>1 DEF Entry
        <4> QED
          BY <3>1, <4>1, <4>2
      <3>3. CASE k > np + 1
        <4>1. U[k - 1] = O[k - 1] + n /\ U[k] = O[k] + n /\ O[k - 1] = O[k]
          BY <1>u, <1>4, <1>8, <2>2, <3>3
        <4>2. Reach(e, O[k - 1], O[k]) = 0 /\ Reach(e, O[k - 1] + n, O[k] + n) = 0
          BY <1>4, <1>5, <4>1 DEF Reach
        <4>3. (O[k] + n) - (O[k - 1] + n) = O[k] - O[k - 1]
          BY <1>5
        <4> QED
          BY <2>1, <3>1, <4>1, <4>2, <4>3 DEF Entry
      <3>4. k <= np \/ k > np + 1
        BY <1>8, <2>4
      <3> QED
        BY <3>2, <3>3, <3>4
    <2> QED
      BY <2>3, <2>4
  <1>11. ASSUME NEW t \in 0..(u + n - 1)
         PROVE  \E k \in 1..Len(L) : /\ U[k - 1] <= e + t /\ e + t < U[k]
                                     /\ tags[Forward(h, t)] = L[k]
    <2>1. CASE t < u
      <3>1. t \in 0..(u - 1)
        BY <1>1, <2>1
      <3>2. PICK k \in 1..Len(L) : /\ O[k - 1] <= e + t /\ e + t < O[k]
                                   /\ ring[Forward(h, t)] = L[k]
        BY <3>1 DEF Ledger, u
      <3>3. tags[Forward(h, t)] = ring[Forward(h, t)]
        BY <1>3, <3>1
      <3>4. k <= np + 1
        <4>1. SUFFICES ASSUME k > np + 1 PROVE FALSE
          BY <1>8
        <4>2. k - 1 \in (np + 1)..Len(L) /\ k \in (np + 1)..Len(L)
          BY <1>4, <1>8, <4>1
        <4>3. O[k - 1] = O[k]
          BY <1>4, <4>2
        <4>4. e + t \in Int /\ O[k] \in Int
          BY <1>1, <1>4, <1>5
        <4> QED
          BY <3>2, <4>3, <4>4
      <3>5. k - 1 \in 0..Len(L) /\ k \in 0..Len(L) /\ k - 1 <= np
        BY <1>4, <1>8, <3>4
      <3>6. U[k - 1] = O[k - 1] /\ (U[k] = O[k] \/ U[k] = O[k] + n)
        BY <1>u, <3>5
      <3>7. U[k - 1] <= e + t /\ e + t < U[k]
        BY <1>4, <1>5, <3>2, <3>6
      <3> QED
        BY <3>2, <3>3, <3>7
    <2>2. CASE t >= u
      <3>1. tags[Forward(h, t)] = L[np + 1]
        BY <1>1, <1>3, <2>2
      <3>2. np \in 0..Len(L) /\ np + 1 \in 0..Len(L) /\ (np + 1) - 1 = np
        BY <1>4, <1>8
      <3>3. U[np] = O[np] /\ U[np + 1] = e + u + n
        BY <1>u, <1>1, <1>4, <1>7, <1>8, <3>2
      <3>4. O[np] <= e + u
        BY <1>4, <1>5, <1>8, <3>2
      <3>5. O[np] \in Nat
        BY <1>5, <1>8, <3>2
      <3>6. O[np] <= e + t /\ e + t < e + u + n
        <4>1. /\ u \in Int /\ n \in Int /\ t \in Int /\ u <= t /\ t <= u + n - 1
              /\ O[np] \in Int /\ e \in Int
          BY <1>1, <1>4, <2>2, <3>5
        <4> QED
          BY <3>4, <4>1, InLast
      <3> DEFINE i == np + 1
      <3>7. i \in 1..Len(L) /\ tags[Forward(h, t)] = L[i] /\ U[i - 1] <= e + t /\ e + t < U[i]
        BY <1>8, <3>1, <3>2, <3>3, <3>6
      <3> HIDE DEF i
      <3> QED
        BY <3>7, Zenon
    <2>3. t < u \/ t >= u
      BY <1>1
    <2> QED
      BY <2>1, <2>2, <2>3, Zenon
  <1>12. \A k \in (mp + 1)..Len(L) : U[k] = U[Len(L)]
    BY <1>8, <1>7
  <1>13. Ledger(U, L, mp, d, l, x, e, h, q, tags)
    <2>1. \A j, k \in 1..Len(L) : j # k => L[j] # L[k]
      BY DEF Ledger
    <2>2. U[Len(L)] = e + Ahead(h, q)
      BY <1>2, <1>7
    <2>3. \A t \in 0..(Ahead(h, q) - 1) :
            \E k \in 1..Len(L) : /\ U[k - 1] <= e + t /\ e + t < U[k]
                                 /\ tags[Forward(h, t)] = L[k]
      <3>1. Ahead(h, q) - 1 = u + n - 1
        BY <1>1, <1>2
      <3> QED
        BY <3>1, <1>11, Zenon
    <2> QED
      BY <2>1, <2>2, <2>3, <1>4, <1>6, <1>8, <1>10, <1>12, Zenon DEF Ledger
  <1> QED
    BY <1>13 DEF q

\* The count starts s later: after requests that are paid,
LEMMA EntryShift ==
  ASSUME NEW v, NEW l, NEW x, NEW b, NEW lo \in Nat, NEW hi \in Nat, NEW e \in Nat,
         Entry(v, l, x, b, lo, hi, e), lo <= hi, NEW s \in Nat, s <= lo
  PROVE  Entry(v, l, x, b, lo - s, hi - s, e - s)
  <1>1. Reach(e - s, lo - s, hi - s) = Reach(e, lo, hi) /\ (hi - s) - (lo - s) = hi - lo
    BY DEF Reach
  <1> QED
    BY <1>1 DEF Entry

\* or within one that is paid in part.
LEMMA EntryPart ==
  ASSUME NEW v, NEW l, NEW x, NEW b, NEW lo \in Nat, NEW hi \in Nat, NEW e \in Nat,
         Entry(v, l, x, b, lo, hi, e), NEW s \in Nat, lo <= s, s <= hi, s <= e,
         DOMAIN v = CbFields,
         NEW w, w = [v EXCEPT !.desc_nr = @ - (s - lo)]
  PROVE  Entry(w, l, x, b, 0, hi - s, e - s)
  <1>1. /\ w.done = v.done /\ w.status = v.status /\ w.pages = v.pages
        /\ w.offset = v.offset /\ w.desc_nr = v.desc_nr - (s - lo)
    BY DEF CbFields
  <1>2. Reach(e - s, 0, hi - s) = Reach(e, lo, hi) - (s - lo) /\ Reach(e, lo, hi) \in Int
    BY DEF Reach
  <1>3. w.desc_nr \in Nat /\ w.desc_nr = (hi - s) - 0
    BY <1>1 DEF Entry
  <1>4. x = w.offset - w.desc_nr + Reach(e - s, 0, hi - s)
    BY <1>1, <1>2 DEF Entry
  <1> QED
    BY <1>1, <1>3, <1>4 DEF Entry

\* The queue knows of K descriptors executed: that pays the first n requests of L,
\* which leave it, and a part of the next.
PaidTo(O, L, np, c, e, K, n, M, d, f) ==
  /\ K \in Nat /\ K <= e
  /\ n \in 0..np /\ O[n] <= K /\ \A k \in 0..np : O[k] <= K => k <= n
  /\ M \in Seq(Reqs) /\ Len(M) = Len(L) - n
  /\ \A k \in 1..Len(M) : M[k] = L[k + n]
  /\ d = [r \in Reqs |->
            IF r \in {L[k] : k \in 1..n} THEN [c[r] EXCEPT !.done = TRUE]
            ELSE IF r \in (IF n < np THEN {L[n + 1]} ELSE {})
                 THEN [c[r] EXCEPT !.desc_nr = @ - (K - O[n])]
            ELSE c[r]]
  /\ f = (e - K) + (IF n < np THEN 0 ELSE K - O[n])

\* The engine has come to e, K of which the queue knows: that pays the first n
\* requests and a part of the next.
LEMMA LedgerPay ==
  ASSUME NEW O, NEW L, NEW np, NEW c, NEW l, NEW x, NEW e, NEW h \in Index, NEW p \in Index,
         NEW ring, Ledger(O, L, np, c, l, x, e, h, p, ring), IsCb(c),
         NEW K, NEW n, NEW M, NEW d, NEW f, PaidTo(O, L, np, c, e, K, n, M, d, f)
  PROVE  /\ \E U : Ledger(U, M, np - n, d, l, x, f, h, p, ring)
         /\ \A k \in 1..n : x[L[k]] = c[L[k]].pages
  <1> DEFINE s == IF n < np THEN K ELSE O[n]
             U == [k \in 0..Len(M) |-> IF k = 0 THEN 0 ELSE O[k + n] - s]
  <1> USE DEF PaidTo
  <1>1. /\ L \in Seq(Reqs) /\ np \in 0..Len(L) /\ e \in Nat /\ Len(L) \in Nat
        /\ Sums(O, Len(L))
        /\ \A k \in 1..Len(L) : L[k] \in Reqs
        /\ O[Len(L)] = e + Ahead(h, p)
        /\ \A k \in (np + 1)..Len(L) : O[k] = O[Len(L)]
        /\ \A j, k \in 1..Len(L) : j # k => L[j] # L[k]
    BY DEF Ledger
  <1>2. /\ O[Len(L)] \in Nat /\ O[0] = 0
        /\ \A k \in 1..Len(L) : O[k - 1] \in Nat /\ O[k] \in Nat /\ O[k - 1] <= O[k]
        /\ \A j, k \in 1..Len(L) : j < k => O[j] <= O[k - 1]
    BY <1>1, SumsAt
  <1>3. n \in Nat /\ np \in Nat /\ n <= np /\ np <= Len(L) /\ n \in 0..Len(L)
    BY <1>1
  <1>4. \A k \in 0..Len(L) : O[k] \in Nat
    BY <1>1 DEF Sums
  <1>5. s \in Nat /\ O[n] <= s /\ s <= e /\ f = e - s /\ f \in Nat
    <2>1. O[n] \in Nat
      BY <1>3, <1>4
    <2>2. K \in Nat /\ K <= e /\ e \in Nat /\ O[n] <= K
      BY <1>1
    <2>3. s \in Nat /\ O[n] <= s /\ s <= e
      BY <2>1, <2>2
    <2>4. f = (e - K) + (IF n < np THEN 0 ELSE K - O[n])
      OBVIOUS
    <2>5. CASE n < np
      BY <2>1, <2>2, <2>3, <2>4, <2>5
    <2>6. CASE ~(n < np)
      <3>1. s = O[n] /\ f = (e - K) + (K - O[n])
        BY <2>4, <2>6
      <3> HIDE DEF s
      <3> QED
        BY <2>1, <2>2, <2>3, <3>1
    <2> QED
      BY <2>5, <2>6
  <1>6. \A k \in (n + 1)..Len(L) : s <= O[k]
    <2> SUFFICES ASSUME NEW k \in (n + 1)..Len(L) PROVE s <= O[k]
      OBVIOUS
    <2>1. k \in 0..Len(L) /\ n <= k /\ n + 1 <= k
      BY <1>3
    <2>2. CASE n < np
      <3>1. n + 1 \in 0..np /\ ~(n + 1 <= n) /\ n + 1 \in 0..Len(L)
        BY <1>3, <2>2
      <3>2. ~(O[n + 1] <= K)
        BY <3>1
      <3>3. O[n + 1] <= O[k]
        BY <1>1, <2>1, <3>1 DEF Sums
      <3> QED
        BY <1>4, <2>1, <2>2, <3>1, <3>2, <3>3
    <2>3. CASE ~(n < np)
      BY <1>1, <1>3, <2>1, <2>3 DEF Sums
    <2> QED
      BY <2>2, <2>3
  <1> HIDE DEF s
  <1>7. Len(M) \in Nat /\ \A k \in 1..Len(M) : k + n \in (n + 1)..Len(L) /\ k + n \in 1..Len(L)
    BY <1>1, <1>3
  <1>8. /\ U[0] = 0
        /\ \A k \in 1..Len(M) : U[k] = O[k + n] - s /\ U[k] \in Nat
        /\ \A k \in 2..Len(M) : U[k - 1] = O[k + n - 1] - s
        /\ ~(n < np) => \A k \in 0..Len(M) : U[k] = O[k + n] - s
    <2>1. \A k \in 1..Len(M) : U[k] = O[k + n] - s
      BY <1>7
    <2>2. \A k \in 1..Len(M) : O[k + n] \in Nat /\ s <= O[k + n]
      BY <1>2, <1>6, <1>7
    <2>3. \A k \in 2..Len(M) : k - 1 \in 1..Len(M) /\ (k - 1) + n = k + n - 1
      BY <1>3, <1>7
    <2>4. ~(n < np) => s = O[n] /\ O[0 + n] = O[n] /\ O[n] \in Nat
      BY <1>3, <1>4 DEF s
    <2>5. U[0] = 0
      BY <1>7
    <2>6. \A k \in 1..Len(M) : U[k] \in Nat
      BY <2>1, <2>2, <1>5
    <2>7. \A k \in 0..Len(M) : k = 0 \/ k \in 1..Len(M)
      BY <1>7
    <2> HIDE DEF U
    <2>8. \A k \in 2..Len(M) : U[k - 1] = O[k + n - 1] - s
      BY <2>1, <2>3
    <2>9. ~(n < np) => \A k \in 0..Len(M) : U[k] = O[k + n] - s
      BY <2>1, <2>4, <2>5, <2>7
    <2> QED
      BY <2>1, <2>5, <2>6, <2>8, <2>9
  <1>9. U \in [0..Len(M) -> Nat]
    <2>1. \A k \in 0..Len(M) : k = 0 \/ k \in 1..Len(M)
      BY <1>7
    <2>2. \A k \in 0..Len(M) : U[k] \in Nat
      BY <1>8, <2>1
    <2> QED
      BY <2>2
  <1> HIDE DEF U
  <1>10. Sums(U, Len(M))
    <2> SUFFICES ASSUME NEW j \in 0..Len(M), NEW k \in 0..Len(M), j <= k
                 PROVE  U[j] <= U[k]
      BY <1>8, <1>9 DEF Sums
    <2>1. CASE j = 0
      BY <2>1, <1>8, <1>9
    <2>2. CASE j # 0
      <3>1. j \in 1..Len(M) /\ k \in 1..Len(M) /\ j + n <= k + n
        BY <1>7, <1>3, <2>2
      <3>2. j + n \in 0..Len(L) /\ k + n \in 0..Len(L)
        BY <1>7, <3>1
      <3>3. O[j + n] <= O[k + n] /\ O[j + n] \in Nat /\ O[k + n] \in Nat
        BY <1>1, <1>4, <3>1, <3>2 DEF Sums
      <3> QED
        BY <1>5, <1>8, <3>1, <3>3, SMTT(30)
    <2> QED
      BY <2>1, <2>2
  <1>11. U[Len(M)] = f + Ahead(h, p)
    <2>1. Ahead(h, p) \in Nat
      BY AheadType
    <2>2. CASE Len(M) = 0
      <3>1. n = np /\ Len(L) = n
        BY <1>3, <1>7, <2>2
      <3>2. s = O[n] /\ O[Len(L)] = O[n]
        BY <3>1, <1>3 DEF s
      <3>3. O[n] \in Nat
        BY <1>3, <1>4
      <3> QED
        <4>1. O[Len(L)] = e + Ahead(h, p) /\ e \in Nat /\ f = e - s /\ U[Len(M)] = 0
          BY <1>1, <1>5, <1>8, <2>2
        <4> QED
          BY <2>1, <3>2, <3>3, <4>1
    <2>3. CASE Len(M) # 0
      <3>1. Len(M) \in 1..Len(M) /\ Len(M) + n = Len(L)
        BY <1>1, <1>3, <1>7, <2>3
      <3>2. U[Len(M)] = O[Len(L)] - s
        BY <1>8, <3>1
      <3>3. O[Len(L)] = e + Ahead(h, p) /\ e \in Nat /\ s \in Nat /\ f = e - s
        BY <1>1, <1>5
      <3> QED
        BY <2>1, <3>2, <3>3
    <2> QED
      BY <2>2, <2>3
  <1>12. \A k \in (np - n + 1)..Len(M) : U[k] = U[Len(M)]
    <2> SUFFICES ASSUME NEW k \in (np - n + 1)..Len(M) PROVE U[k] = U[Len(M)]
      OBVIOUS
    <2>1. k \in 1..Len(M) /\ Len(M) \in 1..Len(M) /\ Len(M) + n = Len(L)
      BY <1>1, <1>3, <1>7, SMTT(30)
    <2>2. k + n \in (np + 1)..Len(L)
      BY <1>1, <1>3, <1>7, SMTT(30)
    <2>3. O[k + n] = O[Len(L)]
      BY <1>1, <2>2
    <2> QED
      BY <1>8, <2>1, <2>3
  <1>13. \A j, k \in 1..Len(M) : j # k => M[j] # M[k]
    <2> SUFFICES ASSUME NEW j \in 1..Len(M), NEW k \in 1..Len(M), j # k PROVE M[j] # M[k]
      OBVIOUS
    <2>1. j + n \in 1..Len(L) /\ k + n \in 1..Len(L) /\ j + n # k + n
      BY <1>3, <1>7
    <2> QED
      BY <1>1, <2>1
  <1>14. ASSUME NEW k \in 1..Len(M)
         PROVE  d[M[k]] = IF n < np /\ k = 1 THEN [c[L[n + 1]] EXCEPT !.desc_nr = @ - (K - O[n])]
                          ELSE c[L[k + n]]
    <2>1. M[k] = L[k + n] /\ k + n \in 1..Len(L) /\ M[k] \in Reqs
      BY <1>1, <1>7
    <2>2. \A j \in 1..n : j \in 1..Len(L) /\ j # k + n
      BY <1>3
    <2>3. M[k] \notin {L[j] : j \in 1..n}
      BY <1>1, <2>1, <2>2
    <2>4. n < np => (M[k] = L[n + 1] <=> k = 1)
      <3>1. SUFFICES ASSUME n < np PROVE M[k] = L[n + 1] <=> k = 1
        OBVIOUS
      <3>2. n + 1 \in 1..Len(L)
        BY <1>3, <3>1
      <3>3. k = 1 <=> k + n = n + 1
        BY <1>3
      <3> QED
        BY <1>1, <2>1, <3>2, <3>3
    <2>5. CASE n < np /\ k = 1
      <3>1. M[k] = L[n + 1]
        BY <2>4, <2>5
      <3> QED
        BY <2>1, <2>3, <2>5, <3>1
    <2>6. CASE ~(n < np /\ k = 1)
      <3>1. M[k] \notin (IF n < np THEN {L[n + 1]} ELSE {})
        BY <2>4, <2>6
      <3> QED
        BY <2>1, <2>3, <2>6, <3>1
    <2> QED
      BY <2>5, <2>6
  <1>15. ASSUME NEW k \in 1..Len(M)
         PROVE  Entry(d[M[k]], l[M[k]], x[M[k]], k <= np - n, U[k - 1], U[k], f)
    <2> DEFINE i == k + n
    <2>1. i \in 1..Len(L) /\ M[k] = L[i] /\ s <= O[i] /\ U[k] = O[i] - s
      BY <1>6, <1>7, <1>8
    <2>2. (i <= np <=> k <= np - n) /\ i \in Nat /\ k \in Nat /\ k >= 1
      BY <1>3
    <2>3. Entry(c[L[i]], l[L[i]], x[L[i]], i <= np, O[i - 1], O[i], e)
      BY <2>1 DEF Ledger
    <2>4. Entry(c[L[i]], l[L[i]], x[L[i]], k <= np - n, O[i - 1], O[i], e)
      BY <2>2, <2>3 DEF Entry
    <2>5. O[i - 1] \in Nat /\ O[i] \in Nat /\ O[i - 1] <= O[i]
      BY <1>2, <2>1
    <2>6. CASE n < np /\ k = 1
      <3>1. i = n + 1 /\ i - 1 = n /\ s = K
        BY <1>3, <2>6 DEF s
      <3>2. d[M[k]] = [c[L[i]] EXCEPT !.desc_nr = @ - (s - O[i - 1])]
        BY <1>14, <2>6, <3>1
      <3>3. DOMAIN c[L[i]] = CbFields
        BY <1>1, <2>1 DEF IsCb
      <3>4. O[i - 1] <= s /\ U[k - 1] = 0
        BY <1>5, <1>8, <2>6, <3>1
      <3> HIDE DEF i
      <3>5. Entry(d[M[k]], l[L[i]], x[L[i]], k <= np - n, 0, O[i] - s, e - s)
        <4>1. s \in Nat /\ e \in Nat /\ s <= e /\ s <= O[i]
          BY <1>1, <1>5, <2>1
        <4> DEFINE v == c[L[i]]
                   w == d[M[k]]
                   lo == O[i - 1]
                   hi == O[i]
                   b == k <= np - n
                   lc == l[L[i]]
                   xc == x[L[i]]
        <4>2. /\ lo \in Nat /\ hi \in Nat /\ lo <= s /\ s <= hi /\ DOMAIN v = CbFields
              /\ Entry(v, lc, xc, b, lo, hi, e) /\ w = [v EXCEPT !.desc_nr = @ - (s - lo)]
          BY <2>4, <2>5, <3>2, <3>3, <3>4, <4>1
        <4> HIDE DEF v, w, lo, hi, b, lc, xc
        <4>3. Entry(w, lc, xc, b, 0, hi - s, e - s)
          BY <4>1, <4>2, EntryPart, Zenon
        <4> QED
          BY <4>3 DEF v, w, lo, hi, b, lc, xc
      <3> QED
        BY <1>5, <2>1, <3>4, <3>5
    <2>7. CASE ~(n < np /\ k = 1)
      <3>1. d[M[k]] = c[L[i]]
        BY <1>14, <2>7
      <3>2. U[k - 1] = O[i - 1] - s /\ s <= O[i - 1]
        <4>1. CASE k = 1
          <5>1. ~(n < np) /\ i - 1 = n /\ s = O[n] /\ k - 1 = 0
            BY <1>3, <2>7, <4>1 DEF s
          <5> QED
            BY <1>3, <1>4, <1>8, <5>1
        <4>2. CASE k # 1
          <5>1. k \in 2..Len(M) /\ i - 1 \in (n + 1)..Len(L)
            BY <1>3, <1>7, <2>2, <4>2, SMTT(30)
          <5> QED
            BY <1>6, <1>8, <5>1
        <4> QED
          BY <4>1, <4>2
      <3> HIDE DEF i
      <3>3. Entry(c[L[i]], l[L[i]], x[L[i]], k <= np - n, O[i - 1] - s, O[i] - s, e - s)
        BY <1>1, <1>5, <2>4, <2>5, <3>2, EntryShift
      <3> QED
        BY <1>5, <2>1, <3>1, <3>2, <3>3
    <2> QED
      BY <2>6, <2>7
  <1>m. /\ \A k \in 1..Len(M) : M[k] = L[k + n]
        /\ Len(M) = Len(L) - n /\ M \in Seq(Reqs)
    OBVIOUS
  <1> HIDE DEF PaidTo
  <1>16. ASSUME NEW t \in 0..(Ahead(h, p) - 1)
         PROVE  \E k \in 1..Len(M) : /\ U[k - 1] <= f + t /\ f + t < U[k]
                                     /\ ring[Forward(h, t)] = M[k]
    <2>1. PICK i \in 1..Len(L) : /\ O[i - 1] <= e + t /\ e + t < O[i]
                                 /\ ring[Forward(h, t)] = L[i]
      BY DEF Ledger
    <2>2. t \in Nat /\ O[i - 1] \in Nat /\ O[i] \in Nat /\ O[n] \in Nat
      BY <1>2, <1>3, <1>4, AheadType
    <2>a. e \in Nat /\ s \in Nat /\ f = e - s
      BY <1>1, <1>5
    <2>3. i > n
      <3>1. SUFFICES ASSUME i <= n PROVE FALSE
        BY <1>3
      <3>2. O[i] <= O[n]
        BY <1>1, <1>3, <3>1 DEF Sums
      <3> QED
        <4> DEFINE a == O[i]
                   b == O[n]
        <4>1. /\ a \in Int /\ b \in Int /\ a <= b /\ b <= s /\ s <= e /\ e + t < a
              /\ s \in Int /\ e \in Int /\ t \in Nat
          BY <1>5, <2>1, <2>2, <2>a, <3>2
        <4> HIDE DEF a, b
        <4> QED
          BY <4>1, NotBetween
    <2> DEFINE k == i - n
    <2>4. k \in 1..Len(M) /\ k + n = i
      BY <1>1, <1>3, <1>7, <1>m, <2>3
    <2>5. U[k] = O[i] - s /\ M[k] = L[i]
      BY <1>8, <1>m, <2>4
    <2>6. U[k - 1] <= f + t
      <3>1. CASE k = 1
        <4>1. k - 1 = 0 /\ f + t \in Nat
          BY <1>5, <2>2, <3>1
        <4> HIDE DEF k
        <4> QED
          BY <1>8, <4>1
      <3>2. CASE k # 1
        <4>1. k \in 2..Len(M) /\ k + n - 1 = i - 1
          <5> HIDE DEF k
          <5>1. k \in Nat /\ n \in Nat /\ k + n = i
            BY <1>3, <1>7, <2>4
          <5>2. k \in 2..Len(M)
            BY <1>7, <2>4, <3>2
          <5> QED
            BY <5>1, <5>2
        <4>2. U[k - 1] = O[i - 1] - s
          BY <1>8, <4>1
        <4> HIDE DEF k
        <4> QED
          BY <2>1, <2>2, <2>a, <4>2, CountedFrom
      <3> QED
        BY <3>1, <3>2
    <2>7. f + t < U[k]
      <3> HIDE DEF k
      <3> QED
        BY <2>1, <2>2, <2>a, <2>5, CountedFrom
    <2> HIDE DEF k
    <2> QED
      BY <2>1, <2>4, <2>5, <2>6, <2>7, Zenon
  <1>17. ASSUME NEW k \in 1..n
         PROVE  x[L[k]] = c[L[k]].pages
    <2>1. k \in 1..Len(L) /\ k <= np
      BY <1>3
    <2>2. Entry(c[L[k]], l[L[k]], x[L[k]], k <= np, O[k - 1], O[k], e)
      BY <2>1 DEF Ledger
    <2>3. O[k - 1] \in Nat /\ O[k] \in Nat /\ O[k - 1] <= O[k] /\ O[n] \in Nat
      BY <1>2, <1>3, <1>4, <2>1
    <2>4. O[k] <= O[n]
      BY <1>1, <1>3, <2>1 DEF Sums
    <2>5. Reach(e, O[k - 1], O[k]) = O[k] - O[k - 1]
      <3>1. O[n] <= e /\ e \in Nat
        BY <1>1, <1>5, <2>3
      <3>2. O[k] <= e
        BY <2>3, <2>4, <3>1
      <3> QED
        BY <2>3, <3>1, <3>2 DEF Reach
    <2> QED
      <3>1. Entry(c[L[k]], l[L[k]], x[L[k]], TRUE, O[k - 1], O[k], e)
        BY <2>1, <2>2 DEF Entry
      <3> QED
        BY <2>3, <2>5, <3>1, EntryMoved
  <1>18. np - n \in 0..Len(M)
    BY <1>1, <1>3, <1>m
  <1>19. Ledger(U, M, np - n, d, l, x, f, h, p, ring)
    BY <1>m, <1>5, <1>10, <1>11, <1>12, <1>13, <1>15, <1>16, <1>18, Zenon DEF Ledger
  <1> QED
    BY <1>17, <1>19

\* r is a new request for n pages; nothing else in L changes.
Fresh(L, c, l, x, r, n, d, m) ==
  /\ r \in Reqs /\ n \in Nat /\ n > 0 /\ x[r] = 0
  /\ \A k \in 1..Len(L) : L[k] # r /\ d[L[k]] = c[L[k]] /\ m[L[k]] = l[L[k]]
  /\ d[r] = [NewCb EXCEPT !.pages = n] /\ m[r] = "proc"

\* A request is added to the work list.
LEMMA LedgerSubmit ==
  ASSUME NEW O, NEW L, NEW np, NEW c, NEW l, NEW x, NEW e, NEW h \in Index, NEW p \in Index,
         NEW ring, Ledger(O, L, np, c, l, x, e, h, p, ring),
         NEW r, NEW n, NEW d, NEW m, Fresh(L, c, l, x, r, n, d, m)
  PROVE  \E U : Ledger(U, Append(L, r), np, d, m, x, e, h, p, ring)
  <1> USE DEF Fresh
  <1> DEFINE N == Len(L)
             M == Append(L, r)
             U == [k \in 0..(N + 1) |-> IF k <= N THEN O[k] ELSE O[N]]
  <1>1. /\ L \in Seq(Reqs) /\ np \in 0..N /\ e \in Nat /\ N \in Nat
        /\ Sums(O, N)
        /\ O[N] = e + Ahead(h, p)
        /\ \A k \in (np + 1)..N : O[k] = O[N]
        /\ \A j, k \in 1..N : j # k => L[j] # L[k]
    BY DEF Ledger
  <1>2. /\ M \in Seq(Reqs) /\ Len(M) = N + 1 /\ M[N + 1] = r
        /\ \A k \in 1..N : M[k] = L[k]
    BY <1>1
  <1>3. Ahead(h, p) \in Nat /\ O[N] \in Nat
    BY <1>1, AheadType
  <1>4. U[N + 1] = O[N] /\ \A k \in 0..N : U[k] = O[k]
    BY <1>1
  <1>5. U \in [0..(N + 1) -> Nat]
    BY <1>1, <1>3 DEF Sums
  <1> HIDE DEF U, M
  <1>6. Sums(U, Len(M))
    <2>1. \A k \in 0..(N + 1) : k = N + 1 \/ k \in 0..N
      BY <1>1
    <2>2. \A k \in 0..N : O[k] <= O[N]
      <3>1. N \in 0..N /\ \A k \in 0..N : k <= N
        BY <1>1
      <3> HIDE DEF N
      <3> QED
        BY <1>1, <3>1 DEF Sums
    <2>3. \A j, k \in 0..(N + 1) : j <= k => U[j] <= U[k]
      <3> SUFFICES ASSUME NEW j \in 0..(N + 1), NEW k \in 0..(N + 1), j <= k
                   PROVE  U[j] <= U[k]
        OBVIOUS
      <3>1. CASE j = N + 1
        BY <1>1, <1>3, <1>4, <3>1
      <3>2. CASE j \in 0..N /\ k = N + 1
        BY <1>4, <2>2, <3>2
      <3>3. CASE j \in 0..N /\ k \in 0..N
        BY <1>1, <1>4, <3>3 DEF Sums
      <3> QED
        BY <2>1, <3>1, <3>2, <3>3
    <2>4. U[0] = 0
      BY <1>1, <1>4 DEF Sums
    <2> QED
      BY <1>2, <1>5, <2>3, <2>4 DEF Sums
  <1>7. \A k \in 1..Len(M) : k = N + 1 \/ k \in 1..N
    BY <1>1, <1>2
  <1>8. \A j, k \in 1..Len(M) : j # k => M[j] # M[k]
    BY <1>1, <1>2, <1>7
  <1>9. \A k \in 1..N : U[k - 1] = O[k - 1] /\ U[k] = O[k]
    <2>1. \A k \in 1..N : k - 1 \in 0..N /\ k \in 0..N
      BY <1>1
    <2> QED
      BY <1>4, <2>1
  <1>10. ASSUME NEW k \in 1..Len(M)
         PROVE  Entry(d[M[k]], m[M[k]], x[M[k]], k <= np, U[k - 1], U[k], e)
    <2>1. CASE k \in 1..N
      <3>1. Entry(c[L[k]], l[L[k]], x[L[k]], k <= np, O[k - 1], O[k], e)
        BY <2>1 DEF Ledger
      <3> QED
        BY <1>2, <1>9, <2>1, <3>1
    <2>2. CASE k = N + 1
      <3>1. U[k - 1] = O[N] /\ U[k] = O[N] /\ M[k] = r /\ ~(k <= np)
        <4>1. k - 1 = N /\ N \in 0..N /\ ~(k <= np)
          BY <1>1, <2>2
        <4> QED
          BY <1>2, <1>4, <2>2, <4>1
      <3>2. Reach(e, O[N], O[N]) = 0
        BY <1>1, <1>3 DEF Reach
      <3>3. /\ d[r].done = FALSE /\ d[r].status = FALSE /\ d[r].pages = n
            /\ d[r].offset = 0 /\ d[r].desc_nr = 0
        BY DEF NewCb
      <3>4. m[r] \notin Ended \cup {"idle"}
        BY DEF Ended
      <3>5. O[N] - O[N] = 0 /\ x[r] = 0 - 0 + 0
        BY <1>3
      <3>6. Entry(d[r], m[r], x[r], k <= np, O[N], O[N], e)
        BY <3>1, <3>2, <3>3, <3>4, <3>5 DEF Entry
      <3> QED
        BY <3>1, <3>6
    <2> QED
      BY <1>7, <2>1, <2>2
  <1>11. U[Len(M)] = e + Ahead(h, p)
    BY <1>1, <1>2, <1>4
  <1>12. \A k \in (np + 1)..Len(M) : U[k] = U[Len(M)]
    <2> SUFFICES ASSUME NEW k \in (np + 1)..Len(M) PROVE U[k] = U[Len(M)]
      OBVIOUS
    <2>1. k = N + 1 \/ k \in (np + 1)..N
      BY <1>1, <1>2
    <2>2. k \in (np + 1)..N => k \in 0..N
      BY <1>1
    <2> QED
      BY <1>1, <1>2, <1>4, <2>1, <2>2
  <1>13. ASSUME NEW t \in 0..(Ahead(h, p) - 1)
         PROVE  \E k \in 1..Len(M) : /\ U[k - 1] <= e + t /\ e + t < U[k]
                                     /\ ring[Forward(h, t)] = M[k]
    <2>1. PICK k \in 1..N : /\ O[k - 1] <= e + t /\ e + t < O[k]
                            /\ ring[Forward(h, t)] = L[k]
      BY DEF Ledger
    <2>2. k \in 1..Len(M)
      BY <1>1, <1>2
    <2> QED
      BY <1>2, <1>9, <2>1, <2>2
  <1>14. np \in 0..Len(M)
    BY <1>1, <1>2
  <1>15. Ledger(U, M, np, d, m, x, e, h, p, ring)
    BY <1>1, <1>2, <1>6, <1>8, <1>10, <1>11, <1>12, <1>13, <1>14, Zenon DEF Ledger
  <1> QED
    BY <1>15 DEF M

\* What happens elsewhere leaves it alone.
LEMMA LedgerKeep ==
  ASSUME NEW O, NEW L, NEW np, NEW c, NEW l, NEW x, NEW e, NEW h, NEW p,
         NEW ring, Ledger(O, L, np, c, l, x, e, h, p, ring), NEW d, NEW m,
         \A k \in 1..Len(L) : d[L[k]] = c[L[k]] /\ m[L[k]] \notin Ended \cup {"idle"}
  PROVE  Ledger(O, L, np, d, m, x, e, h, p, ring)
  <1>1. \A k \in 1..Len(L) : Entry(d[L[k]], m[L[k]], x[L[k]], k <= np, O[k - 1], O[k], e)
    BY DEF Ledger, Entry
  <1> QED
    BY <1>1, Zenon DEF Ledger

LEMMA LedgerFresh ==
  ASSUME NEW c, NEW l, NEW x, NEW ring
  PROVE  Ledger([k \in 0..0 |-> 0], <<>>, 0, c, l, x, 0, 0, 0, ring)
  BY DEF Ledger, Sums, Ahead

(***************************************************************************)
(* Polling pays what it should.                                            *)
(***************************************************************************)
\* A set of naturals up to N has the greatest element that Max names.
LEMMA MaxOfNats ==
  ASSUME NEW N \in Nat, NEW S \in SUBSET (0..N), S # {}
  PROVE  Max(S) \in S /\ \A y \in S : y <= Max(S)
  <1> DEFINE T == {N - y : y \in S}
             R == OpToRel(<, Nat)
  <1>1. T \in SUBSET Nat /\ T # {}
    <2>1. \A y \in S : N - y \in Nat
      OBVIOUS
    <2> QED
      BY <2>1
  <1>2. PICK x \in T : \A y \in T : ~ (<<y, x>> \in R)
    BY <1>1, NatLessThanWellFounded, WFMin, Zenon
  <1>3. \A y \in T : ~ (y < x)
    BY <1>1, <1>2 DEF OpToRel
  <1>4. PICK z \in S : x = N - z
    OBVIOUS
  <1>5. \A y \in S : N - y \in T /\ N - y \in Int /\ y \in Int
    OBVIOUS
  <1> HIDE DEF T
  <1>6. \A y \in S : y <= z
    BY <1>3, <1>4, <1>5
  <1> QED
    BY <1>6 DEF Max

\* O sums up what the pending list of d misses,
Misses(O, d, c) ==
  /\ Len(d.pend_list) \in Nat
  /\ O \in [0..Len(d.pend_list) -> Nat] /\ O[0] = 0
  /\ \A k \in 1..Len(d.pend_list) : c[d.pend_list[k]].desc_nr = O[k] - O[k - 1]

\* and so does Owed.
LEMMA OwedIs ==
  ASSUME NEW d, NEW c, NEW O, Misses(O, d, c)
  PROVE  \A k \in 0..Len(d.pend_list) : Owed(d, c)[k] = O[k]
  <1> DEFINE N == Len(d.pend_list)
             Is(f) == f = [k \in 0..N |-> IF k = 0 THEN 0
                                           ELSE f[k - 1] + c[d.pend_list[k]].desc_nr]
             W == Owed(d, c)
  <1>0. /\ N \in Nat /\ O \in [0..N -> Nat] /\ O[0] = 0
        /\ \A k \in 1..N : c[d.pend_list[k]].desc_nr = O[k] - O[k - 1]
    BY DEF Misses
  <1>1. Is(O)
    <2> DEFINE G == [k \in 0..N |-> IF k = 0 THEN 0 ELSE O[k - 1] + c[d.pend_list[k]].desc_nr]
    <2>1. ASSUME NEW k \in 0..N PROVE O[k] = G[k]
      <3>1. CASE k = 0
        BY <1>0, <3>1
      <3>2. CASE k # 0
        <4>1. k \in 1..N /\ k - 1 \in 0..N
          BY <1>0, <3>2
        <4>2. O[k] \in Nat /\ O[k - 1] \in Nat /\ c[d.pend_list[k]].desc_nr = O[k] - O[k - 1]
          BY <1>0, <4>1
        <4> QED
          BY <3>2, <4>2
      <3> QED
        BY <3>1, <3>2
    <2> HIDE DEF G
    <2>2. O = G
      BY <1>0, <2>1 DEF G
    <2> QED
      BY <2>2 DEF G
  <1>2. W = CHOOSE f : Is(f)
    BY Zenon DEF Owed
  <1> HIDE DEF W, Is
  <1>3. Is(W)
    BY <1>1, <1>2
  <1> DEFINE T == {k \in 0..N : W[k] # O[k]}
             R == OpToRel(<, Nat)
  <1>4. SUFFICES ASSUME T # {} PROVE FALSE
    BY DEF W
  <1>5. T \in SUBSET Nat
    BY <1>0
  <1>6. PICK i \in T : \A y \in T : ~ (<<y, i>> \in R)
    BY <1>4, <1>5, NatLessThanWellFounded, WFMin, Zenon
  <1>7. \A y \in T : ~ (y < i)
    BY <1>5, <1>6 DEF OpToRel
  <1>8. i # 0
    BY <1>0, <1>3 DEF Is
  <1>9. i \in 1..N /\ i - 1 \in 0..N /\ i - 1 < i
    BY <1>0, <1>8
  <1>10. W[i - 1] = O[i - 1]
    BY <1>7, <1>9
  <1>11. W[i] = O[i - 1] + c[d.pend_list[i]].desc_nr
    BY <1>3, <1>8, <1>9, <1>10 DEF Is
  <1>12. O[i - 1] \in Nat /\ O[i] \in Nat /\ c[d.pend_list[i]].desc_nr = O[i] - O[i - 1]
    BY <1>0, <1>9
  <1> QED
    BY <1>11, <1>12

\* The ledger of the queue d with the requests c, the calls at l, x descriptors
\* executed and the engine h.
QLedger(d, c, l, x, h) ==
  /\ d.pend_list \in Seq(Reqs) /\ d.work_list \in Seq(Reqs) /\ d.credit \in Nat
  /\ \E O : Ledger(O, d.pend_list \o d.work_list, Len(d.pend_list), c, l, x,
                   d.credit + Ahead(d.cidx, h.cidx), h.cidx, d.pidx, h.ring)

\* Who is told of success has had all descriptors executed.
Told(c, x) == \A r \in Reqs : c[r].done /\ ~c[r].status => x[r] = c[r].pages

LEMMA AheadAdd ==
  ASSUME NEW i \in Index, NEW j \in Index, NEW k \in Index, Ahead(i, j) + Ahead(j, k) < RngSz
  PROVE  Ahead(i, k) = Ahead(i, j) + Ahead(j, k)
  <1>1. Ahead(j, k) \in Nat /\ Forward(j, Ahead(j, k)) = k
    BY DEF Ahead, Forward, Index
  <1> QED
    BY <1>1, AheadForward

\* u is what becomes of the queue d and the requests c when n requests are paid.
Paid(u, d, c, n, left) ==
  /\ u.q.credit = IF n < Len(d.pend_list) THEN 0 ELSE left
  /\ u.q.pend_list = SubSeq(d.pend_list, n + 1, Len(d.pend_list))
  /\ u.q.pend_list_empty = IF n > 0 THEN d.avail + Completed(d) = Usable ELSE d.pend_list_empty
  /\ u.q.avail = d.avail + Completed(d) /\ u.q.cidx = hw.status
  /\ u.q.pidx = d.pidx /\ u.q.work_list = d.work_list /\ u.q.q_stop_wait = d.q_stop_wait
  /\ u.c = [r \in Reqs |->
              IF r \in {d.pend_list[k] : k \in 1..n} THEN [c[r] EXCEPT !.done = TRUE]
              ELSE IF r \in (IF n < Len(d.pend_list) THEN {d.pend_list[n + 1]} ELSE {})
                   THEN [c[r] EXCEPT !.desc_nr = @ - left]
              ELSE c[r]]

LEMMA PayIs ==
  ASSUME NEW d, NEW c, IsDescq(d), IsCb(c), NEW n, NEW left
  PROVE  Paid(Pay(d, c, n, left), d, c, n, left)
  <1> DEFINE paid == {d.pend_list[k] : k \in 1..n}
             next == IF n < Len(d.pend_list) THEN {d.pend_list[n + 1]} ELSE {}
             pend == SubSeq(d.pend_list, n + 1, Len(d.pend_list))
             mark == IF n > 0 THEN d.avail + Completed(d) = Usable ELSE d.pend_list_empty
             rest == IF next = {} THEN left ELSE 0
             u    == Pay(d, c, n, left)
             av   == d.avail + Completed(d)
             e    == [d EXCEPT !.cidx = hw.status, !.avail = av,
                               !.credit = rest, !.pend_list = pend, !.pend_list_empty = mark]
             f    == [r \in Reqs |->
                        IF r \in paid THEN [c[r] EXCEPT !.done = TRUE]
                        ELSE IF r \in next THEN [c[r] EXCEPT !.desc_nr = @ - left]
                        ELSE c[r]]
  <1>1. u = [q |-> e, c |-> f]
    BY Zenon DEF Pay
  <1> HIDE DEF u
  <1>2. u.q = e /\ u.c = f
    <2> HIDE DEF e, f
    <2> QED
      BY <1>1
  <1>3. rest = IF n < Len(d.pend_list) THEN 0 ELSE left
    OBVIOUS
  <1> HIDE DEF paid, next, pend, mark, rest, av
  <1>4. /\ e.credit = rest /\ e.pend_list = pend /\ e.pend_list_empty = mark
        /\ e.avail = av /\ e.cidx = hw.status
        /\ e.pidx = d.pidx /\ e.work_list = d.work_list /\ e.q_stop_wait = d.q_stop_wait
    BY DEF IsDescq, DescqFields
  <1> HIDE DEF e
  <1>5. /\ u.q.credit = rest /\ u.q.pend_list = pend /\ u.q.pend_list_empty = mark
        /\ u.q.avail = av /\ u.q.cidx = hw.status
        /\ u.q.pidx = d.pidx /\ u.q.work_list = d.work_list /\ u.q.q_stop_wait = d.q_stop_wait
    BY <1>2, <1>4
  <1> QED
    BY <1>2, <1>3, <1>5, Zenon DEF paid, next, pend, mark, av, u, Paid

LEMMA Join ==
  ASSUME NEW s \in Seq(Reqs), NEW t \in Seq(Reqs)
  PROVE  /\ s \o t \in Seq(Reqs) /\ Len(s) \in Nat /\ Len(t) \in Nat
         /\ Len(s \o t) = Len(s) + Len(t)
         /\ \A k \in 1..Len(s \o t) : (s \o t)[k] = IF k <= Len(s) THEN s[k] ELSE t[k - Len(s)]
  OBVIOUS

LEMMA Dropped ==
  ASSUME NEW s \in Seq(Reqs), NEW n \in 0..Len(s)
  PROVE  /\ SubSeq(s, n + 1, Len(s)) \in Seq(Reqs)
         /\ Len(SubSeq(s, n + 1, Len(s))) = Len(s) - n
         /\ \A k \in 1..(Len(s) - n) : SubSeq(s, n + 1, Len(s))[k] = s[k + n]
  OBVIOUS

LEMMA JoinDropped ==
  ASSUME NEW s \in Seq(Reqs), NEW t \in Seq(Reqs), NEW n \in 0..Len(s)
  PROVE  LET M == SubSeq(s, n + 1, Len(s)) \o t IN
           /\ M \in Seq(Reqs) /\ Len(M) = Len(s \o t) - n
           /\ \A k \in 1..Len(M) : M[k] = (s \o t)[k + n]
  <1> DEFINE w == SubSeq(s, n + 1, Len(s))
             M == w \o t
  <1>1. w \in Seq(Reqs) /\ Len(w) = Len(s) - n /\ \A k \in 1..Len(w) : w[k] = s[k + n]
    <2>1. w \in Seq(Reqs) /\ Len(w) = Len(s) - n /\ \A k \in 1..(Len(s) - n) : w[k] = s[k + n]
      BY Dropped
    <2> HIDE DEF w
    <2> QED
      BY <2>1
  <1> HIDE DEF w
  <1>3. /\ M \in Seq(Reqs) /\ Len(M) = Len(w) + Len(t)
        /\ \A k \in 1..Len(M) : M[k] = IF k <= Len(w) THEN w[k] ELSE t[k - Len(w)]
    BY <1>1, Join
  <1> HIDE DEF M
  <1>4. /\ Len(s) \in Nat /\ Len(t) \in Nat /\ Len(s \o t) = Len(s) + Len(t)
        /\ \A k \in 1..Len(s \o t) : (s \o t)[k] = IF k <= Len(s) THEN s[k] ELSE t[k - Len(s)]
    BY Join
  <1>5. ASSUME NEW k \in 1..Len(M) PROVE M[k] = (s \o t)[k + n]
    <2>1. k + n \in 1..Len(s \o t) /\ (k <= Len(w) <=> k + n <= Len(s)) /\ k \in Nat /\ k >= 1
      BY <1>1, <1>3, <1>4
    <2>2. CASE k <= Len(w)
      <3>1. k \in 1..Len(w)
        BY <2>1, <2>2
      <3> QED
        BY <1>1, <1>3, <1>4, <2>1, <2>2, <3>1
    <2>3. CASE ~(k <= Len(w))
      <3>1. k - Len(w) = (k + n) - Len(s)
        <4> DEFINE a == Len(w)
                   c == Len(s)
        <4>1. a = c - n /\ c \in Int /\ n \in Int /\ k \in Int
          BY <1>1, <1>4, <2>1
        <4> HIDE DEF a, c
        <4>2. k - a = (k + n) - c
          BY <4>1
        <4> QED
          BY <4>2 DEF a, c
      <3> QED
        BY <1>3, <1>4, <2>1, <2>3, <3>1
    <2> QED
      BY <2>2, <2>3
  <1> QED
    <2>1. Len(M) = Len(s \o t) - n
      <3>1. Len(w) = Len(s) - n /\ Len(s) \in Nat /\ Len(t) \in Nat /\ n \in Int
            /\ Len(M) = Len(w) + Len(t) /\ Len(s \o t) = Len(s) + Len(t)
        BY <1>1, <1>3, <1>4
      <3> DEFINE a == Len(w)
                 c == Len(s)
                 o == Len(t)
                 y == Len(s \o t)
                 z == Len(M)
      <3>2. a = c - n /\ c \in Int /\ o \in Int /\ n \in Int /\ z = a + o /\ y = c + o
        BY <3>1
      <3> HIDE DEF a, c, o, y, z
      <3>3. z = y - n
        BY <3>2
      <3> QED
        BY <3>3 DEF y, z
    <2> QED
      BY <1>3, <1>5, <2>1, Zenon DEF M, w

\* The requests in the lists of the queue d.
Line(d) == d.pend_list \o d.work_list

\* The first n requests of the line L leave it for good, with an answer: it is M then,
\* and the requests c are b.
PaidOff(L, M, c, b, n) ==
  /\ L \in Seq(Reqs) /\ M \in Seq(Reqs)
  /\ n \in 0..Len(L) /\ Len(M) = Len(L) - n
  /\ \A k \in 1..Len(M) : M[k] = L[k + n]
  /\ \A k \in 1..n : executed[L[k]] = c[L[k]].pages
  /\ \A r \in Reqs :
       /\ b[r].pages = c[r].pages /\ b[r].status = c[r].status
       /\ IF r \in {L[k] : k \in 1..n} THEN b[r].done /\ c[r].status = FALSE
          ELSE b[r].done = c[r].done

LEMMA PaidNothing ==
  ASSUME NEW L \in Seq(Reqs), NEW c
  PROVE  PaidOff(L, L, c, c, 0)
  <1>1. Len(L) \in Nat /\ 0 \in 0..Len(L) /\ Len(L) = Len(L) - 0
    OBVIOUS
  <1>2. \A k \in 1..Len(L) : L[k] = L[k + 0]
    OBVIOUS
  <1>3. 1..0 = {}
    OBVIOUS
  <1>4. {L[k] : k \in 1..0} = {}
    BY <1>3
  <1> QED
    BY <1>1, <1>2, <1>3, <1>4 DEF PaidOff

\* The index written back pays for what the engine has executed, no more.
LEMMA PollPays ==
  ASSUME NEW d, NEW c, IsDescq(d), IsCb(c), Shape, QBooked(d, hw),
         QLedger(d, c, pc, executed, hw),
         NEW u, u = CmplStatus(d, c)
  PROVE  /\ QLedger(u.q, u.c, pc, executed, hw)
         /\ \E n : PaidOff(Line(d), Line(u.q), c, u.c, n)
  <1> DEFINE np == Len(d.pend_list)
             L  == d.pend_list \o d.work_list
             e  == d.credit + Ahead(d.cidx, hw.cidx)
             K  == Credit(d)
             n  == PaidFor(d, c)
             f  == (e - K) + (IF n < np THEN 0 ELSE K - Owed(d, c)[n])
  <1>1. CASE d.pidx = d.cidx \/ hw.status = d.cidx
    <2>1. u = [q |-> d, c |-> c]
      BY <1>1, Zenon DEF CmplStatus
    <2>2. u.q = d /\ u.c = c
      BY <2>1
    <2>3. Line(d) \in Seq(Reqs)
      <3>1. PICK O : Ledger(O, d.pend_list \o d.work_list, Len(d.pend_list), c, pc, executed,
                            d.credit + Ahead(d.cidx, hw.cidx), hw.cidx, d.pidx, hw.ring)
        BY DEF QLedger
      <3> QED
        BY <3>1 DEF Ledger, Line
    <2>4. PaidOff(Line(d), Line(d), c, c, 0)
      BY <2>3, PaidNothing
    <2> QED
      BY <2>2, <2>4
  <1>2. CASE ~(d.pidx = d.cidx \/ hw.status = d.cidx)
    <2>1. u = Pay(d, c, n, K - Owed(d, c)[n])
      BY <1>2, Zenon DEF CmplStatus, Spend
    <2>2. PICK O : Ledger(O, L, np, c, pc, executed, e, hw.cidx, d.pidx, hw.ring)
      BY DEF QLedger
    <2>3. /\ d.pend_list \in Seq(Reqs) /\ d.work_list \in Seq(Reqs) /\ np \in Nat
          /\ L \in Seq(Reqs) /\ Len(L) = np + Len(d.work_list)
          /\ \A k \in 1..np : L[k] = d.pend_list[k] /\ k \in 1..Len(L)
      <3>1. d.pend_list \in Seq(Reqs) /\ d.work_list \in Seq(Reqs)
        BY DEF QLedger
      <3>2. /\ L \in Seq(Reqs) /\ np \in Nat /\ Len(d.work_list) \in Nat
            /\ Len(L) = np + Len(d.work_list)
            /\ \A k \in 1..Len(L) : L[k] = IF k <= np THEN d.pend_list[k] ELSE d.work_list[k - np]
        BY <3>1, Join
      <3> HIDE DEF L, np
      <3>3. \A k \in 1..np : k \in 1..Len(L) /\ k <= np
        BY <3>2
      <3> QED
        BY <3>1, <3>2, <3>3
    <2>4. /\ Sums(O, Len(L))
          /\ \A k \in 1..Len(L) : Entry(c[L[k]], pc[L[k]], executed[L[k]], k <= np, O[k - 1], O[k], e)
      BY <2>2 DEF Ledger
    <2>5. \A k \in 0..np : Owed(d, c)[k] = O[k] /\ O[k] \in Nat
      <3> DEFINE W == [k \in 0..np |-> O[k]]
      <3> HIDE DEF L, np
      <3>0. \A k \in 0..np : k \in 0..Len(L)
        <4>1. Len(d.work_list) \in Nat
          BY <2>3
        <4> QED
          BY <2>3, <4>1
      <3>1. \A k \in 0..np : O[k] \in Nat /\ W[k] = O[k]
        BY <2>4, <3>0 DEF Sums
      <3>2. W \in [0..np -> Nat] /\ W[0] = 0
        BY <2>3, <2>4, <3>1 DEF Sums
      <3>3. \A k \in 1..np : k \in 0..np /\ k - 1 \in 0..np
        BY <2>3
      <3> HIDE DEF W
      <3>4. \A k \in 1..np : c[d.pend_list[k]].desc_nr = W[k] - W[k - 1]
        BY <2>3, <2>4, <3>1, <3>3 DEF Entry
      <3>5. \A k \in 0..np : Owed(d, c)[k] = W[k]
        <4>1. Misses(W, d, c)
          BY <2>3, <3>2, <3>4 DEF np, Misses
        <4>2. \A k \in 0..Len(d.pend_list) : Owed(d, c)[k] = W[k]
          BY <4>1, OwedIs
        <4> QED
          BY <4>2 DEF np
      <3> QED
        BY <3>1, <3>5
    <2>6. /\ d.credit \in Nat /\ Completed(d) \in Nat /\ K = d.credit + Completed(d) /\ K \in Nat
          /\ Ahead(d.cidx, hw.cidx) = Completed(d) + Ahead(hw.status, hw.cidx)
          /\ Ahead(hw.status, hw.cidx) \in Nat
          /\ K <= e /\ e \in Nat
      <3>1. /\ d.cidx \in Index /\ hw.status \in Index /\ hw.cidx \in Index
            /\ hw.pidx \in Index /\ d.pidx \in Index /\ d.avail \in Nat
            /\ Ahead(d.cidx, hw.status) + Ahead(hw.status, hw.cidx) + Ahead(hw.cidx, hw.pidx)
                  + Ahead(hw.pidx, d.pidx) = Ahead(d.cidx, d.pidx)
        BY DEF QBooked, Booked
      <3>2. /\ Ahead(d.cidx, hw.status) \in Nat /\ Ahead(hw.status, hw.cidx) \in Nat
            /\ Ahead(hw.cidx, hw.pidx) \in Nat /\ Ahead(hw.pidx, d.pidx) \in Nat
            /\ Ahead(d.cidx, d.pidx) \in 0..(RngSz - 1)
        BY <3>1, AheadType
      <3>3. Ahead(d.cidx, hw.status) + Ahead(hw.status, hw.cidx) < RngSz
        BY <3>1, <3>2
      <3>4. Ahead(d.cidx, hw.cidx) = Ahead(d.cidx, hw.status) + Ahead(hw.status, hw.cidx)
        BY <3>1, <3>3, AheadAdd
      <3>5. d.credit \in Nat /\ K = d.credit + Completed(d) /\ Completed(d) = Ahead(d.cidx, hw.status)
        BY DEF QLedger, Credit, Completed
      <3> QED
        BY <3>2, <3>4, <3>5
    <2>7. n \in 0..np /\ O[n] <= K /\ (\A k \in 0..np : O[k] <= K => k <= n)
          /\ Owed(d, c)[n] = O[n]
      <3> DEFINE S == {k \in 0..np : Owed(d, c)[k] <= K}
      <3>1. 0 \in S
        <4>1. 0 \in 0..np /\ O[0] = 0
          BY <2>3, <2>4 DEF Sums
        <4> HIDE DEF np, K
        <4> QED
          BY <2>5, <2>6, <4>1
      <3>2. n = Max(S)
        BY Zenon DEF PaidFor
      <3> HIDE DEF n
      <3>3. n \in S /\ \A y \in S : y <= n
        BY <2>3, <3>1, <3>2, MaxOfNats
      <3> QED
        BY <2>5, <3>3
    <2> DEFINE M == u.q.pend_list \o u.q.work_list
    <2>8. /\ u.q.credit = IF n < np THEN 0 ELSE K - O[n]
          /\ u.q.pend_list = SubSeq(d.pend_list, n + 1, np)
          /\ u.q.cidx = hw.status /\ u.q.pidx = d.pidx /\ u.q.work_list = d.work_list
          /\ u.c = [r \in Reqs |->
                      IF r \in {d.pend_list[k] : k \in 1..n} THEN [c[r] EXCEPT !.done = TRUE]
                      ELSE IF r \in (IF n < np THEN {d.pend_list[n + 1]} ELSE {})
                           THEN [c[r] EXCEPT !.desc_nr = @ - (K - O[n])]
                      ELSE c[r]]
      <3>1. Paid(u, d, c, n, K - O[n])
        BY <2>1, <2>7, PayIs
      <3> QED
        BY <3>1 DEF Paid
    <2> HIDE DEF K, n, e

    <2>9. /\ u.q.pend_list \in Seq(Reqs) /\ u.q.work_list \in Seq(Reqs)
          /\ Len(u.q.pend_list) = np - n
          /\ M \in Seq(Reqs) /\ Len(M) = Len(L) - n
          /\ \A k \in 1..Len(M) : M[k] = L[k + n]
      <3>1. M = SubSeq(d.pend_list, n + 1, Len(d.pend_list)) \o d.work_list
        BY <2>8
      <3>2. d.pend_list \in Seq(Reqs) /\ d.work_list \in Seq(Reqs) /\ n \in 0..Len(d.pend_list)
        BY <2>3, <2>7
      <3> HIDE DEF M
      <3>3. /\ SubSeq(d.pend_list, n + 1, Len(d.pend_list)) \in Seq(Reqs)
            /\ Len(SubSeq(d.pend_list, n + 1, Len(d.pend_list))) = Len(d.pend_list) - n
            /\ M \in Seq(Reqs) /\ Len(M) = Len(d.pend_list \o d.work_list) - n
            /\ \A k \in 1..Len(M) : M[k] = (d.pend_list \o d.work_list)[k + n]
        <4> DEFINE s == d.pend_list
                   t == d.work_list
                   w == SubSeq(s, n + 1, Len(s))
        <4>1. s \in Seq(Reqs) /\ t \in Seq(Reqs) /\ n \in 0..Len(s) /\ M = w \o t
          BY <3>1, <3>2
        <4> HIDE DEF s, t
        <4>2. w \in Seq(Reqs) /\ Len(w) = Len(s) - n
          BY <4>1, Dropped
        <4>3. /\ w \o t \in Seq(Reqs) /\ Len(w \o t) = Len(s \o t) - n
              /\ \A k \in 1..Len(w \o t) : (w \o t)[k] = (s \o t)[k + n]
          BY <4>1, JoinDropped, Zenon
        <4> HIDE DEF w
        <4>4. /\ w \in Seq(Reqs) /\ Len(w) = Len(s) - n
              /\ M \in Seq(Reqs) /\ Len(M) = Len(s \o t) - n
              /\ \A k \in 1..Len(M) : M[k] = (s \o t)[k + n]
          BY <4>1, <4>2, <4>3, Zenon
        <4> QED
          BY <4>4, Zenon DEF s, t, w
      <3> QED
        BY <2>8, <3>2, <3>3, Zenon DEF L, np
    <2>10. u.c = [r \in Reqs |->
                    IF r \in {L[k] : k \in 1..n} THEN [c[r] EXCEPT !.done = TRUE]
                    ELSE IF r \in (IF n < np THEN {L[n + 1]} ELSE {})
                         THEN [c[r] EXCEPT !.desc_nr = @ - (K - O[n])]
                    ELSE c[r]]
      <3> HIDE DEF L, np
      <3>0. n \in Nat /\ n <= np /\ \A k \in 1..n : k \in 1..np
        BY <2>3, <2>7
      <3>1. \A k \in 1..n : L[k] = d.pend_list[k]
        BY <2>3, <3>0
      <3>2. {L[k] : k \in 1..n} = {d.pend_list[k] : k \in 1..n}
        BY <3>1
      <3>3. n < np => L[n + 1] = d.pend_list[n + 1]
        <4>1. n < np => n + 1 \in 1..np
          BY <2>3, <3>0
        <4> QED
          BY <2>3, <4>1
      <3>4. (IF n < np THEN {L[n + 1]} ELSE {}) = (IF n < np THEN {d.pend_list[n + 1]} ELSE {})
        BY <3>3
      <3> QED
        BY <2>8, <3>2, <3>4, Zenon
    <2> HIDE DEF M, L, np
    <2>11. hw.cidx \in Index /\ d.pidx \in Index
      BY DEF QBooked, Booked
    <2>12. f = (e - K) + (IF n < np THEN 0 ELSE K - O[n])
      BY <2>7
    <2> HIDE DEF f
    <2>13. /\ \E U : Ledger(U, M, np - n, u.c, pc, executed, f, hw.cidx, d.pidx, hw.ring)
           /\ \A k \in 1..n : executed[L[k]] = c[L[k]].pages
      <3>1. PaidTo(O, L, np, c, e, K, n, M, u.c, f)
        BY <2>6, <2>7, <2>9, <2>10, <2>12, Zenon DEF PaidTo
      <3> DEFINE i == hw.cidx
                 j == d.pidx
                 ring == hw.ring
                 b == u.c
      <3>2. /\ Ledger(O, L, np, c, pc, executed, e, i, j, ring) /\ i \in Index /\ j \in Index
            /\ IsCb(c) /\ PaidTo(O, L, np, c, e, K, n, M, b, f)
        BY <2>2, <2>11, <3>1
      <3> HIDE DEF i, j, ring, b
      <3>3. /\ \E U : Ledger(U, M, np - n, b, pc, executed, f, i, j, ring)
            /\ \A k \in 1..n : executed[L[k]] = c[L[k]].pages
        BY ONLY <3>2, LedgerPay
      <3> QED
        BY <3>3, Zenon DEF i, j, ring, b
    <2>14. u.q.credit \in Nat /\ f = u.q.credit + Ahead(u.q.cidx, hw.cidx)
      <3>1. O[n] \in Nat /\ e = d.credit + Ahead(d.cidx, hw.cidx)
        BY <2>5, <2>7 DEF e
      <3> QED
        <4> DEFINE on == O[n]
                   co == Completed(d)
                   sc == Ahead(hw.status, hw.cidx)
        <4>1. /\ on \in Nat /\ on <= K /\ K \in Nat /\ co \in Nat /\ sc \in Nat /\ d.credit \in Nat
              /\ e = d.credit + (co + sc) /\ K = d.credit + co
              /\ f = (e - K) + (IF n < np THEN 0 ELSE K - on)
              /\ u.q.credit = (IF n < np THEN 0 ELSE K - on)
              /\ Ahead(u.q.cidx, hw.cidx) = sc
          BY <2>6, <2>7, <2>8, <2>12, <3>1
        <4> HIDE DEF on, co, sc
        <4> QED
          BY <4>1
    <2>15. QLedger(u.q, u.c, pc, executed, hw)
      BY <2>8, <2>9, <2>13, <2>14 DEF QLedger, M
    <2>16. n \in 0..Len(L) /\ n \in Nat /\ Len(L) \in Nat
      <3>1. Len(d.work_list) \in Nat
        BY <2>3
      <3> QED
        BY <2>3, <2>7, <3>1
    <2>17. ASSUME NEW r \in Reqs
           PROVE  /\ u.c[r].pages = c[r].pages /\ u.c[r].status = c[r].status
                  /\ IF r \in {L[k] : k \in 1..n} THEN u.c[r].done /\ c[r].status = FALSE
                     ELSE u.c[r].done = c[r].done
      <3>1. DOMAIN c[r] = CbFields
        BY DEF IsCb
      <3>2. CASE r \in {L[k] : k \in 1..n}
        <4>1. u.c[r].pages = c[r].pages /\ u.c[r].status = c[r].status /\ u.c[r].done
          BY <2>10, <3>1, <3>2 DEF CbFields
        <4>2. \A k \in 1..n : k \in 1..Len(L)
          BY <2>16
        <4>3. c[r].status = FALSE
          BY <2>4, <3>2, <4>2 DEF Entry
        <4> QED
          BY <3>2, <4>1, <4>3
      <3>3. CASE r \notin {L[k] : k \in 1..n}
        <4> DEFINE v == [c[r] EXCEPT !.desc_nr = @ - (K - O[n])]
        <4>1. u.c[r] = v \/ u.c[r] = c[r]
          BY <2>10, <3>3
        <4>2. v.pages = c[r].pages /\ v.done = c[r].done /\ v.status = c[r].status
          BY <3>1 DEF CbFields
        <4> HIDE DEF v
        <4> QED
          BY <3>3, <4>1, <4>2
      <3> QED
        BY <3>2, <3>3
    <2>18. L \in Seq(Reqs)
      BY <2>3, Zenon DEF L
    <2>19. PaidOff(L, M, c, u.c, n)
      BY <2>9, <2>13, <2>16, <2>17, <2>18 DEF PaidOff
    <2>20. PaidOff(Line(d), Line(u.q), c, u.c, n)
      BY <2>19, Zenon DEF L, M, Line
    <2> QED
      BY <2>15, <2>20
  <1> QED
    BY <1>1, <1>2

LEMMA PollLedger ==
  ASSUME NEW d, NEW c, IsDescq(d), IsCb(c), Shape, QBooked(d, hw),
         QLedger(d, c, pc, executed, hw), Told(c, executed),
         NEW u, u = CmplStatus(d, c)
  PROVE  QLedger(u.q, u.c, pc, executed, hw) /\ Told(u.c, executed)
  <1>1. /\ QLedger(u.q, u.c, pc, executed, hw)
        /\ \E n : PaidOff(Line(d), Line(u.q), c, u.c, n)
    BY PollPays
  <1> DEFINE L == Line(d)
             b == u.c
  <1>2. PICK n : PaidOff(L, Line(u.q), c, b, n)
    BY <1>1
  <1> HIDE DEF L, b
  <1>3. Told(b, executed)
    BY <1>2 DEF Told, PaidOff
  <1> QED
    BY <1>1, <1>3 DEF b

(***************************************************************************)
(* What calls are told.                                                    *)
(***************************************************************************)
Out == Ended \cup {"idle"}

\* What a queue leaves to the engine when it is stopped belongs to calls that are
\* not told of success.
Left(c, l, h) ==
  \A t \in 0..(Ahead(h.cidx, h.pidx) - 1) :
    \E r \in Reqs : /\ h.ring[Forward(h.cidx, t)] = r /\ l[r] # "idle"
                    /\ ~(c[r].done /\ ~c[r].status)

Answered ==
  /\ hw.ring \in [Index -> Reqs \cup {Nobody}]
  /\ executed \in [Reqs -> Nat]
  /\ "call" \notin expired =>
       /\ Told(cb, executed)
       /\ \A r \in Reqs : pc[r] = "idle" => executed[r] = 0
       /\ online => QLedger(descq, cb, pc, executed, hw)
       /\ ~online => Left(cb, pc, hw)

\* A queue that is being stopped is not filled; it has told the truth about
\* descriptors on the way; unless the wait for them was cut short, the engine has
\* none left then.
Stopping ==
  /\ descq.q_stop_wait => online /\ holder = Nobody
  /\ ctl \in {"pending", "finish"} => descq.q_stop_wait
  /\ ctl = "finish" /\ "stop" \notin expired => descq.pend_list_empty
  /\ online /\ ~wrote /\ descq.pend_list_empty => descq.avail = Usable
  /\ holder = Nobody => ~wrote
  /\ ~online /\ hw.on /\ "stop" \notin expired => hw.cidx = descq.pidx /\ hw.pidx = descq.pidx

AInv == RInv /\ Stopping /\ Answered

\* The queue q is d as far as the ledger goes, and the engine g is h.
SameBooks(q, d, g, h) ==
  /\ q.pend_list = d.pend_list /\ q.work_list = d.work_list /\ q.credit = d.credit
  /\ q.cidx = d.cidx /\ q.pidx = d.pidx
  /\ g.cidx = h.cidx /\ g.ring = h.ring

\* Requests not answered are the same in b and c; their calls at l go on at m.
SameWaiting(b, m, c, l) ==
  \A r \in Reqs : l[r] \notin Out /\ c[r].done = FALSE => m[r] \notin Out /\ b[r] = c[r]

LEMMA QLedgerKeep ==
  ASSUME NEW d, NEW c, NEW l, NEW x, NEW h, QLedger(d, c, l, x, h),
         NEW b, NEW m, NEW g, NEW q, SameBooks(q, d, g, h), SameWaiting(b, m, c, l)
  PROVE  QLedger(q, b, m, x, g)
  <1> DEFINE L == d.pend_list \o d.work_list
             e == d.credit + Ahead(d.cidx, h.cidx)
  <1>1. PICK O : Ledger(O, L, Len(d.pend_list), c, l, x, e, h.cidx, d.pidx, h.ring)
    BY DEF QLedger
  <1> HIDE DEF L
  <1>2. \A k \in 1..Len(L) : L[k] \in Reqs /\ l[L[k]] \notin Out /\ c[L[k]].done = FALSE
    BY <1>1 DEF Ledger, Entry, Out
  <1>3. \A k \in 1..Len(L) : b[L[k]] = c[L[k]] /\ m[L[k]] \notin Ended \cup {"idle"}
    BY <1>2 DEF Out, SameWaiting
  <1> HIDE DEF e
  <1>4. Ledger(O, L, Len(d.pend_list), b, m, x, e, h.cidx, d.pidx, h.ring)
    BY <1>1, <1>3, LedgerKeep
  <1> QED
    BY <1>4 DEF QLedger, L, e, SameBooks

\* Steps that leave the ledger, the ring and the answers alone.
LEMMA KeepAnswered ==
  ASSUME Answered, UNCHANGED executed,
         hw'.cidx = hw.cidx /\ hw'.pidx = hw.pidx /\ hw'.ring = hw.ring,
         /\ descq'.pend_list = descq.pend_list /\ descq'.work_list = descq.work_list
         /\ descq'.credit = descq.credit /\ descq'.cidx = descq.cidx
         /\ descq'.pidx = descq.pidx /\ descq'.q_state = descq.q_state,
         "call" \in expired => "call" \in expired',
         \A r \in Reqs :
           /\ pc[r] # "idle" => pc'[r] # "idle"
           /\ pc[r] \notin Out /\ cb[r].done = FALSE => pc'[r] \notin Out /\ cb'[r] = cb[r]
           /\ cb'[r] = cb[r] \/ ~cb'[r].done
  PROVE  Answered'
  <1>1. hw'.ring \in [Index -> Reqs \cup {Nobody}] /\ executed' \in [Reqs -> Nat]
    BY DEF Answered
  <1> SUFFICES ASSUME "call" \notin expired'
               PROVE  /\ Told(cb', executed')
                      /\ \A r \in Reqs : pc'[r] = "idle" => executed'[r] = 0
                      /\ online' => QLedger(descq', cb', pc', executed', hw')
                      /\ ~online' => Left(cb', pc', hw')
    BY <1>1 DEF Answered
  <1>2. Told(cb', executed')
    BY DEF Answered, Told
  <1>3. \A r \in Reqs : pc'[r] = "idle" => executed'[r] = 0
    BY DEF Answered
  <1>4. ASSUME online' PROVE QLedger(descq', cb', pc', executed', hw')
    <2>1. QLedger(descq, cb, pc, executed, hw)
      BY <1>4 DEF Answered, online
    <2>2. SameBooks(descq', descq, hw', hw) /\ SameWaiting(cb', pc', cb, pc)
      BY DEF SameBooks, SameWaiting
    <2> QED
      BY <2>1, <2>2, QLedgerKeep
  <1>5. ASSUME ~online' PROVE Left(cb', pc', hw')
    <2>1. Left(cb, pc, hw)
      BY <1>5 DEF Answered, online
    <2> QED
      BY <2>1 DEF Left
  <1> QED
    BY <1>2, <1>3, <1>4, <1>5

\* Whoever goes on to s is neither out nor makes anybody else leave.
LEMMA GoingOn ==
  ASSUME Shape, NEW a \in Actors, NEW s, Goto(a, s), s \notin Out
  PROVE  \A r \in Reqs : /\ pc[r] # "idle" => pc'[r] # "idle"
                         /\ pc[r] \notin Out => pc'[r] \notin Out
  BY DEF Shape, Goto, Actors, Out

\* What polling does to the flags.
LEMMA PollFlags ==
  ASSUME NEW d, NEW c, IsDescq(d), IsCb(c), QBooked(d, hw), NEW u, u = CmplStatus(d, c)
  PROVE  /\ u.q.q_stop_wait = d.q_stop_wait
         /\ (d.pend_list_empty => d.avail = Usable) => (u.q.pend_list_empty => u.q.avail = Usable)
         /\ d.pend_list_empty /\ d.avail = Usable => u.q.pend_list_empty
  <1>1. CASE d.pidx = d.cidx \/ hw.status = d.cidx
    <2>1. u = [q |-> d, c |-> c]
      BY <1>1, Zenon DEF CmplStatus
    <2>2. u.q = d /\ u.c = c
      BY <2>1
    <2> QED
      BY <2>2
  <1>2. CASE ~(d.pidx = d.cidx \/ hw.status = d.cidx)
    <2>1. PICK n, left : u = Pay(d, c, n, left)
      BY <1>2, Zenon DEF CmplStatus
    <2>2. /\ u.q.pend_list_empty = IF n > 0 THEN d.avail + Completed(d) = Usable
                                   ELSE d.pend_list_empty
          /\ u.q.avail = d.avail + Completed(d) /\ u.q.q_stop_wait = d.q_stop_wait
      <3>1. Paid(u, d, c, n, left)
        BY <2>1, PayIs
      <3> QED
        BY <3>1 DEF Paid
    <2>3. d.avail # Usable
      <3>1. d.cidx \in Index /\ d.pidx \in Index /\ d.avail \in Nat
            /\ d.avail + Ahead(d.cidx, d.pidx) = RngSz - 1
        BY DEF QBooked, Booked
      <3>2. Ahead(d.cidx, d.pidx) \in Nat /\ Ahead(d.cidx, d.pidx) > 0
        BY <1>2, <3>1, AheadType
      <3> QED
        BY <3>1, <3>2 DEF Usable
    <2> QED
      BY <2>2, <2>3
  <1> QED
    BY <1>1, <1>2

LEMMA OnlineAnswered ==
  ASSUME hw'.ring \in [Index -> Reqs \cup {Nobody}], executed' \in [Reqs -> Nat], online',
         "call" \notin expired' =>
           /\ Told(cb', executed')
           /\ \A r \in Reqs : pc'[r] = "idle" => executed'[r] = 0
           /\ QLedger(descq', cb', pc', executed', hw')
  PROVE  Answered'
  BY DEF Answered

\* Steps that leave the flags alone.
LEMMA KeepStopping ==
  ASSUME Stopping, UNCHANGED <<holder, wrote, ctl>>,
         /\ descq'.q_stop_wait = descq.q_stop_wait /\ descq'.q_state = descq.q_state
         /\ descq'.pend_list_empty = descq.pend_list_empty /\ descq'.avail = descq.avail
         /\ descq'.pidx = descq.pidx,
         hw'.cidx = hw.cidx /\ hw'.pidx = hw.pidx /\ hw'.on = hw.on,
         "stop" \in expired => "stop" \in expired'
  PROVE  Stopping'
  BY DEF Stopping, online

LEMMA ProcBeginAnswered ==
  ASSUME AInv, NEW a \in Actors, ProcBegin(a)
  PROVE  Answered' /\ Stopping'
  <1> DEFINE u == CmplStatus(descq, cb)
  <1>0. RInv /\ Shape /\ Held /\ Stopping /\ Answered
    BY DEF AInv, RInv
  <1>1. PICK s : Goto(a, s) /\ s \notin Out
    BY DEF ProcBegin, After, Out, Ended
  <1>2. \A r \in Reqs : /\ pc[r] # "idle" => pc'[r] # "idle"
                        /\ pc[r] \notin Out => pc'[r] \notin Out
    BY <1>0, <1>1, GoingOn
  <1>3. UNCHANGED <<ctl, hw, executed, expired>> /\ holder = Nobody
    BY DEF ProcBegin
  <1>4. CASE descq.q_stop_wait \/ online
    <2>1. online
      BY <1>0, <1>4 DEF Stopping
    <2>2. /\ descq' = u.q /\ cb' = u.c
          /\ \/ descq.q_stop_wait /\ UNCHANGED <<holder, wrote>>
             \/ ~descq.q_stop_wait /\ wrote' = FALSE /\ holder' = a
      BY <1>4 DEF ProcBegin, online
    <2>3. QBooked(descq, hw) /\ IsDescq(descq) /\ IsCb(cb)
      BY <1>0, <2>1 DEF RInv, Shape
    <2>4. PolledTo(descq, cb, u)
      BY <2>3, PollTo
    <2> HIDE DEF u
    <2>5. online'
      BY <2>1, <2>2, <2>4 DEF online, PolledTo
    <2>6. ASSUME "call" \notin expired'
          PROVE  /\ Told(cb', executed')
                 /\ \A r \in Reqs : pc'[r] = "idle" => executed'[r] = 0
                 /\ QLedger(descq', cb', pc', executed', hw')
      <3>1. Told(cb, executed) /\ QLedger(descq, cb, pc, executed, hw)
            /\ \A r \in Reqs : pc[r] = "idle" => executed[r] = 0
        BY <1>0, <1>3, <2>1, <2>6 DEF Answered
      <3>2. QLedger(u.q, u.c, pc, executed, hw) /\ Told(u.c, executed)
        BY <1>0, <2>3, <3>1, PollLedger DEF u
      <3>3. SameBooks(descq', u.q, hw', hw) /\ SameWaiting(cb', pc', u.c, pc)
        BY <1>2, <1>3, <2>2 DEF SameBooks, SameWaiting
      <3>4. QLedger(descq', cb', pc', executed, hw')
        BY <3>2, <3>3, QLedgerKeep
      <3> QED
        BY <1>2, <1>3, <2>2, <3>1, <3>2, <3>4
    <2>7. Answered'
      BY <1>0, <1>3, <2>5, <2>6, OnlineAnswered DEF Answered
    <2>8. /\ descq'.q_stop_wait = descq.q_stop_wait
          /\ (descq.pend_list_empty => descq.avail = Usable)
               => (descq'.pend_list_empty => descq'.avail = Usable)
          /\ descq.pend_list_empty /\ descq.avail = Usable => descq'.pend_list_empty
      BY <2>2, <2>3, PollFlags DEF u
    <2>9. descq.pend_list_empty => descq.avail = Usable
      BY <1>0, <1>3, <2>1 DEF Stopping
    <2>10. ~wrote
      BY <1>0, <1>3 DEF Stopping
    <2>11. Stopping'
      BY <1>0, <1>3, <2>1, <2>2, <2>5, <2>8, <2>9, <2>10 DEF Stopping, online, Actors
    <2> QED
      BY <2>7, <2>11
  <1>5. CASE ~(descq.q_stop_wait \/ online)
    <2>1. UNCHANGED <<descq, cb, holder, wrote>>
      BY <1>5 DEF ProcBegin, online
    <2>2. Answered'
      BY <1>0, <1>2, <1>3, <2>1, KeepAnswered
    <2>3. Stopping'
      BY <1>0, <1>3, <2>1, KeepStopping
    <2> QED
      BY <2>2, <2>3
  <1> QED
    BY <1>4, <1>5

\* The poll of a full ring.
LEMMA PolledAnswered ==
  ASSUME AInv, online, "call" \notin expired
  PROVE  QLedger(Polled.q, Polled.c, pc, executed, hw) /\ Told(Polled.c, executed)
  <1>1. /\ Shape /\ QBooked(descq, hw) /\ IsDescq(descq) /\ IsCb(cb)
        /\ QLedger(descq, cb, pc, executed, hw) /\ Told(cb, executed)
    BY DEF AInv, RInv, Shape, Answered
  <1>2. CASE descq.avail = 0
    <2>1. Polled = CmplStatus(descq, cb)
      BY <1>2, Zenon DEF Polled
    <2> QED
      BY <1>1, <2>1, PollLedger
  <1>3. CASE descq.avail # 0
    <2>1. Polled = [q |-> descq, c |-> cb]
      BY <1>3, Zenon DEF Polled
    <2>2. Polled.q = descq /\ Polled.c = cb
      BY <2>1
    <2> QED
      BY <1>1, <2>2
  <1> QED
    BY <1>2, <1>3

LEMMA PolledFlags ==
  ASSUME RInv, online
  PROVE  /\ Polled.q.q_stop_wait = descq.q_stop_wait
         /\ (descq.pend_list_empty => descq.avail = Usable)
              => (Polled.q.pend_list_empty => Polled.q.avail = Usable)
  <1>1. QBooked(descq, hw) /\ IsDescq(descq) /\ IsCb(cb)
    BY DEF RInv, Shape
  <1>2. CASE descq.avail = 0
    <2>1. Polled = CmplStatus(descq, cb)
      BY <1>2, Zenon DEF Polled
    <2> QED
      BY <1>1, <2>1, PollFlags
  <1>3. CASE descq.avail # 0
    <2>1. Polled = [q |-> descq, c |-> cb]
      BY <1>3, Zenon DEF Polled
    <2>2. Polled.q = descq /\ Polled.c = cb
      BY <2>1
    <2> QED
      BY <2>2
  <1> QED
    BY <1>2, <1>3

\* The first request of the second list ends the first list.
LEMMA JoinMove ==
  ASSUME NEW s \in Seq(Reqs), NEW t \in Seq(Reqs), t # <<>>
  PROVE  /\ Append(s, Head(t)) \o Tail(t) = s \o t
         /\ Append(s, Head(t)) \in Seq(Reqs) /\ Len(Append(s, Head(t))) = Len(s) + 1
         /\ Tail(t) \in Seq(Reqs)
         /\ Len(s) \in Nat /\ Len(s) < Len(s \o t) /\ (s \o t)[Len(s) + 1] = Head(t)
  <1> DEFINE v == Append(s, Head(t))
             w == Tail(t)
  <1>1. /\ Len(s) \in Nat /\ Len(t) \in Nat /\ Len(t) >= 1 /\ Head(t) = t[1] /\ t[1] \in Reqs
    OBVIOUS
  <1>2. /\ v \in Seq(Reqs) /\ Len(v) = Len(s) + 1 /\ v[Len(s) + 1] = t[1]
        /\ \A k \in 1..Len(s) : v[k] = s[k]
    BY <1>1
  <1>3. /\ w \in Seq(Reqs) /\ Len(w) = Len(t) - 1
        /\ \A k \in 1..Len(w) : w[k] = t[k + 1]
    BY <1>1
  <1> HIDE DEF v, w
  <1>4. /\ v \o w \in Seq(Reqs) /\ Len(v \o w) = Len(v) + Len(w)
        /\ \A k \in 1..Len(v \o w) : (v \o w)[k] = IF k <= Len(v) THEN v[k] ELSE w[k - Len(v)]
    BY <1>2, <1>3, Join
  <1>5. /\ s \o t \in Seq(Reqs) /\ Len(s \o t) = Len(s) + Len(t)
        /\ \A k \in 1..Len(s \o t) : (s \o t)[k] = IF k <= Len(s) THEN s[k] ELSE t[k - Len(s)]
    BY Join
  <1> DEFINE m == v \o w
             n == s \o t
  <1> HIDE DEF m, n
  <1>6. Len(m) = Len(n) /\ m \in Seq(Reqs) /\ n \in Seq(Reqs) /\ Len(n) \in Nat
    BY <1>1, <1>2, <1>3, <1>4, <1>5 DEF m, n
  <1>7. ASSUME NEW k \in 1..Len(n) PROVE m[k] = n[k]
    <2>0. k \in Int /\ k >= 1 /\ k <= Len(s) + Len(t)
      BY <1>1, <1>5 DEF n
    <2>1. CASE k <= Len(s)
      <3>1. k \in 1..Len(s) /\ k <= Len(v)
        BY <1>1, <1>2, <2>0, <2>1
      <3> QED
        BY <1>2, <1>4, <1>5, <1>6, <2>1, <3>1 DEF m, n
    <2>2. CASE k = Len(s) + 1
      <3>1. ~(k <= Len(s)) /\ k <= Len(v) /\ k - Len(s) = 1
        BY <1>1, <1>2, <2>2
      <3> QED
        BY <1>2, <1>4, <1>5, <1>6, <2>2, <3>1 DEF m, n
    <2>3. CASE k > Len(s) + 1
      <3>1. /\ ~(k <= Len(s)) /\ ~(k <= Len(v)) /\ k - Len(v) \in 1..Len(w)
            /\ (k - Len(v)) + 1 = k - Len(s)
        BY <1>1, <1>2, <1>3, <2>0, <2>3
      <3>2. m[k] = w[k - Len(v)]
        BY <1>4, <1>6, <3>1 DEF m
      <3>3. n[k] = t[k - Len(s)]
        BY <1>5, <3>1 DEF n
      <3> QED
        BY <1>3, <3>1, <3>2, <3>3
    <2> QED
      BY <1>1, <2>0, <2>1, <2>2, <2>3
  <1>8. m = n
    BY <1>6, <1>7
  <1>9. Len(s) + 1 \in 1..Len(n) /\ ~(Len(s) + 1 <= Len(s)) /\ (Len(s) + 1) - Len(s) = 1
    BY <1>1, <1>5 DEF n
  <1>10. n[Len(s) + 1] = Head(t) /\ Len(s) < Len(n)
    BY <1>1, <1>5, <1>9 DEF n
  <1> QED
    BY <1>1, <1>2, <1>3, <1>8, <1>10 DEF m, n, v, w

\* Filling leaves room in the ring.
LEMMA RoomLeft ==
  ASSUME NEW av, NEW c, NEW s, NEW h, NEW b, NEW p, Booked(av, c, s, h, b, p)
  PROVE  Ahead(h, p) \in Nat /\ Ahead(h, p) + av < RngSz
  <1>1. /\ av \in Nat /\ c \in Int /\ s \in Int /\ h \in Int /\ b \in Int /\ p \in Int
        /\ 0 <= c /\ c < RngSz /\ 0 <= s /\ s < RngSz /\ 0 <= h /\ h < RngSz
        /\ 0 <= b /\ b < RngSz /\ 0 <= p /\ p < RngSz
    BY DEF Booked, Index
  <1> QED
    BY <1>1 DEF Booked, Ahead

LEMMA FillLedger ==
  ASSUME Shape, hw.ring \in [Index -> Reqs \cup {Nobody}],
         NEW a, NEW n, NEW d, NEW c, NEW r, Filled(a, n, d, c, r),
         QBooked(d, hw), QLedger(d, c, pc, executed, hw)
  PROVE  QLedger(descq', cb', pc', executed', hw')
  <1> DEFINE L  == d.pend_list \o d.work_list
             np == Len(d.pend_list)
             e  == d.credit + Ahead(d.cidx, hw.cidx)
             p  == d.pidx
             h  == hw.cidx
             last == c[r].offset + n = c[r].pages
             mp == IF last THEN np + 1 ELSE np
             b  == [c EXCEPT ![r].offset = @ + n, ![r].desc_nr = @ + n]
             tags == [i \in Index |-> IF i \in {Forward(p, k) : k \in 0..(n - 1)}
                                      THEN r ELSE hw.ring[i]]
             wl == IF last THEN Tail(d.work_list) ELSE d.work_list
             pl == IF last THEN Append(d.pend_list, r) ELSE d.pend_list
  <1>1. /\ d.work_list # <<>> /\ r = Head(d.work_list) /\ r \in Reqs /\ IsDescq(d) /\ IsCb(c)
        /\ n \in 1..d.avail /\ n \in 1..(c[r].pages - c[r].offset)
        /\ cb' = b /\ UNCHANGED <<pc, executed>>
    BY Zenon DEF Filled
  <1>2. /\ descq'.pidx = Forward(p, n) /\ descq'.work_list = wl /\ descq'.pend_list = pl
        /\ descq'.credit = d.credit /\ descq'.cidx = d.cidx
    <2> HIDE DEF last
    <2>1. descq' = [d EXCEPT !.pidx = Forward(@, n), !.avail = @ - n,
                             !.work_list = IF last THEN Tail(@) ELSE @,
                             !.pend_list = IF last THEN Append(@, r) ELSE @]
      BY Zenon DEF Filled, last
    <2> QED
      BY <1>1, <2>1 DEF IsDescq, DescqFields
  <1>3. hw'.ring = tags /\ hw'.cidx = h
    <2> HIDE DEF tags
    <2>1. hw' = [hw EXCEPT !.ring = tags]
      BY Zenon DEF Filled, tags
    <2> QED
      BY <2>1 DEF Shape
  <1>4. PICK O : Ledger(O, L, np, c, pc, executed, e, h, p, hw.ring)
    BY DEF QLedger
  <1>5. d.pend_list \in Seq(Reqs) /\ d.work_list \in Seq(Reqs) /\ d.credit \in Nat
    BY DEF QLedger
  <1>6. /\ Append(d.pend_list, r) \o Tail(d.work_list) = L
        /\ Append(d.pend_list, r) \in Seq(Reqs) /\ Len(Append(d.pend_list, r)) = np + 1
        /\ Tail(d.work_list) \in Seq(Reqs)
        /\ np < Len(L) /\ L[np + 1] = r
    BY <1>1, <1>5, JoinMove
  <1>7. h \in Index /\ p \in Index /\ Ahead(h, p) + n < RngSz /\ n \in Nat /\ n > 0
        /\ n <= c[r].pages - c[r].offset
    <2>1. h \in Index /\ p \in Index /\ d.avail \in Nat
      BY DEF QBooked, Booked
    <2>2. Ahead(h, p) \in Nat /\ Ahead(h, p) + d.avail < RngSz
      BY RoomLeft DEF QBooked
    <2> HIDE DEF h, p
    <2> QED
      BY <1>1, <2>1, <2>2
  <1> HIDE DEF L, np, e, p, h, last
  <1>8. \E U : Ledger(U, L, mp, b, pc, executed, e, h, Forward(p, n), tags)
    <2>1. mp = IF c[r].offset + n = c[r].pages THEN np + 1 ELSE np
      BY Zenon DEF last
    <2> HIDE DEF mp, b, tags
    <2>2. b = [c EXCEPT ![r].offset = @ + n, ![r].desc_nr = @ + n]
      BY Zenon DEF b
    <2>3. tags = [i \in Index |-> IF i \in {Forward(p, k) : k \in 0..(n - 1)}
                                  THEN r ELSE hw.ring[i]]
      BY Zenon DEF tags
    <2>4. r = L[np + 1] /\ np < Len(L) /\ IsCb(c) /\ n \in Nat /\ n > 0
          /\ n <= c[r].pages - c[r].offset /\ Ahead(h, p) + n < RngSz
          /\ hw.ring \in [Index -> Reqs \cup {Nobody}]
      BY <1>1, <1>6, <1>7
    <2>5. Added(L, np, c, h, p, hw.ring, r, n, b, tags, mp)
      BY <2>1, <2>2, <2>3, <2>4, Zenon DEF Added
    <2> QED
      BY <1>4, <1>7, <2>5, LedgerFill
  <1>9. pl \o wl = L /\ pl \in Seq(Reqs) /\ wl \in Seq(Reqs) /\ Len(pl) = mp
    <2>1. CASE last
      BY <1>6, <2>1
    <2>2. CASE ~last
      <3>1. pl = d.pend_list /\ wl = d.work_list /\ mp = np
        BY <2>2
      <3> QED
        BY <1>5, <3>1 DEF L, np
    <2> QED
      BY <2>1, <2>2
  <1> HIDE DEF mp, b, tags, pl, wl
  <1>10. e = descq'.credit + Ahead(descq'.cidx, hw'.cidx)
    BY <1>2, <1>3 DEF e, h
  <1> QED
    BY <1>1, <1>2, <1>3, <1>5, <1>8, <1>9, <1>10 DEF QLedger

LEMMA FillAnswered ==
  ASSUME AInv, NEW a \in Actors, Fill(a)
  PROVE  Answered' /\ Stopping'
  <1> DEFINE d == Polled.q
             c == Polled.c
             r == Head(d.work_list)
  <1>0. RInv /\ Shape /\ Held /\ Stopping /\ Answered
    BY DEF AInv, RInv
  <1>1. PICK n : Filled(a, n, d, c, r)
    BY <1>0, FillIs
  <1>2. QBooked(d, hw)
    BY <1>0, <1>1, PolledBooks DEF Filled
  <1> HIDE DEF d, c, r
  <1>3. /\ holder = a /\ online /\ d.q_state = descq.q_state /\ wrote' = TRUE
        /\ UNCHANGED <<pc, holder, ctl, executed, expired>> /\ IsDescq(d) /\ IsCb(c) /\ r \in Reqs
    BY <1>1, Zenon DEF Filled
  <1>4. descq'.q_state = d.q_state /\ descq'.q_stop_wait = d.q_stop_wait
        /\ descq'.pend_list_empty = d.pend_list_empty
    <2> DEFINE av == d.avail - n
               pi == Forward(d.pidx, n)
               wl == IF c[r].offset + n = c[r].pages THEN Tail(d.work_list) ELSE d.work_list
               pl == IF c[r].offset + n = c[r].pages THEN Append(d.pend_list, r)
                     ELSE d.pend_list
    <2>1. descq' = [d EXCEPT !.pidx = pi, !.avail = av, !.work_list = wl, !.pend_list = pl]
      <3>1. descq' = [d EXCEPT !.pidx = Forward(@, n), !.avail = @ - n,
                  !.work_list = IF c[r].offset + n = c[r].pages THEN Tail(@) ELSE @,
                  !.pend_list = IF c[r].offset + n = c[r].pages THEN Append(@, r) ELSE @]
        BY <1>1, Zenon DEF Filled
      <3> HIDE DEF Forward
      <3> QED
        BY <1>3, <3>1 DEF IsDescq, DescqFields
    <2> HIDE DEF av, pi, wl, pl
    <2> QED
      BY <1>3, <2>1 DEF IsDescq, DescqFields
  <1>5. \A q \in Reqs : /\ cb'[q].done = c[q].done /\ cb'[q].status = c[q].status
                        /\ cb'[q].pages = c[q].pages
    <2>1. cb' = [c EXCEPT ![r].offset = @ + n, ![r].desc_nr = @ + n]
      BY <1>1, Zenon DEF Filled
    <2> QED
      BY <1>3, <2>1 DEF IsCb, CbFields
  <1>6. online'
    BY <1>3, <1>4 DEF online
  <1>7. ASSUME "call" \notin expired'
        PROVE  /\ Told(cb', executed')
               /\ \A q \in Reqs : pc'[q] = "idle" => executed'[q] = 0
               /\ QLedger(descq', cb', pc', executed', hw')
    <2>1. QLedger(d, c, pc, executed, hw) /\ Told(c, executed)
      BY <1>3, <1>7, PolledAnswered DEF d, c
    <2>2. \A q \in Reqs : pc[q] = "idle" => executed[q] = 0
      BY <1>0, <1>3, <1>7 DEF Answered
    <2>3. hw.ring \in [Index -> Reqs \cup {Nobody}]
      BY <1>0 DEF Answered
    <2>4. QLedger(descq', cb', pc', executed', hw')
      BY <1>0, <1>1, <1>2, <2>1, <2>3, FillLedger
    <2>5. Told(cb', executed')
      BY <1>3, <1>5, <2>1 DEF Told
    <2> QED
      BY <1>3, <2>2, <2>4, <2>5
  <1>8. hw'.ring \in [Index -> Reqs \cup {Nobody}] /\ executed' \in [Reqs -> Nat]
    <2> DEFINE tags == [i \in Index |-> IF i \in {Forward(d.pidx, k) : k \in 0..(n - 1)}
                                        THEN r ELSE hw.ring[i]]
    <2>1. hw' = [hw EXCEPT !.ring = tags]
      BY <1>1, Zenon DEF Filled
    <2>2. tags \in [Index -> Reqs \cup {Nobody}]
      BY <1>0, <1>3 DEF Answered
    <2> HIDE DEF tags
    <2> QED
      BY <1>0, <1>3, <2>1, <2>2 DEF Shape, Answered
  <1>9. Answered'
    BY <1>6, <1>7, <1>8, OnlineAnswered
  <1>10. a # Nobody
    BY DEF Actors
  <1>11. descq'.q_stop_wait = descq.q_stop_wait
    BY <1>0, <1>3, <1>4, PolledFlags DEF d
  <1>12. ~descq.q_stop_wait
    BY <1>0, <1>3, <1>10 DEF Stopping
  <1>13. ctl \notin {"pending", "finish"}
    BY <1>0, <1>12 DEF Stopping
  <1> QED
    BY <1>3, <1>6, <1>9, <1>10, <1>11, <1>12, <1>13 DEF Stopping

LEMMA RingAnswered ==
  ASSUME AInv, NEW a \in Actors, Ring(a)
  PROVE  Answered' /\ Stopping'
  <1> DEFINE u == IF descq.work_list = <<>> THEN [q |-> descq, c |-> cb] ELSE Polled
             b == Busy(u.q)
             v == CmplStatus(b, u.c)
  <1>0. RInv /\ Shape /\ Held /\ Stopping /\ Answered /\ IsDescq(descq) /\ IsCb(cb)
    BY DEF AInv, RInv, Shape
  <1>1. /\ At(a) = "fill"
        /\ \/ /\ wrote /\ descq' = v.q /\ cb' = v.c
              /\ hw' = [hw EXCEPT !.pidx = u.q.pidx]
              /\ Goto(a, "wake")
           \/ /\ ~wrote /\ descq' = u.q /\ cb' = u.c
              /\ UNCHANGED hw
              /\ Goto(a, After(a))
        /\ holder' = Nobody /\ wrote' = FALSE
        /\ UNCHANGED <<ctl, starts, executed, expired>>
    BY Zenon DEF Ring
  <1>2. holder = a /\ online /\ a # Nobody
    BY <1>0, <1>1 DEF Held, Actors
  <1>3. \/ u.q = descq /\ u.c = cb
        \/ u = Polled
    <2>1. CASE descq.work_list = <<>>
      <3>1. u = [q |-> descq, c |-> cb]
        BY <2>1, Zenon
      <3> HIDE DEF u
      <3> QED
        BY <3>1
    <2>2. CASE descq.work_list # <<>>
      BY <2>2, Zenon
    <2> QED
      BY <2>1, <2>2
  <1> HIDE DEF u
  <1>4. /\ IsDescq(u.q) /\ IsCb(u.c) /\ QBooked(u.q, hw) /\ u.q.q_state = descq.q_state
        /\ u.q.pidx \in Index
    <2>1. PolledTo(descq, cb, Polled) /\ QBooked(Polled.q, hw) /\ QBooked(descq, hw)
      BY <1>0, <1>2, PolledBooks DEF RInv
    <2> QED
      BY <1>0, <1>3, <2>1 DEF PolledTo, QBooked, Booked
  <1>5. /\ u.q.q_stop_wait = descq.q_stop_wait
        /\ (descq.pend_list_empty => descq.avail = Usable)
             => (u.q.pend_list_empty => u.q.avail = Usable)
    BY <1>0, <1>2, <1>3, PolledFlags
  <1>6. /\ IsDescq(b) /\ QBooked(b, hw) /\ b.q_stop_wait = u.q.q_stop_wait
        /\ ~b.pend_list_empty /\ b.q_state = u.q.q_state
        /\ SameBooks(b, u.q, hw, hw)
    BY <1>4 DEF Busy, IsDescq, DescqFields, QBooked, SameBooks
  <1> HIDE DEF b
  <1>7. /\ v.q.q_stop_wait = descq.q_stop_wait /\ v.q.q_state = descq.q_state
        /\ v.q.pend_list_empty => v.q.avail = Usable
    <2>1. PolledTo(b, u.c, v)
      BY <1>4, <1>6, PollTo
    <2>2. v.q.q_stop_wait = b.q_stop_wait /\ (v.q.pend_list_empty => v.q.avail = Usable)
      BY <1>4, <1>6, PollFlags
    <2> HIDE DEF v
    <2> QED
      BY <1>4, <1>5, <1>6, <2>1, <2>2 DEF PolledTo
  <1>8. PICK s : Goto(a, s) /\ s \notin Out
    BY <1>1 DEF After, Out, Ended
  <1>9. \A r \in Reqs : /\ pc[r] # "idle" => pc'[r] # "idle"
                        /\ pc[r] \notin Out => pc'[r] \notin Out
    BY <1>0, <1>8, GoingOn
  <1>10. ASSUME "call" \notin expired
         PROVE  QLedger(u.q, u.c, pc, executed, hw) /\ Told(u.c, executed)
    <2>1. QLedger(Polled.q, Polled.c, pc, executed, hw) /\ Told(Polled.c, executed)
      BY <1>2, <1>10, PolledAnswered
    <2>2. QLedger(descq, cb, pc, executed, hw) /\ Told(cb, executed)
      BY <1>0, <1>2, <1>10 DEF Answered
    <2> QED
      BY <1>3, <2>1, <2>2
  <1>11. ASSUME "call" \notin expired
         PROVE  QLedger(v.q, v.c, pc, executed, hw) /\ Told(v.c, executed)
    <2>1. QLedger(b, u.c, pc, executed, hw)
      <3>1. SameWaiting(u.c, pc, u.c, pc)
        BY DEF SameWaiting
      <3> QED
        BY <1>6, <1>10, <1>11, <3>1, QLedgerKeep
    <2> QED
      BY <1>0, <1>4, <1>6, <1>10, <1>11, <2>1, PollLedger
  <1> HIDE DEF v
  <1>12. hw'.ring = hw.ring /\ hw'.cidx = hw.cidx
    <2>1. hw' = hw \/ \E i : hw' = [hw EXCEPT !.pidx = i]
      BY <1>1, Zenon
    <2> QED
      BY <1>0, <2>1 DEF Shape
  <1>13. online'
    BY <1>1, <1>2, <1>4, <1>7 DEF online
  <1>14. ASSUME "call" \notin expired'
         PROVE  /\ Told(cb', executed')
                /\ \A r \in Reqs : pc'[r] = "idle" => executed'[r] = 0
                /\ QLedger(descq', cb', pc', executed', hw')
    <2>1. \A r \in Reqs : pc[r] = "idle" => executed[r] = 0
      BY <1>0, <1>1, <1>14 DEF Answered
    <2>2. PICK w \in {u, v} : descq' = w.q /\ cb' = w.c
      BY <1>1
    <2>3. QLedger(w.q, w.c, pc, executed, hw) /\ Told(w.c, executed)
      BY <1>1, <1>10, <1>11, <1>14, <2>2
    <2>4. SameBooks(descq', w.q, hw', hw) /\ SameWaiting(cb', pc', w.c, pc)
      BY <1>9, <1>12, <2>2 DEF SameBooks, SameWaiting
    <2>5. QLedger(descq', cb', pc', executed, hw')
      BY <2>3, <2>4, QLedgerKeep
    <2> QED
      BY <1>1, <1>9, <2>1, <2>2, <2>3, <2>5
  <1>15. Answered'
    BY <1>0, <1>1, <1>12, <1>13, <1>14, OnlineAnswered DEF Answered
  <1>16. ~descq'.q_stop_wait /\ ctl' \notin {"pending", "finish"}
    BY <1>0, <1>1, <1>2, <1>5, <1>7 DEF Stopping
  <1>17. descq'.pend_list_empty => descq'.avail = Usable
    <2>1. ~wrote => (descq.pend_list_empty => descq.avail = Usable)
      BY <1>0, <1>2 DEF Stopping
    <2> QED
      BY <1>1, <1>5, <1>7, <2>1
  <1> QED
    BY <1>1, <1>13, <1>15, <1>16, <1>17 DEF Stopping

\* Steps of the calls and of the thread that change no request.
LEMMA QuietAnswered ==
  ASSUME AInv, UNCHANGED <<cb, descq, holder, wrote, ctl, hw, executed, expired>>,
         \A r \in Reqs : /\ pc[r] # "idle" => pc'[r] # "idle"
                         /\ pc[r] \notin Out => pc'[r] \notin Out
  PROVE  Answered' /\ Stopping'
  <1>1. Answered'
    BY KeepAnswered DEF AInv
  <1>2. Stopping'
    BY KeepStopping DEF AInv
  <1> QED
    BY <1>1, <1>2

LEMMA WakeAnswered ==
  ASSUME AInv, NEW a \in Actors, Wake(a)
  PROVE  Answered' /\ Stopping'
  <1>1. UNCHANGED <<cb, descq, holder, wrote, ctl, hw, executed, expired>>
    BY DEF Wake
  <1>2. \A r \in Reqs : /\ pc[r] # "idle" => pc'[r] # "idle"
                        /\ pc[r] \notin Out => pc'[r] \notin Out
    BY DEF Wake, AInv, RInv, Shape, Out, Ended, Actors, At
  <1> QED
    BY <1>1, <1>2, QuietAnswered

LEMMA ThreadAnswered ==
  ASSUME AInv, Look \/ Woken \/ Idle
  PROVE  Answered' /\ Stopping'
  <1>1. UNCHANGED <<pc, cb, descq, holder, wrote, ctl, hw, executed, expired>>
    BY DEF Look, Woken, Idle
  <1> QED
    BY <1>1, QuietAnswered

LEMMA StopQuietAnswered ==
  ASSUME AInv, Stop \/ StopWaited \/ StopDetach \/ StopUnlist
  PROVE  Answered' /\ Stopping'
  <1>0. RInv /\ Shape /\ Held /\ Stopping /\ Answered /\ IsDescq(descq)
    BY DEF AInv, RInv, Shape
  <1>1. /\ UNCHANGED <<pc, cb, holder, wrote, hw, executed>>
        /\ expired \subseteq expired' /\ ("call" \in expired' => "call" \in expired)
        /\ \/ UNCHANGED descq
           \/ descq' = [descq EXCEPT !.q_stop_wait = TRUE]
           \/ descq' = [descq EXCEPT !.cmplthp = FALSE]
    BY DEF Stop, StopWaited, StopDetach, StopUnlist
  <1>2. /\ descq'.pend_list = descq.pend_list /\ descq'.work_list = descq.work_list
        /\ descq'.credit = descq.credit /\ descq'.cidx = descq.cidx
        /\ descq'.pidx = descq.pidx /\ descq'.q_state = descq.q_state
        /\ descq'.pend_list_empty = descq.pend_list_empty /\ descq'.avail = descq.avail
    BY <1>0, <1>1 DEF IsDescq, DescqFields
  <1>3. Answered'
    BY <1>0, <1>1, <1>2, KeepAnswered
  <1>4. CASE Stop
    <2>1. /\ online /\ holder = Nobody /\ descq'.q_stop_wait
          /\ ctl' = IF descq.pend_list_empty THEN "finish" ELSE "pending"
      BY <1>0, <1>4 DEF Stop, online, IsDescq, DescqFields
    <2> QED
      BY <1>0, <1>1, <1>2, <1>3, <2>1 DEF Stopping, online
  <1>5. CASE StopWaited
    <2>1. /\ ctl = "pending" /\ ctl' = "finish" /\ UNCHANGED descq
          /\ "stop" \notin expired' => descq.pend_list_empty
      BY <1>5 DEF StopWaited
    <2> QED
      BY <1>0, <1>1, <1>2, <1>3, <2>1 DEF Stopping, online
  <1>6. CASE StopDetach \/ StopUnlist
    <2>1. /\ ctl' \in {"unlist", "clear"} /\ ~online /\ descq'.q_stop_wait = descq.q_stop_wait
      BY <1>0, <1>6 DEF StopDetach, StopUnlist, Held, online, IsDescq, DescqFields
    <2> QED
      BY <1>0, <1>1, <1>2, <1>3, <2>1 DEF Stopping, online
  <1> QED
    BY <1>4, <1>5, <1>6

LEMMA WaitDoneAnswered ==
  ASSUME AInv, NEW r \in Reqs, WaitDone(r)
  PROVE  Answered' /\ Stopping'
  <1>0. Shape /\ Stopping /\ Answered /\ IsCb(cb)
    BY DEF AInv, RInv, Shape
  <1>1. /\ pc[r] = "wait" /\ cb[r].done
        /\ pc' = [pc EXCEPT ![r] = IF cb[r].status THEN "failed" ELSE "returned"]
        /\ cb' = IF cb[r].status THEN [cb EXCEPT ![r] = NewCb] ELSE cb
        /\ UNCHANGED <<descq, holder, wrote, ctl, hw, executed, expired>>
    BY DEF WaitDone
  <1>2. \A q \in Reqs : pc[q] # "idle" => pc'[q] # "idle"
    BY <1>0, <1>1 DEF Shape
  <1>3. \A q \in Reqs : q # r => pc'[q] = pc[q] /\ cb'[q] = cb[q]
    BY <1>0, <1>1 DEF Shape, IsCb
  <1>4. cb'[r] = cb[r] \/ ~cb'[r].done
    BY <1>0, <1>1 DEF NewCb, IsCb
  <1>5. \A q \in Reqs : /\ pc[q] \notin Out /\ cb[q].done = FALSE
                             => pc'[q] \notin Out /\ cb'[q] = cb[q]
                        /\ cb'[q] = cb[q] \/ ~cb'[q].done
    BY <1>1, <1>3, <1>4
  <1>6. Answered'
    BY <1>0, <1>1, <1>2, <1>5, KeepAnswered
  <1>7. Stopping'
    BY <1>0, <1>1, KeepStopping
  <1> QED
    BY <1>6, <1>7

\* After a time-out nothing is promised any more.
LEMMA WaitExpiredAnswered ==
  ASSUME AInv, NEW r \in Reqs, WaitExpired(r)
  PROVE  Answered' /\ Stopping'
  <1>0. Shape /\ Stopping /\ Answered /\ IsDescq(descq)
    BY DEF AInv, RInv, Shape
  <1>1. /\ descq' = [descq EXCEPT !.work_list = Without(@, r), !.pend_list = Without(@, r)]
        /\ expired' = expired \cup {"call"}
        /\ UNCHANGED <<holder, wrote, ctl, hw, executed>>
    BY DEF WaitExpired
  <1>2. /\ descq'.q_stop_wait = descq.q_stop_wait /\ descq'.q_state = descq.q_state
        /\ descq'.pend_list_empty = descq.pend_list_empty /\ descq'.avail = descq.avail
        /\ descq'.pidx = descq.pidx
    BY <1>0, <1>1 DEF IsDescq, DescqFields
  <1>3. Answered'
    BY <1>0, <1>1 DEF Answered
  <1>4. Stopping'
    BY <1>0, <1>1, <1>2, KeepStopping
  <1> QED
    BY <1>3, <1>4

LEMMA WriteBackAnswered ==
  ASSUME AInv, WriteBack
  PROVE  Answered' /\ Stopping'
  <1>0. Shape /\ Stopping /\ Answered
    BY DEF AInv, RInv
  <1>1. /\ hw'.cidx = hw.cidx /\ hw'.pidx = hw.pidx /\ hw'.ring = hw.ring /\ hw'.on = hw.on
        /\ UNCHANGED <<pc, cb, descq, holder, wrote, ctl, executed, expired>>
    BY <1>0 DEF WriteBack, Shape
  <1>2. Answered'
    BY <1>0, <1>1, KeepAnswered
  <1>3. Stopping'
    BY <1>0, <1>1, KeepStopping
  <1> QED
    BY <1>2, <1>3

LEMMA JoinAppend ==
  ASSUME NEW s \in Seq(Reqs), NEW t \in Seq(Reqs), NEW r \in Reqs
  PROVE  s \o Append(t, r) = Append(s \o t, r) /\ Append(t, r) \in Seq(Reqs)
  OBVIOUS

\* r is added to the queue d with the requests c.
Submitted(d, c, l, x, r, n, q, b, m) ==
  /\ r \in Reqs /\ n \in Nat /\ n > 0 /\ l[r] = "idle" /\ x[r] = 0
  /\ \A y \in Reqs : y # r => b[y] = c[y] /\ m[y] = l[y]
  /\ b[r] = [NewCb EXCEPT !.pages = n] /\ m[r] = "proc"
  /\ q.pend_list = d.pend_list /\ q.work_list = Append(d.work_list, r)
  /\ q.credit = d.credit /\ q.cidx = d.cidx /\ q.pidx = d.pidx

\* A request joins the ledger.
LEMMA SubmitLedger ==
  ASSUME NEW d, NEW c, NEW l, NEW x, NEW h, QLedger(d, c, l, x, h), h.cidx \in Index,
         d.pidx \in Index, NEW r, NEW n, NEW b, NEW m, NEW q,
         Submitted(d, c, l, x, r, n, q, b, m)
  PROVE  QLedger(q, b, m, x, h)
  <1> USE DEF Submitted
  <1> DEFINE L == d.pend_list \o d.work_list
             np == Len(d.pend_list)
             e == d.credit + Ahead(d.cidx, h.cidx)
  <1>1. PICK O : Ledger(O, L, np, c, l, x, e, h.cidx, d.pidx, h.ring)
    BY DEF QLedger
  <1>2. d.pend_list \in Seq(Reqs) /\ d.work_list \in Seq(Reqs) /\ d.credit \in Nat
    BY DEF QLedger
  <1>3. q.pend_list \o q.work_list = Append(L, r) /\ q.work_list \in Seq(Reqs)
    <2> DEFINE w == d.work_list
               p == d.pend_list
    <2>1. w \in Seq(Reqs) /\ p \in Seq(Reqs) /\ r \in Reqs
      BY <1>2
    <2> HIDE DEF w, p
    <2>2. p \o Append(w, r) = Append(p \o w, r) /\ Append(w, r) \in Seq(Reqs)
      BY <2>1, JoinAppend
    <2> QED
      BY <2>2, Zenon DEF w, p, L
  <1>4. e = q.credit + Ahead(q.cidx, h.cidx)
    OBVIOUS
  <1> HIDE DEF L, np, e
  <1>5. \A k \in 1..Len(L) : L[k] \in Reqs /\ L[k] # r
    BY <1>1 DEF Ledger, Entry
  <1>6. \A k \in 1..Len(L) : L[k] # r /\ b[L[k]] = c[L[k]] /\ m[L[k]] = l[L[k]]
    BY <1>5
  <1>7. \E U : Ledger(U, Append(L, r), np, b, m, x, e, h.cidx, d.pidx, h.ring)
    <2>1. Fresh(L, c, l, x, r, n, b, m)
      BY <1>6 DEF Fresh
    <2> QED
      BY <1>1, <2>1, LedgerSubmit
  <1> QED
    BY <1>2, <1>3, <1>4, <1>7 DEF QLedger, np

LEMMA SubmitAnswered ==
  ASSUME AInv, NEW r \in Reqs, Submit(r)
  PROVE  Answered' /\ Stopping'
  <1>0. RInv /\ Shape /\ Stopping /\ Answered /\ IsDescq(descq) /\ IsCb(cb)
    BY DEF AInv, RInv, Shape
  <1>1. pc[r] = "idle" /\ UNCHANGED <<holder, wrote, ctl, hw, executed, expired>>
    BY DEF Submit
  <1>2. CASE ~online
    <2>1. UNCHANGED <<descq, cb>> /\ pc' = [pc EXCEPT ![r] = "failed"]
      BY <1>2 DEF Submit, online
    <2>2. \A q \in Reqs : /\ pc[q] # "idle" => pc'[q] # "idle"
                          /\ pc[q] \notin Out => pc'[q] \notin Out
      BY <1>0, <1>1, <2>1 DEF Shape, Out
    <2> QED
      BY <1>1, <2>1, <2>2, QuietAnswered
  <1>3. CASE online
    <2>1. PICK n \in PageCounts : cb' = [cb EXCEPT ![r] = [NewCb EXCEPT !.pages = n]]
      BY <1>3 DEF Submit, online
    <2>2. /\ descq' = [descq EXCEPT !.work_list = Append(@, r)]
          /\ pc' = [pc EXCEPT ![r] = "proc"]
      BY <1>3 DEF Submit, online
    <2>3. /\ descq'.pend_list = descq.pend_list /\ descq'.work_list = Append(descq.work_list, r)
          /\ descq'.credit = descq.credit /\ descq'.cidx = descq.cidx
          /\ descq'.pidx = descq.pidx /\ descq'.q_state = descq.q_state
          /\ descq'.q_stop_wait = descq.q_stop_wait /\ descq'.avail = descq.avail
          /\ descq'.pend_list_empty = descq.pend_list_empty
      BY <1>0, <2>2 DEF IsDescq, DescqFields
    <2>4. /\ \A y \in Reqs : y # r => cb'[y] = cb[y] /\ pc'[y] = pc[y]
          /\ cb'[r] = [NewCb EXCEPT !.pages = n] /\ pc'[r] = "proc" /\ ~cb'[r].done
          /\ n \in Nat /\ n > 0
      BY <1>0, <2>1, <2>2 DEF Shape, IsCb, NewCb
    <2>5. hw.cidx \in Index /\ descq.pidx \in Index
      BY <1>0, <1>3 DEF RInv, QBooked, Booked
    <2>6. ASSUME "call" \notin expired'
          PROVE  /\ Told(cb', executed')
                 /\ \A q \in Reqs : pc'[q] = "idle" => executed'[q] = 0
                 /\ QLedger(descq', cb', pc', executed', hw')
      <3>1. /\ QLedger(descq, cb, pc, executed, hw) /\ Told(cb, executed)
            /\ \A q \in Reqs : pc[q] = "idle" => executed[q] = 0
        BY <1>0, <1>1, <1>3, <2>6 DEF Answered
      <3>2. executed[r] = 0
        BY <1>1, <3>1
      <3>3. QLedger(descq', cb', pc', executed, hw)
        <4>1. Submitted(descq, cb, pc, executed, r, n, descq', cb', pc')
          BY <1>1, <2>3, <2>4, <3>2 DEF Submitted
        <4> QED
          BY <2>5, <3>1, <4>1, SubmitLedger
      <3>4. Told(cb', executed)
        BY <2>4, <3>1 DEF Told
      <3>5. \A q \in Reqs : pc'[q] = "idle" => executed[q] = 0
        BY <2>4, <3>1
      <3> QED
        BY <1>1, <3>3, <3>4, <3>5
    <2>7. Answered'
      BY <1>0, <1>1, <1>3, <2>3, <2>6, OnlineAnswered DEF Answered, online
    <2>8. Stopping'
      BY <1>0, <1>1, <2>3, KeepStopping
    <2> QED
      BY <2>7, <2>8
  <1> QED
    BY <1>2, <1>3

LEMMA StartAnswered ==
  ASSUME AInv, Start
  PROVE  Answered' /\ Stopping'
  <1>0. RInv /\ Shape /\ Stopping /\ Answered /\ IsDescq(descq)
    BY DEF AInv, RInv, Shape
  <1>1. /\ ctl = "idle" /\ ~online /\ holder = Nobody
        /\ descq.work_list = <<>> /\ descq.pend_list = <<>>
        /\ descq' = [Configured(descq) EXCEPT !.q_state = "online", !.cmplthp = TRUE]
        /\ hw' = FreshEngine
        /\ UNCHANGED <<pc, cb, holder, wrote, ctl, executed, expired>>
    BY DEF Start, online
  <1>2. /\ descq'.work_list = <<>> /\ descq'.pend_list = <<>> /\ descq'.credit = 0
        /\ descq'.avail = Usable /\ descq'.pidx = 0 /\ descq'.cidx = 0
        /\ descq'.q_state = "online" /\ descq'.q_stop_wait = descq.q_stop_wait
    BY <1>0, <1>1 DEF IsDescq, DescqFields, Configured
  <1>3. /\ hw'.ring \in [Index -> Reqs \cup {Nobody}] /\ hw'.cidx = 0
    BY <1>1 DEF FreshEngine
  <1>4. QLedger(descq', cb', pc', executed', hw')
    <2>1. <<>> \in Seq(Reqs) /\ <<>> \o <<>> = <<>> /\ Len(<<>>) = 0 /\ 0 + Ahead(0, 0) = 0
      BY DEF Ahead
    <2>2. \E O : Ledger(O, <<>>, 0, cb', pc', executed', 0, 0, 0, hw'.ring)
      BY LedgerFresh, Zenon
    <2> QED
      BY <1>2, <1>3, <2>1, <2>2 DEF QLedger
  <1>5. Answered'
    BY <1>0, <1>1, <1>2, <1>3, <1>4, OnlineAnswered DEF Answered, online
  <1>6. Stopping'
    BY <1>0, <1>1, <1>2 DEF Stopping, online
  <1> QED
    BY <1>5, <1>6

\* The books of a queue with nothing in use, and what the engine has before it.
LEMMA BookedAhead ==
  ASSUME NEW av, NEW c, NEW s, NEW h, NEW b, NEW p, Booked(av, c, s, h, b, p)
  PROVE  /\ Ahead(h, b) \in Nat /\ Ahead(h, p) \in Nat /\ Ahead(h, b) <= Ahead(h, p)
         /\ av = Usable => h = p /\ b = p
         /\ h # b => h # p /\ Ahead(c, Forward(h, 1)) = Ahead(c, h) + 1
         /\ Ahead(c, h) \in Nat
  <1>1. /\ av \in Nat /\ c \in Int /\ s \in Int /\ h \in Int /\ b \in Int /\ p \in Int
        /\ 0 <= c /\ c < RngSz /\ 0 <= s /\ s < RngSz /\ 0 <= h /\ h < RngSz
        /\ 0 <= b /\ b < RngSz /\ 0 <= p /\ p < RngSz
    BY DEF Booked, Index
  <1>2. /\ Ahead(h, b) \in Nat /\ Ahead(h, p) \in Nat /\ Ahead(h, b) <= Ahead(h, p)
        /\ Ahead(c, h) \in Nat
    BY <1>1 DEF Booked, Ahead
  <1>3. av = Usable => h = p /\ b = p
    BY <1>1 DEF Booked, Ahead, Usable
  <1>4. h # b => h # p /\ Ahead(c, Forward(h, 1)) = Ahead(c, h) + 1
    BY <1>1 DEF Booked, Ahead, Forward
  <1> QED
    BY <1>2, <1>3, <1>4

\* What is left to the engine when a queue is stopped.
LEMMA LedgerLeft ==
  ASSUME NEW d, NEW c, NEW l, NEW x, NEW h, QLedger(d, c, l, x, h),
         Ahead(h.cidx, h.pidx) \in Nat, Ahead(h.cidx, d.pidx) \in Nat,
         Ahead(h.cidx, h.pidx) <= Ahead(h.cidx, d.pidx), NEW b,
         \A k \in 1..Len(d.pend_list) : b[d.pend_list[k]].status,
         \A k \in 1..Len(d.work_list) : b[d.work_list[k]].status
  PROVE  Left(b, l, h)
  <1> DEFINE L == d.pend_list \o d.work_list
             np == Len(d.pend_list)
             e == d.credit + Ahead(d.cidx, h.cidx)
  <1>1. PICK O : Ledger(O, L, np, c, l, x, e, h.cidx, d.pidx, h.ring)
    BY DEF QLedger
  <1>2. d.pend_list \in Seq(Reqs) /\ d.work_list \in Seq(Reqs)
    BY DEF QLedger
  <1>3. \A k \in 1..Len(L) : b[L[k]].status
    <2>1. /\ np \in Nat /\ Len(L) = np + Len(d.work_list) /\ Len(d.work_list) \in Nat
          /\ \A k \in 1..Len(L) : L[k] = IF k <= np THEN d.pend_list[k] ELSE d.work_list[k - np]
      BY <1>2, Join
    <2> HIDE DEF L, np
    <2>2. ASSUME NEW k \in 1..Len(L) PROVE b[L[k]].status
      <3>1. k <= np => k \in 1..np
        BY <2>1
      <3>2. ~(k <= np) => k - np \in 1..Len(d.work_list)
        BY <2>1
      <3> QED
        BY <2>1, <3>1, <3>2 DEF np
    <2> QED
      BY <2>2
  <1> HIDE DEF L, np, e
  <1>4. \A k \in 1..Len(L) : L[k] \in Reqs /\ l[L[k]] # "idle"
    BY <1>1 DEF Ledger, Entry
  <1>5. ASSUME NEW t \in 0..(Ahead(h.cidx, h.pidx) - 1)
        PROVE  \E r \in Reqs : /\ h.ring[Forward(h.cidx, t)] = r /\ l[r] # "idle"
                               /\ ~(b[r].done /\ ~b[r].status)
    <2>1. t \in 0..(Ahead(h.cidx, d.pidx) - 1)
      OBVIOUS
    <2>2. PICK k \in 1..Len(L) : h.ring[Forward(h.cidx, t)] = L[k]
      BY <1>1, <2>1 DEF Ledger
    <2> QED
      BY <1>3, <1>4, <2>2
  <1> QED
    BY <1>5 DEF Left

LEMMA StopFinishAnswered ==
  ASSUME AInv, StopFinish
  PROVE  Answered' /\ Stopping'
  <1> DEFINE left == {descq.pend_list[k] : k \in 1..Len(descq.pend_list)} \cup
                     {descq.work_list[k] : k \in 1..Len(descq.work_list)}
  <1>0. RInv /\ Shape /\ Stopping /\ Answered /\ IsDescq(descq) /\ IsCb(cb)
    BY DEF AInv, RInv, Shape
  <1>1. /\ ctl = "finish" /\ holder = Nobody
        /\ cb' = [r \in Reqs |-> IF r \in left
                                 THEN [cb[r] EXCEPT !.done = TRUE, !.status = TRUE]
                                 ELSE cb[r]]
        /\ descq' = [descq EXCEPT !.q_state = "enabled", !.q_stop_wait = FALSE]
        /\ ctl' = "detach"
        /\ UNCHANGED <<pc, holder, wrote, thp, starts, hw, executed, expired>>
    BY Zenon DEF StopFinish
  <1> HIDE DEF left
  <1>2. online /\ ~wrote
    BY <1>0, <1>1 DEF Stopping
  <1>3. /\ descq'.q_state = "enabled" /\ ~descq'.q_stop_wait /\ descq'.pidx = descq.pidx
    BY <1>0, <1>1 DEF IsDescq, DescqFields
  <1>4. \A r \in Reqs : IF r \in left THEN cb'[r].done /\ cb'[r].status ELSE cb'[r] = cb[r]
    BY <1>0, <1>1 DEF IsCb, CbFields
  <1>5. QBooked(descq, hw)
    BY <1>0, <1>2 DEF RInv
  <1>6. /\ Ahead(hw.cidx, hw.pidx) \in Nat /\ Ahead(hw.cidx, descq.pidx) \in Nat
        /\ Ahead(hw.cidx, hw.pidx) <= Ahead(hw.cidx, descq.pidx)
        /\ descq.avail = Usable => hw.cidx = descq.pidx /\ hw.pidx = descq.pidx
    BY <1>5, BookedAhead DEF QBooked
  <1>7. ASSUME "call" \notin expired'
        PROVE  /\ Told(cb', executed') /\ Left(cb', pc', hw')
               /\ \A r \in Reqs : pc'[r] = "idle" => executed'[r] = 0
    <2>1. /\ QLedger(descq, cb, pc, executed, hw) /\ Told(cb, executed)
          /\ \A r \in Reqs : pc[r] = "idle" => executed[r] = 0
      BY <1>0, <1>1, <1>2, <1>7 DEF Answered
    <2>2. descq.pend_list \in Seq(Reqs) /\ descq.work_list \in Seq(Reqs)
      BY <2>1 DEF QLedger
    <2>3. /\ \A k \in 1..Len(descq.pend_list) : descq.pend_list[k] \in Reqs
                                                /\ descq.pend_list[k] \in left
          /\ \A k \in 1..Len(descq.work_list) : descq.work_list[k] \in Reqs
                                                /\ descq.work_list[k] \in left
      BY <2>2 DEF left
    <2>4. Left(cb', pc, hw)
      BY <1>4, <1>6, <2>1, <2>3, LedgerLeft
    <2>5. Told(cb', executed)
      BY <1>4, <2>1 DEF Told
    <2> QED
      BY <1>1, <2>1, <2>4, <2>5
  <1>8. ~online'
    BY <1>3 DEF online
  <1>9. Answered'
    BY <1>0, <1>1, <1>7, <1>8 DEF Answered
  <1>10. "stop" \notin expired => hw.cidx = descq.pidx /\ hw.pidx = descq.pidx
    BY <1>0, <1>1, <1>2, <1>6 DEF Stopping
  <1>11. Stopping'
    BY <1>0, <1>1, <1>2, <1>3, <1>8, <1>10 DEF Stopping
  <1> QED
    BY <1>9, <1>11

LEMMA StopClearAnswered ==
  ASSUME AInv, StopClear
  PROVE  Answered' /\ Stopping'
  <1>0. RInv /\ Shape /\ Held /\ Stopping /\ Answered
    BY DEF AInv, RInv
  <1>1. /\ ctl = "clear" /\ ctl' = "idle" /\ hw' = [FreshEngine EXCEPT !.on = FALSE]
        /\ UNCHANGED <<pc, cb, descq, holder, wrote, executed, expired>>
    BY DEF StopClear
  <1>2. ~online /\ ~online'
    BY <1>0, <1>1 DEF Held, online
  <1>3. /\ hw'.ring \in [Index -> Reqs \cup {Nobody}] /\ ~hw'.on
        /\ hw'.cidx = 0 /\ hw'.pidx = 0
    BY <1>1 DEF FreshEngine
  <1>4. Left(cb', pc', hw')
    BY <1>3 DEF Left, Ahead
  <1>5. Answered'
    BY <1>0, <1>1, <1>2, <1>3, <1>4 DEF Answered
  <1>6. Stopping'
    BY <1>0, <1>1, <1>2, <1>3 DEF Stopping
  <1> QED
    BY <1>5, <1>6

\* The engine h goes on to g.
Advanced(h, g, x, y) ==
  /\ h.cidx # h.pidx /\ g.cidx = Forward(h.cidx, 1) /\ g.pidx = h.pidx
  /\ Executed(h.cidx, h.ring, x, g.ring, y)

\* The engine executes a descriptor of an online queue,
LEMMA ExecuteLedger ==
  ASSUME NEW d, NEW c, NEW l, NEW x, NEW h, QLedger(d, c, l, x, h), QBooked(d, h),
         NEW y, NEW g, Advanced(h, g, x, y)
  PROVE  /\ h.ring[h.cidx] \in Reqs /\ l[h.ring[h.cidx]] # "idle"
         /\ c[h.ring[h.cidx]].done = FALSE
         /\ QLedger(d, c, l, y, g)
  <1> USE DEF Advanced
  <1> DEFINE L == d.pend_list \o d.work_list
             np == Len(d.pend_list)
             e == d.credit + Ahead(d.cidx, h.cidx)
             i == h.cidx
             p == d.pidx
  <1>1. PICK O : Ledger(O, L, np, c, l, x, e, i, p, h.ring)
    BY DEF QLedger
  <1>2. d.pend_list \in Seq(Reqs) /\ d.work_list \in Seq(Reqs) /\ d.credit \in Nat
    BY DEF QLedger
  <1>3. i \in Index /\ p \in Index
    BY DEF QBooked, Booked
  <1>4. i # p /\ Ahead(d.cidx, Forward(i, 1)) = Ahead(d.cidx, i) + 1 /\ Ahead(d.cidx, i) \in Nat
    BY BookedAhead DEF QBooked
  <1> HIDE DEF L, np, i, p
  <1>5. e + 1 = d.credit + Ahead(d.cidx, g.cidx)
    <2> DEFINE A == Ahead(d.cidx, i)
               B == Ahead(d.cidx, g.cidx)
    <2>1. B = A + 1 /\ A \in Nat /\ e = d.credit + A
      BY <1>4 DEF i
    <2> HIDE DEF A, B, e
    <2>2. e + 1 = d.credit + B
      BY <1>2, <2>1
    <2> QED
      BY <2>2 DEF B
  <1> HIDE DEF e
  <1>6. /\ \E k \in 1..Len(L) : h.ring[i] = L[k]
        /\ Ledger(O, L, np, c, l, y, e + 1, Forward(i, 1), p, g.ring)
    <2>1. Executed(i, h.ring, x, g.ring, y)
      BY DEF i
    <2> QED
      BY <1>1, <1>3, <1>4, <2>1, LedgerExecute
  <1>7. \A k \in 1..Len(L) : L[k] \in Reqs /\ l[L[k]] # "idle" /\ c[L[k]].done = FALSE
    BY <1>1 DEF Ledger, Entry
  <1>8. QLedger(d, c, l, y, g)
    BY <1>2, <1>5, <1>6 DEF QLedger, L, np, i, p
  <1> QED
    BY <1>6, <1>7, <1>8 DEF i

\* or one that a stopped queue has left it.
LEMMA ExecuteLeft ==
  ASSUME NEW c, NEW l, NEW h, Left(c, l, h), h.cidx \in Index, h.pidx \in Index,
         NEW x, NEW y, NEW g, Advanced(h, g, x, y)
  PROVE  /\ h.ring[h.cidx] \in Reqs /\ l[h.ring[h.cidx]] # "idle"
         /\ ~(c[h.ring[h.cidx]].done /\ ~c[h.ring[h.cidx]].status)
         /\ Left(c, l, g)
  <1> USE DEF Advanced
  <1> DEFINE i == h.cidx
             u == Ahead(h.cidx, h.pidx)
  <1>1. /\ u \in Nat /\ u > 0 /\ u < RngSz /\ Forward(i, 0) = i
        /\ Ahead(g.cidx, g.pidx) = u - 1
        /\ \A t \in 0..(u - 2) : /\ Forward(g.cidx, t) = Forward(i, t + 1)
                                 /\ Forward(i, t + 1) # i /\ Forward(i, t + 1) \in Index
    BY ForwardOne
  <1> HIDE DEF u
  <1>5. PICK r \in Reqs : /\ h.ring[Forward(i, 0)] = r /\ l[r] # "idle"
                          /\ ~(c[r].done /\ ~c[r].status)
    <2>1. 0 \in 0..(u - 1)
      BY <1>1
    <2> QED
      BY <2>1 DEF Left, u
  <1>6. ASSUME NEW t \in 0..(Ahead(g.cidx, g.pidx) - 1)
        PROVE  \E q \in Reqs : /\ g.ring[Forward(g.cidx, t)] = q /\ l[q] # "idle"
                               /\ ~(c[q].done /\ ~c[q].status)
    <2>1. t \in 0..(u - 2) /\ t + 1 \in 0..(u - 1)
      BY <1>1
    <2>2. g.ring[Forward(g.cidx, t)] = h.ring[Forward(i, t + 1)]
      BY <1>1, <2>1 DEF Executed
    <2>3. \E q \in Reqs : /\ h.ring[Forward(i, t + 1)] = q /\ l[q] # "idle"
                          /\ ~(c[q].done /\ ~c[q].status)
      BY <2>1 DEF Left, u
    <2> QED
      BY <2>2, <2>3
  <1>7. Left(c, l, g)
    BY <1>6 DEF Left
  <1> QED
    BY <1>1, <1>5, <1>7

LEMMA ExecuteAnswered ==
  ASSUME AInv, Execute
  PROVE  Answered' /\ Stopping'
  <1> DEFINE r == hw.ring[hw.cidx]
  <1>0. RInv /\ Shape /\ Stopping /\ Answered
    BY DEF AInv, RInv
  <1>1. /\ hw.on /\ hw.cidx # hw.pidx
        /\ hw' = [hw EXCEPT !.cidx = Forward(@, 1), !.ring[hw.cidx] = Nobody]
        /\ executed' = [executed EXCEPT ![r] = @ + 1]
        /\ UNCHANGED <<pc, cb, descq, holder, wrote, thp, ctl, starts, expired>>
    BY DEF Execute
  <1>2. /\ hw'.cidx = Forward(hw.cidx, 1) /\ hw'.pidx = hw.pidx /\ hw'.on = hw.on
        /\ hw'.ring = [hw.ring EXCEPT ![hw.cidx] = Nobody]
    BY <1>0, <1>1 DEF Shape
  <1>3. /\ hw.ring \in [Index -> Reqs \cup {Nobody}] /\ executed \in [Reqs -> Nat]
        /\ hw.cidx \in Index /\ hw.pidx \in Index
    BY <1>0 DEF Answered, Shape
  <1>e. Advanced(hw, hw', executed, executed')
    BY <1>1, <1>2, <1>3, Zenon DEF Executed, Advanced
  <1>4. hw'.ring \in [Index -> Reqs \cup {Nobody}] /\ executed' \in [Reqs -> Nat]
    <2>1. hw'.ring \in [Index -> Reqs \cup {Nobody}]
      BY <1>2, <1>3
    <2> HIDE DEF r
    <2>2. CASE r \in Reqs
      BY <1>1, <1>3, <2>1, <2>2
    <2>3. CASE r \notin Reqs
      <3>1. executed' = executed
        BY <1>1, <1>3, <2>3
      <3> QED
        BY <1>3, <2>1, <3>1
    <2> QED
      BY <2>2, <2>3
  <1>5. ASSUME "call" \notin expired'
        PROVE  /\ Told(cb', executed')
               /\ \A q \in Reqs : pc'[q] = "idle" => executed'[q] = 0
               /\ online' => QLedger(descq', cb', pc', executed', hw')
               /\ ~online' => Left(cb', pc', hw')
    <2>1. /\ Told(cb, executed) /\ \A q \in Reqs : pc[q] = "idle" => executed[q] = 0
          /\ online => QLedger(descq, cb, pc, executed, hw)
          /\ ~online => Left(cb, pc, hw)
      BY <1>0, <1>1, <1>5 DEF Answered
    <2>2. /\ r \in Reqs /\ pc[r] # "idle" /\ ~(cb[r].done /\ ~cb[r].status)
          /\ online => QLedger(descq, cb, pc, executed', hw')
          /\ ~online => Left(cb, pc, hw')
      <3>1. CASE online
        <4>1. QBooked(descq, hw)
          BY <1>0, <3>1 DEF RInv
        <4>0. QLedger(descq, cb, pc, executed, hw)
          BY <2>1, <3>1
        <4>2. /\ r \in Reqs /\ pc[r] # "idle" /\ cb[r].done = FALSE
              /\ QLedger(descq, cb, pc, executed', hw')
          BY <1>e, <4>0, <4>1, ExecuteLedger, Zenon
        <4> HIDE DEF r
        <4>3. ~cb[r].done
          BY <4>2
        <4> QED
          BY <3>1, <4>2, <4>3
      <3>2. CASE ~online
        BY <1>3, <1>e, <2>1, <3>2, ExecuteLeft
      <3> QED
        BY <3>1, <3>2
    <2> HIDE DEF r
    <2>3. \A q \in Reqs : q # r => executed'[q] = executed[q]
      BY <1>1, <1>3
    <2>4. Told(cb, executed')
      BY <2>1, <2>2, <2>3 DEF Told
    <2>5. \A q \in Reqs : pc[q] = "idle" => executed'[q] = 0
      BY <2>1, <2>2, <2>3
    <2> QED
      BY <1>1, <2>2, <2>4, <2>5 DEF online
  <1>6. Answered'
    BY <1>4, <1>5 DEF Answered
  <1>7. Stopping'
    BY <1>0, <1>1, <1>2 DEF Stopping, online
  <1> QED
    BY <1>6, <1>7

LEMMA InitAInv == Init => AInv
  <1> SUFFICES ASSUME Init PROVE AInv
    OBVIOUS
  <1>1. RInv
    BY InitRInv
  <1>2. /\ hw.ring \in [Index -> Reqs \cup {Nobody}] /\ hw.cidx = 0 /\ hw.pidx = 0 /\ ~hw.on
        /\ executed = [r \in Reqs |-> 0] /\ ~online /\ \A r \in Reqs : ~cb[r].done
    BY DEF Init, FreshEngine, NewCb, online
  <1>3. Left(cb, pc, hw)
    BY <1>2 DEF Left, Ahead
  <1>4. Answered
    BY <1>2, <1>3 DEF Answered, Told
  <1>5. Stopping
    BY <1>2 DEF Init, Stopping
  <1> QED
    BY <1>1, <1>4, <1>5 DEF AInv

LEMMA NextAInv ==
  ASSUME AInv, [Next]_vars
  PROVE  AInv'
  <1>1. RInv'
    BY NextRInv DEF AInv
  <1>2. CASE UNCHANGED vars
    <2>1. UNCHANGED <<pc, cb, descq, holder, wrote, ctl, hw, executed, expired>>
      BY <1>2 DEF vars
    <2> QED
      BY <1>1, <2>1, QuietAnswered DEF AInv
  <1>3. ASSUME NEW a \in Actors, ProcRequest(a) PROVE Answered' /\ Stopping'
    BY <1>3, ProcBeginAnswered, FillAnswered, RingAnswered, WakeAnswered DEF ProcRequest
  <1>4. CASE \E r \in Reqs : Submit(r) \/ Call(r) \/ WaitExpired(r)
    BY <1>1, <1>3, <1>4, SubmitAnswered, WaitDoneAnswered, WaitExpiredAnswered
       DEF Call, Actors, AInv
  <1>5. CASE ThreadStep
    BY <1>1, <1>3, <1>5, ThreadAnswered DEF ThreadStep, Actors, AInv
  <1>6. CASE Start \/ Stop \/ StopStep
    BY <1>1, <1>6, StartAnswered, StopQuietAnswered, StopFinishAnswered, StopClearAnswered
       DEF StopStep, AInv
  <1>7. CASE Execute \/ WriteBack
    BY <1>1, <1>7, ExecuteAnswered, WriteBackAnswered DEF AInv
  <1> QED
    BY <1>2, <1>4, <1>5, <1>6, <1>7 DEF Next

\* As long as no call has run out of time, whoever is told of success has had all
\* of its descriptors executed, for every number of calls and pages, every size of
\* the ring and every number of starts (qdma_request_submit, qdma_sgt_req_done).
THEOREM AnswersAreTrue == Spec => []DoneMeansExecuted
  <1>1. Init => AInv
    BY InitAInv
  <1>2. AInv /\ [Next]_vars => AInv'
    BY NextAInv
  <1>3. AInv => DoneMeansExecuted
    BY DEF AInv, Answered, Told, DoneMeansExecuted
  <1> QED
    BY <1>1, <1>2, <1>3, PTL DEF Spec

LEMMA AInvPinned == AInv => BuffersStayPinned
  <1> SUFFICES ASSUME AInv, expired = {}, hw.on, NEW i \in Index,
                      Ahead(hw.cidx, i) < Ahead(hw.cidx, descq.pidx)
               PROVE  pc[hw.ring[i]] \notin Ended
    BY DEF BuffersStayPinned
  <1>0. RInv /\ Shape /\ Stopping /\ Answered
    BY DEF AInv, RInv
  <1>1. hw.cidx \in Index /\ Ahead(hw.cidx, i) \in Nat /\ Forward(hw.cidx, Ahead(hw.cidx, i)) = i
    <2>1. hw.cidx \in Index
      BY <1>0 DEF Shape
    <2> QED
      BY <2>1 DEF Ahead, Forward, Index
  <1>2. online
    <2>1. SUFFICES ASSUME ~online PROVE FALSE
      OBVIOUS
    <2>2. hw.cidx = descq.pidx
      BY <1>0, <2>1 DEF Stopping
    <2>3. Ahead(hw.cidx, descq.pidx) = 0
      BY <1>1, <2>2 DEF Ahead, Index
    <2> QED
      BY <1>1, <2>3
  <1>3. QLedger(descq, cb, pc, executed, hw) /\ QBooked(descq, hw)
    BY <1>0, <1>2 DEF Answered, RInv
  <1> DEFINE L == descq.pend_list \o descq.work_list
             np == Len(descq.pend_list)
             e == descq.credit + Ahead(descq.cidx, hw.cidx)
             t == Ahead(hw.cidx, i)
             m == Ahead(hw.cidx, descq.pidx)
  <1>4. PICK O : Ledger(O, L, np, cb, pc, executed, e, hw.cidx, descq.pidx, hw.ring)
    BY <1>3 DEF QLedger
  <1> HIDE DEF L, np, e
  <1>5. m \in Nat
    BY <1>3, BookedAhead DEF QBooked
  <1>6. t \in 0..(m - 1)
    <2>1. t < m /\ t \in Nat
      BY <1>1
    <2> HIDE DEF t, m
    <2> QED
      BY <1>5, <2>1
  <1>7. PICK k \in 1..Len(L) : hw.ring[Forward(hw.cidx, t)] = L[k]
    <2> HIDE DEF t
    <2> QED
      BY <1>4, <1>6 DEF Ledger
  <1>8. pc[L[k]] \notin Ended
    BY <1>4 DEF Ledger, Entry
  <1> QED
    BY <1>1, <1>7, <1>8

\* As long as no timer has run out, the engine has no page of a call before it that
\* has returned, for all values of the constants (cdev_gen_read_write unmaps its
\* buffer whatever qdma_request_submit answers).
THEOREM BuffersAlwaysPinned == Spec => []BuffersStayPinned
  <1>1. Init => AInv
    BY InitAInv
  <1>2. AInv /\ [Next]_vars => AInv'
    BY NextAInv
  <1>3. AInv => BuffersStayPinned
    BY AInvPinned
  <1> QED
    BY <1>1, <1>2, <1>3, PTL DEF Spec

(***************************************************************************)
(* The order in which calls are served.                                    *)
(***************************************************************************)
\* The calls of the line L with the requests c, as CallQueue sees them, and the
\* calls among c told of success.
Queued(L, c) == [k \in 1..Len(L) |-> [call |-> L[k], pages |-> c[L[k]].pages]]
Wins(c) == {r \in Reqs : c[r].done /\ ~c[r].status}

LEMMA WaitingIs ==
  /\ Waiting = IF online THEN Queued(Line(descq), cb) ELSE <<>>
  /\ Successes = Wins(cb)
  BY Zenon DEF Waiting, Successes, Queued, Wins, Line, online

LEMMA QueuedIs ==
  ASSUME NEW L \in Seq(Reqs), NEW c
  PROVE  /\ Len(Queued(L, c)) = Len(L) /\ Len(L) \in Nat
         /\ \A k \in 1..Len(L) : /\ L[k] \in Reqs
                                 /\ Queued(L, c)[k].call = L[k]
                                 /\ Queued(L, c)[k].pages = c[L[k]].pages
  BY DEF Queued

\* Requests with the same numbers of pages look the same.
SamePages(L, b, c) == \A k \in 1..Len(L) : b[L[k]].pages = c[L[k]].pages

LEMMA QueuedSame ==
  ASSUME NEW L \in Seq(Reqs), NEW c, NEW b, SamePages(L, b, c)
  PROVE  Queued(L, b) = Queued(L, c)
  BY DEF Queued, SamePages

\* The queue P is Q with a call r of n pages more.
OneMoreCall(P, Q, r, n) == P = Append(Q, [call |-> r, pages |-> n])

LEMMA QueuedMore ==
  ASSUME NEW L \in Seq(Reqs), NEW c, NEW b, NEW r \in Reqs, SamePages(L, b, c),
         NEW M, M = Append(L, r)
  PROVE  OneMoreCall(Queued(M, b), Queued(L, c), r, b[r].pages)
  <1> DEFINE e == [call |-> r, pages |-> b[r].pages]
             Q == Queued(L, c)
  <1>1. /\ Len(L) \in Nat /\ Len(M) = Len(L) + 1 /\ M[Len(L) + 1] = r
        /\ \A k \in 1..Len(L) : M[k] = L[k]
    OBVIOUS
  <1>2. Q = [k \in 1..Len(L) |-> [call |-> L[k], pages |-> c[L[k]].pages]]
    BY DEF Queued
  <1> HIDE DEF e
  <1>3. Append(Q, e) = [k \in 1..(Len(L) + 1) |-> IF k = Len(L) + 1 THEN e ELSE Q[k]]
    <2> HIDE DEF Q
    <2>1. Len(Q) = Len(L)
      BY <1>1, <1>2
    <2> QED
      BY <1>1, <1>2, <2>1
  <1>4. Queued(M, b) = [k \in 1..(Len(L) + 1) |-> [call |-> M[k], pages |-> b[M[k]].pages]]
    BY <1>1 DEF Queued
  <1>5. ASSUME NEW k \in 1..(Len(L) + 1)
        PROVE  [call |-> M[k], pages |-> b[M[k]].pages] = IF k = Len(L) + 1 THEN e ELSE Q[k]
    <2>1. CASE k = Len(L) + 1
      BY <1>1, <2>1 DEF e
    <2>2. CASE k # Len(L) + 1
      <3>1. k \in 1..Len(L)
        BY <1>1, <2>2
      <3> QED
        BY <1>1, <1>2, <2>2, <3>1 DEF SamePages
    <2> QED
      BY <2>1, <2>2
  <1> HIDE DEF Q
  <1>6. Queued(M, b) = Append(Q, e)
    BY <1>3, <1>4, <1>5
  <1> QED
    BY <1>6, Zenon DEF OneMoreCall, Q, e

\* The calls paid off are those at the head.
LEMMA QueuedFewer ==
  ASSUME NEW L, NEW M, NEW c, NEW b, NEW n, PaidOff(L, M, c, b, n)
  PROVE  /\ Queued(M, b) = SubSeq(Queued(L, c), n + 1, Len(Queued(L, c)))
         /\ Wins(b) = Wins(c) \cup {L[k] : k \in 1..n}
  <1>1. /\ L \in Seq(Reqs) /\ M \in Seq(Reqs) /\ Len(L) \in Nat /\ Len(M) \in Nat
        /\ n \in 0..Len(L) /\ Len(M) = Len(L) - n
        /\ \A k \in 1..Len(M) : M[k] = L[k + n]
    BY DEF PaidOff
  <1>2. \A r \in Reqs : b[r].pages = c[r].pages
    BY DEF PaidOff
  <1> DEFINE Q == Queued(L, c)
             W == [k \in 1..Len(M) |-> [call |-> L[k + n], pages |-> c[L[k + n]].pages]]
  <1>3. \A k \in 1..Len(M) : k + n \in 1..Len(L)
    BY <1>1
  <1>4. Queued(M, b) = W
    <2>1. \A k \in 1..Len(M) : /\ M[k] = L[k + n] /\ M[k] \in Reqs
                               /\ b[M[k]].pages = c[L[k + n]].pages
      BY <1>1, <1>2
    <2> QED
      BY <2>1 DEF Queued
  <1>5. SubSeq(Q, n + 1, Len(Q)) = W
    <2>1. Len(Q) = Len(L) /\ Q = [k \in 1..Len(L) |-> [call |-> L[k], pages |-> c[L[k]].pages]]
      BY <1>1, QueuedIs DEF Queued
    <2>2. \A k \in 1..Len(M) : Q[k + n] = [call |-> L[k + n], pages |-> c[L[k + n]].pages]
      BY <1>3, <2>1
    <2> HIDE DEF Q
    <2>3. SubSeq(Q, n + 1, Len(L)) = [k \in 1..(Len(L) - n) |-> Q[k + n]]
      <3>1. SubSeq(Q, n + 1, Len(L)) = [k \in 1..((Len(L) - (n + 1)) + 1) |-> Q[(k + (n + 1)) - 1]]
        BY <1>1, <2>1
      <3>2. (Len(L) - (n + 1)) + 1 = Len(L) - n /\ \A k \in 1..(Len(L) - n) : (k + (n + 1)) - 1 = k + n
        BY <1>1
      <3> QED
        BY <3>1, <3>2
    <2> QED
      BY <1>1, <2>1, <2>2, <2>3
  <1>6. Wins(b) = Wins(c) \cup {L[k] : k \in 1..n}
    <2>1. \A k \in 1..n : L[k] \in Reqs
      BY <1>1
    <2>2. \A r \in Reqs : /\ b[r].status = c[r].status
                          /\ IF r \in {L[k] : k \in 1..n} THEN b[r].done /\ c[r].status = FALSE
                             ELSE b[r].done = c[r].done
      BY DEF PaidOff
    <2> DEFINE P == {L[k] : k \in 1..n}
    <2>3. P \subseteq Reqs
      BY <2>1
    <2> HIDE DEF P
    <2>4. \A r \in Reqs : (b[r].done /\ ~b[r].status) <=> (c[r].done /\ ~c[r].status) \/ r \in P
      BY <2>2 DEF P
    <2> QED
      BY <2>3, <2>4 DEF Wins, P
  <1> QED
    BY <1>4, <1>5, <1>6

\* Polling answers some calls at the head of the line, or none.
Answers(L, M, c, b) == \E n : PaidOff(L, M, c, b, n)

LEMMA AnswersNone ==
  ASSUME NEW L \in Seq(Reqs), NEW c, NEW b,
         \A r \in Reqs : b[r].pages = c[r].pages /\ b[r].status = c[r].status
                         /\ b[r].done = c[r].done
  PROVE  Answers(L, L, c, b)
  <1>1. PaidOff(L, L, c, c, 0)
    BY PaidNothing
  <1>2. {L[k] : k \in 1..0} = {}
    OBVIOUS
  <1>3. PaidOff(L, L, c, b, 0)
    BY <1>1, <1>2 DEF PaidOff
  <1> QED
    BY <1>3 DEF Answers

\* What is done to the requests afterwards does not matter, if it leaves pages and
\* answers alone.
LEMMA AnswersThen ==
  ASSUME NEW L, NEW M, NEW c, NEW b, NEW d, Answers(L, M, c, b),
         \A r \in Reqs : d[r].pages = b[r].pages /\ d[r].status = b[r].status
                         /\ d[r].done = b[r].done
  PROVE  Answers(L, M, c, d)
  <1>1. PICK n : PaidOff(L, M, c, b, n)
    BY DEF Answers
  <1>2. PaidOff(L, M, c, d, n)
    BY <1>1 DEF PaidOff
  <1> QED
    BY <1>2 DEF Answers

\* In the queue of CallQueue this is Answer, or no step.
LEMMA AnswersImplement ==
  ASSUME online, online', UNCHANGED executed,
         Answers(Line(descq), Line(descq'), cb, cb')
  PROVE  Promise!Next \/ UNCHANGED <<Waiting, executed, Successes>>
  <1> DEFINE L == Line(descq)
             M == Line(descq')
  <1>1. PICK n : PaidOff(L, M, cb, cb', n)
    BY DEF Answers
  <1>2. /\ Waiting = Queued(L, cb) /\ Waiting' = Queued(M, cb')
        /\ Successes = Wins(cb) /\ Successes' = Wins(cb')
    <2>1. (Waiting = IF online THEN Queued(Line(descq), cb) ELSE <<>>)'
          /\ (Successes = Wins(cb))'
      BY WaitingIs, PTL
    <2> QED
      BY <2>1, WaitingIs DEF Queued, Wins, Line
  <1> HIDE DEF L, M
  <1>3. /\ Waiting' = SubSeq(Waiting, n + 1, Len(Waiting))
        /\ Successes' = Successes \cup {L[k] : k \in 1..n}
    BY <1>1, <1>2, QueuedFewer
  <1>4. /\ L \in Seq(Reqs) /\ n \in 0..Len(L)
        /\ \A k \in 1..n : executed[L[k]] = cb[L[k]].pages
    BY <1>1 DEF PaidOff
  <1>5. /\ Len(Waiting) = Len(L) /\ Len(L) \in Nat
        /\ \A k \in 1..Len(L) : /\ L[k] \in Reqs
                                /\ Waiting[k].call = L[k]
                                /\ Waiting[k].pages = cb[L[k]].pages
    BY <1>2, <1>4, QueuedIs
  <1>6. CASE n = 0
    <2>1. Successes' = Successes
      BY <1>3, <1>6
    <2>2. Waiting' = Waiting
      <3>1. Waiting = [k \in 1..Len(L) |-> [call |-> L[k], pages |-> cb[L[k]].pages]]
        BY <1>2 DEF Queued
      <3> HIDE DEF Waiting
      <3>2. SubSeq(Waiting, 1, Len(Waiting)) = [k \in 1..Len(L) |-> Waiting[k]]
        BY <1>5
      <3> QED
        BY <1>3, <1>6, <3>1, <3>2
    <2> QED
      BY <2>1, <2>2
  <1>7. CASE n # 0
    <2>1. n \in 1..Len(Waiting) /\ \A k \in 1..n : k \in 1..Len(L)
      BY <1>4, <1>5, <1>7
    <2>2. Promise!Complete(n)
      BY <1>4, <1>5, <2>1 DEF Promise!Complete
    <2>3. {L[k] : k \in 1..n} = {Waiting[k].call : k \in 1..n}
      BY <1>5, <2>1
    <2>4. Promise!Answer
      BY <1>3, <2>1, <2>2, <2>3 DEF Promise!Answer
    <2> QED
      BY <2>4 DEF Promise!Next
  <1> QED
    BY <1>6, <1>7

\* r is the first call in the line L that still has pages to go.
First(L, c, x, r) ==
  \E i \in 1..Len(L) : /\ r = L[i]
                        /\ x[L[i]] < c[L[i]].pages
                        /\ \A j \in 1..(i - 1) : x[L[j]] = c[L[j]].pages

\* The engine works for that one.
LEMMA LedgerFirst ==
  ASSUME NEW O, NEW L, NEW np, NEW c, NEW l, NEW x, NEW e, NEW h \in Index, NEW p \in Index,
         NEW ring, Ledger(O, L, np, c, l, x, e, h, p, ring), h # p
  PROVE  First(L, c, x, ring[h])
  <1>1. /\ L \in Seq(Reqs) /\ np \in 0..Len(L) /\ e \in Nat /\ Len(L) \in Nat
        /\ Sums(O, Len(L))
        /\ \A k \in (np + 1)..Len(L) : O[k] = O[Len(L)]
        /\ \A k \in 1..Len(L) : Entry(c[L[k]], l[L[k]], x[L[k]], k <= np, O[k - 1], O[k], e)
    BY DEF Ledger
  <1>2. /\ \A k \in 1..Len(L) : O[k - 1] \in Nat /\ O[k] \in Nat /\ O[k - 1] <= O[k]
        /\ \A j, k \in 1..Len(L) : j < k => O[j] <= O[k - 1]
    BY <1>1, SumsAt
  <1>3. Forward(h, 0) = h /\ 0 \in 0..(Ahead(h, p) - 1)
    BY ForwardOne
  <1>4. PICK i \in 1..Len(L) : O[i - 1] <= e + 0 /\ e + 0 < O[i] /\ ring[Forward(h, 0)] = L[i]
    BY <1>3 DEF Ledger
  <1>5. O[i - 1] <= e /\ e < O[i] /\ ring[h] = L[i]
    BY <1>1, <1>3, <1>4
  <1>6. \A j \in 1..(i - 1) : j \in 1..Len(L) /\ j < i
    BY <1>1
  <1>7. i <= np + 1
    <2>1. SUFFICES ASSUME i > np + 1 PROVE FALSE
      BY <1>1
    <2>2. i - 1 \in (np + 1)..Len(L) /\ i \in (np + 1)..Len(L)
      BY <1>1, <2>1
    <2>3. O[i - 1] = O[i]
      BY <1>1, <2>2
    <2> QED
      BY <1>1, <1>2, <1>5, <2>3
  <1>8. ASSUME NEW j \in 1..(i - 1) PROVE x[L[j]] = c[L[j]].pages
    <2>1. j \in 1..Len(L) /\ j < i /\ j <= np
      BY <1>1, <1>6, <1>7
    <2>2. Entry(c[L[j]], l[L[j]], x[L[j]], j <= np, O[j - 1], O[j], e)
      BY <1>1, <2>1
    <2>3. O[j] <= O[i - 1] /\ O[i - 1] \in Nat
      BY <1>2, <2>1
    <2> DEFINE lo == O[j - 1]
               hi == O[j]
               v  == c[L[j]]
    <2>4. lo \in Nat /\ hi \in Nat /\ lo <= hi
      BY <1>2, <2>1
    <2>5. hi <= e
      BY <1>1, <1>5, <2>3, <2>4
    <2>6. v.offset = v.pages /\ v.desc_nr = hi - lo /\ v.offset \in Nat
          /\ x[L[j]] = v.offset - v.desc_nr + Reach(e, lo, hi)
      BY <2>1, <2>2 DEF Entry
    <2> HIDE DEF lo, hi, v
    <2>7. Reach(e, lo, hi) = hi - lo
      BY <1>1, <2>4, <2>5 DEF Reach
    <2>8. x[L[j]] = v.pages
      BY <2>4, <2>6, <2>7
    <2> QED
      BY <2>8 DEF v
  <1>9. x[L[i]] < c[L[i]].pages
    <2>1. Entry(c[L[i]], l[L[i]], x[L[i]], i <= np, O[i - 1], O[i], e)
      BY <1>1
    <2> DEFINE lo == O[i - 1]
               hi == O[i]
               v  == c[L[i]]
    <2>2. lo \in Nat /\ hi \in Nat /\ lo <= e /\ e < hi
      BY <1>2, <1>5
    <2>3. /\ v.offset \in Nat /\ v.pages \in Nat /\ v.offset <= v.pages /\ v.desc_nr = hi - lo
          /\ x[L[i]] = v.offset - v.desc_nr + Reach(e, lo, hi)
      BY <2>1 DEF Entry
    <2> HIDE DEF lo, hi, v
    <2>4. Reach(e, lo, hi) = e - lo
      BY <1>1, <2>2 DEF Reach
    <2>5. x[L[i]] < v.pages
      BY <1>1, <2>2, <2>3, <2>4
    <2> QED
      BY <2>5 DEF v
  <1> QED
    BY <1>5, <1>8, <1>9 DEF First

LEMMA ExecuteImplements ==
  ASSUME AInv, Execute, expired = {}
  PROVE  Promise!Next
  <1>0. RInv /\ Shape /\ Stopping /\ Answered
    BY DEF AInv, RInv
  <1>1. /\ hw.on /\ hw.cidx # hw.pidx
        /\ executed' = [executed EXCEPT ![hw.ring[hw.cidx]] = @ + 1]
        /\ UNCHANGED <<pc, cb, descq>>
    BY DEF Execute
  <1>2. online
    BY <1>0, <1>1 DEF Stopping
  <1>3. QLedger(descq, cb, pc, executed, hw) /\ QBooked(descq, hw)
    BY <1>0, <1>2 DEF Answered, RInv
  <1> DEFINE L == Line(descq)
             np == Len(descq.pend_list)
             e == descq.credit + Ahead(descq.cidx, hw.cidx)
  <1>4. PICK O : Ledger(O, L, np, cb, pc, executed, e, hw.cidx, descq.pidx, hw.ring)
    BY <1>3 DEF QLedger, Line
  <1>5. hw.cidx \in Index /\ descq.pidx \in Index /\ hw.cidx # descq.pidx
    <2>1. hw.cidx \in Index /\ descq.pidx \in Index
      BY <1>3 DEF QBooked, Booked
    <2> QED
      BY <1>1, <1>3, <2>1, BookedAhead DEF QBooked
  <1>6. Waiting = Queued(L, cb)
    BY <1>2, WaitingIs
  <1> HIDE DEF L, np, e
  <1>7. PICK i \in 1..Len(L) : /\ hw.ring[hw.cidx] = L[i]
                               /\ executed[L[i]] < cb[L[i]].pages
                               /\ \A j \in 1..(i - 1) : executed[L[j]] = cb[L[j]].pages
    <2> DEFINE h == hw.cidx
               p == descq.pidx
               ring == hw.ring
    <2>1. /\ Ledger(O, L, np, cb, pc, executed, e, h, p, ring)
          /\ h \in Index /\ p \in Index /\ h # p
      BY <1>4, <1>5
    <2> HIDE DEF h, p, ring
    <2>2. First(L, cb, executed, ring[h])
      BY ONLY <2>1, LedgerFirst
    <2> QED
      BY <2>2, Zenon DEF First, h, ring
  <1>8. /\ Len(Waiting) = Len(L) /\ Len(L) \in Nat
        /\ \A k \in 1..Len(L) : /\ Waiting[k].call = L[k]
                                /\ Waiting[k].pages = cb[L[k]].pages
    <2>1. L \in Seq(Reqs)
      BY <1>4 DEF Ledger
    <2> QED
      BY <1>6, <2>1, QueuedIs
  <1>9. Waiting' = Waiting /\ Successes' = Successes
    BY <1>1 DEF Waiting, Successes
  <1>10. Promise!Complete(i - 1)
    <2>1. \A j \in 1..(i - 1) : j \in 1..Len(L)
      BY <1>8
    <2> QED
      BY <1>7, <1>8, <2>1 DEF Promise!Complete
  <1>11. Promise!Move
    BY <1>1, <1>7, <1>8, <1>9, <1>10 DEF Promise!Move
  <1> QED
    BY <1>11 DEF Promise!Next

\* The lists of an online queue hold calls that are under way, in the ledger's order.
LEMMA LineIs ==
  ASSUME AInv, online, "call" \notin expired
  PROVE  /\ Line(descq) \in Seq(Reqs)
         /\ descq.pend_list \in Seq(Reqs) /\ descq.work_list \in Seq(Reqs)
         /\ \A k \in 1..Len(Line(descq)) :
              LET r == Line(descq)[k]
              IN r \in Reqs /\ pc[r] # "idle" /\ cb[r].done = FALSE /\ cb[r].status = FALSE
  <1>1. QLedger(descq, cb, pc, executed, hw)
    BY DEF AInv, Answered
  <1>2. PICK O : Ledger(O, Line(descq), Len(descq.pend_list), cb, pc, executed,
                        descq.credit + Ahead(descq.cidx, hw.cidx), hw.cidx, descq.pidx, hw.ring)
    BY <1>1 DEF QLedger, Line
  <1> DEFINE L == Line(descq)
  <1> HIDE DEF L
  <1>3. L \in Seq(Reqs) /\ \A k \in 1..Len(L) : /\ L[k] \in Reqs /\ pc[L[k]] # "idle"
                                                /\ cb[L[k]].done = FALSE /\ cb[L[k]].status = FALSE
    BY <1>2 DEF Ledger, Entry, L
  <1> QED
    BY <1>1, <1>3 DEF QLedger, L

LEMMA PollOf ==
  ASSUME NEW d, NEW c, IsDescq(d), IsCb(c), Shape, QBooked(d, hw),
         QLedger(d, c, pc, executed, hw),
         NEW u, u = CmplStatus(d, c)
  PROVE  /\ Answers(Line(d), Line(u.q), c, u.c)
         /\ u.q.pidx = u.q.cidx \/ hw.status = u.q.cidx
  <1>1. Answers(Line(d), Line(u.q), c, u.c)
    BY PollPays DEF Answers
  <1>2. CASE d.pidx = d.cidx \/ hw.status = d.cidx
    <2>1. u = [q |-> d, c |-> c]
      BY <1>2, Zenon DEF CmplStatus
    <2>2. u.q = d
      BY <2>1
    <2> QED
      BY <1>1, <1>2, <2>2
  <1>3. CASE ~(d.pidx = d.cidx \/ hw.status = d.cidx)
    <2>1. PICK n, left : u = Pay(d, c, n, left)
      BY <1>3, Zenon DEF CmplStatus
    <2>2. u.q.cidx = hw.status
      <3>1. Paid(u, d, c, n, left)
        BY <2>1, PayIs
      <3> QED
        BY <3>1 DEF Paid
    <2> QED
      BY <1>1, <2>2
  <1> QED
    BY <1>2, <1>3

\* What the poll of a full ring answers.
LEMMA PolledOf ==
  ASSUME AInv, online, "call" \notin expired
  PROVE  /\ Answers(Line(descq), Line(Polled.q), cb, Polled.c)
         /\ \/ Polled.q = descq /\ Polled.c = cb
            \/ Polled.q.pidx = Polled.q.cidx \/ hw.status = Polled.q.cidx
  <1>1. /\ Shape /\ QBooked(descq, hw) /\ IsDescq(descq) /\ IsCb(cb)
        /\ QLedger(descq, cb, pc, executed, hw)
    BY DEF AInv, RInv, Shape, Answered
  <1>2. CASE descq.avail = 0
    <2>1. Polled = CmplStatus(descq, cb)
      BY <1>2, Zenon DEF Polled
    <2> QED
      BY <1>1, <2>1, PollOf
  <1>3. CASE descq.avail # 0
    <2>1. Polled = [q |-> descq, c |-> cb]
      BY <1>3, Zenon DEF Polled
    <2>2. Polled.q = descq /\ Polled.c = cb
      BY <2>1
    <2>3. Answers(Line(descq), Line(descq), cb, cb)
      BY LineIs, AnswersNone
    <2> QED
      BY <2>2, <2>3
  <1> QED
    BY <1>2, <1>3

LEMMA ProcBeginImplements ==
  ASSUME AInv, NEW a \in Actors, ProcBegin(a), expired = {}
  PROVE  Promise!Next \/ UNCHANGED <<Waiting, executed, Successes>>
  <1> DEFINE u == CmplStatus(descq, cb)
  <1>0. RInv /\ Shape /\ Stopping /\ Answered
    BY DEF AInv, RInv
  <1>1. UNCHANGED executed
    BY DEF ProcBegin
  <1>2. CASE descq.q_stop_wait \/ online
    <2>1. online
      BY <1>0, <1>2 DEF Stopping
    <2>2. descq' = u.q /\ cb' = u.c
      BY <1>2 DEF ProcBegin, online
    <2>3. /\ QBooked(descq, hw) /\ IsDescq(descq) /\ IsCb(cb)
          /\ QLedger(descq, cb, pc, executed, hw)
      BY <1>0, <2>1 DEF RInv, Shape, Answered
    <2>4. PolledTo(descq, cb, u) /\ Answers(Line(descq), Line(u.q), cb, u.c)
      BY <1>0, <2>3, PollTo, PollOf
    <2> HIDE DEF u
    <2>5. online' /\ Answers(Line(descq), Line(descq'), cb, cb')
      BY <2>1, <2>2, <2>4 DEF online, PolledTo
    <2> QED
      BY <1>1, <2>1, <2>5, AnswersImplement
  <1>3. CASE ~(descq.q_stop_wait \/ online)
    <2>1. UNCHANGED <<descq, cb>>
      BY <1>3 DEF ProcBegin, online
    <2> QED
      BY <1>1, <2>1 DEF Waiting, Successes
  <1> QED
    BY <1>2, <1>3

LEMMA FillImplements ==
  ASSUME AInv, NEW a \in Actors, Fill(a), expired = {}
  PROVE  Promise!Next \/ UNCHANGED <<Waiting, executed, Successes>>
  <1> DEFINE d == Polled.q
             c == Polled.c
             r == Head(d.work_list)
  <1>0. RInv
    BY DEF AInv
  <1>1. PICK n : Filled(a, n, d, c, r)
    BY <1>0, FillIs
  <1>2. online
    BY <1>1, Zenon DEF Filled
  <1>3. Answers(Line(descq), Line(d), cb, c) /\ QLedger(d, c, pc, executed, hw)
    BY <1>2, PolledOf, PolledAnswered
  <1> HIDE DEF d, c, r
  <1>4. /\ d.work_list # <<>> /\ r = Head(d.work_list) /\ r \in Reqs /\ IsDescq(d) /\ IsCb(c)
        /\ d.q_state = descq.q_state /\ UNCHANGED executed
        /\ descq' = [d EXCEPT !.pidx = Forward(@, n), !.avail = @ - n,
                  !.work_list = IF c[r].offset + n = c[r].pages THEN Tail(@) ELSE @,
                  !.pend_list = IF c[r].offset + n = c[r].pages THEN Append(@, r) ELSE @]
        /\ cb' = [c EXCEPT ![r].offset = @ + n, ![r].desc_nr = @ + n]
    BY <1>1, Zenon DEF Filled
  <1>5. d.pend_list \in Seq(Reqs) /\ d.work_list \in Seq(Reqs)
    BY <1>3 DEF QLedger
  <1>6. Line(descq') = Line(d) /\ descq'.q_state = d.q_state
    <2> DEFINE av == d.avail - n
               pi == Forward(d.pidx, n)
               last == c[r].offset + n = c[r].pages
               wl == IF last THEN Tail(d.work_list) ELSE d.work_list
               pl == IF last THEN Append(d.pend_list, r) ELSE d.pend_list
    <2>1. descq' = [d EXCEPT !.pidx = pi, !.avail = av, !.work_list = wl, !.pend_list = pl]
      BY <1>4 DEF IsDescq, DescqFields
    <2>2. pl \o wl = d.pend_list \o d.work_list
      <3>1. CASE last
        BY <1>4, <1>5, <3>1, JoinMove
      <3>2. CASE ~last
        BY <3>2
      <3> QED
        BY <3>1, <3>2
    <2> HIDE DEF av, pi, wl, pl
    <2>3. descq'.work_list = wl /\ descq'.pend_list = pl /\ descq'.q_state = d.q_state
      BY <1>4, <2>1 DEF IsDescq, DescqFields
    <2> QED
      BY <2>2, <2>3 DEF Line
  <1>7. \A q \in Reqs : /\ cb'[q].pages = c[q].pages /\ cb'[q].status = c[q].status
                        /\ cb'[q].done = c[q].done
    BY <1>4 DEF IsCb, CbFields
  <1>8. Answers(Line(descq), Line(descq'), cb, cb')
    <2>1. Answers(Line(descq), Line(d), cb, cb')
      BY <1>3, <1>7, AnswersThen
    <2> QED
      BY <1>6, <2>1
  <1>9. online'
    BY <1>2, <1>4, <1>6 DEF online
  <1> QED
    BY <1>2, <1>4, <1>8, <1>9, AnswersImplement

LEMMA RingImplements ==
  ASSUME AInv, NEW a \in Actors, Ring(a), expired = {}
  PROVE  Promise!Next \/ UNCHANGED <<Waiting, executed, Successes>>
  <1> DEFINE u == IF descq.work_list = <<>> THEN [q |-> descq, c |-> cb] ELSE Polled
             b == Busy(u.q)
             v == CmplStatus(b, u.c)
  <1>0. RInv /\ Shape /\ Held /\ Answered /\ IsDescq(descq) /\ IsCb(cb)
    BY DEF AInv, RInv, Shape
  <1>1. /\ At(a) = "fill" /\ UNCHANGED executed
        /\ \/ descq' = v.q /\ cb' = v.c
           \/ descq' = u.q /\ cb' = u.c
    BY Zenon DEF Ring
  <1>2. online
    BY <1>0, <1>1 DEF Held, Actors
  <1>3. \/ u.q = descq /\ u.c = cb
        \/ u = Polled
    <2>1. CASE descq.work_list = <<>>
      <3>1. u = [q |-> descq, c |-> cb]
        BY <2>1, Zenon
      <3> HIDE DEF u
      <3> QED
        BY <3>1
    <2>2. CASE descq.work_list # <<>>
      BY <2>2, Zenon
    <2> QED
      BY <2>1, <2>2
  <1> HIDE DEF u
  <1>4. /\ IsDescq(u.q) /\ IsCb(u.c) /\ QBooked(u.q, hw) /\ u.q.q_state = descq.q_state
        /\ QLedger(u.q, u.c, pc, executed, hw)
    <2>1. PolledTo(descq, cb, Polled) /\ QBooked(Polled.q, hw) /\ QBooked(descq, hw)
      BY <1>0, <1>2, PolledBooks DEF RInv
    <2>2. QLedger(Polled.q, Polled.c, pc, executed, hw) /\ QLedger(descq, cb, pc, executed, hw)
      BY <1>0, <1>2, PolledAnswered DEF Answered
    <2> QED
      BY <1>0, <1>3, <2>1, <2>2 DEF PolledTo
  <1>5. /\ Answers(Line(descq), Line(u.q), cb, u.c)
        /\ \/ u.q = descq /\ u.c = cb
           \/ u.q.pidx = u.q.cidx \/ hw.status = u.q.cidx
    <2>1. Answers(Line(descq), Line(descq), cb, cb)
      BY <1>2, LineIs, AnswersNone
    <2> QED
      BY <1>2, <1>3, <2>1, PolledOf
  <1>6. /\ IsDescq(b) /\ QBooked(b, hw) /\ Line(b) = Line(u.q)
        /\ b.pidx = u.q.pidx /\ b.cidx = u.q.cidx /\ b.q_state = u.q.q_state
        /\ SameBooks(b, u.q, hw, hw)
    BY <1>4 DEF Busy, IsDescq, DescqFields, QBooked, SameBooks, Line
  <1> HIDE DEF b
  <1>7. QLedger(b, u.c, pc, executed, hw)
    <2>1. SameWaiting(u.c, pc, u.c, pc)
      BY DEF SameWaiting
    <2> QED
      BY <1>4, <1>6, <2>1, QLedgerKeep
  <1>8. Answers(Line(descq), Line(v.q), cb, v.c) /\ v.q.q_state = b.q_state
    <2>1. PolledTo(b, u.c, v) /\ Answers(Line(b), Line(v.q), u.c, v.c)
      BY <1>0, <1>4, <1>6, <1>7, PollTo, PollOf
    <2>2. CASE u.q = descq /\ u.c = cb
      <3> HIDE DEF v
      <3> QED
        BY <1>6, <2>1, <2>2 DEF PolledTo
    <2>3. CASE u.q.pidx = u.q.cidx \/ hw.status = u.q.cidx
      <3>1. v = [q |-> b, c |-> u.c]
        BY <1>6, <2>3, Zenon DEF CmplStatus
      <3> HIDE DEF v
      <3>2. v.q = b /\ v.c = u.c
        BY <3>1
      <3> QED
        BY <1>5, <1>6, <3>2
    <2> QED
      BY <1>5, <2>2, <2>3
  <1> HIDE DEF v
  <1>9. online' /\ Answers(Line(descq), Line(descq'), cb, cb')
    BY <1>1, <1>2, <1>4, <1>5, <1>6, <1>8 DEF online
  <1> QED
    BY <1>1, <1>2, <1>9, AnswersImplement

\* Steps that change neither what is queued nor what is answered.
LEMMA QuietImplements ==
  ASSUME AInv, "call" \notin expired,
         UNCHANGED executed,
         /\ descq'.pend_list = descq.pend_list /\ descq'.work_list = descq.work_list
         /\ descq'.q_state = descq.q_state,
         \A r \in Reqs : /\ (cb[r].done /\ cb[r].status) \/ cb'[r].pages = cb[r].pages
                         /\ (cb'[r].done /\ ~cb'[r].status) <=> (cb[r].done /\ ~cb[r].status)
  PROVE  UNCHANGED <<Waiting, executed, Successes>>
  <1>1. Successes' = Successes
    BY DEF Successes
  <1>2. Waiting' = Waiting
    <2>1. CASE online
      <3> DEFINE L == Line(descq)
      <3>1. L \in Seq(Reqs) /\ \A k \in 1..Len(L) : L[k] \in Reqs /\ cb[L[k]].done = FALSE
        BY <2>1, LineIs
      <3>2. Line(descq') = L
        BY DEF Line
      <3>3. online'
        BY <2>1 DEF online
      <3>4. Waiting = Queued(L, cb)
        BY <2>1, WaitingIs
      <3>5. Waiting' = Queued(Line(descq'), cb')
        BY <3>3, Zenon DEF Waiting, Queued, Line, online
      <3> HIDE DEF L
      <3>6. SamePages(L, cb', cb)
        BY <3>1 DEF SamePages
      <3>7. Queued(L, cb') = Queued(L, cb)
        BY <3>1, <3>6, QueuedSame
      <3> QED
        BY <3>2, <3>4, <3>5, <3>7
    <2>2. CASE ~online
      BY <2>2 DEF Waiting, online
    <2> QED
      BY <2>1, <2>2
  <1> QED
    BY <1>1, <1>2

LEMMA WaitDoneImplements ==
  ASSUME AInv, NEW r \in Reqs, WaitDone(r), expired = {}
  PROVE  UNCHANGED <<Waiting, executed, Successes>>
  <1>1. /\ cb[r].done
        /\ cb' = IF cb[r].status THEN [cb EXCEPT ![r] = NewCb] ELSE cb
        /\ UNCHANGED <<descq, executed>>
    BY DEF WaitDone
  <1>2. IsCb(cb)
    BY DEF AInv, RInv, Shape
  <1>3. \A q \in Reqs : q # r => cb'[q] = cb[q]
    BY <1>1, <1>2 DEF IsCb
  <1>4. cb'[r] = cb[r] \/ (cb[r].status /\ ~cb'[r].done)
    <2>1. CASE cb[r].status
      <3>1. cb' = [cb EXCEPT ![r] = NewCb]
        BY <1>1, <2>1
      <3>2. cb'[r] = NewCb
        BY <1>2, <3>1 DEF IsCb
      <3> QED
        BY <2>1, <3>2 DEF NewCb
    <2>2. CASE ~cb[r].status
      BY <1>1, <2>2
    <2> QED
      BY <2>1, <2>2
  <1>5. \A q \in Reqs : /\ (cb[q].done /\ cb[q].status) \/ cb'[q].pages = cb[q].pages
                        /\ (cb'[q].done /\ ~cb'[q].status) <=> (cb[q].done /\ ~cb[q].status)
    BY <1>1, <1>3, <1>4
  <1> QED
    BY <1>1, <1>5, QuietImplements

\* The stack of a call that has not been made holds no answer.
Unasked == expired = {} => \A r \in Reqs : pc[r] = "idle" => r \notin Successes

LEMMA SubmitImplements ==
  ASSUME AInv, Unasked, NEW r \in Reqs, Submit(r), expired = {}
  PROVE  Promise!Next \/ UNCHANGED <<Waiting, executed, Successes>>
  <1>0. Answered /\ IsDescq(descq) /\ IsCb(cb)
    BY DEF AInv, RInv, Shape
  <1>1. pc[r] = "idle" /\ UNCHANGED executed
    BY DEF Submit
  <1>2. CASE ~online
    <2>1. UNCHANGED <<descq, cb>>
      BY <1>2 DEF Submit, online
    <2> QED
      BY <1>1, <2>1 DEF Waiting, Successes
  <1>3. CASE online
    <2>1. PICK n \in PageCounts : cb' = [cb EXCEPT ![r] = [NewCb EXCEPT !.pages = n]]
      BY <1>3 DEF Submit, online
    <2>2. /\ descq'.pend_list = descq.pend_list /\ descq'.work_list = Append(descq.work_list, r)
          /\ descq'.q_state = descq.q_state
      <3>1. descq' = [descq EXCEPT !.work_list = Append(@, r)]
        BY <1>3 DEF Submit, online
      <3> QED
        BY <1>0, <3>1 DEF IsDescq, DescqFields
    <2>3. /\ \A q \in Reqs : q # r => cb'[q] = cb[q]
          /\ cb'[r].pages = n /\ cb'[r].done = FALSE
      BY <1>0, <2>1 DEF IsCb, NewCb
    <2> DEFINE L == Line(descq)
               M == Line(descq')
    <2>4. /\ L \in Seq(Reqs)
          /\ descq.pend_list \in Seq(Reqs) /\ descq.work_list \in Seq(Reqs)
          /\ \A k \in 1..Len(L) : L[k] \in Reqs /\ pc[L[k]] # "idle"
      BY <1>3, LineIs
    <2>5. M = Append(L, r)
      <3> DEFINE s == descq.pend_list
                 t == descq.work_list
      <3>1. s \in Seq(Reqs) /\ t \in Seq(Reqs)
        BY <2>4
      <3>2. M = s \o Append(t, r) /\ L = s \o t
        BY <2>2 DEF Line
      <3> HIDE DEF s, t, L, M
      <3> QED
        BY <3>1, <3>2, JoinAppend
    <2>6. Waiting = Queued(L, cb)
      BY <1>3, WaitingIs
    <2>7. Waiting' = Queued(M, cb')
      BY <1>3, <2>2, Zenon DEF Waiting, Queued, Line, online
    <2> HIDE DEF L, M
    <2>8. \A k \in 1..Len(L) : L[k] # r /\ cb'[L[k]].pages = cb[L[k]].pages
      BY <1>1, <2>3, <2>4
    <2>9. Waiting' = Append(Waiting, [call |-> r, pages |-> n])
      <3> DEFINE b == cb'
      <3>1. L \in Seq(Reqs) /\ SamePages(L, b, cb) /\ M = Append(L, r) /\ r \in Reqs
        BY <2>4, <2>5, <2>8 DEF SamePages
      <3> HIDE DEF b
      <3>2. OneMoreCall(Queued(M, b), Queued(L, cb), r, b[r].pages)
        BY ONLY <3>1, QueuedMore
      <3> QED
        BY <2>3, <2>6, <2>7, <3>2, Zenon DEF OneMoreCall, b
    <2>10. \A k \in 1..Len(Waiting) : Waiting[k].call # r
      BY <2>4, <2>6, <2>8, QueuedIs
    <2>11. executed[r] = 0
      BY <1>0, <1>1 DEF Answered
    <2>12. Successes' = Successes
      <3>1. r \notin Successes /\ r \notin Successes'
        BY <1>1, <2>3 DEF Unasked, Successes
      <3>2. \A q \in Reqs : q # r => (q \in Successes' <=> q \in Successes)
        BY <2>3 DEF Successes
      <3>3. Successes \subseteq Reqs /\ Successes' \subseteq Reqs
        BY DEF Successes
      <3> QED
        BY <3>1, <3>2, <3>3
    <2>13. Promise!Ask
      BY <1>1, <2>9, <2>10, <2>11, <2>12 DEF Promise!Ask
    <2> QED
      BY <2>13 DEF Promise!Next
  <1> QED
    BY <1>2, <1>3

LEMMA StartImplements ==
  ASSUME AInv, Start
  PROVE  UNCHANGED <<Waiting, executed, Successes>>
  <1>1. /\ ~online /\ descq.work_list = <<>> /\ descq.pend_list = <<>>
        /\ descq' = [Configured(descq) EXCEPT !.q_state = "online", !.cmplthp = TRUE]
        /\ UNCHANGED <<cb, executed>>
    BY DEF Start, online
  <1>2. IsDescq(descq)
    BY DEF AInv, RInv, Shape
  <1>3. descq'.work_list = <<>> /\ descq'.pend_list = <<>>
    BY <1>1, <1>2 DEF Configured, IsDescq, DescqFields
  <1>4. Waiting = <<>>
    BY <1>1 DEF Waiting, online
  <1>5. Waiting' = <<>>
    <2>1. descq'.pend_list \o descq'.work_list = <<>>
      BY <1>3
    <2> QED
      BY <2>1 DEF Waiting
  <1> QED
    BY <1>1, <1>4, <1>5 DEF Successes

LEMMA StopFinishImplements ==
  ASSUME AInv, StopFinish, expired = {}
  PROVE  Promise!Next
  <1>0. Stopping /\ IsDescq(descq) /\ IsCb(cb)
    BY DEF AInv, RInv, Shape
  <1> DEFINE left == {descq.pend_list[k] : k \in 1..Len(descq.pend_list)} \cup
                     {descq.work_list[k] : k \in 1..Len(descq.work_list)}
  <1>1. /\ ctl = "finish"
        /\ cb' = [r \in Reqs |-> IF r \in left
                                 THEN [cb[r] EXCEPT !.done = TRUE, !.status = TRUE]
                                 ELSE cb[r]]
        /\ descq' = [descq EXCEPT !.q_state = "enabled", !.q_stop_wait = FALSE]
        /\ UNCHANGED executed
    BY Zenon DEF StopFinish
  <1>2. online /\ ~online'
    BY <1>0, <1>1 DEF Stopping, online, IsDescq, DescqFields
  <1>3. Waiting' = <<>>
    BY <1>2 DEF Waiting, online
  <1>4. \A r \in left : r \in Reqs => cb[r].done = FALSE
    <2>1. /\ descq.pend_list \in Seq(Reqs) /\ descq.work_list \in Seq(Reqs)
          /\ \A k \in 1..Len(Line(descq)) : cb[Line(descq)[k]].done = FALSE
      BY <1>2, LineIs
    <2> DEFINE s == descq.pend_list
               t == descq.work_list
    <2> HIDE DEF s, t
    <2>2. s \in Seq(Reqs) /\ t \in Seq(Reqs) /\ \A k \in 1..Len(s \o t) : cb[(s \o t)[k]].done = FALSE
      BY <2>1 DEF s, t, Line
    <2>3. /\ Len(s) \in Nat /\ Len(t) \in Nat /\ Len(s \o t) = Len(s) + Len(t)
          /\ \A k \in 1..Len(s \o t) : (s \o t)[k] = IF k <= Len(s) THEN s[k] ELSE t[k - Len(s)]
      BY <2>2, Join
    <2>4. ASSUME NEW k \in 1..Len(s) PROVE cb[s[k]].done = FALSE
      <3>1. k \in 1..Len(s \o t) /\ k <= Len(s)
        BY <2>3
      <3> QED
        BY <2>2, <2>3, <3>1
    <2>5. ASSUME NEW k \in 1..Len(t) PROVE cb[t[k]].done = FALSE
      <3>1. /\ Len(s) + k \in 1..Len(s \o t) /\ ~(Len(s) + k <= Len(s))
            /\ (Len(s) + k) - Len(s) = k
        BY <2>3
      <3>2. (s \o t)[Len(s) + k] = t[k]
        BY <2>3, <3>1
      <3> QED
        BY <2>2, <3>1, <3>2
    <2> QED
      BY <2>4, <2>5 DEF s, t
  <1> HIDE DEF left
  <1>5. \A r \in Reqs : (cb'[r].done /\ ~cb'[r].status) <=> (cb[r].done /\ ~cb[r].status)
    <2>1. \A r \in Reqs : IF r \in left THEN cb'[r].done /\ cb'[r].status ELSE cb'[r] = cb[r]
      BY <1>0, <1>1 DEF IsCb, CbFields
    <2> QED
      BY <1>4, <2>1
  <1>6. Successes' = Successes
    BY <1>5 DEF Successes
  <1>7. Promise!TurnAway
    BY <1>1, <1>3, <1>6 DEF Promise!TurnAway
  <1> QED
    BY <1>7 DEF Promise!Next

LEMMA QuietStop ==
  ASSUME AInv, expired = {}, Stop \/ StopWaited \/ StopDetach \/ StopUnlist \/ StopClear
  PROVE  UNCHANGED <<Waiting, executed, Successes>>
  <1>1. /\ UNCHANGED <<cb, executed>>
        /\ \/ UNCHANGED descq
           \/ descq' = [descq EXCEPT !.q_stop_wait = TRUE]
           \/ descq' = [descq EXCEPT !.cmplthp = FALSE]
    BY DEF Stop, StopWaited, StopDetach, StopUnlist, StopClear
  <1>2. /\ descq'.pend_list = descq.pend_list /\ descq'.work_list = descq.work_list
        /\ descq'.q_state = descq.q_state
    BY <1>1 DEF AInv, RInv, Shape, IsDescq, DescqFields
  <1> QED
    BY <1>1, <1>2, QuietImplements

\* Every step is one of the queue of calls, or none, until a timer runs out.
LEMMA NextImplements ==
  ASSUME AInv, Unasked, [Next]_vars, expired' = {}
  PROVE  Promise!Next \/ UNCHANGED <<Waiting, executed, Successes>>
  <1>1. expired = {}
    BY DEF Next, vars, Submit, Call, WaitDone, WaitExpired, ProcRequest, ProcBegin, Fill, Ring,
           Wake, ThreadStep, Look, Woken, Idle, Start, Stop, StopStep, StopWaited, StopFinish,
           StopDetach, StopUnlist, StopClear, Execute, WriteBack
  <1>2. ASSUME UNCHANGED <<cb, descq, executed>>
        PROVE  UNCHANGED <<Waiting, executed, Successes>>
    BY <1>2 DEF Waiting, Successes
  <1>3. CASE UNCHANGED vars
    BY <1>2, <1>3 DEF vars
  <1>4. ASSUME NEW a \in Actors, ProcRequest(a)
        PROVE  Promise!Next \/ UNCHANGED <<Waiting, executed, Successes>>
    <2>1. Wake(a) => UNCHANGED <<cb, descq, executed>>
      BY DEF Wake
    <2> QED
      BY <1>1, <1>2, <1>4, <2>1, ProcBeginImplements, FillImplements, RingImplements
         DEF ProcRequest
  <1>5. CASE \E r \in Reqs : Submit(r) \/ Call(r) \/ WaitExpired(r)
    <2>1. \A r \in Reqs : ~WaitExpired(r)
      BY DEF WaitExpired
    <2>2. Reqs \subseteq Actors
      BY DEF Actors
    <2> QED
      BY <1>1, <1>4, <1>5, <2>1, <2>2, SubmitImplements, WaitDoneImplements DEF Call
  <1>6. CASE ThreadStep
    <2>1. Look \/ Woken \/ Idle => UNCHANGED <<cb, descq, executed>>
      BY DEF Look, Woken, Idle
    <2>2. Thread \in Actors
      BY DEF Actors
    <2> QED
      BY <1>2, <1>4, <1>6, <2>1, <2>2 DEF ThreadStep
  <1>7. CASE Start \/ Stop \/ StopStep
    BY <1>1, <1>7, StartImplements, StopFinishImplements, QuietStop DEF StopStep
  <1>8. CASE Execute \/ WriteBack
    <2>1. WriteBack => UNCHANGED <<cb, descq, executed>>
      BY DEF WriteBack
    <2> QED
      BY <1>1, <1>2, <1>8, <2>1, ExecuteImplements
  <1> QED
    BY <1>3, <1>5, <1>6, <1>7, <1>8 DEF Next

\* A call that has been made is never unmade.
LEMMA NeverIdleAgain ==
  ASSUME Shape, [Next]_vars, NEW r \in Reqs, pc'[r] = "idle"
  PROVE  pc[r] = "idle"
  <1>1. ASSUME NEW a \in Actors, ProcRequest(a) PROVE pc[r] = "idle"
    <2>1. PICK s : (Goto(a, s) /\ s \notin Out) \/ UNCHANGED pc
                   \/ pc' = [pc EXCEPT ![a] = "wait"]
      <3>1. ProcBegin(a) \/ Ring(a) => \E s : Goto(a, s) /\ s \notin Out
        BY DEF ProcBegin, Ring, After, Out, Ended
      <3>2. Fill(a) => UNCHANGED pc
        BY Zenon DEF Fill
      <3>3. Wake(a) => UNCHANGED pc \/ pc' = [pc EXCEPT ![a] = "wait"]
        BY DEF Wake
      <3> QED
        BY <1>1, <3>1, <3>2, <3>3 DEF ProcRequest
    <2> QED
      BY <2>1, GoingOn DEF Shape
  <1>2. CASE \E q \in Reqs : Submit(q) \/ Call(q) \/ WaitExpired(q)
    <2>1. PICK q \in Reqs : Submit(q) \/ Call(q) \/ WaitExpired(q)
      BY <1>2
    <2>2. CASE ProcRequest(q)
      BY <1>1, <2>2 DEF Actors
    <2>3. CASE Submit(q) \/ WaitDone(q) \/ WaitExpired(q)
      <3>1. \E s : pc' = [pc EXCEPT ![q] = s] /\ s # "idle"
        BY <2>3 DEF Submit, WaitDone, WaitExpired
      <3> QED
        BY <3>1 DEF Shape
    <2> QED
      BY <2>1, <2>2, <2>3 DEF Call
  <1>3. CASE ThreadStep
    <2>1. Look \/ Woken \/ Idle => UNCHANGED pc
      BY DEF Look, Woken, Idle
    <2> QED
      BY <1>1, <1>3, <2>1 DEF ThreadStep, Actors
  <1>4. CASE Start \/ Stop \/ StopStep \/ Execute \/ WriteBack \/ UNCHANGED vars
    BY <1>4 DEF Start, Stop, StopStep, StopWaited, StopFinish, StopDetach, StopUnlist,
                StopClear, Execute, WriteBack, vars
  <1> QED
    BY <1>2, <1>3, <1>4 DEF Next

LEMMA WaitingAreCalls ==
  ASSUME AInv, expired = {}, NEW k \in 1..Len(Waiting)
  PROVE  pc[Waiting[k].call] # "idle"
  <1>1. online
    <2>1. ~online => Len(Waiting) = 0
      BY DEF Waiting, online
    <2> QED
      BY <2>1
  <1> DEFINE L == Line(descq)
  <1>2. L \in Seq(Reqs) /\ \A j \in 1..Len(L) : pc[L[j]] # "idle"
    BY <1>1, LineIs
  <1>3. Waiting = Queued(L, cb)
    BY <1>1, WaitingIs
  <1> HIDE DEF L
  <1> QED
    BY <1>2, <1>3, QueuedIs

LEMMA NextUnasked ==
  ASSUME AInv, Unasked, [Next]_vars
  PROVE  Unasked'
  <1> SUFFICES ASSUME expired' = {}, NEW r \in Reqs, pc'[r] = "idle"
               PROVE  r \notin Successes'
    BY DEF Unasked
  <1>1. expired = {}
    BY DEF Next, vars, Submit, Call, WaitDone, WaitExpired, ProcRequest, ProcBegin, Fill, Ring,
           Wake, ThreadStep, Look, Woken, Idle, Start, Stop, StopStep, StopWaited, StopFinish,
           StopDetach, StopUnlist, StopClear, Execute, WriteBack
  <1>2. pc[r] = "idle"
    BY NeverIdleAgain DEF AInv, RInv
  <1>3. r \notin Successes
    BY <1>1, <1>2 DEF Unasked
  <1>4. CASE Promise!Answer
    <2>1. PICK n \in 1..Len(Waiting) : Successes' = Successes \cup {Waiting[k].call : k \in 1..n}
      BY <1>4 DEF Promise!Answer
    <2>2. \A k \in 1..n : k \in 1..Len(Waiting)
      <3>1. Len(Waiting) \in Nat
        <4>1. Waiting = <<>> \/ online
          BY DEF Waiting, online
        <4>2. online => Len(Waiting) \in Nat
          BY <1>1, WaitingIs, LineIs, QueuedIs
        <4> QED
          BY <4>1, <4>2
      <3> QED
        BY <3>1
    <2>3. \A k \in 1..n : Waiting[k].call # r
      BY <1>1, <1>2, <2>2, WaitingAreCalls
    <2> QED
      BY <1>3, <2>1, <2>3
  <1>5. CASE ~Promise!Answer
    <2>1. Successes' = Successes
      BY <1>1, <1>5, NextImplements
         DEF Promise!Next, Promise!Ask, Promise!Move, Promise!TurnAway
    <2> QED
      BY <1>3, <2>1
  <1> QED
    BY <1>4, <1>5

\* As long as no timer runs out, a queue serves its calls strictly in the order they
\* came, whoever fills the ring and whoever polls: with every step the work list, the
\* ring and the pending list do what one queue of calls does (CallQueue), for all
\* values of the constants (descq_mm_proc_request, descq_mm_n_h2c_cmpl_status).
THEOREM CallsServedInOrder == Spec => ServedInOrder
  <1>1. Init => AInv /\ Unasked /\ Promise!Init
    <2> SUFFICES ASSUME Init PROVE AInv /\ Unasked /\ Promise!Init
      OBVIOUS
    <2>1. AInv
      BY InitAInv
    <2>2. Waiting = <<>> /\ Successes = {} /\ executed = [r \in Reqs |-> 0]
      BY DEF Init, Waiting, Successes, NewCb
    <2> QED
      BY <2>1, <2>2 DEF Unasked, Promise!Init
  <1>2. AInv /\ Unasked /\ [Next]_vars => AInv' /\ Unasked'
    BY NextAInv, NextUnasked
  <1>3. AInv /\ Unasked /\ [Next]_vars =>
          [Promise!Next \/ expired' # {}]_<<Waiting, executed, Successes>>
    BY NextImplements
  <1> QED
    BY <1>1, <1>2, <1>3, PTL DEF Spec, ServedInOrder

(***************************************************************************)
(* Types.                                                                  *)
(***************************************************************************)
PcType == [Reqs -> {"idle", "proc", "fill", "wake", "wait"} \cup Ended]
OneCb == [pages : Nat, offset : Nat, desc_nr : Nat, done : BOOLEAN, status : BOOLEAN]
CbType == [Reqs -> OneCb]
DescqType ==
  [q_state : {"enabled", "online"}, q_stop_wait : BOOLEAN,
   pend_list_empty : BOOLEAN, avail : 0..(RngSz - 1), credit : Nat,
   pidx : Index, cidx : Index, cmplthp : BOOLEAN,
   work_list : Seq(Reqs), pend_list : Seq(Reqs)]
ThpType == [pc : {"look", "sleep", "proc", "fill", "wake"}, schedule : BOOLEAN,
            has_queue : BOOLEAN]
HwType == [on : BOOLEAN, ring : [Index -> Reqs \cup {Nobody}], pidx : Index,
           cidx : Index, status : Index]
RestTyped ==
  /\ holder \in Reqs \cup {Thread, Nobody}
  /\ wrote \in BOOLEAN
  /\ ctl \in {"idle", "pending", "finish", "detach", "unlist", "clear"}
  /\ starts \in 0..MaxStarts
  /\ executed \in [Reqs -> Nat]
  /\ expired \in SUBSET {"call", "stop"}

LEMMA TypeParts ==
  TypeOK <=> /\ pc \in PcType /\ cb \in CbType /\ descq \in DescqType
             /\ thp \in ThpType /\ hw \in HwType /\ RestTyped
  BY DEF TypeOK, PcType, CbType, OneCb, DescqType, ThpType, HwType, RestTyped

LEMMA NextTyped ==
  ASSUME pc' \in PcType, cb' \in CbType, descq' \in DescqType, thp' \in ThpType,
         hw' \in HwType, RestTyped'
  PROVE  TypeOK'
  BY DEF TypeOK, PcType, CbType, OneCb, DescqType, ThpType, HwType, RestTyped

LEMMA FreshTyped ==
  /\ FreshEngine \in HwType /\ [FreshEngine EXCEPT !.on = FALSE] \in HwType /\ 0 \in Index
  <1>1. 0 \in Index
    BY DEF Index
  <1>2. [i \in Index |-> Nobody] \in [Index -> Reqs \cup {Nobody}]
    OBVIOUS
  <1> DEFINE ring == [i \in Index |-> Nobody]
  <1> HIDE DEF ring
  <1>3. FreshEngine = [on |-> TRUE, ring |-> ring, pidx |-> 0, cidx |-> 0, status |-> 0]
    BY Zenon DEF FreshEngine, ring
  <1>4. ring \in [Index -> Reqs \cup {Nobody}]
    BY <1>2 DEF ring
  <1>5. FreshEngine \in HwType
    BY <1>1, <1>3, <1>4 DEF HwType
  <1>6. [FreshEngine EXCEPT !.on = FALSE] \in HwType
    BY <1>5 DEF HwType
  <1> QED
    BY <1>1, <1>5, <1>6

LEMMA TypedShape ==
  ASSUME NEW d \in DescqType, NEW c \in CbType
  PROVE  IsDescq(d) /\ IsCb(c)
  BY DEF DescqType, CbType, OneCb, IsDescq, IsCb, DescqFields, CbFields

\* Naturals w have sums.
Summed(O, w, n) ==
  O \in [0..n -> Nat] /\ O[0] = 0 /\ \A k \in 1..n : O[k] = O[k - 1] + w[k]

LEMMA SumsExist ==
  ASSUME NEW N \in Nat, NEW w \in [1..N -> Nat]
  PROVE  \E O : Summed(O, w, N)
  <1> DEFINE T == {n \in 0..N : ~ \E O : Summed(O, w, n)}
             R == OpToRel(<, Nat)
  <1>1. SUFFICES ASSUME T # {} PROVE FALSE
    OBVIOUS
  <1>2. T \in SUBSET Nat
    OBVIOUS
  <1>3. PICK n \in T : \A y \in T : ~ (<<y, n>> \in R)
    BY <1>1, <1>2, NatLessThanWellFounded, WFMin, Zenon
  <1>4. \A y \in T : ~ (y < n)
    BY <1>2, <1>3 DEF OpToRel
  <1>5. n # 0
    <2>1. Summed([k \in 0..0 |-> 0], w, 0)
      BY DEF Summed
    <2> QED
      BY <2>1, Zenon
  <1>6. n \in 1..N /\ n - 1 \in 0..N /\ n - 1 < n
    BY <1>5
  <1>7. PICK O : Summed(O, w, n - 1)
    BY <1>4, <1>6
  <1> DEFINE P == [k \in 0..n |-> IF k = n THEN O[n - 1] + w[n] ELSE O[k]]
  <1>8. /\ \A k \in 0..(n - 1) : P[k] = O[k] /\ O[k] \in Nat
        /\ P[n] = O[n - 1] + w[n] /\ w[n] \in Nat
    BY <1>6, <1>7 DEF Summed
  <1>9. P \in [0..n -> Nat]
    BY <1>6, <1>7, <1>8 DEF Summed
  <1> HIDE DEF P
  <1>10. P[0] = 0
    BY <1>6, <1>7, <1>8 DEF Summed
  <1>11. ASSUME NEW k \in 1..n PROVE P[k] = P[k - 1] + w[k]
    <2>1. CASE k = n
      BY <1>6, <1>8, <2>1
    <2>2. CASE k # n
      <3>1. k \in 1..(n - 1) /\ k \in 0..(n - 1) /\ k - 1 \in 0..(n - 1)
        BY <1>6, <2>2
      <3> QED
        BY <1>7, <1>8, <3>1 DEF Summed
    <2> QED
      BY <2>1, <2>2
  <1>12. Summed(P, w, n)
    BY <1>9, <1>10, <1>11 DEF Summed
  <1> QED
    BY <1>12, Zenon

\* The credit pays for n requests, and not for the next one.
LEMMA PaidForTyped ==
  ASSUME NEW d \in DescqType, NEW c \in CbType, hw.status \in Index,
         NEW n, n = PaidFor(d, c)
  PROVE  /\ n \in 0..Len(d.pend_list) /\ Credit(d) - Owed(d, c)[n] \in Nat
         /\ n < Len(d.pend_list) =>
              c[d.pend_list[n + 1]].desc_nr - (Credit(d) - Owed(d, c)[n]) \in Nat
  <1> DEFINE N == Len(d.pend_list)
             w == [k \in 1..N |-> c[d.pend_list[k]].desc_nr]
             K == Credit(d)
  <1>1. N \in Nat /\ \A k \in 1..N : d.pend_list[k] \in Reqs
    BY DEF DescqType
  <1>2. w \in [1..N -> Nat]
    BY <1>1 DEF CbType, OneCb
  <1>3. K \in Nat
    <2>1. d.credit \in Nat /\ d.cidx \in Index
      BY DEF DescqType
    <2>2. Ahead(d.cidx, hw.status) \in Nat
      BY <2>1, AheadType
    <2> QED
      BY <2>1, <2>2 DEF Credit, Completed
  <1> HIDE DEF N, K
  <1>4. PICK O : Summed(O, w, N)
    BY <1>1, <1>2, SumsExist
  <1>5. \A k \in 0..N : Owed(d, c)[k] = O[k] /\ O[k] \in Nat
    <2>1. \A k \in 1..N : c[d.pend_list[k]].desc_nr = O[k] - O[k - 1]
      <3>1. \A k \in 1..N : k \in 0..N /\ k - 1 \in 0..N /\ w[k] \in Nat
        BY <1>1, <1>2
      <3> QED
        BY <1>4, <3>1 DEF Summed
    <2>2. Misses(O, d, c)
      BY <1>1, <1>4, <2>1 DEF Summed, Misses, N
    <2>3. \A k \in 0..Len(d.pend_list) : Owed(d, c)[k] = O[k]
      BY <2>2, OwedIs
    <2> QED
      BY <1>4, <2>3 DEF Summed, N
  <1> DEFINE S == {k \in 0..N : Owed(d, c)[k] <= K}
  <1>6. 0 \in S
    BY <1>1, <1>3, <1>4, <1>5 DEF Summed
  <1>7. n = Max(S)
    BY Zenon DEF PaidFor, N, K
  <1>8. n \in S /\ \A y \in S : y <= n
    BY <1>1, <1>6, <1>7, MaxOfNats
  <1>9. n \in 0..N /\ K - Owed(d, c)[n] \in Nat
    BY <1>3, <1>5, <1>8
  <1>10. ASSUME n < N PROVE w[n + 1] - (K - Owed(d, c)[n]) \in Nat
    <2>1. n + 1 \in 0..N /\ n + 1 \in 1..N /\ (n + 1) - 1 = n /\ ~(n + 1 <= n)
      BY <1>1, <1>9, <1>10
    <2>2. ~(O[n + 1] <= K)
      BY <1>5, <1>8, <2>1
    <2>3. O[n + 1] = O[n] + w[n + 1] /\ w[n + 1] \in Nat
      BY <1>2, <1>4, <2>1 DEF Summed
    <2>4. O[n] \in Nat /\ Owed(d, c)[n] = O[n]
      BY <1>5, <1>9
    <2> HIDE DEF w, S
    <2> QED
      BY <1>3, <2>2, <2>3, <2>4
  <1>11. n < N => n + 1 \in 1..N
    BY <1>1, <1>9
  <1> QED
    BY <1>9, <1>10, <1>11 DEF N, K

LEMMA PollTyped ==
  ASSUME Shape, NEW d \in DescqType, NEW c \in CbType, QBooked(d, hw),
         NEW u, u = CmplStatus(d, c)
  PROVE  u.q \in DescqType /\ u.c \in CbType
  <1>0. IsDescq(d) /\ IsCb(c) /\ hw.status \in Index
    BY TypedShape DEF Shape
  <1>1. CASE d.pidx = d.cidx \/ hw.status = d.cidx
    <2>1. u = [q |-> d, c |-> c]
      BY <1>1, Zenon DEF CmplStatus
    <2> QED
      BY <2>1
  <1>2. CASE ~(d.pidx = d.cidx \/ hw.status = d.cidx)
    <2> DEFINE n == PaidFor(d, c)
               left == Credit(d) - Owed(d, c)[n]
               paid == {d.pend_list[k] : k \in 1..n}
               next == IF n < Len(d.pend_list) THEN {d.pend_list[n + 1]} ELSE {}
               pend == SubSeq(d.pend_list, n + 1, Len(d.pend_list))
               mark == IF n > 0 THEN d.avail + Completed(d) = Usable ELSE d.pend_list_empty
               rest == IF next = {} THEN left ELSE 0
               av   == d.avail + Completed(d)
               e    == [d EXCEPT !.cidx = hw.status, !.avail = av,
                                 !.credit = rest, !.pend_list = pend, !.pend_list_empty = mark]
               f    == [r \in Reqs |->
                          IF r \in paid THEN [c[r] EXCEPT !.done = TRUE]
                          ELSE IF r \in next THEN [c[r] EXCEPT !.desc_nr = @ - left]
                          ELSE c[r]]
    <2>1. u = Pay(d, c, n, left)
      BY <1>2, Zenon DEF CmplStatus, Spend
    <2>2. Pay(d, c, n, left) = [q |-> e, c |-> f]
      BY Zenon DEF Pay
    <2>3. u.q = e /\ u.c = f
      <3> HIDE DEF e, f
      <3> QED
        BY <2>1, <2>2
    <2>4. /\ n \in 0..Len(d.pend_list) /\ left \in Nat
          /\ n < Len(d.pend_list) => c[d.pend_list[n + 1]].desc_nr - left \in Nat
      BY <1>0, PaidForTyped
    <2>5. d.pend_list \in Seq(Reqs) /\ d.avail \in Nat /\ d.pend_list_empty \in BOOLEAN
      BY DEF DescqType
    <2> HIDE DEF n, left
    <2>6. pend \in Seq(Reqs) /\ mark \in BOOLEAN /\ rest \in Nat
      <3>1. pend \in Seq(Reqs)
        BY <2>4, <2>5
      <3>2. mark \in BOOLEAN
        BY <2>5, Zenon
      <3>3. rest \in Nat
        BY <2>4
      <3> QED
        BY <3>1, <3>2, <3>3
    <2>7. av \in 0..(RngSz - 1)
      <3>1. PolledTo(d, c, u)
        BY <1>0, PollTo
      <3>2. QBooked(u.q, hw)
        BY <3>1, PollBooks
      <3>3. u.q.avail = av
        <4> HIDE DEF mark, rest, pend, next, av, f
        <4> QED
          BY <1>0, <2>3 DEF IsDescq, DescqFields
      <3>4. /\ av \in Nat /\ u.q.cidx \in Index /\ u.q.pidx \in Index
            /\ av + Ahead(u.q.cidx, u.q.pidx) = RngSz - 1
        <4> HIDE DEF av, e
        <4> QED
          BY <3>2, <3>3 DEF QBooked, Booked
      <3>5. Ahead(u.q.cidx, u.q.pidx) \in Nat
        BY <3>4, AheadType
      <3> HIDE DEF av
      <3> QED
        BY <3>4, <3>5
    <2>8. e \in DescqType
      <3> HIDE DEF mark, rest, pend, next, av, f
      <3> QED
        BY <1>0, <2>6, <2>7 DEF DescqType
    <2>9. f \in CbType
      <3>1. ASSUME NEW r \in Reqs, r \in next PROVE c[r].desc_nr - left \in Nat
        BY <2>4, <3>1
      <3> HIDE DEF paid, next
      <3>2. ASSUME NEW r \in Reqs PROVE f[r] \in OneCb
        <4>1. c[r] \in OneCb
          BY DEF CbType
        <4>2. [c[r] EXCEPT !.done = TRUE] \in OneCb
          BY <4>1 DEF OneCb
        <4>3. r \in next => [c[r] EXCEPT !.desc_nr = @ - left] \in OneCb
          BY <3>1, <4>1 DEF OneCb
        <4> QED
          BY <4>1, <4>2, <4>3
      <3> QED
        BY <3>2 DEF CbType
    <2> QED
      BY <2>3, <2>8, <2>9
  <1> QED
    BY <1>1, <1>2

LEMMA GoingTyped ==
  ASSUME pc \in PcType, thp \in ThpType, NEW a \in Actors, NEW s, Goto(a, s),
         IF a = Thread THEN s \in {"look", "fill", "wake"} ELSE s \in {"wait", "fill", "wake"}
  PROVE  pc' \in PcType /\ thp' \in ThpType
  BY DEF PcType, ThpType, Goto, Actors, Ended

LEMMA ProcBeginTyped ==
  ASSUME AInv, TypeOK, NEW a \in Actors, ProcBegin(a)
  PROVE  TypeOK'
  <1> DEFINE u == CmplStatus(descq, cb)
  <1>0. /\ RInv /\ Shape /\ Stopping
        /\ pc \in PcType /\ cb \in CbType /\ descq \in DescqType
        /\ thp \in ThpType /\ hw \in HwType /\ RestTyped
    BY TypeParts DEF AInv, RInv
  <1>1. PICK s : /\ Goto(a, s)
                 /\ IF a = Thread THEN s \in {"look", "fill"} ELSE s \in {"wait", "fill"}
    BY DEF ProcBegin, After
  <1>2. pc' \in PcType /\ thp' \in ThpType
    BY <1>0, <1>1, GoingTyped
  <1>3. descq' \in DescqType /\ cb' \in CbType
    <2>1. CASE UNCHANGED <<descq, cb>>
      BY <1>0, <2>1
    <2>2. CASE ~UNCHANGED <<descq, cb>>
      <3>1. (descq.q_stop_wait \/ online) /\ descq' = u.q /\ cb' = u.c
        BY <2>2 DEF ProcBegin, online
      <3>2. QBooked(descq, hw)
        BY <1>0, <3>1 DEF Stopping, RInv
      <3>3. u.q \in DescqType /\ u.c \in CbType
        BY <1>0, <3>2, PollTyped
      <3> QED
        BY <3>1, <3>3
    <2> QED
      BY <2>1, <2>2
  <1>4. RestTyped' /\ UNCHANGED hw
    BY <1>0 DEF ProcBegin, RestTyped, Actors
  <1>5. hw' \in HwType
    BY <1>0, <1>4
  <1> QED
    BY <1>2, <1>3, <1>4, <1>5, NextTyped

LEMMA PolledTyped ==
  ASSUME RInv, online, descq \in DescqType, cb \in CbType
  PROVE  Polled.q \in DescqType /\ Polled.c \in CbType
  <1>0. Shape /\ QBooked(descq, hw)
    BY DEF RInv
  <1>1. CASE descq.avail = 0
    <2>1. Polled = CmplStatus(descq, cb)
      BY <1>1, Zenon DEF Polled
    <2> QED
      BY <1>0, <2>1, PollTyped
  <1>2. CASE descq.avail # 0
    <2>1. Polled = [q |-> descq, c |-> cb]
      BY <1>2, Zenon DEF Polled
    <2> QED
      BY <2>1
  <1> QED
    BY <1>1, <1>2

LEMMA FillTyped ==
  ASSUME AInv, TypeOK, NEW a \in Actors, Fill(a)
  PROVE  TypeOK'
  <1> DEFINE d == Polled.q
             c == Polled.c
             r == Head(d.work_list)
  <1>0. /\ RInv /\ Shape
        /\ pc \in PcType /\ cb \in CbType /\ descq \in DescqType
        /\ thp \in ThpType /\ hw \in HwType /\ RestTyped
    BY TypeParts DEF AInv, RInv
  <1>1. PICK n : Filled(a, n, d, c, r)
    BY <1>0, FillIs
  <1>2. d \in DescqType /\ c \in CbType
    BY <1>0, <1>1, PolledTyped DEF Filled
  <1> HIDE DEF d, c, r
  <1> DEFINE tags == [i \in Index |-> IF i \in {Forward(d.pidx, k) : k \in 0..(n - 1)}
                                      THEN r ELSE hw.ring[i]]
             pi == Forward(d.pidx, n)
             av == d.avail - n
             wl == IF c[r].offset + n = c[r].pages THEN Tail(d.work_list) ELSE d.work_list
             pl == IF c[r].offset + n = c[r].pages THEN Append(d.pend_list, r) ELSE d.pend_list
  <1>3. /\ cb' = [c EXCEPT ![r].offset = @ + n, ![r].desc_nr = @ + n]
        /\ hw' = [hw EXCEPT !.ring = tags]
        /\ descq' = [d EXCEPT !.pidx = Forward(@, n), !.avail = @ - n,
              !.work_list = IF c[r].offset + n = c[r].pages THEN Tail(@) ELSE @,
              !.pend_list = IF c[r].offset + n = c[r].pages THEN Append(@, r) ELSE @]
        /\ r \in Reqs /\ n \in 1..d.avail /\ d.work_list # <<>> /\ wrote' = TRUE
        /\ UNCHANGED <<pc, thp, holder, ctl, starts, executed, expired>>
    BY <1>1, Zenon DEF Filled
  <1>4. descq' = [d EXCEPT !.pidx = pi, !.avail = av, !.work_list = wl, !.pend_list = pl]
    BY <1>2, <1>3, TypedShape DEF DescqType
  <1>5. d.avail \in 0..(RngSz - 1) /\ d.pidx \in Index
        /\ d.work_list \in Seq(Reqs) /\ d.pend_list \in Seq(Reqs)
    BY <1>2 DEF DescqType
  <1>6. n \in 0..(RngSz - 1) /\ av \in 0..(RngSz - 1)
    BY <1>3, <1>5
  <1>7. pi \in Index
    BY <1>5, <1>6, ForwardType
  <1>8. wl \in Seq(Reqs) /\ pl \in Seq(Reqs)
    BY <1>3, <1>5
  <1>9. tags \in [Index -> Reqs \cup {Nobody}]
    BY <1>0, <1>3 DEF HwType
  <1> HIDE DEF tags, pi, av, wl, pl
  <1>10. descq' \in DescqType
    BY <1>2, <1>4, <1>6, <1>7, <1>8 DEF DescqType
  <1>11. cb' \in CbType
    <2>1. c[r] \in OneCb /\ n \in Nat
      BY <1>2, <1>3, <1>6 DEF CbType
    <2>2. [c[r] EXCEPT !.offset = @ + n, !.desc_nr = @ + n] \in OneCb
      <3> DEFINE w == c[r]
                 o == w.offset + n
                 m == w.desc_nr + n
      <3>1. w \in OneCb /\ o \in Nat /\ m \in Nat
        BY <2>1 DEF OneCb
      <3> HIDE DEF w, o, m
      <3>2. [w EXCEPT !.offset = o, !.desc_nr = m] \in OneCb
        BY <3>1 DEF OneCb
      <3>3. [w EXCEPT !.offset = @ + n, !.desc_nr = @ + n] = [w EXCEPT !.offset = o, !.desc_nr = m]
        BY <3>1 DEF o, m, OneCb
      <3> QED
        BY <3>2, <3>3 DEF w
    <2>3. cb' = [c EXCEPT ![r] = [c[r] EXCEPT !.offset = @ + n, !.desc_nr = @ + n]]
      BY <1>2, <1>3 DEF CbType, OneCb
    <2> QED
      BY <1>2, <2>2, <2>3 DEF CbType
  <1>12. hw' \in HwType
    BY <1>0, <1>3, <1>9 DEF HwType
  <1>13. pc' \in PcType /\ thp' \in ThpType /\ RestTyped'
    BY <1>0, <1>3 DEF RestTyped
  <1> QED
    BY <1>10, <1>11, <1>12, <1>13, NextTyped

LEMMA RingTyped ==
  ASSUME AInv, TypeOK, NEW a \in Actors, Ring(a)
  PROVE  TypeOK'
  <1> DEFINE u == IF descq.work_list = <<>> THEN [q |-> descq, c |-> cb] ELSE Polled
             b == Busy(u.q)
             v == CmplStatus(b, u.c)
  <1>0. /\ RInv /\ Shape /\ Held
        /\ pc \in PcType /\ cb \in CbType /\ descq \in DescqType
        /\ thp \in ThpType /\ hw \in HwType /\ RestTyped
    BY TypeParts DEF AInv, RInv
  <1>1. /\ At(a) = "fill"
        /\ \/ /\ descq' = v.q /\ cb' = v.c
              /\ hw' = [hw EXCEPT !.pidx = u.q.pidx]
              /\ Goto(a, "wake")
           \/ /\ descq' = u.q /\ cb' = u.c
              /\ UNCHANGED hw
              /\ Goto(a, After(a))
        /\ holder' = Nobody /\ wrote' = FALSE
        /\ UNCHANGED <<ctl, starts, executed, expired>>
    BY Zenon DEF Ring
  <1>2. online
    BY <1>0, <1>1 DEF Held, Actors
  <1>3. u.q \in DescqType /\ u.c \in CbType /\ QBooked(u.q, hw)
    <2>1. CASE descq.work_list = <<>>
      <3>1. u = [q |-> descq, c |-> cb]
        BY <2>1, Zenon
      <3> HIDE DEF u
      <3> QED
        BY <1>0, <1>2, <3>1 DEF RInv
    <2>2. CASE descq.work_list # <<>>
      <3>1. u = Polled
        BY <2>2, Zenon
      <3> HIDE DEF u
      <3> QED
        BY <1>0, <1>2, <3>1, PolledTyped, PolledBooks
    <2> QED
      BY <2>1, <2>2
  <1> HIDE DEF u
  <1>4. b \in DescqType /\ QBooked(b, hw)
    BY <1>3 DEF Busy, DescqType, QBooked
  <1> HIDE DEF b
  <1>5. v.q \in DescqType /\ v.c \in CbType
    BY <1>0, <1>3, <1>4, PollTyped
  <1> HIDE DEF v
  <1>6. pc' \in PcType /\ thp' \in ThpType
    <2>1. PICK s : /\ Goto(a, s)
                   /\ IF a = Thread THEN s \in {"look", "wake"} ELSE s \in {"wait", "wake"}
      BY <1>1 DEF After
    <2> QED
      BY <1>0, <2>1, GoingTyped
  <1>7. hw' \in HwType
    <2>1. u.q.pidx \in Index
      BY <1>3 DEF DescqType
    <2> QED
      BY <1>0, <1>1, <2>1 DEF HwType
  <1>8. RestTyped'
    BY <1>0, <1>1 DEF RestTyped
  <1>9. descq' \in DescqType /\ cb' \in CbType
    BY <1>1, <1>3, <1>5
  <1> QED
    BY <1>6, <1>7, <1>8, <1>9, NextTyped

LEMMA WakeTyped ==
  ASSUME TypeOK, NEW a \in Actors, Wake(a)
  PROVE  TypeOK'
  <1>0. /\ pc \in PcType /\ cb \in CbType /\ descq \in DescqType
        /\ thp \in ThpType /\ hw \in HwType /\ RestTyped
    BY TypeParts
  <1>1. Scheduled \in BOOLEAN
    BY <1>0 DEF Scheduled, ThpType, DescqType
  <1>2. pc' \in PcType /\ thp' \in ThpType
    <2>1. CASE a = Thread
      <3>1. thp' = [thp EXCEPT !.pc = "look", !.schedule = Scheduled] /\ pc' = pc
        BY <2>1 DEF Wake
      <3> QED
        BY <1>0, <1>1, <3>1 DEF ThpType
    <2>2. CASE a # Thread
      <3>1. thp' = [thp EXCEPT !.schedule = Scheduled] /\ pc' = [pc EXCEPT ![a] = "wait"]
        BY <2>2 DEF Wake
      <3>2. thp' \in ThpType
        BY <1>0, <1>1, <3>1 DEF ThpType
      <3>3. pc' \in PcType
        BY <1>0, <3>1 DEF PcType
      <3> QED
        BY <3>2, <3>3
    <2> QED
      BY <2>1, <2>2
  <1>3. UNCHANGED <<cb, descq, holder, wrote, ctl, starts, hw, executed, expired>>
    BY DEF Wake
  <1> QED
    BY <1>0, <1>2, <1>3, NextTyped DEF RestTyped

LEMMA ThreadTyped ==
  ASSUME TypeOK, Look \/ Woken \/ Idle
  PROVE  TypeOK'
  <1>0. /\ pc \in PcType /\ cb \in CbType /\ descq \in DescqType
        /\ thp \in ThpType /\ hw \in HwType /\ RestTyped
    BY TypeParts
  <1>1. thp' \in ThpType
    BY <1>0 DEF Look, Woken, Idle, ThpType
  <1>2. UNCHANGED <<pc, cb, descq, holder, wrote, ctl, starts, hw, executed, expired>>
    BY DEF Look, Woken, Idle
  <1> QED
    BY <1>0, <1>1, <1>2, NextTyped DEF RestTyped

LEMMA SubmitTyped ==
  ASSUME TypeOK, NEW r \in Reqs, Submit(r)
  PROVE  TypeOK'
  <1>0. /\ pc \in PcType /\ cb \in CbType /\ descq \in DescqType
        /\ thp \in ThpType /\ hw \in HwType /\ RestTyped
    BY TypeParts
  <1>1. pc' \in PcType
    BY <1>0 DEF Submit, PcType, Ended
  <1>2. UNCHANGED <<thp, holder, wrote, ctl, starts, hw, executed, expired>>
    BY DEF Submit
  <1>3. descq' \in DescqType
    <2>1. descq' = descq \/ descq' = [descq EXCEPT !.work_list = Append(@, r)]
      BY DEF Submit
    <2>2. Append(descq.work_list, r) \in Seq(Reqs)
      BY <1>0 DEF DescqType
    <2> QED
      BY <1>0, <2>1, <2>2 DEF DescqType
  <1>4. cb' \in CbType
    <2>1. CASE UNCHANGED cb
      BY <1>0, <2>1
    <2>2. CASE ~UNCHANGED cb
      <3>1. PICK n \in PageCounts : cb' = [cb EXCEPT ![r] = [NewCb EXCEPT !.pages = n]]
        BY <2>2 DEF Submit
      <3>2. [NewCb EXCEPT !.pages = n] \in OneCb
        BY DEF NewCb, OneCb
      <3> QED
        BY <1>0, <3>1, <3>2 DEF CbType
    <2> QED
      BY <2>1, <2>2
  <1> QED
    BY <1>0, <1>1, <1>2, <1>3, <1>4, NextTyped DEF RestTyped

\* Taking a request off a list leaves a list.
LEMMA WithoutTyped ==
  ASSUME NEW s \in Seq(Reqs), NEW r
  PROVE  Without(s, r) \in Seq(Reqs)
  <1>1. CASE \A k \in 1..Len(s) : s[k] # r
    <2>1. Without(s, r) = s
      BY <1>1, Zenon DEF Without
    <2> QED
      BY <2>1
  <1>2. CASE ~ \A k \in 1..Len(s) : s[k] # r
    <2> DEFINE i == CHOOSE k \in 1..Len(s) : s[k] = r
               v == [k \in 1..(Len(s) - 1) |-> IF k < i THEN s[k] ELSE s[k + 1]]
    <2>1. Without(s, r) = v
      BY <1>2, Zenon DEF Without
    <2>2. i \in 1..Len(s)
      BY <1>2
    <2> HIDE DEF i
    <2>3. v \in Seq(Reqs)
      BY <2>2
    <2> QED
      BY <2>1, <2>3
  <1> QED
    BY <1>1, <1>2

LEMMA WaitTyped ==
  ASSUME TypeOK, NEW r \in Reqs, WaitDone(r) \/ WaitExpired(r)
  PROVE  TypeOK'
  <1>0. /\ pc \in PcType /\ cb \in CbType /\ descq \in DescqType
        /\ thp \in ThpType /\ hw \in HwType /\ RestTyped
    BY TypeParts
  <1>1. pc' \in PcType
    BY <1>0 DEF WaitDone, WaitExpired, PcType, Ended
  <1>2. cb' \in CbType
    <2>1. NewCb \in OneCb
      BY DEF NewCb, OneCb
    <2>2. cb' = cb \/ cb' = [cb EXCEPT ![r] = NewCb]
      BY DEF WaitDone, WaitExpired
    <2> QED
      BY <1>0, <2>1, <2>2 DEF CbType
  <1>3. UNCHANGED <<thp, holder, wrote, ctl, starts, hw, executed>>
        /\ (expired' = expired \/ expired' = expired \cup {"call"})
    BY DEF WaitDone, WaitExpired
  <1>4. descq' \in DescqType
    <2>1. descq' = descq \/ descq' = [descq EXCEPT !.work_list = Without(@, r),
                                                   !.pend_list = Without(@, r)]
      BY DEF WaitDone, WaitExpired
    <2>2. Without(descq.work_list, r) \in Seq(Reqs) /\ Without(descq.pend_list, r) \in Seq(Reqs)
      BY <1>0, WithoutTyped DEF DescqType
    <2> QED
      BY <1>0, <2>1, <2>2 DEF DescqType
  <1> QED
    BY <1>0, <1>1, <1>2, <1>3, <1>4, NextTyped DEF RestTyped

LEMMA StartTyped ==
  ASSUME TypeOK, Start
  PROVE  TypeOK'
  <1>0. /\ pc \in PcType /\ cb \in CbType /\ descq \in DescqType
        /\ thp \in ThpType /\ hw \in HwType /\ RestTyped
    BY TypeParts
  <1>1. descq' \in DescqType
    <2>1. 0 \in Index /\ Usable \in 0..(RngSz - 1) /\ 0 \in Nat
      BY DEF Index, Usable
    <2>2. Configured(descq) \in DescqType
      BY <1>0, <2>1 DEF Configured, DescqType
    <2> DEFINE d == Configured(descq)
    <2>3. descq' = [d EXCEPT !.q_state = "online", !.cmplthp = TRUE]
      BY Zenon DEF Start
    <2> HIDE DEF d
    <2>4. d \in DescqType
      BY <2>2 DEF d
    <2> QED
      BY <2>3, <2>4 DEF DescqType
  <1>2. hw' \in HwType /\ thp' \in ThpType
    <2>1. hw' = FreshEngine /\ thp' = [thp EXCEPT !.has_queue = TRUE]
      BY Zenon DEF Start
    <2>2. hw' \in HwType
      BY <2>1, FreshTyped
    <2>3. thp' \in ThpType
      BY <1>0, <2>1 DEF ThpType
    <2> QED
      BY <2>2, <2>3
  <1>3. RestTyped'
    BY <1>0 DEF Start, RestTyped
  <1> QED
    BY <1>0, <1>1, <1>2, <1>3, NextTyped DEF Start

LEMMA StopTyped ==
  ASSUME TypeOK, Stop \/ StopStep
  PROVE  TypeOK'
  <1>0. /\ pc \in PcType /\ cb \in CbType /\ descq \in DescqType
        /\ thp \in ThpType /\ hw \in HwType /\ RestTyped
    BY TypeParts
  <1>1. /\ \/ UNCHANGED descq
           \/ descq' = [descq EXCEPT !.q_stop_wait = TRUE]
           \/ descq' = [descq EXCEPT !.cmplthp = FALSE]
           \/ descq' = [descq EXCEPT !.q_state = "enabled", !.q_stop_wait = FALSE]
        /\ thp' = thp \/ thp' = [thp EXCEPT !.has_queue = FALSE]
        /\ hw' = hw \/ hw' = [FreshEngine EXCEPT !.on = FALSE]
        /\ UNCHANGED <<pc, holder, wrote, starts, executed>>
        /\ ctl' \in {"idle", "pending", "finish", "detach", "unlist", "clear"}
        /\ expired' \in {expired, expired \cup {"stop"}}
    BY DEF Stop, StopStep, StopWaited, StopFinish, StopDetach, StopUnlist, StopClear
  <1>2. descq' \in DescqType
    <2>1. CASE UNCHANGED descq
      BY <2>1, <1>0
    <2>2. CASE descq' = [descq EXCEPT !.q_stop_wait = TRUE]
      BY <2>2, <1>0, Zenon DEF DescqType
    <2>3. CASE descq' = [descq EXCEPT !.cmplthp = FALSE]
      BY <2>3, <1>0, Zenon DEF DescqType
    <2>4. CASE descq' = [descq EXCEPT !.q_state = "enabled", !.q_stop_wait = FALSE]
      BY <2>4, <1>0, Zenon DEF DescqType
    <2> QED
      BY <1>1, <2>1, <2>2, <2>3, <2>4, Zenon
  <1>3. thp' \in ThpType /\ hw' \in HwType
    <2>1. thp' \in ThpType
      BY <1>0, <1>1 DEF ThpType
    <2>2. hw' \in HwType
      BY <1>0, <1>1, FreshTyped, Zenon
    <2> QED
      BY <2>1, <2>2
  <1>4. RestTyped' /\ pc' \in PcType
    BY <1>0, <1>1 DEF RestTyped
  <1>5. cb' \in CbType
    <2>1. CASE StopFinish
      <3>1. PICK left : cb' = [r \in Reqs |-> IF r \in left
                                 THEN [cb[r] EXCEPT !.done = TRUE, !.status = TRUE]
                                 ELSE cb[r]]
        BY <2>1, Zenon DEF StopFinish
      <3>2. ASSUME NEW r \in Reqs PROVE [cb[r] EXCEPT !.done = TRUE, !.status = TRUE] \in OneCb
                                        /\ cb[r] \in OneCb
        BY <1>0 DEF CbType, OneCb
      <3> QED
        BY <3>1, <3>2 DEF CbType
    <2>2. CASE ~StopFinish
      BY <1>0, <2>2 DEF Stop, StopStep, StopWaited, StopDetach, StopUnlist, StopClear
    <2> QED
      BY <2>1, <2>2
  <1> QED
    BY <1>2, <1>3, <1>4, <1>5, NextTyped

LEMMA EngineTyped ==
  ASSUME AInv, TypeOK, Execute \/ WriteBack
  PROVE  TypeOK'
  <1>0. /\ pc \in PcType /\ cb \in CbType /\ descq \in DescqType
        /\ thp \in ThpType /\ hw \in HwType /\ RestTyped
    BY TypeParts
  <1>1. executed' \in [Reqs -> Nat]
    BY <1>0, ExecuteAnswered DEF RestTyped, WriteBack, Answered
  <1>2. hw' \in HwType
    <2>1. Forward(hw.cidx, 1) \in Index
      BY <1>0, ForwardType DEF HwType
    <2>2. [hw.ring EXCEPT ![hw.cidx] = Nobody] \in [Index -> Reqs \cup {Nobody}]
      BY <1>0 DEF HwType
    <2>3. CASE Execute
      <3>1. hw' = [hw EXCEPT !.cidx = Forward(hw.cidx, 1),
                             !.ring = [hw.ring EXCEPT ![hw.cidx] = Nobody]]
        BY <1>0, <2>3 DEF Execute, HwType
      <3> QED
        BY <1>0, <2>1, <2>2, <3>1 DEF HwType
    <2>4. CASE WriteBack
      BY <1>0, <2>4 DEF WriteBack, HwType
    <2> QED
      BY <2>3, <2>4
  <1>3. UNCHANGED <<pc, cb, descq, holder, wrote, thp, ctl, starts, expired>>
    BY DEF Execute, WriteBack
  <1> QED
    BY <1>0, <1>1, <1>2, <1>3, NextTyped DEF RestTyped

LEMMA NextTypeOK ==
  ASSUME AInv, TypeOK, [Next]_vars
  PROVE  TypeOK'
  <1>1. CASE UNCHANGED vars
    BY <1>1 DEF vars, TypeOK
  <1>2. ASSUME NEW a \in Actors, ProcRequest(a) PROVE TypeOK'
    BY <1>2, ProcBeginTyped, FillTyped, RingTyped, WakeTyped DEF ProcRequest
  <1>3. CASE \E r \in Reqs : Submit(r) \/ Call(r) \/ WaitExpired(r)
    BY <1>2, <1>3, SubmitTyped, WaitTyped DEF Call, Actors
  <1>4. CASE ThreadStep
    BY <1>2, <1>4, ThreadTyped DEF ThreadStep, Actors
  <1>5. CASE Start \/ Stop \/ StopStep
    BY <1>5, StartTyped, StopTyped
  <1>6. CASE Execute \/ WriteBack
    BY <1>6, EngineTyped
  <1> QED
    BY <1>1, <1>3, <1>4, <1>5, <1>6 DEF Next

LEMMA InitTypeOK == Init => TypeOK
  <1> SUFFICES ASSUME Init PROVE TypeOK
    OBVIOUS
  <1>1. pc \in PcType /\ thp \in ThpType /\ RestTyped
    <2>1. pc \in PcType
      BY DEF Init, PcType
    <2>2. thp \in ThpType
      BY DEF Init, ThpType
    <2>3. /\ holder = Nobody /\ wrote = FALSE /\ ctl = "idle" /\ starts = 0
          /\ executed = [r \in Reqs |-> 0] /\ expired = {}
      BY Zenon DEF Init
    <2>4. RestTyped
      <3>1. [r \in Reqs |-> 0] \in [Reqs -> Nat] /\ {} \in SUBSET {"call", "stop"}
            /\ 0 \in 0..MaxStarts
        OBVIOUS
      <3>2. executed \in [Reqs -> Nat] /\ expired \in SUBSET {"call", "stop"}
            /\ starts \in 0..MaxStarts
        BY <2>3, <3>1, Zenon
      <3>3. holder \in Reqs \cup {Thread, Nobody} /\ wrote \in BOOLEAN
        BY <2>3
      <3> QED
        BY <2>3, <3>2, <3>3, Zenon DEF RestTyped
    <2> QED
      BY <2>1, <2>2, <2>4
  <1>2. cb \in CbType
    BY DEF Init, CbType, OneCb, NewCb
  <1>3. descq \in DescqType
    BY DEF Init, DescqType, Index
  <1>4. hw \in HwType
    BY FreshTyped, Zenon DEF Init
  <1> QED
    BY <1>1, <1>2, <1>3, <1>4, TypeParts

\* Every variable of the queue keeps its type for all values of the constants, late
\* completions and calls that ran out of time included: no index leaves the ring, no
\* count of descriptors and no credit ever falls below zero (descq_mm_n_h2c_cmpl_status).
THEOREM XferTyped == Spec => []TypeOK
  <1>1. Init => AInv /\ TypeOK
    BY InitAInv, InitTypeOK
  <1>2. AInv /\ TypeOK /\ [Next]_vars => AInv' /\ TypeOK'
    BY NextAInv, NextTypeOK
  <1> QED
    BY <1>1, <1>2, PTL DEF Spec

===============================================================================
