----------------------------- MODULE QdmaVf_proofs -----------------------------
(***************************************************************************)
(* Proofs about QdmaVf, for every number of virtual functions and queues:  *)
(* the books of QdmaResource, which the functions and their messages       *)
(* implement whatever is lost, and what drivers, registers and books agree *)
(* on as long as nothing is.                                               *)
(***************************************************************************)
EXTENDS QdmaVf, FiniteSetTheorems, WellFoundedInduction, TLAPS

USE FunctionsAssumption, TotalQAssumption, SizesAssumption, CountModAssumption,
    MaxExpiredAssumption

(***************************************************************************)
(* Extremal naturals.                                                      *)
(***************************************************************************)
\* A non-empty set of naturals has a least element.
LEMMA Least ==
  ASSUME NEW S \in SUBSET Nat, S # {}
  PROVE  \E x \in S : \A y \in S : x <= y
  <1> DEFINE R == OpToRel(<, Nat)
  <1>1. PICK x \in S : \A y \in S : ~ (<<y, x>> \in R)
    BY NatLessThanWellFounded, WFMin, Zenon
  <1>2. \A y \in S : ~ (y < x)
    BY <1>1 DEF OpToRel
  <1> QED
    BY <1>2

\* A bounded non-empty set of naturals has a greatest element.
LEMMA Greatest ==
  ASSUME NEW N \in Nat, NEW S \in SUBSET (0..N), S # {}
  PROVE  \E x \in S : \A y \in S : y <= x
  <1> DEFINE T == {n \in 0..N : N - n \in S}
  <1>1. PICK z \in S : TRUE
    OBVIOUS
  <1>2. N - z \in T
    BY <1>1
  <1>a. T \in SUBSET Nat
    OBVIOUS
  <1>3. T \in SUBSET Nat /\ T # {}
    BY <1>2, <1>a, Zenon
  <1>4. PICK t \in T : \A y \in T : t <= y
    <2> HIDE DEF T
    <2> QED
      BY <1>3, Least
  <1>5. N - t \in S
    OBVIOUS
  <1>6. ASSUME NEW y \in S PROVE y <= N - t
    <2>1. N - y \in T
      OBVIOUS
    <2>2. t <= N - y /\ t \in 0..N /\ y \in 0..N
      BY <2>1, <1>4
    <2> QED
      BY <2>2
  <1> QED
    BY <1>5, <1>6

(***************************************************************************)
(* Runs and lists of them.                                                 *)
(***************************************************************************)
\* A run of queues of the device, or an empty one.
Held(r) ==
  /\ r \in RM!Run
  /\ RM!End(r) <= TotalQ
  /\ r.total_q > 0 => r.qbase >= 0

\* A free list: runs that are not empty and have no queue in common.
Sound(list) ==
  /\ \A r \in list : Held(r) /\ r.total_q > 0
  /\ \A r, s \in list : r # s => RM!Queues(r) \cap RM!Queues(s) = {}

\* The queues of a run, one after another.
LEMMA QueuesOf ==
  ASSUME NEW r, r.qbase \in Int, r.total_q \in Int
  PROVE  RM!Queues(r) = r.qbase .. (r.qbase + r.total_q - 1)
  <1> DEFINE b == r.qbase
             n == r.total_q
  <1>1. RM!Queues(r) = b .. ((b + n) - 1)
    BY DEF RM!Queues, RM!End
  <1>2. b \in Int /\ n \in Int
    OBVIOUS
  <1> HIDE DEF b, n
  <1>3. (b + n) - 1 = b + n - 1
    BY <1>2
  <1>4. RM!Queues(r) = b .. (b + n - 1)
    BY <1>1, <1>3
  <1> QED
    BY <1>4 DEF b, n

\* Where a run of the device lies.
LEMMA RunBounds ==
  ASSUME NEW r, Held(r), r.total_q > 0
  PROVE  /\ r.qbase \in 0..TotalQ /\ r.total_q \in 1..TotalQ
         /\ RM!End(r) \in 1..TotalQ /\ RM!End(r) = r.qbase + r.total_q
         /\ r.qbase < RM!End(r)
         /\ r.qbase \in RM!Queues(r) /\ RM!End(r) - 1 \in RM!Queues(r)
         /\ RM!Queues(r) \subseteq 0..(TotalQ - 1)
  BY DEF Held, RM!Run, RM!End, RM!Queues

\* The queues of a list of runs of the device are queues of the device.
LEMMA CoveredBounds ==
  ASSUME NEW list, \A r \in list : Held(r) /\ r.total_q > 0
  PROVE  RM!Covered(list) \subseteq 0..(TotalQ - 1)
  BY RunBounds DEF RM!Covered

\* Stretches of covered queues lie in a merged run.
LEMMA MergedHolds ==
  ASSUME NEW list, \A r \in list : Held(r) /\ r.total_q > 0,
         NEW a \in Int, NEW b \in Int, a <= b, a..b \subseteq RM!Covered(list)
  PROVE  \E r \in RM!Merged(list) : r.qbase <= a /\ b < RM!End(r)
  <1> DEFINE C == RM!Covered(list)
  <1>1. C \subseteq 0..(TotalQ - 1)
    BY CoveredBounds
  <1>2. a \in C /\ b \in C
    OBVIOUS
  <1>3. a \in 0..(TotalQ - 1) /\ b \in 0..(TotalQ - 1)
    BY <1>1, <1>2
  <1> HIDE DEF C
  <1> DEFINE L == {x \in 0..a : x..a \subseteq C}
             H == {x \in 0..(TotalQ - 1) : b <= x /\ b..x \subseteq C}
  <1>4. a \in L
    BY <1>2, <1>3
  <1>5. b \in H
    BY <1>2, <1>3
  <1>6. PICK lo \in L : \A y \in L : lo <= y
    <2>1. L \in SUBSET Nat /\ L # {}
      BY <1>3, <1>4
    <2> HIDE DEF L
    <2> QED
      BY <2>1, Least
  <1>7. PICK hi \in H : \A y \in H : y <= hi
    <2>a. H \in SUBSET (0..(TotalQ - 1)) /\ H # {}
      BY <1>3, <1>5
    <2>b. TotalQ - 1 \in Nat
      BY <2>a
    <2>1. H \in SUBSET (0..(TotalQ - 1)) /\ H # {} /\ TotalQ - 1 \in Nat
      BY <2>a, <2>b, Zenon
    <2> HIDE DEF H
    <2> QED
      BY <2>1, Greatest
  <1>8. lo \in 0..a /\ lo..a \subseteq C
    OBVIOUS
  <1>9. hi \in 0..(TotalQ - 1) /\ b <= hi /\ b..hi \subseteq C
    OBVIOUS
  <1>10. lo..hi \subseteq C
    <2> SUFFICES ASSUME NEW x \in lo..hi PROVE x \in C
      OBVIOUS
    <2>1. CASE x <= a
      BY <2>1, <1>3, <1>8
    <2>2. CASE a < x /\ x < b
      <3>1. x \in a..b
        BY <2>2, <1>3, <1>8, <1>9
      <3> QED
        BY <3>1 DEF C
    <2>3. CASE b <= x
      BY <2>3, <1>3, <1>9
    <2> QED
      BY <2>1, <2>2, <2>3, <1>3, <1>8, <1>9
  <1>11. lo - 1 \notin C
    <2> SUFFICES ASSUME lo - 1 \in C PROVE FALSE
      OBVIOUS
    <2>1. lo - 1 \in 0..a
      BY <1>1, <1>3, <1>8
    <2>2. (lo - 1)..a \subseteq C
      BY <1>3, <1>8
    <2>3. lo - 1 \in L
      BY <2>1, <2>2
    <2>4. lo <= lo - 1
      BY <2>3, <1>6
    <2> QED
      BY <2>4, <1>8
  <1>12. hi + 1 \notin C
    <2> SUFFICES ASSUME hi + 1 \in C PROVE FALSE
      OBVIOUS
    <2>1. hi + 1 \in 0..(TotalQ - 1) /\ b <= hi + 1
      BY <1>1, <1>3, <1>9
    <2>2. b..(hi + 1) \subseteq C
      BY <1>3, <1>9
    <2>3. hi + 1 \in H
      BY <2>1, <2>2
    <2>4. hi + 1 <= hi
      BY <2>3, <1>7
    <2> QED
      BY <2>4, <1>9
  <1> DEFINE m == [qbase |-> lo, total_q |-> hi - lo + 1]
  <1>13. lo <= hi /\ lo \in 0..TotalQ /\ hi - lo + 1 \in 1..TotalQ
    BY <1>3, <1>8, <1>9
  <1>14. m \in RM!Run /\ m.total_q > 0 /\ m.qbase = lo
    BY <1>13 DEF RM!Run
  <1>15. RM!End(m) = hi + 1
    BY <1>13 DEF RM!End
  <1>16. RM!Queues(m) = lo..hi
    BY <1>13, <1>15 DEF RM!Queues
  <1>17. m \in RM!Merged(list)
    BY <1>10, <1>11, <1>12, <1>14, <1>15, <1>16 DEF RM!Merged, C
  <1>18. m.qbase <= a /\ b < RM!End(m)
    BY <1>3, <1>8, <1>9, <1>14, <1>15
  <1> QED
    BY <1>17, <1>18

\* The merging walk leaves disjoint runs with the same queues.
LEMMA MergedSound ==
  ASSUME NEW list, \A r \in list : Held(r) /\ r.total_q > 0
  PROVE  Sound(RM!Merged(list)) /\ RM!Covered(RM!Merged(list)) = RM!Covered(list)
  <1>1. RM!Covered(list) \subseteq 0..(TotalQ - 1)
    BY CoveredBounds
  <1>2. ASSUME NEW r \in RM!Merged(list) PROVE Held(r) /\ r.total_q > 0
    <2>1. r \in RM!Run /\ r.total_q > 0 /\ RM!Queues(r) \subseteq RM!Covered(list)
      BY DEF RM!Merged
    <2>2. r.qbase \in Int /\ r.total_q \in Nat /\ RM!End(r) = r.qbase + r.total_q
      BY <2>1 DEF RM!Run, RM!End
    <2>3. r.qbase \in RM!Queues(r) /\ RM!End(r) - 1 \in RM!Queues(r)
      BY <2>1, <2>2 DEF RM!Queues
    <2>4. r.qbase \in 0..(TotalQ - 1) /\ RM!End(r) - 1 \in 0..(TotalQ - 1)
      BY <1>1, <2>1, <2>3
    <2> QED
      BY <2>1, <2>2, <2>4 DEF Held
  <1>3. ASSUME NEW r \in RM!Merged(list), NEW s \in RM!Merged(list),
               NEW x \in RM!Queues(r) \cap RM!Queues(s)
        PROVE  r = s
    <2>1. /\ r \in RM!Run /\ r.total_q > 0 /\ RM!Queues(r) \subseteq RM!Covered(list)
          /\ r.qbase - 1 \notin RM!Covered(list) /\ RM!End(r) \notin RM!Covered(list)
      BY DEF RM!Merged
    <2>2. /\ s \in RM!Run /\ s.total_q > 0 /\ RM!Queues(s) \subseteq RM!Covered(list)
          /\ s.qbase - 1 \notin RM!Covered(list) /\ RM!End(s) \notin RM!Covered(list)
      BY DEF RM!Merged
    <2>3. /\ r.qbase \in Int /\ r.total_q \in Int /\ RM!End(r) = r.qbase + r.total_q
          /\ s.qbase \in Int /\ s.total_q \in Int /\ RM!End(s) = s.qbase + s.total_q
      BY <2>1, <2>2 DEF RM!Run, RM!End
    <2>4. /\ x \in r.qbase .. (RM!End(r) - 1)
          /\ x \in s.qbase .. (RM!End(s) - 1)
      BY DEF RM!Queues
    <2>5. /\ r.qbase - 1 \notin s.qbase .. (RM!End(s) - 1)
          /\ s.qbase - 1 \notin r.qbase .. (RM!End(r) - 1)
          /\ RM!End(r) \notin s.qbase .. (RM!End(s) - 1)
          /\ RM!End(s) \notin r.qbase .. (RM!End(r) - 1)
      BY <2>1, <2>2 DEF RM!Queues
    <2>6. r.qbase = s.qbase /\ RM!End(r) = RM!End(s)
      BY <2>3, <2>4, <2>5
    <2>7. r = [qbase |-> r.qbase, total_q |-> r.total_q]
      BY <2>1 DEF RM!Run
    <2>8. s = [qbase |-> s.qbase, total_q |-> s.total_q]
      BY <2>2 DEF RM!Run
    <2>9. r.total_q = s.total_q
      BY <2>3, <2>6
    <2> QED
      BY <2>6, <2>7, <2>8, <2>9
  <1>4. Sound(RM!Merged(list))
    BY <1>2, <1>3 DEF Sound
  <1>5. RM!Covered(RM!Merged(list)) \subseteq RM!Covered(list)
    BY DEF RM!Covered, RM!Merged
  <1>6. ASSUME NEW x \in RM!Covered(list) PROVE x \in RM!Covered(RM!Merged(list))
    <2>1. x \in Int /\ x <= x /\ x..x \subseteq RM!Covered(list)
      BY <1>1
    <2>2. PICK r \in RM!Merged(list) : r.qbase <= x /\ x < RM!End(r)
      BY <2>1, MergedHolds, Zenon
    <2>3. x \in RM!Queues(r)
      BY <1>2, <2>1, <2>2, RunBounds DEF RM!Queues
    <2> QED
      BY <2>3 DEF RM!Covered
  <1> QED
    BY <1>4, <1>5, <1>6

(***************************************************************************)
(* The steps of a request.                                                 *)
(***************************************************************************)
\* Giving a range back: the list and what stays of the range make up the same
\* queues, and nothing stays of it unless an allocation fails.
GoodReturn(list, range, s) ==
  /\ Sound(s.list) /\ Held(s.range)
  /\ RM!Queues(s.range) \cap RM!Covered(s.list) = {}
  /\ RM!Covered(s.list) \cup RM!Queues(s.range) = RM!Covered(list) \cup RM!Queues(range)
  /\ s.nomem \in BOOLEAN
  /\ ~ s.nomem => RM!Queues(s.range) = {}
  /\ ~ s.nomem /\ range.total_q > 0 => s.list = RM!Merged(list \cup {range})

\* Every call of qdma_submit_to_free_list does so.
LEMMA SubmitSound ==
  ASSUME NEW list, Sound(list), NEW range, Held(range),
         RM!Queues(range) \cap RM!Covered(list) = {},
         NEW s \in RM!Submit(list, range)
  PROVE  GoodReturn(list, range, s)
  <1> USE DEF GoodReturn
  <1>1. range.total_q \in Nat /\ range.qbase \in Int
    BY DEF Held, RM!Run
  <1>2. CASE range.total_q = 0
    <2>1. s = [list |-> list, range |-> range, nomem |-> FALSE]
      BY <1>2 DEF RM!Submit
    <2>2. RM!Queues(range) = {}
      BY <1>1, <1>2 DEF RM!Queues, RM!End
    <2> QED
      BY <1>2, <2>1, <2>2
  <1>3. CASE range.total_q # 0 /\ s = [list |-> list, range |-> range, nomem |-> TRUE]
    BY <1>3
  <1>4. CASE /\ range.total_q # 0
             /\ s = [list |-> RM!Merged(list \cup {range}), range |-> RM!NoRun, nomem |-> FALSE]
    <2>1. range.total_q > 0
      BY <1>1, <1>4
    <2>2. \A r \in list \cup {range} : Held(r) /\ r.total_q > 0
      BY <2>1 DEF Sound
    <2>3. Sound(s.list) /\ RM!Covered(s.list) = RM!Covered(list \cup {range})
      BY <1>4, <2>2, MergedSound
    <2>4. RM!Covered(list \cup {range}) = RM!Covered(list) \cup RM!Queues(range)
      BY DEF RM!Covered
    <2>5. Held(RM!NoRun) /\ RM!Queues(RM!NoRun) = {}
      BY DEF Held, RM!NoRun, RM!Run, RM!End, RM!Queues
    <2> QED
      BY <1>4, <2>1, <2>3, <2>4, <2>5
  <1> QED
    BY <1>2, <1>3, <1>4 DEF RM!Submit

\* The run that queues are taken from, and where in it.
LEMMA FitHolds ==
  ASSUME NEW list, Sound(list), NEW qmax \in Nat, NEW qbase \in -1..TotalQ,
         NEW r \in RM!Fit(list, qmax, qbase)
  PROVE  LET at == RM!Place(list, qmax, qbase, r) IN
           /\ r \in list
           /\ at \in Int /\ r.qbase <= at /\ at + qmax <= RM!End(r)
  <1>1. CASE qbase >= 0 /\ RM!Around(list, qmax, qbase) # {}
    <2>1. r \in RM!Around(list, qmax, qbase)
      BY <1>1 DEF RM!Fit
    <2>2. RM!Place(list, qmax, qbase, r) = qbase
      BY <1>1 DEF RM!Place
    <2> QED
      BY <2>1, <2>2 DEF RM!Around
  <1>2. CASE ~ (qbase >= 0 /\ RM!Around(list, qmax, qbase) # {})
    <2>1. r \in list /\ r.total_q >= qmax
      BY <1>2 DEF RM!Fit
    <2>2. RM!Place(list, qmax, qbase, r) = r.qbase
      BY <1>2 DEF RM!Place
    <2>3. r.qbase \in Int /\ r.total_q \in Nat /\ RM!End(r) = r.qbase + r.total_q
      BY <2>1 DEF Sound, Held, RM!Run, RM!End
    <2> QED
      BY <2>1, <2>2, <2>3
  <1> QED
    BY <1>1, <1>2

\* A list in which a run is replaced by disjoint pieces of it.
LEMMA SplitSound ==
  ASSUME NEW list, Sound(list), NEW r \in list, NEW P,
         \A p \in P : Held(p) /\ p.total_q > 0 /\ RM!Queues(p) \subseteq RM!Queues(r),
         \A p, q \in P : p # q => RM!Queues(p) \cap RM!Queues(q) = {}
  PROVE  /\ Sound((list \ {r}) \cup P)
         /\ RM!Covered((list \ {r}) \cup P) = RM!Covered(list \ {r}) \cup RM!Covered(P)
         /\ RM!Covered(list) = RM!Covered(list \ {r}) \cup RM!Queues(r)
         /\ RM!Covered(list \ {r}) \cap RM!Queues(r) = {}
  <1>1. RM!Covered(list \ {r}) \cap RM!Queues(r) = {}
    BY DEF Sound, RM!Covered
  <1>2. RM!Covered(list) = RM!Covered(list \ {r}) \cup RM!Queues(r)
    BY DEF RM!Covered
  <1>3. RM!Covered((list \ {r}) \cup P) = RM!Covered(list \ {r}) \cup RM!Covered(P)
    BY DEF RM!Covered
  <1>4. \A x \in (list \ {r}) \cup P : Held(x) /\ x.total_q > 0
    BY DEF Sound
  <1>5. ASSUME NEW x \in (list \ {r}) \cup P, NEW y \in (list \ {r}) \cup P, x # y
        PROVE  RM!Queues(x) \cap RM!Queues(y) = {}
    <2>1. CASE x \in list \ {r} /\ y \in list \ {r}
      BY <1>5, <2>1 DEF Sound
    <2>2. CASE x \in P /\ y \in P
      BY <1>5, <2>2
    <2>3. CASE x \in P /\ y \in list \ {r}
      <3>1. RM!Queues(x) \subseteq RM!Queues(r) /\ RM!Queues(r) \cap RM!Queues(y) = {}
        BY <2>3 DEF Sound
      <3> QED
        BY <3>1
    <2>4. CASE x \in list \ {r} /\ y \in P
      <3>1. RM!Queues(y) \subseteq RM!Queues(r) /\ RM!Queues(r) \cap RM!Queues(x) = {}
        BY <2>4 DEF Sound
      <3> QED
        BY <3>1
    <2> QED
      BY <1>5, <2>1, <2>2, <2>3, <2>4
  <1>6. Sound((list \ {r}) \cup P)
    BY <1>4, <1>5 DEF Sound
  <1> QED
    BY <1>1, <1>2, <1>3, <1>6

\* An interval cut twice.
LEMMA Cut ==
  ASSUME NEW b \in Int, NEW a \in Int, NEW c \in Int, NEW e \in Int,
         b <= a, a <= c, c <= e
  PROVE  /\ (b..(a - 1)) \cap (c..(e - 1)) = {}
         /\ (b..(a - 1)) \cap (a..(c - 1)) = {}
         /\ (c..(e - 1)) \cap (a..(c - 1)) = {}
         /\ (b..(a - 1)) \cup (c..(e - 1)) \cup (a..(c - 1)) = b..(e - 1)
         /\ (b..(a - 1)) \cap (a..(e - 1)) = {}
         /\ (b..(a - 1)) \cup (a..(e - 1)) = b..(e - 1)
         /\ ~ (e - c > 0) => c..(e - 1) = {}
         /\ ~ (a - b > 0) => b..(a - 1) = {}
  OBVIOUS

LEMMA IsRun ==
  ASSUME NEW i \in 0..TotalQ, NEW n \in 0..TotalQ
  PROVE  [qbase |-> i, total_q |-> n] \in RM!Run
  BY DEF RM!Run

\* Taking queues out of a list: what is got and what is left share no queue, and
\* make up what was there, whichever allocation fails.
GoodSplit(list, qmax, qbase, t) ==
  /\ Sound(t.list) /\ Held(t.got)
  /\ RM!Queues(t.got) \cap RM!Covered(t.list) = {}
  /\ RM!Covered(t.list) \cup RM!Queues(t.got) = RM!Covered(list)
  /\ t.nomem \in BOOLEAN
  /\ t.got # RM!NoRun => t.got.total_q = qmax
  /\ t.got = RM!NoRun /\ ~ t.nomem => t.list = list
  /\ qbase >= 0 /\ RM!Around(list, qmax, qbase) # {} /\ ~ t.nomem
       => t.got = [qbase |-> qbase, total_q |-> qmax]

\* Every call of qdma_get_resource_node splits the list so.
LEMMA GetNodeSound ==
  ASSUME NEW list, Sound(list), NEW qmax \in Nat, NEW qbase \in -1..TotalQ,
         NEW t \in RM!GetNode(list, qmax, qbase)
  PROVE  GoodSplit(list, qmax, qbase, t)
  <1> USE DEF GoodSplit
  <1>1. Held(RM!NoRun) /\ RM!Queues(RM!NoRun) = {}
    BY DEF Held, RM!NoRun, RM!Run, RM!End, RM!Queues
  <1>2. CASE RM!Fit(list, qmax, qbase) = {}
    <2>1. t = [list |-> list, got |-> RM!NoRun, nomem |-> FALSE]
      BY <1>2 DEF RM!GetNode
    <2>2. ASSUME qbase >= 0, RM!Around(list, qmax, qbase) # {} PROVE FALSE
      <3> DEFINE A == RM!Around(list, qmax, qbase)
                 B == {r.qbase : r \in A}
      <3>1. \A r \in A : r.qbase \in Nat
        BY RunBounds DEF RM!Around, Sound
      <3>2. B \in SUBSET Nat
        BY <3>1
      <3>3. B # {}
        BY <2>2
      <3>4. PICK m \in B : \A y \in B : m <= y
        <4> HIDE DEF B
        <4> QED
          BY <3>2, <3>3, Least
      <3>5. PICK r \in A : m = r.qbase
        OBVIOUS
      <3>6. \A x \in A : r.qbase <= x.qbase
        BY <3>4, <3>5
      <3>7. r \in RM!Fit(list, qmax, qbase)
        BY <2>2, <3>6 DEF RM!Fit
      <3> QED
        BY <1>2, <3>7
    <2> QED
      BY <1>1, <2>1, <2>2
  <1>3. CASE RM!Fit(list, qmax, qbase) # {}
    <2> DEFINE at(r)    == RM!Place(list, qmax, qbase, r)
               left(r)  == [qbase |-> r.qbase, total_q |-> at(r) - r.qbase]
               right(r) == [qbase |-> at(r) + qmax, total_q |-> RM!End(r) - at(r) - qmax]
               rest(r)  == [qbase |-> at(r), total_q |-> RM!End(r) - at(r)]
               solid(r) == {p \in {left(r), right(r)} : p.total_q > 0}
               got(r)   == [qbase |-> at(r), total_q |-> qmax]
    <2>1. PICK r \in RM!Fit(list, qmax, qbase) :
            \/ t = [list |-> (list \ {r}) \cup solid(r), got |-> got(r), nomem |-> FALSE]
            \/ t = [list |-> list, got |-> RM!NoRun, nomem |-> TRUE]
            \/ /\ solid(r) = {left(r), right(r)}
               /\ t = [list |-> (list \ {r}) \cup {left(r), rest(r)}, got |-> RM!NoRun,
                       nomem |-> TRUE]
      BY <1>3, Zenon DEF RM!GetNode
    <2>2. /\ r \in list /\ Held(r) /\ r.total_q > 0
          /\ at(r) \in Int /\ r.qbase <= at(r) /\ at(r) + qmax <= RM!End(r)
      BY FitHolds DEF Sound
    <2>3. /\ r.qbase \in 0..TotalQ /\ RM!End(r) \in 1..TotalQ /\ r.qbase < RM!End(r)
          /\ RM!Queues(r) = r.qbase .. (RM!End(r) - 1)
      BY <2>2, RunBounds DEF RM!Queues
    <2>a. qbase >= 0 /\ RM!Around(list, qmax, qbase) # {} => at(r) = qbase
      BY DEF RM!Place
    <2> DEFINE a == at(r)
               e == RM!End(r)
    <2>4. /\ RM!Queues(left(r)) = r.qbase .. (a - 1)
          /\ RM!End(left(r)) = a
      BY <2>2, <2>3 DEF RM!Queues, RM!End
    <2>5. /\ RM!Queues(right(r)) = (a + qmax) .. (e - 1)
          /\ RM!End(right(r)) = e
      BY <2>2, <2>3 DEF RM!Queues, RM!End
    <2>6. /\ RM!Queues(rest(r)) = a .. (e - 1)
          /\ RM!End(rest(r)) = e
      BY <2>2, <2>3 DEF RM!Queues, RM!End
    <2>7. /\ RM!Queues(got(r)) = a .. (a + qmax - 1)
          /\ RM!End(got(r)) = a + qmax
      BY <2>2, <2>3 DEF RM!Queues, RM!End
    <2>8. /\ a \in 0..TotalQ /\ a + qmax \in 0..TotalQ
          /\ qmax \in 0..TotalQ
          /\ a - r.qbase \in 0..TotalQ /\ e - a - qmax \in 0..TotalQ /\ e - a \in 0..TotalQ
      BY <2>2, <2>3
    <2>9. Held(left(r)) /\ Held(right(r)) /\ Held(rest(r)) /\ Held(got(r))
      <3>1. left(r) \in RM!Run /\ right(r) \in RM!Run /\ rest(r) \in RM!Run /\ got(r) \in RM!Run
        BY <2>3, <2>8, IsRun
      <3> QED
        BY <2>3, <2>4, <2>5, <2>6, <2>7, <2>8, <3>1 DEF Held
    <2> DEFINE bl == r.qbase
               c == a + qmax
    <2>b. /\ bl \in Int /\ a \in Int /\ c \in Int /\ e \in Int
          /\ bl <= a /\ a <= c /\ c <= e
      BY <2>2, <2>3
    <2>c. /\ RM!Queues(r) = bl .. (e - 1)
          /\ RM!Queues(left(r)) = bl .. (a - 1) /\ left(r).total_q = a - bl
          /\ RM!Queues(right(r)) = c .. (e - 1) /\ right(r).total_q = e - c
          /\ RM!Queues(rest(r)) = a .. (e - 1)
          /\ RM!Queues(got(r)) = a .. (c - 1)
      BY <2>3, <2>4, <2>5, <2>6, <2>7, <2>b
    <2> HIDE DEF a, e, bl, c
    <2>10. CASE t = [list |-> (list \ {r}) \cup solid(r), got |-> got(r), nomem |-> FALSE]
      <3>1. \A p \in solid(r) : Held(p) /\ p.total_q > 0
        BY <2>9
      <3>2. /\ RM!Queues(left(r)) \cap RM!Queues(right(r)) = {}
            /\ RM!Queues(left(r)) \cap RM!Queues(got(r)) = {}
            /\ RM!Queues(right(r)) \cap RM!Queues(got(r)) = {}
            /\ RM!Queues(left(r)) \cup RM!Queues(right(r)) \cup RM!Queues(got(r)) = RM!Queues(r)
        <4> DEFINE L == RM!Queues(left(r))
                   R == RM!Queues(right(r))
                   G == RM!Queues(got(r))
                   W == RM!Queues(r)
        <4>1. L = bl..(a - 1) /\ R = c..(e - 1) /\ G = a..(c - 1) /\ W = bl..(e - 1)
          BY <2>c
        <4>2. /\ (bl..(a - 1)) \cap (c..(e - 1)) = {}
              /\ (bl..(a - 1)) \cap (a..(c - 1)) = {}
              /\ (c..(e - 1)) \cap (a..(c - 1)) = {}
              /\ (bl..(a - 1)) \cup (c..(e - 1)) \cup (a..(c - 1)) = bl..(e - 1)
          BY <2>b, Cut
        <4> HIDE DEF L, R, G, W
        <4>3. L \cap R = {} /\ L \cap G = {} /\ R \cap G = {} /\ L \cup R \cup G = W
          BY <4>1, <4>2
        <4> QED
          BY <4>3 DEF L, R, G, W
      <3>3. \A p \in solid(r) : RM!Queues(p) \subseteq RM!Queues(r)
        BY <3>2
      <3>4. \A p, q \in solid(r) : p # q => RM!Queues(p) \cap RM!Queues(q) = {}
        BY <3>2
      <3>5. RM!Covered(solid(r)) = RM!Queues(left(r)) \cup RM!Queues(right(r))
        <4>1. ~ (left(r).total_q > 0) => RM!Queues(left(r)) = {}
          BY <2>b, <2>c, Cut
        <4>2. ~ (right(r).total_q > 0) => RM!Queues(right(r)) = {}
          BY <2>b, <2>c, Cut
        <4> HIDE DEF left, right
        <4> QED
          BY <4>1, <4>2 DEF RM!Covered
      <3> HIDE DEF solid, got, left, right
      <3>6. /\ Sound(t.list)
            /\ RM!Covered(t.list) = RM!Covered(list \ {r}) \cup RM!Covered(solid(r))
            /\ RM!Covered(list) = RM!Covered(list \ {r}) \cup RM!Queues(r)
            /\ RM!Covered(list \ {r}) \cap RM!Queues(r) = {}
        <4>1. t.list = (list \ {r}) \cup solid(r)
          BY <2>10
        <4>2. Sound(list) /\ r \in list
          BY <2>2
        <4>3. \A p \in solid(r) : Held(p) /\ p.total_q > 0 /\ RM!Queues(p) \subseteq RM!Queues(r)
          BY <3>1, <3>3
        <4> DEFINE P == solid(r)
        <4>4. /\ t.list = (list \ {r}) \cup P
              /\ \A p \in P : Held(p) /\ p.total_q > 0 /\ RM!Queues(p) \subseteq RM!Queues(r)
              /\ \A p, q \in P : p # q => RM!Queues(p) \cap RM!Queues(q) = {}
          BY <3>4, <4>1, <4>3
        <4> HIDE DEF P
        <4>5. /\ Sound((list \ {r}) \cup P)
              /\ RM!Covered((list \ {r}) \cup P) = RM!Covered(list \ {r}) \cup RM!Covered(P)
              /\ RM!Covered(list) = RM!Covered(list \ {r}) \cup RM!Queues(r)
              /\ RM!Covered(list \ {r}) \cap RM!Queues(r) = {}
          BY <4>2, <4>4, SplitSound
        <4> QED
          BY <4>4, <4>5 DEF P
      <3>7. t.got = got(r) /\ t.nomem = FALSE
        BY <2>10
      <3>8. RM!Queues(t.got) \cap RM!Covered(t.list) = {}
        BY <3>2, <3>5, <3>6, <3>7
      <3>9. RM!Covered(t.list) \cup RM!Queues(t.got) = RM!Covered(list)
        BY <3>2, <3>5, <3>6, <3>7
      <3>10. got(r) # RM!NoRun /\ got(r).total_q = qmax
        BY <2>8 DEF got, RM!NoRun, a
      <3>11. qbase >= 0 /\ RM!Around(list, qmax, qbase) # {}
               => got(r) = [qbase |-> qbase, total_q |-> qmax]
        BY <2>a DEF got
      <3> QED
        BY <2>9, <3>6, <3>7, <3>8, <3>9, <3>10, <3>11
    <2>11. CASE t = [list |-> list, got |-> RM!NoRun, nomem |-> TRUE]
      BY <1>1, <2>11
    <2>12. CASE /\ solid(r) = {left(r), right(r)}
                /\ t = [list |-> (list \ {r}) \cup {left(r), rest(r)}, got |-> RM!NoRun,
                        nomem |-> TRUE]
      <3>1. left(r).total_q > 0 /\ right(r).total_q > 0
        <4> HIDE DEF left, right
        <4>1. left(r) \in solid(r) /\ right(r) \in solid(r)
          BY <2>12
        <4> QED
          BY <4>1
      <3>2. rest(r).total_q > 0
        BY <2>8, <3>1 DEF a, e
      <3>3. /\ RM!Queues(left(r)) \cap RM!Queues(rest(r)) = {}
            /\ RM!Queues(left(r)) \cup RM!Queues(rest(r)) = RM!Queues(r)
        BY <2>b, <2>c, Cut
      <3> HIDE DEF left, rest, solid
      <3>4. \A p \in {left(r), rest(r)} :
              Held(p) /\ p.total_q > 0 /\ RM!Queues(p) \subseteq RM!Queues(r)
        BY <2>9, <3>1, <3>2, <3>3
      <3>5. \A p, q \in {left(r), rest(r)} : p # q => RM!Queues(p) \cap RM!Queues(q) = {}
        BY <3>3
      <3>6. RM!Covered({left(r), rest(r)}) = RM!Queues(r)
        BY <3>3 DEF RM!Covered
      <3>7. /\ Sound(t.list)
            /\ RM!Covered(t.list) = RM!Covered(list \ {r}) \cup RM!Covered({left(r), rest(r)})
            /\ RM!Covered(list) = RM!Covered(list \ {r}) \cup RM!Queues(r)
        <4> DEFINE P == {left(r), rest(r)}
        <4>1. /\ \A p \in P : Held(p) /\ p.total_q > 0 /\ RM!Queues(p) \subseteq RM!Queues(r)
              /\ \A p, q \in P : p # q => RM!Queues(p) \cap RM!Queues(q) = {}
              /\ t.list = (list \ {r}) \cup P
          BY <2>12, <3>4, <3>5
        <4>2. r \in list
          BY <2>2
        <4> HIDE DEF P
        <4>3. /\ Sound((list \ {r}) \cup P)
              /\ RM!Covered((list \ {r}) \cup P) = RM!Covered(list \ {r}) \cup RM!Covered(P)
              /\ RM!Covered(list) = RM!Covered(list \ {r}) \cup RM!Queues(r)
          BY <4>1, <4>2, SplitSound
        <4> QED
          BY <4>1, <4>3 DEF P
      <3>8. t.got = RM!NoRun /\ t.nomem = TRUE
        BY <2>12
      <3> QED
        BY <1>1, <3>6, <3>7, <3>8
    <2> HIDE DEF solid, left, right, rest, got
    <2> QED
      BY <2>1, <2>10, <2>11, <2>12
  <1> QED
    BY <1>2, <1>3

\* What a request makes of a list and a range: they still share no queue, none
\* is invented, none is lost while memory lasts, and a refused function has the
\* queues it had.
GoodOutcome(list, range, o) ==
  /\ Sound(o.list) /\ Held(o.range)
  /\ RM!Queues(o.range) \cap RM!Covered(o.list) = {}
  /\ RM!Covered(o.list) \cup RM!Queues(o.range) \subseteq RM!Covered(list) \cup RM!Queues(range)
  /\ ~ o.nomem => RM!Covered(o.list) \cup RM!Queues(o.range)
                    = RM!Covered(list) \cup RM!Queues(range)
  /\ o.nomem \in BOOLEAN
  /\ o.rv = "refused" /\ ~ o.nomem => RM!Queues(o.range) = RM!Queues(range)

\* Every request has such an outcome.
LEMMA RequestSound ==
  ASSUME NEW list, Sound(list), NEW range, Held(range),
         RM!Queues(range) \cap RM!Covered(list) = {},
         NEW qmax \in Nat, NEW qbase \in -1..TotalQ,
         NEW o \in RM!Request(list, range, qmax, qbase)
  PROVE  GoodOutcome(list, range, o)
  <1>1. PICK s \in RM!Submit(list, range) :
          \/ /\ qmax = 0
             /\ o = [list |-> s.list, range |-> s.range, nomem |-> s.nomem, rv |-> "ok"]
          \/ /\ qmax # 0
             /\ \E t \in RM!GetNode(s.list, qmax, qbase) :
                  \/ /\ t.got # RM!NoRun
                     /\ o = [list |-> t.list, range |-> t.got,
                             nomem |-> s.nomem \/ t.nomem, rv |-> "ok"]
                  \/ /\ t.got = RM!NoRun
                     /\ \E u \in RM!Restore(t.list, range) :
                          o = [list |-> u.list, range |-> u.got,
                               nomem |-> s.nomem \/ t.nomem \/ u.nomem,
                               rv |-> "refused"]
    <2> DEFINE End2(s, t) == {[list |-> u.list, range |-> u.got,
                               nomem |-> s.nomem \/ t.nomem \/ u.nomem,
                               rv |-> "refused"] : u \in RM!Restore(t.list, range)}
               End1(s, t) == {[list |-> t.list, range |-> t.got,
                               nomem |-> s.nomem \/ t.nomem, rv |-> "ok"]}
               Ends(s) == {IF t.got # RM!NoRun THEN End1(s, t) ELSE End2(s, t)
                             : t \in RM!GetNode(s.list, qmax, qbase)}
               End0(s) == {[list |-> s.list, range |-> s.range, nomem |-> s.nomem,
                            rv |-> "ok"]}
    <2>1. PICK s \in RM!Submit(list, range) :
            o \in IF qmax = 0 THEN End0(s) ELSE UNION Ends(s)
      BY Zenon DEF RM!Request
    <2>2. CASE qmax = 0
      <3>1. o \in End0(s)
        BY <2>1, <2>2, Zenon
      <3> QED
        BY <2>2, <3>1, Zenon
    <2>3. CASE qmax # 0
      <3>1. o \in UNION Ends(s)
        BY <2>1, <2>3, Zenon
      <3>2. PICK t \in RM!GetNode(s.list, qmax, qbase) :
              o \in IF t.got # RM!NoRun THEN End1(s, t) ELSE End2(s, t)
        <4> HIDE DEF End1, End2
        <4> QED
          BY <3>1, Zenon
      <3>3. CASE t.got # RM!NoRun
        <4>1. o \in End1(s, t)
          BY <3>2, <3>3, Zenon
        <4> QED
          BY <2>3, <3>3, <4>1, Zenon
      <3>4. CASE t.got = RM!NoRun
        <4>1. o \in End2(s, t)
          BY <3>2, <3>4, Zenon
        <4> QED
          BY <2>3, <3>4, <4>1, Zenon
      <3> QED
        BY <3>3, <3>4, Zenon
    <2> QED
      BY <2>2, <2>3, Zenon
  <1>2. /\ Sound(s.list) /\ Held(s.range)
        /\ RM!Queues(s.range) \cap RM!Covered(s.list) = {}
        /\ RM!Covered(s.list) \cup RM!Queues(s.range) = RM!Covered(list) \cup RM!Queues(range)
        /\ s.nomem \in BOOLEAN
        /\ ~ s.nomem => RM!Queues(s.range) = {}
        /\ ~ s.nomem /\ range.total_q > 0 => s.list = RM!Merged(list \cup {range})
    <2>1. GoodReturn(list, range, s)
      BY SubmitSound
    <2> QED
      BY <2>1 DEF GoodReturn
  <1>3. CASE /\ qmax = 0
             /\ o = [list |-> s.list, range |-> s.range, nomem |-> s.nomem, rv |-> "ok"]
    BY <1>2, <1>3 DEF GoodOutcome
  <1>4. ASSUME NEW t \in RM!GetNode(s.list, qmax, qbase),
               o = [list |-> t.list, range |-> t.got,
                    nomem |-> s.nomem \/ t.nomem, rv |-> "ok"]
        PROVE  GoodOutcome(list, range, o)
    <2>1. /\ Sound(t.list) /\ Held(t.got)
          /\ RM!Queues(t.got) \cap RM!Covered(t.list) = {}
          /\ RM!Covered(t.list) \cup RM!Queues(t.got) = RM!Covered(s.list)
          /\ t.nomem \in BOOLEAN
      <3>1. GoodSplit(s.list, qmax, qbase, t)
        BY <1>2, GetNodeSound
      <3> QED
        BY <3>1 DEF GoodSplit
    <2>2. o.list = t.list /\ o.range = t.got /\ o.rv = "ok" /\ o.nomem = (s.nomem \/ t.nomem)
      BY <1>4
    <2> QED
      BY <1>2, <2>1, <2>2 DEF GoodOutcome
  <1>5. ASSUME qmax # 0, NEW t \in RM!GetNode(s.list, qmax, qbase), t.got = RM!NoRun,
               NEW u \in RM!Restore(t.list, range),
               o = [list |-> u.list, range |-> u.got,
                    nomem |-> s.nomem \/ t.nomem \/ u.nomem, rv |-> "refused"]
        PROVE  GoodOutcome(list, range, o)
    <2>1. /\ Sound(t.list)
          /\ RM!Covered(t.list) \cup RM!Queues(t.got) = RM!Covered(s.list)
          /\ t.nomem \in BOOLEAN
          /\ ~ t.nomem => t.list = s.list
      <3>1. GoodSplit(s.list, qmax, qbase, t)
        BY <1>2, GetNodeSound
      <3> QED
        BY <1>5, <3>1 DEF GoodSplit
    <2>2. RM!Queues(t.got) = {}
      BY <1>5 DEF RM!NoRun, RM!Queues, RM!End
    <2>3. /\ u \in RM!GetNode(t.list, range.total_q, range.qbase)
          /\ range.total_q \in Nat /\ range.qbase \in -1..TotalQ
      BY <1>5 DEF RM!Restore, Held, RM!Run
    <2>4. /\ Sound(u.list) /\ Held(u.got)
          /\ RM!Queues(u.got) \cap RM!Covered(u.list) = {}
          /\ RM!Covered(u.list) \cup RM!Queues(u.got) = RM!Covered(t.list)
          /\ u.nomem \in BOOLEAN
          /\ u.got # RM!NoRun => u.got.total_q = range.total_q
          /\ range.qbase >= 0 /\ RM!Around(t.list, range.total_q, range.qbase) # {} /\ ~ u.nomem
               => u.got = [qbase |-> range.qbase, total_q |-> range.total_q]
      <3>1. GoodSplit(t.list, range.total_q, range.qbase, u)
        BY <2>1, <2>3, GetNodeSound
      <3> QED
        BY <3>1 DEF GoodSplit
    <2>5. /\ o.list = u.list /\ o.range = u.got
          /\ o.nomem = (s.nomem \/ t.nomem \/ u.nomem)
      BY <1>5
    <2>6. ASSUME ~ o.nomem PROVE RM!Queues(u.got) = RM!Queues(range)
      <3>1. ~ s.nomem /\ ~ t.nomem /\ ~ u.nomem
        BY <1>2, <2>1, <2>4, <2>5, <2>6
      <3>2. CASE range.total_q = 0
        <4>1. u.got.total_q = 0
          BY <2>4, <3>2 DEF RM!NoRun
        <4> QED
          BY <2>3, <2>4, <3>2, <4>1 DEF RM!Queues, RM!End, Held, RM!Run
      <3>3. CASE range.total_q > 0
        <4>1. t.list = RM!Merged(list \cup {range})
          BY <1>2, <2>1, <3>1, <3>3
        <4>2. \A r \in list \cup {range} : Held(r) /\ r.total_q > 0
          BY <3>3 DEF Sound
        <4>3. /\ range.qbase \in Int /\ RM!End(range) - 1 \in Int
              /\ range.qbase <= RM!End(range) - 1 /\ range.qbase >= 0
              /\ RM!End(range) = range.qbase + range.total_q
          BY <3>3, RunBounds
        <4>4. range.qbase .. (RM!End(range) - 1) \subseteq RM!Covered(list \cup {range})
          BY DEF RM!Covered, RM!Queues
        <4>5. PICK r \in RM!Merged(list \cup {range}) :
                r.qbase <= range.qbase /\ RM!End(range) - 1 < RM!End(r)
          BY <4>2, <4>3, <4>4, MergedHolds, Zenon
        <4>6. Held(r) /\ r.total_q > 0
          BY <2>1, <4>1 DEF Sound
        <4>a. RM!End(r) \in Int
          BY <4>6, RunBounds
        <4>b. range.total_q \in Int
          BY <2>3
        <4>7. range.qbase + range.total_q <= RM!End(r)
          <5> DEFINE er == RM!End(r) eg == RM!End(range)
          <5>1. /\ er \in Int /\ eg \in Int /\ eg - 1 < er
                /\ eg = range.qbase + range.total_q
            BY <4>3, <4>5, <4>a, <4>b
          <5> HIDE DEF er, eg
          <5>2. eg <= er
            BY <5>1
          <5> QED
            BY <5>1, <5>2 DEF er, eg
        <4>8. r \in RM!Around(t.list, range.total_q, range.qbase)
          BY <4>1, <4>5, <4>7 DEF RM!Around
        <4>9. u.got = [qbase |-> range.qbase, total_q |-> range.total_q]
          BY <2>4, <3>1, <4>3, <4>8
        <4>10. range = [qbase |-> range.qbase, total_q |-> range.total_q]
          BY DEF Held, RM!Run
        <4> QED
          BY <4>9, <4>10
      <3> QED
        BY <2>3, <3>2, <3>3
    <2>7. /\ RM!Covered(u.list) \cup RM!Queues(u.got) = RM!Covered(s.list)
          /\ RM!Covered(s.list) \subseteq RM!Covered(list) \cup RM!Queues(range)
          /\ ~ o.nomem => RM!Covered(s.list) = RM!Covered(list) \cup RM!Queues(range)
      BY <1>2, <2>1, <2>2, <2>4, <2>5
    <2>8. o.nomem \in BOOLEAN
      BY <1>2, <2>1, <2>4, <2>5
    <2> QED
      BY <2>4, <2>5, <2>6, <2>7, <2>8 DEF GoodOutcome
  <1> QED
    BY <1>1, <1>3, <1>4, <1>5

(***************************************************************************)
(* The books of the device.                                                *)
(***************************************************************************)
\* No two of the free runs and the functions' runs have a queue in common.
Apart(list, d) ==
  /\ Sound(list)
  /\ \A f \in Funcs : Held(d[f].range) /\ RM!Queues(d[f].range) \cap RM!Covered(list) = {}
  /\ \A f, g \in Funcs : f # g => RM!Queues(d[f].range) \cap RM!Queues(d[g].range) = {}

\* The queues that are in some hand.
Owned(list, d) == RM!Covered(list) \cup UNION {RM!Queues(d[f].range) : f \in Funcs}

\* The inductive invariant: what keeps the queues apart needs the free list to
\* be of runs of the device, and the entries that are gone to hold nothing.
BooksInv ==
  /\ RM!TypeOK
  /\ Apart(free, dev)
  /\ ~ nomem => Owned(free, dev) = 0..(TotalQ - 1)
  /\ RM!ActiveFits
  /\ \A f \in Funcs : ~ dev[f].there => dev[f] = RM!NoEntry

\* The type of an entry.
Entry == [there : BOOLEAN, range : RM!Run, active : 0..TotalQ]

\* An entry that holds nothing.
LEMMA Nothing ==
  /\ RM!NoEntry \in Entry /\ Held(RM!NoEntry.range) /\ RM!Queues(RM!NoEntry.range) = {}
  /\ RM!NoEntry.range = RM!NoRun /\ RM!NoEntry.active = 0 /\ RM!NoEntry.there = FALSE
  /\ RM!NoRun.total_q = 0
  BY DEF RM!NoEntry, Entry, Held, RM!NoRun, RM!Run, RM!End, RM!Queues

\* A list of runs of the device is a set of runs.
LEMMA SoundRuns ==
  ASSUME NEW list, Sound(list)
  PROVE  list \in SUBSET RM!Run
  BY DEF Sound, Held

\* Entry e of function f replaces the one in d and list l2 the list.
Exchanged(list, d, f, l2, e) ==
  /\ Apart(l2, [d EXCEPT ![f] = e])
  /\ RM!Covered(l2) \cup RM!Queues(e.range) = RM!Covered(list) \cup RM!Queues(d[f].range)
       => Owned(l2, [d EXCEPT ![f] = e]) = Owned(list, d)

\* A function changing its queues for others of the list leaves all apart.
LEMMA Exchange ==
  ASSUME NEW list, NEW d \in [Funcs -> Entry], Apart(list, d),
         NEW f \in Funcs, NEW l2, NEW e,
         Sound(l2), Held(e.range), RM!Queues(e.range) \cap RM!Covered(l2) = {},
         RM!Covered(l2) \cup RM!Queues(e.range)
           \subseteq RM!Covered(list) \cup RM!Queues(d[f].range)
  PROVE  Exchanged(list, d, f, l2, e)
  <1> DEFINE d2 == [d EXCEPT ![f] = e]
  <1>1. d2[f] = e /\ \A g \in Funcs \ {f} : d2[g] = d[g]
    OBVIOUS
  <1> HIDE DEF d2
  <1>2. ASSUME NEW g \in Funcs \ {f}
        PROVE  /\ Held(d[g].range)
               /\ RM!Queues(d[g].range) \cap RM!Covered(l2) = {}
               /\ RM!Queues(d[g].range) \cap RM!Queues(e.range) = {}
    <2>1. /\ Held(d[g].range) /\ RM!Queues(d[g].range) \cap RM!Covered(list) = {}
          /\ RM!Queues(d[g].range) \cap RM!Queues(d[f].range) = {}
      BY DEF Apart
    <2> QED
      BY <2>1
  <1>3. \A g \in Funcs : Held(d2[g].range) /\ RM!Queues(d2[g].range) \cap RM!Covered(l2) = {}
    BY <1>1, <1>2
  <1>4. \A g, h \in Funcs : g # h => RM!Queues(d2[g].range) \cap RM!Queues(d2[h].range) = {}
    BY <1>1, <1>2 DEF Apart
  <1>5. Apart(l2, d2)
    BY <1>3, <1>4 DEF Apart
  <1>6. Owned(list, d) = (RM!Covered(list) \cup RM!Queues(d[f].range))
                         \cup UNION {RM!Queues(d[g].range) : g \in Funcs \ {f}}
    BY DEF Owned
  <1>7. Owned(l2, d2) = (RM!Covered(l2) \cup RM!Queues(e.range))
                        \cup UNION {RM!Queues(d[g].range) : g \in Funcs \ {f}}
    <2>1. Owned(l2, d2) = (RM!Covered(l2) \cup RM!Queues(d2[f].range))
                          \cup UNION {RM!Queues(d2[g].range) : g \in Funcs \ {f}}
      BY DEF Owned
    <2>2. {RM!Queues(d2[g].range) : g \in Funcs \ {f}} = {RM!Queues(d[g].range) : g \in Funcs \ {f}}
      BY <1>1
    <2> QED
      BY <1>1, <2>1, <2>2
  <1> QED
    BY <1>5, <1>6, <1>7 DEF d2, Exchanged

\* The whole device in one hand.
LEMMA WholeApart ==
  ASSUME NEW d \in [Funcs -> Entry], \A f \in Funcs : d[f] = RM!NoEntry
  PROVE  Apart(RM!Whole, d) /\ Owned(RM!Whole, d) = 0..(TotalQ - 1)
  <1> DEFINE w == [qbase |-> 0, total_q |-> TotalQ]
  <1>1. RM!Whole = IF TotalQ > 0 THEN {w} ELSE {}
    BY DEF RM!Whole
  <1>2. RM!Queues(w) = 0..(TotalQ - 1)
    BY DEF RM!Queues, RM!End
  <1>3. Held(w)
    BY DEF Held, RM!Run, RM!End
  <1>4. Sound(RM!Whole)
    BY <1>1, <1>3 DEF Sound
  <1>5. RM!Covered(RM!Whole) = 0..(TotalQ - 1)
    <2>1. CASE TotalQ > 0
      <3>1. RM!Whole = {w}
        BY <1>1, <2>1
      <3> HIDE DEF w
      <3> QED
        BY <1>2, <3>1 DEF RM!Covered
    <2>2. CASE ~ (TotalQ > 0)
      <3>1. RM!Whole = {} /\ 0..(TotalQ - 1) = {}
        BY <1>1, <2>2
      <3> QED
        BY <3>1 DEF RM!Covered
    <2> QED
      BY <2>1, <2>2
  <1>6. \A f \in Funcs : Held(d[f].range) /\ RM!Queues(d[f].range) = {}
    BY Nothing
  <1>7. \A f \in Funcs : RM!Queues(d[f].range) \cap RM!Covered(RM!Whole) = {}
    BY <1>6
  <1>8. \A f, g \in Funcs : RM!Queues(d[f].range) \cap RM!Queues(d[g].range) = {}
    BY <1>6
  <1>9. Apart(RM!Whole, d)
    BY <1>4, <1>6, <1>7, <1>8, Zenon DEF Apart
  <1>10. UNION {RM!Queues(d[f].range) : f \in Funcs} = {}
    BY <1>6
  <1>11. Owned(RM!Whole, d) = 0..(TotalQ - 1)
    BY <1>5, <1>10, Zenon DEF Owned
  <1> QED
    BY <1>9, <1>11

\* Remainders.
LEMMA Mod ==
  ASSUME NEW n \in Int
  PROVE  n % CountMod \in 0..(CountMod - 1)
  OBVIOUS

----------------------------------------------------------------------------
\* The invariant holds at the start.
LEMMA BooksInitInv == RM!Init => BooksInv
  <1> SUFFICES ASSUME RM!Init PROVE BooksInv
    OBVIOUS
  <1>1. dev \in [Funcs -> Entry] /\ \A f \in Funcs : dev[f] = RM!NoEntry
    BY Nothing DEF RM!Init
  <1>2. Apart(free, dev) /\ Owned(free, dev) = 0..(TotalQ - 1)
    BY <1>1, WholeApart DEF RM!Init
  <1>3. free \in SUBSET RM!Run
    BY <1>2, SoundRuns DEF Apart
  <1>a. active_qcnt \in 0..(CountMod - 1)
    BY DEF RM!Init
  <1>b. nomem \in BOOLEAN
    BY Zenon DEF RM!Init
  <1>4. RM!TypeOK
    BY <1>1, <1>3, <1>a, <1>b, Zenon DEF RM!TypeOK, Entry
  <1>5. RM!ActiveFits
    BY <1>1, Nothing DEF RM!ActiveFits
  <1> QED
    BY <1>1, <1>2, <1>4, <1>5 DEF BooksInv

\* A step of one function keeps the invariant when the function's queues and
\* the free list are changed for each other.
LEMMA StepInv ==
  ASSUME BooksInv, NEW f \in Funcs, NEW e \in Entry,
         dev' = [dev EXCEPT ![f] = e],
         Sound(free'), Held(e.range), RM!Queues(e.range) \cap RM!Covered(free') = {},
         RM!Covered(free') \cup RM!Queues(e.range)
           \subseteq RM!Covered(free) \cup RM!Queues(dev[f].range),
         ~ nomem' => /\ ~ nomem
                     /\ RM!Covered(free') \cup RM!Queues(e.range)
                          = RM!Covered(free) \cup RM!Queues(dev[f].range),
         nomem' \in BOOLEAN, active_qcnt' \in 0..(CountMod - 1),
         e.active <= e.range.total_q, ~ e.there => e = RM!NoEntry
  PROVE  BooksInv'
  <1>1. dev \in [Funcs -> Entry] /\ Apart(free, dev)
    BY DEF BooksInv, RM!TypeOK, Entry
  <1>a. /\ Apart(free', [dev EXCEPT ![f] = e])
        /\ RM!Covered(free') \cup RM!Queues(e.range) = RM!Covered(free) \cup RM!Queues(dev[f].range)
             => Owned(free', [dev EXCEPT ![f] = e]) = Owned(free, dev)
    <2>1. Exchanged(free, dev, f, free', e)
      BY <1>1, Exchange
    <2> QED
      BY <2>1, Zenon DEF Exchanged
  <1>2. Apart(free', dev')
    BY <1>a
  <1>3. RM!Covered(free') \cup RM!Queues(e.range) = RM!Covered(free) \cup RM!Queues(dev[f].range)
          => Owned(free', dev') = Owned(free, dev)
    BY <1>a, Zenon
  <1>4. ~ nomem' => Owned(free', dev') = 0..(TotalQ - 1)
    BY <1>3 DEF BooksInv
  <1>5. dev' \in [Funcs -> Entry] /\ free' \in SUBSET RM!Run
    BY <1>1, <1>2, SoundRuns DEF Apart
  <1>6. dev'[f] = e /\ \A g \in Funcs \ {f} : dev'[g] = dev[g]
    BY <1>1
  <1>7. RM!ActiveFits'
    BY <1>6 DEF RM!ActiveFits, BooksInv
  <1>8. \A g \in Funcs : ~ dev'[g].there => dev'[g] = RM!NoEntry
    BY <1>6 DEF BooksInv
  <1>9. RM!TypeOK'
    BY <1>5 DEF RM!TypeOK, Entry
  <1> QED
    BY <1>2, <1>4, <1>7, <1>8, <1>9 DEF BooksInv, Apart, Owned

\* What the invariant says of one function.
LEMMA OfFunction ==
  ASSUME BooksInv, NEW f \in Funcs
  PROVE  /\ dev[f] \in Entry
         /\ Sound(free) /\ Held(dev[f].range)
         /\ RM!Queues(dev[f].range) \cap RM!Covered(free) = {}
         /\ dev[f].active <= dev[f].range.total_q
         /\ ~ dev[f].there => dev[f] = RM!NoEntry
         /\ nomem \in BOOLEAN /\ active_qcnt \in 0..(CountMod - 1)
         /\ dev \in [Funcs -> Entry]
  BY DEF BooksInv, RM!TypeOK, Apart, RM!ActiveFits, Entry

\* A request of a function: the invariant survives it.
LEMMA UpdateInv ==
  ASSUME BooksInv, NEW f \in Funcs, NEW qmax \in Nat, NEW qbase \in -1..TotalQ,
         dev[f].there, ~ RM!InUse(f),
         NEW o \in RM!Request(free, dev[f].range, qmax, qbase),
         free' = o.list, dev' = [dev EXCEPT ![f].range = o.range],
         nomem' = (nomem \/ o.nomem), UNCHANGED active_qcnt
  PROVE  BooksInv'
  <1> DEFINE e == [dev[f] EXCEPT !.range = o.range]
  <1>1. GoodOutcome(free, dev[f].range, o)
    BY OfFunction, RequestSound
  <1>2. o.range \in RM!Run
    BY <1>1 DEF GoodOutcome, Held
  <1>3. e \in Entry /\ e.range = o.range /\ e.active = dev[f].active /\ e.there = dev[f].there
    BY <1>2, OfFunction DEF Entry
  <1>4. dev' = [dev EXCEPT ![f] = e]
    BY OfFunction
  <1>5. e.active <= e.range.total_q
    <2>1. dev[f].active = 0
      BY OfFunction DEF RM!InUse, Entry
    <2> QED
      BY <1>2, <1>3, <2>1 DEF RM!Run
  <1>6. e.there
    BY <1>3
  <1> HIDE DEF e
  <1>7. nomem' \in BOOLEAN /\ active_qcnt' \in 0..(CountMod - 1)
    BY <1>1, OfFunction DEF GoodOutcome
  <1>8. ~ nomem' => ~ nomem /\ ~ o.nomem
    OBVIOUS
  <1>9. /\ Sound(free') /\ Held(e.range) /\ RM!Queues(e.range) \cap RM!Covered(free') = {}
        /\ RM!Covered(free') \cup RM!Queues(e.range)
             \subseteq RM!Covered(free) \cup RM!Queues(dev[f].range)
        /\ ~ nomem' => RM!Covered(free') \cup RM!Queues(e.range)
                         = RM!Covered(free) \cup RM!Queues(dev[f].range)
    BY <1>1, <1>3, <1>8 DEF GoodOutcome
  <1> QED
    BY <1>3, <1>4, <1>5, <1>6, <1>7, <1>8, <1>9, StepInv

\* The destruction of a function's entry: its queues go to the free list, or
\* are lost for want of a node.
LEMMA DestroyInv ==
  ASSUME BooksInv, NEW f \in Funcs, RM!DevDestroy(f)
  PROVE  BooksInv'
  <1>1. PICK s \in RM!Submit(free, dev[f].range) : free' = s.list /\ nomem' = (nomem \/ s.nomem)
    BY DEF RM!DevDestroy
  <1>2. /\ Sound(s.list) /\ Held(s.range)
        /\ RM!Covered(s.list) \cup RM!Queues(s.range)
             = RM!Covered(free) \cup RM!Queues(dev[f].range)
        /\ s.nomem \in BOOLEAN
        /\ ~ s.nomem => RM!Queues(s.range) = {}
    <2>1. GoodReturn(free, dev[f].range, s)
      BY OfFunction, SubmitSound
    <2> QED
      BY <2>1 DEF GoodReturn
  <1>3. dev' = [dev EXCEPT ![f] = RM!NoEntry] /\ active_qcnt' = active_qcnt
    BY DEF RM!DevDestroy
  <1>4. /\ RM!Covered(free') \cup RM!Queues(RM!NoEntry.range)
             \subseteq RM!Covered(free) \cup RM!Queues(dev[f].range)
        /\ ~ nomem' => /\ ~ nomem
                       /\ RM!Covered(free') \cup RM!Queues(RM!NoEntry.range)
                            = RM!Covered(free) \cup RM!Queues(dev[f].range)
    BY <1>1, <1>2, Nothing
  <1>5. nomem' \in BOOLEAN /\ active_qcnt' \in 0..(CountMod - 1)
    BY <1>1, <1>2, <1>3, OfFunction
  <1>6. RM!NoEntry.active <= RM!NoEntry.range.total_q
    BY Nothing
  <1>7. RM!Queues(RM!NoEntry.range) \cap RM!Covered(free') = {} /\ Sound(free')
    BY <1>1, <1>2, Nothing
  <1> QED
    BY <1>3, <1>4, <1>5, <1>6, <1>7, Nothing, StepInv

\* The last function of the device leaves: everything is made anew.
LEMMA CloseInv ==
  ASSUME BooksInv, NEW f \in Funcs, RM!Close(f)
  PROVE  BooksInv'
  <1>1. CASE \E g \in Funcs \ {f} : dev[g].there
    <2>1. RM!DevDestroy(f)
      BY <1>1 DEF RM!Close
    <2> QED
      BY <2>1, DestroyInv
  <1>2. CASE ~ \E g \in Funcs \ {f} : dev[g].there
    <2>1. /\ free' = RM!Whole /\ dev' = [dev EXCEPT ![f] = RM!NoEntry]
          /\ active_qcnt' = 0 /\ nomem' = nomem
      BY <1>2 DEF RM!Close
    <2>2. dev' \in [Funcs -> Entry] /\ \A g \in Funcs : dev'[g] = RM!NoEntry
      BY <1>2, <2>1, OfFunction, Nothing
    <2>3. Apart(free', dev') /\ Owned(free', dev') = 0..(TotalQ - 1)
      BY <2>1, <2>2, WholeApart, Zenon
    <2>4. free' \in SUBSET RM!Run
      BY <2>3, SoundRuns DEF Apart
    <2>5. active_qcnt' \in 0..(CountMod - 1) /\ nomem' \in BOOLEAN
      BY <2>1, OfFunction
    <2>6. RM!TypeOK'
      BY <2>2, <2>4, <2>5, Zenon DEF RM!TypeOK, Entry
    <2>7. RM!ActiveFits'
      BY <2>2, Nothing DEF RM!ActiveFits
    <2> QED
      BY <2>2, <2>3, <2>6, <2>7 DEF BooksInv, Apart, Owned
  <1> QED
    BY <1>1, <1>2

\* A step that changes no run keeps the invariant.
LEMMA CountInv ==
  ASSUME BooksInv, NEW f \in Funcs, NEW e \in Entry,
         dev' = [dev EXCEPT ![f] = e], e.range = dev[f].range,
         e.active <= e.range.total_q, e.there,
         UNCHANGED <<free, nomem>>, active_qcnt' \in 0..(CountMod - 1)
  PROVE  BooksInv'
  <1>1. /\ Sound(free') /\ Held(e.range) /\ RM!Queues(e.range) \cap RM!Covered(free') = {}
        /\ nomem' \in BOOLEAN /\ (nomem' <=> nomem)
    BY OfFunction
  <1>2. RM!Covered(free') \cup RM!Queues(e.range) = RM!Covered(free) \cup RM!Queues(dev[f].range)
    OBVIOUS
  <1> QED
    BY <1>1, <1>2, StepInv

\* Every step keeps the invariant.
LEMMA BooksNextInv == BooksInv /\ [RM!Next]_RM!vars => BooksInv'
  <1> SUFFICES ASSUME BooksInv, [RM!Next]_RM!vars PROVE BooksInv'
    OBVIOUS
  <1>1. CASE UNCHANGED RM!vars
    BY <1>1 DEF RM!vars, BooksInv, RM!TypeOK, Apart, Owned, RM!ActiveFits
  <1>2. ASSUME NEW f \in Funcs, RM!DevCreate(f) PROVE BooksInv'
    <2> DEFINE e == [RM!NoEntry EXCEPT !.there = TRUE]
    <2>1. /\ dev' = [dev EXCEPT ![f] = e] /\ UNCHANGED <<free, nomem, active_qcnt>>
          /\ dev[f] = RM!NoEntry
      BY <1>2, OfFunction DEF RM!DevCreate
    <2>2. e \in Entry /\ e.range = RM!NoRun /\ e.active = 0 /\ e.there
      BY Nothing DEF Entry, RM!NoEntry
    <2> HIDE DEF e
    <2>3. dev[f].range = RM!NoRun /\ e.active <= e.range.total_q
      BY <2>1, <2>2, Nothing
    <2>4. active_qcnt' \in 0..(CountMod - 1) /\ UNCHANGED <<free, nomem>>
      BY <2>1, OfFunction
    <2> QED
      BY <2>1, <2>2, <2>3, <2>4, CountInv
  <1>3. ASSUME NEW f \in Funcs, RM!Update(f) PROVE BooksInv'
    <2>1. PICK qmax \in Sizes, qbase \in -1..TotalQ, rv \in RM!Results :
            RM!DevUpdate(f, qmax, qbase, rv)
      BY <1>3 DEF RM!Update
    <2>2. CASE UNCHANGED RM!vars
      BY <1>1, <2>2
    <2>3. CASE ~ UNCHANGED RM!vars
      <3>1. /\ dev[f].there /\ ~ RM!InUse(f) /\ UNCHANGED active_qcnt
            /\ \E o \in RM!Request(free, dev[f].range, qmax, qbase) :
                 /\ free' = o.list
                 /\ dev' = [dev EXCEPT ![f].range = o.range]
                 /\ nomem' = (nomem \/ o.nomem)
        BY <2>1, <2>3, Zenon DEF RM!DevUpdate
      <3> QED
        BY <3>1, UpdateInv
    <2> QED
      BY <2>2, <2>3
  <1>4. ASSUME NEW f \in Funcs, RM!Increment(f) PROVE BooksInv'
    <2> DEFINE e == [dev[f] EXCEPT !.active = @ + 1]
    <2>1. /\ dev[f].there /\ dev[f].range.total_q >= dev[f].active + 1
          /\ dev' = [dev EXCEPT ![f] = e]
          /\ active_qcnt' = (active_qcnt + 1) % CountMod /\ UNCHANGED <<free, nomem>>
      BY <1>4, OfFunction DEF RM!Increment, RM!MayCount
    <2>2. dev[f].range.total_q \in 0..TotalQ /\ dev[f].active \in 0..TotalQ
      BY OfFunction DEF Entry, RM!Run
    <2>3. dev[f].active + 1 \in 0..TotalQ
      BY <2>1, <2>2
    <2>4. e \in Entry /\ e.range = dev[f].range /\ e.active = dev[f].active + 1 /\ e.there
      BY <2>1, <2>3, OfFunction DEF Entry
    <2> HIDE DEF e
    <2>5. active_qcnt' \in 0..(CountMod - 1)
      BY <2>1, OfFunction, Mod
    <2>6. e.active <= e.range.total_q
      BY <2>1, <2>2, <2>4
    <2> QED
      BY <2>1, <2>4, <2>5, <2>6, CountInv
  <1>5. ASSUME NEW f \in Funcs, RM!Decrement(f) PROVE BooksInv'
    <2> DEFINE e == [dev[f] EXCEPT !.active = RM!Fewer(@)]
    <2>1. /\ dev[f].there /\ dev' = [dev EXCEPT ![f] = e]
          /\ active_qcnt' = (active_qcnt - 1) % CountMod /\ UNCHANGED <<free, nomem>>
      BY <1>5, OfFunction DEF RM!Decrement
    <2>2. dev[f].range.total_q \in 0..TotalQ /\ dev[f].active \in 0..TotalQ
      BY OfFunction DEF Entry, RM!Run
    <2>3. RM!Fewer(dev[f].active) \in 0..TotalQ /\ RM!Fewer(dev[f].active) <= dev[f].active
      BY <2>2 DEF RM!Fewer
    <2>4. e \in Entry /\ e.range = dev[f].range /\ e.active = RM!Fewer(dev[f].active) /\ e.there
      BY <2>1, <2>3, OfFunction DEF Entry
    <2> HIDE DEF e
    <2>5. active_qcnt' \in 0..(CountMod - 1)
      BY <2>1, OfFunction, Mod
    <2>6. e.active <= e.range.total_q
      BY <2>2, <2>3, <2>4, OfFunction
    <2> QED
      BY <2>1, <2>4, <2>5, <2>6, CountInv
  <1> QED
    BY <1>1, <1>2, <1>3, <1>4, <1>5, DestroyInv, CloseInv DEF RM!Next

\* What the invariant says of the queues.
LEMMA InvPartition == BooksInv => RM!Partition
  <1> SUFFICES ASSUME BooksInv PROVE RM!Partition
    OBVIOUS
  <1>1. ASSUME NEW f \in Funcs, NEW r \in free PROVE RM!Queues(dev[f].range) \cap RM!Queues(r) = {}
    BY OfFunction DEF RM!Covered
  <1>2. RM!RangesApart
    BY <1>1 DEF RM!RangesApart, BooksInv, Apart, Sound
  <1>3. RM!NothingLost
    BY DEF RM!NothingLost, BooksInv, Owned
  <1> QED
    BY <1>2, <1>3 DEF RM!Partition, BooksInv

\* The invariant makes the restoring of a refused request succeed.
LEMMA InvRefused == BooksInv => RM!RefusedKeepsRange
  <1> SUFFICES ASSUME BooksInv PROVE RM!RefusedKeepsRange
    OBVIOUS
  <1>1. ASSUME NEW f \in Funcs, NEW qmax \in Sizes, NEW qbase \in -1..TotalQ,
               NEW o \in RM!Request(free, dev[f].range, qmax, qbase),
               o.rv = "refused", ~ o.nomem
        PROVE  RM!Queues(o.range) = RM!Queues(dev[f].range)
    <2>1. GoodOutcome(free, dev[f].range, o)
      BY OfFunction, RequestSound
    <2> QED
      BY <1>1, <2>1 DEF GoodOutcome
  <1> QED
    BY <1>1 DEF RM!RefusedKeepsRange

\* The invariant holds in every state.
THEOREM BooksInvariant == RM!Spec => []BooksInv
  BY BooksInitInv, BooksNextInv, PTL DEF RM!Spec

\* The books of qdma_resource_mgmt.c always have their types: no function has
\* more than TotalQ queues or counts more, and the device's count does not
\* leave the width of its counter.
THEOREM BooksTypeOK == RM!Spec => []RM!TypeOK
  <1>1. BooksInv => RM!TypeOK
    BY DEF BooksInv
  <1> QED
    BY <1>1, BooksInvariant, PTL

\* However the functions of a device request, return and count queues, and
\* whichever allocation fails on the way: no queue of the device is in two hands
\* (qdma_request_q_resource, qdma_submit_to_free_list), none is lost while
\* memory lasts, and no function uses more queues than it has.
THEOREM BooksPartition == RM!Spec => []RM!Partition
  BY BooksInvariant, InvPartition, PTL

\* "request cannot be accommodated. Restore the dev_entry" succeeds: a refused
\* function keeps the very queues it had, whatever the merging walk made of
\* them in between, unless an allocation fails.
THEOREM AlwaysRefusedKeepsRange == RM!Spec => []RM!RefusedKeepsRange
  BY BooksInvariant, InvRefused, PTL

(***************************************************************************)
(* Types.                                                                  *)
(***************************************************************************)
Places == {"closed", "idle", "sweep", "hello", "qreq", "fmap", "qadd", "qdel", "swept"}

Driver == [pc : Places, conf : RM!Run, init_qrange : BOOLEAN,
           queues : SUBSET (0..(TotalQ - 1)), q : 0..TotalQ, next : RM!Run,
           closing : BOOLEAN]

Answers == [op : {"HELLO", "QREQ", "FMAP", "QNOTIFY_ADD", "QNOTIFY_DEL"},
            ok : BOOLEAN, range : RM!Run]

\* The types of the drivers and of the messages between them.
Typed ==
  /\ fmap \in [Funcs -> RM!Run]
  /\ drv \in [Funcs -> Driver]
  /\ up \in [Vfs -> Seq(Messages)]
  /\ down \in [Vfs -> Seq(Answers)]
  /\ expired \in 0..MaxExpired

\* The inductive invariant: the one of the books, and the types, without which
\* a message could carry a request that QdmaResource does not know.
IInv == BooksInv /\ Typed

\* The places a driver waits in, and what it waits for.
LEMMA OpOf ==
  /\ DOMAIN Op = {"hello", "qreq", "fmap", "qadd", "qdel", "swept"}
  /\ {Op[w] : w \in DOMAIN Op} = {"HELLO", "QREQ", "FMAP", "QNOTIFY_ADD", "QNOTIFY_DEL"}
  /\ {"closed", "idle", "sweep"} \cup DOMAIN Op = Places
  BY DEF Op, Places

\* The ranges that are written down in the program's text.
LEMMA Ranges == RM!NoRun \in RM!Run /\ NoFmap \in RM!Run /\ Closed \in Driver
  BY DEF RM!NoRun, RM!Run, NoFmap, Closed, Driver, Places

\* The books' entries.
LEMMA EntryType ==
  ASSUME RM!TypeOK, NEW f \in Funcs
  PROVE  dev[f].range \in RM!Run
  BY DEF RM!TypeOK

\* Queues.
LEMMA UnusedType ==
  ASSUME Typed, NEW f \in Funcs
  PROVE  Unused(f) \in SUBSET (0..(TotalQ - 1))
  <1>1. drv[f].conf \in RM!Run
    BY DEF Typed, Driver
  <1> QED
    BY <1>1 DEF Unused, RM!Run

LEMMA MinType ==
  ASSUME NEW S \in SUBSET (0..(TotalQ - 1)), S # {}
  PROVE  Min(S) \in S
  <1>1. S \in SUBSET Nat
    OBVIOUS
  <1>2. \E x \in S : \A y \in S : x <= y
    BY <1>1, Least
  <1> QED
    BY <1>2 DEF Min

(***************************************************************************)
(* The books.                                                              *)
(***************************************************************************)
\* The message at the head of a queue.
LEMMA HeadType ==
  ASSUME Typed, NEW v \in Vfs, up[v] # <<>>
  PROVE  Head(up[v]) \in Messages
  BY DEF Typed

\* What the head of a queue carries.
LEMMA Carried ==
  ASSUME NEW m \in Messages
  PROVE  /\ m.op = "QREQ" => m.qmax \in Sizes
         /\ m.op = "FMAP" => m.range \in RM!Run
  BY DEF Messages

\* Every step is a step of the books, or leaves them alone.
LEMMA StepBooks ==
  ASSUME Typed, Step
  PROVE  RM!Next \/ UNCHANGED RM!vars
  <1>1. CASE PfOpen
    BY <1>1, Zenon DEF PfOpen, RM!Next, RM!vars, books, Funcs
  <1>2. CASE PfSetQmax
    <2>1. PICK qmax \in Sizes, rv \in RM!Results : RM!DevUpdate(Pf, qmax, -1, rv)
      BY <1>2, Zenon DEF PfSetQmax
    <2>2. RM!Update(Pf)
      BY <2>1 DEF RM!Update
    <2> QED
      BY <2>2, Zenon DEF RM!Next, Funcs
  <1>3. CASE PfAddQueue
    BY <1>3, Zenon DEF PfAddQueue, RM!Next, RM!vars, books, Funcs
  <1>4. CASE PfRemoveQueue
    BY <1>4, Zenon DEF PfRemoveQueue, RM!Next, Funcs
  <1>5. CASE PfClose
    BY <1>5, Zenon DEF PfClose, RM!vars, books
  <1>6. CASE PfClosed
    BY <1>6, Zenon DEF PfClosed, RM!Next, Funcs
  <1>7. ASSUME NEW f \in Funcs, Reinit(f) PROVE UNCHANGED RM!vars
    BY <1>7, Zenon DEF Reinit, RM!vars, books
  <1>8. ASSUME NEW v \in Vfs, PfServe(v) PROVE RM!Next \/ UNCHANGED RM!vars
    <2>1. CASE ServeHello(v)
      BY <2>1, Zenon DEF ServeHello, RM!Next, RM!vars, books, Funcs
    <2>2. CASE ServeQreq(v)
      <3>1. PICK rv \in RM!Results : RM!DevUpdate(v, Head(up[v]).qmax, -1, rv)
        BY <2>2, Zenon DEF ServeQreq
      <3>2. Head(up[v]).qmax \in Sizes
        BY <2>2, HeadType, Carried, Zenon DEF ServeQreq, Serve
      <3>a. -1 \in -1..TotalQ
        OBVIOUS
      <3>3. RM!Update(v)
        BY <3>1, <3>2, <3>a, Zenon DEF RM!Update
      <3> QED
        BY <3>3, Zenon DEF RM!Next, Funcs
    <2>3. CASE ServeFmap(v)
      BY <2>3, Zenon DEF ServeFmap, RM!vars, books
    <2>4. CASE ServeAdd(v)
      BY <2>4, Zenon DEF ServeAdd, RM!Next, RM!vars, books, Funcs
    <2>5. CASE ServeDel(v)
      BY <2>5, Zenon DEF ServeDel, RM!Next, RM!vars, books, Funcs
    <2>6. CASE ServeBye(v)
      BY <2>6, Zenon DEF ServeBye, RM!Next, RM!vars, books, Funcs
    <2> QED
      BY <1>8, <2>1, <2>2, <2>3, <2>4, <2>5, <2>6 DEF PfServe
  <1>9. ASSUME NEW v \in Vfs, VfNext(v) PROVE UNCHANGED RM!vars
    <2>1. UNCHANGED books
      BY <1>9, Zenon DEF VfNext, VfOpen, VfSetQmax, VfAddQueue, VfRemoveQueue, VfClose,
                         VfSweep, VfClosed, VfReceive, VfExpire
    <2> QED
      BY <2>1, Zenon DEF RM!vars, books
  <1> QED
    BY <1>1, <1>2, <1>3, <1>4, <1>5, <1>6, <1>7, <1>8, <1>9 DEF Step

(***************************************************************************)
(* The types are kept.                                                     *)
(***************************************************************************)
\* The types after a step of one driver, with the queues of messages as they
\* may become.
LEMMA DriverStep ==
  ASSUME Typed, NEW f \in Funcs, NEW e \in Driver, drv' = [drv EXCEPT ![f] = e]
  PROVE  drv' \in [Funcs -> Driver]
  BY DEF Typed

LEMMA SendTyped ==
  ASSUME Typed, NEW v \in Vfs, NEW m \in Messages, Send(v, m)
  PROVE  up' \in [Vfs -> Seq(Messages)]
  BY DEF Typed, Send

LEMMA AnswerTyped ==
  ASSUME Typed, NEW v \in Vfs, NEW ok \in BOOLEAN, NEW range \in RM!Run,
         Head(up[v]).op \in {"HELLO", "QREQ", "FMAP", "QNOTIFY_ADD", "QNOTIFY_DEL"},
         Answer(v, ok, range)
  PROVE  down' \in [Vfs -> Seq(Answers)]
  <1>1. [op |-> Head(up[v]).op, ok |-> ok, range |-> range] \in Answers
    BY DEF Answers
  <1> QED
    BY <1>1 DEF Typed, Answer

\* A message is served: the drivers stay, and its queue stays one of messages.
LEMMA ServeTyped ==
  ASSUME Typed, NEW v \in Vfs, NEW op, Serve(v, op)
  PROVE  /\ up' \in [Vfs -> Seq(Messages)] /\ drv' \in [Funcs -> Driver]
         /\ expired' \in 0..MaxExpired
         /\ Head(up[v]).op = op /\ Head(up[v]) \in Messages
  <1>1. up[v] \in Seq(Messages) /\ up[v] # <<>> /\ Head(up[v]).op = op
    BY DEF Typed, Serve
  <1>2. Tail(up[v]) \in Seq(Messages) /\ Head(up[v]) \in Messages
    BY <1>1
  <1>3. up' \in [Vfs -> Seq(Messages)]
    BY <1>2 DEF Typed, Serve
  <1> QED
    BY <1>1, <1>2, <1>3 DEF Typed, Serve

\* Serving a message keeps the types.
LEMMA PfServeTyped ==
  ASSUME Typed, RM!TypeOK, RM!TypeOK', NEW v \in Vfs, PfServe(v)
  PROVE  Typed'
  <1> USE Ranges
  <1>0. v \in Funcs /\ dev[v].range \in RM!Run /\ dev'[v].range \in RM!Run
    BY DEF Funcs, RM!TypeOK
  <1>1. CASE ServeHello(v)
    <2>1. /\ up' \in [Vfs -> Seq(Messages)] /\ drv' \in [Funcs -> Driver]
          /\ expired' \in 0..MaxExpired /\ Head(up[v]).op = "HELLO"
      BY <1>1, ServeTyped DEF ServeHello
    <2>2. \E ok \in BOOLEAN, range \in RM!Run : Answer(v, ok, range)
      BY <1>0, <1>1, Zenon DEF ServeHello
    <2>3. down' \in [Vfs -> Seq(Answers)]
      BY <2>1, <2>2, AnswerTyped
    <2>4. fmap' \in [Funcs -> RM!Run]
      BY <1>0, <1>1 DEF ServeHello, Typed
    <2> QED
      BY <2>1, <2>3, <2>4 DEF Typed
  <1>2. CASE ServeQreq(v)
    <2>1. /\ up' \in [Vfs -> Seq(Messages)] /\ drv' \in [Funcs -> Driver]
          /\ expired' \in 0..MaxExpired /\ Head(up[v]).op = "QREQ"
      BY <1>2, ServeTyped DEF ServeQreq
    <2>2. PICK rv \in RM!Results : /\ Answer(v, rv = "ok", dev'[v].range)
                                   /\ fmap' = IF rv = "ok" THEN Unmapped(v) ELSE fmap
      BY <1>2, Zenon DEF ServeQreq
    <2>3. (rv = "ok") \in BOOLEAN
      BY Zenon
    <2>4. down' \in [Vfs -> Seq(Answers)]
      <3>1. \E ok \in BOOLEAN, range \in RM!Run : Answer(v, ok, range)
        BY <1>0, <2>2, <2>3, Zenon
      <3> QED
        BY <2>1, <3>1, AnswerTyped
    <2>5. fmap' \in [Funcs -> RM!Run]
      BY <1>0, <2>2 DEF Unmapped, Typed
    <2> QED
      BY <2>1, <2>4, <2>5 DEF Typed
  <1>3. CASE ServeFmap(v)
    <2>1. /\ up' \in [Vfs -> Seq(Messages)] /\ drv' \in [Funcs -> Driver]
          /\ expired' \in 0..MaxExpired /\ Head(up[v]).op = "FMAP"
          /\ Head(up[v]) \in Messages
      BY <1>3, ServeTyped DEF ServeFmap
    <2>2. down' \in [Vfs -> Seq(Answers)]
      <3>1. \E ok \in BOOLEAN, range \in RM!Run : Answer(v, ok, range)
        BY <1>3, Zenon DEF ServeFmap
      <3> QED
        BY <2>1, <3>1, AnswerTyped
    <2>3. Head(up[v]).range \in RM!Run
      BY <2>1, Carried
    <2>4. fmap' \in [Funcs -> RM!Run]
      BY <1>0, <1>3, <2>3 DEF ServeFmap, Typed
    <2> QED
      BY <2>1, <2>2, <2>4 DEF Typed
  <1>4. CASE ServeAdd(v) \/ ServeDel(v)
    <2>1. /\ up' \in [Vfs -> Seq(Messages)] /\ drv' \in [Funcs -> Driver]
          /\ expired' \in 0..MaxExpired
          /\ Head(up[v]).op \in {"QNOTIFY_ADD", "QNOTIFY_DEL"}
      BY <1>4, ServeTyped DEF ServeAdd, ServeDel
    <2>2. down' \in [Vfs -> Seq(Answers)]
      <3>1. \E ok \in BOOLEAN, range \in RM!Run : Answer(v, ok, range)
        BY <1>4, Zenon DEF ServeAdd, ServeDel
      <3> QED
        BY <2>1, <3>1, AnswerTyped
    <2>3. fmap' = fmap
      BY <1>4, Zenon DEF ServeAdd, ServeDel
    <2> QED
      BY <2>1, <2>2, <2>3 DEF Typed
  <1>5. CASE ServeBye(v)
    <2>1. /\ up' \in [Vfs -> Seq(Messages)] /\ drv' \in [Funcs -> Driver]
          /\ expired' \in 0..MaxExpired
      BY <1>5, ServeTyped DEF ServeBye
    <2>2. fmap' \in [Funcs -> RM!Run] /\ down' = down
      BY <1>0, <1>5 DEF ServeBye, Typed
    <2> QED
      BY <2>1, <2>2 DEF Typed
  <1> QED
    BY <1>1, <1>2, <1>3, <1>4, <1>5 DEF PfServe

\* A driver that moves on, with another queue at work and other queues.
LEMMA Edited ==
  ASSUME NEW d \in Driver, NEW p \in Places, NEW i \in 0..TotalQ,
         NEW S \in SUBSET (0..(TotalQ - 1))
  PROVE  /\ [d EXCEPT !.pc = p, !.q = i] \in Driver
         /\ [d EXCEPT !.pc = p, !.q = i, !.queues = S] \in Driver
         /\ [d EXCEPT !.queues = S, !.q = i, !.pc = p] \in Driver
  <1> DEFINE Q == SUBSET (0..(TotalQ - 1))
             J == 0..TotalQ
  <1>1. Driver = [pc : Places, conf : RM!Run, init_qrange : BOOLEAN,
                  queues : Q, q : J, next : RM!Run, closing : BOOLEAN]
    BY DEF Driver
  <1> HIDE DEF Q, J
  <1>2. S \in Q /\ i \in J
    BY DEF Q, J
  <1> QED
    BY <1>1, <1>2

\* What a driver does at the end of a wait keeps its type, and it may send on.
LEMMA DoneTyped ==
  ASSUME Typed, NEW v \in Vfs, NEW ok \in BOOLEAN, NEW range \in RM!Run, Done(v, ok, range)
  PROVE  drv' \in [Funcs -> Driver]
  <1> USE Ranges
  <1> DEFINE d == drv[v]
  <1>1. v \in Funcs /\ d \in Driver
    BY DEF Typed, Funcs
  <1>2. /\ d.queues \in SUBSET (0..(TotalQ - 1))
        /\ d.queues \ {d.q} \in SUBSET (0..(TotalQ - 1))
    BY <1>1 DEF Driver
  <1>a. 0 \in 0..TotalQ /\ "idle" \in Places /\ "sweep" \in Places
    BY DEF Places
  <1>3. \E e \in Driver : drv' = [drv EXCEPT ![v] = e]
    <2>1. CASE /\ d.pc = "hello"
               /\ drv' = [drv EXCEPT ![v] =
                           [Closed EXCEPT !.pc = IF ok THEN "idle" ELSE "closed"]]
      <3>1. [Closed EXCEPT !.pc = IF ok THEN "idle" ELSE "closed"] \in Driver
        BY DEF Driver, Places
      <3> QED
        BY <2>1, <3>1
    <2>2. CASE /\ d.pc = "qreq"
               /\ drv' = [drv EXCEPT ![v] = IF ok THEN [d EXCEPT !.pc = "sweep", !.next = range]
                                                  ELSE [d EXCEPT !.pc = "idle"]]
      <3>1. (IF ok THEN [d EXCEPT !.pc = "sweep", !.next = range]
                   ELSE [d EXCEPT !.pc = "idle"]) \in Driver
        BY <1>1 DEF Driver, Places
      <3> QED
        BY <2>2, <3>1
    <2>3. CASE /\ d.pc = "fmap"
               /\ drv' = [drv EXCEPT ![v] =
                           IF ok THEN [d EXCEPT !.pc = "qadd", !.init_qrange = TRUE]
                                 ELSE [d EXCEPT !.pc = "idle", !.q = 0, !.queues = @ \ {d.q}]]
      <3>1. (IF ok THEN [d EXCEPT !.pc = "qadd", !.init_qrange = TRUE]
                   ELSE [d EXCEPT !.pc = "idle", !.q = 0, !.queues = @ \ {d.q}]) \in Driver
        <4>1. [d EXCEPT !.pc = "qadd", !.init_qrange = TRUE] \in Driver
          BY <1>1 DEF Driver, Places
        <4>2. [d EXCEPT !.pc = "idle", !.q = 0, !.queues = @ \ {d.q}] \in Driver
          BY <1>1, <1>2, <1>a, Edited
        <4> QED
          BY <4>1, <4>2
      <3> QED
        BY <2>3, <3>1
    <2>4. CASE d.pc = "qadd" /\ drv' = [drv EXCEPT ![v] = [d EXCEPT !.pc = "idle", !.q = 0]]
      <3>1. [d EXCEPT !.pc = "idle", !.q = 0] \in Driver
        BY <1>1, <1>2, <1>a, Edited
      <3> QED
        BY <2>4, <3>1
    <2>5. CASE /\ d.pc = "qdel"
               /\ drv' = [drv EXCEPT ![v] =
                           [d EXCEPT !.pc = "idle", !.q = 0,
                                     !.queues = IF ok THEN @ \ {d.q} ELSE @]]
      <3>1. [d EXCEPT !.pc = "idle", !.q = 0,
                      !.queues = IF ok THEN @ \ {d.q} ELSE @] \in Driver
        BY <1>1, <1>2, <1>a, Edited
      <3> QED
        BY <2>5, <3>1
    <2>6. CASE /\ d.pc = "swept"
               /\ drv' = [drv EXCEPT ![v] =
                           [d EXCEPT !.pc = "sweep", !.q = 0, !.queues = @ \ {d.q}]]
      <3>1. [d EXCEPT !.pc = "sweep", !.q = 0, !.queues = @ \ {d.q}] \in Driver
        BY <1>1, <1>2, <1>a, Edited
      <3> QED
        BY <2>6, <3>1
    <2> HIDE DEF d
    <2> QED
      BY <2>1, <2>2, <2>3, <2>4, <2>5, <2>6, Zenon DEF Done, d
  <1> QED
    BY <1>1, <1>3, DriverStep

\* The messages about a queue.
LEMMA NotifyType ==
  ASSUME Typed, NEW v \in Vfs, NEW i \in 0..TotalQ
  PROVE  AddMsg(v, i) \in Messages /\ DelMsg(v, i) \in Messages
  <1>1. drv[v].conf \in RM!Run
    BY DEF Typed, Driver, Funcs
  <1>2. Hw(v, i) \in Int
    BY <1>1 DEF Hw, RM!Run
  <1> QED
    BY <1>2 DEF AddMsg, DelMsg, Messages

\* What follows the end of a wait.
LEMMA FollowTyped ==
  ASSUME Typed, NEW v \in Vfs, NEW ok \in BOOLEAN, NEW queue \in Seq(Messages),
         Follow(v, ok, queue)
  PROVE  up' \in [Vfs -> Seq(Messages)]
  <1>1. drv[v].q \in 0..TotalQ
    BY DEF Typed, Driver, Funcs
  <1>2. AddMsg(v, drv[v].q) \in Messages
    BY <1>1, NotifyType
  <1> QED
    BY <1>2 DEF Follow, Typed

\* The steps of a virtual function keep the types.
LEMMA VfNextTyped ==
  ASSUME Typed, NEW v \in Vfs, VfNext(v)
  PROVE  Typed'
  <1> USE Ranges
  <1>0. v \in Funcs /\ drv[v] \in Driver
    BY DEF Typed, Funcs
  <1> SUFFICES /\ drv' \in [Funcs -> Driver] /\ up' \in [Vfs -> Seq(Messages)]
               /\ down' \in [Vfs -> Seq(Answers)] /\ expired' \in 0..MaxExpired
    <2>1. fmap' = fmap
      BY Zenon DEF VfNext, VfOpen, VfSetQmax, VfAddQueue, VfRemoveQueue, VfClose,
                   VfSweep, VfClosed, VfReceive, VfExpire
    <2> QED
      BY <2>1 DEF Typed
  <1>1. CASE VfOpen(v)
    <2>1. drv' = [drv EXCEPT ![v] = [drv[v] EXCEPT !.pc = "hello"]]
      BY <1>0, <1>1 DEF VfOpen, Move, Typed
    <2>2. [drv[v] EXCEPT !.pc = "hello"] \in Driver
      BY <1>0 DEF Driver, Places
    <2>3. [op |-> "HELLO"] \in Messages
      BY DEF Messages
    <2>4. drv' \in [Funcs -> Driver]
      BY <1>0, <2>1, <2>2, DriverStep
    <2>5. up' \in [Vfs -> Seq(Messages)]
      BY <1>1, <2>3, SendTyped DEF VfOpen
    <2> QED
      BY <1>1, <2>4, <2>5 DEF VfOpen, Typed
  <1>2. CASE VfSetQmax(v)
    <2>1. drv' = [drv EXCEPT ![v] = [drv[v] EXCEPT !.pc = "qreq"]]
      BY <1>0, <1>2 DEF VfSetQmax, Move, Typed
    <2>2. [drv[v] EXCEPT !.pc = "qreq"] \in Driver
      BY <1>0 DEF Driver, Places
    <2>3. \E m \in Messages : Send(v, m)
      BY <1>2 DEF VfSetQmax, Messages
    <2>4. drv' \in [Funcs -> Driver]
      BY <1>0, <2>1, <2>2, DriverStep
    <2>5. up' \in [Vfs -> Seq(Messages)]
      BY <2>3, SendTyped
    <2> QED
      BY <1>2, <2>4, <2>5 DEF VfSetQmax, Typed
  <1>3. CASE VfAddQueue(v)
    <2> DEFINE e(i) == [drv[v] EXCEPT !.queues = @ \cup {i}, !.q = i,
                                      !.pc = IF drv[v].init_qrange THEN "qadd" ELSE "fmap"]
    <2>1. PICK i \in Unused(v) :
            /\ drv' = [drv EXCEPT ![v].queues = @ \cup {i}, ![v].q = i,
                                  ![v].pc = IF drv[v].init_qrange THEN "qadd" ELSE "fmap"]
            /\ Send(v, IF drv[v].init_qrange
                       THEN AddMsg(v, i)
                       ELSE [op |-> "FMAP", range |-> drv[v].conf])
      BY <1>3, Zenon DEF VfAddQueue
    <2>2. i \in 0..(TotalQ - 1)
      BY <1>0, UnusedType
    <2>3. e(i) \in Driver
      <3>1. drv[v].queues \cup {i} \in SUBSET (0..(TotalQ - 1)) /\ i \in 0..TotalQ
        BY <1>0, <2>2 DEF Driver
      <3>2. (IF drv[v].init_qrange THEN "qadd" ELSE "fmap") \in Places
        BY DEF Places
      <3> QED
        BY <1>0, <3>1, <3>2, Edited
    <2>4. drv' = [drv EXCEPT ![v] = e(i)]
      BY <1>0, <2>1 DEF Typed
    <2>5. drv' \in [Funcs -> Driver]
      BY <1>0, <2>3, <2>4, DriverStep
    <2>6. AddMsg(v, i) \in Messages
      BY <2>2, NotifyType
    <2>7. [op |-> "FMAP", range |-> drv[v].conf] \in Messages
      BY <1>0 DEF Messages, Driver
    <2>8. up' \in [Vfs -> Seq(Messages)]
      BY <2>1, <2>6, <2>7, SendTyped
    <2> QED
      BY <1>3, <2>5, <2>8 DEF VfAddQueue, Typed
  <1>4. CASE VfRemoveQueue(v)
    <2>1. PICK i \in drv[v].queues :
            /\ drv' = [drv EXCEPT ![v].pc = "qdel", ![v].q = i]
            /\ Send(v, DelMsg(v, i))
      BY <1>4, Zenon DEF VfRemoveQueue
    <2>2. i \in 0..TotalQ
      BY <1>0 DEF Driver
    <2>3. [drv[v] EXCEPT !.pc = "qdel", !.q = i] \in Driver
      BY <1>0, <2>2 DEF Driver, Places
    <2>4. drv' = [drv EXCEPT ![v] = [drv[v] EXCEPT !.pc = "qdel", !.q = i]]
      BY <1>0, <2>1 DEF Typed
    <2>5. drv' \in [Funcs -> Driver]
      BY <1>0, <2>3, <2>4, DriverStep
    <2>6. up' \in [Vfs -> Seq(Messages)]
      BY <2>1, <2>2, NotifyType, SendTyped
    <2> QED
      BY <1>4, <2>5, <2>6 DEF VfRemoveQueue, Typed
  <1>5. CASE VfClose(v)
    <2>1. [drv[v] EXCEPT !.pc = "sweep", !.closing = TRUE] \in Driver
      BY <1>0 DEF Driver, Places
    <2>2. drv' = [drv EXCEPT ![v] = [drv[v] EXCEPT !.pc = "sweep", !.closing = TRUE]]
      BY <1>0, <1>5 DEF VfClose, Typed
    <2>3. drv' \in [Funcs -> Driver]
      BY <1>0, <2>1, <2>2, DriverStep
    <2> QED
      BY <1>5, <2>3 DEF VfClose, Typed
  <1>6. CASE VfSweep(v)
    <2> DEFINE i == Min(drv[v].queues)
    <2>1. /\ drv' = [drv EXCEPT ![v].pc = "swept", ![v].q = i]
          /\ Send(v, DelMsg(v, i)) /\ drv[v].queues # {}
      BY <1>6, Zenon DEF VfSweep
    <2>2. i \in 0..TotalQ
      <3>1. drv[v].queues \in SUBSET (0..(TotalQ - 1))
        BY <1>0 DEF Driver
      <3>2. i \in drv[v].queues
        BY <2>1, <3>1, MinType
      <3> HIDE DEF i
      <3> QED
        BY <3>1, <3>2
    <2> HIDE DEF i
    <2>3. [drv[v] EXCEPT !.pc = "swept", !.q = i] \in Driver
      BY <1>0, <2>2 DEF Driver, Places
    <2>4. drv' = [drv EXCEPT ![v] = [drv[v] EXCEPT !.pc = "swept", !.q = i]]
      BY <1>0, <2>1 DEF Typed
    <2>5. drv' \in [Funcs -> Driver]
      BY <1>0, <2>3, <2>4, DriverStep
    <2>6. up' \in [Vfs -> Seq(Messages)]
      BY <2>1, <2>2, NotifyType, SendTyped
    <2> QED
      BY <1>6, <2>5, <2>6 DEF VfSweep, Typed
  <1>7. CASE VfClosed(v)
    <2>1. [op |-> "VF_BYE"] \in Messages
      BY DEF Messages
    <2>2. drv' \in [Funcs -> Driver]
      BY <1>0, <1>7, DriverStep DEF VfClosed
    <2>3. up' \in [Vfs -> Seq(Messages)]
      BY <1>7, <2>1, SendTyped DEF VfClosed
    <2> QED
      BY <1>7, <2>2, <2>3 DEF VfClosed, Typed
  <1>8. CASE VfReceive(v)
    <2> DEFINE m == Head(down[v])
    <2>1. m \in Answers /\ Tail(down[v]) \in Seq(Answers) /\ up[v] \in Seq(Messages)
      BY <1>8 DEF VfReceive, Typed
    <2>2. m.ok \in BOOLEAN /\ m.range \in RM!Run
      BY <2>1 DEF Answers
    <2>3. \/ Done(v, m.ok, m.range) /\ Follow(v, m.ok, up[v])
          \/ UNCHANGED <<drv, up>>
      BY <1>8, Zenon DEF VfReceive
    <2>4. down' \in [Vfs -> Seq(Answers)] /\ expired' = expired
      BY <1>8, <2>1 DEF VfReceive, Typed
    <2> HIDE DEF m
    <2>5. drv' \in [Funcs -> Driver] /\ up' \in [Vfs -> Seq(Messages)]
      <3>1. CASE Done(v, m.ok, m.range) /\ Follow(v, m.ok, up[v])
        <4>1. drv' \in [Funcs -> Driver]
          BY <2>2, <3>1, DoneTyped, Zenon
        <4>2. up' \in [Vfs -> Seq(Messages)]
          BY <2>1, <2>2, <3>1, FollowTyped, Zenon
        <4> QED
          BY <4>1, <4>2
      <3>2. CASE UNCHANGED <<drv, up>>
        BY <3>2 DEF Typed
      <3> QED
        BY <2>3, <3>1, <3>2
    <2> QED
      BY <2>4, <2>5 DEF Typed
  <1>9. CASE VfExpire(v)
    <2> DEFINE rest == IF up[v] = <<>> THEN <<>> ELSE Front(up[v])
    <2>1. /\ Done(v, FALSE, RM!NoRun) /\ Follow(v, FALSE, rest)
          /\ down' = down /\ expired < MaxExpired /\ expired' = expired + 1
      BY <1>9, Zenon DEF VfExpire
    <2>2. rest \in Seq(Messages)
      <3>1. up[v] \in Seq(Messages)
        BY DEF Typed
      <3>2. CASE up[v] # <<>>
        <4>1. SubSeq(up[v], 1, Len(up[v]) - 1) \in Seq(Messages)
          BY <3>1, <3>2
        <4> QED
          BY <3>2, <4>1 DEF Front
      <3> QED
        BY <3>2
    <2> HIDE DEF rest
    <2>3. drv' \in [Funcs -> Driver]
      BY <2>1, DoneTyped, Zenon
    <2>4. up' \in [Vfs -> Seq(Messages)]
      BY <2>1, <2>2, FollowTyped, Zenon
    <2> QED
      BY <2>1, <2>3, <2>4 DEF Typed
  <1> QED
    BY <1>1, <1>2, <1>3, <1>4, <1>5, <1>6, <1>7, <1>8, <1>9 DEF VfNext

\* The steps of the physical function, and the end of a cleanup, keep the types.
LEMMA PfTyped ==
  ASSUME Typed, RM!TypeOK, RM!TypeOK',
         \/ PfOpen \/ PfSetQmax \/ PfAddQueue \/ PfRemoveQueue \/ PfClose \/ PfClosed
         \/ \E f \in Funcs : Reinit(f)
  PROVE  Typed'
  <1> USE Ranges
  <1>0. Pf \in Funcs /\ drv[Pf] \in Driver /\ dev'[Pf].range \in RM!Run
    BY DEF Typed, Funcs, RM!TypeOK
  <1>a. ASSUME drv' \in [Funcs -> Driver], UNCHANGED <<fmap, up, down, expired>>
        PROVE  Typed'
    BY <1>a DEF Typed
  <1>1. CASE PfOpen
    <2>1. \/ drv' = [drv EXCEPT ![Pf].pc = "idle", ![Pf].conf = dev'[Pf].range]
          \/ drv' = drv
      BY <1>1, Zenon DEF PfOpen
    <2>2. [drv[Pf] EXCEPT !.pc = "idle", !.conf = dev'[Pf].range] \in Driver
      BY <1>0 DEF Driver, Places
    <2>3. drv' \in [Funcs -> Driver]
      <3>1. CASE drv' = [drv EXCEPT ![Pf].pc = "idle", ![Pf].conf = dev'[Pf].range]
        <4>1. drv' = [drv EXCEPT ![Pf] = [drv[Pf] EXCEPT !.pc = "idle", !.conf = dev'[Pf].range]]
          BY <1>0, <3>1 DEF Typed
        <4> QED
          BY <1>0, <2>2, <4>1, DriverStep
      <3> QED
        BY <2>1, <3>1 DEF Typed
    <2> QED
      BY <1>1, <1>a, <2>3 DEF PfOpen
  <1>2. CASE PfSetQmax
    <2>1. \/ drv' = [drv EXCEPT ![Pf].pc = "sweep", ![Pf].next = dev'[Pf].range]
          \/ drv' = drv
      BY <1>2, Zenon DEF PfSetQmax
    <2>2. [drv[Pf] EXCEPT !.pc = "sweep", !.next = dev'[Pf].range] \in Driver
      BY <1>0 DEF Driver, Places
    <2>3. drv' \in [Funcs -> Driver]
      <3>1. CASE drv' = [drv EXCEPT ![Pf].pc = "sweep", ![Pf].next = dev'[Pf].range]
        <4>1. drv' = [drv EXCEPT ![Pf] = [drv[Pf] EXCEPT !.pc = "sweep", !.next = dev'[Pf].range]]
          BY <1>0, <3>1 DEF Typed
        <4> QED
          BY <1>0, <2>2, <4>1, DriverStep
      <3> QED
        BY <2>1, <3>1 DEF Typed
    <2> QED
      BY <1>2, <1>a, <2>3 DEF PfSetQmax
  <1>3. CASE PfAddQueue
    <2>1. PICK i \in Unused(Pf) :
            drv' = [drv EXCEPT ![Pf].queues = @ \cup {i}, ![Pf].init_qrange = TRUE]
      BY <1>3, Zenon DEF PfAddQueue
    <2>2. i \in 0..(TotalQ - 1)
      BY <1>0, UnusedType
    <2>3. [drv[Pf] EXCEPT !.queues = @ \cup {i}, !.init_qrange = TRUE] \in Driver
      BY <1>0, <2>2 DEF Driver
    <2>4. drv' = [drv EXCEPT ![Pf] = [drv[Pf] EXCEPT !.queues = @ \cup {i},
                                                     !.init_qrange = TRUE]]
      BY <1>0, <2>1 DEF Typed
    <2>5. drv' \in [Funcs -> Driver]
      BY <1>0, <2>3, <2>4, DriverStep
    <2>6. fmap' \in [Funcs -> RM!Run]
      BY <1>0, <1>3 DEF PfAddQueue, Mapped, Typed, Driver
    <2> QED
      BY <1>3, <2>5, <2>6 DEF PfAddQueue, Typed
  <1>4. CASE PfRemoveQueue
    <2>1. PICK i \in drv[Pf].queues : drv' = [drv EXCEPT ![Pf].queues = @ \ {i}]
      BY <1>4, Zenon DEF PfRemoveQueue
    <2>2. [drv[Pf] EXCEPT !.queues = @ \ {i}] \in Driver
      BY <1>0 DEF Driver
    <2>3. drv' = [drv EXCEPT ![Pf] = [drv[Pf] EXCEPT !.queues = @ \ {i}]]
      BY <1>0, <2>1 DEF Typed
    <2>4. drv' \in [Funcs -> Driver]
      BY <1>0, <2>2, <2>3, DriverStep
    <2> QED
      BY <1>4, <1>a, <2>4 DEF PfRemoveQueue
  <1>5. CASE PfClose
    <2>1. [drv[Pf] EXCEPT !.pc = "sweep", !.closing = TRUE] \in Driver
      BY <1>0 DEF Driver, Places
    <2>2. drv' = [drv EXCEPT ![Pf] = [drv[Pf] EXCEPT !.pc = "sweep", !.closing = TRUE]]
      BY <1>0, <1>5 DEF PfClose, Typed
    <2>3. drv' \in [Funcs -> Driver]
      BY <1>0, <2>1, <2>2, DriverStep
    <2> QED
      BY <1>5, <1>a, <2>3 DEF PfClose
  <1>6. CASE PfClosed
    <2>1. drv' \in [Funcs -> Driver]
      BY <1>0, <1>6, DriverStep DEF PfClosed
    <2> QED
      BY <1>6, <1>a, <2>1 DEF PfClosed
  <1>7. ASSUME NEW f \in Funcs, Reinit(f) PROVE Typed'
    <2>1. drv[f].next \in RM!Run
      BY DEF Typed, Driver
    <2>2. [Closed EXCEPT !.pc = "idle", !.conf = drv[f].next] \in Driver
      BY <2>1 DEF Driver, Places
    <2>3. drv' \in [Funcs -> Driver]
      BY <1>7, <2>2, DriverStep DEF Reinit
    <2> QED
      BY <1>7, <1>a, <2>3 DEF Reinit
  <1> QED
    BY <1>1, <1>2, <1>3, <1>4, <1>5, <1>6, <1>7

(***************************************************************************)
(* What holds whatever is lost.                                            *)
(***************************************************************************)
\* The start is the start of the books.
LEMMA InitInv == Init => RM!Init /\ IInv
  <1> SUFFICES ASSUME Init PROVE RM!Init /\ IInv
    OBVIOUS
  <1>1. RM!Init
    BY DEF Init
  <1>2. BooksInv
    BY <1>1, BooksInitInv
  <1>3. Typed
    BY Ranges DEF Init, Typed
  <1> QED
    BY <1>1, <1>2, <1>3 DEF IInv

\* Every step is one of the books, and keeps the invariant.
LEMMA NextInv == IInv /\ [Next]_vars => [RM!Next]_RM!vars /\ IInv'
  <1> SUFFICES ASSUME IInv, [Next]_vars PROVE [RM!Next]_RM!vars /\ IInv'
    OBVIOUS
  <1>1. Typed /\ BooksInv
    BY DEF IInv
  <1>2. [RM!Next]_RM!vars
    <2>1. CASE Next
      BY <1>1, <2>1, StepBooks, Zenon DEF Next
    <2>2. CASE UNCHANGED vars
      BY <2>2, Zenon DEF vars, books, RM!vars
    <2> QED
      BY <2>1, <2>2
  <1>3. BooksInv'
    BY <1>1, <1>2, BooksNextInv, Zenon
  <1>4. RM!TypeOK /\ RM!TypeOK'
    BY <1>1, <1>3 DEF BooksInv
  <1>5. Typed'
    <2>1. CASE Step
      <3>1. CASE \E v \in Vfs : PfServe(v) \/ VfNext(v)
        BY <1>1, <1>4, <3>1, PfServeTyped, VfNextTyped, Zenon
      <3> QED
        BY <1>1, <1>4, <2>1, <3>1, PfTyped, Zenon DEF Step
    <2>2. CASE UNCHANGED vars
      BY <1>1, <2>2 DEF vars, Typed
    <2> QED
      BY <2>1, <2>2, Zenon DEF Next
  <1> QED
    BY <1>2, <1>3, <1>5 DEF IInv

\* The functions of a device and the messages between them implement the books
\* of qdma_resource_mgmt.c: whatever is sent, answered, late or lost, each
\* step is one operation of QdmaResource or leaves the books alone.
THEOREM Implements == Spec => RM!Spec
  BY InitInv, NextInv, PTL DEF Spec, RM!Spec

\* The invariant holds in every state.
THEOREM Invariant == Spec => []IInv
  BY InitInv, NextInv, PTL DEF Spec

\* Every variable keeps its type: the ranges a driver is told, the ranges its
\* register is given and the requests of its messages are ones of the device.
THEOREM AlwaysTypeOK == Spec => []TypeOK
  <1>1. IInv => TypeOK
    <2> SUFFICES ASSUME IInv PROVE TypeOK
      OBVIOUS
    <2>1. Typed /\ RM!TypeOK
      BY DEF IInv, BooksInv
    <2>2. \A v \in Vfs : \A k \in DOMAIN up[v] : up[v][k] \in Messages
      BY <2>1 DEF Typed
    <2>3. \A v \in Vfs : \A k \in DOMAIN down[v] : down[v][k] \in Answers
      BY <2>1 DEF Typed
    <2> QED
      BY <2>1, <2>2, <2>3, OpOf, Zenon DEF TypeOK, Typed, Driver, Answers
  <1> QED
    BY <1>1, Invariant, PTL

\* Whatever messages are lost or late and whatever allocation fails, no queue of
\* the device is in two hands, none is lost while memory lasts, and no function
\* has more queues in use than it has.
THEOREM AlwaysPartition == Spec => []Partition
  <1>1. IInv => Partition
    BY InvPartition DEF IInv, Partition
  <1> QED
    BY <1>1, Invariant, PTL

(***************************************************************************)
(* Sums over the functions: counted queue by queue, a sum is the size of a *)
(* set, and what the books know of sizes holds of it.                      *)
(***************************************************************************)
LEMMA FuncsFinite == IsFiniteSet(Funcs)
  BY VfsAssumption, FS_Singleton, FS_Union DEF Funcs

\* Induction over the subsets of a finite set: a set of subsets that is not
\* empty has a least one.
LEMMA LeastSubset ==
  ASSUME NEW S, IsFiniteSet(S), NEW W \in SUBSET SUBSET S, W # {}
  PROVE  \E s \in W : \A x \in s : s \ {x} \notin W
  <1>1. W \subseteq FiniteSubsetsOf(S)
    BY FS_FiniteSubsetsOfFinite, Zenon
  <1>2. PICK s \in W : \A t \in W : ~ (<<t, s>> \in StrictSubsetOrdering(S))
    BY <1>1, FS_StrictSubsetOrderingWellFounded, WFMin, Zenon
  <1>3. ASSUME NEW x \in s, s \ {x} \in W PROVE FALSE
    <2>1. <<s \ {x}, s>> \in StrictSubsetOrdering(S)
      BY <1>3 DEF StrictSubsetOrdering
    <2> QED
      BY <1>2, <1>3, <2>1
  <1> QED
    BY <1>2, <1>3

\* One step of the fold of Folds that adds up the active queues: h[s] from the
\* sums of smaller sets.
First(s) == CHOOSE x \in s : TRUE
AddUp(g, h, s) == IF s = {} THEN 0 ELSE g[First(s)].active + h[s \ {First(s)}]
Sums(g, S) == CHOOSE h : h = [s \in SUBSET S |-> AddUp(g, h, s)]

LEMMA FirstIn == \A s : s # {} => First(s) \in s
  BY DEF First

LEMMA SumUnfolds ==
  MapThenSumSet(LAMBDA f : dev[f].active, Funcs) = Sums(dev, Funcs)[Funcs]
  BY DEF MapThenSumSet, MapThenFoldSet, Sums, AddUp, First

\* The sets of at most n functions.
UpTo(S, n) == {s \in SUBSET S : Cardinality(s) <= n}

\* There is such a function: for the empty set, and for one element more.
LEMMA SumsExist ==
  ASSUME NEW S, IsFiniteSet(S), NEW g
  PROVE  Sums(g, S) = [s \in SUBSET S |-> AddUp(g, Sums(g, S), s)]
  <1> DEFINE Good(n) == \E h : h = [s \in UpTo(S, n) |-> AddUp(g, h, s)]
             Bad == {n \in Nat : ~ Good(n)}
  <1>1. Good(0)
    <2> DEFINE h == [s \in UpTo(S, 0) |-> 0]
    <2>1. \A s \in UpTo(S, 0) : s = {}
      <3> SUFFICES ASSUME NEW s \in UpTo(S, 0) PROVE s = {}
        OBVIOUS
      <3>1. IsFiniteSet(s) /\ Cardinality(s) <= 0
        BY FS_Subset DEF UpTo
      <3>2. Cardinality(s) = 0
        BY <3>1, FS_CardinalityType
      <3> QED
        BY <3>1, <3>2, FS_EmptySet
    <2>2. \A s \in UpTo(S, 0) : AddUp(g, h, s) = 0
      BY <2>1 DEF AddUp
    <2>3. h = [s \in UpTo(S, 0) |-> AddUp(g, h, s)]
      BY <2>2, Zenon
    <2> QED
      BY <2>3
  <1>2. ASSUME NEW n \in Nat, Good(n) PROVE Good(n + 1)
    <2>1. PICK h : h = [s \in UpTo(S, n) |-> AddUp(g, h, s)]
      BY <1>2
    <2> DEFINE k == [s \in UpTo(S, n + 1) |-> AddUp(g, h, s)]
    <2>2. ASSUME NEW s \in UpTo(S, n + 1) PROVE AddUp(g, k, s) = AddUp(g, h, s)
      <3>1. CASE s = {}
        BY <3>1 DEF AddUp
      <3>2. CASE s # {}
        <4> DEFINE t == s \ {First(s)}
        <4>1. First(s) \in s /\ s \in SUBSET S /\ IsFiniteSet(s) /\ Cardinality(s) <= n + 1
          BY <3>2, FirstIn, FS_Subset DEF UpTo
        <4>2. Cardinality(t) = Cardinality(s) - 1 /\ Cardinality(s) \in Nat
          BY <4>1, FS_RemoveElement, FS_CardinalityType
        <4>3. t \in UpTo(S, n) /\ t \in UpTo(S, n + 1)
          BY <4>1, <4>2 DEF UpTo
        <4>4. k[t] = h[t]
          BY <2>1, <4>3, Zenon
        <4> QED
          BY <3>2, <4>4 DEF AddUp
      <3> QED
        BY <3>1, <3>2
    <2>3. k = [s \in UpTo(S, n + 1) |-> AddUp(g, k, s)]
      BY <2>2, Zenon
    <2> QED
      BY <2>3
  <1>3. Bad = {}
    <2> SUFFICES ASSUME Bad # {} PROVE FALSE
      OBVIOUS
    <2>1. PICK n \in Bad : \A m \in Bad : n <= m
      <3>1. Bad \in SUBSET Nat
        OBVIOUS
      <3> HIDE DEF Bad
      <3> QED
        BY <3>1, Least
    <2>2. n \in Nat /\ n # 0 /\ ~ Good(n)
      BY <1>1
    <2>3. n - 1 \in Nat /\ ~ (n - 1 \in Bad) /\ (n - 1) + 1 = n
      BY <2>1, <2>2
    <2>4. Good(n - 1)
      BY <2>3
    <2> QED
      BY <1>2, <2>2, <2>3, <2>4
  <1>4. UpTo(S, Cardinality(S)) = SUBSET S /\ Cardinality(S) \in Nat
    BY FS_Subset, FS_CardinalityType DEF UpTo
  <1>5. \E h : h = [s \in SUBSET S |-> AddUp(g, h, s)]
    <2>1. Good(Cardinality(S))
      BY <1>3, <1>4
    <2> QED
      BY <1>4, <2>1
  <1> QED
    BY <1>5, Zenon DEF Sums

\* The active queues of the functions of s, numbered function by function.
Used(g, s) == {p \in s \X (0..(TotalQ - 1)) : p[2] < g[p[1]].active}

LEMMA UsedOne ==
  ASSUME NEW g \in [Funcs -> Entry], NEW f \in Funcs
  PROVE  /\ IsFiniteSet(Used(g, {f})) /\ Cardinality(Used(g, {f})) = g[f].active
  <1>1. g[f].active \in 0..TotalQ
    BY DEF Entry
  <1>2. Used(g, {f}) = {f} \X (0..(g[f].active - 1))
    BY <1>1 DEF Used
  <1>3. /\ IsFiniteSet(0..(g[f].active - 1))
        /\ Cardinality(0..(g[f].active - 1)) = g[f].active
    <2>1. ASSUME NEW n \in 0..TotalQ
          PROVE  IsFiniteSet(0..(n - 1)) /\ Cardinality(0..(n - 1)) = n
      BY FS_Interval
    <2> QED
      BY <1>1, <2>1, Zenon
  <1>4. IsFiniteSet({f}) /\ Cardinality({f}) = 1
    BY FS_Singleton
  <1>5. /\ IsFiniteSet({f} \X (0..(g[f].active - 1)))
        /\ Cardinality({f} \X (0..(g[f].active - 1))) = 1 * g[f].active
    BY <1>3, <1>4, FS_Product, Zenon
  <1>6. 1 * g[f].active = g[f].active
    BY <1>1
  <1> QED
    BY <1>2, <1>5, <1>6, Zenon

LEMMA UsedFinite ==
  ASSUME NEW g \in [Funcs -> Entry], NEW s \in SUBSET Funcs
  PROVE  IsFiniteSet(Used(g, s)) /\ Cardinality(Used(g, s)) \in Nat
  <1>1. IsFiniteSet(s) /\ IsFiniteSet(0..(TotalQ - 1))
    BY FuncsFinite, FS_Subset, FS_Interval
  <1>2. IsFiniteSet(s \X (0..(TotalQ - 1)))
    BY <1>1, FS_Product
  <1>3. Used(g, s) \in SUBSET (s \X (0..(TotalQ - 1)))
    BY DEF Used
  <1> QED
    BY <1>2, <1>3, FS_Subset, FS_CardinalityType

LEMMA UsedMore ==
  ASSUME NEW g \in [Funcs -> Entry], NEW s \in SUBSET Funcs, NEW f \in s
  PROVE  Cardinality(Used(g, s)) = g[f].active + Cardinality(Used(g, s \ {f}))
  <1>1. Used(g, s) = Used(g, {f}) \cup Used(g, s \ {f})
    BY DEF Used
  <1>2. Used(g, {f}) \cap Used(g, s \ {f}) = {}
    BY DEF Used
  <1>3. /\ IsFiniteSet(Used(g, {f})) /\ Cardinality(Used(g, {f})) = g[f].active
        /\ IsFiniteSet(Used(g, s \ {f})) /\ Cardinality(Used(g, s \ {f})) \in Nat
        /\ g[f].active \in Nat
    BY UsedOne, UsedFinite DEF Entry
  <1>4. Cardinality(Used(g, {f}) \cup Used(g, s \ {f}))
          = Cardinality(Used(g, {f})) + Cardinality(Used(g, s \ {f}))
            - Cardinality(Used(g, {f}) \cap Used(g, s \ {f}))
    BY <1>3, FS_Union
  <1>5. Cardinality(Used(g, {f}) \cap Used(g, s \ {f})) = 0
    BY <1>2, FS_EmptySet, Zenon
  <1>6. Cardinality(Used(g, s))
          = Cardinality(Used(g, {f})) + Cardinality(Used(g, s \ {f})) - 0
    BY <1>1, <1>4, <1>5, Zenon
  <1> DEFINE b == Cardinality(Used(g, s \ {f}))
  <1>7. g[f].active + b - 0 = g[f].active + b
    <2>1. b \in Nat /\ g[f].active \in Nat
      BY <1>3
    <2> HIDE DEF b
    <2> QED
      BY <2>1
  <1> QED
    BY <1>3, <1>6, <1>7, Zenon

\* The sum is their number.
LEMMA SumIsUsed ==
  ASSUME dev \in [Funcs -> Entry]
  PROVE  MapThenSumSet(LAMBDA f : dev[f].active, Funcs) = Cardinality(Used(dev, Funcs))
  <1> DEFINE h == Sums(dev, Funcs)
             Bad == {s \in SUBSET Funcs : h[s] # Cardinality(Used(dev, s))}
  <1>1. h = [s \in SUBSET Funcs |-> AddUp(dev, h, s)]
    BY FuncsFinite, SumsExist, Zenon
  <1>2. Bad = {}
    <2> SUFFICES ASSUME Bad # {} PROVE FALSE
      OBVIOUS
    <2>1. PICK s \in Bad : \A x \in s : s \ {x} \notin Bad
      <3>1. Bad \in SUBSET SUBSET Funcs
        OBVIOUS
      <3> HIDE DEF Bad
      <3> QED
        BY <3>1, FuncsFinite, LeastSubset
    <2>2. s \in SUBSET Funcs /\ h[s] # Cardinality(Used(dev, s)) /\ h[s] = AddUp(dev, h, s)
      BY <1>1
    <2>3. CASE s = {}
      <3>1. Used(dev, {}) = {}
        BY DEF Used
      <3> QED
        BY <2>2, <2>3, <3>1, FS_EmptySet DEF AddUp
    <2>4. CASE s # {}
      <3>1. First(s) \in s
        BY <2>4, FirstIn
      <3>2. h[s \ {First(s)}] = Cardinality(Used(dev, s \ {First(s)}))
        BY <2>1, <2>2, <3>1
      <3>3. h[s] = dev[First(s)].active + Cardinality(Used(dev, s \ {First(s)}))
        BY <2>2, <2>4, <3>2 DEF AddUp
      <3> QED
        BY <2>2, <3>1, <3>3, UsedMore
    <2> QED
      BY <2>3, <2>4
  <1>3. h[Funcs] = Cardinality(Used(dev, Funcs))
    BY <1>2
  <1> QED
    BY <1>3, SumUnfolds, Zenon

\* No more queues are in use than the device has: each is one of a range, and the
\* ranges are apart.
LEMMA UsedBound ==
  ASSUME BooksInv
  PROVE  Cardinality(Used(dev, Funcs)) \in 0..TotalQ
  <1> DEFINE place == [p \in Used(dev, Funcs) |-> dev[p[1]].range.qbase + p[2]]
  <1>1. ASSUME NEW p \in Used(dev, Funcs)
        PROVE  /\ p = <<p[1], p[2]>> /\ p[1] \in Funcs /\ p[2] \in 0..(TotalQ - 1)
               /\ dev[p[1]].range.qbase \in Int
               /\ place[p] \in RM!Queues(dev[p[1]].range) /\ place[p] \in 0..(TotalQ - 1)
    <2>1. /\ p = <<p[1], p[2]>> /\ p[1] \in Funcs /\ p[2] \in 0..(TotalQ - 1)
          /\ p[2] < dev[p[1]].active
      BY DEF Used
    <2> DEFINE r == dev[p[1]].range
    <2>2. /\ dev[p[1]].active <= r.total_q /\ Held(r) /\ dev[p[1]] \in Entry
      BY <2>1, OfFunction
    <2>3. dev[p[1]].active \in 0..TotalQ /\ r \in RM!Run
      BY <2>2 DEF Entry
    <2>4. r.total_q \in 0..TotalQ /\ r.qbase \in -1..TotalQ
      BY <2>3 DEF RM!Run
    <2>5. r.total_q > 0 /\ p[2] < r.total_q
      BY <2>1, <2>2, <2>3, <2>4
    <2>6. /\ RM!Queues(r) \subseteq 0..(TotalQ - 1)
          /\ RM!Queues(r) = r.qbase .. (r.qbase + r.total_q - 1)
      <3> HIDE DEF r
      <3>1. RM!Queues(r) = r.qbase .. (r.qbase + r.total_q - 1)
        BY <2>4, QueuesOf
      <3> QED
        BY <2>2, <2>5, <3>1, RunBounds
    <2>7. r.qbase + p[2] \in RM!Queues(r)
      <3> DEFINE b == r.qbase n == r.total_q i == p[2]
      <3>1. b \in Int /\ n \in Int /\ i \in Nat /\ i < n
        BY <2>1, <2>4, <2>5
      <3> HIDE DEF b, n, i
      <3>2. b + i \in b .. (b + n - 1)
        BY <3>1
      <3> QED
        BY <2>6, <3>2 DEF b, n, i
    <2> QED
      <3>1. place[p] = r.qbase + p[2] /\ r.qbase \in Int
        BY <2>4
      <3> HIDE DEF place, r
      <3>2. place[p] \in RM!Queues(r) /\ place[p] \in 0..(TotalQ - 1)
        BY <2>6, <2>7, <3>1
      <3> QED
        BY <2>1, <3>1, <3>2 DEF r
  <1>2. ASSUME NEW p \in Used(dev, Funcs), NEW o \in Used(dev, Funcs), place[p] = place[o]
        PROVE  p = o
    <2>1. p[1] = o[1]
      <3>1. RM!Queues(dev[p[1]].range) \cap RM!Queues(dev[o[1]].range) # {}
        BY <1>1, <1>2
      <3> QED
        BY <1>1, <3>1 DEF BooksInv, Apart
    <2>2. p[2] = o[2]
      <3>1. dev[p[1]].range.qbase + p[2] = dev[p[1]].range.qbase + o[2]
        BY <1>2, <2>1
      <3> QED
        BY <1>1, <3>1
    <2> QED
      BY <1>1, <2>1, <2>2
  <1>3. place \in Injection(Used(dev, Funcs), 0..(TotalQ - 1))
    <2>1. place \in [Used(dev, Funcs) -> 0..(TotalQ - 1)]
      BY <1>1
    <2> HIDE DEF place
    <2> QED
      BY <1>2, <2>1 DEF Injection, IsInjective
  <1>4. IsFiniteSet(0..(TotalQ - 1)) /\ Cardinality(0..(TotalQ - 1)) = TotalQ
    BY FS_Interval
  <1>5. Cardinality(Used(dev, Funcs)) <= TotalQ
    <2> HIDE DEF place
    <2> QED
      BY <1>3, <1>4, FS_Injection
  <1> QED
    BY <1>5, UsedFinite, OfFunction DEF BooksInv, RM!TypeOK, Entry

\* What a step may do to the counts: nothing, count one queue of a function more
\* or less, or start again when no queue is in use.
SameCounts == active_qcnt' = active_qcnt /\ \A f \in Funcs : dev'[f].active = dev[f].active
OneMore(f) ==
  /\ dev' = [dev EXCEPT ![f].active = @ + 1]
  /\ active_qcnt' = (active_qcnt + 1) % CountMod
OneLess(f) ==
  /\ dev[f].active > 0
  /\ dev' = [dev EXCEPT ![f].active = @ - 1]
  /\ active_qcnt' = (active_qcnt - 1) % CountMod
Restart == active_qcnt' = 0 /\ \A f \in Funcs : dev'[f].active = 0

Tallied == SameCounts \/ Restart \/ \E f \in Funcs : OneMore(f) \/ OneLess(f)

\* The count of the device is right.
Tally == active_qcnt = Cardinality(Used(dev, Funcs))

LEMMA ModSmall ==
  ASSUME NEW n \in Nat, n < CountMod
  PROVE  n % CountMod = n
  OBVIOUS

LEMMA TallyKept ==
  ASSUME BooksInv, BooksInv', Tally, Tallied
  PROVE  Tally'
  <1> DEFINE U == Used(dev, Funcs)
  <1>1. /\ dev \in [Funcs -> Entry] /\ dev' \in [Funcs -> Entry]
        /\ \A f \in Funcs : dev[f].active \in 0..TotalQ /\ dev'[f].active \in 0..TotalQ
    BY DEF BooksInv, RM!TypeOK, Entry
  <1>2. /\ IsFiniteSet(U) /\ Cardinality(U) \in 0..TotalQ
        /\ Cardinality(Used(dev', Funcs)) \in 0..TotalQ
    <2>1. Cardinality(U) \in 0..TotalQ
      BY UsedBound
    <2>2. Cardinality(Used(dev', Funcs)) \in 0..TotalQ
      <3>1. (Cardinality(Used(dev, Funcs)) \in 0..TotalQ)'
        BY UsedBound, PTL
      <3> QED
        BY <3>1 DEF Used
    <2> QED
      BY <1>1, <2>1, <2>2, UsedFinite
  <1>3. CASE SameCounts
    <2>1. Used(dev', Funcs) = U
      BY <1>3 DEF Used, SameCounts
    <2> QED
      BY <1>3, <2>1 DEF Tally, SameCounts, Used
  <1>4. CASE Restart
    <2>1. Used(dev', Funcs) = {}
      BY <1>4 DEF Used, Restart
    <2>2. Cardinality(Used(dev', Funcs)) = 0
      BY <2>1, FS_EmptySet, Zenon
    <2> QED
      BY <1>4, <2>2, Zenon DEF Tally, Restart, Used
  <1>5. ASSUME NEW f \in Funcs, OneMore(f) PROVE Tally'
    <2> DEFINE a == dev[f].active
    <2>1. /\ dev'[f].active = a + 1 /\ a \in 0..(TotalQ - 1)
          /\ \A g \in Funcs \ {f} : dev'[g].active = dev[g].active
      <3>1. dev'[f].active = a + 1 /\ \A g \in Funcs \ {f} : dev'[g].active = dev[g].active
        BY <1>1, <1>5 DEF OneMore
      <3>2. a + 1 \in 0..TotalQ /\ a \in 0..TotalQ
        BY <1>1, <3>1, Zenon
      <3> HIDE DEF a
      <3>3. a \in 0..(TotalQ - 1)
        BY <3>2
      <3> QED
        BY <3>1, <3>3, Zenon
    <2>2. Used(dev', Funcs) = U \cup {<<f, a>>}
      <3>1. ASSUME NEW g \in Funcs, NEW i \in 0..(TotalQ - 1)
            PROVE  <<g, i>> \in Used(dev', Funcs) <=> <<g, i>> \in U \cup {<<f, a>>}
        <4>1. CASE g = f
          <5>1. i < a + 1 <=> i < a \/ i = a
            BY <2>1
          <5> QED
            BY <2>1, <4>1, <5>1 DEF Used
        <4>2. CASE g # f
          BY <2>1, <4>2 DEF Used
        <4> QED
          BY <4>1, <4>2
      <3>2. <<f, a>> \in Funcs \X (0..(TotalQ - 1))
        BY <2>1
      <3>3. /\ Used(dev', Funcs) \subseteq Funcs \X (0..(TotalQ - 1))
            /\ U \subseteq Funcs \X (0..(TotalQ - 1))
        BY DEF Used
      <3> QED
        BY <3>1, <3>2, <3>3
    <2>3. <<f, a>> \notin U
      BY <2>1 DEF Used
    <2>4. Cardinality(Used(dev', Funcs)) = Cardinality(U) + 1
      BY <1>2, <2>2, <2>3, FS_AddElement
    <2>5. (Cardinality(U) + 1) % CountMod = Cardinality(U) + 1
      <3> DEFINE c == Cardinality(U)
      <3>1. c \in Nat /\ c + 1 <= TotalQ
        BY <1>2, <2>4
      <3> HIDE DEF c
      <3>2. c + 1 \in Nat /\ c + 1 < CountMod
        BY <3>1
      <3>3. (c + 1) % CountMod = c + 1
        BY <3>2, ModSmall
      <3> QED
        BY <3>3 DEF c
    <2>6. active_qcnt' = (Cardinality(U) + 1) % CountMod
      BY <1>5 DEF OneMore, Tally
    <2> QED
      BY <2>4, <2>5, <2>6, Zenon DEF Tally, Used
  <1>6. ASSUME NEW f \in Funcs, OneLess(f) PROVE Tally'
    <2> DEFINE a == dev[f].active
    <2>1. /\ dev'[f].active = a - 1 /\ a \in 1..TotalQ
          /\ \A g \in Funcs \ {f} : dev'[g].active = dev[g].active
      BY <1>1, <1>6 DEF OneLess
    <2>2. Used(dev', Funcs) = U \ {<<f, a - 1>>}
      <3>1. ASSUME NEW g \in Funcs, NEW i \in 0..(TotalQ - 1)
            PROVE  <<g, i>> \in Used(dev', Funcs) <=> <<g, i>> \in U \ {<<f, a - 1>>}
        <4>1. CASE g = f
          <5>1. i < a - 1 <=> i < a /\ i # a - 1
            BY <2>1
          <5> QED
            BY <2>1, <4>1, <5>1 DEF Used
        <4>2. CASE g # f
          BY <2>1, <4>2 DEF Used
        <4> QED
          BY <4>1, <4>2
      <3>3. /\ Used(dev', Funcs) \subseteq Funcs \X (0..(TotalQ - 1))
            /\ U \subseteq Funcs \X (0..(TotalQ - 1))
        BY DEF Used
      <3> QED
        BY <3>1, <3>3
    <2>3. <<f, a - 1>> \in U
      <3>1. a - 1 \in 0..(TotalQ - 1) /\ a - 1 < a
        BY <2>1
      <3> QED
        BY <3>1 DEF Used
    <2>4. Cardinality(Used(dev', Funcs)) = Cardinality(U) - 1
      <3>1. Cardinality(U \ {<<f, a - 1>>}) = Cardinality(U) - 1
        <4> DEFINE x == <<f, a - 1>>
        <4>1. IsFiniteSet(U) /\ x \in U
          BY <1>2, <2>3
        <4> HIDE DEF U, x
        <4>2. Cardinality(U \ {x}) = Cardinality(U) - 1
          BY <4>1, FS_RemoveElement
        <4> QED
          BY <4>2 DEF x
      <3> QED
        BY <2>2, <3>1, Zenon
    <2>5. (Cardinality(U) - 1) % CountMod = Cardinality(U) - 1
      <3> DEFINE c == Cardinality(U)
      <3>1. c \in Nat /\ c - 1 >= 0 /\ c <= TotalQ
        BY <1>2, <2>4
      <3> HIDE DEF c
      <3>2. c - 1 \in Nat /\ c - 1 < CountMod
        BY <3>1
      <3>3. (c - 1) % CountMod = c - 1
        BY <3>2, ModSmall
      <3> QED
        BY <3>3 DEF c
    <2>6. active_qcnt' = (Cardinality(U) - 1) % CountMod
      BY <1>6 DEF OneLess, Tally
    <2> QED
      BY <2>4, <2>5, <2>6, Zenon DEF Tally, Used
  <1> QED
    BY <1>3, <1>4, <1>5, <1>6 DEF Tallied

(***************************************************************************)
(* What the parties know of each other, as long as nothing is lost: d is   *)
(* the driver of a function, e its entry in the books, m its register, u   *)
(* and w the messages on their way up and down.                            *)
(***************************************************************************)
\* The driver knows the range of the entry (that of no queues may lie
\* anywhere), and the queues in use are of it and mapped.
Knows(d, e, m) ==
  /\ e.there
  /\ d.conf.total_q = e.range.total_q
  /\ d.conf.total_q > 0 => d.conf = e.range
  /\ d.queues \subseteq 0..(d.conf.total_q - 1)
  /\ IF d.init_qrange THEN m = d.conf ELSE d.queues = {}

\* As many queues of the entry are in use as Q has.
Counts(e, Q) == e.active = Cardinality(Q)

\* A virtual function's register maps the queues of the entry only.
Within(m, e) == RM!Queues(m) \subseteq RM!Queues(e.range)

\* The driver is told its new range r, or will be: there are no queues.
Changing(d, e, r) == e.there /\ e.active = 0 /\ d.queues = {} /\ r = e.range

PfAgrees(d, e, m) ==
  \/ d = Closed /\ e.active = 0
  \/ /\ \/ d.pc = "idle" /\ ~ d.closing
        \/ d.pc = "sweep" /\ d.closing
     /\ Knows(d, e, m) /\ Counts(e, d.queues)
  \/ d.pc = "sweep" /\ ~ d.closing /\ Changing(d, e, d.next)

\* Nothing is on its way; one request; the answer to it.
Quiet(u, w) == u = <<>> /\ w = <<>>
Asked(u, w, req) == u = <<req>> /\ w = <<>>
Told(u, w, op, ok, r) == u = <<>> /\ w = <<[op |-> op, ok |-> ok, range |-> r]>>

\* Closed, with or without the message that says so still on its way.
Hello == [op |-> "HELLO"]
Bye   == [op |-> "VF_BYE"]
Left(e, m) == ~ e.there /\ m = NoFmap
Leaving(e, m) == e.active = 0 /\ Within(m, e)

VfKnows(d, e, m) == Knows(d, e, m) /\ (~ d.init_qrange => m = NoFmap)

VfClosedAgrees(d, e, m, u, w) ==
  /\ d = Closed /\ w = <<>>
  /\ \/ u = <<>> /\ Left(e, m)
     \/ u = <<Bye>> /\ Leaving(e, m)

VfHelloAgrees(d, e, m, u, w) ==
  /\ d = [Closed EXCEPT !.pc = "hello"]
  /\ \/ u = <<Bye, Hello>> /\ w = <<>> /\ Leaving(e, m)
     \/ Asked(u, w, Hello) /\ Left(e, m)
     \/ \E ok \in BOOLEAN, r \in RM!Run :
          /\ Told(u, w, "HELLO", ok, r) /\ m = NoFmap
          /\ IF ok THEN e = [RM!NoEntry EXCEPT !.there = TRUE] ELSE ~ e.there

VfIdleAgrees(d, e, m, u, w) ==
  /\ d.pc = "idle" /\ ~ d.closing
  /\ Quiet(u, w) /\ VfKnows(d, e, m) /\ Counts(e, d.queues)

VfQreqAgrees(d, e, m, u, w) ==
  /\ d.pc = "qreq" /\ ~ d.closing
  /\ \/ /\ \/ \E qmax \in Sizes : Asked(u, w, [op |-> "QREQ", qmax |-> qmax])
           \/ \E r \in RM!Run : Told(u, w, "QREQ", FALSE, r)
        /\ VfKnows(d, e, m) /\ Counts(e, d.queues)
     \/ \E r \in RM!Run : Told(u, w, "QREQ", TRUE, r) /\ Changing(d, e, r) /\ m = NoFmap

VfSweepAgrees(d, e, m, u, w) ==
  /\ d.pc = "sweep" /\ Quiet(u, w)
  /\ IF d.closing THEN VfKnows(d, e, m) /\ Counts(e, d.queues)
                  ELSE Changing(d, e, d.next) /\ m = NoFmap

VfFmapAgrees(d, e, m, u, w) ==
  /\ d.pc = "fmap" /\ ~ d.closing /\ ~ d.init_qrange
  /\ e.there /\ e.active = 0 /\ d.conf = e.range
  /\ d.q \in 0..(d.conf.total_q - 1) /\ d.queues = {d.q}
  /\ \/ Asked(u, w, [op |-> "FMAP", range |-> d.conf]) /\ m = NoFmap
     \/ \E r \in RM!Run : Told(u, w, "FMAP", TRUE, r) /\ m = d.conf

VfAddAgrees(d, e, m, u, w) ==
  /\ d.pc = "qadd" /\ ~ d.closing /\ d.init_qrange
  /\ VfKnows(d, e, m) /\ d.q \in d.queues
  /\ \/ /\ Asked(u, w, [op |-> "QNOTIFY_ADD", qid_hw |-> d.conf.qbase + d.q])
        /\ Counts(e, d.queues \ {d.q})
     \/ \E r \in RM!Run : Told(u, w, "QNOTIFY_ADD", TRUE, r) /\ Counts(e, d.queues)

VfDelAgrees(d, e, m, u, w) ==
  /\ \/ d.pc = "qdel" /\ ~ d.closing
     \/ d.pc = "swept" /\ d.closing
  /\ VfKnows(d, e, m) /\ d.q \in d.queues
  /\ \/ /\ Asked(u, w, [op |-> "QNOTIFY_DEL", qid_hw |-> d.conf.qbase + d.q])
        /\ Counts(e, d.queues)
     \/ \E r \in RM!Run : Told(u, w, "QNOTIFY_DEL", TRUE, r) /\ Counts(e, d.queues \ {d.q})

VfAgrees(d, e, m, u, w) ==
  \/ VfClosedAgrees(d, e, m, u, w) \/ VfHelloAgrees(d, e, m, u, w) \/ VfIdleAgrees(d, e, m, u, w)
  \/ VfQreqAgrees(d, e, m, u, w) \/ VfSweepAgrees(d, e, m, u, w) \/ VfFmapAgrees(d, e, m, u, w)
  \/ VfAddAgrees(d, e, m, u, w) \/ VfDelAgrees(d, e, m, u, w)

Agreement ==
  /\ PfAgrees(drv[Pf], dev[Pf], fmap[Pf])
  /\ \A v \in Vfs : VfAgrees(drv[v], dev[v], fmap[v], up[v], down[v])
----------------------------------------------------------------------------
\* Sets of queues.
LEMMA Sized ==
  ASSUME NEW Q \in SUBSET (0..(TotalQ - 1))
  PROVE  /\ Cardinality(Q) \in Nat
         /\ Cardinality(Q) = 0 <=> Q = {}
         /\ \A i : Cardinality(Q \cup {i})
                     = IF i \in Q THEN Cardinality(Q) ELSE Cardinality(Q) + 1
         /\ \A i : Cardinality(Q \ {i})
                     = IF i \in Q THEN Cardinality(Q) - 1 ELSE Cardinality(Q)
  <1>1. IsFiniteSet(0..(TotalQ - 1))
    BY FS_Interval
  <1>2. IsFiniteSet(Q)
    BY <1>1, FS_Subset
  <1> QED
    BY <1>2, FS_CardinalityType, FS_EmptySet, FS_AddElement, FS_RemoveElement, Zenon

LEMMA SizedMost ==
  ASSUME NEW n \in 0..TotalQ, NEW Q \in SUBSET (0..(n - 1))
  PROVE  Cardinality(Q) <= n
  <1>1. IsFiniteSet(0..(n - 1)) /\ Cardinality(0..(n - 1)) = n
    BY FS_Interval
  <1> QED
    BY <1>1, FS_Subset

\* Where the driver is tells which of the cases it is in.
LEMMA AtPlace ==
  ASSUME NEW d, NEW e, NEW m, NEW u, NEW w, VfAgrees(d, e, m, u, w)
  PROVE  /\ d.pc = "closed" => VfClosedAgrees(d, e, m, u, w)
         /\ d.pc = "hello"  => VfHelloAgrees(d, e, m, u, w)
         /\ d.pc = "idle"   => VfIdleAgrees(d, e, m, u, w)
         /\ d.pc = "qreq"   => VfQreqAgrees(d, e, m, u, w)
         /\ d.pc = "sweep"  => VfSweepAgrees(d, e, m, u, w)
         /\ d.pc = "fmap"   => VfFmapAgrees(d, e, m, u, w)
         /\ d.pc = "qadd"   => VfAddAgrees(d, e, m, u, w)
         /\ d.pc \in {"qdel", "swept"} => VfDelAgrees(d, e, m, u, w)
  <1>1. VfClosedAgrees(d, e, m, u, w) => d.pc = "closed"
    BY DEF VfClosedAgrees, Closed
  <1>2. VfHelloAgrees(d, e, m, u, w) => d.pc = "hello"
    BY DEF VfHelloAgrees, Closed
  <1>3. VfIdleAgrees(d, e, m, u, w) => d.pc = "idle"
    BY DEF VfIdleAgrees
  <1>4. VfQreqAgrees(d, e, m, u, w) => d.pc = "qreq"
    BY DEF VfQreqAgrees
  <1>5. VfSweepAgrees(d, e, m, u, w) => d.pc = "sweep"
    BY DEF VfSweepAgrees
  <1>6. VfFmapAgrees(d, e, m, u, w) => d.pc = "fmap"
    BY DEF VfFmapAgrees
  <1>7. VfAddAgrees(d, e, m, u, w) => d.pc = "qadd"
    BY DEF VfAddAgrees
  <1>8. VfDelAgrees(d, e, m, u, w) => d.pc \in {"qdel", "swept"}
    BY DEF VfDelAgrees
  <1> QED
    BY <1>1, <1>2, <1>3, <1>4, <1>5, <1>6, <1>7, <1>8 DEF VfAgrees

\* The message at the head tells what is asked.
QreqPending(d, e, m, u, w) ==
  /\ d.pc = "qreq" /\ ~ d.closing /\ Tail(u) = <<>> /\ w = <<>>
  /\ Head(u).qmax \in Sizes /\ VfKnows(d, e, m) /\ Counts(e, d.queues)
FmapPending(d, e, m, u, w) ==
  /\ VfFmapAgrees(d, e, m, u, w) /\ Asked(u, w, [op |-> "FMAP", range |-> d.conf]) /\ m = NoFmap
AddPending(d, e, m, u, w) ==
  /\ d.pc = "qadd" /\ ~ d.closing /\ d.init_qrange /\ VfKnows(d, e, m) /\ d.q \in d.queues
  /\ Asked(u, w, [op |-> "QNOTIFY_ADD", qid_hw |-> d.conf.qbase + d.q])
  /\ Counts(e, d.queues \ {d.q})
DelPending(d, e, m, u, w) ==
  /\ \/ d.pc = "qdel" /\ ~ d.closing
     \/ d.pc = "swept" /\ d.closing
  /\ VfKnows(d, e, m) /\ d.q \in d.queues
  /\ Asked(u, w, [op |-> "QNOTIFY_DEL", qid_hw |-> d.conf.qbase + d.q])
  /\ Counts(e, d.queues)
HelloPending(d, e, m, u, w) ==
  d = [Closed EXCEPT !.pc = "hello"] /\ Asked(u, w, Hello) /\ Left(e, m)
ByePending(d, e, m, u, w) ==
  /\ Leaving(e, m) /\ w = <<>>
  /\ \/ d = Closed /\ Tail(u) = <<>>
     \/ d = [Closed EXCEPT !.pc = "hello"] /\ Tail(u) = <<Hello>>

LEMMA Pending ==
  ASSUME NEW d, NEW e, NEW m, NEW u, NEW w, VfAgrees(d, e, m, u, w), u # <<>>
  PROVE  /\ Head(u).op = "HELLO" => HelloPending(d, e, m, u, w)
         /\ Head(u).op = "QREQ" => QreqPending(d, e, m, u, w)
         /\ Head(u).op = "FMAP" => FmapPending(d, e, m, u, w)
         /\ Head(u).op = "QNOTIFY_ADD" => AddPending(d, e, m, u, w)
         /\ Head(u).op = "QNOTIFY_DEL" => DelPending(d, e, m, u, w)
         /\ Head(u).op = "VF_BYE" => ByePending(d, e, m, u, w)
  <1>0. \A x : Head(<<x>>) = x /\ Tail(<<x>>) = <<>>
    OBVIOUS
  <1>1. CASE VfClosedAgrees(d, e, m, u, w)
    <2>1. d = Closed /\ w = <<>> /\ u = <<Bye>> /\ Leaving(e, m)
      BY <1>1 DEF VfClosedAgrees
    <2>2. Head(u) = Bye /\ Tail(u) = <<>>
      BY <1>0, <2>1
    <2> QED
      BY <2>1, <2>2 DEF ByePending, Bye
  <1>2. CASE VfHelloAgrees(d, e, m, u, w)
    <2>1. CASE u = <<Bye, Hello>> /\ w = <<>> /\ Leaving(e, m)
      <3>1. Head(u) = Bye /\ Tail(u) = <<Hello>>
        BY <2>1
      <3> QED
        BY <1>2, <2>1, <3>1 DEF ByePending, Bye, VfHelloAgrees
    <2>2. CASE Asked(u, w, Hello) /\ Left(e, m)
      <3>1. Head(u) = Hello
        BY <2>2 DEF Asked
      <3> QED
        BY <1>2, <2>2, <3>1 DEF HelloPending, Hello, VfHelloAgrees
    <2> QED
      BY <1>2, <2>1, <2>2 DEF VfHelloAgrees, Told
  <1>3. ~ VfIdleAgrees(d, e, m, u, w) /\ ~ VfSweepAgrees(d, e, m, u, w)
    BY DEF VfIdleAgrees, VfSweepAgrees, Quiet
  <1>4. CASE VfQreqAgrees(d, e, m, u, w)
    <2>1. PICK qmax \in Sizes : Asked(u, w, [op |-> "QREQ", qmax |-> qmax])
      BY <1>4 DEF VfQreqAgrees, Told
    <2>2. /\ u = <<[op |-> "QREQ", qmax |-> qmax]>>
          /\ w = <<>> /\ Head(u) = [op |-> "QREQ", qmax |-> qmax] /\ Tail(u) = <<>>
      BY <2>1 DEF Asked
    <2>3. VfKnows(d, e, m) /\ Counts(e, d.queues) /\ d.pc = "qreq" /\ ~ d.closing
      BY <1>4, <2>2 DEF VfQreqAgrees, Told
    <2> QED
      BY <2>2, <2>3 DEF QreqPending
  <1>5. CASE VfFmapAgrees(d, e, m, u, w)
    <2>1. Asked(u, w, [op |-> "FMAP", range |-> d.conf]) /\ m = NoFmap
      BY <1>5 DEF VfFmapAgrees, Told
    <2>2. Head(u) = [op |-> "FMAP", range |-> d.conf]
      BY <2>1 DEF Asked
    <2> QED
      BY <1>5, <2>1, <2>2 DEF FmapPending
  <1>6. CASE VfAddAgrees(d, e, m, u, w)
    <2>1. /\ Asked(u, w, [op |-> "QNOTIFY_ADD", qid_hw |-> d.conf.qbase + d.q])
          /\ Counts(e, d.queues \ {d.q})
      BY <1>6 DEF VfAddAgrees, Told
    <2>2. Head(u) = [op |-> "QNOTIFY_ADD", qid_hw |-> d.conf.qbase + d.q]
      BY <2>1 DEF Asked
    <2>3. Head(u).op = "QNOTIFY_ADD"
      BY <2>2
    <2> QED
      BY <1>6, <2>1, <2>3 DEF AddPending, VfAddAgrees
  <1>7. CASE VfDelAgrees(d, e, m, u, w)
    <2>1. /\ Asked(u, w, [op |-> "QNOTIFY_DEL", qid_hw |-> d.conf.qbase + d.q])
          /\ Counts(e, d.queues)
      BY <1>7 DEF VfDelAgrees, Told
    <2>2. Head(u) = [op |-> "QNOTIFY_DEL", qid_hw |-> d.conf.qbase + d.q]
      BY <2>1 DEF Asked
    <2>3. Head(u).op = "QNOTIFY_DEL"
      BY <2>2
    <2> QED
      BY <1>7, <2>1, <2>3 DEF DelPending, VfDelAgrees
  <1> QED
    BY <1>1, <1>2, <1>3, <1>4, <1>5, <1>6, <1>7 DEF VfAgrees

(***************************************************************************)
(* What each operation of the books does to the entry of its function.     *)
(***************************************************************************)
\* The other entries stay.
Elsewhere(f) == \A g \in Funcs \ {f} : dev'[g] = dev[g]

\* An entry and what it is after a request that was refused.
SameRange(e, e2) ==
  /\ e2.there = e.there /\ e2.active = e.active
  /\ e2.range.total_q = e.range.total_q
  /\ e.range.total_q > 0 => e2.range = e.range

LEMMA OpCreate ==
  ASSUME BooksInv, NEW f \in Funcs, RM!DevCreate(f)
  PROVE  /\ Elsewhere(f) /\ SameCounts /\ ~ dev[f].there
         /\ dev'[f] = [RM!NoEntry EXCEPT !.there = TRUE]
  <1>1. dev \in [Funcs -> Entry] /\ (~ dev[f].there => dev[f] = RM!NoEntry)
    BY OfFunction
  <1>2. dev' = [dev EXCEPT ![f] = [RM!NoEntry EXCEPT !.there = TRUE]] /\ ~ dev[f].there
        /\ active_qcnt' = active_qcnt
    BY DEF RM!DevCreate
  <1>3. dev'[f] = [RM!NoEntry EXCEPT !.there = TRUE] /\ Elsewhere(f)
    BY <1>1, <1>2 DEF Elsewhere
  <1>4. dev'[f].active = dev[f].active
    BY <1>1, <1>2, <1>3, Nothing DEF RM!NoEntry
  <1> QED
    BY <1>2, <1>3, <1>4 DEF Elsewhere, SameCounts

LEMMA OpDestroy ==
  ASSUME BooksInv, NEW f \in Funcs, RM!DevDestroy(f), dev[f].active = 0
  PROVE  Elsewhere(f) /\ SameCounts /\ dev'[f] = RM!NoEntry
  <1>1. dev \in [Funcs -> Entry]
    BY OfFunction
  <1>2. dev' = [dev EXCEPT ![f] = RM!NoEntry] /\ active_qcnt' = active_qcnt
    BY DEF RM!DevDestroy
  <1>3. dev'[f] = RM!NoEntry /\ Elsewhere(f)
    BY <1>1, <1>2 DEF Elsewhere
  <1> QED
    BY <1>2, <1>3, Nothing DEF Elsewhere, SameCounts

LEMMA OpClose ==
  ASSUME BooksInv, NEW f \in Funcs, RM!Close(f), dev[f].active = 0
  PROVE  Elsewhere(f) /\ Tallied /\ dev'[f] = RM!NoEntry
  <1>1. CASE \E g \in Funcs \ {f} : dev[g].there
    BY <1>1, OpDestroy, Zenon DEF RM!Close, Tallied
  <1>2. CASE ~ \E g \in Funcs \ {f} : dev[g].there
    <2>1. dev' = [dev EXCEPT ![f] = RM!NoEntry] /\ active_qcnt' = 0
      BY <1>2, Zenon DEF RM!Close
    <2>2. dev'[f] = RM!NoEntry /\ Elsewhere(f)
      BY <2>1, OfFunction DEF Elsewhere
    <2>3. ASSUME NEW g \in Funcs PROVE dev'[g].active = 0
      <3>1. CASE g = f
        BY <2>2, <3>1, Nothing
      <3>2. CASE g # f
        <4>1. dev'[g] = dev[g] /\ ~ dev[g].there
          BY <1>2, <2>2, <3>2 DEF Elsewhere
        <4>2. dev[g] = RM!NoEntry
          BY <4>1, OfFunction
        <4> QED
          BY <4>1, <4>2, Nothing
      <3> QED
        BY <3>1, <3>2
    <2> QED
      BY <2>1, <2>2, <2>3 DEF Tallied, Restart
  <1> QED
    BY <1>1, <1>2

LEMMA OpIncrement ==
  ASSUME BooksInv, NEW f \in Funcs, RM!Increment(f)
  PROVE  Elsewhere(f) /\ OneMore(f) /\ dev'[f] = [dev[f] EXCEPT !.active = @ + 1]
  BY OfFunction DEF RM!Increment, Elsewhere, OneMore

LEMMA OpDecrement ==
  ASSUME BooksInv, NEW f \in Funcs, RM!Decrement(f), dev[f].active > 0
  PROVE  Elsewhere(f) /\ OneLess(f) /\ dev'[f] = [dev[f] EXCEPT !.active = @ - 1]
  <1>1. RM!Fewer(dev[f].active) = dev[f].active - 1
    BY DEF RM!Fewer
  <1>2. /\ dev' = [dev EXCEPT ![f].active = RM!Fewer(@)]
        /\ active_qcnt' = (active_qcnt - 1) % CountMod
    BY DEF RM!Decrement
  <1>3. dev' = [dev EXCEPT ![f].active = @ - 1]
    BY <1>1, <1>2
  <1> QED
    BY <1>2, <1>3, OfFunction DEF Elsewhere, OneLess

\* Runs with the same queues.
LEMMA SameQueues ==
  ASSUME NEW r \in RM!Run, NEW s \in RM!Run, RM!Queues(r) = RM!Queues(s)
  PROVE  r.total_q = s.total_q /\ (r.total_q > 0 => r = s)
  <1>1. /\ r.qbase \in Int /\ r.total_q \in Nat /\ s.qbase \in Int /\ s.total_q \in Nat
        /\ r = [qbase |-> r.qbase, total_q |-> r.total_q]
        /\ s = [qbase |-> s.qbase, total_q |-> s.total_q]
    BY DEF RM!Run
  <1>2. r.qbase .. (r.qbase + r.total_q - 1) = s.qbase .. (s.qbase + s.total_q - 1)
    BY <1>1 DEF RM!Queues, RM!End
  <1>3. ASSUME NEW a \in Int, NEW m \in Nat, NEW b \in Int, NEW n \in Nat,
               a .. (a + m - 1) = b .. (b + n - 1), m > 0
        PROVE  a = b /\ m = n
    <2>1. a \in b .. (b + n - 1) /\ a + m - 1 \in b .. (b + n - 1)
      BY <1>3
    <2>2. b \in a .. (a + m - 1) /\ b + n - 1 \in a .. (a + m - 1)
      BY <1>3, <2>1
    <2> QED
      BY <2>1, <2>2
  <1>4. r.total_q > 0 => r.qbase = s.qbase /\ r.total_q = s.total_q
    BY <1>1, <1>2, <1>3
  <1>5. s.total_q > 0 => r.qbase = s.qbase /\ r.total_q = s.total_q
    BY <1>1, <1>2, <1>3
  <1>6. r.total_q > 0 => r = s
    BY <1>1, <1>4, Zenon
  <1>7. r.total_q = s.total_q
    BY <1>1, <1>4, <1>5
  <1> QED
    BY <1>6, <1>7

LEMMA RequestResult ==
  ASSUME NEW list, NEW range, NEW qmax, NEW qbase, NEW o \in RM!Request(list, range, qmax, qbase)
  PROVE  o.rv \in {"ok", "refused"}
  BY DEF RM!Request

LEMMA OpUpdate ==
  ASSUME BooksInv, NEW f \in Funcs, NEW qmax \in Sizes, NEW rv,
         RM!DevUpdate(f, qmax, -1, rv), ~ nomem'
  PROVE  /\ Elsewhere(f) /\ SameCounts
         /\ IF rv = "ok"
            THEN dev[f].there /\ dev[f].active = 0 /\ dev'[f].there /\ dev'[f].active = 0
            ELSE SameRange(dev[f], dev'[f])
  <1>1. CASE UNCHANGED RM!vars /\ rv # "ok"
    BY <1>1 DEF RM!vars, Elsewhere, SameCounts, SameRange
  <1>2. ASSUME dev[f].there, ~ RM!InUse(f),
               NEW o \in RM!Request(free, dev[f].range, qmax, -1),
               rv = o.rv, dev' = [dev EXCEPT ![f].range = o.range], nomem' = (nomem \/ o.nomem),
               active_qcnt' = active_qcnt
        PROVE  /\ Elsewhere(f) /\ SameCounts
               /\ IF rv = "ok"
                  THEN dev[f].there /\ dev[f].active = 0 /\ dev'[f].there /\ dev'[f].active = 0
                  ELSE SameRange(dev[f], dev'[f])
    <2>1. dev \in [Funcs -> Entry] /\ dev[f].active = 0
      BY <1>2, OfFunction DEF RM!InUse, Entry
    <2>2. Elsewhere(f) /\ SameCounts /\ dev'[f] = [dev[f] EXCEPT !.range = o.range]
      BY <1>2, <2>1 DEF Elsewhere, SameCounts, Entry
    <2>3. CASE rv = "ok"
      BY <1>2, <2>1, <2>2, <2>3 DEF Entry
    <2>4. CASE rv # "ok"
      <3>1. GoodOutcome(free, dev[f].range, o)
        <4>1. -1 \in -1..TotalQ
          OBVIOUS
        <4> QED
          BY <1>2, <4>1, OfFunction, RequestSound
      <3>2. o.rv = "refused"
        BY <1>2, <2>4, RequestResult
      <3>3. RM!Queues(o.range) = RM!Queues(dev[f].range) /\ o.range \in RM!Run
        BY <1>2, <3>1, <3>2 DEF GoodOutcome, Held
      <3>4. dev[f].range \in RM!Run
        BY <2>1 DEF Entry
      <3>5. /\ o.range.total_q = dev[f].range.total_q
            /\ o.range.total_q > 0 => o.range = dev[f].range
        BY <3>3, <3>4, SameQueues
      <3>6. /\ dev'[f].range = o.range /\ dev'[f].there = dev[f].there
            /\ dev'[f].active = dev[f].active
        BY <2>1, <2>2 DEF Entry
      <3>7. SameRange(dev[f], dev'[f])
        BY <3>5, <3>6 DEF SameRange
      <3> QED
        BY <2>2, <2>4, <3>7
    <2> QED
      BY <2>2, <2>3, <2>4
  <1> QED
    BY <1>1, <1>2 DEF RM!DevUpdate

(***************************************************************************)
(* A step that changes one function.                                       *)
(***************************************************************************)
\* The other functions, their drivers, registers and messages stay.
OnlyOf(f) ==
  /\ Elsewhere(f)
  /\ \A g \in Funcs \ {f} : drv'[g] = drv[g] /\ fmap'[g] = fmap[g]
  /\ \A g \in Vfs \ {f} : up'[g] = up[g] /\ down'[g] = down[g]

LEMMA OneFunction ==
  ASSUME Agreement, NEW f \in Funcs, OnlyOf(f),
         f = Pf => PfAgrees(drv'[f], dev'[f], fmap'[f]),
         f # Pf => VfAgrees(drv'[f], dev'[f], fmap'[f], up'[f], down'[f])
  PROVE  Agreement'
  <1>1. PfAgrees(drv'[Pf], dev'[Pf], fmap'[Pf])
    <2>1. CASE f = Pf
      BY <2>1
    <2>2. CASE f # Pf
      <3>1. drv'[Pf] = drv[Pf] /\ dev'[Pf] = dev[Pf] /\ fmap'[Pf] = fmap[Pf]
        BY <2>2 DEF OnlyOf, Elsewhere, Funcs
      <3> QED
        BY <3>1 DEF Agreement
    <2> QED
      BY <2>1, <2>2
  <1>2. ASSUME NEW v \in Vfs
        PROVE  VfAgrees(drv'[v], dev'[v], fmap'[v], up'[v], down'[v])
    <2>1. CASE f = v
      BY <2>1
    <2>2. CASE f # v
      <3>1. /\ drv'[v] = drv[v] /\ dev'[v] = dev[v] /\ fmap'[v] = fmap[v]
            /\ up'[v] = up[v] /\ down'[v] = down[v]
        BY <2>2 DEF OnlyOf, Elsewhere, Funcs
      <3> QED
        BY <3>1 DEF Agreement
    <2> QED
      BY <2>1, <2>2
  <1> QED
    BY <1>1, <1>2 DEF Agreement

\* What the types say of one function.
LEMMA OfTypes ==
  ASSUME IInv, NEW f \in Funcs
  PROVE  /\ drv \in [Funcs -> Driver] /\ fmap \in [Funcs -> RM!Run]
         /\ drv[f] \in Driver /\ dev[f] \in Entry /\ fmap[f] \in RM!Run
         /\ BooksInv /\ dev[f].active <= dev[f].range.total_q /\ dev \in [Funcs -> Entry]
  BY OfFunction DEF IInv, Typed

(***************************************************************************)
(* The physical function.                                                  *)
(***************************************************************************)
LEMMA PfIsFunc == Pf \in Funcs
  BY DEF Funcs

LEMMA PfIdle ==
  ASSUME NEW d, NEW e, NEW m, PfAgrees(d, e, m), d.pc = "idle"
  PROVE  ~ d.closing /\ Knows(d, e, m) /\ Counts(e, d.queues)
  BY DEF PfAgrees, Closed

\* A new queue.
LEMMA PfAddAgrees ==
  ASSUME NEW d \in Driver, NEW e \in Entry, NEW m \in RM!Run, PfAgrees(d, e, m), d.pc = "idle",
         e.active < d.conf.total_q, NEW i \in (0..(d.conf.total_q - 1)) \ d.queues,
         NEW d2, d2 = [d EXCEPT !.queues = @ \cup {i}, !.init_qrange = TRUE],
         NEW m2, m2 = IF d.init_qrange THEN m ELSE d.conf
  PROVE  /\ e.there /\ e.range.total_q >= e.active + 1
         /\ PfAgrees(d2, [e EXCEPT !.active = @ + 1], m2)
  <1> DEFINE e2 == [e EXCEPT !.active = @ + 1]
  <1>1. Knows(d, e, m) /\ Counts(e, d.queues) /\ ~ d.closing
    BY PfIdle
  <1>2. /\ d.conf \in RM!Run /\ e.active \in 0..TotalQ /\ d.queues \in SUBSET (0..(TotalQ - 1))
        /\ e.range \in RM!Run
    BY DEF Driver, Entry
  <1>3. d.conf.total_q \in 0..TotalQ
    BY <1>2 DEF RM!Run
  <1>4. e.there /\ e.range.total_q = d.conf.total_q /\ e.range = d.conf
    BY <1>1, <1>2, <1>3 DEF Knows
  <1>5. e.range.total_q >= e.active + 1
    BY <1>2, <1>3, <1>4
  <1>6. /\ d2.queues = d.queues \cup {i} /\ d2.init_qrange /\ d2.conf = d.conf
        /\ d2.pc = "idle" /\ d2.closing = d.closing
    BY DEF Driver
  <1>7. e2.active = e.active + 1 /\ e2.there = e.there /\ e2.range = e.range
    BY DEF Entry
  <1>8. m2 = d.conf
    BY <1>1 DEF Knows
  <1>9. Knows(d2, e2, m2)
    BY <1>1, <1>4, <1>6, <1>7, <1>8 DEF Knows
  <1>10. Counts(e2, d2.queues)
    <2>1. Cardinality(d.queues \cup {i}) = Cardinality(d.queues) + 1
      BY <1>2, Sized
    <2> QED
      BY <1>1, <1>6, <1>7, <2>1 DEF Counts
  <1> HIDE DEF e2
  <1>11. PfAgrees(d2, e2, m2)
    BY <1>1, <1>6, <1>9, <1>10 DEF PfAgrees
  <1> QED
    BY <1>4, <1>5, <1>11 DEF e2

\* One queue less.
LEMMA PfRemoveAgrees ==
  ASSUME NEW d \in Driver, NEW e \in Entry, NEW m \in RM!Run, PfAgrees(d, e, m),
         d.pc \in {"idle", "sweep"}, NEW i \in d.queues,
         NEW d2, d2 = [d EXCEPT !.queues = @ \ {i}]
  PROVE  e.active > 0 /\ PfAgrees(d2, [e EXCEPT !.active = @ - 1], m)
  <1> DEFINE e2 == [e EXCEPT !.active = @ - 1]
  <1>1. /\ Knows(d, e, m) /\ Counts(e, d.queues)
        /\ \/ d.pc = "idle" /\ ~ d.closing
           \/ d.pc = "sweep" /\ d.closing
    BY DEF PfAgrees, Closed, Changing
  <1>2. d.queues \in SUBSET (0..(TotalQ - 1)) /\ e.active \in Nat
    BY DEF Driver, Entry
  <1>3. Cardinality(d.queues \ {i}) = Cardinality(d.queues) - 1 /\ Cardinality(d.queues) # 0
    BY <1>2, Sized
  <1>4. /\ d2.queues = d.queues \ {i} /\ d2.init_qrange = d.init_qrange /\ d2.conf = d.conf
        /\ d2.pc = d.pc /\ d2.closing = d.closing
    BY DEF Driver
  <1>5. e2.active = e.active - 1 /\ e2.there = e.there /\ e2.range = e.range
    BY DEF Entry
  <1>6. e.active > 0 /\ Counts(e2, d2.queues)
    BY <1>1, <1>2, <1>3, <1>4, <1>5 DEF Counts
  <1>7. Knows(d2, e2, m)
    BY <1>1, <1>4, <1>5 DEF Knows
  <1> HIDE DEF e2
  <1>8. PfAgrees(d2, e2, m)
    BY <1>1, <1>4, <1>6, <1>7 DEF PfAgrees
  <1> QED
    BY <1>6, <1>8 DEF e2

\* No queue is counted: none is there.
LEMMA NoneCounted ==
  ASSUME NEW d \in Driver, NEW e, Counts(e, d.queues), e.active = 0
  PROVE  d.queues = {}
  BY Sized DEF Driver, Counts

LEMMA ZeroQueues == Cardinality({}) = 0
  BY FS_EmptySet

\* A new range takes the place of one that has no queues in use.
LEMMA PfReinitAgrees ==
  ASSUME NEW d \in Driver, NEW e \in Entry, NEW m, Changing(d, e, d.next),
         NEW d2, d2 = [Closed EXCEPT !.pc = "idle", !.conf = d.next]
  PROVE  /\ Knows(d2, e, m) /\ Counts(e, d2.queues)
         /\ d2.pc = "idle" /\ ~ d2.closing /\ ~ d2.init_qrange
  <1>1. /\ d2.queues = {} /\ ~ d2.init_qrange /\ d2.conf = e.range /\ d2.pc = "idle" /\ ~ d2.closing
        /\ e.there /\ e.active = 0
    BY DEF Changing, Closed
  <1> QED
    BY <1>1, ZeroQueues DEF Knows, Counts

\* A range that is the same, or has no queues as it had before.
LEMMA KnowsSame ==
  ASSUME NEW d \in Driver, NEW e \in Entry, NEW e2, NEW m, Knows(d, e, m), SameRange(e, e2)
  PROVE  Knows(d, e2, m)
  BY DEF Knows, SameRange

LEMMA PfSteps ==
  ASSUME IInv, IInv', Agreement, ~ nomem',
         PfOpen \/ PfSetQmax \/ PfAddQueue \/ PfRemoveQueue \/ PfClose \/ PfClosed \/ Reinit(Pf)
  PROVE  Agreement' /\ Tallied
  <1> DEFINE d == drv[Pf]  e == dev[Pf]  m == fmap[Pf]
  <1>0. /\ drv \in [Funcs -> Driver] /\ fmap \in [Funcs -> RM!Run] /\ dev \in [Funcs -> Entry]
        /\ d \in Driver /\ e \in Entry /\ m \in RM!Run /\ BooksInv
        /\ PfAgrees(d, e, m) /\ Pf \in Funcs /\ Vfs \subseteq Funcs
    BY OfTypes, PfIsFunc DEF Agreement, Funcs
  <1>a. ASSUME UNCHANGED books PROVE Elsewhere(Pf) /\ SameCounts /\ dev'[Pf] = e
    BY <1>a DEF books, Elsewhere, SameCounts
  <1>b. ASSUME Elsewhere(Pf), UNCHANGED <<up, down>>,
               \A g \in Funcs \ {Pf} : drv'[g] = drv[g] /\ fmap'[g] = fmap[g],
               PfAgrees(drv'[Pf], dev'[Pf], fmap'[Pf])
        PROVE  Agreement'
    BY <1>0, <1>b, OneFunction DEF OnlyOf
  <1>1. CASE PfOpen
    <2>1. d = Closed /\ e.active = 0
      BY <1>0, <1>1 DEF PfOpen, PfAgrees
    <2>2. /\ Elsewhere(Pf) /\ SameCounts /\ dev'[Pf].active = 0 /\ dev'[Pf].there
      <3>1. CASE RM!DevCreate(Pf)
        BY <1>0, <2>1, <3>1, OpCreate, Nothing DEF RM!NoEntry
      <3>2. CASE dev[Pf].there /\ UNCHANGED books
        BY <1>a, <2>1, <3>2
      <3> QED
        BY <1>1, <3>1, <3>2 DEF PfOpen
    <2>3. CASE UNCHANGED drv
      BY <1>1, <1>b, <2>1, <2>2, <2>3 DEF PfOpen, PfAgrees, Tallied
    <2>4. CASE drv' = [drv EXCEPT ![Pf].pc = "idle", ![Pf].conf = dev'[Pf].range]
      <3> DEFINE d2 == drv'[Pf]
      <3>1. d2 = [Closed EXCEPT !.pc = "idle", !.conf = dev'[Pf].range]
        BY <1>0, <2>1, <2>4
      <3>2. /\ d2.pc = "idle" /\ ~ d2.closing /\ d2.conf = dev'[Pf].range /\ d2.queues = {}
            /\ ~ d2.init_qrange
        BY <3>1 DEF Closed
      <3> HIDE DEF d2
      <3>3. Knows(d2, dev'[Pf], fmap'[Pf]) /\ Counts(dev'[Pf], d2.queues)
        BY <2>2, <3>2, ZeroQueues DEF Knows, Counts
      <3>4. PfAgrees(d2, dev'[Pf], fmap'[Pf])
        BY <3>2, <3>3 DEF PfAgrees
      <3>5. \A g \in Funcs \ {Pf} : drv'[g] = drv[g]
        BY <1>0, <2>4
      <3> QED
        BY <1>1, <1>b, <2>2, <3>4, <3>5 DEF PfOpen, Tallied, d2
    <2> QED
      BY <1>1, <2>3, <2>4 DEF PfOpen
  <1>2. CASE PfSetQmax
    <2>1. PICK qmax \in Sizes, rv \in RM!Results :
            /\ RM!DevUpdate(Pf, qmax, -1, rv)
            /\ IF rv = "ok"
               THEN drv' = [drv EXCEPT ![Pf].pc = "sweep", ![Pf].next = dev'[Pf].range]
               ELSE UNCHANGED drv
      BY <1>2 DEF PfSetQmax
    <2>2. /\ Elsewhere(Pf) /\ SameCounts
          /\ IF rv = "ok" THEN e.there /\ e.active = 0 /\ dev'[Pf].there /\ dev'[Pf].active = 0
                          ELSE SameRange(e, dev'[Pf])
      BY <1>0, <2>1, OpUpdate
    <2>3. /\ d.pc = "idle" /\ ~ d.closing /\ Knows(d, e, m) /\ Counts(e, d.queues)
          /\ UNCHANGED <<fmap, up, down>>
      BY <1>0, <1>2, PfIdle DEF PfSetQmax
    <2>4. CASE rv = "ok"
      <3>1. drv'[Pf] = [d EXCEPT !.pc = "sweep", !.next = dev'[Pf].range]
        BY <1>0, <2>1, <2>4
      <3>2. d.queues = {}
        BY <1>0, <2>2, <2>3, <2>4, NoneCounted
      <3>3. /\ drv'[Pf].pc = "sweep" /\ ~ drv'[Pf].closing /\ drv'[Pf].next = dev'[Pf].range
            /\ drv'[Pf].queues = {}
        BY <1>0, <2>3, <3>1, <3>2 DEF Driver
      <3>4. PfAgrees(drv'[Pf], dev'[Pf], fmap'[Pf])
        BY <2>2, <2>4, <3>3 DEF PfAgrees, Changing
      <3>5. \A g \in Funcs \ {Pf} : drv'[g] = drv[g]
        BY <1>0, <2>1, <2>4
      <3> QED
        BY <1>b, <2>2, <2>3, <3>4, <3>5 DEF Tallied
    <2>5. CASE rv # "ok"
      <3>1. UNCHANGED drv /\ SameRange(e, dev'[Pf])
        BY <2>1, <2>2, <2>5
      <3>2. Knows(d, dev'[Pf], m) /\ Counts(dev'[Pf], d.queues)
        BY <1>0, <2>3, <3>1, KnowsSame DEF Counts, SameRange
      <3>3. PfAgrees(drv'[Pf], dev'[Pf], fmap'[Pf])
        BY <2>3, <3>1, <3>2 DEF PfAgrees
      <3> QED
        BY <1>b, <2>2, <2>3, <3>1, <3>3 DEF Tallied
    <2> QED
      BY <2>4, <2>5
  <1>3. CASE PfAddQueue
    <2>1. PICK i \in Unused(Pf) :
            drv' = [drv EXCEPT ![Pf].queues = @ \cup {i}, ![Pf].init_qrange = TRUE]
      BY <1>3 DEF PfAddQueue
    <2>2. /\ d.pc = "idle" /\ e.active < d.conf.total_q /\ UNCHANGED <<up, down>>
          /\ i \in (0..(d.conf.total_q - 1)) \ d.queues
      BY <1>3, <2>1 DEF PfAddQueue, MayAdd, Unused
    <2>3. /\ drv'[Pf] = [d EXCEPT !.queues = @ \cup {i}, !.init_qrange = TRUE]
          /\ \A g \in Funcs \ {Pf} : drv'[g] = drv[g]
      BY <1>0, <2>1
    <2>4. /\ fmap'[Pf] = IF d.init_qrange THEN m ELSE d.conf
          /\ \A g \in Funcs \ {Pf} : fmap'[g] = fmap[g]
      BY <1>0, <1>3 DEF PfAddQueue, Mapped
    <2>5. /\ e.there /\ e.range.total_q >= e.active + 1
          /\ PfAgrees(drv'[Pf], [e EXCEPT !.active = @ + 1], fmap'[Pf])
      BY <1>0, <2>2, <2>3, <2>4, PfAddAgrees
    <2>6. RM!Increment(Pf)
      BY <1>3, <2>5 DEF PfAddQueue, RM!MayCount
    <2>7. Elsewhere(Pf) /\ OneMore(Pf) /\ dev'[Pf] = [e EXCEPT !.active = @ + 1]
      BY <1>0, <2>6, OpIncrement
    <2> QED
      BY <1>0, <1>b, <2>2, <2>3, <2>4, <2>5, <2>7 DEF Tallied
  <1>4. CASE PfRemoveQueue
    <2>1. PICK i \in d.queues : drv' = [drv EXCEPT ![Pf].queues = @ \ {i}]
      BY <1>4 DEF PfRemoveQueue
    <2>2. /\ drv'[Pf] = [d EXCEPT !.queues = @ \ {i}]
          /\ \A g \in Funcs \ {Pf} : drv'[g] = drv[g]
      BY <1>0, <2>1
    <2>3. d.pc \in {"idle", "sweep"} /\ RM!Decrement(Pf) /\ UNCHANGED <<fmap, up, down>>
      BY <1>4 DEF PfRemoveQueue
    <2>4. e.active > 0 /\ PfAgrees(drv'[Pf], [e EXCEPT !.active = @ - 1], m)
      BY <1>0, <2>2, <2>3, PfRemoveAgrees
    <2>5. Elsewhere(Pf) /\ OneLess(Pf) /\ dev'[Pf] = [e EXCEPT !.active = @ - 1]
      BY <1>0, <2>3, <2>4, OpDecrement
    <2> QED
      BY <1>0, <1>b, <2>2, <2>3, <2>4, <2>5 DEF Tallied
  <1>5. CASE PfClose
    <2>1. /\ drv' = [drv EXCEPT ![Pf].pc = "sweep", ![Pf].closing = TRUE] /\ d.pc = "idle"
          /\ UNCHANGED <<books, fmap, up, down>>
      BY <1>5 DEF PfClose
    <2>2. /\ drv'[Pf] = [d EXCEPT !.pc = "sweep", !.closing = TRUE]
          /\ \A g \in Funcs \ {Pf} : drv'[g] = drv[g]
      BY <1>0, <2>1
    <2>3. Knows(d, e, m) /\ Counts(e, d.queues)
      BY <1>0, <2>1, PfIdle
    <2>4. /\ drv'[Pf].pc = "sweep" /\ drv'[Pf].closing /\ drv'[Pf].conf = d.conf
          /\ drv'[Pf].queues = d.queues /\ drv'[Pf].init_qrange = d.init_qrange
      BY <1>0, <2>2 DEF Driver
    <2>5. PfAgrees(drv'[Pf], e, m)
      BY <2>3, <2>4 DEF PfAgrees, Knows
    <2> QED
      BY <1>a, <1>b, <2>1, <2>2, <2>5 DEF Tallied
  <1>6. CASE PfClosed
    <2>1. /\ drv' = [drv EXCEPT ![Pf] = Closed] /\ d.pc = "sweep" /\ d.queues = {}
          /\ RM!Close(Pf) /\ UNCHANGED <<fmap, up, down>>
      BY <1>6 DEF PfClosed
    <2>2. drv'[Pf] = Closed /\ \A g \in Funcs \ {Pf} : drv'[g] = drv[g]
      BY <1>0, <2>1
    <2>3. e.active = 0
      BY <1>0, <2>1, ZeroQueues DEF PfAgrees, Counts, Changing, Closed
    <2>4. Elsewhere(Pf) /\ Tallied /\ dev'[Pf] = RM!NoEntry
      BY <1>0, <2>1, <2>3, OpClose
    <2>5. PfAgrees(drv'[Pf], dev'[Pf], fmap'[Pf])
      BY <2>2, <2>4, Nothing DEF PfAgrees
    <2> QED
      BY <1>b, <2>1, <2>2, <2>4, <2>5
  <1>7. CASE Reinit(Pf)
    <2>1. /\ drv' = [drv EXCEPT ![Pf] = [Closed EXCEPT !.pc = "idle", !.conf = d.next]]
          /\ d.pc = "sweep" /\ d.queues = {} /\ ~ d.closing /\ UNCHANGED <<books, fmap, up, down>>
      BY <1>7 DEF Reinit
    <2>2. /\ drv'[Pf] = [Closed EXCEPT !.pc = "idle", !.conf = d.next]
          /\ \A g \in Funcs \ {Pf} : drv'[g] = drv[g]
      BY <1>0, <2>1
    <2>3. Changing(d, e, d.next)
      BY <1>0, <2>1 DEF PfAgrees, Closed
    <2>4. PfAgrees(drv'[Pf], e, m)
      BY <1>0, <2>2, <2>3, PfReinitAgrees DEF PfAgrees
    <2> QED
      BY <1>a, <1>b, <2>1, <2>2, <2>4 DEF Tallied
  <1> QED
    BY <1>1, <1>2, <1>3, <1>4, <1>5, <1>6, <1>7

(***************************************************************************)
(* Serving a message.                                                      *)
(***************************************************************************)
LEMMA Singles == \A x : Append(<<>>, x) = <<x>> /\ Tail(<<x>>) = <<>> /\ Head(<<x>>) = x
  OBVIOUS

LEMMA NothingWithin == RM!Queues(NoFmap) = {}
  BY DEF RM!Queues, RM!End, NoFmap

\* What serving a message does to the messages of its function and to the others.
Served(v, ok, r) ==
  /\ up'[v] = Tail(up[v]) /\ drv' = drv
  /\ down'[v] = Append(down[v], [op |-> Head(up[v]).op, ok |-> ok, range |-> r])
  /\ \A g \in Vfs \ {v} : up'[g] = up[g] /\ down'[g] = down[g]

LEMMA ServeMoves ==
  ASSUME IInv, NEW v \in Vfs, NEW op, Serve(v, op)
  PROVE  /\ up[v] # <<>> /\ Head(up[v]).op = op /\ drv' = drv /\ up'[v] = Tail(up[v])
         /\ \A g \in Vfs \ {v} : up'[g] = up[g]
         /\ \A ok, r : Answer(v, ok, r) => Served(v, ok, r)
         /\ down' = down => \A g \in Vfs : down'[g] = down[g]
  BY DEF Serve, Answer, Served, IInv, Typed

\* A function's steps and those of the physical function on its behalf.
LEMMA VfIsFunc ==
  ASSUME NEW v \in Vfs
  PROVE  v \in Funcs /\ v # Pf
  BY DEF Funcs

LEMMA AgreesOf ==
  ASSUME IInv, Agreement, NEW v \in Vfs
  PROVE  /\ VfAgrees(drv[v], dev[v], fmap[v], up[v], down[v])
         /\ drv[v] \in Driver /\ dev[v] \in Entry /\ fmap[v] \in RM!Run /\ v \in Funcs /\ v # Pf
         /\ BooksInv /\ dev[v].active <= dev[v].range.total_q
         /\ drv \in [Funcs -> Driver] /\ fmap \in [Funcs -> RM!Run] /\ dev \in [Funcs -> Entry]
  BY VfIsFunc, OfTypes DEF Agreement

\* ... and at the place where the driver is.
LEMMA AgreesAt ==
  ASSUME IInv, Agreement, NEW v \in Vfs
  PROVE  /\ drv[v].pc = "hello" => VfHelloAgrees(drv[v], dev[v], fmap[v], up[v], down[v])
         /\ drv[v].pc = "idle"  => VfIdleAgrees(drv[v], dev[v], fmap[v], up[v], down[v])
         /\ drv[v].pc = "qreq"  => VfQreqAgrees(drv[v], dev[v], fmap[v], up[v], down[v])
         /\ drv[v].pc = "sweep" => VfSweepAgrees(drv[v], dev[v], fmap[v], up[v], down[v])
         /\ drv[v].pc = "fmap"  => VfFmapAgrees(drv[v], dev[v], fmap[v], up[v], down[v])
         /\ drv[v].pc = "qadd"  => VfAddAgrees(drv[v], dev[v], fmap[v], up[v], down[v])
         /\ drv[v].pc \in {"qdel", "swept"} =>
              VfDelAgrees(drv[v], dev[v], fmap[v], up[v], down[v])
  <1>1. VfAgrees(drv[v], dev[v], fmap[v], up[v], down[v])
    BY AgreesOf
  <1> QED
    BY <1>1, AtPlace

LEMMA ServeHelloOk ==
  ASSUME IInv, Agreement, NEW v \in Vfs, ServeHello(v)
  PROVE  Agreement' /\ Tallied
  <1> DEFINE d == drv[v]  e == dev[v]  m == fmap[v]  u == up[v]  w == down[v]
  <1>1. Serve(v, "HELLO") /\ fmap' = [fmap EXCEPT ![v] = NoFmap]
    BY DEF ServeHello
  <1>2. HelloPending(d, e, m, u, w) /\ Head(u).op = "HELLO"
    BY <1>1, ServeMoves, AgreesOf, Pending
  <1>3. d = [Closed EXCEPT !.pc = "hello"] /\ u = <<Hello>> /\ w = <<>> /\ ~ e.there /\ m = NoFmap
    BY <1>2 DEF HelloPending, Asked, Left
  <1>4. PICK ok \in BOOLEAN :
          /\ Answer(v, ok, RM!NoRun) /\ Elsewhere(v) /\ SameCounts
          /\ IF ok THEN dev'[v] = [RM!NoEntry EXCEPT !.there = TRUE] ELSE ~ dev'[v].there
    <2>1. CASE RM!DevCreate(v) /\ Answer(v, TRUE, RM!NoRun)
      BY <2>1, AgreesOf, OpCreate
    <2>2. CASE UNCHANGED books /\ Answer(v, FALSE, RM!NoRun)
      BY <1>3, <2>2 DEF books, Elsewhere, SameCounts
    <2> QED
      BY <1>3, <2>1, <2>2 DEF ServeHello
  <1>5. Served(v, ok, RM!NoRun)
    BY <1>1, <1>4, ServeMoves
  <1>6. /\ up'[v] = <<>> /\ down'[v] = <<[op |-> "HELLO", ok |-> ok, range |-> RM!NoRun]>>
        /\ fmap'[v] = NoFmap /\ drv'[v] = d /\ \A g \in Funcs \ {v} : fmap'[g] = fmap[g]
    BY <1>1, <1>2, <1>3, <1>5, Singles, AgreesOf DEF Served
  <1>7. VfHelloAgrees(drv'[v], dev'[v], fmap'[v], up'[v], down'[v])
    BY <1>3, <1>4, <1>6, Ranges DEF VfHelloAgrees, Told
  <1>8. OnlyOf(v)
    BY <1>4, <1>5, <1>6 DEF OnlyOf, Served
  <1> QED
    BY <1>4, <1>7, <1>8, AgreesOf, OneFunction DEF VfAgrees, Tallied

LEMMA WithinSame ==
  ASSUME NEW d \in Driver, NEW e \in Entry, NEW m, VfKnows(d, e, m), NEW e2, SameRange(e, e2)
  PROVE  VfKnows(d, e2, m)
  BY KnowsSame DEF VfKnows

LEMMA ServeQreqOk ==
  ASSUME IInv, IInv', Agreement, ~ nomem', NEW v \in Vfs, ServeQreq(v)
  PROVE  Agreement' /\ Tallied
  <1> DEFINE d == drv[v]  e == dev[v]  m == fmap[v]  u == up[v]  w == down[v]
  <1>1. PICK rv \in RM!Results :
          /\ Serve(v, "QREQ") /\ RM!DevUpdate(v, Head(u).qmax, -1, rv)
          /\ Answer(v, rv = "ok", dev'[v].range)
          /\ fmap' = IF rv = "ok" THEN Unmapped(v) ELSE fmap
    BY DEF ServeQreq
  <1>2. QreqPending(d, e, m, u, w) /\ Head(u).op = "QREQ"
    BY <1>1, ServeMoves, AgreesOf, Pending
  <1>3. /\ d.pc = "qreq" /\ ~ d.closing /\ Tail(u) = <<>> /\ w = <<>>
        /\ Head(u).qmax \in Sizes /\ VfKnows(d, e, m) /\ Counts(e, d.queues)
    BY <1>2 DEF QreqPending
  <1>4. /\ Elsewhere(v) /\ SameCounts
        /\ IF rv = "ok" THEN e.there /\ e.active = 0 /\ dev'[v].there /\ dev'[v].active = 0
                        ELSE SameRange(e, dev'[v])
    BY <1>1, <1>3, AgreesOf, OpUpdate
  <1>5. Served(v, rv = "ok", dev'[v].range) /\ dev'[v].range \in RM!Run
    <2>1. dev'[v] \in Entry
      BY AgreesOf, OfFunction DEF IInv, BooksInv, RM!TypeOK, Entry
    <2> QED
      BY <1>1, <2>1, ServeMoves DEF Entry
  <1>6. /\ up'[v] = <<>>
        /\ down'[v] = <<[op |-> "QREQ", ok |-> (rv = "ok"), range |-> dev'[v].range]>>
        /\ drv'[v] = d
    BY <1>2, <1>3, <1>5, Singles DEF Served
  <1>7. \A g \in Funcs \ {v} : fmap'[g] = fmap[g]
    BY <1>1, AgreesOf DEF Unmapped
  <1>8. VfQreqAgrees(drv'[v], dev'[v], fmap'[v], up'[v], down'[v])
    <2>1. CASE rv = "ok"
      <3>1. d.queues = {}
        BY <1>3, <1>4, <2>1, AgreesOf, NoneCounted
      <3>2. Changing(d, dev'[v], dev'[v].range)
        BY <1>4, <2>1, <3>1 DEF Changing
      <3>3. fmap'[v] = NoFmap
        BY <1>1, <2>1, AgreesOf DEF Unmapped
      <3>4. Told(up'[v], down'[v], "QREQ", TRUE, dev'[v].range)
        BY <1>6, <2>1 DEF Told
      <3> QED
        BY <1>3, <1>5, <1>6, <3>2, <3>3, <3>4 DEF VfQreqAgrees
    <2>2. CASE rv # "ok"
      <3>1. VfKnows(d, dev'[v], m) /\ Counts(dev'[v], d.queues)
        BY <1>3, <1>4, <2>2, AgreesOf, WithinSame DEF Counts, SameRange
      <3>2. fmap'[v] = m
        BY <1>1, <2>2
      <3>3. Told(up'[v], down'[v], "QREQ", FALSE, dev'[v].range)
        BY <1>6, <2>2 DEF Told
      <3> QED
        BY <1>3, <1>5, <1>6, <3>1, <3>2, <3>3 DEF VfQreqAgrees
    <2> QED
      BY <2>1, <2>2
  <1>9. OnlyOf(v)
    BY <1>4, <1>5, <1>7 DEF OnlyOf, Served
  <1> QED
    BY <1>4, <1>8, <1>9, AgreesOf, OneFunction DEF VfAgrees, Tallied

LEMMA ServeFmapOk ==
  ASSUME IInv, Agreement, NEW v \in Vfs, ServeFmap(v)
  PROVE  Agreement' /\ Tallied
  <1> DEFINE d == drv[v]  e == dev[v]  m == fmap[v]  u == up[v]  w == down[v]
  <1>1. /\ Serve(v, "FMAP") /\ fmap' = [fmap EXCEPT ![v] = Head(u).range]
        /\ Answer(v, TRUE, RM!NoRun) /\ UNCHANGED books
    BY DEF ServeFmap
  <1>2. FmapPending(d, e, m, u, w) /\ Head(u).op = "FMAP"
    BY <1>1, ServeMoves, AgreesOf, Pending
  <1>3. u = <<[op |-> "FMAP", range |-> d.conf]>> /\ w = <<>> /\ VfFmapAgrees(d, e, m, u, w)
    BY <1>2 DEF FmapPending, Asked
  <1>4. Served(v, TRUE, RM!NoRun) /\ Elsewhere(v) /\ SameCounts /\ dev'[v] = e
    BY <1>1, ServeMoves DEF books, Elsewhere, SameCounts
  <1>5. /\ up'[v] = <<>> /\ down'[v] = <<[op |-> "FMAP", ok |-> TRUE, range |-> RM!NoRun]>>
        /\ drv'[v] = d
    BY <1>2, <1>3, <1>4, Singles DEF Served
  <1>6. fmap'[v] = d.conf /\ \A g \in Funcs \ {v} : fmap'[g] = fmap[g]
    BY <1>1, <1>3, Singles, AgreesOf
  <1>7. VfFmapAgrees(drv'[v], dev'[v], fmap'[v], up'[v], down'[v])
    BY <1>3, <1>4, <1>5, <1>6, Ranges DEF VfFmapAgrees, Told
  <1>8. OnlyOf(v)
    BY <1>4, <1>6 DEF OnlyOf, Served
  <1> QED
    BY <1>4, <1>7, <1>8, AgreesOf, OneFunction DEF VfAgrees, Tallied

\* An enabled queue is one of the entry.
LEMMA OfRange ==
  ASSUME NEW d \in Driver, NEW e \in Entry, NEW m, VfKnows(d, e, m), NEW q \in d.queues
  PROVE  /\ e.there /\ e.range.total_q > 0 /\ d.conf = e.range
         /\ d.conf.qbase + q \in RM!Queues(e.range)
  <1>1. /\ e.there /\ d.conf.total_q = e.range.total_q
        /\ d.conf.total_q > 0 => d.conf = e.range
        /\ d.queues \subseteq 0..(d.conf.total_q - 1)
    BY DEF VfKnows, Knows
  <1>2. e.range \in RM!Run /\ d.conf \in RM!Run
    BY DEF Driver, Entry
  <1>3. e.range.total_q \in 0..TotalQ /\ e.range.qbase \in -1..TotalQ
    BY <1>2 DEF RM!Run
  <1>4. q \in 0..(e.range.total_q - 1)
    BY <1>1, Zenon
  <1>5. e.range.total_q > 0 /\ d.conf = e.range
    BY <1>1, <1>3, <1>4
  <1>6. e.range.qbase + q \in e.range.qbase .. (e.range.qbase + e.range.total_q - 1)
    BY <1>3, <1>4
  <1>7. RM!Queues(e.range) = e.range.qbase .. (e.range.qbase + e.range.total_q - 1)
    BY <1>3, QueuesOf
  <1> QED
    BY <1>1, <1>5, <1>6, <1>7

\* An entry with another count.
LEMMA Recounted ==
  ASSUME NEW d, NEW e, NEW m, VfKnows(d, e, m), NEW e2, e2.there = e.there, e2.range = e.range
  PROVE  VfKnows(d, e2, m)
  BY DEF VfKnows, Knows

LEMMA ServeAddOk ==
  ASSUME IInv, Agreement, NEW v \in Vfs, ServeAdd(v)
  PROVE  Agreement' /\ Tallied
  <1> DEFINE d == drv[v]  e == dev[v]  m == fmap[v]  u == up[v]  w == down[v]
  <1>1. Serve(v, "QNOTIFY_ADD") /\ fmap' = fmap
    BY DEF ServeAdd
  <1>2. AddPending(d, e, m, u, w) /\ Head(u).op = "QNOTIFY_ADD"
    BY <1>1, ServeMoves, AgreesOf, Pending
  <1>3. /\ d.pc = "qadd" /\ ~ d.closing /\ d.init_qrange /\ VfKnows(d, e, m) /\ d.q \in d.queues
        /\ u = <<[op |-> "QNOTIFY_ADD", qid_hw |-> d.conf.qbase + d.q]>> /\ w = <<>>
        /\ Counts(e, d.queues \ {d.q})
    BY <1>2 DEF AddPending, Asked
  <1>4. Head(u).qid_hw = d.conf.qbase + d.q
    <2>1. Head(u) = [op |-> "QNOTIFY_ADD", qid_hw |-> d.conf.qbase + d.q]
      BY <1>3, Singles
    <2> QED
      BY <2>1
  <1>5. /\ e.there /\ e.range.total_q > 0 /\ d.conf.qbase + d.q \in RM!Queues(e.range)
    BY <1>3, AgreesOf, OfRange
  <1>6. RM!InRange(v, Head(u).qid_hw)
    BY <1>4, <1>5 DEF RM!InRange
  <1>7. /\ d.queues \in SUBSET (0..(TotalQ - 1))
        /\ e.range.total_q \in 0..TotalQ /\ d.queues \in SUBSET (0..(e.range.total_q - 1))
    <2>1. d \in Driver /\ e \in Entry
      BY AgreesOf
    <2> QED
      BY <1>3, <2>1 DEF VfKnows, Knows, Driver, Entry, RM!Run
  <1>8. /\ Cardinality(d.queues) \in Nat
        /\ Cardinality(d.queues \ {d.q}) = Cardinality(d.queues) - 1
        /\ Cardinality(d.queues) <= e.range.total_q
    <2>1. Cardinality(d.queues) <= e.range.total_q
      BY <1>7, SizedMost
    <2>2. Cardinality(d.queues) \in Nat /\ Cardinality(d.queues \ {d.q}) = Cardinality(d.queues) - 1
      BY <1>3, <1>7, Sized
    <2> QED
      BY <2>1, <2>2
  <1>9. e.active = Cardinality(d.queues) - 1
    BY <1>3, <1>8 DEF Counts
  <1>10. RM!MayCount(v)
    BY <1>5, <1>7, <1>8, <1>9 DEF RM!MayCount
  <1>11. RM!Increment(v) /\ Answer(v, TRUE, RM!NoRun)
    BY <1>6, <1>10 DEF ServeAdd
  <1>12. Elsewhere(v) /\ OneMore(v) /\ dev'[v] = [e EXCEPT !.active = @ + 1]
    BY <1>11, AgreesOf, OpIncrement
  <1>13. Served(v, TRUE, RM!NoRun)
    BY <1>1, <1>11, ServeMoves
  <1>14. /\ up'[v] = <<>> /\ down'[v] = <<[op |-> "QNOTIFY_ADD", ok |-> TRUE, range |-> RM!NoRun]>>
         /\ drv'[v] = d /\ fmap'[v] = m
    BY <1>1, <1>2, <1>3, <1>13, Singles DEF Served
  <1>15. VfKnows(d, dev'[v], m) /\ dev'[v].active = e.active + 1
    <2>1. e \in Entry /\ dev'[v] = [e EXCEPT !.active = e.active + 1]
      BY <1>12, AgreesOf
    <2>2. dev'[v].there = e.there /\ dev'[v].range = e.range /\ dev'[v].active = e.active + 1
      BY <2>1 DEF Entry
    <2> QED
      BY <1>3, <2>2, Recounted
  <1>16. Counts(dev'[v], d.queues)
    BY <1>8, <1>9, <1>15 DEF Counts
  <1>17. VfAddAgrees(drv'[v], dev'[v], fmap'[v], up'[v], down'[v])
    <2>1. Told(up'[v], down'[v], "QNOTIFY_ADD", TRUE, RM!NoRun)
      BY <1>14 DEF Told
    <2> QED
      BY <1>3, <1>14, <1>15, <1>16, <2>1, Ranges DEF VfAddAgrees
  <1>18. OnlyOf(v)
    BY <1>1, <1>12, <1>13 DEF OnlyOf, Served
  <1> QED
    BY <1>12, <1>17, <1>18, AgreesOf, OneFunction DEF VfAgrees, Tallied

LEMMA ServeDelOk ==
  ASSUME IInv, Agreement, NEW v \in Vfs, ServeDel(v)
  PROVE  Agreement' /\ Tallied
  <1> DEFINE d == drv[v]  e == dev[v]  m == fmap[v]  u == up[v]  w == down[v]
  <1>1. Serve(v, "QNOTIFY_DEL") /\ fmap' = fmap
    BY DEF ServeDel
  <1>2. DelPending(d, e, m, u, w) /\ Head(u).op = "QNOTIFY_DEL"
    BY <1>1, ServeMoves, AgreesOf, Pending
  <1>3. /\ \/ d.pc = "qdel" /\ ~ d.closing
           \/ d.pc = "swept" /\ d.closing
        /\ VfKnows(d, e, m) /\ d.q \in d.queues
        /\ u = <<[op |-> "QNOTIFY_DEL", qid_hw |-> d.conf.qbase + d.q]>> /\ w = <<>>
        /\ Counts(e, d.queues)
    BY <1>2 DEF DelPending, Asked
  <1>4. Head(u).qid_hw = d.conf.qbase + d.q
    <2>1. Head(u) = [op |-> "QNOTIFY_DEL", qid_hw |-> d.conf.qbase + d.q]
      BY <1>3, Singles
    <2> QED
      BY <2>1
  <1>5. /\ e.there /\ e.range.total_q > 0 /\ d.conf.qbase + d.q \in RM!Queues(e.range)
    BY <1>3, AgreesOf, OfRange
  <1>6. RM!InRange(v, Head(u).qid_hw)
    BY <1>4, <1>5 DEF RM!InRange
  <1>7. d.queues \in SUBSET (0..(TotalQ - 1))
    BY AgreesOf DEF Driver
  <1>8. /\ Cardinality(d.queues) \in Nat
        /\ Cardinality(d.queues \ {d.q}) = Cardinality(d.queues) - 1
        /\ Cardinality(d.queues) # 0
    BY <1>3, <1>7, Sized
  <1>9. e.active = Cardinality(d.queues) /\ e.active > 0
    BY <1>3, <1>8 DEF Counts
  <1>10. RM!Decrement(v) /\ Answer(v, TRUE, RM!NoRun)
    BY <1>6 DEF ServeDel
  <1>12. Elsewhere(v) /\ OneLess(v) /\ dev'[v] = [e EXCEPT !.active = @ - 1]
    BY <1>9, <1>10, AgreesOf, OpDecrement
  <1>13. Served(v, TRUE, RM!NoRun)
    BY <1>1, <1>10, ServeMoves
  <1>14. /\ up'[v] = <<>> /\ down'[v] = <<[op |-> "QNOTIFY_DEL", ok |-> TRUE, range |-> RM!NoRun]>>
         /\ drv'[v] = d /\ fmap'[v] = m
    BY <1>1, <1>2, <1>3, <1>13, Singles DEF Served
  <1>15. VfKnows(d, dev'[v], m) /\ dev'[v].active = e.active - 1
    <2>1. e \in Entry /\ dev'[v] = [e EXCEPT !.active = e.active - 1]
      BY <1>12, AgreesOf
    <2>2. dev'[v].there = e.there /\ dev'[v].range = e.range /\ dev'[v].active = e.active - 1
      BY <2>1 DEF Entry
    <2> QED
      BY <1>3, <2>2, Recounted
  <1>16. Counts(dev'[v], d.queues \ {d.q})
    BY <1>8, <1>9, <1>15 DEF Counts
  <1>17. VfDelAgrees(drv'[v], dev'[v], fmap'[v], up'[v], down'[v])
    <2>1. Told(up'[v], down'[v], "QNOTIFY_DEL", TRUE, RM!NoRun)
      BY <1>14 DEF Told
    <2> QED
      BY <1>3, <1>14, <1>15, <1>16, <2>1, Ranges DEF VfDelAgrees
  <1>18. OnlyOf(v)
    BY <1>1, <1>12, <1>13 DEF OnlyOf, Served
  <1> QED
    BY <1>12, <1>17, <1>18, AgreesOf, OneFunction DEF VfAgrees, Tallied

LEMMA ServeByeOk ==
  ASSUME IInv, Agreement, NEW v \in Vfs, ServeBye(v)
  PROVE  Agreement' /\ Tallied
  <1> DEFINE d == drv[v]  e == dev[v]  m == fmap[v]  u == up[v]  w == down[v]
  <1>1. Serve(v, "VF_BYE") /\ fmap' = [fmap EXCEPT ![v] = NoFmap] /\ down' = down
    BY DEF ServeBye
  <1>2. ByePending(d, e, m, u, w) /\ Head(u).op = "VF_BYE"
    BY <1>1, ServeMoves, AgreesOf, Pending
  <1>3. /\ e.active = 0 /\ w = <<>>
        /\ \/ d = Closed /\ Tail(u) = <<>>
           \/ d = [Closed EXCEPT !.pc = "hello"] /\ Tail(u) = <<Hello>>
    BY <1>2 DEF ByePending, Leaving
  <1>4. Elsewhere(v) /\ SameCounts /\ ~ dev'[v].there
    <2>1. CASE RM!DevDestroy(v)
      BY <1>3, <2>1, AgreesOf, OpDestroy, Nothing
    <2>2. CASE ~ e.there /\ UNCHANGED books
      BY <2>2 DEF books, Elsewhere, SameCounts
    <2> QED
      BY <2>1, <2>2 DEF ServeBye
  <1>5. /\ up'[v] = Tail(u) /\ down'[v] = w /\ drv'[v] = d /\ fmap'[v] = NoFmap
        /\ \A g \in Funcs \ {v} : fmap'[g] = fmap[g] /\ drv'[g] = drv[g]
        /\ \A g \in Vfs \ {v} : up'[g] = up[g] /\ down'[g] = down[g]
    BY <1>1, ServeMoves, AgreesOf
  <1>6. Left(dev'[v], fmap'[v])
    BY <1>4, <1>5 DEF Left
  <1>7. VfAgrees(drv'[v], dev'[v], fmap'[v], up'[v], down'[v])
    <2>1. CASE d = Closed /\ Tail(u) = <<>>
      BY <1>3, <1>5, <1>6, <2>1 DEF VfAgrees, VfClosedAgrees
    <2>2. CASE d = [Closed EXCEPT !.pc = "hello"] /\ Tail(u) = <<Hello>>
      BY <1>3, <1>5, <1>6, <2>2 DEF VfAgrees, VfHelloAgrees, Asked
    <2> QED
      BY <1>3, <2>1, <2>2
  <1>8. OnlyOf(v)
    BY <1>4, <1>5 DEF OnlyOf
  <1> QED
    BY <1>4, <1>7, <1>8, AgreesOf, OneFunction DEF Tallied

\* The physical function serves a message.
LEMMA ServeOk ==
  ASSUME IInv, IInv', Agreement, ~ nomem', NEW v \in Vfs, PfServe(v)
  PROVE  Agreement' /\ Tallied
  BY ServeHelloOk, ServeQreqOk, ServeFmapOk, ServeAddOk, ServeDelOk, ServeByeOk, Zenon DEF PfServe

(***************************************************************************)
(* A virtual function's own steps.                                         *)
(***************************************************************************)
\* The others stay.
Others(v) ==
  /\ \A g \in Funcs \ {v} : drv'[g] = drv[g]
  /\ \A g \in Vfs \ {v} : up'[g] = up[g] /\ down'[g] = down[g]

\* A step that leaves the books and the registers alone.
LEMMA VfMove ==
  ASSUME Agreement, NEW v \in Vfs, UNCHANGED books, UNCHANGED fmap, Others(v),
         VfAgrees(drv'[v], dev[v], fmap[v], up'[v], down'[v])
  PROVE  Agreement' /\ Tallied
  <1>1. dev' = dev /\ active_qcnt' = active_qcnt /\ fmap' = fmap
    BY DEF books
  <1>2. OnlyOf(v)
    BY <1>1 DEF OnlyOf, Others, Elsewhere
  <1>3. Agreement'
    BY <1>1, <1>2, VfIsFunc, OneFunction
  <1> QED
    BY <1>1, <1>3 DEF Tallied, SameCounts

\* Sending and going on.
LEMMA Sends ==
  ASSUME IInv, NEW v \in Vfs, NEW e, drv' = [drv EXCEPT ![v] = e], NEW m, Send(v, m), down' = down
  PROVE  drv'[v] = e /\ up'[v] = Append(up[v], m) /\ down'[v] = down[v] /\ Others(v)
  BY VfIsFunc DEF IInv, Typed, Send, Others

LEMMA Pairs ==
  ASSUME NEW x, NEW y
  PROVE  Append(<<x>>, y) = <<x, y>>
  <1>1. <<x>> \in Seq({x, y}) /\ y \in {x, y} /\ Len(<<x>>) = 1 /\ <<x>>[1] = x
    OBVIOUS
  <1>2. /\ Append(<<x>>, y) \in Seq({x, y}) /\ Len(Append(<<x>>, y)) = 2
        /\ Append(<<x>>, y)[1] = x /\ Append(<<x>>, y)[2] = y
    BY <1>1
  <1>3. Append(<<x>>, y) = [k \in 1..2 |-> Append(<<x>>, y)[k]]
    BY <1>2
  <1>4. <<x, y>> = [k \in 1..2 |-> <<x, y>>[k]]
    OBVIOUS
  <1>5. \A k \in 1..2 : Append(<<x>>, y)[k] = <<x, y>>[k]
    BY <1>2
  <1> QED
    BY <1>3, <1>4, <1>5

LEMMA VfOpenOk ==
  ASSUME IInv, Agreement, NEW v \in Vfs, VfOpen(v)
  PROVE  Agreement' /\ Tallied
  <1> DEFINE d == drv[v]  e == dev[v]  m == fmap[v]  u == up[v]  w == down[v]
  <1>1. d.pc = "closed" /\ Send(v, Hello) /\ UNCHANGED books /\ UNCHANGED fmap /\ down' = down
    BY DEF VfOpen, Hello
  <1>2. drv' = [drv EXCEPT ![v] = [d EXCEPT !.pc = "hello"]]
    BY AgreesOf DEF VfOpen, Move
  <1>3. VfClosedAgrees(d, e, m, u, w)
    BY <1>1, AgreesOf, AtPlace
  <1>4. /\ drv'[v] = [d EXCEPT !.pc = "hello"] /\ up'[v] = Append(u, Hello) /\ down'[v] = w
        /\ Others(v)
    BY <1>1, <1>2, Sends
  <1>5. d = Closed /\ w = <<>>
    BY <1>3 DEF VfClosedAgrees
  <1>6. VfHelloAgrees(drv'[v], e, m, up'[v], down'[v])
    <2>1. CASE u = <<>> /\ Left(e, m)
      <3>1. Asked(up'[v], down'[v], Hello)
        BY <1>4, <1>5, <2>1, Singles DEF Asked
      <3> QED
        BY <1>4, <1>5, <2>1, <3>1 DEF VfHelloAgrees
    <2>2. CASE u = <<Bye>> /\ Leaving(e, m)
      <3>1. up'[v] = <<Bye, Hello>>
        BY <1>4, <2>2, Pairs
      <3> QED
        BY <1>4, <1>5, <2>2, <3>1 DEF VfHelloAgrees
    <2> QED
      BY <1>3, <2>1, <2>2 DEF VfClosedAgrees
  <1> QED
    BY <1>1, <1>4, <1>6, VfMove DEF VfAgrees

\* A driver between its commands.
LEMMA VfIdle ==
  ASSUME IInv, Agreement, NEW v \in Vfs, drv[v].pc = "idle"
  PROVE  /\ ~ drv[v].closing /\ up[v] = <<>> /\ down[v] = <<>>
         /\ VfKnows(drv[v], dev[v], fmap[v]) /\ Counts(dev[v], drv[v].queues)
  BY AgreesAt DEF VfIdleAgrees, Quiet

\* A driver that knows its range knows it while its place changes.
LEMMA OtherPlace ==
  ASSUME NEW d, NEW e, NEW m, VfKnows(d, e, m), NEW d2,
         d2.conf = d.conf, d2.queues = d.queues, d2.init_qrange = d.init_qrange
  PROVE  VfKnows(d2, e, m)
  BY DEF VfKnows, Knows

LEMMA VfSetQmaxOk ==
  ASSUME IInv, Agreement, NEW v \in Vfs, VfSetQmax(v)
  PROVE  Agreement' /\ Tallied
  <1> DEFINE d == drv[v]  e == dev[v]  m == fmap[v]  u == up[v]  w == down[v]
             d2 == [d EXCEPT !.pc = "qreq"]
  <1>1. PICK qmax \in Sizes : Send(v, [op |-> "QREQ", qmax |-> qmax])
    BY DEF VfSetQmax
  <1>2. /\ d.pc = "idle" /\ UNCHANGED books /\ UNCHANGED fmap /\ down' = down
        /\ drv' = [drv EXCEPT ![v] = d2]
    BY AgreesOf DEF VfSetQmax, Move
  <1>3. /\ d2.pc = "qreq" /\ d2.closing = d.closing
        /\ d2.conf = d.conf /\ d2.queues = d.queues /\ d2.init_qrange = d.init_qrange
    BY AgreesOf DEF Driver
  <1> HIDE DEF d2
  <1>4. /\ drv'[v] = d2 /\ up'[v] = Append(u, [op |-> "QREQ", qmax |-> qmax]) /\ down'[v] = w
        /\ Others(v)
    BY <1>1, <1>2, Sends
  <1>5. Asked(up'[v], down'[v], [op |-> "QREQ", qmax |-> qmax])
    BY <1>2, <1>4, VfIdle, Singles DEF Asked
  <1>6. VfKnows(d2, e, m) /\ Counts(e, d2.queues) /\ ~ d2.closing
    BY <1>2, <1>3, VfIdle, OtherPlace
  <1>7. VfQreqAgrees(drv'[v], e, m, up'[v], down'[v])
    BY <1>3, <1>4, <1>5, <1>6 DEF VfQreqAgrees
  <1> QED
    BY <1>2, <1>4, <1>7, VfMove DEF VfAgrees

LEMMA VfAddQueueOk ==
  ASSUME IInv, Agreement, NEW v \in Vfs, VfAddQueue(v)
  PROVE  Agreement' /\ Tallied
  <1> DEFINE d == drv[v]  e == dev[v]  m == fmap[v]  u == up[v]  w == down[v]
  <1>1. PICK i \in Unused(v) :
          /\ drv' = [drv EXCEPT ![v].queues = @ \cup {i}, ![v].q = i,
                                ![v].pc = IF d.init_qrange THEN "qadd" ELSE "fmap"]
          /\ Send(v, IF d.init_qrange THEN AddMsg(v, i)
                                      ELSE [op |-> "FMAP", range |-> d.conf])
    BY DEF VfAddQueue
  <1> DEFINE d2 == [d EXCEPT !.queues = @ \cup {i}, !.q = i,
                             !.pc = IF d.init_qrange THEN "qadd" ELSE "fmap"]
  <1>2. d.pc = "idle" /\ UNCHANGED books /\ UNCHANGED fmap /\ down' = down /\ MayAdd(v)
    BY DEF VfAddQueue
  <1>3. drv' = [drv EXCEPT ![v] = d2]
    BY <1>1, AgreesOf
  <1>4. /\ d2.pc = (IF d.init_qrange THEN "qadd" ELSE "fmap") /\ d2.closing = d.closing /\ d2.q = i
        /\ d2.conf = d.conf /\ d2.queues = d.queues \cup {i} /\ d2.init_qrange = d.init_qrange
    BY AgreesOf DEF Driver
  <1> HIDE DEF d2
  <1>5. /\ ~ d.closing /\ u = <<>> /\ w = <<>> /\ VfKnows(d, e, m) /\ Counts(e, d.queues)
    BY <1>2, VfIdle
  <1>6. /\ d.conf \in RM!Run /\ e.range \in RM!Run /\ e.active \in 0..TotalQ
        /\ d.queues \in SUBSET (0..(TotalQ - 1))
    BY AgreesOf DEF Driver, Entry
  <1>7. /\ d.conf.total_q \in 0..TotalQ /\ e.active < d.conf.total_q
        /\ i \in 0..(d.conf.total_q - 1) /\ i \notin d.queues
    BY <1>2, <1>6 DEF MayAdd, Unused, RM!Run
  <1>8. e.there /\ d.conf = e.range
    BY <1>5, <1>6, <1>7 DEF VfKnows, Knows
  <1>9. CASE d.init_qrange
    <2>1. /\ drv'[v] = d2 /\ up'[v] = Append(u, AddMsg(v, i)) /\ down'[v] = w /\ Others(v)
      BY <1>1, <1>2, <1>3, <1>9, Sends
    <2>2. AddMsg(v, i) = [op |-> "QNOTIFY_ADD", qid_hw |-> d2.conf.qbase + d2.q]
      BY <1>4 DEF AddMsg, Hw
    <2>3. Asked(up'[v], down'[v], [op |-> "QNOTIFY_ADD", qid_hw |-> d2.conf.qbase + d2.q])
      BY <1>5, <2>1, <2>2, Singles DEF Asked
    <2>4. VfKnows(d2, e, m)
      BY <1>4, <1>5, <1>7, <1>9 DEF VfKnows, Knows
    <2>5. d2.queues \ {d2.q} = d.queues
      BY <1>4, <1>7
    <2>6. d2.q \in d2.queues
      BY <1>4
    <2>7. VfAddAgrees(drv'[v], e, m, up'[v], down'[v])
      BY <1>4, <1>5, <1>9, <2>1, <2>3, <2>4, <2>5, <2>6 DEF VfAddAgrees
    <2> QED
      BY <1>2, <2>1, <2>7, VfMove DEF VfAgrees
  <1>10. CASE ~ d.init_qrange
    <2>1. /\ drv'[v] = d2 /\ up'[v] = Append(u, [op |-> "FMAP", range |-> d.conf])
          /\ down'[v] = w /\ Others(v)
      BY <1>1, <1>2, <1>3, <1>10, Sends
    <2>2. Asked(up'[v], down'[v], [op |-> "FMAP", range |-> d2.conf])
      BY <1>4, <1>5, <2>1, Singles DEF Asked
    <2>3. d.queues = {} /\ m = NoFmap
      BY <1>5, <1>10 DEF VfKnows, Knows
    <2>4. e.active = 0
      BY <1>5, <2>3, ZeroQueues DEF Counts
    <2>5. d2.queues = {d2.q} /\ d2.q \in 0..(d2.conf.total_q - 1)
      BY <1>4, <1>7, <2>3
    <2>6. VfFmapAgrees(drv'[v], e, m, up'[v], down'[v])
      BY <1>4, <1>5, <1>8, <1>10, <2>1, <2>2, <2>3, <2>4, <2>5 DEF VfFmapAgrees
    <2> QED
      BY <1>2, <2>1, <2>6, VfMove DEF VfAgrees
  <1> QED
    BY <1>9, <1>10

\* A request to remove queue i, by a command or by the cleanup.
LEMMA Removes ==
  ASSUME IInv, Agreement, NEW v \in Vfs, NEW i \in drv[v].queues, NEW place,
         \/ drv[v].pc = "idle" /\ place = "qdel"
         \/ drv[v].pc = "sweep" /\ place = "swept",
         drv' = [drv EXCEPT ![v].pc = place, ![v].q = i], Send(v, DelMsg(v, i)),
         UNCHANGED books, UNCHANGED fmap, down' = down
  PROVE  Agreement' /\ Tallied
  <1> DEFINE d == drv[v]  e == dev[v]  m == fmap[v]  u == up[v]  w == down[v]
             d2 == [d EXCEPT !.pc = place, !.q = i]
  <1>1. drv' = [drv EXCEPT ![v] = d2]
    BY AgreesOf
  <1>2. /\ d2.pc = place /\ d2.closing = d.closing /\ d2.q = i
        /\ d2.conf = d.conf /\ d2.queues = d.queues /\ d2.init_qrange = d.init_qrange
    BY AgreesOf DEF Driver
  <1> HIDE DEF d2
  <1>3. /\ u = <<>> /\ w = <<>> /\ VfKnows(d, e, m) /\ Counts(e, d.queues)
        /\ IF place = "swept" THEN d.closing ELSE ~ d.closing
    <2>1. CASE d.pc = "idle" /\ place = "qdel"
      BY <2>1, VfIdle
    <2>2. CASE d.pc = "sweep" /\ place = "swept"
      <3>1. VfSweepAgrees(d, e, m, u, w)
        BY <2>2, AgreesOf, AtPlace
      <3> QED
        BY <2>2, <3>1 DEF VfSweepAgrees, Changing, Quiet
    <2> QED
      BY <2>1, <2>2
  <1>4. drv'[v] = d2 /\ up'[v] = Append(u, DelMsg(v, i)) /\ down'[v] = w /\ Others(v)
    BY <1>1, Sends
  <1>5. DelMsg(v, i) = [op |-> "QNOTIFY_DEL", qid_hw |-> d2.conf.qbase + d2.q]
    BY <1>2 DEF DelMsg, Hw
  <1>6. Asked(up'[v], down'[v], [op |-> "QNOTIFY_DEL", qid_hw |-> d2.conf.qbase + d2.q])
    BY <1>3, <1>4, <1>5, Singles DEF Asked
  <1>7. VfKnows(d2, e, m)
    BY <1>2, <1>3, OtherPlace
  <1>8. VfDelAgrees(drv'[v], e, m, up'[v], down'[v])
    BY <1>2, <1>3, <1>4, <1>6, <1>7 DEF VfDelAgrees
  <1> QED
    BY <1>4, <1>8, VfMove DEF VfAgrees

LEMMA VfRemovesOk ==
  ASSUME IInv, Agreement, NEW v \in Vfs, VfRemoveQueue(v) \/ VfSweep(v)
  PROVE  Agreement' /\ Tallied
  <1>1. CASE VfRemoveQueue(v)
    <2>1. PICK i \in drv[v].queues :
            /\ drv' = [drv EXCEPT ![v].pc = "qdel", ![v].q = i]
            /\ Send(v, DelMsg(v, i))
      BY <1>1 DEF VfRemoveQueue
    <2> QED
      BY <1>1, <2>1, Removes DEF VfRemoveQueue
  <1>2. CASE VfSweep(v)
    <2> DEFINE i == Min(drv[v].queues)
    <2>1. /\ drv' = [drv EXCEPT ![v].pc = "swept", ![v].q = i] /\ Send(v, DelMsg(v, i))
          /\ drv[v].queues # {} /\ drv[v].pc = "sweep"
          /\ UNCHANGED books /\ UNCHANGED fmap /\ down' = down
      BY <1>2, Zenon DEF VfSweep
    <2>2. drv[v].queues \in SUBSET (0..(TotalQ - 1))
      BY AgreesOf DEF Driver
    <2>3. i \in drv[v].queues
      BY <2>1, <2>2, MinType
    <2> HIDE DEF i
    <2> QED
      BY <2>1, <2>3, Removes
  <1> QED
    BY <1>1, <1>2

LEMMA VfCloseOk ==
  ASSUME IInv, Agreement, NEW v \in Vfs, VfClose(v)
  PROVE  Agreement' /\ Tallied
  <1> DEFINE d == drv[v]  e == dev[v]  m == fmap[v]  u == up[v]  w == down[v]
             d2 == [d EXCEPT !.pc = "sweep", !.closing = TRUE]
  <1>1. /\ d.pc = "idle" /\ UNCHANGED books /\ UNCHANGED fmap /\ up' = up /\ down' = down
        /\ drv' = [drv EXCEPT ![v] = d2]
    BY AgreesOf DEF VfClose
  <1>2. /\ d2.pc = "sweep" /\ d2.closing
        /\ d2.conf = d.conf /\ d2.queues = d.queues /\ d2.init_qrange = d.init_qrange
    BY AgreesOf DEF Driver
  <1> HIDE DEF d2
  <1>3. drv'[v] = d2 /\ up'[v] = <<>> /\ down'[v] = <<>> /\ Others(v)
    BY <1>1, AgreesOf, VfIdle DEF Others
  <1>4. VfKnows(d2, e, m) /\ Counts(e, d2.queues)
    BY <1>1, <1>2, VfIdle, OtherPlace
  <1>5. VfSweepAgrees(drv'[v], e, m, up'[v], down'[v])
    BY <1>2, <1>3, <1>4 DEF VfSweepAgrees, Quiet
  <1> QED
    BY <1>1, <1>3, <1>5, VfMove DEF VfAgrees

LEMMA VfClosedOk ==
  ASSUME IInv, Agreement, NEW v \in Vfs, VfClosed(v)
  PROVE  Agreement' /\ Tallied
  <1> DEFINE d == drv[v]  e == dev[v]  m == fmap[v]  u == up[v]  w == down[v]
  <1>1. /\ d.pc = "sweep" /\ d.queues = {} /\ d.closing
        /\ UNCHANGED books /\ UNCHANGED fmap /\ down' = down
        /\ drv' = [drv EXCEPT ![v] = Closed] /\ Send(v, Bye)
    BY DEF VfClosed, Bye
  <1>2. u = <<>> /\ w = <<>> /\ VfKnows(d, e, m) /\ Counts(e, {})
    <2>1. VfSweepAgrees(d, e, m, u, w)
      BY <1>1, AgreesAt
    <2> HIDE DEF d, e, m, u, w
    <2> QED
      BY <1>1, <2>1 DEF VfSweepAgrees, Quiet
  <1>3. e.active = 0
    BY <1>2, ZeroQueues DEF Counts
  <1>4. Within(m, e)
    <2>1. CASE d.init_qrange
      <3>1. m = d.conf /\ (m = e.range \/ ~ m.total_q > 0)
        BY <1>2, <2>1 DEF VfKnows, Knows
      <3>2. m \in RM!Run
        BY AgreesOf
      <3>3. ~ m.total_q > 0 => RM!Queues(m) = {}
        BY <3>2 DEF RM!Run, RM!Queues, RM!End
      <3> QED
        BY <3>1, <3>3 DEF Within
    <2>2. CASE ~ d.init_qrange
      <3>1. m = NoFmap
        BY <1>2, <2>2 DEF VfKnows
      <3> QED
        BY <3>1, NothingWithin DEF Within
    <2> QED
      BY <2>1, <2>2
  <1>5. drv'[v] = Closed /\ up'[v] = <<Bye>> /\ down'[v] = <<>> /\ Others(v)
    <2>1. drv'[v] = Closed /\ up'[v] = Append(u, Bye) /\ down'[v] = w /\ Others(v)
      BY <1>1, Sends
    <2> QED
      BY <1>2, <2>1, Singles
  <1>6. VfClosedAgrees(drv'[v], e, m, up'[v], down'[v])
    BY <1>3, <1>4, <1>5 DEF VfClosedAgrees, Leaving
  <1> QED
    BY <1>1, <1>5, <1>6, VfMove DEF VfAgrees

LEMMA VfReinitOk ==
  ASSUME IInv, Agreement, NEW v \in Vfs, Reinit(v)
  PROVE  Agreement' /\ Tallied
  <1> DEFINE d == drv[v]  e == dev[v]  m == fmap[v]  u == up[v]  w == down[v]
             d2 == [Closed EXCEPT !.pc = "idle", !.conf = d.next]
  <1>1. /\ d.pc = "sweep" /\ ~ d.closing /\ UNCHANGED books /\ UNCHANGED fmap
        /\ up' = up /\ down' = down /\ drv' = [drv EXCEPT ![v] = d2]
    BY DEF Reinit
  <1>2. u = <<>> /\ w = <<>> /\ Changing(d, e, d.next) /\ m = NoFmap
    BY <1>1, AgreesAt DEF VfSweepAgrees, Quiet
  <1>3. /\ Knows(d2, e, m) /\ Counts(e, d2.queues) /\ d2.pc = "idle" /\ ~ d2.closing
        /\ ~ d2.init_qrange
    BY <1>2, AgreesOf, PfReinitAgrees
  <1> HIDE DEF d2
  <1>4. drv'[v] = d2 /\ up'[v] = u /\ down'[v] = w /\ Others(v)
    BY <1>1, AgreesOf DEF Others
  <1>5. VfIdleAgrees(drv'[v], e, m, up'[v], down'[v])
    BY <1>2, <1>3, <1>4 DEF VfIdleAgrees, VfKnows, Quiet
  <1> QED
    BY <1>1, <1>4, <1>5, VfMove DEF VfAgrees

\* What an answer that is waited for leads to: driver d goes on as d2 and sends u2.
Ended(v, ok, r, d2, u2) ==
  LET d == drv[v] IN
  \/ /\ d.pc = "hello" /\ u2 = <<>>
     /\ d2 = [Closed EXCEPT !.pc = IF ok THEN "idle" ELSE "closed"]
  \/ /\ d.pc = "qreq" /\ u2 = <<>>
     /\ d2 = IF ok THEN [d EXCEPT !.pc = "sweep", !.next = r] ELSE [d EXCEPT !.pc = "idle"]
  \/ /\ d.pc = "fmap" /\ ok /\ u2 = <<AddMsg(v, d.q)>>
     /\ d2 = [d EXCEPT !.pc = "qadd", !.init_qrange = TRUE]
  \/ d.pc = "fmap" /\ ~ ok
  \/ /\ d.pc = "qadd" /\ u2 = <<>>
     /\ d2 = [d EXCEPT !.pc = "idle", !.q = 0]
  \/ /\ d.pc = "qdel" /\ u2 = <<>>
     /\ d2 = [d EXCEPT !.pc = "idle", !.q = 0, !.queues = IF ok THEN @ \ {d.q} ELSE @]
  \/ /\ d.pc = "swept" /\ u2 = <<>>
     /\ d2 = [d EXCEPT !.pc = "sweep", !.q = 0, !.queues = @ \ {d.q}]

\* What each place waits for.
LEMMA OpAt ==
  /\ DOMAIN Op = {"hello", "qreq", "fmap", "qadd", "qdel", "swept"}
  /\ Op["hello"] = "HELLO" /\ Op["qreq"] = "QREQ" /\ Op["fmap"] = "FMAP"
  /\ Op["qadd"] = "QNOTIFY_ADD" /\ Op["qdel"] = "QNOTIFY_DEL" /\ Op["swept"] = "QNOTIFY_DEL"
  BY DEF Op

LEMMA Answered ==
  ASSUME IInv, NEW v \in Vfs, VfReceive(v), NEW op, NEW ok \in BOOLEAN, NEW r,
         Told(up[v], down[v], op, ok, r), drv[v].pc \in DOMAIN Op, Op[drv[v].pc] = op
  PROVE  /\ \E d2, u2 : /\ Ended(v, ok, r, d2, u2)
                        /\ drv'[v] = d2 /\ up'[v] = u2 /\ down'[v] = <<>> /\ Others(v)
         /\ UNCHANGED books /\ UNCHANGED fmap
  <1> DEFINE d == drv[v]
  <1>0. v \in Funcs /\ drv \in [Funcs -> Driver] /\ up \in [Vfs -> Seq(Messages)]
        /\ down \in [Vfs -> Seq(Answers)]
    BY VfIsFunc DEF IInv, Typed
  <1>1. up[v] = <<>> /\ down[v] = <<[op |-> op, ok |-> ok, range |-> r]>>
    BY DEF Told
  <1>2. Head(down[v]) = [op |-> op, ok |-> ok, range |-> r] /\ Tail(down[v]) = <<>>
    BY <1>1, Singles
  <1>3. Matches(v, Head(down[v])) /\ Head(down[v]).ok = ok /\ Head(down[v]).range = r
    BY <1>2 DEF Matches, Waits
  <1>4. /\ Done(v, ok, r) /\ Follow(v, ok, up[v]) /\ down' = [down EXCEPT ![v] = Tail(@)]
        /\ UNCHANGED books /\ UNCHANGED fmap
    BY <1>3 DEF VfReceive
  <1>5. /\ up'[v] = (IF d.pc = "fmap" /\ ok THEN <<AddMsg(v, d.q)>> ELSE <<>>) /\ down'[v] = <<>>
        /\ \A g \in Vfs \ {v} : up'[g] = up[g] /\ down'[g] = down[g]
    <2>1. up' = [up EXCEPT ![v] = IF d.pc = "fmap" /\ ok
                                  THEN Append(<<>>, AddMsg(v, d.q)) ELSE <<>>]
      BY <1>1, <1>4 DEF Follow
    <2>2. Append(<<>>, AddMsg(v, d.q)) = <<AddMsg(v, d.q)>>
      BY Singles
    <2> QED
      BY <1>0, <1>2, <1>4, <2>1, <2>2
  <1>6. \E d2 : drv' = [drv EXCEPT ![v] = d2] /\ Ended(v, ok, r, d2, up'[v])
    BY <1>4, <1>5 DEF Done, Ended
  <1>7. PICK d2 : drv' = [drv EXCEPT ![v] = d2] /\ Ended(v, ok, r, d2, up'[v])
    BY <1>6
  <1>8. drv'[v] = d2 /\ \A g \in Funcs \ {v} : drv'[g] = drv[g]
    BY <1>0, <1>7
  <1> QED
    BY <1>4, <1>5, <1>7, <1>8 DEF Others

\* An answer is always the one that is waited for.
LEMMA HelloAnswered ==
  ASSUME IInv, Agreement, NEW v \in Vfs, VfReceive(v), drv[v].pc = "hello"
  PROVE  Agreement' /\ Tallied
  <1> DEFINE d == drv[v]  e == dev[v]  m == fmap[v]  u == up[v]  w == down[v]
  <1>1. PICK ok \in BOOLEAN, r \in RM!Run :
          /\ Told(u, w, "HELLO", ok, r) /\ m = NoFmap
          /\ IF ok THEN e = [RM!NoEntry EXCEPT !.there = TRUE] ELSE ~ e.there
    <2>1. w # <<>>
      BY DEF VfReceive
    <2> QED
      BY <2>1, AgreesAt DEF VfHelloAgrees, Asked
  <1>2. drv[v].pc \in DOMAIN Op /\ Op[drv[v].pc] = "HELLO"
    BY OpAt
  <1>3. /\ drv'[v] = [Closed EXCEPT !.pc = IF ok THEN "idle" ELSE "closed"]
        /\ up'[v] = <<>> /\ down'[v] = <<>> /\ Others(v)
        /\ UNCHANGED books /\ UNCHANGED fmap
    <2>1. PICK d2, u2 : /\ Ended(v, ok, r, d2, u2)
                        /\ drv'[v] = d2 /\ up'[v] = u2 /\ down'[v] = <<>> /\ Others(v)
                        /\ UNCHANGED books /\ UNCHANGED fmap
      <3>1. Told(up[v], down[v], "HELLO", ok, r)
        BY <1>1
      <3> QED
        BY <1>2, <3>1, Answered
    <2> QED
      BY <2>1 DEF Ended
  <1>4. VfAgrees(drv'[v], e, m, up'[v], down'[v])
    <2>1. CASE ok
      <3>1. /\ drv'[v].pc = "idle" /\ ~ drv'[v].closing /\ ~ drv'[v].init_qrange
            /\ drv'[v].queues = {} /\ drv'[v].conf = RM!NoRun
        BY <1>3, <2>1 DEF Closed
      <3>2. e.there /\ e.active = 0 /\ e.range = RM!NoRun
        BY <1>1, <2>1 DEF RM!NoEntry
      <3>3. VfKnows(drv'[v], e, m)
        BY <1>1, <3>1, <3>2 DEF VfKnows, Knows
      <3>4. Counts(e, drv'[v].queues)
        BY <3>1, <3>2, ZeroQueues DEF Counts
      <3> QED
        BY <1>3, <3>1, <3>3, <3>4 DEF VfAgrees, VfIdleAgrees, Quiet
    <2>2. CASE ~ ok
      <3>1. drv'[v] = Closed
        BY <1>3, <2>2 DEF Closed
      <3> QED
        BY <1>1, <1>3, <2>2, <3>1 DEF VfAgrees, VfClosedAgrees, Left
    <2> QED
      BY <2>1, <2>2
  <1> QED
    BY <1>3, <1>4, VfMove

LEMMA QreqAnswered ==
  ASSUME IInv, Agreement, NEW v \in Vfs, VfReceive(v), drv[v].pc = "qreq"
  PROVE  Agreement' /\ Tallied
  <1> DEFINE d == drv[v]  e == dev[v]  m == fmap[v]  u == up[v]  w == down[v]
  <1>1. PICK ok \in BOOLEAN, r \in RM!Run :
          /\ Told(u, w, "QREQ", ok, r) /\ ~ d.closing
          /\ IF ok THEN Changing(d, e, r) /\ m = NoFmap
                   ELSE VfKnows(d, e, m) /\ Counts(e, d.queues)
    <2>1. w # <<>>
      BY DEF VfReceive
    <2> QED
      BY <2>1, AgreesAt DEF VfQreqAgrees, Asked
  <1>2. drv[v].pc \in DOMAIN Op /\ Op[drv[v].pc] = "QREQ"
    BY OpAt
  <1>3. /\ drv'[v] = IF ok THEN [d EXCEPT !.pc = "sweep", !.next = r] ELSE [d EXCEPT !.pc = "idle"]
        /\ up'[v] = <<>> /\ down'[v] = <<>> /\ Others(v)
        /\ UNCHANGED books /\ UNCHANGED fmap
    <2>1. PICK d2, u2 : /\ Ended(v, ok, r, d2, u2)
                        /\ drv'[v] = d2 /\ up'[v] = u2 /\ down'[v] = <<>> /\ Others(v)
                        /\ UNCHANGED books /\ UNCHANGED fmap
      BY <1>1, <1>2, Answered
    <2> QED
      BY <2>1 DEF Ended
  <1>4. VfAgrees(drv'[v], e, m, up'[v], down'[v])
    <2>1. CASE ok
      <3>1. /\ drv'[v].pc = "sweep" /\ ~ drv'[v].closing /\ drv'[v].queues = d.queues
            /\ drv'[v].next = r
        BY <1>1, <1>3, <2>1, AgreesOf DEF Driver
      <3>2. Changing(drv'[v], e, drv'[v].next)
        BY <1>1, <2>1, <3>1 DEF Changing
      <3> QED
        BY <1>1, <1>3, <2>1, <3>1, <3>2 DEF VfAgrees, VfSweepAgrees, Quiet
    <2>2. CASE ~ ok
      <3>1. /\ drv'[v].pc = "idle" /\ ~ drv'[v].closing /\ drv'[v].queues = d.queues
            /\ drv'[v].conf = d.conf /\ drv'[v].init_qrange = d.init_qrange
        BY <1>1, <1>3, <2>2, AgreesOf DEF Driver
      <3>2. VfKnows(drv'[v], e, m) /\ Counts(e, drv'[v].queues)
        BY <1>1, <2>2, <3>1, OtherPlace
      <3> QED
        BY <1>3, <3>1, <3>2 DEF VfAgrees, VfIdleAgrees, Quiet
    <2> QED
      BY <2>1, <2>2
  <1> QED
    BY <1>3, <1>4, VfMove

LEMMA FmapAnswered ==
  ASSUME IInv, Agreement, NEW v \in Vfs, VfReceive(v), drv[v].pc = "fmap"
  PROVE  Agreement' /\ Tallied
  <1> DEFINE d == drv[v]  e == dev[v]  m == fmap[v]  u == up[v]  w == down[v]
  <1>1. PICK r \in RM!Run : Told(u, w, "FMAP", TRUE, r) /\ m = d.conf
    <2>1. w # <<>>
      BY DEF VfReceive
    <2>2. VfFmapAgrees(d, e, m, u, w)
      BY AgreesOf, AtPlace
    <2> QED
      BY <2>1, <2>2, Zenon DEF VfFmapAgrees, Asked
  <1>2. /\ ~ d.closing /\ e.there /\ e.active = 0 /\ d.conf = e.range
        /\ d.q \in 0..(d.conf.total_q - 1) /\ d.queues = {d.q}
    BY AgreesAt DEF VfFmapAgrees
  <1>3. drv[v].pc \in DOMAIN Op /\ Op[drv[v].pc] = "FMAP"
    BY OpAt
  <1>4. /\ drv'[v] = [d EXCEPT !.pc = "qadd", !.init_qrange = TRUE]
        /\ up'[v] = <<AddMsg(v, d.q)>> /\ down'[v] = <<>> /\ Others(v)
        /\ UNCHANGED books /\ UNCHANGED fmap
    BY <1>1, <1>3, Answered DEF Ended
  <1>5. /\ drv'[v].pc = "qadd" /\ ~ drv'[v].closing /\ drv'[v].queues = d.queues /\ drv'[v].q = d.q
        /\ drv'[v].conf = d.conf /\ drv'[v].init_qrange
    BY <1>2, <1>4, AgreesOf DEF Driver
  <1>6. VfKnows(drv'[v], e, m)
    BY <1>1, <1>2, <1>5 DEF VfKnows, Knows
  <1>7. Counts(e, drv'[v].queues \ {drv'[v].q})
    <2>1. drv'[v].queues \ {drv'[v].q} = {}
      BY <1>2, <1>5
    <2> QED
      BY <1>2, <2>1, ZeroQueues DEF Counts
  <1>8. Asked(up'[v], down'[v], [op |-> "QNOTIFY_ADD", qid_hw |-> drv'[v].conf.qbase + drv'[v].q])
    BY <1>4, <1>5 DEF Asked, AddMsg, Hw
  <1>9. VfAddAgrees(drv'[v], e, m, up'[v], down'[v])
    BY <1>2, <1>5, <1>6, <1>7, <1>8 DEF VfAddAgrees
  <1> QED
    BY <1>4, <1>9, VfMove DEF VfAgrees

LEMMA AddAnswered ==
  ASSUME IInv, Agreement, NEW v \in Vfs, VfReceive(v), drv[v].pc = "qadd"
  PROVE  Agreement' /\ Tallied
  <1> DEFINE d == drv[v]  e == dev[v]  m == fmap[v]  u == up[v]  w == down[v]
  <1>1. PICK r \in RM!Run : Told(u, w, "QNOTIFY_ADD", TRUE, r) /\ Counts(e, d.queues)
    <2>1. w # <<>>
      BY DEF VfReceive
    <2> QED
      BY <2>1, AgreesAt DEF VfAddAgrees, Asked
  <1>2. ~ d.closing /\ VfKnows(d, e, m)
    BY AgreesAt DEF VfAddAgrees
  <1>3. drv[v].pc \in DOMAIN Op /\ Op[drv[v].pc] = "QNOTIFY_ADD"
    BY OpAt
  <1>4. /\ drv'[v] = [d EXCEPT !.pc = "idle", !.q = 0]
        /\ up'[v] = <<>> /\ down'[v] = <<>> /\ Others(v)
        /\ UNCHANGED books /\ UNCHANGED fmap
    BY <1>1, <1>3, Answered DEF Ended
  <1>5. /\ drv'[v].pc = "idle" /\ ~ drv'[v].closing /\ drv'[v].queues = d.queues
        /\ drv'[v].conf = d.conf /\ drv'[v].init_qrange = d.init_qrange
    BY <1>2, <1>4, AgreesOf DEF Driver
  <1>6. VfKnows(drv'[v], e, m) /\ Counts(e, drv'[v].queues)
    BY <1>1, <1>2, <1>5, OtherPlace
  <1>7. VfIdleAgrees(drv'[v], e, m, up'[v], down'[v])
    BY <1>4, <1>5, <1>6 DEF VfIdleAgrees, Quiet
  <1> QED
    BY <1>4, <1>7, VfMove DEF VfAgrees

LEMMA DelAnswered ==
  ASSUME IInv, Agreement, NEW v \in Vfs, VfReceive(v), drv[v].pc \in {"qdel", "swept"}
  PROVE  Agreement' /\ Tallied
  <1> DEFINE d == drv[v]  e == dev[v]  m == fmap[v]  u == up[v]  w == down[v]
  <1>1. PICK r \in RM!Run : Told(u, w, "QNOTIFY_DEL", TRUE, r) /\ Counts(e, d.queues \ {d.q})
    <2>1. w # <<>>
      BY DEF VfReceive
    <2> QED
      BY <2>1, AgreesAt DEF VfDelAgrees, Asked
  <1>2. VfKnows(d, e, m) /\ ((d.pc = "qdel" /\ ~ d.closing) \/ (d.pc = "swept" /\ d.closing))
    BY AgreesAt DEF VfDelAgrees
  <1>3. drv[v].pc \in DOMAIN Op /\ Op[drv[v].pc] = "QNOTIFY_DEL"
    BY OpAt
  <1>4. /\ drv'[v] = [d EXCEPT !.pc = IF d.pc = "qdel" THEN "idle" ELSE "sweep",
                               !.q = 0, !.queues = @ \ {d.q}]
        /\ up'[v] = <<>> /\ down'[v] = <<>> /\ Others(v)
        /\ UNCHANGED books /\ UNCHANGED fmap
    BY <1>1, <1>3, Answered DEF Ended
  <1>5. /\ drv'[v].pc = (IF d.pc = "qdel" THEN "idle" ELSE "sweep") /\ drv'[v].closing = d.closing
        /\ drv'[v].queues = d.queues \ {d.q}
        /\ drv'[v].conf = d.conf /\ drv'[v].init_qrange = d.init_qrange
    BY <1>4, AgreesOf DEF Driver
  <1>6. VfKnows(drv'[v], e, m) /\ Counts(e, drv'[v].queues)
    BY <1>1, <1>2, <1>5 DEF VfKnows, Knows
  <1>7. \/ VfIdleAgrees(drv'[v], e, m, up'[v], down'[v])
        \/ VfSweepAgrees(drv'[v], e, m, up'[v], down'[v])
    BY <1>2, <1>4, <1>5, <1>6 DEF VfIdleAgrees, VfSweepAgrees, Quiet
  <1> QED
    BY <1>4, <1>7, VfMove DEF VfAgrees

LEMMA VfReceiveOk ==
  ASSUME IInv, Agreement, NEW v \in Vfs, VfReceive(v)
  PROVE  Agreement' /\ Tallied
  <1>1. drv[v].pc # "closed" /\ down[v] # <<>>
    BY DEF VfReceive
  <1>2. drv[v].pc \notin {"idle", "sweep"}
    BY <1>1, AgreesAt DEF VfIdleAgrees, VfSweepAgrees, Quiet
  <1>3. drv[v].pc \in Places
    BY AgreesOf DEF Driver
  <1>4. drv[v].pc \in {"hello", "qreq", "fmap", "qadd", "qdel", "swept"}
    BY <1>1, <1>2, <1>3 DEF Places
  <1> QED
    BY <1>4, HelloAnswered, QreqAnswered, FmapAnswered, AddAnswered, DelAnswered

\* The steps of a virtual function, none of which gives a wait up.
LEMMA VfSteps ==
  ASSUME IInv, Agreement, NEW v \in Vfs, VfNext(v) \/ Reinit(v), ~ VfExpire(v)
  PROVE  Agreement' /\ Tallied
  BY VfOpenOk, VfSetQmaxOk, VfAddQueueOk, VfRemovesOk, VfCloseOk, VfClosedOk, VfReceiveOk,
     VfReinitOk, Zenon DEF VfNext

(***************************************************************************)
(* As long as nothing is lost.                                             *)
(***************************************************************************)
\* What was lost stays lost.
LEMMA NomemGrows ==
  ASSUME [RM!Next]_RM!vars, nomem
  PROVE  nomem'
  BY DEF RM!Next, RM!vars, RM!DevCreate, RM!DevDestroy, RM!Close, RM!Update, RM!DevUpdate,
         RM!Increment, RM!Decrement

LEMMA ExpiredGrows ==
  ASSUME IInv, Step
  PROVE  \/ expired' = expired /\ \A v \in Vfs : VfNext(v) => ~ VfExpire(v)
         \/ expired' = expired + 1
  <1>1. expired \in Nat
    BY DEF IInv, Typed
  <1>2. expired' # expired + 1 => \A v \in Vfs : ~ VfExpire(v)
    BY DEF VfExpire
  <1>3. CASE PfOpen \/ PfSetQmax \/ PfAddQueue \/ PfRemoveQueue \/ PfClose \/ PfClosed
             \/ \E f \in Funcs : Reinit(f)
    <2>1. expired' = expired
      BY <1>3 DEF PfOpen, PfSetQmax, PfAddQueue, PfRemoveQueue, PfClose, PfClosed, Reinit
    <2> QED
      BY <1>1, <1>2, <2>1
  <1>4. ASSUME NEW v \in Vfs, PfServe(v) PROVE expired' = expired
    BY <1>4 DEF PfServe, ServeHello, ServeQreq, ServeFmap, ServeAdd, ServeDel, ServeBye, Serve
  <1>5. ASSUME NEW v \in Vfs, VfNext(v) PROVE expired' = expired \/ expired' = expired + 1
    BY <1>5 DEF VfNext, VfOpen, VfSetQmax, VfAddQueue, VfRemoveQueue, VfClose, VfSweep, VfClosed,
                VfReceive, VfExpire
  <1> QED
    BY <1>1, <1>2, <1>3, <1>4, <1>5 DEF Step

\* The inductive invariant of the protocol.
Protocol == Undisturbed => Agreement /\ Tally

LEMMA InitProtocol == Init => Protocol
  <1> SUFFICES ASSUME Init PROVE Agreement /\ Tally
    BY DEF Protocol
  <1>1. \A f \in Funcs : dev[f] = RM!NoEntry /\ fmap[f] = NoFmap /\ drv[f] = Closed
    BY DEF Init, RM!Init
  <1>2. PfAgrees(drv[Pf], dev[Pf], fmap[Pf])
    BY <1>1, PfIsFunc, Nothing DEF PfAgrees
  <1>3. ASSUME NEW v \in Vfs PROVE VfAgrees(drv[v], dev[v], fmap[v], up[v], down[v])
    BY <1>1, VfIsFunc, Nothing DEF Init, VfAgrees, VfClosedAgrees, Left
  <1>4. Used(dev, Funcs) = {}
    BY <1>1, Nothing DEF Used
  <1>5. Tally
    BY <1>4, ZeroQueues DEF Tally, Init, RM!Init
  <1> QED
    BY <1>2, <1>3, <1>5 DEF Agreement

LEMMA NextProtocol == IInv /\ IInv' /\ [RM!Next]_RM!vars /\ Protocol /\ [Next]_vars => Protocol'
  <1> SUFFICES ASSUME IInv, IInv', [RM!Next]_RM!vars, Protocol, [Next]_vars, Undisturbed'
               PROVE  (Agreement /\ Tally)'
    BY DEF Protocol
  <1>1. ~ nomem' /\ expired' = 0
    BY DEF Undisturbed
  <1>2. ~ nomem
    BY <1>1, NomemGrows
  <1>3. CASE Step
    <2>1. expired = 0 /\ \A v \in Vfs : VfNext(v) => ~ VfExpire(v)
      <3>1. expired \in Nat
        BY DEF IInv, Typed
      <3> QED
        BY <1>1, <1>3, <3>1, ExpiredGrows
    <2>2. Agreement /\ Tally
      BY <1>2, <2>1 DEF Protocol, Undisturbed
    <2>3. Agreement' /\ Tallied
      <3>1. CASE \/ PfOpen \/ PfSetQmax \/ PfAddQueue \/ PfRemoveQueue \/ PfClose \/ PfClosed
                 \/ Reinit(Pf)
        BY <1>1, <2>2, <3>1, PfSteps
      <3>2. ASSUME NEW v \in Vfs, Reinit(v) PROVE Agreement' /\ Tallied
        BY <2>2, <3>2, VfReinitOk
      <3>3. ASSUME NEW v \in Vfs, PfServe(v) PROVE Agreement' /\ Tallied
        BY <1>1, <2>2, <3>3, ServeOk
      <3>4. ASSUME NEW v \in Vfs, VfNext(v) PROVE Agreement' /\ Tallied
        BY <2>1, <2>2, <3>4, VfSteps
      <3> QED
        BY <1>3, <3>1, <3>2, <3>3, <3>4, Zenon DEF Step, Funcs
    <2>4. Tally'
      BY <2>2, <2>3, TallyKept DEF IInv
    <2> QED
      BY <2>3, <2>4
  <1>4. CASE UNCHANGED vars
    <2>1. UNCHANGED <<dev, active_qcnt, fmap, drv, up, down, expired>>
      BY <1>4 DEF vars, books
    <2>2. Agreement /\ Tally
      BY <1>1, <1>2, <2>1 DEF Protocol, Undisturbed
    <2> QED
      BY <2>1, <2>2 DEF Agreement, Tally
  <1> QED
    BY <1>3, <1>4 DEF Next

\* The protocol keeps the parties agreed in every state in which nothing was lost.
THEOREM ProtocolInvariant == Spec => [](IInv /\ Protocol)
  BY InitInv, InitProtocol, NextInv, NextProtocol, PTL DEF Spec

\* A driver that knows its range.
LEMMA KnownMapped ==
  ASSUME NEW d \in Driver, NEW e \in Entry, NEW m \in RM!Run, VfKnows(d, e, m)
  PROVE  Within(m, e) /\ (d.queues # {} => m = e.range)
  <1>1. d.conf \in RM!Run
    BY DEF Driver
  <1>2. d.conf.total_q > 0 => d.conf = e.range
    BY DEF VfKnows, Knows
  <1>3. ~ d.conf.total_q > 0 => d.queues = {} /\ RM!Queues(d.conf) = {}
    <2>1. ~ d.conf.total_q > 0 => d.conf.total_q = 0 /\ d.conf.qbase \in Int
      BY <1>1 DEF RM!Run
    <2>2. d.queues \subseteq 0..(d.conf.total_q - 1)
      BY DEF VfKnows, Knows
    <2> QED
      BY <2>1, <2>2 DEF RM!Queues, RM!End
  <1>4. CASE d.init_qrange
    BY <1>2, <1>3, <1>4 DEF VfKnows, Knows, Within
  <1>5. CASE ~ d.init_qrange
    BY <1>5, NothingWithin DEF VfKnows, Knows, Within
  <1> QED
    BY <1>4, <1>5

\* Where each case has the register.
LEMMA VfMapped ==
  ASSUME NEW d \in Driver, NEW e \in Entry, NEW m \in RM!Run, NEW u, NEW w,
         VfAgrees(d, e, m, u, w), ~ e.there => e = RM!NoEntry
  PROVE  Within(m, e) /\ (e.active > 0 => m = e.range)
  <1>0. /\ e.active \in 0..TotalQ /\ d.queues \in SUBSET (0..(TotalQ - 1))
        /\ ~ e.there => e.active = 0
        /\ m = NoFmap => Within(m, e)
        /\ m = e.range => Within(m, e)
    BY Nothing, NothingWithin DEF Driver, Entry, Within
  <1>1. ASSUME VfKnows(d, e, m), Counts(e, d.queues) \/ d.queues # {}
        PROVE  Within(m, e) /\ (e.active > 0 => m = e.range)
    <2>1. e.active > 0 => d.queues # {}
      BY <1>1, ZeroQueues DEF Counts
    <2> QED
      BY <1>1, <2>1, KnownMapped
  <1>2. CASE VfClosedAgrees(d, e, m, u, w)
    BY <1>0, <1>2 DEF VfClosedAgrees, Left, Leaving
  <1>3. CASE VfHelloAgrees(d, e, m, u, w)
    <2>1. (Leaving(e, m) \/ Left(e, m)) => Within(m, e) /\ e.active = 0
      BY <1>0 DEF Left, Leaving
    <2>2. e = [RM!NoEntry EXCEPT !.there = TRUE] => e.active = 0
      BY DEF RM!NoEntry
    <2> QED
      BY <1>0, <1>3, <2>1, <2>2 DEF VfHelloAgrees
  <1>4. CASE VfIdleAgrees(d, e, m, u, w)
    BY <1>1, <1>4 DEF VfIdleAgrees
  <1>5. CASE VfQreqAgrees(d, e, m, u, w)
    <2>1. (VfKnows(d, e, m) /\ Counts(e, d.queues)) \/ (e.active = 0 /\ m = NoFmap)
      BY <1>5, Zenon DEF VfQreqAgrees, Changing
    <2> QED
      BY <1>0, <1>1, <2>1
  <1>6. CASE VfSweepAgrees(d, e, m, u, w)
    BY <1>0, <1>1, <1>6 DEF VfSweepAgrees, Changing
  <1>7. CASE VfFmapAgrees(d, e, m, u, w)
    <2>1. e.active = 0 /\ (m = NoFmap \/ m = e.range)
      BY <1>7, Zenon DEF VfFmapAgrees
    <2> QED
      BY <1>0, <2>1
  <1>8. CASE VfAddAgrees(d, e, m, u, w)
    BY <1>1, <1>8 DEF VfAddAgrees
  <1>9. CASE VfDelAgrees(d, e, m, u, w)
    BY <1>1, <1>9 DEF VfDelAgrees
  <1> QED
    BY <1>2, <1>3, <1>4, <1>5, <1>6, <1>7, <1>8, <1>9 DEF VfAgrees

LEMMA PfMapped ==
  ASSUME NEW d \in Driver, NEW e \in Entry, NEW m \in RM!Run, PfAgrees(d, e, m), e.active > 0
  PROVE  m = e.range
  <1>1. Knows(d, e, m) /\ Counts(e, d.queues)
    BY DEF PfAgrees, Changing
  <1>2. d.queues # {}
    BY <1>1, ZeroQueues DEF Counts
  <1>3. d.conf \in RM!Run /\ d.queues \subseteq 0..(d.conf.total_q - 1)
    BY <1>1 DEF Knows, Driver
  <1>4. d.conf.total_q > 0
    BY <1>2, <1>3 DEF RM!Run
  <1> QED
    BY <1>1, <1>2, <1>4 DEF Knows

\* As long as no request times out and no allocation fails: a function with
\* queues in use reaches its own range through its register, and a virtual
\* function never another's, whatever it asks for and whenever its messages
\* are served (device_set_qrange, mbox_fmap_set and the zeroing of FMAP).
THEOREM QueuesAlwaysMapped == Spec => []OwnQueuesMapped
  <1>1. IInv /\ Protocol => OwnQueuesMapped
    <2> SUFFICES ASSUME IInv, Protocol, Undisturbed
                 PROVE  /\ \A f \in Funcs : dev[f].active > 0 => fmap[f] = dev[f].range
                        /\ \A v \in Vfs : RM!Queues(fmap[v]) \subseteq RM!Queues(dev[v].range)
      BY DEF OwnQueuesMapped
    <2>1. Agreement
      BY DEF Protocol
    <2>2. ASSUME NEW v \in Vfs
          PROVE  Within(fmap[v], dev[v]) /\ (dev[v].active > 0 => fmap[v] = dev[v].range)
      <3>1. ~ dev[v].there => dev[v] = RM!NoEntry
        BY <2>1, AgreesOf, OfFunction
      <3> QED
        BY <2>1, <3>1, AgreesOf, VfMapped
    <2>3. dev[Pf].active > 0 => fmap[Pf] = dev[Pf].range
      BY <2>1, PfIsFunc, OfTypes, PfMapped DEF Agreement
    <2> QED
      BY <2>2, <2>3 DEF Within, Funcs
  <1> QED
    BY <1>1, ProtocolInvariant, PTL

\* As long as no request times out and no allocation fails: a function that is
\* between two commands and the physical function's books agree on its range
\* and on how many of its queues are in use, and the count of the device
\* (active_qcnt) is the sum of those of its functions.
THEOREM BooksAlwaysAgree == Spec => []BooksAgree
  <1>1. IInv /\ Protocol => BooksAgree
    <2> SUFFICES ASSUME IInv, Protocol, Undisturbed
                 PROVE  /\ \A f \in Funcs : Agrees(f)
                        /\ active_qcnt = MapThenSumSet(LAMBDA f : dev[f].active, Funcs)
      BY DEF BooksAgree
    <2>1. Agreement /\ Tally
      BY DEF Protocol
    <2>2. ASSUME NEW f \in Funcs, drv[f].pc = "idle"
          PROVE  Knows(drv[f], dev[f], fmap[f]) /\ Counts(dev[f], drv[f].queues)
      <3>1. CASE f = Pf
        BY <2>1, <2>2, <3>1, PfIdle DEF Agreement
      <3>2. CASE f \in Vfs
        BY <2>1, <2>2, <3>2, VfIdle DEF VfKnows
      <3> QED
        BY <3>1, <3>2 DEF Funcs
    <2>3. \A f \in Funcs : Agrees(f)
      BY <2>2 DEF Agrees, Knows, Counts
    <2>4. dev \in [Funcs -> Entry]
      BY PfIsFunc, OfTypes
    <2>5. active_qcnt = MapThenSumSet(LAMBDA f : dev[f].active, Funcs)
      BY <2>1, <2>4, SumIsUsed DEF Tally
    <2> QED
      BY <2>3, <2>5
  <1> QED
    BY <1>1, ProtocolInvariant, PTL

================================================================================
