---------------------------- MODULE DescList_proofs ----------------------------
(***************************************************************************)
(* Proofs about DescList, for every size of registers, banks, channels and *)
(* operands: what the list handed to pim_exec writes, what has been read   *)
(* for a tile that it writes, where its operands are addressed, and what   *)
(* the code space of _elewise holds.                                       *)
(***************************************************************************)
EXTENDS DescList, TLAPS

(***************************************************************************)
(* Arithmetic.                                                             *)
(***************************************************************************)
LEMMA TimesNat ==
  ASSUME NEW m \in Nat, NEW n \in Nat
  PROVE  m * n \in Nat
  OBVIOUS

LEMMA TimesPositive ==
  ASSUME NEW m \in Nat \ {0}, NEW n \in Nat \ {0}
  PROVE  m * n \in Nat \ {0}
  OBVIOUS

LEMMA TimesAssociate ==
  ASSUME NEW i \in Nat, NEW j \in Nat, NEW m \in Nat
  PROVE  (i * j) * m = i * (j * m)
  OBVIOUS

LEMMA Distribute ==
  ASSUME NEW i \in Nat, NEW j \in Nat, NEW m \in Nat
  PROVE  (i + j) * m = i * m + j * m
  OBVIOUS

LEMMA Successor ==
  ASSUME NEW i \in Nat, NEW m \in Nat
  PROVE  (i + 1) * m = i * m + m
  OBVIOUS

LEMMA TimesMonotone ==
  ASSUME NEW i \in Nat, NEW j \in Nat, NEW m \in Nat, i <= j
  PROVE  i * m <= j * m
  OBVIOUS

LEMMA Division ==
  ASSUME NEW n \in Nat, NEW m \in Nat \ {0}
  PROVE  /\ n \div m \in Nat /\ n % m \in 0..(m - 1)
         /\ n = (n \div m) * m + (n % m)
  OBVIOUS

\* What lies before a bound does not lie after it.
LEMMA EndsBefore ==
  ASSUME NEW i \in Int, NEW m \in Int, NEW j \in Int, i + m <= j,
         NEW e \in Int, e <= i + m - 1, j <= e
  PROVE  FALSE
  OBVIOUS

\* A multiple below another is at least the common divisor below it.
LEMMA NextMultiple ==
  ASSUME NEW m \in Nat, NEW i \in Nat, NEW j \in Nat, i * m < j * m
  PROVE  (i + 1) * m <= j * m
  <1>1. i < j
    BY TimesMonotone
  <1> QED
    BY <1>1, TimesMonotone

\* Factors in order give products in order.
LEMMA TimesOrder ==
  ASSUME NEW i \in Nat, NEW j \in Nat, NEW m \in Nat \ {0}, i < j
  PROVE  i * m < j * m
  <1>1. (i + 1) * m <= j * m
    BY TimesMonotone
  <1>2. (i + 1) * m = i * m + m
    OBVIOUS
  <1>3. i * m \in Nat /\ j * m \in Nat
    BY TimesNat
  <1> QED
    BY <1>1, <1>2, <1>3

\* A number is divided in one way only.
LEMMA DividesOnce ==
  ASSUME NEW m \in Nat \ {0}, NEW a \in Nat, NEW b \in 0..(m - 1)
  PROVE  (a * m + b) \div m = a /\ (a * m + b) % m = b
  <1> DEFINE n == a * m + b
             c == n \div m
             d == n % m
  <1>1. n \in Nat
    BY TimesNat
  <1>2. c \in Nat /\ d \in 0..(m - 1) /\ n = c * m + d
    BY <1>1, Division
  <1>3. n = a * m + b /\ a * m \in Nat /\ c * m \in Nat
    BY <1>2, TimesNat
  <1> HIDE DEF n, c, d
  <1>4. ~(a < c)
    <2> SUFFICES ASSUME a < c
                 PROVE  FALSE
      OBVIOUS
    <2>1. (a + 1) * m <= c * m /\ (a + 1) * m = a * m + m
      BY <1>2, TimesMonotone
    <2> QED
      BY <1>2, <1>3, <2>1
  <1>5. ~(c < a)
    <2> SUFFICES ASSUME c < a
                 PROVE  FALSE
      OBVIOUS
    <2>1. (c + 1) * m <= a * m /\ (c + 1) * m = c * m + m
      BY <1>2, TimesMonotone
    <2> QED
      BY <1>2, <1>3, <2>1
  <1>6. a = c
    BY <1>2, <1>4, <1>5
  <1>7. b = d
    BY <1>2, <1>3, <1>6
  <1> QED
    BY <1>6, <1>7 DEF n, c, d

(***************************************************************************)
(* What a list writes.                                                     *)
(***************************************************************************)
Names == Operands \cup {"attr", "code"}
Descs == [x : Names, off : Int, at : Int, len : Int]

Writes(l, k) == k \in 1..Len(l) /\ l[k].x = "C"

\* The elements below f are written, each once, from the first to the last.
Written(l, f) ==
  /\ f \in Nat
  /\ \A k \in 1..Len(l) : Writes(l, k) => /\ l[k].off \in Nat /\ l[k].len \in Nat
                                          /\ l[k].off + l[k].len <= f
  /\ \A j, k \in 1..Len(l) :
       Writes(l, j) /\ Writes(l, k) /\ j < k => l[j].off + l[j].len <= l[k].off
  /\ \A e \in 0..(f - 1) : \E k \in 1..Len(l) :
       Writes(l, k) /\ l[k].off <= e /\ e < l[k].off + l[k].len

LEMMA WrittenNat ==
  ASSUME NEW l, NEW f, Written(l, f)
  PROVE  f \in Nat
  BY DEF Written

LEMMA WrittenNothing == Written(<<>>, 0)
  BY DEF Written, Writes

\* Descriptors of which none writes.
LEMMA EmitOthers ==
  ASSUME NEW l \in Seq(Descs), NEW ds \in Seq(Descs), NEW f \in Nat, Written(l, f),
         \A k \in 1..Len(ds) : ds[k].x # "C"
  PROVE  Written(l \o ds, f)
  <1> DEFINE m == l \o ds
  <1>1. /\ m \in Seq(Descs) /\ Len(m) = Len(l) + Len(ds) /\ Len(l) \in Nat /\ Len(ds) \in Nat
        /\ \A k \in 1..Len(l) : m[k] = l[k] /\ k \in 1..Len(m)
        /\ \A k \in 1..Len(m) : k > Len(l) => m[k] = ds[k - Len(l)] /\ k - Len(l) \in 1..Len(ds)
    OBVIOUS
  <1> HIDE DEF m
  <1>2. \A k \in 1..Len(m) : Writes(m, k) => k \in 1..Len(l) /\ Writes(l, k) /\ m[k] = l[k]
    <2> SUFFICES ASSUME NEW k \in 1..Len(m), Writes(m, k)
                 PROVE  k \in 1..Len(l) /\ Writes(l, k) /\ m[k] = l[k]
      OBVIOUS
    <2>1. ~(k > Len(l))
      <3> SUFFICES ASSUME k > Len(l) PROVE FALSE
        OBVIOUS
      <3>1. m[k] = ds[k - Len(l)] /\ k - Len(l) \in 1..Len(ds)
        BY <1>1
      <3> QED
        BY <3>1 DEF Writes
    <2>2. k \in 1..Len(l)
      BY <2>1, <1>1
    <2> QED
      BY <2>2, <1>1 DEF Writes
  <1>3. \A k \in 1..Len(l) : Writes(l, k) => Writes(m, k) /\ k \in 1..Len(m)
    BY <1>1 DEF Writes
  <1>4. Written(m, f)
    BY <1>1, <1>2, <1>3 DEF Written
  <1> QED
    BY <1>4 DEF m

\* Descriptors ds of which the last, d, writes the next elements.
LEMMA EmitNamed ==
  ASSUME NEW l \in Seq(Descs), NEW ds \in Seq(Descs), NEW f \in Nat, Written(l, f),
         NEW n \in Nat, n > 0, n = Len(ds),
         \A k \in 1..(n - 1) : ds[k].x # "C",
         NEW d \in Descs, d = ds[n], d.x = "C", d.off = f, d.len \in Nat,
         NEW m, m = l \o ds, NEW z, z = Len(m),
         NEW g, g = f + d.len
  PROVE  Written(m, g)
  <1>1. /\ m \in Seq(Descs) /\ z = Len(l) + n /\ Len(l) \in Nat /\ z \in 1..Len(m) /\ z \in Nat
        /\ \A k \in 1..Len(l) : m[k] = l[k] /\ k \in 1..Len(m) /\ k < z
        /\ \A k \in 1..Len(m) : k > Len(l) => m[k] = ds[k - Len(l)] /\ k - Len(l) \in 1..n
        /\ m[z] = d
    OBVIOUS
  <1>0. f \in Nat /\ d.len \in Nat /\ d.x = "C" /\ d.off = f
    BY DEF Written
  <1>2. \A k \in 1..Len(m) :
          Writes(m, k) => k = z \/ (k \in 1..Len(l) /\ Writes(l, k) /\ m[k] = l[k] /\ k < z)
    <2> SUFFICES ASSUME NEW k \in 1..Len(m), Writes(m, k), k # z
                 PROVE  k \in 1..Len(l) /\ Writes(l, k) /\ m[k] = l[k] /\ k < z
      OBVIOUS
    <2>1. ~(k > Len(l))
      <3> SUFFICES ASSUME k > Len(l) PROVE FALSE
        OBVIOUS
      <3>1. m[k] = ds[k - Len(l)] /\ k - Len(l) \in 1..n
        BY <1>1
      <3>2. k - Len(l) # n
        BY <1>1
      <3>3. k - Len(l) \in 1..(n - 1)
        BY <1>1, <3>1, <3>2
      <3> QED
        BY <3>1, <3>3 DEF Writes
    <2>2. k \in 1..Len(l)
      BY <2>1, <1>1
    <2> QED
      BY <2>2, <1>1 DEF Writes
  <1>3. /\ \A k \in 1..Len(l) : Writes(l, k) => Writes(m, k) /\ k \in 1..Len(m)
        /\ Writes(m, z)
    BY <1>0, <1>1 DEF Writes
  <1>4. \A k \in 1..Len(m) : Writes(m, k) => /\ m[k].off \in Nat /\ m[k].len \in Nat
                                             /\ m[k].off + m[k].len <= g
    <2> SUFFICES ASSUME NEW k \in 1..Len(m), Writes(m, k)
                 PROVE  m[k].off \in Nat /\ m[k].len \in Nat /\ m[k].off + m[k].len <= g
      OBVIOUS
    <2>1. CASE k = z
      BY <2>1, <1>0, <1>1
    <2>2. CASE k # z
      <3>1. k \in 1..Len(l) /\ Writes(l, k) /\ m[k] = l[k]
        BY <1>2, <2>2
      <3>2. l[k].off \in Nat /\ l[k].len \in Nat /\ l[k].off + l[k].len <= f
        BY <3>1 DEF Written
      <3> QED
        BY <3>1, <3>2, <1>0
    <2> QED
      BY <2>1, <2>2
  <1>5. \A j, k \in 1..Len(m) :
          Writes(m, j) /\ Writes(m, k) /\ j < k => m[j].off + m[j].len <= m[k].off
    <2> SUFFICES ASSUME NEW j \in 1..Len(m), NEW k \in 1..Len(m),
                        Writes(m, j), Writes(m, k), j < k
                 PROVE  m[j].off + m[j].len <= m[k].off
      OBVIOUS
    <2>1. j \in 1..Len(l) /\ Writes(l, j) /\ m[j] = l[j]
      <3>1. j # z
        BY <1>1
      <3> QED
        BY <3>1, <1>2
    <2>2. CASE k = z
      BY <2>1, <2>2, <1>0, <1>1 DEF Written
    <2>3. CASE k # z
      BY <2>1, <2>3, <1>2 DEF Written
    <2> QED
      BY <2>2, <2>3
  <1>6. \A e \in 0..(g - 1) : \E k \in 1..Len(m) :
          Writes(m, k) /\ m[k].off <= e /\ e < m[k].off + m[k].len
    <2> SUFFICES ASSUME NEW e \in 0..(g - 1)
                 PROVE  \E k \in 1..Len(m) :
                          Writes(m, k) /\ m[k].off <= e /\ e < m[k].off + m[k].len
      OBVIOUS
    <2>1. CASE e < f
      <3>1. PICK k \in 1..Len(l) : Writes(l, k) /\ l[k].off <= e /\ e < l[k].off + l[k].len
        BY <2>1, <1>0 DEF Written
      <3> QED
        BY <3>1, <1>1, <1>3
    <2>2. CASE ~(e < f)
      <3>1. z \in 1..Len(m) /\ Writes(m, z) /\ m[z].off = f /\ m[z].len = d.len
        BY <1>0, <1>1, <1>3
      <3>2. f <= e /\ e < g
        BY <2>2, <1>0
      <3>3. m[z].off <= e /\ e < m[z].off + m[z].len
        BY <3>1, <3>2
      <3> QED
        BY <3>1, <3>3
    <2> QED
      BY <2>1, <2>2, <1>0
  <1>7. g \in Nat
    BY <1>0
  <1> QED
    BY <1>7, <1>4, <1>5, <1>6, Zenon DEF Written

\* Descriptors of which the last writes the next elements.
LEMMA EmitWrite ==
  ASSUME NEW l \in Seq(Descs), NEW ds \in Seq(Descs), NEW f \in Nat, Written(l, f),
         Len(ds) > 0, \A k \in 1..(Len(ds) - 1) : ds[k].x # "C",
         ds[Len(ds)].x = "C", ds[Len(ds)].off = f, ds[Len(ds)].len \in Nat
  PROVE  Written(l \o ds, f + ds[Len(ds)].len)
  <1>a. PICK m : m = l \o ds
    OBVIOUS
  <1>b. PICK n : n = Len(ds) /\ n \in Nat /\ n > 0
    OBVIOUS
  <1>c. PICK d : d = ds[n] /\ d \in Descs
    BY <1>b
  <1>d. PICK z : z = Len(m)
    OBVIOUS
  <1>e. PICK g : g = f + d.len
    OBVIOUS
  <1>f. d.x = "C" /\ d.off = f /\ d.len \in Nat /\ \A k \in 1..(n - 1) : ds[k].x # "C"
    BY <1>b, <1>c
  <1>g. Written(m, g)
    BY <1>a, <1>b, <1>c, <1>d, <1>e, <1>f, EmitNamed
  <1> QED
    BY <1>a, <1>b, <1>c, <1>e, <1>g

(***************************************************************************)
(* Types.                                                                  *)
(***************************************************************************)
Products == {"gemm", "fused", "tiled", "fusedTiled"}

TInv ==
  /\ pc \in {"call", "tile", "step", "bias", "elewise", "exec", "done", "failed"}
  /\ pc # "call" => call \in Calls
  /\ p \in Nat /\ q \in Nat /\ r \in Nat /\ cntA \in Nat /\ cntB \in Nat /\ cntC \in Nat
  /\ codes \in Nat
  /\ base \in [Operands -> Int]
  /\ list \in Seq(Descs)
  /\ pc \in {"tile", "step"} => call.op \in Products
  /\ pc \in {"bias", "elewise"} => call.op = pc
  /\ pc = "call" => p = 0 /\ r = 0 /\ cntC = 0 /\ codes = 0 /\ list = <<>> /\ call = NoCall

LEMMA Sizes ==
  /\ Reg \in Nat \ {0} /\ Width \in Nat \ {0} /\ Banks \in Nat \ {0} /\ Burst \in Nat \ {0}
  /\ Step \in Nat \ {0} /\ Channels \in Nat \ {0} /\ Chunk \in Nat \ {0} /\ Huge \in Nat \ {0}
  BY SizesAssumption

LEMMA CallSizes ==
  ASSUME NEW c \in Calls
  PROVE  c.op \in Ops /\ c.P \in Nat \ {0} /\ c.Q \in Nat \ {0} /\ c.R \in Nat \ {0}
  BY SizesAssumption

LEMMA TotalSizes ==
  ASSUME call \in Calls
  PROVE  Total \in Nat \ {0} /\ Batch \in Nat \ {0}
  <1>1. Total \in Nat \ {0}
    BY CallSizes, TimesPositive DEF Total
  <1> QED
    BY <1>1, Sizes DEF Batch

LEMMA DescTyped ==
  ASSUME TInv, NEW x \in Operands, NEW off \in Int, NEW len \in Int
  PROVE  Desc(x, off, len) \in Descs
  <1>1. off % Huge \in Int
    BY Sizes
  <1>2. Place(x, off) \in Int
    BY <1>1 DEF Place, TInv
  <1> QED
    BY <1>2 DEF Desc, Descs, Names

LEMMA RefreshTyped ==
  ASSUME TInv, NEW S \in SUBSET Operands, NEW off \in [S -> Int], Refresh(off)
  PROVE  base' \in [Operands -> Int]
  <1>1. \A x \in Operands : Ask(off, x) \in Int
    BY DEF Ask, TInv
  <1> QED
    BY <1>1 DEF Refresh

LEMMA OffsetsTyped ==
  ASSUME TInv, pc \in {"tile", "step"}
  PROVE  /\ OutOff \in Nat /\ OutLen \in Nat
         /\ AOff \in Int /\ BOff \in Int /\ ALen \in Nat /\ BLen \in Nat
  <1>1. call.Q \in Nat \ {0} /\ call.R \in Nat \ {0} /\ call.P \in Nat \ {0}
    BY CallSizes DEF TInv
  <1>2. call.Q * call.R \in Nat \ {0} /\ call.P * call.Q \in Nat \ {0}
    BY <1>1, TimesPositive
  <1>3. p * call.Q + cntA \in Int
    BY <1>1 DEF TInv
  <1>4. AroundOff \in Int
    <2> DEFINE m == call.Q * call.R
    <2>1. m \in Nat \ {0}
      BY <1>2
    <2> HIDE DEF m
    <2>2. cntB % m \in Int
      BY <2>1 DEF TInv
    <2> QED
      BY <2>2 DEF AroundOff, m
  <1>5. BlockOff \in Int
    <2> DEFINE m == call.P * call.Q
               k == p * call.Q + cntA
    <2>1. m \in Nat \ {0} /\ k \in Int
      BY <1>2, <1>3
    <2> HIDE DEF m, k
    <2>2. k % m \in Int
      BY <2>1
    <2> QED
      BY <2>2 DEF BlockOff, m, k
  <1>6. r * Width \in Nat /\ p * call.R \in Nat /\ Reg * Banks \in Nat /\ Reg * Reg \in Nat
        /\ Reg * Width \in Nat
    BY <1>1, Sizes, TimesNat DEF TInv
  <1>7. OutOff \in Nat /\ OutLen \in Nat /\ ALen \in Nat /\ BLen \in Nat
    BY <1>6, Sizes DEF OutOff, OutLen, ALen, BLen, TInv
  <1>8. q + call.Q * p \in Int /\ (call.Q * r + q) * Width \in Int
    BY <1>1, Sizes DEF TInv
  <1> QED
    BY <1>4, <1>5, <1>7, <1>8 DEF AOff, BOff

LEMMA AttributesTyped == Attributes \in Descs
  BY Sizes DEF Attributes, Descs, Names

\* The descriptors of a batch.
BatchDescs ==
  LET part(x, len) == [x |-> x, off |-> r * Batch, at |-> r * Batch, len |-> len]
      code(k) == [x |-> "code", off |-> codes + k * Channels,
                  at |-> codes + k * Channels, len |-> Channels]
  IN <<code(0), part("A", Batch), code(1), part("B", Burst * Channels),
       code(2), part("C", Batch)>>

LEMMA BatchTyped ==
  ASSUME TInv, call \in Calls
  PROVE  /\ BatchDescs \in Seq(Descs) /\ Len(BatchDescs) = 6
         /\ \A k \in 1..5 : BatchDescs[k].x # "C"
         /\ \A k \in 1..6 : BatchDescs[k].x = "code" =>
              BatchDescs[k].len = Channels /\
              BatchDescs[k].off \in {codes, codes + Channels, codes + 2 * Channels}
         /\ BatchDescs[6].x = "C" /\ BatchDescs[6].off = r * Batch /\ BatchDescs[6].len = Batch
         /\ BatchDescs[6] \in Descs
  <1> DEFINE part(x, len) == [x |-> x, off |-> r * Batch, at |-> r * Batch, len |-> len]
             code(k) == [x |-> "code", off |-> codes + k * Channels,
                         at |-> codes + k * Channels, len |-> Channels]
  <1>1. BatchDescs = <<code(0), part("A", Batch), code(1), part("B", Burst * Channels),
                       code(2), part("C", Batch)>>
    BY DEF BatchDescs
  <1>2. /\ r * Batch \in Int /\ Batch \in Int /\ Burst * Channels \in Int
        /\ codes \in Int /\ Channels \in Int
    BY TotalSizes, Sizes DEF TInv
  <1>3. \A len \in Int : part("A", len) \in Descs /\ part("B", len) \in Descs
                         /\ part("C", len) \in Descs
    BY <1>2 DEF Descs, Names, Operands
  <1>4. \A k \in {0, 1, 2} : code(k) \in Descs
    BY <1>2 DEF Descs, Names
  <1>5. /\ part("A", Batch).x = "A" /\ part("B", Burst * Channels).x = "B"
        /\ part("C", Batch).x = "C" /\ part("C", Batch).off = r * Batch
        /\ part("C", Batch).len = Batch
    OBVIOUS
  <1>6. \A k \in {0, 1, 2} : code(k).x = "code" /\ code(k).len = Channels
                             /\ code(k).off = codes + k * Channels
    OBVIOUS
  <1>7. /\ code(0).off = codes /\ code(1).off = codes + Channels
        /\ code(2).off = codes + 2 * Channels
    BY <1>2
  <1> HIDE DEF part, code
  <1> QED
    BY <1>1, <1>2, <1>3, <1>4, <1>5, <1>6, <1>7

LEMMA CallTyped ==
  ASSUME TInv, Call
  PROVE  TInv'
  <1>1. PICK c \in Calls :
          /\ call' = c
          /\ pc' = CASE c.op \in {"bias", "elewise"} -> c.op
                     [] c.op \in {"gemm", "fused"} /\ c.R < Width -> "exec"
                     [] OTHER -> "tile"
          /\ list' = IF c.op = "elewise" THEN <<Attributes>> ELSE list
    BY DEF Call
  <1>2. c.op \in Ops
    BY CallSizes
  <1>3. \/ c.op \in {"bias", "elewise"} /\ pc' = c.op
        \/ c.op \in Products /\ pc' \in {"exec", "tile"}
    BY <1>1, <1>2 DEF Ops, Products
  <1>4. list' \in Seq(Descs)
    BY <1>1, AttributesTyped DEF TInv
  <1> QED
    BY <1>1, <1>3, <1>4 DEF TInv, Call, loop

LEMMA TileTyped ==
  ASSUME TInv, Tile
  PROVE  TInv'
  <1>1. pc = "tile" /\ pc' = "step" /\ q' = 0 /\ cntA' = 0
        /\ UNCHANGED <<call, p, r, cntB, cntC, codes>>
    BY DEF Tile
  <1>2. base' \in [Operands -> Int] /\ list' \in Seq(Descs)
    <2>1. CASE UNCHANGED <<base, list>>
      BY <2>1 DEF TInv
    <2>2. CASE /\ Refresh([x \in {"D", "C"} |-> OutOff])
               /\ Emit(<<Desc("D", OutOff, OutLen)>>)
      <3>1. OutOff \in Int /\ OutLen \in Int
        BY <1>1, OffsetsTyped
      <3>2. [x \in {"D", "C"} |-> OutOff] \in [{"D", "C"} -> Int]
            /\ {"D", "C"} \in SUBSET Operands
        BY <3>1 DEF Operands
      <3>3. Desc("D", OutOff, OutLen) \in Descs
        BY <3>1, DescTyped DEF Operands
      <3>4. base' \in [Operands -> Int]
        BY <2>2, <3>2, RefreshTyped
      <3>5. list' \in Seq(Descs)
        BY <2>2, <3>3 DEF Emit, TInv
      <3> QED
        BY <3>4, <3>5
    <2> QED
      BY <2>1, <2>2 DEF Tile
  <1> QED
    BY <1>1, <1>2 DEF TInv

LEMMA MultiplyTyped ==
  ASSUME TInv, Multiply
  PROVE  /\ TInv'
         /\ \E ds \in Seq(Descs) : list' = list \o ds /\ \A k \in 1..Len(ds) : ds[k].x # "C"
  <1> DEFINE off == [x \in {"A", "B"} |-> IF x = "A" THEN AOff ELSE BOff]
  <1>1. pc = "step" /\ UNCHANGED <<pc, call, p, r, cntC, codes>>
    BY DEF Multiply
  <1>2. AOff \in Int /\ BOff \in Int /\ ALen \in Int /\ BLen \in Int
    BY <1>1, OffsetsTyped
  <1>3. Operand("A") \in Descs /\ Operand("B") \in Descs
        /\ Operand("A").x = "A" /\ Operand("B").x = "B"
    <2>1. Desc("A", AOff, ALen) \in Descs /\ Desc("B", BOff, BLen) \in Descs
      BY <1>2, DescTyped DEF Operands
    <2>2. Desc("A", AOff, ALen).x = "A" /\ Desc("B", BOff, BLen).x = "B"
      BY DEF Desc
    <2> QED
      BY <2>1, <2>2 DEF Operand
  <1>4. \E ds \in Seq(Descs) : list' = list \o ds /\ \A k \in 1..Len(ds) : ds[k].x # "C"
    <2> DEFINE d1 == <<Operand("B"), Operand("A")>>
               d2 == <<Operand("A"), Operand("B")>>
    <2>1. list' = list \o d1 \/ list' = list \o d2
      BY DEF Multiply, Emit
    <2>2. /\ d1 \in Seq(Descs) /\ d2 \in Seq(Descs)
          /\ \A k \in 1..Len(d1) : d1[k].x # "C"
          /\ \A k \in 1..Len(d2) : d2[k].x # "C"
      BY <1>3
    <2> HIDE DEF d1, d2
    <2> QED
      BY <2>1, <2>2
  <1>5. base' \in [Operands -> Int]
    <2>1. off \in [{"A", "B"} -> Int] /\ {"A", "B"} \in SUBSET Operands
      BY <1>2 DEF Operands
    <2>2. Refresh(off)
      BY DEF Multiply
    <2> QED
      BY <2>1, <2>2, RefreshTyped
  <1>6. q' \in Nat /\ cntA' \in Nat /\ cntB' \in Nat
    <2>1. q' = q + Reg /\ cntA' = cntA + Reg * Reg /\ cntB' \in {cntB + 2 * Step, cntB + Step}
      BY DEF Multiply
    <2>2. Reg * Reg \in Nat
      BY Sizes, TimesNat
    <2> QED
      BY <2>1, <2>2, Sizes DEF TInv
  <1>7. list' \in Seq(Descs)
    BY <1>4 DEF TInv
  <1> QED
    BY <1>1, <1>4, <1>5, <1>6, <1>7 DEF TInv

LEMMA StoreTyped ==
  ASSUME TInv, Store
  PROVE  /\ TInv'
         /\ list' = list \o <<Desc("C", OutOff, OutLen)>>
         /\ Desc("C", OutOff, OutLen) \in Descs
  <1>1. /\ pc = "step" /\ UNCHANGED <<call, q, cntA, cntB, codes>>
        /\ NextTile /\ cntC' = cntC + Reg * Banks
        /\ list' = list \o <<Desc("C", OutOff, OutLen)>>
    BY DEF Store, Emit
  <1>2. OutOff \in Int /\ OutLen \in Int
    BY <1>1, OffsetsTyped
  <1>3. Desc("C", OutOff, OutLen) \in Descs
    BY <1>2, DescTyped DEF Operands
  <1>4. base' \in [Operands -> Int]
    <2>1. CASE Refresh([x \in {"C"} |-> OutOff])
      <3>1. [x \in {"C"} |-> OutOff] \in [{"C"} -> Int] /\ {"C"} \in SUBSET Operands
        BY <1>2 DEF Operands
      <3> QED
        BY <2>1, <3>1, RefreshTyped
    <2>2. CASE UNCHANGED base
      BY <2>2 DEF TInv
    <2> QED
      BY <2>1, <2>2 DEF Store
  <1>5. p' \in Nat /\ r' \in Nat /\ pc' \in {"tile", "exec"}
    BY <1>1, Sizes DEF NextTile, PStep, RStep, TInv
  <1>6. cntC' \in Nat
    BY <1>1, Sizes, TimesNat DEF TInv
  <1>7. list' \in Seq(Descs)
    BY <1>1, <1>3 DEF TInv
  <1> QED
    BY <1>1, <1>3, <1>4, <1>5, <1>6, <1>7 DEF TInv

LEMMA BiasTyped ==
  ASSUME TInv, BiasRow
  PROVE  TInv'
  <1> DEFINE off == q * call.R + r
             offs == [x \in {"A", "B", "C"} |-> IF x = "A" THEN r ELSE off]
  <1>1. /\ pc = "bias" /\ call \in Calls /\ UNCHANGED <<call, p, cntA, cntB, cntC, codes>>
        /\ Refresh(offs)
        /\ list' = list \o <<Desc("A", r, Width), Desc("B", off, Width), Desc("C", off, Width)>>
    BY DEF BiasRow, TInv, Emit
  <1>2. off \in Int /\ r \in Int /\ Width \in Int /\ Reg * Banks \in Nat
    BY <1>1, CallSizes, Sizes, TimesNat DEF TInv
  <1>3. q' \in Nat /\ r' \in Nat /\ pc' \in {"bias", "exec"}
    BY <1>1, <1>2 DEF BiasRow, TInv
  <1> HIDE DEF off
  <1>4. offs \in [{"A", "B", "C"} -> Int] /\ {"A", "B", "C"} \in SUBSET Operands
    BY <1>2 DEF Operands
  <1>5. base' \in [Operands -> Int]
    BY <1>1, <1>4, RefreshTyped
  <1>6. /\ Desc("A", r, Width) \in Descs /\ Desc("B", off, Width) \in Descs
        /\ Desc("C", off, Width) \in Descs
    BY <1>2, DescTyped DEF Operands
  <1>7. list' \in Seq(Descs)
    BY <1>1, <1>6 DEF TInv
  <1> QED
    BY <1>1, <1>3, <1>5, <1>7 DEF TInv

LEMMA ElewiseDoes ==
  ASSUME Elewise
  PROVE  \/ /\ r < Total \div Batch
            /\ list' = list \o BatchDescs
            /\ codes' = codes + 3 * Channels /\ r' = r + 1 /\ pc' = pc
         \/ /\ ~(r < Total \div Batch)
            /\ pc' = "exec" /\ UNCHANGED <<codes, r, list>>
  BY DEF Elewise, Emit, BatchDescs

LEMMA ElewiseTyped ==
  ASSUME TInv, Elewise
  PROVE  TInv'
  <1>1. /\ pc = "elewise" /\ call \in Calls
        /\ UNCHANGED <<call, p, q, cntA, cntB, cntC, base>>
    BY DEF Elewise, TInv
  <1>2. list' \in Seq(Descs)
    <2>1. BatchDescs \in Seq(Descs) /\ list \in Seq(Descs)
      BY <1>1, BatchTyped DEF TInv
    <2>2. list \o BatchDescs \in Seq(Descs)
      BY <2>1
    <2>3. list' \in {list, list \o BatchDescs}
      BY ElewiseDoes
    <2> QED
      BY <2>1, <2>2, <2>3
  <1>3. codes' \in Nat /\ r' \in Nat /\ pc' \in {"elewise", "exec"}
    BY <1>1, ElewiseDoes, Sizes DEF TInv
  <1> QED
    BY <1>1, <1>2, <1>3 DEF TInv

LEMMA TypedStep ==
  ASSUME TInv, [Next]_vars
  PROVE  TInv'
  <1>1. CASE Refuse
    BY <1>1 DEF Refuse, TInv, loop
  <1>2. CASE Exec
    BY <1>2 DEF Exec, TInv, loop
  <1>3. CASE UNCHANGED vars
    BY <1>3 DEF vars, TInv
  <1> QED
    BY <1>1, <1>2, <1>3, CallTyped, TileTyped, MultiplyTyped, StoreTyped, BiasTyped,
       ElewiseTyped DEF Next

(***************************************************************************)
(* What is written so far: the place of the loops is the end of it.        *)
(***************************************************************************)
InLoops == pc \in {"tile", "step"}

\* The silent products: r counts the tiles of row p.
SilentWritten ==
  call.op \in {"gemm", "fused"} /\ call.R % Width = 0 /\ InLoops =>
    /\ p < call.P /\ r < call.R \div Width
    /\ Written(list, p * call.R + r * Width)

\* The decoupled product: p and r step over whole registers and all banks.
TiledWritten ==
  call.op = "tiled" /\ call.P % Reg = 0 /\ call.R % Banks = 0 /\ InLoops =>
    /\ p < call.P /\ p % Reg = 0
    /\ r < call.R /\ r % Banks = 0
    /\ cntC = p * call.R + r * Reg
    /\ Written(list, cntC)

\* The batches of _elewise, and its codes.
BatchesWritten ==
  call.op = "elewise" =>
    /\ r <= Total \div Batch
    /\ Written(list, r * Batch)
    /\ codes = 3 * (Channels * r)
    /\ \A k \in 1..Len(list) : list[k].x = "code" =>
         list[k].off + list[k].len <= codes

AllWritten == pc = "exec" /\ Whole => Written(list, Total)

DInv == TInv /\ SilentWritten /\ TiledWritten /\ BatchesWritten /\ AllWritten

LEMMA NotWhole == NoCall.op = "none" /\ ~(NoCall.op \in Ops)
  BY DEF NoCall, Ops

LEMMA InitDInv == Init => DInv
  <1> SUFFICES ASSUME Init PROVE DInv
    OBVIOUS
  <1>1. TInv
    BY DEF Init, TInv
  <1> QED
    BY <1>1, NotWhole DEF Init, DInv, SilentWritten, TiledWritten, BatchesWritten, AllWritten,
       InLoops, Ops

\* A multiple of n is a number of times n.
LEMMA Multiple ==
  ASSUME NEW n \in Nat \ {0}, NEW m \in Nat, m % n = 0
  PROVE  m \div n \in Nat /\ m = (m \div n) * n
  BY Division

LEMMA TimesIsMultiple ==
  ASSUME NEW n \in Nat \ {0}, NEW k \in Nat
  PROVE  (k * n) % n = 0
  OBVIOUS

\* From one multiple to the next.
LEMMA StepMultiple ==
  ASSUME NEW n \in Nat \ {0}, NEW m \in Nat, NEW e \in Nat, m % n = 0, e % n = 0, m < e
  PROVE  m + n <= e /\ (m + n) % n = 0
  <1> DEFINE i == m \div n
             j == e \div n
  <1>1. i \in Nat /\ j \in Nat /\ m = i * n /\ e = j * n
    BY Multiple
  <1> HIDE DEF i, j
  <1>2. (i + 1) * n <= j * n
    BY <1>1, NextMultiple
  <1>3. (i + 1) * n = m + n
    BY <1>1
  <1>4. ((i + 1) * n) % n = 0
    BY <1>1, TimesIsMultiple
  <1> QED
    BY <1>1, <1>2, <1>3, <1>4

LEMMA CallWritten ==
  ASSUME DInv, Call
  PROVE  SilentWritten' /\ TiledWritten' /\ BatchesWritten' /\ AllWritten'
  <1>1. PICK c \in Calls :
          /\ call' = c
          /\ pc' = CASE c.op \in {"bias", "elewise"} -> c.op
                     [] c.op \in {"gemm", "fused"} /\ c.R < Width -> "exec"
                     [] OTHER -> "tile"
          /\ list' = IF c.op = "elewise" THEN <<Attributes>> ELSE list
    BY DEF Call
  <1>2. /\ c.op \in Ops /\ c.P \in Nat \ {0} /\ c.R \in Nat \ {0}
    BY CallSizes
  <1>3. /\ p' = 0 /\ r' = 0 /\ cntC' = 0 /\ codes' = 0 /\ list = <<>>
    BY DEF Call, DInv, TInv, loop
  <1>4. SilentWritten'
    <2> SUFFICES ASSUME c.op \in {"gemm", "fused"}, c.R % Width = 0, pc' \in {"tile", "step"}
                 PROVE  /\ p' < c.P /\ r' < c.R \div Width
                        /\ Written(list', p' * c.R + r' * Width)
      BY <1>1 DEF SilentWritten, InLoops
    <2>1. ~(c.R < Width)
      BY <1>1
    <2>2. c.R \div Width > 0
      BY <1>2, <2>1, Multiple, Sizes
    <2>3. list' = <<>> /\ p' * c.R + r' * Width = 0
      BY <1>1, <1>2, <1>3, Sizes
    <2> QED
      BY <1>2, <1>3, <2>2, <2>3, WrittenNothing
  <1>5. TiledWritten'
    <2> SUFFICES ASSUME c.op = "tiled"
                 PROVE  /\ p' < c.P /\ p' % Reg = 0
                        /\ r' < c.R /\ r' % Banks = 0
                        /\ cntC' = p' * c.R + r' * Reg
                        /\ Written(list', cntC')
      BY <1>1 DEF TiledWritten
    <2>1. list' = <<>>
      BY <1>1, <1>3
    <2>2. 0 % Reg = 0 /\ 0 % Banks = 0 /\ 0 * c.R + 0 * Reg = 0
      BY <1>2, Sizes
    <2> QED
      BY <1>2, <1>3, <2>1, <2>2, WrittenNothing
  <1>6. BatchesWritten'
    <2> SUFFICES ASSUME c.op = "elewise"
                 PROVE  BatchesWritten'
      BY <1>1 DEF BatchesWritten
    <2>1. Total' \in Nat \ {0} /\ Batch' \in Nat \ {0}
      <3>1. Total' \in Nat \ {0}
        BY <1>1, <1>2, TimesPositive DEF Total
      <3> QED
        BY <3>1, Sizes DEF Batch
    <2>2. list' = <<Attributes>> /\ Attributes.x = "attr"
      BY <1>1 DEF Attributes
    <2>3. Written(<<>> \o <<Attributes>>, 0)
      <3>1. <<>> \in Seq(Descs) /\ <<Attributes>> \in Seq(Descs)
        BY AttributesTyped
      <3>2. \A k \in 1..Len(<<Attributes>>) : <<Attributes>>[k].x # "C"
        BY <2>2
      <3> QED
        BY <3>1, <3>2, WrittenNothing, EmitOthers
    <2>4. <<>> \o <<Attributes>> = <<Attributes>>
      BY AttributesTyped
    <2>5. r' * Batch' = 0 /\ 3 * (Channels * r') = 0 /\ r' <= Total' \div Batch'
      <3> DEFINE b == Batch'
                 t == Total'
      <3>1. b \in Nat \ {0} /\ t \in Nat
        BY <2>1
      <3> HIDE DEF b, t
      <3>2. t \div b \in Nat
        BY <3>1, Division
      <3>3. 0 * b = 0 /\ 3 * (Channels * 0) = 0
        BY <3>1, Sizes
      <3> QED
        BY <1>3, <3>2, <3>3 DEF b, t
    <2> QED
      BY <1>3, <2>2, <2>3, <2>4, <2>5 DEF BatchesWritten
  <1>7. AllWritten'
    <2> SUFFICES ASSUME pc' = "exec", Whole'
                 PROVE  FALSE
      BY DEF AllWritten
    <2>1. c.op \in {"gemm", "fused"} /\ c.R < Width
      BY <1>1
    <2>2. c.R % Width = 0
      BY <1>1, <2>1 DEF Whole
    <2> QED
      BY <1>2, <2>1, <2>2, Sizes
  <1> QED
    BY <1>4, <1>5, <1>6, <1>7

\* Steps that write nothing and stay where they are.
LEMMA SameWritten ==
  ASSUME DInv, UNCHANGED <<call, p, r, cntC, codes>>,
         pc' = pc \/ (InLoops /\ pc' \in {"tile", "step"}),
         call.op # "elewise" \/ list' = list,
         \A f : Written(list, f) => Written(list', f)
  PROVE  SilentWritten' /\ TiledWritten' /\ BatchesWritten' /\ AllWritten'
  <1>1. SilentWritten'
    BY DEF DInv, SilentWritten, InLoops
  <1>2. TiledWritten'
    BY DEF DInv, TiledWritten, InLoops
  <1>3. Total' = Total /\ Batch' = Batch /\ Whole' = Whole
    BY DEF Total, Batch, Whole
  <1>4. BatchesWritten'
    BY <1>3 DEF DInv, BatchesWritten
  <1>5. AllWritten'
    <2>1. pc' = "exec" => pc = "exec"
      BY DEF InLoops
    <2> QED
      BY <1>3, <2>1 DEF DInv, AllWritten
  <1> QED
    BY <1>1, <1>2, <1>4, <1>5

LEMMA TileWritten ==
  ASSUME DInv, Tile
  PROVE  SilentWritten' /\ TiledWritten' /\ BatchesWritten' /\ AllWritten'
  <1>1. /\ InLoops /\ pc' \in {"tile", "step"} /\ UNCHANGED <<call, p, r, cntC, codes>>
        /\ call.op \in Products
    BY DEF Tile, DInv, TInv, InLoops
  <1>2. \A f : Written(list, f) => Written(list', f)
    <2>1. CASE list' = list
      BY <2>1
    <2>2. CASE list' = list \o <<Desc("D", OutOff, OutLen)>>
      <3> DEFINE d == Desc("D", OutOff, OutLen)
      <3>1. OutOff \in Int /\ OutLen \in Int
        BY <1>1, OffsetsTyped DEF DInv, InLoops
      <3>2. d \in Descs
        BY <3>1, DescTyped DEF DInv, Operands
      <3>3. d.x = "D"
        BY DEF Desc
      <3> HIDE DEF d
      <3>4. <<d>> \in Seq(Descs) /\ list \in Seq(Descs) /\ \A k \in 1..Len(<<d>>) : <<d>>[k].x # "C"
        BY <3>2, <3>3 DEF DInv, TInv
      <3>5. \A f : Written(list, f) => Written(list \o <<d>>, f)
        BY <3>4, EmitOthers, WrittenNat
      <3> QED
        BY <2>2, <3>5 DEF d
    <2> QED
      BY <2>1, <2>2 DEF Tile, Emit
  <1>3. call.op # "elewise"
    BY <1>1 DEF Products
  <1> QED
    BY <1>1, <1>2, <1>3, SameWritten

LEMMA MultiplyWritten ==
  ASSUME DInv, Multiply
  PROVE  SilentWritten' /\ TiledWritten' /\ BatchesWritten' /\ AllWritten'
  <1>1. /\ pc' = pc /\ UNCHANGED <<call, p, r, cntC, codes>> /\ call.op # "elewise"
    BY DEF Multiply, DInv, TInv, Products
  <1>2. \A f : Written(list, f) => Written(list', f)
    <2>1. PICK ds \in Seq(Descs) : list' = list \o ds /\ \A k \in 1..Len(ds) : ds[k].x # "C"
      BY MultiplyTyped DEF DInv
    <2>2. list \in Seq(Descs)
      BY DEF DInv, TInv
    <2> QED
      BY <2>1, <2>2, EmitOthers, WrittenNat
  <1> QED
    BY <1>1, <1>2, SameWritten

\* The end of a tile.
LEMMA StoreWrites ==
  ASSUME DInv, Store, NEW f, Written(list, f), OutOff = f
  PROVE  Written(list', f + OutLen)
  <1> DEFINE d == Desc("C", OutOff, OutLen)
  <1>1. list' = list \o <<d>> /\ d \in Descs
    BY StoreTyped DEF DInv
  <1>2. OutLen \in Nat
    BY OffsetsTyped DEF DInv, Store
  <1>3. d.x = "C" /\ d.off = f /\ d.len = OutLen
    BY DEF Desc
  <1> HIDE DEF d
  <1>4. /\ <<d>> \in Seq(Descs) /\ list \in Seq(Descs) /\ Len(<<d>>) = 1 /\ <<d>>[1] = d
        /\ Len(<<d>>) > 0 /\ <<d>>[Len(<<d>>)] = d
        /\ \A k \in 1..(Len(<<d>>) - 1) : <<d>>[k].x # "C"
    BY <1>1 DEF DInv, TInv
  <1>5. f \in Nat
    BY WrittenNat
  <1>6. Written(list \o <<d>>, f + d.len)
    BY <1>1, <1>2, <1>3, <1>4, <1>5, EmitWrite
  <1> QED
    BY <1>1, <1>3, <1>6

LEMMA StoreSilent ==
  ASSUME DInv, Store, call.op \in {"gemm", "fused"}, call.R % Width = 0
  PROVE  /\ InLoops' => /\ p' < call.P /\ r' < call.R \div Width
                        /\ Written(list', p' * call.R + r' * Width)
         /\ pc' = "exec" => Written(list', Total)
  <1> DEFINE n == call.R \div Width
             f == p * call.R + r * Width
  <1>1. /\ p < call.P /\ r < n /\ Written(list, f)
    BY DEF DInv, SilentWritten, InLoops, Store
  <1>2. /\ call.P \in Nat /\ call.R \in Nat /\ p \in Nat /\ r \in Nat
        /\ Width \in Nat \ {0}
    BY CallSizes, Sizes DEF DInv, TInv, Store
  <1>3. n \in Nat /\ call.R = n * Width
    BY <1>2, Multiple
  <1>4. ~Tiled
    BY DEF Tiled
  <1>5. OutOff = f /\ OutLen = Width
    BY <1>2, <1>4 DEF OutOff, OutLen
  <1>6. Written(list', f + Width)
    BY <1>1, <1>5, StoreWrites
  <1>7. IF r + 1 < n THEN pc' = "tile" /\ r' = r + 1 /\ p' = p
        ELSE r' = 0 /\ p' = p + 1 /\ pc' = IF p + 1 < call.P THEN "tile" ELSE "exec"
    BY <1>4 DEF Store, NextTile, RStep, PStep, REnd
  <1> HIDE DEF n
  <1>8. CASE r + 1 < n
    <2>1. f + Width = p * call.R + (r + 1) * Width
      BY <1>2
    <2> QED
      BY <1>1, <1>6, <1>7, <1>8, <2>1 DEF n
  <1>9. CASE ~(r + 1 < n)
    <2>1. r + 1 = n
      BY <1>1, <1>2, <1>3, <1>9
    <2>2. (r + 1) * Width = call.R
      BY <2>1, <1>3
    <2>3. f + Width = (p + 1) * call.R
      <3>1. (r + 1) * Width = r * Width + 1 * Width /\ (p + 1) * call.R = p * call.R + 1 * call.R
        <4>1. Width \in Nat /\ 1 \in Nat /\ call.R \in Nat /\ p \in Nat /\ r \in Nat
          BY <1>2
        <4>2. (r + 1) * Width = r * Width + 1 * Width
          BY ONLY <4>1, Distribute
        <4>3. (p + 1) * call.R = p * call.R + 1 * call.R
          BY ONLY <4>1, Distribute
        <4> QED
          BY <4>2, <4>3
      <3>2. p * call.R \in Nat /\ r * Width \in Nat
        BY <1>2, TimesNat
      <3> QED
        BY <2>2, <3>1, <3>2, <1>2
    <2>4. Written(list', (p + 1) * call.R)
      BY <1>6, <2>3
    <2>5. CASE p + 1 < call.P
      <3>1. (p + 1) * call.R + 0 * Width = (p + 1) * call.R
        BY <1>2
      <3> QED
        BY <1>1, <1>2, <1>7, <1>9, <2>1, <2>4, <2>5, <3>1 DEF n
    <2>6. CASE ~(p + 1 < call.P)
      <3>1. p + 1 = call.P
        <4>1. p < call.P
          BY <1>1
        <4> QED
          BY <2>6, <4>1, <1>2
      <3> QED
        BY <1>7, <1>9, <2>4, <2>6, <3>1 DEF Total, InLoops
    <2> QED
      BY <2>5, <2>6
  <1> QED
    BY <1>8, <1>9

LEMMA StoreTiled ==
  ASSUME DInv, Store, call.op = "tiled", call.P % Reg = 0, call.R % Banks = 0
  PROVE  /\ InLoops' => /\ p' < call.P /\ p' % Reg = 0
                        /\ r' < call.R /\ r' % Banks = 0
                        /\ cntC' = p' * call.R + r' * Reg
                        /\ Written(list', cntC')
         /\ pc' = "exec" => Written(list', Total)
  <1>1. /\ p < call.P /\ p % Reg = 0 /\ r < call.R /\ r % Banks = 0
        /\ cntC = p * call.R + r * Reg /\ Written(list, cntC)
    BY DEF DInv, TiledWritten, InLoops, Store
  <1>2. /\ call.P \in Nat /\ call.R \in Nat \ {0} /\ p \in Nat /\ r \in Nat
        /\ Reg \in Nat \ {0} /\ Banks \in Nat \ {0}
    BY CallSizes, Sizes DEF DInv, TInv, Store
  <1>3. Tiled
    BY DEF Tiled
  <1>4. OutOff = cntC /\ OutLen = Reg * Banks /\ cntC' = cntC + Reg * Banks
    BY <1>3 DEF OutOff, OutLen, Store
  <1>5. Written(list', cntC')
    BY <1>1, <1>4, StoreWrites
  <1>6. IF r + Banks < call.R THEN pc' = "tile" /\ r' = r + Banks /\ p' = p
        ELSE r' = 0 /\ p' = p + Reg /\ pc' = IF p + Reg < call.P THEN "tile" ELSE "exec"
    BY <1>3 DEF Store, NextTile, RStep, PStep, REnd
  <1>7. /\ p + Reg <= call.P /\ (p + Reg) % Reg = 0
        /\ r + Banks <= call.R /\ (r + Banks) % Banks = 0
    BY <1>1, <1>2, StepMultiple
  <1>8. cntC' = p * call.R + (r + Banks) * Reg
    <2>1. (r + Banks) * Reg = r * Reg + Reg * Banks
      BY <1>2
    <2>2. p * call.R \in Nat /\ r * Reg \in Nat /\ Reg * Banks \in Nat
      BY <1>2, TimesNat
    <2> QED
      BY <1>1, <1>4, <2>1, <2>2
  <1>9. CASE r + Banks < call.R
    BY <1>1, <1>5, <1>6, <1>7, <1>8, <1>9
  <1>10. CASE ~(r + Banks < call.R)
    <2>1. r + Banks = call.R
      BY <1>2, <1>7, <1>10
    <2>2. cntC' = (p + Reg) * call.R
      <3>1. cntC' = p * call.R + call.R * Reg
        BY <1>8, <2>1
      <3>2. (p + Reg) * call.R = p * call.R + Reg * call.R
        BY <1>2, Distribute
      <3>3. Reg * call.R = call.R * Reg
        BY <1>2
      <3> QED
        BY <3>1, <3>2, <3>3
    <2>3. CASE p + Reg < call.P
      <3>1. (p + Reg) * call.R + 0 * Reg = (p + Reg) * call.R /\ 0 % Banks = 0
        BY <1>2
      <3> QED
        BY <1>2, <1>5, <1>6, <1>7, <1>10, <2>2, <2>3, <3>1
    <2>4. CASE ~(p + Reg < call.P)
      <3>1. p + Reg = call.P
        BY <2>4, <1>2, <1>7
      <3> QED
        BY <1>5, <1>6, <1>10, <2>2, <2>4, <3>1 DEF Total, InLoops
    <2> QED
      BY <2>3, <2>4
  <1> QED
    BY <1>9, <1>10

LEMMA StoreWritten ==
  ASSUME DInv, Store
  PROVE  SilentWritten' /\ TiledWritten' /\ BatchesWritten' /\ AllWritten'
  <1>1. call' = call /\ call.op \in Products
    BY DEF Store, DInv, TInv
  <1>2. SilentWritten'
    BY <1>1, StoreSilent DEF SilentWritten
  <1>3. TiledWritten'
    BY <1>1, StoreTiled DEF TiledWritten
  <1>4. BatchesWritten'
    BY <1>1 DEF BatchesWritten, Products
  <1>5. AllWritten'
    <2>1. Total' = Total /\ Whole' = Whole
      BY <1>1 DEF Total, Whole, Batch
    <2>2. Whole => \/ call.op \in {"gemm", "fused"} /\ call.R % Width = 0
                   \/ call.op = "tiled" /\ call.P % Reg = 0 /\ call.R % Banks = 0
      BY <1>1 DEF Whole, Products
    <2> QED
      BY <2>1, <2>2, StoreSilent, StoreTiled DEF AllWritten
  <1> QED
    BY <1>2, <1>3, <1>4, <1>5

LEMMA BiasWritten ==
  ASSUME DInv, BiasRow
  PROVE  SilentWritten' /\ TiledWritten' /\ BatchesWritten' /\ AllWritten'
  <1>1. call' = call /\ call.op = "bias"
    BY DEF BiasRow, DInv, TInv
  <1> QED
    BY <1>1 DEF SilentWritten, TiledWritten, BatchesWritten, AllWritten, Whole

\* No descriptor of l fetches a code from the place c on.
CodesEnd(l, c) ==
  \A k \in 1..Len(l) : l[k].x = "code" => l[k].off + l[k].len <= c

LEMMA EmitCodes ==
  ASSUME NEW l \in Seq(Descs), NEW ds \in Seq(Descs), NEW c \in Nat, NEW d \in Nat, c <= d,
         CodesEnd(l, c), CodesEnd(ds, d)
  PROVE  CodesEnd(l \o ds, d)
  <1> SUFFICES ASSUME NEW k \in 1..Len(l \o ds), (l \o ds)[k].x = "code"
               PROVE  (l \o ds)[k].off + (l \o ds)[k].len <= d
    BY DEF CodesEnd
  <1>1. CASE k \in 1..Len(l)
    <2>1. (l \o ds)[k] = l[k] /\ l[k] \in Descs
      BY <1>1
    <2>2. l[k].off \in Int /\ l[k].len \in Int
      BY <2>1 DEF Descs
    <2>3. l[k].off + l[k].len <= c
      BY <1>1, <2>1 DEF CodesEnd
    <2> QED
      BY <2>1, <2>2, <2>3
  <1>2. CASE ~(k \in 1..Len(l))
    <2>1. (l \o ds)[k] = ds[k - Len(l)] /\ k - Len(l) \in 1..Len(ds)
      BY <1>2
    <2> QED
      BY <2>1 DEF CodesEnd
  <1> QED
    BY <1>1, <1>2

\* A batch: its part of the output and three lines of codes.
LEMMA ElewiseWritten ==
  ASSUME DInv, Elewise
  PROVE  SilentWritten' /\ TiledWritten' /\ BatchesWritten' /\ AllWritten'
  <1>1. call' = call /\ call.op = "elewise" /\ call \in Calls
    BY DEF Elewise, DInv, TInv
  <1>2. Total' = Total /\ Batch' = Batch
    BY <1>1 DEF Total, Batch
  <1>3. /\ r \in Nat /\ codes \in Nat /\ list \in Seq(Descs) /\ Channels \in Nat
        /\ Total \in Nat \ {0} /\ Batch \in Nat \ {0}
    BY <1>1, TotalSizes, Sizes DEF DInv, TInv
  <1>4. /\ r <= Total \div Batch /\ Written(list, r * Batch)
        /\ codes = 3 * (Channels * r)
        /\ \A k \in 1..Len(list) : list[k].x = "code" => list[k].off + list[k].len <= codes
    BY <1>1 DEF DInv, BatchesWritten
  <1>5. Total \div Batch \in Nat
    BY <1>3, Division
  <1>6. /\ r' <= Total \div Batch
        /\ Written(list', r' * Batch)
        /\ codes' = 3 * (Channels * r')
        /\ \A k \in 1..Len(list') : list'[k].x = "code" => list'[k].off + list'[k].len <= codes'
    <2>1. CASE /\ r < Total \div Batch
               /\ list' = list \o BatchDescs
               /\ codes' = codes + 3 * Channels /\ r' = r + 1
      <3> DEFINE ds == BatchDescs
      <3>1. /\ ds \in Seq(Descs) /\ Len(ds) = 6
            /\ \A k \in 1..5 : ds[k].x # "C"
            /\ \A k \in 1..6 : ds[k].x = "code" =>
                 ds[k].len = Channels /\
                 ds[k].off \in {codes, codes + Channels, codes + 2 * Channels}
            /\ ds[6].x = "C" /\ ds[6].off = r * Batch /\ ds[6].len = Batch
        BY <1>1, BatchTyped DEF DInv
      <3> HIDE DEF ds
      <3>2. r * Batch \in Nat
        BY <1>3, TimesNat
      <3>3. Written(list \o ds, r * Batch + Batch)
        <4>1. Len(ds) > 0 /\ ds[Len(ds)].x = "C" /\ ds[Len(ds)].off = r * Batch
              /\ ds[Len(ds)].len = Batch /\ ds[Len(ds)].len \in Nat
              /\ \A k \in 1..(Len(ds) - 1) : ds[k].x # "C"
          BY <1>3, <3>1
        <4> DEFINE f == r * Batch
        <4>2. f \in Nat /\ Written(list, f) /\ ds[Len(ds)].off = f
          BY <1>4, <3>2, <4>1
        <4> HIDE DEF f
        <4>3. Written(list \o ds, f + ds[Len(ds)].len)
          BY <1>3, <3>1, <4>1, <4>2, EmitWrite
        <4> QED
          BY <4>1, <4>3 DEF f
      <3>4. (r + 1) * Batch = r * Batch + 1 * Batch
        BY <1>3, Distribute
      <3>5. Written(list', r' * Batch)
        BY <1>3, <2>1, <3>3, <3>4 DEF ds
      <3>6. codes' = 3 * (Channels * r')
        <4>1. Channels * (r + 1) = Channels * r + Channels
          BY <1>3
        <4>2. Channels * r \in Nat
          BY <1>3, TimesNat
        <4> QED
          BY <1>3, <1>4, <2>1, <4>1, <4>2
      <3>7. CodesEnd(list', codes')
        <4>1. CodesEnd(list, codes)
          BY <1>4 DEF CodesEnd
        <4>2. CodesEnd(ds, codes')
          <5> SUFFICES ASSUME NEW k \in 1..Len(ds), ds[k].x = "code"
                       PROVE  ds[k].off + ds[k].len <= codes'
            BY DEF CodesEnd
          <5>1. ds[k].len = Channels /\
                ds[k].off \in {codes, codes + Channels, codes + 2 * Channels}
            BY <3>1
          <5> QED
            BY <1>3, <2>1, <5>1
        <4>3. codes' \in Nat /\ codes <= codes'
          BY <1>3, <2>1
        <4> QED
          BY <1>3, <2>1, <3>1, <4>1, <4>2, <4>3, EmitCodes DEF ds
      <3>8. r' <= Total \div Batch
        BY <1>3, <1>5, <2>1
      <3> QED
        BY <3>5, <3>6, <3>7, <3>8 DEF CodesEnd
    <2>2. CASE UNCHANGED <<codes, r, list>>
      BY <1>4, <2>2
    <2> QED
      BY <2>1, <2>2, ElewiseDoes
  <1>7. BatchesWritten'
    BY <1>1, <1>2, <1>6 DEF BatchesWritten
  <1>8. AllWritten'
    <2> SUFFICES ASSUME pc' = "exec", Whole'
                 PROVE  Written(list', Total)
      BY <1>2 DEF AllWritten
    <2>1. Total % Batch = 0
      BY <1>1, <1>2 DEF Whole
    <2>2. ~(r < Total \div Batch) /\ r' = r
      BY ElewiseDoes DEF Elewise
    <2>3. r' = Total \div Batch
      BY <1>3, <1>4, <1>5, <2>2
    <2>4. r' * Batch = Total
      BY <1>3, <2>1, <2>3, Multiple
    <2> QED
      BY <1>6, <2>4
  <1> QED
    BY <1>1, <1>7, <1>8 DEF SilentWritten, TiledWritten

LEMMA RefuseWritten ==
  ASSUME DInv, Refuse
  PROVE  SilentWritten' /\ TiledWritten' /\ BatchesWritten' /\ AllWritten'
  <1>1. pc' = "failed" /\ call'.op \in {"fused", "fusedTiled"}
    BY DEF Refuse
  <1> QED
    BY <1>1 DEF SilentWritten, TiledWritten, BatchesWritten, AllWritten, InLoops

LEMMA ExecWritten ==
  ASSUME DInv, Exec
  PROVE  SilentWritten' /\ TiledWritten' /\ BatchesWritten' /\ AllWritten'
  <1>1. /\ pc' \in {"done", "failed"} /\ UNCHANGED <<call, p, r, cntC, codes, list>>
    BY DEF Exec, loop
  <1>2. Total' = Total /\ Batch' = Batch
    BY <1>1 DEF Total, Batch
  <1> QED
    BY <1>1, <1>2 DEF DInv, SilentWritten, TiledWritten, BatchesWritten, AllWritten, InLoops

LEMMA DInvStep ==
  ASSUME DInv, [Next]_vars
  PROVE  DInv'
  <1>1. TInv'
    BY TypedStep DEF DInv
  <1>2. CASE UNCHANGED vars
    <2>1. Total' = Total /\ Batch' = Batch /\ Whole' = Whole
      BY <1>2 DEF Total, Batch, Whole, vars
    <2> QED
      BY <1>1, <1>2, <2>1 DEF vars, DInv, SilentWritten, TiledWritten, BatchesWritten, AllWritten,
         InLoops
  <1>3. CASE Next
    BY <1>1, <1>3, CallWritten, RefuseWritten, TileWritten, MultiplyWritten, StoreWritten,
       BiasWritten, ElewiseWritten, ExecWritten DEF Next, DInv
  <1> QED
    BY <1>2, <1>3

(***************************************************************************)
(* The theorems.                                                           *)
(***************************************************************************)
LEMMA WrittenOnce ==
  ASSUME NEW f, list \in Seq(Descs), Written(list, f)
  PROVE  /\ Covered(Indices("C")) = 0..(f - 1)
         /\ \A j, k \in Indices("C") : j # k => Part(list[j]) \cap Part(list[k]) = {}
  <1>1. /\ f \in Nat
        /\ \A k \in Indices("C") : /\ list[k].off \in Nat /\ list[k].len \in Nat
                                   /\ list[k].off + list[k].len <= f
        /\ \A j, k \in Indices("C") : j < k => list[j].off + list[j].len <= list[k].off
        /\ \A e \in 0..(f - 1) : \E k \in Indices("C") :
             list[k].off <= e /\ e < list[k].off + list[k].len
    <2>1. DOMAIN list = 1..Len(list)
      OBVIOUS
    <2>2. /\ \A k \in Indices("C") : k \in 1..Len(list) /\ Writes(list, k)
          /\ \A k \in 1..Len(list) : Writes(list, k) => k \in Indices("C")
      BY <2>1 DEF Writes, Indices
    <2> QED
      BY <2>2 DEF Written
  <1>2. \A k \in Indices("C") : k \in Int
    BY DEF Indices
  <1>3. ASSUME NEW e \in Covered(Indices("C"))
        PROVE  e \in 0..(f - 1)
    <2>1. PICK k \in Indices("C") : e \in Part(list[k])
      BY DEF Covered
    <2> QED
      BY <1>1, <2>1 DEF Part
  <1>4. ASSUME NEW e \in 0..(f - 1)
        PROVE  e \in Covered(Indices("C"))
    <2>1. PICK k \in Indices("C") : list[k].off <= e /\ e < list[k].off + list[k].len
      BY <1>1
    <2>2. list[k].off \in Nat /\ list[k].len \in Nat
      BY <1>1
    <2>3. e \in Part(list[k])
      BY <1>1, <2>1, <2>2 DEF Part
    <2> QED
      BY <2>3 DEF Covered
  <1>5. ASSUME NEW j \in Indices("C"), NEW k \in Indices("C"), j # k
        PROVE  Part(list[j]) \cap Part(list[k]) = {}
    <2>1. j < k \/ k < j
      BY <1>2, <1>5
    <2>2. /\ list[j].off \in Nat /\ list[j].len \in Nat
          /\ list[k].off \in Nat /\ list[k].len \in Nat
      BY <1>1
    <2>3. list[j].off + list[j].len <= list[k].off \/ list[k].off + list[k].len <= list[j].off
      BY <1>1, <2>1
    <2> SUFFICES ASSUME NEW e \in Part(list[j]), e \in Part(list[k])
                 PROVE  FALSE
      OBVIOUS
    <2>4. /\ e \in Int /\ list[j].off <= e /\ e <= list[j].off + list[j].len - 1
          /\ list[k].off <= e /\ e <= list[k].off + list[k].len - 1
      BY <2>2 DEF Part
    <2> DEFINE o == list[j].off
               m == list[j].len
               w == list[k].off
               n == list[k].len
    <2>5. /\ o \in Int /\ m \in Int /\ w \in Int /\ n \in Int /\ e \in Int
          /\ o <= e /\ e <= o + m - 1 /\ w <= e /\ e <= w + n - 1
          /\ (o + m <= w \/ w + n <= o)
      BY <2>2, <2>3, <2>4
    <2> HIDE DEF o, m, w, n
    <2>6. CASE o + m <= w
      BY <2>5, <2>6, EndsBefore
    <2>7. CASE w + n <= o
      BY <2>5, <2>7, EndsBefore
    <2> QED
      BY <2>5, <2>6, <2>7
  <1> QED
    BY <1>3, <1>4, <1>5

\* For every size of the matrices that the builder divides, the list handed to
\* pim_exec writes each element of the output exactly once, and nothing beside it
\* (_gemm_silent, _matmul_fusion_silent, _matmul_decoupled, _elewise).
THEOREM OutputAlwaysOnce == Spec => []OutputOnce
  <1>1. Init => DInv
    BY InitDInv
  <1>2. DInv /\ [Next]_vars => DInv'
    BY DInvStep
  <1>3. DInv => OutputOnce
    BY WrittenOnce DEF DInv, TInv, AllWritten, OutputOnce
  <1> QED
    BY <1>1, <1>2, <1>3, PTL DEF Spec

\* There are at least as many lines of codes as batches.
LEMMA LinesOfCode ==
  ASSUME call \in Calls, call.R % (Width * Channels) = 0
  PROVE  Total \div Batch <= call.P * (call.R \div (Width * Channels))
  <1> DEFINE w == Width * Channels
             n == call.R \div w
             m == call.P * n
             b == Total \div Batch
  <1>1. /\ call.P \in Nat \ {0} /\ call.R \in Nat \ {0} /\ w \in Nat \ {0}
        /\ Total \in Nat \ {0} /\ Batch \in Nat \ {0} /\ Chunk \in Nat \ {0} /\ w <= Chunk
    BY CallSizes, TotalSizes, Sizes, TimesPositive, ChunkAssumption
  <1> HIDE DEF w
  <1>2. n \in Nat /\ call.R = n * w
    BY <1>1, Multiple DEF w
  <1> HIDE DEF n
  <1>3. n \in Nat \ {0} /\ m \in Nat \ {0}
    <2>1. n # 0
      BY <1>1, <1>2
    <2> QED
      BY <1>1, <1>2, <2>1, TimesPositive
  <1>4. Total = m * w
    BY <1>1, <1>2 DEF Total
  <1> HIDE DEF m, b
  <1>5. b \in Nat /\ b * Batch <= Total
    <2>1. /\ Total \div Batch \in Nat /\ Total % Batch \in Nat
          /\ Total = (Total \div Batch) * Batch + (Total % Batch)
      <3>1. /\ Total \div Batch \in Nat /\ Total % Batch \in 0..(Batch - 1)
            /\ Total = (Total \div Batch) * Batch + (Total % Batch)
        BY <1>1, Division, Zenon
      <3> QED
        BY <1>1, <3>1
    <2>2. (Total \div Batch) * Batch \in Nat
      BY <1>1, <2>1, TimesNat
    <2> QED
      BY <1>1, <2>1, <2>2 DEF b
  <1>6. CASE Total < Chunk
    <2>1. Batch = Total
      BY <1>6 DEF Batch
    <2>2. b = 1
      BY <1>1, <2>1 DEF b
    <2> QED
      BY <1>3, <2>2 DEF b, m, n, w
  <1>7. CASE ~(Total < Chunk)
    <2>1. Batch = Chunk
      BY <1>7 DEF Batch
    <2>2. b * w <= m * w
      <3>1. w * b <= Chunk * b
        BY <1>1, <1>5, TimesMonotone
      <3>2. w * b = b * w /\ Chunk * b = b * Chunk
        BY <1>1, <1>5
      <3>3. b * w \in Nat /\ b * Chunk \in Nat /\ m * w \in Nat
        BY <1>1, <1>3, <1>5, TimesNat
      <3> QED
        BY <1>4, <1>5, <2>1, <3>1, <3>2, <3>3
    <2>3. b <= m
      <3> SUFFICES ASSUME ~(b <= m) PROVE FALSE
        OBVIOUS
      <3>1. m + 1 <= b
        BY <1>3, <1>5
      <3>2. (m + 1) * w <= b * w
        BY <1>1, <1>3, <1>5, <3>1, TimesMonotone
      <3>3. (m + 1) * w = m * w + 1 * w
        BY <1>1, <1>3, Distribute
      <3>4. m * w \in Nat /\ b * w \in Nat
        BY <1>1, <1>3, <1>5, TimesNat
      <3> QED
        BY <1>1, <2>2, <3>2, <3>3, <3>4
    <2> QED
      BY <2>3 DEF b, m, n, w
  <1> QED
    BY <1>6, <1>7

LEMMA CodesAlwaysFit == DInv => CodesFit
  <1> SUFFICES ASSUME DInv, call.op = "elewise", call.R % (Width * Channels) = 0
               PROVE  /\ codes <= NCode
                      /\ \A k \in Indices("code") : list[k].off + list[k].len <= codes
    BY DEF CodesFit
  <1> DEFINE m == call.P * (call.R \div (Width * Channels))
             b == Total \div Batch
  <1>1. call \in Calls
    BY NotWhole DEF DInv, TInv, Ops
  <1>2. /\ r <= b /\ codes = 3 * (Channels * r)
        /\ \A k \in Indices("code") : list[k].off + list[k].len <= codes
    <2>1. DOMAIN list = 1..Len(list)
      BY DEF DInv, TInv
    <2>2. \A k \in Indices("code") : k \in 1..Len(list) /\ list[k].x = "code"
      BY <2>1 DEF Indices
    <2> QED
      BY <2>2 DEF DInv, BatchesWritten
  <1>3. m \in Nat /\ b \in Nat /\ b <= m
    <2>1. Width * Channels \in Nat \ {0} /\ call.P \in Nat /\ call.R \in Nat
      BY <1>1, CallSizes, Sizes, TimesPositive
    <2>2. call.R \div (Width * Channels) \in Nat
      BY <2>1, Multiple
    <2>3. Total \div Batch \in Nat
      BY <1>1, TotalSizes, Division
    <2> QED
      BY <1>1, <2>1, <2>2, <2>3, TimesNat, LinesOfCode
  <1>4. NCode = m * 3 * Channels
    BY DEF NCode
  <1> HIDE DEF m, b
  <1>5. r \in Nat /\ r <= m /\ Channels \in Nat
    BY <1>2, <1>3, Sizes DEF DInv, TInv
  <1>6. r * Channels <= m * Channels
    BY <1>3, <1>5, TimesMonotone
  <1>7. r * Channels = Channels * r /\ m * 3 * Channels = 3 * (m * Channels)
    BY <1>3, <1>5
  <1>8. r * Channels \in Nat /\ m * Channels \in Nat
    BY <1>3, <1>5, TimesNat
  <1> QED
    BY <1>2, <1>4, <1>6, <1>7, <1>8

\* Whenever rows are whole lines of all channels, _elewise writes no more codes
\* than it has allocated, and no descriptor fetches a code that is not written:
\* for every size of the matrices, the channels and the chunk.
THEOREM CodeSpaceSuffices == Spec => []CodesFit
  <1>1. Init => DInv
    BY InitDInv
  <1>2. DInv /\ [Next]_vars => DInv'
    BY DInvStep
  <1> QED
    BY <1>1, <1>2, CodesAlwaysFit, PTL DEF Spec

(***************************************************************************)
(* What the silent products read for a tile.                               *)
(***************************************************************************)
Steps == call.Q \div Reg

\* The descriptors of l from place s on are the addend of tile rr of row pp and
\* i steps: a part of A, and after it one of B.
Read(l, s, i, pp, rr) ==
  /\ s \in 1..Len(l) /\ s + 2 * i <= Len(l)
  /\ l[s].x = "D" /\ l[s].off = rr * Width + pp * call.R
  /\ \A j \in 0..(i - 1) :
       /\ l[s + 2 * j + 1].x = "A" /\ l[s + 2 * j + 1].off = j * Reg + call.Q * pp
       /\ l[s + 2 * j + 2].x = "B"
       /\ l[s + 2 * j + 2].off = (call.Q * rr + j * Reg) * Width
       /\ l[s + 2 * j + 2].len = Reg * Width

\* The store at place k is of a tile that has been read.
Stored(l, k) ==
  \E pp \in Nat, rr \in 0..(call.R \div Width - 1), s \in 1..Len(l) :
    /\ l[k].off = rr * Width + pp * call.R /\ s + 2 * Steps + 1 = k
    /\ Read(l, s, Steps, pp, rr)

Complete(l) == \A k \in 1..Len(l) : l[k].x = "C" => Stored(l, k)

Silent == call.op \in {"gemm", "fused"} /\ call.Q % Reg = 0 /\ call.R % Width = 0

\* The tile of the loops has been read as far as step q.
Reading ==
  \E i \in Nat, s \in 1..Len(list) :
    q = i * Reg /\ q <= call.Q /\ s + 2 * i = Len(list) /\ Read(list, s, i, p, r)

TilesRead == Silent => Complete(list) /\ (pc = "step" => Reading)

\* Appending leaves what is read before as it is.
LEMMA ReadKept ==
  ASSUME NEW l \in Seq(Descs), NEW ds \in Seq(Descs), NEW s, NEW i \in Nat,
         NEW pp, NEW rr, Read(l, s, i, pp, rr)
  PROVE  Read(l \o ds, s, i, pp, rr)
  <1> DEFINE m == l \o ds
  <1>1. /\ Len(l) \in Nat /\ Len(m) \in Nat /\ Len(l) <= Len(m)
        /\ \A k \in 1..Len(l) : m[k] = l[k]
    OBVIOUS
  <1>2. s \in 1..Len(l) /\ s + 2 * i <= Len(l)
    BY DEF Read
  <1> HIDE DEF m
  <1>3. m[s] = l[s] /\ s \in 1..Len(m) /\ s + 2 * i <= Len(m)
    BY <1>1, <1>2
  <1>4. ASSUME NEW j \in 0..(i - 1)
        PROVE  m[s + 2 * j + 1] = l[s + 2 * j + 1] /\ m[s + 2 * j + 2] = l[s + 2 * j + 2]
    <2>1. s + 2 * j + 1 \in 1..Len(l) /\ s + 2 * j + 2 \in 1..Len(l)
      BY <1>1, <1>2
    <2> QED
      BY <1>1, <2>1
  <1>5. Read(m, s, i, pp, rr)
    BY <1>3, <1>4 DEF Read
  <1> QED
    BY <1>5 DEF m

LEMMA StepsNat ==
  ASSUME call \in Calls
  PROVE  Steps \in Nat
  BY CallSizes, Sizes, Division DEF Steps

LEMMA StoredKept ==
  ASSUME NEW l \in Seq(Descs), NEW ds \in Seq(Descs), call \in Calls,
         NEW k \in 1..Len(l), Stored(l, k)
  PROVE  Stored(l \o ds, k)
  <1>1. PICK pp \in Nat, rr \in 0..(call.R \div Width - 1), s \in 1..Len(l) :
          /\ l[k].off = rr * Width + pp * call.R /\ s + 2 * Steps + 1 = k
          /\ Read(l, s, Steps, pp, rr)
    BY DEF Stored
  <1>2. Read(l \o ds, s, Steps, pp, rr)
    BY <1>1, StepsNat, ReadKept
  <1>3. (l \o ds)[k] = l[k] /\ s \in 1..Len(l \o ds)
    OBVIOUS
  <1> QED
    BY <1>1, <1>2, <1>3 DEF Stored

LEMMA CompleteKept ==
  ASSUME NEW l \in Seq(Descs), NEW ds \in Seq(Descs), call \in Calls, Complete(l),
         \A k \in 1..Len(ds) : ds[k].x # "C"
  PROVE  Complete(l \o ds)
  <1> SUFFICES ASSUME NEW k \in 1..Len(l \o ds), (l \o ds)[k].x = "C"
               PROVE  Stored(l \o ds, k)
    BY DEF Complete
  <1>1. k \in 1..Len(l) /\ (l \o ds)[k] = l[k]
    <2>1. k \notin 1..Len(l) => (l \o ds)[k] = ds[k - Len(l)] /\ k - Len(l) \in 1..Len(ds)
      OBVIOUS
    <2>2. k \in 1..Len(l)
      BY <2>1
    <2> QED
      BY <2>2
  <1>2. Stored(l, k)
    BY <1>1 DEF Complete
  <1> QED
    BY <1>1, <1>2, StoredKept

\* The addend of the tile begins it.
LEMMA ReadAddend ==
  ASSUME NEW l \in Seq(Descs), NEW d \in Descs, d.x = "D", NEW pp, NEW rr,
         d.off = rr * Width + pp * call.R, NEW m, m = Append(l, d)
  PROVE  Len(m) \in 1..Len(m) /\ Read(m, Len(m), 0, pp, rr)
  <1>1. Len(m) \in Nat /\ Len(m) >= 1 /\ m[Len(m)] = d
    OBVIOUS
  <1>2. PICK z \in Nat : z = Len(m)
    BY <1>1
  <1>3. z \in 1..z /\ z + 2 * 0 <= z /\ \A j \in 0..(0 - 1) : FALSE
    BY <1>1, <1>2
  <1>4. m[z].x = "D" /\ m[z].off = rr * Width + pp * call.R
    BY <1>1, <1>2
  <1>5. Read(m, z, 0, pp, rr)
    BY ONLY <1>2, <1>3, <1>4 DEF Read
  <1> QED
    BY <1>2, <1>3, <1>5

\* One step more.
LEMMA ReadStep ==
  ASSUME NEW l \in Seq(Descs), NEW i \in Nat, NEW pp, NEW rr, NEW s,
         s + 2 * i = Len(l), Read(l, s, i, pp, rr),
         NEW a \in Descs, NEW b \in Descs, a.x = "A", b.x = "B",
         a.off = i * Reg + call.Q * pp, b.off = (call.Q * rr + i * Reg) * Width,
         b.len = Reg * Width
  PROVE  LET m == l \o <<a, b>>
         IN s \in 1..Len(m) /\ s + 2 * (i + 1) = Len(m) /\ Read(m, s, i + 1, pp, rr)
  <1> DEFINE m == l \o <<a, b>>
             n == Len(l)
  <1>1. /\ n \in Nat /\ Len(m) = n + 2 /\ \A k \in 1..n : m[k] = l[k]
        /\ m[n + 1] = a /\ m[n + 2] = b
    OBVIOUS
  <1>2. s \in 1..n /\ s + 2 * i = n
    BY DEF Read
  <1>3. l[s].x = "D" /\ l[s].off = rr * Width + pp * call.R
    BY DEF Read
  <1>4. \A j \in 0..(i - 1) :
          /\ l[s + 2 * j + 1].x = "A" /\ l[s + 2 * j + 1].off = j * Reg + call.Q * pp
          /\ l[s + 2 * j + 2].x = "B"
          /\ l[s + 2 * j + 2].off = (call.Q * rr + j * Reg) * Width
          /\ l[s + 2 * j + 2].len = Reg * Width
    BY DEF Read
  <1> HIDE DEF m, n
  <1>5. s \in 1..Len(m) /\ s + 2 * (i + 1) = Len(m) /\ m[s] = l[s]
    BY <1>1, <1>2
  <1>6. ASSUME NEW j \in 0..i
        PROVE  /\ m[s + 2 * j + 1].x = "A" /\ m[s + 2 * j + 1].off = j * Reg + call.Q * pp
               /\ m[s + 2 * j + 2].x = "B"
               /\ m[s + 2 * j + 2].off = (call.Q * rr + j * Reg) * Width
               /\ m[s + 2 * j + 2].len = Reg * Width
    <2>1. CASE j = i
      <3>1. s + 2 * j + 1 = n + 1 /\ s + 2 * j + 2 = n + 2
        BY <1>1, <1>2, <2>1
      <3>2. m[s + 2 * j + 1] = a /\ m[s + 2 * j + 2] = b
        BY <1>1, <3>1
      <3> QED
        BY <2>1, <3>2
    <2>2. CASE j # i
      <3>1. j \in 0..(i - 1)
        BY <2>2
      <3>2. s + 2 * j + 1 \in 1..n /\ s + 2 * j + 2 \in 1..n
        BY <1>1, <1>2, <3>1
      <3>3. m[s + 2 * j + 1] = l[s + 2 * j + 1] /\ m[s + 2 * j + 2] = l[s + 2 * j + 2]
        BY <1>1, <3>2
      <3> QED
        BY <1>4, <3>1, <3>3
    <2> QED
      BY <2>1, <2>2
  <1>7. (i + 1) - 1 = i
    OBVIOUS
  <1>8. Read(m, s, i + 1, pp, rr)
    BY <1>3, <1>5, <1>6, <1>7 DEF Read
  <1> QED
    BY <1>5, <1>8 DEF m

\* The store ends it.
LEMMA CompleteStore ==
  ASSUME NEW l \in Seq(Descs), call \in Calls, Complete(l), NEW d \in Descs,
         NEW pp \in Nat, NEW rr \in 0..(call.R \div Width - 1), NEW s \in 1..Len(l),
         d.off = rr * Width + pp * call.R, s + 2 * Steps = Len(l),
         Read(l, s, Steps, pp, rr)
  PROVE  Complete(l \o <<d>>)
  <1> DEFINE m == l \o <<d>>
  <1>1. /\ Len(l) \in Nat /\ Len(m) = Len(l) + 1 /\ m[Len(l) + 1] = d
        /\ <<d>> \in Seq(Descs) /\ \A k \in 1..Len(l) : m[k] = l[k]
    OBVIOUS
  <1>2. Steps \in Nat
    BY StepsNat
  <1>3. Read(m, s, Steps, pp, rr)
    BY <1>1, <1>2, ReadKept
  <1>4. \A k \in 1..Len(l) : Stored(l, k) => Stored(m, k)
    BY <1>1, StoredKept
  <1> HIDE DEF m
  <1>5. Stored(m, Len(l) + 1)
    <2>1. s \in 1..Len(m) /\ s + 2 * Steps + 1 = Len(l) + 1
      BY <1>1, <1>2
    <2>2. m[Len(l) + 1].off = rr * Width + pp * call.R
      BY <1>1
    <2> QED
      BY <1>3, <2>1, <2>2 DEF Stored
  <1>6. ASSUME NEW k \in 1..Len(m), m[k].x = "C"
        PROVE  Stored(m, k)
    <2>1. CASE k = Len(l) + 1
      BY <1>5, <2>1
    <2>2. CASE k # Len(l) + 1
      <3>1. k \in 1..Len(l)
        BY <1>1, <2>2
      <3>2. Stored(l, k)
        BY <1>1, <1>6, <3>1 DEF Complete
      <3> QED
        BY <1>4, <3>1, <3>2
    <2> QED
      BY <2>1, <2>2
  <1>7. Complete(m)
    BY <1>6 DEF Complete
  <1> QED
    BY <1>7 DEF m

\* The invariant of the silent products.
SInv == DInv /\ TilesRead

\* A step that leaves the call as it is.
LEMMA SameCall ==
  ASSUME UNCHANGED call
  PROVE  Complete(list)' <=> Complete(list')
  BY DEF Complete, Stored, Read, Steps

LEMMA NothingStored == \A l : l = <<>> => Complete(l)
  BY DEF Complete

LEMMA CallRead ==
  ASSUME SInv, Call \/ Refuse
  PROVE  TilesRead'
  <1>1. list = <<>> /\ pc' # "step"
    BY CallSizes DEF SInv, DInv, TInv, Call, Refuse, Ops
  <1>2. CASE list' = <<>>
    <2>1. Complete(list)'
      BY <1>2 DEF Complete
    <2> QED
      BY <1>1, <2>1 DEF TilesRead
  <1>3. CASE list' # <<>>
    <2>1. call'.op = "elewise"
      BY <1>1, <1>3 DEF Call, Refuse
    <2> QED
      BY <2>1 DEF TilesRead, Silent
  <1> QED
    BY <1>2, <1>3

\* The steps of the other builders, and those that leave the list as it is.
LEMMA OthersRead ==
  ASSUME SInv, BiasRow \/ Elewise \/ Exec \/ UNCHANGED vars
  PROVE  TilesRead'
  <1>1. CASE BiasRow \/ Elewise
    <2>1. call'.op \in {"bias", "elewise"}
      BY <1>1 DEF BiasRow, Elewise, SInv, DInv, TInv
    <2> QED
      BY <2>1 DEF TilesRead, Silent
  <1>2. CASE Exec
    <2>1. UNCHANGED call /\ list' = list /\ pc' # "step"
      BY <1>2 DEF Exec
    <2>2. Silent' = Silent
      BY <2>1 DEF Silent
    <2> QED
      BY <2>1, <2>2, SameCall DEF SInv, TilesRead
  <1>3. CASE UNCHANGED vars
    <2>1. UNCHANGED call /\ list' = list /\ pc' = pc /\ UNCHANGED <<p, q, r>>
      BY <1>3 DEF vars
    <2>2. Silent' = Silent /\ (Reading' <=> Reading)
      BY <2>1 DEF Silent, Reading, Read
    <2> QED
      BY <2>1, <2>2, SameCall DEF SInv, TilesRead
  <1> QED
    BY <1>1, <1>2, <1>3

LEMMA TileRead ==
  ASSUME SInv, Tile
  PROVE  TilesRead'
  <1> DEFINE d == Desc("D", OutOff, OutLen)
  <1>1. UNCHANGED <<call, p, r>> /\ q' = 0 /\ pc = "tile" /\ call \in Calls /\ list \in Seq(Descs)
    BY DEF Tile, SInv, DInv, TInv
  <1>2. Silent' = Silent
    BY <1>1 DEF Silent
  <1> SUFFICES ASSUME Silent
               PROVE  Complete(list)' /\ Reading'
    BY <1>2 DEF TilesRead
  <1>3. ~Tiled /\ call.op # "tiled"
    BY DEF Silent, Tiled
  <1>4. list' = list \o <<d>>
    BY <1>3 DEF Tile, Emit
  <1>5. d.x = "D" /\ d.off = r * Width + p * call.R
    BY <1>3 DEF Desc, OutOff
  <1>6. d \in Descs
    <2>1. OutOff \in Int /\ OutLen \in Int
      BY <1>1, OffsetsTyped DEF SInv, DInv
    <2> QED
      BY <2>1, DescTyped DEF SInv, DInv, Operands
  <1> HIDE DEF d
  <1>7. <<d>> \in Seq(Descs) /\ \A k \in 1..Len(<<d>>) : <<d>>[k].x # "C"
    BY <1>5, <1>6
  <1>8. Complete(list)'
    <2>1. Complete(list \o <<d>>)
      BY <1>1, <1>7, CompleteKept DEF SInv, TilesRead
    <2> QED
      BY <1>1, <1>4, <2>1, SameCall
  <1>9. Reading'
    <2>1. list' = Append(list, d) /\ Len(list') \in Nat
      BY <1>1, <1>4, <1>6
    <2>2. Len(list') \in 1..Len(list') /\ Read(list', Len(list'), 0, p, r)
      BY <1>1, <1>5, <1>6, <2>1, ReadAddend
    <2>3. q' = 0 * Reg /\ q' <= call.Q /\ Len(list') + 2 * 0 = Len(list')
      BY <1>1, <2>1, CallSizes, Sizes
    <2>4. \E i \in Nat, s \in 1..Len(list') :
            q' = i * Reg /\ q' <= call.Q /\ s + 2 * i = Len(list') /\ Read(list', s, i, p, r)
      BY <2>2, <2>3
    <2> QED
      BY <1>1, <2>4 DEF Reading, Read
  <1> QED
    BY <1>8, <1>9

LEMMA MultiplyRead ==
  ASSUME SInv, Multiply
  PROVE  TilesRead'
  <1> DEFINE a == Desc("A", AOff, ALen)
             b == Desc("B", BOff, BLen)
  <1>1. /\ UNCHANGED <<call, p, r, pc>> /\ q' = q + Reg /\ q < call.Q /\ pc = "step"
        /\ call \in Calls /\ list \in Seq(Descs) /\ p \in Nat /\ q \in Nat /\ r \in Nat
    BY DEF Multiply, SInv, DInv, TInv
  <1>2. Silent' = Silent
    BY <1>1 DEF Silent
  <1> SUFFICES ASSUME Silent
               PROVE  Complete(list)' /\ Reading'
    BY <1>2 DEF TilesRead
  <1>3. ~Tiled /\ call.op # "fusedTiled"
    BY DEF Silent, Tiled
  <1>4. list' = list \o <<a, b>>
    BY <1>3 DEF Multiply, Emit, Operand
  <1>5. /\ a.x = "A" /\ a.off = q + call.Q * p
        /\ b.x = "B" /\ b.off = (call.Q * r + q) * Width /\ b.len = Reg * Width
    BY <1>3 DEF Desc, AOff, BOff, BLen
  <1>6. a \in Descs /\ b \in Descs
    <2>1. AOff \in Int /\ ALen \in Int /\ BOff \in Int /\ BLen \in Int
      BY <1>1, OffsetsTyped DEF SInv, DInv
    <2> QED
      BY <2>1, DescTyped DEF SInv, DInv, Operands
  <1> HIDE DEF a, b
  <1>7. <<a, b>> \in Seq(Descs) /\ \A k \in 1..Len(<<a, b>>) : <<a, b>>[k].x # "C"
    BY <1>5, <1>6
  <1>8. Complete(list)'
    <2>1. Complete(list \o <<a, b>>)
      BY <1>1, <1>7, CompleteKept DEF SInv, TilesRead
    <2> QED
      BY <1>1, <1>4, <2>1, SameCall
  <1>9. Reading'
    <2>1. PICK i \in Nat, s \in 1..Len(list) :
            /\ q = i * Reg /\ q <= call.Q /\ s + 2 * i = Len(list)
            /\ Read(list, s, i, p, r)
      BY <1>1 DEF SInv, TilesRead, Reading
    <2>2. a.off = i * Reg + call.Q * p /\ b.off = (call.Q * r + i * Reg) * Width
      BY <1>5, <2>1
    <2>3. /\ s \in 1..Len(list') /\ s + 2 * (i + 1) = Len(list')
          /\ Read(list', s, i + 1, p, r)
      <3> DEFINE m == list \o <<a, b>>
      <3>1. s \in 1..Len(m) /\ s + 2 * (i + 1) = Len(m) /\ Read(m, s, i + 1, p, r)
        <4>1. b.len = Reg * Width /\ a.x = "A" /\ b.x = "B" /\ s + 2 * i = Len(list)
          BY <1>5, <2>1
        <4> QED
          BY ONLY <1>1, <1>6, <2>1, <2>2, <4>1, ReadStep, SMTT(30)
      <3> QED
        BY <1>4, <3>1
    <2>4. q' = (i + 1) * Reg
      <3>1. (i + 1) * Reg = i * Reg + 1 * Reg
        BY Sizes, Distribute
      <3> QED
        BY <1>1, <2>1, <3>1, Sizes
    <2>5. q' <= call.Q
      <3>1. q % Reg = 0
        BY <2>1, Sizes, TimesIsMultiple
      <3>2. q + Reg <= call.Q
        BY <1>1, <3>1, Sizes, CallSizes, StepMultiple DEF Silent
      <3> QED
        BY <1>1, <3>2
    <2>6. i + 1 \in Nat
      OBVIOUS
    <2>7. \E k \in Nat, z \in 1..Len(list') :
            q' = k * Reg /\ q' <= call.Q /\ z + 2 * k = Len(list') /\ Read(list', z, k, p, r)
      BY <2>3, <2>4, <2>5, <2>6
    <2> QED
      BY <1>1, <2>7 DEF Reading, Read
  <1> QED
    BY <1>8, <1>9

LEMMA StoreRead ==
  ASSUME SInv, Store
  PROVE  TilesRead'
  <1> DEFINE d == Desc("C", OutOff, OutLen)
  <1>1. /\ UNCHANGED call /\ ~(q < call.Q) /\ pc = "step" /\ list' = list \o <<d>> /\ d \in Descs
        /\ call \in Calls /\ list \in Seq(Descs) /\ p \in Nat /\ q \in Nat /\ r \in Nat
    <2>1. list' = list \o <<d>> /\ d \in Descs
      BY StoreTyped DEF SInv, DInv
    <2>2. call.Q \in Nat /\ q \in Nat
      BY CallSizes DEF Store, SInv, DInv, TInv
    <2> QED
      BY <2>1, <2>2 DEF Store, SInv, DInv, TInv
  <1>2. Silent' = Silent /\ pc' # "step"
    BY <1>1 DEF Silent, Store, NextTile
  <1> SUFFICES ASSUME Silent
               PROVE  Complete(list)'
    BY <1>2 DEF TilesRead
  <1>3. d.off = r * Width + p * call.R
    BY DEF Desc, OutOff, Silent, Tiled
  <1>4. r \in 0..(call.R \div Width - 1)
    <2>1. r < call.R \div Width
      BY <1>1 DEF SInv, DInv, SilentWritten, InLoops, Silent
    <2>2. call.R \div Width \in Nat
      BY <1>1, CallSizes, Sizes, Division
    <2> QED
      BY <1>1, <2>1, <2>2
  <1>5. PICK i \in Nat, s \in 1..Len(list) :
          q = i * Reg /\ q <= call.Q /\ s + 2 * i = Len(list) /\ Read(list, s, i, p, r)
    BY <1>1 DEF SInv, TilesRead, Reading
  <1>6. i = Steps
    <2>1. call.Q = i * Reg /\ call.Q \in Nat
      BY <1>1, <1>5, CallSizes
    <2>2. Steps \in Nat /\ call.Q = Steps * Reg
      BY <1>1, <2>1, CallSizes, Sizes, Multiple DEF Silent, Steps
    <2>3. ~(i < Steps) /\ ~(Steps < i)
      BY <2>1, <2>2, Sizes, TimesOrder
    <2> QED
      BY <2>2, <2>3
  <1> HIDE DEF d
  <1>7. Complete(list)
    BY DEF SInv, TilesRead
  <1>8. Complete(list \o <<d>>)
    <2>1. s + 2 * Steps = Len(list) /\ Read(list, s, Steps, p, r)
      BY <1>5, <1>6
    <2> QED
      BY <1>1, <1>3, <1>4, <1>7, <2>1, CompleteStore
  <1> QED
    BY <1>1, <1>8, SameCall

LEMMA SInvStep ==
  ASSUME SInv, [Next]_vars
  PROVE  SInv'
  <1>1. DInv'
    BY DInvStep DEF SInv
  <1>2. TilesRead'
    BY CallRead, OthersRead, TileRead, MultiplyRead, StoreRead DEF Next
  <1> QED
    BY <1>1, <1>2 DEF SInv

LEMMA InitSInv == Init => SInv
  <1> SUFFICES ASSUME Init
               PROVE  SInv
    OBVIOUS
  <1>1. ~Silent
    BY NotWhole DEF Init, Silent
  <1> QED
    BY <1>1, InitDInv DEF SInv, TilesRead

\* The blocks of size u from place f on are the numbers from there to their end.
LEMMA Blocks ==
  ASSUME NEW u \in Nat \ {0}, NEW f \in Nat, NEW c \in Nat
  PROVE  \A e : e \in f .. (f + c * u - 1) <=>
                  \E j \in 0..(c - 1) : e \in (f + j * u) .. (f + j * u + u - 1)
  <1>1. c * u \in Nat
    BY TimesNat
  <1>2. ASSUME NEW e \in f .. (f + c * u - 1)
        PROVE  \E j \in 0..(c - 1) : e \in (f + j * u) .. (f + j * u + u - 1)
    <2> DEFINE g == e - f
               j == g \div u
    <2>1. g \in Nat /\ e = f + g /\ g < c * u
      BY <1>1
    <2>2. j \in Nat /\ g % u \in 0..(u - 1) /\ g = j * u + (g % u) /\ j * u \in Nat
      BY <2>1, Division, TimesNat
    <2> HIDE DEF g, j
    <2>3. j < c
      <3> SUFFICES ASSUME c <= j
                   PROVE  FALSE
        BY <2>2
      <3>1. c * u <= j * u
        BY <2>2, TimesMonotone
      <3> QED
        BY <1>1, <2>1, <2>2, <3>1
    <2>4. j \in 0..(c - 1) /\ e \in (f + j * u) .. (f + j * u + u - 1)
      BY <2>1, <2>2, <2>3
    <2> QED
      BY <2>4
  <1>3. ASSUME NEW j \in 0..(c - 1), NEW e \in (f + j * u) .. (f + j * u + u - 1)
        PROVE  e \in f .. (f + c * u - 1)
    <2>1. (j + 1) * u <= c * u /\ (j + 1) * u = j * u + u /\ j * u \in Nat
      BY TimesMonotone, TimesNat
    <2> QED
      BY <1>1, <2>1
  <1> QED
    BY <1>2, <1>3

\* What Stored says of a store is what TileComplete asks for.
LEMMA StoredMeans ==
  ASSUME call \in Calls, list \in Seq(Descs), Silent,
         NEW k \in Indices("C"), Stored(list, k)
  PROVE  LET steps == call.Q \div Reg
             row   == list[k].off \div call.R
             col   == (list[k].off % call.R) \div Width
             n     == call.Q * Width
             As    == {k - 2 * i : i \in 1..steps}
             Bs    == {k - 2 * i + 1 : i \in 1..steps}
         IN /\ Bs \subseteq Indices("B") /\ Covered(Bs) = (n * col) .. (n * (col + 1) - 1)
            /\ As \subseteq Indices("A")
            /\ \A a \in As : list[a].off - row * call.Q = (list[a + 1].off - n * col) \div Width
            /\ list[k - 2 * steps - 1].x = "D" /\ list[k - 2 * steps - 1].off = list[k].off
  <1> DEFINE steps == call.Q \div Reg
             row   == list[k].off \div call.R
             col   == (list[k].off % call.R) \div Width
             n     == call.Q * Width
             As    == {k - 2 * i : i \in 1..steps}
             Bs    == {k - 2 * i + 1 : i \in 1..steps}
             tiles == call.R \div Width
             u     == Reg * Width
  <1>1. /\ call.Q \in Nat \ {0} /\ call.R \in Nat \ {0}
        /\ Reg \in Nat \ {0} /\ Width \in Nat \ {0}
    BY CallSizes, Sizes
  <1>2. /\ steps \in Nat /\ call.Q = steps * Reg /\ tiles \in Nat /\ call.R = tiles * Width
        /\ steps = Steps
    BY <1>1, Multiple DEF Silent, Steps
  <1>3. PICK pp \in Nat, rr \in 0..(tiles - 1), s \in 1..Len(list) :
          /\ list[k].off = rr * Width + pp * call.R /\ s + 2 * Steps + 1 = k
          /\ Read(list, s, Steps, pp, rr)
    BY DEF Stored
  <1>4. row = pp /\ list[k].off % call.R = rr * Width
    <2> DEFINE f == rr * Width
    <2>1. (rr + 1) * Width <= call.R /\ (rr + 1) * Width = f + Width /\ f \in Nat
      <3> HIDE DEF tiles
      <3>1. rr \in Nat /\ rr + 1 \in Nat /\ rr + 1 <= tiles
        BY <1>2
      <3>2. (rr + 1) * Width <= tiles * Width
        BY <1>1, <1>2, <3>1, TimesMonotone
      <3>3. (rr + 1) * Width = rr * Width + Width
        BY <1>1, <3>1, Successor
      <3>4. rr * Width \in Nat
        BY <1>1, <3>1, TimesNat
      <3> QED
        BY <1>2, <3>2, <3>3, <3>4
    <2>2. f \in 0..(call.R - 1)
      BY <1>1, <2>1
    <2> HIDE DEF f
    <2>3. (pp * call.R + f) \div call.R = pp /\ (pp * call.R + f) % call.R = f
      BY <1>1, <2>2, DividesOnce
    <2>4. list[k].off = pp * call.R + f
      <3>1. pp * call.R \in Nat
        BY <1>1, TimesNat
      <3> QED
        BY <1>3, <2>2, <3>1 DEF f
    <2> QED
      BY <2>3, <2>4 DEF f
  <1>5. col = rr
    <2>1. (rr * Width + 0) \div Width = rr /\ rr * Width \in Nat
      BY <1>1, DividesOnce, TimesNat
    <2> QED
      BY <1>4, <2>1
  <1> HIDE DEF steps, row, col, tiles
  <1>6. /\ list[s].x = "D" /\ list[s].off = list[k].off /\ k - 2 * steps - 1 = s
        /\ \A j \in 0..(steps - 1) :
             /\ list[s + 2 * j + 1].x = "A" /\ list[s + 2 * j + 1].off = j * Reg + call.Q * pp
             /\ list[s + 2 * j + 2].x = "B"
             /\ list[s + 2 * j + 2].off = (call.Q * rr + j * Reg) * Width
             /\ list[s + 2 * j + 2].len = Reg * Width
    BY <1>2, <1>3 DEF Read
  <1>7. k \in 1..Len(list) /\ Len(list) \in Nat /\ DOMAIN list = 1..Len(list)
    BY DEF Indices
  <1>8. n \in Nat /\ n * rr \in Nat /\ u \in Nat \ {0} /\ n = steps * u /\ n * (rr + 1) = n * rr + n
    <2>1. n \in Nat /\ u \in Nat \ {0}
      BY <1>1, TimesNat, TimesPositive
    <2>2. n = steps * u
      BY <1>1, <1>2, TimesAssociate
    <2>3. n * (rr + 1) = n * rr + n
      <3> HIDE DEF n
      <3>1. (rr + 1) * n = rr * n + n
        BY <2>1, Successor
      <3> QED
        BY <2>1, <3>1
    <2> QED
      BY <2>1, <2>2, <2>3, TimesNat
  <1>9. ASSUME NEW j \in 0..(steps - 1)
        PROVE  /\ j * Reg \in Nat /\ j * u \in Nat /\ j * u = (j * Reg) * Width
               /\ (call.Q * rr + j * Reg) * Width = n * rr + j * u
               /\ (j * Reg + call.Q * pp) - pp * call.Q = j * Reg
    <2>1. j * Reg \in Nat /\ call.Q * rr \in Nat /\ call.Q * pp \in Nat /\ j * u \in Nat
      <3>1. j \in Nat /\ rr \in Nat /\ pp \in Nat /\ Reg \in Nat /\ call.Q \in Nat
        BY <1>1
      <3>2. u \in Nat
        BY <1>8
      <3> HIDE DEF u
      <3> QED
        BY ONLY <3>1, <3>2, TimesNat
    <2>2. j * u = (j * Reg) * Width
      BY <1>1
    <2>3. (call.Q * rr + j * Reg) * Width = (call.Q * rr) * Width + (j * Reg) * Width
      BY <1>1, <2>1, Distribute
    <2>4. (call.Q * rr) * Width = n * rr
      BY <1>1
    <2>5. call.Q * pp = pp * call.Q
      BY <1>1
    <2> QED
      BY <2>1, <2>2, <2>3, <2>4, <2>5
  <1> HIDE DEF n, u
  \* The places before the store, counted from the addend.
  <1>10. /\ \A i \in 1..steps : /\ steps - i \in 0..(steps - 1)
                                /\ k - 2 * i = s + 2 * (steps - i) + 1
                                /\ k - 2 * i + 1 = s + 2 * (steps - i) + 2
         /\ \A j \in 0..(steps - 1) : /\ steps - j \in 1..steps
                                      /\ k - 2 * (steps - j) + 1 = s + 2 * j + 2
    BY <1>2, <1>3
  <1>11. ASSUME NEW i \in 1..steps
         PROVE  k - 2 * i \in 1..Len(list) /\ k - 2 * i + 1 \in 1..Len(list)
    BY <1>2, <1>3, <1>7
  <1>12. Bs \subseteq Indices("B")
    <2> SUFFICES ASSUME NEW i \in 1..steps
                 PROVE  k - 2 * i + 1 \in Indices("B")
      OBVIOUS
    <2>1. PICK j \in 0..(steps - 1) : k - 2 * i + 1 = s + 2 * j + 2
      BY <1>10
    <2>2. list[s + 2 * j + 2].x = "B"
      BY <1>6
    <2>3. k - 2 * i + 1 \in 1..Len(list)
      BY <1>11
    <2> QED
      BY <1>7, <2>1, <2>2, <2>3 DEF Indices
  <1>13. As \subseteq Indices("A")
    <2> SUFFICES ASSUME NEW i \in 1..steps
                 PROVE  k - 2 * i \in Indices("A")
      OBVIOUS
    <2>1. PICK j \in 0..(steps - 1) : k - 2 * i = s + 2 * j + 1
      BY <1>10
    <2>2. list[s + 2 * j + 1].x = "A"
      BY <1>6
    <2>3. k - 2 * i \in 1..Len(list)
      BY <1>11
    <2> QED
      BY <1>7, <2>1, <2>2, <2>3 DEF Indices
  <1>14. \A j \in 0..(steps - 1) :
           Part(list[s + 2 * j + 2]) = (n * rr + j * u) .. (n * rr + j * u + u - 1)
    BY <1>6, <1>9 DEF Part, u
  <1>15. \A e : e \in Covered(Bs) <=> \E j \in 0..(steps - 1) : e \in Part(list[s + 2 * j + 2])
    <2>1. ASSUME NEW e \in Covered(Bs)
          PROVE  \E j \in 0..(steps - 1) : e \in Part(list[s + 2 * j + 2])
      <3>1. PICK i \in 1..steps : e \in Part(list[k - 2 * i + 1])
        BY DEF Covered
      <3> QED
        BY <1>10, <3>1
    <2>2. ASSUME NEW j \in 0..(steps - 1), NEW e \in Part(list[s + 2 * j + 2])
          PROVE  e \in Covered(Bs)
      <3>1. s + 2 * j + 2 \in Bs
        BY <1>10
      <3> HIDE DEF Bs
      <3> QED
        BY <3>1 DEF Covered
    <2> QED
      BY <2>1, <2>2
  <1>16. Covered(Bs) = (n * col) .. (n * (col + 1) - 1)
    <2>1. \A e : e \in (n * rr) .. (n * rr + steps * u - 1) <=>
                   \E j \in 0..(steps - 1) : e \in (n * rr + j * u) .. (n * rr + j * u + u - 1)
      BY <1>2, <1>8, Blocks
    <2>2. n * col = n * rr /\ n * (col + 1) - 1 = n * rr + steps * u - 1
      BY <1>5, <1>8
    <2>3. \A e : e \in Covered(Bs) <=> e \in (n * rr) .. (n * rr + steps * u - 1)
      <3> SUFFICES ASSUME NEW e
                   PROVE  (\E j \in 0..(steps - 1) : e \in Part(list[s + 2 * j + 2])) <=>
                            \E j \in 0..(steps - 1) :
                              e \in (n * rr + j * u) .. (n * rr + j * u + u - 1)
        BY <1>15, <2>1
      <3> QED
        BY <1>14, Zenon
    <2> QED
      BY <2>2, <2>3
  <1>17. ASSUME NEW i \in 1..steps
         PROVE  list[k - 2 * i].off - row * call.Q
                  = (list[k - 2 * i + 1].off - n * col) \div Width
    <2> DEFINE j == steps - i
    <2>1. j \in 0..(steps - 1) /\ k - 2 * i = s + 2 * j + 1 /\ k - 2 * i + 1 = s + 2 * j + 2
      BY <1>10
    <2> HIDE DEF j
    <2>2. list[k - 2 * i].off - row * call.Q = j * Reg
      <3>1. list[k - 2 * i].off = j * Reg + call.Q * pp
        BY <1>6, <2>1
      <3>2. (j * Reg + call.Q * pp) - pp * call.Q = j * Reg
        BY <1>9, <2>1
      <3> QED
        BY <1>4, <3>1, <3>2
    <2>3. list[k - 2 * i + 1].off - n * col = (j * Reg) * Width
      <3>1. list[k - 2 * i + 1].off = n * rr + j * u
        BY <1>6, <1>9, <2>1
      <3> QED
        BY <1>5, <1>8, <1>9, <2>1, <3>1
    <2>4. ((j * Reg) * Width + 0) \div Width = j * Reg /\ (j * Reg) * Width \in Nat
      BY <1>1, <1>9, <2>1, DividesOnce, TimesNat
    <2> QED
      BY <2>2, <2>3, <2>4
  <1>18. \A a \in As : list[a].off - row * call.Q = (list[a + 1].off - n * col) \div Width
    BY <1>17
  <1>19. /\ list[k - 2 * steps - 1].x = "D" /\ list[k - 2 * steps - 1].off = list[k].off
    BY <1>6
  <1> QED
    BY <1>12, <1>13, <1>16, <1>18, <1>19 DEF steps, row, col, n

LEMMA TilesComplete == SInv => TileComplete
  <1> SUFFICES ASSUME SInv, Silent, NEW k \in Indices("C")
               PROVE  Stored(list, k) /\ call \in Calls /\ list \in Seq(Descs)
    BY StoredMeans DEF TileComplete, Silent
  <1>1. call \in Calls /\ list \in Seq(Descs)
    BY NotWhole DEF SInv, DInv, TInv, Silent
  <1>2. k \in 1..Len(list) /\ list[k].x = "C"
    BY <1>1 DEF Indices
  <1> QED
    BY <1>1, <1>2 DEF SInv, TilesRead, Complete

\* For every size of the matrices that the register and the width divide, each
\* tile that a silent product stores has been multiplied from the whole row of A
\* and the whole column of B, beside the addend of that tile (the loops of
\* _gemm_silent and _matmul_fusion_silent).
THEOREM TilesAlwaysComplete == Spec => []TileComplete
  <1>1. Init => SInv
    BY InitSInv
  <1>2. SInv /\ [Next]_vars => SInv'
    BY SInvStep
  <1>3. SInv => TileComplete
    BY TilesComplete
  <1> QED
    BY <1>1, <1>2, <1>3, PTL DEF Spec

(***************************************************************************)
(* Where an operand is addressed.                                          *)
(***************************************************************************)
Page(n) == n - (n % Huge)

\* The address last asked for serves for element n of operand x.
Ready(x, n) == n % Huge = 0 \/ base[x] = Page(n)

LEMMA PageBegins ==
  ASSUME NEW n \in Nat, n % Huge = 0
  PROVE  Page(n) = n
  BY Sizes DEF Page

\* A block of size d ends within the g elements, a number of blocks, in which it
\* begins.
LEMMA BlockWithin ==
  ASSUME NEW g \in Nat \ {0}, NEW d \in Nat \ {0}, g % d = 0, NEW m \in Nat, m % d = 0
  PROVE  /\ m % g \in Nat /\ (m % g) + d <= g /\ (m % g) % d = 0
         /\ m \div g \in Nat /\ m = (m \div g) * g + (m % g)
  <1> DEFINE a == m \div g
             b == m % g
             c == m \div d
             h == g \div d
  <1>1. g \in Nat \ {0}
    OBVIOUS
  <1>2. a \in Nat /\ b \in 0..(g - 1) /\ m = a * g + b
    BY <1>1, Division
  <1>3. c \in Nat /\ m = c * d /\ h \in Nat /\ g = h * d
    BY <1>1, Multiple
  <1> HIDE DEF a, b, c, h
  <1>4. (a * h) * d = a * g /\ a * h \in Nat
    BY <1>2, <1>3
  <1>5. ~(c < a * h)
    <2> SUFFICES ASSUME c < a * h
                 PROVE  FALSE
      OBVIOUS
    <2>1. c * d < (a * h) * d
      BY <1>3, <1>4, TimesOrder
    <2> QED
      BY <1>1, <1>2, <1>3, <1>4, <2>1, TimesNat
  <1>6. PICK i \in Nat : c = a * h + i
    <2>1. c - a * h \in Nat /\ c = a * h + (c - a * h)
      BY <1>3, <1>4, <1>5
    <2> QED
      BY <2>1
  <1>7. b = i * d
    <2>1. c * d = (a * h) * d + i * d /\ i * d \in Nat /\ a * g \in Nat
      BY <1>1, <1>2, <1>4, <1>6, Distribute, TimesNat
    <2> QED
      BY <1>2, <1>3, <1>4, <2>1
  <1>8. (i + 1) * d <= h * d
    BY <1>1, <1>2, <1>3, <1>7, NextMultiple
  <1>9. b + d <= g
    BY <1>3, <1>7, <1>8
  <1>10. b % d = 0
    BY <1>6, <1>7, TimesIsMultiple
  <1> QED
    BY <1>1, <1>2, <1>9, <1>10 DEF a, b

\* The next block begins after it, or the g elements do.
LEMMA BlockAfter ==
  ASSUME NEW g \in Nat \ {0}, NEW d \in Nat \ {0}, g % d = 0, NEW m \in Nat, m % d = 0
  PROVE  (m + d) % g = 0 \/ (m + d) % g = (m % g) + d
  <1> DEFINE a == m \div g
             b == m % g
  <1>1. a \in Nat /\ b \in Nat /\ b + d <= g /\ m = a * g + b
    BY BlockWithin
  <1>2. a * g \in Nat
    <2> HIDE DEF a
    <2> QED
      BY <1>1, TimesNat
  <1> HIDE DEF a, b
  <1>3. CASE b + d = g
    <2>1. m + d = (a + 1) * g
      <3>1. (a + 1) * g = a * g + g
        BY <1>1
      <3> QED
        BY <1>1, <1>2, <1>3, <3>1
    <2> QED
      BY <1>1, <2>1, TimesIsMultiple
  <1>4. CASE b + d < g
    <2>1. (a * g + (b + d)) % g = b + d
      <3>1. b + d \in 0..(g - 1)
        BY <1>1, <1>4
      <3> QED
        BY <1>1, <3>1, DividesOnce
    <2>2. m + d = a * g + (b + d)
      BY <1>1, <1>2
    <2> QED
      BY <2>1, <2>2 DEF b
  <1> QED
    BY <1>1, <1>3, <1>4

LEMMA WithinPage ==
  ASSUME NEW d \in Nat \ {0}, Huge % d = 0, NEW m \in Nat, m % d = 0, NEW i \in 0..(d - 1)
  PROVE  Page(m + i) = Page(m)
  <1> DEFINE a == m \div Huge
             b == m % Huge
  <1>1. Huge \in Nat \ {0}
    BY Sizes
  <1>2. a \in Nat /\ b \in Nat /\ b + d <= Huge /\ m = a * Huge + b
    BY <1>1, BlockWithin
  <1> HIDE DEF a
  <1>3. (a * Huge + (b + i)) % Huge = b + i
    <2>1. b + i \in 0..(Huge - 1)
      BY <1>1, <1>2
    <2> HIDE DEF b
    <2> QED
      BY <1>1, <1>2, <2>1, DividesOnce
  <1>4. m + i = a * Huge + (b + i)
    <2> HIDE DEF b
    <2> QED
      BY <1>1, <1>2, TimesNat
  <1>5. (m + i) % Huge = b + i
    BY <1>3, <1>4
  <1> QED
    BY <1>2, <1>5 DEF Page

LEMMA NextPage ==
  ASSUME NEW d \in Nat \ {0}, Huge % d = 0, NEW m \in Nat, m % d = 0
  PROVE  (m + d) % Huge = 0 \/ Page(m + d) = Page(m)
  <1> DEFINE b == m % Huge
             c == (m + d) % Huge
  <1>1. b \in Nat /\ (c = 0 \/ c = b + d)
    <2>1. Huge \in Nat \ {0}
      BY Sizes
    <2>2. b \in Nat
      BY <2>1, Division
    <2>3. c = 0 \/ c = b + d
      BY <2>1, BlockAfter
    <2> QED
      BY <2>2, <2>3
  <1>2. Page(m) = m - b /\ Page(m + d) = (m + d) - c
    BY DEF Page
  <1> HIDE DEF b, c
  <1>3. c = 0 \/ Page(m + d) = Page(m)
    BY <1>1, <1>2
  <1> QED
    BY <1>3 DEF c

\* An element that is addressed where the operand is ready for it.
LEMMA PlaceReady ==
  ASSUME NEW x, NEW n \in Nat, Modulo(x), Ready(x, n)
  PROVE  Place(x, n) = n
  <1> DEFINE b == n % Huge
  <1>1. b \in Nat
    BY Sizes, Division
  <1>2. b = 0 \/ base[x] = n - b
    BY DEF Ready, Page
  <1>3. Place(x, n) = IF b = 0 THEN n ELSE base[x] + b
    BY DEF Place
  <1> HIDE DEF b
  <1> QED
    BY <1>1, <1>2, <1>3

LEMMA RefreshReady ==
  ASSUME NEW S, NEW off, off = [x \in S |-> off[x]], Refresh(off),
         NEW x \in Operands, x \in S, off[x] \in Nat, Ready(x, off[x])
  PROVE  base'[x] = Page(off[x])
  <1>1. base'[x] = IF off[x] % Huge = 0 THEN off[x] ELSE base[x]
    BY DEF Refresh, Ask
  <1> QED
    BY <1>1, PageBegins DEF Ready

\* The next block of an operand that is gone through from its start.
LEMMA NextReady ==
  ASSUME NEW d \in Nat \ {0}, Huge % d = 0, NEW m \in Nat, m % d = 0,
         NEW x, base[x] = Page(m)
  PROVE  Ready(x, m + d)
  BY NextPage DEF Ready

\* A part of a block whose page has been asked for.
LEMMA PartReady ==
  ASSUME NEW d \in Nat \ {0}, Huge % d = 0, NEW m \in Nat, m % d = 0, NEW i \in 0..(d - 1),
         NEW x, IF i = 0 THEN Ready(x, m) ELSE base[x] = Page(m)
  PROVE  Ready(x, m + i) /\ Page(m + i) = Page(m)
  <1>1. Page(m + i) = Page(m)
    BY WithinPage
  <1>2. CASE i = 0
    <2>1. m + i = m
      BY <1>2
    <2> QED
      BY <1>1, <1>2, <2>1
  <1>3. CASE i # 0
    BY <1>1, <1>3 DEF Ready
  <1> QED
    BY <1>1, <1>2, <1>3

\* Descriptor k of l and the ones of its operand before it are in the first page.
First(l, k) == \A j \in 1..k : l[j].x = l[k].x => l[j].off < Huge

Fits(x) == Modulo(x) /\ RowsFitPages

\* The descriptors of l have the address of the element that they name.
Exact(l) == \A k \in 1..Len(l) : First(l, k) \/ Fits(l[k].x) => l[k].at = l[k].off

\* A descriptor of l is beyond the first huge page of operand x.
Left(l, x) == \E k \in 1..Len(l) : l[k].x = x /\ ~(l[k].off < Huge)

LEMMA ExactAppend ==
  ASSUME NEW l \in Seq(Descs), NEW ds \in Seq(Descs), Exact(l),
         \A i \in 1..Len(ds) :
           (~Left(l, ds[i].x) /\ ds[i].off < Huge) \/ Fits(ds[i].x) => ds[i].at = ds[i].off
  PROVE  Exact(l \o ds)
  <1> DEFINE m == l \o ds
  <1>1. /\ Len(l) \in Nat /\ Len(m) \in Nat
        /\ \A k \in 1..Len(l) : m[k] = l[k] /\ k \in 1..Len(m)
        /\ \A k \in 1..Len(m) : k \notin 1..Len(l) =>
             m[k] = ds[k - Len(l)] /\ k - Len(l) \in 1..Len(ds)
    OBVIOUS
  <1> HIDE DEF m
  <1>2. ASSUME NEW k \in 1..Len(m), First(m, k) \/ Fits(m[k].x)
        PROVE  m[k].at = m[k].off
    <2>1. CASE k \in 1..Len(l)
      <3>1. First(m, k) => First(l, k)
        BY <1>1, <2>1 DEF First
      <3> QED
        BY <1>1, <1>2, <2>1, <3>1 DEF Exact
    <2>2. CASE k \notin 1..Len(l)
      <3>1. m[k] = ds[k - Len(l)] /\ k - Len(l) \in 1..Len(ds)
        BY <1>1, <2>2
      <3>2. First(m, k) => ~Left(l, m[k].x) /\ m[k].off < Huge
        <4> SUFFICES ASSUME First(m, k)
                     PROVE  ~Left(l, m[k].x) /\ m[k].off < Huge
          OBVIOUS
        <4>1. m[k].off < Huge
          BY DEF First
        <4>2. \A j \in 1..Len(l) : j \in 1..k /\ m[j] = l[j]
          BY <1>1, <2>2
        <4>3. ~Left(l, m[k].x)
          BY <4>2 DEF First, Left
        <4> QED
          BY <4>1, <4>3
      <3> QED
        BY <1>2, <3>1, <3>2
    <2> QED
      BY <2>1, <2>2
  <1>3. Exact(m)
    BY <1>2 DEF Exact
  <1> QED
    BY <1>3 DEF m

\* Appending a descriptor of an element beyond the first page.
LEMMA LeftAppend ==
  ASSUME NEW l \in Seq(Descs), NEW ds \in Seq(Descs), NEW x
  PROVE  /\ Left(l, x) => Left(l \o ds, x)
         /\ \A i \in 1..Len(ds) : ds[i].x = x /\ ~(ds[i].off < Huge) => Left(l \o ds, x)
  <1> DEFINE m == l \o ds
  <1>1. /\ \A k \in 1..Len(l) : k \in 1..Len(m) /\ m[k] = l[k]
        /\ \A i \in 1..Len(ds) : Len(l) + i \in 1..Len(m) /\ m[Len(l) + i] = ds[i]
    OBVIOUS
  <1> HIDE DEF m
  <1>2. Left(l, x) => Left(m, x)
    BY <1>1 DEF Left
  <1>3. ASSUME NEW i \in 1..Len(ds), ds[i].x = x, ~(ds[i].off < Huge)
        PROVE  Left(m, x)
    BY <1>1, <1>3 DEF Left
  <1> QED
    BY <1>2, <1>3 DEF m

\* While operand x has not been left behind its first page, its base is its start.
LEMMA DescNear ==
  ASSUME NEW x, NEW n \in Nat, NEW len, base[x] = 0 \/ Left(list, x)
  PROVE  ~Left(list, x) /\ n < Huge => Desc(x, n, len).at = n
  <1> SUFFICES ASSUME base[x] = 0, n < Huge
               PROVE  Place(x, n) = n
    BY DEF Desc
  <1>1. n % Huge = n
    <2>1. n = 0 * Huge + n /\ n \in 0..(Huge - 1)
      BY Sizes
    <2> QED
      BY Sizes, <2>1, DividesOnce
  <1> QED
    BY <1>1 DEF Place

\* What Desc(x, n, len) has to satisfy to be appended.
Sound(x, n) ==
  /\ n \in Nat
  /\ base[x] = 0 \/ Left(list, x) \/ ~(n < Huge)
  /\ Fits(x) => Ready(x, n)

LEMMA DescSound ==
  ASSUME NEW x \in Operands, NEW n, Sound(x, n), NEW len
  PROVE  LET d == Desc(x, n, len)
         IN (~Left(list, d.x) /\ d.off < Huge) \/ Fits(d.x) => d.at = d.off
  <1>1. Desc(x, n, len).x = x /\ Desc(x, n, len).off = n /\ Desc(x, n, len).at = Place(x, n)
    BY DEF Desc
  <1>2. Fits(x) => Place(x, n) = n
    BY PlaceReady DEF Sound, Fits
  <1>3. ~Left(list, x) /\ n < Huge => Desc(x, n, len).at = n
    BY DescNear DEF Sound
  <1> QED
    BY <1>1, <1>2, <1>3

\* The address asked for with a descriptor of each operand.
LEMMA BaseAsked ==
  ASSUME NEW S, NEW off, off = [x \in S |-> off[x]], Refresh(off),
         NEW x \in Operands, x \in S => off[x] \in Nat
  PROVE  base'[x] = base[x] \/ (x \in S /\ base'[x] = 0) \/ (x \in S /\ ~(off[x] < Huge))
  <1>1. DOMAIN off = S
    OBVIOUS
  <1>2. base'[x] = IF x \in S /\ off[x] % Huge = 0 THEN off[x] ELSE base[x]
    BY <1>1 DEF Refresh, Ask
  <1>3. CASE x \in S /\ off[x] % Huge = 0 /\ off[x] < Huge
    <2> DEFINE n == off[x]
    <2>1. n \in Nat /\ n < Huge
      BY <1>3
    <2>2. n = 0 * Huge + n /\ n \in 0..(Huge - 1)
      BY Sizes, <2>1
    <2>3. n % Huge = n
      BY Sizes, <2>2, DividesOnce
    <2> QED
      BY <1>2, <1>3, <2>3
  <1> QED
    BY <1>2, <1>3

(***************************************************************************)
(* The builders keep to the page whose address they have asked for.        *)
(***************************************************************************)
\* The place of a tile, of which the address has been asked for with the addend.
Pending(x) == x = "C" /\ pc = "step" /\ call.op # "tiled" /\ ~(OutOff < Huge)

Based == \A x \in Operands : base[x] = 0 \/ Left(list, x) \/ Pending(x)

\* The step of the tile that comes next.
NextQ == IF pc = "tile" THEN 0 ELSE q

\* Within the block of operand x that begins at m.
InBlock(x, m) == IF NextQ = 0 THEN Ready(x, m) ELSE base[x] = Page(m)

\* _gemm_silent stays in a row of A, and goes through B from its start.
GemmPages ==
  call.op = "gemm" /\ RowsFitPages /\ InLoops =>
    /\ NextQ % Reg = 0 /\ NextQ <= call.Q
    /\ InBlock("A", call.Q * p)
    /\ Ready("B", (call.Q * r + NextQ) * Width)

\* _matmul_decoupled stays in a block of rows of B, and goes through A and C.
TiledPages ==
  call.op = "tiled" /\ RowsFitPages /\ InLoops =>
    /\ p < call.P /\ p % Reg = 0
    /\ NextQ % Reg = 0 /\ NextQ <= call.Q
    /\ pc = "step" => cntA = q * Reg
    /\ InBlock("B", p * call.Q)
    /\ cntB % Step = 0 /\ Ready("A", AroundOff)
    /\ cntC % (Reg * Banks) = 0 /\ Ready("C", cntC)

AInv ==
  /\ DInv /\ Exact(list) /\ Based /\ GemmPages /\ TiledPages
  /\ pc = "call" => cntB = 0

LEMMA BasedStep ==
  ASSUME AInv, NEW S, NEW off, off = [x \in S |-> off[x]], Refresh(off),
         NEW ds \in Seq(Descs), list' = list \o ds,
         \A x \in Operands : x \in S =>
           /\ off[x] \in Nat
           /\ \/ \E i \in 1..Len(ds) : ds[i].x = x /\ ds[i].off = off[x]
              \/ Pending(x)' \/ off[x] < Huge,
         \A x \in Operands : Pending(x) =>
           Pending(x)' \/ \E i \in 1..Len(ds) : ds[i].x = x /\ ds[i].off = OutOff
  PROVE  Based'
  <1> SUFFICES ASSUME NEW x \in Operands
               PROVE  base'[x] = 0 \/ Left(list', x) \/ Pending(x)'
    BY DEF Based, Left
  <1>1. list \in Seq(Descs)
    BY DEF AInv, DInv, TInv
  <1>2. /\ Left(list, x) => Left(list', x)
        /\ \A i \in 1..Len(ds) : ds[i].x = x /\ ~(ds[i].off < Huge) => Left(list', x)
    BY <1>1, LeftAppend
  <1>3. CASE base'[x] = base[x]
    <2>1. Pending(x) => Pending(x)' \/ Left(list', x)
      <3> SUFFICES ASSUME Pending(x), ~Pending(x)'
                   PROVE  Left(list', x)
        OBVIOUS
      <3>1. PICK i \in 1..Len(ds) : ds[i].x = x /\ ds[i].off = OutOff
        OBVIOUS
      <3> QED
        BY <1>2, <3>1 DEF Pending
    <2> QED
      BY <1>2, <1>3, <2>1 DEF AInv, Based
  <1>4. CASE x \in S /\ ~(off[x] < Huge)
    BY <1>2, <1>4
  <1> QED
    BY <1>3, <1>4, BaseAsked

LEMMA OffsetsNat ==
  ASSUME TInv, pc \in {"tile", "step"}
  PROVE  OutOff \in Nat /\ AOff \in Nat /\ BOff \in Nat
  <1>1. call.Q \in Nat \ {0} /\ call.R \in Nat \ {0} /\ call.P \in Nat \ {0}
    BY CallSizes DEF TInv
  <1>2. call.Q * call.R \in Nat \ {0} /\ call.P * call.Q \in Nat \ {0}
    BY <1>1, TimesPositive
  <1>3. p * call.Q + cntA \in Nat
    <2>1. p * call.Q \in Nat
      BY <1>1, TimesNat DEF TInv
    <2> QED
      BY <2>1 DEF TInv
  <1>4. AroundOff \in Nat
    <2> DEFINE m == call.Q * call.R
    <2>1. m \in Nat \ {0}
      BY <1>2
    <2> HIDE DEF m
    <2>2. cntB % m \in Nat
      BY <2>1, Division DEF TInv
    <2> QED
      BY <2>2 DEF AroundOff, m
  <1>5. BlockOff \in Nat
    <2> DEFINE m == call.P * call.Q
               k == p * call.Q + cntA
    <2>1. m \in Nat \ {0} /\ k \in Nat
      BY <1>2, <1>3
    <2> HIDE DEF m, k
    <2>2. k % m \in Nat
      BY <2>1, Division
    <2> QED
      BY <2>2 DEF BlockOff, m, k
  <1>6. q + call.Q * p \in Nat /\ (call.Q * r + q) * Width \in Nat
    <2>1. call.Q * p \in Nat /\ call.Q * r \in Nat
      BY <1>1, TimesNat DEF TInv
    <2>2. call.Q * r + q \in Nat
      BY <2>1 DEF TInv
    <2> QED
      BY <2>1, <2>2, Sizes, TimesNat DEF TInv
  <1> QED
    BY <1>4, <1>5, <1>6, OffsetsTyped DEF AOff, BOff

\* Divisors of the huge pages.
LEMMA Divisors ==
  /\ Reg * Width \in Nat \ {0} /\ Huge % (Reg * Width) = 0
  /\ Step \in Nat \ {0} /\ Huge % Step = 0
  /\ Reg * Banks \in Nat \ {0} /\ Huge % (Reg * Banks) = 0
  BY Sizes, TimesPositive, PagesAssumption

\* Rows of Q elements, and blocks of Reg of them.
LEMMA RowDivides ==
  ASSUME call \in Calls, RowsFitPages
  PROVE  PStep * call.Q \in Nat \ {0} /\ Huge % (PStep * call.Q) = 0
  <1>1. PStep \in Nat \ {0} /\ call.Q \in Nat \ {0}
    BY CallSizes, Sizes DEF PStep
  <1> QED
    BY <1>1, TimesPositive DEF RowsFitPages

LEMMA ZeroReady ==
  ASSUME NEW x
  PROVE  Ready(x, 0)
  BY Sizes DEF Ready

\* Whether the rows fit depends on the call only.
LEMMA SameFits ==
  ASSUME UNCHANGED call
  PROVE  RowsFitPages' = RowsFitPages
  BY DEF RowsFitPages, PStep, Tiled

LEMMA SameReady ==
  ASSUME NEW x, base'[x] = base[x], NEW n
  PROVE  Ready(x, n) <=> (n % Huge = 0 \/ base'[x] = Page(n))
  BY DEF Ready

LEMMA CallPages ==
  ASSUME AInv, Call \/ Refuse
  PROVE  AInv'
  <1>1. DInv'
    BY DInvStep DEF AInv, Next
  <1>2. /\ list = <<>> /\ base' = base /\ pc' # "step" /\ pc' # "call" /\ pc # "step"
        /\ p' = 0 /\ r' = 0 /\ cntB' = 0 /\ cntC' = 0 /\ call' \in Calls
    BY CallSizes DEF AInv, DInv, TInv, Call, Refuse, Ops, loop
  <1>3. list' = <<>> \/ list' = <<Attributes>>
    BY <1>2 DEF Call, Refuse
  <1>4. Exact(list)'
    BY <1>3 DEF Exact, Attributes
  <1>5. \A x \in Operands : base'[x] = 0
    BY <1>2 DEF AInv, Based, Left, Pending
  <1>6. Based'
    BY <1>5 DEF Based
  <1>7. /\ call'.P \in Nat \ {0} /\ call'.Q \in Nat \ {0} /\ call'.R \in Nat \ {0}
    BY <1>2, CallSizes
  <1>8. NextQ' = 0 \/ ~InLoops'
    BY <1>2 DEF NextQ, InLoops
  <1>9. GemmPages'
    <2> SUFFICES ASSUME InLoops'
                 PROVE  /\ NextQ' % Reg = 0 /\ NextQ' <= call'.Q
                        /\ InBlock("A", call.Q * p)'
                        /\ Ready("B", (call.Q * r + NextQ) * Width)'
      BY DEF GemmPages
    <2>1. NextQ' = 0 /\ 0 % Reg = 0 /\ 0 % Huge = 0
      BY <1>8, Sizes
    <2>2. call'.Q * p' = 0 /\ (call'.Q * r' + NextQ') * Width = 0
      BY <1>2, <1>7, <2>1, Sizes
    <2> QED
      BY <1>7, <2>1, <2>2 DEF InBlock, Ready
  <1>10. TiledPages'
    <2> SUFFICES ASSUME InLoops'
                 PROVE  /\ p' < call'.P /\ p' % Reg = 0
                        /\ NextQ' % Reg = 0 /\ NextQ' <= call'.Q
                        /\ InBlock("B", p * call.Q)'
                        /\ cntB' % Step = 0 /\ Ready("A", AroundOff)'
                        /\ cntC' % (Reg * Banks) = 0 /\ Ready("C", cntC)'
      BY <1>2 DEF TiledPages
    <2>1. NextQ' = 0 /\ 0 % Reg = 0 /\ 0 % Step = 0 /\ 0 % Huge = 0
      BY <1>8, Sizes
    <2>2. p' * call'.Q = 0
      BY <1>2, <1>7
    <2>3. 0 % (Reg * Banks) = 0
      <3> DEFINE m == Reg * Banks
      <3>1. m \in Nat \ {0}
        BY Divisors
      <3> HIDE DEF m
      <3>2. 0 % m = 0
        BY <3>1
      <3> QED
        BY <3>2 DEF m
    <2>4. AroundOff' = 0
      <3> DEFINE m == call'.Q * call'.R
      <3>1. m \in Nat \ {0}
        BY <1>7, TimesPositive
      <3> HIDE DEF m
      <3>2. 0 % m = 0
        BY <3>1
      <3> QED
        BY <1>2, <3>2 DEF AroundOff, m
    <2> QED
      BY <1>2, <1>7, <2>1, <2>2, <2>3, <2>4 DEF InBlock, Ready
  <1> QED
    BY <1>1, <1>2, <1>4, <1>6, <1>9, <1>10 DEF AInv

\* No product is being built, and none is begun.
LEMMA IdlePages ==
  ASSUME ~InLoops'
  PROVE  GemmPages' /\ TiledPages'
  BY DEF GemmPages, TiledPages

LEMMA BiasPages ==
  ASSUME AInv, BiasRow
  PROVE  AInv'
  <1> DEFINE off  == q * call.R + r
             offs == [x \in {"A", "B", "C"} |-> IF x = "A" THEN r ELSE off]
             ds   == <<Desc("A", r, Width), Desc("B", off, Width), Desc("C", off, Width)>>
  <1>1. DInv' /\ TInv
    BY DInvStep DEF AInv, Next, DInv
  <1>2. /\ pc = "bias" /\ pc' \in {"bias", "exec"} /\ call.op = "bias" /\ UNCHANGED call
        /\ Refresh(offs) /\ list' = list \o ds /\ list \in Seq(Descs)
        /\ call.R \in Nat /\ q \in Nat /\ r \in Nat
    BY CallSizes DEF BiasRow, AInv, DInv, TInv, Emit
  <1>3. off \in Nat
    <2>1. q * call.R \in Nat
      BY <1>2, TimesNat
    <2> QED
      BY <1>2, <2>1
  <1> HIDE DEF off
  <1>4. /\ Desc("A", r, Width) \in Descs /\ Desc("B", off, Width) \in Descs
        /\ Desc("C", off, Width) \in Descs
    BY <1>1, <1>2, <1>3, Sizes, DescTyped DEF Operands
  <1>5. \A x \in Operands : ~Fits(x) /\ ~Pending(x) /\ (base[x] = 0 \/ Left(list, x))
    BY <1>2 DEF Fits, Modulo, Pending, AInv, Based
  <1>6. Sound("A", r) /\ Sound("B", off) /\ Sound("C", off)
    BY <1>2, <1>3, <1>5 DEF Sound, Operands
  <1>7. /\ ds \in Seq(Descs) /\ Len(ds) = 3
        /\ ds[1] = Desc("A", r, Width) /\ ds[2] = Desc("B", off, Width)
        /\ ds[3] = Desc("C", off, Width)
    BY <1>4
  <1>8. /\ ds[1].x = "A" /\ ds[1].off = r /\ ds[2].x = "B" /\ ds[2].off = off
        /\ ds[3].x = "C" /\ ds[3].off = off
    BY <1>7 DEF Desc
  <1> HIDE DEF ds
  <1>9. Exact(list \o ds)
    <2>1. \A i \in 1..Len(ds) :
            (~Left(list, ds[i].x) /\ ds[i].off < Huge) \/ Fits(ds[i].x) => ds[i].at = ds[i].off
      <3>1. \A i \in 1..Len(ds) : i = 1 \/ i = 2 \/ i = 3
        BY <1>7
      <3> QED
        BY <1>6, <1>7, <3>1, DescSound DEF Operands
    <2> QED
      BY <1>2, <1>7, <2>1, ExactAppend DEF AInv
  <1>10. Exact(list)'
    BY <1>2, <1>9, SameFits DEF Exact, First, Fits, Modulo
  <1>11. Based'
    <2> DEFINE S == {"A", "B", "C"}
    <2>1. offs = [x \in S |-> offs[x]]
      OBVIOUS
    <2>2. offs["A"] = r /\ offs["B"] = off /\ offs["C"] = off
      OBVIOUS
    <2> HIDE DEF offs
    <2>3. \A x \in Operands : x \in S =>
            offs[x] \in Nat /\ \E i \in 1..Len(ds) : ds[i].x = x /\ ds[i].off = offs[x]
      <3>1. 1 \in 1..Len(ds) /\ 2 \in 1..Len(ds) /\ 3 \in 1..Len(ds)
        BY <1>7
      <3> QED
        BY <1>2, <1>3, <1>8, <2>2, <3>1
    <2> QED
      <3>1. \A x \in Operands : ~Pending(x)
        BY <1>5
      <3>2. \A x \in Operands : x \in S =>
              /\ offs[x] \in Nat
              /\ \/ \E i \in 1..Len(ds) : ds[i].x = x /\ ds[i].off = offs[x]
                 \/ Pending(x)' \/ offs[x] < Huge
        BY <2>3
      <3>3. \A x \in Operands : Pending(x) =>
              Pending(x)' \/ \E i \in 1..Len(ds) : ds[i].x = x /\ ds[i].off = OutOff
        BY <3>1
      <3>4. Refresh(offs) /\ list' = list \o ds /\ ds \in Seq(Descs)
        BY <1>2, <1>7
      <3> HIDE DEF S
      <3> QED
        BY <2>1, <3>2, <3>3, <3>4, BasedStep
  <1>12. GemmPages' /\ TiledPages'
    BY <1>2, IdlePages DEF InLoops
  <1> QED
    BY <1>1, <1>2, <1>10, <1>11, <1>12 DEF AInv

LEMMA ElewisePages ==
  ASSUME AInv, Elewise
  PROVE  AInv'
  <1>1. DInv' /\ TInv
    BY DInvStep DEF AInv, Next, DInv
  <1>2. /\ pc' \in {"elewise", "exec"} /\ pc = "elewise" /\ call.op = "elewise"
        /\ UNCHANGED <<call, base>> /\ list \in Seq(Descs)
        /\ list' = list \/ list' = list \o BatchDescs
    BY ElewiseDoes DEF Elewise, AInv, DInv, TInv
  <1>3. BatchDescs \in Seq(Descs) /\ \A i \in 1..Len(BatchDescs) :
          BatchDescs[i].at = BatchDescs[i].off
    BY <1>1, <1>2, BatchTyped DEF BatchDescs, TInv
  <1>4. Exact(list')
    BY <1>2, <1>3, ExactAppend DEF AInv
  <1>5. Exact(list)'
    BY <1>2, <1>4, SameFits DEF Exact, First, Fits, Modulo
  <1>6. \A x : Left(list, x) => Left(list', x)
    <2>1. \A x : Left(list, x) => Left(list \o BatchDescs, x)
      BY <1>2, <1>3, LeftAppend
    <2> QED
      BY <1>2, <2>1
  <1>7. Based'
    <2>1. \A x \in Operands : base[x] = 0 \/ Left(list, x)
      BY <1>2 DEF AInv, Based, Pending
    <2>2. \A x \in Operands : base'[x] = 0 \/ Left(list', x)
      BY <1>2, <1>6, <2>1
    <2> QED
      BY <2>2 DEF Based, Left
  <1>8. GemmPages' /\ TiledPages'
    BY <1>2, IdlePages DEF InLoops
  <1> QED
    BY <1>1, <1>2, <1>5, <1>7, <1>8 DEF AInv

LEMMA ExecPages ==
  ASSUME AInv, Exec \/ UNCHANGED vars
  PROVE  AInv'
  <1>1. DInv'
    BY DInvStep DEF AInv, Next
  <1>2. UNCHANGED <<call, loop, base, codes, list>>
    BY DEF Exec, vars, loop
  <1>3. pc' = pc \/ (pc = "exec" /\ pc' \in {"done", "failed"})
    BY DEF Exec, vars
  <1>4. Exact(list)'
    BY <1>2, SameFits DEF AInv, Exact, First, Fits, Modulo
  <1>5. Based'
    BY <1>2, <1>3 DEF AInv, Based, Left, Pending, OutOff, Tiled, loop
  <1>6. GemmPages' /\ TiledPages'
    <2>1. CASE pc' # pc
      BY <1>3, <2>1, IdlePages DEF InLoops
    <2>2. CASE pc' = pc
      BY <1>2, <2>2, SameFits
         DEF AInv, GemmPages, TiledPages, InLoops, NextQ, InBlock, Ready, AroundOff, loop
    <2> QED
      BY <2>1, <2>2
  <1>7. pc' = "call" => cntB' = 0
    BY <1>2, <1>3 DEF AInv, loop
  <1> QED
    BY <1>1, <1>4, <1>5, <1>6, <1>7 DEF AInv

LEMMA TilePages ==
  ASSUME AInv, Tile
  PROVE  AInv'
  <1> DEFINE d == Desc("D", OutOff, OutLen)
  <1>1. DInv' /\ TInv
    BY DInvStep DEF AInv, Next, DInv
  <1>2. /\ pc = "tile" /\ pc' = "step" /\ q' = 0 /\ cntA' = 0 /\ call \in Calls
        /\ UNCHANGED <<call, p, r, cntB, cntC>> /\ list \in Seq(Descs)
    BY DEF Tile, AInv, DInv, TInv
  <1>3. NextQ = 0 /\ NextQ' = 0 /\ InLoops
    BY <1>2 DEF NextQ, InLoops
  <1>4. CASE call.op = "tiled"
    <2>1. UNCHANGED <<base, list>>
      BY <1>4 DEF Tile
    <2>2. Exact(list)'
      BY <1>2, <2>1, SameFits DEF AInv, Exact, First, Fits, Modulo
    <2>3. Based'
      BY <1>2, <1>4, <2>1 DEF AInv, Based, Left, Pending
    <2>4. GemmPages'
      BY <1>2, <1>4 DEF GemmPages
    <2>5. TiledPages'
      <3>1. 0 = 0 * Reg
        BY Sizes
      <3> QED
        BY <1>2, <1>3, <2>1, <3>1, SameFits
           DEF AInv, TiledPages, InBlock, Ready, AroundOff
    <2> QED
      BY <1>1, <1>2, <2>2, <2>3, <2>4, <2>5 DEF AInv
  <1>5. CASE call.op # "tiled"
    <2> DEFINE S    == {"D", "C"}
               offs == [x \in S |-> OutOff]
    <2>1. Refresh(offs) /\ list' = list \o <<d>>
      BY <1>5 DEF Tile, Emit
    <2>2. OutOff \in Nat /\ OutLen \in Int /\ OutOff' = OutOff
      BY <1>1, <1>2, OffsetsNat, OffsetsTyped DEF OutOff, Tiled
    <2>3. d \in Descs /\ d.x = "D" /\ d.off = OutOff
      BY <1>1, <2>2, DescTyped DEF Desc, Operands
    <2>4. Sound("D", OutOff)
      BY <1>2, <1>5, <2>2 DEF Sound, Fits, Modulo, AInv, Based, Pending, Operands
    <2>5. (~Left(list, d.x) /\ d.off < Huge) \/ Fits(d.x) => d.at = d.off
      BY <2>4, DescSound DEF Operands
    <2> HIDE DEF d
    <2>6. <<d>> \in Seq(Descs) /\ Len(<<d>>) = 1 /\ <<d>>[1] = d
      BY <2>3
    <2>7. Exact(list \o <<d>>)
      <3>1. \A i \in 1..Len(<<d>>) : <<d>>[i] = d
        BY <2>6
      <3> QED
        BY <1>2, <2>5, <2>6, <3>1, ExactAppend DEF AInv
    <2>8. Exact(list)'
      BY <1>2, <2>1, <2>7, SameFits DEF Exact, First, Fits, Modulo
    <2>9. Based'
      <3>1. offs = [x \in S |-> offs[x]] /\ \A x \in S : offs[x] = OutOff
        OBVIOUS
      <3> HIDE DEF offs
      <3>2. \A x \in Operands : x \in S =>
              /\ offs[x] \in Nat
              /\ \/ \E i \in 1..Len(<<d>>) : <<d>>[i].x = x /\ <<d>>[i].off = offs[x]
                 \/ Pending(x)' \/ offs[x] < Huge
        <4>1. 1 \in 1..Len(<<d>>) /\ <<d>>[1].x = "D" /\ <<d>>[1].off = offs["D"]
          BY <2>3, <2>6, <3>1
        <4>2. Pending("C")' \/ offs["C"] < Huge
          BY <1>2, <1>5, <2>2, <3>1 DEF Pending
        <4> QED
          BY <2>2, <3>1, <4>1, <4>2
      <3>3. \A x \in Operands : ~Pending(x)
        BY <1>2 DEF Pending
      <3> QED
        BY <2>1, <2>6, <3>1, <3>2, <3>3, BasedStep
    <2>10. base'["A"] = base["A"] /\ base'["B"] = base["B"]
      BY <2>1 DEF Refresh, Ask, Operands
    <2>11. GemmPages'
      BY <1>2, <1>3, <2>10, SameFits DEF AInv, GemmPages, InBlock, Ready
    <2>12. TiledPages'
      BY <1>2, <1>5 DEF TiledPages
    <2> QED
      BY <1>1, <1>2, <2>8, <2>9, <2>11, <2>12 DEF AInv
  <1> QED
    BY <1>4, <1>5

\* One step of _gemm_silent.
LEMMA MultiplyGemm ==
  ASSUME AInv, Multiply, call.op = "gemm", RowsFitPages
  PROVE  Ready("A", AOff) /\ Ready("B", BOff) /\ GemmPages'
  <1> DEFINE a == call.Q * p
             f == (call.Q * r + q) * Width
             d == Reg * Width
             offs == [x \in {"A", "B"} |-> IF x = "A" THEN AOff ELSE BOff]
  <1>1. /\ pc = "step" /\ pc' = "step" /\ UNCHANGED <<call, p, r>> /\ q < call.Q
        /\ q' = q + Reg /\ call \in Calls /\ p \in Nat /\ q \in Nat /\ r \in Nat
        /\ call.Q \in Nat \ {0} /\ Refresh(offs)
    BY CallSizes DEF Multiply, AInv, DInv, TInv
  <1>2. /\ q % Reg = 0 /\ InBlock("A", a) /\ Ready("B", f) /\ NextQ = q
    BY <1>1 DEF AInv, GemmPages, InLoops, NextQ
  <1>3. /\ call.Q % Reg = 0 /\ Huge % call.Q = 0
    <2>1. PStep = 1
      BY DEF PStep, Tiled
    <2>2. 1 * call.Q = call.Q
      BY <1>1
    <2> QED
      BY <2>1, <2>2 DEF RowsFitPages
  <1>4. AOff = a + q /\ BOff = f /\ a \in Nat /\ a + q \in Nat /\ f \in Nat
    <2>1. AOff = q + a /\ BOff = f
      BY DEF AOff, BOff, Tiled
    <2>2. a \in Nat /\ f \in Nat
      <3>1. a \in Nat /\ call.Q * r \in Nat
        BY <1>1, TimesNat
      <3>2. call.Q * r + q \in Nat
        BY <1>1, <3>1
      <3> QED
        BY <3>1, <3>2, Sizes, TimesNat
    <2> HIDE DEF a, f
    <2> QED
      BY <1>1, <2>1, <2>2
  <1>5. a % call.Q = 0
    <2>1. (p * call.Q) % call.Q = 0
      BY <1>1, TimesIsMultiple
    <2>2. p * call.Q = a
      BY <1>1
    <2> QED
      BY <2>1, <2>2
  <1>6. Ready("A", a + q) /\ Page(a + q) = Page(a)
    <2>1. IF q = 0 THEN Ready("A", a) ELSE base["A"] = Page(a)
      BY <1>2 DEF InBlock
    <2>2. q \in 0..(call.Q - 1)
      BY <1>1
    <2> HIDE DEF a
    <2> QED
      BY <1>1, <1>3, <1>4, <1>5, <2>1, <2>2, PartReady
  <1>7. offs["A"] = AOff /\ offs["B"] = BOff /\ offs = [x \in {"A", "B"} |-> offs[x]]
    OBVIOUS
  <1> HIDE DEF offs, a
  <1>8. base'["A"] = Page(a) /\ base'["B"] = Page(f)
    <2> HIDE DEF f
    <2>1. base'["A"] = Page(offs["A"])
      BY <1>1, <1>4, <1>6, <1>7, RefreshReady DEF Operands
    <2>2. base'["B"] = Page(offs["B"])
      BY <1>1, <1>2, <1>4, <1>7, RefreshReady DEF Operands
    <2> QED
      BY <1>4, <1>6, <1>7, <2>1, <2>2
  <1>9. f % d = 0
    <2>1. PICK i \in Nat, j \in Nat : call.Q = i * Reg /\ q = j * Reg
      <3>1. call.Q \div Reg \in Nat /\ call.Q = (call.Q \div Reg) * Reg
        BY <1>1, <1>3, Sizes, Multiple
      <3>2. q \div Reg \in Nat /\ q = (q \div Reg) * Reg
        BY <1>1, <1>2, Sizes, Multiple
      <3> QED
        BY <3>1, <3>2
    <2> DEFINE c == i * r + j
    <2>2. c \in Nat /\ i * r \in Nat
      BY <1>1, <2>1, TimesNat
    <2>3. call.Q * r + q = c * Reg
      <3>1. c * Reg = (i * r) * Reg + j * Reg
        BY <2>1, <2>2, Sizes, Distribute
      <3>2. (i * r) * Reg = (i * Reg) * r
        BY <1>1, <2>1, Sizes
      <3> QED
        BY <2>1, <3>1, <3>2
    <2> HIDE DEF c
    <2>4. (c * Reg) * Width = c * d
      BY <2>2, Sizes
    <2>5. (c * d) % d = 0
      <3> HIDE DEF d
      <3>1. d \in Nat \ {0}
        BY Divisors DEF d
      <3> QED
        BY <2>2, <3>1, TimesIsMultiple
    <2>6. f = c * d
      BY <2>3, <2>4
    <2> QED
      BY <2>5, <2>6
  <1>10. (f + d) % Huge = 0 \/ base'["B"] = Page(f + d)
    <2>1. d \in Nat \ {0} /\ Huge % d = 0
      BY Divisors
    <2> HIDE DEF d, f
    <2> QED
      BY <1>4, <1>8, <1>9, <2>1, NextPage
  <1>11. (call.Q * r + (q + Reg)) * Width = f + d
    <2> DEFINE c == call.Q * r
    <2>1. c \in Nat
      BY <1>1, TimesNat
    <2> HIDE DEF c
    <2>2. (c + (q + Reg)) * Width = (c + q) * Width + Reg * Width
      <3>1. c + (q + Reg) = (c + q) + Reg /\ c + q \in Nat
        BY <1>1, <2>1, Sizes
      <3> QED
        BY <3>1, Sizes, Distribute
    <2> QED
      BY <2>2 DEF c
  <1>12. q' % Reg = 0 /\ q' <= call.Q /\ q' # 0 /\ NextQ' = q'
    <2>1. /\ q \in Nat /\ call.Q \in Nat /\ Reg \in Nat \ {0} /\ q' = q + Reg
          /\ q % Reg = 0 /\ call.Q % Reg = 0 /\ q < call.Q
      BY <1>1, <1>2, <1>3, Sizes
    <2>2. q + Reg <= call.Q /\ (q + Reg) % Reg = 0
      BY ONLY <2>1, StepMultiple
    <2>3. q + Reg # 0
      BY ONLY <2>1
    <2>4. NextQ' = q'
      BY <1>1 DEF NextQ
    <2> QED
      BY ONLY <2>1, <2>2, <2>3, <2>4
  <1>13. GemmPages'
    <2>1. InBlock("A", call.Q * p)'
      BY <1>1, <1>8, <1>12 DEF InBlock, a
    <2>2. Ready("B", (call.Q * r + NextQ) * Width)'
      BY <1>1, <1>10, <1>11, <1>12 DEF Ready
    <2> QED
      BY <1>1, <1>12, <2>1, <2>2 DEF GemmPages
  <1> QED
    BY <1>2, <1>4, <1>6, <1>13

\* One step of _matmul_decoupled.
LEMMA MultiplyTiled ==
  ASSUME AInv, Multiply, call.op = "tiled", RowsFitPages
  PROVE  Ready("A", AOff) /\ Ready("B", BOff) /\ TiledPages'
  <1> DEFINE n == Reg * call.Q
             f == p * call.Q
             i == q * Reg
             m == call.Q * call.R
             g == cntB % m
             offs == [x \in {"A", "B"} |-> IF x = "A" THEN AOff ELSE BOff]
  <1>1. /\ pc = "step" /\ pc' = "step" /\ UNCHANGED <<call, p, r, cntC>> /\ q < call.Q
        /\ q' = q + Reg /\ cntA' = cntA + Reg * Reg /\ cntB' = cntB + Step
        /\ call \in Calls /\ p \in Nat /\ q \in Nat /\ cntB \in Nat
        /\ call.P \in Nat \ {0} /\ call.Q \in Nat \ {0} /\ call.R \in Nat \ {0}
        /\ Refresh(offs)
    BY CallSizes DEF Multiply, AInv, DInv, TInv, Fused
  <1>2. /\ p < call.P /\ p % Reg = 0 /\ q % Reg = 0 /\ cntA = i /\ InBlock("B", f)
        /\ cntB % Step = 0 /\ Ready("A", g) /\ NextQ = q
        /\ cntC % (Reg * Banks) = 0 /\ Ready("C", cntC)
    BY <1>1 DEF AInv, TiledPages, InLoops, NextQ, AroundOff
  <1>3. /\ call.Q % Reg = 0 /\ Huge % n = 0 /\ m % Step = 0 /\ call.P % Reg = 0
    BY DEF RowsFitPages, PStep, Tiled
  <1>4. m \in Nat \ {0} /\ n \in Nat \ {0} /\ f \in Nat /\ i \in Nat
    BY <1>1, Sizes, TimesPositive, TimesNat
  <1>5. PICK k \in Nat : p = k * Reg
    <2>1. p \div Reg \in Nat /\ p = (p \div Reg) * Reg
      BY <1>1, <1>2, Sizes, Multiple
    <2> QED
      BY <2>1
  <1>6. f % n = 0
    <2>1. f = k * n
      BY <1>1, <1>5, Sizes
    <2>2. (k * n) % n = 0
      <3> HIDE DEF n
      <3> QED
        BY <1>4, <1>5, TimesIsMultiple
    <2> QED
      BY <2>1, <2>2
  <1>7. i < n
    <2>1. q * Reg < call.Q * Reg
      BY <1>1, Sizes, TimesOrder
    <2>2. call.Q * Reg = n
      BY <1>1, Sizes
    <2> QED
      BY <2>1, <2>2
  <1>8. f + i < call.P * call.Q
    <2>1. p + Reg <= call.P
      BY <1>1, <1>2, <1>3, Sizes, StepMultiple
    <2>2. (p + Reg) * call.Q <= call.P * call.Q
      BY <1>1, <2>1, Sizes, TimesMonotone
    <2>3. (p + Reg) * call.Q = f + n
      BY <1>1, Sizes, Distribute
    <2>4. call.P * call.Q \in Nat
      BY <1>1, TimesNat
    <2> HIDE DEF f, n, i
    <2> QED
      BY <1>4, <1>7, <2>2, <2>3, <2>4
  <1>9. BOff = f + i /\ AOff = g
    <2>1. BOff = (f + i) % (call.P * call.Q) /\ AOff = g
      BY <1>2 DEF BOff, AOff, Tiled, Fused, BlockOff, AroundOff
    <2> DEFINE w == call.P * call.Q
    <2>2. w \in Nat \ {0}
      BY <1>1, TimesPositive
    <2> HIDE DEF f, i, w
    <2>3. f + i = 0 * w + (f + i) /\ f + i \in 0..(w - 1)
      BY <1>4, <1>8, <2>2 DEF w
    <2>4. (f + i) % w = f + i
      BY <2>2, <2>3, DividesOnce
    <2> QED
      BY <2>1, <2>4 DEF w
  <1>10. g \in Nat /\ g % Step = 0 /\ ((cntB + Step) % m = 0 \/ (cntB + Step) % m = g + Step)
    <2>0. /\ cntB \in Nat /\ cntB % Step = 0 /\ m \in Nat \ {0} /\ m % Step = 0
          /\ Step \in Nat \ {0}
      BY <1>1, <1>2, <1>3, <1>4, Sizes
    <2> HIDE DEF m
    <2>1. g \in Nat /\ g % Step = 0
      BY ONLY <2>0, BlockWithin DEF g
    <2>2. (cntB + Step) % m = 0 \/ (cntB + Step) % m = g + Step
      BY ONLY <2>0, BlockAfter DEF g
    <2> QED
      BY <2>1, <2>2
  <1>11. Ready("B", f + i) /\ Page(f + i) = Page(f)
    <2>1. i = 0 <=> q = 0
      BY <1>1, Sizes
    <2>2. IF i = 0 THEN Ready("B", f) ELSE base["B"] = Page(f)
      BY <1>2, <2>1 DEF InBlock
    <2> HIDE DEF f, i, n
    <2>3. i \in 0..(n - 1)
      BY <1>4, <1>7
    <2> QED
      BY <1>3, <1>4, <1>6, <2>2, <2>3, PartReady
  <1>12. offs["A"] = AOff /\ offs["B"] = BOff /\ offs = [x \in {"A", "B"} |-> offs[x]]
    OBVIOUS
  <1>13. base'["C"] = base["C"]
    BY <1>1 DEF Refresh, Ask, Operands
  <1> HIDE DEF offs, f, i, g
  <1>14. base'["A"] = Page(g) /\ base'["B"] = Page(f)
    <2>1. base'["A"] = Page(offs["A"])
      BY <1>1, <1>2, <1>9, <1>10, <1>12, RefreshReady DEF Operands
    <2>2. f + i \in Nat
      BY <1>4
    <2>3. base'["B"] = Page(offs["B"])
      BY <1>1, <1>9, <1>11, <1>12, <2>2, RefreshReady DEF Operands
    <2> QED
      BY <1>9, <1>11, <1>12, <2>1, <2>3
  <1>15. q' % Reg = 0 /\ q' <= call.Q /\ q' # 0 /\ NextQ' = q'
    <2>1. /\ q \in Nat /\ call.Q \in Nat /\ Reg \in Nat \ {0} /\ q' = q + Reg
          /\ q % Reg = 0 /\ call.Q % Reg = 0 /\ q < call.Q
      BY <1>1, <1>2, <1>3, Sizes
    <2>2. q + Reg <= call.Q /\ (q + Reg) % Reg = 0
      BY ONLY <2>1, StepMultiple
    <2>3. q + Reg # 0
      BY ONLY <2>1
    <2>4. NextQ' = q'
      BY <1>1 DEF NextQ
    <2> QED
      BY ONLY <2>1, <2>2, <2>3, <2>4
  <1>16. cntA' = q' * Reg
    <2>1. (q + Reg) * Reg = q * Reg + Reg * Reg
      BY <1>1, Sizes, Distribute
    <2> QED
      BY <1>1, <1>2, <2>1 DEF i
  <1>17. cntB' % Step = 0
    <2>1. (cntB + Step) % Step = 0
      <3>1. PICK c \in Nat : cntB = c * Step
        <4>1. cntB \div Step \in Nat /\ cntB = (cntB \div Step) * Step
          BY <1>1, <1>2, Sizes, Multiple
        <4> QED
          BY <4>1
      <3>2. (c + 1) * Step = c * Step + Step
        BY <3>1, Sizes
      <3>3. ((c + 1) * Step) % Step = 0
        BY <3>1, Sizes, TimesIsMultiple
      <3> QED
        BY <3>1, <3>2, <3>3
    <2> QED
      BY <1>1, <2>1
  <1>18. Ready("A", AroundOff)'
    <2> DEFINE c == (cntB + Step) % m
    <2>1. c = 0 \/ c = g + Step
      BY <1>10
    <2>2. (g + Step) % Huge = 0 \/ Page(g + Step) = Page(g)
      BY <1>10, Divisors, NextPage
    <2>3. AroundOff' = c
      BY <1>1 DEF AroundOff
    <2>4. 0 % Huge = 0
      BY Sizes
    <2> HIDE DEF c
    <2>5. c % Huge = 0 \/ base'["A"] = Page(c)
      BY <1>14, <2>1, <2>2, <2>4
    <2> QED
      BY <2>3, <2>5 DEF Ready
  <1>19. InBlock("B", p * call.Q)'
    BY <1>1, <1>14, <1>15 DEF InBlock, f
  <1>20. Ready("C", cntC)'
    BY <1>1, <1>2, <1>13 DEF Ready
  <1>21. TiledPages'
    BY <1>1, <1>2, <1>15, <1>16, <1>17, <1>18, <1>19, <1>20 DEF TiledPages
  <1> QED
    BY <1>2, <1>9, <1>11, <1>21

LEMMA MultiplyPages ==
  ASSUME AInv, Multiply
  PROVE  AInv'
  <1> DEFINE S    == {"A", "B"}
             offs == [x \in S |-> IF x = "A" THEN AOff ELSE BOff]
             a    == Desc("A", AOff, ALen)
             b    == Desc("B", BOff, BLen)
  <1>1. DInv' /\ TInv
    BY DInvStep DEF AInv, Next, DInv
  <1>2. /\ pc = "step" /\ pc' = "step" /\ call \in Calls /\ UNCHANGED <<call, p, r, cntC>>
        /\ list \in Seq(Descs) /\ Refresh(offs)
    BY DEF Multiply, AInv, DInv, TInv
  <1>3. AOff \in Nat /\ BOff \in Nat /\ ALen \in Int /\ BLen \in Int
    BY <1>1, <1>2, OffsetsNat, OffsetsTyped
  <1>4. /\ a \in Descs /\ a.x = "A" /\ a.off = AOff
        /\ b \in Descs /\ b.x = "B" /\ b.off = BOff
    <2>1. a \in Descs /\ b \in Descs
      BY <1>1, <1>3, DescTyped DEF Operands
    <2> QED
      BY <2>1 DEF Desc
  <1>5. Fits("A") \/ Fits("B") => Ready("A", AOff) /\ Ready("B", BOff)
    BY MultiplyGemm, MultiplyTiled DEF Fits, Modulo
  <1>6. Sound("A", AOff) /\ Sound("B", BOff)
    BY <1>3, <1>5 DEF Sound, AInv, Based, Pending, Operands
  <1>7. /\ (~Left(list, a.x) /\ a.off < Huge) \/ Fits(a.x) => a.at = a.off
        /\ (~Left(list, b.x) /\ b.off < Huge) \/ Fits(b.x) => b.at = b.off
    BY <1>6, DescSound DEF Operands
  <1>8. list' = list \o <<a, b>> \/ list' = list \o <<b, a>>
    BY DEF Multiply, Emit, Operand
  <1> HIDE DEF a, b
  <1>9. PICK ds \in Seq(Descs) :
          /\ list' = list \o ds /\ Len(ds) = 2
          /\ (ds[1] = a /\ ds[2] = b) \/ (ds[1] = b /\ ds[2] = a)
    <2>1. <<a, b>> \in Seq(Descs) /\ <<b, a>> \in Seq(Descs)
      BY <1>4
    <2> QED
      BY <1>8, <2>1
  <1>10. \A i \in 1..Len(ds) : ds[i] = a \/ ds[i] = b
    <2>1. \A i \in 1..Len(ds) : i = 1 \/ i = 2
      BY <1>9
    <2> QED
      BY <1>9, <2>1
  <1>11. Exact(list')
    BY <1>2, <1>7, <1>9, <1>10, ExactAppend DEF AInv
  <1>12. Exact(list)'
    BY <1>2, <1>11, SameFits DEF Exact, First, Fits, Modulo
  <1>13. Based'
    <2>1. offs = [x \in S |-> offs[x]] /\ offs["A"] = AOff /\ offs["B"] = BOff
      OBVIOUS
    <2> HIDE DEF offs
    <2>2. \A x \in Operands : x \in S =>
            /\ offs[x] \in Nat
            /\ \/ \E i \in 1..Len(ds) : ds[i].x = x /\ ds[i].off = offs[x]
               \/ Pending(x)' \/ offs[x] < Huge
      <3>1. \E i \in 1..Len(ds) : ds[i] = a
        BY <1>9
      <3>2. \E i \in 1..Len(ds) : ds[i] = b
        BY <1>9
      <3>3. offs["A"] \in Nat /\ \E i \in 1..Len(ds) : ds[i].x = "A" /\ ds[i].off = offs["A"]
        BY <1>3, <1>4, <2>1, <3>1
      <3>4. offs["B"] \in Nat /\ \E i \in 1..Len(ds) : ds[i].x = "B" /\ ds[i].off = offs["B"]
        BY <1>3, <1>4, <2>1, <3>2
      <3>5. S = {"A", "B"}
        BY DEF S
      <3> HIDE DEF S
      <3> QED
        BY <3>3, <3>4, <3>5
    <2>3. \A x \in Operands : Pending(x) =>
            Pending(x)' \/ \E i \in 1..Len(ds) : ds[i].x = x /\ ds[i].off = OutOff
      BY <1>2 DEF Pending, OutOff, Tiled
    <2> HIDE DEF S
    <2>4. offs = [x \in S |-> offs[x]] /\ Refresh(offs) /\ list' = list \o ds
      BY <1>2, <1>9, <2>1
    <2> QED
      BY <2>2, <2>3, <2>4, BasedStep
  <1>14. GemmPages'
    <2>1. CASE call.op = "gemm" /\ RowsFitPages
      BY <2>1, MultiplyGemm
    <2>2. CASE ~(call.op = "gemm" /\ RowsFitPages)
      BY <1>2, <2>2, SameFits DEF GemmPages
    <2> QED
      BY <2>1, <2>2
  <1>15. TiledPages'
    <2>1. CASE call.op = "tiled" /\ RowsFitPages
      BY <2>1, MultiplyTiled
    <2>2. CASE ~(call.op = "tiled" /\ RowsFitPages)
      BY <1>2, <2>2, SameFits DEF TiledPages
    <2> QED
      BY <2>1, <2>2
  <1> QED
    BY <1>1, <1>2, <1>12, <1>13, <1>14, <1>15 DEF AInv

\* The end of a tile of _gemm_silent: the same row of A again, or the next one.
LEMMA StoreGemm ==
  ASSUME AInv, Store, call.op = "gemm", RowsFitPages, InLoops'
  PROVE  GemmPages'
  <1> DEFINE a == call.Q * p
  <1>1. /\ pc = "step" /\ UNCHANGED <<call, q, base>> /\ q \in Nat
        /\ p \in Nat /\ r \in Nat /\ call \in Calls /\ call.Q \in Nat \ {0} /\ q >= call.Q
    BY CallSizes DEF Store, AInv, DInv, TInv
  <1>2. /\ q <= call.Q /\ InBlock("A", a) /\ NextQ = q
        /\ Ready("B", (call.Q * r + q) * Width)
    BY <1>1 DEF AInv, GemmPages, InLoops, NextQ
  <1>3. q = call.Q /\ base["A"] = Page(a)
    BY <1>1, <1>2 DEF InBlock
  <1>4. pc' = "tile" /\ NextQ' = 0
    BY DEF InLoops, Store, NextTile, NextQ
  <1>5. (r' = r + 1 /\ p' = p) \/ (r' = 0 /\ p' = p + 1)
    BY DEF Store, NextTile, RStep, PStep, Tiled
  <1>6. Huge % call.Q = 0
    <2>1. PStep = 1
      BY DEF PStep, Tiled
    <2>2. 1 * call.Q = call.Q
      BY <1>1
    <2> QED
      BY <2>1, <2>2 DEF RowsFitPages
  <1>7. Ready("A", a) /\ Ready("A", a + call.Q)
    <2>1. a \in Nat
      BY <1>1, TimesNat
    <2>2. a % call.Q = 0
      <3>1. (p * call.Q) % call.Q = 0
        BY <1>1, TimesIsMultiple
      <3>2. p * call.Q = a
        BY <1>1
      <3> QED
        BY <3>1, <3>2
    <2> HIDE DEF a
    <2> QED
      BY <1>1, <1>3, <1>6, <2>1, <2>2, NextReady DEF Ready
  <1>8. a + call.Q = call.Q * (p + 1)
    BY <1>1
  <1>9. Ready("A", call.Q * p')
    BY <1>5, <1>7, <1>8
  <1>10. Ready("B", (call.Q * r' + 0) * Width)
    <2>1. CASE r' = r + 1
      <3>1. call.Q * (r + 1) + 0 = call.Q * r + q
        BY <1>1, <1>3
      <3> QED
        BY <1>2, <2>1, <3>1
    <2>2. CASE r' = 0
      <3>1. (call.Q * 0 + 0) * Width = 0
        BY <1>1, Sizes
      <3> QED
        BY <2>2, <3>1, ZeroReady
    <2> QED
      BY <1>5, <2>1, <2>2
  <1>11. 0 % Reg = 0 /\ 0 <= call.Q
    BY <1>1, Sizes
  <1>12. InBlock("A", call.Q * p)'
    BY <1>1, <1>4, <1>9 DEF InBlock, Ready
  <1>13. Ready("B", (call.Q * r + NextQ) * Width)'
    BY <1>1, <1>4, <1>10 DEF Ready
  <1> QED
    BY <1>1, <1>4, <1>11, <1>12, <1>13 DEF GemmPages

\* The end of a tile of _matmul_decoupled: the same rows of B again, or the next
\* ones.
LEMMA StoreTiledPages ==
  ASSUME AInv, Store, call.op = "tiled", RowsFitPages
  PROVE  Ready("C", OutOff) /\ TiledPages'
  <1> DEFINE f == p * call.Q
             n == Reg * call.Q
             d == Reg * Banks
  <1>1. /\ pc = "step" /\ UNCHANGED <<call, q, cntB>> /\ cntC' = cntC + d
        /\ q \in Nat /\ p \in Nat /\ r \in Nat /\ cntC \in Nat /\ call \in Calls
        /\ call.P \in Nat \ {0} /\ call.Q \in Nat \ {0} /\ call.R \in Nat \ {0} /\ q >= call.Q
    BY CallSizes DEF Store, AInv, DInv, TInv
  <1>2. /\ p < call.P /\ p % Reg = 0 /\ q <= call.Q /\ InBlock("B", f) /\ NextQ = q
        /\ cntB % Step = 0 /\ Ready("A", AroundOff) /\ cntC % d = 0 /\ Ready("C", cntC)
    BY <1>1 DEF AInv, TiledPages, InLoops, NextQ
  <1>3. base["B"] = Page(f)
    BY <1>1, <1>2 DEF InBlock
  <1>4. OutOff = cntC
    BY DEF OutOff, Tiled
  <1>5. /\ base'["A"] = base["A"] /\ base'["B"] = base["B"] /\ base'["C"] = Page(cntC)
    <2> DEFINE S    == {"C"}
               offs == [x \in S |-> OutOff]
    <2>1. Refresh(offs)
      BY DEF Store
    <2>2. offs = [x \in S |-> offs[x]] /\ offs["C"] = cntC
      BY <1>4
    <2>3. base'["A"] = base["A"] /\ base'["B"] = base["B"]
      BY <2>1 DEF Refresh, Ask, Operands
    <2> HIDE DEF offs
    <2>4. base'["C"] = Page(offs["C"])
      BY <1>1, <1>2, <2>1, <2>2, RefreshReady DEF Operands
    <2> QED
      BY <2>2, <2>3, <2>4
  <1>6. cntC' % d = 0 /\ (cntC' % Huge = 0 \/ base'["C"] = Page(cntC'))
    <2>1. d \in Nat \ {0} /\ Huge % d = 0
      BY Divisors
    <2> HIDE DEF d
    <2>2. (cntC + d) % Huge = 0 \/ Page(cntC + d) = Page(cntC)
      BY <1>1, <1>2, <2>1, NextPage
    <2>3. (cntC + d) % d = 0
      <3>1. PICK c \in Nat : cntC = c * d
        <4>1. cntC \div d \in Nat /\ cntC = (cntC \div d) * d
          BY <1>1, <1>2, <2>1, Multiple
        <4> QED
          BY <4>1
      <3>2. (c + 1) * d = c * d + d
        BY <2>1, <3>1
      <3>3. ((c + 1) * d) % d = 0
        BY <2>1, <3>1, TimesIsMultiple
      <3> QED
        BY <3>1, <3>2, <3>3
    <2> QED
      BY <1>1, <1>5, <2>2, <2>3
  <1> SUFFICES ASSUME InLoops'
               PROVE  TiledPages'
    BY <1>2, <1>4 DEF TiledPages
  <1>7. pc' = "tile" /\ NextQ' = 0
    BY DEF InLoops, Store, NextTile, NextQ
  <1>8. p' = p \/ (p' = p + Reg /\ p + Reg < call.P)
    BY <1>7 DEF Store, NextTile, RStep, PStep, Tiled
  <1>9. call.P % Reg = 0 /\ Huge % n = 0
    BY DEF RowsFitPages, PStep, Tiled
  <1>10. p' < call.P /\ p' % Reg = 0
    <2>1. (p + Reg) % Reg = 0
      BY <1>1, <1>2, <1>9, Sizes, StepMultiple
    <2> QED
      BY <1>2, <1>8, <2>1
  <1>11. Ready("B", f) /\ Ready("B", f + n)
    <2>1. f \in Nat /\ n \in Nat \ {0}
      BY <1>1, Sizes, TimesNat, TimesPositive
    <2>2. f % n = 0
      <3>1. PICK k \in Nat : p = k * Reg
        <4>1. p \div Reg \in Nat /\ p = (p \div Reg) * Reg
          BY <1>1, <1>2, Sizes, Multiple
        <4> QED
          BY <4>1
      <3>2. f = k * n
        BY <1>1, <3>1, Sizes
      <3>3. (k * n) % n = 0
        <4> HIDE DEF n
        <4> QED
          BY <2>1, <3>1, TimesIsMultiple
      <3> QED
        BY <3>2, <3>3
    <2> HIDE DEF f, n
    <2> QED
      BY <1>3, <1>9, <2>1, <2>2, NextReady DEF Ready
  <1>12. Ready("B", p' * call.Q)
    <2>1. (p + Reg) * call.Q = f + n
      BY <1>1, Sizes, Distribute
    <2> QED
      BY <1>8, <1>11, <2>1
  <1>13. InBlock("B", p * call.Q)'
    BY <1>1, <1>5, <1>7, <1>12 DEF InBlock, Ready
  <1>14. Ready("A", AroundOff)'
    BY <1>1, <1>2, <1>5 DEF Ready, AroundOff
  <1>15. Ready("C", cntC)'
    BY <1>6 DEF Ready
  <1>16. 0 % Reg = 0 /\ 0 <= call.Q
    BY <1>1, Sizes
  <1> QED
    BY <1>1, <1>2, <1>6, <1>7, <1>10, <1>13, <1>14, <1>15, <1>16 DEF TiledPages

LEMMA StorePages ==
  ASSUME AInv, Store
  PROVE  AInv'
  <1> DEFINE d == Desc("C", OutOff, OutLen)
  <1>1. DInv' /\ TInv
    BY DInvStep DEF AInv, Next, DInv
  <1>2. /\ pc = "step" /\ pc' \in {"tile", "exec"} /\ call \in Calls /\ UNCHANGED call
        /\ list \in Seq(Descs)
    BY DEF Store, NextTile, AInv, DInv, TInv
  <1>3. list' = list \o <<d>> /\ d \in Descs /\ d.x = "C" /\ d.off = OutOff /\ OutOff \in Nat
    <2>1. list' = list \o <<d>> /\ d \in Descs
      BY <1>1, StoreTyped
    <2>2. d.x = "C" /\ d.off = OutOff
      BY DEF Desc
    <2> QED
      BY <1>1, <1>2, <2>1, <2>2, OffsetsNat
  <1>4. Fits("C") => Ready("C", OutOff)
    BY StoreTiledPages DEF Fits, Modulo
  <1>5. Sound("C", OutOff)
    BY <1>3, <1>4 DEF Sound, AInv, Based, Pending, Operands
  <1>6. (~Left(list, d.x) /\ d.off < Huge) \/ Fits(d.x) => d.at = d.off
    BY <1>5, DescSound DEF Operands
  <1> HIDE DEF d
  <1>7. <<d>> \in Seq(Descs) /\ Len(<<d>>) = 1 /\ \A i \in 1..Len(<<d>>) : <<d>>[i] = d
    BY <1>3
  <1>8. Exact(list')
    <2>1. Exact(list \o <<d>>)
      BY <1>2, <1>6, <1>7, ExactAppend DEF AInv
    <2> QED
      BY <1>3, <2>1
  <1>9. Exact(list)'
    BY <1>2, <1>8, SameFits DEF Exact, First, Fits, Modulo
  <1>10. /\ \A x \in Operands : Left(list, x) => Left(list', x)
         /\ ~(OutOff < Huge) => Left(list', "C")
    <2>1. /\ \A x : Left(list, x) => Left(list \o <<d>>, x)
          /\ ~(<<d>>[1].off < Huge) /\ <<d>>[1].x = "C" => Left(list \o <<d>>, "C")
      <3>1. 1 \in 1..Len(<<d>>)
        BY <1>7
      <3> QED
        BY <1>2, <1>7, <3>1, LeftAppend
    <2>2. <<d>>[1] = d
      BY <1>7
    <2> QED
      BY <1>3, <2>1, <2>2
  <1>11. ASSUME NEW x \in Operands
         PROVE  base'[x] = 0 \/ Left(list', x)
    <2>1. base[x] = 0 \/ Left(list', x)
      BY <1>10 DEF AInv, Based, Pending
    <2>2. CASE call.op = "tiled"
      <3> DEFINE S    == {"C"}
                 offs == [y \in S |-> OutOff]
      <3>1. Refresh(offs)
        BY <2>2 DEF Store
      <3>2. offs = [y \in S |-> offs[y]] /\ offs["C"] = OutOff
        OBVIOUS
      <3> HIDE DEF offs
      <3>3. x \in S => x = "C" /\ offs[x] \in Nat
        BY <1>3, <3>2
      <3>4. base'[x] = base[x] \/ base'[x] = 0 \/ (x \in S /\ ~(offs[x] < Huge))
        BY <3>1, <3>2, <3>3, BaseAsked
      <3> QED
        BY <1>10, <2>1, <3>2, <3>3, <3>4
    <2>3. CASE call.op # "tiled"
      BY <2>1, <2>3 DEF Store
    <2> QED
      BY <2>2, <2>3
  <1>12. Based'
    BY <1>11 DEF Based, Left
  <1>13. GemmPages'
    <2>1. CASE call.op = "gemm" /\ RowsFitPages /\ InLoops'
      BY <2>1, StoreGemm
    <2>2. CASE ~(call.op = "gemm" /\ RowsFitPages /\ InLoops')
      BY <1>2, <2>2, SameFits DEF GemmPages
    <2> QED
      BY <2>1, <2>2
  <1>14. TiledPages'
    <2>1. CASE call.op = "tiled" /\ RowsFitPages
      BY <2>1, StoreTiledPages
    <2>2. CASE ~(call.op = "tiled" /\ RowsFitPages)
      BY <1>2, <2>2, SameFits DEF TiledPages
    <2> QED
      BY <2>1, <2>2
  <1> QED
    BY <1>1, <1>2, <1>9, <1>12, <1>13, <1>14 DEF AInv

LEMMA AInvStep ==
  ASSUME AInv, [Next]_vars
  PROVE  AInv'
  BY CallPages, TilePages, MultiplyPages, StorePages, BiasPages, ElewisePages, ExecPages
     DEF Next

LEMMA InitAInv == Init => AInv
  <1> SUFFICES ASSUME Init
               PROVE  AInv
    OBVIOUS
  <1>1. DInv /\ list = <<>> /\ ~InLoops /\ cntB = 0
    BY InitDInv DEF Init, InLoops
  <1>2. Exact(list)
    BY <1>1 DEF Exact
  <1>3. Based
    BY DEF Init, Based
  <1> QED
    BY <1>1, <1>2, <1>3 DEF AInv, GemmPages, TiledPages

LEMMA ExactMeans == AInv => Addressed
  <1> SUFFICES ASSUME AInv, NEW k \in DOMAIN list,
                      InFirstPage(k) \/ (Modulo(list[k].x) /\ RowsFitPages)
               PROVE  list[k].at = list[k].off
    BY DEF Addressed
  <1>1. k \in 1..Len(list)
    BY DEF AInv, DInv, TInv
  <1>2. InFirstPage(k) => First(list, k)
    BY DEF InFirstPage, First
  <1> QED
    BY <1>1, <1>2 DEF AInv, Exact, Fits

\* For every size of the operands, every descriptor carries the address of the
\* element that it names as long as its operand is within its first huge page, and
\* on every page in _gemm_silent's A and B and in _matmul_decoupled, if rows fit
\* the pages (`if (offset % HUGE_PAGE_SIZE == 0) ... VA2PA` before each operand).
THEOREM AlwaysAddressed == Spec => []Addressed
  <1>1. Init => AInv
    BY InitAInv
  <1>2. AInv /\ [Next]_vars => AInv'
    BY AInvStep
  <1>3. AInv => Addressed
    BY ExactMeans
  <1> QED
    BY <1>1, <1>2, <1>3, PTL DEF Spec
==============================================================================
