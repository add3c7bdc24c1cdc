---------------------------- MODULE HostCopy_proofs ----------------------------
(***************************************************************************)
(* Proofs about HostCopy, for every number of threads and channels, every  *)
(* chunk and every length: what a copy that returns SUCCESS has copied,    *)
(* whoever shares the completion with it, and that until a call fails all  *)
(* that was taken is given back.                                           *)
(***************************************************************************)
EXTENDS HostCopy, TLAPS, FiniteSetTheorems

USE ChannelsAssumption, ChunkAssumption, LengthsAssumption, MaxCallsAssumption

(***************************************************************************)
(* Chunks: the j-th one begins before the end of the copy just when there  *)
(* are more than j of them.                                                *)
(***************************************************************************)
LEMMA Monotone ==
  ASSUME NEW a \in Nat, NEW b \in Nat
  PROVE  /\ a * Chunk \in Nat
         /\ (a + 1) * Chunk = a * Chunk + Chunk
         /\ a <= b => a * Chunk <= b * Chunk
  OBVIOUS

LEMMA Chunks ==
  ASSUME NEW n \in Nat, NEW j \in Nat
  PROVE  NumChunk(n) \in Nat /\ (j < NumChunk(n) <=> j * Chunk < n)
  <1> DEFINE q == n \div Chunk
             r == n % Chunk
  <1>1. q \in Nat /\ r \in 0..(Chunk - 1) /\ n = q * Chunk + r
    OBVIOUS
  <1>2. NumChunk(n) = q + (IF r # 0 THEN 1 ELSE 0)
    BY DEF NumChunk
  <1> HIDE DEF q, r
  <1>3. CASE j <= q
    <2>1. j * Chunk \in Nat /\ q * Chunk \in Nat /\ j * Chunk <= q * Chunk
      BY <1>1, <1>3, Monotone
    <2>2. CASE j = q
      BY <1>1, <1>2, <2>1, <2>2
    <2>3. CASE j < q
      <3>1. (j + 1) * Chunk <= q * Chunk /\ (j + 1) * Chunk = j * Chunk + Chunk
        BY <1>1, <2>3, Monotone
      <3> QED
        BY <1>1, <1>2, <2>1, <2>3, <3>1
    <2> QED
      BY <1>1, <1>3, <2>2, <2>3
  <1>4. CASE j > q
    <2>1. (q + 1) * Chunk <= j * Chunk /\ (q + 1) * Chunk = q * Chunk + Chunk
            /\ j * Chunk \in Nat /\ q * Chunk \in Nat
      BY <1>1, <1>4, Monotone
    <2> QED
      BY <1>1, <1>2, <1>4, <2>1
  <1> QED
    BY <1>1, <1>3, <1>4

(***************************************************************************)
(* The inductive invariant, of each thread by itself.                      *)
(***************************************************************************)
Places == {"idle", "enter", "in", "request", "init", "submit",
           "wait", "asleep", "status", "out"}

Types ==
  /\ pc     \in [Clients -> Places]
  /\ kind   \in [Clients -> Kinds]
  /\ length \in [Clients -> 0..MaxLength]
  /\ i      \in [Clients -> Nat]
  /\ res    \in [Clients -> {"none", "ok", "err"}]
  /\ tmp    \in [Clients -> Int]
  /\ out    \in [Clients -> Int]
  /\ dst    \in [Clients -> [Units -> Int]]
  /\ tx     \in [Clients -> {"none", "running", "complete", "error"}]

\* The first k units of the destination are those of the source.
Correct(c, k) == \A u \in Units : u < k => dst[c][u] = u

\* What a transfer that is complete has done with the chunk.
Moved(c) ==
  /\ kind[c] = "HOST2HOST" => out[c] = Offset(c)
  /\ kind[c] = "FPGA2HOST" => tmp[c] = Offset(c)
  /\ kind[c] \notin ToUser => Correct(c, Offset(c) + CopyLen(length[c]))

\* A call past its checks has copied all chunks before the present one, has this
\* one in alloc_ptr if it comes from the user, and the transfer it asks about is
\* its own: none other is running for it when it fills or empties a buffer.
Copying(c) ==
  pc[c] \notin {"idle", "enter"} /\ kind[c] # "H2H_ZCPY" =>
    /\ Offset(c) < length[c]
    /\ Correct(c, Offset(c))
    /\ kind[c] \in FromUser /\ pc[c] # "in" => tmp[c] = Offset(c)
    /\ tx[c] = "complete" \/ pc[c] = "out" => Moved(c)

Good(c) ==
  /\ tx[c] # "none" => pc[c] \in {"wait", "asleep", "status"}
  /\ pc[c] # "idle" => res[c] = "none"
  /\ pc[c] = "idle" /\ res[c] = "ok" /\ kind[c] # "H2H_ZCPY" => Correct(c, length[c])
  /\ pc[c] = "enter" => i[c] = 0
  /\ pc[c] = "out" => kind[c] \in ToUser
  /\ Copying(c)

IInv == Types /\ \A c \in Clients : Good(c)

\* What a step of one thread leaves alone of another.
Same(d) ==
  /\ pc'[d] = pc[d] /\ kind'[d] = kind[d] /\ length'[d] = length[d] /\ i'[d] = i[d]
  /\ res'[d] = res[d] /\ tmp'[d] = tmp[d] /\ out'[d] = out[d] /\ dst'[d] = dst[d]
  /\ tx'[d] = tx[d]

LEMMA SameGood ==
  ASSUME NEW d \in Clients, Good(d), Same(d)
  PROVE  Good(d)'
  BY DEF Good, Same, Copying, Moved, Correct, Offset, CopyLen

(***************************************************************************)
(* A chunk put at its place, and what follows it.                          *)
(***************************************************************************)
LEMMA OffsetType ==
  ASSUME Types, NEW c \in Clients
  PROVE  Offset(c) \in Nat /\ CopyLen(length[c]) \in Nat
  BY Monotone DEF Types, Offset, CopyLen

LEMMA PutCorrect ==
  ASSUME Types, NEW c \in Clients, Correct(c, Offset(c)), Put(c, Offset(c), Offset(c))
  PROVE  /\ dst' \in [Clients -> [Units -> Int]]
         /\ \A d \in Clients : d # c => dst'[d] = dst[d]
         /\ \A u \in Units : u < Offset(c) + CopyLen(length[c]) => dst'[c][u] = u
  <1>1. Offset(c) \in Nat /\ CopyLen(length[c]) \in Nat
    BY OffsetType
  <1>2. \A u \in Units : u \in Int
    BY DEF Units
  <1> QED
    BY <1>1, <1>2 DEF Put, Correct, Types, None

LEMMA PutTypes ==
  ASSUME Types, NEW c \in Clients, NEW b \in Int, Put(c, Offset(c), b)
  PROVE  /\ dst' \in [Clients -> [Units -> Int]]
         /\ \A d \in Clients : d # c => dst'[d] = dst[d]
  <1>1. \A u \in Units : u \in Int
    BY DEF Units
  <1> QED
    BY <1>1, OffsetType DEF Put, Types

\* After the last chunk the whole copy is there.
LEMMA Reaches ==
  ASSUME Types, NEW c \in Clients, Offset(c) < length[c]
  PROVE  /\ i[c] + 1 < NumChunk(length[c]) =>
              /\ CopyLen(length[c]) = Chunk
              /\ (i[c] + 1) * Chunk = Offset(c) + CopyLen(length[c])
              /\ (i[c] + 1) * Chunk < length[c]
         /\ ~ (i[c] + 1 < NumChunk(length[c])) =>
              length[c] <= Offset(c) + CopyLen(length[c])
  <1> DEFINE n == length[c]
             j == i[c]
  <1>1. n \in Nat /\ j \in Nat
    BY DEF Types
  <1>2. Offset(c) = j * Chunk
    BY DEF Offset
  <1> HIDE DEF n, j
  <1>3. /\ j * Chunk \in Nat /\ (j + 1) * Chunk = j * Chunk + Chunk
        /\ j + 1 < NumChunk(n) <=> (j + 1) * Chunk < n
    <2>1. j * Chunk \in Nat /\ (j + 1) * Chunk = j * Chunk + Chunk
      BY <1>1, Monotone
    <2>2. j + 1 \in Nat
      BY <1>1
    <2>3. j + 1 < NumChunk(n) <=> (j + 1) * Chunk < n
      BY <1>1, <2>2, Chunks
    <2> QED
      BY <2>1, <2>3
  <1>4. CASE n <= Chunk
    BY <1>1, <1>2, <1>3, <1>4 DEF CopyLen, n, j
  <1>5. CASE n > Chunk
    BY <1>1, <1>2, <1>3, <1>5 DEF CopyLen, n, j
  <1> QED
    BY <1>1, <1>4, <1>5

\* The next chunk, or the end of the copy, once this chunk is at its place.
LEMMA AdvanceKeeps ==
  ASSUME IInv, NEW c \in Clients, Advance(c), pc[c] \in {"status", "out"},
         UNCHANGED <<kind, length, tmp, out>>,
         dst' \in [Clients -> [Units -> Int]], \A d \in Clients : d # c => dst'[d] = dst[d],
         tx' \in [Clients -> {"none", "running", "complete", "error"}],
         \A d \in Clients : d # c => tx'[d] = tx[d], tx'[c] = "none",
         kind[c] # "H2H_ZCPY" =>
           \A u \in Units : u < Offset(c) + CopyLen(length[c]) => dst'[c][u] = u
  PROVE  IInv'
  <1>0. Types
    BY DEF IInv
  <1>1. Types'
    <2>1. CASE kind[c] # "H2H_ZCPY" /\ i[c] + 1 < NumChunk(length[c])
      BY <1>0, <2>1 DEF Types, Advance, Goto, FirstStep, Places
    <2>2. CASE ~ (kind[c] # "H2H_ZCPY" /\ i[c] + 1 < NumChunk(length[c]))
      BY <1>0, <2>2 DEF Types, Advance, Return, Places
    <2> QED
      BY <2>1, <2>2
  <1>2. ASSUME NEW d \in Clients, d # c PROVE Good(d)'
    <2>1. Same(d)
      BY <1>0, <1>2 DEF Types, Same, Advance, Goto, Return, FirstStep
    <2> QED
      BY <2>1, SameGood DEF IInv
  <1>3. Good(c)'
    <2>1. CASE kind[c] # "H2H_ZCPY" /\ i[c] + 1 < NumChunk(length[c])
      <3>1. Offset(c) < length[c]
        BY <2>1 DEF IInv, Good, Copying
      <3>2. /\ (i[c] + 1) * Chunk = Offset(c) + CopyLen(length[c])
            /\ (i[c] + 1) * Chunk < length[c]
        BY <1>0, <2>1, <3>1, Reaches
      <3>3. i'[c] = i[c] + 1 /\ pc'[c] = FirstStep(kind[c]) /\ res'[c] = res[c]
        BY <1>0, <2>1 DEF Advance, Goto, Types
      <3>4. Offset(c)' = (i[c] + 1) * Chunk
        BY <3>3 DEF Offset
      <3>5. Correct(c, Offset(c))' /\ (Offset(c) < length[c])'
        BY <2>1, <3>2, <3>4 DEF Correct
      <3>6. kind[c] \in FromUser => pc'[c] = "in"
        BY <3>3 DEF FirstStep
      <3>7. pc'[c] \in {"in", "request"} /\ res'[c] = "none"
        BY <3>3 DEF FirstStep, IInv, Good
      <3> QED
        BY <3>5, <3>6, <3>7 DEF Good, Copying
    <2>2. CASE ~ (kind[c] # "H2H_ZCPY" /\ i[c] + 1 < NumChunk(length[c]))
      <3>1. pc'[c] = "idle"
        BY <1>0, <2>2 DEF Advance, Return, Types
      <3>2. ASSUME kind[c] # "H2H_ZCPY" PROVE Correct(c, length[c])'
        <4>1. Offset(c) < length[c]
          BY <3>2 DEF IInv, Good, Copying
        <4>2. length[c] <= Offset(c) + CopyLen(length[c])
          BY <1>0, <2>2, <3>2, <4>1, Reaches
        <4>3. length[c] \in Nat /\ Offset(c) + CopyLen(length[c]) \in Nat
                /\ \A u \in Units : u \in Int
          BY <1>0, OffsetType DEF Types, Units
        <4> QED
          BY <3>2, <4>2, <4>3 DEF Correct
      <3> QED
        BY <3>1, <3>2 DEF Good, Copying
    <2> QED
      BY <2>1, <2>2
  <1> QED
    BY <1>1, <1>2, <1>3 DEF IInv

(***************************************************************************)
(* Every step keeps the invariant.                                         *)
(***************************************************************************)
LEMMA StepKeeps ==
  ASSUME IInv, NEW c \in Clients, Types', Good(c)', \A d \in Clients : d # c => Same(d)
  PROVE  IInv'
  BY SameGood DEF IInv

LEMMA InitIInv == Init => IInv
  <1> SUFFICES ASSUME Init PROVE IInv
    OBVIOUS
  <1>1. Types
    BY DEF Init, Types, Places, Kinds, None, Units
  <1>2. ASSUME NEW c \in Clients PROVE Good(c)
    BY DEF Init, Good, Copying
  <1> QED
    BY <1>1, <1>2 DEF IInv

LEMMA BeginKeeps ==
  ASSUME IInv, NEW c \in Clients, Begin(c)
  PROVE  IInv'
  <1>0. Types /\ pc[c] = "idle"
    BY DEF IInv, Begin
  <1>1. PICK k \in Kinds, n \in Lengths :
          kind' = [kind EXCEPT ![c] = k] /\ length' = [length EXCEPT ![c] = n]
    BY DEF Begin
  <1>2. Types'
    <2>1. k \in Kinds /\ n \in 0..MaxLength
      OBVIOUS
    <2>2. /\ pc' = [pc EXCEPT ![c] = "enter"] /\ i' = [i EXCEPT ![c] = 0]
          /\ res' = [res EXCEPT ![c] = "none"] /\ tx' = tx
          /\ tmp' = [tmp EXCEPT ![c] = None] /\ out' = [out EXCEPT ![c] = None]
          /\ dst' = [dst EXCEPT ![c] = [u \in Units |-> None]]
      BY DEF Begin, chanVars
    <2>3. None \in Int /\ [u \in Units |-> None] \in [Units -> Int] /\ "enter" \in Places
      BY DEF None, Places
    <2>4. /\ pc' \in [Clients -> Places] /\ kind' \in [Clients -> Kinds]
          /\ length' \in [Clients -> 0..MaxLength]
      BY <1>0, <1>1, <2>1, <2>2, <2>3 DEF Types
    <2>5. /\ i' \in [Clients -> Nat] /\ res' \in [Clients -> {"none", "ok", "err"}]
          /\ tx' \in [Clients -> {"none", "running", "complete", "error"}]
      BY <1>0, <2>2 DEF Types
    <2>6. tmp' \in [Clients -> Int] /\ out' \in [Clients -> Int]
      BY <1>0, <2>2, <2>3 DEF Types
    <2>7. dst' \in [Clients -> [Units -> Int]]
      <3> HIDE DEF Units
      <3> QED
        BY <1>0, <2>2, <2>3 DEF Types
    <2> QED
      BY <2>4, <2>5, <2>6, <2>7 DEF Types
  <1>3. Good(c)'
    <2>1. pc'[c] = "enter" /\ i'[c] = 0 /\ res'[c] = "none" /\ tx'[c] = tx[c]
      BY <1>0 DEF Types, Begin, chanVars
    <2>2. tx[c] = "none"
      BY <1>0 DEF IInv, Good, Types
    <2> QED
      BY <2>1, <2>2 DEF Good, Copying
  <1>4. \A d \in Clients : d # c => Same(d)
    BY <1>0, <1>1 DEF Types, Begin, Same, chanVars
  <1> QED
    BY <1>2, <1>3, <1>4, StepKeeps

LEMMA EnterKeeps ==
  ASSUME IInv, NEW c \in Clients, Enter(c)
  PROVE  IInv'
  <1>0. Types /\ pc[c] = "enter"
    BY DEF IInv, Enter
  <1>1. Types'
    BY <1>0 DEF Types, Enter, Return, Goto, FirstStep, Places, callVars, dataVars, chanVars
  <1>2. Good(c)'
    <2>0. tx[c] = "none" /\ i[c] = 0 /\ res[c] = "none"
      BY <1>0 DEF IInv, Good, Types
    <2>1. UNCHANGED <<kind, length, i, tmp, out, dst, tx>>
      BY DEF Enter, callVars, dataVars, chanVars
    <2>2. CASE Return(c, "err")
      BY <1>0, <2>0, <2>1, <2>2 DEF Return, Good, Copying, Types
    <2>3. CASE length[c] > 0 /\ Goto(c, FirstStep(kind[c]))
      <3>1. Offset(c)' = 0
        BY <2>0, <2>1 DEF Offset
      <3>2. Correct(c, Offset(c))'
        BY <3>1 DEF Correct, Units
      <3> QED
        BY <1>0, <2>0, <2>1, <2>3, <3>1, <3>2 DEF Goto, FirstStep, Good, Copying, Types
    <2> QED
      BY <2>2, <2>3 DEF Enter
  <1>3. \A d \in Clients : d # c => Same(d)
    BY <1>0 DEF Types, Enter, Return, Goto, Same, callVars, dataVars, chanVars
  <1> QED
    BY <1>1, <1>2, <1>3, StepKeeps

LEMMA CopyInKeeps ==
  ASSUME IInv, NEW c \in Clients, CopyIn(c)
  PROVE  IInv'
  <1>0. Types /\ pc[c] = "in" /\ Offset(c) \in Int
    BY OffsetType DEF IInv, CopyIn
  <1>1. Types'
    <2>1. /\ kind' = kind /\ length' = length /\ i' = i /\ out' = out /\ dst' = dst /\ tx' = tx
      BY DEF CopyIn, callVars, chanVars
    <2>2. CASE Goto(c, "request") /\ tmp' = [tmp EXCEPT ![c] = Offset(c)]
      BY <1>0, <2>1, <2>2 DEF Types, Goto, Places
    <2>3. CASE Error(c) /\ tmp' = tmp
      BY <1>0, <2>1, <2>3 DEF Types, Error, Return, Places
    <2> QED
      BY <2>2, <2>3 DEF CopyIn
  <1>2. Good(c)'
    <2>0. tx[c] = "none" /\ res[c] = "none" /\ Copying(c)
      BY <1>0 DEF IInv, Good, Types
    <2>1. UNCHANGED <<kind, length, i, out, dst, tx>>
      BY DEF CopyIn, callVars, chanVars
    <2>2. CASE Error(c)
      BY <1>0, <2>0, <2>1, <2>2 DEF Error, Return, Good, Copying, Types
    <2>3. CASE Goto(c, "request") /\ tmp' = [tmp EXCEPT ![c] = Offset(c)]
      <3>1. Offset(c)' = Offset(c) /\ tmp'[c] = Offset(c) /\ pc'[c] = "request"
              /\ res'[c] = "none" /\ tx'[c] = "none"
        BY <1>0, <2>0, <2>1, <2>3 DEF Offset, Goto, Types
      <3>2. kind[c] # "H2H_ZCPY" => (Offset(c) < length[c] /\ Correct(c, Offset(c)))'
        BY <1>0, <2>0, <2>1, <3>1 DEF Correct, Copying
      <3> QED
        BY <2>1, <3>1, <3>2 DEF Good, Copying
    <2> QED
      BY <2>2, <2>3 DEF CopyIn
  <1>3. \A d \in Clients : d # c => Same(d)
    BY <1>0 DEF Types, CopyIn, Error, Return, Goto, Same, callVars, chanVars
  <1> QED
    BY <1>1, <1>2, <1>3, StepKeeps

\* A step of dma_memcpy that moves no data and keeps the call going, or fails it.
LEMMA QuietKeeps ==
  ASSUME IInv, NEW c \in Clients, pc[c] \notin {"idle", "enter", "in", "out"},
         UNCHANGED <<kind, length, i, tmp, out, dst>>,
         tx' \in [Clients -> {"none", "running", "complete", "error"}],
         \A d \in Clients : d # c => tx'[d] = tx[d],
         \/ /\ \E where \in Places \ {"idle", "enter", "in", "out"} : Goto(c, where)
            /\ tx'[c] # "none" => pc'[c] \in {"wait", "asleep", "status"}
            /\ tx'[c] = "complete" => tx[c] = "complete"
         \/ Return(c, "err") /\ tx'[c] = "none"
  PROVE  IInv'
  <1>0. Types
    BY DEF IInv
  <1>1. Types'
    BY <1>0 DEF Types, Return, Goto, Places
  <1>2. Good(c)'
    <2>0. res[c] = "none" /\ Copying(c)
      BY DEF IInv, Good
    <2>1. CASE Return(c, "err") /\ tx'[c] = "none"
      BY <1>0, <2>0, <2>1 DEF Return, Good, Copying, Types
    <2>2. CASE /\ \E where \in Places \ {"idle", "enter", "in", "out"} : Goto(c, where)
               /\ tx'[c] # "none" => pc'[c] \in {"wait", "asleep", "status"}
               /\ tx'[c] = "complete" => tx[c] = "complete"
      <3>1. pc'[c] \in Places \ {"idle", "enter", "in", "out"} /\ res'[c] = "none"
        BY <1>0, <2>0, <2>2 DEF Goto, Types
      <3>2. Offset(c)' = Offset(c) /\ \A k : Correct(c, k)' <=> Correct(c, k)
        BY DEF Offset, Correct
      <3>3. Moved(c)' <=> Moved(c)
        BY <3>2 DEF Moved, Correct, Offset, CopyLen
      <3>4. Copying(c)'
        BY <2>0, <2>2, <3>1, <3>2, <3>3 DEF Copying, Correct, Offset
      <3> QED
        BY <2>2, <3>1, <3>4 DEF Good
    <2> QED
      BY <2>1, <2>2
  <1>3. \A d \in Clients : d # c => Same(d)
    BY <1>0 DEF Types, Return, Goto, Same
  <1> QED
    BY <1>1, <1>2, <1>3, StepKeeps

LEMMA RequestKeeps ==
  ASSUME IInv, NEW c \in Clients, Request(c)
  PROVE  IInv'
  <1>1. tx[c] = "none" /\ pc[c] = "request" /\ Types
    BY DEF IInv, Good, Request
  <1>2. UNCHANGED <<kind, length, i, tmp, out, dst, tx>>
    BY DEF Request, callVars, dataVars, chanVars
  <1>3. Goto(c, "init") \/ Return(c, "err")
    BY DEF Request, Error
  <1> QED
    BY <1>1, <1>2, <1>3, QuietKeeps DEF Types, Places

LEMMA InitCompletionKeeps ==
  ASSUME IInv, NEW c \in Clients, InitCompletion(c)
  PROVE  IInv'
  <1>1. tx[c] = "none" /\ pc[c] = "init" /\ Types
    BY DEF IInv, Good, InitCompletion
  <1>2. UNCHANGED <<kind, length, i, tmp, out, dst, tx>>
    BY DEF InitCompletion, callVars, dataVars, chanVars
  <1>3. Goto(c, "submit")
    BY DEF InitCompletion
  <1> QED
    BY <1>1, <1>2, <1>3, QuietKeeps DEF Types, Places

LEMMA SubmitKeeps ==
  ASSUME IInv, NEW c \in Clients, Submit(c)
  PROVE  IInv'
  <1>1. pc[c] = "submit" /\ Types
    BY DEF IInv, Submit
  <1>2. UNCHANGED <<kind, length, i, tmp, out, dst>>
    BY DEF Submit, callVars, dataVars
  <1>3. Goto(c, "wait") /\ pc'[c] = "wait"
    BY <1>1 DEF Submit, Goto, Types
  <1>4. /\ tx' \in [Clients -> {"none", "running", "complete", "error"}] /\ tx'[c] = "running"
        /\ \A d \in Clients : d # c => tx'[d] = tx[d]
    BY <1>1 DEF Submit, Types
  <1> QED
    BY <1>1, <1>2, <1>3, <1>4, QuietKeeps DEF Places

LEMMA WaitKeeps ==
  ASSUME IInv, NEW c \in Clients, Wait(c) \/ Wake(c)
  PROVE  IInv'
  <1>1. pc[c] \in {"wait", "asleep"} /\ Types
    BY DEF IInv, Wait, Wake
  <1>2. UNCHANGED <<kind, length, i, tmp, out, dst, tx>>
    BY DEF Wait, Wake, callVars, dataVars, chanVars
  <1>3. PICK where \in {"status", "asleep"} : Goto(c, where)
    BY DEF Wait, Wake
  <1>4. pc'[c] \in {"status", "asleep"}
    BY <1>1, <1>3 DEF Goto, Types
  <1> QED
    BY <1>1, <1>2, <1>3, <1>4, QuietKeeps DEF Types, Places

LEMMA StatusKeeps ==
  ASSUME IInv, NEW c \in Clients, Status(c)
  PROVE  IInv'
  <1>1. pc[c] = "status" /\ Types /\ UNCHANGED <<kind, length, tmp, out, dst>>
    BY DEF IInv, Status, callVars, dataVars
  <1>2. /\ tx' \in [Clients -> {"none", "running", "complete", "error"}] /\ tx'[c] = "none"
        /\ \A d \in Clients : d # c => tx'[d] = tx[d]
    BY <1>1 DEF Status, Release, Types
  <1>3. CASE tx[c] # "complete"
    BY <1>1, <1>2, <1>3, QuietKeeps DEF Status, Error
  <1>4. CASE tx[c] = "complete" /\ kind[c] \notin ToUser
    <2>1. Advance(c)
      BY <1>4 DEF Status
    <2>2. kind[c] # "H2H_ZCPY" =>
            \A u \in Units : u < Offset(c) + CopyLen(length[c]) => dst'[c][u] = u
      BY <1>1, <1>4 DEF IInv, Good, Copying, Moved, Correct
    <2> QED
      BY <1>1, <1>2, <2>1, <2>2, AdvanceKeeps DEF Types
  <1>5. CASE tx[c] = "complete" /\ kind[c] \in ToUser
    <2>1. Goto(c, "out") /\ UNCHANGED i
      BY <1>5 DEF Status
    <2>2. Types' /\ \A d \in Clients : d # c => Same(d)
      BY <1>1, <1>2, <2>1 DEF Types, Goto, Same, Places
    <2>3. Good(c)'
      <3>1. Copying(c) /\ Moved(c) /\ res[c] = "none" /\ kind[c] # "H2H_ZCPY"
        BY <1>1, <1>5 DEF IInv, Good, Copying, ToUser
      <3>2. pc'[c] = "out" /\ res'[c] = "none"
        BY <1>1, <2>1, <3>1 DEF Goto, Types
      <3>3. Offset(c)' = Offset(c) /\ \A k : Correct(c, k)' <=> Correct(c, k)
        BY <1>1, <2>1 DEF Offset, Correct
      <3>4. Moved(c)' /\ Copying(c)'
        BY <1>1, <1>2, <2>1, <3>1, <3>2, <3>3 DEF Copying, Moved, Correct, Offset, CopyLen
      <3> QED
        BY <1>1, <1>2, <1>5, <3>2, <3>4 DEF Good
    <2> QED
      BY <2>2, <2>3, StepKeeps
  <1> QED
    BY <1>3, <1>4, <1>5

LEMMA CopyOutKeeps ==
  ASSUME IInv, NEW c \in Clients, CopyOut(c)
  PROVE  IInv'
  <1>1. pc[c] = "out" /\ Types /\ UNCHANGED <<kind, length, tmp, out, tx>>
    BY DEF IInv, CopyOut, callVars, chanVars
  <1>2. /\ kind[c] \in ToUser /\ tx[c] = "none" /\ Moved(c) /\ Correct(c, Offset(c))
        /\ Offset(c) < length[c]
    BY <1>1 DEF IInv, Good, Copying, ToUser
  <1>3. CASE Put(c, Offset(c), IF kind[c] = "HOST2HOST" THEN out[c] ELSE tmp[c]) /\ Advance(c)
    <2>1. Put(c, Offset(c), Offset(c))
      BY <1>2, <1>3 DEF Moved, ToUser
    <2>2. /\ dst' \in [Clients -> [Units -> Int]]
          /\ \A d \in Clients : d # c => dst'[d] = dst[d]
          /\ \A u \in Units : u < Offset(c) + CopyLen(length[c]) => dst'[c][u] = u
      BY <1>1, <1>2, <2>1, PutCorrect
    <2> QED
      BY <1>1, <1>2, <1>3, <2>2, AdvanceKeeps DEF Types
  <1>4. CASE Error(c) /\ UNCHANGED <<i, dst>>
    <2>1. Types' /\ \A d \in Clients : d # c => Same(d)
      BY <1>1, <1>4 DEF Types, Error, Return, Same, Places
    <2>2. Good(c)'
      BY <1>1, <1>2, <1>4 DEF Error, Return, Good, Copying, Types
    <2> QED
      BY <2>1, <2>2, StepKeeps
  <1> QED
    BY <1>3, <1>4 DEF CopyOut

LEMMA TxEndsKeeps ==
  ASSUME IInv, NEW c \in Clients, TxEnds(c)
  PROVE  IInv'
  <1>1. Types /\ tx[c] = "running" /\ pc[c] \in {"wait", "asleep", "status"}
          /\ res[c] = "none" /\ Copying(c)
    BY DEF IInv, Good, TxEnds
  <1>2. UNCHANGED <<pc, kind, length, i, res>>
    BY DEF TxEnds, callVars
  <1>3. Offset(c) \in Int /\ Offset(c)' = Offset(c)
    BY <1>1, <1>2, OffsetType DEF Offset
  <1>4. CASE tx' = [tx EXCEPT ![c] = "error"] /\ UNCHANGED dataVars
    <2>1. Types' /\ \A d \in Clients : d # c => Same(d)
      BY <1>1, <1>2, <1>4 DEF Types, Same, dataVars
    <2>2. Copying(c)'
      BY <1>1, <1>2, <1>3, <1>4 DEF Copying, Correct, dataVars, Types
    <2> QED
      BY <1>1, <1>2, <2>1, <2>2, StepKeeps DEF Good
  <1>5. CASE tx' = [tx EXCEPT ![c] = "complete"] /\ Moves(c)
    <2>1. CASE kind[c] = "HOST2HOST"
      <3>1. out' = [out EXCEPT ![c] = tmp[c]] /\ UNCHANGED <<tmp, dst>>
        BY <1>5, <2>1 DEF Moves
      <3>2. Types' /\ \A d \in Clients : d # c => Same(d)
        BY <1>1, <1>2, <1>5, <3>1 DEF Types, Same
      <3>3. Copying(c)'
        BY <1>1, <1>2, <1>3, <2>1, <3>1
           DEF Copying, Moved, Correct, ToUser, FromUser, Types
      <3> QED
        BY <1>1, <1>2, <3>2, <3>3, StepKeeps DEF Good
    <2>2. CASE kind[c] = "FPGA2HOST"
      <3>1. tmp' = [tmp EXCEPT ![c] = Offset(c)] /\ UNCHANGED <<out, dst>>
        BY <1>5, <2>2 DEF Moves
      <3>2. Types' /\ \A d \in Clients : d # c => Same(d)
        BY <1>1, <1>2, <1>3, <1>5, <3>1 DEF Types, Same
      <3>3. Copying(c)'
        BY <1>1, <1>2, <1>3, <2>2, <3>1
           DEF Copying, Moved, Correct, ToUser, FromUser, Types
      <3> QED
        BY <1>1, <1>2, <3>2, <3>3, StepKeeps DEF Good
    <2>3. CASE kind[c] \in {"HOST2FPGA", "FPGA2FPGA"}
      <3>1. UNCHANGED <<tmp, out>> /\ Offset(c) < length[c] /\ Correct(c, Offset(c))
        BY <1>1, <1>5, <2>3 DEF Moves, Copying
      <3>2. Put(c, Offset(c), Offset(c))
        BY <1>1, <1>5, <2>3 DEF Moves, Copying, FromUser
      <3>3. /\ dst' \in [Clients -> [Units -> Int]]
            /\ \A d \in Clients : d # c => dst'[d] = dst[d]
            /\ \A u \in Units : u < Offset(c) + CopyLen(length[c]) => dst'[c][u] = u
        BY <1>1, <3>1, <3>2, PutCorrect
      <3>4. Types' /\ \A d \in Clients : d # c => Same(d)
        BY <1>1, <1>2, <1>5, <3>1, <3>3 DEF Types, Same
      <3>5. Correct(c, Offset(c))' /\ Moved(c)'
        <4>1. Offset(c) \in Nat /\ CopyLen(length[c]) \in Nat /\ \A u \in Units : u \in Int
          BY <1>1, OffsetType DEF Units
        <4>2. \A u \in Units : u < Offset(c) => dst'[c][u] = u
          BY <3>3, <4>1
        <4> QED
          BY <1>2, <1>3, <2>3, <3>3, <4>2 DEF Correct, Moved, CopyLen
      <3>6. Copying(c)'
        BY <1>1, <1>2, <1>3, <2>3, <3>1, <3>5 DEF Copying
      <3> QED
        BY <1>1, <1>2, <3>4, <3>6, StepKeeps DEF Good
    <2>4. CASE kind[c] = "H2H_ZCPY"
      <3>1. Types' /\ \A d \in Clients : d # c => Same(d)
        BY <1>1, <1>2, <1>5, <2>4 DEF Types, Same, Moves, dataVars
      <3>2. Copying(c)'
        BY <1>2, <2>4 DEF Copying
      <3> QED
        BY <1>1, <1>2, <3>1, <3>2, StepKeeps DEF Good
    <2> QED
      BY <1>1, <2>1, <2>2, <2>3, <2>4 DEF Types, Kinds
  <1> QED
    BY <1>4, <1>5 DEF TxEnds

LEMMA NextIInv == IInv /\ [Next]_vars => IInv'
  <1> SUFFICES ASSUME IInv, [Next]_vars PROVE IInv'
    OBVIOUS
  <1>1. CASE UNCHANGED vars
    <2>1. Types' /\ \A d \in Clients : Same(d)
      BY <1>1 DEF vars, callVars, dataVars, chanVars, IInv, Types, Same
    <2> QED
      BY <2>1, SameGood DEF IInv
  <1>2. CASE Next
    BY <1>2, BeginKeeps, EnterKeeps, CopyInKeeps, RequestKeeps, InitCompletionKeeps,
       SubmitKeeps, WaitKeeps, StatusKeeps, CopyOutKeeps, TxEndsKeeps DEF Next, Step
  <1> QED
    BY <1>1, <1>2

LEMMA Invariant == Spec => []IInv
  BY InitIInv, NextIInv, PTL DEF Spec

(***************************************************************************)
(* What SUCCESS means.                                                     *)
(***************************************************************************)
\* A copy of dma_memcpy that returns SUCCESS has put every unit of the source
\* where it belongs, for any number of threads that share one completion: who is
\* woken by the completion of somebody else asks for the status of his own
\* transfer, and fails if it still runs.
THEOREM SuccessIsCopied == Spec => []SuccessMeansCopied
  <1>1. IInv => SuccessMeansCopied
    <2> SUFFICES ASSUME IInv, NEW c \in Clients, res[c] = "ok", kind[c] # "H2H_ZCPY",
                        NEW u \in 0..(length[c] - 1)
                 PROVE  dst[c][u] = u
      BY DEF SuccessMeansCopied
    <2>1. Correct(c, length[c])
      BY DEF IInv, Good
    <2>2. u \in Units /\ u < length[c]
      BY DEF IInv, Types, Units
    <2> QED
      BY <2>1, <2>2 DEF Correct
  <1> QED
    BY Invariant, <1>1, PTL

(***************************************************************************)
(* What the calls hold, and what comes back.                               *)
(***************************************************************************)
USE ClientsAssumption

\* The calls past their checks have their buffers, some of them a second one.
Holding    == {c \in Clients : pc[c] \notin {"idle", "enter"}}
HoldingTwo == {c \in Clients : pc[c] \notin {"idle", "enter"} /\ kind[c] = "HOST2HOST"}
Held == Cardinality(Holding) + Cardinality(HoldingTwo)

\* A failed call may leave more than is held, and a channel that nobody has.
Buffered ==
  /\ bufs \in Int /\ bufs >= Held
  /\ ~failed => bufs = Held

Channelled ==
  /\ chan \in [Clients -> SUBSET Channels] /\ free \subseteq Channels
  /\ \A c \in Clients : chan[c] # {} => pc[c] \in {"init", "submit", "wait", "asleep", "status"}
  /\ failed \in BOOLEAN
  /\ ~failed => \A ch \in Channels : ch \in free \/ \E c \in Clients : ch \in chan[c]

\* Who will still complete the completion before it is initialised again.
Firing == {c \in Clients : tx[c] = "running" \/ pc[c] = "submit"}

Completed == done \in Nat /\ done + Cardinality(Firing) <= Cardinality(Clients)

Ranges ==
  /\ calls \in 0..MaxCalls
  /\ i     \in [Clients -> 0..NumChunk(MaxLength)]
  /\ tmp   \in [Clients -> Units \cup {None}]
  /\ out   \in [Clients -> Units \cup {None}]
  /\ dst   \in [Clients -> [Units -> Units \cup {None}]]
  /\ queue \subseteq Clients /\ alone \in BOOLEAN

BInv == IInv /\ Buffered /\ Channelled /\ Completed /\ Ranges

\* What a call at p holds.
Share(p, k) == IF p \in {"idle", "enter"} THEN 0 ELSE Buffers(k)

LEMMA CountOne ==
  ASSUME NEW S \in SUBSET Clients, NEW T \in SUBSET Clients, NEW c \in Clients,
         \A d \in Clients : d # c => (d \in S <=> d \in T)
  PROVE  /\ Cardinality(S) \in Nat /\ Cardinality(T) \in Nat
         /\ Cardinality(T) = Cardinality(S) + (IF c \in T THEN 1 ELSE 0) - (IF c \in S THEN 1 ELSE 0)
  <1>1. IsFiniteSet(S) /\ IsFiniteSet(T)
    BY FS_Subset
  <1>2. S \ {c} = T \ {c}
    OBVIOUS
  <1>3. Cardinality(S) \in Nat /\ Cardinality(T) \in Nat
    BY <1>1, FS_CardinalityType
  <1>4. Cardinality(S \ {c}) = IF c \in S THEN Cardinality(S) - 1 ELSE Cardinality(S)
    BY <1>1, FS_RemoveElement
  <1>5. Cardinality(T \ {c}) = IF c \in T THEN Cardinality(T) - 1 ELSE Cardinality(T)
    BY <1>1, FS_RemoveElement
  <1>6. Cardinality(S \ {c}) = Cardinality(T \ {c})
    BY <1>2
  <1> QED
    BY <1>3, <1>4, <1>5, <1>6

LEMMA HeldNat == Cardinality(Holding) \in Nat /\ Cardinality(HoldingTwo) \in Nat /\ Held \in Nat
  <1>1. Holding \in SUBSET Clients /\ HoldingTwo \in SUBSET Clients
    BY DEF Holding, HoldingTwo
  <1> QED
    BY <1>1, FS_Subset, FS_CardinalityType DEF Held

\* What is held changes by the share of the call that takes the step.
LEMMA HeldStep ==
  ASSUME NEW c \in Clients, \A d \in Clients : d # c => pc'[d] = pc[d] /\ kind'[d] = kind[d]
  PROVE  /\ Held \in Nat /\ Held' \in Nat
         /\ Held' = Held + Share(pc'[c], kind'[c]) - Share(pc[c], kind[c])
  <1>1. /\ Holding \in SUBSET Clients /\ HoldingTwo \in SUBSET Clients
        /\ Holding' \in SUBSET Clients /\ HoldingTwo' \in SUBSET Clients
    BY DEF Holding, HoldingTwo
  <1>2. \A d \in Clients : d # c => /\ d \in Holding <=> d \in Holding'
                                    /\ d \in HoldingTwo <=> d \in HoldingTwo'
    BY DEF Holding, HoldingTwo
  <1>3. /\ Cardinality(Holding) \in Nat /\ Cardinality(Holding') \in Nat
        /\ Cardinality(Holding') =
             Cardinality(Holding) + (IF c \in Holding' THEN 1 ELSE 0) - (IF c \in Holding THEN 1 ELSE 0)
    BY <1>1, <1>2, CountOne
  <1>4. /\ Cardinality(HoldingTwo) \in Nat /\ Cardinality(HoldingTwo') \in Nat
        /\ Cardinality(HoldingTwo') = Cardinality(HoldingTwo)
             + (IF c \in HoldingTwo' THEN 1 ELSE 0) - (IF c \in HoldingTwo THEN 1 ELSE 0)
    BY <1>1, <1>2, CountOne
  <1>5. Share(pc[c], kind[c]) = (IF c \in Holding THEN 1 ELSE 0) + (IF c \in HoldingTwo THEN 1 ELSE 0)
    BY DEF Share, Buffers, Holding, HoldingTwo
  <1>6. Share(pc'[c], kind'[c]) = (IF c \in Holding' THEN 1 ELSE 0) + (IF c \in HoldingTwo' THEN 1 ELSE 0)
    BY DEF Share, Buffers, Holding, HoldingTwo
  <1>7. Held = Cardinality(Holding) + Cardinality(HoldingTwo)
        /\ Held' = Cardinality(Holding') + Cardinality(HoldingTwo')
    BY DEF Held
  <1> QED
    BY <1>3, <1>4, <1>5, <1>6, <1>7

\* A step books what it takes and gives back, or fails and gives back less.
Booked(c) ==
  \/ bufs' = bufs + Share(pc'[c], kind'[c]) - Share(pc[c], kind[c]) /\ failed' = failed
  \/ bufs' \in Int /\ bufs' >= bufs + Share(pc'[c], kind'[c]) - Share(pc[c], kind[c]) /\ failed'

LEMMA BookedKeeps ==
  ASSUME Buffered, NEW c \in Clients, Booked(c),
         \A d \in Clients : d # c => pc'[d] = pc[d] /\ kind'[d] = kind[d]
  PROVE  Buffered'
  <1> DEFINE a == Share(pc[c], kind[c])
             b == Share(pc'[c], kind'[c])
  <1>1. a \in Nat /\ b \in Nat
    BY DEF Share, Buffers
  <1>2. Held \in Nat /\ Held' \in Nat /\ Held' = Held + b - a
    BY HeldStep
  <1>3. \/ bufs' = bufs + b - a /\ failed' = failed
        \/ bufs' \in Int /\ bufs' >= bufs + b - a /\ failed'
    BY DEF Booked
  <1> HIDE DEF a, b
  <1>4. bufs \in Int /\ bufs >= Held /\ (~failed => bufs = Held)
    BY DEF Buffered
  <1>5. bufs' \in Int /\ bufs' >= Held' /\ (~failed' => bufs' = Held')
    BY <1>1, <1>2, <1>3, <1>4
  <1> QED
    BY <1>5 DEF Buffered

(***************************************************************************)
(* Each step and the books.                                                *)
(***************************************************************************)
\* What a step of c leaves alone of others.
Apart(c) ==
  \A d \in Clients : d # c => /\ pc'[d] = pc[d] /\ kind'[d] = kind[d]
                              /\ chan'[d] = chan[d] /\ tx'[d] = tx[d]

\* A thread in dma_memcpy waits for its own channel.
LEMMA OwnPlace ==
  ASSUME BInv, NEW c \in Clients
  PROVE  /\ pc[c] \in Places /\ kind[c] \in Kinds
         /\ chan[c] # {} => pc[c] \in {"init", "submit", "wait", "asleep", "status"}
         /\ tx[c] # "none" => pc[c] \in {"wait", "asleep", "status"}
         /\ failed \in BOOLEAN /\ bufs \in Int
  BY DEF BInv, IInv, Types, Good, Channelled, Buffered

\* A step by which nobody gets or gives back a channel.
LEMMA ChannelsKept ==
  ASSUME BInv, NEW c \in Clients, Apart(c), chan' = chan, free' = free,
         failed' \in BOOLEAN, failed => failed',
         chan[c] # {} => pc'[c] \in {"init", "submit", "wait", "asleep", "status"}
  PROVE  Channelled'
  BY DEF BInv, Channelled, Apart

\* A step by which no more transfers are on their way, and no more are completed.
LEMMA NoneFired ==
  ASSUME BInv, NEW c \in Clients, Apart(c), done' \in Nat, done' <= done,
         tx'[c] = "running" \/ pc'[c] = "submit" => tx[c] = "running" \/ pc[c] = "submit"
  PROVE  Completed'
  <1>1. Firing \in SUBSET Clients /\ Firing' \in SUBSET Firing
    BY DEF Firing, Apart
  <1>2. IsFiniteSet(Firing) /\ Cardinality(Firing') <= Cardinality(Firing)
          /\ IsFiniteSet(Firing')
    BY <1>1, FS_Subset
  <1>3. Cardinality(Firing) \in Nat /\ Cardinality(Firing') \in Nat /\ Cardinality(Clients) \in Nat
    BY <1>2, FS_CardinalityType
  <1>4. done \in Nat /\ done + Cardinality(Firing) <= Cardinality(Clients)
    BY DEF BInv, Completed
  <1>5. done' + Cardinality(Firing') <= Cardinality(Clients)
    BY <1>2, <1>3, <1>4
  <1> QED
    BY <1>5 DEF Completed

\* The offset of a chunk is a unit.
LEMMA OffsetUnit ==
  ASSUME BInv, NEW c \in Clients
  PROVE  Offset(c) \in Units
  <1> DEFINE N == NumChunk(MaxLength)
  <1>1. N \in Nat /\ i[c] \in 0..N
    BY Chunks DEF BInv, Ranges
  <1>2. CASE i[c] = 0
    BY <1>2 DEF Offset, Units
  <1>3. CASE i[c] # 0
    <2> DEFINE k == i[c] - 1
    <2>1. k \in Nat /\ k < N /\ i[c] = k + 1
      BY <1>1, <1>3
    <2> HIDE DEF k, N
    <2>2. k * Chunk < MaxLength /\ k * Chunk \in Nat /\ (k + 1) * Chunk = k * Chunk + Chunk
      BY <2>1, Chunks, Monotone DEF N
    <2> QED
      BY <2>1, <2>2 DEF Offset, Units
  <1> QED
    BY <1>2, <1>3

LEMMA PutUnits ==
  ASSUME BInv, NEW c \in Clients, Offset(c) < length[c], Put(c, Offset(c), Offset(c))
  PROVE  dst' \in [Clients -> [Units -> Units \cup {None}]]
  <1>1. /\ Offset(c) \in Nat /\ CopyLen(length[c]) \in Nat /\ CopyLen(length[c]) <= Chunk
        /\ length[c] \in 0..MaxLength
    BY OffsetType DEF BInv, IInv, Types, CopyLen
  <1>2. \A u \in Units : u \in Nat
    BY DEF Units
  <1>3. \A u \in Units : u \in Offset(c)..(Offset(c) + CopyLen(length[c]) - 1) =>
                           Offset(c) + (u - Offset(c)) = u
    BY <1>1, <1>2
  <1> DEFINE o == Offset(c)
             l == CopyLen(length[c])
  <1>4. dst' = [dst EXCEPT ![c] = [u \in Units |->
                  IF u \in o..(o + l - 1) /\ o # None THEN o + (u - o) ELSE dst[c][u]]]
    BY DEF Put, BInv, Ranges
  <1> HIDE DEF o, l
  <1>5. [u \in Units |-> IF u \in o..(o + l - 1) /\ o # None THEN o + (u - o) ELSE dst[c][u]]
          \in [Units -> Units \cup {None}]
    BY <1>3 DEF BInv, Ranges, o, l
  <1> QED
    BY <1>4, <1>5 DEF BInv, Ranges

LEMMA BeginBooks ==
  ASSUME BInv, NEW c \in Clients, Begin(c)
  PROVE  Buffered' /\ Channelled' /\ Completed' /\ Ranges'
  <1>0. Types /\ pc[c] = "idle"
    BY DEF BInv, IInv, Begin
  <1>1. PICK k \in Kinds, n \in Lengths :
          kind' = [kind EXCEPT ![c] = k] /\ length' = [length EXCEPT ![c] = n]
    BY DEF Begin
  <1>2. /\ pc' = [pc EXCEPT ![c] = "enter"] /\ pc'[c] = "enter"
        /\ UNCHANGED <<chan, tx, free, bufs, done, queue, failed, alone>>
    BY <1>0 DEF Begin, Types, chanVars, complVars
  <1>3. Apart(c)
    BY <1>0, <1>1, <1>2 DEF Apart, Types
  <1>4. Booked(c)
    <2>1. bufs \in Int
      BY OwnPlace
    <2> QED
      BY <1>0, <1>2, <2>1 DEF Booked, Share
  <1>5. Buffered'
    BY <1>3, <1>4, BookedKeeps DEF BInv, Apart
  <1>6. Channelled'
    BY <1>0, <1>2, <1>3, OwnPlace, ChannelsKept
  <1>7. Completed'
    BY <1>0, <1>2, <1>3, NoneFired DEF BInv, Completed
  <1>8. Ranges'
    <2>1. calls' \in 0..MaxCalls
      BY DEF Begin, BInv, Ranges
    <2>2. NumChunk(MaxLength) \in Nat
      BY Chunks
    <2>3. i' \in [Clients -> 0..NumChunk(MaxLength)]
      BY <2>2 DEF Begin, BInv, Ranges
    <2>4. /\ tmp' \in [Clients -> Units \cup {None}] /\ out' \in [Clients -> Units \cup {None}]
          /\ dst' \in [Clients -> [Units -> Units \cup {None}]]
      BY DEF Begin, BInv, Ranges
    <2> QED
      BY <1>2, <2>1, <2>3, <2>4 DEF Ranges, BInv
  <1> QED
    BY <1>5, <1>6, <1>7, <1>8

\* An error gives back less than the call holds.
LEMMA ErrorBooks ==
  ASSUME BInv, NEW c \in Clients, Error(c), pc[c] \notin {"idle", "enter"}, kind' = kind
  PROVE  Booked(c) /\ pc'[c] = "idle" /\ failed' = TRUE
  <1>1. pc'[c] = "idle" /\ failed' = TRUE
    BY DEF Error, Return, BInv, IInv, Types
  <1>2. bufs' \in Int /\ bufs' >= bufs - Buffers(kind[c])
    BY OwnPlace DEF Error, Buffers
  <1>3. Share(pc'[c], kind'[c]) = 0 /\ Share(pc[c], kind[c]) = Buffers(kind[c])
          /\ Buffers(kind[c]) \in Int
    BY <1>1 DEF Share, Buffers
  <1>4. bufs \in Int
    BY OwnPlace
  <1>5. bufs' >= bufs + Share(pc'[c], kind'[c]) - Share(pc[c], kind[c])
    BY <1>2, <1>3, <1>4
  <1> QED
    BY <1>1, <1>2, <1>5 DEF Booked

\* A step by which the call goes on, or comes to its checks.
LEMMA GotoBooks ==
  ASSUME BInv, NEW c \in Clients, UNCHANGED <<bufs, kind, failed>>,
         Share(pc'[c], kind[c]) = Share(pc[c], kind[c])
  PROVE  Booked(c)
  <1>1. bufs \in Int /\ Share(pc[c], kind[c]) \in Int
    BY OwnPlace DEF Share, Buffers
  <1>2. bufs' = bufs + Share(pc'[c], kind'[c]) - Share(pc[c], kind[c])
    BY <1>1
  <1> QED
    BY <1>2 DEF Booked

\* The next chunk, or the end of the copy, which gives back what the call holds.
LEMMA AdvanceBooks ==
  ASSUME BInv, NEW c \in Clients, Advance(c), pc[c] \in {"status", "out"}, kind' = kind
  PROVE  /\ Booked(c) /\ failed' = failed /\ pc'[c] \in {"in", "request", "idle"}
         /\ \A d \in Clients : d # c => pc'[d] = pc[d]
         /\ i' \in [Clients -> 0..NumChunk(MaxLength)]
  <1>0. pc \in [Clients -> Places] /\ length[c] \in 0..MaxLength /\ i \in [Clients -> Nat]
          /\ failed \in BOOLEAN /\ res \in [Clients -> {"none", "ok", "err"}]
          /\ i \in [Clients -> 0..NumChunk(MaxLength)] /\ bufs \in Int
    BY OwnPlace DEF BInv, IInv, Types, Ranges
  <1>1. CASE kind[c] # "H2H_ZCPY" /\ i[c] + 1 < NumChunk(length[c])
    <2>1. /\ i' = [i EXCEPT ![c] = @ + 1] /\ pc' = [pc EXCEPT ![c] = FirstStep(kind[c])]
          /\ failed' = failed /\ bufs' = bufs
      BY <1>1 DEF Advance, Goto
    <2>2. pc'[c] \in {"in", "request"} /\ \A d \in Clients : d # c => pc'[d] = pc[d]
      BY <1>0, <2>1 DEF FirstStep
    <2>3. Booked(c)
      BY <2>1, <2>2, GotoBooks DEF Share
    <2>4. i[c] + 1 \in 0..NumChunk(MaxLength)
      <3>1. /\ length[c] \in Nat /\ MaxLength \in Nat /\ i[c] + 1 \in Nat
            /\ length[c] <= MaxLength
        BY <1>0
      <3>2. (i[c] + 1) * Chunk < length[c] /\ (i[c] + 1) * Chunk \in Nat
        BY <1>1, <3>1, Chunks, Monotone
      <3>3. (i[c] + 1) * Chunk < MaxLength
        BY <3>1, <3>2
      <3>4. i[c] + 1 < NumChunk(MaxLength) /\ NumChunk(MaxLength) \in Nat
        BY <3>1, <3>3, Chunks
      <3> QED
        BY <3>1, <3>4
    <2> QED
      BY <1>0, <2>1, <2>2, <2>3, <2>4
  <1>2. CASE ~ (kind[c] # "H2H_ZCPY" /\ i[c] + 1 < NumChunk(length[c]))
    <2>1. /\ i' = i /\ bufs' = bufs - Buffers(kind[c])
          /\ pc' = [pc EXCEPT ![c] = "idle"] /\ failed' = failed
      BY <1>0, <1>2 DEF Advance, Return
    <2>2. /\ pc'[c] = "idle" /\ \A d \in Clients : d # c => pc'[d] = pc[d]
          /\ Share(pc'[c], kind'[c]) = 0 /\ Share(pc[c], kind[c]) = Buffers(kind[c])
          /\ Buffers(kind[c]) \in Int
      BY <1>0, <2>1 DEF Share, Buffers
    <2>3. bufs' = bufs + Share(pc'[c], kind'[c]) - Share(pc[c], kind[c])
      BY <1>0, <2>1, <2>2
    <2> QED
      BY <1>0, <2>1, <2>2, <2>3 DEF Booked
  <1> QED
    BY <1>1, <1>2

LEMMA EnterBooks ==
  ASSUME BInv, NEW c \in Clients, Enter(c)
  PROVE  Buffered' /\ Channelled' /\ Completed'
  <1>0. pc[c] = "enter" /\ pc \in [Clients -> Places] /\ failed \in BOOLEAN /\ bufs \in Int
          /\ UNCHANGED <<kind, chan, tx, free, done>> /\ tx[c] = "none" /\ chan[c] = {}
    BY OwnPlace DEF BInv, IInv, Types, Enter, callVars, chanVars, complVars
  <1>1. /\ pc'[c] \in {"idle", "in", "request"} /\ failed' \in BOOLEAN /\ (failed => failed')
        /\ \A d \in Clients : d # c => pc'[d] = pc[d]
    BY <1>0 DEF Enter, Return, Goto, FirstStep
  <1>2. Booked(c)
    <2>1. CASE Return(c, "err") /\ bufs' \in {bufs, bufs + 1}
      <3>1. pc'[c] = "idle" /\ failed' = TRUE
        BY <1>0, <2>1 DEF Return
      <3>2. Share(pc'[c], kind'[c]) = 0 /\ Share(pc[c], kind[c]) = 0
        BY <1>0, <3>1 DEF Share
      <3>3. bufs' \in Int /\ bufs' >= bufs + Share(pc'[c], kind'[c]) - Share(pc[c], kind[c])
        BY <1>0, <2>1, <3>2
      <3> QED
        BY <3>1, <3>3 DEF Booked
    <2>2. CASE Goto(c, FirstStep(kind[c])) /\ bufs' = bufs + Buffers(kind[c])
      <3>1. pc'[c] \in {"in", "request"} /\ failed' = failed
        BY <1>0, <2>2 DEF Goto, FirstStep
      <3>2. Share(pc'[c], kind'[c]) = Buffers(kind[c]) /\ Share(pc[c], kind[c]) = 0
              /\ Buffers(kind[c]) \in Int
        BY <1>0, <3>1 DEF Share, Buffers
      <3>3. bufs' = bufs + Share(pc'[c], kind'[c]) - Share(pc[c], kind[c])
        BY <1>0, <2>2, <3>2
      <3> QED
        BY <3>1, <3>3 DEF Booked
    <2> QED
      BY <2>1, <2>2 DEF Enter
  <1>3. Apart(c)
    BY <1>0, <1>1 DEF Apart
  <1>4. Buffered'
    BY <1>2, <1>3, BookedKeeps DEF BInv, Apart
  <1>5. Channelled'
    BY <1>0, <1>1, <1>3, ChannelsKept
  <1>6. Completed'
    BY <1>0, <1>1, <1>3, NoneFired DEF BInv, Completed
  <1> QED
    BY <1>4, <1>5, <1>6

LEMMA CopyInBooks ==
  ASSUME BInv, NEW c \in Clients, CopyIn(c)
  PROVE  Buffered' /\ Channelled' /\ Completed'
  <1>0. pc[c] = "in" /\ pc \in [Clients -> Places] /\ failed \in BOOLEAN
          /\ UNCHANGED <<kind, chan, tx, free, done>> /\ tx[c] = "none" /\ chan[c] = {}
    BY OwnPlace DEF BInv, IInv, Types, CopyIn, callVars, chanVars, complVars
  <1>1. /\ pc'[c] \in {"idle", "request"} /\ failed' \in BOOLEAN /\ (failed => failed')
        /\ \A d \in Clients : d # c => pc'[d] = pc[d]
    BY <1>0 DEF CopyIn, Error, Return, Goto
  <1>2. Booked(c)
    <2>1. CASE Error(c)
      BY <1>0, <2>1, ErrorBooks
    <2>2. CASE Goto(c, "request") /\ bufs' = bufs
      <3>1. pc'[c] = "request" /\ failed' = failed
        BY <1>0, <2>2 DEF Goto
      <3> QED
        BY <1>0, <2>2, <3>1, GotoBooks DEF Share
    <2> QED
      BY <2>1, <2>2 DEF CopyIn
  <1>3. Apart(c)
    BY <1>0, <1>1 DEF Apart
  <1>4. Buffered'
    BY <1>2, <1>3, BookedKeeps DEF BInv, Apart
  <1>5. Channelled'
    BY <1>0, <1>1, <1>3, ChannelsKept
  <1>6. Completed'
    BY <1>0, <1>1, <1>3, NoneFired DEF BInv, Completed
  <1> QED
    BY <1>4, <1>5, <1>6

LEMMA RequestBooks ==
  ASSUME BInv, NEW c \in Clients, Request(c)
  PROVE  Buffered' /\ Channelled' /\ Completed'
  <1>0. pc[c] = "request" /\ pc \in [Clients -> Places] /\ failed \in BOOLEAN
          /\ UNCHANGED <<kind, tx, done>> /\ tx[c] = "none" /\ chan[c] = {}
          /\ chan \in [Clients -> SUBSET Channels] /\ free \subseteq Channels
    BY OwnPlace DEF BInv, IInv, Types, Channelled, Request, callVars, chanVars, complVars
  <1>1. CASE free = {} /\ Error(c) /\ UNCHANGED chanVars
    <2>1. /\ pc'[c] = "idle" /\ failed' = TRUE /\ UNCHANGED <<chan, free>>
          /\ \A d \in Clients : d # c => pc'[d] = pc[d]
      BY <1>0, <1>1 DEF Error, Return, chanVars
    <2>2. Apart(c)
      BY <1>0, <2>1 DEF Apart
    <2>3. Booked(c)
      BY <1>0, <1>1, ErrorBooks
    <2>4. Buffered'
      BY <2>2, <2>3, BookedKeeps DEF BInv, Apart
    <2>5. Channelled'
      BY <1>0, <2>1, <2>2, ChannelsKept
    <2>6. Completed'
      BY <1>0, <2>1, <2>2, NoneFired DEF BInv, Completed
    <2> QED
      BY <2>4, <2>5, <2>6
  <1>2. ASSUME NEW ch \in free, chan' = [chan EXCEPT ![c] = {ch}], free' = free \ {ch},
               Goto(c, "init"), bufs' = bufs
        PROVE  Buffered' /\ Channelled' /\ Completed'
    <2>1. /\ pc'[c] = "init" /\ failed' = failed /\ \A d \in Clients : d # c => pc'[d] = pc[d]
      BY <1>0, <1>2 DEF Goto
    <2>2. Apart(c)
      BY <1>0, <1>2, <2>1 DEF Apart
    <2>3. Booked(c)
      BY <1>0, <1>2, <2>1, GotoBooks DEF Share
    <2>4. Buffered'
      BY <2>2, <2>3, BookedKeeps DEF BInv, Apart
    <2>5. Channelled'
      <3>1. chan' \in [Clients -> SUBSET Channels] /\ free' \subseteq Channels /\ chan'[c] = {ch}
        BY <1>0, <1>2
      <3>2. \A d \in Clients : d # c => chan'[d] = chan[d]
        BY <1>0, <1>2
      <3>3. ~failed' => \A x \in Channels : x \in free' \/ \E d \in Clients : x \in chan'[d]
        <4> SUFFICES ASSUME ~failed', NEW x \in Channels, x \notin free'
                     PROVE  \E d \in Clients : x \in chan'[d]
          OBVIOUS
        <4>1. CASE x = ch
          BY <3>1, <4>1
        <4>2. CASE x # ch
          <5>1. PICK d \in Clients : x \in chan[d]
            BY <1>2, <2>1, <4>2 DEF BInv, Channelled
          <5>2. d # c
            BY <1>0, <5>1
          <5> QED
            BY <3>2, <5>1, <5>2
        <4> QED
          BY <4>1, <4>2
      <3>4. \A d \in Clients : chan'[d] # {} => pc'[d] \in {"init", "submit", "wait", "asleep", "status"}
        BY <2>1, <3>2 DEF BInv, Channelled
      <3> QED
        BY <1>0, <2>1, <3>1, <3>3, <3>4 DEF Channelled
    <2>6. Completed'
      BY <1>0, <2>1, <2>2, NoneFired DEF BInv, Completed
    <2> QED
      BY <2>4, <2>5, <2>6
  <1> QED
    BY <1>1, <1>2 DEF Request

\* A step of the waiting for a transfer: nothing is taken or given back.
LEMMA WaitBooks ==
  ASSUME BInv, NEW c \in Clients, pc[c] \in {"init", "submit", "wait", "asleep", "status"},
         NEW where \in {"submit", "wait", "asleep", "status"},
         Goto(c, where), UNCHANGED <<kind, chan, free, bufs>>
  PROVE  /\ Buffered' /\ Channelled' /\ pc'[c] = where
         /\ \A d \in Clients : d # c => pc'[d] = pc[d]
  <1>0. pc \in [Clients -> Places] /\ failed \in BOOLEAN
    BY OwnPlace DEF BInv, IInv, Types
  <1>1. pc'[c] = where /\ failed' = failed /\ \A d \in Clients : d # c => pc'[d] = pc[d]
    BY <1>0 DEF Goto, Places
  <1>2. Booked(c)
    BY <1>1, GotoBooks DEF Share
  <1>3. Buffered'
    BY <1>1, <1>2, BookedKeeps DEF BInv
  <1>4. Channelled'
    BY <1>0, <1>1 DEF BInv, Channelled
  <1> QED
    BY <1>1, <1>3, <1>4

LEMMA InitCompletionBooks ==
  ASSUME BInv, NEW c \in Clients, InitCompletion(c)
  PROVE  Buffered' /\ Channelled' /\ Completed'
  <1>1. Buffered' /\ Channelled'
    BY WaitBooks DEF InitCompletion, callVars, chanVars
  <1>2. Completed'
    <2>1. Firing' \in SUBSET Clients
      BY DEF Firing
    <2>2. IsFiniteSet(Firing') /\ Cardinality(Firing') <= Cardinality(Clients)
      BY <2>1, FS_Subset
    <2>3. Cardinality(Firing') \in Nat /\ Cardinality(Clients) \in Nat
      BY <2>2, FS_CardinalityType
    <2>4. done' = 0
      BY DEF InitCompletion
    <2>5. done' \in Nat /\ done' + Cardinality(Firing') <= Cardinality(Clients)
      BY <2>2, <2>3, <2>4
    <2> QED
      BY <2>5 DEF Completed
  <1> QED
    BY <1>1, <1>2

LEMMA SubmitBooks ==
  ASSUME BInv, NEW c \in Clients, Submit(c)
  PROVE  Buffered' /\ Channelled' /\ Completed'
  <1>1. Buffered' /\ Channelled' /\ pc'[c] = "wait" /\ \A d \in Clients : d # c => pc'[d] = pc[d]
    BY WaitBooks DEF Submit, callVars
  <1>2. Completed'
    <2>1. /\ tx'[c] = "running" /\ pc[c] = "submit" /\ done' = done
          /\ \A d \in Clients : d # c => tx'[d] = tx[d]
      BY DEF Submit, BInv, IInv, Types, complVars
    <2>2. Firing' = Firing
      BY <1>1, <2>1 DEF Firing
    <2> QED
      BY <2>1, <2>2 DEF BInv, Completed
  <1> QED
    BY <1>1, <1>2

LEMMA AwaitBooks ==
  ASSUME BInv, NEW c \in Clients, Wait(c) \/ Wake(c)
  PROVE  Buffered' /\ Channelled' /\ Completed'
  <1>1. pc[c] \in {"wait", "asleep"} /\ UNCHANGED <<kind, chan, tx, free, bufs>>
    BY DEF Wait, Wake, callVars, chanVars
  <1>2. PICK where \in {"asleep", "status"} : Goto(c, where)
    BY DEF Wait, Wake
  <1>3. Buffered' /\ Channelled' /\ pc'[c] = where /\ \A d \in Clients : d # c => pc'[d] = pc[d]
    BY <1>1, <1>2, WaitBooks
  <1>4. done' \in Nat /\ done' <= done
    <2>1. done \in Nat /\ (done' = done \/ (done > 0 /\ done' = done - 1))
      BY DEF Wait, Wake, BInv, Completed
    <2> QED
      BY <2>1
  <1>5. Completed'
    <2>1. Apart(c)
      BY <1>1, <1>3 DEF Apart
    <2> QED
      BY <1>1, <1>3, <1>4, <2>1, NoneFired
  <1> QED
    BY <1>3, <1>5

LEMMA StatusBooks ==
  ASSUME BInv, NEW c \in Clients, Status(c)
  PROVE  Buffered' /\ Channelled' /\ Completed'
  <1>0. pc[c] = "status" /\ pc \in [Clients -> Places] /\ failed \in BOOLEAN
          /\ UNCHANGED <<kind, done>> /\ tx \in [Clients -> {"none", "running", "complete", "error"}]
          /\ chan \in [Clients -> SUBSET Channels] /\ free \subseteq Channels
    BY OwnPlace DEF BInv, IInv, Types, Channelled, Status, callVars, complVars
  <1>1. chan' = [chan EXCEPT ![c] = {}] /\ tx' = [tx EXCEPT ![c] = "none"]
    BY DEF Status, Release
  <1>2. /\ Booked(c) /\ pc'[c] \in {"out", "in", "request", "idle"}
        /\ \A d \in Clients : d # c => pc'[d] = pc[d]
        /\ failed' \in BOOLEAN /\ (failed => failed')
    <2>1. CASE Error(c)
      BY <1>0, <2>1, ErrorBooks DEF Error, Return
    <2>2. CASE Advance(c)
      BY <1>0, <2>2, AdvanceBooks
    <2>3. CASE Goto(c, "out") /\ UNCHANGED bufs
      <3>1. pc'[c] = "out" /\ failed' = failed /\ \A d \in Clients : d # c => pc'[d] = pc[d]
        BY <1>0, <2>3 DEF Goto
      <3>2. Booked(c)
        BY <1>0, <2>3, <3>1, GotoBooks DEF Share
      <3> QED
        BY <1>0, <3>1, <3>2
    <2> QED
      BY <2>1, <2>2, <2>3 DEF Status
  <1>3. Apart(c)
    BY <1>0, <1>1, <1>2 DEF Apart
  <1>4. Buffered'
    BY <1>2, <1>3, BookedKeeps DEF BInv, Apart
  <1>5. Completed'
    BY <1>0, <1>1, <1>2, <1>3, NoneFired DEF BInv, Completed
  <1>6. Channelled'
    <2>1. chan' \in [Clients -> SUBSET Channels] /\ chan'[c] = {}
            /\ \A d \in Clients : d # c => chan'[d] = chan[d]
      BY <1>0, <1>1
    <2>2. \A d \in Clients : chan'[d] # {} => pc'[d] \in {"init", "submit", "wait", "asleep", "status"}
      BY <1>2, <2>1 DEF BInv, Channelled
    <2>3. free' \subseteq Channels /\ (~failed' => free' = free \cup chan[c])
      <3>1. CASE free' = free \cup chan[c]
        BY <1>0, <3>1
      <3>2. CASE Error(c) /\ free' = free
        BY <1>0, <3>2, ErrorBooks
      <3> QED
        BY <3>1, <3>2 DEF Status, Release
    <2>4. ~failed' => \A x \in Channels : x \in free' \/ \E d \in Clients : x \in chan'[d]
      BY <1>2, <2>1, <2>3 DEF BInv, Channelled
    <2> QED
      BY <1>2, <2>1, <2>2, <2>3, <2>4 DEF Channelled
  <1> QED
    BY <1>4, <1>5, <1>6

LEMMA CopyOutBooks ==
  ASSUME BInv, NEW c \in Clients, CopyOut(c)
  PROVE  Buffered' /\ Channelled' /\ Completed'
  <1>0. pc[c] = "out" /\ pc \in [Clients -> Places] /\ failed \in BOOLEAN
          /\ UNCHANGED <<kind, chan, tx, free, done>> /\ tx[c] = "none" /\ chan[c] = {}
    BY OwnPlace DEF BInv, IInv, Types, CopyOut, callVars, chanVars, complVars
  <1>1. /\ Booked(c) /\ pc'[c] \in {"in", "request", "idle"}
        /\ \A d \in Clients : d # c => pc'[d] = pc[d]
        /\ failed' \in BOOLEAN /\ (failed => failed')
    <2>1. CASE Error(c)
      BY <1>0, <2>1, ErrorBooks DEF Error, Return
    <2>2. CASE Advance(c)
      BY <1>0, <2>2, AdvanceBooks
    <2> QED
      BY <2>1, <2>2 DEF CopyOut
  <1>3. Apart(c)
    BY <1>0, <1>1 DEF Apart
  <1>4. Buffered'
    BY <1>1, <1>3, BookedKeeps DEF BInv, Apart
  <1>5. Channelled'
    BY <1>0, <1>1, <1>3, ChannelsKept
  <1>6. Completed'
    BY <1>0, <1>1, <1>3, NoneFired DEF BInv, Completed
  <1> QED
    BY <1>4, <1>5, <1>6

LEMMA TxEndsBooks ==
  ASSUME BInv, NEW c \in Clients, TxEnds(c)
  PROVE  Buffered' /\ Channelled' /\ Completed'
  <1>1. tx[c] = "running" /\ done' = done + 1 /\ UNCHANGED <<pc, kind, chan, free, bufs, failed>>
    BY DEF TxEnds, callVars
  <1>2. /\ tx'[c] # "running" /\ \A d \in Clients : d # c => tx'[d] = tx[d]
    BY DEF TxEnds, BInv, IInv, Types
  <1>3. Buffered'
    BY <1>1 DEF BInv, Buffered, Held, Holding, HoldingTwo
  <1>4. Channelled'
    BY <1>1 DEF BInv, Channelled
  <1>5. Completed'
    <2>1. pc[c] # "submit"
      BY <1>1, OwnPlace
    <2>2. c \in Firing /\ Firing' = Firing \ {c} /\ Firing \in SUBSET Clients
      BY <1>1, <1>2, <2>1 DEF Firing
    <2>3. IsFiniteSet(Firing)
      BY <2>2, FS_Subset
    <2>4. Cardinality(Firing) \in Nat /\ Cardinality(Firing') = Cardinality(Firing) - 1
            /\ Cardinality(Clients) \in Nat
      BY <2>2, <2>3, FS_RemoveElement, FS_CardinalityType
    <2>5. done \in Nat /\ done + Cardinality(Firing) <= Cardinality(Clients)
      BY DEF BInv, Completed
    <2>6. done' \in Nat /\ done' + Cardinality(Firing') <= Cardinality(Clients)
      BY <1>1, <2>4, <2>5
    <2> QED
      BY <2>6 DEF Completed
  <1> QED
    BY <1>3, <1>4, <1>5

\* Each step after the first, and the ranges.
LEMMA StepRanges ==
  ASSUME BInv, NEW c \in Clients, Step(c)
  PROVE  Ranges'
  <1>0. /\ calls \in 0..MaxCalls /\ alone \in BOOLEAN /\ queue \subseteq Clients
        /\ tmp \in [Clients -> Units \cup {None}] /\ Offset(c) \in Units /\ calls' = calls
        /\ alone' = alone /\ out' = out
    BY OffsetUnit DEF BInv, Ranges, Step, Enter, CopyIn, Request, InitCompletion, Submit, Wait,
       Wake, Status, CopyOut, callVars, dataVars
  <1>1. queue' \subseteq Clients
    BY <1>0 DEF Step, Enter, CopyIn, Request, InitCompletion, Submit, Wait, Wake, Status, CopyOut,
       complVars
  <1>2. tmp' \in [Clients -> Units \cup {None}]
    BY <1>0 DEF Step, Enter, CopyIn, Request, InitCompletion, Submit, Wait, Wake, Status, CopyOut,
       dataVars
  <1>3. i' \in [Clients -> 0..NumChunk(MaxLength)]
    <2>1. CASE i' = i
      BY <2>1 DEF BInv, Ranges
    <2>2. CASE Status(c) /\ Advance(c)
      BY <2>2, AdvanceBooks DEF Status, callVars
    <2>3. CASE CopyOut(c) /\ Advance(c)
      BY <2>3, AdvanceBooks DEF CopyOut, callVars
    <2> QED
      BY <2>1, <2>2, <2>3 DEF Step, Enter, CopyIn, Request, InitCompletion, Submit, Wait, Wake,
         Status, CopyOut
  <1>4. dst' \in [Clients -> [Units -> Units \cup {None}]]
    <2>1. CASE dst' = dst
      BY <2>1 DEF BInv, Ranges
    <2>2. CASE /\ pc[c] = "out"
               /\ Put(c, Offset(c), IF kind[c] = "HOST2HOST" THEN out[c] ELSE tmp[c])
      <3>1. kind[c] \in ToUser /\ Moved(c) /\ Offset(c) < length[c]
        BY <2>2 DEF BInv, IInv, Good, Copying, ToUser
      <3>2. Put(c, Offset(c), Offset(c))
        BY <2>2, <3>1 DEF Moved, ToUser
      <3> QED
        BY <3>1, <3>2, PutUnits
    <2> QED
      BY <2>1, <2>2 DEF Step, Enter, CopyIn, Request, InitCompletion, Submit, Wait, Wake,
         Status, CopyOut, dataVars
  <1> QED
    BY <1>0, <1>1, <1>2, <1>3, <1>4 DEF BInv, Ranges

LEMMA TxEndsRanges ==
  ASSUME BInv, NEW c \in Clients, TxEnds(c)
  PROVE  Ranges'
  <1>0. /\ Offset(c) \in Units /\ UNCHANGED <<calls, i, queue, alone>>
        /\ kind[c] \in Kinds /\ pc[c] \in {"wait", "asleep", "status"}
    BY OffsetUnit, OwnPlace DEF TxEnds, callVars
  <1>1. CASE UNCHANGED dataVars
    BY <1>0, <1>1 DEF BInv, Ranges, dataVars
  <1>2. CASE Moves(c)
    <2>1. CASE kind[c] = "HOST2HOST"
      BY <1>0, <1>2, <2>1 DEF Moves, BInv, Ranges
    <2>2. CASE kind[c] = "FPGA2HOST"
      BY <1>0, <1>2, <2>2 DEF Moves, BInv, Ranges
    <2>3. CASE kind[c] \in {"HOST2FPGA", "FPGA2FPGA"}
      <3>1. UNCHANGED <<tmp, out>> /\ Offset(c) < length[c]
        BY <1>0, <1>2, <2>3 DEF Moves, BInv, IInv, Good, Copying
      <3>2. Put(c, Offset(c), Offset(c))
        BY <1>0, <1>2, <2>3 DEF Moves, BInv, IInv, Good, Copying, FromUser
      <3>3. dst' \in [Clients -> [Units -> Units \cup {None}]]
        BY <3>1, <3>2, PutUnits
      <3> QED
        BY <1>0, <3>1, <3>3 DEF BInv, Ranges
    <2>4. CASE kind[c] = "H2H_ZCPY"
      BY <1>0, <1>2, <2>4 DEF Moves, BInv, Ranges, dataVars
    <2> QED
      BY <1>0, <2>1, <2>2, <2>3, <2>4 DEF Kinds
  <1> QED
    BY <1>1, <1>2 DEF TxEnds

LEMMA InitBInv == Init => BInv
  <1> SUFFICES ASSUME Init PROVE BInv
    OBVIOUS
  <1>1. IInv
    BY InitIInv
  <1>2. Buffered
    <2>1. Holding = {} /\ HoldingTwo = {}
      BY DEF Init, Holding, HoldingTwo
    <2>2. Held = 0
      BY <2>1, FS_EmptySet DEF Held
    <2> QED
      BY <2>2 DEF Init, Buffered
  <1>3. Channelled
    BY DEF Init, Channelled
  <1>4. Completed
    <2>1. Firing = {}
      BY DEF Init, Firing
    <2>2. Cardinality(Firing) = 0 /\ Cardinality(Clients) \in Nat
      BY <2>1, FS_EmptySet, FS_CardinalityType
    <2> QED
      BY <2>2 DEF Init, Completed
  <1>5. Ranges
    <2>1. NumChunk(MaxLength) \in Nat
      BY Chunks
    <2> QED
      BY <2>1 DEF Init, Ranges
  <1> QED
    BY <1>1, <1>2, <1>3, <1>4, <1>5 DEF BInv

LEMMA NextBInv == BInv /\ [Next]_vars => BInv'
  <1> SUFFICES ASSUME BInv, [Next]_vars PROVE BInv'
    OBVIOUS
  <1>1. IInv'
    BY NextIInv DEF BInv
  <1>2. CASE UNCHANGED vars
    <2>1. Buffered'
      BY <1>2 DEF vars, callVars, BInv, Buffered, Held, Holding, HoldingTwo
    <2>2. Channelled'
      BY <1>2 DEF vars, chanVars, BInv, Channelled
    <2>3. Completed'
      BY <1>2 DEF vars, chanVars, complVars, BInv, Completed, Firing
    <2>4. Ranges'
      BY <1>2 DEF vars, callVars, dataVars, complVars, BInv, Ranges
    <2> QED
      BY <1>1, <2>1, <2>2, <2>3, <2>4 DEF BInv
  <1>3. ASSUME NEW c \in Clients, Begin(c) PROVE BInv'
    BY <1>1, <1>3, BeginBooks DEF BInv
  <1>4. ASSUME NEW c \in Clients, Step(c) PROVE BInv'
    <2>1. Buffered' /\ Channelled' /\ Completed'
      BY <1>4, EnterBooks, CopyInBooks, RequestBooks, InitCompletionBooks, SubmitBooks,
         AwaitBooks, StatusBooks, CopyOutBooks DEF Step
    <2> QED
      BY <1>1, <1>4, <2>1, StepRanges DEF BInv
  <1>5. ASSUME NEW c \in Clients, TxEnds(c) PROVE BInv'
    BY <1>1, <1>5, TxEndsBooks, TxEndsRanges DEF BInv
  <1> QED
    BY <1>2, <1>3, <1>4, <1>5 DEF Next

LEMMA Books == Spec => []BInv
  BY InitBInv, NextBInv, PTL DEF Spec

(***************************************************************************)
(* The theorems.                                                           *)
(***************************************************************************)
\* Until a call fails, each copy gives back what it has taken: when all have
\* returned no bounce buffer is left and every channel is free again, for any
\* number of threads, channels and chunks (host_dma_ioctl, dma_memcpy).
THEOREM SuccessNeverLoses == Spec => []SuccessLosesNothing
  <1>1. BInv => SuccessLosesNothing
    <2> SUFFICES ASSUME BInv, ~failed, \A c \in Clients : pc[c] = "idle"
                 PROVE  bufs = 0 /\ free = Channels
      BY DEF SuccessLosesNothing
    <2>1. Holding = {} /\ HoldingTwo = {}
      BY DEF Holding, HoldingTwo
    <2>2. bufs = 0
      BY <2>1, FS_EmptySet DEF BInv, Buffered, Held
    <2>3. \A c \in Clients : chan[c] = {}
      BY DEF BInv, Channelled
    <2>4. free = Channels
      BY <2>3 DEF BInv, Channelled
    <2> QED
      BY <2>2, <2>4
  <1> QED
    BY Books, <1>1, PTL

\* The variables keep their types: content never comes from beyond the source, no
\* chunk is counted past the last, and the shared completion is never owed more
\* wake-ups than there are threads, however often it is initialised under a
\* sleeper (init_completion in dma_memcpy).
THEOREM CopyTyped == Spec => []TypeOK
  <1>1. BInv => TypeOK
    <2> SUFFICES ASSUME BInv PROVE TypeOK
      OBVIOUS
    <2>1. bufs \in Nat
      BY HeldNat DEF BInv, Buffered
    <2>2. done \in 0..Cardinality(Clients)
      <3>1. IsFiniteSet(Firing)
        BY FS_Subset DEF Firing
      <3>2. Cardinality(Firing) \in Nat /\ Cardinality(Clients) \in Nat
        BY <3>1, FS_CardinalityType
      <3> QED
        BY <3>2 DEF BInv, Completed
    <2>3. pc \in [Clients -> Places] /\ kind \in [Clients -> Kinds] /\ length \in [Clients -> Nat]
            /\ res \in [Clients -> {"none", "ok", "err"}]
            /\ tx \in [Clients -> {"none", "running", "complete", "error"}]
      BY DEF BInv, IInv, Types
    <2> QED
      BY <2>1, <2>2, <2>3 DEF TypeOK, BInv, Channelled, Ranges, Places
  <1> QED
    BY Books, <1>1, PTL

==============================================================================
