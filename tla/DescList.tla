------------------------------- MODULE DescList -------------------------------
(***************************************************************************)
(* The builders of libpim: _gemm_silent, _matmul_fusion_silent,            *)
(* _matmul_decoupled and _matmul_fusion_decoupled of                       *)
(* src/pim_math_src/matmul.c, _elewise and _bias_op of elewise.c.          *)
(*                                                                         *)
(* Each cuts its operands into descriptors.  Lengths and offsets are in    *)
(* elements of TYPE_SIZE bytes.  The physical address of an operand is     *)
(* asked for (VA2PA) when an offset is a multiple of the huge page, and    *)
(* kept as its base.  Operands are contiguous in the device, so an address *)
(* is written as what has to be added to the start of its operand.         *)
(***************************************************************************)
EXTENDS Integers, Sequences, FiniteSets

CONSTANTS
  Reg,       \* REG_SIZE: elements of a vecA register
  Width,     \* PIM_WIDTH / TYPE_SIZE
  Banks,     \* NUM_BANKS
  Burst,     \* BURST_SIZE / TYPE_SIZE
  Step,      \* the 256 that _matmul_decoupled adds to cnt_B
  Channels,  \* CH_NUM
  Chunk,     \* 32*16*CH_NUM*MAX_BATCH / TYPE_SIZE
  Huge,      \* HUGE_PAGE_SIZE / TYPE_SIZE
  Calls      \* what programs ask for: [op, P, Q, R]

Ops      == {"gemm", "fused", "tiled", "fusedTiled", "bias", "elewise"}
Operands == {"A", "B", "D", "C"}   \* srcA, srcB, bias, dstC

ASSUME SizesAssumption ==
  /\ {Reg, Width, Banks, Burst, Step, Channels, Chunk, Huge} \subseteq Nat \ {0}
  /\ Calls \subseteq [op : Ops, P : Nat \ {0}, Q : Nat \ {0}, R : Nat \ {0}]

\* A chunk is at least one line of all channels (the code's sizes make it exactly one).
ASSUME ChunkAssumption == Width * Channels <= Chunk

\* All are powers of two in the code, a huge page the largest.
ASSUME PagesAssumption ==
  Huge % (Reg * Width) = 0 /\ Huge % Step = 0 /\ Huge % (Reg * Banks) = 0

NoCall == [op |-> "none", P |-> 0, Q |-> 0, R |-> 0]

VARIABLES
  pc,       \* the next step
  call,     \* the arguments
  p, q, r,  \* the loop variables
  cntA, cntB, cntC,
  base,     \* the address last asked for, of each operand
  codes,    \* code_idx
  list      \* the descriptors in pim_isa

vars == <<pc, call, p, q, r, cntA, cntB, cntC, base, codes, list>>
loop == <<p, q, r, cntA, cntB, cntC>>

Tiled == call.op \in {"tiled", "fusedTiled"}
Fused == call.op \in {"fused", "fusedTiled"}

(***************************************************************************)
(* Addresses and descriptors.                                              *)
(***************************************************************************)
Ask(off, x) ==  \* off : the offset of each operand of the step
  IF x \in DOMAIN off /\ off[x] % Huge = 0 THEN off[x] ELSE base[x]

\* The operands for which the offset is taken within the huge page.
Modulo(x) == call.op = "tiled" \/ (call.op = "gemm" /\ x \in {"A", "B"})

\* Mutant: no builder reduces the offset.
Place_Whole(x, off) == IF off % Huge = 0 THEN off ELSE base[x] + off

Place(x, off) ==
  IF off % Huge = 0 THEN off ELSE base[x] + (IF Modulo(x) THEN off % Huge ELSE off)

Desc(x, off, len) == [x |-> x, off |-> off, at |-> Place(x, off), len |-> len]

Emit(ds) == list' = list \o ds

Refresh(off) == base' = [x \in Operands |-> Ask(off, x)]

(***************************************************************************)
(* The loops of the four matrix products: tiles p, r, and steps q of each. *)
(***************************************************************************)
PStep == IF Tiled THEN Reg ELSE 1
RStep == IF Tiled THEN Banks ELSE 1
REnd  == IF Tiled THEN call.R ELSE call.R \div Width

\* Mutant: rows are set apart by the wrong dimension.
OutOff_ByQ == IF Tiled THEN cntC ELSE r * Width + p * call.Q

OutOff == IF Tiled THEN cntC ELSE r * Width + p * call.R

OutLen == IF Tiled THEN Reg * Banks ELSE Width

\* The decoupled products run through one operand over and over and through the
\* other by row blocks.
AroundOff == cntB % (call.Q * call.R)
BlockOff  == (p * call.Q + cntA) % (call.P * call.Q)

AOff == IF ~Tiled THEN q + call.Q * p ELSE IF Fused THEN BlockOff ELSE AroundOff

\* Mutant: the row of B is not scaled.
BOff_Unscaled ==
  IF ~Tiled THEN call.Q * Width * r + q ELSE IF Fused THEN AroundOff ELSE BlockOff

BOff ==
  IF ~Tiled THEN (call.Q * r + q) * Width ELSE IF Fused THEN AroundOff ELSE BlockOff

ALen == IF Tiled THEN Reg * Reg ELSE Burst
BLen == IF Tiled THEN Reg * Banks ELSE Reg * Width

\* What _elewise puts first: the attributes of the operation.
Attributes == [x |-> "attr", off |-> 0, at |-> 0, len |-> Burst]

\* The builder is called.  A program that asks for a fused product gets the silent
\* one if P is more than a burst; without a row of tiles no loop is entered.
Call ==
  /\ pc = "call"
  /\ \E c \in Calls :
       /\ c.op = "fused" => c.P > Burst
       /\ c.op = "fusedTiled" => c.P <= Burst
       /\ call' = c
       /\ pc' = CASE c.op \in {"bias", "elewise"} -> c.op
                  [] c.op \in {"gemm", "fused"} /\ c.R < Width -> "exec"
                  [] OTHER -> "tile"
       /\ list' = IF c.op = "elewise" THEN <<Attributes>> ELSE list
  /\ UNCHANGED <<loop, base, codes>>

\* fused_op is neither FUSED_ELEW_ADD nor FUSED_ELEW_SUB.
Refuse ==
  /\ pc = "call" /\ pc' = "failed"
  /\ \E c \in Calls : c.op \in {"fused", "fusedTiled"} /\ call' = c
  /\ UNCHANGED <<loop, base, codes, list>>

\* The tile of the output that is read first, where there is one.
Tile ==
  /\ pc = "tile" /\ pc' = "step" /\ q' = 0 /\ cntA' = 0
  /\ IF call.op = "tiled" THEN UNCHANGED <<base, list>>
     ELSE /\ Refresh([x \in {"D", "C"} |-> OutOff])
          /\ Emit(<<Desc("D", OutOff, OutLen)>>)
  /\ UNCHANGED <<call, p, r, cntB, cntC, codes>>

Operand(x) == IF x = "A" THEN Desc("A", AOff, ALen) ELSE Desc("B", BOff, BLen)

\* One step of the inner loop: a part of A and one of B.
Multiply ==
  /\ pc = "step" /\ q < call.Q
  /\ Refresh([x \in {"A", "B"} |-> IF x = "A" THEN AOff ELSE BOff])
  /\ Emit(IF call.op = "fusedTiled" THEN <<Operand("B"), Operand("A")>>
                                    ELSE <<Operand("A"), Operand("B")>>)
  /\ q' = q + Reg
  /\ cntA' = cntA + Reg * Reg
  /\ cntB' = cntB + (IF Fused THEN 2 * Step ELSE Step)
  /\ UNCHANGED <<pc, call, p, r, cntC, codes>>

NextTile ==
  IF r + RStep < REnd THEN pc' = "tile" /\ r' = r + RStep /\ p' = p
  ELSE r' = 0 /\ p' = p + PStep /\ pc' = IF p + PStep < call.P THEN "tile" ELSE "exec"

\* The end of a tile: the output is written.
Store ==
  /\ pc = "step" /\ q >= call.Q /\ NextTile
  /\ IF call.op = "tiled" THEN Refresh([x \in {"C"} |-> OutOff]) ELSE UNCHANGED base
  /\ Emit(<<Desc("C", OutOff, OutLen)>>)
  /\ cntC' = cntC + Reg * Banks
  /\ UNCHANGED <<call, q, cntA, cntB, codes>>

(***************************************************************************)
(* _bias_op: a vector A is added to each of the Q rows of B.               *)
(***************************************************************************)
BiasRow ==
  /\ pc = "bias"
  /\ LET off == q * call.R + r IN
       /\ Refresh([x \in {"A", "B", "C"} |-> IF x = "A" THEN r ELSE off])
       /\ Emit(<<Desc("A", r, Width), Desc("B", off, Width), Desc("C", off, Width)>>)
  /\ \/ q + 1 < call.Q /\ q' = q + 1 /\ r' = r /\ pc' = pc
     \/ q + 1 = call.Q /\ q' = 0 /\ r' = r + Reg * Banks
          /\ pc' = IF r' < call.R THEN pc ELSE "exec"
  /\ UNCHANGED <<call, p, cntA, cntB, cntC, codes>>

(***************************************************************************)
(* _elewise: descriptors, each with a line of codes that it fetches first. *)
(***************************************************************************)
Total == call.P * call.R
Batch == IF Total < Chunk THEN Total ELSE Chunk

\* Mutant: the codes that write are not counted.
NCode_Reads == call.P * (call.R \div (Width * Channels)) * 2 * Channels

NCode == call.P * (call.R \div (Width * Channels)) * 3 * Channels

\* r counts the batches.  Operands are addressed from their start.
Elewise ==
  /\ pc = "elewise"
  /\ IF r < Total \div Batch
     THEN /\ LET part(x, len) == [x |-> x, off |-> r * Batch, at |-> r * Batch, len |-> len]
                 code(k) == [x |-> "code", off |-> codes + k * Channels,
                             at |-> codes + k * Channels, len |-> Channels]
             IN Emit(<<code(0), part("A", Batch), code(1), part("B", Burst * Channels),
                       code(2), part("C", Batch)>>)
          /\ codes' = codes + 3 * Channels /\ r' = r + 1 /\ pc' = pc
     ELSE pc' = "exec" /\ UNCHANGED <<codes, r, list>>
  /\ UNCHANGED <<call, p, q, cntA, cntB, cntC, base>>

\* pim_exec, whose failure _elewise does not tell its caller.
Exec ==
  /\ pc = "exec"
  /\ pc' \in IF call.op = "elewise" THEN {"done"} ELSE {"done", "failed"}
  /\ UNCHANGED <<call, loop, base, codes, list>>

Init ==
  /\ pc = "call" /\ call = NoCall
  /\ p = 0 /\ q = 0 /\ r = 0 /\ cntA = 0 /\ cntB = 0 /\ cntC = 0
  /\ base = [x \in Operands |-> 0] /\ codes = 0 /\ list = <<>>

Next == Call \/ Refuse \/ Tile \/ Multiply \/ Store \/ BiasRow \/ Elewise \/ Exec

Spec == Init /\ [][Next]_vars

-----------------------------------------------------------------------------
(***************************************************************************)
(* Properties.                                                             *)
(***************************************************************************)
\* The huge pages hold whole rows (row blocks) of the operands.
RowsFitPages ==
  /\ call.Q % Reg = 0 /\ Huge % (PStep * call.Q) = 0
  /\ Tiled => (call.Q * call.R) % Step = 0 /\ call.P % Reg = 0

\* The operand of descriptor k has not left its first huge page.
InFirstPage(k) == \A j \in 1..k : list[j].x = list[k].x => list[j].off < Huge

\* A descriptor addresses the part of its operand that its offset names, though
\* the address is asked for only where a huge page begins: within the first huge
\* page in every builder, and on all pages where the builder takes the offset
\* modulo the page and the rows fit.
Addressed ==
  \A k \in DOMAIN list :
    InFirstPage(k) \/ (Modulo(list[k].x) /\ RowsFitPages) => list[k].at = list[k].off

Part(d) == d.off .. d.off + d.len - 1
Indices(x) == {k \in DOMAIN list : list[k].x = x}
Covered(I) == UNION {Part(list[k]) : k \in I}

\* Sizes that the builder cuts without remainder.
Whole ==
  CASE call.op \in {"gemm", "fused"} -> call.R % Width = 0
    [] call.op = "tiled"            -> call.P % Reg = 0 /\ call.R % Banks = 0
    [] call.op = "elewise"          -> Total % Batch = 0
    [] OTHER                        -> FALSE

\* When the sizes divide, the list that is handed to pim_exec writes every element
\* of the output, once, and none beside it.
OutputOnce ==
  pc = "exec" /\ Whole =>
    /\ Covered(Indices("C")) = 0..(Total - 1)
    /\ \A j, k \in Indices("C") : j # k => Part(list[j]) \cap Part(list[k]) = {}

\* What the silent products read between two stores: each part of B of that column
\* of tiles and, step by step beside it, the row of A of that output.
TileComplete ==
  call.op \in {"gemm", "fused"} /\ call.Q % Reg = 0 =>
    \A k \in Indices("C") :
      LET steps == call.Q \div Reg
          row   == list[k].off \div call.R
          col   == (list[k].off % call.R) \div Width
          n     == call.Q * Width
          As    == {k - 2 * i : i \in 1..steps}
          Bs    == {k - 2 * i + 1 : i \in 1..steps}
      IN call.R % Width = 0 =>
         /\ Bs \subseteq Indices("B") /\ Covered(Bs) = (n * col) .. (n * (col + 1) - 1)
         /\ As \subseteq Indices("A")
         /\ \A a \in As : list[a].off - row * call.Q = (list[a + 1].off - n * col) \div Width
         /\ list[k - 2 * steps - 1].x = "D" /\ list[k - 2 * steps - 1].off = list[k].off

\* If rows are whole lines of all channels, _elewise writes no more codes than it
\* has allocated, and no descriptor fetches codes that are not written.
CodesFit ==
  call.op = "elewise" /\ call.R % (Width * Channels) = 0 =>
    codes <= NCode /\ \A k \in Indices("code") : list[k].off + list[k].len <= codes

\* "C + (A X B) = D": the silent product with an addend reads, for each tile, the
\* addend of that tile and stores to that tile.
AddsItsOwn ==
  call.op = "gemm" => \A k \in Indices("D") \cup Indices("C") : list[k].at = list[k].off

==============================================================================
