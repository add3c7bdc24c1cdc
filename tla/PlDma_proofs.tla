------------------------------ MODULE PlDma_proofs ------------------------------
(***************************************************************************)
(* Proofs about PlDma, for every number of threads, processes, descriptors *)
(* and polls: the types, and what callers that take turns can rely on.     *)
(***************************************************************************)
EXTENDS PlDma, TLAPS

USE NoClientAssumption, ProcOfAssumption, MaxDescAssumption, MaxPollsAssumption,
    MaxJobsAssumption, MaxRaceJobsAssumption

(***************************************************************************)
(* Types.                                                                  *)
(***************************************************************************)
\* The loops over descriptors and chunks stay within the call, and each call is
\* at a place of its kind.
InLoop(c) ==
  /\ pc[c] \in {"build", "alloc", "chunk", "regs", "btt", "pollsimple", "next"}
       => built[c] <= Last(c)
  /\ pc[c] = "enter" /\ kind[c] # "sg" => built[c] = 0
  /\ pc[c] \in {"build", "waitidle", "copy", "sgen", "curdesc", "tail", "pollsr", "polldesc"}
       => kind[c] = "sg"
  /\ pc[c] \in {"alloc", "chunk", "next"} => kind[c] \in Chunked
  /\ pc[c] \in {"regs", "btt", "pollsimple"} => kind[c] \in Chunked \cup {"pl2pl"}
  /\ pc[c] # "idle" /\ kind[c] = "pl2pl" => len[c] = 1

TInv == TypeOK /\ \A c \in Clients : InLoop(c)

LEMMA InitTInv == Init => TInv
  <1> SUFFICES ASSUME Init PROVE TInv
    OBVIOUS
  <1>1. 0 \in Index /\ NoTag \in Tags
    BY DEF Index, NoTag, Tags
  <1>2. /\ isa \in [Processes -> [Index -> Tags]] /\ desc \in [Index -> Tags]
        /\ compl \in [Index -> BOOLEAN] /\ tail \in Index /\ regs \in Tags
    BY <1>1 DEF Init
  <1>3. /\ pc \in [Clients -> Places] /\ kind \in [Clients -> Kinds]
        /\ ran \in [Clients -> Seq(Index)]
    BY DEF Init, Places, Kinds
  <1>4. TypeOK
    BY <1>2, <1>3 DEF Init, TypeOK
  <1>5. \A c \in Clients : InLoop(c)
    BY DEF Init, InLoop
  <1> QED
    BY <1>4, <1>5 DEF TInv

LEMMA LastIndex ==
  ASSUME TypeOK, NEW c \in Clients
  PROVE  Last(c) \in Index /\ Last(c) \in Nat
  BY DEF TypeOK, Last, Index

LEMMA TagType ==
  ASSUME TypeOK, NEW c \in Clients, NEW k \in Index
  PROVE  Tag(c, k) \in Tags
  BY DEF TypeOK, Tag, Tags

\* A step that leaves memory and engine alone, or resets the engine.
LEMMA CallTypes ==
  ASSUME TInv, NEW c \in Clients,
         alone' = alone, job' = job, len' = len, kind' = kind, UNCHANGED memVars,
         UNCHANGED engVars \/ Reset,
         pc' \in [Clients -> Places], res' \in [Clients -> {"none", "ok", "eio", "etx", "efault"}],
         built' \in [Clients -> 0..MaxDesc], buf' \in [Clients -> BOOLEAN],
         polls' \in [Clients -> 0..(MaxPolls - 1)],
         \A d \in Clients : d # c => pc'[d] = pc[d] /\ built'[d] = built[d],
         InLoop(c)'
  PROVE  TInv'
  <1>1. TypeOK'
    BY DEF TInv, TypeOK, memVars, engVars, Reset
  <1>2. ASSUME NEW d \in Clients, d # c PROVE InLoop(d)'
    BY <1>2 DEF TInv, InLoop, Last
  <1> QED
    BY <1>1, <1>2 DEF TInv

LEMMA BeginTypes ==
  ASSUME TInv, NEW c \in Clients, Begin(c)
  PROVE  TInv'
  <1>1. PICK k \in Kinds, n \in 1..MaxDesc :
          /\ k \in {"pl2pl", "info"} => n = 1
          /\ kind' = [kind EXCEPT ![c] = k] /\ len' = [len EXCEPT ![c] = n]
          /\ pc' = [pc EXCEPT ![c] = IF k = "sg" THEN "build" ELSE "enter"]
    BY DEF Begin
  <1>2. /\ alone' = alone /\ job' \in [Clients -> 0..(IF alone THEN MaxJobs ELSE MaxRaceJobs)]
        /\ UNCHANGED <<memVars, compl, eng, sgen, cur, tail, regs, ioc>>
    BY DEF Begin, TInv, TypeOK
  <1>3. ran' \in [Clients -> Seq(Index)] /\ built' \in [Clients -> 0..MaxDesc] /\ built'[c] = 0
          /\ buf' \in [Clients -> BOOLEAN] /\ polls' \in [Clients -> 0..(MaxPolls - 1)]
          /\ res' \in [Clients -> {"none", "ok", "eio", "etx", "efault"}]
    BY DEF Begin, TInv, TypeOK
  <1>4. TypeOK'
    BY <1>1, <1>2, <1>3 DEF TInv, TypeOK, memVars, Places
  <1>5. ASSUME NEW d \in Clients PROVE InLoop(d)'
    <2>1. CASE d = c
      BY <1>1, <1>3, <2>1 DEF TInv, TypeOK, InLoop, Last
    <2>2. CASE d # c
      BY <1>1, <2>2 DEF TInv, TypeOK, InLoop, Last, Begin
    <2> QED
      BY <2>1, <2>2
  <1> QED
    BY <1>4, <1>5 DEF TInv

LEMMA BuildTypes ==
  ASSUME TInv, NEW c \in Clients, Build(c)
  PROVE  TInv'
  <1>1. built[c] \in Index /\ built[c] <= Last(c)
    BY DEF TInv, TypeOK, InLoop, Build, Last, Index
  <1>2. isa' \in [Processes -> [Index -> Tags]]
    <2>1. Tag(c, built[c]) \in Tags /\ ProcOf[c] \in Processes
      BY <1>1, TagType DEF TInv
    <2> QED
      BY <1>1, <2>1, Zenon DEF TInv, TypeOK, Build
  <1>3. built' \in [Clients -> 0..MaxDesc] /\ pc' \in [Clients -> Places]
    BY <1>1 DEF TInv, TypeOK, Build, Places, Index
  <1>4. UNCHANGED <<callVars, buf, polls, desc, engVars>>
    BY DEF Build
  <1>5. TypeOK'
    BY <1>2, <1>3, <1>4 DEF TInv, TypeOK, callVars, engVars
  <1>6. ASSUME NEW d \in Clients PROVE InLoop(d)'
    <2>1. CASE d = c
      <3>1. built'[c] = built[c] + 1 /\ built[c] \in Nat /\ Last(c)' = Last(c) /\ Last(c) \in Nat
        BY <1>4, LastIndex DEF TInv, TypeOK, Build, Last, callVars
      <3> QED
        BY <1>1, <1>4, <2>1, <3>1 DEF TInv, TypeOK, InLoop, Build, callVars
    <2>2. CASE d # c
      BY <1>4, <2>2 DEF TInv, TypeOK, InLoop, Build, Last, callVars
    <2> QED
      BY <2>1, <2>2
  <1> QED
    BY <1>5, <1>6 DEF TInv

\* Where a call goes from its entry.
LEMMA EnterWhere ==
  ASSUME TypeOK, NEW c \in Clients, Enter(c)
  PROVE  /\ pc[c] = "enter" /\ UNCHANGED <<built, buf, polls, memVars>>
         /\ \/ Return(c, "eio") /\ UNCHANGED engVars
            \/ Reset /\ kind[c] = "sg" /\ Goto(c, "waitidle")
            \/ Reset /\ kind[c] = "pl2pl" /\ Goto(c, "regs")
            \/ Reset /\ kind[c] \in Chunked /\ Goto(c, "alloc")
            \/ Reset /\ kind[c] = "info" /\ (Return(c, "ok") \/ Return(c, "efault"))
  <1>1. CASE kind[c] = "sg"
    BY <1>1 DEF Enter
  <1>2. CASE kind[c] = "pl2pl"
    BY <1>2 DEF Enter
  <1>3. CASE kind[c] \in Chunked
    BY <1>3 DEF Enter, Chunked
  <1>4. CASE kind[c] = "info"
    BY <1>4 DEF Enter, Chunked
  <1> QED
    BY <1>1, <1>2, <1>3, <1>4 DEF TypeOK, Kinds, Chunked

LEMMA PollTypes ==
  ASSUME TypeOK, NEW c \in Clients,
         \/ \E where : PollAgain(c, where)
         \/ OutOfPolls(c)
         \/ polls' = [polls EXCEPT ![c] = 0]
         \/ polls' = polls
  PROVE  polls' \in [Clients -> 0..(MaxPolls - 1)]
  <1>1. polls \in [Clients -> 0..(MaxPolls - 1)] /\ 0 \in 0..(MaxPolls - 1)
    BY DEF TypeOK
  <1>2. ASSUME polls[c] + 1 < MaxPolls PROVE polls[c] + 1 \in 0..(MaxPolls - 1)
    BY <1>1, <1>2
  <1> QED
    BY <1>1, <1>2 DEF PollAgain, OutOfPolls

\* Where a step takes a call.
LEMMA Goes ==
  ASSUME TypeOK, NEW c \in Clients
  PROVE  /\ \A where : Goto(c, where) => pc'[c] = where
         /\ \A where : PollAgain(c, where) => pc'[c] = where
         /\ \A r : Return(c, r) => pc'[c] = "idle"
  <1>1. pc \in [Clients -> Places]
    BY DEF TypeOK
  <1> QED
    BY <1>1 DEF Goto, PollAgain, Return

\* A call with scatter-gather stays one, and a call without.
LEMMA SgLoop ==
  ASSUME NEW c \in Clients, InLoop(c), UNCHANGED <<kind, len>>, built' = built,
         pc[c] \in {"waitidle", "copy", "sgen", "curdesc", "tail", "pollsr", "polldesc"},
         pc'[c] \in {"waitidle", "copy", "sgen", "curdesc", "tail", "pollsr", "polldesc", "idle"}
  PROVE  InLoop(c)'
  <1>1. kind[c] = "sg" /\ kind'[c] = "sg"
    BY DEF InLoop
  <1> QED
    BY <1>1 DEF InLoop

LEMMA SimpleLoop ==
  ASSUME NEW c \in Clients, InLoop(c), UNCHANGED <<kind, len>>, built' = built,
         pc[c] \in {"regs", "btt"}, pc'[c] \in {"btt", "pollsimple"}
  PROVE  InLoop(c)'
  <1>1. /\ kind'[c] \in Chunked \cup {"pl2pl"} /\ built'[c] <= Last(c)'
        /\ kind'[c] = "pl2pl" => len'[c] = 1
    BY DEF InLoop, Last
  <1> QED
    BY <1>1 DEF InLoop

\* The steps of pl_dma_ioctl that touch no engine register but CR.
LEMMA CallStepTypes ==
  ASSUME TInv, NEW c \in Clients,
         Enter(c) \/ WaitIdle(c) \/ Alloc(c) \/ Chunk(c) \/ NextChunk(c)
           \/ PollSr(c) \/ PollDesc(c) \/ PollSimple(c)
  PROVE  TInv'
  <1>0. TypeOK /\ InLoop(c) /\ Last(c) \in Nat
    BY LastIndex DEF TInv
  <1>1. CASE Enter(c)
    <2>1. UNCHANGED <<built, buf, polls, memVars>> /\ (UNCHANGED engVars \/ Reset)
      BY <1>0, <1>1, EnterWhere
    <2>2. alone' = alone /\ job' = job /\ len' = len /\ kind' = kind
      BY <1>0, <1>1, EnterWhere DEF Goto, Return, callVars
    <2>3. /\ pc' \in [Clients -> Places] /\ \A d \in Clients : d # c => pc'[d] = pc[d]
          /\ res' \in [Clients -> {"none", "ok", "eio", "etx", "efault"}]
      <3>1. CASE \E where \in {"waitidle", "regs", "alloc"} : Goto(c, where)
        BY <1>0, <3>1 DEF Goto, callVars, TypeOK, Places
      <3>2. CASE \E r \in {"ok", "eio", "efault"} : Return(c, r)
        BY <1>0, <3>2 DEF Return, TypeOK, Places
      <3> QED
        BY <1>0, <1>1, <3>1, <3>2, EnterWhere
    <2>4. InLoop(c)'
      <3>1. /\ pc[c] = "enter" /\ built'[c] = built[c] /\ kind'[c] = kind[c] /\ len'[c] = len[c]
            /\ Last(c)' = Last(c) /\ 0 <= Last(c)
            /\ kind[c] # "sg" => built[c] = 0
            /\ kind[c] = "pl2pl" => len[c] = 1
        BY <1>0, <1>1, <2>1, <2>2 DEF Enter, InLoop, Last
      <3>2. \/ pc'[c] = "idle"
            \/ pc'[c] = "waitidle" /\ kind[c] = "sg"
            \/ pc'[c] = "regs" /\ kind[c] = "pl2pl"
            \/ pc'[c] = "alloc" /\ kind[c] \in Chunked
        BY <1>0, <1>1, EnterWhere, Goes
      <3> QED
        BY <3>1, <3>2 DEF InLoop, Chunked
    <2> QED
      BY <1>0, <2>1, <2>2, <2>3, <2>4, CallTypes DEF TypeOK
  <1>2. CASE WaitIdle(c)
    <2>1. UNCHANGED <<built, buf, memVars, engVars>>
      BY <1>2 DEF WaitIdle
    <2>2. alone' = alone /\ job' = job /\ len' = len /\ kind' = kind
      BY <1>2 DEF WaitIdle, PollAgain, Goto, Return, callVars
    <2>3. /\ pc' \in [Clients -> Places] /\ \A d \in Clients : d # c => pc'[d] = pc[d]
          /\ res' \in [Clients -> {"none", "ok", "eio", "etx", "efault"}]
      BY <1>0, <1>2 DEF WaitIdle, PollAgain, Goto, Return, callVars, TypeOK, Places
    <2>5. polls' \in [Clients -> 0..(MaxPolls - 1)]
      BY <1>0, <1>2, PollTypes DEF WaitIdle
    <2>4. InLoop(c)'
      <3>1. pc[c] = "waitidle" /\ pc'[c] \in {"waitidle", "copy", "idle"}
        BY <1>0, <1>2, Goes DEF WaitIdle
      <3> QED
        BY <1>0, <2>1, <2>2, <3>1, SgLoop
    <2> QED
      BY <1>0, <2>1, <2>2, <2>3, <2>4, <2>5, CallTypes DEF TypeOK, memVars
  <1>3. CASE Alloc(c) \/ Chunk(c)
    <2>1. UNCHANGED <<built, polls, memVars, engVars>>
      BY <1>3 DEF Alloc, Chunk
    <2>2. alone' = alone /\ job' = job /\ len' = len /\ kind' = kind
      BY <1>3 DEF Alloc, Chunk, Goto, Return, callVars
    <2>3. /\ pc' \in [Clients -> Places] /\ \A d \in Clients : d # c => pc'[d] = pc[d]
          /\ res' \in [Clients -> {"none", "ok", "eio", "etx", "efault"}]
          /\ buf' \in [Clients -> BOOLEAN]
      BY <1>0, <1>3 DEF Alloc, Chunk, Goto, Return, callVars, TypeOK, Places
    <2>4. InLoop(c)'
      BY <1>0, <1>3, <2>1, <2>2
         DEF Alloc, Chunk, Goto, Return, callVars, TypeOK, InLoop, Last, Chunked
    <2> QED
      BY <1>0, <2>1, <2>2, <2>3, <2>4, CallTypes DEF TypeOK, memVars
  <1>4. CASE NextChunk(c)
    <2>1. UNCHANGED <<polls, memVars, engVars>>
      BY <1>4 DEF NextChunk
    <2>2. alone' = alone /\ job' = job /\ len' = len /\ kind' = kind
      BY <1>4 DEF NextChunk, Goto, Return, callVars
    <2>3. /\ pc' \in [Clients -> Places]
          /\ \A d \in Clients : d # c => pc'[d] = pc[d] /\ built'[d] = built[d]
          /\ res' \in [Clients -> {"none", "ok", "eio", "etx", "efault"}]
          /\ buf' \in [Clients -> BOOLEAN]
      BY <1>0, <1>4 DEF NextChunk, Goto, Return, callVars, TypeOK, Places
    <2>5. built' \in [Clients -> 0..MaxDesc]
      <3>1. built \in [Clients -> 0..MaxDesc] /\ len[c] \in 1..MaxDesc
        BY <1>0 DEF TypeOK
      <3>2. built[c] < Last(c) => built[c] + 1 \in 0..MaxDesc
        BY <3>1 DEF Last
      <3> QED
        BY <1>4, <3>1, <3>2 DEF NextChunk
    <2>4. InLoop(c)'
      BY <1>0, <1>4, <2>2
         DEF NextChunk, Goto, Return, callVars, TypeOK, InLoop, Last, Chunked
    <2> QED
      BY <1>0, <2>1, <2>2, <2>3, <2>4, <2>5, CallTypes DEF TypeOK, memVars
  <1>5. CASE PollSr(c)
    <2>1. UNCHANGED <<built, buf, polls, memVars>> /\ (UNCHANGED engVars \/ Reset)
      BY <1>5 DEF PollSr
    <2>2. alone' = alone /\ job' = job /\ len' = len /\ kind' = kind
      BY <1>5 DEF PollSr, Goto, Return, callVars
    <2>3. /\ pc' \in [Clients -> Places] /\ \A d \in Clients : d # c => pc'[d] = pc[d]
          /\ res' \in [Clients -> {"none", "ok", "eio", "etx", "efault"}]
      BY <1>0, <1>5 DEF PollSr, Goto, Return, callVars, TypeOK, Places
    <2>4. InLoop(c)'
      <3>1. pc[c] = "pollsr" /\ pc'[c] \in {"pollsr", "polldesc", "idle"}
        BY <1>0, <1>5, Goes DEF PollSr
      <3> QED
        BY <1>0, <2>1, <2>2, <3>1, SgLoop
    <2> QED
      BY <1>0, <2>1, <2>2, <2>3, <2>4, CallTypes DEF TypeOK, memVars
  <1>6. CASE PollDesc(c)
    <2>1. UNCHANGED <<built, buf, memVars>> /\ (UNCHANGED engVars \/ Reset)
      BY <1>6 DEF PollDesc
    <2>2. alone' = alone /\ job' = job /\ len' = len /\ kind' = kind
      BY <1>6 DEF PollDesc, PollAgain, Goto, Return, callVars
    <2>3. /\ pc' \in [Clients -> Places] /\ \A d \in Clients : d # c => pc'[d] = pc[d]
          /\ res' \in [Clients -> {"none", "ok", "eio", "etx", "efault"}]
      BY <1>0, <1>6 DEF PollDesc, PollAgain, Goto, Return, callVars, TypeOK, Places
    <2>5. polls' \in [Clients -> 0..(MaxPolls - 1)]
      BY <1>0, <1>6, PollTypes DEF PollDesc
    <2>4. InLoop(c)'
      <3>1. pc[c] = "polldesc" /\ pc'[c] \in {"pollsr", "idle"}
        BY <1>0, <1>6, Goes DEF PollDesc
      <3> QED
        BY <1>0, <2>1, <2>2, <3>1, SgLoop
    <2> QED
      BY <1>0, <2>1, <2>2, <2>3, <2>4, <2>5, CallTypes DEF TypeOK, memVars
  <1>7. CASE PollSimple(c)
    <2>1. UNCHANGED <<built, buf, memVars>> /\ (UNCHANGED engVars \/ Reset)
      BY <1>7 DEF PollSimple
    <2>2. alone' = alone /\ job' = job /\ len' = len /\ kind' = kind
      BY <1>7 DEF PollSimple, Copied, PollAgain, Goto, Return, callVars
    <2>3. /\ pc' \in [Clients -> Places] /\ \A d \in Clients : d # c => pc'[d] = pc[d]
          /\ res' \in [Clients -> {"none", "ok", "eio", "etx", "efault"}]
      BY <1>0, <1>7 DEF PollSimple, Copied, PollAgain, Goto, Return, callVars, TypeOK, Places
    <2>5. polls' \in [Clients -> 0..(MaxPolls - 1)]
      BY <1>0, <1>7, PollTypes DEF PollSimple, Copied
    <2>4. InLoop(c)'
      BY <1>0, <1>7, <2>1, <2>2
         DEF PollSimple, Copied, PollAgain, Goto, Return, callVars, TypeOK, InLoop, Last, Chunked
    <2> QED
      BY <1>0, <2>1, <2>2, <2>3, <2>4, <2>5, CallTypes DEF TypeOK, memVars
  <1> QED
    BY <1>1, <1>2, <1>3, <1>4, <1>5, <1>6, <1>7

\* The steps that write the descriptor memory or the engine's other registers.
LEMMA RegisterTypes ==
  ASSUME TInv, NEW c \in Clients,
         Copy(c) \/ SgEnable(c) \/ CurDesc(c) \/ TailDesc(c) \/ SetRegs(c) \/ ByteTrans(c)
  PROVE  TInv'
  <1>0. TypeOK /\ InLoop(c) /\ Last(c) \in Index /\ Last(c) \in Nat
    BY LastIndex DEF TInv
  <1>1. /\ alone' = alone /\ job' = job /\ len' = len /\ kind' = kind
        /\ UNCHANGED <<built, buf, polls, isa, ran>>
    BY DEF Copy, SgEnable, CurDesc, TailDesc, SetRegs, ByteTrans, Goto, Return, callVars, memVars
  <1>2. \/ \E where \in {"sgen", "curdesc", "tail", "pollsr", "btt", "pollsimple"} :
             Goto(c, where)
        \/ Return(c, "eio")
    BY DEF Copy, SgEnable, CurDesc, TailDesc, SetRegs, ByteTrans
  <1>3. /\ pc' \in [Clients -> Places] /\ \A d \in Clients : d # c => pc'[d] = pc[d]
        /\ res' \in [Clients -> {"none", "ok", "eio", "etx", "efault"}]
    BY <1>0, <1>2 DEF Goto, Return, callVars, TypeOK, Places
  <1>4. /\ desc' \in [Index -> Tags] /\ compl' \in [Index -> BOOLEAN]
        /\ eng' \in {"idle", "sg", "simple", "failed"} /\ sgen' \in BOOLEAN
        /\ cur' \in 0..MaxDesc /\ tail' \in Index /\ regs' \in Tags /\ ioc' \in BOOLEAN
    <2>1. CASE Copy(c)
      <3>1. UNCHANGED <<eng, sgen, cur, tail, regs, ioc>>
        BY <2>1 DEF Copy
      <3>2. \A k \in Index : isa[ProcOf[c]][k] \in Tags /\ desc[k] \in Tags
        BY <1>0 DEF TypeOK
      <3>3. desc' \in [Index -> Tags]
        BY <1>0, <2>1, <3>2, Zenon DEF Copy, TypeOK
      <3>4. compl' \in [Index -> BOOLEAN]
        BY <1>0, <2>1, Zenon DEF Copy, TypeOK
      <3> QED
        BY <1>0, <3>1, <3>3, <3>4 DEF TypeOK
    <2>2. CASE SgEnable(c) \/ CurDesc(c) \/ TailDesc(c) \/ ByteTrans(c)
      <3>1. UNCHANGED <<desc, compl, regs>>
        BY <2>2 DEF SgEnable, CurDesc, TailDesc, ByteTrans, memVars
      <3>2. sgen' \in BOOLEAN /\ ioc' \in BOOLEAN
        BY <1>0, <2>2, Zenon DEF SgEnable, CurDesc, TailDesc, ByteTrans, TypeOK
      <3>3. eng' \in {"idle", "sg", "simple", "failed"}
        BY <1>0, <2>2 DEF SgEnable, CurDesc, TailDesc, ByteTrans, TypeOK
      <3>4. cur' \in 0..MaxDesc /\ tail' \in Index
        BY <1>0, <2>2 DEF SgEnable, CurDesc, TailDesc, ByteTrans, TypeOK
      <3> QED
        BY <1>0, <3>1, <3>2, <3>3, <3>4 DEF TypeOK
    <2>3. CASE SetRegs(c)
      <3>1. built[c] \in Index
        BY <1>0, <2>3 DEF SetRegs, InLoop, TypeOK, Index
      <3>2. regs' \in Tags
        BY <1>0, <2>3, <3>1, TagType DEF SetRegs, TypeOK
      <3> QED
        BY <1>0, <2>3, <3>2 DEF SetRegs, TypeOK, memVars
    <2> QED
      BY <2>1, <2>2, <2>3
  <1>5. TypeOK'
    BY <1>0, <1>1, <1>3, <1>4 DEF TypeOK
  <1>6. ASSUME NEW d \in Clients PROVE InLoop(d)'
    <2>1. CASE d # c
      BY <1>1, <1>3, <2>1 DEF TInv, InLoop, Last
    <2>2. CASE d = c
      <3>1. CASE Copy(c) \/ SgEnable(c) \/ CurDesc(c) \/ TailDesc(c)
        <4>1. /\ pc[c] \in {"copy", "sgen", "curdesc", "tail"}
              /\ pc'[c] \in {"sgen", "curdesc", "tail", "pollsr", "idle"}
          BY <1>0, <3>1, Goes DEF Copy, SgEnable, CurDesc, TailDesc
        <4> QED
          BY <1>0, <1>1, <2>2, <4>1, SgLoop
      <3>2. CASE SetRegs(c) \/ ByteTrans(c)
        <4>1. pc[c] \in {"regs", "btt"} /\ pc'[c] \in {"btt", "pollsimple"}
          BY <1>0, <3>2, Goes DEF SetRegs, ByteTrans
        <4> QED
          BY <1>0, <1>1, <2>2, <4>1, SimpleLoop
      <3> QED
        BY <3>1, <3>2
    <2> QED
      BY <2>1, <2>2
  <1> QED
    BY <1>5, <1>6 DEF TInv

LEMMA ExecutesType ==
  ASSUME TypeOK, NEW t \in Tags, Executes(t)
  PROVE  ran' \in [Clients -> Seq(Index)]
  <1>1. t.k \in Index
    BY DEF Tags
  <1>2. \A d \in Clients : Append(ran[d], t.k) \in Seq(Index)
    BY <1>1 DEF TypeOK
  <1> QED
    BY <1>2 DEF Executes, TypeOK

LEMMA EngineTypes ==
  ASSUME TInv, Engine
  PROVE  TInv'
  <1>1. UNCHANGED <<pc, callVars, built, buf, polls, memVars>>
    BY DEF Engine
  <1>2. ran' \in [Clients -> Seq(Index)]
    BY ExecutesType DEF Engine, EngDesc, EngCopy, EngFails, TInv, TypeOK
  <1>3. /\ compl' \in [Index -> BOOLEAN] /\ eng' \in {"idle", "sg", "simple", "failed"}
        /\ sgen' \in BOOLEAN /\ cur' \in 0..MaxDesc /\ tail' \in Index /\ regs' \in Tags
        /\ ioc' \in BOOLEAN
    <2>1. compl' \in [Index -> BOOLEAN] /\ ioc' \in BOOLEAN
      BY Zenon DEF Engine, EngDesc, EngCopy, EngFails, TInv, TypeOK
    <2>2. eng' \in {"idle", "sg", "simple", "failed"} /\ UNCHANGED <<sgen, tail, regs>>
      BY DEF Engine, EngDesc, EngCopy, EngFails, TInv, TypeOK
    <2>3. cur' \in 0..MaxDesc
      BY DEF Engine, EngDesc, EngCopy, EngFails, TInv, TypeOK, Index
    <2> QED
      BY <2>1, <2>2, <2>3 DEF TInv, TypeOK
  <1>4. TypeOK'
    BY <1>1, <1>2, <1>3 DEF TInv, TypeOK, callVars, memVars
  <1> QED
    BY <1>1, <1>4 DEF TInv, InLoop, Last, callVars

LEMMA NextTInv == TInv /\ [Next]_vars => TInv'
  <1> SUFFICES ASSUME TInv, [Next]_vars PROVE TInv'
    OBVIOUS
  <1>1. CASE UNCHANGED vars
    BY <1>1 DEF vars, callVars, memVars, engVars, TInv, TypeOK, InLoop, Last
  <1>2. CASE Engine
    BY <1>2, EngineTypes
  <1>3. ASSUME NEW c \in Clients, Begin(c) \/ Step(c) PROVE TInv'
    BY <1>3, BeginTypes, BuildTypes, CallStepTypes, RegisterTypes DEF Step
  <1> QED
    BY <1>1, <1>2, <1>3 DEF Next

(***************************************************************************)
(* Callers in turns: the inductive invariant.                              *)
(***************************************************************************)
Ran(n) == [i \in 1..n |-> i - 1]

Built(c, n) == \A k \in Index : k < n => isa[ProcOf[c]][k] = Tag(c, k)

Loaded(c) == \A k \in Index : k <= Last(c) => desc[k] = Tag(c, k)

BeforeReset == {"idle", "build", "enter"}

\* What a call has prepared and the engine has done for it, place by place.
Turn(c) ==
  /\ pc[c] # "idle" => res[c] = "none" /\ \A d \in Clients : d # c => pc[d] = "idle"
  /\ pc[c] = "idle" /\ res[c] = "ok" /\ kind[c] # "info" => ran[c] = Ran(len[c]) /\ ~buf[c]
  /\ pc[c] # "idle" /\ kind[c] \notin Chunked => ~buf[c]
  /\ pc[c] = "build" => Built(c, built[c])
  /\ pc[c] \in {"enter", "waitidle", "copy"} /\ kind[c] = "sg" => Built(c, len[c])
  /\ pc[c] \in {"build", "enter", "waitidle", "copy", "sgen", "curdesc", "tail"} => ran[c] = Ran(0)
  /\ pc[c] \in Places \ (BeforeReset \cup {"pollsr", "polldesc", "pollsimple"}) => eng = "idle"
  /\ pc[c] \in {"sgen", "curdesc", "tail"} => Loaded(c) /\ ~compl[Last(c)]
  /\ pc[c] \in {"curdesc", "tail"} => sgen
  /\ pc[c] = "tail" => cur = 0
  /\ pc[c] \in {"pollsr", "polldesc"} =>
       /\ Loaded(c) /\ tail = Last(c) /\ eng # "simple"
       /\ eng = "sg" => cur <= tail /\ ran[c] = Ran(cur)
       /\ eng = "idle" => ran[c] = Ran(len[c])
       /\ eng # "idle" => ~compl[Last(c)]
  /\ pc[c] \in {"alloc", "chunk", "regs", "btt", "pollsimple", "next"} => ~sgen
  /\ pc[c] \in {"alloc", "chunk", "regs", "btt"} => ran[c] = Ran(built[c])
  /\ pc[c] = "next" => ran[c] = Ran(built[c] + 1)
  /\ pc[c] \in {"btt", "pollsimple"} => regs = Tag(c, built[c])
  /\ pc[c] = "pollsimple" =>
       /\ eng # "sg"
       /\ eng = "simple" => ran[c] = Ran(built[c])
       /\ eng = "idle" => ran[c] = Ran(built[c] + 1)

\* What the engine may still execute while no call is past its reset: what a
\* DMA_START that ran out of polls has left, as long as its caller has only
\* failed at the entry since.
Left(t) ==
  /\ t.owner \in Clients /\ t.job <= job[t.owner]
  /\ t.job = job[t.owner] => kind[t.owner] = "sg" /\ res[t.owner] = "etx"
  /\ t.job # job[t.owner] /\ pc[t.owner] = "idle" => res[t.owner] = "eio"

Resting ==
  (\A c \in Clients : pc[c] \in BeforeReset) =>
    /\ eng # "simple"
    /\ eng = "sg" => cur <= tail
    /\ \A t \in Pending : Left(t)

Turns == (\A c \in Clients : Turn(c)) /\ Resting

IInv == TInv /\ (alone => Turns)

LEMMA InitIInv == Init => IInv
  <1> SUFFICES ASSUME Init PROVE IInv
    OBVIOUS
  <1>1. \A c \in Clients : Turn(c)
    BY DEF Init, Turn, BeforeReset, Places
  <1>2. Resting
    BY DEF Init, Resting, Pending
  <1> QED
    BY <1>1, <1>2, InitTInv DEF IInv, Turns

(***************************************************************************)
(* A step of the one call that runs.                                       *)
(***************************************************************************)
Frame(c) ==
  \A d \in Clients : d # c =>
    pc'[d] = pc[d] /\ kind'[d] = kind[d] /\ len'[d] = len[d] /\ res'[d] = res[d]
      /\ ran'[d] = ran[d] /\ buf'[d] = buf[d]

LEMMA TurnSuffices ==
  ASSUME Turns, NEW c \in Clients, \A d \in Clients : d # c => pc[d] = "idle",
         Frame(c), Turn(c)', Resting'
  PROVE  Turns'
  <1>1. ASSUME NEW d \in Clients, d # c PROVE Turn(d)'
    BY <1>1 DEF Turns, Turn, Frame, BeforeReset
  <1> QED
    BY <1>1 DEF Turns

\* With the engine idle nothing is pending.
LEMMA IdleRests ==
  ASSUME eng' = "idle"
  PROVE  Resting'
  BY DEF Resting, Pending

\* Nor does it matter what is, once a call is past its reset.
LEMMA PastRests ==
  ASSUME NEW c \in Clients, pc'[c] \notin BeforeReset
  PROVE  Resting'
  BY DEF Resting

LEMMA BeginTurns ==
  ASSUME TInv, alone, Turns, NEW c \in Clients, Begin(c)
  PROVE  Turns'
  <1>0. TypeOK /\ \A d \in Clients : pc[d] = "idle"
    BY DEF TInv, Begin
  <1>1. PICK k \in Kinds, n \in 1..MaxDesc :
          /\ kind' = [kind EXCEPT ![c] = k] /\ len' = [len EXCEPT ![c] = n]
          /\ pc' = [pc EXCEPT ![c] = IF k = "sg" THEN "build" ELSE "enter"]
    BY DEF Begin
  <1>2. Frame(c)
    BY <1>0, <1>1 DEF Begin, Frame, TypeOK
  <1>3. /\ pc'[c] \in {"build", "enter"} /\ res'[c] = "none" /\ ran'[c] = <<>> /\ built'[c] = 0
        /\ ~buf'[c] /\ job'[c] = job[c] + 1
        /\ kind'[c] = "sg" => pc'[c] = "build"
    BY <1>0, <1>1 DEF Begin, TypeOK
  <1>4. Turn(c)'
    <2>1. Built(c, 0)' /\ Ran(0) = <<>>
      BY DEF Built, Ran, Index
    <2> QED
      BY <1>0, <1>2, <1>3, <2>1 DEF Turn, Frame, BeforeReset
  <1>5. Resting'
    <2>1. eng # "simple" /\ (eng = "sg" => cur <= tail) /\ \A t \in Pending : Left(t)
      BY <1>0 DEF Turns, Resting, BeforeReset
    <2>2. UNCHANGED <<eng, cur, tail, desc, regs>> /\ Pending' = Pending
      BY DEF Begin, memVars, Pending
    <2>3. ASSUME NEW t \in Pending PROVE Left(t)'
      <3>1. Left(t) /\ job[t.owner] \in Nat
        BY <2>1, <2>3 DEF Left, TInv, TypeOK
      <3>2. CASE t.owner = c
        <4>1. t.job \in Nat
          <5>1. desc \in [Index -> Tags] /\ regs \in Tags
            BY <1>0 DEF TypeOK
          <5>2. cur \in Nat /\ tail \in Index
            BY <1>0 DEF TypeOK
          <5>3. t \in Tags
            BY <2>3, <5>1, <5>2 DEF Pending, Index
          <5> QED
            BY <5>3 DEF Tags
        <4> QED
          BY <1>3, <3>1, <3>2, <4>1 DEF Left
      <3>3. CASE t.owner # c
        BY <1>0, <1>1, <3>1, <3>3 DEF Left, Begin, TypeOK
      <3> QED
        BY <3>2, <3>3
    <2> QED
      BY <2>1, <2>2, <2>3 DEF Resting
  <1> QED
    BY <1>0, <1>2, <1>4, <1>5, TurnSuffices

LEMMA BuildTurns ==
  ASSUME TInv, alone, Turns, NEW c \in Clients, Build(c)
  PROVE  Turns'
  <1>0. TypeOK /\ pc[c] = "build" /\ Turn(c) /\ InLoop(c)
          /\ \A d \in Clients : d # c => pc[d] = "idle"
    BY DEF TInv, Turns, Turn, Build
  <1>1. UNCHANGED <<alone, kind, job, len, res, buf, polls, desc, compl, eng, sgen, cur, tail,
                    regs, ioc, ran>>
    BY DEF Build, callVars, engVars
  <1>2. pc'[c] \in {"build", "enter"} /\ \A d \in Clients : d # c => pc'[d] = pc[d]
    BY <1>0 DEF Build, TypeOK
  <1>3. Frame(c)
    BY <1>1, <1>2 DEF Frame
  <1>4. Turn(c)'
    <2>1. /\ built[c] \in Index /\ built'[c] = built[c] + 1 /\ ProcOf[c] \in Processes
          /\ pc'[c] = "enter" => built'[c] = len[c]
      BY <1>0 DEF TypeOK, InLoop, Build, Last, Index
    <2>2. /\ isa'[ProcOf[c]][built[c]] = Tag(c, built[c])
          /\ \A k \in Index : k # built[c] => isa'[ProcOf[c]][k] = isa[ProcOf[c]][k]
      BY <1>0, <2>1 DEF TypeOK, Build
    <2>3. Built(c, built[c])
      BY <1>0 DEF Turn
    <2>4. \A k \in Index : k < built[c] + 1 => isa'[ProcOf[c]][k] = Tag(c, k)
      BY <2>1, <2>2, <2>3 DEF Built, Index
    <2>5. Built(c, built[c])'
      BY <1>1, <2>1, <2>4 DEF Built, Tag
    <2>6. res[c] = "none" /\ ran[c] = Ran(0) /\ kind[c] = "sg" /\ ~buf[c]
      BY <1>0 DEF Turn, InLoop, Chunked
    <2>7. kind[c] = "sg" /\ pc'[c] = "enter" => Built(c, len[c])'
      BY <1>1, <2>1, <2>5 DEF Built
    <2>8. CASE pc'[c] = "build"
      BY <1>0, <1>1, <1>2, <2>5, <2>6, <2>8 DEF Turn, BeforeReset
    <2>9. CASE pc'[c] = "enter"
      BY <1>0, <1>1, <1>2, <2>6, <2>9, <2>7 DEF Turn, BeforeReset
    <2> QED
      BY <1>2, <2>8, <2>9
  <1>5. Resting'
    <2>1. eng # "simple" /\ (eng = "sg" => cur <= tail) /\ \A t \in Pending : Left(t)
      BY <1>0 DEF Turns, Resting, BeforeReset
    <2>2. Pending' = Pending
      BY <1>1 DEF Pending
    <2>3. ASSUME NEW t \in Pending PROVE Left(t)'
      BY <1>0, <1>1, <1>2, <2>1 DEF Left
    <2> QED
      BY <1>1, <2>1, <2>2, <2>3 DEF Resting
  <1> QED
    BY <1>0, <1>3, <1>4, <1>5, TurnSuffices

LEMMA EnterTurns ==
  ASSUME TInv, alone, Turns, NEW c \in Clients, Enter(c)
  PROVE  Turns'
  <1>0. TypeOK /\ pc[c] = "enter" /\ Turn(c) /\ InLoop(c)
          /\ \A d \in Clients : d # c => pc[d] = "idle"
    BY DEF TInv, Turns, Turn, Enter
  <1>1. UNCHANGED <<alone, kind, job, len, built, buf, isa, desc>>
    BY <1>0, EnterWhere DEF Goto, Return, callVars, memVars
  <1>2. res[c] = "none" /\ ran[c] = Ran(0) /\ (kind[c] \notin Chunked => ~buf[c])
          /\ (kind[c] = "sg" => Built(c, len[c])) /\ (kind[c] # "sg" => built[c] = 0)
    BY <1>0 DEF Turn, InLoop
  <1>3. Built(c, len[c])' <=> Built(c, len[c])
    BY <1>1 DEF Built, Tag
  <1>4. CASE Return(c, "eio") /\ UNCHANGED engVars
    <2>1. /\ pc'[c] = "idle" /\ res'[c] = "eio"
          /\ \A d \in Clients : d # c => pc'[d] = pc[d] /\ res'[d] = res[d]
          /\ UNCHANGED <<compl, eng, sgen, cur, tail, regs, ioc, ran>>
      BY <1>0, <1>4 DEF Return, TypeOK, engVars
    <2>2. Frame(c)
      BY <1>1, <2>1 DEF Frame
    <2>3. Turn(c)'
      BY <2>1 DEF Turn, BeforeReset
    <2>4. Resting'
      <3>1. eng # "simple" /\ (eng = "sg" => cur <= tail) /\ \A t \in Pending : Left(t)
        BY <1>0 DEF Turns, Resting, BeforeReset
      <3>2. Pending' = Pending
        BY <1>1, <2>1 DEF Pending
      <3>3. ASSUME NEW t \in Pending PROVE Left(t)'
        BY <1>0, <1>1, <1>2, <2>1, <3>1 DEF Left
      <3> QED
        BY <2>1, <3>1, <3>2, <3>3 DEF Resting
    <2> QED
      BY <1>0, <2>2, <2>3, <2>4, TurnSuffices
  <1>5. ASSUME Reset, NEW where \in {"waitidle", "regs", "alloc"}, Goto(c, where),
               where = "waitidle" <=> kind[c] = "sg"
        PROVE  Turns'
    <2>1. /\ pc'[c] = where /\ eng' = "idle" /\ ~sgen'
          /\ \A d \in Clients : d # c => pc'[d] = pc[d]
          /\ UNCHANGED <<res, ran>>
      BY <1>0, <1>5 DEF Goto, Reset, callVars, TypeOK
    <2>2. Frame(c)
      BY <1>1, <2>1 DEF Frame
    <2>3. Turn(c)'
      BY <1>0, <1>1, <1>2, <1>3, <1>5, <2>1 DEF Turn, BeforeReset
    <2> QED
      BY <1>0, <2>1, <2>2, <2>3, TurnSuffices, IdleRests
  <1>6. ASSUME Reset, NEW r \in {"ok", "efault"}, Return(c, r), kind[c] = "info"
        PROVE  Turns'
    <2>1. /\ pc'[c] = "idle" /\ eng' = "idle"
          /\ \A d \in Clients : d # c => pc'[d] = pc[d] /\ res'[d] = res[d]
          /\ UNCHANGED ran
      BY <1>0, <1>6 DEF Return, Reset, TypeOK
    <2>2. Frame(c)
      BY <1>1, <2>1 DEF Frame
    <2>3. Turn(c)'
      BY <1>1, <1>6, <2>1 DEF Turn, BeforeReset
    <2> QED
      BY <1>0, <2>1, <2>2, <2>3, TurnSuffices, IdleRests
  <1> QED
    BY <1>0, <1>4, <1>5, <1>6, EnterWhere DEF Chunked

(***************************************************************************)
(* DMA_START past its reset.                                               *)
(***************************************************************************)
\* A call that returns an error with the engine idle.
LEMMA FailIdle ==
  ASSUME TInv, alone, Turns, NEW c \in Clients, pc[c] # "idle",
         NEW r \in {"eio", "etx", "efault"}, Return(c, r), eng' = "idle",
         UNCHANGED <<buf, ran>>
  PROVE  Turns'
  <1>1. \A d \in Clients : d # c => pc[d] = "idle"
    BY DEF Turns, Turn
  <1>2. /\ pc'[c] = "idle" /\ res'[c] # "ok"
        /\ \A d \in Clients : d # c => pc'[d] = pc[d] /\ res'[d] = res[d]
    BY DEF Return, TInv, TypeOK
  <1>3. Frame(c) /\ Turn(c)'
    BY <1>2 DEF Frame, Turn, BeforeReset, Return
  <1> QED
    BY <1>1, <1>3, TurnSuffices, IdleRests

\* A call that goes on, past its reset.
LEMMA GoOn ==
  ASSUME TInv, alone, Turns, NEW c \in Clients, pc[c] # "idle",
         NEW where \in Places \ BeforeReset, Goto(c, where), Turn(c)',
         \A d \in Clients : d # c => buf'[d] = buf[d] /\ ran'[d] = ran[d]
  PROVE  Turns'
  <1>1. \A d \in Clients : d # c => pc[d] = "idle"
    BY DEF Turns, Turn
  <1>2. pc'[c] = where /\ \A d \in Clients : d # c => pc'[d] = pc[d]
    BY DEF Goto, TInv, TypeOK
  <1>3. Frame(c)
    BY <1>2 DEF Frame, Goto, callVars
  <1> QED
    BY <1>1, <1>2, <1>3, TurnSuffices, PastRests

LEMMA WaitIdleTurns ==
  ASSUME TInv, alone, Turns, NEW c \in Clients, WaitIdle(c)
  PROVE  Turns'
  <1>1. TypeOK /\ Turn(c) /\ InLoop(c) /\ pc[c] = "waitidle" /\ eng = "idle"
    BY DEF TInv, Turns, Turn, WaitIdle, Places, BeforeReset
  <1>2. Goto(c, "copy") /\ UNCHANGED <<built, buf, memVars, engVars>>
    BY <1>1 DEF WaitIdle
  <1>3. pc'[c] = "copy" /\ \A d \in Clients : d # c => pc'[d] = pc[d]
    BY <1>1, <1>2 DEF Goto, TypeOK
  <1>4. UNCHANGED <<kind, job, len, res, isa, eng, ran, buf>>
    BY <1>2 DEF Goto, callVars, memVars, engVars
  <1>5. Built(c, len[c])'
    BY <1>1, <1>4 DEF Turn, InLoop, Built, Tag
  <1>6. Turn(c)'
    BY <1>1, <1>3, <1>4, <1>5 DEF Turn, BeforeReset
  <1> QED
    BY <1>1, <1>2, <1>4, <1>6, GoOn DEF Places, BeforeReset

LEMMA CopyTurns ==
  ASSUME TInv, alone, Turns, NEW c \in Clients, Copy(c)
  PROVE  Turns'
  <1>1. TypeOK /\ Turn(c) /\ InLoop(c) /\ pc[c] = "copy" /\ eng = "idle" /\ Last(c) \in Index
    BY LastIndex DEF TInv, Turns, Turn, Copy, Places, BeforeReset
  <1>2. UNCHANGED <<built, buf, polls, isa, eng, sgen, cur, tail, regs, ioc, ran>>
    BY DEF Copy
  <1>3. CASE Return(c, "eio")
    BY <1>1, <1>2, <1>3, FailIdle
  <1>4. CASE Goto(c, "sgen") /\ ~ Return(c, "eio")
    <2>1. pc'[c] = "sgen" /\ \A d \in Clients : d # c => pc'[d] = pc[d]
      BY <1>1, <1>4 DEF Goto, TypeOK
    <2>2. UNCHANGED <<kind, job, len, res>>
      BY <1>4 DEF Goto, callVars
    <2>3. Built(c, len[c])
      BY <1>1 DEF Turn, InLoop
    <2>4. /\ desc'  = [k \in Index |-> IF k <= Last(c) THEN isa[ProcOf[c]][k] ELSE desc[k]]
          /\ compl' = [k \in Index |-> IF k <= Last(c) THEN FALSE ELSE compl[k]]
      BY <1>4 DEF Copy
    <2>5. \A k \in Index : k <= Last(c) => desc'[k] = isa[ProcOf[c]][k] /\ k < len[c]
      <3>1. Last(c) = len[c] - 1 /\ len[c] \in Nat
        BY <1>1 DEF Last, TypeOK
      <3>2. \A k \in Index : k <= Last(c) => k < len[c]
        BY <3>1 DEF Index
      <3> QED
        BY <2>4, <3>2, Zenon
    <2>6. Loaded(c)'
      BY <2>2, <2>3, <2>5 DEF Loaded, Built, Tag, Last
    <2>7. ~compl'[Last(c)] /\ Last(c)' = Last(c)
      <3>1. Last(c) <= Last(c)
        BY <1>1 DEF Index
      <3> QED
        BY <1>1, <2>2, <2>4, <3>1, Zenon DEF Last
    <2>8. Turn(c)'
      BY <1>1, <1>2, <2>1, <2>2, <2>6, <2>7 DEF Turn, BeforeReset
    <2> QED
      BY <1>1, <1>2, <1>4, <2>8, GoOn DEF Places, BeforeReset
  <1> QED
    BY <1>3, <1>4 DEF Copy

LEMMA SgTurns ==
  ASSUME TInv, alone, Turns, NEW c \in Clients, SgEnable(c) \/ CurDesc(c) \/ TailDesc(c)
  PROVE  Turns'
  <1>1. TypeOK /\ Turn(c) /\ InLoop(c) /\ pc[c] \in {"sgen", "curdesc", "tail"} /\ eng = "idle"
          /\ Loaded(c) /\ ~compl[Last(c)] /\ ran[c] = Ran(0) /\ Last(c) \in Nat
    BY LastIndex DEF TInv, Turns, Turn, SgEnable, CurDesc, TailDesc, Places, BeforeReset
  <1>2. UNCHANGED <<kind, job, len, res, built, buf, polls, isa, desc, compl, regs, ran>>
    BY DEF SgEnable, CurDesc, TailDesc, Goto, callVars, memVars
  <1>3. Loaded(c)' /\ Last(c)' = Last(c) /\ ~compl'[Last(c)]
    BY <1>1, <1>2 DEF Loaded, Last, Tag
  <1>4. CASE SgEnable(c)
    <2>1. Goto(c, "curdesc") /\ pc'[c] = "curdesc" /\ sgen' /\ eng' = "idle"
            /\ \A d \in Clients : d # c => pc'[d] = pc[d]
      BY <1>1, <1>4 DEF SgEnable, Goto, TypeOK
    <2>2. Turn(c)'
      BY <1>1, <1>2, <1>3, <2>1 DEF Turn, BeforeReset
    <2> QED
      BY <1>1, <1>2, <2>1, <2>2, GoOn DEF Places, BeforeReset
  <1>5. CASE CurDesc(c)
    <2>1. Goto(c, "tail") /\ pc'[c] = "tail" /\ cur' = 0 /\ eng' = "idle" /\ sgen' = sgen
            /\ pc[c] = "curdesc" /\ \A d \in Clients : d # c => pc'[d] = pc[d]
      BY <1>1, <1>5 DEF CurDesc, Goto, TypeOK
    <2>2. Turn(c)'
      BY <1>1, <1>2, <1>3, <2>1 DEF Turn, BeforeReset
    <2> QED
      BY <1>1, <1>2, <2>1, <2>2, GoOn DEF Places, BeforeReset
  <1>6. CASE TailDesc(c)
    <2>1. Goto(c, "pollsr") /\ pc'[c] = "pollsr" /\ pc[c] = "tail"
            /\ \A d \in Clients : d # c => pc'[d] = pc[d]
      BY <1>1, <1>6 DEF TailDesc, Goto, TypeOK
    <2>2. sgen /\ cur = 0
      BY <1>1, <2>1 DEF Turn
    <2>3. eng' = "sg" /\ cur' = 0 /\ tail' = Last(c)
      BY <1>1, <1>6, <2>2 DEF TailDesc
    <2>4. Turn(c)'
      BY <1>1, <1>2, <1>3, <2>1, <2>3 DEF Turn, BeforeReset
    <2> QED
      BY <1>1, <1>2, <2>1, <2>4, GoOn DEF Places, BeforeReset
  <1> QED
    BY <1>4, <1>5, <1>6

LEMMA PollSrTurns ==
  ASSUME TInv, alone, Turns, NEW c \in Clients, PollSr(c)
  PROVE  Turns'
  <1>1. TypeOK /\ Turn(c) /\ pc[c] = "pollsr"
    BY DEF TInv, Turns, PollSr
  <1>2. UNCHANGED <<built, buf, polls, memVars>>
    BY DEF PollSr
  <1>3. CASE Reset /\ Return(c, "etx")
    BY <1>1, <1>2, <1>3, FailIdle DEF Reset
  <1>4. CASE Goto(c, "polldesc") /\ UNCHANGED engVars
    <2>1. pc'[c] = "polldesc" /\ \A d \in Clients : d # c => pc'[d] = pc[d]
      BY <1>1, <1>4 DEF Goto, TypeOK
    <2>2. UNCHANGED <<kind, job, len, res, desc, compl, eng, sgen, cur, tail, regs, ioc, ran>>
      BY <1>2, <1>4 DEF Goto, callVars, memVars, engVars
    <2>3. Loaded(c)' <=> Loaded(c)
      BY <2>2 DEF Loaded, Last, Tag
    <2>4. Turn(c)'
      BY <1>1, <1>2, <2>1, <2>2, <2>3 DEF Turn, BeforeReset, Last
    <2> QED
      BY <1>1, <1>2, <1>4, <2>2, <2>4, GoOn DEF Places, BeforeReset
  <1> QED
    BY <1>3, <1>4 DEF PollSr

\* A DMA_START that runs out of polls leaves its own descriptors to the engine.
LEMMA OutOfPollsRests ==
  ASSUME TInv, NEW c \in Clients, Turn(c), pc[c] = "polldesc",
         Return(c, "etx"), UNCHANGED <<desc, compl, eng, cur, tail, regs>>
  PROVE  Resting'
  <1>1. TypeOK /\ kind[c] = "sg" /\ Loaded(c) /\ tail = Last(c) /\ eng # "simple"
          /\ (eng = "sg" => cur <= tail)
    BY DEF TInv, InLoop, Turn
  <1>2. res'[c] = "etx" /\ kind' = kind /\ job' = job
    BY <1>1 DEF Return, TypeOK
  <1>3. ASSUME NEW t \in Pending' PROVE Left(t)'
    <2>1. eng = "sg"
      BY <1>1, <1>3 DEF Pending
    <2>2. PICK k \in cur..tail : t = desc[k]
      BY <1>3, <2>1 DEF Pending
    <2>3. k \in Index /\ k <= Last(c)
      BY <1>1, <2>2 DEF TypeOK, Index
    <2>4. t = Tag(c, k)
      BY <1>1, <2>2, <2>3 DEF Loaded
    <2>5. t.owner = c /\ t.job = job[c] /\ job[c] \in Nat
      BY <1>1, <2>4 DEF Tag, TypeOK
    <2> QED
      BY <1>1, <1>2, <2>5 DEF Left
  <1> QED
    BY <1>1, <1>3 DEF Resting

LEMMA PollDescTurns ==
  ASSUME TInv, alone, Turns, NEW c \in Clients, PollDesc(c)
  PROVE  Turns'
  <1>1. TypeOK /\ Turn(c) /\ InLoop(c) /\ pc[c] = "polldesc" /\ kind[c] = "sg"
          /\ \A d \in Clients : d # c => pc[d] = "idle"
    BY DEF TInv, Turns, Turn, InLoop, PollDesc
  <1>2. UNCHANGED <<built, buf, memVars>>
    BY DEF PollDesc
  <1>3. CASE compl[Last(c)] /\ Reset /\ Return(c, "ok")
    <2>1. eng = "idle" /\ ran[c] = Ran(len[c]) /\ ~buf[c]
      BY <1>1, <1>3 DEF Turn, Chunked
    <2>2. pc'[c] = "idle" /\ eng' = "idle" /\ UNCHANGED <<kind, len, ran>>
            /\ \A d \in Clients : d # c => pc'[d] = pc[d] /\ res'[d] = res[d]
      BY <1>1, <1>3 DEF Return, Reset, TypeOK
    <2>3. Frame(c) /\ Turn(c)'
      BY <1>2, <2>1, <2>2 DEF Frame, Turn, BeforeReset
    <2> QED
      BY <1>1, <2>2, <2>3, TurnSuffices, IdleRests
  <1>4. CASE PollAgain(c, "pollsr") /\ UNCHANGED engVars
    <2>1. Goto(c, "pollsr") /\ pc'[c] = "pollsr" /\ \A d \in Clients : d # c => pc'[d] = pc[d]
      BY <1>1, <1>4 DEF PollAgain, Goto, TypeOK
    <2>2. UNCHANGED <<kind, job, len, res, desc, compl, eng, sgen, cur, tail, regs, ioc, ran>>
      BY <1>2, <1>4, <2>1 DEF Goto, callVars, memVars, engVars
    <2>3. Loaded(c)' <=> Loaded(c)
      BY <2>2 DEF Loaded, Last, Tag
    <2>4. Turn(c)'
      BY <1>1, <1>2, <2>1, <2>2, <2>3 DEF Turn, BeforeReset, Last
    <2> QED
      BY <1>1, <1>2, <2>1, <2>2, <2>4, GoOn DEF Places, BeforeReset
  <1>5. CASE Return(c, "etx") /\ UNCHANGED engVars
    <2>1. pc'[c] = "idle" /\ res'[c] = "etx" /\ UNCHANGED <<kind, len, ran>>
            /\ \A d \in Clients : d # c => pc'[d] = pc[d] /\ res'[d] = res[d]
      BY <1>1, <1>5 DEF Return, TypeOK, engVars
    <2>2. Frame(c) /\ Turn(c)'
      BY <1>2, <2>1 DEF Frame, Turn, BeforeReset
    <2>3. Resting'
      BY <1>1, <1>2, <1>5, OutOfPollsRests DEF memVars, engVars
    <2> QED
      BY <1>1, <2>2, <2>3, TurnSuffices
  <1> QED
    BY <1>3, <1>4, <1>5 DEF PollDesc

(***************************************************************************)
(* The memory copies past their reset.                                     *)
(***************************************************************************)
LEMMA AllocChunkTurns ==
  ASSUME TInv, alone, Turns, NEW c \in Clients, Alloc(c) \/ Chunk(c)
  PROVE  Turns'
  <1>1. TypeOK /\ Turn(c) /\ InLoop(c) /\ pc[c] \in {"alloc", "chunk"} /\ kind[c] \in Chunked
          /\ eng = "idle" /\ ~sgen /\ ran[c] = Ran(built[c]) /\ res[c] = "none"
          /\ \A d \in Clients : d # c => pc[d] = "idle"
    BY DEF TInv, Turns, Turn, InLoop, Alloc, Chunk, Places, BeforeReset
  <1>2. UNCHANGED <<built, polls, memVars, engVars>>
          /\ \A d \in Clients : d # c => buf'[d] = buf[d]
    BY <1>1 DEF Alloc, Chunk, TypeOK
  <1>3. CASE Return(c, "efault") /\ UNCHANGED buf
    BY <1>1, <1>2, <1>3, FailIdle DEF engVars
  <1>4. ASSUME NEW where \in {"chunk", "regs"}, Goto(c, where) PROVE Turns'
    <2>1. pc'[c] = where /\ \A d \in Clients : d # c => pc'[d] = pc[d]
      BY <1>1, <1>4 DEF Goto, TypeOK
    <2>2. UNCHANGED <<kind, len, res, eng, sgen, ran>>
      BY <1>2, <1>4 DEF Goto, callVars, engVars
    <2>3. Turn(c)'
      BY <1>1, <1>2, <2>1, <2>2 DEF Turn, BeforeReset
    <2> QED
      BY <1>1, <1>2, <1>4, <2>2, <2>3, GoOn DEF Places, BeforeReset
  <1> QED
    BY <1>3, <1>4 DEF Alloc, Chunk

LEMMA NextChunkTurns ==
  ASSUME TInv, alone, Turns, NEW c \in Clients, NextChunk(c)
  PROVE  Turns'
  <1>1. TypeOK /\ Turn(c) /\ InLoop(c) /\ pc[c] = "next" /\ kind[c] \in Chunked
          /\ eng = "idle" /\ ~sgen /\ ran[c] = Ran(built[c] + 1) /\ res[c] = "none"
          /\ \A d \in Clients : d # c => pc[d] = "idle"
    BY DEF TInv, Turns, Turn, InLoop, NextChunk, Places, BeforeReset
  <1>2. UNCHANGED <<eng, sgen, ran>>
    BY DEF NextChunk, engVars
  <1>3. CASE built[c] < Last(c) /\ Goto(c, "chunk")
               /\ built' = [built EXCEPT ![c] = @ + 1] /\ UNCHANGED buf
    <2>1. pc'[c] = "chunk" /\ built'[c] = built[c] + 1
            /\ \A d \in Clients : d # c => pc'[d] = pc[d]
      BY <1>1, <1>3 DEF Goto, TypeOK
    <2>2. UNCHANGED <<kind, len, res>>
      BY <1>3 DEF Goto, callVars
    <2>3. Turn(c)'
      BY <1>1, <1>2, <2>1, <2>2 DEF Turn, BeforeReset
    <2> QED
      BY <1>1, <1>2, <1>3, <2>3, GoOn DEF Places, BeforeReset
  <1>4. CASE built[c] = Last(c) /\ Return(c, "ok") /\ buf' = [buf EXCEPT ![c] = FALSE]
    <2>1. pc'[c] = "idle" /\ ~buf'[c] /\ UNCHANGED <<kind, len>>
            /\ \A d \in Clients : d # c => pc'[d] = pc[d] /\ res'[d] = res[d] /\ buf'[d] = buf[d]
      BY <1>1, <1>4 DEF Return, TypeOK
    <2>2. ran'[c] = Ran(len[c])
      <3>1. built[c] + 1 = len[c]
        BY <1>1, <1>4 DEF Last, TypeOK
      <3> QED
        BY <1>1, <1>2, <3>1
    <2>3. Frame(c) /\ Turn(c)'
      BY <1>2, <2>1, <2>2 DEF Frame, Turn, BeforeReset
    <2> QED
      BY <1>1, <1>2, <2>3, TurnSuffices, IdleRests
  <1>5. CASE Return(c, "efault") /\ UNCHANGED <<built, buf>>
    BY <1>1, <1>2, <1>5, FailIdle
  <1> QED
    BY <1>3, <1>4, <1>5 DEF NextChunk

LEMMA RegsTurns ==
  ASSUME TInv, alone, Turns, NEW c \in Clients, SetRegs(c) \/ ByteTrans(c)
  PROVE  Turns'
  <1>1. TypeOK /\ Turn(c) /\ InLoop(c) /\ pc[c] \in {"regs", "btt"}
          /\ eng = "idle" /\ ~sgen /\ ran[c] = Ran(built[c]) /\ res[c] = "none"
          /\ \A d \in Clients : d # c => pc[d] = "idle"
    BY DEF TInv, Turns, Turn, SetRegs, ByteTrans, Places, BeforeReset
  <1>2. UNCHANGED <<kind, job, len, res, built, buf, sgen, ran>>
    BY DEF SetRegs, ByteTrans, Goto, callVars
  <1>3. CASE SetRegs(c)
    <2>1. Goto(c, "btt") /\ pc'[c] = "btt" /\ regs' = Tag(c, built[c]) /\ eng' = "idle"
            /\ \A d \in Clients : d # c => pc'[d] = pc[d]
      BY <1>1, <1>3 DEF SetRegs, Goto, TypeOK
    <2>2. Turn(c)'
      BY <1>1, <1>2, <2>1 DEF Turn, BeforeReset, Tag
    <2> QED
      BY <1>1, <1>2, <2>1, <2>2, GoOn DEF Places, BeforeReset
  <1>4. CASE ByteTrans(c)
    <2>1. Goto(c, "pollsimple") /\ pc'[c] = "pollsimple" /\ eng' = "simple" /\ regs' = regs
            /\ pc[c] = "btt" /\ \A d \in Clients : d # c => pc'[d] = pc[d]
      BY <1>1, <1>4 DEF ByteTrans, Goto, TypeOK
    <2>2. regs = Tag(c, built[c])
      BY <1>1, <2>1 DEF Turn
    <2>3. Turn(c)'
      BY <1>1, <1>2, <2>1, <2>2 DEF Turn, BeforeReset, Tag
    <2> QED
      BY <1>1, <1>2, <2>1, <2>3, GoOn DEF Places, BeforeReset
  <1> QED
    BY <1>3, <1>4

LEMMA PollSimpleTurns ==
  ASSUME TInv, alone, Turns, NEW c \in Clients, PollSimple(c)
  PROVE  Turns'
  <1>1. TypeOK /\ Turn(c) /\ InLoop(c) /\ pc[c] = "pollsimple" /\ ~sgen /\ res[c] = "none"
          /\ (eng = "idle" => ran[c] = Ran(built[c] + 1))
          /\ kind[c] \in Chunked \cup {"pl2pl"}
          /\ \A d \in Clients : d # c => pc[d] = "idle"
    BY DEF TInv, Turns, Turn, InLoop, PollSimple
  <1>2. UNCHANGED <<built, buf, memVars>>
    BY DEF PollSimple
  <1>3. CASE Reset /\ Return(c, "etx")
    BY <1>1, <1>2, <1>3, FailIdle DEF Reset
  <1>4. CASE eng = "idle" /\ Reset /\ Copied(c)
    <2>1. eng' = "idle" /\ ~sgen' /\ ran' = ran /\ ran[c] = Ran(built[c] + 1)
      BY <1>1, <1>4 DEF Reset
    <2>2. CASE kind[c] \in Chunked
      <3>1. Goto(c, "next") /\ pc'[c] = "next" /\ UNCHANGED <<kind, len, res>>
              /\ \A d \in Clients : d # c => pc'[d] = pc[d]
        BY <1>1, <1>4, <2>2 DEF Copied, Goto, callVars, TypeOK
      <3>2. Turn(c)'
        BY <1>1, <1>2, <2>1, <2>2, <3>1 DEF Turn, BeforeReset
      <3> QED
        BY <1>1, <1>2, <2>1, <3>1, <3>2, GoOn DEF Places, BeforeReset
    <2>3. CASE kind[c] = "pl2pl"
      <3>1. pc'[c] = "idle" /\ UNCHANGED <<kind, len>>
              /\ \A d \in Clients : d # c => pc'[d] = pc[d] /\ res'[d] = res[d]
        BY <1>1, <1>4, <2>3 DEF Copied, Return, Chunked, TypeOK
      <3>2. ran[c] = Ran(len[c]) /\ ~buf[c]
        <4>1. built[c] = 0 /\ len[c] = 1
          BY <1>1, <2>3 DEF InLoop, Last, TypeOK
        <4> QED
          BY <1>1, <2>1, <2>3, <4>1 DEF Turn, Chunked
      <3>3. Frame(c) /\ Turn(c)'
        BY <1>2, <2>1, <3>1, <3>2 DEF Frame, Turn, BeforeReset
      <3> QED
        BY <1>1, <2>1, <3>3, TurnSuffices, IdleRests
    <2> QED
      BY <1>1, <2>2, <2>3
  <1>5. CASE PollAgain(c, "pollsimple") /\ UNCHANGED engVars
    <2>1. Goto(c, "pollsimple") /\ pc'[c] = pc[c] /\ \A d \in Clients : d # c => pc'[d] = pc[d]
      BY <1>1, <1>5 DEF PollAgain, Goto, TypeOK
    <2>2. UNCHANGED <<kind, job, len, res, eng, sgen, regs, ran>>
      BY <1>5, <2>1 DEF Goto, callVars, engVars
    <2>3. Turn(c)'
      BY <1>1, <1>2, <2>1, <2>2 DEF Turn, BeforeReset, Tag
    <2> QED
      BY <1>1, <1>2, <2>1, <2>2, <2>3, GoOn DEF Places, BeforeReset
  <1> QED
    BY <1>3, <1>4, <1>5 DEF PollSimple

(***************************************************************************)
(* A step of the engine.                                                   *)
(***************************************************************************)
LEMMA RanAppend ==
  ASSUME NEW n \in Nat
  PROVE  Append(Ran(n), n) = Ran(n + 1)
  <1>1. Ran(n) \in Seq(Nat) /\ Len(Ran(n)) = n
    BY DEF Ran
  <1> QED
    BY <1>1 DEF Ran

\* Who is at work when the engine executes: the call past its reset, whose tag it
\* then is, or nobody.
LEMMA AtWork ==
  ASSUME TInv, alone, Turns, eng # "idle"
  PROVE  \/ \A c \in Clients : pc[c] \in BeforeReset
         \/ \E c \in Clients : /\ pc[c] \in {"pollsr", "polldesc", "pollsimple"}
                               /\ \A d \in Clients : d # c => pc[d] = "idle"
  <1> SUFFICES ASSUME NEW c \in Clients, pc[c] \notin BeforeReset
               PROVE  /\ pc[c] \in {"pollsr", "polldesc", "pollsimple"}
                      /\ \A d \in Clients : d # c => pc[d] = "idle"
    OBVIOUS
  <1>1. Turn(c) /\ pc[c] \in Places /\ pc[c] # "idle"
    BY DEF Turns, TInv, TypeOK, BeforeReset
  <1> QED
    BY <1>1 DEF Turn

\* The engine executes what has been left over: nobody who counts on anything
\* has his descriptors executed again.
LEMMA LeftTurns ==
  ASSUME TInv, alone, Turns, \A c \in Clients : pc[c] \in BeforeReset,
         NEW t \in Pending, Executes(t), eng' \in {"idle", "sg"},
         UNCHANGED <<pc, kind, job, len, res, built, buf, isa, desc, tail, regs>>,
         eng' = "sg" => eng = "sg" /\ cur' = cur + 1 /\ cur' <= tail,
         eng = "sg"
  PROVE  Turns'
  <1>1. Left(t) /\ \A x \in Pending : Left(x)
    BY DEF Turns, Resting
  <1>2. ASSUME NEW d \in Clients PROVE Turn(d)'
    <2>1. Turn(d) /\ pc[d] \in BeforeReset
      BY DEF Turns
    <2>2. res[d] # "etx" => ran'[d] = ran[d]
      BY <1>1 DEF Executes, Left
    <2>3. Built(d, built[d])' <=> Built(d, built[d])
      BY DEF Built, Tag
    <2>4. Built(d, len[d])' <=> Built(d, len[d])
      BY DEF Built, Tag
    <2> QED
      BY <2>1, <2>2, <2>3, <2>4 DEF Turn, BeforeReset
  <1>3. Resting'
    <2>1. cur \in Int /\ tail \in Int
      BY DEF TInv, TypeOK, Index
    <2>2. \A x \in Pending' : x \in Pending
      BY <2>1 DEF Pending
    <2>3. ASSUME NEW x \in Pending' PROVE Left(x)'
      BY <1>1, <2>2, <2>3 DEF Left
    <2> QED
      BY <2>3 DEF Resting
  <1> QED
    BY <1>2, <1>3 DEF Turns

\* The engine executes a descriptor or a copy of the call at work.
LEMMA OwnTurns ==
  ASSUME TInv, alone, Turns, NEW c \in Clients,
         pc[c] \in {"pollsr", "polldesc", "pollsimple"},
         \A d \in Clients : d # c => pc[d] = "idle",
         NEW n \in Index, ran[c] = Ran(n), Executes(Tag(c, n)),
         UNCHANGED <<pc, kind, job, len, res, built, buf>>,
         ran'[c] = Ran(n + 1) => Turn(c)'
  PROVE  Turns'
  <1>1. ran'[c] = Append(ran[c], n) /\ \A d \in Clients : d # c => ran'[d] = ran[d]
    BY DEF Executes, Tag
  <1>2. ran'[c] = Ran(n + 1)
    <2>1. n \in Nat
      BY DEF Index
    <2>2. Append(Ran(n), n) = Ran(n + 1)
      BY <2>1, RanAppend
    <2> QED
      BY <1>1, <2>2
  <1>3. Frame(c)
    BY <1>1 DEF Frame
  <1> QED
    BY <1>2, <1>3, TurnSuffices, PastRests DEF BeforeReset

LEMMA EngDescTurns ==
  ASSUME TInv, alone, Turns, EngDesc,
         UNCHANGED <<pc, callVars, built, buf, polls, memVars>>
  PROVE  Turns'
  <1>1. TypeOK /\ cur \in Nat /\ tail \in Nat /\ cur \in Index
          /\ eng = "sg" /\ Executes(desc[cur])
    BY DEF TInv, TypeOK, EngDesc, Index
  <1>2. UNCHANGED <<kind, job, len, res, isa, desc, sgen, tail, regs>>
    BY DEF EngDesc, callVars, memVars
  <1>3. \/ cur = tail /\ eng' = "idle" /\ cur' = cur
        \/ cur # tail /\ eng' = "sg" /\ cur' = cur + 1
    BY <1>1 DEF EngDesc
  <1>4. CASE \A c \in Clients : pc[c] \in BeforeReset
    <2>1. cur <= tail
      BY <1>1, <1>4 DEF Turns, Resting
    <2>2. desc[cur] \in Pending
      BY <1>1, <2>1 DEF Pending
    <2> QED
      BY <1>1, <1>2, <1>3, <1>4, <2>1, <2>2, LeftTurns
  <1>5. ASSUME NEW c \in Clients, pc[c] \in {"pollsr", "polldesc", "pollsimple"},
               \A d \in Clients : d # c => pc[d] = "idle"
        PROVE  Turns'
    <2>1. Turn(c) /\ InLoop(c) /\ Last(c) \in Index /\ len[c] = Last(c) + 1
      BY LastIndex DEF Turns, TInv, Last, TypeOK
    <2>2. pc[c] \in {"pollsr", "polldesc"} /\ Loaded(c) /\ tail = Last(c)
            /\ cur <= tail /\ ran[c] = Ran(cur) /\ res[c] = "none" /\ kind[c] = "sg"
      BY <1>1, <1>5, <2>1 DEF Turn, InLoop
    <2>3. desc[cur] = Tag(c, cur) /\ ~compl[Last(c)] /\ ~buf[c]
      BY <1>1, <1>5, <2>1, <2>2 DEF Loaded, Turn, Chunked
    <2>4. Loaded(c)' /\ Last(c)' = Last(c)
      BY <1>2, <2>2 DEF Loaded, Last, Tag
    <2>5. cur # tail => ~compl'[Last(c)]
      <3>1. compl' = [compl EXCEPT ![cur] = TRUE]
        BY DEF EngDesc
      <3> QED
        BY <1>1, <2>1, <2>2, <2>3, <3>1, Zenon DEF TypeOK
    <2>6. ASSUME ran'[c] = Ran(cur + 1) PROVE Turn(c)'
      <3>1. pc'[c] \in {"pollsr", "polldesc"} /\ res'[c] = "none"
              /\ \A d \in Clients : d # c => pc'[d] = "idle"
        BY <1>2, <1>5, <2>2
      <3>2. CASE cur = tail
        BY <1>2, <1>3, <2>1, <2>2, <2>3, <2>4, <2>6, <3>1, <3>2 DEF Turn, BeforeReset
      <3>3. CASE cur # tail
        <4>1. cur + 1 <= tail
          BY <1>1, <2>2, <3>3
        <4> QED
          BY <1>2, <1>3, <2>2, <2>3, <2>4, <2>5, <2>6, <3>1, <3>3, <4>1 DEF Turn, BeforeReset
      <3> QED
        BY <3>2, <3>3
    <2> QED
      BY <1>1, <1>2, <1>5, <2>2, <2>3, <2>6, OwnTurns
  <1> QED
    BY <1>1, <1>4, <1>5, AtWork

LEMMA EngCopyTurns ==
  ASSUME TInv, alone, Turns, EngCopy,
         UNCHANGED <<pc, callVars, built, buf, polls, memVars>>
  PROVE  Turns'
  <1>1. TypeOK /\ eng = "simple" /\ eng' = "idle" /\ Executes(regs)
    BY DEF TInv, EngCopy
  <1>2. UNCHANGED <<kind, job, len, res, sgen, regs>>
    BY DEF EngCopy, callVars
  <1>3. ~ \A c \in Clients : pc[c] \in BeforeReset
    BY <1>1 DEF Turns, Resting
  <1>4. PICK c \in Clients : /\ pc[c] \in {"pollsr", "polldesc", "pollsimple"}
                             /\ \A d \in Clients : d # c => pc[d] = "idle"
    BY <1>1, <1>3, AtWork
  <1>5. Turn(c) /\ InLoop(c)
    BY DEF Turns, TInv
  <1>6. pc[c] = "pollsimple" /\ ~sgen /\ regs = Tag(c, built[c]) /\ ran[c] = Ran(built[c])
          /\ res[c] = "none" /\ (kind[c] \notin Chunked => ~buf[c])
    BY <1>1, <1>4, <1>5 DEF Turn
  <1>7. built[c] \in Index
    BY <1>1, <1>5, <1>6 DEF InLoop, Last, TypeOK, Index
  <1>8. ASSUME ran'[c] = Ran(built[c] + 1) PROVE Turn(c)'
    BY <1>1, <1>2, <1>4, <1>6, <1>8 DEF Turn, BeforeReset, Tag
  <1> QED
    BY <1>1, <1>2, <1>4, <1>6, <1>7, <1>8, OwnTurns

LEMMA EngFailsTurns ==
  ASSUME TInv, alone, Turns, EngFails,
         UNCHANGED <<pc, callVars, built, buf, polls, memVars>>
  PROVE  Turns'
  <1>1. UNCHANGED <<kind, job, len, res, isa, desc, compl, sgen, cur, tail, regs, ran>>
          /\ eng \in {"sg", "simple"} /\ eng' = "failed"
    BY DEF EngFails, callVars, memVars
  <1>2. ASSUME NEW d \in Clients PROVE Turn(d)'
    <2>1. Turn(d) /\ pc[d] \in Places
      BY DEF Turns, TInv, TypeOK
    <2>2. (Loaded(d)' <=> Loaded(d)) /\ (Built(d, built[d])' <=> Built(d, built[d]))
            /\ (Built(d, len[d])' <=> Built(d, len[d])) /\ Last(d)' = Last(d)
      BY <1>1 DEF Loaded, Built, Last, Tag
    <2>3. pc[d] \in BeforeReset \cup {"pollsr", "polldesc", "pollsimple"}
      BY <1>1, <2>1 DEF Turn
    <2>4. CASE pc[d] \in BeforeReset
      BY <1>1, <2>1, <2>2, <2>4 DEF Turn, BeforeReset
    <2>5. CASE pc[d] \in {"pollsr", "polldesc"}
      BY <1>1, <2>1, <2>2, <2>5 DEF Turn, BeforeReset
    <2>6. CASE pc[d] = "pollsimple"
      BY <1>1, <2>1, <2>2, <2>6 DEF Turn, BeforeReset, Tag
    <2> QED
      BY <2>3, <2>4, <2>5, <2>6
  <1>3. Resting'
    BY <1>1 DEF Resting, Pending
  <1> QED
    BY <1>2, <1>3 DEF Turns

LEMMA NextIInv == IInv /\ [Next]_vars => IInv'
  <1> SUFFICES ASSUME IInv, [Next]_vars PROVE IInv'
    OBVIOUS
  <1>1. TInv /\ TInv'
    BY NextTInv DEF IInv
  <1>2. alone' = alone
    <2>1. CASE UNCHANGED vars
      BY <2>1 DEF vars, callVars
    <2>2. CASE Engine
      BY <2>2 DEF Engine, callVars
    <2>3. ASSUME NEW c \in Clients, Begin(c) \/ Step(c) PROVE alone' = alone
      <3>1. CASE Begin(c) \/ Build(c)
        BY <3>1 DEF Begin, Build, callVars
      <3>2. CASE Enter(c)
        BY <1>1, <3>2, EnterWhere DEF TInv, Goto, Return, callVars
      <3>3. CASE WaitIdle(c) \/ Copy(c) \/ Alloc(c) \/ Chunk(c) \/ NextChunk(c) \/ SgEnable(c)
                   \/ CurDesc(c) \/ TailDesc(c) \/ SetRegs(c) \/ ByteTrans(c)
        BY <3>3 DEF WaitIdle, Copy, Alloc, Chunk, NextChunk, SgEnable, CurDesc, TailDesc, SetRegs,
                    ByteTrans, PollAgain, Goto, Return, callVars
      <3>4. CASE PollSr(c) \/ PollDesc(c) \/ PollSimple(c)
        BY <3>4 DEF PollSr, PollDesc, PollSimple, Copied, PollAgain, Goto, Return, callVars
      <3> QED
        BY <2>3, <3>1, <3>2, <3>3, <3>4 DEF Step
    <2> QED
      BY <2>1, <2>2, <2>3 DEF Next
  <1>3. ASSUME alone PROVE Turns'
    <2>0. Turns
      BY <1>3 DEF IInv
    <2>1. CASE UNCHANGED vars
      <3>1. /\ UNCHANGED <<pc, kind, job, len, built, buf, res, isa, desc>>
            /\ UNCHANGED <<compl, eng, sgen, cur, tail, regs, ioc, ran>>
        BY <2>1 DEF vars, callVars, memVars, engVars
      <3>2. Resting' <=> Resting
        <4>1. /\ Pending' = Pending
              /\ \A t : Left(t)' <=> Left(t)
          BY <3>1 DEF Pending, Left
        <4> QED
          BY <3>1, <4>1 DEF Resting
      <3>3. ASSUME NEW d \in Clients PROVE Turn(d)' <=> Turn(d)
        <4>1. /\ \A n : Built(d, n)' <=> Built(d, n)
              /\ Loaded(d)' <=> Loaded(d)
              /\ Last(d)' = Last(d)
          BY <3>1 DEF Built, Loaded, Last, Tag
        <4> QED
          BY <3>1, <4>1 DEF Turn, Tag
      <3> QED
        BY <2>0, <3>2, <3>3 DEF Turns
    <2>2. CASE Engine
      BY <1>1, <1>3, <2>0, <2>2, EngDescTurns, EngCopyTurns, EngFailsTurns DEF Engine
    <2>3. ASSUME NEW c \in Clients, Begin(c) \/ Step(c) PROVE Turns'
      BY <1>1, <1>3, <2>0, <2>3, BeginTurns, BuildTurns, EnterTurns, WaitIdleTurns, CopyTurns,
         SgTurns, PollSrTurns, PollDescTurns, AllocChunkTurns, NextChunkTurns, RegsTurns,
         PollSimpleTurns DEF Step
    <2> QED
      BY <2>1, <2>2, <2>3 DEF Next
  <1> QED
    BY <1>1, <1>2, <1>3 DEF IInv

LEMMA Invariant == Spec => []IInv
  BY InitIInv, NextIInv, PTL DEF Spec

(***************************************************************************)
(* The theorems.                                                           *)
(***************************************************************************)
\* Clients, memory and engine are what their declarations say, whoever races
\* with whom: no loop of pl_dma_ioctl runs past its call's descriptors, chunks
\* or polls.
THEOREM TypeCorrect == Spec => []TypeOK
  <1>1. IInv => TypeOK
    BY DEF IInv, TInv
  <1> QED
    BY Invariant, <1>1, PTL

\* For callers in turns a DMA_START or a copy that returns SUCCESS was executed,
\* each descriptor or chunk once and in order, however the calls before it ended.
THEOREM DoneForCallersInTurns == Spec => []DoneInTurns
  <1>1. IInv => DoneInTurns
    <2> SUFFICES ASSUME IInv, alone, NEW c \in Clients, res[c] = "ok", kind[c] # "info"
                 PROVE  ran[c] = Ran(len[c]) /\ ~buf[c]
      BY DEF DoneInTurns, SuccessMeansDone, Ran
    <2> QED
      BY DEF IInv, Turns, Turn
  <1> QED
    BY Invariant, <1>1, PTL

\* The reset on entry of pl_dma_ioctl is enough for callers in turns: past it the
\* engine executes nothing of an earlier call.
THEOREM ResetLeavesNothing == Spec => []NothingLeftOver
  <1>1. IInv => NothingLeftOver
    <2> SUFFICES ASSUME IInv, alone, NEW c \in Clients, pc[c] \notin {"idle", "build", "enter"},
                        NEW t \in Pending
                 PROVE  t.owner = c /\ t.job = job[c]
      BY DEF NothingLeftOver
    <2>1. TypeOK /\ Turn(c) /\ InLoop(c) /\ pc[c] \in Places
      BY DEF IInv, TInv, TypeOK, Turns
    <2>2. eng \in {"sg", "simple"}
      BY DEF Pending
    <2>3. pc[c] \in {"pollsr", "polldesc", "pollsimple"}
      BY <2>1, <2>2 DEF Turn, BeforeReset
    <2>4. CASE pc[c] = "pollsimple"
      BY <2>1, <2>2, <2>4 DEF Turn, Pending, Tag
    <2>5. CASE pc[c] \in {"pollsr", "polldesc"}
      <3>1. eng = "sg" /\ Loaded(c) /\ tail = Last(c)
        BY <2>1, <2>2, <2>5 DEF Turn
      <3>2. PICK k \in cur..tail : t = desc[k]
        BY <3>1 DEF Pending
      <3>3. k \in Index /\ k <= Last(c)
        BY <2>1, <3>1, <3>2 DEF TypeOK, Index
      <3>4. t = Tag(c, k)
        BY <3>1, <3>2, <3>3 DEF Loaded
      <3> QED
        BY <3>4 DEF Tag
    <2> QED
      BY <2>3, <2>4, <2>5
  <1> QED
    BY Invariant, <1>1, PTL

\* When all calls of callers in turns have returned the engine is at rest, or
\* still at a DMA_START that was told -EDMA_TX after its last poll.
THEOREM NeverLeftUnattended == Spec => []NeverUnattended
  <1>1. IInv => NeverUnattended
    <2> SUFFICES ASSUME IInv, alone, \A c \in Clients : pc[c] = "idle"
                 PROVE  /\ eng # "simple"
                        /\ \A t \in Pending :
                             /\ t.owner \in Clients
                             /\ t.job = job[t.owner] => kind[t.owner] = "sg" /\ res[t.owner] = "etx"
                             /\ t.job < job[t.owner] => res[t.owner] = "eio"
      BY DEF NeverUnattended
    <2>1. TypeOK /\ eng # "simple" /\ \A t \in Pending : Left(t)
      BY DEF IInv, TInv, Turns, Resting, BeforeReset
    <2>2. ASSUME NEW t \in Pending PROVE t.job < job[t.owner] => t.job # job[t.owner]
      <3>1. t.owner \in Clients
        BY <2>1, <2>2 DEF Left
      <3>2. job[t.owner] \in Int
        BY <2>1, <3>1 DEF TypeOK
      <3> QED
        BY <3>2
    <2> QED
      BY <2>1, <2>2 DEF Left
  <1> QED
    BY Invariant, <1>1, PTL

==============================================================================
