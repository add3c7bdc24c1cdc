-------------------------------- MODULE PlDma --------------------------------
(***************************************************************************)
(* The PL-DMA path of one FPGA device, polling build: client threads build *)
(* PISA descriptors (src/pim_math_src), pl_dma_ioctl copies them into the  *)
(* descriptor memory, starts the CDMA engine and polls it                  *)
(* (src/drv_src/dma_fops_pl.c), and the engine works by itself.            *)
(*                                                                         *)
(* The engine is not in the repository: it is modelled from the registers  *)
(* the driver reads and writes.  A soft reset stops it at once; a register *)
(* write it cannot take while it runs is lost; it may fail at any time.    *)
(*                                                                         *)
(* A descriptor is the tag of the call it was built for: client, number of *)
(* the call and position.  `ran' is what the engine did for the present    *)
(* call of each client.                                                    *)
(***************************************************************************)
EXTENDS Integers, Sequences

CONSTANTS
  Clients,    \* threads that use the device
  NoClient,   \* nobody: the owner of what no call has written
  Processes,  \* processes they belong to; a process has one pim_isa buffer
  ProcOf,     \* [Clients -> Processes]
  MaxDesc,    \* bound: descriptors of a call
  MaxPolls,   \* CDMA_MAX_POLLING
  MaxJobs,    \* bound: calls of a client that takes turns with the others
  MaxRaceJobs \* bound: calls of a client where they do not

ASSUME NoClientAssumption == NoClient \notin Clients
ASSUME ProcOfAssumption   == ProcOf \in [Clients -> Processes]
ASSUME MaxDescAssumption  == MaxDesc \in Nat \ {0}
ASSUME MaxPollsAssumption == MaxPolls \in Nat \ {0}
ASSUME MaxJobsAssumption  == MaxJobs \in Nat
ASSUME MaxRaceJobsAssumption == MaxRaceJobs \in Nat

Index == 0..(MaxDesc - 1)

\* DMA_START; MEMCPY_PL2PL; the copies in chunks MEMCPY_PL2PS and MEMCPY_PS2PL;
\* and the calls that only ask or set something.
Kinds == {"sg", "pl2pl", "pl2ps", "ps2pl", "info"}
Chunked == {"pl2ps", "ps2pl"}

VARIABLES
  alone,   \* the clients take turns: no call begins while another runs
  pc,      \* where each client is: "idle", or the next step of its call
  kind,    \* the call
  job,     \* its number
  len,     \* its number of descriptors (desc_idx + 1) or of chunks (num_chunk)
  built,   \* descriptors written to pim_isa so far; chunks copied so far (i)
  buf,     \* its dmabuf is allocated (one that outlives its call is lost)
  polls,   \* j, the polling counter
  res,     \* what the last call returned: "none", "ok", "eio", "etx", "efault"
  isa,     \* pim_isa of each process
  desc,    \* the descriptor memory: tags
  compl,   \*   and the completion bit of each status word
  eng,     \* the engine: "idle", "sg", "simple", "failed"
  sgen,    \* CR: scatter-gather enabled
  cur,     \* CURDESC: the descriptor it is at
  tail,    \* TAILDESC
  regs,    \* SA, DA: the tag of the transfer in them
  ioc,     \* SR: completion bit
  ran      \* positions of its present call the engine executed, in order

callVars == <<alone, kind, job, len, res>>
memVars  == <<isa, desc>>
engVars  == <<compl, eng, sgen, cur, tail, regs, ioc, ran>>
vars == <<pc, callVars, built, buf, polls, memVars, engVars>>

Tag(c, k) == [owner |-> c, job |-> job[c], k |-> k]
NoTag == [owner |-> NoClient, job |-> 0, k |-> 0]
Tags  == [owner : Clients \cup {NoClient}, job : Nat, k : Index]

Last(c) == len[c] - 1

(***************************************************************************)
(* The engine.                                                             *)
(***************************************************************************)
\* CR := RESET.
Reset ==
  /\ eng' = "idle" /\ sgen' = FALSE /\ ioc' = FALSE
  /\ UNCHANGED <<compl, cur, tail, regs, ran>>

\* It executes what tag t says.
Executes(t) ==
  ran' = [c \in Clients |-> IF t.owner = c /\ t.job = job[c] THEN Append(ran[c], t.k)
                                                             ELSE ran[c]]

EngDesc ==
  /\ eng = "sg" /\ cur \in Index
  /\ Executes(desc[cur])
  /\ compl' = [compl EXCEPT ![cur] = TRUE]
  /\ IF cur = tail THEN eng' = "idle" /\ ioc' = TRUE /\ cur' = cur
                   ELSE cur' = cur + 1 /\ UNCHANGED <<eng, ioc>>
  /\ UNCHANGED <<sgen, tail, regs>>

EngCopy ==
  /\ eng = "simple"
  /\ Executes(regs)
  /\ eng' = "idle" /\ ioc' = TRUE
  /\ UNCHANGED <<compl, sgen, cur, tail, regs>>

\* An error bit of SR: decode, slave or internal error, or a chain without end.
EngFails ==
  /\ eng \in {"sg", "simple"}
  /\ eng' = "failed"
  /\ UNCHANGED <<compl, sgen, cur, tail, regs, ioc, ran>>

Engine ==
  /\ EngDesc \/ EngCopy \/ EngFails
  /\ UNCHANGED <<pc, callVars, built, buf, polls, memVars>>

(***************************************************************************)
(* A client begins a call; a DMA_START first builds its descriptors in the *)
(* pim_isa buffer that the threads of a process share.                     *)
(***************************************************************************)
Begin(c) ==
  /\ pc[c] = "idle" /\ job[c] < IF alone THEN MaxJobs ELSE MaxRaceJobs
  /\ alone => \A d \in Clients : pc[d] = "idle"
  /\ \E k \in Kinds, n \in 1..MaxDesc :
       /\ k \in {"pl2pl", "info"} => n = 1
       /\ kind' = [kind EXCEPT ![c] = k]
       /\ len'  = [len EXCEPT ![c] = n]
       /\ pc'   = [pc EXCEPT ![c] = IF k = "sg" THEN "build" ELSE "enter"]
  /\ job'   = [job EXCEPT ![c] = @ + 1]
  /\ built' = [built EXCEPT ![c] = 0]
  /\ buf'   = [buf EXCEPT ![c] = FALSE]
  /\ polls' = [polls EXCEPT ![c] = 0]
  /\ res'   = [res EXCEPT ![c] = "none"]
  /\ ran'   = [ran EXCEPT ![c] = <<>>]
  /\ UNCHANGED <<alone, memVars, compl, eng, sgen, cur, tail, regs, ioc>>

\* One PIM_RD_INSTR or PIM_WR_INSTR.
Build(c) ==
  /\ pc[c] = "build"
  /\ isa'   = [isa EXCEPT ![ProcOf[c]][built[c]] = Tag(c, built[c])]
  /\ built' = [built EXCEPT ![c] = @ + 1]
  /\ pc'    = [pc EXCEPT ![c] = IF built[c] = Last(c) THEN "enter" ELSE "build"]
  /\ UNCHANGED <<callVars, buf, polls, desc, engVars>>

(***************************************************************************)
(* pl_dma_ioctl.                                                           *)
(***************************************************************************)
Goto(c, where) == pc' = [pc EXCEPT ![c] = where] /\ UNCHANGED callVars

Return(c, r) ==
  /\ pc'  = [pc EXCEPT ![c] = "idle"]
  /\ res' = [res EXCEPT ![c] = r]
  /\ UNCHANGED <<alone, kind, job, len>>

\* Mutant: the reset on entry is missing.
Enter_NoReset(c) ==
  /\ pc[c] = "enter"
  /\ \/ Return(c, "eio") /\ UNCHANGED engVars
     \/ /\ CASE kind[c] = "sg"     -> Goto(c, "waitidle")
             [] kind[c] = "pl2pl"  -> Goto(c, "regs")
             [] kind[c] \in Chunked -> Goto(c, "alloc")
             [] kind[c] = "info"   -> Return(c, "ok") \/ Return(c, "efault")
        /\ UNCHANGED engVars
  /\ UNCHANGED <<built, buf, polls, memVars>>

\* Every call resets the engine, even those that only ask for an address.  The
\* first disjunct is the failure of copy_from_user.
Enter(c) ==
  /\ pc[c] = "enter"
  /\ \/ Return(c, "eio") /\ UNCHANGED engVars
     \/ /\ CASE kind[c] = "sg"     -> Goto(c, "waitidle")
             [] kind[c] = "pl2pl"  -> Goto(c, "regs")
             [] kind[c] \in Chunked -> Goto(c, "alloc")
             [] kind[c] = "info"   -> Return(c, "ok") \/ Return(c, "efault")
        /\ Reset
  /\ UNCHANGED <<built, buf, polls, memVars>>

\* One more poll that found nothing; the last one ends the call.
PollAgain(c, where) ==
  /\ polls[c] + 1 < MaxPolls
  /\ polls' = [polls EXCEPT ![c] = @ + 1]
  /\ Goto(c, where)

OutOfPolls(c) == polls[c] + 1 >= MaxPolls /\ polls' = [polls EXCEPT ![c] = 0]

\* readl_poll_timeout on SR.IDLE.
WaitIdle(c) ==
  /\ pc[c] = "waitidle"
  /\ \/ eng = "idle" /\ Goto(c, "copy") /\ polls' = [polls EXCEPT ![c] = 0]
     \/ eng # "idle" /\ PollAgain(c, "waitidle")
     \/ eng # "idle" /\ OutOfPolls(c) /\ Return(c, "eio")
  /\ UNCHANGED <<built, buf, memVars, engVars>>

\* Mutant: desc_idx descriptors are copied instead of desc_idx + 1.
Copy_OneLess(c) ==
  /\ pc[c] = "copy"
  /\ \/ Return(c, "eio") /\ UNCHANGED <<desc, compl>>
     \/ /\ Goto(c, "sgen")
        /\ desc'  = [i \in Index |-> IF i < Last(c) THEN isa[ProcOf[c]][i] ELSE desc[i]]
        /\ compl' = [i \in Index |-> IF i < Last(c) THEN FALSE ELSE compl[i]]
  /\ UNCHANGED <<built, buf, polls, isa, eng, sgen, cur, tail, regs, ioc, ran>>

\* The descriptors, with a clear status word, replace what lies there.
Copy(c) ==
  /\ pc[c] = "copy"
  /\ \/ Return(c, "eio") /\ UNCHANGED <<desc, compl>>
     \/ /\ Goto(c, "sgen")
        /\ desc'  = [i \in Index |-> IF i <= Last(c) THEN isa[ProcOf[c]][i] ELSE desc[i]]
        /\ compl' = [i \in Index |-> IF i <= Last(c) THEN FALSE ELSE compl[i]]
  /\ UNCHANGED <<built, buf, polls, isa, eng, sgen, cur, tail, regs, ioc, ran>>

\* Mutant: desc_last, one past the last descriptor, goes to TAILDESC.
TailDesc_NotLast(c) ==
  /\ pc[c] = "tail" /\ Goto(c, "pollsr")
  /\ tail' = IF sgen THEN len[c] ELSE tail
  /\ eng'  = IF sgen /\ eng = "idle" THEN "sg" ELSE eng
  /\ UNCHANGED <<built, buf, polls, memVars, compl, sgen, cur, regs, ioc, ran>>

\* dma_sg_tx: CR := SG_EN and the completion bit cleared, then CURDESC, then
\* TAILDESC, which starts the engine or moves the end of its run.
SgEnable(c) ==
  /\ pc[c] = "sgen" /\ Goto(c, "curdesc")
  /\ sgen' = (sgen \/ eng = "idle") /\ ioc' = FALSE
  /\ UNCHANGED <<built, buf, polls, memVars, compl, eng, cur, tail, regs, ran>>

CurDesc(c) ==
  /\ pc[c] = "curdesc" /\ Goto(c, "tail")
  /\ cur' = IF eng = "idle" THEN 0 ELSE cur
  /\ UNCHANGED <<built, buf, polls, memVars, compl, eng, sgen, tail, regs, ioc, ran>>
TailDesc(c) ==
  /\ pc[c] = "tail" /\ Goto(c, "pollsr")
  /\ tail' = IF sgen THEN Last(c) ELSE tail
  /\ eng'  = IF sgen /\ eng = "idle" THEN "sg" ELSE eng
  /\ UNCHANGED <<built, buf, polls, memVars, compl, sgen, cur, regs, ioc, ran>>

\* wait_sg: first SR, then the status word of the last descriptor.
PollSr(c) ==
  /\ pc[c] = "pollsr"
  /\ \/ eng = "failed" /\ Reset /\ Return(c, "etx")
     \/ eng # "failed" /\ Goto(c, "polldesc") /\ UNCHANGED engVars
  /\ UNCHANGED <<built, buf, polls, memVars>>

\* Mutant: the polls are not counted.
PollDesc_Forever(c) ==
  /\ pc[c] = "polldesc"
  /\ \/ compl[Last(c)] /\ Reset /\ Return(c, "ok") /\ UNCHANGED polls
     \/ ~compl[Last(c)] /\ Goto(c, "pollsr") /\ UNCHANGED <<polls, engVars>>
  /\ UNCHANGED <<built, buf, memVars>>

\* Running out of polls leaves the engine as it is.
PollDesc(c) ==
  /\ pc[c] = "polldesc"
  /\ \/ compl[Last(c)] /\ Reset /\ Return(c, "ok") /\ UNCHANGED polls
     \/ ~compl[Last(c)] /\ PollAgain(c, "pollsr") /\ UNCHANGED engVars
     \/ ~compl[Last(c)] /\ OutOfPolls(c) /\ Return(c, "etx") /\ UNCHANGED engVars
  /\ UNCHANGED <<built, buf, memVars>>

\* A copy in chunks allocates its dmabuf; a PS2PL then fills it from the user's
\* memory for each chunk.
Alloc(c) ==
  /\ pc[c] = "alloc"
  /\ \/ Goto(c, "chunk") /\ buf' = [buf EXCEPT ![c] = TRUE]
     \/ Return(c, "efault") /\ UNCHANGED buf
  /\ UNCHANGED <<built, polls, memVars, engVars>>

Chunk(c) ==
  /\ pc[c] = "chunk"
  /\ \/ Goto(c, "regs")
     \/ kind[c] = "ps2pl" /\ Return(c, "efault")
  /\ UNCHANGED <<built, buf, polls, memVars, engVars>>

\* After a chunk (a PL2PS first copies it to the user's memory) comes the next
\* one, or the end of the loop, where dmabuf is freed.
NextChunk(c) ==
  /\ pc[c] = "next"
  /\ \/ built[c] < Last(c) /\ Goto(c, "chunk")
          /\ built' = [built EXCEPT ![c] = @ + 1] /\ UNCHANGED buf
     \/ built[c] = Last(c) /\ Return(c, "ok")
          /\ buf' = [buf EXCEPT ![c] = FALSE] /\ UNCHANGED built
     \/ kind[c] = "pl2ps" /\ Return(c, "efault") /\ UNCHANGED <<built, buf>>
  /\ UNCHANGED <<polls, memVars, engVars>>

\* dma_single_tx: the addresses, then BYTETRANS, which starts the engine.
SetRegs(c) ==
  /\ pc[c] = "regs" /\ Goto(c, "btt")
  /\ ioc' = FALSE
  /\ regs' = IF eng = "idle" THEN Tag(c, built[c]) ELSE regs
  /\ UNCHANGED <<built, buf, polls, memVars, compl, eng, sgen, cur, tail, ran>>

ByteTrans(c) ==
  /\ pc[c] = "btt" /\ Goto(c, "pollsimple")
  /\ eng' = IF ~sgen /\ eng = "idle" THEN "simple" ELSE eng
  /\ UNCHANGED <<built, buf, polls, memVars, compl, sgen, cur, tail, regs, ioc, ran>>

\* The transfer is done: the next chunk, or the end of a PL2PL.
Copied(c) ==
  /\ polls' = [polls EXCEPT ![c] = 0]
  /\ IF kind[c] \in Chunked THEN Goto(c, "next") ELSE Return(c, "ok")

\* Mutant: running out of polls leaves the engine as it is.
PollSimple_NoReset(c) ==
  /\ pc[c] = "pollsimple"
  /\ \/ eng = "failed" /\ Reset /\ Return(c, "etx") /\ UNCHANGED polls
     \/ eng = "idle" /\ ioc /\ Reset /\ Copied(c)
     \/ eng # "failed" /\ ~(eng = "idle" /\ ioc)
          /\ PollAgain(c, "pollsimple") /\ UNCHANGED engVars
     \/ eng # "failed" /\ ~(eng = "idle" /\ ioc)
          /\ OutOfPolls(c) /\ Return(c, "etx") /\ UNCHANGED engVars
  /\ UNCHANGED <<built, buf, memVars>>

\* wait_simple; running out of polls resets the engine.
PollSimple(c) ==
  /\ pc[c] = "pollsimple"
  /\ \/ eng = "failed" /\ Reset /\ Return(c, "etx") /\ UNCHANGED polls
     \/ eng = "idle" /\ ioc /\ Reset /\ Copied(c)
     \/ eng # "failed" /\ ~(eng = "idle" /\ ioc)
          /\ PollAgain(c, "pollsimple") /\ UNCHANGED engVars
     \/ eng # "failed" /\ ~(eng = "idle" /\ ioc)
          /\ OutOfPolls(c) /\ Return(c, "etx") /\ Reset
  /\ UNCHANGED <<built, buf, memVars>>

(***************************************************************************)
(* The system.                                                             *)
(***************************************************************************)
Init ==
  /\ alone \in BOOLEAN
  /\ pc    = [c \in Clients |-> "idle"]
  /\ kind  = [c \in Clients |-> "info"]
  /\ job   = [c \in Clients |-> 0]
  /\ len   = [c \in Clients |-> 1]
  /\ built = [c \in Clients |-> 0]
  /\ buf   = [c \in Clients |-> FALSE]
  /\ polls = [c \in Clients |-> 0]
  /\ res   = [c \in Clients |-> "none"]
  /\ isa   = [p \in Processes |-> [i \in Index |-> NoTag]]
  /\ desc  = [i \in Index |-> NoTag]
  /\ compl = [i \in Index |-> FALSE]
  /\ eng = "idle" /\ sgen = FALSE /\ cur = 0 /\ tail = 0 /\ regs = NoTag /\ ioc = FALSE
  /\ ran   = [c \in Clients |-> <<>>]

\* The steps of a call once it has begun.
Step(c) ==
  \/ Build(c) \/ Enter(c) \/ WaitIdle(c) \/ Copy(c)
  \/ Alloc(c) \/ Chunk(c) \/ NextChunk(c)
  \/ SgEnable(c) \/ CurDesc(c) \/ TailDesc(c) \/ PollSr(c) \/ PollDesc(c)
  \/ SetRegs(c) \/ ByteTrans(c) \/ PollSimple(c)

Next == Engine \/ \E c \in Clients : Begin(c) \/ Step(c)

Spec == Init /\ [][Next]_vars

\* A thread inside a call keeps running; nothing is asked of the engine.
FairSpec == Spec /\ \A c \in Clients : WF_vars(Step(c))

-----------------------------------------------------------------------------
(***************************************************************************)
(* Properties.                                                             *)
(***************************************************************************)
Places == {"idle", "build", "enter", "waitidle", "copy", "sgen", "curdesc", "tail",
           "pollsr", "polldesc", "alloc", "chunk", "next", "regs", "btt", "pollsimple"}

\* Type invariant of clients, memory and engine.
TypeOK ==
  /\ alone \in BOOLEAN
  /\ pc    \in [Clients -> Places]
  /\ kind  \in [Clients -> Kinds]
  /\ job   \in [Clients -> 0..(IF alone THEN MaxJobs ELSE MaxRaceJobs)]
  /\ len   \in [Clients -> 1..MaxDesc]
  /\ built \in [Clients -> 0..MaxDesc]
  /\ buf   \in [Clients -> BOOLEAN]
  /\ polls \in [Clients -> 0..(MaxPolls - 1)]
  /\ res   \in [Clients -> {"none", "ok", "eio", "etx", "efault"}]
  /\ isa   \in [Processes -> [Index -> Tags]]
  /\ desc  \in [Index -> Tags]
  /\ compl \in [Index -> BOOLEAN]
  /\ eng   \in {"idle", "sg", "simple", "failed"}
  /\ sgen  \in BOOLEAN
  /\ cur   \in 0..MaxDesc
  /\ tail  \in Index
  /\ regs  \in Tags
  /\ ioc   \in BOOLEAN
  /\ ran   \in [Clients -> Seq(Index)]

\* A DMA_START or a memory copy that returns SUCCESS was executed: the engine
\* has gone through all its descriptors or chunks, once each and in order, and
\* no dmabuf is left behind.  pim_math.h promises it to concurrent callers too,
\* with a lock that nobody takes.
SuccessMeansDone ==
  \A c \in Clients :
    res[c] = "ok" /\ kind[c] # "info" =>
      ran[c] = [i \in 1..len[c] |-> i - 1] /\ ~buf[c]

\* The same for callers that take turns, however the calls before it ended.
DoneInTurns == alone => SuccessMeansDone

\* What the engine would execute if it went on.
Pending == IF eng = "sg"     THEN {desc[i] : i \in cur..tail}
           ELSE IF eng = "simple" THEN {regs} ELSE {}

\* A call that has passed its reset has the engine for itself, if the callers take
\* turns: nothing left over from an earlier call, of its own client or another, is
\* executed any more.
NothingLeftOver ==
  alone => \A c \in Clients :
    pc[c] \notin {"idle", "build", "enter"} =>
      \A t \in Pending : t.owner = c /\ t.job = job[c]

\* When all calls of callers in turns have returned the engine is at rest, or it still runs the
\* descriptors of a DMA_START that was told -EDMA_TX after its last poll; it
\* never goes on behind the back of a call that succeeded or of a memory copy.
\* (Only a call that fails before the reset comes between the two.)
NeverUnattended ==
  alone /\ (\A c \in Clients : pc[c] = "idle") =>
    /\ eng # "simple"
    /\ \A t \in Pending :
         /\ t.owner \in Clients
         /\ t.job = job[t.owner] => kind[t.owner] = "sg" /\ res[t.owner] = "etx"
         /\ t.job < job[t.owner] => res[t.owner] = "eio"

\* Every call returns, whatever the engine and the other clients do.
EveryCallReturns ==
  \A c \in Clients : pc[c] # "idle" ~> pc[c] = "idle"

==============================================================================
