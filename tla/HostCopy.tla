------------------------------- MODULE HostCopy -------------------------------
(***************************************************************************)
(* The copy commands of the host DMA device, x86 build: host_dma_ioctl and *)
(* dma_memcpy of src/drv_src/dma_fops_host_x86.c.                          *)
(*                                                                         *)
(* A copy goes in chunks through a bounce buffer; each chunk is one        *)
(* transfer of a dmaengine channel, whose callback completes the one       *)
(* completion that all callers share.  Nothing serialises the callers.     *)
(*                                                                         *)
(* Content is named by the unit of the source it came from.  The dmaengine *)
(* and the completion are the kernel's.                                    *)
(***************************************************************************)
EXTENDS Integers, FiniteSets

CONSTANTS
  Clients,    \* threads that use the device
  Channels,   \* the channels chan_filter accepts
  Chunk,      \* CPY_CHUNK_SIZE, in units
  Lengths,    \* the lengths of requests, in units
  MaxLength,  \* bound: the longest of them
  MaxCalls    \* bound: calls of all clients together

ASSUME ClientsAssumption  == IsFiniteSet(Clients)
ASSUME ChannelsAssumption == IsFiniteSet(Channels)
ASSUME ChunkAssumption    == Chunk \in Nat \ {0}
ASSUME LengthsAssumption  == MaxLength \in Nat /\ Lengths \subseteq 0..MaxLength
ASSUME MaxCallsAssumption == MaxCalls \in Nat

Kinds == {"HOST2HOST", "HOST2FPGA", "FPGA2HOST", "FPGA2FPGA", "H2H_ZCPY"}
FromUser == {"HOST2HOST", "HOST2FPGA"}
ToUser   == {"HOST2HOST", "FPGA2HOST"}

None  == -1
Units == 0..(MaxLength + Chunk)

VARIABLES
  pc,      \* where each client is: "idle", or the next step of its call
  kind, length, calls,   \* the call, and how many there have been
  i,       \* chunks copied so far
  res,     \* what the last call returned: "none", "ok", "err"
  tmp,     \* alloc_ptr: the source unit its content starts with
  out,     \* dst_ptr of a HOST2HOST, likewise
  dst,     \* the destination, unit by unit
  chan,    \* the channel requested, {} or {ch}
  tx,      \* its transfer: "none", "running", "complete", "error"
  free,    \* channels nobody has requested
  bufs,    \* coherent buffers allocated
  done,    \* compl.done
  queue,   \* compl.wait
  failed,  \* some call has failed
  alone    \* the clients take turns: no call begins while another runs

callVars == <<kind, length, calls>>
dataVars == <<tmp, out, dst>>
chanVars == <<chan, tx, free>>
complVars == <<done, queue>>
vars == <<pc, callVars, i, res, dataVars, chanVars, bufs, complVars, failed, alone>>

CopyLen(n)  == IF n > Chunk THEN Chunk ELSE n
NumChunk(n) == n \div Chunk + (IF n % Chunk # 0 THEN 1 ELSE 0)

\* One chunk's worth of content b, b + 1, ... at offset o: the last chunk is
\* copied at full length too.
Put(c, o, b) ==
  dst' = [dst EXCEPT ![c] = [u \in Units |->
            IF u \in o..(o + CopyLen(length[c]) - 1) /\ b # None THEN b + (u - o) ELSE @[u]]]

Offset(c) == i[c] * Chunk

\* DMA buffers of a call: alloc_ptr, and dst_ptr for a HOST2HOST.
Buffers(k) == IF k = "HOST2HOST" THEN 2 ELSE 1

Goto(c, where) == pc' = [pc EXCEPT ![c] = where] /\ UNCHANGED <<res, failed>>

Return(c, r) ==
  /\ pc'  = [pc EXCEPT ![c] = "idle"]
  /\ res' = [res EXCEPT ![c] = r]
  /\ failed' = (failed \/ r = "err")

\* Mutant: the error path frees dst_ptr as well, whichever command it was.
Error_FreesBoth(c) ==
  /\ Return(c, "err")
  /\ bufs' = IF kind[c] = "H2H_ZCPY" THEN bufs ELSE bufs - 2

\* goto error: alloc_ptr is freed; a HOST2HOST keeps its dst_ptr.  A H2H_ZCPY
\* returns without the goto.
Error(c) ==
  /\ Return(c, "err")
  /\ bufs' = IF kind[c] = "H2H_ZCPY" THEN bufs ELSE bufs - 1

FirstStep(k) == IF k \in FromUser THEN "in" ELSE "request"

Begin(c) ==
  /\ pc[c] = "idle" /\ calls < MaxCalls
  /\ alone => \A d \in Clients : pc[d] = "idle"
  /\ \E k \in Kinds, n \in Lengths :
       kind' = [kind EXCEPT ![c] = k] /\ length' = [length EXCEPT ![c] = n]
  /\ calls' = calls + 1
  /\ pc'    = [pc EXCEPT ![c] = "enter"]
  /\ i'     = [i EXCEPT ![c] = 0]
  /\ res'   = [res EXCEPT ![c] = "none"]
  /\ tmp'   = [tmp EXCEPT ![c] = None]
  /\ out'   = [out EXCEPT ![c] = None]
  /\ dst'   = [dst EXCEPT ![c] = [u \in Units |-> None]]
  /\ UNCHANGED <<chanVars, bufs, complVars, failed, alone>>

\* The arguments are copied, alloc_ptr is allocated, and only then are length
\* and pointers looked at.  The first disjunct is a failed copy_from_user, and
\* a length or pointer that the goto error refuses.
Enter(c) ==
  /\ pc[c] = "enter"
  /\ \/ Return(c, "err") /\ UNCHANGED bufs
     \/ /\ length[c] > 0
        /\ Goto(c, FirstStep(kind[c])) /\ bufs' = bufs + Buffers(kind[c])
     \/ /\ kind[c] = "H2H_ZCPY" /\ length[c] = 0
        /\ Return(c, "err") /\ bufs' = bufs + 1
  /\ UNCHANGED <<callVars, i, dataVars, chanVars, complVars>>

CopyIn(c) ==
  /\ pc[c] = "in"
  /\ \/ Goto(c, "request") /\ tmp' = [tmp EXCEPT ![c] = Offset(c)] /\ UNCHANGED bufs
     \/ Error(c) /\ UNCHANGED tmp
  /\ UNCHANGED <<callVars, i, out, dst, chanVars, complVars>>

(***************************************************************************)
(* dma_memcpy.                                                             *)
(***************************************************************************)
Request(c) ==
  /\ pc[c] = "request"
  /\ \/ \E ch \in free :
          /\ chan' = [chan EXCEPT ![c] = {ch}] /\ free' = free \ {ch}
          /\ Goto(c, "init") /\ UNCHANGED <<tx, bufs>>
     \/ free = {} /\ Error(c) /\ UNCHANGED chanVars
  /\ UNCHANGED <<callVars, i, dataVars, complVars>>

\* init_completion: whoever waits in the old queue is forgotten by it.
InitCompletion(c) ==
  /\ pc[c] = "init" /\ Goto(c, "submit")
  /\ done' = 0 /\ queue' = {}
  /\ UNCHANGED <<callVars, i, dataVars, chanVars, bufs>>

\* Mutant: the completion is initialised after the transfer has been started.
Submit_InitLate(c) ==
  /\ pc[c] = "submit"
  /\ \/ tx[c] = "none" /\ tx' = [tx EXCEPT ![c] = "running"]
          /\ Goto(c, "submit") /\ UNCHANGED <<done, queue>>
     \/ tx[c] # "none" /\ done' = 0 /\ queue' = {} /\ Goto(c, "wait") /\ UNCHANGED tx
  /\ UNCHANGED <<callVars, i, dataVars, chan, free, bufs>>

Submit(c) ==
  /\ pc[c] = "submit" /\ Goto(c, "wait")
  /\ tx' = [tx EXCEPT ![c] = "running"]
  /\ UNCHANGED <<callVars, i, dataVars, chan, free, bufs, complVars>>

\* wait_for_completion: take a completion, or sleep until complete() wakes one.
Wait(c) ==
  /\ pc[c] = "wait"
  /\ \/ done > 0 /\ done' = done - 1 /\ Goto(c, "status") /\ UNCHANGED queue
     \/ done = 0 /\ queue' = queue \cup {c} /\ Goto(c, "asleep") /\ UNCHANGED done
  /\ UNCHANGED <<callVars, i, dataVars, chanVars, bufs>>

Wake(c) ==
  /\ pc[c] = "asleep" /\ c \in queue /\ done > 0
  /\ done' = done - 1 /\ queue' = queue \ {c} /\ Goto(c, "status")
  /\ UNCHANGED <<callVars, i, dataVars, chanVars, bufs>>

\* The next chunk, or the end of the copy.
Advance(c) ==
  IF kind[c] # "H2H_ZCPY" /\ i[c] + 1 < NumChunk(length[c])
  THEN i' = [i EXCEPT ![c] = @ + 1] /\ Goto(c, FirstStep(kind[c])) /\ UNCHANGED bufs
  ELSE UNCHANGED i /\ Return(c, "ok") /\ bufs' = bufs - Buffers(kind[c])

Release(c) ==
  free' = free \cup chan[c] /\ chan' = [chan EXCEPT ![c] = {}] /\ tx' = [tx EXCEPT ![c] = "none"]

\* Mutants: the status of the transfer is not asked for; the channel is kept.
Status_Unasked(c) ==
  /\ pc[c] = "status" /\ Release(c)
  /\ IF kind[c] \in ToUser THEN Goto(c, "out") /\ UNCHANGED <<i, bufs>> ELSE Advance(c)
  /\ UNCHANGED <<callVars, dataVars, complVars>>

Status_KeepChannel(c) ==
  /\ pc[c] = "status"
  /\ chan' = [chan EXCEPT ![c] = {}] /\ tx' = [tx EXCEPT ![c] = "none"] /\ UNCHANGED free
  /\ \/ /\ tx[c] = "complete"
        /\ IF kind[c] \in ToUser THEN Goto(c, "out") /\ UNCHANGED <<i, bufs>> ELSE Advance(c)
     \/ /\ tx[c] # "complete" /\ Error(c) /\ UNCHANGED i
  /\ UNCHANGED <<callVars, dataVars, complVars>>

\* dma_async_is_tx_complete asks about the caller's own transfer.  Anything but
\* DMA_COMPLETE terminates it, and the channel is not released.
Status(c) ==
  /\ pc[c] = "status"
  /\ \/ /\ tx[c] = "complete" /\ Release(c)
        /\ IF kind[c] \in ToUser THEN Goto(c, "out") /\ UNCHANGED <<i, bufs>> ELSE Advance(c)
     \/ /\ tx[c] # "complete" /\ Error(c) /\ UNCHANGED <<i, free>>
        /\ chan' = [chan EXCEPT ![c] = {}] /\ tx' = [tx EXCEPT ![c] = "none"]
  /\ UNCHANGED <<callVars, dataVars, complVars>>

CopyOut(c) ==
  /\ pc[c] = "out"
  /\ \/ Put(c, Offset(c), IF kind[c] = "HOST2HOST" THEN out[c] ELSE tmp[c]) /\ Advance(c)
     \/ Error(c) /\ UNCHANGED <<i, dst>>
  /\ UNCHANGED <<callVars, tmp, out, chanVars, complVars>>

(***************************************************************************)
(* The dmaengine: a transfer ends well or with an error, and its callback  *)
(* completes the shared completion.                                        *)
(***************************************************************************)
Moves(c) ==
  CASE kind[c] = "HOST2HOST" -> out' = [out EXCEPT ![c] = tmp[c]] /\ UNCHANGED <<tmp, dst>>
    [] kind[c] = "HOST2FPGA" -> Put(c, Offset(c), tmp[c]) /\ UNCHANGED <<tmp, out>>
    [] kind[c] = "FPGA2HOST" -> tmp' = [tmp EXCEPT ![c] = Offset(c)] /\ UNCHANGED <<out, dst>>
    [] kind[c] = "FPGA2FPGA" -> Put(c, Offset(c), Offset(c)) /\ UNCHANGED <<tmp, out>>
    [] kind[c] = "H2H_ZCPY"  -> UNCHANGED dataVars

TxEnds(c) ==
  /\ tx[c] = "running"
  /\ \/ tx' = [tx EXCEPT ![c] = "complete"] /\ Moves(c)
     \/ tx' = [tx EXCEPT ![c] = "error"] /\ UNCHANGED dataVars
  /\ done' = done + 1
  /\ UNCHANGED <<pc, callVars, i, res, chan, free, bufs, queue, failed, alone>>

Init ==
  /\ pc     = [c \in Clients |-> "idle"]
  /\ kind   = [c \in Clients |-> "HOST2HOST"]
  /\ length = [c \in Clients |-> 0]
  /\ calls  = 0
  /\ i      = [c \in Clients |-> 0]
  /\ res    = [c \in Clients |-> "none"]
  /\ tmp    = [c \in Clients |-> None]
  /\ out    = [c \in Clients |-> None]
  /\ dst    = [c \in Clients |-> [u \in Units |-> None]]
  /\ chan   = [c \in Clients |-> {}]
  /\ tx     = [c \in Clients |-> "none"]
  /\ free   = Channels
  /\ bufs   = 0
  /\ done   = 0 /\ queue = {}
  /\ failed = FALSE /\ alone \in BOOLEAN

\* The steps of a call once it has begun.
Step(c) ==
  /\ \/ Enter(c) \/ CopyIn(c) \/ Request(c) \/ InitCompletion(c) \/ Submit(c)
     \/ Wait(c) \/ Wake(c) \/ Status(c) \/ CopyOut(c)
  /\ UNCHANGED alone

Next == \E c \in Clients : Begin(c) \/ Step(c) \/ TxEnds(c)

Spec == Init /\ [][Next]_vars

\* A thread inside a call keeps running, and every transfer ends.
FairSpec == Spec /\ \A c \in Clients : WF_vars(Step(c)) /\ WF_vars(TxEnds(c))

-----------------------------------------------------------------------------
(***************************************************************************)
(* Properties.                                                             *)
(***************************************************************************)
\* Type invariant.
TypeOK ==
  /\ pc     \in [Clients -> {"idle", "enter", "in", "request", "init", "submit",
                             "wait", "asleep", "status", "out"}]
  /\ kind   \in [Clients -> Kinds]
  /\ length \in [Clients -> Nat]
  /\ calls  \in 0..MaxCalls
  /\ i      \in [Clients -> 0..NumChunk(MaxLength)]
  /\ res    \in [Clients -> {"none", "ok", "err"}]
  /\ tmp    \in [Clients -> Units \cup {None}]
  /\ out    \in [Clients -> Units \cup {None}]
  /\ dst    \in [Clients -> [Units -> Units \cup {None}]]
  /\ chan   \in [Clients -> SUBSET Channels]
  /\ tx     \in [Clients -> {"none", "running", "complete", "error"}]
  /\ free   \subseteq Channels
  /\ bufs   \in Nat
  /\ done   \in 0..Cardinality(Clients)
  /\ queue  \subseteq Clients
  /\ failed \in BOOLEAN /\ alone \in BOOLEAN

\* A copy that returns SUCCESS has put every unit of the source where it belongs,
\* even when a thread was woken by the completion of somebody else's transfer:
\* the status it asks for afterwards is that of its own.
SuccessMeansCopied ==
  \A c \in Clients :
    res[c] = "ok" /\ kind[c] # "H2H_ZCPY" => \A u \in 0..(length[c] - 1) : dst[c][u] = u

\* As long as no call has failed, whoever races with whom, every buffer and every
\* channel comes back: only the error paths lose any.
SuccessLosesNothing ==
  ~failed /\ (\A c \in Clients : pc[c] = "idle") => bufs = 0 /\ free = Channels

\* With callers in turn every copy returns, if every transfer ends: no completion
\* is lost between a transfer and the wait for it.
EveryCopyReturns ==
  \A c \in Clients : (alone /\ pc[c] # "idle") ~> pc[c] = "idle"

==============================================================================
