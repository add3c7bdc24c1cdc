# A verification of the multi-PIM software stack

The repository holds the host software of a multi-FPGA processing-in-memory
accelerator: a user library (`libpim.so`: memory allocator, instruction
builders, library glue), a kernel module (`pim_drv.ko`: memory mapping,
address translation, the driver of the DMA engine that runs PIM instructions,
host DMA), and a QDMA driver that carries the data between host and device,
taken over from its vendor and changed (`NEWTON`). The project's own code is
`multi_pim_sw_versal_sonic/src` and `include` (called `M/` below); the QDMA
driver is `xilinx-qdma/driver/src` (called `Q/` below, with `Q/libqdma`). The
XDMA driver, the tools, the micro-benchmarks and the test data are vendored or
generated and are not modelled.

The build that is modelled is the one the Makefiles make: x86, polling
(`INTR_ENABLE` undefined), `__PIM_MALLOC__` and `NEWTON` defined, PCCL and XDMA
left out. Of the QDMA driver's modes it is the polled one.

## 1. Inventory

| component | code | state it keeps | operations |
|---|---|---|---|
| PIM memory allocator | `M/src/mem_src/mpim_mem.c`, `mdrv_interface.c`, `pim_mem.h` | per device: list of mem_pools (2MB each: bit vector of 512 pages, `nfree_pages`, `curr_idx`, `large_mem_pool`, `alloc_size` per page), `curr_mem_pool`, bump pointer `total_size` | `mpim_malloc`, `mpim_free`, atexit handler, `multi_mmap_drv` |
| PL-DMA device | `M/src/drv_src/dma_fops_pl.c` | registers and descriptor memory of the CDMA engine | `pl_dma_ioctl` (start, copies, address queries), `wait_sg`, `wait_simple` |
| instruction buffer | `M/src/pim_math_src/pim_math.h`, `mdrv_interface.c` | `pim_isa`, one array per process and device | `PIM_RD_INSTR`, `PIM_WR_INSTR`, `mpim_exec`, `internalMemcpy`, open and close |
| descriptor builders | `M/src/pim_math_src/matmul.c`, `elewise.c`, `pmm_access.c` | loop indices only | `pim_gemm` ..., one descriptor per row, tile and huge page |
| host DMA device (x86) | `M/src/drv_src/dma_fops_host_x86.c` | one static completion, dmaengine channels, `alloc_cnt` and two zero-copy buffers | open, release, mmap, ioctl, `dma_memcpy` |
| host DMA device (ARM) | `M/src/drv_src/dma_fops_host_arm.c` | PS buffer | ioctl |
| probe and removal | `M/src/drv_src/dma_probe.c`, `pim_mem_probe.c`, `addr_probe.c`, `pim_drv_main.c`, `multi_dev_drv.c` | list of device nodes, character devices, mappings | init, probe, register, remove, exit |
| library life cycle | `mdrv_interface.c` of `mem_src`, `pim_math_src`, `qdma_src` | fds, mappings, atexit handlers | init, release, close |
| QDMA queue | `Q/cdev.c`, `Q/libqdma/libqdma_export.c`, `qdma_descq.c`, `qdma_thread.c`, `thread.c` | per queue: state, work list, pending list, ring of descriptors with `pidx`, `cidx`, `avail`, `credit`; per request its progress; completion threads | read and write, submit and wait, fill the ring, serve completions, start, stop |
| QDMA resources and functions | `Q/libqdma/qdma_access/qdma_resource_mgmt.c`, `qdma_mbox_protocol.c`, `Q/libqdma/qdma_mbox.c`, `qdma_device.c` | per device: free runs of queues, each function's run and counts; per function: its own idea of them, the FMAP register; mailbox lists | open, close, set_qmax, add and remove a queue; HELLO, BYE, QREQ, FMAP, QNOTIFY_ADD, QNOTIFY_DEL |
| PCCL | `M/src/pccl_src/comm.c` | none of its own | chunked exchanges between devices |

How they interact.  A program calls a builder, which asks `mVA2PA` (an ioctl of
the PL-DMA device) for addresses, fills `pim_isa` and calls `mpim_exec`
(`DMA_START`).  The driver copies the descriptors to descriptor memory, starts
the engine and polls it until the last descriptor is complete.  Operands live
in memory from `mpim_malloc`, which cuts the device memory, mapped once per
process, without asking the kernel again.  Copies between host and device go
through the host DMA device or the QDMA driver: `qdma_src/mdrv_interface.c` of
the library is one `pread` or `pwrite` on a queue's character device. Which
queues a function of the QDMA device has is decided by its physical function,
which the virtual ones ask through a hardware mailbox.

What is hard in it.

* Every lock is commented out, in the library and in the driver. The engine's
  registers, descriptor memory, `pim_isa`, the completion of the host DMA and
  the mem_pool list are all shared.
* A call that times out leaves the engine running (`wait_sg`), every ioctl
  resets the engine whoever is using it, and completion is read from memory
  that the previous call has written.
* The allocator keeps the same facts twice or three times (bit vector, count,
  search index, chain marks, `alloc_size`), with chains leaving the bit vectors
  alone, and everything hangs together only over long series of calls.
* Arithmetic at the edges: unsigned `curr_idx - 1`, `int size`, `desc_idx`
  against `desc_idx + 1`, last chunks, huge-page boundaries.
* Error paths that give back too little or too much.
* A QDMA transfer passes through two lists and a ring; what it is told depends on
  credits counted over all of them, and calls that time out, a stop of the queue
  and the completion thread all interfere. Only filling and thread look for
  completions: a missed wake-up is a call that hangs until its time-out.
* Four places hold the range of a QDMA function (the books of the device, the
  driver's copy twice, the FMAP register) and are brought up to date by separate
  messages, each of which may be late; a refused request must undo what it did to
  a free list that has been merged meanwhile.

`PROJECT.json` lists each of these at its line, with the properties that would
catch it going wrong.

## 2. What makes each component correct

* Allocator: allocations never overlap and lie in the device; the books balance
  over any series of calls; a free finds its allocation and touches nothing
  else; out-of-memory is noticed.
* PL-DMA: a call that returns SUCCESS was executed, entirely and once; what an
  earlier call left behind never runs in a later one; every call returns.
* Builders: the descriptors cover each operand once, and none crosses a huge page.
* Host DMA: a copy that returns success moved the bytes asked for; buffers and
  channels are given back; every call returns; zero-copy buffers outlive their
  mappings.
* Probe and removal: everything acquired is released exactly once on every path.
* Life cycle: fds and mappings are released once, after their last use.
* QDMA queue: what a call is told is true; a slot is not reused before the engine
  has read it; the engine never touches pages of a call that has returned; a call
  that has been answered returns.
* QDMA resources: no queue is in two hands or lost; books, drivers and hardware
  agree; a refused request leaves a function what it had; every command ends.
* PCCL: the chunks exchanged cover the buffers.

## 3. Modules

| module | what it is | status |
|---|---|---|
| `MemPool` | the allocator of one device | done |
| `PagePool` | what an allocator promises, the abstract specification `MemPool` implements | done |
| `MCMemPool` | TLC instances of `MemPool` | done |
| `MemPool_proofs` | TLAPS proofs about `MemPool` | done |
| `PlDma` | clients, instruction buffer, driver and engine of one device | done for the polling build |
| `MCPlDma` | TLC instances of `PlDma` | done |
| `HostCopy` | the copy commands of the host DMA device, x86 | done for the copies |
| `MCHostCopy` | TLC instances of `HostCopy` | done |
| `ZeroCopy` | open, mmap and release of the host DMA device, x86 | done |
| `MCZeroCopy` | TLC instance of `ZeroCopy` | done |
| `DrvLifecycle` | loading and unloading of the kernel module, x86 | done, without open files |
| `DrvLifecycle_proofs` | TLAPS proofs about `DrvLifecycle` | all its properties |
| `DescList` | the descriptor builders | done for those of the polling build |
| `MCDescList` | TLC instance of `DescList` | done |
| `QdmaXfer` | one memory-mapped QDMA queue: calls, ring, completion thread, engine | done for the polled mode |
| `CallQueue` | what such a queue promises its callers, the abstract specification `QdmaXfer` implements | done |
| `MCQdmaXfer` | TLC instance of `QdmaXfer` | done |
| `QdmaQueues` | the constants the next two share | done |
| `QdmaResource` | the resource manager: free list, entries, counts | done for one queue type |
| `QdmaVf` | the functions of a device, their mailbox and registers, over `QdmaResource` | done without resets |
| `MCQdmaVf` | TLC instance of `QdmaVf` | done |
| `QdmaVf_proofs` | TLAPS proofs about `QdmaResource` and `QdmaVf` | all their safety properties |
| `PlDma_proofs` | TLAPS proofs about `PlDma` | all its safety properties of callers in turns |
| `HostCopy_proofs` | TLAPS proofs about `HostCopy` | all its safety properties |
| `ZeroCopy_proofs` | TLAPS proofs about `ZeroCopy` | all its properties |
| `DescList_proofs` | TLAPS proofs about `DescList` | all its properties |
| `QdmaXfer_proofs` | TLAPS proofs about `QdmaXfer` | all its safety properties |

`PagePool` is the abstract specification of `MemPool`, `CallQueue` that of
`QdmaXfer`. `QdmaVf` takes
`QdmaResource` as an instance, each of whose operations is a part of one of its
actions, and is proved to implement it. The other modules stand beside each
other: the components share no state in one process but through calls, and each
module takes what it calls as given.

What could follow, the most important first:

1. The interrupt builds and modes of both drivers; function-level reset.
2. Open files while the kernel module is unloaded.

### 3.1 `MemPool`

State. mem_pools are numbered 1 to `npools` in list order (nothing unlinks one).
`base`, `used`, `nfree`, `cidx`, `large`, `asize` are `start_va`, `bit_vector`
(the set of pages marked '1'), `nfree_pages`, `curr_idx`, `large_mem_pool` and
`alloc_size` of each; `curr` is `curr_mem_pool`, `total` the driver's
`total_size` in huge pages, `live` what the callers hold. An address is a huge
page of the device and a page in it.

Actions. One for each way through `mpim_malloc`, chosen by the code's own
conditions, and the two ways through `mpim_free`:

| action | code |
|---|---|
| `MallocPages` | a mem_pool from `curr` or the head has the pages (`mpim_mem.c:345-380`, `_set_bit_vector`) |
| `MallocNewPool` | none has: `_multi_mem_pool_allocation`, append, pages from 0 |
| `MallocChain` | the walk from the tail finds enough free neighbours (275-306) |
| `MallocExtend` | the free end of the list is completed by `need_more` new ones (307-333) |
| `MallocFresh` | a whole new chain (334-339) |
| `Free` | `FreeChain` (426, 451-463) or `FreePages` (430-447), or one of its assertions |
| `Exit` | `_multi_real_free`, at any time |

Each new-pool path first meets the assertion of `multi_mmap_drv`; a failed
assertion ends the process (`status`). `AsInt` is the conversion of the byte
count to `int`. The first-call initialisation is `Init`: one free mem_pool that
is head, tail and current. Requests of any size in `Sizes`, frees of any live
allocation (callers do not free twice or with foreign pointers: that is the
contract of the interface). Memory exhaustion of the host (`malloc` of the
structs) is left out. `MemPool` is one caller at a time: with its locks commented
out the allocator has data races, which a model could only repeat.

`SecondRound` follows the code, which searches `curr_idx - 1` characters where
the comment above it (`mpim_mem.c:67`) says `[0:idx-1]`: a free run that ends at
`curr_idx - 1` is found by neither round and the mem_pool is passed over.

### 3.2 `PlDma`

State. Per client thread a program counter, the call (`kind`, `job`, `len`), the
polling counter and the result; per process `isa` (`pim_isa`); the descriptor
memory (`desc`, with the completion bit of each status word in `compl`); the
engine (`eng`, `sgen`, `cur`, `tail`, `regs`, `ioc`: the state behind SR, CR.SG_EN,
CURDESC, TAILDESC, SA/DA, SR.IOC). A descriptor or transfer is the tag of the
call it was made for; `ran` records what the engine did for each client's
present call.

Each register access, user copy or poll of `pl_dma_ioctl` that another thread or
the engine can come between is an action of its own: `Enter` (argument copy, and
the reset every command makes), `WaitIdle`, `Copy`, `SgEnable`, `CurDesc`,
`TailDesc`, `PollSr`, `PollDesc` for `DMA_START`; `SetRegs`, `ByteTrans`,
`PollSimple` for `MEMCPY_PL2PL` and for each chunk of `MEMCPY_PL2PS` and
`MEMCPY_PS2PL`, with `Alloc`, `Chunk`, `NextChunk` around it. User copies and
allocations may fail. `Build` writes one instruction to the buffer that all
threads of a process share. `alone`, chosen in `Init`, says whether the callers
take turns in this behaviour; properties that need it say so.

The engine is hardware. What is assumed of it is what the driver assumes: it
executes descriptors from CURDESC to TAILDESC in order and sets their completion
bits, it may stop with an error at any time, a soft reset stops it at once, and
a write to a register it cannot take while running is lost. Nothing is assumed
about its speed, in particular not that it ever finishes.

Left out: the data moved, addresses (so also where a PS2PL chunk lands), the
HPC/AIM status registers, and the interrupt build.

### 3.3 `HostCopy`

State. Per caller a program counter, the call (`kind`, `length`), the chunk
counter `i`, the result; the content of `alloc_ptr` (`tmp`), of the `dst_ptr` of a
HOST2HOST (`out`) and of the destination (`dst`); the channel and its transfer
(`chan`, `tx`). Shared: the channels nobody holds (`free`), the coherent buffers
allocated (`bufs`), and the one static completion (`done`, `queue`). Content is
named by the unit of the source it came from, so that a chunk copied to or from
the wrong place shows. `alone`, chosen in `Init`, says whether the callers take
turns in this behaviour.

| action | code |
|---|---|
| `Begin`, `Enter` | the ioctl is called; arguments copied, `alloc_ptr` (and `dst_ptr`) allocated, length and pointers refused |
| `CopyIn`, `CopyOut` | `copy_from_user` and `copy_to_user` of a chunk |
| `Request`, `InitCompletion`, `Submit`, `Wait`, `Wake`, `Status` | `dma_memcpy`, one action for each step another thread can come between |
| `Advance` | the end of the chunk loop, or its next turn |
| `Error` | `goto error`, and the H2H_ZCPY return that goes round it |
| `TxEnds` | the dmaengine: a transfer ends, well or not, and its callback completes the completion |

`init_completion` forgets whoever sleeps in the old queue, as the kernel's does.
Channels and the dmaengine are the kernel's, modelled from how the driver uses
them.

Left out: a failed allocation of a bounce buffer, a `device_prep_dma_memcpy` that
returns NULL (the code dereferences it before it tests it), a failed submission,
and unknown commands.

### 3.4 `ZeroCopy`

State. `open` are the open files of the device, each of its own process, `maps`
what each has mapped; `cnt`, `ptr`, `len`, `handle` are `alloc_cnt`,
`alloc_ptr0/1`, `alloc_len0/1` and `dma_handle0/1`; `memory` the DMA buffers
allocated, with their lengths. `shared`, `unmapped` and `badfree` remember that
two files were open at once, that an allocated buffer could not be mapped, and
that a buffer was freed wrongly.

| action | code |
|---|---|
| `Open` | `host_dma_open` |
| `TooLong`, `NoMemory`, `MapFails`, `Mmap` | the four ways through `host_dma_mmap` |
| `Munmap` | the kernel's, of one mapping |
| `Release` | `host_dma_release` |

A call is one step. A mapping holds its file, so `Release` waits for the last
`Munmap`. The policy modelled is the one the header sets (`DMA_COHERENT`,
`dma_lib_kern.h:36`).

### 3.5 `DrvLifecycle`

State. `pc` and `at` are the place in `pim_drv_init_x86` or `pim_dma_exit_x86`,
and the node its loop has come to (the list has the newest node first); `held`
the resources `<<kind, owner>>` the kernel has given; `fields` the pointers that
were assigned in each node, `classes` the static class pointers; `failed` the
requests that were refused; `fault` says that something was released that was
not held, or that an unassigned pointer was used. What `kmalloc` leaves in a node
is garbage, so an unassigned field reads as NULL or not (`ReleaseIf`).

Actions. One for each request, granted or refused: `FindDevices`, `EnableDevice`,
`MapMem` (`probe_pim_mem_x86`), `RegisterClass`, `RegisterRegion`,
`RegisterDevice`, `AddCdev` (`register_pim_mem`, `register_pl_drv`, `register_addr_drv`, `register_host_drv`), `AllocCdma`,
`MapRegisters`, `SetAddressMap` (`probe_pl_dma_x86`), `ProbeHostDma`. Then
`Unload` and the removal in the code's order: `DisableDevice`, `RemoveMemDevice`,
`UnmapMem`, `UnmapRegisters`, `RemovePlDevice`, `RemoveClass`, `RemoveSingle`.
`class_create` and `device_create` return an error pointer and not NULL, so the
code's tests do not see them fail; `pim_drv_init_x86` ignores what the functions
return and goes on, and so does the model (`Continue`). Following a NULL or error
pointer ends the load (`"oops"`).

Left out: files open while the module is unloaded, a machine without devices,
the ARM branch, what is written to registers and to the address map.

### 3.6 `DescList`

State. `pc`, the arguments `call`, the loop variables `p`, `q`, `r`, `cntA`, `cntB`,
`cntC`, the address `base` last asked for of each operand, `codes` (`code_idx`),
and `list`, the descriptors written to `pim_isa`: the operand, the offset its loop
computes, the address it is given, its length. Lengths are in elements; operands
are contiguous in the device, so an address is what is added to the operand's
start.

| action | code |
|---|---|
| `Call`, `Refuse` | entry of a builder; the dispatch of the fused ones by `p_size`, and their check of `fused_op` |
| `Tile`, `Multiply`, `Store` | the loops of `_gemm_silent`, `_matmul_fusion_silent`, `_matmul_decoupled`, `_matmul_fusion_decoupled`: what is read before the inner loop, in it, and the output after it |
| `BiasRow` | a row of `_bias_op` |
| `Elewise` | a batch of `_elewise`, with the lines of code it fetches |
| `Exec` | `pim_exec` |

`Refresh` is the `if (offset % HUGE_PAGE_SIZE == 0) ... VA2PA` before each operand,
`Place` the sum each builder makes, with the offset or with the offset modulo
the page (`Modulo`).

Left out: opcodes and attribute words but for the descriptor that carries them,
the hardware's meaning of a length (the engine broadcasts a part of A), the AIM
registers, `_matmul_silent` and `_gemm_decoupled` (see section 6).

### 3.7 `QdmaXfer`

State. `pc` and `cb` are the calls: where each is in `cdev_gen_read_write` or
`qdma_request_submit`, and its `qdma_sgt_req_cb`, which lies on the call's stack.
`descq` is the queue as the driver sees it, with the code's names. `holder` and
`wrote` are the lock and `desc_written` while the ring is filled: this is the one
critical section in which the engine's progress matters, so it is several steps;
every other section of the queue's lock is one. `thp` is the completion thread,
`ctl` the netlink command that is running, `hw` the engine (ring, doorbell, index,
index written back), `executed` what it has done for each call, `expired` which
timers have run out so far.

| action | code |
|---|---|
| `Submit` | the buffer is mapped, the request put on the work list of an online queue (`libqdma_export.c:2712-2751`) |
| `ProcBegin`, `Fill`, `Ring`, `Wake` | `descq_mm_proc_request`, run by calls and by the thread: completions first; descriptors for one request, as many as fit; the doorbell and one more poll; the wake-up after the lock |
| `CmplStatus` (within them) | `descq_mm_n_h2c_cmpl_status`, `qdma_sgt_req_done`: the slots that come back with the index written back (`Completed`), the credit they make (`Credit`), the requests at the head of the pending list that it pays for (`Owed`, `PaidFor`), and what is left taken off the next one (`Pay`) |
| `WaitDone`, `WaitExpired` | `qdma_request_wait_for_cmpl`, with the answer or without |
| `Look`, `Woken`, `Idle` | `xthread_main` |
| `Start`, `Stop`, `StopWaited`, `StopFinish`, `StopDetach`, `StopUnlist`, `StopClear` | `qdma_queue_start` and `qdma_queue_stop`, the latter with all the places another actor can come between |
| `Execute`, `WriteBack` | the engine: descriptors in order up to the doorbell; the index some time later |

A request is a whole call of one or two pages, a descriptor a page. The doorbell
that `CmplStatus` writes again carries the index the engine has, so it is no
step. `proc_req_running` is set and cleared inside one section of the lock (but
for a failing register write), so it never keeps anybody out. A queue stopped
with requests in its lists leaves them linked although their calls return: the
next start would follow pointers into dead stacks, so `Start` asks for empty
lists, and behaviours end there (hazard `libqdma_export.c:2155`).

`CallQueue` knows calls that wait in a line, pages moved, and calls told of success;
no ring, credit or lock. Calls join at the end of the line, pages are moved for the
first call that has some left, calls at the head are answered once all their pages
are moved, and a stop empties the line. `Promise` maps the line to the pending list
followed by the work list while the queue is online (`Waiting`), the pages moved to
`executed` and the calls told of success to those whose `done` is set without an error
(`Successes`). `ServedInOrder` says that `QdmaXfer` implements it as long as no timer
runs out; from then on (`expired` is never emptied) it says nothing.

Left out: streaming queues, interrupt modes, asynchronous requests (`fp_done`),
the `replace` path of NEWTON, a failing `sgl_map`, register writes that fail.

### 3.8 `QdmaResource` and `QdmaVf`

`QdmaResource` has the books of a device: `free` (the free list, which the code
keeps in the order of its bases, as a set of runs), `dev` (each function's entry:
is it there, its range, its count of active queues), `active_qcnt`, and `nomem`,
whether an allocation has failed. `Submit`, `Fit`, `GetNode`, `Restore` and
`Request` are the functions of `qdma_resource_mgmt.c` with all their outcomes: a
node that cannot be had may leave a range with its function, or a list that is
already split in two. Of the three queue types one is counted.

`QdmaVf` puts a physical function and virtual functions over these books. `drv` is
each function's driver: where its command is, its copy of the range (`conf`),
whether FMAP was written (`init_qrange`), its enabled queues, what a cleanup leads
to. `fmap` is the FMAP register of each function, `up` and `down` the messages of
each virtual function, `expired` how many waits ended without an answer.

| action | code |
|---|---|
| `PfOpen`, `PfClose`, `PfClosed` | `qdma_device_open` and `qdma_device_close` of the physical function, with a probe that fails after its entry was made |
| `PfSetQmax`, `PfAddQueue`, `PfRemoveQueue`, `Reinit` | `qdma_set_qmax` (books, cleanup, `qdma_device_init`), `qdma_queue_add`, `qdma_queue_remove` |
| `ServeHello`, `ServeQreq`, `ServeFmap`, `ServeAdd`, `ServeDel`, `ServeBye` | the cases of `qdma_mbox_pf_rcv_msg_handler` |
| `VfOpen`, `VfSetQmax`, `VfAddQueue`, `VfRemoveQueue`, `VfClose`, `VfSweep`, `VfClosed` | the commands of a virtual function, each up to the message it sends |
| `VfReceive` | `mbox_rcv_one_msg`: an answer to the operation that is waited for, or one that is dropped |
| `VfExpire` | `qdma_mbox_msg_send` times out; the request is taken back, or is already on its way |

The mailbox's work queue is single-threaded (`qdma_mbox.c:526`), so serving a
message is one step; netlink runs one command of a function at a time. Messages
keep their order but may be answered after the wait for them is over.

Left out: function-level reset and the removal of a physical function under its
virtual ones, messages about queue contexts and the CSR exchange (they change none
of this state), the count the driver reads before it adds a queue (`MayAdd` is one
step), and the queue index picked by the driver (hazard `libqdma_export.c:1526`).
The answer is marked as arrived before it is copied (`qdma_mbox.c:167` and 214):
the waiter, woken by its time-out in between, would read its own request; here an
answer arrives in one step.

## 4. Runs

All bounds are constants of the `.cfg` files.

| run | instance | shows |
|---|---|---|
| `pool_pages` | 4 pages of 2 units, 2 mem_pools; requests of 0, 1 and 9 units: one page, two pages, a chain of two huge pages | page allocation, growth, OOM, frees in any order: the inductive invariant, from which the proofs derive the others |
| `pool_chains` | 2 pages per mem_pool, 4 mem_pools; requests of 0, 1, 5, 9 and 13 units: one page, a whole mem_pool, chains of 2, 3 and 4 | chains beside pages: found, extended, fresh, freed; `MemPool` implements `PagePool` |
| `pool_wrap` | `int` wraps at 4 huge pages, device of 3 | violation: the OOM check |
| `pldma` | 2 threads; in turns 2 calls each, at once 1 call each; up to 2 descriptors or chunks, 2 polls | what success means, and what timeouts leave behind; termination of every call under every interleaving |
| `pldma_lock_comment` | 2 threads of two processes, no turns | violation: "protects concurrent access" |
| `host_copy` | 2 callers, 3 calls in all, 2 channels, chunk of 2 units, lengths 0 and 3; in turns and not | a wrong wake-up never makes a wrong SUCCESS; what success gives back; in turns every copy returns |
| `zerocopy` | 2 files, 3 buffers, lengths below, below and at the limit | what is mapped stays allocated; the handles are those of the mappings; each buffer freed once |
| `drv_lifecycle` | 2 devices, 2 refused requests | error paths release what they hold and no more; what can be opened is mapped; what removal gives back |
| `desc_list` | 48 sizes for each of the six builders, 2 for 16 in all constants | addresses, coverage of the output, what a tile reads, the code space |
| `desc_addend` | the same | violation: the addend and the output beyond a huge page |
| `qdma_xfer` | 2 calls of 1 or 2 pages, ring of 3, 2 starts | what a call is told, the ring's books, pinned pages, `QdmaXfer` implements `CallQueue`, no call left behind |
| `qdma_vf` | 1 virtual function, 2 queues, requests of 1 or 2, 1 wait without an answer | no queue in two hands; books, drivers and registers agree; every command ends |

Why the bounds are enough. `pool_pages` has every shape of free run around
`curr_idx` (a page before, at, after; the wrap at 0), a mem_pool that is full and
one that is not, and growth up to out-of-memory. `pool_chains` is the smallest
device in which a free neighbour, a used one and a chain can stand on either side
of a chain, and in which an extension completes a free tail of one or of two.
In `pldma` two descriptors make a first and a last one, two polls a repeated and a
last one, two calls of each client a call before and a call after. In `host_copy` a length of 3 (the longest, `MaxLength`)
is a full chunk and a partial one, and three calls are a call before, a call beside and a call after. In `zerocopy` two files
are an owner and another, three buffers one more than the slots. In
`drv_lifecycle` two devices are the first and the last turn of every loop, and two
refusals one on each, or one while loading and one that removal then meets. In
`desc_list` the constants keep the proportions of the code: banks, burst and
channels are equal; register, width and step are their square, a chunk their
cube; a huge page is several tiles. The sizes lie below, at and beyond each of
them. In `qdma_xfer` a ring of three has two usable slots: one request can fill it
in the middle, wrap around its end, and leave a request waiting for slots; two
calls are one before and one beside; two starts are a queue used again. (Three
calls, and rings of two and four, were run without liveness when the module was
written.) In `qdma_vf` two queues can be all one function's, shared, or partly
free, so requests are met, refused and undone, and a wait that expires is followed
by commands of the same and of another kind. (Larger instances run without
liveness: three queues; two virtual functions, the latter without failures.)

### Fairness

`FairSpec` of `PlDma` and `HostCopy` is weak fairness of every step of a call once
it has begun: a thread in a system call is scheduled again. No call has to begin.
Nothing is assumed of the CDMA engine: the polling loops are bounded, and that is
what `EveryCallReturns` checks. `HostCopy` sleeps without a timeout, so
`EveryCopyReturns` needs two things more: that every dmaengine transfer ends
(well or not), and that callers take turns (it speaks of the behaviours with
`alone`). With two callers at once a wake-up can be lost in `init_completion`; no
document promises otherwise, so this is a hazard and not a finding.

`QdmaXfer` assumes that calls, the completion thread and a running stop go on once
they have begun, with strong fairness, because each takes spin locks that others
take again and again and that the kernel hands out in turn; and that the engine
executes and writes back (weakly). No call is forced to begin, no queue to be
started or stopped, and no timer of a call to run out: `EveryCallReturns` says
that it need not. `FairSpec` of `QdmaVf` is weak fairness of the two ends of the
mailbox, whose work queues run, and of a driver that is cleaning up; commands need
not begin and waits need not expire.

The other modules state safety only: a builder, a probe function or a release
handler has no loop whose end depends on anything but its own counter.

### Premises of the properties

Where the code does not keep a property in every case, the property says when it
holds, and the hazards say what is lost. `DoneMeansExecuted` holds until a call
runs out of time: the completions of its descriptors, which stay in the ring, are
credited to the next request (`libqdma_export.c:272`), which is then told it is
done too early. `BuffersStayPinned` holds until a call or a stop runs out of time.
`OwnQueuesMapped` and `BooksAgree` hold until a wait ends without its answer or an
allocation fails (`Undisturbed`): a queue counted by an answer that came too late
stays counted. `Partition`, `TypeOK`, `RingBooks` and `EveryCommandEnds` have no
such premise.

### Findings

1. `pool_wrap`. `multi_mmap_drv` takes a byte count as `int`. A chain of 4GB
   arrives as 0, passes the out-of-memory check, and `mpim_malloc` returns memory
   outside the device's mapping.
2. `pldma_lock_comment`. The lock that "protects concurrent access" is
   commented out wherever it is taken: of two threads that copy at once, one is
   told SUCCESS for a copy that never ran.
3. `desc_addend`. `_gemm_silent` says it computes `C + (A X B) = D`
   (`matmul.c:235`). Beyond the first huge page of the addend and the output it adds
   the whole offset to the address of the page (245-246), so both are one page or
   more off. For A and B the same expression reads `offset % HUGE_PAGE_SIZE`
   (256-265).

## 5. Proofs

`MemPool_proofs` proves, for every number of pages, size of device, set of
request sizes and bound, all the safety properties that the runs check of
`MemPool`: `TypeCorrect`, `NeverShared`, `NeverOutside`, `BooksAlwaysBalance`,
`MarksAlwaysExact`, `FreeSucceeds`, `AlwaysContiguous`, the action property
`FreesAreLocal` and, in `Implements`, that it is a `PagePool`. The constants' own assumptions apply, and for all but
`TypeCorrect` one more: `NoWrap`, no request of 2GB or more (so that `int size`
holds it). `pool_wrap` shows that without it `InDevice` is false.

The argument. `Disjoint` alone is not inductive: a malloc searches bit vectors,
counts and marks, not the allocations, so the invariant must say that each of
these tells the truth about `live`. `IInv` says so in six parts:

* `Linear`: mem_pools are in the order of their addresses without gaps, so a huge
  page belongs to one mem_pool, and a run of the list is a run of memory;
* `LiveShape`: every live allocation lies in mem_pools of the list, pages in one,
  with `alloc_size` of the first page telling how many, chains in several;
* `AllApart`: two live allocations share no page;
* `BitsExact`: the bits set in a mem_pool are the pages of its live allocations;
* `CountsExact`: `nfree_pages` is 0 under a chain and the number of clear bits
  elsewhere (so a chain's members cannot be searched, and a mem_pool with all pages
  free can be chained);
* `MarksExact`: the marked mem_pools are the members of live chains but the last of
  each (so the walk of `mpim_free` ends where the chain does).

`Safety` proves `Init => IInv` and one step per action; the other theorems follow
from it. TLC checks `IInv` in `pool_pages` (`MarksExact` is `ChainMarks` by the list).

`Implements` maps the pages in use of `PagePool` to what the allocator's own books
call in use (`InUse`: set bits and zero counters), not to what the callers hold.
`InUseIs` shows from `IInv` that the two are the same. Three lemmas show that the run
or chain a malloc takes was nobody's (`FreshRun`, `FreshChain`, `FreshEnd`), and
`MallocAdds` that a malloc adds just this one extent. A free takes its extent away
because no other live allocation shares a page with it.

`QdmaVf_proofs` begins with the resource manager by itself. For every number of
queues and functions, every set of request sizes and whatever allocations fail, it
proves `BooksTypeOK`, `BooksPartition` (the functions' ranges and the free runs are
disjoint; while no allocation has failed they cover the device; no function has
more queues in use than it has) and `AlwaysRefusedKeepsRange` (a refused request gives
back the very queues it took). The invariant adds to these that the free runs are not
empty and lie in the device (so that a fit is a fit) and that an absent entry holds
nothing. The key lemma, `RequestSound`, follows a request through give-back, merge,
search, split and restore: the run that the old range was merged into contains it, so
the search for the old range finds it, and what is cut out again is the old range.

`Implements` then shows that `QdmaVf` implements `QdmaResource`, every command and
message being one operation on the books or none. With the invariant of
`QdmaResource`, and the type of the messages (the size in a QREQ is one that is asked
for), it gives `AlwaysTypeOK` and `AlwaysPartition` for any number of virtual
functions, messages and expired waits.

`QueuesAlwaysMapped` and `BooksAlwaysAgree` need to know what driver, register, entry
and messages have to do with each other at every place of a conversation. Neither
property is inductive: an answer that is on its way decides what the driver will
believe. `Protocol` says, while nothing was disturbed, `Agreement` and `Tally`.
`Agreement` lists the ways in which a function and the books may stand to each other,
one for each place of the driver and each side the message is on (`VfQreqAgrees`,
`VfFmapAgrees`, `VfAddAgrees` and the rest; `PfAgrees` for the physical function). At
each there is at most one message of the function, the request not served yet or its
answer, and the alternative says what the books have already done for it. That is
where the hazards of the mailbox are settled: an old range is never mapped after
the books took it away, since between a QREQ and its answer no FMAP of that function is
under way. `Tally` is the device's own count, `active_qcnt` modulo 2^32, as the number
of pairs of a function and one of its active queues, so that one queue more or less is
one pair more or less; that the sum of the model, a fold, is that number is
`SumIsUsed`. It needs `VfsAssumption`: a PCIe device has finitely many functions.

`DrvLifecycle_proofs` proves, for any number of devices and of refused requests,
`AlwaysTypeOK`, `LoadingReleasesItsOwn`, `AlwaysOpenableMeansMapped` and `RemovalIsClean`.
The invariant has two halves. `Owned` holds whatever fails: the region that an error
path gives back is held from its registration to `cdev_add` (`Own`), a pointer to a
mapping is assigned only while the mapping is held (`Pointed`: this is what the error
path of `probe_pl_dma_x86` looks at), and a device is registered when the memory
or the registers of every node are mapped (`MemReady`, `PlMapped`). `Books` holds as
long as nothing was refused but what is `Tolerated`: for each kind of resource and
each device of the list it says exactly at which places of loading and unloading it is
held (`Standing`: a loop that takes has passed the node, or one that releases has not
reached it). Removal runs in another order than loading and tests other pointers, so
only such an account shows that each test comes out right at each device.

`PlDma_proofs` proves, for every number of threads, processes, descriptors and
polls: `TypeCorrect`, and of callers in turns `DoneForCallersInTurns`,
`ResetLeavesNothing` and `NeverLeftUnattended`. Types need `InLoop`, which keeps each
loop within its call. For callers in turns the invariant adds `Turn`, which says at
every place of a call what is built, copied, programmed and done so far: after
`TailDesc` the engine has executed just the descriptors before CURDESC, and while it
has not finished, the completion bit of the last one is clear, so that the poll
cannot read the completion of an earlier call. `Resting` says what the engine may
still do before the reset of the next call: descriptors of a DMA_START that was told
so.

`HostCopy_proofs` proves `SuccessIsCopied` for any number of threads, channels,
chunks and lengths, with no premise about turns. The invariant is of each thread by
itself: all chunks before the present one are where they belong, this one is in the
bounce buffer if it comes from the user, and a transfer whose status is "complete"
has moved it (`Copying`, `Moved`). Nothing in it depends on the completion they
share, which is why a wrong wake-up can do no harm here: the status asked for is
that of the caller's own transfer. That the chunks cover the length exactly is the
lemma `Chunks`.

`SuccessNeverLoses` and `CopyTyped` add the books (`BInv`): the buffers allocated are
those that the calls under way hold, one each and a second one for a HOST2HOST, or
more once a call has failed (`Held`, `Buffered`); every channel is free or with a call
in `dma_memcpy`, until one has failed (`Channelled`). Counting needs a finite set of
threads, nothing else. For the types of `done`: completions outstanding and transfers
that may still complete are never more than the threads (`Completed`), since each
thread initialises the completion before each of its transfers.

`ZeroCopy_proofs` proves `TypeCorrect`, `MappingsAreBacked`, `CopiesBetweenItsOwn` and
`NothingIsLost` for any number of files and buffers. The invariant: a mapping
holds its file open (`HeldOpen`), with one user all that is mapped is allocated and
in a slot that is counted (`OneUser`), and as long as no mapping has failed the
slots that are counted hold the buffers at the lengths recorded (`SlotsTell`).

`DescList_proofs` proves `OutputAlwaysOnce`, `CodeSpaceSuffices`, `TilesAlwaysComplete`
and `AlwaysAddressed` for every size of the operands and every size of chunk, register
and page. `Written(list, f)` says that
the descriptors so far write each element below f once, in order, and nothing at or
beyond f; the invariant says of each builder that it holds at the place its loops
have come to. `ChunkAssumption` is used for the code space: a chunk holds a line
of all channels (in the code it is exactly that: 32 bytes times 16 times `CH_NUM`).

For `TilesAlwaysComplete`, `Read(list, s, i, pp, rr)` says that from place s on the list
holds the addend of a tile and then i pairs of a part of its row and a part of its
column. The loops lengthen it by a pair (`ReadStep`), appending disturbs none of the
earlier ones (`ReadKept`), and when a tile is stored all its steps have been read
(`CompleteStore`); `StoredMeans` then divides the offsets back into row and column.

For `AlwaysAddressed` the question is whether the address last asked for is that of the
page of the next element. As long as an operand has not left its first page its base is
its start (`Based`; the output of a silent product, asked for with the addend, is
`Pending` until it is stored). Where the offset is taken modulo the page, an operand is
either gone through from its start in blocks that divide the page, so that each step
ends at the next page or stays in this one (`NextPage`), or it is kept within one row or
block of rows, which lies in one page (`WithinPage`, `InBlock`). `GemmPages` and
`TiledPages` say which operand does what. `PagesAssumption` says that blocks divide the
page: with the sizes of `pim_math.h` a page is 2^20 elements, a register tile of B 2^16,
an output tile 2^12, the step 2^8.

`QdmaXfer_proofs` proves `RingAlwaysBooked` for every number of calls, pages, slots and
starts, with every time-out and stop. `RingBooks` depends on who fills the ring: the
invariant adds that only an online queue is filled, and by the holder of its lock
(`Held`), and that what the work list links is under way, linked once and has pages
left (`Listed`), so that a filler never takes a slot for nothing. What filling,
ringing, executing, writing back and polling do to the indices are five lemmas
of arithmetic modulo the ring (`BookedFill` and its neighbours).

`AnswersAreTrue` and `BuffersAlwaysPinned` need to know whose each descriptor is.
`Ledger` keeps the running sums O of the descriptors that the queue still owes to
the requests of the pending list and then of the work list. The engine has come to
e, the credit and the distance of its index from the driver's; a slot of the ring
belongs to the request in whose stretch of O it falls (`Entry`), and what the engine
has executed for a request is what was paid to it already and what of its stretch
lies before e (`Reach`). So when credit pays a request in full, and it is answered,
all of it has been executed. Filling lengthens one stretch, executing moves e,
paying takes stretches off the front (`LedgerFill`, `LedgerExecute`, `LedgerPay`):
the rest of each step is bookkeeping. `AInv` is the ring's invariant with `Answered`
(the ledger while the queue is online, and every answer of success true; offline, no
slot of the engine's belongs to a call told of success) and `Stopping` (a queue being
stopped is not filled, and unless the wait was cut short its engine has nothing left:
this is what makes the offline part hold). `Answered` speaks of the time until a call
runs out of its own, since the code then takes the request off its list with its
descriptors still in the ring, and what is paid later goes to the wrong request.

`CallsServedInOrder` is the refinement `ServedInOrder`. The abstract queue has no idea
which slot is whose, so each step needs the ledger. An engine step executes a slot that
belongs to the first call with pages to go: were it a later one, the ledger would place
the stretch of an earlier, unfinished call behind the engine (`LedgerFirst`). A poll
answers a prefix of the line (`PaidOff`, `PollPays`), whose calls have had all their
pages. Filling moves the head of the work list to the end of the pending list, which
leaves the line as it is. One more invariant, `Unasked`, is needed for a new call:
nobody is told of success before he asks.

`XferTyped` holds without that restriction: `PaidFor` is the largest number of
requests the credit covers, so what is left over is less than the next is owed,
whoever the descriptors were for. That a set of such numbers has a largest (`MaxOfNats`)
comes from a least element of a well-founded order, in place of an
induction over the length of the list.

Every safety property that a passing run checks is proved. Only model-checked:
liveness (`EveryCallReturns` of `PlDma` and `QdmaXfer`, `EveryCopyReturns`,
`EveryCommandEnds`), which is outside the prover's reach, like ENABLED. The proofs
themselves rest on the named assumptions about the constants, all of which TLC
evaluates on the instances.

## 6. What is not modelled, and why

* The `INTR_ENABLE` build of `pim_drv.ko` and the interrupt modes of the QDMA
  driver; streaming queues, which this stack does not use; asynchronous reads and
  writes (`cdev_aio_*`), which libpim never issues; function-level reset.
* Two threads in the allocator: data races, see 3.1. The library life cycle:
  straight-line code once per process.
* PCCL does not compile against this tree: `datacopy_pim2pim` is called with four
  arguments and declared with five in `pim.h`. The Makefile leaves it out.
* `_matmul_silent` of `matmul.c` uses two variables nobody declares, so it does not
  compile, and `_gemm_decoupled` is never called.
* The ARM host DMA: the same loops as the x86 file. The QDMA and XDMA glue:
  wrappers of ioctls and of `read` and `write` of the drivers.
* Register access layers and dumps of the QDMA driver (several per hardware
  version, tables for the most part, and most of its lines), netlink parsing,
  debugfs; `xilinx-qdma/driver/libqdma`, a second copy of `Q/libqdma`.
* The XDMA driver, tools, micro-benchmarks, generated data: not this project's logic.
