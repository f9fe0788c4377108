# VisualOS kernel: TLA+ models and proofs

VisualOS is an x86-64 kernel that runs on several CPUs. This directory models
what its own code keeps in order: locks, memory, tasks and their context, the
start-up of the processors, page tables, interrupt routing, symbols and screen
output. TLC checks the models on small instances, and TLAPS proves the main
safety properties for every value of the constants. Paths below are relative to
`src/src/kernel`.

## The system and its parts

| Part | Code | Here |
| --- | --- | --- |
| Lock words | `x86_64/atomic.asm` | `AtomicWord`, implementing `Mutex` |
| Page-frame allocator, bitmap | `memory/pageframe.c`, `memory/bitmap.c` | `PageFrame` |
| Scheduler, entry gate | `scheduler/scheduler.c`, `scheduler.asm` | `Scheduler`, implementing `TaskPool` |
| Context switch | `scheduler/timer.asm` | `Context` |
| Syscall entry and exit | `x86_64/syscall.asm` | `Context` |
| Processes | `scheduler/process.c` | `Context`: `process_create_new` |
| Syscall handlers | `sys/` | `sys_mmap`, `sys_munmap` in `PageFrame`, `sys_exit` in `Context`, `sys_write` in `Console` |
| SMP start-up, PIT sleeps | `x86_64/apic/local_apic.c`, `trampoline.asm`, `x86_64/cpu.c`, `cpu.asm`, `pit.asm` | `SmpBoot` |
| Paging | `memory/paging.c` | `Paging`, implementing `AddressMap` (checked in `Boot`) |
| IOAPIC, MADT, interrupt tables | `x86_64/apic`, `x86_64/isr.c`, `idt.c` | `Interrupts` |
| Symbols | `symbols/symbol.c` | `Symbols` |
| Console | `shell/text.c`, `shell/color.c` | `Console` |
| Set-up order, PCI scan | `setup.c`, `kernel.c`, `x86_64/pci.c` | `Boot`, which composes the four modules above it |
| Loader, unwinder, ACPI lookup, port I/O, CPUID, libraries | | not modelled |

How they interact: the boot processor builds the bitmap from the loader's
memory map, reserves what firmware and kernel occupy, builds the page tables,
reads symbols, PCI and interrupt records, and routes the interrupts. It then starts the
other processors one by one through the trampoline page (each of which requests
frames for its stacks), creates tasks, and opens the scheduler's gate. From
then on each processor is driven by its timer interrupt, which saves the running
task and asks `scheduler_next_task` for another. Tasks reach the kernel through
`syscall`: the allocator by `mmap` and `munmap`, the screen by `write`, their
end by `exit`. Everything shared is guarded by lock bits set with
`atomic_spinlock` and `atomic_lock` and cleared with `atomic_unlock`.

## The modules

### AtomicWord and Mutex

`AtomicWord` is a word of lock bits. `lock bts` is one step (`LockBts`). `btr`
has no `lock` prefix, so `atomic_unlock` is two steps: `BtrLoad` reads the word
and `BtrStore` writes it back without the bit, over whatever was written in
between. A CPU that spins takes no step, as a failing `lock bts` leaves the word
as it was. `held` records which CPU has which bit. `Mutex` is the lock its users
assume, with an indivisible release; the refinement mapping is `held` itself.

`Entry` states the nesting of the users: an entry bit is taken by a CPU that has
none and given up last. `pageframe_request` takes LOCK inside REQUEST.

### PageFrame

The state is the bitmap (`map`, the set of indexes whose bit is 1),
`s_current_index`, the two size counters, the lock word, and per CPU the call in
progress with its loop variable and the value of an unfinished
read-modify-write. `granted` is a history variable: the blocks the callers have.
Addresses and sizes are in pages.

`pageframe_init` is an operator that computes the initial state from a memory
map, with the same range operations the calls perform. After it, `Call` starts one of the
entry points, and each later action is one access to shared memory. A load that
directly follows another access of the same CPU is merged with it, except where a test
of shared memory decides about a later store: `RewindTest` reads the index that `Rewind` sets back.
`memory_get_free` is the unsigned subtraction, which wraps at `WordPages`. The bit after
the last one is part of `Index` because `bitmap_get` and `bitmap_set` test
`index > size`; its initial value is junk.

`pageframe_request` is the request of one page: its loop advances
`s_current_index` the same way. `pageframe_unreserve` is only called for frames
that are reserved. `pageframe_free` is called for a block that was handed out,
on any CPU, since tasks migrate; a block freed twice is not modelled.

### Scheduler and TaskPool

The state is the queues (`first`, `num`, the lock's owner), the nodes' fields, the set
of allocated cells, and per CPU the self slot and the locals of the search.
`linked` is a history variable: the nodes in a ring. Queue locks and the LOCKED
flag are taken and given up in one step: each such word has one lock bit, which is the case
`WordRefinesMutex` proves safe. (The FINISHED bit in the node's word is set only by the
CPU that holds LOCKED.)

`scheduler_next_task` takes a queue lock for the rotation and the removal, but none for
the search. Inside the lock, accesses that the search cannot tell apart are one
step; the links and the count are separate steps, since the search reads both.
In the search every read of shared memory is a step: a queue's `first` (`Search`), its `num`
(`Test`), a node's flags (`Pass`), the lock (`Grab`), `next` (`Advance`). The test of the queue's lock
at `scheduler.c:170` masks with the bit number 0, is never true, and has no counterpart.

Freed cells keep their flags; their `next` may be overwritten with the heap's
own data (`Wild`). A CPU that would dereference `Wild` or null takes no more
steps. Creators run with their timer off, as the set-up code does.

`TaskPool` is the promise: a task that was added is ready until one CPU takes
it, and that CPU puts it back or retires it. The mapping makes a task running
from the lock taken by the search to the unlock or removal at the next interrupt.

### Context

`Context` is what must follow a task from processor to processor: registers,
stack, the pair GSBASE / KERNELGSBASE, CR3, and the saved frame in its node. A
frame is the code it is in, its stack, and one value for all other registers; user
code counts that value up, and `value` remembers what each task computed.

The timer handler is five steps: the interrupt and the kernel's CR3 (`Timer`),
the copy to the node (`Save`), the two halves of `scheduler_next_task` (`PutBack`,
`Pick`), and the way out (`Load`). The two halves are the actions of `TaskPool`, which
`Scheduler` is shown to implement, so the models compose along that promise.
`SyscallEntry`, `SyscallReturn` and `SyscallExit` are `syscall.asm`;
`gs:` accesses go wherever GSBASE points, and to `Wild` if that is no `CPUContext`.
`CreateProcess` to `LinkProcess` are `process_create_new`, with the process
pointer set after the node is in its queue. `setup_tasks` is the caller it is modelled
for: its calls are commented out at present, and nothing else creates processes.

`syscall_enable` masks no flags, so the timer interrupts user code and system calls
alike, and `Timer` does both. What that does to the pair of GS bases is followed as far as the
code determines it. `calls` remembers how far that is: `"whole"` until the timer has
interrupted a system call, `"interrupted"` from then on, and `"astray"` once a call has gone on with a
GSBASE that is not what it expects (it then uses a stack, or finishes a task, at an
address read from another structure), or an interrupt other than the timer's has ended
the `hlt` of a task that exits (`Wake`), behind which there is no code. Nothing is said of what
comes after `"astray"`, and no step is taken. The properties say which of the three they are for.

### SmpBoot

Both sides of the handshake: `local_apic_start_smp` on the boot processor, one action per
access to the trampoline page or IPI, and `trampoline.asm`, `cpu_init_ap` and
`scheduler_entry` on the others. `comm` is the page's data, which `CopyTrampoline` clears
for each processor. `pit_sleep` counts interrupts (`pit_ticks`: with the
default divisor the 10 ms sleep is one interrupt, like the 1 ms ones). `ContextPages` is
`ap_context_pages`: no page for a single processor, several when the contexts outgrow one. The memory
is a set of free frames with the search of `pageframe_request_pages`, one request a
step; that requests exclude each other is `PageFrame`'s result.

`Prompt` states the timing that the code relies on: within a sleep, a processor gets
through the few instructions between its wake-up and `ap_status = 1`, and
between `bsp_status = 1` and `ap_status = 0`. The code does not enforce it: one PIT interrupt
ends a sleep, and it may come early in it. Nothing else is timed: `cpu_init_ap` may take any
number of sleeps, and so may the two instructions after `ap_status = 2`.

### Boot, with Paging, Symbols, Interrupts and Console

`Boot` is `setup.c` on one processor, for a machine given as a record: memory map,
kernel, framebuffer, symbol table, MCFG descriptors and PCI functions, interrupt records. A setup
function is a stage; the page operations it calls for are queued in program order and each is
a step, so every intermediate page table is a state.

* `Paging`: tables of `Fan` entries in page frames. `paging_map_page` descends
  four levels and makes tables from `pageframe_request`; `paging_set_writable` and
  `paging_set_cache` follow entries without testing the present bit, which sets
  `stray` if a walk ever leaves the tables. `Translate` and `Writable` are the
  processor's view. `AddressMap` is the promise: a map from pages to frames and a set of writable
  pages, of which one page changes at a time.
* `Symbols`: the insertion sort with the words in front of its array, as far back as it
  goes, and the binary search with its unsigned indexes.
* `Interrupts`: the lists of `madt_init`, the handlers and gates, and the
  redirection table as `ioapic_init`, `ioapic_set_from_isrs` and
  `ioapic_entry_set_mask` leave it.
* `Console`: `sys_write` to the screen, one character or colour sequence a step.

## The runs

| Run | Instance | States | What it shows |
| --- | --- | --- | --- |
| `pageframe_smp` | 3 CPUs, 6 pages, requests of 1 and 2 | 43,524 | mutual exclusion, exclusive grants, exact used counter, searches end |
| `pageframe_boot` | 1 CPU, 7 pages, all entry points, single pages | 67,648 | exclusive grants, NULL only when full, free size not overstated, searches end |
| `pageframe_shared` | 3 CPUs, requests and frees | violated | mutual exclusion is lost |
| `pageframe_past_end` | 1 CPU, 6 pages, requests of 1 and 2 | violated | a page past the end of memory is handed out |
| `scheduler_exit` | 2 CPUs, 3 cells, 2 queues, tasks exit | 248,143 | a task is on one CPU, rings stay whole, `TaskPool` is implemented |
| `scheduler_late` | 2 CPUs, 3 cells, 1 queue, tasks added at any time | 84,319 | rings stay whole, every switch ends, every task runs again and again |
| `scheduler_freed` | 2 CPUs, 2 cells, 1 queue, tasks exit | violated | the search stands at a freed node |
| `smp_boot` | 4 processors, 32 frames, five memories | 3,030 | own stacks and contexts, one processor in the trampoline, gate after set-up, start-up ends |
| `smp_boot_jump` | 3 processors | violated | a processor that has reported jumps to a cleared address |
| `context` | 2 CPUs, 2 tasks, interrupts at any time | 465,083 | page tables follow the task; GS is paired and frames follow it until a system call is interrupted; exit retires, set-up ends |
| `syscall_preempted` | 1 CPU, 1 task | violated | a task comes back from a system call with a wild stack |
| `boot` | 6 kinds of machine, 64 frames, 256 pages | 23,189 | page tables implement a map and stay apart, kernel read-only, devices mapped, symbols, routes and screen right |

`scheduler_exit` uses symmetry of CPUs and of cells; it checks safety only. Deadlock is
not checked where the system may stop: in `scheduler_exit` a CPU that follows
a pointer read from a freed cell stops there, and a system without tasks or
creators left may be still; `smp_boot` and `boot` end when the boot is done.

### What the five violations mean

* `pageframe_shared`. `pageframe.c:16` calls the lock functions atomic.
  `atomic.asm:22` is a plain `btr`. CPU A begins to unlock FREE and loads the
  word, CPU B locks REQUEST, A stores the word without both bits, and C locks
  REQUEST too. While nothing is freed (`pageframe_smp`) this cannot happen, because
  LOCK is only ever taken inside REQUEST.
* `pageframe_past_end`. `pageframe.h:30` promises free pages. `bitmap_get`
  is false past the end of the bitmap, so a block of two that starts at the last
  frame looks free.
* `scheduler_freed`. `scheduler.h:72` promises the next task. The search holds no
  lock, so the node it is about to lock, or whose `next` it is about to follow,
  may have been freed. `RunsOnce` holds nevertheless, since a freed cell keeps its
  LOCKED flag.
* `smp_boot_jump`. `trampoline.asm:112` says "Finish up and begin scheduling work". Line
  113 reports, line 115 reads the jump's target from the page. If the boot processor's sleep
  ends in between, it copies the trampoline for the next processor and the target reads 0. The
  report may come at any point of a sleep, so no length of the sleep excludes this.
* `syscall_preempted`. `syscall.asm:90` and `:109` say "save userspace stack" and "load
  userspace stack". `syscall_enable` masks no flags, so interrupts stay on in a
  system call. The timer handler loads GSBASE with the node of the task it returns to, also if that
  task is between its two `swapgs`: then `gs:rsp_userspace` is read from the node.

One more fact about the scheduler's search, seen while modelling and not kept as a run: if tasks
both exit and are added late, a search that stands at a freed cell can lock it
after it was handed out again and before it is in a ring. `RunsOnce` still holds
(and is proved), `RingIntact` does not.

Some properties say under which condition the code is right, because it has no
handling outside:

* `OwnMemory` and `TablesApart` hold as long as memory lasts (no caller tests a request for NULL).
* `FreeNotOverstated` holds until `used + reserved` exceeds the total, which counting a frame
  twice brings about: from then on the subtraction of `memory_get_free` wraps to a huge size. The
  run reaches such states; `sys_sysinfo` hands the number to user code.
* `GsPaired` and `OwnFrame` hold until the timer first interrupts a system call (`OwnFrame`'s part
  about the idle loop until a call goes astray, like `OwnTables`). `ExitRetires` and `SetupEnds` promise
  the end they name, or that a call went astray.
* `OneInTrampoline` is for sleeps that outlast the answers (`Prompt`).
* `SymbolsResolve` is for addresses from the first symbol on, at least two symbols, and if the
  word in front of the map is not larger than the first symbol (`symbol.c:77` reads it).
* `RoutesRight` is for firmware that gives no source and no pin twice, and no source the pin
  of another source with a handler (0, 1, 7, 16) unless that one is moved away; the run has
  lists of such overrides for the sources 0, 1, 7 and 9 over the pins 0, 1, 2, 9, 16 and 20.

### Bounds

* Bitmap bytes have 2 bits instead of 8, so six pages span three bytes and two
  CPUs meet both in one byte and in different ones. Seven pages leave one page
  without a bit, as a size that is not a multiple of 8 does.
* Three CPUs are needed for an erased lock bit to do harm: one that unlocks, one
  that loses its bit, one that enters.
* `MaxCount` stops `lock` and `reserve` calls once a size counter reaches it, as
  repeated calls count the same frame again without limit.
* Three tasks on two CPUs are the least for which a task can be kept waiting; two
  queues are the least for which the search goes from one to the next.
* Two CPUs and two tasks let a task move while the other one, and the idle loop, are on
  the CPU it left, and a system call be interrupted and go on elsewhere. Register values are counted
  modulo 2: an old and a new one differ.
* The firmware lists the boot processor in the middle, so that the loop's two
  counters part. The five memories are whole, in pieces, exhausted by the last processor, and
  ending within a request. A page holds less than two contexts (80 of 128 bytes instead of 4096), so the
  contexts of three processors take two pages and straddle their border.
* `Fan` = 4 entries a table instead of 512: 256 pages take four levels, and kernel, identity map and
  devices share and do not share tables at each level. The machines differ in where the
  largest region lies, whether memory has a hole, in overrides of the local APIC, in MCFG
  descriptors and PCI functions, and in all symbol tables, override lists and texts over small sets.

### Fairness

A CPU inside an allocator call keeps executing (`WF` on `Step`); nobody is
obliged to call. The timer keeps interrupting each CPU and an interrupted CPU
keeps executing (`WF` on `Switch`), a creator finishes the call it began, and the
bootstrap CPU opens the gate. Spinning for a queue lock has strong
fairness: the spinner retries without pause while each holder keeps the lock
for a few instructions of a timer period. Under weak fairness alone two CPUs could
exchange the lock for ever, which `lock bts` does not exclude in principle.
`TaskRuns` is stated for one queue, since earlier queues have priority over
later ones.

In `SmpBoot` every processor keeps executing and the PIT keeps ticking. In `Context`
the boot processor gets on with its set-up and opens the gate, every
processor passes it, its timer is periodic and the handler runs to its end; nothing
is assumed of user code.

## The proofs

| Theorem | Statement | Assumes, beyond the modules' assumptions |
| --- | --- | --- |
| `SafeWord` | `WordSpec => [](MutualExclusion /\ WordIsHeld)` | one entry bit, or one CPU |
| `WordRefinesMutex` | `WordSpec => ImplementsMutex` | the same |
| `TypeCorrect` | `Spec => []TypeOK` of `PageFrame` | nothing |
| `RequestsExclusive` | `Spec => []GrantsExclusive` | only requests after boot |
| `RequestsMutex` | `Spec => [](MutualExclusion /\ WordIsHeld) /\ ImplementsMutex` | the same |
| `RequestsCounted` | `Spec => []UsedCountsGrants` | the same, and the bitmap's own page has a bit in it |
| `TaskOnOneCpu` | `Spec => []RunsOnce` of `Scheduler` | nothing |
| `SchedulerTyped` | `Spec => []TypeOK` | `NoReuse`: tasks do not both exit and get created late |
| `QueuesAreRings` | `Spec => []RingIntact` | the same |
| `SchedulerIsPool` | `Spec => ImplementsPool` | the same |
| `BootTyped` | `Spec => []TypeOK` of `SmpBoot` | nothing |
| `TrampolineExclusive` | `Spec => []OneInTrampoline` | nothing; the property is about `Prompt` |
| `GateHolds` | `Spec => []GateAfterSetup` | nothing, whatever the timing |
| `MemoryExclusive` | `Spec => []OwnMemory` | `Prompt`: sleeps outlast the answers |
| `ContextTyped` | `Spec => []TypeOK` of `Context` | nothing |
| `SwapgsPaired` | `Spec => []GsPaired` | nothing; the property ends with the first interrupted system call |
| `FramesKept` | `Spec => []OwnFrame` | the same |
| `TablesFollow` | `Spec => []OwnTables` | nothing; the property ends when a call goes astray |

**Lock words** (`PageFrameProofs`, first part). Mutual exclusion alone is not inductive:
nothing in it says that the word has not changed since a `btr` loaded it. The
invariant `Nested` adds that one CPU at most has bits, that the word is what it
has, and that an unlock in progress loaded the word as it still is. A single entry bit
is what makes this inductive: while some CPU has bits the entry bit is set, and no
other CPU gets in. `pageframe_shared` shows that the assumption is needed.

**Allocator** (`PageFrameProofs`: types, `FrameType`; `PageFrameRequests`: the rest).
`RequestInv` ties each CPU's position to the bits it holds and describes the one
request in progress: its block lies below `s_current_index` and above every block handed out,
and its frames up to the loop variable are marked, by a byte whose loaded value is still
current. Disjointness follows because `s_current_index` only grows while nothing is
freed. For the counter, `UsedInv` says that `s_memory_used_size` is one page for the bitmap, the
kernel's pages and one for each frame that a request has already counted, and that the register of
a CPU about to store the counter was loaded from its present value. TLC finds both
invariant on `pageframe_smp`'s instance.

**Scheduler** (`SchedulerProofs`, `SchedulerQueues`, `SchedulerPool`). `OwnInv` says that a CPU's node
is allocated and locked and that no two CPUs own the same one. To see that a locked node cannot be
taken through a stale pointer it needs `Pointers`: every pointer in the system is null,
wild, allocated, or to a freed cell that still has its LOCKED flag. So a search
that finds a cell unlocked has found an allocated one without an owner. `TaskOnOneCpu`
covers tasks that exit and cells that are reused at any time.

The rings need `QueueInv`: the CPU or creator that changes a ring has the queue's lock
(`Locks`), a task that runs is in its queue and one that is being added or was removed is not
(`Members`), the pointers a search may come across lead to a linked node or to a locked one
(`Visible`), no cell is freed before the CPUs are released or without exits (`Fresh`), and each queue's links are
one cycle through exactly its members, `num` being their number but for the agent at work (`Rings`).
`SchedulerQueues` shows that the steps that do not insert or remove keep it,
`SchedulerPool` that adding and removing do, and concludes. The hypothesis is
needed: with exits and late creation together a search that still points to a freed cell can take the
node created in it before it is enqueued, and the rotation then follows its null `next`.

**Start-up** (`SmpBootProofs`). That one processor is in the trampoline is not inductive: it
rests on where the other side is. `Handshake` says that the boot processor works on one
listed processor, that only this one is between its INIT and its report, and what the two status words
say about how far each side has come; in particular `ap_status` is 0 from the
acknowledgement to the report, which is what the second wait depends on. `Gated` follows the entry
lock back to the masked PIT and the finished set-up. `OwnContext` says that the contexts up to the
boot processor's index are given out, each to one processor, and `Given` that, while memory lasts, stacks and
contexts are locked and handed out once, the stack that lies in the shared page included.

**Context** (`ContextProofs`, `ContextFrames`). The invariant has two parts. `Lasting`
holds at all times: `Carried` says, mode by mode of a processor, which task it has and what
CR3 is, `Resumes` where a frame goes on, `AllPushed` that a system call's stack holds what it will pop, `Shared`
that a task is in the queues or on one processor, which is why two processors never write the same
node, and that the idle node only ever holds the idle loop, `Made` that nothing runs before every
published task has its process.
`Undisturbed` holds until the timer interrupts a system call: `Paired` says what GSBASE and KERNELGSBASE
are in each mode, `Kept` and `Queued` where a task's registers are, in the processor, on its kernel stack
or in the node. TLC finds the whole invariant on the instance of `context`. `syscall_preempted` shows that the
pairing does end with an interrupted call.

Only model-checked: the liveness properties (`RequestReleased`, `SwitchEnds`,
`TaskRuns`, `BootEnds`, `ExitRetires`, `SetupEnds`), which are out of the prover's
reach; `FreeNotOverstated` and `NullMeansFull`; everything with frees in the allocator except its types;
and all of `Boot`, whose
modules have recursive operators and folds over sequences and tables, where a proof would
need an induction over data that the prover cannot do.

## What is not modelled

* The vendored musl, dlmalloc and limine, which are nine tenths of the lines under `src/`. They are
  libraries, and the heap is seen through how the scheduler and processes use `malloc` and `free`.
* The length of a time slice (`timer.c`, `s_ticks_table`): the timer may interrupt at any time.
* Device interrupts other than the PIT's during start-up, the timer's, and any one that ends the `hlt` of
  an exiting task (`Wake` in `Context`): their handlers read a port or stop the machine.
* Descriptor layouts, processor mode switches, model-specific registers and IPI formats: constants
  written once. `local_apic_start_lints`, end-of-interrupt and the timer's count are device registers.
* `loader.c`, `syscall_goto_userspace`, `text_output`: no code calls them. The
  page map of a new process, as a tree: `_process_pagemap` uses `Paging`'s operations on a fresh root.
* Pixels, the picture, the serial log and the log's formats: output only. The
  unwinder follows frame pointers on the stack.
* ACPI table lookup, the loader's tags, port I/O, CPUID: comparisons, copies of fields and
  single instructions. `pci_id.c` is a table of names.
* Caches and store buffers: the memory is sequentially consistent. x86 only delays a
  CPU's own stores, and the locked instructions that open each critical section
  wait for them. The status words of the trampoline are written in order, which x86 keeps.
