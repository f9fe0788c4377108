------------------------------- MODULE SmpBoot -------------------------------
(****************************************************************************)
(* Bringing up the processors: local_apic_start_smp on the boot processor   *)
(* (BSP), the trampoline each application processor (AP) runs, cpu_init on  *)
(* both, and scheduler_entry, where every processor ends.                   *)
(*                                                                          *)
(* The two sides talk through one page, the trampoline's data (comm), which *)
(* local_apic_start_smp copies afresh for each AP.  ap_status and           *)
(* bsp_status are polled; everything between two polls is timed with        *)
(* pit_sleep, which halts until the PIT has ticked.                         *)
(****************************************************************************)
EXTENDS Integers, Sequences

CONSTANTS
    Bsp,            \* the boot processor
    AP,             \* the application processors
    Processors,     \* madt_get_info()->processors: every processor, in the firmware's order
    ContextSize,    \* bytes of a CPUContext, rounded up to its alignment
    PageSize,       \* MEMORY_PAGE_SIZE
    FramesNum,      \* page frames the allocator manages; frame 0 is never free
    Reserved,       \* the sets of frames that may be locked already when the boot gets here
    Prompt,         \* TRUE: a sleep outlasts the few instructions an AP needs to answer
    Null            \* a cleared word of the trampoline page

CPU == AP \cup {Bsp}
Frame == 0..FramesNum - 1

\* &s_cpu_bsp, and the elements of the ap_contexts array.
Static == -1
ContextPtr == {Static} \cup 0..Len(Processors) - 2

\* ap_context_pages: none for the BSP alone, and one more wherever the contexts outgrow a page.
ContextPages == (ContextSize * (Len(Processors) - 1) + PageSize - 1) \div PageSize

ASSUME BootAssumption ==
    /\ Bsp \notin AP
    /\ ContextSize \in Nat \ {0} /\ PageSize \in Nat \ {0}
    /\ FramesNum \in Nat \ {0}
    /\ \A r \in Reserved : r \subseteq Frame
    /\ Prompt \in BOOLEAN
    /\ Processors \in Seq(CPU)
    /\ \A i, j \in DOMAIN Processors : Processors[i] = Processors[j] => i = j
    /\ \A c \in CPU : \E i \in DOMAIN Processors : Processors[i] = c
    /\ Null \notin ContextPtr \cup Frame

VARIABLES
    pc,             \* where each processor is
    comm,           \* the data of the trampoline page
    taken,          \* the frames locked in the page frame allocator
    s_current_index, \* where its search goes on
    blocks,         \* the frames each processor was given: its stacks and its descriptor tables
    cpu,            \* CPUContext structures: who filled one in, or Null
    context,        \* the context each processor works with (KERNELGSBASE)
    need,           \* requests of cpu_allocate each processor has made
    contexts,       \* the first frame ap_contexts was given
    i, ai,          \* processor_i and ai of local_apic_start_smp
    sleep,          \* PIT ticks the BSP still sleeps
    irq0,           \* the PIT's interrupt is let through by the I/O APIC
    ready,          \* process_init and scheduler_init are done
    s_entry_lock,   \* scheduler.asm: non-zero once the BSP has entered the scheduler
    short           \* a request has found no memory, or not all of it (history)

vars == <<pc, comm, taken, s_current_index, blocks, cpu, context, need, contexts, i, ai, sleep, irq0, ready,
          s_entry_lock, short>>
bspVars == <<contexts, i, ai, sleep, irq0, ready>>

------------------------------------------------------------------------------
(* The allocator: the first run of free frames from the index on, where the *)
(* bitmap reads as free past its end, or NULL, the address of frame 0.      *)

Run(b, n) == b..b + n - 1
Fits(b, n) == b \in Frame /\ b >= s_current_index /\ Run(b, n) \cap taken = {}

pageframe_request_pages(n, b) ==
    \/ /\ Fits(b, n)
       /\ \A a \in Frame : Fits(a, n) => b <= a
       /\ taken' = taken \cup (Run(b, n) \cap Frame)
       /\ s_current_index' = b + n
       /\ short' = (short \/ ~(Run(b, n) \subseteq Frame))
    \/ /\ \A a \in Frame : ~Fits(a, n)
       /\ b = 0
       /\ s_current_index' = IF s_current_index > FramesNum THEN s_current_index ELSE FramesNum
       /\ short' = TRUE
       /\ UNCHANGED taken

\* pit.c counts PIT_DEFAULT_DIVISOR per interrupt; pit_sleep waits for the milliseconds to
\* have passed, so for this many interrupts.
pit_ticks(ms) == CHOOSE n \in 1..ms : /\ (n * 65535 * 1000) \div 1193182 >= ms
                                      /\ ((n - 1) * 65535 * 1000) \div 1193182 < ms

\* What memcpy puts at the trampoline's target: its data with every word zero.
Cleared == [ap_status |-> 0, bsp_status |-> 0, stack |-> Null, ap_context |-> Null,
            cpu_init_ap |-> Null, scheduler_entry |-> Null, pagetable_l4 |-> Null]

Init ==
    /\ pc = [c \in CPU |-> IF c = Bsp THEN "init" ELSE "off"]
    /\ comm = Cleared
    /\ \E r \in Reserved : taken = {0} \cup r
    /\ s_current_index = 0
    /\ blocks = [c \in CPU |-> {}]
    /\ cpu = [p \in ContextPtr |-> Null]
    /\ context = [c \in CPU |-> IF c = Bsp THEN Static ELSE Null]
    /\ need = [c \in CPU |-> 0]
    /\ contexts = Null
    /\ i = 1
    /\ ai = 0
    /\ sleep = 0
    /\ irq0 = TRUE
    /\ ready = FALSE
    /\ s_entry_lock = FALSE
    /\ short = FALSE

Move(c, from, to) == pc[c] = from /\ pc' = [pc EXCEPT ![c] = to]

------------------------------------------------------------------------------
(* Both: cpu_init_bsp / cpu_init_ap and cpu_init.                           *)

\* The pages cpu_allocate asks for: descriptor tables, then the three interrupt stacks.
StackPages == <<1, 1, 2, 1>>

\* cpu_init_common: the context learns whose it is.
InitContext(c) ==
    /\ Move(c, "init", "allocate")
    /\ cpu' = [cpu EXCEPT ![context[c]] = c]
    /\ UNCHANGED <<comm, taken, s_current_index, blocks, context, need, s_entry_lock, short, bspVars>>

\* One request of cpu_allocate; after the last one the rest of cpu_init loads what it built.
Allocate(c) ==
    /\ Move(c, "allocate", IF need[c] + 1 < Len(StackPages) THEN "allocate"
                           ELSE IF c = Bsp THEN "contexts" ELSE "report")
    /\ need' = [need EXCEPT ![c] = @ + 1]
    /\ \E b \in Frame : /\ pageframe_request_pages(StackPages[need[c] + 1], b)
                        /\ blocks' = [blocks EXCEPT ![c] = @ \cup Run(b, StackPages[need[c] + 1])]
    /\ UNCHANGED <<comm, cpu, context, s_entry_lock, bspVars>>

------------------------------------------------------------------------------
(* The AP: trampoline.asm.                                                  *)

apSame == <<cpu, blocks, need, taken, s_current_index, short, s_entry_lock, bspVars>>

Respond(a) ==
    /\ Move(a, "awake", "spin")
    /\ comm' = [comm EXCEPT !.ap_status = 1]
    /\ UNCHANGED <<context, apSame>>

SeeBsp(a) ==
    /\ Move(a, "spin", "ack")
    /\ comm.bsp_status # 0
    /\ UNCHANGED <<comm, context, apSame>>

Acknowledge(a) ==
    /\ Move(a, "ack", "tables")
    /\ comm' = [comm EXCEPT !.ap_status = 0]
    /\ UNCHANGED <<context, apSame>>

\* Loading CR3 turns paging on: a page table at address 0 is the end of the processor.
LoadTables(a) ==
    /\ Move(a, "tables", IF comm.pagetable_l4 = Null THEN "lost" ELSE "stack")
    /\ UNCHANGED <<comm, context, apSame>>

LoadStack(a) ==
    /\ Move(a, "stack", IF comm.stack = Null THEN "lost" ELSE "call")
    /\ blocks' = IF comm.stack = Null THEN blocks
                 ELSE [blocks EXCEPT ![a] = @ \cup Run(comm.stack, 2)]
    /\ UNCHANGED <<comm, context, cpu, need, taken, s_current_index, short, s_entry_lock, bspVars>>

\* rdi := ap_context, then call [cpu_init_ap].
CallInit(a) ==
    /\ Move(a, "call", IF comm.cpu_init_ap = Null THEN "lost" ELSE "init")
    /\ context' = [context EXCEPT ![a] = comm.ap_context]
    /\ UNCHANGED <<comm, apSame>>

Report_Silent(a) ==
    /\ Move(a, "report", "jump")
    /\ UNCHANGED <<comm, context, apSame>>

Report(a) ==
    /\ Move(a, "report", "jump")
    /\ comm' = [comm EXCEPT !.ap_status = 2]
    /\ UNCHANGED <<context, apSame>>

\* jmp [scheduler_entry]: the last read of the page, after the BSP has been told.
Jump(a) ==
    /\ Move(a, "jump", IF comm.scheduler_entry = Null THEN "lost" ELSE "gate")
    /\ UNCHANGED <<comm, context, apSame>>

\* scheduler_entry(0)
EnterScheduler_Ungated(a) ==
    /\ Move(a, "gate", "scheduling")
    /\ UNCHANGED <<comm, context, apSame>>

EnterScheduler(a) ==
    /\ Move(a, "gate", "scheduling")
    /\ s_entry_lock
    /\ UNCHANGED <<comm, context, apSame>>

------------------------------------------------------------------------------
(* The BSP: local_apic_start_smp, and the rest of setup_post around it.     *)

bspSame == <<cpu, context, need, s_entry_lock>>
memSame == <<taken, s_current_index, short, blocks>>

RequestContexts ==
    /\ Move(Bsp, "contexts", "loop")
    /\ \E b \in Frame : pageframe_request_pages(ContextPages, b) /\ contexts' = b
    /\ UNCHANGED <<comm, blocks, i, ai, sleep, irq0, ready, bspSame>>

NextProcessor_CountsBsp ==
    /\ pc[Bsp] = "loop"
    /\ \/ i > Len(Processors) /\ Move(Bsp, "loop", "free") /\ UNCHANGED <<i, ai>>
       \/ /\ i <= Len(Processors) /\ Processors[i] = Bsp
          /\ i' = i + 1 /\ ai' = ai + 1 /\ UNCHANGED pc
       \/ /\ i <= Len(Processors) /\ Processors[i] # Bsp
          /\ Move(Bsp, "loop", "copy") /\ UNCHANGED <<i, ai>>
    /\ UNCHANGED <<comm, contexts, sleep, irq0, ready, memSame, bspSame>>

\* The for loop: skip the processor this code runs on; leave after the last one.
NextProcessor ==
    /\ pc[Bsp] = "loop"
    /\ \/ i > Len(Processors) /\ Move(Bsp, "loop", "free") /\ UNCHANGED i
       \/ /\ i <= Len(Processors) /\ Processors[i] = Bsp
          /\ i' = i + 1 /\ UNCHANGED pc
       \/ /\ i <= Len(Processors) /\ Processors[i] # Bsp
          /\ Move(Bsp, "loop", "copy") /\ UNCHANGED i
    /\ UNCHANGED <<comm, contexts, ai, sleep, irq0, ready, memSame, bspSame>>

\* memcpy of the trampoline over what the AP before it used.
CopyTrampoline ==
    /\ Move(Bsp, "copy", "init_ipi")
    /\ comm' = Cleared
    /\ UNCHANGED <<bspVars, memSame, bspSame>>

\* INIT and INIT de-assert: the target waits for a startup message.
SendInit ==
    /\ pc[Bsp] = "init_ipi"
    /\ pc' = [pc EXCEPT ![Bsp] = "init_sleep", ![Processors[i]] = "wait"]
    /\ sleep' = pit_ticks(10)
    /\ UNCHANGED <<comm, contexts, i, ai, irq0, ready, memSame, bspSame>>

\* A startup message moves a processor that waits for one, and no other.
SendStartup(from, to) ==
    /\ pc[Bsp] = from
    /\ pc' = [pc EXCEPT ![Bsp] = to,
                        ![Processors[i]] = IF @ = "wait" THEN "awake" ELSE @]
    /\ sleep' = pit_ticks(1)
    /\ UNCHANGED <<comm, contexts, i, ai, irq0, ready, memSame, bspSame>>

\* while(ap_status == 0) sleep
PollResponse ==
    /\ pc[Bsp] = "poll"
    /\ \/ comm.ap_status = 0 /\ Move(Bsp, "poll", "poll_sleep") /\ sleep' = pit_ticks(1)
       \/ comm.ap_status # 0 /\ Move(Bsp, "poll", "configure") /\ UNCHANGED sleep
    /\ UNCHANGED <<comm, contexts, i, ai, irq0, ready, memSame, bspSame>>

Configure_SameContext ==
    /\ Move(Bsp, "configure", "go")
    /\ \E b \in Frame :
          /\ pageframe_request_pages(2, b)
          /\ comm' = [comm EXCEPT !.stack = b, !.ap_context = 0, !.cpu_init_ap = "cpu_init_ap",
                                  !.scheduler_entry = "scheduler_entry", !.pagetable_l4 = "kernel"]
    /\ UNCHANGED <<blocks, bspVars, bspSame>>

\* A stack and a context for this AP, and where to go with them.
Configure ==
    /\ Move(Bsp, "configure", "go")
    /\ \E b \in Frame :
          /\ pageframe_request_pages(2, b)
          /\ comm' = [comm EXCEPT !.stack = b, !.ap_context = ai, !.cpu_init_ap = "cpu_init_ap",
                                  !.scheduler_entry = "scheduler_entry", !.pagetable_l4 = "kernel"]
    /\ UNCHANGED <<blocks, bspVars, bspSame>>

Go ==
    /\ Move(Bsp, "go", "done_sleep")
    /\ comm' = [comm EXCEPT !.bsp_status = 1]
    /\ sleep' = pit_ticks(1)
    /\ UNCHANGED <<contexts, i, ai, irq0, ready, memSame, bspSame>>

AwaitDone_Once ==
    /\ Move(Bsp, "await", "loop")
    /\ i' = i + 1 /\ ai' = ai + 1
    /\ UNCHANGED <<comm, sleep, contexts, irq0, ready, memSame, bspSame>>

\* do sleep while(ap_status == 0), then the next processor.
AwaitDone ==
    /\ pc[Bsp] = "await"
    /\ \/ /\ comm.ap_status = 0
          /\ Move(Bsp, "await", "done_sleep") /\ sleep' = pit_ticks(1) /\ UNCHANGED <<i, ai>>
       \/ /\ comm.ap_status # 0
          /\ Move(Bsp, "await", "loop") /\ i' = i + 1 /\ ai' = ai + 1 /\ UNCHANGED sleep
    /\ UNCHANGED <<comm, contexts, irq0, ready, memSame, bspSame>>

\* Where a sleep returns to.
AfterSleep == [init_sleep |-> "startup1", startup1_sleep |-> "startup2", startup2_sleep |-> "poll",
               poll_sleep |-> "poll", done_sleep |-> "await"]
Asleep == DOMAIN AfterSleep

\* An AP that has something to do within a handful of instructions.
Answering(a) == pc[a] \in {"awake", "ack"} \/ (pc[a] = "spin" /\ comm.bsp_status # 0)

\* IRQ0 reaches the halted BSP and pit_sleep looks at the clock again.
Tick ==
    /\ pc[Bsp] \in Asleep
    /\ irq0
    /\ Prompt => \A a \in AP : ~Answering(a)
    /\ sleep' = sleep - 1
    /\ pc' = [pc EXCEPT ![Bsp] = IF sleep = 1 THEN AfterSleep[@] ELSE @]
    /\ UNCHANGED <<comm, contexts, i, ai, irq0, ready, memSame, bspSame>>

\* pageframe_free(ap_contexts, ap_context_pages): the index goes back to the first frame unlocked.
FreeContexts ==
    /\ Move(Bsp, "free", "mask")
    /\ LET freed == Run(contexts, ContextPages) \cap taken IN
          /\ taken' = taken \ freed
          /\ s_current_index' \in freed \cup {s_current_index}
          /\ \A f \in freed \cup {s_current_index} : s_current_index' <= f
    /\ UNCHANGED <<comm, blocks, short, bspVars, bspSame>>

\* setup_post: ioapic_entry_set_mask, then process_init and scheduler_init.
MaskPit ==
    /\ Move(Bsp, "mask", "tasks")
    /\ irq0' = FALSE
    /\ UNCHANGED <<comm, contexts, i, ai, sleep, ready, memSame, bspSame>>

SetupTasks ==
    /\ Move(Bsp, "tasks", "gate")
    /\ ready' = TRUE
    /\ UNCHANGED <<comm, contexts, i, ai, sleep, irq0, memSame, bspSame>>

\* scheduler_entry(1)
OpenGate ==
    /\ Move(Bsp, "gate", "scheduling")
    /\ s_entry_lock' = TRUE
    /\ UNCHANGED <<comm, cpu, context, need, bspVars, memSame>>

------------------------------------------------------------------------------
ApStep(a) ==
    \/ Respond(a) \/ SeeBsp(a) \/ Acknowledge(a) \/ LoadTables(a) \/ LoadStack(a) \/ CallInit(a)
    \/ InitContext(a) \/ Allocate(a) \/ Report(a) \/ Jump(a) \/ EnterScheduler(a)

BspStep ==
    \/ InitContext(Bsp) \/ Allocate(Bsp) \/ RequestContexts \/ NextProcessor \/ CopyTrampoline
    \/ SendInit \/ SendStartup("startup1", "startup1_sleep") \/ SendStartup("startup2", "startup2_sleep")
    \/ PollResponse \/ Configure \/ Go \/ AwaitDone \/ FreeContexts \/ MaskPit \/ SetupTasks \/ OpenGate

Next == BspStep \/ Tick \/ \E a \in AP : ApStep(a)

Spec == Init /\ [][Next]_vars

\* Processors run, and the PIT keeps ticking.
FairSpec == Spec /\ WF_vars(BspStep) /\ WF_vars(Tick) /\ \A a \in AP : WF_vars(ApStep(a))

------------------------------------------------------------------------------
(* Properties.                                                              *)

TypeOK ==
    /\ pc \in [CPU -> {"off", "wait", "awake", "spin", "ack", "tables", "stack", "call", "init",
                       "allocate", "report", "jump", "gate", "scheduling", "lost", "contexts", "loop",
                       "copy", "init_ipi", "startup1", "startup2", "poll", "configure", "go", "await",
                       "free", "mask", "tasks"} \cup Asleep]
    /\ comm \in [ap_status : 0..2, bsp_status : 0..1, stack : Frame \cup {Null},
                 ap_context : ContextPtr \cup {Null}, cpu_init_ap : {"cpu_init_ap", Null},
                 scheduler_entry : {"scheduler_entry", Null}, pagetable_l4 : {"kernel", Null}]
    /\ taken \subseteq Frame /\ s_current_index \in 0..FramesNum + 1 + ContextPages
    /\ blocks \in [CPU -> SUBSET (0..FramesNum)]
    /\ cpu \in [ContextPtr -> CPU \cup {Null}]
    /\ context \in [CPU -> ContextPtr \cup {Null}]
    /\ need \in [CPU -> 0..Len(StackPages)]
    /\ contexts \in Frame \cup {Null}
    /\ i \in 1..Len(Processors) + 1 /\ ai \in 0..Len(Processors) - 1
    /\ sleep \in Nat
    /\ irq0 \in BOOLEAN /\ ready \in BOOLEAN /\ s_entry_lock \in BOOLEAN /\ short \in BOOLEAN

\* Past cpu_init_common.
Initialised(c) == pc[c] \in {"allocate", "report", "jump", "gate", "scheduling"}

\* As long as memory lasts, no frame of a stack or a descriptor table serves two processors, each
\* of those frames is locked, and a processor that has begun cpu_init has a context that names it,
\* and so one of its own (local_apic_start_smp's ai and pageframe_request_pages, cpu_init_common).
OwnMemory ==
    ~short =>
      /\ \A c, d \in CPU : c # d => blocks[c] \cap blocks[d] = {}
      /\ \A c \in CPU : blocks[c] \subseteq taken
      /\ \A a \in AP : Initialised(a) => context[a] \in ContextPtr /\ cpu[context[a]] = a

\* Between its wake-up and its report.
Inside(a) == pc[a] \in {"awake", "spin", "ack", "tables", "stack", "call", "init", "allocate", "report"}

\* Between its wake-up and its report an AP reads the trampoline page again and again
\* (trampoline.asm).  While the sleeps outlast its answers, the BSP never rewrites the page in that
\* time, and never has two APs in it.
OneInTrampoline ==
    Prompt => /\ \A a, d \in AP : Inside(a) /\ Inside(d) => a = d
              /\ pc[Bsp] \in {"copy", "free"} => \A a \in AP : ~Inside(a)

\* No processor enters the scheduler before scheduler_init has built the queues and the idle node,
\* nor while the PIT, whose interrupt only the BSP's start-up needs, still interrupts
\* (scheduler_entry's s_entry_lock and the order of setup_post).
GateAfterSetup == \A c \in CPU : pc[c] = "scheduling" => ready /\ ~irq0

\* The BSP gets through local_apic_start_smp and enters the scheduler, and every AP answers its
\* start-up and reaches its last jump.
BootEnds == <>(pc[Bsp] = "scheduling" /\ \A a \in AP : pc[a] \in {"jump", "gate", "scheduling", "lost"})

\* trampoline.asm: "Finish up and begin scheduling work".  An AP that has reported reaches the
\* scheduler.
BeginsScheduling == \A a \in AP : pc[a] # "lost"
==============================================================================
