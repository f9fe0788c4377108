------------------------------- MODULE Context -------------------------------
(****************************************************************************)
(* What a processor carries from task to task: the timer interrupt that     *)
(* switches tasks (timer.asm), the system call path (syscall.asm), and the  *)
(* creation of the processes that run (process_create_new).  The registers, *)
(* the pair GSBASE / KERNELGSBASE that swapgs exchanges, CR3 and the kernel *)
(* stack all have to follow the task.                                       *)
(*                                                                          *)
(* scheduler_next_task is taken by what it promises, TaskPool: the current  *)
(* task is put back or retired, then a ready task or the idle node is       *)
(* taken.  Module Scheduler shows that it keeps that promise.               *)
(****************************************************************************)
EXTENDS Naturals, FiniteSets

CONSTANTS
    CPU,            \* processors, and their CPUContext
    Task,           \* scheduler nodes of tasks, and their user stacks and processes
    Idle,           \* s_idle_node
    Null, Wild,     \* no value; whatever lies at an address nobody meant
    Envs,           \* what an environment may begin with: "stack", another element, or "none" at all
    MaxValue        \* register contents are counted modulo MaxValue + 1

Node == Task \cup {Idle}

ASSUME ContextAssumption ==
    /\ Idle \notin Task \cup CPU /\ CPU \cap Task = {}
    /\ {Null, Wild} \cap (CPU \cup Node) = {} /\ Null # Wild
    /\ MaxValue \in Nat

VARIABLES
    mode,           \* what each processor executes
    regs,           \* its registers; in the timer handler, the frame on its timer stack
    self,           \* the word "self" at the top of its timer stack
    gs, kgs,        \* GSBASE and KERNELGSBASE
    cr3,            \* its page tables: the kernel's (Idle) or those of a task's process
    rsp_userspace,  \* CPUContext.rsp_userspace
    kstack,         \* what a system call has pushed on each kernel stack
    frame,          \* SchedulerNode.context_frame
    process,        \* Thread.process: the task's own process once set
    flags,          \* tasks with the FINISHED flag
    ready, running, \* TaskPool: tasks in the queues, and locked by a processor
    retired,        \* tasks taken out of the queues for good
    maker,          \* process_create_new: where it is,
    making, env,    \* the task it makes, and what the environment it was given begins with
    entered,        \* scheduler_entry has been passed by the boot processor
    value,          \* what each task last computed (history)
    calls           \* what has happened to the system calls so far (history): all went on as they
                    \* were made ("whole"), the timer has interrupted one ("interrupted"), or one has
                    \* taken a node for a CPUContext, or the reverse, or another node, or run past
                    \* its end ("astray")

poolVars == <<ready, running, retired>>
makeVars == <<maker, making, env, process, entered>>
cpuVars == <<mode, regs, self, gs, kgs, cr3, rsp_userspace, kstack>>
histVars == <<value, calls>>
vars == <<cpuVars, frame, flags, poolVars, makeVars, histVars>>

Pool == INSTANCE TaskPool WITH None <- Null

\* A register frame: the code it is in, its stack, and the rest of the registers.  A user stack is
\* known by the task that has it; rsp is NULL for a task without an environment until its code
\* sets it, and its own all the same.
Frame(at, stack, val) == [at |-> at, stack |-> stack, val |-> val]

\* s_idle_node's frame: scheduler_idle, on no stack.
IdleFrame == Frame("idle", Null, 0)

Init ==
    /\ mode = [c \in CPU |-> "gate"]
    /\ regs = [c \in CPU |-> Frame("idle", c, 0)]
    /\ self = [c \in CPU |-> Null]
    /\ gs = [c \in CPU |-> Null] /\ kgs = [c \in CPU |-> c]
    /\ cr3 = [c \in CPU |-> Idle]
    /\ rsp_userspace = [c \in CPU |-> Null]
    /\ kstack = [c \in CPU \cup {Wild} |-> Wild]
    /\ frame = [n \in Node |-> IdleFrame]
    /\ process = [t \in Task |-> Null]
    /\ flags = {} /\ retired = {}
    /\ Pool!Init
    /\ maker = "next" /\ making = Null /\ env = Null
    /\ entered = FALSE
    /\ value = [t \in Task |-> 0] /\ calls = "whole"

\* Processor c gets on.  Memory nobody meant is read and written once a system call is astray: what
\* the machine does from there is not followed.
Move(c, from, to) ==
    /\ calls # "astray" /\ mode[c] = from
    /\ mode' = [mode EXCEPT ![c] = to]

------------------------------------------------------------------------------
(* setup_tasks: process_create_new for each process, then scheduler_entry.  *)

\* malloc, the parent's lock, the pid and the page map of the new process.
CreateProcess ==
    /\ maker = "next"
    /\ \E t \in Task : t \notin ready /\ making' = t
    /\ env' \in Envs
    /\ maker' = "stack"
    /\ UNCHANGED <<cpuVars, frame, flags, poolVars, process, entered, histVars>>

FindStack_NeedsOne ==
    /\ maker = "stack"
    /\ maker' = IF env = "stack" THEN "add" ELSE "stack"
    /\ UNCHANGED <<cpuVars, frame, flags, poolVars, making, env, process, entered, histVars>>

\* The search for the stack never moves on from the first element of the environment, so it ends
\* only when that element is the stack or there is none; else it keeps the parent locked for ever.
FindStack ==
    /\ maker = "stack"
    /\ maker' = IF env \in {"stack", "none"} THEN "add" ELSE "stack"
    /\ UNCHANGED <<cpuVars, frame, flags, poolVars, making, env, process, entered, histVars>>

\* scheduler_add_task: the node has its first frame and is in a queue.
AddTask ==
    /\ maker = "add"
    /\ Pool!Add(making)
    /\ frame' = [frame EXCEPT ![making] = Frame("user", making, value[making])]
    /\ maker' = "link"
    /\ UNCHANGED <<cpuVars, flags, retired, making, env, process, entered, histVars>>

\* Only now does the node learn its process; then _process_add and the unlock.
LinkProcess ==
    /\ maker = "link"
    /\ process' = [process EXCEPT ![making] = making]
    /\ maker' = "next" /\ env' = Null /\ making' = Null
    /\ UNCHANGED <<cpuVars, frame, flags, poolVars, entered, histVars>>

OpenGate_Early ==
    /\ maker \in {"next", "link"} /\ ~entered
    /\ entered' = TRUE
    /\ UNCHANGED <<cpuVars, frame, flags, poolVars, process, maker, making, env, histVars>>

\* The boot processor leaves setup_tasks and opens s_entry_lock.
OpenGate ==
    /\ maker = "next" /\ ~entered
    /\ entered' = TRUE /\ maker' = "done"
    /\ UNCHANGED <<cpuVars, frame, flags, poolVars, process, making, env, histVars>>

\* scheduler_entry: GSBASE is cleared, and the processor idles until its first timer interrupt.
EnterScheduler(c) ==
    /\ Move(c, "gate", "idle")
    /\ entered
    /\ gs' = [gs EXCEPT ![c] = Null]
    /\ UNCHANGED <<regs, self, kgs, cr3, rsp_userspace, kstack, frame, flags, poolVars, makeVars, histVars>>

------------------------------------------------------------------------------
(* A task, and its system calls.                                            *)

\* User code computes.
Compute(c) ==
    /\ Move(c, "user", "user")
    /\ regs' = [regs EXCEPT ![c].val = (@ + 1) % (MaxValue + 1)]
    /\ value' = [value EXCEPT ![running[c]] = (@ + 1) % (MaxValue + 1)]
    /\ UNCHANGED <<self, gs, kgs, cr3, rsp_userspace, kstack, frame, flags, poolVars, makeVars, calls>>

swapgs(c) ==
    /\ gs' = [gs EXCEPT ![c] = kgs[c]]
    /\ kgs' = [kgs EXCEPT ![c] = gs[c]]

\* gs:stack_kernel and gs:rsp_userspace, when gs holds g.
StackKernel(g) == IF g \in CPU THEN g ELSE Wild
RspUserspace(g) == IF g \in CPU THEN rsp_userspace[g] ELSE Wild

\* syscall_entry: swapgs, save the user stack in the CPU's context, take its kernel stack, push.
SyscallEntry(c) ==
    /\ Move(c, "user", "sys")
    /\ swapgs(c)
    /\ rsp_userspace' = IF gs'[c] \in CPU THEN [rsp_userspace EXCEPT ![gs'[c]] = regs[c].stack]
                        ELSE rsp_userspace
    /\ kstack' = [kstack EXCEPT ![StackKernel(gs'[c])] = regs[c].val]
    /\ regs' = [regs EXCEPT ![c] = Frame("sys", StackKernel(gs'[c]), 0)]
    /\ calls' = IF gs'[c] \in CPU THEN calls ELSE "astray"
    /\ UNCHANGED <<self, cr3, frame, flags, poolVars, makeVars, value>>

SyscallReturn_NoSwap(c) ==
    /\ Move(c, "sys", "user")
    /\ regs' = [regs EXCEPT ![c] = Frame("user", RspUserspace(gs[c]), kstack[regs[c].stack])]
    /\ UNCHANGED <<self, gs, kgs, cr3, rsp_userspace, kstack, frame, flags, poolVars, makeVars, histVars>>

\* .sysret_exit: pop what was pushed, take the user stack back, swapgs, sysret.
SyscallReturn(c) ==
    /\ Move(c, "sys", "user")
    /\ regs' = [regs EXCEPT ![c] = Frame("user", RspUserspace(gs[c]), kstack[regs[c].stack])]
    /\ swapgs(c)
    /\ calls' = IF gs[c] \in CPU THEN calls ELSE "astray"
    /\ UNCHANGED <<self, cr3, rsp_userspace, kstack, frame, flags, poolVars, makeVars, value>>

\* .kernel_exit after sys_exit: swapgs, FINISHED in the node gs points at, hlt.
SyscallExit(c) ==
    /\ Move(c, "sys", "halt")
    /\ swapgs(c)
    /\ flags' = flags \cup ({gs'[c]} \cap Task)
    /\ regs' = [regs EXCEPT ![c].at = "halt"]
    /\ calls' = IF gs'[c] = running[c] THEN calls ELSE "astray"
    /\ UNCHANGED <<self, cr3, rsp_userspace, kstack, frame, poolVars, makeVars, value>>

\* An interrupt that is not the timer's ends the hlt too, and syscall_entry has no code behind it.
Wake(c) ==
    /\ Move(c, "halt", "halt")
    /\ calls' = "astray"
    /\ UNCHANGED <<regs, self, gs, kgs, cr3, rsp_userspace, kstack, frame, flags, poolVars, makeVars, value>>

------------------------------------------------------------------------------
(* timer_handler.                                                           *)

\* The interrupt pushes the frame on the timer stack; the handler takes the kernel's page tables.
\* Interrupts are on in a system call too: syscall_enable leaves the FMASK register as it is.
Timer(c) ==
    /\ mode[c] \in {"user", "idle", "halt", "sys"} /\ Move(c, mode[c], "save")
    /\ cr3' = [cr3 EXCEPT ![c] = Idle]
    /\ calls' = IF mode[c] = "sys" /\ calls = "whole" THEN "interrupted" ELSE calls
    /\ UNCHANGED <<regs, self, gs, kgs, rsp_userspace, kstack, frame, flags, poolVars, makeVars, value>>

Save_NoTest(c) ==
    /\ Move(c, "save", "put")
    /\ frame' = [n \in DOMAIN frame \cup {self[c]} |-> IF n = self[c] THEN regs[c] ELSE frame[n]]
    /\ UNCHANGED <<regs, self, gs, kgs, cr3, rsp_userspace, kstack, flags, poolVars, makeVars, histVars>>

Save_OnlyInterrupt(c) ==
    /\ Move(c, "save", "put")
    /\ frame' = IF self[c] = Null THEN frame
                ELSE [frame EXCEPT ![self[c]] = [regs[c] EXCEPT !.val = frame[self[c]].val]]
    /\ UNCHANGED <<regs, self, gs, kgs, cr3, rsp_userspace, kstack, flags, poolVars, makeVars, histVars>>

\* .copy, unless there is no current task yet.
Save(c) ==
    /\ Move(c, "save", "put")
    /\ frame' = IF self[c] = Null THEN frame ELSE [frame EXCEPT ![self[c]] = regs[c]]
    /\ UNCHANGED <<regs, self, gs, kgs, cr3, rsp_userspace, kstack, flags, poolVars, makeVars, histVars>>

PutBack_Unfinished(c) ==
    /\ Move(c, "put", "pick")
    /\ \/ self[c] \notin Task /\ UNCHANGED poolVars
       \/ self[c] \in Task /\ Pool!Preempt(c) /\ UNCHANGED retired
    /\ UNCHANGED <<regs, self, gs, kgs, cr3, rsp_userspace, kstack, frame, flags, makeVars, histVars>>

\* scheduler_next_task, first half: the current task goes back to its queue, or for ever.
PutBack(c) ==
    /\ Move(c, "put", "pick")
    /\ \/ self[c] \notin Task /\ UNCHANGED poolVars
       \/ self[c] \in Task \ flags /\ Pool!Preempt(c) /\ UNCHANGED retired
       \/ self[c] \in flags /\ Pool!Retire(c) /\ retired' = retired \cup {self[c]}
    /\ UNCHANGED <<regs, self, gs, kgs, cr3, rsp_userspace, kstack, frame, flags, makeVars, histVars>>

\* Second half: a task that is ready, or the idle node; it becomes "self".
Pick(c) ==
    /\ Move(c, "pick", "load")
    /\ \/ \E t \in ready \ flags : Pool!Dispatch(c, t) /\ self' = [self EXCEPT ![c] = t]
       \/ self' = [self EXCEPT ![c] = Idle] /\ UNCHANGED <<ready, running>>
    /\ UNCHANGED <<regs, gs, kgs, cr3, rsp_userspace, kstack, frame, flags, retired, makeVars, histVars>>

\* GSBASE and CR3 for the new task, end of interrupt, its registers, iretq.
Load(c) ==
    /\ Move(c, "load", frame[self[c]].at)
    /\ regs' = [regs EXCEPT ![c] = frame[self[c]]]
    /\ gs' = [gs EXCEPT ![c] = self[c]]
    /\ cr3' = IF self[c] \in Task /\ process[self[c]] # Null
              THEN [cr3 EXCEPT ![c] = process[self[c]]] ELSE cr3
    /\ UNCHANGED <<self, kgs, rsp_userspace, kstack, frame, flags, poolVars, makeVars, histVars>>

------------------------------------------------------------------------------
Setup == CreateProcess \/ FindStack \/ AddTask \/ LinkProcess \/ OpenGate

Handler(c) == Save(c) \/ PutBack(c) \/ Pick(c) \/ Load(c)

Step(c) ==
    \/ EnterScheduler(c) \/ Timer(c) \/ Handler(c)
    \/ Compute(c) \/ SyscallEntry(c) \/ SyscallReturn(c) \/ SyscallExit(c) \/ Wake(c)

Astray == calls = "astray" /\ UNCHANGED vars

Next == Setup \/ Astray \/ \E c \in CPU : Step(c)

Spec == Init /\ [][Next]_vars

\* The boot processor gets on with setup_tasks and opens the gate in the end; every processor passes
\* it; the local APIC timer is periodic; and the handler runs to its end.
FairSpec ==
    /\ Spec
    /\ WF_vars(FindStack) /\ WF_vars(AddTask) /\ WF_vars(LinkProcess) /\ WF_vars(OpenGate)
    /\ \A c \in CPU : WF_vars(EnterScheduler(c)) /\ WF_vars(Timer(c)) /\ WF_vars(Handler(c))

------------------------------------------------------------------------------
(* Properties.                                                              *)

FrameType == [at : {"user", "idle", "sys", "halt"}, stack : CPU \cup Task \cup {Null, Wild},
              val : 0..MaxValue]

TypeOK ==
    /\ mode \in [CPU -> {"gate", "idle", "user", "sys", "halt", "save", "put", "pick", "load"}]
    /\ regs \in [CPU -> FrameType]
    /\ self \in [CPU -> Node \cup {Null}]
    /\ gs \in [CPU -> CPU \cup Node \cup {Null}] /\ kgs \in [CPU -> CPU \cup Node \cup {Null}]
    /\ cr3 \in [CPU -> Node]
    /\ rsp_userspace \in [CPU -> CPU \cup Task \cup {Null, Wild}]
    /\ kstack \in [CPU \cup {Wild} -> 0..MaxValue \cup {Wild}]
    /\ frame \in [Node -> FrameType]
    /\ process \in [Task -> Task \cup {Null}]
    /\ flags \subseteq Task /\ retired \subseteq Task /\ ready \subseteq Task
    /\ running \in [CPU -> Task \cup {Null}]
    /\ maker \in {"next", "stack", "add", "link", "done"} /\ making \in Task \cup {Null}
    /\ env \in Envs \cup {Null}
    /\ entered \in BOOLEAN
    /\ value \in [Task -> 0..MaxValue] /\ calls \in {"whole", "interrupted", "astray"}

InTask(c) == mode[c] \in {"user", "sys", "halt"}

\* swapgs is always taken in pairs (syscall.asm:87-117), as long as the timer interrupts no system
\* call: in user code GSBASE is the running task's node and KERNELGSBASE the processor's own context,
\* in a system call the other way round, and sys_exit sets FINISHED in the node of the task that
\* called it, and in no other.
GsPaired ==
    calls = "whole" =>
        \A c \in CPU :
            /\ mode[c] \in {"user", "halt"} => gs[c] = running[c] /\ kgs[c] = c
            /\ mode[c] = "sys" => gs[c] = c /\ kgs[c] = running[c]
            /\ mode[c] = "halt" => running[c] \in flags
            /\ mode[c] \in {"user", "sys"} => running[c] \notin flags

\* A task goes on with the registers and the stack it was interrupted with or made its system call
\* with, whichever processor it goes on at, and in a queue they are in its node, as long as the timer
\* interrupts no system call.  The idle node, which all processors save to and load from, never holds
\* anything but the idle loop (timer.asm:38-57, syscall.asm:90-109).
OwnFrame ==
    /\ calls = "whole" =>
          /\ \A c \in CPU :
                /\ mode[c] = "user" => regs[c] = Frame("user", running[c], value[running[c]])
                /\ mode[c] = "sys" => /\ regs[c].stack = c
                                      /\ kstack[c] = value[running[c]] /\ rsp_userspace[c] = running[c]
          /\ \A t \in ready : frame[t] = Frame("user", t, value[t])
    /\ calls # "astray" => frame[Idle] = IdleFrame

\* A task executes under the page tables of its own process, and a processor that idles or schedules
\* under the kernel's, in an interrupted system call too: CR3 follows Thread.process, which
\* process_create_new sets after it has published the node (timer.asm:34-67, process.c:110-111).
OwnTables ==
    calls # "astray" => \A c \in CPU : cr3[c] = IF InTask(c) THEN running[c] ELSE Idle

\* sys_exit ends the task: the processor it halts on takes its timer interrupt and the task leaves the
\* queues, unless the call has lost its node or another interrupt comes first (syscall.asm:112-117,
\* scheduler_next_task).
ExitRetires ==
    \A t \in Task :
        (calls # "astray" /\ \E c \in CPU : mode[c] = "halt" /\ running[c] = t)
            ~> (t \in retired \/ calls = "astray")

\* process_create_new returns when the environment is empty or begins with its stack, so setup_tasks
\* comes to an end and every processor to its idle loop, unless a system call goes astray on another
\* before (process.c:97-102, scheduler.asm).
SetupEnds == \A c \in CPU : <>(mode[c] # "gate" \/ calls = "astray")

\* syscall.asm: "save userspace stack" on the way in, "load userspace stack (no need to save the kernel
\* stack)" on the way out.  A task in user code is on its own stack.
OwnStack == \A c \in CPU : mode[c] = "user" => regs[c].stack = running[c]
==============================================================================
