---------------------------- MODULE ContextFrames ----------------------------
(****************************************************************************)
(* swapgs stays paired and the registers of every task are kept through     *)
(* context switches and system calls until the timer interrupts a system    *)
(* call: the second half of the invariant of ContextProofs, and the         *)
(* theorems the two halves give.                                            *)
(****************************************************************************)
EXTENDS ContextProofs

\* Where the two GS bases of processor c are, and which task has finished.
Paired(c) ==
    /\ mode[c] # "sys" => kgs[c] = c
    /\ mode[c] \in {"user", "halt"} => gs[c] = running[c]
    /\ mode[c] = "sys" => gs[c] = c /\ kgs[c] = running[c]
    /\ mode[c] = "halt" => running[c] \in flags
    /\ mode[c] \in {"user", "sys"} => running[c] \notin flags
    /\ mode[c] = "load" => self[c] \notin flags

\* Where the registers of the task of processor c are.
Kept(c) ==
    /\ mode[c] = "user" => regs[c] = Frame("user", running[c], value[running[c]])
    /\ mode[c] = "sys" => regs[c].stack = c /\ kstack[c] = value[running[c]] /\ rsp_userspace[c] = running[c]
    /\ mode[c] = "save" /\ self[c] \in Task \ flags => regs[c] = Frame("user", self[c], value[self[c]])
    /\ mode[c] \in {"put", "load"} /\ self[c] \in Task \ flags => frame[self[c]] = Frame("user", self[c], value[self[c]])

\* Where those of the tasks in the queues are.
Queued == \A t \in ready : t \notin flags /\ frame[t] = Frame("user", t, value[t])

\* The part of the invariant that every step keeps, and the part that lasts while every call is whole.
Lasting ==
    /\ TypeOK /\ (\A c \in CPU : Carried(c)) /\ (\A c \in CPU : Resumes(c))
    /\ AllPushed /\ Shared /\ Made
Undisturbed == (\A c \in CPU : Paired(c)) /\ (\A c \in CPU : Kept(c)) /\ Queued

------------------------------------------------------------------------------
\* Calls that are all whole were so before, and the timer has not just interrupted one.
LEMMA WholeBefore ==
    ASSUME [Next]_vars, calls' = "whole"
    PROVE  calls = "whole" /\ \A c \in CPU : Timer(c) => mode[c] # "sys"
<1> USE DEF histVars
<1>1. \A c \in CPU : Timer(c) => calls = "whole" /\ mode[c] # "sys" BY DEF Timer
<1>2. CASE Setup BY <1>1, <1>2, Zenon DEF Setup, CreateProcess, FindStack, AddTask, LinkProcess, OpenGate
<1>3. ASSUME NEW c \in CPU, Step(c) PROVE calls = "whole"
  <2>1. CASE EnterScheduler(c) BY <2>1, Zenon DEF EnterScheduler
  <2>2. CASE Handler(c) BY <2>2, Zenon DEF Handler, Save, PutBack, Pick, Load
  <2>3. CASE Compute(c) BY <2>3, Zenon DEF Compute
  <2>4. CASE SyscallEntry(c) BY <2>4 DEF SyscallEntry
  <2>5. CASE SyscallReturn(c) BY <2>5 DEF SyscallReturn
  <2>6. CASE SyscallExit(c) BY <2>6 DEF SyscallExit
  <2>7. CASE Wake(c) BY <2>7 DEF Wake
  <2> QED BY <1>1, <1>3, <2>1, <2>2, <2>3, <2>4, <2>5, <2>6, <2>7, Zenon DEF Step
<1>4. CASE UNCHANGED vars BY <1>1, <1>4, Zenon DEF vars
<1> QED BY <1>1, <1>2, <1>3, <1>4, Zenon DEF Next, Astray

\* swapgs stays paired.
LEMMA PairedStep ==
    ASSUME Lasting, Undisturbed, [Next]_vars, calls' = "whole"
    PROVE  \A d \in CPU : Paired(d)'
<1>0. CarriedTypes /\ (\A c \in CPU : Carried(c)) /\ (\A c \in CPU : Resumes(c)) /\ Shared /\ Made
  BY Zenon DEF Lasting, TypeOK, CarriedTypes
<1>9. (\A c \in CPU : Paired(c)) /\ (\A c \in CPU : Kept(c)) /\ Queued BY Zenon DEF Undisturbed
<1> USE ContextAssumption, <1>0, <1>9
        DEF CarriedTypes, Carried, Paired, Made, Move, Node, cpuVars, poolVars, makeVars, histVars
<1>1. CASE Setup
  <2>1. CASE CreateProcess BY <2>1, Zenon DEF CreateProcess
  <2>2. CASE FindStack BY <2>2, Zenon DEF FindStack
  <2>3. CASE AddTask BY <2>3, Zenon DEF AddTask, Pool!Add
  <2>4. CASE LinkProcess BY <2>4, Zenon DEF LinkProcess
  <2>5. CASE OpenGate BY <2>5, Zenon DEF OpenGate
  <2> QED BY <1>1, <2>1, <2>2, <2>3, <2>4, <2>5, Zenon DEF Setup
<1>2. ASSUME NEW c \in CPU, Step(c) PROVE \A d \in CPU : Paired(d)'
  <2>1. CASE EnterScheduler(c) BY <2>1 DEF EnterScheduler
  <2>2. CASE Timer(c)
    <3>1. mode[c] # "sys" BY <2>2, WholeBefore, Zenon
    <3> QED BY <2>2, <3>1 DEF Timer
  <2>3. CASE Save(c) BY <2>3 DEF Save
  <2>4. CASE PutBack(c) BY <2>4 DEF PutBack, Pool!Preempt, Pool!Retire
  <2>5. CASE Pick(c) BY <2>5 DEF Pick, Pool!Dispatch
  <2>6. CASE Load(c)
    <3>0. mode[c] = "load" /\ self[c] \in Node BY <2>6, Zenon DEF Load
    <3>1. CASE self[c] \in Task
      <4>1. running[c] = self[c] /\ self[c] \notin flags BY <3>0, <3>1, Zenon
      <4>2. frame[self[c]].at = "user"
        <5>1. frame[self[c]] = Frame("user", self[c], value[self[c]]) BY <3>0, <3>1, <4>1, Zenon DEF Kept
        <5> QED BY <5>1 DEF Frame
      <4> QED BY <2>6, <3>1, <4>1, <4>2 DEF Load
    <3>2. CASE self[c] = Idle
      <4>1. frame[self[c]].at = "idle" BY <3>2 DEF Shared, IdleFrame, Frame
      <4> QED BY <2>6, <3>2, <4>1 DEF Load
    <3> QED BY <3>0, <3>1, <3>2, Zenon
  <2>7. CASE Compute(c)
    <3>1. mode' = mode BY <2>7 DEF Compute
    <3>2. UNCHANGED <<self, gs, kgs, running, flags>> BY <2>7, Zenon DEF Compute
    <3> QED BY <3>1, <3>2, Zenon
  <2>8. CASE SyscallEntry(c) BY <2>8 DEF SyscallEntry, swapgs, StackKernel
  <2>9. CASE SyscallReturn(c) BY <2>9 DEF SyscallReturn, swapgs, RspUserspace
  <2>10. CASE SyscallExit(c)
    <3>1. running[c] \in Task /\ flags' = flags \cup {running[c]} BY <2>10 DEF SyscallExit, swapgs
    <3>2. Paired(c)' BY <2>10, <3>1 DEF SyscallExit, swapgs
    <3>3. ASSUME NEW d \in CPU, d # c PROVE Paired(d)'
      <4>1. running[d] # running[c] BY <3>1, <3>3 DEF Shared
      <4>2. mode'[d] = mode[d] /\ kgs'[d] = kgs[d] /\ gs'[d] = gs[d] BY <2>10, <3>3 DEF SyscallExit, swapgs
      <4>3. UNCHANGED <<self, cr3, running>> BY <2>10, Zenon DEF SyscallExit
      <4> QED BY <3>1, <4>1, <4>2, <4>3
    <3> HIDE DEF Paired
    <3> QED BY <3>2, <3>3, Zenon
  <2>11. CASE Wake(c) BY <2>11 DEF Wake
  <2> QED BY <1>2, <2>1, <2>2, <2>3, <2>4, <2>5, <2>6, <2>7, <2>8, <2>9, <2>10, <2>11, Zenon DEF Step, Handler
<1>3. CASE UNCHANGED vars BY <1>3, Zenon DEF vars
<1> QED BY <1>1, <1>2, <1>3, Zenon DEF Next, Astray

\* The tasks in the queues have their registers in their nodes.
LEMMA QueuedStep ==
    ASSUME Lasting, Undisturbed, [Next]_vars, calls' = "whole"
    PROVE  Queued'
<1>0. SharedTypes /\ (\A c \in CPU : Carried(c)) /\ Shared /\ Made BY Zenon DEF Lasting, TypeOK, SharedTypes
<1>9. (\A c \in CPU : Paired(c)) /\ (\A c \in CPU : Kept(c)) /\ Queued BY Zenon DEF Undisturbed
<1> USE ContextAssumption, <1>0, <1>9
        DEF SharedTypes, Shared, Queued, Move, Node, cpuVars, poolVars, makeVars, histVars
<1>1. CASE Setup
  <2>1. CASE CreateProcess BY <2>1, Zenon DEF CreateProcess, Frame
  <2>2. CASE FindStack BY <2>2, Zenon DEF FindStack, Frame
  <2>3. CASE AddTask
    <3>1. making \in Task /\ flags = {} BY <2>3, Zenon DEF AddTask, Made
    <3>2. /\ ready' = ready \cup {making} /\ UNCHANGED <<flags, value>>
          /\ frame' = [frame EXCEPT ![making] = Frame("user", making, value[making])]
      BY <2>3, Zenon DEF AddTask, Pool!Add
    <3>3. frame'[making] = Frame("user", making, value[making]) BY <3>1, <3>2, Zenon
    <3>4. \A n \in Node : n # making => frame'[n] = frame[n] BY <3>2, Zenon
    <3> QED BY <3>1, <3>2, <3>3, <3>4, Zenon DEF Frame
  <2>4. CASE LinkProcess BY <2>4, Zenon DEF LinkProcess, Frame
  <2>5. CASE OpenGate BY <2>5, Zenon DEF OpenGate, Frame
  <2> QED BY <1>1, <2>1, <2>2, <2>3, <2>4, <2>5, Zenon DEF Setup
<1>2. ASSUME NEW c \in CPU, Step(c) PROVE Queued'
  <2>0. CASE UNCHANGED <<frame, ready, flags, value>> BY <2>0, Zenon DEF Frame
  <2>1. CASE EnterScheduler(c) \/ Timer(c) \/ Load(c) BY <2>0, <2>1, Zenon DEF EnterScheduler, Timer, Load
  <2>2. CASE SyscallEntry(c) \/ SyscallReturn(c) BY <2>0, <2>2, Zenon DEF SyscallEntry, SyscallReturn
  <2>3. CASE Save(c)
    <3>1. UNCHANGED <<ready, flags, value>> /\ mode[c] = "save" BY <2>3, Zenon DEF Save
    <3>2. \A n \in Node : n # self[c] => frame'[n] = frame[n] BY <2>3, Zenon DEF Save
    <3>3. self[c] \notin ready BY <3>1 DEF Carried
    <3>4. \A t \in ready : frame'[t] = frame[t] BY <3>2, <3>3
    <3> QED BY <3>1, <3>4, Zenon DEF Frame
  <2>4. CASE PutBack(c)
    <3>1. UNCHANGED <<frame, flags, value>> /\ mode[c] = "put" BY <2>4, Zenon DEF PutBack
    <3>2. CASE UNCHANGED poolVars BY <3>1, <3>2, Zenon DEF Frame
    <3>3. CASE self[c] \in Task \ flags /\ Pool!Preempt(c)
      <4>1. running[c] = self[c] BY <3>1, <3>3, Zenon DEF Carried
      <4>2. frame[self[c]] = Frame("user", self[c], value[self[c]]) BY <3>1, <3>3, Zenon DEF Kept
      <4>3. ready' = ready \cup {self[c]} BY <3>3, <4>1, Zenon DEF Pool!Preempt
      <4> QED BY <3>1, <3>3, <4>2, <4>3, Zenon
    <3>4. CASE Pool!Retire(c) BY <3>1, <3>4, Zenon DEF Pool!Retire, Frame
    <3> QED BY <2>4, <3>2, <3>3, <3>4, Zenon DEF PutBack
  <2>5. CASE Pick(c) BY <2>5 DEF Pick, Pool!Dispatch
  <2>6. CASE Compute(c)
    <3>1. running[c] \in Task /\ running[c] \notin ready BY <2>6, Zenon DEF Compute, Carried
    <3>2. \A t \in Task : t # running[c] => value'[t] = value[t] BY <2>6, Zenon DEF Compute, Lasting, TypeOK
    <3>3. UNCHANGED <<frame, ready, flags>> BY <2>6, Zenon DEF Compute
    <3>4. \A t \in ready : value'[t] = value[t] BY <3>1, <3>2, Zenon
    <3> QED BY <3>3, <3>4, Zenon DEF Frame
  <2>7. CASE SyscallExit(c)
    <3>1. flags' = flags \cup {running[c]}
      <4>1. mode[c] = "sys" /\ running[c] \in Task BY <2>7, Zenon DEF SyscallExit, Carried
      <4>2. gs'[c] = running[c] BY <2>7, <4>1, Zenon DEF SyscallExit, swapgs, Paired, Lasting, TypeOK
      <4> QED BY <2>7, <4>1, <4>2, Zenon DEF SyscallExit
    <3>2. UNCHANGED <<frame, value, ready, running>> BY <2>7, Zenon DEF SyscallExit
    <3>3. running[c] \notin ready BY Zenon
    <3> QED BY <3>1, <3>2, <3>3, Zenon DEF Frame
  <2>8. CASE Wake(c) BY <2>0, <2>8, Zenon DEF Wake
  <2> QED BY <1>2, <2>1, <2>2, <2>3, <2>4, <2>5, <2>6, <2>7, <2>8, Zenon DEF Step, Handler
<1>3. CASE UNCHANGED vars BY <1>3, Zenon DEF vars, Frame
<1> QED BY <1>1, <1>2, <1>3, Zenon DEF Next, Astray

\* What a step of another processor has to leave alone for processor d to keep its task's registers.
LEMMA KeptSame ==
    ASSUME NEW d \in CPU, Kept(d), UNCHANGED <<mode[d], regs[d], self[d], running[d], kstack[d], rsp_userspace[d]>>,
           mode[d] \in {"user", "sys"} => value'[running[d]] = value[running[d]],
           mode[d] \in {"save", "put", "load"} /\ self[d] \in Task => value'[self[d]] = value[self[d]],
           mode[d] \in {"put", "load"} /\ self[d] \in Task => frame'[self[d]] = frame[self[d]],
           flags \subseteq flags'
    PROVE  Kept(d)'
BY Zenon DEF Kept, Frame

\* Every step keeps the registers of every processor's task.
LEMMA KeptStep ==
    ASSUME Lasting, Undisturbed, [Next]_vars, calls' = "whole"
    PROVE  \A d \in CPU : Kept(d)'
<1>0. TypeOK /\ (\A c \in CPU : Carried(c)) /\ Shared /\ Made BY Zenon DEF Lasting
<1>9. (\A c \in CPU : Paired(c)) /\ (\A c \in CPU : Kept(c)) /\ Queued BY Zenon DEF Undisturbed
<1> USE ContextAssumption, <1>0, <1>9 DEF TypeOK, Move, Node, cpuVars, poolVars, makeVars, histVars
<1>1. CASE Setup
  <2>1. CASE CreateProcess BY <2>1, KeptSame, Zenon DEF CreateProcess
  <2>2. CASE FindStack BY <2>2, KeptSame, Zenon DEF FindStack
  <2>3. CASE AddTask
    <3>1. \A c \in CPU : mode[c] = "gate" BY <2>3, Zenon DEF AddTask, Made
    <3>2. UNCHANGED <<mode, self>> BY <2>3, Zenon DEF AddTask
    <3> QED BY <3>1, <3>2, Zenon DEF Kept
  <2>4. CASE LinkProcess BY <2>4, KeptSame, Zenon DEF LinkProcess
  <2>5. CASE OpenGate BY <2>5, KeptSame, Zenon DEF OpenGate
  <2> QED BY <1>1, <2>1, <2>2, <2>3, <2>4, <2>5, Zenon DEF Setup
<1>2. ASSUME NEW c \in CPU, Step(c) PROVE \A d \in CPU : Kept(d)'
  <2>1. CASE EnterScheduler(c)
    <3>1. self'[c] = Null /\ mode'[c] = "idle" BY <2>1 DEF EnterScheduler, Carried
    <3>2. Kept(c)' BY <3>1, Zenon DEF Kept
    <3>9. ASSUME NEW d \in CPU, d # c PROVE Kept(d)'
      <4>1. UNCHANGED <<mode[d], regs[d], self[d], running[d], kstack[d], rsp_userspace[d]>>
        BY <2>1, <3>9, Zenon DEF EnterScheduler
      <4> QED BY <2>1, <3>9, <4>1, KeptSame, Zenon DEF EnterScheduler
    <3> QED BY <3>2, <3>9, Zenon
  <2>2. CASE Timer(c)
    <3>0. mode[c] # "sys" BY <2>2, WholeBefore, Zenon
    <3>1. mode[c] \in {"user", "idle", "halt"} /\ mode'[c] = "save" /\ UNCHANGED <<regs, self, flags, value>>
      BY <2>2, <3>0, Zenon DEF Timer
    <3>2. Kept(c)'
      <4>1. CASE mode[c] = "user"
        <5>1. regs[c] = Frame("user", running[c], value[running[c]]) BY <4>1, Zenon DEF Kept
        <5>2. self[c] = running[c] /\ self[c] \in Task BY <4>1, Zenon DEF Carried
        <5>3. regs'[c] = Frame("user", self'[c], value'[self'[c]]) /\ self'[c] # Idle BY <3>1, <5>1, <5>2, Zenon
        <5> QED BY <3>1, <5>3, Zenon DEF Kept
      <4>2. CASE mode[c] = "idle"
        <5>1. self[c] \notin Task BY <4>2 DEF Carried
        <5> QED BY <3>1, <5>1, Zenon DEF Kept
      <4>3. CASE mode[c] = "halt" BY <3>1, <4>3 DEF Kept, Carried, Paired
      <4> QED BY <3>1, <4>1, <4>2, <4>3, Zenon
    <3>9. ASSUME NEW d \in CPU, d # c PROVE Kept(d)'
      <4>1. UNCHANGED <<mode[d], regs[d], self[d], running[d], kstack[d], rsp_userspace[d]>>
        BY <2>2, <3>9, Zenon DEF Timer
      <4> QED BY <2>2, <3>9, <4>1, KeptSame, Zenon DEF Timer
    <3> QED BY <3>2, <3>9, Zenon
  <2>3. CASE Save(c)
    <3>1. mode[c] = "save" /\ mode'[c] = "put" /\ UNCHANGED <<regs, self, flags, value>> BY <2>3, Zenon DEF Save
    <3>2. Kept(c)'
      <4>1. CASE self[c] \in Task \ flags
        <5>1. frame'[self[c]] = regs[c] BY <2>3, <4>1, Zenon DEF Save
        <5> QED BY <3>1, <4>1, <5>1, Zenon DEF Kept, Frame
      <4>2. CASE self[c] \notin Task \ flags BY <3>1, <4>2, Zenon DEF Kept
      <4> QED BY <4>1, <4>2, Zenon
    <3>9. ASSUME NEW d \in CPU, d # c PROVE Kept(d)'
      <4>1. UNCHANGED <<mode[d], regs[d], self[d], running[d], kstack[d], rsp_userspace[d]>>
        BY <2>3, <3>9, Zenon DEF Save
      <4>2. mode[d] \in {"put", "load"} /\ self[d] \in Task => frame'[self[d]] = frame[self[d]]
        <5>1. SUFFICES ASSUME mode[d] \in {"put", "load"}, self[d] \in Task PROVE frame'[self[d]] = frame[self[d]]
          OBVIOUS
        <5>2. running[d] = self[d] BY <5>1, Zenon DEF Carried
        <5>3. self[c] # self[d] BY <3>1, <3>9, <5>1, <5>2 DEF Carried, Shared
        <5> QED BY <2>3, <5>1, <5>3, Zenon DEF Save
      <4> QED BY <3>1, <4>1, <4>2, KeptSame, Zenon
    <3> QED BY <3>2, <3>9, Zenon
  <2>4. CASE PutBack(c)
    <3>1. mode[c] = "put" /\ mode'[c] = "pick" BY <2>4, Zenon DEF PutBack
    <3>2. Kept(c)' BY <3>1, Zenon DEF Kept
    <3>9. ASSUME NEW d \in CPU, d # c PROVE Kept(d)'
      <4>1. UNCHANGED <<mode[d], regs[d], self[d], kstack[d], rsp_userspace[d]>> BY <2>4, <3>9, Zenon DEF PutBack
      <4>2. running'[d] = running[d] BY <2>4, <3>9, Zenon DEF PutBack, Pool!Preempt, Pool!Retire
      <4> QED BY <2>4, <4>1, <4>2, KeptSame, Zenon DEF PutBack
    <3> QED BY <3>2, <3>9, Zenon
  <2>5. CASE Pick(c)
    <3>1. mode'[c] = "load" /\ UNCHANGED <<frame, flags, value>> BY <2>5, Zenon DEF Pick
    <3>2. self'[c] = Idle \/ self'[c] \in ready BY <2>5, Zenon DEF Pick
    <3>3. Kept(c)' BY <3>1, <3>2 DEF Kept, Queued, Frame
    <3>9. ASSUME NEW d \in CPU, d # c PROVE Kept(d)'
      <4>1. UNCHANGED <<mode[d], regs[d], self[d], kstack[d], rsp_userspace[d]>> BY <2>5, <3>9, Zenon DEF Pick
      <4>2. running'[d] = running[d] BY <2>5, <3>9 DEF Pick, Pool!Dispatch
      <4> QED BY <2>5, <4>1, <4>2, KeptSame, Zenon DEF Pick
    <3> QED BY <3>3, <3>9, Zenon
  <2>6. CASE Load(c)
    <3>1. mode[c] = "load" /\ mode'[c] = frame[self[c]].at /\ regs'[c] = frame[self[c]]
      BY <2>6, Zenon DEF Load
    <3>2. UNCHANGED <<frame, flags, value, self, running>> BY <2>6, Zenon DEF Load
    <3>3. ASSUME self[c] \in Task PROVE Kept(c)'
      <4>1. running[c] = self[c] /\ self[c] \notin flags BY <3>1, <3>3, Zenon DEF Carried, Paired
      <4>2. frame[self[c]] = Frame("user", self[c], value[self[c]]) BY <3>1, <3>3, <4>1, Zenon DEF Kept
      <4> HIDE DEF TypeOK
      <4>3. frame[self[c]].at = "user" BY <4>2, FrameFields
      <4>4. regs'[c] = Frame("user", running'[c], value'[running'[c]]) BY <3>1, <3>2, <4>1, <4>2, Zenon
      <4> QED BY <3>1, <4>3, <4>4, Zenon DEF Kept
    <3>4. ASSUME self[c] = Idle PROVE Kept(c)'
      <4> HIDE DEF TypeOK
      <4>1. frame[self[c]].at = "idle" BY <3>4, FrameFields DEF Shared, IdleFrame
      <4> QED BY <3>1, <4>1, Zenon DEF Kept
    <3>5. Kept(c)' BY <3>1, <3>3, <3>4, Zenon DEF Carried
    <3>9. ASSUME NEW d \in CPU, d # c PROVE Kept(d)'
      <4>1. UNCHANGED <<mode[d], regs[d], self[d], running[d], kstack[d], rsp_userspace[d]>>
        BY <2>6, <3>9, Zenon DEF Load
      <4> QED BY <2>6, <3>9, <4>1, KeptSame, Zenon DEF Load
    <3> QED BY <3>5, <3>9, Zenon
  <2>7. CASE Compute(c)
    <3>1. mode[c] = "user" /\ running[c] \in Task /\ regs[c] = Frame("user", running[c], value[running[c]])
      BY <2>7, Zenon DEF Compute, Carried, Kept
    <3>2. UNCHANGED <<self, running, kstack, rsp_userspace, frame, flags>> /\ mode'[c] = "user" BY <2>7, Zenon DEF Compute
    <3>3. value'[running[c]] = (value[running[c]] + 1) % (MaxValue + 1) BY <2>7, <3>1, Zenon DEF Compute
    <3>4. regs'[c] = Frame("user", running[c], value'[running[c]])
      <4>1. regs'[c] = [regs[c] EXCEPT !.val = (regs[c].val + 1) % (MaxValue + 1)] BY <2>7, Zenon DEF Compute
      <4> QED BY <3>1, <3>3, <4>1 DEF Frame
    <3>5. Kept(c)' BY <3>1, <3>2, <3>4, Zenon DEF Kept
    <3>9. ASSUME NEW d \in CPU, d # c PROVE Kept(d)'
      <4>1. UNCHANGED <<mode[d], regs[d], self[d], running[d], kstack[d], rsp_userspace[d]>>
        BY <2>7, <3>9, Zenon DEF Compute
      <4>2. \A t \in Task : t # running[c] => value'[t] = value[t] BY <2>7, Zenon DEF Compute
      <4>3. mode[d] \in {"user", "sys"} => value'[running[d]] = value[running[d]]
        BY <3>1, <3>9, <4>2, Apart DEF Carried
      <4>4. mode[d] \in {"save", "put", "load"} /\ self[d] \in Task => value'[self[d]] = value[self[d]]
        BY <3>1, <3>9, <4>2, Apart, Zenon
      <4> QED BY <3>2, <4>1, <4>3, <4>4, KeptSame, Zenon
    <3> QED BY <3>5, <3>9, Zenon
  <2>8. CASE SyscallEntry(c)
    <3>1. mode[c] = "user" /\ mode'[c] = "sys" /\ gs'[c] = c BY <2>8 DEF SyscallEntry, swapgs, Paired
    <3>2. regs[c].stack = running[c] /\ regs[c].val = value[running[c]]
      <4>1. regs[c] = Frame("user", running[c], value[running[c]]) BY <3>1, Zenon DEF Kept
      <4> HIDE DEF TypeOK
      <4> QED BY <4>1, FrameFields
    <3>3. /\ regs' = [regs EXCEPT ![c] = Frame("sys", c, 0)]
          /\ kstack' = [kstack EXCEPT ![c] = value[running[c]]]
          /\ rsp_userspace' = [rsp_userspace EXCEPT ![c] = running[c]]
      <4>1. StackKernel(gs'[c]) = c BY <3>1 DEF StackKernel
      <4> HIDE DEF TypeOK
      <4>2. regs' = [regs EXCEPT ![c] = Frame("sys", c, 0)] BY <2>8, <4>1, Zenon DEF SyscallEntry
      <4>3. kstack' = [kstack EXCEPT ![c] = value[running[c]]] BY <2>8, <3>2, <4>1, Zenon DEF SyscallEntry
      <4>4. rsp_userspace' = [rsp_userspace EXCEPT ![c] = running[c]] BY <2>8, <3>1, <3>2, Zenon DEF SyscallEntry
      <4> QED BY <4>2, <4>3, <4>4, Zenon
    <3>4. UNCHANGED <<running, value, self, flags, frame>> BY <2>8, Zenon DEF SyscallEntry
    <3>5. regs'[c].stack = c BY <3>3, FrameFields
    <3>6. Kept(c)' BY <3>1, <3>3, <3>4, <3>5, Zenon DEF Kept
    <3>9. ASSUME NEW d \in CPU, d # c PROVE Kept(d)'
      <4>1. UNCHANGED <<mode[d], regs[d], self[d], running[d], kstack[d], rsp_userspace[d]>>
        BY <2>8, <3>3, <3>4, <3>9 DEF SyscallEntry
      <4> QED BY <3>4, <4>1, KeptSame, Zenon
    <3> QED BY <3>6, <3>9, Zenon
  <2>9. CASE SyscallReturn(c)
    <3>1. mode[c] = "sys" /\ mode'[c] = "user" BY <2>9, Zenon DEF SyscallReturn
    <3>2. /\ gs[c] = c /\ regs[c].stack = c
          /\ kstack[c] = value[running[c]] /\ rsp_userspace[c] = running[c]
      BY <3>1, Zenon DEF Paired, Kept
    <3>3. regs' = [regs EXCEPT ![c] = Frame("user", running[c], value[running[c]])]
      <4>1. RspUserspace(gs[c]) = running[c] BY <3>2 DEF RspUserspace
      <4> HIDE DEF TypeOK
      <4> QED BY <2>9, <3>2, <4>1, Zenon DEF SyscallReturn
    <3>4. UNCHANGED <<running, value, self, flags, frame, kstack, rsp_userspace>> BY <2>9, Zenon DEF SyscallReturn
    <3>5. regs'[c] = Frame("user", running'[c], value'[running'[c]]) BY <3>3, <3>4, Zenon
    <3>6. Kept(c)' BY <3>1, <3>5, Zenon DEF Kept
    <3>9. ASSUME NEW d \in CPU, d # c PROVE Kept(d)'
      <4>1. UNCHANGED <<mode[d], regs[d], self[d], running[d], kstack[d], rsp_userspace[d]>>
        BY <2>9, <3>3, <3>4, <3>9, Zenon DEF SyscallReturn
      <4> QED BY <3>4, <4>1, KeptSame, Zenon
    <3> QED BY <3>6, <3>9, Zenon
  <2>10. CASE SyscallExit(c)
    <3>1. mode'[c] = "halt" BY <2>10, Zenon DEF SyscallExit
    <3>2. Kept(c)' BY <3>1, Zenon DEF Kept
    <3>9. ASSUME NEW d \in CPU, d # c PROVE Kept(d)'
      <4>1. UNCHANGED <<mode[d], regs[d], self[d], running[d], kstack[d], rsp_userspace[d]>>
        BY <2>10, <3>9, Zenon DEF SyscallExit
      <4> QED BY <2>10, <3>9, <4>1, KeptSame, Zenon DEF SyscallExit
    <3> QED BY <3>2, <3>9, Zenon
  <2>11. CASE Wake(c) BY <2>11 DEF Wake
  <2> QED BY <1>2, <2>1, <2>2, <2>3, <2>4, <2>5, <2>6, <2>7, <2>8, <2>9, <2>10, <2>11, Zenon DEF Step, Handler
<1>3. CASE UNCHANGED vars BY <1>3, KeptSame, Zenon DEF vars
<1> QED BY <1>1, <1>2, <1>3, Zenon DEF Next, Astray

------------------------------------------------------------------------------
\* The inductive invariant.
Inductive == Lasting /\ (calls = "whole" => Undisturbed)

\* It holds when the setup begins.
LEMMA Start == Init => Inductive
<1> SUFFICES ASSUME Init PROVE Inductive OBVIOUS
<1> USE ContextAssumption DEF Init, Node
<1>1. IdleFrame \in FrameType BY DEF IdleFrame, Frame, FrameType
<1>2. \A c \in CPU : Frame("idle", c, 0) \in FrameType BY DEF Frame, FrameType
<1>3. ready = {} /\ retired = {} /\ running = [c \in CPU |-> Null] BY Zenon DEF Pool!Init
<1>4. TypeOK
  <2> HIDE DEF FrameType, IdleFrame
  <2>1. regs \in [CPU -> FrameType] BY <1>2, Zenon
  <2>2. frame \in [Node -> FrameType] BY <1>1, Zenon
  <2>3. kstack \in [CPU \cup {Wild} -> 0..MaxValue \cup {Wild}] OBVIOUS
  <2>4. value \in [Task -> 0..MaxValue] OBVIOUS
  <2>5. mode \in [CPU -> {"gate", "idle", "user", "sys", "halt", "save", "put", "pick", "load"}] OBVIOUS
  <2> QED BY <1>3, <2>1, <2>2, <2>3, <2>4, <2>5, Zenon DEF TypeOK
<1>5. ASSUME NEW c \in CPU PROVE Carried(c) /\ Resumes(c) /\ Paired(c) /\ Kept(c)
  BY <1>3, Zenon DEF Carried, Resumes, Paired, Kept
<1>6. AllPushed
  <2>1. ASSUME NEW c \in CPU PROVE regs[c].at = "idle" BY FrameFields
  <2>2. ASSUME NEW n \in Node PROVE frame[n].at = "idle" BY FrameFields DEF IdleFrame
  <2> QED BY <2>1, <2>2 DEF AllPushed, Pushed
<1>7. Shared /\ Made /\ Queued BY <1>3, Zenon DEF Shared, Made, Queued
<1> QED BY <1>4, <1>5, <1>6, <1>7, Zenon DEF Inductive, Lasting, Undisturbed

\* And always.
LEMMA Always == Spec => []Inductive
<1>1. ASSUME Inductive, [Next]_vars PROVE Inductive'
  <2>0. Lasting BY <1>1, Zenon DEF Inductive
  <2>1. TypeOK' BY <1>1, <2>0, TypeStep, Zenon DEF Lasting
  <2>2. \A c \in CPU : Carried(c)' BY <1>1, <2>0, CarriedStep, Zenon DEF Lasting
  <2>3. \A c \in CPU : Resumes(c)' BY <1>1, <2>0, ResumesStep, Zenon DEF Lasting
  <2>4. AllPushed' BY <1>1, <2>0, PushedStep, Zenon DEF Lasting
  <2>5. Shared' BY <1>1, <2>0, SharedStep, Zenon DEF Lasting
  <2>6. Made' BY <1>1, <2>0, MadeStep, Zenon DEF Lasting
  <2>7. ASSUME calls' = "whole" PROVE Undisturbed'
    <3>0. Undisturbed BY <1>1, <2>7, WholeBefore, Zenon DEF Inductive
    <3>1. \A c \in CPU : Paired(c)' BY <1>1, <2>0, <2>7, <3>0, PairedStep, Zenon
    <3>2. \A c \in CPU : Kept(c)' BY <1>1, <2>0, <2>7, <3>0, KeptStep, Zenon
    <3>3. Queued' BY <1>1, <2>0, <2>7, <3>0, QueuedStep, Zenon
    <3> QED BY <3>1, <3>2, <3>3, Zenon DEF Undisturbed
  <2> QED BY <2>1, <2>2, <2>3, <2>4, <2>5, <2>6, <2>7, Zenon DEF Inductive, Lasting
<1> QED BY <1>1, Start, PTL DEF Spec

\* Every variable keeps its type, interrupted system calls included: a register that is counted with was
\* never popped from a stack that nothing was pushed on, and the two GS bases are a processor's context,
\* a node or nothing.
THEOREM ContextTyped == Spec => []TypeOK
<1>1. Inductive => TypeOK BY Zenon DEF Inductive, Lasting
<1> QED BY <1>1, Always, PTL

\* swapgs stays paired, and sys_exit finishes the task that called it, for any number of processors and
\* tasks, until the timer interrupts a system call.
THEOREM SwapgsPaired == Spec => []GsPaired
<1>1. Inductive => GsPaired BY Zenon DEF Inductive, Undisturbed, Paired, GsPaired
<1> QED BY <1>1, Always, PTL

\* A task goes on with its own registers and stack, wherever it goes on, for any number of processors
\* and tasks, until the timer interrupts a system call; and the idle node is never anything else.
THEOREM FramesKept == Spec => []OwnFrame
<1>1. Inductive => OwnFrame BY Zenon DEF Inductive, Lasting, Undisturbed, Kept, Queued, Shared, OwnFrame
<1> QED BY <1>1, Always, PTL

\* CR3 is that of the running task's process, or the kernel's, for any number of processors and tasks,
\* also when the timer interrupts system calls.
THEOREM TablesFollow == Spec => []OwnTables
<1>1. Inductive => OwnTables BY Zenon DEF Inductive, Lasting, Carried, OwnTables, InTask
<1> QED BY <1>1, Always, PTL
===============================================================================
