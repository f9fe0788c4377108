---------------------------- MODULE ContextProofs ----------------------------
(****************************************************************************)
(* The part of the inductive invariant of Context that holds whatever       *)
(* becomes of the system calls, for any number of processors and tasks, and *)
(* that every step keeps it: the types, the order of the set-up, what each  *)
(* processor carries and what the processors share.                         *)
(****************************************************************************)
EXTENDS Context, TLAPS

\* What processor c carries in each mode, whatever becomes of the system calls.
Carried(c) ==
    /\ mode[c] = "gate" => self[c] = Null
    /\ mode[c] = "idle" => self[c] \in {Null, Idle}
    /\ mode[c] \in {"gate", "idle", "pick"} => running[c] = Null
    /\ mode[c] \in {"user", "sys", "halt"} => running[c] \in Task /\ self[c] = running[c] /\ cr3[c] = running[c]
    /\ mode[c] \notin {"user", "sys", "halt"} => cr3[c] = Idle
    /\ mode[c] \in {"save", "put", "load"} => running[c] = (IF self[c] \in Task THEN self[c] ELSE Null)
    /\ mode[c] = "load" => self[c] \in Node

\* The frame of a task is one of task code, wherever it is kept, and that of the idle node the idle loop's.
Resumes(c) ==
    /\ mode[c] \in {"user", "sys", "halt"} => regs[c].at = mode[c]
    /\ mode[c] = "save" /\ self[c] \in Task => regs[c].at \in {"user", "sys", "halt"}
    /\ mode[c] \in {"idle", "save"} /\ self[c] = Idle => regs[c] = IdleFrame
    /\ mode[c] \in {"put", "load"} /\ self[c] \in Task => frame[self[c]].at \in {"user", "sys", "halt"}

\* What a system call is going to pop has been pushed, also when it is interrupted and goes on elsewhere.
Pushed(f) == f.at = "sys" => f.stack \in CPU \cup {Wild} /\ kstack[f.stack] \in 0..MaxValue
AllPushed == (\A c \in CPU : Pushed(regs[c])) /\ (\A n \in Node : Pushed(frame[n]))

\* A task is in the queues or on one processor, and what waits in the queues can go on.
Shared ==
    /\ \A c, d \in CPU : c # d /\ running[c] = running[d] => running[c] = Null
    /\ \A c \in CPU : running[c] \notin ready
    /\ \A t \in ready : frame[t].at \in {"user", "sys", "halt"}
    /\ frame[Idle] = IdleFrame

\* Nothing runs before the gate opens, and by then every task has its process.
Made ==
    /\ entered => maker = "done"
    /\ ~entered => flags = {} /\ calls = "whole" /\ \A c \in CPU : mode[c] = "gate"
    /\ maker \in {"stack", "add", "link"} => making \in Task
    /\ \A t \in ready : process[t] = t \/ (maker = "link" /\ t = making)
    /\ \A c \in CPU : running[c] # Null => process[running[c]] = running[c]

\* The types of what a processor carries.
CarriedTypes ==
    /\ mode \in [CPU -> {"gate", "idle", "user", "sys", "halt", "save", "put", "pick", "load"}]
    /\ self \in [CPU -> Node \cup {Null}]
    /\ gs \in [CPU -> CPU \cup Node \cup {Null}] /\ kgs \in [CPU -> CPU \cup Node \cup {Null}]
    /\ cr3 \in [CPU -> Node]
    /\ running \in [CPU -> Task \cup {Null}]
    /\ flags \subseteq Task /\ ready \subseteq Task

\* The types of what the processors share.
SharedTypes ==
    /\ mode \in [CPU -> {"gate", "idle", "user", "sys", "halt", "save", "put", "pick", "load"}]
    /\ self \in [CPU -> Node \cup {Null}]
    /\ frame \in [Node -> FrameType]
    /\ running \in [CPU -> Task \cup {Null}]
    /\ flags \subseteq Task /\ ready \subseteq Task

------------------------------------------------------------------------------
\* Register contents stay in their range.
LEMMA ModRange == \A x \in Nat : (x + 1) % (MaxValue + 1) \in 0..MaxValue
BY ContextAssumption

\* Every step keeps the types.
LEMMA TypeStep ==
    ASSUME TypeOK, \A c \in CPU : Carried(c), \A c \in CPU : Resumes(c), AllPushed, Made, [Next]_vars
    PROVE  TypeOK'
<1> USE ContextAssumption DEF TypeOK, FrameType, Move, Node, cpuVars, poolVars, makeVars, histVars
<1>1. CASE Setup
  <2>1. CASE CreateProcess BY <2>1, Zenon DEF CreateProcess
  <2>2. CASE FindStack BY <2>2, Zenon DEF FindStack
  <2>3. CASE AddTask
    <3>1. making \in Task /\ value[making] \in 0..MaxValue BY <2>3, Zenon DEF AddTask, Made
    <3>2. Frame("user", making, value[making]) \in FrameType BY <3>1, Zenon DEF Frame
    <3>3. frame' \in [Node -> FrameType] BY <2>3, <3>2, Zenon DEF AddTask
    <3>4. ready' \subseteq Task /\ UNCHANGED running BY <2>3, <3>1, Zenon DEF AddTask, Pool!Add
    <3> HIDE DEF FrameType
    <3> QED BY <2>3, <3>3, <3>4, Zenon DEF AddTask
  <2>4. CASE LinkProcess BY <2>4, Zenon DEF LinkProcess
  <2>5. CASE OpenGate BY <2>5, Zenon DEF OpenGate
  <2> QED BY <1>1, <2>1, <2>2, <2>3, <2>4, <2>5, Zenon DEF Setup
<1>2. ASSUME NEW c \in CPU, Step(c) PROVE TypeOK'
  <2>1. CASE EnterScheduler(c) BY <2>1, Zenon DEF EnterScheduler
  <2>2. CASE Timer(c)
    <3>1. calls' \in {"whole", "interrupted", "astray"} BY <2>2, Zenon DEF Timer
    <3>2. mode' \in [CPU -> {"gate", "idle", "user", "sys", "halt", "save", "put", "pick", "load"}]
      BY <2>2, Zenon DEF Timer
    <3> HIDE DEF FrameType
    <3> QED BY <2>2, <3>1, <3>2, Zenon DEF Timer
  <2>3. CASE Save(c) BY <2>3, Zenon DEF Save
  <2>4. CASE PutBack(c) BY <2>4 DEF PutBack, Pool!Preempt, Pool!Retire
  <2>5. CASE Pick(c) BY <2>5 DEF Pick, Pool!Dispatch
  <2>6. CASE Load(c)
    <3>1. self[c] \in Node BY <2>6, Zenon DEF Load, Carried
    <3>2. frame[self[c]] \in FrameType BY <3>1, Zenon
    <3>3. regs' \in [CPU -> FrameType] BY <2>6, <3>2, Zenon DEF Load
    <3>4. mode' \in [CPU -> {"gate", "idle", "user", "sys", "halt", "save", "put", "pick", "load"}]
      BY <2>6, <3>2, Zenon DEF Load
    <3>5. gs' \in [CPU -> CPU \cup Node \cup {Null}] BY <2>6, <3>1, Zenon DEF Load
    <3>6. cr3' \in [CPU -> Node] BY <2>6, Zenon DEF Load
    <3> HIDE DEF FrameType
    <3> QED BY <2>6, <3>3, <3>4, <3>5, <3>6, Zenon DEF Load
  <2>7. CASE Compute(c)
    <3>1. running[c] \in Task BY <2>7, Zenon DEF Compute, Carried
    <3>2. regs[c].val \in Nat /\ value[running[c]] \in Nat BY <3>1
    <3>3. (regs[c].val + 1) % (MaxValue + 1) \in 0..MaxValue BY <3>2, ModRange, Zenon
    <3>4. (value[running[c]] + 1) % (MaxValue + 1) \in 0..MaxValue BY <3>2, ModRange, Zenon
    <3>5. value' \in [Task -> 0..MaxValue] BY <2>7, <3>4, Zenon DEF Compute
    <3>6. regs' \in [CPU -> FrameType] BY <2>7, <3>3 DEF Compute
    <3>7. mode' = mode BY <2>7, Zenon DEF Compute
    <3> HIDE DEF FrameType
    <3> QED BY <2>7, <3>5, <3>6, <3>7, Zenon DEF Compute
  <2>8. CASE SyscallEntry(c)
    <3>1. StackKernel(gs'[c]) \in CPU \cup {Wild} BY Zenon DEF StackKernel
    <3>2. regs[c].val \in 0..MaxValue /\ regs[c].stack \in CPU \cup Task \cup {Null, Wild} OBVIOUS
    <3>3. Frame("sys", StackKernel(gs'[c]), 0) \in FrameType BY <3>1 DEF Frame
    <3>4. regs' \in [CPU -> FrameType] BY <2>8, <3>3, Zenon DEF SyscallEntry
    <3>5. kstack' \in [CPU \cup {Wild} -> 0..MaxValue \cup {Wild}]
      BY <2>8, <3>1, <3>2, Zenon DEF SyscallEntry
    <3>6. rsp_userspace' \in [CPU -> CPU \cup Task \cup {Null, Wild}] BY <2>8, <3>2, Zenon DEF SyscallEntry
    <3>7. calls' \in {"whole", "interrupted", "astray"} BY <2>8, Zenon DEF SyscallEntry
    <3> HIDE DEF FrameType
    <3> QED BY <2>8, <3>4, <3>5, <3>6, <3>7 DEF SyscallEntry, swapgs
  <2>9. CASE SyscallReturn(c)
    <3>1. RspUserspace(gs[c]) \in CPU \cup Task \cup {Null, Wild} BY Zenon DEF RspUserspace
    <3>2. regs[c].at = "sys" BY <2>9 DEF SyscallReturn, Resumes
    <3>3. kstack[regs[c].stack] \in 0..MaxValue BY <3>2, Zenon DEF AllPushed, Pushed
    <3>4. Frame("user", RspUserspace(gs[c]), kstack[regs[c].stack]) \in FrameType BY <3>1, <3>3, Zenon DEF Frame
    <3>5. regs' \in [CPU -> FrameType] BY <2>9, <3>4, Zenon DEF SyscallReturn
    <3>6. calls' \in {"whole", "interrupted", "astray"} BY <2>9, Zenon DEF SyscallReturn
    <3> HIDE DEF FrameType
    <3> QED BY <2>9, <3>5, <3>6, Zenon DEF SyscallReturn, swapgs
  <2>10. CASE SyscallExit(c)
    <3>1. regs' \in [CPU -> FrameType] BY <2>10 DEF SyscallExit
    <3>2. flags' \subseteq Task BY <2>10, Zenon DEF SyscallExit
    <3>3. calls' \in {"whole", "interrupted", "astray"} BY <2>10, Zenon DEF SyscallExit
    <3> HIDE DEF FrameType
    <3> QED BY <2>10, <3>1, <3>2, <3>3, Zenon DEF SyscallExit, swapgs
  <2>11. CASE Wake(c)
    <3>1. mode' = mode /\ calls' \in {"whole", "interrupted", "astray"} BY <2>11, Zenon DEF Wake
    <3> HIDE DEF FrameType
    <3> QED BY <2>11, <3>1, Zenon DEF Wake
  <2> QED BY <1>2, <2>1, <2>2, <2>3, <2>4, <2>5, <2>6, <2>7, <2>8, <2>9, <2>10, <2>11, Zenon DEF Step, Handler
<1>3. CASE UNCHANGED vars BY <1>3, Zenon DEF vars
<1> QED BY <1>1, <1>2, <1>3, Zenon DEF Next, Astray

\* Every step keeps the order of setup_tasks.
LEMMA MadeStep ==
    ASSUME TypeOK, \A c \in CPU : Carried(c), Shared, Made, [Next]_vars
    PROVE  Made'
<1> USE ContextAssumption DEF TypeOK, Made, Move, Node, cpuVars, poolVars, makeVars, histVars
<1>1. CASE Setup
  <2>1. CASE CreateProcess BY <2>1 DEF CreateProcess
  <2>2. CASE FindStack BY <2>2, Zenon DEF FindStack
  <2>3. CASE AddTask BY <2>3, Zenon DEF AddTask, Pool!Add
  <2>4. CASE LinkProcess BY <2>4, Zenon DEF LinkProcess
  <2>5. CASE OpenGate BY <2>5, Zenon DEF OpenGate
  <2> QED BY <1>1, <2>1, <2>2, <2>3, <2>4, <2>5, Zenon DEF Setup
<1>2. ASSUME NEW c \in CPU, Step(c) PROVE Made'
  <2>1. CASE EnterScheduler(c) BY <2>1, Zenon DEF EnterScheduler
  <2>2. CASE Timer(c) BY <2>2, Zenon DEF Timer
  <2>3. CASE Save(c) BY <2>3, Zenon DEF Save
  <2>4. CASE PutBack(c) BY <2>4 DEF PutBack, Pool!Preempt, Pool!Retire
  <2>5. CASE Pick(c) BY <2>5 DEF Pick, Pool!Dispatch
  <2>6. CASE Load(c) BY <2>6, Zenon DEF Load
  <2>7. CASE Compute(c) BY <2>7, Zenon DEF Compute
  <2>8. CASE SyscallEntry(c) BY <2>8, Zenon DEF SyscallEntry, swapgs, StackKernel
  <2>9. CASE SyscallReturn(c) BY <2>9, Zenon DEF SyscallReturn, swapgs, RspUserspace
  <2>10. CASE SyscallExit(c) BY <2>10, Zenon DEF SyscallExit, swapgs
  <2>11. CASE Wake(c) BY <2>11, Zenon DEF Wake
  <2> QED BY <1>2, <2>1, <2>2, <2>3, <2>4, <2>5, <2>6, <2>7, <2>8, <2>9, <2>10, <2>11, Zenon DEF Step, Handler
<1>3. CASE UNCHANGED vars BY <1>3, Zenon DEF vars
<1> QED BY <1>1, <1>2, <1>3, Zenon DEF Next, Astray

------------------------------------------------------------------------------
\* What a frame holds.
LEMMA FrameFields == \A a, s, v : Frame(a, s, v).at = a /\ Frame(a, s, v).stack = s /\ Frame(a, s, v).val = v
BY Zenon DEF Frame

\* The tasks of two processors are different ones.
LEMMA Apart ==
    ASSUME Shared, \A c \in CPU : Carried(c), NEW c \in CPU, NEW d \in CPU, c # d, running[c] \in Task
    PROVE  /\ running[d] # running[c]
           /\ mode[d] \in {"save", "put", "load"} => self[d] # running[c]
BY ContextAssumption DEF Shared, Carried, Node

\* Every step keeps what each processor carries.
LEMMA CarriedStep ==
    ASSUME TypeOK, \A c \in CPU : Carried(c), \A c \in CPU : Resumes(c), Shared, Made, [Next]_vars
    PROVE  \A d \in CPU : Carried(d)'
<1>0. CarriedTypes BY Zenon DEF TypeOK, CarriedTypes
<1> USE ContextAssumption, <1>0 DEF CarriedTypes, Carried, Made, Move, Node, cpuVars, poolVars, makeVars, histVars
<1>1. CASE Setup
  <2>1. CASE CreateProcess BY <2>1, Zenon DEF CreateProcess
  <2>2. CASE FindStack BY <2>2, Zenon DEF FindStack
  <2>3. CASE AddTask BY <2>3, Zenon DEF AddTask, Pool!Add
  <2>4. CASE LinkProcess BY <2>4, Zenon DEF LinkProcess
  <2>5. CASE OpenGate BY <2>5, Zenon DEF OpenGate
  <2> QED BY <1>1, <2>1, <2>2, <2>3, <2>4, <2>5, Zenon DEF Setup
<1>2. ASSUME NEW c \in CPU, Step(c) PROVE \A d \in CPU : Carried(d)'
  <2>1. CASE EnterScheduler(c) BY <2>1 DEF EnterScheduler
  <2>2. CASE Timer(c) BY <2>2 DEF Timer
  <2>3. CASE Save(c) BY <2>3 DEF Save
  <2>4. CASE PutBack(c) BY <2>4 DEF PutBack, Pool!Preempt, Pool!Retire
  <2>5. CASE Pick(c) BY <2>5 DEF Pick, Pool!Dispatch
  <2>6. CASE Load(c)
    <3>1. CASE self[c] \in Task
      <4>0. mode[c] = "load" BY <2>6, Zenon DEF Load
      <4>1. running[c] = self[c] BY <3>1, <4>0, Zenon
      <4>2. frame[self[c]].at \in {"user", "sys", "halt"} BY <3>1, <4>0, Zenon DEF Resumes
      <4>3. process[self[c]] = self[c] BY <3>1, <4>1, Zenon
      <4> QED BY <2>6, <3>1, <4>1, <4>2, <4>3 DEF Load
    <3>2. CASE self[c] = Idle
      <4>1. frame[self[c]].at = "idle" BY <3>2 DEF Shared, IdleFrame, Frame
      <4> QED BY <2>6, <3>2, <4>1 DEF Load
    <3> QED BY <2>6, <3>1, <3>2, Zenon DEF Load
  <2>7. CASE Compute(c)
    <3>1. mode' = mode BY <2>7 DEF Compute
    <3> QED BY <2>7, <3>1, Zenon DEF Compute
  <2>8. CASE SyscallEntry(c) BY <2>8 DEF SyscallEntry
  <2>9. CASE SyscallReturn(c) BY <2>9 DEF SyscallReturn
  <2>10. CASE SyscallExit(c) BY <2>10 DEF SyscallExit
  <2>11. CASE Wake(c)
    <3>1. mode' = mode BY <2>11 DEF Wake
    <3> QED BY <2>11, <3>1, Zenon DEF Wake
  <2> QED BY <1>2, <2>1, <2>2, <2>3, <2>4, <2>5, <2>6, <2>7, <2>8, <2>9, <2>10, <2>11, Zenon DEF Step, Handler
<1>3. CASE UNCHANGED vars BY <1>3, Zenon DEF vars
<1> QED BY <1>1, <1>2, <1>3, Zenon DEF Next, Astray

\* What a step of another processor has to leave alone for processor d to keep a frame it can go on with.
LEMMA ResumesSame ==
    ASSUME NEW d \in CPU, Resumes(d), UNCHANGED <<mode[d], regs[d], self[d]>>,
           mode[d] \in {"put", "load"} /\ self[d] \in Task => frame'[self[d]] = frame[self[d]]
    PROVE  Resumes(d)'
BY Zenon DEF Resumes, Frame, IdleFrame

\* Every step keeps the frames of what the processors execute.
LEMMA ResumesStep ==
    ASSUME TypeOK, \A c \in CPU : Carried(c), \A c \in CPU : Resumes(c), Shared, Made, [Next]_vars
    PROVE  \A d \in CPU : Resumes(d)'
<1> USE ContextAssumption DEF TypeOK, Move, Node, cpuVars, poolVars, makeVars, histVars
<1>1. CASE Setup
  <2>1. CASE CreateProcess BY <2>1, ResumesSame, Zenon DEF CreateProcess
  <2>2. CASE FindStack BY <2>2, ResumesSame, Zenon DEF FindStack
  <2>3. CASE AddTask
    <3>1. \A c \in CPU : mode[c] = "gate" BY <2>3, Zenon DEF AddTask, Made
    <3>2. UNCHANGED <<mode, self>> BY <2>3, Zenon DEF AddTask
    <3> QED BY <3>1, <3>2, Zenon DEF Resumes
  <2>4. CASE LinkProcess BY <2>4, ResumesSame, Zenon DEF LinkProcess
  <2>5. CASE OpenGate BY <2>5, ResumesSame, Zenon DEF OpenGate
  <2> QED BY <1>1, <2>1, <2>2, <2>3, <2>4, <2>5, Zenon DEF Setup
<1>2. ASSUME NEW c \in CPU, Step(c) PROVE \A d \in CPU : Resumes(d)'
  <2>0. ASSUME NEW d \in CPU, d # c PROVE Resumes(d)'
    <3>1. UNCHANGED <<mode[d], regs[d], self[d]>>
      <4>1. CASE EnterScheduler(c) \/ Timer(c) \/ Save(c) \/ PutBack(c)
        BY <2>0, <4>1, Zenon DEF EnterScheduler, Timer, Save, PutBack
      <4>2. CASE Pick(c) \/ Load(c) BY <2>0, <4>2, Zenon DEF Pick, Load
      <4>3. CASE Compute(c) \/ SyscallEntry(c) \/ SyscallReturn(c) \/ SyscallExit(c) \/ Wake(c)
        BY <2>0, <4>3, Zenon DEF Compute, SyscallEntry, SyscallReturn, SyscallExit, Wake
      <4> QED BY <1>2, <4>1, <4>2, <4>3, Zenon DEF Step, Handler
    <3>2. frame' = frame \/ Save(c)
      BY <1>2, Zenon DEF Step, Handler, EnterScheduler, Timer, PutBack, Pick, Load, Compute, SyscallEntry,
         SyscallReturn, SyscallExit, Wake
    <3>3. ASSUME mode[d] \in {"put", "load"}, self[d] \in Task PROVE frame'[self[d]] = frame[self[d]]
      <4>1. CASE Save(c)
        <5>1. running[d] = self[d] BY <3>3, Zenon DEF Carried
        <5>2. mode[c] = "save" BY <4>1, Zenon DEF Save
        <5>3. self[c] # self[d] BY <2>0, <3>3, <5>1, <5>2, Apart, Zenon
        <5> QED BY <3>3, <4>1, <5>3, Zenon DEF Save
      <4> QED BY <3>2, <4>1, Zenon
    <3> QED BY <3>1, <3>3, ResumesSame, Zenon
  <2>1. CASE EnterScheduler(c)
    <3>1. self'[c] = Null /\ mode'[c] = "idle" BY <2>1 DEF EnterScheduler, Carried
    <3> QED BY <2>0, <3>1, Zenon DEF Resumes
  <2>2. CASE Timer(c)
    <3>1. mode[c] \in {"user", "idle", "halt", "sys"} /\ mode'[c] = "save" /\ UNCHANGED <<regs, self>>
      BY <2>2, Zenon DEF Timer
    <3>2. Resumes(c)'
      <4>1. CASE mode[c] = "idle"
        <5>1. self[c] \notin Task BY <4>1 DEF Carried
        <5>2. self[c] = Idle => regs[c] = IdleFrame BY <4>1, Zenon DEF Resumes
        <5> QED BY <3>1, <5>1, <5>2, Zenon DEF Resumes, IdleFrame, Frame
      <4>2. CASE mode[c] \in {"user", "halt", "sys"}
        <5>1. self[c] # Idle BY <4>2 DEF Carried
        <5>2. regs[c].at \in {"user", "sys", "halt"} BY <4>2, Zenon DEF Resumes
        <5> QED BY <3>1, <5>1, <5>2, Zenon DEF Resumes
      <4> QED BY <3>1, <4>1, <4>2, Zenon
    <3> QED BY <2>0, <3>2, Zenon
  <2>3. CASE Save(c)
    <3>1. mode[c] = "save" /\ mode'[c] = "put" /\ UNCHANGED <<regs, self>> BY <2>3, Zenon DEF Save
    <3>2. ASSUME self[c] \in Task PROVE frame'[self[c]] = regs[c] BY <2>3, <3>2, Zenon DEF Save
    <3>3. Resumes(c)' BY <3>1, <3>2, Zenon DEF Resumes
    <3> QED BY <2>0, <3>3, Zenon
  <2>4. CASE PutBack(c)
    <3>1. mode'[c] = "pick" BY <2>4, Zenon DEF PutBack
    <3> QED BY <2>0, <3>1, Zenon DEF Resumes
  <2>5. CASE Pick(c)
    <3>1. mode'[c] = "load" /\ UNCHANGED frame BY <2>5, Zenon DEF Pick
    <3>2. self'[c] = Idle \/ self'[c] \in ready BY <2>5, Zenon DEF Pick
    <3>3. Resumes(c)' BY <3>1, <3>2 DEF Resumes, Shared
    <3> QED BY <2>0, <3>3, Zenon
  <2>6. CASE Load(c)
    <3>1. mode[c] = "load" /\ mode'[c] = frame[self[c]].at /\ regs'[c] = frame[self[c]] /\ UNCHANGED self
      BY <2>6, Zenon DEF Load
    <3>2. ASSUME self[c] \in Task PROVE Resumes(c)'
      <4>1. frame[self[c]].at \in {"user", "sys", "halt"} BY <3>1, <3>2, Zenon DEF Resumes
      <4> QED BY <3>1, <3>2, <4>1, Zenon DEF Resumes
    <3>3. ASSUME self[c] = Idle PROVE Resumes(c)'
      <4> HIDE DEF TypeOK
      <4>1. frame[self[c]] = IdleFrame BY <3>3, Zenon DEF Shared
      <4>2. regs'[c] = IdleFrame /\ mode'[c] = "idle" BY <3>1, <4>1, FrameFields DEF IdleFrame
      <4>3. regs'[c] = IdleFrame' BY <4>2, Zenon DEF IdleFrame, Frame
      <4> QED BY <4>2, <4>3, Zenon DEF Resumes
    <3>4. Resumes(c)' BY <3>1, <3>2, <3>3, Zenon DEF Carried
    <3> QED BY <2>0, <3>4, Zenon
  <2>7. CASE Compute(c)
    <3>1. mode[c] = "user" /\ mode'[c] = "user" /\ regs'[c].at = regs[c].at
      BY <2>7 DEF Compute
    <3>2. Resumes(c)' BY <3>1, Zenon DEF Resumes
    <3> QED BY <2>0, <3>2, Zenon
  <2>8. CASE SyscallEntry(c)
    <3>1. mode'[c] = "sys" /\ regs'[c].at = "sys" BY <2>8, FrameFields DEF SyscallEntry
    <3>2. Resumes(c)' BY <3>1, Zenon DEF Resumes
    <3> QED BY <2>0, <3>2, Zenon
  <2>9. CASE SyscallReturn(c)
    <3>1. mode'[c] = "user" /\ regs'[c].at = "user" BY <2>9, FrameFields DEF SyscallReturn
    <3>2. Resumes(c)' BY <3>1, Zenon DEF Resumes
    <3> QED BY <2>0, <3>2, Zenon
  <2>10. CASE SyscallExit(c)
    <3>1. mode'[c] = "halt" /\ regs'[c].at = "halt" BY <2>10 DEF SyscallExit, FrameType
    <3>2. Resumes(c)' BY <3>1, Zenon DEF Resumes
    <3> QED BY <2>0, <3>2, Zenon
  <2>11. CASE Wake(c)
    <3>1. mode[c] = "halt" /\ mode'[c] = "halt" /\ UNCHANGED regs BY <2>11, Zenon DEF Wake
    <3>2. Resumes(c)' BY <3>1, Zenon DEF Resumes
    <3> QED BY <2>0, <3>2, Zenon
  <2> QED BY <1>2, <2>1, <2>2, <2>3, <2>4, <2>5, <2>6, <2>7, <2>8, <2>9, <2>10, <2>11, Zenon DEF Step, Handler
<1>3. CASE UNCHANGED vars BY <1>3, ResumesSame, Zenon DEF vars
<1> QED BY <1>1, <1>2, <1>3, Zenon DEF Next, Astray

\* A frame keeps what it is going to pop when only more is pushed.
LEMMA PushedMore ==
    ASSUME NEW f, Pushed(f), \A s \in CPU \cup {Wild} : kstack[s] \in 0..MaxValue => kstack'[s] \in 0..MaxValue
    PROVE  f.at = "sys" => f.stack \in CPU \cup {Wild} /\ kstack'[f.stack] \in 0..MaxValue
BY Zenon DEF Pushed

\* Every step keeps what the system calls have pushed.
LEMMA PushedStep ==
    ASSUME TypeOK, \A c \in CPU : Carried(c), AllPushed, Made, [Next]_vars
    PROVE  AllPushed'
<1> USE ContextAssumption DEF TypeOK, Move, Node, cpuVars, poolVars, makeVars, histVars
<1> DEFINE Popped(f) == f.at = "sys" => f.stack \in CPU \cup {Wild} /\ kstack'[f.stack] \in 0..MaxValue
           Stay == \A s \in CPU \cup {Wild} : kstack[s] \in 0..MaxValue => kstack'[s] \in 0..MaxValue
<1>0. (\A c \in CPU : Popped(regs'[c])) /\ (\A n \in Node : Popped(frame'[n])) => AllPushed'
  BY Zenon DEF AllPushed, Pushed
<1>1. Stay => (\A c \in CPU : Popped(regs[c])) /\ (\A n \in Node : Popped(frame[n]))
  BY PushedMore, Zenon DEF AllPushed
<1>2. UNCHANGED kstack => Stay BY Zenon
<1> HIDE DEF Stay
<1>3. CASE UNCHANGED <<kstack, regs, frame>> BY <1>0, <1>1, <1>2, <1>3, Zenon
<1>4. CASE Setup
  <2>1. CASE AddTask
    <3>1. making \in Task BY <2>1, Zenon DEF AddTask, Made
    <3>2. UNCHANGED <<kstack, regs>> /\ frame' = [frame EXCEPT ![making] = Frame("user", making, value[making])]
      BY <2>1, Zenon DEF AddTask
    <3>3. Popped(frame'[making]) BY <3>1, <3>2, FrameFields
    <3>4. \A n \in Node : Popped(frame'[n]) BY <1>1, <1>2, <3>1, <3>2, <3>3, Zenon
    <3> QED BY <1>0, <1>1, <1>2, <3>2, <3>4, Zenon
  <2> QED BY <1>3, <1>4, <2>1, Zenon DEF Setup, CreateProcess, FindStack, LinkProcess, OpenGate
<1>5. ASSUME NEW c \in CPU, Step(c) PROVE AllPushed'
  <2>1. CASE EnterScheduler(c) \/ Timer(c) \/ PutBack(c) \/ Pick(c) \/ Wake(c)
    BY <1>3, <2>1, Zenon DEF EnterScheduler, Timer, PutBack, Pick, Wake
  <2>2. CASE Save(c)
    <3>1. UNCHANGED <<kstack, regs>> BY <2>2, Zenon DEF Save
    <3>2. \A n \in Node : frame'[n] = frame[n] \/ frame'[n] = regs[c] BY <2>2, Zenon DEF Save
    <3> QED BY <1>0, <1>1, <1>2, <3>1, <3>2, Zenon
  <2>3. CASE Load(c)
    <3>1. UNCHANGED <<kstack, frame>> /\ self[c] \in Node BY <2>3, Zenon DEF Load, Carried
    <3>2. \A d \in CPU : regs'[d] = regs[d] \/ regs'[d] = frame[self[c]] BY <2>3, Zenon DEF Load
    <3> QED BY <1>0, <1>1, <1>2, <3>1, <3>2, Zenon
  <2>4. ASSUME UNCHANGED <<kstack, frame>>, \A d \in CPU : d # c => regs'[d] = regs[d], regs'[c].at # "sys" PROVE AllPushed'
    BY <1>0, <1>1, <1>2, <2>4, Zenon
  <2>5. CASE Compute(c)
    <3>1. mode[c] = "user" /\ UNCHANGED <<kstack, frame>> BY <2>5, Zenon DEF Compute
    <3>2. regs'[c].at = regs[c].at /\ regs'[c].stack = regs[c].stack /\ \A d \in CPU : d # c => regs'[d] = regs[d]
      BY <2>5 DEF Compute, FrameType
    <3> QED BY <1>0, <1>1, <1>2, <3>1, <3>2, Zenon
  <2>6. CASE SyscallEntry(c)
    <3>1. StackKernel(gs'[c]) \in CPU \cup {Wild} /\ regs[c].val \in 0..MaxValue BY DEF StackKernel, FrameType
    <3>2. kstack' = [kstack EXCEPT ![StackKernel(gs'[c])] = regs[c].val] /\ UNCHANGED frame BY <2>6, Zenon DEF SyscallEntry
    <3>3. Stay BY <3>1, <3>2, Zenon DEF Stay
    <3>4. regs'[c] = Frame("sys", StackKernel(gs'[c]), 0) /\ \A d \in CPU : d # c => regs'[d] = regs[d]
      BY <2>6, Zenon DEF SyscallEntry
    <3>5. regs'[c].stack = StackKernel(gs'[c]) BY <3>4, FrameFields
    <3>6. kstack'[StackKernel(gs'[c])] \in 0..MaxValue BY <3>1, <3>2, Zenon
    <3>7. Popped(regs'[c]) BY <3>1, <3>5, <3>6, Zenon
    <3> QED BY <1>0, <1>1, <3>2, <3>3, <3>4, <3>7, Zenon
  <2>7. CASE SyscallReturn(c)
    <3>1. regs'[c].at = "user" BY <2>7, FrameFields DEF SyscallReturn
    <3> QED BY <2>4, <2>7, <3>1, Zenon DEF SyscallReturn
  <2>8. CASE SyscallExit(c)
    <3>1. regs'[c].at = "halt" BY <2>8 DEF SyscallExit, FrameType
    <3> QED BY <2>4, <2>8, <3>1, Zenon DEF SyscallExit
  <2> QED BY <1>5, <2>1, <2>2, <2>3, <2>5, <2>6, <2>7, <2>8, Zenon DEF Step, Handler
<1>6. CASE UNCHANGED vars BY <1>3, <1>6, Zenon DEF vars
<1> QED BY <1>4, <1>5, <1>6, Zenon DEF Next, Astray

\* Every step leaves the tasks apart.
LEMMA SharedStep ==
    ASSUME TypeOK, \A c \in CPU : Carried(c), \A c \in CPU : Resumes(c), Shared, Made, [Next]_vars
    PROVE  Shared'
<1>0. SharedTypes BY Zenon DEF TypeOK, SharedTypes
<1> USE ContextAssumption, <1>0 DEF SharedTypes, Shared, Move, Node, cpuVars, poolVars, makeVars, histVars
<1>1. CASE Setup
  <2>1. CASE CreateProcess BY <2>1, Zenon DEF CreateProcess, IdleFrame, Frame
  <2>2. CASE FindStack BY <2>2, Zenon DEF FindStack, IdleFrame, Frame
  <2>3. CASE AddTask
    <3>1. making \in Task /\ making \notin ready /\ (\A c \in CPU : running[c] # making)
      BY <2>3, Zenon DEF AddTask, Pool!Add, Made
    <3>2. /\ ready' = ready \cup {making} /\ UNCHANGED running
          /\ frame' = [frame EXCEPT ![making] = Frame("user", making, value[making])]
      BY <2>3, Zenon DEF AddTask, Pool!Add
    <3>3. frame'[making].at = "user" BY <3>1, <3>2, FrameFields
    <3>4. \A n \in Node : n # making => frame'[n] = frame[n] BY <3>2, Zenon
    <3>5. \A t \in ready' : frame'[t].at \in {"user", "sys", "halt"} BY <3>1, <3>2, <3>3, <3>4, Zenon
    <3>6. frame'[Idle] = IdleFrame BY <3>1, <3>4, Zenon
    <3> QED BY <3>1, <3>2, <3>5, <3>6, Zenon DEF Frame, IdleFrame
  <2>4. CASE LinkProcess BY <2>4, Zenon DEF LinkProcess, IdleFrame, Frame
  <2>5. CASE OpenGate BY <2>5, Zenon DEF OpenGate, IdleFrame, Frame
  <2> QED BY <1>1, <2>1, <2>2, <2>3, <2>4, <2>5, Zenon DEF Setup
<1>2. ASSUME NEW c \in CPU, Step(c) PROVE Shared'
  <2>0. CASE UNCHANGED <<frame, ready, running>> BY <2>0, Zenon DEF IdleFrame, Frame
  <2>1. CASE EnterScheduler(c) \/ Timer(c) \/ Load(c) BY <2>0, <2>1, Zenon DEF EnterScheduler, Timer, Load
  <2>2. CASE Compute(c) \/ SyscallEntry(c) \/ SyscallReturn(c) \/ SyscallExit(c) \/ Wake(c)
    BY <2>0, <2>2, Zenon DEF Compute, SyscallEntry, SyscallReturn, SyscallExit, Wake
  <2>3. CASE Save(c)
    <3>1. UNCHANGED <<running, ready>> BY <2>3, Zenon DEF Save
    <3>2. mode[c] = "save" BY <2>3, Zenon DEF Save
    <3>3. CASE self[c] = Null BY <2>0, <2>3, <3>1, <3>3 DEF Save
    <3>4. CASE self[c] = Idle
      <4>1. frame' = [frame EXCEPT ![Idle] = regs[c]] /\ regs[c] = IdleFrame
        BY <2>3, <3>2, <3>4, Zenon DEF Save, Resumes
      <4>2. frame' = frame BY <4>1, Zenon
      <4> QED BY <2>0, <3>1, <4>2, Zenon
    <3>5. CASE self[c] \in Task
      <4>1. running[c] = self[c] BY <3>2, <3>5, Zenon DEF Carried
      <4>2. \A n \in Node : n # self[c] => frame'[n] = frame[n] BY <2>3, <3>5, Zenon DEF Save
      <4>3. \A t \in ready : frame'[t] = frame[t] BY <4>1, <4>2
      <4>4. frame'[Idle] = frame[Idle] BY <3>5, <4>2, Zenon
      <4> QED BY <3>1, <4>3, <4>4, Zenon DEF Frame, IdleFrame
    <3> QED BY <3>3, <3>4, <3>5, Zenon
  <2>4. CASE PutBack(c)
    <3>1. UNCHANGED frame /\ mode[c] = "put" BY <2>4, Zenon DEF PutBack
    <3>2. CASE UNCHANGED poolVars BY <3>1, <3>2, Zenon DEF Frame, IdleFrame
    <3>3. CASE self[c] \in Task \ flags /\ Pool!Preempt(c)
      <4>1. running[c] = self[c] BY <3>1, <3>3, Zenon DEF Carried
      <4>2. frame[self[c]].at \in {"user", "sys", "halt"} BY <3>1, <3>3, Zenon DEF Resumes
      <4>3. ready' = ready \cup {self[c]} /\ running' = [running EXCEPT ![c] = Null]
        BY <3>3, <4>1, Zenon DEF Pool!Preempt
      <4>4. \A d \in CPU : running'[d] = (IF d = c THEN Null ELSE running[d]) BY <4>3, Zenon
      <4>5. \A d \in CPU : running'[d] \notin ready'
        <5>1. Null \notin ready' BY <3>3, <4>3, Zenon
        <5>2. \A d \in CPU : d # c => running[d] # self[c] BY <3>3, <4>1, Zenon
        <5> QED BY <4>3, <4>4, <5>1, <5>2, Zenon
      <4>6. \A d, e \in CPU : d # e /\ running'[d] = running'[e] => running'[d] = Null BY <4>4, Zenon
      <4>7. \A t \in ready' : frame'[t].at \in {"user", "sys", "halt"} BY <3>1, <4>2, <4>3, Zenon
      <4> QED BY <3>1, <4>5, <4>6, <4>7, Zenon DEF IdleFrame, Frame
    <3>4. CASE Pool!Retire(c) BY <3>1, <3>4, Zenon DEF Pool!Retire, Frame, IdleFrame
    <3> QED BY <2>4, <3>2, <3>3, <3>4, Zenon DEF PutBack
  <2>5. CASE Pick(c) BY <2>5 DEF Pick, Pool!Dispatch
  <2> QED BY <1>2, <2>1, <2>2, <2>3, <2>4, <2>5, Zenon DEF Step, Handler
<1>3. CASE UNCHANGED vars BY <1>3, Zenon DEF vars, IdleFrame, Frame
<1> QED BY <1>1, <1>2, <1>3, Zenon DEF Next, Astray
===============================================================================
