---------------------------- MODULE SmpBootProofs ----------------------------
(****************************************************************************)
(* Proofs about SmpBoot for any number of processors, any order in which    *)
(* the firmware lists them and any memory.                                  *)
(****************************************************************************)
EXTENDS SmpBoot, TLAPS

Label == {"off", "wait", "awake", "spin", "ack", "tables", "stack", "call", "init", "allocate", "report",
          "jump", "gate", "scheduling", "lost", "contexts", "loop", "copy", "init_ipi", "startup1",
          "startup2", "poll", "configure", "go", "await", "free", "mask", "tasks", "init_sleep",
          "startup1_sleep", "startup2_sleep", "poll_sleep", "done_sleep"}

\* The types of the page, as TypeOK has them.
Page == [ap_status : 0..2, bsp_status : 0..1, stack : Frame \cup {Null},
         ap_context : ContextPtr \cup {Null}, cpu_init_ap : {"cpu_init_ap", Null},
         scheduler_entry : {"scheduler_entry", Null}, pagetable_l4 : {"kernel", Null}]

\* From the INIT message to the report, before and after the BSP has given its go.
Starting == {"init_sleep", "startup1", "startup1_sleep", "startup2", "startup2_sleep", "poll",
             "poll_sleep", "configure", "go"}
Waiting == {"done_sleep", "await"}
Told == {"tables", "stack", "call", "init", "allocate", "report"}

\* The BSP works on one AP, Processors[i], and only that one is in the trampoline; the two status
\* words tell how far each side has come.
Handshake ==
    /\ \A a \in AP : Inside(a) \/ pc[a] = "wait" =>
          pc[Bsp] \in Starting \cup Waiting /\ a = Processors[i]
    /\ pc[Bsp] = "init_ipi" => comm.ap_status = 0
    /\ pc[Bsp] \in {"init_ipi"} \cup Starting => comm.bsp_status = 0
    /\ pc[Bsp] \in Waiting => comm.bsp_status # 0
    /\ \A a \in AP : pc[a] \in {"wait", "awake"} =>
          comm.ap_status = 0 /\ pc[Bsp] \notin {"configure", "go", "done_sleep", "await"}
    /\ \A a \in AP : pc[a] \in {"ack"} \cup Told => pc[Bsp] \in Waiting
    /\ \A a \in AP : pc[a] \in Told => comm.ap_status = 0
    /\ pc[Bsp] = "await" => \A a \in AP : pc[a] \notin {"spin", "ack"}

\* Who has passed the gate has the lock to show for it, and the lock the setup.
Gated ==
    /\ \A a \in AP : pc[a] = "scheduling" => s_entry_lock
    /\ s_entry_lock => ready /\ ~irq0
    /\ pc[Bsp] = "tasks" => ~irq0
    /\ pc[Bsp] \in {"gate", "scheduling"} => ready /\ ~irq0

BspLabel == {"init", "allocate", "contexts", "loop", "copy", "init_ipi", "free", "mask", "tasks",
             "gate", "scheduling"} \cup Starting \cup Waiting

\* Where the BSP has not woken Processors[i] yet.
Before == {"init", "allocate", "contexts", "loop", "copy", "init_ipi"}

\* The BSP's place in the firmware's list.
Home == CHOOSE p \in DOMAIN Processors : Processors[p] = Bsp

\* The loop: ai counts the processors before i that are not the BSP, and those from i on are off.
Position ==
    /\ pc[Bsp] \in BspLabel
    /\ i \in 1..Len(Processors) + 1
    /\ pc[Bsp] \in {"copy", "init_ipi"} \cup Starting \cup Waiting => i <= Len(Processors) /\ i # Home
    /\ ai = IF i > Home THEN i - 2 ELSE i - 1
    /\ \A j \in DOMAIN Processors :
          j # Home /\ (j > i \/ (j = i /\ pc[Bsp] \in Before)) => pc[Processors[j]] = "off"

\* From the request for the contexts' frames to their release.
Listing == {"loop", "copy", "init_ipi", "free"} \cup Starting \cup Waiting

\* Before its first request of cpu_allocate.
Unallocated == {"off", "wait", "awake", "spin", "ack", "tables", "stack", "call", "init"}

\* How far cpu_allocate, pit_sleep and local_apic_start_smp have come.
Progress ==
    /\ \A c \in CPU : pc[c] \in Unallocated => need[c] = 0
    /\ \A c \in CPU : pc[c] = "allocate" => need[c] < Len(StackPages)
    /\ pc[Bsp] \in Asleep => sleep # 0
    /\ pc[Bsp] \in Listing => contexts \in Frame

\* An AP that has been given its context.
HasContext(a) == pc[a] \in {"init", "allocate", "report", "jump", "gate", "scheduling"}

\* The contexts up to ai are given out, each to one AP, and the one at ai is the page's.
OwnContext ==
    /\ context[Bsp] = Static
    /\ pc[Bsp] \in {"go"} \cup Waiting => comm.ap_context = ai
    /\ \A a \in AP : HasContext(a) =>
          /\ context[a] \in 0..Len(Processors) - 2
          /\ context[a] < ai \/ (context[a] = ai /\ pc[Bsp] \in Waiting /\ a = Processors[i])
    /\ \A a, d \in AP : HasContext(a) /\ HasContext(d) /\ context[a] = context[d] => a = d
    /\ \A a \in AP : Initialised(a) => cpu[context[a]] = a

\* An AP that will still take its stack from the page.
Expects(a) == pc[Bsp] \in {"go"} \cup Waiting /\ pc[a] \in {"spin", "ack", "tables", "stack"}

\* The frames of ap_contexts.
ContextRun == Run(contexts, ContextPages)

\* While memory lasts: what has been handed out is locked and handed out once, the stack in the
\* page and the frames of the contexts included.
Given ==
    ~short =>
      /\ \A c, d \in CPU : c # d => blocks[c] \cap blocks[d] = {}
      /\ \A c \in CPU : blocks[c] \subseteq taken
      /\ pc[Bsp] \in Listing =>
            ContextRun \subseteq taken /\ \A c \in CPU : ContextRun \cap blocks[c] = {}
      /\ \A a \in AP : Expects(a) =>
            /\ comm.stack \in Frame /\ Run(comm.stack, 2) \subseteq taken
            /\ ContextRun \cap Run(comm.stack, 2) = {}
            /\ \A c \in CPU : Run(comm.stack, 2) \cap blocks[c] = {}

------------------------------------------------------------------------------
\* Where pit_sleep returns to, label by label.
LEMMA SleepLabels ==
    /\ Asleep = {"init_sleep", "startup1_sleep", "startup2_sleep", "poll_sleep", "done_sleep"}
    /\ AfterSleep["init_sleep"] = "startup1" /\ AfterSleep["startup1_sleep"] = "startup2"
    /\ AfterSleep["startup2_sleep"] = "poll" /\ AfterSleep["poll_sleep"] = "poll"
    /\ AfterSleep["done_sleep"] = "await"
BY Zenon DEF Asleep, AfterSleep

\* pit_sleep always sleeps.
LEMMA SleepLengths == pit_ticks(10) \in Nat \ {0} /\ pit_ticks(1) \in Nat \ {0}
<1>1. \E n \in 1..10 : (n * 65535 * 1000) \div 1193182 >= 10 /\ ((n - 1) * 65535 * 1000) \div 1193182 < 10
  <2>1. (1 * 65535 * 1000) \div 1193182 >= 10 /\ ((1 - 1) * 65535 * 1000) \div 1193182 < 10 OBVIOUS
  <2> QED BY <2>1
<1>2. \E n \in 1..1 : (n * 65535 * 1000) \div 1193182 >= 1 /\ ((n - 1) * 65535 * 1000) \div 1193182 < 1
  <2>1. (1 * 65535 * 1000) \div 1193182 >= 1 /\ ((1 - 1) * 65535 * 1000) \div 1193182 < 1 OBVIOUS
  <2> QED BY <2>1
<1>3. pit_ticks(10) \in 1..10 BY <1>1 DEF pit_ticks
<1>4. pit_ticks(1) \in 1..1 BY <1>2 DEF pit_ticks
<1> QED BY <1>3, <1>4

\* cpu_allocate makes four requests, of one or two pages.
LEMMA StackPagesIs == Len(StackPages) = 4 /\ \A k \in 1..4 : StackPages[k] \in {1, 2}
BY DEF StackPages

\* What a tick does to the labels: at most the BSP's, along one sleep.
LEMMA TickMoves ==
    ASSUME pc \in [CPU -> Label], Tick
    PROVE  /\ pc' \in [CPU -> Label] /\ \A c \in CPU \ {Bsp} : pc'[c] = pc[c]
           /\ \/ pc'[Bsp] = pc[Bsp] /\ sleep # 1
              \/ pc[Bsp] = "init_sleep" /\ pc'[Bsp] = "startup1"
              \/ pc[Bsp] = "startup1_sleep" /\ pc'[Bsp] = "startup2"
              \/ pc[Bsp] = "startup2_sleep" /\ pc'[Bsp] = "poll"
              \/ pc[Bsp] = "poll_sleep" /\ pc'[Bsp] = "poll"
              \/ pc[Bsp] = "done_sleep" /\ pc'[Bsp] = "await"
<1> Bsp \in CPU BY Zenon DEF CPU
<1>1. pc[Bsp] \in {"init_sleep", "startup1_sleep", "startup2_sleep", "poll_sleep", "done_sleep"}
  BY SleepLabels, Zenon DEF Tick
<1>2. CASE sleep # 1
  <2>1. pc' = [pc EXCEPT ![Bsp] = pc[Bsp]] BY <1>2, Zenon DEF Tick
  <2> QED BY <1>2, <2>1, Zenon
<1>3. CASE sleep = 1
  <2>1. pc' = [pc EXCEPT ![Bsp] = AfterSleep[pc[Bsp]]] BY <1>3, Zenon DEF Tick
  <2> QED BY <1>1, <2>1, SleepLabels DEF Label
<1> QED BY <1>2, <1>3, Zenon

\* A step of an AP is outside local_apic_start_smp and moves no other processor.
LEMMA ApMoves ==
    ASSUME pc \in [CPU -> Label], NEW a \in AP, ApStep(a)
    PROVE  /\ UNCHANGED <<bspVars, s_entry_lock>>
           /\ pc' \in [CPU -> Label] /\ \A c \in CPU \ {a} : pc'[c] = pc[c]
           /\ pc[a] \in {"awake", "spin", "ack", "tables", "stack", "call", "init", "allocate", "report",
                         "jump", "gate"}
<1> a \in CPU /\ a # Bsp BY BootAssumption, Zenon DEF CPU
<1>1. UNCHANGED <<bspVars, s_entry_lock>>
  BY Zenon DEF ApStep, apSame, Respond, SeeBsp, Acknowledge, LoadTables, LoadStack, CallInit, InitContext,
         Allocate, Report, Jump, EnterScheduler
<1>2. PICK from, to \in Label :
         /\ Move(a, from, to)
         /\ from \in {"awake", "spin", "ack", "tables", "stack", "call", "init", "allocate", "report",
                      "jump", "gate"}
  BY DEF ApStep, Label, Respond, SeeBsp, Acknowledge, LoadTables, LoadStack, CallInit, InitContext,
         Allocate, Report, Jump, EnterScheduler
<1>3. pc' \in [CPU -> Label] /\ \A c \in CPU \ {a} : pc'[c] = pc[c] BY <1>2, Zenon DEF Move
<1> QED BY <1>1, <1>2, <1>3, Zenon DEF Move

\* The BSP is in the list, once.
LEMMA HomeIs ==
    /\ Home \in 1..Len(Processors) /\ Len(Processors) \in Nat /\ DOMAIN Processors = 1..Len(Processors)
    /\ Processors[Home] = Bsp
    /\ \A j \in DOMAIN Processors : Processors[j] = Bsp <=> j = Home
    /\ \A j \in DOMAIN Processors : j # Home => Processors[j] \in AP
<1>1. Processors \in Seq(CPU) BY BootAssumption, Zenon
<1>2. Len(Processors) \in Nat /\ DOMAIN Processors = 1..Len(Processors) BY <1>1
<1>3. \E p \in DOMAIN Processors : Processors[p] = Bsp BY BootAssumption, Zenon DEF CPU
<1>4. Home \in DOMAIN Processors /\ Processors[Home] = Bsp BY <1>3, Zenon DEF Home
<1>5. \A j \in DOMAIN Processors : Processors[j] = Bsp <=> j = Home BY <1>4, BootAssumption, Zenon
<1>6. \A j \in DOMAIN Processors : Processors[j] \in CPU BY <1>1
<1> QED BY <1>2, <1>4, <1>5, <1>6, Zenon DEF CPU

\* A step of the BSP other than a message to an AP moves only the BSP.
LEMMA BspMoves ==
    ASSUME pc \in [CPU -> Label], BspStep, pc[Bsp] \notin {"init_ipi", "startup1", "startup2"}
    PROVE  pc' \in [CPU -> Label] /\ \A a \in AP : pc'[a] = pc[a]
<1> Bsp \in CPU /\ Bsp \notin AP /\ \A a \in AP : a \in CPU BY BootAssumption, Zenon DEF CPU
<1>1. UNCHANGED pc \/ \E to \in Label : pc' = [pc EXCEPT ![Bsp] = to]
  BY Zenon DEF BspStep, Label, Move, InitContext, Allocate, RequestContexts, NextProcessor, CopyTrampoline, SendInit,
         SendStartup, PollResponse, Configure, Go, AwaitDone, FreeContexts, MaskPit, SetupTasks, OpenGate
<1> QED BY <1>1, Zenon

\* The messages move the BSP and the AP whose turn it is.
LEMMA Messages ==
    ASSUME pc \in [CPU -> Label], i \in DOMAIN Processors, Processors[i] \in AP,
           SendInit \/ SendStartup("startup1", "startup1_sleep") \/ SendStartup("startup2", "startup2_sleep")
    PROVE  /\ pc' \in [CPU -> Label] /\ \A a \in AP \ {Processors[i]} : pc'[a] = pc[a]
           /\ UNCHANGED <<comm, contexts, i, ai, irq0, ready, memSame, bspSame>>
           /\ sleep' \in {pit_ticks(10), pit_ticks(1)}
           /\ \/ /\ pc[Bsp] = "init_ipi" /\ pc'[Bsp] = "init_sleep"
                 /\ pc'[Processors[i]] = "wait"
              \/ /\ \/ pc[Bsp] = "startup1" /\ pc'[Bsp] = "startup1_sleep"
                    \/ pc[Bsp] = "startup2" /\ pc'[Bsp] = "startup2_sleep"
                 /\ \/ pc'[Processors[i]] = pc[Processors[i]] /\ pc[Processors[i]] # "wait"
                    \/ pc[Processors[i]] = "wait" /\ pc'[Processors[i]] = "awake"
<1> PICK a \in AP : a = Processors[i] OBVIOUS
<1> Bsp \in CPU /\ Bsp \notin AP /\ a \in CPU BY BootAssumption, Zenon DEF CPU
<1>1. CASE SendInit BY <1>1, Zenon DEF SendInit, Label, CPU
<1>2. CASE SendStartup("startup1", "startup1_sleep") BY <1>2, Zenon DEF SendStartup, Label, CPU
<1>3. CASE SendStartup("startup2", "startup2_sleep") BY <1>3, Zenon DEF SendStartup, Label, CPU
<1> QED BY <1>1, <1>2, <1>3, Zenon

\* At the labels of the messages the BSP sends them.
LEMMA Senders ==
    ASSUME BspStep, pc[Bsp] \in {"init_ipi", "startup1", "startup2"}
    PROVE  SendInit \/ SendStartup("startup1", "startup1_sleep") \/ SendStartup("startup2", "startup2_sleep")
BY Zenon DEF BspStep, Move, InitContext, Allocate, RequestContexts, NextProcessor, CopyTrampoline, PollResponse,
       Configure, Go, AwaitDone, FreeContexts, MaskPit, SetupTasks, OpenGate

\* Every step keeps the loop in order.
LEMMA PositionStep ==
    ASSUME pc \in [CPU -> Label], Position, [Next]_vars
    PROVE  Position'
<1> Bsp \in CPU /\ Bsp \notin AP /\ \A a \in AP : a \in CPU BY BootAssumption, Zenon DEF CPU
<1> USE HomeIs DEF Position, BspLabel, Before, Starting, Waiting
<1>1. ASSUME NEW a \in AP, ApStep(a) PROVE Position'
  BY <1>1, ApMoves, Zenon DEF bspVars
<1>2. CASE SendInit \/ SendStartup("startup1", "startup1_sleep") \/ SendStartup("startup2", "startup2_sleep")
  <2>1. i \in DOMAIN Processors /\ i # Home /\ Processors[i] \in AP
    BY <1>2 DEF SendInit, SendStartup
  <2>2. pc[Bsp] \in {"init_ipi", "startup1", "startup2"} /\ pc'[Bsp] \in Starting \ {"configure", "go"}
    BY <1>2, <2>1, Messages, Zenon
  <2>3. \A j \in DOMAIN Processors : j # i /\ j # Home => pc'[Processors[j]] = pc[Processors[j]]
    BY <1>2, <2>1, Messages, BootAssumption
  <2> QED BY <1>2, <2>1, <2>2, <2>3, Messages
<1>3. CASE BspStep /\ pc[Bsp] \notin {"init_ipi", "startup1", "startup2"}
  <2> USE DEF bspVars, bspSame, memSame, Move
  <2>1. \A j \in DOMAIN Processors : j # Home => pc'[Processors[j]] = pc[Processors[j]]
    BY <1>3, BspMoves, Zenon
  <2>2. CASE NextProcessor BY <2>1, <2>2 DEF NextProcessor
  <2>3. CASE AwaitDone BY <2>1, <2>3 DEF AwaitDone
  <2>4. ASSUME UNCHANGED <<i, ai>>, pc'[Bsp] \in BspLabel, pc'[Bsp] \in Before => pc[Bsp] \in Before,
               pc'[Bsp] \in {"copy", "init_ipi"} \cup Starting \cup Waiting
                  => pc[Bsp] \in {"copy", "init_ipi"} \cup Starting \cup Waiting
        PROVE  Position'
    BY <2>1, <2>4, Zenon
  <2>5. CASE InitContext(Bsp) \/ Allocate(Bsp) \/ RequestContexts
    BY <2>4, <2>5 DEF InitContext, Allocate, RequestContexts
  <2>6. CASE CopyTrampoline \/ PollResponse
    BY <2>4, <2>6, Zenon DEF CopyTrampoline, PollResponse
  <2>7. CASE Configure \/ Go
    BY <2>4, <2>7, Zenon DEF Configure, Go
  <2>8. CASE FreeContexts \/ MaskPit \/ SetupTasks \/ OpenGate
    BY <2>4, <2>8 DEF FreeContexts, MaskPit, SetupTasks, OpenGate
  <2> QED BY <1>3, <2>2, <2>3, <2>5, <2>6, <2>7, <2>8, Zenon DEF BspStep, SendInit, SendStartup
<1>4. CASE Tick
  <2>1. UNCHANGED <<i, ai>> BY <1>4, Zenon DEF Tick
  <2>2. \A j \in DOMAIN Processors : j # Home => pc'[Processors[j]] = pc[Processors[j]]
    BY <1>4, TickMoves, Zenon
  <2> QED BY <1>4, <2>1, <2>2, TickMoves, Zenon
<1>5. CASE UNCHANGED vars BY <1>5, Zenon DEF vars
<1> QED BY <1>1, <1>2, <1>3, <1>4, <1>5, Senders, Zenon DEF Next

------------------------------------------------------------------------------
(* Types. *)

\* A number of pages, rounded up.
LEMMA RoundedUp ==
    ASSUME NEW x \in Nat, NEW p \in Nat \ {0}
    PROVE  (x + p - 1) \div p \in Nat
OBVIOUS

\* The contexts of any list of processors take a natural number of pages.
LEMMA ContextPagesNat == ContextPages \in Nat
<1> DEFINE x == ContextSize * (Len(Processors) - 1)
<1>1. x \in Nat
  <2>1. Len(Processors) - 1 \in Nat BY HomeIs
  <2>2. ASSUME NEW n \in Nat, NEW m \in Nat PROVE n * m \in Nat OBVIOUS
  <2> QED BY <2>1, <2>2, BootAssumption
<1> HIDE DEF x
<1>2. (x + PageSize - 1) \div PageSize \in Nat BY <1>1, RoundedUp, BootAssumption, Zenon
<1> QED BY <1>2, Zenon DEF ContextPages, x

\* A request stays within the frames, but for those past the end that a request may reach; when
\* memory lasts, the frames it returns were free and are locked now.
LEMMA RequestPages ==
    ASSUME taken \subseteq Frame, s_current_index \in 0..FramesNum + 1 + ContextPages, short \in BOOLEAN,
           NEW n \in {1, 2, ContextPages}, NEW b \in Frame, pageframe_request_pages(n, b)
    PROVE  /\ taken' \subseteq Frame /\ s_current_index' \in 0..FramesNum + 1 + ContextPages /\ short' \in BOOLEAN
           /\ n \in {1, 2} => Run(b, n) \subseteq 0..FramesNum
           /\ ~short' => ~short /\ Run(b, n) \cap taken = {} /\ taken' = taken \cup Run(b, n)
<1> FramesNum \in Nat \ {0} /\ b \in Int /\ 0 <= b /\ b < FramesNum BY BootAssumption DEF Frame
<1> ContextPages \in Nat BY ContextPagesNat
<1>1. n \in {1, 2} => Run(b, n) \subseteq 0..FramesNum BY DEF Run
<1>2. taken' \subseteq Frame /\ short' \in BOOLEAN BY Zenon DEF pageframe_request_pages
<1>3. s_current_index' \in 0..FramesNum + 1 + ContextPages BY DEF pageframe_request_pages
<1>4. ASSUME ~short' PROVE ~short /\ Run(b, n) \cap taken = {} /\ taken' = taken \cup Run(b, n)
  <2>1. ~short /\ Fits(b, n) /\ Run(b, n) \subseteq Frame /\ taken' = taken \cup (Run(b, n) \cap Frame)
    BY <1>4, Zenon DEF pageframe_request_pages
  <2> QED BY <2>1, Zenon DEF Fits
<1> QED BY <1>1, <1>2, <1>3, <1>4, Zenon

\* Which steps write which part of the state.
LEMMA Writers ==
    ASSUME [Next]_vars
    PROVE  /\ \/ UNCHANGED comm \/ CopyTrampoline \/ Configure \/ Go
              \/ \E a \in AP : Respond(a) \/ Acknowledge(a) \/ Report(a)
           /\ \/ UNCHANGED memSame \/ RequestContexts \/ Configure \/ FreeContexts
              \/ (\E c \in CPU : Allocate(c)) \/ (\E a \in AP : LoadStack(a))
           /\ UNCHANGED need \/ \E c \in CPU : Allocate(c)
           /\ UNCHANGED cpu \/ \E c \in CPU : InitContext(c)
           /\ UNCHANGED context \/ \E a \in AP : CallInit(a)
           /\ UNCHANGED contexts \/ RequestContexts
<1> Bsp \in CPU /\ \A a \in AP : a \in CPU BY Zenon DEF CPU
<1>1. ASSUME NEW a \in AP, ApStep(a)
      PROVE  /\ UNCHANGED comm \/ Respond(a) \/ Acknowledge(a) \/ Report(a)
             /\ UNCHANGED memSame \/ Allocate(a) \/ LoadStack(a)
             /\ UNCHANGED need \/ Allocate(a)
             /\ UNCHANGED cpu \/ InitContext(a)
             /\ UNCHANGED context \/ CallInit(a)
             /\ UNCHANGED contexts
  BY <1>1, Zenon DEF ApStep, apSame, bspVars, memSame, Respond, SeeBsp, Acknowledge, LoadTables, LoadStack, CallInit,
              InitContext, Allocate, Report, Jump, EnterScheduler
<1>2. CASE BspStep
  BY <1>2, Zenon DEF BspStep, bspVars, memSame, bspSame, InitContext, Allocate, RequestContexts, NextProcessor,
              CopyTrampoline, SendInit, SendStartup, PollResponse, Configure, Go, AwaitDone, FreeContexts,
              MaskPit, SetupTasks, OpenGate
<1>3. CASE Tick \/ UNCHANGED vars BY <1>3, Zenon DEF Tick, vars, memSame, bspSame
<1> QED BY <1>1, <1>2, <1>3, Zenon DEF Next

\* The page keeps its types: what the BSP writes into it are a frame and an index of ap_contexts.
LEMMA PageStep ==
    ASSUME comm \in Page, Position, [Next]_vars
    PROVE  comm' \in Page
<1>1. CASE UNCHANGED comm BY <1>1, Zenon
<1>2. CASE CopyTrampoline BY <1>2 DEF CopyTrampoline, Cleared, Page
<1>3. CASE Configure
  <2>1. pc[Bsp] = "configure" BY <1>3, Zenon DEF Configure, Move
  <2>2. i \in 1..Len(Processors) /\ i # Home /\ ai = IF i > Home THEN i - 2 ELSE i - 1
    BY <2>1, HomeIs DEF Position, Starting
  <2>3. ai \in ContextPtr BY <2>2, HomeIs DEF ContextPtr
  <2>4. PICK b \in Frame :
           comm' = [comm EXCEPT !.stack = b, !.ap_context = ai, !.cpu_init_ap = "cpu_init_ap",
                                !.scheduler_entry = "scheduler_entry", !.pagetable_l4 = "kernel"]
    BY <1>3, Zenon DEF Configure
  <2> QED BY <2>3, <2>4, Zenon DEF Page
<1>4. CASE Go BY <1>4 DEF Go, Page
<1>5. ASSUME NEW a \in AP, Respond(a) \/ Acknowledge(a) \/ Report(a)
      PROVE  \E s \in 0..2 : comm' = [comm EXCEPT !.ap_status = s]
  BY <1>5 DEF Respond, Acknowledge, Report
<1>6. ASSUME NEW s \in 0..2, comm' = [comm EXCEPT !.ap_status = s]
      PROVE  comm' \in Page
  BY <1>6, Zenon DEF Page
<1> QED BY <1>1, <1>2, <1>3, <1>4, <1>5, <1>6, Writers, Zenon

\* The allocator and what it hands out keep their types.
LEMMA MemoryStep ==
    ASSUME TypeOK, Progress, [Next]_vars
    PROVE  /\ taken' \subseteq Frame /\ s_current_index' \in 0..FramesNum + 1 + ContextPages /\ short' \in BOOLEAN
           /\ blocks' \in [CPU -> SUBSET (0..FramesNum)]
           /\ contexts' \in Frame \cup {Null}
<1> FramesNum \in Nat \ {0} BY BootAssumption, Zenon
<1>1. contexts' \in Frame \cup {Null}
  <2>1. UNCHANGED contexts \/ contexts' \in Frame BY Writers, Zenon DEF RequestContexts
  <2> QED BY <2>1, Zenon DEF TypeOK
<1>2. CASE UNCHANGED memSame BY <1>1, <1>2, Zenon DEF memSame, TypeOK
<1>3. CASE RequestContexts
  <2>1. PICK b \in Frame : pageframe_request_pages(ContextPages, b) /\ UNCHANGED blocks
    BY <1>3, Zenon DEF RequestContexts
  <2> QED BY <1>1, <2>1, RequestPages, Zenon DEF TypeOK
<1>4. CASE Configure
  <2>1. PICK b \in Frame : pageframe_request_pages(2, b) /\ UNCHANGED blocks BY <1>4, Zenon DEF Configure
  <2> QED BY <1>1, <2>1, RequestPages, Zenon DEF TypeOK
<1>5. ASSUME NEW c \in CPU, Allocate(c)
      PROVE  /\ taken' \subseteq Frame /\ s_current_index' \in 0..FramesNum + 1 + ContextPages /\ short' \in BOOLEAN
             /\ blocks' \in [CPU -> SUBSET (0..FramesNum)]
  <2>1. need[c] + 1 \in 1..4 BY <1>5, StackPagesIs DEF Allocate, Move, Progress, TypeOK
  <2>2. PICK n \in {1, 2} : n = StackPages[need[c] + 1] BY <2>1, StackPagesIs, Zenon
  <2>3. PICK b \in Frame : pageframe_request_pages(n, b) /\ blocks' = [blocks EXCEPT ![c] = @ \cup Run(b, n)]
    BY <1>5, <2>2, Zenon DEF Allocate
  <2>4. n \in {1, 2, ContextPages} BY Zenon
  <2>5. taken \subseteq Frame /\ s_current_index \in 0..FramesNum + 1 + ContextPages /\ short \in BOOLEAN
    BY Zenon DEF TypeOK
  <2>6. /\ taken' \subseteq Frame /\ s_current_index' \in 0..FramesNum + 1 + ContextPages /\ short' \in BOOLEAN
        /\ Run(b, n) \subseteq 0..FramesNum
    BY <2>3, <2>4, <2>5, RequestPages, Zenon
  <2> QED BY <2>3, <2>6, Zenon DEF TypeOK
<1>6. CASE FreeContexts
  <2>1. /\ taken' \subseteq taken /\ s_current_index' \in taken \cup {s_current_index} /\ UNCHANGED <<blocks, short>>
    BY <1>6, Zenon DEF FreeContexts
  <2>2. Frame \subseteq 0..FramesNum + 1 + ContextPages BY ContextPagesNat DEF Frame
  <2> QED BY <1>1, <2>1, <2>2, Zenon DEF TypeOK
<1>7. ASSUME NEW a \in AP, LoadStack(a)
      PROVE  UNCHANGED <<taken, s_current_index, short>> /\ blocks' \in [CPU -> SUBSET (0..FramesNum)]
  <2>1. CASE comm.stack = Null BY <1>7, <2>1, Zenon DEF LoadStack, TypeOK
  <2>2. CASE comm.stack # Null
    <3>1. comm.stack \in Frame BY <2>2, Zenon DEF TypeOK
    <3>2. Run(comm.stack, 2) \subseteq 0..FramesNum BY <3>1 DEF Run, Frame
    <3> QED BY <1>7, <2>2, <3>2, Zenon DEF LoadStack, TypeOK
  <2> QED BY <2>1, <2>2, Zenon
<1> QED BY <1>1, <1>2, <1>3, <1>4, <1>5, <1>6, <1>7, Writers, Zenon DEF TypeOK

\* The labels stay labels.
LEMMA LabelStep ==
    ASSUME pc \in [CPU -> Label], Position, [Next]_vars
    PROVE  pc' \in [CPU -> Label]
<1>1. CASE SendInit \/ SendStartup("startup1", "startup1_sleep") \/ SendStartup("startup2", "startup2_sleep")
  <2>1. i \in DOMAIN Processors /\ Processors[i] \in AP
    BY <1>1, HomeIs DEF SendInit, SendStartup, Position, Starting
  <2> QED BY <1>1, <2>1, Messages, Zenon
<1>2. CASE BspStep /\ pc[Bsp] \notin {"init_ipi", "startup1", "startup2"} BY <1>2, BspMoves, Zenon
<1>3. CASE UNCHANGED vars BY <1>3, Zenon DEF vars
<1> QED BY <1>1, <1>2, <1>3, Senders, TickMoves, ApMoves, Zenon DEF Next

\* The contexts, the requests and the BSP's own variables keep their types.
LEMMA LocalsStep ==
    ASSUME TypeOK, Position, Progress, [Next]_vars
    PROVE  /\ cpu' \in [ContextPtr -> CPU \cup {Null}] /\ context' \in [CPU -> ContextPtr \cup {Null}]
           /\ need' \in [CPU -> 0..Len(StackPages)]
           /\ sleep' \in Nat
           /\ irq0' \in BOOLEAN /\ ready' \in BOOLEAN /\ s_entry_lock' \in BOOLEAN
<1>1. cpu' \in [ContextPtr -> CPU \cup {Null}]
  <2>1. UNCHANGED cpu \/ \E c \in CPU : cpu' = [cpu EXCEPT ![context[c]] = c] BY Writers, Zenon DEF InitContext
  <2> QED BY <2>1, Zenon DEF TypeOK
<1>2. context' \in [CPU -> ContextPtr \cup {Null}]
  <2>1. UNCHANGED context \/ \E a \in AP : context' = [context EXCEPT ![a] = comm.ap_context]
    BY Writers, Zenon DEF CallInit
  <2>2. comm.ap_context \in ContextPtr \cup {Null} BY Zenon DEF TypeOK
  <2> QED BY <2>1, <2>2, Zenon DEF TypeOK
<1>3. need' \in [CPU -> 0..Len(StackPages)]
  <2>1. UNCHANGED need \/ \E c \in CPU : need' = [need EXCEPT ![c] = @ + 1] /\ pc[c] = "allocate"
    BY Writers, Zenon DEF Allocate, Move
  <2> QED BY <2>1, StackPagesIs DEF TypeOK, Progress
<1>4. sleep' \in Nat
  <2>1. sleep' \in {sleep, pit_ticks(10), pit_ticks(1)} \/ (sleep' = sleep - 1 /\ pc[Bsp] \in Asleep)
    BY Zenon DEF Next, vars, BspStep, ApStep, bspVars, apSame, Tick, InitContext, Allocate, RequestContexts,
           NextProcessor, CopyTrampoline, SendInit, SendStartup, PollResponse, Configure, Go, AwaitDone,
           FreeContexts, MaskPit, SetupTasks, OpenGate, Respond, SeeBsp, Acknowledge, LoadTables, LoadStack,
           CallInit, Report, Jump, EnterScheduler
  <2> QED BY <2>1, SleepLengths DEF TypeOK, Progress
<1>5. irq0' \in {irq0, FALSE} /\ ready' \in {ready, TRUE} /\ s_entry_lock' \in {s_entry_lock, TRUE}
  BY Zenon DEF Next, vars, BspStep, ApStep, bspVars, bspSame, apSame, Tick, InitContext, Allocate, RequestContexts,
         NextProcessor, CopyTrampoline, SendInit, SendStartup, PollResponse, Configure, Go, AwaitDone,
         FreeContexts, MaskPit, SetupTasks, OpenGate, Respond, SeeBsp, Acknowledge, LoadTables, LoadStack,
         CallInit, Report, Jump, EnterScheduler
<1> QED BY <1>1, <1>2, <1>3, <1>4, <1>5, Zenon DEF TypeOK

\* The context index a position in the list gives.
LEMMA Counting ==
    ASSUME NEW n \in Nat, NEW h \in 1..n, NEW k \in 1..n + 1
    PROVE  (IF k > h THEN k - 2 ELSE k - 1) \in 0..n - 1
OBVIOUS

\* Every step keeps the types.
LEMMA TypeStep ==
    ASSUME TypeOK, Position, Progress, [Next]_vars
    PROVE  TypeOK' /\ Position'
<1>1. pc \in [CPU -> Label] /\ comm \in Page BY SleepLabels DEF TypeOK, Label, Page
<1>2. Position' BY <1>1, PositionStep, Zenon
<1>3. pc' \in [CPU -> Label] /\ comm' \in Page BY <1>1, LabelStep, PageStep, Zenon
<1>4. i' \in 1..Len(Processors) + 1 /\ ai' \in 0..Len(Processors) - 1
  <2>1. i' \in 1..Len(Processors) + 1 /\ ai' = IF i' > Home THEN i' - 2 ELSE i' - 1
    BY <1>2, Zenon DEF Position
  <2>2. Home \in 1..Len(Processors) /\ Len(Processors) \in Nat BY HomeIs, Zenon
  <2> QED BY <2>1, <2>2, Counting, Zenon
<1> QED BY <1>2, <1>3, <1>4, MemoryStep, LocalsStep, SleepLabels DEF TypeOK, Label, Page

\* cpu_allocate is behind a processor once it has begun, and it begins it once.
LEMMA RequestsStep ==
    ASSUME TypeOK, pc \in [CPU -> Label], Position, Progress, [Next]_vars, NEW c \in CPU
    PROVE  /\ pc'[c] \in Unallocated => need'[c] = 0
           /\ pc'[c] = "allocate" => need'[c] < Len(StackPages)
<1> Bsp \in CPU /\ Bsp \notin AP /\ \A a \in AP : a \in CPU BY BootAssumption, Zenon DEF CPU
<1>1. CASE Allocate(c)
  <2>1. /\ pc'[c] = IF need[c] + 1 < Len(StackPages) THEN "allocate"
                    ELSE IF c = Bsp THEN "contexts" ELSE "report"
        /\ need'[c] = need[c] + 1
    BY <1>1, Zenon DEF Allocate, Move, TypeOK
  <2> QED BY <2>1, Zenon DEF Unallocated
<1>2. CASE ~Allocate(c)
  <2>1. need'[c] = need[c]
    <3>1. UNCHANGED need \/ \E d \in CPU \ {c} : Allocate(d) BY <1>2, Writers, Zenon
    <3>2. ASSUME NEW d \in CPU \ {c}, Allocate(d) PROVE need'[c] = need[c]
      BY <3>2, Zenon DEF Allocate, TypeOK
    <3> QED BY <3>1, <3>2, Zenon
  <2>2. ASSUME pc'[c] # pc[c]
        PROVE  /\ pc'[c] \in Unallocated => pc[c] \in Unallocated
               /\ pc'[c] = "allocate" => pc[c] = "init"
    <3>1. CASE c \in AP /\ ApStep(c)
      BY <1>2, <3>1, Zenon DEF ApStep, Move, Unallocated, Respond, SeeBsp, Acknowledge, LoadTables, LoadStack, CallInit,
                        InitContext, Report, Jump, EnterScheduler
    <3>2. CASE SendInit \/ SendStartup("startup1", "startup1_sleep")
               \/ SendStartup("startup2", "startup2_sleep")
      <4>1. i \in DOMAIN Processors /\ i # Home /\ Processors[i] \in AP
        BY <3>2, HomeIs DEF SendInit, SendStartup, Position, Starting
      <4>2. pc[Bsp] = "init_ipi" => pc[Processors[i]] = "off" BY <4>1, Zenon DEF Position, Before
      <4> QED BY <2>2, <3>2, <4>1, <4>2, Messages, Zenon DEF Unallocated, CPU
    <3>3. CASE BspStep /\ pc[Bsp] \notin {"init_ipi", "startup1", "startup2"}
      <4>1. c = Bsp BY <2>2, <3>3, BspMoves, Zenon DEF CPU
      <4> QED
        BY <1>2, <3>3, <4>1, Zenon
        DEF BspStep, Move, Unallocated, InitContext, RequestContexts, NextProcessor, CopyTrampoline, SendInit,
            SendStartup, PollResponse, Configure, Go, AwaitDone, FreeContexts, MaskPit, SetupTasks, OpenGate
    <3>4. CASE Tick BY <2>2, <3>4, TickMoves, Zenon DEF Unallocated
    <3> QED BY <2>2, <3>1, <3>2, <3>3, <3>4, Senders, ApMoves, Zenon DEF Next, vars
  <2> QED BY <2>1, <2>2, StackPagesIs DEF Progress, Unallocated
<1> QED BY <1>1, <1>2, Zenon

\* RequestContexts leads into the loop, and nothing else.
LEMMA ListingMoves ==
    ASSUME pc \in [CPU -> Label], [Next]_vars, pc'[Bsp] \in Listing, ~RequestContexts
    PROVE  pc[Bsp] \in Listing /\ UNCHANGED contexts
<1> Bsp \in CPU /\ Bsp \notin AP BY BootAssumption, Zenon DEF CPU
<1>1. UNCHANGED contexts BY Writers, Zenon
<1>2. CASE BspStep
  BY <1>1, <1>2, Zenon
  DEF BspStep, Move, Listing, Starting, Waiting, InitContext, Allocate, NextProcessor, CopyTrampoline, SendInit,
      SendStartup, PollResponse, Configure, Go, AwaitDone, FreeContexts, MaskPit, SetupTasks, OpenGate
<1>3. CASE Tick BY <1>1, <1>3, TickMoves, Zenon DEF Listing, Starting, Waiting
<1> QED BY <1>1, <1>2, <1>3, ApMoves, Zenon DEF Next, vars

\* pit_sleep starts with something to wait for, and the contexts' frame is one of the allocator's.
LEMMA ProgressStep ==
    ASSUME TypeOK, Position, Progress, [Next]_vars
    PROVE  Progress'
<1> Bsp \in CPU /\ Bsp \notin AP BY BootAssumption, Zenon DEF CPU
<1>1. pc \in [CPU -> Label] BY SleepLabels DEF TypeOK, Label
<1>2. CASE pc'[Bsp] = pc[Bsp] /\ UNCHANGED <<sleep, contexts>>
  BY <1>1, <1>2, RequestsStep, Zenon DEF Progress
<1>3. CASE Tick
  <2>1. UNCHANGED contexts /\ sleep' = sleep - 1 /\ pc[Bsp] \in Asleep BY <1>3, Zenon DEF Tick
  <2>2. pc'[Bsp] \in Asleep => sleep # 1 BY <1>1, <1>3, TickMoves, SleepLabels, Zenon
  <2>3. pc'[Bsp] \in Listing /\ pc[Bsp] \in Listing
    BY <1>1, <1>3, <2>1, TickMoves, SleepLabels, Zenon DEF Listing, Starting, Waiting
  <2> QED BY <1>1, <2>1, <2>2, <2>3, RequestsStep DEF Progress, TypeOK
<1>4. CASE BspStep
  <2>1. pc'[Bsp] \in Asleep => sleep' \in {pit_ticks(10), pit_ticks(1)}
    BY <1>1, <1>4, SleepLabels, Zenon
    DEF BspStep, Move, InitContext, Allocate, RequestContexts, NextProcessor, CopyTrampoline, SendInit,
        SendStartup, PollResponse, Configure, Go, AwaitDone, FreeContexts, MaskPit, SetupTasks, OpenGate
  <2>2. pc'[Bsp] \in Listing => contexts' \in Frame BY <1>1, ListingMoves, Zenon DEF Progress, RequestContexts
  <2> QED BY <1>1, <2>1, <2>2, SleepLengths, RequestsStep, Zenon DEF Progress
<1> QED BY <1>1, <1>2, <1>3, <1>4, ApMoves, Zenon DEF Next, vars, bspVars

\* What holds when the boot starts.
LEMMA Start == Init => TypeOK /\ Position /\ Progress /\ Handshake /\ Gated
<1> SUFFICES ASSUME Init PROVE TypeOK /\ Position /\ Progress /\ Handshake /\ Gated OBVIOUS
<1>1. Bsp \in CPU /\ Bsp \notin AP /\ \A a \in AP : a \in CPU BY BootAssumption, Zenon DEF CPU
<1>2. pc[Bsp] = "init" /\ \A a \in AP : pc[a] = "off" BY <1>1, Zenon DEF Init
<1>3. comm \in Page BY DEF Init, Page, Cleared
<1>4. taken \subseteq Frame /\ 0 \in 0..FramesNum + 1 + ContextPages BY BootAssumption, ContextPagesNat DEF Init, Frame
<1>5. Static \in ContextPtr BY Zenon DEF ContextPtr
<1>6. Position
  <2>1. i = 1 /\ ai = 0 BY Zenon DEF Init
  <2>2. 1 \in 1..Len(Processors) + 1 /\ ~(1 > Home) BY HomeIs
  <2>3. \A j \in DOMAIN Processors : j # Home => pc[Processors[j]] = "off" BY <1>2, HomeIs, Zenon
  <2> QED BY <1>2, <2>1, <2>2, <2>3 DEF Position, BspLabel, Starting, Waiting
<1>7. i \in 1..Len(Processors) + 1 /\ ai \in 0..Len(Processors) - 1 BY <1>6, HomeIs DEF Position
<1>8. TypeOK
  <2>1. /\ blocks \in [CPU -> SUBSET (0..FramesNum)] /\ cpu \in [ContextPtr -> CPU \cup {Null}]
        /\ context \in [CPU -> ContextPtr \cup {Null}] /\ need \in [CPU -> 0..Len(StackPages)]
    BY <1>5, StackPagesIs DEF Init
  <2>2. s_current_index \in 0..FramesNum + 1 + ContextPages /\ sleep \in Nat /\ contexts = Null BY <1>4, Zenon DEF Init
  <2>3. irq0 \in BOOLEAN /\ ready \in BOOLEAN /\ s_entry_lock \in BOOLEAN /\ short \in BOOLEAN BY Zenon DEF Init
  <2>4. pc \in [CPU -> {"init", "off"}] BY Zenon DEF Init
  <2> QED BY <1>3, <1>4, <1>7, <2>1, <2>2, <2>3, <2>4 DEF TypeOK, Page
<1>9. Progress BY <1>2, SleepLabels, Zenon DEF Progress, Unallocated, Listing, Starting, Waiting, Init, CPU
<1>10. Handshake BY <1>2, Zenon DEF Handshake, Inside, Starting, Waiting, Told
<1>11. Gated BY <1>2, Zenon DEF Gated, Init
<1> QED BY <1>6, <1>8, <1>9, <1>10, <1>11, Zenon

\* The loop and the types hold throughout.
LEMMA AlwaysTyped == Spec => [](TypeOK /\ Position /\ Progress)
<1>1. TypeOK /\ Position /\ Progress /\ [Next]_vars => TypeOK' /\ Position' /\ Progress'
  BY TypeStep, ProgressStep, Zenon
<1> QED BY Start, <1>1, PTL DEF Spec

\* Every word keeps its type, for any number of processors, any order of the firmware's list and any
\* memory: ai stays an index of ap_contexts wherever the firmware lists the BSP, cpu_allocate makes
\* four requests, and a request never reaches further than one frame past the end of memory.
THEOREM BootTyped == Spec => []TypeOK
BY AlwaysTyped, PTL

------------------------------------------------------------------------------
(* The trampoline and the gate. *)

\* Every step keeps to the handshake, given that an AP answers within a sleep.
LEMMA HandshakeStep ==
    ASSUME Prompt, pc \in [CPU -> Label], comm \in Page, Position, Handshake, [Next]_vars
    PROVE  Handshake'
<1> Bsp \in CPU /\ Bsp \notin AP /\ \A a \in AP : a \in CPU BY BootAssumption, Zenon DEF CPU
<1> USE DEF Handshake, Inside, Starting, Waiting, Told
<1>1. ASSUME NEW a \in AP, ApStep(a) PROVE Handshake'
  <2>1. /\ UNCHANGED i /\ pc'[Bsp] = pc[Bsp] /\ (\A d \in AP \ {a} : pc'[d] = pc[d])
        /\ pc' \in [CPU -> Label] /\ a \in CPU
    BY <1>1, ApMoves, Zenon DEF bspVars
  <2> USE <2>1 DEF Move, apSame, Page
  <2>2. CASE Respond(a) BY <2>2 DEF Respond
  <2>3. CASE SeeBsp(a) BY <2>3, Zenon DEF SeeBsp
  <2>4. CASE Acknowledge(a) BY <2>4, Zenon DEF Acknowledge
  <2>5. CASE LoadTables(a) BY <2>5, Zenon DEF LoadTables
  <2>6. CASE LoadStack(a) BY <2>6 DEF LoadStack
  <2>7. CASE CallInit(a) BY <2>7 DEF CallInit
  <2>8. CASE InitContext(a) BY <2>8, Zenon DEF InitContext
  <2>9. CASE Allocate(a) BY <2>9, Zenon DEF Allocate
  <2>10. CASE Report(a) BY <2>10 DEF Report
  <2>11. CASE Jump(a) BY <2>11 DEF Jump
  <2>12. CASE EnterScheduler(a) BY <2>12, Zenon DEF EnterScheduler
  <2> QED
    BY <1>1, <2>2, <2>3, <2>4, <2>5, <2>6, <2>7, <2>8, <2>9, <2>10, <2>11, <2>12, Zenon DEF ApStep
<1>2. CASE SendInit \/ SendStartup("startup1", "startup1_sleep") \/ SendStartup("startup2", "startup2_sleep")
  <2>1. i \in DOMAIN Processors /\ Processors[i] \in AP
    BY <1>2, HomeIs DEF SendInit, SendStartup, Position
  <2>2. PICK a \in AP : a = Processors[i] BY <2>1, Zenon
  <2>3. /\ (\A d \in AP \ {a} : pc'[d] = pc[d]) /\ UNCHANGED <<comm, i>> /\ pc'[Bsp] \in Starting \ {"configure", "go"}
        /\ \/ pc[Bsp] = "init_ipi" /\ pc'[a] = "wait"
           \/ /\ pc[Bsp] \in Starting
              /\ pc'[a] = pc[a] \/ (pc[a] = "wait" /\ pc'[a] = "awake")
    BY <1>2, <2>1, <2>2, Messages, Zenon
  <2> QED BY <2>2, <2>3
<1>3. CASE BspStep /\ pc[Bsp] \notin {"init_ipi", "startup1", "startup2"}
  <2>1. \A a \in AP : pc'[a] = pc[a] BY <1>3, BspMoves, Zenon
  <2> USE <2>1 DEF Move
  <2>2. CASE CopyTrampoline BY <2>2, Zenon DEF CopyTrampoline, Cleared, bspVars
  <2>3. CASE PollResponse BY <2>3, Zenon DEF PollResponse
  <2>4. CASE Configure BY <2>4 DEF Configure, Page, bspVars
  <2>5. CASE Go BY <2>5 DEF Go, Page
  <2>6. CASE AwaitDone BY <2>6 DEF AwaitDone
  <2>7. CASE InitContext(Bsp) \/ Allocate(Bsp) \/ RequestContexts \/ NextProcessor \/ FreeContexts \/ MaskPit
             \/ SetupTasks \/ OpenGate
    <3>1. pc'[Bsp] \notin {"init_ipi"} \cup Starting \cup Waiting
          /\ pc[Bsp] \notin Starting \cup Waiting
      BY <2>7 DEF InitContext, Allocate, RequestContexts, NextProcessor, FreeContexts, MaskPit, SetupTasks, OpenGate
    <3> QED BY <3>1, Zenon
  <2> QED BY <1>3, <2>2, <2>3, <2>4, <2>5, <2>6, <2>7, Zenon DEF BspStep, SendInit, SendStartup
<1>4. CASE Tick
  <2>1. (\A a \in AP : ~Answering(a) /\ pc'[a] = pc[a]) /\ UNCHANGED <<comm, i>>
    BY <1>4, TickMoves, Zenon DEF Tick
  <2> QED BY <1>4, <2>1, TickMoves, Zenon DEF Answering
<1>5. CASE UNCHANGED vars BY <1>5, Zenon DEF vars
<1> QED BY <1>1, <1>2, <1>3, <1>4, <1>5, Senders, Zenon DEF Next

\* Every step keeps the gate.
LEMMA GatedStep ==
    ASSUME pc \in [CPU -> Label], Position, Gated, [Next]_vars
    PROVE  Gated'
<1> Bsp \in CPU /\ Bsp \notin AP /\ \A a \in AP : a \in CPU BY BootAssumption, Zenon DEF CPU
<1> USE DEF Gated
<1>1. ASSUME NEW a \in AP, ApStep(a) PROVE Gated'
  <2>1. pc'[a] = "scheduling" => s_entry_lock
    BY <1>1, Zenon DEF ApStep, Move, Respond, SeeBsp, Acknowledge, LoadTables, LoadStack, CallInit, InitContext, Allocate,
                Report, Jump, EnterScheduler
  <2> QED BY <1>1, <2>1, ApMoves, Zenon DEF bspVars
<1>2. CASE BspStep \/ Tick
  <2>1. \A a \in AP : pc'[a] = "scheduling" => pc[a] = "scheduling"
    <3>1. CASE SendInit \/ SendStartup("startup1", "startup1_sleep") \/ SendStartup("startup2", "startup2_sleep")
      <4>1. i \in DOMAIN Processors /\ Processors[i] \in AP
        BY <3>1, HomeIs DEF SendInit, SendStartup, Position, Starting
      <4> QED BY <3>1, <4>1, Messages, Zenon
    <3> QED BY <1>2, <3>1, Senders, BspMoves, TickMoves, Zenon
  <2>2. CASE UNCHANGED <<irq0, ready, s_entry_lock>> /\ pc'[Bsp] \notin {"tasks", "gate", "scheduling"}
    BY <2>1, <2>2, Zenon
  <2>3. CASE MaskPit \/ SetupTasks \/ OpenGate
    BY <2>1, <2>3 DEF Move, MaskPit, SetupTasks, OpenGate, bspVars, bspSame
  <2>4. CASE Tick
    <3>1. UNCHANGED <<irq0, ready, s_entry_lock>> BY <2>4, Zenon DEF Tick, bspSame
    <3> QED BY <2>2, <2>4, <3>1, TickMoves, SleepLabels, Zenon DEF Tick
  <2>5. CASE BspStep
    BY <2>2, <2>3, <2>5, Zenon
    DEF BspStep, Move, bspVars, bspSame, InitContext, Allocate, RequestContexts, NextProcessor, CopyTrampoline,
        SendInit, SendStartup, PollResponse, Configure, Go, AwaitDone, FreeContexts
  <2> QED BY <1>2, <2>4, <2>5, Zenon
<1>3. CASE UNCHANGED vars BY <1>3, Zenon DEF vars
<1> QED BY <1>1, <1>2, <1>3, Zenon DEF Next

\* The page and the labels have their types throughout.
LEMMA AlwaysLabels == Spec => [](pc \in [CPU -> Label] /\ comm \in Page /\ Position)
<1>1. TypeOK => pc \in [CPU -> Label] /\ comm \in Page BY SleepLabels DEF TypeOK, Label, Page
<1> QED BY AlwaysTyped, <1>1, PTL

\* While the sleeps of local_apic_start_smp outlast an AP's answers, at most one AP is in the
\* trampoline, and none when the BSP overwrites its page or frees the contexts, for any number of
\* processors: the two status words order the two sides.
THEOREM TrampolineExclusive == Spec => []OneInTrampoline
<1>1. CASE Prompt
  <2>1. pc \in [CPU -> Label] /\ comm \in Page /\ Position /\ Handshake /\ [Next]_vars => Handshake'
    BY <1>1, HandshakeStep, Zenon
  <2>2. Handshake => OneInTrampoline
    BY Zenon DEF Handshake, OneInTrampoline, Inside, Starting, Waiting
  <2> QED BY Start, AlwaysLabels, <2>1, <2>2, PTL DEF Spec
<1>2. CASE ~Prompt
  <2>1. OneInTrampoline BY <1>2, Zenon DEF OneInTrampoline
  <2> QED BY <2>1, PTL
<1> QED BY <1>1, <1>2, Zenon

\* No processor, of however many, enters the scheduler before setup_tasks is done and the PIT's interrupt
\* is masked: only the BSP sets s_entry_lock, at the end of setup_post.
THEOREM GateHolds == Spec => []GateAfterSetup
<1>1. pc \in [CPU -> Label] /\ Position /\ Gated /\ [Next]_vars => Gated' BY GatedStep, Zenon
<1>2. Gated => GateAfterSetup BY Zenon DEF Gated, GateAfterSetup, CPU
<1> QED BY Start, AlwaysLabels, <1>1, <1>2, PTL DEF Spec

------------------------------------------------------------------------------
(* Contexts and memory. *)

\* Every step keeps the contexts apart.
LEMMA ContextStep ==
    ASSUME TypeOK, pc \in [CPU -> Label], comm \in Page, Position, Handshake, OwnContext, [Next]_vars
    PROVE  OwnContext'
<1> Bsp \in CPU /\ Bsp \notin AP /\ \A a \in AP : a \in CPU BY BootAssumption, Zenon DEF CPU
<1>1. /\ \A a \in AP : HasContext(a) => context[a] \in ContextPtr /\ context[a] # Static
      /\ \A a \in AP : Initialised(a) => HasContext(a)
      /\ Static \in ContextPtr /\ ai \in Int
  BY HomeIs DEF OwnContext, ContextPtr, Static, HasContext, Initialised, TypeOK
<1>2. ASSUME UNCHANGED <<cpu, context>>,
             \A a \in AP : (HasContext(a)' => HasContext(a)) /\ (Initialised(a)' => Initialised(a)),
             pc'[Bsp] \in {"go"} \cup Waiting => comm'.ap_context = ai',
             \/ UNCHANGED <<i, ai>> /\ (pc[Bsp] \in Waiting => pc'[Bsp] \in Waiting)
             \/ pc[Bsp] \notin Waiting /\ ai' = ai
             \/ ai' = ai + 1
      PROVE  OwnContext'
  BY <1>1, <1>2 DEF OwnContext
<1>3. ASSUME NEW a \in AP, ApStep(a) PROVE OwnContext'
  <2>1. /\ UNCHANGED <<i, ai>> /\ pc'[Bsp] = pc[Bsp] /\ a \in CPU
        /\ \A d \in AP \ {a} : /\ pc'[d] = pc[d] /\ (HasContext(d)' <=> HasContext(d))
                               /\ (Initialised(d)' <=> Initialised(d))
    BY <1>3, ApMoves, Zenon DEF bspVars, HasContext, Initialised
  <2>2. comm'.ap_context = comm.ap_context
    BY <1>3, Zenon DEF ApStep, apSame, Page, Respond, SeeBsp, Acknowledge, LoadTables, LoadStack, CallInit,
                InitContext, Allocate, Report, Jump, EnterScheduler
  <2>3. CASE CallInit(a)
    <3>1. pc[Bsp] \in Waiting /\ a = Processors[i] /\ ~Initialised(a)'
      BY <2>3, Zenon DEF CallInit, Move, Handshake, Inside, Told, Initialised
    <3>2. ai \in 0..Len(Processors) - 2 /\ comm.ap_context = ai
      BY <3>1, HomeIs DEF Position, OwnContext
    <3>3. UNCHANGED cpu /\ context'[a] = ai /\ \A d \in CPU \ {a} : context'[d] = context[d]
      BY <2>3, <3>2, Zenon DEF CallInit, apSame, TypeOK
    <3>4. \A d \in AP \ {a} : HasContext(d) => context[d] # ai
      BY <1>1, <3>1 DEF OwnContext
    <3> QED BY <1>1, <2>1, <2>2, <3>1, <3>2, <3>3, <3>4 DEF OwnContext
  <2>4. CASE InitContext(a)
    <3>1. HasContext(a) /\ HasContext(a)' /\ UNCHANGED context /\ cpu' = [cpu EXCEPT ![context[a]] = a]
      BY <2>4, Zenon DEF InitContext, Move, HasContext
    <3>2. /\ cpu'[context[a]] = a
          /\ \A d \in AP \ {a} : HasContext(d) => cpu'[context[d]] = cpu[context[d]]
      BY <1>1, <3>1, Zenon DEF OwnContext, TypeOK
    <3> QED BY <1>1, <2>1, <2>2, <3>1, <3>2 DEF OwnContext
  <2>5. CASE ~CallInit(a) /\ ~InitContext(a)
    <3>1. UNCHANGED <<cpu, context>> /\ (HasContext(a)' => HasContext(a)) /\ (Initialised(a)' => Initialised(a))
      BY <1>3, <2>5, Zenon DEF ApStep, Move, apSame, HasContext, Initialised, Respond, SeeBsp, Acknowledge, LoadTables,
                        LoadStack, Allocate, Report, Jump, EnterScheduler
    <3> QED BY <1>2, <2>1, <2>2, <3>1, Zenon DEF OwnContext
  <2> QED BY <2>3, <2>4, <2>5, Zenon
<1>4. CASE SendInit \/ SendStartup("startup1", "startup1_sleep") \/ SendStartup("startup2", "startup2_sleep")
  <2>1. i \in DOMAIN Processors /\ Processors[i] \in AP
    BY <1>4, HomeIs DEF SendInit, SendStartup, Position, Starting
  <2>2. /\ UNCHANGED <<cpu, context, i, ai>> /\ pc[Bsp] \notin Waiting
        /\ pc'[Bsp] \notin {"go"} \cup Waiting
        /\ \A a \in AP : pc'[a] = pc[a] \/ pc'[a] \in {"wait", "awake"}
    BY <1>4, <2>1, Messages, Zenon DEF bspSame, Waiting
  <2> QED BY <1>2, <2>2, Zenon DEF HasContext, Initialised
<1>5. CASE BspStep /\ pc[Bsp] \notin {"init_ipi", "startup1", "startup2"}
  <2>1. \A a \in AP : (HasContext(a)' <=> HasContext(a)) /\ (Initialised(a)' <=> Initialised(a))
    BY <1>5, BspMoves, Zenon DEF HasContext, Initialised
  <2>2. CASE InitContext(Bsp)
    <3>1. /\ UNCHANGED <<context, i, ai>> /\ pc[Bsp] = "init" /\ pc'[Bsp] = "allocate"
          /\ cpu' = [cpu EXCEPT ![Static] = Bsp]
      BY <2>2, Zenon DEF InitContext, Move, bspVars, OwnContext
    <3>2. \A a \in AP : HasContext(a) => cpu'[context[a]] = cpu[context[a]]
      BY <1>1, <3>1, Zenon DEF TypeOK
    <3> QED BY <1>1, <2>1, <3>1, <3>2, Zenon DEF OwnContext, Waiting
  <2>3. CASE Configure
    <3>1. comm'.ap_context = ai /\ UNCHANGED <<cpu, context, i, ai>> /\ pc[Bsp] \notin Waiting
      BY <2>3, Zenon DEF Configure, Move, Page, bspVars, bspSame, Waiting
    <3> QED BY <1>2, <2>1, <3>1, Zenon
  <2>4. CASE Go
    <3>1. /\ comm'.ap_context = comm.ap_context /\ UNCHANGED <<cpu, context, i, ai>>
          /\ pc[Bsp] = "go" /\ pc'[Bsp] \in Waiting
      BY <2>4, Zenon DEF Go, Move, Page, bspSame, Waiting
    <3> QED BY <1>2, <2>1, <3>1, Zenon DEF OwnContext, Waiting
  <2>5. CASE AwaitDone
    <3>1. /\ UNCHANGED <<comm, cpu, context>>
          /\ \/ pc'[Bsp] = "done_sleep" /\ UNCHANGED <<i, ai>>
             \/ pc'[Bsp] = "loop" /\ ai' = ai + 1
          /\ pc[Bsp] = "await"
      BY <2>5, Zenon DEF AwaitDone, Move, bspSame
    <3> QED BY <1>2, <2>1, <3>1, Zenon DEF OwnContext, Waiting
  <2>6. CASE Allocate(Bsp) \/ RequestContexts \/ NextProcessor \/ CopyTrampoline \/ PollResponse \/ FreeContexts
             \/ MaskPit \/ SetupTasks \/ OpenGate
    <3>1. /\ UNCHANGED <<cpu, context, ai>> /\ pc[Bsp] \notin Waiting
          /\ pc'[Bsp] \notin {"go"} \cup Waiting
      BY <2>6, Zenon DEF Allocate, RequestContexts, NextProcessor, CopyTrampoline, PollResponse, FreeContexts, MaskPit,
                  SetupTasks, OpenGate, Move, bspVars, bspSame, Waiting
    <3> QED BY <1>2, <2>1, <3>1, Zenon
  <2> QED BY <1>5, <2>2, <2>3, <2>4, <2>5, <2>6, Zenon DEF BspStep, SendInit, SendStartup
<1>6. CASE Tick
  <2>1. UNCHANGED <<comm, cpu, context, i, ai>> BY <1>6, Zenon DEF Tick, bspSame
  <2> QED BY <1>2, <1>6, <2>1, TickMoves, Zenon DEF OwnContext, HasContext, Initialised, Waiting
<1>7. CASE UNCHANGED vars BY <1>2, <1>7, Zenon DEF vars, OwnContext, HasContext, Initialised
<1> QED BY <1>3, <1>4, <1>5, <1>6, <1>7, Senders, Zenon DEF Next

\* An AP waits for its stack since Configure, and nothing rewrites it meanwhile.
LEMMA ExpectsMoves ==
    ASSUME pc \in [CPU -> Label], comm \in Page, Position, Handshake, [Next]_vars, ~Configure,
           NEW a \in AP, Expects(a)'
    PROVE  Expects(a) /\ comm'.stack = comm.stack
<1> Bsp \in CPU /\ Bsp \notin AP /\ a \in CPU BY BootAssumption, Zenon DEF CPU
<1>1. pc[Bsp] \in {"go"} \cup Waiting
  <2>1. CASE BspStep
    BY <2>1, Zenon
    DEF BspStep, Move, Expects, Waiting, InitContext, Allocate, RequestContexts, NextProcessor, CopyTrampoline,
        SendInit, SendStartup, PollResponse, Go, AwaitDone, FreeContexts, MaskPit, SetupTasks, OpenGate
  <2>2. CASE Tick BY <2>2, TickMoves, Zenon DEF Expects, Waiting
  <2> QED BY <2>1, <2>2, ApMoves, Zenon DEF Next, vars, Expects
<1>2. pc[a] \in {"spin", "ack", "tables", "stack"}
  <2>1. CASE ApStep(a)
    <3>1. pc[a] \notin {"wait", "awake"} BY <1>1, Zenon DEF Handshake, Waiting
    <3> QED BY <2>1, <3>1, Zenon DEF ApStep, Move, Expects, Respond, SeeBsp, Acknowledge, LoadTables, LoadStack, CallInit,
                              InitContext, Allocate, Report, Jump, EnterScheduler
  <2>2. CASE BspStep
    <3>1. pc[Bsp] \notin {"init_ipi", "startup1", "startup2"} BY <1>1, Zenon DEF Waiting
    <3> QED BY <2>2, <3>1, BspMoves, Zenon DEF Expects
  <2>3. CASE Tick BY <2>3, TickMoves, Zenon DEF Expects
  <2>4. ASSUME NEW d \in AP, ApStep(d), d # a PROVE pc'[a] = pc[a] BY <2>4, ApMoves, Zenon
  <2> QED BY <2>1, <2>2, <2>3, <2>4, Zenon DEF Next, vars, Expects
<1>3. comm'.stack = comm.stack
  <2>1. ~CopyTrampoline BY <1>1, Zenon DEF CopyTrampoline, Move, Waiting
  <2>2. \/ UNCHANGED comm \/ comm' = [comm EXCEPT !.bsp_status = 1]
        \/ \E s \in 0..2 : comm' = [comm EXCEPT !.ap_status = s]
    BY <2>1, Writers DEF Go, Respond, Acknowledge, Report
  <2> QED BY <2>2, Zenon DEF Page
<1> QED BY <1>1, <1>2, <1>3, Zenon DEF Expects

\* Every step keeps what was handed out apart.
LEMMA GivenStep ==
    ASSUME TypeOK, pc \in [CPU -> Label], comm \in Page, Position, Progress, Handshake, Given, [Next]_vars
    PROVE  Given'
<1> Bsp \in CPU /\ Bsp \notin AP /\ \A a \in AP : a \in CPU BY BootAssumption, Zenon DEF CPU
<1> SUFFICES ASSUME ~short' PROVE Given' BY Zenon DEF Given
<1>1. taken \subseteq Frame /\ s_current_index \in 0..FramesNum + 1 + ContextPages /\ short \in BOOLEAN
      /\ blocks \in [CPU -> SUBSET (0..FramesNum)]
  BY Zenon DEF TypeOK
<1> UNCHANGED contexts => ContextRun' = ContextRun BY Zenon DEF ContextRun, Run
<1>2. CASE RequestContexts
  <2>1. PICK b \in Frame : pageframe_request_pages(ContextPages, b) /\ contexts' = b /\ UNCHANGED blocks
    BY <1>2, Zenon DEF RequestContexts
  <2>2. ~short /\ ContextRun' \cap taken = {} /\ taken' = taken \cup ContextRun'
    <3>1. ContextRun' = Run(b, ContextPages) BY <2>1, Zenon DEF ContextRun, Run
    <3> QED BY <1>1, <2>1, <3>1, RequestPages, Zenon
  <2>3. \A a \in AP : ~Expects(a)' BY <1>2, Zenon DEF RequestContexts, Move, Expects, Waiting
  <2> QED BY <2>1, <2>2, <2>3, Zenon DEF Given
<1>3. CASE Configure
  <2>1. PICK b \in Frame : pageframe_request_pages(2, b) /\ UNCHANGED <<blocks, contexts>> /\ comm'.stack = b
    BY <1>3, Zenon DEF Configure, bspVars, Page
  <2>2. ~short /\ Run(b, 2) \cap taken = {} /\ taken' = taken \cup Run(b, 2) BY <1>1, <2>1, RequestPages, Zenon
  <2>3. pc[Bsp] \in Listing BY <1>3, Zenon DEF Configure, Move, Listing, Starting
  <2> QED BY <2>1, <2>2, <2>3, Zenon DEF Given
<1>4. ASSUME ~RequestContexts, ~Configure, ~short,
             taken \subseteq taken',
             \A c, d \in CPU : c # d => blocks'[c] \cap blocks'[d] = {},
             \A c \in CPU : blocks'[c] \subseteq taken',
             pc[Bsp] \in Listing => \A c \in CPU : ContextRun \cap blocks'[c] = {},
             \A a \in AP : Expects(a)' => \A c \in CPU : Run(comm.stack, 2) \cap blocks'[c] = {}
      PROVE  Given'
  <2>1. pc'[Bsp] \in Listing => pc[Bsp] \in Listing /\ UNCHANGED contexts BY <1>4, ListingMoves, Zenon
  <2>2. \A a \in AP : Expects(a)' => Expects(a) /\ comm'.stack = comm.stack /\ UNCHANGED contexts
    BY <1>4, ExpectsMoves, Writers, Zenon
  <2> QED BY <1>4, <2>1, <2>2, Zenon DEF Given
<1>5. CASE UNCHANGED memSame /\ ~RequestContexts /\ ~Configure
  <2>1. \A a \in AP : Expects(a)' => Expects(a) BY <1>5, ExpectsMoves, Zenon
  <2> QED BY <1>4, <1>5, <2>1, Zenon DEF memSame, Given
<1>6. ASSUME NEW c \in CPU, Allocate(c) PROVE Given'
  <2>1. need[c] + 1 \in 1..4 BY <1>6, StackPagesIs DEF Allocate, Move, Progress, TypeOK
  <2>2. PICK n \in {1, 2} : n = StackPages[need[c] + 1] BY <2>1, StackPagesIs, Zenon
  <2>3. PICK b \in Frame : pageframe_request_pages(n, b) /\ blocks' = [blocks EXCEPT ![c] = @ \cup Run(b, n)]
    BY <1>6, <2>2, Zenon DEF Allocate
  <2>4. ~short /\ Run(b, n) \cap taken = {} /\ taken' = taken \cup Run(b, n) BY <1>1, <2>3, RequestPages, Zenon
  <2>5. ~RequestContexts /\ ~Configure /\ (\A a \in AP : Expects(a)' => Expects(a))
    <3>1. ~RequestContexts /\ ~Configure
      <4>1. c = Bsp => pc[Bsp] = "allocate" BY <1>6, Zenon DEF Allocate, Move
      <4>2. c # Bsp => pc'[Bsp] = pc[Bsp] BY <1>6, Zenon DEF Allocate, Move
      <4>3. RequestContexts \/ Configure => pc[Bsp] \in {"contexts", "configure"} /\ pc'[Bsp] # pc[Bsp]
        BY Zenon DEF RequestContexts, Configure, Move
      <4> QED BY <4>1, <4>2, <4>3, Zenon
    <3> QED BY <3>1, ExpectsMoves, Zenon
  <2>6. blocks'[c] = blocks[c] \cup Run(b, n) /\ \A d \in CPU \ {c} : blocks'[d] = blocks[d] BY <1>1, <2>3, Zenon
  <2>7. \A d, e \in CPU : d # e => blocks'[d] \cap blocks'[e] = {} BY <2>4, <2>6 DEF Given
  <2>8. \A d \in CPU : blocks'[d] \subseteq taken' BY <2>4, <2>6, Zenon DEF Given
  <2>9. pc[Bsp] \in Listing => \A d \in CPU : ContextRun \cap blocks'[d] = {} BY <2>4, <2>6, Zenon DEF Given
  <2>10. \A a \in AP : Expects(a)' => \A d \in CPU : Run(comm.stack, 2) \cap blocks'[d] = {}
    BY <2>4, <2>5, <2>6, Zenon DEF Given
  <2> QED BY <1>4, <2>4, <2>5, <2>7, <2>8, <2>9, <2>10, Zenon
<1>7. CASE FreeContexts
  <2>1. /\ ~short /\ pc[Bsp] \in Listing /\ pc'[Bsp] = "mask" /\ UNCHANGED blocks
        /\ taken' = taken \ (ContextRun \cap taken)
    BY <1>7, Zenon DEF FreeContexts, Move, Listing, ContextRun
  <2> QED BY <2>1, Zenon DEF Given, Listing, Starting, Waiting, Expects
<1>8. ASSUME NEW a \in AP, LoadStack(a) PROVE Given'
  <2>1. /\ pc[a] = "stack" /\ pc'[a] \in {"lost", "call"} /\ pc'[Bsp] = pc[Bsp] /\ UNCHANGED <<taken, short>>
        /\ ~RequestContexts /\ ~Configure
    BY <1>8, Zenon DEF LoadStack, Move, RequestContexts, Configure
  <2>2. ~short /\ Expects(a) /\ a = Processors[i] /\ pc[Bsp] \in Listing
    BY <2>1, Zenon DEF Expects, Handshake, Told, Inside, Listing
  <2>3. comm.stack # Null BY <2>2, BootAssumption, Zenon DEF Given
  <2>4. /\ blocks'[a] = blocks[a] \cup Run(comm.stack, 2)
        /\ \A d \in CPU \ {a} : blocks'[d] = blocks[d]
    BY <1>1, <1>8, <2>3, Zenon DEF LoadStack
  <2>5. \A d \in AP : ~Expects(d)'
    <3>1. \A d \in AP : Expects(d)' => d = Processors[i] BY <2>1, ExpectsMoves, Zenon DEF Expects, Handshake, Inside
    <3> QED BY <2>1, <2>2, <3>1, Zenon DEF Expects
  <2>6. \A d, e \in CPU : d # e => blocks'[d] \cap blocks'[e] = {} BY <2>2, <2>4, Zenon DEF Given
  <2>7. \A d \in CPU : blocks'[d] \subseteq taken' BY <2>1, <2>2, <2>4, Zenon DEF Given
  <2>8. \A d \in CPU : ContextRun \cap blocks'[d] = {} BY <2>2, <2>4, Zenon DEF Given
  <2> QED BY <1>4, <2>1, <2>2, <2>5, <2>6, <2>7, <2>8, Zenon
<1> QED BY <1>2, <1>3, <1>5, <1>6, <1>7, <1>8, Writers, Zenon

\* While the sleeps outlast the APs' answers and memory lasts, every frame that the boot hands out
\* is locked and has one processor, and every AP that has begun cpu_init has a context of its own,
\* for any number of processors, any order of the firmware's list and any memory.
THEOREM MemoryExclusive == Prompt => (Spec => []OwnMemory)
<1> SUFFICES ASSUME Prompt PROVE Spec => []OwnMemory OBVIOUS
<1>1. Init => OwnContext /\ Given
  <2> SUFFICES ASSUME Init PROVE OwnContext /\ Given OBVIOUS
  <2>1. pc[Bsp] = "init" /\ (\A a \in AP : pc[a] = "off") /\ context[Bsp] = Static
    BY BootAssumption, Zenon DEF Init, CPU
  <2>2. \A c \in CPU : blocks[c] = {} BY Zenon DEF Init
  <2> QED
    BY <2>1, <2>2, Zenon DEF OwnContext, HasContext, Initialised, Given, Expects, Listing, Starting, Waiting
<1>2. TypeOK => pc \in [CPU -> Label] /\ comm \in Page BY SleepLabels, Zenon DEF TypeOK, Label, Page
<1>3. TypeOK /\ Position /\ Progress /\ Handshake /\ OwnContext /\ Given /\ [Next]_vars
      => Handshake' /\ OwnContext' /\ Given'
  BY <1>2, HandshakeStep, ContextStep, GivenStep, Zenon
<1>4. OwnContext /\ Given => OwnMemory
  <2> SUFFICES ASSUME OwnContext, Given PROVE OwnMemory OBVIOUS
  <2>1. \A a \in AP : Initialised(a) => context[a] \in ContextPtr /\ cpu[context[a]] = a
    BY Zenon DEF OwnContext, HasContext, Initialised, ContextPtr
  <2> QED BY <2>1, Zenon DEF Given, OwnMemory
<1> QED BY <1>1, <1>3, <1>4, Start, AlwaysTyped, PTL DEF Spec
==============================================================================
