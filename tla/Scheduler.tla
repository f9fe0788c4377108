----------------------------- MODULE Scheduler -----------------------------
(***************************************************************************)
(* scheduler/scheduler.c, with the entry gate of scheduler.asm and the     *)
(* per-CPU "self" slot of timer.asm: several circular queues of task nodes *)
(* from which the CPUs, on each timer interrupt, pick the task to run.     *)
(*                                                                         *)
(* A queue's lock and a node's LOCKED flag are single-bit lock words, so   *)
(* each lock and unlock is one step (theorem WordRefinesMutex).  A         *)
(* step is otherwise a group of accesses between which no other CPU can    *)
(* tell the difference; the search for the next task takes no queue lock,  *)
(* so each of its reads is a step.                                         *)
(*                                                                         *)
(* Nodes are heap cells.  free() leaves the flags in place but may         *)
(* overwrite "next", the last word of the cell, with the allocator's own   *)
(* size field (Wild); malloc may hand the same cell out again.             *)
(***************************************************************************)
EXTENDS Naturals, FiniteSets

CONSTANTS CPU,          \* the processors that schedule
          Creator,      \* contexts calling scheduler_add_task, timer off
          Node,         \* heap cells for struct SchedulerNode
          QueuesNum,    \* SCHEDULER_QUEUES_NUM (3)
          Idle,         \* &s_idle_node
          Null,         \* NULL, and "nobody" for a lock
          Wild,         \* an address that is no node
          Finishing,    \* whether tasks exit
          LateCreate    \* whether tasks are added after the CPUs are released

Queue == 0..(QueuesNum - 1)
Agent == CPU \cup Creator

ASSUME SchedulerAssumption ==
  /\ QueuesNum \in Nat \ {0}
  /\ CPU \cap Creator = {} /\ Null \notin Agent
  /\ {Idle, Null, Wild} \cap Node = {}
  /\ Idle # Null /\ Wild # Null /\ Idle # Wild
  /\ Finishing \in BOOLEAN /\ LateCreate \in BOOLEAN

VARIABLES first, num,         \* first[q], num[q] of struct SchedulerQueue
          owner,              \* owner[q]: the agent that locked the queue
          live,               \* the cells malloc has handed out
          flags, next, prev, queue_num,  \* fields of struct SchedulerNode
          linked,             \* the nodes that are in their queue's ring
          self,               \* self[c]: the node CPU c runs, Idle or Null
          entered,            \* s_entry_lock
          pc,                 \* where each agent is
          node, qi, j         \* locals of the search and of scheduler_add_task,
                              \* reset when they are dead

queueVars == <<first, num, owner>>
nodeVars == <<live, flags, next, prev, queue_num, linked>>
localVars == <<node, qi, j>>
vars == <<queueVars, nodeVars, localVars, self, entered, pc>>

\* scheduler_init clears the queues; no task exists, and no CPU has a node.
Init ==
  /\ first = [q \in Queue |-> Null] /\ num = [q \in Queue |-> 0]
  /\ owner = [q \in Queue |-> Null]
  /\ live = {} /\ linked = {}
  /\ flags = [n \in Node |-> {}] /\ queue_num = [n \in Node |-> 0]
  /\ next = [n \in Node |-> Null] /\ prev = [n \in Node |-> Null]
  /\ self = [c \in CPU |-> Null]
  /\ entered = FALSE
  /\ pc = [a \in Agent |-> "run"]
  /\ node = [a \in Agent |-> Null]
  /\ qi = [a \in Agent |-> 0] /\ j = [a \in Agent |-> 0]

Move(a, from, to) == pc[a] = from /\ pc' = [pc EXCEPT ![a] = to]

\* _scheduler_queue_spinlock and _scheduler_queue_unlock
Acquire(a, q) == owner[q] = Null /\ owner' = [owner EXCEPT ![q] = a]
Release(q) == owner' = [owner EXCEPT ![q] = Null]

-----------------------------------------------------------------------------
(* scheduler_entry: the bootstrap CPU opens the gate the others spin on.   *)

Enter ==
  /\ ~entered /\ \A k \in Creator : pc[k] = "run"
  /\ entered' = TRUE
  /\ UNCHANGED <<queueVars, nodeVars, localVars, self, pc>>

-----------------------------------------------------------------------------
(* scheduler_add_task *)

\* malloc, and the node's initial contents: every field not named is zero.
Create(k, n, q) ==
  /\ ~entered \/ LateCreate
  /\ Move(k, "run", "add")
  /\ n \in Node \ live
  /\ live' = live \cup {n}
  /\ flags' = [flags EXCEPT ![n] = {}]
  /\ next' = [next EXCEPT ![n] = Null] /\ prev' = [prev EXCEPT ![n] = Null]
  /\ queue_num' = [queue_num EXCEPT ![n] = q]
  /\ node' = [node EXCEPT ![k] = n]
  /\ UNCHANGED <<queueVars, linked, qi, j, self, entered>>

\* Mutant: enqueues without the queue's lock.
AddSpin_NoLock(k) ==
  /\ Move(k, "add", "link")
  /\ UNCHANGED <<queueVars, nodeVars, localVars, self, entered>>

AddSpin(k) ==
  /\ Move(k, "add", "link") /\ Acquire(k, queue_num[node[k]])
  /\ UNCHANGED <<first, num, nodeVars, localVars, self, entered>>

\* _scheduler_enqueue_task(n), the links: n goes before the first node.  Here
\* and below an agent that dereferences what is no node takes no more steps.
Enqueue(n) ==
  LET q == queue_num[n]
      f == first[q]
  IN  \/ /\ num[q] = 0
         /\ first' = [first EXCEPT ![q] = n]
         /\ prev' = [prev EXCEPT ![n] = n]
         /\ next' = [next EXCEPT ![n] = n]
      \/ /\ num[q] # 0 /\ f \in Node /\ prev[f] \in Node
         /\ prev' = [prev EXCEPT ![n] = prev[f], ![f] = n]
         /\ next' = [next EXCEPT ![n] = f, ![prev[f]] = n]
         /\ UNCHANGED first

AddLink(k) ==
  /\ Move(k, "link", "added") /\ Enqueue(node[k])
  /\ linked' = linked \cup {node[k]}
  /\ UNCHANGED <<num, owner, live, flags, queue_num, localVars, self, entered>>

\* queue->num++ and _scheduler_queue_unlock
AddDone(k) ==
  /\ Move(k, "added", "run")
  /\ LET q == queue_num[node[k]]
     IN  num' = [num EXCEPT ![q] = @ + 1] /\ Release(q)
  /\ node' = [node EXCEPT ![k] = Null]
  /\ UNCHANGED <<first, nodeVars, qi, j, self, entered>>

-----------------------------------------------------------------------------
(* scheduler_next_task, called by timer_handler with interrupts off *)

IsTask(n) == n \in Node

\* A CPU without a task goes straight to the search.  A task's node that is
\* found unlocked is locked, whatever the outcome.
Tick(c) ==
  /\ entered
  /\ \/ Move(c, "run", "spin") /\ IsTask(self[c])
     \/ Move(c, "run", "queue") /\ ~IsTask(self[c])
  /\ flags' = [n \in Node |-> IF n = self[c] THEN flags[n] \cup {"LOCKED"}
                                             ELSE flags[n]]
  /\ UNCHANGED <<queueVars, live, next, prev, queue_num, linked, localVars,
                 self, entered>>

Spin(c) ==
  /\ Move(c, "spin", "rotate") /\ Acquire(c, queue_num[self[c]])
  /\ UNCHANGED <<first, num, nodeVars, localVars, self, entered>>

\* Mutant: does not advance the ring.
Rotate_Stay(c) ==
  /\ Move(c, "rotate", "leave")
  /\ UNCHANGED <<queueVars, nodeVars, localVars, self, entered>>

Rotate(c) ==
  /\ Move(c, "rotate", "leave")
  /\ first' = [first EXCEPT ![queue_num[self[c]]] = next[self[c]]]
  /\ UNCHANGED <<num, owner, nodeVars, localVars, self, entered>>

\* The task goes on: _scheduler_node_unlock.
Yield(c) ==
  /\ Move(c, "leave", "unlock") /\ "FINISHED" \notin flags[self[c]]
  /\ flags' = [flags EXCEPT ![self[c]] = @ \ {"LOCKED"}]
  /\ UNCHANGED <<queueVars, live, next, prev, queue_num, linked, localVars,
                 self, entered>>

\* Mutant: relinks one direction of the ring only.
Dequeue_Half(c) ==
  LET n == self[c]
      q == queue_num[n]
  IN  /\ Move(c, "leave", "free") /\ "FINISHED" \in flags[n]
      /\ first' = IF num[q] <= 1 THEN [first EXCEPT ![q] = Null] ELSE first
      /\ next' = [next EXCEPT ![prev[n]] = next[n]]
      /\ linked' = linked \ {n}
      /\ UNCHANGED <<num, owner, live, flags, prev, queue_num, localVars, self,
                     entered>>

\* The task is finished: _scheduler_dequeue_task, the links.
Dequeue(c) ==
  LET n == self[c]
      q == queue_num[n]
  IN  /\ Move(c, "leave", "free") /\ "FINISHED" \in flags[n]
      /\ \/ /\ num[q] <= 1
            /\ first' = [first EXCEPT ![q] = Null]
            /\ UNCHANGED <<next, prev>>
         \/ /\ num[q] > 1 /\ {next[n], prev[n]} \subseteq Node
            /\ prev' = [prev EXCEPT ![next[n]] = prev[n]]
            /\ next' = [next EXCEPT ![prev[n]] = next[n]]
            /\ UNCHANGED first
      /\ linked' = linked \ {n}
      /\ UNCHANGED <<num, owner, live, flags, queue_num, localVars, self, entered>>

\* Mutant: both the dequeue and its caller decrement num.
Free_Twice(c) ==
  /\ Move(c, "free", "unlock")
  /\ num' = [num EXCEPT ![queue_num[self[c]]] = @ - 2]
  /\ live' = live \ {self[c]}
  /\ UNCHANGED <<first, owner, flags, next, prev, queue_num, linked, localVars,
                 self, entered>>

\* queue->num-- and free(node)
Free(c) ==
  /\ Move(c, "free", "unlock")
  /\ num' = [num EXCEPT ![queue_num[self[c]]] = @ - 1]
  /\ live' = live \ {self[c]}
  /\ \E left \in {next[self[c]], Wild} : next' = [next EXCEPT ![self[c]] = left]
  /\ UNCHANGED <<first, owner, flags, prev, queue_num, linked, localVars, self,
                 entered>>

\* The queue is the one saved before the node was given up.
Unlock(c) ==
  /\ Move(c, "unlock", "queue")
  /\ \E q \in Queue : owner[q] = c /\ Release(q)
  /\ UNCHANGED <<first, num, nodeVars, localVars, self, entered>>

\* The outer loop: the next queue with a first node, or the idle node.
Search(c) ==
  \/ /\ Move(c, "queue", "run") /\ qi[c] = QueuesNum
     /\ self' = [self EXCEPT ![c] = Idle]
     /\ qi' = [qi EXCEPT ![c] = 0]
     /\ UNCHANGED <<queueVars, nodeVars, node, j, entered>>
  \/ /\ Move(c, "queue", "queue") /\ qi[c] < QueuesNum /\ first[qi[c]] = Null
     /\ qi' = [qi EXCEPT ![c] = @ + 1]
     /\ UNCHANGED <<queueVars, nodeVars, node, j, self, entered>>
  \/ /\ Move(c, "queue", "test") /\ qi[c] < QueuesNum /\ first[qi[c]] # Null
     /\ node' = [node EXCEPT ![c] = first[qi[c]]]
     /\ UNCHANGED <<queueVars, nodeVars, qi, j, self, entered>>

\* The inner loop's condition.
Test(c) ==
  \/ /\ Move(c, "test", "queue") /\ j[c] >= num[qi[c]]
     /\ qi' = [qi EXCEPT ![c] = @ + 1] /\ j' = [j EXCEPT ![c] = 0]
     /\ node' = [node EXCEPT ![c] = Null]
     /\ UNCHANGED <<queueVars, nodeVars, self, entered>>
  \/ /\ Move(c, "test", "pass") /\ j[c] < num[qi[c]]
     /\ UNCHANGED <<queueVars, nodeVars, localVars, self, entered>>

\* The node's flags & pass_flags.
Pass(c) ==
  /\ IsTask(node[c])
  /\ IF flags[node[c]] \cap {"LOCKED", "FINISHED"} = {}
     THEN Move(c, "pass", "try") ELSE Move(c, "pass", "advance")
  /\ UNCHANGED <<queueVars, nodeVars, localVars, self, entered>>

\* Mutant: ignores the result of _scheduler_node_lock.
Grab_NoTest(c) ==
  /\ Move(c, "try", "run")
  /\ flags' = [flags EXCEPT ![node[c]] = @ \cup {"LOCKED"}]
  /\ self' = [self EXCEPT ![c] = node[c]]
  /\ node' = [node EXCEPT ![c] = Null]
  /\ qi' = [qi EXCEPT ![c] = 0] /\ j' = [j EXCEPT ![c] = 0]
  /\ UNCHANGED <<queueVars, live, next, prev, queue_num, linked, entered>>

\* _scheduler_node_lock succeeds and the node becomes the CPU's task ...
Grab(c) ==
  /\ Move(c, "try", "run") /\ "LOCKED" \notin flags[node[c]]
  /\ flags' = [flags EXCEPT ![node[c]] = @ \cup {"LOCKED"}]
  /\ self' = [self EXCEPT ![c] = node[c]]
  /\ node' = [node EXCEPT ![c] = Null]
  /\ qi' = [qi EXCEPT ![c] = 0] /\ j' = [j EXCEPT ![c] = 0]
  /\ UNCHANGED <<queueVars, live, next, prev, queue_num, linked, entered>>

\* Mutant: does not count the nodes it passes.
Advance_NoCount(c) ==
  /\ \/ Move(c, "advance", "test")
     \/ Move(c, "try", "test") /\ "LOCKED" \in flags[node[c]]
  /\ node' = [node EXCEPT ![c] = next[@]]
  /\ UNCHANGED <<queueVars, nodeVars, qi, j, self, entered>>

\* ... or it fails, or the flags ruled the node out: node = node->next.
Advance(c) ==
  /\ \/ Move(c, "advance", "test")
     \/ Move(c, "try", "test") /\ "LOCKED" \in flags[node[c]]
  /\ node' = [node EXCEPT ![c] = next[@]]
  /\ j' = [j EXCEPT ![c] = @ + 1]
  /\ UNCHANGED <<queueVars, nodeVars, qi, self, entered>>

\* syscall_entry's .kernel_exit: the running task sets its finished flag.
Exit(c) ==
  /\ Finishing /\ pc[c] = "run" /\ IsTask(self[c])
  /\ "FINISHED" \notin flags[self[c]]
  /\ flags' = [flags EXCEPT ![self[c]] = @ \cup {"FINISHED"}]
  /\ UNCHANGED <<queueVars, live, next, prev, queue_num, linked, localVars,
                 self, entered, pc>>

-----------------------------------------------------------------------------
Switch(c) ==
  \/ Tick(c) \/ Spin(c) \/ Rotate(c) \/ Yield(c) \/ Dequeue(c) \/ Free(c)
  \/ Unlock(c) \/ Search(c) \/ Test(c) \/ Pass(c) \/ Grab(c) \/ Advance(c)

Add(k) == AddSpin(k) \/ AddLink(k) \/ AddDone(k)

Next ==
  \/ Enter
  \/ \E c \in CPU : Switch(c) \/ Exit(c)
  \/ \E k \in Creator : Add(k) \/ \E n \in Node, q \in Queue : Create(k, n, q)

Spec == Init /\ [][Next]_vars

\* The timer keeps interrupting every CPU, and an interrupted CPU, or a
\* creator inside scheduler_add_task, keeps executing.  A spinning agent gets
\* the lock if it is free again and again: it retries without pause, while the
\* others hold the lock for a few instructions of each timer period.
FairSpec ==
  /\ Spec /\ WF_vars(Enter)
  /\ \A c \in CPU : WF_vars(Switch(c)) /\ SF_vars(Spin(c))
  /\ \A k \in Creator : WF_vars(Add(k)) /\ SF_vars(AddSpin(k))

-----------------------------------------------------------------------------
Labels == {"run", "add", "link", "added", "spin", "rotate", "leave", "free",
           "unlock", "queue", "test", "pass", "try", "advance"}

\* The variables keep their types: in particular a queue's num never wraps
\* below zero and a search never looks beyond the last queue.
TypeOK ==
  /\ first \in [Queue -> Node \cup {Null, Wild}]
  /\ num \in [Queue -> Nat] /\ owner \in [Queue -> Agent \cup {Null}]
  /\ live \subseteq Node /\ linked \subseteq Node
  /\ flags \in [Node -> SUBSET {"LOCKED", "FINISHED"}]
  /\ next \in [Node -> Node \cup {Null, Wild}]
  /\ prev \in [Node -> Node \cup {Null}]
  /\ queue_num \in [Node -> Queue]
  /\ self \in [CPU -> Node \cup {Idle, Null}]
  /\ entered \in BOOLEAN /\ pc \in [Agent -> Labels]
  /\ node \in [Agent -> Node \cup {Null, Wild}]
  /\ qi \in [Agent -> 0..QueuesNum] /\ j \in [Agent -> Nat]

\* The task whose context is on CPU c, from the moment its node is locked
\* until the node is unlocked or dequeued.
Running(c) ==
  IF pc[c] \in {"run", "spin", "rotate", "leave"} /\ IsTask(self[c])
  THEN self[c] ELSE Null

\* No task is ever on two CPUs: between the lock taken by the search and the
\* unlock of the next timer interrupt a node has one CPU, whatever the others
\* read of it without the queue's lock.
RunsOnce ==
  \A c, d \in CPU : Running(c) # Null /\ Running(c) = Running(d) => c = d

Ring(q) == {n \in linked : queue_num[n] = q}

\* Every queue is one ring: "next" and "previous" are inverse to each other on
\* its nodes, following "next" from any node visits all of them, "first" is one
\* of them, and num counts them when nobody holds the queue's lock.  So the
\* rotations, additions and removals of all the CPUs lose no task.
RingIntact ==
  \A q \in Queue :
    /\ \A n \in Ring(q) : /\ {next[n], prev[n]} \subseteq Ring(q)
                          /\ prev[next[n]] = n /\ next[prev[n]] = n
    /\ \A S \in (SUBSET Ring(q)) \ {{}} :
         (\A n \in S : next[n] \in S) => S = Ring(q)
    /\ IF Ring(q) = {} THEN first[q] = Null ELSE first[q] \in Ring(q)
    /\ owner[q] = Null => num[q] = Cardinality(Ring(q))

\* The search stays among the allocated nodes: scheduler.h:72 promises of
\* scheduler_next_task that it "Gets the next task".
SearchSeesTasks ==
  \A c \in CPU : pc[c] \in {"try", "advance"} => node[c] \in live

\* The scheduler implements the task pool: adding, dispatching, preempting and
\* retiring a task each take effect in one step, for all CPUs together.
Pool == INSTANCE TaskPool WITH
          Task <- Node, None <- Null,
          running <- [c \in CPU |-> Running(c)],
          ready <- linked \ {Running(c) : c \in CPU}
ImplementsPool == Pool!Spec

\* With one queue, every task gets a CPU again and again, with more tasks than
\* CPUs and whatever the order in which the CPUs rotate the ring under each
\* other's search.
TaskRuns == \A n \in Node : n \in linked ~> \E c \in CPU : Running(c) = n

\* A CPU that was interrupted gets a task or the idle node: neither the queue
\* locks nor the unlocked search keep it for ever.
SwitchEnds == \A c \in CPU : pc[c] # "run" ~> pc[c] = "run"
=============================================================================
