-------------------------- MODULE SchedulerProofs --------------------------
(***************************************************************************)
(* No task is on two CPUs, for any number of CPUs, creators, nodes and     *)
(* queues, with tasks that exit and tasks that are added at any time: the  *)
(* LOCKED flag protects a node even from a search that holds a pointer to  *)
(* a cell that was freed, and handed out again, in the meantime.           *)
(*                                                                         *)
(* Then the invariant of the queues, for runs in which no task is added    *)
(* while others exit: a cell that is freed and handed out again could      *)
(* otherwise be taken by a search that still has a pointer to it, before   *)
(* it is in a queue.  Here: what makes a ring, the initial states and the  *)
(* creation of tasks; SchedulerQueues and SchedulerPool go on.             *)
(***************************************************************************)
EXTENDS Scheduler, FiniteSetTheorems, TLAPS

\* c has the node self[c] and its LOCKED flag, until unlock or free.
Owns(c) == pc[c] \in {"run", "spin", "rotate", "leave", "free"} /\ IsTask(self[c])

\* The pointers the scheduler may come across: none, no node, allocated nodes,
\* and freed ones, each of which keeps its LOCKED flag until it is allocated again.
Known == {Null, Wild} \cup live \cup {n \in Node : "LOCKED" \in flags[n]}

\* The types the argument needs.
Fields ==
  /\ live \subseteq Node
  /\ flags \in [Node -> SUBSET {"LOCKED", "FINISHED"}]
  /\ first \in [Queue -> Node \cup {Null, Wild}]
  /\ next \in [Node -> Node \cup {Null, Wild}]
  /\ prev \in [Node -> Node \cup {Null}]
  /\ queue_num \in [Node -> Queue]
  /\ self \in [CPU -> Node \cup {Idle, Null}]
  /\ pc \in [Agent -> Labels]
  /\ node \in [Agent -> Node \cup {Null, Wild}]

\* Every pointer is known.
Pointers ==
  /\ \A q \in Queue : first[q] \in Known
  /\ \A n \in Node : next[n] \in Known
  /\ \A n \in Node : prev[n] \in Known
  /\ \A a \in Agent : node[a] \in Known

\* The inductive invariant: an owner's node is allocated and locked, and no
\* two CPUs own the same one.
OwnInv ==
  /\ Fields /\ Pointers
  /\ \A c \in CPU : Owns(c) => self[c] \in live /\ "LOCKED" \in flags[self[c]]
  /\ \A c, d \in CPU : Owns(c) /\ Owns(d) /\ self[c] = self[d] => c = d
  /\ \A c \in CPU : pc[c] \in {"try", "advance"} => node[c] \in Node
  /\ \A c \in CPU : pc[c] \in {"spin", "rotate", "leave", "free"} => self[c] \in Node
  /\ \A k \in Creator : pc[k] # "run" => node[k] \in Node

\* The outer loop's variable.
QueueIndex == qi \in [Agent -> Nat]

-----------------------------------------------------------------------------
(* The invariant holds initially, and each action preserves it.            *)

\* Before any task exists nobody owns or knows a cell.
LEMMA OwnInit == Init => OwnInv
<1> SUFFICES ASSUME Init PROVE OwnInv
  OBVIOUS
<1>1. 0 \in Queue
  BY SchedulerAssumption DEF Queue
<1>2. Fields
  BY <1>1, Zenon DEF Init, Fields, Labels
<1>3. Pointers
  BY Zenon DEF Init, Pointers, Known
<1>4. \A c \in CPU : ~Owns(c) /\ pc[c] = "run"
  BY SchedulerAssumption, Zenon DEF Init, Owns, IsTask, Agent
<1>5. \A k \in Creator : pc[k] = "run"
  BY Zenon DEF Init, Agent
<1> QED
  BY <1>2, <1>3, <1>4, <1>5, Zenon DEF OwnInv

\* Steps that leave flags, cells and owners alone.
LEMMA OwnQuiet ==
  ASSUME OwnInv, UNCHANGED <<live, flags, self>>, Fields', Pointers',
         \A c \in CPU : Owns(c)' => Owns(c),
         \A c \in CPU : pc'[c] \in {"try", "advance"} => node'[c] \in Node,
         \A c \in CPU : pc'[c] \in {"spin", "rotate", "leave", "free"} => self[c] \in Node,
         \A k \in Creator : pc'[k] # "run" => node'[k] \in Node
  PROVE  OwnInv'
  BY Zenon DEF OwnInv

\* malloc hands out a cell nobody owns; its flags are cleared.
LEMMA OwnCreate ==
  ASSUME OwnInv, NEW k \in Creator, NEW n \in Node, NEW q \in Queue, Create(k, n, q)
  PROVE  OwnInv'
<1> USE SchedulerAssumption DEF Create, Move, Agent
<1>1. Fields'
  BY Zenon DEF OwnInv, Fields, Labels, queueVars
<1>2. Known \subseteq Known' /\ n \in Known' /\ Null \in Known'
  BY Zenon DEF OwnInv, Fields, Known
<1>3. Pointers'
  BY <1>2 DEF OwnInv, Fields, Pointers, queueVars
<1>4. \A c \in CPU : pc'[c] = pc[c] /\ self'[c] = self[c] /\ node'[c] = node[c]
  BY Zenon DEF OwnInv, Fields
<1>5. \A c \in CPU : Owns(c)' => Owns(c) /\ self[c] # n
  BY <1>4, Zenon DEF OwnInv, Owns
<1>6. \A c \in CPU : Owns(c)' => self'[c] \in live' /\ "LOCKED" \in flags'[self'[c]]
  BY <1>4, <1>5 DEF OwnInv, Fields
<1>7. \A l \in Creator : pc'[l] # "run" => node'[l] \in Node
  BY Zenon DEF OwnInv, Fields
<1> QED
  BY <1>1, <1>3, <1>4, <1>5, <1>6, <1>7, Zenon DEF OwnInv

\* scheduler_add_task, once it has its cell, changes no flag and no owner.
LEMMA OwnAdd ==
  ASSUME OwnInv, NEW k \in Creator, Add(k)
  PROVE  OwnInv'
<1> USE SchedulerAssumption DEF Move, Agent
<1>1. /\ UNCHANGED <<live, flags, self, queue_num>> /\ pc[k] # "run"
      /\ pc' \in [Agent -> Labels] /\ \A c \in CPU : pc'[c] = pc[c]
      /\ \A l \in Creator : l # k => pc'[l] = pc[l]
      /\ node' = node \/ (node' = [node EXCEPT ![k] = Null] /\ pc'[k] = "run")
  BY DEF Add, AddSpin, AddLink, AddDone, nodeVars, localVars, OwnInv, Fields, Labels
<1>2. node[k] \in Node /\ node[k] \in Known /\ queue_num[node[k]] \in Queue
  BY <1>1, Zenon DEF OwnInv, Pointers, Fields
<1>3. Fields' /\ Pointers'
  <2>1. CASE AddSpin(k) \/ AddDone(k)
    BY <1>1, <2>1 DEF AddSpin, AddDone, nodeVars, OwnInv, Fields, Pointers, Known
  <2>2. CASE AddLink(k)
    <3> DEFINE n == node[k]
               q == queue_num[n]
    <3>1. CASE num[q] = 0 /\ first' = [first EXCEPT ![q] = n] /\ prev' = [prev EXCEPT ![n] = n]
               /\ next' = [next EXCEPT ![n] = n]
      BY <1>1, <1>2, <2>2, <3>1 DEF AddLink, localVars, OwnInv, Fields, Pointers, Known
    <3>2. CASE /\ first[q] \in Node /\ prev[first[q]] \in Node
               /\ prev' = [prev EXCEPT ![n] = prev[first[q]], ![first[q]] = n]
               /\ next' = [next EXCEPT ![n] = first[q], ![prev[first[q]]] = n]
               /\ UNCHANGED first
      <4>1. first[q] \in Known /\ prev[first[q]] \in Known
        BY <1>2, <3>2, Zenon DEF OwnInv, Pointers
      <4>2. Fields'
        BY <1>1, <1>2, <2>2, <3>2, Zenon DEF AddLink, localVars, OwnInv, Fields
      <4>3. \A m \in Node : next'[m] \in {next[m], first[q], n} /\ prev'[m] \in {prev[m], prev[first[q]], n}
        BY <1>2, <3>2, Zenon DEF OwnInv, Fields
      <4> QED
        BY <1>1, <1>2, <2>2, <3>2, <4>1, <4>2, <4>3, Zenon DEF AddLink, localVars, OwnInv, Pointers, Known
    <3> QED
      BY <2>2, <3>1, <3>2, Zenon DEF AddLink, Enqueue
  <2> QED
    BY <2>1, <2>2, Zenon DEF Add
<1>4. \A c \in CPU : Owns(c)' => Owns(c)
  BY <1>1, Zenon DEF Owns
<1>5. \A c \in CPU : pc'[c] \in {"try", "advance"} => node'[c] \in Node
  BY <1>1, Zenon DEF OwnInv, Fields
<1>6. \A c \in CPU : pc'[c] \in {"spin", "rotate", "leave", "free"} => self[c] \in Node
  BY <1>1, Zenon DEF OwnInv
<1>7. \A l \in Creator : pc'[l] # "run" => node'[l] \in Node
  BY <1>1, Zenon DEF OwnInv, Fields
<1> QED
  BY <1>1, <1>3, <1>4, <1>5, <1>6, <1>7, OwnQuiet, Zenon

\* Steps of the switch that touch neither flags nor cells nor owners.
LEMMA OwnSwitchQuiet ==
  ASSUME OwnInv, NEW c \in CPU,
         Spin(c) \/ Rotate(c) \/ Dequeue(c) \/ Unlock(c) \/ Test(c) \/ Pass(c)
         \/ Advance(c)
  PROVE  OwnInv'
<1> USE SchedulerAssumption DEF Agent
<1>1. /\ UNCHANGED <<live, flags, self, queue_num>> /\ pc' \in [Agent -> Labels]
      /\ \A d \in Agent : d # c => pc'[d] = pc[d]
      /\ pc'[c] \in {"run", "spin", "rotate", "leave", "free"} =>
           pc[c] \in {"spin", "rotate", "leave", "free"}
  BY DEF Spin, Rotate, Dequeue, Unlock, Test, Pass, Advance, Move, nodeVars, OwnInv, Fields, Labels
<1>2. \A d \in CPU : Owns(d)' => Owns(d)
  BY <1>1, Zenon DEF Owns
<1>3. Known' = Known
  BY <1>1, Zenon DEF Known
<1>4. \A d \in CPU : pc'[d] \in {"spin", "rotate", "leave", "free"} => self[d] \in Node
  BY <1>1, Zenon DEF OwnInv
<1>5. CASE Advance(c)
  <2>1. node' = [node EXCEPT ![c] = next[node[c]]] /\ pc[c] \in {"try", "advance"} /\ pc'[c] = "test"
        /\ UNCHANGED <<first, next, prev>>
    BY <1>5, Zenon DEF Advance, Move, queueVars, nodeVars, OwnInv, Fields
  <2>2. next[node[c]] \in Known /\ next[node[c]] \in Node \cup {Null, Wild}
    BY <2>1, Zenon DEF OwnInv, Pointers, Fields
  <2>3. Fields' /\ Pointers'
    BY <1>1, <1>3, <2>1, <2>2, Zenon DEF OwnInv, Fields, Pointers
  <2>4. \A d \in CPU : pc'[d] \in {"try", "advance"} => node'[d] \in Node
    BY <1>1, <2>1, Zenon DEF OwnInv, Fields
  <2>5. \A k \in Creator : pc'[k] # "run" => node'[k] \in Node
    BY <1>1, <2>1, Zenon DEF OwnInv, Fields
  <2> QED
    BY <1>1, <1>2, <1>4, <2>3, <2>4, <2>5, OwnQuiet, Zenon
<1>6. CASE Test(c) \/ Pass(c)
  <2>1. /\ UNCHANGED <<first, next, prev>> /\ pc'[c] \in {"pass", "try", "advance", "queue"}
        /\ \/ node' = [node EXCEPT ![c] = Null] /\ pc'[c] = "queue"
           \/ node' = node /\ (pc'[c] = "pass" \/ node[c] \in Node)
    BY <1>6 DEF Test, Pass, Move, IsTask, queueVars, nodeVars, localVars, OwnInv, Fields
  <2>2. Fields' /\ Pointers'
    BY <1>1, <1>3, <2>1 DEF OwnInv, Fields, Pointers, Known
  <2>3. \A d \in CPU : pc'[d] \in {"try", "advance"} => node'[d] \in Node
    BY <1>1, <2>1, Zenon DEF OwnInv, Fields
  <2>4. \A k \in Creator : pc'[k] # "run" => node'[k] \in Node
    BY <1>1, <2>1 DEF OwnInv, Fields
  <2> QED
    BY <1>1, <1>2, <1>4, <2>2, <2>3, <2>4, OwnQuiet, Zenon
<1>7. CASE Spin(c) \/ Rotate(c) \/ Dequeue(c) \/ Unlock(c)
  <2>1. node' = node /\ pc'[c] \notin {"try", "advance"}
    BY <1>7 DEF Spin, Rotate, Dequeue, Unlock, Move, localVars, OwnInv, Fields
  <2>2. Fields' /\ Pointers'
    <3>1. CASE Spin(c) \/ Unlock(c)
      BY <1>1, <1>3, <2>1, <3>1, Zenon DEF Spin, Unlock, nodeVars, OwnInv, Fields, Pointers
    <3>2. CASE Rotate(c)
      <4>1. self[c] \in Node /\ queue_num[self[c]] \in Queue /\ next[self[c]] \in Known
        BY <3>2, Zenon DEF Rotate, Move, OwnInv, Fields, Pointers
      <4> QED
        BY <1>1, <1>3, <2>1, <3>2, <4>1 DEF Rotate, nodeVars, OwnInv, Fields, Pointers
    <3>3. CASE Dequeue(c)
      <4> DEFINE n == self[c]
      <4>1. n \in Node /\ queue_num[n] \in Queue /\ next[n] \in Known /\ prev[n] \in Known
        BY <3>3, Zenon DEF Dequeue, Move, OwnInv, Fields, Pointers
      <4>2. CASE first' = [first EXCEPT ![queue_num[n]] = Null] /\ UNCHANGED <<next, prev>>
        BY <1>1, <1>3, <2>1, <4>1, <4>2 DEF OwnInv, Fields, Pointers, Known
      <4>3. CASE /\ next[n] \in Node /\ prev[n] \in Node /\ UNCHANGED first
                 /\ prev' = [prev EXCEPT ![next[n]] = prev[n]]
                 /\ next' = [next EXCEPT ![prev[n]] = next[n]]
        <5>1. Fields'
          BY <1>1, <2>1, <4>1, <4>3, Zenon DEF OwnInv, Fields
        <5>2. \A m \in Node : next'[m] \in {next[m], next[n]} /\ prev'[m] \in {prev[m], prev[n]}
          BY <4>3, Zenon DEF OwnInv, Fields
        <5> QED
          BY <1>1, <1>3, <2>1, <4>1, <4>3, <5>1, <5>2 DEF OwnInv, Pointers
      <4> QED
        BY <3>3, <4>2, <4>3, Zenon DEF Dequeue
    <3> QED
      BY <1>7, <3>1, <3>2, <3>3, Zenon
  <2>3. \A d \in CPU : pc'[d] \in {"try", "advance"} => node'[d] \in Node
    BY <1>1, <2>1, Zenon DEF OwnInv, Fields
  <2>4. \A k \in Creator : pc'[k] # "run" => node'[k] \in Node
    BY <1>1, <2>1, Zenon DEF OwnInv, Fields
  <2> QED
    BY <1>1, <1>2, <1>4, <2>2, <2>3, <2>4, OwnQuiet, Zenon
<1> QED
  BY <1>5, <1>6, <1>7, Zenon

\* The search, finding a first node, none, or no more queue.
LEMMA OwnSearch ==
  ASSUME OwnInv, QueueIndex, NEW c \in CPU, Search(c)
  PROVE  OwnInv'
<1> USE SchedulerAssumption DEF Agent
<1>1. /\ UNCHANGED <<first, live, flags, next, prev, queue_num>> /\ pc' \in [Agent -> Labels]
      /\ \A d \in Agent : d # c => pc'[d] = pc[d]
      /\ pc[c] = "queue" /\ pc'[c] \in {"run", "queue", "test"}
      /\ \/ pc'[c] = "run" /\ self' = [self EXCEPT ![c] = Idle]
         \/ pc'[c] # "run" /\ self' = self
  BY DEF Search, Move, queueVars, nodeVars, OwnInv, Fields, Labels
<1>2. node' = node \/ (qi[c] < QueuesNum /\ node' = [node EXCEPT ![c] = first[qi[c]]])
  BY Zenon DEF Search, localVars
<1>3. (first[qi[c]] \in Known /\ first[qi[c]] \in Node \cup {Null, Wild}) \/ node' = node
  <2>1. qi[c] < QueuesNum => qi[c] \in Queue
    BY DEF QueueIndex, Queue
  <2> QED
    BY <1>2, <2>1, Zenon DEF OwnInv, Fields, Pointers
<1>4. Known' = Known
  BY <1>1, Zenon DEF Known
<1>5. Fields' /\ Pointers'
  BY <1>1, <1>2, <1>3, <1>4 DEF OwnInv, Fields, Pointers
<1>6. \A d \in CPU : Owns(d)' => Owns(d) /\ self'[d] = self[d]
  BY <1>1 DEF Owns, IsTask, OwnInv, Fields
<1>7. \A d \in CPU : d # c => node'[d] = node[d] /\ self'[d] = self[d]
  BY <1>1, <1>2, Zenon DEF OwnInv, Fields
<1>8. \A k \in Creator : node'[k] = node[k] /\ pc'[k] = pc[k]
  BY <1>1, <1>2 DEF OwnInv, Fields
<1> QED
  BY <1>1, <1>5, <1>6, <1>7, <1>8, Zenon DEF OwnInv

\* A timer interrupt finds its task's node locked already.
LEMMA OwnTick ==
  ASSUME OwnInv, NEW c \in CPU, Tick(c)
  PROVE  OwnInv'
<1> USE SchedulerAssumption DEF Agent
<1>1. /\ UNCHANGED <<first, live, next, prev, queue_num, node, self>> /\ pc' \in [Agent -> Labels]
      /\ \A d \in Agent : d # c => pc'[d] = pc[d]
      /\ pc[c] = "run" /\ pc'[c] \in {"spin", "queue"}
      /\ pc'[c] = "spin" => self[c] \in Node
  BY DEF Tick, Move, IsTask, queueVars, localVars, OwnInv, Fields, Labels
<1>2. flags' = flags
  <2>1. \A n \in Node : flags'[n] = flags[n]
    <3>1. ASSUME NEW n \in Node, n = self[c] PROVE "LOCKED" \in flags[n]
      BY <1>1, <3>1, Zenon DEF OwnInv, Owns, IsTask
    <3> QED
      BY <3>1 DEF Tick, OwnInv, Fields
  <2> QED
    BY <2>1 DEF Tick, OwnInv, Fields
<1>3. Fields' /\ Pointers'
  BY <1>1, <1>2, Zenon DEF OwnInv, Fields, Pointers, Known
<1>4. \A d \in CPU : Owns(d)' => Owns(d)
  BY <1>1, Zenon DEF Owns, IsTask
<1> QED
  BY <1>1, <1>2, <1>3, <1>4, Zenon DEF OwnInv

\* A node is unlocked by its owner, which is the owner no longer.
LEMMA OwnYield ==
  ASSUME OwnInv, NEW c \in CPU, Yield(c)
  PROVE  OwnInv'
<1> USE SchedulerAssumption DEF Agent
<1>1. /\ UNCHANGED <<first, live, next, prev, queue_num, node, self>> /\ pc' \in [Agent -> Labels]
      /\ \A d \in Agent : d # c => pc'[d] = pc[d]
      /\ pc[c] = "leave" /\ pc'[c] = "unlock"
      /\ flags' = [flags EXCEPT ![self[c]] = @ \ {"LOCKED"}]
  BY Zenon DEF Yield, Move, queueVars, localVars, OwnInv, Fields, Labels
<1>2. Owns(c) /\ self[c] \in live
  BY <1>1, Zenon DEF OwnInv, Owns, IsTask
<1>3. Known \subseteq Known'
  BY <1>1, <1>2, Zenon DEF Known, OwnInv, Fields
<1>4. Fields' /\ Pointers'
  BY <1>1, <1>3, Zenon DEF OwnInv, Fields, Pointers
<1>5. \A d \in CPU : Owns(d)' => Owns(d) /\ d # c
  BY <1>1, Zenon DEF Owns, IsTask
<1>6. \A d \in CPU : Owns(d)' => self'[d] \in live' /\ "LOCKED" \in flags'[self'[d]]
  <2>1. \A d \in CPU : Owns(d)' => self[d] # self[c] /\ self[d] \in live /\ "LOCKED" \in flags[self[d]]
    BY <1>2, <1>5, Zenon DEF OwnInv
  <2> QED
    BY <1>1, <2>1, Zenon DEF OwnInv, Fields
<1> QED
  BY <1>1, <1>4, <1>5, <1>6, Zenon DEF OwnInv

\* A freed cell keeps its LOCKED flag, and its owner is gone.
LEMMA OwnFree ==
  ASSUME OwnInv, NEW c \in CPU, Free(c)
  PROVE  OwnInv'
<1> USE SchedulerAssumption DEF Agent
<1>1. /\ UNCHANGED <<first, flags, prev, queue_num, node, self>> /\ pc' \in [Agent -> Labels]
      /\ \A d \in Agent : d # c => pc'[d] = pc[d]
      /\ pc[c] = "free" /\ pc'[c] = "unlock" /\ live' = live \ {self[c]}
      /\ next' = [next EXCEPT ![self[c]] = @] \/ next' = [next EXCEPT ![self[c]] = Wild]
  BY Zenon DEF Free, Move, queueVars, localVars, OwnInv, Fields, Labels
<1>2. Owns(c) /\ self[c] \in Node /\ "LOCKED" \in flags[self[c]]
  BY <1>1, Zenon DEF OwnInv, Owns, IsTask
<1>3. Known \subseteq Known' /\ Wild \in Known'
  BY <1>1, <1>2, Zenon DEF Known, OwnInv, Fields
<1>4. Fields' /\ Pointers'
  BY <1>1, <1>2, <1>3 DEF OwnInv, Fields, Pointers
<1>5. \A d \in CPU : Owns(d)' => Owns(d) /\ d # c
  BY <1>1, Zenon DEF Owns, IsTask
<1>6. \A d \in CPU : Owns(d)' => self'[d] \in live' /\ "LOCKED" \in flags'[self'[d]]
  BY <1>1, <1>2, <1>5, Zenon DEF OwnInv
<1> QED
  BY <1>1, <1>4, <1>5, <1>6, Zenon DEF OwnInv

\* A node is taken only unlocked, so it has no owner; and it is allocated,
\* since a known cell that is not allocated is locked.
LEMMA OwnGrab ==
  ASSUME OwnInv, NEW c \in CPU, Grab(c)
  PROVE  OwnInv'
<1> USE SchedulerAssumption DEF Agent
<1> DEFINE n == node[c]
<1>1. /\ UNCHANGED <<first, live, next, prev, queue_num>> /\ pc' \in [Agent -> Labels]
      /\ \A d \in Agent : d # c => pc'[d] = pc[d]
      /\ pc[c] = "try" /\ pc'[c] = "run" /\ "LOCKED" \notin flags[n]
      /\ flags' = [flags EXCEPT ![n] = @ \cup {"LOCKED"}]
      /\ self' = [self EXCEPT ![c] = n] /\ node' = [node EXCEPT ![c] = Null]
  BY Zenon DEF Grab, Move, queueVars, OwnInv, Fields, Labels
<1>2. n \in Node /\ n \in live
  BY <1>1, Zenon DEF OwnInv, Pointers, Known
<1>3. Known \subseteq Known' /\ Null \in Known'
  BY <1>1, <1>2, Zenon DEF Known, OwnInv, Fields
<1>4. Fields' /\ Pointers'
  BY <1>1, <1>2, <1>3, Zenon DEF OwnInv, Fields, Pointers
<1>5. self'[c] = n /\ \A d \in CPU : d # c => self'[d] = self[d] /\ (Owns(d)' <=> Owns(d))
  BY <1>1, Zenon DEF Owns, IsTask, OwnInv, Fields
<1>6. \A d \in CPU : d # c /\ Owns(d) => self[d] # n
  BY <1>1, Zenon DEF OwnInv
<1>7. \A d \in CPU : Owns(d)' => self'[d] \in live' /\ "LOCKED" \in flags'[self'[d]]
  BY <1>1, <1>2, <1>5 DEF OwnInv, Fields
<1>8. \A d, e \in CPU : Owns(d)' /\ Owns(e)' /\ self'[d] = self'[e] => d = e
  BY <1>5, <1>6, Zenon DEF OwnInv
<1>9. \A d \in CPU : pc'[d] \in {"spin", "rotate", "leave", "free"} => self'[d] \in Node
  BY <1>1, <1>5, Zenon DEF OwnInv
<1>10. /\ \A d \in CPU : pc'[d] \in {"try", "advance"} => node'[d] \in Node
       /\ \A k \in Creator : pc'[k] # "run" => node'[k] \in Node
  BY <1>1, Zenon DEF OwnInv, Fields
<1> QED
  BY <1>4, <1>7, <1>8, <1>9, <1>10, Zenon DEF OwnInv

\* A task that exits keeps its LOCKED flag.
LEMMA OwnExit ==
  ASSUME OwnInv, NEW c \in CPU, Exit(c)
  PROVE  OwnInv'
<1>1. /\ UNCHANGED <<first, live, next, prev, queue_num, node, self, pc>> /\ self[c] \in Node
      /\ flags' = [flags EXCEPT ![self[c]] = @ \cup {"FINISHED"}]
  BY Zenon DEF Exit, IsTask, queueVars, localVars
<1>2. \A m \in Node : "LOCKED" \in flags'[m] <=> "LOCKED" \in flags[m]
  BY <1>1, Zenon DEF OwnInv, Fields
<1>3. Known' = Known
  BY <1>1, <1>2, Zenon DEF Known
<1>4. Fields' /\ Pointers'
  BY <1>1, <1>3, Zenon DEF OwnInv, Fields, Pointers
<1>5. \A d \in CPU : Owns(d)' <=> Owns(d)
  BY <1>1, Zenon DEF Owns, IsTask
<1>6. \A d \in CPU : Owns(d) => self[d] \in Node
  BY Zenon DEF Owns, IsTask
<1>7. \A d \in CPU : Owns(d)' => self'[d] \in live' /\ "LOCKED" \in flags'[self'[d]]
  BY <1>1, <1>2, <1>5, <1>6, Zenon DEF OwnInv
<1> QED
  BY <1>1, <1>4, <1>5, <1>7, Zenon DEF OwnInv

\* The outer loop of the search stays within the queues.
LEMMA QueueIndexStep == QueueIndex /\ [Next]_vars => QueueIndex'
<1> SUFFICES ASSUME QueueIndex, [Next]_vars PROVE QueueIndex'
  OBVIOUS
<1>1. ASSUME NEW c \in Agent, UNCHANGED qi \/ qi' = [qi EXCEPT ![c] = @ + 1]
                              \/ qi' = [qi EXCEPT ![c] = 0]
      PROVE  QueueIndex'
  BY <1>1 DEF QueueIndex
<1>2. CASE UNCHANGED vars \/ Enter
  BY <1>2, Zenon DEF vars, localVars, Enter, QueueIndex
<1>3. ASSUME NEW c \in CPU, Switch(c) \/ Exit(c) PROVE QueueIndex'
  BY <1>1, <1>3, Zenon DEF Agent, Switch, Exit, Tick, Spin, Rotate, Yield, Dequeue, Free, Unlock,
    Search, Test, Pass, Grab, Advance, localVars
<1>4. ASSUME NEW k \in Creator, Add(k) \/ \E n \in Node, q \in Queue : Create(k, n, q)
      PROVE  QueueIndex'
  BY <1>1, <1>4, Zenon DEF Agent, Add, AddSpin, AddLink, AddDone, Create, localVars
<1> QED
  BY <1>2, <1>3, <1>4, Zenon DEF Next

\* Every step preserves the invariant.
LEMMA OwnStep == QueueIndex /\ OwnInv /\ [Next]_vars => OwnInv'
<1> SUFFICES ASSUME QueueIndex, OwnInv, [Next]_vars PROVE OwnInv'
  OBVIOUS
<1>1. CASE UNCHANGED vars \/ Enter
  BY <1>1, Zenon DEF vars, Enter, queueVars, nodeVars, localVars, OwnInv, Fields, Pointers, Known,
    Owns, IsTask
<1>2. ASSUME NEW c \in CPU, Switch(c) \/ Exit(c) PROVE OwnInv'
  BY <1>2, OwnTick, OwnYield, OwnFree, OwnSearch, OwnGrab, OwnExit, OwnSwitchQuiet, Zenon DEF Switch
<1>3. ASSUME NEW k \in Creator, Add(k) \/ \E n \in Node, q \in Queue : Create(k, n, q)
      PROVE  OwnInv'
  BY <1>3, OwnAdd, OwnCreate, Zenon
<1> QED
  BY <1>1, <1>2, <1>3, Zenon DEF Next

\* No task is ever on two CPUs, for any number of CPUs, creators, nodes and
\* queues and with tasks that come and go at any time.
THEOREM TaskOnOneCpu == Spec => []RunsOnce
<1>1. Init => OwnInv /\ QueueIndex
  BY OwnInit DEF Init, QueueIndex
<1>2. OwnInv /\ QueueIndex /\ [Next]_vars => OwnInv' /\ QueueIndex'
  BY OwnStep, QueueIndexStep, Zenon
<1>3. OwnInv => RunsOnce
  <2> SUFFICES ASSUME OwnInv, NEW c \in CPU, NEW d \in CPU, Running(c) # Null,
                      Running(c) = Running(d)
               PROVE  c = d
    BY Zenon DEF RunsOnce
  <2>1. Owns(c) /\ Owns(d) /\ self[c] = self[d]
    BY Zenon DEF Running, Owns
  <2> QED
    BY <2>1, Zenon DEF OwnInv
<1> QED
  BY <1>1, <1>2, <1>3, PTL DEF Spec
-----------------------------------------------------------------------------
(* The queues. *)

\* Tasks exit, or tasks are added after the CPUs are released, but not both.
NoReuse == ~(Finishing /\ LateCreate)

\* The types OwnInv does not have, and how far the search goes.
Counters ==
  /\ num \in [Queue -> Int] /\ owner \in [Queue -> Agent \cup {Null}]
  /\ linked \subseteq live /\ IsFiniteSet(linked)
  /\ entered \in BOOLEAN
  /\ qi \in [Agent -> 0..QueuesNum] /\ j \in [Agent -> Nat]
  /\ \A c \in CPU : pc[c] \in {"test", "pass", "try", "advance"} => qi[c] < QueuesNum

\* A queue's lock is with the agent that works on the queue, and no agent has two.
Locks ==
  /\ \A c \in CPU : pc[c] \in {"rotate", "leave", "free"} => owner[queue_num[self[c]]] = c
  /\ \A k \in Creator : pc[k] \in {"link", "added"} => owner[queue_num[node[k]]] = k
  /\ \A q \in Queue : owner[q] \in CPU => pc[owner[q]] \in {"rotate", "leave", "free", "unlock"}
  /\ \A q \in Queue : owner[q] \in Creator => pc[owner[q]] \in {"link", "added"}
  /\ \A q, r \in Queue : owner[q] = owner[r] => owner[q] = Null \/ q = r

\* k has a node that is in no queue yet.
Adding(k) == pc[k] \in {"add", "link"}

\* Who has which node: a task that runs is in its queue, one that is being
\* added or was dequeued is not, and no other agent has that one.
Members ==
  /\ \A k \in Creator : Adding(k) => node[k] \in live \ linked
  /\ \A k \in Creator : pc[k] = "added" => node[k] \in linked
  /\ \A k, l \in Creator : Adding(k) /\ Adding(l) /\ node[k] = node[l] => k = l
  /\ \A c \in CPU : Owns(c) /\ pc[c] # "free" => self[c] \in linked
  /\ \A c \in CPU : pc[c] = "free" => self[c] \notin linked
  /\ \A c \in CPU, k \in Creator : Owns(c) /\ Adding(k) => self[c] # node[k]

\* The pointers a search may come across lead to no node, to one in a queue,
\* or to a dequeued one, which is locked.
Seen == {Null, Wild} \cup linked \cup {n \in Node : "LOCKED" \in flags[n]}
Visible ==
  /\ \A q \in Queue : first[q] \in Seen
  /\ \A n \in Node : next[n] \in Seen
  /\ \A c \in CPU : node[c] \in Seen

\* Before the CPUs are released, or without exits, no cell was ever freed.
Fresh ==
  /\ ~entered => \A c \in CPU : pc[c] = "run" /\ self[c] = Null
  /\ ~Finishing => /\ \A n \in Node : "FINISHED" \notin flags[n]
                   /\ \A c \in CPU : pc[c] # "free"
  /\ ~Finishing \/ ~entered => \A n \in Node \ live : "LOCKED" \notin flags[n]

\* R is one ring under the pointers nx and pv.
RingOf(R, nx, pv) ==
  /\ \A n \in R : nx[n] \in R /\ pv[n] \in R /\ pv[nx[n]] = n /\ nx[pv[n]] = n
  /\ \A S \in SUBSET R : S # {} /\ (\A n \in S : nx[n] \in S) => S = R

\* What num of queue q is ahead of its ring, while its lock is held.
Ahead(q) ==
  IF owner[q] \in CPU /\ pc[owner[q]] = "free" THEN 1
  ELSE IF owner[q] \in Creator /\ pc[owner[q]] = "added" THEN -1 ELSE 0

\* Every queue is a ring, counted but for the agent that works on it; a CPU
\* about to dequeue its node has moved "first" past it.
Rings ==
  /\ \A q \in Queue : RingOf(Ring(q), next, prev)
  /\ \A q \in Queue : IF Ring(q) = {} THEN first[q] = Null ELSE first[q] \in Ring(q)
  /\ \A q \in Queue : num[q] = Cardinality(Ring(q)) + Ahead(q)
  /\ \A c \in CPU : pc[c] = "leave" => first[queue_num[self[c]]] = next[self[c]]

QueueInv == Counters /\ Locks /\ Members /\ Visible /\ Fresh /\ Rings
-----------------------------------------------------------------------------
(* Rings. *)

\* A node that points to itself is a ring.
LEMMA RingSingle ==
  ASSUME NEW n, NEW nx, NEW pv, nx[n] = n, pv[n] = n
  PROVE  RingOf({n}, nx, pv)
  BY Zenon DEF RingOf

\* A ring does not depend on pointers of other nodes.
LEMMA RingSame ==
  ASSUME NEW R, NEW nx, NEW pv, NEW nx2, NEW pv2, RingOf(R, nx, pv),
         \A m \in R : nx2[m] = nx[m] /\ pv2[m] = pv[m]
  PROVE  RingOf(R, nx2, pv2)
<1>1. \A m \in R : nx2[m] \in R /\ pv2[m] \in R /\ pv2[nx2[m]] = m /\ nx2[pv2[m]] = m
  BY Zenon DEF RingOf
<1>2. ASSUME NEW S \in SUBSET R, S # {}, \A m \in S : nx2[m] \in S PROVE S = R
  BY <1>2, Zenon DEF RingOf
<1> QED
  BY <1>1, <1>2, Zenon DEF RingOf

\* _scheduler_enqueue_task: a node put in front of f makes the ring one longer.
LEMMA RingInsert ==
  ASSUME NEW R, NEW nx, NEW pv, NEW nx2, NEW pv2, RingOf(R, nx, pv),
         NEW n, n \notin R, NEW f \in R,
         nx2[n] = f, nx2[pv[f]] = n, \A m \in R \ {pv[f]} : nx2[m] = nx[m],
         pv2[n] = pv[f], pv2[f] = n, \A m \in R \ {f} : pv2[m] = pv[m]
  PROVE  RingOf(R \cup {n}, nx2, pv2)
<1> DEFINE p == pv[f]
<1>1. p \in R /\ nx[p] = f
  BY Zenon DEF RingOf
<1>2. ASSUME NEW m \in R PROVE nx2[m] \in R \cup {n} /\ pv2[nx2[m]] = m
  <2>1. CASE m = p
    BY <1>1, <2>1, Zenon
  <2>2. CASE m # p
    <3>1. nx2[m] = nx[m] /\ nx[m] \in R /\ pv[nx[m]] = m
      BY <2>2, Zenon DEF RingOf
    <3>2. nx[m] # f
      BY <2>2, <3>1, Zenon
    <3> QED
      BY <3>1, <3>2, Zenon
  <2> QED
    BY <2>1, <2>2, Zenon
<1>3. ASSUME NEW m \in R PROVE pv2[m] \in R \cup {n} /\ nx2[pv2[m]] = m
  <2>1. CASE m = f
    BY <2>1, Zenon
  <2>2. CASE m # f
    <3>1. pv2[m] = pv[m] /\ pv[m] \in R /\ nx[pv[m]] = m
      BY <2>2, Zenon DEF RingOf
    <3>2. pv[m] # p
      BY <1>1, <2>2, <3>1, Zenon
    <3> QED
      BY <3>1, <3>2, Zenon
  <2> QED
    BY <2>1, <2>2, Zenon
<1>4. ASSUME NEW S \in SUBSET (R \cup {n}), S # {}, \A m \in S : nx2[m] \in S
      PROVE  S = R \cup {n}
  <2> DEFINE T == S \cap R
  <2>1. n \in S => f \in S
    BY <1>4, Zenon
  <2>2. T # {}
    BY <1>4, <2>1, Zenon
  <2>3. ASSUME NEW m \in T PROVE nx[m] \in T
    <3>1. CASE m = p
      BY <1>1, <1>4, <2>1, <3>1, Zenon
    <3>2. CASE m # p
      BY <1>4, <3>2, Zenon DEF RingOf
    <3> QED
      BY <3>1, <3>2, Zenon
  <2>4. T = R
    BY <2>2, <2>3, Zenon DEF RingOf
  <2>5. n \in S
    BY <1>1, <1>4, <2>4
  <2> QED
    BY <2>4, <2>5, Zenon
<1> QED
  BY <1>1, <1>2, <1>3, <1>4, Zenon DEF RingOf

\* _scheduler_dequeue_task: linking a node's neighbours leaves the others a ring.
LEMMA RingRemove ==
  ASSUME NEW R, NEW nx, NEW pv, NEW nx2, NEW pv2, RingOf(R, nx, pv),
         NEW n \in R, nx[n] # n,
         nx2[pv[n]] = nx[n], \A m \in R \ {pv[n]} : nx2[m] = nx[m],
         pv2[nx[n]] = pv[n], \A m \in R \ {nx[n]} : pv2[m] = pv[m]
  PROVE  RingOf(R \ {n}, nx2, pv2)
<1> DEFINE p == pv[n]
           s == nx[n]
           Q == R \ {n}
<1>1. p \in Q /\ s \in Q /\ nx[p] = n /\ pv[s] = n
  BY Zenon DEF RingOf
<1>2. ASSUME NEW m \in Q PROVE nx2[m] \in Q /\ pv2[nx2[m]] = m
  <2>1. CASE m = p
    BY <1>1, <2>1, Zenon
  <2>2. CASE m # p
    <3>1. nx2[m] = nx[m] /\ nx[m] \in R /\ pv[nx[m]] = m
      BY <2>2, Zenon DEF RingOf
    <3>2. nx[m] # n /\ nx[m] # s
      BY <1>1, <2>2, <3>1, Zenon
    <3> QED
      BY <3>1, <3>2, Zenon
  <2> QED
    BY <2>1, <2>2, Zenon
<1>3. ASSUME NEW m \in Q PROVE pv2[m] \in Q /\ nx2[pv2[m]] = m
  <2>1. CASE m = s
    BY <1>1, <2>1, Zenon
  <2>2. CASE m # s
    <3>1. pv2[m] = pv[m] /\ pv[m] \in R /\ nx[pv[m]] = m
      BY <2>2, Zenon DEF RingOf
    <3>2. pv[m] # n /\ pv[m] # p
      BY <1>1, <2>2, <3>1, Zenon
    <3> QED
      BY <3>1, <3>2, Zenon
  <2> QED
    BY <2>1, <2>2, Zenon
<1>4. ASSUME NEW S \in SUBSET Q, S # {}, \A m \in S : nx2[m] \in S
      PROVE  S = Q
  <2>1. ASSUME NEW m \in S, m # p PROVE nx[m] \in S
    BY <1>4, <2>1, Zenon
  <2>2. CASE p \in S
    <3> DEFINE T == S \cup {n}
    <3>1. \A m \in T : nx[m] \in T
      BY <1>1, <1>4, <2>1, <2>2, Zenon
    <3>2. T \in SUBSET R /\ T # {}
      OBVIOUS
    <3>3. T = R
      BY <3>1, <3>2, Zenon DEF RingOf
    <3> QED
      BY <3>3, Zenon
  <2>3. CASE p \notin S
    <3>1. \A m \in S : nx[m] \in S
      BY <2>1, <2>3, Zenon
    <3>2. S = R
      BY <1>4, <3>1, Zenon DEF RingOf
    <3> QED
      BY <3>2, Zenon
  <2> QED
    BY <2>2, <2>3, Zenon
<1> QED
  BY <1>2, <1>3, <1>4, Zenon DEF RingOf

\* A node that is its own successor is alone.
LEMMA RingAlone ==
  ASSUME NEW R, NEW nx, NEW pv, RingOf(R, nx, pv), NEW n \in R, nx[n] = n
  PROVE  R = {n}
<1>1. {n} \in SUBSET R /\ {n} # {} /\ \A m \in {n} : nx[m] \in {n}
  OBVIOUS
<1> QED
  BY <1>1, Zenon DEF RingOf
-----------------------------------------------------------------------------
(* The invariant holds initially, and each action preserves it.            *)

\* Empty queues are rings.
LEMMA QueueInit == Init => QueueInv
<1> SUFFICES ASSUME Init PROVE QueueInv
  OBVIOUS
<1> USE SchedulerAssumption
<1>1. \A c \in CPU : pc[c] = "run" /\ ~Owns(c) /\ node[c] = Null /\ self[c] = Null
  BY Zenon DEF Init, Owns, IsTask, Agent
<1>2. \A k \in Creator : pc[k] = "run"
  BY Zenon DEF Init, Agent
<1>3. Counters
  <2>1. 0 \in 0..QueuesNum /\ 0 \in Nat /\ 0 \in Int
    OBVIOUS
  <2>2. owner \in [Queue -> Agent \cup {Null}] /\ num \in [Queue -> Int]
        /\ qi \in [Agent -> 0..QueuesNum] /\ j \in [Agent -> Nat]
    BY <2>1, Zenon DEF Init
  <2> QED
    BY <1>1, <2>2, FS_EmptySet, Zenon DEF Init, Counters
<1>4. \A q \in Queue : owner[q] = Null /\ first[q] = Null /\ num[q] = 0 /\ Ring(q) = {}
  BY Zenon DEF Init, Ring
<1>5. Locks
  BY <1>1, <1>2, <1>4, Zenon DEF Locks, Agent
<1>6. Members
  BY <1>1, <1>2, Zenon DEF Members, Adding
<1>7. Visible /\ Fresh
  BY <1>1, <1>4, Zenon DEF Init, Visible, Seen, Fresh
<1>8. \A q \in Queue : Ahead(q) = 0 /\ RingOf(Ring(q), next, prev) /\ Cardinality(Ring(q)) = 0
  BY <1>4, FS_EmptySet, Zenon DEF Ahead, RingOf, Agent
<1>9. Rings
  BY <1>1, <1>4, <1>8 DEF Rings
<1> QED
  BY <1>3, <1>5, <1>6, <1>7, <1>9, Zenon DEF QueueInv

\* A queue has finitely many nodes.
LEMMA RingFinite ==
  ASSUME Counters, NEW q
  PROVE  IsFiniteSet(Ring(q)) /\ Cardinality(Ring(q)) \in Nat
<1>1. Ring(q) \subseteq linked /\ IsFiniteSet(linked)
  BY Zenon DEF Ring, Counters
<1> QED
  BY <1>1, FS_Subset, FS_CardinalityType, Zenon

\* A step that leaves the queues and the pointers of their nodes alone.
LEMMA RingsKept ==
  ASSUME Rings, UNCHANGED <<first, num, linked>>,
         \A n \in linked : queue_num'[n] = queue_num[n] /\ next'[n] = next[n] /\ prev'[n] = prev[n],
         \A q \in Queue : Ahead(q)' = Ahead(q),
         \A c \in CPU : pc'[c] = "leave" => first[queue_num'[self'[c]]] = next'[self'[c]]
  PROVE  Rings'
<1>1. ASSUME NEW q \in Queue PROVE Ring(q)' = Ring(q) /\ RingOf(Ring(q), next', prev')
  <2>1. Ring(q)' = Ring(q)
    BY Zenon DEF Ring
  <2>2. \A n \in Ring(q) : next'[n] = next[n] /\ prev'[n] = prev[n]
    BY Zenon DEF Ring
  <2> QED
    BY <2>1, <2>2, RingSame DEF Rings
<1> QED
  BY <1>1, Zenon DEF Rings

\* A step of agent a, from one place to another, that leaves the locks alone and
\* neither begins nor ends a change of num.
LEMMA AheadKept ==
  ASSUME NEW a \in Agent, UNCHANGED owner, \A b \in Agent \ {a} : pc'[b] = pc[b],
         pc[a] \notin {"free", "added"}, pc'[a] \notin {"free", "added"}
  PROVE  \A q \in Queue : Ahead(q)' = Ahead(q)
  BY Zenon DEF Ahead, Agent

\* The gate opens when no creator is at work.
LEMMA QueueEnter ==
  ASSUME OwnInv, QueueInv, Enter
  PROVE  QueueInv'
<1> USE DEF Enter, queueVars, nodeVars, localVars, QueueInv
<1>1. Counters' /\ Locks' /\ Members' /\ Visible'
  BY Zenon DEF Counters, Locks, Members, Adding, Owns, Visible, Seen
<1>2. Fresh'
  BY Zenon DEF Fresh
<1>3. \A q \in Queue : Ahead(q)' = Ahead(q)
  BY Zenon DEF Ahead
<1>4. Rings'
  BY <1>3, RingsKept, Zenon DEF Rings
<1> QED
  BY <1>1, <1>2, <1>4, Zenon

\* malloc hands out a cell no pointer leads to.
LEMMA QueueCreate ==
  ASSUME NoReuse, OwnInv, QueueInv, NEW k \in Creator, NEW n \in Node, NEW q \in Queue,
         Create(k, n, q)
  PROVE  QueueInv'
<1> USE SchedulerAssumption DEF Agent
<1>1. /\ UNCHANGED <<first, num, owner, linked, qi, j, self, entered>>
      /\ n \in Node \ live /\ live' = live \cup {n} /\ (~entered \/ LateCreate)
      /\ pc[k] = "run" /\ pc'[k] = "add" /\ \A a \in Agent \ {k} : pc'[a] = pc[a]
      /\ node'[k] = n /\ \A a \in Agent \ {k} : node'[a] = node[a]
      /\ flags'[n] = {} /\ next'[n] = Null /\ prev'[n] = Null
      /\ \A m \in Node \ {n} : /\ flags'[m] = flags[m] /\ next'[m] = next[m]
                               /\ prev'[m] = prev[m] /\ queue_num'[m] = queue_num[m]
  BY Zenon DEF Create, Move, queueVars, OwnInv, Fields
<1>2. n \notin linked
  BY <1>1, Zenon DEF QueueInv, Counters
<1>3. \A c \in CPU : pc'[c] = pc[c] /\ node'[c] = node[c] /\ (Owns(c)' <=> Owns(c))
  BY <1>1, Zenon DEF Owns
<1>4. \A c \in CPU : Owns(c) => self[c] # n
  BY <1>1, Zenon DEF OwnInv
<1>5. Counters'
  BY <1>1, <1>3, Zenon DEF QueueInv, Counters
<1>6. Locks'
  <2>1. \A c \in CPU : pc[c] \in {"rotate", "leave", "free"} => queue_num'[self[c]] = queue_num[self[c]]
    <3>1. \A c \in CPU : pc[c] \in {"rotate", "leave", "free"} => Owns(c) /\ self[c] \in Node
      BY Zenon DEF OwnInv, Owns, IsTask
    <3> QED
      BY <1>1, <1>4, <3>1, Zenon
  <2>2. \A l \in Creator \ {k} : pc[l] \in {"link", "added"} => queue_num'[node[l]] = queue_num[node[l]]
    <3>1. \A l \in Creator : pc[l] \in {"link", "added"} => node[l] \in Node /\ node[l] \in live
      BY Zenon DEF OwnInv, QueueInv, Members, Adding, Counters
    <3> QED
      BY <1>1, <3>1, Zenon
  <2> QED
    BY <1>1, <1>3, <2>1, <2>2 DEF QueueInv, Locks
<1>7. Members'
  <2>1. /\ \A l \in Creator : Adding(l)' <=> Adding(l) \/ l = k
        /\ \A l \in Creator : pc'[l] = "added" => l # k /\ pc[l] = "added"
    BY <1>1, Zenon DEF Adding
  <2>2. \A l, m \in Creator : Adding(l)' /\ Adding(m)' /\ node'[l] = node'[m] => l = m
    BY <1>1, <2>1 DEF QueueInv, Members
  <2>3. \A c \in CPU, l \in Creator : Owns(c)' /\ Adding(l)' => self'[c] # node'[l]
    BY <1>1, <1>3, <1>4, <2>1 DEF QueueInv, Members
  <2>4. \A l \in Creator : Adding(l)' => node'[l] \in live' \ linked'
    BY <1>1, <1>2, <2>1, Zenon DEF QueueInv, Members
  <2> QED
    BY <1>1, <1>3, <2>1, <2>2, <2>3, <2>4 DEF QueueInv, Members
<1>8. "LOCKED" \notin flags[n]
  BY <1>1, Zenon DEF QueueInv, Fresh, NoReuse
<1>9. Visible'
  <2>1. Seen \subseteq Seen' /\ Null \in Seen'
    BY <1>1, <1>8, Zenon DEF Seen
  <2> QED
    BY <1>1, <1>3, <2>1 DEF QueueInv, Visible
<1>10. Fresh'
  BY <1>1, <1>3 DEF QueueInv, Fresh
<1>11. Rings'
  <2>1. \A r \in Queue : Ahead(r)' = Ahead(r)
    BY <1>1, AheadKept, Zenon
  <2>2. \A m \in linked : queue_num'[m] = queue_num[m] /\ next'[m] = next[m] /\ prev'[m] = prev[m]
    BY <1>1, <1>2 DEF QueueInv, Counters, OwnInv, Fields
  <2>3. \A c \in CPU : pc'[c] = "leave" => self[c] \in linked
    BY <1>3, Zenon DEF QueueInv, Members, OwnInv, Owns, IsTask
  <2>4. \A c \in CPU : pc'[c] = "leave" => first[queue_num'[self[c]]] = next'[self[c]]
    BY <1>3, <2>2, <2>3, Zenon DEF QueueInv, Rings
  <2> QED
    BY <1>1, <2>1, <2>2, <2>4, RingsKept, Zenon DEF QueueInv
<1> QED
  BY <1>5, <1>6, <1>7, <1>9, <1>10, <1>11, Zenon DEF QueueInv
=============================================================================
