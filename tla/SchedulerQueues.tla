-------------------------- MODULE SchedulerQueues --------------------------
(***************************************************************************)
(* The steps that do not put a node into a queue or take one out preserve  *)
(* the invariant of the queues (QueueInv, in SchedulerProofs): the search, *)
(* the locks, the rotation of a queue and the counting of its nodes.       *)
(***************************************************************************)
EXTENDS SchedulerProofs

\* A step of c outside the queues' locks that leaves the queues alone: it may
\* move its own pointer, lock a node that is in a queue, or finish its task.
LEMMA QueueOutside ==
  ASSUME OwnInv, QueueInv, NEW c \in CPU, entered, Counters',
         UNCHANGED <<queueVars, live, next, prev, queue_num, linked, entered>>,
         \A a \in Agent \ {c} : pc'[a] = pc[a] /\ node'[a] = node[a],
         \A d \in CPU \ {c} : self'[d] = self[d],
         pc[c] \notin {"rotate", "leave", "free", "unlock", "added"},
         pc'[c] \notin {"rotate", "leave", "free", "unlock", "added"},
         Owns(c)' => self'[c] \in linked, node'[c] \in Seen,
         \A m \in Node : "LOCKED" \in flags[m] => "LOCKED" \in flags'[m],
         \A m \in Node \ live : flags'[m] = flags[m],
         ~Finishing => \A m \in Node : "FINISHED" \notin flags'[m]
  PROVE  QueueInv'
<1> USE SchedulerAssumption DEF Agent
<1>1. UNCHANGED <<first, num, owner>>
  BY Zenon DEF queueVars
<1>2. \A d \in CPU \ {c} : Owns(d)' <=> Owns(d)
  BY Zenon DEF Owns
<1>3. \A k \in Creator : Adding(k)' <=> Adding(k)
  BY Zenon DEF Adding
<1> DEFINE Inside == {"rotate", "leave", "free", "unlock"}
<1>4. \A d \in CPU : pc'[d] \in Inside <=> pc[d] \in Inside
  OBVIOUS
<1>5. \A d \in CPU : pc'[d] \in Inside => pc'[d] = pc[d] /\ self'[d] = self[d]
  OBVIOUS
<1>6. \A k \in Creator : pc'[k] = pc[k] /\ node'[k] = node[k]
  OBVIOUS
<1>7. Locks'
  <2>1. \A d \in CPU : pc'[d] \in {"rotate", "leave", "free"} => owner'[queue_num'[self'[d]]] = d
    BY <1>1, <1>5, Zenon DEF QueueInv, Locks
  <2>2. \A k \in Creator : pc'[k] \in {"link", "added"} => owner'[queue_num'[node'[k]]] = k
    BY <1>1, <1>6, Zenon DEF QueueInv, Locks
  <2>3. \A q \in Queue : owner'[q] \in CPU => pc'[owner'[q]] \in Inside
    BY <1>1, <1>4, Zenon DEF QueueInv, Locks
  <2>4. \A q \in Queue : owner'[q] \in Creator => pc'[owner'[q]] \in {"link", "added"}
    BY <1>1, <1>6, Zenon DEF QueueInv, Locks
  <2> QED
    BY <1>1, <2>1, <2>2, <2>3, <2>4 DEF QueueInv, Locks
<1>8. Members'
  <2>1. \A d \in CPU : Owns(d)' /\ pc'[d] # "free" => self'[d] \in linked'
    BY <1>2, Zenon DEF QueueInv, Members
  <2>2. \A d \in CPU : pc'[d] = "free" => self'[d] \notin linked'
    BY <1>5, Zenon DEF QueueInv, Members
  <2>3. \A d \in CPU, k \in Creator : Owns(d)' /\ Adding(k)' => self'[d] # node'[k]
    BY <1>2, <1>3, <1>6 DEF QueueInv, Members
  <2> QED
    BY <1>3, <1>6, <2>1, <2>2, <2>3 DEF QueueInv, Members
<1>9. Visible'
  <2>1. Seen \subseteq Seen'
    BY Zenon DEF Seen
  <2> QED
    BY <1>1, <2>1, Zenon DEF QueueInv, Visible
<1>10. Fresh'
  BY Zenon DEF QueueInv, Fresh
<1>11. Rings'
  <2>1. \A q \in Queue : Ahead(q)' = Ahead(q)
    BY <1>1, AheadKept, Zenon
  <2>2. \A d \in CPU : pc'[d] = "leave" => first[queue_num'[self'[d]]] = next'[self'[d]]
    BY <1>1 DEF QueueInv, Rings
  <2> QED
    BY <1>1, <2>1, <2>2, RingsKept, Zenon DEF QueueInv
<1> QED
  BY <1>7, <1>8, <1>9, <1>10, <1>11, Zenon DEF QueueInv

\* The timer interrupt finds the task's node locked.
LEMMA QueueTick ==
  ASSUME OwnInv, QueueInv, NEW c \in CPU, Tick(c)
  PROVE  QueueInv'
<1> USE SchedulerAssumption DEF Agent
<1>1. /\ UNCHANGED <<queueVars, live, next, prev, queue_num, linked, entered, node, self, qi, j>>
      /\ entered /\ pc[c] = "run" /\ pc'[c] \in {"spin", "queue"}
      /\ \A a \in Agent \ {c} : pc'[a] = pc[a]
  BY Zenon DEF Tick, Move, localVars, OwnInv, Fields
<1>2. /\ \A m \in Node : "LOCKED" \in flags[m] => "LOCKED" \in flags'[m]
      /\ \A m \in Node \ {self[c]} : flags'[m] = flags[m]
      /\ \A m \in Node : "FINISHED" \in flags'[m] => "FINISHED" \in flags[m]
  BY Zenon DEF Tick, OwnInv, Fields
<1>3. self[c] \in Node => self[c] \in linked /\ self[c] \in live
  BY <1>1, Zenon DEF QueueInv, Members, OwnInv, Owns, IsTask
<1>4. Counters'
  BY <1>1, Zenon DEF QueueInv, Counters, queueVars
<1>5. Owns(c)' => self'[c] \in linked
  BY <1>1, <1>3, Zenon DEF Owns, IsTask
<1>6. node'[c] \in Seen /\ \A m \in Node \ live : flags'[m] = flags[m]
  BY <1>1, <1>2, <1>3, Zenon DEF QueueInv, Visible
<1>7. ~Finishing => \A m \in Node : "FINISHED" \notin flags'[m]
  BY <1>2, Zenon DEF QueueInv, Fresh
<1> QED
  BY <1>1, <1>2, <1>4, <1>5, <1>6, <1>7, QueueOutside, Zenon

\* A step of the search that takes no node.
LEMMA QueueSearch ==
  ASSUME OwnInv, QueueInv, NEW c \in CPU, Search(c) \/ Test(c) \/ Pass(c) \/ Advance(c)
  PROVE  QueueInv'
<1> USE SchedulerAssumption DEF Agent
<1>1. /\ UNCHANGED <<queueVars, nodeVars, entered>>
      /\ pc[c] \in {"queue", "test", "pass", "try", "advance"}
      /\ pc'[c] \in {"run", "queue", "test", "pass", "try", "advance"}
      /\ \A a \in Agent \ {c} : pc'[a] = pc[a] /\ node'[a] = node[a]
      /\ self' = self \/ self' = [self EXCEPT ![c] = Idle]
      /\ pc'[c] = "run" => self' = [self EXCEPT ![c] = Idle]
  BY DEF Search, Test, Pass, Advance, Move, localVars, OwnInv, Fields
<1>2. entered
  BY <1>1, Zenon DEF QueueInv, Fresh, Counters
<1>3. Counters'
  <2>1. qi[c] \in 0..QueuesNum /\ j[c] \in Nat
    BY Zenon DEF QueueInv, Counters
  <2>2. /\ qi' \in [Agent -> 0..QueuesNum] /\ j' \in [Agent -> Nat]
        /\ \A a \in Agent \ {c} : qi'[a] = qi[a]
        /\ pc'[c] \in {"test", "pass", "try", "advance"} => qi'[c] < QueuesNum
    <3>1. CASE Search(c)
      BY <2>1, <3>1 DEF Search, Move, localVars, QueueInv, Counters, OwnInv, Fields
    <3>2. CASE Test(c) \/ Pass(c)
      BY <2>1, <3>2 DEF Test, Pass, Move, localVars, QueueInv, Counters, OwnInv, Fields
    <3>3. CASE Advance(c)
      BY <2>1, <3>3 DEF Advance, Move, localVars, QueueInv, Counters, OwnInv, Fields
    <3> QED
      BY <3>1, <3>2, <3>3, Zenon
  <2> QED
    BY <1>1, <2>2, Zenon DEF QueueInv, Counters, queueVars, nodeVars
<1>4. node'[c] \in Seen
  <2>1. CASE node'[c] = node[c] \/ node'[c] = Null
    BY <2>1, Zenon DEF QueueInv, Visible, Seen
  <2>2. CASE Search(c) /\ qi[c] < QueuesNum /\ node' = [node EXCEPT ![c] = first[qi[c]]]
    <3>1. qi[c] \in Queue
      BY <2>2 DEF QueueInv, Counters, Queue
    <3> QED
      BY <2>2, <3>1, Zenon DEF QueueInv, Visible, OwnInv, Fields
  <2>3. CASE Advance(c)
    <3>1. node[c] \in Node /\ node'[c] = next[node[c]]
      BY <2>3, Zenon DEF Advance, Move, OwnInv, Fields
    <3> QED
      BY <3>1, Zenon DEF QueueInv, Visible
  <2> QED
    BY <2>1, <2>2, <2>3, Zenon DEF Search, Test, Pass, localVars, OwnInv, Fields
<1>5. UNCHANGED <<live, flags, next, prev, queue_num, linked>>
  BY <1>1, Zenon DEF nodeVars
<1>6. Owns(c)' => self'[c] \in linked
  BY <1>1, Zenon DEF Owns, IsTask, OwnInv, Fields
<1>7. ~Finishing => \A m \in Node : "FINISHED" \notin flags'[m]
  BY <1>5, Zenon DEF QueueInv, Fresh
<1>8. \A d \in CPU \ {c} : self'[d] = self[d]
  BY <1>1, Zenon DEF OwnInv, Fields
<1> QED
  BY <1>1, <1>2, <1>3, <1>4, <1>5, <1>6, <1>7, <1>8, QueueOutside, Zenon

\* A node that is found unlocked is in a queue.
LEMMA GrabLinked ==
  ASSUME OwnInv, QueueInv, NEW c \in CPU, Grab(c)
  PROVE  node[c] \in linked /\ node[c] \in live /\ node[c] \in Node
<1>1. node[c] \in Node /\ "LOCKED" \notin flags[node[c]]
  BY Zenon DEF Grab, Move, OwnInv
<1> QED
  BY <1>1, SchedulerAssumption, Zenon DEF QueueInv, Visible, Seen, Counters

\* A CPU takes a node.
LEMMA QueueGrab ==
  ASSUME OwnInv, QueueInv, NEW c \in CPU, Grab(c)
  PROVE  QueueInv'
<1> USE SchedulerAssumption DEF Agent
<1>1. /\ UNCHANGED <<queueVars, live, next, prev, queue_num, linked, entered>>
      /\ pc[c] = "try" /\ pc'[c] = "run" /\ self'[c] = node[c] /\ node'[c] = Null
      /\ \A a \in Agent \ {c} : pc'[a] = pc[a] /\ node'[a] = node[a]
      /\ \A d \in CPU \ {c} : self'[d] = self[d]
      /\ flags' = [flags EXCEPT ![node[c]] = @ \cup {"LOCKED"}]
      /\ qi' = [qi EXCEPT ![c] = 0] /\ j' = [j EXCEPT ![c] = 0]
  BY Zenon DEF Grab, Move, OwnInv, Fields
<1>2. node[c] \in linked /\ node[c] \in live /\ node[c] \in Node
  BY GrabLinked, Zenon
<1>3. entered
  BY <1>1, Zenon DEF QueueInv, Fresh, Counters
<1>4. Counters'
  <2>1. 0 \in 0..QueuesNum /\ 0 < QueuesNum
    OBVIOUS
  <2> QED
    BY <1>1, <2>1, Zenon DEF QueueInv, Counters, queueVars
<1>5. /\ \A m \in Node : "LOCKED" \in flags[m] => "LOCKED" \in flags'[m]
      /\ \A m \in Node \ live : flags'[m] = flags[m]
      /\ \A m \in Node : "FINISHED" \in flags'[m] => "FINISHED" \in flags[m]
  BY <1>1, <1>2 DEF OwnInv, Fields
<1>6. (Owns(c)' => self'[c] \in linked) /\ node'[c] \in Seen
  BY <1>1, <1>2, Zenon DEF Seen
<1>7. ~Finishing => \A m \in Node : "FINISHED" \notin flags'[m]
  BY <1>5, Zenon DEF QueueInv, Fresh
<1> QED
  BY <1>1, <1>3, <1>4, <1>5, <1>6, <1>7, QueueOutside, Zenon

\* The running task's exit call.
LEMMA QueueExit ==
  ASSUME OwnInv, QueueInv, NEW c \in CPU, Exit(c)
  PROVE  QueueInv'
<1> USE SchedulerAssumption DEF Agent
<1>1. /\ UNCHANGED <<queueVars, live, next, prev, queue_num, linked, entered, node, self, qi, j, pc>>
      /\ pc[c] = "run" /\ self[c] \in Node /\ Finishing
      /\ flags' = [flags EXCEPT ![self[c]] = @ \cup {"FINISHED"}]
  BY Zenon DEF Exit, IsTask, localVars
<1>2. Owns(c) /\ self[c] \in linked /\ self[c] \in live
  BY <1>1, Zenon DEF QueueInv, Members, OwnInv, Owns, IsTask
<1>3. entered
  BY <1>1, Zenon DEF QueueInv, Fresh, Counters
<1>4. Counters'
  BY <1>1, Zenon DEF QueueInv, Counters, queueVars
<1>5. /\ \A m \in Node : "LOCKED" \in flags[m] => "LOCKED" \in flags'[m]
      /\ \A m \in Node \ live : flags'[m] = flags[m]
  BY <1>1, <1>2 DEF OwnInv, Fields
<1>6. (Owns(c)' => self'[c] \in linked) /\ node'[c] \in Seen
  BY <1>1, <1>2, Zenon DEF QueueInv, Visible
<1> QED
  BY <1>1, <1>3, <1>4, <1>5, <1>6, QueueOutside, Zenon

\* An agent that waits for the lock of its node's queue gets it.
LEMMA QueueAcquire ==
  ASSUME OwnInv, QueueInv, NEW a \in Agent, NEW q \in Queue, Acquire(a, q),
         UNCHANGED <<first, num, nodeVars, localVars, self, entered>>,
         \/ a \in CPU /\ Move(a, "spin", "rotate") /\ q = queue_num[self[a]]
         \/ a \in Creator /\ Move(a, "add", "link") /\ q = queue_num[node[a]]
  PROVE  QueueInv'
<1> USE SchedulerAssumption DEF Agent
<1>1. /\ UNCHANGED <<first, num, live, flags, next, prev, queue_num, linked, node, qi, j, self, entered>>
      /\ \A b \in Agent \ {a} : pc'[b] = pc[b]
      /\ \/ a \in CPU /\ pc[a] = "spin" /\ pc'[a] = "rotate" /\ q = queue_num[self[a]]
         \/ a \in Creator /\ pc[a] = "add" /\ pc'[a] = "link" /\ q = queue_num[node[a]]
  BY DEF Move, nodeVars, localVars, OwnInv, Fields
<1>2. /\ owner[q] = Null /\ owner'[q] = a /\ owner' \in [Queue -> Agent \cup {Null}]
      /\ \A r \in Queue \ {q} : owner'[r] = owner[r]
  BY Zenon DEF Acquire, QueueInv, Counters
<1>3. \A d \in CPU : Owns(d)' <=> Owns(d)
  BY <1>1, Zenon DEF Owns
<1>4. \A k \in Creator : Adding(k)' <=> Adding(k)
  BY <1>1, Zenon DEF Adding
<1>5. Counters'
  BY <1>1, <1>2, Zenon DEF QueueInv, Counters
<1>6. \A r \in Queue : owner[r] # a
  BY <1>1 DEF QueueInv, Locks
<1>7. Locks'
  <2>1. ASSUME NEW d \in CPU, pc'[d] \in {"rotate", "leave", "free"}
        PROVE  owner'[queue_num'[self'[d]]] = d
    <3>1. CASE d = a
      BY <1>1, <1>2, <3>1, Zenon
    <3>2. CASE d # a
      <4>1. owner[queue_num[self[d]]] = d /\ queue_num[self[d]] \in Queue
        BY <1>1, <2>1, <3>2 DEF QueueInv, Locks, OwnInv, Fields
      <4> QED
        BY <1>1, <1>2, <4>1, Zenon
    <3> QED
      BY <3>1, <3>2, Zenon
  <2>2. ASSUME NEW k \in Creator, pc'[k] \in {"link", "added"}
        PROVE  owner'[queue_num'[node'[k]]] = k
    <3>1. CASE k = a
      BY <1>1, <1>2, <3>1, Zenon
    <3>2. CASE k # a
      <4>1. owner[queue_num[node[k]]] = k /\ queue_num[node[k]] \in Queue
        BY <1>1, <2>2, <3>2, Zenon DEF QueueInv, Locks, OwnInv, Fields
      <4> QED
        BY <1>1, <1>2, <4>1, Zenon
    <3> QED
      BY <3>1, <3>2, Zenon
  <2>3. \A r \in Queue : owner'[r] \in CPU => pc'[owner'[r]] \in {"rotate", "leave", "free", "unlock"}
    BY <1>1, <1>2, <1>6 DEF QueueInv, Locks
  <2>4. \A r \in Queue : owner'[r] \in Creator => pc'[owner'[r]] \in {"link", "added"}
    BY <1>1, <1>2, <1>6 DEF QueueInv, Locks
  <2>5. \A r, t \in Queue : owner'[r] = owner'[t] => owner'[r] = Null \/ r = t
    BY <1>2, <1>6 DEF QueueInv, Locks
  <2> QED
    BY <2>1, <2>2, <2>3, <2>4, <2>5, Zenon DEF Locks
<1>8. Members'
  BY <1>1, <1>3, <1>4 DEF QueueInv, Members
<1>9. Visible'
  BY <1>1, Zenon DEF QueueInv, Visible, Seen
<1>10. Fresh'
  BY <1>1 DEF QueueInv, Fresh
<1>11. Rings'
  <2>1. \A r \in Queue : Ahead(r)' = Ahead(r)
    BY <1>1, <1>2, <1>6 DEF Ahead
  <2>2. \A d \in CPU : pc'[d] = "leave" => first[queue_num'[self'[d]]] = next'[self'[d]]
    BY <1>1, Zenon DEF QueueInv, Rings
  <2> QED
    BY <1>1, <2>1, <2>2, RingsKept, Zenon DEF QueueInv
<1> QED
  BY <1>5, <1>7, <1>8, <1>9, <1>10, <1>11, Zenon DEF QueueInv

\* An agent that has the lock of q has no other.
LEMMA OneLock ==
  ASSUME Locks, NEW a \in Agent, NEW q \in Queue, owner[q] = a
  PROVE  \A r \in Queue \ {q} : owner[r] # a
  BY SchedulerAssumption, Zenon DEF Locks, Agent

\* The lock of q goes from its owner a, which is done with q.
LEMMA LocksRelease ==
  ASSUME OwnInv, QueueInv, NEW a \in Agent, NEW q \in Queue, owner[q] = a, Release(q),
         \A b \in Agent \ {a} : pc'[b] = pc[b] /\ node'[b] = node[b],
         UNCHANGED <<queue_num, self>>,
         pc'[a] \in {"run", "queue"}
  PROVE  Locks' /\ owner' \in [Queue -> Agent \cup {Null}] /\ owner'[q] = Null
         /\ \A r \in Queue \ {q} : owner'[r] = owner[r] /\ owner[r] # a
<1> USE SchedulerAssumption DEF Agent
<1>1. owner' \in [Queue -> Agent \cup {Null}] /\ owner'[q] = Null
      /\ \A r \in Queue \ {q} : owner'[r] = owner[r] /\ owner[r] # a
  BY OneLock, Zenon DEF Release, QueueInv, Counters
<1>2. ASSUME NEW d \in CPU, pc'[d] \in {"rotate", "leave", "free"}
      PROVE  owner'[queue_num'[self'[d]]] = d
  <2>1. d # a /\ owner[queue_num[self[d]]] = d /\ queue_num[self[d]] \in Queue
    BY <1>2 DEF QueueInv, Locks, OwnInv, Fields
  <2> QED
    BY <1>1, <2>1, Zenon
<1>3. ASSUME NEW k \in Creator, pc'[k] \in {"link", "added"}
      PROVE  owner'[queue_num'[node'[k]]] = k
  <2>1. k # a /\ owner[queue_num[node[k]]] = k /\ queue_num[node[k]] \in Queue
    BY <1>3, Zenon DEF QueueInv, Locks, OwnInv, Fields
  <2> QED
    BY <1>1, <2>1
<1>4. \A r \in Queue : owner'[r] \in CPU => pc'[owner'[r]] \in {"rotate", "leave", "free", "unlock"}
  BY <1>1 DEF QueueInv, Locks
<1>5. \A r \in Queue : owner'[r] \in Creator => pc'[owner'[r]] \in {"link", "added"}
  BY <1>1 DEF QueueInv, Locks
<1>6. \A r, t \in Queue : owner'[r] = owner'[t] => owner'[r] = Null \/ r = t
  BY <1>1 DEF QueueInv, Locks
<1> QED
  BY <1>1, <1>2, <1>3, <1>4, <1>5, <1>6, Zenon DEF Locks

\* The switch gives the lock of the old task's queue back.
LEMMA QueueUnlock ==
  ASSUME OwnInv, QueueInv, NEW c \in CPU, Unlock(c)
  PROVE  QueueInv'
<1> USE SchedulerAssumption DEF Agent
<1>1. /\ UNCHANGED <<first, num, live, flags, next, prev, queue_num, linked, node, qi, j, self, entered>>
      /\ pc[c] = "unlock" /\ pc'[c] = "queue" /\ \A a \in Agent \ {c} : pc'[a] = pc[a]
  BY Zenon DEF Unlock, Move, nodeVars, localVars, OwnInv, Fields
<1>2. PICK q \in Queue : owner[q] = c /\ Release(q)
  BY Zenon DEF Unlock
<1>3. Locks' /\ owner' \in [Queue -> Agent \cup {Null}] /\ owner'[q] = Null
      /\ \A r \in Queue \ {q} : owner'[r] = owner[r] /\ owner[r] # c
  <2>1. \A b \in Agent \ {c} : pc'[b] = pc[b] /\ node'[b] = node[b]
    BY <1>1, Zenon
  <2> QED
    BY <1>1, <1>2, <2>1, LocksRelease
<1>4. \A d \in CPU : Owns(d)' <=> Owns(d)
  BY <1>1, Zenon DEF Owns
<1>5. \A k \in Creator : Adding(k)' <=> Adding(k)
  BY <1>1, Zenon DEF Adding
<1>6. Counters'
  BY <1>1, <1>3, Zenon DEF QueueInv, Counters
<1>7. Members'
  BY <1>1, <1>4, <1>5, Zenon DEF QueueInv, Members
<1>8. Visible' /\ Fresh'
  <2>1. Visible'
    BY <1>1, Zenon DEF QueueInv, Visible, Seen
  <2>2. Fresh'
    BY <1>1, Zenon DEF QueueInv, Fresh
  <2> QED
    BY <2>1, <2>2, Zenon
<1>9. Rings'
  <2>1. \A r \in Queue : Ahead(r)' = Ahead(r)
    BY <1>1, <1>2, <1>3 DEF Ahead
  <2>2. \A d \in CPU : pc'[d] = "leave" => first[queue_num'[self'[d]]] = next'[self'[d]]
    BY <1>1, Zenon DEF QueueInv, Rings
  <2> QED
    BY <1>1, <2>1, <2>2, RingsKept, Zenon DEF QueueInv
<1> QED
  BY <1>3, <1>6, <1>7, <1>8, <1>9, Zenon DEF QueueInv

\* A CPU inside its queue's lock: its node is in the queue until it is
\* dequeued, and no other agent works on the queue.
LEMMA InsideQueue ==
  ASSUME OwnInv, QueueInv, NEW c \in CPU, pc[c] \in {"rotate", "leave", "free"}
  PROVE  /\ Owns(c) /\ self[c] \in Node /\ queue_num[self[c]] \in Queue
         /\ owner[queue_num[self[c]]] = c /\ entered
         /\ pc[c] # "free" => self[c] \in Ring(queue_num[self[c]])
         /\ \A d \in CPU \ {c} : pc[d] = "leave" =>
              self[d] \in Node /\ queue_num[self[d]] \in Queue \ {queue_num[self[c]]}
<1>1. self[c] \in Node /\ queue_num[self[c]] \in Queue /\ Owns(c)
  BY Zenon DEF OwnInv, Fields, Owns, IsTask
<1>2. owner[queue_num[self[c]]] = c /\ entered
  BY Zenon DEF QueueInv, Locks, Fresh, Counters
<1>3. pc[c] # "free" => self[c] \in Ring(queue_num[self[c]])
  BY <1>1, Zenon DEF QueueInv, Members, Ring
<1>4. ASSUME NEW d \in CPU \ {c}, pc[d] = "leave"
      PROVE  self[d] \in Node /\ queue_num[self[d]] \in Queue \ {queue_num[self[c]]}
  <2>1. self[d] \in Node /\ queue_num[self[d]] \in Queue /\ owner[queue_num[self[d]]] = d
    BY <1>4, Zenon DEF OwnInv, Fields, QueueInv, Locks
  <2> QED
    BY <1>2, <2>1, Zenon
<1> QED
  BY <1>1, <1>2, <1>3, <1>4, Zenon

\* The task that was interrupted goes back to the others.
LEMMA QueueYield ==
  ASSUME OwnInv, QueueInv, NEW c \in CPU, Yield(c)
  PROVE  QueueInv'
<1> USE SchedulerAssumption DEF Agent
<1>1. /\ UNCHANGED <<first, num, owner, live, next, prev, queue_num, linked, node, qi, j, self, entered>>
      /\ pc[c] = "leave" /\ pc'[c] = "unlock" /\ \A a \in Agent \ {c} : pc'[a] = pc[a]
      /\ flags' = [flags EXCEPT ![self[c]] = @ \ {"LOCKED"}]
  BY Zenon DEF Yield, Move, queueVars, localVars, OwnInv, Fields
<1>2. Owns(c) /\ self[c] \in linked /\ entered
  BY <1>1, InsideQueue, Zenon DEF Ring
<1>3. \A m \in Node : flags'[m] \subseteq flags[m] /\ (m # self[c] => flags'[m] = flags[m])
  BY <1>1, Zenon DEF OwnInv, Fields
<1>4. Counters'
  BY <1>1, Zenon DEF QueueInv, Counters
<1>5. Locks'
  BY <1>1 DEF QueueInv, Locks
<1>6. Members'
  <2>1. \A d \in CPU : Owns(d)' => Owns(d) /\ pc'[d] = pc[d]
    BY <1>1, Zenon DEF Owns
  <2>2. \A k \in Creator : Adding(k)' <=> Adding(k)
    BY <1>1, Zenon DEF Adding
  <2> QED
    BY <1>1, <2>1, <2>2, Zenon DEF QueueInv, Members
<1>7. Visible'
  <2>1. Seen \subseteq Seen'
    BY <1>1, <1>2, <1>3, Zenon DEF Seen
  <2> QED
    BY <1>1, <2>1, Zenon DEF QueueInv, Visible
<1>8. Fresh'
  BY <1>1, <1>2, <1>3, Zenon DEF QueueInv, Fresh
<1>9. Rings'
  <2>1. \A q \in Queue : Ahead(q)' = Ahead(q)
    BY <1>1, AheadKept, Zenon
  <2>2. \A d \in CPU : pc'[d] = "leave" => first[queue_num'[self'[d]]] = next'[self'[d]]
    BY <1>1, Zenon DEF QueueInv, Rings
  <2> QED
    BY <1>1, <2>1, <2>2, RingsKept, Zenon DEF QueueInv
<1> QED
  BY <1>4, <1>5, <1>6, <1>7, <1>8, <1>9, Zenon DEF QueueInv

\* The ring is turned on by one node.
LEMMA QueueRotate ==
  ASSUME OwnInv, QueueInv, NEW c \in CPU, Rotate(c)
  PROVE  QueueInv'
<1> USE SchedulerAssumption DEF Agent
<1> DEFINE q == queue_num[self[c]]
<1>1. /\ UNCHANGED <<num, owner, live, flags, next, prev, queue_num, linked, node, qi, j, self, entered>>
      /\ pc[c] = "rotate" /\ pc'[c] = "leave" /\ \A a \in Agent \ {c} : pc'[a] = pc[a]
      /\ first' = [first EXCEPT ![q] = next[self[c]]]
  BY Zenon DEF Rotate, Move, nodeVars, localVars, OwnInv, Fields
<1>2. /\ self[c] \in Node /\ q \in Queue /\ self[c] \in Ring(q) /\ entered
      /\ \A d \in CPU \ {c} : pc[d] = "leave" => queue_num[self[d]] \in Queue \ {q}
  BY <1>1, InsideQueue, Zenon
<1>3. first'[q] = next[self[c]] /\ \A r \in Queue \ {q} : first'[r] = first[r]
  BY <1>1, <1>2, Zenon DEF OwnInv, Fields
<1>4. Counters'
  BY <1>1, Zenon DEF QueueInv, Counters
<1>5. Locks'
  BY <1>1 DEF QueueInv, Locks
<1>6. Members'
  <2>1. \A d \in CPU : Owns(d)' <=> Owns(d)
    BY <1>1, Zenon DEF Owns
  <2>2. \A k \in Creator : Adding(k)' <=> Adding(k)
    BY <1>1, Zenon DEF Adding
  <2> QED
    BY <1>1, <2>1, <2>2, Zenon DEF QueueInv, Members
<1>7. Visible'
  <2>1. Seen' = Seen
    BY <1>1, Zenon DEF Seen
  <2> QED
    BY <1>1, <1>2, <1>3, <2>1 DEF QueueInv, Visible
<1>8. Fresh'
  BY <1>1, <1>2, Zenon DEF QueueInv, Fresh
<1>9. Rings'
  <2>1. \A r \in Queue : Ahead(r)' = Ahead(r)
    BY <1>1, AheadKept, Zenon
  <2>2. \A r \in Queue : Ring(r)' = Ring(r)
    BY <1>1, Zenon DEF Ring
  <2>3. next[self[c]] \in Ring(q) /\ Ring(q) # {}
    BY <1>2, Zenon DEF QueueInv, Rings, RingOf
  <2>4. \A r \in Queue : IF Ring(r) = {} THEN first'[r] = Null ELSE first'[r] \in Ring(r)
    BY <1>3, <2>3, Zenon DEF QueueInv, Rings
  <2>5. \A d \in CPU : pc'[d] = "leave" => first'[queue_num[self[d]]] = next[self[d]]
    BY <1>1, <1>2, <1>3 DEF QueueInv, Rings
  <2> QED
    BY <1>1, <2>1, <2>2, <2>4, <2>5 DEF QueueInv, Rings
<1> QED
  BY <1>4, <1>5, <1>6, <1>7, <1>8, <1>9, Zenon DEF QueueInv

\* The new node is counted and the lock given back.
LEMMA QueueAddDone ==
  ASSUME OwnInv, QueueInv, NEW k \in Creator, AddDone(k)
  PROVE  QueueInv'
<1> USE SchedulerAssumption DEF Agent
<1> PICK q : q = queue_num[node[k]]
  OBVIOUS
<1>1. /\ UNCHANGED <<first, live, flags, next, prev, queue_num, linked, qi, j, self, entered>>
      /\ pc[k] = "added" /\ pc'[k] = "run" /\ \A a \in Agent \ {k} : pc'[a] = pc[a]
      /\ \A a \in Agent \ {k} : node'[a] = node[a]
      /\ num' = [num EXCEPT ![q] = @ + 1] /\ Release(q)
  BY Zenon DEF AddDone, Move, nodeVars, localVars, OwnInv, Fields
<1>2. q \in Queue /\ owner[q] = k
  BY <1>1, Zenon DEF QueueInv, Locks, OwnInv, Fields
<1>3. Locks' /\ owner' \in [Queue -> Agent \cup {Null}] /\ owner'[q] = Null
      /\ \A r \in Queue \ {q} : owner'[r] = owner[r] /\ owner[r] # k
  BY <1>1, <1>2, LocksRelease
<1>4. \A d \in CPU : (Owns(d)' <=> Owns(d)) /\ pc'[d] = pc[d]
  BY <1>1, Zenon DEF Owns
<1>5. \A l \in Creator : Adding(l)' => Adding(l) /\ l # k
  BY <1>1, Zenon DEF Adding
<1>6. num'[q] = num[q] + 1 /\ num' \in [Queue -> Int] /\ \A r \in Queue \ {q} : num'[r] = num[r]
  BY <1>1, <1>2 DEF QueueInv, Counters
<1>7. Counters'
  BY <1>1, <1>3, <1>4, <1>6, Zenon DEF QueueInv, Counters
<1>8. Members'
  BY <1>1, <1>4, <1>5 DEF QueueInv, Members
<1>9. Visible' /\ Fresh'
  <2>1. Visible'
    BY <1>1 DEF QueueInv, Visible, Seen
  <2>2. Fresh'
    BY <1>1, <1>4, Zenon DEF QueueInv, Fresh
  <2> QED
    BY <2>1, <2>2, Zenon
<1>10. Rings'
  <2>1. /\ Ahead(q) = -1 /\ Ahead(q)' = 0 /\ \A r \in Queue \ {q} : Ahead(r)' = Ahead(r)
        /\ \A r \in Queue : Ahead(r) \in Int
    <3>1. k \notin CPU /\ Null \notin CPU /\ Null \notin Creator
      OBVIOUS
    <3>2. Ahead(q) = -1
      BY <1>1, <1>2, <3>1, Zenon DEF Ahead
    <3>3. Ahead(q)' = 0
      BY <1>3, <3>1, Zenon DEF Ahead
    <3>4. ASSUME NEW r \in Queue \ {q} PROVE Ahead(r)' = Ahead(r)
      BY <1>1, <1>3, Zenon DEF Ahead
    <3>5. \A r \in Queue : Ahead(r) \in Int
      BY DEF Ahead
    <3> QED
      BY <3>2, <3>3, <3>4, <3>5, Zenon
  <2>2. \A r \in Queue : Ring(r)' = Ring(r)
    BY <1>1, Zenon DEF Ring
  <2>3. ASSUME NEW r \in Queue PROVE num'[r] = Cardinality(Ring(r)) + Ahead(r)'
    <3>1. num[r] = Cardinality(Ring(r)) + Ahead(r) /\ Cardinality(Ring(r)) \in Nat
      BY RingFinite, Zenon DEF QueueInv, Rings
    <3> QED
      BY <1>6, <2>1, <3>1
  <2>4. \A d \in CPU : pc'[d] = "leave" => first[queue_num[self[d]]] = next[self[d]]
    BY <1>4, Zenon DEF QueueInv, Rings
  <2> QED
    BY <1>1, <2>2, <2>3, <2>4 DEF QueueInv, Rings
<1> QED
  BY <1>3, <1>7, <1>8, <1>9, <1>10, Zenon DEF QueueInv

\* free() and the count: the cell is in no queue any more.
LEMMA QueueFree ==
  ASSUME OwnInv, QueueInv, NEW c \in CPU, Free(c)
  PROVE  QueueInv'
<1> USE SchedulerAssumption DEF Agent
<1> PICK n, q : n = self[c] /\ q = queue_num[n]
  OBVIOUS
<1>1. /\ UNCHANGED <<first, owner, flags, prev, queue_num, linked, node, qi, j, self, entered>>
      /\ pc[c] = "free" /\ pc'[c] = "unlock" /\ \A a \in Agent \ {c} : pc'[a] = pc[a]
      /\ num' = [num EXCEPT ![q] = @ - 1] /\ live' = live \ {n}
      /\ \A m \in Node \ {n} : next'[m] = next[m]
      /\ n \in Node => next'[n] \in {next[n], Wild}
  BY DEF Free, Move, localVars, OwnInv, Fields
<1>2. /\ n \in Node /\ q \in Queue /\ owner[q] = c /\ entered /\ Owns(c)
      /\ \A d \in CPU \ {c} : pc[d] = "leave" => self[d] \in Node
  BY <1>1, InsideQueue, Zenon
<1>3. n \notin linked
  BY <1>1, Zenon DEF QueueInv, Members
<1>4. \A d \in CPU : Owns(d)' => Owns(d) /\ d # c
  BY <1>1, Zenon DEF Owns
<1>5. \A l \in Creator : (Adding(l)' <=> Adding(l)) /\ pc'[l] = pc[l]
  BY <1>1, Zenon DEF Adding
<1>6. num'[q] = num[q] - 1 /\ num' \in [Queue -> Int] /\ \A r \in Queue \ {q} : num'[r] = num[r]
  BY <1>1, <1>2 DEF QueueInv, Counters
<1>7. Counters'
  BY <1>1, <1>3, <1>6, Zenon DEF QueueInv, Counters
<1>8. Locks'
  BY <1>1 DEF QueueInv, Locks
<1>9. Members'
  <2>1. \A l \in Creator : Adding(l) => node[l] # n
    BY <1>2, Zenon DEF QueueInv, Members
  <2> QED
    BY <1>1, <1>4, <1>5, <2>1 DEF QueueInv, Members
<1>10. Visible'
  <2>1. Seen' = Seen /\ Wild \in Seen
    BY <1>1, Zenon DEF Seen
  <2> QED
    BY <1>1, <1>2, <2>1, Zenon DEF QueueInv, Visible
<1>11. Fresh'
  BY <1>1, <1>2, Zenon DEF QueueInv, Fresh
<1>12. Rings'
  <2>1. Ahead(q) = 1 /\ Ahead(q)' = 0 /\ \A r \in Queue \ {q} : Ahead(r)' = Ahead(r)
    <3>1. \A r \in Queue \ {q} : owner[r] # c
      BY <1>2, OneLock, Zenon DEF QueueInv
    <3> QED
      BY <1>1, <1>2, <3>1 DEF Ahead
  <2>2. \A r \in Queue : Ring(r)' = Ring(r) /\ RingOf(Ring(r), next', prev')
    <3>1. ASSUME NEW r \in Queue PROVE Ring(r)' = Ring(r) /\ RingOf(Ring(r), next', prev')
      <4>1. Ring(r)' = Ring(r) /\ Ring(r) \subseteq Node \ {n} /\ RingOf(Ring(r), next, prev)
        <5>1. Ring(r)' = Ring(r) /\ Ring(r) \subseteq linked
          BY <1>1, Zenon DEF Ring
        <5>2. linked \subseteq Node
          BY Zenon DEF QueueInv, Counters, OwnInv, Fields
        <5> QED
          BY <1>3, <5>1, <5>2, Zenon DEF QueueInv, Rings
      <4>2. \A m \in Ring(r) : next'[m] = next[m] /\ prev'[m] = prev[m]
        BY <1>1, <4>1, Zenon
      <4> QED
        BY <4>1, <4>2, RingSame, Zenon
    <3> QED
      BY <3>1, Zenon
  <2>3. ASSUME NEW r \in Queue PROVE num'[r] = Cardinality(Ring(r)) + Ahead(r)'
    <3>1. num[r] = Cardinality(Ring(r)) + Ahead(r) /\ Cardinality(Ring(r)) \in Nat /\ Ahead(r) \in Int
      BY RingFinite DEF QueueInv, Rings, Ahead
    <3> QED
      BY <1>6, <2>1, <3>1
  <2>4. ASSUME NEW d \in CPU, pc'[d] = "leave" PROVE first[queue_num[self[d]]] = next'[self[d]]
    <3>1. d # c /\ pc[d] = "leave" /\ self[d] \in linked
      BY <1>1, <2>4, InsideQueue, Zenon DEF Ring
    <3>2. self[d] \in Node \ {n}
      BY <1>3, <3>1, Zenon DEF QueueInv, Counters, OwnInv, Fields
    <3> QED
      BY <1>1, <3>1, <3>2, Zenon DEF QueueInv, Rings
  <2> QED
    BY <1>1, <2>2, <2>3, <2>4 DEF QueueInv, Rings
<1> QED
  BY <1>7, <1>8, <1>9, <1>10, <1>11, <1>12, Zenon DEF QueueInv
=============================================================================
