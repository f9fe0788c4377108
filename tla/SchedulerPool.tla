--------------------------- MODULE SchedulerPool ---------------------------
(***************************************************************************)
(* The queues stay rings that lose no task, and the scheduler implements   *)
(* the task pool, for any number of CPUs, creators, nodes and queues, as   *)
(* long as no task is added while others exit (SchedulerQueues).           *)
(***************************************************************************)
EXTENDS SchedulerQueues

\* A step of agent a on queue q, whose lock it has, that changes first and the
\* pointers of nodes of q or of node n only: the other queues are as they were.
LEMMA OtherRings ==
  ASSUME OwnInv, QueueInv, NEW q \in Queue, NEW n \in Node,
         UNCHANGED <<queue_num, num, owner>>,
         \A m \in Node \ {n} : m \in linked' <=> m \in linked,
         n \in linked' \cup linked => queue_num[n] = q, linked' \subseteq Node,
         \A r \in Queue \ {q} : first'[r] = first[r],
         \A m \in Node \ {n} : m \notin Ring(q) => next'[m] = next[m] /\ prev'[m] = prev[m],
         NEW r \in Queue \ {q}, Ahead(r)' = Ahead(r)
  PROVE  /\ Ring(r)' = Ring(r) /\ RingOf(Ring(r)', next', prev')
         /\ IF Ring(r)' = {} THEN first'[r] = Null ELSE first'[r] \in Ring(r)'
         /\ num'[r] = Cardinality(Ring(r)') + Ahead(r)'
<1>1. linked \subseteq Node
  BY Zenon DEF QueueInv, Counters, OwnInv, Fields
<1>2. Ring(r)' = Ring(r)
  BY <1>1, Zenon DEF Ring
<1>3. \A m \in Ring(r) : m \in Node \ {n} /\ m \notin Ring(q)
  BY <1>1, Zenon DEF Ring
<1>4. \A m \in Ring(r) : next'[m] = next[m] /\ prev'[m] = prev[m]
  BY <1>3, Zenon
<1>5. RingOf(Ring(r), next', prev')
  BY <1>4, RingSame DEF QueueInv, Rings
<1> QED
  BY <1>2, <1>5, Zenon DEF QueueInv, Rings

\* A new node is linked into its queue.
LEMMA QueueAddLink ==
  ASSUME OwnInv, QueueInv, NEW k \in Creator, AddLink(k)
  PROVE  QueueInv'
<1> USE SchedulerAssumption DEF Agent
<1> PICK n, q, f : n = node[k] /\ q = queue_num[n] /\ f = first[q]
  OBVIOUS
<1>1. /\ UNCHANGED <<num, owner, live, flags, queue_num, node, qi, j, self, entered>>
      /\ pc[k] = "link" /\ pc'[k] = "added" /\ \A a \in Agent \ {k} : pc'[a] = pc[a]
      /\ linked' = linked \cup {n}
  BY Zenon DEF AddLink, Move, localVars, OwnInv, Fields
<1>2. n \in Node /\ q \in Queue /\ owner[q] = k /\ n \in live /\ n \notin linked
  BY <1>1, Zenon DEF QueueInv, Locks, Members, Adding, OwnInv, Fields
<1>3. \A d \in CPU : (Owns(d)' <=> Owns(d)) /\ pc'[d] = pc[d]
  BY <1>1, Zenon DEF Owns
<1>4. \A l \in Creator : Adding(l)' => Adding(l) /\ node[l] # n
  BY <1>1, Zenon DEF QueueInv, Members, Adding
<1>5. Counters'
  <2>1. IsFiniteSet(linked \cup {n})
    BY FS_AddElement, Zenon DEF QueueInv, Counters
  <2> QED
    BY <1>1, <1>2, <1>3, <2>1, Zenon DEF QueueInv, Counters
<1>6. Locks'
  BY <1>1, Zenon DEF QueueInv, Locks
<1>7. Members'
  <2>1. \A d \in CPU : Owns(d) => self[d] # n
    BY <1>1, Zenon DEF QueueInv, Members, Adding
  <2>2. \A d \in CPU : pc[d] = "free" => Owns(d)
    BY Zenon DEF OwnInv, Owns, IsTask
  <2> QED
    BY <1>1, <1>2, <1>3, <1>4, <2>1, <2>2 DEF QueueInv, Members
<1>8. Fresh'
  BY <1>1, <1>3, Zenon DEF QueueInv, Fresh
<1>9. Ahead(q) = 0 /\ Ahead(q)' = -1 /\ \A r \in Queue \ {q} : Ahead(r)' = Ahead(r)
  <2>1. \A r \in Queue \ {q} : owner[r] # k
    BY <1>2, OneLock, Zenon DEF QueueInv
  <2> QED
    BY <1>1, <1>2, <2>1 DEF Ahead
<1>10. Ring(q)' = Ring(q) \cup {n} /\ n \notin Ring(q)
  BY <1>1, <1>2, Zenon DEF Ring
<1>11. num[q] = Cardinality(Ring(q)) /\ Cardinality(Ring(q)) \in Nat /\ IsFiniteSet(Ring(q))
  BY <1>2, <1>9, RingFinite DEF QueueInv, Rings
<1>12. num'[q] = Cardinality(Ring(q)') + Ahead(q)'
  <2>1. Cardinality(Ring(q) \cup {n}) = Cardinality(Ring(q)) + 1
    BY <1>10, <1>11, FS_AddElement, Zenon
  <2> QED
    BY <1>1, <1>9, <1>10, <1>11, <2>1
<1>13. /\ RingOf(Ring(q)', next', prev') /\ first'[q] \in Ring(q)'
       /\ \A r \in Queue \ {q} : first'[r] = first[r]
       /\ \A m \in Node \ {n} : m \notin Ring(q) => next'[m] = next[m] /\ prev'[m] = prev[m]
       /\ \A m \in Node : next'[m] \in {next[m], n, f} /\ first'[q] \in {f, n}
  <2>1. CASE /\ num[q] = 0 /\ first' = [first EXCEPT ![q] = n]
             /\ prev' = [prev EXCEPT ![n] = n] /\ next' = [next EXCEPT ![n] = n]
    <3>1. Ring(q)' = {n}
      BY <1>10, <1>11, <2>1, FS_EmptySet, Zenon
    <3>2. /\ first'[q] = n /\ \A r \in Queue \ {q} : first'[r] = first[r]
          /\ next'[n] = n /\ prev'[n] = n
          /\ \A m \in Node \ {n} : next'[m] = next[m] /\ prev'[m] = prev[m]
      BY <1>2, <2>1 DEF OwnInv, Fields
    <3>3. RingOf({n}, next', prev')
      BY <3>2, RingSingle, Zenon
    <3> QED
      BY <3>1, <3>2, <3>3, Zenon
  <2>2. CASE /\ num[q] # 0 /\ f \in Node /\ prev[f] \in Node
             /\ prev' = [prev EXCEPT ![n] = prev[f], ![f] = n]
             /\ next' = [next EXCEPT ![n] = f, ![prev[f]] = n]
             /\ UNCHANGED first
    <3>1. Ring(q) # {} /\ f \in Ring(q) /\ RingOf(Ring(q), next, prev)
      BY <1>2, <1>11, <2>2, FS_EmptySet, Zenon DEF QueueInv, Rings
    <3>2. prev[f] \in Ring(q) /\ prev[f] # n /\ f # n /\ Ring(q) \subseteq Node
      BY <1>1, <1>10, <3>1, Zenon DEF RingOf, Ring, QueueInv, Counters, OwnInv, Fields
    <3>3. /\ next'[n] = f /\ next'[prev[f]] = n
          /\ \A m \in Node \ {n, prev[f]} : next'[m] = next[m]
          /\ prev'[n] = prev[f] /\ prev'[f] = n
          /\ \A m \in Node \ {n, f} : prev'[m] = prev[m]
      BY <1>2, <2>2, <3>2 DEF OwnInv, Fields
    <3>4. RingOf(Ring(q) \cup {n}, next', prev')
      <4>1. /\ \A m \in Ring(q) \ {prev[f]} : next'[m] = next[m]
            /\ \A m \in Ring(q) \ {f} : prev'[m] = prev[m]
        BY <1>10, <3>2, <3>3, Zenon
      <4> QED
        BY <1>10, <3>1, <3>3, <4>1, RingInsert
    <3>5. \A m \in Node \ {n} : m \notin Ring(q) => next'[m] = next[m] /\ prev'[m] = prev[m]
      BY <3>1, <3>2, <3>3, Zenon
    <3>6. \A m \in Node : next'[m] \in {next[m], n, f}
      BY <3>3, Zenon
    <3> QED
      BY <1>10, <2>2, <3>1, <3>4, <3>5, <3>6, Zenon
  <2> QED
    BY <2>1, <2>2, Zenon DEF AddLink, Enqueue
<1>14. Visible'
  <2>1. Seen \subseteq Seen' /\ n \in Seen' /\ f \in Seen
    BY <1>1, <1>2, Zenon DEF Seen, QueueInv, Visible
  <2> QED
    BY <1>1, <1>2, <1>13, <2>1 DEF QueueInv, Visible
<1>15. Rings'
  <2>1. n \in linked' \cup linked => queue_num[n] = q
    OBVIOUS
  <2>2. ASSUME NEW r \in Queue \ {q}
        PROVE  /\ Ring(r)' = Ring(r) /\ RingOf(Ring(r)', next', prev')
               /\ IF Ring(r)' = {} THEN first'[r] = Null ELSE first'[r] \in Ring(r)'
               /\ num'[r] = Cardinality(Ring(r)') + Ahead(r)'
    <3>1. linked' \subseteq Node /\ \A m \in Node \ {n} : m \in linked' <=> m \in linked
      BY <1>1, <1>2, Zenon DEF QueueInv, Counters, OwnInv, Fields
    <3> QED
      BY <1>1, <1>2, <1>9, <1>13, <2>1, <3>1, OtherRings
  <2>3. ASSUME NEW d \in CPU, pc'[d] = "leave" PROVE first'[queue_num[self[d]]] = next'[self[d]]
    <3>1. pc[d] = "leave" /\ self[d] \in Ring(queue_num[self[d]]) /\ queue_num[self[d]] \in Queue \ {q}
      BY <1>2, <1>3, <2>3, InsideQueue
    <3>2. self[d] \in Node \ {n} /\ self[d] \notin Ring(q)
      BY <1>2, <3>1, Zenon DEF Ring, QueueInv, Counters, OwnInv, Fields
    <3> QED
      BY <1>13, <3>1, <3>2, Zenon DEF QueueInv, Rings
  <2>4. Ring(q)' # {}
    BY <1>10, Zenon
  <2> QED
    BY <1>1, <1>12, <1>13, <2>2, <2>3, <2>4, Zenon DEF Rings
<1> QED
  BY <1>5, <1>6, <1>7, <1>8, <1>14, <1>15, Zenon DEF QueueInv

\* A finished task's node is taken out of its queue.
LEMMA QueueDequeue ==
  ASSUME OwnInv, QueueInv, NEW c \in CPU, Dequeue(c)
  PROVE  QueueInv'
<1> USE SchedulerAssumption DEF Agent
<1> PICK n, q : n = self[c] /\ q = queue_num[n]
  OBVIOUS
<1>1. /\ UNCHANGED <<num, owner, live, flags, queue_num, node, qi, j, self, entered>>
      /\ pc[c] = "leave" /\ pc'[c] = "free" /\ \A a \in Agent \ {c} : pc'[a] = pc[a]
      /\ linked' = linked \ {n} /\ "FINISHED" \in flags[n]
  BY Zenon DEF Dequeue, Move, localVars, OwnInv, Fields
<1>2. /\ n \in Node /\ q \in Queue /\ n \in Ring(q) /\ n \in linked /\ owner[q] = c /\ entered /\ Owns(c)
      /\ \A d \in CPU \ {c} : pc[d] = "leave" => self[d] \in Node /\ queue_num[self[d]] \in Queue \ {q}
  BY <1>1, InsideQueue, Zenon DEF Ring
<1>3. Finishing /\ "LOCKED" \in flags[n]
  BY <1>1, <1>2, Zenon DEF QueueInv, Fresh, OwnInv
<1>4. \A d \in CPU : (Owns(d)' <=> Owns(d)) /\ (Owns(d) /\ d # c => self[d] # n)
  BY <1>1, <1>2, Zenon DEF Owns, OwnInv
<1>5. \A l \in Creator : (Adding(l)' <=> Adding(l)) /\ pc'[l] = pc[l]
  BY <1>1, Zenon DEF Adding
<1>6. Counters'
  <2>1. IsFiniteSet(linked \ {n})
    BY FS_RemoveElement, Zenon DEF QueueInv, Counters
  <2> QED
    BY <1>1, <2>1, Zenon DEF QueueInv, Counters
<1>7. Locks'
  BY <1>1 DEF QueueInv, Locks
<1>8. Members'
  <2>1. \A l \in Creator : pc[l] = "added" => node[l] # n
    BY <1>2 DEF QueueInv, Locks
  <2> QED
    BY <1>1, <1>4, <1>5, <2>1, Zenon DEF QueueInv, Members
<1>9. Fresh'
  BY <1>1, <1>2, <1>3, Zenon DEF QueueInv, Fresh
<1>10. Ahead(q) = 0 /\ Ahead(q)' = 1 /\ \A r \in Queue \ {q} : Ahead(r)' = Ahead(r)
  <2>1. \A r \in Queue \ {q} : owner[r] # c
    BY <1>2, OneLock, Zenon DEF QueueInv
  <2> QED
    BY <1>1, <1>2, <2>1 DEF Ahead
<1>11. Ring(q)' = Ring(q) \ {n}
  BY <1>1, Zenon DEF Ring
<1>12. num[q] = Cardinality(Ring(q)) /\ Cardinality(Ring(q)) \in Nat /\ IsFiniteSet(Ring(q))
  BY <1>2, <1>10, RingFinite DEF QueueInv, Rings
<1>13. num'[q] = Cardinality(Ring(q)') + Ahead(q)'
  <2>1. Cardinality(Ring(q) \ {n}) = Cardinality(Ring(q)) - 1
    BY <1>2, <1>12, FS_RemoveElement, Zenon
  <2> QED
    BY <1>1, <1>10, <1>11, <1>12, <2>1
<1>14. RingOf(Ring(q), next, prev) /\ next[n] \in Ring(q) /\ prev[n] \in Ring(q) /\ first[q] = next[n]
       /\ Ring(q) \subseteq Node
  <2>1. RingOf(Ring(q), next, prev)
    BY <1>2, Zenon DEF QueueInv, Rings
  <2>2. next[n] \in Ring(q) /\ prev[n] \in Ring(q)
    BY <1>2, <2>1, Zenon DEF RingOf
  <2>3. first[q] = next[n]
    BY <1>1, <1>2, Zenon DEF QueueInv, Rings
  <2>4. Ring(q) \subseteq Node
    BY Zenon DEF Ring, QueueInv, Counters, OwnInv, Fields
  <2> QED
    BY <2>1, <2>2, <2>3, <2>4, Zenon
<1>15. /\ RingOf(Ring(q)', next', prev')
       /\ IF Ring(q)' = {} THEN first'[q] = Null ELSE first'[q] \in Ring(q)'
       /\ \A r \in Queue \ {q} : first'[r] = first[r]
       /\ \A m \in Node \ {n} : m \notin Ring(q) => next'[m] = next[m] /\ prev'[m] = prev[m]
       /\ \A m \in Node : next'[m] \in {next[m], next[n]} /\ first'[q] \in {first[q], Null}
  <2>1. CASE num[q] <= 1 /\ first' = [first EXCEPT ![q] = Null] /\ UNCHANGED <<next, prev>>
    <3>1. Ring(q) = {n}
      <4>1. Cardinality(Ring(q)) = 1
        BY <1>2, <1>12, <2>1, FS_EmptySet
      <4> QED
        BY <1>2, <1>12, <4>1, FS_Singleton
    <3>2. Ring(q)' = {} /\ RingOf({}, next', prev')
      BY <1>11, <3>1, Zenon DEF RingOf
    <3>3. first'[q] = Null /\ \A r \in Queue \ {q} : first'[r] = first[r]
      BY <1>2, <2>1, Zenon DEF OwnInv, Fields
    <3> QED
      BY <2>1, <3>2, <3>3, Zenon
  <2>2. CASE /\ num[q] > 1 /\ {next[n], prev[n]} \subseteq Node
             /\ prev' = [prev EXCEPT ![next[n]] = prev[n]]
             /\ next' = [next EXCEPT ![prev[n]] = next[n]]
             /\ UNCHANGED first
    <3>1. next[n] # n
      <4>1. SUFFICES ASSUME next[n] = n PROVE FALSE
        OBVIOUS
      <4>2. Ring(q) = {n}
        BY <1>2, <1>14, <4>1, RingAlone
      <4> QED
        BY <1>12, <2>2, <4>2, FS_Singleton
    <3>2. /\ next'[prev[n]] = next[n] /\ \A m \in Node \ {prev[n]} : next'[m] = next[m]
          /\ prev'[next[n]] = prev[n] /\ \A m \in Node \ {next[n]} : prev'[m] = prev[m]
      BY <2>2 DEF OwnInv, Fields
    <3>3. RingOf(Ring(q) \ {n}, next', prev')
      <4>1. /\ \A m \in Ring(q) \ {prev[n]} : next'[m] = next[m]
            /\ \A m \in Ring(q) \ {next[n]} : prev'[m] = prev[m]
        BY <1>14, <3>2, Zenon
      <4> QED
        BY <1>2, <1>14, <3>1, <3>2, <4>1, RingRemove
    <3> QED
      BY <1>11, <1>14, <2>2, <3>1, <3>2, <3>3, Zenon
  <2> QED
    BY <2>1, <2>2, Zenon DEF Dequeue
<1>16. Visible'
  <2>1. Seen \subseteq Seen' /\ Null \in Seen'
    BY <1>1, <1>2, <1>3, Zenon DEF Seen
  <2> QED
    BY <1>1, <1>2, <1>15, <2>1 DEF QueueInv, Visible
<1>17. Rings'
  <2>1. n \in linked' \cup linked => queue_num[n] = q
    OBVIOUS
  <2>2. ASSUME NEW r \in Queue \ {q}
        PROVE  /\ Ring(r)' = Ring(r) /\ RingOf(Ring(r)', next', prev')
               /\ IF Ring(r)' = {} THEN first'[r] = Null ELSE first'[r] \in Ring(r)'
               /\ num'[r] = Cardinality(Ring(r)') + Ahead(r)'
    <3>1. linked' \subseteq Node /\ \A m \in Node \ {n} : m \in linked' <=> m \in linked
      BY <1>1, <1>2, Zenon DEF QueueInv, Counters, OwnInv, Fields
    <3> QED
      BY <1>1, <1>2, <1>10, <1>15, <2>1, <3>1, OtherRings
  <2>3. ASSUME NEW d \in CPU, pc'[d] = "leave" PROVE first'[queue_num[self[d]]] = next'[self[d]]
    <3>1. d # c /\ pc[d] = "leave" /\ self[d] \in Ring(queue_num[self[d]]) /\ queue_num[self[d]] \in Queue \ {q}
      BY <1>1, <1>2, <2>3, InsideQueue, Zenon
    <3>2. self[d] \in Node \ {n} /\ self[d] \notin Ring(q)
      BY <3>1, Zenon DEF Ring, QueueInv, Counters, OwnInv, Fields
    <3> QED
      BY <1>15, <3>1, <3>2, Zenon DEF QueueInv, Rings
  <2> QED
    BY <1>1, <1>13, <1>15, <2>2, <2>3 DEF Rings
<1> QED
  BY <1>6, <1>7, <1>8, <1>9, <1>16, <1>17, Zenon DEF QueueInv

\* Every step preserves the invariant.
LEMMA QueueStep == NoReuse /\ OwnInv /\ QueueInv /\ [Next]_vars => QueueInv'
<1> SUFFICES ASSUME NoReuse, OwnInv, QueueInv, [Next]_vars PROVE QueueInv'
  OBVIOUS
<1>1. CASE UNCHANGED vars
  <2> USE <1>1 DEF vars, queueVars, nodeVars, localVars, QueueInv
  <2>1. Counters' /\ Locks'
    BY Zenon DEF Counters, Locks
  <2>2. Members'
    BY Zenon DEF Members, Adding, Owns
  <2>3. Visible' /\ Fresh'
    BY Zenon DEF Visible, Seen, Fresh
  <2>4. Rings'
    BY DEF Rings, RingOf, Ring, Ahead
  <2> QED
    BY <2>1, <2>2, <2>3, <2>4, Zenon
<1>2. CASE Enter
  BY <1>2, QueueEnter, Zenon
<1>3. ASSUME NEW c \in CPU, Switch(c) \/ Exit(c) PROVE QueueInv'
  <2>1. CASE Spin(c)
    <3>1. queue_num[self[c]] \in Queue
      BY <2>1, Zenon DEF Spin, Move, OwnInv, Fields
    <3> QED
      BY <2>1, <3>1, QueueAcquire, Zenon DEF Spin, Agent
  <2> QED
    BY <1>3, <2>1, QueueTick, QueueRotate, QueueYield, QueueDequeue, QueueFree, QueueUnlock,
      QueueSearch, QueueGrab, QueueExit, Zenon DEF Switch
<1>4. ASSUME NEW k \in Creator, Add(k) \/ \E n \in Node, q \in Queue : Create(k, n, q)
      PROVE  QueueInv'
  <2>1. CASE AddSpin(k)
    <3>1. queue_num[node[k]] \in Queue
      BY <2>1, Zenon DEF AddSpin, Move, OwnInv, Fields
    <3> QED
      BY <2>1, <3>1, QueueAcquire, Zenon DEF AddSpin, Agent
  <2> QED
    BY <1>4, <2>1, QueueAddLink, QueueAddDone, QueueCreate, Zenon DEF Add
<1> QED
  BY <1>1, <1>2, <1>3, <1>4, Zenon DEF Next

\* The whole invariant holds throughout.
LEMMA AlwaysQueued == NoReuse => (Spec => [](OwnInv /\ QueueInv))
<1> SUFFICES ASSUME NoReuse PROVE Spec => [](OwnInv /\ QueueInv)
  OBVIOUS
<1>1. Init => OwnInv /\ QueueInv
  BY OwnInit, QueueInit, Zenon
<1>2. QueueInv => QueueIndex
  BY SchedulerAssumption DEF QueueInv, Counters, QueueIndex
<1>3. OwnInv /\ QueueInv /\ [Next]_vars => (OwnInv /\ QueueInv)'
  BY <1>2, OwnStep, QueueStep, Zenon
<1> QED
  BY <1>1, <1>3, PTL DEF Spec
-----------------------------------------------------------------------------
(* What the invariant gives. *)

\* The variables keep their types for any number of CPUs, creators, nodes and
\* queues: num of a queue, which the switch decrements after the node has left
\* the ring and the creator increments after it has come, never wraps below
\* zero, and the search never looks beyond the last queue.
THEOREM SchedulerTyped == NoReuse => (Spec => []TypeOK)
<1>1. OwnInv /\ QueueInv => TypeOK
  <2> SUFFICES ASSUME OwnInv, QueueInv PROVE TypeOK
    OBVIOUS
  <2> USE SchedulerAssumption DEF Agent
  <2>1. ASSUME NEW q \in Queue PROVE num[q] \in Nat
    <3>1. num[q] = Cardinality(Ring(q)) + Ahead(q) /\ Cardinality(Ring(q)) \in Nat /\ IsFiniteSet(Ring(q))
      BY RingFinite, Zenon DEF QueueInv, Rings
    <3>2. CASE Ahead(q) \in Nat
      BY <3>1, <3>2
    <3>3. CASE owner[q] \in Creator /\ pc[owner[q]] = "added" /\ Ahead(q) = -1
      <4>1. PICK k \in Creator : k = owner[q]
        BY <3>3, Zenon
      <4>2. node[k] \in linked /\ owner[queue_num[node[k]]] = k /\ queue_num[node[k]] \in Queue
        BY <3>3, <4>1, Zenon DEF QueueInv, Members, Locks, OwnInv, Fields
      <4>3. queue_num[node[k]] = q
        BY <4>1, <4>2 DEF QueueInv, Locks
      <4>4. Ring(q) # {}
        BY <4>2, <4>3, Zenon DEF Ring
      <4>5. Cardinality(Ring(q)) # 0
        BY <3>1, <4>4, FS_EmptySet, Zenon
      <4> QED
        BY <3>1, <3>3, <4>5
    <3> QED
      BY <3>2, <3>3, Zenon DEF Ahead
  <2>2. num \in [Queue -> Nat]
    BY <2>1, Zenon DEF QueueInv, Counters
  <2> QED
    BY <2>2, Zenon DEF TypeOK, OwnInv, Fields, QueueInv, Counters
<1> QED
  BY <1>1, AlwaysQueued, PTL

\* Every queue is one ring of the tasks that were added to it and have not been
\* dequeued, and num counts them whenever the queue is unlocked, for any number
\* of CPUs that rotate, search and leave the queues and any number of creators.
THEOREM QueuesAreRings == NoReuse => (Spec => []RingIntact)
<1>1. OwnInv /\ QueueInv => RingIntact
  <2> SUFFICES ASSUME QueueInv, NEW q \in Queue
               PROVE  /\ \A n \in Ring(q) : /\ {next[n], prev[n]} \subseteq Ring(q)
                                            /\ prev[next[n]] = n /\ next[prev[n]] = n
                      /\ \A S \in (SUBSET Ring(q)) \ {{}} :
                           (\A n \in S : next[n] \in S) => S = Ring(q)
                      /\ IF Ring(q) = {} THEN first[q] = Null ELSE first[q] \in Ring(q)
                      /\ owner[q] = Null => num[q] = Cardinality(Ring(q))
    BY Zenon DEF RingIntact
  <2>1. RingOf(Ring(q), next, prev)
    BY Zenon DEF QueueInv, Rings
  <2>2. owner[q] = Null => num[q] = Cardinality(Ring(q))
    <3>1. SUFFICES ASSUME owner[q] = Null PROVE num[q] = Cardinality(Ring(q))
      OBVIOUS
    <3>2. Ahead(q) = 0
      BY <3>1, SchedulerAssumption, Zenon DEF Ahead, Agent
    <3> QED
      BY <3>2, RingFinite DEF QueueInv, Rings
  <2>3. \A n \in Ring(q) : /\ {next[n], prev[n]} \subseteq Ring(q)
                           /\ prev[next[n]] = n /\ next[prev[n]] = n
    BY <2>1, Zenon DEF RingOf
  <2>4. ASSUME NEW S \in (SUBSET Ring(q)) \ {{}}, \A n \in S : next[n] \in S
        PROVE  S = Ring(q)
    BY <2>1, <2>4, Zenon DEF RingOf
  <2> QED
    BY <2>2, <2>3, <2>4, Zenon DEF QueueInv, Rings
<1> QED
  BY <1>1, AlwaysQueued, PTL

-----------------------------------------------------------------------------
(* The refinement of the task pool. *)

\* The task pool's variables.
PoolRunning == [c \in CPU |-> Running(c)]
PoolReady == linked \ {Running(c) : c \in CPU}

\* A CPU's task is in a queue, locked, and no other CPU's.
LEMMA RunningLinked ==
  ASSUME OwnInv, QueueInv, NEW c \in CPU
  PROVE  /\ Running(c) = Null \/ (Running(c) \in linked /\ "LOCKED" \in flags[Running(c)])
         /\ \A d \in CPU \ {c} : Running(c) = Running(d) => Running(c) = Null
<1>1. \A d \in CPU : Running(d) # Null => Owns(d) /\ pc[d] # "free" /\ Running(d) = self[d]
  BY Zenon DEF Running, Owns
<1> QED
  BY <1>1, Zenon DEF OwnInv, QueueInv, Members

\* Steps that leave every CPU its task.
LEMMA PoolStutter ==
  ASSUME \A c \in CPU : Running(c)' = Running(c)
  PROVE  PoolRunning' = PoolRunning /\ (linked' = linked => PoolReady' = PoolReady)
  BY Zenon DEF PoolRunning, PoolReady

\* A step of CPU c that no other CPU's task depends on.
LEMMA RunningOthers ==
  ASSUME NEW c \in CPU, \A d \in CPU \ {c} : pc'[d] = pc[d] /\ self'[d] = self[d]
  PROVE  /\ \A d \in CPU \ {c} : Running(d)' = Running(d)
         /\ PoolRunning' = [PoolRunning EXCEPT ![c] = Running(c)']
<1>1. \A d \in CPU \ {c} : Running(d)' = Running(d)
  BY Zenon DEF Running
<1> QED
  BY <1>1, Zenon DEF PoolRunning

\* Steps of CPUs that are steps of the pool.
LEMMA PoolSwitch ==
  ASSUME OwnInv, QueueInv, NEW c \in CPU, Switch(c) \/ Exit(c)
  PROVE  \/ PoolRunning' = PoolRunning /\ PoolReady' = PoolReady
         \/ /\ PoolRunning[c] # Null
            /\ PoolReady' = PoolReady \cup {PoolRunning[c]}
            /\ PoolRunning' = [PoolRunning EXCEPT ![c] = Null]
         \/ /\ PoolRunning[c] # Null
            /\ PoolReady' = PoolReady
            /\ PoolRunning' = [PoolRunning EXCEPT ![c] = Null]
         \/ \E t \in Node : /\ PoolRunning[c] = Null /\ t \in PoolReady
                            /\ PoolReady' = PoolReady \ {t}
                            /\ PoolRunning' = [PoolRunning EXCEPT ![c] = t]
<1> USE SchedulerAssumption DEF Agent
<1>1. \A d \in CPU \ {c} : pc'[d] = pc[d] /\ self'[d] = self[d]
  <2> USE DEF Move, OwnInv, Fields
  <2>1. CASE Exit(c) \/ Tick(c) \/ Rotate(c) \/ Yield(c)
    BY <2>1, Zenon DEF Exit, Tick, Rotate, Yield
  <2>2. CASE Spin(c) \/ Dequeue(c) \/ Free(c) \/ Unlock(c)
    BY <2>2, Zenon DEF Spin, Dequeue, Free, Unlock
  <2>3. CASE Search(c) \/ Grab(c)
    BY <2>3, Zenon DEF Search, Grab
  <2>4. CASE Test(c) \/ Pass(c) \/ Advance(c)
    BY <2>4, Zenon DEF Test, Pass, Advance
  <2> QED BY <2>1, <2>2, <2>3, <2>4, Zenon DEF Switch
<1>2. /\ \A d \in CPU \ {c} : Running(d)' = Running(d)
      /\ PoolRunning' = [PoolRunning EXCEPT ![c] = Running(c)']
      /\ PoolRunning[c] = Running(c)
  BY <1>1, RunningOthers, Zenon DEF PoolRunning
<1>3. /\ \A d \in CPU : Running(d) = Null \/ (Running(d) \in linked /\ "LOCKED" \in flags[Running(d)])
      /\ \A d \in CPU \ {c} : Running(c) = Running(d) => Running(c) = Null
  BY RunningLinked, Zenon
<1>4. linked \subseteq Node /\ Null \notin linked
  BY Zenon DEF QueueInv, Counters, OwnInv, Fields
<1>5. CASE Tick(c) \/ Spin(c) \/ Rotate(c) \/ Free(c) \/ Unlock(c) \/ Search(c) \/ Test(c)
           \/ Pass(c) \/ Advance(c) \/ Exit(c)
  <2>1. linked' = linked
    BY <1>5, Zenon DEF Tick, Spin, Rotate, Free, Unlock, Search, Test, Pass, Advance, Exit, nodeVars
  <2>2. Running(c)' = Running(c)
    <3>1. CASE Search(c)
      BY <3>1 DEF Search, Move, Running, IsTask, OwnInv, Fields
    <3>2. CASE Tick(c)
      BY <3>2, Zenon DEF Tick, Move, Running, IsTask, OwnInv, Fields
    <3>3. CASE Spin(c) \/ Rotate(c) \/ Free(c)
      BY <3>3 DEF Spin, Rotate, Free, Move, Running, IsTask, OwnInv, Fields
    <3>4. CASE Unlock(c) \/ Test(c) \/ Pass(c) \/ Advance(c) \/ Exit(c)
      BY <3>4 DEF Unlock, Test, Pass, Advance, Exit, Move, Running, IsTask, OwnInv, Fields
    <3> QED
      BY <1>5, <3>1, <3>2, <3>3, <3>4, Zenon
  <2> QED
    BY <1>2, <2>1, <2>2, PoolStutter, Zenon
<1>6. CASE Yield(c)
  <2>1. linked' = linked /\ Running(c)' = Null /\ Running(c) = self[c] /\ self[c] \in Node
    BY <1>6, Zenon DEF Yield, Move, Running, IsTask, OwnInv, Fields
  <2>2. PoolReady' = PoolReady \cup {Running(c)}
    BY <1>2, <1>3, <1>4, <2>1, Zenon DEF PoolReady
  <2> QED
    BY <1>2, <2>1, <2>2, Zenon
<1>7. CASE Dequeue(c)
  <2>1. /\ linked' = linked \ {self[c]} /\ Running(c)' = Null
        /\ Running(c) = self[c] /\ self[c] \in Node
    BY <1>7, Zenon DEF Dequeue, Move, Running, IsTask, OwnInv, Fields
  <2>2. PoolReady' = PoolReady
    BY <1>2, <1>4, <2>1, Zenon DEF PoolReady
  <2> QED
    BY <1>2, <2>1, <2>2, Zenon
<1>8. CASE Grab(c)
  <2> PICK t : t = node[c]
    OBVIOUS
  <2>1. linked' = linked /\ Running(c) = Null /\ "LOCKED" \notin flags[t] /\ t \in linked /\ t \in Node
    BY <1>8, GrabLinked, Zenon DEF Grab, Move, Running
  <2>2. Running(c)' = t
    BY <1>8, <2>1 DEF Grab, Move, Running, IsTask, OwnInv, Fields
  <2>3. t \in PoolReady
    BY <1>3, <2>1, Zenon DEF PoolReady
  <2>4. PoolReady' = PoolReady \ {t}
    BY <1>2, <1>4, <2>1, <2>2 DEF PoolReady
  <2> QED
    BY <1>2, <2>1, <2>2, <2>3, <2>4, Zenon
<1> QED
  BY <1>5, <1>6, <1>7, <1>8 DEF Switch

\* Steps of creators that are steps of the pool.
LEMMA PoolAdd ==
  ASSUME OwnInv, QueueInv, NEW k \in Creator,
         Add(k) \/ \E n \in Node, q \in Queue : Create(k, n, q)
  PROVE  \/ PoolRunning' = PoolRunning /\ PoolReady' = PoolReady
         \/ \E t \in Node : /\ t \notin PoolReady /\ \A c \in CPU : PoolRunning[c] # t
                            /\ PoolReady' = PoolReady \cup {t}
                            /\ PoolRunning' = PoolRunning
<1> USE SchedulerAssumption DEF Agent
<1>1. \A d \in CPU : pc'[d] = pc[d] /\ self'[d] = self[d]
  BY DEF Add, AddSpin, AddLink, AddDone, Create, Move, OwnInv, Fields
<1>2. \A d \in CPU : Running(d)' = Running(d)
  BY <1>1, Zenon DEF Running
<1>3. PoolRunning' = PoolRunning /\ (linked' = linked => PoolReady' = PoolReady)
  BY <1>2, PoolStutter, Zenon
<1>4. CASE AddLink(k)
  <2> PICK t : t = node[k]
    OBVIOUS
  <2>1. t \in Node /\ t \notin linked /\ linked' = linked \cup {t}
    BY <1>4, Zenon DEF AddLink, Move, OwnInv, QueueInv, Members, Adding
  <2>2. \A c \in CPU : Running(c) # t
    BY <2>1, RunningLinked, Zenon
  <2>3. PoolReady' = PoolReady \cup {t} /\ t \notin PoolReady
    BY <1>2, <2>1, <2>2, Zenon DEF PoolReady
  <2>4. \A c \in CPU : PoolRunning[c] # t
    BY <2>2, Zenon DEF PoolRunning
  <2> QED
    BY <1>3, <2>1, <2>3, <2>4, Zenon
<1>5. CASE AddSpin(k) \/ AddDone(k) \/ \E n \in Node, q \in Queue : Create(k, n, q)
  <2>1. linked' = linked
    BY <1>5, Zenon DEF AddSpin, AddDone, Create, nodeVars
  <2> QED
    BY <1>3, <2>1, Zenon
<1> QED
  BY <1>4, <1>5 DEF Add

\* The scheduler implements the task pool, for any number of CPUs, creators,
\* nodes and queues: linking a new node adds its task, the lock on the node's
\* flags dispatches it, the unlock preempts it and the dequeue retires it, and
\* no other step of any CPU or creator changes who runs or who is ready.
THEOREM SchedulerIsPool == NoReuse => (Spec => ImplementsPool)
<1> SUFFICES ASSUME NoReuse PROVE Spec => ImplementsPool
  OBVIOUS
<1>1. Init => Pool!Init
  <2> SUFFICES ASSUME Init PROVE Pool!Init
    OBVIOUS
  <2>1. \A c \in CPU : Running(c) = Null
    BY SchedulerAssumption, Zenon DEF Init, Running, IsTask, Agent
  <2> QED
    BY <2>1, Zenon DEF Init, Pool!Init
<1>2. OwnInv /\ QueueInv /\ [Next]_vars => [Pool!Next]_<<PoolReady, PoolRunning>>
  <2> SUFFICES ASSUME OwnInv, QueueInv, [Next]_vars
               PROVE  Pool!Next \/ (PoolRunning' = PoolRunning /\ PoolReady' = PoolReady)
    OBVIOUS
  <2>1. CASE UNCHANGED vars \/ Enter
    <3>1. linked' = linked /\ \A c \in CPU : Running(c)' = Running(c)
      BY <2>1, Zenon DEF vars, Enter, nodeVars, Running
    <3> QED
      BY <3>1, PoolStutter, Zenon
  <2>2. ASSUME NEW c \in CPU, Switch(c) \/ Exit(c)
        PROVE  Pool!Next \/ (PoolRunning' = PoolRunning /\ PoolReady' = PoolReady)
    <3>1. CASE /\ PoolRunning[c] # Null
               /\ PoolReady' = PoolReady \cup {PoolRunning[c]}
               /\ PoolRunning' = [PoolRunning EXCEPT ![c] = Null]
      <4>1. Pool!Preempt(c)
        BY <3>1, Zenon DEF Pool!Preempt, PoolReady, PoolRunning
      <4> QED
        BY <4>1, Zenon DEF Pool!Next
    <3>2. CASE /\ PoolRunning[c] # Null
               /\ PoolReady' = PoolReady
               /\ PoolRunning' = [PoolRunning EXCEPT ![c] = Null]
      <4>1. Pool!Retire(c)
        BY <3>2, Zenon DEF Pool!Retire, PoolReady, PoolRunning
      <4> QED
        BY <4>1, Zenon DEF Pool!Next
    <3>3. ASSUME NEW t \in Node, PoolRunning[c] = Null, t \in PoolReady, PoolReady' = PoolReady \ {t},
                 PoolRunning' = [PoolRunning EXCEPT ![c] = t]
          PROVE  Pool!Next
      <4>1. Pool!Dispatch(c, t)
        BY <3>3, Zenon DEF Pool!Dispatch, PoolReady, PoolRunning
      <4> QED
        BY <4>1, Zenon DEF Pool!Next
    <3> QED
      BY <2>2, <3>1, <3>2, <3>3, PoolSwitch
  <2>3. ASSUME NEW k \in Creator, Add(k) \/ \E n \in Node, q \in Queue : Create(k, n, q)
        PROVE  Pool!Next \/ (PoolRunning' = PoolRunning /\ PoolReady' = PoolReady)
    <3>1. ASSUME NEW t \in Node, t \notin PoolReady, \A c \in CPU : PoolRunning[c] # t,
                 PoolReady' = PoolReady \cup {t}, PoolRunning' = PoolRunning
          PROVE  Pool!Next
      <4>1. Pool!Add(t)
        BY <3>1, Zenon DEF Pool!Add, PoolReady, PoolRunning
      <4> QED
        BY <4>1, Zenon DEF Pool!Next
    <3> QED
      BY <2>3, <3>1, PoolAdd, Zenon
  <2> QED
    BY <2>1, <2>2, <2>3, Zenon DEF Next
<1> QED
  BY <1>1, <1>2, AlwaysQueued, PTL DEF Spec, ImplementsPool, Pool!Spec, PoolReady, PoolRunning
=============================================================================
