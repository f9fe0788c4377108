------------------------------ MODULE TaskPool ------------------------------
(***************************************************************************)
(* What the scheduler promises: a task that has been added is ready until  *)
(* one CPU takes it; that CPU alone runs it, and either puts it back or    *)
(* retires it for good.                                                    *)
(***************************************************************************)

CONSTANTS CPU, Task, None

VARIABLES ready,    \* tasks waiting for a CPU
          running   \* running[c]: the task on CPU c, or None

Init == ready = {} /\ running = [c \in CPU |-> None]

Add(t) ==
  /\ t \notin ready /\ \A c \in CPU : running[c] # t
  /\ ready' = ready \cup {t}
  /\ UNCHANGED running

Dispatch(c, t) ==
  /\ running[c] = None /\ t \in ready
  /\ ready' = ready \ {t}
  /\ running' = [running EXCEPT ![c] = t]

Preempt(c) ==
  /\ running[c] # None
  /\ ready' = ready \cup {running[c]}
  /\ running' = [running EXCEPT ![c] = None]

Retire(c) ==
  /\ running[c] # None
  /\ running' = [running EXCEPT ![c] = None]
  /\ UNCHANGED ready

Next ==
  \/ \E t \in Task : Add(t)
  \/ \E c \in CPU : Preempt(c) \/ Retire(c) \/ \E t \in Task : Dispatch(c, t)

Spec == Init /\ [][Next]_<<ready, running>>
=============================================================================
