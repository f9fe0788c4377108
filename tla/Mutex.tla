------------------------------- MODULE Mutex -------------------------------
(***************************************************************************)
(* What x86_64/atomic.h promises of a word whose bits are used as locks:   *)
(* "Locks/unlocks [mutex] (typically flags of a struct) at bit position    *)
(* [bit]".  A bit is taken only while no CPU has it, and the only steps    *)
(* are that one CPU gains one bit or gives up one bit it has.              *)
(***************************************************************************)

CONSTANTS CPU,      \* the processors
          Bit       \* the lock bits of the word

VARIABLE held       \* held[c]: the bits CPU c has locked and not unlocked

Init == held = [c \in CPU |-> {}]

Acquire(c, b) ==
  /\ \A d \in CPU : b \notin held[d]
  /\ held' = [held EXCEPT ![c] = @ \cup {b}]

Release(c, b) ==
  /\ b \in held[c]
  /\ held' = [held EXCEPT ![c] = @ \ {b}]

Next == \E c \in CPU, b \in Bit : Acquire(c, b) \/ Release(c, b)

Spec == Init /\ [][Next]_held
=============================================================================
