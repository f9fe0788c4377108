---------------------------- MODULE AtomicWord -----------------------------
(***************************************************************************)
(* x86_64/atomic.asm: lock bits packed in one 64-bit word.                 *)
(*                                                                         *)
(* atomic_lock and atomic_spinlock use "lock bts", one indivisible         *)
(* read-modify-write.  atomic_unlock uses "btr" without the lock prefix:   *)
(* the processor loads the word, and later stores it back with the bit     *)
(* cleared; a write of another CPU in between is overwritten.  A "lock     *)
(* bts" that finds the bit set leaves the word as it was, so a spinning or *)
(* refused CPU takes no step here.                                         *)
(*                                                                         *)
(* Users take the bits of a word in a nested fashion: an Entry bit is      *)
(* taken by a CPU that holds none, any other bit only inside, and the      *)
(* Entry bit is given up last (pageframe_request holds REQUEST around      *)
(* pageframe_lock's LOCK; a queue, node or process word has one bit).      *)
(***************************************************************************)

CONSTANTS CPU,      \* the processors
          Bit,      \* the lock bits of the word
          Entry,    \* the bits taken by a CPU that holds none
          NoBit     \* "no unlock in progress"

ASSUME WordAssumption == Entry \subseteq Bit /\ NoBit \notin Bit

VARIABLES word,       \* the bits set in memory
          held,       \* held[c]: bits c has locked and not finished unlocking
          releasing,  \* releasing[c]: the bit c's btr is clearing, or NoBit
          loaded      \* loaded[c]: the word that btr loaded

wordVars == <<word, held, releasing, loaded>>

WordInit ==
  /\ word = {}
  /\ held = [c \in CPU |-> {}]
  /\ releasing = [c \in CPU |-> NoBit]
  /\ loaded = [c \in CPU |-> {}]

-----------------------------------------------------------------------------
(* The instructions. *)

\* Mutant: the test of "lock bts" is ignored.
LockBts_NoTest(c, b) ==
  /\ releasing[c] = NoBit
  /\ word' = word \cup {b}
  /\ held' = [held EXCEPT ![c] = @ \cup {b}]
  /\ UNCHANGED <<releasing, loaded>>

\* atomic_lock returning true, and the last "lock bts" of atomic_spinlock.
LockBts(c, b) ==
  /\ releasing[c] = NoBit
  /\ b \notin word
  /\ word' = word \cup {b}
  /\ held' = [held EXCEPT ![c] = @ \cup {b}]
  /\ UNCHANGED <<releasing, loaded>>

\* atomic_unlock, the load of "btr".
BtrLoad(c, b) ==
  /\ releasing[c] = NoBit
  /\ b \in held[c]
  /\ releasing' = [releasing EXCEPT ![c] = b]
  /\ loaded' = [loaded EXCEPT ![c] = word]
  /\ UNCHANGED <<word, held>>

\* Mutant: the store clears the whole word.
BtrStore_ClearAll(c) ==
  /\ releasing[c] # NoBit
  /\ word' = {}
  /\ held' = [held EXCEPT ![c] = @ \ {releasing[c]}]
  /\ releasing' = [releasing EXCEPT ![c] = NoBit]
  /\ loaded' = [loaded EXCEPT ![c] = {}]

\* atomic_unlock, the store of "btr": the loaded word without the bit.
BtrStore(c) ==
  /\ releasing[c] # NoBit
  /\ word' = loaded[c] \ {releasing[c]}
  /\ held' = [held EXCEPT ![c] = @ \ {releasing[c]}]
  /\ releasing' = [releasing EXCEPT ![c] = NoBit]
  /\ loaded' = [loaded EXCEPT ![c] = {}]

-----------------------------------------------------------------------------
(* The nesting its users follow. *)

Lock(c, b) ==
  /\ b \in Entry <=> held[c] = {}
  /\ LockBts(c, b)

Unlock(c, b) ==
  /\ b \in Entry => held[c] = {b}
  /\ BtrLoad(c, b)

WordNext ==
  \E c \in CPU : BtrStore(c) \/ \E b \in Bit : Lock(c, b) \/ Unlock(c, b)

WordSpec == WordInit /\ [][WordNext]_wordVars

-----------------------------------------------------------------------------
(* Properties. *)

\* The word holds lock bits, and a CPU's unfinished unlock is of a bit it has.
WordTypeOK ==
  /\ word \in SUBSET Bit
  /\ held \in [CPU -> SUBSET Bit]
  /\ releasing \in [CPU -> Bit \cup {NoBit}]
  /\ loaded \in [CPU -> SUBSET Bit]
  /\ \A c \in CPU : releasing[c] # NoBit => releasing[c] \in held[c]

\* No bit is locked by two CPUs: what every user of _pageframe_spinlock,
\* _scheduler_queue_spinlock and _process_spinlock relies on.
MutualExclusion ==
  \A c, d \in CPU : c # d => held[c] \cap held[d] = {}

\* The word in memory is exactly the set of bits some CPU has: no unlock has
\* erased the bit of another CPU, and none has written back a bit that was
\* given up in the meantime (which nobody would ever clear again).
WordIsHeld == word = UNION {held[c] : c \in CPU}

\* Seen through held, the two-step unlock behaves as the indivisible one that
\* atomic.h's users assume.
M == INSTANCE Mutex
ImplementsMutex == M!Spec
=============================================================================
