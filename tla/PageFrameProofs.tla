-------------------------- MODULE PageFrameProofs --------------------------
(***************************************************************************)
(* First the lock word: when the two-step unlock of x86_64/atomic.asm is   *)
(* safe, for any number of CPUs and bits: when one bit of the word guards  *)
(* all the others, or when only one CPU uses the word.                     *)
(*                                                                         *)
(* Then the page-frame allocator for any number of CPUs, any memory map    *)
(* and any size of request: its variables keep their types whatever is     *)
(* called.  Then the invariant of CPUs that only request frames, and what  *)
(* a step of theirs does to s_mutex, to the other CPUs and to the bitmap;  *)
(* PageFrameRequests concludes from it.                                    *)
(***************************************************************************)
EXTENDS PageFrame, TLAPS

-----------------------------------------------------------------------------
(* The lock word. *)

\* The condition: all CPUs enter through the same bit, or there is one CPU.
SingleEntry == (\A a, b \in Entry : a = b) \/ (\A c, d \in CPU : c = d)

\* The inductive invariant.  At most one CPU has bits at a time; the word is
\* what it has, its entry bit among them; and nothing has changed the word
\* since an unlock in progress loaded it.
Nested ==
  /\ WordTypeOK
  /\ \A c \in CPU : held[c] # {} => held[c] = word /\ held[c] \cap Entry # {}
  /\ \A c, d \in CPU : held[c] # {} /\ held[d] # {} => c = d
  /\ word # {} => \E c \in CPU : held[c] # {}
  /\ \A c \in CPU : releasing[c] # NoBit =>
       /\ loaded[c] = word
       /\ releasing[c] \in Entry => held[c] = {releasing[c]}

\* A CPU's view of the word follows from the invariant.
LEMMA NestedImplies == Nested => MutualExclusion /\ WordIsHeld
<1> SUFFICES ASSUME Nested PROVE MutualExclusion /\ WordIsHeld
  OBVIOUS
<1>1. MutualExclusion
  BY Zenon DEF Nested, MutualExclusion, WordTypeOK
<1>2. WordIsHeld
  <2>1. CASE word = {}
    BY <2>1 DEF Nested, WordTypeOK, WordIsHeld
  <2>2. CASE word # {}
    <3>1. PICK c \in CPU : held[c] # {}
      BY <2>2, Zenon DEF Nested
    <3>2. held[c] = word /\ \A d \in CPU : d # c => held[d] = {}
      BY <3>1, Zenon DEF Nested
    <3> QED
      BY <3>2, Zenon DEF WordIsHeld
  <2> QED
    BY <2>1, <2>2, Zenon
<1> QED
  BY <1>1, <1>2, Zenon

\* No bit is locked at the start (the word is zero-initialised data).
LEMMA NestedInit == WordInit => Nested
  BY WordAssumption, Zenon DEF WordInit, Nested, WordTypeOK

\* Locking: the entry bit is free only when no CPU has any bit.
LEMMA NestedLock ==
  ASSUME SingleEntry, Nested, NEW c \in CPU, NEW b \in Bit, Lock(c, b)
  PROVE  Nested'
<1> USE WordAssumption DEF Lock, LockBts
<1>1. WordTypeOK'
  BY DEF Nested, WordTypeOK
<1>2. held'[c] = word' /\ held'[c] \cap Entry # {} /\ \A d \in CPU : d # c => held'[d] = {}
  <2>1. CASE held[c] = {}
    <3>1. ASSUME NEW d \in CPU, held[d] # {} PROVE FALSE
      <4>1. PICK e \in held[d] : e \in Entry /\ e \in word
        BY <3>1 DEF Nested
      <4> QED
        BY <4>1, <2>1, <3>1, Zenon DEF SingleEntry
    <3>2. word = {}
      BY <3>1, Zenon DEF Nested
    <3> QED
      BY <2>1, <3>1, <3>2 DEF Nested, WordTypeOK
  <2>2. CASE held[c] # {}
    BY <2>2 DEF Nested, WordTypeOK
  <2> QED
    BY <2>1, <2>2, Zenon
<1>3. \A d \in CPU : releasing'[d] = NoBit
  BY <1>2, Zenon DEF Nested, WordTypeOK
<1>4. held'[c] # {}
  BY <1>2, Zenon
<1> QED
  BY <1>1, <1>2, <1>3, <1>4, Zenon DEF Nested

\* The load of an unlock changes nothing another CPU could see.
LEMMA NestedUnlock ==
  ASSUME Nested, NEW c \in CPU, NEW b \in Bit, Unlock(c, b)
  PROVE  Nested'
<1> USE WordAssumption DEF Unlock, BtrLoad
<1>1. WordTypeOK'
  BY Zenon DEF Nested, WordTypeOK
<1>2. \A d \in CPU : releasing'[d] # NoBit =>
        loaded'[d] = word' /\ (releasing'[d] \in Entry => held'[d] = {releasing'[d]})
  BY Zenon DEF Nested, WordTypeOK
<1> QED
  BY <1>1, <1>2, Zenon DEF Nested

\* The store of an unlock writes the word its CPU still has alone.
LEMMA NestedStore ==
  ASSUME Nested, NEW c \in CPU, BtrStore(c)
  PROVE  Nested'
<1> USE WordAssumption DEF BtrStore
<1>1. WordTypeOK'
  BY Zenon DEF Nested, WordTypeOK
<1>2. /\ held[c] = word /\ loaded[c] = word /\ releasing[c] \in held[c]
      /\ \A d \in CPU : d # c => held[d] = {} /\ releasing[d] = NoBit
  BY Zenon DEF Nested, WordTypeOK
<1>3. held'[c] = word' /\ \A d \in CPU : d # c => held'[d] = {}
  BY <1>2, Zenon DEF Nested, WordTypeOK
<1>4. held'[c] # {} => held'[c] \cap Entry # {}
  BY <1>2 DEF Nested, WordTypeOK
<1>5. \A d \in CPU : releasing'[d] = NoBit
  BY <1>2, Zenon DEF Nested, WordTypeOK
<1> QED
  BY <1>1, <1>3, <1>4, <1>5, Zenon DEF Nested

\* One step of the word, or none.
LEMMA NestedStep == SingleEntry /\ Nested /\ [WordNext]_wordVars => Nested'
<1> SUFFICES ASSUME SingleEntry, Nested, [WordNext]_wordVars PROVE Nested'
  OBVIOUS
<1>1. CASE WordNext
  BY <1>1, NestedLock, NestedUnlock, NestedStore, Zenon DEF WordNext
<1>2. CASE UNCHANGED wordVars
  BY <1>2, Zenon DEF wordVars, Nested, WordTypeOK
<1> QED
  BY <1>1, <1>2, Zenon

\* A word entered through one bit is a mutex in spite of the unlocked "btr" of
\* atomic_unlock: no bit is with two CPUs, and the word is what they hold.
THEOREM SafeWord ==
  ASSUME SingleEntry PROVE WordSpec => [](MutualExclusion /\ WordIsHeld)
<1>1. WordInit => Nested
  BY NestedInit, Zenon
<1>2. Nested /\ [WordNext]_wordVars => Nested'
  BY NestedStep, Zenon
<1>3. Nested => MutualExclusion /\ WordIsHeld
  BY NestedImplies, Zenon
<1> QED
  BY <1>1, <1>2, <1>3, PTL DEF WordSpec

\* Each step of such a word is one indivisible lock or unlock, or invisible.
LEMMA MutexStep ==
  SingleEntry /\ Nested /\ [WordNext]_wordVars => [M!Next]_held
<1> SUFFICES ASSUME SingleEntry, Nested, [WordNext]_wordVars PROVE [M!Next]_held
  OBVIOUS
<1> USE DEF M!Next, M!Acquire, M!Release
<1>1. ASSUME NEW c \in CPU, NEW b \in Bit, Lock(c, b) PROVE M!Next
  <2>1. \A d \in CPU : b \notin held[d]
    BY <1>1, Zenon DEF Nested, Lock, LockBts
  <2> QED
    BY <1>1, <2>1, Zenon DEF Lock, LockBts
<1>2. ASSUME NEW c \in CPU, BtrStore(c) PROVE M!Next
  <2>1. releasing[c] \in Bit /\ releasing[c] \in held[c]
    BY <1>2, Zenon DEF BtrStore, Nested, WordTypeOK
  <2> QED
    BY <1>2, <2>1, Zenon DEF BtrStore
<1>3. ASSUME NEW c \in CPU, NEW b \in Bit, Unlock(c, b) PROVE UNCHANGED held
  BY <1>3, Zenon DEF Unlock, BtrLoad
<1> QED
  BY <1>1, <1>2, <1>3, Zenon DEF WordNext, wordVars

\* The word entered through one bit implements the abstract lock.
THEOREM WordRefinesMutex ==
  ASSUME SingleEntry PROVE WordSpec => ImplementsMutex
<1>1. WordInit => M!Init /\ Nested
  BY NestedInit, Zenon DEF WordInit, M!Init
<1>2. Nested /\ [WordNext]_wordVars => Nested' /\ [M!Next]_held
  BY NestedStep, MutexStep, Zenon
<1> QED
  BY <1>1, <1>2, PTL DEF WordSpec, ImplementsMutex, M!Spec

-----------------------------------------------------------------------------
(* Types. *)

\* TypeOK and what makes it inductive: the byte store of |= sets a bit that
\* bitmap_set accepted.
FrameType == TypeOK /\ \A c \in CPU : pc[c] = "mark_store" => i[c] \in Index

\* The instructions on s_mutex keep its type, with any nesting.
LEMMA WordTypeStep ==
  ASSUME WordTypeOK, NEW c \in CPU,
         BtrStore(c) \/ (\E b \in Bit : LockBts(c, b) \/ BtrLoad(c, b))
                     \/ UNCHANGED wordVars
  PROVE  WordTypeOK'
<1> USE WordAssumption DEF WordTypeOK
<1>1. CASE BtrStore(c)
  BY <1>1, Zenon DEF BtrStore
<1>2. ASSUME NEW b \in Bit, LockBts(c, b) PROVE WordTypeOK'
  BY <1>2, Zenon DEF LockBts
<1>3. ASSUME NEW b \in Bit, BtrLoad(c, b) PROVE WordTypeOK'
  BY <1>3, Zenon DEF BtrLoad
<1>4. CASE UNCHANGED wordVars
  BY <1>4, Zenon DEF wordVars
<1> QED
  BY <1>1, <1>2, <1>3, <1>4, Zenon

\* Every step of a call is one instruction on s_mutex, or none.
LEMMA StepOnWord ==
  ASSUME NEW c \in CPU, Call(c) \/ Step(c)
  PROVE  BtrStore(c) \/ (\E b \in Bit : LockBts(c, b) \/ BtrLoad(c, b))
                     \/ UNCHANGED wordVars
<1>1. {REQUEST, LOCK, FREE} \subseteq Bit
  BY FrameAssumption, Zenon
<1>2. CASE Call(c)
  BY <1>2, Zenon DEF Call
<1>3. CASE Step(c)
  BY <1>1, <1>3, Zenon DEF Step, SpinRequest, While, For, Probe, Skip, Take, StoreIndex,
    SpinLock, MarkBit, MarkStore, StoreByte, Count, StoreCounter, SpinFree, Clear,
    ClearStore, Uncount, RewindTest, Rewind, RewindTo, UnlockLoad, UnlockStore
<1> QED
  BY <1>2, <1>3, Zenon

\* The arguments of a call are numbers of pages, and its first label is one of
\* the three spinlocks.
LEMMA CallType ==
  ASSUME TypeOK, NEW c \in CPU, NEW o \in Calls
  PROVE  /\ o \in [kind : AllKinds \cup {"none"}, start : Nat, pages : Nat]
         /\ Door(o.kind) \in Labels \ {"mark_store"}
         /\ o.kind \in Kinds
<1> USE FrameAssumption DEF AllKinds
<1>1. CASE o \in [kind : {"request"} \cap Kinds, start : {0}, pages : Asks]
  BY <1>1 DEF Door, Labels
<1>2. ASSUME NEW k \in {"lock", "reserve", "unreserve"} \cap Kinds, NEW r \in Ranges,
             o = [kind |-> k, start |-> r[1], pages |-> r[2]]
      PROVE  /\ o \in [kind : AllKinds \cup {"none"}, start : Nat, pages : Nat]
             /\ Door(o.kind) \in Labels \ {"mark_store"} /\ o.kind \in Kinds
  BY <1>2, Zenon DEF Door, Labels
<1>3. ASSUME "free" \in Kinds, NEW d \in CPU, NEW b \in granted[d],
             o = [kind |-> "free", start |-> b[1], pages |-> b[2]]
      PROVE  /\ o \in [kind : AllKinds \cup {"none"}, start : Nat, pages : Nat]
             /\ Door(o.kind) \in Labels \ {"mark_store"} /\ o.kind \in Kinds
  <2>1. b \in Nat \X Nat
    BY <1>3, Zenon DEF TypeOK
  <2> QED
    BY <1>3, <2>1, Zenon DEF Door, Labels
<1> QED
  BY <1>1, <1>2, <1>3 DEF Calls

\* pageframe_init leaves a well-typed allocator.
LEMMA FrameTypeInit == Init => FrameType
<1> SUFFICES ASSUME Init PROVE FrameType
  OBVIOUS
<1>1. WordTypeOK
  BY NestedInit, Zenon DEF Init, Nested
<1>2. map \in SUBSET Index /\ size \in [Counters -> Nat]
  <2>1. PICK s \in BootStates : map = s.map /\ size = [used |-> s.used, reserved |-> s.reserved]
    BY Zenon DEF Init
  <2>2. s \in [map : SUBSET Index, used : Nat, reserved : Nat]
    BY <2>1, BootAssumption, Zenon
  <2> QED
    BY <2>1, <2>2 DEF Counters
<1> QED
  BY <1>1, <1>2, Zenon DEF Init, FrameType, TypeOK, NoOp, AllKinds, Labels

\* What a call loads from a size counter is a number.
LEMMA CounterType ==
  ASSUME TypeOK, NEW c \in CPU
  PROVE  CounterOf(op[c].kind) \in Counters /\ Counter(c) \in Nat
  BY Zenon DEF TypeOK, CounterOf, Counter, Counters

\* Each access of each call keeps the types.
LEMMA FrameTypeStep ==
  ASSUME FrameType, NEW c \in CPU, Call(c) \/ Step(c)
  PROVE  FrameType'
<1>1. WordTypeOK'
  BY WordTypeStep, StepOnWord, Zenon DEF FrameType, TypeOK
<1>2. CounterOf(op[c].kind) \in Counters /\ Counter(c) \in Nat
  BY CounterType, Zenon DEF FrameType
<1> USE <1>1 DEF FrameType, TypeOK, Move, Labels
<1>3. CASE Call(c)
  <2>1. PICK o \in Calls :
          /\ Move(c, "idle", Door(o.kind))
          /\ op' = [op EXCEPT ![c] = o]
          /\ granted' = [d \in CPU |->
               IF o.kind = "free" THEN granted[d] \ {<<o.start, o.pages>>} ELSE granted[d]]
          /\ UNCHANGED <<map, index, size, i, byte, reg>>
    BY <1>3, Zenon DEF Call
  <2>2. /\ o \in [kind : AllKinds \cup {"none"}, start : Nat, pages : Nat]
        /\ Door(o.kind) \in Labels \ {"mark_store"}
    BY CallType, Zenon
  <2> QED
    BY <2>1, <2>2, Zenon
<1>4. CASE SpinRequest(c)
  BY <1>4, Zenon DEF SpinRequest
<1>5. CASE While(c)
  <2>1. pc'[c] \in {"for", "null_btr"}
    BY <1>5, Zenon DEF While
  <2> QED
    BY <1>5, <2>1, Zenon DEF While
<1>6. CASE For(c)
  <2>1. op' = op \/ op' = [op EXCEPT ![c].start = index]
    BY <1>6, Zenon DEF For, Probe
  <2>2. op' \in [CPU -> [kind : AllKinds \cup {"none"}, start : Nat, pages : Nat]]
    BY <2>1
  <2>3. i' \in [CPU -> Nat] /\ reg' \in [CPU -> Nat]
    <3>1. i' = i \/ i' = [i EXCEPT ![c] = i[c] + 1]
      BY <1>6, Zenon DEF For, Probe
    <3>2. reg' = reg \/ reg' = [reg EXCEPT ![c] = index]
      BY <1>6, Zenon DEF For, Probe
    <3>3. i[c] + 1 \in Nat
      OBVIOUS
    <3>4. i' \in [CPU -> Nat]
      BY <3>1, <3>3, Zenon
    <3> QED
      BY <3>2, <3>4
  <2>4. /\ pc' \in [CPU -> Labels]
        /\ \A d \in CPU : pc'[d] = "mark_store" => pc[d] = "mark_store" /\ i'[d] = i[d]
    BY <1>6, Zenon DEF For, Probe
  <2> QED
    BY <1>6, <2>2, <2>3, <2>4, Zenon DEF For, Probe
<1>7. CASE Skip(c) \/ Take(c)
  BY <1>7 DEF Skip, Take, StoreIndex
<1>8. CASE SpinLock(c) \/ SpinFree(c)
  BY <1>8, Zenon DEF SpinLock, SpinFree, Start
<1>9. CASE MarkBit(c)
  <2>1. i' \in [CPU -> Nat] /\ reg' \in [CPU -> Nat]
    <3>1. i' = i \/ i' = [i EXCEPT ![c] = i[c] + 1]
      BY <1>9, Zenon DEF MarkBit
    <3>2. reg' = reg \/ reg' = [reg EXCEPT ![c] = Counter(c)]
      BY <1>9, Zenon DEF MarkBit
    <3>3. i[c] + 1 \in Nat
      OBVIOUS
    <3>4. i' \in [CPU -> Nat]
      BY <3>1, <3>3, Zenon
    <3> QED
      BY <1>2, <3>2, <3>4
  <2>2. byte' = byte \/ byte' = [byte EXCEPT ![c] = map \cap ByteOf(i[c])]
    BY <1>9, Zenon DEF MarkBit
  <2>3. byte' \in [CPU -> SUBSET Index]
    BY <2>2
  <2>4. /\ pc' \in [CPU -> Labels]
        /\ \A d \in CPU : pc'[d] = "mark_store" => i'[d] \in Index
    BY <1>9 DEF MarkBit
  <2> QED
    BY <1>9, <2>1, <2>3, <2>4, Zenon DEF MarkBit
<1>10. CASE MarkStore(c)
  BY <1>2, <1>10, Zenon DEF MarkStore, StoreByte
<1>11. CASE ClearStore(c)
  BY <1>2, <1>11, Zenon DEF ClearStore, StoreByte
<1>12. CASE Count(c)
  BY <1>2, <1>12 DEF Count, StoreCounter
<1>13. CASE Uncount(c)
  BY <1>2, <1>13 DEF Uncount, StoreCounter
<1>14. CASE Clear(c)
  <2>1. /\ reg' \in [CPU -> Nat] /\ byte' \in [CPU -> SUBSET Index]
    <3>1. reg' = reg \/ reg' = [reg EXCEPT ![c] = Counter(c)]
      BY <1>14, Zenon DEF Clear
    <3>2. byte' = byte \/ byte' = [byte EXCEPT ![c] = map \cap ByteOf(i[c])]
      BY <1>14, Zenon DEF Clear
    <3>3. reg' \in [CPU -> Nat]
      BY <1>2, <3>1, Zenon
    <3>4. byte' \in [CPU -> SUBSET Index]
      BY <3>2, Zenon
    <3> QED
      BY <3>3, <3>4, Zenon
  <2>2. /\ pc' \in [CPU -> Labels]
        /\ \A d \in CPU : pc'[d] = "mark_store" => i'[d] \in Index
    BY <1>14, Zenon DEF Clear
  <2> QED
    BY <1>14, <2>1, <2>2, Zenon DEF Clear
<1>15. CASE RewindTest(c) \/ Rewind(c)
  <2>1. i' \in [CPU -> Nat]
    BY <1>15 DEF RewindTest, Rewind, RewindTo
  <2>2. index' \in Nat
    BY <1>15 DEF RewindTest, Rewind, RewindTo
  <2>3. /\ pc' \in [CPU -> Labels]
        /\ \A d \in CPU : pc'[d] = "mark_store" => i'[d] \in Index
    BY <1>15, Zenon DEF RewindTest, Rewind, RewindTo
  <2> QED
    BY <1>15, <2>1, <2>2, <2>3, Zenon DEF RewindTest, Rewind, RewindTo
<1>16. CASE UnlockLoad(c)
  BY <1>16, Zenon DEF UnlockLoad, frameLocals
<1>17. CASE UnlockStore(c)
  <2>1. /\ op' \in [CPU -> [kind : AllKinds \cup {"none"}, start : Nat, pages : Nat]]
        /\ i' \in [CPU -> Nat] /\ reg' \in [CPU -> Nat] /\ byte' \in [CPU -> SUBSET Index]
    <3>1. UNCHANGED frameLocals \/ ResetLocals(c)
      BY <1>17, Zenon DEF UnlockStore
    <3>2. CASE UNCHANGED frameLocals
      BY <3>2, Zenon DEF frameLocals
    <3>3. CASE ResetLocals(c)
      <4>1. NoOp \in [kind : AllKinds \cup {"none"}, start : Nat, pages : Nat]
        BY Zenon DEF NoOp
      <4> QED
        BY <3>3, <4>1, Zenon DEF ResetLocals
    <3> QED
      BY <3>1, <3>2, <3>3, Zenon
  <2>2. granted' \in [CPU -> SUBSET (Nat \X Nat)]
    BY <1>17 DEF UnlockStore
  <2>3. /\ pc' \in [CPU -> Labels]
        /\ \A d \in CPU : pc'[d] = "mark_store" => i'[d] \in Index
    BY <1>17, Zenon DEF UnlockStore, ResetLocals, frameLocals
  <2> QED
    BY <1>17, <2>1, <2>2, <2>3, Zenon DEF UnlockStore
<1> QED
  BY <1>3, <1>4, <1>5, <1>6, <1>7, <1>8, <1>9, <1>10, <1>11, <1>12, <1>13, <1>14,
     <1>15, <1>16, <1>17, Zenon
  DEF Step

\* Whatever is called on whatever CPUs, the bitmap keeps to its indexes and
\* the size counters stay above zero.
THEOREM TypeCorrect == Spec => []TypeOK
<1>1. Init => FrameType
  BY FrameTypeInit, Zenon
<1>2. FrameType /\ [Next]_vars => FrameType'
  <2>1. ASSUME FrameType, UNCHANGED vars PROVE FrameType'
    BY <2>1, Zenon DEF vars, wordVars, frameVars, FrameType, TypeOK, WordTypeOK
  <2> QED
    BY <2>1, FrameTypeStep, Zenon DEF Next
<1>3. FrameType => TypeOK
  BY Zenon DEF FrameType
<1> QED
  BY <1>1, <1>2, <1>3, PTL DEF Spec

-----------------------------------------------------------------------------
(* The CPUs only request frames: after the boot, all that keeps its lock   *)
(* bits nested is pageframe_request and the pageframe_lock inside it.      *)

RequestsOnly == Kinds = {"request"}

Outside == {"idle", "request"}
Searching == {"while", "for", "skip", "take", "lock", "request_btr", "request_end",
              "null_btr", "null_end"}
Marking == {"mark", "mark_store", "count", "lock_btr", "lock_end"}

\* The bits a CPU has locked, and is unlocking, by where it is.
Holds(c) ==
  /\ pc[c] \in Outside => held[c] = {}
  /\ pc[c] \in Searching => held[c] = {REQUEST}
  /\ pc[c] \in Marking => held[c] = {REQUEST, LOCK}
  /\ pc[c] \in Outside \cup Searching \cup Marking
  /\ pc[c] = "lock_end" => releasing[c] = LOCK
  /\ pc[c] \in {"request_end", "null_end"} => releasing[c] = REQUEST
  /\ pc[c] \notin {"lock_end", "request_end", "null_end"} => releasing[c] = NoBit
  /\ pc[c] # "idle" => op[c].kind = "request"

\* The block of a request, from the moment s_current_index has passed it.
Taken(c) == pc[c] \in Marking \cup {"lock", "request_btr", "request_end"}

\* The request in progress on c: its block lies above all those handed out, and
\* its frames are marked one after the other, by byte stores that lose no bit.
InProgress(c) ==
  /\ pc[c] \in {"skip", "take"} => reg[c] = index
  /\ pc[c] = "take" => op[c].start = index
  /\ Taken(c) =>
       /\ op[c].start + op[c].pages <= index
       /\ \A d \in CPU : \A b \in granted[d] : b[1] + b[2] <= op[c].start
  /\ pc[c] \in {"mark", "mark_store", "count"} =>
       /\ op[c].start <= i[c] /\ i[c] <= End(c)
       /\ op[c].start .. (i[c] - 1) \cap Index \subseteq map
  /\ pc[c] \in {"mark_store", "count"} => i[c] < End(c)
  /\ pc[c] = "mark_store" => i[c] \in Index /\ byte[c] = map \cap ByteOf(i[c])
  /\ pc[c] = "count" => i[c] \in map
  /\ pc[c] \in {"lock_btr", "lock_end", "request_btr", "request_end"} =>
       Start(c) .. (End(c) - 1) \cap Index \subseteq map

\* s_current_index only grows, so the blocks handed out lie below it.
Block(c) ==
  /\ \A b \in granted[c] : b[1] + b[2] <= index /\ Frames(b) \cap Index \subseteq map
  /\ InProgress(c)

\* The inductive invariant of the allocator.
RequestInv ==
  /\ FrameType /\ Nested
  /\ \A c \in CPU : Holds(c) /\ Block(c)
  /\ \A c, d \in CPU : \A a \in granted[c], b \in granted[d] :
       <<c, a>> # <<d, b>> => Frames(a) \cap Frames(b) = {}

\* The actions left when the CPUs only request frames.
LEMMA RequestActions ==
  ASSUME RequestsOnly, TypeOK, NEW c \in CPU, Holds(c), Call(c) \/ Step(c)
  PROVE  \/ \E o \in Calls :
              /\ o.kind = "request" /\ Move(c, "idle", "request")
              /\ op' = [op EXCEPT ![c] = o]
              /\ granted' = granted
              /\ UNCHANGED <<wordVars, map, index, size, i, byte, reg>>
         \/ SpinRequest(c) \/ While(c) \/ For(c) \/ Skip(c) \/ Take(c)
         \/ SpinLock(c) \/ MarkBit(c) \/ MarkStore(c) \/ Count(c)
         \/ UnlockLoad(c) \/ UnlockStore(c)
<1>1. CASE Call(c)
  <2>1. PICK o \in Calls :
          /\ Move(c, "idle", Door(o.kind))
          /\ op' = [op EXCEPT ![c] = o]
          /\ granted' = [d \in CPU |->
               IF o.kind = "free" THEN granted[d] \ {<<o.start, o.pages>>} ELSE granted[d]]
          /\ UNCHANGED <<wordVars, map, index, size, i, byte, reg>>
    BY <1>1, Zenon DEF Call
  <2>2. o.kind = "request"
    BY CallType, Zenon DEF RequestsOnly
  <2>3. granted' = granted
    BY <2>1, <2>2, Zenon DEF TypeOK
  <2> QED
    BY <2>1, <2>2, <2>3, Zenon DEF Door
<1>2. CASE Step(c)
  <2>1. pc[c] \notin {"free", "clear", "clear_store", "uncount", "rewind", "rewind_store"}
    BY Zenon DEF Holds, Outside, Searching, Marking
  <2>2. ~(SpinFree(c) \/ Clear(c) \/ ClearStore(c) \/ Uncount(c) \/ RewindTest(c) \/ Rewind(c))
    BY <2>1, Zenon DEF SpinFree, Clear, ClearStore, StoreByte, Uncount, StoreCounter,
      RewindTest, Rewind, RewindTo, Move
  <2> QED
    BY <1>2, <2>2, Zenon DEF Step
<1> QED
  BY <1>1, <1>2, Zenon

\* With requests only, REQUEST is the one bit taken from outside.
LEMMA RequestEntry == RequestsOnly => Entry = {REQUEST} /\ SingleEntry
<1>1. RequestsOnly => Entry = {REQUEST}
  BY FrameAssumption, Zenon DEF RequestsOnly, EntryBit
<1> QED
  BY <1>1, Zenon DEF SingleEntry

\* The allocator uses s_mutex as AtomicWord says its users do.
LEMMA RequestWord ==
  ASSUME RequestsOnly, TypeOK, NEW c \in CPU, Holds(c), Call(c) \/ Step(c)
  PROVE  [WordNext]_wordVars
<1>1. /\ Entry = {REQUEST} /\ REQUEST \in Bit /\ LOCK \in Bit
      /\ REQUEST # LOCK /\ FREE # REQUEST /\ FREE # LOCK
  BY RequestEntry, FrameAssumption, Zenon
<1>2. CASE SpinRequest(c)
  <2>1. Lock(c, REQUEST)
    BY <1>1, <1>2, Zenon DEF SpinRequest, Move, Holds, Outside, Lock
  <2> QED
    BY <1>1, <2>1, Zenon DEF WordNext
<1>3. CASE SpinLock(c)
  <2>1. Lock(c, LOCK)
    BY <1>1, <1>3, Zenon DEF SpinLock, Move, Holds, Searching, Lock
  <2> QED
    BY <1>1, <2>1, Zenon DEF WordNext
<1>4. CASE UnlockLoad(c)
  <2>1. Unlock(c, LOCK) \/ Unlock(c, REQUEST)
    BY <1>1, <1>4, Zenon DEF UnlockLoad, Move, Holds, Outside, Searching, Marking, Unlock
  <2> QED
    BY <1>1, <2>1, Zenon DEF WordNext
<1>5. CASE UnlockStore(c)
  BY <1>5, Zenon DEF UnlockStore, WordNext
<1>6. CASE UNCHANGED wordVars
  BY <1>6, Zenon
<1> QED
  BY <1>2, <1>3, <1>4, <1>5, <1>6, RequestActions, Zenon DEF While, For, Probe, Skip, Take,
    StoreIndex, MarkBit, MarkStore, StoreByte, Count, StoreCounter

\* A step of one CPU leaves the others where they are.
LEMMA OthersStay ==
  ASSUME TypeOK, NEW c \in CPU, NEW d \in CPU, c # d, Call(c) \/ Step(c)
  PROVE  /\ pc'[d] = pc[d] /\ op'[d] = op[d] /\ i'[d] = i[d] /\ byte'[d] = byte[d]
         /\ reg'[d] = reg[d]
         /\ held'[d] = held[d] /\ releasing'[d] = releasing[d]
<1>1. held'[d] = held[d] /\ releasing'[d] = releasing[d]
  BY StepOnWord DEF TypeOK, WordTypeOK, BtrStore, LockBts, BtrLoad, wordVars
<1> USE DEF TypeOK, Move
<1>2. CASE Call(c)
  BY <1>1, <1>2, Zenon DEF Call
<1>3. CASE SpinRequest(c) \/ While(c) \/ Skip(c) \/ Take(c)
  BY <1>1, <1>3, Zenon DEF SpinRequest, While, Skip, Take, StoreIndex
<1>4. CASE For(c)
  BY <1>1, <1>4, Zenon DEF For, Probe
<1>5. CASE SpinLock(c) \/ MarkStore(c) \/ Count(c)
  BY <1>1, <1>5, Zenon DEF SpinLock, MarkStore, StoreByte, Count, StoreCounter
<1>6. CASE MarkBit(c)
  BY <1>1, <1>6, Zenon DEF MarkBit
<1>7. CASE SpinFree(c) \/ ClearStore(c) \/ Uncount(c) \/ RewindTest(c) \/ Rewind(c)
  BY <1>1, <1>7, Zenon DEF SpinFree, ClearStore, StoreByte, Uncount, StoreCounter, RewindTest, Rewind, RewindTo
<1>8. CASE Clear(c)
  BY <1>1, <1>8, Zenon DEF Clear
<1>9. CASE UnlockLoad(c)
  BY <1>1, <1>9, Zenon DEF UnlockLoad, frameLocals
<1>10. CASE UnlockStore(c)
  BY <1>1, <1>10, Zenon DEF UnlockStore, ResetLocals, frameLocals
<1> QED
  BY <1>2, <1>3, <1>4, <1>5, <1>6, <1>7, <1>8, <1>9, <1>10, Zenon DEF Step

\* A CPU that is past its spinlock on REQUEST is alone there.
LEMMA Alone ==
  ASSUME RequestInv, NEW c \in CPU, NEW d \in CPU, c # d, pc[c] \notin Outside
  PROVE  pc[d] \in Outside
<1>1. held[c] # {}
  BY Zenon DEF RequestInv, Holds
<1>2. held[d] = {}
  BY <1>1, Zenon DEF RequestInv, Nested
<1> QED
  BY <1>2, Zenon DEF RequestInv, Holds

\* Holds of the CPU that takes the step.
LEMMA HoldsStep ==
  ASSUME RequestsOnly, TypeOK, NEW c \in CPU, Holds(c), Call(c) \/ Step(c)
  PROVE  Holds(c)'
<1>1. /\ REQUEST \in Bit /\ LOCK \in Bit /\ REQUEST # LOCK /\ FREE # REQUEST
      /\ FREE # LOCK /\ NoBit \notin Bit
  BY FrameAssumption, WordAssumption, Zenon
<1> USE DEF Holds, Outside, Searching, Marking, TypeOK, WordTypeOK, Move
<1>2. ASSUME NEW o \in Calls, o.kind = "request", Move(c, "idle", "request"),
             op' = [op EXCEPT ![c] = o], UNCHANGED wordVars
      PROVE  Holds(c)'
  BY <1>2, Zenon DEF wordVars
<1>3. CASE SpinRequest(c)
  BY <1>1, <1>3, Zenon DEF SpinRequest, LockBts
<1>4. CASE While(c)
  BY <1>4, Zenon DEF While, wordVars
<1>5. CASE For(c)
  <2>1. op'[c].kind = op[c].kind /\ UNCHANGED <<held, releasing>>
    BY <1>5 DEF For, Probe, wordVars
  <2>2. pc[c] = "for" /\ pc'[c] \in {"for", "skip", "take"}
    BY <1>5, Zenon DEF For, Probe
  <2> QED
    BY <2>1, <2>2, Zenon
<1>6. CASE Skip(c) \/ Take(c)
  BY <1>6, Zenon DEF Skip, Take, StoreIndex, wordVars
<1>7. CASE SpinLock(c)
  BY <1>1, <1>7, Zenon DEF SpinLock, LockBts
<1>8. CASE MarkBit(c)
  <2>1. pc[c] = "mark" /\ pc'[c] \in {"lock_btr", "mark", "count", "mark_store"}
    BY <1>8, Zenon DEF MarkBit
  <2> QED
    BY <1>8, <2>1, Zenon DEF MarkBit, wordVars
<1>9. CASE MarkStore(c) \/ Count(c)
  BY <1>9 DEF MarkStore, StoreByte, Count, StoreCounter, wordVars
<1>10. CASE UnlockLoad(c)
  <2>1. /\ \/ pc[c] = "null_btr" /\ pc'[c] = "null_end" /\ releasing'[c] = REQUEST
           \/ pc[c] = "request_btr" /\ pc'[c] = "request_end" /\ releasing'[c] = REQUEST
           \/ pc[c] = "lock_btr" /\ pc'[c] = "lock_end" /\ releasing'[c] = LOCK
        /\ op' = op /\ held' = held
    BY <1>10, Zenon DEF UnlockLoad, BtrLoad, frameLocals
  <2> QED
    BY <2>1, Zenon
<1>11. CASE UnlockStore(c)
  <2>1. pc[c] # "idle"
    BY <1>11, Zenon DEF UnlockStore
  <2>2. \/ pc[c] = "lock_end" /\ pc'[c] = "request_btr" /\ op' = op
        \/ pc[c] \in {"null_end", "request_end"} /\ pc'[c] = "idle"
    BY <2>1, <1>11, Zenon DEF UnlockStore, frameLocals
  <2>3. held'[c] = held[c] \ {releasing[c]} /\ releasing'[c] = NoBit
    BY <1>11, Zenon DEF UnlockStore, BtrStore
  <2>4. CASE pc[c] = "lock_end"
    <3>1. held[c] = {REQUEST, LOCK} /\ releasing[c] = LOCK /\ op'[c].kind = "request"
      BY <2>2, <2>4, Zenon
    <3>2. held'[c] = {REQUEST}
      BY <1>1, <2>3, <3>1, Zenon
    <3> QED
      BY <1>1, <2>2, <2>3, <2>4, <3>1, <3>2, Zenon
  <2>5. CASE pc[c] # "lock_end"
    <3>1. held[c] = {REQUEST} /\ releasing[c] = REQUEST /\ pc'[c] = "idle"
      BY <2>2, <2>5, Zenon
    <3>2. held'[c] = {}
      BY <2>3, <3>1, Zenon
    <3> QED
      BY <2>3, <3>1, <3>2, Zenon
  <2> HIDE DEF Holds
  <2> QED
    BY <2>4, <2>5, Zenon
<1> HIDE DEF Holds
<1> QED
  BY <1>2, <1>3, <1>4, <1>5, <1>6, <1>7, <1>8, <1>9, <1>10, <1>11, RequestActions, Zenon

\* The bitmap and s_current_index only grow, and only a CPU that has REQUEST
\* changes them; a block is handed out at the end of its request.
LEMMA Grows ==
  ASSUME RequestsOnly, RequestInv, NEW c \in CPU, Call(c) \/ Step(c)
  PROVE  /\ map \subseteq map' /\ index <= index' /\ index' \in Nat
         /\ pc[c] \in Outside => map' = map /\ index' = index /\ granted' = granted
         /\ \/ granted' = granted
            \/ /\ pc[c] = "request_end"
               /\ granted' = [granted EXCEPT ![c] = @ \cup {<<op[c].start, op[c].pages>>}]
<1> USE DEF RequestInv, FrameType, TypeOK, Move, Outside
<1>1. ASSUME NEW o \in Calls, granted' = granted, UNCHANGED <<map, index>>
      PROVE  map \subseteq map' /\ index <= index' /\ index' \in Nat
  BY <1>1
<1>2. CASE SpinRequest(c) \/ While(c) \/ For(c) \/ SpinLock(c) \/ MarkBit(c) \/ Count(c)
           \/ UnlockLoad(c)
  <2>1. UNCHANGED <<map, index, granted>>
    BY <1>2, Zenon DEF SpinRequest, While, For, Probe, SpinLock, MarkBit, Count, StoreCounter,
      UnlockLoad
  <2> QED
    BY <2>1
<1>3. CASE Skip(c) \/ Take(c)
  <2>1. i[c] \in Nat /\ op[c].pages \in Nat /\ index \in Nat
    OBVIOUS
  <2>2. /\ pc[c] \in {"skip", "take"} /\ UNCHANGED <<map, granted>>
        /\ index' = reg[c] + i[c] + 1 \/ index' = reg[c] + op[c].pages
    BY <1>3, Zenon DEF Skip, Take, StoreIndex
  <2>3. reg[c] = index
    BY <2>2, Zenon DEF Block, InProgress
  <2>4. index <= index' /\ index' \in Nat
    BY <2>1, <2>2, <2>3
  <2> QED
    BY <2>2, <2>4, Zenon
<1>4. CASE MarkStore(c)
  <2>1. /\ pc[c] = "mark_store" /\ UNCHANGED <<index, granted>>
        /\ map' = (map \ ByteOf(i[c])) \cup (byte[c] \cup {i[c]})
    BY <1>4, Zenon DEF MarkStore, StoreByte
  <2>2. byte[c] = map \cap ByteOf(i[c])
    BY <2>1, Zenon DEF Block, InProgress
  <2>3. map \subseteq map'
    BY <2>1, <2>2, Zenon
  <2>4. index \in Nat
    OBVIOUS
  <2> QED
    BY <2>1, <2>3, <2>4
<1>5. CASE UnlockStore(c)
  BY <1>5 DEF UnlockStore
<1> QED
  BY <1>1, <1>2, <1>3, <1>4, <1>5, RequestActions, Zenon
=============================================================================
