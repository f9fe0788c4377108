----------------------------- MODULE PageFrame -----------------------------
(***************************************************************************)
(* memory/pageframe.c and memory/bitmap.c: the page-frame allocator shared *)
(* by all CPUs, with its three lock bits REQUEST, LOCK and FREE in the one *)
(* word s_mutex (AtomicWord).                                              *)
(*                                                                         *)
(* Each CPU runs one call at a time.  A step is one access to shared       *)
(* memory; a read-modify-write that the build does not make indivisible (a *)
(* bitmap byte, s_current_index, the two size counters, btr) is a load     *)
(* step and a store step.  Addresses and sizes are counted in pages.       *)
(***************************************************************************)
EXTENDS AtomicWord, Integers, FiniteSets, Sequences

CONSTANTS REQUEST, LOCK, FREE,  \* enum PageframeMutexBit
          Scale,        \* BITMAP_SCALE, the bits in a bitmap byte (8)
          MemoryMaps,   \* the bootloader's memory maps to start from
          KernelPages,  \* frames of the kernel image: <<first, pages>>
          InitialReserve,  \* PAGEFRAME_INITIAL_RESERVE_PAGES (256)
          TotalPages,   \* pages of every memory map together
          Kinds,        \* the entry points in use after pageframe_init
          Ranges,       \* <<first, pages>> given to lock and reserve
          Asks,         \* the numbers of pages requested
          MaxCount,     \* bound: no lock or reserve past this size counter
          WordPages     \* pages a size_t can count before it wraps (2^52)

\* bitmap_adjusted_size: whole bytes only.
Size == (TotalPages \div Scale) * Scale

\* What bitmap_get and bitmap_set accept: their test is index > size, so the
\* bit after the last one, in the byte after the buffer, is accepted too.
Index == 0..Size

AllKinds == {"request", "free", "lock", "reserve", "unreserve"}
Counters == {"used", "reserved"}

\* The bit a call takes first.
EntryBit(kind) ==
  CASE kind = "request" -> REQUEST
    [] kind \in {"lock", "reserve"} -> LOCK
    [] OTHER -> FREE

ASSUME FrameAssumption ==
  /\ Bit = {REQUEST, LOCK, FREE} /\ REQUEST # LOCK /\ LOCK # FREE /\ FREE # REQUEST
  /\ Scale \in Nat \ {0} /\ TotalPages \in Nat /\ MaxCount \in Nat
  /\ Kinds \subseteq AllKinds /\ Entry = {EntryBit(k) : k \in Kinds}
  /\ Asks \subseteq Nat /\ Ranges \subseteq Nat \X Nat
  /\ WordPages \in Nat /\ TotalPages < WordPages

VARIABLES map,    \* s_pageframemap: the indexes whose bit is set (in use)
          index,  \* s_current_index
          size,   \* s_memory_used_size and s_memory_reserved_size
          pc,     \* pc[c]: where CPU c is in its call
          op,     \* op[c]: the call, [kind, start, pages]
          i,      \* i[c]: the loop variable of that call
          byte,   \* byte[c]: the bitmap byte loaded by |= or &=
          reg,    \* reg[c]: the number loaded by ++, += or -=
          granted \* granted[c]: the blocks handed out on c and not yet freed

frameLocals == <<op, i, byte, reg>>
frameVars == <<map, index, size, pc, op, i, byte, reg, granted>>
vars == <<wordVars, frameVars>>

\* The frames of a block <<first, pages>>.
Frames(b) == b[1] .. (b[1] + b[2] - 1)

\* The indexes whose bits share a byte with k's.
ByteOf(k) == {x \in Index : x \div Scale = k \div Scale}

-----------------------------------------------------------------------------
(* pageframe_init, on the bootstrap CPU alone.  The state it builds is     *)
(* s = [map, used, reserved].                                              *)

\* pageframe_lock and pageframe_reserve of a range: an index in range counts
\* even when its bit was set already, one out of range does not.
Mark(s, b, counter) ==
  [s EXCEPT !.map = @ \cup (Frames(b) \cap Index),
            ![counter] = @ + Cardinality(Frames(b) \cap Index)]

\* pageframe_unreserve of a range: every index counts, and the counter stops
\* at zero.
Unreserve(s, b) ==
  [s EXCEPT !.map = @ \ Frames(b),
            !.reserved = IF @ >= b[2] THEN @ - b[2] ELSE 0]

\* The first region with the most usable pages: it holds the bitmap.
LargestUsable(mm) ==
  LET usable == {n \in DOMAIN mm : mm[n].usable}
      best == {n \in usable : \A k \in usable : mm[k].block[2] <= mm[n].block[2]}
  IN  mm[CHOOSE n \in best : \A k \in best : n <= k].block

\* memset clears the buffer; the byte after it holds junk, a bit of which is
\* index Size.  The bitmap of every model here fits in one page.  Only its own
\* lock and the kernel's count as used.
pageframe_init(mm, junk) ==
  LET all == Mark([map |-> junk, reserved |-> 0], <<0, TotalPages>>, "reserved")
      opened[n \in 0..Len(mm)] ==
        IF n = 0 THEN all
        ELSE IF mm[n].usable THEN Unreserve(opened[n - 1], mm[n].block) ELSE opened[n - 1]
      unlocked == [map |-> opened[Len(mm)].map, used |-> 0,
                   reserved |-> opened[Len(mm)].reserved]
      bitmap == Mark(unlocked, <<LargestUsable(mm)[1], 1>>, "used")
      kernel == Mark(bitmap, KernelPages, "used")
  IN  Mark(kernel, <<0, InitialReserve>>, "reserved")

BootStates == {pageframe_init(mm, junk) : mm \in MemoryMaps, junk \in SUBSET {Size}}

ASSUME BootAssumption ==
  /\ BootStates \subseteq [map : SUBSET Index, used : Nat, reserved : Nat]
  /\ \A mm \in MemoryMaps :
       LET pages[n \in 0..Len(mm)] == IF n = 0 THEN 0 ELSE pages[n - 1] + mm[n].block[2]
       IN  TotalPages = pages[Len(mm)]

NoOp == [kind |-> "none", start |-> 0, pages |-> 0]

Init ==
  /\ WordInit
  /\ \E s \in BootStates :
       /\ map = s.map
       /\ size = [used |-> s.used, reserved |-> s.reserved]
  /\ index = 0
  /\ pc = [c \in CPU |-> "idle"]
  /\ op = [c \in CPU |-> NoOp]
  /\ i = [c \in CPU |-> 0]
  /\ byte = [c \in CPU |-> {}]
  /\ reg = [c \in CPU |-> 0]
  /\ granted = [c \in CPU |-> {}]

-----------------------------------------------------------------------------
(* The calls.  Where a load directly follows another access of the same    *)
(* CPU, the two are one step.                                              *)

Move(c, from, to) == pc[c] = from /\ pc' = [pc EXCEPT ![c] = to]

\* A call that has returned leaves nothing behind.
ResetLocals(c) ==
  /\ op' = [op EXCEPT ![c] = NoOp]
  /\ i' = [i EXCEPT ![c] = 0]
  /\ byte' = [byte EXCEPT ![c] = {}]
  /\ reg' = [reg EXCEPT ![c] = 0]

\* pageframe_request (one page) or pageframe_request_pages, pageframe_free of
\* a block that was handed out, on whichever CPU its caller runs by now, and
\* pageframe_lock, pageframe_reserve(_size) and pageframe_unreserve of a range.
Calls ==
  [kind : {"request"} \cap Kinds, start : {0}, pages : Asks]
  \cup {[kind |-> k, start |-> r[1], pages |-> r[2]] :
           k \in {"lock", "reserve", "unreserve"} \cap Kinds, r \in Ranges}
  \cup {[kind |-> "free", start |-> b[1], pages |-> b[2]] :
           b \in IF "free" \in Kinds THEN UNION {granted[d] : d \in CPU} ELSE {}}

\* The spinlock a call starts at, and the counter it adds to or takes from.
Door(kind) ==
  CASE kind = "request" -> "request"
    [] kind \in {"lock", "reserve"} -> "lock"
    [] OTHER -> "free"
CounterOf(kind) == IF kind \in {"reserve", "unreserve"} THEN "reserved" ELSE "used"

\* What a call works on: Start..End-1.
Start(c) == op[c].start
End(c) == op[c].start + op[c].pages

\* The boot code unreserves only frames that are reserved (pageframe_init).
Reserved(o) ==
  LET f == Frames(<<o.start, o.pages>>)
  IN  f \subseteq map /\ \A d \in CPU : \A b \in granted[d] : Frames(b) \cap f = {}

Call(c) ==
  \E o \in Calls :
    /\ Move(c, "idle", Door(o.kind))
    /\ o.kind \in {"lock", "reserve"} => size[CounterOf(o.kind)] < MaxCount
    /\ o.kind = "unreserve" => Reserved(o)
    /\ op' = [op EXCEPT ![c] = o]
    /\ granted' = [d \in CPU |->
         IF o.kind = "free" THEN granted[d] \ {<<o.start, o.pages>>} ELSE granted[d]]
    /\ UNCHANGED <<wordVars, map, index, size, i, byte, reg>>

-----------------------------------------------------------------------------
(* pageframe_request and pageframe_request_pages: find free frames.        *)

SpinRequest(c) ==
  /\ Move(c, "request", "while") /\ LockBts(c, REQUEST)
  /\ UNCHANGED <<map, index, size, op, i, byte, reg, granted>>

\* The loop condition s_current_index < size; NULL is returned when it fails.
While(c) ==
  /\ Move(c, "while", IF index < Size THEN "for" ELSE "null_btr")
  /\ i' = [i EXCEPT ![c] = 0]
  /\ UNCHANGED <<wordVars, map, index, size, op, byte, reg, granted>>

\* The loop over j < pages, for a block of n frames: a frame in use is
\* skipped, a free one counted, and n of them are taken.  bitmap_get is false
\* past the end.
Probe(c, n) ==
  /\ \/ /\ i[c] < n /\ index + i[c] \notin map
        /\ Move(c, "for", "for") /\ i' = [i EXCEPT ![c] = @ + 1]
        /\ UNCHANGED <<op, reg>>
     \/ /\ i[c] < n /\ index + i[c] \in map
        /\ Move(c, "for", "skip") /\ reg' = [reg EXCEPT ![c] = index]
        /\ UNCHANGED <<op, i>>
     \/ /\ i[c] >= n
        /\ Move(c, "for", "take") /\ reg' = [reg EXCEPT ![c] = index]
        /\ op' = [op EXCEPT ![c].start = index]
        /\ UNCHANGED i
  /\ UNCHANGED <<wordVars, map, index, size, byte, granted>>

For(c) == Probe(c, op[c].pages)

StoreIndex(c, from, to, n) ==
  /\ Move(c, from, to) /\ index' = n
  /\ UNCHANGED <<wordVars, map, size, op, i, byte, reg, granted>>

\* s_current_index += j + 1, and back to the loop condition.
Skip_Stuck(c) == StoreIndex(c, "skip", "while", reg[c])
Skip(c) == StoreIndex(c, "skip", "while", reg[c] + i[c] + 1)

\* s_current_index += pages, and into pageframe_lock(page, pages).
Take(c) == StoreIndex(c, "take", "lock", reg[c] + op[c].pages)

-----------------------------------------------------------------------------
(* pageframe_lock and pageframe_reserve: mark each frame of the range.     *)

SpinLock(c) ==
  /\ Move(c, "lock", "mark") /\ LockBts(c, LOCK)
  /\ i' = [i EXCEPT ![c] = Start(c)]
  /\ UNCHANGED <<map, index, size, op, byte, reg, granted>>

Counter(c) == size[CounterOf(op[c].kind)]

\* pageframe_manipulate(i, true): a bit that is set counts, an index out of
\* range is passed over, any other bit is set by the load and store of |=.
MarkBit(c) ==
  /\ \/ i[c] = End(c) /\ Move(c, "mark", "lock_btr") /\ UNCHANGED <<i, byte, reg>>
     \/ /\ i[c] < End(c) /\ i[c] \notin Index
        /\ Move(c, "mark", "mark") /\ i' = [i EXCEPT ![c] = @ + 1]
        /\ UNCHANGED <<byte, reg>>
     \/ /\ i[c] < End(c) /\ i[c] \in map
        /\ Move(c, "mark", "count") /\ reg' = [reg EXCEPT ![c] = Counter(c)]
        /\ UNCHANGED <<i, byte>>
     \/ /\ i[c] < End(c) /\ i[c] \in Index \ map
        /\ Move(c, "mark", "mark_store")
        /\ byte' = [byte EXCEPT ![c] = map \cap ByteOf(i[c])]
        /\ UNCHANGED <<i, reg>>
  /\ UNCHANGED <<wordVars, map, index, size, op, granted>>

\* The store of a bitmap byte, and the load of the counter.
StoreByte(c, from, to, bits) ==
  /\ Move(c, from, to)
  /\ map' = (map \ ByteOf(i[c])) \cup bits
  /\ reg' = [reg EXCEPT ![c] = Counter(c)]
  /\ UNCHANGED <<wordVars, index, size, op, i, byte, granted>>

MarkStore_Overwrite(c) == StoreByte(c, "mark_store", "count", {i[c]})
MarkStore(c) == StoreByte(c, "mark_store", "count", byte[c] \cup {i[c]})

StoreCounter(c, from, to, n, k) ==
  /\ Move(c, from, to)
  /\ size' = [size EXCEPT ![CounterOf(op[c].kind)] = n]
  /\ i' = [i EXCEPT ![c] = k]
  /\ UNCHANGED <<wordVars, map, index, op, byte, reg, granted>>

\* s_memory_used_size (or s_memory_reserved_size) += MEMORY_PAGE_SIZE; i++.
Count_Lost(c) == StoreCounter(c, "count", "mark", reg[c], i[c] + 1)
Count(c) == StoreCounter(c, "count", "mark", reg[c] + 1, i[c] + 1)

-----------------------------------------------------------------------------
(* pageframe_free and pageframe_unreserve: clear each frame of the range.  *)

SpinFree(c) ==
  /\ Move(c, "free", "clear") /\ LockBts(c, FREE)
  /\ i' = [i EXCEPT ![c] = Start(c)]
  /\ UNCHANGED <<map, index, size, op, byte, reg, granted>>

\* pageframe_manipulate(i, false): a clear bit, or an index out of range whose
\* bit reads as clear, counts; a set bit is cleared by the load and store of &=.
Clear(c) ==
  /\ \/ i[c] = End(c) /\ Move(c, "clear", "free_btr") /\ UNCHANGED <<byte, reg>>
     \/ /\ i[c] < End(c) /\ i[c] \notin map
        /\ Move(c, "clear", "uncount") /\ reg' = [reg EXCEPT ![c] = Counter(c)]
        /\ UNCHANGED byte
     \/ /\ i[c] < End(c) /\ i[c] \in map
        /\ Move(c, "clear", "clear_store")
        /\ byte' = [byte EXCEPT ![c] = map \cap ByteOf(i[c])]
        /\ UNCHANGED reg
  /\ UNCHANGED <<wordVars, map, index, size, op, i, granted>>

ClearStore(c) == StoreByte(c, "clear_store", "uncount", byte[c] \ {i[c]})

\* "prevent overflow": a counter below one page is left alone.
Uncount_Twice(c) == StoreCounter(c, "uncount", "rewind", reg[c] - 2, i[c])
Uncount(c) ==
  StoreCounter(c, "uncount", "rewind", IF reg[c] >= 1 THEN reg[c] - 1 ELSE Counter(c), i[c])

\* if(s_current_index > i): the search is to resume at the freed frame.
RewindTest(c) ==
  /\ \/ index > i[c] /\ Move(c, "rewind", "rewind_store") /\ UNCHANGED i
     \/ index <= i[c] /\ Move(c, "rewind", "clear") /\ i' = [i EXCEPT ![c] = @ + 1]
  /\ UNCHANGED <<wordVars, map, index, size, op, byte, reg, granted>>

RewindTo(c, n) ==
  /\ Move(c, "rewind_store", "clear") /\ index' = n
  /\ i' = [i EXCEPT ![c] = @ + 1]
  /\ UNCHANGED <<wordVars, map, size, op, byte, reg, granted>>

\* s_current_index = i; i++.
Rewind_Forget(c) == RewindTo(c, index)
Rewind(c) == RewindTo(c, i[c])

-----------------------------------------------------------------------------
(* _pageframe_unlock and the returns. *)

UnlockLoad(c) ==
  /\ \/ Move(c, "lock_btr", "lock_end") /\ BtrLoad(c, LOCK)
     \/ Move(c, "free_btr", "free_end") /\ BtrLoad(c, FREE)
     \/ Move(c, "request_btr", "request_end") /\ BtrLoad(c, REQUEST)
     \/ Move(c, "null_btr", "null_end") /\ BtrLoad(c, REQUEST)
  /\ UNCHANGED frameLocals /\ UNCHANGED <<map, index, size, granted>>

\* pageframe_lock inside a request goes back to the request; every other end
\* returns to the caller, a request that found frames with its block.
UnlockStore(c) ==
  /\ BtrStore(c)
  /\ \/ /\ op[c].kind = "request" /\ Move(c, "lock_end", "request_btr")
        /\ UNCHANGED <<granted, frameLocals>>
     \/ /\ \/ Move(c, "lock_end", "idle") /\ op[c].kind # "request"
           \/ Move(c, "free_end", "idle")
           \/ Move(c, "null_end", "idle")
        /\ UNCHANGED granted
        /\ ResetLocals(c)
     \/ /\ Move(c, "request_end", "idle")
        /\ granted' = [granted EXCEPT ![c] = @ \cup {<<op[c].start, op[c].pages>>}]
        /\ ResetLocals(c)
  /\ UNCHANGED <<map, index, size>>

\* memory_get_free, an unsigned subtraction.
memory_get_free == (TotalPages - size["used"] - size["reserved"]) % WordPages

-----------------------------------------------------------------------------
Step(c) ==
  \/ SpinRequest(c) \/ While(c) \/ For(c) \/ Skip(c) \/ Take(c)
  \/ SpinLock(c) \/ MarkBit(c) \/ MarkStore(c) \/ Count(c)
  \/ SpinFree(c) \/ Clear(c) \/ ClearStore(c) \/ Uncount(c)
  \/ RewindTest(c) \/ Rewind(c)
  \/ UnlockLoad(c) \/ UnlockStore(c)

Next == \E c \in CPU : Call(c) \/ Step(c)

\* A CPU in a call keeps executing; no caller is obliged to call.
Spec == Init /\ [][Next]_vars
FairSpec == Spec /\ \A c \in CPU : WF_vars(Step(c))

-----------------------------------------------------------------------------
(* Properties. *)

Labels == {"idle", "request", "while", "for", "skip", "take", "null_btr", "null_end",
           "lock", "mark", "mark_store", "count", "lock_btr", "lock_end",
           "free", "clear", "clear_store", "uncount", "rewind", "rewind_store",
           "free_btr", "free_end", "request_btr", "request_end"}

\* Every bit is one the bitmap accepts, and the counters never go below zero.
TypeOK ==
  /\ WordTypeOK
  /\ map \in SUBSET Index
  /\ index \in Nat
  /\ size \in [Counters -> Nat]
  /\ pc \in [CPU -> Labels]
  /\ op \in [CPU -> [kind : AllKinds \cup {"none"}, start : Nat, pages : Nat]]
  /\ i \in [CPU -> Nat]
  /\ byte \in [CPU -> SUBSET Index]
  /\ reg \in [CPU -> Nat]
  /\ granted \in [CPU -> SUBSET (Nat \X Nat)]

\* No frame is in two blocks handed out by pageframe_request(_pages) and not
\* freed, and every frame of such a block has its bit set, so that no later
\* request finds it.
GrantsExclusive ==
  \A c, d \in CPU : \A a \in granted[c], b \in granted[d] :
    /\ Frames(a) \cap Index \subseteq map
    /\ <<c, a>> # <<d, b>> => Frames(a) \cap Frames(b) = {}

Quiet == \A c \in CPU : pc[c] = "idle"
Granted == UNION {Frames(b) : b \in UNION {granted[c] : c \in CPU}}

\* Between calls s_memory_used_size is what pageframe_init counted (the page
\* of the bitmap and the kernel) plus one page per frame handed out.
UsedCountsGrants ==
  Quiet => size["used"] = 1 + Cardinality(Frames(KernelPages) \cap Index)
                            + Cardinality(Granted \cap Index)

\* Between calls memory_get_free reports no more than the bitmap's clear bits,
\* as long as the two counters together have not passed the total: counting a
\* frame twice errs on the low side until the subtraction wraps.
FreeNotOverstated ==
  Quiet /\ size["used"] + size["reserved"] <= TotalPages
    => memory_get_free <= Cardinality(0..(Size - 1) \ map)

\* When only single pages are requested, pageframe_request returns NULL only
\* if every frame is in use: s_current_index never runs past a free frame.
NullMeansFull ==
  \A c \in CPU : pc[c] = "null_btr" => 0..(Size - 1) \subseteq map

\* Every frame of a block that is handed out is a page of memory:
\* pageframe_request_pages "will find, lock, and returns [pages] free pages".
GrantedFramesExist ==
  \A c \in CPU : \A b \in granted[c] : Frames(b) \subseteq 0..(TotalPages - 1)

\* A CPU that took REQUEST gives it up: the search over the bitmap ends.
RequestReleased == REQUEST \in word ~> REQUEST \notin word
=============================================================================
