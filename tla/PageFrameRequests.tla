------------------------- MODULE PageFrameRequests -------------------------
(***************************************************************************)
(* The page-frame allocator as long as the CPUs only request frames, for   *)
(* any number of CPUs, any memory map and any size of request: s_mutex is  *)
(* a mutex, no frame is handed out twice and s_memory_used_size is exact.  *)
(***************************************************************************)
EXTENDS PageFrameProofs, FiniteSetTheorems

\* The frames of a block are counted from its first.
LEMMA FramesOf ==
  ASSUME NEW s \in Nat, NEW n \in Nat
  PROVE  Frames(<<s, n>>) = s .. (s + n - 1)
  BY Zenon DEF Frames

\* Blocks that have been handed out stay below s_current_index and marked.
LEMMA GrantedBelow ==
  ASSUME RequestsOnly, RequestInv, NEW c \in CPU, Call(c) \/ Step(c),
         NEW d \in CPU, NEW b \in granted'[d]
  PROVE  b[1] + b[2] <= index' /\ Frames(b) \cap Index \subseteq map'
<1>1. index <= index' /\ index' \in Nat /\ index \in Nat
  BY Grows, Zenon DEF RequestInv, FrameType, TypeOK
<1>2. map \subseteq map'
  BY Grows, Zenon
<1>3. CASE b \in granted[d]
  <2>1. b \in Nat \X Nat /\ b[1] + b[2] <= index
    BY <1>3, Zenon DEF RequestInv, Block, FrameType, TypeOK
  <2>2. b[1] \in Nat /\ b[2] \in Nat
    BY <2>1, Zenon
  <2>3. b[1] + b[2] <= index'
    BY <1>1, <2>1, <2>2
  <2>4. Frames(b) \cap Index \subseteq map
    BY <1>3, Zenon DEF RequestInv, Block
  <2> QED
    BY <1>2, <2>3, <2>4, Zenon
<1>4. CASE b \notin granted[d]
  <2>1. d = c /\ pc[c] = "request_end" /\ b = <<op[c].start, op[c].pages>>
    BY <1>4, Grows DEF RequestInv, FrameType, TypeOK
  <2>2. op[c].start \in Nat /\ op[c].pages \in Nat
    BY Zenon DEF RequestInv, FrameType, TypeOK
  <2>3. op[c].start + op[c].pages <= index
    BY <2>1, Zenon DEF RequestInv, Block, InProgress, Taken
  <2>4. Start(c) .. (End(c) - 1) \cap Index \subseteq map
    BY <2>1, Zenon DEF RequestInv, Block, InProgress
  <2>5. Frames(b) = Start(c) .. (End(c) - 1)
    BY <2>1, <2>2, FramesOf DEF Start, End
  <2>6. op[c].start + op[c].pages <= index'
    BY <1>1, <2>2, <2>3
  <2>7. b[1] = op[c].start /\ b[2] = op[c].pages
    BY <2>1, Zenon
  <2> QED
    BY <1>2, <2>5, <2>6, <2>4, <2>7, Zenon
<1> QED
  BY <1>3, <1>4, Zenon

\* The loop counter of a marking loop that is not over may go one further.
LEMMA OneFurther ==
  ASSUME NEW s \in Nat, NEW k \in Nat, NEW e \in Nat, s <= k, k < e
  PROVE  s <= k + 1 /\ k + 1 <= e /\ (k + 1) - 1 = k
  OBVIOUS

\* A range marked up to k and at k is marked up to k + 1; frames past the bitmap
\* need no mark.
LEMMA OneMoreMarked ==
  ASSUME NEW s \in Nat, NEW k \in Nat, NEW I, NEW m,
         s .. (k - 1) \cap I \subseteq m, k \notin I \/ k \in m
  PROVE  s .. k \cap I \subseteq m
<1> SUFFICES ASSUME NEW x \in s .. k, x \in I
             PROVE  x \in m
  OBVIOUS
<1>1. x = k \/ x \in s .. (k - 1)
  OBVIOUS
<1> QED
  BY <1>1, Zenon

\* The steps of a request find, take, mark and return its block.
LEMMA InProgressStep ==
  ASSUME RequestsOnly, RequestInv, NEW c \in CPU, Call(c) \/ Step(c)
  PROVE  InProgress(c)'
<1>1. InProgress(c) /\ Holds(c)
  BY Zenon DEF RequestInv, Block
<1>2. \A d \in CPU : \A b \in granted[d] : b[1] + b[2] <= index
  BY Zenon DEF RequestInv, Block
<1>3. i[c] \in Nat /\ op[c].start \in Nat /\ op[c].pages \in Nat /\ index \in Nat
  BY Zenon DEF RequestInv, FrameType, TypeOK
<1>4. End(c) \in Nat /\ End(c) = op[c].start + op[c].pages /\ op[c].start <= End(c)
  BY <1>3 DEF End
<1>5. /\ c \in DOMAIN pc /\ c \in DOMAIN op /\ c \in DOMAIN i /\ c \in DOMAIN byte
      /\ c \in DOMAIN reg
  BY Zenon DEF RequestInv, FrameType, TypeOK
<1>6. map \subseteq Index
  BY Zenon DEF RequestInv, FrameType, TypeOK
\* The block in progress stays where it is.
<1>7. ASSUME Taken(c), UNCHANGED <<index, op, granted>>
      PROVE  /\ op'[c].start = op[c].start /\ op'[c].pages = op[c].pages
             /\ End(c)' = End(c) /\ Start(c)' = op[c].start
             /\ op'[c].start + op'[c].pages <= index'
             /\ \A d \in CPU : \A b \in granted'[d] : b[1] + b[2] <= op'[c].start
  BY <1>1, <1>7, Zenon DEF InProgress, Start, End
<1> USE DEF Taken, Marking
<1>8. ASSUME pc'[c] \in {"idle", "request", "while", "for", "null_btr", "null_end"}
      PROVE  InProgress(c)'
  BY <1>8, Zenon DEF InProgress
<1>9. CASE For(c)
  <2>1. CASE i[c] >= op[c].pages
    <3>1. /\ pc'[c] = "take" /\ index' = index /\ reg'[c] = index
          /\ op' = [op EXCEPT ![c].start = index]
      BY <1>3, <1>5, <1>9, <2>1 DEF For, Probe, Move
    <3>2. op'[c].start = index
      BY <3>1, Zenon DEF RequestInv, FrameType, TypeOK
    <3> QED
      BY <3>1, <3>2, Zenon DEF InProgress
  <2>2. CASE i[c] < op[c].pages
    <3>1. pc'[c] = "for" \/ (pc'[c] = "skip" /\ reg'[c] = index')
      BY <1>3, <1>5, <1>9, <2>2 DEF For, Probe, Move
    <3>2. CASE pc'[c] = "for"
      BY <1>8, <3>2, Zenon
    <3>3. CASE pc'[c] = "skip" /\ reg'[c] = index'
      BY <3>3, Zenon DEF InProgress
    <3> QED
      BY <3>1, <3>2, <3>3, Zenon
  <2>3. i[c] >= op[c].pages \/ i[c] < op[c].pages
    BY <1>3
  <2> QED
    BY <2>1, <2>2, <2>3, Zenon
<1>10. CASE Take(c)
  <2>1. /\ pc[c] = "take" /\ pc'[c] = "lock" /\ index' = reg[c] + op[c].pages
        /\ UNCHANGED <<op, granted>>
    BY <1>5, <1>10, Zenon DEF Take, StoreIndex, Move
  <2>2. reg[c] = index /\ op[c].start = index
    BY <1>1, <2>1, Zenon DEF InProgress
  <2>3. op'[c].start + op'[c].pages = index' /\ index' \in Nat
    <3>1. op'[c].start = index /\ op'[c].pages = op[c].pages /\ index' = index + op[c].pages
      BY <2>1, <2>2, Zenon
    <3> QED
      BY <1>3, <3>1
  <2>4. \A d \in CPU : \A b \in granted'[d] : b[1] + b[2] <= op'[c].start
    BY <1>2, <2>1, <2>2, Zenon
  <2>5. op'[c].start + op'[c].pages <= index'
    BY <2>3
  <2> QED
    BY <2>1, <2>4, <2>5, Zenon DEF InProgress
<1>11. CASE SpinLock(c)
  <2>1. /\ pc[c] = "lock" /\ pc'[c] = "mark" /\ i'[c] = op[c].start
        /\ UNCHANGED <<map, index, op, granted>>
    BY <1>5, <1>11, Zenon DEF SpinLock, Start, Move
  <2>2. op[c].start .. (op[c].start - 1) = {} /\ op[c].start <= op[c].start
    BY <1>3
  <2>3. Taken(c)
    BY <2>1, Zenon
  <2>4. op[c].start <= End(c)' /\ op'[c].start = op[c].start
    BY <1>4, <1>7, <2>1, <2>3, Zenon
  <2>5. /\ op'[c].start + op'[c].pages <= index'
        /\ \A d \in CPU : \A b \in granted'[d] : b[1] + b[2] <= op'[c].start
    BY <1>7, <2>1, <2>3, Zenon
  <2> QED
    BY <2>1, <2>2, <2>4, <2>5, Zenon DEF InProgress
<1>12. CASE MarkBit(c)
  <2>1. pc[c] = "mark" /\ UNCHANGED <<map, index, op, granted>>
    BY <1>12, Zenon DEF MarkBit, Move
  <2>2. op[c].start <= i[c] /\ i[c] <= End(c)
    BY <1>1, <2>1, Zenon DEF InProgress
  <2>3. op[c].start .. (i[c] - 1) \cap Index \subseteq map
    BY <1>1, <2>1, Zenon DEF InProgress
  <2>4. i[c] = End(c) \/ i[c] < End(c)
    <3> HIDE DEF Taken, Marking
    <3>1. i[c] \in Nat /\ End(c) \in Nat
      BY <1>3, <1>4, Zenon
    <3> QED
      BY <2>2, <3>1
  <2>5. CASE i[c] = End(c)
    <3>1. ~(i[c] < End(c))
      BY <1>4, <2>5
    <3>2. pc'[c] = "lock_btr"
      BY <1>5, <1>12, <3>1, Zenon DEF MarkBit, Move
    <3> QED
      BY <1>7, <2>1, <2>3, <2>5, <3>2, Zenon DEF InProgress
  <2>6. CASE i[c] < End(c)
    <3>1. i[c] # End(c)
      BY <1>3, <1>4, <2>6
    <3>2. CASE i[c] \notin Index
      <4>1. pc'[c] = "mark" /\ i'[c] = i[c] + 1
        BY <1>5, <1>6, <1>12, <3>1, <3>2, Zenon DEF MarkBit, Move
      <4>2. op[c].start <= i[c] + 1 /\ i[c] + 1 <= End(c) /\ (i[c] + 1) - 1 = i[c]
        BY <1>3, <1>4, <2>2, <2>6, OneFurther, Zenon
      <4>3. op[c].start .. i[c] \cap Index \subseteq map
        BY <1>3, <2>3, <3>2, OneMoreMarked
      <4> QED
        BY <1>7, <2>1, <4>1, <4>2, <4>3, Zenon DEF InProgress
    <3>3. CASE i[c] \in map
      <4>1. pc'[c] = "count" /\ i' = i
        BY <1>5, <1>6, <1>12, <3>1, <3>3, Zenon DEF MarkBit, Move
      <4> QED
        BY <1>7, <2>1, <2>2, <2>3, <2>6, <3>3, <4>1, Zenon DEF InProgress
    <3>4. CASE i[c] \in Index \ map
      <4>1. pc'[c] = "mark_store" /\ i' = i /\ byte'[c] = map \cap ByteOf(i[c])
        BY <1>5, <1>12, <3>1, <3>4, Zenon DEF MarkBit, Move
      <4>2. ByteOf(i[c])' = ByteOf(i[c])
        BY <4>1, Zenon DEF ByteOf
      <4> QED
        BY <1>7, <2>1, <2>2, <2>3, <2>6, <3>4, <4>1, <4>2, Zenon DEF InProgress
    <3> QED
      BY <3>2, <3>3, <3>4, Zenon
  <2> QED
    BY <2>4, <2>5, <2>6, Zenon
<1>13. CASE MarkStore(c)
  <2>1. pc[c] = "mark_store" /\ pc'[c] = "count" /\ UNCHANGED <<index, op, i, granted>>
    BY <1>5, <1>13, Zenon DEF MarkStore, StoreByte, Move
  <2>2. /\ i[c] \in Index /\ byte[c] = map \cap ByteOf(i[c])
        /\ op[c].start <= i[c] /\ i[c] <= End(c) /\ i[c] < End(c)
        /\ op[c].start .. (i[c] - 1) \cap Index \subseteq map
    BY <1>1, <2>1, Zenon DEF InProgress
  <2>3. map' = map \cup {i[c]}
    BY <1>6, <1>13, <2>2, Zenon DEF MarkStore, StoreByte, ByteOf
  <2> QED
    BY <1>7, <2>1, <2>2, <2>3, Zenon DEF InProgress
<1>14. CASE Count(c)
  <2>1. /\ pc[c] = "count" /\ pc'[c] = "mark" /\ UNCHANGED <<map, index, op, granted>>
        /\ i'[c] = i[c] + 1
    BY <1>5, <1>14, Zenon DEF Count, StoreCounter, Move
  <2>2. /\ op[c].start <= i[c] /\ i[c] < End(c) /\ i[c] \in map
        /\ op[c].start .. (i[c] - 1) \cap Index \subseteq map
    BY <1>1, <2>1, Zenon DEF InProgress
  <2>3. op[c].start <= i[c] + 1 /\ i[c] + 1 <= End(c) /\ (i[c] + 1) - 1 = i[c]
    BY <1>3, <1>4, <2>2, OneFurther, Zenon
  <2>4. op[c].start .. i[c] \cap Index \subseteq map
    BY <1>3, <2>2, OneMoreMarked
  <2> QED
    BY <1>7, <2>1, <2>3, <2>4, Zenon DEF InProgress
<1>15. CASE UnlockLoad(c)
  <2>1. CASE pc'[c] = "null_end"
    BY <1>8, <2>1, Zenon
  <2>2. CASE pc'[c] # "null_end"
    <3>1. /\ \/ pc[c] = "lock_btr" /\ pc'[c] = "lock_end"
             \/ pc[c] = "request_btr" /\ pc'[c] = "request_end"
          /\ UNCHANGED <<op, i, byte, reg, map, index, granted>>
      BY <1>1, <1>5, <1>15, <2>2, Zenon
      DEF UnlockLoad, frameLocals, Move, Holds, Outside, Searching
    <3>2. op[c].start .. (End(c) - 1) \cap Index \subseteq map
      BY <1>1, <3>1, Zenon DEF InProgress, Start
    <3> QED
      BY <1>7, <3>1, <3>2, Zenon DEF InProgress
  <2> QED
    BY <2>1, <2>2, Zenon
<1>16. CASE UnlockStore(c)
  <2>1. CASE pc'[c] = "idle"
    BY <1>8, <2>1, Zenon
  <2>2. CASE pc'[c] # "idle"
    <3>1. /\ pc[c] = "lock_end" /\ pc'[c] = "request_btr"
          /\ UNCHANGED <<op, i, byte, reg, map, index, granted>>
      BY <1>5, <1>16, <2>2, Zenon DEF UnlockStore, frameLocals, Move
    <3>2. op[c].start .. (End(c) - 1) \cap Index \subseteq map
      BY <1>1, <3>1, Zenon DEF InProgress, Start
    <3> QED
      BY <1>7, <3>1, <3>2, Zenon DEF InProgress
  <2> QED
    BY <2>1, <2>2, Zenon
<1>17. CASE Skip(c) \/ SpinRequest(c) \/ While(c)
  BY <1>5, <1>8, <1>17, Zenon DEF Skip, StoreIndex, SpinRequest, While, Move
<1>18. ASSUME Move(c, "idle", "request") PROVE InProgress(c)'
  BY <1>5, <1>8, <1>18, Zenon DEF Move
<1> QED
  BY <1>1, <1>9, <1>10, <1>11, <1>12, <1>13, <1>14, <1>15, <1>16, <1>17, <1>18,
    RequestActions, Zenon
  DEF RequestInv, FrameType

\* A step of c does not disturb the request of d: either c changes nothing
\* that is shared, or d has none in progress.
LEMMA InProgressOther ==
  ASSUME RequestsOnly, RequestInv, NEW c \in CPU, NEW d \in CPU, c # d, Call(c) \/ Step(c)
  PROVE  InProgress(d)'
<1>1. /\ pc'[d] = pc[d] /\ op'[d] = op[d] /\ i'[d] = i[d] /\ byte'[d] = byte[d]
      /\ reg'[d] = reg[d]
  BY OthersStay, Zenon DEF RequestInv, FrameType
<1>2. CASE pc[c] \in Outside
  <2>1. map' = map /\ index' = index /\ granted' = granted
    BY <1>2, Grows, Zenon
  <2>2. InProgress(d)
    BY Zenon DEF RequestInv, Block, InProgress
  <2> QED
    BY <1>1, <2>1, <2>2, Zenon DEF InProgress, Taken, Start, End
<1>3. CASE pc[c] \notin Outside
  BY <1>1, <1>3, Alone, Zenon DEF InProgress, Taken, Marking, Outside
<1> QED
  BY <1>2, <1>3, Zenon

\* A block that ends where another begins, or before, shares no frame with it.
LEMMA Apart ==
  ASSUME NEW g \in Nat \X Nat, NEW n \in Nat \X Nat, g[1] + g[2] <= n[1]
  PROVE  Frames(g) \cap Frames(n) = {}
<1>1. g[1] \in Nat /\ g[2] \in Nat /\ n[1] \in Nat /\ n[2] \in Nat
  OBVIOUS
<1>2. ASSUME NEW x \in Frames(g), x \in Frames(n) PROVE FALSE
  <2>1. x \in Int /\ x <= g[1] + g[2] - 1 /\ n[1] <= x
    BY <1>1, <1>2 DEF Frames
  <2> QED
    BY <1>1, <2>1
<1> QED
  BY <1>2, Zenon

\* Two blocks handed out share no frame.
LEMMA GrantedApart ==
  ASSUME RequestsOnly, RequestInv, NEW c \in CPU, Call(c) \/ Step(c),
         NEW d \in CPU, NEW e \in CPU, NEW a \in granted'[d], NEW b \in granted'[e],
         <<d, a>> # <<e, b>>
  PROVE  Frames(a) \cap Frames(b) = {}
<1>1. CASE a \in granted[d] /\ b \in granted[e]
  BY <1>1, Zenon DEF RequestInv
<1>2. CASE ~(a \in granted[d] /\ b \in granted[e])
  <2> DEFINE new == <<op[c].start, op[c].pages>>
  <2>1. /\ pc[c] = "request_end"
        /\ granted' = [granted EXCEPT ![c] = @ \cup {new}]
    BY <1>2, Grows, Zenon
  <2>2. /\ op[c].start \in Nat /\ op[c].pages \in Nat
        /\ \A f \in CPU : \A g \in granted[f] :
             g \in Nat \X Nat /\ g[1] + g[2] <= op[c].start
    BY <2>1, Zenon DEF RequestInv, Block, InProgress, Taken, FrameType, TypeOK
  <2>3. /\ a \in granted[d] \/ (d = c /\ a = new)
        /\ b \in granted[e] \/ (e = c /\ b = new)
    BY <2>1, Zenon DEF RequestInv, FrameType, TypeOK
  <2>4. \A f \in CPU : \A g \in granted[f] : Frames(g) \cap Frames(new) = {}
    <3>1. new \in Nat \X Nat /\ new[1] = op[c].start
      BY <2>2, Zenon
    <3> QED
      BY <2>2, <3>1, Apart, Zenon
  <2> QED
    BY <1>2, <2>3, <2>4, Zenon
<1> QED
  BY <1>1, <1>2, Zenon

\* The invariant holds initially: nothing is locked or handed out.
LEMMA RequestInvInit == Init => RequestInv
<1> SUFFICES ASSUME Init PROVE RequestInv
  OBVIOUS
<1>1. FrameType /\ Nested
  BY FrameTypeInit, NestedInit, Zenon DEF Init
<1>2. \A c \in CPU : Holds(c) /\ Block(c)
  BY Zenon DEF Init, WordInit, Holds, Block, InProgress, Taken, Outside, Searching, Marking
<1> QED
  BY <1>1, <1>2, Zenon DEF Init, RequestInv

\* Every step preserves it.
LEMMA RequestInvStep == RequestsOnly /\ RequestInv /\ [Next]_vars => RequestInv'
<1> SUFFICES ASSUME RequestsOnly, RequestInv, [Next]_vars PROVE RequestInv'
  OBVIOUS
<1>1. ASSUME NEW c \in CPU, Call(c) \/ Step(c) PROVE RequestInv'
  <2>1. FrameType'
    BY <1>1, FrameTypeStep, Zenon DEF RequestInv
  <2>2. Nested'
    BY <1>1, RequestWord, RequestEntry, NestedStep, Zenon DEF RequestInv, FrameType
  <2>3. ASSUME NEW d \in CPU PROVE Holds(d)'
    <3>1. CASE d = c
      BY <1>1, <3>1, HoldsStep, Zenon DEF RequestInv, FrameType
    <3>2. CASE d # c
      <4>1. /\ pc'[d] = pc[d] /\ op'[d] = op[d]
            /\ held'[d] = held[d] /\ releasing'[d] = releasing[d]
        BY <1>1, <3>2, OthersStay, Zenon DEF RequestInv, FrameType
      <4> QED
        BY <4>1, Zenon DEF RequestInv, Holds
    <3> QED
      BY <3>1, <3>2, Zenon
  <2>4. ASSUME NEW d \in CPU PROVE Block(d)'
    BY <1>1, GrantedBelow, InProgressStep, InProgressOther, Zenon DEF Block, Frames
  <2>5. \A d, e \in CPU : \A a \in granted'[d], b \in granted'[e] :
          <<d, a>> # <<e, b>> => Frames(a) \cap Frames(b) = {}
    BY <1>1, GrantedApart, Zenon
  <2> QED
    BY <2>1, <2>2, <2>3, <2>4, <2>5, Zenon DEF RequestInv, Frames
<1>2. CASE UNCHANGED vars
  <2>1. FrameType' /\ Nested'
    BY <1>2, Zenon DEF vars, wordVars, frameVars, RequestInv, FrameType, TypeOK, WordTypeOK, Nested
  <2>2. ASSUME NEW c \in CPU PROVE Holds(c)'
    <3>1. Holds(c)
      BY Zenon DEF RequestInv
    <3> QED
      BY <1>2, <3>1, Zenon DEF vars, wordVars, frameVars, Holds
  <2>3. ASSUME NEW c \in CPU PROVE Block(c)'
    <3>1. Block(c)
      BY Zenon DEF RequestInv
    <3>2. InProgress(c)'
      BY <1>2, <3>1, Zenon DEF vars, frameVars, Block, InProgress, Taken, Start, End
    <3> QED
      BY <1>2, <3>1, <3>2, Zenon DEF vars, frameVars, Block
  <2>4. \A d, e \in CPU : \A a \in granted[d], b \in granted[e] :
          <<d, a>> # <<e, b>> => Frames(a) \cap Frames(b) = {}
    BY Zenon DEF RequestInv
  <2>5. granted' = granted
    BY <1>2, Zenon DEF vars, frameVars
  <2>6. \A d, e \in CPU : \A a \in granted'[d], b \in granted'[e] :
          <<d, a>> # <<e, b>> => Frames(a) \cap Frames(b) = {}
    BY <2>4, <2>5
  <2> QED
    BY <2>1, <2>2, <2>3, <2>6, Zenon DEF RequestInv, Frames
<1> QED
  BY <1>1, <1>2, Zenon DEF Next

\* While the CPUs only request frames, no frame is in two blocks handed out,
\* and every frame handed out is marked in the bitmap: for any number of CPUs,
\* any memory map and any request sizes.
THEOREM RequestsExclusive ==
  ASSUME RequestsOnly PROVE Spec => []GrantsExclusive
<1>1. Init => RequestInv
  BY RequestInvInit, Zenon
<1>2. RequestInv /\ [Next]_vars => RequestInv'
  BY RequestInvStep, Zenon
<1>3. RequestInv => GrantsExclusive
  BY Zenon DEF RequestInv, Block, GrantsExclusive
<1> QED
  BY <1>1, <1>2, <1>3, PTL DEF Spec

\* And s_mutex then works as three locks, in spite of the unlocked "btr".
THEOREM RequestsMutex ==
  ASSUME RequestsOnly
  PROVE  Spec => [](MutualExclusion /\ WordIsHeld) /\ ImplementsMutex
<1>1. Init => RequestInv /\ WordInit
  BY RequestInvInit, Zenon DEF Init
<1>2. RequestInv /\ [Next]_vars => RequestInv'
  BY RequestInvStep, Zenon
<1>3. RequestInv /\ [Next]_vars => [WordNext]_wordVars
  <2>1. ASSUME RequestInv, NEW c \in CPU, Call(c) \/ Step(c) PROVE [WordNext]_wordVars
    BY <2>1, RequestWord, Zenon DEF RequestInv, FrameType
  <2>2. UNCHANGED vars => UNCHANGED wordVars
    BY Zenon DEF vars
  <2> QED
    BY <2>1, <2>2, Zenon DEF Next
<1>4. Spec => WordSpec
  BY <1>1, <1>2, <1>3, PTL DEF Spec, WordSpec
<1> QED
  BY <1>4, RequestEntry, SafeWord, WordRefinesMutex, PTL

-----------------------------------------------------------------------------
(* The counter of used pages. *)

\* The frames of the request on c that s_memory_used_size counts already.
Done(c) ==
  IF pc[c] \in {"mark", "mark_store", "count"} THEN Start(c) .. (i[c] - 1)
  ELSE IF pc[c] \in {"lock_btr", "lock_end", "request_btr", "request_end"}
       THEN Start(c) .. (End(c) - 1)
       ELSE {}

CountedFrames == {k \in Index : k \in Granted \/ \E c \in CPU : k \in Done(c)}

\* The counter is what pageframe_init counted and these frames, and the value a
\* request has loaded to add to is not stale.
UsedInv ==
  /\ size["used"] = 1 + Cardinality(Frames(KernelPages) \cap Index) + Cardinality(CountedFrames)
  /\ \A c \in CPU : pc[c] = "count" => reg[c] = size["used"]

\* What a step of a request adds to them: nothing, or the frame it counts.
LEMMA DoneStep ==
  ASSUME RequestsOnly, RequestInv, NEW c \in CPU, Call(c) \/ Step(c)
  PROVE  \/ /\ pc[c] # "count" /\ granted' = granted /\ size' = size
            /\ \A k \in Index : k \in Done(c)' <=> k \in Done(c)
         \/ /\ pc[c] = "request_end" /\ size' = size /\ Done(c)' = {}
            /\ granted' = [granted EXCEPT ![c] = @ \cup {<<op[c].start, op[c].pages>>}]
         \/ /\ pc[c] = "count" /\ granted' = granted
            /\ size' = [size EXCEPT !["used"] = reg[c] + 1]
            /\ Done(c)' = Done(c) \cup {i[c]} /\ i[c] \in Index \ Done(c)
<1>1. /\ i[c] \in Nat /\ op[c].start \in Nat /\ op[c].pages \in Nat /\ End(c) \in Nat
      /\ Start(c) = op[c].start /\ End(c) = op[c].start + op[c].pages
  BY DEF RequestInv, FrameType, TypeOK, Start, End
<1>2. /\ c \in DOMAIN pc /\ c \in DOMAIN op /\ c \in DOMAIN i /\ c \in DOMAIN reg
      /\ map \subseteq Index
  BY Zenon DEF RequestInv, FrameType, TypeOK
<1>3. InProgress(c) /\ Holds(c)
  BY Zenon DEF RequestInv, Block
<1> DEFINE Nothing == /\ pc[c] # "count" /\ granted' = granted /\ size' = size
                      /\ \A k \in Index : k \in Done(c)' <=> k \in Done(c)
<1>4. ASSUME NEW from, NEW to, Move(c, from, to), granted' = granted, size' = size,
             from \in {"idle", "request", "while", "for", "skip", "take", "null_btr", "null_end"},
             to \in {"idle", "request", "while", "for", "skip", "take", "lock", "null_btr", "null_end"}
      PROVE  Nothing
  BY <1>2, <1>4, Zenon DEF Move, Done
<1>5. CASE For(c) \/ Skip(c) \/ Take(c) \/ SpinRequest(c) \/ While(c)
  <2>1. granted' = granted /\ size' = size
    BY <1>5, Zenon DEF For, Probe, Skip, Take, StoreIndex, SpinRequest, While
  <2>2. \E from \in {"request", "while", "for", "skip", "take"},
           to \in {"while", "for", "skip", "take", "lock", "null_btr"} : Move(c, from, to)
    BY <1>5, Zenon DEF For, Probe, Skip, Take, StoreIndex, SpinRequest, While
  <2> QED BY <1>4, <2>1, <2>2, Zenon
<1>6. CASE SpinLock(c)
  <2>1. /\ pc[c] = "lock" /\ pc'[c] = "mark" /\ granted' = granted /\ size' = size
        /\ i'[c] = op[c].start /\ op' = op
    BY <1>1, <1>2, <1>6, Zenon DEF SpinLock, Move
  <2>2. Start(c)' = op[c].start BY <2>1, Zenon DEF Start
  <2>3. op[c].start .. (op[c].start - 1) = {} BY <1>1
  <2> QED BY <2>1, <2>2, <2>3, Zenon DEF Done
<1>7. CASE MarkBit(c)
  <2>1. /\ pc[c] = "mark" /\ granted' = granted /\ size' = size /\ op' = op
        /\ Start(c)' = Start(c) /\ End(c)' = End(c)
    BY <1>7, Zenon DEF MarkBit, Move, Start, End
  <2>2. \/ pc'[c] = "lock_btr" /\ i[c] = End(c)
        \/ pc'[c] = "mark" /\ i'[c] = i[c] + 1 /\ i[c] \notin Index
        \/ pc'[c] \in {"count", "mark_store"} /\ i' = i
    BY <1>2, <1>7, Zenon DEF MarkBit, Move
  <2>3. CASE i'[c] = i[c] + 1 /\ pc'[c] = "mark" /\ i[c] \notin Index
    <3>1. Start(c) .. ((i[c] + 1) - 1) = Start(c) .. i[c] /\ Start(c) <= i[c]
      BY <1>1, <1>3, <2>1 DEF InProgress
    <3>2. \A k : k \in Start(c) .. i[c] <=> k \in Start(c) .. (i[c] - 1) \/ k = i[c]
      BY <1>1, <3>1
    <3> QED BY <2>1, <2>3, <3>1, <3>2, Zenon DEF Done
  <2> QED BY <2>1, <2>2, <2>3, Zenon DEF Done
<1>8. CASE MarkStore(c)
  BY <1>2, <1>8, Zenon DEF MarkStore, StoreByte, Move, Done, Start
<1>9. CASE Count(c)
  <2>1. /\ pc[c] = "count" /\ pc'[c] = "mark" /\ granted' = granted /\ op' = op
        /\ i'[c] = i[c] + 1 /\ size' = [size EXCEPT ![CounterOf(op[c].kind)] = reg[c] + 1]
    BY <1>2, <1>9, Zenon DEF Count, StoreCounter, Move
  <2>2. CounterOf(op[c].kind) = "used" BY <1>3, <2>1, Zenon DEF Holds, CounterOf
  <2>3. Start(c) <= i[c] /\ i[c] \in Index BY <1>1, <1>2, <1>3, <2>1, Zenon DEF InProgress
  <2>4. /\ Done(c) = Start(c) .. (i[c] - 1) /\ Done(c)' = Start(c) .. ((i[c] + 1) - 1)
    BY <2>1, Zenon DEF Done, Start
  <2>5. Start(c) .. ((i[c] + 1) - 1) = Start(c) .. (i[c] - 1) \cup {i[c]} /\ i[c] \notin Start(c) .. (i[c] - 1)
    BY <1>1, <2>3
  <2> QED BY <2>1, <2>2, <2>3, <2>4, <2>5, Zenon
<1>10. CASE UnlockLoad(c)
  <2>1. granted' = granted /\ size' = size /\ op' = op /\ i' = i
    BY <1>10, Zenon DEF UnlockLoad, frameLocals
  <2>2. \/ pc[c] = "lock_btr" /\ pc'[c] = "lock_end"
        \/ pc[c] = "request_btr" /\ pc'[c] = "request_end"
        \/ pc[c] = "null_btr" /\ pc'[c] = "null_end"
    BY <1>2, <1>3, <1>10, Zenon DEF UnlockLoad, Move, Holds, Outside, Searching, Marking
  <2> QED BY <2>1, <2>2, Zenon DEF Done, Start, End
<1>11. CASE UnlockStore(c)
  <2>1. size' = size BY <1>11, Zenon DEF UnlockStore
  <2>2. CASE pc[c] = "lock_end"
    <3>1. pc'[c] = "request_btr" /\ granted' = granted /\ op' = op /\ i' = i
      BY <1>2, <1>3, <1>11, <2>2, Zenon DEF UnlockStore, Move, frameLocals, Holds
    <3> QED BY <2>1, <2>2, <3>1, Zenon DEF Done, Start, End
  <2>3. CASE pc[c] # "lock_end"
    <3>1. pc'[c] = "idle" /\ \/ pc[c] = "null_end" /\ granted' = granted
                             \/ pc[c] = "request_end" /\ granted' = [granted EXCEPT ![c] = @ \cup {<<op[c].start, op[c].pages>>}]
      BY <1>2, <1>3, <1>11, <2>3, Zenon DEF UnlockStore, Move, Holds, Outside, Searching, Marking
    <3> QED BY <2>1, <3>1, Zenon DEF Done
  <2> QED BY <2>2, <2>3, Zenon
<1>12. ASSUME NEW o \in Calls, Move(c, "idle", "request"), granted' = granted, size' = size
       PROVE  Nothing
  BY <1>4, <1>12, Zenon
<1> QED
  BY <1>3, <1>5, <1>6, <1>7, <1>8, <1>9, <1>10, <1>11, <1>12, RequestActions, Zenon
  DEF RequestInv, FrameType

\* A frame that is handed out is one of some block.
LEMMA GrantedIs == \A k : k \in Granted <=> \E d \in CPU : \E b \in granted[d] : k \in Frames(b)
  BY Zenon DEF Granted

\* A step counts a frame that was not counted before, or none.
LEMMA CountedStep ==
  ASSUME RequestsOnly, RequestInv, NEW c \in CPU, Call(c) \/ Step(c)
  PROVE  \/ CountedFrames' = CountedFrames /\ size' = size /\ pc[c] # "count"
         \/ /\ CountedFrames' = CountedFrames \cup {i[c]} /\ i[c] \notin CountedFrames
            /\ pc[c] = "count" /\ size' = [size EXCEPT !["used"] = reg[c] + 1]
<1>1. \A d \in CPU \ {c} : Done(d)' = Done(d)
  BY OthersStay, Zenon DEF RequestInv, FrameType, Done, Start, End
<1>2. /\ \A k : k \in Granted <=> \E d \in CPU : \E b \in granted[d] : k \in Frames(b)
      /\ \A k : k \in Granted' <=> \E d \in CPU : \E b \in granted'[d] : k \in Frames(b)
  BY GrantedIs, Zenon DEF Granted
<1>3. CASE /\ pc[c] # "count" /\ granted' = granted /\ size' = size
           /\ \A k \in Index : k \in Done(c)' <=> k \in Done(c)
  BY <1>1, <1>2, <1>3, Zenon DEF CountedFrames
<1>4. CASE /\ pc[c] = "request_end" /\ size' = size /\ Done(c)' = {}
           /\ granted' = [granted EXCEPT ![c] = @ \cup {<<op[c].start, op[c].pages>>}]
  <2>1. op[c].start \in Nat /\ op[c].pages \in Nat
    BY Zenon DEF RequestInv, FrameType, TypeOK
  <2>2. \A k : k \in Done(c) <=> k \in Frames(<<op[c].start, op[c].pages>>)
    <3>1. /\ pc[c] \notin {"mark", "mark_store", "count"}
          /\ pc[c] \in {"lock_btr", "lock_end", "request_btr", "request_end"}
      BY <1>4, Zenon
    <3>2. Done(c) = Start(c) .. (End(c) - 1) BY <3>1, Zenon DEF Done
    <3>3. Start(c) = op[c].start /\ End(c) = op[c].start + op[c].pages BY Zenon DEF Start, End
    <3>4. \A k : k \in Start(c) .. (End(c) - 1) <=> k \in Frames(<<op[c].start, op[c].pages>>)
      BY <2>1, <3>3 DEF Frames
    <3> QED BY <3>2, <3>4, Zenon
  <2>3. \A d \in CPU : \A b : b \in granted'[d] <=>
          b \in granted[d] \/ (d = c /\ b = <<op[c].start, op[c].pages>>)
    BY <1>4, Zenon DEF RequestInv, FrameType, TypeOK
  <2>4. \A k : k \in Granted' <=> k \in Granted \/ k \in Done(c)
    BY <1>2, <2>2, <2>3, Zenon
  <2> QED BY <1>1, <1>4, <2>4, Zenon DEF CountedFrames
<1>5. CASE /\ pc[c] = "count" /\ granted' = granted
           /\ size' = [size EXCEPT !["used"] = reg[c] + 1]
           /\ Done(c)' = Done(c) \cup {i[c]} /\ i[c] \in Index \ Done(c)
  <2>1. i[c] \in Nat /\ op[c].start \in Nat /\ op[c].start <= i[c]
    BY <1>5, Zenon DEF RequestInv, FrameType, TypeOK, Block, InProgress
  <2>2. \A d \in CPU : \A b \in granted[d] : b \in Nat \X Nat /\ b[1] + b[2] <= op[c].start
    BY <1>5, Zenon DEF RequestInv, FrameType, TypeOK, Block, InProgress, Taken, Marking
  <2>3. ASSUME NEW d \in CPU, NEW b \in granted[d] PROVE i[c] \notin Frames(b)
    <3>1. b[1] \in Nat /\ b[2] \in Nat /\ b[1] + b[2] <= op[c].start BY <2>2
    <3> QED BY <2>1, <3>1 DEF Frames
  <2>4. i[c] \notin Granted BY <1>2, <2>3, Zenon
  <2>5. \A d \in CPU \ {c} : Done(d) = {}
    BY <1>5, Alone, Zenon DEF Done, Outside
  <2>6. i[c] \notin CountedFrames BY <1>5, <2>4, <2>5, Zenon DEF CountedFrames
  <2>7. Granted' = Granted BY <1>2, <1>5, Zenon
  <2>8. CountedFrames' = CountedFrames \cup {i[c]}
    BY <1>1, <1>5, <2>7, Zenon DEF CountedFrames
  <2> QED BY <1>5, <2>6, <2>8, Zenon
<1> QED BY <1>3, <1>4, <1>5, DoneStep, Zenon

\* The bitmap accepts finitely many frames.
LEMMA CountedFinite == IsFiniteSet(CountedFrames) /\ Cardinality(CountedFrames) \in Nat
<1>1. Size \in Int BY FrameAssumption DEF Size
<1>2. IsFiniteSet(Index) BY <1>1, FS_Interval DEF Index
<1>3. CountedFrames \in SUBSET Index BY Zenon DEF CountedFrames
<1> QED BY <1>2, <1>3, FS_Subset, FS_CardinalityType

\* So does the part of the kernel it has bits for.
LEMMA KernelFinite == Cardinality(Frames(KernelPages) \cap Index) \in Nat
<1>1. Size \in Int BY FrameAssumption DEF Size
<1>2. IsFiniteSet(Index) BY <1>1, FS_Interval DEF Index
<1> QED BY <1>2, FS_Subset, FS_CardinalityType

\* Every step keeps the count.
LEMMA UsedStep ==
  ASSUME RequestsOnly, RequestInv, UsedInv, NEW c \in CPU, Call(c) \/ Step(c)
  PROVE  UsedInv'
<1>1. size \in [Counters -> Nat] /\ "used" \in Counters
  BY Zenon DEF RequestInv, FrameType, TypeOK, Counters
<1>2. size'["used"] = 1 + Cardinality(Frames(KernelPages) \cap Index) + Cardinality(CountedFrames')
  <2>1. CASE CountedFrames' = CountedFrames /\ size' = size
    BY <2>1, Zenon DEF UsedInv
  <2>2. CASE /\ CountedFrames' = CountedFrames \cup {i[c]} /\ i[c] \notin CountedFrames
             /\ pc[c] = "count" /\ size' = [size EXCEPT !["used"] = reg[c] + 1]
    <3>1. size'["used"] = size["used"] + 1 BY <1>1, <2>2, Zenon DEF UsedInv
    <3>2. Cardinality(CountedFrames') = Cardinality(CountedFrames) + 1
      BY <2>2, CountedFinite, FS_AddElement
    <3> QED BY <1>1, <3>1, <3>2, CountedFinite, KernelFinite DEF UsedInv
  <2> QED BY <2>1, <2>2, CountedStep, Zenon
<1>3. ASSUME NEW d \in CPU, pc'[d] = "count" PROVE reg'[d] = size'["used"]
  <2>1. CASE d = c
    <3>1. MarkBit(c) \/ MarkStore(c)
      BY <1>3, <2>1, RequestActions, Zenon DEF RequestInv, FrameType, TypeOK, SpinRequest, While, For, Probe, Skip, Take,
        StoreIndex, SpinLock, Count, StoreCounter, UnlockLoad, UnlockStore, Move
    <3>2. /\ pc[c] \in {"mark", "mark_store"} /\ size' = size
          /\ reg' = [reg EXCEPT ![c] = Counter(c)]
      BY <1>3, <2>1, <3>1, Zenon DEF RequestInv, FrameType, TypeOK, MarkBit, MarkStore, StoreByte, Move
    <3>3. Counter(c) = size["used"]
      BY <3>2, Zenon DEF RequestInv, Holds, Counter, CounterOf
    <3> QED BY <2>1, <3>2, <3>3, Zenon DEF RequestInv, FrameType, TypeOK
  <2>2. CASE d # c
    <3>1. pc[d] = "count" /\ reg'[d] = reg[d]
      BY <1>3, <2>2, OthersStay, Zenon DEF RequestInv, FrameType
    <3>2. pc[c] \in Outside BY <2>2, <3>1, Alone, Zenon DEF Outside
    <3>3. size' = size BY <3>2, CountedStep, Zenon DEF Outside
    <3> QED BY <3>1, <3>3, Zenon DEF UsedInv
  <2> QED BY <2>1, <2>2, Zenon
<1> QED BY <1>2, <1>3, Zenon DEF UsedInv

\* pageframe_lock and pageframe_reserve of a range, field by field.
LEMMA MarkUsed ==
  ASSUME NEW s, NEW b, DOMAIN s = {"map", "used", "reserved"}
  PROVE  /\ Mark(s, b, "used").used = s.used + Cardinality(Frames(b) \cap Index)
         /\ DOMAIN Mark(s, b, "used") = {"map", "used", "reserved"}
         /\ Mark(s, b, "reserved").used = s.used
  BY Zenon DEF Mark

\* What pageframe_init counts as used: the page of the bitmap, when that has a
\* bit, and the kernel.
LEMMA BootUsed ==
  ASSUME NEW mm \in MemoryMaps, NEW junk, LargestUsable(mm)[1] \in Index
  PROVE  pageframe_init(mm, junk).used = 1 + Cardinality(Frames(KernelPages) \cap Index)
<1> DEFINE l == LargestUsable(mm)[1]
<1>1. PICK m, r : pageframe_init(mm, junk)
          = Mark(Mark(Mark([map |-> m, used |-> 0, reserved |-> r], <<l, 1>>, "used"), KernelPages, "used"),
                 <<0, InitialReserve>>, "reserved")
  BY Zenon DEF pageframe_init
<1> DEFINE s == [map |-> m, used |-> 0, reserved |-> r]
           t == Mark(s, <<l, 1>>, "used")
           u == Mark(t, KernelPages, "used")
<1>2. DOMAIN s = {"map", "used", "reserved"} /\ s.used = 0 BY Zenon
<1> HIDE DEF s
<1>3. DOMAIN t = {"map", "used", "reserved"} /\ t.used = 0 + Cardinality(Frames(<<l, 1>>) \cap Index)
  BY <1>2, MarkUsed
<1> HIDE DEF t
<1>4. DOMAIN u = {"map", "used", "reserved"} /\ u.used = t.used + Cardinality(Frames(KernelPages) \cap Index)
  BY <1>3, MarkUsed
<1> HIDE DEF u
<1>5. Mark(u, <<0, InitialReserve>>, "reserved").used = u.used BY <1>4, MarkUsed
<1>6. Cardinality(Frames(<<l, 1>>) \cap Index) = 1
  <2>1. l \in Int BY FrameAssumption DEF Index
  <2>2. Frames(<<l, 1>>) \cap Index = {l} BY <2>1 DEF Frames
  <2> QED BY <2>2, FS_Singleton, Zenon
<1>7. Cardinality(Frames(KernelPages) \cap Index) \in Nat BY KernelFinite, Zenon
<1>8. pageframe_init(mm, junk).used = u.used BY <1>1, <1>5, Zenon DEF s, t, u
<1> QED BY <1>3, <1>4, <1>6, <1>7, <1>8

\* The region that holds the bitmap begins where the bitmap has a bit.
BitmapInside == \A mm \in MemoryMaps : LargestUsable(mm)[1] \in Index

\* Nothing is handed out and nothing counted when the allocator has been set up.
LEMMA UsedInit ==
  ASSUME BitmapInside, Init PROVE UsedInv
<1>1. size["used"] = 1 + Cardinality(Frames(KernelPages) \cap Index)
  <2>1. PICK s \in BootStates : size = [used |-> s.used, reserved |-> s.reserved]
    BY Zenon DEF Init
  <2>2. PICK mm \in MemoryMaps, junk \in SUBSET {Size} : s = pageframe_init(mm, junk)
    BY DEF BootStates
  <2>3. size["used"] = s.used BY <2>1, Zenon
  <2> QED BY <2>2, <2>3, BootUsed, Zenon DEF BitmapInside
<1>2. CountedFrames = {} BY Zenon DEF Init, CountedFrames, Granted, Done
<1> QED BY <1>1, <1>2, KernelFinite, FS_EmptySet DEF UsedInv, Init

\* While the CPUs only request frames, s_memory_used_size between calls is what
\* pageframe_init counted and one page per frame handed out: no increment of the
\* load and store in pageframe_manipulate is lost.
THEOREM RequestsCounted ==
  ASSUME RequestsOnly, BitmapInside PROVE Spec => []UsedCountsGrants
<1>1. Init => RequestInv /\ UsedInv
  BY RequestInvInit, UsedInit, Zenon
<1>2. RequestInv /\ UsedInv /\ [Next]_vars => RequestInv' /\ UsedInv'
  <2>1. ASSUME UsedInv, UNCHANGED vars PROVE UsedInv'
    BY <2>1, Zenon DEF vars, frameVars, UsedInv, CountedFrames, Granted, Done, Start, End
  <2> QED BY <2>1, RequestInvStep, UsedStep, Zenon DEF Next
<1>3. UsedInv => UsedCountsGrants
  <2> SUFFICES ASSUME UsedInv, Quiet PROVE UsedCountsGrants BY Zenon DEF UsedCountsGrants
  <2>1. CountedFrames = Granted \cap Index BY Zenon DEF CountedFrames, Done, Quiet
  <2> QED BY <2>1, Zenon DEF UsedInv, UsedCountsGrants
<1> QED
  BY <1>1, <1>2, <1>3, PTL DEF Spec
====
