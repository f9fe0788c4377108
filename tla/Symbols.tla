------------------------------- MODULE Symbols -------------------------------
(****************************************************************************)
(* symbol.c: the map from addresses to the kernel's symbols, and the search *)
(* a stack trace makes in it.  A symbol table is a sequence of              *)
(* [st_value, st_name], where st_name tells whether there is a name.        *)
(****************************************************************************)
EXTENDS Integers, Sequences, SequencesExt

\* symbol_resolve's SYMBOL_FIND_FAIL, and what a read in front of the map or behind it yields.
FindFail == -1
OutOfMap == -2

Insert_Unordered(front, words, symbol) == Append(words, symbol)

\* One turn of the insertion sort.  The first "front" words lie in front of the map: j is unsigned,
\* so nothing stops the scan at the start of the map, and it goes on back to a word that is not
\* larger.  The words it passes move up, into the map, and the new symbol lands where it stopped.
Insert(front, words, symbol) ==
    LET fits == {j \in 1..Len(words) : words[j].address <= symbol.address}
    IN IF Len(words) = front THEN Append(words, symbol)
       ELSE InsertAt(words, Max(fits) + 1, symbol)

\* symbol_init: the symbols with a value, in order of their addresses; "before" holds the words in
\* front of the map, as far back as one that is smaller than every symbol.
symbol_map(before, table) ==
    LET symbols == SelectSeq([i \in DOMAIN table |-> [address |-> table[i].st_value, symbol_index |-> i]],
                             LAMBDA s : s.address # 0)
        words == [k \in DOMAIN before |-> [address |-> before[k], symbol_index |-> OutOfMap]]
        sorted == FoldLeft(LAMBDA w, s : Insert(Len(before), w, s), words, symbols)
    IN SubSeq(sorted, Len(before) + 1, Len(sorted))

RECURSIVE Search(_, _, _, _)

\* The loop of symbol_resolve over the indexes 1..Len(map); "high = mid - 1" wraps at the first one.
Search(map, address, low, high) ==
    LET mid == (low + high - 2) \div 2 + 1
    IN IF low > Len(map) - 1 THEN Len(map)
       ELSE IF low > high THEN FindFail
       ELSE IF map[mid].address <= address /\ map[mid + 1].address > address THEN mid
       ELSE IF map[mid].address > address
            THEN IF mid = 1 THEN OutOfMap ELSE Search(map, address, low, mid - 1)
            ELSE Search(map, address, mid + 1, high)

\* With fewer than two symbols "max - 1" wraps, and what lies behind the map decides.
symbol_resolve(map, address) ==
    IF Len(map) < 2 THEN OutOfMap ELSE Search(map, address, 1, Len(map))

\* symbol_lookup: from a run-time address to the symbol whose name is printed.
symbol_lookup(table, map, kernel_offset, address) ==
    LET k == symbol_resolve(map, address - kernel_offset)
        index == IF k \in DOMAIN map THEN map[k].symbol_index ELSE k
    IN IF index \in DOMAIN table /\ ~table[index].st_name THEN FindFail ELSE index
==============================================================================
