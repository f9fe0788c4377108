-------------------------------- MODULE Paging --------------------------------
(****************************************************************************)
(* paging.c: four levels of page tables in page frames, as functions from   *)
(* one state of memory to the next.  Addresses are page numbers; a table    *)
(* has Fan entries (512 in the code), and a page number has four digits in  *)
(* base Fan.  Tables come from pageframe_request.                           *)
(****************************************************************************)
EXTENDS Integers, TLC

CONSTANT Fan

ASSUME FanAssumption == Fan \in Nat \ {0, 1}

Page == 0..Fan^4 - 1
NoFrame == -1

ZeroEntry == [present |-> FALSE, writable |-> FALSE, cache |-> 0, frame |-> 0]
ZeroTable == [i \in 0..Fan - 1 |-> ZeroEntry]

\* Memory m: the frames the bitmap covers, those marked in it, where the search for a free one goes
\* on, the contents of the frames that hold page tables, and two things that must not happen: a
\* request found no frame; a walk left the page tables.
Memory(total, used) ==
    [total |-> total, used |-> used, index |-> 0, tables |-> <<>>, short |-> FALSE, stray |-> FALSE]

\* paging_get_indexes
Index(v, level) == (v \div Fan^(level - 1)) % Fan

------------------------------------------------------------------------------
\* pageframe_request, and the page that NULL is when there is none.
pageframe_request(m) ==
    LET free == {f \in m.index..m.total - 1 : f \notin m.used}
        f == CHOOSE f \in free : \A g \in free : f <= g
    IN IF free = {} THEN [m |-> [m EXCEPT !.index = m.total, !.short = TRUE], page |-> 0]
       ELSE [m |-> [m EXCEPT !.used = @ \cup {f}, !.index = f + 1], page |-> f]

\* A request, and the memset that makes it an empty table.
NewTable(m) ==
    LET r == pageframe_request(m)
    IN [r EXCEPT !.m.tables = (r.page :> ZeroTable) @@ @]

SetEntry(m, table, i, entry) == [m EXCEPT !.tables[table][i] = entry]

\* One level of paging_map_page: the table below, made if the entry is not present.
Descend(s, v, level) ==
    LET i == Index(v, level)
        entry == s.m.tables[s.page][i]
        new == NewTable(s.m)
    IN IF entry.present THEN [s EXCEPT !.page = entry.frame]
       ELSE [m |-> SetEntry(new.m, s.page, i, [entry EXCEPT !.present = TRUE, !.frame = new.page]),
             page |-> new.page]

\* The table at level 1 that maps v.
Leaf(m, root, v) == Descend(Descend(Descend([m |-> m, page |-> root], v, 4), v, 3), v, 2)

paging_map_page_ClearsEntry(m, root, v, p) ==
    LET s == Leaf(m, root, v)
    IN SetEntry(s.m, s.page, Index(v, 1), [ZeroEntry EXCEPT !.present = TRUE, !.frame = p])

\* The leaf keeps its flags; only the address and the present bit are written.
paging_map_page(m, root, v, p) ==
    LET s == Leaf(m, root, v)
    IN SetEntry(s.m, s.page, Index(v, 1),
                [s.m.tables[s.page][Index(v, 1)] EXCEPT !.present = TRUE, !.frame = p])

\* The walks of paging_set_attribute and paging_set_cache never look at the present bit: below an
\* entry that is not, they go on at frame 0.
Visit(s, v, level, writable) ==
    IF s.page \notin DOMAIN s.m.tables THEN [s EXCEPT !.m.stray = TRUE]
    ELSE LET i == Index(v, level)
             entry == s.m.tables[s.page][i]
         IN [m |-> SetEntry(s.m, s.page, i, [entry EXCEPT !.writable = @ \/ writable]),
             page |-> entry.frame]

VisitTables(m, root, v, writable) ==
    Visit(Visit(Visit([m |-> m, page |-> root], v, 4, writable), v, 3, writable), v, 2, writable)

paging_set_writable_LeafOnly(m, root, v) == Visit(VisitTables(m, root, v, FALSE), v, 1, TRUE).m

\* The attribute is set in the entries of all four levels.
paging_set_writable(m, root, v) == Visit(VisitTables(m, root, v, TRUE), v, 1, TRUE).m

\* The cache policy is set in the leaf alone.
paging_set_cache(m, root, v, mode) ==
    LET s == VisitTables(m, root, v, FALSE)
    IN IF s.page \notin DOMAIN s.m.tables THEN [s.m EXCEPT !.stray = TRUE]
       ELSE [s.m EXCEPT !.tables[s.page][Index(v, 1)].cache = mode]

------------------------------------------------------------------------------
(* What the processor does with the tables: a page is reached when every    *)
(* entry on the way is present, and writable when every entry says so.      *)

WalkStep(m, e, v, level) ==
    IF ~e.present \/ e.frame \notin DOMAIN m.tables THEN ZeroEntry
    ELSE LET f == m.tables[e.frame][Index(v, level)]
         IN [f EXCEPT !.writable = @ /\ e.writable]

Walk(m, root, v) ==
    LET top == [present |-> TRUE, writable |-> TRUE, cache |-> 0, frame |-> root]
    IN WalkStep(m, WalkStep(m, WalkStep(m, WalkStep(m, top, v, 4), v, 3), v, 2), v, 1)

Translate(m, root, v) == LET e == Walk(m, root, v) IN IF e.present THEN e.frame ELSE NoFrame
Writable(m, root, v) == LET e == Walk(m, root, v) IN e.present /\ e.writable
==============================================================================
