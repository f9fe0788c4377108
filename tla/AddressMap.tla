------------------------------ MODULE AddressMap ------------------------------
(****************************************************************************)
(* What page tables promise: a map from pages to frames that changes at one *)
(* page at a time, and a set of writable pages that only grows, by a page   *)
(* that is mapped.                                                          *)
(****************************************************************************)
CONSTANTS Page, Frame, NoFrame

VARIABLES translation, writable

Init == translation = [v \in Page |-> NoFrame] /\ writable = {}

Map(v) ==
    /\ translation'[v] \in Frame
    /\ \A w \in Page \ {v} : translation'[w] = translation[w]
    /\ UNCHANGED writable

SetWritable(v) ==
    /\ translation[v] # NoFrame
    /\ writable' = writable \cup {v}
    /\ UNCHANGED translation

Next == \E v \in Page : Map(v) \/ SetWritable(v)

Spec == Init /\ [][Next]_<<translation, writable>>
==============================================================================
