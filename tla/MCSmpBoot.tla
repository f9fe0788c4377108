------------------------------ MODULE MCSmpBoot ------------------------------
(* Instances of SmpBoot.  The firmware lists the boot processor in the      *)
(* middle, so that the loop index and the context index part ways.          *)
EXTENDS SmpBoot

CONSTANTS b, a1, a2, a3

MCProcessors2 == <<a1, b, a2>>
MCProcessors3 == <<a1, b, a2, a3>>
\* Memory in one piece, memory with holes, memory that the last processor exhausts, and memory whose
\* end a request runs over.
MCAllFree == {{}}
MCReserved == {{}, {2, 4, 7, 9, 12, 13}, {3, 6, 10, 16} \cup 26..31, 20..31, 1..6}
==============================================================================
