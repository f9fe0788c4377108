---------------------------- MODULE MCPageFrame ----------------------------
(* Small instances of PageFrame: six or seven pages, two bits to a bitmap  *)
(* byte.  Six pages fill the bitmap's bytes; of seven, one has no byte.    *)
EXTENDS PageFrame

\* Two usable pages, one that is not (the kernel's), and usable pages up to
\* the end.
MCSixPages ==
  { << [block |-> <<0, 2>>, usable |-> TRUE],
       [block |-> <<2, 1>>, usable |-> FALSE],
       [block |-> <<3, 3>>, usable |-> TRUE] >> }
MCSevenPages ==
  { << [block |-> <<0, 2>>, usable |-> TRUE],
       [block |-> <<2, 1>>, usable |-> FALSE],
       [block |-> <<3, 4>>, usable |-> TRUE] >> }
MCKernelPages == <<2, 1>>

\* A page the boot code locks and two it reserves (one in use already).
MCRanges == { <<4, 1>>, <<0, 2>> }
MCNoRanges == {}
=============================================================================
