------------------------------ MODULE MCContext ------------------------------
(* Instances of Context: two processors and two tasks.                      *)
EXTENDS Context
==============================================================================
