\* Tasks are created at boot, run on two CPUs and exit.
SPECIFICATION Spec
CONSTANTS
  CPU = {c1,c2}
  Creator = {k}
  Node = {n1,n2,n3}
  QueuesNum = 2
  Idle = idle
  Null = null
  Wild = wild
  Finishing = TRUE
  LateCreate = FALSE
SYMMETRY Symmetric
CHECK_DEADLOCK FALSE
INVARIANTS TypeOK RunsOnce RingIntact
PROPERTY ImplementsPool
