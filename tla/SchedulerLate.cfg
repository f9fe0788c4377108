\* More tasks than CPUs, created while the CPUs schedule; none exits.
SPECIFICATION FairSpec
CONSTANTS
  CPU = {c1,c2}
  Creator = {k}
  Node = {n1,n2,n3}
  QueuesNum = 1
  Idle = idle
  Null = null
  Wild = wild
  Finishing = FALSE
  LateCreate = TRUE
INVARIANT RingIntact
PROPERTIES SwitchEnds TaskRuns
