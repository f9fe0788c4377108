\* A task exits while another CPU searches the queue.
SPECIFICATION Spec
CONSTANTS
  CPU = {c1,c2}
  Creator = {k}
  Node = {n1,n2}
  QueuesNum = 1
  Idle = idle
  Null = null
  Wild = wild
  Finishing = TRUE
  LateCreate = FALSE
INVARIANT SearchSeesTasks
