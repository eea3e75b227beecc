SPECIFICATION Spec
CONSTANTS
  h = h
  m = m
  n = n
  Idle = Idle
  Thread = {h, m, n, Idle}
  NoThread = NoThread
  PrioMax = 3
  WaitList = {}
  Defunct = Defunct
  InitTick = 1
  MaxDelay = 1
  Static = {n}
  Prog <- MCProg
  InitPrio <- MCInitPrio
  DeleteTimed = TRUE
INVARIANTS
  ClosedNotScheduled
