SPECIFICATION Spec
CONSTANTS
  a = a
  b = b
  c = c
  Idle = Idle
  Thread = {a, b, c, Idle}
  NoThread = NoThread
  PrioMax = 3
  Sem = Sem
  WaitList = {Sem}
  Defunct = Defunct
  Flag = "PRIO"
  ValueSize = 3
  InitTick = 1
  MaxDelay = 2
  InitPrio <- MCInitPrio
  Prog <- MCProg
  DeleteTimed = TRUE
INVARIANTS
  ResumesAWaiter
