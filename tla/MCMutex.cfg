SPECIFICATION FairSpec
CONSTANTS
  M = M
  high = high
  mid = mid
  low = low
  Idle = Idle
  Thread = {high, mid, low, Idle}
  NoThread = NoThread
  PrioMax = 4
  WaitList = {M}
  Mutex = {M}
  Defunct = Defunct
  Flag = "PRIO"
  HoldSize = 4
  MaxDepth = 2
  InitTick = 1
  MaxDelay = 1
  InitPrio <- MCInitPrio
  Prog <- MCProg
INVARIANTS
  TypeOK
  OwnerIsInside
  ResultIsOwnership
  WaiterHasOwner
  PriorityInheritance
  PriorityRestored
PROPERTIES
  HandOverToHighest
  HighestGetsMutex
