SPECIFICATION Spec
CONSTANTS
  a = a
  b = b
  Idle = Idle
  Thread = {a, b, Idle}
  NoThread = NoThread
  PrioMax = 2
  MqList = MqList
  EvList = EvList
  WaitList = {MqList, EvList}
  Defunct = Defunct
  MqFlag = "PRIO"
  MqMax = 2
  Msg = {m1, m2}
  Null = Null
  EvFlag = "FIFO"
  Bit = {e1, e2}
  InitTick = 1
  MaxDelay = 1
  InitPrio <- MCInitPrio
  Prog <- MCProg
SYMMETRY MCSymmetry
INVARIANTS
  NodesAccounted
  MqNoStrandedReceiver
  NoSatisfiedWaiter
PROPERTIES
  MqImplementsQueue
  ClearedOnce
