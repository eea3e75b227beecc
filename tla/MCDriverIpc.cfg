SPECIFICATION Spec
CONSTANTS
  a = a
  b = b
  c = c
  Idle = Idle
  Thread = {a, b, c, Idle}
  NoThread = NoThread
  PrioMax = 3
  Helpers = {"mempool", "dataqueue", "completion", "workqueue", "heap", "pipe"}
  MpList = MpList
  PushList = PushList
  PopList = PopList
  CpList = CpList
  WqSem = WqSem
  WaitList = {MpList, PushList, PopList, CpList, WqSem, HeapSem, PipeLock}
  Defunct = Defunct
  Block = {k1, k2}
  MaxCount = 4
  DqSize = 2
  Lwm = 1
  IndexSize = 4
  Item = {d1, d2}
  NoItem = NoItem
  Worker = a
  Work = {w1, w2}
  NoWork = NoWork
  HeapSem = HeapSem
  HeapSize = 4
  MemSize = 1
  MinSizeAligned = 1
  MinSize = 1
  PipeLock = PipeLock
  BufSize = 2
  Byte = {0, 1, 2, 3, 4}
  NonBlock = {c}
  InitTick = 1
  MaxDelay = 1
  InitPrio <- MCInitPrio
  Prog <- MCProg
  Access <- MCAccess
  Payload <- MCPayload
SYMMETRY MCSymmetry
INVARIANTS
  NobodyStranded
  BlocksAccounted
  RingIsQueue
PROPERTIES
  DqImplementsQueue
  LfreeLostByRealloc
