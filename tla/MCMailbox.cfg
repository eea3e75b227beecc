SPECIFICATION FairSpec
CONSTANTS
  a = a
  b = b
  c = c
  Idle = Idle
  Thread = {a, b, c, Idle}
  NoThread = NoThread
  PrioMax = 3
  Receivers = Receivers
  Senders = Senders
  WaitList = {Receivers, Senders}
  Defunct = Defunct
  Flag = "PRIO"
  Size = 2
  Word = {1, 2}
  NoWord = 0
  InitTick = 1
  MaxDelay = 2
  InitPrio <- MCInitPrio
  Prog <- MCProg
  Sends <- MCSends
INVARIANTS
  TypeOK
  NoStrandedThread
PROPERTIES
  ImplementsQueue
  TimedCallReturns
