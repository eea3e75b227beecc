SPECIFICATION FairSpec
CONSTANTS
  hard1 = hard1
  hard2 = hard2
  soft1 = soft1
  soft2 = soft2
  Timer = {hard1, hard2, soft1, soft2}
  Soft = {soft1, soft2}
  FuncTimer = {hard2, soft2}
  Controlled = {soft1}
  NoTimer = NoTimer
  App = App
  TimerThread = TimerThread
  TickSize = 11
  MaxTime = 2
  MaxLate = 0
  InitTime <- MCInitTime
  InitPeriodic = {hard2}
INVARIANTS
  ListsOrdered
PROPERTIES
  ServedOnTime
  SoftTimerServed
