CONSTANTS
  MaxTasks = 4
  MaxPid = 7
SPECIFICATION FairSpec
INVARIANTS
  TypeOK
  ContextsAreOwn
  RingIsTablePrefix
  NoLostWakeup
  OwnAddressSpace
  IInv
PROPERTIES
  WokenOnlyByExit
  ReadyRuns
  WaiterReturns
  ImplementsProcesses
