CONSTANTS
  MaxTasks = 4
  MaxPid = 6
SPECIFICATION AnySpec
INVARIANT TaskCountIsAlive
