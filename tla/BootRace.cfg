CONSTANTS
  MaxTasks = 4
  MaxPid = 6
SPECIFICATION Spec
INVARIANT SwitchesToAContext
