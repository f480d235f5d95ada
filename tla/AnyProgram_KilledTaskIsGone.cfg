CONSTANTS
  MaxTasks = 4
  MaxPid = 6
SPECIFICATION ExecSpec
INVARIANT KilledTaskIsGone
