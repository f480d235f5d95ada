CONSTANTS
  Machines <- MCMachines
  Polls = 2
  Sectors = {0, 2}
  Bits28 = 4
  Lbas = {0, 1, 6}
  Values = {0, 1}
SPECIFICATION Spec
INVARIANTS
  TypeOK
  CommandsAreHeard
  DisksAreListed
PROPERTIES
  WritesStayOnDrive
  ImplementsSectorStore
  CallsReturn
