CONSTANTS
  Entries = 6
  Machines = {19, 20}
  Kernel = 1
  IdentLimit = 19
  Fb = {23}
  HeapStart = 20
  Junk = 99
  MaxTasks = 3
  PrivatePage = 35
  HeapPages = 2
  Stores = {184, 120}
  Written = 111
  Images <- MCImages
SPECIFICATION Spec
INVARIANTS
  TypeOK
  FramesHaveOneUse
  KernelIsShared
  HolesOnlyWhenFull
PROPERTY
  ImplementsAddressSpaces
