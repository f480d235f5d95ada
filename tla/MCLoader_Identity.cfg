CONSTANTS
  Entries = 6
  Machines = {22}
  Kernel = 1
  IdentLimit = 22
  Fb = {23}
  HeapStart = 20
  Junk = 99
  MaxTasks = 3
  PrivatePage = 35
  HeapPages = 2
  Stores = {184}
  Written = 111
  Images <- MCImages
SPECIFICATION Spec
INVARIANT
  IdentityMapped
