CONSTANTS
  PageWords = 5
  GrowPages = 2
  Frames = 5
  Sizes = {1, 4}
SPECIFICATION Spec
INVARIANT
  MallocReturns
