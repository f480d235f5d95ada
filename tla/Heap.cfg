CONSTANTS
  PageWords = 4
  GrowPages = 2
  Frames = 4
  Sizes = {1, 3, 6}
SPECIFICATION Spec
INVARIANTS
  TypeOK
  Tiling
  MagicIsTrue
PROPERTY
  ImplementsAllocator
