CONSTANTS
  name1 = name1
  name2 = name2
  long2 = long2
  textX = textX
  textY = textY
  LastCluster = 5
  FatEnd = 6
  Rows = 2
  MaxCopies = 1
  PerSector = 4
  Short <- MCShort
  Paths <- MCPaths
  Texts <- MCTexts
SPECIFICATION TreeSpec
INVARIANTS
  TypeOK
  ChainsAreSound
  EntriesAreFound
  CacheIsCurrent
  ReadsTheWindow
  WriteReadsBack
  PowerLossKeepsOthers
  MvLosesNothing
PROPERTY
  ImplementsFiles
