CONSTANTS
  name1 = name1
  name2 = name2
  long2 = long2
  textX = textX
  textY = textY
  LastCluster = 5
  FatEnd = 5
  Rows = 4
  MaxCopies = 1
  PerSector = 8
  Short <- MCShort
  Paths <- Siblings
  Texts <- MCTexts
SPECIFICATION TreeSpec
INVARIANT
  RecursiveDeleteFreesAll
