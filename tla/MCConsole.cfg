CONSTANTS
  Size = 3
  Cols = 3
  Lines = 2
  Lengths = {2, 3}
  Keyboards <- MCKeyboards
SPECIFICATION Spec
INVARIANTS
  TypeOK
  ModifiersAreHeld
  FitsTheBuffer
  EchoIsTheLine
PROPERTIES
  ImplementsTypeAhead
  KeysAreTaken
