SPECIFICATION RuntimeSpec
CONSTANTS
  n1 = n1
  n2 = n2
  n3 = n3
  n4 = n4
  NULL = NULL
  RESERVED = RESERVED
  Objects = {o1, o2}
  Pool = 1
  kGrain = 2
  LastSlot = 3
  AgeBits = 2
  MaxDeallocs = 4
  Nodes <- MCNodes
  SingleMoves = FALSE
  Instances = {1, 2, 3, 4}
  MaxQuantity = 2
  RedimAfterResize = FALSE
  ModuleCount = 3
  MaxEngineTypes = 3
  Texts <- MCTexts
  Searches <- MCSearches
  Codepoints <- MCCodepoints
  MAX_OCCURRENCES = 3
  FileNumbers = {1, 2}
  Files = {"f"}
  Values <- MCValues
  MaxFileSize = 4
  Trees <- MCTrees
  Folders = {"home"}
  MaxDepth = 3
  MaxCommands = 3
INVARIANTS
  Consistent
  NumbersLead
  ArrayOwns
  ClosedInReverse
  TextPartsAgree
  FilesHold
  ValuesAgree
PROPERTIES
  ArrayKeepsOrder
  ImplementsSequence
  EmptyReturns
CHECK_DEADLOCK FALSE
