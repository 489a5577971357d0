SPECIFICATION MCSpec
CONSTANTS
  NULL = NULL
  EntrySizes = {0, 1, 4}
  Requests = {0, 1, 3, 9}
  MaxBlocks = 5
  FirstSizes = {2, 8, 10}
  Lengths = {0, 1, 2, 3, 5, 9}
  Modulus = 4096
  NameTokens = {"a", "b", "br", "root", "script", "x"}
  ElementNames <- MCElementNames
  AttributeNames <- MCAttributeNames
  Contents <- MCContents
  Fragments <- MCFragments
  Texts <- MCTexts
  html_empty <- MCEmpty
  script <- MCScript
  MaxEdits = 3
  MaxNodes = 9
  Nodes <- MCNodes
  StartNodes = {3, 9, 11}
  Kinds = {"*", "b"}
  SortKeys <- MCSortKeys
  MaxSteps = 3
  NoNode = 0
  Operands <- MCOperands
  Operations <- MCOperations
  IntMax = 15
  MaxCalls = 1
  Workers = {w1, w2}
  MaxContexts = 4
INVARIANTS
  BlocksApart
  TextIsSafe
  ReadBack
  Linked
  SelectionsHold
  AsXPath
  GraphIsRun
PROPERTIES
  ParserEnds
CHECK_DEADLOCK FALSE
