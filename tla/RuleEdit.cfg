CONSTANTS
  Words <- MCWords
  Specs <- MCSpecs
  PkgNames <- MCPkgNames
  Threads <- MCThreads
  Lines <- MCLines
  MaxLines = 4
  MaxEdits = 1
SPECIFICATION Spec
CHECK_DEADLOCK FALSE
PROPERTIES
  OthersKept
  EditTakesEffect
  StaysClean
