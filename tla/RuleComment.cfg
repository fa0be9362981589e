CONSTANTS
  Words <- MCWords
  Specs <- MCSpecs
  PkgNames <- MCPkgNames
  Threads <- MCThreads
  Lines <- MCCommentedLines
  MaxLines = 2
  MaxEdits = 1
SPECIFICATION Spec
CHECK_DEADLOCK FALSE
PROPERTIES
  SavedRuleExists
