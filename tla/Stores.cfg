CONSTANTS
  mode = mode
  path = path
  timeout = timeout
  active = active
  app = app
  note = note
  w1 = w1
  w2 = w2
  main = main
  None = None
  Fields <- MCFields
  Values = {0, 1}
  Default <- MCDefault
  Web <- MCWeb
  Main <- main
  MaxEvents = 4
  Cost = 2
  MaxKills = 1
  Keys <- MCKeys
  Pkgs <- MCPkgs
  Note <- note
  Rates = {60, 120}
  FirstFiles <- MCFirstFiles
  Requests <- MCRequests
  CommandLines <- MCCommandLines
SPECIFICATION Spec
CHECK_DEADLOCK FALSE
INVARIANTS
  TypeOK
  SavedWhenIdle
  LookupFresh
PROPERTIES
  SaveKeepsRest
SYMMETRY ThreadSymmetry
