CONSTANTS
  a = a
  b = b
  none = none
  web = web
  loader = loader
  Paths <- MCPaths
  NoPath <- none
  Handlers <- MCHandlers
  Loader <- loader
  MaxVersion = 4
SPECIFICATION FairSpec
INVARIANTS
  TypeOK
  WatchSound
  ChangeAttended
PROPERTIES
  HotReload
  ImplementsRegister
