SPECIFICATION FairSpec
CONSTANTS
  game = game
  reader = reader
  Pkgs <- MCPkgs
  NoPkg = noPkg
  Rates <- MCRates
  Files <- AllFiles
  Empty = empty
  None = none
  Slack = 1
  Throttle = 1
  MaxAge = 3
  MaxEnv = 4
INVARIANTS
  TypeOK
  ReloadNotMissed
  RateOfForeground
  TimerArmed
PROPERTIES
  IdleNotEarly
  SettlesIdle
