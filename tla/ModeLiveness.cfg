SPECIFICATION FairSpec
CONSTANTS
  app = app
  old = old
  new = new
  Pkgs <- MCPkgs
  Configs <- MCConfigs
  CfgPkgs <- MCCfgPkgs
  Other = other
  NoProc = noProc
  NoEntry = noEntry
  NoCfg = noCfg
  Pids = {1, 2}
  Growth = 1
  Weight = 1
  MaxEnv = 2
INVARIANT BoundAsCached
PROPERTIES
  ProcModeTaken
  EbpfModeTaken
  DeadDropped
