SPECIFICATION Spec
CONSTANTS
  app = app
  old = old
  new = new
  Pkgs <- MCPkgs
  Configs <- MCConfigs
  CfgPkgs <- MCCfgPkgs
  Other = other
  NoProc = noProc
  NoEntry = noEntry
  NoCfg = noCfg
  Pids = {1}
  Growth = 0
  Weight = 1
  MaxEnv = 5
SYMMETRY Versions
INVARIANTS
  TypeOK
  CacheFresh
