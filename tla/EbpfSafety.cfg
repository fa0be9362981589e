SPECIFICATION Spec
CONSTANTS
  app = app
  other = other
  boot = boot
  main = main
  render = render
  NoPkg = NoPkg
  NoComm = NoComm
  NoEntry = NoEntry
  Pkgs = {app, other}
  Comms <- MCComms
  Cpus <- MCCpus
  MatchTiers <- MCMatchTiers
  WhiteOf <- MCWhiteOf
  BootComm = boot
  Tids = {1, 2}
  Running = {1}
  ReuseTids = TRUE
  CrossRename = TRUE
  RingCap = 2
  AppliedCap = 1
  ChanCap = 1
  MaxEnv = 3
  Configs <- TwoPackages
INVARIANTS
  TypeOK
  CacheTracked
  NamesFollowed
