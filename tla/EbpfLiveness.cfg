SPECIFICATION FairSpec
CONSTANTS
  app = app
  other = other
  boot = boot
  main = main
  render = render
  NoPkg = NoPkg
  NoComm = NoComm
  NoEntry = NoEntry
  Pkgs = {app}
  Comms <- MCComms
  Cpus <- MCCpus
  MatchTiers <- MCMatchTiers
  WhiteOf <- MCWhiteOf
  BootComm = boot
  Tids = {1, 2}
  Running = {1}
  ReuseTids = FALSE
  CrossRename = FALSE
  RingCap = 1
  AppliedCap = 1
  ChanCap = 1
  MaxEnv = 3
  Configs <- RuleRemoval
INVARIANT ConfigFresh
PROPERTIES
  UpdateTaken
  DeadForgotten
  CpusEnforced
  RunningNotForgotten
  ImplementsRegister
