SPECIFICATION Spec
CONSTANTS
  CPU_WORDS = 3
  CPU_WORD_BITS = 2
  PresentStr <- MCPresent
  Policies <- MCPolicies
  t1 = t1
  t2 = t2
  web1 = web1
  web2 = web2
  b1 = b1
  b2 = b2
  root = root
  background = background
  nobody = nobody
  Threads = {t1, t2}
  Web = {web1, web2}
  Bases = {b1, b2}
  FirstBase = b1
  Groups <- MCGroups
  RootGroup = root
  Files <- MCFiles
  Nobody = nobody
  MaxEvents = 2
INVARIANTS
  NamesExact
  DirsPlaced
PROPERTIES
  Enforced
