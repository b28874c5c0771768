\* Two exporters that come and go, one address, one reload.
SPECIFICATION FairSpec
CONSTANTS
  Gens = {g1, g2, g3}
  NoGen = NoGen
  Addrs = {a}
  NoAddr = NoAddr
  Listens = {l1, l2}
  MayFail = TRUE
  MaxReloads = 1
CHECK_DEADLOCK FALSE
INVARIANTS
  TypeOK
  OpenHasCaretaker
  AcceptingIsClosable
PROPERTIES
  UnservedIsQuiet
  StopReturns
