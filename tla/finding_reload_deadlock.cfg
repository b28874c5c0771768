\* A reload waits while a connection is registered.
SPECIFICATION FairSpec
CONSTANTS
  Gens = {g1, g2, g3}
  NoGen = NoGen
  Addrs = {a}
  NoAddr = NoAddr
  Listens = {l1, l2}
  MayFail = FALSE
  MaxReloads = 1
CHECK_DEADLOCK FALSE
PROPERTY
  TakenIsAnnounced
