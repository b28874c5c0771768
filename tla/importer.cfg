\* One connection, two addresses, two servers; any number of reloads.
SPECIFICATION FairSpec
CONSTANTS
  Gens = {g1, g2, g3, g4}
  NoGen = NoGen
  Addrs = {a, b}
  NoAddr = NoAddr
  MayFail = TRUE
  Conns = {c1}
  Servers = {home, away}
  Home = home
  NoServer = NoServer
INVARIANTS
  TypeOK
  AcceptingIsClosable
  NothingOutlivesStop
  
PROPERTY
  ReloadReturns
