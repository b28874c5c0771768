\* Two objects of a name, an announcement, two servers; no proxy cancels streams.
SPECIFICATION FairSpec
CONSTANTS
  Objs = {o1, o2}
  NoObj = NoObj
  Addrs = {a, b}
  Servers = {home, away}
  Home = home
  Conns = {c1}
  CancelsStream = FALSE
INVARIANTS
  TypeOK
  OneLoop
  NothingOutlivesStop
  StoppedIsQuiet
PROPERTIES
  StopsReturn
  ServedAgain
