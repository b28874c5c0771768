\* Two hosts and two streams of one service; servers may be slow.
SPECIFICATION Spec
CONSTANTS
  s1 = s1
  s2 = s2
  e1 = e1
  e2 = e2
  i1 = i1
  h1 = h1
  h2 = h2
  AnyHost = AnyHost
  Hosts = {h1, h2}
  Services = {s1}
  Streams = {e1, e2}
  Importers = {}
  Exported <- TwoExported
  Imported <- NoneImported
  MayBeSlow = TRUE
  MaxStarts = 2
  MaxCrashes = 1
CHECK_DEADLOCK FALSE
INVARIANTS
  TypeOK
  BindingCoversStream
