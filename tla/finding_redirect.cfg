\* A stream of one service and an importer of another.
SPECIFICATION Spec
CONSTANTS
  s1 = s1
  s2 = s2
  e1 = e1
  e2 = e2
  i1 = i1
  h1 = h1
  h2 = h2
  AnyHost = AnyHost
  Hosts = {h1, h2}
  Services = {s1, s2}
  Streams = {e1}
  Importers = {i1}
  Exported <- OneExported
  Imported <- OtherImported
  MayBeSlow = FALSE
  MaxStarts = 2
  MaxCrashes = 0
CHECK_DEADLOCK FALSE
PROPERTY
  RedirectsToHost
