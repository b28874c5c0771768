\* Two hosts, one stream and the importer of its service; servers crash and are
\* never slow.
SPECIFICATION FairSpec
CONSTANTS
  s1 = s1
  s2 = s2
  e1 = e1
  e2 = e2
  i1 = i1
  h1 = h1
  h2 = h2
  AnyHost = AnyHost
  Hosts = {h1, h2}
  Services = {s1}
  Streams = {e1}
  Importers = {i1}
  Exported <- OneExported
  Imported <- OneImported
  MayBeSlow = FALSE
  MaxStarts = 2
  MaxCrashes = 2
CHECK_DEADLOCK FALSE
INVARIANT
  LiveServersKeepRows
PROPERTIES
  DeadServersForgotten
  RedirectsConverge
