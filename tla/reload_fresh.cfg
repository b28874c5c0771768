\* Two files that change at any time.
SPECIFICATION FairSpec
CONSTANTS
  Commands = {"exporter", "importer", "store"}
  NFiles = 2
  Versions = {"v1", "v2"}
  Failures = TRUE
CHECK_DEADLOCK FALSE
INVARIANT
  TypeOK
PROPERTIES
  WatchedIsFresh
  NoChangeMissed
