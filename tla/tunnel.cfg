\* Two messages to the service; anything may close or break.
SPECIFICATION FairSpec
CONSTANTS
  FirstHops = {"importer", "dial", "none"}
  MaxSent <- OneWay
  Breaks = TRUE
CHECK_DEADLOCK FALSE
INVARIANT
  TypeOK
PROPERTIES
  ImplementsPipe
  PumpsEndForAReason
  Delivered
  EndsSpread
