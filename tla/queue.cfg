\* Two writers, two readers, a queue of two places, all operations.
SPECIFICATION FairSpec
CONSTANTS
  Producers = {p1, p2}
  Consumers = {c1, c2}
  MaxSize = 2
  MaxSent = 3
  Forcers = {p2}
  MayClose = TRUE
INVARIANTS NoLostWakeup DrainedWhenReadersStop
PROPERTIES ImplementsClosableQueue NobodyWaitsForEver
