\* Two search threads and two servers, batches of two, a ring of four buffers, and a
\* cache whose two positions share an entry.
SPECIFICATION FairSpec
CONSTANTS
  Clients = {c1, c2}
  Servers = {s1, s2}
  Positions = {p1, p2}
  c1 = c1
  c2 = c2
  p1 = p1
  p2 = p2
  Asks <- MCAsks
  MaxBatchSize = 2
  MaxConcurrentEvals = 2
  NumResultBufss = 4
  UseCache = TRUE
  Slots = {"slot"}
  SlotOf <- OneSlot
  NoClient = NoClient
  NoOutput = NoOutput
INVARIANTS NoOverloop OutputIsForPosition
PROPERTIES ImplementsBatchQueue CallsReturn
