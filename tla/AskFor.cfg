CONSTANTS
  Peers = {p, q}
  Answering = {p}
  Invs = {i, j}
  Retry = 1
  MaxAsked = 2
  MaxAhead = 1
  MaxPending = 2
SPECIFICATION FairSpec
INVARIANTS
    AskedIndexed
    RetriesSpaced
PROPERTIES
    AnnouncedArrives
