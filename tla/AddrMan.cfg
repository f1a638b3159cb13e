CONSTANTS
  s1 = s1
  Services = {a1, a2, a3, a4}
  Sources = {s1, s2}
  NewBuckets = {1, 2}
  TriedBuckets = {1}
  NetAddr <- MCNetAddr
  NewBucketOf <- MCNewBucketOf
  TriedBucketOf <- MCTriedBucketOf
  NewBucketSize = 1
  TriedBucketSize = 2
  NewBucketsPerAddress = 2
  InspectOnEvict = 2
  GetAddrMaxPct = 50
  MaxTime = 1
  MaxIds = 4
SPECIFICATION AddrSpec
SYMMETRY Symmetry
INVARIANTS
    Consistent
    DumpLoadsBack
PROPERTIES
    TriedKept
