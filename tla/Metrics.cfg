SPECIFICATION FairMSpec
CONSTANTS
  k1 = k1
  k2 = k2
  a = a
  b = b
  Series = {k1, k2}
  MaxPackets = 2
  MaxApplies = 2
  MaxFaults = 1
  Owners = {a, b}
  Indexes <- MCIndexes
  Scrapers = {1}
  MaxScrapes = 2
INVARIANTS TypeOK Conserved
PROPERTIES NeverGoesBack OwnTraffic ScrapeEnds
CHECK_DEADLOCK FALSE
