CONSTANTS
  Segments <- MCSegments
  Tables <- MCTables
  Probes <- MCProbes
SPECIFICATION FairSpec
INVARIANTS
  PromiseKept
  CrawlIsComplete
  NothingHidden
PROPERTY CrawlEnds
