SPECIFICATION FairSpec
CONSTANTS
  g1 = g1
  g2 = g2
  p1 = p1
  p2 = p2
  Gens <- MCGens
  KeyOf <- OneLog
  Number <- FirstSecond
  Packs <- MCPacks
  Empty <- NoEmpty
  NFrames = 1
  Quota = 2
  Targets <- ZeroTarget
  AdminEvicts = TRUE
  MaxEvents = 2
INVARIANT L1KeptUntilReleased
INVARIANT NeverBothMissing
PROPERTY ReleasesOnlyCopied
PROPERTY ReleaseJournalDrains
