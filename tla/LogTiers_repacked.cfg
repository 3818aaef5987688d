SPECIFICATION Spec
CONSTANTS
  g1 = g1
  g2 = g2
  p1 = p1
  p2 = p2
  Gens <- MCGens
  KeyOf <- OneLog
  Number <- FirstSecond
  Packs <- MCPacks
  Empty <- NoEmpty
  NFrames = 1
  Quota = 4
  Targets <- ZeroTarget
  AdminEvicts = FALSE
  MaxEvents = 0
INVARIANT NeverBothMissingAtAll
