\* Two protocols, one of which may be listed twice, and up to two chains; no
\* symmetry, because of the liveness properties.
CONSTANTS
  Protocols = {p1, p2}
  Capacity = 2
  MaxChunks = 3
  MaxListed = 3
  MaxChains = 2
SPECIFICATION FairAutosendSpec
INVARIANT ChainUnbroken
PROPERTIES
  BufferedIsHandedOver
  ChainsEnd
\* Nobody may register or buffer anything more.
CHECK_DEADLOCK FALSE
