SPECIFICATION MCSpec
CONSTANTS
  c1 = c1
  c2 = c2
  c3 = c3
  Container <- MCContainer
  ChunkSize = 2
  MaxChunk = 4
  MaxLive = 7
  String <- MCString
  Text <- MCText
  FixedSize = 1
  PoolSize = 1
SYMMETRY Symmetric
INVARIANTS
  NoAliasing
  NoLeak
  GrowsWithPeak
  InstanceWhileHeld
  StringsSound
