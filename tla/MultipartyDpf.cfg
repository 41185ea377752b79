SPECIFICATION KeySpec
CONSTANTS
  EvaluatorCount = 3
  UniverseSizes <- MCSizes
  Bits = {b0}
  Blocks = {"zero", "s1", "s2"}
  ZeroBlock = "zero"
  Expand <- MCExpand
  WordVectors <- MCWordVectors
  Shuffles <- MCShuffles
  Slots = {"a", "b", "pad"}
  Routed <- MCRouted
INVARIANTS KeyTypeOK PointFunction SlotsExact
