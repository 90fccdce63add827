SPECIFICATION Spec
CONSTANTS
  Settings <- MCSettings
  AudioLens <- MCAudioLens
  MaxCalls = 2
  TextTokens <- MCTextTokens
  NTextCtx = 14
  MaxTs = 4
  MaxInitialTs = 2
  DeltaMin = 1
  ShortTail = 3
  EntropyLen = 2
  TokenBeg = 10
INVARIANTS TypeOK CacheIsSequence AlwaysASlot PositionsFit SegmentsInOrder
PROPERTY CallsReturn
