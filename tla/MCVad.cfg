CONSTANTS
  NSamples <- MCNSamples
  MaxDurations <- MCMaxDurations
  NWindow = 3
  Cs = 2
  MinSpeech = 5
  MinSilence = 5
  SilenceAtMax = 2
  MergeGap = 8
  Pad = 5
  Overlap = 3
  Silence = 4
  LongSegment = 6
  Interval = 3
  MinDuration = 1
  MaxCalls = 1
SPECIFICATION Spec
INVARIANTS SegmentsApart TimesMapBack
