CONSTANTS
  RateBytes = 2
  BurstBytes = 3
  RateFrames = 1
  BurstFrames = 2
  MaxLen = 5
  MaxTime = 4
SPECIFICATION BucketSpec
INVARIANT FramesWithinRate
INVARIANT BytesWithinRate
INVARIANT IdleBucketAdmits
