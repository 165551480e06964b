\* Four submissions of batches that can and cannot be made, written and sent.
CONSTANTS
  a = a b = b x = x
  Half = 4
  HalfI32 = 4
  Tick = 10
  Batch <- MCBatch
  ServiceName = a
  ProcessTags <- MCProcessTags
  MaxTagLength = 2
  MaxTracebackLength = 3
  MaxSubmissions = 4
SPECIFICATION Spec
INVARIANT FailedNeverSent
INVARIANT GarbledOnlyBehindCut
INVARIANT DecodedAsRecorded
INVARIANT CutOnlyOutOfRange
CHECK_DEADLOCK FALSE
