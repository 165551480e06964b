\* One operation; answers whose default rate may be no probability.
CONSTANTS
  a = a
  Operation = {a}
  NoSampler = NoSampler
  MaxOperations = 1
  low = low bad = bad
  Rate = {low, bad}
  ValidRate = {low}
  InitRate = low
  Bound = {1}
  ValidBound = {1}
  Answer <- BadDefaults
  NoAnswer = NoAnswer
  MaxInFlight = 1
SPECIFICATION Spec
INVARIANT NewSamplersValid
CHECK_DEADLOCK FALSE
