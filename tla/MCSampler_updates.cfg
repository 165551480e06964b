\* Two operations, room for one; rates that are no probability for an operation.
CONSTANTS
  a = a b = b
  Operation = {a, b}
  NoSampler = NoSampler
  MaxOperations = 1
  low = low high = high bad = bad
  Rate = {low, high, bad}
  ValidRate = {low, high}
  InitRate = low
  negative = negative
  Bound = {1, 2, negative}
  ValidBound = {1, 2}
  Answer <- Answers
  NoAnswer = NoAnswer
  MaxInFlight = 1
SPECIFICATION FairSpec
INVARIANT TypeOK
INVARIANT TagsTellTheRate
INVARIANT OperationsBounded
INVARIANT AnswerInForce
INVARIANT QuietAfterClose
PROPERTY KeepsPolling
CHECK_DEADLOCK FALSE
