\* close() called twice, one span: does each returned future complete?
CONSTANTS
  s1 = s1 s2 = s2 s3 = s3 s4 = s4
  Span = {s1}
  c1 = c1 c2 = c2
  Closer = {c1, c2}
  Stop = Stop
  QueueCapacity = 2
  BatchSize = 2
  FlushInterval = TRUE
  AsyncSend = FALSE
SPECIFICATION FairSpec
PROPERTY CloseCompletes
CHECK_DEADLOCK FALSE
