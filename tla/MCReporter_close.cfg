\* Two calls of close() at any time, four spans, a queue and a batch of two.
CONSTANTS
  s1 = s1 s2 = s2 s3 = s3 s4 = s4
  Span = {s1, s2, s3, s4}
  c1 = c1 c2 = c2
  Closer = {c1, c2}
  Stop = Stop
  QueueCapacity = 2
  BatchSize = 2
  FlushInterval = TRUE
  AsyncSend = TRUE
SPECIFICATION FairSpec
CONSTRAINT InOrder
INVARIANT NothingStuck
INVARIANT Pipeline
INVARIANT NoSpanBehindStop
INVARIANT UnfinishedExact
INVARIANT CloseFlushes
INVARIANT NoLostWakeup
PROPERTY LoneCloseCompletes
PROPERTY SpansSettle
PROPERTY ImplementsBuffer
CHECK_DEADLOCK FALSE
