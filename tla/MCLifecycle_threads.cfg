\* Two threads build and close tracers of any configuration.
CONSTANTS
  t1 = t1 t2 = t2
  Thread = {t1, t2}
  Shared = Shared
  Factory = {t1, t2, Shared}
  NoTracer = NoTracer NoThread = NoThread NoMetric = NoMetric
  Setting <- MCSetting
SPECIFICATION FairSpec
INVARIANT GlobalIsComplete
INVARIANT CloseMeansAll
INVARIANT NoSelfCollision
PROPERTY OneGlobalTracer
PROPERTY CloseCompletes
PROPERTY SkippedFindsTracer
CHECK_DEADLOCK FALSE
