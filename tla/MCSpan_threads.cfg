\* Three threads, three calls between them, two baggage keys.
CONSTANTS
  t1 = t1 t2 = t2 t3 = t3
  Thread = {t1, t2, t3}
  k1 = k1 k2 = k2
  Key = {k1, k2}
  MaxCalls = 3
SPECIFICATION FairSpec
INVARIANT ReportedOnce
INVARIANT QuietUpdatesKept
PROPERTY FinishSends
CHECK_DEADLOCK FALSE
