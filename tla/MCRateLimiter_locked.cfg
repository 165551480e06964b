\* Two threads behind a RemoteControlledSampler; the clock is set back once.
CONSTANTS
  t1 = t1 t2 = t2
  Thread = {t1, t2}
  Guarded = TRUE
  Item = 2
  Rate <- Rates
  MaxClock = 3
  MaxSetBack = 1
  MaxUpdate = 2
SPECIFICATION Spec
SYMMETRY Symmetry
INVARIANT RateKept
PROPERTY LowerBoundMet
PROPERTY ImplementsBucket
CHECK_DEADLOCK FALSE
