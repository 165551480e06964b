\* Does the throttler ask for every operation it has denied?
CONSTANTS
  a = a b = b
  Operation = {a, b}
  t1 = t1 t2 = t2
  Tracer = {t1, t2}
  NoClient = NoClient
  Unit = 2
  Balance <- Balances
  GrantLimit = 0
  MaxInFlight = 1
SPECIFICATION FairSpec
PROPERTY AsksForAll
CHECK_DEADLOCK FALSE
