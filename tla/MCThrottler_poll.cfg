\* Two operations, two tracers, two requests out at a time.
CONSTANTS
  a = a b = b
  Operation = {a, b}
  t1 = t1 t2 = t2
  Tracer = {t1, t2}
  NoClient = NoClient
  Unit = 2
  Balance <- Balances
  GrantLimit = 4
  MaxInFlight = 2
SPECIFICATION FairSpec
INVARIANT TypeOK
INVARIANT CreditsAccounted
INVARIANT OneClient
INVARIANT QuietAfterClose
PROPERTY TicksAskForAll
CHECK_DEADLOCK FALSE
