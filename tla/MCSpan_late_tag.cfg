\* Two threads: is what is sent well formed when a tag comes after finish()?
CONSTANTS
  t1 = t1 t2 = t2
  Thread = {t1, t2}
  k1 = k1
  Key = {k1}
  MaxCalls = 3
SPECIFICATION Spec
INVARIANT SentWellFormed
CHECK_DEADLOCK FALSE
