CONSTANTS
  Session = {s1, s2}
  Slow = {s1}
  Garbage = Garbage
  None = None
  MaxOps = 5
SPECIFICATION PSSpec
INVARIANTS
  ListExact
  CrashOnlyOnOverlap
  DeliveredOnce
PROPERTY RequestsReturn
CHECK_DEADLOCK FALSE
