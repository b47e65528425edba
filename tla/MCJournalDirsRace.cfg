SPECIFICATION Spec
CONSTANTS
  a = a
  b = b
  m = m
  first = first
  r1 = r1
  r2 = r2
  Callers = {a, b}
  Movers = {}
  Depth = 2
  FirstName = first
  OtherNames = {r1, r2}
  IOErrors = FALSE
  UserEntries = FALSE
INVARIANTS
  OvertakenIsFine
CHECK_DEADLOCK FALSE
