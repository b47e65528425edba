SPECIFICATION Spec
CONSTANTS
  a = a
  b = b
  m = m
  first = first
  r1 = r1
  r2 = r2
  Callers = {a, b, m}
  Movers = {m}
  Depth = 3
  FirstName = first
  OtherNames = {r1, r2}
  IOErrors = TRUE
  UserEntries = TRUE
INVARIANTS
  OwnPlace
  PathExists
CHECK_DEADLOCK FALSE
