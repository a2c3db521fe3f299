\* One failure at most: a report that an operator deletes.
SPECIFICATION FairSpec
CONSTANTS
  r1 = r1
  r2 = r2
  s1 = s1
  s2 = s2
  Runs = {r1, r2}
  SetOf <- OwnSets
  Old = {r2}
  RetryAfter = 3
  Interval = 5
  MaxGlitches = 1
PROPERTIES DeletedComesBack
