\* Two runs, one of them recorded before dates were kept, under failures, crashes and
\* an operator who deletes a row or a report; the interval is no multiple of the first wait.
SPECIFICATION FairSpec
CONSTANTS
  r1 = r1
  r2 = r2
  s1 = s1
  s2 = s2
  Runs = {r1, r2}
  SetOf <- OwnSets
  Old = {r2}
  RetryAfter = 3
  Interval = 5
  MaxGlitches = 2
INVARIANTS TypeOK RecordedIsStored FetchedIsNew Backoff
PROPERTIES DatesKept PublishedInTheEnd
