SPECIFICATION Spec
CONSTANTS
  q1 = q1
  q2 = q2
  Labels = {q1, q2}
  Readouts <- AllReadouts
  MaxTracePoints = 4
  MaxRows = 2
  MaxFieldCols = 2
  MaxSchedules = 3
  EnvelopePoints = 4
  MaxDepth = 1
  Totals = {0, 1, 3, 4, 5, 7, 10}
  Waveforms <- SomeWaveforms
  Names = {"w", "v"}
  Tables <- SomeTables
  Refs <- SomeRefs
INVARIANTS
  TypeOK
  EnvelopeKept
  RowsAreSpots
  OnlyUnevenLost
  ViewBounded
  ScheduleShown
  ProbeFaithful
  EnvelopeScaled
  SchedulesSpread
CHECK_DEADLOCK FALSE
