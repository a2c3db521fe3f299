SPECIFICATION FairSpec
CONSTANTS
  j1 = j1
  j2 = j2
  Jobs = {j1, j2}
  Results = {}
  Extras = {}
  Terminal = {"completed"}
  FirstReports = FALSE
  MaxErrors = 1
  MaxGlitches = 1
PROPERTIES
  ReportedInTheEnd
