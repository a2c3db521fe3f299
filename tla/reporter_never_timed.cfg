SPECIFICATION FairSpec
CONSTANTS
  j1 = j1
  j2 = j2
  Jobs = {j1}
  Results = {"measurements"}
  Extras = {}
  Terminal = {"aborted"}
  FirstReports = TRUE
  MaxErrors = 2
  MaxGlitches = 0
PROPERTIES
  EveryTerminalJobReported
