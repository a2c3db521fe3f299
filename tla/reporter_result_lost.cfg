SPECIFICATION FairSpec
CONSTANTS
  j1 = j1
  j2 = j2
  Jobs = {j1}
  Results = {"measurements"}
  Extras = {"parsed view"}
  Terminal = {"completed"}
  FirstReports = TRUE
  MaxErrors = 2
  MaxGlitches = 1
INVARIANTS
  NoResultLost
