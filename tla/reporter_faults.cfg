SPECIFICATION FairSpec
CONSTANTS
  j1 = j1
  j2 = j2
  Jobs = {j1}
  Results = {"measurements"}
  Extras = {"parsed view"}
  Terminal = {"completed", "failed"}
  FirstReports = TRUE
  MaxErrors = 2
  MaxGlitches = 3
INVARIANTS
  TypeOK
  ReportedBeforeDeleted
  OmissionsCostFailures
  LinksResolve
  ReleasedOnce
PROPERTIES
  PortalForward
  LivesAsPromised
  ReportedInTheEnd
