CONSTANTS
  COUNT = 2
  WIRE = 2
SPECIFICATION ReportsFairSpec
INVARIANTS ReportsTypeOK ToldWhatIs OnlineHasSession
PROPERTIES ReportedInTheEnd OnlineReturns CutIsNoticed
