CONSTANTS
  COUNT = 1
  WIRE = 2
SPECIFICATION ReportsFairSpec
INVARIANT EitherDeathIsSeen
