CONSTANTS
  NULL = NULL
  CommandLines <- MCCommandLines
  Sources <- MCSources
  Present <- MCPresent
  Verdicts <- MCVerdicts

SPECIFICATION FairSpec
INVARIANTS
  DriverTypeOK
  ArgumentsMean
  RejectedRunsLeaveOutputs
  StatusTellsOutputs
  SourceSurvives
PROPERTY
  DriverTermination
