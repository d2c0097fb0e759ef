\* A run that has returned takes no further step.
SPECIFICATION RunSpec
CONSTANTS
  Manifests <- SampleRuns
  Limit = 2
  MaxLine = 1
  Outputs <- SampleOutputs
INVARIANTS
  CaptureIsExact
  InterruptedRunsFail
  CleanedUpAsRecorded
PROPERTIES
  RunReturns
CHECK_DEADLOCK FALSE
