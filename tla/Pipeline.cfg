\* Three bars, of which an answer holds two; one failure.
CONSTANTS
  Services <- MCServices
  MaxBar = 2
  Window = 2
  MaxFaults = 1
SPECIFICATION PipelineSpec
INVARIANTS PipelineTypeOK
PROPERTIES NoRegress CatchesUp DeadReported RecoveryReported
