SPECIFICATION PipelineSpec
CONSTANTS
  Clip = {clip}
  MaxFileEdits = 0
  MaxSaves = 2
INVARIANTS
  RejectedIsNotExported
CHECK_DEADLOCK FALSE
