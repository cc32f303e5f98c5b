CONSTANTS
  Steps <- MCSteps
  WriteCanFail = TRUE
SPECIFICATION Spec
INVARIANTS TypeOK TempFileRemoved ConfigThereWhenRun
PROPERTY ImplementsBatchRun
CHECK_DEADLOCK FALSE
