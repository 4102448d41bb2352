SPECIFICATION Spec
CONSTANTS
  Source <- MCSource
  Output <- MCOutput
  Argument <- MCArgument
  MaxArguments = 2
  Absent = absent
INVARIANTS TypeOK Delivered CleanSuccess SourcesKept ValidRunSucceeds
PROPERTY Ends
CHECK_DEADLOCK FALSE
