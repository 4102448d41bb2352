SPECIFICATION Spec
CONSTANTS
  Width = 8
  Nul = "NUL"
  NestedFunctionDepth = 2
  MaxOps = 2
  Op <- MCOp
  Hash <- MCHash
INVARIANTS OwnText CallsMatchRuntime Preserved OnlyUnsupportedFails
