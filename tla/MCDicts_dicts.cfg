SPECIFICATION Spec
CONSTANTS
  one = one
  true = true
  a = a
  v = v
  w = w
  None = none
  Dict = {d, e}
  Key = {one, true, a}
  Val = {v, w}
  ValueOf <- MCValueOf
  MaxCount = 3
  MaxPairs = 2
  Significand = 4
  Exponent = 2
INVARIANTS TypeOK NeverDangling ExactlyCounted InOrder VisitedOnce IsPythonDict
PROPERTY LoopsEnd
CHECK_DEADLOCK FALSE
