SPECIFICATION Spec
CONSTANTS
  INT64_MAX = 127
  Chosen = {"ranges"}
INVARIANT
  RangesReadBack
CHECK_DEADLOCK FALSE
