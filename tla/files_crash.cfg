\* The process dies in a save_state.
CONSTANTS
  GrowBy = 4
  WordBytes = 2
  MaxStep = 9
  MaxMishaps = 2
SPECIFICATION Spec
INVARIANTS RightAfterCrash
CHECK_DEADLOCK FALSE
