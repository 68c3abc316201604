\* Nine steps: the row grows from 2 to 4 bytes, the column from 1 to 2.
CONSTANTS
  GrowBy = 4
  WordBytes = 2
  MaxStep = 9
  MaxMishaps = 2
SPECIFICATION Spec
INVARIANTS TypeOK RightWithoutMishap SaveRestores
  FilesNotBehind  StepNeverBack SolverAgrees
\* A validator whose data.json is torn does not start again.
CHECK_DEADLOCK FALSE
