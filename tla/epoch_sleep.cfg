\* The same world: a refused validator without miners.
CONSTANTS
  EpochLength = 3
  U32 = 32
  StartBlock = 2
  MaxBlock = 9
  FinalityLag = 1
SPECIFICATION Spec
INVARIANTS SleepsToResync
\* run ends on a failed fetch, and the chain stops at MaxBlock.
CHECK_DEADLOCK FALSE
