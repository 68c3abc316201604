\* Two epochs of three blocks; every refusal, failure and lag is possible.
CONSTANTS
  EpochLength = 3
  U32 = 32
  StartBlock = 2
  MaxBlock = 9
  FinalityLag = 1
SPECIFICATION Spec
INVARIANTS TypeOK NoUnderflow SleepsToEpoch RefusedOncePerBlock
\* run ends on a failed fetch, and the chain stops at MaxBlock.
CHECK_DEADLOCK FALSE
