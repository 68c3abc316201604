\* Three chains of three blocks, two miners that answer up to 2 bytes each.
CONSTANTS
  Self = "s"
  Miners = {"a", "b"}
  Chains <- MCChains
  Durations = {2, 3}
  MaxBytes = 2
  MaxEvents = 3
SPECIFICATION Spec
INVARIANTS TypeOK ScoreEarned StreamsOwned WeightsFollowScores 
PROPERTIES MarksKept
CHECK_DEADLOCK FALSE
