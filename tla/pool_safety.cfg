\* Two miners that both may fail and err; chunks of one byte and more.
CONSTANTS
  GrowBy = 8
  NeuronCount = 2
  MaxWeight = 2
  CacheLine = 1
  BufferSize = 2
  InitStep = 6
  MaxStep = 8
  Flaky <- AllMiners
  Erring <- AllMiners
  Unseen <- AllMiners
SPECIFICATION FairSpec
INVARIANTS TypeOK StreamExclusive ChunksDisjoint ChunksInRow WorkConserved
  QuietBetweenSteps NoByteSkipped PaidOnce
PROPERTIES EvolutionSpec StepCompletes
\* With every miner dropped a step waits for ever: see pool_stall.
CHECK_DEADLOCK FALSE
