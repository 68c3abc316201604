\* Every miner may be lost during a step.
CONSTANTS
  GrowBy = 8
  NeuronCount = 2
  MaxWeight = 1
  CacheLine = 4
  BufferSize = 2
  InitStep = 6
  MaxStep = 7
  Flaky <- AllMiners
  Erring <- NoMiner
  Unseen <- NoMiner
SPECIFICATION FairSpec
PROPERTIES ResyncsWithoutMiners
CHECK_DEADLOCK FALSE
