\* Miners that never fail or err, chunks of one byte: dispatch races with the workers.
CONSTANTS
  GrowBy = 8
  NeuronCount = 2
  MaxWeight = 1
  CacheLine = 1
  BufferSize = 2
  InitStep = 6
  MaxStep = 7
  Flaky <- NoMiner
  Erring <- NoMiner
  Unseen <- NoMiner
SPECIFICATION Spec
INVARIANTS RowEvolved
