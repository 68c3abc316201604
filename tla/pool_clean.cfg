\* Miners that never fail or err, a row of one chunk in several windows.
CONSTANTS
  GrowBy = 8
  NeuronCount = 2
  MaxWeight = 2
  CacheLine = 4
  BufferSize = 2
  InitStep = 6
  MaxStep = 8
  Flaky <- NoMiner
  Erring <- NoMiner
  Unseen <- NoMiner
SPECIFICATION Spec
INVARIANTS RowEvolved
