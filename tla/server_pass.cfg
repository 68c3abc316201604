\* Three chains of three blocks, a refresh every second block, two connections of
\* peers that are right, ahead, behind, impostors, silent or gone.
CONSTANTS
  Self = "m"
  Chains <- MCChains
  Greetings <- MCGreetings
  EPOCH_LENGTH = 2
  MaxStreams = 2
SPECIFICATION FairSpec
INVARIANTS TypeOK AdmittedOnMerit
PROPERTIES HandshakeEnds
CHECK_DEADLOCK FALSE
