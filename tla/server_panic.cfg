\* A validator that joined after the miner's last sync, and nobody else.
CONSTANTS
  Self = "m"
  Chains <- Grown
  Greetings <- Newcomer
  EPOCH_LENGTH = 2
  MaxStreams = 1
SPECIFICATION Spec
INVARIANTS NewcomerRefused
CHECK_DEADLOCK FALSE
