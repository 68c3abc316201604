----------------------------- MODULE MCMinerServer -----------------------------
\* Chains and peers for MinerServer: a miner "m", validators "v" and "w".
EXTENDS MinerServer

Neuron(hotkey, permit, staked) ==
    [hotkey |-> hotkey, validator_permit |-> permit, staked |-> staked]

M == Neuron("m", FALSE, TRUE)
V == Neuron("v", TRUE, TRUE)
W == Neuron("w", TRUE, TRUE)

\* v loses its permit, then its stake.
Demoted == <<<<M, V>>, <<M, Neuron("v", FALSE, TRUE)>>, <<M, Neuron("v", TRUE, FALSE)>>>>

\* w gets the UID of v, which comes back under a new one; then the miner loses its
\* own for good, and the list is shorter.
Replaced == <<<<M, V>>, <<M, W, V>>, <<W, V>>>>

\* The miner loses its UID and comes back under a new one.
Moved == <<<<M, V>>, <<W, V>>, <<W, V, M>>>>

MCChains == {Demoted, Replaced, Moved}

\* What is said to the miner with UID u by a validator that reports UID n and
\* hotkey h, signed by somebody.
Greeting(u, n, h, signer) ==
    LET m == [miner |-> u, minerKey |-> "m", validator |-> n, validatorKey |-> h]
    IN  [message |-> m, signature |-> [by |-> signer, of |-> m]]

\* v before and after Replaced, v to the miner that has moved, and w in the name
\* of v.
MCGreetings == {Greeting(0, 1, "v", "v"), Greeting(0, 2, "v", "v"),
                Greeting(2, 1, "v", "v"), Greeting(0, 1, "v", "w")}

\* A subnet that v joins, and v.
Grown == {<<<<M, W>>, <<M, W, V>>>>}
Newcomer == {Greeting(0, 2, "v", "v")}
===============================================================================
