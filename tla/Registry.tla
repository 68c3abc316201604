-------------------------------- MODULE Registry --------------------------------
(***************************************************************************)
(* What a validator knows of the neurons of its subnet, through steps,     *)
(* weight submissions, metagraph syncs, failing saves, deaths and          *)
(* restarts: NeuronData (owner, score, weight, connection) by UID, and     *)
(* key_info of data.json.                                                  *)
(*                                                                         *)
(* The neuron with UID u is at u + 1.  Which block is read when is Epoch,  *)
(* how work is shared out is WorkPool, half-written files are StateFiles.  *)
(***************************************************************************)
EXTENDS Scores

CONSTANTS Self,       \* hotkey of the validator
          Miners,     \* the other hotkeys
          Chains,     \* bound: the owner of each UID, block by block
          Durations,  \* that an event may report
          MaxBytes,   \* bound: bytes a miner answers
          MaxEvents   \* bound: events of a step

ASSUME RegistryAssumption ==
    /\ Self \notin Miners
    /\ \A c \in Chains : /\ c # <<>>
                         /\ c \in Seq(Seq(Miners \cup {Self}))
                         /\ \A b \in DOMAIN c : \A i, j \in DOMAIN c[b] :
                               c[b][i] = c[b][j] => i = j
    /\ Durations \subseteq Nat
    /\ MaxBytes \in Nat /\ MaxEvents \in Nat

VARIABLES
    chain,     \* owners of the UIDs, by block
    block,     \* the block whose metagraph is read
    pc,        \* "down", "idle", "step", "save"; in sync: "submitted", "saved"
    \* NeuronData
    owner,     \* info.hotkey
    score,     \* score
    weight,    \* weight
    conn,      \* connection: the hotkey that accepted it, or NoOne
    times,     \* time_per_uid_byte
    \* data.json: of the score version of this program, and key_info
    json,
    \* history
    submitted, \* weights of a set_weights, until the sync is over
    earned,    \* bytes each miner has answered
    reowned    \* entries of key_info about a UID that this process has since
               \* seen without an owner, or with another one

neuronVars == <<owner, score, weight, conn>>
vars == <<chain, block, pc, neuronVars, times, json, submitted, earned, reowned>>

NoOne == "none"

Connect_All(hotkey, cheater, reach) ==
    IF hotkey \in reach THEN hotkey ELSE NoOne

\* connect_to_miner with a miner that is reached.  Only the owner of the hotkey
\* accepts the handshake.
Connect(hotkey, cheater, reach) ==
    IF hotkey \in reach /\ ~cheater THEN hotkey ELSE NoOne

\* The NeuronData of each UID: as it was for the neurons in `kept`, with default
\* score and weight for the others.
Neurons(hotkeys, kept, oldScore, oldWeight, oldConn, reach) ==
    /\ owner' = hotkeys
    /\ score' = [i \in DOMAIN hotkeys |-> IF i \in kept THEN oldScore[i] ELSE 0]
    /\ weight' = [i \in DOMAIN hotkeys |-> IF i \in kept THEN oldWeight[i] ELSE U8]
    /\ conn' = [i \in DOMAIN hotkeys |->
                   IF i \in kept THEN oldConn[i]
                   ELSE Connect(hotkeys[i], FALSE, reach)]

Down ==
    /\ pc' = "down"
    /\ owner' = <<>> /\ score' = <<>> /\ weight' = <<>> /\ conn' = <<>>
    /\ times' = <<>> /\ submitted' = <<>> /\ reowned' = {}

\* No process yet, and a data.json of an earlier score version.
Init ==
    /\ chain \in Chains
    /\ block = 1
    /\ pc = "down"
    /\ owner = <<>> /\ score = <<>> /\ weight = <<>> /\ conn = <<>>
    /\ times = <<>> /\ submitted = <<>>
    /\ json = [current |-> FALSE,
               key_info |-> [i \in DOMAIN chain[1] |->
                   [hotkey |-> chain[1][i], score |-> Cheater, weight |-> 1]]]
    /\ earned = [h \in Miners |-> 0]
    /\ reowned = {}

MakeBlock ==
    /\ block < Len(chain)
    /\ block' = block + 1
    /\ UNCHANGED <<chain, pc, neuronVars, times, json, submitted, earned, reowned>>

-------------------------------------------------------------------------------
\* Start and end of the process

Loaded_Inverted == IF json.current THEN <<>> ELSE json.key_info

\* state.key_info: cleared when it is of another score version.
Loaded == IF json.current THEN json.key_info ELSE <<>>

SameOwner_Any(info, hotkeys) == DOMAIN info \cap DOMAIN hotkeys

\* state_info is_some and is about the same hotkey.
SameOwner(info, hotkeys) ==
    {i \in DOMAIN info \cap DOMAIN hotkeys : info[i].hotkey = hotkeys[i]}

\* Entries of key_info that are not about the owner a UID has now.
Reowned(hotkeys) ==
    {i \in DOMAIN json.key_info :
        i \notin DOMAIN hotkeys \/ hotkeys[i] # json.key_info[i].hotkey}

\* Validator::new.  It panics, and stays down, when Self is not registered.
Start(reach) ==
    LET hotkeys == chain[block]
        info == Loaded
    IN  /\ pc = "down"
        /\ \E i \in DOMAIN hotkeys : hotkeys[i] = Self
        /\ Neurons(hotkeys, SameOwner(info, hotkeys),
                   [i \in DOMAIN info |-> info[i].score],
                   [i \in DOMAIN info |-> info[i].weight],
                   [i \in DOMAIN info |->
                       Connect(info[i].hotkey, info[i].score = Cheater, reach)],
                   reach)
        /\ reowned' = Reowned(hotkeys)
        /\ pc' = "idle"
        /\ UNCHANGED <<chain, block, times, json, submitted, earned>>

Crash ==
    /\ pc # "down"
    /\ Down
    /\ UNCHANGED <<chain, block, json, earned>>

\* save_state, as far as key_info goes
Save ==
    /\ json' = [current |-> TRUE,
                key_info |-> [i \in DOMAIN owner |->
                    [hotkey |-> owner[i], score |-> score[i], weight |-> weight[i]]]]
    /\ reowned' = {}

-------------------------------------------------------------------------------
\* A step

BeginStep ==
    /\ pc = "idle"
    /\ \E i \in DOMAIN conn : conn[i] # NoOne
    /\ pc' = "step"
    /\ UNCHANGED <<chain, block, neuronVars, times, json, submitted, earned, reowned>>

\* An event of the miner with connection i, that answered n bytes.
Answered(i, n) ==
    /\ pc = "step"
    /\ conn[i] # NoOne
    /\ Len(times) < MaxEvents
    /\ earned[conn[i]] + n <= MaxBytes
    /\ score' = [score EXCEPT ![i] = Added(@, n)]
    /\ earned' = [earned EXCEPT ![conn[i]] = @ + n]
    /\ UNCHANGED <<chain, block, pc, owner, weight, json, submitted, reowned>>

Completed(i, n, duration) ==
    /\ Answered(i, n)
    /\ times' = Append(times, Time(i - 1, duration, n))
    /\ UNCHANGED conn

Failed(i, n, duration) ==
    /\ Answered(i, n)
    /\ times' = AddTime(times, Time(i - 1, duration, n))
    /\ conn' = [conn EXCEPT ![i] = NoOne]

Cheated(i) ==
    /\ pc = "step"
    /\ conn[i] # NoOne
    /\ score' = [score EXCEPT ![i] = Cheater]
    /\ conn' = [conn EXCEPT ![i] = NoOne]
    /\ UNCHANGED <<chain, block, pc, owner, weight, times, json, submitted, earned,
                   reowned>>

\* Every byte of the row was answered by someone: the weights from the times.
EndStep ==
    /\ pc = "step"
    /\ Timed(times) # {}
    /\ weight' = NewWeights(weight, times)
    /\ pc' = "save"
    /\ UNCHANGED <<chain, block, owner, score, conn, times, json, submitted, earned,
                   reowned>>

\* save_state at the end of do_step, or its failure, which run only logs.
SaveStep ==
    /\ pc = "save"
    /\ Save \/ UNCHANGED <<json, reowned>>
    /\ times' = <<>>
    /\ pc' = "idle"
    /\ UNCHANGED <<chain, block, neuronVars, submitted, earned>>

-------------------------------------------------------------------------------
\* sync

\* set_weights.  A refused submission ends sync and changes nothing here.
SetWeights ==
    /\ pc = "idle"
    /\ submitted' = NormalizedWeights(score)
    /\ pc' = "submitted"
    /\ UNCHANGED <<chain, block, neuronVars, times, json, earned, reowned>>

\* save_state, whose failure ends sync.
SaveInSync ==
    /\ pc = "submitted"
    /\ \/ Save /\ pc' = "saved" /\ UNCHANGED submitted
       \/ UNCHANGED <<json, reowned>> /\ pc' = "idle" /\ submitted' = <<>>
    /\ UNCHANGED <<chain, block, neuronVars, times, earned>>

\* The call fails.
MetagraphFails ==
    /\ pc = "saved"
    /\ pc' = "idle"
    /\ submitted' = <<>>
    /\ UNCHANGED <<chain, block, neuronVars, times, json, earned, reowned>>

\* not_registered, or the index of the loop over the old neurons is out of
\* bounds for a shorter new list.
MetagraphPanics ==
    /\ pc = "saved"
    /\ \/ \A i \in DOMAIN chain[block] : chain[block][i] # Self
       \/ Len(chain[block]) < Len(owner)
    /\ Down
    /\ UNCHANGED <<chain, block, json, earned>>

\* Neurons with a new owner start afresh, as do new ones; the others are
\* connected to when they have no connection or a new axon (moved).
UpdateNeurons(reach, moved) ==
    LET hotkeys == chain[block]
    IN  /\ pc = "saved"
        /\ \E i \in DOMAIN hotkeys : hotkeys[i] = Self
        /\ Len(hotkeys) >= Len(owner)
        /\ Neurons(hotkeys, {i \in DOMAIN owner : owner[i] = hotkeys[i]},
                   score, weight,
                   [i \in DOMAIN owner |->
                       IF conn[i] = NoOne \/ owner[i] \in moved
                       THEN Connect(owner[i], score[i] = Cheater, reach)
                       ELSE conn[i]],
                   reach)
        /\ reowned' = reowned \cup Reowned(hotkeys)
        /\ pc' = "idle"
        /\ submitted' = <<>>
        /\ UNCHANGED <<chain, block, times, json, earned>>

-------------------------------------------------------------------------------
Event == \E i \in DOMAIN conn :
    \/ \E d \in Durations : \/ \E n \in 1 .. MaxBytes : Completed(i, n, d)
                            \/ \E n \in 0 .. MaxBytes : Failed(i, n, d)
    \/ Cheated(i)

Next ==
    \/ MakeBlock \/ Crash
    \/ \E reach \in SUBSET Miners : Start(reach)
    \/ BeginStep \/ Event \/ EndStep \/ SaveStep
    \/ SetWeights \/ SaveInSync \/ MetagraphFails \/ MetagraphPanics
    \/ \E reach, moved \in SUBSET Miners : UpdateNeurons(reach, moved)

Spec == Init /\ [][Next]_vars

-------------------------------------------------------------------------------
\* Type invariant.
TypeOK ==
    /\ chain \in Chains /\ block \in DOMAIN chain
    /\ pc \in {"down", "idle", "step", "save", "submitted", "saved"}
    /\ \A i \in DOMAIN owner : owner[i] \in Miners \cup {Self}
    /\ DOMAIN score = DOMAIN owner
    /\ DOMAIN weight = DOMAIN owner /\ DOMAIN conn = DOMAIN owner
    /\ \A i \in DOMAIN owner : /\ score[i] \in Nat \cup {Cheater}
                               /\ weight[i] \in 1 .. U8
                               /\ conn[i] \in Miners \cup {NoOne}
    /\ \A i \in DOMAIN submitted : submitted[i] \in 0 .. U16
    /\ \A i \in DOMAIN times : times[i].uid + 1 \in DOMAIN owner

EarnedBy(hotkey, n) == n = Cheater \/ n <= (IF hotkey = Self THEN 0 ELSE earned[hotkey])

\* A score, in memory and in data.json, never exceeds what the hotkey that has it
\* has answered: no UID passes it on to its next owner, over any syncs, deaths
\* and restarts.
ScoreEarned ==
    /\ \A i \in DOMAIN owner : EarnedBy(owner[i], score[i])
    /\ json.current => \A i \in DOMAIN json.key_info :
          EarnedBy(json.key_info[i].hotkey, json.key_info[i].score)

\* Work goes to, and its bytes are credited to, the miner that owns the UID as
\* far as the validator knows, and never to one that is marked as a cheater.
StreamsOwned ==
    \A i \in DOMAIN conn :
        conn[i] # NoOne => conn[i] = owner[i] /\ score[i] # Cheater

\* The weights the chain gets: nothing for cheaters, the most for the best score,
\* and never less for more.
WeightsFollowScores ==
    \A i \in DOMAIN submitted :
        /\ score[i] = Cheater => submitted[i] = 0
        /\ score[i] # Cheater =>
              /\ (\A j \in DOMAIN score : Value(score[j]) <= score[i])
                    => submitted[i] = U16
              /\ \A j \in DOMAIN submitted :
                    Value(score[j]) <= score[i] => submitted[j] <= submitted[i]

\* After a step, the miner that took the least time for a byte has the highest
\* weight there is, and one that took more has no higher weight.
WeightsFollowTimes ==
    pc = "save" =>
        LET timed == {i \in DOMAIN owner : WasTimed(times, i - 1)}
            time(i) == LastTime(times, i - 1)
        IN  \A i \in timed :
                /\ time(i) = Min(ByteTimes(times)) => weight[i] = U8
                /\ \A j \in timed : time(i) <= time(j) => weight[j] <= weight[i]

\* What data.json says of a cheater stays in it, through saves that fail, deaths
\* and restarts, until the process that saves has itself seen the UID without an
\* owner or with another one: owners the UID had before the mark do not excuse its
\* loss, nor do those that came and went between two looks at the metagraph.
MarksKept ==
    [][json.current => \A i \in DOMAIN json.key_info \ reowned :
          json.key_info[i].score = Cheater =>
             /\ i \in DOMAIN json'.key_info
             /\ json'.key_info[i].score = Cheater
             /\ json'.key_info[i].hotkey = json.key_info[i].hotkey]_vars
===============================================================================
