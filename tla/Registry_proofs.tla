------------------------------ MODULE Registry_proofs ------------------------------
(***************************************************************************)
(* For any number of hotkeys, steps, syncs, deaths and restarts, and any   *)
(* history of the subnet: a score never exceeds what the hotkey that has   *)
(* it answered, and work only goes to the owner of a UID, unmarked.  The   *)
(* two need each other: events are credited by UID, and it is the stream   *)
(* that says whose bytes they are.                                         *)
(***************************************************************************)
EXTENDS Registry, WellFoundedInduction, TLAPS

Hotkeys == Miners \cup {Self}

ScoreValues == Nat \cup {Cheater}

Shape ==
    /\ chain \in Chains
    /\ block \in DOMAIN chain
    /\ owner \in Seq(Hotkeys)
    /\ score \in [DOMAIN owner -> ScoreValues]
    /\ conn \in [DOMAIN owner -> Miners \cup {NoOne}]
    /\ earned \in [Miners -> Nat]

\* key_info of a data.json of this version.
JsonShape ==
    json.current => \A i \in DOMAIN json.key_info :
        /\ json.key_info[i].hotkey \in Hotkeys
        /\ json.key_info[i].score \in ScoreValues

\* The inductive invariant.
IInv == Shape /\ JsonShape /\ StreamsOwned /\ ScoreEarned

-------------------------------------------------------------------------------
\* The owners of the UIDs at a block are hotkeys.
LEMMA OwnersAtBlock ==
    ASSUME Shape
    PROVE  chain[block] \in Seq(Hotkeys)
BY RegistryAssumption DEF Shape, Hotkeys

\* A connection is one of the hotkey that was asked for, and of no cheater.
LEMMA Connections ==
    ASSUME NEW hotkey \in Hotkeys, NEW cheater \in BOOLEAN,
           NEW reach \in SUBSET Miners
    PROVE  /\ Connect(hotkey, cheater, reach) \in Miners \cup {NoOne}
           /\ Connect(hotkey, cheater, reach) # NoOne
                => Connect(hotkey, cheater, reach) = hotkey /\ ~cheater
BY DEF Connect

-------------------------------------------------------------------------------
\* The neurons a start or a sync makes are right when those it keeps are.
LEMMA NeuronsRight ==
    ASSUME IInv, NEW reach \in SUBSET Miners, NEW kept,
           NEW oldScore, NEW oldWeight, NEW oldConn,
           Neurons(chain[block], kept, oldScore, oldWeight, oldConn, reach),
           UNCHANGED <<chain, block, json, earned>>,
           \A i \in kept \cap DOMAIN chain[block] :
               /\ oldScore[i] \in ScoreValues
               /\ EarnedBy(chain[block][i], oldScore[i])
               /\ oldConn[i] \in Miners \cup {NoOne}
               /\ oldConn[i] # NoOne
                    => oldConn[i] = chain[block][i] /\ oldScore[i] # Cheater
    PROVE  IInv'
<1> DEFINE hotkeys == chain[block]
<1>1. hotkeys \in Seq(Hotkeys)
  BY OwnersAtBlock DEF IInv
<1>2. owner' = hotkeys
  BY DEF Neurons
<1>3. \A i \in DOMAIN hotkeys : hotkeys[i] \in Hotkeys
  BY <1>1
<1>4. \A i \in DOMAIN hotkeys :
        /\ Connect(hotkeys[i], FALSE, reach) \in Miners \cup {NoOne}
        /\ Connect(hotkeys[i], FALSE, reach) # NoOne
             => Connect(hotkeys[i], FALSE, reach) = hotkeys[i]
  BY <1>3, Connections
<1>5. score' \in [DOMAIN hotkeys -> ScoreValues] /\ conn' \in [DOMAIN hotkeys -> Miners \cup {NoOne}]
  BY <1>4 DEF Neurons, ScoreValues
<1>6. Shape' /\ JsonShape'
  BY <1>1, <1>2, <1>5 DEF IInv, Shape, JsonShape
<1>7. \A i \in DOMAIN hotkeys :
        conn'[i] # NoOne => conn'[i] = hotkeys[i] /\ score'[i] # Cheater
  <2> SUFFICES ASSUME NEW i \in DOMAIN hotkeys, conn'[i] # NoOne
               PROVE  conn'[i] = hotkeys[i] /\ score'[i] # Cheater
    OBVIOUS
  <2>1. CASE i \in kept
    <3>1. conn'[i] = oldConn[i] /\ score'[i] = oldScore[i]
      BY <2>1 DEF Neurons
    <3> QED BY <2>1, <3>1
  <2>2. CASE i \notin kept
    <3>1. conn'[i] = Connect(hotkeys[i], FALSE, reach) /\ score'[i] = 0
      BY <2>2 DEF Neurons
    <3>2. 0 # Cheater
      BY DEF Cheater
    <3>3. conn'[i] # NoOne
      OBVIOUS
    <3> QED BY <3>1, <3>2, <3>3, <1>4
  <2> QED BY <2>1, <2>2
<1>8. \A i \in DOMAIN hotkeys : EarnedBy(hotkeys[i], score'[i])
  <2> SUFFICES ASSUME NEW i \in DOMAIN hotkeys
               PROVE  EarnedBy(hotkeys[i], score'[i])
    OBVIOUS
  <2>1. CASE i \in kept
    <3>1. score'[i] = oldScore[i]
      BY <2>1 DEF Neurons
    <3> QED BY <2>1, <3>1
  <2>2. CASE i \notin kept
    <3>1. hotkeys[i] = Self \/ hotkeys[i] \in Miners
      BY <1>3 DEF Hotkeys
    <3>2. score'[i] = 0
      BY <2>2 DEF Neurons
    <3> QED BY <3>1, <3>2 DEF EarnedBy, IInv, Shape
  <2> QED BY <2>1, <2>2
<1>9. StreamsOwned'
  BY <1>5, <1>2, <1>7 DEF StreamsOwned
<1>10. ScoreEarned'
  BY <1>2, <1>8 DEF ScoreEarned, IInv, EarnedBy
<1> QED BY <1>6, <1>9, <1>10 DEF IInv

-------------------------------------------------------------------------------
\* No process yet.
LEMMA InitRight == Init => IInv
<1> SUFFICES ASSUME Init PROVE IInv
  OBVIOUS
<1>1. chain[1] \in Seq(Hotkeys) /\ block \in DOMAIN chain
  BY RegistryAssumption DEF Init, Hotkeys
<1>2. Shape
  BY <1>1 DEF Init, Shape
<1>3. JsonShape
  BY DEF Init, JsonShape
<1> QED BY <1>2, <1>3 DEF IInv, Init, StreamsOwned, ScoreEarned

\* With no process, nothing is owned.
LEMMA DownRight ==
    ASSUME IInv, Down, UNCHANGED <<chain, block, json, earned>>
    PROVE  IInv'
<1>1. owner' = <<>> /\ score' = <<>> /\ conn' = <<>>
  BY DEF Down
<1>2. Shape' /\ JsonShape'
  BY <1>1 DEF IInv, Shape, JsonShape
<1>3. ScoreEarned'
  BY <1>1 DEF IInv, ScoreEarned, EarnedBy
<1> QED BY <1>1, <1>2, <1>3 DEF IInv, StreamsOwned

\* What a process keeps after a start, a metagraph sync.
LEMMA StartRight ==
    ASSUME IInv, NEW reach \in SUBSET Miners, Start(reach)
    PROVE  IInv'
<1> DEFINE hotkeys == chain[block]
           kept == SameOwner(Loaded, hotkeys)
           oldConn == [i \in DOMAIN Loaded |->
                         Connect(Loaded[i].hotkey, Loaded[i].score = Cheater, reach)]
           oldScore == [i \in DOMAIN Loaded |-> Loaded[i].score]
           oldWeight == [i \in DOMAIN Loaded |-> Loaded[i].weight]
<1>1. /\ Neurons(hotkeys, kept, oldScore, oldWeight, oldConn, reach)
      /\ UNCHANGED <<chain, block, json, earned>>
  BY DEF Start
<1>2. ASSUME NEW i \in kept \cap DOMAIN hotkeys
      PROVE  /\ oldScore[i] \in ScoreValues
             /\ EarnedBy(hotkeys[i], oldScore[i])
             /\ oldConn[i] \in Miners \cup {NoOne}
             /\ oldConn[i] # NoOne => oldConn[i] = hotkeys[i] /\ oldScore[i] # Cheater
  <2>1. i \in DOMAIN Loaded /\ Loaded[i].hotkey = hotkeys[i]
    BY DEF SameOwner
  <2>2. json.current /\ Loaded = json.key_info
    BY <2>1 DEF Loaded
  <2>3. oldScore[i] = Loaded[i].score
    BY <2>1
  <2>4. oldConn[i] = Connect(hotkeys[i], Loaded[i].score = Cheater, reach)
    BY <2>1
  <2>5. hotkeys[i] \in Hotkeys /\ Loaded[i].score \in ScoreValues
    BY <2>1, <2>2 DEF IInv, JsonShape
  <2>6. EarnedBy(hotkeys[i], Loaded[i].score)
    BY <2>1, <2>2 DEF IInv, ScoreEarned
  <2>7. /\ oldConn[i] \in Miners \cup {NoOne}
        /\ oldConn[i] # NoOne
             => oldConn[i] = hotkeys[i] /\ ~(Loaded[i].score = Cheater)
    BY <2>1, <2>4, <2>5, Connections
  <2> QED BY <2>3, <2>5, <2>6, <2>7
<1> HIDE DEF kept, oldConn, oldScore, oldWeight
<1> QED BY <1>1, <1>2, NeuronsRight

\* sync keeps the neurons right.
LEMMA UpdateRight ==
    ASSUME IInv, NEW reach \in SUBSET Miners, NEW moved, UpdateNeurons(reach, moved)
    PROVE  IInv'
<1> DEFINE hotkeys == chain[block]
           kept == {i \in DOMAIN owner : owner[i] = hotkeys[i]}
           oldConn == [i \in DOMAIN owner |->
                         IF conn[i] = NoOne \/ owner[i] \in moved
                         THEN Connect(owner[i], score[i] = Cheater, reach)
                         ELSE conn[i]]
<1>1. /\ Neurons(hotkeys, kept, score, weight, oldConn, reach)
      /\ UNCHANGED <<chain, block, json, earned>>
  BY DEF UpdateNeurons
<1>2. ASSUME NEW i \in kept \cap DOMAIN hotkeys
      PROVE  /\ score[i] \in ScoreValues
             /\ EarnedBy(hotkeys[i], score[i])
             /\ oldConn[i] \in Miners \cup {NoOne}
             /\ oldConn[i] # NoOne => oldConn[i] = hotkeys[i] /\ score[i] # Cheater
  <2>1. i \in DOMAIN owner /\ owner[i] = hotkeys[i] /\ owner[i] \in Hotkeys
    BY DEF IInv, Shape
  <2>2. score[i] \in ScoreValues /\ EarnedBy(hotkeys[i], score[i])
    BY <2>1 DEF IInv, Shape, ScoreEarned
  <2>3. conn[i] \in Miners \cup {NoOne}
    BY <2>1 DEF IInv, Shape
  <2>4. conn[i] # NoOne => conn[i] = owner[i] /\ score[i] # Cheater
    BY <2>1 DEF IInv, Shape, StreamsOwned
  <2>5. CASE conn[i] = NoOne \/ owner[i] \in moved
    <3>1. oldConn[i] = Connect(owner[i], score[i] = Cheater, reach)
      BY <2>1, <2>5
    <3> QED BY <2>1, <2>2, <3>1, Connections
  <2>6. CASE ~(conn[i] = NoOne \/ owner[i] \in moved)
    <3>1. oldConn[i] = conn[i]
      BY <2>1, <2>6
    <3> QED BY <2>1, <2>2, <2>3, <2>4, <3>1
  <2> QED BY <2>5, <2>6
<1> HIDE DEF kept, oldConn
<1> QED BY <1>1, <1>2, NeuronsRight

-------------------------------------------------------------------------------
\* Bytes are credited to the miner that answered them: the stream is the owner's.
LEMMA AnsweredRight ==
    ASSUME IInv, NEW i \in DOMAIN conn, NEW n \in Nat, Answered(i, n),
           conn' = conn \/ conn' = [conn EXCEPT ![i] = NoOne]
    PROVE  IInv'
<1>1. /\ i \in DOMAIN owner /\ conn[i] = owner[i] /\ score[i] # Cheater
      /\ conn[i] \in Miners
  BY DEF IInv, Shape, StreamsOwned, Answered
<1>2. score[i] \in Nat /\ conn[i] # Self
  BY <1>1, RegistryAssumption DEF IInv, Shape, ScoreValues
<1>3. /\ score' = [score EXCEPT ![i] = score[i] + n]
      /\ earned' = [earned EXCEPT ![conn[i]] = earned[conn[i]] + n]
      /\ UNCHANGED <<chain, block, owner, json>>
  BY <1>1 DEF Answered, Added
<1>4. earned \in [Miners -> Nat] /\ earned' \in [Miners -> Nat]
  BY <1>1, <1>3 DEF IInv, Shape
<1>5. score[i] + n \in ScoreValues /\ score[i] + n # Cheater
  BY <1>2 DEF ScoreValues, Cheater
<1>6. Shape' /\ JsonShape'
  BY <1>1, <1>3, <1>4, <1>5 DEF IInv, Shape, JsonShape
<1>7. \A h \in Miners : earned[h] <= earned'[h]
  BY <1>1, <1>3, <1>4
<1>8. \A h \in Hotkeys, s \in ScoreValues : EarnedBy(h, s) => EarnedBy(h, s)'
  <2> SUFFICES ASSUME NEW h \in Hotkeys, NEW s \in ScoreValues, EarnedBy(h, s)
               PROVE  EarnedBy(h, s)'
    OBVIOUS
  <2>1. CASE s = Cheater \/ h = Self
    BY <2>1 DEF EarnedBy
  <2>2. CASE s # Cheater /\ h # Self
    <3>1. h \in Miners /\ s \in Nat /\ s <= earned[h]
      BY <2>2 DEF EarnedBy, Hotkeys, ScoreValues
    <3>2. earned[h] \in Nat /\ earned'[h] \in Nat /\ s <= earned'[h]
      BY <3>1, <1>4, <1>7
    <3> QED BY <3>2, <2>2 DEF EarnedBy
  <2> QED BY <2>1, <2>2
<1>9. ASSUME NEW j \in DOMAIN owner
      PROVE  EarnedBy(owner[j], score[j])'
  <2>1. owner[j] \in Hotkeys /\ score[j] \in ScoreValues /\ EarnedBy(owner[j], score[j])
    BY DEF IInv, Shape, ScoreEarned
  <2>2. CASE j # i
    <3>1. score'[j] = score[j]
      BY <2>2, <1>3 DEF IInv, Shape
    <3> QED BY <2>1, <3>1, <1>3, <1>8 DEF EarnedBy
  <2>3. CASE j = i
    <3>1. score'[j] = score[i] + n /\ earned'[owner[j]] = earned[owner[j]] + n
      BY <2>3, <1>1, <1>3, <1>4 DEF IInv, Shape
    <3>2. score[i] <= earned[owner[i]] /\ earned[owner[i]] \in Nat
      BY <2>1, <2>3, <1>1, <1>2, <1>4 DEF EarnedBy
    <3> QED BY <3>1, <3>2, <2>3, <1>1, <1>2, <1>3 DEF EarnedBy
  <2> QED BY <2>2, <2>3
<1>10. ScoreEarned'
  <2>1. ASSUME json.current, NEW j \in DOMAIN json.key_info
        PROVE  EarnedBy(json.key_info[j].hotkey, json.key_info[j].score)'
    <3>1. /\ json.key_info[j].hotkey \in Hotkeys
          /\ json.key_info[j].score \in ScoreValues
          /\ EarnedBy(json.key_info[j].hotkey, json.key_info[j].score)
      BY <2>1 DEF IInv, JsonShape, ScoreEarned
    <3>2. EarnedBy(json.key_info[j].hotkey, json.key_info[j].score)'
            <=> (\E h \in Hotkeys, s \in ScoreValues :
                   h = json.key_info[j].hotkey /\ s = json.key_info[j].score
                   /\ EarnedBy(h, s)')
      BY <3>1, <1>3 DEF EarnedBy
    <3> QED BY <3>1, <3>2, <1>8
  <2> QED BY <2>1, <1>3, <1>9 DEF ScoreEarned
<1>11. StreamsOwned'
  <2> SUFFICES ASSUME NEW j \in DOMAIN conn', conn'[j] # NoOne
               PROVE  conn'[j] = owner'[j] /\ score'[j] # Cheater
    BY DEF StreamsOwned
  <2>1. j \in DOMAIN conn /\ j \in DOMAIN score /\ conn'[j] = conn[j]
    BY DEF IInv, Shape
  <2>2. conn[j] = owner[j] /\ score[j] # Cheater
    BY <2>1 DEF IInv, StreamsOwned
  <2>3. score'[j] # Cheater
    BY <2>1, <2>2, <1>3, <1>5
  <2> QED BY <2>1, <2>2, <2>3, <1>3
<1> QED BY <1>6, <1>10, <1>11 DEF IInv

\* A mark takes the connection with it.
LEMMA CheatedRight ==
    ASSUME IInv, NEW i \in DOMAIN conn, Cheated(i)
    PROVE  IInv'
<1>1. /\ score' = [score EXCEPT ![i] = Cheater]
      /\ conn' = [conn EXCEPT ![i] = NoOne]
      /\ UNCHANGED <<chain, block, owner, json, earned>>
  BY DEF Cheated
<1>2. Shape' /\ JsonShape'
  BY <1>1 DEF IInv, Shape, JsonShape, ScoreValues
<1>3. StreamsOwned'
  BY <1>1 DEF IInv, Shape, StreamsOwned
<1>4. ScoreEarned'
  BY <1>1 DEF IInv, Shape, ScoreEarned, EarnedBy
<1> QED BY <1>2, <1>3, <1>4 DEF IInv

\* What is saved is what is in memory.
LEMMA SaveRight ==
    ASSUME IInv, Save, UNCHANGED <<chain, block, owner, score, conn, earned>>
    PROVE  IInv'
<1> DEFINE info == [i \in DOMAIN owner |->
               [hotkey |-> owner[i], score |-> score[i], weight |-> weight[i]]]
<1>1. json' = [current |-> TRUE, key_info |-> info]
  BY DEF Save
<1>2. DOMAIN json'.key_info = DOMAIN owner
  BY <1>1
<1>3. \A i \in DOMAIN owner : /\ json'.key_info[i].hotkey = owner[i]
                              /\ json'.key_info[i].score = score[i]
  BY <1>1
<1>4. Shape' /\ JsonShape'
  BY <1>2, <1>3 DEF IInv, Shape, JsonShape
<1>5. ScoreEarned'
  BY <1>2, <1>3 DEF IInv, ScoreEarned, EarnedBy
<1> QED BY <1>4, <1>5 DEF IInv, StreamsOwned

\* Steps that change none of it.
LEMMA OthersRight ==
    ASSUME IInv, block' \in DOMAIN chain,
           UNCHANGED <<chain, owner, score, conn, json, earned>>
    PROVE  IInv'
BY DEF IInv, Shape, JsonShape, StreamsOwned, ScoreEarned, EarnedBy

-------------------------------------------------------------------------------
\* Every step keeps the invariant.
LEMMA StepRight == IInv /\ [Next]_vars => IInv'
<1> SUFFICES ASSUME IInv, [Next]_vars PROVE IInv'
  OBVIOUS
<1> USE DEF neuronVars
<1>0. block \in DOMAIN chain
  BY DEF IInv, Shape
<1>1. CASE MakeBlock
  <2>1. block + 1 \in DOMAIN chain
    BY <1>0, <1>1, RegistryAssumption DEF MakeBlock, IInv, Shape
  <2> QED BY <1>1, <2>1, OthersRight DEF MakeBlock
<1>2. CASE Crash
  BY <1>2, DownRight DEF Crash
<1>3. ASSUME NEW reach \in SUBSET Miners, Start(reach) PROVE IInv'
  BY <1>3, StartRight
<1>4. CASE BeginStep
  BY <1>0, <1>4, OthersRight DEF BeginStep
<1>5. CASE Event
  <2>1. ASSUME NEW i \in DOMAIN conn, NEW d, NEW n \in 1 .. MaxBytes, Completed(i, n, d)
        PROVE  IInv'
    BY <2>1, AnsweredRight DEF Completed
  <2>2. ASSUME NEW i \in DOMAIN conn, NEW d, NEW n \in 0 .. MaxBytes, Failed(i, n, d)
        PROVE  IInv'
    <3>1. n \in Nat
      BY RegistryAssumption
    <3>2. Answered(i, n) /\ conn' = [conn EXCEPT ![i] = NoOne]
      BY <2>2 DEF Failed
    <3> QED BY <3>1, <3>2, AnsweredRight
  <2>3. ASSUME NEW i \in DOMAIN conn, Cheated(i) PROVE IInv'
    BY <2>3, CheatedRight
  <2> QED BY <1>5, <2>1, <2>2, <2>3 DEF Event
<1>6. CASE EndStep
  BY <1>0, <1>6, OthersRight DEF EndStep
<1>7. CASE SaveStep
  BY <1>0, <1>7, OthersRight, SaveRight DEF SaveStep
<1>8. CASE SetWeights
  BY <1>0, <1>8, OthersRight DEF SetWeights
<1>9. CASE SaveInSync
  BY <1>0, <1>9, OthersRight, SaveRight DEF SaveInSync
<1>10. CASE MetagraphFails
  BY <1>0, <1>10, OthersRight DEF MetagraphFails
<1>11. CASE MetagraphPanics
  BY <1>11, DownRight DEF MetagraphPanics
<1>12. ASSUME NEW reach \in SUBSET Miners, NEW moved \in SUBSET Miners,
              UpdateNeurons(reach, moved)
       PROVE  IInv'
  BY <1>12, UpdateRight
<1>13. CASE UNCHANGED vars
  BY <1>0, <1>13, OthersRight DEF vars
<1> QED
  BY <1>1, <1>2, <1>3, <1>4, <1>5, <1>6, <1>7, <1>8, <1>9, <1>10, <1>11, <1>12, <1>13
     DEF Next

\* The invariant holds in every reachable state.
LEMMA Inductive == Spec => []IInv
<1> QED BY InitRight, StepRight, PTL DEF Spec

-------------------------------------------------------------------------------
\* A score, in memory and in data.json, is at most what the hotkey that has it
\* answered, whatever happens to UIDs, processes and saves (sync,
\* Validator::new, handle_completion_events).
THEOREM NoUnearnedScore == Spec => []ScoreEarned
<1>1. IInv => ScoreEarned
  BY DEF IInv
<1> QED BY <1>1, Inductive, PTL

\* Work is only given to the owner of a UID, and to none that is marked as a
\* cheater (connect_to_miner and all that replaces connections).
THEOREM WorkForOwners == Spec => []StreamsOwned
<1>1. IInv => StreamsOwned
  BY DEF IInv
<1> QED BY <1>1, Inductive, PTL

-------------------------------------------------------------------------------
\* Marks.  A mark that was saved is one in memory too, of the same hotkey, unless
\* there is no process or this one has seen the UID without that owner.

Marked(i) == json.current /\ i \in DOMAIN json.key_info /\ json.key_info[i].score = Cheater

Remembered(i) ==
    i \in DOMAIN owner /\ owner[i] = json.key_info[i].hotkey /\ score[i] = Cheater

MarksRemembered == \A i : Marked(i) => i \in reowned \/ pc = "down" \/ Remembered(i)

\* No step but Save touches data.json, and none but these touches a mark in
\* memory: a marked neuron has no connection.
LEMMA MemoryKept ==
    ASSUME MarksRemembered, UNCHANGED json,
           pc # "down" /\ pc' # "down" => reowned \subseteq reowned',
           \A i : /\ Marked(i) /\ i \notin reowned' /\ pc' # "down"
                  /\ pc = "down" \/ Remembered(i)
                  => Remembered(i)'
    PROVE  MarksRemembered'
<1> SUFFICES ASSUME NEW i, Marked(i)', i \notin reowned', pc' # "down"
             PROVE  Remembered(i)'
  BY DEF MarksRemembered
<1>1. Marked(i)
  BY DEF Marked
<1>2. pc = "down" \/ Remembered(i)
  BY <1>1 DEF MarksRemembered
<1> QED BY <1>1, <1>2

\* A start loads the marks,
LEMMA StartKeepsMarks ==
    ASSUME NEW reach \in SUBSET Miners, Start(reach), NEW i, Marked(i), i \notin reowned'
    PROVE  Remembered(i)'
<1>1. i \in DOMAIN chain[block] /\ chain[block][i] = json.key_info[i].hotkey
  BY DEF Start, Reowned, Marked
<1>2. Loaded = json.key_info
  BY DEF Marked, Loaded
<1>3. i \in SameOwner(Loaded, chain[block])
  BY <1>1, <1>2 DEF Marked, SameOwner
<1>4. /\ owner' = chain[block] /\ score'[i] = json.key_info[i].score
      /\ json' = json
  BY <1>1, <1>2, <1>3 DEF Start, Neurons, Marked
<1> QED BY <1>1, <1>4 DEF Remembered, Marked

\* a sync keeps those of owners that stay,
LEMMA UpdateKeepsMarks ==
    ASSUME NEW reach \in SUBSET Miners, NEW moved, UpdateNeurons(reach, moved),
           NEW i, Marked(i), i \notin reowned', Remembered(i)
    PROVE  Remembered(i)'
<1>1. i \in DOMAIN chain[block] /\ chain[block][i] = json.key_info[i].hotkey
  BY DEF UpdateNeurons, Reowned, Marked
<1>2. owner' = chain[block] /\ score'[i] = score[i] /\ json' = json
  BY <1>1 DEF UpdateNeurons, Neurons, Remembered
<1> QED BY <1>1, <1>2 DEF Remembered

\* and an event only adds one.
LEMMA EventKeepsMarks ==
    ASSUME IInv, Event, NEW i, Remembered(i)
    PROVE  Remembered(i)'
<1>1. conn[i] = NoOne /\ i \in DOMAIN score /\ DOMAIN conn = DOMAIN score
  BY DEF IInv, Shape, StreamsOwned, Remembered
<1>2. ASSUME NEW j \in DOMAIN conn, NEW n, Answered(j, n)
      PROVE  Remembered(i)'
  <2>1. j # i
    BY <1>1, <1>2 DEF Answered
  <2>2. score'[i] = score[i] /\ owner' = owner /\ json' = json
    BY <1>1, <1>2, <2>1 DEF Answered, IInv, Shape
  <2> QED BY <2>2 DEF Remembered
<1>3. ASSUME NEW j \in DOMAIN conn, Cheated(j)
      PROVE  Remembered(i)'
  <2>1. j # i
    BY <1>1, <1>3 DEF Cheated
  <2>2. score'[i] = score[i] /\ owner' = owner /\ json' = json
    BY <1>1, <1>3, <2>1 DEF Cheated, IInv, Shape
  <2> QED BY <2>2 DEF Remembered
<1> QED BY <1>2, <1>3 DEF Event, Completed, Failed

\* A save writes the marks in memory.
LEMMA SaveKeepsMarks ==
    ASSUME IInv, Save, UNCHANGED <<chain, block, owner, score>>, NEW i
    PROVE  /\ Remembered(i) => Marked(i)'
           /\ Marked(i)' => Remembered(i)'
<1> DEFINE info == [k \in DOMAIN owner |->
               [hotkey |-> owner[k], score |-> score[k], weight |-> weight[k]]]
<1>1. json' = [current |-> TRUE, key_info |-> info]
  BY DEF Save
<1>2. json'.current /\ DOMAIN json'.key_info = DOMAIN owner
  BY <1>1
<1>3. i \in DOMAIN owner => /\ json'.key_info[i].hotkey = owner[i]
                            /\ json'.key_info[i].score = score[i]
  BY <1>1
<1> QED BY <1>2, <1>3 DEF Remembered, Marked

\* No mark yet.
LEMMA MarksInit == Init => MarksRemembered
BY DEF Init, MarksRemembered, Marked

\* Every step keeps saved marks in memory.
LEMMA MarksStep ==
    ASSUME IInv, MarksRemembered, [Next]_vars
    PROVE  MarksRemembered'
<1> USE DEF neuronVars
<1>1. CASE MakeBlock \/ BeginStep \/ EndStep \/ SetWeights \/ MetagraphFails
             \/ UNCHANGED vars
  BY <1>1 DEF MakeBlock, BeginStep, EndStep, SetWeights, MetagraphFails, vars,
              MarksRemembered, Marked, Remembered
<1>2. CASE Crash \/ MetagraphPanics
  BY <1>2 DEF Crash, MetagraphPanics, Down, MarksRemembered
<1>3. ASSUME NEW reach \in SUBSET Miners, Start(reach) PROVE MarksRemembered'
  <2>1. UNCHANGED json /\ pc = "down"
    BY <1>3 DEF Start
  <2> QED BY <1>3, <2>1, StartKeepsMarks, MemoryKept
<1>4. CASE Event
  <2>1. UNCHANGED <<json, reowned>> /\ pc = "step"
    BY <1>4 DEF Event, Completed, Failed, Answered, Cheated
  <2> QED BY <1>4, <2>1, EventKeepsMarks, MemoryKept
<1>5. CASE SaveStep \/ SaveInSync
  <2>1. UNCHANGED <<chain, block, owner, score>> /\ pc # "down" /\ pc' # "down"
    BY <1>5 DEF SaveStep, SaveInSync
  <2>2. CASE Save
    BY <2>1, <2>2, SaveKeepsMarks DEF MarksRemembered
  <2>3. CASE UNCHANGED <<json, reowned>>
    <3>1. \A i : Remembered(i) => Remembered(i)'
      BY <2>1, <2>3 DEF Remembered
    <3> QED BY <2>1, <2>3, <3>1, MemoryKept
  <2> QED BY <1>5, <2>2, <2>3 DEF SaveStep, SaveInSync
<1>6. ASSUME NEW reach \in SUBSET Miners, NEW moved \in SUBSET Miners,
             UpdateNeurons(reach, moved)
      PROVE  MarksRemembered'
  <2>1. UNCHANGED json /\ pc # "down" /\ reowned \subseteq reowned'
    BY <1>6 DEF UpdateNeurons
  <2> QED BY <1>6, <2>1, UpdateKeepsMarks, MemoryKept
<1> QED BY <1>1, <1>2, <1>3, <1>4, <1>5, <1>6 DEF Next

\* Steps leave a saved mark in data.json, and on the same hotkey.
LEMMA MarkedStays ==
    ASSUME IInv, MarksRemembered, [Next]_vars, NEW i, Marked(i), i \notin reowned
    PROVE  Marked(i)' /\ json'.key_info[i].hotkey = json.key_info[i].hotkey
<1> USE DEF neuronVars
<1>1. CASE UNCHANGED json
  BY <1>1 DEF Marked
<1>2. CASE (SaveStep \/ SaveInSync) /\ Save
  <2>1. UNCHANGED <<chain, block, owner, score>> /\ pc # "down"
    BY <1>2 DEF SaveStep, SaveInSync
  <2>2. Remembered(i)
    BY <2>1 DEF MarksRemembered
  <2>3. Marked(i)' /\ Remembered(i)'
    BY <1>2, <2>1, <2>2, SaveKeepsMarks
  <2> QED BY <2>1, <2>2, <2>3 DEF Remembered
<1>3. UNCHANGED json \/ ((SaveStep \/ SaveInSync) /\ Save)
  BY DEF Next, MakeBlock, Crash, Start, BeginStep, Event, Completed, Failed, Answered,
         Cheated, EndStep, SaveStep, SetWeights, SaveInSync, MetagraphFails,
         MetagraphPanics, UpdateNeurons, vars
<1> QED BY <1>1, <1>2, <1>3

\* What data.json says of a cheater stays in it through steps, syncs, failing
\* saves, deaths and restarts, until the process that saves has seen the UID
\* without that owner (save_state, load_state, sync).
THEOREM MarksStay == Spec => MarksKept
<1> DEFINE Kept ==
      json.current => \A i \in DOMAIN json.key_info \ reowned :
          json.key_info[i].score = Cheater =>
             /\ i \in DOMAIN json'.key_info
             /\ json'.key_info[i].score = Cheater
             /\ json'.key_info[i].hotkey = json.key_info[i].hotkey
<1>1. IInv /\ MarksRemembered /\ [Next]_vars => Kept
  BY MarkedStays DEF Marked
<1>2. IInv /\ MarksRemembered /\ [Next]_vars => MarksRemembered'
  BY MarksStep
<1>3. Init => MarksRemembered
  BY MarksInit
<1> HIDE DEF Kept
<1>4. Spec => [][Kept]_vars
  BY <1>1, <1>2, <1>3, Inductive, PTL DEF Spec
<1> QED BY <1>4 DEF Kept, MarksKept

-------------------------------------------------------------------------------
\* Weights.

\* Division by a positive number: the quotient of a multiple of it, and order.
LEMMA Quotient ==
    ASSUME NEW n \in Nat, NEW d \in Nat, d > 0
    PROVE  /\ n \div d \in Nat
           /\ d * (n \div d) <= n
           /\ n < d * (n \div d) + d
BY Z3

\* Division keeps order.
LEMMA QuotientOrder ==
    ASSUME NEW m \in Nat, NEW n \in Nat, NEW d \in Nat, d > 0, m <= n
    PROVE  m \div d <= n \div d
<1> DEFINE p == m \div d
           q == n \div d
<1>1. p \in Nat /\ q \in Nat /\ d * p <= m /\ n < d * q + d
  BY Quotient
<1> HIDE DEF p, q
<1>2. d * p < d * (q + 1)
  BY <1>1
<1>3. ASSUME p >= q + 1 PROVE FALSE
  <2>1. d * p >= d * (q + 1)
    BY <1>1, <1>3
  <2> QED BY <1>1, <1>2, <2>1
<1>4. p <= q
  BY <1>1, <1>3
<1> QED BY <1>4 DEF p, q

\* Division of a multiple.
LEMMA QuotientOfMultiple ==
    ASSUME NEW k \in Nat, NEW d \in Nat, d > 0
    PROVE  (k * d) \div d = k
BY Z3

\* A u16 is not negative.
LEMMA NotNegative == \A y \in 0 .. U16 : 0 <= y
<1>1. U16 \in Nat
  BY DEF U16
<1> QED BY <1>1

\* A number that fits u16 is what the cast keeps.
LEMMA LowBits ==
    ASSUME NEW n \in Nat, n <= U16
    PROVE  n % (U16 + 1) = n
<1>1. U16 + 1 = 65536 /\ n < 65536
  BY DEF U16
<1>2. n % 65536 = n
  BY <1>1
<1> QED BY <1>1, <1>2

-------------------------------------------------------------------------------
\* A share of the highest score fits u16: `as u16` cuts nothing off.
LEMMA Share ==
    ASSUME NEW max \in Nat, max > 0, NEW a \in Nat, a <= max
    PROVE  Normalized(a, max) = (a * U16) \div max /\ Normalized(a, max) \in 0 .. U16
<1> DEFINE q == (a * U16) \div max
<1>1. a * U16 \in Nat /\ a * U16 <= U16 * max /\ U16 * max \in Nat
  BY DEF U16
<1>2. q \in Nat
  BY <1>1, Quotient
<1>3. q <= (U16 * max) \div max
  BY <1>1, QuotientOrder
<1>4. (U16 * max) \div max = U16
  BY QuotientOfMultiple DEF U16
<1>5. Normalized(a, max) = q % (U16 + 1)
  BY DEF Normalized, Cheater
<1> HIDE DEF q
<1>6. q <= U16 /\ U16 \in Nat
  BY <1>3, <1>4 DEF U16
<1>7. q % (U16 + 1) = q
  BY <1>2, <1>6, LowBits
<1>8. q \in 0 .. U16
  BY <1>2, <1>6
<1> QED BY <1>5, <1>7, <1>8 DEF q

\* set_weights: whatever the scores, the best one gets all of u16, none gets more
\* than a better one, and a cheater gets nothing.
THEOREM WeightsInOrder ==
    ASSUME NEW max \in Nat, max > 0, NEW a \in Nat, NEW b \in Nat, a <= b, b <= max
    PROVE  /\ Normalized(Cheater, max) = 0
           /\ Normalized(max, max) = U16
           /\ Normalized(a, max) <= Normalized(b, max)
<1>1. Normalized(max, max) = U16
  <2>1. (U16 * max) \div max = U16
    BY QuotientOfMultiple DEF U16
  <2>2. max * U16 = U16 * max
    BY DEF U16
  <2> QED BY <2>1, <2>2, Share
<1>2. Normalized(a, max) <= Normalized(b, max)
  <2>1. a * U16 \in Nat /\ b * U16 \in Nat /\ a * U16 <= b * U16
    BY DEF U16
  <2>2. (a * U16) \div max <= (b * U16) \div max
    BY <2>1, QuotientOrder
  <2> QED BY <2>2, Share
<1> QED BY <1>1, <1>2 DEF Normalized

-------------------------------------------------------------------------------
\* Extremes.  NatLessThanWellFounded stands for induction.

\* A set of naturals that is not empty has a least element.
LEMMA LeastNat ==
    ASSUME NEW T \in SUBSET Nat, T # {}
    PROVE  \E m \in T : \A n \in T : m <= n
<1>1. PICK m \in T : \A n \in T : <<n, m>> \notin OpToRel(<, Nat)
  BY NatLessThanWellFounded, WFMin, Zenon
<1>2. \A n \in T : ~(n < m)
  BY <1>1, Zenon DEF OpToRel
<1> QED BY <1>2

\* Min of it is that element,
LEMMA Least ==
    ASSUME NEW S \in SUBSET Nat, S # {}
    PROVE  Min(S) \in S /\ \A x \in S : Min(S) <= x
<1>1. \E m \in S : \A n \in S : m <= n
  BY LeastNat
<1> QED BY <1>1 DEF Min

\* and Max the greatest, if there is a bound.
LEMMA Greatest ==
    ASSUME NEW S \in SUBSET Nat, S # {}, NEW b \in Nat, \A x \in S : x <= b
    PROVE  Max(S) \in S /\ \A x \in S : x <= Max(S)
<1> DEFINE T == {k \in Nat : \A x \in S : x <= k}
<1>1. T \in SUBSET Nat /\ T # {}
  BY DEF T
<1>2. PICK k \in T : \A m \in T : k <= m
  BY <1>1, LeastNat
<1>3. k \in Nat /\ \A x \in S : x <= k
  BY <1>2
<1>4. k \in S
  <2> SUFFICES ASSUME k \notin S PROVE FALSE
    OBVIOUS
  <2>1. \A x \in S : x <= k - 1
    BY <1>3
  <2>2. k - 1 \in Nat
    <3>1. PICK x \in S : x \in Nat
      OBVIOUS
    <3> QED BY <1>3, <2>1, <3>1
  <2>3. k - 1 \in T
    BY <2>1, <2>2
  <2> QED BY <1>2, <1>3, <2>3
<1>5. \E m \in S : \A x \in S : m >= x
  BY <1>3, <1>4
<1> QED BY <1>5 DEF Max

\* Finitely many numbers have a bound.
LEMMA Bounded ==
    ASSUME NEW n \in Nat, NEW f \in [1 .. n -> Nat]
    PROVE  \E b \in Nat : \A i \in 1 .. n : f[i] <= b
<1> DEFINE Good(k) == \E b \in Nat : \A i \in 1 .. k : f[i] <= b
           T == {k \in 0 .. n : ~Good(k)}
<1>1. CASE T = {}
  <2>1. n \in 0 .. n
    OBVIOUS
  <2>2. Good(n)
    BY <1>1, <2>1
  <2> QED BY <2>2
<1>2. CASE T # {}
  <2>1. T \in SUBSET Nat
    OBVIOUS
  <2>2. PICK k \in T : \A m \in T : k <= m
    BY <1>2, <2>1, LeastNat
  <2>3. k \in 0 .. n /\ ~Good(k)
    OBVIOUS
  <2>4. k # 0
    <3>1. \A i \in 1 .. 0 : f[i] <= 0
      OBVIOUS
    <3>2. Good(0)
      BY <3>1
    <3> QED BY <2>3, <3>2
  <2>5. k - 1 \in 0 .. n
    BY <2>3, <2>4
  <2>6. Good(k - 1)
    <3>1. ~(k <= k - 1)
      BY <2>3
    <3>2. k - 1 \notin T
      BY <2>2, <3>1
    <3> QED BY <2>5, <3>2
  <2>7. PICK b \in Nat : \A i \in 1 .. k - 1 : f[i] <= b
    BY <2>6
  <2>8. f[k] \in Nat
    BY <2>3, <2>4
  <2>9. ASSUME NEW i \in 1 .. k PROVE f[i] <= b + f[k]
    <3>1. f[i] \in Nat
      BY <2>3
    <3>2. CASE i = k
      BY <2>8, <3>2
    <3>3. CASE i # k
      <4>1. i \in 1 .. k - 1
        BY <2>3, <3>3
      <4>2. f[i] <= b
        BY <2>7, <4>1
      <4> QED BY <2>8, <3>1, <4>2
    <3> QED BY <3>2, <3>3
  <2>10. Good(k)
    <3>1. b + f[k] \in Nat
      BY <2>8
    <3> QED BY <2>9, <3>1
  <2> QED BY <2>3, <2>10
<1> QED BY <1>1, <1>2

\* The highest of finitely many numbers.
LEMMA Highest ==
    ASSUME NEW n \in Nat, n > 0, NEW f \in [1 .. n -> Nat]
    PROVE  LET S == {f[i] : i \in 1 .. n}
           IN  Max(S) \in Nat /\ (\E i \in 1 .. n : f[i] = Max(S))
               /\ \A i \in 1 .. n : f[i] <= Max(S)
<1> DEFINE S == {f[i] : i \in 1 .. n}
<1>1. S \in SUBSET Nat /\ f[1] \in S
  OBVIOUS
<1>2. PICK b \in Nat : \A i \in 1 .. n : f[i] <= b
  BY Bounded
<1>3. \A x \in S : x <= b
  BY <1>2
<1>4. Max(S) \in S /\ \A x \in S : x <= Max(S)
  BY <1>1, <1>3, Greatest
<1> QED BY <1>1, <1>4

-------------------------------------------------------------------------------
\* The weights of set_weights.

\* normalized_score of one score, and in comparison.
LEMMA NormalizedOrder ==
    ASSUME NEW max \in Nat, NEW s \in ScoreValues, NEW t \in ScoreValues,
           Value(s) <= max, Value(t) <= max
    PROVE  /\ Normalized(s, max) \in 0 .. U16
           /\ s = Cheater => Normalized(s, max) = 0
           /\ s # Cheater /\ s = max => Normalized(s, max) = U16
           /\ s # Cheater /\ Value(t) <= s => Normalized(t, max) <= Normalized(s, max)
<1>1. ASSUME NEW x \in ScoreValues, Value(x) <= max
      PROVE  Normalized(x, max) \in 0 .. U16 /\ (x = Cheater => Normalized(x, max) = 0)
  <2>1. CASE x = Cheater
    BY <2>1 DEF Normalized, U16
  <2>2. CASE x # Cheater /\ max = 0
    BY <2>2 DEF Normalized, U16
  <2>3. CASE x # Cheater /\ max # 0
    <3>1. x \in Nat /\ x <= max /\ max > 0
      BY <1>1, <2>3 DEF ScoreValues, Value
    <3> QED BY <2>3, <3>1, Share
  <2> QED BY <2>1, <2>2, <2>3
<1>2. ASSUME s # Cheater, s = max PROVE Normalized(s, max) = U16
  <2>1. CASE max = 0
    BY <1>2, <2>1 DEF Normalized
  <2>2. CASE max > 0
    BY <1>2, <2>2, WeightsInOrder
  <2> QED BY <2>1, <2>2
<1>3. ASSUME s # Cheater, Value(t) <= s PROVE Normalized(t, max) <= Normalized(s, max)
  <2>1. s \in Nat /\ s <= max
    BY <1>3 DEF ScoreValues, Value
  <2>2. CASE t = Cheater
    <3> DEFINE y == Normalized(s, max)
    <3>1. Normalized(t, max) = 0 /\ y \in 0 .. U16
      BY <1>1, <2>2
    <3> HIDE DEF y
    <3>2. 0 <= y
      BY <3>1, NotNegative
    <3> QED BY <3>1, <3>2 DEF y
  <2>3. CASE t # Cheater /\ max = 0
    <3>1. Normalized(t, max) = U16 /\ Normalized(s, max) = U16
      BY <1>3, <2>3 DEF Normalized
    <3> QED BY <3>1 DEF U16
  <2>4. CASE t # Cheater /\ max # 0
    <3>1. t \in Nat /\ t <= s /\ max > 0
      BY <1>3, <2>4 DEF ScoreValues, Value
    <3> QED BY <2>1, <3>1, WeightsInOrder
  <2> QED BY <2>2, <2>3, <2>4
<1> QED BY <1>1, <1>2, <1>3

\* A submission, for any scores.
LEMMA SubmissionRight ==
    ASSUME NEW n \in Nat, NEW scores \in [1 .. n -> ScoreValues],
           NEW i \in 1 .. n, NEW j \in 1 .. n
    PROVE  LET weights == NormalizedWeights(scores)
           IN  /\ weights[i] \in 0 .. U16
               /\ scores[i] = Cheater => weights[i] = 0
               /\ scores[i] # Cheater =>
                     /\ (\A k \in 1 .. n : Value(scores[k]) <= scores[i]) => weights[i] = U16
                     /\ Value(scores[j]) <= scores[i] => weights[j] <= weights[i]
<1> DEFINE f == [k \in 1 .. n |-> Value(scores[k])]
           max == Max({f[k] : k \in 1 .. n})
           weights == NormalizedWeights(scores)
<1>1. f \in [1 .. n -> Nat]
  <2>1. \A k \in 1 .. n : Value(scores[k]) \in Nat
    <3> TAKE k \in 1 .. n
    <3>1. scores[k] \in ScoreValues
      OBVIOUS
    <3> QED BY <3>1 DEF Value, ScoreValues
  <2> QED BY <2>1
<1>2. \A k \in 1 .. n : f[k] = Value(scores[k])
  OBVIOUS
<1>3. {Value(scores[k]) : k \in DOMAIN scores} = {f[k] : k \in 1 .. n}
  BY <1>2
<1>4. weights = [k \in 1 .. n |-> Normalized(scores[k], max)]
  BY <1>3 DEF NormalizedWeights
<1> HIDE DEF f
<1>5. n > 0
  OBVIOUS
<1>6. /\ max \in Nat /\ (\E k \in 1 .. n : f[k] = max)
      /\ \A k \in 1 .. n : f[k] <= max
  BY <1>1, <1>5, Highest
<1> HIDE DEF max, weights
<1>7. weights[i] = Normalized(scores[i], max) /\ weights[j] = Normalized(scores[j], max)
  BY <1>4
<1>8. /\ scores[i] \in ScoreValues /\ Value(scores[i]) <= max
      /\ scores[j] \in ScoreValues /\ Value(scores[j]) <= max
  BY <1>2, <1>6
<1>9. ASSUME scores[i] # Cheater, \A k \in 1 .. n : Value(scores[k]) <= scores[i]
      PROVE  scores[i] = max
  <2>1. Value(scores[i]) = scores[i] /\ scores[i] \in Nat
    BY <1>8, <1>9 DEF Value, ScoreValues
  <2>2. PICK k \in 1 .. n : Value(scores[k]) = max
    BY <1>2, <1>6
  <2>3. max <= scores[i]
    BY <1>9, <2>2
  <2> QED BY <1>6, <1>8, <2>1, <2>3
<1>10. /\ Normalized(scores[i], max) \in 0 .. U16
       /\ scores[i] = Cheater => Normalized(scores[i], max) = 0
       /\ scores[i] # Cheater /\ scores[i] = max => Normalized(scores[i], max) = U16
       /\ scores[i] # Cheater /\ Value(scores[j]) <= scores[i]
             => Normalized(scores[j], max) <= Normalized(scores[i], max)
  BY <1>6, <1>8, NormalizedOrder
<1> QED BY <1>7, <1>9, <1>10 DEF weights

-------------------------------------------------------------------------------
\* The weights by time.

\* An element of time_per_uid_byte.
Entry == [uid : Int, duration : Nat, processed : Nat]

\* The time per byte of an entry.
LEMMA PerByteNat ==
    ASSUME NEW entries \in Seq(Entry), NEW i \in Timed(entries)
    PROVE  i \in 1 .. Len(entries) /\ PerByte(entries[i]) \in Nat
<1>1. i \in 1 .. Len(entries) /\ entries[i] \in Entry /\ entries[i].processed # 0
  BY DEF Timed
<1>2. /\ entries[i].duration \in Nat /\ entries[i].processed \in Nat /\ entries[i].processed > 0
  BY <1>1 DEF Entry
<1> QED BY <1>1, <1>2, Quotient DEF PerByte

\* The fastest and the slowest miner of a step.
LEMMA TimeRange ==
    ASSUME NEW entries \in Seq(Entry), ByteTimes(entries) # {}
    PROVE  LET B == ByteTimes(entries)
           IN  /\ Min(B) \in B /\ Min(B) \in Nat /\ Max(B) \in Nat
               /\ \A t \in B : t \in Nat /\ Min(B) <= t /\ t <= Max(B)
<1> DEFINE B == ByteTimes(entries)
           n == Len(entries)
           f == [i \in 1 .. n |-> IF i \in Timed(entries) THEN PerByte(entries[i]) ELSE 0]
<1>1. n \in Nat /\ B \in SUBSET Nat
  BY PerByteNat DEF ByteTimes
<1>2. f \in [1 .. n -> Nat]
  BY PerByteNat
<1>3. \A t \in B : \E i \in 1 .. n : f[i] = t
  BY PerByteNat DEF ByteTimes
<1> HIDE DEF f, n
<1>4. PICK b \in Nat : \A i \in 1 .. n : f[i] <= b
  BY <1>1, <1>2, Bounded
<1>5. \A t \in B : t <= b
  BY <1>3, <1>4
<1>6. Max(B) \in B /\ \A t \in B : t <= Max(B)
  BY <1>1, <1>5, Greatest
<1>7. Min(B) \in B /\ \A t \in B : Min(B) <= t
  BY <1>1, Least
<1> QED BY <1>1, <1>6, <1>7

\* The time of a miner is one of those.
LEMMA LastTimeKnown ==
    ASSUME NEW entries \in Seq(Entry), NEW u, WasTimed(entries, u)
    PROVE  LastTime(entries, u) \in ByteTimes(entries)
<1> DEFINE own == {i \in Timed(entries) : entries[i].uid = u}
<1>1. own \in SUBSET Nat /\ own # {} /\ \A i \in own : i <= Len(entries)
  BY PerByteNat DEF WasTimed
<1>2. Len(entries) \in Nat
  OBVIOUS
<1>3. Max(own) \in own
  BY <1>1, <1>2, Greatest
<1> QED BY <1>3 DEF LastTime, ByteTimes

\* A number that fits u8 is what the cast keeps.
LEMMA LowByte ==
    ASSUME NEW n \in Nat, n <= U8
    PROVE  n % (U8 + 1) = n
<1>1. U8 + 1 = 256 /\ n < 256
  BY DEF U8
<1>2. n % 256 = n
  BY <1>1
<1> QED BY <1>1, <1>2

\* inverse_weight: how far a time is from the least, of the range of times.
LEMMA InverseWeight ==
    ASSUME NEW range \in Nat, range > 0, NEW a \in Nat, a <= range
    PROVE  /\ (U8 * a) \div range \in 0 .. U8
           /\ ((U8 * a) \div range) % (U8 + 1) = (U8 * a) \div range
<1> DEFINE q == (U8 * a) \div range
<1>1. U8 * a \in Nat /\ U8 * a <= U8 * range /\ U8 * range \in Nat
  BY DEF U8
<1>2. q \in Nat
  BY <1>1, Quotient
<1>3. q <= (U8 * range) \div range
  BY <1>1, QuotientOrder
<1>4. (U8 * range) \div range = U8
  BY QuotientOfMultiple DEF U8
<1> HIDE DEF q
<1>5. q <= U8 /\ U8 \in Nat
  BY <1>3, <1>4 DEF U8
<1>6. q % (U8 + 1) = q
  BY <1>2, <1>5, LowByte
<1>7. q \in 0 .. U8
  BY <1>2, <1>5
<1> QED BY <1>6, <1>7 DEF q

\* U8 less a weight turns the order around.
LEMMA Complement ==
    ASSUME NEW p \in 0 .. U8, NEW r \in 0 .. U8, p <= r
    PROVE  U8 - r \in 0 .. U8 /\ U8 - r <= U8 - p /\ U8 - 0 = U8
BY DEF U8

\* do_step: the least time has the highest weight, and more time never more.
LEMMA TimeWeightOrder ==
    ASSUME NEW entries \in Seq(Entry), NEW s \in ByteTimes(entries), NEW t \in ByteTimes(entries),
           s <= t
    PROVE  /\ TimeWeight(entries, t) \in 0 .. U8
           /\ TimeWeight(entries, t) <= TimeWeight(entries, s)
           /\ TimeWeight(entries, Min(ByteTimes(entries))) = U8
<1> DEFINE B == ByteTimes(entries)
           low == Min(B)
           range == Max(B) - low
           q(x) == (U8 * (x - low)) \div range
<1>1. /\ low \in B /\ low \in Nat /\ Max(B) \in Nat
      /\ \A x \in B : x \in Nat /\ low <= x /\ x <= Max(B)
  BY TimeRange
<1>2. \A x : TimeWeight(entries, x) = IF range = 0 THEN U8 ELSE U8 - (q(x) % (U8 + 1))
  BY DEF TimeWeight
<1> HIDE DEF B, low
<1>3. range \in Nat /\ \A x \in B : x - low \in Nat /\ x - low <= range
  BY <1>1
<1> HIDE DEF range
<1>4. CASE range = 0
  BY <1>2, <1>4 DEF U8, B, low
<1>5. CASE range > 0
  <2>1. \A x \in B : q(x) \in 0 .. U8 /\ TimeWeight(entries, x) = U8 - q(x)
    <3> TAKE x \in B
    <3>1. q(x) \in 0 .. U8 /\ q(x) % (U8 + 1) = q(x)
      BY <1>3, <1>5, InverseWeight
    <3> QED BY <1>2, <1>5, <3>1
  <2>2. s \in B /\ t \in B /\ low \in B
    BY <1>1 DEF B
  <2>3. q(s) <= q(t)
    <3>1. /\ U8 * (s - low) \in Nat /\ U8 * (t - low) \in Nat
          /\ U8 * (s - low) <= U8 * (t - low)
      BY <1>1, <1>3, <2>2 DEF U8
    <3> QED BY <1>3, <1>5, <3>1, QuotientOrder
  <2>4. q(low) = 0
    <3>1. U8 * (low - low) = 0
      BY <1>1 DEF U8
    <3>2. 0 \div range = 0
      BY <1>3, <1>5
    <3> QED BY <3>1, <3>2
  <2> HIDE DEF q
  <2>5. /\ TimeWeight(entries, t) = U8 - q(t) /\ q(t) \in 0 .. U8
        /\ TimeWeight(entries, s) = U8 - q(s) /\ q(s) \in 0 .. U8
        /\ TimeWeight(entries, low) = U8 - q(low)
    BY <2>1, <2>2
  <2>6. U8 - q(t) \in 0 .. U8 /\ U8 - q(t) <= U8 - q(s) /\ U8 - 0 = U8
    <3>1. q(t) \in 0 .. U8 /\ q(s) \in 0 .. U8
      BY <2>5
    <3> QED BY <2>3, <3>1, Complement
  <2> QED BY <2>4, <2>5, <2>6, Zenon DEF B, low
<1> QED BY <1>3, <1>4, <1>5

\* NonZeroU8 keeps the order, and 0 out.
LEMMA NonZeroOrder ==
    ASSUME NEW v \in 0 .. U8, NEW w \in 0 .. U8, v <= w
    PROVE  /\ NonZero(v) \in 1 .. U8 /\ NonZero(v) <= NonZero(w) /\ NonZero(U8) = U8
BY DEF NonZero, U8

-------------------------------------------------------------------------------
\* The times of a step and the weights, of neurons and for the chain.

Weights ==
    /\ weight \in [DOMAIN owner -> 1 .. U8]
    /\ json.current => \A i \in DOMAIN json.key_info : json.key_info[i].weight \in 1 .. U8

\* The times of a step are about neurons, and there are none between steps.
Times ==
    /\ times \in Seq(Entry)
    /\ \A i \in DOMAIN times : times[i].uid + 1 \in DOMAIN owner
    /\ pc \notin {"step", "save"} => times = <<>>

\* The scores are still those that the weights were submitted for.
Submission ==
    submitted = IF pc \in {"submitted", "saved"} THEN NormalizedWeights(score) ELSE <<>>

\* The times are still those that the weights were made of.
Reweighted ==
    pc = "save" => \A i \in DOMAIN owner :
        WasTimed(times, i - 1)
            => weight[i] = NonZero(TimeWeight(times, LastTime(times, i - 1)))

PayInv ==
    /\ pc \in {"down", "idle", "step", "save", "submitted", "saved"}
    /\ Weights /\ Times /\ Submission /\ Reweighted

\* No process yet.
LEMMA PayInit == Init => PayInv
<1> SUFFICES ASSUME Init PROVE PayInv
  OBVIOUS
<1>1. owner = <<>> /\ weight = <<>> /\ times = <<>> /\ submitted = <<>> /\ pc = "down"
  BY DEF Init
<1>2. ~json.current
  BY DEF Init
<1>3. Weights
  BY <1>1, <1>2 DEF Weights
<1>4. Times
  BY <1>1 DEF Times
<1> QED BY <1>1, <1>3, <1>4 DEF PayInv, Submission, Reweighted

\* With no process there are no weights and no times.
LEMMA PayDown ==
    ASSUME PayInv, Down, UNCHANGED json
    PROVE  PayInv'
<1>1. /\ owner' = <<>> /\ weight' = <<>> /\ times' = <<>> /\ submitted' = <<>>
      /\ pc' = "down" /\ json' = json
  BY DEF Down
<1>2. Weights'
  BY <1>1 DEF PayInv, Weights
<1>3. Times'
  BY <1>1 DEF Times
<1> QED BY <1>1, <1>2, <1>3 DEF PayInv, Submission, Reweighted

\* Neurons that are kept have their weight, the others the highest.
LEMMA PayNeurons ==
    ASSUME PayInv, NEW reach, NEW kept, NEW oldScore, NEW oldWeight, NEW oldConn,
           Neurons(chain[block], kept, oldScore, oldWeight, oldConn, reach),
           pc \notin {"step", "save"}, pc' = "idle", submitted' = <<>>,
           UNCHANGED <<times, json>>,
           \A i \in kept \cap DOMAIN chain[block] : oldWeight[i] \in 1 .. U8
    PROVE  PayInv'
<1>1. owner' = chain[block]
  BY DEF Neurons
<1>2. weight' = [i \in DOMAIN chain[block] |-> IF i \in kept THEN oldWeight[i] ELSE U8]
  BY DEF Neurons
<1>3. U8 \in 1 .. U8
  BY DEF U8
<1>4. weight' \in [DOMAIN owner' -> 1 .. U8]
  BY <1>1, <1>2, <1>3
<1>5. Weights'
  BY <1>4 DEF PayInv, Weights
<1>6. times = <<>>
  BY DEF PayInv, Times
<1>7. Times'
  BY <1>6 DEF Times
<1> QED BY <1>5, <1>7 DEF PayInv, Submission, Reweighted

\* A start loads weights, or gives everyone the highest.
LEMMA PayStart ==
    ASSUME PayInv, NEW reach, Start(reach)
    PROVE  PayInv'
<1> DEFINE kept == SameOwner(Loaded, chain[block])
           oldConn == [i \in DOMAIN Loaded |->
                         Connect(Loaded[i].hotkey, Loaded[i].score = Cheater, reach)]
           oldScore == [i \in DOMAIN Loaded |-> Loaded[i].score]
           oldWeight == [i \in DOMAIN Loaded |-> Loaded[i].weight]
<1>1. /\ Neurons(chain[block], kept, oldScore, oldWeight, oldConn, reach)
      /\ pc = "down" /\ pc' = "idle" /\ UNCHANGED <<times, json, submitted>>
  BY DEF Start
<1>2. submitted = <<>>
  BY <1>1 DEF PayInv, Submission
<1>3. ASSUME NEW i \in kept PROVE oldWeight[i] \in 1 .. U8
  <2>1. i \in DOMAIN Loaded
    BY DEF SameOwner
  <2>2. json.current /\ Loaded = json.key_info
    BY <2>1 DEF Loaded
  <2>3. Loaded[i].weight \in 1 .. U8
    BY <2>1, <2>2 DEF PayInv, Weights
  <2> QED BY <2>1, <2>3
<1> HIDE DEF kept, oldConn, oldScore, oldWeight
<1> QED BY <1>1, <1>2, <1>3, PayNeurons

\* sync moves or resets weights.
LEMMA PayUpdate ==
    ASSUME PayInv, NEW reach, NEW moved, UpdateNeurons(reach, moved)
    PROVE  PayInv'
<1> DEFINE kept == {i \in DOMAIN owner : owner[i] = chain[block][i]}
           oldConn == [i \in DOMAIN owner |->
                         IF conn[i] = NoOne \/ owner[i] \in moved
                         THEN Connect(owner[i], score[i] = Cheater, reach)
                         ELSE conn[i]]
<1>1. /\ Neurons(chain[block], kept, score, weight, oldConn, reach)
      /\ pc = "saved" /\ pc' = "idle" /\ submitted' = <<>> /\ UNCHANGED <<times, json>>
  BY DEF UpdateNeurons
<1>2. ASSUME NEW i \in kept PROVE weight[i] \in 1 .. U8
  BY DEF PayInv, Weights
<1> HIDE DEF kept, oldConn
<1> QED BY <1>1, <1>2, PayNeurons

\* A miner's time is added to the times, which stay about neurons.
LEMMA TimesAdded ==
    ASSUME IInv, PayInv, NEW i \in DOMAIN conn, NEW d \in Nat, NEW n \in Nat
    PROVE  LET t == Time(i - 1, d, n)
           IN  \A ts \in {Append(times, t), AddTime(times, t)} :
                  ts \in Seq(Entry) /\ \A j \in DOMAIN ts : ts[j].uid + 1 \in DOMAIN owner
<1> DEFINE t == Time(i - 1, d, n)
<1>1. i \in DOMAIN owner /\ i \in Int
  BY DEF IInv, Shape
<1>2. t \in Entry /\ t.uid + 1 = i /\ t.duration \in Nat /\ t.processed \in Nat
  BY <1>1 DEF Time, Entry
<1>3. /\ times \in Seq(Entry) /\ \A j \in DOMAIN times : times[j].uid + 1 \in DOMAIN owner
      /\ DOMAIN times = 1 .. Len(times) /\ Len(times) \in Nat
  BY DEF PayInv, Times
<1> HIDE DEF t
<1>4. /\ Append(times, t) \in Seq(Entry)
      /\ \A j \in DOMAIN Append(times, t) : Append(times, t)[j].uid + 1 \in DOMAIN owner
  <2>1. /\ Append(times, t) \in Seq(Entry)
        /\ DOMAIN Append(times, t) = 1 .. Len(times) + 1
        /\ \A j \in 1 .. Len(times) : Append(times, t)[j] = times[j]
        /\ Append(times, t)[Len(times) + 1] = t
    BY <1>2, <1>3
  <2>2. ASSUME NEW j \in 1 .. Len(times) + 1
        PROVE  Append(times, t)[j].uid + 1 \in DOMAIN owner
    <3>1. CASE j = Len(times) + 1
      BY <2>1, <3>1, <1>1, <1>2
    <3>2. CASE j # Len(times) + 1
      <4>1. j \in DOMAIN times
        BY <3>2, <1>3
      <4> QED BY <2>1, <4>1, <1>3
    <3> QED BY <3>1, <3>2
  <2> QED BY <2>1, <2>2
<1>5. /\ AddTime(times, t) \in Seq(Entry)
      /\ \A j \in DOMAIN AddTime(times, t) : AddTime(times, t)[j].uid + 1 \in DOMAIN owner
  <2> DEFINE own == {j \in DOMAIN times : times[j].uid = t.uid}
  <2>1. CASE own = {}
    BY <2>1, <1>4 DEF AddTime
  <2>2. CASE own # {}
    <3> DEFINE m == Min(own)
               r == Time(t.uid, times[m].duration + t.duration,
                         times[m].processed + t.processed)
    <3>1. own \in SUBSET Nat
      BY <1>3
    <3>2. m \in own
      BY <2>2, <3>1, Least
    <3>3. AddTime(times, t) = [times EXCEPT ![m] = r]
      BY <2>2 DEF AddTime
    <3>4. m \in DOMAIN times /\ times[m] \in Entry
      BY <3>2, <1>3
    <3>5. t.uid \in Int /\ times[m].duration \in Nat /\ times[m].processed \in Nat
      BY <1>2, <3>4 DEF Entry
    <3>6. r \in Entry /\ r.uid = t.uid
      BY <1>2, <3>5 DEF Entry, Time
    <3> HIDE DEF m, r
    <3> QED BY <1>1, <1>2, <1>3, <3>3, <3>4, <3>6
  <2> QED BY <2>1, <2>2
<1> QED BY <1>4, <1>5 DEF t

\* An event adds a time.
LEMMA PayAnswered ==
    ASSUME IInv, PayInv, NEW i \in DOMAIN conn, NEW d \in Nat, NEW n \in Nat, Answered(i, n),
           times' \in {Append(times, Time(i - 1, d, n)), AddTime(times, Time(i - 1, d, n))}
    PROVE  PayInv'
<1>1. /\ pc = "step" /\ UNCHANGED <<pc, owner, weight, json, submitted>>
  BY DEF Answered
<1>2. times' \in Seq(Entry) /\ \A j \in DOMAIN times' : times'[j].uid + 1 \in DOMAIN owner
  BY TimesAdded
<1>3. Times'
  BY <1>1, <1>2 DEF Times
<1>4. Weights'
  BY <1>1 DEF PayInv, Weights
<1>5. Submission'
  BY <1>1 DEF PayInv, Submission
<1> QED BY <1>1, <1>3, <1>4, <1>5 DEF PayInv, Reweighted

\* do_step: the weights from the times.
LEMMA PayEndStep == PayInv /\ EndStep => PayInv'
<1> SUFFICES ASSUME PayInv, EndStep PROVE PayInv'
  OBVIOUS
<1>1. /\ pc = "step" /\ pc' = "save" /\ weight' = NewWeights(weight, times)
      /\ UNCHANGED <<owner, json, times, submitted>>
  BY DEF EndStep
<1>2. DOMAIN weight = DOMAIN owner /\ times \in Seq(Entry)
  BY DEF PayInv, Weights, Times
<1>3. ASSUME NEW i \in DOMAIN owner
      PROVE  /\ weight'[i] \in 1 .. U8
             /\ WasTimed(times, i - 1)
                   => weight'[i] = NonZero(TimeWeight(times, LastTime(times, i - 1)))
  <2> DEFINE time == LastTime(times, i - 1)
  <2>1. weight'[i] = IF WasTimed(times, i - 1) THEN NonZero(TimeWeight(times, time))
                                              ELSE weight[i]
    BY <1>1, <1>2 DEF NewWeights
  <2>2. CASE WasTimed(times, i - 1)
    <3>1. time \in ByteTimes(times)
      BY <1>2, <2>2, LastTimeKnown
    <3> HIDE DEF time
    <3>2. time \in Nat
      BY <1>2, <3>1, TimeRange
    <3>3. TimeWeight(times, time) \in 0 .. U8
      BY <1>2, <3>1, <3>2, TimeWeightOrder
    <3>4. NonZero(TimeWeight(times, time)) \in 1 .. U8
      BY <3>3, NonZeroOrder
    <3> QED BY <2>1, <2>2, <3>4 DEF time
  <2>3. CASE ~WasTimed(times, i - 1)
    BY <2>1, <2>3 DEF PayInv, Weights
  <2> QED BY <2>2, <2>3
<1>4. weight' \in [DOMAIN owner -> 1 .. U8]
  <2>1. weight' = [i \in DOMAIN owner |-> weight'[i]]
    BY <1>1, <1>2 DEF NewWeights
  <2> QED BY <2>1, <1>3
<1>5. Weights'
  BY <1>1, <1>4 DEF PayInv, Weights
<1>6. Times'
  BY <1>1 DEF PayInv, Times
<1>7. Submission'
  BY <1>1 DEF PayInv, Submission
<1>8. Reweighted'
  BY <1>1, <1>3 DEF Reweighted
<1> QED BY <1>1, <1>5, <1>6, <1>7, <1>8 DEF PayInv

\* save_state writes the weights in memory.
LEMMA PaySave ==
    ASSUME PayInv, Save \/ UNCHANGED json, UNCHANGED <<owner, weight>>
    PROVE  Weights'
<1>1. CASE UNCHANGED json
  BY <1>1 DEF PayInv, Weights
<1>2. CASE Save
  <2>1. /\ DOMAIN json'.key_info = DOMAIN owner
        /\ \A i \in DOMAIN owner : json'.key_info[i].weight = weight[i]
    BY <1>2 DEF Save
  <2> QED BY <2>1 DEF PayInv, Weights
<1> QED BY <1>1, <1>2

\* Every step keeps the invariant.
LEMMA PayStep == IInv /\ PayInv /\ [Next]_vars => PayInv'
<1> SUFFICES ASSUME IInv, PayInv, [Next]_vars PROVE PayInv'
  OBVIOUS
<1> USE DEF neuronVars
<1>1. ASSUME pc' \in {pc, "step"}, pc # "save" \/ pc' # "step", pc' = "step" => pc \in {"idle", "step"},
             UNCHANGED <<owner, score, weight, times, json, submitted>>
      PROVE  PayInv'
  BY <1>1 DEF PayInv, Weights, Times, Submission, Reweighted
<1>2. CASE MakeBlock \/ BeginStep \/ UNCHANGED vars
  BY <1>1, <1>2 DEF MakeBlock, BeginStep, vars
<1>3. CASE Crash \/ MetagraphPanics
  BY <1>3, PayDown DEF Crash, MetagraphPanics
<1>4. ASSUME NEW reach \in SUBSET Miners, Start(reach) PROVE PayInv'
  BY <1>4, PayStart
<1>5. CASE Event
  <2>1. ASSUME NEW i \in DOMAIN conn, NEW d \in Durations, NEW n \in 1 .. MaxBytes,
               Completed(i, n, d)
        PROVE  PayInv'
    <3>1. d \in Nat /\ n \in Nat
      BY RegistryAssumption
    <3> QED BY <2>1, <3>1, PayAnswered DEF Completed
  <2>2. ASSUME NEW i \in DOMAIN conn, NEW d \in Durations, NEW n \in 0 .. MaxBytes,
               Failed(i, n, d)
        PROVE  PayInv'
    <3>1. d \in Nat /\ n \in Nat
      BY RegistryAssumption
    <3> QED BY <2>2, <3>1, PayAnswered DEF Failed
  <2>3. ASSUME NEW i \in DOMAIN conn, Cheated(i) PROVE PayInv'
    <3>1. pc = "step" /\ UNCHANGED <<pc, owner, weight, times, json, submitted>>
      BY <2>3 DEF Cheated
    <3> QED BY <3>1 DEF PayInv, Weights, Times, Submission, Reweighted
  <2> QED BY <1>5, <2>1, <2>2, <2>3 DEF Event
<1>6. CASE EndStep
  BY <1>6, PayEndStep
<1>7. CASE SaveStep
  <2>1. /\ pc = "save" /\ pc' = "idle" /\ times' = <<>>
        /\ UNCHANGED <<owner, weight, submitted>> /\ (Save \/ UNCHANGED json)
    BY <1>7 DEF SaveStep
  <2>2. Weights'
    BY <2>1, PaySave
  <2>3. Times'
    BY <2>1 DEF Times
  <2> QED BY <2>1, <2>2, <2>3 DEF PayInv, Submission, Reweighted
<1>8. CASE SetWeights
  BY <1>8 DEF SetWeights, PayInv, Weights, Times, Submission, Reweighted
<1>9. CASE SaveInSync
  <2>1. /\ pc = "submitted" /\ UNCHANGED <<owner, score, weight, times>>
        /\ Save \/ UNCHANGED json
        /\ \/ pc' = "saved" /\ UNCHANGED submitted
           \/ pc' = "idle" /\ submitted' = <<>>
    BY <1>9 DEF SaveInSync
  <2>2. Weights'
    BY <2>1, PaySave
  <2>3. Times'
    BY <2>1 DEF PayInv, Times
  <2> QED BY <2>1, <2>2, <2>3 DEF PayInv, Submission, Reweighted
<1>10. CASE MetagraphFails
  BY <1>10 DEF MetagraphFails, PayInv, Weights, Times, Submission, Reweighted
<1>11. ASSUME NEW reach \in SUBSET Miners, NEW moved \in SUBSET Miners,
              UpdateNeurons(reach, moved)
       PROVE  PayInv'
  BY <1>11, PayUpdate
<1> QED
  BY <1>2, <1>3, <1>4, <1>5, <1>6, <1>7, <1>8, <1>9, <1>10, <1>11 DEF Next

\* The invariants hold in every reachable state.
LEMMA PayInductive == Spec => [](IInv /\ PayInv)
BY PayInit, PayStep, Inductive, PTL DEF Spec

\* The weights the chain gets for the scores, as set_weights leaves them until
\* sync is over.
LEMMA PayScores == IInv /\ PayInv => WeightsFollowScores
<1> SUFFICES ASSUME IInv, PayInv, NEW i \in DOMAIN submitted
             PROVE  /\ score[i] = Cheater => submitted[i] = 0
                    /\ score[i] # Cheater =>
                          /\ (\A j \in DOMAIN score : Value(score[j]) <= score[i])
                                => submitted[i] = U16
                          /\ \A j \in DOMAIN submitted :
                                Value(score[j]) <= score[i] => submitted[j] <= submitted[i]
  BY DEF WeightsFollowScores
<1>1. submitted = NormalizedWeights(score)
  BY DEF PayInv, Submission
<1>2. PICK n \in Nat : score \in [1 .. n -> ScoreValues]
  BY DEF IInv, Shape
<1>3. DOMAIN submitted = 1 .. n /\ DOMAIN score = 1 .. n
  BY <1>1, <1>2 DEF NormalizedWeights
<1>4. ASSUME NEW j \in 1 .. n
      PROVE  /\ score[i] = Cheater => submitted[i] = 0
             /\ score[i] # Cheater =>
                   /\ (\A k \in 1 .. n : Value(score[k]) <= score[i]) => submitted[i] = U16
                   /\ Value(score[j]) <= score[i] => submitted[j] <= submitted[i]
  BY <1>1, <1>2, <1>3, SubmissionRight
<1> QED BY <1>3, <1>4

\* The weights that the times of a step give, as do_step leaves them until they
\* are saved.
LEMMA PayTimes == IInv /\ PayInv => WeightsFollowTimes
<1> SUFFICES ASSUME IInv, PayInv, pc = "save",
                    NEW i \in DOMAIN owner, WasTimed(times, i - 1)
             PROVE  /\ LastTime(times, i - 1) = Min(ByteTimes(times)) => weight[i] = U8
                    /\ \A j \in DOMAIN owner :
                          WasTimed(times, j - 1)
                            /\ LastTime(times, i - 1) <= LastTime(times, j - 1)
                          => weight[j] <= weight[i]
  BY DEF WeightsFollowTimes
<1> DEFINE time(k) == LastTime(times, k - 1)
           B == ByteTimes(times)
           given(t) == TimeWeight(times, t)
<1>1. times \in Seq(Entry)
  BY DEF PayInv, Times
<1>2. \A k \in DOMAIN owner : WasTimed(times, k - 1) => weight[k] = NonZero(given(time(k)))
  BY DEF PayInv, Reweighted
<1>3. \A k \in DOMAIN owner : WasTimed(times, k - 1) => time(k) \in B
  BY <1>1, LastTimeKnown
<1> HIDE DEF time
<1>4. \A t \in B : t \in Nat
  BY <1>1, TimeRange
<1>5. \A s, t \in B : s <= t => given(t) \in 0 .. U8 /\ given(t) <= given(s) /\ given(Min(B)) = U8
  BY <1>1, TimeWeightOrder
<1> HIDE DEF B, given
<1>6. \A s \in B : given(s) \in 0 .. U8 /\ given(Min(B)) = U8
  BY <1>4, <1>5
<1>7. ASSUME time(i) = Min(B) PROVE weight[i] = U8
  <2>1. weight[i] = NonZero(U8)
    BY <1>2, <1>3, <1>6, <1>7
  <2> QED BY <2>1 DEF NonZero, U8
<1>8. ASSUME NEW j \in DOMAIN owner, WasTimed(times, j - 1), time(i) <= time(j)
      PROVE  weight[j] <= weight[i]
  <2>1. time(i) \in B /\ time(j) \in B
    BY <1>3, <1>8
  <2>2. /\ given(time(j)) \in 0 .. U8 /\ given(time(i)) \in 0 .. U8
        /\ given(time(j)) <= given(time(i))
    BY <2>1, <1>5, <1>6, <1>8
  <2>3. NonZero(given(time(j))) <= NonZero(given(time(i)))
    BY <2>2, NonZeroOrder
  <2> QED BY <1>2, <1>8, <2>3
<1> QED BY <1>7, <1>8 DEF time, B

\* They are stronger than the type invariant.
LEMMA PayTypes == IInv /\ PayInv => TypeOK
<1> SUFFICES ASSUME IInv, PayInv PROVE TypeOK
  OBVIOUS
<1>1. \A i \in DOMAIN submitted : submitted[i] \in 0 .. U16
  <2> SUFFICES ASSUME NEW i \in DOMAIN submitted PROVE submitted[i] \in 0 .. U16
    OBVIOUS
  <2>1. submitted = NormalizedWeights(score)
    BY DEF PayInv, Submission
  <2>2. PICK n \in Nat : score \in [1 .. n -> ScoreValues]
    BY DEF IInv, Shape
  <2>3. i \in 1 .. n
    BY <2>1, <2>2 DEF NormalizedWeights
  <2> QED BY <2>1, <2>2, <2>3, SubmissionRight
<1>2. /\ chain \in Chains /\ block \in DOMAIN chain
      /\ \A i \in DOMAIN owner : owner[i] \in Miners \cup {Self}
      /\ DOMAIN score = DOMAIN owner /\ DOMAIN conn = DOMAIN owner
      /\ \A i \in DOMAIN owner : /\ score[i] \in Nat \cup {Cheater}
                                 /\ conn[i] \in Miners \cup {NoOne}
  BY DEF IInv, Shape, Hotkeys, ScoreValues
<1>3. /\ pc \in {"down", "idle", "step", "save", "submitted", "saved"}
      /\ DOMAIN weight = DOMAIN owner
      /\ \A i \in DOMAIN owner : weight[i] \in 1 .. U8
      /\ \A i \in DOMAIN times : times[i].uid + 1 \in DOMAIN owner
  BY DEF PayInv, Weights, Times
<1> QED BY <1>1, <1>2, <1>3 DEF TypeOK

-------------------------------------------------------------------------------
\* The owners, scores, weights, connections and times of the neurons keep their
\* types and are about the same UIDs, through every sync, death and restart: a
\* weight is never 0, a submitted one fits u16, and a time is that of a neuron.
THEOREM TypeCorrect == Spec => []TypeOK
BY PayInductive, PayTypes, PTL

\* The weights that the chain gets (set_weights): nothing for a cheater, all of
\* u16 for the best score, and never less for a higher score.
THEOREM SubmissionFollowsScores == Spec => []WeightsFollowScores
BY PayInductive, PayScores, PTL

\* After a step (do_step): the miner that took the least time for a byte has the
\* highest weight, and one that took more time has no higher one.
THEOREM WeightsFollowSpeed == Spec => []WeightsFollowTimes
BY PayInductive, PayTimes, PTL
==================================================================================
