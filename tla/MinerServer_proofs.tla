--------------------------- MODULE MinerServer_proofs ---------------------------
(***************************************************************************)
(* Whom the miner gives to its pool and on which grounds, for any subnet,  *)
(* any number of connections and whatever peers say on them.               *)
(***************************************************************************)
EXTENDS MinerServer, SequenceTheorems, TLAPS

-------------------------------------------------------------------------------
\* Metagraphs.

\* Chains are sequences of metagraphs.
LEMMA Graphs ==
    ASSUME NEW c \in Chains
    PROVE  /\ Len(c) \in Nat /\ DOMAIN c = 1 .. Len(c) /\ 1 \in DOMAIN c
           /\ Self \in Hotkeys(c[1])
           /\ \A b \in DOMAIN c : Len(c[b]) \in Nat /\ DOMAIN c[b] = 1 .. Len(c[b])
<1>1. c \in Seq(Range(c)) /\ c # <<>> /\ Self \in Hotkeys(c[1])
  BY ServerAssumption
<1>2. Len(c) \in Nat /\ DOMAIN c = 1 .. Len(c) /\ Len(c) # 0
  BY <1>1, LenProperties, EmptySeq
<1>3. \A b \in DOMAIN c : c[b] \in Seq(Range(c[b]))
  BY ServerAssumption
<1>4. \A b \in DOMAIN c : Len(c[b]) \in Nat /\ DOMAIN c[b] = 1 .. Len(c[b])
  BY <1>3, LenProperties
<1> QED
  BY <1>1, <1>2, <1>4

\* The UID of a hotkey that is registered.
LEMMA UidFound ==
    ASSUME NEW graph, Len(graph) \in Nat, DOMAIN graph = 1 .. Len(graph),
           NEW h \in Hotkeys(graph)
    PROVE  UidOf(graph, h) \in Nat /\ Owner(graph, UidOf(graph, h), h)
<1>1. PICK i \in DOMAIN graph : graph[i].hotkey = h
  BY DEF Hotkeys
<1> DEFINE j == CHOOSE k \in DOMAIN graph : graph[k].hotkey = h
<1>2. j \in DOMAIN graph /\ graph[j].hotkey = h
  BY <1>1
<1>3. UidOf(graph, h) = j - 1
  BY DEF UidOf
<1> HIDE DEF j
<1>4. (j - 1) + 1 = j /\ j - 1 \in Nat
  BY <1>2
<1> QED
  BY <1>2, <1>3, <1>4 DEF Owner

-------------------------------------------------------------------------------
\* Messages.

Keys == {"none"} \cup {g.message.minerKey : g \in Greetings}
                 \cup {g.message.validatorKey : g \in Greetings}

Message == [miner : Int, minerKey : Keys, validator : Int, validatorKey : Keys]

\* What nobody wrote is taken for a message too.
LEMMA GarbageMessages ==
    Garbage \subseteq Message /\ NoMessage \in Message /\ NoMessage.miner = -1
<1>1. Garbage \subseteq Message
  BY DEF Garbage, Message, Keys
<1>2. \E m \in Garbage : m.miner = -1
  <2> DEFINE n == [miner |-> -1, minerKey |-> "none", validator |-> -1,
                   validatorKey |-> "none"]
  <2>1. n \in Garbage /\ n.miner = -1
    BY DEF Garbage
  <2> QED
    BY <2>1
<1>3. NoMessage \in Garbage /\ NoMessage.miner = -1
  BY <1>2 DEF NoMessage
<1> QED
  BY <1>1, <1>3

\* What peers say are messages.
LEMMA GreetingMessages == \A g \in Greetings \cup {Silence} : g.message \in Message
<1>1. ASSUME NEW g \in Greetings PROVE g.message \in Message
  <2>1. IsMessage(g.message)
    BY ServerAssumption
  <2>2. g.message.minerKey \in Keys /\ g.message.validatorKey \in Keys
    BY DEF Keys
  <2> DEFINE m == g.message
  <2>3. /\ m = [miner |-> m.miner, minerKey |-> m.minerKey,
                validator |-> m.validator, validatorKey |-> m.validatorKey]
        /\ m.miner \in Int /\ m.validator \in Int
    BY <2>1 DEF IsMessage
  <2> QED
    BY <2>2, <2>3 DEF Message
<1>2. Silence.message \in Message
  BY GarbageMessages DEF Silence
<1> QED
  BY <1>1, <1>2

\* A read that stops anywhere leaves a message in memory.
LEMMA OverlayMessage ==
    ASSUME NEW k \in 0 .. 4, NEW m \in Message, NEW rest \in Message
    PROVE  Overlay(k, m, rest) \in Message
BY DEF Overlay, Message

-------------------------------------------------------------------------------
\* The inductive invariant.

StreamState == [greeting : Greetings \cup {Silence}, said : 0 .. 2, ready : BOOLEAN,
                open : BOOLEAN, stage : {"backlog", "handshake", "pooled", "over"},
                grounds : Message, view : Nat, block : Nat]

\* The metagraph is the one of lastSync.
Metagraph ==
    /\ chain \in Chains /\ block \in DOMAIN chain
    /\ due \in BOOLEAN
    /\ current \in 1 .. block /\ lastSync \in 1 .. current
    /\ neurons = chain[lastSync]
    /\ uid \in Nat /\ Owner(neurons, uid, Self)

Control ==
    /\ pc \in {"sync", "sleep", "accept", "message", "signature", "exited", "panicked"}
    /\ accepted \in 0 .. Len(stream)
    /\ accepted # 0 <=> pc \in {"message", "signature"}

Streams ==
    /\ stream \in Seq(StreamState)
    /\ \A s \in DOMAIN stream : /\ stream[s].view \in 0 .. lastSync
                                /\ stream[s].block \in 0 .. current

Memory == memory \in Message /\ (sigMemory = NoSignature \/ Sent(sigMemory))

\* The stream at hand was accepted at the current block.
AtHand == accepted # 0 => /\ stream[accepted].stage = "handshake"
                          /\ stream[accepted].block = current

\* What waits for its signature has been checked.
Checked == pc = "signature" => InfoMatches(memory)

\* The metagraph is less than an epoch old where it is used.
FreshView ==
    pc \in {"accept", "message", "signature"} \/ (pc = "sync" /\ ~due)
        => current - lastSync < EPOCH_LENGTH

IInv == /\ Metagraph /\ Control /\ Streams /\ Memory
        /\ AtHand /\ Checked /\ FreshView /\ AdmittedOnMerit

\* The invariant is stronger than the type invariant.
LEMMA IInvTypes == IInv => TypeOK
<1> SUFFICES ASSUME IInv PROVE TypeOK
  OBVIOUS
<1>1. \A s \in DOMAIN stream :
          /\ stream[s].said \in 0 .. 2
          /\ stream[s].ready \in BOOLEAN /\ stream[s].open \in BOOLEAN
          /\ stream[s].view \in 0 .. lastSync /\ stream[s].block \in 0 .. current
  <2>1. \A s \in DOMAIN stream : stream[s] \in StreamState
    BY DEF IInv, Streams
  <2> QED
    BY <2>1 DEF IInv, Streams, StreamState
<1>2. IsMessage(memory)
  BY DEF IInv, Memory, Message, IsMessage
<1> QED
  BY <1>1, <1>2 DEF IInv, Metagraph, Control, Memory, TypeOK

\* A miner that starts.
LEMMA InitIInv == Init => IInv
<1> SUFFICES ASSUME Init PROVE IInv
  OBVIOUS
<1>1. /\ chain \in Chains /\ block = 1 /\ neurons = chain[1]
      /\ uid = UidOf(chain[1], Self) /\ current = 1 /\ lastSync = 1 /\ pc = "sync"
      /\ due = FALSE /\ memory = NoMessage /\ sigMemory = NoSignature
      /\ accepted = 0 /\ stream = <<>>
  BY DEF Init
<1>2. Metagraph
  <2> DEFINE u == UidOf(chain[1], Self)
  <2>1. 1 \in DOMAIN chain /\ Self \in Hotkeys(chain[1])
    BY <1>1, Graphs
  <2>2. Len(chain[1]) \in Nat /\ DOMAIN chain[1] = 1 .. Len(chain[1])
    BY <1>1, <2>1, Graphs
  <2>3. u \in Nat /\ Owner(chain[1], u, Self)
    BY <2>1, <2>2, UidFound
  <2>4. uid = u
    BY <1>1
  <2> HIDE DEF u
  <2>5. current \in 1 .. block /\ lastSync \in 1 .. current
    BY <1>1
  <2>6. neurons = chain[lastSync] /\ block \in DOMAIN chain
    BY <1>1, <2>1
  <2> QED
    BY <1>1, <2>3, <2>4, <2>5, <2>6 DEF Metagraph
<1>3. Control /\ Streams /\ Memory /\ AtHand /\ Checked
  BY <1>1, EmptySeq, GarbageMessages DEF Control, Streams, Memory, AtHand, Checked
<1>4. FreshView
  BY <1>1, ServerAssumption DEF FreshView
<1>5. AdmittedOnMerit
  BY <1>1 DEF AdmittedOnMerit
<1> QED
  BY <1>2, <1>3, <1>4, <1>5 DEF IInv

-------------------------------------------------------------------------------
\* Parts of the invariant that many actions leave alone.

\* Blocks are numbers.
BlockTypes == block \in Nat /\ current \in Nat /\ lastSync \in Nat

LEMMA BlocksNat == (Metagraph => BlockTypes) /\ (Metagraph => BlockTypes)'
<1>1. Metagraph => BlockTypes
  BY Graphs DEF Metagraph, BlockTypes
<1> QED
  BY <1>1, PTL

\* What was sent stays sent.
Lasting == \A r \in DOMAIN stream : stream[r].said = 2 =>
               /\ r \in DOMAIN stream' /\ stream'[r].said = 2
               /\ stream'[r].greeting = stream[r].greeting

\* The two parts of AdmittedOnMerit: the checks, and the signature.
Merit(t, c) ==
    t.stage = "pooled" =>
        LET m == t.grounds
            graph == c[t.view]
        IN  /\ t.block - t.view < EPOCH_LENGTH
            /\ m.minerKey = Self /\ Owner(graph, m.miner, Self)
            /\ Owner(graph, m.validator, m.validatorKey)
            /\ Entitled(graph[m.validator + 1])

SignatureOf(t) == [by |-> t.grounds.validatorKey, of |-> t.grounds]

Signed == \A s \in DOMAIN stream :
              stream[s].stage = "pooled" =>
                  \E r \in DOMAIN stream :
                      /\ stream[r].said = 2
                      /\ stream[r].greeting.signature = SignatureOf(stream[s])

Merits == \A s \in DOMAIN stream : Merit(stream[s], chain)

LEMMA MeritParts ==
    /\ AdmittedOnMerit <=> Merits /\ Signed
    /\ (AdmittedOnMerit <=> Merits /\ Signed)'
<1>1. AdmittedOnMerit <=> Merits /\ Signed
  BY DEF AdmittedOnMerit, Merits, Merit, Signed, SignatureOf, Sent
<1> QED
  BY <1>1, PTL

\* A step that keeps signatures, and either keeps a stream in the pool or takes
\* it out of it, keeps AdmittedOnMerit.
LEMMA MeritSteady ==
    ASSUME IInv, UNCHANGED chain, Lasting,
           \A s \in DOMAIN stream' :
               stream'[s].stage = "pooled" => s \in DOMAIN stream /\ stream'[s] = stream[s]
    PROVE  AdmittedOnMerit'
<1>1. Merits /\ Signed
  BY MeritParts DEF IInv
<1>2. Merits'
  BY <1>1 DEF Merits, Merit
<1>3. Signed'
  BY <1>1 DEF Signed, Lasting
<1> QED
  BY <1>2, <1>3, MeritParts

\* An action that touches no stream.
LEMMA StreamsSteady ==
    ASSUME IInv, Metagraph', UNCHANGED <<chain, stream>>,
           current' >= current, lastSync' >= lastSync
    PROVE  Streams' /\ AdmittedOnMerit' /\ Lasting
<1>1. /\ lastSync \in Nat /\ current \in Nat /\ current' \in Nat /\ lastSync' \in Nat
  BY BlocksNat DEF IInv, BlockTypes
<1>2. Streams'
  BY <1>1 DEF IInv, Streams
<1>3. Lasting
  BY DEF Lasting
<1>4. AdmittedOnMerit'
  BY <1>3, MeritSteady
<1> QED
  BY <1>2, <1>3, <1>4

\* The memory of the last handshake stays.
LEMMA MemorySteady ==
    ASSUME IInv, UNCHANGED memoryVars, Lasting
    PROVE  Memory'
<1>1. UNCHANGED <<memory, sigMemory>>
  BY DEF memoryVars
<1> QED
  BY <1>1 DEF IInv, Memory, Sent, Lasting

\* Where a stream is.
LEMMA StreamFields ==
    ASSUME IInv, NEW s \in DOMAIN stream
    PROVE  /\ stream[s] \in StreamState
           /\ stream[s].greeting \in Greetings \cup {Silence}
           /\ stream[s].greeting.message \in Message
           /\ stream[s].said \in 0 .. 2 /\ stream[s].open \in BOOLEAN
           /\ stream[s].ready \in BOOLEAN
           /\ stream[s].view \in 0 .. lastSync /\ stream[s].block \in 0 .. current
           /\ s \in Nat /\ s # 0
<1>1. stream[s] \in StreamState /\ s \in Nat /\ s # 0
  BY LenProperties DEF IInv, Streams
<1>2. stream[s].greeting \in Greetings \cup {Silence}
  BY <1>1 DEF StreamState
<1> QED
  BY <1>1, <1>2, GreetingMessages DEF IInv, Streams, StreamState

\* One stream changes, and keeps what its peer has sent.
LEMMA EditStream ==
    ASSUME IInv, NEW s \in DOMAIN stream, NEW e \in StreamState,
           stream' = [stream EXCEPT ![s] = e], UNCHANGED chain,
           stream[s].said = 2 => e.said = 2 /\ e.greeting = stream[s].greeting
    PROVE  /\ stream' \in Seq(StreamState) /\ Len(stream') = Len(stream)
           /\ Len(stream') \in Nat
           /\ DOMAIN stream' = DOMAIN stream /\ stream'[s] = e
           /\ \A r \in DOMAIN stream : r # s => stream'[r] = stream[r]
           /\ Lasting
           /\ e.stage # "pooled" => AdmittedOnMerit'
<1>1. stream \in Seq(StreamState)
  BY DEF IInv, Streams
<1>2. stream' \in Seq(StreamState) /\ Len(stream') = Len(stream) /\ Len(stream') \in Nat
  BY <1>1, ExceptSeq, LenProperties
<1>3. /\ DOMAIN stream' = DOMAIN stream /\ stream'[s] = e
      /\ \A r \in DOMAIN stream : r # s => stream'[r] = stream[r]
  BY <1>1, <1>2
<1>4. Lasting
  BY <1>3 DEF Lasting
<1>5. e.stage # "pooled" => AdmittedOnMerit'
  BY <1>3, <1>4, MeritSteady
<1> QED
  BY <1>2, <1>3, <1>4, <1>5

\* Such a change outside the miner's own data keeps these parts.
LEMMA EditKeeps ==
    ASSUME IInv, NEW s \in DOMAIN stream, NEW e \in StreamState,
           stream' = [stream EXCEPT ![s] = e],
           UNCHANGED <<chainVars, minerVars>>,
           stream[s].said = 2 => e.said = 2 /\ e.greeting = stream[s].greeting,
           e.view \in 0 .. lastSync, e.block \in 0 .. current
    PROVE  Metagraph' /\ Streams'
<1>1. UNCHANGED <<chain, block, due, current, neurons, lastSync, uid>>
  BY DEF chainVars, minerVars
<1>2. /\ stream' \in Seq(StreamState) /\ DOMAIN stream' = DOMAIN stream /\ stream'[s] = e
      /\ \A r \in DOMAIN stream : r # s => stream'[r] = stream[r]
  BY <1>1, EditStream
<1>3. Metagraph'
  BY <1>1 DEF IInv, Metagraph
<1>4. Streams'
  BY <1>1, <1>2 DEF IInv, Streams
<1> QED
  BY <1>3, <1>4

\* A stream that is over.
LEMMA OverState ==
    ASSUME IInv, NEW s \in DOMAIN stream
    PROVE  /\ Over(s) \in StreamState /\ Over(s).stage = "over"
           /\ Over(s).view = 0 /\ Over(s).block = 0
           /\ Over(s).said = stream[s].said /\ Over(s).greeting = stream[s].greeting
BY StreamFields, GarbageMessages DEF Over, StreamState

-------------------------------------------------------------------------------
\* The environment.

\* The chain goes on.
LEMMA MakeBlockIInv == IInv /\ MakeBlock => IInv'
<1> SUFFICES ASSUME IInv, MakeBlock PROVE IInv'
  OBVIOUS
<1>1. /\ block < Len(chain) /\ block' = block + 1 /\ UNCHANGED memoryVars
      /\ UNCHANGED <<chain, pc, due, current, neurons, lastSync, uid, memory, accepted,
                     stream>>
  BY DEF MakeBlock, minerVars, memoryVars
<1>2. Metagraph'
  BY <1>1, Graphs DEF IInv, Metagraph
<1>3. block \in Nat /\ current \in Nat /\ lastSync \in Nat
  BY Graphs DEF IInv, Metagraph
<1>4. Streams' /\ AdmittedOnMerit' /\ Memory'
  BY <1>1, <1>2, <1>3, StreamsSteady, MemorySteady
<1>5. Control' /\ AtHand' /\ Checked' /\ FreshView'
  BY <1>1 DEF IInv, Control, AtHand, Checked, InfoMatches, Addressed, KnownUid, FreshView
<1> QED
  BY <1>2, <1>4, <1>5 DEF IInv

\* What only waits, wakes or passes the time.
LEMMA WaitIInv ==
    ASSUME IInv, TimePasses \/ Wake \/ NoSync \/ NoConnection
    PROVE  IInv'
<1>1. /\ UNCHANGED <<chain, block, current, neurons, lastSync, uid, memory, accepted,
                     stream>>
      /\ UNCHANGED memoryVars
      /\ due' \in BOOLEAN
  BY DEF TimePasses, Wake, NoSync, NoConnection, minerVars, chainVars, memoryVars, IInv,
         Metagraph
<1>2. Metagraph'
  BY <1>1 DEF IInv, Metagraph
<1>3. block \in Nat /\ current \in Nat /\ lastSync \in Nat
  BY Graphs DEF IInv, Metagraph
<1>4. Streams' /\ AdmittedOnMerit' /\ Memory'
  BY <1>1, <1>2, <1>3, StreamsSteady, MemorySteady
<1>5. Control' /\ FreshView'
  BY <1>1 DEF IInv, Control, FreshView, TimePasses, Wake, NoSync, NoConnection
<1>6. AtHand'
  BY <1>1 DEF IInv, AtHand
<1>7. Checked'
  BY <1>1 DEF IInv, Checked, InfoMatches, Addressed, KnownUid, TimePasses, Wake, NoSync,
              NoConnection
<1> QED
  BY <1>2, <1>4, <1>5, <1>6, <1>7 DEF IInv

\* A peer connects.
LEMMA DialIInv == IInv /\ Dial => IInv'
<1> SUFFICES ASSUME IInv, Dial PROVE IInv'
  OBVIOUS
<1> DEFINE e == [greeting |-> Silence, said |-> 0, ready |-> FALSE, open |-> TRUE,
                 stage |-> "backlog", grounds |-> NoMessage, view |-> 0, block |-> 0]
<1>1. /\ Running /\ stream' = Append(stream, e) /\ UNCHANGED memoryVars
      /\ UNCHANGED <<chain, block, pc, due, current, neurons, lastSync, uid, memory,
                     accepted>>
  BY DEF Dial, minerVars, chainVars, memoryVars
<1>2. /\ e \in StreamState /\ e.stage = "backlog" /\ e.view = 0 /\ e.block = 0
  BY GarbageMessages DEF StreamState
<1> HIDE DEF e
<1>3. /\ stream' \in Seq(StreamState) /\ Len(stream') = Len(stream) + 1
      /\ DOMAIN stream' = DOMAIN stream \cup {Len(stream) + 1}
      /\ stream'[Len(stream) + 1] = e
      /\ \A s \in DOMAIN stream : stream'[s] = stream[s]
      /\ Len(stream) \in Nat /\ DOMAIN stream = 1 .. Len(stream)
  BY <1>1, <1>2, AppendProperties, LenProperties DEF IInv, Streams
<1>4. Metagraph'
  BY <1>1 DEF IInv, Metagraph
<1>5. Lasting
  BY <1>3 DEF Lasting
<1>6. Memory' /\ AdmittedOnMerit'
  <2>1. \A s \in DOMAIN stream' : stream'[s].stage = "pooled" =>
             s \in DOMAIN stream /\ stream'[s] = stream[s]
    BY <1>2, <1>3
  <2> QED
    BY <1>1, <1>5, <2>1, MemorySteady, MeritSteady
<1>7. Streams'
  <2>1. lastSync \in Nat /\ current \in Nat
    BY Graphs DEF IInv, Metagraph
  <2> QED
    BY <1>1, <1>2, <1>3, <2>1 DEF IInv, Streams
<1>8. Control' /\ FreshView'
  BY <1>1, <1>3 DEF IInv, Control, FreshView
<1>9. AtHand' /\ Checked'
  <2>1. accepted # 0 => accepted \in DOMAIN stream
    BY <1>3 DEF IInv, Control
  <2> QED
    BY <1>1, <1>3, <2>1 DEF IInv, AtHand, Checked, InfoMatches, Addressed, KnownUid
<1> QED
  BY <1>4, <1>6, <1>7, <1>8, <1>9 DEF IInv

\* A peer that waits for the miner says something or leaves.
LEMMA TalkIInv ==
    ASSUME IInv, NEW s \in DOMAIN stream,
           Close(s) \/ \E g \in Greetings : Speak(s, g)
    PROVE  IInv'
<1>1. /\ stream[s].stage # "pooled"
      /\ UNCHANGED <<chainVars, pc, minerVars, memoryVars, accepted>>
      /\ UNCHANGED <<chain, block, due, current, neurons, lastSync, uid, memory>>
  BY DEF Speak, Close, Waiting, minerVars, chainVars, memoryVars
<1>2. PICK e \in StreamState :
         /\ stream' = [stream EXCEPT ![s] = e]
         /\ stream[s].said = 2 => e.said = 2 /\ e.greeting = stream[s].greeting
         /\ e.stage = stream[s].stage
         /\ e.view = stream[s].view /\ e.block = stream[s].block
  <2>1. CASE Close(s)
    <3> DEFINE e == [stream[s] EXCEPT !.open = FALSE]
    <3>1. stream' = [stream EXCEPT ![s] = e]
      BY <2>1 DEF Close
    <3>2. /\ e \in StreamState /\ e.said = stream[s].said
          /\ e.greeting = stream[s].greeting /\ e.stage = stream[s].stage
          /\ e.view = stream[s].view /\ e.block = stream[s].block
      BY StreamFields DEF StreamState
    <3> QED
      BY <3>1, <3>2
  <2>2. ASSUME NEW g \in Greetings, Speak(s, g)
        PROVE  \E e \in StreamState :
                  /\ stream' = [stream EXCEPT ![s] = e]
                  /\ stream[s].said = 2 => e.said = 2 /\ e.greeting = stream[s].greeting
                  /\ e.stage = stream[s].stage
                  /\ e.view = stream[s].view /\ e.block = stream[s].block
    <3> DEFINE e == [stream[s] EXCEPT !.said = @ + 1, !.ready = TRUE, !.greeting = g]
    <3>1. stream' = [stream EXCEPT ![s] = e] /\ stream[s].said \in {0, 1}
      BY <2>2 DEF Speak
    <3>2. stream[s].said + 1 \in 0 .. 2 /\ g \in Greetings \cup {Silence}
      BY <3>1
    <3>3. /\ e \in StreamState /\ e.stage = stream[s].stage
          /\ e.view = stream[s].view /\ e.block = stream[s].block
      BY <3>2, StreamFields DEF StreamState
    <3>4. stream[s].said # 2
      BY <3>1
    <3> HIDE DEF e
    <3> QED
      BY <3>1, <3>3, <3>4
  <2> QED
    BY <2>1, <2>2
<1>3. /\ Len(stream') = Len(stream) /\ DOMAIN stream' = DOMAIN stream /\ stream'[s] = e
      /\ \A r \in DOMAIN stream : r # s => stream'[r] = stream[r]
      /\ Lasting /\ AdmittedOnMerit'
  BY <1>1, <1>2, EditStream
<1>4. Metagraph' /\ Streams'
  BY <1>1, <1>2, StreamFields, EditKeeps
<1>5. Memory'
  BY <1>1, <1>3, MemorySteady
<1>6. Control' /\ FreshView'
  BY <1>1, <1>3 DEF IInv, Control, FreshView
<1>7. AtHand' /\ Checked'
  <2>1. accepted # 0 => accepted \in DOMAIN stream
    BY LenProperties DEF IInv, Control, Streams
  <2> QED
    BY <1>1, <1>2, <1>3, <2>1 DEF IInv, AtHand, Checked, InfoMatches, Addressed, KnownUid
<1> QED
  BY <1>3, <1>4, <1>5, <1>6, <1>7 DEF IInv

-------------------------------------------------------------------------------
\* sync, and the end of the process.

\* A refresh reads the metagraph of the newest block.
LEMMA RefreshMetagraph ==
    ASSUME IInv, Refresh, UNCHANGED chainVars, current' = block, due' = FALSE
    PROVE  Metagraph' /\ lastSync' = block
<1> DEFINE u == UidOf(chain[block], Self)
<1>1. /\ UNCHANGED <<chain, block>> /\ Self \in Hotkeys(chain[block])
      /\ neurons' = chain[block] /\ lastSync' = block /\ uid' = u
  BY DEF Refresh, chainVars
<1>2. chain \in Chains /\ block \in DOMAIN chain
  BY DEF IInv, Metagraph
<1>3. Len(chain[block]) \in Nat /\ DOMAIN chain[block] = 1 .. Len(chain[block])
  BY <1>2, Graphs
<1>4. u \in Nat /\ Owner(chain[block], u, Self)
  BY <1>1, <1>3, UidFound
<1>5. block \in 1 .. block
  BY <1>2, Graphs
<1> HIDE DEF u
<1>6. uid' \in Nat /\ Owner(neurons', uid', Self)
  BY <1>1, <1>4
<1>7. neurons' = chain'[lastSync'] /\ block' \in DOMAIN chain' /\ chain' \in Chains
  BY <1>1, <1>2
<1>8. current' \in 1 .. block' /\ lastSync' \in 1 .. current'
  BY <1>1, <1>5
<1> QED
  BY <1>1, <1>6, <1>7, <1>8 DEF Metagraph, Owner

\* The metagraph is read.
LEMMA SyncIInv ==
    ASSUME IInv, Sync \/ SyncFails \/ Restart
    PROVE  IInv'
<1>1. /\ UNCHANGED <<chain, block, accepted, stream>> /\ UNCHANGED chainVars
      /\ pc \notin {"message", "signature"}
      /\ pc' \in {"sync", "accept", "sleep"}
      /\ current' \in {current, block}
      /\ \/ UNCHANGED memoryVars
         \/ memory' = NoMessage /\ sigMemory' = NoSignature
  BY DEF Sync, SyncFails, Restart, Syncing, Running, chainVars
<1>2. /\ block \in Nat /\ current \in Nat /\ lastSync \in Nat
      /\ current <= block /\ lastSync <= current /\ 1 <= lastSync
  BY Graphs DEF IInv, Metagraph
<1>3. \/ /\ Metagraph' /\ lastSync' = block /\ current' = block
      \/ /\ Metagraph' /\ UNCHANGED <<neurons, lastSync, uid>>
         /\ pc' = "accept" => current' = block /\ ~RefreshDue
         /\ pc' # "sync"
  <2>1. CASE Refresh /\ current' = block /\ due' = FALSE
    BY <2>1, <1>1, RefreshMetagraph
  <2>2. CASE UNCHANGED <<neurons, lastSync, uid>> /\ due' \in BOOLEAN /\ pc' # "sync"
             /\ (pc' = "accept" => current' = block /\ ~RefreshDue)
    <3>1. lastSync' \in 1 .. current' /\ current' \in 1 .. block'
      BY <2>2, <1>1, <1>2
    <3> QED
      BY <2>2, <3>1, <1>1 DEF IInv, Metagraph
  <2>3. due \in BOOLEAN
    BY DEF IInv, Metagraph
  <2> QED
    BY <2>1, <2>2, <2>3 DEF Sync, SyncFails, Restart
<1>4. Metagraph' /\ current' >= current /\ lastSync' >= lastSync
  BY <1>1, <1>2, <1>3
<1>5. Streams' /\ AdmittedOnMerit' /\ Lasting
  BY <1>1, <1>4, StreamsSteady
<1>6. Memory'
  <2>1. CASE UNCHANGED memoryVars
    BY <2>1, <1>5, MemorySteady
  <2>2. CASE memory' = NoMessage /\ sigMemory' = NoSignature
    <3>1. NoSignature' = NoSignature
      BY DEF NoSignature, NoMessage, Garbage
    <3> QED
      BY <2>2, <3>1, GarbageMessages DEF Memory
  <2> QED
    BY <1>1, <2>1, <2>2
<1>7. accepted = 0
  BY <1>1 DEF IInv, Control
<1>8. Control' /\ AtHand' /\ Checked'
  BY <1>1, <1>7 DEF IInv, Control, AtHand, Checked
<1>9. FreshView'
  <2>1. EPOCH_LENGTH \in Nat \ {0}
    BY ServerAssumption
  <2>2. pc' \in {"sync", "accept"} => current' - lastSync' < EPOCH_LENGTH
    <3>1. CASE lastSync' = block /\ current' = block
      BY <3>1, <2>1, <1>2
    <3>2. CASE pc' = "accept" /\ current' = block /\ ~RefreshDue /\ lastSync' = lastSync
      BY <3>2, <2>1, <1>2 DEF RefreshDue
    <3> QED
      BY <1>3, <3>1, <3>2
  <2> QED
    BY <1>1, <2>2 DEF FreshView
<1> QED
  BY <1>4, <1>5, <1>6, <1>8, <1>9 DEF IInv

\* The end of the process, whatever ends it.
LEMMA EndIInv ==
    ASSUME IInv, NEW how \in {"exited", "panicked"}, End(how),
           UNCHANGED <<chainVars, minerVars, sigMemory>>, memory' \in Message
    PROVE  IInv'
<1>1. /\ pc' = how /\ accepted' = 0
      /\ stream' = [s \in DOMAIN stream |-> Over(s)]
      /\ UNCHANGED <<chain, block, due, current, neurons, lastSync, uid>>
  BY DEF End, chainVars, minerVars
<1>2. Len(stream) \in Nat /\ DOMAIN stream = 1 .. Len(stream)
  BY LenProperties DEF IInv, Streams
<1>3. /\ stream' \in Seq(StreamState) /\ DOMAIN stream' = DOMAIN stream
      /\ \A s \in DOMAIN stream : stream'[s] = Over(s)
  BY <1>1, <1>2, OverState, SeqDef
<1>4. Metagraph'
  BY <1>1 DEF IInv, Metagraph
<1>5. Streams'
  <2>1. 0 \in 0 .. lastSync /\ 0 \in 0 .. current
    BY Graphs DEF IInv, Metagraph
  <2> QED
    BY <1>1, <1>3, <2>1, OverState DEF Streams
<1>6. Control' /\ AtHand' /\ Checked' /\ FreshView'
  <2>1. Len(stream') \in Nat
    BY <1>3, LenProperties
  <2> QED
    BY <1>1, <2>1 DEF Control, AtHand, Checked, FreshView
<1>7. Lasting
  BY <1>3, OverState DEF Lasting
<1>8. AdmittedOnMerit'
  <2>1. \A s \in DOMAIN stream' : stream'[s].stage # "pooled"
    BY <1>3, OverState
  <2> QED
    BY <1>1, <1>7, <2>1, MeritSteady
<1>9. Memory'
  BY <1>7 DEF IInv, Memory, Sent, Lasting
<1> QED
  BY <1>4, <1>5, <1>6, <1>8, <1>9 DEF IInv

\* The miner ends.
LEMMA ExitIInv == IInv /\ (Exit \/ Deregistered) => IInv'
<1> SUFFICES ASSUME IInv, Exit \/ Deregistered PROVE IInv'
  OBVIOUS
<1>1. UNCHANGED <<chainVars, minerVars, sigMemory>> /\ memory' \in Message
  BY DEF Exit, Deregistered, memoryVars, IInv, Memory
<1>2. End("exited") \/ End("panicked")
  BY DEF Exit, Deregistered
<1> QED
  BY <1>1, <1>2, EndIInv

-------------------------------------------------------------------------------
\* The handshake.

\* The stream at hand is one of those made.
LEMMA HandIn == IInv /\ accepted # 0 => accepted \in DOMAIN stream
BY LenProperties DEF IInv, Control, Streams

\* A connection is accepted.
LEMMA AcceptIInv == IInv /\ Accept => IInv'
<1> SUFFICES ASSUME IInv, Accept PROVE IInv'
  OBVIOUS
<1>1. PICK s \in Backlog :
         /\ accepted' = s
         /\ stream' = [stream EXCEPT ![s].stage = "handshake", ![s].block = current]
  BY DEF Accept
<1>2. /\ pc = "accept" /\ pc' = "message" /\ UNCHANGED <<chainVars, minerVars, memoryVars>>
      /\ UNCHANGED <<chain, block, due, current, neurons, lastSync, uid>>
  BY DEF Accept, chainVars, minerVars
<1>3. s \in DOMAIN stream /\ stream[s].stage = "backlog"
  BY <1>1 DEF Backlog
<1> DEFINE e == [stream[s] EXCEPT !.stage = "handshake", !.block = current]
<1>4. stream' = [stream EXCEPT ![s] = e]
  BY <1>1
<1>5. current \in Nat /\ current \in 0 .. current
  BY Graphs DEF IInv, Metagraph
<1>6. /\ e \in StreamState /\ e.stage = "handshake" /\ e.block = current
      /\ e.said = stream[s].said /\ e.greeting = stream[s].greeting
      /\ e.view = stream[s].view
  BY <1>3, <1>5, StreamFields DEF StreamState
<1> HIDE DEF e
<1>7. e.view \in 0 .. lastSync /\ e.block \in 0 .. current
  BY <1>3, <1>5, <1>6, StreamFields
<1>8. Metagraph' /\ Streams'
  BY <1>2, <1>3, <1>4, <1>6, <1>7, EditKeeps
<1>9. /\ Len(stream') = Len(stream) /\ stream'[s] = e
      /\ Lasting /\ AdmittedOnMerit'
  BY <1>2, <1>3, <1>4, <1>6, EditStream
<1>10. Memory'
  BY <1>2, <1>9, MemorySteady
<1>11. s \in 1 .. Len(stream)
  BY <1>3, LenProperties DEF IInv, Streams
<1>12. Control' /\ AtHand' /\ Checked' /\ FreshView'
  BY <1>1, <1>2, <1>6, <1>9, <1>11 DEF IInv, Control, AtHand, Checked, FreshView
<1> QED
  BY <1>8, <1>9, <1>10, <1>12 DEF IInv

\* Refusing the stream at hand.
LEMMA RefuseIInv ==
    ASSUME IInv, pc \in {"message", "signature"}, Refuse,
           UNCHANGED <<chainVars, minerVars>>, memory' \in Message,
           sigMemory' \in {sigMemory, NoSignature} \/ Sent(sigMemory')
    PROVE  IInv'
<1>1. UNCHANGED <<chain, block, due, current, neurons, lastSync, uid>>
  BY DEF chainVars, minerVars
<1>2. accepted # 0 /\ accepted \in DOMAIN stream
  BY HandIn DEF IInv, Control
<1> DEFINE a == accepted
           e == Over(a)
<1>3. stream' = [stream EXCEPT ![a] = e] /\ accepted' = 0 /\ pc' = "sync"
  BY DEF Refuse
<1>4. /\ e \in StreamState /\ e.stage = "over" /\ e.view = 0 /\ e.block = 0
      /\ e.said = stream[a].said /\ e.greeting = stream[a].greeting
  BY <1>2, OverState
<1>5. 0 \in 0 .. lastSync /\ 0 \in 0 .. current
  BY Graphs DEF IInv, Metagraph
<1> HIDE DEF e
<1>6. Metagraph' /\ Streams'
  BY <1>2, <1>3, <1>4, <1>5, EditKeeps
<1>7. Lasting /\ AdmittedOnMerit' /\ Len(stream') \in Nat
  BY <1>1, <1>2, <1>3, <1>4, EditStream
<1>8. Memory'
  BY <1>7 DEF IInv, Memory, Sent, Lasting
<1>9. Control' /\ AtHand' /\ Checked' /\ FreshView'
  BY <1>1, <1>3, <1>7 DEF IInv, Control, AtHand, Checked, FreshView
<1> QED
  BY <1>6, <1>7, <1>8, <1>9 DEF IInv

\* A read fails, and the connection is dropped.
LEMMA ReadFailsIInv == IInv /\ ReadFails => IInv'
<1> SUFFICES ASSUME IInv, ReadFails PROVE IInv'
  OBVIOUS
<1>1. /\ pc \in {"message", "signature"} /\ Refuse /\ UNCHANGED <<chainVars, minerVars>>
      /\ memory' \in Message /\ sigMemory' \in {sigMemory, NoSignature}
  BY DEF ReadFails, memoryVars, IInv, Memory
<1> QED
  BY <1>1, RefuseIInv

\* The message is read and checked.
LEMMA ReadMessageIInv == IInv /\ ReadMessage => IInv'
<1> SUFFICES ASSUME IInv, ReadMessage PROVE IInv'
  OBVIOUS
<1> DEFINE most == IF stream[accepted].ready THEN 4 ELSE 0
<1>0. 0 .. most \subseteq 0 .. 4
  OBVIOUS
<1>1. PICK k \in 0 .. most :
         /\ ReadInto(k)
         /\ \/ /\ InfoMatches(memory')
               /\ \E left \in BOOLEAN :
                     stream' = [stream EXCEPT ![accepted].ready = left]
               /\ pc' = "signature"
               /\ UNCHANGED accepted
            \/ End("panicked")
            \/ Refuse
  BY DEF ReadMessage, BytesLeft
<1> HIDE DEF most
<1>2. /\ pc = "message" /\ UNCHANGED <<chainVars, minerVars, sigMemory>>
      /\ UNCHANGED <<chain, block, due, current, neurons, lastSync, uid>>
  BY DEF ReadMessage, chainVars, minerVars
<1>3. accepted # 0 /\ accepted \in DOMAIN stream
  BY <1>2, HandIn DEF IInv, Control
<1>4. memory' \in Message
  <2>1. PICK rest \in {memory} \cup Garbage :
            memory' = Overlay(k, stream[accepted].greeting.message, rest)
    BY <1>1 DEF ReadInto
  <2>2. rest \in Message /\ stream[accepted].greeting.message \in Message
    BY <1>3, <2>1, GarbageMessages, StreamFields DEF IInv, Memory
  <2> QED
    BY <1>0, <2>1, <2>2, OverlayMessage
<1>5. ASSUME NEW left \in BOOLEAN,
             stream' = [stream EXCEPT ![accepted].ready = left],
             InfoMatches(memory'), pc' = "signature", UNCHANGED accepted
      PROVE  IInv'
  <2> DEFINE a == accepted
             e == [stream[a] EXCEPT !.ready = left]
  <2>1. stream' = [stream EXCEPT ![a] = e]
    BY <1>5
  <2>2. /\ e \in StreamState /\ e.stage = stream[a].stage /\ e.said = stream[a].said
        /\ e.greeting = stream[a].greeting
        /\ e.view = stream[a].view /\ e.block = stream[a].block
    BY <1>3, StreamFields DEF StreamState
  <2> HIDE DEF e
  <2>3. Metagraph' /\ Streams'
    BY <1>2, <1>3, <2>1, <2>2, StreamFields, EditKeeps
  <2>4. stream[a].stage = "handshake" /\ stream[a].block = current
    BY <1>3 DEF IInv, AtHand
  <2>5. /\ Lasting /\ AdmittedOnMerit' /\ Len(stream') = Len(stream) /\ stream'[a] = e
    BY <1>2, <1>3, <2>1, <2>2, <2>4, EditStream
  <2>6. Memory'
    BY <1>2, <1>4, <2>5 DEF IInv, Memory, Sent, Lasting
  <2>7. Control' /\ AtHand' /\ FreshView'
    BY <1>2, <1>3, <1>5, <2>2, <2>4, <2>5 DEF IInv, Control, AtHand, FreshView
  <2>8. Checked'
    BY <1>2, <1>5 DEF Checked, InfoMatches, Addressed, KnownUid
  <2> QED
    BY <2>3, <2>5, <2>6, <2>7, <2>8 DEF IInv
<1>6. CASE End("panicked")
  BY <1>2, <1>4, <1>6, EndIInv
<1>7. CASE Refuse
  BY <1>2, <1>4, <1>7, RefuseIInv
<1> QED
  BY <1>1, <1>5, <1>6, <1>7

\* What the read of the signature leaves in memory was sent to the miner.
LEMMA SignatureSent ==
    ASSUME IInv, accepted \in DOMAIN stream, ReadSignatureInto
    PROVE  sigMemory' \in {sigMemory, NoSignature} \/ Sent(sigMemory')
BY DEF ReadSignatureInto, Sent

\* What was checked, is signed and entitled may enter the pool.
LEMMA AdmitIInv ==
    ASSUME IInv, pc = "signature", Entitled(neurons[memory.validator + 1]),
           SignatureMatches(sigMemory'),
           sigMemory' \in {sigMemory, NoSignature} \/ Sent(sigMemory'),
           stream' = [stream EXCEPT ![accepted].stage = "pooled",
                                    ![accepted].grounds = memory,
                                    ![accepted].view = lastSync],
           accepted' = 0, pc' = "sync",
           UNCHANGED <<chainVars, minerVars, memory>>
    PROVE  IInv'
<1> DEFINE e == [stream[accepted] EXCEPT !.stage = "pooled", !.grounds = memory,
                                         !.view = lastSync]
<1>1. UNCHANGED <<chain, block, due, current, neurons, lastSync, uid, memory>>
  BY DEF chainVars, minerVars
<1>2. /\ accepted # 0 /\ accepted \in DOMAIN stream /\ stream[accepted].stage = "handshake"
      /\ stream[accepted].block = current
  BY HandIn DEF IInv, Control, AtHand
<1>3. stream' = [stream EXCEPT ![accepted] = e]
  OBVIOUS
<1>4. lastSync \in Nat /\ lastSync \in 0 .. lastSync /\ lastSync \in 1 .. current
  BY Graphs DEF IInv, Metagraph
<1>5. memory \in Message /\ InfoMatches(memory) /\ current - lastSync < EPOCH_LENGTH
  BY DEF IInv, Memory, Checked, FreshView
<1>6. /\ e \in StreamState /\ e.stage = "pooled" /\ e.view = lastSync
      /\ e.grounds = memory /\ e.block = current
      /\ e.said = stream[accepted].said /\ e.greeting = stream[accepted].greeting
  BY <1>2, <1>4, <1>5, StreamFields DEF StreamState
<1> HIDE DEF e
<1>7. /\ e.view \in 0 .. lastSync /\ e.block \in 0 .. current
      /\ stream[accepted].said = 2 =>
            e.said = 2 /\ e.greeting = stream[accepted].greeting
  BY <1>2, <1>4, <1>6, StreamFields
<1>8. Metagraph' /\ Streams'
  <2>1. UNCHANGED <<chainVars, minerVars>>
    OBVIOUS
  <2> QED
    BY <1>2, <1>3, <1>6, <1>7, <2>1, EditKeeps
<1>9. /\ DOMAIN stream' = DOMAIN stream /\ stream'[accepted] = e
      /\ \A r \in DOMAIN stream : r # accepted => stream'[r] = stream[r]
      /\ Lasting /\ Len(stream') \in Nat
  BY <1>1, <1>2, <1>3, <1>6, <1>7, EditStream
<1>10. Sent(sigMemory')
  <2>1. uid \in Nat /\ memory.miner = uid
    BY <1>5 DEF IInv, Metagraph, InfoMatches, Addressed
  <2>2. memory # NoMessage
    BY <2>1, GarbageMessages
  <2>3. sigMemory' # NoSignature
    BY <2>2 DEF SignatureMatches, NoSignature
  <2> QED
    BY <2>3 DEF IInv, Memory
<1>11. Memory'
  BY <1>1, <1>9, <1>10 DEF IInv, Memory, Sent, Lasting
<1>12. Merit(e, chain)
  <2>1. /\ memory.minerKey = Self /\ memory.miner = uid
        /\ Owner(neurons, memory.validator, memory.validatorKey)
    BY <1>5 DEF InfoMatches, Addressed, KnownUid, Owner
  <2>2. neurons = chain[lastSync] /\ Owner(neurons, uid, Self)
    BY DEF IInv, Metagraph
  <2> QED
    BY <1>5, <1>6, <2>1, <2>2 DEF Merit
<1>13. Merits'
  <2>1. \A s \in DOMAIN stream : Merit(stream[s], chain)
    BY MeritParts DEF IInv, Merits
  <2>2. \A s \in DOMAIN stream' : Merit(stream'[s], chain')
    BY <1>1, <1>9, <1>12, <2>1
  <2> QED
    BY <2>2 DEF Merits, Merit
<1>14. Signed'
  <2>1. Signed
    BY MeritParts DEF IInv
  <2>2. PICK r \in DOMAIN stream : /\ stream[r].said = 2
                                   /\ stream[r].greeting.signature = sigMemory'
    BY <1>10 DEF Sent
  <2>3. sigMemory' = SignatureOf(e)
    BY <1>6 DEF SignatureMatches, SignatureOf
  <2>4. /\ r \in DOMAIN stream' /\ stream'[r].said = 2
        /\ stream'[r].greeting.signature = SignatureOf(e)
    BY <1>9, <2>2, <2>3 DEF Lasting
  <2>5. ASSUME NEW s \in DOMAIN stream', stream'[s].stage = "pooled"
        PROVE  \E q \in DOMAIN stream' :
                   /\ stream'[q].said = 2
                   /\ stream'[q].greeting.signature = SignatureOf(stream'[s])
    <3>1. CASE s = accepted
      BY <1>9, <2>4, <3>1
    <3>2. CASE s # accepted
      <4>1. stream'[s] = stream[s] /\ s \in DOMAIN stream
        BY <1>9, <3>2
      <4>2. PICK q \in DOMAIN stream :
                /\ stream[q].said = 2
                /\ stream[q].greeting.signature = SignatureOf(stream[s])
        BY <2>1, <2>5, <4>1 DEF Signed
      <4> QED
        BY <1>9, <4>1, <4>2 DEF Lasting
    <3> QED
      BY <3>1, <3>2
  <2> QED
    BY <2>5 DEF Signed, SignatureOf
<1>15. AdmittedOnMerit'
  BY <1>13, <1>14, MeritParts
<1>16. Control' /\ AtHand' /\ Checked' /\ FreshView'
  BY <1>1, <1>5, <1>9 DEF IInv, Control, AtHand, Checked, FreshView
<1> QED
  BY <1>8, <1>11, <1>15, <1>16 DEF IInv

\* The signature is read, and the stream goes to the pool.
LEMMA ReadSignatureIInv == IInv /\ ReadSignature => IInv'
<1> SUFFICES ASSUME IInv, ReadSignature PROVE IInv'
  OBVIOUS
<1>1. /\ pc = "signature" /\ UNCHANGED <<chainVars, minerVars, memory>>
      /\ memory' \in Message /\ ReadSignatureInto
  BY DEF ReadSignature, IInv, Memory
<1>2. accepted \in DOMAIN stream
  BY <1>1, HandIn DEF IInv, Control
<1>3. sigMemory' \in {sigMemory, NoSignature} \/ Sent(sigMemory')
  BY <1>1, <1>2, SignatureSent
<1>4. CASE Refuse
  BY <1>1, <1>3, <1>4, RefuseIInv
<1>5. CASE /\ SignatureMatches(sigMemory') /\ Entitled(neurons[memory.validator + 1])
           /\ stream' = [stream EXCEPT ![accepted].stage = "pooled",
                                       ![accepted].grounds = memory,
                                       ![accepted].view = lastSync]
           /\ accepted' = 0 /\ pc' = "sync"
  BY <1>1, <1>3, <1>5, AdmitIInv
<1> QED
  BY <1>4, <1>5 DEF ReadSignature

-------------------------------------------------------------------------------
\* Every step keeps the invariant.
LEMMA NextIInv == IInv /\ [Next]_vars => IInv'
<1> SUFFICES ASSUME IInv, [Next]_vars PROVE IInv'
  OBVIOUS
<1>1. CASE Main
  BY <1>1, SyncIInv, WaitIInv, ExitIInv, AcceptIInv, ReadMessageIInv, ReadFailsIInv,
     ReadSignatureIInv DEF Main
<1>2. CASE Environment
  BY <1>2, MakeBlockIInv, WaitIInv, SyncIInv, DialIInv, TalkIInv DEF Environment
<1>3. CASE UNCHANGED vars
  <2>1. /\ UNCHANGED <<chain, block, pc, due, current, neurons, lastSync, uid, memory,
                       sigMemory, accepted, stream>>
        /\ Lasting
    BY <1>3 DEF vars, chainVars, minerVars, memoryVars, Lasting
  <2>2. Metagraph' /\ Control' /\ Streams' /\ AdmittedOnMerit'
    BY <2>1, MeritSteady DEF IInv, Metagraph, Control, Streams
  <2>3. Memory'
    BY <2>1 DEF IInv, Memory, Sent
  <2>4. AtHand' /\ Checked' /\ FreshView'
    BY <2>1 DEF IInv, AtHand, Checked, FreshView, InfoMatches, Addressed, KnownUid
  <2> QED
    BY <2>2, <2>3, <2>4 DEF IInv
<1> QED
  BY <1>1, <1>2, <1>3 DEF Next

\* The invariant holds in every reachable state.
LEMMA SpecIInv == Spec => []IInv
BY InitIInv, NextIInv, PTL DEF Spec

\* The state of the miner's main thread and of its streams is always one that
\* run and sync can leave: a current metagraph in which the miner has its UID, a
\* stream at hand exactly while it is being read, and in the memory of the two
\* reads a message and a signature somebody sent, or none.
THEOREM TypeCorrect == Spec => []TypeOK
BY SpecIInv, IInvTypes, PTL

\* Whatever peers send, cut off, leave out or sign, run gives a stream to the
\* pool only on a message that names this miner's hotkey and UID and a validator
\* with its UID, the permit and the stake, all in a metagraph less than an epoch
\* old, and for which the signature of that validator's hotkey was sent, although
\* short reads leave old bytes in memory and the subnet changes all the time.
THEOREM Admission == Spec => []AdmittedOnMerit
<1>1. IInv => AdmittedOnMerit
  BY DEF IInv
<1> QED
  BY SpecIInv, <1>1, PTL
===============================================================================
