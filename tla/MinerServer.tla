------------------------------- MODULE MinerServer -------------------------------
(***************************************************************************)
(* The miner's main thread: Miner::new, sync and run, which refreshes the  *)
(* metagraph, accepts connections, reads and checks what a peer says of    *)
(* itself, tells it the version and hands its stream to a pool of threads. *)
(* Validators connect with connect_to_miner and know the metagraph of some *)
(* other block; but the listener takes any peer, so here a peer may send   *)
(* any message, signed by whomever, say it late, or never, or leave.       *)
(*                                                                         *)
(* A metagraph is a sequence of neurons, the one with UID u at u + 1.  A   *)
(* signature is known by the hotkey that made it and what it is of.  What  *)
(* a pool thread does with a stream is MinerStream.                        *)
(***************************************************************************)
EXTENDS Integers, Sequences, Functions

CONSTANTS Self,        \* hotkey of the miner
          Chains,      \* bound: chains to look at, the metagraph of each block
          Greetings,   \* bound: what peers may say, a message and a signature
          EPOCH_LENGTH,
          MaxStreams   \* bound: connections made

Hotkeys(graph) == {graph[i].hotkey : i \in DOMAIN graph}

\* VerificationMessage, fields in order.  The nonce is read by nobody.
IsMessage(m) ==
    /\ m = [miner |-> m.miner, minerKey |-> m.minerKey,
            validator |-> m.validator, validatorKey |-> m.validatorKey]
    /\ m.miner \in Int /\ m.validator \in Int

ASSUME ServerAssumption ==
    /\ \A c \in Chains : c \in Seq(Range(c)) /\ c # <<>> /\ Self \in Hotkeys(c[1])
    /\ \A c \in Chains : \A b \in DOMAIN c :
          /\ c[b] \in Seq(Range(c[b]))
          /\ \A i, j \in DOMAIN c[b] : c[b][i].hotkey = c[b][j].hotkey => i = j
    /\ \A g \in Greetings :
          /\ g = [message |-> g.message, signature |-> g.signature]
          /\ IsMessage(g.message)
    /\ EPOCH_LENGTH \in Nat \ {0}
    /\ MaxStreams \in Nat

VARIABLES
    chain,      \* metagraph of each block
    block,      \* the newest that at_latest returns
    \* Miner
    pc,         \* "sync", "sleep", "accept", "message", "signature";
                \* "exited" or "panicked" when the process is gone
    due,        \* 12 s have passed since last_block_fetch
    current,    \* current_block
    neurons,    \* neurons
    lastSync,   \* last_metagraph_sync
    uid,        \* uid
    memory,     \* the memory that read::<VerificationMessage> fills
    sigMemory,  \* the memory that read::<KeypairSignature> fills
    accepted,   \* the stream at hand, 0 without one
    \* TCP connections, in the order they were made
    stream

chainVars == <<chain, block>>
minerVars == <<due, current, neurons, lastSync, uid>>
memoryVars == <<memory, sigMemory>>
vars == <<chainVars, pc, minerVars, memoryVars, accepted, stream>>

Running == pc \notin {"exited", "panicked"}

UidOf(graph, hotkey) ==
    (CHOOSE i \in DOMAIN graph : graph[i].hotkey = hotkey) - 1

\* Memory nobody wrote: a UID no list has, or the first one, and no hotkey.
Garbage == {[miner |-> u, minerKey |-> "none", validator |-> u, validatorKey |-> "none"] :
               u \in {-1, 0}}

NoMessage == CHOOSE m \in Garbage : m.miner = -1

NoSignature == [by |-> "none", of |-> NoMessage]

Silence == [message |-> NoMessage, signature |-> NoSignature]

Refresh_KeepsUid ==
    /\ Self \in Hotkeys(chain[block])
    /\ neurons' = chain[block]
    /\ lastSync' = block
    /\ UNCHANGED uid

\* The metagraph of the newest block, in sync and in Miner::new.
Refresh ==
    /\ Self \in Hotkeys(chain[block])
    /\ neurons' = chain[block]
    /\ lastSync' = block
    /\ uid' = UidOf(chain[block], Self)

Init ==
    /\ chain \in Chains
    /\ block = 1
    /\ neurons = chain[1] /\ uid = UidOf(chain[1], Self)
    /\ current = 1 /\ lastSync = 1
    /\ pc = "sync"
    /\ due = FALSE
    /\ memory = NoMessage /\ sigMemory = NoSignature
    /\ accepted = 0
    /\ stream = <<>>

-------------------------------------------------------------------------------
\* Environment

MakeBlock ==
    /\ block < Len(chain)
    /\ block' = block + 1
    /\ UNCHANGED <<chain, pc, minerVars, memoryVars, accepted, stream>>

\* 12 s, the time a block takes; that many may be made meanwhile is up to
\* MakeBlock.
TimePasses ==
    /\ Running
    /\ due' = TRUE
    /\ UNCHANGED <<chainVars, pc, current, neurons, lastSync, uid, memoryVars, accepted,
                   stream>>

Waiting(s) == s \in DOMAIN stream /\ stream[s].stage \in {"backlog", "handshake"}

\* A peer connects.  said is how many of its message and its signature it has
\* sent, ready whether there are bytes to read; grounds, view and block are
\* history: what it is admitted on.
Dial ==
    /\ Running
    /\ Len(stream) < MaxStreams
    /\ stream' = Append(stream,
          [greeting |-> Silence, said |-> 0, ready |-> FALSE, open |-> TRUE,
           stage |-> "backlog", grounds |-> NoMessage, view |-> 0, block |-> 0])
    /\ UNCHANGED <<chainVars, pc, minerVars, memoryVars, accepted>>

\* It sends a message, and then a signature.  What it sends once it is admitted is
\* for a pool thread.
Speak(s, g) ==
    /\ Waiting(s) /\ stream[s].open
    /\ \/ stream[s].said = 0
       \/ stream[s].said = 1 /\ g = stream[s].greeting
    /\ stream' = [stream EXCEPT ![s].said = @ + 1, ![s].ready = TRUE,
                                ![s].greeting = g]
    /\ UNCHANGED <<chainVars, pc, minerVars, memoryVars, accepted>>

\* connect_to_miner leaves after 5 s without the version, others when they like.
Close(s) ==
    /\ Waiting(s) /\ stream[s].open
    /\ stream' = [stream EXCEPT ![s].open = FALSE]
    /\ UNCHANGED <<chainVars, pc, minerVars, memoryVars, accepted>>

-------------------------------------------------------------------------------
\* sync, at the top of run's loop

RefreshDue == block - lastSync >= EPOCH_LENGTH

Syncing == pc = "sync" /\ due

\* Fetch the block and, once an epoch, the metagraph at it.
Sync ==
    /\ Syncing
    /\ current' = block
    /\ IF RefreshDue THEN Refresh ELSE UNCHANGED <<neurons, lastSync, uid>>
    /\ due' = FALSE
    /\ pc' = "accept"
    /\ UNCHANGED <<chainVars, memoryVars, accepted, stream>>

\* Fetching the block fails, or only the metagraph.
SyncFails ==
    /\ Syncing
    /\ \/ UNCHANGED <<due, current>>
       \/ RefreshDue /\ current' = block /\ due' = FALSE
    /\ pc' = "sleep"
    /\ UNCHANGED <<chainVars, neurons, lastSync, uid, memoryVars, accepted, stream>>

\* The sleep of 12 s is over, and so are 12 s since the last fetch.
Wake ==
    /\ pc = "sleep"
    /\ pc' = "sync"
    /\ due' = TRUE
    /\ UNCHANGED <<chainVars, current, neurons, lastSync, uid, memoryVars, accepted,
                   stream>>

NoSync_Skips ==
    /\ pc = "sync"
    /\ ~due
    /\ UNCHANGED vars

\* Less than 12 s since the last fetch.
NoSync ==
    /\ pc = "sync"
    /\ ~due
    /\ pc' = "accept"
    /\ UNCHANGED <<chainVars, minerVars, memoryVars, accepted, stream>>

\* A stream that is dropped.
Over(s) == [stream[s] EXCEPT !.open = FALSE, !.ready = FALSE, !.stage = "over",
                             !.grounds = NoMessage, !.view = 0, !.block = 0]

\* The process ends, and with it its streams.
End(how) ==
    /\ pc' = how
    /\ accepted' = 0
    /\ stream' = [s \in DOMAIN stream |-> Over(s)]

\* exit(1), when the RPC client has to be started anew.
Exit ==
    /\ Syncing
    /\ End("exited")
    /\ UNCHANGED <<chainVars, minerVars, memoryVars>>

\* "Not registered"
Deregistered ==
    /\ Syncing
    /\ RefreshDue /\ Self \notin Hotkeys(chain[block])
    /\ End("panicked")
    /\ UNCHANGED <<chainVars, minerVars, memoryVars>>

\* Started again by whatever supervises it; Miner::new.
Restart ==
    /\ ~Running
    /\ Refresh
    /\ current' = block
    /\ due' = FALSE
    /\ memory' = NoMessage /\ sigMemory' = NoSignature
    /\ pc' = "sync"
    /\ UNCHANGED <<chainVars, accepted, stream>>

-------------------------------------------------------------------------------
\* The handshake

Backlog == {s \in DOMAIN stream : stream[s].stage = "backlog"}

\* listener.accept() of a listener that does not block: the oldest connection.
Accept ==
    /\ pc = "accept"
    /\ \E s \in Backlog :
          /\ \A r \in Backlog : s <= r
          /\ accepted' = s
          /\ stream' = [stream EXCEPT ![s].stage = "handshake", ![s].block = current]
    /\ pc' = "message"
    /\ UNCHANGED <<chainVars, minerVars, memoryVars>>

NoConnection ==
    /\ pc = "accept"
    /\ Backlog = {}
    /\ pc' = "sync"
    /\ UNCHANGED <<chainVars, minerVars, memoryVars, accepted, stream>>

\* `continue`: the stream is dropped.
Refuse ==
    /\ stream' = [stream EXCEPT ![accepted] = Over(accepted)]
    /\ accepted' = 0
    /\ pc' = "sync"

\* info_matches, up to the validator's UID
Addressed(m) == m.minerKey = Self /\ m.miner = uid

KnownUid(m) == m.validator + 1 \in DOMAIN neurons

InfoMatches_AnyHotkey(m) == Addressed(m) /\ KnownUid(m)

InfoMatches(m) ==
    Addressed(m) /\ KnownUid(m) /\ neurons[m.validator + 1].hotkey = m.validatorKey

\* A blocking read of the stream at hand returns: with bytes, or with none from
\* a peer that is gone.
Readable == stream[accepted].ready \/ ~stream[accepted].open

\* Memory after the first k fields of m came in over rest.
Overlay(k, m, rest) ==
    [miner        |-> IF k >= 1 THEN m.miner ELSE rest.miner,
     minerKey     |-> IF k >= 2 THEN m.minerKey ELSE rest.minerKey,
     validator    |-> IF k >= 3 THEN m.validator ELSE rest.validator,
     validatorKey |-> IF k >= 4 THEN m.validatorKey ELSE rest.validatorKey]

\* One read call, which may return less than a message, because not all of it has
\* come or was sent; the rest is as it was in memory, the last message or anything,
\* and so is a field that was cut.
ReadInto(k) ==
    \E rest \in {memory} \cup Garbage :
        memory' = Overlay(k, stream[accepted].greeting.message, rest)

\* Bytes that it did not take stay: of the message, if there were more of them,
\* and of the signature.
BytesLeft(k) ==
    IF ~stream[accepted].ready \/ (stream[accepted].said = 1 /\ k = 4) THEN {FALSE}
    ELSE IF stream[accepted].said = 1 THEN BOOLEAN
    ELSE {TRUE}

\* read::<VerificationMessage>, then info_matches.
ReadMessage ==
    /\ pc = "message"
    /\ Readable
    /\ \E k \in 0 .. (IF stream[accepted].ready THEN 4 ELSE 0) :
          /\ ReadInto(k)
          /\ \/ /\ InfoMatches(memory')
                /\ \E left \in BytesLeft(k) :
                      stream' = [stream EXCEPT ![accepted].ready = left]
                /\ pc' = "signature"
                /\ UNCHANGED accepted
             \/ /\ Addressed(memory') /\ ~KnownUid(memory')
                /\ End("panicked")
             \/ /\ ~InfoMatches(memory') /\ (Addressed(memory') => KnownUid(memory'))
                /\ Refuse
    /\ UNCHANGED <<chainVars, minerVars, sigMemory>>

\* A read fails because the peer has reset the connection.
ReadFails ==
    /\ pc \in {"message", "signature"}
    /\ ~stream[accepted].open
    /\ Refuse
    /\ UNCHANGED <<chainVars, minerVars, memoryVars>>

\* verify_signature, of the message in memory
SignatureMatches(signature) == signature = [by |-> memory.validatorKey, of |-> memory]

\* validator_permit, and stake of STAKE_THRESHOLD
Entitled(neuron) == neuron.validator_permit /\ neuron.staked

\* read::<KeypairSignature>, whole, in part or not at all.  A part makes no
\* signature of anything, unless memory held the same one.
ReadSignatureInto ==
    \/ stream[accepted].said = 2 /\ sigMemory' = stream[accepted].greeting.signature
    \/ sigMemory' \in {sigMemory, NoSignature}

\* The signature and what follows: permit, stake, version, pool.execute.
ReadSignature ==
    /\ pc = "signature"
    /\ Readable
    /\ ReadSignatureInto
    /\ LET admitted == /\ SignatureMatches(sigMemory')
                       /\ Entitled(neurons[memory.validator + 1])
       IN  \/ /\ admitted
              /\ stream' = [stream EXCEPT ![accepted].stage = "pooled",
                                          ![accepted].grounds = memory,
                                          ![accepted].view = lastSync]
              /\ accepted' = 0
              /\ pc' = "sync"
           \/ ~admitted /\ Refuse
    /\ UNCHANGED <<chainVars, minerVars, memory>>

-------------------------------------------------------------------------------
Main ==
    \/ Sync \/ SyncFails \/ Wake \/ NoSync \/ Exit \/ Deregistered
    \/ Accept \/ NoConnection \/ ReadMessage \/ ReadFails \/ ReadSignature

Environment ==
    \/ MakeBlock \/ TimePasses \/ Restart
    \/ Dial
    \/ \E s \in DOMAIN stream : Close(s) \/ \E g \in Greetings : Speak(s, g)

Next == Main \/ Environment

Spec == Init /\ [][Next]_vars

\* The main thread runs.  Of peers and of the chain nothing is assumed.
FairSpec == Spec /\ WF_vars(Main)

-------------------------------------------------------------------------------
\* UID u belongs to a hotkey.
Owner(graph, u, hotkey) == u + 1 \in DOMAIN graph /\ graph[u + 1].hotkey = hotkey

\* Somebody sent this signature, on a connection made by now.
Sent(signature) ==
    \E s \in DOMAIN stream :
        stream[s].said = 2 /\ stream[s].greeting.signature = signature

\* Type invariant.
TypeOK ==
    /\ chain \in Chains /\ block \in DOMAIN chain
    /\ pc \in {"sync", "sleep", "accept", "message", "signature", "exited", "panicked"}
    /\ due \in BOOLEAN
    /\ current \in 1 .. block /\ lastSync \in 1 .. current
    /\ neurons = chain[lastSync] /\ Owner(neurons, uid, Self)
    /\ IsMessage(memory)
    /\ sigMemory = NoSignature \/ Sent(sigMemory)
    /\ accepted \in 0 .. Len(stream)
    /\ accepted # 0 <=> pc \in {"message", "signature"}
    /\ \A s \in DOMAIN stream :
          /\ stream[s].said \in 0 .. 2
          /\ stream[s].ready \in BOOLEAN /\ stream[s].open \in BOOLEAN
          /\ stream[s].view \in 0 .. lastSync /\ stream[s].block \in 0 .. current

\* A stream is only given to the pool on a message whose miner is this one and
\* whose validator owns its UID, has a permit and stake, in a metagraph that was
\* less than an epoch old at the accept; and its hotkey signed that very message
\* in a signature that was sent to the miner.  That holds whatever peers say, and
\* for messages that a short read composed of new bytes and old ones.  It is a
\* statement about the message in memory: run does not tie it to the peer.
AdmittedOnMerit ==
    \A s \in DOMAIN stream : stream[s].stage = "pooled" =>
        LET m == stream[s].grounds
            graph == chain[stream[s].view]
        IN  /\ stream[s].block - stream[s].view < EPOCH_LENGTH
            /\ m.minerKey = Self /\ Owner(graph, m.miner, Self)
            /\ Owner(graph, m.validator, m.validatorKey)
            /\ Entitled(graph[m.validator + 1])
            /\ Sent([by |-> m.validatorKey, of |-> m])

\* The miner waits for a peer that stays and sends nothing.
Stalled == pc \in {"message", "signature"} /\ ~Readable

\* The miner is in or between attempts to sync.
Unsynced == pc = "sleep" \/ Syncing

\* A connection is admitted, refused or ended with the process, whatever is said
\* on it or on others, except in two ways: the one at hand stays silent for ever,
\* for the reads of the handshake have no timeout, or no sync ever succeeds again.
HandshakeEnds ==
    \/ <>[]Stalled
    \/ <>[]Unsynced
    \/ \A s \in 1 .. MaxStreams : Waiting(s) ~> ~Waiting(s)

\* "sent a signed verification message with incorrect information": a message
\* that does not match the miner's list is refused, and the miner goes on.  So a
\* validator whose message is right in the newest metagraph does not end it.
NewcomerRefused ==
    pc = "panicked" =>
        \/ Self \notin Hotkeys(chain[block])
        \/ memory.minerKey # Self \/ ~Owner(chain[block], memory.miner, Self)
        \/ ~Owner(chain[block], memory.validator, memory.validatorKey)
===============================================================================
