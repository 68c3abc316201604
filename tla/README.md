# TLA+ models of pyramid-scheme

pyramid-scheme computes the centre column of Rule 30 on a subnet: one
*validator* process holds the current row of the automaton, cuts it into chunks,
sends them to *miners* over TCP, copies their answers back over the row and
pays them by the number of bytes. This directory holds TLA+ models of that
code, the TLC configurations that check them and TLAPS proofs about them.

Paths like `mod.rs:663` are relative to `src/validator/src/validator/`;
`miner/main.rs` is `src/miner/src/main.rs`.

## Inventory

| Part | State it keeps | Operations | Works with | Hard behaviour | What makes it correct |
|---|---|---|---|---|---|
| Step loop, `do_step` (mod.rs:605-763) | step, row, centre column | take connections, grow buffers, dispatch chunks, collect, set weights, next step | worker threads through three channels and the shared row | dispatch runs while workers already overwrite the row | every byte is evolved once, from the old bytes before it; nothing is left over between steps |
| Worker threads (worker.rs) | request, stream, counters on the stack | receive work, receive a miner, write and read in windows, report | miners (TCP), main thread (channels) | partial writes and reads, 5 s timeouts, forged answers checked with a 5% lottery; unsynchronised `&mut` slices | slices are disjoint and inside the row; what is reported adds up; a stream has one user |
| Completion handler (completion_event_handler.rs) | bytes processed, times | completed, failed, cheated; weights | requeues work, hands miners out again | waits for events that may never come | ends exactly when the row is done; a byte is paid once |
| Connections (connection.rs, `sync`) | stream, score, weight, cheater mark by UID | connect, drop, replace | chain (metagraph), miners | UIDs change owner, axons move | a cheater gets no work; no replaced stream is used |
| Epoch loop (`run`, `sync`, head of `do_step`) | cached block, last update, attempted flag | fetch block, submit weights, read metagraph, sleep | chain | stale blocks, refused or late submissions, wrapping `u32` subtraction | one submission an epoch; sleeps end at the next sync |
| State files (`save_state`, `load_state`, `new`) | three files | rewrite in place, load, discard an old version | HTTP service, restart | death or failure between two files | a restart goes on from the right row; a published step never goes back |
| HTTP service (api.rs) | none | `/step`, `/bits` | state files | reads files that are being rewritten | the bits cover the step; `Solver` and `verify_result` agree |
| Row layout (mod.rs:151-168, 663, 746) | none | sizes from the step | all of the above | growth boundaries | the evolved part and the centre bit fit |
| Rule 30 arithmetic (worker.rs:44-56, miner/main.rs:54-82) | carry | evolve bytes | | carries between pieces | equals Rule 30 on a line of cells |
| Miner request loop (miner/main.rs:84-200) | solver carry | read request, read data, answer | validator | short reads | answers what `verify_result` expects |
| Miner accept loop (miner/main.rs:202-376, signature_checking.rs) | metagraph | accept, verify, give to the pool, refresh | chain, any peer of the listener, a library's thread pool | one blocking thread, reads that may be short, a list of neurons that is behind | only what a permitted validator signed gets a stream to the pool |
| Metrics, configuration, logging, updater, serve-axon | | | | | no decision of the above depends on them |

## Modules

| Module | Models | Checked by |
|---|---|---|
| `RowLayout` | sizes as functions of the step | extended by the modules below; proved about in `RowLayout_proofs` |
| `Rule30` | the rule on bit strings, as `verify_result` and `Solver` compute it, and a reference on a line of cells | `StateFiles` |
| `Evolution` | abstract: a step takes all bytes, settles each once, advances | `WorkPool` implements it (`EvolutionSpec`) |
| `WorkPool` | step loop, worker threads, completion handler, connections | `MCWorkPool` and the `pool_*` configurations |
| `WorkPool_proofs` | type correctness and slice bounds of `WorkPool` | TLAPS |
| `WorkPoolAccounts_proofs` | its chunks, accounts and streams, and that it implements `Evolution` | TLAPS |
| `Epoch` | `run`, head of `do_step`, `sync` over block numbers | the `epoch_*` configurations |
| `Epoch_proofs` | the four invariants of `epoch_pass` | TLAPS |
| `StateFiles` | save, load, discard, death, failure; reads of the HTTP service | `files_*` |
| `StateFiles_proofs` | order of the files, step in data.json, the bits in memory and on disk, the arithmetic of `Rule30` | TLAPS |
| `Exchange` | abstract: requests on a connection are answered in order, each byte once | `MinerStream` implements it (`ExchangeSpec`) |
| `MinerStream` | one connection at the level of bytes: `handle_connection` and `read_len` of the validator, `handle_connection`, `handle_step_request` and `Solver` of the miner | `stream_pass`, `stream_cut` |
| `MinerStream_proofs` | its invariants, and that it implements `Exchange` | TLAPS |
| `MinerServer` | the miner's `new`, `sync` and `run`, and the peers that dial it, of which `connect_to_miner` is one | `MCMinerServer` and the `server_*` configurations |
| `MinerServer_proofs` | its invariants | TLAPS |
| `Scores` | scores, the weights submitted for them, the weights from times | extended by `Registry`; proved about in `Registry_proofs` |
| `Registry` | owner, score, weight and connection of each UID through `new`, `do_step`, `sync`, `save_state` and death | `MCRegistry`, `registry_pass` |
| `Registry_proofs` | the invariants of `Registry`: scores, connections, marks, weights | TLAPS |

They overlap on purpose. `WorkPool` has the connections to miners as something
that answers bytes or fails: `MinerStream` is the other side of that, and
`Exchange` is what the two agree on. `Epoch` knows when `sync` happens and
`Registry` what it does to neurons; `StateFiles` has files cut off in the middle
and `Registry` what is written in data.json beside the step.

### WorkPool

The main thread is `pc` ("idle" between steps, "dispatch", "collect"); each
worker thread is a record `worker[w]` whose `pc` names the blocking call it is
at; `queue`, `available` and `completions` are the three unbounded `mpmc`
channels as sequences. Each turn of the dispatch loop, each channel receive and
each socket call is an action, because other threads run between them. What
lies between two such points touches only the thread's own locals, or bytes of
the row no other thread may touch (`ChunksDisjoint` checks that), so it belongs
to the action.

| Code | Definition |
|---|---|
| `worker_connections` (connection.rs:128) | `WorkerConnections`, within `BeginStep` |
| the loop over connections (mod.rs:671-704) | `DispatchChunk` with `ChunkEnd`, `NewRequest` |
| rest of the connections, leftover request (mod.rs:706-724) | `FinishDispatch` |
| `do_work` (worker.rs:219) | `ReceiveRequest`, `ReceiveWorker`, `Report` |
| `handle_connection` (worker.rs:104) | `WriteHeader`, `Write`, `AfterRead` and their failures |
| `read_len` (worker.rs:58) | `Read`, `ReadFails`, `ReadRefuted` |
| the three events (completion_event_handler.rs:28-87) | `CollectCompleted`, `CollectFailed`, `CollectCheated` |
| after the handler (mod.rs:736-754) | `FinishStep` |
| `sync` (mod.rs:508-596) | `Resync` |

Data: a byte of the row is "old", "new" or "bad". It becomes "new" only when a
miner computes it from its old value and the old value of the byte before it;
anything else is "bad". A carry (`last_byte`, `last`) is the position it was
copied from and what that byte held then. This tells apart exactly what
`RowEvolved` needs, without the bits. What the miner does between its two socket
calls is `MinerStream`; in `WorkPool` an answer of a miner in `Erring` is right or
wrong byte by byte, as it may be. Those are forgers, and honest miners of which a
read ends inside a word: they take a carry from a word that is not complete
(miner/main.rs:148), so their next answer may be wrong (`stream_cut`). A miner
outside `Erring` reads its words whole, and then holds the same byte before as
`read_len`. Partial writes of the validator do not decide this, since the miner's
reads need not follow them.

Choices a reader may ask about:

* The two sends of a dispatch turn are one action. Worker threads only consume,
  and take a request before they take a miner, so the state between the two
  sends enables nothing that the state after them does not.
* `if chunk_size == 0 { continue }` has no action: weights are `NonZeroU8`, so
  a chunk is never empty.
* The leftover request of mod.rs:712-724 is modelled, though rounding up leaves
  nothing for it.
* `read_len` reads any part of what was written, the lottery may or may not
  pick a read, and a miner in `Erring` may answer rightly. `Unseen` are those the
  lottery may miss; without them every wrong byte is caught.
* The event of a finished chunk carries an empty `request`; its stream is
  accounted for in `StreamHolders`.
* A short write of the header (worker.rs:132) counts as sent, as in the code.
* Times are not modelled here: the weights measured in a step are any non-zero
  ones (`Registry` has the times).
* `Init` is a validator whose state file has the current data version and
  another score version (mod.rs:216-218), so that the step is not 1 and scores
  are fresh. An unregistered UID is one that cannot be reached.
* `Resync` is possible between any two steps; `Epoch` has the condition.

### Epoch

Time is the chain's block number. Blocks are made while the validator is
anywhere; `FetchBlock` may lag behind by `FinalityLag`. An accepted submission
waits in `pool`, and a later block includes it, or not. `Minus` is `u32`
subtraction as a release build has it. A sleep ends when enough blocks were
made. "joining" is a validator that has left `run`, or panicked, and waits in
`Drop` for threads that do not end.

### StateFiles

Rows are real: sets of live bits with a length in bytes, evolved by `Rule30`.
`pc` and `file` say where `save_state` is. `File::create` truncates, a write
proceeds byte by byte, and every operation may fail (`SaveFails`, the `?`) or be
the last before the process dies (`Crash`). A JSON text that is cut off does not
parse, so `new` panics and the validator stays down. The order in which a power
loss lets the three files reach the disk is not modelled: a write that returned
is on disk.

`SolverAgrees` takes every chunk of every row reached, also of rows that a torn
file left, through `Solver` (words, carry, padded last word) and
`verify_result` (bytes). AlignedChunks are words in order, so they do not appear.

### MinerStream

`up` and `down` are the two directions of the stream, sequences of bytes of at
most `Capacity`; a write appends any part of what it was given, a read takes
any part of what is there. The validator is `vpc` and the locals of
`handle_connection` and `read_len`; the miner is `mpc`, `left`
(`request.length - solved`), `solverLast` and `out`, the rest of its buffer.

| Code | Definition |
|---|---|
| request (worker.rs:118-138; miner/main.rs:103-117) | `Request`, `ReceiveRequest` |
| write and windows (worker.rs:142-183) | `Write`, `Window` |
| `read_len` (worker.rs:58-102) | `ReadAnswers`, `Refute`, `AfterRead` |
| errors, end of stream, timeouts | `Fail`, `Leave`, `ReceiveNothing` |
| read, carry, solve (miner/main.rs:119-153) | `ReceiveData` with `CarryOf`, `WordIndex`, `Solved` |
| write loop (miner/main.rs:155-178) | `WriteAnswers` |

Data: an answer is the position of its byte and the position its sender took for
the byte before. A carry taken from a word that was not read whole
(miner/main.rs:148) is `Stale`, and counts as wrong although it may have the
right two bits by luck. `cuts` records where reads ended inside a word.
`WrongAfterCut` says that wrong bytes, and accusations of honest miners, come
from nothing else. The other way is the hazard: after a cut they do come.

The 16 bytes of a request count as one item: they are written by one call into
a connection that `Framed` shows to be empty, and read by one call. A request
read from a closed connection is what memory holds (`read::<T>` does not look
at the length); two lengths stand for it, and nothing is promised about how
soon such a thread ends.

### MinerServer

`pc` is where the main thread is between blocking calls: at the top of the loop
("sync", or "sleep" after a failure), at `accept`, at either read of the
handshake. A connection is a record with what its peer says (a message and a
signature), how much of it was sent (`said`), whether bytes are there to read,
whether the peer is still there, and where it stands ("backlog", "handshake",
"pooled", "over").

| Code | Definition |
|---|---|
| `new` (miner/main.rs:213-244) | `Init`, `Restart` with `Refresh` |
| `sync` (miner/main.rs:246-275) and its errors in `run` | `Sync`, `SyncFails`, `Wake`, `Exit`, `Deregistered` |
| `accept` (miner/main.rs:307) | `Accept`, `NoConnection` |
| first read and `info_matches` (miner/main.rs:312-323, signature_checking.rs) | `ReadMessage` with `ReadInto`, `InfoMatches` |
| second read, signature, permit, stake, pool (miner/main.rs:325-372) | `ReadSignature` with `SignatureMatches`, `Entitled` |
| `read::<T>` (miner/main.rs:84-95) | `Overlay`, `BytesLeft`, `ReadSignatureInto`; its error is `ReadFails` |

The listener takes any peer, so nothing is assumed of what comes in: `Greetings`
are the messages and signatures peers may send, of any hotkey, about any UID,
signed by whomever. A signature is known by the hotkey that made it and what it
is of, and it matches when that is the validator of the message in memory and
this message; cryptography is not modelled beyond that, and the netuid is one
more field that has to agree. A peer may send nothing, stop after the message, or
leave at any time.

`read::<T>` does not look at the length. After a short read memory holds the
first fields of the new message over what was there: the message of an earlier
handshake, or anything (`Garbage`). What the read did not take stays in the
stream and is what the signature is read from. A message put together in this
way may pass: `AdmittedOnMerit` is about the message in memory, which is all that
the code looks at, and says that somebody sent a signature of exactly it. It does
not say that the peer is that validator, and the code does not see to it either.

A list of neurons may have any length at any block. `MCMinerServer` has a chain on
which a validator loses permit and stake, one on which its UID is taken over and the
miner is gone for good after that, one on which the miner comes back under another
UID, and one that a validator joins.

What a pool thread does with a stream is `MinerStream`. The pool is a library's:
it is not modelled, and a stream given to it is at its end here.

### Registry and Scores

A UID's `NeuronData` is `owner`, `score`, `weight` and `conn`; data.json is
`json`, of the current score version or not. `chain` is the owners of all UIDs
by block, a constant behaviour that the validator meets at any speed; it may
shrink (which panics `sync`, mod.rs:512) and the validator may lose its own UID.
`earned` and `reowned` are history: bytes each hotkey answered; entries of
key_info whose UID the present process has seen, since the last save, without an
owner or with another one. `reach` are the miners that
accept a connection and `moved` those with a new axon. A death may come at any
point; a save writes a whole text or fails (`StateFiles` has the torn ones).

`set_weights` and the metagraph are two calls: the weights submitted are those
of the owners known before, `UpdateNeurons` then replaces neurons. A mark is
kept once it was saved, with its hotkey, until the process that saves next has
itself seen its UID change hands (`MarksKept`): owners the UID had before the mark
excuse nothing, nor do those that came and went while nobody looked. A mark that
was not saved dies with the process, and the miner has its score of before, which
the code accepts by saving only at the end of a step.

## Runs

Each run finishes in two minutes or less.

| Run | Bounds | Shows |
|---|---|---|
| `pool_safety` | 2 miners, 2 threads, weights 1-2, cache line 1, buffer 2, steps 6 and 7 (2 and 3 bytes), a row that grows between them; both miners may fail and err at any call | type invariant; streams, chunks, accounting, quiet between steps, no byte skipped, bytes paid once; implements `Evolution`; a step ends unless it loses all its miners |
| `pool_clean` | miners that neither fail nor err, one chunk a step (cache line 4), windows of 2 bytes, any partial write and read of the validator | the row is right when nothing fails and there is one chunk |
| `pool_race` | miners that neither fail nor err, chunks of one byte | **violation**: dispatch reads a byte a worker has overwritten |
| `pool_stall` | both miners may fail | **violation**: without miners a step never ends |
| `epoch_pass` | epochs of 3 blocks, 7 blocks, lag of 1 | subtraction of blocks does not wrap; a validator that was not refused sleeps to its next sync; one refused submission a block |
| `epoch_sleep` | the same | **violation**: a refused validator without miners sleeps for about 2^32 blocks |
| `files_pass` | rows of steps 1 to 9, buffers grown by 4 steps, 2 failures or deaths inside `save_state`, any number outside | memory stays right without such mishaps; a save that succeeds restores; data.json is never ahead of the files and never goes back; the bits cover the step |
| `files_crash` | the same | **violation**: a death inside `save_state` leaves a wrong row |
| `stream_pass` | two requests of 3 or 9 bytes, words of 2 bytes, AlignedChunks of 2 words, buffers of 8 bytes, sockets that hold 6; reliable or failing sides | bytes in order, both ends agree where a request begins, wrong answers only after a cut word; implements `Exchange`; a request ends, and no two ends wait for each other |
| `server_pass` | three chains of 3 blocks, epochs of 2, two connections, peers that are right, ahead, behind or impostors, any of them silent, cut off or gone at any time | streams go to the pool only on messages a validator with UID, permit and stake signed, on a metagraph less than an epoch old; a connection is dealt with, unless the one at hand is silent for ever or no sync succeeds again |
| `server_panic` | a subnet that a validator joins, and that validator | **violation**: the miner panics on a UID newer than its list |
| `registry_pass` | three chains of 3 blocks, two miners, 2 bytes each, two durations, 3 events a step | no unearned score, work only for unmarked owners, weights follow scores and times, saved marks stay |

Four more configurations ask about a cause of their own for a wrong row, a wrong
answer or a submission, each of which is refuted as well. They are further
instances of the modules above and are run by hand, as in
`tlc -config pool_carry.cfg MCWorkPool.tla`.

| Configuration | Bounds | Shows |
|---|---|---|
| `pool_carry.cfg` (`MCWorkPool`) | one chunk, one miner may fail, none errs | the rest of a failed request has the wrong byte before it |
| `pool_redo.cfg` (`MCWorkPool`) | one chunk, one miner errs and is always found | bytes that were right are evolved twice |
| `epoch_repeat.cfg` (`Epoch`) | as `epoch_pass` | an accepted submission is made again in its epoch |
| `stream_cut.cfg` (`MinerStream`) | one request of two words | an honest miner answers wrongly after a cut and is found out |

Why the bounds suffice. Two miners and two threads give each channel two
producers or consumers, so that chunks overtake each other, a failed rest goes
to the other miner, and a cheater is excluded while the other goes on. A buffer
of 2 and a chunk of up to 3 bytes have a full and a partial window; writes and
reads take any part of it. Two steps show what one leaves to the next. Nine
steps of `StateFiles` pass two growth boundaries of the row (2, 3, 4 bytes) and
the one of the column (step 8), and two mishaps combine a failed save with a
death, or a death with one during recovery. Three blocks per epoch leave room
for a submission that is included before, at and after the next fetch. A request
of 9 bytes passes two windows of the validator and two buffers of the miner and
fits neither socket, one of 3 ends inside the second word; the second request
starts on what the first one left. Two connections to the miner make one wait for
the other, and leave what one said in memory for the next, which is all that one
handshake leaves to another; the four greetings are right, signed by another, about
a UID beyond the list, and to a UID the miner has later; three blocks give a refresh
that comes late after failures, and metagraphs that only a restart sees. On the chains of `Registry` a UID
changes owner and gets its owner back, before, between and after saves; two
bytes and three events give ties, entries without a byte, and several entries of
a miner.

Deadlock is checked in `pool_clean`, `pool_race`. Elsewhere the system may stop:
miners are lost for good, the chain stops at `MaxBlock`, or a torn data.json
keeps the validator down.

### Fairness

`FairSpec` of `WorkPool` has weak fairness of the main thread and of each worker
thread. Threads are scheduled by the operating system, channel operations do
not block when something is there, and a socket call returns within the 5 s
timeouts of connection.rs:41-53. There is no fairness for `Sync`, nor for a
socket call to succeed. `StepCompletes` therefore says that a step ends or loses all
its miners, and `pool_stall` is what happens when it does lose them.

`FairSpec` of `MinerStream`: both threads run and a socket call of the validator
returns within 5 s. The miner has no timeouts and is owed nothing more unless
`reliable`; without a reliable peer it is the validator's timeout (`Fail`) that
ends a request, and with one neither side's calls fail, so `RequestSettles` also
says that full sockets never stop both.

`FairSpec` of `MinerServer`: the main thread runs. Nothing is assumed of peers, of
the chain or of the pool. A read that has nothing to return is not enabled, and the
reads of the handshake have no timeout, so `HandshakeEnds` names the two ways in
which the code lets a connection wait for ever: the peer at hand stays and says
nothing, or no sync succeeds any more.

## Disagreements between the code and what it says

The violations of the runs are listed as findings in PROJECT.json with the quoted
line. Items 2, 3, 6 and 8 are shown by the four further configurations. In short:

1. *Dispatch race* (worker.rs:26): the byte before a chunk is read when the
   chunk is queued, after earlier chunks were given to running threads.
2. *Carry after a partial read* (worker.rs:198): `last` is the last byte
   written, the remaining range starts after the last byte read.
3. *Redo after wrong bytes* (worker.rs:195): the whole range is evolved again,
   including bytes that were already overwritten.
4. *Stall* (completion_event_handler.rs:22): with all miners lost the main
   thread waits for an event nobody can send.
5. *Sleep* (mod.rs:629): `EPOCH_LENGTH - elapsed_blocks` wraps after a refused
   submission.
6. *Repeated submission* (mod.rs:611): an accepted submission is not
   remembered, and the metagraph is read at a block before it.
7. *Death in a save* (mod.rs:366): three files are rewritten in place.
8. *Cut word* (miner/main.rs:148): a read that ends inside a word leaves the miner
   with a carry from an incomplete word, and an honest miner with a wrong answer.
9. *Newer UID* (signature_checking.rs:55): a UID that the miner's list does not
   have is an index out of bounds, where a mismatch should be refused.

## Proofs

`tlapm M.tla` for each module `M` whose name ends in `_proofs`.

Assumptions: those of the modules. `GrowByAssumption`, `PoolAssumption`: sizes
are positive, weights at least 1, UIDs from 0. `EpochAssumption`: block numbers
and the epoch length fit a `u32`. `BoundsAssumption`: there is a step to do.
`StreamAssumption`: sizes and lengths are positive, and the miner's buffer is
whole AlignedChunks. `ServerAssumption`: in every metagraph a hotkey has one UID,
the miner is registered when it first starts, and what peers send are messages
and signatures of their types.
`RegistryAssumption`: a hotkey has one UID at a block, and the validator is no
miner.

| Module | Theorem | For every value of the constants |
|---|---|---|
| `RowLayout_proofs` | `GrowsBeyond`, `RowLargeEnough`, `CenterInside` | buffers hold what a step evolves and the centre bit |
| `WorkPool_proofs` | `TypeCorrect`, `SlicesInBounds` | `TypeOK`, `ChunksInRow` |
| `WorkPoolAccounts_proofs` | `ChunksAreDisjoint`, `WorkIsConserved`, `QuietBetween` | `ChunksDisjoint`, `WorkConserved`, `QuietBetweenSteps` |
| | `StreamsAreExclusive`, `NoneSkipped`, `NonePaidTwice` | `StreamExclusive`, `NoByteSkipped`, `PaidOnce` |
| | `ImplementsEvolution` | `EvolutionSpec`, the refinement |
| | `CleanRowsAreRight` | `RowEvolved`, where miners neither fail nor answer wrongly and a step is one chunk |
| `Epoch_proofs` | `TypeCorrect`, `BlocksNeverWrap`, `SleepBounded`, `RefusedOnce` | the invariants of `epoch_pass` |
| `StateFiles_proofs` | `NeverBehind`, `NeverBack` | `FilesNotBehind`, `StepNeverBack` |
| | `TypeCorrect`, `RestoresMemory` | `TypeOK`, `SaveRestores` |
| | `RightWithoutFailures`, `ServedBits`, `SolverMatchesVerifier` | `RightWithoutMishap`, `BitsServed`, `SolverAgrees` |
| `MinerStream_proofs` | `TypeCorrect`, `BytesInOrder`, `EndsAgree`, `HonestUpToCuts` | `TypeOK`, `InOrder`, `Framed`, `WrongAfterCut` |
| | `ImplementsExchange` | `ExchangeSpec`, the refinement |
| `MinerServer_proofs` | `TypeCorrect`, `Admission` | `TypeOK`, `AdmittedOnMerit` |
| `Registry_proofs` | `TypeCorrect`, `NoUnearnedScore`, `WorkForOwners`, `MarksStay` | `TypeOK`, `ScoreEarned`, `StreamsOwned`, `MarksKept` |
| | `SubmissionFollowsScores`, `WeightsFollowSpeed`, `WeightsInOrder` | `WeightsFollowScores`, `WeightsFollowTimes`, and what they rest on |

*WorkPool.* `ChunksInRow` alone is not inductive: that a remaining range ends inside the row
needs to know that the bytes read do not exceed the bytes written and these the
window; that a dispatched range does needs `position <= byte_count`. The
invariant is

    IInv == TypeOK /\ ChunksInRow /\ DispatchFit /\ \A w : ReadFits(w)

with `DispatchFit` about the position of the dispatch loop and `ReadFits` about
the counters of a thread. Each action has a lemma; requests move between queue,
thread and event unchanged or cut at the front, which `RequestBytes` lemmas
cover. The row only grows (`RowLargeEnough`).

*Accounts of the pool.* Who holds which byte is the heart of it:

    WorkInv == Shaped /\ AllApart /\ InStep /\ WorkConserved
                 /\ QuietBetweenSteps /\ Phases

`Shaped`: a request has a start and an end in order, an event has processed no
more than lies before what remains, a thread without a request holds nothing.
`AllApart`: what is queued, what threads hold, what events report and what is not
dispatched are four families of sets, disjoint within and between each other. It
is stated over predicates of holders (`Queued`, `InThreads`, `InEvents`), so that
one lemma for each way to move a set (append, take the head, replace) serves all
actions. `Phases`: nothing is counted before dispatch has ended. That a step
ends with nothing left follows: `data_processed` reaches `byte_count` only when
`Pending` is empty (`WorkConserved` and `InStep`), so no request or event is
left, hence no thread is beyond its first `recv` (`QuietBetweenSteps`).

`StreamInv` does the same for streams (`StreamsApart`, `OwnedConnected`: who is
held is connected). `SkipInv` adds `Overwritten`: a byte that a thread has read
back, or an event counts, is not old any more, so that what is credited was
evolved. `PaidInv` counts tokens, one per point of a score, against bytes of
steps. `ImplementsEvolution` takes each action to a step of `Evolution` or to
none (`StepRefines`): `BeginStep` takes all bytes, an event settles those it
processed, `FinishStep` advances.

*Right rows.* `Clean` says that no miner fails or answers wrongly (so no read of one
ends inside a word, which is the miner's matter, not the validator's) and that a
step is one chunk, because there is one miner or because rows fit a cache line; the constants
of `pool_clean` satisfy it. Then `ChunkIsWhole`: `DispatchChunk` rounds up to all of
the row, and `OnlyHolder`, from `AllApart`: one thread holds it. `RightInv` gives
the row a frontier: bytes before it are "new", the others "old". The frontier is
where the thread is, `Done(t)`, and each of its carries is `Before` some place: the
byte there as it was before the step. `read_len` keeps the old byte before it
overwrites it, which is what `ReadMoves` needs.

*Epoch.* The properties speak of the cached block, the cached last update and
the local of `do_step`, none of which they constrain: the chain does.

    IInv == TypeOK /\ UpdatesPast /\ RestPlanned /\ SleepsToEpoch /\ RefusalsCounted

`UpdatesPast` says that in the state at a block the last update is not after
that block; the type invariant, that the cached one was read at a block already
fetched. So the subtraction is exact (`NothingWraps`). `RestPlanned` carries
`elapsed <= EPOCH_LENGTH` from `do_step`'s test to the sleep. It fails after a
refusal, which is item 5 above.

*StateFiles.* Whether a file is behind depends on the step in memory when it was
written, and on what a process loads:

    IInv == DiskShape /\ JsonTells /\ MemoryNotBehind /\ Progress /\ FilesNotBehind

`MemoryNotBehind`: a running process has at least the step that was published,
because it loads a whole data.json or does not start (`Loaded`). `Progress`:
when save_state has come to a file, those before it hold this step. A rewritten
row or column is then never behind (`Rewritten`), and data.json is written last.

What is in memory needs another invariant, on top of that one:

    MemInv == Memory /\ Control /\ FileShape("row") /\ FileShape("column")
                /\ JsonShape /\ FirstByte /\ Written
    BitInv == MemoryIsRight /\ EarlyBits /\ DiskIsRight /\ BitsServed

`Written`: the files save_state has passed hold what is in memory. `MemoryIsRight`
and `DiskIsRight` are the property for memory and its counterpart for the files;
the second is needed for a restart. `EarlyBits` is about a validator that dies
before its first save ends: its files are torn or absent, but hold no bit beyond
the first byte, which step 1 overwrites.

That `EvolveBytes` computes rows of `Line` (`RowEvolves`, `CentreEvolves`) is an
induction over steps. The library's induction theorems cannot be used here, so
it is done by hand: a set of naturals that is not empty has a least element
(`LeastNat`, from the well-foundedness of `<`), and the least step at which two
functions differ cannot exist (`LinesExist`, `LinesAgree`, `LineWithin`).
`SolverMatchesVerifier` does not need the invariant of the files: a bit of a
word is a bit of a byte (`SolvedBit`), the verifier's too (`ExpectedBit`), and
both are the next row's (`ExpectedIsNext`, `SolveIsExpected`).

*MinerStream.* `IInv == Contents /\ ValidatorSide /\ MinerSide /\ InFlight /\
Unread /\ Owed /\ Carried /\ WrongAfterCut`. Nothing in the stream tells one
item from another, so the invariant says what each is. `InFlight`: up, out and
down together are the bytes between `read` and `written`, each in its place.
`Unread` and `Owed`: a request that was sent is either the head of the stream,
with nothing before it, or the miner owes exactly the rest. `Carried`: the miner
takes the right byte before, or that byte ends a cut. `Framed` follows from
`Unread` and `Owed`, and `ImplementsExchange` from the invariant in both states of
a step: a byte is answered where `ReadAnswers` takes it.

*MinerServer.* `IInv == Metagraph /\ Control /\ Streams /\ Memory /\ AtHand /\ Checked /\
FreshView /\ AdmittedOnMerit`. The verdict is taken in two reads. `Checked` carries
what the first one found to the second: the message in memory matches the list,
which no sync changes in between. `FreshView`: between syncs the metagraph is less
than an epoch old; `AtHand`: the block at which a stream was accepted is the one its
verdict is about. `Memory`: a signature in memory is one that was sent, whole, on
some connection. Messages are typed by `OverlayMessage`, whatever was short.

*Registry.* Events are credited by UID, so that no score is unearned needs to know
whose stream a UID has, and that a stream is the owner's needs the syncs and
starts that keep scores:

    IInv == Shape /\ JsonShape /\ StreamsOwned /\ ScoreEarned

`NeuronsRight` is the common part of a start and a sync: neurons are right when
those that are kept are. `MarksStay` adds `MarksRemembered`: a saved mark is in
memory too, of the same hotkey, unless there is no process or this one has seen
the UID without that owner (`reowned`).
A marked neuron has no connection (`StreamsOwned`), so no event undoes the mark.

*Weights.* `PayInv == Weights /\ Times /\ Submission /\ Reweighted`, besides that the
program counter has its type: the weights of a step are those of its times until
the times are cleared, and the submission is that of the scores until they may
change. `WeightsInOrder` needs that a share of the highest score is at most
`U16`, so that the cast to `u16` cuts nothing off, and that division keeps order;
`TimeWeightOrder` needs the same of `inverse_weight`. The highest and the lowest
of a set of numbers exist (`Greatest`, `Least`) again by `LeastNat`.

Only model-checked:

* `RowEvolved` of `WorkPool` beyond `Clean`. With two chunks it fails (item 1) and
  with miners that fail or answer wrongly too (items 2, 3 and 8), so there is
  nothing to prove.
* Liveness and what rests on ENABLED, which the prover cannot do: `StepCompletes`,
  `RequestSettles`, `HandshakeEnds`, and the absence of deadlock.
* The properties of the violations, which TLC refutes.

## Plan

Done: all modules above, and the proofs above. Every invariant and action property
of a passing run is a theorem. Left: wider hypotheses under which rows are right,
for example miners that fail only between windows, where the carry of item 2 is
the right one.

## Not modelled

The cryptography of the handshake, DNS and sockets below `read`/`write`, and the
chain beyond blocks, metagraphs and submissions are other programs. The `ThreadPool`
of the miner is a library's: it runs 32 connections at a time, and nothing in the
repository says how soon a further one is served. HTTP itself
(routing, ranges, the listener) is a library's. Metrics are write-only counters,
configuration is read once, the updater pulls a repository and touches nothing
else, `serve-axon` submits one extrinsic and ends: none keeps state that a
decision of the rest depends on.

`Drop` joining threads that never end (mod.rs:811) is in `Epoch` as the state
"joining"; nothing in the repository promises that the process ends, so no
property says so. That `set_weights` pays the owner of a UID before the metagraph
is read is in `Registry` as it is.
