------------------------------- MODULE WorkPool -------------------------------
(***************************************************************************)
(* One validator evolving the row with its miners: do_step (the main       *)
(* thread), do_work / handle_connection / read_len (one worker thread per  *)
(* miner connection at most), handle_completion_events (the main thread    *)
(* again) and the connection part of sync.  The threads share the row and  *)
(* three unbounded FIFO channels: work queue, available workers,           *)
(* completions.                                                            *)
(*                                                                         *)
(* Data: a byte of the row is "old" (its value in row step-1), "new" (its  *)
(* value in row step) or "bad" (computed from anything but the old byte    *)
(* and the old byte before it, or answered wrongly by the miner).  A       *)
(* `last_byte` is the identity of the byte it was copied from.  What the   *)
(* miner does is MinerStream; here an answer is any bytes it may give.     *)
(*                                                                         *)
(* Files, the chain and metrics are not state of this module.              *)
(***************************************************************************)
EXTENDS RowLayout, Sequences, FiniteSets

CONSTANTS NeuronCount,   \* bound: UIDs are 0 .. NeuronCount-1
          MaxWeight,     \* u8::MAX, the weight of a new miner
          CacheLine,     \* 64: chunks are rounded up to a multiple of it
          BufferSize,    \* 32 KiB: what is written before reading back
          InitStep,      \* step found in the state file
          MaxStep,       \* bound: no step is begun from here on
          Flaky,         \* UIDs whose connection may fail or time out
          Erring,        \* UIDs that may answer with wrong bytes: forgers, and
                         \* honest miners of which a read ends inside a word
                         \* (MinerStream shows what they answer then)
          Unseen         \* UIDs whose wrong bytes the 5% lottery may miss

Uid == 0 .. NeuronCount - 1

\* A thread exists per connection at most, so NeuronCount of them are enough.
Worker == 1 .. NeuronCount

ASSUME PoolAssumption ==
    /\ NeuronCount \in Nat \ {0}
    /\ MaxWeight \in Nat \ {0}
    /\ CacheLine \in Nat \ {0}
    /\ BufferSize \in Nat \ {0}
    /\ InitStep \in Nat \ {0}
    /\ MaxStep \in Nat
    /\ Flaky \subseteq Uid
    /\ Erring \subseteq Uid
    /\ Unseen \subseteq Erring

VARIABLES
    \* main thread: do_step and handle_completion_events
    pc,              \* "idle" between steps, "dispatch", "collect"
    step,            \* Validator.step
    row,             \* Validator.current_row, by byte
    column,          \* Validator.center_column: steps whose bit was copied
                     \* from a byte that was not "new"
    rest,            \* worker_connections not yet handed out
    weightSum,       \* weight_sum
    position,        \* position
    dataProcessed,   \* data_processed
    timed,           \* UIDs of time_per_uid_byte with processed # 0
    \* NeuronData, by UID
    conn,            \* connection is Some
    weight,          \* weight
    score,           \* Score::Legitimate(n); 0 for Score::Cheater
    cheater,         \* UIDs whose score is Score::Cheater
    \* channels
    queue, available, completions,
    \* worker threads
    threads,         \* worker_threads.len()
    worker           \* locals of each do_work

stepVars == <<pc, step, row, column, rest, weightSum, position, dataProcessed,
              timed>>
neuronVars == <<conn, weight, score, cheater>>
vars == <<stepVars, neuronVars, queue, available, completions, threads, worker>>

-------------------------------------------------------------------------------
\* Values

Cell == {"old", "new", "bad"}

\* A byte value: which byte of the row it was copied from and what that byte
\* held.  Byte -1 stands for the literal 0 before the row.
Carry == [at : Nat \cup {-1}, cell : Cell]

CarryBefore_Late(r, p) ==
    [at |-> p, cell |-> IF p = 0 THEN "old" ELSE r[p - 1]]

CarryBefore(r, p) == [at |-> p - 1, cell |-> IF p = 0 THEN "old" ELSE r[p - 1]]

\* struct ProcessingRequest, with range = start..end (end excluded)
Request == [start : Nat, end : Nat, last : Carry]

NewRequest_Inclusive(start, end) ==
    [start |-> start, end |-> end + 1, last |-> CarryBefore(row, start)]

NewRequest(start, end) ==
    [start |-> start, end |-> end, last |-> CarryBefore(row, start)]

\* struct ProcessingCompletionResult.  request is what is still to be done:
\* the `remaining` of Failed, the whole range of Cheated, and nothing (an
\* empty range) for Completed.
Event == [uid : Uid, kind : {"completed", "failed", "cheated"},
          processed : Nat, request : Request]

NoCarry == [at |-> -1, cell |-> "old"]
NoRequest == [start |-> 0, end |-> 0, last |-> NoCarry]

WorkerPc == {"recv_request", "recv_worker", "header", "write", "read"}

\* Locals of do_work, handle_connection and read_len.
WorkerState == [pc : WorkerPc, request : Request, uid : Uid,
                total : Nat,       \* total_processed
                last : Carry,      \* last
                written : Nat,     \* written
                lastByte : Carry,  \* last_byte
                read : Nat,        \* read_len: read
                readLast : Carry]  \* read_len: last

Resting == [pc |-> "recv_request", request |-> NoRequest, uid |-> 0,
            total |-> 0, last |-> NoCarry, written |-> 0,
            lastByte |-> NoCarry, read |-> 0, readLast |-> NoCarry]

\* The value a miner owes for byte p given what it was told precedes p.
Evolve(p, carry) ==
    IF row[p] = "old" /\ carry = [at |-> p - 1, cell |-> "old"]
    THEN "new" ELSE "bad"

Connected == {u \in Uid : conn[u]}

\* Sum of the weights of the connections, as a count of weight units.
WeightSum(uids) ==
    Cardinality({e \in Uid \X (1 .. MaxWeight) :
                    e[1] \in uids /\ e[2] <= weight[e[1]]})

-------------------------------------------------------------------------------
\* A validator whose state file has the current version and another score
\* version: the step is kept, scores and weights start afresh.
Init ==
    /\ pc = "idle"
    /\ step = InitStep
    /\ row = [p \in 0 .. CurrentRowSize(InitStep) - 1 |-> "old"]
    /\ column = {}
    /\ rest = <<>>
    /\ weightSum = 0
    /\ position = 0
    /\ dataProcessed = 0
    /\ timed = {}
    /\ conn \in [Uid -> BOOLEAN]
    /\ weight = [u \in Uid |-> MaxWeight]
    /\ score = [u \in Uid |-> 0]
    /\ cheater = {}
    /\ queue = <<>>
    /\ available = <<>>
    /\ completions = <<>>
    /\ threads = Cardinality(Connected)
    /\ worker = [w \in Worker |-> Resting]

-------------------------------------------------------------------------------
\* Main thread: do_step up to handle_completion_events

\* worker_connections: every live connection, heaviest first (a stable sort).
WorkerConnections ==
    {order \in [1 .. Cardinality(Connected) -> Connected] :
        \A i, j \in DOMAIN order : i < j =>
            \/ weight[order[i]] > weight[order[j]]
            \/ /\ weight[order[i]] = weight[order[j]]
               /\ order[i] < order[j]}

\* do_step with connections available: take them and grow the row.  Without
\* any, do_step returns having changed nothing.
BeginStep ==
    /\ pc = "idle"
    /\ step < MaxStep
    /\ Connected # {}
    /\ rest' \in WorkerConnections
    /\ weightSum' = WeightSum(Connected)
    /\ position' = 0
    /\ row' = [p \in (DOMAIN row) \cup (0 .. CurrentRowSize(step) - 1) |->
                  IF p \in DOMAIN row THEN row[p] ELSE "old"]
    /\ pc' = "dispatch"
    /\ UNCHANGED <<step, column, dataProcessed, timed, neuronVars, queue,
                   available, completions, threads, worker>>

\* End of the chunk given to a connection of weight w.  A weight is never 0
\* (NonZeroU8), nor is then the chunk, so `continue` is not modelled.
ChunkEnd(w) ==
    LET chunk == CeilDiv(ByteCount(step) * w, weightSum)
        lines == CeilDiv(chunk, CacheLine) * CacheLine
    IN  IF position + lines < ByteCount(step)
        THEN position + lines ELSE ByteCount(step)

\* One turn of the loop over the connections: queue a chunk, then make the
\* connection available.  Worker threads may already be at earlier chunks.
DispatchChunk ==
    /\ pc = "dispatch"
    /\ rest # <<>>
    /\ position # ByteCount(step)
    /\ LET end == ChunkEnd(weight[Head(rest)])
       IN  /\ queue' = Append(queue, NewRequest(position, end))
           /\ position' = end
    /\ available' = Append(available, Head(rest))
    /\ rest' = Tail(rest)
    /\ UNCHANGED <<pc, step, row, column, weightSum, dataProcessed, timed,
                   neuronVars, completions, threads, worker>>

\* After the loop: hand out the connections without a chunk, queue what no
\* connection took, and start collecting.
FinishDispatch ==
    /\ pc = "dispatch"
    /\ rest = <<>> \/ position = ByteCount(step)
    /\ available' = available \o rest
    /\ rest' = <<>>
    /\ queue' = IF position = ByteCount(step) THEN queue
                ELSE Append(queue, NewRequest(position, ByteCount(step)))
    /\ position' = ByteCount(step)
    /\ dataProcessed' = 0
    /\ timed' = {}
    /\ pc' = "collect"
    /\ UNCHANGED <<step, row, column, weightSum, neuronVars, completions,
                   threads, worker>>

-------------------------------------------------------------------------------
\* Worker threads

Step(w, locals) == worker' = [worker EXCEPT ![w] = locals]

\* Send the result and go back to the top of do_work.
Report(w, kind, processed, remaining) ==
    /\ completions' = Append(completions,
                             [uid |-> worker[w].uid, kind |-> kind,
                              processed |-> processed, request |-> remaining])
    /\ Step(w, Resting)

Remaining_Whole(w, total, last) == [worker[w].request EXCEPT !.last = last]

\* The part of w's request from byte offset total on.
Remaining(w, total, last) ==
    [start |-> worker[w].request.start + total,
     end |-> worker[w].request.end, last |-> last]

ChunkLen(w) == worker[w].request.end - worker[w].request.start

\* work_queue_receiver.recv()
ReceiveRequest(w) ==
    /\ w <= threads
    /\ worker[w].pc = "recv_request"
    /\ queue # <<>>
    /\ Step(w, [worker[w] EXCEPT !.pc = "recv_worker", !.request = Head(queue)])
    /\ queue' = Tail(queue)
    /\ UNCHANGED <<stepVars, neuronVars, available, completions, threads>>

\* available_worker_receiver.recv()
ReceiveWorker(w) ==
    /\ worker[w].pc = "recv_worker"
    /\ available # <<>>
    /\ Step(w, [worker[w] EXCEPT !.pc = "header", !.uid = Head(available),
                                 !.last = worker[w].request.last])
    /\ available' = Tail(available)
    /\ UNCHANGED <<stepVars, neuronVars, queue, completions, threads>>

\* handle_connection: send the ProcessingNetworkRequest.
WriteHeader(w) ==
    /\ worker[w].pc = "header"
    /\ Step(w, [worker[w] EXCEPT !.pc = "write"])
    /\ UNCHANGED <<stepVars, neuronVars, queue, available, completions, threads>>

WriteHeaderFails(w) ==
    /\ worker[w].pc = "header"
    /\ worker[w].uid \in Flaky
    /\ Report(w, "failed", 0, worker[w].request)
    /\ UNCHANGED <<stepVars, neuronVars, queue, available, threads>>

\* What is left of the current buffer_size window of the chunk.
Window(w) ==
    LET total == worker[w].total
        to == (total \div BufferSize + 1) * BufferSize
    IN  (IF to < ChunkLen(w) THEN to ELSE ChunkLen(w)) - total

\* connection.write takes any part of the window.  last_byte is read before
\* the answer overwrites it.
Write(w, written) ==
    /\ worker[w].pc = "write"
    /\ LET at == worker[w].request.start + worker[w].total + written
       IN  Step(w, [worker[w] EXCEPT !.pc = "read",
                                     !.written = written,
                                     !.lastByte = CarryBefore(row, at),
                                     !.read = 0,
                                     !.readLast = worker[w].last])
    /\ UNCHANGED <<stepVars, neuronVars, queue, available, completions, threads>>

\* connection.write fails or takes nothing.
WriteFails(w) ==
    /\ worker[w].pc = "write"
    /\ worker[w].uid \in Flaky
    /\ Report(w, "failed", worker[w].total,
              Remaining(w, worker[w].total, worker[w].last))
    /\ UNCHANGED <<stepVars, neuronVars, queue, available, threads>>

\* First byte of the row that w's next read overwrites.
ReadAt(w) == worker[w].request.start + worker[w].total + worker[w].read

\* Where the thread goes with len more bytes read: to the next read, to the
\* next write, or back to do_work with the chunk complete.
AfterRead(w, len) ==
    LET read == worker[w].read + len
        total == worker[w].total + read
    IN  \/ /\ read < worker[w].written
           /\ Step(w, [worker[w] EXCEPT
                          !.read = read,
                          !.readLast = CarryBefore(row, ReadAt(w) + len)])
           /\ UNCHANGED completions
        \/ /\ read = worker[w].written
           /\ total < ChunkLen(w)
           /\ Step(w, [worker[w] EXCEPT !.pc = "write", !.total = total,
                                        !.last = worker[w].lastByte])
           /\ UNCHANGED completions
        \/ /\ read = worker[w].written
           /\ total = ChunkLen(w)
           /\ Report(w, "completed", total,
                     Remaining(w, total, worker[w].lastByte))

\* read_len, one turn: len bytes of answer are copied over the row, those of
\* wrong with a wrong value.  Wrong bytes get this far when the lottery does not
\* pick the read.  readLast is the `last` of read_len; a miner that read every
\* word whole holds the same, the last byte it was sent before these.
Read(w, len, wrong) ==
    LET from == ReadAt(w)
        carry(p) == IF p = from THEN worker[w].readLast ELSE CarryBefore(row, p)
        answer(p) == IF p \in wrong THEN "bad" ELSE Evolve(p, carry(p))
    IN  /\ worker[w].pc = "read"
        /\ wrong \subseteq from .. from + len - 1
        /\ wrong # {} => worker[w].uid \in Unseen
        /\ row' = [p \in DOMAIN row |->
                      IF p \in from .. from + len - 1 THEN answer(p) ELSE row[p]]
        /\ AfterRead(w, len)
        /\ UNCHANGED <<pc, step, column, rest, weightSum, position,
                       dataProcessed, timed, neuronVars, queue, available,
                       threads>>

ReadFails_Written(w) ==
    LET total == worker[w].total + worker[w].written
    IN  /\ worker[w].pc = "read"
        /\ worker[w].uid \in Flaky
        /\ Report(w, "failed", total, Remaining(w, total, worker[w].lastByte))
        /\ UNCHANGED <<stepVars, neuronVars, queue, available, threads>>

\* read_len gives up early (end of stream, error or the 5 s timeout): the
\* bytes read so far count, and last is the last byte *written*.
ReadFails(w) ==
    LET total == worker[w].total + worker[w].read
    IN  /\ worker[w].pc = "read"
        /\ worker[w].uid \in Flaky
        /\ Report(w, "failed", total, Remaining(w, total, worker[w].lastByte))
        /\ UNCHANGED <<stepVars, neuronVars, queue, available, threads>>

\* verify_result is drawn and finds wrong bytes: the whole request goes back,
\* whatever of it was overwritten before.
ReadRefuted(w) ==
    /\ worker[w].pc = "read"
    /\ worker[w].uid \in Erring
    /\ Report(w, "cheated", 0, worker[w].request)
    /\ UNCHANGED <<stepVars, neuronVars, queue, available, threads>>

-------------------------------------------------------------------------------
\* Main thread: handle_completion_events

StepDone_Early == dataProcessed >= ByteCount(step) - 1

StepDone == dataProcessed >= ByteCount(step)

Collecting(kind) ==
    /\ pc = "collect"
    /\ ~StepDone
    /\ completions # <<>>
    /\ Head(completions).kind = kind
    /\ completions' = Tail(completions)

\* data_processed, the score (a cheater's stays Cheater) and the timing entry
\* of the miner that did the work.
Credit(e) ==
    /\ dataProcessed' = dataProcessed + e.processed
    /\ score' = IF e.uid \in cheater THEN score
                ELSE [score EXCEPT ![e.uid] = @ + e.processed]
    /\ timed' = IF e.processed = 0 THEN timed ELSE timed \cup {e.uid}

CollectCompleted_Keep ==
    /\ Collecting("completed")
    /\ Credit(Head(completions))
    /\ UNCHANGED <<pc, step, row, column, rest, weightSum, position, conn,
                   weight, cheater, queue, available, threads, worker>>

CollectCompleted ==
    /\ Collecting("completed")
    /\ Credit(Head(completions))
    /\ available' = Append(available, Head(completions).uid)
    /\ UNCHANGED <<pc, step, row, column, rest, weightSum, position, conn,
                   weight, cheater, queue, threads, worker>>

CollectFailed_Return ==
    /\ Collecting("failed")
    /\ Credit(Head(completions))
    /\ conn' = [conn EXCEPT ![Head(completions).uid] = FALSE]
    /\ queue' = Append(queue, Head(completions).request)
    /\ available' = Append(available, Head(completions).uid)
    /\ UNCHANGED <<pc, step, row, column, rest, weightSum, position, weight,
                   cheater, threads, worker>>

\* The connection is dropped and the rest of the request queued again.
CollectFailed ==
    /\ Collecting("failed")
    /\ Credit(Head(completions))
    /\ conn' = [conn EXCEPT ![Head(completions).uid] = FALSE]
    /\ queue' = Append(queue, Head(completions).request)
    /\ UNCHANGED <<pc, step, row, column, rest, weightSum, position, weight,
                   cheater, available, threads, worker>>

CollectCheated ==
    LET e == Head(completions)
    IN  /\ Collecting("cheated")
        /\ conn' = [conn EXCEPT ![e.uid] = FALSE]
        /\ cheater' = cheater \cup {e.uid}
        /\ score' = [score EXCEPT ![e.uid] = 0]
        /\ queue' = Append(queue, e.request)
        /\ UNCHANGED <<stepVars, weight, available, threads, worker>>

MeasuredWeights_Zero == [timed -> 0 .. MaxWeight]

\* Weights from the measured times: any, but not 0.
MeasuredWeights == [timed -> 1 .. MaxWeight]

\* All bytes are accounted for: empty the available workers, set the weights,
\* copy the centre bit, go to the next step.
FinishStep ==
    /\ pc = "collect"
    /\ StepDone
    /\ available' = <<>>
    /\ \E w \in MeasuredWeights :
           weight' = [u \in Uid |-> IF u \in timed THEN w[u] ELSE weight[u]]
    /\ column' = IF row[CenterByte(step)] = "new" THEN column
                 ELSE column \cup {step}
    /\ row' = [p \in DOMAIN row |-> IF row[p] = "new" THEN "old"
                                    ELSE IF p < ByteCount(step) THEN "bad"
                                    ELSE row[p]]
    /\ step' = step + 1
    /\ pc' = "idle"
    /\ weightSum' = 0
    /\ position' = 0
    /\ dataProcessed' = 0
    /\ timed' = {}
    /\ UNCHANGED <<rest, conn, score, cheater, queue, completions, threads,
                   worker>>

-------------------------------------------------------------------------------
\* is_cheater of connect_to_miner: those it does not connect to.
Barred(newHotkey) == cheater \ newHotkey

\* The tail of sync, between steps, after the weights were submitted and the
\* metagraph fetched.  Miners whose hotkey is new (a new UID counts as one)
\* start afresh; those without a connection or with a new axon are connected
\* to, unless they are cheaters; reach are the attempts that succeed.
Resync(newHotkey, newAxon, reach) ==
    LET dialled == newHotkey \cup {u \in Uid : ~conn[u]} \cup newAxon
    IN  /\ pc = "idle"
        /\ conn' = [u \in Uid |-> IF u \in dialled
                                  THEN u \in reach \ Barred(newHotkey) ELSE conn[u]]
        /\ cheater' = cheater \ newHotkey
        /\ score' = [u \in Uid |-> IF u \in newHotkey THEN 0 ELSE score[u]]
        /\ weight' = [u \in Uid |-> IF u \in newHotkey THEN MaxWeight
                                    ELSE weight[u]]
        /\ LET count == Cardinality({u \in Uid : conn'[u]})
           IN  threads' = IF threads < count THEN count ELSE threads
        /\ UNCHANGED <<stepVars, queue, available, completions, worker>>

-------------------------------------------------------------------------------
Main == \/ BeginStep \/ DispatchChunk \/ FinishDispatch
        \/ CollectCompleted \/ CollectFailed \/ CollectCheated
        \/ FinishStep

Work(w) == \/ ReceiveRequest(w) \/ ReceiveWorker(w)
           \/ WriteHeader(w) \/ WriteHeaderFails(w)
           \/ \E n \in 1 .. Window(w) : Write(w, n)
           \/ WriteFails(w)
           \/ \E n \in 1 .. worker[w].written - worker[w].read :
                 \E wrong \in SUBSET (ReadAt(w) .. ReadAt(w) + n - 1) :
                    Read(w, n, wrong)
           \/ ReadFails(w) \/ ReadRefuted(w)

Sync == \E newHotkey, newAxon, reach \in SUBSET Uid :
            Resync(newHotkey, newAxon, reach)

Next == Main \/ (\E w \in Worker : Work(w)) \/ Sync

Spec == Init /\ [][Next]_vars

\* Threads are scheduled, and a socket call returns within its 5 s timeout.
FairSpec == Spec /\ WF_vars(Main) /\ \A w \in Worker : WF_vars(Work(w))

-------------------------------------------------------------------------------
\* Type invariant.
TypeOK ==
    /\ pc \in {"idle", "dispatch", "collect"}
    /\ step \in Nat
    /\ DOMAIN row \subseteq Nat /\ row \in [DOMAIN row -> Cell]
    /\ column \subseteq Nat
    /\ rest \in Seq(Uid)
    /\ weightSum \in Nat /\ position \in Nat /\ dataProcessed \in Nat
    /\ timed \subseteq Uid
    /\ conn \in [Uid -> BOOLEAN]
    /\ weight \in [Uid -> 1 .. MaxWeight]
    /\ score \in [Uid -> Nat]
    /\ cheater \subseteq Uid
    /\ queue \in Seq(Request)
    /\ available \in Seq(Uid)
    /\ completions \in Seq(Event)
    /\ threads \in 0 .. NeuronCount
    /\ worker \in [Worker -> WorkerState]

-------------------------------------------------------------------------------
\* Who holds a miner's stream, a &'static mut TcpStream into NeuronData: the
\* loop of do_step, the available channel, a worker thread that has received
\* it, a Completed event.

Streaming(w) == worker[w].pc \in {"header", "write", "read"}

StreamHolders ==
    ({"rest"} \X DOMAIN rest) \cup ({"available"} \X DOMAIN available)
        \cup ({"worker"} \X {w \in Worker : Streaming(w)})
        \cup ({"event"} \X {i \in DOMAIN completions :
                                completions[i].kind = "completed"})

StreamOf(h) == CASE h[1] = "rest" -> rest[h[2]]
                 [] h[1] = "available" -> available[h[2]]
                 [] h[1] = "worker" -> worker[h[2]].uid
                 [] h[1] = "event" -> completions[h[2]].uid

\* "Each connection is only used in one thread, according to the channel
\* logic" (the SAFETY comment of worker_connections): no stream has two
\* holders, and none is held after its connection was dropped.
StreamExclusive ==
    /\ \A g, h \in StreamHolders : g # h => StreamOf(g) # StreamOf(h)
    /\ \A h \in StreamHolders : conn[StreamOf(h)]

-------------------------------------------------------------------------------
\* Who holds a piece of the row: a queued request, the request of a worker
\* thread, an event (its unprocessed bytes and those still to be credited).

WorkHolders ==
    ({"queue"} \X DOMAIN queue) \cup ({"worker"} \X Worker)
        \cup ({"event"} \X DOMAIN completions)

RequestBytes(r) == r.start .. r.end - 1

EventBytes(e) == e.request.start - e.processed .. e.request.end - 1

BytesOf(h) ==
    CASE h[1] = "queue" -> RequestBytes(queue[h[2]])
      [] h[1] = "worker" -> RequestBytes(worker[h[2]].request)
      [] h[1] = "event" -> EventBytes(completions[h[2]])

\* Bytes of this step that do_step has not put on the queue yet.
Undispatched ==
    IF pc = "dispatch" THEN position .. ByteCount(step) - 1 ELSE {}

\* Bytes of this step that data_processed does not count yet.
Pending == Undispatched \cup UNION {BytesOf(h) : h \in WorkHolders}

\* The &mut [u8] chunks that threads cut out of the shared row never overlap,
\* and no byte is handed out while an event about it is on its way.
ChunksDisjoint ==
    /\ \A g, h \in WorkHolders : g # h => BytesOf(g) \cap BytesOf(h) = {}
    /\ \A h \in WorkHolders : BytesOf(h) \cap Undispatched = {}

\* No request, fresh or left over from a failure, reaches past the row: slicing
\* current_row never panics (a worker that panics never reports, and the step
\* would wait for it for ever).
ChunksInRow ==
    /\ pc # "idle" => 0 .. ByteCount(step) - 1 \subseteq DOMAIN row
    /\ \A i \in DOMAIN queue : RequestBytes(queue[i]) \subseteq DOMAIN row
    /\ \A w \in Worker : RequestBytes(worker[w].request) \subseteq DOMAIN row
    /\ \A i \in DOMAIN completions :
          EventBytes(completions[i]) \subseteq DOMAIN row

\* data_processed and the outstanding work add up to the row at any time, so
\* `data_processed < byte_count` ends the step at the right moment.
WorkConserved ==
    pc # "idle" => dataProcessed + Cardinality(Pending) = ByteCount(step)

\* Between steps every thread waits for a request and the channels are empty:
\* resizing the row, saving it, replacing connections and moving the neurons
\* (all done by the main thread without a lock) race with nobody, and nothing
\* pollutes the next step.
QuietBetweenSteps ==
    pc = "idle" =>
        /\ \A w \in Worker : worker[w] = Resting
        /\ queue = <<>> /\ available = <<>> /\ completions = <<>>

\* A byte that still has its old value is pending: no byte is left out of a
\* step, whatever failures and hand-overs its chunk went through.
NoByteSkipped ==
    pc # "idle" => \A p \in 0 .. ByteCount(step) - 1 :
                       row[p] = "old" => p \in Pending

\* A byte is paid for at most once, also when its chunk was done in parts by
\* several miners or redone after a cheater: the scores together, a token per
\* point, are no more than the bytes of the steps done and those of this one.
Paid == UNION {{u} \X (1 .. score[u]) : u \in Uid}
Evolved == UNION {{s} \X (0 .. ByteCount(s) - 1) : s \in InitStep .. step - 1}
PaidOnce == Cardinality(Paid) <= Cardinality(Evolved) + dataProcessed

\* "Each computation has exactly one correct answer" (README): once a step is
\* over its row and its bit of the centre column are right.
RowEvolved == pc = "idle" => /\ \A p \in DOMAIN row : row[p] = "old"
                             /\ column = {}

\* A step is completed or loses all its miners, whatever each of them does: the
\* stream of every Completed event is handed out again and in the end takes all
\* that is queued.  So one miner that goes on answering is enough.
StepCompletes == pc # "idle" ~> pc = "idle" \/ Connected = {}

\* "No connections available, sleeping for {blocks} to resync": with no miner
\* left the validator gets to where it waits for the next sync.
ResyncsWithoutMiners == Connected = {} ~> pc = "idle"

\* The step loop implements Evolution.
Abstract == INSTANCE Evolution WITH evolving <- pc # "idle", pending <- Pending
EvolutionSpec == Abstract!Spec
===============================================================================
