---------------------------- MODULE WorkPool_proofs ----------------------------
(***************************************************************************)
(* WorkPool keeps its types and never cuts a chunk outside the row, for    *)
(* any number of miners, any weights, sizes and steps.                     *)
(***************************************************************************)
EXTENDS WorkPool, RowLayout_proofs, FiniteSetTheorems, SequenceTheorems

-------------------------------------------------------------------------------
\* Sequences, element by element.

LEMMA AppendElements ==
    ASSUME NEW S, NEW s \in Seq(S), NEW e \in S
    PROVE  /\ Append(s, e) \in Seq(S)
           /\ \A i \in DOMAIN Append(s, e) :
                 Append(s, e)[i] = e \/ (i \in DOMAIN s /\ Append(s, e)[i] = s[i])
BY AppendProperties, LenProperties

LEMMA HeadTailElements ==
    ASSUME NEW S, NEW s \in Seq(S), s # <<>>
    PROVE  /\ Head(s) \in S /\ 1 \in DOMAIN s /\ Head(s) = s[1]
           /\ Tail(s) \in Seq(S)
           /\ \A i \in DOMAIN Tail(s) : i + 1 \in DOMAIN s /\ Tail(s)[i] = s[i + 1]
<1>1. Len(s) \in Nat \ {0} /\ DOMAIN s = 1 .. Len(s)
  BY LenProperties, EmptySeq
<1>2. Head(s) \in S /\ Tail(s) \in Seq(S) /\ Len(Tail(s)) = Len(s) - 1
      /\ \A i \in 1 .. Len(Tail(s)) : Tail(s)[i] = s[i + 1]
  BY HeadTailProperties
<1>3. DOMAIN Tail(s) = 1 .. Len(Tail(s))
  BY <1>2, LenProperties
<1>4. Head(s) = s[1]
  OBVIOUS
<1> QED
  BY <1>1, <1>2, <1>3, <1>4

-------------------------------------------------------------------------------
\* Helpers of the model.

LEMMA UidFinite == IsFiniteSet(Uid) /\ Cardinality(Uid) = NeuronCount /\ 0 \in Uid
BY PoolAssumption, FS_Interval DEF Uid

LEMMA SubsetOfUid ==
    ASSUME NEW S \in SUBSET Uid
    PROVE  Cardinality(S) \in 0 .. NeuronCount
BY UidFinite, FS_Subset, FS_CardinalityType, PoolAssumption

\* The weights of a set of connections have a sum, which is not zero unless the
\* set is empty.
LEMMA WeightSumNat ==
    ASSUME NEW uids \in SUBSET Uid, weight \in [Uid -> 1 .. MaxWeight]
    PROVE  WeightSum(uids) \in Nat /\ (uids # {} => WeightSum(uids) > 0)
<1> DEFINE Units == {e \in Uid \X (1 .. MaxWeight) :
                        e[1] \in uids /\ e[2] <= weight[e[1]]}
<1>0. IsFiniteSet(1 .. MaxWeight)
  BY FS_Interval, PoolAssumption
<1>1. IsFiniteSet(Uid \X (1 .. MaxWeight))
  BY <1>0, UidFinite, FS_Product
<1>2. IsFiniteSet(Units) /\ Cardinality(Units) \in Nat
  BY <1>1, FS_Subset, FS_CardinalityType
<1>3. ASSUME uids # {}
      PROVE  Units # {}
  <2>1. PICK u \in uids : TRUE
    BY <1>3
  <2>2. <<u, 1>> \in Units
    BY <2>1, PoolAssumption
  <2> QED
    BY <2>2
<1>4. uids # {} => Cardinality(Units) # 0
  BY <1>2, <1>3, FS_EmptySet
<1> QED
  BY <1>2, <1>4 DEF WeightSum

LEMMA CarryType ==
    ASSUME NEW p \in Nat, p = 0 \/ p - 1 \in DOMAIN row, row \in [DOMAIN row -> Cell]
    PROVE  CarryBefore(row, p) \in Carry
BY DEF CarryBefore, Carry, Cell

LEMMA RestingType == Resting \in WorkerState
BY UidFinite DEF Resting, WorkerState, WorkerPc, NoRequest, NoCarry, Request,
                 Carry, Cell

LEMMA ByteCountGrows ==
    ASSUME NEW s \in Nat
    PROVE  ByteCount(s) <= ByteCount(s + 1)
BY DEF ByteCount, CeilDiv, ByteBits

\* Replacing the locals of one thread.
LEMMA StepKeepsType ==
    ASSUME NEW w \in Worker, NEW locals \in WorkerState,
           worker \in [Worker -> WorkerState], Step(w, locals)
    PROVE  /\ worker' \in [Worker -> WorkerState]
           /\ worker'[w] = locals
           /\ \A v \in Worker : v # w => worker'[v] = worker[v]
BY DEF Step

-------------------------------------------------------------------------------
\* The inductive invariant.

\* What dispatch relies on: chunks end inside the row, the divisor is not 0.
DispatchFit == pc = "dispatch" => position <= ByteCount(step) /\ weightSum > 0

\* A thread that awaits an answer wrote no more than its chunk and has read no
\* more than it wrote.
ReadFits(w) ==
    worker[w].pc = "read" =>
        /\ worker[w].read <= worker[w].written
        /\ worker[w].total + worker[w].written <= ChunkLen(w)

IInv == TypeOK /\ ChunksInRow /\ DispatchFit /\ \A w \in Worker : ReadFits(w)

LEMMA InitIInv == Init => IInv
<1> SUFFICES ASSUME Init PROVE IInv
  OBVIOUS
<1>1. threads \in 0 .. NeuronCount
  BY SubsetOfUid DEF Init, Connected
<1>2. TypeOK
  <2>1. step \in Nat /\ CurrentRowSize(InitStep) \in Nat
    BY PoolAssumption, RowLargeEnough DEF Init
  <2>2. DOMAIN row \subseteq Nat /\ row \in [DOMAIN row -> Cell]
    BY <2>1 DEF Init, Cell
  <2>3. /\ rest \in Seq(Uid) /\ queue \in Seq(Request)
        /\ available \in Seq(Uid) /\ completions \in Seq(Event)
    BY EmptySeq DEF Init
  <2>4. worker \in [Worker -> WorkerState]
    BY RestingType DEF Init
  <2>5. weight \in [Uid -> 1 .. MaxWeight] /\ score \in [Uid -> Nat]
    BY PoolAssumption DEF Init
  <2> QED
    BY <1>1, <2>1, <2>2, <2>3, <2>4, <2>5 DEF Init, TypeOK
<1>3. ChunksInRow
  BY DEF Init, ChunksInRow, RequestBytes, Resting, NoRequest
<1>4. DispatchFit /\ \A w \in Worker : ReadFits(w)
  BY DEF Init, DispatchFit, ReadFits, Resting
<1> QED
  BY <1>2, <1>3, <1>4 DEF IInv

-------------------------------------------------------------------------------
\* Main thread, dispatch.

LEMMA BeginStepIInv == IInv /\ BeginStep => IInv'
<1> SUFFICES ASSUME IInv, BeginStep PROVE IInv'
  OBVIOUS
<1> USE DEF IInv, BeginStep
<1>1. weightSum' \in Nat /\ weightSum' > 0
  BY WeightSumNat DEF TypeOK, Connected
<1>2. rest' \in Seq(Uid)
  <2>1. Cardinality(Connected) \in Nat
    BY SubsetOfUid, PoolAssumption DEF Connected
  <2>2. rest' \in [1 .. Cardinality(Connected) -> Uid]
    BY DEF WorkerConnections, Connected
  <2> QED
    BY <2>1, <2>2, SeqDef
<1>3. /\ DOMAIN row \subseteq DOMAIN row'
      /\ 0 .. ByteCount(step) - 1 \subseteq DOMAIN row'
      /\ DOMAIN row' \subseteq Nat
      /\ row' \in [DOMAIN row' -> Cell]
  BY RowLargeEnough, ByteCountNat DEF TypeOK, Cell
<1>4. TypeOK'
  BY <1>1, <1>2, <1>3 DEF TypeOK, neuronVars
<1>5. ChunksInRow'
  BY <1>3 DEF ChunksInRow, RequestBytes, EventBytes
<1>6. DispatchFit'
  BY <1>1, ByteCountNat DEF DispatchFit, TypeOK
<1>7. (\A w \in Worker : ReadFits(w))'
  BY DEF ReadFits, ChunkLen
<1> QED
  BY <1>4, <1>5, <1>6, <1>7

\* Rounding keeps the end of a chunk between its start and the end of the row.
LEMMA ChunkEndInside ==
    ASSUME IInv, pc = "dispatch", NEW w \in 1 .. MaxWeight
    PROVE  ChunkEnd(w) \in Nat /\ ChunkEnd(w) <= ByteCount(step)
<1> DEFINE chunk == CeilDiv(ByteCount(step) * w, weightSum)
           lines == CeilDiv(chunk, CacheLine) * CacheLine
<1>1. ByteCount(step) \in Nat /\ position \in Nat /\ position <= ByteCount(step)
      /\ weightSum \in Nat \ {0}
  BY ByteCountNat DEF IInv, TypeOK, DispatchFit
<1>2. ByteCount(step) * w \in Nat
  BY <1>1
<1>3. chunk \in Nat
  BY <1>1, <1>2, CeilDivNat
<1>4. CeilDiv(chunk, CacheLine) \in Nat
  BY <1>3, CeilDivNat, PoolAssumption
<1>5. lines \in Nat
  BY <1>4, PoolAssumption
<1> HIDE DEF lines
<1>6. ChunkEnd(w) = IF position + lines < ByteCount(step)
                    THEN position + lines ELSE ByteCount(step)
  BY DEF ChunkEnd, lines
<1> QED
  BY <1>1, <1>5, <1>6

\* A request cut from what the step evolves is well formed.
LEMMA NewRequestType ==
    ASSUME IInv, pc = "dispatch", NEW end \in Nat, end <= ByteCount(step)
    PROVE  /\ NewRequest(position, end) \in Request
           /\ RequestBytes(NewRequest(position, end)) \subseteq DOMAIN row
<1>1. position \in Nat /\ position <= ByteCount(step)
      /\ 0 .. ByteCount(step) - 1 \subseteq DOMAIN row
      /\ ByteCount(step) \in Nat
  BY ByteCountNat DEF IInv, TypeOK, DispatchFit, ChunksInRow
<1>2. position = 0 \/ position - 1 \in DOMAIN row
  BY <1>1
<1>3. row \in [DOMAIN row -> Cell]
  BY DEF IInv, TypeOK
<1>4. CarryBefore(row, position) \in Carry
  BY <1>1, <1>2, <1>3, CarryType
<1> QED
  BY <1>1, <1>4 DEF NewRequest, Request, RequestBytes

LEMMA DispatchChunkIInv == IInv /\ DispatchChunk => IInv'
<1> SUFFICES ASSUME IInv, DispatchChunk PROVE IInv'
  OBVIOUS
<1> DEFINE end == ChunkEnd(weight[Head(rest)])
<1>1. Head(rest) \in Uid /\ Tail(rest) \in Seq(Uid)
  BY HeadTailElements DEF IInv, TypeOK, DispatchChunk
<1>2. end \in Nat /\ end <= ByteCount(step)
  BY <1>1, ChunkEndInside DEF DispatchChunk, IInv, TypeOK
<1> HIDE DEF end
<1>3. /\ queue' = Append(queue, NewRequest(position, end)) /\ position' = end
      /\ available' = Append(available, Head(rest)) /\ rest' = Tail(rest)
  BY DEF DispatchChunk, end
<1>4. /\ NewRequest(position, end) \in Request
      /\ RequestBytes(NewRequest(position, end)) \subseteq DOMAIN row
  BY <1>2, NewRequestType DEF DispatchChunk
<1>5. /\ queue' \in Seq(Request)
      /\ \A i \in DOMAIN queue' : RequestBytes(queue'[i]) \subseteq DOMAIN row
  BY <1>3, <1>4, AppendElements DEF IInv, TypeOK, ChunksInRow
<1>6. available' \in Seq(Uid)
  BY <1>1, <1>3, AppendElements DEF IInv, TypeOK
<1>7. TypeOK'
  BY <1>1, <1>2, <1>3, <1>5, <1>6 DEF IInv, TypeOK, DispatchChunk, neuronVars
<1>8. ChunksInRow'
  BY <1>5 DEF IInv, ChunksInRow, DispatchChunk, RequestBytes, EventBytes
<1>9. DispatchFit' /\ (\A w \in Worker : ReadFits(w))'
  BY <1>2, <1>3 DEF IInv, DispatchFit, DispatchChunk, ReadFits, ChunkLen
<1> QED
  BY <1>7, <1>8, <1>9 DEF IInv

LEMMA FinishDispatchIInv == IInv /\ FinishDispatch => IInv'
<1> SUFFICES ASSUME IInv, FinishDispatch PROVE IInv'
  OBVIOUS
<1>1. available' \in Seq(Uid)
  BY ConcatProperties DEF IInv, TypeOK, FinishDispatch
<1>2. ByteCount(step) \in Nat
  BY ByteCountNat DEF IInv, TypeOK
<1>3. /\ NewRequest(position, ByteCount(step)) \in Request
      /\ RequestBytes(NewRequest(position, ByteCount(step))) \subseteq DOMAIN row
  BY <1>2, NewRequestType DEF FinishDispatch
<1>4. /\ queue' \in Seq(Request)
      /\ \A i \in DOMAIN queue' : RequestBytes(queue'[i]) \subseteq DOMAIN row
  <2>1. CASE position = ByteCount(step)
    BY <2>1 DEF IInv, TypeOK, ChunksInRow, FinishDispatch
  <2>2. CASE position # ByteCount(step)
    BY <2>2, <1>3, AppendElements DEF IInv, TypeOK, ChunksInRow, FinishDispatch
  <2> QED
    BY <2>1, <2>2
<1>5. rest' \in Seq(Uid)
  BY EmptySeq DEF FinishDispatch
<1>6. TypeOK'
  BY <1>1, <1>2, <1>4, <1>5 DEF IInv, TypeOK, FinishDispatch, neuronVars
<1>7. ChunksInRow'
  BY <1>4 DEF IInv, ChunksInRow, FinishDispatch, RequestBytes, EventBytes
<1>8. DispatchFit' /\ (\A w \in Worker : ReadFits(w))'
  BY DEF IInv, DispatchFit, FinishDispatch, ReadFits, ChunkLen
<1> QED
  BY <1>6, <1>7, <1>8 DEF IInv

-------------------------------------------------------------------------------
\* Worker threads.

\* A thread changes its locals to some that fit the row.
LEMMA LocalsIInv ==
    ASSUME IInv, NEW w \in Worker, NEW locals \in WorkerState, Step(w, locals),
           RequestBytes(locals.request) \subseteq DOMAIN row,
           locals.pc = "read" =>
               /\ locals.read <= locals.written
               /\ locals.total + locals.written
                     <= locals.request.end - locals.request.start
    PROVE  /\ worker' \in [Worker -> WorkerState]
           /\ \A v \in Worker :
                 RequestBytes(worker'[v].request) \subseteq DOMAIN row
           /\ \A v \in Worker : ReadFits(v)'
<1>1. /\ worker' \in [Worker -> WorkerState] /\ worker'[w] = locals
      /\ \A v \in Worker : v # w => worker'[v] = worker[v]
  BY StepKeepsType DEF IInv, TypeOK
<1>2. \A v \in Worker : RequestBytes(worker'[v].request) \subseteq DOMAIN row
  BY <1>1 DEF IInv, ChunksInRow
<1>3. \A v \in Worker : ReadFits(v)'
  BY <1>1 DEF IInv, ReadFits, ChunkLen
<1> QED
  BY <1>1, <1>2, <1>3

\* A thread reports what it did and rests.
LEMMA ReportIInv ==
    ASSUME IInv, NEW w \in Worker, NEW kind \in {"completed", "failed", "cheated"},
           NEW processed \in Nat, NEW remaining \in Request,
           remaining.start - processed .. remaining.end - 1 \subseteq DOMAIN row,
           Report(w, kind, processed, remaining)
    PROVE  /\ completions' \in Seq(Event)
           /\ \A i \in DOMAIN completions' :
                 EventBytes(completions'[i]) \subseteq DOMAIN row
           /\ worker' \in [Worker -> WorkerState]
           /\ \A v \in Worker :
                 RequestBytes(worker'[v].request) \subseteq DOMAIN row
           /\ \A v \in Worker : ReadFits(v)'
<1> DEFINE event == [uid |-> worker[w].uid, kind |-> kind,
                     processed |-> processed, request |-> remaining]
<1>1. event \in Event /\ EventBytes(event) \subseteq DOMAIN row
  BY DEF IInv, TypeOK, WorkerState, Event, EventBytes
<1> HIDE DEF event
<1>2. completions' = Append(completions, event) /\ Step(w, Resting)
  BY DEF Report, event
<1>3. completions \in Seq(Event)
      /\ \A i \in DOMAIN completions :
            EventBytes(completions[i]) \subseteq DOMAIN row
  BY DEF IInv, TypeOK, ChunksInRow
<1>4. completions' \in Seq(Event)
      /\ \A i \in DOMAIN completions' :
            EventBytes(completions'[i]) \subseteq DOMAIN row
  BY <1>1, <1>2, <1>3, AppendElements
<1>5. RequestBytes(Resting.request) \subseteq DOMAIN row /\ Resting.pc # "read"
  BY DEF RequestBytes, Resting, NoRequest
<1> QED
  BY <1>2, <1>4, <1>5, LocalsIInv, RestingType

\* What is left of a request after some of its bytes.
LEMMA RemainingType ==
    ASSUME IInv, NEW w \in Worker, NEW total \in Nat, NEW last \in Carry
    PROVE  /\ Remaining(w, total, last) \in Request
           /\ Remaining(w, total, last).start - total
                 .. Remaining(w, total, last).end - 1 \subseteq DOMAIN row
<1>1. worker[w].request \in Request
      /\ RequestBytes(worker[w].request) \subseteq DOMAIN row
  BY DEF IInv, TypeOK, WorkerState, ChunksInRow
<1> QED
  BY <1>1 DEF Remaining, Request, RequestBytes

LEMMA ReceiveRequestIInv ==
    ASSUME IInv, NEW w \in Worker, ReceiveRequest(w)
    PROVE  IInv'
<1>1. /\ Head(queue) \in Request /\ Tail(queue) \in Seq(Request)
      /\ RequestBytes(Head(queue)) \subseteq DOMAIN row
      /\ \A i \in DOMAIN Tail(queue) :
            RequestBytes(Tail(queue)[i]) \subseteq DOMAIN row
  BY HeadTailElements DEF IInv, TypeOK, ChunksInRow, ReceiveRequest
<1> DEFINE locals == [worker[w] EXCEPT !.pc = "recv_worker", !.request = Head(queue)]
<1>2. /\ locals \in WorkerState /\ locals.pc # "read"
      /\ RequestBytes(locals.request) \subseteq DOMAIN row
  BY <1>1 DEF IInv, TypeOK, WorkerState, WorkerPc
<1>3. Step(w, locals)
  BY DEF ReceiveRequest
<1> HIDE DEF locals
<1>4. /\ worker' \in [Worker -> WorkerState]
      /\ \A v \in Worker : RequestBytes(worker'[v].request) \subseteq DOMAIN row
      /\ \A v \in Worker : ReadFits(v)'
  BY <1>2, <1>3, LocalsIInv
<1>5. TypeOK'
  BY <1>1, <1>4 DEF IInv, TypeOK, ReceiveRequest, stepVars, neuronVars
<1>6. ChunksInRow'
  BY <1>1, <1>4 DEF IInv, ChunksInRow, ReceiveRequest, stepVars, RequestBytes,
                    EventBytes
<1> QED
  BY <1>4, <1>5, <1>6 DEF IInv, DispatchFit, ReceiveRequest, stepVars

LEMMA ReceiveWorkerIInv ==
    ASSUME IInv, NEW w \in Worker, ReceiveWorker(w)
    PROVE  IInv'
<1>1. Head(available) \in Uid /\ Tail(available) \in Seq(Uid)
  BY HeadTailElements DEF IInv, TypeOK, ReceiveWorker
<1> DEFINE locals == [worker[w] EXCEPT !.pc = "header", !.uid = Head(available),
                                       !.last = worker[w].request.last]
<1>2. /\ locals \in WorkerState /\ locals.pc # "read"
      /\ RequestBytes(locals.request) \subseteq DOMAIN row
  BY <1>1 DEF IInv, TypeOK, ChunksInRow, WorkerState, WorkerPc, Request
<1>3. Step(w, locals)
  BY DEF ReceiveWorker
<1> HIDE DEF locals
<1>4. /\ worker' \in [Worker -> WorkerState]
      /\ \A v \in Worker : RequestBytes(worker'[v].request) \subseteq DOMAIN row
      /\ \A v \in Worker : ReadFits(v)'
  BY <1>2, <1>3, LocalsIInv
<1>5. TypeOK'
  BY <1>1, <1>4 DEF IInv, TypeOK, ReceiveWorker, stepVars, neuronVars
<1>6. ChunksInRow'
  BY <1>4 DEF IInv, ChunksInRow, ReceiveWorker, stepVars, RequestBytes, EventBytes
<1> QED
  BY <1>4, <1>5, <1>6 DEF IInv, DispatchFit, ReceiveWorker, stepVars

LEMMA WriteHeaderIInv ==
    ASSUME IInv, NEW w \in Worker, WriteHeader(w)
    PROVE  IInv'
<1> DEFINE locals == [worker[w] EXCEPT !.pc = "write"]
<1>1. /\ locals \in WorkerState /\ locals.pc # "read"
      /\ RequestBytes(locals.request) \subseteq DOMAIN row
  BY DEF IInv, TypeOK, ChunksInRow, WorkerState, WorkerPc
<1>2. Step(w, locals)
  BY DEF WriteHeader
<1> HIDE DEF locals
<1>3. /\ worker' \in [Worker -> WorkerState]
      /\ \A v \in Worker : RequestBytes(worker'[v].request) \subseteq DOMAIN row
      /\ \A v \in Worker : ReadFits(v)'
  BY <1>1, <1>2, LocalsIInv
<1>4. TypeOK'
  BY <1>3 DEF IInv, TypeOK, WriteHeader, stepVars, neuronVars
<1>5. ChunksInRow'
  BY <1>3 DEF IInv, ChunksInRow, WriteHeader, stepVars, RequestBytes, EventBytes
<1> QED
  BY <1>3, <1>4, <1>5 DEF IInv, DispatchFit, WriteHeader, stepVars

\* Any report that leaves the row as it is: the ways of handle_connection to
\* end before the last byte of the chunk.
LEMMA EarlyReportIInv ==
    ASSUME IInv, NEW w \in Worker, NEW kind \in {"completed", "failed", "cheated"},
           NEW processed \in Nat, NEW remaining \in Request,
           remaining.start - processed .. remaining.end - 1 \subseteq DOMAIN row,
           Report(w, kind, processed, remaining),
           UNCHANGED <<stepVars, neuronVars, queue, available, threads>>
    PROVE  IInv'
<1>1. /\ completions' \in Seq(Event)
      /\ \A i \in DOMAIN completions' :
            EventBytes(completions'[i]) \subseteq DOMAIN row
      /\ worker' \in [Worker -> WorkerState]
      /\ \A v \in Worker : RequestBytes(worker'[v].request) \subseteq DOMAIN row
      /\ \A v \in Worker : ReadFits(v)'
  BY ReportIInv
<1>2. TypeOK'
  BY <1>1 DEF IInv, TypeOK, stepVars, neuronVars
<1>3. ChunksInRow'
  BY <1>1 DEF IInv, ChunksInRow, stepVars, RequestBytes, EventBytes
<1> QED
  BY <1>1, <1>2, <1>3 DEF IInv, DispatchFit, stepVars

\* The request of a thread is one it may hand back as a whole.
LEMMA WholeRequest ==
    ASSUME IInv, NEW w \in Worker
    PROVE  /\ worker[w].request \in Request
           /\ worker[w].request.start - 0 .. worker[w].request.end - 1
                 \subseteq DOMAIN row
BY DEF IInv, TypeOK, WorkerState, Request, ChunksInRow, RequestBytes

LEMMA FailureIInv ==
    ASSUME IInv, NEW w \in Worker,
           \/ WriteHeaderFails(w) \/ WriteFails(w)
           \/ ReadFails(w) \/ ReadRefuted(w)
    PROVE  IInv'
<1>1. /\ worker[w].total \in Nat /\ worker[w].read \in Nat
      /\ worker[w].last \in Carry /\ worker[w].lastByte \in Carry
  BY DEF IInv, TypeOK, WorkerState
<1>2. CASE WriteHeaderFails(w)
  BY <1>2, WholeRequest, EarlyReportIInv DEF WriteHeaderFails
<1>3. CASE WriteFails(w)
  BY <1>1, <1>3, RemainingType, EarlyReportIInv DEF WriteFails
<1>4. CASE ReadFails(w)
  BY <1>1, <1>4, RemainingType, EarlyReportIInv DEF ReadFails
<1>5. CASE ReadRefuted(w)
  BY <1>5, WholeRequest, EarlyReportIInv DEF ReadRefuted
<1> QED
  BY <1>2, <1>3, <1>4, <1>5

\* A write never takes more than is left of the chunk.
LEMMA WriteIInv ==
    ASSUME IInv, NEW w \in Worker, NEW written \in 1 .. Window(w), Write(w, written)
    PROVE  IInv'
<1> DEFINE r == worker[w].request
           at == r.start + worker[w].total + written
           locals == [worker[w] EXCEPT !.pc = "read", !.written = written,
                                       !.lastByte = CarryBefore(row, at),
                                       !.read = 0, !.readLast = worker[w].last]
<1>1. /\ r.start \in Nat /\ r.end \in Nat /\ worker[w].total \in Nat
      /\ worker[w].last \in Carry /\ r.start .. r.end - 1 \subseteq DOMAIN row
      /\ row \in [DOMAIN row -> Cell]
  BY DEF IInv, TypeOK, ChunksInRow, WorkerState, Request, RequestBytes
<1>2. written \in Nat \ {0} /\ worker[w].total + written <= r.end - r.start
  <2>1. (worker[w].total \div BufferSize + 1) * BufferSize \in Int
    BY <1>1, PoolAssumption
  <2> QED
    BY <1>1, <2>1 DEF Window, ChunkLen
<1>3. at \in Nat /\ at - 1 \in DOMAIN row
  BY <1>1, <1>2
<1>4. CarryBefore(row, at) \in Carry
  BY <1>1, <1>3, CarryType
<1>11. worker[w] \in WorkerState
  BY DEF IInv, TypeOK
<1> HIDE DEF at
<1>5. /\ locals \in WorkerState /\ locals.request = r
      /\ locals.read <= locals.written
      /\ locals.total + locals.written <= locals.request.end - locals.request.start
  <2>1. worker[w].total \in Nat /\ written \in Nat /\ 0 \in Nat /\ "read" \in WorkerPc
    BY <1>1, <1>2 DEF WorkerPc
  <2>2. locals \in WorkerState
    BY <1>1, <1>4, <1>11, <2>1 DEF WorkerState
  <2>3. /\ locals.request = r /\ locals.read = 0 /\ locals.written = written
        /\ locals.total = worker[w].total
    BY <1>11 DEF WorkerState
  <2> QED
    BY <1>1, <1>2, <2>1, <2>2, <2>3
<1>6. Step(w, locals)
  BY DEF Write, at
<1>7. RequestBytes(locals.request) \subseteq DOMAIN row
  BY <1>5 DEF IInv, ChunksInRow
<1> HIDE DEF locals
<1>8. /\ worker' \in [Worker -> WorkerState]
      /\ \A v \in Worker : RequestBytes(worker'[v].request) \subseteq DOMAIN row
      /\ \A v \in Worker : ReadFits(v)'
  BY <1>5, <1>6, <1>7, LocalsIInv
<1>9. TypeOK'
  BY <1>8 DEF IInv, TypeOK, Write, stepVars, neuronVars
<1>10. ChunksInRow'
  BY <1>8 DEF IInv, ChunksInRow, Write, stepVars, RequestBytes, EventBytes
<1> QED
  BY <1>8, <1>9, <1>10 DEF IInv, DispatchFit, Write, stepVars

\* An answer overwrites bytes of the chunk and changes no size.
LEMMA ReadIInv ==
    ASSUME IInv, NEW w \in Worker,
           NEW len \in 1 .. worker[w].written - worker[w].read,
           NEW wrong, Read(w, len, wrong)
    PROVE  IInv'
<1> DEFINE r == worker[w].request
           read == worker[w].read + len
           total == worker[w].total + read
<1>1. /\ r.start \in Nat /\ r.end \in Nat /\ worker[w].total \in Nat
      /\ worker[w].read \in Nat /\ worker[w].written \in Nat
      /\ worker[w].lastByte \in Carry /\ r.start .. r.end - 1 \subseteq DOMAIN row
      /\ row \in [DOMAIN row -> Cell] /\ worker[w] \in WorkerState
  BY DEF IInv, TypeOK, ChunksInRow, WorkerState, Request, RequestBytes
<1>2. /\ worker[w].read <= worker[w].written
      /\ worker[w].total + worker[w].written <= r.end - r.start
  BY DEF IInv, ReadFits, ChunkLen, Read
<1>3. len \in Nat \ {0} /\ read <= worker[w].written /\ read \in Nat /\ total \in Nat
  BY <1>1, <1>2
<1>4. DOMAIN row' = DOMAIN row /\ row' \in [DOMAIN row -> Cell]
  BY <1>1 DEF Read, Cell, Evolve
<1>5. CarryBefore(row, ReadAt(w) + len) \in Carry
  <2> DEFINE next == ReadAt(w) + len
  <2>1. next \in Nat /\ next - 1 \in DOMAIN row
    BY <1>1, <1>2, <1>3 DEF ReadAt
  <2> HIDE DEF next
  <2>2. CarryBefore(row, next) \in Carry
    BY <1>1, <2>1, CarryType
  <2> QED
    BY <2>2 DEF next
<1>6. /\ worker' \in [Worker -> WorkerState]
      /\ \A v \in Worker : RequestBytes(worker'[v].request) \subseteq DOMAIN row
      /\ \A v \in Worker : ReadFits(v)'
      /\ completions' \in Seq(Event)
      /\ \A i \in DOMAIN completions' :
            EventBytes(completions'[i]) \subseteq DOMAIN row
  <2>0. /\ completions \in Seq(Event)
        /\ \A i \in DOMAIN completions :
              EventBytes(completions[i]) \subseteq DOMAIN row
        /\ RequestBytes(r) \subseteq DOMAIN row
    BY DEF IInv, TypeOK, ChunksInRow
  <2> DEFINE more == [worker[w] EXCEPT
                         !.read = read,
                         !.readLast = CarryBefore(row, ReadAt(w) + len)]
             next == [worker[w] EXCEPT !.pc = "write", !.total = total,
                                       !.last = worker[w].lastByte]
  <2>1. CASE read < worker[w].written /\ Step(w, more) /\ UNCHANGED completions
    <3>1. /\ more \in WorkerState /\ more.request = r
          /\ more.read <= more.written
          /\ more.total + more.written <= more.request.end - more.request.start
      BY <1>1, <1>2, <1>3, <1>5, <2>1 DEF WorkerState
    <3> HIDE DEF more
    <3> QED
      BY <2>0, <2>1, <3>1, LocalsIInv
  <2>2. CASE Step(w, next) /\ UNCHANGED completions
    <3>1. next \in WorkerState /\ next.request = r /\ next.pc # "read"
      BY <1>1, <1>3 DEF WorkerState, WorkerPc
    <3> HIDE DEF next
    <3> QED
      BY <2>0, <2>2, <3>1, LocalsIInv
  <2>3. CASE Report(w, "completed", total, Remaining(w, total, worker[w].lastByte))
    BY <1>1, <1>3, <2>3, RemainingType, ReportIInv
  <2> QED
    BY <2>1, <2>2, <2>3 DEF Read, AfterRead
<1>7. TypeOK'
  BY <1>4, <1>6 DEF IInv, TypeOK, Read, neuronVars
<1>8. ChunksInRow'
  BY <1>4, <1>6 DEF IInv, ChunksInRow, Read, RequestBytes, EventBytes
<1> QED
  BY <1>6, <1>7, <1>8 DEF IInv, DispatchFit, Read

-------------------------------------------------------------------------------
\* Main thread, collection, and the steps between two rows.

\* The event taken from the completion channel.
LEMMA NextEvent ==
    ASSUME IInv, NEW kind \in {"completed", "failed", "cheated"}, Collecting(kind)
    PROVE  /\ Head(completions) \in Event
           /\ RequestBytes(Head(completions).request) \subseteq DOMAIN row
           /\ completions' \in Seq(Event)
           /\ \A i \in DOMAIN completions' :
                 EventBytes(completions'[i]) \subseteq DOMAIN row
<1>1. /\ completions \in Seq(Event) /\ completions # <<>>
      /\ completions' = Tail(completions)
      /\ \A i \in DOMAIN completions :
            EventBytes(completions[i]) \subseteq DOMAIN row
  BY DEF IInv, TypeOK, ChunksInRow, Collecting
<1>2. /\ Head(completions) \in Event
      /\ EventBytes(Head(completions)) \subseteq DOMAIN row
      /\ completions' \in Seq(Event)
      /\ \A i \in DOMAIN completions' :
            EventBytes(completions'[i]) \subseteq DOMAIN row
  BY <1>1, HeadTailElements
<1>3. RequestBytes(Head(completions).request) \subseteq EventBytes(Head(completions))
  BY <1>2 DEF Event, Request, RequestBytes, EventBytes
<1> QED
  BY <1>2, <1>3

LEMMA CreditType ==
    ASSUME IInv, NEW e \in Event, Credit(e)
    PROVE  dataProcessed' \in Nat /\ score' \in [Uid -> Nat] /\ timed' \subseteq Uid
<1>1. /\ e.uid \in Uid /\ e.processed \in Nat /\ dataProcessed \in Nat
      /\ score \in [Uid -> Nat] /\ timed \subseteq Uid
  BY DEF IInv, TypeOK, Event
<1>2. dataProcessed + e.processed \in Nat /\ score[e.uid] + e.processed \in Nat
  BY <1>1
<1>3. score' \in [Uid -> Nat]
  BY <1>1, <1>2 DEF Credit
<1> QED
  BY <1>1, <1>2, <1>3 DEF Credit

LEMMA CollectIInv ==
    ASSUME IInv, CollectCompleted \/ CollectFailed \/ CollectCheated
    PROVE  IInv'
<1> DEFINE e == Head(completions)
<1>1. CASE CollectCompleted
  <2>1. /\ e \in Event /\ completions' \in Seq(Event)
        /\ \A i \in DOMAIN completions' :
              EventBytes(completions'[i]) \subseteq DOMAIN row
    BY <1>1, NextEvent DEF CollectCompleted
  <2>2. dataProcessed' \in Nat /\ score' \in [Uid -> Nat] /\ timed' \subseteq Uid
    BY <1>1, <2>1, CreditType DEF CollectCompleted
  <2>3. available' \in Seq(Uid)
    <3>1. e.uid \in Uid
      BY <2>1 DEF Event
    <3> QED
      BY <1>1, <3>1, AppendElements DEF CollectCompleted, IInv, TypeOK
  <2>4. TypeOK'
    BY <1>1, <2>1, <2>2, <2>3 DEF IInv, TypeOK, CollectCompleted
  <2>5. ChunksInRow'
    BY <1>1, <2>1 DEF IInv, ChunksInRow, CollectCompleted, RequestBytes, EventBytes
  <2> QED
    BY <1>1, <2>4, <2>5 DEF IInv, CollectCompleted, DispatchFit, ReadFits, ChunkLen
<1>2. CASE CollectFailed
  <2>1. /\ e \in Event /\ completions' \in Seq(Event)
        /\ RequestBytes(e.request) \subseteq DOMAIN row
        /\ \A i \in DOMAIN completions' :
              EventBytes(completions'[i]) \subseteq DOMAIN row
    BY <1>2, NextEvent DEF CollectFailed
  <2>2. dataProcessed' \in Nat /\ score' \in [Uid -> Nat] /\ timed' \subseteq Uid
    BY <1>2, <2>1, CreditType DEF CollectFailed
  <2>3. /\ queue' \in Seq(Request)
        /\ \A i \in DOMAIN queue' : RequestBytes(queue'[i]) \subseteq DOMAIN row
    <3>1. e.request \in Request
      BY <2>1 DEF Event
    <3>2. queue' = Append(queue, e.request)
      BY <1>2 DEF CollectFailed
    <3> HIDE DEF e
    <3> QED
      BY <2>1, <3>1, <3>2, AppendElements DEF IInv, TypeOK, ChunksInRow
  <2>4. TypeOK'
    BY <1>2, <2>1, <2>2, <2>3 DEF IInv, TypeOK, CollectFailed
  <2>5. ChunksInRow'
    BY <1>2, <2>1, <2>3 DEF IInv, ChunksInRow, CollectFailed, RequestBytes, EventBytes
  <2> QED
    BY <1>2, <2>4, <2>5 DEF IInv, CollectFailed, DispatchFit, ReadFits, ChunkLen
<1>3. CASE CollectCheated
  <2>1. /\ e \in Event /\ completions' \in Seq(Event)
        /\ RequestBytes(e.request) \subseteq DOMAIN row
        /\ \A i \in DOMAIN completions' :
              EventBytes(completions'[i]) \subseteq DOMAIN row
    BY <1>3, NextEvent DEF CollectCheated
  <2>2. e.uid \in Uid /\ e.request \in Request
    BY <2>1 DEF Event
  <2>3. /\ queue' \in Seq(Request)
        /\ \A i \in DOMAIN queue' : RequestBytes(queue'[i]) \subseteq DOMAIN row
    <3>1. queue' = Append(queue, e.request)
      BY <1>3 DEF CollectCheated
    <3> HIDE DEF e
    <3> QED
      BY <2>1, <2>2, <3>1, AppendElements DEF IInv, TypeOK, ChunksInRow
  <2>4. TypeOK'
    BY <1>3, <2>1, <2>2, <2>3 DEF IInv, TypeOK, CollectCheated, stepVars
  <2>5. ChunksInRow'
    BY <1>3, <2>1, <2>3 DEF IInv, ChunksInRow, CollectCheated, stepVars,
                            RequestBytes, EventBytes
  <2> QED
    BY <1>3, <2>4, <2>5 DEF IInv, CollectCheated, stepVars, DispatchFit, ReadFits,
                            ChunkLen
<1> QED
  BY <1>1, <1>2, <1>3

LEMMA FinishStepIInv == IInv /\ FinishStep => IInv'
<1> SUFFICES ASSUME IInv, FinishStep PROVE IInv'
  OBVIOUS
<1>1. DOMAIN row' = DOMAIN row /\ row' \in [DOMAIN row -> Cell]
  BY DEF IInv, TypeOK, FinishStep, Cell
<1>2. weight' \in [Uid -> 1 .. MaxWeight]
  BY DEF IInv, TypeOK, FinishStep, MeasuredWeights
<1>3. step' \in Nat /\ column' \subseteq Nat
  BY DEF IInv, TypeOK, FinishStep
<1>4. available' \in Seq(Uid)
  BY EmptySeq DEF FinishStep
<1>5. TypeOK'
  BY <1>1, <1>2, <1>3, <1>4 DEF IInv, TypeOK, FinishStep
<1>6. ChunksInRow'
  BY <1>1 DEF IInv, ChunksInRow, FinishStep, RequestBytes, EventBytes
<1> QED
  BY <1>5, <1>6 DEF IInv, FinishStep, DispatchFit, ReadFits, ChunkLen

LEMMA ResyncIInv ==
    ASSUME IInv, NEW newHotkey \in SUBSET Uid, NEW newAxon \in SUBSET Uid,
           NEW reach \in SUBSET Uid, Resync(newHotkey, newAxon, reach)
    PROVE  IInv'
<1>1. conn' \in [Uid -> BOOLEAN]
  <2> DEFINE dialled == newHotkey \cup {u \in Uid : ~conn[u]} \cup newAxon
             after(u) == IF u \in dialled THEN u \in reach \ Barred(newHotkey)
                         ELSE conn[u]
  <2>1. conn' = [u \in Uid |-> after(u)]
    BY DEF Resync
  <2>2. \A u \in Uid : conn[u] \in BOOLEAN
    BY DEF IInv, TypeOK
  <2>3. \A u \in Uid : after(u) \in BOOLEAN
    <3> TAKE u \in Uid
    <3>1. CASE u \in dialled /\ u \in reach \ Barred(newHotkey)
      <4>1. after(u) = TRUE
        BY <3>1
      <4> QED
        BY <4>1
    <3>2. CASE u \in dialled /\ u \notin reach \ Barred(newHotkey)
      <4>1. after(u) = FALSE
        BY <3>2
      <4> QED
        BY <4>1
    <3>3. CASE u \notin dialled
      BY <2>2, <3>3
    <3> QED
      BY <3>1, <3>2, <3>3
  <2> HIDE DEF after
  <2> QED
    BY <2>1, <2>3
<1>2. Cardinality({u \in Uid : conn'[u]}) \in 0 .. NeuronCount
  BY SubsetOfUid
<1>3. threads' \in 0 .. NeuronCount
  BY <1>2 DEF IInv, TypeOK, Resync
<1>4. /\ weight' \in [Uid -> 1 .. MaxWeight] /\ score' \in [Uid -> Nat]
      /\ cheater' \subseteq Uid
  BY PoolAssumption DEF IInv, TypeOK, Resync
<1>5. TypeOK'
  BY <1>1, <1>3, <1>4 DEF IInv, TypeOK, Resync, stepVars
<1>6. ChunksInRow'
  BY DEF IInv, ChunksInRow, Resync, stepVars, RequestBytes, EventBytes
<1> QED
  BY <1>5, <1>6 DEF IInv, Resync, stepVars, DispatchFit, ReadFits, ChunkLen

-------------------------------------------------------------------------------

LEMMA NextIInv == IInv /\ [Next]_vars => IInv'
<1> SUFFICES ASSUME IInv, [Next]_vars PROVE IInv'
  OBVIOUS
<1>1. CASE Main
  BY <1>1, BeginStepIInv, DispatchChunkIInv, FinishDispatchIInv, CollectIInv,
     FinishStepIInv DEF Main
<1>2. ASSUME NEW w \in Worker, Work(w)
      PROVE  IInv'
  BY <1>2, ReceiveRequestIInv, ReceiveWorkerIInv, WriteHeaderIInv, WriteIInv,
     ReadIInv, FailureIInv DEF Work
<1>3. CASE Sync
  BY <1>3, ResyncIInv DEF Sync
<1>4. CASE UNCHANGED vars
  <2>1. TypeOK'
    BY <1>4 DEF IInv, TypeOK, vars, stepVars, neuronVars
  <2>2. ChunksInRow'
    BY <1>4 DEF IInv, ChunksInRow, vars, stepVars, RequestBytes, EventBytes
  <2> QED
    BY <1>4, <2>1, <2>2 DEF IInv, vars, stepVars, DispatchFit, ReadFits, ChunkLen
<1> QED
  BY <1>1, <1>2, <1>3, <1>4 DEF Next

LEMMA SpecIInv == Spec => []IInv
BY InitIInv, NextIInv, PTL DEF Spec

\* Whatever the miners, the threads and sync do, the state keeps its types.
THEOREM TypeCorrect == Spec => []TypeOK
<1>1. IInv => TypeOK
  BY DEF IInv
<1> QED
  BY <1>1, SpecIInv, PTL

\* No thread ever slices the row out of its bounds: do_work does not panic on
\* any request of do_step, of a failure or of a refuted answer.
THEOREM SlicesInBounds == Spec => []ChunksInRow
<1>1. IInv => ChunksInRow
  BY DEF IInv
<1> QED
  BY <1>1, SpecIInv, PTL
===============================================================================
