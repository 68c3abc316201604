--------------------------- MODULE WorkPoolAccounts_proofs ---------------------------
(***************************************************************************)
(* No byte of a step is lost, doubled, skipped or paid for twice in        *)
(* WorkPool, no stream is shared, and the row is right where it can be.    *)
(***************************************************************************)
EXTENDS WorkPool_proofs

-------------------------------------------------------------------------------
\* Sequences, place by place.

\* An append adds one place, and leaves the others.
LEMMA AppendPlaces ==
    ASSUME NEW S, NEW s \in Seq(S), NEW e \in S
    PROVE  /\ Len(s) + 1 \notin DOMAIN s
           /\ DOMAIN Append(s, e) = DOMAIN s \cup {Len(s) + 1}
           /\ Append(s, e)[Len(s) + 1] = e
           /\ \A i \in DOMAIN s : Append(s, e)[i] = s[i]
BY AppendProperties, LenProperties

\* A tail is the sequence without its first place.
LEMMA TailPlaces ==
    ASSUME NEW S, NEW s \in Seq(S), s # <<>>
    PROVE  /\ 1 \in DOMAIN s /\ Head(s) = s[1]
           /\ \A i \in DOMAIN Tail(s) :
                 i \in Nat /\ i + 1 \in DOMAIN s /\ i + 1 # 1 /\ Tail(s)[i] = s[i + 1]
           /\ \A i \in DOMAIN s : i \in Int /\ (i # 1 => i - 1 \in DOMAIN Tail(s))
<1>1. Len(s) \in Nat \ {0} /\ DOMAIN s = 1 .. Len(s)
  BY LenProperties, EmptySeq
<1>2. Tail(s) \in Seq(S) /\ Len(Tail(s)) = Len(s) - 1
      /\ \A i \in 1 .. Len(Tail(s)) : Tail(s)[i] = s[i + 1]
  BY HeadTailProperties
<1>3. DOMAIN Tail(s) = 1 .. Len(Tail(s))
  BY <1>2, LenProperties
<1>4. Head(s) = s[1]
  OBVIOUS
<1> QED
  BY <1>1, <1>2, <1>3, <1>4

-------------------------------------------------------------------------------
\* Disjoint sets of bytes.

Apart(A, B) == \A p \in A : p \notin B

\* Families of sets of bytes: those of queued requests (q), threads (t), events (e)
\* and what is not dispatched (u).
Separate(q, t, e, u) ==
    /\ \A i, j \in DOMAIN q : i # j => Apart(q[i], q[j])
    /\ \A i, j \in DOMAIN t : i # j => Apart(t[i], t[j])
    /\ \A i, j \in DOMAIN e : i # j => Apart(e[i], e[j])
    /\ \A i \in DOMAIN q, j \in DOMAIN t : Apart(q[i], t[j])
    /\ \A i \in DOMAIN q, j \in DOMAIN e : Apart(q[i], e[j])
    /\ \A i \in DOMAIN t, j \in DOMAIN e : Apart(t[i], e[j])
    /\ \A i \in DOMAIN q : Apart(q[i], u)
    /\ \A i \in DOMAIN t : Apart(t[i], u)
    /\ \A i \in DOMAIN e : Apart(e[i], u)

Member(p, f) == \E i \in DOMAIN f : p \in f[i]

Among(p, q, t, e, u) == Member(p, q) \/ Member(p, t) \/ Member(p, e) \/ p \in u

\* f with one more set.
Extends(g, f, n, A) == /\ DOMAIN g = DOMAIN f \cup {n} /\ n \notin DOMAIN f
                       /\ g[n] = A /\ \A i \in DOMAIN f : g[i] = f[i]

\* f without its first set.
Shifted(g, f) ==
    /\ 1 \in DOMAIN f
    /\ \A i \in DOMAIN g : i \in Int /\ i + 1 \in DOMAIN f /\ i + 1 # 1 /\ g[i] = f[i + 1]
    /\ \A i \in DOMAIN f : i \in Int /\ (i # 1 => i - 1 \in DOMAIN g)

\* f with one set replaced.
Replaced(g, f, w, A) == /\ w \in DOMAIN f /\ DOMAIN g = DOMAIN f /\ g[w] = A
                        /\ \A i \in DOMAIN f : i # w => g[i] = f[i]

\* Members of a family that got one more set,
LEMMA MemberExtends ==
    ASSUME NEW f, NEW g, NEW n, NEW A, Extends(g, f, n, A), NEW p
    PROVE  Member(p, g) <=> Member(p, f) \/ p \in A
BY DEF Extends, Member

\* that lost its first,
LEMMA MemberShifted ==
    ASSUME NEW f, NEW g, Shifted(g, f), NEW p
    PROVE  Member(p, f) <=> Member(p, g) \/ p \in f[1]
<1>1. ASSUME NEW i \in DOMAIN f, i # 1
      PROVE  i - 1 \in DOMAIN g /\ g[i - 1] = f[i]
  BY <1>1 DEF Shifted
<1> QED
  BY <1>1 DEF Shifted, Member

\* and that had one replaced.
LEMMA MemberReplaced ==
    ASSUME NEW f, NEW g, NEW w, NEW A, Replaced(g, f, w, A), NEW p
    PROVE  /\ f[w] = {} => (Member(p, g) <=> Member(p, f) \/ p \in A)
           /\ A = {} => (Member(p, f) <=> Member(p, g) \/ p \in f[w])
BY DEF Replaced, Member

\* Some of what is not dispatched goes to the queue.
LEMMA DispatchApart ==
    ASSUME NEW q, NEW t, NEW e, NEW u, Separate(q, t, e, u),
           NEW r, NEW n, NEW A, NEW v, Extends(r, q, n, A),
           \A p : p \in u <=> p \in A \/ p \in v, Apart(A, v)
    PROVE  /\ Separate(r, t, e, v)
           /\ \A p : Among(p, r, t, e, v) <=> Among(p, q, t, e, u)
<1>1. Separate(r, t, e, v)
  BY DEF Separate, Extends, Apart
<1>2. ASSUME NEW p PROVE Among(p, r, t, e, v) <=> Among(p, q, t, e, u)
  BY MemberExtends DEF Among
<1> QED
  BY <1>1, <1>2

\* The first request of the queue goes to a thread without one.
LEMMA TakeApart ==
    ASSUME NEW q, NEW t, NEW e, NEW u, Separate(q, t, e, u),
           NEW r, NEW s, NEW w, Shifted(r, q), Replaced(s, t, w, q[1]), t[w] = {}
    PROVE  /\ Separate(r, s, e, u)
           /\ \A p : Among(p, r, s, e, u) <=> Among(p, q, t, e, u)
<1>1. Separate(r, s, e, u)
  BY DEF Separate, Shifted, Replaced, Apart
<1>2. ASSUME NEW p PROVE Among(p, r, s, e, u) <=> Among(p, q, t, e, u)
  BY MemberShifted, MemberReplaced DEF Among
<1> QED
  BY <1>1, <1>2

\* A thread reports on its request.
LEMMA ReportApart ==
    ASSUME NEW q, NEW t, NEW e, NEW u, Separate(q, t, e, u),
           NEW f, NEW n, NEW s, NEW w, Extends(f, e, n, t[w]), Replaced(s, t, w, {})
    PROVE  /\ Separate(q, s, f, u)
           /\ \A p : Among(p, q, s, f, u) <=> Among(p, q, t, e, u)
<1>1. Separate(q, s, f, u)
  BY DEF Separate, Extends, Replaced, Apart
<1>2. ASSUME NEW p PROVE Among(p, q, s, f, u) <=> Among(p, q, t, e, u)
  BY MemberExtends, MemberReplaced DEF Among
<1> QED
  BY <1>1, <1>2

\* The first event is collected: a part of its bytes is done.
LEMMA CollectApart ==
    ASSUME NEW q, NEW t, NEW e, NEW u, Separate(q, t, e, u),
           NEW f, Shifted(f, e)
    PROVE  /\ Separate(q, t, f, u)
           /\ \A p : Among(p, q, t, f, u) <=> Among(p, q, t, e, u) /\ p \notin e[1]
<1>1. Separate(q, t, f, u)
  BY DEF Separate, Shifted, Apart
<1>2. ASSUME NEW p PROVE Among(p, q, t, e, u) <=> Among(p, q, t, f, u) \/ p \in e[1]
  BY MemberShifted DEF Among
<1>3. ASSUME NEW p, Among(p, q, t, f, u) PROVE p \notin e[1]
  BY <1>3 DEF Among, Member, Separate, Shifted, Apart
<1> QED
  BY <1>2, <1>1, <1>3

\* ... and the others are queued again.
LEMMA RequeueApart ==
    ASSUME NEW q, NEW t, NEW e, NEW u, Separate(q, t, e, u),
           NEW f, Shifted(f, e), NEW A, NEW r, NEW n, Extends(r, q, n, A),
           \A p \in A : p \in e[1]
    PROVE  /\ Separate(r, t, f, u)
           /\ \A p : Among(p, r, t, f, u)
                        <=> Among(p, q, t, e, u) /\ (p \in e[1] => p \in A)
<1>1. Separate(q, t, f, u)
      /\ \A p : Among(p, q, t, f, u) <=> Among(p, q, t, e, u) /\ p \notin e[1]
  BY CollectApart
<1>2. ASSUME NEW p, p \in A PROVE ~Among(p, q, t, f, u)
  BY <1>1, <1>2
<1>3. Separate(r, t, f, u)
  <2>1. /\ \A i \in DOMAIN q : Apart(q[i], A) /\ Apart(A, q[i])
        /\ \A i \in DOMAIN t : Apart(A, t[i])
        /\ \A i \in DOMAIN f : Apart(A, f[i])
        /\ Apart(A, u)
    BY <1>2 DEF Among, Member, Apart
  <2> QED
    BY <1>1, <2>1 DEF Separate, Extends
<1>4. ASSUME NEW p
      PROVE  Among(p, r, t, f, u) <=> Among(p, q, t, f, u) \/ p \in A
  BY MemberExtends DEF Among
<1>5. \A p \in A : Among(p, q, t, e, u)
  BY DEF Among, Member, Shifted
<1> QED
  BY <1>1, <1>3, <1>4, <1>5

-------------------------------------------------------------------------------
\* The families of WorkPool.

Queued == [i \in DOMAIN queue |-> RequestBytes(queue[i])]
InThreads == [w \in Worker |-> RequestBytes(worker[w].request)]
InEvents == [i \in DOMAIN completions |-> EventBytes(completions[i])]

\* ChunksDisjoint, kind by kind of holder.
AllApart == Separate(Queued, InThreads, InEvents, Undispatched)

Held(p) == Among(p, Queued, InThreads, InEvents, Undispatched)

PendingIsHeld == \A p : p \in Pending <=> Held(p)

\* What WorkHolders hold, kind by kind.
LEMMA HolderKinds ==
    /\ \A i \in DOMAIN queue : /\ <<"queue", i>> \in WorkHolders
                               /\ BytesOf(<<"queue", i>>) = Queued[i]
    /\ \A w \in Worker : /\ <<"worker", w>> \in WorkHolders
                         /\ BytesOf(<<"worker", w>>) = InThreads[w]
    /\ \A i \in DOMAIN completions : /\ <<"event", i>> \in WorkHolders
                                     /\ BytesOf(<<"event", i>>) = InEvents[i]
    /\ \A h \in WorkHolders : \/ \E i \in DOMAIN queue : h = <<"queue", i>>
                              \/ \E w \in Worker : h = <<"worker", w>>
                              \/ \E i \in DOMAIN completions : h = <<"event", i>>
<1>1. \A i \in DOMAIN queue : /\ <<"queue", i>> \in WorkHolders
                              /\ BytesOf(<<"queue", i>>) = Queued[i]
  BY DEF WorkHolders, BytesOf, Queued
<1>2. \A w \in Worker : /\ <<"worker", w>> \in WorkHolders
                        /\ BytesOf(<<"worker", w>>) = InThreads[w]
  BY DEF WorkHolders, BytesOf, InThreads
<1>3. \A i \in DOMAIN completions : /\ <<"event", i>> \in WorkHolders
                                    /\ BytesOf(<<"event", i>>) = InEvents[i]
  BY DEF WorkHolders, BytesOf, InEvents
<1>4. \A h \in WorkHolders : \/ \E i \in DOMAIN queue : h = <<"queue", i>>
                             \/ \E w \in Worker : h = <<"worker", w>>
                             \/ \E i \in DOMAIN completions : h = <<"event", i>>
  BY DEF WorkHolders
<1> QED
  BY <1>1, <1>2, <1>3, <1>4

\* What is pending is what somebody holds, now and next.
LEMMA PendingHeld == PendingIsHeld /\ PendingIsHeld'
<1>1. PendingIsHeld
  <2> DEFINE U == UNION {BytesOf(h) : h \in WorkHolders}
  <2>1. DOMAIN Queued = DOMAIN queue /\ DOMAIN InThreads = Worker
        /\ DOMAIN InEvents = DOMAIN completions
    BY DEF Queued, InThreads, InEvents
  <2>2. ASSUME NEW p PROVE p \in U <=> \E h \in WorkHolders : p \in BytesOf(h)
    OBVIOUS
  <2>3. Pending = Undispatched \cup U
    BY DEF Pending
  <2> HIDE DEF U
  <2>4. ASSUME NEW p, p \in U
        PROVE  Held(p)
    <3>1. PICK h \in WorkHolders : p \in BytesOf(h)
      BY <2>2, <2>4
    <3> QED
      BY <2>1, <3>1, HolderKinds DEF Held, Among, Member
  <2>5. ASSUME NEW p, Held(p)
        PROVE  p \in Undispatched \/ p \in U
    BY <2>1, <2>2, <2>5, HolderKinds DEF Held, Among, Member
  <2>6. ASSUME NEW p
        PROVE  p \in Pending <=> Held(p)
    <3>1. p \in Undispatched => Held(p)
      BY DEF Held, Among
    <3> QED
      BY <2>3, <2>4, <2>5, <3>1
  <2> QED
    BY <2>6 DEF PendingIsHeld
<1> QED
  BY <1>1, PTL

\* AllApart is what ChunksDisjoint asks for.
LEMMA ApartIsDisjoint == AllApart => ChunksDisjoint
<1> SUFFICES ASSUME AllApart PROVE ChunksDisjoint
  OBVIOUS
<1>1. DOMAIN Queued = DOMAIN queue /\ DOMAIN InThreads = Worker
      /\ DOMAIN InEvents = DOMAIN completions
  BY DEF Queued, InThreads, InEvents
<1>2. ASSUME NEW g \in WorkHolders, NEW h \in WorkHolders, g # h
      PROVE  Apart(BytesOf(g), BytesOf(h))
  BY <1>1, <1>2, HolderKinds DEF AllApart, Separate, Apart
<1>3. ASSUME NEW h \in WorkHolders
      PROVE  Apart(BytesOf(h), Undispatched)
  BY <1>1, HolderKinds DEF AllApart, Separate
<1>4. \A A, B : Apart(A, B) => A \cap B = {}
  BY DEF Apart
<1> QED
  BY <1>2, <1>3, <1>4 DEF ChunksDisjoint

\* What an append and a tail do to the families.
LEMMA QueueExtends ==
    ASSUME queue \in Seq(Request), NEW r \in Request, queue' = Append(queue, r)
    PROVE  \E n : Extends(Queued', Queued, n, RequestBytes(r))
<1>1. Extends(Queued', Queued, Len(queue) + 1, RequestBytes(r))
  BY AppendPlaces DEF Queued, Extends
<1> QED
  BY <1>1

\* The head of the queue leaves it.
LEMMA QueueShifts ==
    ASSUME queue \in Seq(Request), queue # <<>>, queue' = Tail(queue)
    PROVE  Shifted(Queued', Queued) /\ Queued[1] = RequestBytes(Head(queue))
BY TailPlaces DEF Queued, Shifted

\* An event is appended.
LEMMA EventsExtend ==
    ASSUME completions \in Seq(Event), NEW e \in Event,
           completions' = Append(completions, e)
    PROVE  \E n : Extends(InEvents', InEvents, n, EventBytes(e))
<1>1. Extends(InEvents', InEvents, Len(completions) + 1, EventBytes(e))
  BY AppendPlaces DEF InEvents, Extends
<1> QED
  BY <1>1

\* The first event leaves.
LEMMA EventsShift ==
    ASSUME completions \in Seq(Event), completions # <<>>,
           completions' = Tail(completions)
    PROVE  /\ Shifted(InEvents', InEvents)
           /\ InEvents[1] = EventBytes(Head(completions))
BY TailPlaces DEF InEvents, Shifted

\* A thread gets another request.
LEMMA ThreadReplaced ==
    ASSUME NEW w \in Worker, NEW A, RequestBytes(worker'[w].request) = A,
           \A v \in Worker : v # w => worker'[v].request = worker[v].request
    PROVE  Replaced(InThreads', InThreads, w, A)
BY DEF InThreads, Replaced

-------------------------------------------------------------------------------
\* The inductive invariant about work.

\* A queued request, the request of a thread and an event are about at least one
\* byte; a thread that rests has no request, and one that writes or reads has
\* something left to write or read.
RequestShaped(r) == r.start < r.end

ThreadShaped(w) ==
    /\ worker[w].pc = "recv_request" => worker[w] = Resting
    /\ worker[w].pc # "recv_request" => RequestShaped(worker[w].request)
    /\ worker[w].pc \in {"recv_worker", "header"} => worker[w].total = 0
    /\ worker[w].pc = "write" => worker[w].total < ChunkLen(w)
    /\ worker[w].pc = "read" => worker[w].read < worker[w].written

EventShaped(e) ==
    /\ e.processed <= e.request.start
    /\ e.request.start - e.processed < e.request.end
    /\ e.request.start <= e.request.end
    /\ e.kind = "completed" => e.request.start = e.request.end
    /\ e.kind # "completed" => RequestShaped(e.request)
    /\ e.kind = "cheated" => e.processed = 0

Shaped == /\ \A i \in DOMAIN queue : RequestShaped(queue[i])
          /\ \A w \in Worker : ThreadShaped(w)
          /\ \A i \in DOMAIN completions : EventShaped(completions[i])

StepBytes == 0 .. ByteCount(step) - 1

\* Only pieces of the row of this step are held.
InStep == Pending \subseteq StepBytes

\* Connections are held back by dispatch only, nothing is credited before it ends.
Phases == /\ pc \in {"idle", "collect"} => rest = <<>>
          /\ pc \in {"idle", "dispatch"} => dataProcessed = 0

WorkInv == /\ Shaped /\ AllApart /\ InStep /\ WorkConserved
           /\ QuietBetweenSteps /\ Phases

\* What is counted does not change.
LEMMA SameCount ==
    ASSUME InStep, WorkConserved, \A p : Held(p)' <=> Held(p), pc # "idle",
           UNCHANGED <<step, dataProcessed>>
    PROVE  InStep' /\ WorkConserved'
<1>1. Pending' = Pending
  BY PendingHeld DEF PendingIsHeld
<1> QED
  BY <1>1 DEF InStep, WorkConserved, StepBytes

\* Threads between steps have no request, so one that has is in a step.
LEMMA WorkerBusy ==
    ASSUME WorkInv, NEW w \in Worker, worker[w].pc # "recv_request"
    PROVE  pc # "idle"
BY DEF WorkInv, QuietBetweenSteps, Resting

\* Dispatch: the first of the bytes that are left go to the queue.
LEMMA QueueWork ==
    ASSUME IInv, WorkInv, pc = "dispatch", NEW end \in Nat,
           position < end, end <= ByteCount(step),
           queue' = Append(queue, NewRequest(position, end)),
           UNCHANGED <<worker, completions>>,
           \A p : p \in Undispatched' <=> p \in end .. ByteCount(step) - 1
    PROVE  /\ AllApart'
           /\ \A p : Held(p)' <=> Held(p)
           /\ \A i \in DOMAIN queue' : RequestShaped(queue'[i])
<1> DEFINE new == NewRequest(position, end)
           cut == position .. end - 1
<1>1. new \in Request /\ RequestBytes(new) = cut
      /\ new.start = position /\ new.end = end /\ position \in Nat
  BY NewRequestType DEF NewRequest, RequestBytes, IInv, TypeOK
<1>2. queue \in Seq(Request) /\ queue' = Append(queue, new)
  BY DEF IInv, TypeOK
<1> HIDE DEF new
<1>3. PICK n : Extends(Queued', Queued, n, cut)
  BY <1>1, <1>2, QueueExtends
<1>4. Undispatched = position .. ByteCount(step) - 1 /\ ByteCount(step) \in Nat
  BY ByteCountNat DEF Undispatched, IInv, TypeOK
<1>5. /\ \A p : p \in Undispatched <=> p \in cut \/ p \in Undispatched'
      /\ Apart(cut, Undispatched')
  BY <1>1, <1>4 DEF Apart
<1> HIDE DEF cut
<1>6. InThreads' = InThreads /\ InEvents' = InEvents
  BY DEF InThreads, InEvents
<1>7. AllApart
  BY DEF WorkInv
<1>8. AllApart' /\ \A p : Held(p)' <=> Held(p)
  <2>1. /\ Separate(Queued', InThreads, InEvents, Undispatched')
        /\ \A p : Among(p, Queued', InThreads, InEvents, Undispatched')
                     <=> Among(p, Queued, InThreads, InEvents, Undispatched)
    BY <1>3, <1>5, <1>7, DispatchApart DEF AllApart
  <2> QED
    BY <1>6, <2>1 DEF AllApart, Held
<1>9. \A i \in DOMAIN queue' : RequestShaped(queue'[i])
  BY <1>1, <1>2, AppendElements DEF WorkInv, Shaped, RequestShaped
<1> QED
  BY <1>8, <1>9

\* A thread changes its locals and keeps its request.
LEMMA KeepRequest ==
    ASSUME IInv, WorkInv, NEW w \in Worker, NEW locals \in WorkerState,
           worker[w].pc # "recv_request",
           Step(w, locals), locals.request = worker[w].request, ThreadShaped(w)',
           UNCHANGED <<pc, step, position, rest, dataProcessed, queue, completions>>
    PROVE  WorkInv' /\ Pending' = Pending
<1>1. pc # "idle"
  BY WorkerBusy
<1>2. UNCHANGED <<pc, step, position, rest, dataProcessed, queue, completions>>
  OBVIOUS
<1>3. /\ worker'[w] = locals
      /\ \A v \in Worker : v # w => worker'[v] = worker[v]
  BY StepKeepsType DEF IInv, TypeOK
<1>4. Queued' = Queued /\ InThreads' = InThreads /\ InEvents' = InEvents
      /\ Undispatched' = Undispatched
  BY <1>2, <1>3 DEF Queued, InThreads, InEvents, Undispatched
<1>5. AllApart' /\ \A p : Held(p)' <=> Held(p)
  BY <1>4 DEF WorkInv, AllApart, Held
<1>6. InStep' /\ WorkConserved'
  BY <1>1, <1>2, <1>5, SameCount DEF WorkInv
<1>7. Shaped'
  BY <1>2, <1>3 DEF WorkInv, Shaped, ThreadShaped, ChunkLen
<1>8. QuietBetweenSteps' /\ Phases'
  BY <1>1, <1>2 DEF WorkInv, QuietBetweenSteps, Phases
<1>9. Pending' = Pending
  BY <1>5, PendingHeld DEF PendingIsHeld
<1> QED
  BY <1>5, <1>6, <1>7, <1>8, <1>9 DEF WorkInv

\* A thread reports on all bytes of its request, done or not.
LEMMA ReportWork ==
    ASSUME IInv, WorkInv, NEW w \in Worker,
           NEW kind \in {"completed", "failed", "cheated"},
           NEW processed \in Nat, NEW remaining \in Request,
           worker[w].pc # "recv_request",
           remaining.start = worker[w].request.start + processed,
           remaining.end = worker[w].request.end,
           remaining.start <= remaining.end,
           kind = "completed" <=> remaining.start = remaining.end,
           kind = "cheated" => processed = 0,
           Report(w, kind, processed, remaining),
           UNCHANGED <<pc, step, position, rest, dataProcessed, queue>>
    PROVE  WorkInv' /\ Pending' = Pending
<1> DEFINE event == [uid |-> worker[w].uid, kind |-> kind,
                     processed |-> processed, request |-> remaining]
           old == worker[w].request
<1>1. /\ event \in Event /\ event.request = remaining /\ event.kind = kind
      /\ event.processed = processed
  BY DEF IInv, TypeOK, WorkerState, Event
<1>2. completions' = Append(completions, event) /\ Step(w, Resting)
      /\ completions \in Seq(Event)
  BY DEF Report, IInv, TypeOK
<1> HIDE DEF event
<1>3. /\ worker'[w] = Resting
      /\ \A v \in Worker : v # w => worker'[v] = worker[v]
  BY <1>2, StepKeepsType, RestingType DEF IInv, TypeOK
<1>4. pc # "idle"
  BY WorkerBusy
<1>5. old.start \in Nat /\ old.end \in Nat /\ old.start < old.end
  BY DEF IInv, TypeOK, WorkerState, Request, WorkInv, Shaped, ThreadShaped,
         RequestShaped
<1>6. EventBytes(event) = RequestBytes(old)
  BY <1>1, <1>5 DEF EventBytes, RequestBytes
<1>7. EventShaped(event)
  BY <1>1, <1>5 DEF EventShaped, RequestShaped
<1>8. PICK n : Extends(InEvents', InEvents, n, InThreads[w])
  BY <1>1, <1>2, <1>6, EventsExtend DEF InThreads
<1>9. Replaced(InThreads', InThreads, w, {})
  <2>1. RequestBytes(Resting.request) = {}
    BY DEF Resting, NoRequest, RequestBytes
  <2> QED
    BY <1>3, <2>1, ThreadReplaced
<1>10. Queued' = Queued /\ Undispatched' = Undispatched
  BY DEF Queued, Undispatched
<1>11. AllApart' /\ \A p : Held(p)' <=> Held(p)
  BY <1>8, <1>9, <1>10, ReportApart DEF WorkInv, AllApart, Held
<1>12. InStep' /\ WorkConserved'
  BY <1>4, <1>11, SameCount DEF WorkInv
<1>13. Shaped'
  <2>1. \A i \in DOMAIN completions' : EventShaped(completions'[i])
    BY <1>1, <1>2, <1>7, AppendElements DEF WorkInv, Shaped
  <2>2. ThreadShaped(w)'
    BY <1>3 DEF ThreadShaped, Resting
  <2>3. \A v \in Worker : v # w => ThreadShaped(v)'
    BY <1>3 DEF WorkInv, Shaped, ThreadShaped, ChunkLen
  <2> QED
    BY <2>1, <2>2, <2>3 DEF WorkInv, Shaped
<1>14. QuietBetweenSteps' /\ Phases'
  BY <1>4 DEF WorkInv, QuietBetweenSteps, Phases
<1>15. Pending' = Pending
  BY <1>11, PendingHeld DEF PendingIsHeld
<1> QED
  BY <1>11, <1>12, <1>13, <1>14, <1>15 DEF WorkInv

\* The bytes of an event that are done.
DoneBytes(e) == e.request.start - e.processed .. e.request.start - 1

\* An event is collected: its done bytes are counted, the others queued again.
LEMMA CollectWork ==
    ASSUME IInv, WorkInv, NEW kind \in {"completed", "failed", "cheated"},
           Collecting(kind),
           dataProcessed' = dataProcessed + Head(completions).processed,
           queue' = IF kind = "completed" THEN queue
                    ELSE Append(queue, Head(completions).request),
           UNCHANGED <<pc, step, position, rest, worker>>
    PROVE  /\ WorkInv'
           /\ DoneBytes(Head(completions)) \subseteq Pending
           /\ Pending' = Pending \ DoneBytes(Head(completions))
<1> DEFINE e == Head(completions)
           all == EventBytes(e)
           left == RequestBytes(e.request)
           done == DoneBytes(e)
<1>1. /\ pc = "collect" /\ completions # <<>> /\ e.kind = kind
      /\ completions' = Tail(completions) /\ completions \in Seq(Event)
      /\ queue \in Seq(Request)
  BY DEF Collecting, IInv, TypeOK
<1>2. e \in Event /\ EventShaped(e)
  BY <1>1, HeadTailElements DEF WorkInv, Shaped
<1>3. /\ e.request \in Request /\ e.processed \in Nat /\ e.request.start \in Nat
      /\ e.request.end \in Nat
  BY <1>2 DEF Event, Request
<1>4. /\ \A p : p \in all <=> p \in left \/ p \in done
      /\ Apart(done, left)
      /\ kind = "completed" => left = {}
      /\ IsFiniteSet(done) /\ Cardinality(done) = e.processed
  <2>0. /\ e.processed <= e.request.start /\ e.request.start <= e.request.end
        /\ kind = "completed" => e.request.start = e.request.end
    BY <1>1, <1>2 DEF EventShaped
  <2>1. /\ \A p : p \in all <=> p \in left \/ p \in done
        /\ Apart(done, left)
        /\ kind = "completed" => left = {}
    <3> HIDE DEF e
    <3>1. \A p : p \in all <=> p \in left \/ p \in done
      BY <1>3, <2>0 DEF EventBytes, RequestBytes, DoneBytes
    <3>2. Apart(done, left)
      BY <1>3, <2>0 DEF RequestBytes, DoneBytes, Apart
    <3>3. kind = "completed" => left = {}
      BY <1>3, <2>0 DEF RequestBytes
    <3> QED
      BY <3>1, <3>2, <3>3
  <2>2. /\ e.request.start - e.processed \in Int
        /\ e.request.start - 1 \in Int
        /\ e.request.start - 1 - (e.request.start - e.processed) + 1 = e.processed
        /\ (e.request.start - e.processed > e.request.start - 1) <=> e.processed = 0
    BY <1>3
  <2>3. IsFiniteSet(done) /\ Cardinality(done) = e.processed
    BY <1>3, <2>2, FS_Interval DEF DoneBytes
  <2> QED
    BY <2>1, <2>3
<1>5. Shifted(InEvents', InEvents) /\ InEvents[1] = all
  BY <1>1, EventsShift
<1>6. InThreads' = InThreads /\ Undispatched' = Undispatched
  BY DEF InThreads, Undispatched
<1>7. e.request \in Request
      /\ (kind # "completed" => queue' = Append(queue, e.request))
      /\ (kind = "completed" => queue' = queue)
  BY <1>3
<1>71. Collecting(kind) /\ UNCHANGED <<pc, step, position, rest, worker>>
       /\ dataProcessed' = dataProcessed + e.processed
  OBVIOUS
<1> HIDE DEF e, all, left, done
<1>8. AllApart' /\ \A p : Held(p)' <=> Held(p) /\ p \notin done
  <2>1. CASE kind = "completed"
    <3>1. Queued' = Queued
      BY <1>7, <2>1 DEF Queued
    <3>2. /\ Separate(Queued, InThreads, InEvents', Undispatched)
          /\ \A p : Among(p, Queued, InThreads, InEvents', Undispatched)
                <=> Among(p, Queued, InThreads, InEvents, Undispatched) /\ p \notin all
      BY <1>5, CollectApart DEF WorkInv, AllApart
    <3> QED
      BY <1>4, <1>6, <2>1, <3>1, <3>2 DEF AllApart, Held
  <2>2. CASE kind # "completed"
    <3>1. PICK n : Extends(Queued', Queued, n, left)
      BY <1>1, <1>7, <2>2, QueueExtends DEF left
    <3>2. \A p \in left : p \in InEvents[1]
      BY <1>4, <1>5
    <3>3. /\ Separate(Queued', InThreads, InEvents', Undispatched)
          /\ \A p : Among(p, Queued', InThreads, InEvents', Undispatched)
                <=> Among(p, Queued, InThreads, InEvents, Undispatched)
                       /\ (p \in InEvents[1] => p \in left)
      BY <1>5, <3>1, <3>2, RequeueApart DEF WorkInv, AllApart
    <3>4. \A p : (p \in InEvents[1] => p \in left) <=> p \notin done
      BY <1>4, <1>5 DEF Apart
    <3> QED
      BY <1>6, <3>3, <3>4 DEF AllApart, Held
  <2> QED
    BY <2>1, <2>2
<1>9. Pending' = Pending \ done /\ done \subseteq Pending
  <2>1. \A p \in done : Held(p)
    <3>1. 1 \in DOMAIN InEvents
      BY <1>5 DEF Shifted
    <3> QED
      BY <1>4, <1>5, <3>1 DEF Held, Among, Member
  <2> QED
    BY <1>8, <2>1, PendingHeld DEF PendingIsHeld
<1>10. InStep'
  BY <1>9, <1>71 DEF WorkInv, InStep, StepBytes
<1>11. WorkConserved'
  <2>1. IsFiniteSet(Pending) /\ dataProcessed + Cardinality(Pending) = ByteCount(step)
    <3>1. IsFiniteSet(StepBytes)
      <4>1. ByteCount(step) - 1 \in Int
        BY ByteCountNat DEF IInv, TypeOK
      <4> QED
        BY <4>1, FS_Interval DEF StepBytes
    <3> QED
      BY <1>1, <3>1, FS_Subset DEF WorkInv, InStep, WorkConserved
  <2>2. Cardinality(Pending') = Cardinality(Pending) - e.processed
    <3>1. Pending \cap done = done
      BY <1>9
    <3>2. Cardinality(Pending \ done) = Cardinality(Pending) - Cardinality(Pending \cap done)
      BY <2>1, FS_Difference
    <3>3. Cardinality(Pending \ done) = Cardinality(Pending) - e.processed
      BY <1>4, <3>1, <3>2
    <3> QED
      BY <1>9, <3>3
  <2>3. Cardinality(Pending) \in Nat /\ dataProcessed \in Nat
    BY <2>1, FS_CardinalityType DEF IInv, TypeOK
  <2> QED
    BY <1>3, <1>71, <2>1, <2>2, <2>3 DEF WorkConserved
<1>12. Shaped'
  <2>1. \A i \in DOMAIN completions' : EventShaped(completions'[i])
    BY <1>1, HeadTailElements DEF WorkInv, Shaped
  <2>2. \A i \in DOMAIN queue' : RequestShaped(queue'[i])
    BY <1>1, <1>2, <1>7, AppendElements DEF WorkInv, Shaped, EventShaped
  <2>3. \A w \in Worker : ThreadShaped(w)'
    BY <1>71 DEF WorkInv, Shaped, ThreadShaped, ChunkLen
  <2> QED
    BY <2>1, <2>2, <2>3 DEF Shaped
<1>13. QuietBetweenSteps' /\ Phases'
  BY <1>1, <1>71 DEF WorkInv, QuietBetweenSteps, Phases
<1>14. WorkInv'
  BY <1>8, <1>10, <1>11, <1>12, <1>13 DEF WorkInv
<1> QED
  BY <1>9, <1>14 DEF done, e

-------------------------------------------------------------------------------
\* The invariant holds, action by action.

\* Nothing is held between steps.
LEMMA QuietHoldsNothing ==
    ASSUME QuietBetweenSteps, pc = "idle"
    PROVE  /\ Queued = <<>> /\ InEvents = <<>> /\ Undispatched = {}
           /\ \A w \in Worker : InThreads[w] = {}
           /\ \A p : ~Held(p)
<1>1. queue = <<>> /\ completions = <<>> /\ \A w \in Worker : worker[w] = Resting
  BY DEF QuietBetweenSteps
<1>2. Queued = <<>> /\ InEvents = <<>> /\ Undispatched = {}
  BY <1>1 DEF Queued, InEvents, Undispatched
<1>3. \A w \in Worker : InThreads[w] = {}
  BY <1>1 DEF InThreads, Resting, NoRequest, RequestBytes
<1>4. DOMAIN InThreads = Worker
  BY DEF InThreads
<1>5. \A p : ~Held(p)
  BY <1>2, <1>3, <1>4 DEF Held, Among, Member
<1> QED
  BY <1>2, <1>3, <1>5

Idle == QuietBetweenSteps /\ pc = "idle" /\ rest = <<>> /\ dataProcessed = 0

\* Between steps the invariant holds because nothing is held.
LEMMA IdleWork == (Idle => WorkInv) /\ (Idle' => WorkInv')
<1>1. Idle => WorkInv
  <2> SUFFICES ASSUME Idle PROVE WorkInv
    OBVIOUS
  <2> USE DEF Idle
  <2>1. Shaped
    BY DEF QuietBetweenSteps, Shaped, ThreadShaped, Resting
  <2>2. AllApart
    <3>1. DOMAIN InThreads = Worker
      BY DEF InThreads
    <3> QED
      BY <3>1, QuietHoldsNothing DEF AllApart, Separate, Apart
  <2>3. InStep
    BY QuietHoldsNothing, PendingHeld DEF InStep, PendingIsHeld
  <2> QED
    BY <2>1, <2>2, <2>3 DEF WorkInv, WorkConserved, Phases
<1> QED
  BY <1>1, PTL

\* A validator that has just started is between steps.
LEMMA InitWork == Init => WorkInv
<1> SUFFICES ASSUME Init PROVE WorkInv
  OBVIOUS
<1>1. QuietBetweenSteps
  BY DEF Init, QuietBetweenSteps
<1> QED
  BY <1>1, IdleWork DEF Init, Idle

\* A step starts with all of its bytes pending.
LEMMA BeginStepWork ==
    ASSUME IInv, WorkInv, BeginStep
    PROVE  WorkInv' /\ Pending' = StepBytes
<1>1. /\ pc = "idle" /\ pc' = "dispatch" /\ position' = 0
      /\ UNCHANGED <<step, queue, completions, worker, dataProcessed>>
  BY DEF BeginStep
<1>2. /\ Queued' = <<>> /\ InEvents' = <<>> /\ InThreads' = InThreads
      /\ Undispatched' = StepBytes
  BY <1>1, QuietHoldsNothing DEF WorkInv, Queued, InEvents, InThreads, Undispatched,
                                 StepBytes
<1>3. /\ \A w \in Worker : InThreads[w] = {}
      /\ DOMAIN InThreads = Worker
  BY <1>1, QuietHoldsNothing DEF WorkInv, InThreads
<1>4. AllApart'
  BY <1>2, <1>3 DEF AllApart, Separate, Apart
<1>5. Pending' = StepBytes
  <2>1. \A p : Held(p)' <=> p \in StepBytes
    BY <1>2, <1>3 DEF Held, Among, Member
  <2> QED
    BY <2>1, PendingHeld DEF PendingIsHeld
<1>6. Cardinality(StepBytes) = ByteCount(step) /\ ByteCount(step) \in Nat
  <2>1. ByteCount(step) \in Nat
    BY ByteCountNat DEF IInv, TypeOK
  <2>2. ByteCount(step) - 1 \in Int
    BY <2>1
  <2> QED
    BY <2>1, <2>2, FS_Interval DEF StepBytes
<1>7. dataProcessed' = 0
  BY <1>1 DEF WorkInv, Phases
<1>8. InStep' /\ WorkConserved'
  BY <1>1, <1>5, <1>6, <1>7 DEF InStep, WorkConserved, StepBytes
<1>9. Shaped'
  BY <1>1 DEF WorkInv, Shaped, ThreadShaped, ChunkLen
<1>10. QuietBetweenSteps' /\ Phases'
  BY <1>1, <1>7 DEF WorkInv, QuietBetweenSteps, Phases
<1> QED
  BY <1>4, <1>5, <1>8, <1>9, <1>10 DEF WorkInv

\* Every chunk has a byte.
LEMMA ChunkNotEmpty ==
    ASSUME IInv, pc = "dispatch", position # ByteCount(step), NEW w \in 1 .. MaxWeight
    PROVE  position < ChunkEnd(w)
<1> DEFINE chunk == CeilDiv(ByteCount(step) * w, weightSum)
           lines == CeilDiv(chunk, CacheLine) * CacheLine
<1>1. ByteCount(step) \in Nat /\ position \in Nat /\ position < ByteCount(step)
      /\ weightSum \in Nat \ {0}
  BY ByteCountNat DEF IInv, TypeOK, DispatchFit
<1>2. ByteCount(step) * w \in Nat \ {0}
  BY <1>1
<1>3. \A a \in Nat \ {0}, b \in Nat \ {0} : CeilDiv(a, b) \in Nat \ {0}
  <2> TAKE a \in Nat \ {0}, b \in Nat \ {0}
  <2>1. a + b - 1 \in Nat /\ a + b - 1 >= b
    OBVIOUS
  <2>2. (a + b - 1) \div b >= 1
    BY <2>1, Z3
  <2>3. (a + b - 1) \div b \in Nat
    BY <2>1, CeilDivNat DEF CeilDiv
  <2> QED
    BY <2>2, <2>3 DEF CeilDiv
<1>4. chunk \in Nat \ {0}
  BY <1>1, <1>2, <1>3
<1>5. CeilDiv(chunk, CacheLine) \in Nat \ {0}
  BY <1>3, <1>4, PoolAssumption
<1>6. lines \in Nat \ {0}
  BY <1>5, PoolAssumption
<1> HIDE DEF lines
<1>7. ChunkEnd(w) = IF position + lines < ByteCount(step)
                    THEN position + lines ELSE ByteCount(step)
  BY DEF ChunkEnd, lines
<1> QED
  BY <1>1, <1>6, <1>7

\* Dispatch hands bytes out, and drops none.
LEMMA DispatchWork ==
    ASSUME IInv, WorkInv, DispatchChunk \/ FinishDispatch
    PROVE  WorkInv' /\ Pending' = Pending
<1>1. /\ pc = "dispatch" /\ pc' # "idle" /\ dataProcessed' = 0 /\ dataProcessed = 0
      /\ UNCHANGED <<step, completions, worker>>
      /\ position \in Nat /\ position <= ByteCount(step) /\ ByteCount(step) \in Nat
  BY ByteCountNat DEF DispatchChunk, FinishDispatch, WorkInv, Phases, IInv, TypeOK,
                      DispatchFit
<1>2. Phases'
  BY <1>1 DEF DispatchChunk, FinishDispatch, WorkInv, Phases
<1>3. /\ AllApart'
      /\ \A p : Held(p)' <=> Held(p)
      /\ \A i \in DOMAIN queue' : RequestShaped(queue'[i])
  <2>1. CASE DispatchChunk
    <3> DEFINE end == ChunkEnd(weight[Head(rest)])
    <3>1. weight[Head(rest)] \in 1 .. MaxWeight
      BY <2>1, HeadTailElements DEF IInv, TypeOK, DispatchChunk
    <3>2. end \in Nat /\ end <= ByteCount(step) /\ position < end
      BY <2>1, <3>1, ChunkEndInside, ChunkNotEmpty DEF DispatchChunk
    <3>3. queue' = Append(queue, NewRequest(position, end)) /\ position' = end
          /\ pc' = pc
      BY <2>1 DEF DispatchChunk
    <3> HIDE DEF end
    <3>4. \A p : p \in Undispatched' <=> p \in end .. ByteCount(step) - 1
      BY <1>1, <3>3 DEF Undispatched
    <3> QED
      BY <1>1, <3>2, <3>3, <3>4, QueueWork
  <2>2. CASE FinishDispatch /\ position # ByteCount(step)
    <3>1. /\ queue' = Append(queue, NewRequest(position, ByteCount(step)))
          /\ pc' = "collect"
      BY <2>2 DEF FinishDispatch
    <3>2. \A p : p \in Undispatched' <=> p \in ByteCount(step) .. ByteCount(step) - 1
      BY <1>1, <3>1 DEF Undispatched
    <3> QED
      BY <1>1, <2>2, <3>1, <3>2, QueueWork
  <2>3. CASE FinishDispatch /\ position = ByteCount(step)
    <3>1. queue' = queue /\ pc' = "collect"
      BY <2>3 DEF FinishDispatch
    <3>2. Undispatched = {} /\ Undispatched' = {}
      BY <1>1, <2>3, <3>1 DEF Undispatched
    <3>3. Queued' = Queued /\ InThreads' = InThreads /\ InEvents' = InEvents
      BY <1>1, <3>1 DEF Queued, InThreads, InEvents
    <3>4. AllApart' /\ \A p : Held(p)' <=> Held(p)
      BY <3>2, <3>3 DEF WorkInv, AllApart, Held
    <3> QED
      BY <3>1, <3>4 DEF WorkInv, Shaped
  <2> QED
    BY <2>1, <2>2, <2>3
<1>4. Shaped'
  BY <1>1, <1>3 DEF WorkInv, Shaped, ThreadShaped, ChunkLen
<1>5. InStep' /\ WorkConserved'
  BY <1>1, <1>3, SameCount DEF WorkInv
<1>6. QuietBetweenSteps'
  BY <1>1 DEF QuietBetweenSteps
<1>7. Pending' = Pending
  BY <1>3, PendingHeld DEF PendingIsHeld
<1> QED
  BY <1>2, <1>3, <1>4, <1>5, <1>6, <1>7 DEF WorkInv

\* A request moves from the queue to a thread.
LEMMA ReceiveRequestWork ==
    ASSUME IInv, WorkInv, NEW w \in Worker, ReceiveRequest(w)
    PROVE  WorkInv' /\ Pending' = Pending
<1> DEFINE locals == [worker[w] EXCEPT !.pc = "recv_worker", !.request = Head(queue)]
<1>1. /\ worker[w].pc = "recv_request" /\ queue # <<>> /\ queue' = Tail(queue)
      /\ queue \in Seq(Request) /\ worker[w] = Resting /\ Step(w, locals)
      /\ UNCHANGED <<pc, step, position, rest, dataProcessed, completions>>
  BY DEF ReceiveRequest, stepVars, IInv, TypeOK, WorkInv, Shaped, ThreadShaped
<1>2. Head(queue) \in Request /\ RequestShaped(Head(queue))
  BY <1>1, HeadTailElements DEF WorkInv, Shaped
<1>3. /\ locals \in WorkerState /\ locals.pc = "recv_worker"
      /\ locals.request = Head(queue) /\ locals.total = 0
  <2>1. worker[w] \in WorkerState /\ worker[w].total = 0
    BY <1>1 DEF IInv, TypeOK, Resting
  <2> QED
    BY <1>2, <2>1 DEF WorkerState, WorkerPc
<1> HIDE DEF locals
<1>4. /\ worker'[w] = locals
      /\ \A v \in Worker : v # w => worker'[v] = worker[v]
  BY <1>1, <1>3, StepKeepsType DEF IInv, TypeOK
<1>5. Shifted(Queued', Queued) /\ Queued[1] = RequestBytes(Head(queue))
  BY <1>1, QueueShifts
<1>6. Replaced(InThreads', InThreads, w, Queued[1])
  BY <1>3, <1>4, <1>5, ThreadReplaced
<1>7. InThreads[w] = {}
  BY <1>1 DEF InThreads, Resting, NoRequest, RequestBytes
<1>8. InEvents' = InEvents /\ Undispatched' = Undispatched
  BY <1>1 DEF InEvents, Undispatched
<1>9. AllApart' /\ \A p : Held(p)' <=> Held(p)
  BY <1>5, <1>6, <1>7, <1>8, TakeApart DEF WorkInv, AllApart, Held
<1>10. pc # "idle"
  BY <1>1 DEF WorkInv, QuietBetweenSteps
<1>11. InStep' /\ WorkConserved'
  BY <1>1, <1>9, <1>10, SameCount DEF WorkInv
<1>12. Shaped'
  <2>1. \A i \in DOMAIN queue' : RequestShaped(queue'[i])
    BY <1>1, HeadTailElements DEF WorkInv, Shaped
  <2>2. ThreadShaped(w)'
    BY <1>2, <1>3, <1>4 DEF ThreadShaped
  <2>3. \A v \in Worker : v # w => ThreadShaped(v)'
    BY <1>4 DEF WorkInv, Shaped, ThreadShaped, ChunkLen
  <2> QED
    BY <1>1, <2>1, <2>2, <2>3 DEF WorkInv, Shaped
<1>13. QuietBetweenSteps' /\ Phases'
  BY <1>1, <1>10 DEF WorkInv, QuietBetweenSteps, Phases
<1>14. Pending' = Pending
  BY <1>9, PendingHeld DEF PendingIsHeld
<1> QED
  BY <1>9, <1>11, <1>12, <1>13, <1>14 DEF WorkInv

\* A miner is received.
LEMMA ReceiveWorkerWork ==
    ASSUME IInv, WorkInv, NEW w \in Worker, ReceiveWorker(w)
    PROVE  WorkInv' /\ Pending' = Pending
<1> DEFINE locals == [worker[w] EXCEPT !.pc = "header", !.uid = Head(available),
                                       !.last = worker[w].request.last]
<1>1. /\ worker[w].pc = "recv_worker" /\ Step(w, locals) /\ Head(available) \in Uid
      /\ UNCHANGED <<pc, step, position, rest, dataProcessed, queue, completions>>
  BY HeadTailElements DEF ReceiveWorker, stepVars, IInv, TypeOK
<1>2. /\ locals \in WorkerState /\ locals.pc = "header"
      /\ locals.request = worker[w].request /\ locals.total = worker[w].total
  BY <1>1 DEF IInv, TypeOK, WorkerState, WorkerPc, Request
<1> HIDE DEF locals
<1>3. worker'[w] = locals
  BY <1>1, <1>2, StepKeepsType DEF IInv, TypeOK
<1>4. ThreadShaped(w)'
  BY <1>1, <1>2, <1>3 DEF WorkInv, Shaped, ThreadShaped
<1> QED
  BY <1>1, <1>2, <1>4, KeepRequest

\* The header is sent.
LEMMA WriteHeaderWork ==
    ASSUME IInv, WorkInv, NEW w \in Worker, WriteHeader(w)
    PROVE  WorkInv' /\ Pending' = Pending
<1> DEFINE locals == [worker[w] EXCEPT !.pc = "write"]
<1>1. /\ worker[w].pc = "header" /\ Step(w, locals)
      /\ UNCHANGED <<pc, step, position, rest, dataProcessed, queue, completions>>
  BY DEF WriteHeader, stepVars
<1>2. /\ locals \in WorkerState /\ locals.pc = "write"
      /\ locals.request = worker[w].request /\ locals.total = worker[w].total
      /\ worker[w].request \in Request
  BY <1>1 DEF IInv, TypeOK, WorkerState, WorkerPc
<1> HIDE DEF locals
<1>3. worker'[w] = locals
  BY <1>1, <1>2, StepKeepsType DEF IInv, TypeOK
<1>4. ThreadShaped(w)'
  BY <1>1, <1>2, <1>3 DEF WorkInv, Shaped, ThreadShaped, RequestShaped, ChunkLen,
                          Request
<1> QED
  BY <1>1, <1>2, <1>4, KeepRequest

\* A part of the window is sent.
LEMMA WriteWork ==
    ASSUME IInv, WorkInv, NEW w \in Worker, NEW written \in 1 .. Window(w),
           Write(w, written)
    PROVE  WorkInv' /\ Pending' = Pending
<1>1. worker' \in [Worker -> WorkerState]
  BY WriteIInv DEF IInv, TypeOK
<1>2. /\ worker[w].pc = "write"
      /\ UNCHANGED <<pc, step, position, rest, dataProcessed, queue, completions>>
      /\ worker[w] \in WorkerState
  BY DEF Write, stepVars, IInv, TypeOK
<1>3. PICK last : worker' = [worker EXCEPT ![w] =
                       [worker[w] EXCEPT !.pc = "read", !.written = written,
                                         !.lastByte = last, !.read = 0,
                                         !.readLast = worker[w].last]]
  BY DEF Write, Step
<1>4. /\ worker'[w].pc = "read" /\ worker'[w].written = written
      /\ worker'[w].read = 0 /\ worker'[w].request = worker[w].request
      /\ worker'[w] \in WorkerState /\ Step(w, worker'[w])
  BY <1>1, <1>2, <1>3 DEF Step, IInv, TypeOK, WorkerState
<1>5. written > 0
  OBVIOUS
<1>6. ThreadShaped(w)'
  BY <1>2, <1>4, <1>5 DEF WorkInv, Shaped, ThreadShaped
<1> QED
  BY <1>2, <1>4, <1>6, KeepRequest

\* What is left of a request, bytes done and bytes to do.
LEMMA RemainingShape ==
    ASSUME IInv, NEW w \in Worker, NEW total \in Nat, NEW last \in Carry
    PROVE  /\ Remaining(w, total, last) \in Request
           /\ Remaining(w, total, last).start = worker[w].request.start + total
           /\ Remaining(w, total, last).end = worker[w].request.end
           /\ ChunkLen(w) = worker[w].request.end - worker[w].request.start
           /\ worker[w].request \in Request
           /\ worker[w].request.start \in Nat /\ worker[w].request.end \in Nat
BY RemainingType DEF Remaining, ChunkLen, IInv, TypeOK, WorkerState, Request

\* A failure or a refuted answer reports what is done and what is left.
LEMMA FailureWork ==
    ASSUME IInv, WorkInv, NEW w \in Worker,
           \/ WriteHeaderFails(w) \/ WriteFails(w)
           \/ ReadFails(w) \/ ReadRefuted(w)
    PROVE  WorkInv' /\ Pending' = Pending
<1>1. /\ worker[w].total \in Nat /\ worker[w].read \in Nat /\ worker[w].written \in Nat
      /\ worker[w].last \in Carry /\ worker[w].lastByte \in Carry
      /\ worker[w].request \in Request
      /\ worker[w].request.start \in Nat /\ worker[w].request.end \in Nat
  BY DEF IInv, TypeOK, WorkerState, Request
<1>2. /\ UNCHANGED <<pc, step, position, rest, dataProcessed, queue>>
      /\ worker[w].pc \in {"header", "write", "read"}
  BY DEF WriteHeaderFails, WriteFails, ReadFails, ReadRefuted, stepVars
<1>3. worker[w].request.start < worker[w].request.end
  BY <1>2 DEF WorkInv, Shaped, ThreadShaped, RequestShaped
<1>4. CASE WriteHeaderFails(w)
  <2>1. Report(w, "failed", 0, worker[w].request)
    BY <1>4 DEF WriteHeaderFails
  <2>2. /\ worker[w].request.start = worker[w].request.start + 0
        /\ worker[w].request.start <= worker[w].request.end
        /\ ~(worker[w].request.start = worker[w].request.end)
    BY <1>1, <1>3
  <2> QED
    BY <1>1, <1>2, <2>1, <2>2, ReportWork
<1>5. CASE WriteFails(w)
  <2>1. worker[w].total < ChunkLen(w)
    BY <1>5 DEF WriteFails, WorkInv, Shaped, ThreadShaped
  <2> QED
    BY <1>1, <1>2, <1>5, <2>1, RemainingShape, ReportWork DEF WriteFails
<1>6. CASE ReadFails(w)
  <2>1. worker[w].total + worker[w].read < ChunkLen(w)
    BY <1>1, <1>6, RemainingShape
       DEF ReadFails, WorkInv, Shaped, ThreadShaped, IInv, ReadFits
  <2> DEFINE total == worker[w].total + worker[w].read
  <2>2. /\ total \in Nat /\ total < ChunkLen(w)
        /\ Report(w, "failed", total, Remaining(w, total, worker[w].lastByte))
    BY <1>1, <1>6, <2>1 DEF ReadFails
  <2> HIDE DEF total
  <2> QED
    BY <1>1, <1>2, <2>2, RemainingShape, ReportWork
<1>7. CASE ReadRefuted(w)
  <2>1. Report(w, "cheated", 0, worker[w].request)
    BY <1>7 DEF ReadRefuted
  <2>2. /\ worker[w].request.start = worker[w].request.start + 0
        /\ ~(worker[w].request.start = worker[w].request.end)
    BY <1>1, <1>3
  <2> QED
    BY <1>1, <1>2, <1>3, <2>1, <2>2, ReportWork
<1> QED
  BY <1>4, <1>5, <1>6, <1>7

\* A part of the answer is read.
LEMMA ReadWork ==
    ASSUME IInv, WorkInv, NEW w \in Worker,
           NEW len \in 1 .. worker[w].written - worker[w].read,
           NEW wrong, Read(w, len, wrong)
    PROVE  WorkInv' /\ Pending' = Pending
<1> DEFINE read == worker[w].read + len
           total == worker[w].total + read
<1>1. /\ worker[w].total \in Nat /\ worker[w].read \in Nat /\ worker[w].written \in Nat
      /\ worker[w].lastByte \in Carry /\ worker[w] \in WorkerState
      /\ worker' \in [Worker -> WorkerState]
  BY ReadIInv DEF IInv, TypeOK, WorkerState
<1>2. /\ UNCHANGED <<pc, step, position, rest, dataProcessed, queue>>
      /\ worker[w].pc = "read" /\ AfterRead(w, len)
  BY DEF Read
<1>3. read \in Nat /\ total \in Nat
  BY <1>1
<1>4. CASE /\ read < worker[w].written
           /\ Step(w, [worker[w] EXCEPT
                          !.read = read,
                          !.readLast = CarryBefore(row, ReadAt(w) + len)])
           /\ UNCHANGED completions
  <2>1. /\ worker'[w].pc = "read" /\ worker'[w].read = read
        /\ worker'[w].written = worker[w].written
        /\ worker'[w].request = worker[w].request
        /\ worker'[w] \in WorkerState /\ Step(w, worker'[w])
    BY <1>1, <1>2, <1>4 DEF Step, IInv, TypeOK, WorkerState
  <2>2. ThreadShaped(w)'
    BY <1>2, <1>4, <2>1 DEF WorkInv, Shaped, ThreadShaped
  <2> QED
    BY <1>2, <1>4, <2>1, <2>2, KeepRequest
<1>5. CASE /\ total < ChunkLen(w)
           /\ Step(w, [worker[w] EXCEPT !.pc = "write", !.total = total,
                                        !.last = worker[w].lastByte])
           /\ UNCHANGED completions
  <2>1. /\ worker'[w].pc = "write" /\ worker'[w].total = total
        /\ worker'[w].request = worker[w].request
        /\ worker'[w] \in WorkerState /\ Step(w, worker'[w])
    BY <1>1, <1>2, <1>5 DEF Step, IInv, TypeOK, WorkerState
  <2>2. ThreadShaped(w)'
    BY <1>2, <1>5, <2>1 DEF WorkInv, Shaped, ThreadShaped, ChunkLen
  <2> QED
    BY <1>2, <1>5, <2>1, <2>2, KeepRequest
<1>6. CASE /\ total = ChunkLen(w)
           /\ Report(w, "completed", total,
                     Remaining(w, total, worker[w].lastByte))
  <2> HIDE DEF total
  <2> QED
    BY <1>1, <1>2, <1>3, <1>6, RemainingShape, ReportWork
<1> QED
  BY <1>2, <1>4, <1>5, <1>6 DEF AfterRead

\* Collecting an event counts its done bytes and nothing else.
LEMMA CollectEventWork ==
    ASSUME IInv, WorkInv, CollectCompleted \/ CollectFailed \/ CollectCheated
    PROVE  /\ WorkInv'
           /\ DoneBytes(Head(completions)) \subseteq Pending
           /\ Pending' = Pending \ DoneBytes(Head(completions))
<1>1. CASE CollectCompleted
  BY <1>1, CollectWork DEF CollectCompleted, Credit
<1>2. CASE CollectFailed
  BY <1>2, CollectWork DEF CollectFailed, Credit
<1>3. CASE CollectCheated
  <2>1. Head(completions).processed = 0
    <3>1. 1 \in DOMAIN completions /\ Head(completions) = completions[1]
      BY <1>3, HeadTailElements DEF CollectCheated, Collecting, IInv, TypeOK
    <3> QED
      BY <1>3, <3>1 DEF CollectCheated, Collecting, WorkInv, Shaped, EventShaped
  <2>2. dataProcessed' = dataProcessed + Head(completions).processed
    BY <1>3, <2>1 DEF CollectCheated, stepVars, IInv, TypeOK
  <2> QED
    BY <1>3, <2>2, CollectWork DEF CollectCheated, stepVars
<1> QED
  BY <1>1, <1>2, <1>3

\* A step ends with nothing pending.
LEMMA FinishStepWork ==
    ASSUME IInv, WorkInv, FinishStep
    PROVE  WorkInv' /\ Pending = {} /\ Pending' = {}
<1>1. /\ pc = "collect" /\ dataProcessed >= ByteCount(step) /\ pc' = "idle"
      /\ available' = <<>> /\ dataProcessed' = 0 /\ rest' = <<>>
      /\ UNCHANGED <<queue, completions, worker>>
      /\ ByteCount(step) \in Nat /\ dataProcessed \in Nat
  BY ByteCountNat DEF FinishStep, StepDone, WorkInv, Phases, IInv, TypeOK
<1>2. Pending = {}
  <2>1. IsFiniteSet(Pending)
    <3>1. ByteCount(step) - 1 \in Int
      BY <1>1
    <3>2. IsFiniteSet(StepBytes)
      BY <3>1, FS_Interval DEF StepBytes
    <3> QED
      BY <3>2, FS_Subset DEF WorkInv, InStep
  <2>2. dataProcessed + Cardinality(Pending) = ByteCount(step)
    BY <1>1 DEF WorkInv, WorkConserved
  <2>3. Cardinality(Pending) = 0
    BY <1>1, <2>1, <2>2, FS_CardinalityType
  <2> QED
    BY <2>1, <2>3, FS_EmptySet
<1>3. \A p : ~Held(p)
  BY <1>2, PendingHeld DEF PendingIsHeld
<1>4. \A i \in DOMAIN queue : FALSE
  <2> SUFFICES ASSUME NEW i \in DOMAIN queue PROVE FALSE
    OBVIOUS
  <2>1. queue[i].start \in Nat /\ queue[i].end \in Nat /\ queue[i].start < queue[i].end
    <3>1. queue[i] \in Request
      BY DEF IInv, TypeOK
    <3> QED
      BY <3>1 DEF Request, WorkInv, Shaped, RequestShaped
  <2>2. queue[i].start \in Queued[i] /\ i \in DOMAIN Queued
    BY <2>1 DEF Queued, RequestBytes
  <2> QED
    BY <1>3, <2>2 DEF Held, Among, Member
<1>5. \A w \in Worker : worker[w] = Resting
  <2> SUFFICES ASSUME NEW w \in Worker, worker[w] # Resting PROVE FALSE
    OBVIOUS
  <2>1. /\ worker[w].request.start \in Nat /\ worker[w].request.end \in Nat
        /\ worker[w].request.start < worker[w].request.end
    BY DEF IInv, TypeOK, WorkerState, Request, WorkInv, Shaped, ThreadShaped,
           RequestShaped
  <2>2. worker[w].request.start \in InThreads[w] /\ w \in DOMAIN InThreads
    BY <2>1 DEF InThreads, RequestBytes
  <2> QED
    BY <1>3, <2>2 DEF Held, Among, Member
<1>6. \A i \in DOMAIN completions : FALSE
  <2> SUFFICES ASSUME NEW i \in DOMAIN completions PROVE FALSE
    OBVIOUS
  <2> DEFINE e == completions[i]
  <2>1. e \in Event /\ EventShaped(e)
    BY DEF IInv, TypeOK, WorkInv, Shaped
  <2>2. e.request.start - e.processed \in EventBytes(e)
    BY <2>1 DEF Event, Request, EventShaped, EventBytes
  <2>3. e.request.start - e.processed \in InEvents[i] /\ i \in DOMAIN InEvents
    BY <2>2 DEF InEvents
  <2> QED
    BY <1>3, <2>3 DEF Held, Among, Member
<1>7. queue = <<>> /\ completions = <<>>
  <2> QED
    BY <1>4, <1>6, HeadTailElements DEF IInv, TypeOK
<1>8. QuietBetweenSteps'
  BY <1>1, <1>5, <1>7 DEF QuietBetweenSteps
<1>9. WorkInv'
  BY <1>1, <1>8, IdleWork DEF Idle
<1>10. Pending' = {}
  <2>1. Queued' = Queued /\ InThreads' = InThreads /\ InEvents' = InEvents
        /\ Undispatched' = Undispatched
    BY <1>1 DEF Queued, InThreads, InEvents, Undispatched
  <2> QED
    BY <1>3, <2>1, PendingHeld DEF PendingIsHeld, Held
<1> QED
  BY <1>2, <1>9, <1>10

\* sync runs between steps only.
LEMMA ResyncWork ==
    ASSUME WorkInv, NEW newHotkey \in SUBSET Uid, NEW newAxon \in SUBSET Uid,
           NEW reach \in SUBSET Uid, Resync(newHotkey, newAxon, reach)
    PROVE  WorkInv' /\ UNCHANGED <<pc, step>> /\ pc = "idle"
<1>1. /\ pc = "idle"
      /\ UNCHANGED <<pc, step, rest, dataProcessed, queue, available, completions,
                     worker>>
  BY DEF Resync, stepVars
<1>2. Idle'
  BY <1>1 DEF WorkInv, QuietBetweenSteps, Phases, Idle
<1> QED
  BY <1>1, <1>2, IdleWork

\* Nothing changes.
LEMMA StutterWork ==
    ASSUME WorkInv, UNCHANGED vars
    PROVE  WorkInv' /\ Pending' = Pending
<1>1. UNCHANGED <<pc, step, position, rest, dataProcessed, queue, available,
                  completions, worker>>
  BY DEF vars, stepVars
<1>2. Queued' = Queued /\ InThreads' = InThreads /\ InEvents' = InEvents
      /\ Undispatched' = Undispatched
  BY <1>1 DEF Queued, InThreads, InEvents, Undispatched
<1>3. AllApart' /\ \A p : Held(p)' <=> Held(p)
  BY <1>2 DEF WorkInv, AllApart, Held
<1>4. Pending' = Pending
  BY <1>3, PendingHeld DEF PendingIsHeld
<1>5. Shaped'
  BY <1>1 DEF WorkInv, Shaped, ThreadShaped, ChunkLen
<1>6. InStep' /\ WorkConserved' /\ QuietBetweenSteps' /\ Phases'
  BY <1>1, <1>4 DEF WorkInv, InStep, StepBytes, WorkConserved, QuietBetweenSteps, Phases
<1> QED
  BY <1>3, <1>4, <1>5, <1>6 DEF WorkInv

\* A thread never changes what is pending.
LEMMA ThreadWork ==
    ASSUME IInv, WorkInv, NEW w \in Worker, Work(w)
    PROVE  WorkInv' /\ Pending' = Pending /\ UNCHANGED <<pc, step>>
<1>1. CASE ReceiveRequest(w)
  BY <1>1, ReceiveRequestWork DEF ReceiveRequest, stepVars
<1>2. CASE ReceiveWorker(w)
  BY <1>2, ReceiveWorkerWork DEF ReceiveWorker, stepVars
<1>3. CASE WriteHeader(w)
  BY <1>3, WriteHeaderWork DEF WriteHeader, stepVars
<1>4. CASE \E n \in 1 .. Window(w) : Write(w, n)
  BY <1>4, WriteWork DEF Write, stepVars
<1>5. CASE \E n \in 1 .. worker[w].written - worker[w].read :
              \E wrong \in SUBSET (ReadAt(w) .. ReadAt(w) + n - 1) :
                 Read(w, n, wrong)
  BY <1>5, ReadWork DEF Read
<1>6. CASE WriteHeaderFails(w) \/ WriteFails(w) \/ ReadFails(w) \/ ReadRefuted(w)
  BY <1>6, FailureWork DEF WriteHeaderFails, WriteFails, ReadFails, ReadRefuted, stepVars
<1> QED
  BY <1>1, <1>2, <1>3, <1>4, <1>5, <1>6 DEF Work

\* Every step keeps the invariant.
LEMMA NextWork == IInv /\ WorkInv /\ [Next]_vars => WorkInv'
<1> SUFFICES ASSUME IInv, WorkInv, [Next]_vars PROVE WorkInv'
  OBVIOUS
<1>1. CASE Main
  BY <1>1, BeginStepWork, DispatchWork, CollectEventWork, FinishStepWork DEF Main
<1>2. CASE \E w \in Worker : Work(w)
  BY <1>2, ThreadWork
<1>3. CASE Sync
  BY <1>3, ResyncWork DEF Sync
<1>4. CASE UNCHANGED vars
  BY <1>4, StutterWork
<1> QED
  BY <1>1, <1>2, <1>3, <1>4 DEF Next

\* The invariant holds in every reachable state.
LEMMA SpecWork == Spec => [](IInv /\ WorkInv)
<1>1. Init => IInv /\ WorkInv
  BY InitIInv, InitWork
<1>2. IInv /\ WorkInv /\ [Next]_vars => (IInv /\ WorkInv)'
  BY NextIInv, NextWork
<1> QED
  BY <1>1, <1>2, PTL DEF Spec

\* The &mut [u8] chunks that do_work's threads cut out of the shared row never
\* overlap, for any number of miners, any weights, sizes and steps.
THEOREM ChunksAreDisjoint == Spec => []ChunksDisjoint
<1>1. WorkInv => ChunksDisjoint
  BY ApartIsDisjoint DEF WorkInv
<1> QED
  BY <1>1, SpecWork, PTL

\* data_processed and the outstanding work always add up to the bytes of the
\* row: do_step ends exactly when all of them are done.
THEOREM WorkIsConserved == Spec => []WorkConserved
<1>1. WorkInv => WorkConserved
  BY DEF WorkInv
<1> QED
  BY <1>1, SpecWork, PTL

\* Between steps the channels are empty and every thread waits for a request:
\* what the main thread does then to row and neurons races with nobody.
THEOREM QuietBetween == Spec => []QuietBetweenSteps
<1>1. WorkInv => QuietBetweenSteps
  BY DEF WorkInv
<1> QED
  BY <1>1, SpecWork, PTL

-------------------------------------------------------------------------------
\* The step loop implements Evolution.

\* Every step is one of Evolution, or none of it.
LEMMA StepRefines ==
    ASSUME IInv, WorkInv, [Next]_vars
    PROVE  [Abstract!Next]_(Abstract!vars)
<1> DEFINE Same == UNCHANGED <<step, pc # "idle", Pending>>
<1>0. Same => UNCHANGED Abstract!vars
  BY DEF Abstract!vars
<1>1. ASSUME BeginStep
      PROVE  Abstract!Begin
  <2>1. /\ pc = "idle" /\ pc' = "dispatch" /\ step < MaxStep /\ step' = step
        /\ Pending' = StepBytes
    BY <1>1, BeginStepWork DEF BeginStep
  <2>2. StepBytes = 0 .. Abstract!ByteCount(step) - 1
    BY DEF StepBytes, ByteCount, CeilDiv, ByteBits, Abstract!ByteCount,
           Abstract!CeilDiv, Abstract!ByteBits
  <2> QED
    BY <2>1, <2>2 DEF Abstract!Begin
<1>2. CASE DispatchChunk \/ FinishDispatch
  <2>1. pc = "dispatch" /\ pc' \in {"dispatch", "collect"} /\ step' = step
    BY <1>2 DEF DispatchChunk, FinishDispatch
  <2> QED
    BY <1>0, <1>2, <2>1, DispatchWork
<1>3. CASE CollectCompleted \/ CollectFailed \/ CollectCheated
  <2>1. pc = "collect" /\ pc' = "collect" /\ step' = step
    BY <1>3 DEF CollectCompleted, CollectFailed, CollectCheated, Collecting, stepVars
  <2>2. PICK done : done \subseteq Pending /\ Pending' = Pending \ done
    BY <1>3, CollectEventWork
  <2>3. CASE done = {}
    BY <1>0, <2>1, <2>2, <2>3
  <2>4. CASE done # {}
    BY <2>1, <2>2, <2>4 DEF Abstract!Next, Abstract!Settle
  <2> QED
    BY <2>3, <2>4
<1>4. CASE FinishStep
  <2>1. pc = "collect" /\ pc' = "idle" /\ step' = step + 1
    BY <1>4 DEF FinishStep
  <2> QED
    BY <1>4, <2>1, FinishStepWork DEF Abstract!Next, Abstract!Advance
<1>5. CASE \E w \in Worker : Work(w)
  BY <1>0, <1>5, ThreadWork
<1>6. CASE Sync
  <2>1. /\ UNCHANGED <<pc, step, position, queue, completions, worker>>
    BY <1>6 DEF Sync, Resync, stepVars
  <2>2. Queued' = Queued /\ InThreads' = InThreads /\ InEvents' = InEvents
        /\ Undispatched' = Undispatched
    BY <2>1 DEF Queued, InThreads, InEvents, Undispatched
  <2>3. Pending' = Pending
    BY <2>2, PendingHeld DEF PendingIsHeld, Held
  <2> QED
    BY <1>0, <2>1, <2>3
<1>7. CASE UNCHANGED vars
  BY <1>0, <1>7, StutterWork DEF vars, stepVars
<1> QED
  BY <1>1, <1>2, <1>3, <1>4, <1>5, <1>6, <1>7 DEF Next, Main, Abstract!Next

\* Every step of the validator takes the whole row as work, accounts for each
\* of its bytes once and only then ends: do_step and handle_completion_events,
\* with any number of threads and miners, implement Evolution.
THEOREM ImplementsEvolution == Spec => EvolutionSpec
<1>1. Init => Abstract!Init
  <2> SUFFICES ASSUME Init PROVE Abstract!Init
    OBVIOUS
  <2>1. QuietBetweenSteps /\ pc = "idle" /\ step = InitStep
    BY InitWork DEF Init, WorkInv
  <2>2. Pending = {}
    BY <2>1, QuietHoldsNothing, PendingHeld DEF PendingIsHeld
  <2> QED
    BY <2>1, <2>2 DEF Abstract!Init
<1>2. IInv /\ WorkInv /\ [Next]_vars => [Abstract!Next]_(Abstract!vars)
  BY StepRefines
<1> QED
  BY <1>1, <1>2, SpecWork, PTL DEF Spec, EvolutionSpec, Abstract!Spec

-------------------------------------------------------------------------------
\* Streams.  A set of UIDs per holder: the available workers, the threads that
\* received one, the events (of any kind: those of a failed or refuted miner
\* count until its connection is dropped), and what do_step has not handed out.

Offered == [i \in DOMAIN available |-> {available[i]}]
Served == [w \in Worker |-> IF Streaming(w) THEN {worker[w].uid} ELSE {}]
Reported == [i \in DOMAIN completions |-> {completions[i].uid}]
Unoffered == {rest[i] : i \in DOMAIN rest}

StreamsApart == Separate(Offered, Served, Reported, Unoffered)

Owned(u) == Among(u, Offered, Served, Reported, Unoffered)

RestDistinct == \A i, j \in DOMAIN rest : i # j => rest[i] # rest[j]

OwnedConnected == \A u : Owned(u) => u \in Uid /\ conn[u]

StreamInv == StreamsApart /\ RestDistinct /\ OwnedConnected

\* StreamInv is stronger than StreamExclusive.
LEMMA StreamInvExclusive == StreamInv => StreamExclusive
<1> SUFFICES ASSUME StreamInv PROVE StreamExclusive
  OBVIOUS
<1> DEFINE In(h) == \/ /\ h[1] = "rest" /\ h[2] \in DOMAIN rest
                       /\ StreamOf(h) = rest[h[2]]
                    \/ /\ h[1] = "available" /\ h[2] \in DOMAIN available
                       /\ StreamOf(h) = available[h[2]]
                    \/ /\ h[1] = "worker" /\ h[2] \in Worker /\ Streaming(h[2])
                       /\ StreamOf(h) = worker[h[2]].uid
                    \/ /\ h[1] = "event" /\ h[2] \in DOMAIN completions
                       /\ StreamOf(h) = completions[h[2]].uid
<1>1. ASSUME NEW h \in StreamHolders
      PROVE  h = <<h[1], h[2]>> /\ In(h)
  BY DEF StreamHolders, StreamOf
<1>2. /\ DOMAIN Offered = DOMAIN available /\ DOMAIN Served = Worker
      /\ DOMAIN Reported = DOMAIN completions
      /\ \A i \in DOMAIN available : Offered[i] = {available[i]}
      /\ \A w \in Worker : Streaming(w) => Served[w] = {worker[w].uid}
      /\ \A i \in DOMAIN completions : Reported[i] = {completions[i].uid}
      /\ \A i \in DOMAIN rest : rest[i] \in Unoffered
  BY DEF Offered, Served, Reported, Unoffered
<1>3. ASSUME NEW h \in StreamHolders
      PROVE  conn[StreamOf(h)]
  <2>1. Owned(StreamOf(h))
    BY <1>1, <1>2 DEF Owned, Among, Member
  <2> QED
    BY <2>1 DEF StreamInv, OwnedConnected
<1>4. /\ \A i, j \in DOMAIN rest : i # j => rest[i] # rest[j]
      /\ \A i, j \in DOMAIN available : i # j => available[i] # available[j]
      /\ \A v, w \in Worker : Streaming(v) /\ Streaming(w) /\ v # w
                                 => worker[v].uid # worker[w].uid
      /\ \A i, j \in DOMAIN completions : i # j => completions[i].uid # completions[j].uid
  BY <1>2 DEF StreamInv, StreamsApart, Separate, Apart, RestDistinct
<1>5. /\ \A i \in DOMAIN rest, j \in DOMAIN available : rest[i] # available[j]
      /\ \A i \in DOMAIN rest, w \in Worker : Streaming(w) => rest[i] # worker[w].uid
      /\ \A i \in DOMAIN rest, j \in DOMAIN completions : rest[i] # completions[j].uid
  BY <1>2 DEF StreamInv, StreamsApart, Separate, Apart
<1>6. /\ \A i \in DOMAIN available, w \in Worker :
            Streaming(w) => available[i] # worker[w].uid
      /\ \A i \in DOMAIN available, j \in DOMAIN completions :
            available[i] # completions[j].uid
      /\ \A w \in Worker, j \in DOMAIN completions :
            Streaming(w) => worker[w].uid # completions[j].uid
  BY <1>2 DEF StreamInv, StreamsApart, Separate, Apart
<1>7. ASSUME NEW g \in StreamHolders, NEW h \in StreamHolders, g # h
      PROVE  StreamOf(g) # StreamOf(h)
  <2>1. In(g) /\ In(h) /\ (g[1] = h[1] => g[2] # h[2])
    BY <1>1, <1>7
  <2>2. CASE g[1] = "rest"
    BY <1>4, <1>5, <2>1, <2>2
  <2>3. CASE g[1] = "available"
    BY <1>4, <1>5, <1>6, <2>1, <2>3
  <2>4. CASE g[1] = "worker"
    BY <1>4, <1>5, <1>6, <2>1, <2>4
  <2>5. CASE g[1] = "event"
    BY <1>4, <1>5, <1>6, <2>1, <2>5
  <2> QED
    BY <2>1, <2>2, <2>3, <2>4, <2>5
<1> QED
  BY <1>3, <1>7 DEF StreamExclusive

\* Between steps nobody holds a stream.
LEMMA IdleStreams == (Idle => StreamInv) /\ (Idle' => StreamInv')
<1>1. Idle => StreamInv
  <2> SUFFICES ASSUME Idle PROVE StreamInv
    OBVIOUS
  <2>1. /\ available = <<>> /\ completions = <<>> /\ rest = <<>>
        /\ \A w \in Worker : ~Streaming(w)
    BY DEF Idle, QuietBetweenSteps, Resting, Streaming
  <2>2. /\ Offered = <<>> /\ Reported = <<>> /\ Unoffered = {}
        /\ DOMAIN Served = Worker /\ \A w \in Worker : Served[w] = {}
    BY <2>1 DEF Offered, Reported, Unoffered, Served
  <2>3. StreamsApart /\ \A u : ~Owned(u)
    BY <2>2 DEF StreamsApart, Separate, Apart, Owned, Among, Member
  <2> QED
    BY <2>1, <2>3 DEF StreamInv, RestDistinct, OwnedConnected
<1> QED
  BY <1>1, PTL

\* Streams in the channel when one is appended, and
LEMMA OfferedExtends ==
    ASSUME available \in Seq(Uid), NEW u \in Uid, available' = Append(available, u)
    PROVE  \E n : Extends(Offered', Offered, n, {u})
<1>1. Extends(Offered', Offered, Len(available) + 1, {u})
  BY AppendPlaces DEF Offered, Extends
<1> QED
  BY <1>1

\* when the first is received.
LEMMA OfferedShifts ==
    ASSUME available \in Seq(Uid), available # <<>>, available' = Tail(available)
    PROVE  Shifted(Offered', Offered) /\ Offered[1] = {Head(available)}
BY TailPlaces DEF Offered, Shifted

\* Streams in events when one is appended, and
LEMMA ReportedExtends ==
    ASSUME completions \in Seq(Event), NEW e \in Event,
           completions' = Append(completions, e)
    PROVE  \E n : Extends(Reported', Reported, n, {e.uid})
<1>1. Extends(Reported', Reported, Len(completions) + 1, {e.uid})
  BY AppendPlaces DEF Reported, Extends
<1> QED
  BY <1>1

\* when the first is collected.
LEMMA ReportedShifts ==
    ASSUME completions \in Seq(Event), completions # <<>>,
           completions' = Tail(completions)
    PROVE  Shifted(Reported', Reported) /\ Reported[1] = {Head(completions).uid}
BY TailPlaces DEF Reported, Shifted

\* Streams only move.
LEMMA SameStreams ==
    ASSUME StreamInv, StreamsApart', \A u : Owned(u)' <=> Owned(u), RestDistinct',
           conn' = conn
    PROVE  StreamInv'
BY DEF StreamInv, OwnedConnected

\* A step takes every connection once.
LEMMA BeginStepStreams ==
    ASSUME IInv, WorkInv, BeginStep
    PROVE  StreamInv'
<1>1. /\ pc = "idle" /\ rest' \in WorkerConnections
      /\ UNCHANGED <<available, completions, worker, conn>>
  BY DEF BeginStep, neuronVars
<1>2. /\ available' = <<>> /\ completions' = <<>>
      /\ \A w \in Worker : worker'[w] = Resting
  BY <1>1 DEF WorkInv, QuietBetweenSteps
<1>3. \A i \in DOMAIN rest' : rest'[i] \in Connected
  BY <1>1 DEF WorkerConnections
<1>4. RestDistinct'
  <2>1. SUFFICES ASSUME NEW i \in DOMAIN rest', NEW j \in DOMAIN rest', i # j
                 PROVE  rest'[i] # rest'[j]
    BY DEF RestDistinct
  <2>2. Cardinality(Connected) \in Nat
    BY SubsetOfUid, PoolAssumption DEF Connected
  <2>3. /\ DOMAIN rest' = 1 .. Cardinality(Connected)
        /\ \A k, l \in DOMAIN rest' : k < l =>
              \/ weight[rest'[k]] > weight[rest'[l]]
              \/ rest'[k] < rest'[l]
        /\ \A k \in DOMAIN rest' : rest'[k] \in Uid /\ weight[rest'[k]] \in 1 .. MaxWeight
    BY <1>1, <1>3 DEF WorkerConnections, Connected, IInv, TypeOK
  <2>4. i \in Int /\ j \in Int
    BY <2>2, <2>3
  <2>5. rest'[i] \in Int /\ rest'[j] \in Int
        /\ weight[rest'[i]] \in Int /\ weight[rest'[j]] \in Int
    BY <2>3, PoolAssumption DEF Uid
  <2>6. CASE i < j
    BY <2>3, <2>5, <2>6
  <2>7. CASE j < i
    BY <2>3, <2>5, <2>7
  <2> QED
    BY <2>1, <2>4, <2>6, <2>7
<1>5. /\ Offered' = <<>> /\ Reported' = <<>>
      /\ DOMAIN Served' = Worker /\ \A w \in Worker : Served'[w] = {}
      /\ \A u \in Unoffered' : u \in Uid /\ conn'[u]
  BY <1>1, <1>2, <1>3 DEF Offered, Reported, Served, Unoffered, Streaming, Resting,
                          Connected
<1>6. StreamsApart' /\ OwnedConnected'
  BY <1>5 DEF StreamsApart, Separate, Apart, Owned, Among, Member, OwnedConnected
<1> QED
  BY <1>4, <1>6 DEF StreamInv

\* The head of the rest goes into the channel.
LEMMA DispatchChunkStreams ==
    ASSUME IInv, StreamInv, DispatchChunk
    PROVE  StreamInv'
<1>1. /\ rest \in Seq(Uid) /\ rest # <<>> /\ rest' = Tail(rest)
      /\ available \in Seq(Uid) /\ available' = Append(available, Head(rest))
      /\ UNCHANGED <<completions, worker, conn>>
  BY DEF DispatchChunk, neuronVars, IInv, TypeOK
<1>2. /\ Head(rest) \in Uid /\ 1 \in DOMAIN rest /\ Head(rest) = rest[1]
      /\ \A i \in DOMAIN rest' :
            i \in Nat /\ i + 1 \in DOMAIN rest /\ i + 1 # 1 /\ rest'[i] = rest[i + 1]
      /\ \A i \in DOMAIN rest : i \in Int /\ (i # 1 => i - 1 \in DOMAIN rest')
  BY <1>1, TailPlaces, HeadTailElements
<1>3. PICK n : Extends(Offered', Offered, n, {Head(rest)})
  BY <1>1, <1>2, OfferedExtends
<1>4. RestDistinct'
  BY <1>2 DEF StreamInv, RestDistinct
<1>5. /\ \A u : u \in Unoffered <=> u \in {Head(rest)} \/ u \in Unoffered'
      /\ Apart({Head(rest)}, Unoffered')
  <2>1. ASSUME NEW u \in Unoffered
        PROVE  u = Head(rest) \/ u \in Unoffered'
    <3>1. PICK i \in DOMAIN rest : u = rest[i]
      BY DEF Unoffered
    <3>2. i # 1 => i - 1 \in DOMAIN rest' /\ rest'[i - 1] = u
      BY <1>2, <3>1
    <3> QED
      BY <1>2, <3>1, <3>2 DEF Unoffered
  <2>2. ASSUME NEW u \in Unoffered'
        PROVE  u \in Unoffered /\ u # Head(rest)
    <3>1. PICK i \in DOMAIN rest' : u = rest'[i]
      BY DEF Unoffered
    <3> QED
      BY <1>2, <3>1 DEF Unoffered, StreamInv, RestDistinct
  <2>3. Head(rest) \in Unoffered
    BY <1>2 DEF Unoffered
  <2> QED
    BY <2>1, <2>2, <2>3 DEF Apart
<1>6. Served' = Served /\ Reported' = Reported
  BY <1>1 DEF Served, Reported, Streaming
<1>7. /\ Separate(Offered', Served, Reported, Unoffered')
      /\ \A u : Among(u, Offered', Served, Reported, Unoffered')
                   <=> Among(u, Offered, Served, Reported, Unoffered)
  BY <1>3, <1>5, DispatchApart DEF StreamInv, StreamsApart
<1> QED
  BY <1>1, <1>4, <1>6, <1>7, SameStreams DEF StreamsApart, Owned

\* So do all others.
LEMMA FinishDispatchStreams ==
    ASSUME IInv, StreamInv, FinishDispatch
    PROVE  StreamInv'
<1>1. /\ rest \in Seq(Uid) /\ rest' = <<>>
      /\ available \in Seq(Uid) /\ available' = available \o rest
      /\ UNCHANGED <<completions, worker, conn>>
  BY DEF FinishDispatch, neuronVars, IInv, TypeOK
<1>2. /\ Len(available) \in Nat /\ Len(rest) \in Nat
      /\ DOMAIN available = 1 .. Len(available) /\ DOMAIN rest = 1 .. Len(rest)
      /\ DOMAIN available' = 1 .. Len(available) + Len(rest)
      /\ \A i \in 1 .. Len(available) + Len(rest) :
            available'[i] = IF i <= Len(available) THEN available[i]
                            ELSE rest[i - Len(available)]
  BY <1>1, ConcatProperties, LenProperties
<1>3. /\ DOMAIN Offered' = 1 .. Len(available) + Len(rest)
      /\ DOMAIN Offered = 1 .. Len(available)
      /\ Unoffered' = {} /\ Served' = Served /\ Reported' = Reported
  BY <1>1, <1>2 DEF Offered, Unoffered, Served, Reported, Streaming
<1>4. ASSUME NEW i \in DOMAIN Offered'
      PROVE  \/ i \in DOMAIN Offered /\ Offered'[i] = Offered[i]
             \/ /\ i - Len(available) \in DOMAIN rest /\ i \in Int
                /\ i \notin DOMAIN Offered
                /\ Offered'[i] = {rest[i - Len(available)]}
  BY <1>2, <1>3 DEF Offered
<1>5. \A i \in DOMAIN rest : rest[i] \in Unoffered
  BY DEF Unoffered
<1>6. \A u \in Unoffered : \E i \in DOMAIN rest : /\ Len(available) + i \in DOMAIN Offered'
                                                 /\ Offered'[Len(available) + i] = {u}
  BY <1>2, <1>3 DEF Unoffered, Offered
<1>7. \A i \in DOMAIN Offered : i \in DOMAIN Offered' /\ Offered'[i] = Offered[i]
  BY <1>2, <1>3 DEF Offered
<1>8. Separate(Offered', Served, Reported, {})
  <2>1. ASSUME NEW i \in DOMAIN Offered', NEW j \in DOMAIN Offered', i # j
        PROVE  Apart(Offered'[i], Offered'[j])
    <3>1. CASE i \in DOMAIN Offered /\ j \in DOMAIN Offered
      BY <1>4, <2>1, <3>1 DEF StreamInv, StreamsApart, Separate
    <3>2. CASE i \in DOMAIN Offered /\ j \notin DOMAIN Offered
      BY <1>4, <1>5, <3>2 DEF StreamInv, StreamsApart, Separate, Apart
    <3>3. CASE i \notin DOMAIN Offered /\ j \in DOMAIN Offered
      BY <1>4, <1>5, <3>3 DEF StreamInv, StreamsApart, Separate, Apart
    <3>4. CASE i \notin DOMAIN Offered /\ j \notin DOMAIN Offered
      <4>1. /\ i - Len(available) \in DOMAIN rest /\ j - Len(available) \in DOMAIN rest
            /\ i - Len(available) # j - Len(available)
            /\ Offered'[i] = {rest[i - Len(available)]}
            /\ Offered'[j] = {rest[j - Len(available)]}
        BY <1>2, <1>4, <2>1, <3>4
      <4> QED
        BY <4>1 DEF StreamInv, RestDistinct, Apart
    <3> QED
      BY <3>1, <3>2, <3>3, <3>4
  <2>2. ASSUME NEW i \in DOMAIN Offered', NEW u \in Offered'[i]
        PROVE  (\E j \in DOMAIN Offered : u \in Offered[j]) \/ u \in Unoffered
    BY <1>4, <1>5, <2>2
  <2>3. \A i \in DOMAIN Offered', w \in DOMAIN Served : Apart(Offered'[i], Served[w])
    BY <2>2 DEF StreamInv, StreamsApart, Separate, Apart
  <2>4. \A i \in DOMAIN Offered', j \in DOMAIN Reported : Apart(Offered'[i], Reported[j])
    BY <2>2 DEF StreamInv, StreamsApart, Separate, Apart
  <2> QED
    BY <2>1, <2>3, <2>4 DEF StreamInv, StreamsApart, Separate, Apart
<1>9. ASSUME NEW u
      PROVE  Among(u, Offered', Served, Reported, {})
                <=> Among(u, Offered, Served, Reported, Unoffered)
  <2>1. Member(u, Offered') => Member(u, Offered) \/ u \in Unoffered
    BY <1>4, <1>5 DEF Member
  <2>2. Member(u, Offered) => Member(u, Offered')
    BY <1>7 DEF Member
  <2>3. u \in Unoffered => Member(u, Offered')
    BY <1>6 DEF Member
  <2> QED
    BY <2>1, <2>2, <2>3 DEF Among
<1>10. RestDistinct'
  BY <1>1 DEF RestDistinct
<1> QED
  BY <1>1, <1>3, <1>8, <1>9, <1>10, SameStreams DEF StreamsApart, Owned

\* A thread that stays with its miner, or without one, changes no holder.
LEMMA KeepStream ==
    ASSUME StreamInv, NEW w \in Worker,
           Streaming(w)' <=> Streaming(w), worker'[w].uid = worker[w].uid,
           \A v \in Worker : v # w => worker'[v] = worker[v],
           UNCHANGED <<rest, available, completions, conn>>
    PROVE  StreamInv'
<1>1. Offered' = Offered /\ Reported' = Reported /\ Unoffered' = Unoffered
  BY DEF Offered, Reported, Unoffered
<1>2. Served' = Served
  <2>1. \A v \in Worker : /\ Streaming(v)' <=> Streaming(v)
                          /\ worker'[v].uid = worker[v].uid
    BY DEF Streaming
  <2> QED
    BY <2>1 DEF Served
<1>3. RestDistinct' /\ conn' = conn
  BY DEF StreamInv, RestDistinct
<1> QED
  BY <1>1, <1>2, <1>3, SameStreams DEF StreamInv, StreamsApart, Owned

\* A thread takes the first of the channel.
LEMMA ReceiveWorkerStreams ==
    ASSUME IInv, StreamInv, NEW w \in Worker, ReceiveWorker(w)
    PROVE  StreamInv'
<1>1. /\ worker[w].pc = "recv_worker" /\ available # <<>>
      /\ available' = Tail(available) /\ available \in Seq(Uid)
      /\ UNCHANGED <<rest, completions, conn>>
  BY DEF ReceiveWorker, stepVars, neuronVars, IInv, TypeOK
<1>2. /\ worker'[w].pc = "header" /\ worker'[w].uid = Head(available)
      /\ \A v \in Worker : v # w => worker'[v] = worker[v]
  BY DEF ReceiveWorker, Step, IInv, TypeOK, WorkerState
<1>3. Shifted(Offered', Offered) /\ Offered[1] = {Head(available)}
  BY <1>1, OfferedShifts
<1>4. Replaced(Served', Served, w, Offered[1]) /\ Served[w] = {}
  <2>1. /\ ~Streaming(w) /\ Streaming(w)'
        /\ \A v \in Worker : v # w => (Streaming(v)' <=> Streaming(v))
                                       /\ worker'[v].uid = worker[v].uid
    BY <1>1, <1>2 DEF Streaming
  <2> QED
    BY <1>2, <1>3, <2>1 DEF Served, Replaced
<1>5. Reported' = Reported /\ Unoffered' = Unoffered /\ RestDistinct' /\ conn' = conn
  BY <1>1 DEF Reported, Unoffered, StreamInv, RestDistinct
<1>6. /\ Separate(Offered', Served', Reported, Unoffered)
      /\ \A u : Among(u, Offered', Served', Reported, Unoffered)
                   <=> Among(u, Offered, Served, Reported, Unoffered)
  BY <1>3, <1>4, TakeApart DEF StreamInv, StreamsApart
<1> QED
  BY <1>5, <1>6, SameStreams DEF StreamsApart, Owned

\* The stream of a thread goes with its report.
LEMMA ReportStreams ==
    ASSUME IInv, StreamInv, NEW w \in Worker, Streaming(w),
           NEW kind \in {"completed", "failed", "cheated"},
           NEW processed \in Nat, NEW remaining \in Request,
           Report(w, kind, processed, remaining),
           UNCHANGED <<rest, available, conn>>
    PROVE  StreamInv'
<1> DEFINE event == [uid |-> worker[w].uid, kind |-> kind,
                     processed |-> processed, request |-> remaining]
<1>1. event \in Event /\ event.uid = worker[w].uid
  BY DEF IInv, TypeOK, WorkerState, Event
<1>2. completions' = Append(completions, event) /\ Step(w, Resting)
      /\ completions \in Seq(Event)
  BY DEF Report, IInv, TypeOK
<1> HIDE DEF event
<1>3. /\ worker'[w] = Resting
      /\ \A v \in Worker : v # w => worker'[v] = worker[v]
  BY <1>2, StepKeepsType, RestingType DEF IInv, TypeOK
<1>4. PICK n : Extends(Reported', Reported, n, Served[w])
  BY <1>1, <1>2, ReportedExtends DEF Served
<1>5. Replaced(Served', Served, w, {})
  <2>1. /\ ~Streaming(w)'
        /\ \A v \in Worker : v # w => (Streaming(v)' <=> Streaming(v))
                                       /\ worker'[v].uid = worker[v].uid
    BY <1>3 DEF Streaming, Resting
  <2> QED
    BY <2>1 DEF Served, Replaced
<1>6. /\ Offered' = Offered /\ Unoffered' = Unoffered /\ RestDistinct' /\ conn' = conn
  BY DEF Offered, Unoffered, StreamInv, RestDistinct
<1>7. /\ Separate(Offered, Served', Reported', Unoffered)
      /\ \A u : Among(u, Offered, Served', Reported', Unoffered)
                   <=> Among(u, Offered, Served, Reported, Unoffered)
  BY <1>4, <1>5, ReportApart DEF StreamInv, StreamsApart
<1> QED
  BY <1>6, <1>7, SameStreams DEF StreamsApart, Owned

\* The other actions of a thread keep its stream, or give it up.
LEMMA ThreadStreams ==
    ASSUME IInv, StreamInv, NEW w \in Worker, Work(w)
    PROVE  StreamInv'
<1>0. /\ worker \in [Worker -> WorkerState]
      /\ worker[w].request \in Request /\ worker[w].total \in Nat
      /\ worker[w].read \in Nat /\ worker[w].written \in Nat
      /\ worker[w].last \in Carry /\ worker[w].lastByte \in Carry
  BY DEF IInv, TypeOK, WorkerState
<1>1. CASE ReceiveRequest(w)
  <2>1. /\ ~Streaming(w) /\ ~Streaming(w)' /\ worker'[w].uid = worker[w].uid
        /\ \A v \in Worker : v # w => worker'[v] = worker[v]
        /\ UNCHANGED <<rest, available, completions, conn>>
    BY <1>0, <1>1 DEF ReceiveRequest, Step, Streaming, WorkerState, stepVars, neuronVars
  <2> QED
    BY <2>1, KeepStream
<1>2. CASE ReceiveWorker(w)
  BY <1>2, ReceiveWorkerStreams
<1>3. CASE WriteHeader(w)
  <2>1. /\ Streaming(w) /\ Streaming(w)' /\ worker'[w].uid = worker[w].uid
        /\ \A v \in Worker : v # w => worker'[v] = worker[v]
        /\ UNCHANGED <<rest, available, completions, conn>>
    BY <1>0, <1>3 DEF WriteHeader, Step, Streaming, WorkerState, stepVars, neuronVars
  <2> QED
    BY <2>1, KeepStream
<1>4. CASE \E n \in 1 .. Window(w) : Write(w, n)
  <2>1. PICK n \in 1 .. Window(w) : Write(w, n)
    BY <1>4
  <2>2. /\ Streaming(w) /\ Streaming(w)' /\ worker'[w].uid = worker[w].uid
        /\ \A v \in Worker : v # w => worker'[v] = worker[v]
        /\ UNCHANGED <<rest, available, completions, conn>>
    BY <1>0, <2>1 DEF Write, Step, Streaming, WorkerState, stepVars, neuronVars
  <2> QED
    BY <2>2, KeepStream
<1>5. ASSUME NEW len \in 1 .. worker[w].written - worker[w].read,
             NEW wrong, Read(w, len, wrong)
      PROVE  StreamInv'
  <2>1. Streaming(w) /\ AfterRead(w, len) /\ UNCHANGED <<rest, available, conn>>
    BY <1>5 DEF Read, Streaming, neuronVars
  <2>2. CASE /\ \/ \E read, last : Step(w, [worker[w] EXCEPT !.read = read,
                                                            !.readLast = last])
                \/ \E total, last : Step(w, [worker[w] EXCEPT !.pc = "write",
                                                  !.total = total, !.last = last])
             /\ UNCHANGED completions
    <3>1. /\ Streaming(w)' /\ worker'[w].uid = worker[w].uid
          /\ \A v \in Worker : v # w => worker'[v] = worker[v]
      BY <1>0, <1>5, <2>2 DEF Read, Step, Streaming, WorkerState
    <3> QED
      BY <2>1, <2>2, <3>1, KeepStream
  <2>3. CASE \E total \in Nat : Report(w, "completed", total,
                                      Remaining(w, total, worker[w].lastByte))
    <3>1. PICK total \in Nat : Report(w, "completed", total,
                                      Remaining(w, total, worker[w].lastByte))
      BY <2>3
    <3> QED
      BY <1>0, <2>1, <3>1, RemainingShape, ReportStreams
  <2>4. worker[w].total + (worker[w].read + len) \in Nat
    BY <1>0
  <2> QED
    BY <2>1, <2>2, <2>3, <2>4 DEF AfterRead
<1>6. CASE WriteHeaderFails(w) \/ ReadRefuted(w)
  <2>1. /\ Streaming(w) /\ UNCHANGED <<rest, available, conn>>
        /\ \E kind \in {"failed", "cheated"} : Report(w, kind, 0, worker[w].request)
    BY <1>6 DEF WriteHeaderFails, ReadRefuted, Streaming, stepVars, neuronVars
  <2> QED
    BY <1>0, <2>1, ReportStreams
<1>7. CASE WriteFails(w) \/ ReadFails(w)
  <2>1. Streaming(w) /\ UNCHANGED <<rest, available, conn>>
    BY <1>7 DEF WriteFails, ReadFails, Streaming, stepVars, neuronVars
  <2>2. \E total \in Nat, last \in Carry : Report(w, "failed", total, Remaining(w, total, last))
    <3>1. worker[w].total + worker[w].read \in Nat
      BY <1>0
    <3> QED
      BY <1>0, <1>7, <3>1 DEF WriteFails, ReadFails
  <2> QED
    BY <2>1, <2>2, RemainingShape, ReportStreams
<1> QED
  BY <1>1, <1>2, <1>3, <1>4, <1>5, <1>6, <1>7 DEF Work

\* A completed event returns its stream; a failed or refuted miner's connection is
\* dropped with the event.
LEMMA CollectStreams ==
    ASSUME IInv, StreamInv, CollectCompleted \/ CollectFailed \/ CollectCheated
    PROVE  StreamInv'
<1> DEFINE e == Head(completions)
<1>1. /\ completions # <<>> /\ completions' = Tail(completions)
      /\ completions \in Seq(Event) /\ available \in Seq(Uid)
      /\ conn \in [Uid -> BOOLEAN]
      /\ UNCHANGED <<rest, worker>>
  BY DEF CollectCompleted, CollectFailed, CollectCheated, Collecting, stepVars, IInv,
         TypeOK
<1>2. e.uid \in Uid
  <2>1. e \in Event
    BY <1>1, HeadTailElements
  <2> QED
    BY <2>1 DEF Event
<1>3. Shifted(Reported', Reported) /\ Reported[1] = {e.uid}
  BY <1>1, ReportedShifts
<1>4. Served' = Served /\ Unoffered' = Unoffered /\ RestDistinct'
  BY <1>1 DEF Served, Streaming, Unoffered, StreamInv, RestDistinct
<1>5. CASE CollectCompleted
  <2>1. available' = Append(available, e.uid) /\ conn' = conn
    BY <1>5 DEF CollectCompleted
  <2> HIDE DEF e
  <2>2. PICK n : Extends(Offered', Offered, n, {e.uid})
    BY <1>1, <1>2, <2>1, OfferedExtends
  <2>3. /\ Separate(Offered', Served, Reported', Unoffered)
        /\ \A u : Among(u, Offered', Served, Reported', Unoffered)
              <=> Among(u, Offered, Served, Reported, Unoffered)
                     /\ (u \in Reported[1] => u \in {e.uid})
    BY <1>3, <2>2, RequeueApart DEF StreamInv, StreamsApart
  <2> QED
    BY <1>3, <1>4, <2>1, <2>3, SameStreams DEF StreamsApart, Owned
<1>6. CASE CollectFailed \/ CollectCheated
  <2>1. available' = available /\ conn' = [conn EXCEPT ![e.uid] = FALSE]
    BY <1>6 DEF CollectFailed, CollectCheated, stepVars
  <2> HIDE DEF e
  <2>2. Offered' = Offered
    BY <2>1 DEF Offered
  <2>3. /\ Separate(Offered, Served, Reported', Unoffered)
        /\ \A u : Among(u, Offered, Served, Reported', Unoffered)
              <=> Among(u, Offered, Served, Reported, Unoffered) /\ u \notin Reported[1]
    BY <1>3, CollectApart DEF StreamInv, StreamsApart
  <2>4. \A u : Owned(u)' => Owned(u) /\ u # e.uid
    BY <1>3, <1>4, <2>2, <2>3 DEF Owned
  <2>5. OwnedConnected'
    BY <1>1, <2>1, <2>4 DEF StreamInv, OwnedConnected
  <2> QED
    BY <1>4, <2>2, <2>3, <2>5 DEF StreamInv, StreamsApart
<1> QED
  BY <1>5, <1>6

\* Every step keeps streams apart.
LEMMA NextStreams == IInv /\ WorkInv /\ StreamInv /\ [Next]_vars => StreamInv'
<1> SUFFICES ASSUME IInv, WorkInv, StreamInv, [Next]_vars PROVE StreamInv'
  OBVIOUS
<1>1. CASE BeginStep
  BY <1>1, BeginStepStreams
<1>2. CASE DispatchChunk \/ FinishDispatch
  BY <1>2, DispatchChunkStreams, FinishDispatchStreams
<1>3. CASE CollectCompleted \/ CollectFailed \/ CollectCheated
  BY <1>3, CollectStreams
<1>4. CASE FinishStep
  <2>1. pc' = "idle" /\ WorkInv'
    BY <1>4, FinishStepWork DEF FinishStep
  <2> QED
    BY <2>1, IdleStreams DEF WorkInv, QuietBetweenSteps, Phases, Idle
<1>5. CASE \E w \in Worker : Work(w)
  BY <1>5, ThreadStreams
<1>6. CASE Sync
  <2>1. pc' = "idle" /\ WorkInv'
    BY <1>6, ResyncWork DEF Sync
  <2> QED
    BY <2>1, IdleStreams DEF WorkInv, QuietBetweenSteps, Phases, Idle
<1>7. CASE UNCHANGED vars
  <2>1. UNCHANGED <<rest, available, completions, worker, conn>>
    BY <1>7 DEF vars, stepVars, neuronVars
  <2>2. /\ Offered' = Offered /\ Served' = Served /\ Reported' = Reported
        /\ Unoffered' = Unoffered
    BY <2>1 DEF Offered, Served, Streaming, Reported, Unoffered
  <2> QED
    BY <2>1, <2>2 DEF StreamInv, StreamsApart, RestDistinct, OwnedConnected, Owned
<1> QED
  BY <1>1, <1>2, <1>3, <1>4, <1>5, <1>6, <1>7 DEF Next, Main

\* "Each connection is only used in one thread, according to the channel logic"
\* (the SAFETY comment of do_step): a &'static mut TcpStream has one holder at a
\* time, and none once its connection is dropped.
THEOREM StreamsAreExclusive == Spec => []StreamExclusive
<1>1. Init => IInv /\ WorkInv /\ StreamInv
  <2>1. Init => Idle
    BY InitWork DEF Init, Idle, WorkInv
  <2> QED
    BY <2>1, InitIInv, InitWork, IdleStreams
<1>2. IInv /\ WorkInv /\ StreamInv /\ [Next]_vars => (IInv /\ WorkInv /\ StreamInv)'
  BY NextIInv, NextWork, NextStreams
<1>3. StreamInv => StreamExclusive
  BY StreamInvExclusive
<1> QED
  BY <1>1, <1>2, <1>3, PTL DEF Spec

-------------------------------------------------------------------------------
\* No byte is skipped.

\* The bytes of its request that a thread has read answers for.
ThreadDone(w) ==
    worker[w].request.start
        .. worker[w].request.start + worker[w].total
              + (IF worker[w].pc = "read" THEN worker[w].read ELSE 0) - 1

\* A byte that still has its old value was not answered for.
Overwritten ==
    \A p \in DOMAIN row : row[p] = "old" =>
        /\ \A w \in Worker : p \notin ThreadDone(w)
        /\ \A i \in DOMAIN completions : p \notin DoneBytes(completions[i])

SkipInv == Overwritten /\ NoByteSkipped

\* Within a step no byte becomes old (again).
OldStays == \A p \in DOMAIN row' :
               row'[p] = "old" => p \in DOMAIN row /\ row[p] = "old"

\* Between steps no byte is accounted for.
LEMMA IdleSkips == (Idle => SkipInv) /\ (Idle' => SkipInv')
<1>1. Idle => SkipInv
  <2> SUFFICES ASSUME Idle PROVE SkipInv
    OBVIOUS
  <2>1. completions = <<>> /\ \A w \in Worker : worker[w] = Resting
    BY DEF Idle, QuietBetweenSteps
  <2>2. \A w \in Worker : \A p : p \notin ThreadDone(w)
    BY <2>1 DEF ThreadDone, Resting, NoRequest
  <2> QED
    BY <2>1, <2>2 DEF SkipInv, Overwritten, NoByteSkipped, Idle
<1> QED
  BY <1>1, PTL

\* A thread changes its locals, or reports, and claims no byte that is still old.
LEMMA KeepDone ==
    ASSUME Overwritten, NEW w \in Worker, OldStays,
           \A v \in Worker : v # w => worker'[v] = worker[v],
           \A p \in DOMAIN row' : row'[p] = "old" => p \notin ThreadDone(w)',
           completions' = completions
    PROVE  Overwritten'
<1>1. \A v \in Worker : v # w => ThreadDone(v)' = ThreadDone(v)
  BY DEF ThreadDone
<1> QED
  BY <1>1 DEF Overwritten, OldStays, DoneBytes

\* What a thread reports as done is what it has overwritten.
LEMMA ReportDone ==
    ASSUME IInv, Overwritten, NEW w \in Worker, OldStays,
           NEW kind \in {"completed", "failed", "cheated"},
           NEW processed \in Nat, NEW remaining \in Request,
           Report(w, kind, processed, remaining),
           \A p \in DOMAIN row' : row'[p] = "old" =>
               p \notin remaining.start - processed .. remaining.start - 1
    PROVE  Overwritten'
<1> DEFINE event == [uid |-> worker[w].uid, kind |-> kind,
                     processed |-> processed, request |-> remaining]
<1>1. event \in Event /\ event.processed = processed /\ event.request = remaining
  BY DEF IInv, TypeOK, WorkerState, Event
<1>2. completions' = Append(completions, event) /\ Step(w, Resting)
      /\ completions \in Seq(Event)
  BY DEF Report, IInv, TypeOK
<1>3. DoneBytes(event) = remaining.start - processed .. remaining.start - 1
  BY <1>1 DEF DoneBytes
<1> HIDE DEF event
<1>4. /\ worker'[w] = Resting
      /\ \A v \in Worker : v # w => worker'[v] = worker[v]
  BY <1>2, StepKeepsType, RestingType DEF IInv, TypeOK
<1>5. /\ \A p : p \notin ThreadDone(w)'
      /\ \A v \in Worker : v # w => ThreadDone(v)' = ThreadDone(v)
  BY <1>4 DEF ThreadDone, Resting, NoRequest
<1>6. \A i \in DOMAIN completions' :
         completions'[i] = event
            \/ (i \in DOMAIN completions /\ completions'[i] = completions[i])
  BY <1>1, <1>2, AppendElements
<1>7. \A p \in DOMAIN row' : row'[p] = "old" =>
         \A i \in DOMAIN completions' : p \notin DoneBytes(completions'[i])
  BY <1>3, <1>6 DEF Overwritten, OldStays
<1> QED
  BY <1>5, <1>7 DEF Overwritten, OldStays, DoneBytes

\* What a thread that reads is about to overwrite comes after what it has done.
LEMMA DoneExtends ==
    ASSUME IInv, Overwritten, NEW w \in Worker,
           NEW len \in 1 .. worker[w].written - worker[w].read,
           NEW wrong, Read(w, len, wrong),
           NEW p \in DOMAIN row', row'[p] = "old"
    PROVE  /\ p \in DOMAIN row /\ row[p] = "old"
           /\ p \notin worker[w].request.start
                  .. worker[w].request.start + (worker[w].total + (worker[w].read + len)) - 1
<1>1. /\ worker[w].pc = "read" /\ p \in DOMAIN row
      /\ row'[p] = IF p \in ReadAt(w) .. ReadAt(w) + len - 1
                   THEN IF p \in wrong THEN "bad"
                        ELSE Evolve(p, IF p = ReadAt(w) THEN worker[w].readLast
                                       ELSE CarryBefore(row, p))
                   ELSE row[p]
  BY DEF Read
<1>2. p \notin ReadAt(w) .. ReadAt(w) + len - 1 /\ row[p] = "old"
  BY <1>1 DEF Evolve
<1>3. p \notin ThreadDone(w)
  BY <1>1, <1>2 DEF Overwritten
<1>4. /\ worker[w].request.start \in Nat /\ worker[w].total \in Nat
      /\ worker[w].read \in Nat /\ p \in Nat /\ len \in Nat
  <2>1. worker[w] \in WorkerState /\ DOMAIN row \subseteq Nat
    BY DEF IInv, TypeOK
  <2>2. /\ worker[w].request \in Request /\ worker[w].total \in Nat
        /\ worker[w].read \in Nat /\ worker[w].written \in Nat
    BY <2>1 DEF WorkerState
  <2>3. len \in Nat
    BY <2>2
  <2> QED
    BY <1>1, <2>1, <2>2, <2>3 DEF Request
<1> QED
  BY <1>1, <1>2, <1>3, <1>4 DEF ThreadDone, ReadAt

\* A thread evolves what it counts.
LEMMA ThreadSkips ==
    ASSUME IInv, WorkInv, Overwritten, NEW w \in Worker, Work(w)
    PROVE  Overwritten' /\ OldStays
<1>0. /\ worker \in [Worker -> WorkerState] /\ worker[w] \in WorkerState
      /\ worker[w].request \in Request /\ worker[w].total \in Nat
      /\ worker[w].request.start \in Nat
      /\ worker[w].read \in Nat /\ worker[w].written \in Nat
      /\ worker[w].last \in Carry /\ worker[w].lastByte \in Carry
  BY DEF IInv, TypeOK, WorkerState, Request
<1>1. ASSUME UNCHANGED row PROVE OldStays
  BY <1>1 DEF OldStays
<1>2. CASE ReceiveRequest(w)
  <2>1. /\ worker'[w].request = Head(queue) /\ worker'[w].total = 0
        /\ worker'[w].pc = "recv_worker" /\ UNCHANGED <<row, completions>>
        /\ \A v \in Worker : v # w => worker'[v] = worker[v]
    <3>1. worker[w] = Resting
      BY <1>2 DEF ReceiveRequest, WorkInv, Shaped, ThreadShaped
    <3>2. worker[w].total = 0
      BY <3>1 DEF Resting
    <3> QED
      BY <1>0, <1>2, <3>2 DEF ReceiveRequest, Step, WorkerState, stepVars
  <2>2. Head(queue).start \in Nat
    <3>1. Head(queue) \in Request
      BY <1>2, HeadTailElements DEF ReceiveRequest, IInv, TypeOK
    <3> QED
      BY <3>1 DEF Request
  <2>3. \A p : p \notin ThreadDone(w)'
    BY <2>1, <2>2 DEF ThreadDone
  <2> QED
    BY <1>1, <2>1, <2>3, KeepDone
<1>3. CASE ReceiveWorker(w) \/ WriteHeader(w) \/ \E n \in 1 .. Window(w) : Write(w, n)
  <2>1. /\ worker'[w].request = worker[w].request /\ worker'[w].total = worker[w].total
        /\ worker'[w].pc = "read" => worker'[w].read = 0
        /\ worker[w].pc # "read" /\ UNCHANGED <<row, completions>>
        /\ \A v \in Worker : v # w => worker'[v] = worker[v]
    <3>1. CASE ReceiveWorker(w)
      BY <1>0, <3>1 DEF ReceiveWorker, Step, WorkerState, stepVars
    <3>2. CASE WriteHeader(w)
      BY <1>0, <3>2 DEF WriteHeader, Step, WorkerState, stepVars
    <3>3. ASSUME NEW n, Write(w, n)
          PROVE  /\ worker'[w].request = worker[w].request
                 /\ worker'[w].total = worker[w].total /\ worker'[w].read = 0
                 /\ worker[w].pc # "read" /\ UNCHANGED <<row, completions>>
                 /\ \A v \in Worker : v # w => worker'[v] = worker[v]
      BY <1>0, <3>3 DEF Write, Step, WorkerState, stepVars
    <3> QED
      BY <1>3, <3>1, <3>2, <3>3
  <2>2. ThreadDone(w)' = ThreadDone(w)
    BY <1>0, <2>1 DEF ThreadDone
  <2>3. \A p \in DOMAIN row' : row'[p] = "old" => p \notin ThreadDone(w)'
    BY <2>1, <2>2 DEF Overwritten
  <2> QED
    BY <1>1, <2>1, <2>3, KeepDone
<1>4. CASE WriteHeaderFails(w) \/ ReadRefuted(w)
  <2>1. /\ UNCHANGED row
        /\ \E kind \in {"failed", "cheated"} : Report(w, kind, 0, worker[w].request)
    BY <1>4 DEF WriteHeaderFails, ReadRefuted, stepVars
  <2>2. \A p : p \notin worker[w].request.start - 0 .. worker[w].request.start - 1
    BY <1>0
  <2> QED
    BY <1>0, <1>1, <2>1, <2>2, ReportDone
<1>5. CASE WriteFails(w) \/ ReadFails(w)
  <2> DEFINE total == worker[w].total + (IF worker[w].pc = "read" THEN worker[w].read ELSE 0)
  <2>1. /\ UNCHANGED row /\ total \in Nat
        /\ \E last \in Carry : Report(w, "failed", total, Remaining(w, total, last))
    BY <1>0, <1>5 DEF WriteFails, ReadFails, stepVars
  <2>2. ThreadDone(w) = worker[w].request.start .. worker[w].request.start + total - 1
    BY <1>0 DEF ThreadDone
  <2> HIDE DEF total
  <2>3. PICK last \in Carry : Report(w, "failed", total, Remaining(w, total, last))
    BY <2>1
  <2>4. /\ Remaining(w, total, last) \in Request
        /\ Remaining(w, total, last).start - total = worker[w].request.start
        /\ Remaining(w, total, last).start - 1 = worker[w].request.start + total - 1
    <3>1. /\ Remaining(w, total, last) \in Request
          /\ Remaining(w, total, last).start = worker[w].request.start + total
      BY <2>1, RemainingShape
    <3> QED
      BY <1>0, <2>1, <3>1
  <2>5. \A p \in DOMAIN row' : row'[p] = "old" =>
           p \notin Remaining(w, total, last).start - total
                        .. Remaining(w, total, last).start - 1
    BY <2>1, <2>2, <2>4 DEF Overwritten
  <2> QED
    BY <1>1, <2>1, <2>3, <2>4, <2>5, ReportDone
<1>6. ASSUME NEW len \in 1 .. worker[w].written - worker[w].read,
             NEW wrong, Read(w, len, wrong)
      PROVE  Overwritten' /\ OldStays
  <2> DEFINE read == worker[w].read + len
             total == worker[w].total + read
  <2>1. /\ read \in Nat /\ total \in Nat /\ worker[w].pc = "read" /\ AfterRead(w, len)
    BY <1>0, <1>6 DEF Read
  <2>2. \A p \in DOMAIN row' : row'[p] = "old" =>
           /\ p \in DOMAIN row /\ row[p] = "old"
           /\ p \notin worker[w].request.start .. worker[w].request.start + total - 1
    BY <1>6, DoneExtends
  <2>3. OldStays
    BY <2>2 DEF OldStays
  <2>4. CASE /\ \E last : Step(w, [worker[w] EXCEPT !.read = read, !.readLast = last])
             /\ UNCHANGED completions
    <3>1. /\ worker'[w].request = worker[w].request /\ worker'[w].total = worker[w].total
          /\ worker'[w].pc = "read" /\ worker'[w].read = read
          /\ \A v \in Worker : v # w => worker'[v] = worker[v]
      BY <1>0, <2>1, <2>4 DEF Step, WorkerState
    <3>2. ThreadDone(w)' = worker[w].request.start .. worker[w].request.start + total - 1
      <4>1. ThreadDone(w)' = worker[w].request.start
                                .. worker[w].request.start + worker[w].total + read - 1
        BY <3>1 DEF ThreadDone
      <4>2. worker[w].request.start + worker[w].total + read - 1
               = worker[w].request.start + total - 1
        BY <1>0, <2>1
      <4> QED
        BY <4>1, <4>2
    <3> QED
      BY <2>2, <2>3, <2>4, <3>1, <3>2, KeepDone
  <2>5. CASE /\ \E last : Step(w, [worker[w] EXCEPT !.pc = "write", !.total = total,
                                                  !.last = last])
             /\ UNCHANGED completions
    <3>1. /\ worker'[w].request = worker[w].request /\ worker'[w].total = total
          /\ worker'[w].pc = "write"
          /\ \A v \in Worker : v # w => worker'[v] = worker[v]
      BY <1>0, <2>1, <2>5 DEF Step, WorkerState
    <3>2. ThreadDone(w)' = worker[w].request.start .. worker[w].request.start + total - 1
      <4>1. ThreadDone(w)' = worker[w].request.start
                                .. worker[w].request.start + total + 0 - 1
        BY <3>1 DEF ThreadDone
      <4>2. worker[w].request.start + total + 0 - 1 = worker[w].request.start + total - 1
        BY <1>0, <2>1
      <4> QED
        BY <4>1, <4>2
    <3> QED
      BY <2>2, <2>3, <2>5, <3>1, <3>2, KeepDone
  <2>6. CASE Report(w, "completed", total, Remaining(w, total, worker[w].lastByte))
    <3> HIDE DEF total
    <3> DEFINE left == Remaining(w, total, worker[w].lastByte)
    <3>1. /\ left \in Request
          /\ left.start - total = worker[w].request.start
          /\ left.start - 1 = worker[w].request.start + total - 1
      <4>1. left \in Request /\ left.start = worker[w].request.start + total
        BY <1>0, <2>1, RemainingShape
      <4> HIDE DEF left
      <4> QED
        BY <1>0, <2>1, <4>1
    <3>2. \A p \in DOMAIN row' : row'[p] = "old" =>
             p \notin left.start - total .. left.start - 1
      BY <2>2, <3>1
    <3> QED
      BY <2>1, <2>3, <2>6, <3>1, <3>2, ReportDone
  <2> QED
    BY <2>1, <2>3, <2>4, <2>5, <2>6 DEF AfterRead
<1> QED
  BY <1>2, <1>3, <1>4, <1>5, <1>6 DEF Work

\* Every step keeps it.
LEMMA NextSkips == IInv /\ WorkInv /\ SkipInv /\ [Next]_vars => SkipInv'
<1> SUFFICES ASSUME IInv, WorkInv, SkipInv, [Next]_vars PROVE SkipInv'
  OBVIOUS
<1>1. ASSUME UNCHANGED row, UNCHANGED completions, UNCHANGED worker
      PROVE  Overwritten'
  BY <1>1 DEF SkipInv, Overwritten, ThreadDone, DoneBytes
<1>2. CASE BeginStep
  <2>1. Pending' = StepBytes /\ step' = step
    BY <1>2, BeginStepWork DEF BeginStep
  <2>2. completions' = <<>> /\ \A w \in Worker : worker'[w] = Resting
    BY <1>2 DEF BeginStep, WorkInv, QuietBetweenSteps
  <2>3. \A w \in Worker : \A p : p \notin ThreadDone(w)'
    BY <2>2 DEF ThreadDone, Resting, NoRequest
  <2> QED
    BY <2>1, <2>2, <2>3 DEF SkipInv, Overwritten, NoByteSkipped, StepBytes
<1>3. CASE DispatchChunk \/ FinishDispatch
  <2>1. UNCHANGED <<row, completions, worker, step>> /\ pc = "dispatch"
    BY <1>3 DEF DispatchChunk, FinishDispatch
  <2>2. Pending' = Pending
    BY <1>3, DispatchWork
  <2> QED
    BY <1>1, <2>1, <2>2 DEF SkipInv, NoByteSkipped
<1>4. CASE CollectCompleted \/ CollectFailed \/ CollectCheated
  <2>1. /\ UNCHANGED <<row, worker, step>> /\ pc = "collect"
        /\ completions # <<>> /\ completions' = Tail(completions)
        /\ completions \in Seq(Event)
    BY <1>4 DEF CollectCompleted, CollectFailed, CollectCheated, Collecting, stepVars,
                IInv, TypeOK
  <2>2. /\ 1 \in DOMAIN completions /\ Head(completions) = completions[1]
        /\ \A i \in DOMAIN completions' :
              i + 1 \in DOMAIN completions /\ completions'[i] = completions[i + 1]
    BY <2>1, HeadTailElements
  <2>3. Overwritten'
    BY <2>1, <2>2 DEF SkipInv, Overwritten, ThreadDone
  <2>4. Pending' = Pending \ DoneBytes(Head(completions))
    BY <1>4, CollectEventWork
  <2>5. NoByteSkipped'
    <3>1. 0 .. ByteCount(step) - 1 \subseteq DOMAIN row
      BY <2>1 DEF IInv, ChunksInRow
    <3> QED
      BY <2>1, <2>2, <2>4, <3>1 DEF SkipInv, Overwritten, NoByteSkipped
  <2> QED
    BY <2>3, <2>5 DEF SkipInv
<1>5. CASE FinishStep
  <2>1. pc' = "idle" /\ WorkInv'
    BY <1>5, FinishStepWork DEF FinishStep
  <2> QED
    BY <2>1, IdleSkips DEF WorkInv, QuietBetweenSteps, Phases, Idle
<1>6. CASE \E w \in Worker : Work(w)
  <2>1. Overwritten' /\ OldStays /\ Pending' = Pending /\ UNCHANGED <<pc, step>>
    BY <1>6, ThreadSkips, ThreadWork DEF SkipInv
  <2>2. NoByteSkipped'
    <3>1. pc # "idle" => 0 .. ByteCount(step) - 1 \subseteq DOMAIN row'
      <4>1. IInv'
        BY NextIInv
      <4> QED
        BY <2>1, <4>1 DEF IInv, ChunksInRow
    <3> QED
      BY <2>1, <3>1 DEF SkipInv, NoByteSkipped, OldStays
  <2> QED
    BY <2>1, <2>2 DEF SkipInv
<1>7. CASE Sync
  <2>1. pc' = "idle" /\ WorkInv'
    BY <1>7, ResyncWork DEF Sync
  <2> QED
    BY <2>1, IdleSkips DEF WorkInv, QuietBetweenSteps, Phases, Idle
<1>8. CASE UNCHANGED vars
  <2>1. UNCHANGED <<row, completions, worker, step, pc>>
    BY <1>8 DEF vars, stepVars
  <2>2. Pending' = Pending
    BY <1>8, StutterWork
  <2> QED
    BY <1>1, <2>1, <2>2 DEF SkipInv, NoByteSkipped
<1> QED
  BY <1>2, <1>3, <1>4, <1>5, <1>6, <1>7, <1>8 DEF Next, Main

\* A byte that still has its old value is accounted for as work to do: whatever
\* failures, refusals and hand-overs its chunk goes through, do_step never
\* leaves it out.
THEOREM NoneSkipped == Spec => []NoByteSkipped
<1>1. Init => IInv /\ WorkInv /\ SkipInv
  <2>1. Init => Idle
    BY InitWork DEF Init, Idle, WorkInv
  <2> QED
    BY <2>1, InitIInv, InitWork, IdleSkips
<1>2. IInv /\ WorkInv /\ SkipInv /\ [Next]_vars => (IInv /\ WorkInv /\ SkipInv)'
  BY NextIInv, NextWork, NextSkips
<1>3. SkipInv => NoByteSkipped
  BY DEF SkipInv
<1> QED
  BY <1>1, <1>2, <1>3, PTL DEF Spec

-------------------------------------------------------------------------------
\* No byte is paid for twice.

PaidInv == /\ step >= InitStep
           /\ IsFiniteSet(Paid) /\ IsFiniteSet(Evolved)
           /\ PaidOnce

\* The tokens of a score, one per point.
LEMMA PaidTokens ==
    /\ \A t : t \in Paid <=> \E u \in Uid : \E n \in 1 .. score[u] : t = <<u, n>>
    /\ \A t : t \in Paid' <=> \E u \in Uid : \E n \in 1 .. score'[u] : t = <<u, n>>
<1>1. \A t : t \in Paid <=> \E u \in Uid : t \in {u} \X (1 .. score[u])
  BY DEF Paid
<1>2. \A t : t \in Paid' <=> \E u \in Uid : t \in {u} \X (1 .. score'[u])
  BY DEF Paid
<1>3. \A t, u, S : t \in {u} \X S <=> \E n \in S : t = <<u, n>>
  OBVIOUS
<1> QED
  BY <1>1, <1>2, <1>3

\* A set of tokens of one owner.
LEMMA TokensOfOne ==
    ASSUME NEW u, NEW I, IsFiniteSet(I)
    PROVE  IsFiniteSet({u} \X I) /\ Cardinality({u} \X I) = Cardinality(I)
<1>1. IsFiniteSet({u}) /\ Cardinality({u}) = 1
  BY FS_Singleton
<1>2. IsFiniteSet({u} \X I) /\ Cardinality({u} \X I) = Cardinality({u}) * Cardinality(I)
  BY <1>1, FS_Product
<1>3. Cardinality(I) \in Nat
  BY FS_CardinalityType
<1> QED
  BY <1>1, <1>2, <1>3

\* A credit of n raises what was paid by n at most.
LEMMA CreditPays ==
    ASSUME PaidInv, NEW u \in Uid, NEW n \in Nat, NEW m \in {0, n},
           score \in [Uid -> Nat], score' \in [Uid -> Nat],
           score' = [score EXCEPT ![u] = @ + m]
    PROVE  IsFiniteSet(Paid') /\ Cardinality(Paid') <= Cardinality(Paid) + n
<1> DEFINE I == score[u] + 1 .. score[u] + m
           New == {u} \X I
<1>1. m \in Nat /\ score[u] \in Nat /\ score'[u] = score[u] + m
      /\ \A v \in Uid : v # u => score'[v] = score[v]
  OBVIOUS
<1>2. IsFiniteSet(I) /\ Cardinality(I) = m
  <2>1. /\ score[u] + 1 \in Int /\ score[u] + m \in Int
        /\ (score[u] + m) - (score[u] + 1) + 1 = m
        /\ (score[u] + 1 > score[u] + m) <=> m = 0
    BY <1>1
  <2> QED
    BY <1>1, <2>1, FS_Interval
<1>3. IsFiniteSet(New) /\ Cardinality(New) = m
  <2> HIDE DEF I
  <2> QED
    BY <1>1, <1>2, TokensOfOne
<1>4. ASSUME NEW t \in Paid'
      PROVE  t \in Paid \/ t \in New
  <2>1. PICK v \in Uid : \E k \in 1 .. score'[v] : t = <<v, k>>
    BY PaidTokens
  <2>2. PICK k \in 1 .. score'[v] : t = <<v, k>>
    BY <2>1
  <2>3. CASE v = u /\ k > score[u]
    <3>1. k \in I
      BY <1>1, <2>2, <2>3
    <3> QED
      BY <2>2, <2>3, <3>1
  <2>4. CASE v # u \/ k <= score[u]
    <3>1. k \in 1 .. score[v]
      BY <1>1, <2>2, <2>4
    <3> QED
      BY <2>2, <3>1, PaidTokens
  <2> QED
    BY <1>1, <2>2, <2>3, <2>4
<1> HIDE DEF New
<1>5. /\ IsFiniteSet(Paid \cup New)
      /\ Cardinality(Paid \cup New)
            = Cardinality(Paid) + Cardinality(New) - Cardinality(Paid \cap New)
      /\ IsFiniteSet(Paid \cap New)
  BY <1>3, FS_Union, FS_Intersection DEF PaidInv
<1>6. Cardinality(Paid) \in Nat /\ Cardinality(Paid \cap New) \in Nat
      /\ Cardinality(Paid \cup New) \in Nat
  BY <1>5, FS_CardinalityType DEF PaidInv
<1>7. Cardinality(Paid \cup New) <= Cardinality(Paid) + m
      /\ Cardinality(Paid \cup New) \in Nat
  BY <1>1, <1>3, <1>5, <1>6
<1>8. /\ IsFiniteSet(Paid') /\ Cardinality(Paid') <= Cardinality(Paid \cup New)
      /\ Cardinality(Paid') \in Nat
  <2>1. Paid' \subseteq Paid \cup New
    BY <1>4
  <2> QED
    BY <1>5, <2>1, FS_Subset, FS_CardinalityType
<1>9. m <= n
  OBVIOUS
<1> QED
  BY <1>1, <1>6, <1>7, <1>8, <1>9

\* Scores that only fall keep what was paid in bounds.
LEMMA LowerScores ==
    ASSUME PaidInv, score \in [Uid -> Nat], score' \in [Uid -> Nat],
           \A u \in Uid : score'[u] <= score[u],
           UNCHANGED <<step, dataProcessed>>, dataProcessed \in Nat
    PROVE  PaidInv'
<1>1. Paid' \subseteq Paid
  <2>1. \A u \in Uid : \A n \in 1 .. score'[u] : n \in 1 .. score[u]
    OBVIOUS
  <2> QED
    BY <2>1, PaidTokens
<1>2. IsFiniteSet(Paid') /\ Cardinality(Paid') <= Cardinality(Paid)
  BY <1>1, FS_Subset DEF PaidInv
<1>3. Evolved' = Evolved
  BY DEF Evolved
<1>4. Cardinality(Paid) \in Nat /\ Cardinality(Paid') \in Nat
      /\ Cardinality(Evolved) \in Nat
  BY <1>2, FS_CardinalityType DEF PaidInv
<1> QED
  BY <1>2, <1>3, <1>4 DEF PaidInv, PaidOnce

\* An event pays no more than it counts.
LEMMA CollectPays ==
    ASSUME IInv, PaidInv, CollectCompleted \/ CollectFailed \/ CollectCheated
    PROVE  PaidInv'
<1> DEFINE e == Head(completions)
<1>1. e \in Event /\ e.uid \in Uid /\ e.processed \in Nat
  <2>1. e \in Event
    BY HeadTailElements DEF CollectCompleted, CollectFailed, CollectCheated, Collecting,
                            IInv, TypeOK
  <2> QED
    BY <2>1 DEF Event
<1>2. score \in [Uid -> Nat] /\ score' \in [Uid -> Nat] /\ dataProcessed \in Nat
  BY CollectIInv DEF IInv, TypeOK
<1>3. CASE CollectCheated
  <2>1. /\ score' = [score EXCEPT ![e.uid] = 0] /\ UNCHANGED <<step, dataProcessed>>
    BY <1>3 DEF CollectCheated, stepVars
  <2> HIDE DEF e
  <2>2. \A u \in Uid : score'[u] <= score[u]
    BY <1>1, <1>2, <2>1
  <2> QED
    BY <1>2, <2>1, <2>2, LowerScores
<1>4. CASE CollectCompleted \/ CollectFailed
  <2>1. Credit(e) /\ step' = step
    BY <1>4 DEF CollectCompleted, CollectFailed
  <2>2. /\ dataProcessed' = dataProcessed + e.processed
        /\ \E m \in {0, e.processed} : score' = [score EXCEPT ![e.uid] = @ + m]
    <3>1. dataProcessed' = dataProcessed + e.processed
      BY <2>1 DEF Credit
    <3> HIDE DEF e
    <3>2. CASE e.uid \in cheater
      <4>1. score' = score
        BY <2>1, <3>2 DEF Credit
      <4>2. score[e.uid] + 0 = score[e.uid]
        BY <1>1, <1>2
      <4>3. score' = [score EXCEPT ![e.uid] = @ + 0]
        BY <1>2, <4>1, <4>2
      <4> QED
        BY <3>1, <4>3
    <3>3. CASE e.uid \notin cheater
      BY <2>1, <3>1, <3>3 DEF Credit
    <3> QED
      BY <3>2, <3>3
  <2> HIDE DEF e
  <2>3. IsFiniteSet(Paid') /\ Cardinality(Paid') <= Cardinality(Paid) + e.processed
    BY <1>1, <1>2, <2>2, CreditPays
  <2>4. Evolved' = Evolved
    BY <2>1 DEF Evolved
  <2>5. Cardinality(Paid) \in Nat /\ Cardinality(Paid') \in Nat
        /\ Cardinality(Evolved) \in Nat
    BY <2>3, FS_CardinalityType DEF PaidInv
  <2> QED
    BY <1>1, <1>2, <2>1, <2>2, <2>3, <2>4, <2>5 DEF PaidInv, PaidOnce
<1> QED
  BY <1>3, <1>4

\* The bytes of a step that ends are paid for with those counted in it.
LEMMA FinishStepPays ==
    ASSUME IInv, WorkInv, PaidInv, FinishStep
    PROVE  PaidInv'
<1> DEFINE New == {step} \X StepBytes
<1>1. /\ step' = step + 1 /\ score' = score /\ dataProcessed' = 0 /\ pc = "collect"
      /\ step \in Nat /\ step >= InitStep /\ InitStep \in Nat /\ dataProcessed \in Nat
      /\ ByteCount(step) \in Nat
  BY ByteCountNat, PoolAssumption DEF FinishStep, IInv, TypeOK, PaidInv
<1>2. dataProcessed = ByteCount(step)
  <2>1. Pending = {}
    BY FinishStepWork
  <2>2. Cardinality(Pending) = 0
    BY <2>1, FS_EmptySet
  <2> QED
    BY <1>1, <2>2 DEF WorkInv, WorkConserved
<1>3. IsFiniteSet(New) /\ Cardinality(New) = ByteCount(step)
  <2>1. ByteCount(step) - 1 \in Int
    BY <1>1
  <2>2. IsFiniteSet(StepBytes) /\ Cardinality(StepBytes) = ByteCount(step)
    BY <1>1, <2>1, FS_Interval DEF StepBytes
  <2>3. IsFiniteSet(New) /\ Cardinality(New) = Cardinality(StepBytes)
    BY <2>2, TokensOfOne
  <2> QED
    BY <1>1, <2>2, <2>3
<1>4. Evolved' = Evolved \cup New /\ Evolved \cap New = {}
  <2>1. InitStep .. step' - 1 = (InitStep .. step - 1) \cup {step}
    BY <1>1
  <2>2. /\ \A t : t \in Evolved <=> \E s \in InitStep .. step - 1 :
                                        t \in {s} \X (0 .. ByteCount(s) - 1)
        /\ \A t : t \in Evolved' <=> \E s \in InitStep .. step' - 1 :
                                        t \in {s} \X (0 .. ByteCount(s) - 1)
    BY DEF Evolved
  <2>3. \A t : t \in New <=> t \in {step} \X (0 .. ByteCount(step) - 1)
    BY DEF StepBytes
  <2>4. \A t, s, S : t \in {s} \X S => t[1] = s
    OBVIOUS
  <2>5. step \notin InitStep .. step - 1
    BY <1>1
  <2> HIDE DEF New
  <2>6. \A t : t \in Evolved' <=> t \in Evolved \/ t \in New
    BY <2>1, <2>2, <2>3
  <2>7. \A t : ~(t \in Evolved /\ t \in New)
    BY <2>2, <2>3, <2>4, <2>5
  <2> QED
    BY <2>6, <2>7
<1> HIDE DEF New
<1>5. IsFiniteSet(Evolved')
      /\ Cardinality(Evolved') = Cardinality(Evolved) + ByteCount(step)
  <2>1. Cardinality(Evolved \cap New) = 0
    BY <1>4, FS_EmptySet
  <2>2. Cardinality(Evolved) \in Nat
    BY FS_CardinalityType DEF PaidInv
  <2>3. /\ IsFiniteSet(Evolved \cup New)
        /\ Cardinality(Evolved \cup New)
              = Cardinality(Evolved) + Cardinality(New) - Cardinality(Evolved \cap New)
    BY <1>3, FS_Union DEF PaidInv
  <2> QED
    BY <1>1, <1>3, <1>4, <2>1, <2>2, <2>3
<1>6. Paid' = Paid
  BY <1>1 DEF Paid
<1>7. Cardinality(Paid) \in Nat /\ Cardinality(Evolved) \in Nat
  BY FS_CardinalityType DEF PaidInv
<1> QED
  BY <1>1, <1>2, <1>5, <1>6, <1>7 DEF PaidInv, PaidOnce

\* No score, nothing paid.
LEMMA InitPays == Init => PaidInv
<1> SUFFICES ASSUME Init PROVE PaidInv
  OBVIOUS
<1>1. InitStep .. step - 1 = {} /\ step = InitStep /\ dataProcessed = 0
  BY PoolAssumption DEF Init
<1>2. Evolved = {}
  BY <1>1 DEF Evolved
<1>3. Paid = {}
  <2>1. \A u \in Uid : 1 .. score[u] = {}
    BY DEF Init
  <2> QED
    BY <2>1, PaidTokens
<1> QED
  BY <1>1, <1>2, <1>3, PoolAssumption, FS_EmptySet DEF PaidInv, PaidOnce

\* Every step keeps it.
LEMMA NextPays == IInv /\ WorkInv /\ PaidInv /\ [Next]_vars => PaidInv'
<1> SUFFICES ASSUME IInv, WorkInv, PaidInv, [Next]_vars PROVE PaidInv'
  OBVIOUS
<1>0. /\ score \in [Uid -> Nat] /\ score' \in [Uid -> Nat] /\ dataProcessed \in Nat
  BY NextIInv DEF IInv, TypeOK
<1>1. ASSUME UNCHANGED <<step, score, dataProcessed>>
      PROVE  PaidInv'
  BY <1>0, <1>1, LowerScores
<1>2. CASE BeginStep \/ DispatchChunk
  BY <1>1, <1>2 DEF BeginStep, DispatchChunk, neuronVars
<1>3. CASE FinishDispatch
  <2>1. UNCHANGED <<step, score>> /\ dataProcessed = 0 /\ dataProcessed' = 0
    BY <1>3 DEF FinishDispatch, neuronVars, WorkInv, Phases
  <2> QED
    BY <1>1, <2>1
<1>4. CASE CollectCompleted \/ CollectFailed \/ CollectCheated
  BY <1>4, CollectPays
<1>5. CASE FinishStep
  BY <1>5, FinishStepPays
<1>6. ASSUME NEW w \in Worker, Work(w)
      PROVE  PaidInv'
  BY <1>1, <1>6 DEF Work, ReceiveRequest, ReceiveWorker, WriteHeader, WriteHeaderFails,
                    Write, WriteFails, Read, ReadFails, ReadRefuted, stepVars, neuronVars
<1>7. CASE Sync
  <2>1. PICK newHotkey \in SUBSET Uid : \E newAxon, reach \in SUBSET Uid :
                                            Resync(newHotkey, newAxon, reach)
    BY <1>7 DEF Sync
  <2>2. /\ score' = [u \in Uid |-> IF u \in newHotkey THEN 0 ELSE score[u]]
        /\ UNCHANGED <<step, dataProcessed>>
    BY <2>1 DEF Resync, stepVars
  <2>3. \A u \in Uid : score'[u] <= score[u]
    BY <1>0, <2>2
  <2> QED
    BY <1>0, <2>2, <2>3, LowerScores
<1>8. CASE UNCHANGED vars
  BY <1>1, <1>8 DEF vars, stepVars, neuronVars
<1> QED
  BY <1>2, <1>3, <1>4, <1>5, <1>6, <1>7, <1>8 DEF Next, Main

\* The scores never add up to more than the bytes evolved: a chunk done in parts
\* by several miners, or again after a cheater, is paid for once.
THEOREM NonePaidTwice == Spec => []PaidOnce
<1>1. Init => IInv /\ WorkInv /\ PaidInv
  BY InitIInv, InitWork, InitPays
<1>2. IInv /\ WorkInv /\ PaidInv /\ [Next]_vars => (IInv /\ WorkInv /\ PaidInv)'
  BY NextIInv, NextWork, NextPays
<1>3. PaidInv => PaidOnce
  BY DEF PaidInv
<1> QED
  BY <1>1, <1>2, <1>3, PTL DEF Spec

-------------------------------------------------------------------------------
\* The row is right where the code computes it right: with miners that answer,
\* and in one chunk.

\* No miner fails or answers wrongly (it does not forge, and none of its reads
\* ends inside a word), and a chunk is the whole row, because there is one miner
\* or because a step has no more bytes than a cache line.
Clean ==
    /\ Flaky = {} /\ Erring = {}
    /\ \/ NeuronCount = 1
       \/ \A s \in Nat : s < MaxStep => ByteCount(s) <= CacheLine

\* Bytes before k are evolved, the others are not.
Frontier(k) == \A p \in DOMAIN row : row[p] = IF p < k THEN "new" ELSE "old"

\* The value of the byte before p, as it was before the step.
Before(p) == [at |-> p - 1, cell |-> "old"]

Whole(r) == r.start = 0 /\ r.end = ByteCount(step) /\ r.last = Before(0)

\* How far a thread has evolved its request.
Done(t) == CASE t.pc = "read" -> t.total + t.read
             [] t.pc = "write" -> t.total
             [] OTHER -> 0

ThreadRight(t) ==
    t.pc # "recv_request" =>
        /\ Whole(t.request) /\ Frontier(Done(t))
        /\ t.pc = "header" => t.last = Before(0)
        /\ t.pc = "write" => t.last = Before(t.total)
        /\ t.pc = "read" => /\ t.readLast = Before(t.total + t.read)
                            /\ t.lastByte = Before(t.total + t.written)

EventRight(e) ==
    /\ e.kind = "completed" /\ e.processed = ByteCount(step)
    /\ e.request.start = ByteCount(step) /\ e.request.end = ByteCount(step)
    /\ Frontier(ByteCount(step))

DispatchRight ==
    pc = "dispatch" => /\ step < MaxStep
                       /\ (position = 0 /\ Frontier(0)) \/ position = ByteCount(step)
                       /\ NeuronCount = 1 => weightSum = weight[0]

RightInv ==
    /\ pc = "idle" => Frontier(0)
    /\ column = {}
    /\ DispatchRight
    /\ \A i \in DOMAIN queue : Whole(queue[i]) /\ Frontier(0)
    /\ \A w \in Worker : ThreadRight(worker[w])
    /\ \A i \in DOMAIN completions : EventRight(completions[i])
    /\ dataProcessed > 0 => Frontier(ByteCount(step))

\* Before the first step the row is right.
LEMMA InitRight == Init => RightInv
<1> SUFFICES ASSUME Init PROVE RightInv
  OBVIOUS
<1>1. CurrentRowSize(InitStep) \in Nat /\ InitStep \in Nat
  BY PoolAssumption, RowLargeEnough
<1>2. Frontier(0)
  BY <1>1 DEF Init, Frontier
<1> QED
  BY <1>2 DEF Init, RightInv, DispatchRight, ThreadRight, Resting

\* Between steps nothing is held, so only the row and the column matter.
LEMMA IdleRight ==
    (Idle /\ Frontier(0) /\ column = {} => RightInv)
    /\ (Idle' /\ Frontier(0)' /\ (column = {})' => RightInv')
<1>1. Idle /\ Frontier(0) /\ column = {} => RightInv
  BY DEF Idle, QuietBetweenSteps, RightInv, DispatchRight, ThreadRight, Resting
<1> QED
  BY <1>1, PTL

\* The weight of the only miner.
LEMMA OnlyWeight ==
    ASSUME NeuronCount = 1, Connected # {}, weight \in [Uid -> 1 .. MaxWeight]
    PROVE  WeightSum(Connected) = weight[0]
<1>1. Uid = {0} /\ Connected = {0}
  <2>1. Uid = {0}
    BY DEF Uid
  <2> QED
    BY <2>1 DEF Connected
<1>2. weight[0] \in 1 .. MaxWeight /\ MaxWeight \in Nat /\ weight[0] \in Nat
  BY <1>1, PoolAssumption
<1>3. {e \in Uid \X (1 .. MaxWeight) : e[1] \in Connected /\ e[2] <= weight[e[1]]}
        = {0} \X (1 .. weight[0])
  BY <1>1, <1>2
<1>4. /\ IsFiniteSet({0}) /\ Cardinality({0}) = 1
      /\ IsFiniteSet(1 .. weight[0]) /\ Cardinality(1 .. weight[0]) = weight[0]
  <2>1. IsFiniteSet({0}) /\ Cardinality({0}) = 1
    BY FS_Singleton
  <2>2. IsFiniteSet(1 .. weight[0]) /\ Cardinality(1 .. weight[0]) = weight[0]
    <3>1. 1 \in Int /\ weight[0] \in Int /\ weight[0] - 1 + 1 = weight[0] /\ ~(1 > weight[0])
      BY <1>2
    <3> QED
      BY <3>1, FS_Interval
  <2> QED
    BY <2>1, <2>2
<1>5. Cardinality({0} \X (1 .. weight[0])) = 1 * weight[0]
  BY <1>4, FS_Product
<1>6. 1 * weight[0] = weight[0]
  BY <1>2
<1> QED
  BY <1>3, <1>5, <1>6 DEF WeightSum

\* Rounding up does not make less of it.
LEMMA RoundedUp ==
    ASSUME NEW a \in Nat \ {0}, NEW b \in Nat \ {0}
    PROVE  CeilDiv(a, b) \in Nat \ {0} /\ CeilDiv(a, b) * b >= a /\ CeilDiv(a, b) * b >= b
<1>1. a + b - 1 \in Nat /\ a + b - 1 >= b
  OBVIOUS
<1> DEFINE q == (a + b - 1) \div b
<1>2. q \in Nat /\ q >= 1
  <2>1. q >= 1
    BY <1>1, Z3
  <2>2. q \in Nat
    BY <1>1, CeilDivNat DEF CeilDiv
  <2> QED
    BY <2>1, <2>2
<1> DEFINE over == (a + b - 1) % b
<1>3. a + b - 1 = (b * q) + over /\ over \in 0 .. b - 1
  BY <1>1, Z3
<1> HIDE DEF q, over
<1>4. b * q >= a
  BY <1>2, <1>3, SMT
<1>5. q * b = b * q /\ b * q >= b
  BY <1>2, SMT
<1> QED
  BY <1>2, <1>4, <1>5 DEF CeilDiv, q

\* A product divided by one factor is the other.
LEMMA Share ==
    ASSUME NEW a \in Nat \ {0}, NEW b \in Nat \ {0}
    PROVE  CeilDiv(a * b, b) = a
<1>1. a * b + b - 1 = b * a + (b - 1) /\ b - 1 \in 0 .. b - 1
  BY SMT
<1>2. (b * a + (b - 1)) \div b = a
  BY <1>1, Z3
<1> QED
  BY <1>1, <1>2 DEF CeilDiv

\* The first chunk of a step ends with the row.
LEMMA ChunkIsWhole ==
    ASSUME Clean, IInv, DispatchRight, pc = "dispatch", rest # <<>>, position = 0
    PROVE  ChunkEnd(weight[Head(rest)]) = ByteCount(step)
<1> DEFINE w == weight[Head(rest)]
           chunk == CeilDiv(ByteCount(step) * w, weightSum)
           lines == CeilDiv(chunk, CacheLine) * CacheLine
<1>1. /\ ByteCount(step) \in Nat \ {0} /\ weightSum \in Nat \ {0} /\ CacheLine \in Nat \ {0}
      /\ Head(rest) \in Uid /\ w \in Nat \ {0}
  <2>1. step \in Nat /\ Head(rest) \in Uid
    BY HeadTailElements DEF IInv, TypeOK
  <2>2. w \in 1 .. MaxWeight
    BY <2>1 DEF IInv, TypeOK
  <2>3. ByteCount(step) \in Nat \ {0}
    BY <2>1 DEF ByteCount, CeilDiv, ByteBits
  <2>4. weightSum \in Nat \ {0}
    BY DEF IInv, TypeOK, DispatchFit
  <2>5. CacheLine \in Nat \ {0} /\ MaxWeight \in Nat
    BY PoolAssumption
  <2>6. w \in Nat \ {0}
    <3> HIDE DEF w
    <3> QED
      BY <2>2, <2>5
  <2> QED
    BY <2>1, <2>3, <2>4, <2>5, <2>6
<1>2. ByteCount(step) * w \in Nat \ {0}
  BY <1>1, SMT
<1>3. chunk \in Nat \ {0}
  BY <1>1, <1>2, RoundedUp
<1>4. lines \in Nat /\ lines >= chunk /\ lines >= CacheLine
  <2> HIDE DEF chunk
  <2>1. CeilDiv(chunk, CacheLine) \in Nat
    BY <1>1, <1>3, RoundedUp
  <2>2. lines >= chunk /\ lines >= CacheLine
    BY <1>1, <1>3, RoundedUp
  <2> QED
    BY <1>1, <2>1, <2>2
<1>5. lines >= ByteCount(step)
  <2>1. CASE NeuronCount = 1
    <3>1. Head(rest) = 0
      BY <1>1, <2>1 DEF Uid
    <3>2. weightSum = w
      BY <2>1, <3>1 DEF DispatchRight
    <3>3. chunk = ByteCount(step)
      BY <1>1, <3>2, Share
    <3> QED
      BY <1>4, <3>3
  <2>2. CASE \A s \in Nat : s < MaxStep => ByteCount(s) <= CacheLine
    <3>1. ByteCount(step) <= CacheLine
      BY <2>2 DEF DispatchRight, IInv, TypeOK
    <3> HIDE DEF lines
    <3> QED
      BY <1>1, <1>4, <3>1
  <2> QED
    BY <2>1, <2>2 DEF Clean
<1> HIDE DEF lines, chunk
<1>6. ChunkEnd(w) = IF position + lines < ByteCount(step)
                    THEN position + lines ELSE ByteCount(step)
  BY DEF ChunkEnd, lines, chunk
<1> QED
  BY <1>1, <1>4, <1>5, <1>6

-------------------------------------------------------------------------------
\* Action by action.

\* A step begins with a right row.
LEMMA BeginStepRight ==
    ASSUME IInv, WorkInv, RightInv, BeginStep
    PROVE  RightInv'
<1>1. /\ pc = "idle" /\ pc' = "dispatch" /\ step < MaxStep /\ position' = 0
      /\ Connected # {} /\ weightSum' = WeightSum(Connected)
      /\ step' = step /\ queue' = queue /\ completions' = completions /\ worker' = worker
      /\ dataProcessed' = dataProcessed /\ column' = column /\ weight' = weight
  BY DEF BeginStep, neuronVars
<1>2. /\ queue = <<>> /\ completions = <<>> /\ dataProcessed = 0
      /\ \A w \in Worker : worker[w] = Resting
  BY <1>1 DEF WorkInv, QuietBetweenSteps, Phases
<1>3. Frontier(0)'
  <2>1. CurrentRowSize(step) \in Nat /\ Frontier(0) /\ DOMAIN row \subseteq Nat
    BY <1>1, RowLargeEnough DEF IInv, TypeOK, RightInv
  <2> QED
    BY <2>1 DEF BeginStep, Frontier
<1>4. (NeuronCount = 1 => weightSum = weight[0])'
  BY <1>1, OnlyWeight DEF IInv, TypeOK
<1>5. DispatchRight'
  BY <1>1, <1>3, <1>4 DEF DispatchRight
<1>6. (\A w \in Worker : ThreadRight(worker[w]))'
  BY <1>1, <1>2 DEF ThreadRight, Resting
<1> QED
  BY <1>1, <1>2, <1>5, <1>6 DEF RightInv

\* The first chunk is the whole row, and no other is cut.
LEMMA DispatchStepRight ==
    ASSUME Clean, IInv, WorkInv, RightInv, DispatchChunk \/ FinishDispatch
    PROVE  RightInv'
<1>1. /\ pc = "dispatch" /\ pc' \in {"dispatch", "collect"}
      /\ step' = step /\ row' = row /\ column' = column /\ completions' = completions
      /\ worker' = worker /\ weight' = weight /\ weightSum' = weightSum
      /\ dataProcessed' = dataProcessed
      /\ ByteCount(step) \in Nat /\ ByteCount(step) # 0
      /\ queue \in Seq(Request)
  <2>1. step \in Nat /\ queue \in Seq(Request)
    BY DEF IInv, TypeOK
  <2>2. ByteCount(step) \in Nat /\ ByteCount(step) # 0
    BY <2>1, ByteCountNat
  <2> QED
    BY <2>1, <2>2 DEF DispatchChunk, FinishDispatch, neuronVars, WorkInv, Phases
<1>2. DispatchRight
  BY DEF RightInv
<1>3. /\ position' = ByteCount(step)
      /\ \/ queue' = queue
         \/ /\ position = 0
            /\ queue' = Append(queue, NewRequest(position, ByteCount(step)))
  <2>1. CASE DispatchChunk
    <3>1. position = 0 /\ rest # <<>>
      BY <1>1, <1>2, <2>1 DEF DispatchRight, DispatchChunk
    <3>2. ChunkEnd(weight[Head(rest)]) = ByteCount(step)
      BY <1>1, <1>2, <3>1, ChunkIsWhole
    <3> QED
      BY <2>1, <3>1, <3>2 DEF DispatchChunk
  <2>2. CASE FinishDispatch
    BY <1>1, <1>2, <2>2 DEF DispatchRight, FinishDispatch
  <2> QED
    BY <2>1, <2>2
<1>4. (\A i \in DOMAIN queue : Whole(queue[i]) /\ Frontier(0))'
  <2>1. CASE queue' = queue
    BY <1>1, <2>1 DEF RightInv, Whole, Frontier
  <2>2. CASE position = 0 /\ queue' = Append(queue, NewRequest(position, ByteCount(step)))
    <3> DEFINE new == NewRequest(position, ByteCount(step))
    <3>1. new \in Request
      BY <1>1, NewRequestType
    <3>2. Whole(new)
      BY <2>2 DEF NewRequest, CarryBefore, Whole, Before
    <3>3. Frontier(0)
      BY <1>1, <1>2, <2>2 DEF DispatchRight
    <3>4. queue' = Append(queue, new)
      BY <2>2
    <3> HIDE DEF new
    <3>5. \A i \in DOMAIN queue' : Whole(queue'[i])
      BY <1>1, <3>1, <3>2, <3>4, AppendElements DEF RightInv
    <3> QED
      BY <1>1, <3>3, <3>5 DEF Whole, Frontier
  <2> QED
    BY <1>3, <2>1, <2>2
<1>5. DispatchRight'
  BY <1>1, <1>2, <1>3 DEF DispatchRight
<1>6. /\ (\A w \in Worker : ThreadRight(worker[w]))'
      /\ (\A i \in DOMAIN completions : EventRight(completions[i]))'
      /\ (dataProcessed > 0 => Frontier(ByteCount(step)))'
  BY <1>1 DEF RightInv, ThreadRight, EventRight, Whole, Frontier
<1> QED
  BY <1>1, <1>4, <1>5, <1>6 DEF RightInv

\* A thread changes its locals, or takes from a channel.
LEMMA LocalsRight ==
    ASSUME IInv, RightInv, NEW w \in Worker, NEW locals \in WorkerState,
           Step(w, locals), ThreadRight(locals),
           UNCHANGED stepVars, UNCHANGED neuronVars, completions' = completions,
           queue' = queue \/ (queue # <<>> /\ queue' = Tail(queue))
    PROVE  RightInv'
<1>1. /\ pc' = pc /\ step' = step /\ row' = row /\ column' = column /\ weight' = weight
      /\ weightSum' = weightSum /\ position' = position /\ dataProcessed' = dataProcessed
  BY DEF stepVars, neuronVars
<1>2. /\ worker'[w] = locals
      /\ \A v \in Worker : v # w => worker'[v] = worker[v]
  BY StepKeepsType DEF IInv, TypeOK
<1>3. (\A v \in Worker : ThreadRight(worker[v]))'
  BY <1>1, <1>2 DEF RightInv, ThreadRight, Whole, Frontier
<1>4. (\A i \in DOMAIN queue : Whole(queue[i]) /\ Frontier(0))'
  <2>1. queue \in Seq(Request)
    BY DEF IInv, TypeOK
  <2>2. \A i \in DOMAIN queue' : Whole(queue'[i]) /\ Frontier(0)
    BY <2>1, HeadTailElements DEF RightInv
  <2> QED
    BY <1>1, <2>2 DEF Whole, Frontier
<1>5. /\ DispatchRight'
      /\ (\A i \in DOMAIN completions : EventRight(completions[i]))'
      /\ (dataProcessed > 0 => Frontier(ByteCount(step)))'
      /\ (pc = "idle" => Frontier(0))' /\ (column = {})'
  BY <1>1 DEF RightInv, DispatchRight, EventRight, Frontier
<1> QED
  BY <1>3, <1>4, <1>5 DEF RightInv

\* A thread gets the whole row.
LEMMA ReceiveRight ==
    ASSUME IInv, WorkInv, RightInv, NEW w \in Worker,
           ReceiveRequest(w) \/ ReceiveWorker(w) \/ WriteHeader(w)
    PROVE  RightInv'
<1>1. worker[w] \in WorkerState /\ ThreadRight(worker[w]) /\ ThreadShaped(w)
  BY DEF IInv, TypeOK, RightInv, WorkInv, Shaped
<1>2. CASE ReceiveRequest(w)
  <2> DEFINE locals == [worker[w] EXCEPT !.pc = "recv_worker", !.request = Head(queue)]
  <2>1. /\ queue # <<>> /\ queue \in Seq(Request) /\ Step(w, locals)
        /\ queue' = Tail(queue) /\ completions' = completions
        /\ UNCHANGED stepVars /\ UNCHANGED neuronVars
    BY <1>2 DEF ReceiveRequest, IInv, TypeOK
  <2>2. Head(queue) \in Request /\ Whole(Head(queue)) /\ Frontier(0)
    BY <2>1, HeadTailElements DEF RightInv
  <2>3. locals \in WorkerState /\ locals.pc = "recv_worker" /\ locals.request = Head(queue)
    BY <1>1, <2>2 DEF WorkerState, WorkerPc
  <2> HIDE DEF locals
  <2>4. ThreadRight(locals)
    BY <2>2, <2>3 DEF ThreadRight, Done
  <2> QED
    BY <2>1, <2>3, <2>4, LocalsRight
<1>3. CASE ReceiveWorker(w)
  <2> DEFINE locals == [worker[w] EXCEPT !.pc = "header", !.uid = Head(available),
                                         !.last = worker[w].request.last]
  <2>1. /\ worker[w].pc = "recv_worker" /\ Head(available) \in Uid /\ Step(w, locals)
        /\ queue' = queue /\ completions' = completions
        /\ UNCHANGED stepVars /\ UNCHANGED neuronVars
    BY <1>3, HeadTailElements DEF ReceiveWorker, IInv, TypeOK
  <2>2. Whole(worker[w].request) /\ Frontier(0)
    BY <1>1, <2>1 DEF ThreadRight, Done
  <2>3. /\ locals \in WorkerState /\ locals.pc = "header"
        /\ locals.request = worker[w].request /\ locals.last = worker[w].request.last
    BY <1>1, <2>1 DEF WorkerState, WorkerPc, Request
  <2> HIDE DEF locals
  <2>4. ThreadRight(locals)
    BY <2>2, <2>3 DEF ThreadRight, Done, Whole
  <2> QED
    BY <2>1, <2>3, <2>4, LocalsRight
<1>4. CASE WriteHeader(w)
  <2> DEFINE locals == [worker[w] EXCEPT !.pc = "write"]
  <2>1. /\ worker[w].pc = "header" /\ worker[w].total = 0 /\ Step(w, locals)
        /\ queue' = queue /\ completions' = completions
        /\ UNCHANGED stepVars /\ UNCHANGED neuronVars
    BY <1>1, <1>4 DEF WriteHeader, ThreadShaped
  <2>2. Whole(worker[w].request) /\ Frontier(0) /\ worker[w].last = Before(0)
    BY <1>1, <2>1 DEF ThreadRight, Done
  <2>3. /\ locals \in WorkerState /\ locals.pc = "write" /\ locals.total = 0
        /\ locals.request = worker[w].request /\ locals.last = worker[w].last
    BY <1>1, <2>1 DEF WorkerState, WorkerPc
  <2> HIDE DEF locals
  <2>4. ThreadRight(locals)
    BY <2>2, <2>3 DEF ThreadRight, Done
  <2> QED
    BY <2>1, <2>3, <2>4, LocalsRight
<1> QED
  BY <1>2, <1>3, <1>4

\* The byte before a place from the frontier on holds its old value.
LEMMA BeforeIs ==
    ASSUME NEW k \in Nat, NEW p \in Nat, p > k, p - 1 \in DOMAIN row, Frontier(k)
    PROVE  CarryBefore(row, p) = Before(p)
<1>1. row[p - 1] = "old"
  BY DEF Frontier
<1> QED
  BY <1>1 DEF CarryBefore, Before

\* The byte kept for the next window is not overwritten yet.
LEMMA WriteRight ==
    ASSUME IInv, WorkInv, RightInv, NEW w \in Worker, NEW n \in 1 .. Window(w), Write(w, n)
    PROVE  RightInv'
<1> DEFINE total == worker[w].total
           at == worker[w].request.start + worker[w].total + n
           locals == [worker[w] EXCEPT !.pc = "read", !.written = n,
                                       !.lastByte = CarryBefore(row, at),
                                       !.read = 0, !.readLast = worker[w].last]
<1>1. /\ worker[w] \in WorkerState /\ worker[w].pc = "write" /\ Step(w, locals)
      /\ total \in Nat /\ UNCHANGED stepVars /\ UNCHANGED neuronVars
      /\ queue' = queue /\ completions' = completions
  BY DEF Write, IInv, TypeOK, WorkerState
<1>2. /\ Whole(worker[w].request) /\ Frontier(total) /\ worker[w].last = Before(total)
  BY <1>1 DEF RightInv, ThreadRight, Done
<1>3. IInv'
  BY WriteIInv
<1>4. /\ worker'[w] = locals /\ locals \in WorkerState
  <2>1. worker' \in [Worker -> WorkerState]
    BY <1>3 DEF IInv, TypeOK
  <2>2. worker'[w] = locals
    BY <1>1 DEF Step, IInv, TypeOK
  <2> QED
    BY <2>1, <2>2
<1>5. /\ locals.pc = "read" /\ locals.total = total /\ locals.read = 0
      /\ locals.written = n /\ locals.request = worker[w].request
      /\ locals.readLast = worker[w].last /\ locals.lastByte = CarryBefore(row, at)
  BY <1>1 DEF WorkerState
<1>6. n \in Nat /\ n > 0 /\ ByteCount(step) \in Nat
  <2>1. n \in Nat
    BY <1>4, <1>5 DEF WorkerState
  <2> QED
    BY <2>1, ByteCountNat DEF IInv, TypeOK
<1> HIDE DEF locals
<1>7. total + n <= ByteCount(step) /\ at = total + n
  <2>1. total + n <= worker[w].request.end - worker[w].request.start
    BY <1>3, <1>4, <1>5 DEF IInv, ReadFits, ChunkLen
  <2>2. worker[w].request.start = 0 /\ worker[w].request.end = ByteCount(step)
    BY <1>2 DEF Whole
  <2> QED
    BY <1>1, <1>6, <2>1, <2>2
<1>8. at - 1 \in DOMAIN row
  <2>1. 0 .. ByteCount(step) - 1 \subseteq DOMAIN row
    BY <1>2 DEF IInv, ChunksInRow, RequestBytes, Whole
  <2> QED
    BY <1>1, <1>6, <1>7, <2>1
<1>9. CarryBefore(row, at) = Before(total + n)
  BY <1>1, <1>2, <1>6, <1>7, <1>8, BeforeIs
<1>10. total + 0 = total
  BY <1>1
<1>11. ThreadRight(locals)
  <2> HIDE DEF at, total
  <2> QED
    BY <1>2, <1>5, <1>9, <1>10 DEF ThreadRight, Done
<1> QED
  BY <1>1, <1>4, <1>11, LocalsRight

\* A request that is the whole row is the only one: nothing else has a byte.
LEMMA OnlyHolder ==
    ASSUME IInv, WorkInv, RightInv, NEW w \in Worker, worker[w].pc # "recv_request"
    PROVE  /\ queue = <<>> /\ completions = <<>>
           /\ \A v \in Worker : v # w => worker[v] = Resting
           /\ pc # "idle" /\ (pc = "dispatch" => position = ByteCount(step))
<1>1. ByteCount(step) \in Nat /\ ByteCount(step) > 0
  BY ByteCountNat DEF IInv, TypeOK
<1>2. \A r : Whole(r) => 0 \in RequestBytes(r)
  BY <1>1 DEF Whole, RequestBytes
<1>3. \A v \in Worker : worker[v].pc # "recv_request" => 0 \in InThreads[v]
  BY <1>2 DEF RightInv, ThreadRight, InThreads
<1>4. DOMAIN InThreads = Worker /\ DOMAIN Queued = DOMAIN queue
      /\ DOMAIN InEvents = DOMAIN completions
  BY DEF InThreads, Queued, InEvents
<1>5. Separate(Queued, InThreads, InEvents, Undispatched) /\ 0 \in InThreads[w]
  BY <1>3 DEF WorkInv, AllApart
<1>6. \A v \in Worker : v # w => worker[v] = Resting
  <2>1. \A v \in Worker : v # w => worker[v].pc = "recv_request"
    BY <1>3, <1>4, <1>5 DEF Separate, Apart
  <2> QED
    BY <2>1 DEF WorkInv, Shaped, ThreadShaped
<1>7. \A i \in DOMAIN queue : FALSE
  <2>1. \A i \in DOMAIN queue : 0 \in Queued[i]
    BY <1>2 DEF RightInv, Queued
  <2> QED
    BY <1>4, <1>5, <2>1 DEF Separate, Apart
<1>8. \A i \in DOMAIN completions : FALSE
  <2>1. \A i \in DOMAIN completions : 0 \in InEvents[i]
    <3> TAKE i \in DOMAIN completions
    <3> DEFINE e == completions[i]
    <3>1. e.request.start - e.processed = 0 /\ e.request.end = ByteCount(step)
      BY <1>1 DEF RightInv, EventRight
    <3>2. 0 \in EventBytes(e)
      BY <1>1, <3>1 DEF EventBytes
    <3> QED
      BY <3>2 DEF InEvents
  <2> QED
    BY <1>4, <1>5, <2>1 DEF Separate, Apart
<1>9. queue = <<>> /\ completions = <<>>
  BY <1>7, <1>8, HeadTailElements DEF IInv, TypeOK
<1>10. pc = "dispatch" => position = ByteCount(step)
  <2>1. 0 \notin Undispatched
    BY <1>4, <1>5 DEF Separate, Apart
  <2>2. pc = "dispatch" /\ position = 0 => 0 \in Undispatched
    BY <1>1 DEF Undispatched
  <2> QED
    BY <2>1, <2>2 DEF RightInv, DispatchRight
<1> QED
  BY <1>6, <1>9, <1>10, WorkerBusy

\* Bytes that are read back move the frontier.
LEMMA ReadMoves ==
    ASSUME NEW k \in Nat, NEW n \in Nat, Frontier(k), DOMAIN row \subseteq Nat,
           NEW carry, carry = Before(k),
           row' = [p \in DOMAIN row |->
                      IF p \in k .. k + n - 1
                      THEN Evolve(p, IF p = k THEN carry ELSE CarryBefore(row, p))
                      ELSE row[p]],
           \A p \in k .. k + n - 1 : p \in DOMAIN row
    PROVE  Frontier(k + n)'
<1> SUFFICES ASSUME NEW p \in DOMAIN row
             PROVE  row'[p] = IF p < k + n THEN "new" ELSE "old"
  BY DEF Frontier
<1>1. p \in Nat
  OBVIOUS
<1>2. CASE p \notin k .. k + n - 1
  <2>1. row'[p] = row[p] /\ (p < k + n <=> p < k)
    BY <1>1, <1>2
  <2> QED
    BY <2>1 DEF Frontier
<1>3. CASE p \in k .. k + n - 1
  <2>1. p < k + n /\ ~(p < k) /\ row[p] = "old"
    BY <1>1, <1>3 DEF Frontier
  <2>2. (IF p = k THEN carry ELSE CarryBefore(row, p)) = [at |-> p - 1, cell |-> "old"]
    <3>1. CASE p = k
      BY <3>1 DEF Before
    <3>2. CASE p # k
      <4>1. p > k /\ p - 1 \in k .. k + n - 1
        BY <1>1, <1>3, <3>2
      <4> QED
        BY <1>1, <3>2, <4>1, BeforeIs DEF Before
    <3> QED
      BY <3>1, <3>2
  <2>3. row'[p] = Evolve(p, IF p = k THEN carry ELSE CarryBefore(row, p))
    BY <1>3
  <2> QED
    BY <2>1, <2>2, <2>3 DEF Evolve
<1> QED
  BY <1>2, <1>3

\* The parts of RightInv when one thread has the whole row.
LEMMA OnlyRight ==
    ASSUME pc # "idle", pc' = pc, step' = step, column = {}, column' = column,
           DispatchRight, pc = "dispatch" => position = ByteCount(step),
           position' = position, weight' = weight, weightSum' = weightSum,
           queue' = <<>>, dataProcessed' = 0, NEW w \in Worker,
           \A v \in Worker : v # w => worker'[v] = Resting,
           ThreadRight(worker[w])',
           (\A i \in DOMAIN completions : EventRight(completions[i]))'
    PROVE  RightInv'
<1>1. (\A v \in Worker : ThreadRight(worker[v]))'
  BY DEF ThreadRight, Resting
<1>2. DispatchRight'
  BY DEF DispatchRight
<1> QED
  BY <1>1, <1>2 DEF RightInv

\* Bytes that are read back are right, and so is what the thread keeps.
LEMMA ReadRight ==
    ASSUME Clean, IInv, WorkInv, RightInv, NEW w \in Worker,
           NEW n \in 1 .. worker[w].written - worker[w].read,
           NEW wrong, Read(w, n, wrong)
    PROVE  RightInv'
<1> DEFINE t == worker[w]
<1>1. /\ t \in WorkerState /\ t.pc = "read" /\ t.total \in Nat /\ t.read \in Nat
      /\ t.written \in Nat /\ t.request \in Request /\ DOMAIN row \subseteq Nat
      /\ AfterRead(w, n) /\ queue' = queue /\ weight' = weight
      /\ UNCHANGED <<pc, step, column, weightSum, position, dataProcessed>>
  BY DEF Read, neuronVars, IInv, TypeOK, WorkerState
<1>2. PICK B \in Nat : B = ByteCount(step)
  BY ByteCountNat DEF IInv, TypeOK
<1>3. PICK k \in Nat : k = t.total + t.read
  BY <1>1
<1>4. PICK d \in Nat : d = t.total + (t.read + n) /\ d = k + n
  BY <1>1, <1>3
<1>5. /\ t.request.start = 0 /\ t.request.end = B /\ Whole(t.request) /\ Frontier(k)
      /\ t.readLast = Before(k) /\ t.lastByte = Before(t.total + t.written)
  BY <1>1, <1>2, <1>3 DEF RightInv, ThreadRight, Done, Whole
<1>6. n \in Nat /\ n > 0 /\ k < d /\ d <= B /\ k < B
  <2>1. t.total + t.written <= B
    BY <1>1, <1>5 DEF IInv, ReadFits, ChunkLen
  <2> QED
    BY <1>1, <1>3, <1>4, <2>1
<1>7. 0 .. B - 1 \subseteq DOMAIN row /\ k \in DOMAIN row /\ d - 1 \in DOMAIN row
  <2>1. 0 .. B - 1 \subseteq DOMAIN row
    BY <1>1, <1>2, OnlyHolder DEF IInv, ChunksInRow
  <2> QED
    BY <1>6, <2>1
<1>8. ReadAt(w) = k
  BY <1>1, <1>3, <1>5 DEF ReadAt
<1>9. Frontier(d)'
  <2>1. wrong = {}
    BY PoolAssumption DEF Clean, Read
  <2>2. row' = [p \in DOMAIN row |->
                   IF p \in k .. k + n - 1
                   THEN Evolve(p, IF p = k THEN t.readLast ELSE CarryBefore(row, p))
                   ELSE row[p]]
    BY <1>8, <2>1 DEF Read
  <2>3. \A p \in k .. k + n - 1 : p \in DOMAIN row
    BY <1>4, <1>6, <1>7
  <2> HIDE DEF t
  <2>4. Frontier(k + n)'
    BY <1>1, <1>5, <1>6, <2>2, <2>3, ReadMoves
  <2> QED
    BY <1>4, <2>4
<1>10. /\ queue = <<>> /\ completions = <<>>
       /\ \A v \in Worker : v # w => worker[v] = Resting
       /\ pc # "idle" /\ (pc = "dispatch" => position = ByteCount(step))
  BY <1>1, OnlyHolder
<1>11. dataProcessed' = 0
  <2>1. dataProcessed \in Nat /\ (dataProcessed > 0 => Frontier(B))
    BY <1>2 DEF IInv, TypeOK, RightInv
  <2>2. ~Frontier(B)
    BY <1>5, <1>6, <1>7 DEF Frontier
  <2> QED
    BY <1>1, <2>1, <2>2
<1>12. ASSUME NEW locals \in WorkerState, Step(w, locals),
              ThreadRight(locals)', (\A i \in DOMAIN completions : EventRight(completions[i]))'
       PROVE  RightInv'
  <2>1. /\ worker'[w] = locals
        /\ \A v \in Worker : v # w => worker'[v] = worker[v]
    BY <1>12, StepKeepsType DEF IInv, TypeOK
  <2>2. ThreadRight(worker[w])'
    BY <1>12, <2>1
  <2> QED
    BY <1>1, <1>10, <1>11, <1>12, <2>1, <2>2, OnlyRight DEF RightInv
<1>13. Before(d) \in Carry /\ t.read + n \in Nat
  BY <1>1, <1>6 DEF Before, Carry, Cell
<1>14. ASSUME Step(w, [worker[w] EXCEPT !.read = worker[w].read + n,
                                       !.readLast = CarryBefore(row, ReadAt(w) + n)]),
              UNCHANGED completions
       PROVE  RightInv'
  <2>1. CarryBefore(row, ReadAt(w) + n) = Before(d)
    BY <1>4, <1>5, <1>6, <1>7, <1>8, BeforeIs
  <2>2. PICK locals : locals = [worker[w] EXCEPT !.read = worker[w].read + n,
                                                 !.readLast = CarryBefore(row, ReadAt(w) + n)]
    OBVIOUS
  <2>3. /\ locals \in WorkerState /\ locals.pc = "read" /\ locals.request = t.request
        /\ locals.total = t.total /\ locals.read = t.read + n
        /\ locals.written = t.written /\ locals.lastByte = t.lastByte
        /\ locals.readLast = Before(d)
    BY <1>1, <1>13, <2>1, <2>2 DEF WorkerState
  <2>4. Step(w, locals) /\ completions' = <<>>
    BY <1>10, <1>14, <2>2
  <2>5. /\ Whole(locals.request)' /\ locals.total + locals.read = d
        /\ locals.lastByte = Before(locals.total + locals.written)
    BY <1>1, <1>4, <1>5, <2>3 DEF Whole
  <2>6. ThreadRight(locals)'
    BY <1>9, <2>3, <2>5 DEF ThreadRight, Done
  <2> QED
    BY <1>12, <2>3, <2>4, <2>6
<1>15. ASSUME t.read + n = t.written,
              Step(w, [worker[w] EXCEPT !.pc = "write",
                                       !.total = worker[w].total + (worker[w].read + n),
                                       !.last = worker[w].lastByte]),
              UNCHANGED completions
       PROVE  RightInv'
  <2>1. PICK locals : locals = [worker[w] EXCEPT !.pc = "write",
                                                 !.total = worker[w].total + (worker[w].read + n),
                                                 !.last = worker[w].lastByte]
    OBVIOUS
  <2>2. t.total + t.written = d
    BY <1>4, <1>15
  <2>3. /\ locals \in WorkerState /\ locals.pc = "write" /\ locals.request = t.request
        /\ locals.total = d /\ locals.last = Before(d)
    BY <1>1, <1>4, <1>5, <2>1, <2>2 DEF WorkerState, WorkerPc
  <2>4. Step(w, locals) /\ completions' = <<>>
    BY <1>10, <1>15, <2>1
  <2>5. Whole(locals.request)'
    BY <1>1, <1>5, <2>3 DEF Whole
  <2>6. ThreadRight(locals)'
    BY <1>9, <2>3, <2>5 DEF ThreadRight, Done
  <2> QED
    BY <1>12, <2>3, <2>4, <2>6
<1>16. ASSUME t.total + (t.read + n) = ChunkLen(w),
              Report(w, "completed", t.total + (t.read + n),
                     Remaining(w, t.total + (t.read + n), t.lastByte))
       PROVE  RightInv'
  <2>1. d = B
    BY <1>2, <1>4, <1>5, <1>16 DEF ChunkLen
  <2>2. PICK r : r = Remaining(w, t.total + (t.read + n), t.lastByte)
    OBVIOUS
  <2>3. r.start = B /\ r.end = B
    BY <1>4, <1>5, <2>1, <2>2 DEF Remaining
  <2>4. PICK e : e = [uid |-> t.uid, kind |-> "completed", processed |-> B, request |-> r]
    OBVIOUS
  <2>5. e.kind = "completed" /\ e.processed = B /\ e.request = r
    BY <2>4
  <2>6. Step(w, Resting) /\ completions' = <<e>>
    BY <1>4, <1>10, <1>16, <2>1, <2>2, <2>4 DEF Report
  <2>7. B = ByteCount(step)' /\ Frontier(B)'
    BY <1>1, <1>2, <1>9, <2>1
  <2>8. EventRight(e)'
    BY <2>3, <2>5, <2>7 DEF EventRight
  <2>9. (\A i \in DOMAIN completions : EventRight(completions[i]))'
    <3>1. \A i \in DOMAIN completions' : completions'[i] = e
      BY <2>6
    <3> QED
      BY <2>8, <3>1
  <2>10. ThreadRight(Resting)'
    BY DEF ThreadRight, Resting
  <2> QED
    BY <1>12, <2>6, <2>9, <2>10, RestingType
<1> QED
  BY <1>1, <1>14, <1>15, <1>16 DEF AfterRead

\* Every event tells of a row that is done.
LEMMA CollectRight ==
    ASSUME IInv, WorkInv, RightInv, CollectCompleted \/ CollectFailed \/ CollectCheated
    PROVE  RightInv'
<1>1. /\ pc = "collect" /\ completions # <<>> /\ completions \in Seq(Event)
      /\ completions' = Tail(completions)
  BY DEF CollectCompleted, CollectFailed, CollectCheated, Collecting, IInv, TypeOK
<1>2. /\ Head(completions).kind = "completed" /\ Frontier(ByteCount(step))
  BY <1>1, HeadTailElements DEF RightInv, EventRight
<1>3. CollectCompleted
  BY <1>2 DEF CollectFailed, CollectCheated, Collecting
<1>4. /\ pc' = pc /\ step' = step /\ row' = row /\ column' = column /\ queue' = queue
      /\ worker' = worker
  BY <1>3 DEF CollectCompleted
<1>5. (\A i \in DOMAIN completions : EventRight(completions[i]))'
  <2>1. \A i \in DOMAIN completions' : EventRight(completions'[i])
    BY <1>1, HeadTailElements DEF RightInv
  <2> QED
    BY <1>4, <2>1 DEF EventRight, Frontier
<1>6. /\ (\A i \in DOMAIN queue : Whole(queue[i]) /\ Frontier(0))'
      /\ (\A w \in Worker : ThreadRight(worker[w]))'
      /\ Frontier(ByteCount(step))'
  BY <1>2, <1>4 DEF RightInv, ThreadRight, Whole, Frontier
<1> QED
  BY <1>1, <1>4, <1>5, <1>6 DEF RightInv, DispatchRight

\* The step ends with all bytes and the centre bit right.
LEMMA FinishStepRight ==
    ASSUME IInv, WorkInv, RightInv, FinishStep
    PROVE  RightInv'
<1>1. /\ Frontier(ByteCount(step)) /\ step \in Nat /\ DOMAIN row \subseteq Nat
      /\ ByteCount(step) \in Nat
      /\ 0 .. ByteCount(step) - 1 \subseteq DOMAIN row
  <2>1. step \in Nat /\ dataProcessed \in Nat /\ DOMAIN row \subseteq Nat
    BY DEF IInv, TypeOK
  <2>2. ByteCount(step) \in Nat /\ ByteCount(step) > 0
    BY <2>1, ByteCountNat
  <2>3. dataProcessed > 0
    BY <2>1, <2>2 DEF FinishStep, StepDone
  <2> QED
    BY <2>1, <2>2, <2>3 DEF RightInv, FinishStep, IInv, ChunksInRow
<1>2. row[CenterByte(step)] = "new"
  <2>1. CenterByte(step) \in 0 .. ByteCount(step) - 1
    BY <1>1, CenterInside
  <2> QED
    BY <1>1, <2>1 DEF Frontier
<1>3. (column = {})'
  BY <1>2 DEF FinishStep, RightInv
<1>4. Frontier(0)'
  BY <1>1 DEF FinishStep, Frontier
<1>5. WorkInv' /\ pc' = "idle"
  BY FinishStepWork DEF FinishStep
<1>6. Idle'
  BY <1>5 DEF WorkInv, QuietBetweenSteps, Phases, Idle
<1> QED
  BY <1>3, <1>4, <1>6, IdleRight

\* Between steps the connections change, the row does not.
LEMMA SyncRight ==
    ASSUME WorkInv, RightInv, Sync
    PROVE  RightInv'
<1>1. /\ pc = "idle" /\ row' = row /\ column' = column
      /\ UNCHANGED <<pc, rest, dataProcessed, queue, available, completions, worker>>
  BY DEF Sync, Resync, stepVars
<1>2. Idle'
  BY <1>1 DEF WorkInv, QuietBetweenSteps, Phases, Idle
<1>3. Frontier(0)' /\ (column = {})'
  BY <1>1 DEF RightInv, Frontier
<1> QED
  BY <1>2, <1>3, IdleRight

\* Every step of a clean pool keeps the row right.
LEMMA NextRight == Clean /\ IInv /\ WorkInv /\ RightInv /\ [Next]_vars => RightInv'
<1> SUFFICES ASSUME Clean, IInv, WorkInv, RightInv, [Next]_vars PROVE RightInv'
  OBVIOUS
<1>1. CASE Main
  BY <1>1, BeginStepRight, DispatchStepRight, CollectRight, FinishStepRight DEF Main
<1>2. CASE \E w \in Worker : Work(w)
  <2>1. PICK w \in Worker : Work(w)
    BY <1>2
  <2>2. ~(WriteHeaderFails(w) \/ WriteFails(w) \/ ReadFails(w) \/ ReadRefuted(w))
    BY DEF Clean, WriteHeaderFails, WriteFails, ReadFails, ReadRefuted
  <2> QED
    BY <2>1, <2>2, ReceiveRight, WriteRight, ReadRight DEF Work
<1>3. CASE Sync
  BY <1>3, SyncRight
<1>4. CASE UNCHANGED vars
  BY <1>4 DEF vars, stepVars, neuronVars, RightInv, DispatchRight, ThreadRight,
              EventRight, Whole, Frontier
<1> QED
  BY <1>1, <1>2, <1>3, <1>4 DEF Next

\* "Each computation has exactly one correct answer" (README): with miners that
\* answer, and steps of one chunk, every row and every bit of the centre column
\* is right, for any number of miners, any windows, and any cut of the reads and
\* writes. Without one of these conditions it need not be.
THEOREM CleanRowsAreRight == Clean /\ Spec => []RowEvolved
<1>1. Clean /\ Init => Clean /\ RightInv
  BY InitRight
<1>2. Clean /\ IInv /\ WorkInv /\ RightInv /\ [Next]_vars => (Clean /\ RightInv)'
  BY NextRight DEF Clean
<1>3. IInv /\ RightInv => RowEvolved
  <2> SUFFICES ASSUME IInv, RightInv, pc = "idle"
               PROVE  (\A p \in DOMAIN row : row[p] = "old") /\ column = {}
    BY DEF RowEvolved
  <2>1. Frontier(0) /\ column = {} /\ DOMAIN row \subseteq Nat
    BY DEF RightInv, IInv, TypeOK
  <2> QED
    BY <2>1 DEF Frontier
<1> QED
  BY <1>1, <1>2, <1>3, SpecWork, PTL DEF Spec
===============================================================================
