------------------------------- MODULE MinerStream -------------------------------
(***************************************************************************)
(* One connection between a validator and an honest miner, at the level of *)
(* bytes: handle_connection and read_len of the validator's worker thread  *)
(* against handle_connection, handle_step_request and Solver of the miner, *)
(* over the two directions of a TCP stream.  Either side is given any      *)
(* number of the bytes that have arrived.                                  *)
(*                                                                         *)
(* Data: a byte of the validator's row is its position in the request,     *)
(* counted from 1, so 0 is the request's last_byte.  An answer names the   *)
(* byte it is for and the byte its sender took for the one before: the     *)
(* evolved value depends on nothing else.  So a carry that is not the      *)
(* right byte is Stale, and an answer is right when it is <<p, p - 1>>.    *)
(***************************************************************************)
EXTENDS Integers, Sequences, FiniteSetsExt

CONSTANTS WordBytes,    \* 8: bytes of the miner's Word
          ChunkWords,   \* 8: words of its AlignedChunk
          MinerBuffer,  \* 32 KiB: its buffer, in whole AlignedChunks
          BufferSize,   \* 32 KiB: what the validator writes before reading back
          Capacity,     \* bytes one direction of the stream holds
          Lengths,      \* lengths of requests
          MaxRequests   \* bound: requests on the connection

ChunkBytes == WordBytes * ChunkWords

ASSUME StreamAssumption ==
    /\ WordBytes \in Nat \ {0} /\ ChunkWords \in Nat \ {0}
    /\ MinerBuffer \in Nat \ {0} /\ MinerBuffer % ChunkBytes = 0
    /\ BufferSize \in Nat \ {0} /\ Capacity \in Nat \ {0}
    /\ Lengths \subseteq Nat \ {0}
    /\ MaxRequests \in Nat

VARIABLES
    reliable,   \* neither side's socket calls fail or time out
    requests,   \* how many requests were made
    up, down,   \* bytes under way to the miner, to the validator
    \* validator: handle_connection and read_len
    vpc,        \* "idle", "write", "read"; "failed", "cheated" once dropped
    length,     \* work_chunk.len()
    total,      \* total_processed
    last,       \* last
    written,    \* written
    read,       \* read_len: read
    readLast,   \* read_len: last
    wrong,      \* bytes of the chunk that were overwritten wrongly
    \* miner: handle_step_request
    mpc,        \* "request", "data", "answer", "gone"
    left,       \* request.length - solved
    solverLast, \* solver.last, its top byte
    out,        \* answers in the buffer that are not written yet
    \* history
    cuts        \* bytes after which a read of the miner ended inside a word

validator == <<vpc, length, total, last, written, read, readLast, wrong>>
miner == <<mpc, left, solverLast, out, cuts>>
vars == <<reliable, requests, up, down, validator, miner>>

Stale == -1

Header(n) == <<"header", n>>
Raw(p) == <<"byte", p>>

Init ==
    /\ reliable \in BOOLEAN
    /\ requests = 0
    /\ up = <<>> /\ down = <<>>
    /\ vpc = "idle" /\ length = 0 /\ total = 0 /\ last = 0
    /\ written = 0 /\ read = 0 /\ readLast = 0 /\ wrong = {}
    /\ mpc = "request" /\ left = 0 /\ solverLast = 0 /\ out = <<>>
    /\ cuts = {}

-------------------------------------------------------------------------------
\* Validator

\* do_work hands a chunk to handle_connection, which sends the request.
Request(n) ==
    /\ vpc = "idle"
    /\ requests < MaxRequests
    /\ requests' = requests + 1
    /\ up' = Append(up, Header(n))
    /\ vpc' = "write"
    /\ length' = n
    /\ total' = 0 /\ last' = 0 /\ written' = 0 /\ read' = 0 /\ readLast' = 0
    /\ wrong' = {}
    /\ cuts' = {}
    /\ UNCHANGED <<reliable, down, mpc, left, solverLast, out>>

Window_Full == (total \div BufferSize + 1) * BufferSize - total

\* What is left of the current window of the chunk.
Window == Min({(total \div BufferSize + 1) * BufferSize, length}) - total

\* connection.write queues any part of the window there is room for.
Write(n) ==
    /\ vpc = "write"
    /\ Len(up) + n <= Capacity
    /\ up' = up \o [i \in 1 .. n |-> Raw(total + i)]
    /\ vpc' = "read"
    /\ written' = n
    /\ read' = 0
    /\ readLast' = last
    /\ UNCHANGED <<reliable, requests, down, length, total, last, wrong, miner>>

\* last_byte, taken before the answers overwrite it.
LastByte == total + written

\* read_len, last: the byte before the next read, as it was.
ReadLast(n) == total + read + n

\* verify_result: the answers against what the validator has of the row.
Verified(answers) ==
    \A i \in DOMAIN answers :
        answers[i] = <<total + read + i,
                       IF i = 1 THEN readLast ELSE total + read + i - 1>>

Right(p, answer) == answer = <<p, p - 1>>

\* After a read of n bytes: read on, write on, or the chunk is complete.
AfterRead(n) ==
    LET sum == read + n
    IN  \/ /\ sum < written
           /\ read' = sum /\ readLast' = ReadLast(n)
           /\ UNCHANGED <<vpc, total, last, written>>
        \/ /\ sum = written
           /\ total' = total + written /\ last' = LastByte
           /\ vpc' = IF total' < length THEN "write" ELSE "idle"
           /\ written' = 0 /\ read' = 0 /\ readLast' = 0

\* One turn of read_len.  The lottery picks the read (checked) or not.
ReadAnswers(n, checked) ==
    LET answers == SubSeq(down, 1, n)
    IN  /\ vpc = "read"
        /\ checked => Verified(answers)
        /\ down' = SubSeq(down, n + 1, Len(down))
        /\ wrong' = wrong \cup {p \in total + read + 1 .. total + read + n :
                                   ~Right(p, answers[p - total - read])}
        /\ AfterRead(n)
        /\ UNCHANGED <<reliable, requests, up, length, miner>>

\* The lottery picks a read that verify_result refutes; the completion handler
\* drops the connection.
Refute(n) ==
    /\ vpc = "read"
    /\ ~Verified(SubSeq(down, 1, n))
    /\ vpc' = "cheated"
    /\ UNCHANGED <<reliable, requests, up, down, length, total, last, written,
                   read, readLast, wrong, miner>>

\* A write or a read fails, ends or times out: Failed, and the connection is
\* dropped.
Fail ==
    /\ ~reliable
    /\ vpc \in {"write", "read"}
    /\ vpc' = "failed"
    /\ UNCHANGED <<reliable, requests, up, down, length, total, last, written,
                   read, readLast, wrong, miner>>

Dropped == vpc \in {"failed", "cheated"}

-------------------------------------------------------------------------------
\* Miner

\* read::<ProcessingNetworkRequest>: whatever is at the front of the stream.
ReceiveRequest ==
    /\ mpc = "request"
    /\ up # <<>>
    /\ mpc' = "data"
    /\ left' = Head(up)[2]
    /\ solverLast' = 0
    /\ up' = Tail(up)
    /\ UNCHANGED <<reliable, requests, down, validator, out, cuts>>

\* read::<T> does not look at the number of bytes it got.  When the validator is
\* gone that is 0, and the request is what was in memory before.
ReceiveNothing(n) ==
    /\ mpc = "request"
    /\ up = <<>>
    /\ Dropped
    /\ mpc' = IF n = 0 THEN "request" ELSE "data"
    /\ left' = n
    /\ solverLast' = Stale
    /\ UNCHANGED <<reliable, requests, up, down, validator, out, cuts>>

\* read_len
ReadLen == Min({left, MinerBuffer})

WordIndex_Last(n) == ChunkWords - 1

\* word_index: the last word of the last AlignedChunk that got bytes.
WordIndex(n) ==
    LET used == n % ChunkBytes
        extra == IF used = 0 THEN 0 ELSE ChunkBytes - used
    IN  ChunkWords - extra \div WordBytes - 1

\* last: the top byte of that word, which is left over from something else when
\* the read ended inside the word.
CarryOf(bytes) ==
    LET n == Len(bytes)
        chunks == (n + ChunkBytes - 1) \div ChunkBytes
        top == ((chunks - 1) * ChunkWords + WordIndex(n) + 1) * WordBytes
    IN  IF top <= n THEN bytes[top] ELSE Stale

\* Solver::solve: every byte with the one before it.
Solved(bytes) ==
    [i \in DOMAIN bytes |->
        <<bytes[i], IF i = 1 THEN solverLast ELSE bytes[i - 1]>>]

\* Read, solve and take the carry; then the answers are written.
ReceiveData(n) ==
    LET bytes == [i \in 1 .. n |-> up[i][2]]
    IN  /\ mpc = "data"
        /\ up' = SubSeq(up, n + 1, Len(up))
        /\ out' = Solved(bytes)
        /\ solverLast' = CarryOf(bytes)
        /\ cuts' = IF n % WordBytes = 0 THEN cuts ELSE cuts \cup {bytes[n]}
        /\ mpc' = "answer"
        /\ UNCHANGED <<reliable, requests, down, validator, left>>

WriteAnswers_Once(n) ==
    /\ mpc = "answer"
    /\ Len(down) + n <= Capacity
    /\ down' = down \o SubSeq(out, 1, n)
    /\ out' = <<>>
    /\ left' = left - n
    /\ mpc' = IF left' = 0 THEN "request" ELSE "data"
    /\ UNCHANGED <<reliable, requests, up, validator, solverLast, cuts>>

WriteAnswers_LastCounts(n) ==
    /\ mpc = "answer"
    /\ Len(down) + n <= Capacity
    /\ down' = down \o SubSeq(out, 1, n)
    /\ out' = SubSeq(out, n + 1, Len(out))
    /\ left' = IF out' = <<>> THEN left - n ELSE left
    /\ mpc' = IF out' # <<>> THEN "answer" ELSE IF left' = 0 THEN "request" ELSE "data"
    /\ UNCHANGED <<reliable, requests, up, validator, solverLast, cuts>>

\* stream.write takes any part there is room for.  (It never takes nothing, so
\* the case of 0, which the code only logs, does not arise.)  The buffer is
\* read on, or the next request, when all was written.
WriteAnswers(n) ==
    /\ mpc = "answer"
    /\ Len(down) + n <= Capacity
    /\ down' = down \o SubSeq(out, 1, n)
    /\ out' = SubSeq(out, n + 1, Len(out))
    /\ left' = left - n
    /\ mpc' = IF out' # <<>> THEN "answer" ELSE IF left' = 0 THEN "request" ELSE "data"
    /\ UNCHANGED <<reliable, requests, up, validator, solverLast, cuts>>

\* The stream ended or failed, or the miner's process did: handle_connection
\* returns and drops the stream.
Leave ==
    /\ mpc # "gone"
    /\ ~reliable \/ Dropped
    /\ mpc' = "gone"
    /\ UNCHANGED <<reliable, requests, up, down, validator, left, solverLast,
                   out, cuts>>

-------------------------------------------------------------------------------
Converse ==
    \/ \E n \in 1 .. Window : Write(n)
    \/ \E n \in 1 .. Min({Len(down), written - read}) :
          Refute(n) \/ \E checked \in BOOLEAN : ReadAnswers(n, checked)
    \/ Fail

Mine ==
    \/ ReceiveRequest
    \/ \E n \in 0 .. 1 : ReceiveNothing(n)
    \/ \E n \in 1 .. Min({Len(up), ReadLen}) : ReceiveData(n)
    \/ \E n \in 1 .. Len(out) : WriteAnswers(n)
    \/ Leave

Next == (\E n \in Lengths : Request(n)) \/ Converse \/ Mine

Spec == Init /\ [][Next]_vars

\* Both threads are scheduled, and a socket call of the validator returns within
\* 5 s.  A miner is only owed this much while it is reliable.
FairSpec == Spec /\ WF_vars(Converse) /\ WF_vars(reliable /\ Mine)

-------------------------------------------------------------------------------
Positions(answers) == [i \in DOMAIN answers |-> answers[i][1]]

Announced == up # <<>> /\ Head(up)[1] = "header"

\* The bytes that follow the request, or all that is under way.
Data == IF Announced THEN Tail(up) ELSE up

Connected == ~Dropped /\ mpc # "gone"

\* Type invariant.
TypeOK ==
    /\ reliable \in BOOLEAN
    /\ requests \in 0 .. MaxRequests
    /\ Len(up) <= Capacity /\ Len(down) <= Capacity
    /\ \A i \in DOMAIN up : up[i] \in {"header", "byte"} \X Nat
    /\ \A i \in DOMAIN down : down[i] \in Nat \X (Nat \cup {Stale})
    /\ vpc \in {"idle", "write", "read", "failed", "cheated"}
    /\ length \in Lengths \cup {0}
    /\ total \in 0 .. length /\ last \in 0 .. length
    /\ written \in 0 .. BufferSize /\ read \in 0 .. written
    /\ readLast \in 0 .. length
    /\ wrong \subseteq 1 .. length
    /\ mpc \in {"request", "data", "answer", "gone"}
    /\ left \in Nat
    /\ solverLast \in Nat \cup {Stale}
    /\ Len(out) <= MinerBuffer
    /\ cuts \subseteq Nat

\* Every byte that was written and has not been read back is in exactly one
\* place between write and read_len - on its way, in the miner's buffer, on its
\* way back - and they are in order.
InOrder ==
    Connected =>
        Positions(down) \o Positions(out) \o [i \in DOMAIN Data |-> Data[i][2]]
            = [i \in 1 .. written - read |-> total + read + i]

\* Both ends agree on where a request begins and ends, although nothing in the
\* stream marks it: when the miner waits for a request, the next thing in the
\* stream is one, or will be; otherwise it wants as many bytes as it owes.
Framed ==
    Connected =>
        \/ /\ mpc = "request"
           /\ Announced /\ Head(up) = Header(length)
           /\ \A i \in 2 .. Len(up) : up[i][1] = "byte"
        \/ /\ vpc = "idle" \/ left = length - total - read - Len(down)
           /\ vpc = "idle" => left = 0 /\ up = <<>>
           /\ mpc = "request" <=> left = 0
           /\ \A i \in DOMAIN up : up[i][1] = "byte"

\* Solver and verify_result agree, and the row comes out right, through any cuts
\* of the stream into writes and reads, except that the byte after a read of the
\* miner that ended inside one of its words may be wrong; and only such a byte
\* makes an honest miner a cheater.
WrongAfterCut ==
    /\ \A p \in wrong : p - 1 \in cuts
    /\ vpc = "cheated" => \E p \in cuts : p \in total + read .. total + written - 1

\* "Each computation has exactly one correct answer" (README): an honest miner
\* gives it, and is never taken for a cheater, however TCP cuts the stream.
AnswersRight == wrong = {} /\ vpc # "cheated"

\* The connection as a worker thread sees it.
Phase == CASE vpc \in {"write", "read"} -> "asked"
           [] vpc = "idle" -> "idle"
           [] Dropped -> "closed"

Answered == total + read

\* What a worker thread relies on, and WorkPool assumes: requests are answered
\* in order, byte by byte, and a dropped connection answers nothing.
Promise == INSTANCE Exchange WITH phase <- Phase, answered <- Answered
ExchangeSpec == Promise!Spec

\* A request ends: it is complete, or the connection fails or is dropped.  With
\* a reliable miner there are no timeouts to end it, so the two ends never wait
\* for each other, whatever the stream holds at most.
RequestSettles == vpc \in {"write", "read"} ~> vpc \notin {"write", "read"}
===============================================================================
