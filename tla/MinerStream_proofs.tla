--------------------------- MODULE MinerStream_proofs ---------------------------
(***************************************************************************)
(* A connection between a validator and a miner, for any lengths of        *)
(* requests, sizes of words, windows and buffers, and any cut of the two   *)
(* streams into writes and reads: nothing is lost, repeated or reordered,  *)
(* the two ends agree where a request ends, an honest miner is only wrong  *)
(* after a read that ended inside a word, and a worker thread gets what    *)
(* Exchange promises.                                                      *)
(***************************************************************************)
EXTENDS MinerStream, SequenceTheorems, TLAPS

-------------------------------------------------------------------------------
\* The inductive invariant.

Item == {"header", "byte"} \X Nat

Answer == Nat \X (Nat \cup {Stale})

Contents ==
    /\ up \in Seq(Item) /\ Len(up) <= Capacity
    /\ down \in Seq(Answer) /\ Len(down) <= Capacity
    /\ out \in Seq(Answer) /\ Len(out) <= MinerBuffer

ValidatorSide ==
    /\ reliable \in BOOLEAN /\ requests \in 0 .. MaxRequests
    /\ vpc \in {"idle", "write", "read", "failed", "cheated"}
    /\ length \in Lengths \cup {0} /\ (vpc # "idle" => length \in Lengths)
    /\ total \in Nat /\ written \in 0 .. BufferSize /\ read \in 0 .. written
    /\ total + written <= length
    /\ last \in 0 .. length /\ readLast \in 0 .. length
    /\ wrong \subseteq 1 .. length
    /\ vpc \in {"idle", "write"} => written = 0
    /\ vpc = "idle" => total = length
    /\ vpc = "write" => last = total /\ total < length
    /\ vpc = "read" => readLast = total + read /\ read < written

MinerSide ==
    /\ mpc \in {"request", "data", "answer", "gone"}
    /\ left \in Nat /\ Len(out) <= left
    /\ solverLast \in Nat \cup {Stale}
    /\ cuts \subseteq Nat
    /\ mpc \in {"request", "data"} => out = <<>>
    /\ mpc = "answer" => out # <<>>

Off == IF Announced THEN 1 ELSE 0

\* Where the bytes between write and read_len are.
InFlight ==
    ~Dropped =>
        /\ Len(down) + Len(out) + Len(up) - Off = written - read
        /\ \A i \in DOMAIN down : down[i][1] = total + read + i
        /\ \A i \in DOMAIN out : out[i][1] = total + read + Len(down) + i
        /\ \A i \in DOMAIN up :
              i > Off => up[i] = Raw(total + read + Len(down) + Len(out) + i - Off)

\* A request that the miner has not read yet.
Unread ==
    ~Dropped /\ Announced =>
        /\ Head(up) = Header(length) /\ vpc # "idle"
        /\ total = 0 /\ read = 0 /\ down = <<>> /\ out = <<>>
        /\ mpc \in {"request", "gone"}

\* A request that it has read.
Owed ==
    Connected /\ ~Announced =>
        /\ left = length - total - read - Len(down)
        /\ mpc = "request" <=> left = 0

\* What the miner took for the byte before.
Carried ==
    ~Dropped =>
        /\ \A i \in DOMAIN down : \/ down[i][2] = (total + read + i) - 1
                                  \/ (total + read + i) - 1 \in cuts
        /\ \A i \in DOMAIN out : \/ out[i][2] = (total + read + Len(down) + i) - 1
                                 \/ (total + read + Len(down) + i) - 1 \in cuts
        /\ mpc \in {"data", "answer"} =>
              \/ solverLast = total + read + Len(down) + Len(out)
              \/ total + read + Len(down) + Len(out) \in cuts

IInv == /\ Contents /\ ValidatorSide /\ MinerSide /\ InFlight /\ Unread /\ Owed /\ Carried
        /\ WrongAfterCut

\* The less of two numbers.
LEMMA MinIsLess ==
    ASSUME NEW a \in Int, NEW b \in Int
    PROVE  /\ Min({a, b}) \in Int
           /\ Min({a, b}) <= a /\ Min({a, b}) <= b
           /\ Min({a, b}) \in {a, b}
<1>1. \E x \in {a, b} : \A y \in {a, b} : x <= y
  <2>1. CASE a <= b
    BY <2>1
  <2>2. CASE b <= a
    BY <2>2
  <2> QED
    BY <2>1, <2>2
<1>2. Min({a, b}) \in {a, b} /\ \A y \in {a, b} : Min({a, b}) <= y
  BY <1>1 DEF Min
<1> QED
  BY <1>2

-------------------------------------------------------------------------------
\* Arithmetic of windows and AlignedChunks.

\* Quotient and remainder.
LEMMA DivMod ==
    ASSUME NEW n \in Nat, NEW d \in Nat, d > 0
    PROVE  /\ n \div d \in Nat /\ n % d \in 0 .. d - 1
           /\ n = d * (n \div d) + (n % d)
BY Z3

Divides(n, d, q, r) == q \in Int /\ r \in 0 .. d - 1 /\ n = d * q + r

\* Quotient and remainder are the only such numbers.
LEMMA DivUnique ==
    ASSUME NEW d \in Nat, d > 0, NEW n, NEW q, NEW r, NEW p, NEW t,
           Divides(n, d, q, r), Divides(n, d, p, t)
    PROVE  q = p /\ r = t
<1> USE DEF Divides
<1>1. ASSUME NEW x \in Int, NEW y \in Int, x > y PROVE d * x >= d * y + d
  <2>1. x - y - 1 \in Nat
    BY <1>1
  <2>2. d * (x - y - 1) >= 0
    BY <2>1
  <2>3. d * (x - y - 1) = d * x - d * y - d
    OBVIOUS
  <2>4. d * x \in Int /\ d * y \in Int
    OBVIOUS
  <2> QED
    BY <2>2, <2>3, <2>4
<1>2. d * q \in Int /\ d * p \in Int
  OBVIOUS
<1>3. ~(q > p)
  BY <1>1, <1>2
<1>4. ~(p > q)
  BY <1>1, <1>2
<1>5. q = p
  BY <1>3, <1>4
<1> QED
  BY <1>2, <1>5

\* A write stays within the window of BufferSize bytes and within the chunk.
LEMMA WindowBounds ==
    ASSUME total \in Nat, length \in Nat, NEW n \in 1 .. Window
    PROVE  n <= BufferSize /\ total + n <= length
<1> DEFINE q == total \div BufferSize
           w == (q + 1) * BufferSize
<1>1. q \in Nat /\ total >= BufferSize * q /\ BufferSize \in Nat
  BY DivMod, StreamAssumption
<1> HIDE DEF q
<1>2. w = BufferSize * q + BufferSize /\ BufferSize * q \in Nat /\ w \in Int
  BY <1>1
<1>3. Window = Min({w, length}) - total
  BY DEF Window, q
<1> HIDE DEF w
<1>4. Min({w, length}) \in Int /\ Min({w, length}) <= w /\ Min({w, length}) <= length
  <2>1. length \in Int
    OBVIOUS
  <2> QED
    BY <1>2, <2>1, MinIsLess
<1> QED
  BY <1>1, <1>2, <1>3, <1>4

\* The carry is the last byte of a read, or nothing sensible, and the latter
\* only when the read ended inside a word: word_index finds the last word.
LEMMA CarryIsLast ==
    ASSUME NEW bytes, Len(bytes) \in Nat \ {0}
    PROVE  /\ CarryOf(bytes) \in {bytes[Len(bytes)], Stale}
           /\ Len(bytes) % WordBytes = 0 => CarryOf(bytes) = bytes[Len(bytes)]
<1> DEFINE n == Len(bytes)
           W == WordBytes
           C == ChunkWords
           B == ChunkBytes
           used == n % B
           q == n \div B
           chunks == (n + B - 1) \div B
           extra == IF used = 0 THEN 0 ELSE B - used
           e == extra \div W
           r == extra % W
           top == ((chunks - 1) * C + WordIndex(n) + 1) * W
<1>1. W \in Nat /\ W > 0 /\ C \in Nat /\ C > 0 /\ n \in Nat /\ n > 0
  BY StreamAssumption
<1>2. B = W * C /\ B \in Nat /\ B > 0
  BY <1>1 DEF ChunkBytes
<1>3. CarryOf(bytes) = IF top <= n THEN bytes[top] ELSE Stale
  BY DEF CarryOf
<1>4. WordIndex(n) = C - e - 1
  BY DEF WordIndex
<1>5. n = B * q + used /\ q \in Nat /\ used \in 0 .. B - 1
  BY <1>1, <1>2, DivMod
<1> HIDE DEF n, W, C, B
<1>6. B * chunks = n + extra /\ chunks \in Nat /\ extra \in 0 .. B - 1
  <2> HIDE DEF used, q
  <2> DEFINE m == n + B - 1
  <2>1. m \in Nat /\ chunks = m \div B
    BY <1>1, <1>2
  <2>2. m = B * chunks + (m % B) /\ chunks \in Nat /\ m % B \in 0 .. B - 1
    BY <2>1, <1>2, DivMod
  <2> HIDE DEF chunks
  <2>3. PICK z \in 0 .. B - 1 : m = B * chunks + z
    BY <2>2
  <2>4. CASE used = 0
    <3>1. m = B * q + (B - 1) /\ B - 1 \in 0 .. B - 1
      BY <2>4, <1>2, <1>5
    <3> HIDE DEF m
    <3>2. Divides(m, B, q, B - 1) /\ Divides(m, B, chunks, z)
      BY <3>1, <2>2, <2>3, <1>5 DEF Divides
    <3>3. chunks = q
      BY <3>2, <1>2, DivUnique
    <3> QED
      BY <3>3, <2>4, <1>1, <1>2, <1>5
  <2>5. CASE used # 0
    <3>1. B * (q + 1) = B * q + B /\ B * q \in Nat /\ q + 1 \in Nat
      BY <1>2, <1>5
    <3>2. m = B * (q + 1) + (used - 1) /\ used - 1 \in 0 .. B - 1
      BY <3>1, <2>5, <1>1, <1>2, <1>5
    <3> HIDE DEF m
    <3>3. Divides(m, B, q + 1, used - 1) /\ Divides(m, B, chunks, z)
      BY <3>1, <3>2, <2>2, <2>3 DEF Divides
    <3>4. chunks = q + 1
      BY <3>3, <1>2, DivUnique
    <3> QED
      BY <3>1, <3>4, <2>5, <1>1, <1>2, <1>5
  <2> QED
    BY <2>4, <2>5
<1>7. extra = W * e + r /\ e \in Nat /\ r \in 0 .. W - 1
  BY <1>1, <1>2, <1>6, DivMod
<1> HIDE DEF used, q, chunks, extra, e, r
<1>8. top = n + r
  <2>1. (chunks - 1) * C + (C - e - 1) + 1 = C * chunks - e
    BY <1>1, <1>6, <1>7
  <2>2. top = (C * chunks - e) * W
    BY <1>4, <2>1
  <2>3. (C * chunks - e) * W = (W * C) * chunks - W * e
    BY <1>1, <1>6, <1>7
  <2>4. top = B * chunks - W * e
    BY <2>2, <2>3, <1>2
  <2>5. B * chunks \in Int /\ W * e \in Int
    BY <1>1, <1>2, <1>6, <1>7
  <2> HIDE DEF top
  <2> QED
    BY <2>4, <2>5, <1>1, <1>6, <1>7
<1>9. ASSUME n % W = 0 PROVE r = 0
  <2> DEFINE k == n \div W
  <2>1. n = W * k /\ k \in Nat
    BY <1>1, <1>9, DivMod
  <2> HIDE DEF k
  <2>2. extra = B * chunks - W * k
    BY <2>1, <1>1, <1>2, <1>6
  <2>3. B * chunks - W * k = W * (C * chunks - k)
    BY <2>1, <1>1, <1>2, <1>6
  <2>4. extra = W * (C * chunks - k) + 0
    BY <2>2, <2>3, <2>1, <1>7, <1>1, <1>6
  <2>5. C * chunks - k \in Int /\ 0 \in 0 .. W - 1
    BY <2>1, <1>1, <1>6
  <2>6. Divides(extra, W, e, r) /\ Divides(extra, W, C * chunks - k, 0)
    BY <2>4, <2>5, <1>7 DEF Divides
  <2> QED
    BY <2>6, <1>1, DivUnique
<1> HIDE DEF top
<1>10. CarryOf(bytes) \in {bytes[n], Stale}
  BY <1>1, <1>3, <1>7, <1>8
<1>11. n % W = 0 => CarryOf(bytes) = bytes[n]
  BY <1>1, <1>3, <1>8, <1>9
<1> QED
  BY <1>10, <1>11 DEF n, W

-------------------------------------------------------------------------------
\* Streams of bytes.

\* What a read leaves and what it takes.
LEMMA Cut ==
    ASSUME NEW S, NEW s \in Seq(S), NEW n \in 1 .. Len(s)
    PROVE  /\ SubSeq(s, n + 1, Len(s)) \in Seq(S)
           /\ Len(SubSeq(s, n + 1, Len(s))) = Len(s) - n
           /\ \A i \in 1 .. Len(s) - n : SubSeq(s, n + 1, Len(s))[i] = s[n + i]
           /\ SubSeq(s, 1, n) \in Seq(S) /\ Len(SubSeq(s, 1, n)) = n
           /\ \A i \in 1 .. n : SubSeq(s, 1, n)[i] = s[i]
<1>1. Len(s) \in Nat /\ \A i \in 1 .. Len(s) : s[i] \in S
  BY LenProperties, ElementOfSeq
<1>2. /\ SubSeq(s, 1, n) \in Seq(S)
      /\ Len(SubSeq(s, 1, n)) = IF 1 <= n THEN n - 1 + 1 ELSE 0
      /\ \A i \in 1 .. n - 1 + 1 : SubSeq(s, 1, n)[i] = s[1 + i - 1]
  <2>1. \A i \in 1 .. n : s[i] \in S
    BY <1>1
  <2> QED
    BY <2>1, <1>1, SubSeqProperties
<1>3. /\ SubSeq(s, n + 1, Len(s)) \in Seq(S)
      /\ Len(SubSeq(s, n + 1, Len(s)))
            = IF n + 1 <= Len(s) THEN Len(s) - (n + 1) + 1 ELSE 0
      /\ \A i \in 1 .. Len(s) - (n + 1) + 1 :
            SubSeq(s, n + 1, Len(s))[i] = s[(n + 1) + i - 1]
  <2>1. \A i \in n + 1 .. Len(s) : s[i] \in S
    BY <1>1
  <2>2. n + 1 \in Int /\ Len(s) \in Int
    BY <1>1
  <2> QED
    BY <2>1, <2>2, SubSeqProperties
<1>4. /\ SubSeq(s, 1, n) \in Seq(S) /\ Len(SubSeq(s, 1, n)) = n
      /\ \A i \in 1 .. n : SubSeq(s, 1, n)[i] = s[i]
  BY <1>2
<1>5. /\ SubSeq(s, n + 1, Len(s)) \in Seq(S)
      /\ Len(SubSeq(s, n + 1, Len(s))) = Len(s) - n
  BY <1>1, <1>3
<1>6. \A i \in 1 .. Len(s) - n : SubSeq(s, n + 1, Len(s))[i] = s[n + i]
  <2> TAKE i \in 1 .. Len(s) - n
  <2>1. i \in 1 .. Len(s) - (n + 1) + 1 /\ (n + 1) + i - 1 = n + i
    BY <1>1
  <2> QED
    BY <2>1, <1>3
<1> QED
  BY <1>4, <1>5, <1>6

\* The lengths of what is under way.
LEMMA Sizes ==
    ASSUME Contents
    PROVE  /\ Len(up) \in Nat /\ DOMAIN up = 1 .. Len(up)
           /\ Len(down) \in Nat /\ DOMAIN down = 1 .. Len(down)
           /\ Len(out) \in Nat /\ DOMAIN out = 1 .. Len(out)
           /\ Off \in {0, 1} /\ (Off = 1 <=> Announced)
           /\ Announced <=> 1 \in DOMAIN up /\ up[1][1] = "header"
           /\ Announced => Len(up) >= 1 /\ Head(up) = up[1]
           /\ (up = <<>> <=> Len(up) = 0) /\ (down = <<>> <=> Len(down) = 0)
           /\ (out = <<>> <=> Len(out) = 0)
<1>1. /\ up \in Seq(Item) /\ down \in Seq(Answer) /\ out \in Seq(Answer)
  BY DEF Contents
<1>2. /\ Len(up) \in Nat /\ DOMAIN up = 1 .. Len(up)
      /\ Len(down) \in Nat /\ DOMAIN down = 1 .. Len(down)
      /\ Len(out) \in Nat /\ DOMAIN out = 1 .. Len(out)
  BY <1>1, LenProperties
<1>3. /\ (up = <<>> <=> Len(up) = 0) /\ (down = <<>> <=> Len(down) = 0)
      /\ (out = <<>> <=> Len(out) = 0)
  BY <1>1, EmptySeq
<1>4. Head(up) = up[1]
  OBVIOUS
<1>5. Announced <=> 1 \in DOMAIN up /\ up[1][1] = "header"
  BY <1>2, <1>3, <1>4 DEF Announced
<1> QED
  BY <1>2, <1>3, <1>4, <1>5 DEF Off

\* Whether a request leads the stream, in the next state.
LEMMA AnnouncedNext == Contents' => (Announced' <=> 1 \in DOMAIN up' /\ up'[1][1] = "header")
<1> DEFINE F == Contents => (Announced <=> 1 \in DOMAIN up /\ up[1][1] = "header")
<1>1. F
  BY Sizes
<1>2. F'
  BY <1>1, PTL
<1> QED
  BY <1>2

\* Nothing is under way while the validator writes or waits for work.
LEMMA NothingUnderWay ==
    ASSUME IInv, vpc \in {"idle", "write"}
    PROVE  /\ written = 0 /\ read = 0 /\ down = <<>> /\ out = <<>> /\ Len(up) = Off
           /\ ~Dropped /\ (vpc = "idle" => ~Announced)
<1>1. written = 0 /\ read = 0 /\ ~Dropped
  BY DEF IInv, ValidatorSide, Dropped
<1>2. Len(down) + Len(out) + Len(up) - Off = 0
  BY <1>1 DEF IInv, InFlight
<1>3. vpc = "idle" => ~Announced
  BY <1>1 DEF IInv, Unread
<1>4. /\ Len(up) \in Nat /\ Len(down) \in Nat /\ Len(out) \in Nat /\ Off \in {0, 1}
      /\ Off = 1 => Len(up) >= 1
      /\ (down = <<>> <=> Len(down) = 0) /\ (out = <<>> <=> Len(out) = 0)
  BY Sizes DEF IInv
<1>5. Len(up) = Off /\ Len(down) = 0 /\ Len(out) = 0
  BY <1>2, <1>4
<1> QED
  BY <1>1, <1>3, <1>4, <1>5

\* The validator's constants.
LEMMA Positive ==
    /\ Lengths \subseteq Nat \ {0} /\ Capacity \in Nat \ {0} /\ BufferSize \in Nat \ {0}
    /\ MinerBuffer \in Nat \ {0} /\ WordBytes \in Nat \ {0}
BY StreamAssumption

\* A request has a length.
LEMMA LengthNat == ValidatorSide => length \in Nat /\ (vpc # "idle" => length > 0)
BY Positive DEF ValidatorSide

\* A new connection.
LEMMA InitIInv == Init => IInv
<1> SUFFICES ASSUME Init PROVE IInv
  OBVIOUS
<1>1. Contents
  BY EmptySeq, Positive DEF Init, Contents
<1>2. ~Announced /\ Off = 0 /\ Len(up) = 0 /\ Len(down) = 0 /\ Len(out) = 0
  BY EmptySeq DEF Init, Announced, Off
<1>3. ValidatorSide /\ MinerSide
  BY StreamAssumption, <1>2 DEF Init, ValidatorSide, MinerSide, Stale
<1>4. InFlight
  <2>1. DOMAIN up = {} /\ DOMAIN down = {} /\ DOMAIN out = {} /\ written = 0 /\ read = 0
    BY DEF Init
  <2>2. Len(down) + Len(out) + Len(up) - Off = written - read
    BY <2>1, <1>2
  <2> QED
    BY <2>1, <2>2 DEF InFlight
<1>5. Unread /\ WrongAfterCut
  BY <1>2 DEF Init, Unread, WrongAfterCut
<1>6. Owed
  <2>1. left = 0 /\ length = 0 /\ total = 0 /\ read = 0 /\ mpc = "request"
    BY DEF Init
  <2> QED
    BY <1>2, <2>1 DEF Owed
<1>7. Carried
  BY DEF Init, Carried
<1> QED
  BY <1>1, <1>3, <1>4, <1>5, <1>6, <1>7 DEF IInv

-------------------------------------------------------------------------------
\* The validator's steps.

\* A request is written.
LEMMA RequestIInv ==
    ASSUME IInv, NEW n \in Lengths, Request(n)
    PROVE  IInv'
<1>1. /\ vpc = "idle" /\ up' = Append(up, Header(n)) /\ vpc' = "write" /\ length' = n
      /\ total' = 0 /\ last' = 0 /\ written' = 0 /\ read' = 0 /\ readLast' = 0
      /\ wrong' = {} /\ cuts' = {} /\ requests < MaxRequests /\ requests' = requests + 1
      /\ UNCHANGED <<reliable, down, mpc, left, solverLast, out>>
  BY DEF Request
<1>2. /\ written = 0 /\ read = 0 /\ down = <<>> /\ out = <<>> /\ Len(up) = 0
      /\ ~Announced /\ ~Dropped
  BY <1>1, NothingUnderWay, Sizes DEF IInv
<1>3. n \in Nat /\ n > 0 /\ Header(n) \in Item
  BY Positive DEF Header, Item
<1>4. /\ up' \in Seq(Item) /\ Len(up') = 1 /\ up'[1] = Header(n)
  BY <1>1, <1>2, <1>3, AppendProperties DEF IInv, Contents
<1>5. Contents'
  BY <1>1, <1>4, Positive DEF IInv, Contents
<1>6. Announced' /\ Off' = 1 /\ Head(up') = Header(n)
  <2>1. Announced' <=> 1 \in DOMAIN up' /\ up'[1][1] = "header"
    BY <1>5, AnnouncedNext
  <2>2. DOMAIN up' = 1 .. 1 /\ up'[1][1] = "header"
    BY <1>4, LenProperties DEF Header
  <2>3. Announced'
    BY <2>1, <2>2
  <2>4. Head(up') = up'[1]
    OBVIOUS
  <2> QED
    BY <2>3, <2>4, <1>4 DEF Off
<1>7. ValidatorSide'
  BY <1>1, <1>3, StreamAssumption DEF IInv, ValidatorSide
<1>8. MinerSide'
  BY <1>1, <1>2 DEF IInv, MinerSide
<1>9. mpc \in {"request", "gone"}
  <2>1. total = length
    BY <1>1 DEF IInv, ValidatorSide
  <2>2. CASE Connected
    BY <2>1, <2>2, <1>2, LengthNat, EmptySeq DEF IInv, Owed
  <2>3. CASE ~Connected
    BY <2>3, <1>2 DEF Connected
  <2> QED
    BY <2>2, <2>3
<1>10. Unread' /\ Owed'
  BY <1>1, <1>2, <1>6, <1>9 DEF Unread, Owed
<1>11. InFlight' /\ Carried'
  <2>1. down' = <<>> /\ out' = <<>> /\ Len(down') = 0 /\ Len(out') = 0
    BY <1>1, <1>2, EmptySeq
  <2>2. DOMAIN up' = 1 .. 1
    BY <1>4, LenProperties
  <2> QED
    BY <1>1, <1>4, <1>6, <1>9, <2>1, <2>2 DEF InFlight, Carried
<1>12. WrongAfterCut'
  BY <1>1 DEF WrongAfterCut
<1> QED
  BY <1>5, <1>7, <1>8, <1>10, <1>11, <1>12 DEF IInv

\* A part of the window is written.
LEMMA WriteIInv ==
    ASSUME IInv, NEW n \in 1 .. Window, Write(n)
    PROVE  IInv'
<1> DEFINE raws == [i \in 1 .. n |-> Raw(total + i)]
<1>1. /\ vpc = "write" /\ Len(up) + n <= Capacity /\ up' = up \o raws /\ vpc' = "read"
      /\ written' = n /\ read' = 0 /\ readLast' = last
      /\ UNCHANGED <<reliable, requests, down, length, total, last, wrong>>
      /\ UNCHANGED <<mpc, left, solverLast, out, cuts>>
  BY DEF Write, miner
<1>2. /\ written = 0 /\ read = 0 /\ down = <<>> /\ out = <<>> /\ Len(up) = Off /\ ~Dropped
  BY <1>1, NothingUnderWay
<1>3. total \in Nat /\ length \in Nat /\ last = total /\ total < length
  BY <1>1, LengthNat DEF IInv, ValidatorSide
<1>4. n \in Nat /\ n <= BufferSize /\ total + n <= length /\ n > 0
  <2>1. n \in Int /\ n >= 1
    <3>1. Window \in Int
      <4> DEFINE w == (total \div BufferSize + 1) * BufferSize
      <4>1. total \div BufferSize \in Nat
        BY <1>3, Positive, DivMod
      <4>2. w \in Int /\ length \in Int
        BY <4>1, <1>3, Positive
      <4>3. Window = Min({w, length}) - total
        BY DEF Window
      <4> HIDE DEF w
      <4> QED
        BY <4>2, <4>3, <1>3, MinIsLess
    <3> QED
      BY <3>1
  <2> QED
    BY <2>1, <1>3, WindowBounds
<1>5. raws \in Seq(Item) /\ Len(raws) = n /\ \A i \in 1 .. n : raws[i] = Raw(total + i)
  <2>1. \A i \in 1 .. n : Raw(total + i) \in Item
    BY <1>3, <1>4 DEF Raw, Item
  <2> QED
    BY <2>1, <1>4
<1> HIDE DEF raws
<1>6. /\ Len(up) \in Nat /\ up' \in Seq(Item) /\ Len(up') = Len(up) + n
      /\ \A i \in 1 .. Len(up) + n :
            up'[i] = IF i <= Len(up) THEN up[i] ELSE raws[i - Len(up)]
  <2>1. up \in Seq(Item) /\ Len(up) \in Nat
    BY Sizes DEF IInv, Contents
  <2>2. /\ up \o raws \in Seq(Item)
        /\ Len(up \o raws) = Len(up) + Len(raws)
        /\ \A i \in 1 .. Len(up) + Len(raws) : (up \o raws)[i] =
               IF i <= Len(up) THEN up[i] ELSE raws[i - Len(up)]
    BY <2>1, <1>5, ConcatProperties
  <2> QED
    BY <2>1, <2>2, <1>1, <1>5
<1>7. Contents'
  BY <1>1, <1>6 DEF IInv, Contents
<1>8. (Announced' <=> Announced) /\ Off' = Off
  <2>1. Announced <=> 1 \in DOMAIN up /\ up[1][1] = "header"
    BY Sizes DEF IInv
  <2>2. Announced' <=> 1 \in DOMAIN up' /\ up'[1][1] = "header"
    BY <1>7, AnnouncedNext
  <2>3. DOMAIN up = 1 .. Len(up) /\ DOMAIN up' = 1 .. Len(up')
    BY <1>6, LenProperties DEF IInv, Contents
  <2>4. CASE Len(up) = 0
    <3>1. up'[1] = Raw(total + 1)
      BY <2>4, <1>4, <1>5, <1>6
    <3>2. ~Announced' /\ ~Announced
      BY <2>1, <2>2, <2>3, <2>4, <3>1 DEF Raw
    <3> QED
      BY <3>2 DEF Off
  <2>5. CASE Len(up) # 0
    <3>1. 1 \in 1 .. Len(up) /\ 1 \in 1 .. Len(up') /\ up'[1] = up[1]
      BY <2>5, <1>4, <1>6
    <3>2. Announced' <=> Announced
      BY <2>1, <2>2, <2>3, <3>1
    <3> QED
      BY <3>2 DEF Off
  <2> QED
    BY <2>4, <2>5
<1>9. ValidatorSide' /\ MinerSide'
  BY <1>1, <1>2, <1>3, <1>4 DEF IInv, ValidatorSide, MinerSide
<1>10. /\ Len(down) = 0 /\ Len(out) = 0 /\ DOMAIN down = {} /\ DOMAIN out = {}
  BY <1>2, EmptySeq
<1>11. InFlight'
  <2>1. Off \in {0, 1}
    BY DEF Off
  <2>2. ASSUME NEW i \in DOMAIN up', i > Off
        PROVE  up'[i] = Raw(total + i - Off)
    <3>1. i \in 1 .. Len(up) + n
      BY <1>6, LenProperties
    <3>2. i - Len(up) \in 1 .. n /\ ~(i <= Len(up)) /\ total + (i - Len(up)) = total + i - Off
      BY <3>1, <2>1, <2>2, <1>2, <1>3, <1>4
    <3>3. up'[i] = raws[i - Len(up)]
      BY <3>1, <3>2, <1>6
    <3> QED
      BY <3>2, <3>3, <1>5
  <2>3. \A i \in DOMAIN up' : i > Off' =>
           up'[i] = Raw(total' + read' + Len(down') + Len(out') + i - Off')
    <3> TAKE i \in DOMAIN up'
    <3> HAVE i > Off'
    <3>1. i \in Int
      BY <1>6, LenProperties
    <3>2. total' + read' + Len(down') + Len(out') + i - Off' = total + i - Off
      BY <3>1, <2>1, <1>1, <1>3, <1>8, <1>10
    <3> QED
      BY <3>2, <2>2, <1>8
  <2>4. Len(down') + Len(out') + Len(up') - Off' = written' - read'
    BY <2>1, <1>1, <1>2, <1>4, <1>6, <1>8, <1>10
  <2> QED
    BY <2>3, <2>4, <1>1, <1>10 DEF InFlight
<1>12. Unread'
  <2> SUFFICES ASSUME Announced' PROVE Unread'
    BY DEF Unread
  <2>1. Announced /\ Head(up) = Header(length) /\ total = 0 /\ mpc \in {"request", "gone"}
    BY <1>2, <1>8 DEF IInv, Unread
  <2>2. up # <<>> /\ Len(up) >= 1
    BY <2>1, Sizes DEF IInv
  <2>3. up'[1] = up[1]
    BY <2>2, <1>4, <1>6
  <2>4. Head(up') = Head(up)
    BY <2>3
  <2> QED
    BY <2>1, <2>4, <1>1, <1>2 DEF Unread
<1>13. Owed'
  BY <1>1, <1>2, <1>8 DEF IInv, Owed, Connected, Dropped
<1>14. Carried'
  BY <1>1, <1>2, <1>10 DEF IInv, Carried
<1>15. WrongAfterCut'
  BY <1>1 DEF IInv, WrongAfterCut
<1> QED
  BY <1>7, <1>9, <1>11, <1>12, <1>13, <1>14, <1>15 DEF IInv

\* What read_len may take: answers, so the miner has read the request.
LEMMA Readable ==
    ASSUME IInv, vpc = "read", NEW n \in 1 .. Min({Len(down), written - read})
    PROVE  /\ n \in Nat /\ n > 0 /\ n <= Len(down) /\ n <= written - read
           /\ ~Announced /\ ~Dropped
           /\ total \in Nat /\ read \in Nat /\ written \in Nat /\ length \in Nat
           /\ read < written /\ total + written <= length /\ readLast = total + read
<1>1. /\ total \in Nat /\ read \in Nat /\ written \in Nat /\ length \in Nat /\ ~Dropped
      /\ read < written /\ total + written <= length /\ readLast = total + read
  BY LengthNat, Positive DEF IInv, ValidatorSide, Dropped
<1>2. Len(down) \in Int /\ written - read \in Int
  BY <1>1, Sizes DEF IInv
<1>3. n \in Nat /\ n > 0 /\ n <= Len(down) /\ n <= written - read
  <2> DEFINE m == Min({Len(down), written - read})
  <2>1. m \in Int /\ m <= Len(down) /\ m <= written - read /\ n \in 1 .. m
    BY <1>2, MinIsLess
  <2> HIDE DEF m
  <2> QED
    BY <2>1, <1>2
<1>4. down # <<>>
  BY <1>3, Sizes DEF IInv
<1>5. ~Announced
  BY <1>1, <1>4 DEF IInv, Unread
<1> QED
  BY <1>1, <1>3, <1>5

\* The answers that may be read are in order, and wrong only after a cut.
LEMMA AnswersRead ==
    ASSUME IInv, ~Dropped, NEW n \in Nat, n <= Len(down)
    PROVE  \A i \in 1 .. n :
              LET a == SubSeq(down, 1, n)[i]
              IN  /\ a \in Answer /\ a[1] = total + read + i
                  /\ a[2] = (total + read + i) - 1 \/ (total + read + i) - 1 \in cuts
<1> TAKE i \in 1 .. n
<1>1. down \in Seq(Answer) /\ Len(down) \in Nat /\ n \in 1 .. Len(down)
  BY Sizes DEF IInv, Contents
<1>2. SubSeq(down, 1, n)[i] = down[i]
  BY <1>1, Cut
<1>3. i \in 1 .. Len(down) /\ i \in DOMAIN down /\ down[i] \in Answer
  BY <1>1, LenProperties, ElementOfSeq
<1>4. down[i][1] = total + read + i
  BY <1>3 DEF IInv, InFlight
<1>5. down[i][2] = (total + read + i) - 1 \/ (total + read + i) - 1 \in cuts
  BY <1>3 DEF IInv, Carried
<1> QED
  BY <1>2, <1>3, <1>4, <1>5

\* A read of n of the d answers that are there, with t + r bytes answered before
\* it and u + v after it, leaves e.
Taken(n, t, r, w, u, v, x, d, e) ==
    /\ n \in Nat /\ t \in Nat /\ r \in Nat /\ w \in Nat /\ u \in Nat /\ v \in Nat /\ x \in Nat
    /\ d \in Nat /\ e \in Nat
    /\ u + v = t + r + n /\ x - v = w - r - n /\ e = d - n

\* Arithmetic of bytes taken from a stream: how many,
LEMMA TakenSum ==
    ASSUME NEW n, NEW t, NEW r, NEW w, NEW u, NEW v, NEW x, NEW d, NEW e,
           Taken(n, t, r, w, u, v, x, d, e)
    PROVE  u + v + e = t + r + d
BY DEF Taken

\* where they stand,
LEMMA TakenPlace ==
    ASSUME NEW n, NEW t, NEW r, NEW w, NEW u, NEW v, NEW x, NEW d, NEW e,
           Taken(n, t, r, w, u, v, x, d, e), NEW i \in Nat
    PROVE  t + r + (n + i) = u + v + i /\ (t + r + (n + i)) - 1 = (u + v + i) - 1
BY DEF Taken

\* what is left,
LEMMA TakenLeft ==
    ASSUME NEW n, NEW t, NEW r, NEW w, NEW u, NEW v, NEW x, NEW d, NEW e,
           Taken(n, t, r, w, u, v, x, d, e), NEW l \in Nat
    PROVE  l - u - v - e = l - t - r - d
BY DEF Taken

Balance(d, o, k, w, r) == o \in Nat /\ k \in Nat /\ d + o + k = w - r

\* and what is due.
LEMMA TakenDue ==
    ASSUME NEW n, NEW t, NEW r, NEW w, NEW u, NEW v, NEW x, NEW d, NEW e, NEW o, NEW k,
           Taken(n, t, r, w, u, v, x, d, e), Balance(d, o, k, w, r)
    PROVE  Balance(e, o, k, x, v)
BY DEF Taken, Balance

\* Answers are read.
LEMMA ReadAnswersIInv ==
    ASSUME IInv, NEW n \in 1 .. Min({Len(down), written - read}), NEW checked,
           ReadAnswers(n, checked)
    PROVE  IInv'
<1> DEFINE answers == SubSeq(down, 1, n)
<1>1. /\ vpc = "read" /\ down' = SubSeq(down, n + 1, Len(down))
      /\ wrong' = wrong \cup {p \in total + read + 1 .. total + read + n :
                                  ~Right(p, answers[p - total - read])}
      /\ AfterRead(n)
      /\ UNCHANGED <<reliable, requests, up, length>>
      /\ UNCHANGED <<mpc, left, solverLast, out, cuts>>
  BY DEF ReadAnswers, miner
<1>2. /\ n \in Nat /\ n > 0 /\ n <= Len(down) /\ n <= written - read
      /\ ~Announced /\ ~Dropped
      /\ total \in Nat /\ read \in Nat /\ written \in Nat /\ length \in Nat
      /\ read < written /\ total + written <= length /\ readLast = total + read
  BY <1>1, Readable
<1>3. \/ /\ read + n < written /\ read' = read + n /\ readLast' = total + read + n
         /\ UNCHANGED <<vpc, total, last, written>>
      \/ /\ read + n = written /\ total' = total + written /\ last' = total + written
         /\ vpc' = (IF total' < length THEN "write" ELSE "idle")
         /\ written' = 0 /\ read' = 0 /\ readLast' = 0
  BY <1>1 DEF AfterRead, ReadLast, LastByte
<1>4. /\ total' \in Nat /\ read' \in Nat /\ written' \in Nat
      /\ total' + read' = total + read + n /\ written' - read' = written - read - n
      /\ vpc' \in {"read", "write", "idle"}
  BY <1>1, <1>2, <1>3
<1>5. /\ Len(down) \in Nat /\ down' \in Seq(Answer) /\ Len(down') = Len(down) - n
      /\ DOMAIN down' = 1 .. Len(down) - n /\ DOMAIN down = 1 .. Len(down)
      /\ \A i \in 1 .. Len(down) - n : down'[i] = down[n + i]
  <2>1. down \in Seq(Answer) /\ Len(down) \in Nat /\ n \in 1 .. Len(down)
    BY <1>2, Sizes DEF IInv, Contents
  <2>2. down' \in Seq(Answer) /\ Len(down') = Len(down) - n
    BY <2>1, <1>1, Cut
  <2> QED
    BY <2>1, <2>2, <1>1, Cut, LenProperties
<1>17. Len(down') \in Nat /\ Len(down') <= Len(down)
  BY <1>2, <1>5, LenProperties
<1>18. Taken(n, total, read, written, total', read', written', Len(down), Len(down'))
  BY <1>2, <1>4, <1>5, <1>17 DEF Taken
<1>6. Contents'
  <2>1. Len(down) <= Capacity
    BY DEF IInv, Contents
  <2>2. Len(down') <= Capacity
    BY <2>1, <1>17, Positive
  <2> QED
    BY <2>2, <1>1, <1>5 DEF IInv, Contents
<1>7. ~Announced' /\ Off' = 0 /\ Off = 0
  BY <1>1, <1>2 DEF Announced, Off
<1>8. ASSUME NEW p \in total + read + 1 .. total + read + n,
             ~Right(p, answers[p - total - read])
      PROVE  p \in 1 .. length /\ p - 1 \in cuts
  <2>1. p - total - read \in 1 .. n /\ p \in 1 .. length
    BY <1>2
  <2> DEFINE i == p - total - read
             a == answers[i]
  <2>2. /\ a \in Answer /\ a[1] = total + read + i
        /\ a[2] = (total + read + i) - 1 \/ (total + read + i) - 1 \in cuts
    BY <2>1, <1>2, AnswersRead
  <2>3. total + read + i = p /\ (total + read + i) - 1 = p - 1
    BY <1>2
  <2>4. ~Right(p, a)
    BY <1>8
  <2> HIDE DEF a, i
  <2>5. a = <<a[1], a[2]>>
    BY <2>2 DEF Answer
  <2>6. a[2] # p - 1
    BY <2>2, <2>3, <2>4, <2>5 DEF Right
  <2> QED
    BY <2>1, <2>2, <2>3, <2>6
<1>9. wrong' \subseteq 1 .. length /\ \A p \in wrong' : p - 1 \in cuts
  BY <1>1, <1>8 DEF IInv, ValidatorSide, WrongAfterCut
<1>10. WrongAfterCut'
  BY <1>1, <1>4, <1>9 DEF WrongAfterCut
<1>11. ValidatorSide'
  <2>1. /\ reliable' \in BOOLEAN /\ requests' \in 0 .. MaxRequests /\ length' \in Lengths
        /\ length' = length /\ written \in 0 .. BufferSize
        /\ last \in 0 .. length /\ BufferSize \in Nat
    BY <1>1, Positive DEF IInv, ValidatorSide
  <2>2. CASE /\ read + n < written /\ read' = read + n /\ readLast' = total + read + n
             /\ UNCHANGED <<vpc, total, last, written>>
    BY <2>1, <2>2, <1>1, <1>2, <1>9 DEF ValidatorSide
  <2>3. CASE /\ read + n = written /\ total' = total + written /\ last' = total + written
             /\ vpc' = (IF total' < length THEN "write" ELSE "idle")
             /\ written' = 0 /\ read' = 0 /\ readLast' = 0
    BY <2>1, <2>3, <1>1, <1>2, <1>9 DEF ValidatorSide
  <2> QED
    BY <2>2, <2>3, <1>3
<1>12. MinerSide'
  BY <1>1 DEF IInv, MinerSide
<1>13. Unread'
  BY <1>7 DEF Unread
<1>14. Owed'
  <2> SUFFICES ASSUME Connected' PROVE Owed'
    BY DEF Owed
  <2>1. left = length - total - read - Len(down) /\ (mpc = "request" <=> left = 0)
    BY <1>1, <1>2 DEF IInv, Owed, Connected
  <2>2. length - total' - read' - Len(down') = length - total - read - Len(down)
    BY <1>2, <1>18, TakenLeft
  <2> QED
    BY <2>1, <2>2, <1>1 DEF Owed
<1>15. InFlight'
  <2>1. Len(out) \in Nat /\ Len(up) \in Nat
    BY Sizes DEF IInv
  <2>2. /\ Len(down) + Len(out) + Len(up) - Off = written - read
        /\ \A i \in DOMAIN down : down[i][1] = total + read + i
        /\ \A i \in DOMAIN out : out[i][1] = total + read + Len(down) + i
        /\ \A i \in DOMAIN up :
              i > Off => up[i] = Raw(total + read + Len(down) + Len(out) + i - Off)
    BY <1>2 DEF IInv, InFlight
  <2>3. Len(down') + Len(out') + Len(up') - Off' = written' - read'
    <3>1. Balance(Len(down), Len(out), Len(up), written, read)
      BY <2>1, <2>2, <1>7, <1>17, <1>5 DEF Balance
    <3>2. Balance(Len(down'), Len(out), Len(up), written', read')
      BY <3>1, <1>18, TakenDue
    <3>3. Len(down') + Len(out) + Len(up) = written' - read'
      BY <3>2 DEF Balance
    <3> QED
      BY <2>1, <3>3, <1>1, <1>7, <1>17
  <2>4. \A i \in DOMAIN down' : down'[i][1] = total' + read' + i
    <3> TAKE i \in DOMAIN down'
    <3>1. n + i \in DOMAIN down /\ down'[i] = down[n + i] /\ i \in Nat
      BY <1>2, <1>5
    <3>2. total + read + (n + i) = total' + read' + i
      BY <3>1, <1>18, TakenPlace
    <3> QED
      BY <3>1, <3>2, <2>2
  <2>5. total' + read' + Len(down') = total + read + Len(down)
    BY <1>18, TakenSum
  <2> QED
    BY <2>2, <2>3, <2>4, <2>5, <1>1, <1>7 DEF InFlight
<1>16. Carried'
  <2>1. /\ \A i \in DOMAIN down : \/ down[i][2] = (total + read + i) - 1
                                  \/ (total + read + i) - 1 \in cuts
        /\ \A i \in DOMAIN out : \/ out[i][2] = (total + read + Len(down) + i) - 1
                                 \/ (total + read + Len(down) + i) - 1 \in cuts
        /\ mpc \in {"data", "answer"} =>
              \/ solverLast = total + read + Len(down) + Len(out)
              \/ total + read + Len(down) + Len(out) \in cuts
    BY <1>2 DEF IInv, Carried
  <2>2. \A i \in DOMAIN down' : \/ down'[i][2] = (total' + read' + i) - 1
                                \/ (total' + read' + i) - 1 \in cuts
    <3> TAKE i \in DOMAIN down'
    <3>1. n + i \in DOMAIN down /\ down'[i] = down[n + i] /\ i \in Nat
      BY <1>2, <1>5
    <3>2. (total + read + (n + i)) - 1 = (total' + read' + i) - 1
      BY <3>1, <1>18, TakenPlace
    <3> QED
      BY <3>1, <3>2, <2>1
  <2>3. total' + read' + Len(down') = total + read + Len(down)
    BY <1>18, TakenSum
  <2> QED
    BY <2>1, <2>2, <2>3, <1>1 DEF Carried
<1> QED
  BY <1>6, <1>10, <1>11, <1>12, <1>13, <1>14, <1>15, <1>16 DEF IInv

\* The connection is dropped.
LEMMA DroppedIInv ==
    ASSUME IInv, vpc \in {"write", "read"}, vpc' \in {"failed", "cheated"},
           UNCHANGED <<reliable, requests, up, down, length, total, last, written,
                       read, readLast, wrong, miner>>,
           vpc' = "cheated" => \E p \in cuts : p \in total + read .. total + written - 1
    PROVE  IInv'
<1>1. UNCHANGED <<mpc, left, solverLast, out, cuts>>
  BY DEF miner
<1>2. Contents' /\ MinerSide'
  BY <1>1 DEF IInv, Contents, MinerSide
<1>3. ValidatorSide'
  BY DEF IInv, ValidatorSide
<1>4. Dropped'
  BY DEF Dropped
<1>5. InFlight' /\ Unread' /\ Owed' /\ Carried'
  BY <1>4 DEF InFlight, Unread, Owed, Carried, Connected
<1>6. WrongAfterCut'
  BY <1>1 DEF IInv, WrongAfterCut
<1> QED
  BY <1>2, <1>3, <1>5, <1>6 DEF IInv

\* A wrong answer is found.
LEMMA RefuteIInv ==
    ASSUME IInv, NEW n \in 1 .. Min({Len(down), written - read}), Refute(n)
    PROVE  IInv'
<1> DEFINE answers == SubSeq(down, 1, n)
<1>1. /\ vpc = "read" /\ vpc' = "cheated" /\ ~Verified(answers)
      /\ UNCHANGED <<reliable, requests, up, down, length, total, last, written,
                     read, readLast, wrong, miner>>
  BY DEF Refute
<1>2. /\ n \in Nat /\ n > 0 /\ n <= Len(down) /\ n <= written - read
      /\ ~Announced /\ ~Dropped
      /\ total \in Nat /\ read \in Nat /\ written \in Nat /\ length \in Nat
      /\ read < written /\ total + written <= length /\ readLast = total + read
  BY <1>1, Readable
<1>3. DOMAIN answers = 1 .. n
  <2>1. down \in Seq(Answer) /\ n \in 1 .. Len(down)
    BY <1>2, Sizes DEF IInv, Contents
  <2>2. answers \in Seq(Answer) /\ Len(answers) = n
    BY <2>1, Cut
  <2> QED
    BY <2>2, LenProperties
<1>4. PICK i \in 1 .. n :
         answers[i] # <<total + read + i,
                        IF i = 1 THEN readLast ELSE total + read + i - 1>>
  BY <1>1, <1>3 DEF Verified
<1> DEFINE a == answers[i]
<1>5. /\ a \in Answer /\ a[1] = total + read + i
      /\ a[2] = (total + read + i) - 1 \/ (total + read + i) - 1 \in cuts
  BY <1>2, AnswersRead
<1>6. (IF i = 1 THEN readLast ELSE total + read + i - 1) = (total + read + i) - 1
  BY <1>2
<1>7. a # <<total + read + i, (total + read + i) - 1>>
  BY <1>4, <1>6
<1> HIDE DEF a
<1>8. a = <<a[1], a[2]>>
  BY <1>5 DEF Answer
<1>9. (total + read + i) - 1 \in cuts
  BY <1>5, <1>7, <1>8
<1>10. (total + read + i) - 1 \in total + read .. total + written - 1
  BY <1>2
<1> QED
  BY <1>1, <1>9, <1>10, DroppedIInv

\* A call of the validator fails.
LEMMA FailIInv == IInv /\ Fail => IInv'
BY DroppedIInv DEF Fail

-------------------------------------------------------------------------------
\* The miner's steps.

\* Nothing of a dropped connection matters but what it consists of.
LEMMA DroppedSteady ==
    ASSUME IInv, Dropped, UNCHANGED <<reliable, requests, validator>>,
           Contents', MinerSide', cuts \subseteq cuts'
    PROVE  IInv'
<1>1. UNCHANGED <<reliable, requests, vpc, length, total, last, written, read, readLast, wrong>>
  BY DEF validator
<1>2. Dropped'
  BY <1>1 DEF Dropped
<1>3. ValidatorSide'
  BY <1>1 DEF IInv, ValidatorSide
<1>4. InFlight' /\ Unread' /\ Owed' /\ Carried'
  BY <1>2 DEF InFlight, Unread, Owed, Carried, Connected
<1>5. WrongAfterCut'
  BY <1>1 DEF IInv, WrongAfterCut
<1> QED
  BY <1>3, <1>4, <1>5 DEF IInv

\* What is under way and was not announced any more: bytes only.
LEMMA StillBytes ==
    ASSUME Contents', \A i \in DOMAIN up' : \E q : up'[i] = Raw(q)
    PROVE  ~Announced' /\ Off' = 0
<1>1. ~Announced'
  BY AnnouncedNext DEF Raw
<1> QED
  BY <1>1 DEF Off

\* The miner reads a request.
LEMMA ReceiveRequestIInv == IInv /\ ReceiveRequest => IInv'
<1> SUFFICES ASSUME IInv, ReceiveRequest PROVE IInv'
  OBVIOUS
<1>1. /\ mpc = "request" /\ up # <<>> /\ mpc' = "data" /\ left' = Head(up)[2]
      /\ solverLast' = 0 /\ up' = Tail(up)
      /\ UNCHANGED <<reliable, requests, down, validator, out, cuts>>
      /\ UNCHANGED <<vpc, length, total, last, written, read, readLast, wrong>>
  BY DEF ReceiveRequest, validator
<1>2. /\ up \in Seq(Item) /\ Len(up) \in Nat /\ Len(up) >= 1 /\ DOMAIN up = 1 .. Len(up)
  BY <1>1, EmptySeq, LenProperties DEF IInv, Contents
<1>3. /\ Head(up) \in Item /\ Head(up) = up[1]
      /\ up' \in Seq(Item) /\ Len(up') = Len(up) - 1 /\ DOMAIN up' = 1 .. Len(up) - 1
      /\ \A i \in 1 .. Len(up) - 1 : up'[i] = up[i + 1]
  <2>1. /\ Head(up) \in Item /\ up' \in Seq(Item) /\ Len(up') = Len(up) - 1
        /\ \A i \in 1 .. Len(up') : up'[i] = up[i + 1]
    BY <1>1, <1>2, HeadTailProperties
  <2> QED
    BY <2>1, LenProperties
<1>4. Contents'
  <2>1. Len(up) <= Capacity
    BY DEF IInv, Contents
  <2>2. Len(up') <= Capacity
    BY <2>1, <1>2, <1>3, Positive
  <2> QED
    BY <2>2, <1>1, <1>3 DEF IInv, Contents
<1>5. out = <<>> /\ Len(out) = 0
  BY <1>1, EmptySeq DEF IInv, MinerSide
<1>6. MinerSide'
  <2>1. left' \in Nat
    BY <1>1, <1>3 DEF Item
  <2> QED
    BY <2>1, <1>1, <1>5 DEF IInv, MinerSide
<1>7. CASE Dropped
  BY <1>1, <1>4, <1>6, <1>7, DroppedSteady
<1>8. CASE ~Dropped
  <2>1. total \in Nat /\ read \in Nat /\ written \in Nat /\ length \in Nat
        /\ total + written <= length /\ read <= written
    BY LengthNat, Positive DEF IInv, ValidatorSide
  <2>2. Len(down) \in Nat /\ Off \in {0, 1} /\ (Off = 1 <=> Announced)
    BY Sizes DEF IInv
  <2>3. Len(down) + Len(out) + Len(up) - Off = written - read
    BY <1>8 DEF IInv, InFlight
  <2>4. Announced
    <3> SUFFICES ASSUME ~Announced PROVE FALSE
      OBVIOUS
    <3>1. left = length - total - read - Len(down) /\ left = 0
      BY <1>1, <1>8 DEF IInv, Owed, Connected
    <3>2. Len(down) + Len(up) = written - read
      BY <2>2, <2>3, <1>2, <1>5
    <3> QED
      BY <3>1, <3>2, <2>1, <2>2, <1>2
  <2>5. /\ Head(up) = Header(length) /\ vpc # "idle" /\ total = 0 /\ read = 0
        /\ down = <<>> /\ Len(down) = 0 /\ Off = 1
    BY <2>2, <2>4, <1>8, EmptySeq DEF IInv, Unread
  <2>6. left' = length /\ length > 0
    BY <2>5, <1>1, LengthNat DEF Header, IInv
  <2>7. \A i \in DOMAIN up' : up'[i] = Raw(i)
    <3> TAKE i \in DOMAIN up'
    <3>1. i \in Nat /\ i + 1 \in DOMAIN up /\ i + 1 > Off
      BY <2>5, <1>2, <1>3
    <3>2. up[i + 1] = Raw(total + read + Len(down) + Len(out) + (i + 1) - Off)
      BY <3>1, <1>8 DEF IInv, InFlight
    <3>3. total + read + Len(down) + Len(out) + (i + 1) - Off = i
      BY <3>1, <2>5, <1>5
    <3> QED
      BY <3>2, <3>3, <1>3
  <2>8. ~Announced' /\ Off' = 0
    BY <2>7, <1>4, StillBytes
  <2>9. ValidatorSide' /\ WrongAfterCut'
    BY <1>1 DEF IInv, ValidatorSide, WrongAfterCut
  <2>10. Unread'
    BY <2>8 DEF Unread
  <2>11. Owed'
    <3>1. left' = length' - total' - read' - Len(down')
      <4>1. length - total - read - Len(down) = length
        BY <2>1, <2>5
      <4> QED
        BY <4>1, <2>6, <1>1
    <3>2. ~(mpc' = "request") /\ ~(left' = 0)
      BY <2>6, <2>1, <1>1
    <3> QED
      BY <3>1, <3>2 DEF Owed
  <2>12. InFlight'
    <3>1. Len(down) + Len(out) + Len(up') - 0 = written - read
      BY <2>3, <2>5, <1>2, <1>3, <1>5
    <3>2. \A i \in DOMAIN up' : total + read + Len(down) + Len(out) + i - 0 = i
      BY <2>5, <1>3, <1>5
    <3>3. DOMAIN down = {} /\ DOMAIN out = {}
      BY <2>5, <1>5
    <3> QED
      BY <3>1, <3>2, <3>3, <2>7, <2>8, <1>1 DEF InFlight
  <2>13. Carried'
    <3>1. DOMAIN down = {} /\ DOMAIN out = {}
      BY <2>5, <1>5
    <3>2. total + read + Len(down) + Len(out) = 0
      BY <2>5, <1>5
    <3> QED
      BY <3>1, <3>2, <1>1 DEF Carried
  <2> QED
    BY <1>4, <1>6, <2>9, <2>10, <2>11, <2>12, <2>13 DEF IInv
<1> QED
  BY <1>7, <1>8

\* The miner reads the end of the stream.
LEMMA ReceiveNothingIInv ==
    ASSUME IInv, NEW n \in 0 .. 1, ReceiveNothing(n)
    PROVE  IInv'
<1>1. /\ mpc = "request" /\ Dropped /\ mpc' \in {"request", "data"} /\ left' = n
      /\ solverLast' = Stale
      /\ UNCHANGED <<reliable, requests, up, down, validator, out, cuts>>
  BY DEF ReceiveNothing
<1>2. Contents'
  BY <1>1 DEF IInv, Contents
<1>3. MinerSide'
  <2>1. out = <<>> /\ Len(out) = 0
    BY <1>1, EmptySeq DEF IInv, MinerSide
  <2> QED
    BY <2>1, <1>1 DEF IInv, MinerSide
<1> QED
  BY <1>1, <1>2, <1>3, DroppedSteady

\* A call of the miner fails.
LEMMA LeaveIInv == IInv /\ Leave => IInv'
<1> SUFFICES ASSUME IInv, Leave PROVE IInv'
  OBVIOUS
<1>1. /\ mpc' = "gone"
      /\ UNCHANGED <<reliable, requests, up, down, validator, left, solverLast, out, cuts>>
      /\ UNCHANGED <<vpc, length, total, last, written, read, readLast, wrong>>
  BY DEF Leave, validator
<1>2. Announced' = Announced /\ Off' = Off /\ (Dropped' <=> Dropped)
  BY <1>1 DEF Announced, Off, Dropped
<1>3. Contents' /\ ValidatorSide' /\ MinerSide'
  BY <1>1 DEF IInv, Contents, ValidatorSide, MinerSide
<1>4. InFlight'
  BY <1>1, <1>2 DEF IInv, InFlight
<1>5. Unread' /\ Owed'
  BY <1>1, <1>2 DEF IInv, Unread, Owed, Connected
<1>6. Carried' /\ WrongAfterCut'
  BY <1>1, <1>2 DEF IInv, Carried, WrongAfterCut
<1> QED
  BY <1>3, <1>4, <1>5, <1>6 DEF IInv

\* What a read of the miner may take.
LEMMA Received ==
    ASSUME IInv, NEW n \in 1 .. Min({Len(up), ReadLen})
    PROVE  n \in Nat /\ n > 0 /\ n <= Len(up) /\ n <= left /\ n <= MinerBuffer
<1> DEFINE l == ReadLen
           m == Min({Len(up), l})
<1>1. left \in Int /\ MinerBuffer \in Int /\ Len(up) \in Int
  BY Positive, Sizes DEF IInv, MinerSide
<1>2. l \in Int /\ l <= left /\ l <= MinerBuffer
  BY <1>1, MinIsLess DEF ReadLen
<1> HIDE DEF l
<1>3. m \in Int /\ m <= Len(up) /\ m <= l
  BY <1>1, <1>2, MinIsLess
<1>4. n \in 1 .. m
  BY DEF l
<1> HIDE DEF m
<1> QED
  BY <1>1, <1>2, <1>3, <1>4

\* The miner reads data and solves it.
LEMMA ReceiveDataIInv ==
    ASSUME IInv, NEW n \in 1 .. Min({Len(up), ReadLen}), ReceiveData(n)
    PROVE  IInv'
<1> DEFINE bytes == [i \in 1 .. n |-> up[i][2]]
<1>1. /\ mpc = "data" /\ up' = SubSeq(up, n + 1, Len(up)) /\ out' = Solved(bytes)
      /\ solverLast' = CarryOf(bytes) /\ mpc' = "answer"
      /\ cuts' = IF n % WordBytes = 0 THEN cuts ELSE cuts \cup {bytes[n]}
      /\ UNCHANGED <<reliable, requests, down, validator, left>>
      /\ UNCHANGED <<vpc, length, total, last, written, read, readLast, wrong>>
  BY DEF ReceiveData, validator
<1>2. n \in Nat /\ n > 0 /\ n <= Len(up) /\ n <= left /\ n <= MinerBuffer
  BY Received
<1>3. /\ up \in Seq(Item) /\ Len(up) \in Nat /\ DOMAIN up = 1 .. Len(up)
      /\ n \in 1 .. Len(up) /\ \A i \in 1 .. Len(up) : up[i] \in Item
  BY <1>2, LenProperties, ElementOfSeq DEF IInv, Contents
<1>4. /\ up' \in Seq(Item) /\ Len(up') = Len(up) - n /\ DOMAIN up' = 1 .. Len(up) - n
      /\ \A i \in 1 .. Len(up) - n : up'[i] = up[n + i]
  <2>1. /\ up' \in Seq(Item) /\ Len(up') = Len(up) - n
        /\ \A i \in 1 .. Len(up) - n : up'[i] = up[n + i]
    BY <1>1, <1>3, Cut
  <2> QED
    BY <2>1, LenProperties
<1>5. /\ bytes \in Seq(Nat) /\ Len(bytes) = n /\ DOMAIN bytes = 1 .. n
      /\ \A i \in 1 .. n : bytes[i] = up[i][2] /\ bytes[i] \in Nat
  <2>1. \A i \in 1 .. n : up[i][2] \in Nat
    BY <1>2, <1>3 DEF Item
  <2>2. bytes \in [1 .. n -> Nat]
    BY <2>1
  <2>3. bytes \in Seq(Nat)
    BY <2>2, <1>2
  <2> QED
    BY <2>1, <2>3, <1>2
<1> HIDE DEF bytes
<1>6. /\ out' = [i \in 1 .. n |-> <<bytes[i], IF i = 1 THEN solverLast ELSE bytes[i - 1]>>]
      /\ out = <<>> /\ Len(out) = 0
  BY <1>1, <1>5, EmptySeq DEF Solved, IInv, MinerSide
<1>7. /\ out' \in Seq(Answer) /\ Len(out') = n /\ DOMAIN out' = 1 .. n
      /\ \A i \in 1 .. n : out'[i][1] = bytes[i]
      /\ out'[1][2] = solverLast
      /\ \A i \in 2 .. n : out'[i][2] = bytes[i - 1]
  <2>1. solverLast \in Nat \cup {Stale}
    BY DEF IInv, MinerSide
  <2>2. \A i \in 1 .. n :
           <<bytes[i], IF i = 1 THEN solverLast ELSE bytes[i - 1]>> \in Answer
    <3> TAKE i \in 1 .. n
    <3>1. i # 1 => i - 1 \in 1 .. n
      BY <1>2
    <3> QED
      BY <2>1, <3>1, <1>5 DEF Answer
  <2>3. out' \in [1 .. n -> Answer]
    BY <2>2, <1>6
  <2>4. out' \in Seq(Answer) /\ Len(out') = n /\ DOMAIN out' = 1 .. n
    BY <2>3, <1>2
  <2>5. 1 \in 1 .. n /\ \A i \in 2 .. n : i \in 1 .. n /\ i # 1
    BY <1>2
  <2> QED
    BY <2>4, <2>5, <1>6
<1>8. /\ solverLast' \in {bytes[n], Stale} /\ bytes[n] \in Nat
      /\ solverLast' = bytes[n] \/ bytes[n] \in cuts'
      /\ cuts \subseteq cuts' /\ cuts' \subseteq cuts \cup {bytes[n]}
  <2>1. Len(bytes) \in Nat \ {0} /\ n \in 1 .. n
    BY <1>2, <1>5
  <2>2. /\ CarryOf(bytes) \in {bytes[n], Stale}
        /\ n % WordBytes = 0 => CarryOf(bytes) = bytes[n]
    BY <2>1, <1>5, CarryIsLast
  <2> QED
    BY <2>1, <2>2, <1>1, <1>5
<1>9. Contents'
  <2>1. Len(up) <= Capacity
    BY DEF IInv, Contents
  <2>2. Len(up') <= Capacity
    BY <2>1, <1>2, <1>3, <1>4, Positive
  <2> QED
    BY <2>2, <1>1, <1>2, <1>4, <1>7 DEF IInv, Contents
<1>10. MinerSide'
  <2>1. out' # <<>>
    BY <1>2, <1>7, EmptySeq
  <2>2. cuts' \subseteq Nat /\ solverLast' \in Nat \cup {Stale}
    BY <1>8 DEF IInv, MinerSide
  <2>3. left' \in Nat /\ Len(out') <= left'
    BY <1>1, <1>2, <1>7 DEF IInv, MinerSide
  <2> QED
    BY <2>1, <2>2, <2>3, <1>1 DEF MinerSide
<1>11. CASE Dropped
  BY <1>1, <1>8, <1>9, <1>10, <1>11, DroppedSteady
<1>12. CASE ~Dropped
  <2> DEFINE q == total + read + Len(down)
  <2>1. ~Announced /\ Off = 0
    BY <1>1, <1>12 DEF IInv, Unread, Off
  <2>2. q \in Nat /\ total \in Nat /\ read \in Nat /\ Len(down) \in Nat
    BY LengthNat, Positive, Sizes DEF IInv, ValidatorSide
  <2>3. \A i \in DOMAIN up : up[i] = Raw(q + i)
    <3> TAKE i \in DOMAIN up
    <3>1. i \in Nat /\ i > Off
      BY <2>1, <1>3
    <3>2. up[i] = Raw(total + read + Len(down) + Len(out) + i - Off)
      BY <3>1, <1>12 DEF IInv, InFlight
    <3>3. q + Len(out) + i - Off = q + i
      <4> HIDE DEF q
      <4> QED
        BY <3>1, <2>1, <2>2, <1>6
    <3> QED
      BY <3>2, <3>3
  <2>4. \A i \in 1 .. n : bytes[i] = q + i
    BY <2>3, <1>2, <1>3, <1>5 DEF Raw
  <2>5. \A i \in DOMAIN up' : up'[i] = Raw(q + n + i)
    <3> TAKE i \in DOMAIN up'
    <3>1. n + i \in DOMAIN up /\ up'[i] = up[n + i] /\ i \in Nat
      BY <1>2, <1>3, <1>4
    <3>2. q + (n + i) = q + n + i
      <4> HIDE DEF q
      <4> QED
        BY <3>1, <2>2, <1>2
    <3> QED
      BY <3>1, <3>2, <2>3
  <2>6. ~Announced' /\ Off' = 0
    BY <2>5, <1>9, StillBytes
  <2>7. ValidatorSide'
    BY <1>1 DEF IInv, ValidatorSide
  <2>8. WrongAfterCut'
    BY <1>1, <1>8 DEF IInv, WrongAfterCut
  <2>9. Unread'
    BY <2>6 DEF Unread
  <2>10. Owed'
    <3>1. CASE Connected
      BY <3>1, <2>1, <1>1 DEF IInv, Owed, Connected
    <3>2. CASE ~Connected
      BY <3>2, <1>1, <1>12 DEF Connected
    <3> QED
      BY <3>1, <3>2
  <2>11. InFlight'
    <3>1. Len(down) + Len(out) + Len(up) - Off = written - read
      BY <1>12 DEF IInv, InFlight
    <3>2. Len(down) + n + (Len(up) - n) - 0 = Len(down) + 0 + Len(up) - 0
      BY <2>2, <1>2, <1>3
    <3>3. Len(down') + Len(out') + Len(up') - Off' = written' - read'
      BY <3>1, <3>2, <2>1, <2>6, <1>1, <1>4, <1>6, <1>7
    <3>4. \A i \in DOMAIN out' : out'[i][1] = q + i
      BY <2>4, <1>7
    <3>5. \A i \in DOMAIN up' : up'[i] = Raw(q + n + i - 0)
      <4> TAKE i \in DOMAIN up'
      <4>1. q + n + i - 0 = q + n + i
        <5> HIDE DEF q
        <5> QED
          BY <2>2, <1>2, <1>4
      <4> QED
        BY <4>1, <2>5
    <3>6. \A i \in DOMAIN down : down[i][1] = total + read + i
      BY <1>12 DEF IInv, InFlight
    <3> QED
      BY <3>3, <3>4, <3>5, <3>6, <2>6, <1>1, <1>7 DEF InFlight
  <2>12. Carried'
    <3>1. /\ \A i \in DOMAIN down : \/ down[i][2] = (total + read + i) - 1
                                    \/ (total + read + i) - 1 \in cuts
          /\ \/ solverLast = q + Len(out)
             \/ q + Len(out) \in cuts
      BY <1>1, <1>12 DEF IInv, Carried
    <3>2. q + Len(out) = q
      <4> HIDE DEF q
      <4> QED
        BY <2>2, <1>6
    <3>3. \A i \in DOMAIN out' : out'[i][2] = (q + i) - 1 \/ (q + i) - 1 \in cuts'
      <4> TAKE i \in DOMAIN out'
      <4>1. CASE i = 1
        <5>1. (q + i) - 1 = q
          <6> HIDE DEF q
          <6> QED
            BY <4>1, <2>2
        <5> QED
          BY <4>1, <5>1, <3>1, <3>2, <1>7, <1>8
      <4>2. CASE i # 1
        <5>1. i \in 2 .. n /\ i - 1 \in 1 .. n
          BY <4>2, <1>2, <1>7
        <5>2. out'[i][2] = q + (i - 1)
          BY <5>1, <2>4, <1>7
        <5>3. q + (i - 1) = (q + i) - 1
          <6> HIDE DEF q
          <6> QED
            BY <5>1, <2>2, <1>2
        <5> QED
          BY <5>2, <5>3
      <4> QED
        BY <4>1, <4>2
    <3>4. solverLast' = q + n \/ q + n \in cuts'
      <4>1. n \in 1 .. n
        BY <1>2
      <4> QED
        BY <4>1, <2>4, <1>8
    <3>5. \A i \in DOMAIN down : \/ down[i][2] = (total + read + i) - 1
                                 \/ (total + read + i) - 1 \in cuts'
      BY <3>1, <1>8
    <3> QED
      BY <3>3, <3>4, <3>5, <1>1, <1>7 DEF Carried
  <2> QED
    BY <1>9, <1>10, <2>7, <2>8, <2>9, <2>10, <2>11, <2>12 DEF IInv
<1> QED
  BY <1>11, <1>12

\* Writing n of the o answers, of which the first is after b + d, leaves k of them
\* behind the e under way.
Moved(b, n, d, o, e, k) ==
    /\ b \in Nat /\ n \in Nat /\ d \in Nat /\ o \in Nat /\ e \in Nat /\ k \in Nat
    /\ e = d + n /\ k = o - n

\* Arithmetic of bytes moved from a buffer to a stream: where they stand,
LEMMA MovedPlaces ==
    ASSUME NEW b, NEW n, NEW d, NEW o, NEW e, NEW k, Moved(b, n, d, o, e, k)
    PROVE  /\ b + e + k = b + d + o /\ e + k = d + o
BY DEF Moved

\* how they shift,
LEMMA MovedShift ==
    ASSUME NEW b, NEW n, NEW d, NEW o, NEW e, NEW k, Moved(b, n, d, o, e, k), NEW i \in Nat
    PROVE  b + d + (n + i) = b + e + i
BY DEF Moved

\* and that some are.
LEMMA MovedLess ==
    ASSUME NEW b, NEW n, NEW d, NEW o, NEW e, NEW k, Moved(b, n, d, o, e, k),
           NEW l \in Nat, o <= l
    PROVE  l - n \in Nat /\ k <= l - n
BY DEF Moved

\* A part of the answers is written.
LEMMA WriteAnswersIInv ==
    ASSUME IInv, NEW n \in 1 .. Len(out), WriteAnswers(n)
    PROVE  IInv'
<1> DEFINE sent == SubSeq(out, 1, n)
<1>1. /\ mpc = "answer" /\ Len(down) + n <= Capacity /\ down' = down \o sent
      /\ out' = SubSeq(out, n + 1, Len(out)) /\ left' = left - n
      /\ mpc' = (IF out' # <<>> THEN "answer" ELSE IF left' = 0 THEN "request" ELSE "data")
      /\ UNCHANGED <<reliable, requests, up, validator, solverLast, cuts>>
      /\ UNCHANGED <<vpc, length, total, last, written, read, readLast, wrong>>
  BY DEF WriteAnswers, validator
<1>2. /\ out \in Seq(Answer) /\ down \in Seq(Answer) /\ Len(out) \in Nat
      /\ Len(down) \in Nat /\ n \in Nat /\ n > 0 /\ n <= Len(out)
      /\ DOMAIN down = 1 .. Len(down) /\ DOMAIN out = 1 .. Len(out)
  BY Sizes DEF IInv, Contents
<1>3. /\ sent \in Seq(Answer) /\ Len(sent) = n /\ \A i \in 1 .. n : sent[i] = out[i]
      /\ out' \in Seq(Answer) /\ Len(out') = Len(out) - n
      /\ \A i \in 1 .. Len(out) - n : out'[i] = out[n + i]
  BY <1>1, <1>2, Cut
<1> HIDE DEF sent
<1>4. /\ down' \in Seq(Answer) /\ Len(down') = Len(down) + n
      /\ \A i \in 1 .. Len(down) + n :
            down'[i] = IF i <= Len(down) THEN down[i] ELSE sent[i - Len(down)]
  <2>1. /\ down \o sent \in Seq(Answer)
        /\ Len(down \o sent) = Len(down) + Len(sent)
        /\ \A i \in 1 .. Len(down) + Len(sent) : (down \o sent)[i] =
               IF i <= Len(down) THEN down[i] ELSE sent[i - Len(down)]
    BY <1>2, <1>3, ConcatProperties
  <2> QED
    BY <2>1, <1>1, <1>3
<1>5. /\ DOMAIN down' = 1 .. Len(down) + n /\ DOMAIN out' = 1 .. Len(out) - n
      /\ Len(down') \in Nat /\ Len(out') \in Nat
  BY <1>3, <1>4, LenProperties
<1>6. \A i \in 1 .. n : down'[Len(down) + i] = out[i]
  <2> TAKE i \in 1 .. n
  <2>1. /\ Len(down) + i \in 1 .. Len(down) + n /\ ~(Len(down) + i <= Len(down))
        /\ Len(down) + i - Len(down) = i
    BY <1>2
  <2>2. down'[Len(down) + i] = sent[Len(down) + i - Len(down)]
    BY <2>1, <1>4
  <2> QED
    BY <2>1, <2>2, <1>3
<1>7. \A i \in 1 .. Len(down) : down'[i] = down[i] /\ i \in 1 .. Len(down) + n
  <2> TAKE i \in 1 .. Len(down)
  <2>1. i \in 1 .. Len(down) + n /\ i <= Len(down)
    BY <1>2
  <2> QED
    BY <2>1, <1>4
<1>8. Contents'
  <2>1. Len(out) <= MinerBuffer
    BY DEF IInv, Contents
  <2>2. Len(out') <= MinerBuffer
    BY <2>1, <1>2, <1>3, Positive
  <2> QED
    BY <2>2, <1>1, <1>3, <1>4 DEF IInv, Contents
<1>9. left \in Nat /\ Len(out) <= left
  BY DEF IInv, MinerSide
<1>15. \A b \in Nat : Moved(b, n, Len(down), Len(out), Len(down'), Len(out'))
  BY <1>2, <1>3, <1>4, <1>5 DEF Moved
<1>10. left' \in Nat /\ Len(out') <= left'
  <2>1. Moved(0, n, Len(down), Len(out), Len(down'), Len(out'))
    BY <1>15
  <2> QED
    BY <2>1, <1>1, <1>9, MovedLess
<1>11. (out' = <<>> <=> Len(out') = 0)
  BY <1>3, EmptySeq
<1>12. MinerSide'
  BY <1>1, <1>10, <1>11 DEF IInv, MinerSide
<1>13. CASE Dropped
  BY <1>1, <1>8, <1>12, <1>13, DroppedSteady
<1>14. CASE ~Dropped
  <2> DEFINE b == total + read
  <2>1. ~Announced /\ ~Announced' /\ Off = 0 /\ Off' = 0
    BY <1>1, <1>14 DEF IInv, Unread, Off, Announced
  <2>2. b \in Nat /\ total \in Nat /\ read \in Nat /\ length \in Nat
    BY LengthNat, Positive DEF IInv, ValidatorSide
  <2>3. /\ b + Len(down') + Len(out') = b + Len(down) + Len(out)
        /\ Len(down') + Len(out') = Len(down) + Len(out)
    <3> HIDE DEF b
    <3>1. Moved(b, n, Len(down), Len(out), Len(down'), Len(out'))
      BY <2>2, <1>15
    <3> QED
      BY <3>1, MovedPlaces
  <2>4. ValidatorSide' /\ WrongAfterCut'
    BY <1>1 DEF IInv, ValidatorSide, WrongAfterCut
  <2>5. Unread'
    BY <2>1 DEF Unread
  <2>6. Owed'
    <3>1. left = length - total - read - Len(down)
      BY <1>1, <1>14, <2>1 DEF IInv, Owed, Connected
    <3>2. left' = length - total - read - Len(down')
      BY <3>1, <1>1, <1>2, <1>4, <2>2
    <3>3. mpc' = "request" <=> left' = 0
      <4>1. CASE out' = <<>>
        BY <4>1, <1>1
      <4>2. CASE out' # <<>>
        BY <4>2, <1>1, <1>5, <1>10, <1>11
      <4> QED
        BY <4>1, <4>2
    <3> QED
      BY <3>2, <3>3, <1>1 DEF Owed
  <2>7. /\ Len(down) + Len(out) + Len(up) - Off = written - read
        /\ \A i \in DOMAIN down : down[i][1] = b + i
        /\ \A i \in DOMAIN out : out[i][1] = b + Len(down) + i
        /\ \A i \in DOMAIN up :
              i > Off => up[i] = Raw(b + Len(down) + Len(out) + i - Off)
    BY <1>14 DEF IInv, InFlight
  <2>8. /\ \A i \in DOMAIN down : down[i][2] = (b + i) - 1 \/ (b + i) - 1 \in cuts
        /\ \A i \in DOMAIN out : \/ out[i][2] = (b + Len(down) + i) - 1
                                 \/ (b + Len(down) + i) - 1 \in cuts
        /\ \/ solverLast = b + Len(down) + Len(out)
           \/ b + Len(down) + Len(out) \in cuts
    BY <1>1, <1>14 DEF IInv, Carried
  <2> HIDE DEF b
  <2>9. ASSUME NEW i \in DOMAIN down'
        PROVE  /\ down'[i][1] = b + i
               /\ down'[i][2] = (b + i) - 1 \/ (b + i) - 1 \in cuts
    <3>1. CASE i \in 1 .. Len(down)
      BY <3>1, <1>2, <1>7, <2>7, <2>8
    <3>2. CASE i \notin 1 .. Len(down)
      <4> DEFINE j == i - Len(down)
      <4>1. j \in 1 .. n /\ i = Len(down) + j /\ j \in 1 .. Len(out) /\ i \in Nat
        BY <3>2, <1>2, <1>5
      <4> HIDE DEF j
      <4>2. down'[i] = out[j]
        BY <4>1, <1>6
      <4>3. b + Len(down) + j = b + i
        BY <4>1, <1>2, <2>2
      <4>4. j \in DOMAIN out
        BY <4>1, <1>2
      <4>5. out[j][1] = b + Len(down) + j
        BY <4>4, <2>7
      <4>6. out[j][2] = (b + Len(down) + j) - 1 \/ (b + Len(down) + j) - 1 \in cuts
        BY <4>4, <2>8
      <4> DEFINE c == b + Len(down) + j
                 g == b + i
      <4>7. c = g /\ out[j][1] = c /\ (out[j][2] = c - 1 \/ c - 1 \in cuts)
        BY <4>3, <4>5, <4>6
      <4> HIDE DEF c, g
      <4>8. down'[i][1] = g /\ (down'[i][2] = g - 1 \/ g - 1 \in cuts)
        BY <4>2, <4>7
      <4> QED
        BY <4>8 DEF g
    <3> QED
      BY <3>1, <3>2
  <2>10. ASSUME NEW i \in DOMAIN out'
         PROVE  /\ out'[i][1] = b + Len(down') + i
                /\ out'[i][2] = (b + Len(down') + i) - 1 \/ (b + Len(down') + i) - 1 \in cuts
    <3>1. n + i \in DOMAIN out /\ out'[i] = out[n + i] /\ i \in Nat
      BY <1>2, <1>3, <1>5
    <3>2. b + Len(down) + (n + i) = b + Len(down') + i
      <4>1. Moved(b, n, Len(down), Len(out), Len(down'), Len(out'))
        BY <2>2, <1>15
      <4> QED
        BY <3>1, <4>1, MovedShift
    <3>3. out[n + i][1] = b + Len(down) + (n + i)
      BY <3>1, <2>7
    <3>4. \/ out[n + i][2] = (b + Len(down) + (n + i)) - 1
          \/ (b + Len(down) + (n + i)) - 1 \in cuts
      BY <3>1, <2>8
    <3> DEFINE c == b + Len(down) + (n + i)
               g == b + Len(down') + i
    <3>5. c = g /\ out[n + i][1] = c /\ (out[n + i][2] = c - 1 \/ c - 1 \in cuts)
      BY <3>2, <3>3, <3>4
    <3> HIDE DEF c, g
    <3>6. out'[i][1] = g /\ (out'[i][2] = g - 1 \/ g - 1 \in cuts)
      BY <3>1, <3>5
    <3> QED
      BY <3>6 DEF g
  <2>11. Len(down') + Len(out') + Len(up) - Off = written - read
    BY <2>3, <2>7
  <2>12. InFlight'
    BY <2>1, <2>3, <2>7, <2>9, <2>10, <2>11, <1>1 DEF InFlight, b
  <2>13. Carried'
    BY <2>3, <2>8, <2>9, <2>10, <1>1 DEF Carried, b
  <2> QED
    BY <1>8, <1>12, <2>4, <2>5, <2>6, <2>12, <2>13 DEF IInv
<1> QED
  BY <1>13, <1>14

-------------------------------------------------------------------------------
\* Every step keeps the invariant.
LEMMA NextIInv == IInv /\ [Next]_vars => IInv'
<1> SUFFICES ASSUME IInv, [Next]_vars PROVE IInv'
  OBVIOUS
<1>1. CASE \E n \in Lengths : Request(n)
  BY <1>1, RequestIInv
<1>2. CASE Converse
  BY <1>2, WriteIInv, RefuteIInv, ReadAnswersIInv, FailIInv DEF Converse
<1>3. CASE Mine
  BY <1>3, ReceiveRequestIInv, ReceiveNothingIInv, ReceiveDataIInv, WriteAnswersIInv,
     LeaveIInv DEF Mine
<1>4. CASE UNCHANGED vars
  <2>1. /\ UNCHANGED <<reliable, requests, up, down, mpc, left, solverLast, out, cuts>>
        /\ UNCHANGED <<vpc, length, total, last, written, read, readLast, wrong>>
    BY <1>4 DEF vars, validator, miner
  <2>2. (Announced' <=> Announced) /\ Off' = Off /\ (Dropped' <=> Dropped)
    BY <2>1 DEF Announced, Off, Dropped
  <2>3. Contents' /\ ValidatorSide' /\ MinerSide'
    BY <2>1 DEF IInv, Contents, ValidatorSide, MinerSide
  <2>4. InFlight'
    BY <2>1, <2>2 DEF IInv, InFlight
  <2>5. Unread' /\ Owed'
    BY <2>1, <2>2 DEF IInv, Unread, Owed, Connected
  <2>6. Carried' /\ WrongAfterCut'
    BY <2>1, <2>2 DEF IInv, Carried, WrongAfterCut
  <2> QED
    BY <2>3, <2>4, <2>5, <2>6 DEF IInv
<1> QED
  BY <1>1, <1>2, <1>3, <1>4 DEF Next

\* The invariant holds in every reachable state.
LEMMA SpecIInv == Spec => []IInv
BY InitIInv, NextIInv, PTL DEF Spec

-------------------------------------------------------------------------------
\* What the invariant says of the connection.

\* The invariant is stronger than each property.
LEMMA IInvTypes == IInv => TypeOK
<1> SUFFICES ASSUME IInv PROVE TypeOK
  OBVIOUS
<1>1. /\ \A i \in DOMAIN up : up[i] \in {"header", "byte"} \X Nat
      /\ \A i \in DOMAIN down : down[i] \in Nat \X (Nat \cup {Stale})
  BY Sizes, ElementOfSeq DEF IInv, Contents, Item, Answer
<1>2. total \in 0 .. length
  BY LengthNat, Positive DEF IInv, ValidatorSide
<1> QED
  BY <1>1, <1>2 DEF IInv, Contents, ValidatorSide, MinerSide, TypeOK

\* The bytes on their way to the miner.
LEMMA DataIs ==
    ASSUME IInv, ~Dropped
    PROVE  /\ Data \in Seq(Item) /\ Len(Data) = Len(up) - Off /\ Len(Data) \in Nat
           /\ \A i \in 1 .. Len(Data) :
                 Data[i] = Raw(total + read + Len(down) + Len(out) + i)
<1>1. /\ up \in Seq(Item) /\ Len(up) \in Nat /\ Off \in {0, 1} /\ (Off = 1 <=> Announced)
      /\ DOMAIN up = 1 .. Len(up) /\ (Announced => up # <<>>)
  BY Sizes DEF IInv, Contents, Announced
<1>2. /\ Data \in Seq(Item) /\ Len(Data) = Len(up) - Off
      /\ \A i \in 1 .. Len(Data) : Data[i] = up[i + Off]
  <2>1. CASE Announced
    <3>1. Off = 1 /\ Data = Tail(up) /\ up # <<>>
      BY <2>1, <1>1 DEF Data
    <3>2. /\ Tail(up) \in Seq(Item) /\ Len(Tail(up)) = Len(up) - 1
          /\ \A i \in 1 .. Len(Tail(up)) : Tail(up)[i] = up[i + 1]
      BY <3>1, <1>1, HeadTailProperties
    <3> QED
      BY <3>1, <3>2
  <2>2. CASE ~Announced
    <3>1. Off = 0 /\ Data = up
      BY <2>2, <1>1 DEF Data
    <3>2. Len(up) = Len(up) - 0 /\ \A i \in 1 .. Len(up) : i = i + 0
      BY <1>1
    <3> QED
      BY <3>1, <3>2, <1>1
  <2> QED
    BY <2>1, <2>2
<1>3. Len(Data) \in Nat
  BY <1>2, LenProperties
<1>4. total + read + Len(down) + Len(out) \in Int
  BY Sizes, LengthNat, Positive DEF IInv, ValidatorSide
<1>5. \A i \in 1 .. Len(Data) : Data[i] = Raw(total + read + Len(down) + Len(out) + i)
  <2> DEFINE b == total + read + Len(down) + Len(out)
  <2> TAKE i \in 1 .. Len(Data)
  <2>1. i + Off \in DOMAIN up /\ i + Off > Off
    BY <1>1, <1>2, <1>3
  <2>2. up[i + Off] = Raw(b + (i + Off) - Off)
    BY <2>1 DEF IInv, InFlight
  <2>3. b + (i + Off) - Off = b + i
    <3>1. b \in Int
      BY <1>4
    <3> HIDE DEF b
    <3> QED
      BY <3>1, <1>1
  <2> QED
    BY <2>2, <2>3, <1>2
<1> QED
  BY <1>2, <1>3, <1>5

\* Bytes in flight are in order.
LEMMA IInvInOrder == IInv => InOrder
<1> SUFFICES ASSUME IInv, Connected PROVE InOrder
  BY DEF InOrder
<1> DEFINE b == total + read
           D == Len(down)
           O == Len(out)
           K == Len(Data)
           W == written - read
           p == Positions(down)
           q == Positions(out)
           r == [i \in DOMAIN Data |-> Data[i][2]]
           t == [i \in 1 .. W |-> b + i]
<1>1. ~Dropped
  BY DEF Connected
<1>2. /\ down \in Seq(Answer) /\ D \in Nat /\ DOMAIN down = 1 .. D
      /\ out \in Seq(Answer) /\ O \in Nat /\ DOMAIN out = 1 .. O
      /\ Data \in Seq(Item) /\ K \in Nat /\ DOMAIN Data = 1 .. K
      /\ \A i \in 1 .. K : Data[i] = Raw(b + D + O + i)
  <2>1. Data \in Seq(Item) /\ K \in Nat /\ \A i \in 1 .. K : Data[i] = Raw(b + D + O + i)
    BY <1>1, DataIs
  <2> QED
    BY <2>1, Sizes, LenProperties DEF IInv, Contents
<1>3. D + O + K = W /\ W \in Nat
  <2>1. /\ D + O + Len(up) - Off = W /\ K = Len(up) - Off /\ Len(up) \in Nat /\ Off \in {0, 1}
    BY <1>1, DataIs, Sizes DEF IInv, InFlight
  <2> HIDE DEF D, O, K, W
  <2> QED
    BY <2>1, <1>2
<1>4. b \in Nat
  BY LengthNat, Positive DEF IInv, ValidatorSide
<1>5. /\ p = [i \in 1 .. D |-> b + i]
      /\ q = [i \in 1 .. O |-> b + D + i]
      /\ r = [i \in 1 .. K |-> b + D + O + i]
  <2>1. \A i \in 1 .. D : down[i][1] = b + i
    BY <1>1, <1>2 DEF IInv, InFlight
  <2>2. \A i \in 1 .. O : out[i][1] = b + D + i
    BY <1>1, <1>2 DEF IInv, InFlight
  <2>3. \A i \in 1 .. K : Data[i][2] = b + D + O + i
    BY <1>2 DEF Raw
  <2> HIDE DEF b, D, O, K
  <2> QED
    BY <2>1, <2>2, <2>3, <1>2 DEF Positions
<1> HIDE DEF b, D, O, K, W, p, q, r
<1>6. /\ p \in Seq(Nat) /\ Len(p) = D /\ \A i \in 1 .. D : p[i] = b + i
      /\ q \in Seq(Nat) /\ Len(q) = O /\ \A i \in 1 .. O : q[i] = b + D + i
      /\ r \in Seq(Nat) /\ Len(r) = K /\ \A i \in 1 .. K : r[i] = b + D + O + i
      /\ t \in Seq(Nat) /\ Len(t) = W /\ \A i \in 1 .. W : t[i] = b + i
  <2>1. /\ \A i \in 1 .. D : b + i \in Nat
        /\ \A i \in 1 .. O : b + D + i \in Nat
        /\ \A i \in 1 .. K : b + D + O + i \in Nat
        /\ \A i \in 1 .. W : b + i \in Nat
    BY <1>2, <1>3, <1>4
  <2>2. p \in Seq(Nat) /\ Len(p) = D /\ \A i \in 1 .. D : p[i] = b + i
    BY <2>1, <1>2, <1>5
  <2>3. q \in Seq(Nat) /\ Len(q) = O /\ \A i \in 1 .. O : q[i] = b + D + i
    BY <2>1, <1>2, <1>5
  <2>4. r \in Seq(Nat) /\ Len(r) = K /\ \A i \in 1 .. K : r[i] = b + D + O + i
    BY <2>1, <1>2, <1>5
  <2>5. t \in Seq(Nat) /\ Len(t) = W /\ \A i \in 1 .. W : t[i] = b + i
    BY <2>1, <1>3
  <2> QED
    BY <2>2, <2>3, <2>4, <2>5
<1> HIDE DEF t
<1>7. /\ p \o q \in Seq(Nat) /\ Len(p \o q) = D + O
      /\ \A i \in 1 .. D + O : (p \o q)[i] = b + i
  <2>1. /\ p \o q \in Seq(Nat) /\ Len(p \o q) = Len(p) + Len(q)
        /\ \A i \in 1 .. Len(p) + Len(q) :
              (p \o q)[i] = IF i <= Len(p) THEN p[i] ELSE q[i - Len(p)]
    BY <1>6, ConcatProperties
  <2>2. ASSUME NEW i \in 1 .. D + O PROVE (p \o q)[i] = b + i
    <3>1. CASE i <= D
      <4>1. i \in 1 .. D
        BY <3>1, <1>2
      <4> QED
        BY <4>1, <3>1, <2>1, <1>6
    <3>2. CASE ~(i <= D)
      <4>1. i - D \in 1 .. O /\ b + D + (i - D) = b + i
        BY <3>2, <1>2, <1>4
      <4>2. (p \o q)[i] = q[i - D]
        BY <3>2, <2>1, <1>6
      <4> QED
        BY <4>1, <4>2, <1>6
    <3> QED
      BY <3>1, <3>2
  <2> QED
    BY <2>1, <2>2, <1>6
<1>8. /\ (p \o q) \o r \in Seq(Nat) /\ Len((p \o q) \o r) = W
      /\ \A i \in 1 .. W : ((p \o q) \o r)[i] = b + i
  <2> DEFINE s == p \o q
             E == D + O
  <2>1. s \in Seq(Nat) /\ Len(s) = E /\ \A i \in 1 .. E : s[i] = b + i
    BY <1>7
  <2>2. E \in Nat /\ E + K = W
    BY <1>2, <1>3
  <2>3. \A i \in 1 .. K : r[i] = b + E + i
    <3>1. \A i \in 1 .. K : b + D + O + i = b + E + i
      BY <1>2, <1>4
    <3> QED
      BY <3>1, <1>6
  <2> HIDE DEF s, E
  <2>4. /\ s \o r \in Seq(Nat) /\ Len(s \o r) = Len(s) + Len(r)
        /\ \A i \in 1 .. Len(s) + Len(r) :
              (s \o r)[i] = IF i <= Len(s) THEN s[i] ELSE r[i - Len(s)]
    <3>1. s \in Seq(Nat) /\ r \in Seq(Nat)
      BY <2>1, <1>6
    <3> QED
      BY <3>1, ConcatProperties
  <2>5. ASSUME NEW i \in 1 .. W PROVE (s \o r)[i] = b + i
    <3>1. CASE i <= E
      <4>1. i \in 1 .. E
        BY <3>1, <2>2
      <4> QED
        BY <4>1, <3>1, <2>1, <2>2, <2>4, <1>6
    <3>2. CASE ~(i <= E)
      <4>1. i - E \in 1 .. K /\ b + E + (i - E) = b + i
        BY <3>2, <2>2, <1>2, <1>4
      <4>2. (s \o r)[i] = r[i - E]
        BY <3>2, <2>1, <2>2, <2>4, <1>6
      <4> QED
        BY <4>1, <4>2, <2>3
    <3> QED
      BY <3>1, <3>2
  <2>6. s \o r \in Seq(Nat) /\ Len(s \o r) = W /\ \A i \in 1 .. W : (s \o r)[i] = b + i
    BY <2>1, <2>2, <2>4, <2>5, <1>6
  <2> QED
    BY <2>6 DEF s
<1>9. (p \o q) \o r = t
  <2>1. \A i \in 1 .. W : ((p \o q) \o r)[i] = t[i]
    BY <1>6, <1>8
  <2> QED
    BY <2>1, <1>6, <1>8, SeqEqual
<1> QED
  BY <1>9 DEF InOrder, p, q, r, t, b, W

\* Both ends agree on requests.
LEMMA IInvFramed == IInv => Framed
<1> SUFFICES ASSUME IInv, Connected PROVE Framed
  BY DEF Framed
<1>1. ~Dropped /\ mpc # "gone"
  BY DEF Connected
<1>2. /\ DOMAIN up = 1 .. Len(up) /\ Len(up) \in Nat /\ (up = <<>> <=> Len(up) = 0)
  BY Sizes DEF IInv
<1>3. \A i \in DOMAIN up : i > Off => up[i][1] = "byte"
  BY <1>1 DEF IInv, InFlight, Raw
<1>4. CASE Announced
  <2>1. Off = 1 /\ \A i \in 2 .. Len(up) : i \in DOMAIN up /\ i > Off
    BY <1>2, <1>4 DEF Off
  <2>2. mpc = "request" /\ Head(up) = Header(length)
    BY <1>1, <1>4 DEF IInv, Unread
  <2>3. \A i \in 2 .. Len(up) : up[i][1] = "byte"
    BY <2>1, <1>3
  <2> QED
    BY <1>4, <2>2, <2>3 DEF Framed
<1>5. CASE ~Announced
  <2>1. Off = 0 /\ \A i \in DOMAIN up : i > Off
    BY <1>2, <1>5 DEF Off
  <2>2. left = length - total - read - Len(down) /\ (mpc = "request" <=> left = 0)
    BY <1>5 DEF IInv, Owed
  <2>3. vpc = "idle" => left = 0 /\ up = <<>>
    <3> SUFFICES ASSUME vpc = "idle" PROVE left = 0 /\ up = <<>>
      OBVIOUS
    <3>1. read = 0 /\ down = <<>> /\ Len(up) = Off
      BY NothingUnderWay
    <3>2. total = length /\ total \in Nat /\ Len(down) = 0
      BY <3>1, EmptySeq DEF IInv, ValidatorSide
    <3> QED
      BY <3>1, <3>2, <2>1, <2>2, <1>2
  <2>4. \A i \in DOMAIN up : up[i][1] = "byte"
    BY <2>1, <1>3
  <2> QED
    BY <2>2, <2>3, <2>4 DEF Framed
<1> QED
  BY <1>4, <1>5
-------------------------------------------------------------------------------
\* What a worker thread relies on.

\* When Exchange sees a request under way, and when it is over.
LEMMA Phases ==
    ASSUME ValidatorSide
    PROVE  /\ vpc \in {"write", "read"} => Phase = "asked"
           /\ vpc = "idle" => Phase = "idle"
           /\ Dropped => Phase = "closed"
BY DEF ValidatorSide, Phase, Dropped

\* The same in the next state.
LEMMA PhasesNext ==
    ValidatorSide' => /\ vpc' \in {"write", "read"} => Phase' = "asked"
                      /\ vpc' = "idle" => Phase' = "idle"
                      /\ Dropped' => Phase' = "closed"
<1> DEFINE F == ValidatorSide => /\ vpc \in {"write", "read"} => Phase = "asked"
                                 /\ vpc = "idle" => Phase = "idle"
                                 /\ Dropped => Phase = "closed"
<1>1. F
  BY Phases
<1>2. F'
  BY <1>1, PTL
<1> QED
  BY <1>2

\* A request is a step of Exchange,
LEMMA AskStep == IInv /\ IInv' /\ (\E n \in Lengths : Request(n)) => Promise!Next
<1> SUFFICES ASSUME IInv, IInv', NEW n \in Lengths, Request(n) PROVE Promise!Next
  OBVIOUS
<1>1. vpc = "idle" /\ vpc' = "write" /\ length' = n /\ total' = 0 /\ read' = 0
  BY DEF Request
<1>2. Phase = "idle" /\ Phase' = "asked"
  BY <1>1, Phases, PhasesNext DEF IInv
<1>3. Answered' = 0
  BY <1>1 DEF Answered
<1>4. Promise!Ask
  BY <1>1, <1>2, <1>3 DEF Promise!Ask
<1> QED
  BY <1>4 DEF Promise!Next

\* as is reading answers,
LEMMA AnswerStep ==
    ASSUME IInv, IInv', NEW n \in 1 .. Min({Len(down), written - read}), NEW checked,
           ReadAnswers(n, checked)
    PROVE  Promise!Next
<1>1. vpc = "read" /\ AfterRead(n) /\ length' = length
  BY DEF ReadAnswers
<1>2. /\ n \in Nat /\ n > 0 /\ n <= written - read
      /\ total \in Nat /\ read \in Nat /\ written \in Nat /\ length \in Nat
      /\ total + written <= length
  BY <1>1, Readable
<1>3. Phase = "asked"
  BY <1>1, Phases DEF IInv
<1>4. ValidatorSide'
  BY DEF IInv
<1>5. CASE read + n < written /\ read' = read + n /\ UNCHANGED <<vpc, total>>
  <2>1. Answered' = Answered + n /\ Answered' < length /\ Answered \in Nat
    BY <1>2, <1>5 DEF Answered
  <2>2. Phase' = "asked"
    BY <1>1, <1>4, <1>5, PhasesNext
  <2> QED
    BY <1>1, <1>2, <1>3, <2>1, <2>2 DEF Promise!Next, Promise!Answer
<1>6. CASE /\ read + n = written /\ total' = total + written /\ read' = 0
           /\ vpc' = IF total' < length THEN "write" ELSE "idle"
  <2>1. Answered' = Answered + n /\ Answered' = total' /\ Answered' <= length /\ Answered \in Nat
    BY <1>2, <1>6 DEF Answered
  <2>2. Phase' = IF Answered' = length THEN "idle" ELSE "asked"
    <3>1. CASE Answered' = length
      BY <1>4, <1>6, <2>1, <3>1, <1>2, PhasesNext
    <3>2. CASE Answered' # length
      <4>1. total' < length
        BY <2>1, <3>2, <1>2
      <4> QED
        BY <1>4, <1>6, <3>2, <4>1, PhasesNext
    <3> QED
      BY <3>1, <3>2
  <2> QED
    BY <1>1, <1>2, <1>3, <2>1, <2>2 DEF Promise!Next, Promise!Answer
<1> QED
  BY <1>1, <1>5, <1>6 DEF AfterRead

\* and giving up;
LEMMA GiveUpStep ==
    ASSUME IInv, IInv', vpc \in {"write", "read"}, Dropped', UNCHANGED <<length, total, read>>
    PROVE  Promise!Next
<1>1. Phase = "asked" /\ Phase' = "closed"
  BY Phases, PhasesNext DEF IInv
<1> QED
  BY <1>1 DEF Promise!Next, Promise!GiveUp, Answered

\* What the miner does, and a write, is hidden.
LEMMA HiddenStep ==
    ASSUME IInv, IInv', length' = length, total' = total, read' = read,
           vpc' = vpc \/ (vpc = "write" /\ vpc' = "read")
    PROVE  UNCHANGED Promise!vars
<1>1. Phase' = Phase
  <2>1. CASE vpc' = vpc
    BY <2>1 DEF Phase, Dropped
  <2>2. CASE vpc = "write" /\ vpc' = "read"
    BY <2>2, Phases, PhasesNext DEF IInv
  <2> QED
    BY <2>1, <2>2
<1> QED
  BY <1>1 DEF Promise!vars, Answered

\* nothing else is.
LEMMA WriteStep ==
    ASSUME IInv, IInv', NEW n \in 1 .. Window, Write(n)
    PROVE  UNCHANGED Promise!vars
<1>1. read = 0
  BY DEF IInv, ValidatorSide, Write
<1> QED
  BY <1>1, HiddenStep DEF Write

\* A connection keeps what Exchange promises: the bytes of a request are answered
\* from first to last, each once, whatever writes and reads the two streams are
\* cut into.
THEOREM ImplementsExchange == Spec => ExchangeSpec
<1>1. Init => Promise!Init
  <2> SUFFICES ASSUME Init PROVE Promise!Init
    OBVIOUS
  <2>1. Phase = "idle"
    BY InitIInv, Phases DEF Init, IInv
  <2> QED
    BY <2>1 DEF Init, Promise!Init, Answered
<1>2. IInv /\ IInv' /\ [Next]_vars => [Promise!Next]_(Promise!vars)
  <2> SUFFICES ASSUME IInv, IInv', [Next]_vars PROVE [Promise!Next]_(Promise!vars)
    OBVIOUS
  <2>1. CASE \E n \in Lengths : Request(n)
    BY <2>1, AskStep
  <2>2. CASE \E n \in 1 .. Window : Write(n)
    BY <2>2, WriteStep
  <2>3. ASSUME NEW n \in 1 .. Min({Len(down), written - read}),
               NEW checked \in BOOLEAN, ReadAnswers(n, checked)
        PROVE  Promise!Next
    BY <2>3, AnswerStep
  <2>4. ASSUME NEW n \in 1 .. Min({Len(down), written - read}), Refute(n)
        PROVE  Promise!Next
    BY <2>4, GiveUpStep DEF Refute, Dropped
  <2>5. CASE Fail
    BY <2>5, GiveUpStep DEF Fail, Dropped
  <2>6. CASE Mine
    <3>1. length' = length /\ total' = total /\ read' = read /\ vpc' = vpc
      BY <2>6 DEF Mine, ReceiveRequest, ReceiveNothing, ReceiveData, WriteAnswers, Leave,
                  validator
    <3>2. UNCHANGED Promise!vars
      BY <3>1, HiddenStep
    <3> QED
      BY <3>2
  <2>7. CASE UNCHANGED vars
    <3>1. length' = length /\ total' = total /\ read' = read /\ vpc' = vpc
      BY <2>7 DEF vars, validator
    <3>2. UNCHANGED Promise!vars
      BY <3>1, HiddenStep
    <3> QED
      BY <3>2
  <2> QED
    BY <2>1, <2>2, <2>3, <2>4, <2>5, <2>6, <2>7 DEF Next, Converse
<1> QED
  BY <1>1, <1>2, SpecIInv, PTL DEF Spec, ExchangeSpec, Promise!Spec

-------------------------------------------------------------------------------
\* The state of the two ends has its types: in particular no counter of either
\* passes the length of the request, the window or the buffer.
THEOREM TypeCorrect == Spec => []TypeOK
BY SpecIInv, IInvTypes, PTL

\* On a connection that neither side has dropped, nothing is lost, repeated or
\* reordered between write and read_len, for any cut of the streams.
THEOREM BytesInOrder == Spec => []InOrder
BY SpecIInv, IInvInOrder, PTL

\* Both ends agree where a request begins and ends, so neither reads a byte of a
\* row as a request, nor waits for bytes that are not owed.
THEOREM EndsAgree == Spec => []Framed
BY SpecIInv, IInvFramed, PTL

\* An honest miner's answer is wrong, and an honest miner is taken for a cheater,
\* only after one of its reads ended inside a word.
THEOREM HonestUpToCuts == Spec => []WrongAfterCut
<1>1. IInv => WrongAfterCut
  BY DEF IInv
<1> QED
  BY <1>1, SpecIInv, PTL
===============================================================================
