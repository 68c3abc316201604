--------------------------------- MODULE Scores ---------------------------------
(***************************************************************************)
(* The arithmetic of paying miners: Score (neuron_data.rs), the weights    *)
(* set_weights submits for scores, and the weights that a step's times     *)
(* give (completion_event_handler.rs).                                     *)
(***************************************************************************)
EXTENDS Integers, Sequences, FiniteSetsExt

U8 == 255
U16 == 65535

\* enum Score: Legitimate(n) is n.
Cheater == -1

\* u128::from
Value(score) == IF score = Cheater THEN 0 ELSE score

\* Score::add
Added(score, n) == IF score = Cheater THEN Cheater ELSE score + n

-------------------------------------------------------------------------------
Normalized_Half(score, max) ==
    CASE score = Cheater -> 0
      [] score # Cheater /\ max = 0 -> U16
      [] score # Cheater /\ max # 0 -> ((score * (U16 + 1)) \div max) % (U16 + 1)

\* normalized_score of set_weights, for the highest score max.  `as u16` keeps
\* the low bits.
Normalized(score, max) ==
    CASE score = Cheater -> 0
      [] score # Cheater /\ max = 0 -> U16
      [] score # Cheater /\ max # 0 -> ((score * U16) \div max) % (U16 + 1)

NormalizedWeights(scores) ==
    LET max == Max({Value(scores[i]) : i \in DOMAIN scores})
    IN  [i \in DOMAIN scores |-> Normalized(scores[i], max)]

-------------------------------------------------------------------------------
\* An element of time_per_uid_byte.
Time(uid, duration, processed) ==
    [uid |-> uid, duration |-> duration, processed |-> processed]

\* A failed miner's time is added to its first entry, if there is one.
AddTime(times, t) ==
    LET own == {i \in DOMAIN times : times[i].uid = t.uid}
    IN  IF own = {} THEN Append(times, t)
        ELSE [times EXCEPT ![Min(own)] =
                 Time(t.uid, @.duration + t.duration, @.processed + t.processed)]

\* uid_times: entries without a byte are left out.
Timed(times) == {i \in DOMAIN times : times[i].processed # 0}

PerByte(t) == t.duration \div t.processed

ByteTimes(times) == {PerByte(times[i]) : i \in Timed(times)}

TimeWeight_Direct(times, time) ==
    LET low == Min(ByteTimes(times))
        range == Max(ByteTimes(times)) - low
    IN  IF range = 0 THEN U8 ELSE ((U8 * (time - low)) \div range) % (U8 + 1)

\* The weight of a miner that took `time` for a byte: u8::MAX for the fastest,
\* 0 for the slowest.
TimeWeight(times, time) ==
    LET low == Min(ByteTimes(times))
        range == Max(ByteTimes(times)) - low
    IN  IF range = 0 THEN U8 ELSE U8 - (((U8 * (time - low)) \div range) % (U8 + 1))

\* Its last entry counts: do_step assigns the weights one after the other.
LastTime(times, uid) ==
    PerByte(times[Max({i \in Timed(times) : times[i].uid = uid})])

WasTimed(times, uid) == \E i \in Timed(times) : times[i].uid = uid

NonZero_Plain(n) == n

\* NonZeroU8::new(weight).or(NonZeroU8::new(1))
NonZero(n) == IF n = 0 THEN 1 ELSE n

\* The weights after a step, for those before it.
NewWeights(weight, times) ==
    [i \in DOMAIN weight |->
        IF WasTimed(times, i - 1)
        THEN NonZero(TimeWeight(times, LastTime(times, i - 1))) ELSE weight[i]]
===============================================================================
