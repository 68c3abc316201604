------------------------------ MODULE Epoch_proofs ------------------------------
(***************************************************************************)
(* The block arithmetic of Epoch is right for every epoch length, lag and  *)
(* start block: nothing wraps, and a validator that was not refused sleeps *)
(* to its next sync.                                                       *)
(***************************************************************************)
EXTENDS Epoch, TLAPS

\* A difference that is not negative is what a u32 subtraction yields.
LEMMA MinusExact ==
    ASSUME NEW a \in Nat, NEW b \in 0 .. a, a < U32
    PROVE  Minus(a, b) = a - b
BY EpochAssumption DEF Minus

\* A u32 subtraction yields a u32.
LEMMA MinusType ==
    ASSUME NEW a \in Int, NEW b \in Int
    PROVE  Minus(a, b) \in 0 .. U32 - 1
BY EpochAssumption DEF Minus

-------------------------------------------------------------------------------
\* In the state at a block, last_update is not after that block.
UpdatesPast == \A b \in StartBlock .. clock : updates[b] <= b

\* A validator about to sleep has at most an epoch to wait.
RestPlanned ==
    pc = "connections" /\ shouldSleep /\ ~attempted =>
        elapsed <= EpochLength /\ lastUpdate + elapsed <= clock

\* attempted_set_weights is set by the first refusal.
RefusalsCounted == refusals <= 1 /\ (~attempted => refusals = 0)

\* The inductive invariant.
IInv == TypeOK /\ UpdatesPast /\ RestPlanned /\ SleepsToEpoch /\ RefusalsCounted

\* The cached last update is one of a fetched block, so not after it.
LEMMA NothingWraps ==
    ASSUME TypeOK, UpdatesPast
    PROVE  /\ lastUpdate \in Nat /\ lastUpdate <= block
           /\ Minus(block, lastUpdate) = block - lastUpdate
<1>1. PICK b \in StartBlock .. block : lastUpdate = updates[b]
  BY DEF TypeOK
<1>2. b \in StartBlock .. clock /\ block \in Nat /\ block < U32
  BY EpochAssumption DEF TypeOK
<1>3. lastUpdate \in Nat /\ lastUpdate <= b
  BY <1>1, <1>2 DEF TypeOK, UpdatesPast
<1>4. lastUpdate <= block
  BY <1>1, <1>2, <1>3, EpochAssumption
<1> QED
  BY <1>2, <1>3, <1>4, MinusExact

\* Zero is a u32.
LEMMA ZeroFits == 0 \in 0 .. U32 - 1
BY EpochAssumption

\* The inductive invariant holds at the start.
LEMMA Initially == Init => IInv
<1> SUFFICES ASSUME Init PROVE IInv
  OBVIOUS
<1>1. StartBlock .. clock = {StartBlock} /\ clock = StartBlock
  BY EpochAssumption DEF Init
<1>2. updates \in [StartBlock .. clock -> 0 .. clock]
  BY <1>1 DEF Init
<1>3. lastUpdate \in {updates[b] : b \in StartBlock .. block}
  BY <1>1 DEF Init
<1>4. TypeOK
  <2>1. clock \in StartBlock .. MaxBlock
    BY EpochAssumption DEF Init
  <2>2. sinceSubmit \in 0 .. EpochLength /\ refusals \in Nat /\ wakeAt \in Nat
    BY EpochAssumption DEF Init
  <2>3. block \in StartBlock .. clock /\ fetchedAt \in StartBlock .. clock
    BY <1>1 DEF Init
  <2>4. /\ pool \in BOOLEAN /\ attempted \in BOOLEAN
        /\ connected \in BOOLEAN /\ shouldSleep \in BOOLEAN
    BY DEF Init
  <2>5. /\ elapsed \in 0 .. U32 - 1
        /\ pc \in {"loop", "step", "metagraph", "connections", "sleep",
                   "joining"}
    BY ZeroFits DEF Init
  <2> QED
    BY <1>2, <1>3, <2>1, <2>2, <2>3, <2>4, <2>5 DEF TypeOK
<1>5. UpdatesPast
  BY <1>1, <1>2, EpochAssumption DEF UpdatesPast
<1> QED
  BY <1>4, <1>5
     DEF IInv, Init, RestPlanned, SleepsToEpoch, RefusalsCounted

\* Every step keeps the inductive invariant.
LEMMA Inductive == IInv /\ [Next]_vars => IInv'
<1> SUFFICES ASSUME IInv, [Next]_vars PROVE IInv'
  OBVIOUS
<1> USE EpochAssumption
<1>0. /\ lastUpdate \in Nat /\ lastUpdate <= block
      /\ Minus(block, lastUpdate) = block - lastUpdate
  BY NothingWraps DEF IInv
<1>1. CASE MakeBlock
  <2>1. PICK last \in 0 .. clock + 1 :
          /\ last <= clock + 1
          /\ updates' = [b \in StartBlock .. clock + 1 |->
                           IF b <= clock THEN updates[b] ELSE last]
    BY <1>1 DEF MakeBlock, NextUpdate, IInv, TypeOK
  <2>2. clock' = clock + 1 /\ clock' \in StartBlock .. MaxBlock
    BY <1>1 DEF MakeBlock, IInv, TypeOK
  <2>3. updates' \in [StartBlock .. clock' -> 0 .. clock']
    BY <2>1, <2>2 DEF IInv, TypeOK
  <2>4. \A b \in StartBlock .. clock : updates'[b] = updates[b]
    BY <2>1, <2>2 DEF IInv, TypeOK
  <2>5. UpdatesPast'
    BY <2>1, <2>2, <2>4 DEF IInv, TypeOK, UpdatesPast
  <2>6. lastUpdate' \in {updates'[b] : b \in StartBlock .. block'}
    BY <1>1, <2>4 DEF MakeBlock, IInv, TypeOK
  <2>7. TypeOK'
    <3>1. sinceSubmit' \in 0 .. EpochLength
      BY <1>1 DEF MakeBlock, IInv, TypeOK
    <3>2. pool' \in BOOLEAN
      BY <1>1 DEF MakeBlock, IInv, TypeOK
    <3>3. block' \in StartBlock .. clock' /\ fetchedAt' \in StartBlock .. clock'
      BY <1>1, <2>2 DEF MakeBlock, IInv, TypeOK
    <3> QED
      BY <1>1, <2>2, <2>3, <2>6, <3>1, <3>2, <3>3
         DEF MakeBlock, IInv, TypeOK, stepVars
  <2> QED
    BY <1>1, <2>2, <2>5, <2>7
       DEF MakeBlock, IInv, TypeOK, RestPlanned, SleepsToEpoch,
           RefusalsCounted, stepVars
<1>2. CASE FetchBlock
  <2>1. block' \in block .. clock
    BY <1>2 DEF FetchBlock, Latest
  <2>2. lastUpdate' \in {updates'[b] : b \in StartBlock .. block'}
    BY <1>2, <2>1 DEF FetchBlock, IInv, TypeOK, chainVars
  <2>3. TypeOK'
    <3>1. /\ block' \in StartBlock .. clock'
          /\ fetchedAt' \in StartBlock .. clock'
          /\ refusals' \in Nat
      BY <1>2, <2>1 DEF FetchBlock, IInv, TypeOK, chainVars
    <3>2. attempted' \in BOOLEAN
      BY <1>2 DEF FetchBlock
    <3> QED
      BY <1>2, <2>2, <3>1, <3>2 DEF FetchBlock, IInv, TypeOK, chainVars, stepVars
  <2> QED
    BY <1>2, <2>3
       DEF FetchBlock, IInv, UpdatesPast, RestPlanned, SleepsToEpoch,
           RefusalsCounted, chainVars
<1>3. CASE KeepBlock
  BY <1>3 DEF KeepBlock, IInv, TypeOK, UpdatesPast, RestPlanned,
     SleepsToEpoch, RefusalsCounted, chainVars, stepVars, history
<1>4. CASE Restart
  <2>1. block' \in block .. clock
    BY <1>4 DEF Restart, Latest
  <2>2. lastUpdate' \in {updates'[b] : b \in StartBlock .. block'}
    BY <1>4, <2>1 DEF Restart, IInv, TypeOK, chainVars
  <2>3. TypeOK'
    <3>1. /\ block' \in StartBlock .. clock'
          /\ fetchedAt' \in StartBlock .. clock'
          /\ refusals' \in Nat
      BY <1>4, <2>1 DEF Restart, IInv, TypeOK, chainVars
    <3>2. attempted' \in BOOLEAN
      BY <1>4 DEF Restart
    <3> QED
      BY <1>4, <2>2, <3>1, <3>2 DEF Restart, IInv, TypeOK, chainVars, stepVars
  <2> QED
    BY <1>4, <2>3
       DEF Restart, IInv, UpdatesPast, RestPlanned, SleepsToEpoch,
           RefusalsCounted, chainVars
<1>5. CASE FetchFails
  BY <1>5 DEF FetchFails, IInv, TypeOK, UpdatesPast, RestPlanned,
     SleepsToEpoch, RefusalsCounted, chainVars, stepVars, history
<1>6. CASE NoSync
  <2>1. elapsed' = block - lastUpdate /\ elapsed' \in 0 .. U32 - 1
    BY <1>0, <1>6 DEF NoSync, IInv, TypeOK
  <2>2. ~attempted => elapsed' < EpochLength
    BY <1>0, <1>6, <2>1 DEF NoSync, SyncDue
  <2> QED
    BY <1>0, <1>6, <2>1, <2>2
       DEF NoSync, IInv, TypeOK, UpdatesPast, RestPlanned, SleepsToEpoch,
           RefusalsCounted, chainVars, history
<1>7. CASE SubmitRefused
  <2>1. refusals' = 1
    BY <1>7 DEF SubmitRefused, SyncDue, IInv, RefusalsCounted
  <2>2. TypeOK'
    <3>1. attempted' \in BOOLEAN /\ shouldSleep' \in BOOLEAN
      BY <1>7 DEF SubmitRefused
    <3>2. refusals' \in Nat /\ elapsed' \in 0 .. U32 - 1
      BY <1>7, <2>1, ZeroFits DEF SubmitRefused
    <3> QED
      BY <1>7, <3>1, <3>2 DEF SubmitRefused, IInv, TypeOK, chainVars
  <2> QED
    BY <1>7, <2>1, <2>2
       DEF SubmitRefused, IInv, UpdatesPast, RestPlanned, SleepsToEpoch,
           RefusalsCounted, chainVars
<1>8. CASE SubmitAccepted
  BY <1>8 DEF SubmitAccepted, IInv, TypeOK, UpdatesPast, RestPlanned,
     SleepsToEpoch, RefusalsCounted, stepVars
<1>9. CASE ReadMetagraph
  <2>1. updates[block] <= clock
    BY DEF IInv, TypeOK, UpdatesPast
  <2>2. lastUpdate' \in {updates'[b] : b \in StartBlock .. block'}
    BY <1>9 DEF ReadMetagraph, MetagraphBlock, IInv, TypeOK, chainVars
  <2>3. TypeOK'
    BY <1>9, <2>2, ZeroFits DEF ReadMetagraph, IInv, TypeOK, chainVars, history
  <2> QED
    BY <1>9, <2>1, <2>3
       DEF ReadMetagraph, MetagraphBlock, IInv, TypeOK, UpdatesPast,
           RestPlanned, SleepsToEpoch, RefusalsCounted, chainVars, history
<1>10. CASE MetagraphFails
  BY <1>10 DEF MetagraphFails, IInv, TypeOK, UpdatesPast, RestPlanned,
     SleepsToEpoch, RefusalsCounted, chainVars, stepVars, history
<1>11. CASE Deregistered
  BY <1>11 DEF Deregistered, IInv, TypeOK, UpdatesPast, RestPlanned,
     SleepsToEpoch, RefusalsCounted, chainVars, stepVars, history
<1>12. CASE Evolve
  <2>1. TypeOK'
    BY <1>12, ZeroFits DEF Evolve, Return, IInv, TypeOK, chainVars, history
  <2> QED
    BY <1>12, <2>1
       DEF Evolve, Return, IInv, UpdatesPast, RestPlanned, SleepsToEpoch,
           RefusalsCounted, chainVars, history
<1>13. CASE SleepUntilEpoch
  <2>1. elapsed \in Nat /\ EpochLength \in Nat
    BY DEF IInv, TypeOK
  <2>2. SleepBlocks \in 0 .. U32 - 1
    <3>1. Minus(EpochLength, elapsed) \in 0 .. U32 - 1
      BY <2>1, MinusType
    <3> QED
      BY <3>1 DEF SleepBlocks
  <2>3. elapsed <= EpochLength => SleepBlocks = EpochLength - elapsed
    BY <2>1, MinusExact DEF SleepBlocks
  <2>4. TypeOK'
    BY <1>13, <2>2 DEF SleepUntilEpoch, IInv, TypeOK, chainVars, history
  <2>5. SleepsToEpoch'
    BY <1>0, <1>13, <2>1, <2>3
       DEF SleepUntilEpoch, IInv, TypeOK, RestPlanned, SleepsToEpoch, chainVars
  <2> QED
    BY <1>13, <2>4, <2>5
       DEF SleepUntilEpoch, IInv, UpdatesPast, RestPlanned, RefusalsCounted,
           chainVars, history
<1>14. CASE RetryAtOnce
  <2>1. TypeOK'
    BY <1>14, ZeroFits DEF RetryAtOnce, Return, IInv, TypeOK, chainVars, history
  <2> QED
    BY <1>14, <2>1
       DEF RetryAtOnce, Return, IInv, UpdatesPast, RestPlanned, SleepsToEpoch,
           RefusalsCounted, chainVars, history
<1>15. CASE Wake
  <2>1. TypeOK'
    BY <1>15, ZeroFits DEF Wake, Return, IInv, TypeOK, chainVars, history
  <2> QED
    BY <1>15, <2>1
       DEF Wake, Return, IInv, UpdatesPast, RestPlanned, SleepsToEpoch,
           RefusalsCounted, chainVars, history
<1>16. CASE UNCHANGED vars
  BY <1>16 DEF IInv, TypeOK, UpdatesPast, RestPlanned, SleepsToEpoch,
     RefusalsCounted, vars, chainVars, stepVars, history
<1> QED
  BY <1>1, <1>2, <1>3, <1>4, <1>5, <1>6, <1>7, <1>8, <1>9, <1>10, <1>11,
     <1>12, <1>13, <1>14, <1>15, <1>16 DEF Next

-------------------------------------------------------------------------------
\* The inductive invariant holds in every reachable state.
THEOREM Invariant == Spec => []IInv
BY Initially, Inductive, PTL DEF Spec

\* Every variable of the epoch loop keeps its type; in particular the cached
\* last_update is one the chain had at a block the validator has fetched.
THEOREM TypeCorrect == Spec => []TypeOK
<1>1. IInv => TypeOK
  BY DEF IInv
<1> QED
  BY Invariant, <1>1, PTL

\* current_block - last_update never wraps.
THEOREM BlocksNeverWrap == Spec => []NoUnderflow
<1>1. IInv => NoUnderflow
  BY NothingWraps DEF IInv, NoUnderflow
<1> QED
  BY Invariant, <1>1, PTL

\* EPOCH_LENGTH - elapsed_blocks wraps only after a refused submission: any
\* other sleep ends when the next sync is due.
THEOREM SleepBounded == Spec => []SleepsToEpoch
<1>1. IInv => SleepsToEpoch
  BY DEF IInv
<1> QED
  BY Invariant, <1>1, PTL

\* A refused submission is not tried again before a new block is fetched.
THEOREM RefusedOnce == Spec => []RefusedOncePerBlock
<1>1. IInv => RefusedOncePerBlock
  BY DEF IInv, RefusalsCounted, RefusedOncePerBlock
<1> QED
  BY Invariant, <1>1, PTL
================================================================================
