--------------------------------- MODULE Epoch ---------------------------------
(***************************************************************************)
(* The validator's loop against the chain: run, the head of do_step and    *)
(* sync.  It decides from blocks alone when weights are submitted, when    *)
(* the metagraph is read again and how long a validator without miners     *)
(* sleeps.  What a step computes is the subject of WorkPool.               *)
(*                                                                         *)
(* Time is counted in blocks of 12 s; a block is made while the validator  *)
(* is anywhere in its loop.                                                *)
(***************************************************************************)
EXTENDS Integers

CONSTANTS EpochLength,   \* config::EPOCH_LENGTH
          U32,           \* 2^32: block numbers are subtracted modulo it
          StartBlock,    \* block at which the process starts
          MaxBlock,      \* bound: no block is made after it
          FinalityLag    \* bound: blocks the fetched block may be behind

ASSUME EpochAssumption ==
    /\ EpochLength \in Nat \ {0}
    /\ StartBlock \in Nat /\ FinalityLag \in Nat
    /\ MaxBlock \in Nat /\ MaxBlock >= StartBlock
    /\ U32 \in Nat /\ U32 > MaxBlock /\ U32 > EpochLength

VARIABLES
    \* the chain
    clock,          \* number of its last block
    pool,           \* a submission of ours waits for a block
    updates,        \* our last_update in the state at each block
    \* the validator
    pc,             \* where in run, do_step or sync it is
    block,          \* current_block.number()
    fetchedAt,      \* last_block_fetch
    attempted,      \* attempted_set_weights
    lastUpdate,     \* last_update of neurons[uid]
    connected,      \* worker_connections is not empty
    elapsed,        \* elapsed_blocks, local to do_step
    shouldSleep,    \* should_sleep, local to do_step
    wakeAt,         \* end of the current sleep
    \* history
    sinceSubmit,    \* blocks since the last accepted submission, counted up to
                    \* EpochLength (which also stands for "none yet")
    refusals        \* refused submissions since the last fetched block

chainVars == <<clock, pool, updates>>
stepVars == <<elapsed, shouldSleep, wakeAt>>
history == <<sinceSubmit, refusals>>
vars == <<chainVars, pc, block, fetchedAt, attempted, lastUpdate, connected,
          stepVars, history>>

\* u32 subtraction of a release build
Minus(a, b) == (a - b) % U32

\* What blocks().at_latest() may answer: it lags behind, but never goes back.
Latest == {b \in block .. clock : b >= clock - FinalityLag}

Init ==
    /\ clock = StartBlock
    /\ pool = FALSE
    /\ updates \in [{StartBlock} -> 0 .. StartBlock]
    /\ pc = "loop"
    /\ block = StartBlock
    /\ fetchedAt = StartBlock
    /\ attempted = FALSE
    /\ lastUpdate = updates[StartBlock]
    /\ connected \in BOOLEAN
    /\ elapsed = 0
    /\ shouldSleep = FALSE
    /\ wakeAt = 0
    /\ sinceSubmit = EpochLength
    /\ refusals = 0

-------------------------------------------------------------------------------
\* In the state at the next block our last_update is `last`.
NextUpdate(last) ==
    updates' = [b \in StartBlock .. clock + 1 |->
                   IF b <= clock THEN updates[b] ELSE last]

\* The chain makes a block.  A waiting submission stays in the pool, sets
\* last_update, or fails in the block (the rate limit).
MakeBlock ==
    /\ clock < MaxBlock
    /\ clock' = clock + 1
    /\ sinceSubmit' = IF sinceSubmit < EpochLength THEN sinceSubmit + 1
                      ELSE EpochLength
    /\ \/ /\ UNCHANGED pool
          /\ NextUpdate(updates[clock])
       \/ /\ pool
          /\ pool' = FALSE
          /\ NextUpdate(updates[clock]) \/ NextUpdate(clock + 1)
    /\ UNCHANGED <<pc, block, fetchedAt, attempted, lastUpdate, connected,
                   stepVars, refusals>>

-------------------------------------------------------------------------------
\* run

\* More than 12 s since the last fetch.
FetchBlock ==
    /\ pc = "loop"
    /\ clock > fetchedAt
    /\ block' \in Latest
    /\ fetchedAt' = clock
    /\ attempted' = FALSE
    /\ refusals' = 0
    /\ pc' = "step"
    /\ UNCHANGED <<chainVars, lastUpdate, connected, stepVars, sinceSubmit>>

\* At most 12 s: the cached block is used again.
KeepBlock ==
    /\ pc = "loop"
    /\ clock - fetchedAt <= 1
    /\ pc' = "step"
    /\ UNCHANGED <<chainVars, block, fetchedAt, attempted, lastUpdate,
                   connected, stepVars, history>>

\* should_restart: exit(1), and the process is started again (Validator::new).
Restart ==
    /\ pc = "loop"
    /\ clock > fetchedAt
    /\ block' \in Latest
    /\ fetchedAt' = clock
    /\ attempted' = FALSE
    /\ lastUpdate' = updates[block']
    /\ connected' \in BOOLEAN
    /\ refusals' = 0
    /\ UNCHANGED <<chainVars, pc, stepVars, sinceSubmit>>

\* Any other error ends run, and Drop joins the worker threads: they wait on
\* channels whose senders the validator still holds, and never end.
FetchFails ==
    /\ pc = "loop"
    /\ clock > fetchedAt
    /\ pc' = "joining"
    /\ UNCHANGED <<chainVars, block, fetchedAt, attempted, lastUpdate,
                   connected, stepVars, history>>

-------------------------------------------------------------------------------
\* do_step and sync

SyncDue_Eager == Minus(block, lastUpdate) >= EpochLength

SyncDue == ~attempted /\ Minus(block, lastUpdate) >= EpochLength

NoSync ==
    /\ pc = "step"
    /\ ~SyncDue
    /\ elapsed' = Minus(block, lastUpdate)
    /\ shouldSleep' = TRUE
    /\ pc' = "connections"
    /\ UNCHANGED <<chainVars, block, fetchedAt, attempted, lastUpdate,
                   connected, wakeAt, history>>

SubmitRefused ==
    /\ pc = "step"
    /\ SyncDue
    /\ attempted' = TRUE
    /\ refusals' = refusals + 1
    /\ elapsed' = 0
    /\ shouldSleep' = FALSE
    /\ pc' = "connections"
    /\ UNCHANGED <<chainVars, block, fetchedAt, lastUpdate, connected, wakeAt,
                   sinceSubmit>>

SubmitAccepted_Remember ==
    /\ pc = "step"
    /\ SyncDue
    /\ pool' = TRUE
    /\ sinceSubmit' = 0
    /\ lastUpdate' = block
    /\ pc' = "metagraph"
    /\ UNCHANGED <<clock, updates, block, fetchedAt, attempted, connected,
                   stepVars, refusals>>

\* The pool takes the weights; their block is not awaited.
SubmitAccepted ==
    /\ pc = "step"
    /\ SyncDue
    /\ pool' = TRUE
    /\ sinceSubmit' = 0
    /\ pc' = "metagraph"
    /\ UNCHANGED <<clock, updates, block, fetchedAt, attempted, lastUpdate,
                   connected, stepVars, refusals>>

MetagraphBlock_Head == clock

\* The runtime API is called at the reference of the cached block.
MetagraphBlock == block

\* The metagraph is read; then miners are connected to.
ReadMetagraph ==
    /\ pc = "metagraph"
    /\ lastUpdate' = updates[MetagraphBlock]
    /\ connected' \in BOOLEAN
    /\ elapsed' = 0
    /\ shouldSleep' = TRUE
    /\ pc' = "connections"
    /\ UNCHANGED <<chainVars, block, fetchedAt, attempted, wakeAt, history>>

\* save_state or the runtime call fails: do_step returns the error.
MetagraphFails ==
    /\ pc = "metagraph"
    /\ pc' = "loop"
    /\ UNCHANGED <<chainVars, block, fetchedAt, attempted, lastUpdate,
                   connected, stepVars, history>>

\* Our hotkey is gone: the panic drops the validator, which joins its threads.
Deregistered ==
    /\ pc = "metagraph"
    /\ pc' = "joining"
    /\ UNCHANGED <<chainVars, block, fetchedAt, attempted, lastUpdate,
                   connected, stepVars, history>>

\* do_step returns; its locals are gone.
Return == pc' = "loop" /\ elapsed' = 0 /\ shouldSleep' = FALSE

\* Rows are evolved, which may take any time and lose any connection.
Evolve ==
    /\ pc = "connections"
    /\ connected
    /\ connected' \in BOOLEAN
    /\ Return
    /\ UNCHANGED <<chainVars, block, fetchedAt, attempted, lastUpdate,
                   wakeAt, history>>

SleepBlocks_Elapsed == elapsed

SleepBlocks == Minus(EpochLength, elapsed)

SleepUntilEpoch ==
    /\ pc = "connections"
    /\ ~connected
    /\ shouldSleep
    /\ wakeAt' = clock + SleepBlocks
    /\ pc' = "sleep"
    /\ UNCHANGED <<chainVars, block, fetchedAt, attempted, lastUpdate,
                   connected, elapsed, shouldSleep, history>>

RetryAtOnce ==
    /\ pc = "connections"
    /\ ~connected
    /\ ~shouldSleep
    /\ Return
    /\ UNCHANGED <<chainVars, block, fetchedAt, attempted, lastUpdate,
                   connected, wakeAt, history>>

Wake ==
    /\ pc = "sleep"
    /\ clock >= wakeAt
    /\ wakeAt' = 0
    /\ Return
    /\ UNCHANGED <<chainVars, block, fetchedAt, attempted, lastUpdate,
                   connected, history>>

-------------------------------------------------------------------------------
Next ==
    \/ MakeBlock
    \/ FetchBlock \/ KeepBlock \/ Restart \/ FetchFails
    \/ NoSync \/ SubmitRefused \/ SubmitAccepted
    \/ ReadMetagraph \/ MetagraphFails \/ Deregistered
    \/ Evolve \/ SleepUntilEpoch \/ RetryAtOnce \/ Wake

Spec == Init /\ [][Next]_vars

-------------------------------------------------------------------------------
\* Type invariant.
TypeOK ==
    /\ clock \in StartBlock .. MaxBlock
    /\ pool \in BOOLEAN
    /\ updates \in [StartBlock .. clock -> 0 .. clock]
    /\ pc \in {"loop", "step", "metagraph", "connections", "sleep", "joining"}
    /\ block \in StartBlock .. clock
    /\ fetchedAt \in StartBlock .. clock
    /\ attempted \in BOOLEAN
    /\ lastUpdate \in {updates[b] : b \in StartBlock .. block}
    /\ connected \in BOOLEAN
    /\ elapsed \in 0 .. U32 - 1
    /\ shouldSleep \in BOOLEAN
    /\ wakeAt \in Nat
    /\ sinceSubmit \in 0 .. EpochLength
    /\ refusals \in Nat

\* The cached last_update never lies beyond the cached block, whatever block
\* includes a submission while the validator works: the subtraction in run and
\* in do_step does not wrap.
NoUnderflow == lastUpdate <= block

\* A validator without miners that was not refused sleeps until its next sync is
\* due, and no longer than an epoch.
SleepsToEpoch ==
    pc = "sleep" /\ ~attempted =>
        /\ wakeAt >= lastUpdate + EpochLength
        /\ wakeAt <= clock + EpochLength

\* A submission that was refused is tried again with the next fetched block, not
\* in every turn of the loop.
RefusedOncePerBlock == refusals <= 1

\* "No connections available, sleeping for {blocks} to resync": the sleep leads
\* to a sync, an epoch later at most.
SleepsToResync == pc = "sleep" => wakeAt <= clock + EpochLength

\* "EPOCH_LENGTH=100 # Interval length to sync metagraph or set weights": an
\* epoch passes between two accepted submissions.
SubmitsOncePerEpoch ==
    [][SubmitAccepted => sinceSubmit = EpochLength]_vars
===============================================================================
