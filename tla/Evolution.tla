------------------------------ MODULE Evolution ------------------------------
(***************************************************************************)
(* What the validator's step loop promises, with the miners, the threads   *)
(* and the channels left out: a step takes every byte of the row as work,  *)
(* accounts for each of them once, in any order and in pieces of any size, *)
(* and only then moves to the next step.                                   *)
(***************************************************************************)
EXTENDS RowLayout

CONSTANTS InitStep,      \* the step the validator starts from
          MaxStep        \* bound: the model stops when it is reached

VARIABLES step, evolving, pending

vars == <<step, evolving, pending>>

Init == /\ step = InitStep
        /\ evolving = FALSE
        /\ pending = {}

\* A step starts: all bytes of the row are pending.
Begin == /\ ~evolving
         /\ step < MaxStep
         /\ evolving' = TRUE
         /\ pending' = 0 .. ByteCount(step) - 1
         /\ UNCHANGED step

\* Some pending bytes are evolved and accounted for.
Settle == /\ evolving
          /\ \E done \in SUBSET pending : /\ done # {}
                                          /\ pending' = pending \ done
          /\ UNCHANGED <<step, evolving>>

\* Nothing is pending any more: the step is over.
Advance == /\ evolving
           /\ pending = {}
           /\ evolving' = FALSE
           /\ step' = step + 1
           /\ UNCHANGED pending

Next == Begin \/ Settle \/ Advance

Spec == Init /\ [][Next]_vars
==============================================================================
