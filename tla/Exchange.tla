-------------------------------- MODULE Exchange --------------------------------
(***************************************************************************)
(* What a connection to a miner promises the worker thread that uses it,   *)
(* and what WorkPool takes for granted: the bytes of a request are         *)
(* answered from first to last, each once, any number at a time; the next  *)
(* request begins when the last byte was answered; a connection that       *)
(* failed answers nothing more.                                            *)
(***************************************************************************)
EXTENDS Naturals

CONSTANT Lengths   \* the lengths a request may have

VARIABLES phase,    \* "idle", "asked" or "closed"
          length,   \* of the request
          answered  \* how many of its bytes were answered

vars == <<phase, length, answered>>

Init == phase = "idle" /\ length = 0 /\ answered = 0

Ask == /\ phase = "idle"
       /\ phase' = "asked"
       /\ length' \in Lengths
       /\ answered' = 0

Answer == /\ phase = "asked"
          /\ answered' \in answered + 1 .. length
          /\ phase' = IF answered' = length THEN "idle" ELSE "asked"
          /\ UNCHANGED length

\* Nothing is taken back: what was answered stays counted.
GiveUp == /\ phase = "asked"
          /\ phase' = "closed"
          /\ UNCHANGED <<length, answered>>

Next == Ask \/ Answer \/ GiveUp

Spec == Init /\ [][Next]_vars
===============================================================================
