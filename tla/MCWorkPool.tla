------------------------------ MODULE MCWorkPool ------------------------------
(***************************************************************************)
(* Bounded instances of WorkPool for TLC.  Steps 6 and 7 evolve 2 and 3    *)
(* bytes; a GrowBy of 8 makes the row grow between them in some runs.      *)
(***************************************************************************)
EXTENDS WorkPool

NoMiner == {}
FirstMiner == {0}
AllMiners == Uid
===============================================================================
