--------------------------- MODULE RowLayout_proofs ---------------------------
(***************************************************************************)
(* The buffers sized by RowLayout are large enough for what do_step reads  *)
(* and writes in them, whatever the step and GROW_BY.                      *)
(***************************************************************************)
EXTENDS RowLayout, TLAPS

LEMMA CeilDivNat ==
    ASSUME NEW a \in Nat, NEW b \in Nat \ {0}
    PROVE  CeilDiv(a, b) \in Nat
BY DEF CeilDiv

\* step_to_grow_to returns a step beyond the given one, so that allocating for
\* it leaves room for the row being computed.
THEOREM GrowsBeyond ==
    ASSUME NEW step \in Nat
    PROVE  StepToGrowTo(step) \in Nat /\ StepToGrowTo(step) > step
<1>1. step + 1 \in Nat /\ (step + 1) % GrowBy \in 0 .. GrowBy - 1
  BY GrowByAssumption
<1> QED
  BY <1>1, GrowByAssumption DEF StepToGrowTo

LEMMA ByteCountNat ==
    ASSUME NEW step \in Nat
    PROVE  ByteCount(step) \in Nat /\ ByteCount(step) > 0
BY DEF ByteCount, CeilDiv, ByteBits

\* The row is resized to current_row_file_size(step) bytes before byte_count of
\* them are split into chunks: no chunk reaches past the end of the row.
THEOREM RowLargeEnough ==
    ASSUME NEW step \in Nat
    PROVE  CurrentRowSize(step) \in Nat /\ ByteCount(step) <= CurrentRowSize(step)
BY GrowsBeyond DEF ByteCount, CurrentRowSize, CeilDiv, ByteBits

\* The byte that holds the centre bit of the step exists in the row, among the
\* bytes the step evolves, and in the resized centre column.
THEOREM CenterInside ==
    ASSUME NEW step \in Nat
    PROVE  /\ CenterByte(step) \in 0 .. ByteCount(step) - 1
           /\ CenterByte(step) < CenterColumnSize(step)
BY GrowsBeyond DEF ByteCount, CenterByte, CenterColumnSize, CeilDiv, ByteBits
===============================================================================
