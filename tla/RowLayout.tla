------------------------------ MODULE RowLayout ------------------------------
(***************************************************************************)
(* Sizes of the two bit strings the validator evolves: the current row of  *)
(* the automaton (bit i of byte i \div 8) and the centre column (bit s for *)
(* row s).  Row s has 2s+1 significant bits; step s computes row s from    *)
(* row s-1.  All of this is arithmetic on u64 in validator/mod.rs.         *)
(***************************************************************************)
EXTENDS Integers

CONSTANT GrowBy          \* GROW_BY: rows are allocated for a multiple of it

ASSUME GrowByAssumption == GrowBy \in Nat \ {0}

ByteBits == 8            \* u8::BITS

\* u64::div_ceil
CeilDiv(a, b) == (a + b - 1) \div b

\* Validator::step_to_grow_to: the first multiple of GrowBy above step.
StepToGrowTo(step) ==
    LET next == step + 1
        over == next % GrowBy
    IN  IF over = 0 THEN next ELSE next - over + GrowBy

\* Validator::current_row_file_size
CurrentRowSize(step) == CeilDiv(StepToGrowTo(step) * 2 + 1, ByteBits)

\* Validator::center_column_file_size
CenterColumnSize(step) == CeilDiv(StepToGrowTo(step), ByteBits)

\* byte_count of do_step: the bytes of the row that step evolves.
ByteCount(step) == CeilDiv(step * 2 + 3, ByteBits)

\* The byte of row and column that holds the centre bit of step.
CenterByte(step) == step \div ByteBits
==============================================================================
