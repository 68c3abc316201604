-------------------------------- MODULE Rule30 --------------------------------
(***************************************************************************)
(* The automaton on bit strings.  A row is the set of its live bits; bit p *)
(* of a step's row depends on bits p, p-1 and p-2 of the row before, so    *)
(* the pattern moves right by one cell per step and its centre is at bit   *)
(* `step`.  The validator checks it by bytes (verify_result), the miner    *)
(* computes it by words (Solver); a number is the set of its live bits.    *)
(***************************************************************************)
EXTENDS Integers, Sequences

LiveAfter_Mirrored(live, p) == (p - 2 \in live) # (p - 1 \in live \/ p \in live)

\* x ^ (x << 1 | x << 2): the left neighbours are or-ed.
LiveAfter(live, p) == (p \in live) # (p - 1 \in live \/ p - 2 \in live)

\* The first bytes of a buffer are evolved in place, the others keep their
\* value.
EvolveBytes(live, bytes) ==
    {p \in 0 .. 8 * bytes - 1 : LiveAfter(live, p)}
        \cup {p \in live : p >= 8 * bytes}

-------------------------------------------------------------------------------
\* By bytes and by words

RowByte(live, i) == {b \in 0 .. 7 : 8 * i + b \in live}

\* x ^ (x << 1 | x << 2 | last >> bits - 1 | last >> bits - 2)
Evolved(x, last, bits) ==
    LET left == {b \in 0 .. bits - 1 : b - 1 \in x \/ b - 2 \in x}
        right == {b \in 0 .. bits - 1 : b + bits - 1 \in last \/ b + bits - 2 \in last}
    IN  {b \in 0 .. bits - 1 : (b \in x) # (b \in left \cup right)}

\* verify_result: the answer expected for some bytes after byte `last`.
Expected(bytes, last) ==
    [i \in DOMAIN bytes |->
        Evolved(bytes[i], IF i = 1 THEN last ELSE bytes[i - 1], 8)]

LastWord_Low(last, word) == last

\* Solver::new: last_byte in the top byte of a word of `word` bytes.
LastWord(last, word) == {8 * (word - 1) + b : b \in last}

\* Solver::solve, on the words that hold the bytes.
Solve(bytes, last, word) ==
    LET Word(k) == {b \in 0 .. 8 * word - 1 :
                       LET i == word * k + b \div 8 + 1
                       IN  i \in DOMAIN bytes /\ b % 8 \in bytes[i]}
        Result(k) == Evolved(Word(k), IF k = 0 THEN LastWord(last, word) ELSE Word(k - 1),
                             8 * word)
    IN  [i \in DOMAIN bytes |-> RowByte(Result((i - 1) \div word), (i - 1) % word)]

-------------------------------------------------------------------------------
\* The reference: Rule 30 on an infinite line of cells, from one live cell at
\* 0.  A cell lives next if its left neighbour differs from (it or its right
\* neighbour).
Line[n \in Nat] ==
    IF n = 0 THEN {0}
    ELSE LET line == Line[n - 1]
         IN  {c \in -n .. n :
                 (c - 1 \in line) # (c \in line \/ c + 1 \in line)}

\* The row of step n as a bit string: cell c is bit n - c.
RowOfStep(n) == {n - c : c \in Line[n]}

\* The steps before n whose centre cell lives.
CentreBefore(n) == {s \in 0 .. n - 1 : 0 \in Line[s]}
==============================================================================
