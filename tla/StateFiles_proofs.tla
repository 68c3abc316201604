---------------------------- MODULE StateFiles_proofs ----------------------------
(***************************************************************************)
(* save_state and the restarts, for any number of steps, failures and      *)
(* deaths.  The order of the three files keeps them consistent in one      *)
(* direction (Invariant); the buffers are well formed and what save_state  *)
(* has written is what is in memory (MemInv); as long as nothing failed    *)
(* the bits are those of Rule 30, in memory and on disk (BitInv).  Between *)
(* them: Rule 30 on a line of cells is what EvolveBytes does to a row, and *)
(* the miner's words compute what the validator's bytes do.                *)
(***************************************************************************)
EXTENDS StateFiles, RowLayout_proofs, FiniteSetTheorems, WellFoundedInduction, TLAPS

\* data.json is one text at most; one of another version was there before
\* anything was published.
JsonTells ==
    /\ \A j, k \in disk.json : j = k
    /\ \A j \in disk.json : j.whole => j.step \in Nat
    /\ \A j \in disk.json : j.whole /\ ~j.current => published = 0
    /\ disk.json = Missing => published = 0
    /\ StepNeverBack

\* The step in memory is not behind the one that was published.
MemoryNotBehind ==
    /\ step \in Nat /\ published \in Nat
    /\ pc # "down" => step >= published

WrittenFor(f) == disk[f] # Missing /\ \A b \in disk[f] : b.of >= step

\* Where save_state is: what it has left behind is written for this step.
Progress ==
    /\ pc \in {"down", "idle", "create", "write"}
    /\ pc \in {"create", "write"} =>
          /\ file \in {"row", "column", "json"}
          /\ file \in {"column", "json"} => WrittenFor("row")
          /\ file = "json" => WrittenFor("column")

DiskShape ==
    disk = [row |-> disk.row, column |-> disk.column, json |-> disk.json]

\* The inductive invariant.
IInv ==
    DiskShape /\ JsonTells /\ MemoryNotBehind /\ Progress /\ FilesNotBehind

-------------------------------------------------------------------------------
\* The order of the files, spelled out.
LEMMA Order ==
    ASSUME NextFile
    PROVE  \/ file = "row" /\ file' = "column" /\ pc' = "create"
           \/ file = "column" /\ file' = "json" /\ pc' = "create"
           \/ file = "json" /\ pc' = "idle"
BY DEF NextFile, SaveOrder

\* save_state begins with the row.
LEMMA SaveBegins == SaveState => pc' = "create" /\ file' = "row"
BY DEF SaveState, SaveOrder

\* A process that starts loads the step that was published last, or step 1.
LEMMA Loaded ==
    ASSUME JsonTells, published \in Nat, Loads(disk.json)
    PROVE  LoadedStep(disk.json) \in Nat /\ LoadedStep(disk.json) >= published
<1>1. CASE \E j \in disk.json : j.whole /\ j.current
  <2>1. PICK j \in disk.json : j.whole /\ j.current
    BY <1>1
  <2>2. (CHOOSE k \in disk.json : TRUE) = j
    <3>1. (CHOOSE k \in disk.json : TRUE) \in disk.json
      BY <2>1
    <3> QED
      BY <2>1, <3>1 DEF JsonTells
  <2>3. LoadedStep(disk.json) = j.step
    BY <1>1, <2>2 DEF LoadedStep
  <2> QED
    BY <2>1, <2>3 DEF JsonTells, StepNeverBack
<1>2. CASE ~ \E j \in disk.json : j.whole /\ j.current
  <2>1. LoadedStep(disk.json) = 1
    BY <1>2 DEF LoadedStep
  <2>2. published = 0
    <3>1. CASE disk.json = {}
      BY <3>1 DEF JsonTells, Missing
    <3>2. CASE \E j \in disk.json : TRUE
      BY <1>2, <3>2 DEF JsonTells, Loads
    <3> QED
      BY <3>1, <3>2
  <2> QED
    BY <2>1, <2>2
<1> QED
  BY <1>1, <1>2

\* An outdated data.json is the only one, so no file is behind it.
LEMMA NothingCurrent ==
    ASSUME JsonTells, Outdated
    PROVE  \A j \in disk.json : j.whole /\ ~j.current
BY DEF JsonTells, Outdated

-------------------------------------------------------------------------------
\* The inductive invariant holds at the start.
LEMMA Initially == Init => IInv
<1> SUFFICES ASSUME Init PROVE IInv
  OBVIOUS
<1>1. /\ DiskShape
      /\ \A j, k \in disk.json : j = k
      /\ \A j \in disk.json : j.step = 4 /\ j.whole /\ ~j.current
  <2>1. CASE disk = [row |-> Missing, column |-> Missing, json |-> Missing]
    BY <2>1 DEF DiskShape, Missing
  <2>2. CASE disk = [row |-> {Bytes(2, {9}, 0)}, column |-> {Bytes(1, {3}, 0)},
                     json |-> {Json(TRUE, 4, FALSE)}]
    <3>1. DiskShape /\ disk.json = {Json(TRUE, 4, FALSE)}
      BY <2>2 DEF DiskShape
    <3>2. /\ Json(TRUE, 4, FALSE).step = 4
          /\ Json(TRUE, 4, FALSE).whole /\ ~Json(TRUE, 4, FALSE).current
      BY DEF Json
    <3> QED
      BY <3>1, <3>2
  <2> QED
    BY <2>1, <2>2 DEF Init
<1>2. JsonTells
  BY <1>1 DEF Init, JsonTells, StepNeverBack
<1>3. FilesNotBehind
  BY <1>1 DEF FilesNotBehind
<1> QED
  BY <1>1, <1>2, <1>3 DEF Init, IInv, MemoryNotBehind, Progress

\* Steps that leave the files alone.
LEMMA FilesAlone ==
    ASSUME IInv, UNCHANGED <<disk, published>>
    PROVE  DiskShape' /\ JsonTells' /\ FilesNotBehind'
BY DEF IInv, DiskShape, JsonTells, StepNeverBack, FilesNotBehind

\* A file is only rewritten by a save_state, for the step in memory, which the
\* published step is not ahead of.
LEMMA Rewritten ==
    ASSUME IInv, NEW f \in {"row", "column"}, NEW len, NEW live, pc # "down",
           disk' = [disk EXCEPT ![f] = {Bytes(len, live, step)}],
           UNCHANGED <<step, published>>
    PROVE  /\ DiskShape' /\ JsonTells' /\ FilesNotBehind'
           /\ WrittenFor(f)'
           /\ \A g \in {"row", "column"} : WrittenFor(g) => WrittenFor(g)'
<1>1. /\ disk'.json = disk.json
      /\ DiskShape'
      /\ disk'[f] = {Bytes(len, live, step)}
      /\ \A g \in {"row", "column"} : g # f => disk'[g] = disk[g]
  BY DEF IInv, DiskShape
<1>2. Bytes(len, live, step).of = step /\ step \in Nat
  BY DEF Bytes, IInv, MemoryNotBehind
<1>3. WrittenFor(f)'
  BY <1>1, <1>2 DEF WrittenFor, Missing
<1>4. \A g \in {"row", "column"} : WrittenFor(g) => WrittenFor(g)'
  BY <1>1, <1>3 DEF WrittenFor
<1>5. JsonTells'
  BY <1>1 DEF IInv, JsonTells, StepNeverBack
<1>6. FilesNotBehind'
  <2> SUFFICES ASSUME NEW j \in disk.json, j.whole /\ j.current
               PROVE  /\ \A g \in {"row", "column"} :
                            /\ \A b \in disk'[g] : b.of >= j.step
                            /\ disk'[g] # Missing
    BY <1>1 DEF FilesNotBehind
  <2>1. j.step <= step
    BY DEF IInv, JsonTells, StepNeverBack, MemoryNotBehind
  <2> QED
    BY <1>1, <1>2, <2>1 DEF IInv, FilesNotBehind, Missing
<1> QED
  BY <1>1, <1>3, <1>4, <1>5, <1>6

\* Every step keeps the inductive invariant.
LEMMA Inductive == IInv /\ [Next]_vars => IInv'
<1> SUFFICES ASSUME IInv, [Next]_vars PROVE IInv'
  OBVIOUS
<1>1. CASE DiscardRow \/ DiscardColumn
  <2>1. /\ DiskShape' /\ disk'.json = disk.json
        /\ Outdated
        /\ pc = "down" /\ UNCHANGED <<pc, step, published>>
    BY <1>1 DEF DiscardRow, DiscardColumn, IInv, DiskShape, memory, history
  <2>2. JsonTells'
    BY <2>1 DEF IInv, JsonTells, StepNeverBack
  <2>3. FilesNotBehind'
    BY <2>1, NothingCurrent DEF IInv, FilesNotBehind
  <2> QED
    BY <2>1, <2>2, <2>3 DEF IInv, MemoryNotBehind, Progress
<1>2. CASE Start
  <2>1. /\ pc' = "idle" /\ UNCHANGED <<disk, published>>
        /\ step' = LoadedStep(disk.json) /\ Loads(disk.json)
    BY <1>2 DEF Start
  <2>2. MemoryNotBehind'
    BY <2>1, Loaded DEF IInv, MemoryNotBehind
  <2> QED
    BY <2>1, <2>2, FilesAlone DEF IInv, Progress
<1>3. CASE DoStep \/ SyncSave
  <2>1. /\ pc' = "create" /\ file' = "row" /\ UNCHANGED <<disk, published>>
        /\ pc = "idle" /\ (step' = step + 1 \/ step' = step)
    BY <1>3, SaveBegins DEF DoStep, SyncSave, memory
  <2> QED
    BY <2>1, FilesAlone DEF IInv, MemoryNotBehind, Progress
<1>4. CASE CreateFile
  <2>0. /\ pc = "create" /\ pc' = "write"
        /\ UNCHANGED <<file, step, published>>
        /\ file \in {"row", "column", "json"}
    BY <1>4 DEF CreateFile, IInv, Progress, memory, history
  <2>1. CASE file \in {"row", "column"}
    <3>1. disk' = [disk EXCEPT ![file] = {Bytes(0, {}, step)}]
      BY <1>4, <2>1 DEF CreateFile
    <3>2. /\ DiskShape' /\ JsonTells' /\ FilesNotBehind'
          /\ \A g \in {"row", "column"} : WrittenFor(g) => WrittenFor(g)'
      BY <2>0, <2>1, <3>1, Rewritten
    <3> QED
      BY <2>0, <3>2 DEF IInv, MemoryNotBehind, Progress
  <2>2. CASE file = "json"
    <3>1. disk' = [disk EXCEPT !.json = {Json(FALSE, 0, TRUE)}]
      BY <1>4, <2>2 DEF CreateFile
    <3>2. /\ DiskShape' /\ disk'.json = {Json(FALSE, 0, TRUE)}
          /\ disk'.row = disk.row /\ disk'.column = disk.column
      BY <3>1 DEF IInv, DiskShape
    <3>3. /\ disk'.json # Missing /\ \A j, k \in disk'.json : j = k
          /\ \A j \in disk'.json : ~j.whole
      BY <3>2 DEF Json, Missing
    <3>4. JsonTells' /\ FilesNotBehind'
      BY <3>3 DEF JsonTells, StepNeverBack, FilesNotBehind
    <3> QED
      BY <2>0, <2>2, <3>2, <3>4
         DEF IInv, MemoryNotBehind, Progress, WrittenFor
  <2> QED
    BY <2>0, <2>1, <2>2
<1>5. CASE WriteRow \/ WriteColumn
  <2>1. PICK f, live, size, len :
          f \in {"row", "column"} /\ WriteBytes(f, live, size, len)
    BY <1>5 DEF WriteRow, WriteColumn
  <2>2. /\ f \in {"row", "column"} /\ pc = "write" /\ file = f
        /\ disk' = [disk EXCEPT ![f] = {Bytes(len, Prefix(live, len), step)}]
        /\ UNCHANGED <<step, published>>
        /\ NextFile \/ UNCHANGED <<pc, file>>
    BY <2>1 DEF WriteBytes, memory
  <2>3. /\ DiskShape' /\ JsonTells' /\ FilesNotBehind'
        /\ WrittenFor(f)'
        /\ \A g \in {"row", "column"} : WrittenFor(g) => WrittenFor(g)'
    BY <2>2, Rewritten
  <2>4. \/ f = "row" /\ file' = "column" /\ pc' = "create"
        \/ f = "column" /\ file' = "json" /\ pc' = "create"
        \/ UNCHANGED <<pc, file>>
    BY <2>2, Order
  <2>5. Progress'
    BY <2>2, <2>3, <2>4 DEF IInv, Progress
  <2> QED
    BY <2>2, <2>3, <2>4, <2>5 DEF IInv, MemoryNotBehind
<1>6. CASE WriteJson
  <2>1. /\ pc = "write" /\ file = "json" /\ pc' = "idle"
        /\ disk' = [disk EXCEPT !.json = {Json(TRUE, step, TRUE)}]
        /\ step' = step /\ step \in Nat /\ published' = step
    BY <1>6, Order
       DEF WriteJson, StepToSave, memory, IInv, MemoryNotBehind
  <2>2. /\ DiskShape' /\ disk'.json = {Json(TRUE, step, TRUE)}
        /\ disk'.row = disk.row /\ disk'.column = disk.column
    BY <2>1 DEF IInv, DiskShape
  <2>3. JsonTells'
    <3>1. /\ disk'.json # Missing /\ \A j, k \in disk'.json : j = k
          /\ \A j \in disk'.json : j.current /\ j.step = step
      BY <2>2 DEF Json, Missing
    <3> QED
      BY <2>1, <3>1 DEF JsonTells, StepNeverBack
  <2>4. FilesNotBehind'
    BY <2>1, <2>2 DEF IInv, Progress, WrittenFor, FilesNotBehind, Json
  <2> QED
    BY <2>1, <2>2, <2>3, <2>4 DEF IInv, MemoryNotBehind, Progress
<1>7. CASE SaveFails
  BY <1>7, FilesAlone DEF SaveFails, IInv, MemoryNotBehind, Progress, memory
<1>8. CASE Crash
  BY <1>8, FilesAlone DEF Crash, IInv, MemoryNotBehind, Progress
<1>9. CASE UNCHANGED vars
  BY <1>9, FilesAlone
     DEF IInv, MemoryNotBehind, Progress, WrittenFor, vars, memory, history
<1> QED
  BY <1>1, <1>2, <1>3, <1>4, <1>5, <1>6, <1>7, <1>8, <1>9 DEF Next

-------------------------------------------------------------------------------
\* The inductive invariant holds in every reachable state.
THEOREM Invariant == Spec => []IInv
BY Initially, Inductive, PTL DEF Spec

\* However often save_state fails or the process dies, the row and the column
\* on disk were written for the step data.json tells, or for a later one.
THEOREM NeverBehind == Spec => []FilesNotBehind
<1>1. IInv => FilesNotBehind
  BY DEF IInv
<1> QED
  BY Invariant, <1>1, PTL

\* The step a data.json tells is the highest that was ever published.
THEOREM NeverBack == Spec => []StepNeverBack
<1>1. IInv => StepNeverBack
  BY DEF IInv, JsonTells
<1> QED
  BY Invariant, <1>1, PTL

-------------------------------------------------------------------------------
\* Rule 30.  NatLessThanWellFounded stands for induction.

\* A set of naturals that is not empty has a least element.
LEMMA LeastNat ==
    ASSUME NEW T \in SUBSET Nat, T # {}
    PROVE  \E m \in T : \A n \in T : m <= n
<1>1. PICK m \in T : \A n \in T : <<n, m>> \notin OpToRel(<, Nat)
  BY NatLessThanWellFounded, WFMin, Zenon
<1>2. \A n \in T : ~(n < m)
  BY <1>1, Zenon DEF OpToRel
<1> QED
  BY <1>2

\* The line after a line.
LineAfter(n, line) ==
    {c \in -n .. n : (c - 1 \in line) # (c \in line \/ c + 1 \in line)}

\* The first lines, up to n.
Lines(g, n) ==
    /\ g \in [0 .. n -> SUBSET Int]
    /\ g[0] = {0}
    /\ \A i \in 1 .. n : g[i] = LineAfter(i, g[i - 1])

\* There are lines of Rule 30 up to every step,
LEMMA LinesExist == \A n \in Nat : \E g : Lines(g, n)
<1> DEFINE T == {n \in Nat : ~ \E g : Lines(g, n)}
<1> SUFFICES ASSUME T # {} PROVE FALSE
  OBVIOUS
<1>1. PICK n \in T : \A m \in T : n <= m
  BY LeastNat
<1>2. n \in Nat /\ ~ \E g : Lines(g, n)
  OBVIOUS
<1>3. n # 0
  <2>1. [i \in 0 .. 0 |-> {0}] \in [0 .. 0 -> SUBSET Int]
    OBVIOUS
  <2>2. Lines([i \in 0 .. 0 |-> {0}], 0)
    BY <2>1 DEF Lines
  <2> QED
    BY <1>2, <2>2
<1>4. n - 1 \in Nat /\ ~(n <= n - 1)
  BY <1>2, <1>3
<1>5. n - 1 \notin T
  BY <1>1, <1>4
<1>6. PICK g : Lines(g, n - 1)
  BY <1>4, <1>5
<1> DEFINE h == [i \in 0 .. n |-> IF i = n THEN LineAfter(n, g[n - 1]) ELSE g[i]]
<1>7. Lines(h, n)
  <2>1. g \in [0 .. n - 1 -> SUBSET Int]
    BY <1>6 DEF Lines
  <2>2. LineAfter(n, g[n - 1]) \in SUBSET Int
    BY <1>2 DEF LineAfter
  <2>3. h \in [0 .. n -> SUBSET Int]
    BY <1>2, <2>1, <2>2
  <2>4. h[0] = {0}
    BY <1>2, <1>3, <1>6 DEF Lines
  <2>5. ASSUME NEW i \in 1 .. n PROVE h[i] = LineAfter(i, h[i - 1])
    <3>1. i - 1 \in 0 .. n /\ i - 1 # n /\ i \in 0 .. n
      BY <1>2
    <3>2. h[i - 1] = g[i - 1]
      BY <3>1
    <3>3. CASE i = n
      BY <3>1, <3>2, <3>3
    <3>4. CASE i # n
      <4>1. i \in 1 .. n - 1
        BY <1>2, <3>4
      <4>2. g[i] = LineAfter(i, g[i - 1])
        BY <4>1, <1>6 DEF Lines
      <4> QED
        BY <3>1, <3>2, <3>4, <4>2
    <3> QED
      BY <3>3, <3>4
  <2> HIDE DEF h
  <2> QED
    BY <2>3, <2>4, <2>5 DEF Lines
<1> QED
  BY <1>2, <1>7

\* they agree,
LEMMA LinesAgree ==
    ASSUME NEW m \in Nat, NEW n \in Nat, NEW g, NEW h, Lines(g, m), Lines(h, n),
           NEW k \in Nat, k <= m, k <= n
    PROVE  g[k] = h[k]
<1> DEFINE T == {i \in 0 .. k : g[i] # h[i]}
<1> SUFFICES ASSUME T # {} PROVE FALSE
  OBVIOUS
<1>1. T \in SUBSET Nat
  OBVIOUS
<1>2. PICK i \in T : \A j \in T : i <= j
  BY <1>1, LeastNat
<1>3. i \in 0 .. k /\ g[i] # h[i]
  OBVIOUS
<1>4. i # 0
  BY <1>3 DEF Lines
<1>5. i - 1 \in 0 .. k /\ ~(i <= i - 1) /\ i \in 1 .. m /\ i \in 1 .. n
  BY <1>3, <1>4
<1>6. g[i - 1] = h[i - 1]
  BY <1>2, <1>5
<1>7. g[i] = LineAfter(i, g[i - 1]) /\ h[i] = LineAfter(i, h[i - 1])
  BY <1>5 DEF Lines
<1> QED
  BY <1>3, <1>6, <1>7

\* The recursive function is the one its definition asks for.
LEMMA LineIs ==
    /\ Line[0] = {0}
    /\ \A n \in Nat \ {0} : Line[n] = LineAfter(n, Line[n - 1])
<1> DEFINE of(n) == CHOOSE g : Lines(g, n)
           F == [n \in Nat |-> of(n)[n]]
           Body(f) == [n \in Nat |->
                          IF n = 0 THEN {0}
                          ELSE {c \in -n .. n :
                                  (c - 1 \in f[n - 1]) # (c \in f[n - 1] \/ c + 1 \in f[n - 1])}]
<1>1. \A n \in Nat : Lines(of(n), n)
  BY LinesExist
<1> HIDE DEF of
<1>2. F[0] = {0}
  BY <1>1 DEF Lines
<1>3. ASSUME NEW n \in Nat \ {0} PROVE F[n] = LineAfter(n, F[n - 1])
  <2>1. n - 1 \in Nat /\ n \in Nat /\ n \in 1 .. n /\ n - 1 <= n
    OBVIOUS
  <2>2. of(n)[n] = LineAfter(n, of(n)[n - 1])
    BY <1>1, <2>1 DEF Lines
  <2>3. of(n)[n - 1] = of(n - 1)[n - 1]
    BY <1>1, <2>1, LinesAgree
  <2> QED
    BY <2>1, <2>2, <2>3
<1>4. F = Body(F)
  <2>1. \A n \in Nat : F[n] = Body(F)[n]
    BY <1>2, <1>3 DEF LineAfter
  <2>2. F = [n \in Nat |-> F[n]] /\ Body(F) = [n \in Nat |-> Body(F)[n]]
    OBVIOUS
  <2> QED
    BY <2>1, <2>2
<1> HIDE DEF F
<1>5. Line = CHOOSE f : f = Body(f)
  BY DEF Line
<1> HIDE DEF Body
<1>6. Line = Body(Line)
  BY <1>4, <1>5, Zenon
<1> QED
  BY <1>6 DEF LineAfter, Body

\* and n steps from one live cell reach n cells.
LEMMA LineWithin == \A n \in Nat : Line[n] \in SUBSET (-n .. n)
<1> TAKE n \in Nat
<1>1. CASE n = 0
  BY <1>1, LineIs
<1>2. CASE n # 0
  BY <1>2, LineIs DEF LineAfter
<1> QED
  BY <1>1, <1>2

\* The bits of a row are the cells of the line, mirrored.
LEMMA RowBits ==
    ASSUME NEW n \in Nat
    PROVE  /\ RowOfStep(n) \in SUBSET (0 .. 2 * n)
           /\ \A p \in Int : p \in RowOfStep(n) <=> n - p \in Line[n]
<1>1. Line[n] \in SUBSET (-n .. n)
  BY LineWithin
<1>2. \A c \in Line[n] : c \in Int /\ -n <= c /\ c <= n /\ n - c \in 0 .. 2 * n /\ n - (n - c) = c
  BY <1>1
<1>3. RowOfStep(n) \in SUBSET (0 .. 2 * n)
  BY <1>2 DEF RowOfStep
<1>4. ASSUME NEW p \in Int PROVE p \in RowOfStep(n) <=> n - p \in Line[n]
  <2>1. ASSUME p \in RowOfStep(n) PROVE n - p \in Line[n]
    <3>1. PICK c \in Line[n] : p = n - c
      BY <2>1 DEF RowOfStep
    <3> QED
      BY <1>2, <3>1
  <2>2. ASSUME n - p \in Line[n] PROVE p \in RowOfStep(n)
    <3>1. p = n - (n - p)
      OBVIOUS
    <3> QED
      BY <2>2, <3>1 DEF RowOfStep
  <2> QED
    BY <2>1, <2>2
<1> QED
  BY <1>3, <1>4

\* Evolving enough bytes of a row gives the row of the next step.
LEMMA RowEvolves ==
    ASSUME NEW s \in Nat \ {0}, NEW bytes \in Nat, 2 * s < 8 * bytes
    PROVE  EvolveBytes(RowOfStep(s - 1), bytes) = RowOfStep(s)
<1> DEFINE old == RowOfStep(s - 1)
           new == RowOfStep(s)
           line == Line[s - 1]
<1>1. s - 1 \in Nat /\ s \in Nat
  OBVIOUS
<1>2. /\ old \in SUBSET (0 .. 2 * (s - 1)) /\ new \in SUBSET (0 .. 2 * s)
      /\ \A p \in Int : p \in old <=> (s - 1) - p \in line
      /\ \A p \in Int : p \in new <=> s - p \in Line[s]
  BY <1>1, RowBits
<1>3. Line[s] = LineAfter(s, line)
  BY LineIs
<1> HIDE DEF old, new, line
<1>4. ASSUME NEW p \in 0 .. 2 * s
      PROVE  p \in new <=> LiveAfter(old, p)
  <2>1. s - p \in -s .. s
    BY <1>1
  <2>2. p \in new <=> ((s - p) - 1 \in line) # (s - p \in line \/ (s - p) + 1 \in line)
    BY <1>2, <1>3, <2>1 DEF LineAfter
  <2>3. /\ (s - p) - 1 = (s - 1) - p
        /\ s - p = (s - 1) - (p - 1)
        /\ (s - p) + 1 = (s - 1) - (p - 2)
        /\ p \in Int /\ p - 1 \in Int /\ p - 2 \in Int
    BY <1>1
  <2>4. /\ p \in old <=> (s - p) - 1 \in line
        /\ p - 1 \in old <=> s - p \in line
        /\ p - 2 \in old <=> (s - p) + 1 \in line
    BY <1>2, <2>3
  <2> QED
    BY <2>2, <2>4 DEF LiveAfter
<1>5. ASSUME NEW p \in Int, p > 2 * s
      PROVE  ~LiveAfter(old, p) /\ p \notin old
  <2>1. p > 2 * (s - 1) /\ p - 1 > 2 * (s - 1) /\ p - 2 > 2 * (s - 1)
    BY <1>1, <1>5
  <2>2. p \notin old /\ p - 1 \notin old /\ p - 2 \notin old
    BY <1>1, <1>2, <2>1
  <2> QED
    BY <2>2 DEF LiveAfter
<1>6. ASSUME NEW p \in Int
      PROVE  p \in EvolveBytes(old, bytes) <=> p \in new
  <2>1. CASE p \in 0 .. 2 * s
    <3>1. p \in 0 .. 8 * bytes - 1 /\ ~(p >= 8 * bytes)
      BY <1>1, <2>1
    <3> QED
      BY <1>4, <2>1, <3>1 DEF EvolveBytes
  <2>2. CASE p > 2 * s
    <3>1. p \notin new
      BY <1>1, <1>2, <2>2
    <3> QED
      BY <1>5, <2>2, <3>1 DEF EvolveBytes
  <2>3. CASE p < 0
    <3>1. p \notin new /\ p \notin 0 .. 8 * bytes - 1 /\ p \notin old
      BY <1>1, <1>2, <2>3
    <3> QED
      BY <3>1 DEF EvolveBytes
  <2> QED
    BY <1>1, <2>1, <2>2, <2>3
<1>7. new \in SUBSET Int /\ old \in SUBSET Int
  BY <1>1, <1>2
<1>8. \A p \in EvolveBytes(old, bytes) : p \in Int
  BY <1>7 DEF EvolveBytes
<1> QED
  BY <1>6, <1>7, <1>8 DEF old, new

\* The centre cell of a step is at bit `step`.
LEMMA CentreEvolves ==
    ASSUME NEW s \in Nat \ {0}
    PROVE  CentreBefore(s + 1) = CentreBefore(s) \cup ({s} \cap RowOfStep(s))
<1>1. s \in RowOfStep(s) <=> 0 \in Line[s]
  BY RowBits
<1>2. 0 .. (s + 1) - 1 = (0 .. s - 1) \cup {s}
  OBVIOUS
<1> QED
  BY <1>1, <1>2 DEF CentreBefore

\* Step 1 begins with one live cell.
LEMMA FirstRow ==
    /\ RowOfStep(0) = {0} /\ CentreBefore(1) = {0}
    /\ RowOfStep(1) \in SUBSET (0 .. 7) /\ CentreBefore(2) \in SUBSET (0 .. 7)
<1>1. RowOfStep(0) = {0}
  BY LineIs DEF RowOfStep
<1>2. CentreBefore(1) = {0}
  BY LineIs DEF CentreBefore
<1>3. RowOfStep(1) \in SUBSET (0 .. 7)
  <2>1. RowOfStep(1) \in SUBSET (0 .. 2 * 1)
    BY RowBits
  <2>2. 0 .. 2 * 1 \in SUBSET (0 .. 7)
    OBVIOUS
  <2> QED
    BY <2>1, <2>2
<1>4. CentreBefore(2) \in SUBSET (0 .. 7)
  BY DEF CentreBefore
<1> QED
  BY <1>1, <1>2, <1>3, <1>4

-------------------------------------------------------------------------------
\* The miner's words against the validator's bytes.

\* Quotient and remainder.
LEMMA DivMod ==
    ASSUME NEW n \in Nat, NEW d \in Nat, d > 0
    PROVE  /\ n \div d \in Nat /\ n % d \in 0 .. d - 1
           /\ n = d * (n \div d) + (n % d)
BY Z3

\* The byte and the bit of a position.
LEMMA BitOfByte ==
    ASSUME NEW r \in Nat, NEW b \in 0 .. 7
    PROVE  (8 * r + b) \div 8 = r /\ (8 * r + b) % 8 = b
OBVIOUS

WordOf(bytes, word, k) ==
    {b \in 0 .. 8 * word - 1 :
        LET i == word * k + b \div 8 + 1
        IN  i \in DOMAIN bytes /\ b % 8 \in bytes[i]}

\* The word before: a word of the bytes, or the one that Solver::new made.
WordBefore(bytes, last, word, k) ==
    IF k = 0 THEN LastWord(last, word) ELSE WordOf(bytes, word, k - 1)

\* A bit of a word is a bit of one of its bytes.
LEMMA WordBit ==
    ASSUME NEW word \in Nat \ {0}, NEW k \in Nat, NEW bytes, NEW r \in 0 .. word - 1, NEW b \in 0 .. 7
    PROVE  8 * r + b \in WordOf(bytes, word, k)
              <=> word * k + r + 1 \in DOMAIN bytes /\ b \in bytes[word * k + r + 1]
<1>1. 8 * r + b \in 0 .. 8 * word - 1
  OBVIOUS
<1>2. (8 * r + b) \div 8 = r /\ (8 * r + b) % 8 = b
  BY BitOfByte
<1> QED
  BY <1>1, <1>2 DEF WordOf

\* The last bits of a word are those of its last byte.
LEMMA LastBit ==
    ASSUME NEW word \in Nat \ {0}, NEW last \in SUBSET (0 .. 7), NEW b \in 0 .. 7
    PROVE  8 * (word - 1) + b \in LastWord(last, word) <=> b \in last
<1>1. ASSUME NEW c \in last, 8 * (word - 1) + b = 8 * (word - 1) + c PROVE b = c
  <2>1. c \in Int
    OBVIOUS
  <2> QED
    BY <1>1, <2>1
<1> QED
  BY <1>1 DEF LastWord

\* Bit b of byte i of the bytes, where the byte before the first is `last` and
\* the bits before a byte's are those of the byte before.
Bit(bytes, last, i, b) ==
    IF b >= 0 THEN b \in bytes[i]
    ELSE b + 8 \in (IF i = 1 THEN last ELSE bytes[i - 1])

\* A bit that Solver shifts in from the right place: the same word, or the top
\* of the word before.
LEMMA ShiftedBit ==
    ASSUME NEW word \in Nat \ {0}, NEW n \in Nat, NEW bytes \in [1 .. n -> SUBSET (0 .. 7)],
           NEW last \in SUBSET (0 .. 7), NEW k \in Nat, NEW r \in 0 .. word - 1,
           word * k + r + 1 <= n, NEW b \in 0 .. 7, NEW x \in 1 .. 2
    PROVE  (\/ (8 * r + b) - x \in WordOf(bytes, word, k)
            \/ (8 * r + b) + 8 * word - x \in WordBefore(bytes, last, word, k))
           <=> Bit(bytes, last, word * k + r + 1, b - x)
<1> DEFINE i == word * k + r + 1
           q == 8 * r + b
<1>1. word * k \in Nat
  OBVIOUS
<1>2. i \in 1 .. n /\ q \in 0 .. 8 * word - 1
  BY <1>1
<1>3. CASE b >= x
  <2>1. b - x \in 0 .. 7 /\ q - x = 8 * r + (b - x)
    BY <1>3
  <2>2. q - x \in WordOf(bytes, word, k) <=> b - x \in bytes[i]
    BY <1>2, <2>1, WordBit
  <2>3. q + 8 * word - x \notin WordBefore(bytes, last, word, k)
    <3>1. q + 8 * word - x >= 8 * word /\ q + 8 * word - x \in Int
      BY <1>2, <1>3
    <3>2. \A p \in WordOf(bytes, word, k - 1) \cup LastWord(last, word) : p < 8 * word
      <4>1. \A p \in WordOf(bytes, word, k - 1) : p < 8 * word
        BY DEF WordOf
      <4>2. \A p \in LastWord(last, word) : p < 8 * word
        BY DEF LastWord
      <4> QED
        BY <4>1, <4>2
    <3> QED
      BY <3>1, <3>2 DEF WordBefore
  <2>4. Bit(bytes, last, i, b - x) <=> b - x \in bytes[i]
    BY <2>1 DEF Bit
  <2> QED
    BY <2>2, <2>3, <2>4
<1>4. CASE b < x /\ r > 0
  <2>1. /\ r - 1 \in 0 .. word - 1 /\ (b - x) + 8 \in 0 .. 7
        /\ q - x = 8 * (r - 1) + ((b - x) + 8) /\ ~(b - x >= 0)
    BY <1>4
  <2>2. word * k + (r - 1) + 1 = i - 1 /\ i - 1 \in 1 .. n /\ i # 1
    BY <1>1, <1>2, <1>4
  <2>3. q - x \in WordOf(bytes, word, k) <=> (b - x) + 8 \in bytes[i - 1]
    BY <2>1, <2>2, WordBit
  <2>4. q + 8 * word - x \notin WordBefore(bytes, last, word, k)
    <3>1. q + 8 * word - x >= 8 * word /\ q + 8 * word - x \in Int
      BY <1>2, <1>4
    <3>2. \A p \in WordOf(bytes, word, k - 1) \cup LastWord(last, word) : p < 8 * word
      <4>1. \A p \in WordOf(bytes, word, k - 1) : p < 8 * word
        BY DEF WordOf
      <4>2. \A p \in LastWord(last, word) : p < 8 * word
        BY DEF LastWord
      <4> QED
        BY <4>1, <4>2
    <3> QED
      BY <3>1, <3>2 DEF WordBefore
  <2>5. Bit(bytes, last, i, b - x) <=> (b - x) + 8 \in bytes[i - 1]
    BY <2>1, <2>2 DEF Bit
  <2> QED
    BY <2>3, <2>4, <2>5
<1>5. CASE b < x /\ r = 0
  <2>1. /\ (b - x) + 8 \in 0 .. 7 /\ ~(b - x >= 0) /\ q - x < 0
        /\ q + 8 * word - x = 8 * (word - 1) + ((b - x) + 8)
    BY <1>5
  <2>2. q - x \notin WordOf(bytes, word, k)
    BY <2>1 DEF WordOf
  <2>3. CASE k = 0
    <3>1. i = 1
      BY <1>5, <2>3
    <3>2. Bit(bytes, last, i, b - x) <=> (b - x) + 8 \in last
      BY <2>1, <3>1 DEF Bit
    <3>3. q + 8 * word - x \in LastWord(last, word) <=> (b - x) + 8 \in last
      BY <2>1, LastBit
    <3> QED
      BY <2>2, <2>3, <3>2, <3>3 DEF WordBefore
  <2>4. CASE k > 0
    <3>1. k - 1 \in Nat /\ word - 1 \in 0 .. word - 1 /\ word * (k - 1) = word * k - word
      BY <2>4
    <3>2. word * (k - 1) + (word - 1) + 1 = word * k
      BY <1>1, <3>1
    <3>3. word * k = i - 1 /\ i # 1 /\ i - 1 \in 1 .. n
      <4>1. word * (k - 1) >= 0
        BY <3>1
      <4>2. word * k >= word
        BY <1>1, <3>1, <4>1
      <4> QED
        BY <1>1, <1>2, <1>5, <4>2
    <3>4. q + 8 * word - x \in WordOf(bytes, word, k - 1) <=> (b - x) + 8 \in bytes[i - 1]
      BY <2>1, <3>1, <3>2, <3>3, WordBit
    <3>5. Bit(bytes, last, i, b - x) <=> (b - x) + 8 \in bytes[i - 1]
      BY <2>1, <3>3 DEF Bit
    <3> QED
      BY <2>2, <2>4, <3>4, <3>5 DEF WordBefore
  <2> QED
    BY <2>3, <2>4
<1> QED
  BY <1>3, <1>4, <1>5

\* The bit that both sides compute, from the byte and the bits before it.
NextBit(bytes, last, i, b) ==
    (b \in bytes[i]) # (Bit(bytes, last, i, b - 1) \/ Bit(bytes, last, i, b - 2))

\* A bit of Evolved.
EvolvedAt(x, last, bits, b) ==
    (b \in x) # (\/ (b - 1 \in x \/ b + bits - 1 \in last)
                 \/ (b - 2 \in x \/ b + bits - 2 \in last))

\* A bit of an evolved word,
LEMMA EvolvedBit ==
    ASSUME NEW x, NEW last, NEW bits \in Nat, NEW b \in 0 .. bits - 1
    PROVE  b \in Evolved(x, last, bits) <=> EvolvedAt(x, last, bits, b)
<1> DEFINE left == {c \in 0 .. bits - 1 : c - 1 \in x \/ c - 2 \in x}
           right == {c \in 0 .. bits - 1 : c + bits - 1 \in last \/ c + bits - 2 \in last}
<1>1. Evolved(x, last, bits) = {c \in 0 .. bits - 1 : (c \in x) # (c \in left \cup right)}
  BY DEF Evolved
<1>2. b \in left <=> (b - 1 \in x \/ b - 2 \in x)
  OBVIOUS
<1>3. b \in right <=> (b + bits - 1 \in last \/ b + bits - 2 \in last)
  OBVIOUS
<1> HIDE DEF left, right
<1>4. b \in Evolved(x, last, bits) <=> (b \in x) # (b \in left \/ b \in right)
  BY <1>1
<1> QED
  BY <1>2, <1>3, <1>4 DEF EvolvedAt

\* of what verify_result expects,
LEMMA ExpectedBit ==
    ASSUME NEW n \in Nat, NEW bytes \in [1 .. n -> SUBSET (0 .. 7)],
           NEW last \in SUBSET (0 .. 7), NEW i \in 1 .. n, NEW b \in 0 .. 7
    PROVE  b \in Expected(bytes, last)[i] <=> NextBit(bytes, last, i, b)
<1> DEFINE before == IF i = 1 THEN last ELSE bytes[i - 1]
<1>1. Expected(bytes, last)[i] = Evolved(bytes[i], before, 8)
  BY DEF Expected
<1>2. bytes[i] \in SUBSET (0 .. 7)
  OBVIOUS
<1>3. before \in SUBSET (0 .. 7)
  <2>1. CASE i = 1
    BY <2>1
  <2>2. CASE i # 1
    <3>1. i - 1 \in 1 .. n
      BY <2>2
    <3> QED
      BY <2>2, <3>1
  <2> QED
    BY <2>1, <2>2
<1>4. \A x \in 1 .. 2 : Bit(bytes, last, i, b - x) <=> (b - x \in bytes[i] \/ b + 8 - x \in before)
  <2> TAKE x \in 1 .. 2
  <2>1. CASE b - x >= 0
    <3>1. b + 8 - x \notin before
      BY <1>3, <2>1
    <3> QED
      BY <2>1, <3>1 DEF Bit
  <2>2. CASE ~(b - x >= 0)
    <3>1. b - x \notin bytes[i] /\ (b - x) + 8 = b + 8 - x
      BY <1>2, <2>2
    <3> QED
      BY <2>2, <3>1 DEF Bit
  <2> QED
    BY <2>1, <2>2
<1> HIDE DEF before
<1>5. b \in Evolved(bytes[i], before, 8) <=> EvolvedAt(bytes[i], before, 8, b)
  <2>1. b \in 0 .. 8 - 1
    OBVIOUS
  <2> QED
    BY <2>1, EvolvedBit
<1>6. /\ Bit(bytes, last, i, b - 1) <=> (b - 1 \in bytes[i] \/ b + 8 - 1 \in before)
      /\ Bit(bytes, last, i, b - 2) <=> (b - 2 \in bytes[i] \/ b + 8 - 2 \in before)
  BY <1>4
<1> QED
  BY <1>1, <1>5, <1>6 DEF NextBit, EvolvedAt

\* and of what the miner solves.
LEMMA SolvedBit ==
    ASSUME NEW word \in Nat \ {0}, NEW n \in Nat, NEW bytes \in [1 .. n -> SUBSET (0 .. 7)],
           NEW last \in SUBSET (0 .. 7), NEW i \in 1 .. n, NEW b \in 0 .. 7
    PROVE  b \in Solve(bytes, last, word)[i] <=> NextBit(bytes, last, i, b)
<1> DEFINE k == (i - 1) \div word
           r == (i - 1) % word
           q == 8 * r + b
           this == WordOf(bytes, word, k)
           before == WordBefore(bytes, last, word, k)
<1>1. k \in Nat /\ r \in 0 .. word - 1 /\ i - 1 = word * k + r
  BY DivMod
<1>2. Solve(bytes, last, word)[i] = RowByte(Evolved(this, before, 8 * word), r)
  BY DEF Solve, WordOf, WordBefore
<1> HIDE DEF k, r
<1>3. word * k + r + 1 = i /\ word * k \in Nat
  BY <1>1
<1>4. b \in Solve(bytes, last, word)[i] <=> q \in Evolved(this, before, 8 * word)
  BY <1>2 DEF RowByte
<1>5. q \in this <=> b \in bytes[i]
  BY <1>1, <1>3, WordBit
<1>6. \A x \in 1 .. 2 : (q - x \in this \/ q + 8 * word - x \in before) <=> Bit(bytes, last, i, b - x)
  <2> TAKE x \in 1 .. 2
  <2>1. word * k + r + 1 <= n
    BY <1>3
  <2>2. (q - x \in this \/ q + 8 * word - x \in before)
           <=> Bit(bytes, last, word * k + r + 1, b - x)
    BY <1>1, <2>1, ShiftedBit
  <2> QED
    BY <1>3, <2>2
<1>7. q \in 0 .. 8 * word - 1
  BY <1>1
<1> HIDE DEF q, this, before
<1>8. q \in Evolved(this, before, 8 * word) <=> EvolvedAt(this, before, 8 * word, q)
  <2>1. 8 * word \in Nat
    OBVIOUS
  <2> QED
    BY <1>7, <2>1, EvolvedBit
<1> DEFINE shifted(x) == q - x \in this \/ q + 8 * word - x \in before
<1>9. EvolvedAt(this, before, 8 * word, q) <=> (q \in this) # (shifted(1) \/ shifted(2))
  BY DEF EvolvedAt
<1>10. \A x \in 1 .. 2 : shifted(x) <=> Bit(bytes, last, i, b - x)
  BY <1>6
<1> HIDE DEF shifted
<1>11. /\ shifted(1) <=> Bit(bytes, last, i, b - 1)
       /\ shifted(2) <=> Bit(bytes, last, i, b - 2)
  BY <1>10
<1> QED
  BY <1>4, <1>5, <1>8, <1>9, <1>11 DEF NextBit

\* Solver::solve gives the bytes that verify_result expects, whatever the bytes,
\* the byte before them and the size of the words.
LEMMA SolveIsExpected ==
    ASSUME NEW word \in Nat \ {0}, NEW n \in Nat, NEW bytes \in [1 .. n -> SUBSET (0 .. 7)],
           NEW last \in SUBSET (0 .. 7)
    PROVE  Solve(bytes, last, word) = Expected(bytes, last)
<1>1. ASSUME NEW i \in 1 .. n
      PROVE  Solve(bytes, last, word)[i] = Expected(bytes, last)[i]
  <2>1. /\ \A b \in Solve(bytes, last, word)[i] : b \in 0 .. 7
        /\ \A b \in Expected(bytes, last)[i] : b \in 0 .. 7
    <3>1. \A x, l : \A b \in Evolved(x, l, 8) : b \in 0 .. 7
      BY DEF Evolved
    <3>2. \A x, j : \A b \in RowByte(x, j) : b \in 0 .. 7
      BY DEF RowByte
    <3> QED
      BY <3>1, <3>2 DEF Solve, Expected
  <2>2. \A b \in 0 .. 7 : b \in Solve(bytes, last, word)[i] <=> b \in Expected(bytes, last)[i]
    BY SolvedBit, ExpectedBit
  <2> QED
    BY <2>1, <2>2
<1>2. /\ Solve(bytes, last, word) = [i \in 1 .. n |-> Solve(bytes, last, word)[i]]
      /\ Expected(bytes, last) = [i \in 1 .. n |-> Expected(bytes, last)[i]]
  BY DEF Solve, Expected
<1> QED
  BY <1>1, <1>2

\* What verify_result expects for bytes of a row are the bytes of the next row.
LEMMA ExpectedIsNext ==
    ASSUME NEW live \in SUBSET Nat, NEW m \in Nat, NEW from \in 0 .. m - 1, NEW to \in from + 1 .. m,
           NEW i \in 1 .. to - from
    PROVE  LET chunk == [j \in 1 .. to - from |-> RowByte(live, from + j - 1)]
               last == IF from = 0 THEN {} ELSE RowByte(live, from - 1)
           IN  Expected(chunk, last)[i] = RowByte(EvolveBytes(live, m), from + i - 1)
<1> DEFINE n == to - from
           chunk == [j \in 1 .. n |-> RowByte(live, from + j - 1)]
           last == IF from = 0 THEN {} ELSE RowByte(live, from - 1)
           at == from + i - 1
<1>1. n \in Nat /\ chunk \in [1 .. n -> SUBSET (0 .. 7)] /\ last \in SUBSET (0 .. 7)
  BY DEF RowByte
<1>2. chunk[i] = RowByte(live, at)
  OBVIOUS
<1>3. (IF i = 1 THEN last ELSE chunk[i - 1])
         = (IF at = 0 THEN {} ELSE RowByte(live, at - 1))
  <2>1. CASE i = 1
    BY <2>1
  <2>2. CASE i # 1
    <3>1. i - 1 \in 1 .. n /\ from + (i - 1) - 1 = at - 1 /\ at # 0
      BY <2>2
    <3>2. chunk[i - 1] = RowByte(live, from + (i - 1) - 1)
      BY <3>1
    <3> QED
      BY <2>2, <3>1, <3>2
  <2> QED
    BY <2>1, <2>2
<1>4. at \in 0 .. m - 1
  OBVIOUS
<1> HIDE DEF n, chunk, last, at
<1>5. \A b \in 0 .. 7, x \in 1 .. 2 : Bit(chunk, last, i, b - x) <=> 8 * at + b - x \in live
  <2> TAKE b \in 0 .. 7, x \in 1 .. 2
  <2>1. CASE b - x >= 0
    <3>1. b - x \in 0 .. 7 /\ 8 * at + (b - x) = 8 * at + b - x
      BY <1>4, <2>1
    <3>2. b - x \in RowByte(live, at) <=> 8 * at + (b - x) \in live
      BY <3>1 DEF RowByte
    <3> QED
      BY <1>2, <2>1, <3>1, <3>2 DEF Bit
  <2>2. CASE ~(b - x >= 0)
    <3>1. Bit(chunk, last, i, b - x) <=> (b - x) + 8 \in (IF at = 0 THEN {} ELSE RowByte(live, at - 1))
      BY <1>3, <2>2 DEF Bit
    <3>2. CASE at = 0
      <4>1. 8 * at + b - x < 0
        BY <2>2, <3>2
      <4> QED
        BY <3>1, <3>2, <4>1
    <3>3. CASE at # 0
      <4>1. (b - x) + 8 \in 0 .. 7 /\ 8 * (at - 1) + ((b - x) + 8) = 8 * at + b - x
        BY <1>4, <2>2
      <4>2. (b - x) + 8 \in RowByte(live, at - 1) <=> 8 * (at - 1) + ((b - x) + 8) \in live
        BY <4>1 DEF RowByte
      <4> QED
        BY <3>1, <3>3, <4>1, <4>2
    <3> QED
      BY <3>2, <3>3
  <2> QED
    BY <2>1, <2>2
<1>6. ASSUME NEW b \in 0 .. 7
      PROVE  b \in Expected(chunk, last)[i] <=> b \in RowByte(EvolveBytes(live, m), at)
  <2> DEFINE p == 8 * at + b
  <2>1. b \in Expected(chunk, last)[i] <=> NextBit(chunk, last, i, b)
    <3>1. i \in 1 .. n
      BY DEF n
    <3> QED
      BY <1>1, <3>1, ExpectedBit
  <2>2. /\ Bit(chunk, last, i, b - 1) <=> p - 1 \in live
        /\ Bit(chunk, last, i, b - 2) <=> p - 2 \in live
    <3>1. 1 \in 1 .. 2 /\ 2 \in 1 .. 2
      OBVIOUS
    <3>2. 8 * at + b - 1 = p - 1 /\ 8 * at + b - 2 = p - 2
      BY <1>4
    <3> HIDE DEF p
    <3> QED
      BY <1>5, <3>1, <3>2
  <2>3. b \in chunk[i] <=> p \in live
    BY <1>2 DEF RowByte
  <2>4. b \in RowByte(EvolveBytes(live, m), at) <=> p \in EvolveBytes(live, m)
    BY DEF RowByte
  <2>5. p \in 0 .. 8 * m - 1 /\ ~(p >= 8 * m)
    BY <1>4
  <2> HIDE DEF p
  <2>6. p \in EvolveBytes(live, m) <=> LiveAfter(live, p)
    BY <2>5 DEF EvolveBytes
  <2> QED
    BY <2>1, <2>2, <2>3, <2>4, <2>6 DEF NextBit, LiveAfter
<1>7. /\ \A b \in Expected(chunk, last)[i] : b \in 0 .. 7
      /\ \A b \in RowByte(EvolveBytes(live, m), at) : b \in 0 .. 7
  <2>1. Expected(chunk, last)[i] = Evolved(chunk[i], IF i = 1 THEN last ELSE chunk[i - 1], 8)
    BY <1>1 DEF Expected, n
  <2>2. \A x, l : \A b \in Evolved(x, l, 8) : b \in 0 .. 7
    BY DEF Evolved
  <2> QED
    BY <2>1, <2>2 DEF RowByte
<1>8. Expected(chunk, last)[i] = RowByte(EvolveBytes(live, m), at)
  BY <1>6, <1>7
<1> QED
  BY <1>8 DEF chunk, last, at, n

-------------------------------------------------------------------------------
\* What is in memory and on disk.

InBuffer(live, len) == len \in Nat /\ live \in SUBSET (0 .. 8 * len - 1)

FileShape(f) ==
    /\ \A b, c \in disk[f] : b = c
    /\ \A b \in disk[f] : /\ b = Bytes(b.len, b.live, b.of)
                          /\ InBuffer(b.live, b.len) /\ b.of \in Nat

JsonsShaped(texts) ==
    \A j \in texts :
        /\ j = Json(j.whole, j.step, j.current)
        /\ j.whole \in BOOLEAN /\ j.step \in Nat /\ j.current \in BOOLEAN
        /\ j.whole /\ j.current => j.step \in 1 .. MaxStep

JsonShape == JsonsShaped(disk.json)

Memory ==
    /\ step \in 0 .. MaxStep /\ (pc # "down" => step > 0)
    /\ InBuffer(row, rowLen) /\ InBuffer(column, columnLen)

Control ==
    /\ file \in {"none", "row", "column", "json"}
    /\ file = "none" <=> pc \in {"down", "idle"}
    /\ saved \in BOOLEAN /\ (saved => pc = "idle")
    /\ crashes \in Nat /\ errors \in Nat

\* Before step 1 only the first bit of the first byte lives.
FirstByte ==
    pc # "down" /\ step = 1 => row \cap (0 .. 7) = {0} /\ column \cap (0 .. 7) = {0}

\* What save_state has written is what is in memory.
Written ==
    /\ file \in {"column", "json"} => disk.row = {Bytes(rowLen, row, step)}
    /\ file = "json" => disk.column = {Bytes(columnLen, column, step)}
    /\ saved => /\ disk.row = {Bytes(rowLen, row, step)}
                /\ disk.column = {Bytes(columnLen, column, step)}
                /\ disk.json = {Json(TRUE, step, TRUE)}

MemInv == Memory /\ Control /\ FileShape("row") /\ FileShape("column") /\ JsonShape
            /\ FirstByte /\ Written

-------------------------------------------------------------------------------
\* What the bits are.

Right == row = RowOfStep(step - 1) /\ column = CentreBefore(step)

MemoryIsRight ==
    pc # "down" /\ errors = 0 /\ (crashes = 0 \/ step = 1) => Right

\* The next process begins with step 1, or could.
Early == \A j \in disk.json : j.whole /\ (j.current => j.step = 1)

\* As long as it does, all bits are in the first byte, which step 1 overrules.
EarlyBits ==
    errors = 0 /\ Early =>
        /\ step <= 2 /\ (pc = "idle" => step = 1)
        /\ pc # "down" => row \in SUBSET (0 .. 7) /\ column \in SUBSET (0 .. 7)
        /\ ~Outdated => \A b \in disk.row \cup disk.column : b.live \in SUBSET (0 .. 7)

\* Without a mishap the files are right between two save_states.
DiskIsRight ==
    errors = 0 /\ crashes = 0 /\ ~Unfinished =>
        \A j \in disk.json :
            /\ j.whole
            /\ j.current => /\ \E b \in disk.row : b.live = RowOfStep(j.step - 1)
                            /\ \E b \in disk.column : b.live = CentreBefore(j.step)

BitInv == MemoryIsRight /\ EarlyBits /\ DiskIsRight /\ BitsServed

\* The sizes of row and column hold what a step needs.
LEMMA SizesEnough ==
    ASSUME NEW s \in Nat
    PROVE  /\ ByteCount(s) \in Nat /\ CurrentRowSize(s) \in Nat
           /\ ByteCount(s) > 0 /\ ByteCount(s) <= CurrentRowSize(s) /\ 2 * s < 8 * ByteCount(s)
           /\ CenterColumnSize(s) \in Nat /\ s < 8 * CenterColumnSize(s)
<1>1. 2 * s < 8 * ByteCount(s)
  BY DEF ByteCount, CeilDiv, ByteBits
<1>2. CenterColumnSize(s) \in Nat /\ s < 8 * CenterColumnSize(s)
  BY GrowsBeyond DEF CenterColumnSize, CeilDiv, ByteBits
<1> QED
  BY <1>1, <1>2, ByteCountNat, RowLargeEnough

\* What is in a larger buffer.
LEMMA Above ==
    ASSUME NEW a \in Nat, NEW b \in Nat, NEW c \in Nat, a >= b, b >= c
    PROVE  a >= c
OBVIOUS

\* A bit of a byte within a buffer.
LEMMA BitInside ==
    ASSUME NEW s \in Nat, NEW n \in Nat, NEW m \in Nat, m >= n, s < 8 * n
    PROVE  s < 8 * m /\ s \in 0 .. 8 * m - 1
OBVIOUS

\* A JSON text.
LEMMA JsonFields ==
    ASSUME NEW w \in BOOLEAN, NEW s, NEW c \in BOOLEAN
    PROVE  Json(w, s, c).whole = w /\ Json(w, s, c).step = s /\ Json(w, s, c).current = c
BY DEF Json

\* The text saved for a step of the row is well shaped.
LEMMA JsonOne ==
    ASSUME NEW w \in BOOLEAN, NEW s \in Nat, NEW c \in BOOLEAN, w /\ c => s \in 1 .. MaxStep
    PROVE  JsonsShaped({Json(w, s, c)})
<1> DEFINE j == Json(w, s, c)
<1>1. j.whole = w /\ j.step = s /\ j.current = c
  BY JsonFields
<1>2. j = Json(j.whole, j.step, j.current)
  BY DEF Json
<1> HIDE DEF j
<1> QED
  BY <1>1, <1>2 DEF JsonsShaped, j

\* A buffer that has grown holds what it held.
LEMMA GrownEnough ==
    ASSUME NEW len \in Nat, NEW size \in Nat
    PROVE  Grown(len, size) \in Nat /\ Grown(len, size) >= len /\ Grown(len, size) >= size
BY DEF Grown

\* What a partial write leaves.
LEMMA PrefixIs ==
    ASSUME NEW live, NEW len, InBuffer(live, len), NEW k \in Nat
    PROVE  InBuffer(Prefix(live, k), k) /\ Prefix(live, len) = live
<1>1. len \in Nat /\ \A p \in live : p \in Int /\ 0 <= p /\ p <= 8 * len - 1
  BY DEF InBuffer
<1>2. \A p \in Prefix(live, k) : p \in 0 .. 8 * k - 1
  BY <1>1 DEF Prefix
<1>3. Prefix(live, len) = live
  BY <1>1 DEF Prefix
<1> QED
  BY <1>2, <1>3 DEF InBuffer

\* What a load reads.
LEMMA ReadIs ==
    ASSUME NEW size
    PROVE  /\ ReadOrZeros({}, size) = [len |-> size, live |-> {}]
           /\ \A b : ReadOrZeros({b}, size) = [len |-> b.len, live |-> b.live]
<1>1. ReadOrZeros({}, size) = [len |-> size, live |-> {}]
  BY DEF ReadOrZeros, Missing
<1>2. ASSUME NEW b PROVE ReadOrZeros({b}, size) = [len |-> b.len, live |-> b.live]
  <2> DEFINE S == {[len |-> f.len, live |-> f.live] : f \in {b}}
  <2>1. [len |-> b.len, live |-> b.live] \in S /\ \A r \in S : r = [len |-> b.len, live |-> b.live]
    OBVIOUS
  <2>2. (CHOOSE r \in S : TRUE) \in S
    BY <2>1
  <2>3. ReadOrZeros({b}, size) = CHOOSE r \in S : TRUE
    BY DEF ReadOrZeros, Missing
  <2> QED
    BY <2>1, <2>2, <2>3
<1> QED
  BY <1>1, <1>2

\* What a process starts with, from what it read.
LEMMA BufferIs ==
    ASSUME NEW content, NEW size, NEW s, NEW len, NEW live,
           ReadOrZeros(content, size) = [len |-> len, live |-> live]
    PROVE  /\ Buffer(content, size, s).len = len
           /\ Buffer(content, size, s).live
                 = IF s = 1 THEN {p \in live : p >= 8} \cup {0} ELSE live
           /\ Buffer(content, size, s)
                 = [len |-> len,
                    live |-> IF s = 1 THEN {p \in live : p >= 8} \cup {0} ELSE live]
BY DEF Buffer

\* A file holds one content or is missing.
LEMMA OneContent ==
    ASSUME NEW f, FileShape(f)
    PROVE  \/ disk[f] = {}
           \/ \E len, live, of : /\ disk[f] = {Bytes(len, live, of)}
                                 /\ InBuffer(live, len) /\ of \in Nat
<1>1. CASE disk[f] # {}
  <2>1. PICK b \in disk[f] : TRUE
    BY <1>1
  <2>2. disk[f] = {b} /\ b = Bytes(b.len, b.live, b.of) /\ InBuffer(b.live, b.len) /\ b.of \in Nat
    BY <2>1 DEF FileShape
  <2>3. disk[f] = {Bytes(b.len, b.live, b.of)}
    BY <2>2
  <2> QED
    BY <2>2, <2>3
<1> QED
  BY <1>1

\* The buffers of a process that starts are well formed.
LEMMA BufferRight ==
    ASSUME NEW f, FileShape(f), NEW size \in Nat, NEW s \in Nat,
           s = 1 => Buffer(disk[f], size, s).len > 0
    PROVE  /\ InBuffer(Buffer(disk[f], size, s).live, Buffer(disk[f], size, s).len)
           /\ s = 1 => Buffer(disk[f], size, s).live \cap (0 .. 7) = {0}
<1> DEFINE r == Buffer(disk[f], size, s)
<1>1. \E len, live : /\ ReadOrZeros(disk[f], size) = [len |-> len, live |-> live]
                     /\ InBuffer(live, len)
  <2>1. CASE disk[f] = {}
    <3>1. InBuffer({}, size)
      BY DEF InBuffer
    <3>2. ReadOrZeros(disk[f], size) = [len |-> size, live |-> {}]
      BY <2>1, ReadIs
    <3> QED
      BY <3>1, <3>2
  <2>2. CASE disk[f] # {}
    <3>1. PICK len, live, of : disk[f] = {Bytes(len, live, of)} /\ InBuffer(live, len)
      BY <2>2, OneContent
    <3>2. Bytes(len, live, of).len = len /\ Bytes(len, live, of).live = live
      BY DEF Bytes
    <3>3. ReadOrZeros({Bytes(len, live, of)}, size)
             = [len |-> Bytes(len, live, of).len, live |-> Bytes(len, live, of).live]
      BY ReadIs
    <3>4. ReadOrZeros(disk[f], size) = [len |-> len, live |-> live]
      BY <3>1, <3>2, <3>3
    <3> QED
      BY <3>1, <3>4
  <2> QED
    BY <2>1, <2>2
<1>2. PICK len, live : /\ ReadOrZeros(disk[f], size) = [len |-> len, live |-> live]
                       /\ InBuffer(live, len)
  BY <1>1
<1>3. r.len = len /\ r.live = (IF s = 1 THEN {p \in live : p >= 8} \cup {0} ELSE live)
  <2> DEFINE content == disk[f]
  <2>1. ReadOrZeros(content, size) = [len |-> len, live |-> live]
    BY <1>2
  <2> HIDE DEF content
  <2>2. Buffer(content, size, s)
           = [len |-> len, live |-> IF s = 1 THEN {p \in live : p >= 8} \cup {0} ELSE live]
    BY <2>1 DEF Buffer
  <2>3. r = Buffer(content, size, s)
    BY DEF content
  <2> HIDE DEF r
  <2> QED
    BY <2>2, <2>3
<1>4. len \in Nat /\ \A p \in live : p \in Int /\ 0 <= p /\ p <= 8 * len - 1
  BY <1>2 DEF InBuffer
<1> HIDE DEF r
<1>5. CASE s = 1
  <2>1. len > 0
    BY <1>3, <1>5 DEF r
  <2>2. r.live = {p \in live : p >= 8} \cup {0}
    BY <1>3, <1>5
  <2>3. \A p \in r.live : p \in 0 .. 8 * len - 1
    BY <1>4, <2>1, <2>2
  <2>4. r.live \cap (0 .. 7) = {0}
    BY <1>4, <2>2
  <2> QED
    BY <1>3, <1>4, <2>3, <2>4 DEF InBuffer, r
<1>6. CASE s # 1
  BY <1>2, <1>3, <1>6 DEF r
<1> QED
  BY <1>5, <1>6

\* The step a process starts with.
LEMMA LoadedIs ==
    ASSUME JsonTells
    PROVE  \/ (\A j \in disk.json : ~(j.whole /\ j.current)) /\ LoadedStep(disk.json) = 1
           \/ \E j \in disk.json : /\ j.whole /\ j.current /\ disk.json = {j}
                                   /\ LoadedStep(disk.json) = j.step
<1>1. CASE \A j \in disk.json : ~(j.whole /\ j.current)
  BY <1>1 DEF LoadedStep
<1>2. CASE \E j \in disk.json : j.whole /\ j.current
  <2>1. PICK j \in disk.json : j.whole /\ j.current
    BY <1>2
  <2>2. disk.json = {j}
    BY <2>1 DEF JsonTells
  <2>3. (CHOOSE k \in disk.json : TRUE) \in disk.json
    BY <2>1
  <2>4. (CHOOSE k \in disk.json : TRUE) = j
    BY <2>2, <2>3
  <2> QED
    BY <1>2, <2>1, <2>2, <2>4 DEF LoadedStep
<1> QED
  BY <1>1, <1>2

-------------------------------------------------------------------------------
\* Before the first start.
LEMMA MemInit == Init => MemInv
<1> SUFFICES ASSUME Init PROVE MemInv
  OBVIOUS
<1>1. InBuffer({}, 0) /\ InBuffer({9}, 2) /\ InBuffer({3}, 1)
  BY DEF InBuffer
<1>2. FileShape("row") /\ FileShape("column") /\ JsonShape
  <2>1. CASE disk = [row |-> Missing, column |-> Missing, json |-> Missing]
    BY <2>1 DEF FileShape, JsonShape, JsonsShaped, Missing
  <2>2. CASE disk = [row |-> {Bytes(2, {9}, 0)}, column |-> {Bytes(1, {3}, 0)},
                     json |-> {Json(TRUE, 4, FALSE)}]
    <3>1. /\ disk["row"] = {Bytes(2, {9}, 0)} /\ disk["column"] = {Bytes(1, {3}, 0)}
          /\ disk.json = {Json(TRUE, 4, FALSE)}
      BY <2>2
    <3>2. FileShape("row")
      BY <1>1, <3>1 DEF FileShape, Bytes
    <3>3. FileShape("column")
      BY <1>1, <3>1 DEF FileShape, Bytes
    <3>4. JsonShape
      <4>1. JsonsShaped({Json(TRUE, 4, FALSE)})
        BY JsonOne
      <4> QED
        BY <3>1, <4>1 DEF JsonShape
    <3> QED
      BY <3>2, <3>3, <3>4
  <2> QED
    BY <2>1, <2>2 DEF Init
<1>3. Memory
  BY <1>1, BoundsAssumption DEF Init, Memory
<1> QED
  BY <1>2, <1>3 DEF Init, MemInv, Control, FirstByte, Written

\* A file is rewritten with a well-formed content.
LEMMA OneRewritten ==
    ASSUME IInv, MemInv, NEW f \in {"row", "column"}, NEW len, NEW live, InBuffer(live, len),
           disk' = [disk EXCEPT ![f] = {Bytes(len, live, step)}]
    PROVE  /\ FileShape("row")' /\ FileShape("column")' /\ JsonShape'
           /\ disk'[f] = {Bytes(len, live, step)} /\ disk'.json = disk.json
           /\ f = "row" => disk'.column = disk.column
           /\ f = "column" => disk'.row = disk.row
<1>1. /\ disk'[f] = {Bytes(len, live, step)} /\ disk'.json = disk.json
      /\ \A g \in {"row", "column"} : g # f => disk'[g] = disk[g]
  BY DEF IInv, DiskShape
<1>2. step \in Nat
  BY DEF IInv, MemoryNotBehind
<1>3. FileShape(f)'
  BY <1>1, <1>2 DEF FileShape, Bytes
<1>4. \A g \in {"row", "column"} : g # f => FileShape(g)'
  BY <1>1 DEF MemInv, FileShape
<1>5. FileShape("row")' /\ FileShape("column")'
  BY <1>3, <1>4
<1>6. JsonShape'
  BY <1>1 DEF MemInv, JsonShape
<1> QED
  BY <1>1, <1>5, <1>6

\* The files are as they were.
LEMMA FilesShaped ==
    ASSUME MemInv, UNCHANGED disk
    PROVE  FileShape("row")' /\ FileShape("column")' /\ JsonShape'
BY DEF MemInv, FileShape, JsonShape

\* An old version is discarded.
LEMMA MemDiscard == IInv /\ MemInv /\ (DiscardRow \/ DiscardColumn) => MemInv'
<1> SUFFICES ASSUME IInv, MemInv, DiscardRow \/ DiscardColumn PROVE MemInv'
  OBVIOUS
<1>1. /\ pc = "down" /\ pc' = pc /\ file' = file /\ step' = step /\ row' = row
      /\ rowLen' = rowLen /\ column' = column /\ columnLen' = columnLen
      /\ saved' = saved /\ crashes' = crashes /\ errors' = errors
      /\ (disk' = [disk EXCEPT !.row = Missing] \/ disk' = [disk EXCEPT !.column = Missing])
  BY DEF DiscardRow, DiscardColumn, memory, history, mishaps
<1>2. file = "none" /\ ~saved
  BY <1>1 DEF MemInv, Control
<1>3. /\ disk'.json = disk.json
      /\ disk'["row"] = disk["row"] \/ disk'["row"] = {}
      /\ disk'["column"] = disk["column"] \/ disk'["column"] = {}
  BY <1>1 DEF IInv, DiskShape, Missing
<1>4. FileShape("row")' /\ FileShape("column")' /\ JsonShape'
  BY <1>3 DEF MemInv, FileShape, JsonShape
<1>5. Memory' /\ Control' /\ FirstByte' /\ Written'
  BY <1>1, <1>2 DEF MemInv, Memory, Control, FirstByte, Written
<1> QED
  BY <1>4, <1>5 DEF MemInv

\* The process starts.
LEMMA MemStart == IInv /\ MemInv /\ Start => MemInv'
<1> SUFFICES ASSUME IInv, MemInv, Start PROVE MemInv'
  OBVIOUS
<1> DEFINE s == LoadedStep(disk.json)
           r == Buffer(disk["row"], CurrentRowSize(s), s)
           c == Buffer(disk["column"], CenterColumnSize(s), s)
<1>1. /\ pc' = "idle" /\ step' = s /\ row' = r.live /\ rowLen' = r.len
      /\ column' = c.live /\ columnLen' = c.len /\ saved' = FALSE
      /\ file' = file /\ disk' = disk /\ crashes' = crashes /\ errors' = errors
      /\ pc = "down" /\ (s = 1 => r.len > 0 /\ c.len > 0)
  BY DEF Start, mishaps
<1>2. s \in 1 .. MaxStep
  BY LoadedIs, BoundsAssumption DEF IInv, MemInv, JsonShape, JsonsShaped
<1>3. s \in Nat /\ CurrentRowSize(s) \in Nat /\ CenterColumnSize(s) \in Nat
  BY <1>2, BoundsAssumption, SizesEnough
<1> HIDE DEF s
<1>4. InBuffer(r.live, r.len) /\ (s = 1 => r.live \cap (0 .. 7) = {0})
  BY <1>1, <1>3, BufferRight DEF MemInv
<1>5. InBuffer(c.live, c.len) /\ (s = 1 => c.live \cap (0 .. 7) = {0})
  BY <1>1, <1>3, BufferRight DEF MemInv
<1> HIDE DEF r, c
<1>6. Memory'
  BY <1>1, <1>2, <1>4, <1>5 DEF Memory
<1>7. file = "none"
  BY <1>1 DEF MemInv, Control
<1>8. Control' /\ FirstByte' /\ Written'
  BY <1>1, <1>4, <1>5, <1>7 DEF MemInv, Control, FirstByte, Written
<1> QED
  BY <1>1, <1>6, <1>8, FilesShaped DEF MemInv

\* A step keeps its bits within the buffers, which it grows first.
LEMMA MemDoStep == IInv /\ MemInv /\ DoStep => MemInv'
<1> SUFFICES ASSUME IInv, MemInv, DoStep PROVE MemInv'
  OBVIOUS
<1>1. /\ pc = "idle" /\ step < MaxStep /\ step' = step + 1 /\ saved' = FALSE
      /\ rowLen' = Grown(rowLen, CurrentRowSize(step))
      /\ columnLen' = Grown(columnLen, CenterColumnSize(step))
      /\ row' = EvolveBytes(row, ByteCount(step))
      /\ column' = column \cup ({step} \cap row')
      /\ pc' = "create" /\ file' = "row" /\ disk' = disk
      /\ crashes' = crashes /\ errors' = errors
  BY SaveBegins DEF DoStep, mishaps
<1>2. /\ step \in Nat /\ step > 0 /\ MaxStep \in Nat
      /\ rowLen \in Nat /\ columnLen \in Nat
      /\ \A p \in row : p \in Int /\ 0 <= p /\ p <= 8 * rowLen - 1
      /\ \A p \in column : p \in Int /\ 0 <= p /\ p <= 8 * columnLen - 1
  BY <1>1, BoundsAssumption DEF MemInv, Memory, InBuffer
<1>3. /\ rowLen' \in Nat /\ rowLen' >= rowLen /\ rowLen' >= ByteCount(step)
      /\ columnLen' \in Nat /\ columnLen' >= columnLen /\ step < 8 * columnLen'
      /\ ByteCount(step) \in Nat
  <2>1. /\ ByteCount(step) \in Nat /\ CurrentRowSize(step) \in Nat
        /\ ByteCount(step) <= CurrentRowSize(step)
        /\ CenterColumnSize(step) \in Nat /\ step < 8 * CenterColumnSize(step)
    BY <1>2, SizesEnough
  <2>2. rowLen' \in Nat /\ rowLen' >= rowLen /\ rowLen' >= CurrentRowSize(step)
    BY <1>1, <1>2, <2>1, GrownEnough
  <2>3. columnLen' \in Nat /\ columnLen' >= columnLen /\ columnLen' >= CenterColumnSize(step)
    BY <1>1, <1>2, <2>1, GrownEnough
  <2>4. rowLen' >= ByteCount(step)
    BY <2>1, <2>2, Above
  <2>5. step < 8 * columnLen'
    BY <1>2, <2>1, <2>3, BitInside
  <2> QED
    BY <2>1, <2>2, <2>3, <2>4, <2>5
<1>4. \A p \in row' : p \in 0 .. 8 * rowLen' - 1
  <2>1. \A p \in row' : p \in 0 .. 8 * ByteCount(step) - 1 \/ p \in row
    BY <1>1 DEF EvolveBytes
  <2> QED
    BY <1>2, <1>3, <2>1
<1>5. \A p \in column' : p \in 0 .. 8 * columnLen' - 1
  <2>1. \A p \in column' : p = step \/ p \in column
    BY <1>1
  <2>2. step \in 0 .. 8 * columnLen' - 1
    <3> DEFINE m == columnLen'
    <3>1. m \in Nat /\ step < 8 * m /\ m >= m
      BY <1>3
    <3> HIDE DEF m
    <3>2. step \in 0 .. 8 * m - 1
      BY <1>2, <3>1, BitInside
    <3> QED
      BY <3>2 DEF m
  <2>3. \A p \in column : p \in 0 .. 8 * columnLen' - 1
    BY <1>2, <1>3
  <2> QED
    BY <2>1, <2>2, <2>3
<1>6. InBuffer(row', rowLen') /\ InBuffer(column', columnLen')
  BY <1>3, <1>4, <1>5 DEF InBuffer
<1>7. Memory'
  BY <1>1, <1>2, <1>6 DEF Memory
<1>8. Control'
  BY <1>1 DEF MemInv, Control
<1>9. FirstByte'
  BY <1>1, <1>2 DEF FirstByte
<1>10. Written'
  BY <1>1 DEF Written
<1> QED
  BY <1>1, <1>7, <1>8, <1>9, <1>10, FilesShaped DEF MemInv

\* A file is created, which truncates it.
LEMMA MemCreate == IInv /\ MemInv /\ CreateFile => MemInv'
<1> SUFFICES ASSUME IInv, MemInv, CreateFile PROVE MemInv'
  OBVIOUS
<1>1. /\ pc = "create" /\ pc' = "write" /\ file' = file /\ step' = step /\ row' = row
      /\ rowLen' = rowLen /\ column' = column /\ columnLen' = columnLen
      /\ saved' = saved /\ crashes' = crashes /\ errors' = errors
  BY DEF CreateFile, memory, history, mishaps
<1>2. file \in {"row", "column", "json"} /\ ~saved
  BY <1>1 DEF MemInv, Control
<1>3. Memory' /\ Control' /\ FirstByte'
  BY <1>1, <1>2 DEF MemInv, Memory, Control, FirstByte
<1>4. CASE file \in {"row", "column"}
  <2>1. disk' = [disk EXCEPT ![file] = {Bytes(0, {}, step)}]
    BY <1>4 DEF CreateFile
  <2>2. InBuffer({}, 0)
    BY DEF InBuffer
  <2>3. /\ FileShape("row")' /\ FileShape("column")' /\ JsonShape'
        /\ file = "column" => disk'.row = disk.row
    BY <1>4, <2>1, <2>2, OneRewritten
  <2>4. Written'
    BY <1>1, <1>2, <1>4, <2>3 DEF MemInv, Written
  <2> QED
    BY <1>3, <2>3, <2>4 DEF MemInv
<1>5. CASE file = "json"
  <2>1. /\ disk'.json = {Json(FALSE, 0, TRUE)}
        /\ disk'["row"] = disk["row"] /\ disk'["column"] = disk["column"]
    BY <1>5 DEF CreateFile, IInv, DiskShape
  <2>2. FileShape("row")' /\ FileShape("column")'
    BY <2>1 DEF MemInv, FileShape
  <2>3. JsonShape'
    <3>1. JsonsShaped({Json(FALSE, 0, TRUE)})
      BY JsonOne
    <3> QED
      BY <2>1, <3>1 DEF JsonShape
  <2>4. Written'
    BY <1>1, <1>2, <1>5, <2>1 DEF MemInv, Written
  <2> QED
    BY <1>3, <2>2, <2>3, <2>4 DEF MemInv
<1> QED
  BY <1>2, <1>4, <1>5

\* What is written is a prefix of the buffer, and the buffer in the end.
LEMMA MemWriteBytes ==
    ASSUME IInv, MemInv, NEW f \in {"row", "column"}, NEW live, NEW size, NEW len \in 0 .. size,
           InBuffer(live, size), WriteBytes(f, live, size, len),
           f = "row" => live = row /\ size = rowLen,
           f = "column" => live = column /\ size = columnLen
    PROVE  MemInv'
<1>1. /\ pc = "write" /\ file = f /\ step' = step /\ row' = row
      /\ rowLen' = rowLen /\ column' = column /\ columnLen' = columnLen
      /\ saved' = (pc' = "idle") /\ crashes' = crashes /\ errors' = errors
      /\ disk' = [disk EXCEPT ![f] = {Bytes(len, Prefix(live, len), step)}]
      /\ IF len = size THEN NextFile ELSE UNCHANGED <<pc, file>>
  BY DEF WriteBytes, memory, mishaps
<1>2. size \in Nat /\ len \in Nat
  BY DEF InBuffer
<1>3. InBuffer(Prefix(live, len), len) /\ Prefix(live, size) = live
  BY <1>2, PrefixIs
<1>4. /\ FileShape("row")' /\ FileShape("column")' /\ JsonShape'
      /\ disk'[f] = {Bytes(len, Prefix(live, len), step)}
      /\ f = "column" => disk'.row = disk.row
  BY <1>1, <1>3, OneRewritten
<1>5. \/ len = size /\ f = "row" /\ file' = "column" /\ pc' = "create"
      \/ len = size /\ f = "column" /\ file' = "json" /\ pc' = "create"
      \/ pc' = pc /\ file' = file
  BY <1>1, Order
<1>6. Memory' /\ Control' /\ FirstByte'
  BY <1>1, <1>5 DEF MemInv, Memory, Control, FirstByte
<1>7. Written'
  BY <1>1, <1>3, <1>4, <1>5 DEF MemInv, Written
<1> QED
  BY <1>4, <1>6, <1>7 DEF MemInv

\* data.json is written.
LEMMA MemWriteJson == IInv /\ MemInv /\ WriteJson => MemInv'
<1> SUFFICES ASSUME IInv, MemInv, WriteJson PROVE MemInv'
  OBVIOUS
<1>1. /\ pc = "write" /\ file = "json" /\ step' = step /\ row' = row
      /\ rowLen' = rowLen /\ column' = column /\ columnLen' = columnLen
      /\ saved' = (pc' = "idle") /\ crashes' = crashes /\ errors' = errors
      /\ disk' = [disk EXCEPT !.json = {Json(TRUE, step, TRUE)}] /\ NextFile
  BY DEF WriteJson, StepToSave, memory, mishaps
<1>2. pc' = "idle" /\ file' = "none"
  BY <1>1 DEF NextFile, SaveOrder
<1>3. /\ disk'.json = {Json(TRUE, step, TRUE)}
      /\ disk'["row"] = disk["row"] /\ disk'["column"] = disk["column"]
  BY <1>1 DEF IInv, DiskShape
<1>4. step \in 1 .. MaxStep
  BY <1>1, BoundsAssumption DEF MemInv, Memory
<1>5. FileShape("row")' /\ FileShape("column")'
  BY <1>3 DEF MemInv, FileShape
<1>6. JsonShape'
  <2>1. step \in Nat
    BY <1>4, BoundsAssumption
  <2>2. JsonsShaped({Json(TRUE, step, TRUE)})
    BY <1>4, <2>1, JsonOne
  <2> QED
    BY <1>3, <1>4, <2>1, <2>2 DEF JsonShape
<1>7. Memory' /\ Control' /\ FirstByte'
  BY <1>1, <1>2 DEF MemInv, Memory, Control, FirstByte
<1>8. Written'
  BY <1>1, <1>2, <1>3 DEF MemInv, Written
<1> QED
  BY <1>5, <1>6, <1>7, <1>8 DEF MemInv

\* Every step keeps it.
LEMMA MemStep == IInv /\ MemInv /\ [Next]_vars => MemInv'
<1> SUFFICES ASSUME IInv, MemInv, [Next]_vars PROVE MemInv'
  OBVIOUS
<1>1. CASE DiscardRow \/ DiscardColumn
  BY <1>1, MemDiscard
<1>2. CASE Start
  BY <1>2, MemStart
<1>3. CASE DoStep
  BY <1>3, MemDoStep
<1>4. CASE SyncSave
  <2>1. /\ pc = "idle" /\ pc' = "create" /\ file' = "row" /\ saved' = FALSE /\ disk' = disk
        /\ step' = step /\ row' = row /\ rowLen' = rowLen /\ column' = column
        /\ columnLen' = columnLen /\ crashes' = crashes /\ errors' = errors
    BY <1>4, SaveBegins DEF SyncSave, memory, mishaps
  <2>2. Memory' /\ Control' /\ FirstByte' /\ Written'
    BY <2>1 DEF MemInv, Memory, Control, FirstByte, Written
  <2> QED
    BY <2>1, <2>2, FilesShaped DEF MemInv
<1>5. CASE CreateFile
  BY <1>5, MemCreate
<1>6. CASE WriteRow
  BY <1>6, MemWriteBytes DEF WriteRow, MemInv, Memory
<1>7. CASE WriteColumn
  BY <1>7, MemWriteBytes DEF WriteColumn, MemInv, Memory
<1>8. CASE WriteJson
  BY <1>8, MemWriteJson
<1>9. CASE SaveFails
  <2>1. /\ pc \in {"create", "write"} /\ pc' = "idle" /\ file' = "none" /\ saved' = saved
        /\ disk' = disk /\ step' = step /\ row' = row /\ rowLen' = rowLen /\ column' = column
        /\ columnLen' = columnLen /\ crashes' = crashes /\ errors' = errors + 1
    BY <1>9 DEF SaveFails, memory
  <2>2. ~saved
    BY <2>1 DEF MemInv, Control
  <2>3. Memory'
    BY <2>1 DEF MemInv, Memory
  <2>4. Control'
    BY <2>1, <2>2 DEF MemInv, Control
  <2>5. FirstByte' /\ Written'
    BY <2>1, <2>2 DEF MemInv, FirstByte, Written
  <2> QED
    BY <2>1, <2>3, <2>4, <2>5, FilesShaped DEF MemInv
<1>10. CASE Crash
  <2>1. /\ pc' = "down" /\ file' = "none" /\ saved' = FALSE
        /\ disk' = disk /\ step' = 0 /\ row' = {} /\ rowLen' = 0 /\ column' = {}
        /\ columnLen' = 0 /\ errors' = errors
        /\ crashes' = crashes + 1 \/ crashes' = crashes
    BY <1>10 DEF Crash
  <2>2. Memory'
    BY <2>1, BoundsAssumption DEF Memory, InBuffer
  <2>0. crashes' \in Nat
    BY <2>1 DEF MemInv, Control
  <2>3. Control'
    BY <2>1, <2>0 DEF MemInv, Control
  <2>4. FirstByte' /\ Written'
    BY <2>1 DEF FirstByte, Written
  <2> QED
    BY <2>1, <2>2, <2>3, <2>4, FilesShaped DEF MemInv
<1>11. CASE UNCHANGED vars
  BY <1>11, FilesShaped
     DEF vars, memory, history, mishaps, MemInv, Memory, Control, FirstByte, Written
<1> QED
  BY <1>1, <1>2, <1>3, <1>4, <1>5, <1>6, <1>7, <1>8, <1>9, <1>10, <1>11 DEF Next


-------------------------------------------------------------------------------
\* A file whose content is known.
LEMMA ReadOnly ==
    ASSUME NEW f, FileShape(f), NEW b \in disk[f], NEW size
    PROVE  ReadOrZeros(disk[f], size) = [len |-> b.len, live |-> b.live]
<1>1. disk[f] = {b}
  BY DEF FileShape
<1> QED
  BY <1>1, ReadIs

\* From a file that was right the buffer is right.
LEMMA BufferLater ==
    ASSUME NEW f, FileShape(f), NEW b \in disk[f], NEW size, NEW s \in Nat, s # 1
    PROVE  Buffer(disk[f], size, s).live = b.live
<1> DEFINE content == disk[f]
<1>1. ReadOrZeros(content, size) = [len |-> b.len, live |-> b.live]
  BY ReadOnly
<1> HIDE DEF content
<1>2. Buffer(content, size, s).live = b.live
  BY <1>1 DEF Buffer
<1> QED
  BY <1>2 DEF content

\* Step 1 overrules files that only have bits in the first byte.
LEMMA BufferFirst ==
    ASSUME NEW f, FileShape(f), NEW size, \A b \in disk[f] : b.live \in SUBSET (0 .. 7)
    PROVE  Buffer(disk[f], size, 1).live = {0}
<1> DEFINE content == disk[f]
<1>1. \E len : \E live \in SUBSET (0 .. 7) :
          ReadOrZeros(content, size) = [len |-> len, live |-> live]
  <2>1. CASE disk[f] = {}
    <3>1. ReadOrZeros(content, size) = [len |-> size, live |-> {}]
      BY <2>1, ReadIs
    <3>2. {} \in SUBSET (0 .. 7)
      OBVIOUS
    <3> HIDE DEF content
    <3> QED
      BY <3>1, <3>2
  <2>2. CASE disk[f] # {}
    <3>1. PICK b \in disk[f] : TRUE
      BY <2>2
    <3>2. ReadOrZeros(content, size) = [len |-> b.len, live |-> b.live]
      BY <3>1, ReadOnly
    <3>3. b.live \in SUBSET (0 .. 7)
      BY <3>1
    <3> HIDE DEF content
    <3> QED
      BY <3>2, <3>3
  <2> QED
    BY <2>1, <2>2
<1> HIDE DEF content
<1>2. PICK len, live : /\ live \in SUBSET (0 .. 7)
                       /\ ReadOrZeros(content, size) = [len |-> len, live |-> live]
  BY <1>1
<1>3. {p \in live : p >= 8} = {}
  BY <1>2
<1>4. Buffer(content, size, 1).live = {p \in live : p >= 8} \cup {0}
  BY <1>2 DEF Buffer
<1> QED
  BY <1>3, <1>4 DEF content

\* A file operation of save_state leaves only bits of the memory.
LEMMA PrefixEarly ==
    ASSUME NEW live \in SUBSET (0 .. 7), NEW len
    PROVE  Prefix(live, len) \in SUBSET (0 .. 7)
BY DEF Prefix

\* The memory and the steps before which its bits are right are as they were.
Same == /\ step' = step /\ row' = row /\ column' = column
        /\ crashes' = crashes /\ errors' = errors

\* Nothing changes in memory.
LEMMA RightKept ==
    ASSUME MemoryIsRight, Same, pc # "down"
    PROVE  MemoryIsRight'
BY DEF MemoryIsRight, Same, Right

\* Files of one of which the JSON text is rewritten or nothing.
LEMMA FilesKept ==
    ASSUME DiskIsRight, BitsServed, disk' = disk, crashes' = crashes, errors' = errors,
           ~Unfinished, ~Unfinished', pc # "write"
    PROVE  DiskIsRight' /\ BitsServed'
BY DEF DiskIsRight, BitsServed, mishaps

\* An old version is discarded.
LEMMA BitDiscard == IInv /\ MemInv /\ BitInv /\ (DiscardRow \/ DiscardColumn) => BitInv'
<1> SUFFICES ASSUME IInv, MemInv, BitInv, DiscardRow \/ DiscardColumn PROVE BitInv'
  OBVIOUS
<1>1. /\ pc = "down" /\ pc' = pc /\ file' = file /\ Same /\ Outdated
      /\ (disk' = [disk EXCEPT !.row = Missing] \/ disk' = [disk EXCEPT !.column = Missing])
  BY DEF DiscardRow, DiscardColumn, memory, history, mishaps, Same
<1>2. disk'.json = disk.json
  BY <1>1 DEF IInv, DiskShape
<1>3. \A j \in disk'.json : j.whole /\ ~j.current
  BY <1>1, <1>2, NothingCurrent DEF IInv
<1>4. Outdated'
  BY <1>1, <1>2 DEF Outdated
<1>5. MemoryIsRight' /\ DiskIsRight' /\ BitsServed'
  BY <1>1, <1>3 DEF MemoryIsRight, DiskIsRight, BitsServed
<1>6. EarlyBits'
  BY <1>1, <1>2, <1>4 DEF BitInv, EarlyBits, Early, Same
<1> QED
  BY <1>5, <1>6 DEF BitInv

\* A process that starts with step 1 or without a mishap has the right memory.
LEMMA BitStart == IInv /\ MemInv /\ BitInv /\ Start => BitInv'
<1> SUFFICES ASSUME IInv, MemInv, BitInv, Start PROVE BitInv'
  OBVIOUS
<1> DEFINE s == LoadedStep(disk.json)
           r == Buffer(disk["row"], CurrentRowSize(s), s).live
           c == Buffer(disk["column"], CenterColumnSize(s), s).live
<1>1. /\ pc = "down" /\ pc' = "idle" /\ step' = s /\ row' = r /\ column' = c
      /\ disk' = disk /\ crashes' = crashes /\ errors' = errors
      /\ Loads(disk.json)
      /\ (Outdated => disk["row"] = {} /\ disk["column"] = {})
  BY DEF Start, mishaps, Missing
<1>2. FileShape("row") /\ FileShape("column") /\ JsonTells
  BY DEF MemInv, IInv
<1>3. \/ (\A j \in disk.json : ~(j.whole /\ j.current)) /\ s = 1
      \/ \E j \in disk.json : j.whole /\ j.current /\ disk.json = {j} /\ s = j.step
  BY <1>2, LoadedIs
<1>4. s \in Nat
  BY <1>3, LoadedIs DEF MemInv, JsonShape, JsonsShaped
<1>5. ~Unfinished /\ ~Unfinished'
  BY <1>1 DEF Unfinished
<1>6. DiskIsRight' /\ BitsServed'
  BY <1>1, <1>5, FilesKept DEF BitInv
<1> HIDE DEF s
<1>7. Early <=> s = 1
  BY <1>1, <1>3 DEF Early, Loads
<1>8. ASSUME s = 1, errors = 0 PROVE r = {0} /\ c = {0}
  <2>1. \A b \in disk["row"] \cup disk["column"] : b.live \in SUBSET (0 .. 7)
    BY <1>1, <1>7, <1>8 DEF BitInv, EarlyBits
  <2>2. (\A b \in disk["row"] : b.live \in SUBSET (0 .. 7))
        /\ (\A b \in disk["column"] : b.live \in SUBSET (0 .. 7))
    BY <2>1
  <2>3. Buffer(disk["row"], CurrentRowSize(s), 1).live = {0}
    BY <1>2, <2>2, BufferFirst
  <2>4. Buffer(disk["column"], CenterColumnSize(s), 1).live = {0}
    BY <1>2, <2>2, BufferFirst
  <2> QED
    BY <1>8, <2>3, <2>4
<1>9. ASSUME s # 1, errors = 0, crashes = 0 PROVE r = RowOfStep(s - 1) /\ c = CentreBefore(s)
  <2>1. PICK j \in disk.json : j.whole /\ j.current /\ s = j.step
    BY <1>3, <1>9
  <2>2. /\ \E b \in disk["row"] : b.live = RowOfStep(s - 1)
        /\ \E b \in disk["column"] : b.live = CentreBefore(s)
    BY <1>5, <1>9, <2>1 DEF BitInv, DiskIsRight
  <2>3. PICK b \in disk["row"] : b.live = RowOfStep(s - 1)
    BY <2>2
  <2>4. PICK d \in disk["column"] : d.live = CentreBefore(s)
    BY <2>2
  <2>5. r = b.live
    BY <1>2, <1>4, <1>9, BufferLater
  <2>6. c = d.live
    BY <1>2, <1>4, <1>9, BufferLater
  <2> QED
    BY <2>3, <2>4, <2>5, <2>6
<1> HIDE DEF r, c
<1>10. MemoryIsRight'
  <2> SUFFICES ASSUME errors = 0, crashes = 0 \/ s = 1
               PROVE  r = RowOfStep(s - 1) /\ c = CentreBefore(s)
    BY <1>1 DEF MemoryIsRight, Right
  <2>1. CASE s = 1
    BY <1>8, <2>1, FirstRow
  <2>2. CASE s # 1
    BY <1>9, <2>2
  <2> QED
    BY <2>1, <2>2
<1>11. EarlyBits'
  <2> SUFFICES ASSUME errors = 0, Early
               PROVE  /\ s <= 2 /\ s = 1
                      /\ r \in SUBSET (0 .. 7) /\ c \in SUBSET (0 .. 7)
                      /\ ~Outdated => \A b \in disk.row \cup disk.column :
                                          b.live \in SUBSET (0 .. 7)
    BY <1>1 DEF EarlyBits, Early, Outdated
  <2>1. s = 1
    BY <1>7
  <2>2. r = {0} /\ c = {0}
    BY <1>8, <2>1
  <2> QED
    BY <2>1, <2>2 DEF BitInv, EarlyBits
<1> QED
  BY <1>6, <1>10, <1>11 DEF BitInv

\* The row of the next step, and its centre bit.
LEMMA Evolves ==
    ASSUME MemInv, DoStep, Right
    PROVE  row' = RowOfStep(step) /\ column' = CentreBefore(step + 1)
<1>1. /\ row' = EvolveBytes(row, ByteCount(step)) /\ column' = column \cup ({step} \cap row')
      /\ step \in Nat \ {0}
  BY BoundsAssumption DEF DoStep, MemInv, Memory
<1>2. ByteCount(step) \in Nat /\ 2 * step < 8 * ByteCount(step)
  BY <1>1, SizesEnough
<1>3. row' = RowOfStep(step)
  BY <1>1, <1>2, RowEvolves DEF Right
<1> QED
  BY <1>1, <1>3, CentreEvolves DEF Right

\* A step evolves the row.
LEMMA BitDoStep == IInv /\ MemInv /\ BitInv /\ DoStep => BitInv'
<1> SUFFICES ASSUME IInv, MemInv, BitInv, DoStep PROVE BitInv'
  OBVIOUS
<1>1. /\ pc = "idle" /\ pc' = "create" /\ file' = "row" /\ step' = step + 1 /\ disk' = disk
      /\ crashes' = crashes /\ errors' = errors
  BY SaveBegins DEF DoStep, mishaps
<1>2. step \in Nat /\ step > 0
  BY <1>1, BoundsAssumption DEF MemInv, Memory
<1>3. ~Unfinished /\ ~Unfinished'
  BY <1>1 DEF Unfinished, SaveOrder
<1>4. DiskIsRight' /\ BitsServed'
  BY <1>1, <1>3, FilesKept DEF BitInv
<1>5. step' # 1 /\ step' - 1 = step
  BY <1>1, <1>2
<1>6. MemoryIsRight'
  <2> SUFFICES ASSUME errors = 0, crashes = 0
               PROVE  row' = RowOfStep(step' - 1) /\ column' = CentreBefore(step')
    BY <1>1, <1>5 DEF MemoryIsRight, Right
  <2>1. Right
    BY <1>1 DEF BitInv, MemoryIsRight
  <2> QED
    BY <1>1, <1>5, <2>1, Evolves
<1>7. EarlyBits'
  <2> SUFFICES ASSUME errors = 0, Early
               PROVE  /\ step' <= 2
                      /\ row' \in SUBSET (0 .. 7) /\ column' \in SUBSET (0 .. 7)
                      /\ ~Outdated => \A b \in disk.row \cup disk.column :
                                          b.live \in SUBSET (0 .. 7)
    BY <1>1 DEF EarlyBits, Early, Outdated
  <2>1. step = 1
    BY <1>1 DEF BitInv, EarlyBits
  <2>2. Right
    BY <1>1, <2>1 DEF BitInv, MemoryIsRight
  <2>3. row' = RowOfStep(1) /\ column' = CentreBefore(2)
    BY <2>1, <2>2, Evolves
  <2>4. step' <= 2
    BY <1>1, <2>1
  <2> QED
    BY <2>3, <2>4, FirstRow DEF BitInv, EarlyBits
<1> QED
  BY <1>4, <1>6, <1>7 DEF BitInv

\* sync saves.
LEMMA BitSyncSave == IInv /\ MemInv /\ BitInv /\ SyncSave => BitInv'
<1> SUFFICES ASSUME IInv, MemInv, BitInv, SyncSave PROVE BitInv'
  OBVIOUS
<1>1. /\ pc = "idle" /\ pc' = "create" /\ file' = "row" /\ disk' = disk /\ Same
  BY SaveBegins DEF SyncSave, memory, mishaps, Same
<1>2. ~Unfinished /\ ~Unfinished'
  BY <1>1 DEF Unfinished, SaveOrder
<1>3. DiskIsRight' /\ BitsServed'
  BY <1>1, <1>2, FilesKept DEF BitInv, Same
<1>4. MemoryIsRight'
  BY <1>1, RightKept DEF BitInv
<1>5. EarlyBits'
  BY <1>1 DEF BitInv, EarlyBits, Early, Outdated, Same
<1> QED
  BY <1>3, <1>4, <1>5 DEF BitInv

\* Whatever a save_state has written, the bits are those of the memory.
LEMMA EarlyRewritten ==
    ASSUME IInv, EarlyBits, Same, pc # "down", pc' # "down", pc' # "idle",
           NEW f \in {"row", "column"}, NEW len, NEW live,
           row \in SUBSET (0 .. 7) /\ column \in SUBSET (0 .. 7) => live \in SUBSET (0 .. 7),
           disk' = [disk EXCEPT ![f] = {Bytes(len, live, step)}]
    PROVE  EarlyBits'
<1>1. /\ disk'.json = disk.json /\ disk'[f] = {Bytes(len, live, step)}
      /\ \A g \in {"row", "column"} : g # f => disk'[g] = disk[g]
  BY DEF IInv, DiskShape
<1>2. Bytes(len, live, step).live = live
  BY DEF Bytes
<1>3. (Early' <=> Early) /\ (Outdated' <=> Outdated)
  BY <1>1 DEF Early, Outdated
<1> SUFFICES ASSUME errors = 0, Early
             PROVE  /\ step <= 2
                    /\ row \in SUBSET (0 .. 7) /\ column \in SUBSET (0 .. 7)
                    /\ ~Outdated => \A b \in disk'.row \cup disk'.column :
                                        b.live \in SUBSET (0 .. 7)
  BY <1>3 DEF EarlyBits, Same
<1>4. step <= 2 /\ row \in SUBSET (0 .. 7) /\ column \in SUBSET (0 .. 7)
  BY DEF EarlyBits
<1>5. live \in SUBSET (0 .. 7)
  BY <1>4
<1>6. ASSUME ~Outdated, NEW g \in {"row", "column"}, NEW b \in disk'[g]
      PROVE  b.live \in SUBSET (0 .. 7)
  <2>1. CASE g = f
    BY <1>1, <1>2, <1>5, <1>6, <2>1
  <2>2. CASE g # f
    BY <1>1, <1>6, <2>2 DEF EarlyBits
  <2> QED
    BY <2>1, <2>2
<1> QED
  BY <1>4, <1>6

\* A file is truncated.
LEMMA BitCreate == IInv /\ MemInv /\ BitInv /\ CreateFile => BitInv'
<1> SUFFICES ASSUME IInv, MemInv, BitInv, CreateFile PROVE BitInv'
  OBVIOUS
<1>1. pc = "create" /\ pc' = "write" /\ file' = file /\ Same
  BY DEF CreateFile, memory, history, mishaps, Same
<1>2. file \in {"row", "column", "json"}
  BY <1>1 DEF MemInv, Control
<1>3. MemoryIsRight'
  BY <1>1, RightKept DEF BitInv
<1>4. DiskIsRight'
  BY <1>1 DEF DiskIsRight, Unfinished
<1>5. CASE file \in {"row", "column"}
  <2>1. disk' = [disk EXCEPT ![file] = {Bytes(0, {}, step)}]
    BY <1>5 DEF CreateFile
  <2>2. EarlyBits'
    BY <1>1, <1>5, <2>1, EarlyRewritten DEF BitInv
  <2>3. disk'.json = disk.json /\ (file = "row" => disk'.column = disk.column)
    BY <1>5, <2>1 DEF IInv, DiskShape
  <2>4. BitsServed'
    BY <1>1, <1>5, <2>3 DEF BitInv, BitsServed, Same, mishaps
  <2> QED
    BY <1>3, <1>4, <2>2, <2>4 DEF BitInv
<1>6. CASE file = "json"
  <2>1. disk'.json = {Json(FALSE, 0, TRUE)}
    BY <1>6 DEF CreateFile, IInv, DiskShape
  <2>2. \E j \in disk'.json : ~j.whole
    BY <2>1, JsonFields
  <2>3. \A j \in disk'.json : ~j.whole
    BY <2>1, JsonFields
  <2>4. EarlyBits'
    BY <2>2 DEF EarlyBits, Early
  <2>5. BitsServed'
    BY <2>3 DEF BitsServed
  <2> QED
    BY <1>3, <1>4, <2>4, <2>5 DEF BitInv
<1> QED
  BY <1>2, <1>5, <1>6

\* The parts of WriteBytes.
LEMMA WriteIs ==
    ASSUME IInv, NEW f \in {"row", "column"}, NEW live, NEW size, NEW len,
           WriteBytes(f, live, size, len)
    PROVE  /\ pc = "write" /\ file = f /\ Same
           /\ disk' = [disk EXCEPT ![f] = {Bytes(len, Prefix(live, len), step)}]
           /\ disk'.json = disk.json
           /\ f = "row" => disk'.column = disk.column
           /\ \/ pc' = "write" /\ file' = f
              \/ len = size /\ pc' = "create" /\ f = "row" /\ file' = "column"
              \/ len = size /\ pc' = "create" /\ f = "column" /\ file' = "json"
<1>1. /\ pc = "write" /\ file = f /\ Same
      /\ disk' = [disk EXCEPT ![f] = {Bytes(len, Prefix(live, len), step)}]
      /\ IF len = size THEN NextFile ELSE UNCHANGED <<pc, file>>
  BY DEF WriteBytes, memory, mishaps, Same
<1>2. disk'.json = disk.json /\ (f = "row" => disk'.column = disk.column)
  BY <1>1 DEF IInv, DiskShape
<1> QED
  BY <1>1, <1>2, Order

\* The row is written.
LEMMA BitWriteRow == IInv /\ MemInv /\ BitInv /\ WriteRow => BitInv'
<1> SUFFICES ASSUME IInv, MemInv, BitInv, WriteRow PROVE BitInv'
  OBVIOUS
<1>1. PICK len \in 0 .. rowLen : WriteBytes("row", row, rowLen, len)
  BY DEF WriteRow
<1>2. /\ pc = "write" /\ file = "row" /\ Same
      /\ disk' = [disk EXCEPT !["row"] = {Bytes(len, Prefix(row, len), step)}]
      /\ disk'.json = disk.json /\ disk'.column = disk.column
      /\ pc' = "write" \/ (pc' = "create" /\ file' = "column")
  BY <1>1, WriteIs
<1>3. MemoryIsRight'
  BY <1>2, RightKept DEF BitInv
<1>4. DiskIsRight'
  BY <1>2 DEF DiskIsRight, Unfinished, SaveOrder
<1>5. EarlyBits'
  BY <1>2, PrefixEarly, EarlyRewritten DEF BitInv
<1>6. BitsServed'
  BY <1>2 DEF BitInv, BitsServed, Same, mishaps
<1> QED
  BY <1>3, <1>4, <1>5, <1>6 DEF BitInv

\* A longer column holds the centre cells of fewer steps too.
LEMMA CentreGrows ==
    ASSUME NEW m \in Nat, NEW n \in Nat, m <= n
    PROVE  CentreBefore(m) \subseteq CentreBefore(n)
BY DEF CentreBefore

\* The column is written.
LEMMA BitWriteColumn == IInv /\ MemInv /\ BitInv /\ WriteColumn => BitInv'
<1> SUFFICES ASSUME IInv, MemInv, BitInv, WriteColumn PROVE BitInv'
  OBVIOUS
<1>1. PICK len \in 0 .. columnLen : WriteBytes("column", column, columnLen, len)
  BY DEF WriteColumn
<1>2. /\ pc = "write" /\ file = "column" /\ Same
      /\ disk' = [disk EXCEPT !["column"] = {Bytes(len, Prefix(column, len), step)}]
      /\ disk'.json = disk.json
      /\ \/ pc' = "write" /\ file' = "column"
         \/ pc' = "create" /\ file' = "json" /\ len = columnLen
  BY <1>1, WriteIs
<1>3. MemoryIsRight'
  BY <1>2, RightKept DEF BitInv
<1>4. DiskIsRight'
  BY <1>2 DEF DiskIsRight, Unfinished, SaveOrder
<1>5. EarlyBits'
  BY <1>2, PrefixEarly, EarlyRewritten DEF BitInv
<1>6. BitsServed'
  <2> SUFFICES ASSUME NEW j \in disk.json, j.whole, j.current, errors = 0, crashes = 0,
                      pc' = "create"
               PROVE  \A b \in disk'.column : CentreBefore(j.step) \subseteq b.live
    BY <1>2 DEF BitsServed, Same, mishaps
  <2>1. column = CentreBefore(step)
    BY <1>2 DEF BitInv, MemoryIsRight, Right
  <2>2. InBuffer(column, columnLen) /\ columnLen \in Nat
    BY DEF MemInv, Memory, InBuffer
  <2>3. Prefix(column, columnLen) = column
    BY <2>2, PrefixIs
  <2>4. disk'["column"] = {Bytes(columnLen, column, step)}
    BY <1>2, <2>3 DEF IInv, DiskShape
  <2>5. j.step \in Nat /\ step \in Nat /\ j.step <= step
    BY <1>2 DEF IInv, JsonTells, StepNeverBack, MemoryNotBehind
  <2>6. CentreBefore(j.step) \subseteq column
    BY <2>1, <2>5, CentreGrows
  <2>7. Bytes(columnLen, column, step).live = column
    BY DEF Bytes
  <2> QED
    BY <2>4, <2>6, <2>7
<1> QED
  BY <1>3, <1>4, <1>5, <1>6 DEF BitInv

\* A save_state that ends has written what is in memory.
LEMMA BitWriteJson == IInv /\ MemInv /\ BitInv /\ WriteJson => BitInv'
<1> SUFFICES ASSUME IInv, MemInv, BitInv, WriteJson PROVE BitInv'
  OBVIOUS
<1>1. /\ pc = "write" /\ file = "json" /\ Same /\ pc' = "idle"
      /\ disk' = [disk EXCEPT !.json = {Json(TRUE, step, TRUE)}]
  BY Order DEF WriteJson, StepToSave, memory, mishaps, Same
<1>2. /\ disk'.json = {Json(TRUE, step, TRUE)}
      /\ disk'["row"] = disk["row"] /\ disk'["column"] = disk["column"]
  BY <1>1 DEF IInv, DiskShape
<1>3. /\ disk'["row"] = {Bytes(rowLen, row, step)}
      /\ disk'["column"] = {Bytes(columnLen, column, step)}
  BY <1>1, <1>2 DEF MemInv, Written
<1>4. \A j \in disk'.json : j.whole /\ j.current /\ j.step = step
  BY <1>2, JsonFields
<1>5. /\ \A b \in disk'["row"] : b.live = row
      /\ \A b \in disk'["column"] : b.live = column
      /\ disk'["row"] # {} /\ disk'["column"] # {}
  BY <1>3 DEF Bytes
<1>6. step \in Nat
  BY BoundsAssumption DEF MemInv, Memory
<1>7. MemoryIsRight'
  BY <1>1, RightKept DEF BitInv
<1>8. DiskIsRight'
  <2> SUFFICES ASSUME errors = 0, crashes = 0
               PROVE  /\ \E b \in disk'["row"] : b.live = RowOfStep(step - 1)
                      /\ \E b \in disk'["column"] : b.live = CentreBefore(step)
    BY <1>1, <1>4 DEF DiskIsRight, Same
  <2>1. row = RowOfStep(step - 1) /\ column = CentreBefore(step)
    BY <1>1 DEF BitInv, MemoryIsRight, Right
  <2> QED
    BY <1>5, <2>1
<1>9. BitsServed'
  <2> SUFFICES ASSUME errors = 0, crashes = 0
               PROVE  \A b \in disk'["column"] : CentreBefore(step) \subseteq b.live
    BY <1>1, <1>4 DEF BitsServed, Same, mishaps
  <2>1. column = CentreBefore(step)
    BY <1>1 DEF BitInv, MemoryIsRight, Right
  <2> QED
    BY <1>5, <2>1
<1>10. EarlyBits'
  <2> SUFFICES ASSUME errors = 0, step = 1
               PROVE  /\ step <= 2 /\ row \in SUBSET (0 .. 7) /\ column \in SUBSET (0 .. 7)
                      /\ \A b \in disk'["row"] \cup disk'["column"] :
                            b.live \in SUBSET (0 .. 7)
    <3>1. disk'.json # {}
      BY <1>2
    <3>2. Early' => step = 1
      BY <1>4, <3>1 DEF Early
    <3> QED
      BY <1>1, <3>2 DEF EarlyBits, Same
  <2>1. Right
    BY <1>1 DEF BitInv, MemoryIsRight
  <2>2. row = {0} /\ column = {0}
    BY <2>1, FirstRow DEF Right
  <2> QED
    BY <1>5, <2>2
<1> QED
  BY <1>7, <1>8, <1>9, <1>10 DEF BitInv

\* A save fails.
LEMMA BitFails == IInv /\ MemInv /\ BitInv /\ SaveFails => BitInv'
<1> SUFFICES ASSUME IInv, MemInv, BitInv, SaveFails PROVE BitInv'
  OBVIOUS
<1>1. errors' = errors + 1 /\ errors \in Nat
  BY DEF SaveFails, MemInv, Control
<1>2. errors' # 0
  BY <1>1
<1> QED
  BY <1>2 DEF BitInv, MemoryIsRight, EarlyBits, DiskIsRight, BitsServed, mishaps

\* A process that dies between two save_states leaves the files right.
LEMMA BitCrash == IInv /\ MemInv /\ BitInv /\ Crash => BitInv'
<1> SUFFICES ASSUME IInv, MemInv, BitInv, Crash PROVE BitInv'
  OBVIOUS
<1>1. /\ pc' = "down" /\ step' = 0 /\ disk' = disk /\ errors' = errors
      /\ (Unfinished => crashes' = crashes + 1) /\ (~Unfinished => crashes' = crashes)
      /\ crashes \in Nat
  BY DEF Crash, MemInv, Control
<1>2. Unfinished => crashes' # 0
  BY <1>1
<1>3. MemoryIsRight'
  BY <1>1 DEF MemoryIsRight
<1>4. EarlyBits'
  BY <1>1 DEF BitInv, EarlyBits, Early, Outdated
<1>5. DiskIsRight' /\ BitsServed'
  <2>1. CASE Unfinished
    BY <1>2, <2>1 DEF DiskIsRight, BitsServed, mishaps
  <2>2. CASE ~Unfinished
    <3>1. pc # "write" /\ ~Unfinished'
      BY <1>1, <2>2 DEF Unfinished
    <3> QED
      BY <1>1, <2>2, <3>1, FilesKept DEF BitInv
  <2> QED
    BY <2>1, <2>2
<1> QED
  BY <1>3, <1>4, <1>5 DEF BitInv

\* Every step keeps it.
LEMMA BitStep == IInv /\ MemInv /\ BitInv /\ [Next]_vars => BitInv'
<1> SUFFICES ASSUME IInv, MemInv, BitInv, [Next]_vars PROVE BitInv'
  OBVIOUS
<1>1. CASE UNCHANGED vars
  BY <1>1 DEF vars, memory, history, mishaps, BitInv, MemoryIsRight, Right, EarlyBits, Early,
              Outdated, DiskIsRight, Unfinished, BitsServed
<1> QED
  BY <1>1, BitDiscard, BitStart, BitDoStep, BitSyncSave, BitCreate, BitWriteRow,
     BitWriteColumn, BitWriteJson, BitFails, BitCrash DEF Next

\* Before the first start.
LEMMA BitInit == Init => BitInv
<1> SUFFICES ASSUME Init PROVE BitInv
  OBVIOUS
<1>1. pc = "down" /\ step = 0
  BY DEF Init
<1>2. \A j \in disk.json : j.whole /\ ~j.current
  <2>1. CASE disk = [row |-> Missing, column |-> Missing, json |-> Missing]
    BY <2>1 DEF Missing
  <2>2. CASE disk = [row |-> {Bytes(2, {9}, 0)}, column |-> {Bytes(1, {3}, 0)},
                     json |-> {Json(TRUE, 4, FALSE)}]
    <3>1. disk.json = {Json(TRUE, 4, FALSE)}
      BY <2>2
    <3> QED
      BY <3>1, JsonFields
  <2> QED
    BY <2>1, <2>2 DEF Init
<1>3. Outdated \/ (disk.row = {} /\ disk.column = {})
  <2>1. CASE disk = [row |-> Missing, column |-> Missing, json |-> Missing]
    BY <2>1 DEF Missing
  <2>2. CASE disk = [row |-> {Bytes(2, {9}, 0)}, column |-> {Bytes(1, {3}, 0)},
                     json |-> {Json(TRUE, 4, FALSE)}]
    BY <2>2, JsonFields DEF Outdated
  <2> QED
    BY <2>1, <2>2 DEF Init
<1>4. MemoryIsRight /\ DiskIsRight /\ BitsServed
  BY <1>1, <1>2 DEF MemoryIsRight, DiskIsRight, BitsServed
<1>5. EarlyBits
  BY <1>1, <1>3 DEF EarlyBits
<1> QED
  BY <1>4, <1>5 DEF BitInv

-------------------------------------------------------------------------------
\* What is in memory and on disk, and which bits.
THEOREM BitsInvariant == Spec => [](IInv /\ MemInv /\ BitInv)
BY Initially, Inductive, MemInit, MemStep, BitInit, BitStep, PTL DEF Spec

\* Every variable has its type: no live bit is beyond its buffer, and a file
\* has one content at most, whatever was written over what.
THEOREM TypeCorrect == Spec => []TypeOK
<1>1. ASSUME IInv, MemInv PROVE TypeOK
  <2>1. ASSUME NEW S, \A a, b \in S : a = b PROVE Cardinality(S) <= 1
    <3>1. CASE S = {}
      BY <3>1, FS_EmptySet
    <3>2. CASE S # {}
      <4>1. PICK a \in S : TRUE
        BY <3>2
      <4>2. S = {a}
        BY <2>1, <4>1
      <4>3. Cardinality({a}) = 1
        BY FS_Singleton
      <4> QED
        BY <4>2, <4>3
    <3> QED
      BY <3>1, <3>2
  <2>2. \A a, b \in disk["row"] : a = b
    BY <1>1 DEF MemInv, FileShape
  <2>3. \A a, b \in disk["column"] : a = b
    BY <1>1 DEF MemInv, FileShape
  <2>4. \A a, b \in disk.json : a = b
    BY <1>1 DEF IInv, JsonTells
  <2>5. /\ Cardinality(disk.row) <= 1 /\ Cardinality(disk.column) <= 1
        /\ Cardinality(disk.json) <= 1
    BY <2>1, <2>2, <2>3, <2>4
  <2>6. \A b \in disk.row \cup disk.column :
           b.len \in Nat /\ b.live \subseteq 0 .. 8 * b.len - 1 /\ b.of \in Nat
    BY <1>1 DEF MemInv, FileShape, InBuffer
  <2>7. \A j \in disk.json : j.whole \in BOOLEAN /\ j.step \in Nat /\ j.current \in BOOLEAN
    BY <1>1 DEF MemInv, JsonShape, JsonsShaped
  <2>8. /\ step \in 0 .. MaxStep
        /\ rowLen \in Nat /\ row \subseteq 0 .. 8 * rowLen - 1
        /\ columnLen \in Nat /\ column \subseteq 0 .. 8 * columnLen - 1
    BY <1>1 DEF MemInv, Memory, InBuffer
  <2> QED
    BY <1>1, <2>5, <2>6, <2>7, <2>8
       DEF MemInv, Control, IInv, Progress, MemoryNotBehind, TypeOK
<1> QED
  BY <1>1, BitsInvariant, PTL

\* A save_state that succeeds leaves files from which the memory is restored as
\* it is, whatever failed before and however large the buffers have grown.
THEOREM RestoresMemory == Spec => []SaveRestores
<1>1. ASSUME MemInv PROVE SaveRestores
  <2> SUFFICES ASSUME saved PROVE SaveRestores
    BY DEF SaveRestores
  <2>1. /\ disk.row = {Bytes(rowLen, row, step)}
        /\ disk.column = {Bytes(columnLen, column, step)}
        /\ disk.json = {Json(TRUE, step, TRUE)}
        /\ pc = "idle"
    BY <1>1 DEF MemInv, Written, Control
  <2>2. ASSUME NEW len, NEW live, live \in SUBSET Nat,
               step = 1 => live \cap (0 .. 7) = {0}
        PROVE  Buffer({Bytes(len, live, step)}, len, step) = [len |-> len, live |-> live]
    <3>1. Bytes(len, live, step).len = len /\ Bytes(len, live, step).live = live
      BY DEF Bytes
    <3>2. ReadOrZeros({Bytes(len, live, step)}, len) = [len |-> len, live |-> live]
      BY <3>1, ReadIs
    <3>3. ASSUME step = 1 PROVE ({p \in live : p >= 8} \cup {0}) = live
      <4>1. \A p : p \in live \cap (0 .. 7) <=> p = 0
        BY <2>2, <3>3
      <4>2. \A p \in live : p \in Nat /\ (p >= 8 \/ p \in 0 .. 7)
        BY <2>2
      <4> QED
        BY <4>1, <4>2
    <3> DEFINE content == {Bytes(len, live, step)}
    <3> HIDE DEF content
    <3>4. ReadOrZeros(content, len) = [len |-> len, live |-> live]
      BY <3>2 DEF content
    <3>5. Buffer(content, len, step)
             = [len |-> len, live |-> IF step = 1 THEN {p \in live : p >= 8} \cup {0} ELSE live]
      BY <3>4 DEF Buffer
    <3>6. Buffer(content, len, step) = [len |-> len, live |-> live]
      BY <3>3, <3>5
    <3> QED
      BY <3>6 DEF content
  <2>3. row \in SUBSET Nat /\ column \in SUBSET Nat
    BY <1>1 DEF MemInv, Memory, InBuffer
  <2>4. step = 1 => row \cap (0 .. 7) = {0} /\ column \cap (0 .. 7) = {0}
    BY <1>1, <2>1 DEF MemInv, FirstByte
  <2>5. Buffer(disk.row, rowLen, step) = [len |-> rowLen, live |-> row]
    BY <2>1, <2>2, <2>3, <2>4
  <2>6. Buffer(disk.column, columnLen, step) = [len |-> columnLen, live |-> column]
    BY <2>1, <2>2, <2>3, <2>4
  <2> QED
    BY <2>1, <2>5, <2>6 DEF SaveRestores
<1> QED
  BY <1>1, BitsInvariant, PTL

\* Without a failure in a save_state the memory of a validator between two
\* steps is the row and the centre column of Rule 30, for any number of steps,
\* deaths between two save_states and restarts; and in step 1 after any number
\* of deaths within one.
THEOREM RightWithoutFailures == Spec => []RightWithoutMishap
<1>1. BitInv => RightWithoutMishap
  BY DEF BitInv, MemoryIsRight, Right, RightWithoutMishap, MemoryRight, mishaps
<1> QED
  BY <1>1, BitsInvariant, PTL

\* What the HTTP service reads after the step is the centre cell of every row
\* before that step.
THEOREM ServedBits == Spec => []BitsServed
<1>1. BitInv => BitsServed
  BY DEF BitInv
<1> QED
  BY <1>1, BitsInvariant, PTL

\* The miner's words and the validator's bytes compute the same, for every
\* row, every chunk of it and every size of a word.
THEOREM SolverMatchesVerifier == Spec => []SolverAgrees
<1>1. ASSUME MemInv PROVE SolverAgrees
  <2> SUFFICES ASSUME NEW from \in 0 .. ByteCount(step) - 1,
                      NEW to \in from + 1 .. ByteCount(step)
               PROVE  LET chunk == [i \in 1 .. to - from |-> RowByte(row, from + i - 1)]
                          last == IF from = 0 THEN {} ELSE RowByte(row, from - 1)
                          next == EvolveBytes(row, ByteCount(step))
                      IN  /\ Solve(chunk, last, WordBytes) = Expected(chunk, last)
                          /\ \A i \in DOMAIN chunk :
                                Expected(chunk, last)[i] = RowByte(next, from + i - 1)
    BY DEF SolverAgrees
  <2>1. step \in Nat /\ row \in SUBSET Nat
    BY <1>1, BoundsAssumption DEF MemInv, Memory, InBuffer
  <2>2. ByteCount(step) \in Nat
    BY <2>1, SizesEnough
  <2> DEFINE chunk == [i \in 1 .. to - from |-> RowByte(row, from + i - 1)]
             last == IF from = 0 THEN {} ELSE RowByte(row, from - 1)
  <2>3. \A i : RowByte(row, i) \in SUBSET (0 .. 7)
    BY DEF RowByte
  <2>4. to - from \in Nat
    BY <2>2
  <2>5. chunk \in [1 .. to - from -> SUBSET (0 .. 7)] /\ last \in SUBSET (0 .. 7)
    BY <2>3
  <2>6. WordBytes \in Nat \ {0}
    BY BoundsAssumption
  <2>7. Solve(chunk, last, WordBytes) = Expected(chunk, last)
    <3> HIDE DEF chunk, last
    <3> QED
      BY <2>4, <2>5, <2>6, SolveIsExpected
  <2>8. \A i \in 1 .. to - from :
            Expected(chunk, last)[i] = RowByte(EvolveBytes(row, ByteCount(step)), from + i - 1)
    BY <2>1, <2>2, ExpectedIsNext
  <2> QED
    BY <2>7, <2>8
<1> QED
  BY <1>1, BitsInvariant, PTL
================================================================================
