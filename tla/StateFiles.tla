------------------------------ MODULE StateFiles ------------------------------
(***************************************************************************)
(* The validator's memory and its three state files: save_state writes     *)
(* current_row.bin, center_column.bin and data.json one after the other,   *)
(* without a temporary file; Validator::new reads them back; the HTTP      *)
(* service reads data.json and center_column.bin whenever it is asked.     *)
(* The process may die, and any file operation may fail, at any point.     *)
(*                                                                         *)
(* A step is one action here (WorkPool has its parts).  Rows are real      *)
(* rows: sets of live bits, of a number of bytes.                          *)
(***************************************************************************)
EXTENDS RowLayout, Rule30, FiniteSets, Sequences

CONSTANTS WordBytes,     \* 8: bytes of a miner's Word
          MaxStep,       \* bound: no step is computed from here on
          MaxMishaps     \* bound: failures and deaths within save_state

ASSUME BoundsAssumption ==
    WordBytes \in Nat \ {0} /\ MaxStep \in Nat \ {0} /\ MaxMishaps \in Nat

VARIABLES
    pc,         \* "down", "idle", or within save_state "create", "write"
    file,       \* the file save_state is at
    step,       \* Validator.step
    row,        \* live bits of Validator.current_row
    rowLen,     \* its length in bytes
    column,     \* live bits of Validator.center_column
    columnLen,  \* its length in bytes
    disk,       \* the state files
    saved,      \* history: memory is what the last save_state wrote
    published,  \* history: the highest step data.json ever told
    crashes,    \* history: how often the process died in a save_state
    errors      \* history: how often a save_state failed

memory == <<step, row, rowLen, column, columnLen>>
mishaps == <<crashes, errors>>
history == <<saved, published, mishaps>>
vars == <<pc, file, memory, disk, history>>

-------------------------------------------------------------------------------
\* A file is {} when missing and {content} otherwise.  `of` is history: the
\* step in memory when the writing of the content began.  A JSON text that is
\* not whole does not parse.
Missing == {}
Bytes(len, live, of) == [len |-> len, live |-> live, of |-> of]
Json(whole, s, current) == [whole |-> whole, step |-> s, current |-> current]

Prefix(live, len) == {p \in live : p < 8 * len}

SaveOrder_StepFirst == <<"json", "row", "column">>

\* save_state writes the files in this order.
SaveOrder == <<"row", "column", "json">>

\* save_state starts, and goes on when its file is written.
SaveState == pc' = "create" /\ file' = SaveOrder[1]

NextFile ==
    \/ \E i \in 1 .. 2 : /\ file = SaveOrder[i]
                         /\ pc' = "create" /\ file' = SaveOrder[i + 1]
    \/ file = SaveOrder[3] /\ pc' = "idle" /\ file' = "none"

\* Nothing was ever saved, or the files are of another DATA_SPEC_VERSION.
Init ==
    /\ pc = "down"
    /\ file = "none"
    /\ step = 0 /\ row = {} /\ rowLen = 0 /\ column = {} /\ columnLen = 0
    /\ disk \in {[row |-> Missing, column |-> Missing, json |-> Missing],
                 [row |-> {Bytes(2, {9}, 0)}, column |-> {Bytes(1, {3}, 0)},
                  json |-> {Json(TRUE, 4, FALSE)}]}
    /\ saved = FALSE
    /\ published = 0
    /\ crashes = 0 /\ errors = 0

-------------------------------------------------------------------------------
\* Validator::new

Outdated == \E j \in disk.json : j.whole /\ ~j.current

Loads_Default(json) == TRUE

\* load_state fails on a JSON text that does not parse, and new panics.
Loads(json) == \A j \in json : j.whole

\* No file, or one that was not written to the end by the current version, and
\* the validator starts from step 1.
LoadedStep(json) ==
    IF \E j \in json : j.whole /\ j.current
    THEN (CHOOSE j \in json : TRUE).step ELSE 1

\* Another data version: the row and then the column are removed.
DiscardRow ==
    /\ pc = "down"
    /\ Outdated
    /\ disk.row # Missing
    /\ disk' = [disk EXCEPT !.row = Missing]
    /\ UNCHANGED <<pc, file, memory, history>>

DiscardColumn ==
    /\ pc = "down"
    /\ Outdated
    /\ disk.row = Missing /\ disk.column # Missing
    /\ disk' = [disk EXCEPT !.column = Missing]
    /\ UNCHANGED <<pc, file, memory, history>>

ReadOrZeros(content, size) ==
    IF content = Missing THEN [len |-> size, live |-> {}]
    ELSE CHOOSE b \in {[len |-> f.len, live |-> f.live] : f \in content} : TRUE

\* A buffer read from its file, or zeros.  In step 1 its first byte is set.
Buffer(content, size, s) ==
    LET read == ReadOrZeros(content, size)
    IN  IF s = 1 THEN [read EXCEPT !.live = {p \in @ : p >= 8} \cup {0}]
        ELSE read

\* new panics when step 1 finds an empty buffer; the process is then down as
\* before.
Start ==
    LET s == LoadedStep(disk.json)
        r == Buffer(disk.row, CurrentRowSize(s), s)
        c == Buffer(disk.column, CenterColumnSize(s), s)
    IN  /\ pc = "down"
        /\ Loads(disk.json)
        /\ Outdated => disk.row = Missing /\ disk.column = Missing
        /\ s = 1 => r.len > 0 /\ c.len > 0
        /\ pc' = "idle"
        /\ step' = s
        /\ row' = r.live /\ rowLen' = r.len
        /\ column' = c.live /\ columnLen' = c.len
        /\ saved' = FALSE
        /\ UNCHANGED <<file, disk, published, mishaps>>

-------------------------------------------------------------------------------
\* do_step and sync

Grown_Never(len, size) == len

\* A buffer is only ever made longer.
Grown(len, size) == IF len < size THEN size ELSE len

\* do_step up to save_state: grow the buffers, evolve, copy the centre bit.
DoStep ==
    /\ pc = "idle"
    /\ step < MaxStep
    /\ rowLen' = Grown(rowLen, CurrentRowSize(step))
    /\ columnLen' = Grown(columnLen, CenterColumnSize(step))
    /\ row' = EvolveBytes(row, ByteCount(step))
    /\ column' = column \cup ({step} \cap row')
    /\ step' = step + 1
    /\ saved' = FALSE
    /\ SaveState
    /\ UNCHANGED <<disk, published, mishaps>>

\* sync saves too, before it reads the metagraph.
SyncSave ==
    /\ pc = "idle"
    /\ saved' = FALSE
    /\ SaveState
    /\ UNCHANGED <<memory, disk, published, mishaps>>

-------------------------------------------------------------------------------
\* save_state

\* File::create truncates.
CreateFile ==
    /\ pc = "create"
    /\ disk' = [disk EXCEPT ![file] =
                    {IF file = "json" THEN Json(FALSE, 0, TRUE)
                     ELSE Bytes(0, {}, step)}]
    /\ pc' = "write"
    /\ UNCHANGED <<file, memory, history>>

\* write_all has got as far as byte len of the buffer.
WriteBytes(f, live, size, len) ==
    /\ pc = "write"
    /\ file = f
    /\ len = size \/ \A b \in disk[f] : b.len < len
    /\ disk' = [disk EXCEPT ![f] = {Bytes(len, Prefix(live, len), step)}]
    /\ IF len = size THEN NextFile ELSE UNCHANGED <<pc, file>>
    /\ saved' = (pc' = "idle")
    /\ UNCHANGED <<memory, published, mishaps>>

WriteRow == \E len \in 0 .. rowLen : WriteBytes("row", row, rowLen, len)

WriteColumn ==
    \E len \in 0 .. columnLen : WriteBytes("column", column, columnLen, len)

StepToSave_Done == step - 1

\* The step the JSON text tells.
StepToSave == step

WriteJson ==
    /\ pc = "write"
    /\ file = "json"
    /\ disk' = [disk EXCEPT !.json = {Json(TRUE, StepToSave, TRUE)}]
    /\ NextFile
    /\ saved' = (pc' = "idle")
    /\ published' = IF published < StepToSave THEN StepToSave ELSE published
    /\ UNCHANGED <<memory, mishaps>>

\* A file operation fails: save_state returns the error with the file as it
\* is; the loop goes on with the memory as it is.
SaveFails ==
    /\ pc \in {"create", "write"}
    /\ pc' = "idle"
    /\ file' = "none"
    /\ crashes + errors < MaxMishaps
    /\ errors' = errors + 1
    /\ UNCHANGED <<memory, disk, saved, published, crashes>>

-------------------------------------------------------------------------------
\* save_state has touched its first file.
Unfinished == pc = "write" \/ (pc = "create" /\ file # SaveOrder[1])

\* The process dies.
Crash ==
    /\ pc # "down"
    /\ pc' = "down"
    /\ file' = "none"
    /\ step' = 0 /\ row' = {} /\ rowLen' = 0 /\ column' = {} /\ columnLen' = 0
    /\ IF Unfinished
       THEN crashes + errors < MaxMishaps /\ crashes' = crashes + 1
       ELSE UNCHANGED crashes
    /\ saved' = FALSE
    /\ UNCHANGED <<disk, published, errors>>

Next ==
    \/ DiscardRow \/ DiscardColumn \/ Start
    \/ DoStep \/ SyncSave
    \/ CreateFile \/ WriteRow \/ WriteColumn \/ WriteJson
    \/ SaveFails \/ Crash

Spec == Init /\ [][Next]_vars

-------------------------------------------------------------------------------
\* Type invariant.
TypeOK ==
    /\ pc \in {"down", "idle", "create", "write"}
    /\ file \in {"none", "row", "column", "json"}
    /\ file = "none" <=> pc \in {"down", "idle"}
    /\ step \in 0 .. MaxStep
    /\ rowLen \in Nat /\ row \subseteq 0 .. 8 * rowLen - 1
    /\ columnLen \in Nat /\ column \subseteq 0 .. 8 * columnLen - 1
    /\ Cardinality(disk.row) <= 1 /\ Cardinality(disk.column) <= 1
    /\ Cardinality(disk.json) <= 1
    /\ \A b \in disk.row \cup disk.column :
          b.len \in Nat /\ b.live \subseteq 0 .. 8 * b.len - 1 /\ b.of \in Nat
    /\ \A j \in disk.json :
          j.whole \in BOOLEAN /\ j.step \in Nat /\ j.current \in BOOLEAN
    /\ saved \in BOOLEAN
    /\ published \in Nat
    /\ crashes \in Nat /\ errors \in Nat

\* The memory of a validator between steps: the row before `step` of Rule 30,
\* and the centre cells of all rows up to it.
MemoryRight ==
    pc = "idle" => /\ row = RowOfStep(step - 1)
                   /\ column = CentreBefore(step)

\* Growing buffers, centre bits, saving, stopping between saves, removing files
\* of an old version and starting again any number of times keep the memory
\* right, and so does a death in the first save_state: the files it leaves are
\* overruled by step 1.
RightWithoutMishap == mishaps = <<0, 0>> \/ (step = 1 /\ errors = 0) => MemoryRight

\* Whatever failed before, a save_state that succeeds leaves files from which
\* the memory is restored as it is.
SaveRestores ==
    saved => /\ disk.json = {Json(TRUE, step, TRUE)}
             /\ Buffer(disk.row, rowLen, step) = [len |-> rowLen, live |-> row]
             /\ Buffer(disk.column, columnLen, step)
                    = [len |-> columnLen, live |-> column]

\* data.json never tells a step that the other two files were not written for:
\* a restart may find them ahead of the step, never behind it.
FilesNotBehind ==
    \A j \in disk.json : j.whole /\ j.current =>
        /\ \A b \in disk.row \cup disk.column : b.of >= j.step
        /\ disk.row # Missing /\ disk.column # Missing

\* A client of the HTTP service that reads the step and then the bits gets the
\* centre cells of all rows before that step, unless the file is just being
\* rewritten.
BitsServed ==
    \A j \in disk.json : j.whole /\ j.current /\ mishaps = <<0, 0>> =>
        (pc = "write" /\ file = "column")
            \/ \A b \in disk.column : CentreBefore(j.step) \subseteq b.live

\* The step in data.json never goes back, whatever fails.
StepNeverBack ==
    \A j \in disk.json : j.whole /\ j.current => j.step = published

\* A miner's Solver, which evolves words, and verify_result, which checks bytes,
\* agree on every chunk of the rows a validator may evolve, wherever the chunk
\* begins and ends in a word, and both compute Rule 30.
SolverAgrees ==
    pc = "idle" =>
        \A from \in 0 .. ByteCount(step) - 1 : \A to \in from + 1 .. ByteCount(step) :
            LET chunk == [i \in 1 .. to - from |-> RowByte(row, from + i - 1)]
                last == IF from = 0 THEN {} ELSE RowByte(row, from - 1)
                next == EvolveBytes(row, ByteCount(step))
            IN  /\ Solve(chunk, last, WordBytes) = Expected(chunk, last)
                /\ \A i \in DOMAIN chunk :
                      Expected(chunk, last)[i] = RowByte(next, from + i - 1)

\* "each computation has exactly one correct answer" (README), also after the
\* process died in a save_state.
RightAfterCrash == errors = 0 => MemoryRight
===============================================================================
