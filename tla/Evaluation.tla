----------------------------- MODULE Evaluation -----------------------------
(***************************************************************************)
(* The evaluation of the methods: scripts/evaluation/evaluation.py runs    *)
(* Main for every method on every subject in batches of raw results, and   *)
(* scripts/data-process/run.sh turns these into tables (json2table.py) and *)
(* average tables (mean.py).  The user starts both at any time, also side  *)
(* by side, and either may be stopped half way.                            *)
(*                                                                         *)
(* A raw file is what its status says, a table is the set of its cells     *)
(* that hold a number, and an average is the set of the batches whose      *)
(* values it is the mean of, {} standing for '-' and for no average at all. *)
(***************************************************************************)
EXTENDS Integers, Sequences, FiniteSets

CONSTANTS
    METHODS, SUTS, KEY_LISTS,  \* the lists of configuration.py
    REPEAT_NUM,                \* the number of batches
    Omitted,                   \* the <<method, key>> that Main's output lacks
    MaxStops                   \* bound on the times a script is stopped

Elements(list) == {list[k] : k \in 1 .. Len(list)}

\* A nonempty list without duplicates.
IsList(list) ==
    /\ list \in Seq(Elements(list))
    /\ list # <<>>
    /\ \A j, k \in 1 .. Len(list) : list[j] = list[k] => j = k

ASSUME EvaluationAssumption ==
    /\ IsList(METHODS) /\ IsList(SUTS) /\ IsList(KEY_LISTS)
    /\ REPEAT_NUM \in Nat /\ MaxStops \in Nat

VARIABLES
    dirs,      \* the batch directories that exist
    raw,       \* the raw files of each batch
    ev,        \* where evaluation.py is
    i,         \* its batch
    pos,       \* its position in METHODS x SUTS
    outcome,   \* what it is about to write
    tables,    \* the state of each table, per batch and key
    numbers,   \* the cells of that table that hold a number
    averaged,  \* the batches that each cell of an average table is the mean of
    dp,        \* where run.sh is
    batch,     \* the batch it is at
    key,       \* the position of its key in KEY_LISTS
    read,      \* what it is about to write
    stops,     \* how often evaluation.py has been stopped
    halts      \* how often the data scripts have been stopped

evaluatorVars == <<ev, i, pos, outcome, dirs, raw, stops>>
processVars   == <<dp, batch, key, read, tables, numbers, averaged, halts>>
vars == <<evaluatorVars, processVars>>

Batches  == 0 .. REPEAT_NUM - 1
Cells    == Elements(METHODS) \X Elements(SUTS)
Keys     == Elements(KEY_LISTS)
Recorded == {"success", "timeout", "error"}
File     == {"absent", "partial", "complete"}

\* The runs of one batch in the order of main_serial's loops.
Runs == Len(METHODS) * Len(SUTS)
CellAt(p) ==
    <<METHODS[((p - 1) \div Len(SUTS)) + 1], SUTS[((p - 1) % Len(SUTS)) + 1]>>

TypeOK ==
    /\ dirs \subseteq Batches
    /\ raw \in [Batches -> [Cells -> Recorded \cup {"absent", "partial"}]]
    /\ ev \in {"off", "batch", "experiment", "running", "saving", "done"}
    /\ i \in 0 .. REPEAT_NUM
    /\ pos \in 1 .. Runs + 1
    /\ outcome \in Recorded \cup {"none"}
    /\ tables \in [Batches \X Keys -> File]
    /\ numbers \in [Batches \X Keys -> SUBSET Cells]
    /\ averaged \in [Keys -> [Cells -> SUBSET Batches]]
    /\ dp \in {"off", "json2table", "write", "mean", "writeMean"}
    /\ batch \in 0 .. REPEAT_NUM
    /\ key \in 1 .. Len(KEY_LISTS) + 1
    /\ read \in [Cells -> SUBSET Batches]
    /\ stops \in 0 .. MaxStops
    /\ halts \in 0 .. MaxStops

NoMean == [c \in Cells |-> {}]

Init ==
    /\ dirs = {}
    /\ raw = [b \in Batches |-> [c \in Cells |-> "absent"]]
    /\ ev = "off" /\ i = 0 /\ pos = 1 /\ outcome = "none"
    /\ tables = [t \in Batches \X Keys |-> "absent"]
    /\ numbers = [t \in Batches \X Keys |-> {}]
    /\ averaged = [k \in Keys |-> NoMean]
    /\ dp = "off" /\ batch = 0 /\ key = 1 /\ read = NoMean
    /\ stops = 0 /\ halts = 0

-----------------------------------------------------------------------------
(***************************************************************************)
(* evaluation.py                                                           *)
(***************************************************************************)
Evaluate ==
    /\ ev \in {"off", "done"}
    /\ ev' = "batch"
    /\ UNCHANGED <<processVars, stops, i, pos, outcome, dirs, raw>>

\* The batch directory exists: the batch is skipped.
SkipBatch ==
    /\ ev = "batch"
    /\ i \in dirs
    /\ i' = i + 1
    /\ UNCHANGED <<processVars, stops, ev, pos, outcome, dirs, raw>>

\* Mutant: the batch is run although its directory exists.
MakeAgain ==
    /\ ev = "batch"
    /\ i < REPEAT_NUM
    /\ dirs' = dirs \cup {i}
    /\ ev' = "experiment"
    /\ UNCHANGED <<processVars, stops, i, pos, outcome, raw>>

\* Mutant: all the directories are made before the first batch.
MakeAll ==
    /\ ev = "batch"
    /\ i < REPEAT_NUM
    /\ i \notin dirs
    /\ dirs' = Batches
    /\ ev' = "experiment"
    /\ UNCHANGED <<processVars, stops, i, pos, outcome, raw>>

MakeBatch ==
    /\ ev = "batch"
    /\ i < REPEAT_NUM
    /\ i \notin dirs
    /\ dirs' = dirs \cup {i}
    /\ ev' = "experiment"
    /\ UNCHANGED <<processVars, stops, i, pos, outcome, raw>>

\* subprocess.run starts Main.
Launch ==
    /\ ev = "experiment"
    /\ pos <= Runs
    /\ ev' = "running"
    /\ UNCHANGED <<processVars, stops, i, pos, outcome, dirs, raw>>

\* open(output_file, "w") empties the file before json.dump fills it.
OpenOutput(result) ==
    /\ ev' = "saving"
    /\ outcome' = result
    /\ raw' = [raw EXCEPT ![i][CellAt(pos)] = "partial"]
    /\ UNCHANGED <<processVars, stops, i, pos, dirs>>

\* Main prints its result and exits, or it exits with 1 on an exception or when
\* it runs out of memory, or its output is no JSON.
MainExits ==
    /\ ev = "running"
    /\ \E result \in {"success", "error"} : OpenOutput(result)

\* Mutant: no timeout is given.
NeverExpires ==
    /\ FALSE
    /\ OpenOutput("timeout")

\* subprocess.run kills Main after TIMEOUT_SECONDS.
TimeoutExpired ==
    /\ ev = "running"
    /\ OpenOutput("timeout")

Save ==
    /\ ev = "saving"
    /\ raw' = [raw EXCEPT ![i][CellAt(pos)] = outcome]
    /\ outcome' = "none"
    /\ pos' = pos + 1
    /\ ev' = "experiment"
    /\ UNCHANGED <<processVars, stops, i, dirs>>

EndBatch ==
    /\ ev = "experiment"
    /\ pos > Runs
    /\ i' = i + 1
    /\ pos' = 1
    /\ ev' = "batch"
    /\ UNCHANGED <<processVars, stops, outcome, dirs, raw>>

EndEvaluation ==
    /\ ev = "batch"
    /\ i = REPEAT_NUM
    /\ ev' = "done"
    /\ i' = 0
    /\ UNCHANGED <<processVars, stops, pos, outcome, dirs, raw>>

\* The script is killed or dies of an exception that nobody catches, such as the
\* KeyError of a subject that SUBJECTS_DICT lacks.
StopEvaluation ==
    /\ ev \notin {"off", "done"}
    /\ stops + halts < MaxStops
    /\ stops' = stops + 1
    /\ ev' = "off"
    /\ i' = 0 /\ pos' = 1 /\ outcome' = "none"
    /\ UNCHANGED <<processVars, dirs, raw>>

-----------------------------------------------------------------------------
(***************************************************************************)
(* json2table.py and mean.py                                               *)
(***************************************************************************)
KeyAt == KEY_LISTS[key]

\* The user starts run.sh, or one of the scripts alone.
Process ==
    /\ dp = "off"
    /\ dp' \in {"json2table", "mean"}
    /\ UNCHANGED <<evaluatorVars, halts, batch, key, read, tables, numbers, averaged>>

\* Mutant: the loop goes one batch too far.
SkipTooFar ==
    /\ dp = "json2table"
    /\ batch <= REPEAT_NUM
    /\ batch \notin dirs
    /\ batch' = batch + 1
    /\ UNCHANGED <<evaluatorVars, halts, dp, key, read, tables, numbers, averaged>>

\* A batch directory that does not exist is skipped.
SkipAbsent ==
    /\ dp = "json2table"
    /\ batch < REPEAT_NUM
    /\ batch \notin dirs
    /\ batch' = batch + 1
    /\ UNCHANGED <<evaluatorVars, halts, dp, key, read, tables, numbers, averaged>>

\* read_json of a raw file yields a number.
HasNumber(b, c) == raw[b][c] = "success" /\ <<c[1], KeyAt>> \notin Omitted

\* process_json_files, then open(filename, 'w').  The files appear one after the
\* other and only the last can change after the directory has been listed, so
\* reading them in one step loses nothing.
ReadBatch ==
    /\ dp = "json2table"
    /\ batch < REPEAT_NUM
    /\ batch \in dirs
    /\ read' = [c \in Cells |-> IF HasNumber(batch, c) THEN {batch} ELSE {}]
    /\ tables' = [tables EXCEPT ![<<batch, KeyAt>>] = "partial"]
    /\ numbers' = [numbers EXCEPT ![<<batch, KeyAt>>] = {}]
    /\ dp' = "write"
    /\ UNCHANGED <<evaluatorVars, halts, batch, key, averaged>>

\* write_to_csv, and on to the next key or batch.
WriteTable ==
    /\ dp = "write"
    /\ tables' = [tables EXCEPT ![<<batch, KeyAt>>] = "complete"]
    /\ numbers' = [numbers EXCEPT ![<<batch, KeyAt>>] = {c \in Cells : read[c] # {}}]
    /\ read' = NoMean
    /\ IF key < Len(KEY_LISTS)
       THEN key' = key + 1 /\ UNCHANGED batch
       ELSE key' = 1 /\ batch' = batch + 1
    /\ dp' = "json2table"
    /\ UNCHANGED <<evaluatorVars, halts, averaged>>

\* json2table.py ends; run.sh goes on with mean.py.
EndTables ==
    /\ dp = "json2table"
    /\ batch = REPEAT_NUM
    /\ dp' \in {"mean", "off"}
    /\ batch' = 0
    /\ UNCHANGED <<evaluatorVars, halts, key, read, tables, numbers, averaged>>

\* The tables that have all their rows; any other are skipped with a warning.
Usable == {b \in dirs : tables[<<b, KeyAt>>] = "complete"}

SkipKey ==
    /\ dp = "mean"
    /\ key <= Len(KEY_LISTS)
    /\ Usable = {}
    /\ key' = key + 1
    /\ UNCHANGED <<evaluatorVars, halts, dp, batch, read, tables, numbers, averaged>>

\* Mutant: '-' only where no batch has a value.
MeanOfAny(c) == {b \in Usable : c \in numbers[<<b, KeyAt>>]}

\* A cell of the average table is '-' if it is '-' in any usable table.
Mean(c) == IF \A b \in Usable : c \in numbers[<<b, KeyAt>>] THEN Usable ELSE {}

\* compute_average_for_csv up to open(output_path, 'w').
ReadTables ==
    /\ dp = "mean"
    /\ key <= Len(KEY_LISTS)
    /\ Usable # {}
    /\ read' = [c \in Cells |-> Mean(c)]
    /\ averaged' = [averaged EXCEPT ![KeyAt] = NoMean]
    /\ dp' = "writeMean"
    /\ UNCHANGED <<evaluatorVars, halts, batch, key, tables, numbers>>

WriteAverages ==
    /\ dp = "writeMean"
    /\ averaged' = [averaged EXCEPT ![KeyAt] = read]
    /\ read' = NoMean
    /\ key' = key + 1
    /\ dp' = "mean"
    /\ UNCHANGED <<evaluatorVars, halts, batch, tables, numbers>>

EndMean ==
    /\ dp = "mean"
    /\ key > Len(KEY_LISTS)
    /\ dp' = "off"
    /\ key' = 1
    /\ UNCHANGED <<evaluatorVars, halts, batch, read, tables, numbers, averaged>>

StopProcess ==
    /\ dp # "off"
    /\ stops + halts < MaxStops
    /\ halts' = halts + 1
    /\ dp' = "off"
    /\ batch' = 0 /\ key' = 1 /\ read' = NoMean
    /\ UNCHANGED <<evaluatorVars, tables, numbers, averaged>>

-----------------------------------------------------------------------------
\* What the scripts do by themselves once started.  Main may not come back.
EvaluatorStep ==
    \/ SkipBatch \/ MakeBatch \/ Launch \/ TimeoutExpired
    \/ Save \/ EndBatch \/ EndEvaluation

ProcessStep ==
    \/ SkipAbsent \/ ReadBatch \/ WriteTable \/ EndTables
    \/ SkipKey \/ ReadTables \/ WriteAverages \/ EndMean

Next ==
    \/ EvaluatorStep \/ ProcessStep
    \/ MainExits
    \/ Evaluate \/ Process
    \/ StopEvaluation \/ StopProcess

Spec == Init /\ [][Next]_vars /\ WF_vars(EvaluatorStep) /\ WF_vars(ProcessStep)

-----------------------------------------------------------------------------
(***************************************************************************)
(* Properties.                                                             *)
(***************************************************************************)

\* A raw result that has been written stays as it is, however often the user
\* stops the evaluation and starts it again (the existing-directory check of
\* evaluation.py).
RecordedResultsStay ==
    [][\A b \in Batches, c \in Cells :
          raw[b][c] \in Recorded => raw'[b][c] = raw[b][c]]_vars

\* An average that is a number is the mean over batches in each of which the run
\* succeeded, and the averages of one table are over the same batches, so that
\* its methods can be compared: however old the tables that mean.py finds are,
\* and whatever was stopped half way.
AveragesAreOfSuccesses ==
    \A k \in Keys : \A c \in Cells :
        /\ \A b \in averaged[k][c] : raw[b][c] = "success"
        /\ \A d \in Cells :
              averaged[k][c] # {} /\ averaged[k][d] # {} =>
                  averaged[k][c] = averaged[k][d]

\* When an evaluation has come to its end, the batches that lack a result are at
\* most as many as the times evaluation.py was stopped: each stop costs one batch,
\* and whatever becomes of the data scripts costs none.
OneBatchLostPerStop ==
    ev = "done" =>
        Cardinality({b \in Batches : \E c \in Cells : raw[b][c] \notin Recorded}) <= stops

\* Every evaluation ends, though Main may hang, and so does the processing.
ScriptsEnd ==
    /\ (ev \notin {"off", "done"}) ~> (ev \in {"off", "done"})
    /\ (dp # "off") ~> (dp = "off")

\* The README of the repository: evaluation runs "all methods on all SUTs", and
\* "each run produces a `json` file".
EachRunProducesJson ==
    ev = "done" => \A b \in Batches, c \in Cells : raw[b][c] \in Recorded
=============================================================================
