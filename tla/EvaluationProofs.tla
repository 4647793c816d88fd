-------------------------- MODULE EvaluationProofs --------------------------
(***************************************************************************)
(* What the evaluation keeps, for every number of batches, methods,        *)
(* subjects and keys, and every number of stops: raw results stay as they  *)
(* were written, averages are means over successful runs, and each stop    *)
(* costs at most one batch.                                                *)
(***************************************************************************)
EXTENDS Evaluation, FiniteSetTheorems, TLAPS

(***************************************************************************)
(* The order of the runs in a batch.                                       *)
(***************************************************************************)

\* A number is determined by its quotient and its remainder.
LEMMA DivMod ==
    ASSUME NEW n \in Nat, NEW L \in Nat \ {0}
    PROVE  /\ n \div L \in Nat
           /\ n % L \in 0 .. L - 1
           /\ n = L * (n \div L) + (n % L)
  OBVIOUS

\* The quotients of the numbers below a product.
LEMMA DivBound ==
    ASSUME NEW n \in Nat, NEW L \in Nat \ {0}, NEW M \in Nat, n < M * L
    PROVE  n \div L < M
  OBVIOUS

\* Every quotient and every remainder belong to a number below the product.
LEMMA DivOfSum ==
    ASSUME NEW q \in Nat, NEW r \in Nat, NEW L \in Nat \ {0}, r < L,
           NEW M \in Nat, q < M
    PROVE  /\ (q * L + r) \div L = q
           /\ (q * L + r) % L = r
           /\ q * L + r \in Nat
           /\ q * L + r < M * L
<1>1. q * L + r \in Nat
  OBVIOUS
<1>2. (q * L + r) \div L = q /\ (q * L + r) % L = r
  OBVIOUS
<1>3. (q + 1) * L <= M * L
  OBVIOUS
<1>4. (q + 1) * L = q * L + L
  OBVIOUS
<1> QED BY <1>1, <1>2, <1>3, <1>4

\* The lists of configuration.py have a length, and their elements are distinct.
LEMMA Lists ==
    ASSUME NEW list, IsList(list)
    PROVE  /\ Len(list) \in Nat \ {0}
           /\ \A k \in 1 .. Len(list) : list[k] \in Elements(list)
           /\ \A x \in Elements(list) : \E k \in 1 .. Len(list) : x = list[k]
           /\ \A j, k \in 1 .. Len(list) : list[j] = list[k] => j = k
  BY DEF IsList, Elements

\* A batch has a number of runs.
LEMMA RunsIsNat == Runs \in Nat
  BY EvaluationAssumption, Lists DEF Runs

\* main_serial runs each method on each subject once.
LEMMA EachCellOnce ==
    /\ \A p \in 1 .. Runs : CellAt(p) \in Cells
    /\ \A p, q \in 1 .. Runs : CellAt(p) = CellAt(q) => p = q
    /\ \A c \in Cells : \E p \in 1 .. Runs : c = CellAt(p)
<1> DEFINE L == Len(SUTS)
           M == Len(METHODS)
<1>1. L \in Nat \ {0} /\ M \in Nat \ {0} /\ Runs = M * L /\ Runs \in Nat
  BY EvaluationAssumption, Lists, RunsIsNat DEF Runs
<1>2. /\ \A k \in 1 .. L : SUTS[k] \in Elements(SUTS)
      /\ \A x \in Elements(SUTS) : \E k \in 1 .. L : x = SUTS[k]
      /\ \A j, k \in 1 .. L : SUTS[j] = SUTS[k] => j = k
  BY EvaluationAssumption, Lists
<1>3. /\ \A k \in 1 .. M : METHODS[k] \in Elements(METHODS)
      /\ \A x \in Elements(METHODS) : \E k \in 1 .. M : x = METHODS[k]
      /\ \A j, k \in 1 .. M : METHODS[j] = METHODS[k] => j = k
  BY EvaluationAssumption, Lists
<1>4. \A p : CellAt(p) = <<METHODS[((p - 1) \div L) + 1], SUTS[((p - 1) % L) + 1]>>
  BY DEF CellAt
<1> HIDE DEF L, M
<1>5. ASSUME NEW p \in 1 .. Runs
      PROVE  /\ ((p - 1) \div L) + 1 \in 1 .. M
             /\ ((p - 1) % L) + 1 \in 1 .. L
             /\ p = L * ((p - 1) \div L) + ((p - 1) % L) + 1
  <2>1. p - 1 \in Nat /\ p - 1 < M * L
    BY <1>1
  <2>2. (p - 1) \div L < M
    BY <1>1, <2>1, DivBound
  <2>3. /\ (p - 1) \div L \in Nat
        /\ (p - 1) % L \in 0 .. L - 1
        /\ p - 1 = L * ((p - 1) \div L) + ((p - 1) % L)
    BY <1>1, <2>1, DivMod
  <2>4. L * ((p - 1) \div L) \in Int
    BY <1>1, <2>3
  <2> QED BY <1>1, <2>2, <2>3, <2>4
<1>6. ASSUME NEW p \in 1 .. Runs
      PROVE  CellAt(p) \in Cells
  BY <1>2, <1>3, <1>4, <1>5 DEF Cells
<1>7. ASSUME NEW p \in 1 .. Runs, NEW q \in 1 .. Runs, CellAt(p) = CellAt(q)
      PROVE  p = q
  <2>1. /\ METHODS[((p - 1) \div L) + 1] = METHODS[((q - 1) \div L) + 1]
        /\ SUTS[((p - 1) % L) + 1] = SUTS[((q - 1) % L) + 1]
    BY <1>4, <1>7
  <2>2. /\ ((p - 1) \div L) + 1 = ((q - 1) \div L) + 1
        /\ ((p - 1) % L) + 1 = ((q - 1) % L) + 1
    BY <1>2, <1>3, <1>5, <2>1
  <2>3. (p - 1) \div L = (q - 1) \div L /\ (p - 1) % L = (q - 1) % L
    BY <1>1, <2>2, DivMod
  <2> QED BY <1>5, <2>3
<1>8. ASSUME NEW c \in Cells
      PROVE  \E p \in 1 .. Runs : c = CellAt(p)
  <2>1. PICK j \in 1 .. M, k \in 1 .. L : c = <<METHODS[j], SUTS[k]>>
    BY <1>2, <1>3 DEF Cells
  <2> DEFINE n == (j - 1) * L + (k - 1)
  <2>2. j - 1 \in Nat /\ k - 1 \in Nat /\ k - 1 < L /\ j - 1 < M
    BY <1>1
  <2>3. n \div L = j - 1 /\ n % L = k - 1 /\ n \in Nat /\ n < M * L
    BY <1>1, <2>2, DivOfSum
  <2> HIDE DEF n
  <2>4. n + 1 \in 1 .. Runs /\ (n + 1) - 1 = n
    BY <1>1, <2>3
  <2>5. ((n \div L) + 1 = j) /\ ((n % L) + 1 = k)
    BY <2>3
  <2>6. CellAt(n + 1) = c
    BY <1>4, <2>1, <2>4, <2>5
  <2> QED BY <2>4, <2>6
<1> QED BY <1>6, <1>7, <1>8

(***************************************************************************)
(* The inductive invariant.                                                *)
(***************************************************************************)

\* evaluation.py is inside main_serial.
Active == ev \in {"experiment", "running", "saving"}

\* The runs of the current batch before pos are recorded and no other is, a
\* batch without a directory has no files, and the batches before the current
\* one have directories.
EvaluatorOK ==
    /\ Active => i \in dirs
    /\ ~Active => pos = 1
    /\ ev \in {"off", "done"} => i = 0
    /\ ev \in {"running", "saving"} => pos <= Runs
    /\ ev = "saving" => outcome \in Recorded
    /\ Active => \A p \in 1 .. Runs :
                    IF p < pos THEN raw[i][CellAt(p)] \in Recorded
                    ELSE raw[i][CellAt(p)] \notin Recorded
    /\ \A b \in Batches \ dirs : \A c \in Cells : raw[b][c] = "absent"
    /\ \A b \in Batches : b < i => b \in dirs
    /\ ev = "done" => dirs = Batches

\* The position of run.sh.
ProcessOK ==
    /\ dp = "off" => key = 1 /\ batch = 0
    /\ dp \in {"json2table", "write", "writeMean"} => key <= Len(KEY_LISTS)
    /\ dp = "write" => batch \in dirs
    /\ dp = "json2table" /\ key # 1 => batch \in dirs
    /\ dp \in {"mean", "writeMean"} => batch = 0

\* A table of averages in which every number is a mean over successful runs,
\* and all are means over the same batches.
Fair(f) ==
    \A c \in Cells :
        /\ \A b \in f[c] : raw[b][c] = "success"
        /\ \A d \in Cells : f[c] # {} /\ f[d] # {} => f[c] = f[d]

\* Every number in a table, or read and not yet written, is of a success.
DataOK ==
    /\ \A t \in Batches \X Keys : \A c \in numbers[t] : raw[t[1]][c] = "success"
    /\ dp = "write" => \A c \in Cells : read[c] # {} => raw[batch][c] = "success"
    /\ dp = "writeMean" => Fair(read)
    /\ \A k \in Keys : Fair(averaged[k])

\* The batches that will never be completed.
Lost ==
    {b \in dirs : /\ Active => b # i
                  /\ \E c \in Cells : raw[b][c] \notin Recorded}

LossOK == Cardinality(Lost) <= stops

Inv == TypeOK /\ EvaluatorOK /\ ProcessOK /\ DataOK /\ LossOK

-----------------------------------------------------------------------------
\* The steps of the user and of evaluation.py, and those of the data scripts.
ByEvaluator == EvaluatorStep \/ MainExits \/ Evaluate \/ StopEvaluation
ByProcess   == ProcessStep \/ Process \/ StopProcess

\* Every step is a step of one of the two.
LEMMA NextSplit == Next => ByEvaluator \/ ByProcess
  BY DEF Next, ByEvaluator, ByProcess

\* Neither script writes what belongs to the other.
LEMMA Separate ==
    /\ ByEvaluator => UNCHANGED processVars
    /\ ByProcess => UNCHANGED evaluatorVars
<1>1. ByEvaluator => UNCHANGED processVars
  BY DEF ByEvaluator, EvaluatorStep, MainExits, Evaluate, StopEvaluation, SkipBatch,
         MakeBatch, Launch, TimeoutExpired, OpenOutput, Save, EndBatch, EndEvaluation
<1>2. ByProcess => UNCHANGED evaluatorVars
  BY DEF ByProcess, ProcessStep, Process, StopProcess, SkipAbsent, ReadBatch,
         WriteTable, EndTables, SkipKey, ReadTables, WriteAverages, EndMean
<1> QED BY <1>1, <1>2

\* The state after Init.
LEMMA InitInv == Init => Inv
<1> SUFFICES ASSUME Init PROVE Inv
  OBVIOUS
<1> USE DEF Init
<1>1. TypeOK
  BY EvaluationAssumption, RunsIsNat, Lists DEF TypeOK, NoMean, File, Recorded
<1>2. EvaluatorOK
  BY EvaluationAssumption DEF EvaluatorOK, Active, Batches
<1>3. ProcessOK
  BY EvaluationAssumption, Lists DEF ProcessOK
<1>4. DataOK
  BY DEF DataOK, Fair, NoMean
<1>5. Lost = {}
  BY DEF Lost
<1>6. LossOK
  BY <1>5, FS_EmptySet DEF LossOK
<1> QED BY <1>1, <1>2, <1>3, <1>4, <1>6 DEF Inv

-----------------------------------------------------------------------------
(***************************************************************************)
(* Steps of the evaluation.                                                *)
(***************************************************************************)

\* The file that the current run is written to.
LEMMA CurrentFile ==
    ASSUME TypeOK, EvaluatorOK, Active, pos <= Runs
    PROVE  /\ i \in Batches /\ i \in dirs
           /\ pos \in 1 .. Runs
           /\ CellAt(pos) \in Cells
           /\ raw[i][CellAt(pos)] \notin Recorded
  BY RunsIsNat, EachCellOnce DEF TypeOK, EvaluatorOK

\* Writing x into the file of the current run.
LEMMA WriteFile ==
    ASSUME TypeOK, EvaluatorOK, Active, pos <= Runs,
           NEW x, raw' = [raw EXCEPT ![i][CellAt(pos)] = x]
    PROVE  /\ raw'[i][CellAt(pos)] = x
           /\ \A p \in 1 .. Runs : p # pos => raw'[i][CellAt(p)] = raw[i][CellAt(p)]
           /\ \A b \in Batches : b # i => raw'[b] = raw[b]
           /\ \A b \in Batches, c \in Cells :
                  raw[b][c] \in Recorded => raw'[b][c] = raw[b][c]
<1>1. /\ i \in Batches /\ pos \in 1 .. Runs /\ CellAt(pos) \in Cells
      /\ raw[i][CellAt(pos)] \notin Recorded
  BY CurrentFile
<1>2. raw \in [Batches -> [Cells -> Recorded \cup {"absent", "partial"}]]
  BY DEF TypeOK
<1>3. \A b \in Batches : b # i => raw'[b] = raw[b]
  BY <1>1, <1>2
<1>4. raw'[i] = [raw[i] EXCEPT ![CellAt(pos)] = x]
  BY <1>1, <1>2
<1>5. raw[i] \in [Cells -> Recorded \cup {"absent", "partial"}]
  BY <1>1, <1>2
<1>6. raw'[i][CellAt(pos)] = x
  BY <1>1, <1>4, <1>5
<1>7. \A c \in Cells : c # CellAt(pos) => raw'[i][c] = raw[i][c]
  BY <1>4, <1>5
<1>8. \A p \in 1 .. Runs : p # pos => raw'[i][CellAt(p)] = raw[i][CellAt(p)]
  BY <1>1, <1>7, EachCellOnce
<1>9. \A b \in Batches, c \in Cells :
          raw[b][c] \in Recorded => raw'[b][c] = raw[b][c]
  BY <1>1, <1>3, <1>7
<1> QED BY <1>3, <1>6, <1>8, <1>9

\* A step of the evaluation changes no recorded result.
LEMMA RecordedStays ==
    ASSUME TypeOK, EvaluatorOK, [Next]_vars
    PROVE  \A b \in Batches, c \in Cells :
               raw[b][c] \in Recorded => raw'[b][c] = raw[b][c]
<1>1. CASE UNCHANGED raw
  BY <1>1
<1>2. CASE ByProcess
  <2>1. UNCHANGED raw
    BY <1>2, Separate DEF evaluatorVars
  <2> QED BY <2>1
<1>3. CASE MainExits \/ TimeoutExpired
  <2>1. /\ Active /\ pos <= Runs
        /\ raw' = [raw EXCEPT ![i][CellAt(pos)] = "partial"]
    BY <1>3 DEF MainExits, TimeoutExpired, OpenOutput, Active, EvaluatorOK
  <2> QED BY <2>1, WriteFile
<1>4. CASE Save
  <2>1. /\ Active /\ pos <= Runs
        /\ raw' = [raw EXCEPT ![i][CellAt(pos)] = outcome]
    BY <1>4 DEF Save, Active, EvaluatorOK
  <2> QED BY <2>1, WriteFile
<1>5. CASE \/ SkipBatch \/ MakeBatch \/ Launch \/ EndBatch \/ EndEvaluation
           \/ Evaluate \/ StopEvaluation
  <2>1. UNCHANGED raw
    BY <1>5 DEF SkipBatch, MakeBatch, Launch, EndBatch, EndEvaluation, Evaluate,
                StopEvaluation
  <2> QED BY <2>1
<1>6. UNCHANGED vars => UNCHANGED raw
  BY DEF vars, evaluatorVars
<1> QED
  BY <1>1, <1>2, <1>3, <1>4, <1>5, <1>6, NextSplit DEF ByEvaluator, EvaluatorStep


\* Steps of the evaluation keep its variables typed.
LEMMA EvaluatorTypes ==
    ASSUME TypeOK, EvaluatorOK, ByEvaluator
    PROVE  TypeOK'
<1> USE EvaluationAssumption, RunsIsNat
<1> USE DEF ByEvaluator, EvaluatorStep, MainExits, Evaluate,
            StopEvaluation, SkipBatch, MakeBatch, Launch, TimeoutExpired, OpenOutput,
            Save, EndBatch, EndEvaluation
<1>1. /\ tables' \in [Batches \X Keys -> File]
      /\ numbers' \in [Batches \X Keys -> SUBSET Cells]
      /\ averaged' \in [Keys -> [Cells -> SUBSET Batches]]
      /\ dp' \in {"off", "json2table", "write", "mean", "writeMean"}
      /\ batch' \in 0 .. REPEAT_NUM
      /\ key' \in 1 .. Len(KEY_LISTS) + 1
      /\ read' \in [Cells -> SUBSET Batches]
      /\ halts' \in 0 .. MaxStops
  BY Separate DEF TypeOK, processVars
<1>2. dirs' \subseteq Batches
  <2>1. UNCHANGED dirs \/ (i < REPEAT_NUM /\ dirs' = dirs \cup {i})
    OBVIOUS
  <2>2. dirs \subseteq Batches /\ i \in 0 .. REPEAT_NUM
    BY DEF TypeOK
  <2>3. i < REPEAT_NUM => i \in Batches
    BY <2>2 DEF Batches
  <2> QED BY <2>1, <2>2, <2>3
<1>3. ev' \in {"off", "batch", "experiment", "running", "saving", "done"}
  BY DEF TypeOK
<1>4. outcome' \in Recorded \cup {"none"}
  BY DEF TypeOK, Recorded
<1>5. stops' \in 0 .. MaxStops
  <2>1. UNCHANGED stops \/ (stops + halts < MaxStops /\ stops' = stops + 1)
    OBVIOUS
  <2> QED BY <2>1 DEF TypeOK
<1>6. i' \in 0 .. REPEAT_NUM
  <2>1. \/ UNCHANGED i
        \/ i' = 0
        \/ i \in dirs /\ i' = i + 1
    BY DEF EvaluatorOK, Active
  <2> QED BY <2>1 DEF TypeOK, Batches
<1>7. pos' \in 1 .. Runs + 1
  <2>1. \/ UNCHANGED pos
        \/ pos' = 1
        \/ pos <= Runs /\ pos' = pos + 1
    BY DEF EvaluatorOK
  <2> QED BY <2>1 DEF TypeOK
<1>8. raw' \in [Batches -> [Cells -> Recorded \cup {"absent", "partial"}]]
  <2>1. \/ UNCHANGED raw
        \/ \E x \in Recorded \cup {"partial"} :
               raw' = [raw EXCEPT ![i][CellAt(pos)] = x]
    BY DEF EvaluatorOK
  <2>2. raw \in [Batches -> [Cells -> Recorded \cup {"absent", "partial"}]]
    BY DEF TypeOK
  <2> QED BY <2>1, <2>2
<1> QED BY <1>1, <1>2, <1>3, <1>4, <1>5, <1>6, <1>7, <1>8 DEF TypeOK

-----------------------------------------------------------------------------
(***************************************************************************)
(* Steps of the data scripts.                                              *)
(***************************************************************************)

\* The table that run.sh is at.
LEMMA CurrentTable ==
    ASSUME TypeOK, key <= Len(KEY_LISTS)
    PROVE  /\ KeyAt \in Keys
           /\ \A b \in Batches : <<b, KeyAt>> \in Batches \X Keys
  BY EvaluationAssumption, Lists DEF TypeOK, KeyAt, Keys

\* Steps of the data scripts keep their positions.
LEMMA ProcessPositions ==
    ASSUME TypeOK, ProcessOK, ByProcess
    PROVE  /\ ProcessOK'
           /\ dp' \in {"off", "json2table", "write", "mean", "writeMean"}
           /\ batch' \in 0 .. REPEAT_NUM
           /\ key' \in 1 .. Len(KEY_LISTS) + 1
           /\ halts' \in 0 .. MaxStops
<1>1. /\ Len(KEY_LISTS) \in Nat \ {0} /\ REPEAT_NUM \in Nat /\ MaxStops \in Nat
  BY EvaluationAssumption, Lists
<1>2. /\ batch \in 0 .. REPEAT_NUM /\ key \in 1 .. Len(KEY_LISTS) + 1
      /\ halts \in 0 .. MaxStops /\ stops \in 0 .. MaxStops
      /\ dp \in {"off", "json2table", "write", "mean", "writeMean"}
      /\ \A b \in dirs : b \in 0 .. REPEAT_NUM - 1
      /\ UNCHANGED dirs
  BY Separate DEF TypeOK, Batches, evaluatorVars
<1> USE DEF ProcessOK
<1>3. CASE Process
  BY <1>1, <1>2, <1>3 DEF Process
<1>4. CASE SkipAbsent
  BY <1>1, <1>2, <1>4 DEF SkipAbsent
<1>5. CASE ReadBatch
  BY <1>1, <1>2, <1>5 DEF ReadBatch
<1>6. CASE WriteTable
  <2>1. /\ dp' = "json2table" /\ UNCHANGED halts
        /\ batch \in dirs /\ key <= Len(KEY_LISTS)
        /\ \/ key < Len(KEY_LISTS) /\ key' = key + 1 /\ batch' = batch
           \/ key' = 1 /\ batch' = batch + 1
    BY <1>1, <1>2, <1>6 DEF WriteTable
  <2> QED BY <1>1, <1>2, <2>1
<1>7. CASE EndTables
  BY <1>1, <1>2, <1>7 DEF EndTables
<1>8. CASE SkipKey
  BY <1>1, <1>2, <1>8 DEF SkipKey
<1>9. CASE ReadTables
  BY <1>1, <1>2, <1>9 DEF ReadTables
<1>10. CASE WriteAverages
  BY <1>1, <1>2, <1>10 DEF WriteAverages
<1>11. CASE EndMean
  BY <1>1, <1>2, <1>11 DEF EndMean
<1>12. CASE StopProcess
  BY <1>1, <1>2, <1>12 DEF StopProcess
<1> QED
  BY <1>3, <1>4, <1>5, <1>6, <1>7, <1>8, <1>9, <1>10, <1>11, <1>12
  DEF ByProcess, ProcessStep

\* Steps of the data scripts keep their variables typed.
LEMMA ProcessTypes ==
    ASSUME TypeOK, ProcessOK, ByProcess
    PROVE  TypeOK'
<1>1. /\ dirs' \subseteq Batches
      /\ raw' \in [Batches -> [Cells -> Recorded \cup {"absent", "partial"}]]
      /\ ev' \in {"off", "batch", "experiment", "running", "saving", "done"}
      /\ i' \in 0 .. REPEAT_NUM
      /\ pos' \in 1 .. Runs + 1
      /\ outcome' \in Recorded \cup {"none"}
      /\ stops' \in 0 .. MaxStops
  BY Separate DEF TypeOK, evaluatorVars
<1>2. tables' \in [Batches \X Keys -> File]
  <2>1. \/ UNCHANGED tables
        \/ \E x \in File : tables' = [tables EXCEPT ![<<batch, KeyAt>>] = x]
    BY DEF File, ByProcess, ProcessStep, Process, StopProcess, SkipAbsent,
           ReadBatch, WriteTable, EndTables, SkipKey, ReadTables, WriteAverages, EndMean
  <2>2. tables \in [Batches \X Keys -> File]
    BY DEF TypeOK
  <2> QED BY <2>1, <2>2
<1>3. numbers' \in [Batches \X Keys -> SUBSET Cells]
  <2>1. \/ UNCHANGED numbers
        \/ \E x \in SUBSET Cells : numbers' = [numbers EXCEPT ![<<batch, KeyAt>>] = x]
    <3>1. CASE ReadBatch
      BY <3>1 DEF ReadBatch
    <3>2. CASE WriteTable
      BY <3>2 DEF WriteTable
    <3>3. CASE ~ReadBatch /\ ~WriteTable
      BY <3>3 DEF ByProcess, ProcessStep, Process, StopProcess, SkipAbsent,
                  EndTables, SkipKey, ReadTables, WriteAverages, EndMean
    <3> QED BY <3>1, <3>2, <3>3
  <2>2. numbers \in [Batches \X Keys -> SUBSET Cells]
    BY DEF TypeOK
  <2> QED BY <2>1, <2>2
<1>4. read' \in [Cells -> SUBSET Batches]
  <2>1. NoMean \in [Cells -> SUBSET Batches]
    BY DEF NoMean
  <2>2. CASE ReadBatch
    <3>1. batch \in Batches
      BY <2>2 DEF ReadBatch, TypeOK
    <3> QED BY <2>2, <3>1 DEF ReadBatch
  <2>3. CASE ReadTables
    <3>1. \A c \in Cells : Mean(c) \subseteq Batches
      BY DEF Mean, Usable, TypeOK
    <3> QED BY <2>3, <3>1 DEF ReadTables
  <2>4. CASE ~ReadBatch /\ ~ReadTables
    <3>1. UNCHANGED read \/ read' = NoMean
      BY <2>4 DEF ByProcess, ProcessStep, Process, StopProcess, SkipAbsent,
                  WriteTable, EndTables, SkipKey, WriteAverages, EndMean
    <3> QED BY <2>1, <3>1 DEF TypeOK
  <2> QED BY <2>2, <2>3, <2>4
<1>5. averaged' \in [Keys -> [Cells -> SUBSET Batches]]
  <2>1. \/ UNCHANGED averaged
        \/ averaged' = [averaged EXCEPT ![KeyAt] = NoMean]
        \/ averaged' = [averaged EXCEPT ![KeyAt] = read]
    BY DEF ByProcess, ProcessStep, Process, StopProcess, SkipAbsent,
           ReadBatch, WriteTable, EndTables, SkipKey, ReadTables, WriteAverages, EndMean
  <2>2. /\ averaged \in [Keys -> [Cells -> SUBSET Batches]]
        /\ read \in [Cells -> SUBSET Batches]
        /\ NoMean \in [Cells -> SUBSET Batches]
    BY DEF TypeOK, NoMean
  <2> QED BY <2>1, <2>2
<1> QED BY <1>1, <1>2, <1>3, <1>4, <1>5, ProcessPositions DEF TypeOK

\* The evaluation keeps the positions of the data scripts valid: directories stay.
LEMMA ProcessKept ==
    ASSUME TypeOK, ProcessOK, ByEvaluator
    PROVE  ProcessOK'
<1>1. dirs \subseteq dirs'
  BY DEF ByEvaluator, EvaluatorStep, MainExits, Evaluate, StopEvaluation, SkipBatch,
         MakeBatch, Launch, TimeoutExpired, OpenOutput, Save, EndBatch, EndEvaluation
<1>2. UNCHANGED <<dp, batch, key>>
  BY Separate DEF processVars
<1> QED BY <1>1, <1>2 DEF ProcessOK

-----------------------------------------------------------------------------
(***************************************************************************)
(* The invariant of the evaluation.                                        *)
(***************************************************************************)

\* No step of the evaluation breaks EvaluatorOK.
LEMMA EvaluatorKept ==
    ASSUME TypeOK, EvaluatorOK, ByEvaluator
    PROVE  EvaluatorOK'
<1>1. /\ REPEAT_NUM \in Nat /\ Runs \in Nat
      /\ i \in 0 .. REPEAT_NUM /\ pos \in 1 .. Runs + 1 /\ dirs \subseteq Batches
      /\ \A b \in Batches : b \in 0 .. REPEAT_NUM - 1
  BY EvaluationAssumption, RunsIsNat DEF TypeOK, Batches
<1>2. CASE Evaluate
  BY <1>1, <1>2 DEF Evaluate, EvaluatorOK, Active
<1>3. CASE SkipBatch
  <2>1. \A b \in Batches : b < i + 1 => b \in dirs
    BY <1>1, <1>3 DEF SkipBatch, EvaluatorOK
  <2> QED BY <1>3, <2>1 DEF SkipBatch, EvaluatorOK, Active
<1>4. CASE MakeBatch
  <2>1. i \in Batches /\ \A c \in Cells : raw[i][c] \notin Recorded
    BY <1>1, <1>4 DEF MakeBatch, EvaluatorOK, Recorded, Batches
  <2>2. \A p \in 1 .. Runs : raw[i][CellAt(p)] \notin Recorded
    BY <2>1, EachCellOnce
  <2>3. pos = 1 /\ \A p \in 1 .. Runs : ~(p < pos)
    BY <1>1, <1>4 DEF MakeBatch, EvaluatorOK, Active
  <2>4. /\ dirs' = dirs \cup {i} /\ ev' = "experiment"
        /\ UNCHANGED <<i, pos, outcome, raw>>
    BY <1>4 DEF MakeBatch
  <2> QED BY <2>1, <2>2, <2>3, <2>4 DEF EvaluatorOK, Active
<1>5. CASE Launch
  BY <1>5 DEF Launch, EvaluatorOK, Active
<1>6. CASE MainExits \/ TimeoutExpired
  <2>1. /\ ev = "running" /\ ev' = "saving" /\ outcome' \in Recorded
        /\ raw' = [raw EXCEPT ![i][CellAt(pos)] = "partial"]
        /\ UNCHANGED <<i, pos, dirs>>
    BY <1>6 DEF MainExits, TimeoutExpired, OpenOutput, Recorded
  <2>2. Active /\ pos <= Runs /\ i \in dirs /\ "partial" \notin Recorded
    BY <2>1 DEF Active, EvaluatorOK, Recorded
  <2>3. /\ raw'[i][CellAt(pos)] = "partial"
        /\ \A p \in 1 .. Runs : p # pos => raw'[i][CellAt(p)] = raw[i][CellAt(p)]
        /\ \A b \in Batches : b # i => raw'[b] = raw[b]
    BY <2>1, <2>2, WriteFile
  <2>4. \A p \in 1 .. Runs : IF p < pos THEN raw'[i][CellAt(p)] \in Recorded
                             ELSE raw'[i][CellAt(p)] \notin Recorded
    BY <1>1, <2>2, <2>3 DEF EvaluatorOK
  <2>5. \A b \in Batches \ dirs : \A c \in Cells : raw'[b][c] = "absent"
    BY <2>2, <2>3 DEF EvaluatorOK
  <2> QED BY <2>1, <2>2, <2>4, <2>5 DEF EvaluatorOK, Active
<1>7. CASE Save
  <2>1. /\ ev = "saving" /\ ev' = "experiment" /\ pos' = pos + 1
        /\ raw' = [raw EXCEPT ![i][CellAt(pos)] = outcome]
        /\ UNCHANGED <<i, dirs>>
    BY <1>7 DEF Save
  <2>2. Active /\ pos <= Runs /\ i \in dirs /\ outcome \in Recorded
    BY <2>1 DEF Active, EvaluatorOK
  <2>3. /\ raw'[i][CellAt(pos)] = outcome
        /\ \A p \in 1 .. Runs : p # pos => raw'[i][CellAt(p)] = raw[i][CellAt(p)]
        /\ \A b \in Batches : b # i => raw'[b] = raw[b]
    BY <2>1, <2>2, WriteFile
  <2>4. ASSUME NEW p \in 1 .. Runs
        PROVE  IF p < pos + 1 THEN raw'[i][CellAt(p)] \in Recorded
               ELSE raw'[i][CellAt(p)] \notin Recorded
    <3>1. CASE p = pos
      BY <1>1, <2>2, <2>3, <3>1
    <3>2. CASE p # pos
      <4>1. (p < pos + 1) <=> (p < pos)
        BY <1>1, <3>2
      <4> QED BY <2>2, <2>3, <3>2, <4>1 DEF EvaluatorOK
    <3> QED BY <3>1, <3>2
  <2>5. \A b \in Batches \ dirs : \A c \in Cells : raw'[b][c] = "absent"
    BY <2>2, <2>3 DEF EvaluatorOK
  <2> QED BY <2>1, <2>2, <2>4, <2>5 DEF EvaluatorOK, Active
<1>8. CASE EndBatch
  <2>1. \A b \in Batches : b < i + 1 => b \in dirs
    BY <1>1, <1>8 DEF EndBatch, EvaluatorOK, Active
  <2> QED BY <1>8, <2>1 DEF EndBatch, EvaluatorOK, Active
<1>9. CASE EndEvaluation
  <2>1. dirs = Batches
    BY <1>1, <1>9 DEF EndEvaluation, EvaluatorOK
  <2> QED BY <1>1, <1>9, <2>1 DEF EndEvaluation, EvaluatorOK, Active
<1>10. CASE StopEvaluation
  BY <1>1, <1>10 DEF StopEvaluation, EvaluatorOK, Active
<1> QED
  BY <1>2, <1>3, <1>4, <1>5, <1>6, <1>7, <1>8, <1>9, <1>10 DEF ByEvaluator, EvaluatorStep

-----------------------------------------------------------------------------
(***************************************************************************)
(* The invariant of the data.                                              *)
(***************************************************************************)

\* The evaluation takes no success back from under the tables.
LEMMA DataKeptByEvaluator ==
    ASSUME TypeOK, EvaluatorOK, ProcessOK, DataOK, ByEvaluator, [Next]_vars
    PROVE  DataOK'
<1>1. \A b \in Batches, c \in Cells : raw[b][c] = "success" => raw'[b][c] = "success"
  BY RecordedStays DEF Recorded
<1>2. UNCHANGED <<dp, batch, read, numbers, averaged>>
  BY Separate DEF processVars
<1>3. /\ numbers \in [Batches \X Keys -> SUBSET Cells]
      /\ averaged \in [Keys -> [Cells -> SUBSET Batches]]
      /\ read \in [Cells -> SUBSET Batches]
      /\ dirs \subseteq Batches
  BY DEF TypeOK
<1>4. \A t \in Batches \X Keys : \A c \in numbers[t] : raw'[t[1]][c] = "success"
  BY <1>1, <1>3 DEF DataOK
<1>5. dp = "write" => \A c \in Cells : read[c] # {} => raw'[batch][c] = "success"
  BY <1>1, <1>3 DEF DataOK, ProcessOK
<1>6. ASSUME NEW f \in [Cells -> SUBSET Batches], Fair(f)
      PROVE  \A c \in Cells :
                 /\ \A b \in f[c] : raw'[b][c] = "success"
                 /\ \A d \in Cells : f[c] # {} /\ f[d] # {} => f[c] = f[d]
  BY <1>1, <1>6 DEF Fair
<1>7. dp = "writeMean" => Fair(read)'
  BY <1>2, <1>3, <1>6 DEF DataOK, Fair
<1>8. \A k \in Keys : Fair(averaged[k])'
  <2> SUFFICES ASSUME NEW k \in Keys PROVE Fair(averaged[k])'
    OBVIOUS
  <2>1. averaged[k] \in [Cells -> SUBSET Batches] /\ Fair(averaged[k])
    BY <1>3 DEF DataOK
  <2> QED BY <1>2, <1>6, <2>1 DEF Fair
<1> QED BY <1>2, <1>4, <1>5, <1>7, <1>8 DEF DataOK

\* Every number that a data script writes comes from a success.
LEMMA DataKeptByProcess ==
    ASSUME TypeOK, ProcessOK, DataOK, ByProcess
    PROVE  DataOK'
<1>1. UNCHANGED raw
  BY Separate DEF evaluatorVars
<1>2. /\ numbers \in [Batches \X Keys -> SUBSET Cells]
      /\ averaged \in [Keys -> [Cells -> SUBSET Batches]]
      /\ read \in [Cells -> SUBSET Batches]
      /\ dirs \subseteq Batches
  BY DEF TypeOK
<1>3. Fair(NoMean)
  BY DEF Fair, NoMean
<1>4. CASE ReadBatch
  <2>1. batch \in Batches /\ KeyAt \in Keys
    BY <1>2, <1>4, CurrentTable DEF ReadBatch, ProcessOK
  <2>2. \A t \in Batches \X Keys :
            numbers'[t] = IF t = <<batch, KeyAt>> THEN {} ELSE numbers[t]
    BY <1>2, <1>4, <2>1 DEF ReadBatch
  <2>3. \A c \in Cells : read'[c] # {} => raw[batch][c] = "success"
    BY <1>4 DEF ReadBatch, HasNumber
  <2>4. dp' = "write" /\ UNCHANGED <<batch, averaged>>
    BY <1>4 DEF ReadBatch
  <2> QED BY <1>1, <2>2, <2>3, <2>4 DEF DataOK, Fair
<1>5. CASE WriteTable
  <2>1. batch \in Batches /\ KeyAt \in Keys
    BY <1>2, <1>5, CurrentTable DEF WriteTable, ProcessOK
  <2>2. \A t \in Batches \X Keys :
            numbers'[t] = IF t = <<batch, KeyAt>> THEN {c \in Cells : read[c] # {}}
                          ELSE numbers[t]
    BY <1>2, <1>5, <2>1 DEF WriteTable
  <2>3. \A c \in Cells : read[c] # {} => raw[batch][c] = "success"
    BY <1>5 DEF WriteTable, DataOK
  <2>4. dp' = "json2table" /\ UNCHANGED averaged
    BY <1>5 DEF WriteTable
  <2>5. \A t \in Batches \X Keys : \A c \in numbers'[t] : raw'[t[1]][c] = "success"
    <3> SUFFICES ASSUME NEW t \in Batches \X Keys, NEW c \in numbers'[t]
                 PROVE  raw[t[1]][c] = "success"
      BY <1>1
    <3>1. CASE t = <<batch, KeyAt>>
      <4>1. t[1] = batch /\ numbers'[t] = {d \in Cells : read[d] # {}}
        BY <2>2, <3>1
      <4> QED BY <2>3, <4>1
    <3>2. CASE t # <<batch, KeyAt>>
      BY <2>2, <3>2 DEF DataOK
    <3> QED BY <3>1, <3>2
  <2> QED BY <1>1, <2>4, <2>5 DEF DataOK, Fair
<1>6. CASE ReadTables
  <2>1. KeyAt \in Keys /\ \A b \in Batches : <<b, KeyAt>> \in Batches \X Keys
    BY <1>6, CurrentTable DEF ReadTables
  <2>2. \A b \in Usable : b \in Batches
    BY <1>2 DEF Usable
  <2>3. \A c \in Cells : \A b \in Mean(c) : raw[b][c] = "success"
    <3> SUFFICES ASSUME NEW c \in Cells, NEW b \in Mean(c) PROVE raw[b][c] = "success"
      OBVIOUS
    <3>1. b \in Usable /\ c \in numbers[<<b, KeyAt>>]
      BY DEF Mean
    <3>2. <<b, KeyAt>> \in Batches \X Keys /\ <<b, KeyAt>>[1] = b
      BY <2>1, <2>2, <3>1
    <3> QED BY <3>1, <3>2 DEF DataOK
  <2>4. \A c, d \in Cells : Mean(c) # {} /\ Mean(d) # {} => Mean(c) = Mean(d)
    BY DEF Mean
  <2>5. \A c \in Cells : read'[c] = Mean(c)
    BY <1>6 DEF ReadTables
  <2>6. Fair(read)'
    BY <1>1, <2>3, <2>4, <2>5 DEF Fair
  <2>7. \A k \in Keys : averaged'[k] = IF k = KeyAt THEN NoMean ELSE averaged[k]
    BY <1>2, <1>6, <2>1 DEF ReadTables
  <2>8. \A k \in Keys : Fair(averaged[k])'
    BY <1>1, <1>3, <2>7 DEF DataOK, Fair
  <2>9. dp' = "writeMean" /\ UNCHANGED numbers
    BY <1>6 DEF ReadTables
  <2> QED BY <1>1, <2>6, <2>8, <2>9 DEF DataOK
<1>7. CASE WriteAverages
  <2>1. KeyAt \in Keys
    BY <1>7, CurrentTable DEF WriteAverages, ProcessOK
  <2>2. \A k \in Keys : averaged'[k] = IF k = KeyAt THEN read ELSE averaged[k]
    BY <1>2, <1>7, <2>1 DEF WriteAverages
  <2>3. Fair(read)
    BY <1>7 DEF WriteAverages, DataOK
  <2>4. \A k \in Keys : Fair(averaged[k])'
    BY <1>1, <2>2, <2>3 DEF DataOK, Fair
  <2>5. dp' = "mean" /\ UNCHANGED numbers
    BY <1>7 DEF WriteAverages
  <2> QED BY <1>1, <2>4, <2>5 DEF DataOK
<1>8. CASE Process \/ SkipAbsent \/ EndTables \/ SkipKey \/ EndMean \/ StopProcess
  <2>1. /\ dp' \notin {"write", "writeMean"}
        /\ UNCHANGED <<numbers, averaged>>
    BY <1>8 DEF Process, SkipAbsent, EndTables, SkipKey, EndMean, StopProcess
  <2> QED BY <1>1, <2>1 DEF DataOK, Fair
<1> QED
  BY <1>4, <1>5, <1>6, <1>7, <1>8 DEF ByProcess, ProcessStep

-----------------------------------------------------------------------------
(***************************************************************************)
(* The batches lost.                                                       *)
(***************************************************************************)

\* Only stopping the evaluation loses a batch: the one it is in.
LEMMA LostGrowth ==
    ASSUME TypeOK, EvaluatorOK, [Next]_vars
    PROVE  \/ Lost' = Lost /\ stops' = stops
           \/ Lost' \subseteq Lost \cup {i} /\ stops' = stops + 1
<1>1. /\ REPEAT_NUM \in Nat /\ Runs \in Nat /\ pos \in 1 .. Runs + 1
      /\ dirs \subseteq Batches
  BY EvaluationAssumption, RunsIsNat DEF TypeOK
<1>2. CASE ByProcess
  <2>1. UNCHANGED <<ev, i, dirs, raw, stops>>
    BY <1>2, Separate DEF evaluatorVars
  <2> QED BY <2>1 DEF Lost, Active
<1>3. CASE Evaluate \/ SkipBatch \/ EndEvaluation
  <2>1. ~Active /\ ~Active' /\ UNCHANGED <<dirs, raw, stops>>
    BY <1>3 DEF Evaluate, SkipBatch, EndEvaluation, Active
  <2> QED BY <2>1 DEF Lost
<1>4. CASE MakeBatch
  <2>1. /\ ~Active /\ Active' /\ i \notin dirs /\ dirs' = dirs \cup {i}
        /\ UNCHANGED <<i, raw, stops>>
    BY <1>4 DEF MakeBatch, Active
  <2> QED BY <2>1 DEF Lost
<1>5. CASE Launch
  BY <1>5 DEF Launch, Lost, Active
<1>6. CASE MainExits \/ TimeoutExpired \/ Save
  <2>1. /\ Active /\ Active' /\ pos <= Runs
        /\ \E x : raw' = [raw EXCEPT ![i][CellAt(pos)] = x]
        /\ UNCHANGED <<i, dirs, stops>>
    BY <1>6 DEF MainExits, TimeoutExpired, OpenOutput, Save, Active, EvaluatorOK
  <2>2. \A b \in Batches : b # i => raw'[b] = raw[b]
    BY <2>1, WriteFile
  <2> QED BY <1>1, <2>1, <2>2 DEF Lost
<1>7. CASE EndBatch
  <2>1. /\ Active /\ ~Active' /\ i \in dirs /\ pos > Runs
        /\ UNCHANGED <<dirs, raw, stops>>
    BY <1>7 DEF EndBatch, Active, EvaluatorOK
  <2>2. \A p \in 1 .. Runs : raw[i][CellAt(p)] \in Recorded
    BY <1>1, <2>1 DEF EvaluatorOK
  <2>3. \A c \in Cells : raw[i][c] \in Recorded
    BY <2>2, EachCellOnce
  <2> QED BY <2>1, <2>3 DEF Lost
<1>8. CASE StopEvaluation
  <2>1. ~Active' /\ stops' = stops + 1 /\ UNCHANGED <<dirs, raw>>
    BY <1>8 DEF StopEvaluation, Active
  <2> QED BY <2>1 DEF Lost
<1>9. CASE UNCHANGED vars
  BY <1>9 DEF vars, evaluatorVars, Lost, Active
<1> QED
  BY <1>2, <1>3, <1>4, <1>5, <1>6, <1>7, <1>8, <1>9, NextSplit
  DEF ByEvaluator, EvaluatorStep

\* Lost is finite.
LEMMA LostIsFinite ==
    ASSUME TypeOK
    PROVE  IsFiniteSet(Lost) /\ Cardinality(Lost) \in Nat
<1>1. IsFiniteSet(Batches)
  BY EvaluationAssumption, FS_Interval DEF Batches
<1>2. Lost \subseteq Batches
  BY DEF Lost, TypeOK
<1> QED BY <1>1, <1>2, FS_Subset, FS_CardinalityType

\* No step loses more batches than it stops evaluations.
LEMMA LossKept ==
    ASSUME TypeOK, EvaluatorOK, LossOK, [Next]_vars
    PROVE  LossOK'
<1>1. stops \in Nat
  BY EvaluationAssumption DEF TypeOK
<1>2. IsFiniteSet(Lost) /\ Cardinality(Lost) \in Nat /\ Cardinality(Lost) <= stops
  BY LostIsFinite DEF LossOK
<1>3. CASE Lost' = Lost /\ stops' = stops
  BY <1>1, <1>2, <1>3 DEF LossOK
<1>4. CASE Lost' \subseteq Lost \cup {i} /\ stops' = stops + 1
  <2>1. /\ IsFiniteSet(Lost \cup {i})
        /\ Cardinality(Lost \cup {i}) <= Cardinality(Lost) + 1
        /\ Cardinality(Lost \cup {i}) \in Nat
    BY <1>2, FS_AddElement, FS_CardinalityType
  <2>2. Cardinality(Lost') <= Cardinality(Lost \cup {i}) /\ Cardinality(Lost') \in Nat
    BY <1>4, <2>1, FS_Subset, FS_CardinalityType
  <2> QED BY <1>1, <1>2, <1>4, <2>1, <2>2 DEF LossOK
<1> QED BY <1>3, <1>4, LostGrowth

-----------------------------------------------------------------------------
(***************************************************************************)
(* The theorems.                                                           *)
(***************************************************************************)

\* Inv is inductive: no step of either script breaks it.
LEMMA NextInv ==
    ASSUME Inv, [Next]_vars
    PROVE  Inv'
<1> USE DEF Inv
<1>1. LossOK'
  BY LossKept
<1>2. CASE ByEvaluator
  BY <1>1, <1>2, EvaluatorTypes, EvaluatorKept, ProcessKept, DataKeptByEvaluator
<1>3. CASE ByProcess
  <2>1. EvaluatorOK'
    BY <1>3, Separate DEF EvaluatorOK, Active, evaluatorVars
  <2> QED BY <1>1, <1>3, <2>1, ProcessTypes, ProcessPositions, DataKeptByProcess
<1>4. CASE UNCHANGED vars
  <2>1. TypeOK'
    BY <1>4 DEF TypeOK, vars, evaluatorVars, processVars
  <2>2. EvaluatorOK'
    BY <1>4 DEF EvaluatorOK, Active, vars, evaluatorVars
  <2>3. ProcessOK'
    BY <1>4 DEF ProcessOK, vars, evaluatorVars, processVars
  <2>4. DataOK'
    BY <1>4 DEF DataOK, Fair, vars, evaluatorVars, processVars
  <2> QED BY <1>1, <2>1, <2>2, <2>3, <2>4
<1> QED BY <1>2, <1>3, <1>4, NextSplit

\* Inv holds of every state of the evaluation and of the data scripts.
THEOREM Invariance == Spec => []Inv
  BY InitInv, NextInv, PTL DEF Spec

\* The variables of both scripts keep their types.
THEOREM TypeCorrect == Spec => []TypeOK
<1>1. Inv => TypeOK
  BY DEF Inv
<1> QED BY <1>1, Invariance, PTL

\* A raw result that evaluation.py has written is never changed, however often
\* the evaluation is stopped and started again.
THEOREM ResultsStay == Spec => RecordedResultsStay
<1>1. Inv /\ [Next]_vars =>
          [\A b \in Batches, c \in Cells :
              raw[b][c] \in Recorded => raw'[b][c] = raw[b][c]]_vars
  BY RecordedStays DEF Inv
<1> QED BY <1>1, Invariance, PTL DEF Spec, RecordedResultsStay

\* The numbers that mean.py writes are means over successful runs, those of one
\* table over the same batches.
THEOREM AveragesSound == Spec => []AveragesAreOfSuccesses
<1>1. Inv => AveragesAreOfSuccesses
  BY DEF Inv, DataOK, Fair, AveragesAreOfSuccesses
<1> QED BY <1>1, Invariance, PTL

\* At the end of an evaluation no more batches are incomplete than the times
\* evaluation.py was stopped.
THEOREM LossBounded == Spec => []OneBatchLostPerStop
<1>1. Inv => OneBatchLostPerStop
  <2> SUFFICES ASSUME Inv, ev = "done"
               PROVE  Cardinality({b \in Batches :
                          \E c \in Cells : raw[b][c] \notin Recorded}) <= stops
    BY DEF OneBatchLostPerStop
  <2>1. dirs = Batches /\ ~Active
    BY DEF Inv, EvaluatorOK, Active
  <2>2. Lost = {b \in Batches : \E c \in Cells : raw[b][c] \notin Recorded}
    BY <2>1 DEF Lost
  <2> QED BY <2>2 DEF Inv, LossOK
<1> QED BY <1>1, Invariance, PTL
=============================================================================
