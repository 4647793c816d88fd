------------------------- MODULE FaultLocalization -------------------------
(***************************************************************************)
(* Experiment/FaultLocalization together with Util/CAResolver: the rows of *)
(* a covering array are run once, which splits them into Tpass and Tfail,  *)
(* and one resolver is constructed for them.                               *)
(*                                                                         *)
(* The strength t of the array is the third argument of Main.              *)
(* evaluation.py passes the size of the largest failure-causing            *)
(* combination; a smaller one can be given by hand.                        *)
(***************************************************************************)
EXTENDS FaultResolver, Measure, Lists

CONSTANT tables   \* tables[k]: the rows of the file for strength k and N values

\* "-" in a table file is UNKNOWN here, and a strength of 1 needs no file.
ASSUME TablesAssumption ==
    /\ DOMAIN tables = 2 .. N
    /\ \A k \in 2 .. N : tables[k] \in Seq(Comb)

VARIABLES
    Tpass,   \* Tpass
    t        \* t, as set by setT(max_mfs)

localizationVars == <<Tpass, t>>

-----------------------------------------------------------------------------
\* Mutant: the first row is taken for the header.
DropFirstRow(rows) ==
    [k \in 1 .. Len(rows) - 1 |->
        [i \in Params |-> IF rows[k + 1][i] = UNKNOWN THEN 0 ELSE rows[k + 1][i]]]

\* Mutant: "-" is kept.
RowsAsTheyAre(rows) == rows

\* The rows of a table as test cases: "-" is read as 0.
ReadRows(rows) ==
    [k \in 1 .. Len(rows) |->
        [i \in Params |-> IF rows[k][i] = UNKNOWN THEN 0 ELSE rows[k][i]]]

multiwayCA(strength) == ReadRows(tables[strength])

oneWayCA == <<[i \in Params |-> 0], [i \in Params |-> 1]>>

\* The largest number of parameters that a combination of M fixes.
max_mfs(M) ==
    CHOOSE k \in 0 .. N :
        /\ \E mf \in M : Cardinality(schemaOf(mf)) = k
        /\ \A mf \in M : Cardinality(schemaOf(mf)) <= k

testcases(strength) ==
    IF strength >= 2 THEN multiwayCA(strength) ELSE oneWayCA

\* The constructor up to the point where it creates the resolver.
LocalizationInit ==
    /\ MFS \in MFSSets
    /\ t \in 1 .. max_mfs(MFS)
    /\ LET all == testcases(t)
       IN /\ Tpass = Select(all, [k \in DOMAIN all |-> check(all[k], MFS)])
          /\ Tfail = Select(all, [k \in DOMAIN all |-> ~check(all[k], MFS)])
    /\ Constructed

\* The constructor throws: there is no -safe.csv file to read, or the resolver
\* rejects an empty Tfail.
ConstructorThrows == SafeValuesMissing \/ Tfail = <<>>

getRecall    == recall(MFS, MFC_identified)
getPrecision == precision(MFS, MFC_identified)
getF1        == f1(MFS, MFC_identified)

-----------------------------------------------------------------------------
\* What makes the rows of a table a covering array of its strength: each
\* combination of as many parameters is part of a row, whatever is read for
\* the row's "-".
TablesCover ==
    \A k \in 2 .. N : \A comb \in Comb :
        Cardinality(schemaOf(comb)) = k =>
            \E r \in 1 .. Len(tables[k]) : contains(tables[k][r], comb)

\* What the arrays are for: when their strength is that of the largest real
\* failure-causing combination, each one is part of a test case that is run, so
\* all are there to be found, and the constructor of the resolver does not meet
\* an empty list of failing test cases.
EveryFaultIsShown == t = max_mfs(MFS) => MFS = MFSInTfail
=============================================================================
