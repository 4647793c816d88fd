---------------------------- MODULE Combinations ----------------------------
(***************************************************************************)
(* Parameter combinations and test cases (Common/Comb, Common/Testcase,    *)
(* the Comb side of Common/Schema), the oracle of Tester/Checker, and the  *)
(* safe values that scripts/benchmark-preprocess/computeSafeValue.py       *)
(* derives from a set of minimal failure-causing combinations.             *)
(*                                                                         *)
(* All model files of the repository are binary: a parameter is on or off. *)
(* A list of N Integers is a function on 0..N-1, so the length checks of   *)
(* the Java code (A.size() != B.size()) hold by the type of a Comb.        *)
(***************************************************************************)
EXTENDS Integers

CONSTANT N      \* the number of parameters of the system under test

ASSUME NAssumption == N \in Nat \ {0}

Params  == 0 .. N - 1
UNKNOWN == -1

Comb     == [Params -> {UNKNOWN, 0, 1}]
Testcase == [Params -> {0, 1}]

\* Every fixed parameter of B has the same value in A.
contains(A, B) == \A i \in Params : B[i] # UNKNOWN => A[i] = B[i]

\* A schema: the parameters it fixes.  Its logic_size is N.
Schema == SUBSET Params

\* new Schema(comb): the parameters that comb fixes.
schemaOf(comb) == {i \in Params : comb[i] # UNKNOWN}

\* schema.getComb(testcase): the values of testcase at the schema's parameters.
getComb(schema, testcase) ==
    [i \in Params |-> IF i \in schema THEN testcase[i] ELSE UNKNOWN]

-----------------------------------------------------------------------------
(***************************************************************************)
(* The oracle.  Checker.check answers TRUE when the test case passes.      *)
(***************************************************************************)

\* Checker.check: the test case passes iff it contains no combination of MFS.
check(testcase, MFS) == \A mf \in MFS : ~contains(testcase, mf)

\* A combination causes failures when it contains one that does.
Faulty(comb, MFS) == \E mf \in MFS : contains(comb, mf)

-----------------------------------------------------------------------------
(***************************************************************************)
(* Safe values.                                                            *)
(***************************************************************************)

\* The values that the rows of MFS give to parameter i.
ValuesAt(i, MFS) == {mf[i] : mf \in MFS} \ {UNKNOWN}

\* compute_safe_values returns a row and not None: no column holds 0 and 1.
HasSafeValues(MFS) == \A i \in Params : ~({0, 1} \subseteq ValuesAt(i, MFS))

\* The row: "-" where no row fixes the parameter, else the value none uses.
compute_safe_values(MFS) ==
    [i \in Params |-> IF ValuesAt(i, MFS) = {} THEN UNKNOWN
                      ELSE IF 1 \notin ValuesAt(i, MFS) THEN 1
                      ELSE 0]

\* Mutant: the case of an unknown safe value is forgotten.
PaddingUnknownKept(comb, safeValues, tfail) ==
    [i \in Params |-> IF comb[i] # UNKNOWN THEN comb[i] ELSE safeValues[i]]

(***************************************************************************)
(* Testcase.paddingWithSafeValues(comb, safeValues, tfail): a parameter    *)
(* that comb leaves open takes its safe value, or the opposite of its      *)
(* value in tfail when the safe value is itself unknown.                   *)
(***************************************************************************)
paddingWithSafeValues(comb, safeValues, tfail) ==
    [i \in Params |-> IF comb[i] # UNKNOWN THEN comb[i]
                      ELSE IF safeValues[i] # UNKNOWN THEN safeValues[i]
                      ELSE 1 - tfail[i]]

(***************************************************************************)
(* The rows of a -mfs.csv file are minimal failure-causing combinations:   *)
(* each fixes a parameter, and none contains another.                      *)
(***************************************************************************)
Irredundant(MFS) ==
    /\ \A mf \in MFS : schemaOf(mf) # {}
    /\ \A mf, other \in MFS : contains(mf, other) => mf = other
=============================================================================
