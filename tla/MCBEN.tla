---- MODULE MCBEN ----
\* Small instances of BEN, with the covering arrays of src/main/resources/tables.
EXTENDS BEN, SmallPrograms

\* A list of the files for strength 2, 3, ... as a function of the strength.
Rows(files) ==
    [k \in 2 .. N |->
        [r \in 1 .. Len(files[k - 1]) |-> [i \in Params |-> files[k - 1][r][i + 1]]]]

\* 2x2/ca.2.2^3.txt and 3x2/ca.3.2^3.txt.
TablesOfThree ==
    Rows(<<
        <<<<0, 0, 1>>, <<0, 1, 0>>, <<1, 0, 0>>, <<1, 1, 1>>>>,
        <<<<0, 0, 0>>, <<0, 1, 0>>, <<1, 0, 0>>, <<1, 1, 0>>,
          <<1, 0, 1>>, <<0, 1, 1>>, <<1, 1, 1>>, <<0, 0, 0>>>>>>)

\* 2x2/ca.2.2^4.txt, 3x2/ca.3.2^4.txt and 4x2/ca.4.2^4.txt.
TablesOfFour ==
    Rows(<<
        <<<<0, 0, 1, 0>>, <<0, 1, 0, 1>>, <<1, 0, 0, 1>>, <<1, 1, 1, 0>>,
          <<UNKNOWN, UNKNOWN, 0, 0>>, <<UNKNOWN, UNKNOWN, 1, 1>>>>,
        <<<<0, 0, 0, 1>>, <<0, 0, 1, 0>>, <<0, 1, 0, 0>>, <<0, 1, 1, 1>>,
          <<1, 0, 0, 0>>, <<1, 0, 1, 0>>, <<1, 1, 0, 1>>, <<1, 1, 1, 0>>,
          <<1, 0, 1, 1>>>>,
        <<<<1, 0, 0, 0>>, <<0, 1, 0, 0>>, <<0, 0, 1, 0>>, <<0, 0, 0, 1>>,
          <<1, 1, 0, 0>>, <<1, 0, 1, 0>>, <<1, 0, 0, 1>>, <<0, 1, 1, 0>>,
          <<0, 1, 0, 1>>, <<0, 0, 1, 1>>, <<1, 1, 1, 0>>, <<1, 0, 1, 1>>,
          <<1, 1, 0, 1>>, <<0, 1, 1, 1>>, <<1, 1, 1, 1>>, <<0, 0, 0, 0>>>>>>)

-----------------------------------------------------------------------------
\* M with the failure-causing values of the row b.
WithValues(b, M) ==
    {[i \in Params |-> IF mf[i] = UNKNOWN THEN UNKNOWN ELSE b[i]] : mf \in M}

\* Every fault set over the values of a row, for each row: the arrays treat
\* values differently.  And programs for which no safe values exist.
AnyValuesOrConflicting ==
    {WithValues(b, M) : b \in Testcase, M \in SafeMFSSets} \cup Conflicting
====
