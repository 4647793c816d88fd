--------------------------- MODULE SmallPrograms ---------------------------
(***************************************************************************)
(* The fault sets and lists of failing test cases that the instances for   *)
(* TLC are made of.                                                        *)
(***************************************************************************)
EXTENDS Combinations

\* The value that causes failures, per parameter.  Flipping the values of a
\* parameter everywhere is a symmetry of the program, so one row is enough.
Unsafe == [i \in Params |-> (i + 1) % 2]

\* The combination of failure-causing values at the parameters of a schema.
CombOf(s) == [i \in Params |-> IF i \in s THEN Unsafe[i] ELSE UNKNOWN]

\* All fault sets over the failure-causing values, as sets of schemas.
Antichains ==
    {A \in SUBSET ((SUBSET Params) \ {{}}) :
        A # {} /\ \A r, s \in A : r \subseteq s => r = s}

SafeMFSSets == {{CombOf(s) : s \in A} : A \in Antichains}

\* Programs that have no safe value for parameter 0: one that always fails, and
\* two in which changing that parameter turns one failure into another.
Conflicting ==
    LET other(s) == [CombOf(s) EXCEPT ![0] = 1 - Unsafe[0]] IN
    {{CombOf({0}), other({0})},
     {CombOf({0}), other({0, 1})},
     {CombOf({0, 1}), other({0, N - 1})}}

EveryMFSSet == SafeMFSSets \cup Conflicting

\* Fault sets on four parameters: overlapping, disjoint, nested in size, and
\* one whose only member is the whole test case.
FourParamMFSSets ==
    {{CombOf(s) : s \in A} :
        A \in {{{0, 1, 2, 3}}, {{0, 1}, {1, 2, 3}}, {{0}, {1, 2, 3}},
               {{0, 3}, {1, 2}}, {{0, 1}, {1, 2}, {2, 3}},
               {{0, 1, 2}, {1, 2, 3}}, {{1}, {2}}}}

\* A program whose only fault is the whole failing test case.
WholeTestMFS == {{Unsafe}}

-----------------------------------------------------------------------------
\* The failing test case that shows every fault.
OneTestList == {<<Unsafe>>}

\* Two test cases that share failure-causing values.
Flipped(i) == [Unsafe EXCEPT ![i] = 1 - @]

\* One failing test case of any kind, or two.
OneOrTwoTests == {<<t>> : t \in Testcase} \cup {<<Unsafe, Flipped(0)>>}

\* One failing test case of any kind, or two of three different ones that share
\* failure-causing values, in either order.
Sharing == {Unsafe, Flipped(0), Flipped(N - 1)}

OneOrSharing ==
    {<<t>> : t \in Testcase} \cup {l \in Sharing \X Sharing : l[1] # l[2]}

\* Up to two of the test cases that the array may also hold and that may pass.
NoOrSomePassing ==
    {{}, {Flipped(0)}, {Flipped(N - 1)}, {Flipped(0), Flipped(N - 1)}}
=============================================================================
