------------------------------- MODULE SOFOT -------------------------------
(***************************************************************************)
(* FaultResolver/SOFOT/SOFOTFaultResolver: change one parameter of the     *)
(* failing test case at a time; those whose change makes it pass are the   *)
(* reported combination.  With safe values the parameter is taken away and *)
(* padded, without them its value is flipped in the test case itself.      *)
(*                                                                         *)
(* Without safe values the mutable test case that is flipped and flipped   *)
(* back is itself what Checker keeps in executedTestcase; here the set     *)
(* holds the test cases that were run.                                     *)
(***************************************************************************)
EXTENDS FailingTests

VARIABLES
    pc,       \* where control is
    next,     \* position in Tfail of the outer loop
    t,        \* the combination, or the test case, that is changed in place
    i,        \* the counter of the inner loop
    related   \* the local MFS: the parameters related to the failure

loopVars == <<pc, next, t, i, related>>
vars == <<resolverVars, loopVars>>

TypeOK ==
    /\ ResolverTypeOK
    /\ pc \in {"idle", "tfail", "param"}
    /\ next \in 1 .. Len(Tfail) + 1
    /\ t \in Testcase
    /\ i \in 0 .. N
    /\ related \subseteq Params

Init ==
    /\ ResolverInit
    /\ pc = "idle"
    /\ next = 1
    /\ t = Tfail[1]
    /\ i = 0
    /\ related = {}

-----------------------------------------------------------------------------
Conduct ==
    /\ pc = "idle"
    /\ ~conducted
    /\ conducted' = TRUE
    /\ pc' = "tfail"
    /\ next' = 1
    /\ UNCHANGED <<inputs, MFC_identified, records, t, i, related>>

Reset ==
    /\ pc = "idle"
    /\ ResolverReset
    /\ UNCHANGED loopVars

BeginTestcase ==
    /\ pc = "tfail"
    /\ next <= Len(Tfail)
    /\ t' = Tfail[next]
    /\ i' = 0
    /\ related' = {}
    /\ pc' = "param"
    /\ UNCHANGED <<resolverVars, next>>

FinishConduct ==
    /\ pc = "tfail"
    /\ next > Len(Tfail)
    /\ pc' = "idle"
    /\ UNCHANGED <<resolverVars, next, t, i, related>>

\* conduct_with_safevalues, one parameter: t.set(i, UNKNOWN), check, reset.
TakeAway ==
    LET comb == getComb(Params \ {i}, t) IN
    /\ pc = "param"
    /\ i < N
    /\ ~SafeValuesMissing
    /\ check_with_safevalues(comb, Tfail[next])
    /\ related' = IF Healthy(comb, Tfail[next]) THEN related \cup {i} ELSE related
    /\ i' = i + 1
    /\ UNCHANGED <<inputs, conducted, MFC_identified, pc, next, t>>

\* Mutant: the value is not flipped back.
FlipAndKeep ==
    LET flipped == [t EXCEPT ![i] = 1 - @] IN
    /\ pc = "param"
    /\ i < N
    /\ SafeValuesMissing
    /\ executedTestcase' = executedTestcase \cup {flipped}
    /\ related' = IF check(flipped, MFS) THEN related \cup {i} ELSE related
    /\ t' = flipped
    /\ i' = i + 1
    /\ UNCHANGED <<inputs, conducted, MFC_identified, healthyCombs, faultyCombs,
                   pc, next>>

\* conduct_without_safevalues, one parameter: flip(i), check, flip(i).
Flip ==
    LET flipped == [t EXCEPT ![i] = 1 - @] IN
    /\ pc = "param"
    /\ i < N
    /\ SafeValuesMissing
    /\ executedTestcase' = executedTestcase \cup {flipped}
    /\ related' = IF check(flipped, MFS) THEN related \cup {i} ELSE related
    /\ i' = i + 1
    /\ UNCHANGED <<inputs, conducted, MFC_identified, healthyCombs, faultyCombs,
                   pc, next, t>>

\* Mutant: the test for an empty MFS is dropped.
EndWithEmpty ==
    /\ pc = "param"
    /\ i = N
    /\ MFC_identified' = MFC_identified \cup {getComb(related, Tfail[next])}
    /\ next' = next + 1
    /\ pc' = "tfail"
    /\ UNCHANGED <<inputs, conducted, records, t, i, related>>

EndTestcase ==
    /\ pc = "param"
    /\ i = N
    /\ MFC_identified' = IF related = {} THEN MFC_identified
                         ELSE MFC_identified \cup {getComb(related, Tfail[next])}
    /\ next' = next + 1
    /\ pc' = "tfail"
    /\ UNCHANGED <<inputs, conducted, records, t, i, related>>

-----------------------------------------------------------------------------
Work == \/ BeginTestcase
        \/ FinishConduct
        \/ TakeAway
        \/ Flip
        \/ EndTestcase

Next == Conduct \/ Reset \/ Work

\* conduct runs to its end on the calling thread; clients need not call it.
Spec == Init /\ [][Next]_vars /\ WF_vars(Work)

-----------------------------------------------------------------------------
(***************************************************************************)
(* Properties.                                                             *)
(***************************************************************************)

\* The parameters that all failure-causing combinations of a test case share.
CommonPart(test) ==
    {p \in Params : \A mf \in MFSIn(test) : p \in schemaOf(mf)}

\* With safe values the report of conduct is, for each failing test case, what
\* its failure-causing combinations have in common, and nothing when they have
\* nothing in common: exact for a single combination, too little for several.
ReportsCommonPart ==
    pc = "idle" /\ conducted /\ ~SafeValuesMissing =>
        MFC_identified =
            {getComb(CommonPart(Tfail[k]), Tfail[k]) :
                 k \in {l \in 1 .. Len(Tfail) : CommonPart(Tfail[l]) # {}}}

\* Without safe values a flip may bring in another failure and hide a related
\* parameter, but no unrelated one is ever reported.
NothingUnrelated ==
    pc = "param" => related \subseteq CommonPart(Tfail[next])
=============================================================================
