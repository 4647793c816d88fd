------------------------------- MODULE ComFIL -------------------------------
(***************************************************************************)
(* FaultResolver/ComFIL/ComFILFaultResolver: test the candidates one by    *)
(* one; a healthy one takes its parts with it, a faulty one what contains  *)
(* it.  What is left in the end is reported.                               *)
(***************************************************************************)
EXTENDS CandidateSets

VARIABLE todo    \* what the iteration over the copy has not reached

vars == <<resolverVars, Tpass, pc, candidates, todo>>

TypeOK ==
    /\ ResolverTypeOK
    /\ Tpass \subseteq Testcase
    /\ pc \in {"idle", "loop", "thrown"}
    /\ candidates \subseteq Comb
    /\ todo \subseteq Comb

Init == CandidatesInit /\ todo = {}

-----------------------------------------------------------------------------
\* conduct() up to the loop; conducted is set before the null check.
Conduct ==
    /\ pc = "idle"
    /\ ~conducted
    /\ conducted' = TRUE
    /\ IF SafeValuesMissing
       THEN pc' = "thrown" /\ UNCHANGED <<candidates, todo>>
       ELSE /\ pc' = "loop"
            /\ candidates' = InitialCandidates
            /\ todo' = InitialCandidates
    /\ UNCHANGED <<inputs, Tpass, MFC_identified, records>>

Reset ==
    /\ pc \in {"idle", "thrown"}
    /\ ResolverReset
    /\ pc' = "idle"
    /\ UNCHANGED <<Tpass, candidates, todo>>

\* Mutant: the case of an unknown safe value is forgotten.
PaddingsUnknownKept(comb) ==
    {[i \in Params |-> IF comb[i] # UNKNOWN THEN comb[i] ELSE safeValues[i]]}

\* paddingWithSafeValues(comb, safeValues): the padded test cases that the
\* random choice for parameters without a safe value may give.
Paddings(comb) ==
    {test \in Testcase :
        \A i \in Params :
            /\ comb[i] # UNKNOWN => test[i] = comb[i]
            /\ comb[i] = UNKNOWN /\ safeValues[i] # UNKNOWN =>
                   test[i] = safeValues[i]}

\* Mutant: a faulty candidate is removed along with what contains it.
RemainingWithoutFaulty(comb, passed) ==
    IF passed THEN {c \in candidates : ~contains(comb, c)}
    ELSE {c \in candidates : ~contains(c, comb)}

\* candidateSet after comb has been tested.
Remaining(comb, passed) ==
    IF passed THEN {c \in candidates : ~contains(comb, c)}
    ELSE {c \in candidates : contains(c, comb) => c = comb}

\* The iteration of the copy meets comb, which has been removed meanwhile.
Skip(comb) ==
    /\ comb \notin candidates
    /\ UNCHANGED <<records, candidates>>

\* check_with_safevalues(comb).
TestCandidate(comb) ==
    /\ comb \in candidates
    /\ \E test \in Paddings(comb) :
          /\ executedTestcase' = executedTestcase \cup {test}
          /\ IF check(test, MFS)
             THEN healthyCombs' = healthyCombs \cup {comb} /\ UNCHANGED faultyCombs
             ELSE faultyCombs' = faultyCombs \cup {comb} /\ UNCHANGED healthyCombs
          /\ candidates' = Remaining(comb, check(test, MFS))

\* A HashSet is iterated in any order.
Iterate ==
    /\ pc = "loop"
    /\ \E comb \in todo :
          /\ todo' = todo \ {comb}
          /\ Skip(comb) \/ TestCandidate(comb)
    /\ UNCHANGED <<inputs, Tpass, conducted, MFC_identified, pc>>

\* Mutant: the copy that was iterated is reported, not what is left.
FinishWithCopy ==
    /\ pc = "loop"
    /\ todo = {}
    /\ MFC_identified' = MFC_identified \cup InitialCandidates
    /\ candidates' = {}
    /\ pc' = "idle"
    /\ UNCHANGED <<inputs, Tpass, conducted, records, todo>>

FinishConduct ==
    /\ pc = "loop"
    /\ todo = {}
    /\ MFC_identified' = MFC_identified \cup candidates
    /\ candidates' = {}
    /\ pc' = "idle"
    /\ UNCHANGED <<inputs, Tpass, conducted, records, todo>>

-----------------------------------------------------------------------------
Work == Iterate \/ FinishConduct

Next == Conduct \/ Reset \/ Work

\* conduct runs to its end on the calling thread; clients need not call it.
Spec == Init /\ [][Next]_vars /\ WF_vars(Work)

-----------------------------------------------------------------------------
(***************************************************************************)
(* Properties.                                                             *)
(***************************************************************************)

\* Whatever the order of the iteration and the random padding, the report holds
\* the real failure-causing combinations of the failing test cases, all of them
\* and nothing else.
ExactIdentification ==
    pc = "idle" /\ conducted => MFC_identified = MFSInTfail

\* While candidates are removed in any order, no real failure-causing
\* combination is lost, and a candidate the iteration has passed is in the set
\* only if it is faulty and no faulty part of it has been passed as well.
CandidatesKeepFaults ==
    pc = "loop" =>
        /\ MFSInTfail \subseteq candidates
        /\ \A c \in candidates \ todo :
              /\ IsFaulty(c)
              /\ \A d \in candidates \ todo : contains(c, d) => d = c
=============================================================================
