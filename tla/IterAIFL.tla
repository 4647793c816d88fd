------------------------------ MODULE IterAIFL ------------------------------
(***************************************************************************)
(* FaultResolver/IterAIFL: without safe values, flip 1, 2, ... N - 1       *)
(* parameters of every failing test case; the candidates that a passing    *)
(* variant contains are cleared, the minimal ones left are reported.       *)
(***************************************************************************)
EXTENDS CandidateSets

VARIABLES
    strength,  \* the counter of the outer loop of conduct
    AT,        \* the test cases of this strength that have not been run
    todo       \* what the iteration of getMinimal has not reached

vars == <<resolverVars, Tpass, pc, candidates, strength, AT, todo>>

TypeOK ==
    /\ ResolverTypeOK
    /\ Tpass \subseteq Testcase
    /\ pc \in {"idle", "round", "tests", "minimal", "thrown"}
    /\ candidates \subseteq Comb
    /\ strength \in 1 .. N
    /\ AT \subseteq Testcase
    /\ todo \subseteq Comb

RoundInit == strength = 1 /\ AT = {}

Init == CandidatesInit /\ RoundInit /\ todo = {}

-----------------------------------------------------------------------------
\* Mutant: the other values are taken from the combination.
MutateCombination(k, tfail) ==
    {[i \in Params |-> IF comb[i] # UNKNOWN THEN 1 - tfail[i] ELSE comb[i]] :
        comb \in tWayComb(tfail, k)}

\* mutate(strength, tfail): the parameters of one combination are flipped.
mutate(k, tfail) ==
    {[i \in Params |-> IF comb[i] # UNKNOWN THEN 1 - tfail[i] ELSE tfail[i]] :
        comb \in tWayComb(tfail, k)}

\* getAT(strength, Tfail).  A test case that two failing ones yield is run
\* twice by the code, to the same effect.
getAT(k) == UNION {mutate(k, Tfail[l]) : l \in 1 .. Len(Tfail)}

Conduct ==
    /\ pc = "idle"
    /\ ~conducted
    /\ conducted' = TRUE
    /\ candidates' = InitialCandidates
    /\ strength' = 1
    /\ pc' = "round"
    /\ UNCHANGED <<inputs, Tpass, MFC_identified, records, AT, todo>>

Reset ==
    /\ pc \in {"idle", "thrown"}
    /\ ResolverReset
    /\ pc' = "idle"
    /\ UNCHANGED <<Tpass, candidates, strength, AT, todo>>

BeginRound ==
    /\ pc = "round"
    /\ strength < N
    /\ AT' = getAT(strength)
    /\ pc' = "tests"
    /\ UNCHANGED <<resolverVars, Tpass, candidates, strength, todo>>

\* Mutant: failing variants clear candidates as well.
RunClearsAlways ==
    /\ pc = "tests"
    /\ \E test \in AT :
          /\ executedTestcase' = executedTestcase \cup {test}
          /\ candidates' = RemoveContained(candidates, test)
          /\ AT' = AT \ {test}
    /\ UNCHANGED <<inputs, conducted, MFC_identified, healthyCombs, faultyCombs,
                   Tpass, pc, strength, todo>>

\* One test case of AT is run.  The order in which passing ones clear candidates
\* does not matter, so the list is a set.
Run ==
    /\ pc = "tests"
    /\ \E test \in AT :
          /\ executedTestcase' = executedTestcase \cup {test}
          /\ candidates' = IF check(test, MFS)
                           THEN RemoveContained(candidates, test) ELSE candidates
          /\ AT' = AT \ {test}
    /\ UNCHANGED <<inputs, conducted, MFC_identified, healthyCombs, faultyCombs,
                   Tpass, pc, strength, todo>>

\* The round ends with the check that throws "Implementation is wrong".
EndRound ==
    /\ pc = "tests"
    /\ AT = {}
    /\ pc' = IF candidates = {} THEN "thrown" ELSE "round"
    /\ strength' = IF candidates = {} THEN strength ELSE strength + 1
    /\ UNCHANGED <<resolverVars, Tpass, candidates, AT, todo>>

\* getMinimal(suspiciousSet) is called.  It copies the set and iterates over the
\* original, which nothing reads later: from here on candidates is the copy.
BeginMinimal ==
    /\ pc = "round"
    /\ strength >= N
    /\ todo' = candidates
    /\ pc' = "minimal"
    /\ UNCHANGED <<resolverVars, Tpass, candidates, strength, AT>>

\* The iteration meets a combination that has been deleted.
SkipDeleted(comb) ==
    /\ comb \notin candidates
    /\ UNCHANGED candidates

\* Mutant: comb is compared only with what the iteration has not reached.
DeleteLater(comb) ==
    /\ comb \in candidates
    /\ candidates' = {c \in candidates : c \in todo /\ contains(c, comb) => c = comb}

\* minimalSet.removeIf: every other combination that contains comb goes.
DeleteSupersets(comb) ==
    /\ comb \in candidates
    /\ candidates' = {c \in candidates : contains(c, comb) => c = comb}

\* A HashSet is iterated in any order.
Minimise ==
    /\ pc = "minimal"
    /\ \E comb \in todo :
          /\ todo' = todo \ {comb}
          /\ SkipDeleted(comb) \/ DeleteSupersets(comb)
    /\ UNCHANGED <<resolverVars, Tpass, pc, strength, AT>>

FinishConduct ==
    /\ pc = "minimal"
    /\ todo = {}
    /\ MFC_identified' = MFC_identified \cup candidates
    /\ candidates' = {}
    /\ pc' = "idle"
    /\ UNCHANGED <<inputs, Tpass, conducted, records, strength, AT, todo>>

-----------------------------------------------------------------------------
Work == BeginRound \/ Run \/ EndRound \/ BeginMinimal \/ Minimise \/ FinishConduct

Next == Conduct \/ Reset \/ Work

\* conduct runs to its end on the calling thread; clients need not call it.
Spec == Init /\ [][Next]_vars /\ WF_vars(Work)

-----------------------------------------------------------------------------
(***************************************************************************)
(* Properties.                                                             *)
(***************************************************************************)

\* Although no safe values protect the variants from other failures, a real
\* failure-causing combination of the failing test cases is never cleared, so
\* the exception "Implementation is wrong" is never thrown.
FaultsStaySuspicious ==
    /\ pc \in {"round", "tests"} => MFSInTfail \subseteq candidates
    /\ pc # "thrown"

\* Once conduct has returned, each real failure-causing combination contains a
\* reported one; no reported one contains another, in whatever order getMinimal
\* met them, and none is part of a passing test case that was known or run.
ReportCoversFaults ==
    pc = "idle" /\ conducted =>
        /\ \A mf \in MFSInTfail : \E c \in MFC_identified : contains(mf, c)
        /\ \A c, d \in MFC_identified : contains(c, d) => c = d
        /\ \A c \in MFC_identified : \A test \in Tpass \cup executedTestcase :
              check(test, MFS) => ~contains(test, c)
=============================================================================
