--------------------------- MODULE CandidateSets ---------------------------
(***************************************************************************)
(* What ComFIL and IterAIFL share: they start from every combination of    *)
(* the failing test cases, less those that a passing test case of the      *)
(* covering array contains, and narrow this set of candidates down.        *)
(***************************************************************************)
EXTENDS FailingTests

CONSTANT PassSets   \* the sets of passing test cases an array may yield

ASSUME PassSetsAssumption == PassSets \subseteq SUBSET Testcase

VARIABLES
    Tpass,      \* Tpass
    pc,         \* where control is
    candidates  \* candidateSet of ComFIL, suspiciousSet of IterAIFL

\* testcase.powerSet(), which leaves out the empty combination.
powerSet(testcase) == UNION {tWayComb(testcase, t) : t \in 1 .. N}

\* removeIf(candidate -> Comb.contains(testcase, candidate)).
RemoveContained(set, testcase) == {c \in set : ~contains(testcase, c)}

\* The candidates that conduct starts from.
InitialCandidates ==
    {c \in UNION {powerSet(Tfail[k]) : k \in 1 .. Len(Tfail)} :
        \A tpass \in Tpass : ~contains(tpass, c)}

CandidatesInit ==
    /\ ResolverInit
    /\ Tpass \in PassSets
    /\ \A tpass \in Tpass : check(tpass, MFS)
    /\ pc = "idle"
    /\ candidates = {}
=============================================================================
